# Wasabi in TLA+

Wasabi (`src/wasabi`) is a small x86-64 kernel in Rust, started by UEFI. It
draws on the firmware's frame buffer, leaves the firmware, builds a heap,
descriptor tables and page tables of its own, installs exception handlers, and
ends by leaving QEMU. This directory models it, checks it with TLC on small
instances, and proves what matters most with TLAPS for all instances.

## The system

| Component | State it keeps | Operations | What makes it correct |
|---|---|---|---|
| Heap (`allocator.rs`) | a `Header` at the start of every block, a linked list of them from `first_header` | `init_with_mmap`, `alloc`, `dealloc` | blocks cover the regions without gap or overlap; the list reaches all of them and ends; a pointer handed out is backed, aligned and shared with nobody |
| Leaving the boot services (`uefi.rs`, `init.rs`) | `MemoryMapHolder` (buffer, size, key, size of a descriptor) | `get_memory_map`, `exit_from_efi_boot_services`, the iterator, `init_basic_runtime` | the map in hand when the firmware is left is the current one, and all of it; only memory the firmware left free reaches the heap |
| Exceptions (`x86.rs`) | interrupt stacks, the frame of each exception | the gates, the entry points, `inthandler_common`, `inthandler` | what returns restores everything; the report shows what was interrupted; alignment |
| Segments and task state (`x86.rs`) | GDT, TSS, IDT, and the registers that name them | `init_exceptions` | each vector reaches its own handler on its own stack, for every address; an exception resets the machine only between `lgdt` and `lidt` |
| Page tables (`x86.rs`) | four levels of tables in heap memory | `PML4::new`, `create_mapping` | the processor's walk finds each page where the call said, and no other page moves; the tables stay a tree |
| Switch of page tables (`init.rs`) | `end_of_mem`, cr3 | `init_paging` | all memory in use stays where it was |
| Drawing (`graphics.rs`) | the frame buffer | `fill_rect`, `draw_line`, `draw_test_pattern` | nothing is written outside the buffer; what is drawn is what was asked |
| Text on the screen (`graphics.rs`, `uefi.rs`) | the cursor of a `VramTextWriter` | `draw_font_fg`, `draw_str_fg`, `write_str` | a text looks the same however `write!` cuts it |
| Serial port, print macros (`serial.rs`, `print.rs`) | none in memory; the UART | `send_char`, `write_str`, `hexdump` | no byte overwrites another, bytes come in order, output ends; a dump shows its data |
| Boot sequence (`main.rs`, `lib.rs`) | - | `efi_main` | each part is used only after what it needs is there |
| Test harness (`test_runner.rs`, `qemu.rs`, `launch_qeme.sh`) | QEMU's exit code | `test_runner`, `panic`, `exit_qemu` | PASS means that every test ran to its end |

How they interact. `efi_main` calls the parts one after another. The firmware
hands over a memory map, which `init_with_mmap` and `init_paging` both iterate.
`Box::new` calls the heap: page tables, interrupt stacks, GDT and IDT are heap
memory. The processor calls into the kernel through the IDT. Everything prints
through COM1 and every panic ends in `exit_qemu`.

What is hard. There is one processor and no scheduler. Concurrency comes from
the firmware, which may change its memory map between `GetMemoryMap` and
`ExitBootServices`, from exceptions, which strike between any two
instructions, also inside a handler or between a poll and a write, from the
UART, and from whoever ends QEMU. Failure is the refusal by the firmware, a
protocol that is missing, a test that takes the machine down, and a heap that
runs out in the middle of building tables. The rest of the difficulty is long
sequences of legal calls (a list spliced and carved thousands of times) and
arithmetic on addresses (rounding, alignment, page 0, four levels of indices,
corners of an i64, descriptors that cut an address into pieces).
`PROJECT.json` lists each hazard at its line.

## Modules

| Module | Models | Its state in the code |
|---|---|---|
| `LayoutArith` | rounding and placement arithmetic of a request | pure; a usize of `USIZE_BITS` bits |
| `LayoutProperties` | what that arithmetic has to do, for every pair of arguments | pure; the state is the pair |
| `FirstFitAllocator` | the heap; extends `LayoutArith` | `headers` is the memory that holds `Header`s (address to record), `first_header` the `RefCell`, `header` the cursor of `alloc_with_options`, `live` the pointers that callers hold |
| `HeapContract` | what a `GlobalAlloc` promises, abstractly | `pool`, `pending`, `live`; refined by `FirstFitAllocator` |
| `BootServices` | the exit loop and the walk of the map | `memory_map_buffer`, `memory_map_size`, `map_key`, `descriptor_size` are the holder's fields; `efi_*` are the firmware's |
| `Interrupts` | gates, entry points, frame, handler, return | `cpu` the registers, `mem` the words of the interrupt stacks |
| `Segments` | `init_exceptions` step by step, and what the processor makes of the tables in between | `gdt`, `idt` and the TSS as the fields the code writes; the registers that name them |
| `PageTables` | `PML4::new`, `create_mapping` | `tables` the entries (words, attributes in the low 12 bits) by frame; `addr`, `level`, `table` the loop |
| `AddressSpace` | what a caller of `create_mapping` relies on, abstractly | `space`, the translation of each page; refined by `PageTables` |
| `InitPaging` | `init_paging`; extends `PageTables` and composes it with the scan of the memory map, or with another caller | `end_of_mem`, `cr3` |
| `Bitmap` | the frame buffer, the bounds check, the pixels of a rectangle and of a line | `written`, the byte addresses written so far |
| `Drawing` | single calls of `fill_rect` and `draw_line` | `call`, `point` its loop variable, `result` |
| `Font` | the parse of font.txt, glyphs, `draw_font_fg`, `draw_str_fg` | pure |
| `TestPattern` | `efi_main`'s first drawing, call by call | `drawn`, what each call has written; `lost`, how many answered with an `Err` that is dropped |
| `TextWriter` | `VramTextWriter` | `cursor_x`, `cursor_y` |
| `Screen` | composes the three clients of the frame buffer | - |
| `Hexdump` | `hexdump_bytes`, a byte a step | `ascii` and its fill `column` (`i`), the output as tokens |
| `Serial` | prints on the ports, with exceptions in between | the UART's transmit register, the stack of what was interrupted |
| `TestHarness` | test runner, panic, exit code, launch script | `log`, QEMU's exit code, the script's status |
| `BootSequence` | `efi_main`; extends `Segments` and takes its steps | what each part has left behind: boot services, heap blocks, tables, cr3; `machine`, what there is |
| `IntegerFacts`, `*_proofs` | lemmas and theorems | |
| `MC*` | instances for TLC | |

One action stands for one step that something else could interleave with or
observe: one descriptor of a memory map, one header visited by the walk, one
table level, one phase of an exception, one poll, one point of a line.
`Header::provide` is one action with all its writes, because nothing runs
beside it. A definition that begins with the comment "Mutant" is an alternative
that a plausible bug would produce; the specifications never use it, and each
property is known to fail with one of them.

What is abstracted. Headers keep their three fields and real byte addresses;
user data is not stored, `NoOverlap` speaks of address ranges instead. Sizes in
`BootServices` count descriptors: `descriptor_size` is 0 until the firmware has
written it, and then 1; pages have three types. What `BootServices` finds of the
exit loop is three outcomes of one step in `BootSequence`: left, not left but
taken for it, or stopped at the assertion. `EfiStatus` has only `Success`, so comparing another value is
undefined: the build's choice is the constant set `Comparisons`. Registers hold
one number each, the FPU state is one number that fills its 64 words; a
handler's own stack use below the frame is left out. Page tables have `ENTRIES`
entries instead of 512. `heap` in `PageTables` is the list of frames that the heap
will give; that they are aligned, distinct and free is what
`FirstFitAllocator` shows. An i64 has `I64_LIMIT` instead of 2^63, and whether
an overflow panics or wraps is the build's choice (`OverflowChecks`); colours are
left out. A GDT entry is the set of its one bits, and an address is cut into
digits of base `HALF_RADIX` where the code cuts bytes. A text is a sequence
of codes, and the wording of prints and reports is left out.

External, modelled from how the code uses it: the firmware's memory map,
`GetMemoryMap` (writes the size it needs even when the buffer is too small, and then
the key and the size of a descriptor or not: EDK2 does), `ExitBootServices`
(refuses a key that is not current), what a firmware that was not left does
with memory it took back, the firmware's own
exception handlers, the processor's delivery of exceptions and its page walk, the
UART, QEMU and its debug exit device, the panic on failed allocation.

## Runs

| Run | Question | Bounds, and why they are enough |
|---|---|---|
| `functions` | does rounding meet its reference, does the sum in `can_provide` wrap, does a dump show its data, does drawing stay inside, and is what is drawn what was asked? | one of the three subjects in each behaviour. All 1024 sizes and 10 alignments of a 10-bit usize: the arithmetic depends on the width only through the top bit; all data of up to five bytes of five kinds in rows of two: a full row, a second one, and a shorter one that reuses the buffer. Three small screens, without padding, with padding, and with lines shorter than the screen is wide; corners and sizes around their edges and the edges of an i64 of 11 bits; every line from one pixel outside to one pixel outside; the test pattern with squares of 3 x 3 on some 500 screens, from those that are too small to those that are ample; texts of up to five characters in 2 x 2 glyphs, cut in every way, with an undefined character, a short glyph, codes beyond ASCII and one beyond a byte |
| `non_ascii_text` (violation) | has a character beyond ASCII no glyph? | the screens and texts of `functions` |
| `heap` | do list, blocks and pointers stay in order under all sequences of calls, is `HeapContract` implemented, does every walk end? | 16-bit addresses; maps with page 0, a region too small, a firmware region, adjacent regions listed downwards, and none; layouts that split with and without padding and one that never rounds. Regions hold three to five blocks, so lists get split, exhausted and spliced in the middle |
| `free_heap` (violation) | does a heap that got everything back serve again? | the same |
| `boot_services` | is the map current at the exit, is only free memory given to the heap, does the loop end? | four pages, so maps of two to four descriptors around a buffer of three, reported in any order; the map changes up to three times (`MaxKey`), so every turn can be made stale and the buffer can be outgrown before the first turn or between turns, also by a map that the buffer would hold while the size offered does not; with each of these, the key and the size of a descriptor written or not; both outcomes of comparing a failure |
| `boot_derived_eq` (violation) | is the loop left only after a success? | the same with a larger buffer and the derived equality |
| `interrupts` | does what returns restore everything, are frames aligned, do overwritten frames stay dead? | two programs with distinct values in every register, alternating on the same stack; up to two exceptions at once (`MaxNesting`): a third repeats the second |
| `fault_info` (violation) | does the report of a fault show what was interrupted? | the same |
| `init_paging` | does `create_mapping` do what `AddressSpace` says, do tables stay a tree, is all memory in use mapped to itself when cr3 is written? | three entries a table, 81 pages; `init_paging` with memory that ends below and above `MIN_END` (4 GiB in the code), listed out of order, tables at both ends of memory, and a heap that runs out; another caller with ranges that cross tables of each level and overlap, unmapping, a range that ends before it starts, misaligned arguments, enough frames and too few |
| `serial` | are bytes lost, overwritten or out of order, does the machine stop? | two ports and both ways to print, one `int3`, and two exceptions that do not return, the second in the handler or the panic of the first |
| `test_harness` | what do PASS and the exit status say of the tests? | all suites of up to three tests with each of five outcomes; a user who quits QEMU |
| `boot_sequence` | who handles an exception at each step of the boot, does a boot fail for no other reason, does it end? | machines of up to eight pages with and without each protocol, a screen too small, a firmware that keeps still or not, room for its map or not, the stack below, between and above the memory in use, every amount of heap; addresses of eight binary digits, the TSS at each of the 256 |

Deadlock is checked in the heap, whose callers never stop. All other runs leave it
unchecked, because the behaviours end: in a panic, in the exit from QEMU, in the next
part of the boot, or with the last argument.

Fairness. `FirstFitAllocator`: weak fairness of the call in progress and of
`init_with_mmap`, since the processor goes on executing a loop it has entered; no
caller has to call. `BootServices`: weak fairness of the kernel's steps; the
firmware always returns the processor to its caller. That the retry loop ends
also needs a firmware that stops changing its map, which `MaxKey` says. `BootEnds`
has two parts: a build that compares statuses faithfully leaves the loop or panics
in any case; and every build gets to the end of the map if each fetch is offered
room enough (`HasRoom`). Neither part holds without its condition.
`Serial`: weak fairness of the kernel, which the processor executes, and of each
UART, which empties its register on its own clock; exceptions need not come.
`TestHarness`: weak fairness of the guest and of the script; the user need not
do anything, and a test that loops or a machine that resets over and over is
part of the model, so what `HarnessEnds` says is that only those keep it from
ending. `BootSequence`: weak fairness of `efi_main`. The others state safety
only.

## What the checks show

The heap's structure, the exit protocol with a faithful comparison of
statuses, the breakpoint path, the descriptor tables, the page tables, drawing,
serial output and the order of the boot hold up. Four things do not:

1. `free_heap`: `dealloc` only clears a flag. `can_provide` asks for
   `size + 64 + align` while the block that was carved for `size` has `size + 32`,
   and neighbours are never merged. So a block can never serve its own layout
   again, and a heap whose blocks were all given back can refuse a request. The
   doc of `dealloc` says that the memory remains on the list as free memory.
2. `boot_derived_eq`: `EfiStatus` lists one variant, so its derived `==` is the
   constant true. A refused `ExitBootServices` then ends the loop that the doc says
   retries, and `assert_eq!` on `GetMemoryMap` asserts nothing. So when the map does
   not fit the buffer, the kernel goes on: with a firmware that writes the key all
   the same, as EDK2 does, the exit succeeds, and the iterator walks beyond the
   buffer to a size that the buffer does not have; with one that writes only the
   size, the exit is refused, the refusal is not seen, and the iterator, whose
   `descriptor_size` is still 0, never ends. `ExitedWithCurrentMap`, `HeapIsFree`
   and `BootEnds` name these cases and say that there are no others.
3. `fault_info`: `interrupt_entrypoint_with_ecode!` pushes three words where
   `InterrupInfo` has room for one. The error code, rip and the others are shown
   from the wrong words; the page fault report decodes the vector's number.
4. `non_ascii_text`: the doc of `lookup_font` (`graphics.rs:160`) says that only ASCII has
   glyphs and that U+0080 and above gives `None`. The code asks `u8::try_from`, which
   succeeds up to U+00FF, and font.txt defines all 256 codes, so those characters are
   drawn. `ScreenShowsText` takes the glyphs as the code has them.

Smaller observations, which the models reproduce:

- In a build that compares statuses faithfully, a map that has grown between two turns
  panics at `uefi.rs:411` although the buffer has room: the retry offers as the size of
  the buffer what the last call has written there, the size of the last map.
  `NoOtherReason` counts this, and a map larger than the buffer, as a lack of room.
- `draw_line` leaves out its end point, and for a single point it draws nothing:
  the branch for `da == 0` cannot be reached.
- `hexdump` shows 0x7f as `.` in a full row (`print.rs:92`), but as itself in a last row
  that is not full (`print.rs:123`), and prints no line break between rows.
  `DumpShowsData` takes the first rule for every row and lets the last row show 0x7f
  either way, so that it would hold of a code that agrees with itself as well.
- The comment of `hexdump_bytes` (`print.rs:67-68`) is out of date: it calls the function a
  stub without a body, whose loop prints nothing. The function dumps its data, and
  `DumpShowsData` says how.
- `write_str` of a `SerialPort` always sends to COM1 (`serial.rs:82`), whatever
  port the value stands for. The kernel prints nowhere else.
- Under the derived equality a protocol that is missing yields a null reference
  (`uefi.rs:275`). `NoOtherReason` counts it among the reasons of a failed boot.
- `init_paging` does not map the stack, which belongs to the firmware, when that
  lies above all memory in use (`init.rs:45`); `write_cr3` asks its caller for a
  mapping of the stack. This is another of the reasons that
  `NoOtherReason` names.
- An exception that comes between `lgdt` and `lidt` resets the machine:
  the firmware's gates name a selector that the new GDT does not have.
  `ResetOnlyInWindow` says that nothing else does.
- `BIT_CS_READABLE` is bit 53, which is the L bit of a descriptor, and both
  limits that the code loads are larger than the tables by a byte or, by the G bit,
  far more. Nothing follows from it.
- QEMU is started without `-no-reboot`: a test that ends in a triple fault is
  run again without end, and the script never returns.
- One row of glyph 0xb8 in font.txt has nine columns; the ninth is dropped.

## What is proved

Every theorem is about a specification that a run checks, for every value of the
constants that meets the named assumptions of its module. `functions` checks three
of them side by side, `ArgSpec`, `DumpSpec` and the `Spec` of `Screen`; the specification
of `Serial`, which shares a module of proofs with others, is `SerialSpec`. All safety properties that the
passing runs check are proved. The theorems are in seven modules, by component.

`FirstFitAllocator_proofs` begins with the arithmetic, for every width from 8 bits
on: what rounding gives, and where rounding down to an alignment can end up.
`Pow2[n]` is a constant described by its recurrence, since the provers know nothing of
`2^n`. `RoundsToLeastPower` says that `round_up_to_nearest_pow2` finds the least power
that is enough (a power between would lie between two neighbours), and
`SpaceDoesNotWrap` that `can_provide`'s sum does not wrap for any `Layout`: a size that
rounds up to half of the address space leaves room only for a smaller alignment.
For the heap it proves, for every memory map, set of layouts and width:

- the inductive invariant `HeapInv`: `TypeOK /\ Tiled /\ HeldBacked /\ FirstFit`
  (`InvariantHolds`), and from it `TypeCorrect`, `TilingHolds`, `HeldBlocksBacked`,
  `FirstFitHolds`;
- `NoOverlapHolds` and `SplitFitsHolds`, which follow from it;
- `ImplementsContract`: `Spec => KeepsContract`, the refinement of the safety
  part of `HeapContract`.

The assumptions are what UEFI says of a memory map (`MemoryMapAssumption`: page aligned,
disjoint, below the end of the address space), what `core::alloc::Layout`
guarantees (`LayoutAssumption`), and the recurrence of powers of two. None of the
properties is inductive alone. That a carved pointer is
apart from all others needs blocks that do not overlap (`BlocksDisjoint`) and the
knowledge that a held pointer lies in a block marked allocated (`HeldBacked`). That
a gap has room for a header needs blocks that are multiples of a header
(`BlocksInUnits`). That the walk has seen all blocks when it returns null needs
the list to visit blocks in order (`BlocksLinked`, `RegionsListed`), for which
`Precedes` gives the order. The step that carries the weight is
`WalkProvide`: `CutBounds` places the three blocks that `Header::provide` makes
inside the one it cuts, `CarvedHeaders` computes the new list, and `CutTiling` and
`CutHeld` show that the cut disturbs no other block.

`BootServices_proofs` proves `ExitInv`, and from it `TypeOK`,
`ExitedWithCurrentMap` and `HeapIsFree`, for every memory, size of the buffer and
build. The invariant says that a holder whose key is current holds a report of
the map as it is, all of it within the buffer (`Whole`), provided that a map too large does
not go unnoticed (`Noticed`); and how far the walk, in steps of the size that the
firmware has written, has given the map to the heap. A report is
made of runs of pages of one type; that every page lies in exactly one of them
is `PageInRun`, from least elements.

`Screen_proofs` proves `ScreenInv`, and from it `InsideBuffer`, `FillsExactly`,
`LineFollows` and `PatternFits`, for every screen the firmware can report,
every call and both kinds of build. `RectAsked` is what the checks of corners
leave of a rectangle when `px + w - 1` wraps; `SlopeNearest` is that
`calc_slope_point` rounds to the nearest pixel and stays between its end points,
in each of the eight directions.

Two more invariants of that module rest on `ScreenInv`. `TextInv` says that the
cursor stands behind the text: its line is the number of new lines so far, its column that
of the characters in this line (`LinesIn`, `ColumnsIn`). `CellNext` is how the two
numbers go on, `CellsStay` that more text moves no earlier character; hence
`ScreenShowsText`, for every font, however the text is cut. `TypesInv` says that the parts
of the test pattern add up to what is on the screen, which completes `TypeOK`.

`Interrupts_proofs` proves `TypeOK`, `InfoOfTrap`, `Aligned`, `OverwrittenFramesDie` and
the action property `Resumed`, for every program, error code and depth of nesting.
`HandlingInv` follows one exception: from the frame that the processor pushes
(`AtEntry`) through the words of the entry point (`AtCommon`) to the `InterrupInfo`
(`AtHandler`) and back (`AtRestore`), and says which word of the stack holds which
register of what was struck. Nothing is known of the frames below it: only a breakpoint
ever returns, and no handler executes one, so none of them goes on (`Nesting`). `Lists`
carries the weight: the order in which `inthandler_common` pushes is the reverse of the
order of fields in `GeneralRegisterContext`. `InfoOfFault` has no such proof, as
`fault_info` shows: with an error code the saved words are one place off.

`Output_proofs` is about sequences that grow at their end. `PassMeansAllRan` and
`FailureIsSeen` are proved for suites of any length and any number of boots; the
invariant says what the log is after `n` tests (`LogUpTo`). `OutputInOrder` is proved for
any ports, texts and number of exceptions: `SerialInv` says that only the newest print is
ever gone on with, since a breakpoint, which alone returns, lies between two prints, and
that a port polled ready still has an empty register when it is written, since whoever
came between does not return. `DumpShowsData` is proved for all data and every width
of a row: `DumpInv` says that the rows before this one are printed and that the buffer
holds the bytes of this one (`RowTokens` with the byte that counts as the last printable
one, which differs in the last row), and `RowIs` that a row can be printed from it although what
an earlier row left behind in the buffer is never cleared. Both rest on what `FlattenSeq`
does with one sequence more (`FlattenLast`). The library defines it by a
choice of a recursive function; that there is such a function, and only one, is shown
through the least place at which one would be missing or two would differ.

`BootSequence_proofs` proves `ResetOnlyInWindow`, `HandledByItsOwn` and
`NoOtherReason` for every machine, base of digits and code segment of the
firmware. `BootInv` says, step by step, which tables exist,
which registers name them and what is left of the heap, and that on a machine that lacks
nothing the firmware is gone before the heap gives out anything. That the fields of a
gate and of the TSS descriptor yield the address back is `LowDigits`, twice
or three times; that memory has an end is `Greatest`.

`PageTables_proofs` proves, for every number of entries, heap, memory map and sequence
of calls, `TypeOK`, `TableTree`, `WalkOnPath` and `SwitchKeepsMemory` as invariants of
`InitPaging`, and `MapsAsAsked`, the refinement of `AddressSpace`. It assumes what the
module assumes of the heap's frames (aligned, distinct, not 0), of ranges (inside the
address space) and of the memory map (page aligned, a used descriptor inside the address
space). The walk is described as a function `Path` of the tables, so that
two sets of tables can be compared. `Tree` is the inductive part: entries above the PTs
lead to tables (`Closed`), two pages meet in a table only at one level and with the same
indices above (`Apart`), every table is on some page's path (`Covered`). From it
`EntryWritten` shows that writing the entry of a PT moves one page, since the four
indices tell a page from all others (`IndicesDetermine`, from `LowDigits`), and
`TableLinked` that linking a cleared table in moves none. `AsAsked` says that the
pages behind the loop variable are as the call wants them, `Scanned` that no used
descriptor behind the iterator ends above `end_of_mem`.

`IntegerFacts` has what several of these need: order and products, division
with remainder, digits, least and greatest elements.

Only model-checked is liveness: `AllocReturns`, `BootEnds` of both boots,
`MachineStops` and `HarnessEnds`, because the prover handles neither fairness nor ENABLED.
Theorems of induction with an operator as a parameter are out of its reach as well;
where an argument goes by induction over numbers, it takes the least counterexample
(`Least` in `IntegerFacts`) instead. The four properties of the violation runs are false
of the code, and nothing is proved of them.

## Not modelled

- `SerialPort::init`: nothing calls it.
- Layouts of the firmware's tables and GUIDs: data that no step depends on.
- `next_level` and the dump of the tables: they only read. They take a large page
  for a table; nothing in the code says otherwise.
- The cache of glyphs: a pure function of the font file.
- Compiler effects of inline assembly (`write_cs` changes rax without saying so).
- Formatting of reports, `Debug` implementations, build and container files.

## What could come next

1. A refinement of `BootSequence`'s coarse steps by `BootServices`, the heap and
   `InitPaging`.
2. The heap that `PageTables` is given as a list of frames, obtained from
   `FirstFitAllocator`'s contract.
