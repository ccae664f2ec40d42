------------------------------ MODULE BootSequence ------------------------------
(***************************************************************************)
(* A whole boot: efi_main of src/wasabi/src/main.rs, one action for each   *)
(* part that it calls, as the other modules describe them: the protocols   *)
(* of the firmware, the drawing, the exit from the boot services, the      *)
(* heap, the descriptor tables, the breakpoint, and the page tables.       *)
(*                                                                         *)
(* What a part needs is what an earlier one has left behind.  An exception *)
(* that nothing in the kernel causes may come at any time; what it comes   *)
(* to is up to the tables of Segments, whose steps init_exceptions takes   *)
(* here.  The firmware is external; memory is counted in pages.            *)
(***************************************************************************)
EXTENDS Segments, FiniteSetsExt

CONSTANTS
  Machines,         \* what the kernel may be started on
  MIN_END,          \* 4 GiB, in pages: what init_paging maps at least
  TABLE_BLOCKS,     \* heap blocks that init_exceptions takes
  Comparisons       \* what comparing a failure with Success yields, per build

MemoryTypes == {"CONVENTIONAL_MEMORY", "LOADED_CODE", "BOOT_SERVICE_DATA"}

(* protocols: those the firmware has; fits: the screen is large enough for *)
(* the test pattern; quiet: the firmware leaves its memory map alone while *)
(* the kernel takes leave; room: each fetch of that map is offered enough  *)
(* room; stack: where the firmware put it; blocks: how many the heap can   *)
(* give; entry, tss: where the entry points of the handlers and the TSS    *)
(* come to lie.                                                            *)
Machine ==
  [protocols : SUBSET {"loaded_image", "graphics"},
   fits      : BOOLEAN,
   quiet     : BOOLEAN,
   room      : BOOLEAN,
   map       : Seq([memory_type : MemoryTypes, first : Nat, last : Nat]),
   stack     : Nat,
   blocks    : Nat,
   entry     : [Vectors -> Address],
   tss       : Address]

ASSUME BootSequenceAssumption ==
  /\ MIN_END \in Nat \ {0} /\ TABLE_BLOCKS \in Nat
  /\ Comparisons \subseteq BOOLEAN
  /\ Machines \subseteq Machine
  /\ \A m \in Machines : \E i \in DOMAIN m.map :
       /\ m.map[i].memory_type = "BOOT_SERVICE_DATA"
       /\ m.stack \in m.map[i].first .. m.map[i].last

VARIABLES
  machine, compares,
  boot_services,    \* "available" or "exited"
  heap,             \* blocks left, 0 before init_with_mmap
  end_of_mem,       \* the first page that is not mapped, or AllMapped
  struck,           \* history: an exception came from outside
  ended             \* "no", "success", "fail" or "undefined"

bootVars == <<machine, compares, boot_services, heap, end_of_mem, struck, ended>>
vars == <<pc, segmentVars, bootVars>>

AllMapped == -1

Init ==
  /\ machine \in Machines
  /\ compares \in Comparisons
  /\ pc = "locate_loaded_image"
  /\ entry = machine.entry /\ tss_address = machine.tss
  /\ SegmentsInit
  /\ boot_services = "available"
  /\ heap = 0
  /\ end_of_mem = AllMapped
  /\ struck = FALSE
  /\ ended = "no"

-----------------------------------------------------------------------------
Begins(step) == Running /\ pc = step

(* The part ends well, and the next one begins. *)
Go(next) == pc' = next /\ ended' = "no"

End(how) == ended' = how /\ pc' = pc


(* The panic handler leaves QEMU. *)
Panic == End("fail")

Unchanged ==
  UNCHANGED <<segmentVars, machine, compares, boot_services, heap, end_of_mem, struck>>

(***************************************************************************)
(* A protocol is looked up and used.  If the firmware has it not, the      *)
(* status says so; the build that takes every status for Success goes on   *)
(* with a null reference.                                                  *)
(***************************************************************************)
Lookup(protocol, next) ==
  /\ boot_services = "available"
  /\ IF protocol \in machine.protocols THEN Go(next)
     ELSE IF compares THEN End("undefined") ELSE Panic
  /\ Unchanged

locate_loaded_image == Begins("locate_loaded_image") /\ Lookup("loaded_image", "init_vram")

init_vram == Begins("init_vram") /\ Lookup("graphics", "draw_test_pattern")

draw_test_pattern ==
  /\ Begins("draw_test_pattern")
  /\ IF machine.fits THEN Go("exit_boot_services") ELSE Panic
  /\ Unchanged

(***************************************************************************)
(* What the loop of BootServices comes to.  It ends with the services      *)
(* exited and the map complete; or with a refusal that the build takes for *)
(* a success; or at the assertion that GetMemoryMap succeeds, which in     *)
(* such a build says nothing, so that the walk leaves the buffer.          *)
(***************************************************************************)
exit_boot_services ==
  /\ Begins("exit_boot_services")
  /\ \/ boot_services' = "exited" /\ Go("init_with_mmap")
     \/ ~machine.quiet /\ compares /\ UNCHANGED boot_services /\ Go("init_with_mmap")
     \/ ~machine.room /\ UNCHANGED boot_services
          /\ IF compares THEN End("undefined") ELSE Panic
  /\ UNCHANGED <<segmentVars, machine, compares, heap, end_of_mem, struck>>

(* Mutant: the memory map is handed over, but not to the heap.             *)
init_with_mmap_forgotten ==
  /\ Begins("init_with_mmap")
  /\ Go("GdtWrapper::default")
  /\ Unchanged

init_with_mmap ==
  /\ Begins("init_with_mmap")
  /\ heap' = machine.blocks
  /\ Go("GdtWrapper::default")
  /\ UNCHANGED <<segmentVars, machine, compares, boot_services, end_of_mem, struck>>

(* A step of init_exceptions that takes n blocks, or panics.               *)
Allocates(step, n, Step) ==
  \/ /\ heap >= n
     /\ Step
     /\ heap' = heap - n
     /\ UNCHANGED <<machine, compares, boot_services, end_of_mem, struck, ended>>
  \/ Begins(step) /\ heap < n /\ Panic /\ Unchanged

init_exceptions ==
  \/ Allocates("GdtWrapper::default", TABLE_BLOCKS, GdtWrapper_default)
  \/ (lgdt \/ ltr \/ write_segments) /\ UNCHANGED bootVars
  \/ Allocates("Idt::new", 1, Idt_new)
  \/ lidt /\ UNCHANGED bootVars

(* int3: the frame holds the next instruction.  The handler returns.       *)
trigger_debug_interrupt ==
  /\ Begins("trigger_debug_interrupt")
  /\ pc' = "init_paging"
  /\ Raise("exception", 3)
  /\ UNCHANGED bootVars

(* inthandler: any vector but 3 ends in a panic.                           *)
inthandler ==
  \/ Iret /\ UNCHANGED bootVars
  \/ delivered.to = "kernel" /\ delivered.vector # 3 /\ Panic /\ Unchanged

Used(d) == d.memory_type \in {"CONVENTIONAL_MEMORY", "LOADED_CODE"}

(* The end of the memory that init_paging finds in the map. *)
EndOfMem ==
  Max({MIN_END} \cup {machine.map[i].last + 1 :
                        i \in {j \in DOMAIN machine.map : Used(machine.map[j])}})

(* One table for each page here: InitPaging has them in full. *)
init_paging ==
  /\ Begins("init_paging")
  /\ IF heap >= EndOfMem
     THEN Go("write_cr3") /\ heap' = heap - EndOfMem
     ELSE Panic /\ UNCHANGED heap
  /\ UNCHANGED <<segmentVars, machine, compares, boot_services, end_of_mem, struck>>

write_cr3 ==
  /\ Begins("write_cr3")
  /\ end_of_mem' = EndOfMem
  /\ Go("return")
  /\ UNCHANGED <<segmentVars, machine, compares, boot_services, heap, struck>>

Mapped(page) == end_of_mem = AllMapped \/ page < end_of_mem

(* Without a page below it, an access is a page fault. *)
Access(page, next) ==
  \/ Mapped(page) /\ Go(next) /\ Unchanged
  \/ ~Mapped(page) /\ Raise("exception", 14) /\ UNCHANGED <<pc, bootVars>>

(* The return address is read from the stack.  The stacks of the TSS lie   *)
(* on the heap, which is mapped.                                           *)
return == Begins("return") /\ Access(machine.stack, "read_address_0")

read_address_0 == Begins("read_address_0") /\ Access(0, "exit_qemu")

exit_qemu ==
  /\ Begins("exit_qemu")
  /\ End("success")
  /\ Unchanged

efi_main ==
  /\ ended = "no"
  /\ \/ locate_loaded_image \/ init_vram \/ draw_test_pattern
     \/ exit_boot_services \/ init_with_mmap
     \/ init_exceptions \/ trigger_debug_interrupt \/ inthandler
     \/ init_paging \/ write_cr3 \/ return \/ read_address_0 \/ exit_qemu

(* A machine check, a non-maskable interrupt, or what the memory holds: at *)
(* any step.  Breakpoints come from the kernel's own code only.            *)
Exception(v) ==
  /\ ended = "no" /\ Running
  /\ Raise("exception", v)
  /\ struck' = TRUE
  /\ UNCHANGED <<pc, machine, compares, boot_services, heap, end_of_mem, ended>>

(* A firmware that has not been left runs on, with what it took from the   *)
(* memory that the heap now gives out.                                     *)
FirmwareUsesMemory ==
  /\ ended = "no" /\ Running
  /\ boot_services = "available"
  /\ pc \in {"GdtWrapper::default", "lgdt"}
  /\ End("undefined")
  /\ Unchanged

Next == efi_main \/ FirmwareUsesMemory \/ \E v \in Vectors \ {3} : Exception(v)

Spec == Init /\ [][Next]_vars /\ WF_vars(efi_main)

-----------------------------------------------------------------------------
(***************************************************************************)
(* NoOtherReason: a boot fails only for what the machine lacks - a         *)
(* protocol, a screen large enough, memory for the tables, a stack below   *)
(* the end of the memory in use, room for the memory map and, in a build   *)
(* that takes a refusal for a success, a firmware that keeps still - or    *)
(* because of an exception from outside.  Each part finds ready what it    *)
(* needs of the ones before it.                                            *)
(***************************************************************************)
Sound ==
  /\ machine.protocols = {"loaded_image", "graphics"}
  /\ machine.fits
  /\ machine.room
  /\ compares => machine.quiet
  /\ machine.blocks >= TABLE_BLOCKS + 1 + EndOfMem
  /\ machine.stack < EndOfMem

NoOtherReason ==
  Sound /\ ~struck => ended \in {"no", "success"} /\ delivered.to \in {"nobody", "kernel"}

(***************************************************************************)
(* BootEnds: a boot comes to an end: it leaves QEMU, or an exception finds *)
(* the firmware's handlers, which stop the processor, or none, which       *)
(* resets it.                                                              *)
(***************************************************************************)
BootEnds == <>(ended # "no" \/ delivered.to \in {"firmware", "reset"})

=============================================================================
