-------------------------- MODULE FirstFitAllocator --------------------------
(***************************************************************************)
(* FirstFitAllocator (src/wasabi/src/allocator.rs), the kernel's global    *)
(* heap.  Memory that the UEFI memory map calls CONVENTIONAL_MEMORY is cut *)
(* into regions; each region is covered by blocks, and each block starts   *)
(* with a Header that gives the block's size, whether it is allocated, and *)
(* the address of the next Header.  alloc_with_options walks the list from *)
(* first_header and carves the request from the end of the first free      *)
(* block that can provide it; dealloc only clears is_allocated.            *)
(*                                                                         *)
(* The kernel runs on one processor and no interrupt handler allocates, so *)
(* calls do not overlap; the walk of one call is still one action per      *)
(* block visited, as the code's loop is.                                   *)
(***************************************************************************)
EXTENDS LayoutArith, Sequences

CONSTANTS
  MemoryMaps,   \* the memory maps that ExitBootServices may leave us
  Layouts       \* the [size, align] records that callers ask for

(* None (of Option<Box<Header>>) and null_mut() are both address 0. *)
Null == 0

PAGE == 4096

CONVENTIONAL_MEMORY == "CONVENTIONAL_MEMORY"

Descriptor ==
  [memory_type : {CONVENTIONAL_MEMORY, "OTHER"},
   physical_start : Nat, number_of_pages : Nat]

(***************************************************************************)
(* What UEFI guarantees of a map: descriptors are page aligned, end below  *)
(* the top of the address space and do not overlap.                        *)
(***************************************************************************)
DescriptorEnd(d) == d.physical_start + d.number_of_pages * PAGE

ASSUME MemoryMapAssumption ==
  \A m \in MemoryMaps :
    /\ m \in Seq(Descriptor)
    /\ \A i \in DOMAIN m :
         /\ m[i].physical_start % PAGE = 0
         /\ DescriptorEnd(m[i]) <= USIZE_MAX
    /\ \A i, j \in DOMAIN m :
         i # j => \/ DescriptorEnd(m[i]) <= m[j].physical_start
                  \/ DescriptorEnd(m[j]) <= m[i].physical_start

(***************************************************************************)
(* What core::alloc::Layout guarantees: align is a power of two, and size, *)
(* rounded up to a multiple of align, does not exceed isize::MAX.          *)
(***************************************************************************)
ASSUME LayoutAssumption ==
  \A layout \in Layouts :
    /\ layout \in [size : Nat, align : Nat]
    /\ \E n \in 0 .. USIZE_BITS - 1 : layout.align = Pow2[n]
    /\ layout.size <= ISIZE_MAX - (layout.align - 1)

(* The layout slot of an allocator that is not serving a request. *)
NoLayout == [size |-> 0, align |-> 1]

VARIABLES
  memory_map,     \* the MemoryMapHolder that init_with_mmap reads
  ofs,            \* the position of its iterator, counted in descriptors
  headers,        \* the Header at each address where one was written
  first_header,   \* address of the head of the list, or Null
  pc,             \* "init", "idle", or "walk": the call in progress
  layout,         \* the layout argument of the walk
  header,         \* the walk's cursor: address of a Header, or Null
  live            \* the layout of each block a caller holds, by its pointer

mapVars  == <<memory_map, ofs>>
walkVars == <<pc, layout, header>>
vars     == <<memory_map, ofs, headers, first_header, pc, layout, header, live>>

-----------------------------------------------------------------------------
(* Operations on the headers in memory. *)

Write(hs, addr, h) ==
  [a \in DOMAIN hs \cup {addr} |-> IF a = addr THEN h ELSE hs[a]]

end_addr(addr) == addr + headers[addr].size

(* Mutant: no room is asked for the alignment.                             *)
can_provide_unaligned(addr, l) ==
  headers[addr].size >= ProvidedSize(l.size) + HEADER_SIZE * 2

can_provide(addr, l) == headers[addr].size >= SpaceNeeded(l)

(* Header::provide returns Some: the size rounds up, the block is free and *)
(* it is large enough.                                                     *)
Provides(addr, l) ==
  /\ RoundsUp(l.size)
  /\ ~headers[addr].is_allocated
  /\ can_provide(addr, l)

(* Mutant: the address is not rounded down to the alignment.               *)
allocated_addr_unaligned(addr, l) == end_addr(addr) - ProvidedSize(l.size)

allocated_addr(addr, l) ==
  AlignDown(end_addr(addr) - ProvidedSize(l.size), ProvidedAlign(l.align))

(***************************************************************************)
(* The rest of Header::provide: header_for_allocated is written just below *)
(* the pointer; if the block it describes stops short of the end of the    *)
(* block being cut, header_for_padding describes the gap and is linked in  *)
(* between; self shrinks by what was used and links to the new header.     *)
(***************************************************************************)
AllocatedHeader(addr, l) == allocated_addr(addr, l) - HEADER_SIZE
AllocatedSize(l)         == ProvidedSize(l.size) + HEADER_SIZE
AllocatedEnd(addr, l)    == AllocatedHeader(addr, l) + AllocatedSize(l)
NeedsPadding(addr, l)    == AllocatedEnd(addr, l) # end_addr(addr)

(* Mutant: the operands of the subtraction are swapped.                    *)
PaddingSize_swapped(addr, l) == AllocatedEnd(addr, l) - end_addr(addr)

PaddingSize(addr, l)     == end_addr(addr) - AllocatedEnd(addr, l)

size_used(addr, l) ==
  AllocatedSize(l) + (IF NeedsPadding(addr, l) THEN PaddingSize(addr, l) ELSE 0)

WithAllocated(addr, l) ==
  Write(headers, AllocatedHeader(addr, l),
        [size         |-> AllocatedSize(l),
         is_allocated |-> TRUE,
         next_header  |-> IF NeedsPadding(addr, l)
                          THEN AllocatedEnd(addr, l)
                          ELSE headers[addr].next_header])

(* Mutant: the link taken from header_for_allocated is not passed on.      *)
WithPadding_unlinked(addr, l) ==
  IF NeedsPadding(addr, l)
  THEN Write(WithAllocated(addr, l), AllocatedEnd(addr, l),
             [size         |-> PaddingSize(addr, l),
              is_allocated |-> FALSE,
              next_header  |-> Null])
  ELSE WithAllocated(addr, l)

(* Mutant: header_for_padding is linked back to header_for_allocated.      *)
WithPadding_cyclic(addr, l) ==
  IF NeedsPadding(addr, l)
  THEN Write(WithAllocated(addr, l), AllocatedEnd(addr, l),
             [size         |-> PaddingSize(addr, l),
              is_allocated |-> FALSE,
              next_header  |-> AllocatedHeader(addr, l)])
  ELSE WithAllocated(addr, l)

WithPadding(addr, l) ==
  IF NeedsPadding(addr, l)
  THEN Write(WithAllocated(addr, l), AllocatedEnd(addr, l),
             [size         |-> PaddingSize(addr, l),
              is_allocated |-> FALSE,
              next_header  |-> headers[addr].next_header])
  ELSE WithAllocated(addr, l)

Carved(addr, l) ==
  Write(WithPadding(addr, l), addr,
        [size         |-> headers[addr].size - size_used(addr, l),
         is_allocated |-> FALSE,
         next_header  |-> AllocatedHeader(addr, l)])

-----------------------------------------------------------------------------
(* add_free_from_descriptor: page 0 is given up, what is left of one page  *)
(* or less is not registered.                                              *)

RegionStart(d) ==
  IF d.physical_start = 0 THEN PAGE ELSE d.physical_start

(* Mutant: the page given up is still counted.                             *)
RegionSize_uncut(d) == d.number_of_pages * PAGE

RegionSize(d) ==
  LET size == d.number_of_pages * PAGE
  IN  IF d.physical_start = 0 THEN Larger(size, PAGE) - PAGE ELSE size

RegionEnd(d) == RegionStart(d) + RegionSize(d)

Registrable(d) ==
  d.memory_type = CONVENTIONAL_MEMORY /\ RegionSize(d) > PAGE

Init ==
  /\ memory_map \in MemoryMaps
  /\ ofs = 1
  /\ headers = << >>
  /\ first_header = Null
  /\ pc = "init"
  /\ layout = NoLayout
  /\ header = Null
  /\ live = << >>

-----------------------------------------------------------------------------
(* init_with_mmap, one descriptor per step. *)

SkipDescriptor ==
  /\ pc = "init" /\ ofs <= Len(memory_map)
  /\ ~Registrable(memory_map[ofs])
  /\ ofs' = ofs + 1
  /\ UNCHANGED <<memory_map, headers, first_header, pc, layout, header, live>>

(* Mutant: the former head of the list is not hung below the new one.      *)
AddFreeFromDescriptor_unlinked ==
  /\ pc = "init" /\ ofs <= Len(memory_map)
  /\ Registrable(memory_map[ofs])
  /\ LET start == RegionStart(memory_map[ofs])
     IN  /\ headers' = Write(headers, start,
                             [size         |-> RegionSize(memory_map[ofs]),
                              is_allocated |-> FALSE,
                              next_header  |-> Null])
         /\ first_header' = start
  /\ ofs' = ofs + 1
  /\ UNCHANGED <<memory_map, pc, layout, header, live>>

AddFreeFromDescriptor ==
  /\ pc = "init" /\ ofs <= Len(memory_map)
  /\ Registrable(memory_map[ofs])
  /\ LET start == RegionStart(memory_map[ofs])
     IN  /\ headers' = Write(headers, start,
                             [size         |-> RegionSize(memory_map[ofs]),
                              is_allocated |-> FALSE,
                              next_header  |-> first_header])
         /\ first_header' = start
  /\ ofs' = ofs + 1
  /\ UNCHANGED <<memory_map, pc, layout, header, live>>

InitDone ==
  /\ pc = "init" /\ ofs > Len(memory_map)
  /\ pc' = "idle"
  /\ UNCHANGED <<memory_map, ofs, headers, first_header, layout, header, live>>

-----------------------------------------------------------------------------
(* alloc, that is alloc_with_options, one Header per step. *)

Alloc(l) ==
  /\ pc = "idle"
  /\ pc' = "walk"
  /\ layout' = l
  /\ header' = first_header
  /\ UNCHANGED <<memory_map, ofs, headers, first_header, live>>

Return ==
  /\ pc' = "idle"
  /\ layout' = NoLayout
  /\ header' = Null

WalkProvide ==
  /\ pc = "walk" /\ header # Null
  /\ Provides(header, layout)
  /\ headers' = Carved(header, layout)
  /\ live' = Write(live, allocated_addr(header, layout), layout)
  /\ Return
  /\ UNCHANGED <<memory_map, ofs, first_header>>

WalkNext ==
  /\ pc = "walk" /\ header # Null
  /\ ~Provides(header, layout)
  /\ header' = headers[header].next_header
  /\ UNCHANGED <<memory_map, ofs, headers, first_header, pc, layout, live>>

WalkNull ==
  /\ pc = "walk" /\ header = Null
  /\ Return
  /\ UNCHANGED <<memory_map, ofs, headers, first_header, live>>

(* dealloc of a pointer the caller holds; the caller no longer does. *)
Dealloc(ptr) ==
  /\ pc = "idle"
  /\ ptr \in DOMAIN live
  /\ headers' = [headers EXCEPT ![ptr - HEADER_SIZE].is_allocated = FALSE]
  /\ live' = [p \in DOMAIN live \ {ptr} |-> live[p]]
  /\ UNCHANGED <<memory_map, ofs, first_header, pc, layout, header>>

-----------------------------------------------------------------------------
InitStep == SkipDescriptor \/ AddFreeFromDescriptor \/ InitDone
WalkStep == WalkProvide \/ WalkNext \/ WalkNull

Next ==
  \/ InitStep
  \/ \E l \in Layouts : Alloc(l)
  \/ WalkStep
  \/ \E ptr \in DOMAIN live : Dealloc(ptr)

(* The processor keeps executing a call it has begun; callers owe nothing. *)
Fairness == WF_vars(InitStep) /\ WF_vars(WalkStep)

Spec == Init /\ [][Next]_vars /\ Fairness

-----------------------------------------------------------------------------
(* Vocabulary of the properties. *)

Header == [size : Nat, is_allocated : BOOLEAN, next_header : Nat]

(* The descriptors that init_with_mmap has turned into regions so far. *)
Registered == {i \in 1 .. ofs - 1 : Registrable(memory_map[i])}

Start(i) == RegionStart(memory_map[i])
End(i)   == RegionEnd(memory_map[i])

InRegion(addr, i) == Start(i) <= addr /\ addr < End(i)

(* Region j is the one registered just before region i. *)
IsPrevious(j, i) ==
  /\ j \in Registered /\ j < i
  /\ \A k \in Registered : k < i => k <= j

(* addr is where the list goes on once the regions from i on are done. *)
ContinuesAt(addr, i) ==
  \/ \E j \in Registered : IsPrevious(j, i) /\ addr = Start(j)
  \/ (\A k \in Registered : k >= i) /\ addr = Null

(***************************************************************************)
(* Headers in the order of the list: regions registered later come first,  *)
(* and within a region addresses ascend.  Every header precedes the end.   *)
(***************************************************************************)
Precedes(addr, cursor) ==
  \/ cursor = Null
  \/ \E i, j \in Registered :
       /\ InRegion(addr, i) /\ InRegion(cursor, j)
       /\ i > j \/ (i = j /\ addr < cursor)

-----------------------------------------------------------------------------
(***************************************************************************)
(* TypeOK: every field of a Header stays a number a usize can count from,  *)
(* so the subtractions of Header::provide never pass below zero, and the   *)
(* cursor of alloc_with_options is None or an address where a Header was   *)
(* written.                                                                *)
(***************************************************************************)
TypeOK ==
  /\ memory_map \in MemoryMaps
  /\ ofs \in 1 .. Len(memory_map) + 1
  /\ DOMAIN headers \subseteq Nat \ {Null}
  /\ headers \in [DOMAIN headers -> Header]
  /\ first_header \in DOMAIN headers \cup {Null}
  /\ pc \in {"init", "idle", "walk"}
  /\ layout \in Layouts \cup {NoLayout}
  /\ pc = "walk" => layout \in Layouts
  /\ header \in DOMAIN headers \cup {Null}
  /\ DOMAIN live \subseteq Nat
  /\ live \in [DOMAIN live -> Layouts]

(* Blocks are made of whole header units, which is what leaves room for a  *)
(* header_for_padding in every gap that an alignment opens.                *)
BlocksInUnits ==
  \A addr \in DOMAIN headers :
    /\ addr % HEADER_SIZE = 0
    /\ headers[addr].size % HEADER_SIZE = 0
    /\ headers[addr].size >= HEADER_SIZE

BlocksInRegions ==
  \A addr \in DOMAIN headers : \E i \in Registered :
    InRegion(addr, i) /\ end_addr(addr) <= End(i)

BlocksDisjoint ==
  \A a, b \in DOMAIN headers :
    a # b => end_addr(a) <= b \/ end_addr(b) <= a

(* Within a region each block links to the one that starts at its end, and *)
(* the last one links to the region registered before.                     *)
BlocksLinked ==
  \A addr \in DOMAIN headers : \A i \in Registered :
    InRegion(addr, i) =>
      IF end_addr(addr) < End(i)
      THEN headers[addr].next_header = end_addr(addr)
           /\ end_addr(addr) \in DOMAIN headers
      ELSE ContinuesAt(headers[addr].next_header, i)

RegionsListed ==
  /\ \A i \in Registered : Start(i) \in DOMAIN headers
  /\ ContinuesAt(first_header, ofs)

(***************************************************************************)
(* Tiled: however calls of alloc and dealloc follow one another, the       *)
(* blocks cover each registered region without gap or overlap, and the     *)
(* list from first_header visits them in order: no block is ever lost      *)
(* from the list (take() of a link while padding is spliced in) and no     *)
(* link leads back.                                                        *)
(***************************************************************************)
Tiled ==
  /\ BlocksInUnits
  /\ BlocksInRegions
  /\ BlocksDisjoint
  /\ BlocksLinked
  /\ RegionsListed

(***************************************************************************)
(* HeldBacked: a block is marked allocated exactly when a caller holds it, *)
(* it is large enough for the layout asked for, and the pointer has the    *)
(* alignment asked for; dealloc finds its Header just below the pointer.   *)
(***************************************************************************)
HeldBacked ==
  /\ \A p \in DOMAIN live :
       /\ p - HEADER_SIZE \in DOMAIN headers
       /\ headers[p - HEADER_SIZE].is_allocated
       /\ p + live[p].size <= end_addr(p - HEADER_SIZE)
       /\ p % live[p].align = 0
  /\ \A addr \in DOMAIN headers :
       headers[addr].is_allocated => addr + HEADER_SIZE \in DOMAIN live

(***************************************************************************)
(* NoOverlap: the bytes a caller may write lie apart from the bytes of any *)
(* other caller and from every Header, so filling an allocation cannot     *)
(* corrupt the list (what allocated_objects_have_no_overlap tests).        *)
(***************************************************************************)
NoOverlap ==
  \A p \in DOMAIN live :
    /\ \A q \in DOMAIN live :
         p # q => p + live[p].size <= q \/ q + live[q].size <= p
    /\ \A addr \in DOMAIN headers :
         p + live[p].size <= addr \/ addr + HEADER_SIZE <= p

(***************************************************************************)
(* SplitFits: when a free block is found large enough, the assertion that  *)
(* ends Header::provide (self.size > size_used + HEADER_SIZE) holds, so    *)
(* alloc never panics, and what is left of self still holds its Header     *)
(* below header_for_allocated.                                             *)
(***************************************************************************)
SplitFits ==
  pc = "walk" /\ header # Null /\ Provides(header, layout) =>
    headers[header].size > size_used(header, layout) + HEADER_SIZE

(***************************************************************************)
(* FirstFit: the walk has passed over no block that could have served the  *)
(* request; at the end of the list that is every block, so null means that *)
(* no block can provide the layout.                                        *)
(***************************************************************************)
FirstFit ==
  pc = "walk" =>
    \A addr \in DOMAIN headers :
      Precedes(addr, header) => ~Provides(addr, layout)

(***************************************************************************)
(* FreeHeapServes: once every block has been given back, a layout that a   *)
(* region could hold is not refused, which is what allocating and freeing  *)
(* in a loop relies on (malloc_iterate_free_and_alloc).                    *)
(***************************************************************************)
FreeHeapServes ==
  pc = "walk" /\ header = Null /\ live = << >> /\ RoundsUp(layout.size) =>
    \A i \in Registered : End(i) - Start(i) < SpaceNeeded(layout)

(***************************************************************************)
(* The allocator as a HeapContract: the pool is the conventional memory of *)
(* the descriptors read so far, whole, and the request being answered is   *)
(* the one the walk serves.                                                *)
(***************************************************************************)
Conventional(m) == {i \in DOMAIN m : m[i].memory_type = CONVENTIONAL_MEMORY}

Extent(d) == [lo |-> d.physical_start, hi |-> DescriptorEnd(d)]

Contract == INSTANCE HeapContract WITH
  Regions <- UNION {{Extent(m[i]) : i \in Conventional(m)} : m \in MemoryMaps},
  pool    <- {Extent(memory_map[i]) :
                i \in {k \in Conventional(memory_map) : k < ofs}},
  pending <- IF pc = "walk" THEN {layout} ELSE {}

(***************************************************************************)
(* KeepsContract: the allocator's steps are steps of HeapContract: ranges  *)
(* handed out lie in memory the map calls conventional, are never null,    *)
(* are aligned, and share no byte with a range still held.                 *)
(***************************************************************************)
KeepsContract == Contract!ContractSafety

(* AllocReturns: every walk ends, with a pointer or with null.             *)
AllocReturns == Contract!Answered

=============================================================================
