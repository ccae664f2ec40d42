----------------------------- MODULE MCInitPaging -----------------------------
(* InitPaging with three entries to a table: an address space of 81 pages, *)
(* 27 to a PDPT, nine to a PD, three to a PT.                              *)
EXTENDS InitPaging

Desc(type, first, end) ==
  [memory_type |-> type, start |-> first * PAGE_SIZE, end |-> end * PAGE_SIZE]

Frames(ns) == [i \in DOMAIN ns |-> ns[i] * PAGE_SIZE]

(* Too few frames for the tables; the heap at the top; the image at the    *)
(* top and the heap below it; memory that two PDPTs cover.                 *)
MCMemoryMaps ==
  { [map    |-> << Desc("CONVENTIONAL_MEMORY", 0, 5), Desc("LOADED_CODE", 5, 6),
                   Desc("OTHER", 6, 7) >>,
     frames |-> Frames(<<1, 2, 3, 4>>)],
    [map    |-> << Desc("LOADED_CODE", 1, 2), Desc("OTHER", 2, 4),
                   Desc("CONVENTIONAL_MEMORY", 4, 13), Desc("OTHER", 13, 16) >>,
     frames |-> Frames(<<12, 11, 10, 9, 8, 7, 6, 5, 4>>)],
    [map    |-> << Desc("LOADED_DATA", 14, 15), Desc("OTHER", 15, 16),
                   Desc("CONVENTIONAL_MEMORY", 1, 14) >>,
     frames |-> Frames(<<1, 2, 3, 4, 5, 6, 7, 8, 9, 10, 11, 12, 13>>)],
    [map    |-> << Desc("CONVENTIONAL_MEMORY", 20, 30),
                   Desc("CONVENTIONAL_MEMORY", 1, 12) >>,
     frames |-> Frames(<<20, 3, 21, 4, 22, 5, 23, 6, 24, 7, 25, 8, 26, 9, 27, 10, 28>>)] }

MapCall(first, last, phys, attr) ==
  [virt_start |-> first * PAGE_SIZE, virt_end |-> last * PAGE_SIZE,
   phys |-> phys, attr |-> attr]

(* A range that spans two PDs, one that overlaps it elsewhere in memory,   *)
(* one that takes pages away, one that spans two PDPTs, one that ends      *)
(* before it starts, and two that are not aligned.                         *)
MCOtherCalls ==
  { MapCall(8, 11, 8 * PAGE_SIZE, ReadWriteKernel),
    MapCall(10, 13, 90 * PAGE_SIZE, ReadWriteIo),
    MapCall(9, 11, 0, NotPresent),
    MapCall(26, 28, 26 * PAGE_SIZE, ReadWriteKernel),
    MapCall(12, 10, 0, ReadWriteKernel),
    MapCall(0, 1, 17, ReadWriteKernel),
    [MapCall(0, 1, 0, ReadWriteKernel) EXCEPT !.virt_end = 100] }

(* init_paging's call maps up to the end of some descriptor, or MIN_END.   *)
MCCalls ==
  MCOtherCalls \cup {IdentityMapTo(d.end) : d \in UNION {Range(m.map) : m \in MCMemoryMaps}}
               \cup {IdentityMapTo(MIN_END)}

(* Ascending, enough; descending, too few for all of the calls.            *)
MCOtherOrders ==
  { Frames(<<101, 102, 103, 104, 105, 106, 107, 108, 109, 110, 111, 112, 113>>),
    Frames(<<108, 107, 106, 105, 104, 103, 102, 101>>) }

MCHeapOrders == MCOtherOrders \cup {m.frames : m \in MCMemoryMaps}

=============================================================================
