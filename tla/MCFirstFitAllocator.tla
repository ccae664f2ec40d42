------------------------- MODULE MCFirstFitAllocator -------------------------
(* FirstFitAllocator on 16-bit addresses: a few pages of memory, layouts   *)
(* of the sizes and alignments the repository's tests use, scaled down.    *)
EXTENDS FirstFitAllocator

MCPow2 == [n \in 0 .. USIZE_BITS - 1 |-> 2 ^ n]

Desc(type, start, pages) ==
  [memory_type |-> type, physical_start |-> start, number_of_pages |-> pages]

(* Page 0 and two more pages; one page, too small to keep; firmware's; two *)
(* pages.                                                                  *)
TwoRegions ==
  << Desc("CONVENTIONAL_MEMORY", 0, 3),
     Desc("CONVENTIONAL_MEMORY", 12288, 1),
     Desc("OTHER", 16384, 1),
     Desc("CONVENTIONAL_MEMORY", 20480, 2) >>

(* Two regions that touch, listed from the top down.                       *)
Adjacent ==
  << Desc("CONVENTIONAL_MEMORY", 16384, 2),
     Desc("CONVENTIONAL_MEMORY", 8192, 2) >>

(* Nothing the heap may use: what page 0 leaves of two pages is one page.  *)
NoRegion == << Desc("CONVENTIONAL_MEMORY", 0, 2), Desc("OTHER", 8192, 4) >>

MCMemoryMaps == {TwoRegions, Adjacent, NoRegion}

(* Both sizes round up to 2048, one of them aligned so that gaps open; the *)
(* last never rounds up.                                                   *)
MCLayouts ==
  { [size |-> 1234, align |-> 1],
    [size |-> 1100, align |-> 1024],
    [size |-> 0,    align |-> 1] }

=============================================================================
