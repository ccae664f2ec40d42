------------------------------ MODULE PageTables ------------------------------
(***************************************************************************)
(* The kernel's page tables (src/wasabi/src/x86.rs): PML4::create_mapping  *)
(* walks from the PML4 down to the PT of each page of a range, allocates   *)
(* the tables that are missing, and writes the PT's entry.                 *)
(*                                                                         *)
(* Addresses count bytes.  Tables have ENTRIES entries (512 in the code),  *)
(* which is what makes an address space small.  A table lives in a frame   *)
(* that Box::new takes from the heap.  The heap is external here: heap     *)
(* lists the frames it will give, and it is out of memory when they are    *)
(* used up; FirstFitAllocator shows that they are aligned and distinct.    *)
(***************************************************************************)
EXTENDS Integers, Sequences, SequencesExt

CONSTANTS
  ENTRIES,       \* the entries of a table
  HeapOrders,    \* the frames the heap may give, as sequences
  Calls          \* the calls [virt_start, virt_end, phys, attr] of create_mapping

PAGE_SIZE == 4096
ATTR_MASK == PAGE_SIZE - 1
LEVELS    == 4

(* PageAttr *)
NotPresent      == 0
ReadWriteKernel == 1 + 2
ReadWriteIo     == 1 + 2 + 8 + 16

Call == [virt_start : Nat, virt_end : Nat, phys : Nat,
         attr : {NotPresent, ReadWriteKernel, ReadWriteIo}]

VIRT_END == ENTRIES * ENTRIES * ENTRIES * ENTRIES * PAGE_SIZE

ASSUME PageTablesAssumption ==
  /\ ENTRIES \in Nat \ {0}
  /\ Calls \subseteq Call
  /\ \A c \in Calls : c.virt_start <= VIRT_END /\ c.virt_end <= VIRT_END
  /\ \A h \in HeapOrders :
       /\ h \in Seq(Nat \ {0}) /\ h # << >>
       /\ \A i \in DOMAIN h : h[i] % PAGE_SIZE = 0
       /\ \A i, j \in DOMAIN h : i # j => h[i] # h[j]

VARIABLES
  heap,      \* the frames the heap has left to give
  tables,    \* the entries of each table, by the frame that it lives in
  root,      \* the frame of the PML4
  call,      \* the arguments of create_mapping, or NoCall
  addr,      \* its loop variable
  level,     \* the level of the table it has reached
  table,     \* the frame of that table
  result     \* what the last call returned

tableVars == <<heap, tables, root, call, addr, level, table, result>>

NoCall == [virt_start |-> 0, virt_end |-> 0, phys |-> 0, attr |-> NotPresent]

-----------------------------------------------------------------------------
(* Entries are words: an address whose low 12 bits hold attributes.        *)

is_present(value) == value % 2 = 1

(* Mutant: the attributes are left in the address.                         *)
FrameOf_unmasked(value) == value

FrameOf(value) == value - (value % PAGE_SIZE)

EmptyTable == [i \in 0 .. ENTRIES - 1 |-> 0]

(* 1 << SHIFT of a table of level l. *)
Shift(l) ==
  CASE l = 1 -> PAGE_SIZE
    [] l = 2 -> PAGE_SIZE * ENTRIES
    [] l = 3 -> PAGE_SIZE * ENTRIES * ENTRIES
    [] l = 4 -> PAGE_SIZE * ENTRIES * ENTRIES * ENTRIES

calc_index(a, l) == (a \div Shift(l)) % ENTRIES

Index == calc_index(addr, level)

-----------------------------------------------------------------------------
(* PML4::new: one zeroed table. *)
Init ==
  /\ \E h \in HeapOrders : heap = Tail(h) /\ root = Head(h)
  /\ tables = [f \in {root} |-> EmptyTable]
  /\ call = NoCall
  /\ addr = 0
  /\ level = 0
  /\ table = 0
  /\ result = "none"

Idle == level = 0 /\ result # "panic"

Aligned(c) ==
  /\ c.virt_start % PAGE_SIZE = 0
  /\ c.virt_end % PAGE_SIZE = 0
  /\ c.phys % PAGE_SIZE = 0

RefuseCall(c) ==
  /\ Idle /\ ~Aligned(c)
  /\ result' = "err"
  /\ UNCHANGED <<heap, tables, root, call, addr, level, table>>

BeginCall(c) ==
  /\ Idle /\ Aligned(c)
  /\ call' = c
  /\ addr' = c.virt_start
  /\ level' = LEVELS
  /\ table' = root
  /\ result' = "none"
  /\ UNCHANGED <<heap, tables, root>>

Walking == level # 0 /\ addr < call.virt_end

(* ensure_populated finds the entry present; table_mut follows it.         *)
Descend ==
  /\ Walking /\ level > 1
  /\ is_present(tables[table][Index])
  /\ table' = FrameOf(tables[table][Index])
  /\ level' = level - 1
  /\ UNCHANGED <<heap, tables, root, call, addr, result>>

(* Mutant: the new table is linked in, but not cleared: it shows what the  *)
(* table above it holds.                                                   *)
Populate_dirty ==
  /\ Walking /\ level > 1
  /\ ~is_present(tables[table][Index])
  /\ heap # << >>
  /\ LET next == Head(heap)
     IN  /\ tables' = [f \in DOMAIN tables \cup {next} |->
                         IF f = next THEN tables[table]
                         ELSE IF f = table
                              THEN [tables[f] EXCEPT ![Index] = next + ReadWriteKernel]
                              ELSE tables[f]]
         /\ table' = next
  /\ heap' = Tail(heap)
  /\ level' = level - 1
  /\ UNCHANGED <<root, call, addr, result>>

(* populate takes a zeroed table from the heap and links it in.            *)
Populate ==
  /\ Walking /\ level > 1
  /\ ~is_present(tables[table][Index])
  /\ heap # << >>
  /\ LET next == Head(heap)
     IN  /\ tables' = [f \in DOMAIN tables \cup {next} |->
                         IF f = next THEN EmptyTable
                         ELSE IF f = table
                              THEN [tables[f] EXCEPT ![Index] = next + ReadWriteKernel]
                              ELSE tables[f]]
         /\ table' = next
  /\ heap' = Tail(heap)
  /\ level' = level - 1
  /\ UNCHANGED <<root, call, addr, result>>

(* Box::new finds no memory: the allocation error handler panics, and the  *)
(* tables linked in so far stay.                                           *)
OutOfMemory ==
  /\ Walking /\ level > 1
  /\ ~is_present(tables[table][Index])
  /\ heap = << >>
  /\ result' = "panic"
  /\ level' = 0
  /\ UNCHANGED <<heap, tables, root, call, addr, table>>

(* Mutant: the entry is given the first page of the range.                 *)
PageOf_first == call.phys

PageOf == call.phys + addr - call.virt_start

(* Mutant: the next page is looked for in the same PT.                     *)
SetPage_same_table ==
  /\ Walking /\ level = 1
  /\ tables' = [tables EXCEPT ![table][Index] = PageOf + call.attr]
  /\ addr' = addr + PAGE_SIZE
  /\ UNCHANGED <<heap, root, call, level, table, result>>

(* set_page on the entry of the PT, whatever it held; then the next page.  *)
SetPage ==
  /\ Walking /\ level = 1
  /\ tables' = [tables EXCEPT ![table][Index] = PageOf + call.attr]
  /\ addr' = addr + PAGE_SIZE
  /\ level' = LEVELS
  /\ table' = root
  /\ UNCHANGED <<heap, root, call, result>>

ReturnOk ==
  /\ level # 0 /\ addr >= call.virt_end
  /\ result' = "ok"
  /\ level' = 0
  /\ UNCHANGED <<heap, tables, root, call, addr, table>>

create_mapping ==
  Descend \/ Populate \/ OutOfMemory \/ SetPage \/ ReturnOk

-----------------------------------------------------------------------------
(* What the processor makes of the tables: the table of level l that the   *)
(* walk for address a reaches, or 0, and the translation of the page.      *)
Reached(a) ==
  LET Below(t, l) ==
        LET value == IF t \in DOMAIN tables THEN tables[t][calc_index(a, l)] ELSE 0
        IN  IF is_present(value) THEN FrameOf(value) ELSE 0
      t3 == Below(root, 4)
      t2 == Below(t3, 3)
  IN  <<Below(t2, 2), t2, t3, root>>

NotMapped == [phys |-> 0, attr |-> NotPresent]

Translate(a) ==
  LET t == Reached(a)[1]
      value == IF t \in DOMAIN tables THEN tables[t][calc_index(a, 1)] ELSE 0
  IN  IF is_present(value)
      THEN [phys |-> FrameOf(value), attr |-> value % PAGE_SIZE]
      ELSE NotMapped

Pages == {PAGE_SIZE * n : n \in 0 .. (VIRT_END \div PAGE_SIZE) - 1}

(* The entries above the PTs that lead to another table. *)
Links ==
  {e \in {<<Reached(a)[l], calc_index(a, l)>> : a \in Pages, l \in 2 .. LEVELS} :
     e[1] \in DOMAIN tables /\ is_present(tables[e[1]][e[2]])}

TypeOK ==
  /\ heap \in Seq(Nat)
  /\ tables \in [DOMAIN tables -> [0 .. ENTRIES - 1 -> Nat]]
  /\ root \in DOMAIN tables
  /\ call \in Calls \cup {NoCall}
  /\ addr \in Pages \cup {VIRT_END}
  /\ level \in 0 .. LEVELS
  /\ level # 0 => table \in DOMAIN tables
  /\ result \in {"none", "ok", "err", "panic"}

(***************************************************************************)
(* TableTree: the tables form a tree below the PML4: every table but the   *)
(* PML4 is entered by one entry, no entry above the PTs leads to anything  *)
(* but a table, and no frame the heap has still to give is in use.         *)
(***************************************************************************)
TableTree ==
  LET links == Links
      Target(e) == FrameOf(tables[e[1]][e[2]])
  IN  /\ \A e \in links : Target(e) \in DOMAIN tables \ {root}
      /\ \A f \in DOMAIN tables \ {root} : \E e \in links : Target(e) = f
      /\ \A d, e \in links : Target(d) = Target(e) => d = e
      /\ \A i \in DOMAIN heap : heap[i] \notin DOMAIN tables

(***************************************************************************)
(* WalkOnPath: the table that create_mapping has reached is the one that   *)
(* the processor reaches for the same address and level.                   *)
(***************************************************************************)
WalkOnPath == Walking => table = Reached(addr)[level]

Contract == INSTANCE AddressSpace WITH
  Valid     <- Aligned,
  space     <- [p \in Pages |-> Translate(p)],
  serving   <- IF level # 0 THEN {call} ELSE {}

(***************************************************************************)
(* MapsAsAsked: seen through the processor's walk, create_mapping changes  *)
(* the translation of one page of the range at a time and of no other, Ok  *)
(* says that the whole range is translated as asked, and Err that nothing  *)
(* was changed, whatever an earlier call has mapped.                       *)
(***************************************************************************)
MapsAsAsked == Contract!SpaceSpec

=============================================================================
