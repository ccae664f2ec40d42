------------------------------ MODULE InitPaging ------------------------------
(***************************************************************************)
(* init_paging (src/wasabi/src/init.rs): the kernel, which so far runs on  *)
(* the firmware's page tables, finds the end of the memory that it uses,   *)
(* maps everything below to itself in tables of its own, and switches to   *)
(* them by writing cr3.                                                    *)
(*                                                                         *)
(* The memory map is the one of BootServices, the tables are those of      *)
(* PageTables; descriptors are given by the address of their first byte    *)
(* and of the byte after their last.  create_mapping is public: another    *)
(* caller than init_paging may ask for any range, and more than once.      *)
(***************************************************************************)
EXTENDS PageTables

CONSTANTS
  MemoryMaps,    \* the memory maps, with the frames that the heap will give
  MIN_END,       \* 0x1_0000_0000: everything below 4 GiB is mapped
  OtherCalls,    \* what another caller may ask of create_mapping,
  OtherOrders    \* and the frames that the heap gives it

MemoryTypes == {"CONVENTIONAL_MEMORY", "LOADED_CODE", "LOADED_DATA", "OTHER"}

Used(d) == d.memory_type \in {"CONVENTIONAL_MEMORY", "LOADED_CODE", "LOADED_DATA"}

IdentityMapTo(end) ==
  [virt_start |-> 0, virt_end |-> end, phys |-> 0, attr |-> ReadWriteKernel]

ASSUME InitPagingAssumption ==
  /\ OtherCalls \subseteq Calls /\ OtherOrders \subseteq HeapOrders
  /\ MIN_END % PAGE_SIZE = 0 /\ MIN_END \in 1 .. VIRT_END
  /\ IdentityMapTo(MIN_END) \in Calls
  /\ \A m \in MemoryMaps :
       /\ m.map \in Seq([memory_type : MemoryTypes, start : Nat, end : Nat])
       /\ \A i \in DOMAIN m.map :
            /\ m.map[i].start % PAGE_SIZE = 0 /\ m.map[i].end % PAGE_SIZE = 0
            /\ Used(m.map[i]) => IdentityMapTo(m.map[i].end) \in Calls
       /\ m.frames \in HeapOrders
       /\ \A f \in Range(m.frames) : \E i \in DOMAIN m.map :
            /\ m.map[i].memory_type = "CONVENTIONAL_MEMORY"
            /\ m.map[i].start <= f /\ f + PAGE_SIZE <= m.map[i].end

VARIABLES
  memory_map,    \* the descriptors
  ofs,           \* the position of the iterator
  end_of_mem,    \* the end of the memory to be mapped, so far
  cr3,           \* the frame of the PML4 in use, or FirmwareTables
  pc             \* of init_paging, or "other caller"

vars == <<tableVars, memory_map, ofs, end_of_mem, cr3, pc>>

FirmwareTables == 0

PagingTablesInit ==
  /\ Init
  /\ ofs = 1
  /\ end_of_mem = MIN_END
  /\ cr3 = FirmwareTables

InitPagingInit ==
  /\ \E m \in MemoryMaps :
       /\ memory_map = m.map
       /\ heap = Tail(m.frames) /\ root = Head(m.frames)
  /\ PagingTablesInit
  /\ pc = "scan"

OtherCallerInit ==
  /\ memory_map = << >>
  /\ \E h \in OtherOrders : heap = Tail(h) /\ root = Head(h)
  /\ PagingTablesInit
  /\ pc = "other caller"

Larger(a, b) == IF a >= b THEN a ELSE b

(* Mutant: the end that counts is that of the last descriptor.             *)
NextDescriptor_last ==
  /\ pc = "scan" /\ ofs <= Len(memory_map)
  /\ end_of_mem' = IF Used(memory_map[ofs]) THEN memory_map[ofs].end ELSE end_of_mem
  /\ ofs' = ofs + 1
  /\ UNCHANGED <<tableVars, memory_map, cr3, pc>>

NextDescriptor ==
  /\ pc = "scan" /\ ofs <= Len(memory_map)
  /\ end_of_mem' = IF Used(memory_map[ofs])
                   THEN Larger(end_of_mem, memory_map[ofs].end) ELSE end_of_mem
  /\ ofs' = ofs + 1
  /\ UNCHANGED <<tableVars, memory_map, cr3, pc>>

IdentityMap == IdentityMapTo(end_of_mem)

(* Its range ends where a descriptor does, so the call is not refused.     *)
BeginMapping ==
  /\ pc = "scan" /\ ofs > Len(memory_map)
  /\ BeginCall(IdentityMap)
  /\ pc' = "mapping"
  /\ UNCHANGED <<memory_map, ofs, end_of_mem, cr3>>

Mapping ==
  /\ pc = "mapping"
  /\ create_mapping
  /\ UNCHANGED <<memory_map, ofs, end_of_mem, cr3, pc>>

WriteCr3 ==
  /\ pc = "mapping" /\ result = "ok"
  /\ cr3' = root
  /\ pc' = "switched"
  /\ UNCHANGED <<tableVars, memory_map, ofs, end_of_mem>>

(* No memory is left for a table.                                          *)
MappingFails ==
  /\ pc = "mapping" /\ result = "panic"
  /\ pc' = "panic"
  /\ UNCHANGED <<tableVars, memory_map, ofs, end_of_mem, cr3>>

InitPagingStep ==
  NextDescriptor \/ BeginMapping \/ Mapping \/ WriteCr3 \/ MappingFails

OtherCaller ==
  /\ pc = "other caller"
  /\ create_mapping \/ \E c \in OtherCalls : RefuseCall(c) \/ BeginCall(c)
  /\ UNCHANGED <<memory_map, ofs, end_of_mem, cr3, pc>>

Next == InitPagingStep \/ OtherCaller

Spec == (InitPagingInit \/ OtherCallerInit) /\ [][Next]_vars

-----------------------------------------------------------------------------
(***************************************************************************)
(* SwitchKeepsMemory: once cr3 names the kernel's tables, all the memory   *)
(* that the kernel uses - its image, its heap, and in it the tables        *)
(* themselves - is found, writable, where it was, wherever the firmware    *)
(* has put it.                                                             *)
(***************************************************************************)
SwitchKeepsMemory ==
  cr3 # FirmwareTables =>
    \A i \in DOMAIN memory_map : Used(memory_map[i]) =>
      \A p \in {q \in Pages : memory_map[i].start <= q /\ q < memory_map[i].end} :
        Translate(p) = [phys |-> p, attr |-> ReadWriteKernel]

=============================================================================
