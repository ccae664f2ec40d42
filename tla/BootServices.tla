----------------------------- MODULE BootServices -----------------------------
(***************************************************************************)
(* Leaving the firmware (src/wasabi/src/uefi.rs and init.rs): the loop of  *)
(* exit_from_efi_boot_services, which fetches the memory map and offers    *)
(* its key to ExitBootServices, and the walk of the MemoryMapHolder that   *)
(* then hands the conventional memory to the heap.                         *)
(*                                                                         *)
(* The firmware is external.  Until its boot services have been exited it  *)
(* runs beside the kernel (timer callbacks) and may take or give back      *)
(* pages, which changes the map and its key.  What it writes when the      *)
(* buffer is too small, besides the size, is up to it: EDK2 writes the key *)
(* and the size of a descriptor as well.                                   *)
(*                                                                         *)
(* The unit of sizes is the firmware's descriptor: memory_map_size, the    *)
(* buffer and ofs count descriptors, and descriptor_size is 1 once it has  *)
(* been written.  MaxKey bounds how often the map changes.                 *)
(***************************************************************************)
EXTENDS Integers, Sequences, FiniteSets, SequencesExt

CONSTANTS
  PageMaps,        \* the firmware's memory when the loop begins: page -> type
  BUFFER_SIZE,     \* MEMORY_MAP_BUFFER_SIZE, in descriptors
  MaxKey,          \* the firmware changes its map fewer than MaxKey times
  Comparisons      \* what status == EfiStatus::Success may yield on failure

CONVENTIONAL == "CONVENTIONAL_MEMORY"
FIRMWARE     == "BOOT_SERVICE_DATA"
LOADED       == "LOADED_CODE"
Types        == {CONVENTIONAL, FIRMWARE, LOADED}

(***************************************************************************)
(* EfiStatus declares the single variant Success, so a status that is not  *)
(* zero is no value of the type, and what comparing it yields is up to the *)
(* build: the equality derived for one variant is the constant true; a     *)
(* build that looks at the bits yields false.                              *)
(***************************************************************************)
ASSUME BootServicesAssumption ==
  /\ BUFFER_SIZE \in Nat \ {0}
  /\ MaxKey \in Nat \ {0}
  /\ Comparisons \subseteq BOOLEAN /\ Comparisons # {}
  /\ \A m \in PageMaps : \E n \in DOMAIN m : m \in [0 .. n -> Types]

VARIABLES
  efi_map,           \* firmware: the type of each page
  efi_key,           \* firmware: the key of that map
  boot_services,     \* firmware: "available" or "exited"
  compares,          \* what this build yields when it compares a failure
  memory_map_buffer, \* MemoryMapHolder: the descriptors last written
  memory_map_size,   \* MemoryMapHolder
  map_key,           \* MemoryMapHolder
  descriptor_size,   \* MemoryMapHolder: 0 until the firmware writes it
  status,            \* what the firmware returned last
  ofs,               \* the position of the MemoryMapIterator
  heap,              \* the pages given to ALLOCATOR
  pc

efiVars    == <<efi_map, efi_key, boot_services>>
holderVars == <<memory_map_buffer, memory_map_size, map_key, descriptor_size>>
vars == <<efiVars, compares, holderVars, status, ofs, heap, pc>>

-----------------------------------------------------------------------------
(* A map as GetMemoryMap reports it: one descriptor for each longest run   *)
(* of pages of one type, in an order of the firmware's choice.             *)

Pages == DOMAIN efi_map

Descriptor(first, last, type) ==
  [first |-> first, last |-> last, memory_type |-> type]

(* What the buffer holds where no descriptor was written: type RESERVED.   *)
ZeroDescriptor == Descriptor(0, 0, "RESERVED")

IsRun(m, first, last) ==
  /\ first <= last
  /\ \A p \in first .. last : m[p] = m[first]
  /\ first - 1 \in DOMAIN m => m[first - 1] # m[first]
  /\ last + 1 \in DOMAIN m => m[last + 1] # m[first]

RunsOf(m) ==
  UNION {{Descriptor(p, q, m[p]) : q \in {k \in DOMAIN m : IsRun(m, p, k)}} :
           p \in DOMAIN m}

Reports(m) == SetToSeqs(RunsOf(m))

(* The room that the map takes now. *)
Needed == Cardinality(RunsOf(efi_map))

DESCRIPTOR_SIZE == 1

-----------------------------------------------------------------------------
Init ==
  /\ efi_map \in PageMaps
  /\ efi_key = 1
  /\ boot_services = "available"
  /\ compares \in Comparisons
  /\ memory_map_buffer = [i \in 1 .. BUFFER_SIZE |-> ZeroDescriptor]
  /\ memory_map_size = BUFFER_SIZE
  /\ map_key = 0
  /\ descriptor_size = 0
  /\ status = "SUCCESS"
  /\ ofs = 0
  /\ heap = {}
  /\ pc = "get_memory_map"

(* The firmware takes a free page, or gives back one of its own.           *)
FirmwareChangesMap ==
  /\ boot_services = "available"
  /\ efi_key < MaxKey
  /\ \E p \in Pages :
       \/ efi_map[p] = CONVENTIONAL /\ efi_map' = [efi_map EXCEPT ![p] = FIRMWARE]
       \/ efi_map[p] = FIRMWARE /\ efi_map' = [efi_map EXCEPT ![p] = CONVENTIONAL]
  /\ efi_key' = efi_key + 1
  /\ UNCHANGED <<boot_services, compares, holderVars, status, ofs, heap, pc>>

(***************************************************************************)
(* The firmware's GetMemoryMap, called with the holder's own fields.  The  *)
(* size goes in as the room there is and comes out as the room the map     *)
(* takes, also when the map does not fit.  The buffer is then left alone,  *)
(* while the key and the size of a descriptor may be written or not.       *)
(***************************************************************************)
get_memory_map ==
  /\ memory_map_size' = Needed
  /\ \/ /\ Needed <= memory_map_size
        /\ \E ds \in Reports(efi_map) :
             memory_map_buffer' =
               [i \in 1 .. BUFFER_SIZE |->
                  IF i <= Needed THEN ds[i] ELSE memory_map_buffer[i]]
        /\ map_key' = efi_key
        /\ descriptor_size' = DESCRIPTOR_SIZE
        /\ status' = "SUCCESS"
     \/ /\ Needed > memory_map_size
        /\ UNCHANGED memory_map_buffer
        /\ map_key' \in {map_key, efi_key}
        /\ descriptor_size' \in {descriptor_size, DESCRIPTOR_SIZE}
        /\ status' = "BUFFER_TOO_SMALL"

(* The firmware's ExitBootServices: refused unless the key is current.     *)
exit_boot_services(key) ==
  IF key = efi_key
  THEN boot_services' = "exited" /\ status' = "SUCCESS"
  ELSE UNCHANGED boot_services /\ status' = "INVALID_PARAMETER"

(* status == EfiStatus::Success, as the build compares it. *)
StatusEqualsSuccess == status = "SUCCESS" \/ compares

(* Mutant: a retry fetches the map into a temporary holder, keeps its key. *)
GetMemoryMap_key_only ==
  /\ pc = "get_memory_map"
  /\ IF map_key = 0
     THEN get_memory_map
     ELSE /\ map_key' = efi_key
          /\ status' = "SUCCESS"
          /\ UNCHANGED <<memory_map_buffer, memory_map_size, descriptor_size>>
  /\ pc' = "assert"
  /\ UNCHANGED <<efiVars, compares, ofs, heap>>

GetMemoryMap ==
  /\ pc = "get_memory_map"
  /\ get_memory_map
  /\ pc' = "assert"
  /\ UNCHANGED <<efiVars, compares, ofs, heap>>

AssertGot ==
  /\ pc = "assert"
  /\ pc' = IF StatusEqualsSuccess THEN "exit_boot_services" ELSE "panic"
  /\ UNCHANGED <<efiVars, compares, holderVars, status, ofs, heap>>

ExitBootServices ==
  /\ pc = "exit_boot_services"
  /\ exit_boot_services(map_key)
  /\ pc' = "check"
  /\ UNCHANGED <<efi_map, efi_key, compares, holderVars, ofs, heap>>

(* Mutant: a refused key is offered again.                                 *)
CheckExited_same_key ==
  /\ pc = "check"
  /\ pc' = IF StatusEqualsSuccess THEN "init_with_mmap" ELSE "exit_boot_services"
  /\ UNCHANGED <<efiVars, compares, holderVars, status, ofs, heap>>

(* Leave the loop, or fetch the map again. *)
CheckExited ==
  /\ pc = "check"
  /\ pc' = IF StatusEqualsSuccess THEN "init_with_mmap" ELSE "get_memory_map"
  /\ UNCHANGED <<efiVars, compares, holderVars, status, ofs, heap>>

(* Mutant: the end is tested one descriptor late.                          *)
NextDescriptor_late ==
  /\ pc = "init_with_mmap"
  /\ ofs <= memory_map_size
  /\ ofs' = ofs + descriptor_size
  /\ UNCHANGED <<efiVars, compares, holderVars, status, heap, pc>>

(* Mutant: memory of every type is registered.                             *)
NextDescriptor_any_type ==
  /\ pc = "init_with_mmap"
  /\ ofs < memory_map_size /\ ofs < BUFFER_SIZE
  /\ ofs' = ofs + descriptor_size
  /\ LET d == memory_map_buffer[ofs + 1] IN heap' = heap \cup (d.first .. d.last)
  /\ UNCHANGED <<efiVars, compares, holderVars, status, pc>>

(***************************************************************************)
(* init_with_mmap reads one descriptor and registers its pages if they are *)
(* conventional.  Beyond the buffer it reads whatever lies there, and with *)
(* a descriptor_size of 0 the same descriptor for ever.                    *)
(***************************************************************************)
NextDescriptor ==
  /\ pc = "init_with_mmap"
  /\ ofs < memory_map_size
  /\ ofs' = ofs + descriptor_size
  /\ IF ofs < BUFFER_SIZE
     THEN LET d == memory_map_buffer[ofs + 1]
          IN  heap' = heap \cup (IF d.memory_type = CONVENTIONAL
                                 THEN d.first .. d.last ELSE {})
     ELSE \E garbage \in SUBSET Pages : heap' = heap \cup garbage
  /\ UNCHANGED <<efiVars, compares, holderVars, status, pc>>

IterationEnds ==
  /\ pc = "init_with_mmap"
  /\ ofs >= memory_map_size
  /\ pc' = "ready"
  /\ UNCHANGED <<efiVars, compares, holderVars, status, ofs, heap>>

Kernel ==
  \/ GetMemoryMap \/ AssertGot \/ ExitBootServices \/ CheckExited
  \/ NextDescriptor \/ IterationEnds

(* The firmware hands the processor back; the kernel does not wait.        *)
Next == FirmwareChangesMap \/ Kernel

Fairness == WF_vars(Kernel)

Spec == Init /\ [][Next]_vars /\ Fairness

-----------------------------------------------------------------------------
TypeOK ==
  /\ efi_map \in [Pages -> Types]
  /\ efi_key \in 1 .. MaxKey
  /\ boot_services \in {"available", "exited"}
  /\ compares \in Comparisons
  /\ memory_map_buffer \in
       [1 .. BUFFER_SIZE ->
          [first : Pages, last : Pages, memory_type : Types \cup {"RESERVED"}]]
  /\ memory_map_size \in Nat
  /\ map_key \in 0 .. MaxKey
  /\ descriptor_size \in {0, DESCRIPTOR_SIZE}
  /\ status \in {"SUCCESS", "BUFFER_TOO_SMALL", "INVALID_PARAMETER"}
  /\ ofs \in 0 .. memory_map_size
  /\ heap \subseteq Pages
  /\ pc \in {"get_memory_map", "assert", "exit_boot_services", "check",
             "init_with_mmap", "ready", "panic"}

(***************************************************************************)
(* ExitedWithCurrentMap: once the boot services are exited, the holder     *)
(* describes memory as the firmware left it, however the map changed       *)
(* between the two calls of each turn of the loop, and all of it lies      *)
(* within the buffer.  A build that compares statuses faithfully exits     *)
(* only so; one that takes a refusal for a success also leaves with a map  *)
(* that is larger than the buffer, and has then only its key.              *)
(***************************************************************************)
FitsBuffer == Needed <= BUFFER_SIZE

ExitedWithCurrentMap ==
  boot_services = "exited" =>
    /\ map_key = efi_key
    /\ FitsBuffer \/ ~compares =>
         /\ descriptor_size = DESCRIPTOR_SIZE
         /\ memory_map_size <= BUFFER_SIZE
         /\ SubSeq(memory_map_buffer, 1, memory_map_size) \in Reports(efi_map)

(***************************************************************************)
(* HeapIsFree: memory given to the heap after the exit is memory that the  *)
(* firmware left free, and when init_with_mmap is done it is all of it -   *)
(* unless the build has missed that the map is larger than the buffer,     *)
(* beyond which the walk finds anything.                                   *)
(***************************************************************************)
FreePages == {p \in Pages : efi_map[p] = CONVENTIONAL}

HeapIsFree ==
  boot_services = "exited" /\ (FitsBuffer \/ ~compares) =>
    /\ heap \subseteq FreePages
    /\ pc = "ready" => heap = FreePages

(***************************************************************************)
(* BootEnds: the loop of retries ends, provided the firmware stops         *)
(* changing its map (MaxKey): in a build that compares statuses faithfully *)
(* it ends in every case, and in every build the kernel gets to the end of *)
(* the map if each fetch is offered room enough.  Room is what the loop    *)
(* offers and not what there is: the whole buffer at first, and after a    *)
(* refusal the size of the map before.                                     *)
(***************************************************************************)
HasRoom == pc = "get_memory_map" => Needed <= memory_map_size

BootEnds ==
  /\ ~compares => <>(pc \in {"ready", "panic"})
  /\ []HasRoom => <>(pc = "ready")

(***************************************************************************)
(* LeavesExited: the loop is left only when ExitBootServices succeeded:    *)
(* "if it fails because map_key is old, fetch the latest memory map and    *)
(* retry" (the comment of exit_from_efi_boot_services).                    *)
(***************************************************************************)
LeavesExited ==
  pc \in {"init_with_mmap", "ready"} => boot_services = "exited"

=============================================================================
