-------------------------- MODULE BootServices_proofs --------------------------
(***************************************************************************)
(* BootServices is correct for every memory of the firmware, every size of *)
(* the buffer, every number of changes of the map and both ways in which a *)
(* build may compare a status.                                             *)
(*                                                                         *)
(* The first part is about maps: each page lies in exactly one longest run *)
(* of pages of its type, and a report lists all runs.  The second is the   *)
(* inductive invariant ExitInv: what the loop knows at each of its steps   *)
(* about the holder (Holder), and what has reached the heap (Given).       *)
(***************************************************************************)
EXTENDS BootServices, FiniteSetTheorems, IntegerFacts

-----------------------------------------------------------------------------
(* Maps. *)

Map(n) == [0 .. n -> Types]

(* What is known of a run: its pages are of one type, which its descriptor *)
(* names, and lie in the map.                                              *)
LEMMA RunFields ==
  ASSUME NEW n \in Nat, NEW m \in Map(n), NEW d \in RunsOf(m)
  PROVE  /\ d.first \in 0 .. n /\ d.last \in 0 .. n /\ d.memory_type \in Types
         /\ \A p \in d.first .. d.last : p \in 0 .. n /\ m[p] = d.memory_type
         /\ d \in [first : 0 .. n, last : 0 .. n, memory_type : Types]
<1>1. DOMAIN m = 0 .. n /\ \A p \in 0 .. n : m[p] \in Types
  BY DEF Map
<1>2. PICK p \in 0 .. n, q \in 0 .. n : IsRun(m, p, q) /\ d = Descriptor(p, q, m[p])
  BY <1>1 DEF RunsOf
<1>3. QED BY <1>1, <1>2 DEF IsRun, Descriptor

(* There are finitely many runs. *)
LEMMA RunsFinite ==
  ASSUME NEW n \in Nat, NEW m \in Map(n)
  PROVE  IsFiniteSet(RunsOf(m)) /\ Cardinality(RunsOf(m)) \in Nat
<1> DEFINE P == (0 .. n) \X (0 .. n)
           T == {r \in P : IsRun(m, r[1], r[2])}
           f == [r \in T |-> Descriptor(r[1], r[2], m[r[1]])]
<1>1. DOMAIN m = 0 .. n
  BY DEF Map
<1>2. IsFiniteSet(0 .. n)
  BY FS_Interval
<1>3. IsFiniteSet(P)
  BY <1>2, FS_Product
<1>4. T \in SUBSET P
  OBVIOUS
<1>5. IsFiniteSet(T)
  BY <1>3, <1>4, FS_Subset
<1>6. f \in [T -> RunsOf(m)]
  <2>1. ASSUME NEW r \in T PROVE Descriptor(r[1], r[2], m[r[1]]) \in RunsOf(m)
    BY <1>1 DEF RunsOf
  <2>2. QED BY <2>1
<1>7. ASSUME NEW d \in RunsOf(m) PROVE \E r \in T : f[r] = d
  <2>1. PICK p \in 0 .. n, q \in 0 .. n : IsRun(m, p, q) /\ d = Descriptor(p, q, m[p])
    BY <1>1 DEF RunsOf
  <2>2. <<p, q>> \in T /\ f[<<p, q>>] = d
    BY <2>1
  <2>3. QED BY <2>2
<1>8. f \in Surjection(T, RunsOf(m))
  BY <1>6, <1>7 DEF Surjection
<1>9. IsFiniteSet(RunsOf(m))
  BY <1>5, <1>8, FS_Surjection
<1>10. QED BY <1>9, FS_CardinalityType

(* Every page lies in a run. *)
LEMMA PageInRun ==
  ASSUME NEW n \in Nat, NEW m \in Map(n), NEW p \in 0 .. n
  PROVE  \E d \in RunsOf(m) : p \in d.first .. d.last
<1> DEFINE Below == {q \in 0 .. p : \A r \in q .. p : m[r] = m[p]}
           Above == {k \in 0 .. n - p : \A r \in p .. n - k : m[r] = m[p]}
<1>1. DOMAIN m = 0 .. n
  BY DEF Map
<1>2. p \in Below /\ Below \in SUBSET Nat
  OBVIOUS
<1>3. PICK q \in Below : \A x \in Below : q <= x
  BY <1>2, Least
<1>4. n - p \in Above /\ Above \in SUBSET Nat
  OBVIOUS
<1>5. PICK k \in Above : \A x \in Above : k <= x
  BY <1>4, Least
<1>6. PICK l \in p .. n : l = n - k
  OBVIOUS
<1>7. q \in 0 .. p /\ q \in 0 .. n /\ l \in 0 .. n
  OBVIOUS
<1>8. \A r \in q .. l : m[r] = m[q]
  <2>1. ASSUME NEW r \in q .. l PROVE m[r] = m[p]
    BY <1>6, <1>7
  <2>2. m[q] = m[p]
    BY <1>7
  <2>3. QED BY <2>1, <2>2
<1>9. ASSUME q - 1 \in 0 .. n, m[q - 1] = m[q] PROVE FALSE
  <2>1. ASSUME NEW r \in q - 1 .. p PROVE m[r] = m[p]
    <3>1. CASE r = q - 1
      BY <1>9, <1>7, <3>1
    <3>2. CASE r # q - 1
      BY <1>7, <3>2
    <3>3. QED BY <3>1, <3>2
  <2>2. q - 1 \in Below
    BY <2>1, <1>9, <1>7
  <2>3. QED BY <2>2, <1>3, <1>7
<1>10. ASSUME l + 1 \in 0 .. n, m[l + 1] = m[q] PROVE FALSE
  <2>1. k - 1 \in 0 .. n - p /\ l + 1 = n - (k - 1)
    BY <1>10, <1>6
  <2>2. ASSUME NEW r \in p .. n - (k - 1) PROVE m[r] = m[p]
    <3>1. CASE r = l + 1
      BY <1>10, <1>7, <3>1
    <3>2. CASE r # l + 1
      BY <2>1, <1>6, <3>2
    <3>3. QED BY <3>1, <3>2
  <2>3. k - 1 \in Above
    BY <2>1, <2>2
  <2>4. QED BY <2>3, <1>5
<1>11. IsRun(m, q, l)
  BY <1>1, <1>7, <1>8, <1>9, <1>10 DEF IsRun
<1>12. Descriptor(q, l, m[q]) \in RunsOf(m)
  BY <1>1, <1>7, <1>11 DEF RunsOf
<1>13. p \in Descriptor(q, l, m[q]).first .. Descriptor(q, l, m[q]).last
  BY <1>6, <1>7 DEF Descriptor
<1>14. QED BY <1>12, <1>13

(* A report lists every run. *)
LEMMA ReportListsAll ==
  ASSUME NEW n \in Nat, NEW m \in Map(n), NEW ds \in Reports(m)
  PROVE  /\ ds \in [1 .. Cardinality(RunsOf(m)) -> RunsOf(m)]
         /\ \A d \in RunsOf(m) : \E i \in 1 .. Cardinality(RunsOf(m)) : ds[i] = d
<1> DEFINE D == 1 .. Cardinality(RunsOf(m))
<1>1. IsFiniteSet(RunsOf(m)) /\ Cardinality(RunsOf(m)) \in Nat
  BY RunsFinite
<1>2. ds \in [D -> RunsOf(m)] /\ \A i, j \in D : i # j => ds[i] # ds[j]
  BY DEF Reports, SetToSeqs
<1>3. ds \in Injection(D, RunsOf(m))
  BY <1>2 DEF Injection, IsInjective
<1>4. Cardinality(D) = Cardinality(RunsOf(m))
  BY <1>1, FS_Interval
<1>5. ds \in Surjection(D, RunsOf(m))
  BY <1>1, <1>3, <1>4, FS_Injection
<1>6. QED BY <1>2, <1>5 DEF Surjection

-----------------------------------------------------------------------------
(* The invariant. *)

(* The holder describes the map as it is. *)
Whole ==
  /\ descriptor_size = DESCRIPTOR_SIZE
  /\ memory_map_size <= BUFFER_SIZE
  /\ SubSeq(memory_map_buffer, 1, memory_map_size) \in Reports(efi_map)

(* A map that is too large does not go unnoticed. *)
Noticed == FitsBuffer \/ ~compares

(* What the steps of the loop know of the holder.  Before each fetch its   *)
(* key is old and its size that of an earlier map that did fit, or that of *)
(* the buffer, as it is in a build that never fetches twice.  After it a   *)
(* current key comes with the whole map, if the fetch has succeeded or     *)
(* could not have failed.                                                  *)
Holder ==
  /\ \E n \in Nat : efi_map \in Map(n)
  /\ map_key <= efi_key
  /\ pc = "get_memory_map" => map_key < efi_key /\ memory_map_size <= BUFFER_SIZE
  /\ pc = "get_memory_map" /\ compares => memory_map_size = BUFFER_SIZE
  /\ pc = "assert" /\ status = "SUCCESS" => memory_map_size <= BUFFER_SIZE
  /\ pc = "assert" /\ map_key = efi_key /\ (status = "SUCCESS" \/ (FitsBuffer /\ compares))
       => Whole
  /\ pc \in {"exit_boot_services", "check"} /\ ~compares => memory_map_size <= BUFFER_SIZE
  /\ pc \in {"exit_boot_services", "check", "init_with_mmap", "ready"}
       /\ map_key = efi_key /\ Noticed => Whole
  /\ pc = "check" /\ status # "SUCCESS" => map_key < efi_key
  /\ boot_services = "exited" =>
       /\ map_key = efi_key
       /\ pc \in {"check", "init_with_mmap", "ready"}

(* What the walk of the map has given to the heap so far. *)
Walked ==
  {p \in Pages : \E i \in 1 .. ofs :
                   /\ memory_map_buffer[i].memory_type = CONVENTIONAL
                   /\ p \in memory_map_buffer[i].first .. memory_map_buffer[i].last}

Given ==
  /\ pc \notin {"init_with_mmap", "ready"} => heap = {} /\ ofs = 0
  /\ boot_services = "exited" /\ Noticed => heap = Walked
  /\ pc = "ready" => ofs = memory_map_size

ExitInv == TypeOK /\ Holder /\ Given

(* The kernel starts with an empty holder. *)
LEMMA InitHolds == Init => ExitInv
<1> SUFFICES ASSUME Init PROVE ExitInv
  OBVIOUS
<1> USE DEF Init
<1>1. PICK n \in DOMAIN efi_map : efi_map \in [0 .. n -> Types]
  BY BootServicesAssumption
<1>2. n \in Nat /\ Pages = 0 .. n /\ efi_map \in Map(n)
  BY <1>1 DEF Pages, Map
<1>3. BUFFER_SIZE \in Nat \ {0} /\ MaxKey \in Nat \ {0}
  BY BootServicesAssumption
<1>4. ZeroDescriptor \in [first : Pages, last : Pages, memory_type : Types \cup {"RESERVED"}]
  BY <1>2 DEF ZeroDescriptor, Descriptor
<1>5. TypeOK
  BY <1>1, <1>2, <1>3, <1>4 DEF TypeOK, Pages
<1>6. Holder
  BY <1>2, <1>3 DEF Holder
<1>7. Given
  BY DEF Given
<1>8. QED BY <1>5, <1>6, <1>7 DEF ExitInv

(* The firmware's change leaves the holder with an old key. *)
LEMMA FirmwareKeeps == ExitInv /\ FirmwareChangesMap => ExitInv'
<1> SUFFICES ASSUME ExitInv, FirmwareChangesMap PROVE ExitInv'
  OBVIOUS
<1> USE DEF ExitInv
<1>1. PICK n \in Nat : efi_map \in Map(n)
  BY DEF Holder
<1>2. /\ boot_services = "available" /\ efi_key < MaxKey /\ efi_key' = efi_key + 1
      /\ UNCHANGED <<boot_services, compares, memory_map_buffer, memory_map_size, map_key,
                     descriptor_size, status, ofs, heap, pc>>
  BY DEF FirmwareChangesMap, holderVars
<1>3. efi_map' \in Map(n) /\ Pages' = Pages
  BY <1>1 DEF FirmwareChangesMap, Map, Pages, Types
<1>4. TypeOK'
  <2>1. Pages = 0 .. n /\ efi_map' \in [Pages' -> Types]
    BY <1>1, <1>3 DEF Map, Pages
  <2>2. efi_key' \in 1 .. MaxKey
    BY <1>2, BootServicesAssumption DEF TypeOK
  <2>3. QED BY <1>2, <1>3, <2>1, <2>2 DEF TypeOK
<1>5. Holder'
  BY <1>2, <1>3 DEF Holder, TypeOK
<1>6. Given'
  BY <1>2 DEF Given
<1>7. QED BY <1>4, <1>5, <1>6

(* A fetch that fits puts a report of the current map into the holder; one *)
(* that does not, with any key, is found too large for the buffer or will  *)
(* be noticed.                                                             *)
LEMMA FetchKeeps == ExitInv /\ GetMemoryMap => ExitInv'
<1> SUFFICES ASSUME ExitInv, GetMemoryMap PROVE ExitInv'
  OBVIOUS
<1> USE DEF ExitInv
<1>1. PICK n \in Nat : efi_map \in Map(n)
  BY DEF Holder
<1>2. PICK needed \in Nat : needed = Needed
  BY <1>1, RunsFinite DEF Needed
<1>3. /\ pc = "get_memory_map" /\ pc' = "assert" /\ memory_map_size' = needed
      /\ UNCHANGED <<efi_map, efi_key, boot_services, compares, ofs, heap>>
      /\ Pages = 0 .. n /\ Pages' = Pages /\ Needed' = needed
  BY <1>1, <1>2 DEF GetMemoryMap, get_memory_map, efiVars, Pages, Map, Needed
<1>4. /\ map_key < efi_key /\ memory_map_size <= BUFFER_SIZE /\ memory_map_size \in Nat
      /\ compares => memory_map_size = BUFFER_SIZE
      /\ map_key \in 0 .. MaxKey /\ descriptor_size \in {0, DESCRIPTOR_SIZE}
      /\ boot_services # "exited" /\ heap = {} /\ ofs = 0
      /\ efi_key \in 1 .. MaxKey /\ MaxKey \in Nat /\ BUFFER_SIZE \in Nat
  BY <1>3, BootServicesAssumption DEF Holder, Given, TypeOK
<1>5. CASE needed > memory_map_size
  <2>1. /\ UNCHANGED memory_map_buffer /\ status' = "BUFFER_TOO_SMALL"
        /\ map_key' \in {map_key, efi_key}
        /\ descriptor_size' \in {descriptor_size, DESCRIPTOR_SIZE}
    BY <1>2, <1>5, <1>4 DEF GetMemoryMap, get_memory_map
  <2>2. TypeOK'
    BY <1>3, <1>4, <2>1 DEF TypeOK
  <2>3. Holder'
    <3>1. ~(FitsBuffer' /\ compares')
      BY <1>3, <1>4, <1>5 DEF FitsBuffer
    <3>2. map_key' <= efi_key'
      BY <1>3, <1>4, <2>1
    <3>3. QED BY <1>1, <1>3, <1>4, <2>1, <3>1, <3>2 DEF Holder
  <2>4. Given'
    BY <1>3, <1>4 DEF Given
  <2>5. QED BY <2>2, <2>3, <2>4
<1>6. CASE needed <= memory_map_size
  <2>1. PICK ds \in Reports(efi_map) :
          memory_map_buffer' = [i \in 1 .. BUFFER_SIZE |->
                                  IF i <= needed THEN ds[i] ELSE memory_map_buffer[i]]
    BY <1>2, <1>6, <1>4 DEF GetMemoryMap, get_memory_map
  <2>2. map_key' = efi_key /\ status' = "SUCCESS" /\ descriptor_size' = DESCRIPTOR_SIZE
    BY <1>2, <1>6, <1>4 DEF GetMemoryMap, get_memory_map
  <2>3. ds \in [1 .. needed -> RunsOf(efi_map)]
    BY <1>1, <1>2, ReportListsAll DEF Needed
  <2>4. \A i \in 1 .. needed :
          ds[i] \in [first : Pages, last : Pages, memory_type : Types \cup {"RESERVED"}]
    <3>1. ASSUME NEW d \in RunsOf(efi_map)
          PROVE  d \in [first : Pages, last : Pages, memory_type : Types \cup {"RESERVED"}]
      <4>1. d \in [first : 0 .. n, last : 0 .. n, memory_type : Types]
        BY <1>1, RunFields
      <4>2. QED BY <4>1, <1>3
    <3>2. QED BY <2>3, <3>1
  <2>5. memory_map_buffer' \in
          [1 .. BUFFER_SIZE ->
             [first : Pages, last : Pages, memory_type : Types \cup {"RESERVED"}]]
    BY <2>1, <2>4, <1>4 DEF TypeOK
  <2>6. TypeOK'
    BY <1>3, <1>4, <2>2, <2>5 DEF TypeOK
  <2>7. SubSeq(memory_map_buffer', 1, needed) = ds
    <3>1. memory_map_buffer' \in Seq(Range(memory_map_buffer'))
      BY <2>5, <1>4 DEF Range
    <3>2. Len(memory_map_buffer') = BUFFER_SIZE /\ needed <= BUFFER_SIZE
      BY <2>5, <1>4, <1>6
    <3>3. SubSeq(memory_map_buffer', 1, needed) =
            [i \in 1 .. needed |-> memory_map_buffer'[i]]
      BY <3>1, <3>2
    <3>4. \A i \in 1 .. needed : memory_map_buffer'[i] = ds[i]
      BY <2>1, <3>2, <1>4
    <3>5. QED BY <3>3, <3>4, <2>3
  <2>8. Holder'
    <3>1. SubSeq(memory_map_buffer', 1, memory_map_size') \in Reports(efi_map')
      BY <1>3, <2>7
    <3>2. needed <= BUFFER_SIZE /\ map_key' <= efi_key' /\ efi_map' \in Map(n)
      BY <1>1, <1>3, <1>4, <1>6, <2>2
    <3>3. boot_services' # "exited" /\ pc' = "assert"
      BY <1>3, <1>4
    <3>4. Whole'
      BY <1>3, <2>2, <3>1, <3>2 DEF Whole
    <3>5. QED BY <1>3, <3>2, <3>3, <3>4 DEF Holder
  <2>9. Given'
    BY <1>3, <1>4 DEF Given
  <2>10. QED BY <2>6, <2>8, <2>9
<1>7. QED BY <1>5, <1>6, <1>4

(* The assertion, the offer of the key, and the end of a turn. *)
LEMMA LoopKeeps ==
  ExitInv /\ (AssertGot \/ ExitBootServices \/ CheckExited) => ExitInv'
<1> SUFFICES ASSUME ExitInv, AssertGot \/ ExitBootServices \/ CheckExited PROVE ExitInv'
  OBVIOUS
<1> USE DEF ExitInv
<1>0. /\ UNCHANGED <<efi_map, efi_key, compares, memory_map_buffer, memory_map_size, map_key,
                     descriptor_size, ofs, heap>>
      /\ Pages' = Pages /\ Whole' = Whole /\ FitsBuffer' = FitsBuffer /\ Noticed' = Noticed
  BY DEF AssertGot, ExitBootServices, CheckExited, efiVars, holderVars, Pages, Whole,
         FitsBuffer, Noticed, Needed
<1>1. CASE AssertGot
  <2>1. TypeOK'
    BY <1>0, <1>1 DEF AssertGot, TypeOK, efiVars
  <2>2. Holder'
    <3>1. CASE pc' = "panic"
      BY <1>0, <1>1, <3>1 DEF AssertGot, Holder, efiVars
    <3>2. CASE pc' = "exit_boot_services"
      <4>1. StatusEqualsSuccess /\ pc = "assert" /\ UNCHANGED <<boot_services, status>>
        BY <1>1, <3>2 DEF AssertGot, efiVars
      <4>2. ASSUME map_key = efi_key, Noticed PROVE Whole
        <5>1. status = "SUCCESS" \/ (FitsBuffer /\ compares)
          BY <4>1, <4>2, Zenon DEF Noticed, StatusEqualsSuccess
        <5>2. QED BY <4>1, <4>2, <5>1 DEF Holder
      <4>3. ~compares => memory_map_size <= BUFFER_SIZE
        BY <4>1 DEF Holder, StatusEqualsSuccess
      <4>4. QED BY <1>0, <3>2, <4>1, <4>2, <4>3 DEF Holder
    <3>3. QED BY <1>1, <3>1, <3>2 DEF AssertGot
  <2>3. Given'
    BY <1>0, <1>1 DEF AssertGot, Given, Holder, efiVars
  <2>4. QED BY <2>1, <2>2, <2>3
<1>2. CASE ExitBootServices
  <2>1. TypeOK'
    BY <1>0, <1>2 DEF ExitBootServices, exit_boot_services, TypeOK
  <2>2. Holder'
    BY <1>0, <1>2 DEF ExitBootServices, exit_boot_services, Holder, TypeOK
  <2>3. Given'
    <3>1. heap = {} /\ ofs = 0 /\ pc' = "check"
      BY <1>2 DEF ExitBootServices, Given
    <3>2. Walked' = {}
      BY <1>0, <3>1 DEF Walked
    <3>3. QED BY <1>0, <3>1, <3>2 DEF Given
  <2>4. QED BY <2>1, <2>2, <2>3
<1>3. CASE CheckExited
  <2>1. TypeOK'
    BY <1>0, <1>3 DEF CheckExited, TypeOK, efiVars
  <2>2. Holder'
    BY <1>0, <1>3 DEF CheckExited, Holder, TypeOK, efiVars, StatusEqualsSuccess
  <2>3. Given'
    BY <1>0, <1>3 DEF CheckExited, Given, Walked, efiVars
  <2>4. QED BY <2>1, <2>2, <2>3
<1>4. QED BY <1>1, <1>2, <1>3

(* A descriptor that is read after the exit lies in the buffer; what the   *)
(* walk gives to the heap is its pages if they are conventional.           *)
LEMMA WalkKeeps == ExitInv /\ (NextDescriptor \/ IterationEnds) => ExitInv'
<1> SUFFICES ASSUME ExitInv, NextDescriptor \/ IterationEnds PROVE ExitInv'
  OBVIOUS
<1> USE DEF ExitInv
<1>0. /\ pc = "init_with_mmap"
      /\ UNCHANGED <<efi_map, efi_key, boot_services, compares, memory_map_buffer,
                     memory_map_size, map_key, descriptor_size, status>>
      /\ Pages' = Pages /\ Whole' = Whole /\ FitsBuffer' = FitsBuffer /\ Noticed' = Noticed
  BY DEF NextDescriptor, IterationEnds, efiVars, holderVars, Pages, Whole, FitsBuffer, Noticed,
         Needed
<1>1. CASE IterationEnds
  <2>1. pc' = "ready" /\ ofs >= memory_map_size /\ UNCHANGED <<ofs, heap>>
    BY <1>1 DEF IterationEnds
  <2>2. TypeOK'
    BY <1>0, <2>1 DEF TypeOK
  <2>3. Holder'
    BY <1>0, <2>1 DEF Holder
  <2>4. Given'
    BY <1>0, <2>1 DEF Given, Walked, TypeOK
  <2>5. QED BY <2>2, <2>3, <2>4
<1>2. CASE NextDescriptor
  <2>1. pc' = pc /\ ofs < memory_map_size /\ ofs' = ofs + descriptor_size
    BY <1>2 DEF NextDescriptor
  <2>2. ofs \in Nat /\ ofs' \in 0 .. memory_map_size /\ BUFFER_SIZE \in Nat
    BY <2>1, BootServicesAssumption DEF TypeOK, DESCRIPTOR_SIZE
  <2>3. Holder'
    BY <1>0, <2>1 DEF Holder
  <2>4. boot_services = "exited" /\ Noticed => Whole
    BY <1>0 DEF Holder
  <2>5. CASE ofs < BUFFER_SIZE
    <3>1. PICK d \in [first : Pages, last : Pages, memory_type : Types \cup {"RESERVED"}] :
            d = memory_map_buffer[ofs + 1]
      BY <2>2, <2>5 DEF TypeOK
    <3>2. PICK n \in Nat : Pages = 0 .. n
      BY DEF Holder, Map, Pages
    <3>3. heap' = heap \cup (IF d.memory_type = CONVENTIONAL THEN d.first .. d.last ELSE {})
      BY <1>2, <2>5, <3>1 DEF NextDescriptor
    <3>4. d.first \in 0 .. n /\ d.last \in 0 .. n
      BY <3>1, <3>2
    <3>5. d.first .. d.last \subseteq Pages
      BY <3>2, <3>4
    <3>6. TypeOK'
      BY <1>0, <2>1, <2>2, <3>3, <3>5 DEF TypeOK
    <3>7. ASSUME Whole
          PROVE  Walked' = Walked \cup
                   (IF d.memory_type = CONVENTIONAL THEN d.first .. d.last ELSE {})
      <4>1. 1 .. ofs' = (1 .. ofs) \cup {ofs + 1}
        BY <2>1, <2>2, <3>7 DEF Whole, DESCRIPTOR_SIZE
      <4>2. QED BY <4>1, <1>0, <3>1, <3>5 DEF Walked
    <3>8. Given'
      BY <1>0, <2>1, <2>4, <3>3, <3>7 DEF Given
    <3>9. QED BY <2>3, <3>6, <3>8
  <2>6. CASE ~(ofs < BUFFER_SIZE)
    <3>1. ~(boot_services = "exited" /\ Noticed)
      BY <2>1, <2>2, <2>4, <2>6 DEF Whole, TypeOK
    <3>2. heap' \subseteq Pages
      BY <1>2, <2>6 DEF NextDescriptor, TypeOK
    <3>3. TypeOK'
      BY <1>0, <2>1, <2>2, <3>2 DEF TypeOK
    <3>4. Given'
      BY <1>0, <2>1, <3>1 DEF Given
    <3>5. QED BY <2>3, <3>3, <3>4
  <2>7. QED BY <2>5, <2>6
<1>3. QED BY <1>1, <1>2

(* Every step keeps the invariant. *)
LEMMA NextHolds == ExitInv /\ [Next]_vars => ExitInv'
<1> SUFFICES ASSUME ExitInv, [Next]_vars PROVE ExitInv'
  OBVIOUS
<1>1. CASE Next
  BY <1>1, FirmwareKeeps, FetchKeeps, LoopKeeps, WalkKeeps DEF Next, Kernel
<1>2. CASE UNCHANGED vars
  BY <1>2 DEF ExitInv, TypeOK, Holder, Given, Walked, Whole, Noticed, FitsBuffer, Needed, Pages,
              vars, efiVars, holderVars
<1>3. QED BY <1>1, <1>2

-----------------------------------------------------------------------------
(* The theorems. *)

(* The invariant of the exit holds in every state.                         *)
THEOREM ExitInvHolds == Spec => []ExitInv
BY InitHolds, NextHolds, PTL DEF Spec

(* The walk never leaves the map that the holder describes, and the heap   *)
(* is only given pages that exist.                                         *)
THEOREM ExitTypeCorrect == Spec => []TypeOK
<1>1. ExitInv => TypeOK
  BY DEF ExitInv
<1>2. QED BY <1>1, ExitInvHolds, PTL

(* However often the firmware changes its map between the two calls of a   *)
(* turn, the map in hand after the exit is the current one.                *)
THEOREM CurrentMapHolds == Spec => []ExitedWithCurrentMap
<1>1. ExitInv => ExitedWithCurrentMap
  BY DEF ExitInv, Holder, Whole, Noticed, ExitedWithCurrentMap
<1>2. QED BY <1>1, ExitInvHolds, PTL

(* The heap gets memory that the firmware left free, and in the end all of *)
(* it, in whatever order the map lists it.                                 *)
THEOREM HeapIsFreeHolds == Spec => []HeapIsFree
<1>1. ASSUME ExitInv, boot_services = "exited", Noticed
      PROVE  heap \subseteq FreePages /\ (pc = "ready" => heap = FreePages)
  <2>0. Whole
    BY <1>1 DEF ExitInv, Holder
  <2>1. PICK n \in Nat : efi_map \in Map(n)
    BY <1>1 DEF ExitInv, Holder
  <2>2. PICK k \in Nat : k = Cardinality(RunsOf(efi_map))
    BY <2>1, RunsFinite
  <2>3. PICK ds \in Reports(efi_map) :
          ds = SubSeq(memory_map_buffer, 1, memory_map_size)
    BY <2>0 DEF Whole
  <2>4. /\ ds \in [1 .. k -> RunsOf(efi_map)]
        /\ \A d \in RunsOf(efi_map) : \E i \in 1 .. k : ds[i] = d
    BY <2>1, <2>2, ReportListsAll
  <2>5. /\ memory_map_size \in Nat /\ memory_map_size <= BUFFER_SIZE
        /\ BUFFER_SIZE \in Nat /\ ofs \in 0 .. memory_map_size
        /\ heap = Walked /\ Pages = 0 .. n
    BY <1>1, <2>0, <2>1, BootServicesAssumption DEF ExitInv, Whole, Given, TypeOK, Map, Pages
  <2>6. ds = [i \in 1 .. memory_map_size |-> memory_map_buffer[i]]
    <3>1. memory_map_buffer \in Seq(Range(memory_map_buffer))
      <4>1. DOMAIN memory_map_buffer = 1 .. BUFFER_SIZE
        BY <1>1 DEF ExitInv, TypeOK
      <4>2. memory_map_buffer = [i \in 1 .. BUFFER_SIZE |-> memory_map_buffer[i]]
        BY <1>1 DEF ExitInv, TypeOK
      <4>3. \A i \in 1 .. BUFFER_SIZE : memory_map_buffer[i] \in Range(memory_map_buffer)
        BY <4>1, Zenon DEF Range
      <4>4. QED BY <2>5, <4>2, <4>3
    <3>2. Len(memory_map_buffer) = BUFFER_SIZE
      BY <1>1, <2>5 DEF ExitInv, TypeOK
    <3>3. QED BY <2>3, <2>5, <3>1, <3>2
  <2>7. memory_map_size = k
    <3>1. 1 .. memory_map_size = 1 .. k
      BY <2>4, <2>6
    <3>2. QED BY <3>1, <2>2, <2>5
  <2>8. \A i \in 1 .. k : memory_map_buffer[i] \in RunsOf(efi_map)
    BY <2>4, <2>6, <2>7
  <2>9. heap \subseteq FreePages
    <3>1. ASSUME NEW p \in heap PROVE p \in FreePages
      <4>1. PICK i \in 1 .. k :
              /\ memory_map_buffer[i].memory_type = CONVENTIONAL
              /\ p \in memory_map_buffer[i].first .. memory_map_buffer[i].last
        BY <2>5, <2>7, <3>1 DEF Walked
      <4>2. p \in 0 .. n /\ efi_map[p] = memory_map_buffer[i].memory_type
        BY <2>1, <2>8, <4>1, RunFields
      <4>3. QED BY <4>1, <4>2, <2>5 DEF FreePages
    <3>2. QED BY <3>1
  <2>10. ASSUME pc = "ready" PROVE FreePages \subseteq heap
    <3>1. ofs = k
      BY <1>1, <2>7, <2>10 DEF ExitInv, Given
    <3>2. ASSUME NEW p \in FreePages PROVE p \in heap
      <4>1. p \in 0 .. n /\ efi_map[p] = CONVENTIONAL
        BY <2>5 DEF FreePages
      <4>2. PICK d \in RunsOf(efi_map) : p \in d.first .. d.last
        BY <2>1, <4>1, PageInRun
      <4>3. d.memory_type = CONVENTIONAL
        BY <2>1, <4>1, <4>2, RunFields
      <4>4. PICK i \in 1 .. k : ds[i] = d
        BY <2>4
      <4>5. memory_map_buffer[i] = d
        BY <2>6, <2>7, <4>4
      <4>6. QED BY <2>5, <3>1, <4>1, <4>2, <4>3, <4>5 DEF Walked
    <3>3. QED BY <3>2
  <2>11. QED BY <2>9, <2>10
<1>2. ExitInv => HeapIsFree
  BY <1>1 DEF HeapIsFree, Noticed
<1>3. QED BY <1>2, ExitInvHolds, PTL

=============================================================================
