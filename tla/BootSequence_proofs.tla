-------------------------- MODULE BootSequence_proofs --------------------------
(***************************************************************************)
(* A boot is correct for every machine, every number base of an address,   *)
(* every code segment of the firmware and every moment at which exceptions *)
(* come.                                                                   *)
(*                                                                         *)
(* The first part is about the descriptors: what the processor puts        *)
(* together again is the address that the code took apart.  The second is  *)
(* the invariant BootInv: what the tables, the registers and the heap hold *)
(* at each step of efi_main, and what an exception has come to.            *)
(***************************************************************************)
EXTENDS BootSequence, IntegerFacts

-----------------------------------------------------------------------------
(* The descriptors. *)

(* The bases of the digits are positive, and so are their products. *)
LEMMA Radices ==
  /\ HALF_RADIX \in Nat \ {0}
  /\ RADIX \in Nat \ {0}
  /\ RADIX * HALF_RADIX \in Nat \ {0}
  /\ RADIX * RADIX \in Nat \ {0}
  /\ (RADIX * HALF_RADIX) * HALF_RADIX = RADIX * RADIX
<1>1. PICK h \in Nat \ {0} : h = HALF_RADIX
  BY SegmentsAssumption
<1>2. PICK r \in Nat \ {0} : r = h * h
  BY LowDigits
<1>3. RADIX = r
  BY <1>1, <1>2, Zenon DEF RADIX
<1>4. r * h \in Nat \ {0} /\ r * r \in Nat \ {0}
  BY LowDigits
<1>5. (r * h) * h = r * (h * h)
  BY SMT
<1>6. QED BY <1>1, <1>2, <1>3, <1>4, <1>5, Zenon

(* An address has no digits beyond those of the fields. *)
LEMMA AddressDigits ==
  ASSUME NEW a \in Address
  PROVE  a \in Nat /\ a % ((RADIX * RADIX) * (RADIX * RADIX)) = a
<1>1. PICK r \in Nat \ {0}, q \in Nat \ {0} : r = RADIX /\ q = r * r
  BY Radices, Zenon
<1>2. PICK s \in Nat \ {0} : s = q * q
  BY LowDigits
<1>3. RADIX * RADIX * RADIX * RADIX = s
  <2>1. r * r * r * r = (r * r) * (r * r)
    BY SMT
  <2>2. QED BY <1>1, <1>2, <2>1, Zenon
<1>4. a \in 0 .. s - 1
  BY <1>3, Zenon DEF Address
<1>5. a % s = a
  BY <1>4, SMT
<1>6. QED BY <1>1, <1>2, <1>4, <1>5

(* The processor finds the handler where Idt::new says it is. *)
LEMMA OffsetOfGate ==
  ASSUME NEW a \in Address, NEW i
  PROVE  Offset(IdtDescriptor(i, a)) = a
<1>1. a \in Nat /\ a % ((RADIX * RADIX) * (RADIX * RADIX)) = a
  BY AddressDigits
<1>2. PICK r \in Nat \ {0}, q \in Nat \ {0} : r = RADIX /\ q = r * r
  BY Radices, Zenon
<1>3. (a % r) + r * ((a \div r) % r) = a % q
  <2>1. (a % r) + r * ((a \div r) % r) = a % (r * r)
    BY <1>1, LowDigits
  <2>2. QED BY <1>2, <2>1, Zenon
<1>4. (a % q) + q * ((a \div q) % q) = a
  <2>1. (a % q) + q * ((a \div q) % q) = a % (q * q)
    BY <1>1, LowDigits
  <2>2. QED BY <1>1, <1>2, <2>1, Zenon
<1>5. Offset(IdtDescriptor(i, a))
        = (a % r) + r * ((a \div r) % r) + q * ((a \div q) % q)
  BY <1>2, Zenon DEF Offset, IdtDescriptor
<1>6. QED BY <1>3, <1>4, <1>5, Zenon

(* ... and the TSS where the heap has put it. *)
LEMMA BaseOfTss ==
  ASSUME NEW a \in Address
  PROVE  BaseOf(TssDescriptor(a)) = a
<1>1. a \in Nat /\ a % ((RADIX * RADIX) * (RADIX * RADIX)) = a
  BY AddressDigits
<1>2. PICK h \in Nat \ {0}, r \in Nat \ {0}, t \in Nat \ {0}, q \in Nat \ {0} :
        /\ h = HALF_RADIX /\ r = RADIX
        /\ t = r * h /\ q = r * r /\ t * h = q
  BY Radices, Zenon
<1>3. (a % r) + r * ((a \div r) % h) = a % t
  <2>1. (a % r) + r * ((a \div r) % h) = a % (r * h)
    BY <1>1, LowDigits
  <2>2. QED BY <1>2, <2>1, Zenon
<1>4. (a % t) + t * ((a \div t) % h) = a % q
  <2>1. (a % t) + t * ((a \div t) % h) = a % (t * h)
    BY <1>1, LowDigits
  <2>2. QED BY <1>2, <2>1, Zenon
<1>5. (a % q) + q * ((a \div q) % q) = a
  <2>1. (a % q) + q * ((a \div q) % q) = a % (q * q)
    BY <1>1, LowDigits
  <2>2. QED BY <1>1, <1>2, <2>1, Zenon
<1>6. BaseOf(TssDescriptor(a))
        = (a % r) + r * ((a \div r) % h) + t * ((a \div t) % h) + q * ((a \div q) % q)
  BY <1>2, Zenon DEF BaseOf, TssDescriptor
<1>7. QED BY <1>3, <1>4, <1>5, <1>6, Zenon

-----------------------------------------------------------------------------
(* What an exception comes to. *)

(* Before the kernel has touched a register the firmware handles it. *)
LEMMA FirmwareDelivers ==
  ASSUME gdtr = "firmware", idtr = "firmware", NEW v \in Vectors, NEW cause
  PROVE  Delivery(cause, v) = [to |-> "firmware", cause |-> cause]
<1>1. IsLongCode(FIRMWARE_CS)
  BY DEF IsLongCode, Descriptor, KernelCode, BIT_TYPE_CODE, BIT_PRESENT, BIT_CS_READABLE
<1>2. \A u : Deliverable(u)
  BY <1>1 DEF Deliverable
<1>3. v \in {u \in Chain(v) : Deliverable(u)}
  BY <1>2 DEF Chain
<1>4. QED BY <1>3 DEF Delivery

(* With the GDT of the kernel and the IDT of the firmware only a firmware  *)
(* that uses the same selector does.                                       *)
LEMMA WindowDelivers ==
  ASSUME gdtr = "kernel", idtr = "firmware", NEW v \in Vectors, NEW cause
  PROVE  \/ Delivery(cause, v) = [to |-> "reset", cause |-> cause]
         \/ /\ Delivery(cause, v) = [to |-> "firmware", cause |-> cause]
            /\ FIRMWARE_CS = KERNEL_CS
<1>1. ASSUME IsLongCode(FIRMWARE_CS) PROVE FIRMWARE_CS = KERNEL_CS
  <2>1. 43 \in Descriptor(FIRMWARE_CS)
    BY <1>1 DEF IsLongCode
  <2>2. FIRMWARE_CS \in DOMAIN Gdt /\ 43 \in Gdt[FIRMWARE_CS]
    BY <2>1 DEF Descriptor
  <2>3. 43 \notin KernelData
    BY DEF KernelData, BIT_TYPE_DATA, BIT_PRESENT, BIT_DS_WRITABLE
  <2>4. QED BY <2>2, <2>3 DEF Gdt
<1>2. CASE {u \in Chain(v) : Deliverable(u)} = {}
  BY <1>2 DEF Delivery
<1>3. CASE {u \in Chain(v) : Deliverable(u)} # {}
  <2>1. IsLongCode(FIRMWARE_CS)
    BY <1>3 DEF Deliverable
  <2>2. QED BY <1>1, <1>3, <2>1 DEF Delivery
<1>4. QED BY <1>2, <1>3

(* What the handler of a vector starts with. *)
Arrived(v) ==
  [to |-> "kernel", cause |-> "exception", vector |-> v,
   offset |-> entry[v], stack |-> Ist[IF v = 8 THEN 2 ELSE 1]]

(* The descriptors that the kernel's own selectors name. *)
LEMMA KernelSelectors ==
  ASSUME gdtr = "kernel", "gdt" \in tables
  PROVE  IsLongCode(KERNEL_CS) /\ IsWritable(KERNEL_DS)
<1>1. Descriptor(KERNEL_CS) = KernelCode /\ Descriptor(KERNEL_DS) = KernelData
  BY DEF Descriptor, Gdt, KERNEL_CS, KERNEL_DS, GDT_LIMIT
<1>2. QED
  BY <1>1 DEF IsLongCode, IsWritable, KernelCode, KernelData, BIT_TYPE_CODE,
              BIT_TYPE_DATA, BIT_PRESENT, BIT_CS_READABLE, BIT_DS_WRITABLE

(* With all three tables loaded each vector has its own handler. *)
LEMMA KernelDelivers ==
  ASSUME gdtr = "kernel", idtr = "kernel", tr = "kernel",
         tables = {"tss", "gdt", "idt"},
         entry \in [Vectors -> Address], tss_address \in Address,
         NEW v \in Vectors
  PROVE  Delivery("exception", v) = Arrived(v)
<1>1. ASSUME NEW i \in 1 .. 2 PROVE Stack(i) = Ist[i] /\ Ist[i] = i
  BY BaseOfTss DEF Stack, Ist
<1>2. /\ Idt[v].segment_selector = KERNEL_CS
      /\ Idt[v].ist_index = IF v = 8 THEN 2 ELSE 1
      /\ Idt[v] = IdtDescriptor(Idt[v].ist_index, entry[v])
  BY DEF Idt, IdtDescriptor
<1>3. Stack(Idt[v].ist_index) = Ist[IF v = 8 THEN 2 ELSE 1] /\ Stack(Idt[v].ist_index) # 0
  BY <1>1, <1>2
<1>4. Deliverable(v)
  BY <1>2, <1>3, KernelSelectors DEF Deliverable, NO_STACK
<1>5. v \in {u \in Chain(v) : Deliverable(u)}
  BY <1>4 DEF Chain
<1>6. Offset(Idt[v]) = entry[v]
  <2>1. entry[v] \in Address
    OBVIOUS
  <2>2. QED BY <1>2, <2>1, OffsetOfGate
<1>7. QED BY <1>3, <1>5, <1>6 DEF Delivery, Arrived

-----------------------------------------------------------------------------
(* The memory in use has an end, which is above the first page. *)
LEMMA EndIsPage ==
  ASSUME machine \in Machines
  PROVE  EndOfMem \in Nat \ {0}
<1> DEFINE UsedEnds == {machine.map[i].last + 1 :
                          i \in {j \in DOMAIN machine.map : Used(machine.map[j])}}
           Ends == {MIN_END} \cup UsedEnds
<1>1. machine.map \in Seq([memory_type : MemoryTypes, first : Nat, last : Nat])
  BY BootSequenceAssumption DEF Machine
<1>2. PICK n \in Nat : n = Len(machine.map) /\ DOMAIN machine.map = 1 .. n
  BY <1>1
<1>3. \A i \in 1 .. n : machine.map[i].last \in Nat
  <2> DEFINE Run == [memory_type : MemoryTypes, first : Nat, last : Nat]
  <2>1. \A i \in 1 .. n : machine.map[i] \in Run
    <3>1. machine.map \in Seq(Run)
      BY <1>1
    <3> HIDE DEF Run
    <3>2. QED BY <1>2, <3>1
  <2>2. QED BY <2>1
<1>4. PICK b \in Nat : \A i \in 1 .. n : machine.map[i].last <= b
  <2> DEFINE f == [i \in 1 .. n |-> machine.map[i].last]
  <2>1. \A i \in 1 .. n : f[i] \in Nat
    BY <1>3
  <2>2. PICK b \in Nat : \A i \in 1 .. n : f[i] <= b
    <3> HIDE DEF f
    <3>1. QED BY <2>1, Bounded
  <2>3. QED BY <2>2
<1>5. PICK m \in Nat \ {0} : m = MIN_END
  BY BootSequenceAssumption
<1>6. \A e \in Ends : e \in Nat /\ e <= m + b + 1
  BY <1>2, <1>3, <1>4, <1>5
<1>7. Ends \in SUBSET Nat /\ Ends # {} /\ m \in Ends
  BY <1>5, <1>6
<1>8. PICK x \in Ends : \A y \in Ends : x >= y
  <2> HIDE DEF Ends
  <2>1. PICK c \in Nat : c = m + b + 1
    OBVIOUS
  <2>2. \A e \in Ends : e <= c
    BY <1>6, <2>1
  <2>3. QED BY <1>7, <2>2, Greatest
<1>9. EndOfMem = Max(Ends)
  BY DEF EndOfMem
<1>10. Max(Ends) \in Ends /\ Max(Ends) >= m
  <2> HIDE DEF Ends
  <2>1. QED BY <1>7, <1>8 DEF Max
<1>11. QED BY <1>5, <1>7, <1>9, <1>10

-----------------------------------------------------------------------------
(* The invariant. *)

AfterLidt == {"trigger_debug_interrupt", "init_paging", "write_cr3",
              "return", "read_address_0", "exit_qemu"}
FromLidt     == {"lidt"} \cup AfterLidt
FromIdt      == {"Idt::new"} \cup FromLidt
FromSegments == {"segments"} \cup FromIdt
FromLtr      == {"ltr"} \cup FromSegments
FromLgdt     == {"lgdt"} \cup FromLtr
BeforeHeap   == {"locate_loaded_image", "init_vram", "draw_test_pattern",
                 "exit_boot_services", "init_with_mmap"}
Steps        == BeforeHeap \cup {"GdtWrapper::default"} \cup FromLgdt

MachineKept ==
  /\ machine \in Machines
  /\ entry = machine.entry /\ tss_address = machine.tss
  /\ heap \in Nat

(* Which tables there are, and whose the registers name, at each step. *)
TablesInv ==
  /\ pc \in Steps
  /\ tables = IF pc \in FromLidt THEN {"tss", "gdt", "idt"}
              ELSE IF pc \in FromLgdt THEN {"tss", "gdt"} ELSE {}
  /\ gdtr = IF pc \in FromLtr THEN "kernel" ELSE "firmware"
  /\ tr = IF pc \in FromSegments THEN "kernel" ELSE "firmware"
  /\ idtr = IF pc \in AfterLidt THEN "kernel" ELSE "firmware"
  /\ pc \in FromIdt => segment = Selectors

(* What the last exception has come to. *)
DeliveredInv ==
  \/ delivered = Nobody
  \/ /\ delivered.to = "firmware" /\ idtr = "firmware"
     /\ gdtr = "firmware" \/ FIRMWARE_CS = KERNEL_CS
  \/ delivered.to = "reset" /\ idtr = "firmware" /\ gdtr = "kernel"
  \/ idtr = "kernel" /\ \E v \in Vectors : delivered = Arrived(v)

(* What the steps to come take from the heap. *)
Needed ==
  IF pc = "GdtWrapper::default" THEN TABLE_BLOCKS + 1 + EndOfMem
  ELSE IF pc \in FromLgdt \ FromLidt THEN 1 + EndOfMem
  ELSE IF pc \in {"lidt", "trigger_debug_interrupt", "init_paging"} THEN EndOfMem
  ELSE 0

(* The firmware is gone once the exit lies behind. *)
BeforeExit == BeforeHeap \ {"init_with_mmap"}

CourseInv ==
  /\ Sound /\ pc \notin BeforeExit => boot_services = "exited"
  /\ end_of_mem = IF pc \in {"return", "read_address_0", "exit_qemu"}
                  THEN EndOfMem ELSE AllMapped
  /\ Sound => heap >= Needed
  /\ Sound /\ ~struck => /\ ended \in {"no", "success"}
                         /\ delivered \in {Nobody, Arrived(3)}

BootInv == MachineKept /\ TablesInv /\ DeliveredInv /\ CourseInv

(* The machine does not change, nor what is derived from it. *)
LEMMA SameMachine ==
  ASSUME machine' = machine, compares' = compares
  PROVE  EndOfMem' = EndOfMem /\ Sound' = Sound
BY DEF EndOfMem, Used, Sound

(* What the assumptions say of a machine. *)
LEMMA MachineFields ==
  ASSUME MachineKept
  PROVE  /\ entry \in [Vectors -> Address] /\ tss_address \in Address
         /\ machine.blocks \in Nat /\ TABLE_BLOCKS \in Nat
         /\ EndOfMem \in Nat \ {0}
BY BootSequenceAssumption, EndIsPage DEF MachineKept, Machine

(* The firmware starts the kernel with tables of its own. *)
LEMMA BootInitHolds == Init => BootInv
<1> SUFFICES ASSUME Init PROVE BootInv
  OBVIOUS
<1>1. MachineKept
  BY DEF Init, MachineKept
<1>2. TablesInv
  BY DEF Init, SegmentsInit, TablesInv, Steps, BeforeHeap, FromLgdt, FromLtr,
         FromSegments, FromIdt, FromLidt, AfterLidt
<1>3. DeliveredInv
  BY DEF Init, SegmentsInit, DeliveredInv
<1>4. Needed = 0
  BY DEF Init, Needed, FromLgdt, FromLtr, FromSegments, FromIdt, FromLidt, AfterLidt
<1>5. CourseInv
  BY <1>1, <1>4 DEF Init, SegmentsInit, CourseInv, MachineKept, BeforeExit, BeforeHeap
<1>6. QED BY <1>1, <1>2, <1>3, <1>5 DEF BootInv

(* A part of efi_main that ends well and leaves the tables alone. *)
LEMMA GoKeeps ==
  ASSUME BootInv, Running, UNCHANGED <<machine, compares, segmentVars, struck>>,
         heap' \in Nat, NEW next, Go(next),
         Sound /\ next \notin BeforeExit => boot_services' = "exited",
         \/ {pc, next} \subseteq BeforeHeap
         \/ pc = "init_with_mmap" /\ next = "GdtWrapper::default"
         \/ {pc, next} \subseteq AfterLidt,
         end_of_mem' = IF next \in {"return", "read_address_0", "exit_qemu"}
                       THEN EndOfMem ELSE AllMapped,
         Sound => heap' >= Needed'
  PROVE  BootInv'
<1> USE DEF Go, Running
<1>1. MachineKept'
  BY DEF BootInv, MachineKept, segmentVars
<1>2. TablesInv'
  BY DEF BootInv, TablesInv, segmentVars, Steps, BeforeHeap, FromLgdt, FromLtr,
         FromSegments, FromIdt, FromLidt, AfterLidt
<1>3. DeliveredInv'
  BY DEF DeliveredInv, segmentVars, Nobody
<1>4. CourseInv'
  BY SameMachine DEF CourseInv, segmentVars, Nobody
<1>5. QED BY <1>1, <1>2, <1>3, <1>4 DEF BootInv

(* A boot ends without a step. *)
LEMMA EndKeeps ==
  ASSUME BootInv, Unchanged, NEW how, End(how),
         Sound /\ ~struck => how = "success"
  PROVE  BootInv'
<1> USE DEF End, Unchanged, segmentVars
<1>1. MachineKept'
  BY DEF BootInv, MachineKept
<1>2. TablesInv'
  BY DEF BootInv, TablesInv
<1>3. DeliveredInv'
  BY DEF BootInv, DeliveredInv, Arrived
<1>4. CourseInv'
  <2>1. Needed' = Needed
    BY SameMachine DEF Needed
  <2>2. QED BY <2>1, SameMachine DEF BootInv, CourseInv, Arrived
<1>5. QED BY <1>1, <1>2, <1>3, <1>4 DEF BootInv

(* An exception is delivered while a step is at its end or before it. *)
LEMMA RaiseKeeps ==
  ASSUME BootInv, NEW v \in Vectors, Raise("exception", v),
         UNCHANGED <<machine, compares, boot_services, heap, end_of_mem, ended>>,
         \/ pc' = pc
         \/ pc = "trigger_debug_interrupt" /\ pc' = "init_paging",
         ~struck' => ~struck,
         Sound /\ ~struck' => v = 3 /\ idtr = "kernel"
  PROVE  BootInv'
<1> USE DEF Raise
<1>1. MachineKept'
  BY DEF BootInv, MachineKept
<1>2. TablesInv'
  BY DEF BootInv, TablesInv, Steps, BeforeHeap, FromLgdt, FromLtr,
         FromSegments, FromIdt, FromLidt, AfterLidt
<1>3. /\ DeliveredInv'
      /\ idtr = "kernel" => delivered' = Arrived(v)'
  <2>0. Arrived(v)' = Arrived(v) /\ \A w : Arrived(w)' = Arrived(w)
    BY DEF Arrived
  <2>1. CASE idtr = "kernel"
    <3>1. /\ gdtr = "kernel" /\ tr = "kernel" /\ tables = {"tss", "gdt", "idt"}
      BY <2>1 DEF BootInv, TablesInv, FromLtr, FromSegments, FromIdt, FromLidt
    <3>2. delivered' = Arrived(v)
      BY <2>1, <3>1, KernelDelivers, MachineFields DEF BootInv
    <3>3. QED BY <2>0, <2>1, <3>2 DEF DeliveredInv
  <2>2. CASE idtr = "firmware" /\ gdtr = "firmware"
    BY <2>2, FirmwareDelivers DEF DeliveredInv
  <2>3. CASE idtr = "firmware" /\ gdtr = "kernel"
    BY <2>3, WindowDelivers DEF DeliveredInv
  <2>4. QED BY <2>1, <2>2, <2>3 DEF BootInv, TablesInv
<1>4. CourseInv'
  <2>1. Needed' = Needed
    BY SameMachine DEF Needed, FromLgdt, FromLtr, FromSegments, FromIdt, FromLidt, AfterLidt
  <2>2. end_of_mem' = (IF pc \in {"return", "read_address_0", "exit_qemu"}
                       THEN EndOfMem ELSE AllMapped)'
    BY SameMachine DEF BootInv, CourseInv
  <2>3. Sound' /\ pc' \notin BeforeExit => boot_services' = "exited"
    BY SameMachine DEF BootInv, CourseInv, BeforeExit, BeforeHeap
  <2>4. QED BY <1>3, <2>1, <2>2, <2>3, SameMachine DEF BootInv, CourseInv
<1>5. QED BY <1>1, <1>2, <1>3, <1>4 DEF BootInv

(* The parts before the heap, and the one that makes it. *)
LEMMA BeforeHeapKeeps ==
  ASSUME BootInv, ended = "no",
         \/ locate_loaded_image \/ init_vram \/ draw_test_pattern
         \/ exit_boot_services \/ init_with_mmap
  PROVE  BootInv'
<1> USE DEF Begins, Unchanged
<1>1. heap \in Nat /\ (pc \in BeforeHeap => end_of_mem = AllMapped)
  BY DEF BootInv, MachineKept, CourseInv, BeforeHeap
<1>2. ASSUME NEW next \in BeforeHeap, Go(next) PROVE Needed' = 0
  BY <1>2 DEF Go, Needed, BeforeHeap, FromLgdt, FromLtr, FromSegments, FromIdt, FromLidt,
              AfterLidt
<1>3. ASSUME NEW protocol \in {"loaded_image", "graphics"}, NEW next \in BeforeExit,
             Running, pc \in BeforeHeap, Lookup(protocol, next)
      PROVE  BootInv'
  <2>1. CASE protocol \in machine.protocols
    <3>1. Go(next) /\ Unchanged
      BY <1>3, <2>1 DEF Lookup
    <3>2. next \in BeforeHeap /\ Needed' = 0
      BY <1>2, <3>1 DEF BeforeExit
    <3>3. QED BY <1>1, <1>3, <3>1, <3>2, GoKeeps DEF BeforeHeap
  <2>2. CASE protocol \notin machine.protocols
    <3>1. Unchanged /\ ~Sound /\ \E how : End(how)
      BY <1>3, <2>2 DEF Lookup, Panic, Sound
    <3>2. QED BY <3>1, EndKeeps
  <2>3. QED BY <2>1, <2>2
<1>4. CASE locate_loaded_image
  BY <1>3, <1>4 DEF locate_loaded_image, BeforeHeap, BeforeExit
<1>5. CASE init_vram
  BY <1>3, <1>5 DEF init_vram, BeforeHeap, BeforeExit
<1>6. CASE draw_test_pattern
  <2>1. CASE machine.fits
    <3>1. Go("exit_boot_services") /\ Unchanged /\ Running /\ pc \in BeforeHeap
      BY <1>6, <2>1 DEF draw_test_pattern, BeforeHeap
    <3>2. Needed' = 0
      BY <1>2, <3>1 DEF BeforeHeap
    <3>3. QED BY <1>1, <3>1, <3>2, GoKeeps DEF BeforeHeap, BeforeExit
  <2>2. CASE ~machine.fits
    <3>1. Unchanged /\ ~Sound /\ End("fail")
      BY <1>6, <2>2 DEF draw_test_pattern, Panic, Sound
    <3>2. QED BY <3>1, EndKeeps
  <2>3. QED BY <2>1, <2>2
<1>7. CASE exit_boot_services
  <2>1. /\ Running /\ pc \in BeforeHeap
        /\ UNCHANGED <<segmentVars, machine, compares, heap, end_of_mem, struck>>
    BY <1>7 DEF exit_boot_services, BeforeHeap
  <2>2. ASSUME Go("init_with_mmap"), Sound => boot_services' = "exited"
        PROVE  BootInv'
    <3>1. Needed' = 0
      BY <1>2, <2>2 DEF BeforeHeap
    <3>2. QED BY <1>1, <2>1, <2>2, <3>1, GoKeeps DEF BeforeHeap
  <2>3. CASE boot_services' = "exited" /\ Go("init_with_mmap")
    BY <2>2, <2>3
  <2>4. CASE ~machine.quiet /\ compares /\ Go("init_with_mmap")
    <3>1. ~Sound
      BY <2>4, Zenon DEF Sound
    <3>2. QED BY <2>2, <2>4, <3>1
  <2>5. CASE /\ ~machine.room /\ UNCHANGED boot_services
             /\ IF compares THEN End("undefined") ELSE Panic
    <3>1. ~Sound
      BY <2>5, Zenon DEF Sound
    <3>2. \E how : End(how)
      BY <2>5, Zenon DEF Panic
    <3>3. Unchanged
      BY <2>1, <2>5
    <3>4. QED BY <3>1, <3>2, <3>3, EndKeeps
  <2>6. QED BY <1>7, <2>3, <2>4, <2>5, Zenon DEF exit_boot_services
<1>8. CASE init_with_mmap
  <2>1. Go("GdtWrapper::default") /\ Running /\ pc = "init_with_mmap" /\ pc \in BeforeHeap
    BY <1>8 DEF init_with_mmap, BeforeHeap
  <2>2. heap' \in Nat /\ (Sound => heap' >= Needed')
    <3>1. heap' = machine.blocks /\ machine' = machine /\ compares' = compares
      BY <1>8 DEF init_with_mmap
    <3>2. Needed' = TABLE_BLOCKS + 1 + EndOfMem
      BY <2>1, <3>1, SameMachine DEF Go, Needed
    <3>3. QED BY <3>1, <3>2, MachineFields DEF BootInv, Sound
  <2>3. Sound => boot_services' = "exited"
    BY <1>8, <2>1 DEF init_with_mmap, BootInv, CourseInv, BeforeExit
  <2>4. QED BY <1>1, <1>8, <2>1, <2>2, <2>3, GoKeeps DEF init_with_mmap
<1>9. QED BY <1>4, <1>5, <1>6, <1>7, <1>8

(* init_exceptions: each step makes ready what the next one looks up. *)
LEMMA ExceptionsKeep ==
  ASSUME BootInv, ended = "no", init_exceptions
  PROVE  BootInv'
<1> USE DEF At, Running, Steps, FromLgdt, FromLtr, FromSegments, FromIdt, FromLidt, AfterLidt,
            BeforeExit, BeforeHeap
<1>1. /\ heap \in Nat /\ TABLE_BLOCKS \in Nat /\ EndOfMem \in Nat
      /\ UNCHANGED <<machine, compares, boot_services>>
      /\ EndOfMem' = EndOfMem /\ Sound' = Sound
  <2>1. UNCHANGED <<machine, compares, boot_services>>
    BY DEF init_exceptions, Allocates, Unchanged, bootVars
  <2>2. QED BY <2>1, MachineFields, SameMachine DEF BootInv, MachineKept
<1>2. ASSUME UNCHANGED <<entry, tss_address, delivered, end_of_mem, struck, ended>>,
             Running, TablesInv', heap' \in Nat, Sound => heap' >= Needed',
             {pc, pc'} \cap ({"return", "read_address_0", "exit_qemu"} \cup BeforeExit) = {}
      PROVE  BootInv'
  <2>1. MachineKept'
    BY <1>1, <1>2 DEF BootInv, MachineKept
  <2>2. DeliveredInv'
    BY <1>2 DEF DeliveredInv, Nobody
  <2>3. CourseInv'
    BY <1>1, <1>2 DEF BootInv, CourseInv, Nobody
  <2>4. QED BY <1>2, <2>1, <2>2, <2>3 DEF BootInv
<1>3. CASE Allocates("GdtWrapper::default", TABLE_BLOCKS, GdtWrapper_default)
  <2>1. CASE heap >= TABLE_BLOCKS /\ GdtWrapper_default /\ heap' = heap - TABLE_BLOCKS
             /\ UNCHANGED <<machine, compares, boot_services, end_of_mem, struck, ended>>
    <3>1. TablesInv'
      BY <2>1 DEF GdtWrapper_default, BootInv, TablesInv
    <3>2. heap' \in Nat
      BY <1>1, <2>1
    <3>3. Sound => heap' >= Needed'
      BY <1>1, <2>1 DEF GdtWrapper_default, BootInv, CourseInv, Needed
    <3>4. QED BY <1>2, <2>1, <3>1, <3>2, <3>3 DEF GdtWrapper_default
  <2>2. CASE pc = "GdtWrapper::default" /\ heap < TABLE_BLOCKS /\ Panic /\ Unchanged
    <3>1. ~Sound
      BY <1>1, <2>2 DEF BootInv, CourseInv, Needed
    <3>2. QED BY <2>2, <3>1, EndKeeps DEF Panic
  <2>3. QED BY <1>3, <2>1, <2>2 DEF Allocates, Begins
<1>4. CASE lgdt /\ UNCHANGED bootVars
  <2>1. TablesInv'
    BY <1>4 DEF lgdt, BootInv, TablesInv
  <2>2. Sound => heap' >= Needed'
    BY <1>1, <1>4 DEF lgdt, bootVars, BootInv, CourseInv, Needed
  <2>3. QED BY <1>1, <1>2, <1>4, <2>1, <2>2 DEF lgdt, bootVars
<1>5. CASE ltr /\ UNCHANGED bootVars
  <2>1. /\ "gdt" \in tables /\ TSS64_SEL + 15 <= GDT_LIMIT
        /\ TssDescriptor(tss_address).attr \cap 0 .. 7 = {0, 3, 7}
    <3>1. "gdt" \in tables
      BY <1>5 DEF ltr, BootInv, TablesInv
    <3>2. TssDescriptor(tss_address).attr = {0, 3, 7, 15}
      BY DEF TssDescriptor
    <3>3. {0, 3, 7, 15} \cap 0 .. 7 = {0, 3, 7}
      OBVIOUS
    <3>4. QED BY <3>1, <3>2, <3>3 DEF TSS64_SEL, GDT_LIMIT
  <2>2. /\ Running /\ pc = "ltr" /\ tr' = "kernel" /\ pc' = "segments"
        /\ UNCHANGED <<entry, tss_address, tables, gdtr, idtr, segment, delivered>>
    BY <1>5, <2>1 DEF ltr
  <2>3. TablesInv'
    BY <2>2 DEF BootInv, TablesInv
  <2>4. Sound => heap' >= Needed'
    BY <1>1, <1>5, <2>2 DEF bootVars, BootInv, CourseInv, Needed
  <2>5. QED BY <1>1, <1>2, <1>5, <2>2, <2>3, <2>4 DEF bootVars
<1>6. CASE write_segments /\ UNCHANGED bootVars
  <2>1. IsLongCode(KERNEL_CS) /\ IsWritable(KERNEL_DS)
    BY <1>6, KernelSelectors DEF write_segments, BootInv, TablesInv
  <2>2. /\ Running /\ pc = "segments" /\ segment' = Selectors /\ pc' = "Idt::new"
        /\ UNCHANGED <<entry, tss_address, tables, gdtr, idtr, tr, delivered>>
    BY <1>6, <2>1 DEF write_segments
  <2>3. Selectors' = Selectors
    BY DEF Selectors
  <2>4. TablesInv'
    BY <2>2, <2>3 DEF BootInv, TablesInv
  <2>5. Sound => heap' >= Needed'
    BY <1>1, <1>6, <2>2 DEF bootVars, BootInv, CourseInv, Needed
  <2>6. QED BY <1>1, <1>2, <1>6, <2>2, <2>4, <2>5 DEF bootVars
<1>7. CASE Allocates("Idt::new", 1, Idt_new)
  <2>1. CASE heap >= 1 /\ Idt_new /\ heap' = heap - 1
             /\ UNCHANGED <<machine, compares, boot_services, end_of_mem, struck, ended>>
    <3>1. TablesInv'
      BY <2>1 DEF Idt_new, BootInv, TablesInv, Selectors
    <3>2. heap' \in Nat
      BY <1>1, <2>1
    <3>3. Sound => heap' >= Needed'
      BY <1>1, <2>1 DEF Idt_new, BootInv, CourseInv, Needed
    <3>4. QED BY <1>2, <2>1, <3>1, <3>2, <3>3 DEF Idt_new
  <2>2. CASE pc = "Idt::new" /\ heap < 1 /\ Panic /\ Unchanged
    <3>1. ~Sound
      BY <1>1, <2>2 DEF BootInv, CourseInv, Needed
    <3>2. QED BY <2>2, <3>1, EndKeeps DEF Panic
  <2>3. QED BY <1>7, <2>1, <2>2 DEF Allocates, Begins
<1>8. CASE lidt /\ UNCHANGED bootVars
  <2>1. TablesInv'
    BY <1>8 DEF lidt, BootInv, TablesInv, Selectors
  <2>2. Sound => heap' >= Needed'
    BY <1>1, <1>8 DEF lidt, bootVars, BootInv, CourseInv, Needed
  <2>3. QED BY <1>1, <1>2, <1>8, <2>1, <2>2 DEF lidt, bootVars
<1>9. QED BY <1>3, <1>4, <1>5, <1>6, <1>7, <1>8 DEF init_exceptions

(* A firmware that runs on was never left: the machine is not sound.       *)
LEMMA FirmwareKeeps ==
  ASSUME BootInv, FirmwareUsesMemory
  PROVE  BootInv'
<1>1. pc \notin BeforeExit
  BY DEF FirmwareUsesMemory, BeforeExit, BeforeHeap
<1>2. ~Sound
  BY <1>1 DEF FirmwareUsesMemory, BootInv, CourseInv
<1>3. QED BY <1>2, EndKeeps DEF FirmwareUsesMemory

(* The breakpoint and what handles it, and an exception from outside. *)
LEMMA HandlersKeep ==
  ASSUME BootInv, ended = "no",
         \/ trigger_debug_interrupt \/ inthandler
         \/ \E v \in Vectors \ {3} : Exception(v)
  PROVE  BootInv'
<1>1. CASE trigger_debug_interrupt
  <2>1. /\ Raise("exception", 3) /\ UNCHANGED bootVars /\ 3 \in Vectors
        /\ pc = "trigger_debug_interrupt" /\ pc' = "init_paging"
    BY <1>1 DEF trigger_debug_interrupt, Begins, Vectors
  <2>2. idtr = "kernel"
    BY <2>1 DEF BootInv, TablesInv, AfterLidt
  <2>3. QED BY <2>1, <2>2, RaiseKeeps DEF bootVars
<1>2. CASE Iret /\ UNCHANGED bootVars
  <2>1. idtr = "kernel"
    BY <1>2 DEF Iret, BootInv, DeliveredInv, Nobody
  <2>2. /\ gdtr = "kernel" /\ "gdt" \in tables /\ segment = Selectors
    BY <2>1 DEF BootInv, TablesInv, FromLtr, FromSegments, FromIdt, FromLidt
  <2>3. segment["cs"] = KERNEL_CS /\ segment["ss"] = KERNEL_DS
    BY <2>2 DEF Selectors, SegmentRegisters
  <2>4. /\ delivered' = Nobody
        /\ UNCHANGED <<entry, tss_address, tables, gdtr, idtr, tr, segment, pc>>
    BY <1>2, <2>2, <2>3, KernelSelectors DEF Iret
  <2>5. /\ UNCHANGED <<machine, compares, boot_services, heap, end_of_mem, struck, ended>>
    BY <1>2 DEF bootVars
  <2>6. MachineKept' /\ TablesInv'
    BY <2>4, <2>5 DEF BootInv, MachineKept, TablesInv, Selectors
  <2>7. DeliveredInv'
    BY <2>4 DEF DeliveredInv, Nobody
  <2>8. CourseInv'
    <3>1. Needed' = Needed
      BY <2>4, <2>5, SameMachine DEF Needed
    <3>2. QED BY <2>4, <2>5, <3>1, SameMachine DEF BootInv, CourseInv, Nobody
  <2>9. QED BY <2>6, <2>7, <2>8 DEF BootInv
<1>3. CASE delivered.to = "kernel" /\ delivered.vector # 3 /\ Panic /\ Unchanged
  <2>1. delivered # Nobody /\ delivered # Arrived(3)
    BY <1>3 DEF Nobody, Arrived
  <2>2. QED BY <1>3, <2>1, EndKeeps DEF Panic, BootInv, CourseInv
<1>4. CASE \E v \in Vectors \ {3} : Exception(v)
  BY <1>4, RaiseKeeps DEF Exception
<1>5. QED BY <1>1, <1>2, <1>3, <1>4 DEF inthandler

(* The switch to the kernel's page tables and what comes after it. *)
LEMMA PagingKeeps ==
  ASSUME BootInv, ended = "no",
         init_paging \/ write_cr3 \/ return \/ read_address_0 \/ exit_qemu
  PROVE  BootInv'
<1> USE DEF Begins, Go
<1>1. /\ heap \in Nat /\ EndOfMem \in Nat \ {0} /\ EndOfMem' = EndOfMem /\ Sound' = Sound
      /\ UNCHANGED <<machine, compares>>
      /\ Sound /\ pc \notin BeforeExit => boot_services' = "exited"
      /\ AfterLidt \cap BeforeExit = {}
  <2>1. UNCHANGED <<machine, compares, boot_services>>
    BY DEF init_paging, write_cr3, return, read_address_0, exit_qemu, Access, Unchanged,
           bootVars
  <2>2. QED
    BY <2>1, MachineFields, SameMachine
    DEF BootInv, MachineKept, CourseInv, AfterLidt, BeforeExit, BeforeHeap
<1>2. CASE init_paging
  <2>1. pc = "init_paging" /\ Running
    BY <1>2 DEF init_paging
  <2>2. CASE heap >= EndOfMem
    <3>1. Go("write_cr3") /\ heap' = heap - EndOfMem /\ heap' \in Nat
      BY <1>1, <1>2, <2>2 DEF init_paging
    <3>2. Needed' = 0
      BY <3>1 DEF Needed, FromLgdt, FromLtr, FromSegments, FromIdt, FromLidt, AfterLidt
    <3>3. end_of_mem' = AllMapped
      BY <1>2, <2>1 DEF init_paging, BootInv, CourseInv
    <3>4. QED BY <1>2, <2>1, <3>1, <3>2, <3>3, <1>1, GoKeeps DEF init_paging, AfterLidt
  <2>3. CASE ~(heap >= EndOfMem)
    <3>1. ~Sound
      BY <2>1, <2>3 DEF BootInv, CourseInv, Needed, FromLgdt, FromLtr, FromSegments,
                        FromIdt, FromLidt, AfterLidt
    <3>2. Panic /\ Unchanged
      BY <1>2, <2>3 DEF init_paging, Unchanged
    <3>3. QED BY <3>1, <3>2, EndKeeps DEF Panic
  <2>4. QED BY <2>2, <2>3
<1>3. CASE write_cr3
  <2>1. pc = "write_cr3" /\ Running /\ Go("return") /\ end_of_mem' = EndOfMem
    BY <1>3 DEF write_cr3
  <2>2. Needed' = 0
    BY <2>1 DEF Needed, FromLgdt, FromLtr, FromSegments, FromIdt, FromLidt, AfterLidt
  <2>3. QED BY <1>1, <1>3, <2>1, <2>2, GoKeeps DEF write_cr3, AfterLidt
<1>4. ASSUME NEW page, NEW next \in {"read_address_0", "exit_qemu"}, Running,
             pc \in {"return", "read_address_0"}, Access(page, next),
             Sound => page < EndOfMem
      PROVE  BootInv'
  <2>1. end_of_mem = EndOfMem
    BY <1>4 DEF BootInv, CourseInv
  <2>2. CASE Go(next) /\ Unchanged
    <3>1. Needed' = 0
      BY <1>4, <2>2 DEF Needed, FromLgdt, FromLtr, FromSegments, FromIdt, FromLidt, AfterLidt
    <3>2. QED BY <1>1, <1>4, <2>1, <2>2, <3>1, GoKeeps DEF Unchanged, AfterLidt
  <2>3. CASE ~Mapped(page) /\ Raise("exception", 14) /\ UNCHANGED <<pc, bootVars>>
    <3>1. ~Sound
      BY <1>4, <2>1, <2>3 DEF Mapped
    <3>2. 14 \in Vectors
      BY DEF Vectors
    <3>3. QED BY <2>3, <3>1, <3>2, RaiseKeeps DEF bootVars
  <2>4. QED BY <1>4, <2>2, <2>3 DEF Access
<1>5. CASE return
  BY <1>4, <1>5 DEF return, Sound
<1>6. CASE read_address_0
  BY <1>1, <1>4, <1>6 DEF read_address_0
<1>7. CASE exit_qemu
  BY <1>7, EndKeeps DEF exit_qemu
<1>8. QED BY <1>2, <1>3, <1>5, <1>6, <1>7

(* No step at all. *)
LEMMA BootStutterKeeps ==
  ASSUME BootInv, UNCHANGED vars
  PROVE  BootInv'
<1> USE DEF vars, segmentVars, bootVars
<1>1. MachineKept' /\ TablesInv'
  BY DEF BootInv, MachineKept, TablesInv, Selectors
<1>2. DeliveredInv'
  BY DEF BootInv, DeliveredInv, Arrived
<1>3. CourseInv'
  <2>1. Needed' = Needed
    BY SameMachine DEF Needed
  <2>2. QED BY <2>1, SameMachine DEF BootInv, CourseInv, Arrived
<1>4. QED BY <1>1, <1>2, <1>3 DEF BootInv

(* BootInv holds throughout: at each step the tables and the registers are *)
(* as efi_main has left them, the heap has what is still to be taken from  *)
(* it, and every exception has come to where it belongs.                   *)
THEOREM BootInvHolds == Spec => []BootInv
<1>1. BootInv /\ [Next]_vars => BootInv'
  <2> SUFFICES ASSUME BootInv, [Next]_vars PROVE BootInv'
    OBVIOUS
  <2>1. CASE UNCHANGED vars
    BY <2>1, BootStutterKeeps
  <2>2. CASE efi_main
    BY <2>2, BeforeHeapKeeps, ExceptionsKeep, HandlersKeep, PagingKeeps DEF efi_main
  <2>3. CASE \E v \in Vectors \ {3} : Exception(v)
    BY <2>3, HandlersKeep DEF Exception
  <2>4. CASE FirmwareUsesMemory
    BY <2>4, FirmwareKeeps
  <2>5. QED BY <2>1, <2>2, <2>3, <2>4 DEF Next
<1>2. QED BY <1>1, BootInitHolds, PTL DEF Spec

(* ResetOnlyInWindow, for every code segment of the firmware: only between *)
(* lgdt and lidt can an exception reset the machine.                       *)
THEOREM ResetOnlyInWindowHolds == Spec => []ResetOnlyInWindow
<1>1. BootInv => ResetOnlyInWindow
  BY DEF BootInv, DeliveredInv, TablesInv, ResetOnlyInWindow, Nobody, Arrived
<1>2. QED BY <1>1, BootInvHolds, PTL

(* HandledByItsOwn, wherever the handlers and the TSS lie and whatever the *)
(* width of a field: each vector reaches its own handler on its own stack. *)
THEOREM HandledByItsOwnHolds == Spec => []HandledByItsOwn
<1>1. BootInv => HandledByItsOwn
  BY DEF BootInv, DeliveredInv, HandledByItsOwn, Nobody, Arrived
<1>2. QED BY <1>1, BootInvHolds, PTL

(* NoOtherReason, for every machine: a boot fails for want of what it is   *)
(* named there, or because of an exception from outside.                   *)
THEOREM NoOtherReasonHolds == Spec => []NoOtherReason
<1>1. BootInv => NoOtherReason
  BY DEF BootInv, CourseInv, NoOtherReason, Nobody, Arrived
<1>2. QED BY <1>1, BootInvHolds, PTL

=============================================================================
