-------------------------------- MODULE Segments --------------------------------
(***************************************************************************)
(* The descriptor tables (init_exceptions, GdtWrapper, TaskStateSegment64, *)
(* Idt and the segment writes of src/wasabi/src/x86.rs): what the kernel   *)
(* builds on the heap, the order in which it tells the processor, and what *)
(* the processor makes of it when an exception strikes in between.         *)
(*                                                                         *)
(* A GDT entry is the set of its bits that are one.  Addresses are split   *)
(* over the fields of a descriptor as in the code, in digits of any base:  *)
(* HALF_RADIX is 2^8.  The processor and the firmware are external; the    *)
(* firmware's gates name a code segment of the firmware's own GDT.         *)
(***************************************************************************)
EXTENDS Integers, Sequences, FiniteSets

CONSTANTS
  HALF_RADIX,       \* 2^8 in the code
  FIRMWARE_CS       \* the selector in the firmware's gates and in cs

RADIX == HALF_RADIX * HALF_RADIX
Address == 0 .. RADIX * RADIX * RADIX * RADIX - 1

NO_HANDLER == 0
Vectors == {NO_HANDLER, 3, 6, 8, 13, 14, 32}

ASSUME SegmentsAssumption ==
  /\ HALF_RADIX \in Nat \ {0, 1}
  /\ FIRMWARE_CS \in {8 * i : i \in 1 .. 8191}

VARIABLES
  pc,               \* the next step of the kernel
  entry,            \* where the entry points of the vectors are
  tss_address,      \* where the heap puts the TSS
  tables,           \* the tables that are on the heap: "tss", "gdt", "idt"
  gdtr, idtr, tr,   \* whose table the register names: "firmware" or "kernel"
  segment,          \* the selectors in cs, ss and the others
  delivered         \* what the last exception has come to: [to, ...]

segmentVars == <<entry, tss_address, tables, gdtr, idtr, tr, segment, delivered>>

SegmentRegisters == {"cs", "ss", "es", "ds", "fs", "gs"}

KERNEL_CS == 8
KERNEL_DS == 16
TSS64_SEL == 24

-----------------------------------------------------------------------------
(* The bits of a GDT entry. *)
BIT_TYPE_DATA    == {44}
BIT_TYPE_CODE    == {43, 44}
BIT_PRESENT      == {47}
BIT_CS_READABLE  == {53}
BIT_DS_WRITABLE  == {41}

KernelCode == BIT_TYPE_CODE \cup BIT_PRESENT \cup BIT_CS_READABLE
KernelData == BIT_TYPE_DATA \cup BIT_PRESENT \cup BIT_DS_WRITABLE

(* Mutant: one shift of base_mid_high is that of base_mid_low.             *)
TssDescriptor_mid(base) ==
  [base_low      |-> base % RADIX,
   base_mid_low  |-> (base \div RADIX) % HALF_RADIX,
   attr          |-> {0, 3, 7, 15},
   base_mid_high |-> (base \div RADIX) % HALF_RADIX,
   base_high     |-> (base \div (RADIX * RADIX)) % (RADIX * RADIX)]

(* TaskStateSegment64Descriptor::new *)
TssDescriptor(base) ==
  [base_low      |-> base % RADIX,
   base_mid_low  |-> (base \div RADIX) % HALF_RADIX,
   attr          |-> {0, 3, 7, 15},
   base_mid_high |-> (base \div (RADIX * HALF_RADIX)) % HALF_RADIX,
   base_high     |-> (base \div (RADIX * RADIX)) % (RADIX * RADIX)]

(* size_of::<Gdt>() - 1 *)
GDT_LIMIT == 5 * 8 - 1

(* The kernel's GDT, but for its last entry, TssDescriptor. *)
Gdt == [s \in {KERNEL_CS, KERNEL_DS} |-> IF s = KERNEL_CS THEN KernelCode ELSE KernelData]

(* IdtDescriptor::new; the attributes are those of an interrupt gate. *)
IdtDescriptor(ist_index, handler) ==
  [offset_low       |-> handler % RADIX,
   offset_mid       |-> (handler \div RADIX) % RADIX,
   offset_high      |-> (handler \div (RADIX * RADIX)) % (RADIX * RADIX),
   segment_selector |-> KERNEL_CS,
   ist_index        |-> ist_index]

(* Idt::new *)
Idt == [v \in Vectors |-> IdtDescriptor(IF v = 8 THEN 2 ELSE 1, entry[v])]

NO_STACK    == 0
INTERRUPTED == -1

(* TaskStateSegment64::new: entry 0 is reserved, each other has a stack of *)
(* its own, which is never given back: stack k.                            *)
Ist == [k \in 0 .. 7 |-> IF k = 0 THEN NO_STACK ELSE k]

-----------------------------------------------------------------------------
(* The processor. *)

Offset(gate) ==
  gate.offset_low + RADIX * gate.offset_mid + RADIX * RADIX * gate.offset_high

BaseOf(descriptor) ==
  descriptor.base_low + RADIX * descriptor.base_mid_low
    + RADIX * HALF_RADIX * descriptor.base_mid_high
    + RADIX * RADIX * descriptor.base_high

(* The descriptor that a selector names: no bits where there is none. *)
Descriptor(selector) ==
  IF gdtr = "firmware" THEN IF selector = FIRMWARE_CS THEN KernelCode ELSE KernelData
  ELSE IF "gdt" \in tables /\ selector \in DOMAIN Gdt /\ selector + 7 <= GDT_LIMIT
       THEN Gdt[selector] ELSE {}

IsLongCode(selector) == {43, 44, 47, 53} \subseteq Descriptor(selector)

IsWritable(selector) ==
  {41, 44, 47} \subseteq Descriptor(selector) /\ 43 \notin Descriptor(selector)

(* The stack that an index names in the TSS: only if the descriptor leads  *)
(* to where the TSS is.                                                    *)
Stack(ist_index) ==
  IF ist_index = 0 THEN INTERRUPTED
  ELSE IF tr = "kernel" /\ "tss" \in tables /\ BaseOf(TssDescriptor(tss_address)) = tss_address
       THEN Ist[ist_index] ELSE NO_STACK

Deliverable(v) ==
  IF idtr = "firmware" THEN IsLongCode(FIRMWARE_CS)
  ELSE /\ "idt" \in tables
       /\ IsLongCode(Idt[v].segment_selector)
       /\ Stack(Idt[v].ist_index) # NO_STACK

(* What an exception comes to: its gate, or that of a fault on the way     *)
(* there, or that of a double fault; or a reset.                           *)
Chain(v) == IF v \in {8, 13, 14} THEN {v, 8} ELSE {v, 13, 8}

Delivery(cause, v) ==
  LET open == {u \in Chain(v) : Deliverable(u)}
      u == IF v \in open THEN v ELSE IF 13 \in open THEN 13 ELSE 8
  IN  IF open = {} THEN [to |-> "reset", cause |-> cause]
      ELSE IF idtr = "firmware" THEN [to |-> "firmware", cause |-> cause]
      ELSE [to |-> "kernel", cause |-> cause, vector |-> u,
            offset |-> Offset(Idt[u]), stack |-> Stack(Idt[u].ist_index)]

Raise(cause, v) ==
  /\ delivered' = Delivery(cause, v)
  /\ UNCHANGED <<entry, tss_address, tables, gdtr, idtr, tr, segment>>

Nobody == [to |-> "nobody", cause |-> "none"]
Running == delivered = Nobody

(* The handler of a breakpoint returns: iretq loads cs and ss again. *)
Iret ==
  /\ delivered.to = "kernel" /\ delivered.vector = 3
  /\ IF IsLongCode(segment["cs"]) /\ IsWritable(segment["ss"])
     THEN /\ delivered' = Nobody
          /\ UNCHANGED <<entry, tss_address, tables, gdtr, idtr, tr, segment>>
     ELSE Raise("iretq", 13)
  /\ UNCHANGED pc

-----------------------------------------------------------------------------
SegmentsInit ==
  /\ tables = {}
  /\ gdtr = "firmware" /\ idtr = "firmware" /\ tr = "firmware"
  /\ segment = [r \in SegmentRegisters |->
                  IF r = "cs" THEN FIRMWARE_CS ELSE FIRMWARE_CS - 8]
  /\ delivered = Nobody

At(step, next) == Running /\ pc = step /\ pc' = next

(* The TSS, its stacks and the GDT. *)
GdtWrapper_default ==
  /\ At("GdtWrapper::default", "lgdt")
  /\ tables' = tables \cup {"tss", "gdt"}
  /\ UNCHANGED <<entry, tss_address, gdtr, idtr, tr, segment, delivered>>

(* GdtWrapper::load, first half. *)
lgdt ==
  /\ At("lgdt", "ltr")
  /\ gdtr' = "kernel"
  /\ UNCHANGED <<entry, tss_address, tables, idtr, tr, segment, delivered>>

(* Second half: the selector must name an available TSS of two slots. *)
ltr ==
  /\ Running /\ pc = "ltr"
  /\ IF /\ "gdt" \in tables /\ TSS64_SEL + 15 <= GDT_LIMIT
        /\ TssDescriptor(tss_address).attr \cap 0 .. 7 = {0, 3, 7}
     THEN /\ tr' = "kernel" /\ pc' = "segments"
          /\ UNCHANGED <<entry, tss_address, tables, gdtr, idtr, segment, delivered>>
     ELSE Raise("load", 13) /\ UNCHANGED pc

(* Mutant: write_cs is forgotten.                                          *)
Selectors_no_cs ==
  [r \in SegmentRegisters |-> IF r = "cs" THEN segment["cs"] ELSE KERNEL_DS]

(* write_cs to write_gs *)
Selectors == [r \in SegmentRegisters |-> IF r = "cs" THEN KERNEL_CS ELSE KERNEL_DS]

write_segments ==
  /\ Running /\ pc = "segments"
  /\ IF IsLongCode(KERNEL_CS) /\ IsWritable(KERNEL_DS)
     THEN /\ segment' = Selectors /\ pc' = "Idt::new"
          /\ UNCHANGED <<entry, tss_address, tables, gdtr, idtr, tr, delivered>>
     ELSE Raise("load", 13) /\ UNCHANGED pc

Idt_new ==
  /\ At("Idt::new", "lidt")
  /\ tables' = tables \cup {"idt"}
  /\ UNCHANGED <<entry, tss_address, gdtr, idtr, tr, segment, delivered>>

(* From here on the tables stay: efi_main binds both wrappers to names     *)
(* that live until QEMU ends.                                              *)
lidt ==
  /\ At("lidt", "trigger_debug_interrupt")
  /\ idtr' = "kernel"
  /\ UNCHANGED <<entry, tss_address, tables, gdtr, tr, segment, delivered>>

-----------------------------------------------------------------------------
(***************************************************************************)
(* ResetOnlyInWindow: an exception resets the machine only while the GDT   *)
(* is already the kernel's and the IDT still the firmware's - while the    *)
(* kernel prints, writes the segment registers and allocates the IDT.      *)
(* Before that the firmware handles it, and afterwards the kernel does.    *)
(* (A firmware whose code selector happens to be the kernel's handles it   *)
(* within the window too.)                                                 *)
(***************************************************************************)
ResetOnlyInWindow ==
  /\ delivered.to = "reset" => gdtr = "kernel" /\ idtr = "firmware"
  /\ delivered.to = "firmware" => gdtr = "firmware" \/ FIRMWARE_CS = KERNEL_CS

(***************************************************************************)
(* HandledByItsOwn: wherever the code and the TSS lie in memory, what the  *)
(* kernel handles arrives at the entry point of its own vector, on a stack *)
(* of the TSS, and a double fault on another one than what it interrupts;  *)
(* and neither the loading of the registers nor the return from a          *)
(* breakpoint ever faults itself.                                          *)
(***************************************************************************)
HandledByItsOwn ==
  delivered.to = "kernel" =>
    /\ delivered.offset = entry[delivered.vector]
    /\ delivered.stack = Ist[IF delivered.vector = 8 THEN 2 ELSE 1]
    /\ delivered.cause = "exception"

=============================================================================
