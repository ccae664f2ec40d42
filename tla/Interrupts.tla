------------------------------ MODULE Interrupts ------------------------------
(***************************************************************************)
(* Exceptions and interrupts (src/wasabi/src/x86.rs): the processor pushes *)
(* a frame on the interrupt stack that the IDT names, the entry point of   *)
(* the vector and inthandler_common push the rest of an InterrupInfo,      *)
(* inthandler looks at it, and either everything is popped again or the    *)
(* kernel panics and leaves QEMU.                                          *)
(*                                                                         *)
(* Addresses and sizes count words of 8 bytes; a register holds one value, *)
(* and the FPU state is one value that fills the 64 words of FPUContext.   *)
(*                                                                         *)
(* The processor is external: deliver and iretq are what the x86 does.     *)
(* The handlers run with interrupts masked, but they may fault themselves  *)
(* (13 reads the bytes at the saved rip, and all of them print).           *)
(***************************************************************************)
EXTENDS Integers, Sequences, FiniteSets, SequencesExt

CONSTANTS
  Programs,      \* register files of the code that is interrupted
  ErrorCodes,    \* error codes the processor may push
  MaxNesting     \* at most so many exceptions are in progress at once

(* GeneralRegisterContext, in the order of its fields. *)
GREGS == <<"rax", "rdx", "rbx", "rbp", "rsi", "rdi", "r8", "r9", "r10", "r11",
           "r12", "r13", "r14", "r15", "rcx">>

(* InterrupContext, in the order of its fields. *)
CONTEXT == <<"rip", "cs", "rflags", "rsp", "ss">>

Registers == Range(GREGS) \cup Range(CONTEXT) \cup {"fpu"}

ASSUME InterruptsAssumption ==
  /\ Programs \subseteq [Registers -> Int]
  /\ ErrorCodes \subseteq 0 .. 31
  /\ MaxNesting \in Nat

FPU_WORDS == 64

(* The vectors with an entry point of their own, and one without. *)
NO_HANDLER == 0
Vectors    == {3, 6, 8, 13, 14, 32, NO_HANDLER}

(* The vectors for which the processor pushes an error code.               *)
PushesErrorCode(v) == v \in {8, 13, 14}

(* Mutant: the gates name no interrupt stack.                              *)
ist_index_unset(v) == 0

(* All gates share one interrupt stack, but for the double fault's.        *)
ist_index(v) == IF v = 8 THEN 2 ELSE 1

(* Box<[u8; 64 KiB]> ends on a 16-byte boundary: the heap aligns to 32.    *)
StackTop(ist) == 1000 * ist

VARIABLES
  cpu,           \* the registers
  mem,           \* the words written on the interrupt stacks, by address
  pc,            \* where execution is
  vector,        \* the vector whose entry point runs
  interrupted    \* history: what was interrupted, innermost last

vars == <<cpu, mem, pc, vector, interrupted>>

-----------------------------------------------------------------------------
(* The memory after words are stored one after another below address sp.   *)
Pushed(m, sp, words) ==
  [a \in DOMAIN m \cup (sp - Len(words) .. sp - 1) |->
     IF a \in sp - Len(words) .. sp - 1 THEN words[sp - a] ELSE m[a]]

Values(names) == [k \in DOMAIN names |-> cpu[names[k]]]

Init ==
  /\ cpu \in Programs
  /\ mem = << >>
  /\ pc = "program"
  /\ vector = NO_HANDLER
  /\ interrupted = << >>

(* What runs outside the handlers goes on, and its registers change.       *)
Run ==
  /\ pc = "program"
  /\ cpu' \in Programs
  /\ UNCHANGED <<mem, pc, vector, interrupted>>

(***************************************************************************)
(* The processor delivers v: it switches to the stack of the gate, from    *)
(* its top even if that stack is in use, pushes what iretq will pop, and   *)
(* the error code if v has one.  Only the program executes int3.           *)
(***************************************************************************)
Deliver(v, error_code) ==
  /\ pc \in {"program", "handler", "panic"}
  /\ Len(interrupted) < MaxNesting
  /\ v = 3 => pc = "program"
  /\ LET words == Reverse(Values(CONTEXT))
                  \o (IF PushesErrorCode(v) THEN <<error_code>> ELSE << >>)
         top   == StackTop(ist_index(v))
     IN  /\ mem' = Pushed(mem, top, words)
         /\ cpu' = [cpu EXCEPT !["rsp"] = top - Len(words),
                               !["rip"] = v, !["cs"] = 0, !["rflags"] = 0]
  /\ interrupted' = Append(interrupted,
                           [vector |-> v, error_code |-> error_code, cpu |-> cpu])
  /\ vector' = v
  /\ pc' = "entry"

Faults ==
  \E v \in Vectors :
    \E error_code \in IF PushesErrorCode(v) THEN ErrorCodes ELSE {0} :
      Deliver(v, error_code)

(* Mutant: rcx is saved above the place of the error code.                 *)
interrupt_entrypoint_swapped ==
  /\ pc = "entry" /\ vector \in {3, 6, 32}
  /\ mem' = Pushed(mem, cpu["rsp"], <<cpu["rcx"], 0>>)
  /\ cpu' = [cpu EXCEPT !["rsp"] = @ - 2, !["rcx"] = vector]
  /\ pc' = "common"
  /\ UNCHANGED <<vector, interrupted>>

(* interrupt_entrypoint: a 0 where there is no error code, and rcx.        *)
interrupt_entrypoint ==
  /\ pc = "entry" /\ vector \in {3, 6, 32}
  /\ mem' = Pushed(mem, cpu["rsp"], <<0, cpu["rcx"]>>)
  /\ cpu' = [cpu EXCEPT !["rsp"] = @ - 2, !["rcx"] = vector]
  /\ pc' = "common"
  /\ UNCHANGED <<vector, interrupted>>

(* interrupt_entrypoint_with_ecode: push rcx; mov rcx, index; push rcx;    *)
(* push rcx; mov rcx, index.                                               *)
interrupt_entrypoint_with_ecode ==
  /\ pc = "entry" /\ vector \in {8, 13, 14}
  /\ mem' = Pushed(mem, cpu["rsp"], <<cpu["rcx"], vector, vector>>)
  /\ cpu' = [cpu EXCEPT !["rsp"] = @ - 3, !["rcx"] = vector]
  /\ pc' = "common"
  /\ UNCHANGED <<vector, interrupted>>

(* Every other gate leads to a function that panics.                       *)
int_handler_unimplemented ==
  /\ pc = "entry" /\ vector = NO_HANDLER
  /\ pc' = "panic"
  /\ UNCHANGED <<cpu, mem, vector, interrupted>>

-----------------------------------------------------------------------------
PUSHED == <<"r15", "r14", "r13", "r12", "r11", "r10", "r9", "r8", "rdi", "rsi",
            "rbp", "rbx", "rdx", "rax">>

(* Mutant: two registers are popped in the order they were pushed.         *)
POPPED_swapped == <<"rax", "rdx", "rbx", "rbp", "rdi", "rsi", "r8", "r9", "r10",
                    "r11", "r12", "r13", "r14", "r15">>

POPPED == <<"rax", "rdx", "rbx", "rbp", "rsi", "rdi", "r8", "r9", "r10", "r11",
            "r12", "r13", "r14", "r15">>

(* Mutant: no word is left between the FPU state and the registers.        *)
FpuArea_packed == FPU_WORDS

(* 512 + 8 bytes. *)
FpuArea == FPU_WORDS + 1

(***************************************************************************)
(* inthandler_common up to the call: the registers are pushed, the FPU     *)
(* state is stored below them, rdi points to all of it, and rbp keeps the  *)
(* stack pointer while rsp is aligned for the call.                        *)
(***************************************************************************)
inthandler_common ==
  /\ pc = "common"
  /\ LET regs_at == cpu["rsp"] - Len(PUSHED)
         info_at == regs_at - FpuArea
     IN  /\ mem' = Pushed(Pushed(mem, cpu["rsp"], Values(PUSHED)),
                          info_at + FPU_WORDS, [w \in 1 .. FPU_WORDS |-> cpu["fpu"]])
         /\ cpu' = [cpu EXCEPT !["rdi"] = info_at, !["rsi"] = cpu["rcx"],
                               !["rbp"] = info_at,
                               !["rsp"] = info_at - (info_at % 2)]
  /\ pc' = "handler"
  /\ UNCHANGED <<vector, interrupted>>

(* The arms of the match in inthandler that return.                        *)
(* Mutant: an invalid opcode is reported and passed over.                  *)
Returns_opcode(index) == index \in {3, 6}

Returns(index) == index = 3

CALLEE_SAVED == {"rbx", "rbp", "r12", "r13", "r14", "r15", "rsp"}

(* A breakpoint is reported and inthandler returns; what a sysv64 function *)
(* need not preserve holds anything, here a value no program has.          *)
HandlerReturns ==
  /\ pc = "handler" /\ Returns(cpu["rsi"])
  /\ cpu' = [r \in Registers |->
               IF r \in CALLEE_SAVED \cup Range(CONTEXT) THEN cpu[r] ELSE -1]
  /\ pc' = "restore"
  /\ UNCHANGED <<mem, vector, interrupted>>

HandlerPanics ==
  /\ pc = "handler" /\ ~Returns(cpu["rsi"])
  /\ pc' = "panic"
  /\ UNCHANGED <<cpu, mem, vector, interrupted>>

(***************************************************************************)
(* inthandler_common after the call: rsp comes back from rbp, the FPU      *)
(* state and the registers are loaded again, rcx and the error code are    *)
(* popped, and iretq pops what the processor had pushed.                   *)
(***************************************************************************)
Restore ==
  /\ pc = "restore"
  /\ LET fpu_at  == cpu["rbp"]
         regs_at == fpu_at + FpuArea
         rcx_at  == regs_at + Len(POPPED)
         iret_at == rcx_at + 2
     IN  cpu' = [r \in Registers |->
                   CASE r = "fpu" -> mem[fpu_at]
                     [] r = "rcx" -> mem[rcx_at]
                     [] r \in Range(POPPED) ->
                          mem[regs_at + (CHOOSE k \in DOMAIN POPPED : POPPED[k] = r) - 1]
                     [] OTHER ->
                          mem[iret_at + (CHOOSE k \in DOMAIN CONTEXT : CONTEXT[k] = r) - 1]]
  /\ interrupted' = Front(interrupted)
  /\ pc' = IF Len(interrupted) = 1 THEN "program" ELSE "handler"
  /\ UNCHANGED <<mem, vector>>

(* panic prints and calls exit_qemu, which never returns.                  *)
ExitQemu ==
  /\ pc = "panic"
  /\ pc' = "exited"
  /\ UNCHANGED <<cpu, mem, vector, interrupted>>

Handle ==
  \/ interrupt_entrypoint \/ interrupt_entrypoint_with_ecode
  \/ int_handler_unimplemented \/ inthandler_common
  \/ HandlerReturns \/ HandlerPanics \/ Restore \/ ExitQemu

Next == Run \/ Faults \/ Handle

Spec == Init /\ [][Next]_vars

-----------------------------------------------------------------------------
(* An InterrupInfo at address info: FPUContext and a dummy word, the       *)
(* general registers, the error code, the interrupt context.               *)
InfoGreg(info, k)    == mem[info + 65 + k - 1]
InfoErrorCode(info)  == mem[info + 65 + 15]
InfoContext(info, k) == mem[info + 65 + 15 + k]

ShowsSavedState(info, saved) ==
  /\ \A w \in 0 .. FPU_WORDS - 1 : mem[info + w] = saved.cpu["fpu"]
  /\ \A k \in DOMAIN GREGS : InfoGreg(info, k) = saved.cpu[GREGS[k]]
  /\ InfoErrorCode(info) = saved.error_code
  /\ \A k \in DOMAIN CONTEXT : InfoContext(info, k) = saved.cpu[CONTEXT[k]]

(***************************************************************************)
(* TypeOK: whatever is pushed stays within 100 words of the top of an      *)
(* interrupt stack, and no more than MaxNesting exceptions are under way.  *)
(***************************************************************************)
TypeOK ==
  /\ cpu \in [Registers -> Int]
  /\ DOMAIN mem \subseteq UNION {StackTop(i) - 100 .. StackTop(i) - 1 : i \in 1 .. 7}
  /\ \A a \in DOMAIN mem : mem[a] \in Int
  /\ pc \in {"program", "entry", "common", "handler", "restore", "panic", "exited"}
  /\ vector \in Vectors
  /\ Len(interrupted) <= MaxNesting

(***************************************************************************)
(* InfoOfTrap: for a vector without an error code, the InterrupInfo given  *)
(* to inthandler shows every register of the interrupted code as it was,   *)
(* whatever an earlier exception left on the same stack.                   *)
(***************************************************************************)
InfoOfTrap ==
  pc = "handler" /\ ~PushesErrorCode(Last(interrupted).vector) =>
    ShowsSavedState(cpu["rdi"], Last(interrupted))

(***************************************************************************)
(* InfoOfFault: the same for a vector with an error code: rdi holds the    *)
(* "pointer to the saved CPU state" (inthandler_common), from which the    *)
(* page fault report takes error_code and the protection fault takes rip.  *)
(***************************************************************************)
InfoOfFault ==
  pc = "handler" /\ PushesErrorCode(Last(interrupted).vector) =>
    ShowsSavedState(cpu["rdi"], Last(interrupted))

(***************************************************************************)
(* Aligned: fxsave64 and the call find their address on a 16-byte          *)
(* boundary for every vector, with or without an error code; otherwise     *)
(* fxsave64 itself would fault.                                            *)
(***************************************************************************)
Aligned == pc = "handler" => cpu["rdi"] % 2 = 0 /\ cpu["rsp"] % 2 = 0

(***************************************************************************)
(* OverwrittenFramesDie: an exception that strikes in a handler starts     *)
(* again from the top of the same stack and overwrites the frame there, so *)
(* no handler returns while another one below it uses its stack.           *)
(***************************************************************************)
OverwrittenFramesDie ==
  pc = "restore" =>
    \A i \in 1 .. Len(interrupted) - 1 :
      ist_index(interrupted[i].vector) # ist_index(Last(interrupted).vector)

(***************************************************************************)
(* Resumed: when iretq returns, every register and the FPU state are what  *)
(* they were when the exception struck.                                    *)
(***************************************************************************)
Resumed == [][pc = "restore" => cpu' = Last(interrupted).cpu]_vars

=============================================================================
