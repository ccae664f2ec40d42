--------------------------- MODULE Interrupts_proofs ---------------------------
(***************************************************************************)
(* Interrupts, for every program, error code and depth of nesting: what    *)
(* inthandler is shown of a trap is what was interrupted, and what returns *)
(* restores it.                                                            *)
(*                                                                         *)
(* The inductive invariant is HandlingInv.  It follows one exception from  *)
(* the frame that the processor pushes (AtEntry) through the words of the  *)
(* entry point (AtCommon) to the InterrupInfo (AtHandler) and back         *)
(* (AtRestore).  Of the exceptions below it nothing is kept: only a        *)
(* breakpoint returns, and no handler executes one, so that none of them   *)
(* ever goes on.                                                           *)
(***************************************************************************)
EXTENDS Interrupts, SequenceTheorems, TLAPS

-----------------------------------------------------------------------------
(* The invariant.                                                          *)

SavedStates == [vector : Vectors, error_code : Int, cpu : [Registers -> Int]]

Stacks == UNION {StackTop(i) - 100 .. StackTop(i) - 1 : i \in 1 .. 7}

(* The exception that is being handled, and the top of its stack. *)
Struck == Last(interrupted)

Top == StackTop(ist_index(vector))

ContextSaved ==
  \A k \in DOMAIN CONTEXT :
    Top - 6 + k \in DOMAIN mem /\ mem[Top - 6 + k] = Struck.cpu[CONTEXT[k]]

AtEntry ==
  pc = "entry" =>
    /\ cpu["rsp"] = Top - (IF PushesErrorCode(vector) THEN 6 ELSE 5)
    /\ ContextSaved
    /\ ~PushesErrorCode(vector) => Struck.error_code = 0
    /\ \A r \in Registers \ Range(CONTEXT) : cpu[r] = Struck.cpu[r]

AtCommon ==
  pc = "common" =>
    /\ vector # NO_HANDLER /\ cpu["rcx"] = vector
    /\ cpu["rsp"] = Top - (IF PushesErrorCode(vector) THEN 9 ELSE 7)
    /\ ~PushesErrorCode(vector) =>
         /\ ContextSaved
         /\ {Top - 7, Top - 6} \subseteq DOMAIN mem
         /\ mem[Top - 6] = Struck.error_code /\ mem[Top - 7] = Struck.cpu["rcx"]
         /\ \A r \in Registers \ (Range(CONTEXT) \cup {"rcx"}) : cpu[r] = Struck.cpu[r]

AtHandler ==
  pc = "handler" =>
    /\ cpu["rsi"] = vector
    /\ cpu["rdi"] = Top - (IF PushesErrorCode(vector) THEN 88 ELSE 86)
    /\ cpu["rbp"] = cpu["rdi"] /\ cpu["rsp"] = cpu["rdi"]
    /\ ~PushesErrorCode(vector) => ShowsSavedState(cpu["rdi"], Struck)

AtRestore ==
  pc = "restore" =>
    /\ Len(interrupted) = 1
    /\ ShowsSavedState(cpu["rbp"], Struck)

(* Only the outermost exception may be a breakpoint. *)
Nesting ==
  /\ interrupted \in Seq(SavedStates)
  /\ pc = "program" => interrupted = << >>
  /\ pc \in {"entry", "common", "handler", "restore"} =>
       interrupted # << >> /\ Struck.vector = vector
  /\ \A i \in DOMAIN interrupted : interrupted[i].vector = 3 => i = 1

HandlingInv ==
  /\ TypeOK
  /\ Nesting
  /\ AtEntry
  /\ AtCommon
  /\ AtHandler
  /\ AtRestore

-----------------------------------------------------------------------------
(* The lists of registers.                                                 *)

(* What the lists hold, and that inthandler_common pushes the registers in *)
(* the reverse of the order in which GeneralRegisterContext has them.      *)
LEMMA Lists ==
  /\ DOMAIN GREGS = 1 .. 15 /\ DOMAIN CONTEXT = 1 .. 5
  /\ DOMAIN PUSHED = 1 .. 14 /\ DOMAIN POPPED = 1 .. 14
  /\ Len(CONTEXT) = 5 /\ Len(PUSHED) = 14 /\ Len(POPPED) = 14
  /\ GREGS[15] = "rcx"
  /\ \A k \in 1 .. 14 : POPPED[k] = GREGS[k] /\ PUSHED[15 - k] = GREGS[k]
<1>1. \A k \in 1 .. 14 : k \in {1, 2, 3, 4, 5, 6, 7, 8, 9, 10, 11, 12, 13, 14}
  BY SMT
<1>2. \A k \in 1 .. 14 : POPPED[k] = GREGS[k] /\ PUSHED[15 - k] = GREGS[k]
  BY <1>1 DEF POPPED, PUSHED, GREGS
<1>3. QED BY <1>2 DEF POPPED, PUSHED, GREGS, CONTEXT

(* The registers by name. *)
LEMMA RegisterNames ==
  /\ Registers = {"rax", "rdx", "rbx", "rbp", "rsi", "rdi", "r8", "r9", "r10",
                  "r11", "r12", "r13", "r14", "r15", "rcx", "rip", "cs", "rflags",
                  "rsp", "ss", "fpu"}
  /\ Range(CONTEXT) = {"rip", "cs", "rflags", "rsp", "ss"}
  /\ Range(POPPED) = {"rax", "rdx", "rbx", "rbp", "rsi", "rdi", "r8", "r9", "r10",
                      "r11", "r12", "r13", "r14", "r15"}
<1>1. Range(GREGS) = {"rax", "rdx", "rbx", "rbp", "rsi", "rdi", "r8", "r9", "r10",
                      "r11", "r12", "r13", "r14", "r15", "rcx"}
  <2>1. \A k \in 1 .. 15 : k \in {1, 2, 3, 4, 5, 6, 7, 8, 9, 10, 11, 12, 13, 14, 15}
    BY SMT
  <2>2. QED BY <2>1 DEF Range, GREGS
<1>2. Range(CONTEXT) = {"rip", "cs", "rflags", "rsp", "ss"}
  <2>1. \A k \in 1 .. 5 : k \in {1, 2, 3, 4, 5}
    BY SMT
  <2>2. QED BY <2>1 DEF Range, CONTEXT
<1>3. Range(POPPED) = {"rax", "rdx", "rbx", "rbp", "rsi", "rdi", "r8", "r9", "r10",
                       "r11", "r12", "r13", "r14", "r15"}
  <2>1. \A k \in 1 .. 14 : k \in {1, 2, 3, 4, 5, 6, 7, 8, 9, 10, 11, 12, 13, 14}
    BY SMT
  <2>2. QED BY <2>1 DEF Range, POPPED
<1>4. QED BY <1>1, <1>2, <1>3 DEF Registers

(* Whatever has a place in a list is in its range, and the other way round. *)
LEMMA Places ==
  /\ \A k \in DOMAIN GREGS : GREGS[k] \in Registers
  /\ \A k \in DOMAIN CONTEXT : CONTEXT[k] \in Range(CONTEXT) /\ CONTEXT[k] \in Registers
  /\ \A k \in 1 .. 14 : GREGS[k] \in Registers \ (Range(CONTEXT) \cup {"rcx"})
  /\ \A r \in Range(POPPED) : \E k \in DOMAIN POPPED : POPPED[k] = r
  /\ \A r \in Registers : \/ r \in {"fpu", "rcx"} \/ r \in Range(POPPED)
                          \/ \E k \in DOMAIN CONTEXT : CONTEXT[k] = r
<1>1. \A k \in DOMAIN GREGS : GREGS[k] \in Registers
  BY DEF Registers, Range
<1>2. \A k \in DOMAIN CONTEXT : CONTEXT[k] \in Range(CONTEXT) /\ CONTEXT[k] \in Registers
  BY DEF Registers, Range
<1>3. \A r \in Range(POPPED) : \E k \in DOMAIN POPPED : POPPED[k] = r
  BY DEF Range
<1>4. ASSUME NEW k \in 1 .. 14
      PROVE  GREGS[k] \in Registers \ (Range(CONTEXT) \cup {"rcx"})
  <2>1. POPPED[k] \in Range(POPPED) /\ POPPED[k] = GREGS[k]
    BY Lists DEF Range
  <2>2. QED BY <2>1, RegisterNames
<1>5. \A r \in Range(CONTEXT) : \E k \in DOMAIN CONTEXT : CONTEXT[k] = r
  BY DEF Range
<1>6. \A r \in Registers : r \in {"fpu", "rcx"} \/ r \in Range(POPPED) \/ r \in Range(CONTEXT)
  BY RegisterNames
<1>7. QED BY <1>1, <1>2, <1>3, <1>4, <1>5, <1>6

-----------------------------------------------------------------------------
(* The memory.                                                             *)

(* What a sequence begins with is not disturbed by what follows it.        *)
LEMMA Prefix ==
  ASSUME NEW s \in Seq(Int), NEW t \in Seq(Int), NEW n \in Nat, Len(s) = n
  PROVE  /\ s \o t \in Seq(Int) /\ Len(s \o t) = n + Len(t)
         /\ \A k \in 1 .. n : (s \o t)[k] = s[k]
<1>1. s \o t \in Seq(Int) /\ Len(s \o t) = n + Len(t)
  BY ConcatProperties, Zenon
<1>2. \A k \in 1 .. n + Len(t) : (s \o t)[k] = IF k <= n THEN s[k] ELSE t[k - n]
  BY ConcatProperties, Zenon
<1>3. Len(t) \in Nat
  OBVIOUS
<1>4. \A k \in 1 .. n : k \in 1 .. n + Len(t) /\ k <= n
  BY <1>3
<1>5. QED BY <1>1, <1>2, <1>4, Zenon

(* after is before with n words pushed below sp; what lies elsewhere is    *)
(* what was there.                                                         *)
Holds(after, before, sp, words, n) ==
  /\ DOMAIN after = DOMAIN before \cup (sp - n .. sp - 1)
  /\ \A k \in 1 .. n : after[sp - k] = words[k]
  /\ \A a \in DOMAIN before : a \notin sp - n .. sp - 1 => after[a] = before[a]
  /\ (\A a \in DOMAIN before : before[a] \in Int) =>
       \A a \in DOMAIN after : after[a] \in Int

(* What Pushed leaves in memory.                                           *)
LEMMA Pushes ==
  ASSUME NEW m, NEW sp \in Int, NEW words \in Seq(Int), NEW n \in Nat, Len(words) = n
  PROVE  Holds(Pushed(m, sp, words), m, sp, words, n)
<1>1. DOMAIN Pushed(m, sp, words) = DOMAIN m \cup (sp - n .. sp - 1)
  BY DEF Pushed
<1>2. ASSUME NEW k \in 1 .. n PROVE Pushed(m, sp, words)[sp - k] = words[k]
  <2>1. sp - k \in sp - n .. sp - 1 /\ sp - (sp - k) = k
    BY SMT
  <2>2. QED BY <2>1, Zenon DEF Pushed
<1>3. \A a \in DOMAIN m : a \notin sp - n .. sp - 1 => Pushed(m, sp, words)[a] = m[a]
  BY Zenon DEF Pushed
<1>4. ASSUME \A a \in DOMAIN m : m[a] \in Int, NEW a \in DOMAIN Pushed(m, sp, words)
      PROVE  Pushed(m, sp, words)[a] \in Int
  <2>1. CASE a \in sp - n .. sp - 1
    <3>1. sp - a \in 1 .. Len(words)
      BY <2>1, SMT
    <3>2. words[sp - a] \in Int
      BY <3>1
    <3>3. Pushed(m, sp, words)[a] = words[sp - a]
      BY <1>1, <2>1, Zenon DEF Pushed
    <3>4. QED BY <3>2, <3>3
  <2>2. CASE a \notin sp - n .. sp - 1
    BY <1>1, <1>3, <1>4, <2>2
  <2>3. QED BY <2>1, <2>2
<1>5. QED BY <1>1, <1>2, <1>3, <1>4 DEF Holds

(* A stack has room for 100 words.                                         *)
LEMMA Room ==
  ASSUME NEW v \in Vectors
  PROVE  /\ StackTop(ist_index(v)) \in Int
         /\ StackTop(ist_index(v)) % 2 = 0
         /\ StackTop(ist_index(v)) - 100 .. StackTop(ist_index(v)) - 1 \subseteq Stacks
<1>1. ist_index(v) \in 1 .. 7
  BY DEF ist_index
<1>2. ist_index(v) \in {1, 2}
  BY DEF ist_index
<1>3. QED BY <1>1, <1>2 DEF Stacks, StackTop

-----------------------------------------------------------------------------
(* The exception strikes.                                                  *)

FrameWords(v, error_code) ==
  Reverse(Values(CONTEXT)) \o (IF PushesErrorCode(v) THEN <<error_code>> ELSE << >>)

(* The frame of the processor holds the context in the order of            *)
(* InterrupContext, and the error code below it if there is one.           *)
LEMMA Frame ==
  ASSUME cpu \in [Registers -> Int], NEW v \in Vectors, NEW error_code \in Int
  PROVE  /\ FrameWords(v, error_code) \in Seq(Int)
         /\ Len(FrameWords(v, error_code)) = IF PushesErrorCode(v) THEN 6 ELSE 5
         /\ \A k \in 1 .. 5 : FrameWords(v, error_code)[6 - k] = cpu[CONTEXT[k]]
<1> DEFINE context == Values(CONTEXT)
           code    == IF PushesErrorCode(v) THEN <<error_code>> ELSE << >>
<1>1. context \in Seq(Int) /\ Len(context) = 5
      /\ \A k \in 1 .. 5 : context[k] = cpu[CONTEXT[k]]
  <2>1. context = [k \in 1 .. 5 |-> cpu[CONTEXT[k]]]
    BY Lists DEF Values
  <2>2. \A k \in 1 .. 5 : cpu[CONTEXT[k]] \in Int
    BY Lists, Places
  <2>3. QED BY <2>1, <2>2
<1>2. code \in Seq(Int) /\ Len(code) = IF PushesErrorCode(v) THEN 1 ELSE 0
  OBVIOUS
<1> HIDE DEF context, code
<1>3. /\ Reverse(context) \in Seq(Int) /\ Len(Reverse(context)) = 5
      /\ \A k \in 1 .. 5 : Reverse(context)[6 - k] = context[k]
  <2>1. Reverse(context) = [k \in 1 .. 5 |-> context[(5 - k) + 1]]
    BY <1>1 DEF Reverse
  <2>2. ASSUME NEW k \in 1 .. 5
        PROVE  (5 - k) + 1 \in 1 .. 5 /\ context[(5 - k) + 1] \in Int
    <3>1. \A j \in 1 .. 5 : context[j] \in Int
      <4>1. context \in Seq(Int) /\ Len(context) = 5
        BY <1>1, Zenon
      <4>2. QED BY <4>1, ElementOfSeq
    <3>2. (5 - k) + 1 \in 1 .. 5
      BY SMT
    <3>3. QED BY <3>1, <3>2, Zenon
  <2>3. \A k \in 1 .. 5 : 6 - k \in 1 .. 5 /\ (5 - (6 - k)) + 1 = k
    BY SMT
  <2>4. QED BY <2>1, <2>2, <2>3
<1> DEFINE reversed == Reverse(context)
<1>4. FrameWords(v, error_code) = reversed \o code
  BY DEF FrameWords, context, code
<1> HIDE DEF reversed
<1>5. reversed \in Seq(Int) /\ Len(reversed) = 5
      /\ \A k \in 1 .. 5 : reversed[6 - k] = cpu[CONTEXT[k]]
  BY <1>1, <1>3 DEF reversed
<1>6. reversed \o code \in Seq(Int) /\ Len(reversed \o code) = 5 + Len(code)
      /\ \A k \in 1 .. 5 : (reversed \o code)[k] = reversed[k]
  BY <1>2, <1>5, Prefix, 5 \in Nat, Zenon
<1>7. \A k \in 1 .. 5 : 6 - k \in 1 .. 5
  BY SMT
<1>8. \A k \in 1 .. 5 : (reversed \o code)[6 - k] = cpu[CONTEXT[k]]
  BY <1>5, <1>6, <1>7, Zenon
<1>9. Len(reversed \o code) = IF PushesErrorCode(v) THEN 6 ELSE 5
  BY <1>2, <1>6
<1>10. QED BY <1>4, <1>6, <1>8, <1>9, Zenon

(* Delivering an exception starts its handling afresh.                     *)
LEMMA Strikes ==
  ASSUME InterruptsAssumption, HandlingInv, NEW v \in Vectors,
         NEW error_code \in IF PushesErrorCode(v) THEN ErrorCodes ELSE {0},
         Deliver(v, error_code)
  PROVE  HandlingInv'
<1> DEFINE top == StackTop(ist_index(v))
           n   == IF PushesErrorCode(v) THEN 6 ELSE 5
           new == [vector |-> v, error_code |-> error_code, cpu |-> cpu]
<1>1. cpu \in [Registers -> Int] /\ error_code \in Int /\ interrupted \in Seq(SavedStates)
  <2>1. error_code \in Int
    BY InterruptsAssumption
  <2>2. QED BY <2>1 DEF HandlingInv, TypeOK, Nesting
<1>2. PICK words \in Seq(Int) :
        /\ words = FrameWords(v, error_code) /\ Len(words) = n
        /\ \A k \in 1 .. 5 : words[6 - k] = cpu[CONTEXT[k]]
  BY <1>1, Frame, Zenon
<1>3. /\ mem' = Pushed(mem, top, words)
      /\ cpu' = [cpu EXCEPT !["rsp"] = top - n, !["rip"] = v, !["cs"] = 0, !["rflags"] = 0]
      /\ interrupted' = Append(interrupted, new)
      /\ vector' = v /\ pc' = "entry" /\ Len(interrupted) < MaxNesting
      /\ v = 3 => pc = "program"
  BY <1>2, Zenon DEF Deliver, FrameWords
<1>4. /\ top \in Int /\ top - 100 .. top - 1 \subseteq Stacks
      /\ n \in Nat /\ n <= 100 /\ v \in Int
  <2>1. n \in Nat /\ n <= 100 /\ v \in Int
    BY DEF Vectors
  <2>2. QED BY <2>1, Room, Zenon
<1> HIDE DEF top, n
<1>5. /\ DOMAIN mem' = DOMAIN mem \cup (top - n .. top - 1)
      /\ \A k \in 1 .. n : mem'[top - k] = words[k]
      /\ \A a \in DOMAIN mem' : mem'[a] \in Int
  <2>1. \A a \in DOMAIN mem : mem[a] \in Int
    BY DEF HandlingInv, TypeOK
  <2>2. mem' = Pushed(mem, top, words) /\ top \in Int /\ n \in Nat /\ Len(words) = n
    BY <1>2, <1>3, <1>4, Zenon
  <2>3. Holds(mem', mem, top, words, n)
    BY <2>2, Pushes, Zenon
  <2>4. QED BY <2>1, <2>3 DEF Holds
<1>6. /\ new \in SavedStates /\ Len(interrupted') = Len(interrupted) + 1
      /\ interrupted' \in Seq(SavedStates) /\ Struck' = new
      /\ \A i \in 1 .. Len(interrupted) : interrupted'[i] = interrupted[i]
  <2>1. new \in SavedStates
    BY <1>1 DEF SavedStates
  <2> HIDE DEF new
  <2>2. QED BY <1>1, <1>3, <2>1 DEF Struck, Last
<1>7. TypeOK'
  <2>1. cpu' \in [Registers -> Int]
    <3>1. top - n \in Int /\ 0 \in Int
      BY <1>4
    <3>2. QED BY <1>1, <1>3, <1>4, <3>1
  <2>2. DOMAIN mem' \subseteq Stacks
    <3>1. top - n .. top - 1 \subseteq top - 100 .. top - 1
      BY <1>4
    <3>2. QED BY <1>4, <1>5, <3>1 DEF HandlingInv, TypeOK, Stacks
  <2>3. Len(interrupted') <= MaxNesting
    BY <1>1, <1>3, <1>6 DEF InterruptsAssumption
  <2>4. QED BY <1>3, <1>5, <2>1, <2>2, <2>3 DEF TypeOK, Stacks
<1>8. Nesting'
  <2>1. interrupted' # << >>
    BY <1>1, <1>6
  <2>2. Struck'.vector = vector'
    BY <1>3, <1>6
  <2>3. ASSUME NEW i \in DOMAIN interrupted', interrupted'[i].vector = 3 PROVE i = 1
    <3>1. DOMAIN interrupted' = 1 .. Len(interrupted) + 1
      BY <1>6
    <3>2. CASE i \in 1 .. Len(interrupted)
      BY <1>1, <1>6, <2>3, <3>2 DEF HandlingInv, Nesting
    <3>3. CASE i = Len(interrupted) + 1
      <4>1. interrupted'[i] = new
        BY <1>1, <1>3, <3>3
      <4>2. pc = "program"
        BY <1>3, <2>3, <4>1
      <4>3. interrupted = << >>
        BY <4>2 DEF HandlingInv, Nesting
      <4>4. QED BY <3>3, <4>3
    <3>4. QED BY <1>1, <3>1, <3>2, <3>3
  <2>4. QED BY <1>3, <1>6, <2>1, <2>2, <2>3 DEF Nesting
<1>9. AtEntry'
  <2>1. Top' = top
    BY <1>3 DEF Top, top
  <2>2. "rsp" \in Registers /\ "rip" \in Registers /\ "cs" \in Registers /\ "rflags" \in Registers
    BY RegisterNames
  <2>3. cpu'["rsp"] = top - n
    BY <1>1, <1>3, <2>2
  <2>4. ASSUME NEW k \in DOMAIN CONTEXT
        PROVE  top - 6 + k \in DOMAIN mem' /\ mem'[top - 6 + k] = cpu[CONTEXT[k]]
    <3>1. k \in 1 .. 5 /\ 6 - k \in 1 .. n /\ top - (6 - k) = top - 6 + k
          /\ top - 6 + k \in top - n .. top - 1
      <4>1. PICK m \in Int, t \in Int : m = n /\ t = top /\ m >= 5
        BY <1>4 DEF n
      <4>2. k \in 1 .. 5
        BY Lists, Zenon
      <4>3. 6 - k \in 1 .. m /\ t - (6 - k) = (t - 6) + k
            /\ (t - 6) + k \in t - m .. t - 1
        BY <4>1, <4>2
      <4>4. QED BY <4>1, <4>2, <4>3
    <3>2. QED BY <1>2, <1>5, <3>1
  <2>5. Struck'.cpu = cpu /\ Struck'.error_code = error_code
    BY <1>6
  <2>6. ContextSaved'
    BY <2>1, <2>4, <2>5 DEF ContextSaved
  <2>7. ASSUME NEW r \in Registers \ Range(CONTEXT) PROVE cpu'[r] = Struck'.cpu[r]
    <3>1. r \notin {"rsp", "rip", "cs", "rflags"}
      BY RegisterNames
    <3>2. QED BY <1>1, <1>3, <2>5, <3>1
  <2>8. PushesErrorCode(vector') = PushesErrorCode(v) /\ (~PushesErrorCode(v) => error_code = 0)
    BY <1>3
  <2>9. QED BY <1>3, <2>1, <2>3, <2>5, <2>6, <2>7, <2>8 DEF AtEntry, n
<1>10. AtCommon' /\ AtHandler' /\ AtRestore'
  BY <1>3 DEF AtCommon, AtHandler, AtRestore
<1>11. QED BY <1>7, <1>8, <1>9, <1>10 DEF HandlingInv

-----------------------------------------------------------------------------
(* The handlers.                                                           *)

InHandling == {"entry", "common", "handler", "restore"}

(* While one exception is handled its place among the others stays.        *)
LEMMA StillNested ==
  ASSUME HandlingInv, pc \in InHandling, pc' \in InHandling \cup {"panic"},
         UNCHANGED <<vector, interrupted>>
  PROVE  /\ Nesting' /\ Struck' = Struck /\ Top' = Top
         /\ Struck \in SavedStates /\ Struck.vector = vector
         /\ Len(interrupted') <= MaxNesting /\ vector' \in Vectors
         /\ Top \in Int /\ Top % 2 = 0 /\ Top - 100 .. Top - 1 \subseteq Stacks
<1>1. interrupted \in Seq(SavedStates) /\ interrupted # << >> /\ Struck.vector = vector
  BY DEF HandlingInv, Nesting, InHandling
<1>2. Struck \in SavedStates
  <2>1. Len(interrupted) \in 1 .. Len(interrupted)
    BY <1>1, EmptySeq
  <2>2. QED BY <1>1, <2>1, ElementOfSeq DEF Struck, Last
<1>3. Struck' = Struck /\ Top' = Top
  BY DEF Struck, Top
<1>4. Nesting'
  BY <1>1, <1>3 DEF HandlingInv, Nesting, InHandling
<1>5. Len(interrupted') <= MaxNesting /\ vector \in Vectors
  BY DEF HandlingInv, TypeOK
<1>6. QED BY <1>1, <1>2, <1>3, <1>4, <1>5, Room DEF Top

(* What is pushed on a stack that has room for it keeps the memory typed.  *)
LEMMA StillTyped ==
  ASSUME HandlingInv, NEW v \in Vectors, NEW sp \in Int, NEW n \in Nat, NEW words,
         sp <= StackTop(ist_index(v)), sp - n >= StackTop(ist_index(v)) - 100,
         NEW after, Holds(after, mem, sp, words, n)
  PROVE  /\ DOMAIN after \subseteq Stacks
         /\ \A a \in DOMAIN after : after[a] \in Int
<1>1. PICK top \in Int : top = StackTop(ist_index(v)) /\ top - 100 .. top - 1 \subseteq Stacks
  BY Room
<1>2. sp - n .. sp - 1 \subseteq top - 100 .. top - 1
  BY <1>1
<1>3. DOMAIN mem \subseteq Stacks /\ \A a \in DOMAIN mem : mem[a] \in Int
  BY DEF HandlingInv, TypeOK, Stacks
<1>4. QED BY <1>1, <1>2, <1>3 DEF Holds

(* The entry point of a vector without an error code.                      *)
LEMMA EntersTrap ==
  ASSUME HandlingInv, interrupt_entrypoint
  PROVE  HandlingInv'
<1>1. /\ pc = "entry" /\ pc' = "common" /\ UNCHANGED <<vector, interrupted>>
      /\ vector \in {3, 6, 32} /\ vector \in Vectors /\ ~PushesErrorCode(vector)
  BY DEF interrupt_entrypoint, Vectors, PushesErrorCode
<1>2. /\ Nesting' /\ Struck' = Struck /\ Top' = Top /\ vector' \in Vectors
      /\ Len(interrupted') <= MaxNesting
  BY <1>1, StillNested DEF InHandling
<1>3. /\ cpu \in [Registers -> Int] /\ "rsp" \in Registers /\ "rcx" \in Registers
      /\ "rcx" \notin Range(CONTEXT) /\ "rsp" \in Range(CONTEXT)
  BY RegisterNames DEF HandlingInv, TypeOK
<1>4. PICK top \in Int : top = Top /\ Top = StackTop(ist_index(vector))
  BY <1>1, Room DEF Top
<1>5. /\ cpu["rsp"] = top - 5 /\ ContextSaved /\ Struck.error_code = 0
      /\ \A r \in Registers \ Range(CONTEXT) : cpu[r] = Struck.cpu[r]
  BY <1>1, <1>4 DEF HandlingInv, AtEntry
<1>6. PICK words \in Seq(Int) :
        words = <<0, cpu["rcx"]>> /\ Len(words) = 2 /\ words[1] = 0 /\ words[2] = cpu["rcx"]
  <2>1. PICK r \in Int : r = cpu["rcx"]
    BY <1>3
  <2>2. <<0, r>> \in Seq(Int) /\ Len(<<0, r>>) = 2 /\ <<0, r>>[1] = 0 /\ <<0, r>>[2] = r
    OBVIOUS
  <2>3. QED BY <2>1, <2>2, Zenon
<1>7. Holds(mem', mem, top - 5, words, 2)
  <2>1. mem' = Pushed(mem, top - 5, words)
    BY <1>5, <1>6, Zenon DEF interrupt_entrypoint
  <2>2. top - 5 \in Int /\ 2 \in Nat
    OBVIOUS
  <2>3. QED BY <1>6, <2>1, <2>2, Pushes, Zenon
<1>8. /\ cpu' \in [Registers -> Int] /\ cpu'["rsp"] = top - 7 /\ cpu'["rcx"] = vector
      /\ \A r \in Registers : r \notin {"rsp", "rcx"} => cpu'[r] = cpu[r]
  <2>1. cpu' = [cpu EXCEPT !["rsp"] = @ - 2, !["rcx"] = vector]
    BY DEF interrupt_entrypoint
  <2>2. cpu["rsp"] - 2 \in Int /\ vector \in Int /\ cpu["rsp"] - 2 = top - 7
    BY <1>1, <1>5
  <2>3. QED BY <1>3, <2>1, <2>2
<1>9. TypeOK'
  <2>1. DOMAIN mem' \subseteq Stacks /\ \A a \in DOMAIN mem' : mem'[a] \in Int
    <3>1. top - 5 \in Int /\ 2 \in Nat /\ top - 5 <= top /\ (top - 5) - 2 >= top - 100
      OBVIOUS
    <3>2. QED BY <1>1, <1>4, <1>7, <3>1, StillTyped, Zenon
  <2>2. QED BY <1>1, <1>2, <1>8, <2>1 DEF TypeOK, Stacks
<1>10. AtCommon'
  <2>1. /\ DOMAIN mem' = DOMAIN mem \cup (top - 7 .. top - 6)
        /\ mem'[top - 6] = 0 /\ mem'[top - 7] = cpu["rcx"]
        /\ \A a \in DOMAIN mem : a \notin top - 7 .. top - 6 => mem'[a] = mem[a]
    <3>1. (top - 5) - 2 = top - 7 /\ (top - 5) - 1 = top - 6
          /\ 1 \in 1 .. 2 /\ 2 \in 1 .. 2
      OBVIOUS
    <3>2. QED BY <1>6, <1>7, <3>1 DEF Holds
  <2>2. ContextSaved'
    <3>1. ASSUME NEW k \in DOMAIN CONTEXT
          PROVE  top - 6 + k \in DOMAIN mem' /\ mem'[top - 6 + k] = Struck.cpu[CONTEXT[k]]
      <4>1. top - 6 + k \in DOMAIN mem /\ mem[top - 6 + k] = Struck.cpu[CONTEXT[k]]
        BY <1>4, <1>5 DEF ContextSaved
      <4>2. k \in 1 .. 5 /\ top - 6 + k \notin top - 7 .. top - 6
        <5>1. k \in 1 .. 5
          BY Lists, Zenon
        <5>2. QED BY <5>1
      <4>3. QED BY <2>1, <4>1, <4>2
    <3>2. QED BY <1>2, <1>4, <3>1 DEF ContextSaved
  <2>3. {top - 7, top - 6} \subseteq DOMAIN mem'
    BY <2>1
  <2>4. \A r \in Registers \ (Range(CONTEXT) \cup {"rcx"}) : cpu'[r] = Struck.cpu[r]
    BY <1>3, <1>5, <1>8
  <2>5. cpu["rcx"] = Struck.cpu["rcx"]
    BY <1>3, <1>5
  <2>6. PushesErrorCode(vector') = FALSE /\ vector' = vector /\ vector # NO_HANDLER
    BY <1>1 DEF NO_HANDLER, PushesErrorCode
  <2>7. QED BY <1>2, <1>4, <1>5, <1>8, <2>1, <2>2, <2>3, <2>4, <2>5, <2>6 DEF AtCommon
<1>11. AtEntry' /\ AtHandler' /\ AtRestore'
  BY <1>1 DEF AtEntry, AtHandler, AtRestore
<1>12. QED BY <1>2, <1>9, <1>10, <1>11 DEF HandlingInv

(* The entry point of a vector with one.                                   *)
LEMMA EntersFault ==
  ASSUME HandlingInv, interrupt_entrypoint_with_ecode
  PROVE  HandlingInv'
<1>1. /\ pc = "entry" /\ pc' = "common" /\ UNCHANGED <<vector, interrupted>>
      /\ vector \in {8, 13, 14} /\ vector \in Vectors /\ PushesErrorCode(vector)
  BY DEF interrupt_entrypoint_with_ecode, Vectors, PushesErrorCode
<1>2. /\ Nesting' /\ Struck' = Struck /\ Top' = Top /\ vector' \in Vectors
      /\ Len(interrupted') <= MaxNesting
  BY <1>1, StillNested DEF InHandling
<1>3. cpu \in [Registers -> Int] /\ "rsp" \in Registers /\ "rcx" \in Registers
  BY RegisterNames DEF HandlingInv, TypeOK
<1>4. PICK top \in Int : top = Top /\ Top = StackTop(ist_index(vector))
  BY <1>1, Room DEF Top
<1>5. cpu["rsp"] = top - 6
  BY <1>1, <1>4 DEF HandlingInv, AtEntry
<1>6. PICK words \in Seq(Int) : words = <<cpu["rcx"], vector, vector>> /\ Len(words) = 3
  <2>1. PICK r \in Int, v \in Int : r = cpu["rcx"] /\ v = vector
    BY <1>1, <1>3
  <2>2. <<r, v, v>> \in Seq(Int) /\ Len(<<r, v, v>>) = 3
    OBVIOUS
  <2>3. QED BY <2>1, <2>2, Zenon
<1>7. Holds(mem', mem, top - 6, words, 3)
  <2>1. mem' = Pushed(mem, top - 6, words)
    BY <1>5, <1>6, Zenon DEF interrupt_entrypoint_with_ecode
  <2>2. top - 6 \in Int /\ 3 \in Nat
    OBVIOUS
  <2>3. QED BY <1>6, <2>1, <2>2, Pushes, Zenon
<1>8. cpu' \in [Registers -> Int] /\ cpu'["rsp"] = top - 9 /\ cpu'["rcx"] = vector
  <2>1. cpu' = [cpu EXCEPT !["rsp"] = @ - 3, !["rcx"] = vector]
    BY DEF interrupt_entrypoint_with_ecode
  <2>2. cpu["rsp"] - 3 \in Int /\ vector \in Int /\ cpu["rsp"] - 3 = top - 9
    BY <1>1, <1>5
  <2>3. QED BY <1>3, <2>1, <2>2
<1>9. TypeOK'
  <2>1. DOMAIN mem' \subseteq Stacks /\ \A a \in DOMAIN mem' : mem'[a] \in Int
    <3>1. top - 6 \in Int /\ 3 \in Nat /\ top - 6 <= top /\ (top - 6) - 3 >= top - 100
      OBVIOUS
    <3>2. QED BY <1>1, <1>4, <1>7, <3>1, StillTyped, Zenon
  <2>2. QED BY <1>1, <1>2, <1>8, <2>1 DEF TypeOK, Stacks
<1>10. AtCommon'
  <2>1. PushesErrorCode(vector') = TRUE /\ vector' = vector /\ vector # NO_HANDLER
    BY <1>1 DEF NO_HANDLER, PushesErrorCode
  <2>2. QED BY <1>2, <1>4, <1>8, <2>1 DEF AtCommon
<1>11. AtEntry' /\ AtHandler' /\ AtRestore'
  BY <1>1 DEF AtEntry, AtHandler, AtRestore
<1>12. QED BY <1>2, <1>9, <1>10, <1>11 DEF HandlingInv

(* inthandler_common up to the call lays out an InterrupInfo.              *)
LEMMA EntersHandler ==
  ASSUME HandlingInv, inthandler_common
  PROVE  HandlingInv'
<1> DEFINE n == IF PushesErrorCode(vector) THEN 9 ELSE 7
<1>1. /\ pc = "common" /\ pc' = "handler" /\ UNCHANGED <<vector, interrupted>>
      /\ vector \in Vectors
  BY DEF inthandler_common, HandlingInv, TypeOK
<1>2. /\ Nesting' /\ Struck' = Struck /\ Top' = Top /\ vector' \in Vectors
      /\ Len(interrupted') <= MaxNesting
  BY <1>1, StillNested DEF InHandling
<1>3. cpu \in [Registers -> Int]
      /\ {"rsp", "rcx", "rdi", "rsi", "rbp", "fpu"} \subseteq Registers
  BY RegisterNames DEF HandlingInv, TypeOK
<1>4. PICK top \in Int : /\ top = Top /\ Top = StackTop(ist_index(vector)) /\ top % 2 = 0
                         /\ top - 100 .. top - 1 \subseteq Stacks
  BY <1>1, Room DEF Top
<1>5. cpu["rsp"] = top - n /\ cpu["rcx"] = vector
  BY <1>1, <1>4 DEF HandlingInv, AtCommon
<1>6. PICK words \in Seq(Int) :
        words = Values(PUSHED) /\ Len(words) = 14
        /\ \A k \in 1 .. 14 : words[k] = cpu[PUSHED[k]]
  <2>1. Values(PUSHED) = [k \in 1 .. 14 |-> cpu[PUSHED[k]]]
    BY Lists DEF Values
  <2>2. ASSUME NEW k \in 1 .. 14 PROVE cpu[PUSHED[k]] \in Int
    <3>1. PICK j \in 1 .. 14 : j = 15 - k
      BY SMT
    <3>2. 15 - j = k
      BY <3>1, SMT
    <3>3. PUSHED[k] = GREGS[j] /\ GREGS[j] \in Registers
      BY <3>2, Lists, Places, Zenon
    <3>4. QED BY <1>3, <3>3
  <2>3. Values(PUSHED) \in Seq(Int) /\ Len(Values(PUSHED)) = 14
        /\ \A k \in 1 .. 14 : Values(PUSHED)[k] = cpu[PUSHED[k]]
    BY <2>1, <2>2
  <2>4. QED BY <2>3, Zenon
<1>7. PICK fpu \in Seq(Int) :
        fpu = [w \in 1 .. FPU_WORDS |-> cpu["fpu"]] /\ Len(fpu) = 64
        /\ \A w \in 1 .. 64 : fpu[w] = cpu["fpu"]
  <2>1. PICK x \in Int : x = cpu["fpu"]
    BY <1>3
  <2>2. [w \in 1 .. 64 |-> x] \in Seq(Int) /\ Len([w \in 1 .. 64 |-> x]) = 64
        /\ \A w \in 1 .. 64 : [w2 \in 1 .. 64 |-> x][w] = x
    OBVIOUS
  <2>3. QED BY <2>1, <2>2, Zenon DEF FPU_WORDS
<1>8. /\ n \in {7, 9} /\ n = (IF PushesErrorCode(vector) THEN 88 ELSE 86) - 79
      /\ ~PushesErrorCode(vector) => n = 7
  OBVIOUS
<1>9. PICK t \in Int : /\ t = top - n /\ t <= top /\ t - 79 >= top - 100
                       /\ ~PushesErrorCode(vector) => t = top - 7
                       /\ (t - 79) % 2 = 0
                       /\ t - 79 = top - (IF PushesErrorCode(vector) THEN 88 ELSE 86)
  <2> HIDE DEF n
  <2>1. PICK m \in Int : m = n /\ m \in {7, 9}
    BY <1>8
  <2>2. (top - m) - 79 = top - (m + 79) /\ ((top - m) - 79) % 2 = 0
        /\ top - m <= top /\ (top - m) - 79 >= top - 100
    <3>1. top % 2 = 0
      BY <1>4, Zenon
    <3>2. (top - 86) % 2 = 0 /\ (top - 88) % 2 = 0
      BY <3>1, SMT
    <3>3. (top - m) - 79 = top - (m + 79) /\ m + 79 \in {86, 88}
          /\ top - m <= top /\ (top - m) - 79 >= top - 100
      BY <2>1
    <3>4. ((top - m) - 79) % 2 = 0
      BY <3>2, <3>3
    <3>5. QED BY <3>3, <3>4
  <2>3. m + 79 = (IF PushesErrorCode(vector) THEN 88 ELSE 86)
    BY <1>8, <2>1
  <2>4. ~PushesErrorCode(vector) => m = 7
    BY <1>8, <2>1
  <2>5. WITNESS top - m \in Int
  <2>6. QED BY <2>1, <2>2, <2>3, <2>4
<1>10. PICK below : /\ Holds(below, mem, t, words, 14)
                    /\ Holds(mem', below, t - 15, fpu, 64)
                    /\ cpu' = [cpu EXCEPT !["rdi"] = t - 79, !["rsi"] = vector,
                                          !["rbp"] = t - 79,
                                          !["rsp"] = (t - 79) - ((t - 79) % 2)]
  <2>1. Holds(Pushed(mem, t, words), mem, t, words, 14)
    BY <1>6, <1>9, Pushes, 14 \in Nat, Zenon
  <2>2. (cpu["rsp"] - Len(PUSHED)) - FpuArea = t - 79 /\ (t - 79) + FPU_WORDS = t - 15
        /\ t - 15 \in Int
    BY <1>5, <1>9, Lists DEF FpuArea, FPU_WORDS
  <2>3. /\ mem' = Pushed(Pushed(mem, t, words), t - 15, fpu)
        /\ cpu' = [cpu EXCEPT !["rdi"] = t - 79, !["rsi"] = vector, !["rbp"] = t - 79,
                              !["rsp"] = (t - 79) - ((t - 79) % 2)]
    BY <1>5, <1>6, <1>7, <1>9, <2>2, Zenon DEF inthandler_common
  <2>4. Holds(mem', Pushed(mem, t, words), t - 15, fpu, 64)
    BY <1>7, <2>2, <2>3, Pushes, 64 \in Nat, Zenon
  <2>5. QED BY <2>1, <2>3, <2>4, Zenon
<1>11. /\ cpu' \in [Registers -> Int] /\ cpu'["rsi"] = vector /\ cpu'["rdi"] = t - 79
       /\ cpu'["rbp"] = t - 79 /\ cpu'["rsp"] = t - 79
  <2>1. (t - 79) - ((t - 79) % 2) = t - 79 /\ t - 79 \in Int /\ vector \in Int
    BY <1>1, <1>9 DEF Vectors
  <2>2. QED BY <1>3, <1>10, <2>1
<1>12. /\ DOMAIN below = DOMAIN mem \cup (t - 14 .. t - 1)
       /\ \A k \in 1 .. 14 : below[t - k] = cpu[PUSHED[k]]
       /\ \A a \in DOMAIN mem : a \notin t - 14 .. t - 1 => below[a] = mem[a]
       /\ (t - 15) - 64 = t - 79 /\ (t - 15) - 1 = t - 16
       /\ DOMAIN mem' = DOMAIN below \cup (t - 79 .. t - 16)
       /\ \A w \in 1 .. 64 : mem'[(t - 15) - w] = cpu["fpu"]
       /\ \A a \in DOMAIN below : a \notin t - 79 .. t - 16 => mem'[a] = below[a]
  <2>1. (t - 15) - 64 = t - 79 /\ (t - 15) - 1 = t - 16
    OBVIOUS
  <2>2. /\ DOMAIN below = DOMAIN mem \cup (t - 14 .. t - 1)
        /\ \A k \in 1 .. 14 : below[t - k] = words[k]
        /\ \A a \in DOMAIN mem : a \notin t - 14 .. t - 1 => below[a] = mem[a]
    BY <1>10, Zenon DEF Holds
  <2>3. /\ DOMAIN mem' = DOMAIN below \cup ((t - 15) - 64 .. (t - 15) - 1)
        /\ \A w \in 1 .. 64 : mem'[(t - 15) - w] = fpu[w]
        /\ \A a \in DOMAIN below : a \notin (t - 15) - 64 .. (t - 15) - 1 => mem'[a] = below[a]
    BY <1>10, Zenon DEF Holds
  <2>4. /\ DOMAIN mem' = DOMAIN below \cup (t - 79 .. t - 16)
        /\ \A a \in DOMAIN below : a \notin t - 79 .. t - 16 => mem'[a] = below[a]
    BY ONLY <2>1, <2>3, Zenon
  <2>5. \A k \in 1 .. 14 : words[k] = cpu[PUSHED[k]]
    BY <1>6, Zenon
  <2>6. QED BY <1>7, <2>1, <2>2, <2>3, <2>4, <2>5, Zenon
<1>13. TypeOK'
  <2>1. DOMAIN below \subseteq Stacks /\ \A a \in DOMAIN below : below[a] \in Int
    <3>1. t - 14 >= top - 100
      BY <1>9
    <3>2. QED BY <1>1, <1>4, <1>9, <1>10, <3>1, StillTyped, 14 \in Nat, Zenon
  <2>2. t - 79 .. t - 16 \subseteq top - 100 .. top - 1
    BY <1>9
  <2>3. DOMAIN mem' \subseteq Stacks
    BY <1>4, <1>12, <2>1, <2>2
  <2>4. \A a \in DOMAIN mem' : mem'[a] \in Int
    BY <1>10, <2>1 DEF Holds
  <2>5. QED BY <1>1, <1>2, <1>11, <2>3, <2>4 DEF TypeOK, Stacks
<1>14. ASSUME ~PushesErrorCode(vector)
       PROVE  ShowsSavedState(t - 79, Struck)'
  <2>1. /\ t = top - 7 /\ ContextSaved
        /\ top - 7 \in DOMAIN mem /\ top - 6 \in DOMAIN mem
        /\ mem[top - 6] = Struck.error_code /\ mem[top - 7] = Struck.cpu["rcx"]
        /\ \A r \in Registers \ (Range(CONTEXT) \cup {"rcx"}) : cpu[r] = Struck.cpu[r]
    BY <1>1, <1>4, <1>9, <1>14 DEF HandlingInv, AtCommon
  <2>2. cpu["fpu"] = Struck.cpu["fpu"]
    BY <2>1, RegisterNames
  <2>3. ASSUME NEW w \in 0 .. FPU_WORDS - 1
        PROVE  mem'[(t - 79) + w] = Struck.cpu["fpu"]
    <3>1. PICK v \in 1 .. 64 : v = 64 - w
      BY DEF FPU_WORDS
    <3>2. (t - 15) - v = (t - 79) + w
      BY <3>1 DEF FPU_WORDS
    <3>3. QED BY <1>12, <2>2, <3>2
  <2>4. ASSUME NEW a \in DOMAIN mem, a \in top - 7 .. top - 1 PROVE mem'[a] = mem[a]
    <3>1. a \notin t - 79 .. t - 16 /\ a \notin t - 14 .. t - 1 /\ a \in DOMAIN below
      <4>1. t = top - 7 /\ DOMAIN below = DOMAIN mem \cup (t - 14 .. t - 1)
        BY <1>12, <2>1, Zenon
      <4>2. QED BY <2>4, <4>1
    <3>2. QED BY <1>12, <3>1, Zenon
  <2>5. ASSUME NEW k \in DOMAIN GREGS
        PROVE  mem'[(t - 79) + 65 + k - 1] = Struck.cpu[GREGS[k]]
    <3>1. CASE k \in 1 .. 14
      <4>1. PICK j \in 1 .. 14 : j = 15 - k
        BY <3>1
      <4>2. t - j \in DOMAIN below /\ t - j \notin t - 79 .. t - 16
            /\ (t - 79) + 65 + k - 1 = t - j
        <5>1. DOMAIN below = DOMAIN mem \cup (t - 14 .. t - 1)
          BY <1>12, Zenon
        <5>2. k = 15 - j
          BY <3>1, <4>1
        <5>3. (t - 79) + 65 + k - 1 = t - j /\ t - j \in t - 14 .. t - 1
              /\ t - j \notin t - 79 .. t - 16
          <6>1. (t - 79) + 65 + (15 - j) - 1 = t - j
            OBVIOUS
          <6>2. t - j \in t - 14 .. t - 1 /\ t - j \notin t - 79 .. t - 16
            OBVIOUS
          <6>3. QED BY <5>2, <6>1, <6>2, Zenon
        <5>4. QED BY <5>1, <5>3
      <4>3. mem'[t - j] = cpu[PUSHED[j]]
        BY <1>12, <4>2, Zenon
      <4>4. PUSHED[j] = GREGS[k]
        BY <3>1, <4>1, Lists
      <4>5. cpu[GREGS[k]] = Struck.cpu[GREGS[k]]
        BY <2>1, <3>1, Places
      <4>6. QED BY <4>2, <4>3, <4>4, <4>5
    <3>2. CASE k = 15
      <4>1. (t - 79) + 65 + k - 1 = top - 7 /\ top - 7 \in top - 7 .. top - 1
        BY <2>1, <3>2
      <4>2. GREGS[k] = "rcx" /\ mem'[top - 7] = Struck.cpu["rcx"]
        BY <2>1, <2>4, <3>2, <4>1, Lists, Zenon
      <4>3. QED BY <4>1, <4>2, Zenon
    <3>3. QED BY <3>1, <3>2, Lists
  <2>6. mem'[(t - 79) + 65 + 15] = Struck.error_code
    <3>1. (t - 79) + 65 + 15 = top - 6 /\ top - 6 \in top - 7 .. top - 1
      BY <2>1
    <3>2. QED BY <2>1, <2>4, <3>1
  <2>7. ASSUME NEW k \in DOMAIN CONTEXT
        PROVE  mem'[(t - 79) + 65 + 15 + k] = Struck.cpu[CONTEXT[k]]
    <3>1. k \in 1 .. 5
      BY Lists
    <3>2. (t - 79) + 65 + 15 + k = (top - 6) + k /\ (top - 6) + k \in top - 7 .. top - 1
      BY <2>1, <3>1
    <3>3. (top - 6) + k \in DOMAIN mem /\ mem[(top - 6) + k] = Struck.cpu[CONTEXT[k]]
      BY <1>4, <2>1 DEF ContextSaved
    <3>4. QED BY <2>4, <3>2, <3>3
  <2>8. QED BY <1>2, <2>3, <2>5, <2>6, <2>7
            DEF ShowsSavedState, InfoGreg, InfoErrorCode, InfoContext
<1>15. AtHandler'
  <2>1. PushesErrorCode(vector') = PushesErrorCode(vector)
    BY <1>1
  <2>2. ~PushesErrorCode(vector') => ShowsSavedState(cpu["rdi"], Struck)'
    BY <1>11, <1>14, <2>1 DEF ShowsSavedState, InfoGreg, InfoErrorCode, InfoContext
  <2>3. QED BY <1>1, <1>2, <1>4, <1>9, <1>11, <2>1, <2>2 DEF AtHandler
<1>16. AtEntry' /\ AtCommon' /\ AtRestore'
  BY <1>1 DEF AtEntry, AtCommon, AtRestore
<1>17. QED BY <1>2, <1>13, <1>15, <1>16 DEF HandlingInv

(* A breakpoint has struck the program itself, and inthandler keeps rbp    *)
(* and the InterrupInfo.                                                   *)
LEMMA Reports ==
  ASSUME HandlingInv, HandlerReturns
  PROVE  HandlingInv'
<1>1. /\ pc = "handler" /\ pc' = "restore" /\ UNCHANGED <<mem, vector, interrupted>>
      /\ Returns(cpu["rsi"])
  BY DEF HandlerReturns
<1>2. /\ Nesting' /\ Struck' = Struck /\ vector' \in Vectors /\ Struck.vector = vector
      /\ Len(interrupted') <= MaxNesting
  BY <1>1, StillNested DEF InHandling
<1>3. cpu \in [Registers -> Int] /\ "rbp" \in Registers
  BY RegisterNames DEF HandlingInv, TypeOK
<1>4. vector = 3 /\ cpu["rsi"] = vector /\ cpu["rbp"] = cpu["rdi"]
      /\ (~PushesErrorCode(vector) => ShowsSavedState(cpu["rdi"], Struck))
  BY <1>1 DEF HandlingInv, AtHandler, Returns
<1>5. cpu' \in [Registers -> Int] /\ cpu'["rbp"] = cpu["rbp"]
  <2>1. cpu' = [r \in Registers |->
                  IF r \in CALLEE_SAVED \cup Range(CONTEXT) THEN cpu[r] ELSE -1]
    BY DEF HandlerReturns
  <2>2. \A r \in Registers :
          (IF r \in CALLEE_SAVED \cup Range(CONTEXT) THEN cpu[r] ELSE -1) \in Int
    BY <1>3
  <2>3. "rbp" \in CALLEE_SAVED
    BY DEF CALLEE_SAVED
  <2>4. QED BY <1>3, <2>1, <2>2, <2>3
<1>6. Len(interrupted) = 1
  <2>1. interrupted \in Seq(SavedStates) /\ interrupted # << >>
        /\ \A i \in DOMAIN interrupted : interrupted[i].vector = 3 => i = 1
    BY <1>1 DEF HandlingInv, Nesting
  <2>2. Len(interrupted) \in DOMAIN interrupted
    BY <2>1, EmptySeq, LenProperties
  <2>3. interrupted[Len(interrupted)].vector = 3
    BY <1>2, <1>4 DEF Struck, Last
  <2>4. QED BY <2>1, <2>2, <2>3
<1>7. ShowsSavedState(cpu["rbp"], Struck)'
  <2>1. ShowsSavedState(cpu["rbp"], Struck)
    BY <1>4 DEF PushesErrorCode
  <2>2. PICK info : info = cpu["rbp"] /\ info = cpu'["rbp"]
    BY <1>5
  <2>3. PICK saved : saved = Struck /\ saved = Struck'
    BY <1>2
  <2>4. ShowsSavedState(info, saved)
    BY <2>1, <2>2, <2>3
  <2>5. QED BY <1>1, <2>2, <2>3, <2>4
            DEF ShowsSavedState, InfoGreg, InfoErrorCode, InfoContext
<1>8. TypeOK'
  BY <1>1, <1>2, <1>5 DEF HandlingInv, TypeOK
<1>9. AtEntry' /\ AtCommon' /\ AtHandler'
  BY <1>1 DEF AtEntry, AtCommon, AtHandler
<1>10. AtRestore'
  BY <1>1, <1>6, <1>7 DEF AtRestore
<1>11. QED BY <1>2, <1>8, <1>9, <1>10 DEF HandlingInv

(* What inthandler_common loads and iretq pops is what was interrupted.    *)
LEMMA LoadsSavedState ==
  ASSUME HandlingInv, Restore
  PROVE  cpu' = Struck.cpu
<1>1. pc = "restore" /\ cpu \in [Registers -> Int] /\ "rbp" \in Registers
  BY RegisterNames DEF Restore, HandlingInv, TypeOK
<1>2. ShowsSavedState(cpu["rbp"], Struck) /\ Struck \in SavedStates
  <2>1. interrupted \in Seq(SavedStates) /\ interrupted # << >>
    BY <1>1 DEF HandlingInv, Nesting
  <2>2. Len(interrupted) \in 1 .. Len(interrupted)
    BY <2>1, EmptySeq
  <2>3. QED BY <1>1, <2>1, <2>2, ElementOfSeq DEF HandlingInv, AtRestore, Struck, Last
<1> DEFINE f == cpu["rbp"]
<1>3. f \in Int
  BY <1>1
<1> DEFINE pop(k) == mem[(f + FpuArea) + k - 1]
           iret(k) == mem[((f + FpuArea) + Len(POPPED) + 2) + k - 1]
           popped(r) == CHOOSE k \in DOMAIN POPPED : POPPED[k] = r
           place(r) == CHOOSE k \in DOMAIN CONTEXT : CONTEXT[k] = r
<1>4. cpu' = [r \in Registers |->
                CASE r = "fpu" -> mem[f]
                  [] r = "rcx" -> mem[(f + FpuArea) + Len(POPPED)]
                  [] r \in Range(POPPED) -> pop(popped(r))
                  [] OTHER -> iret(place(r))]
  BY Zenon DEF Restore
<1> HIDE DEF f
<1>5. mem[f] = Struck.cpu["fpu"]
  <2>1. 0 \in 0 .. FPU_WORDS - 1 /\ f + 0 = f
    BY <1>3 DEF FPU_WORDS
  <2>2. QED BY <1>2, <2>1, Zenon DEF f, ShowsSavedState
<1>6. mem[(f + FpuArea) + Len(POPPED)] = Struck.cpu["rcx"]
  <2>1. 15 \in DOMAIN GREGS /\ GREGS[15] = "rcx"
    BY Lists
  <2>2. f + 65 + 15 - 1 = (f + FpuArea) + Len(POPPED)
    BY <1>3, Lists DEF FpuArea, FPU_WORDS
  <2>3. QED BY <1>2, <2>1, <2>2, Zenon DEF f, ShowsSavedState, InfoGreg
<1>7. ASSUME NEW r \in Range(POPPED) PROVE pop(popped(r)) = Struck.cpu[r]
  <2>1. PICK k \in DOMAIN POPPED : k = popped(r) /\ POPPED[k] = r
    BY Places, Zenon
  <2>2. k \in DOMAIN GREGS /\ GREGS[k] = r
    <3>1. k \in 1 .. 14
      BY Lists, Zenon
    <3>2. k \in 1 .. 15
      BY <3>1
    <3>3. QED BY <2>1, <3>1, <3>2, Lists, Zenon
  <2>3. f + 65 + k - 1 = (f + FpuArea) + k - 1
    BY <1>3 DEF FpuArea, FPU_WORDS
  <2>4. QED BY <1>2, <2>1, <2>2, <2>3, Zenon DEF f, ShowsSavedState, InfoGreg
<1>8. ASSUME NEW r \in Registers, r \notin {"fpu", "rcx"}, r \notin Range(POPPED)
      PROVE  iret(place(r)) = Struck.cpu[r]
  <2>1. \E k \in DOMAIN CONTEXT : CONTEXT[k] = r
    BY <1>8, Places
  <2>2. PICK k \in DOMAIN CONTEXT : k = place(r) /\ CONTEXT[k] = r
    BY <2>1, Zenon
  <2>3. f + 65 + 15 + k = ((f + FpuArea) + Len(POPPED) + 2) + k - 1
    <3>1. k \in 1 .. 5 /\ Len(POPPED) = 14
      BY Lists, Zenon
    <3>2. PICK v \in Int : v = f
      BY <1>3
    <3>3. v + 65 + 15 + k = ((v + 65) + 14 + 2) + k - 1
      BY <3>1
    <3>4. FpuArea = 65
      BY DEF FpuArea, FPU_WORDS
    <3>5. QED BY ONLY <3>1, <3>2, <3>3, <3>4, Zenon
  <2>4. QED BY <1>2, <2>2, <2>3, Zenon DEF f, ShowsSavedState, InfoContext
<1> HIDE DEF pop, iret, popped, place
<1>9. \A r \in Registers : cpu'[r] = Struck.cpu[r]
  BY <1>4, <1>5, <1>6, <1>7, <1>8
<1>10. Struck.cpu \in [Registers -> Int]
  BY <1>2 DEF SavedStates
<1>11. cpu' = [r \in Registers |-> cpu'[r]]
  BY <1>4
<1>12. QED BY <1>9, <1>10, <1>11

(* Only the program itself goes on.                                        *)
LEMMA Resumes ==
  ASSUME HandlingInv, Restore
  PROVE  HandlingInv'
<1>1. /\ pc = "restore" /\ Len(interrupted) = 1 /\ interrupted' = Front(interrupted)
      /\ pc' = "program" /\ UNCHANGED <<mem, vector>>
  BY DEF HandlingInv, AtRestore, Restore
<1>2. interrupted \in Seq(SavedStates) /\ interrupted # << >>
  BY <1>1 DEF HandlingInv, Nesting
<1>3. interrupted' = << >>
  BY <1>1, SubSeqEmpty DEF Front
<1>4. cpu' \in [Registers -> Int]
  <2>1. Struck \in SavedStates
    BY <1>1, <1>2, ElementOfSeq DEF Struck, Last
  <2>2. QED BY <2>1, LoadsSavedState DEF SavedStates
<1>5. TypeOK'
  <2>1. Len(interrupted') <= MaxNesting
    BY <1>1, <1>3, InterruptsAssumption DEF InterruptsAssumption
  <2>2. QED BY <1>1, <1>4, <2>1 DEF HandlingInv, TypeOK
<1>6. Nesting'
  <2>1. << >> \in Seq(SavedStates) /\ DOMAIN << >> = {}
    OBVIOUS
  <2>2. QED BY <1>1, <1>3, <2>1 DEF Nesting
<1>7. QED BY <1>1, <1>5, <1>6 DEF HandlingInv, AtEntry, AtCommon, AtHandler, AtRestore

(* A panic keeps nothing but the types.                                    *)
LEMMA Panics ==
  ASSUME HandlingInv, int_handler_unimplemented \/ HandlerPanics \/ ExitQemu
  PROVE  HandlingInv'
<1>1. pc' \in {"panic", "exited"} /\ UNCHANGED <<cpu, mem, vector, interrupted>>
  BY DEF int_handler_unimplemented, HandlerPanics, ExitQemu
<1>2. TypeOK'
  BY <1>1 DEF HandlingInv, TypeOK
<1>3. Nesting'
  BY <1>1 DEF HandlingInv, Nesting
<1>4. QED BY <1>1, <1>2, <1>3 DEF HandlingInv, AtEntry, AtCommon, AtHandler, AtRestore

-----------------------------------------------------------------------------
(* The theorems.                                                           *)

(* From the start, and through every step of the processor and of the      *)
(* handlers, each exception is followed from its frame to its InterrupInfo *)
(* and back.                                                               *)
THEOREM HandlingInvHolds == Spec => []HandlingInv
<1>1. Init => HandlingInv
  <2> SUFFICES ASSUME Init PROVE HandlingInv
    OBVIOUS
  <2>1. cpu \in [Registers -> Int] /\ Len(interrupted) <= MaxNesting
    BY InterruptsAssumption DEF Init, InterruptsAssumption
  <2>2. DOMAIN mem = {}
    BY DEF Init
  <2>3. TypeOK
    BY <2>1, <2>2 DEF Init, TypeOK, Vectors
  <2>4. Nesting
    BY DEF Init, Nesting
  <2>5. QED BY <2>3, <2>4 DEF Init, HandlingInv, AtEntry, AtCommon, AtHandler, AtRestore
<1>2. HandlingInv /\ [Next]_vars => HandlingInv'
  <2> SUFFICES ASSUME HandlingInv, [Next]_vars PROVE HandlingInv'
    OBVIOUS
  <2>1. CASE Run
    <3>1. pc = "program" /\ cpu' \in [Registers -> Int] /\ UNCHANGED <<mem, pc, vector, interrupted>>
      BY <2>1, InterruptsAssumption DEF Run, InterruptsAssumption
    <3>2. TypeOK' /\ Nesting'
      BY <3>1 DEF HandlingInv, TypeOK, Nesting
    <3>3. QED BY <3>1, <3>2 DEF HandlingInv, AtEntry, AtCommon, AtHandler, AtRestore
  <2>2. CASE Faults
    BY <2>2, InterruptsAssumption, Strikes DEF Faults
  <2>3. CASE interrupt_entrypoint
    BY <2>3, EntersTrap
  <2>4. CASE interrupt_entrypoint_with_ecode
    BY <2>4, EntersFault
  <2>5. CASE inthandler_common
    BY <2>5, EntersHandler
  <2>6. CASE HandlerReturns
    BY <2>6, Reports
  <2>7. CASE Restore
    BY <2>7, Resumes
  <2>8. CASE int_handler_unimplemented \/ HandlerPanics \/ ExitQemu
    BY <2>8, Panics
  <2>9. CASE UNCHANGED vars
    BY <2>9 DEF vars, HandlingInv, TypeOK, Nesting, AtEntry, AtCommon, AtHandler, AtRestore,
                Struck, Top, ContextSaved, ShowsSavedState, InfoGreg, InfoErrorCode,
                InfoContext
  <2>10. QED BY <2>1, <2>2, <2>3, <2>4, <2>5, <2>6, <2>7, <2>8, <2>9 DEF Next, Handle
<1>3. QED BY <1>1, <1>2, PTL DEF Spec

(* Whatever is pushed stays within 100 words of a stack's top.             *)
THEOREM InterruptsTypeOK == Spec => []TypeOK
<1>1. HandlingInv => TypeOK
  BY DEF HandlingInv
<1>2. QED BY <1>1, HandlingInvHolds, PTL

(* inthandler is shown the registers of the code that a trap interrupted.  *)
THEOREM TrapIsShown == Spec => []InfoOfTrap
<1>1. HandlingInv => InfoOfTrap
  <2> SUFFICES ASSUME HandlingInv, pc = "handler", ~PushesErrorCode(Struck.vector)
               PROVE  ShowsSavedState(cpu["rdi"], Struck)
    BY DEF InfoOfTrap, Struck
  <2>1. Struck.vector = vector
    BY DEF HandlingInv, Nesting
  <2>2. QED BY <2>1 DEF HandlingInv, AtHandler
<1>2. QED BY <1>1, HandlingInvHolds, PTL

(* fxsave64 and the call find an aligned address, whatever the vector.     *)
THEOREM HandlerIsAligned == Spec => []Aligned
<1>1. HandlingInv => Aligned
  <2> SUFFICES ASSUME HandlingInv, pc = "handler"
               PROVE  cpu["rdi"] % 2 = 0 /\ cpu["rsp"] % 2 = 0
    BY DEF Aligned
  <2>1. /\ cpu["rdi"] = Top - (IF PushesErrorCode(vector) THEN 88 ELSE 86)
        /\ cpu["rsp"] = cpu["rdi"] /\ vector \in Vectors
    BY DEF HandlingInv, AtHandler, TypeOK
  <2>2. PICK top \in Int : top = Top /\ top % 2 = 0
    BY <2>1, Room DEF Top
  <2>3. (top - 86) % 2 = 0 /\ (top - 88) % 2 = 0
    BY <2>2, SMT
  <2>4. QED BY <2>1, <2>2, <2>3
<1>2. QED BY <1>1, HandlingInvHolds, PTL

(* A handler whose frame was overwritten does not go on.                   *)
THEOREM FramesDie == Spec => []OverwrittenFramesDie
<1>1. HandlingInv => OverwrittenFramesDie
  <2> SUFFICES ASSUME HandlingInv, pc = "restore" PROVE 1 .. Len(interrupted) - 1 = {}
    BY DEF OverwrittenFramesDie
  <2>1. Len(interrupted) = 1
    BY DEF HandlingInv, AtRestore
  <2>2. QED BY <2>1
<1>2. QED BY <1>1, HandlingInvHolds, PTL

(* When iretq returns, every register is what it was.                      *)
THEOREM ProgramResumes == Spec => Resumed
<1>1. HandlingInv /\ [Next]_vars => [pc = "restore" => cpu' = Last(interrupted).cpu]_vars
  <2> SUFFICES ASSUME HandlingInv, Next, pc = "restore" PROVE cpu' = Struck.cpu
    BY DEF Struck
  <2>1. Restore
    BY DEF Next, Run, Faults, Deliver, Handle, interrupt_entrypoint,
           interrupt_entrypoint_with_ecode, int_handler_unimplemented, inthandler_common,
           HandlerReturns, HandlerPanics, ExitQemu
  <2>2. QED BY <2>1, LoadsSavedState
<1>2. QED BY <1>1, HandlingInvHolds, PTL DEF Spec, Resumed

=============================================================================
