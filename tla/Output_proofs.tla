------------------------------ MODULE Output_proofs ------------------------------
(***************************************************************************)
(* What comes out of the machine: the verdict of the test harness, for     *)
(* every set of suites; the bytes on the serial lines, for every program   *)
(* of prints and any number of exceptions; and the hexdump, for all data   *)
(* and every width of a row.                                               *)
(*                                                                         *)
(* The inductive invariant of the harness is HarnessInv.  Its heart is     *)
(* LogAgrees: while the guest runs tests, its log is the beginning of the  *)
(* log of a full run, as far as it has come.                               *)
(*                                                                         *)
(* That of the serial port is SerialInv.  Only the newest print is ever    *)
(* gone on with, for a breakpoint, which alone returns, lies between two   *)
(* prints; and while the innermost activity is ready to write, the         *)
(* register that it has polled is still empty.                             *)
(*                                                                         *)
(* That of the hexdump is DumpInv: the rows before this one are printed,   *)
(* and of this one the bytes that the buffer holds.                        *)
(*                                                                         *)
(* All three are about sequences that grow at their end.  FlattenSeq is    *)
(* defined by CHOOSE; what it does with one more sequence is proved first. *)
(***************************************************************************)
EXTENDS TestHarness, Serial, Hexdump, SequenceTheorems, IntegerFacts, TLAPS

-----------------------------------------------------------------------------
(* The test harness. *)

(* The first k lines of the log of a run in which all tests return. *)
LogUpTo(k) == [i \in 1 .. k |-> LogLine(i)]

LogAgrees ==
  /\ guest = "firmware" => log = << >>
  /\ guest = "test_runner" => log = LogUpTo(2 * current + 1)
  /\ guest = "test" => log = LogUpTo(2 * current) /\ current >= 1
  /\ guest = "exiting" /\ exit_code = Success => log = FullLog

HarnessInv ==
  /\ tests \in Suites
  /\ current \in 0 .. Len(tests)
  /\ guest = "exiting" => exit_code \in {Success, Fail}
  /\ guest # "exiting" /\ On => exit_code = 0
  /\ LogAgrees
  /\ verdict \in {"none", "PASS", "nothing", "FAIL"}
  /\ retcode \in {Running, 0, 1, 130} \cup {2 * Success + 1, 2 * Fail + 1}
  /\ retcode = 3 => log = FullLog
  /\ retcode = 0 => quit
  /\ verdict = "none" => status = Running
  /\ verdict # "none" => ~On /\ Judgement(retcode) = <<verdict, status>>

(* One more line of the log. *)
LEMMA LogGrows ==
  ASSUME NEW k \in Nat
  PROVE  Append(LogUpTo(k), LogLine(k + 1)) = LogUpTo(k + 1)
<1>1. LogUpTo(k) \in Seq({LogLine(i) : i \in 1 .. k}) /\ Len(LogUpTo(k)) = k
  BY DEF LogUpTo
<1>2. Append(LogUpTo(k), LogLine(k + 1)) =
        [i \in 1 .. k + 1 |-> IF i = k + 1 THEN LogLine(k + 1) ELSE LogUpTo(k)[i]]
  BY <1>1
<1>3. ASSUME NEW i \in 1 .. k + 1
      PROVE  (IF i = k + 1 THEN LogLine(k + 1) ELSE LogUpTo(k)[i]) = LogLine(i)
  BY DEF LogUpTo
<1>4. QED BY <1>2, <1>3 DEF LogUpTo

(* Nothing is printed at first. *)
LEMMA HarnessInitHolds == Init => HarnessInv
<1> SUFFICES ASSUME Init PROVE HarnessInv
  OBVIOUS
<1>1. tests \in Seq(Outcomes) /\ Len(tests) \in Nat
  BY TestHarnessAssumption DEF Init
<1>2. QED BY <1>1 DEF Init, HarnessInv, LogAgrees, On, Running, Success, Fail

(* The guest: every line it prints is the next one of a full run, and it   *)
(* leaves with the code of success only at the end of it.                  *)
LEMMA GuestKeeps == HarnessInv /\ Guest => HarnessInv'
<1> SUFFICES ASSUME HarnessInv, Guest PROVE HarnessInv'
  OBVIOUS
<1> USE DEF HarnessInv, LogAgrees, On, Running, Success, Fail
<1>1. /\ tests \in Seq(Outcomes) /\ Len(tests) \in Nat /\ current \in Nat
      /\ retcode = -1 /\ verdict = "none" /\ tests' = tests
  BY TestHarnessAssumption
     DEF Guest, Boot, BeginTest, TestReturns, TestPanics, TestFaults, TestResets, Complete,
         exit_qemu, InTest
<1>2. CASE Boot
  <2>1. LogUpTo(0) = << >>
    BY DEF LogUpTo
  <2>2. LogLine(0 + 1) = <<"Running", 0>>
    BY DEF LogLine
  <2>3. log' = LogUpTo(0 + 1)
    BY <1>2, <2>1, <2>2, LogGrows DEF Boot, Log
  <2>4. QED BY <1>1, <1>2, <2>3 DEF Boot
<1>3. CASE BeginTest
  <2>1. PICK k \in Nat : k = 2 * current + 1
    BY <1>1
  <2>2. LogLine(k + 1) = <<"[RUNNING]", current + 1>>
    <3>1. (k + 1) % 2 = 0 /\ (k + 1) \div 2 = current + 1 /\ k + 1 # 1
      BY <1>1, <2>1
    <3>2. QED BY <3>1 DEF LogLine
  <2>3. log' = LogUpTo(k + 1)
    BY <1>3, <2>1, <2>2, LogGrows DEF BeginTest, Log
  <2>4. k + 1 = 2 * (current + 1)
    BY <1>1, <2>1
  <2>5. log' = LogUpTo(2 * current') /\ current' >= 1 /\ current' \in 0 .. Len(tests)
    BY <1>1, <1>3, <2>3, <2>4 DEF BeginTest, MoreTests
  <2>6. QED BY <1>1, <1>3, <2>5 DEF BeginTest
<1>4. CASE TestReturns
  <2>1. PICK k \in Nat : k = 2 * current
    BY <1>1
  <2>2. LogLine(k + 1) = <<"[PASS]", current>>
    <3>1. (k + 1) % 2 # 0 /\ (k + 1) \div 2 = current /\ k + 1 # 1
      BY <1>1, <1>4, <2>1 DEF TestReturns, InTest
    <3>2. QED BY <3>1 DEF LogLine
  <2>3. log' = LogUpTo(k + 1)
    BY <1>4, <2>1, <2>2, LogGrows DEF TestReturns, InTest, Log
  <2>4. QED BY <1>1, <1>4, <2>1, <2>3 DEF TestReturns, InTest
<1>5. CASE TestPanics
  BY <1>1, <1>5 DEF TestPanics, InTest, PanicCode
<1>6. CASE TestFaults
  BY <1>1, <1>6 DEF TestFaults, InTest
<1>7. CASE TestResets
  BY <1>1, <1>7 DEF TestResets, InTest
<1>8. CASE Complete
  <2>1. current = Len(tests)
    BY <1>1, <1>8 DEF Complete, MoreTests
  <2>2. log' = FullLog
    BY <1>8, <2>1 DEF Complete, Log, FullLog, LogUpTo
  <2>3. FullLog' = FullLog
    BY <1>1 DEF FullLog
  <2>4. QED BY <1>1, <1>8, <2>2, <2>3 DEF Complete
<1>9. CASE exit_qemu
  <2>1. FullLog' = FullLog
    BY <1>1 DEF FullLog
  <2>2. QED BY <1>1, <1>9, <2>1 DEF exit_qemu
<1>10. QED BY <1>2, <1>3, <1>4, <1>5, <1>6, <1>7, <1>8, <1>9 DEF Guest

(* Every step keeps the invariant. *)
LEMMA HarnessNextHolds == HarnessInv /\ [Next]_vars => HarnessInv'
<1> SUFFICES ASSUME HarnessInv, [Next]_vars PROVE HarnessInv'
  OBVIOUS
<1> USE DEF HarnessInv, LogAgrees, On, Running, Success, Fail
<1>1. CASE Guest
  BY <1>1, GuestKeeps
<1>2. CASE launch_qeme
  <2>1. FullLog' = FullLog
    BY <1>2 DEF launch_qeme, FullLog
  <2>2. Judgement(retcode)[1] \in {"PASS", "nothing", "FAIL"}
    BY DEF Judgement
  <2>3. Judgement(retcode) = <<Judgement(retcode)[1], Judgement(retcode)[2]>>
    BY DEF Judgement
  <2>4. QED BY <1>2, <2>1, <2>2, <2>3 DEF launch_qeme
<1>3. ASSUME NEW code \in {0, 1, 130}, Quit(code) PROVE HarnessInv'
  <2>1. FullLog' = FullLog
    BY <1>3 DEF Quit, FullLog
  <2>2. QED BY <1>3, <2>1 DEF Quit
<1>4. CASE UNCHANGED vars
  <2>1. /\ UNCHANGED <<tests, guest, current, log, exit_code, retcode, quit, verdict, status>>
        /\ FullLog' = FullLog /\ Judgement(retcode') = Judgement(retcode)
    BY <1>4 DEF vars, FullLog
  <2>2. QED BY <2>1
<1>5. QED BY <1>1, <1>2, <1>3, <1>4 DEF Next

(* The invariant holds in every state.                                     *)
THEOREM HarnessInvHolds == Spec => []HarnessInv
BY HarnessInitHolds, HarnessNextHolds, PTL DEF Spec

(* PASS is printed only after a full run.                                  *)
THEOREM PassMeansAllRanHolds == Spec => []PassMeansAllRan
<1>1. HarnessInv => PassMeansAllRan
  BY DEF HarnessInv, PassMeansAllRan, Judgement, Running, Success, Fail
<1>2. QED BY <1>1, HarnessInvHolds, PTL

(* The script's status is that of a success only after PASS, or when       *)
(* somebody has quit QEMU.                                                 *)
THEOREM FailureIsSeenHolds == Spec => []FailureIsSeen
<1>1. HarnessInv => FailureIsSeen
  BY DEF HarnessInv, FailureIsSeen, Judgement, Running, Success, Fail
<1>2. QED BY <1>1, HarnessInvHolds, PTL

-----------------------------------------------------------------------------
(* Sequences, joined one after another. *)

Regrouped(s, t, u) == (s \o t) \o u = s \o (t \o u)

(* It does not matter what is appended first. *)
LEMMA Regroup ==
  ASSUME NEW S, NEW s \in Seq(S), NEW t \in Seq(S), NEW u \in Seq(S)
  PROVE  Regrouped(s, t, u)
BY ConcatAssociative DEF Regrouped

(* One sequence after another. *)
Appended(s, t) ==
  /\ Len(s \o t) = Len(s) + Len(t)
  /\ \A i \in 1 .. Len(s) + Len(t) :
       (s \o t)[i] = IF i <= Len(s) THEN s[i] ELSE t[i - Len(s)]

(* What a sequence made of two has, and where.                             *)
LEMMA Concat ==
  ASSUME NEW S, NEW s \in Seq(S), NEW t \in Seq(S)
  PROVE  s \o t \in Seq(S) /\ Appended(s, t)
BY ConcatProperties DEF Appended

(* f[k] is the first k of the sequences in s, one after another. *)
Joins(f, s, n) == f = [i \in 1 .. n |-> IF i = 1 THEN s[i] ELSE f[i - 1] \o s[i]]

(* What f has at place i follows from what it has before it. *)
Follows(f, s, i) ==
  /\ i = 1 => f[i] = s[i]
  /\ i # 1 => f[i] = f[i - 1] \o s[i]

(* What Joins says of each place. *)
LEMMA JoinsAt ==
  ASSUME NEW n \in Nat, NEW f, NEW s, Joins(f, s, n), NEW i \in 1 .. n
  PROVE  Follows(f, s, i)
<1> DEFINE e(j) == IF j = 1 THEN s[j] ELSE f[j - 1] \o s[j]
<1>1. f = [j \in 1 .. n |-> e(j)]
  BY Zenon DEF Joins
<1> HIDE DEF e
<1>2. f[i] = e(i)
  BY <1>1, Zenon
<1>3. QED BY <1>2, Zenon DEF e, Follows

(* There is such a function for every number of sequences.                 *)
LEMMA JoinExists ==
  ASSUME NEW s, NEW n \in Nat
  PROVE  \E f : Joins(f, s, n)
<1> DEFINE Missing == {k \in 0 .. n : ~ \E f : Joins(f, s, k)}
<1>1. SUFFICES ASSUME n \in Missing PROVE FALSE
  OBVIOUS
<1>2. PICK k \in Missing : \A l \in Missing : k <= l
  <2>1. Missing \in SUBSET Nat
    OBVIOUS
  <2> HIDE DEF Missing
  <2>2. QED BY <1>1, <2>1, Least
<1>3. k \in 0 .. n /\ ~ \E f : Joins(f, s, k)
  OBVIOUS
<1>4. k # 0
  <2>1. ASSUME k = 0 PROVE FALSE
    <3> DEFINE none == [i \in 1 .. 0 |-> s[i]]
    <3>1. Joins(none, s, 0)
      <4>1. 1 .. 0 = {}
        OBVIOUS
      <4>2. QED BY <4>1 DEF Joins
    <3>2. QED BY <1>3, <2>1, <3>1
  <2>2. QED BY <2>1
<1>5. k - 1 \in 0 .. n /\ k - 1 \notin Missing
  <2>1. k - 1 \in 0 .. n /\ ~(k <= k - 1)
    BY <1>3, <1>4
  <2> HIDE DEF Missing
  <2>2. QED BY <1>2, <2>1
<1>6. PICK f : Joins(f, s, k - 1)
  BY <1>5
<1> DEFINE last == IF k = 1 THEN s[k] ELSE f[k - 1] \o s[k]
           g == [i \in 1 .. k |-> IF i = k THEN last ELSE f[i]]
<1>7. ASSUME NEW i \in 1 .. k
      PROVE  g[i] = IF i = 1 THEN s[i] ELSE g[i - 1] \o s[i]
  <2> HIDE DEF last
  <2>1. CASE i = 1 /\ k = 1
    BY <2>1 DEF last
  <2>2. CASE i # 1
    <3>1. i - 1 \in 1 .. k /\ i - 1 # k
      BY <1>3, <2>2
    <3>2. g[i - 1] = f[i - 1]
      BY <3>1, Zenon
    <3>3. CASE i = k
      BY <2>2, <3>2, <3>3 DEF last
    <3>4. CASE i # k
      <4>1. i \in 1 .. k - 1 /\ k - 1 \in Nat
        BY <1>3, <3>4
      <4>2. f[i] = f[i - 1] \o s[i]
        <5>1. Follows(f, s, i)
          BY <1>6, <4>1, JoinsAt, Zenon
        <5>2. QED BY <2>2, <5>1 DEF Follows
      <4>3. g[i] = f[i]
        BY <3>4
      <4>4. QED BY <2>2, <3>2, <4>2, <4>3, Zenon
    <3>5. QED BY <3>3, <3>4
  <2>3. CASE i = 1 /\ k # 1
    <3>1. i \in 1 .. k - 1 /\ k - 1 \in Nat
      BY <1>3, <2>3
    <3>2. f[i] = s[i]
      <4>1. Follows(f, s, i)
        BY <1>6, <3>1, JoinsAt, Zenon
      <4>2. QED BY <2>3, <4>1 DEF Follows
    <3>3. QED BY <2>3, <3>2
  <2>4. QED BY <2>1, <2>2, <2>3
<1>8. Joins(g, s, k)
  <2>1. g = [i \in 1 .. k |-> g[i]]
    OBVIOUS
  <2> HIDE DEF g
  <2>2. QED BY <1>7, <2>1, Zenon DEF Joins
<1>9. QED BY <1>3, <1>8

(* f and g agree up to place k. *)
Agree(f, g, k) == \A i \in 1 .. k : f[i] = g[i]

(* It depends on no more than the sequences that it joins.                 *)
LEMMA JoinsAgree ==
  ASSUME NEW n \in Nat, NEW m \in Nat, NEW k \in Nat, k <= n, k <= m,
         NEW f, NEW s, NEW g, NEW t, Joins(f, s, n), Joins(g, t, m),
         Agree(s, t, k)
  PROVE  Agree(f, g, k)
<1> USE DEF Agree
<1> DEFINE Differ == {i \in 1 .. k : f[i] # g[i]}
<1>1. SUFFICES ASSUME Differ # {} PROVE FALSE
  OBVIOUS
<1>2. PICK i \in Differ : \A j \in Differ : i <= j
  <2>1. Differ \in SUBSET Nat
    OBVIOUS
  <2> HIDE DEF Differ
  <2>2. QED BY <1>1, <2>1, Least
<1>3. i \in 1 .. k /\ i \in 1 .. n /\ i \in 1 .. m /\ f[i] # g[i] /\ s[i] = t[i]
  OBVIOUS
<1>4. Follows(f, s, i) /\ Follows(g, t, i)
  BY <1>3, JoinsAt, Zenon
<1>5. i # 1 /\ f[i - 1] # g[i - 1]
  <2>1. i # 1
    BY <1>3, <1>4, Zenon DEF Follows
  <2>2. QED BY <1>3, <1>4, <2>1, Zenon DEF Follows
<1>6. i - 1 \in 1 .. k /\ ~(i <= i - 1)
  BY <1>3, <1>5
<1>7. QED BY <1>2, <1>5, <1>6

(* Sequences joined are a sequence.                                        *)
LEMMA JoinsTyped ==
  ASSUME NEW S, NEW n \in Nat, NEW f, NEW s, Joins(f, s, n),
         \A i \in 1 .. n : s[i] \in Seq(S)
  PROVE  \A i \in 1 .. n : f[i] \in Seq(S)
<1> DEFINE Untyped == {i \in 1 .. n : f[i] \notin Seq(S)}
<1>1. SUFFICES ASSUME Untyped # {} PROVE FALSE
  OBVIOUS
<1>2. PICK i \in Untyped : \A j \in Untyped : i <= j
  <2>1. Untyped \in SUBSET Nat
    OBVIOUS
  <2> HIDE DEF Untyped
  <2>2. QED BY <1>1, <2>1, Least
<1>3. i \in 1 .. n /\ f[i] \notin Seq(S) /\ s[i] \in Seq(S)
  OBVIOUS
<1>4. Follows(f, s, i)
  BY <1>3, JoinsAt, Zenon
<1>5. i # 1
  BY <1>3, <1>4, Zenon DEF Follows
<1>6. i - 1 \in 1 .. n /\ ~(i <= i - 1)
  BY <1>3, <1>5
<1>7. f[i - 1] \in Seq(S)
  BY <1>2, <1>6
<1>8. f[i - 1] \o s[i] \in Seq(S)
  BY <1>3, <1>7, ConcatProperties, Zenon
<1>9. QED BY <1>3, <1>4, <1>5, <1>8, Zenon DEF Follows

(* FlattenSeq joins all of them.                                           *)
LEMMA FlattenJoins ==
  ASSUME NEW s, NEW n \in Nat \ {0}, Len(s) = n
  PROVE  \E f : Joins(f, s, n) /\ FlattenSeq(s) = f[n]
<1> DEFINE f == CHOOSE f : Joins(f, s, n)
<1>1. Joins(f, s, n)
  BY JoinExists, Zenon
<1>2. FlattenSeq(s) =
        (CHOOSE h : h = [i \in 1 .. n |-> IF i = 1 THEN s[i] ELSE h[i - 1] \o s[i]])[n]
  BY Zenon DEF FlattenSeq
<1>3. FlattenSeq(s) = f[n]
  BY <1>2, Zenon DEF Joins
<1> HIDE DEF f
<1>4. QED BY <1>1, <1>3

(* Nothing joined is nothing. *)
LEMMA FlattenNone == FlattenSeq(<< >>) = << >>
BY DEF FlattenSeq

(* s is t and one more sequence, and so are they when they are joined. *)
Ends(s, t, n) == FlattenSeq(s) = FlattenSeq(t) \o s[n]

(* FlattenSeq with one sequence more: it comes at the end.                 *)
LEMMA FlattenLast ==
  ASSUME NEW S, NEW n \in Nat \ {0}, NEW s \in Seq(Seq(S)), NEW t \in Seq(Seq(S)),
         Len(s) = n, Len(t) = n - 1, Agree(t, s, n - 1)
  PROVE  /\ FlattenSeq(t) \in Seq(S) /\ s[n] \in Seq(S)
         /\ Ends(s, t, n)
<1> USE DEF Ends
<1>1. PICK f : Joins(f, s, n) /\ FlattenSeq(s) = f[n]
  BY FlattenJoins
<1>2. \A i \in 1 .. n : s[i] \in Seq(S)
  BY ElementOfSeq
<1>3. n \in 1 .. n /\ s[n] \in Seq(S)
  BY <1>2
<1>4. Follows(f, s, n)
  BY <1>1, <1>3, n \in Nat, JoinsAt, Zenon
<1>5. CASE n = 1
  <2>1. t = << >>
    BY <1>5, EmptySeq
  <2>2. FlattenSeq(t) = << >> /\ << >> \in Seq(S)
    BY <2>1, FlattenNone
  <2>3. << >> \o s[n] = s[n]
    BY <1>3, ConcatEmptySeq, Zenon
  <2>4. QED BY <1>1, <1>3, <1>4, <1>5, <2>2, <2>3, Zenon DEF Follows
<1>6. CASE n # 1
  <2>1. n - 1 \in Nat \ {0} /\ n - 1 \in Nat /\ n - 1 <= n /\ n - 1 <= n - 1
        /\ n - 1 \in 1 .. n - 1
    BY <1>6
  <2>2. PICK g : Joins(g, t, n - 1) /\ FlattenSeq(t) = g[n - 1]
    BY <2>1, FlattenJoins
  <2>3. \A i \in 1 .. n - 1 : t[i] \in Seq(S)
    BY ElementOfSeq
  <2>4. g[n - 1] \in Seq(S)
    BY <2>1, <2>2, <2>3, JoinsTyped
  <2>5. g[n - 1] = f[n - 1]
    <3>1. n \in Nat
      OBVIOUS
    <3>2. Agree(g, f, n - 1)
      BY <1>1, <2>1, <2>2, <3>1, JoinsAgree, Zenon
    <3>3. QED BY <2>1, <3>2 DEF Agree
  <2>6. QED BY <1>1, <1>3, <1>4, <1>6, <2>1, <2>2, <2>4, <2>5, Zenon DEF Follows
<1>7. QED BY <1>5, <1>6

(* Sequences of S, joined. *)
LEMMA FlattenTyped ==
  ASSUME NEW S, NEW n \in Nat, NEW s \in Seq(Seq(S)), Len(s) = n
  PROVE  FlattenSeq(s) \in Seq(S)
<1>1. CASE n = 0
  <2>1. s = << >>
    BY <1>1, EmptySeq
  <2>2. FlattenSeq(s) = << >>
    BY <2>1, FlattenNone, Zenon
  <2>3. QED BY <2>2
<1>2. CASE n # 0
  <2>1. PICK f : Joins(f, s, n) /\ FlattenSeq(s) = f[n]
    BY <1>2, FlattenJoins
  <2>2. \A k \in 1 .. n : s[k] \in Seq(S)
    BY ElementOfSeq
  <2>3. \A k \in 1 .. n : f[k] \in Seq(S)
    BY <2>1, <2>2, JoinsTyped, Zenon
  <2>4. n \in 1 .. n
    BY <1>2
  <2>5. QED BY <2>1, <2>3, <2>4
<1>3. QED BY <1>1, <1>2

-----------------------------------------------------------------------------
(* The serial port. *)

PrintRecord ==
  [op : {"write_str", "send_str", "int3"}, port : Ports, text : Seq(Nat), sent : Nat]

Activity == [kind : {"program", "breakpoint", "exception", "panic"}, print : Nat, ready : BOOLEAN]

PrintsInv ==
  /\ prints \in Seq(PrintRecord)
  /\ \A k \in 1 .. Len(prints) : prints[k].sent <= Len(prints[k].text)

(* Only the newest print is ever gone on with. *)
CallsInv ==
  /\ calls \in Seq(Activity) /\ Len(calls) >= 1
  /\ Top.print \in {0, Len(prints)}
  /\ Top.kind = "program" => Len(calls) = 1
  /\ Top.kind = "breakpoint" =>
       Len(calls) = 2 /\ calls[1] = [kind |-> "program", print |-> 0, ready |-> FALSE]

PortsInv ==
  /\ thr \in [Ports -> Seq(Nat)] /\ line \in [Ports -> Seq(Nat)]
  /\ Top.ready => Printing /\ thr[PortOf(prints[Top.print])] = << >>

SerialInv ==
  pc \in 0 .. Len(Program) /\ PrintsInv /\ CallsInv /\ PortsInv /\ OutputInOrder

(* All that was sent to port p. *)
Sent(p) == FlattenSeq(Pieces(p))

(* A print is of known type. *)
LEMMA PrintTyped ==
  ASSUME PrintsInv, NEW k \in 1 .. Len(prints)
  PROVE  /\ prints[k] \in PrintRecord /\ Len(prints[k].text) \in Nat
         /\ PortOf(prints[k]) \in Ports /\ prints[k].sent \in 0 .. Len(prints[k].text)
<1>1. prints[k] \in PrintRecord
  BY ElementOfSeq DEF PrintsInv
<1>2. prints[k].text \in Seq(Nat)
  BY <1>1 DEF PrintRecord
<1>3. Len(prints[k].text) \in Nat
  BY <1>2, LenProperties
<1>4. QED BY <1>1, <1>3, SerialAssumption DEF PrintRecord, PortOf, PrintsInv

(* So are its bytes. *)
LEMMA SentBytesTyped ==
  ASSUME NEW print \in PrintRecord, print.sent <= Len(print.text)
  PROVE  /\ SentBytes(print) \in Seq(Nat) /\ Len(SentBytes(print)) = print.sent
         /\ \A k \in 1 .. print.sent : SentBytes(print)[k] = print.text[k] % BYTES
<1>1. print.text \in Seq(Nat) /\ print.sent \in Nat
  BY DEF PrintRecord
<1>2. Len(print.text) \in Nat
  BY <1>1, LenProperties
<1>3. ASSUME NEW k \in 1 .. print.sent PROVE print.text[k] % BYTES \in Nat
  <2>1. k \in 1 .. Len(print.text)
    BY <1>1, <1>2
  <2>2. print.text[k] \in Nat
    BY <1>1, <2>1, ElementOfSeq
  <2>3. QED BY <2>2, SerialAssumption
<1>4. QED BY <1>1, <1>3 DEF SentBytes

(* Each print has its piece of what was sent to p. *)
PiecesOf(p, n) ==
  /\ Pieces(p) \in Seq(Seq(Nat)) /\ Len(Pieces(p)) = n
  /\ \A k \in 1 .. n :
       Pieces(p)[k] = IF PortOf(prints[k]) = p THEN SentBytes(prints[k]) ELSE << >>

PiecesInv == \A p \in Ports : PiecesOf(p, Len(prints))

(* What was sent to a port, print by print, from what is known of prints.  *)
LEMMA PiecesTyped == PrintsInv => PiecesInv
<1> SUFFICES ASSUME PrintsInv, NEW p \in Ports PROVE PiecesOf(p, Len(prints))
  BY DEF PiecesInv
<1>1. Len(prints) \in Nat /\ DOMAIN prints = 1 .. Len(prints)
  BY LenProperties DEF PrintsInv
<1>2. ASSUME NEW k \in 1 .. Len(prints)
      PROVE  (IF PortOf(prints[k]) = p THEN SentBytes(prints[k]) ELSE << >>) \in Seq(Nat)
  <2>1. SentBytes(prints[k]) \in Seq(Nat)
    BY PrintTyped, SentBytesTyped
  <2>2. QED BY <2>1
<1> DEFINE piece(k) == IF PortOf(prints[k]) = p THEN SentBytes(prints[k]) ELSE << >>
<1>3. Pieces(p) = [k \in 1 .. Len(prints) |-> piece(k)]
  BY <1>1, Zenon DEF Pieces
<1>4. \A k \in 1 .. Len(prints) : piece(k) \in Seq(Nat)
  BY <1>2
<1> HIDE DEF piece
<1>5. /\ Pieces(p) \in Seq(Seq(Nat)) /\ Len(Pieces(p)) = Len(prints)
      /\ \A k \in 1 .. Len(prints) : Pieces(p)[k] = piece(k)
  BY <1>1, <1>3, <1>4
<1>6. QED BY <1>5 DEF piece, PiecesOf

(* What was sent is a sequence of bytes. *)
LEMMA SentTyped ==
  ASSUME PrintsInv, NEW p \in Ports
  PROVE  Sent(p) \in Seq(Nat)
<1> DEFINE s == Pieces(p)  n == Len(prints)
<1>1. s \in Seq(Seq(Nat)) /\ Len(s) = n /\ n \in Nat
  BY PiecesTyped, LenProperties DEF PiecesInv, PiecesOf, PrintsInv
<1> HIDE DEF s, n
<1>2. CASE n = 0
  <2>1. s = << >>
    BY <1>1, <1>2, EmptySeq
  <2>2. Sent(p) = << >>
    BY <2>1, FlattenNone, Zenon DEF s, Sent
  <2>3. QED BY <2>2
<1>3. CASE n # 0
  <2>1. PICK f : Joins(f, s, n) /\ FlattenSeq(s) = f[n]
    BY <1>1, <1>3, FlattenJoins
  <2>2. \A k \in 1 .. n : s[k] \in Seq(Nat)
    BY <1>1, ElementOfSeq
  <2>3. f[n] \in Seq(Nat)
    <3>1. \A k \in 1 .. n : f[k] \in Seq(Nat)
      BY <1>1, <2>1, <2>2, JoinsTyped, Zenon
    <3>2. n \in 1 .. n
      BY <1>1, <1>3
    <3>3. QED BY <3>1, <3>2
  <2>4. QED BY <2>1, <2>3 DEF s, Sent
<1>4. QED BY <1>2, <1>3

(* The byte c is the newest that was sent to port q. *)
SentOneMore(q, c) == \A p \in Ports : Sent(p)' = IF p = q THEN Sent(p) \o <<c>> ELSE Sent(p)

SentAsBefore == \A p \in Ports : Sent(p)' = Sent(p)

(* A new print has sent nothing.                                           *)
LEMMA NewPrintSends ==
  ASSUME PrintsInv, NEW op \in {"write_str", "send_str", "int3"}, NEW port \in Ports,
         NEW text \in Seq(Nat), prints' = NewPrint(op, port, text)
  PROVE  PrintsInv' /\ Len(prints') = Len(prints) + 1 /\ SentAsBefore
<1> DEFINE n == Len(prints) + 1
           new == [op |-> op, port |-> port, text |-> text, sent |-> 0]
<1>1. new \in PrintRecord /\ Len(text) \in Nat
  BY LenProperties DEF PrintRecord
<1>2. prints \in Seq(PrintRecord) /\ Len(prints) \in Nat
  BY LenProperties DEF PrintsInv
<1>3. /\ prints' \in Seq(PrintRecord) /\ Len(prints') = n /\ prints'[n] = new
      /\ \A k \in 1 .. Len(prints) : prints'[k] = prints[k]
  <2>1. prints' = Append(prints, new)
    BY DEF NewPrint
  <2> HIDE DEF new
  <2>2. QED BY <1>1, <1>2, <2>1, AppendProperties
<1>4. PrintsInv'
  BY <1>1, <1>2, <1>3 DEF PrintsInv
<1>5. ASSUME NEW p \in Ports PROVE Sent(p)' = Sent(p)
  <2> DEFINE s == Pieces(p)'  t == Pieces(p)
  <2>1. /\ t \in Seq(Seq(Nat)) /\ Len(t) = Len(prints)
        /\ \A k \in 1 .. Len(prints) :
             t[k] = IF PortOf(prints[k]) = p THEN SentBytes(prints[k]) ELSE << >>
    BY PiecesTyped DEF PiecesInv, PiecesOf
  <2>2. /\ s \in Seq(Seq(Nat)) /\ Len(s) = Len(prints')
        /\ \A k \in 1 .. Len(prints') :
             s[k] = IF PortOf(prints'[k]) = p THEN SentBytes(prints'[k]) ELSE << >>
    <3>1. PiecesInv'
      BY <1>4, PiecesTyped, PTL
    <3>2. QED BY <3>1 DEF PiecesInv, PiecesOf
  <2> HIDE DEF s, t
  <2>3. n \in Nat \ {0} /\ n \in 1 .. n /\ n - 1 = Len(prints)
    BY <1>2
  <2>4. ASSUME NEW k \in 1 .. n - 1 PROVE t[k] = s[k]
    <3>1. k \in 1 .. Len(prints) /\ k \in 1 .. Len(prints')
      BY <1>2, <1>3
    <3>2. prints'[k] = prints[k]
      BY <1>3, <3>1
    <3>3. t[k] = IF PortOf(prints[k]) = p THEN SentBytes(prints[k]) ELSE << >>
      BY <2>1, <3>1
    <3>4. s[k] = IF PortOf(prints'[k]) = p THEN SentBytes(prints'[k]) ELSE << >>
      BY <2>2, <3>1
    <3>5. QED BY <3>2, <3>3, <3>4, Zenon
  <2>5. s[n] = << >>
    <3>1. SentBytes(new) = << >>
      BY DEF SentBytes
    <3>2. s[n] = IF PortOf(new) = p THEN SentBytes(new) ELSE << >>
      BY <1>3, <2>2, <2>3, Zenon
    <3>3. QED BY <3>1, <3>2
  <2>6. FlattenSeq(t) \in Seq(Nat) /\ FlattenSeq(s) = FlattenSeq(t) \o s[n]
    <3>1. Len(s) = n /\ Len(t) = n - 1
      BY <1>3, <2>1, <2>2, <2>3
    <3> HIDE DEF n
    <3>3. Agree(t, s, n - 1)
      BY <2>4, Zenon DEF Agree
    <3>2. s \in Seq(Seq(Nat)) /\ t \in Seq(Seq(Nat)) /\ n \in Nat \ {0}
      BY <2>1, <2>2, <2>3, Zenon
    <3>4. FlattenSeq(t) \in Seq(Nat) /\ Ends(s, t, n)
      BY ONLY <3>1, <3>2, <3>3, FlattenLast, Zenon
    <3>5. QED BY <3>4 DEF Ends
  <2>7. FlattenSeq(s) = FlattenSeq(t)
    BY <2>5, <2>6, ConcatEmptySeq, Zenon
  <2>8. QED BY <2>7 DEF s, t, Sent
<1>6. QED BY <1>3, <1>4, <1>5 DEF SentAsBefore

(* The newest print sends its next byte.                                   *)
LEMMA WriteSends ==
  ASSUME PrintsInv, NEW n \in Nat, n = Len(prints), n # 0,
         prints[n].sent < Len(prints[n].text),
         prints' = [prints EXCEPT ![n].sent = @ + 1]
  PROVE  /\ PrintsInv' /\ Len(prints') = n
         /\ as_u8(prints[n].text[prints[n].sent + 1]) \in Nat
         /\ SentOneMore(PortOf(prints[n]), as_u8(prints[n].text[prints[n].sent + 1]))
<1> DEFINE old == prints[n]
           new == [old EXCEPT !.sent = @ + 1]
           byte == as_u8(old.text[old.sent + 1])
<1>1. /\ prints \in Seq(PrintRecord) /\ n \in 1 .. n /\ n \in 1 .. Len(prints)
      /\ DOMAIN prints = 1 .. n
  BY LenProperties DEF PrintsInv
<1>2. old \in PrintRecord /\ old.sent \in Nat /\ Len(old.text) \in Nat /\ old.text \in Seq(Nat)
  BY <1>1, PrintTyped DEF PrintRecord
<1>3. /\ new \in PrintRecord /\ new.sent = old.sent + 1 /\ new.text = old.text
      /\ PortOf(new) = PortOf(old)
  <2> HIDE DEF old
  <2>1. /\ new.sent = old.sent + 1 /\ new.text = old.text
        /\ new.op = old.op /\ new.port = old.port /\ new \in PrintRecord
    <3>1. PICK k \in Nat : k = old.sent + 1
      BY <1>2
    <3>2. new = [old EXCEPT !.sent = k]
      BY <3>1, Zenon
    <3> HIDE DEF new
    <3>3. QED BY <1>2, <3>1, <3>2 DEF PrintRecord
  <2> HIDE DEF new
  <2>2. QED BY <2>1, Zenon DEF PortOf
<1>4. /\ prints' \in Seq(PrintRecord) /\ Len(prints') = n /\ prints'[n] = new
      /\ \A k \in 1 .. n : k # n => prints'[k] = prints[k]
  <2>1. prints' = [prints EXCEPT ![n] = new]
    OBVIOUS
  <2> HIDE DEF new, old
  <2>2. prints' \in Seq(PrintRecord) /\ Len(prints') = Len(prints)
    BY <1>1, <1>3, <2>1
  <2>3. prints'[n] = new /\ \A k \in 1 .. n : k # n => prints'[k] = prints[k]
    BY <1>1, <2>1
  <2>4. QED BY <2>2, <2>3
<1>5. old.sent + 1 \in 1 .. Len(old.text) /\ old.sent + 1 <= Len(old.text)
  BY <1>2
<1>6. byte \in Nat
  <2>1. old.text[old.sent + 1] \in Nat
    BY <1>2, <1>5, ElementOfSeq, Zenon
  <2>2. QED BY <2>1, SerialAssumption DEF as_u8
<1> HIDE DEF new, old, byte
<1>7. PrintsInv'
  <2>1. ASSUME NEW k \in 1 .. n PROVE prints'[k].sent <= Len(prints'[k].text)
    <3>1. CASE k = n
      BY <1>3, <1>4, <1>5, <3>1
    <3>2. CASE k # n
      BY <1>4, <3>2 DEF PrintsInv
    <3>3. QED BY <3>1, <3>2
  <2>2. QED BY <1>4, <2>1 DEF PrintsInv
<1>8. SentBytes(new) = SentBytes(old) \o <<byte>>
  <2>1. /\ SentBytes(old) \in Seq(Nat) /\ Len(SentBytes(old)) = old.sent
        /\ \A k \in 1 .. old.sent : SentBytes(old)[k] = old.text[k] % BYTES
    BY <1>1, <1>2, PrintTyped, SentBytesTyped DEF old
  <2>2. /\ SentBytes(new) \in Seq(Nat) /\ Len(SentBytes(new)) = old.sent + 1
        /\ \A k \in 1 .. old.sent + 1 : SentBytes(new)[k] = old.text[k] % BYTES
    BY <1>3, <1>5, SentBytesTyped
  <2>3. byte = old.text[old.sent + 1] % BYTES
    BY DEF byte, as_u8
  <2> DEFINE s == SentBytes(old)  t == SentBytes(new)
  <2>4. /\ Append(s, byte) \in Seq(Nat) /\ Len(Append(s, byte)) = Len(s) + 1
        /\ Append(s, byte)[Len(s) + 1] = byte /\ Append(s, byte) = s \o <<byte>>
        /\ \A k \in 1 .. Len(s) : Append(s, byte)[k] = s[k]
    <3>1. s \in Seq(Nat)
      BY <2>1
    <3> HIDE DEF s
    <3>2. Append(s, byte) = s \o <<byte>>
      BY <1>6, <3>1, AppendIsConcat
    <3>3. QED BY <1>6, <3>1, <3>2, AppendProperties
  <2>5. ASSUME NEW k \in 1 .. old.sent + 1 PROVE t[k] = Append(s, byte)[k]
    <3>1. CASE k = old.sent + 1
      <4>1. t[k] = old.text[k] % BYTES
        BY <2>2
      <4>2. k = Len(s) + 1
        BY <2>1, <3>1
      <4>3. QED BY <2>3, <2>4, <3>1, <4>1, <4>2, Zenon
    <3>2. CASE k \in 1 .. old.sent
      BY <2>1, <2>2, <2>4, <3>2, Zenon
    <3>3. k = old.sent + 1 \/ k \in 1 .. old.sent
      BY <1>2
    <3>4. QED BY <3>1, <3>2, <3>3, Zenon
  <2>6. t = Append(s, byte)
    <3>1. Len(t) = Len(Append(s, byte)) /\ \A k \in 1 .. Len(t) : t[k] = Append(s, byte)[k]
      BY <2>1, <2>2, <2>4, <2>5
    <3>2. QED BY <2>2, <2>4, <3>1, SeqEqual, Zenon
  <2>7. QED BY <2>4, <2>6
<1>9. ASSUME NEW p \in Ports
      PROVE  Sent(p)' = IF p = PortOf(old) THEN Sent(p) \o <<byte>> ELSE Sent(p)
  <2> DEFINE s == Pieces(p)'  t == Pieces(p)
             r == [k \in 1 .. n - 1 |-> t[k]]
  <2>1. /\ t \in Seq(Seq(Nat)) /\ Len(t) = n
        /\ \A k \in 1 .. n :
             t[k] = IF PortOf(prints[k]) = p THEN SentBytes(prints[k]) ELSE << >>
    BY PiecesTyped DEF PiecesInv, PiecesOf
  <2>2. /\ s \in Seq(Seq(Nat)) /\ Len(s) = n
        /\ \A k \in 1 .. n :
             s[k] = IF PortOf(prints'[k]) = p THEN SentBytes(prints'[k]) ELSE << >>
    <3>1. PiecesInv'
      BY <1>7, PiecesTyped, PTL
    <3>2. QED BY <1>4, <3>1 DEF PiecesInv, PiecesOf
  <2> HIDE DEF s, t
  <2>3. n \in Nat \ {0} /\ n - 1 \in Nat
    BY <1>1
  <2>4. r \in Seq(Seq(Nat)) /\ Len(r) = n - 1 /\ \A k \in 1 .. n - 1 : r[k] = t[k]
    <3>1. \A k \in 1 .. n - 1 : t[k] \in Seq(Nat)
      BY <2>1, <2>3, ElementOfSeq
    <3>2. QED BY <2>3, <3>1
  <2>5. Agree(r, t, n - 1) /\ Agree(r, s, n - 1)
    <3>1. ASSUME NEW k \in 1 .. n - 1 PROVE r[k] = s[k]
      <4>1. k \in 1 .. n /\ k # n
        BY <2>3
      <4>2. t[k] = s[k]
        BY <1>4, <2>1, <2>2, <4>1, Zenon
      <4>3. QED BY <2>4, <4>2
    <3>2. QED BY <2>4, <3>1, Zenon DEF Agree
  <2> HIDE DEF r
  <2>6. /\ FlattenSeq(r) \in Seq(Nat) /\ t[n] \in Seq(Nat)
        /\ FlattenSeq(t) = FlattenSeq(r) \o t[n] /\ FlattenSeq(s) = FlattenSeq(r) \o s[n]
    <3>1. FlattenSeq(r) \in Seq(Nat) /\ t[n] \in Seq(Nat) /\ Ends(t, r, n)
      BY <2>1, <2>3, <2>4, <2>5, FlattenLast, Zenon
    <3>2. Ends(s, r, n)
      BY <2>2, <2>3, <2>4, <2>5, FlattenLast, Zenon
    <3>3. QED BY <3>1, <3>2, Zenon DEF Ends
  <2>7. /\ t[n] = IF PortOf(old) = p THEN SentBytes(old) ELSE << >>
        /\ s[n] = IF PortOf(old) = p THEN SentBytes(new) ELSE << >>
    BY <1>1, <1>3, <1>4, <2>1, <2>2, Zenon DEF old
  <2>8. CASE p = PortOf(old)
    <3>1. s[n] = t[n] \o <<byte>>
      BY <1>8, <2>7, <2>8, Zenon
    <3>2. FlattenSeq(s) = FlattenSeq(t) \o <<byte>>
      <4>1. <<byte>> \in Seq(Nat)
        BY <1>6
      <4>2. (FlattenSeq(r) \o t[n]) \o <<byte>> = FlattenSeq(r) \o (t[n] \o <<byte>>)
        <5>1. Regrouped(FlattenSeq(r), t[n], <<byte>>)
          BY <2>6, <4>1, Regroup, Zenon
        <5>2. QED BY <5>1, Zenon DEF Regrouped
      <4>3. QED BY <2>6, <3>1, <4>2, Zenon
    <3>3. QED BY <2>8, <3>2 DEF s, t, Sent
  <2>9. CASE p # PortOf(old)
    BY <2>6, <2>7, <2>9 DEF s, t, Sent
  <2>10. QED BY <2>8, <2>9
<1>10. QED BY <1>4, <1>6, <1>7, <1>9 DEF SentOneMore, old, byte

(* The innermost activity is a last element. *)
LEMMA TopTyped ==
  ASSUME CallsInv
  PROVE  /\ Len(calls) \in Nat \ {0} /\ Top = calls[Len(calls)] /\ Top \in Activity
         /\ \A k \in 1 .. Len(calls) : calls[k] \in Activity
<1>1. Len(calls) \in Nat \ {0}
  BY LenProperties DEF CallsInv
<1>2. \A k \in 1 .. Len(calls) : calls[k] \in Activity
  BY ElementOfSeq DEF CallsInv
<1>3. Top = calls[Len(calls)]
  BY Zenon DEF Top, Last
<1>4. QED BY <1>1, <1>2, <1>3

(* An activity begins, goes on, and ends.                                  *)
LEMMA Pushes ==
  ASSUME CallsInv, NEW a \in Activity, calls' = Append(calls, a)
  PROVE  /\ calls' \in Seq(Activity) /\ Len(calls') = Len(calls) + 1 /\ Len(calls') >= 1
         /\ Top' = a /\ calls'[1] = calls[1]
<1>1. Len(calls) \in Nat \ {0}
  BY TopTyped
<1>2. /\ calls' \in Seq(Activity) /\ Len(calls') = Len(calls) + 1
      /\ calls'[Len(calls) + 1] = a /\ \A k \in 1 .. Len(calls) : calls'[k] = calls[k]
  BY AppendProperties DEF CallsInv
<1>3. Top' = calls'[Len(calls')]
  BY Zenon DEF Top, Last
<1>4. QED BY <1>1, <1>2, <1>3

(* Front keeps all but the last. *)
LEMMA Fronts ==
  ASSUME CallsInv
  PROVE  /\ Front(calls) \in Seq(Activity) /\ Len(Front(calls)) = Len(calls) - 1
         /\ \A k \in 1 .. Len(calls) - 1 : Front(calls)[k] = calls[k]
<1>1. Len(calls) \in Nat \ {0} /\ calls \in Seq(Activity)
  BY TopTyped DEF CallsInv
<1>2. Front(calls) = [k \in 1 .. Len(calls) - 1 |-> calls[k]]
  BY <1>1 DEF Front
<1>3. \A k \in 1 .. Len(calls) - 1 : calls[k] \in Activity
  BY TopTyped, <1>1
<1>4. Len(calls) - 1 \in Nat
  BY <1>1
<1> DEFINE n == Len(calls) - 1
<1>5. Front(calls) \in Seq(Activity) /\ Len(Front(calls)) = n
  <2> HIDE DEF n
  <2>1. \A k \in 1 .. n : calls[k] \in Activity
    BY <1>3 DEF n
  <2>2. Front(calls) = [k \in 1 .. n |-> calls[k]] /\ n \in Nat
    BY <1>2, <1>4 DEF n
  <2>3. QED BY <2>1, <2>2
<1>6. QED BY <1>2, <1>5

(* The innermost activity alone changes when the kernel goes on with it.   *)
LEMMA Continues ==
  ASSUME CallsInv, NEW a \in Activity, Continue(a)
  PROVE  /\ calls' \in Seq(Activity) /\ Len(calls') = Len(calls) /\ Len(calls') >= 1
         /\ Top' = a /\ (Len(calls) # 1 => calls'[1] = calls[1])
<1> DEFINE f == Front(calls)
<1>1. Len(calls) \in Nat \ {0}
  BY TopTyped
<1>2. /\ f \in Seq(Activity) /\ Len(f) = Len(calls) - 1
      /\ \A k \in 1 .. Len(calls) - 1 : f[k] = calls[k]
  BY Fronts
<1>3. calls' = Append(f, a)
  BY DEF Continue
<1> HIDE DEF f
<1>4. /\ calls' \in Seq(Activity) /\ Len(calls') = Len(f) + 1
      /\ calls'[Len(f) + 1] = a /\ \A k \in 1 .. Len(f) : calls'[k] = f[k]
  BY <1>2, <1>3, AppendProperties
<1>5. Top' = calls'[Len(calls')]
  BY Zenon DEF Top, Last
<1>6. Len(calls) # 1 => calls'[1] = calls[1]
  <2>1. Len(calls) # 1 => 1 \in 1 .. Len(f) /\ 1 \in 1 .. Len(calls) - 1
    BY <1>1, <1>2
  <2>2. QED BY <1>2, <1>4, <2>1
<1>7. Len(calls') = Len(calls) /\ Len(calls') = Len(f) + 1
  BY <1>1, <1>2, <1>4
<1>8. QED BY <1>1, <1>4, <1>5, <1>6, <1>7

(* When a breakpoint returns, the program is left, between two prints.     *)
LEMMA Returns ==
  ASSUME CallsInv, Top.kind = "breakpoint", calls' = Front(calls)
  PROVE  /\ calls' \in Seq(Activity) /\ Len(calls') = 1
         /\ Top' = [kind |-> "program", print |-> 0, ready |-> FALSE]
<1>1. Len(calls) = 2 /\ calls[1] = [kind |-> "program", print |-> 0, ready |-> FALSE]
  BY DEF CallsInv
<1>2. calls' \in Seq(Activity) /\ Len(calls') = 1 /\ calls'[1] = calls[1]
  BY <1>1, Fronts
<1>3. Top' = calls'[Len(calls')]
  BY Zenon DEF Top, Last
<1>4. QED BY <1>1, <1>2, <1>3

(* A step that begins a print, and one that prints nothing.                *)
LEMMA BeginningKeeps ==
  ASSUME PrintsInv, PortsInv, OutputInOrder,
         NEW op \in {"write_str", "send_str", "int3"}, NEW port \in Ports,
         NEW text \in Seq(Nat), prints' = NewPrint(op, port, text),
         UNCHANGED <<thr, line>>, Top'.ready = FALSE
  PROVE  PrintsInv' /\ PortsInv' /\ OutputInOrder' /\ Len(prints') = Len(prints) + 1
<1>1. PrintsInv' /\ Len(prints') = Len(prints) + 1 /\ SentAsBefore
  BY NewPrintSends
<1>2. PortsInv'
  BY DEF PortsInv
<1>3. ASSUME NEW p \in Ports PROVE InOrder(p)'
  <2>1. Sent(p)' = Sent(p) /\ InOrder(p)
    BY <1>1 DEF SentAsBefore, OutputInOrder
  <2>2. QED BY <2>1, Zenon DEF InOrder, Sent
<1>4. QED BY <1>1, <1>2, <1>3 DEF OutputInOrder

(* A step that sends nothing and is not ready to keeps what was sent.      *)
LEMMA QuietKeeps ==
  ASSUME PrintsInv, PortsInv, OutputInOrder, UNCHANGED <<prints, thr, line>>,
         Top'.ready = FALSE
  PROVE  PrintsInv' /\ PortsInv' /\ OutputInOrder'
<1>1. PrintsInv'
  BY DEF PrintsInv
<1>2. PortsInv'
  BY DEF PortsInv
<1>3. ASSUME NEW p \in Ports PROVE InOrder(p)'
  BY DEF OutputInOrder, InOrder, Pieces
<1>4. QED BY <1>1, <1>2, <1>3 DEF OutputInOrder

(* Between two prints nothing waits to be written. *)
LEMMA IdleUnready ==
  ASSUME CallsInv, PortsInv, ~Printing
  PROVE  Top.ready = FALSE
BY TopTyped DEF PortsInv, Activity

(* The program goes on to its next print. *)
LEMMA BeginPrintKeeps == SerialInv /\ BeginPrint => SerialInv'
<1> SUFFICES ASSUME SerialInv, BeginPrint PROVE SerialInv'
  OBVIOUS
<1> USE DEF SerialInv
<1> DEFINE a == [Top EXCEPT !.print = Len(prints) + 1]
<1>1. Len(prints) \in Nat /\ Top \in Activity /\ Len(calls) \in Nat \ {0}
  BY TopTyped, LenProperties DEF PrintsInv
<1>2. pc + 1 \in 1 .. Len(Program) /\ pc' \in 0 .. Len(Program)
  BY SerialAssumption DEF BeginPrint
<1>3. /\ Program[pc + 1].op \in {"write_str", "send_str", "int3"}
      /\ Program[pc + 1].port \in Ports /\ Program[pc + 1].text \in Seq(Nat)
  <2> DEFINE Statement ==
        [op : {"write_str", "send_str", "int3"}, port : Ports, text : Seq(Nat)]
  <2>1. Program \in Seq(Statement)
    BY SerialAssumption
  <2> HIDE DEF Statement
  <2>2. Program[pc + 1] \in Statement
    BY <1>2, <2>1, ElementOfSeq, Zenon
  <2>3. QED BY <2>2 DEF Statement
<1>4. Top.ready = FALSE
  BY IdleUnready DEF BeginPrint, Printing
<1>5. /\ a \in Activity /\ a.print = Len(prints) + 1 /\ a.ready = FALSE
      /\ a.kind = "program"
  BY <1>1, <1>4 DEF Activity, BeginPrint
<1>6. /\ calls' \in Seq(Activity) /\ Len(calls') = Len(calls) /\ Len(calls') >= 1
      /\ Top' = a
  BY <1>5, Continues DEF BeginPrint
<1> HIDE DEF a
<1>7. PrintsInv' /\ PortsInv' /\ OutputInOrder' /\ Len(prints') = Len(prints) + 1
  BY <1>3, <1>5, <1>6, BeginningKeeps DEF BeginPrint
<1>8. CallsInv'
  BY <1>5, <1>6, <1>7 DEF CallsInv, BeginPrint
<1>9. QED BY <1>2, <1>7, <1>8

(* An exception, a breakpoint or a panic: its report comes on top.         *)
LEMMA ReportKeeps ==
  ASSUME SerialInv, pc' \in 0 .. Len(Program), prints' = PrintReport,
         NEW kind \in {"breakpoint", "exception", "panic"},
         calls' = Append(calls, [kind |-> kind, print |-> Len(prints) + 1, ready |-> FALSE]),
         kind = "breakpoint" => Top.kind = "program" /\ Top.print = 0,
         UNCHANGED <<thr, line>>
  PROVE  SerialInv'
<1> USE DEF SerialInv
<1> DEFINE a == [kind |-> kind, print |-> Len(prints) + 1, ready |-> FALSE]
<1>1. Len(prints) \in Nat /\ Top \in Activity /\ Len(calls) \in Nat \ {0}
  BY TopTyped, LenProperties DEF PrintsInv
<1>2. /\ a \in Activity /\ a.print = Len(prints) + 1 /\ a.ready = FALSE
      /\ a.kind = kind
  BY <1>1 DEF Activity
<1>3. /\ calls' \in Seq(Activity) /\ Len(calls') = Len(calls) + 1 /\ Len(calls') >= 1
      /\ Top' = a /\ calls'[1] = calls[1]
  BY <1>2, Pushes
<1> HIDE DEF a
<1>4. PrintsInv' /\ PortsInv' /\ OutputInOrder' /\ Len(prints') = Len(prints) + 1
  <2>1. prints' = NewPrint("write_str", COM1, Report)
    BY DEF PrintReport
  <2>2. QED BY <1>2, <1>3, <2>1, SerialAssumption, BeginningKeeps
<1>5. kind = "breakpoint" =>
        Len(calls') = 2 /\ calls'[1] = [kind |-> "program", print |-> 0, ready |-> FALSE]
  <2> SUFFICES ASSUME kind = "breakpoint"
               PROVE  Len(calls') = 2
                      /\ calls'[1] = [kind |-> "program", print |-> 0, ready |-> FALSE]
    OBVIOUS
  <2>1. Len(calls) = 1 /\ Top = calls[1]
    BY TopTyped DEF CallsInv
  <2>2. Top.ready = FALSE
    BY IdleUnready DEF Printing
  <2>3. Top = [kind |-> "program", print |-> 0, ready |-> FALSE]
    BY <1>1, <2>2 DEF Activity
  <2>4. QED BY <1>3, <2>1, <2>3
<1>6. CallsInv'
  BY <1>2, <1>3, <1>4, <1>5 DEF CallsInv
<1>7. QED BY <1>4, <1>6

(* The register is found empty. *)
LEMMA PollKeeps == SerialInv /\ Poll => SerialInv'
<1> SUFFICES ASSUME SerialInv, Poll PROVE SerialInv'
  OBVIOUS
<1> USE DEF SerialInv
<1> DEFINE a == [Top EXCEPT !.ready = TRUE]
<1>1. Len(prints) \in Nat /\ Top \in Activity /\ Len(calls) \in Nat \ {0}
  BY TopTyped, LenProperties DEF PrintsInv
<1>2. a \in Activity /\ a.print = Top.print /\ a.kind = Top.kind
  BY <1>1 DEF Activity
<1>3. /\ calls' \in Seq(Activity) /\ Len(calls') = Len(calls) /\ Len(calls') >= 1
      /\ Top' = a /\ (Len(calls) # 1 => calls'[1] = calls[1])
  BY <1>2, Continues DEF Poll
<1> HIDE DEF a
<1>4. UNCHANGED <<pc, prints, thr, line>> /\ Printing /\ thr[PortOf(prints[Top.print])] = << >>
  BY DEF Poll, TransmitEmpty
<1>5. PrintsInv' /\ OutputInOrder'
  BY <1>4 DEF PrintsInv, OutputInOrder, InOrder, Pieces
<1>6. CallsInv'
  BY <1>2, <1>3, <1>4 DEF CallsInv
<1>7. PortsInv'
  BY <1>2, <1>3, <1>4 DEF PortsInv, Printing
<1>8. QED BY <1>4, <1>5, <1>6, <1>7

(* The byte is written into the register, which is still empty.            *)
LEMMA WriteKeeps == SerialInv /\ Write => SerialInv'
<1> SUFFICES ASSUME SerialInv, Write PROVE SerialInv'
  OBVIOUS
<1> USE DEF SerialInv
<1> DEFINE a == [Top EXCEPT !.ready = FALSE]
           n == Len(prints)
           q == PortOf(prints[n])
           byte == as_u8(prints[n].text[prints[n].sent + 1])
<1>1. Len(prints) \in Nat /\ Top \in Activity /\ Len(calls) \in Nat \ {0}
  BY TopTyped, LenProperties DEF PrintsInv
<1>2. a \in Activity /\ a.print = Top.print /\ a.kind = Top.kind /\ a.ready = FALSE
  BY <1>1 DEF Activity
<1>3. /\ calls' \in Seq(Activity) /\ Len(calls') = Len(calls) /\ Len(calls') >= 1
      /\ Top' = a /\ (Len(calls) # 1 => calls'[1] = calls[1])
  BY <1>2, Continues DEF Write
<1> HIDE DEF a
<1>4. Top.print = n /\ n # 0 /\ prints[n].sent < Len(prints[n].text)
  BY DEF Write, Printing, CallsInv
<1>5. /\ prints' = [prints EXCEPT ![n].sent = @ + 1] /\ thr[q] = << >>
      /\ thr' = [thr EXCEPT ![q] = <<byte>>] /\ UNCHANGED <<pc, line>>
  BY <1>4 DEF Write, PortsInv
<1>6. q \in Ports
  BY <1>1, <1>4, PrintTyped
<1>7. /\ PrintsInv' /\ Len(prints') = n /\ byte \in Nat /\ SentOneMore(q, byte)
  BY <1>1, <1>4, <1>5, WriteSends
<1> HIDE DEF byte, q, n
<1>8. CallsInv'
  <2>1. Len(prints') = Len(prints)
    BY <1>7 DEF n
  <2>2. Top'.print \in {0, Len(prints')}
    BY <1>2, <1>3, <2>1 DEF CallsInv
  <2>3. /\ Top'.kind = "program" => Len(calls') = 1
        /\ Top'.kind = "breakpoint" =>
              Len(calls') = 2 /\ calls'[1] = [kind |-> "program", print |-> 0, ready |-> FALSE]
    BY <1>2, <1>3 DEF CallsInv
  <2>4. QED BY <1>3, <2>2, <2>3 DEF CallsInv
<1>9. thr' \in [Ports -> Seq(Nat)] /\ line' \in [Ports -> Seq(Nat)]
  <2>1. <<byte>> \in Seq(Nat)
    BY <1>7
  <2>2. QED BY <1>5, <1>6, <2>1 DEF PortsInv
<1>10. PortsInv'
  BY <1>2, <1>3, <1>9 DEF PortsInv
<1>11. ASSUME NEW p \in Ports PROVE InOrder(p)'
  <2>1. InOrder(p) /\ line[p] \in Seq(Nat) /\ thr[p] \in Seq(Nat)
    BY DEF OutputInOrder, PortsInv
  <2>2. CASE p # q
    <3>1. Sent(p)' = Sent(p) /\ thr'[p] = thr[p] /\ line' = line
      BY <1>5, <1>7, <2>2 DEF SentOneMore, PortsInv
    <3>2. QED BY <2>1, <3>1, Zenon DEF InOrder, Sent
  <2>3. CASE p = q
    <3>1. Sent(p)' = Sent(p) \o <<byte>>
      BY <1>7, <2>3 DEF SentOneMore
    <3>2. thr'[p] = <<byte>> /\ line'[p] = line[p] /\ thr[p] = << >>
      BY <1>5, <1>6, <2>3 DEF PortsInv
    <3>3. line[p] = Sent(p) \/ line[p] = <<0>> \o Sent(p)
      <4>1. line[p] \o << >> = line[p]
        BY <2>1, ConcatEmptySeq, Zenon
      <4>2. QED BY <2>1, <3>2, <4>1, Zenon DEF InOrder, Sent
    <3>4. Sent(p) \in Seq(Nat)
      BY SentTyped
    <3>5. (<<0>> \o Sent(p)) \o <<byte>> = <<0>> \o (Sent(p) \o <<byte>>)
      <4>1. <<byte>> \in Seq(Nat) /\ <<0>> \in Seq(Nat)
        BY <1>7
      <4>2. Regrouped(<<0>>, Sent(p), <<byte>>)
        BY <3>4, <4>1, Regroup, Zenon
      <4>3. QED BY <4>2, Zenon DEF Regrouped
    <3>6. \/ line[p] \o <<byte>> = Sent(p) \o <<byte>>
          \/ line[p] \o <<byte>> = <<0>> \o (Sent(p) \o <<byte>>)
      BY <3>3, <3>5, Zenon
    <3>7. QED BY <3>1, <3>2, <3>6, Zenon DEF InOrder, Sent
  <2>4. QED BY <2>2, <2>3
<1>12. QED BY <1>5, <1>7, <1>8, <1>10, <1>11 DEF OutputInOrder

(* The UART moves a byte from the register to the line.                    *)
LEMMA TransmitKeeps ==
  ASSUME SerialInv, NEW q \in Ports, Transmit(q)
  PROVE  SerialInv'
<1> USE DEF SerialInv
<1>1. /\ thr' = [thr EXCEPT ![q] = << >>] /\ line' = [line EXCEPT ![q] = @ \o thr[q]]
      /\ UNCHANGED <<pc, calls, prints>>
  BY DEF Transmit
<1>2. PrintsInv' /\ CallsInv'
  BY <1>1 DEF PrintsInv, CallsInv, Top
<1>3. thr[q] \in Seq(Nat) /\ line[q] \in Seq(Nat)
  BY DEF PortsInv
<1>4. line[q] \o thr[q] \in Seq(Nat) /\ << >> \in Seq(Nat)
  BY <1>3, ConcatProperties
<1>5. thr' \in [Ports -> Seq(Nat)] /\ line' \in [Ports -> Seq(Nat)]
  BY <1>1, <1>4 DEF PortsInv
<1>6. Top' = Top /\ (Top.ready => Printing' /\ thr'[PortOf(prints[Top.print])] = << >>)
  <2>1. Top' = Top /\ (Top.ready => Printing')
    BY <1>1 DEF PortsInv, Top, Printing
  <2>2. ASSUME Top.ready PROVE thr'[PortOf(prints[Top.print])] = << >>
    <3>1. PortOf(prints[Top.print]) \in Ports /\ thr[PortOf(prints[Top.print])] = << >>
      <4>1. Top.print = Len(prints) /\ Len(prints) # 0 /\ Len(prints) \in Nat
        BY <2>2, LenProperties DEF PortsInv, Printing, CallsInv, PrintsInv
      <4>2. QED BY <2>2, <4>1, PrintTyped DEF PortsInv
    <3>2. QED BY <1>1, <3>1 DEF PortsInv
  <2>3. QED BY <2>1, <2>2
<1>7. PortsInv'
  BY <1>1, <1>5, <1>6 DEF PortsInv
<1>8. ASSUME NEW p \in Ports PROVE InOrder(p)'
  <2>1. line'[p] \o thr'[p] = line[p] \o thr[p]
    <3>1. CASE p = q
      BY <1>1, <1>3, <1>4, <3>1, ConcatEmptySeq DEF PortsInv
    <3>2. CASE p # q
      BY <1>1, <3>2 DEF PortsInv
    <3>3. QED BY <3>1, <3>2
  <2>2. Pieces(p)' = Pieces(p)
    BY <1>1 DEF Pieces
  <2>3. InOrder(p)
    BY DEF OutputInOrder
  <2>4. QED BY <2>1, <2>2, <2>3, Zenon DEF InOrder
<1>9. QED BY <1>1, <1>2, <1>7, <1>8 DEF OutputInOrder

(* A print ends: the program goes on, a breakpoint returns, an exception   *)
(* panics, and a panic leaves QEMU.                                        *)
LEMMA EndPrintKeeps == SerialInv /\ EndPrint => SerialInv'
<1> SUFFICES ASSUME SerialInv, EndPrint PROVE SerialInv'
  OBVIOUS
<1> USE DEF SerialInv
<1>1. UNCHANGED <<pc, thr, line>> /\ Top.ready = FALSE /\ Top \in Activity
  BY IdleUnready, TopTyped DEF EndPrint, Printed
<1>2. ASSUME Top.kind = "program", Continue([Top EXCEPT !.print = 0]), UNCHANGED prints
      PROVE  SerialInv'
  <2> DEFINE a == [Top EXCEPT !.print = 0]
  <2>1. /\ a \in Activity /\ a.print = 0 /\ a.kind = "program" /\ a.ready = FALSE
    BY <1>1, <1>2 DEF Activity
  <2>2. /\ calls' \in Seq(Activity) /\ Len(calls') = Len(calls) /\ Len(calls') >= 1
        /\ Top' = a
    BY <1>2, <2>1, Continues
  <2> HIDE DEF a
  <2>3. CallsInv'
    BY <1>2, <2>1, <2>2 DEF CallsInv
  <2>4. PrintsInv' /\ PortsInv' /\ OutputInOrder'
    BY <1>1, <1>2, <2>1, <2>2, QuietKeeps
  <2>5. QED BY <1>1, <2>3, <2>4
<1>3. ASSUME Top.kind = "breakpoint", calls' = Front(calls), UNCHANGED prints
      PROVE  SerialInv'
  <2>1. /\ calls' \in Seq(Activity) /\ Len(calls') = 1
        /\ Top' = [kind |-> "program", print |-> 0, ready |-> FALSE]
    BY <1>3, Returns
  <2>2. CallsInv'
    BY <2>1 DEF CallsInv
  <2>3. PrintsInv' /\ PortsInv' /\ OutputInOrder'
    BY <1>1, <1>3, <2>1, QuietKeeps
  <2>4. QED BY <1>1, <2>2, <2>3
<1>4. ASSUME prints' = PrintReport,
             calls' = Append(calls, [kind |-> "panic", print |-> Len(prints) + 1, ready |-> FALSE])
      PROVE  SerialInv'
  BY <1>1, <1>4, ReportKeeps
<1>5. ASSUME UNCHANGED <<calls, prints>>
      PROVE  SerialInv'
  <2>1. Top' = Top
    BY <1>5 DEF Top
  <2>2. CallsInv'
    BY <1>5, <2>1 DEF CallsInv
  <2>3. PrintsInv' /\ PortsInv' /\ OutputInOrder'
    BY <1>1, <1>5, <2>1, QuietKeeps
  <2>4. QED BY <1>1, <2>2, <2>3
<1>6. QED BY <1>2, <1>3, <1>4, <1>5 DEF EndPrint

(* A port has nothing on its line at first, and at most the firmware's     *)
(* last byte in its register.                                              *)
LEMMA SerialInitHolds == SerialInit => SerialInv
<1> SUFFICES ASSUME SerialInit PROVE SerialInv
  OBVIOUS
<1>1. /\ prints = << >> /\ Len(prints) = 0 /\ pc = 0
      /\ calls = << [kind |-> "program", print |-> 0, ready |-> FALSE] >>
  BY DEF SerialInit
<1>2. PrintsInv
  BY <1>1 DEF PrintsInv
<1>3. Top = [kind |-> "program", print |-> 0, ready |-> FALSE] /\ Len(calls) = 1
  BY <1>1 DEF Top, Last
<1>4. CallsInv
  BY <1>1, <1>3 DEF CallsInv, Activity
<1>5. /\ thr \in [Ports -> {<< >>, <<0>>}] /\ line = [p \in Ports |-> << >>]
  BY DEF SerialInit
<1>6. PortsInv
  <2>1. << >> \in Seq(Nat) /\ <<0>> \in Seq(Nat)
    OBVIOUS
  <2>2. QED BY <1>3, <1>5, <2>1 DEF PortsInv
<1>7. ASSUME NEW p \in Ports PROVE InOrder(p)
  <2>1. FlattenSeq(Pieces(p)) = << >>
    <3>1. Pieces(p) = << >>
      BY <1>1, <1>2, PiecesTyped, EmptySeq DEF PiecesInv, PiecesOf
    <3>2. QED BY <3>1, FlattenNone
  <2>2. line[p] = << >> /\ thr[p] \in {<< >>, <<0>>}
    BY <1>5
  <2>3. << >> \o << >> = << >> /\ << >> \o <<0>> = <<0>> /\ <<0>> \o << >> = <<0>>
    OBVIOUS
  <2>4. QED BY <2>1, <2>2, <2>3, Zenon DEF InOrder
<1>8. pc \in 0 .. Len(Program)
  BY <1>1, SerialAssumption, LenProperties
<1>9. QED BY <1>2, <1>4, <1>6, <1>7, <1>8 DEF SerialInv, OutputInOrder

(* Every step keeps the invariant.                                         *)
LEMMA SerialNextHolds == SerialInv /\ [SerialNext]_serialVars => SerialInv'
<1> SUFFICES ASSUME SerialInv, [SerialNext]_serialVars PROVE SerialInv'
  OBVIOUS
<1>1. CASE BeginPrint
  BY <1>1, BeginPrintKeeps
<1>2. CASE Breakpoint
  <2>1. pc + 1 \in 0 .. Len(Program)
    BY <1>2, SerialAssumption, LenProperties DEF Breakpoint, SerialInv
  <2>2. QED BY <1>2, <2>1, ReportKeeps DEF Breakpoint
<1>3. CASE Exception
  BY <1>3, ReportKeeps DEF Exception, SerialInv
<1>4. CASE Poll
  BY <1>4, PollKeeps
<1>5. CASE Write
  BY <1>5, WriteKeeps
<1>6. CASE EndPrint
  BY <1>6, EndPrintKeeps
<1>7. ASSUME UNCHANGED <<pc, calls, prints, thr, line>> PROVE SerialInv'
  <2>1. PrintsInv'
    BY <1>7 DEF SerialInv, PrintsInv
  <2>2. CallsInv' /\ PortsInv'
    BY <1>7 DEF SerialInv, CallsInv, PortsInv, Top, Printing
  <2>3. OutputInOrder'
    BY <1>7 DEF SerialInv, OutputInOrder, InOrder, Pieces
  <2>4. QED BY <1>7, <2>1, <2>2, <2>3 DEF SerialInv
<1>8. CASE ExitQemu
  BY <1>7, <1>8 DEF ExitQemu
<1>9. ASSUME NEW p \in Ports, Transmit(p) PROVE SerialInv'
  BY <1>9, TransmitKeeps
<1>10. CASE UNCHANGED serialVars
  BY <1>7, <1>10 DEF serialVars
<1>11. QED BY <1>1, <1>2, <1>3, <1>4, <1>5, <1>6, <1>8, <1>9, <1>10 DEF SerialNext, Kernel

(* The invariant holds in every state.                                     *)
THEOREM SerialInvHolds == SerialSpec => []SerialInv
BY SerialInitHolds, SerialNextHolds, PTL DEF SerialSpec

(* What was sent to a port comes out, byte for byte and in order.          *)
THEOREM OutputIsInOrder == SerialSpec => []OutputInOrder
<1>1. SerialInv => OutputInOrder
  BY DEF SerialInv
<1>2. QED BY <1>1, SerialInvHolds, PTL

-----------------------------------------------------------------------------
(* The hexdump. *)

(* What the dump is made of. *)
Token == {"address", "hex", "blank", "bar", "char", "dot"} \X Nat

(* The hexadecimal half of row k, as far as its first m bytes. *)
Hexes(k, m) == [j \in 1 .. m |-> <<"hex", bytes[k * WIDTH + j]>>]

Begun(k, m) == << <<"address", k * WIDTH>> >> \o Hexes(k, m)

(* The other half. *)
Shown(c, last) == IF c \in SPACE .. last THEN <<"char", c>> ELSE <<"dot", 0>>

Chars(k, m, last) == [j \in 1 .. m |-> Shown(bytes[k * WIDTH + j], last)]

Blanks(n) == [j \in 1 .. n |-> <<"blank", 0>>]

(* The first k rows, the last of them up to the given printable byte; and  *)
(* the k rows before row k.                                                *)
Rows(k, last) == [r \in 1 .. k |-> RowTokens(r - 1, IF r = k THEN last ELSE DEL - 1)]

FirstRows(k) == Rows(k, DEL - 1)

(* Row k is being printed: column bytes of it are taken, and they are in   *)
(* the buffer.                                                             *)
InRow(k) ==
  /\ column \in 0 .. WIDTH - 1
  /\ offset = k * WIDTH /\ read = k * WIDTH + column /\ read <= Len(bytes)
  /\ \A j \in 1 .. column : ascii[j] = bytes[k * WIDTH + j]
  /\ output = FlattenSeq(FirstRows(k)) \o (IF column = 0 THEN << >> ELSE Begun(k, column))

DumpInv ==
  /\ bytes \in Inputs
  /\ ascii \in [1 .. WIDTH -> Nat]
  /\ done \in BOOLEAN
  /\ IF done THEN read = Len(bytes) ELSE \E k \in Nat : InRow(k)
  /\ DumpShowsData

(* Bytes of the data. *)
LEMMA BytesTyped ==
  ASSUME DumpInv
  PROVE  /\ bytes \in Seq(Nat) /\ Len(bytes) \in Nat
         /\ \A j \in 1 .. Len(bytes) : bytes[j] \in Nat
<1>1. bytes \in Seq(Nat)
  BY HexdumpAssumption DEF DumpInv, Byte
<1>2. QED BY <1>1, LenProperties, ElementOfSeq

(* Both halves of a row are sequences of tokens.                           *)
LEMMA HalvesTyped ==
  ASSUME DumpInv, NEW k \in Nat, NEW m \in Nat, k * WIDTH + m <= Len(bytes)
  PROVE  /\ Hexes(k, m) \in Seq(Token) /\ Len(Hexes(k, m)) = m
         /\ Begun(k, m) \in Seq(Token)
         /\ \A last \in Nat : Chars(k, m, last) \in Seq(Token)
         /\ \A n \in Nat : Blanks(n) \in Seq(Token)
         /\ Bar \in Seq(Token) /\ k * WIDTH \in Nat
<1>1. PICK a \in Nat : a = k * WIDTH
  BY HexdumpAssumption
<1>2. Len(bytes) \in Nat
  BY BytesTyped
<1>3. ASSUME NEW j \in 1 .. m PROVE bytes[a + j] \in Nat
  <2>1. a + j \in 1 .. Len(bytes)
    BY <1>1, <1>2
  <2>2. QED BY <2>1, BytesTyped
<1>4. \A j \in 1 .. m : <<"hex", bytes[a + j]>> \in Token
  BY <1>3 DEF Token
<1>5. Hexes(k, m) = [j \in 1 .. m |-> <<"hex", bytes[a + j]>>]
  BY <1>1, Zenon DEF Hexes
<1>6. Hexes(k, m) \in Seq(Token) /\ Len(Hexes(k, m)) = m
  <2> DEFINE h(j) == <<"hex", bytes[a + j]>>
  <2>1. Hexes(k, m) = [j \in 1 .. m |-> h(j)] /\ \A j \in 1 .. m : h(j) \in Token
    BY <1>4, <1>5
  <2> HIDE DEF h
  <2>2. QED BY <2>1
<1>7. << <<"address", a>> >> \in Seq(Token) /\ Bar \in Seq(Token)
  BY DEF Token, Bar
<1>8. Begun(k, m) \in Seq(Token)
  <2>1. << <<"address", a>> >> \o Hexes(k, m) \in Seq(Token)
    BY <1>6, <1>7, ConcatProperties, Zenon
  <2>2. QED BY <1>1, <2>1, Zenon DEF Begun
<1>9. ASSUME NEW last \in Nat PROVE Chars(k, m, last) \in Seq(Token)
  <2>1. \A j \in 1 .. m : Shown(bytes[a + j], last) \in Token
    BY <1>3 DEF Shown, Token
  <2>2. Chars(k, m, last) = [j \in 1 .. m |-> Shown(bytes[a + j], last)]
    BY <1>1, Zenon DEF Chars
  <2>3. QED BY <2>1, <2>2
<1>10. ASSUME NEW n \in Nat PROVE Blanks(n) \in Seq(Token)
  BY DEF Blanks, Token
<1>11. QED BY <1>1, <1>6, <1>7, <1>8, <1>9, <1>10

(* A row of m bytes, half by half. *)
RowMade(k, m, last) ==
  RowTokens(k, last) = Begun(k, m) \o Blanks(WIDTH - m) \o Bar \o Chars(k, m, last) \o Bar

(* A whole row, or the last one, is made of its address and two halves.    *)
LEMMA RowIs ==
  ASSUME DumpInv, NEW k \in Nat, NEW m \in 1 .. WIDTH, NEW last \in Nat,
         k * WIDTH + m <= Len(bytes), m = WIDTH \/ k * WIDTH + m = Len(bytes)
  PROVE  RowMade(k, m, last)
<1>1. PICK a \in Nat : a = k * WIDTH
  BY HexdumpAssumption
<1>2. (k + 1) * WIDTH = a + WIDTH
  BY <1>1, HexdumpAssumption
<1>3. bytes \in Seq(Nat) /\ Len(bytes) \in Nat
  BY BytesTyped
<1>4. Row(k) = SubSeq(bytes, a + 1, a + m)
  <2>1. (IF a + WIDTH < Len(bytes) THEN a + WIDTH ELSE Len(bytes)) = a + m
    BY <1>1, <1>3, HexdumpAssumption
  <2>2. QED BY <1>1, <1>2, <2>1, Zenon DEF Row
<1>5. Row(k) = [j \in 1 .. m |-> bytes[a + j]]
  <2>1. a + 1 \in 1 .. Len(bytes) + 1 /\ a + m \in a .. Len(bytes)
    BY <1>1, <1>3
  <2>2. SubSeq(bytes, a + 1, a + m) = [j \in 1 .. m |-> bytes[a + j]]
    BY <1>3, <2>1
  <2>3. QED BY <1>4, <2>2
<1> DEFINE row == Row(k)
           mixed == [j \in 1 .. WIDTH |-> IF j <= Len(row) THEN <<"hex", row[j]>>
                                                           ELSE <<"blank", 0>>]
           cols == [j \in DOMAIN row |-> IF SPACE <= row[j] /\ row[j] <= last
                                         THEN <<"char", row[j]>> ELSE <<"dot", 0>>]
<1>6. Len(row) = m /\ DOMAIN row = 1 .. m /\ \A j \in 1 .. m : row[j] = bytes[a + j]
  BY <1>5
<1>7. RowTokens(k, last) = << <<"address", k * WIDTH>> >> \o mixed \o Bar \o cols \o Bar
  BY <1>6, Zenon DEF RowTokens
<1> HIDE DEF row
<1>8. mixed = Hexes(k, m) \o Blanks(WIDTH - m)
  <2> DEFINE h == Hexes(k, m)  b == Blanks(WIDTH - m)
             kind(j) == IF j <= Len(row) THEN <<"hex", row[j]>> ELSE <<"blank", 0>>
  <2>1. h \in Seq(Token) /\ Len(h) = m /\ \A j \in 1 .. m : h[j] = <<"hex", bytes[a + j]>>
    <3>1. h = [j \in 1 .. m |-> <<"hex", bytes[a + j]>>]
      BY <1>1, Zenon DEF Hexes
    <3>2. h \in Seq(Token) /\ Len(h) = m
      BY HalvesTyped
    <3>3. QED BY <3>1, <3>2
  <2>2. /\ WIDTH - m \in Nat /\ b \in Seq(Token) /\ Len(b) = WIDTH - m
        /\ \A j \in 1 .. WIDTH - m : b[j] = <<"blank", 0>>
    BY HexdumpAssumption DEF Blanks, Token
  <2> HIDE DEF h, b
  <2>3. /\ h \o b \in Seq(Token) /\ Len(h \o b) = WIDTH
        /\ \A j \in 1 .. WIDTH : (h \o b)[j] = IF j <= m THEN h[j] ELSE b[j - m]
    <3>1. /\ h \o b \in Seq(Token) /\ Len(h \o b) = Len(h) + Len(b)
          /\ \A j \in 1 .. Len(h) + Len(b) :
               (h \o b)[j] = IF j <= Len(h) THEN h[j] ELSE b[j - Len(h)]
      <4>1. h \o b \in Seq(Token) /\ Appended(h, b)
        BY <2>1, <2>2, Concat, Zenon
      <4>2. QED BY <4>1, Zenon DEF Appended
    <3>2. Len(h) + Len(b) = WIDTH
      BY <2>1, <2>2, HexdumpAssumption
    <3>3. QED BY <2>1, <3>1, <3>2, Zenon
  <2>4. ASSUME NEW j \in 1 .. WIDTH PROVE (h \o b)[j] = kind(j)
    <3>1. CASE j <= m
      <4>1. j \in 1 .. m
        BY <3>1
      <4>2. QED BY <1>6, <2>1, <2>3, <3>1, <4>1, Zenon
    <3>2. CASE ~(j <= m)
      <4>1. j - m \in 1 .. WIDTH - m
        BY <3>2, HexdumpAssumption
      <4>2. QED BY <1>6, <2>2, <2>3, <3>2, <4>1, Zenon
    <3>3. QED BY <3>1, <3>2
  <2>5. mixed = [j \in 1 .. WIDTH |-> kind(j)]
    OBVIOUS
  <2>6. h \o b = [j \in 1 .. WIDTH |-> (h \o b)[j]]
    <3> DEFINE hb == h \o b
    <3>1. hb \in Seq(Token) /\ Len(hb) = WIDTH
      BY <2>3
    <3> HIDE DEF hb
    <3>2. hb = [j \in 1 .. WIDTH |-> hb[j]]
      BY <3>1
    <3>3. QED BY <3>2 DEF hb
  <2> HIDE DEF kind, mixed
  <2>7. h \o b = mixed
    BY <2>4, <2>5, <2>6
  <2>8. QED BY <2>7 DEF h, b
<1>9. cols = Chars(k, m, last)
  <2>1. ASSUME NEW j \in 1 .. m
        PROVE  (IF SPACE <= row[j] /\ row[j] <= last THEN <<"char", row[j]>> ELSE <<"dot", 0>>)
                 = Shown(bytes[a + j], last)
    <3>1. bytes[a + j] \in Nat /\ row[j] = bytes[a + j]
      <4>1. a + j \in 1 .. Len(bytes)
        BY <1>1, <1>3
      <4>2. bytes[a + j] \in Nat
        BY <4>1, BytesTyped, Zenon
      <4>3. QED BY <1>6, <4>2, Zenon
    <3>2. last \in Int /\ SPACE \in Int
      BY HexdumpAssumption
    <3>3. QED BY <3>1, <3>2 DEF Shown
  <2>2. Chars(k, m, last) = [j \in 1 .. m |-> Shown(bytes[a + j], last)]
    BY <1>1, Zenon DEF Chars
  <2>3. QED BY <1>6, <2>1, <2>2
<1> DEFINE h == Hexes(k, m)  b == Blanks(WIDTH - m)
<1>10. << <<"address", k * WIDTH>> >> \o mixed = Begun(k, m) \o b
  <2>1. << <<"address", k * WIDTH>> >> \in Seq(Token)
    BY HalvesTyped DEF Token
  <2>2. h \in Seq(Token) /\ b \in Seq(Token)
    BY HalvesTyped, HexdumpAssumption
  <2> DEFINE address == << <<"address", k * WIDTH>> >>
  <2>3. address \o (h \o b) = (address \o h) \o b
    <3>1. address \in Seq(Token)
      BY <2>1
    <3> HIDE DEF address, h, b
    <3>2. Regrouped(address, h, b)
      BY <2>2, <3>1, Regroup, Zenon
    <3>3. QED BY <3>2, Zenon DEF Regrouped
  <2> HIDE DEF mixed
  <2>4. QED BY <1>8, <2>3, Zenon DEF Begun
<1> HIDE DEF mixed, cols, b
<1>11. RowTokens(k, last) = Begun(k, m) \o b \o Bar \o Chars(k, m, last) \o Bar
  BY <1>7, <1>9, <1>10, Zenon
<1>12. QED BY <1>11, Zenon DEF b, RowMade

(* Five sequences, one after another. *)
LEMMA Five ==
  ASSUME NEW S, NEW b \in Seq(S), NEW t \in Seq(S), NEW u \in Seq(S),
         NEW v \in Seq(S), NEW w \in Seq(S)
  PROVE  b \o t \o u \o v \o w \in Seq(S)
BY Concat, Zenon

(* Regrouped, for what a row is made of.                                   *)
Gathered(f, b, t, u, v, w) ==
  /\ f \o b \o t \o u \o v \o w = f \o (b \o t \o u \o v \o w)
  /\ f \o b \o (u \o v \o w) = f \o (b \o u \o v \o w)

(* Joining sequences is associative, in the two ways a row needs.          *)
LEMMA Gather ==
  ASSUME NEW S, NEW f \in Seq(S), NEW b \in Seq(S), NEW t \in Seq(S), NEW u \in Seq(S),
         NEW v \in Seq(S), NEW w \in Seq(S)
  PROVE  Gathered(f, b, t, u, v, w)
<1>1. /\ b \o t \in Seq(S) /\ b \o t \o u \in Seq(S) /\ b \o t \o u \o v \in Seq(S)
  BY Concat, Zenon
<1>2. /\ b \o u \in Seq(S) /\ b \o u \o v \in Seq(S) /\ b \o u \o v \o w \in Seq(S)
      /\ u \o v \in Seq(S) /\ f \o b \in Seq(S)
  BY Concat, Zenon
<1>3. /\ Regrouped(f, b, t) /\ Regrouped(f, b \o t, u) /\ Regrouped(f, b \o t \o u, v)
      /\ Regrouped(f, b \o t \o u \o v, w)
  BY <1>1, Regroup, Zenon
<1>4. /\ Regrouped(f \o b, u \o v, w) /\ Regrouped(f \o b, u, v) /\ Regrouped(f, b, u)
      /\ Regrouped(f, b \o u, v) /\ Regrouped(f, b \o u \o v, w)
  BY <1>2, Regroup, Zenon
<1>5. f \o b \o t \o u \o v \o w = f \o (b \o t \o u \o v \o w)
  BY <1>3, Zenon DEF Regrouped
<1>6. f \o b \o (u \o v \o w) = f \o (b \o u \o v \o w)
  BY <1>4, Zenon DEF Regrouped
<1>7. QED BY <1>5, <1>6, Zenon DEF Gathered

(* The hexadecimal half grows by a byte. *)
OneMoreHex(k, m) ==
  Begun(k, m + 1) = Begun(k, m) \o << <<"hex", bytes[k * WIDTH + m + 1]>> >>

(* One byte more on the left of a row is one token more.                   *)
LEMMA HexGrows ==
  ASSUME DumpInv, NEW k \in Nat, NEW m \in Nat, k * WIDTH + m + 1 <= Len(bytes)
  PROVE  OneMoreHex(k, m)
<1>1. PICK a \in Nat : a = k * WIDTH
  BY HexdumpAssumption
<1> DEFINE h == Hexes(k, m)  g == Hexes(k, m + 1)  x == <<"hex", bytes[a + m + 1]>>
           addr == << <<"address", k * WIDTH>> >>
<1>2. Len(bytes) \in Nat /\ a + m <= Len(bytes) /\ a + (m + 1) <= Len(bytes) /\ m + 1 \in Nat
  BY <1>1, BytesTyped
<1>3. /\ h \in Seq(Token) /\ Len(h) = m /\ g \in Seq(Token) /\ Len(g) = m + 1
  BY <1>1, <1>2, HalvesTyped
<1>4. /\ h = [j \in 1 .. m |-> <<"hex", bytes[a + j]>>]
      /\ g = [j \in 1 .. m + 1 |-> <<"hex", bytes[a + j]>>]
  BY <1>1, Zenon DEF Hexes
<1>5. x \in Token /\ addr \in Seq(Token)
  <2>1. a + m + 1 \in 1 .. Len(bytes)
    BY <1>1, <1>2
  <2>2. bytes[a + m + 1] \in Nat
    BY <2>1, BytesTyped
  <2>3. QED BY <1>1, <2>2 DEF Token
<1>6. g = Append(h, x)
  <2>1. g[m + 1] = x /\ \A j \in 1 .. m : g[j] = h[j]
    <3>1. a + (m + 1) = a + m + 1
      BY <1>1
    <3>2. m + 1 \in 1 .. m + 1 /\ \A j \in 1 .. m : j \in 1 .. m + 1
      OBVIOUS
    <3> DEFINE e(j) == <<"hex", bytes[a + j]>>
    <3>3. h = [j \in 1 .. m |-> e(j)] /\ g = [j \in 1 .. m + 1 |-> e(j)] /\ e(m + 1) = x
      BY <1>4, <3>1, Zenon
    <3> HIDE DEF e, g, h, x
    <3>4. QED BY <3>2, <3>3
  <2> HIDE DEF g, h, x
  <2>2. /\ Append(h, x) \in Seq(Token) /\ Len(Append(h, x)) = Len(h) + 1
        /\ Append(h, x)[Len(h) + 1] = x
        /\ \A j \in 1 .. Len(h) : Append(h, x)[j] = h[j]
    <3>1. h \in Seq(Token) /\ x \in Token
      BY <1>3, <1>5, Zenon
    <3>2. QED BY ONLY <3>1
  <2>3. ASSUME NEW j \in 1 .. m + 1 PROVE g[j] = Append(h, x)[j]
    <3>1. CASE j = m + 1
      BY <1>3, <2>1, <2>2, <3>1, Zenon
    <3>2. CASE j \in 1 .. m
      BY <1>3, <2>1, <2>2, <3>2, Zenon
    <3>3. j = m + 1 \/ j \in 1 .. m
      OBVIOUS
    <3>4. QED BY <3>1, <3>2, <3>3
  <2>4. Len(g) = Len(Append(h, x)) /\ \A j \in 1 .. Len(g) : g[j] = Append(h, x)[j]
    BY <1>3, <2>2, <2>3
  <2>5. QED BY <1>3, <2>2, <2>4, SeqEqual, Zenon
<1>7. g = h \o <<x>> /\ <<x>> \in Seq(Token)
  <2> HIDE DEF g, h, x
  <2>1. Append(h, x) = h \o <<x>>
    BY <1>3, <1>5, AppendIsConcat
  <2>2. QED BY <1>5, <1>6, <2>1
<1>8. addr \o g = (addr \o h) \o <<x>>
  <2> HIDE DEF g, h, x, addr
  <2>1. Regrouped(addr, h, <<x>>)
    BY <1>3, <1>5, <1>7, Regroup, Zenon
  <2>2. QED BY <1>7, <2>1, Zenon DEF Regrouped
<1>9. QED BY <1>1, <1>8, Zenon DEF OneMoreHex, Begun

(* No bytes: the address only. *)
LEMMA NothingYet ==
  ASSUME DumpInv, NEW k \in Nat
  PROVE  << <<"address", k * WIDTH>> >> = Begun(k, 0)
<1>1. Hexes(k, 0) = << >>
  BY DEF Hexes
<1>2. k * WIDTH \in Nat
  BY HexdumpAssumption
<1>3. << <<"address", k * WIDTH>> >> \in Seq(Token)
  BY <1>2 DEF Token
<1> DEFINE addr == << <<"address", k * WIDTH>> >>
<1>4. addr \o << >> = addr
  <2> HIDE DEF addr
  <2>1. addr \in Seq(Token)
    BY <1>3 DEF addr
  <2>2. QED BY <2>1, ConcatEmptySeq, Zenon
<1>5. QED BY <1>1, <1>4, Zenon DEF Begun

(* A row is made of tokens. *)
LEMMA RowTyped ==
  ASSUME DumpInv, NEW k \in Nat, NEW m \in 1 .. WIDTH, NEW last \in Nat,
         k * WIDTH + m <= Len(bytes), m = WIDTH \/ k * WIDTH + m = Len(bytes)
  PROVE  RowTokens(k, last) \in Seq(Token)
<1>1. RowTokens(k, last) = Begun(k, m) \o Blanks(WIDTH - m) \o Bar \o Chars(k, m, last) \o Bar
  BY RowIs, Zenon DEF RowMade
<1>2. WIDTH - m \in Nat /\ m \in Nat
  BY HexdumpAssumption
<1>3. /\ Begun(k, m) \in Seq(Token) /\ Blanks(WIDTH - m) \in Seq(Token) /\ Bar \in Seq(Token)
      /\ Chars(k, m, last) \in Seq(Token)
  BY <1>2, HalvesTyped
<1>4. Begun(k, m) \o Blanks(WIDTH - m) \o Bar \o Chars(k, m, last) \o Bar \in Seq(Token)
  BY <1>3, Five, Zenon
<1>5. QED BY <1>1, <1>4, Zenon

(* So are the rows that are full. *)
LEMMA RowsTyped ==
  ASSUME DumpInv, NEW k \in Nat, k * WIDTH <= Len(bytes)
  PROVE  FirstRows(k) \in Seq(Seq(Token)) /\ Len(FirstRows(k)) = k
<1>1. ASSUME NEW r \in 1 .. k PROVE RowTokens(r - 1, DEL - 1) \in Seq(Token)
  <2>1. WIDTH * r <= WIDTH * k
    BY HexdumpAssumption, TimesMonotone
  <2>2. (r - 1) * WIDTH + WIDTH = WIDTH * r /\ k * WIDTH = WIDTH * k
    BY HexdumpAssumption
  <2>3. PICK p \in Int, q \in Int : p = WIDTH * r /\ q = WIDTH * k
    BY HexdumpAssumption
  <2>4. (r - 1) * WIDTH + WIDTH <= Len(bytes)
    BY <2>1, <2>2, <2>3, BytesTyped
  <2>5. r - 1 \in Nat /\ WIDTH \in 1 .. WIDTH /\ DEL - 1 \in Nat
    BY HexdumpAssumption
  <2>6. QED BY <2>4, <2>5, RowTyped, Zenon
<1> DEFINE row(r) == RowTokens(r - 1, DEL - 1)
<1>2. FirstRows(k) = [r \in 1 .. k |-> row(r)] /\ \A r \in 1 .. k : row(r) \in Seq(Token)
  BY <1>1 DEF FirstRows, Rows
<1> HIDE DEF row
<1>3. QED BY <1>2

(* The next row comes after them.                                          *)
RowAdded(k, last) ==
  FlattenSeq(Rows(k + 1, last)) = FlattenSeq(FirstRows(k)) \o RowTokens(k, last)

(* FlattenSeq of k + 1 rows is that of k rows, and the next row.           *)
LEMMA NextRow ==
  ASSUME DumpInv, NEW k \in Nat, k * WIDTH <= Len(bytes), NEW last,
         RowTokens(k, last) \in Seq(Token)
  PROVE  FlattenSeq(FirstRows(k)) \in Seq(Token) /\ RowAdded(k, last)
<1> DEFINE t == FirstRows(k)  s == Rows(k + 1, last)
<1>1. t \in Seq(Seq(Token)) /\ Len(t) = k
  BY RowsTyped
<1> DEFINE row(r) == RowTokens(r - 1, IF r = k + 1 THEN last ELSE DEL - 1)
<1>2. t = [r \in 1 .. k |-> RowTokens(r - 1, DEL - 1)] /\ s = [r \in 1 .. k + 1 |-> row(r)]
  BY Zenon DEF FirstRows, Rows
<1>3. k + 1 \in Nat \ {0} /\ k + 1 - 1 = k /\ k + 1 \in 1 .. k + 1
  OBVIOUS
<1>4. \A r \in 1 .. k : r \in 1 .. k + 1
  OBVIOUS
<1>5. s[k + 1] = RowTokens(k, last) /\ \A r \in 1 .. k : s[r] = t[r]
  <2>1. /\ t = [r \in 1 .. k |-> row(r)] /\ s = [r \in 1 .. k + 1 |-> row(r)]
        /\ row(k + 1) = RowTokens(k, last)
    <3>1. row(k + 1) = RowTokens(k, last)
      BY <1>3
    <3>2. ASSUME NEW r \in 1 .. k PROVE row(r) = RowTokens(r - 1, DEL - 1)
      <4>1. r # k + 1
        OBVIOUS
      <4>2. QED BY <4>1, Zenon
    <3>3. QED BY <1>2, <3>1, <3>2, Zenon
  <2> HIDE DEF row, s, t
  <2>2. QED BY <1>3, <1>4, <2>1
<1>6. s \in Seq(Seq(Token)) /\ Len(s) = k + 1
  <2>1. ASSUME NEW r \in 1 .. k + 1 PROVE s[r] \in Seq(Token)
    <3>1. CASE r = k + 1
      BY <1>5, <3>1
    <3>2. CASE r \in 1 .. k
      BY <1>1, <1>5, <3>2, ElementOfSeq
    <3>3. QED BY <3>1, <3>2
  <2>2. s = [r \in 1 .. k + 1 |-> s[r]]
    BY <1>2
  <2> HIDE DEF s
  <2>3. PICK n \in Nat : n = k + 1
    BY <1>3
  <2>4. s = [r \in 1 .. n |-> s[r]] /\ \A r \in 1 .. n : s[r] \in Seq(Token)
    BY <2>1, <2>2, <2>3
  <2>5. s \in Seq(Seq(Token)) /\ Len(s) = n
    <3>1. PICK T : T = Seq(Token)
      OBVIOUS
    <3>2. \A r \in 1 .. n : s[r] \in T
      BY <2>4, <3>1, Zenon
    <3>3. s \in Seq(T) /\ Len(s) = n
      BY ONLY <2>4, <3>2, n \in Nat
    <3>4. QED BY <3>1, <3>3, Zenon
  <2>6. QED BY <2>3, <2>5
<1> HIDE DEF s, t
<1>7. Agree(t, s, k + 1 - 1) /\ Len(t) = k + 1 - 1
  BY <1>1, <1>3, <1>5 DEF Agree
<1>8. FlattenSeq(t) \in Seq(Token) /\ Ends(s, t, k + 1)
  <2>1. PICK n \in Nat \ {0} : n = k + 1
    BY <1>3
  <2>2. Len(s) = n /\ Len(t) = n - 1 /\ Agree(t, s, n - 1)
    <3>1. n - 1 = k + 1 - 1
      BY <2>1
    <3>2. QED BY <1>6, <1>7, <2>1, <3>1, Zenon
  <2>3. FlattenSeq(t) \in Seq(Token) /\ Ends(s, t, n)
    BY <1>1, <1>6, <2>2, FlattenLast, Zenon
  <2>4. QED BY <2>1, <2>3, Zenon
<1>9. QED BY <1>5, <1>8, Zenon DEF Ends, RowAdded, s, t

(* What a row has shown does not change while the data is the same.        *)
Unread(k) ==
  /\ FirstRows(k)' = FirstRows(k) /\ \A last : Rows(k, last)' = Rows(k, last)
  /\ \A m \in Nat : Begun(k, m)' = Begun(k, m)

(* Rows are a matter of the data alone.                                    *)
LEMMA SameData ==
  ASSUME bytes' = bytes, NEW k
  PROVE  Unread(k)
<1>1. ASSUME NEW last PROVE Rows(k, last)' = Rows(k, last)
  BY DEF Rows, RowTokens, Row
<1>2. FirstRows(k)' = FirstRows(k)
  BY DEF FirstRows, Rows, RowTokens, Row
<1>3. ASSUME NEW m \in Nat PROVE Begun(k, m)' = Begun(k, m)
  BY DEF Begun, Hexes
<1>4. QED BY <1>1, <1>2, <1>3 DEF Unread

(* The address before the first byte of a row: now as in any other turn.   *)
LEMMA AddressPrinted ==
  ASSUME DumpInv, NEW k \in Nat, InRow(k)
  PROVE  output \o Address = FlattenSeq(FirstRows(k)) \o Begun(k, column)
         /\ FlattenSeq(FirstRows(k)) \in Seq(Token) /\ Begun(k, column) \in Seq(Token)
<1> DEFINE f == FlattenSeq(FirstRows(k))  b == Begun(k, column)
<1>1. /\ column \in Nat /\ k * WIDTH \in Nat /\ k * WIDTH + column <= Len(bytes)
      /\ k * WIDTH <= Len(bytes)
  <2>1. k * WIDTH \in Nat
    BY HexdumpAssumption
  <2>2. PICK a \in Nat : a = k * WIDTH
    BY <2>1
  <2>3. QED BY <2>2, HexdumpAssumption, BytesTyped DEF InRow
<1>2. f \in Seq(Token)
  <2>1. FirstRows(k) \in Seq(Seq(Token)) /\ Len(FirstRows(k)) = k
    BY <1>1, RowsTyped
  <2>2. QED BY <2>1, FlattenTyped, Zenon
<1>3. b \in Seq(Token)
  BY <1>1, HalvesTyped
<1>4. CASE column = 0
  <2>1. output = f \o << >> /\ Address = b
    BY <1>4, NothingYet DEF InRow, Address
  <2>2. f \o << >> = f
    BY <1>2, ConcatEmptySeq, Zenon
  <2>3. QED BY <1>2, <1>3, <2>1, <2>2, Zenon
<1>5. CASE column # 0
  <2>1. output = f \o b /\ Address = << >>
    BY <1>5 DEF InRow, Address
  <2>2. f \o b \in Seq(Token)
    BY <1>2, <1>3, Concat, Zenon
  <2>3. (f \o b) \o << >> = f \o b
    BY <2>2, ConcatEmptySeq, Zenon
  <2>4. QED BY <1>2, <1>3, <2>1, <2>3, Zenon
<1>6. QED BY <1>4, <1>5

(* A byte is taken.                                                        *)
LEMMA NextByteKeeps ==
  ASSUME DumpInv, NextByte, NEW k \in Nat, InRow(k)
  PROVE  \E l \in Nat : InRow(l)'
<1>0. PICK c \in Nat, a \in Nat : c = column /\ a = k * WIDTH
  BY HexdumpAssumption DEF InRow
<1> DEFINE v == bytes[read + 1]
           f == FlattenSeq(FirstRows(k))
           b == Begun(k, c)
           x == << <<"hex", v>> >>
<1>1. /\ c \in 0 .. WIDTH - 1 /\ read = a + c /\ Len(bytes) \in Nat
      /\ a + c + 1 <= Len(bytes) /\ offset = a /\ a + c + 1 \in 1 .. Len(bytes)
      /\ WIDTH \in Nat \ {0}
  <2>1. read = a + c /\ offset = a
    BY <1>0 DEF InRow
  <2>2. c \in 0 .. WIDTH - 1
    BY <1>0 DEF InRow
  <2>3. read < Len(bytes)
    BY DEF NextByte
  <2>4. QED BY <2>1, <2>2, <2>3, HexdumpAssumption, BytesTyped
<1>2. v \in Nat /\ x \in Seq(Token)
  <2>1. v \in Nat
    BY <1>1, BytesTyped
  <2>2. QED BY <2>1 DEF Token
<1>3. /\ output \o Address = f \o b /\ f \in Seq(Token) /\ b \in Seq(Token)
  BY <1>0, AddressPrinted
<1>4. f \o b \o x = f \o Begun(k, c + 1)
  <2>1. Begun(k, c + 1) = b \o x
    <3>1. OneMoreHex(k, c)
      BY <1>0, <1>1, HexGrows
    <3>2. read + 1 = k * WIDTH + c + 1
      BY <1>0, <1>1
    <3>3. QED BY <3>1, <3>2, Zenon DEF OneMoreHex
  <2> HIDE DEF f, b, x
  <2>2. Regrouped(f, b, x)
    BY <1>2, <1>3, Regroup, Zenon
  <2>3. QED BY <2>1, <2>2, Zenon DEF Regrouped
<1>5. Unread(k) /\ Unread(k + 1)
  BY SameData DEF NextByte
<1>6. /\ ascii \in [1 .. WIDTH -> Nat] /\ ascii' = [ascii EXCEPT ![c + 1] = v]
      /\ c + 1 \in 1 .. WIDTH
  BY <1>0, <1>1 DEF NextByte, DumpInv
<1>7. \A j \in 1 .. c + 1 : ascii'[j] = bytes[a + j]
  <2>1. ascii'[c + 1] = bytes[a + (c + 1)]
    BY <1>1, <1>6
  <2>2. ASSUME NEW j \in 1 .. c PROVE ascii'[j] = bytes[a + j]
    <3>1. ascii'[j] = ascii[j]
      BY <1>1, <1>6
    <3>2. QED BY <1>0, <3>1 DEF InRow
  <2>3. \A j \in 1 .. c + 1 : j = c + 1 \/ j \in 1 .. c
    BY <1>1
  <2>4. QED BY <2>1, <2>2, <2>3
<1>8. /\ read' = a + c + 1 /\ bytes' = bytes
      /\ output' = output \o Address \o x
                     \o (IF c + 1 = WIDTH THEN Bar \o Ascii(ascii', DEL - 1) \o Bar ELSE << >>)
      /\ column' = (c + 1) % WIDTH
      /\ offset' = IF c + 1 = WIDTH THEN offset + WIDTH ELSE offset
  BY <1>0, <1>1 DEF NextByte
<1> HIDE DEF v, x, f, b
<1>9. CASE c + 1 # WIDTH
  <2>1. output' = f \o Begun(k, c + 1)
    <3>1. Begun(k, c + 1) \in Seq(Token)
      BY <1>0, <1>1, HalvesTyped
    <3>2. f \o Begun(k, c + 1) \in Seq(Token)
      BY <1>3, <3>1, Concat, Zenon
    <3>3. output' = f \o Begun(k, c + 1) \o << >>
      BY <1>3, <1>4, <1>8, <1>9, Zenon
    <3>4. QED BY <3>2, <3>3, ConcatEmptySeq, Zenon
  <2>2. column' = c + 1 /\ c + 1 \in 0 .. WIDTH - 1 /\ c + 1 \in Nat /\ c + 1 # 0
    <3>1. c + 1 \in 0 .. WIDTH - 1 /\ c + 1 \in Nat /\ c + 1 # 0 /\ WIDTH * 0 + (c + 1) = c + 1
      BY <1>1, <1>9
    <3>2. (c + 1) % WIDTH = c + 1
      <4>1. PICK r \in 0 .. WIDTH - 1 : r = c + 1
        BY <3>1
      <4>2. (WIDTH * 0 + r) % WIDTH = r
        BY <1>1, DivUnique
      <4>3. QED BY <1>1, <4>1, <4>2
    <3>3. QED BY <1>8, <3>1, <3>2
  <2>3. offset' = a /\ read' = a + (c + 1) /\ read' <= Len(bytes')
    BY <1>1, <1>8, <1>9
  <2>4. output' = FlattenSeq(FirstRows(k))' \o Begun(k, c + 1)'
    BY <1>5, <2>1, <2>2, Zenon DEF Unread, f
  <2>5. Begun(k, column)' = Begun(k, c + 1)'
    BY <2>2 DEF Begun, Hexes
  <2>6. (\A j \in 1 .. column : ascii[j] = bytes[k * WIDTH + j])'
    BY <1>0, <1>7, <1>8, <2>2
  <2>7. (output = FlattenSeq(FirstRows(k)) \o (IF column = 0 THEN << >> ELSE Begun(k, column)))'
    BY <2>2, <2>4, <2>5, Zenon
  <2>8. InRow(k)'
    BY <1>0, <2>2, <2>3, <2>6, <2>7 DEF InRow
  <2>9. QED BY <2>8
<1>10. CASE c + 1 = WIDTH
  <2>1. /\ (k + 1) * WIDTH = a + WIDTH /\ k * WIDTH + WIDTH <= Len(bytes)
        /\ k * WIDTH <= Len(bytes) /\ k * WIDTH = a /\ k + 1 \in Nat
    <3>1. (k + 1) * WIDTH = a + WIDTH
      BY <1>0, HexdumpAssumption
    <3>2. QED BY <1>0, <1>1, <1>10, <3>1
  <2> DEFINE w == Begun(k, WIDTH)
             chars == Chars(k, WIDTH, DEL - 1)
  <2>2. RowTokens(k, DEL - 1) = w \o Bar \o chars \o Bar
    <3>1. RowTokens(k, DEL - 1) = w \o Blanks(WIDTH - WIDTH) \o Bar \o chars \o Bar
      <4>1. RowMade(k, WIDTH, DEL - 1)
        BY <1>1, <2>1, RowIs, HexdumpAssumption
      <4>2. QED BY <4>1, Zenon DEF RowMade
    <3>2. Blanks(WIDTH - WIDTH) = << >>
      BY <1>1 DEF Blanks
    <3>3. w \in Seq(Token)
      BY <1>1, <2>1, HalvesTyped
    <3> HIDE DEF w, chars
    <3>4. w \o << >> = w
      BY <3>3, ConcatEmptySeq, Zenon
    <3>5. QED BY <3>1, <3>2, <3>4, Zenon
  <2>3. w \in Seq(Token) /\ chars \in Seq(Token) /\ Bar \in Seq(Token)
    <3>1. DEL - 1 \in Nat /\ WIDTH \in Nat
      BY HexdumpAssumption
    <3>2. QED BY <2>1, <3>1, HalvesTyped, Zenon
  <2>4. Ascii(ascii', DEL - 1) = chars
    <3>1. DOMAIN ascii' = 1 .. WIDTH
      BY <1>6
    <3>2. ASSUME NEW j \in 1 .. WIDTH
          PROVE  (IF ascii'[j] \in SPACE .. DEL - 1 THEN <<"char", ascii'[j]>> ELSE <<"dot", 0>>)
                   = Shown(bytes[k * WIDTH + j], DEL - 1)
      BY <1>0, <1>7, <1>10 DEF Shown
    <3>3. QED BY <3>1, <3>2 DEF Ascii, Chars
  <2>5. FlattenSeq(FirstRows(k + 1)) = f \o RowTokens(k, DEL - 1)
    <3>1. RowTokens(k, DEL - 1) \in Seq(Token)
      BY <1>1, <2>1, RowTyped, HexdumpAssumption
    <3>2. RowAdded(k, DEL - 1)
      BY <2>1, <3>1, NextRow
    <3>3. QED BY <3>2, Zenon DEF RowAdded, FirstRows, f
  <2> HIDE DEF w, chars
  <2>6. output' = FlattenSeq(FirstRows(k + 1))
    <3>1. output' = f \o w \o (Bar \o chars \o Bar)
      <4>1. output \o Address \o x = f \o w
        BY <1>3, <1>4, <1>10, Zenon DEF w
      <4>2. QED BY <1>8, <1>10, <2>4, <4>1, Zenon
    <3>2. Gathered(f, w, Bar, Bar, chars, Bar)
      BY <1>3, <2>3, Gather, Zenon
    <3>3. QED BY <2>2, <2>5, <3>1, <3>2, Zenon DEF Gathered
  <2>7. FlattenSeq(FirstRows(k + 1)) \o << >> = FlattenSeq(FirstRows(k + 1))
    <3>1. RowTokens(k, DEL - 1) \in Seq(Token)
      BY <1>1, <2>1, RowTyped, HexdumpAssumption
    <3>2. FlattenSeq(FirstRows(k + 1)) \in Seq(Token)
      BY <1>3, <2>5, <3>1, Concat, Zenon
    <3>3. QED BY <3>2, ConcatEmptySeq, Zenon
  <2>8. column' = 0
    <3>1. (WIDTH * 1 + 0) % WIDTH = 0
      BY <1>1, DivUnique
    <3>2. WIDTH * 1 + 0 = c + 1
      BY <1>1, <1>10
    <3>3. QED BY <1>8, <3>1, <3>2
  <2>9. (output = FlattenSeq(FirstRows(k + 1))
                    \o (IF column = 0 THEN << >> ELSE Begun(k + 1, column)))'
    BY <1>5, <2>6, <2>7, <2>8, Zenon DEF Unread
  <2>10. offset' = (k + 1) * WIDTH /\ read' = (k + 1) * WIDTH /\ read' <= Len(bytes')
    BY <1>1, <1>8, <1>10, <2>1
  <2>11. InRow(k + 1)'
    <3>1. column' \in 0 .. WIDTH - 1 /\ (k + 1) * WIDTH + column' = (k + 1) * WIDTH
      BY <1>1, <2>1, <2>8
    <3>2. (\A j \in 1 .. column : ascii[j] = bytes[(k + 1) * WIDTH + j])'
      BY <2>8
    <3>3. QED BY <2>9, <2>10, <3>1, <3>2, Zenon DEF InRow
  <2>12. QED BY <2>1, <2>11
<1>11. QED BY <1>9, <1>10

(* The rows of the data. *)
LEMMA RowsOfData ==
  ASSUME DumpInv, NEW k \in Nat, NEW c \in 0 .. WIDTH - 1, Len(bytes) = k * WIDTH + c
  PROVE  (Len(bytes) + WIDTH - 1) \div WIDTH = IF c = 0 THEN k ELSE k + 1
<1>1. WIDTH \in Nat \ {0}
  BY HexdumpAssumption
<1>2. PICK a \in Nat : a = k * WIDTH /\ a = WIDTH * k
  BY <1>1
<1>3. CASE c = 0
  <2>1. PICK r \in 0 .. WIDTH - 1 : r = WIDTH - 1
    BY <1>1
  <2>2. (WIDTH * k + r) \div WIDTH = k
    BY <1>1, DivUnique
  <2>3. Len(bytes) + WIDTH - 1 = WIDTH * k + r
    BY <1>1, <1>2, <1>3, <2>1
  <2>4. QED BY <1>3, <2>2, <2>3
<1>4. CASE c # 0
  <2>1. PICK r \in 0 .. WIDTH - 1 : r = c - 1
    BY <1>1, <1>4
  <2>2. PICK n \in Nat : n = k + 1
    OBVIOUS
  <2>3. (WIDTH * n + r) \div WIDTH = n
    BY <1>1, DivUnique
  <2>4. WIDTH * n = a + WIDTH
    BY <1>1, <1>2, <2>2
  <2>5. Len(bytes) + WIDTH - 1 = WIDTH * n + r
    BY <1>1, <1>2, <2>1, <2>4
  <2>6. QED BY <1>4, <2>2, <2>3, <2>5
<1>5. QED BY <1>3, <1>4

(* The last row, if it is not full, is printed after the loop.             *)
LEMMA LastRowShows ==
  ASSUME DumpInv, LastRow, NEW k \in Nat, InRow(k)
  PROVE  DumpShowsData'
<1>0. PICK c \in Nat, a \in Nat : c = column /\ a = k * WIDTH
  BY HexdumpAssumption DEF InRow
<1> DEFINE f == FlattenSeq(FirstRows(k))
           b == Begun(k, c)
           chars == Chars(k, c, DEL)
           rows == IF c = 0 THEN k ELSE k + 1
<1>1. /\ c \in 0 .. WIDTH - 1 /\ a + c = Len(bytes) /\ Len(bytes) \in Nat /\ bytes' = bytes
      /\ WIDTH \in Nat \ {0} /\ k * WIDTH <= Len(bytes) /\ k * WIDTH + c <= Len(bytes)
      /\ Len(bytes) = k * WIDTH + c
  <2>1. c \in 0 .. WIDTH - 1 /\ read = a + c
    BY <1>0 DEF InRow
  <2>2. read = Len(bytes) /\ bytes' = bytes
    BY DEF LastRow
  <2>3. QED BY <1>0, <2>1, <2>2, BytesTyped, HexdumpAssumption
<1>2. (Len(bytes) + WIDTH - 1) \div WIDTH = rows
  BY <1>1, RowsOfData
<1>3. f \in Seq(Token)
  BY AddressPrinted
<1>4. \E last \in {DEL - 1, DEL} : output' = FlattenSeq(Rows(rows, last))
  <2>1. CASE c = 0
    <3>1. output' = output /\ output = f \o << >>
      BY <1>0, <2>1 DEF LastRow, InRow
    <3>2. f \o << >> = f
      BY <1>3, ConcatEmptySeq, Zenon
    <3>3. QED BY <2>1, <3>1, <3>2, Zenon DEF FirstRows
  <2>2. CASE c # 0
    <3>1. output = f \o b
      BY <1>0, <2>2 DEF InRow
    <3>2. output' = output \o Blanks(WIDTH - c) \o Bar \o Ascii(Filled, DEL) \o Bar
      BY <1>0, <2>2, Zenon DEF LastRow, Blanks
    <3>3. c \in 1 .. WIDTH /\ c # WIDTH /\ WIDTH - c \in Nat
      BY <1>1, <2>2
    <3>4. Ascii(Filled, DEL) = chars
      <4>1. Filled = [j \in 1 .. c |-> ascii[j]]
        <5>1. ascii \in Seq(Nat) /\ Len(ascii) = WIDTH
          BY <1>1 DEF DumpInv
        <5>2. QED BY <1>0, <1>1, <5>1 DEF Filled
      <4>2. ASSUME NEW j \in 1 .. c
            PROVE  (IF Filled[j] \in SPACE .. DEL THEN <<"char", Filled[j]>> ELSE <<"dot", 0>>)
                     = Shown(bytes[k * WIDTH + j], DEL)
        <5>1. Filled[j] = bytes[k * WIDTH + j]
          BY <1>0, <4>1 DEF InRow
        <5>2. QED BY <5>1, Zenon DEF Shown
      <4>3. DOMAIN Filled = 1 .. c
        BY <4>1
      <4>4. QED BY <4>2, <4>3 DEF Ascii, Chars
    <3>5. /\ b \in Seq(Token) /\ Blanks(WIDTH - c) \in Seq(Token) /\ Bar \in Seq(Token)
          /\ chars \in Seq(Token)
      <4>1. DEL \in Nat
        BY HexdumpAssumption
      <4>2. QED BY <1>1, <3>3, <4>1, HalvesTyped, Zenon
    <3>6. RowTokens(k, DEL) = b \o Blanks(WIDTH - c) \o Bar \o chars \o Bar
      <4>1. RowMade(k, c, DEL)
        BY <1>1, <3>3, RowIs, HexdumpAssumption
      <4>2. QED BY <4>1, Zenon DEF RowMade
    <3>7. RowAdded(k, DEL)
      <4>1. RowTokens(k, DEL) \in Seq(Token)
        BY <1>1, <3>3, RowTyped, HexdumpAssumption
      <4>2. QED BY <1>1, <4>1, NextRow
    <3> HIDE DEF f, b, chars
    <3>8. Gathered(f, b, Blanks(WIDTH - c), Bar, chars, Bar)
      BY <1>3, <3>5, Gather, Zenon
    <3>9. output' = f \o RowTokens(k, DEL)
      BY <3>1, <3>2, <3>4, <3>6, <3>8, Zenon DEF Gathered
    <3>10. QED BY <2>2, <3>7, <3>9, Zenon DEF RowAdded, f
  <2>3. QED BY <2>1, <2>2
<1>5. \A last : Rows(rows, last)' = Rows(rows, last)
  <2>1. rows \in Nat
    OBVIOUS
  <2>2. Unread(rows)
    BY <1>1, <2>1, SameData
  <2>3. QED BY <2>2 DEF Unread
<1>6. QED
  <2>1. (Len(bytes') + WIDTH - 1) \div WIDTH = rows
    BY <1>1, <1>2
  <2> HIDE DEF rows
  <2>2. \E last \in {DEL - 1, DEL} : output' = FlattenSeq(Rows(rows, last)')
    BY <1>4, <1>5, Zenon
  <2>3. QED BY <2>1, <2>2, Zenon DEF DumpShowsData, Rows

(* Nothing is printed at first. *)
LEMMA DumpInitHolds == DumpInit => DumpInv
<1> SUFFICES ASSUME DumpInit PROVE DumpInv
  OBVIOUS
<1> USE DEF DumpInit
<1>1. bytes \in Inputs /\ ascii \in [1 .. WIDTH -> Nat] /\ done = FALSE
  OBVIOUS
<1>2. Len(bytes) \in Nat
  BY HexdumpAssumption, LenProperties DEF Byte
<1>3. FlattenSeq(FirstRows(0)) \o << >> = << >>
  <2>1. FirstRows(0) = << >>
    BY DEF FirstRows, Rows
  <2>2. FlattenSeq(FirstRows(0)) = << >>
    BY <2>1, FlattenNone, Zenon
  <2>3. << >> \o << >> = << >>
    OBVIOUS
  <2>4. QED BY <2>2, <2>3, Zenon
<1>4. InRow(0)
  <2>1. output = FlattenSeq(FirstRows(0)) \o (IF column = 0 THEN << >> ELSE Begun(0, column))
    BY <1>3, Zenon
  <2>2. 0 * WIDTH = 0 /\ WIDTH \in Nat \ {0}
    BY HexdumpAssumption
  <2>3. QED BY <1>2, <2>1, <2>2 DEF InRow
<1>5. DumpShowsData
  BY <1>1, Zenon DEF DumpShowsData
<1>6. 0 \in Nat
  OBVIOUS
<1>7. QED BY <1>1, <1>4, <1>5, <1>6, Zenon DEF DumpInv

(* Every turn keeps the invariant.                                         *)
LEMMA DumpNextHolds == DumpInv /\ [DumpNext]_dumpVars => DumpInv'
<1> SUFFICES ASSUME DumpInv, [DumpNext]_dumpVars PROVE DumpInv'
  OBVIOUS
<1>1. CASE NextByte
  <2>1. done = FALSE /\ done' = FALSE /\ bytes' = bytes
    <3>1. ~(read = Len(bytes))
      BY <1>1, BytesTyped DEF NextByte, DumpInv
    <3>2. QED BY <1>1, <3>1 DEF NextByte, DumpInv
  <2>2. PICK k \in Nat : InRow(k)
    BY <2>1 DEF DumpInv
  <2>3. \E l \in Nat : InRow(l)'
    BY <1>1, <2>2, NextByteKeeps
  <2>4. ascii' \in [1 .. WIDTH -> Nat]
    <3>1. read + 1 \in 1 .. Len(bytes)
      <4>1. read \in Nat
        BY <2>2, HexdumpAssumption DEF InRow
      <4>2. QED BY <1>1, <4>1, BytesTyped DEF NextByte
    <3>2. bytes[read + 1] \in Nat
      BY <3>1, BytesTyped
    <3>3. QED BY <1>1, <3>2 DEF NextByte, DumpInv
  <2>5. DumpShowsData'
    BY <2>1, Zenon DEF DumpShowsData
  <2>6. bytes' \in Inputs
    BY <2>1 DEF DumpInv
  <2>7. QED BY <2>1, <2>3, <2>4, <2>5, <2>6, Zenon DEF DumpInv
<1>2. CASE LastRow
  <2>1. PICK k \in Nat : InRow(k)
    BY <1>2 DEF DumpInv, LastRow
  <2>2. DumpShowsData'
    BY <1>2, <2>1, LastRowShows
  <2>3. /\ bytes' \in Inputs /\ ascii' \in [1 .. WIDTH -> Nat] /\ done' = TRUE
        /\ read' = Len(bytes')
    BY <1>2 DEF LastRow, DumpInv
  <2>4. QED BY <2>2, <2>3, Zenon DEF DumpInv
<1>3. CASE UNCHANGED dumpVars
  <2>1. UNCHANGED <<bytes, read, column, ascii, offset, output, done>>
    BY <1>3 DEF dumpVars
  <2>2. ASSUME NEW k \in Nat, InRow(k) PROVE InRow(k)'
    <3>1. Unread(k)
      BY <2>1, SameData
    <3>2. QED BY <2>1, <2>2, <3>1 DEF InRow, Unread, Begun, Hexes
  <2>3. DumpShowsData'
    <3> DEFINE rows == (Len(bytes) + WIDTH - 1) \div WIDTH
    <3>1. /\ DumpShowsData
          /\ DumpShowsData <=>
               (done => \E last \in {DEL - 1, DEL} : output = FlattenSeq(Rows(rows, last)))
      BY Zenon DEF DumpInv, DumpShowsData, Rows
    <3>2. DumpShowsData' <=>
            (done' => \E last \in {DEL - 1, DEL} : output' = FlattenSeq(Rows(rows, last)'))
      BY <2>1, Zenon DEF DumpShowsData, Rows
    <3>3. \A last : Rows(rows, last)' = Rows(rows, last)
      BY <2>1, SameData, Zenon DEF Unread
    <3>4. QED BY <2>1, <3>1, <3>2, <3>3, Zenon
  <2>4. (\E k \in Nat : InRow(k)) => \E k \in Nat : InRow(k)'
    BY <2>2
  <2>5. QED BY <2>1, <2>3, <2>4 DEF DumpInv
<1>4. QED BY <1>1, <1>2, <1>3 DEF DumpNext

(* The invariant holds in every state.                                     *)
THEOREM DumpInvHolds == DumpSpec => []DumpInv
BY DumpInitHolds, DumpNextHolds, PTL DEF DumpSpec

(* A dump can be read back, whatever the data and the width of a row.      *)
THEOREM DumpShowsItsData == DumpSpec => []DumpShowsData
<1>1. DumpInv => DumpShowsData
  BY DEF DumpInv
<1>2. QED BY <1>1, DumpInvHolds, PTL

=============================================================================
