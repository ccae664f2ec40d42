------------------------------ MODULE TestHarness ------------------------------
(***************************************************************************)
(* From a test in the guest to the exit status that cargo sees             *)
(* (src/wasabi/src/test_runner.rs, qemu.rs, lib.rs and                     *)
(* src/wasabi/scripts/launch_qeme.sh).                                     *)
(*                                                                         *)
(* A test may panic, which the panic handler turns into an exit of QEMU.   *)
(* It may also fault: the test build never installs the kernel's exception *)
(* handlers, so the firmware's take the fault, and stop the processor.  Or *)
(* it may reset the machine, which boots again, since QEMU is not told     *)
(* otherwise.  Somebody at the terminal may end QEMU at any time.          *)
(***************************************************************************)
EXTENDS Integers, Sequences

CONSTANT Suites     \* sequences of what the tests do

Outcomes == {"returns", "panics", "faults", "resets", "loops"}

ASSUME TestHarnessAssumption == Suites \subseteq Seq(Outcomes)

VARIABLES
  tests,            \* the suite
  guest,            \* "firmware", "test_runner", "test", "exiting" or "dead"
  current,          \* the number of the test that was begun last
  log,              \* what the guest has printed since it booted
  exit_code,        \* what exit_qemu writes to port 4
  retcode,          \* QEMU's status, or Running
  quit,             \* somebody has ended QEMU
  verdict, status   \* what the script prints, and its status

vars == <<tests, guest, current, log, exit_code, retcode, quit, verdict, status>>

Running == -1

(* QemuExitCode *)
Success == 1
Fail    == 2

Init ==
  /\ tests \in Suites
  /\ guest = "firmware"
  /\ current = 0
  /\ log = << >>
  /\ exit_code = 0
  /\ retcode = Running
  /\ quit = FALSE
  /\ verdict = "none" /\ status = Running

-----------------------------------------------------------------------------
(* The guest. *)

On == retcode = Running

Log(event, n) == log' = Append(log, <<event, n>>)

(* efi_main of the test build: the heap, and the tests. *)
Boot ==
  /\ On /\ guest = "firmware"
  /\ guest' = "test_runner"
  /\ current' = 0
  /\ Log("Running", 0)
  /\ UNCHANGED <<tests, exit_code, retcode, quit, verdict, status>>

MoreTests == current < Len(tests)

(* Testable::run, up to the call of the test. *)
BeginTest ==
  /\ On /\ guest = "test_runner" /\ MoreTests
  /\ guest' = "test"
  /\ current' = current + 1
  /\ Log("[RUNNING]", current + 1)
  /\ UNCHANGED <<tests, exit_code, retcode, quit, verdict, status>>

(* What the test does. *)
InTest(outcome) == On /\ guest = "test" /\ tests[current] = outcome

TestReturns ==
  /\ InTest("returns")
  /\ guest' = "test_runner"
  /\ Log("[PASS]", current)
  /\ UNCHANGED <<tests, current, exit_code, retcode, quit, verdict, status>>

(* Mutant: the panic handler leaves with the code of success.              *)
PanicCode_success == Success

PanicCode == Fail

(* Mutant: the panic handler halts the processor, as its comment in        *)
(* main.rs has it, and does not leave QEMU.                                *)
TestPanics_halts ==
  /\ InTest("panics")
  /\ guest' = "dead"
  /\ Log("PANIC", current)
  /\ UNCHANGED <<tests, current, exit_code, retcode, quit, verdict, status>>

(* The panic handler; nothing unwinds. *)
TestPanics ==
  /\ InTest("panics")
  /\ guest' = "exiting"
  /\ exit_code' = PanicCode
  /\ Log("PANIC", current)
  /\ UNCHANGED <<tests, current, retcode, quit, verdict, status>>

TestFaults ==
  /\ InTest("faults")
  /\ guest' = "dead"
  /\ UNCHANGED <<tests, current, log, exit_code, retcode, quit, verdict, status>>

TestResets ==
  /\ InTest("resets")
  /\ guest' = "firmware"
  /\ log' = << >>
  /\ UNCHANGED <<tests, current, exit_code, retcode, quit, verdict, status>>

(* The end of test_runner. *)
Complete ==
  /\ On /\ guest = "test_runner" /\ ~MoreTests
  /\ guest' = "exiting"
  /\ exit_code' = Success
  /\ Log("Completed", current)
  /\ UNCHANGED <<tests, current, retcode, quit, verdict, status>>

(* isa-debug-exit *)
exit_qemu ==
  /\ On /\ guest = "exiting"
  /\ retcode' = 2 * exit_code + 1
  /\ UNCHANGED <<tests, guest, current, log, exit_code, quit, verdict, status>>

-----------------------------------------------------------------------------
(* The host. *)

(* QEMU does not start, is quit at its console, or killed. *)
Quit(code) ==
  /\ On
  /\ retcode' = code
  /\ quit' = TRUE
  /\ UNCHANGED <<tests, guest, current, log, exit_code, verdict, status>>

(* Mutant: every small status counts as a normal end.                      *)
Judgement_lenient(code) ==
  IF code = 3 THEN <<"PASS", 0>> ELSE IF code < 8 THEN <<"nothing", 0>> ELSE <<"FAIL", 1>>

Judgement(code) ==
  IF code = 3 THEN <<"PASS", 0>> ELSE IF code = 0 THEN <<"nothing", 0>> ELSE <<"FAIL", 1>>

launch_qeme ==
  /\ ~On /\ verdict = "none"
  /\ verdict' = Judgement(retcode)[1] /\ status' = Judgement(retcode)[2]
  /\ UNCHANGED <<tests, guest, current, log, exit_code, retcode, quit>>

Guest == \/ Boot \/ BeginTest \/ TestReturns \/ TestPanics \/ TestFaults \/ TestResets
         \/ Complete \/ exit_qemu

Next == Guest \/ launch_qeme \/ \E code \in {0, 1, 130} : Quit(code)

Spec == Init /\ [][Next]_vars /\ WF_vars(Guest) /\ WF_vars(launch_qeme)

-----------------------------------------------------------------------------
(***************************************************************************)
(* PassMeansAllRan: PASS is printed only if every test of the suite was    *)
(* begun and returned, in its order - whatever the tests do, and whoever   *)
(* ends QEMU.                                                              *)
(***************************************************************************)
LogLine(k) ==
  IF k = 1 THEN <<"Running", 0>>
  ELSE IF k % 2 = 0 THEN <<"[RUNNING]", k \div 2>> ELSE <<"[PASS]", k \div 2>>

FullLog ==
  Append([k \in 1 .. 2 * Len(tests) + 1 |-> LogLine(k)], <<"Completed", Len(tests)>>)

PassMeansAllRan == verdict = "PASS" => log = FullLog

(***************************************************************************)
(* FailureIsSeen: the status of the script is that of a success only after *)
(* PASS, or when somebody has quit QEMU; no test can bring that about.     *)
(***************************************************************************)
FailureIsSeen == status = 0 => verdict = "PASS" \/ quit

(***************************************************************************)
(* HarnessEnds: a suite in which tests only return and panic comes to a    *)
(* verdict.  (After a fault or in a loop it never does.)                   *)
(***************************************************************************)
HarnessEnds ==
  (\A i \in DOMAIN tests : tests[i] \in {"returns", "panics"}) => <>(verdict # "none")

=============================================================================
