--------------------------------- MODULE Serial ---------------------------------
(***************************************************************************)
(* The serial port and what prints to it (src/wasabi/src/serial.rs,        *)
(* print.rs, and who calls the print macros in main.rs and x86.rs).        *)
(*                                                                         *)
(* There is no lock and no buffer: the kernel polls the status register    *)
(* and writes one byte.  An exception may come between the poll and the    *)
(* write; its handler prints too.  Only a breakpoint returns, and the one  *)
(* int3 of the kernel lies between two prints; every other exception ends  *)
(* in the panic handler, which prints once more and leaves QEMU.           *)
(*                                                                         *)
(* A report stands for all the lines that one handler prints.  The UART is *)
(* external: a transmit register, emptied onto the line at its own pace.   *)
(***************************************************************************)
EXTENDS Integers, Sequences, FiniteSets, SequencesExt

CONSTANTS
  Ports, COM1,
  BYTES,            \* a u8 lies in 0 .. BYTES - 1
  Program,          \* what efi_main does: [op, port, text]
  Report,           \* what a handler prints, and the panic handler
  MaxExceptions     \* bound: exceptions that do not return

ASSUME SerialAssumption ==
  /\ COM1 \in Ports
  /\ BYTES \in Nat \ {0} /\ MaxExceptions \in Nat
  /\ Report \in Seq(Nat)
  /\ Program \in Seq([op : {"write_str", "send_str", "int3"}, port : Ports, text : Seq(Nat)])

VARIABLES
  pc,               \* how much of the program has been begun
  calls,            \* activities, the innermost last: [kind, print, ready]
  prints,           \* history: every print begun, [op, port, text, sent]
  thr,              \* the transmit holding register of each port
  line,             \* what each port has transmitted
  exited            \* QEMU has ended

serialVars == <<pc, calls, prints, thr, line, exited>>

-----------------------------------------------------------------------------
SerialInit ==
  /\ pc = 0
  /\ calls = << [kind |-> "program", print |-> 0, ready |-> FALSE] >>
  /\ prints = << >>
  /\ thr \in [Ports -> {<< >>, <<0>>}]     \* the firmware has printed, too
  /\ line = [p \in Ports |-> << >>]
  /\ exited = FALSE

Top == Last(calls)

(* The innermost activity goes on as a. *)
Continue(a) == calls' = Append(Front(calls), a)

(* print = 0 means that none is in progress. *)
Printing == Top.print # 0 /\ prints[Top.print].sent < Len(prints[Top.print].text)

Printed == Top.print # 0 /\ ~Printing

NewPrint(op, port, text) ==
  Append(prints, [op |-> op, port |-> port, text |-> text, sent |-> 0])

(* global_print makes a SerialPort of its own for each print. *)
PrintReport == NewPrint("write_str", COM1, Report)

(***************************************************************************)
(* fmt::Write::write_str makes another SerialPort and does not use its     *)
(* own; send_str does.                                                     *)
(***************************************************************************)
PortOf(print) == IF print.op = "write_str" THEN COM1 ELSE print.port

(* Mutant: the status is not read.                                         *)
TransmitEmpty_unread(p) == TRUE

(* Mutant: the status bit is read the wrong way round.                     *)
TransmitEmpty_inverted(p) == thr[p] # << >>

(* Bit 5 of the line status register. *)
TransmitEmpty(p) == thr[p] = << >>

as_u8(c) == c % BYTES

-----------------------------------------------------------------------------
InQemu == ~exited

(* The next print of the program, between two others. *)
BeginPrint ==
  /\ InQemu /\ Top.kind = "program" /\ Top.print = 0
  /\ pc < Len(Program) /\ Program[pc + 1].op # "int3"
  /\ pc' = pc + 1
  /\ prints' = NewPrint(Program[pc + 1].op, Program[pc + 1].port, Program[pc + 1].text)
  /\ Continue([Top EXCEPT !.print = Len(prints) + 1])
  /\ UNCHANGED <<thr, line, exited>>

(* trigger_debug_interrupt, and the handler of vector 3. *)
Breakpoint ==
  /\ InQemu /\ Top.kind = "program" /\ Top.print = 0
  /\ pc < Len(Program) /\ Program[pc + 1].op = "int3"
  /\ pc' = pc + 1
  /\ prints' = PrintReport
  /\ calls' = Append(calls, [kind |-> "breakpoint", print |-> Len(prints) + 1, ready |-> FALSE])
  /\ UNCHANGED <<thr, line, exited>>

(* Any other exception or interrupt, at whatever instruction. *)
Exception ==
  /\ InQemu
  /\ Cardinality({i \in DOMAIN calls : calls[i].kind = "exception"}) < MaxExceptions
  /\ prints' = PrintReport
  /\ calls' = Append(calls, [kind |-> "exception", print |-> Len(prints) + 1, ready |-> FALSE])
  /\ UNCHANGED <<pc, thr, line, exited>>

(* send_char: the loop is left; until then it changes nothing. *)
Poll ==
  /\ InQemu /\ Printing /\ ~Top.ready
  /\ TransmitEmpty(PortOf(prints[Top.print]))
  /\ Continue([Top EXCEPT !.ready = TRUE])
  /\ UNCHANGED <<pc, prints, thr, line, exited>>

(* send_char: the byte replaces whatever the register holds. *)
Write ==
  /\ InQemu /\ Printing /\ Top.ready
  /\ LET print == prints[Top.print]
     IN  thr' = [thr EXCEPT ![PortOf(print)] = <<as_u8(print.text[print.sent + 1])>>]
  /\ prints' = [prints EXCEPT ![Top.print].sent = @ + 1]
  /\ Continue([Top EXCEPT !.ready = FALSE])
  /\ UNCHANGED <<pc, line, exited>>

(* What follows a print that has ended. *)
EndPrint ==
  /\ InQemu /\ Printed
  /\ \/ /\ Top.kind = "program"
        /\ Continue([Top EXCEPT !.print = 0])
        /\ UNCHANGED <<prints, exited>>
     \/ /\ Top.kind = "breakpoint"
        /\ calls' = Front(calls)
        /\ UNCHANGED <<prints, exited>>
     \/ /\ Top.kind = "exception"          \* panic!("fatal exception")
        /\ prints' = PrintReport
        /\ calls' = Append(calls, [kind |-> "panic", print |-> Len(prints) + 1, ready |-> FALSE])
        /\ UNCHANGED exited
     \/ /\ Top.kind = "panic"
        /\ exited' = TRUE                  \* exit_qemu(QemuExitCode::Fail)
        /\ UNCHANGED <<calls, prints>>
  /\ UNCHANGED <<pc, thr, line>>

(* The last statement of efi_main. *)
ExitQemu ==
  /\ InQemu /\ Top.kind = "program" /\ Top.print = 0 /\ pc = Len(Program)
  /\ exited' = TRUE
  /\ UNCHANGED <<pc, calls, prints, thr, line>>

(* The UART. *)
Transmit(p) ==
  /\ InQemu /\ thr[p] # << >>
  /\ thr' = [thr EXCEPT ![p] = << >>]
  /\ line' = [line EXCEPT ![p] = @ \o thr[p]]
  /\ UNCHANGED <<pc, calls, prints, exited>>

Kernel == BeginPrint \/ Breakpoint \/ Poll \/ Write \/ EndPrint \/ ExitQemu

SerialNext == Kernel \/ Exception \/ \E p \in Ports : Transmit(p)

(* The processor executes; a port that works empties its register.  No     *)
(* exception has to come.                                                  *)
SerialSpec ==
  /\ SerialInit /\ [][SerialNext]_serialVars
  /\ WF_serialVars(Kernel) /\ \A p \in Ports : WF_serialVars(Transmit(p))

-----------------------------------------------------------------------------
(***************************************************************************)
(* OutputInOrder: a port carries what was sent to it, byte for byte, in    *)
(* the order in which the prints were begun.  So no byte is overwritten in *)
(* the register although the poll and the write are two steps, and no      *)
(* print goes on after another has come between: lines do not mix.         *)
(***************************************************************************)
SentBytes(print) == [i \in 1 .. print.sent |-> print.text[i] % BYTES]

(* What was sent to port p, print by print. *)
Pieces(p) ==
  [i \in DOMAIN prints |-> IF PortOf(prints[i]) = p THEN SentBytes(prints[i]) ELSE << >>]

InOrder(p) ==
  LET carried == line[p] \o thr[p]
      sent == FlattenSeq(Pieces(p))
  IN  carried = sent \/ carried = <<0>> \o sent

OutputInOrder == \A p \in Ports : InOrder(p)

(***************************************************************************)
(* MachineStops: however the exceptions fall, the polling ends each time   *)
(* and the kernel leaves QEMU at last.                                     *)
(***************************************************************************)
MachineStops == <>exited

=============================================================================
