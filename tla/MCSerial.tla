-------------------------------- MODULE MCSerial --------------------------------
(* Prints on two ports, in both ways, with a breakpoint between them;      *)
(* characters are distinct, and one of them does not fit a byte.           *)
EXTENDS Serial

Com2 == "com2"

MCProgram ==
  << [op |-> "write_str", port |-> COM1, text |-> <<1, 2>>],
     [op |-> "int3",      port |-> COM1, text |-> << >>],
     [op |-> "send_str",  port |-> Com2, text |-> <<6, 7>>],
     [op |-> "write_str", port |-> Com2, text |-> <<3, 9>>] >>

MCReport == <<4, 5>>

=============================================================================
