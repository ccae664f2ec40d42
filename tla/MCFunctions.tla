------------------------------ MODULE MCFunctions ------------------------------
(***************************************************************************)
(* What the kernel computes and shows without anyone else taking part, one *)
(* subject in each behaviour: the arithmetic of a heap request, for every  *)
(* size and alignment of a narrow machine; hexdump_bytes, over all data of *)
(* up to five bytes in rows of two - a control byte, the first and the     *)
(* last printable one, DEL and one beyond; and the clients of the screen,  *)
(* as MCScreen has them.                                                   *)
(***************************************************************************)
EXTENDS MCScreen, LayoutProperties, Hexdump

VARIABLE subject

functionsVars == <<argVars, subject, dumpVars, vars>>

MCPow2 == [n \in 0 .. USIZE_BITS - 1 |-> 2 ^ n]

MCInputs == UNION {[1 .. n -> {0, SPACE, DEL - 1, DEL, DEL + 1}] : n \in 0 .. 5}

(* Those that have no part in a behaviour are in one of their first states. *)
AtRest(other) ==
  CASE other = "hexdump" -> bytes = << >>
    [] other = "screen"  -> /\ client = "text" /\ screen \in {CHOOSE s \in TextScreens : TRUE}
                            /\ overflow_checks = TRUE
    [] other = "arithmetic" -> TRUE

Subjects == {"arithmetic", "hexdump", "screen"}

FunctionsInit ==
  /\ subject \in Subjects
  /\ \A other \in Subjects \ {subject} : AtRest(other)
  /\ ArgInit /\ DumpInit /\ Init

FunctionsNext ==
  \/ subject = "arithmetic" /\ ArgNext /\ UNCHANGED <<subject, dumpVars, vars>>
  \/ subject = "hexdump" /\ DumpNext /\ UNCHANGED <<subject, argVars, vars>>
  \/ subject = "screen" /\ Next /\ UNCHANGED <<subject, argVars, dumpVars>>

FunctionsSpec == FunctionsInit /\ [][FunctionsNext]_functionsVars

=============================================================================
