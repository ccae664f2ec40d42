----------------------------- MODULE MCInterrupts -----------------------------
(* Interrupts with two programs, told apart by every register.             *)
EXTENDS Interrupts

Number(r) ==
  CHOOSE k \in DOMAIN (GREGS \o CONTEXT \o <<"fpu">>) :
    (GREGS \o CONTEXT \o <<"fpu">>)[k] = r

MCPrograms == {[r \in Registers |-> 10000 * n + Number(r)] : n \in 1 .. 2}

(* A write to a page that is not present, and a user's instruction fetch.  *)
MCErrorCodes == {2, 21}

=============================================================================
