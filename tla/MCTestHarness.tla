----------------------------- MODULE MCTestHarness -----------------------------
(* All suites of up to three tests. *)
EXTENDS TestHarness

MCSuites == UNION {[1 .. n -> Outcomes] : n \in 0 .. 3}

=============================================================================
