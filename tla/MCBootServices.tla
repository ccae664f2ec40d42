---------------------------- MODULE MCBootServices ----------------------------
(* BootServices on a few pages: the kernel's image between free memory and *)
(* memory of the firmware; the last map fits at first and can grow.        *)
EXTENDS BootServices

MCPageMaps ==
  { [p \in 0 .. 3 |-> IF p = 1 THEN LOADED ELSE CONVENTIONAL],
    [p \in 0 .. 3 |-> IF p = 0 THEN LOADED
                      ELSE IF p = 2 THEN FIRMWARE ELSE CONVENTIONAL],
    [p \in 0 .. 3 |-> IF p = 0 THEN LOADED ELSE CONVENTIONAL] }

=============================================================================
