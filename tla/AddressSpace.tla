----------------------------- MODULE AddressSpace -----------------------------
(***************************************************************************)
(* What a caller of create_mapping may rely on, however the tables are     *)
(* built: while a call is served, the pages of its range come to be        *)
(* translated as it asks, one after another, and no other page changes;    *)
(* Ok means all of them are; Err means that nothing was touched.           *)
(***************************************************************************)
EXTENDS Integers

CONSTANTS
  Pages,      \* the virtual addresses of pages
  Calls,      \* the calls [virt_start, virt_end, phys, attr] there may be
  Valid(_),   \* the calls that are not refused
  NotMapped   \* how an address that is not present is translated

VARIABLES
  space,      \* the translation of each page: [phys, attr] or NotMapped
  serving,    \* the call in progress, as a set of 0 or 1
  result      \* "none", "ok", "err" or "panic"

spaceVars == <<space, serving, result>>

Range(call) == {p \in Pages : call.virt_start <= p /\ p < call.virt_end}

(* The translation that the call asks for page p. *)
Wanted(call, p) ==
  IF call.attr % 2 = 0
  THEN NotMapped
  ELSE [phys |-> call.phys + p - call.virt_start, attr |-> call.attr]

SpaceInit ==
  /\ space = [p \in Pages |-> NotMapped]
  /\ serving = {}
  /\ result = "none"

Begin(call) ==
  /\ serving = {} /\ Valid(call)
  /\ serving' = {call} /\ result' = "none"
  /\ UNCHANGED space

Refuse(call) ==
  /\ serving = {} /\ ~Valid(call)
  /\ result' = "err"
  /\ UNCHANGED <<space, serving>>

MapPage(call, p) ==
  /\ call \in serving /\ p \in Range(call)
  /\ space' = [space EXCEPT ![p] = Wanted(call, p)]
  /\ UNCHANGED <<serving, result>>

Finish(call) ==
  /\ call \in serving
  /\ \A p \in Range(call) : space[p] = Wanted(call, p)
  /\ serving' = {} /\ result' = "ok"
  /\ UNCHANGED space

(* The kernel panics when a table cannot be allocated. *)
Panic ==
  /\ serving # {}
  /\ serving' = {} /\ result' = "panic"
  /\ UNCHANGED space

SpaceNext ==
  \/ \E call \in Calls : Begin(call) \/ Refuse(call) \/ Finish(call)
  \/ \E call \in Calls : \E p \in Range(call) : MapPage(call, p)
  \/ Panic

SpaceSpec == SpaceInit /\ [][SpaceNext]_spaceVars

=============================================================================
