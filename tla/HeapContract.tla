---------------------------- MODULE HeapContract ----------------------------
(***************************************************************************)
(* What a heap promises its callers, whatever its data structure: the      *)
(* GlobalAlloc contract that allocator.rs implements.  Regions of memory   *)
(* are donated to the pool while the heap is initialised; then callers ask *)
(* for a Layout, and each request is answered by a pointer to a range of   *)
(* the pool that is aligned and shares no byte with a range still held, or *)
(* by null; a caller gives a range back by its pointer.                    *)
(***************************************************************************)
EXTENDS Integers

CONSTANTS
  Layouts,    \* the [size, align] records callers ask for
  Regions     \* the [lo, hi) extents, records, that can be donated

VARIABLES
  pool,       \* the extents donated so far
  pending,    \* the layout of the request being answered, as a set of 0 or 1
  live        \* the layout of every range held by a caller, by its pointer

contractVars == <<pool, pending, live>>

ContractTypeOK ==
  /\ pool \subseteq Regions
  /\ pending \subseteq Layouts
  /\ \A p \in DOMAIN live : p \in Nat /\ live[p] \in Layouts

InPool(p, layout) ==
  \E r \in pool : r.lo <= p /\ p + layout.size <= r.hi

Aligned(p, layout) == p % layout.align = 0

SharesNoByte(p, layout) ==
  \A q \in DOMAIN live : p + layout.size <= q \/ q + live[q].size <= p

ContractInit ==
  /\ pool = {}
  /\ pending = {}
  /\ live = << >>

Donate(region) ==
  /\ pending = {}
  /\ pool' = pool \cup {region}
  /\ UNCHANGED <<pending, live>>

Request(layout) ==
  /\ pending = {}
  /\ pending' = {layout}
  /\ UNCHANGED <<pool, live>>

Grant(p, layout) ==
  /\ layout \in pending
  /\ p # 0 /\ p \notin DOMAIN live
  /\ InPool(p, layout)
  /\ Aligned(p, layout)
  /\ SharesNoByte(p, layout)
  /\ pending' = {}
  /\ live' = [q \in DOMAIN live \cup {p} |->
                IF q = p THEN layout ELSE live[q]]
  /\ UNCHANGED pool

Refuse ==
  /\ pending # {}
  /\ pending' = {}
  /\ UNCHANGED <<pool, live>>

Release(p) ==
  /\ pending = {}
  /\ live' = [q \in DOMAIN live \ {p} |-> live[q]]
  /\ UNCHANGED <<pool, pending>>

Answer ==
  \/ \E p \in DOMAIN live', layout \in Layouts : Grant(p, layout)
  \/ Refuse

ContractNext ==
  \/ \E region \in Regions : Donate(region)
  \/ \E layout \in Layouts : Request(layout)
  \/ Answer
  \/ \E p \in DOMAIN live : Release(p)

ContractSafety == ContractInit /\ [][ContractNext]_contractVars

(* Every request is answered, by a pointer or by null.                     *)
Answered == pending # {} ~> pending = {}

ContractSpec == ContractSafety /\ Answered

=============================================================================
