--------------------------- MODULE LayoutProperties ---------------------------
(***************************************************************************)
(* What the arithmetic of LayoutArith has to do for every request: the     *)
(* state is one pair of arguments, and the steps count through every size  *)
(* and alignment of a usize.                                               *)
(***************************************************************************)
EXTENDS LayoutArith

VARIABLES
  layout_size,   \* Layout::size
  log2_align     \* Layout::align is Pow2[log2_align]

argVars == <<layout_size, log2_align>>

ArgInit == layout_size = 0 /\ log2_align = 0

NextAlign ==
  /\ log2_align < USIZE_BITS - 1
  /\ log2_align' = log2_align + 1
  /\ UNCHANGED layout_size

NextSize ==
  /\ log2_align = USIZE_BITS - 1 /\ layout_size < USIZE_MAX
  /\ log2_align' = 0
  /\ layout_size' = layout_size + 1

ArgNext == NextAlign \/ NextSize

ArgSpec == ArgInit /\ [][ArgNext]_argVars

Argument == [size |-> layout_size, align |-> Pow2[log2_align]]

(* core::alloc::Layout::from_size_align accepts the pair. *)
IsLayout == layout_size <= ISIZE_MAX - (Argument.align - 1)

PowersOfTwo == {Pow2[n] : n \in 0 .. USIZE_BITS - 1}

(***************************************************************************)
(* RoundsUpToLeast: round_up_to_nearest_pow2 gives the least power of two  *)
(* not below its argument, and refuses exactly the arguments for which a   *)
(* usize holds none, and zero (round_up_to_nearest_pow2_tests).            *)
(***************************************************************************)
RoundsUpToLeast ==
  /\ RoundsUp(layout_size) <=> layout_size # 0 /\ \E p \in PowersOfTwo : layout_size <= p
  /\ RoundsUp(layout_size) =>
       LET r == round_up_to_nearest_pow2(layout_size)
       IN  /\ r \in PowersOfTwo /\ layout_size <= r
           /\ \A p \in PowersOfTwo : layout_size <= p => r <= p

(***************************************************************************)
(* SpaceNeverWraps: the sum that can_provide compares with self.size does  *)
(* not wrap for any Layout, however large: a wrapped sum would make a      *)
(* small block look large enough.                                          *)
(***************************************************************************)
SpaceNeverWraps ==
  IsLayout /\ RoundsUp(layout_size) => SpaceNeeded(Argument) <= USIZE_MAX

=============================================================================
