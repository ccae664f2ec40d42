----------------------------- MODULE LayoutArith -----------------------------
(***************************************************************************)
(* The arithmetic of a heap request (src/wasabi/src/allocator.rs): how the *)
(* size and the alignment of a Layout are rounded before a region is       *)
(* carved, how much room that takes, and where the carved block ends up.   *)
(*                                                                         *)
(* Numbers are usize values of USIZE_BITS bits.  Pow2[n] is the usize with *)
(* only bit n set, the value 1usize << n; it is a constant described by    *)
(* its recurrence because no installed prover reasons about 2^n.           *)
(***************************************************************************)
EXTENDS Integers

CONSTANTS
  USIZE_BITS,    \* usize::BITS
  Pow2           \* Pow2[n] = 1usize << n, for n < usize::BITS

ASSUME Pow2Assumption ==
  /\ USIZE_BITS \in Nat /\ USIZE_BITS >= 8
  /\ Pow2 \in [0 .. USIZE_BITS - 1 -> Nat \ {0}]
  /\ Pow2[0] = 1
  /\ \A n \in 1 .. USIZE_BITS - 1 : Pow2[n] = 2 * Pow2[n - 1]

USIZE_MAX == 2 * Pow2[USIZE_BITS - 1] - 1
ISIZE_MAX == Pow2[USIZE_BITS - 1] - 1

HEADER_SIZE == 32

(***************************************************************************)
(* round_up_to_nearest_pow2: the shift is the number of significant bits   *)
(* of v - 1 (usize::BITS less its leading zeros), where the subtraction    *)
(* wraps at zero, and a shift by usize::BITS is refused.                   *)
(***************************************************************************)
(* Mutant: the bits of v are counted, not those of v - 1.                  *)
WrappingPred_same(v) == v

WrappingPred(v) == IF v = 0 THEN USIZE_MAX ELSE v - 1

HasSignificantBits(x, n) == x < Pow2[n] /\ (n > 0 => Pow2[n - 1] <= x)

RoundsUp(v) ==
  \E n \in 0 .. USIZE_BITS - 1 : HasSignificantBits(WrappingPred(v), n)

round_up_to_nearest_pow2(v) ==
  Pow2[CHOOSE n \in 0 .. USIZE_BITS - 1 :
         HasSignificantBits(WrappingPred(v), n)]

Larger(a, b) == IF a >= b THEN a ELSE b

(* Mutant: one shift too many.                                             *)
ProvidedSize_shifted(size) ==
  Larger(2 * round_up_to_nearest_pow2(size), HEADER_SIZE)

(* The first two lines of Header::provide. *)
ProvidedSize(size)   == Larger(round_up_to_nearest_pow2(size), HEADER_SIZE)
ProvidedAlign(align) == Larger(align, HEADER_SIZE)

(* What Header::can_provide asks a free region to hold. *)
SpaceNeeded(layout) ==
  ProvidedSize(layout.size) + HEADER_SIZE * 2 + ProvidedAlign(layout.align)

(* Mutant: rounds up, (x + align - 1) & !(align - 1).                      *)
AlignDown_up(x, align) == (x + align - 1) - ((x + align - 1) % align)

(* x & !(align - 1), for an align that is a power of two. *)
AlignDown(x, align) == x - (x % align)

=============================================================================
