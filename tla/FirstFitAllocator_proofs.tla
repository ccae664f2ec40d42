----------------------- MODULE FirstFitAllocator_proofs -----------------------
(***************************************************************************)
(* FirstFitAllocator is correct for every memory map, every set of layouts *)
(* and every width of usize.                                               *)
(*                                                                         *)
(* The inductive invariant is HeapInv: the types, the tiling of the        *)
(* regions by blocks (Tiled), the agreement of the headers with what       *)
(* callers hold (HeldBacked) and what the walk has passed over (FirstFit). *)
(* NoOverlap and SplitFits follow from it in each state.                   *)
(*                                                                         *)
(* The arithmetic of a request comes first, with the theorems of           *)
(* LayoutProperties.                                                       *)
(***************************************************************************)
EXTENDS FirstFitAllocator, LayoutProperties, IntegerFacts

HeapInv ==
  /\ TypeOK
  /\ Tiled
  /\ HeldBacked
  /\ FirstFit

-----------------------------------------------------------------------------
(* The arithmetic of a request.  The powers of two below HEADER_SIZE are   *)
(* the five that PowerCases lists; every other one is a multiple of        *)
(* HEADER_SIZE, by five steps of the recurrence of Pow2.                   *)

(* A power of two is 1, 2, 4, 8 or 16, or a multiple of HEADER_SIZE.       *)
LEMMA PowerCases ==
  ASSUME NEW n \in 0 .. USIZE_BITS - 1
  PROVE  \/ Pow2[n] \in {1, 2, 4, 8, 16}
         \/ Pow2[n] % HEADER_SIZE = 0 /\ Pow2[n] >= HEADER_SIZE
<1>0. ASSUME NEW m \in 1 .. USIZE_BITS - 1
      PROVE  /\ Pow2[m] = 2 * Pow2[m - 1]
             /\ Pow2[m] \in Nat \ {0} /\ Pow2[m - 1] \in Nat \ {0}
  <2>1. USIZE_BITS \in Nat /\ m \in 0 .. USIZE_BITS - 1 /\ m - 1 \in 0 .. USIZE_BITS - 1
    BY Pow2Assumption
  <2>2. QED BY <2>1, Pow2Assumption
<1>1. /\ Pow2[0] = 1 /\ Pow2[1] = 2 /\ Pow2[2] = 4 /\ Pow2[3] = 8
      /\ Pow2[4] = 16
  <2>1. Pow2[0] = 1 /\ \A m \in 1 .. 4 : m \in 1 .. USIZE_BITS - 1
    BY Pow2Assumption
  <2>2. Pow2[1] = 2 * Pow2[1 - 1] /\ Pow2[2] = 2 * Pow2[2 - 1]
        /\ Pow2[3] = 2 * Pow2[3 - 1] /\ Pow2[4] = 2 * Pow2[4 - 1]
    BY <1>0, <2>1
  <2>3. QED BY <2>1, <2>2
<1>2. CASE n < 5
  BY <1>1, <1>2
<1>3. CASE n >= 5
  <2>1. n \in 1 .. USIZE_BITS - 1 /\ n - 1 \in 1 .. USIZE_BITS - 1
        /\ n - 2 \in 1 .. USIZE_BITS - 1 /\ n - 3 \in 1 .. USIZE_BITS - 1
        /\ n - 4 \in 1 .. USIZE_BITS - 1
    BY <1>3, Pow2Assumption
  <2>2. Pow2[n] = 2 * Pow2[n - 1] /\ Pow2[n - 1] = 2 * Pow2[n - 2]
        /\ Pow2[n - 2] = 2 * Pow2[n - 3] /\ Pow2[n - 3] = 2 * Pow2[n - 4]
        /\ Pow2[n - 4] = 2 * Pow2[n - 5] /\ Pow2[n - 5] \in Nat \ {0}
    <3>1. (n - 1) - 1 = n - 2 /\ (n - 2) - 1 = n - 3 /\ (n - 3) - 1 = n - 4
          /\ (n - 4) - 1 = n - 5
      BY <2>1, SMT
    <3>2. QED BY <1>0, <2>1, <3>1, SMT
  <2>3. Pow2[n] = 32 * Pow2[n - 5]
    BY <2>2, SMT
  <2>4. QED BY <2>2, <2>3, SMT DEF HEADER_SIZE
<1>4. QED BY <1>2, <1>3, SMT

(* Rounding up loses nothing of the size that was asked for.               *)
LEMMA RoundUpBounds ==
  ASSUME NEW v \in Nat, RoundsUp(v)
  PROVE  /\ round_up_to_nearest_pow2(v) \in Nat
         /\ v <= round_up_to_nearest_pow2(v)
         /\ \E n \in 0 .. USIZE_BITS - 1 : round_up_to_nearest_pow2(v) = Pow2[n]
<1> DEFINE bits == CHOOSE n \in 0 .. USIZE_BITS - 1 :
                     HasSignificantBits(WrappingPred(v), n)
<1>1. bits \in 0 .. USIZE_BITS - 1 /\ HasSignificantBits(WrappingPred(v), bits)
  BY Zenon DEF RoundsUp
<1>2. WrappingPred(v) < Pow2[bits] /\ Pow2[bits] \in Nat \ {0}
  BY <1>1, Pow2Assumption DEF HasSignificantBits
<1>3. v <= Pow2[bits]
  <2>1. CASE v = 0
    BY <1>2, <2>1
  <2>2. CASE v # 0
    BY <1>2, <2>2 DEF WrappingPred
  <2>3. QED BY <2>1, <2>2
<1>4. QED BY <1>1, <1>2, <1>3 DEF round_up_to_nearest_pow2

(* The size that is carved: whole header units, at least what was asked.   *)
LEMMA ProvidedSizeBounds ==
  ASSUME NEW v \in Nat, RoundsUp(v)
  PROVE  /\ ProvidedSize(v) \in Nat
         /\ ProvidedSize(v) >= HEADER_SIZE
         /\ ProvidedSize(v) % HEADER_SIZE = 0
         /\ v <= ProvidedSize(v)
<1>1. PICK n \in 0 .. USIZE_BITS - 1 : round_up_to_nearest_pow2(v) = Pow2[n]
  BY RoundUpBounds
<1>2. v <= Pow2[n] /\ Pow2[n] \in Nat
  BY <1>1, RoundUpBounds
<1>3. \/ Pow2[n] \in {1, 2, 4, 8, 16}
      \/ Pow2[n] % HEADER_SIZE = 0 /\ Pow2[n] >= HEADER_SIZE
  BY PowerCases
<1>4. QED BY <1>1, <1>2, <1>3, SMT DEF ProvidedSize, Larger, HEADER_SIZE

(* The alignment that is carved for: whole header units, and addresses     *)
(* aligned to it are aligned to what was asked.                            *)
LEMMA ProvidedAlignBounds ==
  ASSUME NEW n \in 0 .. USIZE_BITS - 1, NEW align, align = Pow2[n]
  PROVE  /\ ProvidedAlign(align) \in Nat
         /\ ProvidedAlign(align) >= HEADER_SIZE
         /\ ProvidedAlign(align) % HEADER_SIZE = 0
         /\ \A x \in Nat : x % ProvidedAlign(align) = 0 => x % align = 0
<1>0. align \in Nat \ {0}
  BY Pow2Assumption
<1>1. CASE align \in {1, 2, 4, 8, 16}
  <2>1. ProvidedAlign(align) = 32
    BY <1>1, SMT DEF ProvidedAlign, Larger, HEADER_SIZE
  <2>2. ASSUME NEW x \in Nat, x % 32 = 0 PROVE x % align = 0
    BY <1>1, <2>2, SMT
  <2>3. QED BY <2>1, <2>2, SMT DEF HEADER_SIZE
<1>2. CASE align % HEADER_SIZE = 0 /\ align >= HEADER_SIZE
  <2>1. ProvidedAlign(align) = align
    BY <1>0, <1>2, SMT DEF ProvidedAlign, Larger, HEADER_SIZE
  <2>2. QED BY <1>0, <1>2, <2>1
<1>3. QED BY <1>1, <1>2, PowerCases

(* Rounding down to a multiple of a unit stays close below.                *)
LEMMA AlignDownBounds ==
  ASSUME NEW x \in Nat, NEW align \in Nat, align >= HEADER_SIZE,
         align % HEADER_SIZE = 0
  PROVE  /\ AlignDown(x, align) \in Nat
         /\ AlignDown(x, align) <= x
         /\ AlignDown(x, align) > x - align
         /\ AlignDown(x, align) % align = 0
         /\ AlignDown(x, align) % HEADER_SIZE = 0
<1> USE DEF HEADER_SIZE
<1>1. x % align \in 0 .. align - 1 /\ x = align * (x \div align) + (x % align)
      /\ x \div align \in Nat
  BY SMT
<1>2. AlignDown(x, align) = align * (x \div align)
  BY <1>1, SMT DEF AlignDown
<1>3. AlignDown(x, align) \in Nat /\ AlignDown(x, align) <= x
      /\ AlignDown(x, align) > x - align
  BY <1>1, SMT DEF AlignDown
<1>4. AlignDown(x, align) % align = 0
  BY <1>1, <1>2, SMT
<1>5. AlignDown(x, align) % HEADER_SIZE = 0
  <2>1. PICK m \in Nat : align = 32 * m
    <3>1. align = 32 * (align \div 32) /\ align \div 32 \in Nat
      BY SMT
    <3>2. QED BY <3>1
  <2>2. AlignDown(x, align) = 32 * (m * (x \div align))
    <3>1. ASSUME NEW q \in Nat PROVE (32 * m) * q = 32 * (m * q)
      BY SMT
    <3>2. QED BY <1>1, <1>2, <2>1, <3>1
  <2>3. m * (x \div align) \in Nat
    BY <1>1, <2>1, SMT
  <2>4. QED BY <2>2, <2>3, SMT
<1>6. QED BY <1>3, <1>4, <1>5

(* Powers are positive, and there are at least eight of them.              *)
LEMMA PowerFacts ==
  /\ USIZE_BITS \in Nat /\ USIZE_BITS >= 8 /\ USIZE_BITS - 1 \in 0 .. USIZE_BITS - 1
  /\ \A n \in 0 .. USIZE_BITS - 1 : Pow2[n] \in Nat \ {0}
  /\ \A n \in 1 .. USIZE_BITS - 1 : Pow2[n] = 2 * Pow2[n - 1]
  /\ Pow2[0] = 1
  /\ USIZE_MAX \in Nat /\ USIZE_MAX = 2 * Pow2[USIZE_BITS - 1] - 1
<1>1. USIZE_BITS \in Nat /\ USIZE_BITS >= 8 /\ USIZE_BITS - 1 \in 0 .. USIZE_BITS - 1
  BY Pow2Assumption
<1>2. \A n \in 0 .. USIZE_BITS - 1 : Pow2[n] \in Nat \ {0}
  BY Pow2Assumption
<1>3. Pow2[USIZE_BITS - 1] \in Nat \ {0}
  BY <1>1, <1>2
<1>4. USIZE_MAX = 2 * Pow2[USIZE_BITS - 1] - 1 /\ USIZE_MAX \in Nat
  BY <1>3 DEF USIZE_MAX
<1>5. QED BY <1>1, <1>2, <1>4, Pow2Assumption, Zenon

(* A larger exponent gives a larger power.  If some did not, the least     *)
(* such would be one step above one that does.                             *)
LEMMA PowersGrow ==
  ASSUME NEW m \in 0 .. USIZE_BITS - 1, NEW n \in 0 .. USIZE_BITS - 1, m <= n
  PROVE  Pow2[m] <= Pow2[n]
<1> DEFINE Smaller == {k \in m .. USIZE_BITS - 1 : Pow2[k] < Pow2[m]}
<1>1. SUFFICES ASSUME Pow2[m] > Pow2[n] PROVE FALSE
  BY Pow2Assumption
<1>2. n \in Smaller /\ Smaller \in SUBSET Nat
  BY <1>1, Pow2Assumption
<1>3. PICK k \in Smaller : \A l \in Smaller : k <= l
  <2> HIDE DEF Smaller
  <2>1. QED BY <1>2, Least
<1>4. k \in m .. USIZE_BITS - 1 /\ k # m /\ Pow2[k] < Pow2[m]
  BY PowerFacts
<1>5. k \in 1 .. USIZE_BITS - 1 /\ k - 1 \in 0 .. USIZE_BITS - 1 /\ k - 1 >= m
  BY <1>4, Pow2Assumption
<1>6. Pow2[k] = 2 * Pow2[k - 1] /\ Pow2[k - 1] \in Nat /\ Pow2[m] \in Nat
  BY <1>5, Pow2Assumption
<1>7. k - 1 \in Smaller
  BY <1>4, <1>5, <1>6
<1>8. ~(k <= k - 1)
  BY <1>4
<1>9. QED BY <1>3, <1>7, <1>8

(* What is below some power has a number of significant bits.              *)
LEMMA BitsExist ==
  ASSUME NEW x \in Nat, NEW m \in 0 .. USIZE_BITS - 1, x < Pow2[m]
  PROVE  \E n \in 0 .. USIZE_BITS - 1 : HasSignificantBits(x, n)
<1> DEFINE Enough == {n \in 0 .. USIZE_BITS - 1 : x < Pow2[n]}
<1>1. m \in Enough /\ Enough \in SUBSET Nat
  BY Pow2Assumption
<1>2. PICK n \in Enough : \A l \in Enough : n <= l
  <2> HIDE DEF Enough
  <2>1. QED BY <1>1, Least
<1>3. ASSUME n > 0 PROVE Pow2[n - 1] <= x
  <2>1. n - 1 \in 0 .. USIZE_BITS - 1 /\ ~(n <= n - 1)
    BY <1>3, Pow2Assumption
  <2>2. n - 1 \notin Enough
    BY <1>2, <2>1
  <2>3. Pow2[n - 1] \in Nat
    BY <2>1, Pow2Assumption
  <2>4. QED BY <2>1, <2>2, <2>3
<1>4. QED BY <1>3 DEF HasSignificantBits

(* The number of significant bits of v - 1 is the least exponent of a      *)
(* power that holds v.                                                     *)
LEMMA RoundUpLeast ==
  ASSUME NEW v \in Nat, v # 0, RoundsUp(v), NEW m \in 0 .. USIZE_BITS - 1, v <= Pow2[m]
  PROVE  round_up_to_nearest_pow2(v) <= Pow2[m]
<1> DEFINE bits == CHOOSE n \in 0 .. USIZE_BITS - 1 :
                     HasSignificantBits(WrappingPred(v), n)
<1>1. bits \in 0 .. USIZE_BITS - 1 /\ HasSignificantBits(WrappingPred(v), bits)
  BY Zenon DEF RoundsUp
<1>2. round_up_to_nearest_pow2(v) = Pow2[bits]
  BY DEF round_up_to_nearest_pow2
<1> HIDE DEF bits
<1>3. WrappingPred(v) = v - 1
  BY DEF WrappingPred
<1>4. CASE bits <= m
  BY <1>1, <1>2, <1>4, PowersGrow
<1>5. CASE bits > m
  <2>1. bits > 0 /\ bits - 1 \in 0 .. USIZE_BITS - 1 /\ m <= bits - 1
    BY <1>1, <1>5, Pow2Assumption
  <2>2. Pow2[bits - 1] <= v - 1
    BY <1>1, <1>3, <2>1 DEF HasSignificantBits
  <2>3. Pow2[m] <= Pow2[bits - 1] /\ Pow2[m] \in Nat /\ Pow2[bits - 1] \in Nat
    BY <2>1, PowersGrow, Pow2Assumption
  <2>4. QED BY <2>2, <2>3
<1>6. QED BY <1>1, <1>4, <1>5, Pow2Assumption

(* A usize holds a power of two that is not below v exactly if v is 0 or   *)
(* fits the highest bit; and zero, of which 1 is taken with a wrap, is     *)
(* refused.                                                                *)
LEMMA RoundsUpWhen ==
  ASSUME NEW v \in 0 .. USIZE_MAX
  PROVE  RoundsUp(v) <=> v # 0 /\ v <= Pow2[USIZE_BITS - 1]
<1> DEFINE top == Pow2[USIZE_BITS - 1]
<1>1. USIZE_BITS - 1 \in 0 .. USIZE_BITS - 1 /\ top \in Nat \ {0} /\ USIZE_MAX = 2 * top - 1
  BY Pow2Assumption DEF USIZE_MAX
<1>2. WrappingPred(v) \in Nat
  BY <1>1 DEF WrappingPred
<1>3. ASSUME RoundsUp(v) PROVE WrappingPred(v) < top
  <2>1. PICK n \in 0 .. USIZE_BITS - 1 : WrappingPred(v) < Pow2[n]
    BY <1>3 DEF RoundsUp, HasSignificantBits
  <2>2. Pow2[n] <= top /\ Pow2[n] \in Nat
    BY <1>1, PowersGrow, PowerFacts
  <2>3. QED BY <1>1, <1>2, <2>1, <2>2
<1>4. ASSUME WrappingPred(v) < top PROVE RoundsUp(v)
  BY <1>1, <1>2, <1>4, BitsExist DEF RoundsUp
<1>5. WrappingPred(v) < top <=> v # 0 /\ v <= top
  BY <1>1 DEF WrappingPred
<1>6. QED BY <1>3, <1>4, <1>5

(* Every pair of arguments is a usize and an exponent.                     *)
LEMMA ArgumentTypes ==
  ArgSpec => [](layout_size \in 0 .. USIZE_MAX /\ log2_align \in 0 .. USIZE_BITS - 1)
<1> DEFINE Types == layout_size \in 0 .. USIZE_MAX /\ log2_align \in 0 .. USIZE_BITS - 1
<1>1. USIZE_BITS \in Nat /\ USIZE_BITS >= 8 /\ USIZE_MAX \in Nat
  BY PowerFacts
<1>2. ArgInit => Types
  BY <1>1 DEF ArgInit
<1>3. Types /\ [ArgNext]_argVars => Types'
  BY <1>1 DEF ArgNext, NextAlign, NextSize, argVars
<1>4. QED BY <1>2, <1>3, PTL DEF ArgSpec

(* round_up_to_nearest_pow2 gives the least power of two not below its     *)
(* argument, whatever the width of usize.                                  *)
THEOREM RoundsToLeastPower == ArgSpec => []RoundsUpToLeast
<1>1. ASSUME layout_size \in 0 .. USIZE_MAX PROVE RoundsUpToLeast
  <2>1. USIZE_BITS - 1 \in 0 .. USIZE_BITS - 1 /\ layout_size \in Nat
    BY <1>1, Pow2Assumption
  <2>2. layout_size <= Pow2[USIZE_BITS - 1] <=> \E p \in PowersOfTwo : layout_size <= p
    <3>1. ASSUME NEW n \in 0 .. USIZE_BITS - 1, layout_size <= Pow2[n]
          PROVE  layout_size <= Pow2[USIZE_BITS - 1]
      <4>1. Pow2[n] <= Pow2[USIZE_BITS - 1] /\ Pow2[n] \in Nat
            /\ Pow2[USIZE_BITS - 1] \in Nat
        <5>1. n <= USIZE_BITS - 1
          BY PowerFacts
        <5>2. QED BY <2>1, <5>1, PowersGrow, PowerFacts
      <4>2. QED BY <2>1, <3>1, <4>1
    <3>2. QED BY <2>1, <3>1 DEF PowersOfTwo
  <2>3. ASSUME RoundsUp(layout_size)
        PROVE  /\ round_up_to_nearest_pow2(layout_size) \in PowersOfTwo
               /\ layout_size <= round_up_to_nearest_pow2(layout_size)
               /\ \A p \in PowersOfTwo : layout_size <= p => round_up_to_nearest_pow2(layout_size) <= p
    <3>1. layout_size # 0
      BY <1>1, <2>3, RoundsUpWhen
    <3>2. QED BY <2>1, <2>3, <3>1, RoundUpBounds, RoundUpLeast DEF PowersOfTwo
  <2>4. QED BY <1>1, <2>2, <2>3, RoundsUpWhen DEF RoundsUpToLeast
<1>2. QED BY <1>1, ArgumentTypes, PTL

(* can_provide compares a sum that has not wrapped.  A size above a        *)
(* quarter of the address space leaves room only for a smaller alignment.  *)
THEOREM SpaceDoesNotWrap == ArgSpec => []SpaceNeverWraps
<1>1. ASSUME layout_size \in 0 .. USIZE_MAX, log2_align \in 0 .. USIZE_BITS - 1
      PROVE  SpaceNeverWraps
  <2> SUFFICES ASSUME IsLayout, RoundsUp(layout_size) PROVE SpaceNeeded(Argument) <= USIZE_MAX
    BY DEF SpaceNeverWraps
  <2> DEFINE B == USIZE_BITS
             align == Pow2[log2_align]
             rounded == round_up_to_nearest_pow2(layout_size)
  <2>1. B \in Nat /\ B - 1 \in 0 .. B - 1 /\ B - 2 \in 0 .. B - 1 /\ B - 3 \in 0 .. B - 1
        /\ 7 \in 0 .. B - 1 /\ 7 <= B - 1
    BY Pow2Assumption
  <2>2. PICK e \in Nat : Pow2[B - 3] = e /\ Pow2[B - 2] = 2 * e /\ Pow2[B - 1] = 4 * e
    <3>1. B - 1 \in 1 .. B - 1 /\ B - 2 \in 1 .. B - 1 /\ (B - 1) - 1 = B - 2
          /\ (B - 2) - 1 = B - 3
      BY <2>1
    <3>2. Pow2[B - 1] = 2 * Pow2[B - 2] /\ Pow2[B - 2] = 2 * Pow2[B - 3]
          /\ Pow2[B - 3] \in Nat
      BY <2>1, <3>1, Pow2Assumption
    <3>3. QED BY <3>2
  <2>3. 4 * e >= 128
    <3>1. Pow2[7] = 128
      <4>1. \A m \in 1 .. 7 : m \in 1 .. B - 1
        BY <2>1
      <4>2. \A m \in 1 .. 7 : Pow2[m] = 2 * Pow2[m - 1]
        BY <4>1, PowerFacts, Zenon
      <4>3. Pow2[0] = 1 /\ Pow2[1] = 2 * Pow2[0] /\ Pow2[2] = 2 * Pow2[1]
            /\ Pow2[3] = 2 * Pow2[2] /\ Pow2[4] = 2 * Pow2[3] /\ Pow2[5] = 2 * Pow2[4]
            /\ Pow2[6] = 2 * Pow2[5] /\ Pow2[7] = 2 * Pow2[6]
        BY <4>2, PowerFacts
      <4>4. Pow2[3] = 8
        BY <4>3
      <4>5. Pow2[5] = 32
        BY <4>3, <4>4
      <4>6. QED BY <4>3, <4>5
    <3>2. Pow2[7] <= Pow2[B - 1]
      BY <2>1, PowersGrow
    <3>3. QED BY <2>2, <3>1, <3>2
  <2>4. USIZE_MAX = 8 * e - 1 /\ ISIZE_MAX = 4 * e - 1
    BY <2>2 DEF USIZE_MAX, ISIZE_MAX
  <2>5. align \in Nat \ {0} /\ layout_size \in Nat /\ layout_size + align <= 4 * e
    BY <1>1, <2>4, Pow2Assumption DEF IsLayout, Argument
  <2>6. layout_size # 0 /\ layout_size <= 4 * e /\ rounded \in Nat
    BY <1>1, <2>2, <2>5, RoundsUpWhen, RoundUpBounds
  <2>7. ASSUME NEW n \in 0 .. B - 1, NEW half \in Nat, n > 0, Pow2[n] = 2 * half,
               align < 2 * half
        PROVE  align <= half
    <3>1. n - 1 \in 0 .. B - 1 /\ n \in 1 .. B - 1
      BY <2>1, <2>7
    <3>2. Pow2[n] = 2 * Pow2[n - 1] /\ Pow2[n - 1] \in Nat
      BY <3>1, Pow2Assumption
    <3>3. CASE log2_align <= n - 1
      BY <1>1, <2>5, <2>7, <3>1, <3>2, <3>3, PowersGrow
    <3>4. CASE n <= log2_align
      <4>1. Pow2[n] <= align
        BY <1>1, <3>4, PowersGrow
      <4>2. QED BY <2>5, <2>7, <4>1
    <3>5. QED BY <1>1, <2>1, <3>1, <3>3, <3>4
  <2>8. SpaceNeeded(Argument) = Larger(rounded, 32) + 64 + Larger(align, 32)
    BY DEF SpaceNeeded, ProvidedSize, ProvidedAlign, HEADER_SIZE, Argument
  <2>9. CASE layout_size <= 2 * e
    <3>1. rounded <= 2 * e
      BY <2>1, <2>2, <2>5, <2>6, <2>9, RoundUpLeast
    <3>2. align <= 2 * e
      <4>1. align < 2 * (2 * e) /\ Pow2[B - 1] = 2 * (2 * e) /\ B - 1 > 0 /\ 2 * e \in Nat
        BY <2>1, <2>2, <2>5, <2>6
      <4>2. QED BY <2>1, <2>7, <4>1
    <3>3. QED BY <2>3, <2>4, <2>5, <2>6, <2>8, <3>1, <3>2 DEF Larger
  <2>10. CASE layout_size > 2 * e
    <3>1. rounded <= 4 * e
      BY <2>1, <2>2, <2>5, <2>6, RoundUpLeast
    <3>2. align <= e
      <4>1. align < 2 * e /\ B - 2 > 0
        BY <2>1, <2>5, <2>10
      <4>2. QED BY <2>1, <2>2, <2>7, <4>1
    <3>3. QED BY <2>3, <2>4, <2>5, <2>6, <2>8, <3>1, <3>2 DEF Larger
  <2>11. QED BY <2>5, <2>9, <2>10
<1>2. QED BY <1>1, ArgumentTypes, PTL

-----------------------------------------------------------------------------
(* Regions.                                                                *)

(* A map is a sequence, and its fields are numbers.                        *)
LEMMA MapFields ==
  ASSUME NEW m \in MemoryMaps
  PROVE  /\ Len(m) \in Nat /\ DOMAIN m = 1 .. Len(m)
         /\ \A i \in DOMAIN m :
              /\ m[i] \in Descriptor
              /\ m[i].physical_start \in Nat /\ m[i].number_of_pages \in Nat
              /\ m[i].physical_start % PAGE = 0
              /\ DescriptorEnd(m[i]) \in Nat
<1>1. m \in Seq(Descriptor) /\ \A i \in DOMAIN m : m[i].physical_start % PAGE = 0
  BY MemoryMapAssumption
<1>2. Len(m) \in Nat /\ DOMAIN m = 1 .. Len(m) /\ \A i \in DOMAIN m : m[i] \in Descriptor
  BY <1>1
<1>3. ASSUME NEW i \in DOMAIN m
      PROVE  /\ m[i].physical_start \in Nat /\ m[i].number_of_pages \in Nat
             /\ DescriptorEnd(m[i]) \in Nat
  BY <1>2 DEF Descriptor, DescriptorEnd, PAGE
<1>4. QED BY <1>1, <1>2, <1>3

(* What is registered of a descriptor lies within it, above address 0, in  *)
(* whole header units.                                                     *)
LEMMA RegionBounds ==
  ASSUME NEW m \in MemoryMaps, NEW i \in DOMAIN m, Registrable(m[i])
  PROVE  /\ RegionStart(m[i]) \in Nat /\ RegionStart(m[i]) > 0
         /\ RegionStart(m[i]) % HEADER_SIZE = 0
         /\ RegionSize(m[i]) \in Nat /\ RegionSize(m[i]) > PAGE
         /\ RegionSize(m[i]) % HEADER_SIZE = 0
         /\ RegionEnd(m[i]) = RegionStart(m[i]) + RegionSize(m[i])
         /\ m[i].physical_start <= RegionStart(m[i])
         /\ RegionEnd(m[i]) <= DescriptorEnd(m[i])
<1>1. /\ m[i].physical_start \in Nat /\ m[i].number_of_pages \in Nat
      /\ m[i].physical_start % PAGE = 0
  BY MapFields
<1>2. CASE m[i].physical_start = 0
  BY <1>1, <1>2, SMT DEF RegionStart, RegionSize, RegionEnd, Registrable,
     DescriptorEnd, PAGE, HEADER_SIZE, Larger
<1>3. CASE m[i].physical_start # 0
  BY <1>1, <1>3, SMT DEF RegionStart, RegionSize, RegionEnd, Registrable,
     DescriptorEnd, PAGE, HEADER_SIZE, Larger
<1>4. QED BY <1>2, <1>3

(* The regions of two descriptors share no byte. *)
LEMMA RegionsApart ==
  ASSUME NEW m \in MemoryMaps, NEW i \in DOMAIN m, NEW j \in DOMAIN m, i # j,
         Registrable(m[i]), Registrable(m[j])
  PROVE  \/ RegionEnd(m[i]) <= RegionStart(m[j])
         \/ RegionEnd(m[j]) <= RegionStart(m[i])
<1>1. \/ DescriptorEnd(m[i]) <= m[j].physical_start
      \/ DescriptorEnd(m[j]) <= m[i].physical_start
  BY MemoryMapAssumption
<1>2. /\ m[i].physical_start \in Nat /\ m[j].physical_start \in Nat
      /\ DescriptorEnd(m[i]) \in Nat /\ DescriptorEnd(m[j]) \in Nat
  BY MapFields
<1>3. /\ m[i].physical_start <= RegionStart(m[i])
      /\ m[j].physical_start <= RegionStart(m[j])
      /\ RegionEnd(m[i]) <= DescriptorEnd(m[i])
      /\ RegionEnd(m[j]) <= DescriptorEnd(m[j])
      /\ RegionStart(m[i]) \in Nat /\ RegionStart(m[j]) \in Nat
      /\ RegionEnd(m[i]) \in Nat /\ RegionEnd(m[j]) \in Nat
  BY RegionBounds
<1>4. QED BY <1>1, <1>2, <1>3

(* The registered descriptors are descriptors of the map, and the regions  *)
(* of two of them share no address.                                        *)
LEMMA RegisteredRegions ==
  ASSUME TypeOK
  PROVE  /\ Registered \subseteq DOMAIN memory_map
         /\ \A i \in Registered :
              /\ i \in Nat /\ i < ofs
              /\ Registrable(memory_map[i])
              /\ Start(i) \in Nat /\ Start(i) > 0 /\ Start(i) % HEADER_SIZE = 0
              /\ End(i) \in Nat /\ End(i) > Start(i) /\ End(i) % HEADER_SIZE = 0
         /\ \A i, j \in Registered : \A a \in Int :
              InRegion(a, i) /\ InRegion(a, j) => i = j
<1>1. /\ memory_map \in MemoryMaps
      /\ ofs \in 1 .. Len(memory_map) + 1 /\ Len(memory_map) \in Nat
      /\ DOMAIN memory_map = 1 .. Len(memory_map)
  BY MapFields DEF TypeOK
<1>2. ASSUME NEW i \in Registered
      PROVE  /\ i \in DOMAIN memory_map /\ i \in Nat /\ i < ofs
             /\ Registrable(memory_map[i])
  BY <1>1 DEF Registered
<1>3. ASSUME NEW i \in Registered
      PROVE  /\ Start(i) \in Nat /\ Start(i) > 0 /\ Start(i) % HEADER_SIZE = 0
             /\ End(i) \in Nat /\ End(i) > Start(i) /\ End(i) % HEADER_SIZE = 0
  <2>1. /\ Start(i) \in Nat /\ Start(i) > 0 /\ Start(i) % HEADER_SIZE = 0
        /\ RegionSize(memory_map[i]) \in Nat /\ RegionSize(memory_map[i]) > PAGE
        /\ RegionSize(memory_map[i]) % HEADER_SIZE = 0
        /\ End(i) = Start(i) + RegionSize(memory_map[i])
    BY <1>1, <1>2, RegionBounds DEF Start, End
  <2>2. QED BY <2>1, SMT DEF PAGE, HEADER_SIZE
<1>4. ASSUME NEW i \in Registered, NEW j \in Registered, i # j
      PROVE  End(i) <= Start(j) \/ End(j) <= Start(i)
  BY <1>1, <1>2, <1>4, RegionsApart DEF Start, End
<1>5. ASSUME NEW i \in Registered, NEW j \in Registered, NEW a \in Int,
             InRegion(a, i), InRegion(a, j)
      PROVE  i = j
  BY <1>3, <1>4, <1>5 DEF InRegion
<1>6. QED BY <1>2, <1>3, <1>5

-----------------------------------------------------------------------------
(* One cut of a block by Header::provide.                                  *)

(* What an allowed layout asks for. *)
LEMMA LayoutBounds ==
  ASSUME NEW l \in Layouts
  PROVE  /\ l.size \in Nat
         /\ ProvidedAlign(l.align) \in Nat
         /\ ProvidedAlign(l.align) >= HEADER_SIZE
         /\ ProvidedAlign(l.align) % HEADER_SIZE = 0
         /\ \A x \in Nat : x % ProvidedAlign(l.align) = 0 => x % l.align = 0
<1>1. l.size \in Nat /\ \E n \in 0 .. USIZE_BITS - 1 : l.align = Pow2[n]
  BY LayoutAssumption
<1>2. QED BY <1>1, ProvidedAlignBounds

(* A record with these fields is a Header. *)
LEMMA HeaderRecord ==
  ASSUME NEW size \in Nat, NEW is_allocated \in BOOLEAN, NEW next_header \in Nat
  PROVE  [size |-> size, is_allocated |-> is_allocated,
          next_header |-> next_header] \in Header
BY DEF Header

(* What is known of every Header. *)
LEMMA HeaderFields ==
  ASSUME TypeOK, NEW addr \in DOMAIN headers
  PROVE  /\ addr \in Nat /\ addr # Null
         /\ headers[addr] \in Header
         /\ headers[addr].size \in Nat /\ headers[addr].next_header \in Nat
         /\ headers[addr].is_allocated \in BOOLEAN
         /\ end_addr(addr) \in Nat
<1>1. addr \in Nat /\ addr # Null /\ headers[addr] \in Header
  BY DEF TypeOK
<1>2. QED BY <1>1 DEF Header, end_addr

(* header_for_allocated starts above the header of self, a whole number of *)
(* units up; the block it describes holds the request and ends within      *)
(* self.                                                                   *)
LEMMA CutBounds ==
  ASSUME TypeOK, BlocksInUnits,
         NEW addr \in DOMAIN headers, NEW l \in Layouts, Provides(addr, l)
  PROVE  /\ end_addr(addr) \in Nat /\ end_addr(addr) % HEADER_SIZE = 0
         /\ AllocatedHeader(addr, l) \in Nat
         /\ AllocatedHeader(addr, l) > addr + HEADER_SIZE
         /\ AllocatedHeader(addr, l) % HEADER_SIZE = 0
         /\ allocated_addr(addr, l) = AllocatedHeader(addr, l) + HEADER_SIZE
         /\ allocated_addr(addr, l) % l.align = 0
         /\ AllocatedSize(l) \in Nat /\ AllocatedSize(l) % HEADER_SIZE = 0
         /\ AllocatedSize(l) >= 2 * HEADER_SIZE
         /\ allocated_addr(addr, l) + l.size <= AllocatedEnd(addr, l)
         /\ AllocatedEnd(addr, l) = AllocatedHeader(addr, l) + AllocatedSize(l)
         /\ AllocatedEnd(addr, l) \in Nat
         /\ AllocatedEnd(addr, l) <= end_addr(addr)
         /\ AllocatedEnd(addr, l) % HEADER_SIZE = 0
<1> DEFINE size  == ProvidedSize(l.size)
           align == ProvidedAlign(l.align)
           e     == end_addr(addr)
<1>1. /\ addr \in Nat /\ addr % 32 = 0
      /\ headers[addr].size \in Nat /\ headers[addr].size % 32 = 0
      /\ e = addr + headers[addr].size
  BY HeaderFields DEF BlocksInUnits, HEADER_SIZE, end_addr
<1>2. e \in Nat /\ e % 32 = 0
  BY <1>1, SMT
<1>3. size \in Nat /\ size >= 32 /\ size % 32 = 0 /\ l.size \in Nat /\ l.size <= size
  BY LayoutBounds, ProvidedSizeBounds DEF Provides, HEADER_SIZE
<1>4. align \in Nat /\ align >= 32 /\ align % 32 = 0
  BY LayoutBounds DEF HEADER_SIZE
<1>5. headers[addr].size >= size + 64 + align
  BY <1>1, <1>3, <1>4, SMT DEF Provides, can_provide, SpaceNeeded, HEADER_SIZE
<1>6. e - size \in Nat
  BY <1>1, <1>3, <1>4, <1>5, SMT
<1>7. /\ allocated_addr(addr, l) \in Nat
      /\ allocated_addr(addr, l) <= e - size
      /\ allocated_addr(addr, l) > e - size - align
      /\ allocated_addr(addr, l) % align = 0
      /\ allocated_addr(addr, l) % 32 = 0
  BY <1>4, <1>6, AlignDownBounds DEF allocated_addr, HEADER_SIZE
<1>8. allocated_addr(addr, l) % l.align = 0
  BY <1>7, LayoutBounds
<1>9. AllocatedSize(l) = size + 32 /\ AllocatedHeader(addr, l) = allocated_addr(addr, l) - 32
  BY DEF AllocatedSize, AllocatedHeader, HEADER_SIZE
<1>10. allocated_addr(addr, l) > addr + 64
  BY <1>1, <1>3, <1>4, <1>5, <1>7, SMT
<1> HIDE DEF size, align, e
<1>11. /\ AllocatedHeader(addr, l) \in Nat
       /\ AllocatedHeader(addr, l) > addr + 32
       /\ AllocatedHeader(addr, l) % 32 = 0
       /\ allocated_addr(addr, l) = AllocatedHeader(addr, l) + 32
  BY <1>1, <1>7, <1>9, <1>10, SMT
<1>12. AllocatedSize(l) \in Nat /\ AllocatedSize(l) % 32 = 0 /\ AllocatedSize(l) >= 64
  BY <1>3, <1>9, SMT
<1>13. /\ AllocatedEnd(addr, l) = AllocatedHeader(addr, l) + AllocatedSize(l)
       /\ AllocatedEnd(addr, l) = allocated_addr(addr, l) + size
  BY <1>7, <1>3, <1>9, SMT DEF AllocatedEnd
<1>14. /\ AllocatedEnd(addr, l) \in Nat
       /\ AllocatedEnd(addr, l) <= e
       /\ AllocatedEnd(addr, l) % 32 = 0
       /\ allocated_addr(addr, l) + l.size <= AllocatedEnd(addr, l)
  BY <1>2, <1>3, <1>7, <1>13, SMT
<1>15. QED BY <1>2, <1>8, <1>11, <1>12, <1>13, <1>14 DEF HEADER_SIZE, e

(* The header that provide writes into each of the two or three blocks.    *)
LEMMA CarvedHeaders ==
  ASSUME TypeOK, BlocksInUnits, BlocksDisjoint,
         NEW addr \in DOMAIN headers, NEW l \in Layouts, Provides(addr, l)
  PROVE  LET A == AllocatedHeader(addr, l)
             E == AllocatedEnd(addr, l)
             e == end_addr(addr)
         IN  /\ A \notin DOMAIN headers
             /\ E # e => E \notin DOMAIN headers
             /\ DOMAIN Carved(addr, l) =
                  DOMAIN headers \cup {A} \cup (IF E # e THEN {E} ELSE {})
             /\ Carved(addr, l)[addr] =
                  [size |-> A - addr, is_allocated |-> FALSE, next_header |-> A]
             /\ Carved(addr, l)[A] =
                  [size |-> E - A, is_allocated |-> TRUE,
                   next_header |-> IF E # e THEN E ELSE headers[addr].next_header]
             /\ E # e =>
                  Carved(addr, l)[E] =
                    [size |-> e - E, is_allocated |-> FALSE,
                     next_header |-> headers[addr].next_header]
             /\ \A a \in DOMAIN headers \ {addr} : Carved(addr, l)[a] = headers[a]
<1> DEFINE A == AllocatedHeader(addr, l)
           E == AllocatedEnd(addr, l)
<1>1. /\ A \in Nat /\ E \in Nat /\ addr \in Nat /\ end_addr(addr) \in Nat
      /\ addr + HEADER_SIZE < A /\ A + HEADER_SIZE < E /\ E <= end_addr(addr)
      /\ E = A + AllocatedSize(l) /\ AllocatedSize(l) \in Nat
      /\ headers[addr].size \in Nat /\ end_addr(addr) = addr + headers[addr].size
  BY CutBounds, HeaderFields, SMT DEF end_addr, HEADER_SIZE
<1>2. ASSUME NEW a \in DOMAIN headers, addr < a, a < end_addr(addr)
      PROVE  FALSE
  <2>1. a \in Nat /\ headers[a].size \in Nat /\ headers[a].size >= HEADER_SIZE
        /\ end_addr(a) = a + headers[a].size
    BY HeaderFields DEF BlocksInUnits, end_addr
  <2>2. end_addr(addr) <= a \/ end_addr(a) <= addr
    BY <1>1, <1>2 DEF BlocksDisjoint
  <2>3. QED BY <1>1, <1>2, <2>1, <2>2, SMT DEF HEADER_SIZE
<1>3. A \notin DOMAIN headers /\ (E # end_addr(addr) => E \notin DOMAIN headers)
  BY <1>1, <1>2, SMT DEF HEADER_SIZE
<1>4. addr # A /\ addr # E /\ A # E
  BY <1>1, SMT DEF HEADER_SIZE
<1> HIDE DEF A, E
<1>5. headers[addr].size - size_used(addr, l) = A - addr
  BY <1>1, SMT DEF size_used, NeedsPadding, PaddingSize, A, E
<1>6. AllocatedSize(l) = E - A
  BY <1>1, SMT
<1>7. NeedsPadding(addr, l) <=> E # end_addr(addr)
  BY DEF NeedsPadding, E
<1>8. PaddingSize(addr, l) = end_addr(addr) - E
  BY DEF PaddingSize, E
<1>9. DOMAIN Carved(addr, l) =
        DOMAIN headers \cup {A} \cup (IF E # end_addr(addr) THEN {E} ELSE {})
  BY <1>7 DEF Carved, WithPadding, WithAllocated, Write, A, E
<1>10. /\ Carved(addr, l)[addr] =
            [size |-> A - addr, is_allocated |-> FALSE, next_header |-> A]
       /\ Carved(addr, l)[A] =
            [size |-> E - A, is_allocated |-> TRUE,
             next_header |-> IF E # end_addr(addr) THEN E
                             ELSE headers[addr].next_header]
       /\ E # end_addr(addr) =>
            Carved(addr, l)[E] =
              [size |-> end_addr(addr) - E, is_allocated |-> FALSE,
               next_header |-> headers[addr].next_header]
       /\ \A a \in DOMAIN headers \ {addr} : Carved(addr, l)[a] = headers[a]
  BY <1>3, <1>4, <1>5, <1>6, <1>7, <1>8
     DEF Carved, WithPadding, WithAllocated, Write, A, E
<1>11. QED BY <1>3, <1>9, <1>10 DEF A, E

-----------------------------------------------------------------------------
(* A successful walk step keeps the tiling: addr is the block that is cut, *)
(* A, E and e the ends of the two or three blocks it is cut into.          *)

(* Header::provide leaves the regions covered and the list in order. *)
LEMMA CutTiling ==
  ASSUME TypeOK, Tiled,
         NEW addr \in DOMAIN headers, NEW l \in Layouts, Provides(addr, l),
         headers' = Carved(addr, l),
         UNCHANGED <<memory_map, ofs, first_header>>
  PROVE  Tiled' /\ headers' \in [DOMAIN headers' -> Header]
         /\ DOMAIN headers \subseteq DOMAIN headers'
         /\ DOMAIN headers' \subseteq Nat \ {Null}
<1>0. PICK A \in Nat, E \in Nat, e \in Nat :
        A = AllocatedHeader(addr, l) /\ E = AllocatedEnd(addr, l) /\ e = end_addr(addr)
  BY CutBounds DEF Tiled
<1>1. /\ addr \in Nat /\ A \in Nat /\ E \in Nat /\ e \in Nat
      /\ addr % 32 = 0 /\ A % 32 = 0 /\ E % 32 = 0 /\ e % 32 = 0
      /\ addr + 32 < A /\ A + 64 <= E /\ E <= e
  BY <1>0, CutBounds, HeaderFields, SMT DEF Tiled, BlocksInUnits, HEADER_SIZE
<1>1a. addr < A /\ A < E /\ E <= e /\ A \in Nat \ {0} /\ E \in Nat \ {0} /\ A - addr \in Nat
       /\ E - A \in Nat /\ e - E \in Nat
  BY <1>1
<1>2. /\ A \notin DOMAIN headers
      /\ E # e => E \notin DOMAIN headers
      /\ DOMAIN headers' = DOMAIN headers \cup {A} \cup (IF E # e THEN {E} ELSE {})
      /\ headers'[addr] = [size |-> A - addr, is_allocated |-> FALSE, next_header |-> A]
      /\ headers'[A] = [size |-> E - A, is_allocated |-> TRUE,
                        next_header |-> IF E # e THEN E ELSE headers[addr].next_header]
      /\ E # e => headers'[E] = [size |-> e - E, is_allocated |-> FALSE,
                                 next_header |-> headers[addr].next_header]
      /\ \A a \in DOMAIN headers \ {addr} : headers'[a] = headers[a]
  <2>1. BlocksInUnits /\ BlocksDisjoint
    BY DEF Tiled
  <2>2. QED BY <1>0, <2>1, CarvedHeaders
<1> DEFINE Cut == {addr, A} \cup (IF E # e THEN {E} ELSE {})
<1>3. /\ \A a \in DOMAIN headers' : a \in DOMAIN headers \ {addr} \/ a \in Cut
      /\ \A a \in Cut : a = addr \/ a = A \/ (a = E /\ E # e)
  BY <1>2
<1>4. \A a \in DOMAIN headers :
        /\ a \in Nat /\ a # Null /\ end_addr(a) \in Nat
        /\ a % 32 = 0 /\ headers[a] \in Header
        /\ headers[a].size % 32 = 0 /\ headers[a].size >= 32
        /\ end_addr(a) = a + headers[a].size /\ headers[a].size \in Nat
        /\ headers[a].next_header \in Nat
  BY HeaderFields DEF Tiled, BlocksInUnits, end_addr, HEADER_SIZE
<1>5. /\ end_addr(addr)' = A /\ end_addr(addr) = e
      /\ end_addr(A)' = E
      /\ E # e => end_addr(E)' = e
      /\ \A a \in DOMAIN headers \ {addr} : end_addr(a)' = end_addr(a)
  BY <1>0, <1>1, <1>2, <1>4, SMT DEF end_addr
<1>51. \A a \in Cut : /\ a \in Nat /\ addr <= a /\ a < e
                      /\ end_addr(a)' \in Nat
                      /\ a < end_addr(a)' /\ end_addr(a)' <= e
  BY <1>1, <1>3, <1>5, SMT
<1>52. \A a \in Cut, b \in Cut : a # b => end_addr(a)' <= b \/ end_addr(b)' <= a
  BY <1>1, <1>3, <1>5, SMT
<1> HIDE DEF Cut
<1>6. Registered' = Registered
  BY DEF Registered
<1>7. headers' \in [DOMAIN headers' -> Header]
      /\ DOMAIN headers \subseteq DOMAIN headers'
      /\ DOMAIN headers' \subseteq Nat \ {Null}
  <2>1. ASSUME NEW a \in DOMAIN headers'
        PROVE  headers'[a] \in Header /\ a \in Nat \ {Null}
    <3>1. CASE a \in DOMAIN headers \ {addr}
      BY <1>2, <1>4, <3>1
    <3>2. CASE a = addr
      <4>1. A - addr \in Nat /\ a \in Nat \ {Null}
        BY <1>1a, <1>4, <3>2
      <4>2. headers'[a] = [size |-> A - addr, is_allocated |-> FALSE, next_header |-> A]
        BY <1>2, <3>2, Zenon
      <4>3. QED BY <4>1, <4>2, <1>1a, HeaderRecord
    <3>3. CASE a = A
      <4>1. E - A \in Nat /\ a \in Nat \ {Null}
        BY <1>1a, <3>3 DEF Null
      <4>2. (IF E # e THEN E ELSE headers[addr].next_header) \in Nat
        BY <1>1, <1>4
      <4>3. headers'[a] = [size |-> E - A, is_allocated |-> TRUE,
                           next_header |-> IF E # e THEN E ELSE headers[addr].next_header]
        BY <1>2, <3>3, Zenon
      <4>4. QED BY <4>1, <4>2, <4>3, HeaderRecord
    <3>4. CASE a = E /\ E # e
      <4>1. e - E \in Nat /\ a \in Nat \ {Null}
        BY <1>1a, <3>4 DEF Null
      <4>2. QED BY <4>1, <1>2, <1>4, <3>4, HeaderRecord
    <3>5. QED BY <1>3, <3>1, <3>2, <3>3, <3>4
  <2>2. headers' = [a \in DOMAIN headers' |-> headers'[a]]
    BY DEF Carved, Write
  <2>3. QED BY <1>2, <2>1, <2>2
<1>8. BlocksInUnits'
  <2>1. ASSUME NEW a \in DOMAIN headers'
        PROVE  a % 32 = 0 /\ headers'[a].size % 32 = 0 /\ headers'[a].size >= 32
    <3>1. CASE a \in DOMAIN headers \ {addr}
      BY <1>2, <1>4, <3>1
    <3>2. CASE a = addr
      BY <1>1, <1>2, <3>2, SMT
    <3>3. CASE a = A
      BY <1>1, <1>2, <3>3, SMT
    <3>4. CASE a = E /\ E # e
      BY <1>1, <1>2, <3>4, SMT
    <3>5. QED BY <1>3, <3>1, <3>2, <3>3, <3>4
  <2>2. QED BY <2>1 DEF BlocksInUnits, HEADER_SIZE
<1>9. PICK r \in Registered : InRegion(addr, r) /\ e <= End(r)
  BY <1>0 DEF Tiled, BlocksInRegions
<1>10. Start(r) \in Nat /\ End(r) \in Nat /\ Start(r) <= addr /\ addr < End(r)
  BY <1>9, RegisteredRegions DEF InRegion
<1>11. InRegion(A, r) /\ (E # e => InRegion(E, r))
  BY <1>1, <1>9, <1>10, SMT DEF InRegion
<1>12. ASSUME NEW a, NEW i PROVE InRegion(a, i)' <=> InRegion(a, i)
  BY DEF InRegion, Start, End
<1>13. ASSUME NEW i PROVE Start(i)' = Start(i) /\ End(i)' = End(i)
  BY DEF Start, End
<1>14. BlocksInRegions'
  <2>1. ASSUME NEW a \in DOMAIN headers'
        PROVE  \E i \in Registered : InRegion(a, i) /\ end_addr(a)' <= End(i)
    <3>1. CASE a \in DOMAIN headers \ {addr}
      BY <1>5, <3>1 DEF Tiled, BlocksInRegions
    <3>2. CASE a = addr
      BY <1>1, <1>5, <1>9, <1>10, <3>2
    <3>3. CASE a = A
      BY <1>1, <1>5, <1>9, <1>10, <1>11, <3>3
    <3>4. CASE a = E /\ E # e
      BY <1>5, <1>9, <1>11, <3>4
    <3>5. QED BY <1>3, <3>1, <3>2, <3>3, <3>4
  <2>2. QED BY <1>6, <1>12, <1>13, <2>1 DEF BlocksInRegions
<1>15. BlocksDisjoint'
  <2>1. ASSUME NEW b \in DOMAIN headers \ {addr}
        PROVE  e <= b \/ end_addr(b) <= addr
    BY <1>0, <2>1 DEF Tiled, BlocksDisjoint
  <2>2. ASSUME NEW a \in DOMAIN headers', NEW b \in DOMAIN headers', a # b
        PROVE  end_addr(a)' <= b \/ end_addr(b)' <= a
    <3>1. CASE a \in DOMAIN headers \ {addr} /\ b \in DOMAIN headers \ {addr}
      BY <1>5, <2>2, <3>1 DEF Tiled, BlocksDisjoint
    <3>2. CASE a \in DOMAIN headers \ {addr} /\ b \in Cut
      BY <1>1, <1>4, <1>5, <1>51, <2>1, <3>2, SMT
    <3>3. CASE b \in DOMAIN headers \ {addr} /\ a \in Cut
      BY <1>1, <1>4, <1>5, <1>51, <2>1, <3>3, SMT
    <3>4. CASE a \in Cut /\ b \in Cut
      BY <1>52, <2>2, <3>4
    <3>5. QED BY <1>3, <3>1, <3>2, <3>3, <3>4
  <2>3. QED BY <2>2 DEF BlocksDisjoint
<1>16. BlocksLinked'
  <2>0. ASSUME NEW a, NEW i PROVE ContinuesAt(a, i)' <=> ContinuesAt(a, i)
    BY <1>6, <1>13 DEF ContinuesAt, IsPrevious
  <2>1. IF e < End(r) THEN headers[addr].next_header = e /\ e \in DOMAIN headers
                      ELSE ContinuesAt(headers[addr].next_header, r)
    BY <1>0, <1>9 DEF Tiled, BlocksLinked
  <2>2. ASSUME NEW a \in DOMAIN headers', NEW i \in Registered, InRegion(a, i)
        PROVE  IF end_addr(a)' < End(i)
               THEN headers'[a].next_header = end_addr(a)'
                    /\ end_addr(a)' \in DOMAIN headers'
               ELSE ContinuesAt(headers'[a].next_header, i)
    <3>1. CASE a \in DOMAIN headers \ {addr}
      BY <1>2, <1>5, <2>2, <3>1 DEF Tiled, BlocksLinked
    <3>2. CASE a \in Cut
      <4>1. i = r
        <5>1. InRegion(a, r) /\ a \in Int
          BY <1>3, <1>51, <1>9, <1>11, <3>2
        <5>2. QED BY <5>1, <2>2, RegisteredRegions
      <4>2. CASE a = addr
        BY <1>1, <1>2, <1>5, <1>9, <1>10, <4>1, <4>2, SMT
      <4>3. CASE a = A /\ E # e
        BY <1>1, <1>2, <1>5, <1>9, <1>10, <4>1, <4>3, SMT
      <4>4. CASE a = A /\ E = e
        BY <1>2, <1>5, <2>1, <4>1, <4>4
      <4>5. CASE a = E /\ E # e
        BY <1>2, <1>5, <2>1, <4>1, <4>5
      <4>6. QED BY <1>3, <3>2, <4>2, <4>3, <4>4, <4>5
    <3>3. QED BY <1>3, <3>1, <3>2
  <2>3. QED BY <1>6, <1>12, <1>13, <2>0, <2>2 DEF BlocksLinked
<1>17. RegionsListed'
  BY <1>2, <1>6, <1>13 DEF Tiled, RegionsListed, ContinuesAt, IsPrevious
<1>18. QED BY <1>7, <1>8, <1>14, <1>15, <1>16, <1>17 DEF Tiled

(* The new block is held, and blocks held before were not cut.             *)
LEMMA CutHeld ==
  ASSUME TypeOK, Tiled, HeldBacked,
         NEW addr \in DOMAIN headers, NEW l \in Layouts, Provides(addr, l),
         headers' = Carved(addr, l),
         live' = Write(live, allocated_addr(addr, l), l)
  PROVE  /\ HeldBacked'
         /\ DOMAIN live' \subseteq Nat /\ live' \in [DOMAIN live' -> Layouts]
         /\ allocated_addr(addr, l) \notin DOMAIN live
<1>0. PICK A \in Nat, E \in Nat, e \in Nat, P \in Nat :
        /\ A = AllocatedHeader(addr, l) /\ E = AllocatedEnd(addr, l)
        /\ e = end_addr(addr) /\ P = allocated_addr(addr, l)
  BY CutBounds DEF Tiled, HEADER_SIZE
<1>1. /\ P = A + 32 /\ P % l.align = 0 /\ P + l.size <= E
      /\ l.size \in Nat
  BY <1>0, CutBounds, LayoutBounds, SMT DEF Tiled, HEADER_SIZE
<1>2. /\ A \notin DOMAIN headers
      /\ DOMAIN headers' = DOMAIN headers \cup {A} \cup (IF E # e THEN {E} ELSE {})
      /\ headers'[addr].is_allocated = FALSE
      /\ headers'[A].is_allocated = TRUE /\ headers'[A].size = E - A
      /\ E # e => headers'[E].is_allocated = FALSE
      /\ \A a \in DOMAIN headers \ {addr} : headers'[a] = headers[a]
  <2>1. BlocksInUnits /\ BlocksDisjoint
    BY DEF Tiled
  <2>2. /\ A \notin DOMAIN headers
        /\ DOMAIN headers' = DOMAIN headers \cup {A} \cup (IF E # e THEN {E} ELSE {})
        /\ headers'[addr] = [size |-> A - addr, is_allocated |-> FALSE, next_header |-> A]
        /\ headers'[A] = [size |-> E - A, is_allocated |-> TRUE,
                          next_header |-> IF E # e THEN E ELSE headers[addr].next_header]
        /\ E # e => headers'[E] = [size |-> e - E, is_allocated |-> FALSE,
                                   next_header |-> headers[addr].next_header]
        /\ \A a \in DOMAIN headers \ {addr} : headers'[a] = headers[a]
    BY <1>0, <2>1, CarvedHeaders
  <2>3. QED BY <2>2
<1>3. \A p \in DOMAIN live :
        /\ p \in Nat /\ live[p] \in Layouts
        /\ p - 32 \in DOMAIN headers /\ p - 32 # addr
        /\ headers[p - 32].is_allocated
        /\ p + live[p].size <= end_addr(p - 32)
        /\ p % live[p].align = 0
  BY DEF HeldBacked, TypeOK, Provides, HEADER_SIZE
<1>4. P \notin DOMAIN live
  <2>1. P - 32 = A
    BY <1>1, SMT
  <2>2. QED BY <1>2, <1>3, <2>1
<1>5. /\ DOMAIN live' = DOMAIN live \cup {P}
      /\ live'[P] = l
      /\ \A p \in DOMAIN live : live'[p] = live[p]
  BY <1>0, <1>4 DEF Write
<1>6. DOMAIN live' \subseteq Nat /\ live' \in [DOMAIN live' -> Layouts]
  <2>1. live' = [p \in DOMAIN live' |-> live'[p]]
    BY DEF Write
  <2>2. QED BY <1>3, <1>5, <2>1
<1>7. ASSUME NEW p \in DOMAIN live'
      PROVE  /\ p - 32 \in DOMAIN headers'
             /\ headers'[p - 32].is_allocated
             /\ p + live'[p].size <= (p - 32) + headers'[p - 32].size
             /\ p % live'[p].align = 0
  <2>1. CASE p \in DOMAIN live
    BY <1>2, <1>3, <1>5, <2>1 DEF end_addr
  <2>2. CASE p = P
    <3>1. p - 32 = A /\ live'[p] = l /\ A + (E - A) = E
      BY <1>1, <1>5, <2>2, SMT
    <3>2. QED BY <1>1, <1>2, <2>2, <3>1
  <2>3. QED BY <1>5, <2>1, <2>2
<1>8. ASSUME NEW a \in DOMAIN headers', headers'[a].is_allocated
      PROVE  a + 32 \in DOMAIN live'
  <2>1. CASE a \in DOMAIN headers \ {addr}
    BY <1>2, <1>5, <1>8, <2>1 DEF HeldBacked, HEADER_SIZE
  <2>2. CASE a = A
    BY <1>1, <1>5, <2>2
  <2>3. QED BY <1>2, <1>8, <2>1, <2>2
<1>9. HeldBacked'
  BY <1>7, <1>8 DEF HeldBacked, HEADER_SIZE, end_addr
<1>10. QED BY <1>0, <1>4, <1>6, <1>9

-----------------------------------------------------------------------------
(* The walk.                                                               *)

(* The block that a link leads to comes right after the block it leaves.   *)
LEMMA NextInOrder ==
  ASSUME TypeOK, Tiled, NEW c \in DOMAIN headers
  PROVE  LET n == headers[c].next_header
         IN  /\ n \in DOMAIN headers \cup {Null}
             /\ \A a \in DOMAIN headers :
                  Precedes(a, n) => a = c \/ Precedes(a, c)
<1>1. PICK r \in Registered : InRegion(c, r) /\ end_addr(c) <= End(r)
  BY DEF Tiled, BlocksInRegions
<1>2. \A i \in Registered : i \in Nat /\ Start(i) \in Nat /\ End(i) \in Nat /\ Start(i) > 0
                            /\ Start(i) < End(i)
  BY RegisteredRegions
<1>3. ASSUME NEW i \in Registered, NEW j \in Registered, NEW a \in Int,
             InRegion(a, i), InRegion(a, j)
      PROVE  i = j
  BY <1>3, RegisteredRegions
<1>4. /\ c \in Nat /\ c # Null /\ end_addr(c) \in Nat /\ end_addr(c) > c
      /\ \A a \in DOMAIN headers : a \in Nat /\ a # Null /\ end_addr(a) > a
                                   /\ end_addr(a) \in Nat
  <2>1. \A a \in DOMAIN headers : /\ a \in Nat /\ a # Null /\ end_addr(a) \in Nat
                                  /\ headers[a].size \in Nat /\ headers[a].size >= 32
    BY HeaderFields DEF Tiled, BlocksInUnits, HEADER_SIZE
  <2>2. QED BY <2>1, SMT DEF end_addr
<1> DEFINE n == headers[c].next_header
<1>5. ASSUME NEW a \in DOMAIN headers, a # c
      PROVE  end_addr(a) <= c \/ end_addr(c) <= a
  BY <1>5 DEF Tiled, BlocksDisjoint
<1>7. CASE end_addr(c) < End(r)
  <2>1. n = end_addr(c) /\ n \in DOMAIN headers
    BY <1>1, <1>7 DEF Tiled, BlocksLinked
  <2>2. InRegion(n, r)
    BY <1>1, <1>2, <1>4, <1>7, <2>1 DEF InRegion
  <2>3. ASSUME NEW a \in DOMAIN headers, Precedes(a, n), a # c
        PROVE  Precedes(a, c)
    <3>1. PICK i \in Registered, j \in Registered :
            InRegion(a, i) /\ InRegion(n, j) /\ (i > j \/ (i = j /\ a < n))
      BY <1>4, <2>1, <2>3 DEF Precedes
    <3>2. j = r
      BY <1>3, <1>4, <2>1, <2>2, <3>1
    <3>3. a < n => a < c
      BY <1>4, <1>5, <2>1, <2>3
    <3>4. QED BY <1>1, <3>1, <3>2, <3>3 DEF Precedes
  <2>4. QED BY <2>1, <2>3
<1>8. CASE ~(end_addr(c) < End(r))
  <2>1. ContinuesAt(n, r)
    BY <1>1, <1>8 DEF Tiled, BlocksLinked
  <2>2. ASSUME NEW a \in DOMAIN headers, NEW i \in Registered, InRegion(a, i), a # c,
               i >= r
        PROVE  Precedes(a, c)
    <3>1. CASE i > r
      BY <1>1, <2>2, <3>1 DEF Precedes
    <3>2. CASE i = r
      <4>1. a < c
        BY <1>1, <1>2, <1>4, <1>5, <1>8, <2>2, <3>2 DEF InRegion
      <4>2. QED BY <1>1, <2>2, <3>2, <4>1 DEF Precedes
    <3>3. QED BY <1>2, <2>2, <3>1, <3>2
  <2>3. CASE \E j \in Registered : IsPrevious(j, r) /\ n = Start(j)
    <3>1. PICK k \in Registered : IsPrevious(k, r) /\ n = Start(k)
      BY <2>3
    <3>2. n \in DOMAIN headers /\ InRegion(n, k) /\ n # Null /\ n \in Nat
      BY <1>2, <1>4, <3>1, SMT DEF Tiled, RegionsListed, InRegion, Null
    <3>3. ASSUME NEW a \in DOMAIN headers, Precedes(a, n), a # c
          PROVE  Precedes(a, c)
      <4>1. PICK i \in Registered, j \in Registered :
              InRegion(a, i) /\ InRegion(n, j) /\ (i > j \/ (i = j /\ a < n))
        BY <3>2, <3>3 DEF Precedes
      <4>2. j = k
        BY <1>3, <3>2, <4>1
      <4>3. i > k
        BY <1>2, <1>4, <3>1, <4>1, <4>2 DEF InRegion
      <4>4. i >= r
        BY <1>2, <3>1, <4>3 DEF IsPrevious
      <4>5. QED BY <2>2, <3>3, <4>1, <4>4
    <3>4. QED BY <3>2, <3>3
  <2>4. CASE (\A k \in Registered : k >= r) /\ n = Null
    <3>1. ASSUME NEW a \in DOMAIN headers, a # c
          PROVE  Precedes(a, c)
      <4>1. PICK i \in Registered : InRegion(a, i)
        BY DEF Tiled, BlocksInRegions
      <4>2. QED BY <2>2, <2>4, <3>1, <4>1
    <3>2. QED BY <2>4, <3>1
  <2>5. QED BY <2>1, <2>3, <2>4 DEF ContinuesAt
<1>9. QED BY <1>7, <1>8

(* No block comes before the one that first_header leads to.               *)
LEMMA FirstInOrder ==
  ASSUME TypeOK, Tiled, NEW a \in DOMAIN headers
  PROVE  ~Precedes(a, first_header)
<1>1. \A i \in Registered : i \in Nat /\ i < ofs /\ Start(i) \in Nat /\ Start(i) > 0
                            /\ Start(i) < End(i)
  BY RegisteredRegions
<1>2. \A i, j \in Registered : \A x \in Int : InRegion(x, i) /\ InRegion(x, j) => i = j
  BY RegisteredRegions
<1>3. PICK r \in Registered : InRegion(a, r)
  BY DEF Tiled, BlocksInRegions
<1>4. PICK k \in Registered : IsPrevious(k, ofs) /\ first_header = Start(k)
  BY <1>1, <1>3 DEF Tiled, RegionsListed, ContinuesAt, TypeOK
<1>5. first_header # Null /\ InRegion(first_header, k) /\ first_header \in Int
  BY <1>1, <1>4, SMT DEF InRegion, Null
<1>6. SUFFICES ASSUME NEW i \in Registered, NEW j \in Registered,
                      InRegion(a, i), InRegion(first_header, j),
                      i > j \/ (i = j /\ a < first_header)
               PROVE  FALSE
  BY <1>5 DEF Precedes
<1>7. j = k
  BY <1>2, <1>5, <1>6
<1>8. i <= k
  BY <1>1, <1>4, <1>6 DEF IsPrevious
<1>9. i = k /\ a < Start(k)
  BY <1>1, <1>4, <1>6, <1>7, <1>8
<1>10. a \in Int
  BY HeaderFields
<1>11. QED BY <1>1, <1>6, <1>9, <1>10 DEF InRegion

-----------------------------------------------------------------------------
(* init_with_mmap.                                                         *)

(* A step that writes no Header keeps the tiling. *)
LEMMA TilingUnchanged ==
  ASSUME Tiled, UNCHANGED <<memory_map, ofs, headers, first_header>>
  PROVE  Tiled'
BY DEF Tiled, BlocksInUnits, BlocksInRegions, BlocksDisjoint, BlocksLinked,
       RegionsListed, end_addr, InRegion, Start, End, ContinuesAt, IsPrevious,
       Registered

(* A descriptor that is passed over adds no region. *)
LEMMA SkipTiling ==
  ASSUME TypeOK, Tiled, SkipDescriptor
  PROVE  Tiled'
<1>1. Registered' = Registered
  BY DEF Registered, SkipDescriptor, TypeOK
<1>2. \A i \in Registered : i \in Nat /\ i < ofs
  BY RegisteredRegions
<1>3. UNCHANGED <<memory_map, headers, first_header>> /\ ofs' = ofs + 1 /\ ofs \in Nat
  BY DEF SkipDescriptor, TypeOK
<1>4. /\ BlocksInUnits' /\ BlocksInRegions' /\ BlocksDisjoint' /\ BlocksLinked'
      /\ \A i \in Registered : Start(i)' \in DOMAIN headers
  BY <1>1, <1>3
     DEF Tiled, BlocksInUnits, BlocksInRegions, BlocksDisjoint, BlocksLinked,
         RegionsListed, end_addr, InRegion, Start, End, ContinuesAt, IsPrevious
<1>5. ContinuesAt(first_header, ofs)'
  <2>1. ContinuesAt(first_header, ofs)
    BY DEF Tiled, RegionsListed
  <2>2. QED BY <1>1, <1>2, <1>3, <2>1 DEF ContinuesAt, IsPrevious, Start
<1>6. QED BY <1>1, <1>3, <1>4, <1>5 DEF Tiled, RegionsListed

(* A region that is added is one block, at the head of the list. *)
LEMMA AddTiling ==
  ASSUME TypeOK, Tiled, AddFreeFromDescriptor
  PROVE  /\ Tiled'
         /\ RegionStart(memory_map[ofs]) \notin DOMAIN headers
         /\ DOMAIN headers' \subseteq Nat \ {Null}
         /\ headers' \in [DOMAIN headers' -> Header]
         /\ first_header' \in DOMAIN headers' /\ DOMAIN headers \subseteq DOMAIN headers'
<1>1. /\ memory_map \in MemoryMaps /\ ofs \in DOMAIN memory_map
      /\ ofs \in Nat /\ ofs > 0
      /\ Registrable(memory_map[ofs])
  BY MapFields DEF AddFreeFromDescriptor, TypeOK
<1>2. PICK s \in Nat, size \in Nat, o \in Nat :
        /\ s = RegionStart(memory_map[ofs]) /\ size = RegionSize(memory_map[ofs])
        /\ o = ofs /\ s > 0 /\ s % 32 = 0 /\ size > PAGE /\ size % 32 = 0
        /\ RegionEnd(memory_map[ofs]) = s + size
  BY <1>1, RegionBounds DEF HEADER_SIZE
<1>3. /\ headers' = Write(headers, s, [size |-> size, is_allocated |-> FALSE,
                                       next_header |-> first_header])
      /\ first_header' = s /\ ofs' = o + 1 /\ memory_map' = memory_map
  BY <1>2 DEF AddFreeFromDescriptor
<1>4. Registered' = Registered \cup {o}
  BY <1>1, <1>2, <1>3, SMT DEF Registered
<1>5. \A i \in Registered :
        /\ i \in Nat /\ i < o /\ i \in DOMAIN memory_map /\ Registrable(memory_map[i])
        /\ Start(i) \in Nat /\ End(i) \in Nat
  BY <1>2, RegisteredRegions
<1>6. Start(o) = s /\ End(o) = s + size /\ o \notin Registered
  BY <1>2, <1>5 DEF Start, End
<1>7. ASSUME NEW i \in Registered
      PROVE  End(i) <= s \/ s + size <= Start(i)
  BY <1>1, <1>2, <1>5, <1>7, RegionsApart DEF Start, End
<1>8. \A a \in DOMAIN headers :
        /\ a \in Nat /\ a # Null /\ end_addr(a) \in Nat /\ headers[a] \in Header
        /\ a % 32 = 0 /\ headers[a].size % 32 = 0 /\ headers[a].size >= 32
        /\ headers[a].size \in Nat
        /\ end_addr(a) = a + headers[a].size
  BY HeaderFields DEF Tiled, BlocksInUnits, end_addr, HEADER_SIZE
<1>9. ASSUME NEW a \in DOMAIN headers
      PROVE  (end_addr(a) <= s \/ s + size <= a) /\ a # s /\ ~InRegion(a, o)
  <2>1. PICK i \in Registered : InRegion(a, i) /\ end_addr(a) <= End(i)
    BY DEF Tiled, BlocksInRegions
  <2>2. end_addr(a) <= s \/ s + size <= a
    BY <1>2, <1>5, <1>7, <1>8, <2>1, SMT DEF InRegion
  <2>3. QED BY <1>2, <1>6, <1>8, <2>2, SMT DEF InRegion, PAGE
<1>10. s \notin DOMAIN headers
  BY <1>9
<1>11. /\ DOMAIN headers' = DOMAIN headers \cup {s}
       /\ headers'[s] = [size |-> size, is_allocated |-> FALSE, next_header |-> first_header]
       /\ \A a \in DOMAIN headers : headers'[a] = headers[a]
  BY <1>3, <1>10 DEF Write
<1>12. /\ end_addr(s)' = s + size
       /\ \A a \in DOMAIN headers : end_addr(a)' = end_addr(a)
  BY <1>11 DEF end_addr
<1>13. ASSUME NEW i
       PROVE  Start(i)' = Start(i) /\ End(i)' = End(i)
              /\ \A a : InRegion(a, i)' <=> InRegion(a, i)
  BY <1>3 DEF Start, End, InRegion
<1>14. first_header \in Nat
  BY <1>8 DEF TypeOK, Null
<1>15. headers' \in [DOMAIN headers' -> Header] /\ DOMAIN headers' \subseteq Nat \ {Null}
  <2>1. headers'[s] \in Header
    BY <1>2, <1>11, <1>14, HeaderRecord
  <2>2. headers' = [a \in DOMAIN headers' |-> headers'[a]]
    BY <1>3 DEF Write
  <2>3. s # Null
    BY <1>2 DEF Null
  <2>4. QED BY <1>8, <1>11, <2>1, <2>2, <2>3
<1>16. BlocksInUnits'
  <2>1. ASSUME NEW a \in DOMAIN headers'
        PROVE  a % 32 = 0 /\ headers'[a].size % 32 = 0 /\ headers'[a].size >= 32
    <3>1. size >= 32
      BY <1>2 DEF PAGE
    <3>2. QED BY <1>2, <1>8, <1>11, <3>1
  <2>2. QED BY <2>1 DEF BlocksInUnits, HEADER_SIZE
<1>17. BlocksInRegions'
  <2>1. ASSUME NEW a \in DOMAIN headers'
        PROVE  \E i \in Registered \cup {o} : InRegion(a, i) /\ end_addr(a)' <= End(i)
    <3>1. CASE a = s
      BY <1>2, <1>6, <1>12, <3>1, SMT DEF InRegion, PAGE
    <3>2. CASE a \in DOMAIN headers
      BY <1>12, <3>2 DEF Tiled, BlocksInRegions
    <3>3. QED BY <1>11, <3>1, <3>2
  <2>2. QED BY <1>4, <1>13, <2>1 DEF BlocksInRegions
<1>18. BlocksDisjoint'
  <2>1. ASSUME NEW a \in DOMAIN headers', NEW b \in DOMAIN headers', a # b
        PROVE  end_addr(a)' <= b \/ end_addr(b)' <= a
    <3>1. CASE a \in DOMAIN headers /\ b \in DOMAIN headers
      BY <1>12, <2>1, <3>1 DEF Tiled, BlocksDisjoint
    <3>2. CASE a = s /\ b \in DOMAIN headers
      BY <1>9, <1>12, <3>2
    <3>3. CASE b = s /\ a \in DOMAIN headers
      BY <1>9, <1>12, <3>3
    <3>4. QED BY <1>11, <2>1, <3>1, <3>2, <3>3
  <2>2. QED BY <2>1 DEF BlocksDisjoint
<1>19. ASSUME NEW x, NEW i \in Registered \cup {o}
       PROVE  ContinuesAt(x, i)' <=> ContinuesAt(x, i)
  BY <1>2, <1>4, <1>5, <1>13 DEF ContinuesAt, IsPrevious
<1>20. BlocksLinked'
  <2>1. ContinuesAt(first_header, o)
    BY <1>2 DEF Tiled, RegionsListed
  <2>2. ASSUME NEW a \in DOMAIN headers', NEW i \in Registered \cup {o}, InRegion(a, i)
        PROVE  IF end_addr(a)' < End(i)
               THEN headers'[a].next_header = end_addr(a)'
                    /\ end_addr(a)' \in DOMAIN headers'
               ELSE ContinuesAt(headers'[a].next_header, i)
    <3>1. CASE a \in DOMAIN headers
      <4>1. i \in Registered
        BY <1>9, <2>2, <3>1
      <4>2. QED BY <1>11, <1>12, <2>2, <3>1, <4>1 DEF Tiled, BlocksLinked
    <3>2. CASE a = s
      <4>1. i = o
        BY <1>2, <1>5, <1>7, <2>2, <3>2, SMT DEF InRegion, PAGE
      <4>2. ~(end_addr(a)' < End(i))
        BY <1>2, <1>6, <1>12, <3>2, <4>1
      <4>3. headers'[a].next_header = first_header
        BY <1>11, <3>2
      <4>4. QED BY <2>1, <4>1, <4>2, <4>3
    <3>3. QED BY <1>11, <3>1, <3>2
  <2>3. QED BY <1>4, <1>13, <1>19, <2>2 DEF BlocksLinked
<1>21. RegionsListed'
  <2>1. \A i \in Registered \cup {o} : Start(i) \in DOMAIN headers'
    BY <1>6, <1>11 DEF Tiled, RegionsListed
  <2>2. IsPrevious(o, ofs)' /\ first_header' = Start(o)' /\ o \in Registered'
    BY <1>2, <1>3, <1>4, <1>5, <1>6, <1>13 DEF IsPrevious
  <2>3. QED BY <1>4, <1>13, <2>1, <2>2 DEF RegionsListed, ContinuesAt
<1>22. QED
  BY <1>2, <1>3, <1>10, <1>11, <1>15, <1>16, <1>17, <1>18, <1>20, <1>21 DEF Tiled

-----------------------------------------------------------------------------
(* The invariant.                                                          *)

(* The heap starts empty. *)
LEMMA InitHolds == Init => HeapInv
<1> SUFFICES ASSUME Init PROVE HeapInv
  OBVIOUS
<1>1. memory_map \in MemoryMaps /\ Len(memory_map) \in Nat
  BY MapFields DEF Init
<1>2. DOMAIN headers = {} /\ DOMAIN live = {} /\ Registered = {}
  BY DEF Init, Registered
<1>3. TypeOK
  BY <1>1, <1>2 DEF Init, TypeOK, Null, Header
<1>4. Tiled
  BY <1>2 DEF Init, Tiled, BlocksInUnits, BlocksInRegions, BlocksDisjoint,
              BlocksLinked, RegionsListed, ContinuesAt
<1>5. HeldBacked /\ FirstFit
  BY <1>2 DEF Init, HeldBacked, FirstFit
<1>6. QED BY <1>3, <1>4, <1>5 DEF HeapInv

(* Every step keeps the invariant. *)
LEMMA NextKeeps == HeapInv /\ [Next]_vars => HeapInv'
<1> SUFFICES ASSUME HeapInv, [Next]_vars PROVE HeapInv'
  OBVIOUS
<1> USE DEF HeapInv
<1>0. /\ memory_map \in MemoryMaps /\ Len(memory_map) \in Nat /\ ofs \in Nat
      /\ DOMAIN memory_map = 1 .. Len(memory_map)
  BY MapFields DEF TypeOK
<1>1. CASE SkipDescriptor
  <2>1. TypeOK'
    BY <1>0, <1>1 DEF SkipDescriptor, TypeOK
  <2>2. Tiled'
    BY <1>1, SkipTiling
  <2>3. HeldBacked' /\ FirstFit'
    BY <1>1 DEF SkipDescriptor, HeldBacked, FirstFit, end_addr
  <2>4. QED BY <2>1, <2>2, <2>3
<1>2. CASE AddFreeFromDescriptor
  <2>1. /\ Tiled'
        /\ RegionStart(memory_map[ofs]) \notin DOMAIN headers
        /\ DOMAIN headers' \subseteq Nat \ {Null}
        /\ headers' \in [DOMAIN headers' -> Header]
        /\ first_header' \in DOMAIN headers' /\ DOMAIN headers \subseteq DOMAIN headers'
    BY <1>2, AddTiling
  <2>2. /\ UNCHANGED <<memory_map, pc, layout, header, live>> /\ ofs' = ofs + 1
        /\ pc = "init" /\ ofs <= Len(memory_map)
    BY <1>2 DEF AddFreeFromDescriptor
  <2>3. TypeOK'
    BY <1>0, <2>1, <2>2 DEF TypeOK
  <2>4. /\ \A a \in DOMAIN headers : headers'[a] = headers[a]
        /\ \A a \in DOMAIN headers' : a \in DOMAIN headers \/ ~headers'[a].is_allocated
    BY <1>2, <2>1 DEF AddFreeFromDescriptor, Write
  <2>5. HeldBacked'
    BY <2>1, <2>2, <2>4 DEF HeldBacked, end_addr
  <2>6. FirstFit'
    BY <2>2 DEF FirstFit
  <2>7. QED BY <2>1, <2>3, <2>5, <2>6
<1>3. CASE InitDone
  <2>1. UNCHANGED <<memory_map, ofs, headers, first_header, layout, header, live>>
        /\ pc' = "idle"
    BY <1>3 DEF InitDone
  <2>2. QED BY <2>1, TilingUnchanged DEF TypeOK, HeldBacked, FirstFit, end_addr
<1>4. ASSUME NEW l \in Layouts, Alloc(l) PROVE HeapInv'
  <2>1. /\ UNCHANGED <<memory_map, ofs, headers, first_header, live>>
        /\ pc' = "walk" /\ layout' = l /\ header' = first_header
    BY <1>4 DEF Alloc
  <2>2. TypeOK' /\ Tiled' /\ HeldBacked'
    BY <2>1, TilingUnchanged DEF TypeOK, HeldBacked, end_addr
  <2>3. ASSUME NEW a \in DOMAIN headers'
        PROVE  ~Precedes(a, header)'
    <3>1. ~Precedes(a, first_header)
      BY <2>1, <2>3, FirstInOrder
    <3>2. QED BY <2>1, <3>1 DEF Precedes, InRegion, Start, End, Registered
  <2>4. FirstFit'
    BY <2>3 DEF FirstFit
  <2>5. QED BY <2>2, <2>4
<1>5. CASE WalkProvide
  <2>1. /\ pc = "walk" /\ header \in DOMAIN headers /\ layout \in Layouts
        /\ Provides(header, layout)
        /\ headers' = Carved(header, layout)
        /\ live' = Write(live, allocated_addr(header, layout), layout)
        /\ UNCHANGED <<memory_map, ofs, first_header>>
        /\ pc' = "idle" /\ layout' = NoLayout /\ header' = Null
    BY <1>5 DEF WalkProvide, Return, TypeOK
  <2>2. /\ Tiled' /\ headers' \in [DOMAIN headers' -> Header]
        /\ DOMAIN headers \subseteq DOMAIN headers'
        /\ DOMAIN headers' \subseteq Nat \ {Null}
    BY <2>1, CutTiling
  <2>3. /\ HeldBacked'
        /\ DOMAIN live' \subseteq Nat /\ live' \in [DOMAIN live' -> Layouts]
    BY <2>1, CutHeld
  <2>4. TypeOK'
    BY <2>1, <2>2, <2>3 DEF TypeOK
  <2>5. FirstFit'
    BY <2>1 DEF FirstFit
  <2>6. QED BY <2>2, <2>3, <2>4, <2>5
<1>6. CASE WalkNext
  <2>1. /\ pc = "walk" /\ header \in DOMAIN headers
        /\ ~Provides(header, layout)
        /\ header' = headers[header].next_header
        /\ UNCHANGED <<memory_map, ofs, headers, first_header, pc, layout, live>>
    BY <1>6 DEF WalkNext, TypeOK
  <2>2. PICK n \in Nat : n = headers[header].next_header
    BY <2>1, HeaderFields
  <2>3. /\ n \in DOMAIN headers \cup {Null}
        /\ \A a \in DOMAIN headers : Precedes(a, n) => a = header \/ Precedes(a, header)
    BY <2>1, <2>2, NextInOrder
  <2>4. TypeOK' /\ Tiled' /\ HeldBacked'
    BY <2>1, <2>2, <2>3, TilingUnchanged DEF TypeOK, HeldBacked, end_addr
  <2>5. ASSUME NEW a \in DOMAIN headers', Precedes(a, header)'
        PROVE  ~Provides(a, layout)'
    <3>1. Precedes(a, n)
      BY <2>1, <2>2, <2>5 DEF Precedes, InRegion, Start, End, Registered
    <3>2. ~Provides(a, layout)
      BY <2>1, <2>3, <3>1 DEF FirstFit
    <3>3. QED BY <2>1, <3>2 DEF Provides, can_provide
  <2>6. FirstFit'
    BY <2>5 DEF FirstFit
  <2>7. QED BY <2>4, <2>6
<1>7. CASE WalkNull
  <2>1. UNCHANGED <<memory_map, ofs, headers, first_header, live>>
        /\ pc' = "idle" /\ layout' = NoLayout /\ header' = Null
    BY <1>7 DEF WalkNull, Return
  <2>2. QED BY <2>1, TilingUnchanged DEF TypeOK, HeldBacked, FirstFit, end_addr
<1>8. ASSUME NEW ptr \in DOMAIN live, Dealloc(ptr) PROVE HeapInv'
  <2>1. /\ pc = "idle"
        /\ headers' = [headers EXCEPT ![ptr - 32].is_allocated = FALSE]
        /\ live' = [p \in DOMAIN live \ {ptr} |-> live[p]]
        /\ UNCHANGED <<memory_map, ofs, first_header, pc, layout, header>>
    BY <1>8 DEF Dealloc, HEADER_SIZE
  <2>2. ptr \in Nat /\ ptr - 32 \in DOMAIN headers
    BY DEF HeldBacked, HEADER_SIZE, TypeOK
  <2>3. /\ DOMAIN headers' = DOMAIN headers
        /\ \A a \in DOMAIN headers :
             /\ headers'[a].size = headers[a].size
             /\ headers'[a].next_header = headers[a].next_header
             /\ headers'[a] \in Header
             /\ headers'[a].is_allocated <=> headers[a].is_allocated /\ a # ptr - 32
    <3>1. \A a \in DOMAIN headers : headers[a] \in Header
      BY HeaderFields
    <3>2. DOMAIN headers' = DOMAIN headers
          /\ headers'[ptr - 32] = [headers[ptr - 32] EXCEPT !.is_allocated = FALSE]
          /\ \A a \in DOMAIN headers : a # ptr - 32 => headers'[a] = headers[a]
      BY <2>1, <2>2
    <3>3. headers'[ptr - 32] =
            [size |-> headers[ptr - 32].size, is_allocated |-> FALSE,
             next_header |-> headers[ptr - 32].next_header]
      BY <2>2, <3>1, <3>2 DEF Header
    <3>4. headers'[ptr - 32] \in Header
      BY <2>2, <3>3, HeaderFields, HeaderRecord
    <3>5. ASSUME NEW a \in DOMAIN headers
          PROVE  /\ headers'[a].size = headers[a].size
                 /\ headers'[a].next_header = headers[a].next_header
                 /\ headers'[a] \in Header
                 /\ headers'[a].is_allocated <=> headers[a].is_allocated /\ a # ptr - 32
      <4>1. CASE a = ptr - 32
        BY <3>3, <3>4, <4>1
      <4>2. CASE a # ptr - 32
        <5>1. headers'[a] = headers[a]
          BY <3>2, <4>2
        <5>2. QED BY <3>1, <4>2, <5>1
      <4>3. QED BY <4>1, <4>2
    <3>6. QED BY <3>2, <3>5
  <2>4. TypeOK'
    <3>1. headers' = [a \in DOMAIN headers |-> headers'[a]]
      BY <2>1
    <3>2. headers' \in [DOMAIN headers -> Header]
      BY <2>3, <3>1
    <3>3. DOMAIN live' \subseteq Nat /\ live' \in [DOMAIN live' -> Layouts]
      BY <2>1 DEF TypeOK
    <3>4. QED BY <2>1, <2>3, <3>2, <3>3 DEF TypeOK
  <2>5. Tiled'
    BY <2>1, <2>3
       DEF Tiled, BlocksInUnits, BlocksInRegions, BlocksDisjoint, BlocksLinked,
           RegionsListed, end_addr, InRegion, Start, End, ContinuesAt, IsPrevious,
           Registered
  <2>6. HeldBacked'
    <3>1. ASSUME NEW p \in DOMAIN live'
          PROVE  /\ p - 32 \in DOMAIN headers'
                 /\ headers'[p - 32].is_allocated
                 /\ p + live'[p].size <= (p - 32) + headers'[p - 32].size
                 /\ p % live'[p].align = 0
      <4>1. p \in DOMAIN live /\ p # ptr /\ live'[p] = live[p] /\ p \in Nat
        BY <2>1 DEF TypeOK
      <4>2. p - 32 # ptr - 32
        BY <2>2, <4>1
      <4>3. QED BY <2>3, <4>1, <4>2 DEF HeldBacked, HEADER_SIZE, end_addr
    <3>2. ASSUME NEW a \in DOMAIN headers', headers'[a].is_allocated
          PROVE  a + 32 \in DOMAIN live'
      <4>1. a \in DOMAIN headers /\ headers[a].is_allocated /\ a # ptr - 32 /\ a \in Nat
        BY <2>3, <3>2, HeaderFields
      <4>2. a + 32 \in DOMAIN live /\ a + 32 # ptr
        BY <2>2, <4>1 DEF HeldBacked, HEADER_SIZE
      <4>3. QED BY <2>1, <4>2
    <3>3. QED BY <3>1, <3>2 DEF HeldBacked, HEADER_SIZE, end_addr
  <2>7. FirstFit'
    BY <2>1 DEF FirstFit
  <2>8. QED BY <2>4, <2>5, <2>6, <2>7
<1>9. CASE UNCHANGED vars
  BY <1>9, TilingUnchanged
     DEF vars, TypeOK, HeldBacked, FirstFit, end_addr, Precedes, Provides,
         can_provide, InRegion, Start, End, Registered
<1>10. QED
  BY <1>1, <1>2, <1>3, <1>4, <1>5, <1>6, <1>7, <1>8, <1>9
     DEF Next, InitStep, WalkStep

(* The allocator keeps its inductive invariant.                            *)
THEOREM InvariantHolds == Spec => []HeapInv
BY InitHolds, NextKeeps, PTL DEF Spec

(* The fields of headers stay numbers and the cursor stays on a Header or  *)
(* None, whatever is allocated and freed.                                  *)
THEOREM TypeCorrect == Spec => []TypeOK
<1>1. HeapInv => TypeOK
  BY DEF HeapInv
<1>2. QED BY <1>1, InvariantHolds, PTL

(* No sequence of calls loses a block from the list, opens a gap between   *)
(* blocks, makes two of them overlap, or closes the list into a ring.      *)
THEOREM TilingHolds == Spec => []Tiled
<1>1. HeapInv => Tiled
  BY DEF HeapInv
<1>2. QED BY <1>1, InvariantHolds, PTL

(* Every pointer held has an allocated Header of sufficient size below it, *)
(* and no other block is marked allocated.                                 *)
THEOREM HeldBlocksBacked == Spec => []HeldBacked
<1>1. HeapInv => HeldBacked
  BY DEF HeapInv
<1>2. QED BY <1>1, InvariantHolds, PTL

(* The walk never passes over a block that could serve, so null is         *)
(* returned only when no block can provide.                                *)
THEOREM FirstFitHolds == Spec => []FirstFit
<1>1. HeapInv => FirstFit
  BY DEF HeapInv
<1>2. QED BY <1>1, InvariantHolds, PTL

-----------------------------------------------------------------------------
(* What follows from the invariant in each state.                          *)

(* Callers' bytes lie apart from each other and from every Header.         *)
THEOREM NoOverlapHolds == Spec => []NoOverlap
<1>1. HeapInv => NoOverlap
  <2> SUFFICES ASSUME HeapInv PROVE NoOverlap
    OBVIOUS
  <2>1. \A p \in DOMAIN live :
          /\ p \in Nat /\ live[p].size \in Nat
          /\ p - 32 \in DOMAIN headers
          /\ p + live[p].size <= end_addr(p - 32)
    BY LayoutBounds DEF HeapInv, TypeOK, HeldBacked, HEADER_SIZE
  <2>2. \A a \in DOMAIN headers : a \in Nat /\ a + 32 <= end_addr(a)
                                  /\ end_addr(a) \in Nat
    <3>1. \A a \in DOMAIN headers :
            a \in Nat /\ headers[a].size \in Nat /\ headers[a].size >= 32
      BY HeaderFields DEF HeapInv, Tiled, BlocksInUnits, HEADER_SIZE
    <3>2. QED BY <3>1 DEF end_addr
  <2>3. \A a, b \in DOMAIN headers :
          a # b => end_addr(a) <= b \/ end_addr(b) <= a
    BY DEF HeapInv, Tiled, BlocksDisjoint
  <2>4. ASSUME NEW p \in DOMAIN live, NEW q \in DOMAIN live, p # q
        PROVE  p + live[p].size <= q \/ q + live[q].size <= p
    <3>1. p - 32 # q - 32
      BY <2>1, <2>4
    <3>2. end_addr(p - 32) <= q - 32 \/ end_addr(q - 32) <= p - 32
      BY <2>1, <2>3, <3>1
    <3>3. end_addr(p - 32) \in Nat /\ end_addr(q - 32) \in Nat
      BY <2>1, <2>2
    <3>4. QED BY <2>1, <3>2, <3>3
  <2>5. ASSUME NEW p \in DOMAIN live, NEW a \in DOMAIN headers
        PROVE  p + live[p].size <= a \/ a + 32 <= p
    <3>1. CASE a = p - 32
      BY <2>1, <3>1
    <3>2. CASE a # p - 32
      <4>1. end_addr(p - 32) <= a \/ end_addr(a) <= p - 32
        BY <2>1, <2>3, <3>2
      <4>2. end_addr(p - 32) \in Nat /\ end_addr(a) \in Nat /\ a + 32 <= end_addr(a)
            /\ a \in Nat
        BY <2>1, <2>2
      <4>3. QED BY <2>1, <4>1, <4>2
    <3>3. QED BY <3>1, <3>2
  <2>6. QED BY <2>4, <2>5 DEF NoOverlap, HEADER_SIZE
<1>2. QED BY <1>1, InvariantHolds, PTL

(* The assertion that ends Header::provide never fails.                    *)
THEOREM SplitFitsHolds == Spec => []SplitFits
<1>1. HeapInv => SplitFits
  <2> SUFFICES ASSUME HeapInv, pc = "walk", header # Null, Provides(header, layout)
               PROVE  headers[header].size > size_used(header, layout) + HEADER_SIZE
    BY DEF SplitFits
  <2>1. header \in DOMAIN headers /\ layout \in Layouts
    BY DEF HeapInv, TypeOK
  <2>2. PICK A \in Nat, E \in Nat, e \in Nat :
          /\ A = AllocatedHeader(header, layout) /\ E = AllocatedEnd(header, layout)
          /\ e = end_addr(header)
          /\ A > header + 32 /\ E = A + AllocatedSize(layout)
    BY <2>1, CutBounds DEF HeapInv, Tiled, HEADER_SIZE
  <2>3. /\ header \in Nat /\ headers[header].size \in Nat
        /\ e = header + headers[header].size /\ AllocatedSize(layout) \in Nat
    BY <2>1, <2>2, HeaderFields, CutBounds DEF HeapInv, Tiled, end_addr
  <2>4. size_used(header, layout) = e - A
    BY <2>2, <2>3, SMT DEF size_used, NeedsPadding, PaddingSize
  <2>5. QED BY <2>2, <2>3, <2>4, SMT DEF HEADER_SIZE
<1>2. QED BY <1>1, InvariantHolds, PTL

-----------------------------------------------------------------------------
(* The abstract specification.                                             *)

(* What is handed out lies in conventional memory. *)
LEMMA CutInPool ==
  ASSUME TypeOK, Tiled, NEW addr \in DOMAIN headers, NEW l \in Layouts,
         Provides(addr, l)
  PROVE  \E i \in Conventional(memory_map) :
           /\ i < ofs
           /\ memory_map[i].physical_start <= allocated_addr(addr, l)
           /\ allocated_addr(addr, l) + l.size <= DescriptorEnd(memory_map[i])
<1>1. PICK i \in Registered : InRegion(addr, i) /\ end_addr(addr) <= End(i)
  BY DEF Tiled, BlocksInRegions
<1>2. /\ i < ofs /\ i \in DOMAIN memory_map /\ Registrable(memory_map[i])
      /\ memory_map \in MemoryMaps
  BY RegisteredRegions DEF TypeOK
<1>3. i \in Conventional(memory_map)
  BY <1>2 DEF Conventional, Registrable
<1>4. /\ memory_map[i].physical_start \in Nat /\ DescriptorEnd(memory_map[i]) \in Nat
      /\ Start(i) \in Nat /\ End(i) \in Nat
      /\ memory_map[i].physical_start <= Start(i)
      /\ End(i) <= DescriptorEnd(memory_map[i])
  BY <1>2, MapFields, RegionBounds, RegisteredRegions DEF Start, End
<1>5. /\ allocated_addr(addr, l) = AllocatedHeader(addr, l) + 32
      /\ AllocatedHeader(addr, l) \in Nat /\ AllocatedHeader(addr, l) > addr + 32
      /\ allocated_addr(addr, l) + l.size <= AllocatedEnd(addr, l)
      /\ AllocatedEnd(addr, l) <= end_addr(addr)
      /\ AllocatedEnd(addr, l) \in Nat /\ end_addr(addr) \in Nat
      /\ addr \in Nat /\ l.size \in Nat
  BY CutBounds, HeaderFields, LayoutBounds DEF Tiled, HEADER_SIZE
<1>6. Start(i) <= addr
  BY <1>1 DEF InRegion
<1>7. /\ memory_map[i].physical_start <= allocated_addr(addr, l)
      /\ allocated_addr(addr, l) + l.size <= DescriptorEnd(memory_map[i])
  BY <1>1, <1>4, <1>5, <1>6, SMT
<1>8. QED BY <1>2, <1>3, <1>7

(* A range that is cut shares no byte with a range already held.           *)
LEMMA CutApart ==
  ASSUME TypeOK, Tiled, HeldBacked,
         NEW addr \in DOMAIN headers, NEW l \in Layouts, Provides(addr, l),
         NEW q \in DOMAIN live
  PROVE  \/ allocated_addr(addr, l) + l.size <= q
         \/ q + live[q].size <= allocated_addr(addr, l)
<1>1. /\ q \in Nat /\ live[q].size \in Nat
      /\ q - 32 \in DOMAIN headers /\ q - 32 # addr
      /\ q + live[q].size <= end_addr(q - 32)
  BY LayoutBounds DEF TypeOK, HeldBacked, HEADER_SIZE, Provides
<1>2. end_addr(q - 32) <= addr \/ end_addr(addr) <= q - 32
  BY <1>1 DEF Tiled, BlocksDisjoint
<1>3. /\ allocated_addr(addr, l) \in Nat /\ allocated_addr(addr, l) > addr
      /\ allocated_addr(addr, l) + l.size <= end_addr(addr)
      /\ end_addr(addr) \in Nat /\ addr \in Nat /\ l.size \in Nat
      /\ end_addr(q - 32) \in Nat
  <2>1. /\ allocated_addr(addr, l) = AllocatedHeader(addr, l) + 32
        /\ AllocatedHeader(addr, l) \in Nat /\ AllocatedHeader(addr, l) > addr + 32
        /\ allocated_addr(addr, l) + l.size <= AllocatedEnd(addr, l)
        /\ AllocatedEnd(addr, l) <= end_addr(addr)
        /\ AllocatedEnd(addr, l) \in Nat
    BY CutBounds DEF Tiled, HEADER_SIZE
  <2>2. addr \in Nat /\ end_addr(addr) \in Nat /\ end_addr(q - 32) \in Nat /\ l.size \in Nat
    BY <1>1, HeaderFields, LayoutBounds
  <2>3. QED BY <2>1, <2>2, SMT
<1>4. QED BY <1>1, <1>2, <1>3, SMT

(* The empty heap is an initial state of the contract. *)
LEMMA ContractInitHolds == Init => Contract!ContractInit
<1> SUFFICES ASSUME Init PROVE Contract!ContractInit
  OBVIOUS
<1>1. memory_map \in MemoryMaps /\ ofs = 1 /\ pc = "init" /\ live = << >>
  BY DEF Init
<1>2. {k \in Conventional(memory_map) : k < ofs} = {}
  <2>1. \A k \in DOMAIN memory_map : k \in Nat /\ k >= 1
    BY <1>1, MapFields
  <2>2. QED BY <2>1, <1>1 DEF Conventional
<1>3. {Extent(memory_map[i]) : i \in {k \in Conventional(memory_map) : k < ofs}} = {}
  BY <1>2
<1>4. (IF pc = "walk" THEN {layout} ELSE {}) = {}
  BY <1>1
<1>5. QED BY <1>1, <1>3, <1>4 DEF Contract!ContractInit

(* Reading a descriptor donates its extent if it is conventional memory.   *)
LEMMA DescriptorStep ==
  ASSUME TypeOK, pc = "init", pc' = "init", ofs <= Len(memory_map), ofs' = ofs + 1,
         UNCHANGED <<memory_map, layout, live>>
  PROVE  [Contract!ContractNext]_(Contract!contractVars)
<1> DEFINE Read(n) == {k \in Conventional(memory_map) : k < n}
           Pool(n) == {Extent(memory_map[i]) : i \in Read(n)}
<1>1. /\ memory_map \in MemoryMaps /\ ofs \in DOMAIN memory_map /\ ofs \in Nat
      /\ \A k \in DOMAIN memory_map : k \in Nat
  BY MapFields DEF TypeOK
<1>2. CASE ofs \in Conventional(memory_map)
  <2>1. Read(ofs + 1) = Read(ofs) \cup {ofs}
    BY <1>1, <1>2 DEF Conventional
  <2>2. Pool(ofs + 1) = Pool(ofs) \cup {Extent(memory_map[ofs])}
    BY <2>1
  <2>3. PICK region \in UNION {{Extent(m[i]) : i \in Conventional(m)} : m \in MemoryMaps} :
          region = Extent(memory_map[ofs])
    BY <1>1, <1>2
  <2>4. Contract!Donate(region)
    BY <2>2, <2>3 DEF Contract!Donate, Conventional
  <2>5. QED BY <2>4 DEF Contract!ContractNext
<1>3. CASE ofs \notin Conventional(memory_map)
  <2>1. Read(ofs + 1) = Read(ofs)
    BY <1>1, <1>3 DEF Conventional
  <2>2. Pool(ofs + 1) = Pool(ofs)
    BY <2>1
  <2>3. UNCHANGED Contract!contractVars
    BY <2>2 DEF Contract!contractVars, Conventional
  <2>4. QED BY <2>3 DEF Contract!contractVars
<1>4. QED BY <1>2, <1>3

(* Every step is one of the contract, or changes nothing that it sees. *)
LEMMA ContractStepHolds ==
  HeapInv /\ [Next]_vars => [Contract!ContractNext]_(Contract!contractVars)
<1> SUFFICES ASSUME HeapInv, [Next]_vars
             PROVE  [Contract!ContractNext]_(Contract!contractVars)
  OBVIOUS
<1> USE DEF HeapInv
<1>1. CASE SkipDescriptor
  BY <1>1, DescriptorStep DEF SkipDescriptor
<1>2. CASE AddFreeFromDescriptor
  BY <1>2, DescriptorStep DEF AddFreeFromDescriptor
<1>3. CASE InitDone
  BY <1>3 DEF InitDone, Contract!contractVars, Conventional
<1>4. ASSUME NEW l \in Layouts, Alloc(l) PROVE Contract!ContractNext
  <2>1. Contract!Request(l)
    BY <1>4 DEF Alloc, Contract!Request, Conventional
  <2>2. QED BY <2>1 DEF Contract!ContractNext
<1>5. CASE WalkProvide
  <2>1. /\ pc = "walk" /\ header \in DOMAIN headers /\ layout \in Layouts
        /\ Provides(header, layout)
        /\ headers' = Carved(header, layout)
        /\ live' = Write(live, allocated_addr(header, layout), layout)
        /\ UNCHANGED <<memory_map, ofs>> /\ pc' = "idle"
    BY <1>5 DEF WalkProvide, Return, TypeOK
  <2>2. PICK p \in Nat : p = allocated_addr(header, layout)
    BY <2>1, CutBounds DEF Tiled, HEADER_SIZE
  <2>3. p # 0 /\ p % layout.align = 0
    BY <2>1, <2>2, CutBounds, SMT DEF Tiled, HEADER_SIZE
  <2>4. p \notin DOMAIN live
    BY <2>1, <2>2, CutHeld
  <2>5. \E r \in {Extent(memory_map[i]) :
                    i \in {k \in Conventional(memory_map) : k < ofs}} :
          r.lo <= p /\ p + layout.size <= r.hi
    <3>1. PICK i \in Conventional(memory_map) :
            /\ i < ofs
            /\ memory_map[i].physical_start <= p
            /\ p + layout.size <= DescriptorEnd(memory_map[i])
      BY <2>1, <2>2, CutInPool
    <3>2. /\ Extent(memory_map[i]).lo <= p
          /\ p + layout.size <= Extent(memory_map[i]).hi
      BY <3>1 DEF Extent
    <3>3. QED BY <3>1, <3>2
  <2>6. \A q \in DOMAIN live : p + layout.size <= q \/ q + live[q].size <= p
    BY <2>1, <2>2, CutApart
  <2>7. p \in DOMAIN live'
    BY <2>1, <2>2 DEF Write
  <2>8. Contract!Grant(p, layout)
    BY <2>1, <2>2, <2>3, <2>4, <2>5, <2>6
       DEF Contract!Grant, Contract!InPool, Contract!Aligned, Contract!SharesNoByte,
           Write, Conventional
  <2>9. QED BY <2>1, <2>7, <2>8 DEF Contract!ContractNext, Contract!Answer
<1>6. CASE WalkNext
  BY <1>6 DEF WalkNext, Contract!contractVars, Conventional
<1>7. CASE WalkNull
  <2>1. Contract!Refuse
    BY <1>7 DEF WalkNull, Return, Contract!Refuse, Conventional
  <2>2. QED BY <2>1 DEF Contract!ContractNext, Contract!Answer
<1>8. ASSUME NEW ptr \in DOMAIN live, Dealloc(ptr) PROVE Contract!ContractNext
  <2>1. Contract!Release(ptr)
    BY <1>8 DEF Dealloc, Contract!Release, Conventional
  <2>2. QED BY <2>1 DEF Contract!ContractNext
<1>9. CASE UNCHANGED vars
  BY <1>9 DEF vars, Contract!contractVars, Conventional
<1>10. QED
  BY <1>1, <1>2, <1>3, <1>4, <1>5, <1>6, <1>7, <1>8, <1>9
     DEF Next, InitStep, WalkStep

(* The allocator implements the heap's contract: whatever it hands out is  *)
(* conventional memory, aligned, and shared with no other caller.          *)
THEOREM ImplementsContract == Spec => KeepsContract
BY InvariantHolds, ContractInitHolds, ContractStepHolds, PTL
   DEF Spec, KeepsContract, Contract!ContractSafety

=============================================================================
