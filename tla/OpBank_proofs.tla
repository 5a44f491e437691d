---------------------------- MODULE OpBank_proofs ----------------------------
(***************************************************************************)
(* The order numbers of a block, for every width of the numbers, every     *)
(* gap and every bound on the block: they never decrease, and only odd     *)
(* numbers are shared.  The three invariants of the order are together     *)
(* inductive; the argument is in the two lemmas on midpoints and on        *)
(* renumbering.                                                            *)
(***************************************************************************)
EXTENDS OpBank, TLAPS

IInv == TypeOK /\ OrderNeverDecreases /\ TiesAreOdd

\* The midpoint block_insert_op computes lies at or above the left number and
\* strictly below the right one, and equals the left one only if that is odd.
LEMMA MidpointBetween ==
  ASSUME NEW a \in Nat, NEW b \in Nat, a + 1 < b
  PROVE  LET m == (b \div 2) + (a \div 2)
         IN m \in Nat /\ a <= m /\ m < b /\ (a = m => a % 2 = 1)
<1>1. /\ a \div 2 \in Nat /\ a % 2 \in 0..1 /\ a = 2 * (a \div 2) + (a % 2)
      /\ b \div 2 \in Nat /\ b % 2 \in 0..1 /\ b = 2 * (b \div 2) + (b % 2)
  BY SMT
<1> QED  BY <1>1, SMT

\* What wrapping_sub of two u32 numbers tells about a gap when the left one is
\* not above the right one.
LEMMA WrappingGap ==
  ASSUME NEW a \in Nat, NEW b \in Nat, a <= b, b <= MaxOrder
  PROVE  Wrap(b - a) = b - a
<1>1. MaxOrder \in Nat
  BY OrderAssumption
<1>2. b - a \in 0..MaxOrder
  BY <1>1, SMT
<1> QED  BY <1>1, <1>2, SMT DEF Wrap

\* Renumbering a block of n ops: the step is at least 3 and the last number
\* still fits.
LEMMA StepFits ==
  ASSUME NEW n \in 1..MaxLen
  PROVE  LET step == (MaxOrder \div n) - 1
         IN step \in Nat /\ 3 <= step /\ n * step <= MaxOrder
<1>1. /\ MaxOrder \in Nat /\ n \in Nat \ {0} /\ MaxLen \in Nat /\ n <= MaxLen
      /\ 4 * MaxLen <= MaxOrder
  BY OrderAssumption
<1> DEFINE q == MaxOrder \div n
<1>2. q \in Nat /\ n * q <= MaxOrder /\ MaxOrder < n * (q + 1)
  BY <1>1, SMTT(60)
<1>3. 4 * n <= MaxOrder
  BY <1>1, SMT
<1>4. 4 <= q
  <2>1. SUFFICES ASSUME q <= 3 PROVE FALSE
    BY <1>2, SMT
  <2>2. n * (q + 1) <= n * 4
    BY <1>1, <1>2, <2>1, SMTT(60)
  <2> QED  BY <1>1, <1>2, <1>3, <2>2, SMT
<1>5. n * (q - 1) <= n * q
  BY <1>1, <1>2, SMTT(60)
<1> QED  BY <1>1, <1>2, <1>4, <1>5, SMT

\* A renumbered block satisfies all three invariants (block_set_order).
LEMMA RenumberStep ==
  ASSUME NEW n \in 1..MaxLen, ord' = BlockSetOrder(n)
  PROVE  IInv'
<1> DEFINE step == (MaxOrder \div n) - 1
<1>1. step \in Nat /\ 3 <= step /\ n * step <= MaxOrder
  BY StepFits
<1>2. n \in Nat /\ n <= MaxLen /\ MaxLen \in Nat /\ MaxOrder \in Nat
  BY OrderAssumption
<1>3. ord' = [i \in 1..n |-> i * step]
  BY DEF BlockSetOrder
<1> HIDE DEF step
<1>4. \A i \in 1..n : i * step \in Nat /\ step <= i * step /\ i * step <= n * step
  BY <1>1, <1>2, SMTT(60)
<1>5. ord' \in Seq(Nat) /\ Len(ord') = n
  BY <1>2, <1>3, <1>4, SMT
<1>6. \A i \in 1..n : ord'[i] = i * step
  BY <1>3
<1>7. TypeOK'
  BY <1>1, <1>2, <1>4, <1>5, <1>6, SMT DEF TypeOK
<1>8. \A i \in 1..(n - 1) : ord'[i] < ord'[i + 1]
  <2> TAKE i \in 1..(n - 1)
  <2>1. i \in 1..n /\ i + 1 \in 1..n /\ i \in Nat
    BY <1>2
  <2>2. (i + 1) * step = i * step + step
    BY <1>1, <2>1, SMTT(60)
  <2> QED  BY <1>1, <1>4, <1>6, <2>1, <2>2, SMT
<1>9. \A i \in 1..(n - 1) : ord'[i] \in Nat /\ ord'[i + 1] \in Nat
  BY <1>2, <1>4, <1>6, SMT
<1> QED  BY <1>5, <1>7, <1>8, <1>9, SMT DEF IInv, OrderNeverDecreases, TiesAreOdd

\* The neighbours an insertion sees are in order, and the right one fits.
LEMMA Neighbours ==
  ASSUME IInv, NEW i \in 1..(Len(ord) + 1)
  PROVE  /\ OrdBefore(ord, i) \in Nat /\ OrdAfter(ord, i) \in Nat
         /\ 2 <= OrdBefore(ord, i) /\ OrdBefore(ord, i) <= OrdAfter(ord, i)
         /\ OrdAfter(ord, i) <= MaxOrder
<1>1. MaxOrder \in Nat /\ Gap \in Nat /\ 4 <= Gap /\ Gap < MaxOrder
  BY OrderAssumption
<1>2. /\ ord \in Seq(Nat) /\ Len(ord) \in Nat
      /\ \A k \in 1..Len(ord) : ord[k] \in Nat /\ 2 <= ord[k] /\ ord[k] <= MaxOrder
      /\ \A k \in 1..(Len(ord) - 1) : ord[k] <= ord[k + 1]
  BY SMT DEF IInv, TypeOK, OrderNeverDecreases
<1>3. OrdBefore(ord, i) \in Nat /\ 2 <= OrdBefore(ord, i) /\ OrdBefore(ord, i) <= MaxOrder
  BY <1>1, <1>2, SMT DEF OrdBefore
<1>4. CASE i = Len(ord) + 1
  <2> DEFINE c == Wrap(OrdBefore(ord, i) + Gap)
  <2>1. c \in Nat /\ c <= MaxOrder
    BY <1>1, <1>3, SMT DEF Wrap
  <2>2. OrdAfter(ord, i) = IF c <= OrdBefore(ord, i) THEN MaxOrder ELSE c
    BY <1>4 DEF OrdAfter
  <2> QED  BY <1>1, <1>3, <2>1, <2>2, SMT
<1>5. CASE i # Len(ord) + 1
  <2>1. i \in 1..Len(ord) /\ OrdAfter(ord, i) = ord[i]
    BY <1>2, <1>5, SMT DEF OrdAfter
  <2>2. OrdBefore(ord, i) <= ord[i]
    <3>1. CASE i = 1
      BY <1>2, <2>1, <3>1, SMT DEF OrdBefore
    <3>2. CASE i # 1
      <4>1. i - 1 \in 1..(Len(ord) - 1) /\ (i - 1) + 1 = i
        BY <1>2, <2>1, <3>2, SMT
      <4>2. ord[i - 1] <= ord[i]
        BY <1>2, <4>1
      <4> QED  BY <3>2, <4>2 DEF OrdBefore
    <3> QED  BY <3>1, <3>2
  <2> QED  BY <1>2, <1>3, <2>1, <2>2
<1> QED  BY <1>4, <1>5

\* One insertion keeps the three invariants (block_insert_op).
LEMMA InsertStep ==
  ASSUME IInv, NEW i \in 1..(Len(ord) + 1), Len(ord) < MaxLen,
         ord' = BlockInsertOp(ord, i)
  PROVE  IInv'
<1> DEFINE a == OrdBefore(ord, i)
           b == OrdAfter(ord, i)
           m == Midpoint(ord, i)
           n == Len(ord)
<1>1. /\ ord \in Seq(Nat) /\ n \in Nat
      /\ \A k \in 1..n : ord[k] \in Nat /\ 2 <= ord[k] /\ ord[k] <= MaxOrder
      /\ \A k \in 1..(n - 1) : ord[k] <= ord[k + 1]
      /\ \A k \in 1..(n - 1) : ord[k] = ord[k + 1] => ord[k] % 2 = 1
  BY SMT DEF IInv, TypeOK, OrderNeverDecreases, TiesAreOdd
<1>2. MaxOrder \in Nat /\ MaxLen \in Nat
  BY OrderAssumption
<1>3. a \in Nat /\ b \in Nat /\ 2 <= a /\ a <= b /\ b <= MaxOrder
  BY Neighbours
<1>4. CASE NoRoom(ord, i)
  <2>1. n + 1 \in 1..MaxLen
    BY <1>1, <1>2, SMT
  <2>2. ord' = BlockSetOrder(n + 1)
    BY <1>4 DEF BlockInsertOp
  <2> QED  BY <2>1, <2>2, RenumberStep
<1>5. CASE ~NoRoom(ord, i)
  <2>1. a + 1 < b
    BY <1>3, <1>5, WrappingGap, SMT DEF NoRoom
  <2>2. m \in Nat /\ a <= m /\ m < b /\ (a = m => a % 2 = 1)
    BY <1>3, <2>1, MidpointBetween DEF Midpoint
  <2>3. ord' = [j \in 1..(n + 1) |-> IF j < i THEN ord[j] ELSE IF j = i THEN m ELSE ord[j - 1]]
    BY <1>5 DEF BlockInsertOp, Inserted
  <2>4. i \in Nat /\ 1 <= i /\ i <= n + 1
    BY <1>1
  <2>5. a = (IF i = 1 THEN 2 ELSE ord[i - 1]) /\ (i <= n => b = ord[i])
    BY <1>1, <2>4, SMT DEF OrdBefore, OrdAfter
  <2> HIDE DEF a, b, m, n
  <2>6. 2 <= m
    BY <1>3, <2>2, SMT
  <2>7. /\ \A j \in 1..(i - 1) : ord'[j] = ord[j]
        /\ ord'[i] = m
        /\ \A j \in (i + 1)..(n + 1) : ord'[j] = ord[j - 1]
    BY <1>1, <2>3, <2>4, SMT
  <2>8. \A j \in 1..(n + 1) : ord'[j] \in Nat /\ 2 <= ord'[j] /\ ord'[j] <= MaxOrder
    <3> TAKE j \in 1..(n + 1)
    <3>1. CASE j < i
      <4>1. j \in 1..(i - 1) /\ j \in 1..n
        BY <1>1, <2>4, <3>1, SMT
      <4> QED  BY <1>1, <2>7, <4>1
    <3>2. CASE j = i
      <4>1. m <= MaxOrder
        BY <1>2, <1>3, <2>2, SMT
      <4> QED  BY <2>2, <2>6, <2>7, <3>2, <4>1
    <3>3. CASE i < j
      <4>1. j \in (i + 1)..(n + 1) /\ j - 1 \in 1..n
        BY <1>1, <2>4, <3>3, SMT
      <4> QED  BY <1>1, <2>7, <4>1
    <3> QED  BY <1>1, <2>4, <3>1, <3>2, <3>3, SMT
  <2>9. ord' \in Seq(Nat) /\ Len(ord') = n + 1
    BY <1>1, <2>3, <2>8, SMT
  <2>10. n + 1 <= MaxLen
    BY <1>1, <1>2, SMT DEF n
  <2>11. \A j \in 1..n : ord'[j] <= ord'[j + 1] /\ (ord'[j] = ord'[j + 1] => ord'[j] % 2 = 1)
    <3> SUFFICES ASSUME NEW j \in 1..n
                 PROVE  ord'[j] <= ord'[j + 1] /\ (ord'[j] = ord'[j + 1] => ord'[j] % 2 = 1)
      OBVIOUS
    <3>1. CASE j + 1 < i
      <4>1. j \in 1..(n - 1) /\ j \in 1..(i - 1) /\ j + 1 \in 1..(i - 1)
        BY <1>1, <2>4, <3>1, SMT
      <4> QED  BY <1>1, <2>7, <4>1
    <3>2. CASE j + 1 = i
      <4>1. ord'[j] = a /\ ord'[j + 1] = m
        BY <1>1, <2>4, <2>5, <2>7, <3>2, SMT
      <4> QED  BY <2>2, <4>1
    <3>3. CASE j = i
      <4>1. ord'[j] = m /\ ord'[j + 1] = b
        BY <1>1, <2>4, <2>5, <2>7, <3>3, SMT
      <4> QED  BY <1>3, <2>2, <4>1, SMT
    <3>4. CASE i < j
      <4>1. /\ j - 1 \in 1..(n - 1) /\ (j - 1) + 1 = j /\ (j + 1) - 1 = j
            /\ j \in (i + 1)..(n + 1) /\ j + 1 \in (i + 1)..(n + 1)
        BY <1>1, <2>4, <3>4, SMT
      <4>2. ord'[j] = ord[j - 1] /\ ord'[j + 1] = ord[j]
        BY <2>7, <4>1
      <4>3. ord[j - 1] <= ord[j] /\ (ord[j - 1] = ord[j] => ord[j - 1] % 2 = 1)
        BY <1>1, <4>1
      <4> QED  BY <4>2, <4>3
    <3> QED  BY <1>1, <2>4, <3>1, <3>2, <3>3, <3>4, SMT
  <2>12. TypeOK'
    BY <2>8, <2>9, <2>10 DEF TypeOK
  <2>13. Len(ord') - 1 = n
    BY <1>1, <2>9, SMT
  <2> QED  BY <2>11, <2>12, <2>13 DEF IInv, OrderNeverDecreases, TiesAreOdd
<1> QED  BY <1>4, <1>5

\* Removing an op leaves the other numbers alone and keeps the invariants: a
\* tie across the gap would need three equal numbers (block_remove_op).
LEMMA RemoveStep ==
  ASSUME IInv, NEW i \in 1..Len(ord), ord' = BlockRemoveOp(ord, i)
  PROVE  IInv'
<1> DEFINE n == Len(ord)
<1>1. /\ ord \in Seq(Nat) /\ n \in Nat /\ n <= MaxLen
      /\ \A k \in 1..n : ord[k] \in Nat /\ 2 <= ord[k] /\ ord[k] <= MaxOrder
      /\ \A k \in 1..(n - 1) : ord[k] <= ord[k + 1]
      /\ \A k \in 1..(n - 1) : ord[k] = ord[k + 1] => ord[k] % 2 = 1
  BY SMT DEF IInv, TypeOK, OrderNeverDecreases, TiesAreOdd
<1>2. ord' = [j \in 1..(n - 1) |-> IF j < i THEN ord[j] ELSE ord[j + 1]]
  BY DEF BlockRemoveOp
<1>3. i \in Nat /\ 1 <= i /\ i <= n /\ MaxLen \in Nat
  BY <1>1, OrderAssumption
<1> HIDE DEF n
<1>4. /\ \A j \in 1..(i - 1) : j \in 1..(n - 1) /\ ord'[j] = ord[j]
      /\ \A j \in i..(n - 1) : j + 1 \in 1..n /\ ord'[j] = ord[j + 1]
  BY <1>1, <1>2, <1>3, SMT
<1>5. \A j \in 1..(n - 1) : ord'[j] \in Nat /\ 2 <= ord'[j] /\ ord'[j] <= MaxOrder
  <2> TAKE j \in 1..(n - 1)
  <2>1. CASE j < i
    <3>1. j \in 1..(i - 1) /\ j \in 1..n
      BY <1>1, <1>3, <2>1, SMT
    <3> QED  BY <1>1, <1>4, <3>1
  <2>2. CASE i <= j
    <3>1. j \in i..(n - 1) /\ j + 1 \in 1..n
      BY <1>1, <1>3, <2>2, SMT
    <3> QED  BY <1>1, <1>4, <3>1
  <2> QED  BY <1>1, <1>3, <2>1, <2>2, SMT
<1>6. ord' \in Seq(Nat) /\ Len(ord') = n - 1
  BY <1>1, <1>2, <1>3, <1>5, SMT
<1>7. \A j \in 1..(n - 2) : ord'[j] <= ord'[j + 1] /\ (ord'[j] = ord'[j + 1] => ord'[j] % 2 = 1)
  <2> SUFFICES ASSUME NEW j \in 1..(n - 2)
               PROVE  ord'[j] <= ord'[j + 1] /\ (ord'[j] = ord'[j + 1] => ord'[j] % 2 = 1)
    OBVIOUS
  <2>1. CASE j + 1 < i
    <3>1. j \in 1..(n - 1) /\ ord'[j] = ord[j] /\ ord'[j + 1] = ord[j + 1]
      BY <1>1, <1>3, <1>4, <2>1, SMT
    <3> QED  BY <1>1, <3>1
  <2>2. CASE j + 1 = i
    <3>1. ord'[j] = ord[j] /\ ord'[j + 1] = ord[j + 2] /\ j \in 1..(n - 1) /\ j + 1 \in 1..(n - 1)
      BY <1>1, <1>3, <1>4, <2>2, SMT
    <3>2. ord[j] <= ord[j + 1] /\ ord[j + 1] <= ord[(j + 1) + 1] /\ (j + 1) + 1 = j + 2
      BY <1>1, <3>1, SMT
    <3>3. ord[j] \in Nat /\ ord[j + 1] \in Nat /\ ord[j + 2] \in Nat
      <4>1. j \in 1..n /\ j + 1 \in 1..n /\ j + 2 \in 1..n
        BY <1>1, SMT
      <4> QED  BY <1>1, <4>1
    <3>4. ord[j] = ord[j + 2] => ord[j] = ord[j + 1]
      BY <3>2, <3>3, SMT
    <3>5. ord[j] <= ord[j + 2]
      BY <3>2, <3>3, SMT
    <3>6. ord[j] = ord[j + 2] => ord[j] % 2 = 1
      BY <1>1, <3>1, <3>4
    <3> QED  BY <3>1, <3>5, <3>6
  <2>3. CASE i <= j
    <3>1. j + 1 \in 1..(n - 1) /\ ord'[j] = ord[j + 1] /\ ord'[j + 1] = ord[(j + 1) + 1]
      BY <1>1, <1>3, <1>4, <2>3, SMT
    <3> QED  BY <1>1, <3>1
  <2> QED  BY <1>1, <1>3, <2>1, <2>2, <2>3, SMT
<1>8. TypeOK'
  BY <1>1, <1>3, <1>5, <1>6, SMT DEF TypeOK
<1>9. Len(ord') - 1 = n - 2
  BY <1>1, <1>3, <1>6, SMT
<1> QED  BY <1>7, <1>8, <1>9 DEF IInv, OrderNeverDecreases, TiesAreOdd

\* For numbers of any width, any gap and blocks of any length up to a quarter of
\* the range, the order numbers of a block never decrease along it, and two
\* neighbours share only an odd number.
THEOREM BlockOrdered == Spec => [](TypeOK /\ OrderNeverDecreases /\ TiesAreOdd)
<1>1. Init => IInv
  <2> SUFFICES ASSUME Init PROVE IInv
    OBVIOUS
  <2>1. ord = <<>> /\ Len(ord) = 0 /\ ord \in Seq(Nat) /\ MaxLen \in Nat
    BY OrderAssumption DEF Init
  <2> QED  BY <2>1, SMT DEF IInv, TypeOK, OrderNeverDecreases, TiesAreOdd
<1>2. IInv /\ [Next]_ord => IInv'
  <2> SUFFICES ASSUME IInv, [Next]_ord PROVE IInv'
    OBVIOUS
  <2>1. CASE Insert
    BY <2>1, InsertStep DEF Insert
  <2>2. CASE Remove
    BY <2>2, RemoveStep DEF Remove
  <2>3. CASE Splice
    <3>1. PICK branch \in {0, 1}, m \in 1..MaxLen :
            /\ branch <= Len(ord) /\ (Len(ord) - branch) + m <= MaxLen
            /\ ord' = BlockSetOrder((Len(ord) - branch) + m)
      BY <2>3 DEF Splice
    <3>2. Len(ord) \in Nat /\ MaxLen \in Nat
      BY OrderAssumption DEF IInv, TypeOK
    <3>3. (Len(ord) - branch) + m \in 1..MaxLen
      BY <3>1, <3>2, SMT
    <3> QED  BY <3>1, <3>3, RenumberStep
  <2>4. CASE UNCHANGED ord
    BY <2>4 DEF IInv, TypeOK, OrderNeverDecreases, TiesAreOdd
  <2> QED  BY <2>1, <2>2, <2>3, <2>4 DEF Next
<1>3. IInv => TypeOK /\ OrderNeverDecreases /\ TiesAreOdd
  BY DEF IInv
<1> QED  BY <1>1, <1>2, <1>3, PTL DEF Spec
=============================================================================
