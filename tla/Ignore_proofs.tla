----------------------------- MODULE Ignore_proofs -----------------------------
(* Proofs about Glob and Ignore.  The loop, the table and the bit mask all  *)
(* find out whether what is asked can be cut into what each part covers, so *)
(* a compiled glob ignores what its client meant.  And as long as no        *)
(* directory comes to differ in the case sensitivity that a cached state    *)
(* was made for, the cache of a thread is a tree in which every state is    *)
(* one step from its parent's: whatever the globs, the words, the watchers  *)
(* that take turns and the limit, an answer is what is meant.               *)
EXTENDS Ignore, SequenceTheorems, NaturalsInduction, WellFoundedInduction, TLAPS

----------------------------------------------------------------------------
(* Numbers.                                                                 *)
(* A set of numbers has a least one.                                        *)
LEMMA LeastNat ==
  ASSUME NEW T, T \subseteq Nat, T # {}
  PROVE  \E n \in T : \A m \in T : n <= m
<1> DEFINE R == {p \in Nat \X Nat : p[1] < p[2]}
<1>1. IsWellFoundedOn(R, Nat)
  BY NatLessThanWellFounded DEF OpToRel
<1>2. \E n \in T : \A m \in T : ~ (<<m, n>> \in R)
  <2> HIDE DEF R
  <2> QED
    BY <1>1, WFMin
<1>3. PICK n \in T : \A m \in T : ~ (<<m, n>> \in R)
  BY <1>2
<1>4. ASSUME NEW m \in T PROVE n <= m
  <2>1. m \in Nat /\ n \in Nat /\ ~(<<m, n>> \in R)
    BY <1>3
  <2>2. ~(m < n)
    BY <2>1
  <2> QED
    BY <2>1, <2>2
<1> QED
  BY <1>4

(* A set of numbers with 0, and with each number's successor up to a bound. *)
LEMMA UpTo ==
  ASSUME NEW N \in Nat, NEW T, 0 \in T, \A n \in Nat : n < N /\ n \in T => n + 1 \in T
  PROVE  \A n \in 0 .. N : n \in T
<1> DEFINE bad == {n \in 0 .. N : n \notin T}
<1> SUFFICES ASSUME bad # {} PROVE FALSE
  OBVIOUS
<1>1. PICK n \in bad : \A m \in bad : n <= m
  <2>1. bad \subseteq Nat
    OBVIOUS
  <2> HIDE DEF bad
  <2> QED
    BY <2>1, LeastNat
<1>2. n \in Nat /\ n # 0 /\ n <= N /\ n \notin T
  BY <1>1
<1>3. n - 1 \in Nat /\ n - 1 < N /\ n - 1 \in T
  BY <1>1, <1>2
<1> QED
  BY <1>2, <1>3

----------------------------------------------------------------------------
(* One part of a pattern: what it covers ends at x before it and y behind.  *)
Step(many, fits, x, k, y) ==
  IF k \in many THEN y >= x ELSE y = x + 1 /\ <<k, y>> \in fits

(* Where the parts i + 1 .. m end, if they cover the elements a + 1 .. b.   *)
IsCut(many, fits, i, m, cut) ==
  /\ cut \in [i .. m -> Nat]
  /\ \A k \in (i + 1) .. m : Step(many, fits, cut[k - 1], k, cut[k])

Covers(many, fits, i, m, a, b) ==
  \E cut : IsCut(many, fits, i, m, cut) /\ cut[i] = a /\ cut[m] = b

LEMMA CutGrows ==
  ASSUME NEW i \in Nat, NEW m \in Nat, i <= m, NEW many, NEW fits, NEW cut,
         IsCut(many, fits, i, m, cut)
  PROVE  \A k \in i .. m : cut[i] <= cut[k] /\ cut[k] <= cut[m]
<1>1. \A k \in i .. m : cut[k] \in Nat
  BY DEF IsCut
<1>2. \A k \in (i + 1) .. m : cut[k - 1] <= cut[k]
  <2> SUFFICES ASSUME NEW k \in (i + 1) .. m PROVE cut[k - 1] <= cut[k]
    OBVIOUS
  <2>1. cut[k - 1] \in Nat /\ cut[k] \in Nat
    BY <1>1
  <2>2. Step(many, fits, cut[k - 1], k, cut[k])
    BY DEF IsCut
  <2> QED
    BY <2>1, <2>2 DEF Step
<1> DEFINE up == {d \in Nat : i + d <= m => cut[i] <= cut[i + d]}
           down == {d \in Nat : i + d <= m => cut[m - d] <= cut[m]}
<1>3. \A d \in 0 .. (m - i) : d \in up
  <2>1. 0 \in up
    BY <1>1
  <2>2. ASSUME NEW d \in Nat, d < m - i, d \in up PROVE d + 1 \in up
    <3>1. i + d + 1 \in (i + 1) .. m /\ (i + d + 1) - 1 = i + d
      BY <2>2
    <3>2. cut[i + d] <= cut[i + d + 1] /\ cut[i] <= cut[i + d]
      BY <3>1, <2>2, <1>2
    <3>3. cut[i] \in Nat /\ cut[i + d] \in Nat /\ cut[i + d + 1] \in Nat
      BY <1>1, <3>1
    <3>4. cut[i] <= cut[i + d + 1]
      BY <3>2, <3>3
    <3>5. i + (d + 1) = i + d + 1
      OBVIOUS
    <3> QED
      BY <3>4, <3>5
  <2>3. m - i \in Nat
    OBVIOUS
  <2> HIDE DEF up
  <2> QED
    BY <2>1, <2>2, <2>3, UpTo
<1>4. \A d \in 0 .. (m - i) : d \in down
  <2>1. 0 \in down
    BY <1>1
  <2>2. ASSUME NEW d \in Nat, d < m - i, d \in down PROVE d + 1 \in down
    <3>1. m - d \in (i + 1) .. m /\ m - d - 1 \in i .. m /\ m - (d + 1) = m - d - 1
      BY <2>2
    <3>2. cut[m - d - 1] <= cut[m - d] /\ cut[m - d] <= cut[m]
      BY <3>1, <2>2, <1>2
    <3>3. cut[m - d - 1] \in Nat /\ cut[m - d] \in Nat /\ cut[m] \in Nat
      BY <1>1, <3>1
    <3> QED
      BY <3>1, <3>2, <3>3
  <2>3. m - i \in Nat
    OBVIOUS
  <2> HIDE DEF down
  <2> QED
    BY <2>1, <2>2, <2>3, UpTo
<1> TAKE k \in i .. m
<1>5. k - i \in 0 .. (m - i) /\ m - k \in 0 .. (m - i) /\ i + (k - i) = k /\ m - (m - k) = k
  OBVIOUS
<1>6. k - i \in up /\ m - k \in down
  BY <1>3, <1>4, <1>5
<1> QED
  BY <1>5, <1>6

LEMMA CoversGrows ==
  ASSUME NEW i \in Nat, NEW m \in Nat, i <= m, NEW many, NEW fits, NEW a, NEW b,
         Covers(many, fits, i, m, a, b)
  PROVE  a \in Nat /\ b \in Nat /\ a <= b
<1>1. PICK cut : IsCut(many, fits, i, m, cut) /\ cut[i] = a /\ cut[m] = b
  BY DEF Covers
<1>2. cut[i] <= cut[m]
  BY <1>1, CutGrows
<1> QED
  BY <1>1, <1>2 DEF IsCut

LEMMA CoversNone ==
  ASSUME NEW m \in Nat, NEW many, NEW fits, NEW a \in Nat, NEW b \in Nat
  PROVE  Covers(many, fits, m, m, a, b) <=> a = b
<1>1. ASSUME a = b PROVE Covers(many, fits, m, m, a, b)
  <2> DEFINE cut == [k \in m .. m |-> a]
  <2>1. IsCut(many, fits, m, m, cut) /\ cut[m] = a
    BY DEF IsCut
  <2> QED
    BY <1>1, <2>1 DEF Covers
<1> QED
  BY <1>1 DEF Covers

LEMMA CoversOne ==
  ASSUME NEW m \in Nat, NEW many, NEW fits, NEW a \in Nat, NEW b \in Nat
  PROVE  Covers(many, fits, m, m + 1, a, b) <=> Step(many, fits, a, m + 1, b)
<1>1. ASSUME Step(many, fits, a, m + 1, b) PROVE Covers(many, fits, m, m + 1, a, b)
  <2> DEFINE cut == [k \in m .. (m + 1) |-> IF k = m THEN a ELSE b]
  <2>1. cut \in [m .. (m + 1) -> Nat] /\ cut[m] = a /\ cut[m + 1] = b
    OBVIOUS
  <2>2. ASSUME NEW k \in (m + 1) .. (m + 1) PROVE k = m + 1 /\ k - 1 = m
    OBVIOUS
  <2> HIDE DEF cut
  <2> QED
    BY <1>1, <2>1, <2>2 DEF IsCut, Covers
<1>2. ASSUME Covers(many, fits, m, m + 1, a, b) PROVE Step(many, fits, a, m + 1, b)
  <2>1. PICK cut : IsCut(many, fits, m, m + 1, cut) /\ cut[m] = a /\ cut[m + 1] = b
    BY <1>2 DEF Covers
  <2>2. m + 1 \in (m + 1) .. (m + 1) /\ (m + 1) - 1 = m
    OBVIOUS
  <2>3. Step(many, fits, cut[(m + 1) - 1], m + 1, cut[m + 1])
    BY <2>1, <2>2 DEF IsCut
  <2> QED
    BY <2>1, <2>2, <2>3
<1> QED
  BY <1>1, <1>2

(* A pattern can be taken apart anywhere.                                   *)
Split(many, fits, i, k, m, a, b) ==
  \E x \in Nat : Covers(many, fits, i, k, a, x) /\ Covers(many, fits, k, m, x, b)

LEMMA CoversSplit ==
  ASSUME NEW i \in Nat, NEW k \in Nat, NEW m \in Nat, i <= k, k <= m,
         NEW many, NEW fits, NEW a \in Nat, NEW b \in Nat
  PROVE  Covers(many, fits, i, m, a, b) <=> Split(many, fits, i, k, m, a, b)
<1>1. ASSUME Covers(many, fits, i, m, a, b)
      PROVE  \E x \in Nat : Covers(many, fits, i, k, a, x) /\ Covers(many, fits, k, m, x, b)
  <2>1. PICK cut : IsCut(many, fits, i, m, cut) /\ cut[i] = a /\ cut[m] = b
    BY <1>1 DEF Covers
  <2> DEFINE left == [j \in i .. k |-> cut[j]]
             right == [j \in k .. m |-> cut[j]]
  <2>2. cut \in [i .. m -> Nat] /\ \A j \in (i + 1) .. m : Step(many, fits, cut[j - 1], j, cut[j])
    BY <2>1 DEF IsCut
  <2>3. left \in [i .. k -> Nat] /\ right \in [k .. m -> Nat] /\ cut[k] \in Nat
    BY <2>2
  <2>4. ASSUME NEW j \in (i + 1) .. k PROVE Step(many, fits, left[j - 1], j, left[j])
    <3>1. j \in (i + 1) .. m /\ left[j - 1] = cut[j - 1] /\ left[j] = cut[j]
      OBVIOUS
    <3> HIDE DEF left
    <3> QED
      BY <2>2, <3>1
  <2>5. ASSUME NEW j \in (k + 1) .. m PROVE Step(many, fits, right[j - 1], j, right[j])
    <3>1. j \in (i + 1) .. m /\ right[j - 1] = cut[j - 1] /\ right[j] = cut[j]
      OBVIOUS
    <3> HIDE DEF right
    <3> QED
      BY <2>2, <3>1
  <2>6. left[i] = a /\ left[k] = cut[k] /\ right[k] = cut[k] /\ right[m] = b
    BY <2>1
  <2> HIDE DEF left, right
  <2>7. Covers(many, fits, i, k, a, cut[k])
    BY <2>3, <2>4, <2>6 DEF Covers, IsCut
  <2>8. Covers(many, fits, k, m, cut[k], b)
    BY <2>3, <2>5, <2>6 DEF Covers, IsCut
  <2> QED
    BY <2>3, <2>7, <2>8
<1>2. ASSUME NEW x \in Nat, Covers(many, fits, i, k, a, x), Covers(many, fits, k, m, x, b)
      PROVE  Covers(many, fits, i, m, a, b)
  <2>1. PICK left : IsCut(many, fits, i, k, left) /\ left[i] = a /\ left[k] = x
    BY <1>2 DEF Covers
  <2>2. PICK right : IsCut(many, fits, k, m, right) /\ right[k] = x /\ right[m] = b
    BY <1>2 DEF Covers
  <2> DEFINE cut == [j \in i .. m |-> IF j <= k THEN left[j] ELSE right[j]]
  <2>3. /\ left \in [i .. k -> Nat]
        /\ \A j \in (i + 1) .. k : Step(many, fits, left[j - 1], j, left[j])
    BY <2>1 DEF IsCut
  <2>4. /\ right \in [k .. m -> Nat]
        /\ \A j \in (k + 1) .. m : Step(many, fits, right[j - 1], j, right[j])
    BY <2>2 DEF IsCut
  <2>5. cut \in [i .. m -> Nat]
    BY <2>3, <2>4
  <2>6. cut[i] = a /\ cut[m] = b
    BY <2>1, <2>2
  <2>7. ASSUME NEW j \in (i + 1) .. m PROVE Step(many, fits, cut[j - 1], j, cut[j])
    <3>1. CASE j <= k
      <4>1. j \in (i + 1) .. k /\ cut[j - 1] = left[j - 1] /\ cut[j] = left[j]
        BY <3>1
      <4> HIDE DEF cut
      <4> QED
        BY <4>1, <2>3
    <3>2. CASE j > k
      <4>1. j \in (k + 1) .. m /\ cut[j] = right[j]
        BY <3>2
      <4>2. cut[j - 1] = right[j - 1]
        <5>1. CASE j = k + 1
          BY <5>1, <2>1, <2>2
        <5>2. CASE j # k + 1
          BY <3>2, <5>2
        <5> QED
          BY <5>1, <5>2
      <4> HIDE DEF cut
      <4> QED
        BY <4>1, <4>2, <2>4
    <3> QED
      BY <3>1, <3>2
  <2> HIDE DEF cut
  <2> QED
    BY <2>5, <2>6, <2>7 DEF Covers, IsCut
<1> QED
  BY <1>1, <1>2 DEF Split

LEMMA CoversLast ==
  ASSUME NEW i \in Nat, NEW m \in Nat, i <= m,
         NEW many, NEW fits, NEW a \in Nat, NEW b \in Nat
  PROVE  Covers(many, fits, i, m + 1, a, b) <=>
           \E x \in Nat : Covers(many, fits, i, m, a, x) /\ Step(many, fits, x, m + 1, b)
<1>1. m + 1 \in Nat /\ i <= m /\ m <= m + 1
  OBVIOUS
<1>2. Covers(many, fits, i, m + 1, a, b) <=> Split(many, fits, i, m, m + 1, a, b)
  BY <1>1, CoversSplit
<1>3. \A x \in Nat : Covers(many, fits, m, m + 1, x, b) <=> Step(many, fits, x, m + 1, b)
  BY CoversOne
<1> QED
  BY <1>2, <1>3 DEF Split

LEMMA CoversFirst ==
  ASSUME NEW i \in Nat, NEW m \in Nat, i + 1 <= m,
         NEW many, NEW fits, NEW a \in Nat, NEW b \in Nat
  PROVE  Covers(many, fits, i, m, a, b) <=>
           \E x \in Nat : Step(many, fits, a, i + 1, x) /\ Covers(many, fits, i + 1, m, x, b)
<1> DEFINE k == i + 1
<1>1. k \in Nat /\ i <= k /\ k <= m
  OBVIOUS
<1>2. \A x \in Nat : Covers(many, fits, i, k, a, x) <=> Step(many, fits, a, k, x)
  BY CoversOne
<1> HIDE DEF k
<1>3. Covers(many, fits, i, m, a, b) <=> Split(many, fits, i, k, m, a, b)
  BY <1>1, CoversSplit
<1>4. Covers(many, fits, i, m, a, b) <=>
        \E x \in Nat : Step(many, fits, a, k, x) /\ Covers(many, fits, k, m, x, b)
  BY <1>2, <1>3 DEF Split
<1> QED
  BY <1>4 DEF k

(* It only matters what is asked of the parts and of the elements there are. *)
LEMMA CoversAgree ==
  ASSUME NEW i \in Nat, NEW m \in Nat, i <= m, NEW many, NEW fits, NEW many2, NEW fits2,
         NEW a \in Nat, NEW b \in Nat,
         \A k \in (i + 1) .. m : k \in many <=> k \in many2,
         \A k \in (i + 1) .. m, y \in 1 .. b :
            k \notin many => (<<k, y>> \in fits <=> <<k, y>> \in fits2),
         Covers(many, fits, i, m, a, b)
  PROVE  Covers(many2, fits2, i, m, a, b)
<1>1. PICK cut : IsCut(many, fits, i, m, cut) /\ cut[i] = a /\ cut[m] = b
  BY DEF Covers
<1>2. /\ cut \in [i .. m -> Nat]
      /\ \A k \in (i + 1) .. m : Step(many, fits, cut[k - 1], k, cut[k])
  BY <1>1 DEF IsCut
<1>3. \A k \in i .. m : cut[k] <= b
  BY <1>1, CutGrows
<1>4. ASSUME NEW k \in (i + 1) .. m PROVE Step(many2, fits2, cut[k - 1], k, cut[k])
  <2>1. Step(many, fits, cut[k - 1], k, cut[k]) /\ cut[k] <= b /\ cut[k] \in Nat
        /\ cut[k - 1] \in Nat
    BY <1>2, <1>3
  <2>2. CASE k \in many
    BY <2>1, <2>2 DEF Step
  <2>3. CASE k \notin many
    <3>1. cut[k] = cut[k - 1] + 1 /\ <<k, cut[k]>> \in fits
      BY <2>1, <2>3 DEF Step
    <3>2. cut[k] \in 1 .. b
      BY <2>1, <3>1
    <3> QED
      BY <2>3, <3>1, <3>2 DEF Step
  <2> QED
    BY <2>2, <2>3
<1> QED
  BY <1>1, <1>2, <1>4 DEF Covers, IsCut

LEMMA AlignedIs ==
  ASSUME NEW m \in Nat, NEW n \in Nat, NEW many, NEW fits
  PROVE  Aligned(m, n, many, fits) <=> Covers(many, fits, 0, m, 0, n)
<1>1. ASSUME Aligned(m, n, many, fits) PROVE Covers(many, fits, 0, m, 0, n)
  <2>1. PICK cut \in [0 .. m -> 0 .. n] :
          /\ cut[0] = 0 /\ cut[m] = n
          /\ \A i \in 1 .. m : IF i \in many THEN cut[i] >= cut[i - 1]
                               ELSE cut[i] = cut[i - 1] + 1 /\ <<i, cut[i]>> \in fits
    BY <1>1 DEF Aligned
  <2>2. IsCut(many, fits, 0, m, cut)
    BY <2>1 DEF IsCut, Step
  <2> QED
    BY <2>1, <2>2 DEF Covers
<1>2. ASSUME Covers(many, fits, 0, m, 0, n) PROVE Aligned(m, n, many, fits)
  <2>1. PICK cut : IsCut(many, fits, 0, m, cut) /\ cut[0] = 0 /\ cut[m] = n
    BY <1>2 DEF Covers
  <2>2. \A k \in 0 .. m : cut[k] <= n
    BY <2>1, CutGrows
  <2>3. cut \in [0 .. m -> 0 .. n]
    BY <2>1, <2>2 DEF IsCut
  <2> QED
    BY <2>1, <2>3 DEF Aligned, IsCut, Step
<1> QED
  BY <1>1, <1>2

----------------------------------------------------------------------------
(* The table.                                                               *)
LEMMA CoversStar ==
  ASSUME NEW i \in Nat, NEW m \in Nat, i + 1 <= m, NEW many, NEW fits,
         NEW a \in Nat, NEW b \in Nat, i + 1 \in many
  PROVE  Covers(many, fits, i, m, a, b) <=>
           \/ Covers(many, fits, i + 1, m, a, b)
           \/ a < b /\ Covers(many, fits, i, m, a + 1, b)
<1>1. \A c \in Nat : Covers(many, fits, i, m, c, b) <=>
                       \E x \in Nat : x >= c /\ Covers(many, fits, i + 1, m, x, b)
  BY CoversFirst DEF Step
<1>2. \A x \in Nat : Covers(many, fits, i + 1, m, x, b) => x <= b
  BY CoversGrows
<1>3. a + 1 \in Nat /\ \A x \in Nat : x >= a <=> x = a \/ x >= a + 1
  OBVIOUS
<1> HIDE DEF Covers
<1> QED
  BY <1>1, <1>2, <1>3

LEMMA CoversChar ==
  ASSUME NEW i \in Nat, NEW m \in Nat, i + 1 <= m, NEW many, NEW fits,
         NEW a \in Nat, NEW b \in Nat, i + 1 \notin many
  PROVE  Covers(many, fits, i, m, a, b) <=>
           a < b /\ <<i + 1, a + 1>> \in fits /\ Covers(many, fits, i + 1, m, a + 1, b)
<1>1. Covers(many, fits, i, m, a, b) <=>
        \E x \in Nat : /\ x = a + 1 /\ <<i + 1, x>> \in fits
                       /\ Covers(many, fits, i + 1, m, x, b)
  BY CoversFirst DEF Step
<1>2. \A x \in Nat : Covers(many, fits, i + 1, m, x, b) => x <= b
  BY CoversGrows
<1> DEFINE y == a + 1
<1>3. y \in Nat
  OBVIOUS
<1>4. Covers(many, fits, i, m, a, b) <=>
        <<i + 1, y>> \in fits /\ Covers(many, fits, i + 1, m, y, b)
  <2>1. \A x : x = a + 1 <=> x = y
    OBVIOUS
  <2> HIDE DEF y
  <2> QED
    BY <1>1, <1>3, <2>1
<1> QED
  BY <1>2, <1>3, <1>4

LEMMA CellsAre ==
  ASSUME NEW m \in Nat, NEW n \in Nat, NEW many, NEW fits
  PROVE  \A x \in (1 .. m + 1) \X (1 .. n + 1) :
           Cells(m, n, many, fits)[x] <=> Covers(many, fits, x[1] - 1, m, x[2] - 1, n)
<1> DEFINE D == (1 .. m + 1) \X (1 .. n + 1)
           Value(f, i, j) ==
             IF i > m THEN j > n
             ELSE IF i \in many
               THEN f[<<i + 1, j>>] \/ (j <= n /\ f[<<i, j + 1>>])
             ELSE j <= n /\ <<i, j>> \in fits /\ f[<<i + 1, j + 1>>]
           Body(f) == [x \in D |-> Value(f, x[1], x[2])]
           T(i, j) == Covers(many, fits, i - 1, m, j - 1, n)
           S == {x \in D : T(x[1], x[2])}
           sol == [x \in D |-> x \in S]
           cells == Cells(m, n, many, fits)
<1>1. ASSUME NEW i \in 1 .. m + 1, NEW j \in 1 .. n + 1
      PROVE  T(i, j) <=>
               IF i > m THEN j > n
               ELSE IF i \in many THEN T(i + 1, j) \/ (j <= n /\ T(i, j + 1))
               ELSE j <= n /\ <<i, j>> \in fits /\ T(i + 1, j + 1)
  <2>1. i - 1 \in Nat /\ j - 1 \in Nat /\ (i - 1) + 1 = i /\ (j - 1) + 1 = j
        /\ (i + 1) - 1 = i /\ (j + 1) - 1 = j
    OBVIOUS
  <2>2. CASE i > m
    <3>1. i - 1 = m
      BY <2>2
    <3>2. T(i, j) <=> j - 1 = n
      BY <2>1, <3>1, CoversNone
    <3> QED
      BY <2>2, <3>2
  <2>3. CASE i <= m /\ i \in many
    <3>1. \A k \in Nat : k + 1 <= m /\ k + 1 \in many =>
            \A a \in Nat : Covers(many, fits, k, m, a, n) <=>
              \/ Covers(many, fits, k + 1, m, a, n)
              \/ a < n /\ Covers(many, fits, k, m, a + 1, n)
      BY CoversStar
    <3>2. T(i, j) <=> Covers(many, fits, i, m, j - 1, n)
                      \/ (j - 1 < n /\ Covers(many, fits, i - 1, m, j, n))
      BY <2>1, <2>3, <3>1
    <3> QED
      BY <2>1, <2>3, <3>2
  <2>4. CASE i <= m /\ i \notin many
    <3>1. \A k \in Nat : k + 1 <= m /\ k + 1 \notin many =>
            \A a \in Nat : Covers(many, fits, k, m, a, n) <=>
              a < n /\ <<k + 1, a + 1>> \in fits /\ Covers(many, fits, k + 1, m, a + 1, n)
      BY CoversChar
    <3>2. T(i, j) <=> j - 1 < n /\ <<i, j>> \in fits /\ Covers(many, fits, i, m, j, n)
      BY <2>1, <2>4, <3>1
    <3> QED
      BY <2>1, <2>4, <3>2
  <2> QED
    BY <2>2, <2>3, <2>4
<1> HIDE DEF T
<1>2. \A x \in D : x[1] \in 1 .. m + 1 /\ x[2] \in 1 .. n + 1 /\ x = <<x[1], x[2]>>
  OBVIOUS
<1>3. \A i \in 1 .. m + 1, j \in 1 .. n + 1 : <<i, j>> \in D /\ (sol[<<i, j>>] <=> T(i, j))
  OBVIOUS
<1>4. sol = Body(sol)
  <2>1. ASSUME NEW x \in D PROVE x \in S <=> Value(sol, x[1], x[2])
    <3>1. PICK i \in 1 .. m + 1, j \in 1 .. n + 1 : x[1] = i /\ x[2] = j
      BY <1>2
    <3>4. x \in S <=> T(i, j)
      BY <3>1
    <3>2. CASE i > m
      BY <1>1, <3>1, <3>2, <3>4
    <3>3. CASE i <= m
      <4>1. i + 1 \in 1 .. m + 1 /\ (j <= n => j + 1 \in 1 .. n + 1)
        BY <3>3
      <4> HIDE DEF sol, S
      <4> QED
        BY <1>1, <1>3, <3>1, <3>3, <3>4, <4>1
    <3> QED
      BY <3>2, <3>3
  <2>2. sol = [x \in D |-> x \in S]
    OBVIOUS
  <2> HIDE DEF S, sol, D
  <2>3. [x \in D |-> x \in S] = Body(sol)
    BY <2>1
  <2> QED
    BY <2>2, <2>3
<1>5. cells = Body(cells)
  <2>1. cells = CHOOSE f : f = Body(f)
    BY DEF Cells
  <2> HIDE DEF Body, sol, cells
  <2> QED
    BY <1>4, <2>1
<1>6. ASSUME NEW i \in 1 .. m + 1, NEW j \in 1 .. n + 1
      PROVE  cells[<<i, j>>] <=> Value(cells, i, j)
  <2>1. Body(cells)[<<i, j>>] <=> Value(cells, i, j)
    <3> HIDE DEF cells, Value
    <3> QED
      BY <1>3
  <2> HIDE DEF Body, cells, Value
  <2> QED
    BY <1>5, <2>1
<1> DEFINE bad == {d \in Nat : \E i \in 1 .. m + 1, j \in 1 .. n + 1 :
                                 /\ d = (m + 1 - i) + (n + 1 - j)
                                 /\ ~(cells[<<i, j>>] <=> T(i, j))}
<1> HIDE DEF cells, sol, Body, S
<1>7. bad = {}
  <2> SUFFICES ASSUME bad # {} PROVE FALSE
    OBVIOUS
  <2>1. PICK d \in bad : \A e \in bad : d <= e
    <3>1. bad \subseteq Nat
      OBVIOUS
    <3> HIDE DEF bad
    <3> QED
      BY <3>1, LeastNat
  <2>2. PICK i \in 1 .. m + 1, j \in 1 .. n + 1 :
          d = (m + 1 - i) + (n + 1 - j) /\ ~(cells[<<i, j>>] <=> T(i, j))
    OBVIOUS
  <2>0. d = (m + 1 - i) + (n + 1 - j)
    BY <2>2
  <2>3. ASSUME NEW k \in 1 .. m + 1, NEW l \in 1 .. n + 1, k >= i, l >= j, k + l > i + j
        PROVE  cells[<<k, l>>] <=> T(k, l)
    <3> DEFINE e == (m + 1 - k) + (n + 1 - l)
    <3>1. e \in Nat /\ e < d
      BY <2>0, <2>3
    <3>2. e \notin bad
      <4>1. bad \subseteq Nat /\ d \in Nat
        BY <2>1
      <4> HIDE DEF e, bad
      <4> QED
        BY <2>1, <3>1, <4>1
    <3> QED
      BY <3>1, <3>2
  <2>4. CASE i > m
    BY <1>1, <1>6, <2>2, <2>4
  <2>5. CASE i <= m
    <3>0. /\ i + 1 \in 1 .. m + 1 /\ i + 1 >= i /\ j >= j /\ i >= i
          /\ (i + 1) + j > i + j
          /\ j <= n => /\ j + 1 \in 1 .. n + 1 /\ j + 1 >= j
                       /\ i + (j + 1) > i + j /\ (i + 1) + (j + 1) > i + j
      BY <2>5
    <3>1. cells[<<i + 1, j>>] <=> T(i + 1, j)
      BY <2>3, <3>0
    <3>2. j <= n => (cells[<<i, j + 1>>] <=> T(i, j + 1))
      BY <2>3, <3>0
    <3>3. j <= n => (cells[<<i + 1, j + 1>>] <=> T(i + 1, j + 1))
      BY <2>3, <3>0
    <3> QED
      BY <1>1, <1>6, <2>2, <2>5, <3>1, <3>2, <3>3
  <2> QED
    BY <2>4, <2>5
<1>8. ASSUME NEW x \in D PROVE cells[x] <=> T(x[1], x[2])
  <2>0. x[1] \in 1 .. m + 1 /\ x[2] \in 1 .. n + 1 /\ x = <<x[1], x[2]>>
    BY <1>2
  <2> DEFINE i == x[1]
             j == x[2]
  <2>1. i \in 1 .. m + 1 /\ j \in 1 .. n + 1 /\ x = <<i, j>>
    BY <2>0
  <2> HIDE DEF i, j
  <2>2. (m + 1 - i) + (n + 1 - j) \in Nat /\ (m + 1 - i) + (n + 1 - j) \notin bad
    <3>1. (m + 1 - i) + (n + 1 - j) \in Nat
      BY <2>1
    <3> HIDE DEF bad
    <3> QED
      BY <1>7, <3>1
  <2>3. cells[<<i, j>>] <=> T(i, j)
    BY <2>1, <2>2
  <2> QED
    BY <2>1, <2>3 DEF i, j
<1> QED
  BY <1>8 DEF T, cells

LEMMA TableIsRight ==
  ASSUME NEW m \in Nat, NEW n \in Nat, NEW many, NEW fits
  PROVE  Table(m, n, many, fits) <=> Covers(many, fits, 0, m, 0, n)
<1>1. <<1, 1>> \in (1 .. m + 1) \X (1 .. n + 1)
  OBVIOUS
<1>2. Cells(m, n, many, fits)[<<1, 1>>] <=> Covers(many, fits, 1 - 1, m, 1 - 1, n)
  BY <1>1, CellsAre
<1>3. 1 - 1 = 0
  OBVIOUS
<1> QED
  BY <1>2, <1>3 DEF Table

----------------------------------------------------------------------------
(* The loop of matchWildcardAscii.                                          *)
LEMMA CoversLiterals ==
  ASSUME NEW i \in Nat, NEW m \in Nat, i <= m, NEW many, NEW fits,
         NEW a \in Nat, NEW b \in Nat, \A k \in (i + 1) .. m : k \notin many,
         Covers(many, fits, i, m, a, b)
  PROVE  b = a + (m - i)
<1>1. PICK cut : IsCut(many, fits, i, m, cut) /\ cut[i] = a /\ cut[m] = b
  BY DEF Covers
<1>2. cut \in [i .. m -> Nat] /\ \A k \in (i + 1) .. m : cut[k] = cut[k - 1] + 1
  BY <1>1 DEF IsCut, Step
<1> DEFINE T == {d \in Nat : i + d <= m => cut[i + d] = a + d}
<1>3. \A d \in 0 .. (m - i) : d \in T
  <2>1. 0 \in T
    BY <1>1
  <2>2. ASSUME NEW d \in Nat, d < m - i, d \in T PROVE d + 1 \in T
    <3>1. i + d + 1 \in (i + 1) .. m /\ (i + d + 1) - 1 = i + d /\ i + (d + 1) = i + d + 1
      BY <2>2
    <3>2. cut[i + d] = a + d /\ cut[i + d + 1] = cut[i + d] + 1
      BY <1>2, <2>2, <3>1
    <3> QED
      BY <3>1, <3>2
  <2>3. m - i \in Nat
    OBVIOUS
  <2> HIDE DEF T
  <2> QED
    BY <2>1, <2>2, <2>3, UpTo
<1>4. m - i \in 0 .. (m - i) /\ i + (m - i) = m
  OBVIOUS
<1> QED
  BY <1>1, <1>3, <1>4

(* Nothing is covered by wildcards only.                                    *)
LEMMA CoversNothing ==
  ASSUME NEW i \in Nat, NEW m \in Nat, i <= m, NEW many, NEW fits, NEW a \in Nat
  PROVE  Covers(many, fits, i, m, a, a) <=> (i + 1) .. m \subseteq many
<1>1. ASSUME Covers(many, fits, i, m, a, a), NEW k \in (i + 1) .. m PROVE k \in many
  <2>1. PICK cut : IsCut(many, fits, i, m, cut) /\ cut[i] = a /\ cut[m] = a
    BY <1>1 DEF Covers
  <2>2. k \in i .. m /\ k - 1 \in i .. m
    OBVIOUS
  <2>3. \A j \in i .. m : cut[j] = a
    <3> SUFFICES ASSUME NEW j \in i .. m PROVE cut[j] = a
      OBVIOUS
    <3>1. cut[i] <= cut[j] /\ cut[j] <= cut[m]
      BY <2>1, CutGrows
    <3>2. cut[j] \in Nat
      BY <2>1 DEF IsCut
    <3> QED
      BY <2>1, <3>1, <3>2
  <2>4. Step(many, fits, cut[k - 1], k, cut[k])
    BY <2>1 DEF IsCut
  <2> QED
    BY <2>2, <2>3, <2>4 DEF Step
<1>2. ASSUME (i + 1) .. m \subseteq many PROVE Covers(many, fits, i, m, a, a)
  <2> DEFINE cut == [k \in i .. m |-> a]
  <2>1. IsCut(many, fits, i, m, cut) /\ cut[i] = a /\ cut[m] = a
    BY <1>2 DEF IsCut, Step
  <2> QED
    BY <2>1 DEF Covers
<1> QED
  BY <1>1, <1>2

(* What is left to find: the value from v on, or, if there has been a       *)
(* wildcard, what is behind it further on.                                  *)
Behind(m, n, many, fits, star, match) ==
  \E x \in Nat : x >= match /\ Covers(many, fits, star, m, x, n)

LeftToFind(m, n, many, fits, s) ==
  \/ Covers(many, fits, s.p - 1, m, s.v - 1, n)
  \/ s.star # 0 /\ Behind(m, n, many, fits, s.star, s.match)

LEMMA TurnIs ==
  ASSUME NEW m \in Nat, NEW n \in Nat, NEW many, NEW s \in Turns(m, n, many)
  PROVE  /\ s.p \in 1 .. m + 1 /\ s.v \in 1 .. n + 1 /\ s.star \in 0 .. m
         /\ s.match \in 1 .. n + 1 /\ s.match <= s.v
         /\ s.p - s.star = s.v - s.match + 1 /\ s.star < s.p
         /\ s.star = 0 \/ s.star \in many
         /\ \A i \in s.star + 1 .. s.p - 1 : i \notin many
         /\ s = [p |-> s.p, v |-> s.v, star |-> s.star, match |-> s.match]
<1>1. /\ s \in [p : 1 .. m + 1, v : 1 .. n + 1, star : 0 .. m, match : 1 .. n + 1]
      /\ s.p - s.star = s.v - s.match + 1 /\ s.star < s.p
      /\ s.star = 0 \/ s.star \in many
      /\ \A i \in s.star + 1 .. s.p - 1 : i \notin many
  BY DEF Turns
<1>2. /\ s.p \in 1 .. m + 1 /\ s.v \in 1 .. n + 1 /\ s.star \in 0 .. m
      /\ s.match \in 1 .. n + 1
      /\ s = [p |-> s.p, v |-> s.v, star |-> s.star, match |-> s.match]
  BY <1>1
<1> QED
  BY <1>1, <1>2

(* Behind the last wildcard there are literals, as many as of the value are *)
(* matched: so what is found further on there is found behind v as well.    *)
LEMMA BehindIs ==
  ASSUME NEW m \in Nat, NEW n \in Nat, NEW many, NEW fits, NEW s \in Turns(m, n, many),
         Behind(m, n, many, fits, s.star, s.match)
  PROVE  \E y \in Nat : y >= s.v /\ Covers(many, fits, s.p - 1, m, y, n)
<1> DEFINE p == s.p
           v == s.v
           star == s.star
           match == s.match
           k == s.p - 1
<1>1. /\ p \in 1 .. m + 1 /\ v \in 1 .. n + 1 /\ star \in 0 .. m /\ match \in 1 .. n + 1
      /\ p - star = v - match + 1 /\ star < p
      /\ \A i \in star + 1 .. p - 1 : i \notin many
  BY TurnIs
<1>2. PICK x \in Nat : x >= match /\ Covers(many, fits, star, m, x, n)
  BY DEF Behind
<1> HIDE DEF p, v, star, match
<1>3. /\ k \in Nat /\ star \in Nat /\ star <= k /\ k <= m /\ p = k + 1
      /\ \A i \in star + 1 .. k : i \notin many
  BY <1>1 DEF p
<1> HIDE DEF k
<1>a. Split(many, fits, star, k, m, x, n)
  BY <1>2, <1>3, CoversSplit
<1>4. PICK y \in Nat : Covers(many, fits, star, k, x, y) /\ Covers(many, fits, k, m, y, n)
  BY <1>a DEF Split
<1>5. y = x + (k - star)
  BY <1>3, <1>4, CoversLiterals
<1>6. y >= v
  BY <1>1, <1>2, <1>3, <1>5
<1> QED
  BY <1>4, <1>6 DEF v, k

(* One more place to look at behind the wildcard.                           *)
LEMMA BehindNext ==
  ASSUME NEW m \in Nat, NEW n \in Nat, NEW many, NEW fits, NEW star, NEW match \in Nat
  PROVE  Behind(m, n, many, fits, star, match) <=>
           \/ Covers(many, fits, star, m, match, n)
           \/ Behind(m, n, many, fits, star, match + 1)
<1>1. \A x \in Nat : x >= match <=> x = match \/ x >= match + 1
  OBVIOUS
<1> HIDE DEF Covers
<1> QED
  BY <1>1 DEF Behind

LEMMA CoversStarBehind ==
  ASSUME NEW i \in Nat, NEW m \in Nat, i + 1 <= m, NEW many, NEW fits,
         NEW a \in Nat, NEW n \in Nat, i + 1 \in many
  PROVE  Covers(many, fits, i, m, a, n) <=> Behind(m, n, many, fits, i + 1, a)
BY CoversFirst DEF Step, Behind

----------------------------------------------------------------------------
(* One turn.                                                                *)
MatchedTurn(s) == [p |-> s.p + 1, v |-> s.v + 1, star |-> s.star, match |-> s.match]
StarTurn(s) == [p |-> s.p + 1, v |-> s.v, star |-> s.p, match |-> s.v]
BackTurn(s) ==
  [p |-> s.star + 1, v |-> s.match + 1, star |-> s.star, match |-> s.match + 1]

LEMMA EndedTurn ==
  ASSUME NEW m \in Nat, NEW n \in Nat, NEW many, NEW fits, NEW s \in Turns(m, n, many), s.v > n
  PROVE  LeftToFind(m, n, many, fits, s) <=> s.p .. m \subseteq many
<1> DEFINE i == s.p - 1
<1>1. i \in Nat /\ i <= m /\ s.v - 1 = n /\ i + 1 = s.p /\ s.v \in Nat
  BY TurnIs
<1> HIDE DEF i
<1>2. Covers(many, fits, i, m, n, n) <=> s.p .. m \subseteq many
  BY <1>1, CoversNothing
<1>3. ~Behind(m, n, many, fits, s.star, s.match)
  <2> SUFFICES ASSUME Behind(m, n, many, fits, s.star, s.match) PROVE FALSE
    OBVIOUS
  <2>1. PICK y \in Nat : y >= s.v /\ Covers(many, fits, s.p - 1, m, y, n)
    BY BehindIs
  <2>2. y <= n
    BY <1>1, <2>1, CoversGrows DEF i
  <2> QED
    BY <1>1, <2>1, <2>2
<1> QED
  BY <1>1, <1>2, <1>3 DEF LeftToFind, i

LEMMA MatchedTurnIs ==
  ASSUME NEW m \in Nat, NEW n \in Nat, NEW many, NEW fits, NEW s \in Turns(m, n, many),
         s.v <= n, s.p <= m, s.p \notin many, <<s.p, s.v>> \in fits
  PROVE  /\ MatchedTurn(s) \in Turns(m, n, many)
         /\ LeftToFind(m, n, many, fits, s) <=> LeftToFind(m, n, many, fits, MatchedTurn(s))
<1> DEFINE t == MatchedTurn(s)
           i == s.p - 1
           a == s.v - 1
<1>1. /\ s.p \in 1 .. m + 1 /\ s.v \in 1 .. n + 1 /\ s.star \in 0 .. m
      /\ s.match \in 1 .. n + 1
      /\ s.p - s.star = s.v - s.match + 1 /\ s.star < s.p
      /\ s.star = 0 \/ s.star \in many
      /\ \A k \in s.star + 1 .. s.p - 1 : k \notin many
  BY TurnIs
<1>2. t.p = s.p + 1 /\ t.v = s.v + 1 /\ t.star = s.star /\ t.match = s.match
  BY DEF MatchedTurn
<1>3. t \in [p : 1 .. m + 1, v : 1 .. n + 1, star : 0 .. m, match : 1 .. n + 1]
  BY <1>1 DEF MatchedTurn
<1> HIDE DEF t
<1>4. \A k \in t.star + 1 .. t.p - 1 : k \notin many
  <2> SUFFICES ASSUME NEW k \in s.star + 1 .. s.p PROVE k \notin many
    BY <1>1, <1>2
  <2> QED
    BY <1>1
<1>5. t \in Turns(m, n, many)
  <2>1. t.p - t.star = t.v - t.match + 1 /\ t.star < t.p /\ (t.star = 0 \/ t.star \in many)
    BY <1>1, <1>2
  <2> QED
    BY <1>3, <1>4, <2>1 DEF Turns
<1>6. /\ i \in Nat /\ a \in Nat /\ i + 1 <= m /\ i + 1 = s.p /\ a + 1 = s.v
      /\ t.p - 1 = i + 1 /\ t.v - 1 = a + 1 /\ a < n
  BY <1>1, <1>2
<1> HIDE DEF i, a
<1>7. Covers(many, fits, i, m, a, n) <=> Covers(many, fits, i + 1, m, a + 1, n)
  BY <1>6, CoversChar
<1>8. LeftToFind(m, n, many, fits, s) <=> LeftToFind(m, n, many, fits, t)
  BY <1>2, <1>6, <1>7 DEF LeftToFind, i, a
<1> QED
  BY <1>5, <1>8 DEF t

LEMMA StarTurnIs ==
  ASSUME NEW m \in Nat, NEW n \in Nat, NEW many, NEW fits, NEW s \in Turns(m, n, many),
         s.v <= n, s.p <= m, s.p \in many
  PROVE  /\ StarTurn(s) \in Turns(m, n, many)
         /\ LeftToFind(m, n, many, fits, s) <=> LeftToFind(m, n, many, fits, StarTurn(s))
<1> DEFINE t == StarTurn(s)
           i == s.p - 1
           a == s.v - 1
<1>1. s.p \in 1 .. m + 1 /\ s.v \in 1 .. n + 1
  BY TurnIs
<1>2. t.p = s.p + 1 /\ t.v = s.v /\ t.star = s.p /\ t.match = s.v
  BY DEF StarTurn
<1>3. t \in [p : 1 .. m + 1, v : 1 .. n + 1, star : 0 .. m, match : 1 .. n + 1]
  BY <1>1 DEF StarTurn
<1> HIDE DEF t
<1>4. t \in Turns(m, n, many)
  <2>1. /\ t.p - t.star = t.v - t.match + 1 /\ t.star < t.p /\ t.star \in many
        /\ \A k \in t.star + 1 .. t.p - 1 : k \notin many
    BY <1>1, <1>2
  <2> QED
    BY <1>3, <2>1 DEF Turns
<1>5. /\ i \in Nat /\ a \in Nat /\ i + 1 <= m /\ i + 1 = s.p /\ a + 1 = s.v
      /\ t.p - 1 = i + 1 /\ t.v - 1 = a /\ t.star = i + 1 /\ t.match = a + 1 /\ t.star # 0
  BY <1>1, <1>2
<1>6. Behind(m, n, many, fits, s.star, s.match) => Covers(many, fits, i, m, a, n)
  <2> SUFFICES ASSUME Behind(m, n, many, fits, s.star, s.match)
               PROVE  Covers(many, fits, i, m, a, n)
    OBVIOUS
  <2>1. PICK y \in Nat : y >= s.v /\ Covers(many, fits, i, m, y, n)
    BY BehindIs
  <2> HIDE DEF i, a
  <2>2. Behind(m, n, many, fits, i + 1, y) /\ y >= a
    BY <1>5, <2>1, CoversStarBehind
  <2>3. Behind(m, n, many, fits, i + 1, a)
    BY <1>5, <2>2 DEF Behind
  <2> QED
    BY <1>5, <2>3, CoversStarBehind
<1> HIDE DEF i, a
<1>7. Covers(many, fits, i, m, a, n) <=>
        \/ Covers(many, fits, i + 1, m, a, n)
        \/ Behind(m, n, many, fits, i + 1, a + 1)
  <2>1. Covers(many, fits, i, m, a, n) <=> Behind(m, n, many, fits, i + 1, a)
    BY <1>5, CoversStarBehind
  <2> QED
    BY <1>5, <2>1, BehindNext
<1>8. LeftToFind(m, n, many, fits, s) <=> Covers(many, fits, i, m, a, n)
  BY <1>6 DEF LeftToFind, i, a
<1>9. LeftToFind(m, n, many, fits, t) <=>
        \/ Covers(many, fits, i + 1, m, a, n)
        \/ Behind(m, n, many, fits, i + 1, a + 1)
  BY <1>5 DEF LeftToFind
<1> QED
  BY <1>4, <1>7, <1>8, <1>9 DEF t

LEMMA BackTurnIs ==
  ASSUME NEW m \in Nat, NEW n \in Nat, NEW many, NEW fits, NEW s \in Turns(m, n, many),
         s.v <= n, s.p <= m => s.p \notin many /\ <<s.p, s.v>> \notin fits
  PROVE  /\ s.star # 0 => BackTurn(s) \in Turns(m, n, many)
         /\ LeftToFind(m, n, many, fits, s) <=>
              s.star # 0 /\ LeftToFind(m, n, many, fits, BackTurn(s))
<1> DEFINE t == BackTurn(s)
           i == s.p - 1
           a == s.v - 1
<1>1. /\ s.p \in 1 .. m + 1 /\ s.v \in 1 .. n + 1 /\ s.star \in 0 .. m
      /\ s.match \in 1 .. n + 1 /\ s.match <= s.v /\ s.star < s.p
      /\ s.star = 0 \/ s.star \in many
  BY TurnIs
<1>2. t.p = s.star + 1 /\ t.v = s.match + 1 /\ t.star = s.star /\ t.match = s.match + 1
  BY DEF BackTurn
<1>3. t \in [p : 1 .. m + 1, v : 1 .. n + 1, star : 0 .. m, match : 1 .. n + 1]
  BY <1>1 DEF BackTurn
<1> HIDE DEF t
<1>4. t \in Turns(m, n, many)
  <2>1. /\ t.p - t.star = t.v - t.match + 1 /\ t.star < t.p
        /\ t.star = 0 \/ t.star \in many
        /\ \A k \in t.star + 1 .. t.p - 1 : k \notin many
    BY <1>1, <1>2
  <2> QED
    BY <1>3, <2>1 DEF Turns
<1>5. i \in Nat /\ a \in Nat /\ i + 1 = s.p /\ a + 1 = s.v /\ a < n /\ i <= m
  BY <1>1
<1>6. ~Covers(many, fits, i, m, a, n)
  <2>1. CASE s.p <= m
    <3> HIDE DEF i, a
    <3>1. Covers(many, fits, i, m, a, n) => <<i + 1, a + 1>> \in fits
      BY <1>5, <2>1, CoversChar
    <3> QED
      BY <1>5, <2>1, <3>1
  <2>2. CASE s.p > m
    <3>1. i = m
      BY <1>5, <2>2
    <3> HIDE DEF i, a
    <3> QED
      BY <1>5, <3>1, CoversNone
  <2> QED
    BY <1>1, <2>1, <2>2
<1>7. LeftToFind(m, n, many, fits, s) <=>
        s.star # 0 /\ Behind(m, n, many, fits, s.star, s.match)
  BY <1>6 DEF LeftToFind
<1>8. LeftToFind(m, n, many, fits, t) <=>
        \/ Covers(many, fits, s.star, m, s.match, n)
        \/ s.star # 0 /\ Behind(m, n, many, fits, s.star, s.match + 1)
  <2>1. t.p - 1 = s.star /\ t.v - 1 = s.match
    BY <1>1, <1>2
  <2> QED
    BY <1>2, <2>1 DEF LeftToFind
<1>9. Behind(m, n, many, fits, s.star, s.match) <=>
        \/ Covers(many, fits, s.star, m, s.match, n)
        \/ Behind(m, n, many, fits, s.star, s.match + 1)
  BY <1>1, BehindNext
<1> QED
  BY <1>4, <1>7, <1>8, <1>9 DEF t

LEMMA TurnsAre ==
  ASSUME NEW m \in Nat, NEW n \in Nat, NEW many, NEW fits
  PROVE  \A s \in Turns(m, n, many) :
           Loop(m, n, many, fits)[s] <=> LeftToFind(m, n, many, fits, s)
<1> DEFINE D == Turns(m, n, many)
           G(s) == LeftToFind(m, n, many, fits, s)
           Matched(s) == s.p <= m /\ s.p \notin many /\ <<s.p, s.v>> \in fits
           AtStar(s) == s.p <= m /\ s.p \in many
           Value(f, s) ==
             IF s.v > n THEN s.p .. m \subseteq many
             ELSE IF s.p <= m /\ s.p \notin many /\ <<s.p, s.v>> \in fits
               THEN f[MatchedTurn(s)]
             ELSE IF s.p <= m /\ s.p \in many THEN f[StarTurn(s)]
             ELSE s.star # 0 /\ f[BackTurn(s)]
           Body(f) == [s \in D |-> Value(f, s)]
           S == {s \in D : G(s)}
           sol == [s \in D |-> s \in S]
           loop == Loop(m, n, many, fits)
<1>1. ASSUME NEW s \in D
      PROVE  /\ s.v \in Nat /\ n \in Nat
             /\ s.v > n => (G(s) <=> s.p .. m \subseteq many)
             /\ s.v <= n /\ Matched(s) => /\ MatchedTurn(s) \in D
                                          /\ G(s) <=> G(MatchedTurn(s))
             /\ s.v <= n /\ AtStar(s) => /\ StarTurn(s) \in D
                                         /\ G(s) <=> G(StarTurn(s))
             /\ s.v <= n /\ ~Matched(s) /\ ~AtStar(s) =>
                  /\ s.star # 0 => BackTurn(s) \in D
                  /\ G(s) <=> s.star # 0 /\ G(BackTurn(s))
  <2>1. s.v \in Nat
    BY TurnIs
  <2>2. s.v > n => (G(s) <=> s.p .. m \subseteq many)
    BY EndedTurn
  <2>3. s.v <= n /\ Matched(s) => MatchedTurn(s) \in D /\ (G(s) <=> G(MatchedTurn(s)))
    BY MatchedTurnIs
  <2>4. s.v <= n /\ AtStar(s) => StarTurn(s) \in D /\ (G(s) <=> G(StarTurn(s)))
    BY StarTurnIs
  <2>5. s.v <= n /\ ~Matched(s) /\ ~AtStar(s) =>
          /\ s.star # 0 => BackTurn(s) \in D
          /\ G(s) <=> s.star # 0 /\ G(BackTurn(s))
    BY BackTurnIs
  <2> QED
    BY <2>1, <2>2, <2>3, <2>4, <2>5
<1> HIDE DEF G, D
<1>2. \A s \in D : sol[s] <=> G(s)
  OBVIOUS
<1>3. ASSUME NEW f, NEW s \in D
      PROVE  /\ s.v > n => (Value(f, s) <=> s.p .. m \subseteq many)
             /\ s.v <= n /\ Matched(s) => (Value(f, s) <=> f[MatchedTurn(s)])
             /\ s.v <= n /\ AtStar(s) => (Value(f, s) <=> f[StarTurn(s)])
             /\ s.v <= n /\ ~Matched(s) /\ ~AtStar(s) =>
                  (Value(f, s) <=> s.star # 0 /\ f[BackTurn(s)])
  <2>1. s.v \in Nat /\ n \in Nat
    BY <1>1
  <2> QED
    BY <2>1
<1>4. sol = Body(sol)
  <2>1. \A s \in D : sol[s] = (s \in S) /\ (s \in S <=> G(s))
    OBVIOUS
  <2>2. sol = [s \in D |-> s \in S]
    OBVIOUS
  <2> HIDE DEF S, sol
  <2>3. ASSUME NEW s \in D PROVE (s \in S) = Value(sol, s)
    <3>1. CASE s.v > n
      <4>1. Value(sol, s) = (s.p .. m \subseteq many)
        BY <3>1
      <4>2. s \in S <=> s.p .. m \subseteq many
        BY <1>1, <2>1, <3>1
      <4> HIDE DEF Value
      <4> QED
        BY <4>1, <4>2
    <3>2. CASE s.v <= n /\ Matched(s)
      <4>1. Value(sol, s) = sol[MatchedTurn(s)]
        BY <1>1, <3>2
      <4> HIDE DEF Value, Matched, AtStar
      <4>2. MatchedTurn(s) \in D /\ (s \in S <=> MatchedTurn(s) \in S)
        BY <1>1, <2>1, <3>2
      <4> QED
        BY <2>1, <4>1, <4>2
    <3>3. CASE s.v <= n /\ AtStar(s)
      <4>1. Value(sol, s) = sol[StarTurn(s)]
        BY <1>1, <3>3
      <4> HIDE DEF Value, Matched, AtStar
      <4>2. StarTurn(s) \in D /\ (s \in S <=> StarTurn(s) \in S)
        BY <1>1, <2>1, <3>3
      <4> QED
        BY <2>1, <4>1, <4>2
    <3>4. CASE s.v <= n /\ ~Matched(s) /\ ~AtStar(s)
      <4>1. Value(sol, s) = (s.star # 0 /\ sol[BackTurn(s)])
        BY <1>1, <3>4
      <4> HIDE DEF Value, Matched, AtStar
      <4>2. s \in S <=> s.star # 0 /\ sol[BackTurn(s)]
        BY <1>1, <2>1, <3>4
      <4> QED
        BY <2>1, <4>1, <4>2
    <3> QED
      BY <1>1, <3>1, <3>2, <3>3, <3>4
  <2>4. [s \in D |-> s \in S] = Body(sol)
    <3> HIDE DEF Value
    <3> QED
      BY <2>3, Zenon
  <2> QED
    BY <2>2, <2>4
<1>5. loop = Body(loop)
  <2>1. loop = CHOOSE f : f = Body(f)
    BY DEF Loop, D, MatchedTurn, StarTurn, BackTurn
  <2> HIDE DEF Body, sol, loop
  <2> QED
    BY <1>4, <2>1
<1> HIDE DEF loop, sol, S
<1>6. ASSUME NEW s \in D PROVE loop[s] <=> Value(loop, s)
  <2>1. Body(loop)[s] <=> Value(loop, s)
    <3> HIDE DEF Value
    <3> QED
      OBVIOUS
  <2> HIDE DEF Body, Value
  <2> QED
    BY <1>5, <2>1
<1> HIDE DEF Body, Value, Matched, AtStar
<1> DEFINE Bad(s) == s \in D /\ ~(loop[s] <=> G(s))
           late == {d \in Nat : \E s \in D : d = n + 1 - s.match /\ Bad(s)}
<1>7. ASSUME NEW r \in D, Bad(r) PROVE FALSE
  <2>1. \A s \in D : n + 1 - s.match \in Nat /\ m + 1 - s.p \in Nat
    BY TurnIs DEF D
  <2> HIDE DEF Bad
  <2>2. PICK d \in late : \A e \in late : d <= e
    <3>1. late \subseteq Nat /\ late # {}
      BY <1>7, <2>1
    <3> HIDE DEF late
    <3> QED
      BY <3>1, LeastNat
  <2> DEFINE far == {c \in Nat : \E s \in D : /\ c = m + 1 - s.p /\ d = n + 1 - s.match
                                             /\ Bad(s)}
  <2>3. PICK c \in far : \A e \in far : c <= e
    <3>1. far \subseteq Nat /\ far # {}
      BY <2>1, <2>2
    <3> HIDE DEF far
    <3> QED
      BY <3>1, LeastNat
  <2>4. PICK s \in D : c = m + 1 - s.p /\ d = n + 1 - s.match /\ Bad(s)
    BY <2>3
  <2>5. ASSUME NEW t \in D, t.match > s.match \/ (t.match = s.match /\ t.p > s.p)
        PROVE  loop[t] <=> G(t)
    <3> DEFINE e == n + 1 - t.match
               b == m + 1 - t.p
    <3>1. e \in Nat /\ b \in Nat /\ c \in Nat /\ d \in Nat
          /\ t.match \in Nat /\ s.match \in Nat /\ t.p \in Nat /\ s.p \in Nat
      BY <2>1, <2>4, TurnIs DEF D
    <3>2. CASE t.match > s.match
      <4>1. ~(d <= e)
        BY <2>4, <3>1, <3>2
      <4>2. e \notin late
        <5> HIDE DEF late, e
        <5> QED
          BY <2>2, <4>1
      <4> QED
        BY <3>1, <4>2 DEF Bad
    <3>3. CASE t.match = s.match /\ t.p > s.p
      <4>1. ~(c <= b) /\ d = e
        BY <2>4, <3>1, <3>3
      <4>2. b \notin far
        <5> HIDE DEF far, b
        <5> QED
          BY <2>3, <4>1
      <4> QED
        BY <3>1, <4>1, <4>2 DEF Bad
    <3> QED
      BY <2>5, <3>2, <3>3
  <2>12. \A t \in D : t.match = s.match + 1 => (loop[t] <=> G(t))
    <3>1. s.match \in Nat
      BY TurnIs DEF D
    <3> QED
      BY <2>5, <3>1
  <2>6. /\ s.p \in Nat /\ s.match \in Nat /\ s.v \in Nat /\ s.match <= s.v
    BY TurnIs DEF D
  <2>7. /\ MatchedTurn(s).match = s.match /\ MatchedTurn(s).p = s.p + 1
        /\ StarTurn(s).match = s.v /\ StarTurn(s).p = s.p + 1
        /\ BackTurn(s).match = s.match + 1 /\ BackTurn(s).match > s.match
    BY <2>6 DEF MatchedTurn, StarTurn, BackTurn
  <2>8. MatchedTurn(s) \in D => (loop[MatchedTurn(s)] <=> G(MatchedTurn(s)))
    BY <2>5, <2>6, <2>7
  <2>9. StarTurn(s) \in D => (loop[StarTurn(s)] <=> G(StarTurn(s)))
    BY <2>5, <2>6, <2>7
  <2>10. BackTurn(s) \in D => (loop[BackTurn(s)] <=> G(BackTurn(s)))
    BY <2>7, <2>12
  <2>11. loop[s] <=> G(s)
    <3>1. s.v > n \/ s.v <= n
      BY <1>1
    <3>2. AtStar(s) => ~Matched(s)
      BY DEF AtStar, Matched
    <3> QED
      BY <1>1, <1>3, <1>6, <2>8, <2>9, <2>10, <3>1, <3>2
  <2> QED
    BY <2>4, <2>11 DEF Bad
<1> QED
  BY <1>7 DEF Bad, G, D, loop

LEMMA LoopIsRight ==
  ASSUME NEW m \in Nat, NEW n \in Nat, NEW many, NEW fits
  PROVE  Loop(m, n, many, fits)[[p |-> 1, v |-> 1, star |-> 0, match |-> 1]] <=>
           Covers(many, fits, 0, m, 0, n)
<1> DEFINE s == [p |-> 1, v |-> 1, star |-> 0, match |-> 1]
<1>1. s \in Turns(m, n, many)
  BY DEF Turns
<1>2. LeftToFind(m, n, many, fits, s) <=> Covers(many, fits, 0, m, 0, n)
  <2>1. s.p - 1 = 0 /\ s.v - 1 = 0 /\ s.star = 0
    OBVIOUS
  <2> HIDE DEF s
  <2> QED
    BY <2>1 DEF LeftToFind
<1> HIDE DEF s
<1>3. Loop(m, n, many, fits)[s] <=> Covers(many, fits, 0, m, 0, n)
  BY <1>1, <1>2, TurnsAre
<1> QED
  BY <1>3 DEF s

(* matchWildcardAscii goes back to the last wildcard only, and              *)
(* matchWildcardUtf8 fills a table: both find a match exactly if there is   *)
(* one, for every pattern, value and case.  Glob.cc:58-97, 216-243.         *)
THEOREM MatchersAreRight ==
  ASSUME NEW pattern, NEW value, NEW folded,
         pattern \in Seq(Range(pattern)), value \in Seq(Range(value))
  PROVE  LET meant == Aligned(Len(pattern), Len(value), Stars(pattern),
                              SameChars(pattern, value, folded))
         IN /\ MatchWildcardAscii(pattern, value, folded) <=> meant
            /\ MatchWildcardUtf8(pattern, value, folded) <=> meant
<1>1. Len(pattern) \in Nat /\ Len(value) \in Nat
  OBVIOUS
<1> QED
  BY <1>1, LoopIsRight, TableIsRight, AlignedIs DEF MatchWildcardAscii, MatchWildcardUtf8

----------------------------------------------------------------------------
(* Words.                                                                   *)
IsSeq(s) == s \in Seq(Range(s))

LEMMA IsSeqIs ==
  ASSUME NEW s, IsSeq(s)
  PROVE  Len(s) \in Nat /\ DOMAIN s = 1 .. Len(s) /\ \A i \in 1 .. Len(s) : s[i] \in Range(s)
BY DEF IsSeq

LEMMA SeqIsSeq ==
  ASSUME NEW E, NEW s \in Seq(E)
  PROVE  IsSeq(s) /\ Range(s) \subseteq E
<1>1. s \in [1 .. Len(s) -> E] /\ Len(s) \in Nat
  OBVIOUS
<1>2. s \in [1 .. Len(s) -> Range(s)]
  BY <1>1 DEF Range
<1> QED
  BY <1>1, <1>2 DEF IsSeq, Range

(* The same from the first part and the first element.                      *)
LEMMA CoversSplitAt ==
  ASSUME NEW c \in Nat, NEW m \in Nat, c <= m, NEW many, NEW fits, NEW b \in Nat
  PROVE  Covers(many, fits, 0, m, 0, b) <=> Split(many, fits, 0, c, m, 0, b)
<1> DEFINE z == 0
<1>1. z \in Nat /\ z <= c
  OBVIOUS
<1> HIDE DEF z
<1>2. Covers(many, fits, z, m, z, b) <=> Split(many, fits, z, c, m, z, b)
  BY <1>1, CoversSplit
<1> QED
  BY <1>2 DEF z

(* Without wildcards each part covers one element.                          *)
LEMMA CoversExactly ==
  ASSUME NEW m \in Nat, NEW n \in Nat, NEW many, NEW fits, \A k \in 1 .. m : k \notin many
  PROVE  Covers(many, fits, 0, m, 0, n) <=> m = n /\ \A k \in 1 .. m : <<k, k>> \in fits
<1>1. ASSUME Covers(many, fits, 0, m, 0, n) PROVE m = n
  BY <1>1, CoversLiterals
<1>2. ASSUME Covers(many, fits, 0, m, 0, n), NEW k \in 1 .. m PROVE <<k, k>> \in fits
  <2> DEFINE j == k - 1
  <2>1. j \in Nat /\ 0 <= j /\ j + 1 <= m /\ j <= m /\ k = j + 1
    OBVIOUS
  <2> HIDE DEF j
  <2>a. Split(many, fits, 0, j, m, 0, n)
    BY <1>2, <2>1, CoversSplitAt
  <2>2. PICK x \in Nat : Covers(many, fits, 0, j, 0, x) /\ Covers(many, fits, j, m, x, n)
    BY <2>a DEF Split
  <2>3. \A i \in 1 .. j : i \notin many
    BY <2>1
  <2>4. x = j
    BY <2>1, <2>2, <2>3, CoversLiterals
  <2>5. <<j + 1, x + 1>> \in fits
    BY <2>1, <2>2, CoversChar
  <2> QED
    BY <2>1, <2>4, <2>5
<1>3. ASSUME m = n, \A k \in 1 .. m : <<k, k>> \in fits PROVE Covers(many, fits, 0, m, 0, n)
  <2> DEFINE cut == [k \in 0 .. m |-> k]
  <2>1. IsCut(many, fits, 0, m, cut) /\ cut[0] = 0 /\ cut[m] = n
    BY <1>3 DEF IsCut, Step
  <2> QED
    BY <2>1 DEF Covers
<1> QED
  BY <1>1, <1>2, <1>3

FitsWord(part, word, folded) ==
  Covers(Stars(part), SameChars(part, word, folded), 0, Len(part), 0, Len(word))

LEMMA ComponentIsRight ==
  ASSUME NEW part, NEW word, IsSeq(part), IsSeq(word), NEW folded
  PROVE  ComponentMatches(part, word, folded) <=> FitsWord(part, word, folded)
<1>1. Len(part) \in Nat /\ Len(word) \in Nat /\ DOMAIN part = 1 .. Len(part)
  BY IsSeqIs
<1>2. CASE ~HasWildcard(part)
  <2>1. \A k \in 1 .. Len(part) : k \notin Stars(part)
    BY <1>1, <1>2 DEF HasWildcard, Stars, IsStar, Range
  <2>2. FitsWord(part, word, folded) <=>
          /\ Len(part) = Len(word)
          /\ \A k \in 1 .. Len(part) : <<k, k>> \in SameChars(part, word, folded)
    BY <1>1, <2>1, CoversExactly DEF FitsWord
  <2>3. Len(part) = Len(word) =>
          \A k \in 1 .. Len(part) : <<k, k>> \in SameChars(part, word, folded)
                                      <=> Same(folded, part[k], word[k])
    BY DEF SameChars
  <2>4. ComponentMatches(part, word, folded) <=>
          Len(part) = Len(word) /\ \A k \in 1 .. Len(part) : Same(folded, part[k], word[k])
    BY <1>2 DEF ComponentMatches
  <2> QED
    BY <2>2, <2>3, <2>4
<1>3. CASE HasWildcard(part) /\ part = <<Star>>
  <2>1. Len(part) = 1 /\ 1 \in Stars(part)
    BY <1>3 DEF Stars, IsStar
  <2>2. Step(Stars(part), SameChars(part, word, folded), 0, 0 + 1, Len(word))
    BY <1>1, <2>1 DEF Step
  <2>3. Covers(Stars(part), SameChars(part, word, folded), 0, 0 + 1, 0, Len(word))
    BY <1>1, <2>2, CoversOne
  <2>4. FitsWord(part, word, folded)
    BY <2>1, <2>3 DEF FitsWord
  <2> QED
    BY <1>3, <2>4 DEF ComponentMatches
<1>4. CASE HasWildcard(part) /\ part # <<Star>>
  <2>1. MatchWildcardAscii(part, word, folded) <=> FitsWord(part, word, folded)
    BY <1>1, LoopIsRight DEF MatchWildcardAscii, FitsWord
  <2>2. MatchWildcardUtf8(part, word, folded) <=> FitsWord(part, word, folded)
    BY <1>1, TableIsRight DEF MatchWildcardUtf8, FitsWord
  <2> QED
    BY <1>4, <2>1, <2>2 DEF ComponentMatches
<1> QED
  BY <1>2, <1>3, <1>4

----------------------------------------------------------------------------
(* A function can be computed from one number to the next.                  *)
IsIterate(f, X, init, N, next) ==
  /\ f \in [0 .. N -> X] /\ f[0] = init
  /\ \A n \in 1 .. N : f[n] = next[<<f[n - 1], n>>]

LEMMA Iterates ==
  ASSUME NEW X, NEW init \in X, NEW N \in Nat, NEW next \in [X \X (1 .. N) -> X]
  PROVE  \E f : IsIterate(f, X, init, N, next)
<1> DEFINE Good(k, f) ==
             f[0] = init /\ \A n \in 1 .. k : f[n] = next[<<f[n - 1], n>>]
           T == {k \in Nat : k <= N => \E f \in [0 .. k -> X] : Good(k, f)}
<1>1. 0 \in T
  <2>1. [n \in 0 .. 0 |-> init] \in [0 .. 0 -> X] /\ Good(0, [n \in 0 .. 0 |-> init])
    OBVIOUS
  <2> QED
    BY <2>1
<1>2. ASSUME NEW k \in Nat, k < N, k \in T PROVE k + 1 \in T
  <2>1. PICK f \in [0 .. k -> X] : Good(k, f)
    BY <1>2
  <2> DEFINE g == [n \in 0 .. (k + 1) |-> IF n <= k THEN f[n] ELSE next[<<f[k], k + 1>>]]
  <2>2. f[k] \in X /\ k + 1 \in 1 .. N
    BY <1>2
  <2>3. g \in [0 .. (k + 1) -> X]
    BY <2>2
  <2>4. \A n \in 0 .. k : g[n] = f[n]
    OBVIOUS
  <2>5. g[k + 1] = next[<<f[k], k + 1>>]
    OBVIOUS
  <2> HIDE DEF g
  <2>6. ASSUME NEW n \in 1 .. (k + 1) PROVE g[n] = next[<<g[n - 1], n>>]
    <3>1. CASE n <= k
      BY <2>1, <2>4, <3>1
    <3>2. CASE n = k + 1
      <4>1. n - 1 = k
        BY <3>2
      <4> QED
        BY <2>4, <2>5, <3>2, <4>1
    <3> QED
      BY <3>1, <3>2
  <2>7. Good(k + 1, g)
    BY <2>1, <2>4, <2>6
  <2> QED
    BY <2>3, <2>7
<1>3. N \in T
  <2> HIDE DEF T
  <2>1. \A k \in 0 .. N : k \in T
    BY <1>1, <1>2, UpTo
  <2> QED
    BY <2>1
<1> QED
  BY <1>3 DEF IsIterate

IsKept(kept, E, s, wild) ==
  /\ kept \in [0 .. Len(s) -> Seq(E)]
  /\ kept[0] = <<>>
  /\ \A n \in 1 .. Len(s) :
       kept[n] = IF s[n] = wild /\ kept[n - 1] # <<>> /\ Last(kept[n - 1]) = wild
                   THEN kept[n - 1] ELSE Append(kept[n - 1], s[n])
  /\ Squeezed(s, wild) = kept[Len(s)]

LEMMA SqueezedIs ==
  ASSUME NEW E, NEW s \in Seq(E), NEW wild
  PROVE  \E kept : IsKept(kept, E, s, wild)
<1> DEFINE N == Len(s)
           X == Seq(E)
           New(x, n) == IF s[n] = wild /\ x # <<>> /\ Last(x) = wild THEN x ELSE Append(x, s[n])
           next == [x \in X \X (1 .. N) |-> New(x[1], x[2])]
           Body(f) == [n \in 0 .. N |-> IF n = 0 THEN <<>> ELSE New(f[n - 1], n)]
           kept == CHOOSE f : f = Body(f)
<1>1. N \in Nat /\ <<>> \in X /\ \A n \in 1 .. N : s[n] \in E
  OBVIOUS
<1>2. next \in [X \X (1 .. N) -> X]
  <2> SUFFICES ASSUME NEW x \in X, NEW n \in 1 .. N PROVE New(x, n) \in X
    OBVIOUS
  <2> QED
    BY <1>1
<1>3. \A x \in X, n \in 1 .. N : next[<<x, n>>] = New(x, n)
  OBVIOUS
<1> HIDE DEF next, X, New
<1>4. PICK f \in [0 .. N -> X] :
        f[0] = <<>> /\ \A n \in 1 .. N : f[n] = next[<<f[n - 1], n>>]
  <2> DEFINE empty == <<>>
  <2>1. empty \in X /\ N \in Nat
    BY <1>1
  <2> HIDE DEF N, empty
  <2>2. \E f : IsIterate(f, X, empty, N, next)
    BY <1>2, <2>1, Iterates
  <2> QED
    BY <2>2 DEF empty, IsIterate
<1>5. f = Body(f)
  <2>1. ASSUME NEW n \in 0 .. N PROVE f[n] = IF n = 0 THEN <<>> ELSE New(f[n - 1], n)
    <3>1. CASE n = 0
      BY <1>4, <3>1
    <3>2. CASE n # 0
      <4>1. n \in 1 .. N /\ n - 1 \in 0 .. N
        BY <1>1, <3>2
      <4>2. f[n - 1] \in X
        BY <4>1
      <4> QED
        BY <1>3, <1>4, <3>2, <4>1, <4>2
    <3> QED
      BY <3>1, <3>2
  <2> QED
    BY <2>1
<1>6. kept = Body(kept)
  <2> HIDE DEF Body
  <2> QED
    BY <1>5
<1>7. Squeezed(s, wild) = kept[N]
  BY DEF Squeezed, New
<1> HIDE DEF kept
<1>8. /\ kept[0] = <<>>
      /\ \A n \in 1 .. N : kept[n] = New(kept[n - 1], n)
      /\ kept = [n \in 0 .. N |-> kept[n]]
  <2>1. \A n \in 0 .. N : kept[n] = IF n = 0 THEN <<>> ELSE New(kept[n - 1], n)
    BY <1>6
  <2>2. kept = [n \in 0 .. N |-> kept[n]]
    BY <1>6, <2>1
  <2> QED
    BY <1>1, <2>1, <2>2
<1>9. \A n \in 0 .. N : kept[n] \in X
  <2> DEFINE T == {n \in Nat : n <= N => kept[n] \in X}
  <2>1. 0 \in T
    BY <1>1, <1>8
  <2>2. ASSUME NEW n \in Nat, n < N, n \in T PROVE n + 1 \in T
    <3>1. n + 1 \in 1 .. N /\ (n + 1) - 1 = n /\ kept[n] \in X
      BY <1>1, <2>2
    <3>2. New(kept[n], n + 1) \in X
      BY <1>2, <1>3, <3>1
    <3> QED
      BY <1>8, <3>1, <3>2
  <2>3. \A n \in 0 .. N : n \in T
    <3> HIDE DEF T
    <3> QED
      BY <1>1, <2>1, <2>2, UpTo
  <2> QED
    BY <2>3
<1>10. kept \in [0 .. N -> X]
  BY <1>8, <1>9
<1>11. IsKept(kept, E, s, wild)
  BY <1>7, <1>8, <1>10 DEF X, New, IsKept
<1> QED
  BY <1>11

----------------------------------------------------------------------------
(* Repeated wildcards.                                                      *)
Wilds(s, wild) == {i \in DOMAIN s : s[i] = wild}
Related(s, n, rel) == {ij \in (1 .. Len(s)) \X (1 .. n) : <<s[ij[1]], ij[2]>> \in rel}

CoversOf(s, k, wild, n, rel, b) == Covers(Wilds(s, wild), Related(s, n, rel), 0, k, 0, b)

LEMMA CoversEnd ==
  ASSUME NEW m \in Nat, NEW many, NEW fits, NEW b \in Nat
  PROVE  Covers(many, fits, 0, m + 1, 0, b) <=>
           \E x \in Nat : Covers(many, fits, 0, m, 0, x) /\ Step(many, fits, x, m + 1, b)
<1> DEFINE z == 0
<1>1. z \in Nat /\ z <= m
  OBVIOUS
<1> HIDE DEF z
<1>2. Covers(many, fits, z, m + 1, z, b) <=>
        \E x \in Nat : Covers(many, fits, z, m, z, x) /\ Step(many, fits, x, m + 1, b)
  BY <1>1, CoversLast
<1> QED
  BY <1>2 DEF z

(* A wildcard at the end covers more as well.                               *)
LEMMA CoversMore ==
  ASSUME NEW m \in Nat, NEW many, NEW fits, NEW b \in Nat, m + 1 \in many
  PROVE  Covers(many, fits, 0, m + 1, 0, b) <=>
           \E x \in Nat : x <= b /\ Covers(many, fits, 0, m + 1, 0, x)
<1>1. ASSUME NEW x \in Nat, x <= b, Covers(many, fits, 0, m + 1, 0, x)
      PROVE  Covers(many, fits, 0, m + 1, 0, b)
  <2>1. \A c \in Nat : Covers(many, fits, 0, m + 1, 0, c) <=>
          \E y \in Nat : Covers(many, fits, 0, m, 0, y) /\ Step(many, fits, y, m + 1, c)
    BY CoversEnd
  <2>2. PICK y \in Nat : Covers(many, fits, 0, m, 0, y) /\ Step(many, fits, y, m + 1, x)
    BY <1>1, <2>1
  <2>3. Step(many, fits, y, m + 1, b)
    BY <1>1, <2>2 DEF Step
  <2> QED
    BY <2>1, <2>2, <2>3
<1> QED
  BY <1>1

LEMMA WildsOf ==
  ASSUME NEW E, NEW s \in Seq(E), NEW wild
  PROVE  \A i \in 1 .. Len(s) : i \in Wilds(s, wild) <=> s[i] = wild
BY DEF Wilds

(* What an element that is appended changes.                                *)
LEMMA CoversAppend ==
  ASSUME NEW E, NEW s \in Seq(E), NEW wild, NEW n \in Nat, NEW rel, NEW e \in E, NEW b \in Nat,
         NEW x \in Nat
  PROVE  /\ CoversOf(Append(s, e), Len(s), wild, n, rel, x) <=> CoversOf(s, Len(s), wild, n, rel, x)
         /\ Step(Wilds(Append(s, e), wild), Related(Append(s, e), n, rel), x, Len(s) + 1, b)
              <=> IF e = wild THEN b >= x
                  ELSE b = x + 1 /\ b \in 1 .. n /\ <<e, b>> \in rel
<1> DEFINE t == Append(s, e)
           m == Len(s)
           many == Wilds(s, wild)
           fits == Related(s, n, rel)
           many2 == Wilds(t, wild)
           fits2 == Related(t, n, rel)
<1>1. /\ m \in Nat /\ 0 \in Nat /\ 0 <= m
      /\ t \in Seq(E) /\ Len(t) = m + 1 /\ t[m + 1] = e /\ \A k \in 1 .. m : t[k] = s[k]
      /\ DOMAIN t = 1 .. m + 1 /\ DOMAIN s = 1 .. m
  OBVIOUS
<1> HIDE DEF t, m
<1>2. \A k \in 1 .. m : k \in many <=> k \in many2
  BY <1>1 DEF Wilds
<1>3. \A k \in 1 .. m, y \in Nat : <<k, y>> \in fits <=> <<k, y>> \in fits2
  <2> SUFFICES ASSUME NEW k \in 1 .. m, NEW y \in Nat
               PROVE  <<k, y>> \in fits <=> <<k, y>> \in fits2
    OBVIOUS
  <2>1. <<k, y>> \in fits <=> y \in 1 .. n /\ <<s[k], y>> \in rel
    BY DEF Related, m
  <2>2. k \in 1 .. Len(t) /\ t[k] = s[k]
    BY <1>1
  <2>3. <<k, y>> \in fits2 <=> y \in 1 .. n /\ <<t[k], y>> \in rel
    BY <2>2 DEF Related
  <2> QED
    BY <2>1, <2>2, <2>3
<1>4. m + 1 \in many2 <=> e = wild
  BY <1>1 DEF Wilds
<1>5. <<m + 1, b>> \in fits2 <=> b \in 1 .. n /\ <<e, b>> \in rel
  <2>1. m + 1 \in 1 .. Len(t) /\ t[m + 1] = e
    BY <1>1
  <2>2. <<m + 1, b>> \in fits2 <=> b \in 1 .. n /\ <<t[m + 1], b>> \in rel
    BY <2>1 DEF Related
  <2> QED
    BY <2>1, <2>2
<1>6. Step(many2, fits2, x, m + 1, b) <=>
        IF e = wild THEN b >= x ELSE b = x + 1 /\ b \in 1 .. n /\ <<e, b>> \in rel
  <2> HIDE DEF many2, fits2
  <2> QED
    BY <1>4, <1>5 DEF Step
<1> HIDE DEF many, fits, many2, fits2
<1>7. \A k \in (0 + 1) .. m : k \in many <=> k \in many2
  BY <1>2
<1>8. \A k \in (0 + 1) .. m, y \in 1 .. x : <<k, y>> \in fits <=> <<k, y>> \in fits2
  <2> SUFFICES ASSUME NEW k \in (0 + 1) .. m, NEW y \in 1 .. x
               PROVE  <<k, y>> \in fits <=> <<k, y>> \in fits2
    OBVIOUS
  <2>1. k \in 1 .. m /\ y \in Nat
    BY <1>1
  <2> QED
    BY <1>3, <2>1
<1>9. Covers(many, fits, 0, m, 0, x) => Covers(many2, fits2, 0, m, 0, x)
  BY <1>1, <1>7, <1>8, CoversAgree
<1>10. Covers(many2, fits2, 0, m, 0, x) => Covers(many, fits, 0, m, 0, x)
  BY <1>1, <1>7, <1>8, CoversAgree
<1> QED
  BY <1>6, <1>9, <1>10 DEF CoversOf, t, m, many, fits, many2, fits2

(* What is left covers the same, and no wildcard follows another.           *)
NoneRepeats(s, wild) == \A i \in 1 .. Len(s) - 1 : s[i] = wild => s[i + 1] # wild

LEMMA SqueezedCovers ==
  ASSUME NEW E, NEW s \in Seq(E), NEW wild, NEW n \in Nat, NEW rel
  PROVE  \A b \in 0 .. n :
           CoversOf(Squeezed(s, wild), Len(Squeezed(s, wild)), wild, n, rel, b)
             <=> CoversOf(s, Len(s), wild, n, rel, b)
<1> DEFINE N == Len(s)
<1>0. PICK kept : IsKept(kept, E, s, wild)
  BY SqueezedIs
<1>1. /\ kept \in [0 .. N -> Seq(E)]
      /\ kept[0] = <<>>
      /\ \A k \in 1 .. N :
           kept[k] = IF s[k] = wild /\ kept[k - 1] # <<>> /\ Last(kept[k - 1]) = wild
                       THEN kept[k - 1] ELSE Append(kept[k - 1], s[k])
      /\ Squeezed(s, wild) = kept[N]
  BY <1>0 DEF IsKept
<1> DEFINE C(k, b) == CoversOf(s, k, wild, n, rel, b)
           K(k, b) == CoversOf(kept[k], Len(kept[k]), wild, n, rel, b)
           T == {k \in Nat : k <= N => \A b \in 0 .. n : K(k, b) <=> C(k, b)}
<1>2. N \in Nat
  OBVIOUS
<1>3. 0 \in T
  <2> SUFFICES ASSUME NEW b \in 0 .. n PROVE K(0, b) <=> C(0, b)
    BY <1>2
  <2>1. Len(kept[0]) = 0 /\ b \in Nat
    BY <1>1
  <2>2. C(0, b) <=> 0 = b
    BY <2>1, CoversNone DEF CoversOf
  <2>3. K(0, b) <=> 0 = b
    BY <2>1, CoversNone DEF CoversOf
  <2> QED
    BY <2>2, <2>3
<1>4. ASSUME NEW k \in Nat, k < N, k \in T PROVE k + 1 \in T
  <2> SUFFICES ASSUME NEW b \in 0 .. n PROVE K(k + 1, b) <=> C(k + 1, b)
    OBVIOUS
  <2> DEFINE u == kept[k]
             e == s[k + 1]
             m == Len(u)
  <2>1. /\ k + 1 \in 1 .. N /\ (k + 1) - 1 = k /\ u \in Seq(E) /\ m \in Nat /\ e \in E
        /\ b \in Nat /\ \A x \in Nat : x <= b => x \in 0 .. n
    <3>1. k + 1 \in 1 .. N /\ (k + 1) - 1 = k /\ k \in 0 .. N
      BY <1>2, <1>4
    <3>2. u \in Seq(E) /\ e \in E
      BY <1>1, <3>1
    <3>3. m \in Nat
      BY <3>2
    <3> HIDE DEF u, e, m, N
    <3> QED
      BY <3>1, <3>2, <3>3
  <2>2. kept[k + 1] = IF e = wild /\ u # <<>> /\ Last(u) = wild THEN u ELSE Append(u, e)
    BY <1>1, <2>1
  <2>3. \A x \in 0 .. n : K(k, x) <=> C(k, x)
    BY <1>4
  <2>4. C(k + 1, b) <=> \E x \in Nat : /\ C(k, x)
                                      /\ IF e = wild THEN b >= x
                                         ELSE b = x + 1 /\ b \in 1 .. n /\ <<e, b>> \in rel
    <3>1. C(k + 1, b) <=> \E x \in Nat : /\ C(k, x)
                                        /\ Step(Wilds(s, wild), Related(s, n, rel), x, k + 1, b)
      BY <2>1, CoversEnd DEF CoversOf
    <3>2. k + 1 \in Wilds(s, wild) <=> e = wild
      BY <2>1 DEF Wilds
    <3>3. <<k + 1, b>> \in Related(s, n, rel) <=> b \in 1 .. n /\ <<e, b>> \in rel
      BY <2>1 DEF Related
    <3>4. \A x \in Nat : Step(Wilds(s, wild), Related(s, n, rel), x, k + 1, b) <=>
                           IF e = wild THEN b >= x
                           ELSE b = x + 1 /\ b \in 1 .. n /\ <<e, b>> \in rel
      BY <3>2, <3>3 DEF Step
    <3> HIDE DEF C
    <3> QED
      BY <3>1, <3>4
  <2> HIDE DEF C
  <2>5. CASE e = wild /\ u # <<>> /\ Last(u) = wild
    <3>1. kept[k + 1] = u
      BY <2>2, <2>5
    <3> DEFINE l == m - 1
    <3>2. l \in Nat /\ m = l + 1 /\ l + 1 \in Wilds(u, wild)
      BY <2>1, <2>5 DEF Wilds, Last
    <3> HIDE DEF u, m, l
    <3>3. CoversOf(u, m, wild, n, rel, b) <=>
            \E x \in Nat : x <= b /\ CoversOf(u, m, wild, n, rel, x)
      BY <2>1, <3>2, CoversMore DEF CoversOf
    <3>4. \A x \in 0 .. n : CoversOf(u, m, wild, n, rel, x) <=> C(k, x)
      BY <2>3 DEF u, m
    <3>5. K(k + 1, b) <=> CoversOf(u, m, wild, n, rel, b)
      BY <3>1 DEF m
    <3>6. C(k + 1, b) <=> \E x \in Nat : C(k, x) /\ b >= x
      BY <2>4, <2>5
    <3> HIDE DEF K
    <3>7. (\E x \in Nat : C(k, x) /\ b >= x) <=>
            \E x \in Nat : x <= b /\ CoversOf(u, m, wild, n, rel, x)
      BY <2>1, <3>4
    <3> QED
      BY <3>3, <3>5, <3>6, <3>7
  <2>6. CASE ~(e = wild /\ u # <<>> /\ Last(u) = wild)
    <3> DEFINE t == Append(u, e)
    <3>1. kept[k + 1] = t /\ Len(t) = m + 1
      BY <2>1, <2>2, <2>6
    <3>2. K(k + 1, b) <=> CoversOf(t, m + 1, wild, n, rel, b)
      BY <3>1
    <3>3. CoversOf(t, m + 1, wild, n, rel, b) <=>
            \E x \in Nat : /\ CoversOf(t, m, wild, n, rel, x)
                           /\ Step(Wilds(t, wild), Related(t, n, rel), x, m + 1, b)
      BY <2>1, CoversEnd DEF CoversOf
    <3>4. \A x \in Nat :
            /\ CoversOf(t, m, wild, n, rel, x) <=> CoversOf(u, m, wild, n, rel, x)
            /\ Step(Wilds(t, wild), Related(t, n, rel), x, m + 1, b)
                 <=> IF e = wild THEN b >= x
                     ELSE b = x + 1 /\ b \in 1 .. n /\ <<e, b>> \in rel
      <4> HIDE DEF u, e
      <4> QED
        BY <2>1, CoversAppend
    <3>5. \A x \in 0 .. n : CoversOf(u, m, wild, n, rel, x) <=> C(k, x)
      BY <2>3
    <3> HIDE DEF t, m, u, K
    <3>6. \A x \in Nat : (IF e = wild THEN b >= x
                          ELSE b = x + 1 /\ b \in 1 .. n /\ <<e, b>> \in rel) => x \in 0 .. n
      BY <2>1
    <3> HIDE DEF e
    <3> QED
      BY <2>4, <3>2, <3>3, <3>4, <3>5, <3>6
  <2> QED
    BY <2>5, <2>6
<1>5. N \in T
  <2>1. \A k \in 0 .. N : k \in T
    <3> HIDE DEF T, N
    <3> QED
      BY <1>2, <1>3, <1>4, UpTo
  <2> QED
    BY <1>2, <2>1
<1> QED
  BY <1>1, <1>2, <1>5

LEMMA SqueezedNoRepeat ==
  ASSUME NEW E, NEW s \in Seq(E), NEW wild
  PROVE  /\ Squeezed(s, wild) \in Seq(E)
         /\ NoneRepeats(Squeezed(s, wild), wild)
         /\ s # <<>> => Squeezed(s, wild) # <<>>
<1> DEFINE N == Len(s)
<1>0. PICK kept : IsKept(kept, E, s, wild)
  BY SqueezedIs
<1>1. /\ kept \in [0 .. N -> Seq(E)]
      /\ kept[0] = <<>>
      /\ \A k \in 1 .. N :
           kept[k] = IF s[k] = wild /\ kept[k - 1] # <<>> /\ Last(kept[k - 1]) = wild
                       THEN kept[k - 1] ELSE Append(kept[k - 1], s[k])
      /\ Squeezed(s, wild) = kept[N]
  BY <1>0 DEF IsKept
<1> DEFINE T == {k \in Nat : k <= N => /\ NoneRepeats(kept[k], wild)
                                       /\ k > 0 => kept[k] # <<>>}
<1>2. N \in Nat /\ (s # <<>> => N > 0)
  OBVIOUS
<1>3. 0 \in T
  BY <1>1 DEF NoneRepeats
<1>4. ASSUME NEW k \in Nat, k < N, k \in T PROVE k + 1 \in T
  <2> DEFINE u == kept[k]
             e == s[k + 1]
             t == kept[k + 1]
  <2>1. /\ k + 1 \in 1 .. N /\ (k + 1) - 1 = k /\ u \in Seq(E) /\ e \in E
        /\ NoneRepeats(u, wild)
    <3>1. k + 1 \in 1 .. N /\ (k + 1) - 1 = k /\ k \in 0 .. N
      BY <1>2, <1>4
    <3>2. u \in Seq(E) /\ e \in E
      BY <1>1, <3>1
    <3>3. NoneRepeats(u, wild)
      BY <1>4, <3>1
    <3> QED
      BY <3>1, <3>2, <3>3
  <2>2. t = IF e = wild /\ u # <<>> /\ Last(u) = wild THEN u ELSE Append(u, e)
    BY <1>1, <2>1
  <2> HIDE DEF u, e, t
  <2>3. CASE e = wild /\ u # <<>> /\ Last(u) = wild
    BY <2>1, <2>2, <2>3 DEF t
  <2>4. CASE ~(e = wild /\ u # <<>> /\ Last(u) = wild)
    <3>1. t = Append(u, e)
      BY <2>2, <2>4
    <3>2. /\ Len(t) = Len(u) + 1 /\ t # <<>> /\ t[Len(u) + 1] = e
          /\ \A i \in 1 .. Len(u) : t[i] = u[i]
      BY <2>1, <3>1
    <3>3. ASSUME NEW i \in 1 .. Len(t) - 1, t[i] = wild PROVE t[i + 1] # wild
      <4>1. CASE i < Len(u)
        BY <2>1, <3>2, <3>3, <4>1 DEF NoneRepeats
      <4>2. CASE i = Len(u)
        BY <2>1, <2>4, <3>2, <3>3, <4>2 DEF Last
      <4> QED
        BY <2>1, <3>2, <4>1, <4>2
    <3> QED
      BY <3>2, <3>3 DEF NoneRepeats, t
  <2> QED
    BY <2>3, <2>4
<1>5. N \in T
  <2>1. \A k \in 0 .. N : k \in T
    <3> HIDE DEF T, N
    <3> QED
      BY <1>2, <1>3, <1>4, UpTo
  <2> QED
    BY <1>2, <2>1
<1> QED
  BY <1>1, <1>2, <1>5

----------------------------------------------------------------------------
(* What a compiled word matches is what the word means.                     *)
CharPairs(E, word, folded) ==
  {cj \in E \X (1 .. Len(word)) : Same(folded, cj[1], word[cj[2]])}

LEMMA FitsIsCovers ==
  ASSUME NEW E, NEW s \in Seq(E), NEW word, NEW folded
  PROVE  FitsWord(s, word, folded) <=>
           CoversOf(s, Len(s), Star, Len(word), CharPairs(E, word, folded), Len(word))
<1>1. Stars(s) = Wilds(s, Star)
  BY DEF Stars, IsStar, Wilds
<1>2. SameChars(s, word, folded) = Related(s, Len(word), CharPairs(E, word, folded))
  BY DEF SameChars, Related, CharPairs
<1> QED
  BY <1>1, <1>2 DEF FitsWord, CoversOf

LEMMA CollapsedFits ==
  ASSUME NEW part, NEW word, IsSeq(part), IsSeq(word), NEW folded
  PROVE  /\ IsSeq(CollapseStars(part))
         /\ CollapseStars(part) # DoubleStar
         /\ FitsWord(CollapseStars(part), word, folded) <=> FitsWord(part, word, folded)
<1> DEFINE E == Range(part)
           c == CollapseStars(part)
           n == Len(word)
           rel == CharPairs(E, word, folded)
<1>1. part \in Seq(E) /\ n \in Nat /\ n \in 0 .. n
  BY IsSeqIs DEF IsSeq
<1>2. c = Squeezed(part, Star)
  BY DEF CollapseStars
<1> HIDE DEF E, c
<1>3. c \in Seq(E) /\ NoneRepeats(c, Star)
  BY <1>1, <1>2, SqueezedNoRepeat
<1>4. c # DoubleStar
  BY <1>3 DEF NoneRepeats, DoubleStar
<1>5. FitsWord(c, word, folded) <=> CoversOf(c, Len(c), Star, n, rel, n)
  BY <1>3, FitsIsCovers
<1>6. FitsWord(part, word, folded) <=> CoversOf(part, Len(part), Star, n, rel, n)
  BY <1>1, FitsIsCovers
<1> HIDE DEF n, rel
<1>7. CoversOf(c, Len(c), Star, n, rel, n) <=> CoversOf(part, Len(part), Star, n, rel, n)
  BY <1>1, <1>2, SqueezedCovers
<1> QED
  BY <1>3, <1>4, <1>5, <1>6, <1>7, SeqIsSeq DEF c

LEMMA CollapsedMatches ==
  ASSUME NEW part, NEW word, IsSeq(part), IsSeq(word), NEW folds \in BOOLEAN
  PROVE  Matches(CollapseStars(part), word, folds) <=> MeansWord(part, word, folds)
<1>1. ASSUME NEW folded
      PROVE  ComponentMatches(CollapseStars(part), word, folded) <=>
               Aligned(Len(part), Len(word), Stars(part), SameChars(part, word, folded))
  <2>1. ComponentMatches(CollapseStars(part), word, folded) <=> FitsWord(part, word, folded)
    BY CollapsedFits, ComponentIsRight
  <2>2. Len(part) \in Nat /\ Len(word) \in Nat
    BY IsSeqIs
  <2>3. FitsWord(part, word, folded) <=>
          Aligned(Len(part), Len(word), Stars(part), SameChars(part, word, folded))
    BY <2>2, AlignedIs DEF FitsWord
  <2> QED
    BY <2>1, <2>3
<1> QED
  BY <1>1 DEF Matches, MeansWord

----------------------------------------------------------------------------
(* The parts of a glob.                                                     *)
IsPath(s) == IsSeq(s) /\ \A i \in 1 .. Len(s) : IsSeq(s[i])

PartFits(parts, path, folded) ==
  {ij \in (1 .. Len(parts)) \X (1 .. Len(path)) :
     Matches(parts[ij[1]], path[ij[2]], ij[2] \in folded)}

(* The first m parts cover the first n words.                               *)
Reaches(parts, path, folded, m, n) ==
  Covers(DoubleStars(parts), PartFits(parts, path, folded), 0, m, 0, n)

Compiled(raw) ==
  [i \in DOMAIN raw |-> IF IsDoubleStar(raw[i]) THEN raw[i] ELSE CollapseStars(raw[i])]

WordPairs(E, path, folded) ==
  {ej \in E \X (1 .. Len(path)) : Matches(ej[1], path[ej[2]], ej[2] \in folded)}

LEMMA ReachesIsCovers ==
  ASSUME NEW E, NEW s \in Seq(E), NEW path, NEW folded, NEW n
  PROVE  Reaches(s, path, folded, Len(s), n) <=>
           CoversOf(s, Len(s), DoubleStar, Len(path), WordPairs(E, path, folded), n)
<1>1. DoubleStars(s) = Wilds(s, DoubleStar)
  BY DEF DoubleStars, IsDoubleStar, Wilds
<1>2. PartFits(s, path, folded) = Related(s, Len(path), WordPairs(E, path, folded))
  BY DEF PartFits, Related, WordPairs
<1> QED
  BY <1>1, <1>2 DEF Reaches, CoversOf

LEMMA CompiledIs ==
  ASSUME NEW raw, IsPath(raw)
  PROVE  /\ Compiled(raw) \in Seq(Range(Compiled(raw))) /\ Len(Compiled(raw)) = Len(raw)
         /\ \A i \in 1 .. Len(raw) :
              /\ IsSeq(Compiled(raw)[i])
              /\ IsDoubleStar(Compiled(raw)[i]) <=> IsDoubleStar(raw[i])
              /\ ~IsDoubleStar(raw[i]) => Compiled(raw)[i] = CollapseStars(raw[i])
<1> DEFINE c == Compiled(raw)
           m == Len(raw)
<1>1. m \in Nat /\ DOMAIN raw = 1 .. m
  BY IsSeqIs DEF IsPath
<1> HIDE DEF m
<1>2. c = [i \in 1 .. m |-> IF IsDoubleStar(raw[i]) THEN raw[i] ELSE CollapseStars(raw[i])]
  BY <1>1 DEF Compiled
<1> HIDE DEF c
<1>3. c \in [1 .. m -> Range(c)]
  BY <1>2 DEF Range
<1>4. c \in Seq(Range(c)) /\ Len(c) = m
  <2> DEFINE R == Range(c)
  <2> HIDE DEF R
  <2>1. c \in Seq(R) /\ Len(c) = m
    BY <1>1, <1>3 DEF R
  <2> QED
    BY <2>1 DEF R
<1>5. ASSUME NEW i \in 1 .. m
      PROVE  /\ IsSeq(c[i])
             /\ IsDoubleStar(c[i]) <=> IsDoubleStar(raw[i])
             /\ ~IsDoubleStar(raw[i]) => c[i] = CollapseStars(raw[i])
  <2>1. IsSeq(raw[i])
    BY <1>5 DEF IsPath, m
  <2>2. c[i] = IF IsDoubleStar(raw[i]) THEN raw[i] ELSE CollapseStars(raw[i])
    BY <1>2
  <2>3. IsSeq(CollapseStars(raw[i])) /\ CollapseStars(raw[i]) # DoubleStar
    BY <2>1, CollapsedFits
  <2> QED
    BY <2>1, <2>2, <2>3 DEF IsDoubleStar
<1> QED
  BY <1>4, <1>5 DEF c, m

LEMMA CompiledReaches ==
  ASSUME NEW raw, NEW path, IsPath(raw), IsPath(path), NEW folded, NEW n \in 0 .. Len(path)
  PROVE  Reaches(Compiled(raw), path, folded, Len(raw), n) <=>
           Covers(DoubleStars(raw), MeantWords(raw, path, folded), 0, Len(raw), 0, n)
<1> DEFINE c == Compiled(raw)
           m == Len(raw)
           many == DoubleStars(raw)
           fits == MeantWords(raw, path, folded)
           many2 == DoubleStars(c)
           fits2 == PartFits(c, path, folded)
           z == 0
<1>1. /\ m \in Nat /\ DOMAIN raw = 1 .. m /\ n \in Nat /\ Len(path) \in Nat
      /\ z \in Nat /\ z <= m
  BY IsSeqIs DEF IsPath
<1>2. /\ Len(c) = m /\ DOMAIN c = 1 .. m
      /\ \A i \in 1 .. m : /\ IsSeq(c[i])
                           /\ IsDoubleStar(c[i]) <=> IsDoubleStar(raw[i])
                           /\ ~IsDoubleStar(raw[i]) => c[i] = CollapseStars(raw[i])
  BY <1>1, CompiledIs
<1> HIDE DEF c, m
<1>3. \A k \in 1 .. m : k \in many <=> k \in many2
  BY <1>1, <1>2 DEF DoubleStars
<1>4. ASSUME NEW k \in 1 .. m, NEW y \in 1 .. n, k \notin many
      PROVE  <<k, y>> \in fits <=> <<k, y>> \in fits2
  <2>1. ~IsDoubleStar(raw[k]) /\ y \in 1 .. Len(path)
    BY <1>1, <1>4 DEF DoubleStars
  <2>2. c[k] = CollapseStars(raw[k]) /\ IsSeq(raw[k]) /\ IsSeq(path[y])
    BY <1>1, <1>2, <2>1 DEF IsPath, m
  <2>3. (y \in folded) \in BOOLEAN
    OBVIOUS
  <2>4. Matches(c[k], path[y], y \in folded) <=> MeansWord(raw[k], path[y], y \in folded)
    BY <2>2, <2>3, CollapsedMatches
  <2> QED
    BY <1>2, <2>1, <2>4 DEF MeantWords, PartFits, m
<1> HIDE DEF many, fits, many2, fits2
<1>5. \A k \in (z + 1) .. m : k \in many <=> k \in many2
  BY <1>3 DEF z
<1>6. \A k \in (z + 1) .. m, y \in 1 .. n :
         k \notin many => (<<k, y>> \in fits <=> <<k, y>> \in fits2)
  BY <1>4 DEF z
<1> HIDE DEF z
<1>7. Covers(many, fits, z, m, z, n) => Covers(many2, fits2, z, m, z, n)
  BY <1>1, <1>5, <1>6, CoversAgree
<1>8. Covers(many2, fits2, z, m, z, n) => Covers(many, fits, z, m, z, n)
  BY <1>1, <1>5, <1>6, CoversAgree
<1> QED
  BY <1>7, <1>8 DEF z, m, c, many, fits, many2, fits2, Reaches

IsParts(parts) == IsPath(parts) /\ NoneRepeats(parts, DoubleStar)

LEMMA PartsReach ==
  ASSUME NEW raw, NEW path, IsPath(raw), IsPath(path), NEW folded, raw # <<>>
  PROVE  /\ IsParts(Parts(raw)) /\ Parts(raw) # <<>>
         /\ \A n \in 0 .. Len(path) :
              Reaches(Parts(raw), path, folded, Len(Parts(raw)), n) <=>
                Aligned(Len(raw), n, DoubleStars(raw), MeantWords(raw, path, folded))
<1> DEFINE c == Compiled(raw)
           E == Range(c)
           parts == Parts(raw)
           rel == WordPairs(E, path, folded)
<1>1. /\ c \in Seq(E) /\ Len(c) = Len(raw) /\ Len(raw) \in Nat /\ Len(path) \in Nat
      /\ \A e \in E : IsSeq(e)
  <2>1. Len(raw) \in Nat /\ Len(path) \in Nat /\ DOMAIN raw = 1 .. Len(raw)
    BY IsSeqIs DEF IsPath
  <2>2. c \in Seq(E) /\ Len(c) = Len(raw) /\ \A i \in 1 .. Len(raw) : IsSeq(c[i])
    BY CompiledIs
  <2>3. DOMAIN c = 1 .. Len(raw)
    BY <2>1 DEF Compiled
  <2>4. \A e \in E : \E i \in 1 .. Len(raw) : e = c[i]
    BY <2>3 DEF Range
  <2> QED
    BY <2>1, <2>2, <2>4
<1>2. parts = Squeezed(c, DoubleStar)
  BY DEF Parts, Compiled
<1>3. c # <<>>
  <2>1. Len(raw) # 0
    BY IsSeqIs, EmptySeq DEF IsPath, IsSeq
  <2> QED
    BY <1>1, <2>1
<1> HIDE DEF c, E, parts
<1>4. parts \in Seq(E) /\ NoneRepeats(parts, DoubleStar) /\ parts # <<>>
  BY <1>1, <1>2, <1>3, SqueezedNoRepeat
<1>5. IsParts(parts)
  <2>1. IsSeq(parts) /\ \A i \in 1 .. Len(parts) : parts[i] \in E
    BY <1>4, SeqIsSeq
  <2> QED
    BY <1>1, <1>4, <2>1 DEF IsParts, IsPath
<1>6. ASSUME NEW n \in 0 .. Len(path)
      PROVE  Reaches(parts, path, folded, Len(parts), n) <=>
                Aligned(Len(raw), n, DoubleStars(raw), MeantWords(raw, path, folded))
  <2>1. n \in Nat
    BY <1>1
  <2>2. Reaches(parts, path, folded, Len(parts), n) <=>
          CoversOf(parts, Len(parts), DoubleStar, Len(path), rel, n)
    BY <1>4, ReachesIsCovers
  <2>3. Reaches(c, path, folded, Len(c), n) <=>
          CoversOf(c, Len(c), DoubleStar, Len(path), rel, n)
    BY <1>1, ReachesIsCovers
  <2>4. CoversOf(parts, Len(parts), DoubleStar, Len(path), rel, n) <=>
          CoversOf(c, Len(c), DoubleStar, Len(path), rel, n)
    <3> HIDE DEF rel
    <3> QED
      BY <1>1, <1>2, SqueezedCovers
  <2>5. Reaches(c, path, folded, Len(c), n) <=>
          Covers(DoubleStars(raw), MeantWords(raw, path, folded), 0, Len(raw), 0, n)
    BY <1>1, CompiledReaches DEF c
  <2>6. Aligned(Len(raw), n, DoubleStars(raw), MeantWords(raw, path, folded)) <=>
          Covers(DoubleStars(raw), MeantWords(raw, path, folded), 0, Len(raw), 0, n)
    BY <1>1, <2>1, AlignedIs
  <2> QED
    BY <2>2, <2>3, <2>4, <2>5, <2>6
<1> QED
  BY <1>4, <1>5, <1>6 DEF parts

----------------------------------------------------------------------------
(* A path is reached by what reaches it in a longer one.                    *)
LEMMA ReachesLast ==
  ASSUME NEW parts, NEW path, NEW folded, NEW m \in Nat, NEW n \in Nat
  PROVE  Reaches(parts, path, folded, m + 1, n + 1) <=>
           IF m + 1 \in DoubleStars(parts)
             THEN Reaches(parts, path, folded, m + 1, n) \/ Reaches(parts, path, folded, m, n + 1)
             ELSE /\ <<m + 1, n + 1>> \in PartFits(parts, path, folded)
                  /\ Reaches(parts, path, folded, m, n)
<1> DEFINE many == DoubleStars(parts)
           fits == PartFits(parts, path, folded)
           C(k, b) == Covers(many, fits, 0, k, 0, b)
<1> HIDE DEF many, fits
<1>1. \A b \in Nat : C(m + 1, b) <=> \E x \in Nat : C(m, x) /\ Step(many, fits, x, m + 1, b)
  BY CoversEnd
<1> HIDE DEF C
<1>2. n + 1 \in Nat /\ \A x \in Nat : n + 1 = x + 1 <=> x = n
  OBVIOUS
<1>3. CASE m + 1 \in many
  <2>1. \A b \in Nat : C(m + 1, b) <=> \E x \in Nat : C(m, x) /\ b >= x
    BY <1>1, <1>3 DEF Step
  <2>2. \A x \in Nat : n + 1 >= x <=> n >= x \/ x = n + 1
    OBVIOUS
  <2>3. C(m + 1, n + 1) <=> C(m + 1, n) \/ C(m, n + 1)
    BY <1>2, <2>1, <2>2
  <2> QED
    BY <1>3, <2>3 DEF Reaches, C, many, fits
<1>4. CASE m + 1 \notin many
  <2>1. C(m + 1, n + 1) <=> <<m + 1, n + 1>> \in fits /\ C(m, n)
    BY <1>1, <1>2, <1>4 DEF Step
  <2> QED
    BY <1>4, <2>1 DEF Reaches, C, many, fits
<1> QED
  BY <1>3, <1>4

LEMMA ReachesNone ==
  ASSUME NEW parts, NEW path, NEW folded, NEW n \in Nat
  PROVE  Reaches(parts, path, folded, 0, n) <=> n = 0
<1>1. 0 \in Nat
  OBVIOUS
<1> QED
  BY <1>1, CoversNone DEF Reaches

LEMMA ReachesFirst ==
  ASSUME NEW parts, NEW path, NEW folded, NEW m \in Nat
  PROVE  Reaches(parts, path, folded, m, 0) <=> 1 .. m \subseteq DoubleStars(parts)
<1> DEFINE z == 0
<1>1. z \in Nat /\ z <= m
  OBVIOUS
<1> HIDE DEF z
<1>2. Covers(DoubleStars(parts), PartFits(parts, path, folded), z, m, z, z) <=>
        (z + 1) .. m \subseteq DoubleStars(parts)
  BY <1>1, CoversNothing
<1> QED
  BY <1>2 DEF z, Reaches

----------------------------------------------------------------------------
(* The states: the parts that may come next once n words have been covered. *)
MayCome(parts, path, folded, n) ==
  {p \in 1 .. Len(parts) + 1 :
     IF p \in DoubleStars(parts) THEN Reaches(parts, path, folded, p, n)
                                 ELSE Reaches(parts, path, folded, p - 1, n)}

LEMMA DoubleStarsAre ==
  ASSUME NEW parts, IsParts(parts)
  PROVE  /\ Len(parts) \in Nat /\ DOMAIN parts = 1 .. Len(parts)
         /\ DoubleStars(parts) \subseteq 1 .. Len(parts)
         /\ \A p \in Nat : p \in DoubleStars(parts) => p + 1 \notin DoubleStars(parts)
<1>1. Len(parts) \in Nat /\ DOMAIN parts = 1 .. Len(parts)
  BY IsSeqIs DEF IsParts, IsPath
<1>2. DoubleStars(parts) \subseteq 1 .. Len(parts)
  BY <1>1 DEF DoubleStars
<1>3. ASSUME NEW p \in Nat, p \in DoubleStars(parts), p + 1 \in DoubleStars(parts) PROVE FALSE
  <2>1. p \in 1 .. Len(parts) - 1
    BY <1>1, <1>2, <1>3
  <2> QED
    BY <1>3, <2>1 DEF IsParts, NoneRepeats, DoubleStars, IsDoubleStar
<1> QED
  BY <1>1, <1>2, <1>3

LEMMA InitialIs ==
  ASSUME NEW parts, IsParts(parts), NEW path, NEW folded
  PROVE  InitialState(parts) = MayCome(parts, path, folded, 0)
<1> DEFINE many == DoubleStars(parts)
           m == Len(parts)
           R(p) == Reaches(parts, path, folded, p, 0)
<1>1. /\ m \in Nat /\ many \subseteq 1 .. m
      /\ \A p \in Nat : p \in many => p + 1 \notin many
  BY DoubleStarsAre
<1>2. \A p \in Nat : R(p) <=> 1 .. p \subseteq many
  BY ReachesFirst
<1>3. InitialState(parts) = {1} \cup {p + 1 : p \in {1} \cap many}
  BY DEF InitialState, Skipping
<1>4. MayCome(parts, path, folded, 0) =
        {p \in 1 .. m + 1 : IF p \in many THEN R(p) ELSE R(p - 1)}
  BY DEF MayCome
<1> HIDE DEF many, m, R
<1>5. ASSUME NEW p \in 1 .. m + 1
      PROVE  (IF p \in many THEN R(p) ELSE R(p - 1)) <=> p = 1 \/ (p = 2 /\ 1 \in many)
  <2>1. CASE p = 1
    <3>1. R(0) /\ (1 \in many => R(1))
      BY <1>2
    <3> QED
      BY <2>1, <3>1
  <2>2. CASE p = 2
    <3>1. R(1) <=> 1 \in many
      BY <1>2
    <3>2. 2 \in many => 1 \notin many
      BY <1>1
    <3>3. R(2) => 1 \in many /\ 2 \in many
      BY <1>2
    <3> QED
      BY <2>2, <3>1, <3>2, <3>3
  <2>3. CASE p > 2
    <3>1. ~(1 \in many /\ 2 \in many)
      BY <1>1
    <3>2. p \in Nat /\ p - 1 \in Nat /\ 1 \in 1 .. p /\ 2 \in 1 .. p /\ 1 \in 1 .. (p - 1)
          /\ 2 \in 1 .. (p - 1)
      BY <1>1, <2>3
    <3>3. ~R(p) /\ ~R(p - 1)
      BY <1>2, <3>1, <3>2
    <3> QED
      BY <2>3, <3>3
  <2> QED
    BY <1>1, <2>1, <2>2, <2>3
<1>6. 1 \in many => 2 \in 1 .. m + 1
  BY <1>1
<1> QED
  BY <1>1, <1>3, <1>4, <1>5, <1>6

LEMMA ShiftIs ==
  ASSUME NEW S, S \subseteq Nat, NEW q \in Nat
  PROVE  q \in {p + 1 : p \in S} <=> q - 1 \in S
<1>1. ASSUME q - 1 \in S PROVE q \in {p + 1 : p \in S}
  <2>1. (q - 1) + 1 = q
    OBVIOUS
  <2> QED
    BY <1>1, <2>1
<1>2. ASSUME q \in {p + 1 : p \in S} PROVE q - 1 \in S
  <2>1. PICK p \in S : q = p + 1
    BY <1>2
  <2> QED
    BY <2>1
<1> QED
  BY <1>1, <1>2

LEMMA NextStep ==
  ASSUME NEW parts, IsParts(parts), NEW path, NEW folded,
         NEW n \in Nat, n < Len(path), Len(path) \in Nat
  PROVE  StepBitmask(parts, MayCome(parts, path, folded, n), path[n + 1], n + 1 \in folded)
           = MayCome(parts, path, folded, n + 1)
<1> DEFINE many == DoubleStars(parts)
           m == Len(parts)
           fits == PartFits(parts, path, folded)
           R(p, k) == Reaches(parts, path, folded, p, k)
           state == MayCome(parts, path, folded, n)
           next == MayCome(parts, path, folded, n + 1)
           stay == state \cap many
           moved == {q \in (state \cap 1 .. m) \ many : <<q, n + 1>> \in fits}
           kept == stay \cup {p + 1 : p \in moved}
<1>1. /\ m \in Nat /\ many \subseteq 1 .. m /\ DOMAIN parts = 1 .. m
      /\ \A p \in Nat : p \in many => p + 1 \notin many
  BY DoubleStarsAre
<1>2. \A q \in 1 .. m : <<q, n + 1>> \in fits <=> Matches(parts[q], path[n + 1], n + 1 \in folded)
  BY DEF PartFits
<1>3. StepBitmask(parts, state, path[n + 1], n + 1 \in folded)
        = kept \cup {p + 1 : p \in kept \cap many}
  <2>1. {q \in (state \cap DOMAIN parts) \ many : Matches(parts[q], path[n + 1], n + 1 \in folded)}
          = moved
    <3> HIDE DEF state, many, fits, m
    <3> QED
      BY <1>1, <1>2
  <2> HIDE DEF state, moved
  <2> QED
    BY <2>1 DEF StepBitmask, Skipping
<1>4. \A p \in Nat : R(p + 1, n + 1) <=>
        IF p + 1 \in many THEN R(p + 1, n) \/ R(p, n + 1)
        ELSE <<p + 1, n + 1>> \in fits /\ R(p, n)
  BY ReachesLast
<1>5. ~R(0, n + 1)
  BY ReachesNone
<1>6. /\ state = {p \in 1 .. m + 1 : IF p \in many THEN R(p, n) ELSE R(p - 1, n)}
      /\ next = {p \in 1 .. m + 1 : IF p \in many THEN R(p, n + 1) ELSE R(p - 1, n + 1)}
  BY DEF MayCome
<1> HIDE DEF many, m, fits, R, state, next
<1>7. ASSUME NEW q \in Nat
      PROVE  q \in moved <=> q \in 1 .. m /\ q \notin many /\ R(q, n + 1)
  <2>1. CASE q \in 1 .. m /\ q \notin many
    <3>1. q \in state <=> R(q - 1, n)
      BY <1>1, <1>6, <2>1
    <3>2. R(q, n + 1) <=> <<q, n + 1>> \in fits /\ R(q - 1, n)
      <4>1. q - 1 \in Nat /\ (q - 1) + 1 = q
        BY <2>1
      <4> QED
        BY <1>4, <2>1, <4>1
    <3> QED
      BY <2>1, <3>1, <3>2
  <2>2. CASE ~(q \in 1 .. m /\ q \notin many)
    BY <2>2
  <2> QED
    BY <2>1, <2>2
<1> DEFINE after == {p + 1 : p \in moved}
           double == kept \cap many
           more == {p + 1 : p \in double}
<1>a. /\ moved \subseteq 1 .. m /\ stay \subseteq 1 .. m /\ double \subseteq 1 .. m
      /\ kept = stay \cup after
      /\ \A q : q \in stay <=> q \in state /\ q \in many
      /\ \A q : q \in double <=> q \in kept /\ q \in many
  <2>1. moved \subseteq 1 .. m /\ stay \subseteq 1 .. m
    BY <1>1
  <2>2. /\ kept = stay \cup after
        /\ \A q : q \in stay <=> q \in state /\ q \in many
    OBVIOUS
  <2> HIDE DEF kept, stay, moved, after
  <2> QED
    BY <1>1, <2>1, <2>2
<1> HIDE DEF moved, stay, kept, double
<1>b. \A q \in Nat : q \in after <=> q - 1 \in moved
  <2>1. moved \subseteq Nat
    BY <1>a
  <2> QED
    BY <2>1, ShiftIs
<1>c. \A q \in Nat : q \in more <=> q - 1 \in double
  <2>1. double \subseteq Nat
    BY <1>a
  <2> QED
    BY <2>1, ShiftIs
<1>d. after \subseteq 1 .. m + 1 /\ more \subseteq 1 .. m + 1
  BY <1>1, <1>a
<1> HIDE DEF after, more
<1>8. ASSUME NEW q \in 1 .. m + 1, q \in many
      PROVE  q \in kept <=> R(q, n + 1)
  <2>1. q \in stay <=> R(q, n)
    BY <1>6, <1>8, <1>a
  <2>2. q \in Nat /\ q - 1 \in Nat /\ (q - 1) + 1 = q
    OBVIOUS
  <2>3. R(q, n + 1) <=> R(q, n) \/ R(q - 1, n + 1)
    BY <1>4, <1>8, <2>2
  <2>4. q - 1 \notin many
    BY <1>1, <1>8, <2>2
  <2>5. q - 1 \in moved <=> R(q - 1, n + 1)
    <3>1. q - 1 \in 1 .. m \/ q - 1 = 0
      BY <1>1, <1>8
    <3>2. 0 \notin moved
      BY <1>a
    <3> QED
      BY <1>5, <1>7, <2>2, <2>4, <3>1, <3>2
  <2> QED
    BY <1>a, <1>b, <2>1, <2>2, <2>3, <2>5
<1>9. ASSUME NEW q \in 1 .. m + 1, q \notin many
      PROVE  q \in kept \/ q \in more <=> R(q - 1, n + 1)
  <2>1. /\ q \in Nat /\ q - 1 \in Nat /\ (q - 1) + 1 = q
        /\ q - 1 \in 1 .. m \/ q - 1 = 0
    BY <1>1
  <2>2. q \in kept <=> q - 1 \in moved
    BY <1>9, <1>a, <1>b, <2>1
  <2>3. q \in more <=> q - 1 \in kept /\ q - 1 \in many
    BY <1>a, <1>c, <2>1
  <2>4. CASE q - 1 \in many
    <3>1. q - 1 \in kept <=> R(q - 1, n + 1)
      <4>1. q - 1 \in 1 .. m + 1
        BY <1>1, <2>1, <2>4
      <4> QED
        BY <1>8, <2>4, <4>1
    <3>2. q - 1 \notin moved
      BY <1>7, <2>1, <2>4
    <3> QED
      BY <2>2, <2>3, <2>4, <3>1, <3>2
  <2>5. CASE q - 1 \notin many
    <3>1. q - 1 \in moved <=> R(q - 1, n + 1)
      <4>1. 0 \notin moved
        BY <1>a
      <4> QED
        BY <1>5, <1>7, <2>1, <2>5, <4>1
    <3> QED
      BY <2>2, <2>3, <2>5, <3>1
  <2> QED
    BY <2>4, <2>5
<1>10. ASSUME NEW q \in 1 .. m + 1
       PROVE  q \in kept \cup more <=> q \in next
  <2>1. CASE q \in many
    <3>1. q \in Nat /\ q - 1 \in Nat /\ (q - 1) + 1 = q
      OBVIOUS
    <3>2. q - 1 \notin many
      BY <1>1, <2>1, <3>1
    <3>3. q \notin more
      BY <1>a, <1>c, <3>1, <3>2
    <3> QED
      BY <1>6, <1>8, <2>1, <3>3
  <2>2. CASE q \notin many
    BY <1>6, <1>9, <2>2
  <2> QED
    BY <2>1, <2>2
<1>11. kept \cup more \subseteq 1 .. m + 1 /\ next \subseteq 1 .. m + 1
  <2>1. 1 .. m \subseteq 1 .. m + 1
    BY <1>1
  <2> QED
    BY <1>6, <1>a, <1>d, <2>1
<1>12. kept \cup more = next
  BY <1>10, <1>11
<1> QED
  BY <1>3, <1>12 DEF state, next, kept, more, double, stay, moved, after

LEMMA AcceptsIs ==
  ASSUME NEW parts, IsParts(parts), NEW path, NEW folded, NEW n \in Nat
  PROVE  Accepts(parts, MayCome(parts, path, folded, n)) <=>
           Reaches(parts, path, folded, Len(parts), n)
<1>1. Len(parts) \in Nat /\ Len(parts) + 1 \notin DoubleStars(parts)
  BY DoubleStarsAre
<1>2. Len(parts) + 1 \in 1 .. Len(parts) + 1 /\ (Len(parts) + 1) - 1 = Len(parts)
  BY <1>1
<1> QED
  BY <1>1, <1>2 DEF Accepts, MayCome

LEMMA StatesAre ==
  ASSUME NEW parts, IsParts(parts), NEW path, NEW folded, Len(path) \in Nat
  PROVE  \A n \in 0 .. Len(path) : States(parts, path, folded)[n] = MayCome(parts, path, folded, n)
<1> DEFINE N == Len(path)
           Body(f) == [n \in 0 .. N |-> IF n = 0 THEN InitialState(parts)
                         ELSE StepBitmask(parts, f[n - 1], path[n], n \in folded)]
           s == CHOOSE f : f = Body(f)
           Z(n) == MayCome(parts, path, folded, n)
           g == [n \in 0 .. N |-> Z(n)]
<1>1. States(parts, path, folded) = s
  BY DEF States
<1>2. InitialState(parts) = Z(0)
  BY InitialIs
<1>3. \A n \in Nat : n < N => StepBitmask(parts, Z(n), path[n + 1], n + 1 \in folded) = Z(n + 1)
  BY NextStep
<1> HIDE DEF Z
<1>4. g = Body(g)
  <2>1. ASSUME NEW n \in 0 .. N, n # 0
        PROVE  StepBitmask(parts, g[n - 1], path[n], n \in folded) = g[n]
    <3>1. n - 1 \in Nat /\ n - 1 < N /\ (n - 1) + 1 = n /\ n - 1 \in 0 .. N
      BY <2>1
    <3>2. g[n - 1] = Z(n - 1) /\ g[n] = Z(n)
      BY <3>1
    <3>3. StepBitmask(parts, Z(n - 1), path[(n - 1) + 1], (n - 1) + 1 \in folded) = Z((n - 1) + 1)
      BY <1>3, <3>1
    <3> QED
      BY <3>1, <3>2, <3>3
  <2>2. g[0] = InitialState(parts)
    BY <1>2
  <2>3. g = [n \in 0 .. N |-> g[n]]
    OBVIOUS
  <2> HIDE DEF g
  <2> QED
    BY <2>1, <2>2, <2>3
<1>5. s = Body(s)
  <2> HIDE DEF Body
  <2> QED
    BY <1>4
<1> HIDE DEF s
<1>6. s[0] = Z(0)
  BY <1>2, <1>5
<1>7. ASSUME NEW n \in Nat, n < N, s[n] = Z(n) PROVE s[n + 1] = Z(n + 1)
  <2>1. n + 1 \in 0 .. N /\ n + 1 # 0 /\ (n + 1) - 1 = n
    BY <1>7
  <2>2. s[n + 1] = StepBitmask(parts, s[(n + 1) - 1], path[n + 1], n + 1 \in folded)
    BY <1>5, <2>1
  <2> QED
    BY <1>3, <1>7, <2>1, <2>2
<1> DEFINE T == {n \in Nat : s[n] = Z(n)}
<1>8. 0 \in T /\ \A n \in Nat : n < N /\ n \in T => n + 1 \in T
  BY <1>6, <1>7
<1>9. \A n \in 0 .. N : n \in T
  <2> HIDE DEF T
  <2> QED
    BY <1>8, UpTo
<1> QED
  BY <1>1, <1>9 DEF Z

----------------------------------------------------------------------------
(* What is reached depends on what has been covered.                        *)
SameTo(n, path, folded, path2, folded2) ==
  /\ n <= Len(path) /\ n <= Len(path2)
  /\ \A j \in 1 .. n : path[j] = path2[j] /\ (j \in folded <=> j \in folded2)

LEMMA ReachesAgree ==
  ASSUME NEW parts, Len(parts) \in Nat, NEW m \in 0 .. Len(parts), NEW n \in Nat,
         NEW path, NEW path2, NEW folded, NEW folded2,
         Len(path) \in Nat, Len(path2) \in Nat, SameTo(n, path, folded, path2, folded2)
  PROVE  Reaches(parts, path, folded, m, n) <=> Reaches(parts, path2, folded2, m, n)
<1> DEFINE many == DoubleStars(parts)
           fits == PartFits(parts, path, folded)
           fits2 == PartFits(parts, path2, folded2)
           z == 0
<1>1. z \in Nat /\ z <= m /\ m \in Nat
  OBVIOUS
<1>2. ASSUME NEW k \in (z + 1) .. m, NEW y \in 1 .. n
      PROVE  <<k, y>> \in fits <=> <<k, y>> \in fits2
  <2>1. k \in 1 .. Len(parts) /\ y \in 1 .. Len(path) /\ y \in 1 .. Len(path2)
    BY <1>1 DEF SameTo
  <2>2. path[y] = path2[y] /\ (y \in folded) = (y \in folded2)
    BY DEF SameTo
  <2> QED
    BY <2>1, <2>2 DEF PartFits
<1> HIDE DEF z, many, fits, fits2
<1>3. Covers(many, fits, z, m, z, n) => Covers(many, fits2, z, m, z, n)
  BY <1>1, <1>2, CoversAgree
<1>4. Covers(many, fits2, z, m, z, n) => Covers(many, fits, z, m, z, n)
  BY <1>1, <1>2, CoversAgree
<1> QED
  BY <1>3, <1>4 DEF z, many, fits, fits2, Reaches

LEMMA PrefixIs ==
  ASSUME NEW path, IsPath(path), NEW n \in 0 .. Len(path), NEW folded
  PROVE  /\ IsPath(SubSeq(path, 1, n)) /\ Len(SubSeq(path, 1, n)) = n
         /\ SameTo(n, SubSeq(path, 1, n), folded, path, folded)
<1> DEFINE E == Range(path)
           s == SubSeq(path, 1, n)
<1>1. path \in Seq(E) /\ n \in Nat /\ Len(path) \in Nat /\ n <= Len(path)
  BY IsSeqIs DEF IsPath, IsSeq
<1> HIDE DEF E
<1>2. s \in Seq(E) /\ Len(s) = n /\ \A i \in 1 .. n : s[i] = path[i]
  BY <1>1
<1> HIDE DEF s
<1>3. IsSeq(s)
  BY <1>2, SeqIsSeq
<1>4. \A i \in 1 .. n : i \in 1 .. Len(path)
  BY <1>1
<1>5. IsPath(s)
  BY <1>2, <1>3, <1>4 DEF IsPath
<1>6. SameTo(n, s, folded, path, folded)
  BY <1>1, <1>2 DEF SameTo
<1> QED
  BY <1>2, <1>5, <1>6 DEF s

(* With a bit mask and without.                                             *)
LEMMA IgnoredIs ==
  ASSUME NEW parts, IsParts(parts), NEW path, Len(path) \in Nat, NEW folded
  PROVE  IsIgnored(parts, path, folded) <=> Reaches(parts, path, folded, Len(parts), Len(path))
<1>1. Len(parts) \in Nat /\ Len(path) \in 0 .. Len(path)
  BY DoubleStarsAre
<1>2. CASE UsesBitmask(parts)
  <2>1. States(parts, path, folded)[Len(path)] = MayCome(parts, path, folded, Len(path))
    BY <1>1, StatesAre
  <2> QED
    BY <1>2, <2>1, AcceptsIs DEF IsIgnored
<1>3. CASE ~UsesBitmask(parts)
  <2>1. IsIgnored(parts, path, folded) <=>
          Table(Len(parts), Len(path), DoubleStars(parts), PartFits(parts, path, folded))
    BY <1>3 DEF IsIgnored, PartFits
  <2> QED
    BY <1>1, <2>1, TableIsRight DEF Reaches
<1> QED
  BY <1>2, <1>3

LEMMA AncestorsAre ==
  ASSUME NEW parts, IsParts(parts), NEW path, IsPath(path), NEW folded
  PROVE  IsPathOrAncestorIgnored(parts, path, folded) <=>
           \E n \in 1 .. Len(path) : Reaches(parts, path, folded, Len(parts), n)
<1>1. Len(parts) \in Nat /\ Len(path) \in Nat /\ Len(parts) \in 0 .. Len(parts)
  BY DoubleStarsAre, IsSeqIs DEF IsPath
<1>2. ASSUME NEW n \in 1 .. Len(path)
      PROVE  IsIgnored(parts, SubSeq(path, 1, n), folded) <=>
               Reaches(parts, path, folded, Len(parts), n)
  <2> DEFINE s == SubSeq(path, 1, n)
             m == Len(parts)
  <2>1. n \in 0 .. Len(path) /\ n \in Nat
    BY <1>1
  <2>2. Len(s) = n /\ SameTo(n, s, folded, path, folded)
    BY <2>1, PrefixIs
  <2>3. m \in 0 .. Len(parts) /\ m = Len(parts)
    BY <1>1
  <2> HIDE DEF s, m
  <2>4. IsIgnored(parts, s, folded) <=> Reaches(parts, s, folded, Len(parts), n)
    BY <2>1, <2>2, IgnoredIs
  <2>5. Reaches(parts, s, folded, m, n) <=> Reaches(parts, path, folded, m, n)
    BY <1>1, <2>1, <2>2, <2>3, ReachesAgree
  <2> QED
    BY <2>3, <2>4, <2>5 DEF s
<1> QED
  BY <1>2 DEF IsPathOrAncestorIgnored

----------------------------------------------------------------------------
(* Without double stars at the end.                                         *)
IsKeptTo(raw, c) ==
  /\ c \in 1 .. Len(raw) /\ (c = 1 \/ raw[c] # DoubleStar)
  /\ \A k \in (c + 1) .. Len(raw) : raw[k] = DoubleStar
  /\ Normalized(raw) = SubSeq(raw, 1, c)

LEMMA NormalizedIs ==
  ASSUME NEW raw, IsPath(raw), raw # <<>>
  PROVE  \E c : IsKeptTo(raw, c)
<1> DEFINE m == Len(raw)
           kept == {n \in 1 .. m : n = 1 \/ raw[n] # DoubleStar}
           c == CHOOSE n \in kept : \A k \in kept : k <= n
           T == {d \in Nat : \E k \in kept : m = k + d}
<1>1. m \in Nat /\ m # 0
  BY IsSeqIs, EmptySeq DEF IsPath, IsSeq
<1>2. \E n \in kept : \A k \in kept : k <= n
  <2>1. 1 \in kept /\ kept \subseteq 1 .. m
    BY <1>1
  <2> HIDE DEF kept
  <2>2. m - 1 \in T
    BY <1>1, <2>1
  <2>3. PICK d \in T : \A e \in T : d <= e
    <3>1. T \subseteq Nat /\ T # {}
      BY <2>2
    <3> HIDE DEF T
    <3> QED
      BY <3>1, LeastNat
  <2>4. PICK n \in kept : m = n + d
    BY <2>3
  <2>5. ASSUME NEW k \in kept PROVE k <= n
    <3>1. k \in Nat /\ m - k \in Nat /\ m = k + (m - k) /\ n \in Nat /\ d \in Nat
      BY <1>1, <2>1, <2>3
    <3>2. m - k \in T
      BY <3>1
    <3>3. d <= m - k
      BY <2>3, <3>2
    <3> QED
      BY <1>1, <2>4, <3>1, <3>3
  <2> QED
    BY <2>4, <2>5
<1>3. c \in kept /\ \A k \in kept : k <= c
  <2> HIDE DEF kept
  <2> QED
    BY <1>2
<1>4. Normalized(raw) = SubSeq(raw, 1, c)
  BY DEF Normalized
<1> HIDE DEF c
<1>5. c \in 1 .. m /\ (c = 1 \/ raw[c] # DoubleStar)
  BY <1>3
<1>6. ASSUME NEW k \in (c + 1) .. m PROVE raw[k] = DoubleStar
  <2>1. k \in 1 .. m /\ ~(k <= c)
    BY <1>1, <1>5
  <2> QED
    BY <1>3, <2>1
<1>7. IsKeptTo(raw, c)
  BY <1>4, <1>5, <1>6 DEF IsKeptTo
<1> QED
  BY <1>7

(* The same paths are meant.                                                *)
MeantTo(raw, path, folded, c, n) ==
  Covers(DoubleStars(raw), MeantWords(raw, path, folded), 0, c, 0, n)

LEMMA ShortenedMeans ==
  ASSUME NEW raw, IsPath(raw), raw # <<>>, NEW path, Len(path) \in Nat, NEW folded,
         NEW c, IsKeptTo(raw, c)
  PROVE  (\E n \in 1 .. Len(path) : MeantTo(raw, path, folded, Len(raw), n)) <=>
           \E n \in 1 .. Len(path) : MeantTo(raw, path, folded, c, n)
<1> DEFINE m == Len(raw)
           many == DoubleStars(raw)
           fits == MeantWords(raw, path, folded)
           z == 0
<1>1. /\ m \in Nat /\ c \in Nat /\ 1 <= c /\ c <= m /\ z \in Nat /\ z <= c /\ z <= m
      /\ DOMAIN raw = 1 .. m
  BY IsSeqIs DEF IsPath, IsKeptTo
<1>2. (c + 1) .. m \subseteq many
  BY <1>1 DEF IsKeptTo, DoubleStars, IsDoubleStar
<1>3. (\A k \in 1 .. c : k \in many) => c = 1
  <2>1. c \in many => raw[c] = DoubleStar
    BY <1>1 DEF DoubleStars, IsDoubleStar
  <2> QED
    BY <1>1, <2>1 DEF IsKeptTo
<1> HIDE DEF m, many, fits, z
<1>4. ASSUME NEW n \in 1 .. Len(path), Covers(many, fits, z, c, z, n)
      PROVE  Covers(many, fits, z, m, z, n)
  <2>1. n \in Nat
    OBVIOUS
  <2>2. Covers(many, fits, c, m, n, n)
    BY <1>1, <1>2, <2>1, CoversNothing
  <2>3. Split(many, fits, z, c, m, z, n)
    BY <1>4, <2>1, <2>2 DEF Split
  <2> QED
    BY <1>1, <2>1, <2>3, CoversSplit
<1>5. ASSUME NEW n \in 1 .. Len(path), Covers(many, fits, z, m, z, n)
      PROVE  \E k \in 1 .. Len(path) : Covers(many, fits, z, c, z, k)
  <2>1. n \in Nat
    OBVIOUS
  <2>a. Split(many, fits, z, c, m, z, n)
    BY <1>1, <1>5, <2>1, CoversSplit
  <2>2. PICK x \in Nat : Covers(many, fits, z, c, z, x) /\ Covers(many, fits, c, m, x, n)
    BY <2>a DEF Split
  <2>3. x <= n
    BY <1>1, <2>2, CoversGrows
  <2>4. CASE x # 0
    <3>1. x \in 1 .. Len(path)
      BY <2>1, <2>3, <2>4
    <3> QED
      BY <2>2, <3>1
  <2>5. CASE x = 0
    <3>1. Covers(many, fits, z, c, z, z)
      BY <2>2, <2>5 DEF z
    <3>2. (z + 1) .. c \subseteq many
      BY <1>1, <3>1, CoversNothing
    <3>3. c = z + 1 /\ c \in many
      BY <1>1, <1>3, <3>2 DEF z
    <3>4. Step(many, fits, z, z + 1, n)
      BY <2>1, <3>3 DEF z, Step
    <3>5. Covers(many, fits, z, z + 1, z, n)
      BY <1>1, <2>1, <3>4, CoversOne
    <3> QED
      BY <3>3, <3>5
  <2> QED
    BY <2>4, <2>5
<1> QED
  BY <1>4, <1>5 DEF m, many, fits, z, MeantTo

LEMMA NormalizedMeans ==
  ASSUME NEW raw, IsPath(raw), raw # <<>>, NEW path, Len(path) \in Nat, NEW folded
  PROVE  /\ IsPath(Normalized(raw)) /\ Normalized(raw) # <<>>
         /\ Means(raw, path, folded) <=> Means(Normalized(raw), path, folded)
<1>1. PICK c : IsKeptTo(raw, c)
  BY NormalizedIs
<1> DEFINE s == Normalized(raw)
           many == DoubleStars(raw)
           fits == MeantWords(raw, path, folded)
           many2 == DoubleStars(s)
           fits2 == MeantWords(s, path, folded)
           z == 0
<1>2. /\ Len(raw) \in Nat /\ c \in Nat /\ c \in 0 .. Len(raw) /\ c # 0
      /\ z \in Nat /\ z <= c
      /\ DOMAIN raw = 1 .. Len(raw) /\ s = SubSeq(raw, 1, c)
  BY <1>1, IsSeqIs DEF IsPath, IsKeptTo
<1> HIDE DEF s
<1>3. IsPath(s) /\ Len(s) = c /\ \A k \in 1 .. c : s[k] = raw[k]
  BY <1>2, PrefixIs DEF SameTo
<1>4. s # <<>> /\ DOMAIN s = 1 .. c
  BY <1>2, <1>3, IsSeqIs DEF IsPath
<1>5. \A k \in 1 .. c : k \in many <=> k \in many2
  BY <1>2, <1>3, <1>4 DEF DoubleStars
<1>6. ASSUME NEW k \in 1 .. c, NEW y \in 1 .. Len(path)
      PROVE  <<k, y>> \in fits <=> <<k, y>> \in fits2
  <2>1. k \in 1 .. Len(raw) /\ k \in 1 .. Len(s) /\ s[k] = raw[k]
    BY <1>2, <1>3
  <2> QED
    BY <2>1 DEF MeantWords
<1> HIDE DEF many, fits, many2, fits2
<1>7. ASSUME NEW n \in 1 .. Len(path)
      PROVE  Covers(many, fits, z, c, z, n) <=> Covers(many2, fits2, z, c, z, n)
  <2>1. n \in Nat
    OBVIOUS
  <2>2. \A k \in (z + 1) .. c : k \in many <=> k \in many2
    BY <1>5 DEF z
  <2>3. \A k \in (z + 1) .. c, y \in 1 .. n : <<k, y>> \in fits <=> <<k, y>> \in fits2
    <3> SUFFICES ASSUME NEW k \in (z + 1) .. c, NEW y \in 1 .. n
                 PROVE  <<k, y>> \in fits <=> <<k, y>> \in fits2
      OBVIOUS
    <3>1. k \in 1 .. c /\ y \in 1 .. Len(path)
      BY <2>1 DEF z
    <3> QED
      BY <1>6, <3>1
  <2> HIDE DEF z
  <2>4. Covers(many, fits, z, c, z, n) => Covers(many2, fits2, z, c, z, n)
    BY <1>2, <2>1, <2>2, <2>3, CoversAgree
  <2>5. Covers(many2, fits2, z, c, z, n) => Covers(many, fits, z, c, z, n)
    BY <1>2, <2>1, <2>2, <2>3, CoversAgree
  <2> QED
    BY <2>4, <2>5
<1>8. Means(raw, path, folded) <=>
        \E n \in 1 .. Len(path) : Covers(many, fits, 0, Len(raw), 0, n)
  <2>1. \A n \in 1 .. Len(path) : n \in Nat
    OBVIOUS
  <2> QED
    BY <1>2, <2>1, AlignedIs DEF Means, many, fits
<1>9. Means(s, path, folded) <=> \E n \in 1 .. Len(path) : Covers(many2, fits2, 0, c, 0, n)
  <2>1. \A n \in 1 .. Len(path) : n \in Nat
    OBVIOUS
  <2> QED
    BY <1>2, <1>3, <2>1, AlignedIs DEF Means, many2, fits2
<1>10. (\E n \in 1 .. Len(path) : Covers(many, fits, 0, Len(raw), 0, n)) <=>
         \E n \in 1 .. Len(path) : Covers(many, fits, 0, c, 0, n)
  BY <1>1, ShortenedMeans DEF MeantTo, many, fits
<1>11. Means(raw, path, folded) <=> Means(s, path, folded)
  BY <1>7, <1>8, <1>9, <1>10 DEF z
<1> QED
  BY <1>3, <1>4, <1>11 DEF s

(* What a glob is compiled to, and what it means.                           *)
Compile(raw) == Parts(Normalized(raw))

LEMMA CompileIs ==
  ASSUME NEW raw, IsPath(raw), raw # <<>>, NEW path, IsPath(path), NEW folded
  PROVE  /\ IsParts(Compile(raw)) /\ Compile(raw) # <<>>
         /\ Means(raw, path, folded) <=>
              \E n \in 1 .. Len(path) :
                Reaches(Compile(raw), path, folded, Len(Compile(raw)), n)
<1> DEFINE s == Normalized(raw)
<1>1. Len(path) \in Nat
  BY IsSeqIs DEF IsPath
<1>2. /\ IsPath(s) /\ s # <<>>
      /\ Means(raw, path, folded) <=> Means(s, path, folded)
  BY <1>1, NormalizedMeans
<1> HIDE DEF s
<1>3. /\ IsParts(Parts(s)) /\ Parts(s) # <<>>
      /\ \A n \in 0 .. Len(path) :
              Reaches(Parts(s), path, folded, Len(Parts(s)), n) <=>
                Aligned(Len(s), n, DoubleStars(s), MeantWords(s, path, folded))
  BY <1>2, PartsReach
<1>4. \A n \in 1 .. Len(path) : n \in 0 .. Len(path)
  BY <1>1
<1> QED
  BY <1>2, <1>3, <1>4 DEF s, Compile, Means

(* What is left of a glob without the double stars at its end, the second   *)
(* of two double stars and of two stars ignores the paths the client's glob *)
(* means, with a bit mask (stepBitmask) and without (the table of           *)
(* isIgnored).  Glob.cc:317-371, 372-402, 404-513, Watcher.cc:163-174.      *)
THEOREM GlobsAreRight ==
  ASSUME NEW raw, IsPath(raw), raw # <<>>, NEW path, IsPath(path), NEW folded
  PROVE  IsPathOrAncestorIgnored(Parts(Normalized(raw)), path, folded) <=>
           Means(raw, path, folded)
BY CompileIs, AncestorsAre DEF Compile

----------------------------------------------------------------------------
(* The cache.                                                               *)
Dir == Seq(Word) \ {<<>>}

StateOf(known, dir) == IF dir = <<>> THEN rootState ELSE known[dir]

(* One step from the parent, which is known. *)
ChainedIn(known, dir) ==
  /\ Front(dir) # <<>> => Front(dir) \in DOMAIN known
  /\ known[dir] = StepDirGlobState(StateOf(known, Front(dir)), Last(dir),
                                   Front(dir) \in insensitive)

Chained(known) == \A dir \in DOMAIN known : ChainedIn(known, dir)

Walked == SubSeq(walk.dir, 1, walk.done)

CacheTypeOK ==
  /\ DOMAIN dirs \subseteq Dir
  /\ query # None => query.path \in Dir
  /\ query = None => ~Walking
  /\ Walking => /\ walk = [dir |-> walk.dir, done |-> walk.done, state |-> walk.state]
                /\ walk.dir \in Dir /\ walk.done \in 0 .. Len(walk.dir)

(* What has been walked is known, but for the root. *)
WalkFollows ==
  Walking => /\ walk.state = StateOf(dirs, Walked)
             /\ Walked # <<>> => Walked \in DOMAIN dirs

LastFollows ==
  last # None /\ ~Walking => last.dir \in DOMAIN dirs /\ last.state = dirs[last.dir]

CacheInv == CacheTypeOK /\ Chained(dirs) /\ WalkFollows /\ LastFollows

----------------------------------------------------------------------------
LEMMA FrontIsShorter ==
  ASSUME NEW s \in Seq(Word), s # <<>>
  PROVE  Front(s) \in Seq(Word) /\ Len(Front(s)) = Len(s) - 1
<1>1. Len(s) \in Nat /\ Len(s) # 0
  BY EmptySeq
<1>2. \A i \in 1 .. Len(s) - 1 : s[i] \in Word
  BY <1>1, LenProperties
<1> DEFINE n == Len(s) - 1
           front == SubSeq(s, 1, n)
<1>3. n \in Nat
  BY <1>1
<1>4. front \in Seq(Word) /\ Len(front) = IF 1 <= n THEN n - 1 + 1 ELSE 0
  BY <1>2, <1>3, SubSeqProperties
<1> HIDE DEF n
<1>5. Len(front) = n
  BY <1>3, <1>4
<1> QED
  BY <1>4, <1>5 DEF Front, n

LEMMA FrontOfAppend ==
  ASSUME NEW s \in Seq(Word), NEW x \in Word
  PROVE  /\ Append(s, x) \in Dir
         /\ Front(Append(s, x)) = s
         /\ Last(Append(s, x)) = x
<1>1. Append(s, x) \in Dir
  BY AppendProperties DEF Dir
<1>2. Last(Append(s, x)) = x
  BY DEF Last
<1>3. Front(Append(s, x)) = SubSeq(Append(s, x), 1, Len(s))
  BY DEF Front
<1>4. SubSeq(Append(s, x), 1, Len(s)) = s
  OBVIOUS
<1> QED
  BY <1>1, <1>2, <1>3, <1>4

(* The next prefix of a directory. *)
LEMMA NextPrefix ==
  ASSUME NEW s \in Seq(Word), NEW n \in Nat, n < Len(s)
  PROVE  /\ SubSeq(s, 1, n) \in Seq(Word)
         /\ s[n + 1] \in Word
         /\ SubSeq(s, 1, n + 1) = Append(SubSeq(s, 1, n), s[n + 1])
<1>1. s[n + 1] \in Word /\ SubSeq(s, 1, n) \in Seq(Word)
  OBVIOUS
<1>2. SubSeq(s, 1, n + 1) = Append(SubSeq(s, 1, n), s[n + 1])
  OBVIOUS
<1> QED
  BY <1>1, <1>2

LEMMA PathIsDir ==
  ASSUME NEW n \in Nat \ {0}, NEW path \in Paths(n)
  PROVE  path \in Dir
<1>1. PICK m \in 1 .. n : path \in [1 .. m -> Word]
  BY DEF Paths
<1>2. path \in Seq(Word) /\ Len(path) = m
  BY <1>1
<1> QED
  BY <1>1, <1>2 DEF Dir
----------------------------------------------------------------------------
LEMMA CacheInit == IgnoreInit => CacheInv
  BY DEF IgnoreInit, Walking, CacheInv, CacheTypeOK, Chained, WalkFollows, LastFollows, NoDirs

(* An answer ends the walk, and changes the cache at most in its last. *)
LEMMA ConcludeKeeps ==
  ASSUME CacheInv, NEW state, Conclude(state), UNCHANGED dirs,
         \/ UNCHANGED last /\ ~Walking
         \/ /\ last'.dir \in DOMAIN dirs /\ last'.state = dirs[last'.dir]
  PROVE  CacheInv'
<1>1. CacheTypeOK'
  BY DEF CacheInv, CacheTypeOK, Walking, Conclude
<1>2. Chained(dirs)'
  BY DEF CacheInv, Chained, ChainedIn, StateOf, Conclude
<1>3. WalkFollows' /\ LastFollows'
  BY DEF CacheInv, WalkFollows, LastFollows, Walking, Conclude
<1> QED
  BY <1>1, <1>2, <1>3 DEF CacheInv

(* A step that leaves the cache and its walk alone. *)
LEMMA OthersKeep ==
  ASSUME CacheInv, UNCHANGED <<cacheVars, insensitive, walk>>,
         UNCHANGED query \/ (query = None /\ query'.path \in Dir)
  PROVE  CacheInv'
<1>1. CacheTypeOK'
  BY DEF CacheInv, CacheTypeOK, Walking, cacheVars
<1>2. Chained(dirs)'
  BY DEF CacheInv, Chained, ChainedIn, StateOf, cacheVars
<1>3. WalkFollows' /\ LastFollows'
  BY DEF CacheInv, WalkFollows, LastFollows, Walked, Walking, StateOf, cacheVars
<1> QED
  BY <1>1, <1>2, <1>3 DEF CacheInv

LEMMA AskCacheKeeps ==
  ASSUME CacheInv, NEW w \in Watcher, NEW path \in Paths(MaxDepth), AskCache(w, path)
  PROVE  CacheInv'
<1>1. path \in Dir
  BY PathIsDir, IgnoreAssumption
<1>2. query' = [watcher |-> w, path |-> path] /\ UNCHANGED <<insensitive, walk>>
  BY DEF AskCache
<1>3. CASE IsCachedFor(w)
  BY <1>1, <1>2, <1>3, OthersKeep DEF AskCache
<1>4. CASE ~IsCachedFor(w)
  <2>1. dirs' = NoDirs /\ last' = None /\ ~Walking'
    BY <1>4 DEF AskCache, CacheInv, CacheTypeOK, Walking
  <2>2. CacheTypeOK'
    BY <2>1, <1>1, <1>2 DEF CacheTypeOK, NoDirs
  <2>3. Chained(dirs)' /\ WalkFollows' /\ LastFollows'
    BY <2>1 DEF Chained, WalkFollows, LastFollows, NoDirs
  <2> QED
    BY <2>2, <2>3 DEF CacheInv
<1> QED
  BY <1>3, <1>4

(* An empty or a full cache, or the cache as it is: the walk starts where   *)
(* the nearest known ancestor ends.                                         *)
LEMMA ResolveKeeps ==
  ASSUME CacheInv, Resolve
  PROVE  CacheInv'
<1>1. /\ query # None /\ ~Walking /\ RelDir # <<>>
      /\ dirs' = Left
      /\ UNCHANGED <<insensitive, watcherId, rootState, last, query>>
  BY DEF Resolve, Resolving
<1>2. RelDir \in Dir
  BY <1>1, FrontIsShorter DEF CacheInv, CacheTypeOK, RelDir, Dir
<1>3. Left = NoDirs \/ Left = dirs
  BY DEF Left
<1>4. Chained(Left) /\ DOMAIN Left \subseteq Dir
  BY <1>3 DEF CacheInv, CacheTypeOK, Chained, NoDirs
<1>5. Known \subseteq 1 .. Len(RelDir) /\ Len(RelDir) \in Nat
  BY <1>2, LenProperties DEF Known, Dir
<1>6. PICK from \in Known \cup {0} :
        walk' = [dir |-> RelDir, done |-> from,
                 state |-> IF from = 0 THEN rootState ELSE dirs[SubSeq(RelDir, 1, from)]]
  BY DEF Resolve
<1>7. from \in Nat /\ from <= Len(RelDir)
  BY <1>5
<1>8. CacheTypeOK'
  BY <1>1, <1>2, <1>4, <1>6, <1>7 DEF CacheInv, CacheTypeOK
<1>9. Chained(dirs)'
  BY <1>1, <1>4 DEF Chained, ChainedIn, StateOf
<1>10. WalkFollows'
  <2>1. CASE from = 0
    <3>1. walk'.state = rootState /\ Walked' = SubSeq(RelDir, 1, 0)
      BY <1>6, <2>1 DEF Walked
    <3>2. Walked' = <<>>
      BY <3>1, SubSeqEmpty
    <3> QED
      BY <1>1, <3>1, <3>2 DEF WalkFollows, StateOf
  <2>2. CASE from # 0
    <3>1. walk'.state = dirs[SubSeq(RelDir, 1, from)] /\ Walked' = SubSeq(RelDir, 1, from)
      BY <1>6, <2>2 DEF Walked
    <3>2. SubSeq(RelDir, 1, from) \in DOMAIN Left
      BY <2>2 DEF Known
    <3>3. Left = dirs
      BY <1>3, <3>2 DEF NoDirs
    <3>4. SubSeq(RelDir, 1, from) # <<>>
      BY <1>4, <3>2 DEF Dir
    <3> QED
      BY <1>1, <3>1, <3>2, <3>3, <3>4 DEF WalkFollows, StateOf
  <2> QED
    BY <2>1, <2>2
<1>11. LastFollows'
  BY <1>2, <1>6 DEF LastFollows, Walking, NoWalk, Dir
<1> QED
  BY <1>8, <1>9, <1>10, <1>11 DEF CacheInv

(* What is added is one step from what has been walked; what is known stays. *)
LEMMA ExtendKeeps ==
  ASSUME CacheInv, Extend
  PROVE  CacheInv'
<1> DEFINE parent == SubSeq(walk.dir, 1, walk.done)
           word   == walk.dir[walk.done + 1]
           state  == StepDirGlobState(walk.state, word, parent \in insensitive)
           next   == Append(parent, word)
<1>1. /\ Walking /\ walk.done < Len(walk.dir)
      /\ dirs' = [dir \in DOMAIN dirs \cup {next} |->
                   IF dir \in DOMAIN dirs THEN dirs[dir] ELSE state]
      /\ walk' = [walk EXCEPT !.done = @ + 1, !.state = state]
      /\ UNCHANGED <<insensitive, rootState, last, query>>
  BY DEF Extend
<1>2. /\ walk = [dir |-> walk.dir, done |-> walk.done, state |-> walk.state]
      /\ walk.dir \in Dir /\ walk.done \in 0 .. Len(walk.dir)
  BY <1>1 DEF CacheInv, CacheTypeOK
<1>3. walk' = [dir |-> walk.dir, done |-> walk.done + 1, state |-> state]
  BY <1>1, <1>2
<1>4. walk.dir \in Seq(Word) /\ walk.done \in Nat /\ Len(walk.dir) \in Nat
  BY <1>2, LenProperties DEF Dir
<1>5. parent \in Seq(Word) /\ word \in Word /\ SubSeq(walk.dir, 1, walk.done + 1) = next
  BY <1>1, <1>4, NextPrefix
<1>6. next \in Dir /\ Front(next) = parent /\ Last(next) = word
  BY <1>5, FrontOfAppend
<1>7. walk.state = StateOf(dirs, parent) /\ (parent # <<>> => parent \in DOMAIN dirs)
  BY <1>1 DEF CacheInv, WalkFollows, Walked
<1> HIDE DEF parent, word, state, next
<1>8. /\ DOMAIN dirs' = DOMAIN dirs \cup {next}
      /\ \A dir \in DOMAIN dirs : dirs'[dir] = dirs[dir]
      /\ next \notin DOMAIN dirs => dirs'[next] = state
  BY <1>1
<1>9. state = StepDirGlobState(StateOf(dirs, Front(next)), Last(next), Front(next) \in insensitive)
  BY <1>6, <1>7 DEF state
<1>10. dirs'[next] = state
  <2>1. CASE next \in DOMAIN dirs
    BY <2>1, <1>8, <1>9 DEF CacheInv, Chained, ChainedIn
  <2>2. CASE next \notin DOMAIN dirs
    BY <2>2, <1>8
  <2> QED
    BY <2>1, <2>2
<1>11. ASSUME NEW dir, dir = <<>> \/ dir \in DOMAIN dirs
       PROVE  StateOf(dirs, dir)' = StateOf(dirs, dir)
  BY <1>1, <1>8, <1>11 DEF StateOf
<1>12. CacheTypeOK'
  <2>1. walk'.done \in 0 .. Len(walk'.dir)
    BY <1>1, <1>3, <1>4
  <2> QED
    BY <1>1, <1>2, <1>3, <1>6, <1>8, <2>1 DEF CacheInv, CacheTypeOK
<1>13. Chained(dirs)'
  <2> SUFFICES ASSUME NEW dir \in DOMAIN dirs'
               PROVE  ChainedIn(dirs, dir)'
    BY DEF Chained
  <2>1. CASE dir = next
    <3>1. StateOf(dirs, Front(dir))' = StateOf(dirs, Front(dir))
      BY <2>1, <1>6, <1>7, <1>11
    <3> QED
      BY <2>1, <3>1, <1>1, <1>6, <1>7, <1>8, <1>9, <1>10 DEF ChainedIn
  <2>2. CASE dir \in DOMAIN dirs
    <3>1. ChainedIn(dirs, dir)
      BY <2>2 DEF CacheInv, Chained
    <3>2. StateOf(dirs, Front(dir))' = StateOf(dirs, Front(dir))
      BY <3>1, <1>11 DEF ChainedIn
    <3> QED
      BY <2>2, <3>1, <3>2, <1>1, <1>8 DEF ChainedIn
  <2> QED
    BY <2>1, <2>2, <1>8
<1>14. WalkFollows'
  <2>1. Walked' = next /\ walk'.state = state
    BY <1>3, <1>5 DEF Walked
  <2>2. next # <<>> /\ next \in DOMAIN dirs'
    BY <1>6, <1>8 DEF Dir
  <2> QED
    BY <2>1, <2>2, <1>10 DEF WalkFollows, StateOf
<1>15. LastFollows'
  <2>1. walk.dir # <<>> /\ walk'.dir = walk.dir
    BY <1>2, <1>3 DEF Dir
  <2> QED
    BY <2>1 DEF LastFollows, Walking, NoWalk
<1> QED
  BY <1>12, <1>13, <1>14, <1>15 DEF CacheInv

LEMMA ResolveWalkedKeeps ==
  ASSUME CacheInv, ResolveWalked
  PROVE  CacheInv'
<1>1. /\ Walking /\ walk.done = Len(walk.dir)
      /\ last' = [dir |-> walk.dir, state |-> walk.state]
      /\ Conclude(walk.state) /\ UNCHANGED dirs
  BY DEF ResolveWalked
<1>2. walk.dir \in Dir
  BY <1>1 DEF CacheInv, CacheTypeOK
<1>3. Walked = walk.dir
  BY <1>1, <1>2, SubSeqFull DEF Walked, Dir
<1>4. last'.dir \in DOMAIN dirs /\ last'.state = dirs[last'.dir]
  BY <1>1, <1>2, <1>3 DEF CacheInv, WalkFollows, StateOf, Dir
<1> QED
  BY <1>1, <1>4, ConcludeKeeps

(* The directories keep their case sensitivity. *)
LEMMA CacheStep ==
  ASSUME MayChange = FALSE, CacheInv, [IgnoreNext]_ignoreVars
  PROVE  CacheInv'
<1>1. ASSUME NEW w \in Watcher, NEW raws \in Option, Construct(w, raws)
      PROVE  CacheInv'
  BY <1>1, OthersKeep DEF Construct
<1>2. ASSUME NEW directories \in Insensitive, Replace(directories)
      PROVE  CacheInv'
  <2>1. UNCHANGED <<dirs, last, rootState, query, walk>>
    BY <1>2 DEF Replace, cacheVars
  <2>2. \A dir \in DOMAIN dirs :
          (Front(dir) \in insensitive') = (Front(dir) \in insensitive)
    BY <1>2 DEF Replace, MakesStale
  <2>3. Chained(dirs)'
    BY <2>1, <2>2 DEF CacheInv, Chained, ChainedIn, StateOf
  <2> QED
    BY <2>1, <2>3 DEF CacheInv, CacheTypeOK, Walking, WalkFollows, Walked, StateOf, LastFollows
<1>3. ASSUME NEW w \in Watcher, NEW path \in Paths(MaxDepth), AskGlobs(w, path)
      PROVE  CacheInv'
  BY <1>3, OthersKeep DEF AskGlobs
<1>4. ASSUME NEW w \in Watcher, NEW path \in Paths(MaxDepth), AskCache(w, path)
      PROVE  CacheInv'
  BY <1>4, AskCacheKeeps
<1>5. CASE ResolveRoot
  BY <1>5, ConcludeKeeps DEF ResolveRoot, Resolving
<1>6. CASE ResolveLast
  BY <1>6, ConcludeKeeps DEF ResolveLast, Resolving
<1>7. CASE ResolveKnown
  <2>1. /\ last'.dir \in DOMAIN dirs /\ last'.state = dirs[last'.dir]
        /\ Conclude(dirs[RelDir]) /\ UNCHANGED dirs
    BY <1>7 DEF ResolveKnown
  <2> QED
    BY <2>1, ConcludeKeeps
<1>8. CASE Resolve
  BY <1>8, ResolveKeeps
<1>9. CASE Extend
  BY <1>9, ExtendKeeps
<1>10. CASE ResolveWalked
  BY <1>10, ResolveWalkedKeeps
<1>11. CASE UNCHANGED ignoreVars
  BY <1>11, OthersKeep DEF ignoreVars
<1> QED
  BY <1>1, <1>2, <1>3, <1>4, <1>5, <1>6, <1>7, <1>8, <1>9, <1>10, <1>11 DEF IgnoreNext

(* Whatever the globs, the paths asked for, the watchers that take turns on *)
(* a thread and the moments at which the cache is emptied, a cached state   *)
(* is the state a walk from the root would end in: the entry of each        *)
(* directory follows from its parent's, and the last one from its own.      *)
(* Watcher.cc:653-723 resolveDirGlobState.                                  *)
THEOREM CacheStaysChained ==
  ASSUME MayChange = FALSE
  PROVE  IgnoreSpec => []CacheIsChained
<1>1. CacheInv => CacheIsChained
  BY DEF CacheInv, CacheTypeOK, Chained, ChainedIn, StateOf, LastFollows, CacheIsChained
<1>2. CacheInv /\ [IgnoreNext]_ignoreVars => CacheInv'
  BY CacheStep
<1> QED
  BY <1>1, <1>2, CacheInit, PTL DEF IgnoreSpec

----------------------------------------------------------------------------
(* The state of a directory, without a cache.                               *)
Meets(globs, path) ==
  \E g \in globs, n \in 0 .. Len(path) : Reaches(g, path, Folded(path), Len(g), n)

MeantState(globs, dir) ==
  IF Meets(globs, dir)
    THEN [ignored |-> TRUE, states |-> [g \in globs |-> {}]]
    ELSE [ignored |-> FALSE,
          states |-> [g \in globs |-> MayCome(g, dir, Folded(dir), Len(dir))]]

AreParts(globs) == \A g \in globs : IsParts(g)

LEMMA DirIsPath ==
  ASSUME NEW path \in Seq(Word)
  PROVE  IsPath(path) /\ Len(path) \in Nat
<1>1. IsSeq(path) /\ Len(path) \in Nat /\ \A i \in 1 .. Len(path) : path[i] \in Word
  BY SeqIsSeq
<1> QED
  BY <1>1, WordAssumption DEF IsPath, IsSeq

LEMMA OptionIsPaths ==
  ASSUME NEW raws \in Option, NEW raw \in raws
  PROVE  IsPath(raw) /\ raw # <<>>
<1>1. /\ raw # <<>> /\ IsSeq(raw)
      /\ \A word \in Range(raw) : IsSeq(word)
  BY WordAssumption DEF IsSeq
<1>2. \A i \in 1 .. Len(raw) : raw[i] \in Range(raw)
  BY <1>1, IsSeqIs
<1> QED
  BY <1>1, <1>2 DEF IsPath

LEMMA MeantRoot ==
  ASSUME NEW globs, AreParts(globs), NEW root, root = <<>>
  PROVE  RootGlobState(globs) = MeantState(globs, root)
<1> DEFINE states == [g \in globs |-> InitialState(g)]
           f == Folded(root)
<1>1. Len(root) = 0 /\ 0 \in Nat
  OBVIOUS
<1> HIDE DEF f
<1>2. ASSUME NEW g \in globs
      PROVE  /\ states[g] = MayCome(g, root, f, 0)
             /\ Accepts(g, states[g]) <=> Reaches(g, root, f, Len(g), 0)
  BY <1>1, InitialIs, AcceptsIs DEF AreParts
<1>3. (\E g \in globs : Accepts(g, states[g])) <=> Meets(globs, root)
  <2>1. Meets(globs, root) <=> \E g \in globs : Reaches(g, root, f, Len(g), 0)
    BY <1>1 DEF Meets, f
  <2> HIDE DEF states
  <2> QED
    BY <1>2, <2>1
<1>4. DOMAIN states = globs
  OBVIOUS
<1>5. states = [g \in globs |-> MayCome(g, root, f, 0)]
  BY <1>2
<1>6. RootGlobState(globs) = Verdict(states)
  BY DEF RootGlobState
<1> HIDE DEF states
<1>7. Verdict(states) = IF Meets(globs, root)
                          THEN [ignored |-> TRUE, states |-> [g \in globs |-> {}]]
                          ELSE [ignored |-> FALSE, states |-> states]
  BY <1>3, <1>4 DEF Verdict
<1> QED
  BY <1>1, <1>5, <1>6, <1>7 DEF MeantState, f

LEMMA LongerIsSame ==
  ASSUME NEW dir \in Seq(Word), NEW word \in Word, NEW path, path = Append(dir, word)
  PROVE  /\ path \in Seq(Word) /\ Len(path) = Len(dir) + 1 /\ path[Len(dir) + 1] = word
         /\ SameTo(Len(dir), dir, Folded(dir), path, Folded(path))
         /\ Len(dir) + 1 \in Folded(path) <=> dir \in insensitive
<1> DEFINE n == Len(dir)
<1>1. /\ n \in Nat /\ path \in Seq(Word) /\ Len(path) = n + 1 /\ path[n + 1] = word
      /\ DOMAIN dir = 1 .. n /\ DOMAIN path = 1 .. n + 1
      /\ \A j \in 1 .. n : path[j] = dir[j]
  OBVIOUS
<1>2. ASSUME NEW j \in 1 .. n PROVE SubSeq(path, 1, j - 1) = SubSeq(dir, 1, j - 1)
  OBVIOUS
<1>3. SubSeq(path, 1, (n + 1) - 1) = dir
  <2>1. SubSeq(Append(dir, word), 1, Len(dir)) = dir
    OBVIOUS
  <2>2. (n + 1) - 1 = Len(dir)
    BY <1>1
  <2> QED
    BY <2>1, <2>2
<1> HIDE DEF n
<1>4. ASSUME NEW j \in 1 .. n PROVE j \in Folded(dir) <=> j \in Folded(path)
  <2>1. j \in DOMAIN dir /\ j \in DOMAIN path
    BY <1>1
  <2>2. SubSeq(path, 1, j - 1) = SubSeq(dir, 1, j - 1)
    BY <1>2
  <2> QED
    BY <2>1, <2>2 DEF Folded
<1>5. n + 1 \in Folded(path) <=> dir \in insensitive
  <2> DEFINE j == n + 1
  <2>1. j \in DOMAIN path /\ SubSeq(path, 1, j - 1) = dir
    BY <1>1, <1>3
  <2> HIDE DEF j
  <2>2. j \in Folded(path) <=> dir \in insensitive
    BY <2>1 DEF Folded
  <2> QED
    BY <2>2 DEF j
<1>6. SameTo(n, dir, Folded(dir), path, Folded(path))
  BY <1>1, <1>4 DEF SameTo
<1> QED
  BY <1>1, <1>5, <1>6 DEF n

LEMMA MayComeAgree ==
  ASSUME NEW g, IsParts(g), NEW n \in Nat,
         NEW path, NEW path2, NEW folded, NEW folded2,
         Len(path) \in Nat, Len(path2) \in Nat, SameTo(n, path, folded, path2, folded2)
  PROVE  MayCome(g, path, folded, n) = MayCome(g, path2, folded2, n)
<1>1. Len(g) \in Nat /\ DoubleStars(g) \subseteq 1 .. Len(g)
  BY DoubleStarsAre
<1>2. \A m \in 0 .. Len(g) : Reaches(g, path, folded, m, n) <=> Reaches(g, path2, folded2, m, n)
  BY <1>1, ReachesAgree
<1>3. ASSUME NEW p \in 1 .. Len(g) + 1
      PROVE  (IF p \in DoubleStars(g) THEN Reaches(g, path, folded, p, n)
                                      ELSE Reaches(g, path, folded, p - 1, n))
               <=> IF p \in DoubleStars(g) THEN Reaches(g, path2, folded2, p, n)
                                           ELSE Reaches(g, path2, folded2, p - 1, n)
  <2>1. p - 1 \in 0 .. Len(g) /\ (p \in DoubleStars(g) => p \in 0 .. Len(g))
    BY <1>1
  <2> QED
    BY <1>2, <2>1
<1> QED
  BY <1>3 DEF MayCome

(* One step in the state of the parent.                                     *)
LEMMA MeantNext ==
  ASSUME NEW globs, AreParts(globs), NEW dir \in Seq(Word), NEW word \in Word,
         NEW path, path = Append(dir, word)
  PROVE  StepDirGlobState(MeantState(globs, dir), word, dir \in insensitive)
           = MeantState(globs, path)
<1> DEFINE n == Len(dir)
           f == Folded(path)
<1>1. /\ path \in Seq(Word) /\ Len(path) = n + 1 /\ path[n + 1] = word /\ n \in Nat
      /\ SameTo(n, dir, Folded(dir), path, f)
      /\ (n + 1 \in f) = (dir \in insensitive)
  <2>1. n \in Nat
    OBVIOUS
  <2>2. /\ path \in Seq(Word) /\ Len(path) = n + 1 /\ path[n + 1] = word
        /\ SameTo(n, dir, Folded(dir), path, f)
        /\ n + 1 \in f <=> dir \in insensitive
    BY LongerIsSame
  <2> HIDE DEF n, f
  <2> QED
    BY <2>1, <2>2
<1>2. Len(dir) = n /\ Len(path) \in Nat /\ Len(dir) \in Nat
  BY <1>1
<1>3. \A g \in globs : Len(g) \in Nat /\ Len(g) \in 0 .. Len(g)
  BY DoubleStarsAre DEF AreParts
<1>4. ASSUME NEW g \in globs, NEW k \in 0 .. n
      PROVE  Reaches(g, dir, Folded(dir), Len(g), k) <=> Reaches(g, path, f, Len(g), k)
  <2>1. k \in Nat /\ SameTo(k, dir, Folded(dir), path, f)
    BY <1>1, <1>2 DEF SameTo
  <2> QED
    BY <1>2, <1>3, <2>1, ReachesAgree
<1>5. Meets(globs, dir) <=> \E g \in globs, k \in 0 .. n : Reaches(g, path, f, Len(g), k)
  BY <1>4 DEF Meets
<1>6. Meets(globs, path) <=> \E g \in globs, k \in 0 .. (n + 1) : Reaches(g, path, f, Len(g), k)
  BY <1>1 DEF Meets
<1>7. Meets(globs, path) <=>
        Meets(globs, dir) \/ \E g \in globs : Reaches(g, path, f, Len(g), n + 1)
  <2>1. \A k : k \in 0 .. (n + 1) <=> k \in 0 .. n \/ k = n + 1
    BY <1>1
  <2> QED
    BY <1>5, <1>6, <2>1
<1>8. CASE Meets(globs, dir)
  BY <1>7, <1>8 DEF MeantState, StepDirGlobState
<1>9. CASE ~Meets(globs, dir)
  <2> DEFINE states == [g \in globs |-> MayCome(g, path, f, n + 1)]
             before == MeantState(globs, dir)
  <2>1. /\ before.ignored = FALSE
        /\ before.states = [g \in globs |-> MayCome(g, dir, Folded(dir), n)]
    BY <1>9 DEF MeantState
  <2>2. ASSUME NEW g \in globs
        PROVE  StepBitmask(g, before.states[g], word, dir \in insensitive)
                 = MayCome(g, path, f, n + 1)
    <3>1. IsParts(g)
      BY DEF AreParts
    <3>2. before.states[g] = MayCome(g, path, f, n)
      BY <1>1, <1>2, <2>1, <3>1, MayComeAgree
    <3>3. StepBitmask(g, MayCome(g, path, f, n), path[n + 1], n + 1 \in f)
            = MayCome(g, path, f, n + 1)
      <4>1. n < Len(path)
        BY <1>1
      <4> HIDE DEF n, f
      <4> QED
        BY <1>1, <1>2, <3>1, <4>1, NextStep
    <3> QED
      BY <1>1, <3>2, <3>3
  <2>3. DOMAIN before.states = globs
    BY <2>1
  <2>4. StepDirGlobState(before, word, dir \in insensitive) = Verdict(states)
    <3>1. [g \in globs |-> StepBitmask(g, before.states[g], word, dir \in insensitive)] = states
      BY <2>2
    <3> HIDE DEF before, states
    <3> QED
      BY <2>1, <2>3, <3>1 DEF StepDirGlobState
  <2>5. (\E g \in globs : Accepts(g, states[g])) <=> Meets(globs, path)
    <3>1. ASSUME NEW g \in globs
          PROVE  Accepts(g, states[g]) <=> Reaches(g, path, f, Len(g), n + 1)
      <4>1. n + 1 \in Nat /\ states[g] = MayCome(g, path, f, n + 1) /\ IsParts(g)
        BY <1>1 DEF AreParts
      <4> HIDE DEF states, n, f
      <4> DEFINE k == n + 1
      <4> HIDE DEF k
      <4>2. Accepts(g, MayCome(g, path, f, k)) <=> Reaches(g, path, f, Len(g), k)
        BY <4>1, AcceptsIs DEF k
      <4> QED
        BY <4>1, <4>2 DEF k
    <3> HIDE DEF states
    <3> QED
      BY <1>7, <1>9, <3>1
  <2>6. DOMAIN states = globs
    OBVIOUS
  <2>7. Verdict(states) = IF Meets(globs, path)
                            THEN [ignored |-> TRUE, states |-> [g \in globs |-> {}]]
                            ELSE [ignored |-> FALSE, states |-> states]
    <3> HIDE DEF states
    <3> QED
      BY <2>5, <2>6 DEF Verdict
  <2> HIDE DEF before, f
  <2> QED
    BY <1>1, <2>4, <2>7 DEF MeantState, before, f
<1> QED
  BY <1>8, <1>9

(* What is ignored from the root on is all that is below it.                *)
LEMMA MeetsBelow ==
  ASSUME NEW globs, AreParts(globs), AllUseBitmask(globs), NEW path \in Dir
  PROVE  MeantState(globs, path).ignored <=>
           \E g \in globs, n \in 1 .. Len(path) : Reaches(g, path, Folded(path), Len(g), n)
<1> DEFINE f == Folded(path)
<1>1. Len(path) \in Nat /\ Len(path) # 0
  BY EmptySeq DEF Dir
<1>2. ASSUME NEW g \in globs, Reaches(g, path, f, Len(g), 0)
      PROVE  Reaches(g, path, f, Len(g), 0 + 1)
  <2> DEFINE m == Len(g) - 1
             z == 0
  <2>1. /\ Len(g) \in Nat /\ DOMAIN g = 1 .. Len(g) /\ IsSeq(g)
    BY DoubleStarsAre DEF AreParts, IsParts, IsPath
  <2>2. Len(g) # 0
    BY <2>1, EmptySeq DEF AllUseBitmask, UsesBitmask, IsSeq
  <2>3. m \in Nat /\ Len(g) = m + 1 /\ z \in Nat /\ m + 1 \in 1 .. Len(g)
    BY <2>1, <2>2
  <2>4. 1 .. Len(g) \subseteq DoubleStars(g)
    BY <1>2, <2>1, ReachesFirst
  <2> HIDE DEF m, z, f
  <2>5. Reaches(g, path, f, m + 1, z) => Reaches(g, path, f, m + 1, z + 1)
    BY <2>3, <2>4, ReachesLast
  <2> QED
    BY <1>2, <2>3, <2>5 DEF z
<1>3. Meets(globs, path) <=>
        \E g \in globs, n \in 1 .. Len(path) : Reaches(g, path, f, Len(g), n)
  <2>1. /\ 1 .. Len(path) \subseteq 0 .. Len(path) /\ 1 \in 1 .. Len(path) /\ 0 + 1 = 1
        /\ \A n \in 0 .. Len(path) : n = 0 \/ n \in 1 .. Len(path)
    BY <1>1
  <2> HIDE DEF f
  <2> QED
    BY <1>2, <2>1 DEF Meets, f
<1>4. MeantState(globs, path).ignored <=> Meets(globs, path)
  BY DEF MeantState
<1> QED
  BY <1>3, <1>4

----------------------------------------------------------------------------
(* No two watchers share a number, even one after the other, so that a      *)
(* cache is for a watcher's globs if it is for its number.                  *)
IsWatcher(w) == w \in Watcher /\ watchers[w] # None

WatchersOK ==
  /\ watchers = [w \in Watcher |-> watchers[w]]
  /\ nextId \in Nat /\ nextId >= 1 /\ watcherId \in 0 .. nextId - 1
  /\ \A w \in Watcher : IsWatcher(w) =>
       /\ watchers[w].id \in 1 .. nextId - 1
       /\ watchers[w].raws \in Option
       /\ watchers[w].globs = {Parts(Normalized(raw)) : raw \in watchers[w].raws}
  /\ \A v, w \in Watcher :
       IsWatcher(v) /\ IsWatcher(w) /\ watchers[v].id = watchers[w].id => v = w

RootFollows ==
  \A w \in Watcher : IsWatcher(w) /\ watchers[w].id = watcherId =>
    rootState = RootGlobState(watchers[w].globs)

(* The cache is the one of the watcher that asks, until it is answered.     *)
QueryFollows ==
  query # None =>
    /\ IsWatcher(query.watcher)
    /\ watcherId = watchers[query.watcher].id
    /\ AllUseBitmask(watchers[query.watcher].globs)
    /\ Walking => walk.dir = RelDir

AnswersFollow == WatchersOK /\ RootFollows /\ QueryFollows /\ AnswerIsMeant

AnswerInv == CacheInv /\ WatchersOK /\ RootFollows /\ QueryFollows /\ AnswerIsMeant

LEMMA AnswerInit == IgnoreInit => AnswerInv
<1> SUFFICES ASSUME IgnoreInit PROVE AnswerInv
  OBVIOUS
<1>1. CacheInv
  BY CacheInit
<1>2. WatchersOK /\ RootFollows
  BY DEF IgnoreInit, WatchersOK, IsWatcher, RootFollows
<1>3. QueryFollows /\ AnswerIsMeant
  BY DEF IgnoreInit, QueryFollows, AnswerIsMeant
<1> QED
  BY <1>1, <1>2, <1>3 DEF AnswerInv

(* The globs of a watcher are what its client meant.                        *)
LEMMA GlobsMean ==
  ASSUME NEW raws \in Option, NEW globs, globs = {Parts(Normalized(raw)) : raw \in raws},
         NEW path \in Seq(Word), NEW folded
  PROVE  /\ AreParts(globs)
         /\ (\E g \in globs, n \in 1 .. Len(path) : Reaches(g, path, folded, Len(g), n)) <=>
              \E raw \in raws : Means(raw, path, folded)
<1>1. ASSUME NEW raw \in raws
      PROVE  /\ IsParts(Parts(Normalized(raw)))
             /\ Means(raw, path, folded) <=>
                  \E n \in 1 .. Len(path) :
                    Reaches(Parts(Normalized(raw)), path, folded, Len(Parts(Normalized(raw))), n)
  BY OptionIsPaths, DirIsPath, CompileIs DEF Compile
<1> QED
  BY <1>1 DEF AreParts

(* Every cached state is the state of its directory.                        *)
LEMMA CacheIsMeant ==
  ASSUME CacheInv, NEW globs, AreParts(globs), rootState = RootGlobState(globs),
         NEW dir \in Seq(Word), dir = <<>> \/ dir \in DOMAIN dirs
  PROVE  StateOf(dirs, dir) = MeantState(globs, dir)
<1>1. \A root : root = <<>> => StateOf(dirs, root) = MeantState(globs, root)
  BY MeantRoot DEF StateOf
<1> DEFINE T == {n \in Nat : \A d \in DOMAIN dirs :
                               Len(d) = n => StateOf(dirs, d) = MeantState(globs, d)}
<1>2. \A d \in DOMAIN dirs : d \in Seq(Word) /\ d # <<>> /\ Len(d) \in Nat /\ Len(d) # 0
  BY EmptySeq DEF CacheInv, CacheTypeOK, Dir
<1>3. 0 \in T
  BY <1>2
<1>4. ASSUME NEW n \in Nat, n \in T PROVE n + 1 \in T
  <2> SUFFICES ASSUME NEW d \in DOMAIN dirs, Len(d) = n + 1
               PROVE  StateOf(dirs, d) = MeantState(globs, d)
    OBVIOUS
  <2> DEFINE parent == Front(d)
             word == Last(d)
  <2>1. d \in Seq(Word) /\ d # <<>>
    BY <1>2
  <2>2. parent \in Seq(Word) /\ Len(parent) = n
    BY <1>4, <2>1, FrontIsShorter
  <2>3. word \in Word /\ d = Append(parent, word)
    <3>1. Last(d) = d[Len(d)] /\ Front(d) = SubSeq(d, 1, n) /\ n < Len(d)
      BY <1>4 DEF Last, Front
    <3>2. d[n + 1] \in Word /\ SubSeq(d, 1, n + 1) = Append(SubSeq(d, 1, n), d[n + 1])
      BY <2>1, <3>1, NextPrefix
    <3>3. SubSeq(d, 1, n + 1) = d
      BY <2>1, SubSeqFull
    <3> QED
      BY <3>1, <3>2, <3>3
  <2>4. /\ parent # <<>> => parent \in DOMAIN dirs
        /\ dirs[d] = StepDirGlobState(StateOf(dirs, parent), word, parent \in insensitive)
    BY DEF CacheInv, Chained, ChainedIn
  <2>5. StateOf(dirs, parent) = MeantState(globs, parent)
    <3>1. CASE parent = <<>>
      BY <1>1, <3>1
    <3>2. CASE parent # <<>>
      <4>1. parent \in DOMAIN dirs /\ Len(parent) = n
        BY <2>2, <2>4, <3>2
      <4> HIDE DEF parent
      <4> QED
        BY <1>4, <4>1
    <3> QED
      BY <3>1, <3>2
  <2> HIDE DEF parent, word
  <2>6. StepDirGlobState(MeantState(globs, parent), word, parent \in insensitive)
          = MeantState(globs, d)
    BY <2>2, <2>3, MeantNext
  <2> QED
    BY <2>1, <2>4, <2>5, <2>6 DEF StateOf
<1>5. CASE dir \in DOMAIN dirs
  <2> DEFINE N == Len(dir)
  <2>1. N \in Nat
    BY <1>2, <1>5
  <2>2. N \in T
    <3> HIDE DEF T, N
    <3>1. \A n \in 0 .. N : n \in T
      BY <1>3, <1>4, <2>1, UpTo
    <3> QED
      BY <2>1, <3>1
  <2> QED
    BY <1>5, <2>2
<1> QED
  BY <1>1, <1>5

(* An answer from the state of the directory is right.                      *)
LEMMA ConcludeAnswers ==
  ASSUME AnswerInv, query # None, NEW state, Conclude(state),
         \/ RelDir = <<>> /\ state = rootState
         \/ RelDir \in DOMAIN dirs /\ state = dirs[RelDir]
  PROVE  AnswerIsMeant'
<1> DEFINE w == query.watcher
           path == query.path
           globs == watchers[w].globs
           word == Last(path)
           parent == Front(path)
<1>1. IsWatcher(w) /\ watcherId = watchers[w].id /\ AllUseBitmask(globs)
  BY DEF AnswerInv, QueryFollows
<1>2. rootState = RootGlobState(globs)
  BY <1>1 DEF AnswerInv, RootFollows, IsWatcher
<1>3. watchers[w].raws \in Option /\ globs = {Parts(Normalized(raw)) : raw \in watchers[w].raws}
  BY <1>1 DEF AnswerInv, WatchersOK, IsWatcher
<1>4. path \in Dir /\ path \in Seq(Word) /\ path # <<>>
  BY DEF AnswerInv, CacheInv, CacheTypeOK, Dir
<1>5. /\ AreParts(globs)
      /\ (\E g \in globs, n \in 1 .. Len(path) : Reaches(g, path, Folded(path), Len(g), n)) <=>
              \E raw \in watchers[w].raws : Means(raw, path, Folded(path))
  BY <1>3, <1>4, GlobsMean
<1>6. parent \in Seq(Word) /\ word \in Word /\ path = Append(parent, word)
  <2> DEFINE n == Len(path) - 1
  <2>1. Len(path) \in Nat /\ Len(path) # 0
    BY <1>4, EmptySeq
  <2>2. n \in Nat /\ n < Len(path) /\ n + 1 = Len(path)
    BY <2>1
  <2>3. Last(path) = path[n + 1] /\ Front(path) = SubSeq(path, 1, n)
    BY <2>2 DEF Last, Front
  <2> HIDE DEF n, path
  <2>4. /\ SubSeq(path, 1, n) \in Seq(Word) /\ path[n + 1] \in Word
        /\ SubSeq(path, 1, n + 1) = Append(SubSeq(path, 1, n), path[n + 1])
    BY <1>4, <2>2, NextPrefix
  <2>5. SubSeq(path, 1, n + 1) = path
    BY <1>4, <2>2, SubSeqFull
  <2> QED
    BY <2>3, <2>4, <2>5
<1>7. parent = RelDir
  BY DEF RelDir
<1>8. state = MeantState(globs, parent)
  <2>1. state = StateOf(dirs, parent) /\ (parent = <<>> \/ parent \in DOMAIN dirs)
    <3>1. \A d \in DOMAIN dirs : d # <<>>
      BY DEF AnswerInv, CacheInv, CacheTypeOK, Dir
    <3> QED
      BY <1>7, <3>1 DEF StateOf
  <2> HIDE DEF parent, globs
  <2> QED
    BY <1>2, <1>5, <1>6, <2>1, CacheIsMeant DEF AnswerInv
<1>9. answer' = [watcher |-> w, path |-> path,
                 ignored |-> IsComponentIgnored(state, word, parent \in insensitive)]
      /\ UNCHANGED <<watchers, insensitive>>
  BY <1>7 DEF Conclude, Answered
<1> HIDE DEF globs, parent, word, path, w
<1>10. StepDirGlobState(MeantState(globs, parent), word, parent \in insensitive)
         = MeantState(globs, path)
  BY <1>5, <1>6, MeantNext
<1>11. IsComponentIgnored(state, word, parent \in insensitive) = MeantState(globs, path).ignored
  BY <1>8, <1>10 DEF IsComponentIgnored
<1>12. MeantState(globs, path).ignored <=>
         \E g \in globs, n \in 1 .. Len(path) : Reaches(g, path, Folded(path), Len(g), n)
  BY <1>1, <1>4, <1>5, MeetsBelow DEF globs
<1>13. answer'.ignored <=> \E raw \in watchers[w].raws : Means(raw, path, Folded(path))
  BY <1>5, <1>9, <1>11, <1>12
<1> QED
  BY <1>9, <1>13 DEF AnswerIsMeant, Folded

(* A step that takes nothing from a watcher and leaves the cache alone.     *)
LEMMA OthersFollow ==
  ASSUME WatchersOK, RootFollows, QueryFollows,
         UNCHANGED <<watchers, nextId, watcherId, rootState>>,
         \/ query' = None
         \/ UNCHANGED query /\ (Walking' => walk'.dir = RelDir)
  PROVE  WatchersOK' /\ RootFollows' /\ QueryFollows'
<1>1. WatchersOK' /\ RootFollows'
  BY DEF WatchersOK, RootFollows, IsWatcher
<1>2. CASE query' = None
  BY <1>1, <1>2 DEF QueryFollows
<1>3. CASE UNCHANGED query /\ (Walking' => walk'.dir = RelDir)
  BY <1>1, <1>3 DEF QueryFollows, IsWatcher, RelDir
<1> QED
  BY <1>2, <1>3, <1>1

LEMMA ConstructFollows ==
  ASSUME AnswerInv, NEW w \in Watcher, NEW raws \in Option, Construct(w, raws)
  PROVE  AnswersFollow'
<1> DEFINE new == [id |-> nextId, raws |-> raws,
                   globs |-> {Parts(Normalized(raw)) : raw \in raws}]
<1>1. /\ watchers = [v \in Watcher |-> watchers[v]]
      /\ watchers' = [watchers EXCEPT ![w] = new] /\ nextId' = nextId + 1
      /\ query' = None /\ answer' = None /\ watcherId' = watcherId /\ rootState' = rootState
  BY DEF Construct, AnswerInv, WatchersOK, cacheVars
<1>2. /\ new.id = nextId /\ new.raws = raws
      /\ new.globs = {Parts(Normalized(raw)) : raw \in new.raws}
  OBVIOUS
<1> HIDE DEF new
<1>3. watchers'[w] = new /\ \A v \in Watcher : v # w => watchers'[v] = watchers[v]
  BY <1>1
<1>4. nextId \in Nat /\ nextId >= 1 /\ watcherId \in 0 .. nextId - 1
  BY DEF AnswerInv, WatchersOK
<1>5. ASSUME NEW v \in Watcher, v # w, IsWatcher(v)'
      PROVE  /\ IsWatcher(v)
             /\ watchers'[v].id \in 1 .. nextId - 1
             /\ watchers'[v].raws \in Option
             /\ watchers'[v].globs = {Parts(Normalized(raw)) : raw \in watchers'[v].raws}
  BY <1>3, <1>5 DEF AnswerInv, WatchersOK, IsWatcher
<1>6. WatchersOK'
  <2>1. watchers' = [v \in Watcher |-> watchers'[v]]
    BY <1>1
  <2>2. nextId' \in Nat /\ nextId' >= 1 /\ watcherId' \in 0 .. nextId' - 1
    BY <1>1, <1>4
  <2>3. ASSUME NEW v \in Watcher, IsWatcher(v)'
        PROVE  /\ watchers'[v].id \in 1 .. nextId' - 1
               /\ watchers'[v].raws \in Option
               /\ watchers'[v].globs = {Parts(Normalized(raw)) : raw \in watchers'[v].raws}
    <3>1. CASE v = w
      BY <1>1, <1>2, <1>3, <1>4, <3>1
    <3>2. CASE v # w
      <4>1. 1 .. nextId - 1 \subseteq 1 .. nextId' - 1
        BY <1>1, <1>4
      <4> QED
        BY <1>5, <2>3, <3>2, <4>1
    <3> QED
      BY <3>1, <3>2
  <2>4. ASSUME NEW u \in Watcher, NEW v \in Watcher, IsWatcher(u)', IsWatcher(v)',
               watchers'[u].id = watchers'[v].id
        PROVE  u = v
    <3>1. CASE u # w /\ v # w
      BY <1>3, <1>5, <2>4, <3>1 DEF AnswerInv, WatchersOK
    <3>2. CASE u = w /\ v # w
      BY <1>2, <1>3, <1>4, <1>5, <2>4, <3>2
    <3>3. CASE u # w /\ v = w
      BY <1>2, <1>3, <1>4, <1>5, <2>4, <3>3
    <3> QED
      BY <3>1, <3>2, <3>3
  <2> QED
    BY <2>1, <2>2, <2>3, <2>4 DEF WatchersOK
<1>7. RootFollows'
  <2> SUFFICES ASSUME NEW v \in Watcher, IsWatcher(v)', watchers'[v].id = watcherId'
               PROVE  rootState' = RootGlobState(watchers'[v].globs)
    BY DEF RootFollows
  <2>1. v # w
    BY <1>1, <1>2, <1>3, <1>4
  <2> QED
    BY <1>1, <1>3, <1>5, <2>1 DEF AnswerInv, RootFollows
<1>8. QueryFollows' /\ AnswerIsMeant'
  BY <1>1 DEF QueryFollows, AnswerIsMeant
<1> QED
  BY <1>6, <1>7, <1>8 DEF AnswersFollow

LEMMA AskGlobsAnswers ==
  ASSUME AnswerInv, NEW w \in Watcher, NEW path \in Paths(MaxDepth), AskGlobs(w, path)
  PROVE  AnswerIsMeant'
<1> DEFINE globs == watchers[w].globs
           f == Folded(path)
<1>1. /\ watchers[w] # None /\ UNCHANGED <<watchers, insensitive>>
      /\ answer' = [watcher |-> w, path |-> path,
                    ignored |-> \E g \in globs : IsPathOrAncestorIgnored(g, path, f)]
  BY DEF AskGlobs, Answered
<1>2. path \in Seq(Word)
  BY PathIsDir, IgnoreAssumption DEF Dir
<1>3. watchers[w].raws \in Option /\ globs = {Parts(Normalized(raw)) : raw \in watchers[w].raws}
  BY <1>1 DEF AnswerInv, WatchersOK, IsWatcher
<1> HIDE DEF globs, f
<1>4. /\ AreParts(globs)
      /\ (\E g \in globs, n \in 1 .. Len(path) : Reaches(g, path, f, Len(g), n)) <=>
              \E raw \in watchers[w].raws : Means(raw, path, f)
  BY <1>2, <1>3, GlobsMean
<1>5. \A g \in globs : IsPathOrAncestorIgnored(g, path, f) <=>
        \E n \in 1 .. Len(path) : Reaches(g, path, f, Len(g), n)
  BY <1>2, <1>4, DirIsPath, AncestorsAre DEF AreParts
<1>6. answer'.ignored <=> \E raw \in watchers[w].raws : Means(raw, path, f)
  BY <1>1, <1>4, <1>5
<1> QED
  BY <1>1, <1>6 DEF AnswerIsMeant, Folded, f

LEMMA AskCacheFollows ==
  ASSUME AnswerInv, NEW w \in Watcher, NEW path \in Paths(MaxDepth), AskCache(w, path)
  PROVE  AnswersFollow'
<1>1. /\ query = None /\ IsWatcher(w) /\ AllUseBitmask(watchers[w].globs)
      /\ query' = [watcher |-> w, path |-> path]
      /\ answer' = None /\ UNCHANGED <<watchers, nextId, walk>>
  BY DEF AskCache, IsWatcher
<1>2. ~Walking'
  BY <1>1 DEF AnswerInv, CacheInv, CacheTypeOK, Walking
<1>3. watcherId' = watchers[w].id
  BY DEF AskCache, IsCachedFor, cacheVars
<1>4. WatchersOK'
  BY <1>1, <1>3 DEF AnswerInv, WatchersOK, IsWatcher
<1>5. RootFollows'
  <2>1. CASE IsCachedFor(w)
    <3>1. UNCHANGED <<watcherId, rootState>>
      BY <2>1 DEF AskCache, cacheVars
    <3> QED
      BY <1>1, <3>1 DEF AnswerInv, RootFollows, IsWatcher
  <2>2. CASE ~IsCachedFor(w)
    <3>1. rootState' = RootGlobState(watchers[w].globs)
      BY <2>2 DEF AskCache
    <3>2. \A v \in Watcher : IsWatcher(v) /\ watchers[v].id = watchers[w].id => v = w
      BY <1>1 DEF AnswerInv, WatchersOK
    <3> QED
      BY <1>1, <1>3, <3>1, <3>2 DEF RootFollows, IsWatcher
  <2> QED
    BY <2>1, <2>2
<1>6. QueryFollows'
  BY <1>1, <1>2, <1>3 DEF QueryFollows, IsWatcher
<1>7. AnswerIsMeant'
  BY <1>1 DEF AnswerIsMeant
<1> QED
  BY <1>4, <1>5, <1>6, <1>7 DEF AnswersFollow

LEMMA ConcludeFollows ==
  ASSUME AnswerInv, NEW state, Conclude(state), query # None,
         \/ RelDir = <<>> /\ state = rootState
         \/ RelDir \in DOMAIN dirs /\ state = dirs[RelDir]
  PROVE  AnswersFollow'
<1>1. AnswerIsMeant'
  BY ConcludeAnswers
<1>2. query' = None /\ UNCHANGED <<watchers, nextId, watcherId, rootState>>
  BY DEF Conclude
<1>3. WatchersOK' /\ RootFollows' /\ QueryFollows'
  BY <1>2, OthersFollow DEF AnswerInv
<1> QED
  BY <1>1, <1>3 DEF AnswersFollow

LEMMA WaitingFollows ==
  ASSUME AnswerInv, Walking' => walk'.dir = RelDir,
         UNCHANGED <<watchers, nextId, insensitive, watcherId, rootState, query, answer>>
  PROVE  AnswersFollow'
<1>1. WatchersOK' /\ RootFollows' /\ QueryFollows'
  BY OthersFollow DEF AnswerInv
<1>2. AnswerIsMeant'
  BY DEF AnswerInv, AnswerIsMeant, Folded
<1> QED
  BY <1>1, <1>2 DEF AnswersFollow

LEMMA AnswerStep ==
  ASSUME MayChange = FALSE, AnswerInv, [IgnoreNext]_ignoreVars
  PROVE  AnswerInv'
<1>1. CacheInv'
  BY CacheStep DEF AnswerInv
<1> SUFFICES AnswersFollow'
  BY <1>1 DEF AnswerInv, AnswersFollow
<1>2. ASSUME NEW w \in Watcher, NEW raws \in Option, Construct(w, raws)
      PROVE  AnswersFollow'
  BY <1>2, ConstructFollows
<1>3. ASSUME NEW directories \in Insensitive, Replace(directories)
      PROVE  AnswersFollow'
  <2>1. /\ query' = None /\ answer' = None
        /\ UNCHANGED <<watchers, nextId, watcherId, rootState>>
    BY <1>3 DEF Replace, cacheVars
  <2>2. AnswerIsMeant'
    BY <2>1 DEF AnswerIsMeant
  <2> QED
    BY <2>1, <2>2, OthersFollow DEF AnswerInv, AnswersFollow
<1>4. ASSUME NEW w \in Watcher, NEW path \in Paths(MaxDepth), AskGlobs(w, path)
      PROVE  AnswersFollow'
  <2>1. query' = None /\ UNCHANGED <<watchers, nextId, watcherId, rootState>>
    BY <1>4 DEF AskGlobs, cacheVars
  <2>2. AnswerIsMeant'
    BY <1>4, AskGlobsAnswers
  <2> QED
    BY <2>1, <2>2, OthersFollow DEF AnswerInv, AnswersFollow
<1>5. ASSUME NEW w \in Watcher, NEW path \in Paths(MaxDepth), AskCache(w, path)
      PROVE  AnswersFollow'
  BY <1>5, AskCacheFollows
<1>6. CASE ResolveRoot
  BY <1>6, ConcludeFollows DEF ResolveRoot, Resolving
<1>7. CASE ResolveLast
  <2>1. query # None /\ ~Walking /\ last # None /\ last.dir = RelDir /\ Conclude(last.state)
    BY <1>7 DEF ResolveLast, Resolving, IsLast
  <2>2. RelDir \in DOMAIN dirs /\ last.state = dirs[RelDir]
    BY <2>1 DEF AnswerInv, CacheInv, LastFollows
  <2> QED
    BY <2>1, <2>2, ConcludeFollows
<1>8. CASE ResolveKnown
  <2>1. query # None /\ RelDir \in DOMAIN dirs /\ Conclude(dirs[RelDir])
    BY <1>8 DEF ResolveKnown, Resolving
  <2> QED
    BY <2>1, ConcludeFollows
<1>9. CASE Resolve
  <2>1. /\ UNCHANGED <<watchers, nextId, insensitive, watcherId, rootState, query, answer>>
        /\ walk'.dir = RelDir
    BY <1>9 DEF Resolve
  <2> QED
    BY <2>1, WaitingFollows
<1>10. CASE Extend
  <2>1. /\ UNCHANGED <<watchers, nextId, insensitive, watcherId, rootState, query, answer>>
        /\ Walking /\ walk' = [walk EXCEPT !.done = @ + 1,
                                          !.state = StepDirGlobState(walk.state,
                                             walk.dir[walk.done + 1],
                                             SubSeq(walk.dir, 1, walk.done) \in insensitive)]
    BY <1>10 DEF Extend
  <2>2. walk = [dir |-> walk.dir, done |-> walk.done, state |-> walk.state] /\ query # None
    BY <2>1 DEF AnswerInv, CacheInv, CacheTypeOK
  <2>3. walk'.dir = walk.dir /\ walk.dir = RelDir
    BY <2>1, <2>2 DEF AnswerInv, QueryFollows
  <2> QED
    BY <2>1, <2>3, WaitingFollows
<1>11. CASE ResolveWalked
  <2>1. Walking /\ walk.done = Len(walk.dir) /\ Conclude(walk.state)
    BY <1>11 DEF ResolveWalked
  <2>2. query # None /\ walk.dir \in Dir
    BY <2>1 DEF AnswerInv, CacheInv, CacheTypeOK
  <2>3. walk.dir = RelDir
    BY <2>1, <2>2 DEF AnswerInv, QueryFollows
  <2>4. Walked = walk.dir /\ Walked # <<>>
    BY <2>1, <2>2, SubSeqFull DEF Walked, Dir
  <2>5. walk.dir \in DOMAIN dirs /\ walk.state = dirs[walk.dir]
    BY <2>1, <2>4 DEF AnswerInv, CacheInv, WalkFollows, StateOf
  <2> QED
    BY <2>1, <2>2, <2>3, <2>5, ConcludeFollows
<1>12. CASE UNCHANGED ignoreVars
  <2>1. /\ UNCHANGED <<watchers, nextId, insensitive, watcherId, rootState, query, answer>>
        /\ UNCHANGED walk
    BY <1>12 DEF ignoreVars, cacheVars
  <2>2. Walking' => walk'.dir = RelDir
    BY <2>1 DEF AnswerInv, CacheInv, CacheTypeOK, QueryFollows, Walking
  <2> QED
    BY <2>1, <2>2, WaitingFollows
<1> QED
  BY <1>2, <1>3, <1>4, <1>5, <1>6, <1>7, <1>8, <1>9, <1>10, <1>11, <1>12 DEF IgnoreNext

(* Whatever the globs, the words, the paths, the watchers that take turns   *)
(* on a thread and the moments at which its cache is emptied, what it says  *)
(* of a path is what the documentation says of the client's globs: with a   *)
(* bit mask or a table, with the loop for ASCII or the table for UTF-8.     *)
(* Watcher.cc:763-800 isIgnoredAndCheckedExistence, Glob.cc:58-97           *)
(* matchWildcardAscii, 216-243 matchWildcardUtf8, 372-402 stepBitmask.      *)
THEOREM AnswersAreMeant ==
  ASSUME MayChange = FALSE
  PROVE  IgnoreSpec => []AnswerIsMeant
<1>1. AnswerInv => AnswerIsMeant
  BY DEF AnswerInv
<1>2. AnswerInv /\ [IgnoreNext]_ignoreVars => AnswerInv'
  BY AnswerStep
<1> QED
  BY <1>1, <1>2, AnswerInit, PTL DEF IgnoreSpec

=============================================================================
