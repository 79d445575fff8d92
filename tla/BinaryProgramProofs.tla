------------------------ MODULE BinaryProgramProofs -------------------------
(***************************************************************************)
(* What BinaryProgram promises, for any number of addresses and writes: a  *)
(* program image is a map from addresses to bytes, whatever blocks it is   *)
(* kept in.                                                                *)
(*                                                                         *)
(* The walk over the blocks and the loading of a chunk are recursive       *)
(* functions.  That there is a function that satisfies each recursion, and *)
(* what it computes, is proved by induction; the induction is on a set of  *)
(* numbers (LEMMA Induct) instead of a predicate.                          *)
(***************************************************************************)
EXTENDS BinaryProgram, FiniteSetTheorems, SequenceTheorems, WellFoundedInduction, TLAPS

-----------------------------------------------------------------------------
(* Induction with sets *)

(* The least number of a set, from the well-founded order of finite sets.  *)
LEMMA NatMin ==
  ASSUME NEW S \in SUBSET Nat, S # {}
  PROVE  \E n \in S : \A m \in S : n <= m
<1> DEFINE T == {0 .. n : n \in S}
<1>1. IsWellFoundedOn(StrictSubsetOrdering(Nat), FiniteSubsetsOf(Nat))
  BY FS_StrictSubsetOrderingWellFounded
<1>2. T # {} /\ T \subseteq FiniteSubsetsOf(Nat)
  <2>1. ASSUME NEW n \in S PROVE 0 .. n \in FiniteSubsetsOf(Nat)
    BY FS_Interval DEF FiniteSubsetsOf
  <2>2. QED
    BY <2>1
<1>3. PICK x \in T : \A y \in T : <<y, x>> \notin StrictSubsetOrdering(Nat)
  <2> HIDE DEF T
  <2>1. QED
    BY <1>1, <1>2, WFMin, Zenon
<1>4. PICK n \in S : x = 0 .. n
  OBVIOUS
<1>5. ASSUME NEW m \in S, m < n PROVE FALSE
  <2>1. 0 .. m \in T /\ 0 .. m \subseteq 0 .. n /\ n \in 0 .. n /\ n \notin 0 .. m
    BY <1>5
  <2>2. <<0 .. m, 0 .. n>> \in StrictSubsetOrdering(Nat)
    BY <2>1 DEF StrictSubsetOrdering
  <2>3. QED
    BY <1>3, <1>4, <2>1, <2>2
<1>6. QED
  BY <1>5

LEMMA Induct ==
  ASSUME NEW T, 0 \in T, \A n \in Nat : n \in T => n + 1 \in T
  PROVE  Nat \subseteq T
<1> DEFINE S == Nat \ T
<1> SUFFICES ASSUME S # {} PROVE FALSE
  OBVIOUS
<1>1. PICK n \in S : \A m \in S : n <= m
  BY NatMin
<1>2. n - 1 \in Nat /\ n - 1 \notin S
  BY <1>1
<1>3. QED
  BY <1>1, <1>2

LEMMA MaxOf ==
  ASSUME NEW n \in Nat, NEW S \in SUBSET (0 .. n), S # {}
  PROVE  Max(S) \in S /\ \A x \in S : x <= Max(S)
<1> DEFINE T == {t \in Nat : \E x \in S : t = n - x}
<1>1. T \in SUBSET Nat /\ T # {}
  <2>1. PICK x \in S : x \in 0 .. n
    OBVIOUS
  <2>2. n - x \in Nat
    BY <2>1
  <2>3. QED
    BY <2>2
<1>2. PICK t \in T : \A u \in T : t <= u
  BY <1>1, NatMin
<1>3. PICK x \in S : t = n - x
  OBVIOUS
<1>4. \A y \in S : x >= y
  <2>1. ASSUME NEW y \in S PROVE x >= y
    <3>1. n - x <= n - y
      BY <1>2, <1>3
    <3>2. QED
      BY <3>1
  <2>2. QED
    BY <2>1
<1>5. QED
  BY <1>4 DEF Max

LEMMA MinOf ==
  ASSUME NEW S \in SUBSET Nat, S # {}
  PROVE  Min(S) \in S /\ \A x \in S : Min(S) <= x
BY NatMin DEF Min

-----------------------------------------------------------------------------
(* Blocks and their image *)

Maps == UNION {[D -> Seq(Byte)] : D \in SUBSET Address}

LEMMA MapFacts ==
  ASSUME NEW m \in Maps
  PROVE  /\ DOMAIN m \subseteq Address /\ m = [k \in DOMAIN m |-> m[k]]
         /\ \A k \in DOMAIN m : /\ k \in Nat /\ m[k] \in Seq(Byte)
                                /\ Len(m[k]) \in Nat /\ End(m, k) \in Nat /\ k <= End(m, k)
<1>1. PICK D \in SUBSET Address : m \in [D -> Seq(Byte)]
  BY DEF Maps
<1>2. DOMAIN m \subseteq Address /\ m = [k \in DOMAIN m |-> m[k]]
  BY <1>1
<1>3. ASSUME NEW k \in DOMAIN m
      PROVE  /\ k \in Nat /\ m[k] \in Seq(Byte)
             /\ Len(m[k]) \in Nat /\ End(m, k) \in Nat /\ k <= End(m, k)
  <2>1. k \in Nat /\ m[k] \in Seq(Byte)
    BY <1>1, <1>2, <1>3, TopAssumption DEF Address
  <2>2. Len(m[k]) \in Nat
    BY <2>1
  <2>3. QED
    BY <2>1, <2>2 DEF End
<1>4. QED
  BY <1>2, <1>3

LEMMA IsMap ==
  ASSUME NEW m, m = [k \in DOMAIN m |-> m[k]], DOMAIN m \subseteq Address,
         \A k \in DOMAIN m : m[k] \in Seq(Byte)
  PROVE  m \in Maps
<1>1. m \in [DOMAIN m -> Seq(Byte)]
  OBVIOUS
<1>2. QED
  BY <1>1 DEF Maps

(* The block that gives the byte at x                                      *)
Owner(m, x, k) == k \in Held(m, x) /\ \A j \in Held(m, x) : j <= k

LEMMA Coverage ==
  ASSUME NEW m \in Maps
  PROVE  Covered(m) = {x \in Nat : Held(m, x) # {}}
<1>1. ASSUME NEW x \in Covered(m) PROVE x \in Nat /\ Held(m, x) # {}
  <2>1. PICK k \in DOMAIN m : x \in k .. End(m, k) - 1
    BY <1>1 DEF Covered
  <2>2. k \in Nat /\ End(m, k) \in Nat
    BY MapFacts
  <2>3. QED
    BY <2>1, <2>2 DEF Held
<1>2. ASSUME NEW x \in Nat, Held(m, x) # {} PROVE x \in Covered(m)
  <2>1. PICK k \in Held(m, x) : k \in DOMAIN m /\ k <= x /\ x < End(m, k)
    BY <1>2 DEF Held
  <2>2. k \in Nat /\ End(m, k) \in Nat
    BY <2>1, MapFacts
  <2>3. x \in k .. End(m, k) - 1
    BY <2>1, <2>2
  <2>4. QED
    BY <2>1, <2>3 DEF Covered
<1>3. QED
  BY <1>1, <1>2

LEMMA Owned ==
  ASSUME NEW m \in Maps, NEW x \in Nat, Held(m, x) # {}
  PROVE  Owner(m, x, Max(Held(m, x)))
<1>1. Held(m, x) \in SUBSET (0 .. Top)
  BY MapFacts DEF Held, Address
<1>2. QED
  BY <1>1, TopAssumption, MaxOf DEF Owner

LEMMA ImageAt ==
  ASSUME NEW m \in Maps, NEW x \in Nat, NEW k, Owner(m, x, k)
  PROVE  x \in Covered(m) /\ Image(m)[x] = m[k][x - k + 1]
<1>1. x \in Covered(m)
  BY Coverage DEF Owner
<1>2. Owner(m, x, Max(Held(m, x)))
  BY Owned DEF Owner
<1>3. Max(Held(m, x)) = k
  <2>1. k \in Nat /\ Max(Held(m, x)) \in Nat
    BY <1>2, MapFacts DEF Owner, Held
  <2>2. QED
    BY <1>2, <2>1 DEF Owner
<1>4. QED
  BY <1>1, <1>3 DEF Image

(* The image is given by the bytes at the addresses.                       *)
LEMMA ImageIs ==
  ASSUME NEW m \in Maps, NEW f, NEW D \in SUBSET Nat, f = [x \in D |-> f[x]],
         \A x \in Nat : x \in D <=> Held(m, x) # {},
         \A x \in Nat, k \in DOMAIN m : Owner(m, x, k) => f[x] = m[k][x - k + 1]
  PROVE  Image(m) = f
<1>1. Covered(m) = D
  BY Coverage
<1>2. ASSUME NEW x \in D PROVE Image(m)[x] = f[x]
  <2>1. PICK k \in DOMAIN m : Owner(m, x, k)
    BY Owned DEF Owner, Held
  <2>2. QED
    BY <2>1, ImageAt
<1>3. QED
  BY <1>1, <1>2 DEF Image

-----------------------------------------------------------------------------
(* Consolidate *)

(* Nothing that a map of blocks stands for is changed.                     *)
Same(m, r) ==
  /\ r \in Maps /\ DOMAIN r = DOMAIN m /\ Image(r) = Image(m)
  /\ \A x \in Nat : (\E h : Held(r, x) = {h}) => \E h : Held(m, x) = {h}

(* What is known of two sequences in a row                                 *)
Spliced(a, b) ==
  /\ a \o b \in Seq(Byte) /\ Len(a \o b) = Len(a) + Len(b)
  /\ \A i \in 1 .. Len(a) + Len(b) : (a \o b)[i] = IF i <= Len(a) THEN a[i] ELSE b[i - Len(a)]

LEMMA Splice ==
  ASSUME NEW a \in Seq(Byte), NEW b \in Seq(Byte)
  PROVE  Spliced(a, b)
BY ConcatProperties, Zenon DEF Spliced

LEMMA Merged ==
  ASSUME NEW m \in Maps, NEW p \in DOMAIN m, NEW k \in DOMAIN m, p < k, End(m, p) = k
  PROVE  LET r == Absorb(m, p, k)
         IN  /\ r \in Maps /\ DOMAIN r = DOMAIN m
             /\ r[k] = <<>> /\ r[p] = m[p] \o m[k] /\ Spliced(m[p], m[k])
             /\ \A j \in DOMAIN m : j # p /\ j # k => r[j] = m[j]
             /\ End(r, k) = k /\ End(r, p) = End(m, k)
<1> DEFINE r == Absorb(m, p, k)
<1>1. r = [m EXCEPT ![p] = @ \o m[k], ![k] = <<>>]
  BY DEF Absorb
<1>2. p # k /\ p \in Nat /\ k \in Nat
  BY MapFacts
<1>3. /\ DOMAIN r = DOMAIN m /\ r[k] = <<>> /\ r[p] = m[p] \o m[k]
      /\ \A j \in DOMAIN m : j # p /\ j # k => r[j] = m[j]
      /\ r = [j \in DOMAIN r |-> r[j]]
  BY <1>1, <1>2
<1>4. m[p] \in Seq(Byte) /\ m[k] \in Seq(Byte)
  BY MapFacts
<1> HIDE DEF r
<1>5. Spliced(m[p], m[k]) /\ r[p] \in Seq(Byte) /\ Len(r[p]) = Len(m[p]) + Len(m[k])
  <2>1. Spliced(m[p], m[k])
    BY <1>4, Splice
  <2>2. QED
    BY <1>3, <2>1 DEF Spliced
<1>6. \A j \in DOMAIN r : r[j] \in Seq(Byte)
  <2>1. \A j \in DOMAIN m : m[j] \in Seq(Byte)
    BY MapFacts
  <2>2. <<>> \in Seq(Byte)
    OBVIOUS
  <2>3. QED
    BY ONLY <1>3, <1>5, <2>1, <2>2
<1>7. r \in Maps
  BY <1>3, <1>6, IsMap, MapFacts
<1>8. End(r, k) = k /\ End(r, p) = End(m, k)
  BY <1>2, <1>3, <1>4, <1>5 DEF End
<1>9. QED
  BY <1>3, <1>5, <1>7, <1>8 DEF r

LEMMA HeldAfter ==
  ASSUME NEW m \in Maps, NEW p \in DOMAIN m, NEW k \in DOMAIN m, p < k, End(m, p) = k,
         NEW x \in Nat
  PROVE  LET r == Absorb(m, p, k)
         IN  /\ k \notin Held(r, x)
             /\ p \in Held(r, x) <=> p \in Held(m, x) \/ k \in Held(m, x)
             /\ \A j : j # p /\ j # k => (j \in Held(r, x) <=> j \in Held(m, x))
             /\ p \in Held(m, x) => x < k
<1> DEFINE r == Absorb(m, p, k)
<1>1. /\ DOMAIN r = DOMAIN m /\ End(r, k) = k /\ End(r, p) = End(m, k)
      /\ \A j \in DOMAIN m : j # p /\ j # k => r[j] = m[j]
  BY Merged
<1> HIDE DEF r
<1>2. p \in Nat /\ k \in Nat /\ k <= End(m, k) /\ End(m, k) \in Nat
  BY MapFacts
<1>3. \A j \in DOMAIN m : j # p /\ j # k => End(r, j) = End(m, j)
  BY <1>1 DEF End
<1>4. k \notin Held(r, x) /\ (p \in Held(m, x) => x < k)
  BY <1>1, <1>2 DEF Held
<1>5. p \in Held(r, x) <=> p \in Held(m, x) \/ k \in Held(m, x)
  BY <1>1, <1>2 DEF Held
<1>6. \A j : j # p /\ j # k => (j \in Held(r, x) <=> j \in Held(m, x))
  BY <1>1, <1>3 DEF Held
<1>7. QED
  BY <1>4, <1>5, <1>6 DEF r

(* Two blocks that follow one another are merged and no byte changes: the  *)
(* first gives what the second gave, and none lies between them.           *)
LEMMA AbsorbKeeps ==
  ASSUME NEW m \in Maps, NEW p \in DOMAIN m, NEW k \in DOMAIN m, p < k,
         \A j \in DOMAIN m : j <= p \/ k <= j
  PROVE  Same(m, Absorb(m, p, k))
<1> DEFINE r == Absorb(m, p, k)
<1>1. CASE End(m, p) # k
  BY <1>1 DEF Absorb, Same
<1>2. CASE End(m, p) = k
  <2>1. /\ r \in Maps /\ DOMAIN r = DOMAIN m /\ r[p] = m[p] \o m[k] /\ Spliced(m[p], m[k])
        /\ \A j \in DOMAIN m : j # p /\ j # k => r[j] = m[j]
    BY <1>2, Merged
  <2>2. /\ \A x \in Nat : k \notin Held(r, x)
        /\ \A x \in Nat : p \in Held(r, x) <=> p \in Held(m, x) \/ k \in Held(m, x)
        /\ \A x \in Nat, j \in DOMAIN m :
             j # p /\ j # k => (j \in Held(r, x) <=> j \in Held(m, x))
        /\ \A x \in Nat : p \in Held(m, x) => x < k
    BY <1>2, HeldAfter
  <2> HIDE DEF r
  <2>3. p \in Nat /\ k \in Nat /\ DOMAIN m \subseteq Nat
    BY MapFacts
  <2>4. /\ \A x : Held(r, x) \subseteq DOMAIN m /\ Held(m, x) \subseteq DOMAIN m
        /\ DOMAIN m \subseteq Nat
    BY <2>1, <2>3 DEF Held
  <2>5. ASSUME NEW x \in Nat, NEW j \in DOMAIN m, Owner(r, x, j)
        PROVE  Image(m)[x] = r[j][x - j + 1]
    <3>1. j # k
      BY <2>2, <2>5 DEF Owner
    <3>2. CASE j # p
      <4>1. Owner(m, x, j)
        <5>1. j \in Held(m, x)
          BY <2>2, <2>5, <3>1, <3>2 DEF Owner
        <5>2. ASSUME NEW i \in Held(m, x) PROVE i <= j
          <6>1. i \in DOMAIN m
            BY <2>4
          <6>2. CASE i = p \/ i = k
            <7>1. p <= j
              BY <2>2, <2>5, <6>2 DEF Owner
            <7>2. QED
              BY <2>3, <2>4, <3>1, <3>2, <6>2, <7>1
          <6>3. CASE i # p /\ i # k
            BY <2>2, <2>5, <6>1, <6>3 DEF Owner
          <6>4. QED
            BY <6>2, <6>3
        <5>3. QED
          BY <5>1, <5>2 DEF Owner
      <4>2. QED
        BY <2>1, <3>1, <3>2, <4>1, ImageAt
    <3>3. CASE j = p /\ x < k
      <4>1. Owner(m, x, p)
        <5>1. k \notin Held(m, x)
          BY <2>3, <3>3 DEF Held
        <5>2. QED
          BY <2>2, <2>4, <2>5, <3>3, <5>1 DEF Owner
      <4>2. x - p + 1 \in 1 .. Len(m[p])
        BY <1>2, <2>3, <3>3, <4>1, MapFacts DEF Owner, Held, End
      <4>3. r[p][x - p + 1] = m[p][x - p + 1]
        BY <2>1, <4>2, MapFacts DEF Spliced
      <4>4. QED
        BY <3>3, <4>1, <4>3, ImageAt
    <3>4. CASE j = p /\ ~(x < k)
      <4>1. k \in Held(m, x) /\ p \notin Held(m, x)
        BY <2>2, <2>5, <3>4 DEF Owner
      <4>2. Owner(m, x, k)
        <5>1. ASSUME NEW i \in Held(m, x) PROVE i <= k
          <6>1. i \in DOMAIN m /\ i \in Nat
            BY <2>4
          <6>2. CASE i = k
            BY <6>1, <6>2
          <6>3. CASE i # k
            <7>1. i <= p
              BY <2>2, <2>5, <3>4, <4>1, <6>1, <6>3 DEF Owner
            <7>2. QED
              BY <2>3, <6>1, <7>1
          <6>4. QED
            BY <6>2, <6>3
        <5>2. QED
          BY <4>1, <5>1 DEF Owner
      <4>3. x - k + 1 \in 1 .. Len(m[k]) /\ x - p + 1 = Len(m[p]) + (x - k + 1)
        <5>1. Len(m[p]) \in Nat /\ Len(m[k]) \in Nat /\ p + Len(m[p]) = k
          BY <1>2, MapFacts DEF End
        <5>2. k <= x /\ x < k + Len(m[k])
          BY <4>1 DEF Held, End
        <5>3. QED
          BY <2>3, <5>1, <5>2
      <4>4. r[p][x - p + 1] = m[k][x - k + 1]
        <5>1. Len(m[p]) \in Nat /\ Len(m[k]) \in Nat
          BY MapFacts
        <5> DEFINE n == x - p + 1
        <5>2. /\ n \in 1 .. Len(m[p]) + Len(m[k]) /\ ~(n <= Len(m[p]))
              /\ n - Len(m[p]) = x - k + 1
          BY <4>3, <5>1
        <5> HIDE DEF n
        <5>3. r[p][n] = m[k][n - Len(m[p])]
          BY <2>1, <5>2 DEF Spliced
        <5>4. QED
          BY <5>2, <5>3 DEF n
      <4>5. QED
        BY <3>4, <4>2, <4>4, ImageAt
    <3>5. QED
      BY <3>2, <3>3, <3>4
  <2>6. Image(r) = Image(m)
    <3>1. Covered(m) \in SUBSET Nat /\ Image(m) = [x \in Covered(m) |-> Image(m)[x]]
      BY Coverage DEF Image
    <3>2. \A x \in Nat : x \in Covered(m) <=> Held(r, x) # {}
      BY <2>2, <2>4, Coverage
    <3>3. \A x \in Nat, j \in DOMAIN r : Owner(r, x, j) => Image(m)[x] = r[j][x - j + 1]
      BY <2>1, <2>5
    <3>4. r \in Maps
      BY <2>1
    <3>5. QED
      BY ONLY <3>1, <3>2, <3>3, <3>4, ImageIs
  <2>7. ASSUME NEW x \in Nat, NEW h, Held(r, x) = {h} PROVE \E g : Held(m, x) = {g}
    <3>1. CASE h # p
      BY <2>2, <2>4, <2>7, <3>1
    <3>2. CASE h = p
      <4>1. \A j \in Held(m, x) : j = p \/ j = k
        BY <2>2, <2>4, <2>7, <3>2
      <4>2. ~(p \in Held(m, x) /\ k \in Held(m, x))
        BY <2>2, <2>3 DEF Held
      <4>3. p \in Held(m, x) \/ k \in Held(m, x)
        BY <2>2, <2>7, <3>2
      <4>4. QED
        BY <4>1, <4>2, <4>3
    <3>3. QED
      BY <3>1, <3>2
  <2>8. QED
    BY <2>1, <2>6, <2>7 DEF Same, r
<1>3. QED
  BY <1>1, <1>2

(* The walk over the blocks is defined: each has a block before it or is   *)
(* the first.                                                              *)
LEMMA BelowFacts ==
  ASSUME NEW m \in Maps, NEW k \in Nat, Below(m, k) # {}
  PROVE  /\ Max(Below(m, k)) \in DOMAIN m /\ Max(Below(m, k)) < k
         /\ \A j \in DOMAIN m : j <= Max(Below(m, k)) \/ k <= j
<1>1. Below(m, k) \in SUBSET (0 .. Top)
  BY MapFacts DEF Below, Address
<1>2. Max(Below(m, k)) \in Below(m, k) /\ \A x \in Below(m, k) : x <= Max(Below(m, k))
  BY <1>1, TopAssumption, MaxOf
<1>3. \A j \in DOMAIN m : j \in Nat /\ (j < k => j \in Below(m, k))
  BY MapFacts DEF Below
<1>4. QED
  BY <1>2, <1>3 DEF Below

LEMMA LastFacts ==
  ASSUME NEW m \in Maps, DOMAIN m # {}
  PROVE  Last(m) \in DOMAIN m /\ \A j \in DOMAIN m : j <= Last(m)
<1>1. DOMAIN m \in SUBSET (0 .. Top)
  BY MapFacts DEF Address
<1>2. QED
  BY <1>1, TopAssumption, MaxOf DEF Last

LEMMA AllBelow ==
  ASSUME NEW m \in Maps
  PROVE  Below(m, Top + 1) = DOMAIN m
<1>1. \A j \in DOMAIN m : j \in 0 .. Top
  BY MapFacts DEF Address
<1>2. \A j \in DOMAIN m : j < Top + 1
  BY <1>1, TopAssumption
<1>3. QED
  BY <1>2 DEF Below

LEMMA OfferedIs ==
  ASSUME NEW m \in Maps, NEW k \in DOMAIN m
  PROVE  Offered(m)[k] =
           IF Below(m, k) = {} THEN m
           ELSE LET before == Max(Below(m, k)) IN Absorb(Offered(m)[before], before, k)
<1> DEFINE Turn(g, i) == IF Below(m, i) = {} THEN m
                         ELSE LET before == Max(Below(m, i)) IN Absorb(g[before], before, i)
           T == {n \in Nat : \E g : g = [i \in Below(m, n) |-> Turn(g, i)]}
<1>1. 0 \in T
  <2>1. Below(m, 0) = {}
    BY MapFacts DEF Below
  <2> DEFINE g == [i \in {} |-> m]
  <2>2. g = [i \in Below(m, 0) |-> Turn(g, i)]
    BY <2>1
  <2>3. QED
    BY <2>2
<1>2. ASSUME NEW n \in Nat, n \in T PROVE n + 1 \in T
  <2>1. PICK g : g = [i \in Below(m, n) |-> Turn(g, i)]
    BY <1>2
  <2> DEFINE h == [i \in Below(m, n + 1) |-> IF i = n THEN Turn(g, n) ELSE g[i]]
  <2>2. \A i \in Below(m, n + 1) : i = n \/ i \in Below(m, n)
    BY MapFacts DEF Below
  <2>3. ASSUME NEW i \in Below(m, n + 1) PROVE h[i] = Turn(h, i)
    <3>1. CASE Below(m, i) = {}
      BY <2>1, <2>2, <2>3, <3>1
    <3>2. CASE Below(m, i) # {}
      <4> DEFINE before == Max(Below(m, i))
      <4>1. i \in Nat /\ i < n + 1
        BY MapFacts DEF Below
      <4>2. before \in DOMAIN m /\ before < i
        BY <3>2, <4>1, BelowFacts
      <4>3. before \in Nat
        BY <4>2, MapFacts
      <4> HIDE DEF before
      <4>4. before \in Below(m, n + 1) /\ before # n
        BY <4>1, <4>2, <4>3 DEF Below
      <4>5. h[before] = g[before]
        BY <4>4
      <4>6. Turn(h, i) = Turn(g, i)
        BY <4>5 DEF before
      <4>7. h[i] = Turn(g, i)
        BY <2>1, <2>2, <2>3
      <4>8. QED
        BY <4>6, <4>7
    <3>3. QED
      BY <3>1, <3>2
  <2>4. h = [i \in Below(m, n + 1) |-> Turn(h, i)]
    BY <2>3
  <2> HIDE DEF h, Turn
  <2>5. QED
    BY <2>4
<1>3. Top + 1 \in T
  <2> HIDE DEF T
  <2>1. QED
    BY <1>1, <1>2, TopAssumption, Induct
<1>4. Below(m, Top + 1) = DOMAIN m
  BY AllBelow
<1>5. \E g : g = [i \in DOMAIN m |-> Turn(g, i)]
  BY <1>3, <1>4
<1>6. Offered(m) = [i \in DOMAIN m |-> Turn(Offered(m), i)]
  BY <1>5 DEF Offered
<1>7. QED
  BY <1>6

(* What every merge of neighbours keeps, Consolidate keeps.                *)
LEMMA Walk ==
  ASSUME NEW m \in Maps, NEW Q, m \in Q,
         \A r \in Q : \A p, k \in DOMAIN m :
           p < k /\ (\A j \in DOMAIN m : j <= p \/ k <= j) => Absorb(r, p, k) \in Q
  PROVE  Consolidate(m) \in Q
<1> DEFINE T == {n \in Nat : \A k \in Below(m, n) : Offered(m)[k] \in Q}
<1>1. 0 \in T
  BY MapFacts DEF Below
<1>2. ASSUME NEW n \in Nat, n \in T PROVE n + 1 \in T
  <2>1. \A k \in Below(m, n + 1) : k = n \/ k \in Below(m, n)
    BY MapFacts DEF Below
  <2>2. ASSUME n \in DOMAIN m PROVE Offered(m)[n] \in Q
    <3>1. CASE Below(m, n) = {}
      BY <2>2, <3>1, OfferedIs
    <3>2. CASE Below(m, n) # {}
      <4> DEFINE before == Max(Below(m, n))
      <4>1. /\ before \in DOMAIN m /\ before < n
            /\ \A j \in DOMAIN m : j <= before \/ n <= j
        BY <3>2, BelowFacts
      <4>2. Offered(m)[n] = Absorb(Offered(m)[before], before, n)
        BY <2>2, <3>2, OfferedIs
      <4> HIDE DEF before
      <4>3. before \in Below(m, n)
        BY <4>1 DEF Below
      <4>4. Offered(m)[before] \in Q
        BY <1>2, <4>3
      <4>5. QED
        BY <2>2, <4>1, <4>2, <4>4
    <3>3. QED
      BY <3>1, <3>2
  <2>3. QED
    BY <1>2, <2>1, <2>2 DEF Below
<1>3. \A n \in Nat : n \in T
  <2> HIDE DEF T
  <2>1. QED
    BY <1>1, <1>2, Induct
<1>4. CASE DOMAIN m = {}
  BY <1>4 DEF Consolidate
<1>5. CASE DOMAIN m # {}
  <2>1. Last(m) \in DOMAIN m /\ Last(m) \in Nat
    BY <1>5, LastFacts, MapFacts
  <2>2. Last(m) \in Below(m, Last(m) + 1) /\ Last(m) + 1 \in Nat
    BY <2>1 DEF Below
  <2>3. Offered(m)[Last(m)] \in Q
    BY <1>3, <2>2
  <2>4. QED
    BY <1>5, <2>3 DEF Consolidate
<1>6. QED
  BY <1>4, <1>5

LEMMA ConsolidateKeeps ==
  ASSUME NEW m \in Maps
  PROVE  Same(m, Consolidate(m))
<1> DEFINE Q == {r \in Maps : Same(m, r)}
<1>1. m \in Q
  BY DEF Same
<1>2. ASSUME NEW r \in Q, NEW p \in DOMAIN m, NEW k \in DOMAIN m,
             p < k, \A j \in DOMAIN m : j <= p \/ k <= j
      PROVE  Absorb(r, p, k) \in Q
  <2>1. Same(m, r) /\ r \in Maps /\ DOMAIN r = DOMAIN m
    BY DEF Same
  <2>2. Same(r, Absorb(r, p, k))
    BY <1>2, <2>1, AbsorbKeeps
  <2>3. Same(m, Absorb(r, p, k))
    BY <2>1, <2>2 DEF Same
  <2>4. QED
    BY <2>3 DEF Same
<1>3. Consolidate(m) \in Q
  <2> HIDE DEF Q
  <2>1. QED
    BY <1>1, <1>2, Walk
<1>4. QED
  BY <1>3

LEMMA NothingToMerge ==
  ASSUME NEW m \in Maps, \A p, k \in DOMAIN m : p < k => End(m, p) # k
  PROVE  Consolidate(m) = m
<1> DEFINE Q == {m}
<1>1. m \in Q
  OBVIOUS
<1>2. ASSUME NEW r \in Q, NEW p \in DOMAIN m, NEW k \in DOMAIN m, p < k
      PROVE  Absorb(r, p, k) \in Q
  BY <1>2 DEF Absorb
<1>3. Consolidate(m) \in Q
  <2> HIDE DEF Q
  <2>1. QED
    BY <1>1, <1>2, Walk
<1>4. QED
  BY <1>3

-----------------------------------------------------------------------------
(* Put *)

With(f, a, b) == [x \in DOMAIN f \cup {a} |-> IF x = a THEN b ELSE f[x]]

(* The bytes at all addresses but a are where they were.                   *)
Elsewhere(m, r, a) ==
  \A x \in Nat : x # a =>
    /\ Held(r, x) = Held(m, x)
    /\ \A j \in Held(m, x) : r[j][x - j + 1] = m[j][x - j + 1]

LEMMA OneByte ==
  ASSUME NEW m \in Maps, NEW r \in Maps, NEW a \in Nat, NEW b, NEW k,
         Elsewhere(m, r, a), Owner(r, a, k), r[k][a - k + 1] = b
  PROVE  Image(r) = With(Image(m), a, b)
<1> DEFINE f == With(Image(m), a, b)
           D == Covered(m) \cup {a}
<1>1. DOMAIN Image(m) = Covered(m)
  BY DEF Image
<1>2. D \in SUBSET Nat /\ f = [x \in D |-> f[x]]
  BY <1>1, Coverage DEF With
<1>3. /\ f[a] = b
      /\ \A x \in Nat : x # a /\ x \in D => f[x] = Image(m)[x]
  BY <1>1 DEF With
<1>4. ASSUME NEW x \in Nat PROVE x \in D <=> Held(r, x) # {}
  <2>1. CASE x = a
    BY <2>1 DEF Owner
  <2>2. CASE x # a
    BY <2>2, Coverage DEF Elsewhere
  <2>3. QED
    BY <2>1, <2>2
<1>5. ASSUME NEW x \in Nat, NEW j \in DOMAIN r, Owner(r, x, j)
      PROVE  f[x] = r[j][x - j + 1]
  <2>1. CASE x = a
    <3>1. j \in Nat /\ k \in Nat
      BY MapFacts DEF Owner, Held
    <3>2. j = k
      BY <1>5, <2>1, <3>1 DEF Owner
    <3>3. QED
      BY <1>3, <2>1, <3>2
  <2>2. CASE x # a
    <3>1. Owner(m, x, j)
      BY <1>5, <2>2 DEF Owner, Elsewhere
    <3>2. x \in Covered(m) /\ Image(m)[x] = m[j][x - j + 1]
      BY <3>1, ImageAt
    <3>3. r[j][x - j + 1] = m[j][x - j + 1]
      BY <2>2, <3>1 DEF Elsewhere, Owner
    <3>4. QED
      BY <1>3, <2>2, <3>2, <3>3
  <2>3. QED
    BY <2>1, <2>2
<1> HIDE DEF f, D
<1>6. QED
  BY <1>2, <1>4, <1>5, ImageIs DEF f

LEMMA NoByte ==
  ASSUME NEW m \in Maps, NEW r \in Maps, NEW a \in Nat, NEW k,
         Elsewhere(m, r, a), Owner(m, a, k), Owner(r, a, k),
         r[k][a - k + 1] = m[k][a - k + 1]
  PROVE  Image(r) = Image(m)
<1>1. Image(r) = With(Image(m), a, m[k][a - k + 1])
  BY OneByte
<1>2. a \in DOMAIN Image(m) /\ Image(m)[a] = m[k][a - k + 1]
  BY ImageAt DEF Image
<1>3. Image(m) = [x \in DOMAIN Image(m) |-> Image(m)[x]]
  BY DEF Image
<1>4. DOMAIN Image(m) \cup {a} = DOMAIN Image(m)
  BY <1>2
<1>5. With(Image(m), a, m[k][a - k + 1]) = [x \in DOMAIN Image(m) |-> Image(m)[x]]
  BY <1>2, <1>4 DEF With
<1>6. QED
  BY <1>1, <1>3, <1>5

(* A byte put at an address is there, unless a later block has one there.  *)
Stored(m, r, a, b) ==
  /\ r \in Maps
  /\ \/ Image(r) = With(Image(m), a, b)
     \/ Image(r) = Image(m) /\ a \in Covered(m) /\ ~\E h : Held(r, a) = {h}

LEMMA HolderFacts ==
  ASSUME NEW m \in Maps, NEW a \in Nat
  PROVE  /\ Held(m, a) \subseteq Holders(m, a) /\ Holders(m, a) \subseteq DOMAIN m
         /\ Holders(m, a) # {} =>
              /\ Min(Holders(m, a)) \in Holders(m, a)
              /\ \A j \in Holders(m, a) : Min(Holders(m, a)) <= j
<1>1. Held(m, a) \subseteq Holders(m, a) /\ Holders(m, a) \subseteq DOMAIN m
  BY MapFacts DEF Held, Holders
<1>2. Holders(m, a) \in SUBSET Nat
  BY <1>1, MapFacts
<1>3. QED
  BY <1>1, <1>2, MinOf

NewBlock(m, a, b) == [k \in DOMAIN m \cup {a} |-> IF k = a THEN <<b>> ELSE m[k]]

LEMMA PutNew ==
  ASSUME NEW m \in Maps, NEW a \in Address, NEW b \in Byte, Holders(m, a) = {}
  PROVE  /\ Stored(m, NewBlock(m, a, b), a, b) /\ a \notin DOMAIN m
         /\ End(NewBlock(m, a, b), a) = a + 1
         /\ \A j \in DOMAIN m : End(NewBlock(m, a, b), j) = End(m, j)
<1> DEFINE r == NewBlock(m, a, b)
<1>1. a \in Nat
  BY TopAssumption DEF Address
<1>2. a \notin DOMAIN m
  BY <1>1, MapFacts DEF Holders
<1>3. /\ DOMAIN r = DOMAIN m \cup {a} /\ r[a] = <<b>> /\ r = [k \in DOMAIN r |-> r[k]]
      /\ \A j \in DOMAIN m : r[j] = m[j]
  BY <1>2 DEF NewBlock
<1> HIDE DEF r
<1>4. <<b>> \in Seq(Byte) /\ Len(<<b>>) = 1 /\ <<b>>[1] = b
  OBVIOUS
<1>5. \A j \in DOMAIN r : r[j] \in Seq(Byte)
  BY <1>3, <1>4, MapFacts
<1>6. r \in Maps
  <2>1. DOMAIN r \subseteq Address
    BY <1>3, MapFacts
  <2>2. QED
    BY <1>3, <1>5, <2>1, IsMap
<1>7. /\ End(r, a) = a + 1
      /\ \A j \in DOMAIN m : End(r, j) = End(m, j)
  BY <1>3, <1>4 DEF End
<1>8. \A x \in Nat : x # a => Held(r, x) = Held(m, x)
  BY <1>1, <1>3, <1>7 DEF Held
<1>9. Elsewhere(m, r, a)
  <2>1. \A x \in Nat : \A j \in Held(m, x) : j \in DOMAIN m
    BY DEF Held
  <2>2. QED
    BY <1>3, <1>8, <2>1 DEF Elsewhere
<1>10. Held(r, a) = {a}
  <2>1. Held(m, a) = {}
    BY <1>1, HolderFacts
  <2>2. QED
    BY <1>1, <1>3, <1>7, <2>1 DEF Held
<1>11. Owner(r, a, a) /\ r[a][a - a + 1] = b
  BY <1>1, <1>3, <1>4, <1>10 DEF Owner
<1>12. Image(r) = With(Image(m), a, b)
  BY <1>1, <1>6, <1>9, <1>11, OneByte
<1>13. QED
  BY <1>2, <1>6, <1>7, <1>12 DEF Stored, r

Longer(m, k, b) == [m EXCEPT ![k] = Append(@, b)]

LEMMA PutAtEnd ==
  ASSUME NEW m \in Maps, NEW a \in Address, NEW b \in Byte, Holders(m, a) # {},
         a = End(m, Min(Holders(m, a)))
  PROVE  LET k == Min(Holders(m, a))
             r == Longer(m, k, b)
         IN  /\ Stored(m, r, a, b) /\ DOMAIN r = DOMAIN m /\ k \in DOMAIN m
             /\ r[k] # <<>> /\ End(r, k) = a + 1
             /\ \A j \in DOMAIN m : j # k => r[j] = m[j]
             /\ Held(m, a) = {} => Image(r) = With(Image(m), a, b)
<1> DEFINE k == Min(Holders(m, a))
           r == Longer(m, k, b)
<1>1. /\ a \in Nat /\ k \in Holders(m, a) /\ k \in DOMAIN m /\ k \in Nat
      /\ \A j \in Held(m, a) : k <= j /\ j \in DOMAIN m
  <2>1. a \in Nat
    BY TopAssumption DEF Address
  <2>2. /\ Held(m, a) \subseteq Holders(m, a) /\ Holders(m, a) \subseteq DOMAIN m
        /\ k \in Holders(m, a) /\ \A j \in Holders(m, a) : k <= j
    BY <2>1, HolderFacts
  <2>3. QED
    BY <2>1, <2>2, MapFacts
<1>2. a = End(m, k)
  OBVIOUS
<1> HIDE DEF k
<1>3. /\ DOMAIN r = DOMAIN m /\ r[k] = Append(m[k], b) /\ r = [j \in DOMAIN r |-> r[j]]
      /\ \A j \in DOMAIN m : j # k => r[j] = m[j]
  BY <1>1 DEF Longer
<1> HIDE DEF r
<1>4. m[k] \in Seq(Byte) /\ Len(m[k]) \in Nat
  BY <1>1, MapFacts
<1>5. /\ Append(m[k], b) \in Seq(Byte) /\ Len(Append(m[k], b)) = Len(m[k]) + 1
      /\ Append(m[k], b)[Len(m[k]) + 1] = b
      /\ \A i \in 1 .. Len(m[k]) : Append(m[k], b)[i] = m[k][i]
  BY <1>4, AppendProperties
<1>6. r \in Maps
  <2>1. \A j \in DOMAIN r : r[j] \in Seq(Byte)
    BY <1>3, <1>5, MapFacts
  <2>2. DOMAIN r \subseteq Address
    BY <1>3, MapFacts
  <2>3. QED
    BY <1>3, <2>1, <2>2, IsMap
<1>7. /\ End(r, k) = a + 1 /\ Len(m[k]) = a - k
      /\ \A j \in DOMAIN m : j # k => End(r, j) = End(m, j)
  BY <1>1, <1>2, <1>3, <1>4, <1>5 DEF End
<1>8. r[k] # <<>>
  <2>1. Len(r[k]) # 0
    BY <1>3, <1>4, <1>5
  <2>2. QED
    BY <2>1
<1>9. \A x \in Nat : x # a => Held(r, x) = Held(m, x)
  BY <1>1, <1>2, <1>3, <1>7 DEF Held
<1>10. Held(r, a) = Held(m, a) \cup {k} /\ k \notin Held(m, a) /\ k <= a
  <2>1. k <= a /\ a < End(r, k) /\ ~(a < End(m, k))
    <3>1. k <= a
      BY <1>1 DEF Holders
    <3>2. a < End(r, k)
      BY ONLY <1>1, <1>7
    <3>3. ~(a < End(m, k))
      BY ONLY <1>1, <1>2
    <3>4. QED
      BY <3>1, <3>2, <3>3
  <2>2. QED
    BY <1>1, <1>3, <1>7, <2>1 DEF Held
<1>11. Elsewhere(m, r, a)
  <2> SUFFICES ASSUME NEW x \in Nat, x # a, NEW j \in Held(m, x)
               PROVE  r[j][x - j + 1] = m[j][x - j + 1]
    BY <1>9 DEF Elsewhere
  <2>1. j \in DOMAIN m /\ j <= x /\ x < End(m, j)
    BY DEF Held
  <2>2. CASE j # k
    BY <1>3, <2>1, <2>2
  <2>3. CASE j = k
    <3>1. x - k + 1 \in 1 .. Len(m[k])
      BY <1>1, <1>2, <1>7, <2>1, <2>3
    <3>2. QED
      BY <1>3, <1>5, <2>3, <3>1
  <2>4. QED
    BY <2>2, <2>3
<1>12. CASE Held(m, a) = {}
  <2>1. Owner(r, a, k)
    BY <1>1, <1>10, <1>12 DEF Owner
  <2>2. r[k][a - k + 1] = b
    BY <1>3, <1>5, <1>7
  <2>3. Image(r) = With(Image(m), a, b)
    BY <1>1, <1>6, <1>11, <2>1, <2>2, OneByte
  <2>4. QED
    BY <1>1, <1>3, <1>6, <1>7, <1>8, <2>3 DEF Stored, r, k
<1>13. CASE Held(m, a) # {}
  <2>1. PICK j : Owner(m, a, j)
    BY <1>1, <1>13, Owned
  <2>2. j \in Held(m, a) /\ j # k /\ k <= j
    BY <1>1, <1>10, <2>1 DEF Owner
  <2>3. Owner(r, a, j)
    BY <1>10, <2>1, <2>2 DEF Owner
  <2>4. r[j] = m[j]
    BY <1>3, <2>2 DEF Held
  <2>5. Image(r) = Image(m) /\ a \in Covered(m)
    BY <1>1, <1>6, <1>11, <2>1, <2>3, <2>4, NoByte, ImageAt
  <2>6. ~\E h : Held(r, a) = {h}
    BY <1>10, <2>2
  <2>7. QED
    BY <1>1, <1>3, <1>6, <1>7, <1>8, <1>13, <2>5, <2>6 DEF Stored, r, k
<1>14. QED
  BY <1>12, <1>13

Changed(m, k, i, b) == [m EXCEPT ![k][i] = b]

LEMMA PutInside ==
  ASSUME NEW m \in Maps, NEW a \in Address, NEW b \in Byte, Holders(m, a) # {},
         a # End(m, Min(Holders(m, a)))
  PROVE  LET k == Min(Holders(m, a))
             r == Changed(m, k, a - k + 1, b)
         IN  /\ Stored(m, r, a, b) /\ DOMAIN r = DOMAIN m
             /\ \A j \in DOMAIN m : Len(r[j]) = Len(m[j])
             /\ k \in Held(m, a)
<1> DEFINE k == Min(Holders(m, a))
           n == a - k + 1
           r == Changed(m, k, n, b)
<1>1. a \in Nat /\ k \in Holders(m, a) /\ k \in DOMAIN m /\ k \in Nat
  <2>1. a \in Nat
    BY TopAssumption DEF Address
  <2>2. Holders(m, a) \subseteq DOMAIN m /\ k \in Holders(m, a)
    BY <2>1, HolderFacts
  <2>3. QED
    BY <2>1, <2>2, MapFacts
<1>2. a # End(m, k)
  OBVIOUS
<1> HIDE DEF k
<1>3. m[k] \in Seq(Byte) /\ Len(m[k]) \in Nat /\ End(m, k) \in Nat
  BY <1>1, MapFacts
<1>4. k \in Held(m, a) /\ n \in 1 .. Len(m[k])
  BY <1>1, <1>2, <1>3 DEF Holders, Held, End
<1>5. /\ DOMAIN r = DOMAIN m /\ r[k] = [m[k] EXCEPT ![n] = b] /\ r = [j \in DOMAIN r |-> r[j]]
      /\ \A j \in DOMAIN m : j # k => r[j] = m[j]
  BY <1>1 DEF Changed
<1> HIDE DEF r
<1>6. /\ [m[k] EXCEPT ![n] = b] \in Seq(Byte) /\ Len([m[k] EXCEPT ![n] = b]) = Len(m[k])
      /\ [m[k] EXCEPT ![n] = b][n] = b
      /\ \A i \in 1 .. Len(m[k]) : i # n => [m[k] EXCEPT ![n] = b][i] = m[k][i]
  BY <1>3, <1>4
<1>7. \A j \in DOMAIN m : r[j] \in Seq(Byte) /\ Len(r[j]) = Len(m[j])
  BY <1>5, <1>6, MapFacts
<1>8. r \in Maps
  <2>1. DOMAIN r \subseteq Address
    BY <1>5, MapFacts
  <2>2. QED
    BY <1>5, <1>7, <2>1, IsMap
<1>9. \A x : Held(r, x) = Held(m, x)
  <2>1. \A j \in DOMAIN m : End(r, j) = End(m, j)
    BY <1>7 DEF End
  <2>2. QED
    BY <1>5, <2>1 DEF Held
<1>10. Elsewhere(m, r, a)
  <2> SUFFICES ASSUME NEW x \in Nat, x # a, NEW j \in Held(m, x)
               PROVE  r[j][x - j + 1] = m[j][x - j + 1]
    BY <1>9 DEF Elsewhere
  <2>1. j \in DOMAIN m /\ j <= x /\ x < End(m, j)
    BY DEF Held
  <2>2. CASE j # k
    BY <1>5, <2>1, <2>2
  <2>3. CASE j = k
    <3>1. x - k + 1 \in 1 .. Len(m[k]) /\ x - k + 1 # n
      BY <1>1, <1>3, <2>1, <2>3 DEF End
    <3>2. QED
      BY <1>5, <1>6, <2>3, <3>1
  <2>4. QED
    BY <2>2, <2>3
<1>11. PICK j : Owner(m, a, j)
  BY <1>1, <1>4, Owned
<1>12. Owner(r, a, j)
  BY <1>9, <1>11 DEF Owner
<1>13. CASE j = k
  <2>1. r[k][a - k + 1] = b
    BY <1>5, <1>6
  <2>2. Image(r) = With(Image(m), a, b)
    BY <1>1, <1>8, <1>10, <1>12, <1>13, <2>1, OneByte
  <2>3. QED
    BY <1>4, <1>5, <1>7, <1>8, <2>2 DEF Stored, r, k
<1>14. CASE j # k
  <2>1. r[j] = m[j] /\ j \in Held(m, a)
    BY <1>5, <1>11, <1>14 DEF Owner, Held
  <2>2. Image(r) = Image(m) /\ a \in Covered(m)
    BY <1>1, <1>8, <1>10, <1>11, <1>12, <2>1, NoByte, ImageAt
  <2>3. ~\E h : Held(r, a) = {h}
    BY <1>4, <1>9, <1>14, <2>1
  <2>4. QED
    BY <1>4, <1>5, <1>7, <1>8, <2>2, <2>3 DEF Stored, r, k
<1>15. QED
  BY <1>13, <1>14

(* Put, as a whole: what Consolidate does to the blocks changes no byte.   *)
LEMMA PutStores ==
  ASSUME NEW m \in Maps, NEW a \in Address, NEW b \in Byte
  PROVE  /\ Stored(m, Put(m, a, b), a, b)
         /\ Held(m, a) = {} => Image(Put(m, a, b)) = With(Image(m), a, b)
<1> DEFINE k == Min(Holders(m, a))
<1>1. ASSUME NEW r, Stored(m, r, a, b) PROVE Stored(m, Consolidate(r), a, b)
  <2>1. Same(r, Consolidate(r))
    BY <1>1, ConsolidateKeeps DEF Stored
  <2>2. a \in Nat
    BY TopAssumption DEF Address
  <2>3. QED
    BY <1>1, <2>1, <2>2 DEF Stored, Same
<1>2. Held(m, a) = {} => a \notin Covered(m)
  BY Coverage
<1>3. CASE Holders(m, a) = {}
  <2>1. Put(m, a, b) = Consolidate(NewBlock(m, a, b))
    BY <1>3 DEF Put, NewBlock
  <2>2. Stored(m, Put(m, a, b), a, b)
    BY <1>1, <1>3, <2>1, PutNew
  <2>3. QED
    BY <1>2, <2>2 DEF Stored
<1>4. CASE Holders(m, a) # {} /\ a = End(m, k)
  <2>1. Put(m, a, b) = Consolidate(Longer(m, k, b))
    BY <1>4 DEF Put, Longer
  <2>2. Stored(m, Put(m, a, b), a, b)
    BY <1>1, <1>4, <2>1, PutAtEnd
  <2>3. QED
    BY <1>2, <2>2 DEF Stored
<1>5. CASE Holders(m, a) # {} /\ a # End(m, k)
  <2>1. Put(m, a, b) = Changed(m, k, a - k + 1, b)
    BY <1>5 DEF Put, Changed
  <2>2. Stored(m, Put(m, a, b), a, b)
    BY <1>5, <2>1, PutInside
  <2>3. QED
    BY <1>2, <2>2 DEF Stored
<1>6. QED
  BY <1>3, <1>4, <1>5

-----------------------------------------------------------------------------
(* Loading what was saved *)

(* Blocks with gaps between them, none empty: while a program is loaded,   *)
(* from lower blocks to higher ones, nothing is ever merged.               *)
Apart(m) == \A j \in DOMAIN m : /\ m[j] # <<>>
                                /\ \A k \in DOMAIN m : j < k => End(m, j) < k

LEMMA OneHolder ==
  ASSUME NEW m \in Maps, Apart(m), NEW a \in Nat, NEW j \in Holders(m, a), NEW k \in Holders(m, a)
  PROVE  j = k
<1>1. /\ j \in DOMAIN m /\ k \in DOMAIN m /\ j <= a /\ k <= a
      /\ a <= End(m, j) /\ a <= End(m, k)
  BY DEF Holders
<1>2. j \in Nat /\ k \in Nat /\ End(m, j) \in Nat /\ End(m, k) \in Nat
  BY <1>1, MapFacts
<1>3. (j < k => End(m, j) < k) /\ (k < j => End(m, k) < j)
  BY <1>1 DEF Apart
<1>4. QED
  BY <1>1, <1>2, <1>3

LEMMA PutInOrder ==
  ASSUME NEW m \in Maps, Apart(m), NEW a \in Address, NEW b \in Byte, \A j \in DOMAIN m : j <= a
  PROVE  LET r == Put(m, a, b)
         IN  /\ r \in Maps /\ Apart(r) /\ Image(r) = With(Image(m), a, b)
             /\ DOMAIN r \subseteq DOMAIN m \cup {a}
             /\ Holders(m, a) # {} => DOMAIN r = DOMAIN m
<1> DEFINE h == Min(Holders(m, a))
<1>1. a \in Nat
  BY TopAssumption DEF Address
<1>2. Stored(m, Put(m, a, b), a, b) /\ (Held(m, a) = {} => Image(Put(m, a, b)) = With(Image(m), a, b))
  BY PutStores
<1>3. Put(m, a, b) \in Maps
  BY <1>2 DEF Stored
<1>4. Held(m, a) \subseteq Holders(m, a) /\ Holders(m, a) \subseteq DOMAIN m
  BY <1>1, HolderFacts
<1>5. ASSUME NEW r \in Maps, Apart(r) PROVE Consolidate(r) = r
  <2>1. ASSUME NEW i \in DOMAIN r, NEW k \in DOMAIN r, i < k PROVE End(r, i) # k
    <3>1. End(r, i) < k /\ End(r, i) \in Nat /\ k \in Nat
      BY <1>5, <2>1, MapFacts DEF Apart
    <3>2. QED
      BY <3>1
  <2>2. QED
    BY <2>1, NothingToMerge
<1>6. CASE Holders(m, a) = {}
  <2> DEFINE r == NewBlock(m, a, b)
  <2>1. /\ r \in Maps /\ a \notin DOMAIN m /\ End(r, a) = a + 1
        /\ \A j \in DOMAIN m : End(r, j) = End(m, j)
    BY <1>6, PutNew DEF Stored
  <2>2. /\ DOMAIN r = DOMAIN m \cup {a} /\ r[a] # <<>>
        /\ \A j \in DOMAIN m : r[j] = m[j]
    BY <2>1 DEF NewBlock
  <2> HIDE DEF r
  <2>3. \A j \in DOMAIN m : j \in Nat /\ End(m, j) \in Nat /\ End(m, j) < a
    BY <1>1, <1>6, MapFacts DEF Holders
  <2>4. ASSUME NEW j \in DOMAIN r, NEW k \in DOMAIN r, j < k PROVE End(r, j) < k
    <3>1. CASE j = a
      BY <1>1, <2>2, <2>4, <3>1, MapFacts
    <3>2. CASE j # a /\ k = a
      BY <2>1, <2>2, <2>3, <3>2
    <3>3. CASE j # a /\ k # a
      BY <2>1, <2>2, <2>4, <3>3 DEF Apart
    <3>4. QED
      BY <3>1, <3>2, <3>3
  <2>5. Apart(r)
    BY <2>2, <2>4 DEF Apart
  <2>6. Put(m, a, b) = Consolidate(r)
    BY <1>6 DEF Put, NewBlock, r
  <2>7. Put(m, a, b) = r
    BY <1>5, <2>1, <2>5, <2>6
  <2>8. QED
    BY <1>2, <1>3, <1>4, <1>6, <2>2, <2>5, <2>7
<1>7. CASE Holders(m, a) # {} /\ a = End(m, h)
  <2> DEFINE r == Longer(m, h, b)
  <2>1. /\ r \in Maps /\ DOMAIN r = DOMAIN m /\ h \in DOMAIN m /\ r[h] # <<>>
        /\ \A j \in DOMAIN m : j # h => r[j] = m[j]
    BY <1>7, PutAtEnd DEF Stored
  <2>2. Put(m, a, b) = Consolidate(r)
    BY <1>7 DEF Put, Longer
  <2> HIDE DEF r
  <2>3. h \in Holders(m, a)
    BY <1>1, <1>7, HolderFacts
  <2>4. a = End(m, h)
    BY <1>7
  <2> HIDE DEF h
  <2>5. ASSUME NEW j \in DOMAIN r, NEW k \in DOMAIN r, j < k PROVE End(r, j) < k
    <3>1. CASE j = h
      <4>1. a < k
        BY <2>1, <2>4, <2>5, <3>1 DEF Apart
      <4>2. k <= a /\ k \in Nat
        BY <2>1, MapFacts
      <4>3. QED
        BY <1>1, <4>1, <4>2
    <3>2. CASE j # h
      <4>1. End(r, j) = End(m, j)
        BY <2>1, <3>2 DEF End
      <4>2. QED
        BY <2>1, <2>5, <4>1 DEF Apart
    <3>3. QED
      BY <3>1, <3>2
  <2>6. Apart(r)
    BY <2>1, <2>5 DEF Apart
  <2>7. Put(m, a, b) = r
    BY <1>5, <2>1, <2>2, <2>6
  <2>8. Held(m, a) = {}
    <3>1. h \notin Held(m, a)
      BY <1>1, <2>4 DEF Held
    <3>2. QED
      BY <1>1, <1>4, <2>3, <3>1, OneHolder
  <2>9. QED
    BY <1>2, <1>3, <2>1, <2>6, <2>7, <2>8
<1>8. CASE Holders(m, a) # {} /\ a # End(m, h)
  <2> DEFINE r == Changed(m, h, a - h + 1, b)
  <2>1. /\ r \in Maps /\ DOMAIN r = DOMAIN m /\ h \in Held(m, a)
        /\ \A j \in DOMAIN m : Len(r[j]) = Len(m[j])
    BY <1>8, PutInside DEF Stored
  <2>2. Put(m, a, b) = r
    BY <1>8 DEF Put, Changed
  <2> HIDE DEF r, h
  <2>3. \A j \in DOMAIN m : End(r, j) = End(m, j) /\ r[j] # <<>>
    <3>1. ASSUME NEW j \in DOMAIN m PROVE r[j] # <<>>
      <4>1. m[j] # <<>> /\ m[j] \in Seq(Byte) /\ r[j] \in Seq(Byte)
        BY <2>1, MapFacts DEF Apart
      <4>2. Len(r[j]) # 0
        BY <2>1, <4>1
      <4>3. QED
        BY <4>2
    <3>2. QED
      BY <2>1, <3>1 DEF End
  <2>4. Apart(r)
    BY <2>1, <2>3 DEF Apart
  <2>5. Held(r, a) = {h}
    <3>1. Held(r, a) = Held(m, a)
      BY <2>1, <2>3 DEF Held
    <3>2. QED
      BY <1>1, <1>4, <2>1, <3>1, OneHolder
  <2>6. QED
    BY <1>2, <1>3, <2>1, <2>2, <2>4, <2>5 DEF Stored
<1>9. QED
  BY <1>6, <1>7, <1>8

(* The bytes of a chunk are put one after another.                         *)
Steps(m, a, data, put) ==
  put = [i \in 0 .. Len(data) |-> IF i = 0 THEN m ELSE Put(put[i - 1], a + i - 1, data[i])]

LEMMA PutAllIs ==
  ASSUME NEW m, NEW a, NEW data, Len(data) \in Nat
  PROVE  \E put : Steps(m, a, data, put) /\ PutAll(m, a, data) = put[Len(data)]
<1> DEFINE Turn(g, i) == IF i = 0 THEN m ELSE Put(g[i - 1], a + i - 1, data[i])
           T == {n \in Nat : \E g : g = [i \in 0 .. n |-> Turn(g, i)]}
<1>1. 0 \in T
  <2> DEFINE g == [i \in 0 .. 0 |-> m]
  <2>1. \A i \in 0 .. 0 : Turn(g, i) = m
    OBVIOUS
  <2>2. g = [i \in 0 .. 0 |-> Turn(g, i)]
    BY <2>1
  <2>3. QED
    BY <2>2
<1>2. ASSUME NEW n \in Nat, n \in T PROVE n + 1 \in T
  <2>1. PICK g : g = [i \in 0 .. n |-> Turn(g, i)]
    BY <1>2
  <2> DEFINE h == [i \in 0 .. n + 1 |-> IF i = n + 1 THEN Turn(g, n + 1) ELSE g[i]]
  <2>2. ASSUME NEW i \in 0 .. n + 1 PROVE h[i] = Turn(h, i)
    <3>1. CASE i = 0
      <4>1. i \in 0 .. n /\ i # n + 1
        BY <3>1
      <4>2. h[i] = g[i] /\ g[i] = m
        BY <2>1, <3>1, <4>1
      <4>3. QED
        BY <3>1, <4>2
    <3>2. CASE i # 0
      <4>1. i - 1 \in 0 .. n /\ i - 1 \in 0 .. n + 1 /\ i - 1 # n + 1
        BY <3>2
      <4>2. h[i - 1] = g[i - 1]
        BY <4>1
      <4>3. Turn(h, i) = Turn(g, i)
        BY <3>2, <4>2
      <4>4. h[i] = Turn(g, i)
        <5>1. CASE i = n + 1
          BY <5>1
        <5>2. CASE i # n + 1
          <6>1. i \in 0 .. n
            BY <5>2
          <6>2. g[i] = Turn(g, i)
            BY <2>1, <6>1
          <6>3. QED
            BY <5>2, <6>2
        <5>3. QED
          BY <5>1, <5>2
      <4>5. QED
        BY <4>3, <4>4
    <3>3. QED
      BY <3>1, <3>2
  <2>3. h = [i \in 0 .. n + 1 |-> Turn(h, i)]
    BY <2>2
  <2> HIDE DEF h, Turn
  <2>4. QED
    BY <2>3
<1>3. Len(data) \in T
  <2> HIDE DEF T
  <2>1. QED
    BY <1>1, <1>2, Induct
<1>4. \E put : put = [i \in 0 .. Len(data) |-> Turn(put, i)]
  BY <1>3
<1> DEFINE f == CHOOSE put : put = [i \in 0 .. Len(data) |-> Turn(put, i)]
<1>5. f = [i \in 0 .. Len(data) |-> Turn(f, i)]
  BY <1>4
<1>6. PutAll(m, a, data) = f[Len(data)]
  BY DEF PutAll
<1> HIDE DEF f
<1>7. QED
  BY <1>5, <1>6 DEF Steps

Over(f, a, data, n) ==
  [x \in DOMAIN f \cup a .. a + n - 1 |-> IF x \in a .. a + n - 1 THEN data[x - a + 1] ELSE f[x]]

LEMMA OverNext ==
  ASSUME NEW f, NEW a \in Nat, NEW data, NEW n \in Nat
  PROVE  With(Over(f, a, data, n), a + n, data[n + 1]) = Over(f, a, data, n + 1)
<1> DEFINE g == Over(f, a, data, n)
           h == Over(f, a, data, n + 1)
<1>1. a .. a + (n + 1) - 1 = (a .. a + n - 1) \cup {a + n}
  OBVIOUS
<1>2. DOMAIN g = DOMAIN f \cup a .. a + n - 1 /\ DOMAIN h = DOMAIN g \cup {a + n}
  BY <1>1 DEF Over
<1>3. ASSUME NEW x \in DOMAIN h
      PROVE  h[x] = IF x = a + n THEN data[n + 1] ELSE g[x]
  <2>1. CASE x = a + n
    <3>1. x - a + 1 = n + 1 /\ x \in a .. a + (n + 1) - 1
      BY <2>1
    <3>2. QED
      BY <2>1, <3>1 DEF Over
  <2>2. CASE x # a + n
    <3>1. x \in DOMAIN g /\ (x \in a .. a + (n + 1) - 1 <=> x \in a .. a + n - 1)
      BY <1>1, <1>2, <2>2
    <3>2. QED
      BY <2>2, <3>1 DEF Over
  <2>3. QED
    BY <2>1, <2>2
<1>4. h = [x \in DOMAIN h |-> h[x]]
  BY DEF Over
<1> HIDE DEF g, h
<1>5. With(g, a + n, data[n + 1]) = h
  BY <1>2, <1>3, <1>4 DEF With
<1>6. QED
  BY <1>5 DEF g, h

LEMMA ChunkInOrder ==
  ASSUME NEW m \in Maps, Apart(m), NEW a \in Address, NEW data \in Seq(Byte),
         a + Len(data) <= Top + 1, \A j \in DOMAIN m : j <= a
  PROVE  LET r == PutAll(m, a, data)
         IN  /\ r \in Maps /\ Apart(r) /\ DOMAIN r \subseteq DOMAIN m \cup {a}
             /\ Image(r) = Over(Image(m), a, data, Len(data))
<1>1. a \in Nat /\ Len(data) \in Nat
  BY TopAssumption DEF Address
<1>2. PICK put : Steps(m, a, data, put) /\ PutAll(m, a, data) = put[Len(data)]
  BY <1>1, PutAllIs
<1> DEFINE Good(n) == /\ put[n] \in Maps /\ Apart(put[n]) /\ DOMAIN put[n] \subseteq DOMAIN m \cup {a}
                      /\ Image(put[n]) = Over(Image(m), a, data, n)
           T == {n \in Nat : n <= Len(data) => Good(n)}
<1>3. 0 \in T
  <2>1. put[0] = m
    BY <1>1, <1>2 DEF Steps
  <2>2. a .. a + 0 - 1 = {}
    BY <1>1
  <2>3. Image(m) = [x \in DOMAIN Image(m) |-> Image(m)[x]]
    BY DEF Image
  <2>4. Image(m) = Over(Image(m), a, data, 0)
    BY <2>2, <2>3 DEF Over
  <2>5. QED
    BY <2>1, <2>4
<1>4. ASSUME NEW n \in Nat, n \in T PROVE n + 1 \in T
  <2> SUFFICES ASSUME n + 1 <= Len(data) PROVE Good(n + 1)
    OBVIOUS
  <2> DEFINE q == put[n]
  <2>1. Good(n)
    BY <1>1, <1>4
  <2>2. put[n + 1] = Put(q, a + n, data[n + 1])
    <3>1. n + 1 \in 0 .. Len(data) /\ n + 1 # 0 /\ (n + 1) - 1 = n /\ a + (n + 1) - 1 = a + n
      BY <1>1
    <3>2. QED
      BY <1>2, <3>1 DEF Steps
  <2>3. a + n \in Address /\ data[n + 1] \in Byte
    BY <1>1, TopAssumption DEF Address
  <2>4. \A j \in DOMAIN q : j <= a + n
    <3>1. \A j \in DOMAIN q : j <= a /\ j \in Nat
      BY <1>1, <2>1, MapFacts
    <3>2. QED
      BY <1>1, <3>1
  <2> HIDE DEF q
  <2>5. q \in Maps /\ Apart(q) /\ DOMAIN q \subseteq DOMAIN m \cup {a} /\ Image(q) = Over(Image(m), a, data, n)
    BY <2>1 DEF q
  <2> DEFINE r == Put(q, a + n, data[n + 1])
  <2>6. /\ r \in Maps /\ Apart(r) /\ Image(r) = With(Image(q), a + n, data[n + 1])
        /\ DOMAIN r \subseteq DOMAIN q \cup {a + n}
        /\ Holders(q, a + n) # {} => DOMAIN r = DOMAIN q
    BY <2>3, <2>4, <2>5, PutInOrder
  <2> HIDE DEF r
  <2>7. DOMAIN r \subseteq DOMAIN m \cup {a}
    <3>1. CASE n = 0
      <4>1. a + n = a
        BY <1>1, <3>1
      <4>2. QED
        BY <2>5, <2>6, <4>1
    <3>2. CASE n # 0
      <4>1. a + n - 1 \in a .. a + n - 1 /\ a + n - 1 \in Nat
        BY <1>1, <3>2
      <4>2. a + n - 1 \in DOMAIN Image(q)
        BY <2>5, <4>1 DEF Over
      <4>3. Held(q, a + n - 1) # {}
        BY <2>5, <4>2, Coverage DEF Image
      <4>4. PICK k \in DOMAIN q : k <= a + n - 1 /\ a + n - 1 < End(q, k)
        BY <4>3 DEF Held
      <4>5. k \in Nat /\ End(q, k) \in Nat
        BY <2>5, MapFacts
      <4>6. k <= a + n /\ a + n <= End(q, k)
        BY <1>1, <4>4, <4>5
      <4>7. Holders(q, a + n) # {}
        BY <4>6 DEF Holders
      <4>8. QED
        BY <2>5, <2>6, <4>7
    <3>3. QED
      BY <3>1, <3>2
  <2>8. Image(r) = Over(Image(m), a, data, n + 1)
    BY <1>1, <2>5, <2>6, OverNext
  <2>9. QED
    BY <2>2, <2>6, <2>7, <2>8 DEF r
<1>5. Len(data) \in T
  <2> HIDE DEF T
  <2>1. QED
    BY <1>1, <1>3, <1>4, Induct
<1>6. QED
  BY <1>1, <1>2, <1>5

LEMMA ReadIs ==
  ASSUME NEW m \in Maps, NEW k \in DOMAIN m
  PROVE  Read(m)[k] =
           PutAll(IF Below(m, k) = {} THEN <<>> ELSE Read(m)[Max(Below(m, k))], k, m[k])
<1> DEFINE Turn(g, i) == PutAll(IF Below(m, i) = {} THEN <<>> ELSE g[Max(Below(m, i))], i, m[i])
           T == {n \in Nat : \E g : g = [i \in Below(m, n) |-> Turn(g, i)]}
<1>1. 0 \in T
  <2>1. Below(m, 0) = {}
    BY MapFacts DEF Below
  <2> DEFINE g == [i \in {} |-> m]
  <2>2. g = [i \in Below(m, 0) |-> Turn(g, i)]
    BY <2>1
  <2>3. QED
    BY <2>2
<1>2. ASSUME NEW n \in Nat, n \in T PROVE n + 1 \in T
  <2>1. PICK g : g = [i \in Below(m, n) |-> Turn(g, i)]
    BY <1>2
  <2> DEFINE h == [i \in Below(m, n + 1) |-> IF i = n THEN Turn(g, n) ELSE g[i]]
  <2>2. \A i \in Below(m, n + 1) : i = n \/ i \in Below(m, n)
    BY MapFacts DEF Below
  <2>3. ASSUME NEW i \in Below(m, n + 1) PROVE h[i] = Turn(h, i)
    <3>1. CASE Below(m, i) = {}
      BY <2>1, <2>2, <2>3, <3>1
    <3>2. CASE Below(m, i) # {}
      <4> DEFINE before == Max(Below(m, i))
      <4>1. i \in Nat /\ i < n + 1
        BY MapFacts DEF Below
      <4>2. before \in DOMAIN m /\ before < i
        BY <3>2, <4>1, BelowFacts
      <4>3. before \in Nat
        BY <4>2, MapFacts
      <4> HIDE DEF before
      <4>4. before \in Below(m, n + 1) /\ before # n
        BY <4>1, <4>2, <4>3 DEF Below
      <4>5. h[before] = g[before]
        BY <4>4
      <4>6. Turn(h, i) = Turn(g, i)
        BY <4>5 DEF before
      <4>7. h[i] = Turn(g, i)
        BY <2>1, <2>2, <2>3
      <4>8. QED
        BY <4>6, <4>7
    <3>3. QED
      BY <3>1, <3>2
  <2>4. h = [i \in Below(m, n + 1) |-> Turn(h, i)]
    BY <2>3
  <2> HIDE DEF h, Turn
  <2>5. QED
    BY <2>4
<1>3. Top + 1 \in T
  <2> HIDE DEF T
  <2>1. QED
    BY <1>1, <1>2, TopAssumption, Induct
<1>4. Below(m, Top + 1) = DOMAIN m
  BY AllBelow
<1>5. \E g : g = [i \in DOMAIN m |-> Turn(g, i)]
  BY <1>3, <1>4
<1>6. Read(m) = [i \in DOMAIN m |-> Turn(Read(m), i)]
  BY <1>5 DEF Read
<1>7. QED
  BY <1>6

(* The blocks that begin below n                                           *)
Upto(m, n) == [j \in Below(m, n) |-> m[j]]

LEMMA UptoFacts ==
  ASSUME NEW m \in Maps, NEW n
  PROVE  /\ Upto(m, n) \in Maps /\ DOMAIN Upto(m, n) = Below(m, n)
         /\ \A j \in Below(m, n) : Upto(m, n)[j] = m[j] /\ End(Upto(m, n), j) = End(m, j)
<1> DEFINE u == Upto(m, n)
<1>1. /\ DOMAIN u = Below(m, n) /\ u = [j \in DOMAIN u |-> u[j]]
      /\ \A j \in Below(m, n) : u[j] = m[j]
  BY DEF Upto
<1> HIDE DEF u
<1>2. Below(m, n) \subseteq DOMAIN m
  BY DEF Below
<1>3. u \in Maps
  <2>1. \A j \in DOMAIN u : u[j] \in Seq(Byte)
    BY <1>1, <1>2, MapFacts
  <2>2. DOMAIN u \subseteq Address
    BY <1>1, <1>2, MapFacts
  <2>3. QED
    BY <1>1, <2>1, <2>2, IsMap
<1>4. QED
  BY <1>1, <1>3 DEF End, u

LEMMA NextBlock ==
  ASSUME NEW m \in Maps, NEW k \in DOMAIN m
  PROVE  Image(Upto(m, k + 1)) = Over(Image(Upto(m, k)), k, m[k], Len(m[k]))
<1> DEFINE u == Upto(m, k)
           v == Upto(m, k + 1)
           f == Over(Image(u), k, m[k], Len(m[k]))
           chunk == k .. k + Len(m[k]) - 1
<1>1. /\ k \in Nat /\ m[k] \in Seq(Byte) /\ Len(m[k]) \in Nat
      /\ End(m, k) = k + Len(m[k])
      /\ DOMAIN m \subseteq Nat
  BY MapFacts DEF End
<1>2. Below(m, k + 1) = Below(m, k) \cup {k}
  BY <1>1 DEF Below
<1>3. /\ u \in Maps /\ DOMAIN u = Below(m, k)
      /\ \A j \in Below(m, k) : u[j] = m[j] /\ End(u, j) = End(m, j)
  BY UptoFacts
<1>4. /\ v \in Maps /\ DOMAIN v = Below(m, k) \cup {k}
      /\ \A j \in Below(m, k) \cup {k} : v[j] = m[j] /\ End(v, j) = End(m, j)
  BY <1>2, UptoFacts
<1>5. \A j \in Below(m, k) : j < k /\ j \in Nat
  BY <1>1 DEF Below
<1> HIDE DEF u, v
<1>6. \A x : Held(u, x) \subseteq Below(m, k)
  BY <1>3 DEF Held
<1>7. \A x \in Nat : Held(v, x) = Held(u, x) \cup (IF x \in chunk THEN {k} ELSE {})
  BY <1>1, <1>3, <1>4, <1>5 DEF Held
<1>8. DOMAIN Image(u) = Covered(u) /\ Covered(u) = {x \in Nat : Held(u, x) # {}}
  BY <1>3, Coverage DEF Image
<1> DEFINE D == Covered(u) \cup chunk
<1>9. D \in SUBSET Nat
  BY <1>1, <1>8
<1>10. /\ f = [x \in D |-> f[x]]
       /\ \A x \in D : f[x] = IF x \in chunk THEN m[k][x - k + 1] ELSE Image(u)[x]
  BY <1>8 DEF Over
<1> HIDE DEF f
<1>11. \A x \in Nat : x \in D <=> Held(v, x) # {}
  BY <1>7, <1>8
<1>12. ASSUME NEW x \in Nat, NEW j \in DOMAIN v, Owner(v, x, j)
       PROVE  f[x] = v[j][x - j + 1]
  <2>1. CASE x \in chunk
    <3>1. k \in Held(v, x) /\ k <= j
      BY <1>7, <1>12, <2>1 DEF Owner
    <3>2. j = k
      BY <1>1, <1>4, <1>5, <3>1
    <3>3. QED
      BY <1>4, <1>10, <2>1, <3>2
  <2>2. CASE x \notin chunk
    <3>1. Owner(u, x, j)
      BY <1>7, <1>12, <2>2 DEF Owner
    <3>2. x \in Covered(u) /\ Image(u)[x] = u[j][x - j + 1] /\ j \in Below(m, k)
      BY <1>3, <1>6, <3>1, ImageAt DEF Owner
    <3>3. QED
      BY <1>3, <1>4, <1>10, <2>2, <3>2
  <2>3. QED
    BY <2>1, <2>2
<1> HIDE DEF D
<1>13. Image(v) = f
  BY <1>4, <1>9, <1>10, <1>11, <1>12, ImageIs
<1>14. QED
  BY <1>13 DEF f, u, v

LEMMA NoBlocks ==
  /\ <<>> \in Maps /\ DOMAIN <<>> = {} /\ Apart(<<>>) /\ Image(<<>>) = <<>>
  /\ \A m \in Maps : DOMAIN m = {} => Image(m) = <<>> /\ m = <<>>
<1>1. DOMAIN <<>> = {} /\ <<>> = [k \in {} |-> 0]
  OBVIOUS
<1>2. <<>> \in Maps
  BY <1>1, IsMap
<1>3. ASSUME NEW m \in Maps, DOMAIN m = {} PROVE Image(m) = <<>> /\ m = <<>>
  <2>1. Covered(m) = {}
    BY <1>3 DEF Covered
  <2>2. Image(m) = <<>>
    BY <1>1, <2>1 DEF Image
  <2>3. m = [k \in {} |-> m[k]]
    BY <1>3, MapFacts
  <2>4. QED
    BY <1>1, <2>2, <2>3
<1>4. QED
  BY <1>1, <1>2, <1>3 DEF Apart

(* What has been read from the chunks so far, the one of block k included  *)
Restored(m, k, r) ==
  /\ r \in Maps /\ Apart(r) /\ Image(r) = Image(Upto(m, k + 1))
  /\ \A j \in DOMAIN r : j <= k

LEMMA ReadInOrder ==
  ASSUME NEW m \in Maps, Covered(m) \subseteq Address, NEW k \in DOMAIN m
  PROVE  Restored(m, k, Read(m)[k])
<1> DEFINE T == {n \in Nat : \A i \in Below(m, n) : Restored(m, i, Read(m)[i])}
<1>1. 0 \in T
  BY MapFacts DEF Below
<1>2. ASSUME NEW n \in Nat, n \in T PROVE n + 1 \in T
  <2>1. \A i \in Below(m, n + 1) : i = n \/ i \in Below(m, n)
    BY MapFacts DEF Below
  <2>2. ASSUME n \in DOMAIN m PROVE Restored(m, n, Read(m)[n])
    <3> DEFINE q == IF Below(m, n) = {} THEN <<>> ELSE Read(m)[Max(Below(m, n))]
               r == Read(m)[n]
    <3>1. q \in Maps /\ Apart(q) /\ Image(q) = Image(Upto(m, n)) /\ \A j \in DOMAIN q : j < n
      <4>1. CASE Below(m, n) = {}
        <5>1. DOMAIN Upto(m, n) = {} /\ Upto(m, n) \in Maps
          BY <4>1, UptoFacts
        <5>2. QED
          BY <4>1, <5>1, NoBlocks
      <4>2. CASE Below(m, n) # {}
        <5> DEFINE before == Max(Below(m, n))
        <5>1. /\ before \in DOMAIN m /\ before < n
              /\ \A j \in DOMAIN m : j <= before \/ n <= j
          BY <4>2, BelowFacts
        <5>2. q = Read(m)[before]
          BY <4>2
        <5> HIDE DEF before, q
        <5>3. before \in Nat /\ before \in Below(m, n)
          BY <5>1, MapFacts DEF Below
        <5>4. Restored(m, before, q)
          BY <1>2, <5>2, <5>3
        <5>5. \A j \in DOMAIN m : j \in Nat
          BY MapFacts
        <5>6. \A j \in DOMAIN m : j < n <=> j < before + 1
          BY <5>1, <5>3, <5>5
        <5>7. Below(m, n) = Below(m, before + 1)
          BY <5>6 DEF Below
        <5>8. Upto(m, n) = Upto(m, before + 1)
          BY <5>7 DEF Upto
        <5>9. \A j \in DOMAIN q : j \in Nat /\ j <= before
          BY <5>4, MapFacts DEF Restored
        <5>10. \A j \in DOMAIN q : j < n
          BY <5>1, <5>3, <5>9
        <5>11. QED
          BY <5>4, <5>8, <5>10 DEF Restored
      <4>3. QED
        BY <4>1, <4>2
    <3>2. r = PutAll(q, n, m[n])
      BY <2>2, ReadIs
    <3> HIDE DEF q, r
    <3>3. n \in Address /\ m[n] \in Seq(Byte) /\ Len(m[n]) \in Nat /\ End(m, n) = n + Len(m[n])
      BY <2>2, MapFacts DEF End
    <3>4. n + Len(m[n]) <= Top + 1
      <4>1. CASE Len(m[n]) = 0
        BY <3>3, <4>1, TopAssumption DEF Address
      <4>2. CASE Len(m[n]) # 0
        <5>1. n + Len(m[n]) - 1 \in n .. End(m, n) - 1
          BY <3>3, <4>2
        <5>2. n + Len(m[n]) - 1 \in Covered(m)
          BY <2>2, <5>1 DEF Covered
        <5>3. n + Len(m[n]) - 1 <= Top
          BY <5>2 DEF Address
        <5>4. QED
          BY <3>3, <5>3, TopAssumption
      <4>3. QED
        BY <4>1, <4>2
    <3>5. \A j \in DOMAIN q : j <= n /\ j \in Nat
      BY <3>1, MapFacts
    <3>6. /\ r \in Maps /\ Apart(r) /\ DOMAIN r \subseteq DOMAIN q \cup {n}
          /\ Image(r) = Over(Image(q), n, m[n], Len(m[n]))
      BY <3>1, <3>2, <3>3, <3>4, <3>5, ChunkInOrder
    <3>7. Image(r) = Image(Upto(m, n + 1))
      BY <2>2, <3>1, <3>6, NextBlock
    <3>8. \A j \in DOMAIN r : j <= n
      BY <3>5, <3>6
    <3>9. QED
      BY <3>6, <3>7, <3>8 DEF Restored, r
  <2>3. ASSUME NEW i \in Below(m, n + 1) PROVE Restored(m, i, Read(m)[i])
    <3>1. CASE i = n
      BY <2>2, <3>1 DEF Below
    <3>2. CASE i # n
      BY <1>2, <2>1, <3>2
    <3>3. QED
      BY <3>1, <3>2
  <2>4. QED
    BY <2>3
<1>3. k + 1 \in T
  <2> HIDE DEF T
  <2>1. k + 1 \in Nat
    BY MapFacts
  <2>2. QED
    BY <1>1, <1>2, <2>1, Induct
<1>4. k \in Below(m, k + 1)
  BY MapFacts DEF Below
<1>5. QED
  BY <1>3, <1>4

LEMMA ReloadKeeps ==
  ASSUME NEW m \in Maps, Covered(m) \subseteq Address
  PROVE  Reloaded(m) \in Maps /\ Image(Reloaded(m)) = Image(m)
<1>1. CASE DOMAIN m = {}
  BY <1>1, NoBlocks DEF Reloaded
<1>2. CASE DOMAIN m # {}
  <2> DEFINE k == Last(m)
  <2>1. k \in DOMAIN m /\ k \in Nat /\ \A j \in DOMAIN m : j \in Nat /\ j <= k
    BY <1>2, LastFacts, MapFacts
  <2>2. Reloaded(m) = Read(m)[k]
    BY <1>2 DEF Reloaded
  <2> HIDE DEF k
  <2>3. Restored(m, k, Reloaded(m))
    BY <2>1, <2>2, ReadInOrder
  <2>4. Below(m, k + 1) = DOMAIN m
    <3>1. \A j \in DOMAIN m : j < k + 1
      BY <2>1
    <3>2. QED
      BY <3>1 DEF Below
  <2>5. Upto(m, k + 1) = m
    BY <2>4, MapFacts DEF Upto
  <2>6. QED
    BY <2>3, <2>5 DEF Restored
<1>3. QED
  BY <1>1, <1>2

-----------------------------------------------------------------------------
(* The program *)

(* The blocks are where the bytes were put, and nowhere else.              *)
IInv ==
  /\ mem \in Maps /\ puts \in [Address -> 0 .. Times]
  /\ Covered(mem) = {a \in Address : puts[a] > 0}

LEMMA InitHolds ==
  ASSUME Init
  PROVE  IInv
<1>1. mem \in Maps /\ puts \in [Address -> 0 .. Times] /\ \A a \in Address : puts[a] = 0
  BY NoBlocks, TimesAssumption DEF Init
<1>2. Covered(mem) = {}
  BY NoBlocks DEF Init, Covered
<1>3. QED
  BY <1>1, <1>2 DEF IInv

LEMMA PutByteStores ==
  ASSUME IInv, NEW a \in Address, PutByte(a)
  PROVE  /\ <<a, puts'[a]>> \in Byte /\ puts' \in [Address -> 0 .. Times]
         /\ puts'[a] = puts[a] + 1 /\ \A x \in Address : x # a => puts'[x] = puts[x]
         /\ Stored(mem, mem', a, <<a, puts'[a]>>)
         /\ Held(mem, a) = {} => Image(mem') = With(Image(mem), a, <<a, puts'[a]>>)
<1>1. puts[a] \in 0 .. Times /\ puts[a] < Times /\ puts' = [puts EXCEPT ![a] = puts[a] + 1]
  BY DEF PutByte, IInv
<1>2. /\ puts' \in [Address -> 0 .. Times] /\ puts'[a] = puts[a] + 1 /\ puts'[a] \in 1 .. Times
      /\ \A x \in Address : x # a => puts'[x] = puts[x]
  <2>1. puts[a] + 1 \in 1 .. Times /\ puts[a] + 1 \in 0 .. Times
    BY <1>1, TimesAssumption
  <2>2. QED
    BY <1>1, <2>1 DEF IInv
<1>3. <<a, puts'[a]>> \in Byte
  BY <1>2 DEF Byte
<1>4. mem \in Maps /\ mem' = Put(mem, a, <<a, puts'[a]>>)
  BY DEF PutByte, IInv
<1>5. QED
  BY <1>2, <1>3, <1>4, PutStores

LEMMA Holds ==
  ASSUME IInv, [Next]_vars
  PROVE  IInv'
<1>1. ASSUME NEW a \in Address, PutByte(a) PROVE IInv'
  <2>1. /\ puts' \in [Address -> 0 .. Times] /\ puts'[a] = puts[a] + 1
        /\ \A x \in Address : x # a => puts'[x] = puts[x]
        /\ Stored(mem, mem', a, <<a, puts'[a]>>)
    BY <1>1, PutByteStores
  <2>2. DOMAIN Image(mem) = Covered(mem) /\ DOMAIN Image(mem') = Covered(mem')
    BY DEF Image
  <2>3. Covered(mem') = Covered(mem) \cup {a}
    BY <2>1, <2>2 DEF Stored, With
  <2>4. puts[a] \in Nat /\ puts'[a] > 0
    BY <2>1, TimesAssumption DEF IInv
  <2>5. Covered(mem') = {x \in Address : puts'[x] > 0}
    BY <2>1, <2>3, <2>4 DEF IInv
  <2>6. QED
    BY <2>1, <2>5 DEF IInv, Stored
<1>2. CASE SaveAndLoad
  <2>1. mem' \in Maps /\ Image(mem') = Image(mem) /\ puts' = puts
    BY <1>2, ReloadKeeps DEF SaveAndLoad, IInv
  <2>2. DOMAIN Image(mem) = Covered(mem) /\ DOMAIN Image(mem') = Covered(mem')
    BY DEF Image
  <2>3. QED
    BY <2>1, <2>2 DEF IInv
<1>3. CASE UNCHANGED vars
  BY <1>3 DEF vars, IInv, Covered, End
<1>4. QED
  BY <1>1, <1>2, <1>3 DEF Next

(* The blocks, their image and the counts of the writes always agree.      *)
THEOREM Invariance == Spec => []IInv
<1>1. Init => IInv
  BY InitHolds
<1>2. IInv /\ [Next]_vars => IInv'
  BY Holds
<1>3. QED
  BY <1>1, <1>2, PTL DEF Spec

(* The bytes of a program are where they were put, and no other address is *)
(* covered by a block (TypeOK): for any number of addresses, merges, and   *)
(* programs that are saved and loaded (BinaryProgram::Impl::Put).          *)
THEOREM TypeCorrect == Spec => []TypeOK
<1>1. IInv => TypeOK
  BY MapFacts DEF IInv, TypeOK
<1>2. QED
  BY <1>1, Invariance, PTL

(* A program image is a map of which a step changes one byte at most       *)
(* (ImplementsMap): no merge of blocks, nor the saving and loading of the  *)
(* whole program, shifts or revives bytes, whatever overlaps have come     *)
(* about.                                                                  *)
THEOREM ImageIsMap == Spec => ImplementsMap
<1>1. Init => Map!Init
  BY NoBlocks DEF Init, Map!Init
<1>2. IInv /\ [Next]_vars => [Map!Next]_(Image(mem))
  <2> SUFFICES ASSUME IInv, [Next]_vars, Image(mem') # Image(mem)
               PROVE  Map!Next
    BY DEF Image, Covered, Held, End
  <2>1. ASSUME NEW a \in Address, PutByte(a) PROVE Map!Next
    <3>1. <<a, puts'[a]>> \in Byte /\ Image(mem') = With(Image(mem), a, <<a, puts'[a]>>)
      BY <2>1, PutByteStores DEF Stored
    <3>2. Map!Put(a, <<a, puts'[a]>>)
      BY <3>1 DEF Map!Put, With
    <3>3. QED
      BY <3>1, <3>2 DEF Map!Next
  <2>2. CASE SaveAndLoad
    BY <2>2, ReloadKeeps DEF SaveAndLoad, IInv
  <2>3. CASE UNCHANGED vars
    BY <2>3 DEF vars
  <2>4. QED
    BY <2>1, <2>2, <2>3 DEF Next
<1>3. QED
  BY <1>1, <1>2, Invariance, PTL DEF Spec, ImplementsMap, Map!Spec

(* Saving a program and loading it again changes no byte of its image      *)
(* (SaveBinaryCode, LoadBinaryProgram), whatever was put in what order.    *)
THEOREM SavingKeepsImage == Spec => [][SaveAndLoad => Image(mem') = Image(mem)]_vars
<1>1. IInv /\ [Next]_vars => (SaveAndLoad => Image(mem') = Image(mem))
  BY ReloadKeeps DEF SaveAndLoad, IInv
<1>2. QED
  BY <1>1, Invariance, PTL DEF Spec

(* A byte that is put reaches the simulator's memory unless another block  *)
(* holds its address (PutTakesEffect), and the first byte at an address    *)
(* always does.                                                            *)
THEOREM PutsTakeEffect == Spec => PutTakesEffect
<1> DEFINE Effect(a) ==
      PutByte(a) /\ (Cardinality(Held(mem', a)) = 1 \/ \A x \in Address : puts'[x] < 2)
        => Image(mem')[a] = <<a, puts'[a]>>
<1>1. IInv /\ [Next]_vars => \A a \in Address : Effect(a)
  <2> SUFFICES ASSUME IInv, NEW a \in Address, PutByte(a),
                      Cardinality(Held(mem', a)) = 1 \/ \A x \in Address : puts'[x] < 2
               PROVE  Image(mem')[a] = <<a, puts'[a]>>
    OBVIOUS
  <2> DEFINE b == <<a, puts'[a]>>
  <2>1. /\ puts'[a] = puts[a] + 1 /\ Stored(mem, mem', a, b)
        /\ Held(mem, a) = {} => Image(mem') = With(Image(mem), a, b)
    BY PutByteStores
  <2> HIDE DEF b
  <2>2. Image(mem') = With(Image(mem), a, b)
    <3>1. CASE Cardinality(Held(mem', a)) = 1
      <4>1. Held(mem', a) \in SUBSET (0 .. Top)
        BY <2>1, MapFacts DEF Stored, Held, Address
      <4>2. IsFiniteSet(0 .. Top)
        BY TopAssumption, FS_Interval
      <4>3. IsFiniteSet(Held(mem', a))
        BY <4>1, <4>2, FS_Subset
      <4>4. \E h : Held(mem', a) = {h}
        BY <3>1, <4>3, FS_Singleton
      <4>5. QED
        BY <2>1, <4>4 DEF Stored
    <3>2. CASE \A x \in Address : puts'[x] < 2
      <4>1. puts[a] \in 0 .. Times /\ puts[a] + 1 < 2
        BY <2>1, <3>2 DEF IInv
      <4>2. ~(puts[a] > 0)
        BY <4>1
      <4>3. a \notin Covered(mem) /\ a \in Nat /\ mem \in Maps
        BY <4>2, TopAssumption DEF IInv, Address
      <4>4. Held(mem, a) = {}
        BY <4>3, Coverage
      <4>5. QED
        BY <2>1, <4>4
    <3>3. QED
      BY <3>1, <3>2
  <2>3. QED
    BY <2>2 DEF With, b
<1>2. IInv /\ [Next]_vars => [\A a \in Address : Effect(a)]_vars
  BY <1>1
<1>3. QED
  BY <1>2, Invariance, PTL DEF Spec, PutTakesEffect
=============================================================================
