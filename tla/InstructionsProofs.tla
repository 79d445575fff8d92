------------------------- MODULE InstructionsProofs -------------------------
(***************************************************************************)
(* Proofs about module Instructions, for long words of any width: the      *)
(* carry formulas of Context::SetAllFlags, read off three sign bits, are   *)
(* the exact carry and borrow of chains of any length; comparisons branch  *)
(* as the numbers compare, shifts compose, divisions are exact.            *)
(***************************************************************************)
EXTENDS Instructions, FiniteSetTheorems, WellFoundedInduction, TLAPS

Half == Weight[Width - 1]

LEMMA LongIsTwoHalves == Half \in Nat \ {0} /\ Long = 2 * Half
<1>1. Width - 1 \in 0 .. Width - 1 /\ Width - 1 \in 0 .. Width /\ (Width - 1) + 1 = Width
  BY WidthAssumption
<1>2. Weight[(Width - 1) + 1] = 2 * Weight[Width - 1]
  BY <1>1, WeightAssumption
<1>3. QED
  BY <1>1, <1>2, WeightAssumption DEF Half, Long

LEMMA SizesPositive == Long \in Nat \ {0} /\ Word \in Nat \ {0} /\ Byte \in Nat \ {0}
<1>1. Width \in 0 .. Width /\ Width \div 2 \in 0 .. Width /\ Width \div 4 \in 0 .. Width
  BY WidthAssumption
<1>2. QED
  BY <1>1, WeightAssumption DEF Long, Word, Byte

(* What % does to a sum or a difference of two long words                  *)
LEMMA Small == ASSUME NEW n \in Nat \ {0}, NEW v \in 0 .. n - 1 PROVE v % n = v
  OBVIOUS

LEMMA Large == ASSUME NEW n \in Nat \ {0}, NEW v \in n .. 2 * n - 1 PROVE v % n = v - n
  OBVIOUS

LEMMA Below == ASSUME NEW n \in Nat \ {0}, NEW v \in -n .. -1 PROVE v % n = v + n
  OBVIOUS

LEMMA Bounded == ASSUME NEW n \in Nat \ {0}, NEW v \in Int PROVE v % n \in 0 .. n - 1
  OBVIOUS

LEMMA SignOfLong ==
  ASSUME NEW v \in Value
  PROVE  /\ Sign(v, Long) <=> v >= Half
         /\ Signed(v, Long) = IF v >= Half THEN v - Long ELSE v
<1>1. v % Long = v
  BY Small, SizesPositive DEF Value
<1>2. Long \div 2 = Half
  BY LongIsTwoHalves
<1>3. QED
  BY <1>1, <1>2 DEF Sign, Signed

-----------------------------------------------------------------------------
(* SetAllFlags and the exact sum or difference *)

LEMMA FlagsTyped ==
  ASSUME NEW cc \in Codes, NEW result, NEW arg1, NEW arg2, NEW size,
         NEW conditional \in BOOLEAN, NEW op
  PROVE  SetAllFlags(cc, result, arg1, arg2, size, conditional, op) \in Codes
<1> DEFINE r == Sign(result, size)
           a == Sign(arg1, size)
           b == Sign(arg2, size)
<1>1. cc.X \in BOOLEAN /\ cc.Z \in BOOLEAN
  BY DEF Codes
<1>2. r \in BOOLEAN /\ a \in BOOLEAN /\ b \in BOOLEAN
  BY DEF Sign
<1>3. QED
  <2> HIDE DEF r, a, b
  <2> QED BY <1>1, <1>2, Zenon DEF SetAllFlags, Codes, r, a, b

LEMMA ClrTyped ==
  ASSUME NEW cc \in Codes, NEW result, NEW size
  PROVE  /\ SetNZ_ClrCV(cc, result, size) \in Codes
         /\ SetNZ_ClrCV(cc, result, size).X = cc.X
<1>1. Sign(result, size) \in BOOLEAN /\ (result = 0) \in BOOLEAN
  BY DEF Sign
<1>2. QED
  BY <1>1 DEF SetNZ_ClrCV, Codes

Exact(op, src, dst, c) == IF op = "add" THEN dst + src + Num(c) ELSE dst - src - Num(c)

LEMMA ExactResult ==
  ASSUME NEW op \in {"add", "sub"}, NEW src \in Value, NEW dst \in Value, NEW c \in BOOLEAN
  PROVE  LET e == Exact(op, src, dst, c) IN
         /\ e \in Int /\ e % Long \in Value
         /\ e % Long = IF e \in Value THEN e ELSE IF op = "add" THEN e - Long ELSE e + Long
<1> DEFINE e == Exact(op, src, dst, c)
<1>1. /\ src \in 0 .. Long - 1 /\ dst \in 0 .. Long - 1 /\ Num(c) \in {0, 1} /\ Long \in Nat \ {0}
  BY SizesPositive DEF Value, Num
<1>2. CASE op = "add"
  <2>1. e \in 0 .. 2 * Long - 1
    BY <1>1, <1>2 DEF Exact
  <2>2. e \in Value => e % Long = e
    BY <1>1, Small DEF Value
  <2>3. e \notin Value => e % Long = e - Long
    BY <1>1, <2>1, Large DEF Value
  <2>4. e \in Int /\ e % Long \in Value
    <3>1. e \in Int
      BY <1>1, <2>1
    <3> HIDE DEF e
    <3> QED BY <1>1, <3>1, Bounded DEF Value
  <2>5. QED
    BY <1>2, <2>2, <2>3, <2>4
<1>3. CASE op = "sub"
  <2>1. e \in -Long .. Long - 1
    BY <1>1, <1>3 DEF Exact
  <2>2. e \in Value => e % Long = e
    BY <1>1, Small DEF Value
  <2>3. e \notin Value => e % Long = e + Long
    BY <1>1, <2>1, Below DEF Value
  <2>4. e \in Int /\ e % Long \in Value
    <3>1. e \in Int
      BY <1>1, <2>1
    <3> HIDE DEF e
    <3> QED BY <1>1, <3>1, Bounded DEF Value
  <2>5. QED
    BY <1>3, <2>2, <2>3, <2>4
<1>4. QED
  BY <1>2, <1>3

(* What condition codes f say of the exact sum or difference               *)
Agrees(f, op, src, dst, c, z) ==
  LET x == Exact(op, src, dst, c)
      v == Exact(op, Signed(src, Long), Signed(dst, Long), c)
  IN  /\ f.C = (x \notin Value) /\ f.X = (x \notin Value)
      /\ (f.N # f.V) = (v < 0)
      /\ f.Z = (x % Long = 0 /\ z)

(* The three sign bits tell the carry and the sign of the exact result.    *)
LEMMA FlagsAreExact ==
  ASSUME NEW cc \in Codes, NEW op \in {"add", "sub"}, NEW src \in Value, NEW dst \in Value,
         NEW c \in BOOLEAN, NEW conditional \in BOOLEAN
  PROVE  Agrees(SetAllFlags(cc, Exact(op, src, dst, c) % Long, src, dst, Long, conditional, op),
                op, src, dst, c, conditional => cc.Z)
<1> DEFINE result == Exact(op, src, dst, c) % Long
           f == SetAllFlags(cc, result, src, dst, Long, conditional, op)
           x == Exact(op, src, dst, c)
           v == Exact(op, Signed(src, Long), Signed(dst, Long), c)
           r == result >= Half
           a == src >= Half
           b == dst >= Half
<1>1. /\ result \in Value /\ x \in Int
      /\ result = IF x \in Value THEN x ELSE IF op = "add" THEN x - Long ELSE x + Long
  BY ExactResult
<1>2. /\ Sign(result, Long) = r /\ Sign(src, Long) = a /\ Sign(dst, Long) = b
      /\ Signed(src, Long) = (IF a THEN src - Long ELSE src)
      /\ Signed(dst, Long) = (IF b THEN dst - Long ELSE dst)
  BY <1>1, SignOfLong DEF Sign
<1>3. /\ src \in 0 .. Long - 1 /\ dst \in 0 .. Long - 1 /\ Num(c) \in {0, 1}
      /\ Half \in Nat \ {0} /\ Long = 2 * Half
  BY LongIsTwoHalves DEF Value, Num
<1>4. CASE op = "add"
  <2>1. f = [Z |-> result = 0 /\ (conditional => cc.Z), N |-> r, V |-> a = b /\ r # a,
             C |-> (a /\ b) \/ (~r /\ a # b), X |-> (a /\ b) \/ (~r /\ a # b)]
    BY <1>2, <1>4 DEF SetAllFlags
  <2>2. ((a /\ b) \/ (~r /\ a # b)) = (x \notin Value)
    BY <1>1, <1>3, <1>4 DEF Exact, Value
  <2>3. (r # (a = b /\ r # a)) = (v < 0)
    BY <1>1, <1>2, <1>3, <1>4 DEF Exact, Value
  <2>4. QED
    BY <2>1, <2>2, <2>3 DEF Agrees
<1>5. CASE op = "sub"
  <2>1. f = [Z |-> result = 0 /\ (conditional => cc.Z), N |-> r, V |-> a # b /\ r # b,
             C |-> (a /\ ~b) \/ (r /\ a = b), X |-> (a /\ ~b) \/ (r /\ a = b)]
    BY <1>2, <1>5 DEF SetAllFlags
  <2>2. ((a /\ ~b) \/ (r /\ a = b)) = (x \notin Value)
    BY <1>1, <1>3, <1>5 DEF Exact, Value
  <2>3. (r # (a # b /\ r # b)) = (v < 0)
    BY <1>1, <1>2, <1>3, <1>5 DEF Exact, Value
  <2>4. QED
    BY <2>1, <2>2, <2>3 DEF Agrees
<1>6. QED
  BY <1>4, <1>5

-----------------------------------------------------------------------------
(* The inductive invariant.  What is added: Z is the zero of the whole     *)
(* chain as long as no other instruction has set it, which ADDX and SUBX,  *)
(* that only ever clear Z, rely on.                                        *)
Chained ==
  /\ sum.whole => ccr.Z = sum.zero
  /\ sum.last => sum.op \in {"add", "sub"}

IInv == TypeOK /\ ExtendIsCarry /\ ConditionsOfSum /\ Chained

LEMMA IsCode ==
  ASSUME NEW cc \in Codes
  PROVE  /\ Is(cc)["CS"] = cc.C /\ Is(cc)["EQ"] = cc.Z /\ Is(cc)["NE"] = ~cc.Z
         /\ Is(cc)["LT"] = (cc.N # cc.V) /\ Is(cc)["GE"] = (cc.N = cc.V)
         /\ Is(cc)["HI"] = (~cc.Z /\ ~cc.C) /\ Is(cc)["LS"] = (cc.Z \/ cc.C)
         /\ Is(cc)["GT"] = (~cc.Z /\ cc.N = cc.V) /\ Is(cc)["LE"] = (cc.Z \/ cc.N # cc.V)
  BY DEF Is, Conditions

LEMMA LinkTyped ==
  ASSUME NEW op \in {"add", "sub"}, NEW src, NEW dst, NEW carry \in BOOLEAN,
         NEW zero \in BOOLEAN, NEW whole \in BOOLEAN
  PROVE  Link(op, src, dst, carry, zero, whole) \in Sums
  BY DEF Link, Sums

(* One link of a chain: the codes say what the history says.               *)
LEMMA LinkAgrees ==
  ASSUME IInv, NEW op \in {"add", "sub"}, NEW src \in Value, NEW dst \in Value,
         NEW carry \in BOOLEAN, NEW zero \in BOOLEAN, NEW whole \in BOOLEAN,
         NEW conditional \in BOOLEAN,
         whole => zero = (conditional => ccr.Z),
         ccr' = SetAllFlags(ccr, Exact(op, src, dst, carry) % Long, src, dst, Long,
                            conditional, op),
         sum' = Link(op, src, dst, carry, zero, whole)
  PROVE  ccr' \in Codes /\ sum' \in Sums /\ ExtendIsCarry' /\ ConditionsOfSum' /\ Chained'
<1> DEFINE x == Exact(op, src, dst, carry)
           v == Exact(op, Signed(src, Long), Signed(dst, Long), carry)
<1>1. ccr \in Codes
  BY DEF IInv, TypeOK
<1>2. ccr' \in Codes /\ sum' \in Sums
  BY <1>1, FlagsTyped, LinkTyped
<1>3. /\ ccr'.C = (x \notin Value) /\ ccr'.X = (x \notin Value)
      /\ (ccr'.N # ccr'.V) = (v < 0)
      /\ ccr'.Z = (x % Long = 0 /\ (conditional => ccr.Z))
  <2>1. Agrees(ccr', op, src, dst, carry, conditional => ccr.Z)
    BY <1>1, FlagsAreExact
  <2>2. QED
    BY <2>1 DEF Agrees
<1>4. /\ sum'.op = op /\ sum'.carry = (x \notin Value) /\ sum'.less = (v < 0)
      /\ sum'.zero = (whole /\ zero /\ x % Long = 0) /\ sum'.whole = whole
      /\ sum'.last = TRUE
  BY DEF Link, Exact
<1> HIDE DEF x, v
<1>5. sum'.whole => ccr'.Z = sum'.zero
  BY <1>1, <1>3, <1>4
<1>6. ExtendIsCarry' /\ Chained'
  BY <1>3, <1>4, <1>5 DEF ExtendIsCarry, Chained
<1>7. /\ Is(ccr')["CS"] = ccr'.C /\ Is(ccr')["EQ"] = ccr'.Z /\ Is(ccr')["NE"] = ~ccr'.Z
      /\ Is(ccr')["LT"] = (ccr'.N # ccr'.V) /\ Is(ccr')["GE"] = (ccr'.N = ccr'.V)
      /\ Is(ccr')["HI"] = (~ccr'.Z /\ ~ccr'.C) /\ Is(ccr')["LS"] = (ccr'.Z \/ ccr'.C)
      /\ Is(ccr')["GT"] = (~ccr'.Z /\ ccr'.N = ccr'.V)
      /\ Is(ccr')["LE"] = (ccr'.Z \/ ccr'.N # ccr'.V)
  BY <1>2, IsCode
<1>8. /\ ccr'.C \in BOOLEAN /\ ccr'.Z \in BOOLEAN /\ ccr'.N \in BOOLEAN /\ ccr'.V \in BOOLEAN
      /\ sum'.less \in BOOLEAN /\ sum'.zero \in BOOLEAN /\ sum'.carry \in BOOLEAN
  BY <1>2 DEF Codes, Sums
<1>9. ConditionsOfSum'
  <2>1. /\ Is(ccr')["CS"] = sum'.carry /\ Is(ccr')["LT"] = sum'.less
        /\ Is(ccr')["GE"] = ~sum'.less
    BY <1>3, <1>4, <1>7, <1>8
  <2>2. ASSUME sum'.whole
        PROVE  Is(ccr')["EQ"] = sum'.zero /\ Is(ccr')["NE"] = ~sum'.zero
    BY <1>5, <1>7, <1>8, <2>2
  <2>3. ASSUME sum'.whole
        PROVE  /\ Is(ccr')["HI"] = (~sum'.carry /\ ~sum'.zero)
               /\ Is(ccr')["LS"] = (sum'.carry \/ sum'.zero)
               /\ Is(ccr')["GT"] = (~sum'.less /\ ~sum'.zero)
               /\ Is(ccr')["LE"] = (sum'.less \/ sum'.zero)
    BY <1>3, <1>4, <1>5, <1>7, <1>8, <2>3
  <2>4. QED
    BY <2>1, <2>2, <2>3 DEF ConditionsOfSum
<1>10. QED
  BY <1>2, <1>6, <1>9

(* Any other instruction that keeps X                                      *)
LEMMA AsideAgrees ==
  ASSUME IInv, ccr' \in Codes, ccr'.X = ccr.X, sum' = Aside
  PROVE  sum' \in Sums /\ ExtendIsCarry' /\ ConditionsOfSum' /\ Chained'
<1>1. sum \in Sums
  BY DEF IInv, TypeOK
<1>2. /\ sum'.op = sum.op /\ sum'.carry = sum.carry
      /\ sum'.last = FALSE /\ sum'.whole = FALSE /\ sum' \in Sums
  BY <1>1 DEF Aside, Sums
<1>3. QED
  BY <1>2 DEF IInv, ExtendIsCarry, ConditionsOfSum, Chained

LEMMA ApartAgrees ==
  ASSUME sum' = Apart
  PROVE  sum' \in Sums /\ ExtendIsCarry' /\ ConditionsOfSum' /\ Chained'
  BY DEF Apart, Sums, ExtendIsCarry, ConditionsOfSum, Chained

LEMMA StoreTyped ==
  ASSUME TypeOK, NEW r \in Reg, NEW v \in Value, Store(r, v)
  PROVE  d' \in [Reg -> Value]
  BY DEF TypeOK, Store

-----------------------------------------------------------------------------
(* What the instructions store is a long word. *)

LEMMA Remain == ASSUME NEW v \in Int PROVE v % Long \in Value
  BY Bounded, SizesPositive DEF Value

LEMMA TwoParts ==
  ASSUME NEW w \in Nat \ {0}, NEW x \in 0 .. w - 1, NEW y \in 0 .. w - 1
  PROVE  x * w + y \in 0 .. w * w - 1
<1>1. x + 1 <= w /\ x * w \in Nat
  OBVIOUS
<1>2. (x + 1) * w <= w * w
  BY <1>1
<1>3. (x + 1) * w = x * w + w
  OBVIOUS
<1>4. w * w \in Nat
  OBVIOUS
<1>5. QED
  BY <1>1, <1>2, <1>3, <1>4

LEMMA SignedTyped ==
  ASSUME NEW v \in Nat, NEW size \in Nat \ {0}
  PROVE  Signed(v, size) \in Int /\ v % size \in Nat /\ (v % size # 0 => Signed(v, size) # 0)
<1>1. v % size \in 0 .. size - 1
  BY Bounded
<1>2. QED
  BY <1>1 DEF Signed

LEMMA QuotientTyped ==
  ASSUME NEW a \in Int, NEW b \in Int, b # 0
  PROVE  Quotient(a, b) \in Int /\ Remainder(a, b) \in Int
<1>1. Abs(a) \in Nat /\ Abs(b) \in Nat \ {0}
  BY DEF Abs
<1>2. Abs(a) \div Abs(b) \in Int
  BY <1>1
<1>3. Quotient(a, b) \in Int
  BY <1>2 DEF Quotient
<1>4. QED
  BY <1>3 DEF Remainder

LEMMA WeightTyped == \A i \in 0 .. Width : Weight[i] \in Nat \ {0}
  BY WeightAssumption

LEMMA ShiftedTyped ==
  ASSUME NEW v \in Value, NEW n \in 0 .. 2 * Width - 1, NEW left \in BOOLEAN, NEW logical \in BOOLEAN
  PROVE  /\ Shifted(v, n, left, logical).value \in Value
         /\ Shifted(v, n, left, logical).last \in BOOLEAN
<1>1. Width \in Nat \ {0} /\ n \in Nat /\ n % Width \in 0 .. Width
  BY WidthAssumption, Bounded
<1>2. v \in Nat /\ v < Long /\ Long \in Nat \ {0}
  BY SizesPositive DEF Value
<1>3. Weight[n % Width] \in Nat \ {0}
  BY <1>1, WeightTyped
<1>4. (v * Weight[n % Width]) % Long \in Value
  BY <1>2, <1>3, Remain
<1>5. 0 \in Value
  BY <1>2 DEF Value
<1>6. ASSUME n < Width
      PROVE  v \div Weight[n] \in Value /\ (Signed(v, Long) \div Weight[n]) % Long \in Value
  <2>1. Weight[n] \in Nat \ {0}
    BY <1>1, <1>6, WeightTyped
  <2>2. v \div Weight[n] \in 0 .. v
    BY <2>1, <1>2
  <2>3. Signed(v, Long) \div Weight[n] \in Int
    BY <2>1, <1>2, SignedTyped
  <2>4. QED
    <3>1. (Signed(v, Long) \div Weight[n]) % Long \in Value
      BY <2>3, Remain
    <3>2. v \div Weight[n] \in Value
      BY <1>2, <2>2 DEF Value
    <3>3. QED
      BY <3>1, <3>2
<1>7. QED
  BY <1>1, <1>4, <1>5, <1>6 DEF Shifted, Bit

LEMMA SizeOrder == Byte <= Long /\ Word <= Long
<1>1. Byte \in Nat /\ Byte >= 1 /\ Word \in Nat /\ Word >= 1
  BY SizesPositive
<1>2. Word = Byte * Byte /\ Byte * Byte >= Byte
  BY <1>1, SizeAssumption
<1>3. Long = Word * Word /\ Word * Word >= Word
  BY <1>1, SizeAssumption
<1>4. QED
  BY <1>1, <1>2, <1>3, SizesPositive

(* The lower bytes of a register replaced                                  *)
LEMMA PartTyped ==
  ASSUME NEW v \in Value, NEW size \in Sizes, NEW part \in 0 .. size - 1
  PROVE  (v \div size) * size + part \in Value
<1> DEFINE q == v \div size
<1>1. size \in Nat \ {0} /\ v \in Nat /\ v < Long /\ Long \in Nat
  BY SizesPositive DEF Value, Sizes
<1>2. PICK K \in Nat : Long = K * size
  <2>1. /\ 1 \in Nat /\ Word \in Nat /\ Byte * Byte * Byte \in Nat
        /\ Long = 1 * Long /\ Long = Word * Word /\ Long = (Byte * Byte * Byte) * Byte
    BY SizesPositive, SizeAssumption
  <2>2. QED
    BY <2>1 DEF Sizes
<1>3. q \in Nat /\ q * size <= v
  BY <1>1
<1> HIDE DEF q
<1>4. q + 1 <= K
  <2>1. q * size < K * size
    BY <1>1, <1>2, <1>3
  <2>2. SUFFICES ASSUME K <= q PROVE FALSE
    BY <1>2, <1>3
  <2>3. K * size <= q * size
    BY <1>1, <1>2, <1>3, <2>2
  <2>4. QED
    BY <1>1, <1>2, <1>3, <2>1, <2>3
<1>5. (q + 1) * size <= Long
  BY <1>1, <1>2, <1>3, <1>4
<1>6. (q + 1) * size = q * size + size
  BY <1>1, <1>3
<1>7. q * size \in Nat
  BY <1>1, <1>3
<1>8. q * size + part \in Value
  BY <1>1, <1>5, <1>6, <1>7 DEF Value
<1>9. QED
  BY <1>8 DEF q

LEMMA SccTyped ==
  ASSUME NEW v \in Value, NEW set \in BOOLEAN
  PROVE  (v \div Byte) * Byte + (IF set THEN Byte - 1 ELSE 0) \in Value
<1>1. (IF set THEN Byte - 1 ELSE 0) \in 0 .. Byte - 1
  BY SizesPositive
<1>2. QED
  BY <1>1, PartTyped DEF Sizes

LEMMA DivWordTyped ==
  ASSUME NEW dst \in Value, NEW src \in 1 .. Word - 1, NEW signed \in BOOLEAN
  PROVE  DivWord(dst, src, signed) \in Value
<1> DEFINE a == Number(dst, Long, signed)
           b == Number(src, Word, signed)
           m == Remainder(a, b)
           q == Quotient(a, b)
<1>1. Long \in Nat \ {0} /\ Word \in Nat \ {0} /\ Long = Word * Word
  BY SizesPositive, SizeAssumption
<1>2. a \in Int
  BY <1>1, SignedTyped DEF Number, Value
<1>3. src % Word # 0 /\ src \in Nat
  BY <1>1, Small
<1>4. b \in Int /\ b # 0
  BY <1>1, <1>3, SignedTyped DEF Number
<1> HIDE DEF a, b
<1>5. m \in Int /\ q \in Int
  BY <1>2, <1>4, QuotientTyped
<1> HIDE DEF m, q
<1>6. m % Word \in 0 .. Word - 1 /\ q % Word \in 0 .. Word - 1
  BY <1>1, <1>5, Bounded
<1>7. (m % Word) * Word + (q % Word) \in 0 .. Word * Word - 1
  BY <1>1, <1>6, TwoParts
<1>8. DivWord(dst, src, signed) = (m % Word) * Word + (q % Word)
  BY DEF DivWord, a, b, m, q
<1>9. QED
  BY <1>1, <1>7, <1>8 DEF Value

LEMMA DivLongTyped ==
  ASSUME NEW dst \in Value, NEW src \in Value, src # 0
  PROVE  dst \div src \in Value /\ dst % src \in Value
<1>1. Long \in Nat \ {0} /\ dst \in Nat /\ src \in Nat \ {0}
  BY SizesPositive DEF Value
<1>2. dst \div src \in Nat /\ dst % src \in 0 .. src - 1
  BY <1>1
<1>3. dst = src * (dst \div src) + (dst % src)
  BY <1>1
<1>4. dst \div src <= src * (dst \div src)
  BY <1>1, <1>2
<1>5. dst \div src <= dst
  BY <1>1, <1>2, <1>3, <1>4
<1>6. QED
  BY <1>1, <1>2, <1>5 DEF Value

-----------------------------------------------------------------------------
(* The steps *)

LEMMA InitHolds == Init => IInv
<1> SUFFICES ASSUME Init PROVE IInv
  OBVIOUS
<1>1. 0 \in Value
  BY SizesPositive DEF Value
<1>2. d \in [Reg -> Value]
  BY <1>1 DEF Init
<1>3. ccr \in Codes /\ up \in BOOLEAN /\ sum \in Sums
  BY DEF Init, Codes, Sums, Apart
<1>4. QED
  BY <1>2, <1>3 DEF Init, Apart, IInv, TypeOK, ExtendIsCarry, ConditionsOfSum, Chained

(* A step that stores a long word and either belongs to a chain, leaves it *)
(* aside or ends it                                                        *)
LEMMA StepHolds ==
  ASSUME d' \in [Reg -> Value], ccr' \in Codes, up' \in BOOLEAN,
         sum' \in Sums /\ ExtendIsCarry' /\ ConditionsOfSum' /\ Chained'
  PROVE  IInv'
  BY DEF IInv, TypeOK

LEMMA UnchangedHolds ==
  ASSUME IInv, d' \in [Reg -> Value], up' \in BOOLEAN, UNCHANGED <<ccr, sum>>
  PROVE  IInv'
  BY DEF IInv, TypeOK, ExtendIsCarry, ConditionsOfSum, Chained

(* ADD, SUB, ADDX and SUBX                                                 *)
LEMMA SumsHold ==
  ASSUME IInv, NEW r \in Reg, NEW src \in Value,
         Add(r, src) \/ Sub(r, src) \/ AddX(r, src) \/ SubX(r, src)
  PROVE  IInv'
<1>1. /\ TypeOK /\ d[r] \in Value /\ ccr \in Codes /\ sum \in Sums
      /\ ccr.X \in BOOLEAN /\ ccr.Z \in BOOLEAN
  BY DEF IInv, TypeOK, Codes
<1>2. ASSUME NEW op \in {"add", "sub"}, NEW carry \in BOOLEAN
      PROVE  Exact(op, src, d[r], carry) % Long \in Value
  BY <1>1, <1>2, ExactResult
<1>3. up' \in BOOLEAN
  BY DEF Add, Sub, AddX, SubX, Steps
<1>4. ASSUME NEW op \in {"add", "sub"},
             Store(r, Exact(op, src, d[r], FALSE) % Long),
             ccr' = SetAllFlags(ccr, Exact(op, src, d[r], FALSE) % Long, src, d[r], Long, FALSE, op),
             sum' = Begun(op, src, d[r])
      PROVE  IInv'
  <2>1. sum' = Link(op, src, d[r], FALSE, TRUE, TRUE)
    BY <1>4 DEF Begun
  <2>2. ccr' \in Codes /\ sum' \in Sums /\ ExtendIsCarry' /\ ConditionsOfSum' /\ Chained'
    BY <1>1, <1>4, <2>1, LinkAgrees
  <2>3. d' \in [Reg -> Value]
    BY <1>1, <1>2, <1>4, StoreTyped
  <2>4. QED
    BY <1>3, <2>2, <2>3, StepHolds
<1>5. ASSUME NEW op \in {"add", "sub"},
             Store(r, Exact(op, src, d[r], ccr.X) % Long),
             ccr' = SetAllFlags(ccr, Exact(op, src, d[r], ccr.X) % Long, src, d[r], Long, TRUE, op),
             sum' = Continued(op, src, d[r])
      PROVE  IInv'
  <2>1. d' \in [Reg -> Value]
    BY <1>1, <1>2, <1>5, StoreTyped
  <2>2. CASE sum.op \in {op, "any"}
    <3>1. sum.op # "none" /\ sum.zero \in BOOLEAN /\ sum.whole \in BOOLEAN
      BY <1>1, <2>2 DEF Sums
    <3>2. sum.carry = ccr.X /\ (sum.whole => sum.zero = (TRUE => ccr.Z))
      BY <1>1, <3>1 DEF IInv, ExtendIsCarry, Chained
    <3>3. sum' = Link(op, src, d[r], ccr.X, sum.zero, sum.whole)
      BY <1>5, <2>2, <3>2 DEF Continued
    <3>4. ccr' \in Codes /\ sum' \in Sums /\ ExtendIsCarry' /\ ConditionsOfSum' /\ Chained'
      BY <1>1, <1>5, <3>1, <3>2, <3>3, LinkAgrees, ZenonT(30)
    <3>5. QED
      BY <1>3, <2>1, <3>4, StepHolds
  <2>3. CASE sum.op \notin {op, "any"}
    <3>1. sum' = Apart
      BY <1>5, <2>3 DEF Continued
    <3>2. ccr' \in Codes
      BY <1>1, <1>5, FlagsTyped
    <3>3. QED
      BY <1>3, <2>1, <3>1, <3>2, ApartAgrees, StepHolds
  <2>4. QED
    BY <2>2, <2>3
<1>6. src \in Int /\ d[r] \in Int
  BY <1>1, SizesPositive DEF Value
<1>7. /\ d[r] + src + Num(FALSE) = d[r] + src /\ d[r] - src - Num(FALSE) = d[r] - src
  BY <1>6 DEF Num
<1>8. ASSUME NEW carry \in BOOLEAN
      PROVE  /\ Exact("add", src, d[r], carry) = d[r] + src + Num(carry)
             /\ Exact("sub", src, d[r], carry) = d[r] - src - Num(carry)
  BY DEF Exact
<1>9. CASE Add(r, src)
  BY <1>4, <1>7, <1>8, <1>9 DEF Add
<1>10. CASE Sub(r, src)
  BY <1>4, <1>7, <1>8, <1>10 DEF Sub
<1>11. CASE AddX(r, src)
  BY <1>1, <1>5, <1>8, <1>11 DEF AddX
<1>12. CASE SubX(r, src)
  BY <1>1, <1>5, <1>8, <1>12 DEF SubX
<1>13. QED
  BY <1>9, <1>10, <1>11, <1>12

(* Instructions that set N and Z and clear C and V                         *)
LEMMA ResultHolds ==
  ASSUME IInv, NEW r \in Reg, NEW v \in Value, Result(r, v)
  PROVE  IInv'
<1>1. TypeOK /\ ccr \in Codes
  BY DEF IInv, TypeOK
<1>2. d' \in [Reg -> Value] /\ up' \in BOOLEAN
  BY <1>1, StoreTyped DEF Result, Steps
<1>3. ccr' \in Codes /\ ccr'.X = ccr.X /\ sum' = Aside
  BY <1>1, ClrTyped DEF Result
<1>4. QED
  BY <1>2, <1>3, AsideAgrees, StepHolds

LEMMA MoveHolds ==
  ASSUME IInv, NEW r \in Reg, NEW size \in Sizes, NEW v \in 0 .. size - 1, Move(r, v, size)
  PROVE  IInv'
<1>1. TypeOK /\ ccr \in Codes /\ d[r] \in Value
  BY DEF IInv, TypeOK
<1>2. (d[r] \div size) * size + v \in Value
  BY <1>1, PartTyped
<1>3. d' \in [Reg -> Value] /\ up' \in BOOLEAN
  BY <1>1, <1>2, StoreTyped DEF Move, Steps
<1>4. ccr' \in Codes /\ ccr'.X = ccr.X /\ sum' = Aside
  BY <1>1, ClrTyped DEF Move
<1>5. QED
  BY <1>3, <1>4, AsideAgrees, StepHolds

(* Any number, cut to a long word, is a result.                            *)
LEMMA CutHolds ==
  ASSUME IInv, NEW r \in Reg, NEW e \in Int, Result(r, e % Long)
  PROVE  IInv'
  BY Remain, ResultHolds

(* NOT, SWAP, EXT, MVS, MVZ, MULS, MULU                                    *)
LEMMA UnaryHolds ==
  ASSUME IInv, NEW r \in Reg,
         \/ Not(r) \/ Swap(r) \/ ExtWord(r)
         \/ \E size \in {Word, Byte} : Ext(r, size)
  PROVE  IInv'
<1>1. d[r] \in Value /\ d[r] \in Nat
  BY SizesPositive DEF IInv, TypeOK, Value
<1>2. CASE Not(r)
  <2>1. Long - 1 - d[r] \in Value
    BY <1>1, SizesPositive DEF Value
  <2>2. QED
    BY <1>2, <2>1, ResultHolds DEF Not
<1>3. CASE Swap(r)
  <2>1. (d[r] % Word) * Word + d[r] \div Word \in Int
    BY <1>1, SizesPositive
  <2>2. QED
    BY <1>3, <2>1, CutHolds DEF Swap
<1>4. CASE ExtWord(r)
  <2> DEFINE s == Signed(d[r], Byte)
  <2>1. s \in Int
    BY <1>1, SizesPositive, SignedTyped
  <2> HIDE DEF s
  <2>2. s % Word \in 0 .. Word - 1
    BY <2>1, SizesPositive, Bounded
  <2>3. Word \in Sizes /\ Move(r, s % Word, Word)
    BY <1>4 DEF ExtWord, Sizes, s
  <2>4. QED
    BY <2>2, <2>3, MoveHolds
<1>5. ASSUME NEW size \in {Word, Byte}, Ext(r, size)
      PROVE  IInv'
  <2>1. Signed(d[r], size) \in Int
    BY <1>1, SizesPositive, SignedTyped
  <2>2. QED
    BY <1>5, <2>1, CutHolds DEF Ext, Extend
<1>6. QED
  BY <1>2, <1>3, <1>4, <1>5

LEMMA BinaryHolds ==
  ASSUME IInv, NEW r \in Reg, NEW v \in Nat, NEW signed \in BOOLEAN,
         \/ MulL(r, v) \/ MulW(r, v, signed)
         \/ \E size \in {Word, Byte} : Mv(r, v, size, signed)
  PROVE  IInv'
<1>1. d[r] \in Nat
  BY SizesPositive DEF IInv, TypeOK, Value
<1>2. CASE MulL(r, v)
  <2>1. d[r] * v \in Int
    BY <1>1
  <2>2. QED
    BY <1>2, <2>1, CutHolds DEF MulL
<1>3. CASE MulW(r, v, signed)
  <2> DEFINE extended(x) == IF signed THEN Extend(x, Word) ELSE x % Word
             a == extended(d[r])
             b == extended(v)
  <2>1. ASSUME NEW x \in Nat
        PROVE  extended(x) \in Int
    <3>1. Signed(x, Word) \in Int /\ x % Word \in Nat
      BY SizesPositive, SignedTyped
    <3>2. Signed(x, Word) % Long \in Int
      BY <3>1, SizesPositive
    <3>3. QED
      BY <3>1, <3>2 DEF Extend
  <2>2. a \in Int /\ b \in Int
    BY <1>1, <2>1
  <2>3. Result(r, (a * b) % Long)
    BY <1>3 DEF MulW
  <2> HIDE DEF a, b
  <2>4. a * b \in Int
    BY <2>2
  <2>5. QED
    BY <2>3, <2>4, CutHolds
<1>4. ASSUME NEW size \in {Word, Byte}, Mv(r, v, size, signed)
      PROVE  IInv'
  <2>1. CASE signed
    <3>1. Signed(v, size) \in Int
      BY SizesPositive, SignedTyped
    <3>2. QED
      BY <1>4, <2>1, <3>1, CutHolds DEF Mv, Extend
  <2>2. CASE ~signed
    <3>1. v % size \in Value
      <4>1. size \in Nat \ {0} /\ size <= Long
        BY SizesPositive, SizeOrder
      <4>2. v % size \in 0 .. size - 1
        BY <4>1, Bounded
      <4>3. QED
        BY <4>1, <4>2, SizesPositive DEF Value
    <3>2. QED
      BY <1>4, <2>2, <3>1, ResultHolds DEF Mv
  <2>3. QED
    BY <2>1, <2>2
<1>5. QED
  BY <1>2, <1>3, <1>4

LEMMA ShiftHolds ==
  ASSUME IInv, NEW r \in Reg, NEW n \in 0 .. 2 * Width - 1, NEW left \in BOOLEAN,
         NEW logical \in BOOLEAN, Shift(r, n, left, logical)
  PROVE  IInv'
<1> DEFINE s == Shifted(d[r], n, left, logical)
<1>1. TypeOK /\ ccr \in Codes /\ d[r] \in Value
  BY DEF IInv, TypeOK
<1>2. s.value \in Value /\ s.last \in BOOLEAN
  BY <1>1, ShiftedTyped
<1> HIDE DEF s
<1>3. /\ up' \in BOOLEAN /\ Store(r, s.value)
      /\ ccr' = [SetNZ_ClrCV(ccr, s.value, Long) EXCEPT
                   !.C = s.last, !.X = IF n > 0 THEN s.last ELSE @]
      /\ sum' = IF n > 0 THEN Apart ELSE Aside
  BY DEF Shift, Steps, s
<1>4. d' \in [Reg -> Value]
  BY <1>1, <1>2, <1>3, StoreTyped
<1>5. SetNZ_ClrCV(ccr, s.value, Long) \in Codes /\ SetNZ_ClrCV(ccr, s.value, Long).X = ccr.X
  BY <1>1, ClrTyped
<1>6. ccr' \in Codes /\ (~(n > 0) => ccr'.X = ccr.X)
  BY <1>2, <1>3, <1>5 DEF Codes
<1>7. QED
  BY <1>3, <1>4, <1>6, ApartAgrees, AsideAgrees, StepHolds

LEMMA DivisionHolds ==
  ASSUME IInv, NEW r \in Reg,
         \/ \E src \in 0 .. Word - 1, signed \in BOOLEAN : DivW(r, src, signed)
         \/ \E src \in Value, w \in Reg : DivL(r, w, src)
  PROVE  IInv'
<1>1. TypeOK /\ ccr \in Codes /\ d \in [Reg -> Value] /\ d[r] \in Value
  BY DEF IInv, TypeOK
<1>2. CASE Crash
  BY <1>1, <1>2, UnchangedHolds DEF Crash
<1>3. ASSUME NEW src \in 0 .. Word - 1, NEW signed \in BOOLEAN, DivW(r, src, signed), ~Crash
      PROVE  IInv'
  <2> DEFINE v == DivWord(d[r], src, signed)
  <2>1. /\ src # 0 /\ up' = TRUE /\ sum' = Aside
        /\ \/ Store(r, v) /\ ccr' = SetNZ_ClrCV(ccr, v, Word)
           \/ ccr' = Overflow(ccr) /\ d' = d
    BY <1>3 DEF DivW
  <2>2. src \in 1 .. Word - 1
    BY <2>1, SizesPositive
  <2>3. v \in Value
    BY <1>1, <2>2, DivWordTyped
  <2> HIDE DEF v
  <2>4. d' \in [Reg -> Value]
    BY <1>1, <2>1, <2>3, StoreTyped
  <2>5. ccr' \in Codes /\ ccr'.X = ccr.X
    <3>1. /\ SetNZ_ClrCV(ccr, v, Word) \in Codes
          /\ SetNZ_ClrCV(ccr, v, Word).X = ccr.X
      BY <1>1, ClrTyped
    <3>2. Overflow(ccr) \in Codes /\ Overflow(ccr).X = ccr.X
      BY <1>1 DEF Overflow, Codes
    <3>3. QED
      BY <2>1, <3>1, <3>2
  <2>6. QED
    BY <2>1, <2>4, <2>5, AsideAgrees, StepHolds
<1>4. ASSUME NEW src \in Value, NEW w \in Reg, DivL(r, w, src)
      PROVE  IInv'
  <2> DEFINE q == d[r] \div src
             m == d[r] % src
  <2>1. /\ src # 0 /\ up' = TRUE /\ sum' = Aside
        /\ d' = IF w = r THEN [d EXCEPT ![r] = q] ELSE [d EXCEPT ![r] = q, ![w] = m]
        /\ ccr' = SetNZ_ClrCV(ccr, q, Word)
    BY <1>4 DEF DivL, Steps
  <2>2. q \in Value /\ m \in Value
    BY <1>1, <2>1, DivLongTyped
  <2> HIDE DEF q, m
  <2>3. d' \in [Reg -> Value]
    BY <1>1, <2>1, <2>2
  <2>4. ccr' \in Codes /\ ccr'.X = ccr.X
    BY <1>1, <2>1, ClrTyped
  <2>5. QED
    BY <2>1, <2>3, <2>4, AsideAgrees, StepHolds
<1>5. QED
  BY <1>2, <1>3, <1>4

LEMMA NextHolds == IInv /\ [Next]_vars => IInv'
<1> SUFFICES ASSUME IInv, [Next]_vars PROVE IInv'
  OBVIOUS
<1> USE DEF Steps
<1>1. /\ TypeOK /\ ccr \in Codes /\ ccr.X \in BOOLEAN /\ ccr.V \in BOOLEAN
      /\ d \in [Reg -> Value] /\ up \in BOOLEAN
  BY DEF IInv, TypeOK, Codes
<1>2. ASSUME NEW r \in Reg, Ff1(r)
      PROVE  IInv'
  <2>1. PICK i \in 0 .. Width : Store(r, i)
    BY <1>2 DEF Ff1
  <2>2. i \in Value
    BY WidthAssumption, SizeAssumption, SizesPositive DEF Value
  <2>3. d' \in [Reg -> Value]
    BY <1>1, <2>1, <2>2, StoreTyped
  <2>4. ccr' \in Codes /\ ccr'.X = ccr.X /\ up' \in BOOLEAN /\ sum' = Aside
    BY <1>1, <1>2, ClrTyped DEF Ff1
  <2>5. QED
    BY <2>3, <2>4, AsideAgrees, StepHolds
<1>3. ASSUME NEW r \in Reg, Sats(r)
      PROVE  IInv'
  <2>1. PICK v : v \in {d[r], Long \div 2, Long \div 2 - 1} /\ Result(r, v)
    BY <1>3 DEF Sats
  <2>2. v \in Value
    BY <1>1, <2>1, LongIsTwoHalves DEF Value
  <2>3. QED
    BY <2>1, <2>2, ResultHolds
<1>4. ASSUME NEW r \in Reg, NEW v \in Value, Load(r, v)
      PROVE  IInv'
  BY <1>1, <1>4, StoreTyped, UnchangedHolds DEF Load
<1>5. ASSUME NEW r \in Reg, NEW v \in Value, NEW i \in 0 .. Width - 1, BitOp(r, i, v)
      PROVE  IInv'
  <2>1. d' \in [Reg -> Value] /\ up' \in BOOLEAN /\ sum' = Aside
    BY <1>1, <1>5, StoreTyped DEF BitOp
  <2>2. ccr' = [ccr EXCEPT !.Z = ~Bit(d[r], i)] /\ (~Bit(d[r], i)) \in BOOLEAN
    BY <1>5 DEF BitOp
  <2>3. ccr' \in Codes /\ ccr'.X = ccr.X
    BY <1>1, <2>2 DEF Codes
  <2>4. QED
    BY <2>1, <2>3, AsideAgrees, StepHolds
<1>6. ASSUME NEW r \in Reg, NEW size \in Sizes, NEW v \in 0 .. size - 1, Cmp(r, v, size)
      PROVE  IInv'
  <2>1. \E result, arg1, arg2 : ccr' = SetAllFlags(ccr, result, arg1, arg2, size, FALSE, "cmp")
    BY <1>6, Zenon DEF Cmp, Compare, CompareI
  <2>2. PICK result, arg1, arg2 : ccr' = SetAllFlags(ccr, result, arg1, arg2, size, FALSE, "cmp")
    BY <2>1, Zenon
  <2>3. ccr' \in Codes
    BY <1>1, <2>2, FlagsTyped
  <2>4. ccr'.X = ccr.X
    BY <2>2 DEF SetAllFlags
  <2>5. d' \in [Reg -> Value] /\ up' \in BOOLEAN /\ sum' = Aside
    BY <1>1, <1>6 DEF Cmp
  <2>6. QED
    BY <2>3, <2>4, <2>5, AsideAgrees, StepHolds
<1>7. ASSUME NEW r \in Reg, NEW extend \in BOOLEAN, Neg(r, extend)
      PROVE  IInv'
  <2> DEFINE e == 0 - d[r] - (IF extend THEN Num(ccr.X) ELSE 0)
  <2>1. e \in Int
    BY <1>1, SizesPositive DEF Num, Value
  <2> HIDE DEF e
  <2>2. /\ Store(r, e % Long) /\ up' \in BOOLEAN /\ sum' = Apart
        /\ ccr' = SetAllFlags(ccr, e % Long, d[r], 0, Long, extend, "neg")
    BY <1>7 DEF Neg, e
  <2>3. d' \in [Reg -> Value]
    BY <1>1, <2>1, <2>2, Remain, StoreTyped
  <2>4. ccr' \in Codes
    BY <1>1, <2>2, FlagsTyped
  <2>5. QED
    BY <2>2, <2>3, <2>4, ApartAgrees, StepHolds
<1>8. ASSUME NEW r \in Reg, NEW c \in Conditions, Scc(r, c)
      PROVE  IInv'
  <2> DEFINE set == Is(ccr)[c] = TRUE
             v == (d[r] \div Byte) * Byte + (IF set THEN Byte - 1 ELSE 0)
  <2>1. v \in Value
    BY <1>1, SccTyped
  <2>2. Is(ccr)[c] \in BOOLEAN
    BY <1>1 DEF Is, Codes, Conditions
  <2>3. Store(r, v) /\ UNCHANGED <<ccr, sum>> /\ up' \in BOOLEAN
    BY <1>8, <2>2 DEF Scc
  <2> HIDE DEF v
  <2>4. QED
    BY <1>1, <2>1, <2>3, StoreTyped, UnchangedHolds
<1>9. ASSUME NEW size \in Sizes, NEW v \in 0 .. size - 1, Tst(v, size)
      PROVE  IInv'
  <2>1. ccr' \in Codes /\ ccr'.X = ccr.X /\ d' = d /\ up' \in BOOLEAN /\ sum' = Aside
    BY <1>1, <1>9, ClrTyped DEF Tst
  <2>2. QED
    BY <1>1, <2>1, AsideAgrees, StepHolds
<1>10. ASSUME NEW cc \in Codes, SetCCR(cc)
       PROVE  IInv'
  <2>1. /\ ccr' = cc /\ d' = d /\ up' \in BOOLEAN
        /\ sum' = [Apart EXCEPT !.op = "any", !.carry = cc.X, !.zero = cc.Z, !.whole = TRUE]
    BY <1>10 DEF SetCCR
  <2>2. cc.X \in BOOLEAN /\ cc.Z \in BOOLEAN
    BY DEF Codes
  <2>3. sum' = [op |-> "any", carry |-> cc.X, zero |-> cc.Z, less |-> FALSE,
                whole |-> TRUE, last |-> FALSE]
    BY <2>1 DEF Apart
  <2>4. sum' \in Sums /\ ExtendIsCarry' /\ ConditionsOfSum' /\ Chained'
    <3>1. sum'.op = "any" /\ sum'.carry = cc.X /\ sum'.zero = cc.Z /\ sum'.last = FALSE
      BY <2>3
    <3>2. sum' \in Sums
      BY <2>2, <2>3 DEF Sums
    <3>3. ExtendIsCarry' /\ ConditionsOfSum' /\ Chained'
      BY <2>1, <3>1 DEF ExtendIsCarry, ConditionsOfSum, Chained
    <3>4. QED
      BY <3>2, <3>3
  <2>5. QED
    BY <1>1, <2>1, <2>4, StepHolds
<1>11. CASE UNCHANGED vars
  BY <1>1, <1>11, UnchangedHolds DEF vars
<1>12. ASSUME NEW r \in Reg, NEW v, NEW signed \in BOOLEAN,
              \/ v \in Value /\ MulL(r, v)
              \/ v \in 0 .. Word - 1 /\ MulW(r, v, signed)
              \/ \E size \in {Word, Byte} : v \in 0 .. size - 1 /\ Mv(r, v, size, signed)
       PROVE  IInv'
  <2>1. v \in Nat
    BY <1>12, SizesPositive DEF Value
  <2>2. QED
    BY <1>12, <2>1, BinaryHolds
<1>13. QED
  BY <1>2, <1>3, <1>4, <1>5, <1>6, <1>7, <1>8, <1>9, <1>10, <1>11, <1>12,
     SumsHold, ResultHolds, MoveHolds, UnaryHolds, ShiftHolds, DivisionHolds DEF Next

-----------------------------------------------------------------------------
(* IInv is inductive.                                                      *)
THEOREM Invariance == Spec => []IInv
  BY InitHolds, NextHolds, PTL DEF Spec

(* Whatever instructions a program runs, and however a quotient overflows, *)
(* its registers keep to long words (TypeOK).                              *)
THEOREM TypeCorrect == Spec => []TypeOK
<1>1. IInv => TypeOK
  BY DEF IInv
<1>2. QED
  BY <1>1, Invariance, PTL

(* The carry SetAllFlags reads off three sign bits is that of the exact    *)
(* sum, and X keeps it from ADDX to ADDX (SUBX to SUBX): sums of any number*)
(* of long words of any width come out right (ExtendIsCarry).              *)
THEOREM CarryIsKept == Spec => []ExtendIsCarry
<1>1. IInv => ExtendIsCarry
  BY DEF IInv
<1>2. QED
  BY <1>1, Invariance, PTL

(* The conditions after such a chain, for branches and Scc, say of the     *)
(* whole number what they say of one word (ConditionsOfSum).               *)
THEOREM ConditionsAreOfTheSum == Spec => []ConditionsOfSum
<1>1. IInv => ConditionsOfSum
  BY DEF IInv
<1>2. QED
  BY <1>1, Invariance, PTL

-----------------------------------------------------------------------------
(* Quotients and remainders *)

LEMMA Divided ==
  ASSUME NEW s \in Nat \ {0}, NEW x \in Int
  PROVE  x \div s \in Int /\ x % s \in 0 .. s - 1 /\ x = (x \div s) * s + (x % s)
OBVIOUS

LEMMA Larger ==
  ASSUME NEW s \in Nat, NEW p \in Int, NEW q \in Int, p < q
  PROVE  p * s + s <= q * s
<1>1. PICK e \in Nat : q = p + 1 + e
  <2>1. q - p - 1 \in Nat /\ q = p + 1 + (q - p - 1)
    OBVIOUS
  <2>2. QED
    BY <2>1
<1>2. q * s = p * s + s + e * s
  BY <1>1
<1>3. e * s \in Nat
  OBVIOUS
<1>4. p * s \in Int /\ q * s \in Int
  OBVIOUS
<1>5. QED
  BY <1>2, <1>3, <1>4

LEMMA OnlyQuotient ==
  ASSUME NEW s \in Nat \ {0}, NEW q \in Int, NEW r \in 0 .. s - 1,
         NEW x \in Int, x = q * s + r
  PROVE  x \div s = q /\ x % s = r
<1> DEFINE p == x \div s
           t == x % s
<1>1. p \in Int /\ t \in 0 .. s - 1 /\ x = p * s + t
  BY Divided
<1> HIDE DEF p, t
<1>2. p * s \in Int /\ q * s \in Int
  BY <1>1
<1>3. ~(p < q)
  <2>1. p < q => p * s + s <= q * s
    BY <1>1, Larger
  <2>2. QED
    BY <1>1, <1>2, <2>1
<1>4. ~(q < p)
  <2>1. q < p => q * s + s <= p * s
    BY <1>1, Larger
  <2>2. QED
    BY <1>1, <1>2, <2>1
<1>5. p = q
  BY <1>1, <1>3, <1>4
<1>6. t = r
  BY <1>1, <1>2, <1>5
<1>7. QED
  BY <1>5, <1>6 DEF p, t

(* Dividing twice                                                          *)
LEMMA DividedTwice ==
  ASSUME NEW s \in Nat \ {0}, NEW t \in Nat \ {0}, NEW x \in Int
  PROVE  x \div (s * t) = (x \div s) \div t
<1> DEFINE p == x \div s
           i == x % s
           q == p \div t
           j == p % t
<1>1. p \in Int /\ i \in 0 .. s - 1 /\ x = p * s + i
  BY Divided
<1>2. q \in Int /\ j \in 0 .. t - 1 /\ p = q * t + j
  BY <1>1, Divided
<1> HIDE DEF p, i, q, j
<1>3. x = q * (s * t) + (j * s + i)
  BY <1>1, <1>2
<1>4. s * t \in Nat \ {0}
  OBVIOUS
<1>5. j * s + i \in 0 .. s * t - 1
  <2>1. j * s + s <= t * s
    BY <1>2, Larger
  <2>2. j * s \in Nat
    BY <1>2
  <2>3. t * s = s * t
    OBVIOUS
  <2>4. QED
    BY <1>1, <1>4, <2>1, <2>2, <2>3
<1>6. x \div (s * t) = q
  <2> DEFINE u == s * t
             k == j * s + i
  <2>1. u \in Nat \ {0} /\ k \in 0 .. u - 1 /\ x = q * u + k
    BY <1>3, <1>4, <1>5
  <2> HIDE DEF u, k
  <2>2. x \div u = q
    BY <1>2, <2>1, OnlyQuotient
  <2>3. QED
    BY <2>2 DEF u
<1>7. QED
  BY <1>6 DEF q, p

(* A multiple does not count.                                              *)
LEMMA Multiples ==
  ASSUME NEW s \in Nat \ {0}, NEW x \in Int, NEW k \in Int
  PROVE  (x + k * s) % s = x % s /\ (x + k * s) \div s = x \div s + k
<1> DEFINE q == x \div s
           r == x % s
<1>1. q \in Int /\ r \in 0 .. s - 1 /\ x = q * s + r
  BY Divided
<1> HIDE DEF q, r
<1>2. k * s \in Int
  OBVIOUS
<1>3. x + k * s \in Int
  BY <1>2
<1>4. x + k * s = (q + k) * s + r
  BY <1>1
<1>5. (x + k * s) % s = r /\ (x + k * s) \div s = q + k
  BY <1>1, <1>3, <1>4, OnlyQuotient
<1>6. QED
  BY <1>5 DEF q, r
-----------------------------------------------------------------------------
(* Sizes are even and divide a long word.                                  *)
LEMMA SizeFacts ==
  ASSUME NEW size \in Sizes
  PROVE  \E h \in Nat \ {0}, k \in Nat \ {0} :
           size = 2 * h /\ size \div 2 = h /\ Long = k * size
<1>1. ASSUME NEW n \in 1 .. Width
      PROVE  \E h \in Nat \ {0} : Weight[n] = 2 * h
  <2>1. n - 1 \in 0 .. Width - 1 /\ n - 1 \in 0 .. Width /\ (n - 1) + 1 = n
    BY WidthAssumption
  <2>2. Weight[(n - 1) + 1] = 2 * Weight[n - 1]
    BY <2>1, WeightAssumption
  <2>3. Weight[n - 1] \in Nat \ {0}
    BY <2>1, WeightTyped
  <2>4. QED
    BY <2>1, <2>2, <2>3
<1>2. Width \in 1 .. Width /\ Width \div 2 \in 1 .. Width /\ Width \div 4 \in 1 .. Width
  BY WidthAssumption
<1>3. PICK h \in Nat \ {0} : size = 2 * h
  BY <1>1, <1>2 DEF Sizes, Long, Word, Byte
<1>4. PICK k \in Nat \ {0} : Long = k * size
  <2>1. /\ 1 \in Nat \ {0} /\ Word \in Nat \ {0} /\ Byte * Byte * Byte \in Nat \ {0}
        /\ Long = 1 * Long /\ Long = Word * Word /\ Long = (Byte * Byte * Byte) * Byte
    BY SizesPositive, SizeAssumption
  <2>2. QED
    BY <2>1 DEF Sizes
<1>5. size \div 2 = h
  BY <1>3
<1>6. QED
  BY <1>3, <1>4, <1>5

(* The conditions after the comparison of a and b                          *)
Tells(f, a, b, size) ==
  /\ f.Z = (a = b) /\ f.C = (a < b)
  /\ (f.N # f.V) = (Signed(a, size) < Signed(b, size))

LEMMA ComparisonTells ==
  ASSUME NEW cc \in Codes, NEW size \in Sizes, NEW a \in 0 .. size - 1, NEW b \in 0 .. size - 1
  PROVE  Tells(SetAllFlags(cc, (a - b) % Long, b, a, size, FALSE, "cmp"), a, b, size)
<1> DEFINE result == (a - b) % Long
           f      == SetAllFlags(cc, result, b, a, size, FALSE, "cmp")
<1>1. PICK h \in Nat \ {0}, k \in Nat \ {0} :
        size = 2 * h /\ size \div 2 = h /\ Long = k * size
  BY SizeFacts
<1>2. size \in Nat \ {0} /\ a \in Nat /\ b \in Nat
  BY <1>1
<1>3. size <= Long /\ Long \in Nat \ {0}
  BY SizeOrder, SizesPositive DEF Sizes
<1>4. result = IF a >= b THEN a - b ELSE a - b + Long
  <2>1. CASE a >= b
    <3>1. a - b \in 0 .. Long - 1
      BY <1>2, <1>3, <2>1
    <3>2. QED
      BY <1>3, <2>1, <3>1, Small
  <2>2. CASE ~(a >= b)
    <3>1. a - b \in -Long .. -1
      BY <1>2, <1>3, <2>2
    <3>2. QED
      BY <1>3, <2>2, <3>1, Below
  <2>3. QED
    BY <2>1, <2>2
<1>5. result % size = IF a >= b THEN a - b ELSE a - b + size
  <2>1. CASE a >= b
    <3>1. a - b \in 0 .. size - 1
      BY <1>2, <2>1
    <3>2. QED
      BY <1>2, <1>4, <2>1, <3>1, Small
  <2>2. CASE ~(a >= b)
    <3>1. a - b \in -size .. -1 /\ a - b \in Int
      BY <1>2, <2>2
    <3>2. ((a - b) + k * size) % size = (a - b) % size
      BY <1>1, <1>2, <3>1, Multiples
    <3>3. (a - b) % size = a - b + size
      BY <1>2, <3>1, Below
    <3>4. QED
      BY <1>1, <1>4, <2>2, <3>2, <3>3
  <2>3. QED
    BY <2>1, <2>2
<1>6. a % size = a /\ b % size = b
  BY <1>2, Small
<1> DEFINE m == result % size
<1>7. /\ Sign(result, size) = (m >= h) /\ Sign(a, size) = (a >= h) /\ Sign(b, size) = (b >= h)
      /\ Signed(a, size) = (IF a >= h THEN a - size ELSE a)
      /\ Signed(b, size) = (IF b >= h THEN b - size ELSE b)
  BY <1>1, <1>6 DEF Sign, Signed
<1>8. /\ f.Z = (result = 0) /\ f.N = (m >= h)
      /\ f.V = (((b >= h) # (a >= h)) /\ ((m >= h) # (a >= h)))
      /\ f.C = (((b >= h) /\ ~(a >= h)) \/ ((m >= h) /\ (b >= h) = (a >= h)))
  BY <1>7 DEF SetAllFlags
<1> HIDE DEF f, result, m
<1>9. f.Z = (a = b)
  <2>1. (result = 0) = (a = b)
    BY <1>2, <1>3, <1>4
  <2>2. QED
    BY <1>8, <2>1, Zenon
<1>10. m = IF a >= b THEN a - b ELSE a - b + size
  BY <1>5 DEF m
<1>11. f.C = (a < b)
  BY <1>1, <1>2, <1>8, <1>10
<1>12. (f.N # f.V) = (Signed(a, size) < Signed(b, size))
  BY <1>1, <1>2, <1>7, <1>8, <1>10 DEF m
<1>13. Tells(f, a, b, size)
  BY <1>9, <1>11, <1>12 DEF Tells
<1>14. QED
  BY <1>13 DEF f, result

LEMMA TableHolds ==
  ASSUME NEW f \in Codes, NEW dst \in Value, NEW size \in Sizes, NEW src \in 0 .. size - 1,
         Tells(f, dst % size, src, size)
  PROVE  Table(f, dst, src, size)
<1> DEFINE is == Is(f)
           a  == dst % size
           b  == src % size
<1>1. size \in Nat \ {0} /\ dst \in Int
  BY SizesPositive DEF Sizes, Value
<1>2. b = src /\ a \in 0 .. size - 1
  BY <1>1, Small, Bounded
<1>3. a \in Int /\ b \in Int /\ Signed(a, size) \in Int /\ Signed(b, size) \in Int
  BY <1>1, <1>2, SignedTyped
<1>4. f.Z = (a = b) /\ f.C = (a < b) /\ (f.N # f.V) = (Signed(a, size) < Signed(b, size))
  BY <1>2 DEF Tells
<1>5. f.Z \in BOOLEAN /\ f.C \in BOOLEAN /\ f.N \in BOOLEAN /\ f.V \in BOOLEAN
  BY DEF Codes
<1>6. /\ is["CS"] = f.C /\ is["CC"] = ~f.C /\ is["EQ"] = f.Z /\ is["NE"] = ~f.Z
      /\ is["LT"] = (f.N # f.V) /\ is["GE"] = (f.N = f.V)
      /\ is["HI"] = (~f.Z /\ ~f.C) /\ is["LS"] = (f.Z \/ f.C)
      /\ is["GT"] = (~f.Z /\ f.N = f.V) /\ is["LE"] = (f.Z \/ f.N # f.V)
  BY DEF Is, Conditions
<1>7. (Signed(a, size) = Signed(b, size)) = (a = b)
  <2>1. a % size = a /\ b % size = b
    BY <1>1, <1>2, Small
  <2>2. /\ Signed(a, size) \in {a, a - size} /\ Signed(b, size) \in {b, b - size}
    BY <2>1 DEF Signed
  <2>3. a \in 0 .. size - 1 /\ b \in 0 .. size - 1
    BY <1>2
  <2> DEFINE x == Signed(a, size)
             y == Signed(b, size)
  <2>4. a = b => x = y
    OBVIOUS
  <2> HIDE DEF a, b, x, y
  <2>5. x = y => a = b
    BY <1>1, <2>2, <2>3 DEF x, y
  <2>6. QED
    BY <2>4, <2>5 DEF x, y
<1> HIDE DEF a, b, is
<1>8. /\ is["EQ"] = (a = b) /\ is["NE"] = (a # b) /\ is["CS"] = (a < b)
      /\ is["LS"] = (a <= b) /\ is["HI"] = (a > b) /\ is["CC"] = (a >= b)
  <2>1. /\ (a <= b) = (a < b \/ a = b) /\ (a > b) = (~(a < b) /\ ~(a = b))
        /\ (a >= b) = ~(a < b)
    BY <1>3
  <2>2. QED
    BY <1>4, <1>6, <2>1, Zenon
<1> DEFINE x == Signed(a, size)
           y == Signed(b, size)
<1>9. /\ is["LT"] = (x < y) /\ is["GE"] = (x >= y)
  <2>1. (x >= y) = ~(x < y)
    BY <1>3
  <2>2. (f.N = f.V) = ~(f.N # f.V)
    BY <1>5
  <2>3. QED
    BY <1>4, <1>6, <2>1, <2>2, Zenon
<1>10. /\ is["LE"] = (x <= y) /\ is["GT"] = (x > y)
  <2>1. (x > y) = (~(x < y) /\ ~(x = y)) /\ (x <= y) = (x < y \/ x = y)
    BY <1>3
  <2>2. (f.N = f.V) = ~(f.N # f.V)
    BY <1>5
  <2>3. (x = y) = f.Z
    BY <1>4, <1>7, Zenon
  <2>4. QED
    BY <1>4, <1>6, <2>1, <2>2, <2>3, Zenon
<1>11. QED
  BY <1>8, <1>9, <1>10 DEF Table, a, b, is

(* A branch after CMP.L, CMPA.L or CMPI of any size, and after CMP.B or    *)
(* CMP.W of a register that holds nothing above the size, is taken as the  *)
(* table of conditions says, for registers of any width: the borrow and    *)
(* the overflow SetAllFlags reads off three sign bits are those of the     *)
(* difference.                                                             *)
THEOREM ComparesTell == Spec => []CompareTable
<1>1. IInv => CompareTable
  <2> SUFFICES ASSUME IInv, NEW r \in Reg, NEW size \in Sizes, NEW src \in 0 .. size - 1
               PROVE  /\ Table(CompareI(ccr, d[r], src, size), d[r], src, size)
                      /\ d[r] < size => Table(Compare(ccr, d[r], src, size), d[r], src, size)
    BY DEF CompareTable
  <2>1. ccr \in Codes /\ d[r] \in Value
    BY DEF IInv, TypeOK
  <2>2. size \in Nat \ {0} /\ d[r] \in Int
    BY <2>1, SizesPositive DEF Sizes, Value
  <2>3. d[r] % size \in 0 .. size - 1
    BY <2>2, Bounded
  <2>4. CompareI(ccr, d[r], src, size) \in Codes
    BY <2>1, FlagsTyped DEF CompareI, Compare
  <2>5. Tells(CompareI(ccr, d[r], src, size), d[r] % size, src, size)
    BY <2>1, <2>3, ComparisonTells DEF CompareI, Compare
  <2>6. Table(CompareI(ccr, d[r], src, size), d[r], src, size)
    BY <2>1, <2>4, <2>5, TableHolds
  <2>7. d[r] < size => d[r] % size = d[r]
    BY <2>1, <2>2, Small DEF Value
  <2>8. QED
    BY <2>6, <2>7 DEF CompareI
<1>2. QED
  BY <1>1, Invariance, PTL
-----------------------------------------------------------------------------
(* Shifts *)

(* Induction with sets: the least number left out, by the well-founded     *)
(* order of finite sets.                                                   *)
LEMMA Induct ==
  ASSUME NEW T \in SUBSET Nat, 0 \in T, \A n \in T : n + 1 \in T
  PROVE  T = Nat
<1> DEFINE S == {0 .. n : n \in Nat \ T}
<1> SUFFICES ASSUME Nat \ T # {} PROVE FALSE
  OBVIOUS
<1>1. IsWellFoundedOn(StrictSubsetOrdering(Nat), FiniteSubsetsOf(Nat))
  BY FS_StrictSubsetOrderingWellFounded
<1>2. S # {} /\ S \subseteq FiniteSubsetsOf(Nat)
  <2>1. ASSUME NEW n \in Nat PROVE 0 .. n \in FiniteSubsetsOf(Nat)
    BY FS_Interval DEF FiniteSubsetsOf
  <2>2. QED
    BY <2>1
<1>3. PICK x \in S : \A y \in S : <<y, x>> \notin StrictSubsetOrdering(Nat)
  <2> HIDE DEF S
  <2>1. QED
    BY <1>1, <1>2, WFMin, Zenon
<1>4. PICK n \in Nat \ T : x = 0 .. n
  OBVIOUS
<1>5. n - 1 \in Nat /\ (n - 1) + 1 = n
  OBVIOUS
<1>6. n - 1 \notin T
  BY <1>5
<1>7. 0 .. n - 1 \in S /\ 0 .. n - 1 \subseteq 0 .. n /\ n \in 0 .. n /\ n \notin 0 .. n - 1
  BY <1>5, <1>6
<1>8. <<0 .. n - 1, 0 .. n>> \in StrictSubsetOrdering(Nat)
  BY <1>7, SMTT(30) DEF StrictSubsetOrdering
<1>9. QED
  BY <1>3, <1>4, <1>7, <1>8

LEMMA WeightProduct ==
  ASSUME NEW i \in 0 .. Width, NEW j \in 0 .. Width, i + j <= Width
  PROVE  Weight[i + j] = Weight[i] * Weight[j]
<1> DEFINE T == {n \in Nat : i + n <= Width => Weight[i + n] = Weight[i] * Weight[n]}
<1>1. Width \in Nat
  BY WidthAssumption
<1>2. 0 \in T
  <2>1. i + 0 = i /\ Weight[0] = 1 /\ Weight[i] \in Nat
    BY <1>1, WeightAssumption
  <2>2. QED
    BY <2>1
<1>3. ASSUME NEW n \in T PROVE n + 1 \in T
  <2>1. SUFFICES ASSUME i + (n + 1) <= Width
                 PROVE  Weight[i + (n + 1)] = Weight[i] * Weight[n + 1]
    OBVIOUS
  <2>2. /\ n \in 0 .. Width - 1 /\ i + n \in 0 .. Width - 1 /\ i + (n + 1) = (i + n) + 1
        /\ n \in 0 .. Width /\ i + n <= Width
    BY <1>1, <2>1
  <2>3. Weight[i + n] = Weight[i] * Weight[n]
    BY <2>2
  <2>4. Weight[(i + n) + 1] = 2 * Weight[i + n] /\ Weight[n + 1] = 2 * Weight[n]
    BY <2>2, WeightAssumption
  <2>5. Weight[i] \in Nat /\ Weight[n] \in Nat
    BY <2>2, WeightTyped
  <2>6. 2 * (Weight[i] * Weight[n]) = Weight[i] * (2 * Weight[n])
    BY <2>5
  <2>7. QED
    BY <2>2, <2>3, <2>4, <2>6
<1>4. T = Nat
  <2> HIDE DEF T
  <2>1. T \in SUBSET Nat
    BY DEF T
  <2>2. QED
    BY <1>2, <1>3, <2>1, Induct
<1>5. j \in T
  BY <1>1, <1>4
<1>6. QED
  BY <1>5

LEMMA WeightOne == Weight[0] = 1 /\ Weight[1] = 2 /\ 1 < Width /\ 1 % Width = 1
<1>1. Width \in Nat /\ Width >= 4 /\ 0 \in 0 .. Width - 1 /\ 0 + 1 = 1
  BY WidthAssumption
<1>2. Weight[0 + 1] = 2 * Weight[0]
  BY <1>1, WeightAssumption
<1>3. 1 % Width = 1
  <2>1. 1 \in 0 .. Width - 1
    BY <1>1
  <2>2. QED
    BY <1>1, <2>1, Small
<1>4. QED
  BY <1>1, <1>2, <1>3, WeightAssumption

(* A bit of what is left when the bits above the upper one are dropped     *)
LEMMA UpperBit ==
  ASSUME NEW h \in Nat \ {0}, NEW x \in Nat
  PROVE  ((x % (2 * h)) \div h) % 2 = (x \div h) % 2
<1> DEFINE s == 2 * h
           q == x \div s
           r == x % s
<1>1. s \in Nat \ {0}
  OBVIOUS
<1> HIDE DEF s
<1>2. q \in Int /\ r \in 0 .. s - 1 /\ x = q * s + r
  BY <1>1, Divided
<1> HIDE DEF q, r
<1>3. x = r + (2 * q) * h
  BY <1>2 DEF s
<1>4. r \in Int /\ 2 * q \in Int
  BY <1>1, <1>2
<1>5. (r + (2 * q) * h) \div h = r \div h + 2 * q
  BY <1>4, Multiples
<1>6. x \div h = r \div h + q * 2
  BY <1>2, <1>3, <1>5
<1>7. r \div h \in Int
  BY <1>4
<1>8. (r \div h + q * 2) % 2 = (r \div h) % 2
  BY <1>2, <1>7, Multiples
<1>9. QED
  BY <1>6, <1>8 DEF r, s
(* The three kinds of shifts (a left shift is logical and arithmetic)      *)
ShiftedBy(kind, v, n) ==
  IF kind = "left" THEN Shifted(v, n, TRUE, TRUE)
  ELSE IF kind = "right" THEN Shifted(v, n, FALSE, TRUE) ELSE Shifted(v, n, FALSE, FALSE)

LEMMA KindOfShift ==
  ASSUME NEW v, NEW n, NEW left \in BOOLEAN, NEW logical \in BOOLEAN
  PROVE  Shifted(v, n, left, logical) =
           ShiftedBy(IF left THEN "left" ELSE IF logical THEN "right" ELSE "signed", v, n)
<1>1. CASE left = TRUE
  <2>1. Shifted(v, n, left, logical) = Shifted(v, n, TRUE, TRUE)
    BY <1>1, Zenon DEF Shifted
  <2>2. ShiftedBy("left", v, n) = Shifted(v, n, TRUE, TRUE)
    BY Zenon DEF ShiftedBy
  <2>3. QED
    BY <1>1, <2>1, <2>2, Zenon
<1>2. CASE left = FALSE /\ logical = TRUE
  <2>1. "left" # "right"
    OBVIOUS
  <2>2. ShiftedBy("right", v, n) = Shifted(v, n, FALSE, TRUE)
    BY <2>1, Zenon DEF ShiftedBy
  <2>3. QED
    BY <1>2, <2>2, Zenon
<1>3. CASE left = FALSE /\ logical = FALSE
  <2>1. "signed" # "left" /\ "signed" # "right"
    OBVIOUS
  <2>2. ShiftedBy("signed", v, n) = Shifted(v, n, FALSE, FALSE)
    BY <2>1, Zenon DEF ShiftedBy
  <2>3. QED
    BY <1>3, <2>2, Zenon
<1>4. QED
  BY <1>1, <1>2, <1>3

(* The value and the last bit of a shift, apart                            *)
LEMMA LeftIs ==
  ASSUME NEW v, NEW n
  PROVE  /\ ShiftedBy("left", v, n).value = (v * Weight[n % Width]) % Long
         /\ ShiftedBy("left", v, n).last = (n \in 1 .. Width /\ Bit(v, Width - n))
BY Zenon DEF ShiftedBy, Shifted

LEMMA RightIs ==
  ASSUME NEW v, NEW n
  PROVE  /\ ShiftedBy("right", v, n).value = IF n >= Width THEN 0 ELSE v \div Weight[n]
         /\ ShiftedBy("right", v, n).last = (n \in 1 .. Width /\ Bit(v, n - 1))
<1>1. "left" # "right"
  OBVIOUS
<1>2. QED
  BY <1>1, Zenon DEF ShiftedBy, Shifted

LEMMA SignedIs ==
  ASSUME NEW v, NEW n
  PROVE  /\ ShiftedBy("signed", v, n).value =
              IF n >= Width THEN 0 ELSE (Signed(v, Long) \div Weight[n]) % Long
         /\ ShiftedBy("signed", v, n).last = (n \in 1 .. Width /\ Bit(v, n - 1))
<1>1. "signed" # "left" /\ "signed" # "right"
  OBVIOUS
<1>2. QED
  BY <1>1, Zenon DEF ShiftedBy, Shifted

LEMMA SameShift ==
  ASSUME NEW kind, NEW v, NEW n, NEW u, NEW m,
         ShiftedBy(kind, v, n).value = ShiftedBy(kind, u, m).value,
         ShiftedBy(kind, v, n).last = ShiftedBy(kind, u, m).last
  PROVE  ShiftedBy(kind, v, n) = ShiftedBy(kind, u, m)
<1>1. PICK x, y : ShiftedBy(kind, v, n) = [value |-> x, last |-> y]
  BY Zenon DEF ShiftedBy, Shifted
<1>2. PICK z, t : ShiftedBy(kind, u, m) = [value |-> z, last |-> t]
  BY Zenon DEF ShiftedBy, Shifted
<1>3. QED
  BY <1>1, <1>2

LEMMA LeftComposes ==
  ASSUME NEW v \in Value, NEW n \in 2 .. Width - 1
  PROVE  ShiftedBy("left", v, n)
           = ShiftedBy("left", ShiftedBy("left", v, n - 1).value, 1)
<1> DEFINE w == Weight[n - 1]
           t == Weight[Width - n]
           x == v * w
           q == x \div Long
           u == x % Long
<1>1. /\ Width \in Nat /\ n \in 0 .. Width - 1 /\ n - 1 \in 0 .. Width - 1
      /\ Width - n \in 0 .. Width /\ (n - 1) + (Width - n) = Width - 1
      /\ (n - 1) + 1 = n
  BY WidthAssumption
<1>2. n % Width = n /\ (n - 1) % Width = n - 1
  BY <1>1, Small
<1>3. w \in Nat \ {0} /\ t \in Nat \ {0} /\ v \in Nat /\ Long \in Nat \ {0}
  BY <1>1, WeightTyped, SizesPositive DEF Value
<1>4. Weight[n] = 2 * w
  <2>1. Weight[(n - 1) + 1] = 2 * Weight[n - 1]
    BY <1>1, WeightAssumption
  <2>2. QED
    BY <1>1, <2>1
<1>5. Half = w * t
  <2>1. Weight[(n - 1) + (Width - n)] = Weight[n - 1] * Weight[Width - n]
    BY <1>1, WeightProduct
  <2>2. QED
    BY <1>1, <2>1 DEF Half
<1>6. ShiftedBy("left", v, n - 1).value = u
  BY <1>2, LeftIs
<1>7. /\ ShiftedBy("left", v, n).value = (v * Weight[n]) % Long
      /\ ShiftedBy("left", v, n).last = (n \in 1 .. Width /\ Bit(v, Width - n))
  BY <1>2, LeftIs
<1>8. /\ ShiftedBy("left", u, 1).value = (u * 2) % Long
      /\ ShiftedBy("left", u, 1).last = (1 \in 1 .. Width /\ Bit(u, Width - 1))
  BY WeightOne, LeftIs
<1> HIDE DEF w, t
<1>9. x \in Nat
  BY <1>3
<1>10. (v * Weight[n]) % Long = (u * 2) % Long
  <2>1. v * Weight[n] = 2 * x
    BY <1>3, <1>4
  <2> HIDE DEF x
  <2>2. q \in Int /\ u \in Int /\ x = q * Long + u
    BY <1>3, <1>9, Divided
  <2> HIDE DEF q, u
  <2>3. 2 * x = u * 2 + (2 * q) * Long
    BY <1>3, <2>2
  <2>4. u * 2 \in Int /\ 2 * q \in Int
    BY <2>2
  <2>5. (u * 2 + (2 * q) * Long) % Long = (u * 2) % Long
    BY <1>3, <2>4, Multiples
  <2>6. QED
    BY <2>1, <2>3, <2>5
<1>11. Bit(v, Width - n) = Bit(u, Width - 1)
  <2>1. x \div w = v
    <3>1. 0 \in 0 .. w - 1 /\ x = v * w + 0
      BY <1>3, <1>9
    <3>2. QED
      BY <1>3, <1>9, <3>1, OnlyQuotient
  <2> HIDE DEF x
  <2>2. x \div (w * t) = (x \div w) \div t
    <3>1. w \in Nat \ {0} /\ t \in Nat \ {0} /\ x \in Int
      BY <1>3, <1>9
    <3>2. QED
      BY <3>1, DividedTwice, Zenon
  <2>3. ((x % (2 * Half)) \div Half) % 2 = (x \div Half) % 2
    BY <1>9, LongIsTwoHalves, UpperBit
  <2>4. (u \div Half) % 2 = (v \div t) % 2
    BY <1>5, <2>1, <2>2, <2>3, LongIsTwoHalves
  <2>5. QED
    BY <2>4 DEF Bit, Half, t
<1>12. n \in 1 .. Width /\ 1 \in 1 .. Width
  BY <1>1
<1>13. QED
  <2> HIDE DEF u
  <2>1. ShiftedBy("left", v, n) = ShiftedBy("left", u, 1)
    BY <1>7, <1>8, <1>10, <1>11, <1>12, SameShift
  <2>2. QED
    BY <1>6, <2>1

LEMMA RightComposes ==
  ASSUME NEW v \in Value, NEW n \in 2 .. 2 * Width - 1
  PROVE  ShiftedBy("right", v, n)
           = ShiftedBy("right", ShiftedBy("right", v, n - 1).value, 1)
<1>1. Width \in Nat /\ ~(1 >= Width) /\ Weight[1] = 2 /\ Weight[0] = 1 /\ 1 \in 1 .. Width
  BY WidthAssumption, WeightOne
<1>2. v \in Nat /\ v < Long /\ Long \in Nat
  BY SizesPositive DEF Value
<1>3. ASSUME NEW u
      PROVE  /\ ShiftedBy("right", u, 1).value = u \div 2
             /\ ShiftedBy("right", u, 1).last = Bit(u, 0)
  <2>1. (1 \in 1 .. Width /\ Bit(u, 1 - 1)) = Bit(u, 0)
    BY <1>1 DEF Bit
  <2>2. QED
    BY <1>1, <2>1, RightIs
<1>4. /\ ShiftedBy("right", v, n).value = IF n >= Width THEN 0 ELSE v \div Weight[n]
      /\ ShiftedBy("right", v, n).last = (n \in 1 .. Width /\ Bit(v, n - 1))
  BY RightIs
<1>5. ShiftedBy("right", v, n - 1).value
        = IF n - 1 >= Width THEN 0 ELSE v \div Weight[n - 1]
  BY RightIs
<1>6. CASE n <= Width
  <2> DEFINE w == Weight[n - 1]
             u == v \div w
  <2>1. /\ n - 1 \in 0 .. Width - 1 /\ n - 1 \in 0 .. Width /\ (n - 1) + 1 = n
        /\ ~(n - 1 >= Width) /\ n \in 1 .. Width
    BY <1>1, <1>6
  <2>2. w \in Nat \ {0} /\ Weight[(n - 1) + 1] = 2 * Weight[n - 1]
    BY <2>1, WeightTyped, WeightAssumption
  <2>3. Weight[n] = w * 2
    BY <2>1, <2>2
  <2> HIDE DEF w
  <2>4. u \in Nat
    BY <1>2, <2>2
  <2>5. v \div Weight[n] = u \div 2
    BY <1>2, <2>2, <2>3, DividedTwice, SMTT(30)
  <2>6. n = Width => u \div 2 = 0
    <3> SUFFICES ASSUME n = Width PROVE u \div 2 = 0
      OBVIOUS
    <3>1. Long = Weight[n]
      BY DEF Long
    <3>2. Weight[n] \in Nat \ {0} /\ v \in 0 .. Weight[n] - 1
      BY <1>2, <3>1, SizesPositive
    <3>3. v = 0 * Weight[n] + v
      BY <1>2, <3>2
    <3>4. v \div Weight[n] = 0
      BY <1>2, <3>2, <3>3, OnlyQuotient
    <3>5. QED
      BY <2>5, <3>4
  <2>7. Bit(u, 0) = Bit(v, n - 1)
    <3>1. u \div 1 = u
      BY <2>4
    <3>2. QED
      BY <1>1, <3>1 DEF Bit, w
  <2>8. n >= Width => n = Width
    BY <1>1, <1>6
  <2>9. ShiftedBy("right", v, n - 1).value = u
    BY <1>5, <2>1 DEF w
  <2> HIDE DEF u
  <2>10. ShiftedBy("right", v, n).value = ShiftedBy("right", u, 1).value
    BY <1>3, <1>4, <2>5, <2>6, <2>8
  <2>11. ShiftedBy("right", v, n).last = ShiftedBy("right", u, 1).last
    BY <1>3, <1>4, <2>1, <2>7 DEF Bit
  <2>12. ShiftedBy("right", v, n) = ShiftedBy("right", u, 1)
    BY <2>10, <2>11, SameShift
  <2>13. QED
    BY <2>9, <2>12
<1>7. CASE n > Width
  <2>1. n - 1 >= Width /\ n >= Width /\ n \notin 1 .. Width
    BY <1>1, <1>7
  <2>2. 0 \div 2 = 0 /\ ~Bit(0, 0)
    <3>1. 0 \div 1 = 0 /\ 0 \div 2 = 0 /\ 0 % 2 = 0
      OBVIOUS
    <3>2. QED
      BY <1>1, <3>1 DEF Bit
  <2>3. ShiftedBy("right", 0, 1).value = 0 /\ ShiftedBy("right", 0, 1).last = FALSE
    BY <1>3, <2>2 DEF Bit
  <2>4. ShiftedBy("right", v, n).value = 0 /\ ShiftedBy("right", v, n).last = FALSE
    BY <1>4, <2>1
  <2>5. ShiftedBy("right", v, n) = ShiftedBy("right", 0, 1)
    <3>1. ShiftedBy("right", v, n).value = ShiftedBy("right", 0, 1).value
      BY <2>3, <2>4
    <3>2. ShiftedBy("right", v, n).last = ShiftedBy("right", 0, 1).last
      BY <2>3, <2>4
    <3>3. QED
      BY <3>1, <3>2, SameShift
  <2>6. QED
    BY <1>5, <2>1, <2>5
<1>8. QED
  BY <1>1, <1>6, <1>7
LEMMA SignedComposes ==
  ASSUME NEW v \in Value, NEW n \in 2 .. Width - 1
  PROVE  ShiftedBy("signed", v, n) = ShiftedBy("signed", ShiftedBy("signed", v, n - 1).value, 1)
<1> DEFINE w == Weight[n - 1]
           t == Weight[Width - n]
           x == Signed(v, Long)
           p == x \div w
           u == p % Long
<1>1. /\ Width \in Nat /\ n \in 0 .. Width - 1 /\ n - 1 \in 0 .. Width - 1 /\ n - 1 \in 0 .. Width
      /\ Width - n \in 0 .. Width - 1 /\ Width - n \in 0 .. Width
      /\ (Width - n) + 1 \in 0 .. Width /\ (n - 1) + ((Width - n) + 1) = Width
      /\ (n - 1) + 1 = n /\ ~(n >= Width) /\ ~(n - 1 >= Width) /\ n \in 1 .. Width
      /\ ~(1 >= Width) /\ 1 \in 1 .. Width
  BY WidthAssumption, WeightOne
<1>2. w \in Nat \ {0} /\ t \in Nat \ {0} /\ v \in Nat /\ Long \in Nat \ {0}
  BY <1>1, WeightTyped, SizesPositive DEF Value
<1>3. Weight[n] = w * 2
  <2>1. Weight[(n - 1) + 1] = 2 * Weight[n - 1]
    BY <1>1, WeightAssumption
  <2>2. QED
    BY <1>1, <1>2, <2>1
<1>4. Long = (2 * t) * w
  <2>1. Weight[(n - 1) + ((Width - n) + 1)] = Weight[n - 1] * Weight[(Width - n) + 1]
    BY <1>1, WeightProduct
  <2>2. Weight[(Width - n) + 1] = 2 * Weight[Width - n]
    BY <1>1, WeightAssumption
  <2>3. Long = w * (2 * t)
    BY <1>1, <2>1, <2>2 DEF Long
  <2> HIDE DEF w, t
  <2>4. QED
    BY <1>2, <2>3
<1> HIDE DEF w, t
<1>5. PICK c \in {0, 1} : x \in -Half .. Half - 1 /\ v = x + c * Long
  <2>1. x = IF v >= Half THEN v - Long ELSE v
    BY SignOfLong
  <2>2. v \in 0 .. Long - 1 /\ Half \in Nat \ {0} /\ Long = 2 * Half
    BY LongIsTwoHalves DEF Value
  <2>3. CASE v >= Half
    <3>1. x \in -Half .. Half - 1 /\ v = x + 1 * Long
      BY <2>1, <2>2, <2>3
    <3>2. QED
      BY <3>1
  <2>4. CASE ~(v >= Half)
    <3>1. x \in -Half .. Half - 1 /\ v = x + 0 * Long
      BY <2>1, <2>2, <2>4
    <3>2. QED
      BY <3>1
  <2>5. QED
    BY <2>3, <2>4
<1> HIDE DEF x
<1>6. x \in Int /\ Half \in Nat \ {0} /\ Long = 2 * Half
  BY <1>5, LongIsTwoHalves
<1>7. p \in -Half .. Half - 1
  <2>1. p \in Int /\ x % w \in 0 .. w - 1 /\ x = p * w + (x % w)
    BY <1>2, <1>6, Divided
  <2> DEFINE r == x % w
  <2> HIDE DEF p, r
  <2>2. r \in 0 .. w - 1 /\ x = p * w + r /\ p * w \in Int
    BY <1>2, <2>1 DEF r
  <2>3. p >= 0 => p * w >= p
    <3> SUFFICES ASSUME p >= 0 PROVE p * w >= p
      OBVIOUS
    <3>1. p \in Nat /\ w - 1 \in Nat
      BY <1>2, <2>1
    <3>2. p * (w - 1) \in Nat
      BY <3>1
    <3>3. p * w = p * (w - 1) + p
      BY <1>2, <3>1
    <3>4. QED
      BY <3>1, <3>2, <3>3
  <2>4. p < 0 => p * w + w <= p + 1
    <3> SUFFICES ASSUME p < 0 PROVE p * w + w <= p + 1
      OBVIOUS
    <3>1. -(p + 1) \in Nat /\ w - 1 \in Nat
      BY <1>2, <2>1
    <3>2. (-(p + 1)) * (w - 1) \in Nat
      BY <3>1
    <3>3. p * w + w = p + 1 - (-(p + 1)) * (w - 1)
      BY <1>2, <2>1
    <3>4. p * w + w \in Int
      BY <1>2, <2>2
    <3>5. QED
      BY <2>1, <3>2, <3>3, <3>4
  <2>5. CASE p >= 0
    <3>1. p <= x
      BY <1>2, <1>6, <2>1, <2>2, <2>3, <2>5
    <3>2. QED
      BY <1>5, <1>6, <2>1, <2>5, <3>1
  <2>6. CASE p < 0
    <3>1. x <= p
      BY <1>2, <1>6, <2>1, <2>2, <2>4, <2>6
    <3>2. QED
      BY <1>5, <1>6, <2>1, <2>6, <3>1
  <2>7. QED
    BY <2>1, <2>5, <2>6
<1> HIDE DEF p
<1>8. PICK e \in {0, 1} : u \in Value /\ u = p + e * Long /\ Signed(u, Long) = p
  <2>1. CASE p >= 0
    <3>1. p \in 0 .. Long - 1
      BY <1>6, <1>7, <2>1
    <3>2. u = p
      BY <1>2, <3>1, Small
    <3>3. u \in Value /\ u = p + 0 * Long /\ u < Half
      BY <1>6, <1>7, <3>1, <3>2 DEF Value
    <3>4. Signed(u, Long) = p
      BY <1>6, <1>7, <3>2, <3>3, SignOfLong
    <3>5. QED
      BY <3>3, <3>4
  <2>2. CASE p < 0
    <3>1. p \in -Long .. -1
      BY <1>6, <1>7, <2>2
    <3>2. u = p + Long
      BY <1>2, <3>1, Below
    <3>3. u \in Value /\ u = p + 1 * Long /\ u >= Half
      BY <1>6, <1>7, <2>2, <3>1, <3>2 DEF Value
    <3> HIDE DEF u
    <3>4. Signed(u, Long) = p
      BY <1>6, <1>7, <3>2, <3>3, SignOfLong
    <3>5. QED
      BY <3>3, <3>4
  <2>3. QED
    BY <1>7, <2>1, <2>2
<1>9. ShiftedBy("signed", v, n - 1).value = u
  BY <1>1, SignedIs DEF u, p, x, w
<1> HIDE DEF u
<1>10. p \in Int
  BY <1>6, <1>7
<1>11. ShiftedBy("signed", v, n).value = ShiftedBy("signed", u, 1).value
  <2>1. x \div Weight[n] = p \div 2
    BY <1>2, <1>3, <1>6, DividedTwice, SMTT(30) DEF p
  <2>2. ShiftedBy("signed", v, n).value = (x \div Weight[n]) % Long
    BY <1>1, SignedIs DEF x
  <2>3. ShiftedBy("signed", u, 1).value = (Signed(u, Long) \div Weight[1]) % Long
    BY <1>1, SignedIs
  <2>4. QED
    BY <1>8, <2>1, <2>2, <2>3, WeightOne
<1>12. Bit(v, n - 1) = Bit(u, 0)
  <2>1. (v \div w) % 2 = p % 2
    <3> DEFINE k == c * (2 * t)
    <3>1. k \in Int /\ c * t \in Int
      BY <1>2, <1>5
    <3>2. k * w = c * Long
      BY <1>2, <1>4, <1>5
    <3> HIDE DEF k
    <3>3. v = x + k * w
      BY <1>5, <3>2
    <3>4. v \div w = p + k
      <4>1. (x + k * w) \div w = x \div w + k
        BY <1>2, <1>6, <3>1, Multiples
      <4>2. QED
        BY <3>3, <4>1 DEF p
    <3>5. k = (c * t) * 2
      BY <1>2, <1>5 DEF k
    <3>6. (p + (c * t) * 2) % 2 = p % 2
      BY <1>10, <3>1, Multiples
    <3>7. QED
      BY <3>4, <3>5, <3>6
  <2>2. (u \div 1) % 2 = p % 2
    <3>1. u = p + (e * Half) * 2 /\ e * Half \in Int
      BY <1>6, <1>8, <1>10
    <3>2. (p + (e * Half) * 2) % 2 = p % 2
      BY <1>10, <3>1, Multiples
    <3>3. u \div 1 = u
      BY <1>2, <1>8 DEF Value
    <3>4. QED
      BY <3>1, <3>2, <3>3
  <2>3. QED
    BY <2>1, <2>2, WeightOne DEF Bit, w
<1>13. ShiftedBy("signed", v, n).last = ShiftedBy("signed", u, 1).last
  <2>1. ShiftedBy("signed", v, n).last = (n \in 1 .. Width /\ Bit(v, n - 1))
    BY SignedIs
  <2>2. ShiftedBy("signed", u, 1).last = (1 \in 1 .. Width /\ Bit(u, 1 - 1))
    BY SignedIs
  <2>3. 1 - 1 = 0
    OBVIOUS
  <2>4. QED
    BY <1>1, <1>12, <2>1, <2>2, <2>3 DEF Bit
<1>14. ShiftedBy("signed", v, n) = ShiftedBy("signed", u, 1)
  BY <1>11, <1>13, SameShift
<1>15. QED
  BY <1>9, <1>14

(* A shift by n leaves the value, the carry and the extend bit that n      *)
(* shifts by one leave, for registers of any width: the last bit is the    *)
(* one the code picks with a mask, the sign is kept, and the count that    *)
(* C++ would not shift by is looked at first.                              *)
THEOREM ShiftsAreSteps == Spec => []ShiftsCompose
<1>1. IInv => ShiftsCompose
  <2> SUFFICES ASSUME IInv, NEW r \in Reg, NEW n \in 2 .. 2 * Width - 1,
                      NEW left \in BOOLEAN, NEW logical \in BOOLEAN,
                      n < Width \/ (~left /\ logical)
               PROVE  Shifted(d[r], n, left, logical)
                        = Shifted(Shifted(d[r], n - 1, left, logical).value, 1, left, logical)
    BY DEF ShiftsCompose
  <2> DEFINE v == d[r]
             kind == IF left THEN "left" ELSE IF logical THEN "right" ELSE "signed"
  <2>1. v \in Value
    BY DEF IInv, TypeOK
  <2> HIDE DEF v
  <2>2. n < Width => n \in 2 .. Width - 1
    BY WidthAssumption
  <2>3. kind = "right" \/ (n < Width /\ kind \in {"left", "signed"})
    OBVIOUS
  <2>4. \A x, m : Shifted(x, m, left, logical) = ShiftedBy(kind, x, m)
    BY KindOfShift, Zenon
  <2> HIDE DEF kind
  <2>5. ShiftedBy(kind, v, n) = ShiftedBy(kind, ShiftedBy(kind, v, n - 1).value, 1)
    BY <2>1, <2>2, <2>3, LeftComposes, RightComposes, SignedComposes
  <2>6. QED
    BY <2>4, <2>5, Zenon DEF v
<1>2. QED
  BY <1>1, Invariance, PTL
-----------------------------------------------------------------------------
(* Division *)

(* Quotients towards zero, told from the absolute values                   *)
LEMMA Truncates ==
  ASSUME NEW a \in Int, NEW b \in Int, b # 0
  PROVE  LET k == Abs(a) \div Abs(b)
             m == Abs(a) % Abs(b)
         IN  /\ k \in Nat /\ m \in 0 .. Abs(b) - 1 /\ Abs(a) = k * Abs(b) + m
             /\ Quotient(a, b) = (IF (a < 0) = (b < 0) THEN k ELSE -k)
             /\ Remainder(a, b) = (IF a < 0 THEN -m ELSE m)
<1> DEFINE k == Abs(a) \div Abs(b)
           m == Abs(a) % Abs(b)
<1>1. Abs(a) \in Nat /\ Abs(b) \in Nat \ {0}
  BY DEF Abs
<1>2. k \in Int /\ m \in 0 .. Abs(b) - 1 /\ Abs(a) = k * Abs(b) + m
  <2> DEFINE A == Abs(a)
             B == Abs(b)
  <2>1. A \in Int /\ B \in Nat \ {0}
    BY <1>1
  <2> HIDE DEF A, B
  <2>2. A \div B \in Int /\ A % B \in 0 .. B - 1 /\ A = (A \div B) * B + (A % B)
    BY <2>1, Divided
  <2>3. QED
    BY <2>2, Zenon DEF A, B
<1>3. k \in Nat
  BY <1>1
<1>4. Quotient(a, b) = (IF (a < 0) = (b < 0) THEN k ELSE -k)
  BY Zenon DEF Quotient
<1> HIDE DEF k, m
<1>5. Remainder(a, b) = (IF a < 0 THEN -m ELSE m)
  <2>1. CASE a < 0 /\ b < 0
    <3>1. -a = k * (-b) + m /\ Remainder(a, b) = a - k * b
      BY <1>2, <1>4, <2>1 DEF Abs, Remainder
    <3>2. k * (-b) = -(k * b) /\ k * b \in Int
      BY <1>3
    <3>3. QED
      BY <1>2, <2>1, <3>1, <3>2
  <2>2. CASE a < 0 /\ ~(b < 0)
    <3>1. -a = k * b + m /\ Remainder(a, b) = a - (-k) * b
      BY <1>2, <1>4, <2>2 DEF Abs, Remainder
    <3>2. (-k) * b = -(k * b) /\ k * b \in Int
      BY <1>3
    <3>3. QED
      BY <1>2, <2>2, <3>1, <3>2
  <2>3. CASE ~(a < 0) /\ b < 0
    <3>1. a = k * (-b) + m /\ Remainder(a, b) = a - (-k) * b
      BY <1>2, <1>4, <2>3 DEF Abs, Remainder
    <3>2. k * (-b) = -(k * b) /\ (-k) * b = -(k * b) /\ k * b \in Int
      BY <1>3
    <3>3. QED
      BY <1>2, <2>3, <3>1, <3>2
  <2>4. CASE ~(a < 0) /\ ~(b < 0)
    <3>1. a = k * b + m /\ Remainder(a, b) = a - k * b
      BY <1>2, <1>4, <2>4 DEF Abs, Remainder
    <3>2. k * b \in Int
      BY <1>3
    <3>3. QED
      BY <1>2, <2>4, <3>1, <3>2
  <2>5. QED
    BY <2>1, <2>2, <2>3, <2>4
<1>6. QED
  BY <1>2, <1>3, <1>4, <1>5 DEF k, m

(* Any other way to write the number with a small rest is next to it, on   *)
(* the far side of zero.                                                   *)
LEMMA NearQuotient ==
  ASSUME NEW a \in Int, NEW b \in Int, b # 0, NEW q \in Int, NEW m \in Int,
         q * b + m = a, Abs(m) < Abs(b)
  PROVE  IF (a < 0) = (b < 0) THEN Quotient(a, b) \in {q, q - 1} /\ Quotient(a, b) >= 0
                              ELSE Quotient(a, b) \in {q, q + 1} /\ Quotient(a, b) <= 0
<1> DEFINE B == Abs(b)
           k == Abs(a) \div B
<1>1. B \in Nat \ {0} /\ k \in Nat
  BY Truncates DEF Abs
<1>2. Quotient(a, b) = (IF (a < 0) = (b < 0) THEN k ELSE -k)
  BY Truncates
<1>3. ASSUME NEW p \in Int, NEW r \in Int, Abs(r) = Abs(m), Abs(a) = p * B + r
      PROVE  k \in {p, p - 1}
  <2>1. r \in -(B - 1) .. B - 1 /\ Abs(a) \in Int
    BY <1>1, <1>3 DEF Abs
  <2>2. CASE r >= 0
    <3>1. r \in 0 .. B - 1
      BY <1>1, <2>1, <2>2
    <3>2. k = p
      BY <1>1, <1>3, <2>1, <3>1, OnlyQuotient
    <3>3. QED
      BY <3>2
  <2>3. CASE r < 0
    <3> HIDE DEF B
    <3>1. r + B \in 0 .. B - 1
      BY <1>1, <2>1, <2>3
    <3>2. Abs(a) = (p - 1) * B + (r + B) /\ p - 1 \in Int
      BY <1>1, <1>3
    <3>3. k = p - 1
      <4> DEFINE A == Abs(a)
                 i == p - 1
                 j == r + B
      <4>1. A \in Int /\ i \in Int /\ j \in 0 .. B - 1 /\ A = i * B + j
        BY <2>1, <3>1, <3>2
      <4> HIDE DEF A, i, j
      <4>2. A \div B = i
        BY <1>1, <4>1, OnlyQuotient
      <4>3. QED
        BY <4>2 DEF A, i
    <3>4. QED
      BY <3>3
  <2>4. QED
    BY <2>1, <2>2, <2>3
<1> DEFINE x == q * b
<1>4. x \in Int /\ q * (-b) = -x /\ (-q) * b = -x /\ (-q) * (-b) = x
  OBVIOUS
<1>5. x + m = a
  OBVIOUS
<1>6. Abs(-m) = Abs(m) /\ -q \in Int /\ -m \in Int
  BY DEF Abs
<1> HIDE DEF x, k
<1>7. CASE a < 0 /\ b < 0
  <2>1. Abs(a) = q * B + (-m)
    BY <1>4, <1>5, <1>7 DEF Abs, x
  <2>2. k \in {q, q - 1}
    BY <1>3, <1>6, <2>1
  <2>3. QED
    BY <1>1, <1>2, <1>7, <2>2
<1>8. CASE a < 0 /\ ~(b < 0)
  <2>1. Abs(a) = (-q) * B + (-m)
    BY <1>4, <1>5, <1>8 DEF Abs, x
  <2>2. k \in {-q, -q - 1}
    BY <1>3, <1>6, <2>1
  <2>3. QED
    BY <1>1, <1>2, <1>8, <2>2
<1>9. CASE ~(a < 0) /\ b < 0
  <2>1. Abs(a) = (-q) * B + m
    BY <1>4, <1>5, <1>9 DEF Abs, x
  <2>2. k \in {-q, -q - 1}
    BY <1>3, <1>6, <2>1
  <2>3. QED
    BY <1>1, <1>2, <1>9, <2>2
<1>10. CASE ~(a < 0) /\ ~(b < 0)
  <2>1. Abs(a) = q * B + m
    BY <1>4, <1>5, <1>10 DEF Abs, x
  <2>2. k \in {q, q - 1}
    BY <1>3, <2>1
  <2>3. QED
    BY <1>1, <1>2, <1>10, <2>2
<1>11. QED
  BY <1>7, <1>8, <1>9, <1>10
(* A number that fits is what its lower bits say.                          *)
InRange(x, signed) ==
  IF signed THEN x \in -(Word \div 2) .. Word \div 2 - 1 ELSE x \in 0 .. Word - 1

LEMMA WordIsTwoHalves ==
  \E h \in Nat \ {0} : Word = 2 * h /\ Word \div 2 = h
BY SizeFacts DEF Sizes

LEMMA CutNumber ==
  ASSUME NEW signed \in BOOLEAN, NEW x \in Int, InRange(x, signed),
         NEW y \in Int, y % Word = x % Word
  PROVE  Number(y, Word, signed) = x
<1>1. PICK h \in Nat \ {0} : Word = 2 * h /\ Word \div 2 = h
  BY WordIsTwoHalves
<1>2. Word \in Nat \ {0}
  BY <1>1
<1>3. CASE x >= 0
  <2>1. x \in 0 .. Word - 1 /\ (signed => x < h)
    BY <1>1, <1>3 DEF InRange
  <2>2. y % Word = x
    BY <1>2, <2>1, Small
  <2>3. QED
    BY <1>1, <2>1, <2>2 DEF Number, Signed, Sign
<1>4. CASE x < 0
  <2>1. signed /\ x \in -h .. -1 /\ x \in -Word .. -1
    BY <1>1, <1>4 DEF InRange
  <2>2. y % Word = x + Word
    BY <1>2, <2>1, Below
  <2>3. QED
    BY <1>1, <2>1, <2>2 DEF Number, Signed, Sign
<1>5. QED
  BY <1>3, <1>4

LEMMA NumberInRange ==
  ASSUME NEW signed \in BOOLEAN, NEW y \in Int
  PROVE  InRange(Number(y, Word, signed), signed) /\ Number(y, Word, signed) \in Int
<1>1. PICK h \in Nat \ {0} : Word = 2 * h /\ Word \div 2 = h
  BY WordIsTwoHalves
<1>2. y % Word \in 0 .. Word - 1
  BY <1>1, Bounded
<1>3. CASE signed
  BY <1>1, <1>2, <1>3 DEF InRange, Number, Signed, Sign
<1>4. CASE ~signed
  BY <1>1, <1>2, <1>4 DEF InRange, Number
<1>5. QED
  BY <1>3, <1>4

(* The operands of DIVS.W and DIVU.W                                       *)
LEMMA Operands ==
  ASSUME NEW dst \in Value, NEW src \in 1 .. Word - 1, NEW signed \in BOOLEAN
  PROVE  LET a == Number(dst, Long, signed)
             b == Number(src, Word, signed)
         IN  /\ a \in Int /\ b \in Int /\ b # 0 /\ InRange(b, signed)
             /\ ~signed => a >= 0 /\ b > 0
<1>1. PICK h \in Nat \ {0} : Word = 2 * h /\ Word \div 2 = h
  BY WordIsTwoHalves
<1>2. Long \in Nat \ {0} /\ dst \in Nat
  BY SizesPositive DEF Value
<1>3. Number(dst, Long, signed) \in Int /\ (~signed => Number(dst, Long, signed) >= 0)
  BY <1>2, SignedTyped DEF Number
<1>4. src % Word = src
  BY <1>1, Small
<1>5. /\ Number(src, Word, signed) \in Int /\ Number(src, Word, signed) # 0
      /\ (~signed => Number(src, Word, signed) > 0)
  BY <1>1, <1>4 DEF Number, Signed, Sign
<1>6. InRange(Number(src, Word, signed), signed)
  BY <1>1, NumberInRange
<1>7. QED
  BY <1>3, <1>5, <1>6

LEMMA FitsIsInRange ==
  ASSUME NEW dst \in Value, NEW src \in 1 .. Word - 1, NEW signed \in BOOLEAN
  PROVE  DivFits(dst, src, signed)
           <=> InRange(Quotient(Number(dst, Long, signed), Number(src, Word, signed)), signed)
<1> DEFINE a == Number(dst, Long, signed)
           b == Number(src, Word, signed)
           q == Quotient(a, b)
<1>1. a \in Int /\ b \in Int /\ b # 0 /\ (~signed => a >= 0 /\ b > 0)
  BY Operands
<1> HIDE DEF a, b
<1>2. q \in Int /\ ((a < 0) = (b < 0) => q >= 0)
  <2>1. \E k \in Nat : q = IF (a < 0) = (b < 0) THEN k ELSE -k
    BY <1>1, Truncates, Zenon
  <2> HIDE DEF q
  <2>2. QED
    BY <2>1
<1>3. DivFits(dst, src, signed) =
        (IF signed THEN q \in -(Word \div 2) .. Word \div 2 - 1 ELSE q < Word)
  BY Zenon DEF DivFits, a, b
<1> HIDE DEF q
<1>4. InRange(q, signed) = (IF signed THEN q \in -(Word \div 2) .. Word \div 2 - 1 ELSE q < Word)
  BY <1>1, <1>2, SizesPositive DEF InRange
<1>5. QED
  BY <1>3, <1>4 DEF q, a, b

(* The two words of the result                                             *)
LEMMA WordsOf ==
  ASSUME NEW dst \in Value, NEW src \in 1 .. Word - 1, NEW signed \in BOOLEAN
  PROVE  LET v == DivWord(dst, src, signed)
             a == Number(dst, Long, signed)
             b == Number(src, Word, signed)
         IN  /\ v \in Int /\ v \div Word \in Int
             /\ v % Word = Quotient(a, b) % Word
             /\ (v \div Word) % Word = Remainder(a, b) % Word
<1> DEFINE v == DivWord(dst, src, signed)
           a == Number(dst, Long, signed)
           b == Number(src, Word, signed)
           q == Quotient(a, b)
           m == Remainder(a, b)
           i == m % Word
           j == q % Word
<1>1. a \in Int /\ b \in Int /\ b # 0
  BY Operands
<1>2. v = i * Word + j
  BY Zenon DEF DivWord
<1> HIDE DEF a, b
<1>3. q \in Int /\ m \in Int
  BY <1>1, QuotientTyped
<1> HIDE DEF q, m
<1>4. Word \in Nat \ {0} /\ i \in 0 .. Word - 1 /\ j \in 0 .. Word - 1
  BY <1>3, SizesPositive, Bounded
<1> HIDE DEF i, j, v
<1>5. v \in Int
  BY <1>2, <1>4
<1>6. v \div Word = i /\ v % Word = j
  BY <1>2, <1>4, <1>5, OnlyQuotient
<1>7. i % Word = i
  BY <1>4, Small
<1>8. v \div Word \in Int /\ (v \div Word) % Word = i
  BY <1>4, <1>6, <1>7
<1>9. QED
  BY <1>5, <1>6, <1>8, Zenon DEF v, a, b, q, m, i, j

LEMMA DivisionIsExact ==
  ASSUME NEW dst \in Value, NEW src \in 1 .. Word - 1, NEW signed \in BOOLEAN
  PROVE  LET v == DivWord(dst, src, signed)
             q == Number(v, Word, signed)
             m == Number(v \div Word, Word, signed)
             a == Number(dst, Long, signed)
             b == Number(src, Word, signed)
         IN  DivFits(dst, src, signed) <=> (q * b + m = a /\ Abs(m) < Abs(b))
<1> DEFINE v == DivWord(dst, src, signed)
           q == Number(v, Word, signed)
           m == Number(v \div Word, Word, signed)
           a == Number(dst, Long, signed)
           b == Number(src, Word, signed)
           Q == Quotient(a, b)
           R == Remainder(a, b)
<1>1. /\ a \in Int /\ b \in Int /\ b # 0 /\ InRange(b, signed)
      /\ (~signed => a >= 0 /\ b > 0)
  BY Operands
<1>2. /\ v \in Int /\ v \div Word \in Int /\ v % Word = Q % Word
      /\ (v \div Word) % Word = R % Word
  BY WordsOf
<1>3. DivFits(dst, src, signed) <=> InRange(Q, signed)
  BY FitsIsInRange
<1> HIDE DEF v, a, b
<1>4. q \in Int /\ m \in Int /\ InRange(q, signed)
  BY <1>2, NumberInRange
<1>5. PICK h \in Nat \ {0} : Word = 2 * h /\ Word \div 2 = h
  BY WordIsTwoHalves
<1>6. Q \in Int /\ R \in Int /\ Abs(R) < Abs(b) /\ Q * b + R = a /\ (a >= 0 => R >= 0)
  <2>1. Q \in Int /\ R \in Int /\ R = a - Q * b
    BY <1>1, QuotientTyped DEF Remainder
  <2>2. Abs(R) < Abs(b) /\ (a >= 0 => R >= 0)
    <3> DEFINE B == Abs(b)
               k == Abs(a) % B
    <3>1. k \in 0 .. B - 1 /\ R = (IF a < 0 THEN -k ELSE k)
      BY <1>1, Truncates, Zenon
    <3>2. B \in Nat
      BY <1>1 DEF Abs
    <3> HIDE DEF B, k, R
    <3>3. Abs(R) < B /\ (a >= 0 => R >= 0)
      BY <1>1, <3>1, <3>2 DEF Abs
    <3>4. QED
      BY <3>3 DEF B
  <2> HIDE DEF Q, R
  <2>3. Q * b \in Int
    BY <1>1, <2>1
  <2>4. QED
    BY <1>1, <2>1, <2>2, <2>3
<1>7. ASSUME InRange(Q, signed)
      PROVE  q * b + m = a /\ Abs(m) < Abs(b)
  <2>1. q = Q
    <3> HIDE DEF Q
    <3>1. QED
      BY <1>2, <1>6, <1>7, CutNumber
  <2>2. InRange(R, signed)
    <3> HIDE DEF Q, R
    <3>1. QED
      BY <1>1, <1>5, <1>6 DEF InRange, Abs
  <2>3. m = R
    <3> HIDE DEF R
    <3>1. QED
      BY <1>2, <1>6, <2>2, CutNumber
  <2>4. QED
    BY <1>6, <2>1, <2>3
<1>8. ASSUME q * b + m = a, Abs(m) < Abs(b)
      PROVE  InRange(Q, signed)
  <2> HIDE DEF q, m
  <2>1. IF (a < 0) = (b < 0) THEN Q \in {q, q - 1} /\ Q >= 0 ELSE Q \in {q, q + 1} /\ Q <= 0
    BY <1>1, <1>4, <1>8, NearQuotient
  <2> HIDE DEF Q
  <2>2. QED
    BY <1>1, <1>4, <1>5, <1>6, <2>1 DEF InRange
<1>9. DivFits(dst, src, signed) <=> (q * b + m = a /\ Abs(m) < Abs(b))
  BY <1>3, <1>7, <1>8
<1>10. QED
  BY <1>9, Zenon DEF v, a, b

(* When DIVS.W or DIVU.W does not report an overflow, the two words of the *)
(* register are the exact quotient and remainder of a register of any      *)
(* width; when it does, no two words could be.                             *)
THEOREM DivisionsAreExact == Spec => []DivisionExact
<1>1. IInv => DivisionExact
  <2> SUFFICES ASSUME IInv PROVE DivisionExact
    OBVIOUS
  <2>1. \A r \in Reg : d[r] \in Value
    BY DEF IInv, TypeOK
  <2>2. QED
    BY <2>1, DivisionIsExact, Zenon DEF DivisionExact
<1>2. QED
  BY <1>1, Invariance, PTL
=============================================================================
