---------------------------- MODULE Instructions ----------------------------
(***************************************************************************)
(* The instructions that compute (ColdFire/Instructions) on the data       *)
(* registers, and the condition codes they leave: Context::SetAllFlags and *)
(* SetNZ_ClrCV of Context.cpp, the conditions of Context.h.  The program   *)
(* is any sequence of instructions; an operand that is not the destination *)
(* register (another register, memory or immediate data) is any value.     *)
(* The rest of the status register is the subject of module Interrupts.    *)
(***************************************************************************)
EXTENDS Integers

CONSTANTS
  Width,   \* bits of a long word; a word has half of them, a byte a quarter
  Weight,  \* Weight[i] is 1 << i, the value of bit i alone
  Reg      \* data registers

Long  == Weight[Width]
Word  == Weight[Width \div 2]
Byte  == Weight[Width \div 4]

ASSUME WidthAssumption  == Width \in Nat \ {0} /\ Width % 4 = 0
ASSUME WeightAssumption ==
  /\ Weight \in [0 .. Width -> Nat \ {0}] /\ Weight[0] = 1
  /\ \A i \in 0 .. Width - 1 : Weight[i + 1] = 2 * Weight[i]
ASSUME SizeAssumption   == Long = Word * Word /\ Word = Byte * Byte /\ Width < Long

VARIABLES
  d,       \* cpu_.d_reg
  ccr,     \* extend, negative, zero, overflow, carry of the CPU
  up,      \* the simulator has not been ended by a fault of its own
  sum      \* no part of the code: the exact sum or difference of many words
           \* that a chain of ADD, ADDX or SUB, SUBX has computed so far

vars == <<d, ccr, up, sum>>

Value == 0 .. Long - 1
Sizes == {Long, Word, Byte}

Sign(v, size)   == (v % size) >= size \div 2
Signed(v, size) == IF Sign(v, size) THEN (v % size) - size ELSE v % size
Extend(v, size) == Signed(v, size) % Long     \* SignExtendByte, SignExtendWord
Bit(v, i)       == (v \div Weight[i]) % 2 = 1

-----------------------------------------------------------------------------
(* The condition codes *)

(* Faulty variant of SetAllFlags: CMP sets X as SUB does.                  *)
SetAllFlagsX(cc, result, arg1, arg2, size, conditional, op) ==
  LET r == Sign(result, size)
      a == Sign(arg1, size)
      b == Sign(arg2, size)
      carry == IF op = "add" THEN (a /\ b) \/ (~r /\ a # b)
               ELSE IF op = "neg" THEN result # 0
               ELSE (a /\ ~b) \/ (r /\ a = b)
  IN  [Z |-> result = 0 /\ (conditional => cc.Z), N |-> r,
       V |-> IF op = "add" THEN a = b /\ r # a
             ELSE IF op = "neg" THEN r = a
             ELSE a # b /\ r # b,
       C |-> carry, X |-> carry]

(* Faulty variant of SetAllFlags: Z is set whatever it was.                *)
SetAllFlagsZ(cc, result, arg1, arg2, size, conditional, op) ==
  [SetAllFlagsX(cc, result, arg1, arg2, size, FALSE, op) EXCEPT
     !.X = IF op = "cmp" THEN cc.X ELSE @]

(* Faulty variant of SetAllFlags: the borrow when the signs agree is lost. *)
SetAllFlagsBorrow(cc, result, arg1, arg2, size, conditional, op) ==
  [SetAllFlagsX(cc, result, arg1, arg2, size, conditional, op) EXCEPT
     !.C = IF op = "cmp" THEN Sign(arg1, size) /\ ~Sign(arg2, size) ELSE @,
     !.X = IF op = "cmp" THEN cc.X ELSE @]

(* For the difference arg2 - arg1 ("sub", "cmp") and the rest              *)
SetAllFlags(cc, result, arg1, arg2, size, conditional, op) ==
  LET r == Sign(result, size)
      a == Sign(arg1, size)
      b == Sign(arg2, size)
      carry == IF op = "add" THEN (a /\ b) \/ (~r /\ a # b)
               ELSE IF op = "neg" THEN result # 0
               ELSE (a /\ ~b) \/ (r /\ a = b)
  IN  [Z |-> result = 0 /\ (conditional => cc.Z), N |-> r,
       V |-> IF op = "add" THEN a = b /\ r # a
             ELSE IF op = "neg" THEN r = a
             ELSE a # b /\ r # b,
       C |-> carry,
       X |-> IF op = "cmp" THEN cc.X ELSE carry]

SetNZ_ClrCV(cc, result, size) ==
  [cc EXCEPT !.Z = result = 0, !.N = Sign(result, size), !.C = FALSE, !.V = FALSE]

Conditions == {"T", "F", "HI", "LS", "CC", "CS", "NE", "EQ", "VC", "VS",
               "PL", "MI", "GE", "LT", "GT", "LE"}

Is(cc) == [c \in Conditions |->
  CASE c = "T"  -> TRUE              [] c = "F"  -> FALSE
    [] c = "HI" -> ~cc.Z /\ ~cc.C    [] c = "LS" -> cc.Z \/ cc.C
    [] c = "CC" -> ~cc.C             [] c = "CS" -> cc.C
    [] c = "NE" -> ~cc.Z             [] c = "EQ" -> cc.Z
    [] c = "VC" -> ~cc.V             [] c = "VS" -> cc.V
    [] c = "PL" -> ~cc.N             [] c = "MI" -> cc.N
    [] c = "GE" -> cc.N = cc.V       [] c = "LT" -> cc.N # cc.V
    [] c = "GT" -> ~cc.Z /\ cc.N = cc.V
    [] c = "LE" -> cc.Z \/ cc.N # cc.V]

-----------------------------------------------------------------------------
(* The history of a chain.  "any": a program that sets the codes itself    *)
(* may begin a sum or a difference with the X and Z it sets.               *)

Apart == [op |-> "none", carry |-> FALSE, zero |-> FALSE, less |-> FALSE,
          whole |-> FALSE, last |-> FALSE]

(* Other instructions keep X, and lose the other codes of the chain.       *)
Aside == [sum EXCEPT !.zero = FALSE, !.less = FALSE, !.whole = FALSE, !.last = FALSE]

Num(b) == IF b THEN 1 ELSE 0

Link(op, src, dst, carry, zero, whole) ==
  LET exact == IF op = "add" THEN dst + src + Num(carry) ELSE dst - src - Num(carry)
      value == IF op = "add"
                 THEN Signed(dst, Long) + Signed(src, Long) + Num(carry)
                 ELSE Signed(dst, Long) - Signed(src, Long) - Num(carry)
  IN  [op |-> op, carry |-> exact \notin Value, less |-> value < 0,
       zero |-> whole /\ zero /\ exact % Long = 0, whole |-> whole, last |-> TRUE]

Begun(op, src, dst) == Link(op, src, dst, FALSE, TRUE, TRUE)

Continued(op, src, dst) ==
  IF sum.op \in {op, "any"} THEN Link(op, src, dst, sum.carry, sum.zero, sum.whole)
                            ELSE Apart

-----------------------------------------------------------------------------
(* The instructions *)

Store(r, v)  == d' = [d EXCEPT ![r] = v]
Steps        == up /\ up' = TRUE

(* ADD, ADDI, ADDQ, SUB, SUBI, SUBQ                                        *)
Add(r, src) ==
  LET result == (d[r] + src) % Long
  IN  /\ Steps /\ Store(r, result)
      /\ ccr' = SetAllFlags(ccr, result, src, d[r], Long, FALSE, "add")
      /\ sum' = Begun("add", src, d[r])

Sub(r, src) ==
  LET result == (d[r] - src) % Long
  IN  /\ Steps /\ Store(r, result)
      /\ ccr' = SetAllFlags(ccr, result, src, d[r], Long, FALSE, "sub")
      /\ sum' = Begun("sub", src, d[r])

AddX(r, src) ==
  LET result == (d[r] + src + Num(ccr.X)) % Long
  IN  /\ Steps /\ Store(r, result)
      /\ ccr' = SetAllFlags(ccr, result, src, d[r], Long, TRUE, "add")
      /\ sum' = Continued("add", src, d[r])

SubX(r, src) ==
  LET result == (d[r] - src - Num(ccr.X)) % Long
  IN  /\ Steps /\ Store(r, result)
      /\ ccr' = SetAllFlags(ccr, result, src, d[r], Long, TRUE, "sub")
      /\ sum' = Continued("sub", src, d[r])

(* NEG and NEGX; what they do to V (and NEGX to C) is their own affair.    *)
Neg(r, extend) ==
  LET result == (0 - d[r] - (IF extend THEN Num(ccr.X) ELSE 0)) % Long
  IN  /\ Steps /\ Store(r, result)
      /\ ccr' = SetAllFlags(ccr, result, d[r], 0, Long, extend, "neg")
      /\ sum' = Apart

(* CMP with a register or memory: the destination is not cut to the size.  *)
Compare(cc, dst, src, size) ==
  SetAllFlags(cc, (dst - src) % Long, src, dst, size, FALSE, "cmp")

(* CMPI: both operands are cut to the size.                                *)
CompareI(cc, dst, src, size) == Compare(cc, dst % size, src, size)

(* CMP, CMPA, CMPI                                                         *)
Cmp(r, src, size) ==
  /\ Steps
  /\ \/ ccr' = Compare(ccr, d[r], src, size)
     \/ ccr' = CompareI(ccr, d[r], src, size)
     \/ ccr' = Compare(ccr, d[r], Extend(src, size), size)
  /\ sum' = Aside
  /\ UNCHANGED d

(* AND, OR and EOR, with any result                                        *)
Result(r, v) ==
  /\ Steps /\ Store(r, v)
  /\ ccr' = SetNZ_ClrCV(ccr, v, Long)
  /\ sum' = Aside

Not(r)  == Result(r, Long - 1 - d[r])
Swap(r) == Result(r, ((d[r] % Word) * Word + d[r] \div Word) % Long)

(* EXT.L and EXTB.L                                                        *)
Ext(r, size) == Result(r, Extend(d[r], size))

(* MVS and MVZ                                                             *)
Mv(r, src, size, signed) ==
  Result(r, IF signed THEN Extend(src, size) ELSE src % size)

(* MULS and MULU: of words to a long word, and of long words               *)
MulW(r, src, signed) ==
  LET extended(v) == IF signed THEN Extend(v, Word) ELSE v % Word
  IN  Result(r, (extended(d[r]) * extended(src)) % Long)
MulL(r, src) == Result(r, (d[r] * src) % Long)

(* MOVE, MOVEQ and CLR to a register: bits above the size stay, the codes  *)
(* are of the part that is moved.                                          *)
Move(r, src, size) ==
  /\ Steps
  /\ Store(r, (d[r] \div size) * size + src)
  /\ ccr' = SetNZ_ClrCV(ccr, src, size)
  /\ sum' = Aside

(* EXT.W                                                                   *)
ExtWord(r) == Move(r, Signed(d[r], Byte) % Word, Word)

(* TST, and MOVE and CLR to memory                                         *)
Tst(v, size) ==
  /\ Steps
  /\ ccr' = SetNZ_ClrCV(ccr, v, size)
  /\ sum' = Aside
  /\ UNCHANGED d

(* MOVEM, BITREV, BYTEREV: the condition codes stay.                       *)
Load(r, v) == Steps /\ Store(r, v) /\ UNCHANGED <<ccr, sum>>

(* BTST, BCHG, BCLR, BSET: the new value differs in the bit, or not.       *)
BitOp(r, i, v) ==
  /\ Steps
  /\ v \in {d[r], IF Bit(d[r], i) THEN d[r] - Weight[i] ELSE d[r] + Weight[i]}
  /\ Store(r, v)
  /\ ccr' = [ccr EXCEPT !.Z = ~Bit(d[r], i)]
  /\ sum' = Aside

Ff1(r) ==
  /\ Steps
  /\ \E i \in 0 .. Width :
       /\ i < Width => Bit(d[r], Width - 1 - i)
       /\ \A j \in 0 .. i - 1 : ~Bit(d[r], Width - 1 - j)
       /\ Store(r, i)
  /\ ccr' = SetNZ_ClrCV(ccr, d[r], Long)
  /\ sum' = Aside

Sats(r) ==
  LET v == IF ~ccr.V THEN d[r]
           ELSE IF Sign(d[r], Long) THEN Long \div 2 ELSE Long \div 2 - 1
  IN  Result(r, v)

Scc(r, c) ==
  /\ Steps
  /\ Store(r, (d[r] \div Byte) * Byte + (IF Is(ccr)[c] THEN Byte - 1 ELSE 0))
  /\ UNCHANGED <<ccr, sum>>

(* MOVE to SR or CCR, RTE: CPU::SetCCR sets every code.                    *)
SetCCR(cc) ==
  /\ Steps /\ ccr' = cc
  /\ sum' = [Apart EXCEPT !.op = "any", !.carry = cc.X, !.zero = cc.Z, !.whole = TRUE]
  /\ UNCHANGED d

(* Faulty variant of Shifted: the count of a right shift is not looked at. *)
ShiftedMasked(v, n, left, logical) ==
  [value |-> IF left THEN (v * Weight[n % Width]) % Long
             ELSE IF logical THEN v \div Weight[n % Width]
             ELSE (Signed(v, Long) \div Weight[n % Width]) % Long,
   last  |-> n \in 1 .. Width /\ Bit(v, IF left THEN Width - n ELSE n - 1)]

(* The processor that runs the simulator takes the count of a left shift   *)
(* modulo the width; right shifts that far are made 0.                     *)
Shifted(v, n, left, logical) ==
  [value |-> IF left THEN (v * Weight[n % Width]) % Long
             ELSE IF n >= Width THEN 0
             ELSE IF logical THEN v \div Weight[n]
             ELSE (Signed(v, Long) \div Weight[n]) % Long,
   last  |-> n \in 1 .. Width /\ Bit(v, IF left THEN Width - n ELSE n - 1)]

(* ASL, ASR, LSL, LSR by a count of up to twice the width                  *)
Shift(r, n, left, logical) ==
  LET s == Shifted(d[r], n, left, logical)
  IN  /\ Steps /\ Store(r, s.value)
      /\ ccr' = [SetNZ_ClrCV(ccr, s.value, Long) EXCEPT
                   !.C = s.last, !.X = IF n > 0 THEN s.last ELSE @]
      /\ sum' = IF n > 0 THEN Apart ELSE Aside

-----------------------------------------------------------------------------
(* Division *)

Abs(n) == IF n < 0 THEN -n ELSE n

(* / and % of C++ round towards zero.                                      *)
Quotient(a, b)  == IF (a < 0) = (b < 0) THEN Abs(a) \div Abs(b) ELSE -(Abs(a) \div Abs(b))
Remainder(a, b) == a - Quotient(a, b) * b

Number(v, size, signed) == IF signed THEN Signed(v, size) ELSE v % size

(* The quotient of a signed division fits the C++ type it is computed in.  *)
Computable(dst, src, signed) ==
  ~(signed /\ dst = Long \div 2 /\ Signed(src, Word) = -1)

(* Faulty variant of DivFits: the bounds of the quotient are too wide.     *)
DivFitsWide(dst, src, signed) ==
  LET q == Quotient(Number(dst, Long, signed), Number(src, Word, signed))
  IN  IF signed THEN q \in -(Word \div 2) .. Word \div 2 ELSE q < Word

(* The quotient fits a word.                                               *)
DivFits(dst, src, signed) ==
  LET q == Quotient(Number(dst, Long, signed), Number(src, Word, signed))
  IN  IF signed THEN q \in -(Word \div 2) .. Word \div 2 - 1 ELSE q < Word

(* Remainder in the upper word, quotient in the lower one                  *)
DivWord(dst, src, signed) ==
  LET a == Number(dst, Long, signed)
      b == Number(src, Word, signed)
  IN  (Remainder(a, b) % Word) * Word + (Quotient(a, b) % Word)

Overflow(cc) == [cc EXCEPT !.V = TRUE, !.N = FALSE, !.Z = FALSE, !.C = FALSE]

(* The quotient of DIVS.W is computed before the corner cases are looked   *)
(* at: for the most negative long word and -1 the processor that runs the  *)
(* simulator faults.                                                       *)
Crash == up' = FALSE /\ UNCHANGED <<d, ccr, sum>>

(* Division by zero enters an exception and changes nothing here.          *)
DivW(r, src, signed) ==
  /\ up /\ src # 0
  /\ \/ Crash /\ ~Computable(d[r], src, signed)
     \/ /\ Computable(d[r], src, signed)
        /\ up' = TRUE /\ sum' = Aside
        /\ IF DivFits(d[r], src, signed)
             THEN LET v == DivWord(d[r], src, signed)
                  IN  /\ Store(r, v)
                      /\ ccr' = SetNZ_ClrCV(ccr, v, Word)
             ELSE ccr' = Overflow(ccr) /\ UNCHANGED d

(* DIVU.L, and DIVS.L, REMS and REMU, whose codes the instruction map      *)
(* gives to DIVU.L: always unsigned.  With two registers the second gets   *)
(* the remainder.  N is bit 15 of the quotient.                            *)
DivL(r, w, src) ==
  LET q == d[r] \div src
  IN  /\ Steps /\ src # 0
      /\ d' = IF w = r THEN [d EXCEPT ![r] = q]
              ELSE [d EXCEPT ![r] = q, ![w] = d[r] % src]
      /\ ccr' = SetNZ_ClrCV(ccr, q, Word)
      /\ sum' = Aside

-----------------------------------------------------------------------------

Codes == [X : BOOLEAN, N : BOOLEAN, Z : BOOLEAN, V : BOOLEAN, C : BOOLEAN]
Sums  == [op : {"none", "any", "add", "sub"}, carry : BOOLEAN, zero : BOOLEAN,
          less : BOOLEAN, whole : BOOLEAN, last : BOOLEAN]

Init ==
  /\ d = [r \in Reg |-> 0] /\ up = TRUE /\ sum = Apart
  /\ ccr = [X |-> FALSE, N |-> FALSE, Z |-> FALSE, V |-> FALSE, C |-> FALSE]

Next ==
  \/ \E r \in Reg :
       \/ Ff1(r) \/ Sats(r) \/ Not(r) \/ Swap(r) \/ ExtWord(r)
       \/ \E size \in {Word, Byte} :
            \/ Ext(r, size)
            \/ \E v \in 0 .. size - 1, signed \in BOOLEAN : Mv(r, v, size, signed)
       \/ \E v \in Value :
            \/ Add(r, v) \/ Sub(r, v) \/ AddX(r, v) \/ SubX(r, v)
            \/ Result(r, v) \/ Load(r, v) \/ MulL(r, v)
            \/ \E i \in 0 .. Width - 1 : BitOp(r, i, v)
            \/ \E w \in Reg : DivL(r, w, v)
       \/ \E size \in Sizes : \E v \in 0 .. size - 1 :
            Cmp(r, v, size) \/ Move(r, v, size)
       \/ \E extend \in BOOLEAN : Neg(r, extend)
       \/ \E c \in Conditions : Scc(r, c)
       \/ \E n \in 0 .. 2 * Width - 1, left \in BOOLEAN, logical \in BOOLEAN :
            Shift(r, n, left, logical)
       \/ \E v \in 0 .. Word - 1, signed \in BOOLEAN :
            DivW(r, v, signed) \/ MulW(r, v, signed)
  \/ \E size \in Sizes : \E v \in 0 .. size - 1 : Tst(v, size)
  \/ \E cc \in Codes : SetCCR(cc)

Spec == Init /\ [][Next]_vars

-----------------------------------------------------------------------------
(* Every register keeps to 32 bits.                                        *)
TypeOK ==
  /\ d \in [Reg -> Value] /\ ccr \in Codes /\ up \in BOOLEAN
  /\ sum \in Sums

(* X is the carry out of all words added (or the borrow of all subtracted) *)
(* so far, however many other instructions lie between one ADDX or SUBX    *)
(* and the next: compares, tests, moves and divisions leave it alone.      *)
ExtendIsCarry == sum.op # "none" => ccr.X = sum.carry

(* After the last of a chain the conditions speak of the whole number:     *)
(* CS of its carry, LT of the sign of the exact sum or difference, EQ of   *)
(* all its words if no other result came between; after a difference the   *)
(* numbers compare as the conditions say.                                  *)
ConditionsOfSum ==
  LET is == Is(ccr)
  IN  sum.last =>
        /\ is["CS"] = sum.carry /\ is["LT"] = sum.less /\ is["GE"] = ~sum.less
        /\ sum.whole => is["EQ"] = sum.zero /\ is["NE"] = ~sum.zero
        /\ sum.whole /\ sum.op = "sub" =>
             /\ is["HI"] = (~sum.carry /\ ~sum.zero) /\ is["LS"] = (sum.carry \/ sum.zero)
             /\ is["GT"] = (~sum.less /\ ~sum.zero) /\ is["LE"] = (sum.less \/ sum.zero)

(* The table of conditions at the end of Examples/test2.cfs                *)
Table(cc, dst, src, size) ==
  LET is == Is(cc)
      a  == dst % size
      b  == src % size
  IN  /\ is["EQ"] = (a = b) /\ is["NE"] = (a # b)
      /\ is["CS"] = (a < b) /\ is["LS"] = (a <= b) /\ is["HI"] = (a > b) /\ is["CC"] = (a >= b)
      /\ is["LT"] = (Signed(a, size) < Signed(b, size))
      /\ is["LE"] = (Signed(a, size) <= Signed(b, size))
      /\ is["GT"] = (Signed(a, size) > Signed(b, size))
      /\ is["GE"] = (Signed(a, size) >= Signed(b, size))

(* A branch after CMPI of any size, after CMP.L or CMPA.L is taken as the  *)
(* table says.  So is one after CMP.B or CMP.W of a register that holds    *)
(* nothing above the size; of any other it need not be, because they       *)
(* compare all of the register (Cmp.cpp:60-66).  CMPA.W is left out.       *)
CompareTable ==
  \A r \in Reg, size \in Sizes : \A src \in 0 .. size - 1 :
    /\ Table(CompareI(ccr, d[r], src, size), d[r], src, size)
    /\ d[r] < size => Table(Compare(ccr, d[r], src, size), d[r], src, size)

(* When DIVS.W or DIVU.W does not report an overflow its two words are the *)
(* exact quotient and remainder; when it does they do not fit.  The one    *)
(* pair left out is the one on which the host faults.                      *)
DivisionExact ==
  \A r \in Reg, signed \in BOOLEAN : \A src \in 1 .. Word - 1 :
    Computable(d[r], src, signed) =>
      LET v == DivWord(d[r], src, signed)
          q == Number(v, Word, signed)
          m == Number(v \div Word, Word, signed)
          a == Number(d[r], Long, signed)
          b == Number(src, Word, signed)
          exact == q * b + m = a /\ Abs(m) < Abs(b)
      IN  DivFits(d[r], src, signed) <=> exact

(* A shift by n is n shifts by one, the bit left in C and X included, up   *)
(* to the width (and beyond it for LSR).                                   *)
ShiftsCompose ==
  \A r \in Reg, n \in 2 .. 2 * Width - 1, left \in BOOLEAN, logical \in BOOLEAN :
    n < Width \/ (~left /\ logical) =>
      Shifted(d[r], n, left, logical)
        = Shifted(Shifted(d[r], n - 1, left, logical).value, 1, left, logical)
=============================================================================
