-------------------------- MODULE RippleCarryAdder --------------------------
(***************************************************************************)
(* The adder of z3-assignment-1: two scripts that ask Z3 for operands for   *)
(* which a ripple-carry adder of four bits differs from bvadd.  add.z3      *)
(* describes it by bit vectors of width 1, bool_add.z3 by Booleans.         *)
(*                                                                          *)
(* A carry is a variable of the scripts and an operator of the operands     *)
(* here, as is a bit of the sum.                                            *)
(***************************************************************************)
EXTENDS Integers, TLAPS

BitVec4 == 0..15
Bit == {0, 1}

bvadd(a, b) == (a + b) % 16

\* ((_ extract k k) v)
extract(k, v) == (v \div <<1, 2, 4, 8>>[k + 1]) % 2

-----------------------------------------------------------------------------
(* add.z3                                                                  *)

bvand(x, y) == IF x = 1 /\ y = 1 THEN 1 ELSE 0
bvor(x, y) == IF x = 1 \/ y = 1 THEN 1 ELSE 0
bvxor(x, y) == IF x = y THEN 0 ELSE 1

c0 == 0

\* The carries 1 and 4 are combined by bvxor, 2 and 3 by bvor.
CarryXor(x, y, c) == bvor(bvand(x, y), bvand(bvxor(x, y), c))
CarryOr(x, y, c) == bvor(bvand(x, y), bvand(bvor(x, y), c))

c1(a, b) == CarryXor(extract(0, a), extract(0, b), c0)
c2(a, b) == CarryOr(extract(1, a), extract(1, b), c1(a, b))
c3(a, b) == CarryOr(extract(2, a), extract(2, b), c2(a, b))
c4(a, b) == CarryXor(extract(3, a), extract(3, b), c3(a, b))

SumBit(x, y, c) == bvxor(bvxor(x, y), c)

d0(a, b) == SumBit(extract(0, a), extract(0, b), c0)
d1(a, b) == SumBit(extract(1, a), extract(1, b), c1(a, b))
d2(a, b) == SumBit(extract(2, a), extract(2, b), c2(a, b))
d3(a, b) == SumBit(extract(3, a), extract(3, b), c3(a, b))

\* What the script asks to be satisfied.
Differs(a, b) ==
  \/ d0(a, b) # extract(0, bvadd(a, b))
  \/ d1(a, b) # extract(1, bvadd(a, b))
  \/ d2(a, b) # extract(2, bvadd(a, b))
  \/ d3(a, b) # extract(3, bvadd(a, b))

-----------------------------------------------------------------------------
(* bool_add.z3                                                             *)

\* (bvuge ((_ extract k k) v) #b1)
IsSet(k, v) == extract(k, v) >= 1

xor(p, q) == p # q

Carry(p, q, c) == (p /\ q) \/ (xor(p, q) /\ c)

bool_c0 == FALSE
bool_c1(a, b) == Carry(IsSet(0, a), IsSet(0, b), bool_c0)
bool_c2(a, b) == Carry(IsSet(1, a), IsSet(1, b), bool_c1(a, b))
bool_c3(a, b) == Carry(IsSet(2, a), IsSet(2, b), bool_c2(a, b))
bool_c4(a, b) == Carry(IsSet(3, a), IsSet(3, b), bool_c3(a, b))

bool_SumBit(p, q, c) == xor(xor(p, q), c)

bool_Differs(a, b) ==
  \/ bool_SumBit(IsSet(0, a), IsSet(0, b), bool_c0) # IsSet(0, bvadd(a, b))
  \/ bool_SumBit(IsSet(1, a), IsSet(1, b), bool_c1(a, b)) # IsSet(1, bvadd(a, b))
  \/ bool_SumBit(IsSet(2, a), IsSet(2, b), bool_c2(a, b)) # IsSet(2, bvadd(a, b))
  \/ bool_SumBit(IsSet(3, a), IsSet(3, b), bool_c3(a, b)) # IsSet(3, bvadd(a, b))

-----------------------------------------------------------------------------
(* Lemmas.                                                                 *)

\* The bits of a vector.
LEMMA ExtractBit ==
  ASSUME NEW v \in BitVec4, NEW k \in 0..3
  PROVE  extract(k, v) \in Bit
BY DEF BitVec4, Bit, extract

LEMMA ExtractSum ==
  ASSUME NEW v \in BitVec4
  PROVE  v = extract(0, v) + 2 * extract(1, v) + 4 * extract(2, v) + 8 * extract(3, v)
BY DEF BitVec4, extract

\* A number below 16 is written in only one way.
LEMMA ExtractUnique ==
  ASSUME NEW x0 \in Bit, NEW x1 \in Bit, NEW x2 \in Bit, NEW x3 \in Bit
  PROVE  LET v == x0 + 2 * x1 + 4 * x2 + 8 * x3
         IN  extract(0, v) = x0 /\ extract(1, v) = x1 /\ extract(2, v) = x2 /\ extract(3, v) = x3
BY DEF Bit, extract

\* A full adder, with either way to combine the carries.
LEMMA FullAdder ==
  ASSUME NEW x \in Bit, NEW y \in Bit, NEW c \in Bit
  PROVE  /\ SumBit(x, y, c) \in Bit
         /\ CarryXor(x, y, c) \in Bit
         /\ CarryOr(x, y, c) = CarryXor(x, y, c)
         /\ x + y + c = SumBit(x, y, c) + 2 * CarryXor(x, y, c)
BY DEF Bit, SumBit, CarryXor, CarryOr, bvand, bvor, bvxor

\* The carries are bits, and the bits of the sum with the last carry in front
\* are the sum.
LEMMA RippleSum ==
  ASSUME NEW a \in BitVec4, NEW b \in BitVec4
  PROVE  /\ d0(a, b) \in Bit /\ d1(a, b) \in Bit /\ d2(a, b) \in Bit /\ d3(a, b) \in Bit
         /\ c4(a, b) \in Bit
         /\ a + b = d0(a, b) + 2 * d1(a, b) + 4 * d2(a, b) + 8 * d3(a, b) + 16 * c4(a, b)
<1> DEFINE x(k) == extract(k, a)
           y(k) == extract(k, b)
<1>1. \A k \in 0..3 : x(k) \in Bit /\ y(k) \in Bit
  BY ExtractBit
<1>2. /\ d0(a, b) \in Bit /\ c1(a, b) \in Bit
      /\ x(0) + y(0) = d0(a, b) + 2 * c1(a, b)
  BY <1>1, FullAdder, c0 \in Bit DEF d0, c1, c0, Bit
<1>3. /\ d1(a, b) \in Bit /\ c2(a, b) \in Bit
      /\ x(1) + y(1) + c1(a, b) = d1(a, b) + 2 * c2(a, b)
  BY <1>1, <1>2, FullAdder DEF d1, c2
<1>4. /\ d2(a, b) \in Bit /\ c3(a, b) \in Bit
      /\ x(2) + y(2) + c2(a, b) = d2(a, b) + 2 * c3(a, b)
  BY <1>1, <1>3, FullAdder DEF d2, c3
<1>5. /\ d3(a, b) \in Bit /\ c4(a, b) \in Bit
      /\ x(3) + y(3) + c3(a, b) = d3(a, b) + 2 * c4(a, b)
  BY <1>1, <1>4, FullAdder DEF d3, c4
<1>6. /\ a = x(0) + 2 * x(1) + 4 * x(2) + 8 * x(3)
      /\ b = y(0) + 2 * y(1) + 4 * y(2) + 8 * y(3)
  BY ExtractSum
<1>7. a + b = d0(a, b) + 2 * d1(a, b) + 4 * d2(a, b) + 8 * d3(a, b) + 16 * c4(a, b)
  <2> HIDE DEF x, y
  <2> QED
    BY <1>1, <1>2, <1>3, <1>4, <1>5, <1>6 DEF Bit
<1> QED
  BY <1>2, <1>3, <1>4, <1>5, <1>7

\* A sum beyond 15 wraps around.
LEMMA Wraps ==
  ASSUME NEW v \in 0..15, NEW c \in Bit
  PROVE  (v + 16 * c) % 16 = v
<1>1. CASE c = 0
  BY <1>1
<1>2. CASE c = 1
  BY <1>2
<1> QED
  BY <1>1, <1>2 DEF Bit

\* The sum of the script is the one without the last carry.
LEMMA SumIsBvadd ==
  ASSUME NEW a \in BitVec4, NEW b \in BitVec4
  PROVE  bvadd(a, b) = d0(a, b) + 2 * d1(a, b) + 4 * d2(a, b) + 8 * d3(a, b)
<1> DEFINE v == d0(a, b) + 2 * d1(a, b) + 4 * d2(a, b) + 8 * d3(a, b)
<1>1. v \in 0..15 /\ c4(a, b) \in Bit /\ a + b = v + 16 * c4(a, b)
  BY RippleSum DEF Bit
<1> HIDE DEF v
<1>2. (v + 16 * c4(a, b)) % 16 = v
  BY <1>1, Wraps
<1> QED
  BY <1>1, <1>2 DEF bvadd, v

-----------------------------------------------------------------------------
(* Theorems.                                                               *)

\* add.z3 cannot be satisfied: whatever the operands, the four bits of the
\* ripple-carry adder are those of bvadd, although two of its carries are
\* combined by bvor and two by bvxor.
THEOREM BitVectorAdder == ~ \E a \in BitVec4, b \in BitVec4 : Differs(a, b)
<1> SUFFICES ASSUME NEW a \in BitVec4, NEW b \in BitVec4
             PROVE  ~ Differs(a, b)
  OBVIOUS
<1>1. /\ d0(a, b) \in Bit /\ d1(a, b) \in Bit /\ d2(a, b) \in Bit /\ d3(a, b) \in Bit
  BY RippleSum
<1>2. /\ extract(0, bvadd(a, b)) = d0(a, b)
      /\ extract(1, bvadd(a, b)) = d1(a, b)
      /\ extract(2, bvadd(a, b)) = d2(a, b)
      /\ extract(3, bvadd(a, b)) = d3(a, b)
  BY <1>1, SumIsBvadd, ExtractUnique
<1> QED
  BY <1>2 DEF Differs

\* The carry out of the last bit, which neither script compares, tells that
\* bvadd has wrapped around.
THEOREM CarryOut ==
  \A a \in BitVec4, b \in BitVec4 : c4(a, b) = 1 <=> a + b # bvadd(a, b)
BY RippleSum, SumIsBvadd DEF Bit

\* bool_add.z3 cannot be satisfied either: its Booleans say which bits of
\* add.z3 are 1.
THEOREM BooleanAdder == ~ \E a \in BitVec4, b \in BitVec4 : bool_Differs(a, b)
<1> SUFFICES ASSUME NEW a \in BitVec4, NEW b \in BitVec4
             PROVE  ~ bool_Differs(a, b)
  OBVIOUS
<1>1. \A k \in 0..3 : extract(k, a) \in Bit /\ extract(k, b) \in Bit
  BY ExtractBit
<1>2. \A x \in Bit, y \in Bit, c \in Bit :
        /\ CarryXor(x, y, c) \in Bit
        /\ SumBit(x, y, c) \in Bit
        /\ Carry(x >= 1, y >= 1, c >= 1) = (CarryXor(x, y, c) >= 1)
        /\ bool_SumBit(x >= 1, y >= 1, c >= 1) = (SumBit(x, y, c) >= 1)
        /\ CarryOr(x, y, c) = CarryXor(x, y, c)
  BY DEF Bit, CarryXor, CarryOr, Carry, bvand, bvor, bvxor, xor, SumBit, bool_SumBit
<1>3. c0 \in Bit /\ bool_c0 = (c0 >= 1)
  BY DEF c0, bool_c0, Bit
<1>4. c1(a, b) \in Bit /\ bool_c1(a, b) = (c1(a, b) >= 1)
  BY <1>1, <1>2, <1>3 DEF c1, bool_c1, IsSet
<1>5. c2(a, b) \in Bit /\ bool_c2(a, b) = (c2(a, b) >= 1)
  BY <1>1, <1>2, <1>4 DEF c2, bool_c2, IsSet
<1>6. c3(a, b) \in Bit /\ bool_c3(a, b) = (c3(a, b) >= 1)
  BY <1>1, <1>2, <1>5 DEF c3, bool_c3, IsSet
<1>7. /\ bool_SumBit(IsSet(0, a), IsSet(0, b), bool_c0) = (d0(a, b) >= 1)
      /\ bool_SumBit(IsSet(1, a), IsSet(1, b), bool_c1(a, b)) = (d1(a, b) >= 1)
      /\ bool_SumBit(IsSet(2, a), IsSet(2, b), bool_c2(a, b)) = (d2(a, b) >= 1)
      /\ bool_SumBit(IsSet(3, a), IsSet(3, b), bool_c3(a, b)) = (d3(a, b) >= 1)
  BY <1>1, <1>2, <1>3, <1>4, <1>5, <1>6 DEF d0, d1, d2, d3, IsSet
<1>8. ~ Differs(a, b)
  BY BitVectorAdder
<1> QED
  BY <1>7, <1>8 DEF bool_Differs, Differs, IsSet
=============================================================================
