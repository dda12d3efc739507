----------------------------- MODULE Recursion -----------------------------
(***************************************************************************)
(* Facts about recursion.  Induction over the natural numbers is stated for *)
(* sets: no operator has to be instantiated, so that recursive functions    *)
(* can be reasoned about.  Stacks are those of activations, by which Dpll   *)
(* and CongruenceClosure model recursive methods.                           *)
(***************************************************************************)
EXTENDS Integers, Sequences, WellFoundedInduction, TLAPS

-----------------------------------------------------------------------------
(* Induction.                                                              *)

LessNat == {p \in Nat \X Nat : p[1] < p[2]}

\* There is no infinite descent in the natural numbers.
LEMMA LessNatWellFounded == IsWellFoundedOn(LessNat, Nat)
<1>1. IsWellFoundedOn(OpToRel(<, Nat), Nat)  BY NatLessThanWellFounded
<1>2. LessNat = OpToRel(<, Nat)  BY DEF LessNat, OpToRel
<1>3. QED BY <1>1, <1>2

\* A set with 0, and with n + 1 for every number n in it, holds all numbers.
THEOREM SetInduction ==
  ASSUME NEW S, 0 \in S, \A n \in Nat : n \in S => n + 1 \in S
  PROVE  Nat \subseteq S
<1> DEFINE T == Nat \ S
<1> SUFFICES ASSUME T # {} PROVE FALSE  OBVIOUS
<1>1. PICK x \in T : \A y \in T : ~ (<<y, x>> \in LessNat)
  <2>1. T \subseteq Nat  OBVIOUS
  <2> HIDE DEF T
  <2>2. QED BY LessNatWellFounded, <2>1, WFMin
<1>2. x # 0 /\ x \in Nat  OBVIOUS
<1>3. x - 1 \in Nat  BY <1>2
<1>4. x - 1 \notin T
  <2>1. <<x - 1, x>> \in LessNat  BY <1>2, <1>3 DEF LessNat
  <2> HIDE DEF T
  <2>2. QED BY <1>1, <2>1
<1>5. QED BY <1>2, <1>3, <1>4

\* A set of natural numbers has a least member.
LEMMA LeastMember ==
  ASSUME NEW S, S \subseteq Nat, S # {}
  PROVE  \E m \in S : \A n \in S : m <= n
<1>1. PICK m \in S : \A n \in S : ~ (<<n, m>> \in LessNat)
  BY LessNatWellFounded, WFMin
<1>2. \A n \in S : ~ (n < m)  BY <1>1 DEF LessNat
<1>3. QED BY <1>2

-----------------------------------------------------------------------------
(* Stacks.                                                                 *)

IsStack(s) == Len(s) \in Nat /\ s = [k \in 1..Len(s) |-> s[k]]

\* A stack is a sequence of its entries.
LEMMA StackIsSequence ==
  ASSUME NEW s, IsStack(s)
  PROVE  /\ s \in Seq({s[k] : k \in 1..Len(s)})
         /\ s # << >> <=> Len(s) > 0
BY DEF IsStack

\* Popping leaves the entries below the top.
LEMMA Popped ==
  ASSUME NEW s, IsStack(s), s # << >>
  PROVE  LET t == SubSeq(s, 1, Len(s) - 1)
         IN  /\ IsStack(t)
             /\ Len(t) = Len(s) - 1
             /\ \A k \in 1..Len(t) : t[k] = s[k]
BY StackIsSequence DEF IsStack

\* Changing the top leaves the entries below it.
LEMMA TopReplaced ==
  ASSUME NEW s, IsStack(s), s # << >>, NEW f
  PROVE  LET t == [s EXCEPT ![Len(s)] = f]
         IN  /\ IsStack(t)
             /\ Len(t) = Len(s)
             /\ \A k \in 1..Len(s) : t[k] = IF k = Len(s) THEN f ELSE s[k]
<1> DEFINE S == {s[k] : k \in 1..Len(s)} \cup {f}
           t == [s EXCEPT ![Len(s)] = f]
<1>1. s \in Seq(S) /\ Len(s) \in 1..Len(s)  BY StackIsSequence DEF IsStack
<1>2. t \in Seq(S) /\ Len(t) = Len(s)  BY <1>1
<1>3. QED BY <1>1, <1>2 DEF IsStack

\* Pushing leaves all entries.
LEMMA Pushed ==
  ASSUME NEW s, IsStack(s), NEW f
  PROVE  LET t == Append(s, f)
         IN  /\ IsStack(t)
             /\ Len(t) = Len(s) + 1
             /\ \A k \in 1..Len(s) : t[k] = s[k]
             /\ t[Len(s) + 1] = f
<1> DEFINE S == {s[k] : k \in 1..Len(s)} \cup {f}
           t == Append(s, f)
<1>1. s \in Seq(S)  BY StackIsSequence DEF IsStack
<1>2. t \in Seq(S) /\ Len(t) = Len(s) + 1  BY <1>1
<1>3. /\ \A k \in 1..Len(s) : t[k] = s[k]
      /\ t[Len(s) + 1] = f
  BY <1>1
<1> HIDE DEF t
<1>4. IsStack(t)  BY <1>2 DEF IsStack
<1>5. QED BY <1>2, <1>3, <1>4 DEF t

\* Changing the top and pushing onto it.
LEMMA ReplacedAndPushed ==
  ASSUME NEW s, IsStack(s), s # << >>, NEW frame, NEW f
  PROVE  LET t == Append([s EXCEPT ![Len(s)] = frame], f)
         IN  /\ IsStack(t)
             /\ Len(t) = Len(s) + 1
             /\ \A k \in 1..Len(s) : t[k] = IF k = Len(s) THEN frame ELSE s[k]
             /\ t[Len(s) + 1] = f
<1> DEFINE r == [s EXCEPT ![Len(s)] = frame]
           t == Append(r, f)
<1>1. /\ IsStack(r)
      /\ Len(r) = Len(s)
      /\ \A k \in 1..Len(s) : r[k] = IF k = Len(s) THEN frame ELSE s[k]
  BY TopReplaced
<1> HIDE DEF r
<1>2. /\ IsStack(t)
      /\ Len(t) = Len(r) + 1
      /\ \A k \in 1..Len(r) : t[k] = r[k]
      /\ t[Len(r) + 1] = f
  BY <1>1, Pushed
<1> HIDE DEF t
<1>3. QED BY <1>1, <1>2 DEF r, t
=============================================================================
