------------------------------ MODULE PropAst -------------------------------
(***************************************************************************)
(* The trees of assignment-1 (ast.h) and how they are written as text.      *)
(*                                                                          *)
(* A node_t is a record, NULL is the record Null.  A token of a text is its *)
(* kind in the grammar and, for a variable or a constant, its spelling.     *)
(***************************************************************************)
EXTENDS Integers, Sequences

CONSTANT MaxHeight   \* no tree has more levels

ASSUME MaxHeightAssumption == MaxHeight \in Nat

Null == [type_ |-> "NULL"]

\* What a failed assertion leaves.
Failed == [type_ |-> "failed"]

NoName == <<"no name", 0>>

\* A name is a letter and a number; T and F are the constants.
Letters == {"a", "b", "c", "d", "e", "f", "g", "h", "i", "j", "k", "l", "m", "n", "o",
            "p", "q", "r", "s", "t", "u", "v", "w", "x", "y", "z", "T", "F"}

Names == (Letters \X Nat) \cup {NoName}

Tree(type, left, right) ==
  [type_ |-> type, var_name_ |-> NoName, left_ |-> left, right_ |-> right]

VarNode(name) ==
  [type_ |-> "var", var_name_ |-> name, left_ |-> Null, right_ |-> Null]

Operators == {"not", "and", "or", "implication", "bi_implication"}
IsOp(t) == t.type_ \in Operators

\* The pointers to trees of at most n levels.
TreesUpTo[n \in 0..MaxHeight] ==
  {Null, Failed} \cup
  IF n = 0 THEN {}
  ELSE LET Below == TreesUpTo[n - 1]
       IN  [type_ : Operators \cup {"var"}, var_name_ : Names,
            left_ : Below, right_ : Below]

\* A recursive operation on trees is a function with this domain.
Trees == TreesUpTo[MaxHeight]

\* The nodes of a tree that are in S, in pre-order.
Nodes(t, S) ==
  LET N[s \in Trees] ==
        (IF s \in S THEN <<s>> ELSE << >>)
        \o (IF s \in {Null, Failed} THEN << >> ELSE N[s.left_] \o N[s.right_])
  IN  N[t]

Count(t, S) == Len(Nodes(t, S))

OfType(type) == {s \in Trees : s.type_ = type}

countOpTypeNode(t, type) == Count(t, OfType(type))

OpNodes(t) == Nodes(t, {s \in Trees : IsOp(s)})

\* The value of a tree when m gives every name a value.
Value(t, m) ==
  LET V[s \in Trees] ==
        CASE s.type_ = "not" -> ~ V[s.left_]
          [] s.type_ = "var" -> m[s.var_name_]
          [] s.type_ = "and" -> V[s.left_] /\ V[s.right_]
          [] s.type_ = "or" -> V[s.left_] \/ V[s.right_]
          [] s.type_ = "implication" -> (V[s.left_] => V[s.right_])
          [] s.type_ = "bi_implication" -> (V[s.left_] <=> V[s.right_])
          [] OTHER -> FALSE
  IN  V[t]

\* The names of the variables of a tree, in order and with repetitions.
Literals(t) ==
  LET leaves == Nodes(t, OfType("var"))
  IN  [k \in DOMAIN leaves |-> leaves[k].var_name_]

NamesIn(t) == {s.var_name_ : s \in LET leaves == Nodes(t, OfType("var"))
                                    IN  {leaves[k] : k \in DOMAIN leaves}}

\* The trees that the grammar makes.
IsFormula(t) ==
  LET nodes == Nodes(t, Trees \ {Null})
  IN  /\ t # Null
      /\ \A k \in DOMAIN nodes :
           /\ nodes[k] # Failed
           /\ nodes[k].left_ = Null <=> nodes[k].type_ = "var"
           /\ nodes[k].right_ = Null <=> nodes[k].type_ \in {"var", "not"}

-----------------------------------------------------------------------------
(* Trees as text.                                                          *)

Token(kind) == [kind |-> kind, text |-> NoName]
Spelling(name) ==
  [kind |-> CASE name[1] = "T" -> "TRUE" [] name[1] = "F" -> "FALSE" [] OTHER -> "VAR",
   text |-> name]

OpenPar == <<Token("OPEN_PAR")>>
ClosePar == <<Token("CLOSE_PAR")>>

opToStr ==
  [not |-> Token("NOT"), and |-> Token("AND"), or |-> Token("OR"),
   implication |-> Token("IMP"), bi_implication |-> Token("BI_IMP")]

\* Fault: an operator below one of the same kind never needs parentheses.
NeedsParSameType(t, child, minimal) == IsOp(child) /\ t.type_ # child.type_

\* dumpUtil puts parentheses around every operator below another one,
\* dumpASTMinimalUtil not around one of the same kind.
NeedsPar(t, child, minimal) == IsOp(child) /\ (minimal => t.type_ # child.type_)

Text(t, minimal) ==
  LET X[s \in Trees] ==
        LET Child(child) ==
              IF child = Null THEN << >>
              ELSE IF NeedsPar(s, child, minimal) THEN OpenPar \o X[child] \o ClosePar
              ELSE X[child]
        IN  CASE s.type_ = "var" -> <<Spelling(s.var_name_)>>
              [] s.type_ = "not" -> <<opToStr.not>> \o Child(s.left_)
              [] OTHER -> Child(s.left_) \o <<opToStr[s.type_]>> \o Child(s.right_)
  IN  X[t]

dumpAST(t) == OpenPar \o Text(t, FALSE) \o ClosePar

\* The brackets around the whole are left out.
dumpASTMinimal(t) == Text(t, TRUE)
=============================================================================
