------------------------------ MODULE Tseitin -------------------------------
(***************************************************************************)
(* The Tseitin transformation of assignment-1 (tsetin.h, ast.h) and its     *)
(* DIMACS writer (dimacs.h): every operator node of the formula gets a      *)
(* variable and a definition "variable <-> operator applied to variables";  *)
(* passes over the tree rewrite each definition into clauses.               *)
(*                                                                          *)
(* A pass, which changes the tree in place, is an operator that returns the *)
(* changed tree.  A failed assert() leaves the tree Failed behind.          *)
(*                                                                          *)
(* An operator whose comment starts with "Fault:" is what a plausible bug   *)
(* would make of the definition after it; nothing uses it.                  *)
(***************************************************************************)
EXTENDS PropAst

CONSTANT Asts    \* the trees the parser may hand over

\* sprintf writes "a" and a count.
Fresh(n) == <<"a", n>>

\* setNamesToOpNode assumes that no variable of the formula has a name that it
\* gives.  The tree of the file has a level per operator of the formula, and at
\* most seven of the last definition.
ASSUME AstsAssumption ==
  \A t \in Asts :
    /\ t \in Trees
    /\ IsFormula(t)
    /\ \A n \in 1..Len(OpNodes(t)) : Fresh(n) \notin NamesIn(t)
    /\ Len(OpNodes(t)) + 7 <= MaxHeight

VARIABLES
  root,         \* the formula's tree
  functionArr,  \* the definitions of the operator nodes, in pre-order
  i,            \* the definition being solved
  pc,           \* the next pass
  avail,        \* solve's local avail
  variables,    \* var_list from index 1 on: variables in order of appearance
  clauses,      \* the number of clauses in the header
  lines         \* the clauses in the file dimacs.cnf

vars == <<root, functionArr, i, pc, avail, variables, clauses, lines>>

-----------------------------------------------------------------------------
(* Trees.                                                                  *)

\* The places where solve has something to do.  It only asks whether there are
\* any: countDoubleNeg does not count those that overlap.
DoubleNegs == {s \in OfType("not") : s.left_.type_ = "not"}
DemorganNodes == {s \in OfType("not") : s.left_.type_ \in {"or", "and"}}
Distributables == {s \in OfType("or") : "and" \in {s.left_.type_, s.right_.type_}}

countDoubleNeg(t) == Count(t, DoubleNegs)
countDemorgan(t) == Count(t, DemorganNodes)
countDistributiveOrOverAnd(t) == Count(t, Distributables)

\* Some assertion has failed in the tree.
HasFailed(t) == Count(t, {Failed}) > 0

\* A pass goes on with the children.
Descend(t, Pass) == [t EXCEPT !.left_ = Pass[@], !.right_ = Pass[@]]

-----------------------------------------------------------------------------
(* Definitions.                                                            *)

\* Fault: the right child's numbers start where the left child's do.
setNamesRestarts(t, n) ==
  LET Set[s \in Trees] ==
        [k \in Nat |->
           IF ~ IsOp(s) THEN s
           ELSE [s EXCEPT !.var_name_ = Fresh(k + 1),
                          !.left_ = Set[@][k + 1], !.right_ = Set[@][k + 1]]]
  IN  Set[t][n]

\* setNamesToOpNode: the operator nodes are numbered in pre-order from n + 1,
\* where n is the value of varId.
setNamesToOpNode(t, n) ==
  LET Set[s \in Trees] ==
        [varId \in Nat |->
           IF ~ IsOp(s) THEN s
           ELSE [s EXCEPT !.var_name_ = Fresh(varId + 1),
                          !.left_ = Set[@][varId + 1],
                          !.right_ = Set[@][varId + 1 + Len(OpNodes(s.left_))]]]
  IN  Set[t][n]

\* The new node of createTsetinNodes: the node's variable is equivalent to the
\* node's operator applied to the variables of its children.
Definition(t) ==
  Tree("bi_implication", VarNode(t.var_name_),
       Tree(t.type_, VarNode(t.left_.var_name_),
            IF t.right_ = Null THEN Null ELSE VarNode(t.right_.var_name_)))

createTsetinNodes(t) == [k \in DOMAIN OpNodes(t) |-> Definition(OpNodes(t)[k])]

-----------------------------------------------------------------------------
(* The passes of solve.                                                    *)

\* What a pass makes of a node before it goes on with the children.
TwoImplications(t) ==
  IF t.type_ # "bi_implication" THEN t
  ELSE Tree("and", Tree("implication", t.left_, t.right_),
                   Tree("implication", t.right_, t.left_))

removeBiImplication[t \in Trees] ==
  IF t \in {Null, Failed} THEN t ELSE Descend(TwoImplications(t), removeBiImplication)

\* Fault: the premise is not negated.
DisjunctionKeepsPremise(t) ==
  IF t.type_ # "implication" THEN t ELSE Tree("or", t.left_, t.right_)

Disjunction(t) ==
  IF t.type_ # "implication" THEN t
  ELSE Tree("or", Tree("not", t.left_, Null), t.right_)

removeImplication[t \in Trees] ==
  IF t \in {Null, Failed} THEN t ELSE Descend(Disjunction(t), removeImplication)

\* removeDoubleNeg looks at left children only, and once at each node.
WithoutDoubleNeg(t) ==
  IF t.left_ \in DoubleNegs THEN [t EXCEPT !.left_ = @.left_.left_] ELSE t

removeDoubleNeg[t \in Trees] ==
  IF t \in {Null, Failed} THEN t ELSE Descend(WithoutDoubleNeg(t), removeDoubleNeg)

Dual(type) == IF type = "or" THEN "and" ELSE "or"

\* Fault: double negations stay where the law has been applied.
DemorganKeepsDoubleNeg(t) ==
  IF t.type_ # "not" \/ t.left_.type_ = "var" THEN t
  ELSE IF t \notin DemorganNodes THEN Failed
  ELSE Tree(Dual(t.left_.type_), Tree("not", t.left_.left_, Null),
                                 Tree("not", t.left_.right_, Null))

Demorgan(t) ==
  IF t.type_ # "not" \/ t.left_.type_ = "var" THEN t
  ELSE IF t \notin DemorganNodes THEN Failed
  ELSE removeDoubleNeg[Tree(Dual(t.left_.type_), Tree("not", t.left_.left_, Null),
                                                 Tree("not", t.left_.right_, Null))]

applyDemorgan[t \in Trees] ==
  IF t \in {Null, Failed} THEN t
  ELSE IF Demorgan(t) = Failed THEN Failed
  ELSE Descend(Demorgan(t), applyDemorgan)

\* The three patterns of applyDistibutiveOrOverAnd.  Of two conjunctions the
\* code keeps three of the four combinations: l.right_ | r.left_ is missing.
Distribute(t) ==
  LET l == t.left_  r == t.right_
  IN  IF t \notin Distributables THEN t
      ELSE IF l.type_ = "and" /\ r.type_ = "and"
        THEN Tree("and", Tree("or", l.left_, r), Tree("or", l.right_, r.right_))
      ELSE IF {l.type_, r.type_} \cap {"not", "var"} = {} THEN Failed
      ELSE IF r.type_ = "and"
        THEN Tree("and", Tree("or", l, r.left_), Tree("or", l, r.right_))
        ELSE Tree("and", Tree("or", l.left_, r), Tree("or", l.right_, r))

applyDistibutiveOrOverAnd[t \in Trees] ==
  IF t \in {Null, Failed} THEN t
  ELSE IF Distribute(t) = Failed THEN Failed
  ELSE Descend(Distribute(t), applyDistibutiveOrOverAnd)

-----------------------------------------------------------------------------
(* The DIMACS file.                                                        *)

\* a1 and all the definitions.
constructTsetinTree ==
  LET C[k \in 0..Len(functionArr)] ==
        IF k = 0 THEN VarNode(Fresh(1)) ELSE Tree("and", C[k - 1], functionArr[k])
  IN  C[Len(functionArr)]

\* highestVarIdx if there is no such name.
findVar(list, name) ==
  IF \E k \in DOMAIN list : list[k] = name THEN CHOOSE k \in DOMAIN list : list[k] = name
  ELSE Len(list) + 1

findAddVarIfNotPresent[list \in Seq(Names)] ==
  [name \in Names |->
     IF \E k \in DOMAIN list : list[k] = name THEN list ELSE Append(list, name)]

\* addVariablesFromTree: every name once, where it appears first.
addVariables(names) ==
  LET list[k \in 0..Len(names)] ==
        IF k = 0 THEN << >> ELSE findAddVarIfNotPresent[list[k - 1]][names[k]]
  IN  list[Len(names)]

\* What is written is a sequence of lines, the last of which is not ended: it
\* is empty when lineEnded is set.
Written == Seq(Seq(Int))

EndLine[out \in Written] == IF out[Len(out)] = << >> THEN out ELSE Append(out, << >>)

Then[out \in Written] ==
  [more \in Written |->
     SubSeq(out, 1, Len(out) - 1) \o <<out[Len(out)] \o more[1]>>
     \o SubSeq(more, 2, Len(more))]

\* Fault: the line is not ended between the two sides of an "and".
dumpCNFJoined(t, list) ==
  LET Dump[s \in Trees] ==
        CASE s \in {Null, Failed} -> << << >> >>
          [] s.type_ = "not" -> << <<-findVar(list, s.left_.var_name_)>> >>
          [] s.type_ = "var" -> << <<findVar(list, s.var_name_)>> >>
          [] s.type_ = "and" -> EndLine[Then[Dump[s.left_]][Dump[s.right_]]]
          [] OTHER -> Then[Dump[s.left_]][Dump[s.right_]]
  IN  Dump[t]

\* What dumpCNF writes of a tree; an "and" ends the line on both sides.
dumpCNF(t, list) ==
  LET Dump[s \in Trees] ==
        CASE s \in {Null, Failed} -> << << >> >>
          [] s.type_ = "not" -> << <<-findVar(list, s.left_.var_name_)>> >>
          [] s.type_ = "var" -> << <<findVar(list, s.var_name_)>> >>
          [] s.type_ = "and" -> EndLine[Then[EndLine[Dump[s.left_]]][Dump[s.right_]]]
          [] OTHER -> Then[Dump[s.left_]][Dump[s.right_]]
  IN  Dump[t]

\* The lines of the file: toDimacs ends the last one.
LinesOf(out) == SubSeq(EndLine[out], 1, Len(EndLine[out]) - 1)

-----------------------------------------------------------------------------
(* main.                                                                   *)

Init ==
  /\ root \in Asts
  /\ functionArr = << >>
  /\ i = 1
  /\ pc = "define"
  /\ avail = FALSE
  /\ variables = << >>
  /\ clauses = 0
  /\ lines = << >>

\* toTestin up to its first loop.
Define ==
  /\ pc = "define"
  /\ root' = setNamesToOpNode(root, 0)
  /\ functionArr' = createTsetinNodes(root')
  /\ pc' = "bi_implication"
  /\ UNCHANGED <<i, avail, variables, clauses, lines>>

\* A pass over the definition being solved; an assertion may fail in it.
Apply(Pass, next) ==
  /\ functionArr' = [functionArr EXCEPT ![i] = Pass[@]]
  /\ pc' = IF HasFailed(functionArr'[i]) THEN "abort" ELSE next
  /\ UNCHANGED <<root, i, variables, clauses, lines>>

RemoveBiImplication ==
  /\ pc = "bi_implication"
  /\ i <= Len(functionArr)
  /\ Apply(removeBiImplication, "implication")
  /\ UNCHANGED avail

RemoveImplication ==
  /\ pc = "implication"
  /\ Apply(removeImplication, "double_neg")
  /\ avail' = FALSE

\* One of the inner loops of solve: the pass is repeated while it is needed.
Loop(at, needed, Pass, next) ==
  /\ pc = at
  /\ \/ /\ needed > 0
        /\ Apply(Pass, at)
        /\ avail' = TRUE
     \/ /\ needed = 0
        /\ pc' = next
        /\ UNCHANGED <<root, functionArr, i, avail, variables, clauses, lines>>

RemoveDoubleNeg ==
  Loop("double_neg", countDoubleNeg(functionArr[i]), removeDoubleNeg, "demorgan")

ApplyDemorgan ==
  Loop("demorgan", countDemorgan(functionArr[i]), applyDemorgan, "distribute")

ApplyDistributive ==
  Loop("distribute", countDistributiveOrOverAnd(functionArr[i]), applyDistibutiveOrOverAnd,
       "again")

\* Fault: the next definition is taken up before the outer loop has ended.
AgainNext ==
  /\ pc = "again"
  /\ i' = i + 1
  /\ IF avail THEN pc' = "double_neg" ELSE pc' = "bi_implication"
  /\ avail' = FALSE
  /\ UNCHANGED <<root, functionArr, variables, clauses, lines>>

\* The outer loop of solve ends when none of the inner loops did anything.
Again ==
  /\ pc = "again"
  /\ \/ /\ avail
        /\ pc' = "double_neg"
        /\ avail' = FALSE
        /\ UNCHANGED i
     \/ /\ ~ avail
        /\ i' = i + 1
        /\ pc' = "bi_implication"
        /\ UNCHANGED avail
  /\ UNCHANGED <<root, functionArr, variables, clauses, lines>>

ToDimacs ==
  /\ pc = "bi_implication"
  /\ i > Len(functionArr)
  /\ \E tree \in {constructTsetinTree} :
     \E list \in {addVariables(Literals(tree))} :
       /\ variables' = list
       /\ clauses' = countOpTypeNode(tree, "and") + 1
       /\ lines' = LinesOf(dumpCNF(tree, list))
  /\ pc' = "done"
  /\ UNCHANGED <<root, functionArr, i, avail>>

Next ==
  \/ Define \/ RemoveBiImplication \/ RemoveImplication \/ RemoveDoubleNeg
  \/ ApplyDemorgan \/ ApplyDistributive \/ Again \/ ToDimacs

Spec == Init /\ [][Next]_vars

\* One thread that runs until main returns or an assertion fails.
FairSpec == Spec /\ WF_vars(Next)

-----------------------------------------------------------------------------
(* Properties.                                                             *)

TypeOK ==
  /\ pc \in {"define", "bi_implication", "implication", "double_neg", "demorgan",
             "distribute", "again", "done", "abort"}
  /\ i \in 1..Len(functionArr) + 1
  /\ pc \notin {"define", "bi_implication", "done"} => i \in DOMAIN functionArr
  /\ pc # "define" => Len(functionArr) = Len(OpNodes(root))
  /\ avail \in BOOLEAN

\* No pass changes what a definition says, whatever the order in which the
\* passes meet its parts: the combination that Distribute drops is a tautology
\* in every tree it is applied to.
DefinitionsKept ==
  pc # "abort" =>
    \A k \in DOMAIN functionArr :
      LET original == Definition(OpNodes(root)[k])
      IN  \A m \in [NamesIn(original) -> BOOLEAN] :
            Value(functionArr[k], m) = Value(original, m)

\* The file is one that the DPLL solver of assignment-2 reads: the header's
\* counts are those of the body, and no line is empty.
DimacsWellFormed ==
  pc = "done" =>
    /\ Len(lines) = clauses
    /\ \A k \in DOMAIN lines :
         /\ lines[k] # << >>
         /\ \A j \in DOMAIN lines[k] :
              lines[k][j] \in (-Len(variables)..Len(variables)) \ {0}
    /\ \A v \in DOMAIN variables :
         \E k \in DOMAIN lines : \E j \in DOMAIN lines[k] : lines[k][j] \in {v, -v}

\* A model of the clauses of the file.
IsModel(m) ==
  \A k \in DOMAIN lines : \E j \in DOMAIN lines[k] :
    IF lines[k][j] > 0 THEN m[lines[k][j]] ELSE ~ m[-lines[k][j]]

FileModels == {m \in [DOMAIN variables -> BOOLEAN] : IsModel(m)}

FormulaModels == {m \in [NamesIn(root) -> BOOLEAN] : Value(root, m)}

\* The file is satisfiable iff the formula is; and if the formula has an
\* operator, the models of the file, without the variables added, are exactly
\* those of the formula, one for one.
ModelsPreserved ==
  pc = "done" =>
    /\ FileModels = {} <=> FormulaModels = {}
    /\ IsOp(root) =>
         LET names == NamesIn(root)
             Part(m) == [n \in names |-> m[findVar(variables, n)]]
         IN  /\ {Part(m) : m \in FileModels} = FormulaModels
             /\ \A m1, m2 \in FileModels : Part(m1) = Part(m2) => m1 = m2

\* initVarList allocates one entry per literal of the tree and numbers the
\* variables from 1: the last number must be an index of the table.
VarListLongEnough ==
  pc = "done" => Len(variables) < Len(Literals(constructTsetinTree))

\* The loops of solve end and no assertion in a pass fails: a file is written
\* for every formula, although removeDoubleNeg looks at left children only and
\* countDoubleNeg, its loop's condition, everywhere.
AlwaysWrites == <>(pc = "done")
=============================================================================
