----------------------------- MODULE DpllProofs -----------------------------
(***************************************************************************)
(* Proofs about Dpll for every number of variables and every set of         *)
(* formulas: types, the residual formulas of the activations, and that the  *)
(* search is sound and complete; then that the assignments of the           *)
(* activations extend one another, which bounds the recursion, that the     *)
(* occurrence counts are fresh, and that the search implements ModelSearch. *)
(***************************************************************************)
EXTENDS Dpll, Recursion, FiniteSetTheorems

-----------------------------------------------------------------------------
(* Literals and simplification.                                            *)

\* What is left of the parsed clauses, as the types of functions_ need it.
IsResidue(fs) ==
  /\ DOMAIN fs \subseteq DOMAIN formula
  /\ fs = [c \in DOMAIN fs |-> fs[c]]
  /\ \A c \in DOMAIN fs : fs[c] \subseteq DOMAIN formula[c]

\* The literals of a parsed formula are over the variables.
LEMMA LiteralType ==
  ASSUME formula \in Formulas, NEW c \in DOMAIN formula, NEW j \in DOMAIN formula[c]
  PROVE  /\ formula[c][j] \in Lits
         /\ VarOf(formula[c][j]) \in Vars
<1>1. formula \in Seq(Seq(Lits))  BY FormulasAssumption
<1>2. formula[c] \in Seq(Lits)  BY <1>1
<1>3. formula[c][j] \in Lits  BY <1>2
<1>4. QED BY <1>3, NVarAssumption DEF Lits, Vars, VarOf

\* A parsed formula and its clauses are sequences: clause numbers and literal
\* positions count from 1.
LEMMA ParsedDomains ==
  ASSUME formula \in Formulas
  PROVE  /\ Len(formula) \in Nat
         /\ DOMAIN formula = 1..Len(formula)
         /\ \A c \in DOMAIN formula : /\ Len(formula[c]) \in Nat
                                      /\ DOMAIN formula[c] = 1..Len(formula[c])
<1>1. formula \in Seq(Seq(Lits))  BY FormulasAssumption
<1>2. QED BY <1>1

\* functions_ holds finitely many literals.
LEMMA PresentFinite ==
  ASSUME formula \in Formulas, NEW fs, IsResidue(fs)
  PROVE  IsFiniteSet(Present(fs))
<1> DEFINE row == [c \in DOMAIN fs |-> {c} \X fs[c]]
           rows == {{c} \X fs[c] : c \in DOMAIN fs}
<1>1. IsFiniteSet(DOMAIN fs)
  <2>1. IsFiniteSet(1..Len(formula))  BY ParsedDomains, FS_Interval
  <2>2. QED BY <2>1, ParsedDomains, FS_Subset DEF IsResidue
<1>2. row \in Surjection(DOMAIN fs, rows)  BY DEF Surjection
<1>3. IsFiniteSet(rows)  BY <1>1, <1>2, FS_Surjection
<1>4. ASSUME NEW c \in DOMAIN fs PROVE IsFiniteSet({c} \X fs[c])
  <2>1. IsFiniteSet(DOMAIN formula[c])  BY ParsedDomains, FS_Interval DEF IsResidue
  <2>2. IsFiniteSet(fs[c])  BY <2>1, FS_Subset DEF IsResidue
  <2>3. IsFiniteSet({c})  BY FS_Singleton
  <2>4. QED BY <2>2, <2>3, FS_Product
<1>5. \A T \in rows : IsFiniteSet(T)  BY <1>4
<1>6. IsFiniteSet(UNION rows)  BY <1>3, <1>5, FS_UNION
<1>7. QED BY <1>6 DEF Present

\* The counts of frequency_sign_ are natural numbers.
LEMMA FrequencyType ==
  ASSUME formula \in Formulas, NEW fs, IsResidue(fs)
  PROVE  FrequencySign(fs) \in [Vars -> [first : Nat, second : Nat]]
<1>1. ASSUME NEW l PROVE Occurrences(fs, l) \in Nat
  <2> DEFINE S == {p \in Present(fs) : formula[p[1]][p[2]] = l}
  <2>1. IsFiniteSet(S)  BY PresentFinite, FS_Subset
  <2>2. QED BY <2>1, FS_CardinalityType DEF Occurrences
<1>2. QED BY <1>1 DEF FrequencySign

\* Erasing clauses and literals leaves a part of the parsed formula.
LEMMA SimplifyType ==
  ASSUME NEW fs, IsResidue(fs), NEW a
  PROVE  IsResidue(Simplify(fs, a))
BY DEF IsResidue, Simplify

\* UpdateState leaves a well-formed function.
LEMMA UpdateStateType ==
  ASSUME formula \in Formulas, NEW fs, IsResidue(fs), NEW a \in Assignments
  PROVE  /\ IsBoolFunction(UpdateState(fs, a))
         /\ UpdateState(fs, a).assignment_ = a
         /\ UpdateState(fs, a).functions_ = Simplify(fs, a)
<1> DEFINE gs == Simplify(fs, a)
<1>1. IsResidue(gs)  BY SimplifyType
<1>2. FrequencySign(gs) \in [Vars -> [first : Nat, second : Nat]]  BY <1>1, FrequencyType
<1> HIDE DEF gs
<1>3. UpdateState(fs, a) =
        [functions_ |-> gs, assignment_ |-> a, frequency_sign_ |-> FrequencySign(gs)]
  BY DEF UpdateState, gs
<1>4. QED BY <1>1, <1>2, <1>3 DEF IsResidue, IsBoolFunction, gs

\* Apply turns a well-typed function into a well-typed function.
LEMMA ApplyType ==
  ASSUME formula \in Formulas, NEW func, IsBoolFunction(func),
         NEW v \in Vars, NEW val \in {0, 1}
  PROVE  /\ IsBoolFunction(Apply(func, v, val))
         /\ Apply(func, v, val).assignment_ = [func.assignment_ EXCEPT ![v] = val]
         /\ Apply(func, v, val).functions_ =
              Simplify(func.functions_, [func.assignment_ EXCEPT ![v] = val])
<1>1. IsResidue(func.functions_)  BY DEF IsBoolFunction, IsResidue
<1>2. [func.assignment_ EXCEPT ![v] = val] \in Assignments
  BY DEF IsBoolFunction, Assignments
<1>3. QED BY <1>1, <1>2, UpdateStateType DEF Apply

\* The function that the constructor makes of the file is well typed.
LEMMA ParsedType ==
  ASSUME formula \in Formulas
  PROVE  IsBoolFunction(Parsed)
<1> DEFINE fs == [c \in DOMAIN formula |-> DOMAIN formula[c]]
<1>1. IsResidue(fs)  BY DEF IsResidue
<1>2. FrequencySign(fs) \in [Vars -> [first : Nat, second : Nat]]  BY <1>1, FrequencyType
<1>3. [v \in Vars |-> -1] \in Assignments  BY DEF Assignments
<1>4. Parsed = [functions_ |-> fs, assignment_ |-> [v \in Vars |-> -1],
                frequency_sign_ |-> FrequencySign(fs)]
  BY DEF Parsed
<1> HIDE DEF fs
<1>5. QED BY <1>1, <1>2, <1>3, <1>4 DEF IsResidue, IsBoolFunction

\* A new activation of SolveDPLL is well typed.
LEMMA FrameType ==
  ASSUME NEW func, IsBoolFunction(func)
  PROVE  IsFrame(Frame(func))
BY NVarAssumption DEF IsFrame, Frame, Vars

\* An activation stays well typed when it remembers a decision.
LEMMA DecidedFrameType ==
  ASSUME NEW f, IsFrame(f), NEW v \in Vars, NEW val \in {0, 1},
         NEW g, g = [f EXCEPT !.at = "first", !.var_idx = v, !.var_val = val]
  PROVE  g = [func |-> f.func, at |-> "first", var_idx |-> v, var_val |-> val] /\ IsFrame(g)
<1>1. f = [func |-> f.func, at |-> f.at, var_idx |-> f.var_idx, var_val |-> f.var_val]
  BY DEF IsFrame
<1>2. g = [func |-> f.func, at |-> "first", var_idx |-> v, var_val |-> val]  BY <1>1
<1>3. QED BY <1>2 DEF IsFrame

-----------------------------------------------------------------------------
(* Types.                                                                  *)

\* A frame stays well-formed while the formula stays the same.
LEMMA FramesPrimed ==
  ASSUME formula' = formula, \A k \in 1..Len(stack') : IsFrame(stack'[k])
  PROVE  (\A k \in 1..Len(stack) : IsFrame(stack[k]))'
BY DEF IsFrame, IsBoolFunction

\* There is an innermost activation unless Solve has returned; it is well
\* typed.
LEMMA TopType ==
  ASSUME TypeOK, stack # << >>
  PROVE  /\ Len(stack) \in 1..Len(stack)
         /\ IsFrame(Top)
         /\ IsBoolFunction(Top.func)
         /\ Top.var_idx \in Vars
         /\ Top.var_val \in {0, 1}
<1>1. IsStack(stack)  BY DEF TypeOK, IsStack
<1>2. Len(stack) \in 1..Len(stack)  BY <1>1, StackIsSequence DEF IsStack
<1>3. IsFrame(Top)  BY <1>2 DEF TypeOK, Top
<1>4. QED BY <1>2, <1>3 DEF IsFrame

\* An activation returns.
LEMMA ReturnType ==
  ASSUME TypeOK, stack # << >>, NEW value \in {"true", "false"}, Return(value),
         formula' = formula, dumps' \in Seq(Assignments), verdict' = verdict
  PROVE  TypeOK'
<1>1. IsStack(stack)  BY DEF TypeOK, IsStack
<1>2. /\ IsStack(stack')
      /\ Len(stack') = Len(stack) - 1
      /\ \A k \in 1..Len(stack') : stack'[k] = stack[k]
  BY <1>1, Popped DEF Return
<1>3. \A k \in 1..Len(stack') : IsFrame(stack'[k])  BY <1>1, <1>2 DEF IsStack, TypeOK
<1>4. (\A k \in 1..Len(stack) : IsFrame(stack[k]))'  BY <1>3, FramesPrimed
<1>5. QED BY <1>2, <1>4 DEF IsStack, TypeOK, Return

\* Exploring one branch of an activation keeps the types, whether it ends in a
\* model or in a call of SolveDPLL.
LEMMA BranchTypeOK ==
  ASSUME TypeOK, stack # << >>, NEW frame, NEW func, IsFrame(frame), IsBoolFunction(func),
         Branch(frame, func), formula' = formula, verdict' = verdict
  PROVE  TypeOK'
<1>1. CASE DumpAssignment(func) /\ Return("true")
  <2>1. func.assignment_ \in Assignments  BY DEF IsBoolFunction
  <2>2. dumps' \in Seq(Assignments)  BY <1>1, <2>1 DEF DumpAssignment, TypeOK
  <2>3. QED BY <1>1, <2>2, ReturnType
<1>2. CASE /\ stack' = Append([stack EXCEPT ![Len(stack)] = frame], Frame(func))
           /\ ret' = "call"
           /\ UNCHANGED dumps
  <2>1. IsStack(stack)  BY DEF TypeOK, IsStack
  <2>2. /\ IsStack(stack')
        /\ Len(stack') = Len(stack) + 1
        /\ \A k \in 1..Len(stack) : stack'[k] = IF k = Len(stack) THEN frame ELSE stack[k]
        /\ stack'[Len(stack) + 1] = Frame(func)
    BY <1>2, <2>1, ReplacedAndPushed
  <2>3. \A k \in 1..Len(stack') : IsFrame(stack'[k])
    BY <2>1, <2>2, FrameType DEF TypeOK, IsStack
  <2>4. (\A k \in 1..Len(stack) : IsFrame(stack[k]))'  BY <2>3, FramesPrimed
  <2>5. stack' # << >>  BY <2>1, <2>2, StackIsSequence DEF IsStack
  <2>6. QED BY <1>2, <2>2, <2>4, <2>5 DEF TypeOK, IsStack
<1>3. QED BY <1>1, <1>2 DEF Branch

\* The types hold in every behaviour.
THEOREM TypeCorrect == Spec => []TypeOK
<1>1. Init => TypeOK
  <2> SUFFICES ASSUME Init PROVE TypeOK  OBVIOUS
  <2>1. IsFrame(Frame(Parsed))  BY ParsedType, FrameType DEF Init
  <2>2. IsStack(stack) /\ Len(stack) = 1 /\ stack[1] = Frame(Parsed)
    BY DEF Init, IsStack
  <2>3. QED BY <2>1, <2>2 DEF Init, TypeOK, IsStack
<1>2. TypeOK /\ [Next]_vars => TypeOK'
  <2> SUFFICES ASSUME TypeOK, [Next]_vars PROVE TypeOK'  OBVIOUS
  <2>0. formula \in Formulas  BY DEF TypeOK
  <2>1. CASE BcpNoClause
    <3>1. stack # << >>  BY <2>1 DEF BcpNoClause, Running
    <3>2. Top.func.assignment_ \in Assignments  BY <3>1, TopType DEF IsBoolFunction
    <3>3. dumps' \in Seq(Assignments)
      BY <2>1, <3>2 DEF BcpNoClause, DumpAssignment, TypeOK
    <3>4. QED BY <2>1, <3>1, <3>3, ReturnType DEF BcpNoClause
  <2>2. CASE BcpUnit
    <3>1. stack # << >>  BY <2>2 DEF BcpUnit, Running
    <3>2. PICK c \in Units(Top.func) : \E j \in Top.func.functions_[c] :
            LET lit  == formula[c][j]
                func == Apply(Top.func, VarOf(lit), IF lit > 0 THEN 1 ELSE 0)
            IN  \/ /\ StateOf(func) = "Satisfied"
                   /\ DumpAssignment(func)
                   /\ Return("true")
                \/ /\ StateOf(func) = "Conflicting"
                   /\ Return("false")
                   /\ UNCHANGED dumps
                \/ /\ StateOf(func) = "Unresolved"
                   /\ stack' = [stack EXCEPT ![Len(stack)] = [@ EXCEPT !.func = func]]
                   /\ UNCHANGED <<ret, dumps>>
      BY <2>2 DEF BcpUnit
    <3>3. PICK j \in Top.func.functions_[c] :
            LET lit  == formula[c][j]
                func == Apply(Top.func, VarOf(lit), IF lit > 0 THEN 1 ELSE 0)
            IN  \/ /\ DumpAssignment(func)
                   /\ Return("true")
                \/ /\ Return("false")
                   /\ UNCHANGED dumps
                \/ /\ stack' = [stack EXCEPT ![Len(stack)] = [Top EXCEPT !.func = func]]
                   /\ UNCHANGED <<ret, dumps>>
      BY <3>2 DEF Top
    <3> DEFINE lit   == formula[c][j]
               func  == Apply(Top.func, VarOf(lit), IF lit > 0 THEN 1 ELSE 0)
               frame == [Top EXCEPT !.func = func]
    <3>4. VarOf(lit) \in Vars
      BY <2>0, <3>1, TopType, LiteralType DEF IsBoolFunction, Units
    <3>5. IsBoolFunction(func)  BY <2>0, <3>1, <3>4, TopType, ApplyType
    <3>6. IsFrame(frame)  BY <3>1, <3>5, TopType DEF IsFrame
    <3>7. func.assignment_ \in Assignments  BY <3>5 DEF IsBoolFunction
    <3> HIDE DEF lit, func, frame
    <3>8. CASE DumpAssignment(func) /\ Return("true")
      <4>1. dumps' \in Seq(Assignments)  BY <3>7, <3>8 DEF DumpAssignment, TypeOK
      <4>2. QED BY <2>2, <3>1, <3>8, <4>1, ReturnType DEF BcpUnit
    <3>9. CASE Return("false") /\ UNCHANGED dumps
      <4>1. dumps' \in Seq(Assignments)  BY <3>9 DEF TypeOK
      <4>2. QED BY <2>2, <3>1, <3>9, <4>1, ReturnType DEF BcpUnit
    <3>10. CASE stack' = [stack EXCEPT ![Len(stack)] = frame] /\ UNCHANGED <<ret, dumps>>
      <4>1. IsStack(stack)  BY DEF TypeOK, IsStack
      <4>2. /\ IsStack(stack')
            /\ Len(stack') = Len(stack)
            /\ \A k \in 1..Len(stack) : stack'[k] = IF k = Len(stack) THEN frame ELSE stack[k]
        BY <3>1, <3>10, <4>1, TopReplaced
      <4>3. \A k \in 1..Len(stack') : IsFrame(stack'[k])  BY <3>6, <4>2 DEF TypeOK
      <4>4. (\A k \in 1..Len(stack) : IsFrame(stack[k]))'
        BY <2>2, <4>3, FramesPrimed DEF BcpUnit
      <4>5. stack' # << >>  BY <3>1, <4>1, <4>2, StackIsSequence
      <4>6. QED BY <2>2, <3>10, <4>2, <4>4, <4>5 DEF BcpUnit, TypeOK, IsStack
    <3>11. QED BY <3>3, <3>8, <3>9, <3>10 DEF lit, func, frame
  <2>3. CASE OutOfVariables
    <3>1. stack # << >>  BY <2>3 DEF OutOfVariables, Unresolved, Running
    <3>2. dumps' \in Seq(Assignments)  BY <2>3 DEF OutOfVariables, TypeOK
    <3>3. QED BY <2>3, <3>1, <3>2, ReturnType DEF OutOfVariables
  <2>4. CASE Decide
    <3>1. stack # << >>  BY <2>4 DEF Decide, Unresolved, Running
    <3>2. PICK v \in Vars :
            LET val == PreferredValue(Top.func, v)
            IN  Branch([Top EXCEPT !.at = "first", !.var_idx = v, !.var_val = val],
                       Apply(Top.func, v, val))
      BY <2>4 DEF Decide
    <3> DEFINE val   == PreferredValue(Top.func, v)
               frame == [Top EXCEPT !.at = "first", !.var_idx = v, !.var_val = val]
    <3>3. val \in {0, 1}  BY DEF PreferredValue
    <3>4. IsBoolFunction(Apply(Top.func, v, val))  BY <2>0, <3>1, <3>3, TopType, ApplyType
    <3>5. IsFrame(frame)  BY <3>1, <3>3, TopType, DecidedFrameType
    <3>6. QED BY <2>4, <3>1, <3>2, <3>4, <3>5, BranchTypeOK DEF Decide
  <2>5. CASE TryOpposite
    <3>1. stack # << >>  BY <2>5 DEF TryOpposite, Received
    <3>2. 1 - Top.var_val \in {0, 1}  BY <3>1, TopType
    <3>3. IsBoolFunction(Apply(Top.func, Top.var_idx, 1 - Top.var_val))
      BY <2>0, <3>1, <3>2, TopType, ApplyType
    <3>4. IsFrame([Top EXCEPT !.at = "second"])  BY <3>1, TopType DEF IsFrame
    <3>5. QED BY <2>5, <3>1, <3>3, <3>4, BranchTypeOK DEF TryOpposite
  <2>6. CASE BothFailed
    <3>1. stack # << >>  BY <2>6 DEF BothFailed, Received
    <3>2. dumps' \in Seq(Assignments)  BY <2>6 DEF BothFailed, TypeOK
    <3>3. QED BY <2>6, <3>1, <3>2, ReturnType DEF BothFailed
  <2>7. CASE PassTrueUp
    <3>1. stack # << >>  BY <2>7 DEF PassTrueUp
    <3>2. dumps' \in Seq(Assignments)  BY <2>7 DEF PassTrueUp, TypeOK
    <3>3. QED BY <2>7, <3>1, <3>2, ReturnType DEF PassTrueUp
  <2>8. CASE Report
    <3>1. (\A k \in 1..Len(stack) : IsFrame(stack[k]))'
      BY <2>8, FramesPrimed DEF Report, TypeOK
    <3>2. QED BY <2>8, <3>1 DEF Report, TypeOK
  <2>9. CASE UNCHANGED vars
    <3>1. (\A k \in 1..Len(stack) : IsFrame(stack[k]))'
      BY <2>9, FramesPrimed DEF vars, TypeOK
    <3>2. QED BY <2>9, <3>1 DEF vars, TypeOK
  <2>10. QED BY <2>1, <2>2, <2>3, <2>4, <2>5, <2>6, <2>7, <2>8, <2>9 DEF Next
<1>3. QED BY <1>1, <1>2, PTL DEF Spec

-----------------------------------------------------------------------------
(* What a simplified formula says about the models of the parsed one.      *)

\* A total assignment that extends a agrees with a on the literals assigned.
LEMMA ModelsLiterals ==
  ASSUME NEW a \in Assignments, NEW m \in Models, Extends(m, a), NEW l \in Lits,
         IsAssigned(a, l)
  PROVE  IsTrue(m, l) <=> IsTrue(a, l)
<1>1. VarOf(l) \in Vars /\ m[VarOf(l)] = a[VarOf(l)]
  BY NVarAssumption DEF Extends, IsAssigned, VarOf, Lits, Vars
<1>2. QED BY <1>1 DEF IsTrue, IsAssigned, AssignedValue, VarOf, Lits, Models

\* Every variable is assigned in a total assignment.
LEMMA ModelsAreTotal ==
  ASSUME NEW m \in Models, NEW l \in Lits
  PROVE  IsAssigned(m, l)
BY NVarAssumption DEF IsAssigned, VarOf, Lits, Vars, Models

\* What simplification leaves of the parsed formula, clause by clause.
LEMMA SimplifiedParsed ==
  ASSUME NEW a
  PROVE  LET fs == Simplify(Parsed.functions_, a)
         IN  /\ DOMAIN fs = {c \in DOMAIN formula :
                              \A j \in DOMAIN formula[c] : ~ IsTrue(a, formula[c][j])}
             /\ \A c \in DOMAIN fs :
                  fs[c] = {j \in DOMAIN formula[c] : ~ IsAssigned(a, formula[c][j])}
<1>1. Parsed.functions_ = [c \in DOMAIN formula |-> DOMAIN formula[c]]  BY DEF Parsed
<1>2. QED BY <1>1 DEF Simplify

\* The same of one clause that is left.
LEMMA SimplifiedClause ==
  ASSUME NEW a, NEW c \in DOMAIN Simplify(Parsed.functions_, a)
  PROVE  /\ c \in DOMAIN formula
         /\ \A i \in DOMAIN formula[c] : ~ IsTrue(a, formula[c][i])
         /\ Simplify(Parsed.functions_, a)[c] =
              {i \in DOMAIN formula[c] : ~ IsAssigned(a, formula[c][i])}
<1> DEFINE fs == Simplify(Parsed.functions_, a)
<1>1. /\ DOMAIN fs = {k \in DOMAIN formula :
                         \A i \in DOMAIN formula[k] : ~ IsTrue(a, formula[k][i])}
      /\ \A k \in DOMAIN fs :
           fs[k] = {i \in DOMAIN formula[k] : ~ IsAssigned(a, formula[k][i])}
  BY SimplifiedParsed
<1> HIDE DEF fs
<1>2. c \in DOMAIN fs  BY DEF fs
<1>3. /\ c \in DOMAIN formula
      /\ \A i \in DOMAIN formula[c] : ~ IsTrue(a, formula[c][i])
      /\ fs[c] = {i \in DOMAIN formula[c] : ~ IsAssigned(a, formula[c][i])}
  BY <1>1, <1>2
<1>4. QED BY <1>3 DEF fs

\* Assigning one more variable and simplifying again is simplifying once.
LEMMA SimplifyAgain ==
  ASSUME formula \in Formulas, NEW a \in Assignments, NEW v \in Vars, a[v] = -1,
         NEW val \in {0, 1}
  PROVE  LET b == [a EXCEPT ![v] = val]
         IN  Simplify(Simplify(Parsed.functions_, a), b) = Simplify(Parsed.functions_, b)
<1> DEFINE b  == [a EXCEPT ![v] = val]
           fa == Simplify(Parsed.functions_, a)
           fb == Simplify(Parsed.functions_, b)
           L(c, j) == formula[c][j]
<1>1. \A l \in Lits : IsAssigned(a, l) =>
        IsAssigned(b, l) /\ (IsTrue(a, l) <=> IsTrue(b, l))
  BY NVarAssumption DEF IsTrue, IsAssigned, AssignedValue, VarOf, Lits, Vars, Assignments
<1>2. \A c \in DOMAIN formula : \A j \in DOMAIN formula[c] : L(c, j) \in Lits  BY LiteralType
<1>3. \A l : IsTrue(a, l) => IsAssigned(a, l)  BY DEF IsTrue
<1> HIDE DEF b
<1>4. /\ DOMAIN fa = {c \in DOMAIN formula : \A j \in DOMAIN formula[c] : ~ IsTrue(a, L(c, j))}
      /\ \A c \in DOMAIN fa : fa[c] = {j \in DOMAIN formula[c] : ~ IsAssigned(a, L(c, j))}
  BY SimplifiedParsed
<1>5. /\ DOMAIN fb = {c \in DOMAIN formula : \A j \in DOMAIN formula[c] : ~ IsTrue(b, L(c, j))}
      /\ \A c \in DOMAIN fb : fb[c] = {j \in DOMAIN formula[c] : ~ IsAssigned(b, L(c, j))}
  BY SimplifiedParsed
<1> HIDE DEF fa, L
<1>6. {c \in DOMAIN fa : ~ \E j \in fa[c] : IsTrue(b, L(c, j))} = DOMAIN fb
  BY <1>1, <1>2, <1>3, <1>4, <1>5
<1>7. \A c \in DOMAIN fb : {j \in fa[c] : ~ IsAssigned(b, L(c, j))} = fb[c]
  BY <1>1, <1>2, <1>4, <1>5, <1>6
<1>8. Simplify(fa, b) = [c \in DOMAIN fb |-> fb[c]]
  BY <1>6, <1>7 DEF Simplify, L
<1>9. fb = [c \in DOMAIN fb |-> fb[c]]  BY DEF Simplify
<1>10. QED BY <1>8, <1>9 DEF fa, b

\* No clause left: every clause of the parsed formula is true.
LEMMA SatisfiedSound ==
  ASSUME NEW a, DOMAIN Simplify(Parsed.functions_, a) = {}
  PROVE  Satisfies(a)
BY SimplifiedParsed DEF Satisfies

\* A clause without literals: no model extends the assignment.
LEMMA ConflictRefutes ==
  ASSUME formula \in Formulas, NEW a \in Assignments,
         NEW c \in DOMAIN Simplify(Parsed.functions_, a),
         Simplify(Parsed.functions_, a)[c] = {}
  PROVE  Refuted(a)
<1> SUFFICES ASSUME NEW m \in Solutions, Extends(m, a) PROVE FALSE  BY DEF Refuted
<1>1. m \in Models /\ Satisfies(m)  BY DEF Solutions
<1>2. c \in DOMAIN formula  BY SimplifiedParsed
<1>3. PICK j \in DOMAIN formula[c] : IsTrue(m, formula[c][j])  BY <1>1, <1>2 DEF Satisfies
<1>4. /\ \A i \in DOMAIN formula[c] : ~ IsTrue(a, formula[c][i])
      /\ {i \in DOMAIN formula[c] : ~ IsAssigned(a, formula[c][i])} = {}
  BY SimplifiedParsed
<1>5. /\ formula[c][j] \in Lits
      /\ IsAssigned(a, formula[c][j]) /\ ~ IsTrue(a, formula[c][j])
  BY <1>2, <1>4, LiteralType
<1>6. QED BY <1>1, <1>3, <1>4, <1>5, ModelsLiterals

\* A clause with one literal left: the models that extend the assignment make
\* that literal true.
LEMMA UnitForces ==
  ASSUME formula \in Formulas, NEW a \in Assignments,
         NEW c \in DOMAIN Simplify(Parsed.functions_, a), NEW j,
         Simplify(Parsed.functions_, a)[c] = {j},
         NEW m \in Solutions, Extends(m, a)
  PROVE  LET lit == formula[c][j]
             b   == [a EXCEPT ![VarOf(lit)] = IF lit > 0 THEN 1 ELSE 0]
         IN  a[VarOf(lit)] = -1 /\ Extends(m, b)
<1> DEFINE lit == formula[c][j]
           b   == [a EXCEPT ![VarOf(lit)] = IF lit > 0 THEN 1 ELSE 0]
<1>1. m \in Models /\ Satisfies(m)  BY DEF Solutions
<1>2. /\ c \in DOMAIN formula
      /\ \A i \in DOMAIN formula[c] : ~ IsTrue(a, formula[c][i])
      /\ {j} = {i \in DOMAIN formula[c] : ~ IsAssigned(a, formula[c][i])}
  BY SimplifiedClause
<1>3. j \in DOMAIN formula[c] /\ ~ IsAssigned(a, lit)  BY <1>2
<1>4. PICK i \in DOMAIN formula[c] : IsTrue(m, formula[c][i])  BY <1>1, <1>2 DEF Satisfies
<1>5. formula[c][i] \in Lits /\ lit \in Lits /\ VarOf(lit) \in Vars
  BY <1>2, <1>3, LiteralType
<1>6. ~ IsAssigned(a, formula[c][i])  BY <1>1, <1>2, <1>4, <1>5, ModelsLiterals
<1>7. i = j  BY <1>2, <1>6
<1>8. m[VarOf(lit)] = IF lit > 0 THEN 1 ELSE 0
  BY <1>1, <1>4, <1>5, <1>7 DEF IsTrue, AssignedValue, VarOf, Lits, Models
<1>9. a[VarOf(lit)] = -1  BY <1>3 DEF IsAssigned
<1> HIDE DEF lit
<1>10. \A v \in Vars : b[v] # -1 => m[v] = b[v]
  BY <1>5, <1>8 DEF Assignments, Extends
<1>11. QED BY <1>9, <1>10 DEF Extends, lit

\* A model that satisfies a partial assignment's true literals: completing a
\* satisfying partial assignment gives a model.
LEMMA CompletionIsSolution ==
  ASSUME formula \in Formulas, NEW a \in Assignments, Satisfies(a)
  PROVE  Solutions # {}
<1> DEFINE m == [v \in Vars |-> IF a[v] = -1 THEN 0 ELSE a[v]]
<1>1. m \in Models /\ Extends(m, a)  BY DEF Models, Extends, Assignments
<1> HIDE DEF m
<1>2. Satisfies(m)
  <2> SUFFICES ASSUME NEW c \in DOMAIN formula
               PROVE  \E j \in DOMAIN formula[c] : IsTrue(m, formula[c][j])
    BY DEF Satisfies
  <2>1. PICK j \in DOMAIN formula[c] : IsTrue(a, formula[c][j])  BY DEF Satisfies
  <2>2. formula[c][j] \in Lits  BY LiteralType
  <2>3. IsAssigned(a, formula[c][j])  BY <2>1 DEF IsTrue
  <2>4. QED BY <1>1, <2>1, <2>2, <2>3, ModelsLiterals
<1>3. QED BY <1>1, <1>2 DEF Solutions

-----------------------------------------------------------------------------
(* The search is sound and complete.                                       *)

\* main prints a verdict once, after the outermost activation returned it.
AnswerKept ==
  /\ verdict # "none" => stack = << >>
  /\ verdict = "SATISFIED" => ret = "true"
  /\ verdict = "UNSATISFIED" => ret = "false"

SearchInv ==
  /\ TypeOK
  /\ Residual
  /\ SearchSound
  /\ PrintedModelSatisfies
  /\ AnswerKept

\* The parsed formula and what it means stay the same.
LEMMA SameFormula ==
  ASSUME formula' = formula
  PROVE  Solutions' = Solutions /\ Parsed' = Parsed
<1>1. Solutions' = Solutions  BY DEF Solutions, Satisfies
<1>2. Parsed' = Parsed  BY DEF Parsed, FrequencySign, Occurrences
<1>3. QED BY <1>1, <1>2

\* Residual in the next state, where the formula is the same.
LEMMA ResidualPrimed ==
  ASSUME formula' = formula,
         \A k \in 1..Len(stack') :
           stack'[k].func.functions_ = Simplify(Parsed.functions_, stack'[k].func.assignment_)
  PROVE  Residual'
BY SameFormula DEF Residual, Simplify

\* What Apply returns for a variable that is not assigned yet.
LEMMA ApplyResidual ==
  ASSUME TypeOK, Residual, stack # << >>, NEW v \in Vars, NEW val \in {0, 1},
         Top.func.assignment_[v] = -1
  PROVE  LET b    == [Top.func.assignment_ EXCEPT ![v] = val]
             func == Apply(Top.func, v, val)
         IN  /\ b \in Assignments
             /\ IsBoolFunction(func)
             /\ func.assignment_ = b
             /\ func.functions_ = Simplify(Parsed.functions_, b)
             /\ StateOf(func) = "Satisfied" => Satisfies(b)
             /\ StateOf(func) = "Conflicting" => Refuted(b)
<1> DEFINE a    == Top.func.assignment_
           b    == [a EXCEPT ![v] = val]
           func == Apply(Top.func, v, val)
<1>1. formula \in Formulas /\ a \in Assignments  BY TopType DEF TypeOK, IsBoolFunction
<1>2. Top.func.functions_ = Simplify(Parsed.functions_, a)
  BY TopType DEF Residual, Top
<1>3. b \in Assignments  BY <1>1 DEF Assignments
<1>4. /\ IsBoolFunction(func)
      /\ func.assignment_ = b
      /\ func.functions_ = Simplify(Top.func.functions_, b)
  BY <1>1, TopType, ApplyType
<1> HIDE DEF func, a
<1>5. Simplify(Simplify(Parsed.functions_, a), b) = Simplify(Parsed.functions_, b)
  BY <1>1, SimplifyAgain DEF a
<1> HIDE DEF b
<1>6. func.functions_ = Simplify(Parsed.functions_, b)  BY <1>2, <1>4, <1>5
<1>7. ASSUME StateOf(func) = "Satisfied" PROVE Satisfies(b)
  <2>1. DOMAIN func.functions_ = {}  BY <1>7 DEF StateOf, NoClauseLeft
  <2>2. QED BY <1>6, <2>1, SatisfiedSound
<1>8. ASSUME StateOf(func) = "Conflicting" PROVE Refuted(b)
  <2>1. PICK c \in DOMAIN func.functions_ : func.functions_[c] = {}
    BY <1>8 DEF StateOf, NoClauseLeft, HasEmptyClause
  <2>2. QED BY <1>1, <1>3, <1>6, <2>1, ConflictRefutes
<1>9. QED BY <1>3, <1>4, <1>6, <1>7, <1>8 DEF a, b, func

\* An activation returns false because no model extends its assignment.
LEMMA ReturnFalseInv ==
  ASSUME SearchInv, stack # << >>, ret # "true", Refuted(Top.func.assignment_),
         Return("false"), UNCHANGED <<formula, dumps, verdict>>
  PROVE  SearchInv'
<1>1. TypeOK  BY DEF SearchInv
<1>2. IsStack(stack)  BY <1>1 DEF TypeOK, IsStack
<1>3. /\ IsStack(stack')
      /\ Len(stack') = Len(stack) - 1
      /\ \A k \in 1..Len(stack') : stack'[k] = stack[k]
  BY <1>2, Popped DEF Return
<1>4. Len(stack) \in Nat /\ Len(stack) >= 1 /\ Len(stack') \in Nat
  BY <1>2, <1>3, StackIsSequence DEF IsStack
<1>5. Solutions' = Solutions  BY SameFormula
<1>6. TypeOK'  BY <1>1, ReturnType DEF TypeOK
<1>7. Residual'  BY <1>3, <1>4, ResidualPrimed DEF SearchInv, Residual
<1>8. Phases'
  <2>1. \A k \in 1..Len(stack') :
          /\ stack'[k].at # "bcp"
          /\ stack'[k].func.assignment_[stack'[k].var_idx] = -1
    BY <1>3, <1>4 DEF SearchInv, SearchSound, Phases
  <2>2. stack' # << >> => Len(stack') \in 1..Len(stack')  BY <1>3, <1>4, StackIsSequence
  <2>3. QED BY <2>1, <2>2 DEF Phases, Top, Return
<1>9. PropagationForced'
  <2>1. stack' # << >> => stack'[1] = stack[1]  BY <1>3, <1>4, StackIsSequence
  <2>2. \A k \in 1..Len(stack') - 1 : stack'[k] = stack[k] /\ stack'[k + 1] = stack[k + 1]
    BY <1>3, <1>4
  <2>3. QED BY <1>3, <1>4, <1>5, <2>1, <2>2 DEF SearchInv, SearchSound, PropagationForced
<1>10. FailuresJustified'
  <2>1. ASSUME NEW m \in Solutions PROVE ~ Extends(m, stack[Len(stack)].func.assignment_)
    BY <2>1 DEF Refuted, Top
  <2>2. ASSUME stack' = << >> PROVE Solutions = {}
    <3>1. Len(stack) = 1  BY <1>3, <1>4, <2>2, StackIsSequence
    <3>2. QED BY <2>1, <3>1 DEF SearchInv, SearchSound, PropagationForced
  <2>3. ASSUME stack' # << >> PROVE Refuted(Explored(stack[Len(stack) - 1]))
    <3>1. Len(stack) - 1 \in 1..Len(stack) - 1  BY <1>3, <1>4, <2>3, StackIsSequence
    <3>2. QED BY <1>4, <2>1, <3>1 DEF SearchInv, SearchSound, PropagationForced, Refuted
  <2>4. \A k \in 1..Len(stack') :
          stack'[k].at = "second" => Refuted(With(stack'[k], stack'[k].var_val))
    BY <1>3, <1>4 DEF SearchInv, SearchSound, FailuresJustified
  <2>5. stack' # << >> => stack'[Len(stack')] = stack[Len(stack) - 1]
    BY <1>3, <1>4, StackIsSequence
  <2>6. QED BY <1>5, <2>2, <2>3, <2>4, <2>5 DEF FailuresJustified, Refuted, Top
<1>11. PrintedModelSatisfies'
  BY <1>1 DEF SearchInv, PrintedModelSatisfies, Return, TypeOK, Satisfies
<1>12. AnswerKept'  BY DEF SearchInv, AnswerKept, Return
<1>13. QED BY <1>6, <1>7, <1>8, <1>9, <1>10, <1>11, <1>12 DEF SearchInv, SearchSound

\* An activation returns true, having printed a satisfying assignment or
\* having been answered true.
LEMMA ReturnTrueInv ==
  ASSUME SearchInv, stack # << >>, Return("true"), UNCHANGED <<formula, verdict>>,
         \/ ret = "true" /\ UNCHANGED dumps
         \/ /\ ret # "true"
            /\ \E a \in Assignments : Satisfies(a) /\ dumps' = Append(dumps, a)
  PROVE  SearchInv'
<1>1. TypeOK  BY DEF SearchInv
<1>2. IsStack(stack)  BY <1>1 DEF TypeOK, IsStack
<1>3. /\ IsStack(stack')
      /\ Len(stack') = Len(stack) - 1
      /\ \A k \in 1..Len(stack') : stack'[k] = stack[k]
  BY <1>2, Popped DEF Return
<1>4. Len(stack) \in Nat /\ Len(stack) >= 1 /\ Len(stack') \in Nat
  BY <1>2, <1>3, StackIsSequence DEF IsStack
<1>5. Solutions' = Solutions  BY SameFormula
<1>6. /\ dumps' \in Seq(Assignments)
      /\ Len(dumps') = 1
      /\ \A i \in DOMAIN dumps' : Satisfies(dumps'[i])
  <2>1. dumps \in Seq(Assignments)  BY <1>1 DEF TypeOK
  <2>2. CASE ret = "true" /\ UNCHANGED dumps
    BY <2>1, <2>2 DEF SearchInv, PrintedModelSatisfies
  <2>3. CASE ret # "true"
    <3>1. PICK a \in Assignments : Satisfies(a) /\ dumps' = Append(dumps, a)  BY <2>3
    <3>2. Len(dumps) = 0  BY <2>3 DEF SearchInv, PrintedModelSatisfies
    <3>3. QED BY <2>1, <3>1, <3>2
  <2>4. QED BY <2>2, <2>3
<1>7. TypeOK'  BY <1>1, <1>6, ReturnType
<1>8. Residual'  BY <1>3, <1>4, ResidualPrimed DEF SearchInv, Residual
<1>9. Phases'
  <2>1. \A k \in 1..Len(stack') :
          /\ stack'[k].at # "bcp"
          /\ stack'[k].func.assignment_[stack'[k].var_idx] = -1
    BY <1>3, <1>4 DEF SearchInv, SearchSound, Phases
  <2>2. QED BY <2>1 DEF Phases, Return
<1>10. PropagationForced'
  <2>1. stack' # << >> => stack'[1] = stack[1]  BY <1>3, <1>4, StackIsSequence
  <2>2. \A k \in 1..Len(stack') - 1 : stack'[k] = stack[k] /\ stack'[k + 1] = stack[k + 1]
    BY <1>3, <1>4
  <2>3. QED BY <1>3, <1>4, <1>5, <2>1, <2>2 DEF SearchInv, SearchSound, PropagationForced
<1>11. FailuresJustified'
  <2>1. \A k \in 1..Len(stack') :
          stack'[k].at = "second" => Refuted(With(stack'[k], stack'[k].var_val))
    BY <1>3, <1>4 DEF SearchInv, SearchSound, FailuresJustified
  <2>2. QED BY <1>5, <2>1 DEF FailuresJustified, Refuted, Return
<1>12. PrintedModelSatisfies'
  BY <1>6 DEF PrintedModelSatisfies, Return, Satisfies
<1>13. AnswerKept'  BY DEF SearchInv, AnswerKept, Return
<1>14. QED BY <1>7, <1>8, <1>9, <1>10, <1>11, <1>12, <1>13 DEF SearchInv, SearchSound

\* The value with which the branch of a frame is explored.
LEMMA ExploredValue ==
  ASSUME NEW f, NEW value, value = IF f.at = "first" THEN f.var_val ELSE 1 - f.var_val
  PROVE  Explored(f) = [f.func.assignment_ EXCEPT ![f.var_idx] = value]
BY DEF Explored, With

\* A decision on a variable left unassigned, first or second.
LEMMA BranchInv ==
  ASSUME SearchInv, stack # << >>, ret # "true", UNCHANGED <<formula, verdict>>,
         NEW frame, IsFrame(frame), frame.func = Top.func, frame.at \in {"first", "second"},
         Top.func.assignment_[frame.var_idx] = -1,
         frame.at = "second" => Refuted(With(frame, frame.var_val)),
         NEW value, value = IF frame.at = "first" THEN frame.var_val ELSE 1 - frame.var_val,
         Branch(frame, Apply(Top.func, frame.var_idx, value))
  PROVE  SearchInv'
<1> DEFINE func == Apply(Top.func, frame.var_idx, value)
           b    == [Top.func.assignment_ EXCEPT ![frame.var_idx] = value]
<1>1. TypeOK /\ Residual  BY DEF SearchInv
<1>2. IsStack(stack)  BY <1>1 DEF TypeOK, IsStack
<1>3. frame.var_idx \in Vars /\ value \in {0, 1}  BY DEF IsFrame
<1>4. /\ b \in Assignments
      /\ IsBoolFunction(func)
      /\ func.assignment_ = b
      /\ func.functions_ = Simplify(Parsed.functions_, b)
      /\ StateOf(func) = "Satisfied" => Satisfies(b)
  BY <1>1, <1>3, ApplyResidual
<1>5. Explored(frame) = b  BY ExploredValue
<1> HIDE DEF func, b
<1>6. CASE /\ StateOf(func) = "Satisfied"
           /\ DumpAssignment(func)
           /\ Return("true")
  <2>1. Satisfies(b) /\ dumps' = Append(dumps, b)  BY <1>4, <1>6 DEF DumpAssignment
  <2>2. QED BY <1>4, <1>6, <2>1, ReturnTrueInv
<1>7. CASE /\ stack' = Append([stack EXCEPT ![Len(stack)] = frame], Frame(func))
           /\ ret' = "call"
           /\ UNCHANGED dumps
  <2>1. /\ IsStack(stack')
        /\ Len(stack') = Len(stack) + 1
        /\ \A k \in 1..Len(stack) : stack'[k] = IF k = Len(stack) THEN frame ELSE stack[k]
        /\ stack'[Len(stack) + 1] = Frame(func)
    BY <1>2, <1>7, ReplacedAndPushed
  <2>2. Len(stack) \in Nat /\ Len(stack) >= 1  BY <1>2, StackIsSequence DEF IsStack
  <2>3. Solutions' = Solutions  BY SameFormula
  <2>4. TypeOK'
    BY <1>1, <1>4, <1>7, BranchTypeOK DEF Branch, func
  <2>5. Frame(func).func = func /\ Frame(func).at = "bcp"  BY DEF Frame
  <2>6. Residual'
    <3>1. ASSUME NEW k \in 1..Len(stack')
          PROVE  stack'[k].func.functions_ =
                   Simplify(Parsed.functions_, stack'[k].func.assignment_)
      <4>1. CASE k = Len(stack) + 1  BY <1>4, <2>1, <2>5, <4>1
      <4>2. CASE k = Len(stack)
        BY <1>1, <2>1, <2>2, <4>2 DEF Residual, Top
      <4>3. CASE k \in 1..Len(stack) - 1
        BY <1>1, <2>1, <2>2, <4>3 DEF Residual
      <4>4. QED BY <2>1, <2>2, <4>1, <4>2, <4>3
    <3>2. QED BY <3>1, ResidualPrimed
  <2>7. Phases'
    <3>1. ASSUME NEW k \in 1..Len(stack'),
                 stack'[k].at # "bcp" \/ k < Len(stack')
          PROVE  /\ stack'[k].at # "bcp"
                 /\ stack'[k].func.assignment_[stack'[k].var_idx] = -1
      <4>1. k # Len(stack) + 1  BY <2>1, <2>2, <2>5, <3>1
      <4>2. CASE k = Len(stack)  BY <2>1, <2>2, <4>2
      <4>3. CASE k \in 1..Len(stack) - 1
        BY <2>1, <2>2, <4>3 DEF SearchInv, SearchSound, Phases
      <4>4. QED BY <2>1, <2>2, <4>1, <4>2, <4>3
    <3>2. stack'[Len(stack')].at = "bcp"  BY <2>1, <2>5
    <3>3. QED BY <1>7, <3>1, <3>2 DEF Phases, Top
  <2>8. PropagationForced'
    <3> SUFFICES ASSUME NEW m \in Solutions
                 PROVE  /\ stack' # << >> => Extends(m, stack'[1].func.assignment_)
                        /\ \A k \in 1..Len(stack') - 1 :
                             Extends(m, Explored(stack'[k])) =>
                               Extends(m, stack'[k + 1].func.assignment_)
      BY <2>3 DEF PropagationForced
    <3>1. /\ Extends(m, stack[1].func.assignment_)
          /\ \A k \in 1..Len(stack) - 1 :
               Extends(m, Explored(stack[k])) => Extends(m, stack[k + 1].func.assignment_)
      BY DEF SearchInv, SearchSound, PropagationForced
    <3>2. \A k \in 1..Len(stack) : stack'[k].func = stack[k].func
      BY <2>1 DEF Top
    <3>3. ASSUME NEW k \in 1..Len(stack') - 1, Extends(m, Explored(stack'[k]))
          PROVE  Extends(m, stack'[k + 1].func.assignment_)
      <4>1. CASE k = Len(stack)
        BY <1>4, <1>5, <2>1, <2>2, <2>5, <3>3, <4>1
      <4>2. CASE k \in 1..Len(stack) - 1
        <5>1. stack'[k] = stack[k] /\ k + 1 \in 1..Len(stack)  BY <2>1, <2>2, <4>2
        <5>2. stack'[k + 1].func = stack[k + 1].func  BY <3>2, <5>1
        <5>3. QED BY <3>1, <3>3, <4>2, <5>1, <5>2
      <4>3. QED BY <2>1, <2>2, <4>1, <4>2
    <3>4. 1 \in 1..Len(stack)  BY <2>2
    <3>5. QED BY <3>1, <3>2, <3>3, <3>4
  <2>9. FailuresJustified'
    <3>1. ASSUME NEW k \in 1..Len(stack'), stack'[k].at = "second"
          PROVE  Refuted(With(stack'[k], stack'[k].var_val))
      <4>1. k # Len(stack) + 1  BY <2>1, <2>5, <3>1
      <4>2. CASE k = Len(stack)  BY <2>1, <2>2, <3>1, <4>2
      <4>3. CASE k \in 1..Len(stack) - 1
        BY <2>1, <2>2, <3>1, <4>3 DEF SearchInv, SearchSound, FailuresJustified
      <4>4. QED BY <2>1, <2>2, <4>1, <4>2, <4>3
    <3>2. QED BY <1>7, <2>3, <3>1 DEF FailuresJustified, Refuted
  <2>10. PrintedModelSatisfies'
    BY <1>7 DEF SearchInv, PrintedModelSatisfies, Satisfies
  <2>11. AnswerKept'  BY DEF SearchInv, AnswerKept
  <2>12. QED BY <2>4, <2>6, <2>7, <2>8, <2>9, <2>10, <2>11 DEF SearchInv, SearchSound
<1>8. QED BY <1>6, <1>7 DEF Branch, func

\* Unit propagation continues: the innermost function is replaced by one whose
\* assignment every model that agreed so far also agrees with.
LEMMA PropagateInv ==
  ASSUME SearchInv, stack # << >>, ret = "call", UNCHANGED <<formula, ret, dumps, verdict>>,
         NEW func, IsBoolFunction(func),
         func.functions_ = Simplify(Parsed.functions_, func.assignment_),
         \A m \in Solutions :
           Extends(m, Top.func.assignment_) => Extends(m, func.assignment_),
         stack' = [stack EXCEPT ![Len(stack)] = [Top EXCEPT !.func = func]]
  PROVE  SearchInv'
<1> DEFINE frame == [Top EXCEPT !.func = func]
<1>1. TypeOK /\ Residual  BY DEF SearchInv
<1>2. IsStack(stack)  BY <1>1 DEF TypeOK, IsStack
<1>3. /\ IsFrame(frame)
      /\ frame.func = func
      /\ frame.at = Top.at
  BY <1>1, TopType DEF IsFrame
<1> HIDE DEF frame
<1>4. /\ IsStack(stack')
      /\ Len(stack') = Len(stack)
      /\ \A k \in 1..Len(stack) : stack'[k] = IF k = Len(stack) THEN frame ELSE stack[k]
  BY <1>2, TopReplaced DEF frame
<1>5. Len(stack) \in Nat /\ Len(stack) >= 1  BY <1>2, StackIsSequence DEF IsStack
<1>6. Solutions' = Solutions  BY SameFormula
<1>7. Top.at = "bcp"  BY DEF SearchInv, SearchSound, Phases
<1>8. TypeOK'
  <2>1. \A k \in 1..Len(stack') : IsFrame(stack'[k])  BY <1>1, <1>3, <1>4 DEF TypeOK
  <2>2. (\A k \in 1..Len(stack) : IsFrame(stack[k]))'  BY <2>1, FramesPrimed
  <2>3. stack' # << >>  BY <1>4, <1>5, StackIsSequence
  <2>4. QED BY <1>1, <1>4, <2>2, <2>3 DEF TypeOK, IsStack
<1>9. Residual'
  <2>1. \A k \in 1..Len(stack') :
          stack'[k].func.functions_ = Simplify(Parsed.functions_, stack'[k].func.assignment_)
    BY <1>1, <1>3, <1>4 DEF Residual
  <2>2. QED BY <2>1, ResidualPrimed
<1>10. Phases'
  <2>1. ASSUME NEW k \in 1..Len(stack'), stack'[k].at # "bcp" \/ k < Len(stack')
        PROVE  /\ stack'[k].at # "bcp"
               /\ stack'[k].func.assignment_[stack'[k].var_idx] = -1
    <3>1. k # Len(stack)  BY <1>3, <1>4, <1>5, <1>7, <2>1
    <3>2. QED BY <1>4, <1>5, <2>1, <3>1 DEF SearchInv, SearchSound, Phases
  <2>2. stack'[Len(stack')].at = "bcp"  BY <1>3, <1>4, <1>5, <1>7
  <2>3. QED BY <2>1, <2>2 DEF Phases, Top
<1>11. PropagationForced'
  <2> SUFFICES ASSUME NEW m \in Solutions
               PROVE  /\ stack' # << >> => Extends(m, stack'[1].func.assignment_)
                      /\ \A k \in 1..Len(stack') - 1 :
                           Extends(m, Explored(stack'[k])) =>
                             Extends(m, stack'[k + 1].func.assignment_)
    BY <1>6 DEF PropagationForced
  <2>1. /\ Extends(m, stack[1].func.assignment_)
        /\ \A k \in 1..Len(stack) - 1 :
             Extends(m, Explored(stack[k])) => Extends(m, stack[k + 1].func.assignment_)
    BY DEF SearchInv, SearchSound, PropagationForced
  <2>2. \A k \in 1..Len(stack) :
          Extends(m, stack[k].func.assignment_) => Extends(m, stack'[k].func.assignment_)
    BY <1>3, <1>4 DEF Top
  <2>3. \A k \in 1..Len(stack') - 1 : k \in 1..Len(stack) - 1 /\ stack'[k] = stack[k]
                                       /\ k + 1 \in 1..Len(stack)
    BY <1>4, <1>5
  <2>4. 1 \in 1..Len(stack)  BY <1>5
  <2>5. QED BY <2>1, <2>2, <2>3, <2>4
<1>12. FailuresJustified'
  <2>1. ASSUME NEW k \in 1..Len(stack'), stack'[k].at = "second"
        PROVE  Refuted(With(stack'[k], stack'[k].var_val))
    <3>1. k # Len(stack)  BY <1>3, <1>4, <1>5, <1>7, <2>1
    <3>2. QED BY <1>4, <1>5, <2>1, <3>1 DEF SearchInv, SearchSound, FailuresJustified
  <2>2. QED BY <1>6, <2>1 DEF FailuresJustified, Refuted
<1>13. PrintedModelSatisfies'
  BY DEF SearchInv, PrintedModelSatisfies, Satisfies
<1>14. AnswerKept'  BY DEF SearchInv, AnswerKept
<1>15. QED BY <1>8, <1>9, <1>10, <1>11, <1>12, <1>13, <1>14 DEF SearchInv, SearchSound

\* The inductive invariant of the search holds when Solve is called.
LEMMA InitSearchInv == Init => SearchInv
<1> SUFFICES ASSUME Init PROVE SearchInv  OBVIOUS
<1>1. TypeOK
  <2>1. IsFrame(Frame(Parsed))  BY ParsedType, FrameType DEF Init
  <2>2. QED BY <2>1 DEF Init, TypeOK
<1>2. Len(stack) = 1 /\ stack[1] = Frame(Parsed)  BY DEF Init
<1>3. /\ Frame(Parsed).at = "bcp"
      /\ Frame(Parsed).func = Parsed
      /\ Parsed.assignment_ = [v \in Vars |-> -1]
      /\ Parsed.functions_ = [c \in DOMAIN formula |-> DOMAIN formula[c]]
  BY DEF Frame, Parsed
<1>4. Residual
  <2> DEFINE a  == Parsed.assignment_
             fs == Simplify(Parsed.functions_, a)
  <2>1. \A c \in DOMAIN formula : \A j \in DOMAIN formula[c] : ~ IsAssigned(a, formula[c][j])
    BY <1>3, LiteralType DEF Init, IsAssigned
  <2>2. /\ DOMAIN fs = {c \in DOMAIN formula :
                        \A j \in DOMAIN formula[c] : ~ IsTrue(a, formula[c][j])}
        /\ \A c \in DOMAIN fs :
             fs[c] = {j \in DOMAIN formula[c] : ~ IsAssigned(a, formula[c][j])}
    BY SimplifiedParsed
  <2>3. fs = [c \in DOMAIN fs |-> fs[c]]  BY DEF Simplify
  <2> HIDE DEF fs, a
  <2>4. DOMAIN fs = DOMAIN formula  BY <2>1, <2>2 DEF IsTrue
  <2>5. \A c \in DOMAIN formula : fs[c] = DOMAIN formula[c]  BY <2>1, <2>2, <2>4
  <2>6. fs = Parsed.functions_  BY <1>3, <2>3, <2>4, <2>5
  <2>7. QED BY <1>2, <1>3, <2>6 DEF Residual, fs, a
<1>5. Phases  BY <1>2, <1>3 DEF Phases, Top, Init
<1>6. PropagationForced  BY <1>2, <1>3 DEF PropagationForced, Extends
<1>7. FailuresJustified  BY <1>2, <1>3 DEF FailuresJustified, Init
<1>8. PrintedModelSatisfies  BY DEF PrintedModelSatisfies, Init
<1>9. AnswerKept  BY DEF AnswerKept, Init
<1>10. QED BY <1>1, <1>4, <1>5, <1>6, <1>7, <1>8, <1>9 DEF SearchInv, SearchSound

\* One round of propagation.
LEMMA BcpUnitInv ==
  ASSUME SearchInv, BcpUnit
  PROVE  SearchInv'
<1>1. TypeOK /\ Residual /\ formula \in Formulas  BY DEF SearchInv, TypeOK
<1>2. stack # << >> /\ ret = "call"  BY DEF BcpUnit, Running
<1>3. PICK c \in Units(Top.func) : \E j \in Top.func.functions_[c] :
        LET lit  == formula[c][j]
            func == Apply(Top.func, VarOf(lit), IF lit > 0 THEN 1 ELSE 0)
        IN  \/ /\ StateOf(func) = "Satisfied"
               /\ DumpAssignment(func)
               /\ Return("true")
            \/ /\ StateOf(func) = "Conflicting"
               /\ Return("false")
               /\ UNCHANGED dumps
            \/ /\ StateOf(func) = "Unresolved"
               /\ stack' = [stack EXCEPT ![Len(stack)] = [@ EXCEPT !.func = func]]
               /\ UNCHANGED <<ret, dumps>>
  BY DEF BcpUnit
<1>4. PICK j \in Top.func.functions_[c] :
        LET lit  == formula[c][j]
            func == Apply(Top.func, VarOf(lit), IF lit > 0 THEN 1 ELSE 0)
        IN  \/ /\ StateOf(func) = "Satisfied"
               /\ DumpAssignment(func)
               /\ Return("true")
            \/ /\ StateOf(func) = "Conflicting"
               /\ Return("false")
               /\ UNCHANGED dumps
            \/ /\ stack' = [stack EXCEPT ![Len(stack)] = [Top EXCEPT !.func = func]]
               /\ UNCHANGED <<ret, dumps>>
  BY <1>3 DEF Top
<1> DEFINE a    == Top.func.assignment_
           lit  == formula[c][j]
           val  == IF lit > 0 THEN 1 ELSE 0
           func == Apply(Top.func, VarOf(lit), val)
           b    == [a EXCEPT ![VarOf(lit)] = val]
<1>5. Top.func.functions_ = Simplify(Parsed.functions_, a)
  BY <1>1, <1>2, TopType DEF Residual, Top
<1>6. /\ c \in DOMAIN Simplify(Parsed.functions_, a)
      /\ Simplify(Parsed.functions_, a)[c] = {j}
  BY <1>3, <1>4, <1>5 DEF Units
<1>7. /\ c \in DOMAIN formula /\ j \in DOMAIN formula[c]
      /\ ~ IsAssigned(a, lit)
  <2>1. c \in DOMAIN formula  BY <1>6, SimplifiedClause
  <2>2. {j} = {i \in DOMAIN formula[c] : ~ IsAssigned(a, formula[c][i])}
    BY <1>6, SimplifiedClause
  <2>3. QED BY <2>1, <2>2
<1>8. VarOf(lit) \in Vars /\ a[VarOf(lit)] = -1
  BY <1>1, <1>7, LiteralType DEF IsAssigned
<1>9. a \in Assignments  BY <1>1, <1>2, TopType DEF IsBoolFunction
<1>10. \A m \in Solutions : Extends(m, a) => Extends(m, b)
  BY <1>1, <1>6, <1>9, UnitForces
<1>11. /\ b \in Assignments
       /\ IsBoolFunction(func)
       /\ func.assignment_ = b
       /\ func.functions_ = Simplify(Parsed.functions_, b)
       /\ StateOf(func) = "Satisfied" => Satisfies(b)
       /\ StateOf(func) = "Conflicting" => Refuted(b)
  BY <1>1, <1>2, <1>8, ApplyResidual
<1>12. UNCHANGED <<formula, verdict>>  BY DEF BcpUnit
<1>13. \/ /\ StateOf(func) = "Satisfied"
          /\ DumpAssignment(func)
          /\ Return("true")
       \/ /\ StateOf(func) = "Conflicting"
          /\ Return("false")
          /\ UNCHANGED dumps
       \/ /\ stack' = [stack EXCEPT ![Len(stack)] = [Top EXCEPT !.func = func]]
          /\ UNCHANGED <<ret, dumps>>
  BY <1>4
<1> HIDE DEF func, b, val, lit
<1>14. CASE StateOf(func) = "Satisfied" /\ DumpAssignment(func) /\ Return("true")
  <2>1. Satisfies(b) /\ dumps' = Append(dumps, b)  BY <1>11, <1>14 DEF DumpAssignment
  <2>2. QED BY <1>2, <1>11, <1>12, <1>14, <2>1, ReturnTrueInv
<1>15. CASE StateOf(func) = "Conflicting" /\ Return("false") /\ UNCHANGED dumps
  <2>1. Refuted(a)  BY <1>10, <1>11, <1>15 DEF Refuted
  <2>2. QED BY <1>2, <1>12, <1>15, <2>1, ReturnFalseInv
<1>16. CASE /\ stack' = [stack EXCEPT ![Len(stack)] = [Top EXCEPT !.func = func]]
            /\ UNCHANGED <<ret, dumps>>
  BY <1>2, <1>10, <1>11, <1>12, <1>16, PropagateInv
<1>17. QED BY <1>13, <1>14, <1>15, <1>16

\* A clause is left but no variable: no model extends the assignment.
LEMMA OutOfVariablesRefutes ==
  ASSUME TypeOK, Residual, OutOfVariables
  PROVE  Refuted(Top.func.assignment_)
<1> DEFINE a == Top.func.assignment_
<1>1. stack # << >> /\ formula \in Formulas
  BY DEF OutOfVariables, Unresolved, Running, TypeOK
<1>2. Top.func.functions_ = Simplify(Parsed.functions_, a)
  BY <1>1, TopType DEF Residual, Top
<1>3. PICK c \in DOMAIN Simplify(Parsed.functions_, a) : TRUE
  BY <1>2 DEF OutOfVariables, Unresolved, NoClauseLeft
<1>4. c \in DOMAIN formula  BY SimplifiedParsed
<1>5. \A d \in DOMAIN Simplify(Parsed.functions_, a) :
        Simplify(Parsed.functions_, a)[d] =
          {j \in DOMAIN formula[d] : ~ IsAssigned(a, formula[d][j])}
  BY SimplifiedParsed
<1>6. ASSUME NEW j \in DOMAIN formula[c] PROVE IsAssigned(a, formula[c][j])
  <2>1. VarOf(formula[c][j]) \in Vars  BY <1>1, <1>4, LiteralType
  <2>2. VarOf(VarOf(formula[c][j])) = VarOf(formula[c][j])  BY <2>1 DEF VarOf, Vars
  <2>3. QED BY <2>1, <2>2 DEF OutOfVariables, IsAssigned
<1>7. Simplify(Parsed.functions_, a)[c] = {}  BY <1>5, <1>6
<1>8. a \in Assignments  BY <1>1, TopType DEF IsBoolFunction
<1>9. QED BY <1>1, <1>7, <1>8, ConflictRefutes

\* Both values of the variable decided have failed: no model extends the
\* assignment.
LEMMA BothFailedRefutes ==
  ASSUME SearchInv, stack # << >>, ret = "false", Top.at = "second"
  PROVE  Refuted(Top.func.assignment_)
<1>1. TypeOK  BY DEF SearchInv
<1>2. Len(stack) \in 1..Len(stack) /\ IsFrame(Top)  BY <1>1, TopType
<1>3. Refuted(With(Top, Top.var_val)) /\ Refuted(With(Top, 1 - Top.var_val))
  BY <1>2 DEF SearchInv, SearchSound, FailuresJustified, Top, Explored
<1> SUFFICES ASSUME NEW m \in Solutions, Extends(m, Top.func.assignment_) PROVE FALSE
  BY DEF Refuted
<1>4. m \in Models  BY DEF Solutions
<1>5. Top.var_idx \in Vars /\ Top.var_val \in {0, 1} /\ Top.func.assignment_ \in Assignments
  BY <1>1, TopType DEF IsBoolFunction
<1>6. CASE m[Top.var_idx] = Top.var_val
  <2>1. Extends(m, With(Top, Top.var_val))
    BY <1>5, <1>6 DEF Extends, With, Assignments
  <2>2. QED BY <1>3, <2>1 DEF Refuted
<1>7. CASE m[Top.var_idx] = 1 - Top.var_val
  <2>1. Extends(m, With(Top, 1 - Top.var_val))
    BY <1>5, <1>7 DEF Extends, With, Assignments
  <2>2. QED BY <1>3, <2>1 DEF Refuted
<1>8. QED BY <1>4, <1>5, <1>6, <1>7 DEF Models

\* Every step of the search keeps the inductive invariant.
LEMMA NextSearchInv ==
  ASSUME SearchInv, [Next]_vars
  PROVE  SearchInv'
<1>0. TypeOK /\ Residual /\ formula \in Formulas  BY DEF SearchInv, TypeOK
<1>1. CASE BcpNoClause
  <2>1. stack # << >> /\ ret = "call"  BY <1>1 DEF BcpNoClause, Running
  <2>2. Top.func.functions_ = Simplify(Parsed.functions_, Top.func.assignment_)
    BY <1>0, <2>1, TopType DEF Residual, Top
  <2>3. Satisfies(Top.func.assignment_)
    BY <1>1, <2>2, SatisfiedSound DEF BcpNoClause, NoClauseLeft
  <2>4. Top.func.assignment_ \in Assignments  BY <1>0, <2>1, TopType DEF IsBoolFunction
  <2>5. QED BY <1>1, <2>1, <2>3, <2>4, ReturnTrueInv DEF BcpNoClause, DumpAssignment
<1>2. CASE BcpUnit  BY <1>2, BcpUnitInv
<1>3. CASE OutOfVariables
  <2>1. stack # << >> /\ ret = "call"  BY <1>3 DEF OutOfVariables, Unresolved, Running
  <2>2. Refuted(Top.func.assignment_)  BY <1>0, <1>3, OutOfVariablesRefutes
  <2>3. QED BY <1>3, <2>1, <2>2, ReturnFalseInv DEF OutOfVariables
<1>4. CASE Decide
  <2>1. stack # << >> /\ ret = "call"  BY <1>4 DEF Decide, Unresolved, Running
  <2>2. PICK v \in Vars :
          /\ IsChosen(Top.func, v)
          /\ LET val == PreferredValue(Top.func, v)
             IN  Branch([Top EXCEPT !.at = "first", !.var_idx = v, !.var_val = val],
                        Apply(Top.func, v, val))
    BY <1>4 DEF Decide
  <2> DEFINE val   == PreferredValue(Top.func, v)
             frame == [Top EXCEPT !.at = "first", !.var_idx = v, !.var_val = val]
  <2>3. val \in {0, 1}  BY DEF PreferredValue
  <2>4. /\ frame = [func |-> Top.func, at |-> "first", var_idx |-> v, var_val |-> val]
        /\ IsFrame(frame)
    BY <1>0, <2>1, <2>3, TopType, DecidedFrameType
  <2>5. Top.func.assignment_[v] = -1
    BY <2>2 DEF IsChosen, IsAssigned, VarOf, Vars
  <2>6. Branch(frame, Apply(Top.func, v, val))  BY <2>2
  <2> HIDE DEF frame, val
  <2>7. /\ frame.func = Top.func /\ frame.at = "first"
        /\ frame.var_idx = v /\ frame.var_val = val
    BY <2>4
  <2>8. QED BY <1>4, <2>1, <2>4, <2>5, <2>6, <2>7, BranchInv DEF Decide
<1>5. CASE TryOpposite
  <2>1. stack # << >> /\ ret = "false" /\ Top.at = "first"
    BY <1>5 DEF TryOpposite, Received
  <2> DEFINE frame == [Top EXCEPT !.at = "second"]
  <2>2. Len(stack) \in 1..Len(stack) /\ IsFrame(Top)  BY <1>0, <2>1, TopType
  <2>3. /\ IsFrame(frame)
        /\ frame.func = Top.func /\ frame.at = "second"
        /\ frame.var_idx = Top.var_idx /\ frame.var_val = Top.var_val
    BY <2>2 DEF IsFrame
  <2>4. Top.func.assignment_[Top.var_idx] = -1
    BY <2>1, <2>2 DEF SearchInv, SearchSound, Phases, Top
  <2>5. Refuted(Explored(Top))
    BY <2>1 DEF SearchInv, SearchSound, FailuresJustified
  <2>6. Branch(frame, Apply(Top.func, Top.var_idx, 1 - Top.var_val))
    BY <1>5 DEF TryOpposite
  <2> HIDE DEF frame
  <2>7. Refuted(With(frame, frame.var_val))  BY <2>1, <2>3, <2>5 DEF Explored, With
  <2>8. UNCHANGED <<formula, verdict>>  BY <1>5 DEF TryOpposite
  <2>9. QED BY <2>1, <2>3, <2>4, <2>6, <2>7, <2>8, BranchInv
<1>6. CASE BothFailed
  <2>1. stack # << >> /\ ret = "false" /\ Top.at = "second"
    BY <1>6 DEF BothFailed, Received
  <2>2. Refuted(Top.func.assignment_)  BY <2>1, BothFailedRefutes
  <2>3. QED BY <1>6, <2>1, <2>2, ReturnFalseInv DEF BothFailed
<1>7. CASE PassTrueUp  BY <1>7, ReturnTrueInv DEF PassTrueUp
<1>8. CASE Report
  <2>1. TypeOK'
    <3>1. (\A k \in 1..Len(stack) : IsFrame(stack[k]))'
      BY <1>0, <1>8, FramesPrimed DEF Report, TypeOK
    <3>2. QED BY <1>0, <1>8, <3>1 DEF Report, TypeOK
  <2>2. Residual'  BY <1>0, <1>8, ResidualPrimed DEF Report, Residual
  <2>3. Solutions' = Solutions  BY <1>8, SameFormula DEF Report
  <2>4. UNCHANGED <<stack, ret, dumps, formula>>  BY <1>8 DEF Report
  <2>5. Phases'  BY <2>4 DEF SearchInv, SearchSound, Phases, Top
  <2>6. PropagationForced'  BY <2>3, <2>4 DEF SearchInv, SearchSound, PropagationForced
  <2>7. FailuresJustified'
    BY <2>3, <2>4 DEF SearchInv, SearchSound, FailuresJustified, Refuted, Top
  <2>8. PrintedModelSatisfies'
    BY <2>4 DEF SearchInv, PrintedModelSatisfies, Satisfies
  <2>9. AnswerKept'
    BY <1>0, <1>8 DEF SearchInv, AnswerKept, Report, TypeOK
  <2>10. QED BY <2>1, <2>2, <2>5, <2>6, <2>7, <2>8, <2>9 DEF SearchInv, SearchSound
<1>9. CASE UNCHANGED vars
  <2>1. TypeOK'
    <3>1. (\A k \in 1..Len(stack) : IsFrame(stack[k]))'
      BY <1>0, <1>9, FramesPrimed DEF vars, TypeOK
    <3>2. QED BY <1>0, <1>9, <3>1 DEF vars, TypeOK
  <2>2. Residual'  BY <1>0, <1>9, ResidualPrimed DEF vars, Residual
  <2>3. Solutions' = Solutions  BY <1>9, SameFormula DEF vars
  <2>4. UNCHANGED <<stack, ret, dumps, formula, verdict>>  BY <1>9 DEF vars
  <2>5. Phases'  BY <2>4 DEF SearchInv, SearchSound, Phases, Top
  <2>6. PropagationForced'  BY <2>3, <2>4 DEF SearchInv, SearchSound, PropagationForced
  <2>7. FailuresJustified'
    BY <2>3, <2>4 DEF SearchInv, SearchSound, FailuresJustified, Refuted, Top
  <2>8. PrintedModelSatisfies'
    BY <2>4 DEF SearchInv, PrintedModelSatisfies, Satisfies
  <2>9. AnswerKept'  BY <2>4 DEF SearchInv, AnswerKept
  <2>10. QED BY <2>1, <2>2, <2>5, <2>6, <2>7, <2>8, <2>9 DEF SearchInv, SearchSound
<1>10. QED BY <1>1, <1>2, <1>3, <1>4, <1>5, <1>6, <1>7, <1>8, <1>9 DEF Next

\* Every function of the search is the parsed formula simplified under its
\* assignment, in every behaviour.
THEOREM ResidualAlways == Spec => []Residual
<1>1. Init => SearchInv  BY InitSearchInv
<1>2. SearchInv /\ [Next]_vars => SearchInv'  BY NextSearchInv
<1>3. SearchInv => Residual  BY DEF SearchInv
<1>4. QED BY <1>1, <1>2, <1>3, PTL DEF Spec

\* Propagation is forced and failures are justified, in every behaviour.
THEOREM SearchSoundAlways == Spec => []SearchSound
<1>1. Init => SearchInv  BY InitSearchInv
<1>2. SearchInv /\ [Next]_vars => SearchInv'  BY NextSearchInv
<1>3. SearchInv => SearchSound  BY DEF SearchInv
<1>4. QED BY <1>1, <1>2, <1>3, PTL DEF Spec

\* Whatever DumpAssignment prints satisfies the parsed formula.
THEOREM PrintedModelAlwaysSatisfies == Spec => []PrintedModelSatisfies
<1>1. Init => SearchInv  BY InitSearchInv
<1>2. SearchInv /\ [Next]_vars => SearchInv'  BY NextSearchInv
<1>3. SearchInv => PrintedModelSatisfies  BY DEF SearchInv
<1>4. QED BY <1>1, <1>2, <1>3, PTL DEF Spec

\* The verdict that main prints is right, for every parsed formula.
THEOREM VerdictAlwaysCorrect == Spec => []VerdictCorrect
<1>1. Init => SearchInv  BY InitSearchInv
<1>2. SearchInv /\ [Next]_vars => SearchInv'  BY NextSearchInv
<1>3. SearchInv => VerdictCorrect
  <2> SUFFICES ASSUME SearchInv PROVE VerdictCorrect  OBVIOUS
  <2>1. ASSUME verdict = "SATISFIED" PROVE Solutions # {}
    <3>1. ret = "true"  BY <2>1 DEF SearchInv, AnswerKept
    <3>2. dumps \in Seq(Assignments) /\ Len(dumps) = 1 /\ formula \in Formulas
      BY <3>1 DEF SearchInv, PrintedModelSatisfies, TypeOK
    <3>3. dumps[1] \in Assignments /\ Satisfies(dumps[1])
      BY <3>2 DEF SearchInv, PrintedModelSatisfies
    <3>4. QED BY <3>2, <3>3, CompletionIsSolution
  <2>2. ASSUME verdict = "UNSATISFIED" PROVE Solutions = {}
    BY <2>2 DEF SearchInv, AnswerKept, SearchSound, FailuresJustified
  <2>3. QED BY <2>1, <2>2 DEF VerdictCorrect
<1>4. QED BY <1>1, <1>2, <1>3, PTL DEF Spec

-----------------------------------------------------------------------------
(* What a step does to the activations.                                    *)

\* The innermost activation gives up: no model extends its assignment.
GivesUp ==
  /\ stack # << >> /\ ret # "true" /\ Return("false")
  /\ Refuted(Top.func.assignment_)
  /\ UNCHANGED <<formula, dumps, verdict>>

\* The innermost activation prints an assignment that satisfies the formula and
\* extends its own one and, in its second branch, the decision.
Finds(a) ==
  /\ stack # << >> /\ ret # "true" /\ Return("true")
  /\ Satisfies(a) /\ dumps' = Append(dumps, a)
  /\ \A m \in Models : Extends(m, a) => m \in Pending(Top)
  /\ UNCHANGED <<formula, verdict>>

\* Unit propagation assigns one more variable, as every model must.
Propagates(v, val) ==
  /\ stack # << >> /\ ret = "call"
  /\ Top.func.assignment_[v] = -1
  /\ \A m \in Solutions : Extends(m, Top.func.assignment_) => m[v] = val
  /\ stack' = [stack EXCEPT ![Len(stack)] = [Top EXCEPT !.func = Apply(Top.func, v, val)]]
  /\ UNCHANGED <<formula, ret, dumps, verdict>>

\* The innermost activation decides a variable (first) or takes the opposite of
\* its decision (second) and calls SolveDPLL for that branch.
Calls(frame, value) ==
  /\ stack # << >> /\ ret # "true"
  /\ IsFrame(frame) /\ frame.func = Top.func
  /\ value \in {0, 1}
  /\ Top.func.assignment_[frame.var_idx] = -1
  /\ \/ frame.at = "first" /\ Top.at = "bcp" /\ value = frame.var_val
     \/ /\ frame.at = "second" /\ Top.at = "first" /\ value = 1 - frame.var_val
        /\ frame.var_idx = Top.var_idx /\ frame.var_val = Top.var_val
  /\ stack' = Append([stack EXCEPT ![Len(stack)] = frame],
                     Frame(Apply(Top.func, frame.var_idx, value)))
  /\ ret' = "call"
  /\ UNCHANGED <<formula, dumps, verdict>>

\* The literal of a unit clause is over a variable not assigned yet.
LEMMA UnitLiteralUnassigned ==
  ASSUME TypeOK, Residual, stack # << >>,
         NEW c \in Units(Top.func), NEW j \in Top.func.functions_[c]
  PROVE  /\ c \in DOMAIN formula /\ j \in DOMAIN formula[c]
         /\ VarOf(formula[c][j]) \in Vars
         /\ Top.func.assignment_[VarOf(formula[c][j])] = -1
         /\ c \in DOMAIN Simplify(Parsed.functions_, Top.func.assignment_)
         /\ Simplify(Parsed.functions_, Top.func.assignment_)[c] = {j}
<1> DEFINE a == Top.func.assignment_
<1>1. Top.func.functions_ = Simplify(Parsed.functions_, a)
  BY TopType DEF Residual, Top
<1>2. /\ c \in DOMAIN Simplify(Parsed.functions_, a)
      /\ Simplify(Parsed.functions_, a)[c] = {j}
  BY <1>1 DEF Units
<1>3. /\ c \in DOMAIN formula
      /\ {j} = {i \in DOMAIN formula[c] : ~ IsAssigned(a, formula[c][i])}
  BY <1>2, SimplifiedClause
<1>4. j \in DOMAIN formula[c] /\ ~ IsAssigned(a, formula[c][j])  BY <1>3
<1>5. formula \in Formulas  BY DEF TypeOK
<1>6. QED BY <1>2, <1>3, <1>4, <1>5, LiteralType DEF IsAssigned

\* The assignments that extend one with one more variable assigned.
LEMMA ExtendsOneMore ==
  ASSUME NEW a \in Assignments, NEW v \in Vars, a[v] = -1, NEW val \in {0, 1},
         NEW m \in Models
  PROVE  Extends(m, [a EXCEPT ![v] = val]) <=> Extends(m, a) /\ m[v] = val
BY DEF Extends, Assignments

\* What a branch does: it finds a model or calls SolveDPLL.
LEMMA BranchEffect ==
  ASSUME TypeOK, Residual, stack # << >>, ret # "true", UNCHANGED <<formula, verdict>>,
         NEW frame, IsFrame(frame), frame.func = Top.func, NEW value \in {0, 1},
         Top.func.assignment_[frame.var_idx] = -1,
         \/ frame.at = "first" /\ Top.at = "bcp" /\ value = frame.var_val
         \/ /\ frame.at = "second" /\ Top.at = "first" /\ value = 1 - frame.var_val
            /\ frame.var_idx = Top.var_idx /\ frame.var_val = Top.var_val,
         Branch(frame, Apply(Top.func, frame.var_idx, value))
  PROVE  (\E a \in Assignments : Finds(a)) \/ Calls(frame, value)
<1> DEFINE a    == Top.func.assignment_
           b    == [a EXCEPT ![frame.var_idx] = value]
           func == Apply(Top.func, frame.var_idx, value)
<1>1. frame.var_idx \in Vars /\ a \in Assignments  BY TopType DEF IsFrame, IsBoolFunction
<1>2. /\ b \in Assignments
      /\ func.assignment_ = b
      /\ StateOf(func) = "Satisfied" => Satisfies(b)
  BY <1>1, ApplyResidual
<1>3. \A m \in Models : Extends(m, b) => m \in Pending(Top)
  <2>1. \A m \in Models : Extends(m, b) => Extends(m, a) /\ m[frame.var_idx] = value
    BY <1>1, ExtendsOneMore
  <2> HIDE DEF b
  <2>2. QED BY <2>1 DEF Pending
<1>4. Branch(frame, func)  OBVIOUS
<1> HIDE DEF b, func
<1>5. CASE StateOf(func) = "Satisfied" /\ DumpAssignment(func) /\ Return("true")
  BY <1>2, <1>3, <1>5 DEF Finds, DumpAssignment
<1>6. CASE /\ stack' = Append([stack EXCEPT ![Len(stack)] = frame], Frame(func))
           /\ ret' = "call"
           /\ UNCHANGED dumps
  BY <1>6 DEF Calls, func
<1>7. QED BY <1>4, <1>5, <1>6 DEF Branch

\* Every step is one of these, passes "true" up, reports, or changes nothing.
LEMMA StepEffect ==
  ASSUME SearchInv, [Next]_vars
  PROVE  \/ GivesUp
         \/ \E a \in Assignments : Finds(a)
         \/ \E v \in Vars, val \in {0, 1} : Propagates(v, val)
         \/ \E frame, value : Calls(frame, value)
         \/ PassTrueUp
         \/ Report
         \/ UNCHANGED vars
<1>0. TypeOK /\ Residual /\ formula \in Formulas  BY DEF SearchInv, TypeOK
<1>1. CASE BcpNoClause
  <2>1. stack # << >> /\ ret = "call"  BY <1>1 DEF BcpNoClause, Running
  <2>2. Top.func.functions_ = Simplify(Parsed.functions_, Top.func.assignment_)
    BY <1>0, <2>1, TopType DEF Residual, Top
  <2>3. Satisfies(Top.func.assignment_)
    BY <1>1, <2>2, SatisfiedSound DEF BcpNoClause, NoClauseLeft
  <2>4. Top.func.assignment_ \in Assignments  BY <1>0, <2>1, TopType DEF IsBoolFunction
  <2>5. Finds(Top.func.assignment_)
    BY <1>1, <2>1, <2>3 DEF Finds, Pending, BcpNoClause, Running, DumpAssignment
  <2>6. QED BY <2>4, <2>5
<1>2. CASE BcpUnit
  <2>1. stack # << >> /\ ret = "call" /\ Top.at = "bcp"  BY <1>2 DEF BcpUnit, Running
  <2>2. PICK c \in Units(Top.func) : \E j \in Top.func.functions_[c] :
          LET lit  == formula[c][j]
              func == Apply(Top.func, VarOf(lit), IF lit > 0 THEN 1 ELSE 0)
          IN  \/ /\ StateOf(func) = "Satisfied"
                 /\ DumpAssignment(func)
                 /\ Return("true")
              \/ /\ StateOf(func) = "Conflicting"
                 /\ Return("false")
                 /\ UNCHANGED dumps
              \/ /\ StateOf(func) = "Unresolved"
                 /\ stack' = [stack EXCEPT ![Len(stack)] = [@ EXCEPT !.func = func]]
                 /\ UNCHANGED <<ret, dumps>>
    BY <1>2 DEF BcpUnit
  <2>3. PICK j \in Top.func.functions_[c] :
          LET lit  == formula[c][j]
              func == Apply(Top.func, VarOf(lit), IF lit > 0 THEN 1 ELSE 0)
          IN  \/ /\ StateOf(func) = "Satisfied"
                 /\ DumpAssignment(func)
                 /\ Return("true")
              \/ /\ StateOf(func) = "Conflicting"
                 /\ Return("false")
                 /\ UNCHANGED dumps
              \/ /\ stack' = [stack EXCEPT ![Len(stack)] = [Top EXCEPT !.func = func]]
                 /\ UNCHANGED <<ret, dumps>>
    BY <2>2 DEF Top
  <2> DEFINE a    == Top.func.assignment_
             v    == VarOf(formula[c][j])
             val  == IF formula[c][j] > 0 THEN 1 ELSE 0
             func == Apply(Top.func, v, val)
             b    == [a EXCEPT ![v] = val]
  <2>4. /\ v \in Vars /\ a[v] = -1
        /\ c \in DOMAIN Simplify(Parsed.functions_, a)
        /\ Simplify(Parsed.functions_, a)[c] = {j}
    BY <1>0, <2>1, UnitLiteralUnassigned
  <2>5. a \in Assignments /\ val \in {0, 1}  BY <1>0, <2>1, TopType DEF IsBoolFunction
  <2>6. \A m \in Solutions : Extends(m, a) => Extends(m, b)
    BY <1>0, <2>4, <2>5, UnitForces
  <2>7. /\ b \in Assignments
        /\ func.assignment_ = b
        /\ StateOf(func) = "Satisfied" => Satisfies(b)
        /\ StateOf(func) = "Conflicting" => Refuted(b)
    BY <1>0, <2>1, <2>4, <2>5, ApplyResidual
  <2>8. \A m \in Models : Extends(m, b) <=> Extends(m, a) /\ m[v] = val
    <3> HIDE DEF a, v, val
    <3>1. QED BY <2>4, <2>5, ExtendsOneMore
  <2>9. Solutions \subseteq Models  BY DEF Solutions
  <2>10. UNCHANGED <<formula, verdict>>  BY <1>2 DEF BcpUnit
  <2>11. \/ /\ StateOf(func) = "Satisfied"
            /\ DumpAssignment(func)
            /\ Return("true")
         \/ /\ StateOf(func) = "Conflicting"
            /\ Return("false")
            /\ UNCHANGED dumps
         \/ /\ stack' = [stack EXCEPT ![Len(stack)] = [Top EXCEPT !.func = Apply(Top.func, v, val)]]
            /\ UNCHANGED <<ret, dumps>>
    BY <2>3
  <2> HIDE DEF v, val, func, b
  <2>12. CASE StateOf(func) = "Satisfied" /\ DumpAssignment(func) /\ Return("true")
    <3>1. Finds(b)  BY <2>1, <2>7, <2>8, <2>10, <2>12 DEF Finds, Pending, DumpAssignment
    <3>2. QED BY <2>7, <3>1
  <2>13. CASE StateOf(func) = "Conflicting" /\ Return("false") /\ UNCHANGED dumps
    <3>1. Refuted(a)  BY <2>6, <2>7, <2>13 DEF Refuted
    <3>2. QED BY <2>1, <2>10, <2>13, <3>1 DEF GivesUp
  <2>14. CASE /\ stack' = [stack EXCEPT ![Len(stack)] = [Top EXCEPT !.func = Apply(Top.func, v, val)]]
              /\ UNCHANGED <<ret, dumps>>
    <3>1. \A m \in Solutions : Extends(m, a) => m[v] = val  BY <2>6, <2>8, <2>9
    <3>2. Propagates(v, val)  BY <2>1, <2>4, <2>10, <2>14, <3>1 DEF Propagates
    <3>3. QED BY <2>4, <2>5, <3>2
  <2>15. QED BY <2>11, <2>12, <2>13, <2>14
<1>3. CASE OutOfVariables
  BY <1>0, <1>3, OutOfVariablesRefutes DEF OutOfVariables, Unresolved, Running, GivesUp
<1>4. CASE Decide
  <2>1. stack # << >> /\ ret = "call" /\ Top.at = "bcp"
    BY <1>4 DEF Decide, Unresolved, Running
  <2>2. PICK v \in Vars :
          /\ IsChosen(Top.func, v)
          /\ LET val == PreferredValue(Top.func, v)
             IN  Branch([Top EXCEPT !.at = "first", !.var_idx = v, !.var_val = val],
                        Apply(Top.func, v, val))
    BY <1>4 DEF Decide
  <2> DEFINE val   == PreferredValue(Top.func, v)
             frame == [Top EXCEPT !.at = "first", !.var_idx = v, !.var_val = val]
  <2>3. val \in {0, 1}  BY DEF PreferredValue
  <2>4. /\ frame = [func |-> Top.func, at |-> "first", var_idx |-> v, var_val |-> val]
        /\ IsFrame(frame)
    BY <1>0, <2>1, <2>3, TopType, DecidedFrameType
  <2>5. Top.func.assignment_[v] = -1  BY <2>2 DEF IsChosen, IsAssigned, VarOf, Vars
  <2>6. Branch(frame, Apply(Top.func, v, val))  BY <2>2
  <2> HIDE DEF frame, val
  <2>7. /\ frame.func = Top.func /\ frame.at = "first"
        /\ frame.var_idx = v /\ frame.var_val = val
    BY <2>4
  <2>8. QED BY <1>0, <1>4, <2>1, <2>3, <2>4, <2>5, <2>6, <2>7, BranchEffect DEF Decide
<1>5. CASE TryOpposite
  <2>1. stack # << >> /\ ret = "false" /\ Top.at = "first"
    BY <1>5 DEF TryOpposite, Received
  <2> DEFINE frame == [Top EXCEPT !.at = "second"]
  <2>2. Len(stack) \in 1..Len(stack) /\ IsFrame(Top)  BY <1>0, <2>1, TopType
  <2>3. /\ IsFrame(frame)
        /\ frame.func = Top.func /\ frame.at = "second"
        /\ frame.var_idx = Top.var_idx /\ frame.var_val = Top.var_val
    BY <2>2 DEF IsFrame
  <2>4. Top.func.assignment_[Top.var_idx] = -1
    BY <2>1, <2>2 DEF SearchInv, SearchSound, Phases, Top
  <2>5. Branch(frame, Apply(Top.func, Top.var_idx, 1 - Top.var_val))
    BY <1>5 DEF TryOpposite
  <2> HIDE DEF frame
  <2>6. 1 - Top.var_val \in {0, 1}  BY <2>2 DEF IsFrame
  <2>7. QED BY <1>0, <1>5, <2>1, <2>3, <2>4, <2>5, <2>6, BranchEffect DEF TryOpposite
<1>6. CASE BothFailed
  BY <1>6, BothFailedRefutes DEF BothFailed, Received, GivesUp
<1>7. QED BY <1>1, <1>2, <1>3, <1>4, <1>5, <1>6 DEF Next

-----------------------------------------------------------------------------
(* Assignments grow from an activation to the ones it calls, and in time.   *)

\* A called activation keeps its caller's assignment and decision.
Growing ==
  \A k \in 1..Len(stack) - 1 : Extends(stack[k + 1].func.assignment_, Explored(stack[k]))

GrowingInv == SearchInv /\ Growing

\* Assignments that extend others do so transitively.
LEMMA ExtendsTransitive ==
  ASSUME NEW a, NEW b, NEW c, Extends(c, b), Extends(b, a)
  PROVE  Extends(c, a)
BY DEF Extends

\* Assigning a variable that has no value yet extends an assignment.
LEMMA AssigningExtends ==
  ASSUME NEW a \in Assignments, NEW v \in Vars, a[v] = -1, NEW val
  PROVE  Extends([a EXCEPT ![v] = val], a)
BY DEF Extends, Assignments

\* Applying a value to a variable that has none extends the assignment.
LEMMA ApplyExtends ==
  ASSUME TypeOK, Residual, stack # << >>, NEW v \in Vars, NEW val \in {0, 1},
         Top.func.assignment_[v] = -1
  PROVE  /\ Apply(Top.func, v, val).assignment_ = [Top.func.assignment_ EXCEPT ![v] = val]
         /\ Extends(Apply(Top.func, v, val).assignment_, Top.func.assignment_)
<1> DEFINE a == Top.func.assignment_
           b == [a EXCEPT ![v] = val]
<1>1. a \in Assignments  BY TopType DEF IsBoolFunction
<1>2. Apply(Top.func, v, val).assignment_ = b  BY ApplyResidual
<1>3. a[v] = -1  OBVIOUS
<1> HIDE DEF a
<1>4. Extends(b, a)  BY <1>1, <1>3, AssigningExtends
<1> HIDE DEF b
<1>5. QED BY <1>2, <1>4 DEF a, b

\* The activations after a step, one by one.
LEMMA StackEffect ==
  ASSUME SearchInv, [Next]_vars
  PROVE  /\ IsStack(stack) /\ IsStack(stack')
         /\ \/ /\ Len(stack') <= Len(stack)
               /\ \A k \in 1..Len(stack') : stack'[k] = stack[k]
            \/ /\ Len(stack') = Len(stack) /\ Len(stack) >= 1
               /\ \A k \in 1..Len(stack) - 1 : stack'[k] = stack[k]
               /\ \E v \in Vars, val \in {0, 1} :
                    /\ Top.func.assignment_[v] = -1
                    /\ stack'[Len(stack)] = [Top EXCEPT !.func = Apply(Top.func, v, val)]
            \/ /\ Len(stack') = Len(stack) + 1 /\ Len(stack) >= 1
               /\ \A k \in 1..Len(stack) - 1 : stack'[k] = stack[k]
               /\ \E frame, value :
                    /\ Calls(frame, value)
                    /\ stack'[Len(stack)] = frame
                    /\ stack'[Len(stack) + 1] = Frame(Apply(Top.func, frame.var_idx, value))
<1>1. IsStack(stack) /\ Len(stack) \in Nat  BY DEF SearchInv, TypeOK, IsStack
<1>2. stack # << >> => Len(stack) >= 1  BY <1>1, StackIsSequence
<1>3. ASSUME stack # << >>, NEW value, Return(value)
      PROVE  /\ IsStack(stack')
             /\ Len(stack') <= Len(stack)
             /\ \A k \in 1..Len(stack') : stack'[k] = stack[k]
  <2>1. stack' = SubSeq(stack, 1, Len(stack) - 1)  BY <1>3 DEF Return
  <2>2. /\ IsStack(stack')
        /\ Len(stack') = Len(stack) - 1
        /\ \A k \in 1..Len(stack') : stack'[k] = stack[k]
    BY <1>1, <1>3, <2>1, Popped
  <2>3. QED BY <1>1, <2>2
<1>4. CASE GivesUp  BY <1>1, <1>3, <1>4 DEF GivesUp
<1>5. CASE \E a \in Assignments : Finds(a)  BY <1>1, <1>3, <1>5 DEF Finds
<1>6. CASE PassTrueUp  BY <1>1, <1>3, <1>6 DEF PassTrueUp
<1>7. CASE Report \/ UNCHANGED vars  BY <1>1, <1>7 DEF Report, vars
<1>8. CASE \E v \in Vars, val \in {0, 1} : Propagates(v, val)
  <2>1. PICK v \in Vars, val \in {0, 1} : Propagates(v, val)  BY <1>8
  <2> DEFINE g == [Top EXCEPT !.func = Apply(Top.func, v, val)]
  <2>2. /\ stack # << >>
        /\ Top.func.assignment_[v] = -1
        /\ stack' = [stack EXCEPT ![Len(stack)] = g]
    BY <2>1 DEF Propagates
  <2>3. g = [Top EXCEPT !.func = Apply(Top.func, v, val)]  OBVIOUS
  <2> HIDE DEF g
  <2>4. /\ IsStack(stack')
        /\ Len(stack') = Len(stack)
        /\ \A k \in 1..Len(stack) : stack'[k] = IF k = Len(stack) THEN g ELSE stack[k]
    <3> DEFINE t == [stack EXCEPT ![Len(stack)] = g]
    <3>1. /\ IsStack(t)
          /\ Len(t) = Len(stack)
          /\ \A k \in 1..Len(stack) : t[k] = IF k = Len(stack) THEN g ELSE stack[k]
      BY <1>1, <2>2, TopReplaced, Zenon
    <3>2. stack' = t  BY <2>2
    <3> HIDE DEF t
    <3>3. QED BY <3>1, <3>2
  <2>5. stack'[Len(stack)] = g  BY <1>1, <1>2, <2>2, <2>4
  <2>6. \A k \in 1..Len(stack) - 1 : stack'[k] = stack[k]  BY <1>1, <2>4
  <2>7. \E w \in Vars, x \in {0, 1} :
          /\ Top.func.assignment_[w] = -1
          /\ stack'[Len(stack)] = [Top EXCEPT !.func = Apply(Top.func, w, x)]
    BY <2>2, <2>3, <2>5
  <2>8. QED BY <1>1, <1>2, <2>2, <2>4, <2>6, <2>7
<1>9. CASE \E frame, value : Calls(frame, value)
  <2>1. PICK frame, value : Calls(frame, value)  BY <1>9
  <2> DEFINE g == Frame(Apply(Top.func, frame.var_idx, value))
  <2>2. stack # << >> /\ stack' = Append([stack EXCEPT ![Len(stack)] = frame], g)
    BY <2>1 DEF Calls
  <2> HIDE DEF g
  <2>3. /\ IsStack(stack')
        /\ Len(stack') = Len(stack) + 1
        /\ \A k \in 1..Len(stack) : stack'[k] = IF k = Len(stack) THEN frame ELSE stack[k]
        /\ stack'[Len(stack) + 1] = g
    BY <1>1, <2>2, ReplacedAndPushed
  <2>4. stack'[Len(stack)] = frame  BY <1>1, <1>2, <2>2, <2>3
  <2>5. \A k \in 1..Len(stack) - 1 : stack'[k] = stack[k]  BY <1>1, <2>3
  <2>6. QED BY <1>1, <1>2, <2>1, <2>2, <2>3, <2>4, <2>5 DEF g
<1>10. QED BY <1>4, <1>5, <1>6, <1>7, <1>8, <1>9, StepEffect

\* Every step keeps the growth, and leaves to each activation what it had
\* assigned.
LEMMA NextGrowing ==
  ASSUME SearchInv, Growing, [Next]_vars
  PROVE  /\ Growing'
         /\ \A k \in DOMAIN stack \cap DOMAIN stack' :
              Extends(stack'[k].func.assignment_, stack[k].func.assignment_)
<1>1. TypeOK /\ Residual /\ Len(stack) \in Nat  BY DEF SearchInv, TypeOK
<1>2. IsStack(stack) /\ IsStack(stack')  BY StackEffect
<1>3. DOMAIN stack = 1..Len(stack) /\ DOMAIN stack' = 1..Len(stack') /\ Len(stack') \in Nat
  BY <1>2 DEF IsStack
<1>4. Growing' <=> \A k \in 1..Len(stack') - 1 :
                     Extends(stack'[k + 1].func.assignment_, Explored(stack'[k]))
  BY DEF Growing, Explored, With, Extends
<1>5. \A k \in 1..Len(stack) - 1 : Extends(stack[k + 1].func.assignment_, Explored(stack[k]))
  BY DEF Growing
<1>6. \A a : Extends(a, a)  BY DEF Extends
<1>7. CASE /\ Len(stack') <= Len(stack)
           /\ \A k \in 1..Len(stack') : stack'[k] = stack[k]
  <2>1. \A k \in 1..Len(stack') - 1 : /\ k \in 1..Len(stack) - 1
                                      /\ stack'[k] = stack[k] /\ stack'[k + 1] = stack[k + 1]
    BY <1>1, <1>3, <1>7
  <2>2. QED BY <1>3, <1>4, <1>5, <1>6, <1>7, <2>1
<1>8. CASE /\ Len(stack') = Len(stack) /\ Len(stack) >= 1
           /\ \A k \in 1..Len(stack) - 1 : stack'[k] = stack[k]
           /\ \E v \in Vars, val \in {0, 1} :
                /\ Top.func.assignment_[v] = -1
                /\ stack'[Len(stack)] = [Top EXCEPT !.func = Apply(Top.func, v, val)]
  <2>1. PICK v \in Vars, val \in {0, 1} :
          /\ Top.func.assignment_[v] = -1
          /\ stack'[Len(stack)] = [Top EXCEPT !.func = Apply(Top.func, v, val)]
    BY <1>8
  <2>2. stack # << >>  BY <1>2, <1>8, StackIsSequence
  <2>3. IsFrame(Top)  BY <1>1, <2>2, TopType
  <2>4. Extends(Apply(Top.func, v, val).assignment_, Top.func.assignment_)
    BY <1>1, <2>1, <2>2, ApplyExtends
  <2>5. stack'[Len(stack)].func = Apply(Top.func, v, val)  BY <2>1, <2>3 DEF IsFrame
  <2>6. Extends(stack'[Len(stack)].func.assignment_, stack[Len(stack)].func.assignment_)
    BY <2>4, <2>5 DEF Top
  <2>7. ASSUME NEW k \in 1..Len(stack)
        PROVE  Extends(stack'[k].func.assignment_, stack[k].func.assignment_)
    <3>1. CASE k = Len(stack)  BY <2>6, <3>1
    <3>2. CASE k \in 1..Len(stack) - 1
      <4>1. stack'[k] = stack[k]  BY <1>8, <3>2
      <4>2. QED BY <1>6, <4>1
    <3>3. QED BY <1>1, <3>1, <3>2
  <2>8. ASSUME NEW k \in 1..Len(stack') - 1
        PROVE  Extends(stack'[k + 1].func.assignment_, Explored(stack'[k]))
    <3>1. k \in 1..Len(stack) - 1 /\ k + 1 \in 1..Len(stack)  BY <1>1, <1>8
    <3>2. stack'[k] = stack[k]  BY <1>8, <3>1
    <3>3. QED BY <1>5, <2>7, <3>1, <3>2, ExtendsTransitive
  <2>9. QED BY <1>3, <1>4, <1>8, <2>7, <2>8
<1>9. CASE /\ Len(stack') = Len(stack) + 1 /\ Len(stack) >= 1
           /\ \A k \in 1..Len(stack) - 1 : stack'[k] = stack[k]
           /\ \E frame, value :
                /\ Calls(frame, value)
                /\ stack'[Len(stack)] = frame
                /\ stack'[Len(stack) + 1] = Frame(Apply(Top.func, frame.var_idx, value))
  <2>1. PICK frame, value :
          /\ Calls(frame, value)
          /\ stack'[Len(stack)] = frame
          /\ stack'[Len(stack) + 1] = Frame(Apply(Top.func, frame.var_idx, value))
    BY <1>9
  <2>2. /\ stack # << >> /\ IsFrame(frame) /\ frame.func = Top.func /\ value \in {0, 1}
        /\ value = IF frame.at = "first" THEN frame.var_val ELSE 1 - frame.var_val
        /\ Top.func.assignment_[frame.var_idx] = -1
    BY <2>1 DEF Calls
  <2>3. frame.var_idx \in Vars  BY <2>2 DEF IsFrame
  <2>4. Apply(Top.func, frame.var_idx, value).assignment_ = Explored(frame)
    <3>1. Apply(Top.func, frame.var_idx, value).assignment_ =
            [Top.func.assignment_ EXCEPT ![frame.var_idx] = value]
      BY <1>1, <2>2, <2>3, ApplyExtends
    <3>2. Explored(frame) = [Top.func.assignment_ EXCEPT ![frame.var_idx] = value]
      BY <2>2, ExploredValue
    <3>3. QED BY <3>1, <3>2
  <2>5. stack'[Len(stack) + 1].func.assignment_ = Explored(frame)  BY <2>1, <2>4 DEF Frame
  <2>6. \A k \in 1..Len(stack) : stack'[k].func = stack[k].func
    BY <1>1, <1>9, <2>1, <2>2 DEF Top
  <2>7. ASSUME NEW k \in 1..Len(stack') - 1
        PROVE  Extends(stack'[k + 1].func.assignment_, Explored(stack'[k]))
    <3>1. CASE k = Len(stack)  BY <1>6, <2>1, <2>5, <3>1
    <3>2. CASE k \in 1..Len(stack) - 1
      <4>1. k + 1 \in 1..Len(stack) /\ stack'[k] = stack[k]  BY <1>1, <1>9, <3>2
      <4>2. stack'[k + 1].func = stack[k + 1].func  BY <2>6, <4>1
      <4>3. QED BY <1>5, <3>2, <4>1, <4>2
    <3>3. QED BY <1>1, <1>9, <3>1, <3>2
  <2>8. \A k \in DOMAIN stack \cap DOMAIN stack' :
          Extends(stack'[k].func.assignment_, stack[k].func.assignment_)
    BY <1>3, <1>6, <2>6
  <2>9. QED BY <1>4, <2>7, <2>8
<1>10. QED BY <1>7, <1>8, <1>9, StackEffect

\* The growth holds in every behaviour.
LEMMA GrowingAlways == Spec => []GrowingInv
<1>1. Init => GrowingInv
  <2> SUFFICES ASSUME Init PROVE GrowingInv  OBVIOUS
  <2>1. Len(stack) = 1  BY DEF Init
  <2>2. Growing  BY <2>1 DEF Growing
  <2>3. QED BY <2>2, InitSearchInv DEF GrowingInv
<1>2. GrowingInv /\ [Next]_vars => GrowingInv'
  BY NextSearchInv, NextGrowing DEF GrowingInv
<1>3. QED BY <1>1, <1>2, PTL DEF Spec

\* A caller's assignment is extended by what it explores, and so by the
\* assignments of the activations above it.
LEMMA CallerExtended ==
  ASSUME SearchInv, Growing, NEW k \in 1..Len(stack) - 1
  PROVE  /\ Extends(stack[k + 1].func.assignment_, stack[k].func.assignment_)
         /\ stack[k].func.assignment_[stack[k].var_idx] = -1
         /\ stack[k].var_idx \in Vars
         /\ stack[k + 1].func.assignment_[stack[k].var_idx] # -1
<1> DEFINE a     == stack[k].func.assignment_
           v     == stack[k].var_idx
           value == IF stack[k].at = "first" THEN stack[k].var_val ELSE 1 - stack[k].var_val
<1>1. Len(stack) \in Nat  BY DEF SearchInv, TypeOK
<1>2. IsFrame(stack[k])  BY <1>1 DEF SearchInv, TypeOK
<1>3. a \in Assignments /\ v \in Vars /\ value \in {0, 1}
  BY <1>2 DEF IsFrame, IsBoolFunction
<1>4. a[v] = -1  BY <1>1 DEF SearchInv, SearchSound, Phases
<1>5. Explored(stack[k]) = [a EXCEPT ![v] = value]  BY ExploredValue
<1>6. Extends(stack[k + 1].func.assignment_, Explored(stack[k]))  BY DEF Growing
<1> HIDE DEF a, v, value
<1>7. Extends(Explored(stack[k]), a)  BY <1>3, <1>4, <1>5, AssigningExtends
<1>8. Explored(stack[k])[v] = value  BY <1>3, <1>5 DEF Assignments
<1>9. stack[k + 1].func.assignment_[v] # -1  BY <1>3, <1>6, <1>8 DEF Extends
<1>10. QED BY <1>3, <1>4, <1>6, <1>7, <1>9, ExtendsTransitive DEF a, v

CallersKept ==
  \A k \in 1..Len(stack) - 1 :
    Extends(stack[k + 1].func.assignment_, stack[k].func.assignment_)

\* No activation ever loses a value: neither to a later step nor to the
\* activations it calls.
THEOREM AlwaysAssignedForGood == Spec => AssignedForGood
<1> DEFINE Kept ==
      /\ \A k \in DOMAIN stack \cap DOMAIN stack' :
           Extends(stack'[k].func.assignment_, stack[k].func.assignment_)
      /\ \A k \in 1..Len(stack') - 1 :
           Extends(stack'[k + 1].func.assignment_, stack'[k].func.assignment_)
<1>1. GrowingInv => CallersKept  BY CallerExtended DEF GrowingInv, CallersKept
<1>2. GrowingInv /\ [Next]_vars /\ CallersKept' => [Kept]_vars
  <2> SUFFICES ASSUME GrowingInv, [Next]_vars, CallersKept' PROVE Kept  OBVIOUS
  <2>1. \A k \in DOMAIN stack \cap DOMAIN stack' :
          Extends(stack'[k].func.assignment_, stack[k].func.assignment_)
    BY NextGrowing DEF GrowingInv
  <2>2. \A k \in 1..Len(stack') - 1 :
          Extends(stack'[k + 1].func.assignment_, stack'[k].func.assignment_)
    BY DEF CallersKept, Extends
  <2>3. QED BY <2>1, <2>2
<1>3. AssignedForGood <=> [][Kept]_vars  BY DEF AssignedForGood
<1> HIDE DEF Kept
<1>4. QED BY <1>1, <1>2, <1>3, GrowingAlways, PTL DEF Spec

\* The activations assign more and more variables, one more each at least.
LEMMA AssignedCount ==
  ASSUME SearchInv, Growing, NEW k \in 1..Len(stack)
  PROVE  LET assigned == {v \in Vars : stack[k].func.assignment_[v] # -1}
         IN  IsFiniteSet(assigned) /\ Cardinality(assigned) \in Nat /\ Cardinality(assigned) >= k - 1
<1> DEFINE assigned(n) == {v \in Vars : stack[n].func.assignment_[v] # -1}
           S == {n \in Nat : n + 1 \in 1..Len(stack) => Cardinality(assigned(n + 1)) >= n}
<1>1. IsFiniteSet(Vars)  BY FS_Interval, NVarAssumption DEF Vars
<1>2. \A n : IsFiniteSet(assigned(n)) /\ Cardinality(assigned(n)) \in Nat
  BY <1>1, FS_Subset, FS_CardinalityType
<1>3. 0 \in S
  <2>1. Cardinality(assigned(1)) \in Nat  BY <1>2
  <2> HIDE DEF assigned
  <2>2. QED BY <2>1
<1>4. ASSUME NEW n \in Nat, n \in S PROVE n + 1 \in S
  <2> SUFFICES ASSUME n + 2 \in 1..Len(stack) PROVE Cardinality(assigned(n + 2)) >= n + 1
    OBVIOUS
  <2> DEFINE w == stack[n + 1].var_idx
  <2>1. n + 1 \in 1..Len(stack) - 1 /\ (n + 1) + 1 = n + 2
    BY DEF SearchInv, TypeOK
  <2>2. Cardinality(assigned(n + 1)) >= n  BY <1>4, <2>1 DEF SearchInv, TypeOK
  <2>3. /\ Extends(stack[n + 2].func.assignment_, stack[n + 1].func.assignment_)
        /\ w \in Vars /\ stack[n + 1].func.assignment_[w] = -1
        /\ stack[n + 2].func.assignment_[w] # -1
    BY <2>1, CallerExtended
  <2>4. w \notin assigned(n + 1)  BY <2>3
  <2>5. assigned(n + 1) \cup {w} \subseteq assigned(n + 2)  BY <2>3 DEF Extends
  <2> HIDE DEF assigned, w
  <2>6. Cardinality(assigned(n + 1) \cup {w}) = Cardinality(assigned(n + 1)) + 1
    BY <1>2, <2>4, FS_AddElement
  <2>7. Cardinality(assigned(n + 1) \cup {w}) <= Cardinality(assigned(n + 2))
    BY <1>2, <2>5, FS_Subset
  <2>8. QED BY <1>2, <2>2, <2>6, <2>7
<1> HIDE DEF S
<1>5. Nat \subseteq S  BY <1>3, <1>4, SetInduction
<1>6. k - 1 \in Nat /\ (k - 1) + 1 = k  BY DEF SearchInv, TypeOK
<1>7. Cardinality(assigned(k)) >= k - 1  BY <1>5, <1>6 DEF S
<1>8. QED BY <1>2, <1>7

\* The recursion of SolveDPLL is never deeper than there are variables, plus
\* one.
THEOREM DepthAlwaysBounded == Spec => []DepthBounded
<1>1. GrowingInv => DepthBounded
  <2> SUFFICES ASSUME SearchInv, Growing, stack # << >> PROVE DepthBounded
    BY NVarAssumption DEF GrowingInv, DepthBounded
  <2> DEFINE assigned == {v \in Vars : stack[Len(stack)].func.assignment_[v] # -1}
  <2>1. Len(stack) \in 1..Len(stack)  BY TopType DEF SearchInv
  <2>2. Cardinality(assigned) \in Nat /\ Cardinality(assigned) >= Len(stack) - 1
    BY <2>1, AssignedCount
  <2>3. IsFiniteSet(Vars) /\ Cardinality(Vars) = NVar
    BY FS_Interval, NVarAssumption DEF Vars
  <2>4. Cardinality(assigned) <= Cardinality(Vars)  BY <2>3, FS_Subset
  <2> HIDE DEF assigned
  <2>5. QED BY <2>1, <2>2, <2>3, <2>4, NVarAssumption DEF DepthBounded
<1>2. QED BY <1>1, GrowingAlways, PTL

-----------------------------------------------------------------------------
(* The occurrence counts.                                                  *)

\* Every function holds the counts of its own literals.
Counted ==
  \A k \in 1..Len(stack) :
    stack[k].func.frequency_sign_ = FrequencySign(stack[k].func.functions_)

\* UpdateState counts after it has erased.
LEMMA ApplyCounts ==
  ASSUME NEW func, NEW v, NEW val
  PROVE  Apply(func, v, val).frequency_sign_ = FrequencySign(Apply(func, v, val).functions_)
BY DEF Apply, UpdateState

\* The parsed formula never changes.
LEMMA FormulaKept == [Next]_vars => formula' = formula
BY DEF Next, vars, BcpNoClause, BcpUnit, OutOfVariables, Decide, TryOpposite, BothFailed,
       PassTrueUp, Report

\* Every step keeps the counts.
LEMMA NextCounted ==
  ASSUME SearchInv, Counted, [Next]_vars
  PROVE  Counted'
<1>1. \A k : FrequencySign(stack[k].func.functions_)' = FrequencySign(stack'[k].func.functions_)
  BY FormulaKept DEF FrequencySign, Occurrences
<1>2. TypeOK /\ Len(stack) \in Nat  BY DEF SearchInv, TypeOK
<1> SUFFICES ASSUME NEW k \in 1..Len(stack')
             PROVE  stack'[k].func.frequency_sign_ = FrequencySign(stack'[k].func.functions_)
  BY <1>1 DEF Counted
<1>3. \A i \in 1..Len(stack) :
        stack[i].func.frequency_sign_ = FrequencySign(stack[i].func.functions_)
  BY DEF Counted
<1>4. CASE k \in 1..Len(stack) /\ stack'[k].func = stack[k].func  BY <1>3, <1>4
<1>5. ASSUME NEW v, NEW val, stack'[k].func = Apply(Top.func, v, val)
      PROVE  stack'[k].func.frequency_sign_ = FrequencySign(stack'[k].func.functions_)
  BY <1>5, ApplyCounts
<1>6. CASE /\ Len(stack') <= Len(stack)
           /\ \A i \in 1..Len(stack') : stack'[i] = stack[i]
  BY <1>2, <1>4, <1>6
<1>7. CASE /\ Len(stack') = Len(stack) /\ Len(stack) >= 1
           /\ \A i \in 1..Len(stack) - 1 : stack'[i] = stack[i]
           /\ \E v \in Vars, val \in {0, 1} :
                /\ Top.func.assignment_[v] = -1
                /\ stack'[Len(stack)] = [Top EXCEPT !.func = Apply(Top.func, v, val)]
  <2>1. PICK v \in Vars, val \in {0, 1} :
          stack'[Len(stack)] = [Top EXCEPT !.func = Apply(Top.func, v, val)]
    BY <1>7
  <2>2. IsFrame(Top)  BY <1>2, <1>7 DEF TypeOK, Top
  <2>3. stack'[Len(stack)].func = Apply(Top.func, v, val)  BY <2>1, <2>2 DEF IsFrame
  <2>4. CASE k = Len(stack)  BY <1>5, <2>3, <2>4
  <2>5. CASE k \in 1..Len(stack) - 1  BY <1>2, <1>4, <1>7, <2>5
  <2>6. QED BY <1>2, <1>7, <2>4, <2>5
<1>8. CASE /\ Len(stack') = Len(stack) + 1 /\ Len(stack) >= 1
           /\ \A i \in 1..Len(stack) - 1 : stack'[i] = stack[i]
           /\ \E frame, value :
                /\ Calls(frame, value)
                /\ stack'[Len(stack)] = frame
                /\ stack'[Len(stack) + 1] = Frame(Apply(Top.func, frame.var_idx, value))
  <2>1. PICK frame, value :
          /\ Calls(frame, value)
          /\ stack'[Len(stack)] = frame
          /\ stack'[Len(stack) + 1] = Frame(Apply(Top.func, frame.var_idx, value))
    BY <1>8
  <2>2. stack'[Len(stack) + 1].func = Apply(Top.func, frame.var_idx, value)
    BY <2>1 DEF Frame
  <2>3. stack'[Len(stack)].func = stack[Len(stack)].func  BY <2>1 DEF Calls, Top
  <2>4. CASE k = Len(stack) + 1  BY <1>5, <2>2, <2>4
  <2>5. CASE k = Len(stack)  BY <1>2, <1>4, <1>8, <2>3, <2>5
  <2>6. CASE k \in 1..Len(stack) - 1  BY <1>2, <1>4, <1>8, <2>6
  <2>7. QED BY <1>2, <1>8, <2>4, <2>5, <2>6
<1>9. QED BY <1>6, <1>7, <1>8, StackEffect

\* A literal that is left is over a variable not assigned.
LEMMA NoneLeftOfAssigned ==
  ASSUME formula \in Formulas, NEW a \in Assignments, NEW v \in Vars, a[v] # -1,
         NEW l \in {v, -v}
  PROVE  Occurrences(Simplify(Parsed.functions_, a), l) = 0
<1> DEFINE fs == Simplify(Parsed.functions_, a)
<1>1. ASSUME NEW p \in Present(fs) PROVE formula[p[1]][p[2]] # l
  <2>1. PICK c \in DOMAIN fs : p \in {c} \X fs[c]  BY DEF Present
  <2>2. p[1] = c /\ p[2] \in fs[c]  BY <2>1
  <2>3. c \in DOMAIN formula /\ fs[c] = {i \in DOMAIN formula[c] : ~ IsAssigned(a, formula[c][i])}
    BY SimplifiedClause
  <2> HIDE DEF fs
  <2>4. ~ IsAssigned(a, formula[c][p[2]])  BY <2>2, <2>3
  <2>5. IsAssigned(a, l)  BY NVarAssumption DEF IsAssigned, VarOf, Vars
  <2>6. QED BY <2>2, <2>4, <2>5
<1> HIDE DEF fs
<1>2. {p \in Present(fs) : formula[p[1]][p[2]] = l} = {}  BY <1>1
<1>3. Occurrences(fs, l) = 0  BY <1>2, FS_EmptySet DEF Occurrences
<1>4. QED BY <1>3 DEF fs

\* The counts are always those of the literals that are left, and zero for the
\* variables that have been assigned.
THEOREM FrequenciesAlwaysFresh == Spec => []FrequenciesFresh
<1>1. Init => SearchInv /\ Counted
  <2> SUFFICES ASSUME Init PROVE Counted  BY InitSearchInv
  <2>1. Len(stack) = 1 /\ stack[1].func = Parsed  BY DEF Init, Frame
  <2>2. Parsed.frequency_sign_ = FrequencySign(Parsed.functions_)  BY DEF Parsed
  <2>3. QED BY <2>1, <2>2 DEF Counted
<1>2. (SearchInv /\ Counted) /\ [Next]_vars => (SearchInv /\ Counted)'
  BY NextSearchInv, NextCounted
<1>3. SearchInv /\ Counted => FrequenciesFresh
  <2> SUFFICES ASSUME SearchInv, Counted, NEW k \in 1..Len(stack)
               PROVE  LET func == stack[k].func
                      IN  /\ func.frequency_sign_ = FrequencySign(func.functions_)
                          /\ \A v \in Vars : IsAssigned(func.assignment_, v) => Score(func, v) = 0
    <3>1. SearchInv => DOMAIN stack = 1..Len(stack)  BY DEF SearchInv, TypeOK
    <3>2. QED BY <3>1 DEF FrequenciesFresh
  <2> DEFINE func == stack[k].func
             a    == func.assignment_
  <2>1. func.frequency_sign_ = FrequencySign(func.functions_)  BY DEF Counted
  <2>2. /\ func.functions_ = Simplify(Parsed.functions_, a)
        /\ a \in Assignments /\ formula \in Formulas
    BY DEF SearchInv, Residual, TypeOK, IsFrame, IsBoolFunction
  <2>3. ASSUME NEW v \in Vars, IsAssigned(a, v) PROVE Score(func, v) = 0
    <3> HIDE DEF func, a
    <3>1. a[v] # -1  BY <2>3 DEF IsAssigned, VarOf, Vars
    <3>2. /\ Occurrences(func.functions_, v) = 0
          /\ Occurrences(func.functions_, -v) = 0
      BY <2>2, <3>1, NoneLeftOfAssigned
    <3>3. QED BY <2>1, <3>2 DEF Score, FrequencySign
  <2>4. QED BY <2>1, <2>3
<1>4. QED BY <1>1, <1>2, <1>3, PTL DEF Spec

-----------------------------------------------------------------------------
(* The search implements ModelSearch.                                      *)

\* An assignment is printed just before "true" is returned.
LEMMA NothingPrinted ==
  ASSUME SearchInv
  PROVE  ret # "true" <=> dumps = << >>
<1>1. dumps \in Seq(Assignments) /\ Len(dumps) = IF ret = "true" THEN 1 ELSE 0
  BY DEF SearchInv, TypeOK, PrintedModelSatisfies
<1>2. QED BY <1>1

\* The assignments still open while nothing has been printed.
LEMMA OpenMembers ==
  ASSUME IsStack(stack), dumps = << >>, NEW m
  PROVE  m \in Open <=> \E k \in 1..Len(stack) : m \in Pending(stack[k])
<1>1. DOMAIN stack = 1..Len(stack)  BY DEF IsStack
<1>2. Open = UNION {Pending(stack[k]) : k \in 1..Len(stack)}  BY <1>1 DEF Open
<1>3. QED BY <1>2

\* The same after a step.
LEMMA OpenMembersPrimed ==
  ASSUME IsStack(stack'), dumps' = << >>, NEW m
  PROVE  m \in Open' <=> \E k \in 1..Len(stack') : m \in Pending(stack'[k])
<1>1. DOMAIN stack' = 1..Len(stack')  BY DEF IsStack
<1>2. Open' = UNION {Pending(stack'[k]) : k \in 1..Len(stack')}  BY <1>1 DEF Open
<1>3. QED BY <1>2

\* Whatever an activation leaves open is a total assignment extending its own.
LEMMA PendingExtends ==
  ASSUME NEW f, NEW m \in Pending(f)
  PROVE  m \in Models /\ Extends(m, f.func.assignment_)
BY DEF Pending

\* Dropping assignments that are no solutions is a step of ModelSearch.
LEMMA DiscardStep ==
  ASSUME verdict = "none", UNCHANGED <<formula, verdict>>, Open' \subseteq Open,
         Open \subseteq Models, \A m \in Open \ Open' : m \notin Solutions
  PROVE  Search!Next
<1>1. \A m \in Open \ Open' : ~ ModelOf(formula, m)  BY DEF Solutions, Satisfies, ModelOf
<1>2. QED BY <1>1 DEF Search!Next, Search!Discard

\* The total assignments that extend a satisfying one are models.
LEMMA ExtensionsSatisfy ==
  ASSUME formula \in Formulas, NEW a \in Assignments, Satisfies(a),
         NEW m \in Models, Extends(m, a)
  PROVE  ModelOf(formula, m)
<1> SUFFICES ASSUME NEW c \in DOMAIN formula
             PROVE  \E j \in DOMAIN formula[c] : IsTrue(m, formula[c][j])
  BY DEF ModelOf
<1>1. PICK j \in DOMAIN formula[c] : IsTrue(a, formula[c][j])  BY DEF Satisfies
<1>2. formula[c][j] \in Lits  BY LiteralType
<1>3. IsAssigned(a, formula[c][j])  BY <1>1 DEF IsTrue
<1>4. QED BY <1>1, <1>2, <1>3, ModelsLiterals

\* There is a total assignment that extends a partial one.
LEMMA CompletionExists ==
  ASSUME NEW a \in Assignments
  PROVE  \E m \in Models : Extends(m, a)
<1> DEFINE m == [v \in Vars |-> IF a[v] = -1 THEN 0 ELSE a[v]]
<1>1. m \in Models /\ Extends(m, a)  BY DEF Models, Extends, Assignments
<1>2. QED BY <1>1

\* Giving up drops what extends the assignment of the innermost activation.
LEMMA GivesUpSearches ==
  ASSUME SearchInv, IsStack(stack), verdict = "none", Open \subseteq Models, GivesUp
  PROVE  Search!Next
<1>1. dumps = << >> /\ dumps' = << >>  BY NothingPrinted DEF GivesUp
<1>2. /\ IsStack(stack')
      /\ Len(stack') = Len(stack) - 1
      /\ \A k \in 1..Len(stack') : stack'[k] = stack[k]
  BY Popped DEF GivesUp, Return
<1>3. Len(stack) \in Nat /\ Len(stack) >= 1  BY StackIsSequence DEF GivesUp, IsStack
<1>4. Open' \subseteq Open
  <2>1. \A k \in 1..Len(stack') : k \in 1..Len(stack) /\ stack'[k] = stack[k]  BY <1>2, <1>3
  <2>2. QED BY <1>1, <1>2, <2>1, OpenMembers, OpenMembersPrimed
<1>5. ASSUME NEW m \in Open, m \notin Open' PROVE m \notin Solutions
  <2>1. PICK k \in 1..Len(stack) : m \in Pending(stack[k])  BY <1>1, OpenMembers
  <2>2. k \notin 1..Len(stack')  BY <1>1, <1>2, <1>5, <2>1, OpenMembersPrimed
  <2>3. k = Len(stack)  BY <1>2, <1>3, <2>2
  <2>4. Extends(m, Top.func.assignment_)  BY <2>1, <2>3, PendingExtends DEF Top
  <2>5. QED BY <2>4 DEF GivesUp, Refuted
<1>6. QED BY <1>4, <1>5, DiscardStep DEF GivesUp

\* Printing an assignment settles on the assignments that extend it.
LEMMA FindsSearches ==
  ASSUME SearchInv, IsStack(stack), verdict = "none", NEW a \in Assignments, Finds(a)
  PROVE  Search!Next
<1>1. dumps = << >>  BY NothingPrinted DEF Finds
<1>2. dumps' # << >> /\ dumps'[1] = a  BY <1>1 DEF Finds
<1>3. Open' = {m \in Models : Extends(m, a)}  BY <1>2 DEF Open
<1>4. Len(stack) \in 1..Len(stack)  BY StackIsSequence DEF Finds, IsStack
<1>5. Open' \subseteq Open
  <2>1. \A m \in Open' : m \in Pending(stack[Len(stack)])  BY <1>3 DEF Finds, Top
  <2>2. QED BY <1>1, <1>4, <2>1, OpenMembers
<1>6. Open' # {}  BY <1>3, CompletionExists
<1>7. formula \in Formulas /\ Satisfies(a)  BY DEF SearchInv, TypeOK, Finds
<1>8. \A m \in Open' : ModelOf(formula, m)  BY <1>3, <1>7, ExtensionsSatisfy
<1>9. UNCHANGED <<formula, verdict>>  BY DEF Finds
<1>10. QED BY <1>5, <1>6, <1>8, <1>9 DEF Search!Next, Search!Settle, Search!OnlyModels

\* Unit propagation drops what gives the unit literal the other value.
LEMMA PropagatesSearches ==
  ASSUME SearchInv, IsStack(stack), verdict = "none", Open \subseteq Models,
         NEW v \in Vars, NEW val \in {0, 1}, Propagates(v, val)
  PROVE  Search!Next
<1> DEFINE a == Top.func.assignment_
           b == [a EXCEPT ![v] = val]
           g == [Top EXCEPT !.func = Apply(Top.func, v, val)]
<1>1. TypeOK /\ Residual /\ stack # << >> /\ a[v] = -1 /\ Top.at = "bcp"
  BY DEF SearchInv, SearchSound, Phases, Propagates
<1>2. dumps = << >> /\ dumps' = << >>  BY NothingPrinted DEF Propagates
<1>3. IsFrame(Top) /\ a \in Assignments  BY <1>1, TopType DEF IsBoolFunction
<1>4. g.func.assignment_ = b /\ g.at = "bcp"
  <2>1. g.func = Apply(Top.func, v, val) /\ g.at = Top.at  BY <1>3 DEF IsFrame
  <2> HIDE DEF g
  <2>2. QED BY <1>1, <2>1, ApplyExtends
<1>5. \A m \in Models : Extends(m, b) <=> Extends(m, a) /\ m[v] = val
  <2> HIDE DEF a
  <2>1. QED BY <1>1, <1>3, ExtendsOneMore
<1>6. stack' = [stack EXCEPT ![Len(stack)] = g]  BY DEF Propagates
<1> HIDE DEF g, b
<1>7. /\ IsStack(stack')
      /\ Len(stack') = Len(stack)
      /\ \A k \in 1..Len(stack) : stack'[k] = IF k = Len(stack) THEN g ELSE stack[k]
  <2> DEFINE t == [stack EXCEPT ![Len(stack)] = g]
  <2>1. /\ IsStack(t)
        /\ Len(t) = Len(stack)
        /\ \A k \in 1..Len(stack) : t[k] = IF k = Len(stack) THEN g ELSE stack[k]
    BY <1>1, TopReplaced, Zenon
  <2>2. stack' = t  BY <1>6
  <2> HIDE DEF t
  <2>3. QED BY <2>1, <2>2
<1>8. Len(stack) \in 1..Len(stack)  BY <1>1, TopType
<1>9. Pending(Top) = {m \in Models : Extends(m, a)}  BY <1>1 DEF Pending
<1>10. Pending(g) = {m \in Models : Extends(m, b)}  BY <1>4 DEF Pending
<1>11. Pending(g) \subseteq Pending(Top)  BY <1>5, <1>9, <1>10
<1>12. \A m \in Pending(Top) \ Pending(g) : m \notin Solutions
  BY <1>5, <1>9, <1>10 DEF Propagates
<1>13. Open' \subseteq Open
  <2> SUFFICES ASSUME NEW m \in Open' PROVE m \in Open  OBVIOUS
  <2>1. PICK k \in 1..Len(stack) : m \in Pending(stack'[k])
    BY <1>2, <1>7, OpenMembersPrimed
  <2>2. m \in Pending(stack[k])  BY <1>7, <1>11, <2>1 DEF Top
  <2>3. QED BY <1>2, <2>2, OpenMembers
<1>14. ASSUME NEW m \in Open, m \notin Open' PROVE m \notin Solutions
  <2>1. PICK k \in 1..Len(stack) : m \in Pending(stack[k])  BY <1>2, OpenMembers
  <2>2. m \notin Pending(stack'[k])  BY <1>2, <1>7, <1>14, OpenMembersPrimed
  <2>3. k = Len(stack) /\ m \in Pending(Top) /\ m \notin Pending(g)
    BY <1>7, <2>1, <2>2 DEF Top
  <2>4. QED BY <1>12, <2>3
<1>15. UNCHANGED <<formula, verdict>>  BY DEF Propagates
<1>16. QED BY <1>13, <1>14, <1>15, DiscardStep

\* A call splits what is open between the caller and the activation called, or
\* hands it over.
LEMMA CallsSearches ==
  ASSUME SearchInv, IsStack(stack), verdict = "none", Open \subseteq Models,
         NEW frame, NEW value, Calls(frame, value)
  PROVE  Search!Next
<1> DEFINE a == Top.func.assignment_
           v == frame.var_idx
           b == [a EXCEPT ![v] = value]
           g == Frame(Apply(Top.func, v, value))
<1>1. TypeOK /\ Residual /\ stack # << >> /\ a[v] = -1 /\ value \in {0, 1} /\ v \in Vars
  BY DEF SearchInv, Calls, IsFrame
<1>2. dumps = << >> /\ dumps' = << >>  BY NothingPrinted DEF Calls
<1>3. a \in Assignments  BY <1>1, TopType DEF IsBoolFunction
<1>4. g.func.assignment_ = b /\ g.at = "bcp"
  <2>1. g.func = Apply(Top.func, v, value) /\ g.at = "bcp"  BY DEF Frame
  <2> HIDE DEF g, v
  <2>2. QED BY <1>1, <2>1, ApplyExtends
<1>5. \A m \in Models : Extends(m, b) <=> Extends(m, a) /\ m[v] = value
  <2> HIDE DEF a, v
  <2>1. QED BY <1>1, <1>3, ExtendsOneMore
<1>6. stack' = Append([stack EXCEPT ![Len(stack)] = frame], g)  BY DEF Calls
<1> HIDE DEF g, b
<1>7. /\ IsStack(stack')
      /\ Len(stack') = Len(stack) + 1
      /\ \A k \in 1..Len(stack) : stack'[k] = IF k = Len(stack) THEN frame ELSE stack[k]
      /\ stack'[Len(stack) + 1] = g
  BY <1>1, <1>6, ReplacedAndPushed
<1>8. Len(stack) \in 1..Len(stack)  BY <1>1, TopType
<1>9. Pending(g) = {m \in Models : Extends(m, b)}  BY <1>4 DEF Pending
<1>10. \A m : m \in Pending(Top) <=> m \in Pending(frame) \/ m \in Pending(g)
  <2>1. CASE frame.at = "first" /\ Top.at = "bcp" /\ value = frame.var_val
    <3>1. Pending(Top) = {m \in Models : Extends(m, a)}  BY <2>1 DEF Pending
    <3>2. Pending(frame) = {m \in Models : Extends(m, a) /\ m[v] = 1 - value}
      BY <2>1 DEF Pending, Calls
    <3>3. \A m \in Models : m[v] = value \/ m[v] = 1 - value  BY <1>1 DEF Models
    <3>4. QED BY <1>5, <1>9, <3>1, <3>2, <3>3
  <2>2. CASE /\ frame.at = "second" /\ Top.at = "first" /\ value = 1 - frame.var_val
             /\ v = Top.var_idx /\ frame.var_val = Top.var_val
    <3>1. Pending(Top) = {m \in Models : Extends(m, a) /\ m[v] = value}
      BY <2>2 DEF Pending
    <3>2. Pending(frame) = {}  BY <2>2 DEF Pending
    <3>3. QED BY <1>5, <1>9, <3>1, <3>2
  <2>3. QED BY <2>1, <2>2 DEF Calls
<1>11. Open' = Open
  <2>1. ASSUME NEW m \in Open PROVE m \in Open'
    <3>1. PICK k \in 1..Len(stack) : m \in Pending(stack[k])  BY <1>2, OpenMembers
    <3>2. CASE k = Len(stack)
      <4>1. m \in Pending(stack'[Len(stack)]) \/ m \in Pending(stack'[Len(stack) + 1])
        BY <1>7, <1>8, <1>10, <3>1, <3>2 DEF Top
      <4>2. Len(stack) \in 1..Len(stack') /\ Len(stack) + 1 \in 1..Len(stack')  BY <1>7, <1>8
      <4>3. QED BY <1>2, <1>7, <4>1, <4>2, OpenMembersPrimed
    <3>3. CASE k # Len(stack)
      <4>1. stack'[k] = stack[k] /\ k \in 1..Len(stack')  BY <1>7, <1>8, <3>3
      <4>2. QED BY <1>2, <1>7, <3>1, <4>1, OpenMembersPrimed
    <3>4. QED BY <3>2, <3>3
  <2>2. ASSUME NEW m \in Open' PROVE m \in Open
    <3>1. PICK k \in 1..Len(stack') : m \in Pending(stack'[k])
      BY <1>2, <1>7, OpenMembersPrimed
    <3>2. CASE k = Len(stack) + 1 \/ k = Len(stack)
      <4>1. m \in Pending(stack[Len(stack)])  BY <1>7, <1>8, <1>10, <3>1, <3>2 DEF Top
      <4>2. QED BY <1>2, <1>8, <4>1, OpenMembers
    <3>3. CASE k \in 1..Len(stack) /\ k # Len(stack)
      <4>1. stack'[k] = stack[k]  BY <1>7, <3>3
      <4>2. QED BY <1>2, <3>1, <3>3, <4>1, OpenMembers
    <3>4. QED BY <1>7, <1>8, <3>2, <3>3
  <2>3. QED BY <2>1, <2>2
<1>12. UNCHANGED <<formula, verdict>>  BY DEF Calls
<1>13. QED BY <1>11, <1>12, DiscardStep

\* The report is the answer of ModelSearch.
LEMMA ReportSearches ==
  ASSUME SearchInv, IsStack(stack), Report
  PROVE  Search!Next
<1>1. /\ stack = << >> /\ verdict = "none"
      /\ verdict' = IF ret = "true" THEN "SATISFIED" ELSE "UNSATISFIED"
      /\ UNCHANGED <<formula, stack, dumps>>
  BY DEF Report
<1>2. Open' = Open  BY <1>1 DEF Open
<1>3. CASE ret = "true"
  <2>1. dumps # << >> /\ dumps \in Seq(Assignments) /\ formula \in Formulas
    BY <1>3, NothingPrinted DEF SearchInv, TypeOK
  <2>2. dumps[1] \in Assignments /\ 1 \in DOMAIN dumps  BY <2>1
  <2>3. Satisfies(dumps[1])  BY <2>2 DEF SearchInv, PrintedModelSatisfies
  <2>4. Open = {m \in Models : Extends(m, dumps[1])}  BY <2>1 DEF Open
  <2>5. Open # {}  BY <2>2, <2>4, CompletionExists
  <2>6. \A m \in Open : ModelOf(formula, m)  BY <2>1, <2>2, <2>3, <2>4, ExtensionsSatisfy
  <2>7. QED BY <1>1, <1>2, <1>3, <2>5, <2>6 DEF Search!Next, Search!Answer, Search!OnlyModels
<1>4. CASE ret # "true"
  <2>1. dumps = << >>  BY <1>4, NothingPrinted
  <2>2. Len(stack) = 0  BY <1>1
  <2>3. Open = {}  BY <2>1, <2>2, OpenMembers
  <2>4. QED BY <1>1, <1>2, <1>4, <2>3 DEF Search!Next, Search!Answer
<1>5. QED BY <1>3, <1>4

\* SolveDPLL implements a complete model search: no step of it drops an
\* assignment that satisfies the parsed formula before a model is printed, and
\* the verdict is given when nothing or only models are left.
THEOREM SearchIsComplete == Spec => NeverDropsAModel
<1>1. Init => Search!Init
  <2> SUFFICES ASSUME Init PROVE Search!Init  OBVIOUS
  <2>1. Len(stack) = 1 /\ stack[1] = Frame(Parsed) /\ dumps = << >> /\ IsStack(stack)
    BY DEF Init, IsStack
  <2>2. Frame(Parsed).at = "bcp" /\ Frame(Parsed).func.assignment_ = [v \in Vars |-> -1]
    BY DEF Frame, Parsed
  <2>3. Pending(stack[1]) = Models  BY <2>1, <2>2 DEF Pending, Extends
  <2>4. \A m : m \in Open <=> m \in Models
    <3>1. \A m : m \in Open <=> \E k \in 1..1 : m \in Pending(stack[k])
      BY <2>1, OpenMembers
    <3>2. QED BY <2>3, <3>1
  <2>5. Open = Models  BY <2>4
  <2>6. QED BY <2>5 DEF Init, Search!Init
<1>2. SearchInv /\ [Next]_vars => [Search!Next]_<<formula, Open, verdict>>
  <2> SUFFICES ASSUME SearchInv, [Next]_vars
               PROVE  Search!Next \/ UNCHANGED <<formula, Open, verdict>>
    OBVIOUS
  <2>1. IsStack(stack)  BY DEF SearchInv, TypeOK, IsStack
  <2>2. stack # << >> => verdict = "none"  BY DEF SearchInv, AnswerKept
  <2>3. Open \subseteq Models
    <3>1. CASE dumps = << >>  BY <2>1, <3>1, OpenMembers, PendingExtends
    <3>2. CASE dumps # << >>  BY <3>2 DEF Open
    <3>3. QED BY <3>1, <3>2
  <2>4. CASE GivesUp  BY <2>1, <2>2, <2>3, <2>4, GivesUpSearches DEF GivesUp
  <2>5. CASE \E a \in Assignments : Finds(a)  BY <2>1, <2>2, <2>5, FindsSearches DEF Finds
  <2>6. CASE \E v \in Vars, val \in {0, 1} : Propagates(v, val)
    BY <2>1, <2>2, <2>3, <2>6, PropagatesSearches DEF Propagates
  <2>7. CASE \E frame, value : Calls(frame, value)
    BY <2>1, <2>2, <2>3, <2>7, CallsSearches DEF Calls
  <2>8. CASE PassTrueUp
    <3>1. dumps # << >>  BY <2>8, NothingPrinted DEF PassTrueUp
    <3>2. Open' = Open  BY <2>8, <3>1 DEF PassTrueUp, Open
    <3>3. QED BY <2>8, <3>2 DEF PassTrueUp
  <2>9. CASE Report  BY <2>1, <2>9, ReportSearches
  <2>10. CASE UNCHANGED vars  BY <2>10 DEF vars, Open
  <2>11. QED BY <2>4, <2>5, <2>6, <2>7, <2>8, <2>9, <2>10, StepEffect
<1>3. Init => SearchInv  BY InitSearchInv
<1>4. SearchInv /\ [Next]_vars => SearchInv'  BY NextSearchInv
<1>5. QED BY <1>1, <1>2, <1>3, <1>4, PTL DEF Spec, NeverDropsAModel, Search!Spec
=============================================================================
