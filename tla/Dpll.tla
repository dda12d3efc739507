-------------------------------- MODULE Dpll --------------------------------
(***************************************************************************)
(* The DPLL solver of assignment-2: class BoolFunction (a CNF formula being *)
(* simplified under a partial assignment) and class Dpll (the recursive     *)
(* search SolveDPLL with unit propagation and a most-frequent-variable      *)
(* heuristic).                                                              *)
(*                                                                          *)
(* The C++ recursion is an explicit stack: one frame per activation of      *)
(* SolveDPLL.  A copy of BoolFunction is a record.  functions_, a vector of *)
(* vectors from which clauses and literals are erased, is the partial       *)
(* function from the original clause number to the set of literal positions *)
(* not erased: erasing keeps the order of what remains, so the first clause *)
(* of the vector is the one with the least number.                          *)
(*                                                                          *)
(* An operator whose comment starts with "Fault:" is what a plausible bug   *)
(* would make of the definition after it.  Nothing uses it: it is there to  *)
(* try, in place of that definition, whether a property notices.            *)
(***************************************************************************)
EXTENDS Integers, Sequences, FiniteSets

CONSTANTS
  NVar,       \* n_var_, from the DIMACS header
  Formulas    \* the clause lists that ParseDimacsFile may leave in functions_

ASSUME NVarAssumption == NVar \in Nat \ {0}

Vars == 1..NVar
Lits == (-NVar..NVar) \ {0}

ASSUME FormulasAssumption == Formulas \subseteq Seq(Seq(Lits))

VARIABLES
  formula,    \* functions_ of Dpll::bool_func_, the parsed formula, constant
  stack,      \* the activations of SolveDPLL, innermost last
  ret,        \* "call" while the innermost activation runs, else the value
              \* ("true", "false") that has just been returned to it
  dumps,      \* the assignments printed by DumpAssignment
  verdict     \* what main printed: "none", "SATISFIED", "UNSATISFIED"

vars == <<formula, stack, ret, dumps, verdict>>

-----------------------------------------------------------------------------
(* BoolFunction: literals, assignments and simplification.                 *)

\* assignment_[v] is -1 until v is assigned 0 or 1
Assignments == [Vars -> {-1, 0, 1}]

VarOf(l) == IF l > 0 THEN l ELSE -l

IsAssigned(a, l) == a[VarOf(l)] # -1

AssignedValue(a, l) == IF l > 0 THEN a[l] = 1 ELSE a[-l] = 0

IsTrue(a, l) == IsAssigned(a, l) /\ AssignedValue(a, l)

\* The literals still in functions_, as clause number and position.
Present(fs) == UNION {{c} \X fs[c] : c \in DOMAIN fs}

Occurrences(fs, l) == Cardinality({p \in Present(fs) : formula[p[1]][p[2]] = l})

\* frequency_sign_: positive and negative occurrences of each variable.
FrequencySign(fs) ==
  [v \in Vars |-> [first |-> Occurrences(fs, v), second |-> Occurrences(fs, -v)]]

\* Fault: true clauses stay, only their false literals are erased.
SimplifyKeepsTrueClauses(fs, a) ==
  [c \in DOMAIN fs |-> {j \in fs[c] : IsAssigned(a, formula[c][j]) => IsTrue(a, formula[c][j])}]

\* First loop of UpdateState: a clause with a true literal is erased, false
\* literals are erased from the other clauses.  ErasingLoop is that loop step
\* by step.
Simplify(fs, a) ==
  [c \in {d \in DOMAIN fs : ~ \E j \in fs[d] : IsTrue(a, formula[d][j])} |->
     {j \in fs[c] : ~ IsAssigned(a, formula[c][j])}]

\* Fault: the frequencies are counted before the erasures.
UpdateStateCountsFirst(fs, a) ==
  [functions_ |-> Simplify(fs, a), assignment_ |-> a, frequency_sign_ |-> FrequencySign(fs)]

UpdateState(fs, a) ==
  LET gs == Simplify(fs, a)
  IN  [functions_ |-> gs, assignment_ |-> a, frequency_sign_ |-> FrequencySign(gs)]

Apply(func, id, value) ==
  UpdateState(func.functions_, [func.assignment_ EXCEPT ![id] = value])

HasEmptyClause(func) ==
  \E c \in DOMAIN func.functions_ : func.functions_[c] = {}

\* functions_.empty()
NoClauseLeft(func) == DOMAIN func.functions_ = {}

\* Fault: no literal left counts as no clause left.
StateOfLiteralsOnly(func) ==
  CASE Present(func.functions_) = {} -> "Satisfied"
    [] HasEmptyClause(func)          -> "Conflicting"
    [] OTHER                         -> "Unresolved"

\* The ClauseState that UpdateState returns.
StateOf(func) ==
  CASE HasEmptyClause(func) -> "Conflicting"
    [] NoClauseLeft(func)   -> "Satisfied"
    [] OTHER                -> "Unresolved"

\* BoolFunction(file_name), after the file has been parsed.
Parsed ==
  LET fs == [c \in DOMAIN formula |-> DOMAIN formula[c]]
  IN  [functions_ |-> fs, assignment_ |-> [v \in Vars |-> -1],
       frequency_sign_ |-> FrequencySign(fs)]

-----------------------------------------------------------------------------
(* Dpll: the recursive search.                                             *)

\* A frame is at "bcp" until it has decided a variable, at "first" while the
\* preferred value is explored and at "second" while the opposite one is.
Frame(func) == [func |-> func, at |-> "bcp", var_idx |-> 1, var_val |-> 0]

Top == stack[Len(stack)]

Running(at) == stack # << >> /\ ret = "call" /\ Top.at = at

Received(value, at) == stack # << >> /\ ret = value /\ Top.at = at

Return(value) ==
  /\ stack' = SubSeq(stack, 1, Len(stack) - 1)
  /\ ret' = value

DumpAssignment(func) == dumps' = Append(dumps, func.assignment_)

Init ==
  /\ formula \in Formulas
  /\ stack = <<Frame(Parsed)>>
  /\ ret = "call"
  /\ dumps = << >>
  /\ verdict = "none"

\* Fault: `size() > 2' instead of `size() != 1' skips too few clauses.
UnitsUpToTwo(func) ==
  {c \in DOMAIN func.functions_ : Cardinality(func.functions_[c]) \in {1, 2}}

Units(func) ==
  {c \in DOMAIN func.functions_ : \E j \in func.functions_[c] : func.functions_[c] = {j}}

\* ApplyBCP finds nothing to satisfy: only a file without clauses.
BcpNoClause ==
  /\ Running("bcp")
  /\ NoClauseLeft(Top.func)
  /\ DumpAssignment(Top.func)
  /\ Return("true")
  /\ UNCHANGED <<formula, verdict>>

\* One round of the loop of ApplyBCP: the first unit clause is applied.
BcpUnit ==
  /\ Running("bcp")
  /\ \E c \in Units(Top.func) :
       /\ \A d \in Units(Top.func) : c <= d
       /\ \E j \in Top.func.functions_[c] :
            LET lit  == formula[c][j]
                func == Apply(Top.func, VarOf(lit), IF lit > 0 THEN 1 ELSE 0)
            IN  \/ /\ StateOf(func) = "Satisfied"
                   /\ DumpAssignment(func)
                   /\ Return("true")
                \/ /\ StateOf(func) = "Conflicting"
                   /\ Return("false")
                   /\ UNCHANGED dumps
                \/ /\ StateOf(func) = "Unresolved"
                   /\ stack' = [stack EXCEPT ![Len(stack)] = [@ EXCEPT !.func = func]]
                   /\ UNCHANGED <<ret, dumps>>
  /\ UNCHANGED <<formula, verdict>>

\* ApplyBCP returned Unresolved: SolveDPLL goes on to ChooseUnassignedVar.
Unresolved ==
  /\ Running("bcp")
  /\ ~ NoClauseLeft(Top.func)
  /\ Units(Top.func) = {}

\* ChooseUnassignedVar found no unassigned variable.
OutOfVariables ==
  /\ Unresolved
  /\ \A v \in Vars : IsAssigned(Top.func.assignment_, v)
  /\ Return("false")
  /\ UNCHANGED <<formula, dumps, verdict>>

Score(func, v) == func.frequency_sign_[v].first + func.frequency_sign_[v].second

\* Fault: assigned variables are not skipped.
IsChosenAssignedToo(func, v) ==
  \A w \in Vars : \/ Score(func, w) < Score(func, v)
                  \/ Score(func, w) = Score(func, v) /\ v <= w

\* ChooseUnassignedVar: the first of the unassigned variables that occur most.
IsChosen(func, v) ==
  /\ ~ IsAssigned(func.assignment_, v)
  /\ \A w \in Vars : ~ IsAssigned(func.assignment_, w) =>
       \/ Score(func, w) < Score(func, v)
       \/ Score(func, w) = Score(func, v) /\ v <= w

\* Fault: strict comparisons leave val at its initial value -1 on a tie.
PreferredValueStrict(func, v) ==
  LET freq == func.frequency_sign_[v]
  IN  IF freq.first > freq.second THEN 1 ELSE IF freq.first < freq.second THEN 0 ELSE -1

PreferredValue(func, v) ==
  IF func.frequency_sign_[v].first >= func.frequency_sign_[v].second THEN 1 ELSE 0

\* The decision has been applied to a copy of the function: either that
\* satisfies the formula or SolveDPLL is called on the copy, also when
\* Apply reported a conflict.
Branch(frame, func) ==
  \/ /\ StateOf(func) = "Satisfied"
     /\ DumpAssignment(func)
     /\ Return("true")
  \/ /\ StateOf(func) # "Satisfied"
     /\ stack' = Append([stack EXCEPT ![Len(stack)] = frame], Frame(func))
     /\ ret' = "call"
     /\ UNCHANGED dumps

\* Fault: the decision is applied to running_func itself, not to a copy.
DecideInPlace ==
  /\ Unresolved
  /\ \E v \in Vars :
       /\ IsChosen(Top.func, v)
       /\ LET val  == PreferredValue(Top.func, v)
              func == Apply(Top.func, v, val)
          IN  Branch([Top EXCEPT !.func = func, !.at = "first", !.var_idx = v, !.var_val = val],
                     func)
  /\ UNCHANGED <<formula, verdict>>

Decide ==
  /\ Unresolved
  /\ \E v \in Vars :
       /\ IsChosen(Top.func, v)
       /\ LET val == PreferredValue(Top.func, v)
          IN  Branch([Top EXCEPT !.at = "first", !.var_idx = v, !.var_val = val],
                     Apply(Top.func, v, val))
  /\ UNCHANGED <<formula, verdict>>

\* Fault: the negation of var_val is missing.
TrySameAgain ==
  /\ Received("false", "first")
  /\ Branch([Top EXCEPT !.at = "second"], Apply(Top.func, Top.var_idx, Top.var_val))
  /\ UNCHANGED <<formula, verdict>>

TryOpposite ==
  /\ Received("false", "first")
  /\ Branch([Top EXCEPT !.at = "second"],
            Apply(Top.func, Top.var_idx, 1 - Top.var_val))
  /\ UNCHANGED <<formula, verdict>>

BothFailed ==
  /\ Received("false", "second")
  /\ Return("false")
  /\ UNCHANGED <<formula, dumps, verdict>>

PassTrueUp ==
  /\ stack # << >>
  /\ ret = "true"
  /\ Return("true")
  /\ UNCHANGED <<formula, dumps, verdict>>

\* main prints what Solve returned.
Report ==
  /\ stack = << >>
  /\ verdict = "none"
  /\ verdict' = IF ret = "true" THEN "SATISFIED" ELSE "UNSATISFIED"
  /\ UNCHANGED <<formula, stack, ret, dumps>>

Next ==
  \/ BcpNoClause \/ BcpUnit \/ OutOfVariables \/ Decide
  \/ TryOpposite \/ BothFailed \/ PassTrueUp \/ Report

Spec == Init /\ [][Next]_vars

\* The solver is one thread that runs until main returns.
FairSpec == Spec /\ WF_vars(Next)

-----------------------------------------------------------------------------
(* Properties.                                                             *)

IsBoolFunction(func) ==
  /\ func = [functions_ |-> func.functions_, assignment_ |-> func.assignment_,
             frequency_sign_ |-> func.frequency_sign_]
  /\ DOMAIN func.functions_ \subseteq DOMAIN formula
  /\ func.functions_ = [c \in DOMAIN func.functions_ |-> func.functions_[c]]
  /\ \A c \in DOMAIN func.functions_ : func.functions_[c] \subseteq DOMAIN formula[c]
  /\ func.assignment_ \in Assignments
  /\ func.frequency_sign_ \in [Vars -> [first : Nat, second : Nat]]

IsFrame(f) ==
  /\ f = [func |-> f.func, at |-> f.at, var_idx |-> f.var_idx, var_val |-> f.var_val]
  /\ IsBoolFunction(f.func)
  /\ f.at \in {"bcp", "first", "second"}
  /\ f.var_idx \in Vars
  /\ f.var_val \in {0, 1}

\* Types of the solver's state; there is no frame only once Solve returned.
TypeOK ==
  /\ formula \in Formulas
  /\ Len(stack) \in Nat
  /\ stack = [k \in 1..Len(stack) |-> stack[k]]
  /\ \A k \in 1..Len(stack) : IsFrame(stack[k])
  /\ ret \in {"call", "true", "false"}
  /\ stack = << >> => ret # "call"
  /\ dumps \in Seq(Assignments)
  /\ verdict \in {"none", "SATISFIED", "UNSATISFIED"}

\* The total assignments, and those that agree with a partial one.
Models == [Vars -> {0, 1}]

Extends(m, a) == \A v \in Vars : a[v] # -1 => m[v] = a[v]

Satisfies(a) == \A c \in DOMAIN formula : \E j \in DOMAIN formula[c] : IsTrue(a, formula[c][j])

\* The models of the parsed formula.
Solutions == {m \in Models : Satisfies(m)}

\* The function of every frame is the parsed formula simplified under the
\* frame's assignment: no clause or literal is lost or kept too long, whatever
\* the order of decisions, propagations and restored copies that led to the
\* frame.
Residual ==
  \A k \in 1..Len(stack) :
    LET func == stack[k].func
    IN  func.functions_ = Simplify(Parsed.functions_, func.assignment_)

\* frequency_sign_ always counts the literals still in functions_, so that the
\* heuristic never works from stale counts and the assertion of
\* ChooseUnassignedVar (assigned variables have count zero) never fails.
FrequenciesFresh ==
  \A k \in DOMAIN stack :
    LET func == stack[k].func
    IN  /\ func.frequency_sign_ = FrequencySign(func.functions_)
        /\ \A v \in Vars : IsAssigned(func.assignment_, v) => Score(func, v) = 0

\* An assignment is printed at most once, exactly when the answer is going to
\* be SATISFIED, and it satisfies every clause of the parsed formula although
\* it may leave variables at -1.
PrintedModelSatisfies ==
  /\ Len(dumps) = IF ret = "true" THEN 1 ELSE 0
  /\ \A i \in DOMAIN dumps : Satisfies(dumps[i])

\* No model of the parsed formula extends the assignment a.
Refuted(a) == \A m \in Solutions : ~ Extends(m, a)

With(f, value) == [f.func.assignment_ EXCEPT ![f.var_idx] = value]

\* The assignment under which the branch of a frame is being explored.
Explored(f) == With(f, IF f.at = "first" THEN f.var_val ELSE 1 - f.var_val)

\* Only the innermost activation propagates, and only while it has not been
\* answered; the others wait for the answer to a decision on a variable that
\* their own propagation has left unassigned.
Phases ==
  /\ \A k \in 1..Len(stack) :
       LET f == stack[k]
       IN  /\ f.at # "bcp" => f.func.assignment_[f.var_idx] = -1
           /\ k < Len(stack) => f.at # "bcp"
  /\ stack # << >> =>
       /\ ret = "call" => Top.at = "bcp"
       /\ ret = "false" => Top.at # "bcp"

\* Propagation only adds what is forced: a model that agrees with a decision
\* of an activation (or any model, for the outermost one) agrees with all that
\* the activation below it has assigned.
PropagationForced ==
  \A m \in Solutions :
    /\ stack # << >> => Extends(m, stack[1].func.assignment_)
    /\ \A k \in 1..Len(stack) - 1 :
         Extends(m, Explored(stack[k])) => Extends(m, stack[k + 1].func.assignment_)

\* "false" is only returned with good reason: no model agrees with the branch
\* it answers, nor with the first branch of an activation at its second one.
FailuresJustified ==
  /\ \A k \in 1..Len(stack) :
       stack[k].at = "second" => Refuted(With(stack[k], stack[k].var_val))
  /\ ret = "false" =>
       /\ stack = << >> => Solutions = {}
       /\ stack # << >> => Refuted(Explored(Top))

\* What makes the search sound and complete, across all its activations.
SearchSound == Phases /\ PropagationForced /\ FailuresJustified

\* The verdict that main prints is right: SATISFIED iff the parsed formula has
\* a model.
VerdictCorrect ==
  /\ verdict = "SATISFIED" => Solutions # {}
  /\ verdict = "UNSATISFIED" => Solutions = {}

\* Each activation has more variables assigned than its caller: the recursion
\* is never deeper than the number of variables plus one.
DepthBounded == Len(stack) <= NVar + 1

\* No value is ever overwritten (Apply does not check): propagation and
\* decisions only meet unassigned variables, the copies made for the two
\* branches leave the caller's assignment alone, and every activation keeps
\* what its callers have assigned.
AssignedForGood ==
  [][/\ \A k \in DOMAIN stack \cap DOMAIN stack' :
          Extends(stack'[k].func.assignment_, stack[k].func.assignment_)
     /\ \A k \in 1..Len(stack') - 1 :
          Extends(stack'[k + 1].func.assignment_, stack'[k].func.assignment_)]_vars

\* The solver answers every formula.
Terminates == <>(verdict # "none")

-----------------------------------------------------------------------------
(* The search seen as ModelSearch: the assignments still open are those of  *)
(* the running activation and those of every branch not tried yet.          *)

Pending(f) ==
  IF f.at = "bcp"
    THEN {m \in Models : Extends(m, f.func.assignment_)}
    ELSE IF f.at = "first"
           THEN {m \in Models : /\ Extends(m, f.func.assignment_)
                                /\ m[f.var_idx] = 1 - f.var_val}
           ELSE {}

Open ==
  IF dumps # << >>
    THEN {m \in Models : Extends(m, dumps[1])}
    ELSE UNION {Pending(stack[k]) : k \in DOMAIN stack}

ModelOf(f, m) ==
  \A c \in DOMAIN f : \E j \in DOMAIN f[c] : IsTrue(m, f[c][j])

Search ==
  INSTANCE ModelSearch WITH
    Candidates <- Models, IsModel <- ModelOf, open <- Open, answer <- verdict

\* SolveDPLL is a complete model search: no step of it (propagation, the
\* choice of a branch, the return from one) drops an assignment that satisfies
\* the parsed formula before a model has been printed.
NeverDropsAModel == Search!Spec
=============================================================================
