---------------------------- MODULE ErasingLoop ----------------------------
(***************************************************************************)
(* The first loop of UpdateState, which Dpll takes in one step as Simplify: *)
(* it erases clauses and literals from the vectors that its indices i and j *)
(* run over.  Here an index counts from 1.                                  *)
(*                                                                          *)
(* An operator whose comment starts with "Fault:" is what a plausible bug   *)
(* would make of the definition after it; nothing uses it.                  *)
(***************************************************************************)
EXTENDS Dpll

LOCAL INSTANCE SequencesExt

\* Where the loop is.
Loop(functions, i, j) == [functions_ |-> functions, i |-> i, j |-> j]

\* Fault: i is not decremented.
EraseClauseSkipsNext(s) == Loop(RemoveAt(s.functions_, s.i), s.i + 1, 1)

\* i-- and, after the break, i++: the next clause has moved to i.
EraseClause(s) == Loop(RemoveAt(s.functions_, s.i), s.i, 1)

\* Fault: j is not decremented.
EraseLiteralSkipsNext(s) == Loop([s.functions_ EXCEPT ![s.i] = RemoveAt(@, s.j)], s.i, s.j + 1)

\* j-- and j++: the next literal has moved to j.
EraseLiteral(s) == Loop([s.functions_ EXCEPT ![s.i] = RemoveAt(@, s.j)], s.i, s.j)

\* One round of the inner loop, or its end.
Round(s, a) ==
  LET clause == s.functions_[s.i]
  IN  IF s.j > Len(clause)                    THEN Loop(s.functions_, s.i + 1, 1)
      ELSE IF ~ IsAssigned(a, clause[s.j])    THEN Loop(s.functions_, s.i, s.j + 1)
      ELSE IF AssignedValue(a, clause[s.j])   THEN EraseClause(s)
      ELSE EraseLiteral(s)

\* functions_ when the loop has ended.
RECURSIVE RoundsFrom(_, _)
RoundsFrom(s, a) ==
  IF s.i > Len(s.functions_) THEN s.functions_ ELSE RoundsFrom(Round(s, a), a)

Erased(functions, a) == RoundsFrom(Loop(functions, 1, 1), a)

-----------------------------------------------------------------------------
(* Properties.                                                             *)

\* The elements of s at the positions in S, in order.
Kept(s, S) ==
  LET left == SelectSeq([i \in DOMAIN s |-> i], LAMBDA i : i \in S)
  IN  [n \in DOMAIN left |-> s[left[n]]]

\* The vectors that fs, clause numbers and positions, stands for.
Vectors(fs) ==
  LET clauses == Kept([c \in DOMAIN formula |-> c], DOMAIN fs)
  IN  [n \in DOMAIN clauses |-> Kept(formula[clauses[n]], fs[clauses[n]])]

\* Whatever variable is applied to the function of an activation, the loop of
\* UpdateState skips no clause or literal and erases none twice because of the
\* erasures before: it leaves the vectors that Simplify stands for.
ErasesAsSimplify ==
  Running("bcp") =>
    \A v \in Vars, value \in {0, 1} :
      LET func == Top.func
          a    == [func.assignment_ EXCEPT ![v] = value]
      IN  ~ IsAssigned(func.assignment_, v) =>
            Erased(Vectors(func.functions_), a) = Vectors(Simplify(func.functions_, a))
=============================================================================
