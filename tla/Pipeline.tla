------------------------------ MODULE Pipeline ------------------------------
(***************************************************************************)
(* From the text of a formula to the verdict on it: the program of          *)
(* assignment-1 parses it, transforms it and writes dimacs.cnf; the one of  *)
(* assignment-2 reads that file and decides it.  The files in               *)
(* assignment-2/src/test are made in this way from assignment-1/src/test.   *)
(*                                                                          *)
(* An operator whose comment starts with "Fault:" is what a plausible bug   *)
(* would make of the definition after it; nothing uses it.                  *)
(***************************************************************************)
EXTENDS PropParser

VARIABLES
  functionArr, i, pc, avail, variables, clauses, lines,             \* Tseitin
  file, at, n_var_, n_clauses_, functions_, cluses_read, status,    \* DimacsReader
  formula, stack, ret, dumps, verdict                               \* Dpll

Tseitin == INSTANCE Tseitin WITH Asts <- {}

\* Any size_t that the counts of the files fit in is like another.
Reader == INSTANCE DimacsReader WITH Files <- {}, SizeMod <- 2^16

Solver(n_var) == INSTANCE Dpll WITH NVar <- n_var, Formulas <- {}

transformer == <<functionArr, i, pc, avail, variables, clauses, lines>>
reader == <<file, at, n_var_, n_clauses_, functions_, cluses_read, status>>
solver == <<formula, stack, ret, dumps, verdict>>

vars == <<parser, transformer, reader, solver>>

PipelineInit ==
  /\ Init
  /\ functionArr = << >> /\ i = 1 /\ pc = "define" /\ avail = FALSE
  /\ variables = << >> /\ clauses = 0 /\ lines = << >>
  /\ file = << >> /\ at = 1 /\ n_var_ = 0 /\ n_clauses_ = 0
  /\ functions_ = << >> /\ cluses_read = 0 /\ status = "none"
  /\ formula = << >> /\ stack = << >> /\ ret = "call" /\ dumps = << >> /\ verdict = "none"

Parse == Next /\ UNCHANGED <<transformer, reader, solver>>

\* main goes on when yyparse has returned.
Transform ==
  /\ outcome = "accepted"
  /\ Tseitin!Next
  /\ UNCHANGED <<input, next, ahead, yytext, symbols, outcome, reader, solver>>

-----------------------------------------------------------------------------
(* The file.                                                               *)

HeaderOf(n_var, n_clauses) ==
  <<Reader!Word("p", 0), Reader!Word("word", 0), Reader!Number(n_var), Reader!Number(n_clauses)>>

\* Fault: the unit clause of the whole formula is not counted.
HeaderCountsDefinitions == HeaderOf(Len(variables), clauses - 1)

\* Fault: only the variables of the operators are counted.
HeaderCountsOperators == HeaderOf(Len(functionArr), clauses)

Header == HeaderOf(Len(variables), clauses)

\* A blank follows every literal, 0 ends the line.
ClauseLine(literals) ==
  [k \in DOMAIN literals |-> Reader!Number(literals[k])] \o <<Reader!Number(0)>>

\* dpll.out is called with the file that has been written.
OpenFile ==
  /\ pc = "done"
  /\ status = "none"
  /\ file' = <<Header>> \o [k \in DOMAIN lines |-> ClauseLine(lines[k])]
  /\ status' = "reading"
  /\ UNCHANGED <<parser, transformer, at, n_var_, n_clauses_, functions_, cluses_read, solver>>

ReadFile == Reader!Next /\ UNCHANGED <<parser, transformer, solver>>

-----------------------------------------------------------------------------
(* The decision.                                                           *)

\* Solve calls SolveDPLL on what the constructor has made of the file.
StartSolver ==
  /\ status = "constructed"
  /\ formula = << >>
  /\ formula' = functions_
  /\ \E n_var \in {n_var_} : stack' = <<Solver(n_var)!Frame(Solver(n_var)!Parsed')>>
  /\ UNCHANGED <<parser, transformer, reader, ret, dumps, verdict>>

Solve ==
  /\ formula # << >>
  /\ \E n_var \in {n_var_} : Solver(n_var)!Next
  /\ UNCHANGED <<parser, transformer, reader>>

PipelineNext == Parse \/ Transform \/ OpenFile \/ ReadFile \/ StartSolver \/ Solve

PipelineSpec == PipelineInit /\ [][PipelineNext]_vars

\* One thread, in one program after the other.
FairPipelineSpec == PipelineSpec /\ WF_vars(PipelineNext)

-----------------------------------------------------------------------------
(* Properties.                                                             *)

\* The values that the printed assignment may give the names of the formula,
\* where -1 may be either.
Printed ==
  {m \in [NamesIn(root) -> BOOLEAN] :
     \A name \in NamesIn(root) :
       LET value == dumps[1][Tseitin!findVar(variables, name)]
       IN  value # -1 => m[name] = (value = 1)}

\* The verdict on the file is the verdict on the text, and the assignment
\* printed with it, read through the variable table of the transformation,
\* makes the formula true although it may leave variables unassigned.
VerdictOfFormula ==
  verdict # "none" =>
    LET Models == {m \in [NamesIn(root) -> BOOLEAN] : Value(root, m)}
    IN  /\ verdict = "SATISFIED" <=> Models # {}
        /\ verdict = "SATISFIED" /\ IsOp(root) => Printed \subseteq Models

\* Every text that the parser does not reject is answered: no assertion fails,
\* neither in the transformation nor on reading what it has written, no loop
\* goes on for ever.
AlwaysAnswers == <>(verdict # "none" \/ outcome = "exit")
=============================================================================
