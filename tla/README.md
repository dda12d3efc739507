# Verification of the decision procedures

TLA+ models of the programs of this repository: a Tseitin transformation
(assignment-1), a DPLL solver for the DIMACS files it writes (assignment-2),
and a congruence-closure solver for equality with uninterpreted functions
(assignment-3), from the text each reads to the verdict it prints. TLC checks
the models on small instances; TLAPS proves for all inputs every safety property
of the Tseitin transformation, of the DIMACS writer and reader, of the two
solvers (but for one loop of the first, `ErasesAsSimplify`) and of the way from a
syntax tree of assignment-3 to its verdict, and that the adders of z3-assignment-1
are right.

The programs are sequential and keep nothing on disk but one output file. What
makes them hard is not concurrency but recursion over mutable data: vectors
erased while they are iterated, copies taken before recursive calls and used
after them, trees rewritten in place, verdicts that depend on many earlier
steps having been complete.

## The system

| Part | Source (under `src/`) | State | Operations |
|---|---|---|---|
| Propositional parser | assignment-1/src/lex.l, parser.y | the parser's stack and lookahead, `yytext`, the tree `root` | `yyparse` |
| Tseitin transformation | assignment-1/src/tsetin.h, ast.h | `functionArr`, trees changed in place | `toTestin`: naming, `createTsetinNodes`, `solve` with its passes, `constructTsetinTree` |
| DIMACS writer | assignment-1/src/dimacs.h | `var_list`, `variables`, `clauses` | `toDimacs` |
| DIMACS reader | assignment-2/src/bool_exp.cpp | `functions_`, `n_var_`, `n_clauses_` | `Split`, `ParseDimacsFile`, constructor |
| DPLL solver | assignment-2/src/dpll.cpp, dpll.hpp | per activation a `BoolFunction` (`functions_`, `assignment_`, `frequency_sign_`), a choice and its value | `Apply`, `UpdateState`, `ApplyBCP`, `ChooseUnassignedVar`, `SolveDPLL` |
| EUF parser | assignment-3/src/fe_lexer.l, fe_parser.yy, fe_driver.*, fe_scanner.*, ast.hpp | the parser's stack and lookahead, `Scanner::text`, the `Ast` | `parse`, `ToFormula` |
| DAG builder | assignment-3/src/dag_builder.hpp | `sub_formulae_`, the maps from tree nodes to DAG nodes, the two constraint vectors | `GenerateSubFormulae`, `DiscoverDagNode`, `ToDagNode`, the two `Gather...` |
| Congruence closure | assignment-3/src/dag.hpp, util.hpp | `cc_` and `ccpar_` of every node | `Find`, `Union`, `Merge`, `Congruent`, `Decision` |
| Adder scripts | z3-assignment-1/*.z3 | none | two queries for Z3 |

Interaction: the Tseitin transformation and the DPLL solver are joined by a
file in DIMACS format: the `.cnf` files of assignment-2/src/test are what the first
writes of the texts of assignment-1/src/test. In assignment-3 `main` hands the parser's tree to
`DagBuilder::BuildDag`, which hands its node table to the constructor of `Dag`;
`main` prints what `Dag::Decision` returns. All calls are synchronous.

What has to be right, part by part:

- Parsers: a formula is read as the tree that the declared precedences give it,
  with the names of the text, although names live in one buffer that every token
  may overwrite; what is printed of a tree is that tree.
- Tseitin: no pass changes what a definition says; the loops of `solve` end
  and what is left is a conjunction of clauses; the file has the models of the
  formula.
- Reader: the clauses up to the number announced, no more and no fewer; no
  well-formed file is rejected.
- DPLL: the formula of every activation is the parsed one under that
  activation's assignment; propagation adds only what follows; `false` is
  returned only where there is no model; the printed assignment satisfies every
  clause; the verdict is right; the recursion ends.
- Builder: one DAG node per term; all constraints and no others; an abort for
  two signatures of one function and for nothing else.
- Assignments 1 and 2 together: the verdict on the file is that on the text.
- Closure: links without cycles; the parents of a class at its representative,
  sorted; no congruence missed; no merge that does not follow; right verdict.

## Modules

| Module | What it is |
|---|---|
| `Dpll` | the solver of assignment-2 |
| `ErasingLoop` | its loop that erases from the vectors it runs over, round by round |
| `ModelSearch` | abstract: any complete search for a model |
| `DpllProofs` | theorems about `Dpll`: the search is right, what its steps do, how deep it goes, and that it implements `ModelSearch` |
| `CongruenceClosure` | `Dag` of assignment-3 |
| `CongruentRelation` | abstract: any congruence-closure procedure |
| `CongruenceClosureProofs` | theorems about `CongruenceClosure`, and that it implements `CongruentRelation` |
| `Recursion` | lemmas on induction over numbers and on stacks of activations, used by all proofs |
| `EufAst` | the trees of assignment-3 |
| `EufParser` | its scanner, grammar and `ToFormula` |
| `DagBuilder` | `DagBuilder` of assignment-3 |
| `DagBuilderProofs` | theorems about `DagBuilder` |
| `EufSolver` | `main` of assignment-3: `DagBuilder` composed with `CongruenceClosure` |
| `EufSolverProofs` | theorems about `EufSolver` |
| `PropAst` | the trees of assignment-1 and their dumps |
| `PropParser` | its scanner and grammar |
| `Tseitin` | its transformation and the DIMACS writer |
| `TseitinProofs` | theorems about `Tseitin` |
| `DimacsReader` | `ParseDimacsFile` and the constructor of assignment-2 |
| `DimacsReaderProofs` | theorems about `DimacsReader` |
| `Pipeline` | assignments 1 and 2: `PropParser`, `Tseitin`, `DimacsReader` and `Dpll` composed |
| `RippleCarryAdder` | the scripts of z3-assignment-1, with theorems |
| `MC...` | an instance for TLC of the module after `MC`, with the refinement mappings |

Definitions have the names of the code. An operator introduced by a comment
"Fault: ..." is what a plausible bug would make of the definition after it. No
specification uses it; put in the place of that definition it makes the run of
some property fail, which shows that the property depends on the code.

### Dpll

One frame of `stack` is one activation of `SolveDPLL`: its `running_func`, where
it is (`bcp` until a variable is chosen, then `first` and `second` branch), and
the choice. `ret` says whether the innermost activation is running or a value
has been returned to it. `functions_`, a vector of vectors with erasures, is the
function from the numbers of the remaining clauses to the set of positions not
erased: erasing keeps the order, so "the first unit clause" is the one with the
least number, and a repeated literal still counts twice. `Simplify` is what the
first loop of `UpdateState` leaves, `FrequencySign` the second loop. That the first
loop, with its indices moved back after every erasure, does leave `Simplify` is
not a matter of form: `ErasingLoop` runs it over vectors of vectors, one `Round`
per round of the inner loop, and `ErasesAsSimplify` compares the two for every
variable that an activation might assign. One round of the loop of
`ApplyBCP` is `BcpUnit`; `Decide` and `TryOpposite` are the two branches, which
call `SolveDPLL` again even when `Apply` reported a conflict, as the code does.

The model starts with the clauses that the constructor may leave: any finite
sequence of clauses over the variables of the header, the empty clause included.

### DimacsReader

A line is the sequence of the texts before, between and after its blanks; some
of them are empty. `Split` is the loop of the code over them: it drops an
empty text before a blank and keeps the one after the last blank, empty or not.
A text is its kind, as far as the code compares it, and its value under `atoi`.
`cluses_read` is a `size_t` that counts modulo `SizeMod`. `Construct` is the
first loop of the constructor, where an index beyond `frequency_sign_`
is undefined behaviour, here the outcome `out_of_range`.

The properties speak of the file alone and use nothing of `Split` or of the
assertions. `ReadsDeclared`: the formula is that of the lines up to the one that
completes a header. `WellFormed` is the format: one header, before as many clauses
as it announces, each of them literals of its variables and then a 0, with blanks
anywhere. `RejectsOnlyIllFormed` says that a file of the format makes the program
fail only if a blank follows the 0 of a clause (`BlankAfterClause`); that it does
then is a finding. A line of blanks only is neither empty for the program nor a
clause of the format, and is taken as ill-formed.

### CongruenceClosure

`dag` is what the builder hands over. `frames` is the recursion of `Merge`: a
frame holds the copies `par_i` and `par_j` and the position of the two loops.
`Merge` is one call up to its loops, `MergeParents` one round of the inner loop,
`MergeEquality` and `CheckInequality` the two loops of `Decision`.
`VectorSetUnion` is `std::set_union`, element by element: on unsorted
vectors it would go wrong the way the library's does.

### PropParser and EufParser

The grammars are run by the parsers that bison makes of them, which are not in
the repository: their rules for lookahead are modelled as bison documents them.
In a state with one action only, the parser acts without reading; otherwise it
reads a token, and where the token cannot be shifted it makes the default
reduction. This decides two things a grammar does not show. One is which token
has last been written to `yytext` or `Scanner::text` when a rule takes a name
from there. The other is when a syntax error is found: `exp : formula` has an
action that returns, so a formula is accepted whatever token follows it.

`symbols` is the stack, `ahead` the lookahead. There is one action per group of
rules. The properties compare with `Derived`, the set of trees that a grammar
without precedences gives a stretch of text, computed from all ways to split it.
`ParsesFormula` states for assignment-1 exactly which texts are accepted: those
that begin with a formula that no operator or unknown character follows. In
assignment-3 that is not so, see Findings; there `ReadsWhatIsWritten` says which
tree a text that is a formula without negation is read as, and that nothing is
accepted once a negation has been read.

The token `NOT` is declared to carry a `Node*`, and the scanner returns it without one.
In a parser with `parse.assert` an assertion fails when such a value is moved onto
the stack or destroyed (`LacksValue`), so that the program ends in `abort` and the
rule for negation is never used. For this reason `EufAst` has no negation, although
`ast.hpp` and `dag_builder.hpp` have code for it.

`dumpAST` and `ToFormula` write trees as tokens. `DumpsReadBack` and
`PrintsFormula` parse them again with `Derived`.

### DagBuilder and EufSolver

A tree is a table numbered in post-order, the order of `GenerateSubFormulae`;
`IsAst` is the grammar. A DAG node is its index in `sub_formulae_`, which is the
id that `DagNode` counts. The recursion of the two `Gather...` functions is the
list `todo`. `EufSolver` runs `DagBuilder`, then `Construct` (the constructor of
`Dag`), then the actions of `CongruenceClosure`.

### Tseitin

Trees are nested records and a pass is a recursive function from trees to the
changed trees. Its domain, `Trees`, are the trees of at most `MaxHeight` levels;
an instance has a `MaxHeight` that no tree of its runs exceeds (6 in
`prop_parser`, 16 in `tseitin`, 22 in `pipeline`), and `AstsAssumption` leaves room
for what the transformation adds: a level per operator and seven of the last
definition. `Loop` is one of the three inner loops of `solve`, `Again` the outer
one. A failed `assert` leaves the tree `Failed`, which ends the run in `abort`. `dumpCNF` keeps the protocol of `lineEnded` as a stream of literals and
line ends in which a second line end in a row is not written. The grammar's
constants T and F, and variables whose names start with `a`, are excluded as
assignment-1/README.md ("Constraints", 3 and 4) excludes them.

### Pipeline

`Pipeline` extends `PropParser` and instantiates the other three; a step is a
step of one of them or one of the two that hand over: `OpenFile` turns the
variable table and the lines into the words that `DimacsReader` reads, and
`StartSolver` gives the parsed clauses to `Dpll`, whose `NVar` is the `n_var_` that
has been read. `VerdictOfFormula` compares the verdict and the printed
assignment, through the variable table, with the formula of the text.

For infile_101 to 104, 201 to 207 and 209 to 212 the file that the model writes
is, clause by clause, the `.cnf` of the same number in assignment-2/src/test.

### RippleCarryAdder

A declared bit of the scripts is an operator of the operands. `Differs` and
`bool_Differs` are what the scripts ask Z3 to satisfy.

## Runs

| Run | Instance | Shows |
|---|---|---|
| `dpll` | three variables: every formula of at most three clauses of at most two literals over two of them, among them empty, tautological and repeated clauses; every set of full ternary clauses, alone and behind a binary clause; every pair of ternary clauses with repeated and complementary literals in any order; two files of the test directory | `ErasesAsSimplify`, `Residual`, `FrequenciesFresh`, `DepthBounded`, `AssignedForGood`, `SearchSound`, `PrintedModelSatisfies`, `VerdictCorrect`, `Terminates`, refinement of `ModelSearch` |
| `closure` | two tables of four terms with every list of at most two equalities; towers of five terms, tables of four, five and six with repeated and binary arguments, with every single equality or every short list of chosen ones; inequalities that different lists refute | `LinksAcyclic`, `ParentsAtRoot`, `ParentsSorted`, `CongruencesPending`, `RecursionBounded`, `MergesEntailed` and `VerdictCorrect` against all interpretations, refinement of `CongruentRelation` |
| `euf_solver` | formulas of one to three atoms over `a`, `b`, `f`, `g` and predicates, some with wrong signatures, and those of assignment-3/src/test with at most six terms | `TermsShared`, `ConstraintsGathered`, `AbortsOnMissMatch`, `HandsOverDag`, `PrintsVerdict`, `AlwaysAnswers` |
| `euf_parser` | all texts of at most four tokens; seven formulas, and each of them with a token removed or added anywhere | `ReadsWhatIsWritten`, `PrintsFormula` |
| `euf_negation` | the same | a violation of `AcceptsGrammar`, see Findings |
| `euf_trailing` | the same | a violation of `RejectsTheRest`, see Findings |
| `prop_parser` | all texts of at most four tokens, and longer ones | `ParsesFormula`, `DumpsReadBack` |
| `tseitin` | 277 formulas of up to five operators | `DefinitionsKept`, `DimacsWellFormed`, `ModelsPreserved`, `AlwaysWrites` |
| `tseitin_table` | the same | a violation of `VarListLongEnough`, see Findings |
| `dimacs_reader` | 3280 files of up to four lines: headers first, late, missing, repeated or with a zero; clauses with and without their 0; blanks before, between and after the words, lines of blanks and comments anywhere; a `size_t` of four bits | `ReadsDeclared`, `RejectsOnlyIllFormed` |
| `dimacs_trailing` | the same | a violation of `ReadsWellFormed`, see Findings |
| `pipeline` | the sixteen texts of assignment-1/src/test with up to fifteen operators (infile_207: nine binary, six negations), and others of two to four | `VerdictOfFormula`, `AlwaysAnswers` |

Why the bounds are enough. Two variables already give a conflict below a
conflict, a propagation after a second branch, a tie of frequencies and a
formula decided without a choice; three variables and all eight full clauses
need the whole search tree. Two clauses are enough for an erasure to move the next
clause to the index of the one erased, and three literals for two erasures in a
row. Towers of four and five terms give merges inside merges inside merges,
and two equalities give two separate classes that a third step joins. An
interpretation needs no more values than there are terms, so that quantifying
over functions from terms to terms is complete. Each definition that `solve`
rewrites is one operator over two variables, so that formulas of one operator
already meet every tree the passes can meet; the larger ones are for the naming
and the file. Texts of four tokens put every token where it is expected and
where it is not; the longer ones have every pair of operators next to each
other, nested calls, and every place for a superfluous or missing token. A file
is read in one pass, so that a `size_t` need only be larger than the number of
lines for its wrap-around to be that of 64 bits.

Deadlock is not checked: every program here ends.

Fairness. Liveness (`Terminates`, `AlwaysAnswers`, `AlwaysWrites`) assumes weak
fairness of the next-state relation, nothing finer: each program is one thread
that the operating system keeps running until `main` returns or it aborts. In
`Pipeline` the second program is started when the first has ended.

## Proofs

`DpllProofs`, for every number of variables and every set of formulas
(`NVarAssumption`, `FormulasAssumption`). The inductive invariant is

    SearchInv == TypeOK /\ Residual /\ SearchSound /\ PrintedModelSatisfies /\ AnswerKept

The verdict alone is not inductive: that `false` is right for an activation
depends on what its callers have decided, and that on what was propagated
before. `SearchSound` says so for the whole stack: a model of the formula that
agrees with an activation's decision agrees with all that the activation below
it has assigned (`PropagationForced`), and a branch that was given up has no
model (`FailuresJustified`). The steps that matter are `UnitForces` (the literal
of a unit clause is true in every model that extends the assignment),
`ConflictRefutes` (an empty clause leaves no model) and `SatisfiedSound` (when no
clause is left the assignment satisfies all of them). `Residual` connects the
simplified clauses with the parsed ones; it is kept because simplifying again
under a larger assignment is simplifying once (`SimplifyAgain`). `AnswerKept`
says that a returned `true` comes with a printed assignment until the verdict
is printed.

The second part of the module builds on it. `Growing` adds that every activation extends what
its caller has assigned, the decision it was called to explore included. Each
step is one of six (`StepEffect`: an activation propagates, calls for one of its
two branches, passes true up, finds a model, gives up, or the verdict is printed),
and whatever the step, no activation that
survives it forgets a value (`AssignedForGood`). Since a callee has more
variables assigned than its caller, there are at most as many activations above
the first as variables (`DepthBounded`). `Counted` says that `frequency_sign_`
counts the literals of the clauses left; it holds because every change of
`functions_` is followed by the recount at the end of `UpdateState`
(`FrequenciesFresh`). The refinement mapping of `NeverDropsAModel` takes for the
candidates still open the assignments that extend the innermost activation or a
second branch that a caller has still to try, and, once a model has been found,
its completions. Propagation and failures discard, by `UnitForces` and
`ConflictRefutes`, only what is no model (`PropagatesSearches`, `CallsSearches`,
`GivesUpSearches`); finding a model settles on it (`FindsSearches`).

`CongruenceClosureProofs`, for every set of node tables that satisfy `IsDag`
(`DagsAssumption`, which `EufSolverProofs` proves of what `DagBuilder` hands
over). The inductive invariant is

    CCInv == TypeOK /\ Structure /\ GoodStack(frames) /\ CongruencesPending
             /\ MergesEntailed /\ ConstraintsApplied /\ RecursionBounded

`Structure` is the forest of links with the parents at its roots. `GoodStack`
says what an activation's copies are: they hold all parents that the two classes
had when it merged them. A new merge can make two terms congruent only if both
have an argument in one of the classes merged, one in each; they are then ahead
in the loops of the new activation (`NewlyCongruent`), and a pair stays ahead
until it is looked at (`AdvanceAhead`). When no activation is left nothing is
pending, so that the classes are an interpretation themselves, which gives the
verdict in one direction; `MergesEntailed` gives the other. The recursive
definitions (`Root` along the links, `VectorSetUnion` over positions) are dealt
with by induction over sets of numbers (`SetInduction`): the library's induction
theorems would need an operator to be instantiated.

That the lists stay sorted (`ParentsAlwaysSorted`) is such an induction over the
positions of `VectorSetUnion`: what it still has to write is not less than what it
wrote. `ComputesClosure` maps the links to the classes they make; a call of
`Merge` identifies two terms that an equality or a congruence relates, every other
step changes no class, and the verdict is given when nothing is left to identify.

`DagBuilderProofs`, for every set of syntax trees (`AstsAssumption`). `TableInv`
is about `GenerateSubFormulae`: every term visited has the DAG node that
`DiscoverDagNode` would find for it now (`Shared`), every DAG node was created for
a visited term (`Created`), and its parents are recorded, all and in order
(`ParentsRecorded`). That one level of comparison suffices (`TermsShared`) then
follows by induction over the tree (`OneNodePerTerm`). `GatherInv` is about
the recursion of the `Gather...` functions. In post-order the subtree of a node
is the interval from `First[n]` to `n`; the subtrees still to be visited are
disjoint intervals in order (`InOrder`), and the constraints gathered are the
atoms outside of them (`Gathered`).

`EufSolverProofs`, for every set of syntax trees. `AlwaysHandsOverDag` derives
`IsDag` of the table from `TableInv`. From it and the step lemmas of
`CongruenceClosureProofs`, which is instantiated, the invariant of the program is

    TableInv /\ GatherInv /\ DagInv

where `DagInv` says that the `Dag` is the table that was built and satisfies
`CCInv`. `PrintsRightVerdict` needs one thing more, about data and not about
steps: the table means what the formula means (`TableMeansFormula`). A formula
holds iff its atoms and its predicates do (`HoldsIfAtoms`,
`AtomsIfHolds`, by induction over the tree). Values of the DAG nodes give values
of the terms, renumbered so that there are no more than terms (`Ranks`). Values
of the terms extend to the DAG nodes that stand for predicates only, which
`Decision` treats as terms, without breaking congruence (`Extends`).

`DimacsReaderProofs`, for all files in which a header has its four words, and
that have fewer lines than a `size_t` has values (`FilesAssumption`). The
invariant `ReaderInv` says what `functions_` holds at a line (`Listed`), what
`cluses_read` is there (`Counted`: the clauses the last header declares less those
since, or the wrapped-around count when there was no header), and that the
formula was not complete at any line before (`Judged`). What `Split` makes of a line
is found by induction over its texts: the words are those that are not empty, in
order (`SplitLists`), and one more, empty, where a blank is last
(`SplitFacts`). So a clause as the format has it passes the
assertions and is read as its literals, unless a blank follows it (`ClauseFacts`).
Both theorems follow from that and from what the invariant says at the line where
reading ended (`EndedFacts`).

`TseitinProofs`, for every set of formulas in which no name begins like those
that the program gives (`AstsAssumption`), however large (`MaxHeight` is any
number that is large enough). A tree is at hand only through recursive
functions, so the proofs start with what such a function computes
(`FoldExists`, by induction over the levels of trees) and with one lemma per
function. What the passes make of a definition does not depend on the formula
around it but on the operator only; `Stages` says it for the five kinds
(`RewritingStages`): which pass finds something to do, that no assertion fails,
that the meaning and the names stay, and that clauses are left, which no further
round of `solve` changes. The inductive invariant is

    IInv == RootOK /\ PlaceOK /\ ArrayOK

`RootOK` says that the operator nodes are numbered in pre-order
(`NumberedInPreOrder`), `ArrayOK` that `functionArr` holds the clauses of the
definitions before the i-th, one of the trees in `Reached` for the i-th, and
untouched definitions after it. `Reached` lists the trees that may meet a pass: the
outer loop comes back to passes that have nothing to do any more, and whether
it does depends on the operator. From `IInv` follow that no assertion fails and
that definitions keep their meaning. `WritesDimacs` adds what is written:
`findVar` numbers the names of the tree in order of appearance (`ListedNames`),
`dumpCNF` of clauses has no empty line and no number out of range (`Dumped`,
`FileContents`). `PreservesModels` is about values only. A model of all
definitions gives every operator node the value of its subformula
(`Determined`), so that a model of the file restricted to the formula's names is a
model of the formula and is restricted so by no other; and the values of the
subformulas are such a model (`Extended`).

(tlapm 1.4.5 sees that a function is recursive only by the first and the last arm
of a CASE, which is why `Value` begins with the negation.)

`RippleCarryAdder`: a full adder's sum and carry add up to its inputs, with
either way to combine the carries (`FullAdder`); four of them add up to the
operands (`RippleSum`), and four bits are determined by the number they make
(`ExtractUnique`). No assumption is made.

Only model-checked:

- liveness (`Terminates`, `AlwaysAnswers`, `AlwaysWrites`), which is out of the
  provers' reach here;
- `ErasesAsSimplify`, which runs a recursive operator;
- `VerdictOfFormula` of `Pipeline`: its parts are proved, their composition is not;
- `ParsesFormula` and `DumpsReadBack` of `PropParser`, `ReadsWhatIsWritten` and
  `PrintsFormula` of `EufParser`, which compare a parser with a set of trees
  computed from all ways to split a text.

## Findings

- `euf_negation`: fe_lexer.l:35 returns the token `NOT` without the value that
  fe_parser.yy:51 declares for it, under a variant type with assertions
  (fe_parser.yy:38-39). The assertion fails and the program aborts on every
  formula with a negation, although the grammar has a rule for it
  (fe_parser.yy:74) and assignment-3/src/README.md:15 lists "Check against negation
  or not equal" as done. No test has a `!` that is not part of `!=`.
- `euf_trailing`: the error function (fe_parser.yy:99) and `parse_helper`
  (fe_driver.cpp:51-54, "Parse failed!!") abort on what is not a formula, but the
  parser returns on the default reduction of `exp` whatever token follows, except a
  negation, which aborts, and `term : VAR` (fe_parser.yy:84) takes its name from
  `Scanner::text` after that token has been read. So `a = b c` is accepted, as the
  formula `a = c`.
- `dimacs_trailing`: `Split` (bool_exp.cpp:9-18) drops empty words before the last
  blank of a line but not after it, so that of the clause `1 0 ` with a blank at its
  end the last word is empty and the assertion at bool_exp.cpp:63 fails. Lab-2.pdf
  asks for formulas "in the DIMACS CNF format".
- `tseitin_table`: `initVarList` (dimacs.h:58-60) allocates one entry per literal
  of the tree but the variables are numbered from 1; for the formula `p`
  (infile_208 of the tests) the only name is written one entry past the end.

The combination that `applyDistibutiveOrOverAnd` drops (tsetin.h:315-319) is not
a finding: it is a tautology wherever the program applies that pattern
(`DefinitionsKept`).

Also noticed, without a run:

- assignment-1/README.md:27 allows variables such as `P` and `T`; lex.l:17-24 takes
  `T` for the constant and exits on `P`.
- assignment-1 too ignores what follows a formula, if it is not an operator
  (`ParsesFormula` says so); README.md asks for one line per file.
- Were negations read, dag_builder.hpp:175-204 would gather the constraints below
  one as if it were not there; the file's header has the missing validation as a
  TODO.
- `printAST` (ast.h:175) has two arrays of one entry per node and stores the NULL
  children in them as well, in all one entry more than both arrays have.

## Not modelled

- Dumps of assignment-1 other than the two above, of DAGs and of tree levels,
  time stamps, command-line arguments: output without effect on state.
- Files that cannot be opened, allocations that fail, memory that is never freed.
- Names longer than their buffers (ast.h:9, more than 999 operators) and sharing
  of subtrees in memory: `Tseitin` has values for trees.
- parser.tab.h, which bison generated, and the build files.

## Plan

1. Done: `Dpll`, `CongruenceClosure`, `DagBuilder`, `EufSolver`, `Tseitin` and
   `DimacsReader`, every safety property but `ErasesAsSimplify` and both
   refinements with proofs;
   `RippleCarryAdder` with proofs; both parsers and `Pipeline`, model-checked.
2. Theorems worth proving next: `VerdictOfFormula` of `Pipeline` from those about
   its parts; that what `EufParser` builds is a syntax tree, `IsAst`, and that the
   trees the parsers make of formulas are those written.
3. `EufParser` composed with `EufSolver`, as `Pipeline` composes the others, if
   room for a run is made; `ErasesAsSimplify` by induction over the rounds, with the
   loop as a recursive function.
