---------------------------- MODULE DimacsReader ----------------------------
(***************************************************************************)
(* How assignment-2 reads a formula: BoolFunction::ParseDimacsFile line by  *)
(* line, then the first loop of BoolFunction's constructor (bool_exp.cpp).  *)
(*                                                                          *)
(* A line is the sequence of the texts before, between and after its        *)
(* blanks, any of which may be empty: the empty line has one empty text.    *)
(* Of a text the code looks at its first character, when it is the first of *)
(* the line, at whether it is empty or "0", and at what atoi makes of it.   *)
(*                                                                          *)
(* An operator whose comment starts with "Fault:" is what a plausible bug   *)
(* would make of the definition after it; nothing uses it.                  *)
(***************************************************************************)
EXTENDS Integers, Sequences, FiniteSets

CONSTANTS
  Files,      \* the files main may be given
  SizeMod     \* how many values a size_t has

VARIABLES
  file,         \* the lines of the file, constant
  at,           \* the line that getline reads next
  n_var_, n_clauses_, functions_,
  cluses_read,  \* the clauses still to be read, a size_t
  status        \* "reading", "read", "constructed", "abort" (an assertion
                \* failed) or "out_of_range" (an index beyond a vector)

reader == <<file, at, n_var_, n_clauses_, functions_, cluses_read, status>>

-----------------------------------------------------------------------------
(* Texts and lines.                                                        *)

\* Texts by kind: "c", "p", "0" and "" as they are, "number" for other numbers,
\* "word" for the rest.
Word(text, value) == [text |-> text, value |-> value]
NoText == Word("", 0)
Number(n) == IF n = 0 THEN Word("0", 0) ELSE Word("number", n)

LineTexts ==
  {w \in [text : {"c", "p", "0", "", "number", "word"}, value : Int] :
     w.text \in {"c", "p", "0", ""} => w.value = 0}

\* line.empty() or a first character 'c'
IsSkipped(line) == line = <<NoText>> \/ line[1].text = "c"

IsHeader(line) == line[1].text = "p"

\* Fault: two blanks in a row have an empty word between them.
PushAlways(words, token) == Append(words, token)

\* A token is a word unless it is empty.
Push(words, token) == IF token = NoText THEN words ELSE Append(words, token)

\* The loop of Split finds the texts before a blank; the one after the last
\* blank is a word even when it is empty.
Split(line) ==
  LET res[k \in 0..Len(line) - 1] == IF k = 0 THEN << >> ELSE Push(res[k - 1], line[k])
  IN  Append(res[Len(line) - 1], line[Len(line)])

\* atoi is 0 for what is not a number.
atoi(word) == word.value

\* The assertions on a clause: the last word is "0", no other word is 0.
IsClause(line) ==
  LET words == Split(line)
  IN  /\ words[Len(words)].text = "0"
      /\ \A k \in 1..Len(words) - 1 : atoi(words[k]) # 0

Clause(line) ==
  LET words == Split(line)
  IN  [k \in 1..Len(words) - 1 |-> atoi(words[k])]

\* A file is too short to count cluses_read once around, and a header has the
\* four words that the code takes from it without looking.
ASSUME FilesAssumption ==
  /\ SizeMod \in Nat
  /\ \A f \in Files :
       /\ f \in Seq(Seq(LineTexts) \ {<< >>})
       /\ Len(f) + 1 < SizeMod
       /\ \A k \in DOMAIN f :
            IsHeader(f[k]) => /\ Len(Split(f[k])) > 3
                              /\ atoi(Split(f[k])[4]) < SizeMod

-----------------------------------------------------------------------------
(* ParseDimacsFile and the constructor.                                    *)

Init ==
  /\ file \in Files
  /\ at = 1
  /\ n_var_ = 0
  /\ n_clauses_ = 0
  /\ functions_ = << >>
  /\ cluses_read = 0
  /\ status = "reading"

Line == file[at]

Reading == status = "reading" /\ at <= Len(file)

Skip ==
  /\ Reading
  /\ IsSkipped(Line)
  /\ at' = at + 1
  /\ UNCHANGED <<file, n_var_, n_clauses_, functions_, cluses_read, status>>

\* "p cnf n_var n_clauses"; a later header replaces an earlier one.
ReadHeader ==
  /\ Reading
  /\ IsHeader(Line)
  /\ LET n_var == atoi(Split(Line)[3])
         n_clauses == atoi(Split(Line)[4])
     IN  IF n_var > 0 /\ n_clauses > 0
           THEN /\ n_var_' = n_var
                /\ n_clauses_' = n_clauses
                /\ cluses_read' = n_clauses
                /\ at' = at + 1
                /\ UNCHANGED status
           ELSE /\ status' = "abort"
                /\ UNCHANGED <<at, n_var_, n_clauses_, cluses_read>>
  /\ UNCHANGED <<file, functions_>>

\* Fault: the end is tested before the count goes down.
ReadClauseTestsFirst ==
  /\ Reading
  /\ ~ IsSkipped(Line)
  /\ ~ IsHeader(Line)
  /\ IF IsClause(Line)
       THEN /\ functions_' = Append(functions_, Clause(Line))
            /\ cluses_read' = (cluses_read - 1) % SizeMod
            /\ at' = at + 1
            /\ status' = IF cluses_read = 0 THEN "read" ELSE "reading"
       ELSE /\ status' = "abort"
            /\ UNCHANGED <<at, functions_, cluses_read>>
  /\ UNCHANGED <<file, n_var_, n_clauses_>>

\* Any other line is a clause.  The file is left when the count reaches 0; a
\* clause before the header takes it from 0 to the largest size_t.
ReadClause ==
  /\ Reading
  /\ ~ IsSkipped(Line)
  /\ ~ IsHeader(Line)
  /\ IF IsClause(Line)
       THEN /\ functions_' = Append(functions_, Clause(Line))
            /\ cluses_read' = (cluses_read - 1) % SizeMod
            /\ at' = at + 1
            /\ status' = IF cluses_read' = 0 THEN "read" ELSE "reading"
       ELSE /\ status' = "abort"
            /\ UNCHANGED <<at, functions_, cluses_read>>
  /\ UNCHANGED <<file, n_var_, n_clauses_>>

\* getline fails.
EndOfFile ==
  /\ status = "reading"
  /\ at > Len(file)
  /\ status' = "read"
  /\ UNCHANGED <<file, at, n_var_, n_clauses_, functions_, cluses_read>>

\* Fault: frequency_sign_ has no entry for the last variable.
LiteralsBelowLast ==
  \A c \in DOMAIN functions_ : \A j \in DOMAIN functions_[c] :
    functions_[c][j] \in 1 - n_var_..n_var_ - 1

\* frequency_sign_ has an entry for every literal.
LiteralsInRange ==
  \A c \in DOMAIN functions_ : \A j \in DOMAIN functions_[c] :
    functions_[c][j] \in -n_var_..n_var_

\* The constructor asserts that there was a header, and counts the literals.
Construct ==
  /\ status = "read"
  /\ status' = IF n_var_ = 0 \/ n_clauses_ = 0 THEN "abort"
               ELSE IF LiteralsInRange THEN "constructed" ELSE "out_of_range"
  /\ UNCHANGED <<file, at, n_var_, n_clauses_, functions_, cluses_read>>

Next == Skip \/ ReadHeader \/ ReadClause \/ EndOfFile \/ Construct

Spec == Init /\ [][Next]_reader

-----------------------------------------------------------------------------
(* Properties.                                                             *)

Headers == {k \in DOMAIN file : IsHeader(file[k])}
ClauseLines == {k \in DOMAIN file : ~ IsSkipped(file[k]) /\ ~ IsHeader(file[k])}

\* What is written in a line, however many blanks there are: its n-th word.
WordsOf(line) == {k \in DOMAIN line : line[k] # NoText}

NthWord(line, n) ==
  LET Nth == {k \in WordsOf(line) : Cardinality({j \in WordsOf(line) : j <= k}) = n}
  IN  IF Nth = {} THEN NoText ELSE line[CHOOSE k \in Nth : TRUE]

DeclaredVars(h) == NthWord(file[h], 3).value
DeclaredClauses(h) == NthWord(file[h], 4).value

\* The words of a clause but for the 0 after them.
Literals(line) == [n \in 1..Cardinality(WordsOf(line)) - 1 |-> NthWord(line, n).value]

\* The last header before the line k has announced the clauses up to there.
Complete(k) ==
  \E h \in Headers :
    /\ h < k
    /\ \A g \in Headers : g <= h \/ k < g
    /\ Cardinality({m \in ClauseLines : h < m /\ m <= k}) = DeclaredClauses(h)

\* The lines that make up the formula.
Body == {k \in DOMAIN file : \A m \in 1..k - 1 : ~ Complete(m)}

\* A file that was read has given the clauses that its header announces, or
\* all it has: the countdown stops neither early nor late, although a clause
\* before the header takes it below 0 and another header sets it again.
ReadsDeclared ==
  status \in {"read", "constructed", "out_of_range"} =>
    /\ at = Cardinality(Body) + 1
    /\ Len(functions_) = Cardinality(ClauseLines \cap Body)
    /\ \A k \in ClauseLines \cap Body :
         functions_[Cardinality({m \in ClauseLines : m <= k})] = Literals(file[k])
    /\ \A h \in Headers \cap Body :
         (\A g \in Headers \cap Body : g <= h) =>
           n_var_ = DeclaredVars(h) /\ n_clauses_ = DeclaredClauses(h)

\* A clause in the format: numbers from -n_var to n_var other than 0, and a 0
\* at the end, with any blanks before, between and after them.
WrittenClause(line, n_var) ==
  \E end \in DOMAIN line :
    /\ line[end].text = "0"
    /\ \A k \in WordsOf(line) \ {end} :
         k < end /\ line[k].text = "number" /\ line[k].value \in -n_var..n_var \ {0}

\* The header comes first and is the only one, the other lines are clauses of
\* its variables, and there are as many of them, at least one.
WellFormed ==
  \E h \in Headers :
    /\ Headers \cap Body = {h}
    /\ DeclaredVars(h) > 0
    /\ DeclaredClauses(h) > 0
    /\ DeclaredClauses(h) = Cardinality(ClauseLines \cap Body)
    /\ \A k \in ClauseLines \cap Body : h < k /\ WrittenClause(file[k], DeclaredVars(h))

Failed == status \in {"abort", "out_of_range"}

\* A blank follows the 0 of a clause: Split then has an empty word after it,
\* which the assertion on the last word does not expect.
BlankAfterClause ==
  \E k \in ClauseLines \cap Body : file[k][Len(file[k])] = NoText

\* Only files that are not well-formed make the program fail, and those with a
\* blank after a clause: comments, empty lines, blanks before and between the
\* words, and what comes after the last clause do not.
RejectsOnlyIllFormed == Failed => ~ WellFormed \/ BlankAfterClause

\* No file in the DIMACS format makes the program fail.  It is not so: of a
\* clause with a blank at its end the last word is empty (bool_exp.cpp:17), and
\* the assertion at bool_exp.cpp:63 fails.
ReadsWellFormed == Failed => ~ WellFormed
=============================================================================
