--------------------------- MODULE MCDimacsReader ---------------------------
(***************************************************************************)
(* Instances of DimacsReader for TLC: every file of few lines, the files    *)
(* that toDimacs of assignment-1 writes and those in the test directories.  *)
(***************************************************************************)
EXTENDS DimacsReader, SequencesExt

p == Word("p", 0)
cnf == Word("word", 0)
c == Word("c", 0)

Header(n, m) == <<p, cnf, Number(n), Number(m)>>
ClauseLine(lits) == [k \in DOMAIN lits |-> Number(lits[k])] \o <<Number(0)>>

Empty == <<NoText>>
OnlyBlank == <<NoText, NoText>>
Comment == <<c, cnf>>
BlankFirst == <<NoText, Number(1), Number(0)>>
BlankLast == <<Number(1), Number(0), NoText>>
TwoBlanks == <<Number(1), NoText, Number(-2), Number(0)>>
NoZero == <<Number(1), Number(2)>>
ZeroInside == <<Number(1), Number(0), Number(2), Number(0)>>
Percent == <<cnf>>

\* Files of at most four of these lines, a header and one more line.
Lines == {Header(2, 1), Header(2, 2), ClauseLine(<<1, -2>>), ClauseLine(<<3>>), Comment}
OddLines == {Header(0, 1), Header(1, 0), Empty, OnlyBlank, BlankFirst, BlankLast, TwoBlanks, NoZero,
             ZeroInside, Percent, ClauseLine(<< >>), ClauseLine(<<-2>>)}

\* assignment-2/src/test/102.cnf and 208.cnf; assignment-1/src/dimacs.cnf,
\* whose header announces 8 of its clauses, in part.
TestFiles ==
  {<<Header(3, 8), ClauseLine(<<1>>), ClauseLine(<<-1, -2, 3>>), ClauseLine(<<-1, -3, 2>>),
     ClauseLine(<<2, 3, 1>>), ClauseLine(<<2, -2, 1>>), ClauseLine(<<-3, -2, 1>>),
     ClauseLine(<<-3, -2>>), ClauseLine(<<2, 3>>)>>,
   <<Header(1, 1), ClauseLine(<<1>>)>>,
   <<Header(16, 8), ClauseLine(<<1>>), ClauseLine(<<-1, -2, 3>>), ClauseLine(<<2, 1>>),
     ClauseLine(<<-3, 1>>), ClauseLine(<<-2, 4>>), ClauseLine(<<-2, 5>>),
     ClauseLine(<<-4, -5, 2>>), ClauseLine(<<-4, -6, 7>>), ClauseLine(<<6, 4>>)>>}

MCFiles ==
  BoundedSeq(Lines, 4)
  \cup {<<Header(2, 2), x, y, z>> : x, y, z \in OddLines \cup {ClauseLine(<<1, -2>>)}}
  \cup {<<x, y, ClauseLine(<<1, -2>>), Percent>> : x, y \in Lines \cup OddLines}
  \cup {<<Header(2, 1) \o <<NoText>>, x>> : x \in OddLines}
  \cup {<<<<p, NoText, cnf, Number(2), NoText, Number(1)>>, x>> : x \in OddLines}
  \cup TestFiles
=============================================================================
