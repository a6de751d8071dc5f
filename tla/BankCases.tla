------------------------------ MODULE BankCases ------------------------------
(***************************************************************************)
(* What the modules of the problem bank share: bounded test arguments and  *)
(* the cases of a problem.                                                 *)
(*                                                                         *)
(* Arrays, strings and linked lists are sequences (a string is a sequence  *)
(* of one-letter strings).  The reference solutions count positions from   *)
(* zero, so they are translated with At, which does too.                   *)
(***************************************************************************)
EXTENDS Integers, FiniteSets, Sequences, SequencesExt, FiniteSetsExt, TLC

At(s, i) == s[i + 1]

\* The positions lo, lo + 1, ..., hi, in the order in which a loop visits them.
Upto(lo, hi) == [i \in 1 .. (hi - lo + 1) |-> lo + i - 1]

Positions(s) == Upto(0, Len(s) - 1)

Arrays(S, shortest, longest) == UNION { [1 .. n -> S] : n \in shortest .. longest }

Ascending(s) == SortSeq(s, LAMBDA x, y : x < y)

SortedArrays(S, shortest, longest) ==
    { s \in Arrays(S, shortest, longest) : \A i \in 1 .. Len(s) - 1 : s[i] <= s[i + 1] }

DistinctArrays(S, shortest, longest) ==
    { s \in Arrays(S, shortest, longest) : Cardinality(ToSet(s)) = Len(s) }

\* The members of a set as a sequence, in one step each (SetToSeq tries every order).
Listed(S) == FoldSet(LAMBDA x, seq : Append(seq, x), <<>>, S)

Total(s) == FoldLeft(LAMBDA sum, x : sum + x, 0, s)

Larger(x, y) == IF x < y THEN y ELSE x

Smaller(x, y) == IF x < y THEN x ELSE y

\* Above every value that occurs in a case: Infinity and float("inf") in the references.
Infinity == 100000

\* What a map or a counter returns for a key it may not have.
Lookup(map, key, otherwise) == IF key \in DOMAIN map THEN map[key] ELSE otherwise

\* bisect.bisect_left: how many members of a sorted sequence are below x.
BisectLeft(s, x) == Cardinality({ i \in DOMAIN s : s[i] < x })

-----------------------------------------------------------------------------
(***************************************************************************)
(* A case is a test of a problem: its arguments and, for an example of the *)
(* problem's statement, the output the statement gives.                    *)
(***************************************************************************)
Case(args) == [args |-> args, stated |-> {}]

Example(args, output) == [args |-> args, stated |-> {output}]

\* What a case is judged by: the answer the statement asks for, and the outputs of
\* the JavaScript and the Python reference.
Solved(answer, js, py) == [answer |-> answer, js |-> js, py |-> py]
=============================================================================
