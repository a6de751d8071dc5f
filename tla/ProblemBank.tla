---------------------------- MODULE ProblemBank ----------------------------
(***************************************************************************)
(* The build of the problem bank's dataset (build-dataset.ts): every test  *)
(* of a problem is run through two reference solutions, one in JavaScript  *)
(* and one in Python, each in the harness of its language.  The problem is *)
(* accepted if the two agree on the test, by the problem's comparator, and *)
(* reproduce the output an example states; the JavaScript output becomes   *)
(* the one that candidates' programs are judged by.                        *)
(*                                                                         *)
(* The tests are bounded: all small arguments a problem allows, and its    *)
(* examples, of which a few are shortened or left out (number-of-islands,  *)
(* evaluate-reverse-polish-notation, valid-palindrome).  The tests the     *)
(* bank draws at random are not modelled.                                  *)
(***************************************************************************)
EXTENDS BankArrays, BankDp, BankSearch, BankGrids, BankLists, BankTrees, BankWindows,
        ProblemCatalog

CONSTANT Problems        \* the slugs of the problems that are built

VARIABLES
    problem,        \* the slug of the problem that is built
    test,           \* one of its tests: arguments, and for an example the stated output
    outputs,        \* the answer and what the references printed; <<>> before they have run
    entry           \* what the test adds to the dataset: "none", "failed" or "recorded"

vars == <<problem, test, outputs, entry>>

Cases(slug) ==
    CASE slug \in ArraysHashing -> ArraysCases(slug)
      [] slug \in BacktrackingDp -> DpCases(slug)
      [] slug \in SearchSorting -> SearchSortingCases(slug)
      [] slug \in GraphProblems -> GraphCases(slug)
      [] slug \in ListsStacks -> ListsCases(slug)
      [] slug \in TreesHeaps -> TreesCases(slug)
      [] slug \in TwoPointersWindow -> WindowsCases(slug)

Solutions(slug, args) ==
    CASE slug \in ArraysHashing -> ArraysSolved(slug, args)
      [] slug \in BacktrackingDp -> DpSolved(slug, args)
      [] slug \in SearchSorting -> SearchSortingSolved(slug, args)
      [] slug \in GraphProblems -> GraphSolved(slug, args)
      [] slug \in ListsStacks -> ListsSolved(slug, args)
      [] slug \in TreesHeaps -> TreesSolved(slug, args)
      [] slug \in TwoPointersWindow -> WindowsSolved(slug, args)

Returns == ProblemOf(problem).returns

Same(actual, expected) ==
    OutputsMatch(actual, expected, ProblemOf(problem).comparator, Returns)

-----------------------------------------------------------------------------
Init ==
    /\ problem \in Problems
    /\ test \in Cases(problem)
    /\ outputs = <<>>
    /\ entry = "none"

\* Both references run the test; what they return is printed by the harness.
RunReferences ==
    /\ outputs = <<>>
    /\ LET solved == Solutions(problem, test.args)
       IN  outputs' = [answer |-> Format(Returns, solved.answer),
                       js |-> JavascriptFormat(Returns, <<InHalves(Returns, solved.js)>>),
                       py |-> PythonFormat(Returns, <<InHalves(Returns, solved.py)>>)]
    /\ UNCHANGED <<problem, test, entry>>

\* The comparison of the references, and with the output an example states.
Compare ==
    /\ outputs # <<>>
    /\ entry = "none"
    /\ entry' = IF /\ Same(outputs.py, outputs.js)
                   /\ \A output \in test.stated :
                          Same(outputs.js, EncodeOutput(Returns, output))
                THEN "recorded" ELSE "failed"
    /\ UNCHANGED <<problem, test, outputs>>

Next == RunReferences \/ Compare

Spec == Init /\ [][Next]_vars

-----------------------------------------------------------------------------
(***************************************************************************)
(* Every test of every problem is accepted, and the output it is accepted  *)
(* with is the answer that the problem's statement asks for: no candidate  *)
(* is judged by a wrong output (types.ts trusts the agreement of two       *)
(* references, which two wrong references would reach as well).            *)
(***************************************************************************)
ReferencesRight ==
    entry # "none" => entry = "recorded" /\ Same(outputs.js, outputs.answer)
=============================================================================
