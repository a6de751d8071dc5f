---------------------------- MODULE MCSubmission ----------------------------
(* One press of "submit" that is repeated and polled, or three presses.    *)
EXTENDS Submission, TLC

CONSTANTS k1, k2, k3, r1, r2

MCOneKey == {k1}
MCThreeKeys == {k1, k2, k3}
MCNone == {}
MCTwoRequests == {r1, r2}

MCSymmetry == Permutations(MCThreeKeys) \cup Permutations(MCTwoRequests)
=============================================================================
