---------------------------- MODULE MCEvaluation ----------------------------
(* The process that completed the room, clicks on "retry", one job at a    *)
(* time and the sweep.                                                     *)
EXTENDS Evaluation

CONSTANTS r1, s1, w1

MCOneRetrier == {r1}
MCSlots == {s1}
MCOneSweep == {w1}
=============================================================================
