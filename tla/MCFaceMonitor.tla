--------------------------- MODULE MCFaceMonitor ---------------------------
(* FaceMonitor for five seconds, with grace periods of two and one and two *)
(* calls of start(), which differ in nothing.                              *)
EXTENDS FaceMonitor, TLC

AnyStart == Permutations(Starts)
=============================================================================
