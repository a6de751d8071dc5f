---------------------------- MODULE MCInterview ----------------------------
(* Two requests at once and the worker, on a plan of two questions.        *)
EXTENDS Interview

CONSTANTS r1, r2, hello

MCRequests == {r1, r2}
MCTexts == {hello}
=============================================================================
