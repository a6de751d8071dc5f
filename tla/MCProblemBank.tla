--------------------------- MODULE MCProblemBank ---------------------------
(* Every problem of the bank, on all the bounded tests of its module. *)
EXTENDS ProblemBank

MCProblems == { p.id : p \in PROBLEMS }
=============================================================================
