----------------------------- MODULE MCCodeView -----------------------------
(* CodeView for TLC: two edits, two loads of the page, two requests under  *)
(* way at once, a watcher who joins twice, and one loss.                   *)
EXTENDS CodeView, TLC

CONSTANTS a, b
MCSlots == {a, b}
MCSymmetry == Permutations(MCSlots)
=============================================================================
