------------------------------- MODULE MCPage -------------------------------
(* Page with two requests under way, one submission and one message, one    *)
(* move of the room after its start and one loss.                           *)
EXTENDS Page

CONSTANTS p1, a, b
MCPosts == {p1}
MCSlots == {a, b}
=============================================================================
