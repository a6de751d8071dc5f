--------------------------- MODULE MCConversation ---------------------------
(* Conversation with two requests at once, two triggers, three requests.    *)
EXTENDS Conversation, TLC

CONSTANTS a, b, t1, t2
MCRequests == {a, b}
MCTriggers == {t1, t2}
=============================================================================
