--------------------------- MODULE RoomLifecycle ---------------------------
(***************************************************************************)
(* What one interview room promises to everybody who looks at it, whatever *)
(* the number of tabs, route handlers and worker sweeps acting on it: a    *)
(* single line of steps from CREATED to COMPLETED or CANCELLED in which    *)
(* the planned questions are opened one after the other.  `version' is the *)
(* number the clients order what they hear by.                             *)
(***************************************************************************)
EXTENDS Integers

CONSTANT QuestionCount   \* the length of the question plan, at least 1

VARIABLES
  status,    \* InterviewRoom.status
  version,   \* InterviewRoom.version
  asked,     \* how many questions have been asked
  open       \* is the last question asked still open?

vars == <<status, version, asked, open>>

Init ==
  /\ status = "CREATED"
  /\ version = 0
  /\ asked = 0
  /\ open = FALSE

\* The candidate starts the interview: the first question opens with it.
Start ==
  /\ status = "CREATED"
  /\ status' = "IN_PROGRESS"
  /\ version' = version + 1
  /\ asked' = 1
  /\ open' = TRUE

\* The open question closes and the next one of the plan opens, in one step.
AskNext ==
  /\ status = "IN_PROGRESS"
  /\ open
  /\ asked < QuestionCount
  /\ asked' = asked + 1
  /\ version' = version + 1
  /\ UNCHANGED <<status, open>>

\* The last question closes before the room does.
CloseLast ==
  /\ status = "IN_PROGRESS"
  /\ open
  /\ asked = QuestionCount
  /\ open' = FALSE
  /\ UNCHANGED <<status, version, asked>>

\* The room completes at any time after the start and takes the open question
\* with it.
Complete ==
  /\ status = "IN_PROGRESS"
  /\ status' = "COMPLETED"
  /\ version' = version + 1
  /\ open' = FALSE
  /\ UNCHANGED asked

\* The candidate cancels in the lobby.
Cancel ==
  /\ status = "CREATED"
  /\ status' = "CANCELLED"
  /\ version' = version + 1
  /\ UNCHANGED <<asked, open>>

Next == Start \/ AskNext \/ CloseLast \/ Complete \/ Cancel

Spec == Init /\ [][Next]_vars
=============================================================================
