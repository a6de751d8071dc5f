---------------------------- MODULE Conversation ----------------------------
(***************************************************************************)
(* The AI interviewer: sendChatMessage and generateFollowUp of             *)
(* packages/engine/src/interviews/chat.ts, and the client they ask         *)
(* (createAiClient of packages/engine/src/ai/client.ts).                   *)
(*                                                                         *)
(* Requests of one question run side by side; every statement on the       *)
(* database and every call of the provider is a step.  What is said is     *)
(* left out but for who wrote it.  A trigger is a finished submission or a *)
(* written answer; there is one from the start.                            *)
(***************************************************************************)
EXTENDS Integers, Sequences, FiniteSets

CONSTANTS
  Requests,     \* requests that may run at once
  Triggers,     \* what a follow-up is asked about
  MaxAttempts,  \* calls of the provider for one text (3)
  MaxCalls,     \* bound on the requests made
  MaxDeaths     \* bound on processes that die

ASSUME ConversationAssumption ==
  /\ MaxAttempts \in Nat \ {0}
  /\ {MaxCalls, MaxDeaths} \subseteq Nat
  /\ IsFiniteSet(Requests)
  /\ "chat" \notin Triggers

VARIABLES
  open,     \* is the interview in progress?
  log,      \* the question's interviewEvents: messages and follow-ups
  request,  \* what each request is doing
  calls,    \* how many requests have been made
  lost,     \* history: requests whose process died
  shown     \* history: triggers whose follow-up a call has returned

chatVars == <<open, log, request, calls, lost, shown>>

Idle == [at |-> "free"]

ChatTypeOK ==
  /\ open \in BOOLEAN
  /\ \A i \in DOMAIN log :
       log[i].by \in {"user", "model", "system", "follow-up"} /\ log[i].call \in 1 .. MaxCalls
  /\ \A r \in Requests : request[r] = Idle \/
       /\ request[r].at \in {"save", "find", "read", "ask", "store"}
       /\ request[r].attempt \in 1 .. MaxAttempts
       /\ request[r].error \in {"none", "busy", "again", "refused"}
  /\ calls \in 0 .. MaxCalls /\ lost \subseteq 1 .. calls /\ shown \subseteq Triggers

ChatInit ==
  /\ open = TRUE
  /\ log = <<>>
  /\ request = [r \in Requests |-> Idle]
  /\ calls = 0 /\ lost = {} /\ shown = {}

At(r, place) == request[r].at = place
Say(by, r) == log' = Append(log, [by |-> by, call |-> request[r].call, on |-> request[r].on])

\* The follow-up stored for a trigger, as findFirst returns it.
Existing(t) == {i \in DOMAIN log : log[i].by = "follow-up" /\ log[i].on = t}

-----------------------------------------------------------------------------
(* The handlers                                                            *)

New(first, t) ==
  [at |-> first, call |-> calls + 1, on |-> t, attempt |-> 1, error |-> "none",
   repeat |-> t \in shown]

\* A request finds the room in progress; it is not asked again later.
Begin(r) == \E t \in Triggers \cup {"chat"} :
  /\ request[r] = Idle /\ open /\ calls < MaxCalls
  /\ calls' = calls + 1
  /\ request' = [request EXCEPT ![r] = New(IF t = "chat" THEN "save" ELSE "find", t)]
  /\ UNCHANGED <<open, log, lost, shown>>

\* The user's message is stored before anything is asked.
SaveMessage(r) ==
  /\ At(r, "save")
  /\ Say("user", r)
  /\ request' = [request EXCEPT ![r].at = "read"]
  /\ UNCHANGED <<open, calls, lost, shown>>

\* MUTANT of Find: the newest follow-up of the question is looked at only.
FindNewest(r) ==
  LET asked == {i \in DOMAIN log : log[i].by = "follow-up"}
      newest == {i \in asked : \A j \in asked : j <= i /\ log[i].on = request[r].on}
  IN /\ At(r, "find")
     /\ IF newest # {}
        THEN /\ request' = [request EXCEPT ![r] = Idle]
             /\ shown' = shown \cup {request[r].on}
        ELSE /\ request' = [request EXCEPT ![r].at = "read"]
             /\ UNCHANGED shown
     /\ UNCHANGED <<open, log, calls, lost>>

\* A follow-up that exists is returned.
Find(r) ==
  /\ At(r, "find")
  /\ IF Existing(request[r].on) # {}
     THEN /\ request' = [request EXCEPT ![r] = Idle]
          /\ shown' = shown \cup {request[r].on}
     ELSE /\ request' = [request EXCEPT ![r].at = "read"]
          /\ UNCHANGED shown
  /\ UNCHANGED <<open, log, calls, lost>>

\* The context and, for a chat, the history; without a provider a text of
\* the program's own is stored.
Read(r) == \E place \in {"ask", "store"} :
  /\ At(r, "read")
  /\ request' = [request EXCEPT ![r].at = place,
                                ![r].error = IF place = "store" THEN "refused" ELSE "none"]
  /\ UNCHANGED <<open, log, calls, lost, shown>>

\* MUTANT of Asked: the error of a client that gives up is not caught.
AskedUncaught(q, error) ==
  IF error = "none" THEN [q EXCEPT !.at = "store", !.error = error]
  ELSE IF error = "refused" \/ q.attempt = MaxAttempts THEN Idle
  ELSE [q EXCEPT !.attempt = @ + 1, !.error = error]

\* complete, after one attempt: a text, or an error that is worth another
\* attempt (rate limited or unavailable, too late, unknown, empty) or not.
Asked(q, error) ==
  IF error \in {"none", "refused"} \/ q.attempt = MaxAttempts
  THEN [q EXCEPT !.at = "store", !.error = error]
  ELSE [q EXCEPT !.attempt = @ + 1, !.error = error]

\* Which of the two models is asked is left out: either may answer or not.
Ask(r) == \E error \in {"none", "busy", "again", "refused"} :
  /\ At(r, "ask")
  /\ request' = [request EXCEPT ![r] = Asked(@, error)]
  /\ UNCHANGED <<open, log, calls, lost, shown>>

\* The reply, or the follow-up: the model's, or the program's own.
StoreReply(r) ==
  /\ At(r, "store")
  /\ Say(IF request[r].on # "chat" THEN "follow-up"
         ELSE IF request[r].error = "none" THEN "model" ELSE "system", r)
  /\ shown' = shown \cup ({request[r].on} \cap Triggers)
  /\ request' = [request EXCEPT ![r] = Idle]
  /\ UNCHANGED <<open, calls, lost>>

Die(r) ==
  /\ request[r] # Idle /\ Cardinality(lost) < MaxDeaths
  /\ lost' = lost \cup {request[r].call}
  /\ request' = [request EXCEPT ![r] = Idle]
  /\ UNCHANGED <<open, log, calls, shown>>

Close ==
  /\ open /\ open' = FALSE
  /\ UNCHANGED <<log, request, calls, lost, shown>>

-----------------------------------------------------------------------------

Step(r) == SaveMessage(r) \/ Find(r) \/ Read(r) \/ Ask(r) \/ StoreReply(r)

ChatNext == Close \/ \E r \in Requests : Begin(r) \/ Step(r) \/ Die(r)

\* A handler goes on until it ends; a call of the provider is aborted after
\* its timeout.
Fairness == \A r \in Requests : WF_chatVars(Step(r))

ChatSpec == ChatInit /\ [][ChatNext]_chatVars /\ Fairness

-----------------------------------------------------------------------------
(* Properties                                                              *)

By(who, c) == \E i \in DOMAIN log : log[i].by \in who /\ log[i].call = c

\* A message that has been saved is answered, by the model or by the program,
\* whatever the provider does (chat.ts:100-135); unless the process dies.
EveryMessageAnswered ==
  \A c \in 1 .. MaxCalls : By({"user"}, c) ~> (By({"model", "system"}, c) \/ c \in lost)

\* "a repeat call returns the existing follow-up" (chat.ts:145): a call made
\* after a follow-up was returned for its trigger asks for no other, though
\* follow-ups of other triggers came since.
RepeatAsksNothing == \A r \in Requests : request[r] # Idle /\ request[r].repeat => At(r, "find")
=============================================================================
