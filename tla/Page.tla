-------------------------------- MODULE Page --------------------------------
(***************************************************************************)
(* The interview room in the candidate's browser                           *)
(* (apps/web/components/interview/interview-room.tsx with                  *)
(* lib/client/use-interview-socket.ts), the API it reads, and the          *)
(* notifications that the realtime server relays to it.                    *)
(*                                                                         *)
(* The page keeps a copy of the room, of the chat and of the submissions.  *)
(* Whatever changes the copy is an answer to a request, and several        *)
(* requests are under way at once: each reads the database in steps of its *)
(* own, and its answer comes back at any later moment, or not at all.  The *)
(* room itself is that of Interview, here a version and whether it has     *)
(* ended; submissions are those of Submission, here absent (0), pending    *)
(* (1) or done (2); a follow-up has the number of its submission.          *)
(***************************************************************************)
EXTENDS Integers, FiniteSets, FiniteSetsExt

CONSTANTS
  Subs,         \* the candidate's submissions, numbered in order
  Posts,        \* the messages the candidate sends in the chat
  Slots,        \* requests that may be under way at once
  MaxVersion,   \* bound on the version while the interview runs
  MaxLosses     \* bound on losses: of a request, a connection, a notification

ASSUME PageAssumption ==
  /\ Subs \subseteq Nat \ {0} /\ IsFiniteSet(Subs)
  /\ Posts \cap Subs = {}
  /\ {MaxVersion, MaxLosses} \subseteq Nat /\ MaxVersion > 0

VARIABLES
  room,      \* the interview: its version, and whether it has ended
  chat,      \* the messages stored
  subs,      \* submission -> its status and the question it answers
  overdue,   \* has the deadline passed?
  page,      \* what the page shows and remembers
  request,   \* slot -> the request under way
  socket,    \* "first" before the first connection, then "up" or "down"
  wire,      \* notifications sent and not yet arrived
  calls,     \* history: submission -> follow-ups the page has asked for
  losses     \* how much has been lost

server == <<room, chat, subs, overdue>>
net == <<socket, wire>>
pageVars == <<server, page, request, net, calls, losses>>

None == [status |-> 0, question |-> 0]
Idle == [op |-> "idle"]
Notifications ==
  [type : {"state"}, version : 1 .. MaxVersion + 1]
    \cup [type : {"submission"}, id : Subs]

PageTypeOK ==
  /\ room \in [version : 1 .. MaxVersion + 1, ended : BOOLEAN]
  /\ chat \subseteq Posts \cup Subs
  /\ subs \in [Subs -> [status : 0 .. 2, question : 0 .. MaxVersion]]
  /\ overdue \in BOOLEAN
  /\ page.room.version <= room.version
  /\ page.chat \subseteq chat
  /\ \A s \in Subs : page.subs[s].status <= subs[s].status
  /\ page.asked \subseteq Subs /\ page.finished \in BOOLEAN
  /\ \A k \in Slots : request[k].op \in
       {"idle", "refresh", "submission", "submit", "chat", "followUp", "advance", "finish"}
  /\ socket \in {"first", "up", "down"} /\ wire \subseteq Notifications
  /\ calls \in [Subs -> Nat]
  /\ losses \in 0 .. MaxLosses

\* The page starts from the state it was rendered with.
PageInit ==
  /\ room = [version |-> 1, ended |-> FALSE]
  /\ chat = {}
  /\ subs = [s \in Subs |-> None]
  /\ overdue = FALSE
  /\ page = [room |-> room, chat |-> chat, subs |-> subs, asked |-> {}, finished |-> FALSE]
  /\ request = [k \in Slots |-> Idle]
  /\ socket = "first" /\ wire = {}
  /\ calls = [s \in Subs |-> 0]
  /\ losses = 0

-----------------------------------------------------------------------------
(* Requests                                                                *)

Refresh == [op |-> "refresh", left |-> {"interview"}, room |-> room, chat |-> {}, subs |-> subs]
OfSubmission(op, s) == [op |-> op, left |-> {"server"}, id |-> s, found |-> None]
OfRoom(op) == [op |-> op, left |-> {"server"}, expected |-> page.room.version, room |-> page.room]

Begin(k, r) == request[k] = Idle /\ request' = [request EXCEPT ![k] = r]
Waits(k, ops, part) == request[k].op \in ops /\ part \in request[k].left
Answered(k, ops) == request[k].op \in ops /\ request[k].left = {}
Busy == \E k \in Slots : request[k].op \in {"advance", "finish"}

\* broadcast: published while the socket is up, or missed.
Tell(m) == wire' = IF socket = "up" THEN wire \cup {m} ELSE wire

\* The room moves: by advanceQuestion, completeRoom or the deadline.
Move(ends) ==
  /\ room' = [version |-> room.version + 1, ended |-> ends]
  /\ Tell([type |-> "state", version |-> room.version + 1])

-----------------------------------------------------------------------------
(* The server                                                              *)

\* MUTANT of ReadInterview: a deadline is left to the page.
ReadInterviewOnly(k) ==
  /\ Waits(k, {"refresh"}, "interview")
  /\ request' = [request EXCEPT ![k].left = {"lists"}, ![k].room = room]
  /\ UNCHANGED <<server, page, net, calls, losses>>

\* GET /api/interviews/:id begins with getInterview, which ends a room whose
\* deadline has passed.
ReadInterview(k) ==
  /\ Waits(k, {"refresh"}, "interview")
  /\ IF overdue /\ ~room.ended THEN Move(TRUE) ELSE UNCHANGED <<room, wire>>
  /\ request' = [request EXCEPT ![k].left = {"lists"}, ![k].room = room']
  /\ UNCHANGED <<chat, subs, overdue, page, socket, calls, losses>>

\* ... and goes on with listChat and listSubmissions, in parallel; nothing
\* here relates the two lists to each other.
ReadLists(k) ==
  /\ Waits(k, {"refresh"}, "lists")
  /\ request' = [request EXCEPT ![k].left = {}, ![k].chat = chat, ![k].subs = subs]
  /\ UNCHANGED <<server, page, net, calls, losses>>

ReadSubmission(k) ==
  /\ Waits(k, {"submission"}, "server")
  /\ request' = [request EXCEPT ![k].left = {}, ![k].found = subs[request[k].id]]
  /\ UNCHANGED <<server, page, net, calls, losses>>

\* POST .../submissions: refused once the question is closed.
CreateSubmission(k) ==
  /\ Waits(k, {"submit"}, "server")
  /\ LET s == request[k].id
         made == [status |-> 1, question |-> request[k].found.question]
     IN IF room = [version |-> made.question, ended |-> FALSE] /\ ~overdue
        THEN /\ subs' = [subs EXCEPT ![s] = made]
             /\ request' = [request EXCEPT ![k].left = {}, ![k].found = made]
             /\ Tell([type |-> "submission", id |-> s])
        ELSE /\ request' = [request EXCEPT ![k] = Idle]
             /\ UNCHANGED <<subs, wire>>
  /\ UNCHANGED <<room, chat, overdue, page, socket, calls, losses>>

\* The judge stores a result and tells the room.
Judged(s) ==
  /\ subs[s].status = 1
  /\ subs' = [subs EXCEPT ![s].status = 2]
  /\ Tell([type |-> "submission", id |-> s])
  /\ UNCHANGED <<room, chat, overdue, page, request, socket, calls, losses>>

\* POST .../chat and .../follow-up store messages and answer with them.
StoreMessage(k) ==
  /\ Waits(k, {"chat", "followUp"}, "server")
  /\ chat' = chat \cup {request[k].id}
  /\ request' = [request EXCEPT ![k].left = {}]
  /\ UNCHANGED <<room, subs, overdue, page, net, calls, losses>>

\* POST .../advance, for the question the page shows, and .../complete.  When
\* time is up an advance is refused, and only a completion ends the room.
MoveRoom(k) ==
  /\ Waits(k, {"advance", "finish"}, "server")
  /\ LET advance == request[k].op = "advance"
         refused == advance /\ overdue /\ ~room.ended
         stale == advance /\ request[k].expected # room.version
     IN /\ IF room.ended \/ refused \/ stale
           THEN UNCHANGED <<room, wire>>
           ELSE Move(~advance \/ room.version = MaxVersion)
        /\ request' = [request EXCEPT ![k] =
             IF refused THEN Idle ELSE [@ EXCEPT !.left = {}, !.room = room']]
  /\ UNCHANGED <<chat, subs, overdue, page, socket, calls, losses>>

DeadlinePasses ==
  /\ ~overdue /\ overdue' = TRUE
  /\ UNCHANGED <<room, chat, subs, page, request, net, calls, losses>>

-----------------------------------------------------------------------------
(* The page: answers                                                       *)

\* applyState, and the guard of refresh.
Newest(p, state) == IF state.version >= p.room.version THEN [p EXCEPT !.room = state] ELSE p

\* refresh: the room is guarded by its version; the lists are replaced.
RefreshAnswer(k) ==
  /\ Answered(k, {"refresh"})
  /\ page' = [Newest(page, request[k].room) EXCEPT !.chat = request[k].chat, !.subs = request[k].subs]
  /\ request' = [request EXCEPT ![k] = Idle]
  /\ UNCHANGED <<server, net, calls, losses>>

\* refreshSubmission, and onSubmission of the code panel.
SubmissionAnswer(k) ==
  /\ Answered(k, {"submission", "submit"})
  /\ page' = [page EXCEPT !.subs[request[k].id] = request[k].found]
  /\ request' = [request EXCEPT ![k] = Idle]
  /\ UNCHANGED <<server, net, calls, losses>>

\* onMessages of the chat panel, and the answer to a follow-up call.
MessageAnswer(k) ==
  /\ Answered(k, {"chat", "followUp"})
  /\ page' = [page EXCEPT !.chat = @ \cup {request[k].id}]
  /\ request' = [request EXCEPT ![k] = Idle]
  /\ UNCHANGED <<server, net, calls, losses>>

\* advance and finish: the first goes on with a refresh.
RoomAnswer(k) ==
  /\ Answered(k, {"advance", "finish"})
  /\ page' = Newest(page, request[k].room)
  /\ request' = [request EXCEPT ![k] = IF @.op = "advance" THEN Refresh ELSE Idle]
  /\ UNCHANGED <<server, net, calls, losses>>

\* A request fails on its way there or back: nothing is shown or tried again.
RequestFails(k) ==
  /\ request[k] # Idle /\ losses < MaxLosses
  /\ losses' = losses + 1
  /\ request' = [request EXCEPT ![k] = Idle]
  /\ UNCHANGED <<server, page, net, calls>>

-----------------------------------------------------------------------------
(* The page: the candidate, the timers and the effects                     *)

Open == ~page.room.ended

Submit(k) == \E s \in Subs :
  /\ Open /\ subs[s] = None /\ \A t \in Subs : t < s => page.subs[t] # None
  /\ ~ \E j \in Slots : request[j].op = "submit"
  /\ Begin(k, [OfSubmission("submit", s) EXCEPT !.found.question = page.room.version])
  /\ UNCHANGED <<server, page, net, calls, losses>>

SendChat(k) == \E m \in Posts :
  /\ Open /\ m \notin chat /\ ~ \E j \in Slots : request[j].op = "chat"
  /\ Begin(k, OfSubmission("chat", m))
  /\ UNCHANGED <<server, page, net, calls, losses>>

\* "Next question", "Skip" and "End".
Press(k) == \E op \in {"advance", "finish"} :
  /\ Open /\ ~Busy
  /\ Begin(k, OfRoom(op))
  /\ UNCHANGED <<server, page, net, calls, losses>>

\* The effect on a time that is up: one attempt.
FinishOnTimeout(k) ==
  /\ overdue /\ Open /\ ~page.finished
  /\ Begin(k, OfRoom("finish"))
  /\ page' = [page EXCEPT !.finished = TRUE]
  /\ UNCHANGED <<server, net, calls, losses>>

\* The newest finished submission of the question shown.
Done == {s \in Subs : page.subs[s] = [status |-> 2, question |-> page.room.version]}

\* MUTANT of AskFollowUp: what was asked is not remembered; a message of the
\* chat tells whether there is one.
AskFollowUpUnlessShown(k) ==
  /\ Open /\ Done # {} /\ Max(Done) \notin page.chat
  /\ Begin(k, OfSubmission("followUp", Max(Done)))
  /\ calls' = [calls EXCEPT ![Max(Done)] = @ + 1]
  /\ UNCHANGED <<server, page, net, losses>>

\* The effect that asks for a follow-up.
AskFollowUp(k) ==
  /\ Open /\ Done # {} /\ Max(Done) \notin page.asked
  /\ Begin(k, OfSubmission("followUp", Max(Done)))
  /\ page' = [page EXCEPT !.asked = @ \cup {Max(Done)}]
  /\ calls' = [calls EXCEPT ![Max(Done)] = @ + 1]
  /\ UNCHANGED <<server, net, losses>>

\* The poll of pending submissions, connected or not.
Poll(k) == \E s \in Subs :
  /\ page.subs[s].status = 1
  /\ ~ \E j \in Slots : request[j].op = "submission" /\ request[j].id = s
  /\ Begin(k, OfSubmission("submission", s))
  /\ UNCHANGED <<server, page, net, calls, losses>>

Refreshing == \E k \in Slots : request[k].op = "refresh"

\* MUTANT of BackgroundRefresh: not while connected.
RefreshWhenDown(k) ==
  /\ Open /\ ~Refreshing /\ socket # "up"
  /\ Begin(k, Refresh)
  /\ UNCHANGED <<server, page, net, calls, losses>>

\* The background refresh, on a timer that is slower while connected, and when
\* the tab becomes visible; the one before it has come back (the model's bound).
BackgroundRefresh(k) ==
  /\ Open /\ ~Refreshing
  /\ Begin(k, Refresh)
  /\ UNCHANGED <<server, page, net, calls, losses>>

-----------------------------------------------------------------------------
(* The socket                                                              *)

\* A connection; any but the first refetches the state.
Connect(k) ==
  /\ Open /\ socket # "up" /\ socket' = "up"
  /\ IF socket = "first" THEN UNCHANGED request ELSE Begin(k, Refresh)
  /\ UNCHANGED <<server, page, wire, calls, losses>>

\* The connection breaks, or a notification could not be published.
Lose == \E rest \in {{}} \cup {wire \ {m} : m \in wire} :
  /\ socket = "up" /\ losses < MaxLosses
  /\ losses' = losses + 1
  /\ wire' = rest
  /\ socket' = IF rest = {} THEN "down" ELSE socket
  /\ UNCHANGED <<server, page, request, calls>>

\* onInterviewEvent and onSubmissionUpdate.
Notified(k) == \E m \in wire :
  /\ Open /\ wire' = wire \ {m}
  /\ IF m.type # "state" THEN Begin(k, OfSubmission("submission", m.id))
     ELSE IF m.version > page.room.version THEN Begin(k, Refresh)
     ELSE UNCHANGED request
  /\ UNCHANGED <<server, page, socket, calls, losses>>

-----------------------------------------------------------------------------

ServerStep(k) ==
  \/ ReadInterview(k) \/ ReadLists(k) \/ ReadSubmission(k)
  \/ CreateSubmission(k) \/ StoreMessage(k) \/ MoveRoom(k)

Answer(k) == RefreshAnswer(k) \/ SubmissionAnswer(k) \/ MessageAnswer(k) \/ RoomAnswer(k)

PageNext ==
  \/ \E k \in Slots :
       \/ ServerStep(k) \/ Answer(k) \/ RequestFails(k)
       \/ Submit(k) \/ SendChat(k) \/ Press(k) \/ FinishOnTimeout(k) \/ AskFollowUp(k)
       \/ Poll(k) \/ BackgroundRefresh(k) \/ Connect(k) \/ Notified(k)
  \/ \E s \in Subs : Judged(s)
  \/ DeadlinePasses \/ Lose

\* Requests are answered or fail; the timers of the page fire again and again,
\* whatever is under way (the slots are the model's).
Fairness ==
  /\ \A k \in Slots : WF_pageVars(ServerStep(k)) /\ WF_pageVars(Answer(k))
  /\ SF_pageVars(\E k \in Slots : BackgroundRefresh(k))
  /\ SF_pageVars(\E k \in Slots : Poll(k))

PageSpec == PageInit /\ [][PageNext]_pageVars /\ Fairness

-----------------------------------------------------------------------------
(* Properties                                                              *)

\* Whatever is lost, late or out of order, the page comes to show the room as
\* it is, and while the room is open its chat and submissions: the answer that
\* replaced them by older ones (interview-room.tsx:70) is itself replaced.
CatchesUp ==
  <>[] /\ page.room = room
       /\ room.ended \/ (page.chat = chat /\ page.subs = subs)

\* The page asks for the follow-up of a submission once, though the submission
\* may be shown pending again by a late answer and then done a second time.
FollowUpOnce == \A s \in Subs : calls[s] <= 1

\* The page tries once to end an interview whose time is up, and the interview
\* is shown as ended though that attempt may fail.
TimeUpEnds == overdue ~> page.room.ended
=============================================================================
