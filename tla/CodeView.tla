------------------------------ MODULE CodeView ------------------------------
(***************************************************************************)
(* The candidate's code on its way to the draft in the database and to the *)
(* screen of an interviewer who watches                                    *)
(* (apps/web/components/interview/code-panel.tsx and interview-room.tsx,   *)
(* saveDraft of packages/engine/src/interviews/service.ts, and the code    *)
(* relay of apps/ws-server/src/index.ts).                                  *)
(*                                                                         *)
(* One coding question, open throughout.  A code is the number of the edit *)
(* that made it.  There is one realtime server: its commands reach Redis   *)
(* in the order it gives them, and its messages a socket likewise.         *)
(***************************************************************************)
EXTENDS Integers, Sequences

CONSTANTS
  Slots,     \* requests that store code and may be under way at once
  MaxEdits,  \* bound on the edits
  MaxLoads,  \* bound on how often the candidate loads the page
  MaxJoins,  \* bound on how often the interviewer connects
  MaxLosses  \* bound on requests that fail and connections that break

ASSUME CodeViewAssumption ==
  {MaxEdits, MaxLoads, MaxJoins, MaxLosses} \subseteq Nat /\ MaxLoads > 0

VARIABLES
  page,      \* the candidate's editor: its load, code, counter, save state, timer
  edits,     \* how many edits there have been
  draft,     \* interviewQuestion.draftCode
  save,      \* slot -> the request that stores code: a draft or a submission
  raced,     \* history: has a request overlapped with another, or outlived its page,
             \* and none been answered since that was alone?
  halves,    \* history: codes with a submission whose call ended before it set the draft
  link,      \* is the candidate's socket connected?
  toServer,  \* its messages on their way
  recent,    \* was one relayed less than 150 ms ago?
  snapshot,  \* the last code in Redis
  watcher,   \* the interviewer's connection: "out", "joined", "read" or "on"
  held,      \* the snapshot read for it
  toView,    \* messages on their way to it
  view,      \* remoteCode: what the interviewer sees
  joins,     \* how often the interviewer has connected
  losses     \* how much has failed

editor == <<page, edits>>
drafts == <<draft, save, raced, halves>>
relay == <<recent, snapshot>>
viewer == <<watcher, held, view, joins>>
vars == <<editor, drafts, link, toServer, relay, viewer, toView, losses>>

Nothing == [seq |-> 0]
Free == [op |-> "free"]
Calls == {"none", "sent", "made", "done", "dead"}
Sync == [load : 1 .. MaxLoads, seq : 1 .. MaxEdits, code : 1 .. MaxEdits]

TypeOK ==
  /\ page \in [load : 1 .. MaxLoads, code : 0 .. MaxEdits, seq : 0 .. MaxEdits,
               state : {"saved", "saving", "unsaved", "error"}, timer : BOOLEAN]
  /\ edits \in 0 .. MaxEdits /\ draft \in 0 .. edits
  /\ raced \in BOOLEAN /\ halves \subseteq 0 .. edits
  /\ save \in [Slots -> {Free} \cup
                 [op : {"draft", "submit"}, code : 0 .. edits, calls : [1 .. 2 -> Calls],
                  waits : 0 .. 2, alone : BOOLEAN, row : BOOLEAN]]
  /\ link \in BOOLEAN /\ recent \in BOOLEAN
  /\ toServer \in Seq(Sync) /\ toView \in Seq(Sync)
  /\ {snapshot, held, view} \subseteq Sync \cup {Nothing}
  /\ watcher \in {"out", "joined", "read", "on"}
  /\ joins \in 0 .. MaxJoins /\ losses \in 0 .. MaxLosses

Init ==
  /\ page = [load |-> 1, code |-> 0, seq |-> 0, state |-> "saved", timer |-> FALSE]
  /\ edits = 0 /\ draft = 0
  /\ save = [k \in Slots |-> Free] /\ raced = FALSE /\ halves = {}
  /\ link = FALSE /\ toServer = <<>>
  /\ recent = FALSE /\ snapshot = Nothing
  /\ watcher = "out" /\ held = Nothing /\ toView = <<>> /\ view = Nothing
  /\ joins = 0 /\ losses = 0

MayFail == losses < MaxLosses /\ losses' = losses + 1

-----------------------------------------------------------------------------
(* The editor                                                              *)

\* changeCode, changeLanguage and onCodeChange: the counter counts every edit,
\* a connected socket sends it, and the timer starts anew.
Edit ==
  /\ edits < MaxEdits
  /\ edits' = edits + 1
  /\ page' = [page EXCEPT !.code = edits', !.seq = @ + 1, !.state = "unsaved", !.timer = TRUE]
  /\ toServer' = IF link
                 THEN Append(toServer, [load |-> page.load, seq |-> page'.seq, code |-> edits'])
                 ELSE toServer
  /\ UNCHANGED <<drafts, link, relay, viewer, toView, losses>>

\* A request: its first call is sent, and the page waits for it.  The page may
\* call a second time; calls it has given up may still do their work.
Fresh(op, code) == [op |-> op, code |-> code, calls |-> <<"sent", "none">>, waits |-> 1,
                    alone |-> \A j \in Slots : save[j] = Free, row |-> FALSE]

Joined(k, r) == [j \in Slots |->
  IF j = k THEN r ELSE IF save[j] = Free THEN Free ELSE [save[j] EXCEPT !.alone = FALSE]]

\* MUTANT of Request: a request carries the code already stored, that of the
\* render its callback was made in.
RequestClosure(k, op) ==
  /\ save[k] = Free
  /\ save' = Joined(k, Fresh(op, draft))
  /\ raced' = (raced \/ \E j \in Slots : save[j] # Free)
  /\ UNCHANGED <<edits, draft, halves, link, toServer, relay, viewer, toView, losses>>

\* A request carries the code of the moment it is made.
Request(k, op) ==
  /\ save[k] = Free
  /\ save' = Joined(k, Fresh(op, page.code))
  /\ raced' = (raced \/ \E j \in Slots : save[j] # Free)
  /\ UNCHANGED <<edits, draft, halves, link, toServer, relay, viewer, toView, losses>>

\* saveDraft, 1.5 s after the last edit.
SaveDraft(k) ==
  /\ page.timer /\ Request(k, "draft")
  /\ page' = [page EXCEPT !.state = "saving", !.timer = FALSE]

\* run: one at a time.
Run(k) ==
  /\ ~ \E j \in Slots : save[j].op = "submit" /\ save[j].waits # 0
  /\ Request(k, "submit")
  /\ UNCHANGED page

\* A request is over when nobody waits for it and no call of it is at work.
Kept(r) == IF r.waits = 0 /\ \A n \in 1 .. 2 : r.calls[n] \in {"none", "done", "dead"}
           THEN Free ELSE r

Comes(k, n, to) == [save[k] EXCEPT !.calls[n] = to]

\* The server: a step of the n-th call of a request, towards which the page does
\* nothing yet.
Serve(k, r) ==
  /\ save' = [save EXCEPT ![k] = Kept(r)]
  /\ UNCHANGED <<editor, raced, link, toServer, relay, viewer, toView>>

\* createSubmission makes the row of the request's key...
CreateRow(k, n) ==
  /\ save[k].op = "submit" /\ save[k].calls[n] = "sent" /\ ~save[k].row
  /\ Serve(k, [Comes(k, n, "made") EXCEPT !.row = TRUE])
  /\ UNCHANGED <<draft, halves, losses>>

\* ... or answers with the row that is there, and does no more.
FindRow(k, n) ==
  /\ save[k].op = "submit" /\ save[k].calls[n] = "sent" /\ save[k].row
  /\ Serve(k, Comes(k, n, "done"))
  /\ UNCHANGED <<draft, halves, losses>>

\* The draft is set: all that saveDraft does, and a submission's second write.
WriteDraft(k, n) ==
  /\ save[k] # Free
  /\ save[k].calls[n] = IF save[k].op = "draft" THEN "sent" ELSE "made"
  /\ draft' = save[k].code
  /\ Serve(k, Comes(k, n, "done"))
  /\ UNCHANGED <<halves, losses>>

\* The call is refused, fails, or dies with its process.
Dies(k, n) ==
  /\ save[k] # Free /\ save[k].calls[n] \in {"sent", "made"}
  /\ MayFail
  /\ halves' = IF save[k].calls[n] = "made" THEN halves \cup {save[k].code} ELSE halves
  /\ Serve(k, Comes(k, n, "dead"))
  /\ UNCHANGED draft

\* The call's answer reaches the page.
Answered(k) ==
  /\ save[k] # Free /\ save[k].waits # 0 /\ save[k].calls[save[k].waits] = "done"
  /\ page' = [page EXCEPT !.state = "saved"]
  /\ save' = [save EXCEPT ![k] = Kept([@ EXCEPT !.waits = 0])]
  /\ raced' = (raced /\ ~save[k].alone)
  /\ UNCHANGED <<edits, draft, halves, link, toServer, relay, viewer, toView, losses>>

\* The page learns that its call is dead, or the network fails it.
Failed(k) ==
  /\ save[k] # Free /\ save[k].waits # 0
  /\ IF save[k].calls[save[k].waits] = "dead" THEN UNCHANGED losses ELSE MayFail
  /\ UNCHANGED <<edits, draft, raced, halves, link, toServer, relay, viewer, toView>>

\* run, when the network failed: once more under the same key.
Retry(k) ==
  /\ save[k].op = "submit" /\ save[k].waits = 1 /\ Failed(k)
  /\ save' = [save EXCEPT ![k].waits = 2, ![k].calls[2] = "sent"]
  /\ UNCHANGED page

\* saveDraft, the second failure of a submission, or a first one that the server answered.
GiveUp(k) ==
  /\ Failed(k)
  /\ save[k].op = "draft" \/ save[k].waits = 2 \/ save[k].calls[1] = "dead"
  /\ save' = [save EXCEPT ![k] = Kept([@ EXCEPT !.waits = 0])]
  /\ page' = IF save[k].op = "draft" THEN [page EXCEPT !.state = "error"] ELSE page

\* The candidate reloads the page: it shows the draft, counts from zero, and
\* nothing waits for the requests of the old one.
Reload ==
  /\ page.load < MaxLoads
  /\ page' = [load |-> page.load + 1, code |-> draft, seq |-> 0, state |-> "saved", timer |-> FALSE]
  /\ save' = [k \in Slots |-> IF save[k] = Free THEN Free ELSE Kept([save[k] EXCEPT !.waits = 0])]
  /\ raced' = \E k \in Slots : save'[k] # Free
  /\ link' = FALSE /\ toServer' = <<>> /\ recent' = FALSE
  /\ UNCHANGED <<edits, draft, halves, snapshot, viewer, toView, losses>>

-----------------------------------------------------------------------------
(* The relay                                                               *)

Connect ==
  /\ ~link /\ link' = TRUE /\ recent' = FALSE
  /\ UNCHANGED <<editor, drafts, toServer, snapshot, viewer, toView, losses>>

Disconnect ==
  /\ link /\ link' = FALSE /\ toServer' = <<>> /\ MayFail
  /\ UNCHANGED <<editor, drafts, relay, viewer, toView>>

\* on("code-sync"): too soon after the last one, it is dropped.
Relay ==
  /\ toServer # <<>> /\ toServer' = Tail(toServer)
  /\ IF recent THEN UNCHANGED <<relay, toView>>
     ELSE /\ recent' = TRUE
          /\ snapshot' = Head(toServer)
          /\ toView' = IF watcher = "out" THEN toView ELSE Append(toView, Head(toServer))
  /\ UNCHANGED <<editor, drafts, link, viewer, losses>>

Tick ==
  /\ recent /\ recent' = FALSE
  /\ UNCHANGED <<editor, drafts, link, toServer, snapshot, viewer, toView, losses>>

\* MUTANT of Join: the snapshot is read before the room is joined.
JoinAfterRead ==
  \/ /\ watcher = "out" /\ joins < MaxJoins /\ held = Nothing
     /\ snapshot # Nothing /\ held' = snapshot
     /\ UNCHANGED <<watcher, view, joins, editor, drafts, link, toServer, relay, toView, losses>>
  \/ /\ watcher = "out" /\ held # Nothing
     /\ watcher' = "read" /\ joins' = joins + 1
     /\ UNCHANGED <<held, view, editor, drafts, link, toServer, relay, toView, losses>>

\* on("connection"): the room is joined, then the snapshot is read, and sent
\* after everything that has been relayed meanwhile.
Join ==
  /\ watcher = "out" /\ joins < MaxJoins
  /\ watcher' = "joined" /\ joins' = joins + 1
  /\ UNCHANGED <<held, view, editor, drafts, link, toServer, relay, toView, losses>>

ReadSnapshot ==
  /\ watcher = "joined" /\ watcher' = "read"
  /\ held' = snapshot
  /\ UNCHANGED <<view, joins, editor, drafts, link, toServer, relay, toView, losses>>

Hello ==
  /\ watcher = "read" /\ watcher' = "on"
  /\ toView' = IF held = Nothing THEN toView ELSE Append(toView, held)
  /\ held' = Nothing
  /\ UNCHANGED <<view, joins, editor, drafts, link, toServer, relay, losses>>

\* The interviewer's connection breaks, or the interviewer reloads the page.
Leave == \E left \in {view, Nothing} :
  /\ watcher # "out" /\ watcher' = "out"
  /\ held' = Nothing /\ toView' = <<>> /\ view' = left
  /\ UNCHANGED <<joins, editor, drafts, link, toServer, relay, losses>>

\* onCodeSync: a counter that is not above the last is ignored.
Accepts(old, sync) == sync.seq > old.seq

Show ==
  /\ toView # <<>> /\ toView' = Tail(toView)
  /\ view' = IF Accepts(view, Head(toView)) THEN Head(toView) ELSE view
  /\ UNCHANGED <<watcher, held, joins, editor, drafts, link, toServer, relay, losses>>

-----------------------------------------------------------------------------

Next ==
  \/ Edit \/ Reload
  \/ \E k \in Slots : SaveDraft(k) \/ Run(k) \/ Answered(k) \/ Retry(k) \/ GiveUp(k)
  \/ \E k \in Slots, n \in 1 .. 2 :
       CreateRow(k, n) \/ FindRow(k, n) \/ WriteDraft(k, n) \/ Dies(k, n)
  \/ Connect \/ Disconnect \/ Relay \/ Tick
  \/ Join \/ ReadSnapshot \/ Hello \/ Leave \/ Show

Spec == Init /\ [][Next]_vars

-----------------------------------------------------------------------------
(* Properties                                                              *)

\* Once the editor says "saved", nothing more is to be sent and no request is at
\* work, the draft is the code on the screen (code-panel.tsx:68-77, 118-142),
\* through failures, retries and reloads; with two exceptions.  Requests that
\* overlapped are stored in any order, until one is answered that was alone.  And a
\* submission is two writes: if its first call dies between them, the second is
\* answered from the row, and the page says "saved" of a code that is no draft
\* (submissions/service.ts:55-59, 82, 104).
SavedIsStored ==
  page.state = "saved" /\ ~page.timer /\ ~raced /\ (\A k \in Slots : save[k] = Free)
    => draft = page.code \/ page.code \in halves

\* Once everything has arrived, a watching interviewer sees the last code that
\* was relayed, whenever they joined: none falls between the snapshot and the
\* room (ws-server/src/index.ts:126-136).  Codes of an earlier load of the
\* candidate's page are another matter: the counter begins anew with each load,
\* so that the view may stay with the older load for a long time.
ViewIsLatest ==
  watcher = "on" /\ toView = <<>> /\ snapshot # Nothing
    => view # Nothing /\ (view.load = snapshot.load => view = snapshot)
=============================================================================
