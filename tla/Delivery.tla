------------------------------ MODULE Delivery ------------------------------
(***************************************************************************)
(* The way of a proctoring signal from the candidate's tab to the database *)
(* (apps/web/lib/client/proctoring-queue.ts, the tab monitor of            *)
(* apps/web/components/proctoring/use-tab-monitor.ts, and                  *)
(* ingestProctoringEvents of packages/engine/src/proctoring/service.ts).   *)
(*                                                                         *)
(* One tab shows the interview room, mounted again and again: by a reload, *)
(* by a crash, or by a walk to another page of the application, which      *)
(* leaves the queue of the old room behind with its request under way.     *)
(* A handler of the browser is a step; on the server every statement on    *)
(* the database is a step.  An event is its number.  Times, severities,    *)
(* and events that validateEventTimes rejects are left out: the clocks     *)
(* agree.  The browser's storage can be written.                           *)
(***************************************************************************)
EXTENDS Integers, Sequences, FiniteSets, SequencesExt

CONSTANTS
  Keep,         \* events that fit in the storage (200)
  Batch,        \* events of a request (50)
  FlushAt,      \* length of the queue at which it is sent at once (10)
  MaxEvents,    \* bound on the events
  MaxBlurs,     \* bound on those that are neither an absence nor a return
  MaxQueues,    \* bound on how often the room is mounted
  Loose,        \* requests nobody waits for that may be under way at once
  MaxFailures   \* bound on calls that fail and processes that die

ASSUME DeliveryAssumption ==
  /\ {Keep, Batch, FlushAt, MaxEvents, MaxQueues} \subseteq Nat \ {0}
  /\ {MaxBlurs, MaxFailures} \subseteq Nat
  /\ IsFiniteSet(Loose) /\ Loose \cap Nat = {}

VARIABLES
  accepting,   \* is the room in progress, or completed two minutes ago at most?
  visible,     \* document.visibilityState
  queue,       \* the ProctoringQueue of each mounted room
  storage,     \* localStorage["ia-proctor-queue"]
  openHidden,  \* localStorage["ia-proctor-open-hidden"], 0 for none
  event,       \* the events pushed so far: their type and what they close
  request,     \* the request of each queue, and those nobody waits for
  row,         \* event -> its row: none, open (no endedAt) or ended
  givenUp,     \* history: events refused, failed to store, or cut from storage
  overwritten, \* history: events taken from the storage by a queue left behind
  failures     \* how many calls have failed and processes have died

client == <<visible, queue, storage, openHidden, event>>
server == <<accepting, row>>
vars == <<client, server, request, givenUp, overwritten, failures>>

Events == 1 .. MaxEvents
Queues == 1 .. MaxQueues
Slots == Queues \cup Loose

NoQueue == [mode |-> "none", events |-> <<>>, sending |-> FALSE]
Free == [at |-> "free"]

TypeOK ==
  /\ accepting \in BOOLEAN
  /\ visible \in BOOLEAN
  /\ \A q \in Queues :
       /\ queue[q].mode \in {"none", "running", "stopped", "dead"}
       /\ queue[q].events \in Seq(Events) /\ queue[q].sending \in BOOLEAN
       /\ queue[q].sending => request[q] # Free
  /\ storage \in Seq(Events) /\ Len(storage) <= Keep
  /\ openHidden \in {0} \cup Events
  /\ event \in Seq([type : {"hidden", "returned", "blur"}, closes : {0} \cup Events])
  /\ \A s \in Slots :
       \/ request[s] = Free
       \/ /\ request[s].at \in {"load", "close", "create", "answer"}
          /\ request[s].status \in {"ok", "refused", "failed"}
          /\ request[s].batch \in Seq(Events) /\ Len(request[s].batch) \in 1 .. Batch
          /\ request[s].left \in 0 .. Len(request[s].batch)
  /\ row \in [Events -> {"none", "open", "ended"}]
  /\ givenUp \subseteq Events /\ overwritten \subseteq Events
  /\ failures \in 0 .. MaxFailures

Init ==
  /\ accepting = TRUE
  /\ visible = TRUE
  /\ queue = [q \in Queues |-> NoQueue]
  /\ storage = <<>>
  /\ openHidden = 0
  /\ event = <<>>
  /\ request = [s \in Slots |-> Free]
  /\ row = [e \in Events |-> "none"]
  /\ givenUp = {} /\ overwritten = {}
  /\ failures = 0

MayFail == failures < MaxFailures /\ failures' = failures + 1
Running(q) == queue[q].mode = "running"
Alive(q) == queue[q].mode \in {"running", "stopped"}
AtStep(s, at) == request[s] # Free /\ request[s].at = at

-----------------------------------------------------------------------------
(* The queue: its methods are functions from a queue to a queue            *)

First(events) == SubSeq(events, 1, IF Len(events) < Batch THEN Len(events) ELSE Batch)

Latest(events) == SubSeq(events, (IF Len(events) > Keep THEN Len(events) - Keep ELSE 0) + 1, Len(events))

\* flush, up to the fetch.
Flushed(q) == IF q.sending \/ q.events = <<>> THEN q ELSE [q EXCEPT !.sending = TRUE]

\* push.
Pushed(q, e) ==
  LET longer == [q EXCEPT !.events = Append(@, e)]
  IN IF Len(longer.events) >= FlushAt THEN Flushed(longer) ELSE longer

\* MUTANT of Without: what came while the batch was under way is dropped too.
WithoutAll(events, batch) == <<>>

\* The filter, event by event.
Without(events, batch) ==
  LET kept[n \in 0 .. Len(events)] ==
        IF n = 0 THEN <<>>
        ELSE IF events[n] \in Range(batch) THEN kept[n - 1] ELSE Append(kept[n - 1], events[n])
  IN kept[Len(events)]

\* flush, after the fetch: a batch that is stored or can never be is dropped,
\* any other is kept; a long queue is sent again.
Settled(q, status, batch) ==
  LET kept == IF status = "failed" THEN q.events ELSE Without(q.events, batch)
      idle == [q EXCEPT !.events = kept, !.sending = FALSE]
  IN IF q.mode = "running" /\ Len(kept) >= FlushAt THEN Flushed(idle) ELSE idle

\* MUTANT of NewRequest: the newest event of the batch comes first.
NewRequestReversed(events) ==
  [at |-> "load", status |-> "ok", batch |-> Reverse(First(events)), left |-> Len(First(events))]

NewRequest(events) == [at |-> "load", status |-> "ok", batch |-> First(events), left |-> Len(First(events))]

\* persist, by queue q, after a push or once `batch' has been answered; the
\* server may have refused the batch.
Persist(q, events, batch, refused) ==
  /\ storage' = Latest(events)
  /\ givenUp' = givenUp \cup (Range(events) \ Range(Latest(events)))
                        \cup (IF refused THEN Range(batch) ELSE {})
  /\ overwritten' = IF Running(q) THEN overwritten
                    ELSE overwritten \cup ((Range(storage) \ Range(events)) \ Range(batch))

\* A queue that is stopped and sends nothing does nothing any more.
Rest(q) == IF q.mode = "stopped" /\ ~q.sending THEN [NoQueue EXCEPT !.mode = "dead"] ELSE q

\* Queue q becomes `new' and sends a request if it was not sending.
Become(q, new) ==
  /\ queue' = [queue EXCEPT ![q] = Rest(new)]
  /\ request' = IF new.sending /\ ~queue[q].sending
                THEN [request EXCEPT ![q] = NewRequest(new.events)] ELSE request

Push(q, type, closes) ==
  LET e == Len(event) + 1 IN
  /\ e \in Events
  /\ event' = Append(event, [type |-> type, closes |-> closes])
  /\ Become(q, Pushed(queue[q], e))
  /\ Persist(q, Append(queue[q].events, e), <<>>, FALSE)

\* MUTANT of FlushTimer: a short queue is not worth a request.
FlushTimerIfLong(q) ==
  /\ Running(q)
  /\ Len(queue[q].events) >= FlushAt
  /\ Flushed(queue[q]) # queue[q]
  /\ Become(q, Flushed(queue[q]))
  /\ UNCHANGED <<visible, storage, openHidden, event, server, givenUp, overwritten, failures>>

\* The timer of five seconds, or the browser comes online.
FlushTimer(q) ==
  /\ Running(q)
  /\ Flushed(queue[q]) # queue[q]
  /\ Become(q, Flushed(queue[q]))
  /\ UNCHANGED <<visible, storage, openHidden, event, server, givenUp, overwritten, failures>>

\* The answer to queue q's request.
Answer(q) ==
  LET r == request[q]
      new == Settled(queue[q], r.status, r.batch)
  IN
  /\ AtStep(q, "answer")
  /\ queue' = [queue EXCEPT ![q] = Rest(new)]
  /\ IF r.status = "failed" THEN UNCHANGED <<storage, givenUp, overwritten>>
     ELSE Persist(q, new.events, r.batch, r.status = "refused")
  /\ request' = [request EXCEPT ![q] = IF new.sending THEN NewRequest(new.events) ELSE Free]
  /\ UNCHANGED <<visible, openHidden, event, server, failures>>

\* The connection breaks: the queue gives the request up, the server does not.
LoseConnection(q, s) ==
  LET new == Settled(queue[q], "failed", <<>>) IN
  /\ Alive(q) /\ queue[q].sending
  /\ s \in Loose /\ request[s] = Free
  /\ MayFail
  /\ queue' = [queue EXCEPT ![q] = Rest(new)]
  /\ request' = [request EXCEPT ![s] = request[q],
                                ![q] = IF new.sending THEN NewRequest(new.events) ELSE Free]
  /\ UNCHANGED <<visible, storage, openHidden, event, server, givenUp, overwritten>>

-----------------------------------------------------------------------------
(* The room and its tab monitor                                            *)

\* The room is mounted: the queue is read from the storage and started, then
\* the monitor closes what is still open.
Mount(q, seen) ==
  LET loaded == Flushed([mode |-> "running", events |-> storage, sending |-> FALSE])
      e == Len(event) + 1
      closes == openHidden # 0 /\ seen
      new == IF closes THEN Pushed(loaded, e) ELSE loaded
  IN
  /\ accepting
  /\ queue[q].mode = "none" /\ \A p \in Queues : ~Running(p) /\ (p < q => queue[p].mode # "none")
  /\ visible' = seen
  /\ queue' = [queue EXCEPT ![q] = Rest(new)]
  /\ request' = IF new.sending
                THEN [request EXCEPT ![q] = NewRequest(IF loaded.sending THEN loaded.events ELSE new.events)]
                ELSE request
  /\ IF closes
     THEN /\ e \in Events
          /\ event' = Append(event, [type |-> "returned", closes |-> openHidden])
          /\ openHidden' = 0
          /\ storage' = Latest(new.events)
          /\ givenUp' = givenUp \cup (Range(new.events) \ Range(Latest(new.events)))
     ELSE UNCHANGED <<event, openHidden, storage, givenUp>>
  /\ UNCHANGED <<server, overwritten, failures>>

\* The tab is hidden.
Hide(q) ==
  /\ Running(q) /\ visible
  /\ visible' = FALSE
  /\ IF openHidden # 0
     THEN UNCHANGED <<queue, storage, openHidden, event, request, givenUp, overwritten>>
     ELSE openHidden' = Len(event) + 1 /\ Push(q, "hidden", 0)
  /\ UNCHANGED <<server, failures>>

\* MUTANT of Show: what the tab returns from is not said.
ShowUnnamed(q) ==
  /\ Running(q) /\ ~visible
  /\ visible' = TRUE
  /\ IF openHidden = 0
     THEN UNCHANGED <<queue, storage, openHidden, event, request, givenUp, overwritten>>
     ELSE openHidden' = 0 /\ Push(q, "returned", 0)
  /\ UNCHANGED <<server, failures>>

\* The candidate comes back.
Show(q) ==
  /\ Running(q) /\ ~visible
  /\ visible' = TRUE
  /\ IF openHidden = 0
     THEN UNCHANGED <<queue, storage, openHidden, event, request, givenUp, overwritten>>
     ELSE openHidden' = 0 /\ Push(q, "returned", openHidden)
  /\ UNCHANGED <<server, failures>>

\* Another window had the focus, or the network was gone: an event with its end.
Blur(q) ==
  /\ Running(q) /\ visible
  /\ Cardinality({e \in 1 .. Len(event) : event[e].type = "blur"}) < MaxBlurs
  /\ Push(q, "blur", 0)
  /\ UNCHANGED <<visible, openHidden, server, failures>>

\* The room is left for another page, or it shows that the interview is over.
Leave(q) ==
  /\ Running(q)
  /\ Become(q, [Flushed(queue[q]) EXCEPT !.mode = "stopped"])
  /\ UNCHANGED <<visible, storage, openHidden, event, server, givenUp, overwritten, failures>>

Dead == [q \in Queues |-> IF Alive(q) THEN [NoQueue EXCEPT !.mode = "dead"] ELSE queue[q]]

\* The tab is reloaded or closed: the queue's beacon, to which nobody hears the
\* answer, then the monitor, if the browser tells it that the tab is hidden.
Unload(q, s) ==
  LET e == Len(event) + 1 IN
  /\ Running(q)
  /\ s \in Loose /\ request[s] = Free
  /\ queue' = Dead /\ visible' = TRUE
  /\ \E hides \in BOOLEAN :
       LET new == IF hides THEN Pushed(queue[q], e) ELSE queue[q] IN
       /\ IF hides
          THEN /\ visible /\ openHidden = 0 /\ e \in Events
               /\ event' = Append(event, [type |-> "hidden", closes |-> 0])
               /\ openHidden' = e
               /\ Persist(q, new.events, <<>>, FALSE)
          ELSE UNCHANGED <<event, openHidden, storage, givenUp, overwritten>>
       /\ request' = [t \in Slots |->
            IF t = s /\ queue[q].events # <<>> THEN NewRequest(queue[q].events)
            ELSE IF t = q /\ new.sending /\ ~queue[q].sending THEN NewRequest(new.events)
            ELSE IF AtStep(t, "answer") THEN Free ELSE request[t]]
  /\ UNCHANGED <<server, failures>>

\* The tab crashes.  What it has sent is sent.
Crash ==
  /\ \E q \in Queues : Alive(q)
  /\ queue' = Dead /\ visible' = TRUE
  /\ request' = [s \in Slots |-> IF AtStep(s, "answer") THEN Free ELSE request[s]]
  /\ UNCHANGED <<storage, openHidden, event, server, givenUp, overwritten, failures>>

-----------------------------------------------------------------------------
(* ingestProctoringEvents                                                  *)

Current(s) == request[s].batch[Len(request[s].batch) - request[s].left + 1]
Go(s, at) == request' = [request EXCEPT ![s].at = at]

\* The answer waits for the queue that has asked, if there is one.
Respond(s, status) ==
  request' = [request EXCEPT ![s] = IF s \in Loose \/ ~Alive(s) THEN Free
                                    ELSE [@ EXCEPT !.at = "answer", !.status = status, !.left = 0]]

\* Where the loop begins the event that is `left' events from the end.
Begin(s, left) ==
  LET batch == request[s].batch IN
  IF left = 0 THEN Respond(s, "ok")
  ELSE request' = [request EXCEPT ![s].left = left,
                                  ![s].at = IF event[batch[Len(batch) - left + 1]].closes # 0
                                            THEN "close" ELSE "create"]

\* The room decides whether events are taken at all; it is not read again.
LoadRoom(s) ==
  /\ AtStep(s, "load")
  /\ IF accepting THEN Begin(s, request[s].left) ELSE Respond(s, "refused")
  /\ UNCHANGED <<client, server, givenUp, overwritten, failures>>

\* A TAB_RETURNED ends the interval it closes.  It is looked up and updated in
\* two statements; an interval is only ever ended, so the second changes what
\* it would have changed at once.
CloseHidden(s) ==
  LET h == event[Current(s)].closes IN
  /\ AtStep(s, "close")
  /\ row' = IF row[h] = "open" THEN [row EXCEPT ![h] = "ended"] ELSE row
  /\ Go(s, "create")
  /\ UNCHANGED <<client, accepting, givenUp, overwritten, failures>>

RowOf(e) == IF event[e].type = "blur" THEN "ended" ELSE "open"

\* A row that is there, found by a look or by the unique index, gets its end if
\* the event now has one; otherwise it is created.  A row that cannot be
\* stored is given up.
CreateRow(s) ==
  LET e == Current(s) IN
  /\ AtStep(s, "create")
  /\ \/ /\ row' = IF row[e] = "none" \/ RowOf(e) = "ended" THEN [row EXCEPT ![e] = RowOf(e)] ELSE row
        /\ UNCHANGED <<givenUp, failures>>
     \/ /\ MayFail
        /\ givenUp' = givenUp \cup {e}
        /\ UNCHANGED row
  /\ Begin(s, request[s].left - 1)
  /\ UNCHANGED <<client, accepting, overwritten>>

\* The request does not arrive, is over the rate limit, or its process dies.
Fail(s) ==
  /\ request[s] # Free /\ ~AtStep(s, "answer")
  /\ MayFail
  /\ Respond(s, "failed")
  /\ UNCHANGED <<client, server, givenUp, overwritten>>

\* The interview has ended two minutes ago.
Complete ==
  /\ accepting
  /\ accepting' = FALSE
  /\ UNCHANGED <<client, row, request, givenUp, overwritten, failures>>

-----------------------------------------------------------------------------

Serve(s) == LoadRoom(s) \/ CloseHidden(s) \/ CreateRow(s)

Next ==
  \/ \E q \in Queues : \/ FlushTimer(q) \/ Answer(q) \/ Hide(q) \/ Show(q) \/ Blur(q) \/ Leave(q)
                       \/ \E s \in Loose : LoseConnection(q, s) \/ Unload(q, s)
                       \/ \E seen \in BOOLEAN : Mount(q, seen)
  \/ \E s \in Slots : Serve(s) \/ Fail(s)
  \/ Crash \/ Complete

\* The timer goes off, the server works, and its answers arrive.
Fairness ==
  /\ \A q \in Queues : WF_vars(FlushTimer(q)) /\ WF_vars(Answer(q))
  /\ \A s \in Slots : WF_vars(Serve(s))

Spec == Init /\ [][Next]_vars /\ Fairness

-----------------------------------------------------------------------------
(* Properties                                                              *)

\* Where an event that is not stored may still be.
Kept(e) ==
  \/ e \in Range(storage)
  \/ \E q \in Queues : Alive(q) /\ e \in Range(queue[q].events)
  \/ \E s \in Slots : request[s] # Free /\ e \in Range(request[s].batch)

\* proctoring-queue.ts writes events to the storage first "so a refresh, crash
\* or brief network loss does not lose them": at any time an event that was
\* pushed is stored or on its way, or it is one that the server refused or
\* could not store, that the storage had no room for, or that the queue of a
\* room left behind has taken from it.
NothingLost ==
  \A e \in 1 .. Len(event) : row[e] # "none" \/ Kept(e) \/ e \in givenUp \cup overwritten

\* However often and by whichever request they are delivered, a return that is
\* stored has ended the absence it returns from (service.ts 55-66).
ReturnEndsAbsence ==
  \A e \in 1 .. Len(event) :
    LET h == event[e].closes IN
    row[e] # "none" /\ h # 0 /\ row[h] # "none" /\ h \notin givenUp \cup overwritten => row[h] = "ended"

\* The tab is away once at a time: of the absences stored only the last one
\* may be open, unless the return of an earlier one was given up.
OneAbsenceOpen ==
  \A g, h \in 1 .. Len(event) :
    /\ g < h /\ event[g].type = "hidden" /\ event[h].type = "hidden"
    /\ row[g] = "open" /\ row[h] # "none"
    => \E e \in givenUp \cup overwritten : e = g \/ event[e].closes = g

\* The queue is emptied again and again, whatever came between: each event of a
\* room that stays open is stored, refused or given up.
QueueDrains == []<>(\A q \in Queues : Running(q) => queue[q].events = <<>>)
=============================================================================
