----------------------------- MODULE Interview -----------------------------
(***************************************************************************)
(* One interview room and the processes that change it                     *)
(* (packages/engine/src/interviews/service.ts): any number of requests of  *)
(* the web app (the tabs of the candidate and of the interviewers, double  *)
(* clicks, retries after a network error) and the sweep of the worker.     *)
(*                                                                         *)
(* A handler is split where the code awaits, so that any other process may *)
(* run between what a handler reads and what it does with it.  A           *)
(* db.$transaction and a single Prisma statement are atomic here.  A       *)
(* handler that returns without writing is the absence of a step: it       *)
(* leaves everything as it was.                                            *)
(*                                                                         *)
(* A question is its position in the plan: (roomId, position) is unique.   *)
(* The column "answer" stands for answer and explanation, "draft" for the  *)
(* draft code; which of them a question takes depends on its kind, which   *)
(* is left out.                                                            *)
(* ANSWER_SUBMITTED rows (written by submitAnswer, read by nobody), the    *)
(* proctoring flag and the timestamps are left out.                        *)
(***************************************************************************)
EXTENDS Integers, Sequences

CONSTANTS
  Requests,       \* the web requests that may be in flight at once
  Worker,         \* the worker process
  QuestionCount,  \* InterviewRoom.questionCount, the length of the plan
  Texts,          \* what a candidate may write
  NoText,         \* null in the answer and draft columns
  MaxFailures     \* bound on requests and sweeps that die before their end

ASSUME ConstantsAssumption ==
  /\ Worker \notin Requests
  /\ QuestionCount \in Nat \ {0}
  /\ NoText \notin Texts
  /\ MaxFailures \in Nat

VARIABLES
  status,      \* InterviewRoom.status
  version,     \* InterviewRoom.version
  clock,       \* now against endsAt: "ahead", "past" (30 s), "overdue" (60 s)
  questions,   \* position -> InterviewQuestion.status, "none" before it is asked
  written,     \* position -> what its answer and draft columns hold
  stateLog,    \* the STATE_CHANGED events after CREATED, oldest first
  askedLog,    \* the positions of the QUESTION_ASKED events, oldest first
  report,      \* InterviewReport: "none" until completeRoom upserts "PENDING"
  scheduled,   \* how many times scheduleEvaluation was called for the room
  req,         \* process -> where it stands in its handler and what it read
  failures     \* how many requests and sweeps have died so far

room == <<status, version, clock, questions, stateLog, askedLog, report>>
vars == <<room, written, scheduled, req, failures>>

Actors == Requests \cup {Worker}
Positions == 0 .. QuestionCount - 1
Columns == {"answer", "draft"}
Closed == {"ANSWERED", "SKIPPED"}
Reasons == {"CANDIDATE_FINISHED", "TIME_EXPIRED"}

\* Where a process stands in its handler, with what it keeps across the await:
\* the version it read, the question it is about and how to leave it, the text
\* to write in which column, the reason it will complete the room for.
Frames ==
  [at : {"idle", "cancel", "schedule"}]
    \cup [at : {"start"}, version : Nat]
    \cup [at : {"pick", "advance", "closeLast"}, pos : Positions, as : Closed]
    \cup [at : {"check", "write"}, pos : Positions, column : Columns, text : Texts]
    \cup [at : {"complete"}, reason : Reasons]

Idle == [at |-> "idle"]

LogEntries == [to : {"IN_PROGRESS", "COMPLETED"}, reason : Reasons \cup {"START"}]
StartEntry == [to |-> "IN_PROGRESS", reason |-> "START"]
DoneEntry(why) == [to |-> "COMPLETED", reason |-> why]

TypeOK ==
  /\ status \in {"CREATED", "IN_PROGRESS", "COMPLETED", "CANCELLED"}
  /\ version \in Nat
  /\ clock \in {"ahead", "past", "overdue"}
  /\ questions \in [Positions -> {"none", "ACTIVE"} \cup Closed]
  /\ written \in [Positions -> [Columns -> Texts \cup {NoText}]]
  /\ stateLog \in Seq(LogEntries)
  /\ askedLog \in Seq(Positions)
  /\ report \in {"none", "PENDING"}
  /\ scheduled \in Nat
  /\ req \in [Actors -> Frames]
  /\ failures \in 0 .. MaxFailures

\* createInterview: the room exists, nothing has been asked.
Init ==
  /\ status = "CREATED"
  /\ version = 0
  /\ clock = "ahead"
  /\ questions = [p \in Positions |-> "none"]
  /\ written = [p \in Positions |-> [c \in Columns |-> NoText]]
  /\ stateLog = <<>>
  /\ askedLog = <<>>
  /\ report = "none"
  /\ scheduled = 0
  /\ req = [a \in Actors |-> Idle]
  /\ failures = 0

-----------------------------------------------------------------------------
(* Reading, and moving from one await to the next.                         *)

Step(a, frame) == req' = [req EXCEPT ![a] = frame]
Respond(a) == Step(a, Idle)
UnchangedRoom == UNCHANGED <<room, written, scheduled, failures>>

\* isPastDeadline: more than the 30 s of grace after endsAt.
PastDeadline == clock # "ahead"

\* assertActive, on the room as the handler has just read it.
AssertActive == status = "IN_PROGRESS" /\ ~PastDeadline

\* Is p the question `questions.find((q) => q.status === "ACTIVE")' returns?
IsCurrent(p) ==
  /\ questions[p] = "ACTIVE"
  /\ \A q \in Positions : questions[q] = "ACTIVE" => p <= q

-----------------------------------------------------------------------------
(* startInterview                                                          *)

\* Read the room, then wait for selectNextQuestion, which may call the AI.
ReadToStart(r) ==
  /\ req[r].at = "idle"
  /\ status = "CREATED"
  /\ Step(r, [at |-> "start", version |-> version])
  /\ UnchangedRoom

\* MUTANT of StartMatches: the room is updated by its id alone.
StartUnconditionally(r) == req[r].at = "start"

\* The WHERE of the conditional update.
StartMatches(r) == status = "CREATED" /\ version = req[r].version

StartTx(r) ==
  /\ req[r].at = "start"
  /\ \/ /\ StartMatches(r)
        /\ questions[0] = "none"
        /\ status' = "IN_PROGRESS"
        /\ version' = version + 1
        /\ clock' = "ahead"
        /\ questions' = [questions EXCEPT ![0] = "ACTIVE"]
        /\ stateLog' = Append(stateLog, StartEntry)
        /\ askedLog' = Append(askedLog, 0)
        /\ UNCHANGED report
     \/ /\ ~(StartMatches(r) /\ questions[0] = "none")
        /\ UNCHANGED room
  /\ Respond(r)
  /\ UNCHANGED <<written, scheduled, failures>>

-----------------------------------------------------------------------------
(* cancelInterview                                                         *)

ReadToCancel(r) ==
  /\ req[r].at = "idle"
  /\ status = "CREATED"
  /\ Step(r, [at |-> "cancel"])
  /\ UnchangedRoom

\* MUTANT of CancelMatches: the room is updated by its id alone.
CancelUnconditionally == TRUE

CancelMatches == status = "CREATED"

CancelUpdate(r) ==
  /\ req[r].at = "cancel"
  /\ \/ /\ CancelMatches
        /\ status' = "CANCELLED"
        /\ version' = version + 1
        /\ UNCHANGED <<clock, questions, stateLog, askedLog, report>>
     \/ /\ ~CancelMatches
        /\ UNCHANGED room
  /\ Respond(r)
  /\ UNCHANGED <<written, scheduled, failures>>

-----------------------------------------------------------------------------
(* saveDraft and submitAnswer: the room is read, then the question, and    *)
(* the column is written by the id of the question alone.                  *)

ReadToWrite(r) ==
  /\ req[r].at = "idle"
  /\ AssertActive
  /\ \E p \in Positions, c \in Columns, t \in Texts :
       Step(r, [at |-> "check", pos |-> p, column |-> c, text |-> t])
  /\ UnchangedRoom

\* activeQuestion throws unless the question is ACTIVE.
CheckQuestion(r) ==
  /\ req[r].at = "check"
  /\ IF questions[req[r].pos] = "ACTIVE"
     THEN Step(r, [at |-> "write", pos |-> req[r].pos, column |-> req[r].column,
                   text |-> req[r].text])
     ELSE Respond(r)
  /\ UnchangedRoom

WriteColumn(r) ==
  /\ req[r].at = "write"
  /\ written' = [written EXCEPT ![req[r].pos][req[r].column] = req[r].text]
  /\ Respond(r)
  /\ UNCHANGED <<room, scheduled, failures>>

-----------------------------------------------------------------------------
(* advanceQuestion                                                         *)

\* The tab names the question it shows and how it leaves it.
ReadToAdvance(r) ==
  /\ req[r].at = "idle"
  /\ AssertActive
  /\ \E p \in Positions, c \in Closed :
       Step(r, [at |-> "pick", pos |-> p, as |-> c])
  /\ UnchangedRoom

\* MUTANT of IsLast: the plan ends one question early.
IsLastTooEarly(p) == p + 2 >= QuestionCount

IsLast(p) == p + 1 >= QuestionCount

\* Read the questions.  If the question shown is no longer the current one,
\* the answer is the present state; otherwise the next question is selected
\* (an await on the AI) or, after the last one, the room is to be completed.
PickNext(r) ==
  /\ req[r].at = "pick"
  /\ IF ~IsCurrent(req[r].pos)
     THEN Respond(r)
     ELSE Step(r, [at |-> IF IsLast(req[r].pos) THEN "closeLast" ELSE "advance",
                   pos |-> req[r].pos, as |-> req[r].as])
  /\ UnchangedRoom

\* MUTANT of StillActive: the question is closed by its id alone.
CloseUnconditionally(p) == p \in Positions

\* The WHERE of the update that closes the current question.
StillActive(p) == questions[p] = "ACTIVE"

\* Close the current question, create the next one (the unique index rolls the
\* transaction back if it exists) and count the version up, whatever the
\* status of the room is by now.
AdvanceTx(r) ==
  LET p == req[r].pos IN
  /\ req[r].at = "advance"
  /\ \/ /\ StillActive(p)
        /\ questions[p + 1] = "none"
        /\ questions' = [questions EXCEPT ![p] = req[r].as, ![p + 1] = "ACTIVE"]
        /\ version' = version + 1
        /\ askedLog' = Append(askedLog, p + 1)
        /\ UNCHANGED <<status, clock, stateLog, report>>
     \/ /\ ~(StillActive(p) /\ questions[p + 1] = "none")
        /\ UNCHANGED room
  /\ Respond(r)
  /\ UNCHANGED <<written, scheduled, failures>>

\* The last question is closed by a statement of its own, before completeRoom.
CloseLast(r) ==
  LET p == req[r].pos IN
  /\ req[r].at = "closeLast"
  /\ questions' = IF StillActive(p) THEN [questions EXCEPT ![p] = req[r].as]
                                    ELSE questions
  /\ Step(r, [at |-> "complete", reason |-> "CANDIDATE_FINISHED"])
  /\ UNCHANGED <<status, version, clock, stateLog, askedLog, report, written,
                 scheduled, failures>>

-----------------------------------------------------------------------------
(* completeRoom and its callers                                            *)

\* completeInterview: the candidate finishes early, or late.
ReadToComplete(r) ==
  /\ req[r].at = "idle"
  /\ status = "IN_PROGRESS"
  /\ Step(r, [at |-> "complete",
              reason |-> IF PastDeadline THEN "TIME_EXPIRED" ELSE "CANDIDATE_FINISHED"])
  /\ UnchangedRoom

\* getInterview by anybody, once the deadline has passed.
ReadPastDeadline(r) ==
  /\ req[r].at = "idle"
  /\ status = "IN_PROGRESS"
  /\ PastDeadline
  /\ Step(r, [at |-> "complete", reason |-> "TIME_EXPIRED"])
  /\ UnchangedRoom

\* MUTANT of SweepOverdue: the sweep looks at a window after the deadline only.
SweepRecent ==
  /\ req[Worker].at = "idle"
  /\ status = "IN_PROGRESS"
  /\ clock = "past"
  /\ Step(Worker, [at |-> "complete", reason |-> "TIME_EXPIRED"])
  /\ UnchangedRoom

\* expireOverdueInterviews of the worker, which waits another 30 s.
SweepOverdue ==
  /\ req[Worker].at = "idle"
  /\ status = "IN_PROGRESS"
  /\ clock = "overdue"
  /\ Step(Worker, [at |-> "complete", reason |-> "TIME_EXPIRED"])
  /\ UnchangedRoom

\* MUTANT of CompleteMatches: the room is updated by its id alone.
CompleteUnconditionally == TRUE

\* The WHERE of the conditional update.
CompleteMatches == status = "IN_PROGRESS"

\* MUTANTS of CloseAll: the open questions stay open; they get the status of
\* the room.
CloseNone == questions
CloseLikeRoom == [p \in Positions |-> IF questions[p] = "ACTIVE" THEN "COMPLETED"
                                                                 ELSE questions[p]]

\* Closing the questions that are still open as answered.
CloseAll == [p \in Positions |-> IF questions[p] = "ACTIVE" THEN "ANSWERED"
                                                            ELSE questions[p]]

CompleteTx(a) ==
  /\ req[a].at = "complete"
  /\ \/ /\ CompleteMatches
        /\ status' = "COMPLETED"
        /\ version' = version + 1
        /\ questions' = CloseAll
        /\ report' = "PENDING"
        /\ stateLog' = Append(stateLog, DoneEntry(req[a].reason))
        /\ Step(a, [at |-> "schedule"])
        /\ UNCHANGED <<clock, askedLog>>
     \/ /\ ~CompleteMatches
        /\ Respond(a)
        /\ UNCHANGED room
  /\ UNCHANGED <<written, scheduled, failures>>

\* Read the room again, broadcast, then hand the room to the evaluation.
Schedule(a) ==
  /\ req[a].at = "schedule"
  /\ scheduled' = scheduled + 1
  /\ Respond(a)
  /\ UNCHANGED <<room, written, failures>>

-----------------------------------------------------------------------------
(* Time and failures                                                       *)

\* Time passes.  After the end of the room nothing reads the clock again.
Tick ==
  /\ status = "IN_PROGRESS"
  /\ clock # "overdue"
  /\ clock' = IF clock = "ahead" THEN "past" ELSE "overdue"
  /\ UNCHANGED <<status, version, questions, stateLog, askedLog, report,
                 written, scheduled, req, failures>>

\* A process dies, is cut off by the platform, or loses the database: what it
\* has committed stays, the rest of its handler never runs.
Fail(a) ==
  /\ req[a].at # "idle"
  /\ failures < MaxFailures
  /\ failures' = failures + 1
  /\ Respond(a)
  /\ UNCHANGED <<room, written, scheduled>>

-----------------------------------------------------------------------------

\* A request arrives.
Arrive(r) ==
  \/ ReadToStart(r) \/ ReadToCancel(r) \/ ReadToWrite(r) \/ ReadToAdvance(r)
  \/ ReadToComplete(r) \/ ReadPastDeadline(r)

\* A request that is in flight goes on.
Continue(r) ==
  \/ StartTx(r) \/ CancelUpdate(r) \/ CheckQuestion(r) \/ WriteColumn(r)
  \/ PickNext(r) \/ AdvanceTx(r) \/ CloseLast(r)
  \/ CompleteTx(r) \/ Schedule(r)

WorkerStep == SweepOverdue \/ CompleteTx(Worker) \/ Schedule(Worker)

Next ==
  \/ \E r \in Requests : Arrive(r) \/ Continue(r)
  \/ WorkerStep
  \/ Tick
  \/ \E a \in Actors : Fail(a)

Spec == Init /\ [][Next]_vars

(***************************************************************************)
(* Time passes, the worker sweeps every minute and a handler that has      *)
(* begun goes on unless its process dies.  Nobody has to open the page or  *)
(* to press a button: Arrive has no fairness.                              *)
(***************************************************************************)
Fairness ==
  /\ WF_vars(Tick)
  /\ WF_vars(WorkerStep)
  /\ \A r \in Requests : WF_vars(Continue(r))

FairSpec == Spec /\ Fairness

-----------------------------------------------------------------------------
(* Correctness                                                             *)

\* However many tabs press "next" at once, at most one question is open, it is
\* the last one asked, and only while the room is in progress: completeRoom and
\* advanceQuestion never leave an open question behind in an ended room.
OneOpenQuestion ==
  \A p \in Positions :
    questions[p] = "ACTIVE" => status = "IN_PROGRESS" /\ p + 1 = Len(askedLog)

\* The questions are asked in the order of the plan, each once, and the log
\* tells exactly which: two advances that both saw the same current question
\* never skip one or ask one twice.
AskedInOrder ==
  /\ \A i \in 1 .. Len(askedLog) : askedLog[i] = i - 1
  /\ \A p \in Positions : questions[p] # "none" <=> p < Len(askedLog)

\* Both at once: the plan is asked in order, each question once, one at a time
\* and only while the room is in progress, whoever advances, completes or
\* expires it meanwhile.
QuestionsInOrder == OneOpenQuestion /\ AskedInOrder

\* "Two tabs or a double click can never apply the same transition twice"
\* (docs/ARCHITECTURE.md): the version counts the transitions of the log, so a
\* transition applied twice, or one that did not count, would show.
VersionCountsTransitions ==
  version = Len(stateLog)
            + (IF askedLog = <<>> THEN 0 ELSE Len(askedLog) - 1)
            + (IF status = "CANCELLED" THEN 1 ELSE 0)

\* The STATE_CHANGED events tell the story of the room: each transition once,
\* in order, and TIME_EXPIRED only if the deadline has really passed (the
\* request that completes the room may have read the clock long before).
LogTellsTheStory ==
  /\ status \in {"CREATED", "CANCELLED"} => stateLog = <<>> /\ askedLog = <<>>
  /\ status = "IN_PROGRESS" => stateLog = <<StartEntry>>
  /\ status = "COMPLETED" =>
       \E why \in Reasons : /\ stateLog = <<StartEntry, DoneEntry(why)>>
                            /\ why = "TIME_EXPIRED" => PastDeadline

\* Both at once: what the version counts and what the log tells is what has
\* happened to the room, no transition twice and none left out.
StoryIsTrue == VersionCountsTransitions /\ LogTellsTheStory

\* "Completing an interview creates the report row in PENDING and schedules
\* evaluation exactly once" (docs/ARCHITECTURE.md): of all the processes that
\* complete the room, one schedules; it is missing only if that process died
\* after its transaction had committed.
ScheduledOnce ==
  LET scheduling == {a \in Actors : req[a].at = "schedule"} IN
  /\ report = "PENDING" <=> status = "COMPLETED"
  /\ scheduled <= 1
  /\ \A a, b \in scheduling : a = b
  /\ scheduling # {} => scheduled = 0 /\ status = "COMPLETED"
  /\ scheduled = 1 => status = "COMPLETED"
  /\ status = "COMPLETED" /\ failures = 0 => scheduled = 1 \/ scheduling # {}

\* A room in progress has an open question, except after the last one, when the
\* request that closed it is about to complete the room or has died on the way:
\* advanceQuestion does these two in two transactions.
OpenUntilTheLast ==
  status = "IN_PROGRESS" /\ (\A p \in Positions : questions[p] # "ACTIVE") =>
    /\ Len(askedLog) = QuestionCount
    /\ failures > 0 \/ \E a \in Actors : req[a].at = "complete"

\* What a handler has read before an await still holds when it goes on, as far
\* as the code relies on it: a room found in progress has not become anything
\* but completed, an advance stays inside the plan, the last question is the
\* last one, and a deadline that has passed does not come back.
HandlersKnow ==
  \A a \in Actors :
    /\ req[a].at \notin {"idle", "start", "cancel"} => status \in {"IN_PROGRESS", "COMPLETED"}
    /\ req[a].at = "advance" => req[a].pos + 1 < QuestionCount
    /\ req[a].at = "closeLast" => req[a].pos + 1 = QuestionCount
    /\ req[a].at = "complete" /\ req[a].reason = "TIME_EXPIRED" => PastDeadline

\* A closed question keeps the outcome it was closed with: no straggler turns a
\* skipped question into an answered one or reopens it.
OutcomeIsFinal ==
  [][\A p \in Positions : questions[p] \in Closed => questions'[p] = questions[p]]_vars

\* Nothing of an ended room changes any more, whatever the handlers in flight
\* had read before it ended: the version counted up unconditionally by
\* advanceQuestion, the status, the questions, the log.
EndIsFinal ==
  [][(status \in {"COMPLETED", "CANCELLED"}) => UNCHANGED room]_vars

\* The room with all its handlers is the room of RoomLifecycle.
Lifecycle == INSTANCE RoomLifecycle WITH
  asked <- Len(askedLog),
  open <- \E p \in Positions : questions[p] = "ACTIVE"

\* Every interleaving of requests, sweeps and failures looks like one line of
\* lifecycle steps: a handler either makes its step or none.
ImplementsLifecycle == Lifecycle!Spec

\* "The worker sweeps overdue interviews every minute" (docs/ARCHITECTURE.md):
\* a room in progress is completed even if nobody ever opens it again, whatever
\* requests died on the way.
InProgressEnds == status = "IN_PROGRESS" ~> status = "COMPLETED"
=============================================================================
