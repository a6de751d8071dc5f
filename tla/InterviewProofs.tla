-------------------------- MODULE InterviewProofs --------------------------
(***************************************************************************)
(* Theorems about Interview, for every number of requests, every length of *)
(* the plan and every number of failures.                                  *)
(***************************************************************************)
EXTENDS Interview, SequenceTheorems, TLAPS

-----------------------------------------------------------------------------
(* Frames                                                                  *)

\* The frames each handler stores.
LEMMA FrameTypes ==
  /\ Idle \in Frames
  /\ \A v \in Nat : [at |-> "start", version |-> v] \in Frames
  /\ [at |-> "cancel"] \in Frames
  /\ [at |-> "schedule"] \in Frames
  /\ \A pt \in {"pick", "advance", "closeLast"}, p \in Positions, c \in Closed :
       [at |-> pt, pos |-> p, as |-> c] \in Frames
  /\ \A pt \in {"check", "write"}, p \in Positions, c \in Columns, t \in Texts :
       [at |-> pt, pos |-> p, column |-> c, text |-> t] \in Frames
  /\ \A why \in Reasons : [at |-> "complete", reason |-> why] \in Frames
  BY DEF Frames, Idle

\* What the frame of a process holds at each point.
LEMMA FrameFields ==
  ASSUME NEW f \in Frames
  PROVE  /\ f.at \in {"pick", "advance", "closeLast"} => f.pos \in Positions /\ f.as \in Closed
         /\ f.at \in {"check", "write"} =>
              f.pos \in Positions /\ f.column \in Columns /\ f.text \in Texts
         /\ f.at = "complete" => f.reason \in Reasons
         /\ f.at = "start" => f.version \in Nat
  BY DEF Frames

\* Moving one process to another point of its handler moves no other.
LEMMA StepMoves ==
  ASSUME req \in [Actors -> Frames], NEW a \in Actors, NEW f \in Frames, Step(a, f)
  PROVE  /\ req' \in [Actors -> Frames]
         /\ req'[a] = f
         /\ \A b \in Actors : b # a => req'[b] = req[b]
  BY DEF Step

-----------------------------------------------------------------------------
(* Types                                                                   *)

\* A step that only reads keeps every type but that of req.
LEMMA ReadKeepsTypes ==
  ASSUME TypeOK, UnchangedRoom, req' \in [Actors -> Frames]
  PROVE  TypeOK'
  BY DEF TypeOK, UnchangedRoom, room

\* Every frame a handler stores is a frame.
LEMMA ReqStep == TypeOK /\ [Next]_vars => req' \in [Actors -> Frames]
<1> SUFFICES ASSUME TypeOK, [Next]_vars PROVE req' \in [Actors -> Frames]
  OBVIOUS
<1> USE StepMoves, FrameTypes
<1>1. CASE UNCHANGED vars
  BY <1>1 DEF TypeOK, vars
<1>2. ASSUME NEW r \in Requests, Arrive(r) PROVE req' \in [Actors -> Frames]
  <2>1. r \in Actors /\ version \in Nat /\ req \in [Actors -> Frames]
    BY DEF TypeOK, Actors
  <2>2. CASE ReadToStart(r)
    BY <2>1, <2>2 DEF ReadToStart
  <2>3. CASE ReadToCancel(r)
    BY <2>1, <2>3 DEF ReadToCancel
  <2>4. CASE ReadToWrite(r)
    BY <2>1, <2>4 DEF ReadToWrite
  <2>5. CASE ReadToAdvance(r)
    BY <2>1, <2>5 DEF ReadToAdvance
  <2>6. CASE ReadToComplete(r)
    BY <2>1, <2>6 DEF ReadToComplete, Reasons
  <2>7. CASE ReadPastDeadline(r)
    BY <2>1, <2>7 DEF ReadPastDeadline, Reasons
  <2> QED
    BY <1>2, <2>2, <2>3, <2>4, <2>5, <2>6, <2>7 DEF Arrive
<1>3. ASSUME NEW a \in Actors, CompleteTx(a) \/ Schedule(a) \/ Fail(a)
      PROVE  req' \in [Actors -> Frames]
  BY <1>3 DEF TypeOK, CompleteTx, Schedule, Fail, Respond
<1>4. ASSUME NEW r \in Requests, Continue(r) PROVE req' \in [Actors -> Frames]
  <2>1. r \in Actors /\ req \in [Actors -> Frames] /\ req[r] \in Frames
    BY DEF TypeOK, Actors
  <2>2. CASE StartTx(r) \/ CancelUpdate(r) \/ WriteColumn(r) \/ AdvanceTx(r)
    BY <2>1, <2>2 DEF StartTx, CancelUpdate, WriteColumn, AdvanceTx, Respond
  <2>3. CASE CheckQuestion(r)
    BY <2>1, <2>3, FrameFields DEF CheckQuestion, Respond
  <2>4. CASE PickNext(r)
    BY <2>1, <2>4, FrameFields DEF PickNext, Respond
  <2>5. CASE CloseLast(r)
    BY <2>1, <2>5 DEF CloseLast, Reasons
  <2> QED
    BY <1>3, <1>4, <2>1, <2>2, <2>3, <2>4, <2>5 DEF Continue
<1>5. CASE SweepOverdue
  BY <1>5 DEF TypeOK, SweepOverdue, Actors, Reasons
<1>6. CASE Tick
  BY <1>6 DEF TypeOK, Tick
<1> QED
  BY <1>1, <1>2, <1>3, <1>4, <1>5, <1>6 DEF Next, WorkerStep, Actors

\* Every variable keeps its type in every step of every handler.
LEMMA TypeStep == TypeOK /\ HandlersKnow /\ [Next]_vars => TypeOK'
<1> SUFFICES ASSUME TypeOK, HandlersKnow, [Next]_vars PROVE TypeOK'
  OBVIOUS
<1>r. req' \in [Actors -> Frames]
  BY ReqStep
<1> USE ConstantsAssumption, <1>r
<1>1. CASE UNCHANGED vars
  BY <1>1 DEF TypeOK, vars, room
<1>2. ASSUME NEW r \in Requests, Arrive(r) PROVE TypeOK'
  BY <1>2, ReadKeepsTypes
     DEF Arrive, ReadToStart, ReadToCancel, ReadToWrite, ReadToAdvance, ReadToComplete,
         ReadPastDeadline
<1>3. ASSUME NEW r \in Requests, StartTx(r) PROVE TypeOK'
  <2>1. 0 \in Positions /\ StartEntry \in LogEntries
    BY DEF Positions, StartEntry, LogEntries
  <2>2. CASE UNCHANGED room
    BY <1>3, <2>2 DEF TypeOK, StartTx, room
  <2>3. CASE ~ UNCHANGED room
    <3>1. questions' \in [Positions -> {"none", "ACTIVE"} \cup Closed]
      BY <1>3, <2>3 DEF TypeOK, StartTx
    <3>a. stateLog' = Append(stateLog, StartEntry) /\ askedLog' = Append(askedLog, 0)
      BY <1>3, <2>3 DEF StartTx
    <3>2. stateLog' \in Seq(LogEntries)
      BY <2>1, <3>a DEF TypeOK
    <3>3. askedLog' \in Seq(Positions)
      BY <2>1, <3>a DEF TypeOK
    <3> QED BY <1>3, <2>3, <3>1, <3>2, <3>3 DEF TypeOK, StartTx
  <2> QED BY <2>2, <2>3
<1>4. ASSUME NEW r \in Requests, AdvanceTx(r) PROVE TypeOK'
  <2>1. req[r].pos + 1 \in Positions /\ req[r].as \in Closed
    BY <1>4, FrameFields DEF TypeOK, AdvanceTx, Actors, Positions, HandlersKnow
  <2>2. CASE UNCHANGED room
    BY <1>4, <2>2 DEF TypeOK, AdvanceTx, room
  <2>3. CASE ~ UNCHANGED room
    <3>1. questions' \in [Positions -> {"none", "ACTIVE"} \cup Closed]
      BY <1>4, <2>1, <2>3 DEF TypeOK, AdvanceTx
    <3>2. askedLog' \in Seq(Positions)
      BY <1>4, <2>1, <2>3 DEF TypeOK, AdvanceTx
    <3> QED BY <1>4, <2>3, <3>1, <3>2 DEF TypeOK, AdvanceTx
  <2> QED BY <2>2, <2>3
<1>5. ASSUME NEW a \in Actors, CompleteTx(a) PROVE TypeOK'
  <2>1. DoneEntry(req[a].reason) \in LogEntries
    BY <1>5, FrameFields DEF TypeOK, CompleteTx, DoneEntry, LogEntries
  <2>2. CloseAll \in [Positions -> {"none", "ACTIVE"} \cup Closed]
    BY DEF TypeOK, CloseAll, Closed
  <2>3. CASE UNCHANGED room
    BY <1>5, <2>3 DEF TypeOK, CompleteTx, room
  <2>4. CASE ~ UNCHANGED room
    <3>1. stateLog' \in Seq(LogEntries)
      BY <1>5, <2>1, <2>4 DEF TypeOK, CompleteTx
    <3> QED BY <1>5, <2>2, <2>4, <3>1 DEF TypeOK, CompleteTx
  <2> QED BY <2>3, <2>4
<1>6. ASSUME NEW r \in Requests, CancelUpdate(r) PROVE TypeOK'
  BY <1>6 DEF TypeOK, CancelUpdate, room
<1>7. ASSUME NEW r \in Requests, CheckQuestion(r) \/ PickNext(r) PROVE TypeOK'
  BY <1>7, ReadKeepsTypes DEF CheckQuestion, PickNext
<1>8. ASSUME NEW r \in Requests, WriteColumn(r) PROVE TypeOK'
  <2>1. req[r].pos \in Positions /\ req[r].column \in Columns /\ req[r].text \in Texts
    BY <1>8, FrameFields DEF TypeOK, WriteColumn, Actors
  <2> QED BY <1>8, <2>1 DEF TypeOK, WriteColumn, room
<1>9. ASSUME NEW r \in Requests, CloseLast(r) PROVE TypeOK'
  <2>1. req[r].as \in Closed
    BY <1>9, FrameFields DEF TypeOK, CloseLast, Actors
  <2> QED BY <1>9, <2>1 DEF TypeOK, CloseLast
<1>10. CASE SweepOverdue
  BY <1>10, ReadKeepsTypes DEF SweepOverdue
<1>11. ASSUME NEW a \in Actors, Schedule(a) PROVE TypeOK'
  BY <1>11 DEF TypeOK, Schedule, room
<1>12. CASE Tick
  BY <1>12 DEF TypeOK, Tick
<1>13. ASSUME NEW a \in Actors, Fail(a) PROVE TypeOK'
  BY <1>13 DEF TypeOK, Fail, room
<1> QED
  BY <1>1, <1>2, <1>3, <1>4, <1>5, <1>6, <1>7, <1>8, <1>9, <1>10, <1>11, <1>12, <1>13
     DEF Next, Continue, WorkerStep, Actors

-----------------------------------------------------------------------------
(* The steps that change the room                                          *)

Started ==
  /\ status = "CREATED"
  /\ status' = "IN_PROGRESS"
  /\ version' = version + 1
  /\ clock' = "ahead"
  /\ questions' = [questions EXCEPT ![0] = "ACTIVE"]
  /\ stateLog' = Append(stateLog, StartEntry)
  /\ askedLog' = Append(askedLog, 0)
  /\ UNCHANGED report

Cancelled ==
  /\ status = "CREATED"
  /\ status' = "CANCELLED"
  /\ version' = version + 1
  /\ UNCHANGED <<clock, questions, stateLog, askedLog, report>>

Advanced(p, outcome) ==
  /\ p + 1 < QuestionCount
  /\ questions[p] = "ACTIVE"
  /\ questions' = [questions EXCEPT ![p] = outcome, ![p + 1] = "ACTIVE"]
  /\ version' = version + 1
  /\ askedLog' = Append(askedLog, p + 1)
  /\ UNCHANGED <<status, clock, stateLog, report>>

LastClosed(p, outcome) ==
  /\ p + 1 = QuestionCount
  /\ questions[p] = "ACTIVE"
  /\ questions' = [questions EXCEPT ![p] = outcome]
  /\ UNCHANGED <<status, version, clock, stateLog, askedLog, report>>

Completed(why) ==
  /\ status = "IN_PROGRESS"
  /\ why = "TIME_EXPIRED" => PastDeadline
  /\ status' = "COMPLETED"
  /\ version' = version + 1
  /\ questions' = CloseAll
  /\ report' = "PENDING"
  /\ stateLog' = Append(stateLog, DoneEntry(why))
  /\ UNCHANGED <<clock, askedLog>>

Ticked ==
  /\ status = "IN_PROGRESS"
  /\ PastDeadline'
  /\ UNCHANGED <<status, version, questions, stateLog, askedLog, report>>

RoomStep ==
  \/ UNCHANGED room
  \/ Started
  \/ Cancelled
  \/ \E p \in Positions, outcome \in Closed : Advanced(p, outcome) \/ LastClosed(p, outcome)
  \/ \E why \in Reasons : Completed(why)
  \/ Ticked

\* Whatever the processes do, the room makes one of these steps or none.
LEMMA RoomSteps == TypeOK /\ HandlersKnow /\ [Next]_vars => RoomStep
<1> SUFFICES ASSUME TypeOK, HandlersKnow, [Next]_vars PROVE RoomStep
  OBVIOUS
<1> USE DEF RoomStep
<1>1. CASE UNCHANGED vars
  BY <1>1 DEF vars, room
<1>2. ASSUME NEW r \in Requests, Arrive(r) PROVE RoomStep
  BY <1>2 DEF Arrive, ReadToStart, ReadToCancel, ReadToWrite, ReadToAdvance, ReadToComplete,
         ReadPastDeadline, UnchangedRoom, room
<1>3. ASSUME NEW r \in Requests, StartTx(r) PROVE RoomStep
  BY <1>3 DEF StartTx, StartMatches, Started
<1>4. ASSUME NEW r \in Requests, CancelUpdate(r) PROVE RoomStep
  BY <1>4 DEF CancelUpdate, CancelMatches, Cancelled
<1>5. ASSUME NEW r \in Requests, AdvanceTx(r) PROVE RoomStep
  <2>1. /\ req[r].pos \in Positions /\ req[r].as \in Closed
        /\ req[r].pos + 1 < QuestionCount
    BY <1>5, FrameFields DEF TypeOK, AdvanceTx, Actors, HandlersKnow
  <2> QED BY <1>5, <2>1 DEF AdvanceTx, StillActive, Advanced
<1>6. ASSUME NEW r \in Requests, CloseLast(r) PROVE RoomStep
  <2>1. /\ req[r].pos \in Positions /\ req[r].as \in Closed
        /\ req[r].pos + 1 = QuestionCount
    BY <1>6, FrameFields DEF TypeOK, CloseLast, Actors, HandlersKnow
  <2> QED BY <1>6, <2>1 DEF CloseLast, StillActive, LastClosed, room
<1>7. ASSUME NEW a \in Actors, CompleteTx(a) PROVE RoomStep
  <2>1. /\ req[a].reason \in Reasons
        /\ req[a].reason = "TIME_EXPIRED" => PastDeadline
    BY <1>7, FrameFields DEF TypeOK, CompleteTx, HandlersKnow
  <2> QED BY <1>7, <2>1 DEF CompleteTx, CompleteMatches, Completed
<1>8. ASSUME NEW r \in Requests, CheckQuestion(r) \/ PickNext(r) \/ WriteColumn(r)
      PROVE  RoomStep
  BY <1>8 DEF CheckQuestion, PickNext, WriteColumn, UnchangedRoom, room
<1>9. CASE SweepOverdue
  BY <1>9 DEF SweepOverdue, UnchangedRoom, room
<1>10. ASSUME NEW a \in Actors, Schedule(a) \/ Fail(a) PROVE RoomStep
  BY <1>10 DEF Schedule, Fail, room
<1>11. CASE Tick
  BY <1>11 DEF Tick, Ticked, PastDeadline
<1> QED
  BY <1>1, <1>2, <1>3, <1>4, <1>5, <1>6, <1>7, <1>8, <1>9, <1>10, <1>11
     DEF Next, Continue, WorkerStep, Actors

-----------------------------------------------------------------------------
(* The inductive invariant                                                 *)

\* The part of it that speaks of the room alone.
RoomInv ==
  /\ OneOpenQuestion
  /\ AskedInOrder
  /\ VersionCountsTransitions
  /\ LogTellsTheStory

Inductive == TypeOK /\ HandlersKnow /\ RoomInv /\ ScheduledOnce /\ OpenUntilTheLast

LEMMA InitInductive == Init => Inductive
<1> SUFFICES ASSUME Init PROVE Inductive
  OBVIOUS
<1> USE DEF Init
<1>1. TypeOK
  BY ConstantsAssumption, FrameTypes DEF TypeOK
<1>2. HandlersKnow
  BY DEF HandlersKnow, Idle
<1>3. RoomInv
  BY ConstantsAssumption
     DEF RoomInv, OneOpenQuestion, AskedInOrder, VersionCountsTransitions,
         LogTellsTheStory, Positions
<1>4. ScheduledOnce
  BY DEF ScheduledOnce, Idle
<1>5. OpenUntilTheLast
  BY DEF OpenUntilTheLast
<1> QED
  BY <1>1, <1>2, <1>3, <1>4, <1>5 DEF Inductive

\* What has been asked is a prefix of the plan in every step of the room.
LEMMA AskedStep ==
  TypeOK /\ RoomInv /\ RoomStep => (OneOpenQuestion /\ AskedInOrder)'
<1> SUFFICES ASSUME TypeOK, RoomInv, RoomStep PROVE (OneOpenQuestion /\ AskedInOrder)'
  OBVIOUS
<1> USE ConstantsAssumption DEF RoomInv, OneOpenQuestion, AskedInOrder, TypeOK, Positions
<1>1. CASE UNCHANGED room
  BY <1>1 DEF room
<1>2. CASE Started
  <2>1. askedLog = <<>>
    BY <1>2 DEF Started, LogTellsTheStory
  <2>2. askedLog' = <<0>>
    BY <1>2, <2>1 DEF Started
  <2> QED
    BY <1>2, <2>1, <2>2 DEF Started
<1>3. CASE Cancelled
  <2>1. askedLog = <<>>
    BY <1>3 DEF Cancelled, LogTellsTheStory
  <2> QED
    BY <1>3, <2>1 DEF Cancelled
<1>4. ASSUME NEW p \in Positions, NEW c \in Closed, Advanced(p, c)
      PROVE  (OneOpenQuestion /\ AskedInOrder)'
  <2>1. /\ status = "IN_PROGRESS"
        /\ Len(askedLog) = p + 1
        /\ askedLog \in Seq(Positions)
    BY <1>4 DEF Advanced
  <2>2. /\ Len(askedLog') = p + 2
        /\ \A i \in 1 .. p + 1 : askedLog'[i] = i - 1
        /\ askedLog'[p + 2] = p + 1
    BY <1>4, <2>1 DEF Advanced
  <2>3. /\ questions'[p] = c /\ questions'[p + 1] = "ACTIVE"
        /\ \A q \in Positions : q # p /\ q # p + 1 => questions'[q] = questions[q]
    BY <1>4 DEF Advanced
  <2>4. c # "ACTIVE" /\ c # "none"
    BY DEF Closed
  <2>5. OneOpenQuestion'
    BY <1>4, <2>1, <2>2, <2>3, <2>4 DEF Advanced
  <2>6. AskedInOrder'
    BY <1>4, <2>1, <2>2, <2>3, <2>4 DEF Advanced
  <2> QED
    BY <2>5, <2>6
<1>5. ASSUME NEW p \in Positions, NEW c \in Closed, LastClosed(p, c)
      PROVE  (OneOpenQuestion /\ AskedInOrder)'
  BY <1>5 DEF LastClosed, Closed
<1>6. ASSUME NEW why \in Reasons, Completed(why) PROVE (OneOpenQuestion /\ AskedInOrder)'
  BY <1>6 DEF Completed, CloseAll
<1>7. CASE Ticked
  BY <1>7 DEF Ticked
<1> QED
  BY <1>1, <1>2, <1>3, <1>4, <1>5, <1>6, <1>7 DEF RoomStep

\* A log of one entry becomes a log of two.
LEMMA AppendToOne ==
  ASSUME NEW S, NEW x \in S, NEW y \in S
  PROVE  Append(<<x>>, y) = <<x, y>>
<1>1. <<x>> \in Seq(S) /\ Len(<<x>>) = 1 /\ <<x>>[1] = x
  OBVIOUS
<1>2. /\ Append(<<x>>, y) \in Seq(S) /\ Len(Append(<<x>>, y)) = 2
      /\ Append(<<x>>, y)[1] = x /\ Append(<<x>>, y)[2] = y
  BY <1>1, AppendProperties
<1>3. /\ <<x, y>> \in Seq(S) /\ Len(<<x, y>>) = 2
      /\ <<x, y>>[1] = x /\ <<x, y>>[2] = y
  OBVIOUS
<1>4. ASSUME NEW s \in Seq(S), NEW t \in Seq(S), Len(s) = 2, Len(t) = 2,
             s[1] = t[1], s[2] = t[2]
      PROVE  s = t
  <2>1. \A i \in 1 .. Len(s) : s[i] = t[i]
    BY <1>4
  <2> QED
    BY <1>4, <2>1, SeqEqual
<1> QED
  BY <1>2, <1>3, <1>4, Zenon

\* The version and the log of state changes keep telling the same story.
LEMMA StoryStep ==
  TypeOK /\ RoomInv /\ RoomStep => (VersionCountsTransitions /\ LogTellsTheStory)'
<1> SUFFICES ASSUME TypeOK, RoomInv, RoomStep
             PROVE  (VersionCountsTransitions /\ LogTellsTheStory)'
  OBVIOUS
<1> USE ConstantsAssumption DEF RoomInv, VersionCountsTransitions, LogTellsTheStory
<1>1. CASE UNCHANGED room
  BY <1>1 DEF room, PastDeadline
<1>2. CASE Started
  <2>1. /\ stateLog = <<>> /\ askedLog = <<>> /\ version = 0
    BY <1>2 DEF Started
  <2>2. /\ stateLog' = <<StartEntry>> /\ askedLog' = <<0>>
    BY <1>2, <2>1 DEF Started
  <2> QED
    BY <1>2, <2>1, <2>2 DEF Started
<1>3. CASE Cancelled
  <2>1. /\ stateLog = <<>> /\ askedLog = <<>> /\ version = 0
    BY <1>3 DEF Cancelled
  <2> QED
    BY <1>3, <2>1 DEF Cancelled
<1>4. ASSUME NEW p \in Positions, NEW c \in Closed, Advanced(p, c)
      PROVE  (VersionCountsTransitions /\ LogTellsTheStory)'
  <2>1. /\ status = "IN_PROGRESS"
        /\ Len(askedLog) = p + 1
        /\ askedLog \in Seq(Positions)
    BY <1>4 DEF Advanced, OneOpenQuestion, TypeOK
  <2>2. Len(askedLog') = p + 2 /\ askedLog' # <<>> /\ askedLog # <<>>
    BY <1>4, <2>1 DEF Advanced, Positions
  <2>3. VersionCountsTransitions'
    <3>1. version = Len(stateLog) + p
      BY <2>1, <2>2 DEF Positions
    <3>2. version' = Len(stateLog') + p + 1 /\ status' = "IN_PROGRESS"
      BY <1>4, <2>1, <3>1 DEF Advanced, Positions, TypeOK
    <3> QED
      BY <2>2, <3>2 DEF Positions
  <2>4. LogTellsTheStory'
    BY <1>4, <2>1 DEF Advanced
  <2> QED
    BY <2>3, <2>4
<1>5. ASSUME NEW p \in Positions, NEW c \in Closed, LastClosed(p, c)
      PROVE  (VersionCountsTransitions /\ LogTellsTheStory)'
  BY <1>5 DEF LastClosed, PastDeadline
<1>6. ASSUME NEW why \in Reasons, Completed(why)
      PROVE  (VersionCountsTransitions /\ LogTellsTheStory)'
  <2>1. stateLog = <<StartEntry>>
    BY <1>6 DEF Completed
  <2>a. StartEntry \in LogEntries /\ DoneEntry(why) \in LogEntries
    BY DEF StartEntry, DoneEntry, LogEntries
  <2>2. /\ stateLog' = <<StartEntry, DoneEntry(why)>>
    BY <1>6, <2>1, <2>a, AppendToOne DEF Completed
  <2>3. Len(stateLog) = 1 /\ Len(stateLog') = 2
    BY <2>1, <2>2
  <2>4. VersionCountsTransitions'
    BY <1>6, <2>3 DEF Completed, TypeOK
  <2>5. LogTellsTheStory'
    BY <1>6, <2>2 DEF Completed, PastDeadline
  <2> QED
    BY <2>4, <2>5
<1>7. CASE Ticked
  BY <1>7 DEF Ticked
<1> QED
  BY <1>1, <1>2, <1>3, <1>4, <1>5, <1>6, <1>7 DEF RoomStep

-----------------------------------------------------------------------------
(* What the handlers know                                                  *)

\* HandlersKnow, of one frame.
Knows(f) ==
  /\ f.at \notin {"idle", "start", "cancel"} => status \in {"IN_PROGRESS", "COMPLETED"}
  /\ f.at = "advance" => f.pos + 1 < QuestionCount
  /\ f.at = "closeLast" => f.pos + 1 = QuestionCount
  /\ f.at = "complete" /\ f.reason = "TIME_EXPIRED" => PastDeadline

\* No step of the room makes what a handler knows wrong.
LEMMA KnowledgeLasts ==
  ASSUME TypeOK, RoomStep, NEW f \in Frames, Knows(f)
  PROVE  Knows(f)'
<1> USE DEF Knows, PastDeadline
<1>1. CASE UNCHANGED room
  BY <1>1 DEF room
<1>2. CASE Started
  BY <1>2 DEF Started
<1>3. CASE Cancelled
  BY <1>3 DEF Cancelled
<1>4. ASSUME NEW p \in Positions, NEW c \in Closed, Advanced(p, c) \/ LastClosed(p, c)
      PROVE  Knows(f)'
  BY <1>4 DEF Advanced, LastClosed
<1>5. ASSUME NEW why \in Reasons, Completed(why) PROVE Knows(f)'
  BY <1>5 DEF Completed
<1>6. CASE Ticked
  BY <1>6 DEF Ticked
<1> QED
  BY <1>1, <1>2, <1>3, <1>4, <1>5, <1>6 DEF RoomStep

\* A process moves only to a frame whose knowledge holds when it moves.
LEMMA FrameIsKnown ==
  TypeOK /\ HandlersKnow /\ [Next]_vars =>
    \A b \in Actors : \E f \in Frames : req'[b] = f /\ Knows(f)
<1> SUFFICES ASSUME TypeOK, HandlersKnow, [Next]_vars, NEW b \in Actors
             PROVE  \E f \in Frames : req'[b] = f /\ Knows(f)
  OBVIOUS
<1>f. /\ req \in [Actors -> Frames]
      /\ \A a \in Actors : req[a] \in Frames /\ Knows(req[a])
  BY DEF TypeOK, HandlersKnow, Knows
<1>g. ASSUME NEW a \in Actors, NEW f \in Frames, Step(a, f), Knows(f)
      PROVE  \E g \in Frames : req'[b] = g /\ Knows(g)
  <2>1. req'[a] = f /\ (b # a => req'[b] = req[b])
    BY <1>f, <1>g, StepMoves
  <2> QED BY <1>f, <1>g, <2>1
<1>i. Knows(Idle)
  BY DEF Knows, Idle
<1>1. CASE UNCHANGED vars
  BY <1>1, <1>f DEF vars
<1>2. ASSUME NEW r \in Requests, Arrive(r)
      PROVE  \E f \in Frames : req'[b] = f /\ Knows(f)
  <2>0. r \in Actors /\ version \in Nat
    BY DEF Actors, TypeOK
  <2>1. CASE ReadToStart(r)
    <3> DEFINE f == [at |-> "start", version |-> version]
    <3>1. f \in Frames /\ Knows(f)
      BY <2>0, FrameTypes DEF Knows
    <3> QED BY <1>g, <2>0, <2>1, <3>1 DEF ReadToStart
  <2>2. CASE ReadToCancel(r)
    <3> DEFINE f == [at |-> "cancel"]
    <3>1. f \in Frames /\ Knows(f)
      BY FrameTypes DEF Knows
    <3> QED BY <1>g, <2>0, <2>2, <3>1 DEF ReadToCancel
  <2>3. CASE ReadToWrite(r)
    <3>1. PICK p \in Positions, c \in Columns, t \in Texts :
            Step(r, [at |-> "check", pos |-> p, column |-> c, text |-> t])
      BY <2>3 DEF ReadToWrite
    <3> DEFINE f == [at |-> "check", pos |-> p, column |-> c, text |-> t]
    <3>2. f \in Frames
      BY FrameTypes
    <3>3. Knows(f)
      BY <2>3 DEF Knows, ReadToWrite, AssertActive
    <3> QED BY <1>g, <2>0, <3>1, <3>2, <3>3
  <2>4. CASE ReadToAdvance(r)
    <3>1. PICK p \in Positions, c \in Closed : Step(r, [at |-> "pick", pos |-> p, as |-> c])
      BY <2>4 DEF ReadToAdvance
    <3> DEFINE f == [at |-> "pick", pos |-> p, as |-> c]
    <3>2. f \in Frames
      BY FrameTypes
    <3>3. Knows(f)
      BY <2>4 DEF Knows, ReadToAdvance, AssertActive
    <3> QED BY <1>g, <2>0, <3>1, <3>2, <3>3
  <2>5. CASE ReadToComplete(r)
    <3> DEFINE why == IF PastDeadline THEN "TIME_EXPIRED" ELSE "CANDIDATE_FINISHED"
               f == [at |-> "complete", reason |-> why]
    <3>1. f \in Frames
      <4>1. why \in Reasons
        BY DEF Reasons
      <4> HIDE DEF why
      <4> QED BY <4>1, FrameTypes
    <3>2. Knows(f)
      BY <2>5 DEF Knows, ReadToComplete
    <3> QED BY <1>g, <2>0, <2>5, <3>1, <3>2 DEF ReadToComplete
  <2>6. CASE ReadPastDeadline(r)
    <3> DEFINE f == [at |-> "complete", reason |-> "TIME_EXPIRED"]
    <3>1. f \in Frames /\ Knows(f)
      BY <2>6, FrameTypes DEF Knows, ReadPastDeadline, Reasons
    <3> QED BY <1>g, <2>0, <2>6, <3>1 DEF ReadPastDeadline
  <2> QED
    BY <1>2, <2>1, <2>2, <2>3, <2>4, <2>5, <2>6 DEF Arrive
<1>3. ASSUME NEW a \in Actors, CompleteTx(a) \/ Schedule(a) \/ Fail(a)
      PROVE  \E f \in Frames : req'[b] = f /\ Knows(f)
  <2>1. CASE Step(a, Idle)
    BY <1>g, <1>i, <2>1, FrameTypes
  <2>2. CASE Step(a, [at |-> "schedule"]) /\ status = "IN_PROGRESS"
    <3> DEFINE f == [at |-> "schedule"]
    <3>1. f \in Frames /\ Knows(f)
      BY <2>2, FrameTypes DEF Knows
    <3> QED BY <1>g, <2>2, <3>1
  <2> QED
    BY <1>3, <2>1, <2>2 DEF CompleteTx, CompleteMatches, Schedule, Fail, Respond
<1>4. ASSUME NEW r \in Requests, Continue(r)
      PROVE  \E f \in Frames : req'[b] = f /\ Knows(f)
  <2>0. r \in Actors /\ req[r] \in Frames /\ Knows(req[r])
    BY <1>f DEF Actors
  <2>1. CASE Step(r, Idle)
    BY <1>g, <1>i, <2>0, <2>1, FrameTypes
  <2>2. CASE CheckQuestion(r) /\ ~ Step(r, Idle)
    <3> DEFINE f == [at |-> "write", pos |-> req[r].pos, column |-> req[r].column,
                     text |-> req[r].text]
    <3>1. f \in Frames
      BY <2>0, <2>2, FrameFields, FrameTypes DEF CheckQuestion
    <3>2. Knows(f)
      BY <2>0, <2>2 DEF Knows, CheckQuestion
    <3> QED BY <1>g, <2>0, <2>2, <3>1, <3>2 DEF CheckQuestion, Respond
  <2>3. CASE PickNext(r) /\ ~ Step(r, Idle)
    <3> DEFINE pt == IF IsLast(req[r].pos) THEN "closeLast" ELSE "advance"
               f == [at |-> pt, pos |-> req[r].pos, as |-> req[r].as]
    <3>0. req[r].pos \in Positions /\ req[r].as \in Closed
      BY <2>0, <2>3, FrameFields DEF PickNext
    <3>1. f \in Frames
      BY <3>0, FrameTypes
    <3>2. Knows(f)
      BY <2>0, <2>3, <3>0, ConstantsAssumption DEF Knows, PickNext, IsLast, Positions
    <3> QED BY <1>g, <2>0, <2>3, <3>1, <3>2 DEF PickNext, Respond
  <2>4. CASE CloseLast(r)
    <3> DEFINE f == [at |-> "complete", reason |-> "CANDIDATE_FINISHED"]
    <3>1. f \in Frames
      BY FrameTypes DEF Reasons
    <3>2. Knows(f)
      BY <2>0, <2>4 DEF Knows, CloseLast
    <3> QED BY <1>g, <2>0, <2>4, <3>1, <3>2 DEF CloseLast
  <2>5. CASE CompleteTx(r) \/ Schedule(r)
    BY <1>3, <2>0, <2>5
  <2> QED
    BY <1>4, <2>1, <2>2, <2>3, <2>4, <2>5
       DEF Continue, StartTx, CancelUpdate, WriteColumn, AdvanceTx, Respond
<1>5. CASE SweepOverdue
  <2> DEFINE f == [at |-> "complete", reason |-> "TIME_EXPIRED"]
  <2>1. f \in Frames /\ Knows(f)
    BY <1>5, FrameTypes DEF Knows, SweepOverdue, Reasons, PastDeadline
  <2>2. Worker \in Actors
    BY DEF Actors
  <2> QED BY <1>5, <1>g, <2>1, <2>2 DEF SweepOverdue
<1>6. CASE Tick
  BY <1>6, <1>f DEF Tick
<1> QED
  BY <1>1, <1>2, <1>3, <1>4, <1>5, <1>6 DEF Next, WorkerStep, Actors

\* HandlersKnow holds after every step.
LEMMA KnowledgeStep == TypeOK /\ HandlersKnow /\ [Next]_vars => HandlersKnow'
<1> SUFFICES ASSUME TypeOK, HandlersKnow, [Next]_vars, NEW b \in Actors
             PROVE  Knows(req[b])'
  BY DEF HandlersKnow, Knows
<1>1. RoomStep
  BY RoomSteps
<1>2. PICK f \in Frames : req'[b] = f /\ Knows(f)
  BY FrameIsKnown
<1>3. Knows(f)'
  BY <1>1, <1>2, KnowledgeLasts
<1> QED
  BY <1>2, <1>3 DEF Knows

-----------------------------------------------------------------------------
(* Completing and scheduling                                               *)

\* Only completeRoom, scheduleEvaluation and the death of a process take a
\* process to or from the points around the completion, but for those that are
\* about to complete the room and become more.
LEMMA OthersKeep ==
  ASSUME TypeOK, [Next]_vars,
         ~ \E a \in Actors : CompleteTx(a) \/ Schedule(a) \/ Fail(a)
  PROVE  /\ \A b \in Actors : /\ req[b].at = "complete" => req'[b].at = "complete"
                              /\ req[b].at = "schedule" <=> req'[b].at = "schedule"
         /\ UNCHANGED <<scheduled, failures>>
<1> DEFINE Kept == /\ \A b \in Actors : /\ req[b].at = "complete" => req'[b].at = "complete"
                                        /\ req[b].at = "schedule" <=> req'[b].at = "schedule"
                   /\ UNCHANGED <<scheduled, failures>>
<1>f. req \in [Actors -> Frames]
  BY DEF TypeOK
<1>g. ASSUME NEW a \in Actors, NEW f, Step(a, f), f.at # "schedule",
             req[a].at \notin {"complete", "schedule"}, UNCHANGED <<scheduled, failures>>
      PROVE  Kept
  BY <1>f, <1>g DEF Step
<1>1. CASE UNCHANGED vars
  BY <1>1 DEF vars
<1>2. ASSUME NEW r \in Requests, Arrive(r) PROVE Kept
  <2>1. r \in Actors
    BY DEF Actors
  <2>2. req[r].at = "idle" /\ UNCHANGED <<scheduled, failures>>
    BY <1>2 DEF Arrive, ReadToStart, ReadToCancel, ReadToWrite, ReadToAdvance,
                ReadToComplete, ReadPastDeadline, UnchangedRoom
  <2>3. \E f : Step(r, f) /\ f.at # "schedule"
    <3>1. CASE ReadToStart(r)
      BY <3>1 DEF ReadToStart
    <3>2. CASE ReadToCancel(r)
      BY <3>2 DEF ReadToCancel
    <3>3. CASE ReadToWrite(r)
      BY <3>3 DEF ReadToWrite
    <3>4. CASE ReadToAdvance(r)
      BY <3>4 DEF ReadToAdvance
    <3>5. CASE ReadToComplete(r)
      BY <3>5 DEF ReadToComplete
    <3>6. CASE ReadPastDeadline(r)
      BY <3>6 DEF ReadPastDeadline
    <3> QED BY <1>2, <3>1, <3>2, <3>3, <3>4, <3>5, <3>6 DEF Arrive
  <2> QED BY <1>g, <2>1, <2>2, <2>3
<1>3. ASSUME NEW r \in Requests, Continue(r) PROVE Kept
  <2>1. r \in Actors
    BY DEF Actors
  <2>2. ~ CompleteTx(r) /\ ~ Schedule(r)
    BY <2>1
  <2>3. req[r].at \notin {"complete", "schedule"} /\ UNCHANGED <<scheduled, failures>>
    BY <1>3, <2>2 DEF Continue, StartTx, CancelUpdate, CheckQuestion, WriteColumn, PickNext,
                      AdvanceTx, CloseLast, UnchangedRoom
  <2>4. \E f : Step(r, f) /\ f.at # "schedule"
    <3>1. CASE Step(r, Idle)
      BY <3>1 DEF Idle
    <3>2. CASE CheckQuestion(r) /\ ~ Step(r, Idle)
      BY <3>2 DEF CheckQuestion, Respond
    <3>3. CASE PickNext(r) /\ ~ Step(r, Idle)
      BY <3>3 DEF PickNext, Respond
    <3>4. CASE CloseLast(r)
      BY <3>4 DEF CloseLast
    <3> QED
      BY <1>3, <2>2, <3>1, <3>2, <3>3, <3>4
         DEF Continue, StartTx, CancelUpdate, WriteColumn, AdvanceTx, Respond
  <2> QED BY <1>g, <2>1, <2>3, <2>4
<1>4. CASE SweepOverdue
  <2>1. Worker \in Actors
    BY DEF Actors
  <2>2. \E f : Step(Worker, f) /\ f.at # "schedule"
    BY <1>4 DEF SweepOverdue
  <2> QED BY <1>4, <1>g, <2>1, <2>2 DEF SweepOverdue, UnchangedRoom
<1>5. CASE Tick
  BY <1>5 DEF Tick
<1> QED
  BY <1>1, <1>2, <1>3, <1>4, <1>5 DEF Next, WorkerStep, Actors

\* One process schedules, whichever of them complete the room together.
LEMMA ScheduledStep == TypeOK /\ HandlersKnow /\ ScheduledOnce /\ [Next]_vars => ScheduledOnce'
<1> SUFFICES ASSUME TypeOK, HandlersKnow, ScheduledOnce, [Next]_vars PROVE ScheduledOnce'
  OBVIOUS
<1> DEFINE Scheduling(a) == req[a].at = "schedule"
<1>s. /\ report = "PENDING" <=> status = "COMPLETED"
      /\ scheduled \in Nat /\ scheduled <= 1
      /\ \A a, b \in Actors : Scheduling(a) /\ Scheduling(b) => a = b
      /\ \A a \in Actors : Scheduling(a) => scheduled = 0 /\ status = "COMPLETED"
      /\ scheduled = 1 => status = "COMPLETED"
      /\ status = "COMPLETED" /\ failures = 0 =>
           scheduled = 1 \/ \E a \in Actors : Scheduling(a)
  BY DEF ScheduledOnce, TypeOK
<1>q. ASSUME /\ report' = "PENDING" <=> status' = "COMPLETED"
             /\ scheduled' <= 1
             /\ \A a, b \in Actors : Scheduling(a)' /\ Scheduling(b)' => a = b
             /\ \A a \in Actors : Scheduling(a)' => scheduled' = 0 /\ status' = "COMPLETED"
             /\ scheduled' = 1 => status' = "COMPLETED"
             /\ status' = "COMPLETED" /\ failures' = 0 =>
                  scheduled' = 1 \/ \E a \in Actors : Scheduling(a)'
      PROVE  ScheduledOnce'
  BY <1>q DEF ScheduledOnce
<1>f. req \in [Actors -> Frames] /\ Idle \in Frames /\ [at |-> "schedule"] \in Frames
  BY FrameTypes DEF TypeOK
<1>1. ASSUME NEW a \in Actors, CompleteTx(a) PROVE ScheduledOnce'
  <2>1. CASE CompleteMatches
    <3>1. /\ status = "IN_PROGRESS" /\ status' = "COMPLETED" /\ report' = "PENDING"
          /\ scheduled' = scheduled /\ failures' = failures
          /\ Step(a, [at |-> "schedule"])
      BY <1>1, <2>1 DEF CompleteTx, CompleteMatches
    <3>2. Scheduling(a)' /\ \A b \in Actors : Scheduling(b)' => b = a
      BY <1>f, <1>s, <3>1, StepMoves
    <3> HIDE DEF Scheduling
    <3> QED
      BY <1>q, <1>s, <3>1, <3>2
  <2>2. CASE ~ CompleteMatches
    <3>1. /\ UNCHANGED <<status, report, scheduled, failures>>
          /\ ~ Scheduling(a) /\ Step(a, Idle)
      BY <1>1, <2>2 DEF CompleteTx, room, Respond
    <3>2. \A b \in Actors : Scheduling(b)' <=> Scheduling(b)
      BY <1>f, <3>1, StepMoves DEF Idle
    <3> HIDE DEF Scheduling
    <3> QED
      BY <1>q, <1>s, <3>1, <3>2
  <2> QED
    BY <2>1, <2>2
<1>2. ASSUME NEW a \in Actors, Schedule(a) PROVE ScheduledOnce'
  <2>1. /\ UNCHANGED <<status, report, failures>> /\ scheduled' = scheduled + 1
        /\ Scheduling(a) /\ Step(a, Idle)
    BY <1>2 DEF Schedule, room, Respond
  <2>2. \A b \in Actors : ~ Scheduling(b)'
    BY <1>f, <1>s, <2>1, StepMoves DEF Idle
  <2> HIDE DEF Scheduling
  <2> QED
    BY <1>q, <1>s, <2>1, <2>2
<1>3. ASSUME NEW a \in Actors, Fail(a) PROVE ScheduledOnce'
  <2>1. /\ UNCHANGED <<status, report, scheduled>> /\ failures' > 0 /\ Step(a, Idle)
    BY <1>3, ConstantsAssumption DEF Fail, room, Respond, TypeOK
  <2>2. \A b \in Actors : Scheduling(b)' => Scheduling(b)
    BY <1>f, <2>1, StepMoves DEF Idle
  <2> HIDE DEF Scheduling
  <2> QED
    BY <1>q, <1>s, <2>1, <2>2
<1>4. CASE ~ \E a \in Actors : CompleteTx(a) \/ Schedule(a) \/ Fail(a)
  <2>1. /\ UNCHANGED <<scheduled, failures>>
        /\ \A a \in Actors : Scheduling(a)' <=> Scheduling(a)
    BY <1>4, OthersKeep
  <2>2. /\ UNCHANGED report
        /\ status' = "COMPLETED" <=> status = "COMPLETED"
    <3>1. CASE UNCHANGED vars
      BY <3>1 DEF vars, room
    <3>2. ASSUME NEW r \in Requests, Arrive(r) \/ Continue(r)
          PROVE  UNCHANGED report /\ (status' = "COMPLETED" <=> status = "COMPLETED")
      <4>1. ~ CompleteTx(r) /\ ~ Schedule(r)
        BY <1>4 DEF Actors
      <4> QED
        BY <3>2, <4>1
           DEF Arrive, ReadToStart, ReadToCancel, ReadToWrite, ReadToAdvance, ReadToComplete,
               ReadPastDeadline, Continue, StartTx, StartMatches, CancelUpdate,
               CancelMatches, CheckQuestion, WriteColumn, PickNext, AdvanceTx, CloseLast,
               UnchangedRoom, room
    <3>3. CASE SweepOverdue
      BY <3>3 DEF SweepOverdue, UnchangedRoom, room
    <3>4. CASE Tick
      BY <3>4 DEF Tick
    <3> QED
      BY <1>4, <3>1, <3>2, <3>3, <3>4 DEF Next, WorkerStep, Actors
  <2> HIDE DEF Scheduling
  <2> QED
    BY <1>q, <1>s, <2>1, <2>2
<1> QED
  BY <1>1, <1>2, <1>3, <1>4

\* A room in progress without an open question is on its way to the end.
LEMMA OpenStep ==
  TypeOK /\ HandlersKnow /\ RoomInv /\ OpenUntilTheLast /\ [Next]_vars => OpenUntilTheLast'
<1> SUFFICES ASSUME TypeOK, HandlersKnow, RoomInv, OpenUntilTheLast, [Next]_vars,
                    status' = "IN_PROGRESS", \A p \in Positions : questions'[p] # "ACTIVE"
             PROVE  /\ Len(askedLog') = QuestionCount
                    /\ failures' > 0 \/ \E a \in Actors : req'[a].at = "complete"
  BY DEF OpenUntilTheLast
<1> DEFINE Closing == status = "IN_PROGRESS" /\ \A p \in Positions : questions[p] # "ACTIVE"
           Finished == failures > 0 \/ \E a \in Actors : req[a].at = "complete"
<1>a. Closing => Len(askedLog) = QuestionCount /\ Finished
  BY DEF OpenUntilTheLast
<1>f. req \in [Actors -> Frames] /\ failures \in Nat
  BY ConstantsAssumption DEF TypeOK
<1>1. ASSUME NEW r \in Requests, CloseLast(r)
      PROVE  /\ Len(askedLog') = QuestionCount
             /\ failures' > 0 \/ \E a \in Actors : req'[a].at = "complete"
  <2>1. r \in Actors /\ req[r].pos \in Positions
    BY <1>1, <1>f, FrameFields DEF CloseLast, Actors
  <2>2. /\ status = "IN_PROGRESS" /\ askedLog' = askedLog
        /\ req' = [req EXCEPT ![r] = [at |-> "complete", reason |-> "CANDIDATE_FINISHED"]]
    BY <1>1 DEF CloseLast, Step
  <2>3. req'[r].at = "complete"
    BY <1>f, <2>1, <2>2
  <2>4. Len(askedLog) = QuestionCount
    <3>1. CASE questions[req[r].pos] = "ACTIVE"
      <4>1. req[r].pos + 1 = QuestionCount
        BY <1>1, <2>1 DEF HandlersKnow, CloseLast
      <4> QED
        BY <2>1, <3>1, <4>1 DEF RoomInv, OneOpenQuestion
    <3>2. CASE questions[req[r].pos] # "ACTIVE"
      BY <1>1, <1>a, <2>2, <3>2 DEF CloseLast, StillActive
    <3> QED BY <3>1, <3>2
  <2> QED BY <2>1, <2>2, <2>3, <2>4
<1>2. CASE ~ \E r \in Requests : CloseLast(r)
  <2>1. Closing /\ askedLog' = askedLog
    <3>1. RoomStep
      BY RoomSteps
    <3>2. CASE UNCHANGED room
      BY <3>2 DEF room
    <3>3. CASE Started
      BY <3>3, ConstantsAssumption DEF Started, TypeOK, Positions
    <3>4. ASSUME NEW p \in Positions, NEW c \in Closed, Advanced(p, c) PROVE FALSE
      BY <3>4, ConstantsAssumption DEF Advanced, TypeOK, Positions
    <3>5. ASSUME NEW p \in Positions, questions[p] = "ACTIVE", questions' # questions,
                 UNCHANGED <<status, version, askedLog>>
          PROVE  FALSE
      <4>1. ~ UNCHANGED vars
        BY <3>5 DEF vars, room
      <4>2. \A r \in Requests : ~ Arrive(r)
        BY <3>5 DEF Arrive, ReadToStart, ReadToCancel, ReadToWrite, ReadToAdvance,
                    ReadToComplete, ReadPastDeadline, UnchangedRoom, room
      <4>3. version' # version + 1
        BY <3>5 DEF TypeOK
      <4>4. \A a \in Actors : ~ CompleteTx(a) /\ ~ Schedule(a) /\ ~ Fail(a)
        BY <3>5, <4>3 DEF CompleteTx, Schedule, Fail, room
      <4>5. \A r \in Requests : ~ Continue(r)
        BY <1>2, <3>5, <4>3, <4>4
           DEF Continue, StartTx, CancelUpdate, CheckQuestion, WriteColumn, PickNext,
               AdvanceTx, UnchangedRoom, room, Actors
      <4>6. ~ Tick /\ ~ SweepOverdue
        BY <3>5 DEF Tick, SweepOverdue, UnchangedRoom, room
      <4> QED
        BY <4>1, <4>2, <4>4, <4>5, <4>6 DEF Next, WorkerStep, Actors
    <3>6. ASSUME NEW p \in Positions, NEW c \in Closed, LastClosed(p, c)
          PROVE  Closing /\ askedLog' = askedLog
      BY <3>5, <3>6 DEF LastClosed
    <3>7. \A why \in Reasons : ~ Completed(why)
      BY DEF Completed
    <3>8. CASE Cancelled \/ Ticked
      BY <3>8 DEF Cancelled, Ticked
    <3> QED
      BY <3>1, <3>2, <3>3, <3>4, <3>6, <3>7, <3>8 DEF RoomStep
  <2>2. failures' > 0 \/ \E a \in Actors : req'[a].at = "complete"
    <3>1. CASE \E a \in Actors : Fail(a)
      BY <1>f, <3>1 DEF Fail
    <3>2. ASSUME NEW a \in Actors, CompleteTx(a)
          PROVE  failures' > 0 \/ \E b \in Actors : req'[b].at = "complete"
      BY <2>1, <3>2 DEF CompleteTx, CompleteMatches
    <3>3. ASSUME NEW a \in Actors, Schedule(a)
          PROVE  failures' > 0 \/ \E b \in Actors : req'[b].at = "complete"
      <4>1. req[a].at = "schedule" /\ failures' = failures /\ Step(a, Idle)
        BY <3>3 DEF Schedule, Respond
      <4>2. \A b \in Actors : req[b].at = "complete" => req'[b].at = "complete"
        BY <1>f, <4>1, StepMoves, FrameTypes
      <4> QED BY <1>a, <2>1, <4>1, <4>2
    <3>4. CASE ~ \E a \in Actors : CompleteTx(a) \/ Schedule(a) \/ Fail(a)
      <4>1. /\ \A b \in Actors : req[b].at = "complete" => req'[b].at = "complete"
            /\ failures' = failures
        BY <3>4, OthersKeep
      <4> QED BY <1>a, <2>1, <4>1
    <3> QED BY <3>1, <3>2, <3>3, <3>4
  <2> QED BY <1>a, <2>1, <2>2
<1> QED
  BY <1>1, <1>2

-----------------------------------------------------------------------------
(* The theorems                                                            *)

\* Every conjunct of Inductive needs the others to survive a step.
LEMMA InductiveStep == Inductive /\ [Next]_vars => Inductive'
<1> SUFFICES ASSUME Inductive, [Next]_vars PROVE Inductive'
  OBVIOUS
<1>1. TypeOK /\ HandlersKnow /\ RoomInv /\ ScheduledOnce /\ OpenUntilTheLast
  BY DEF Inductive
<1>2. TypeOK' /\ HandlersKnow'
  BY <1>1, TypeStep, KnowledgeStep
<1>3. RoomInv'
  BY <1>1, RoomSteps, AskedStep, StoryStep DEF RoomInv
<1>4. ScheduledOnce' /\ OpenUntilTheLast'
  BY <1>1, ScheduledStep, OpenStep
<1> QED
  BY <1>2, <1>3, <1>4 DEF Inductive

\* The invariant of all the interleavings: the theorems below read off parts of it.
THEOREM InductiveInvariant == Spec => []Inductive
<1>1. Init => Inductive
  BY InitInductive
<1>2. Inductive /\ [Next]_vars => Inductive'
  BY InductiveStep
<1> QED
  BY <1>1, <1>2, PTL DEF Spec

\* Every variable of the room and of its handlers keeps its type.
THEOREM TypeCorrect == Spec => []TypeOK
<1>1. Inductive => TypeOK
  BY DEF Inductive
<1> QED
  BY <1>1, InductiveInvariant, PTL

\* However many tabs advance, finish and expire the room at once: one open
\* question, none left behind by the end, the plan asked in order and once.
THEOREM QuestionsCorrect == Spec => []QuestionsInOrder
<1>1. Inductive => QuestionsInOrder
  BY DEF Inductive, RoomInv, QuestionsInOrder
<1> QED
  BY <1>1, InductiveInvariant, PTL

\* The version counts every transition once and the log tells each once.
THEOREM StoryCorrect == Spec => []StoryIsTrue
<1>1. Inductive => StoryIsTrue
  BY DEF Inductive, RoomInv, StoryIsTrue
<1> QED
  BY <1>1, InductiveInvariant, PTL

\* Of all the processes that complete a room one schedules its evaluation.
THEOREM SchedulesOnce == Spec => []ScheduledOnce
<1>1. Inductive => ScheduledOnce
  BY DEF Inductive
<1> QED
  BY <1>1, InductiveInvariant, PTL

\* A room in progress is never without an open question but on the way to its
\* end, or after a process died on that way.
THEOREM StaysOpen == Spec => []OpenUntilTheLast
<1>1. Inductive => OpenUntilTheLast
  BY DEF Inductive
<1> QED
  BY <1>1, InductiveInvariant, PTL

\* Nothing of an ended room changes, though advanceQuestion updates the room
\* without looking at its status: its question would have to be open.
THEOREM EndsForGood == Spec => EndIsFinal
<1>1. ASSUME Inductive, [Next]_vars, status \in {"COMPLETED", "CANCELLED"}
      PROVE  UNCHANGED room
  <2>1. RoomStep
    BY <1>1, RoomSteps DEF Inductive
  <2>2. \A p \in Positions : questions[p] # "ACTIVE"
    BY <1>1 DEF Inductive, RoomInv, OneOpenQuestion
  <2> QED
    BY <1>1, <2>1, <2>2 DEF RoomStep, Started, Cancelled, Advanced, LastClosed, Completed, Ticked
<1>2. Inductive /\ [Next]_vars
        => [(status \in {"COMPLETED", "CANCELLED"}) => UNCHANGED room]_vars
  BY <1>1
<1> QED
  BY <1>2, InductiveInvariant, PTL DEF Spec, EndIsFinal

\* A question keeps the outcome it was closed with.
THEOREM OutcomesStand == Spec => OutcomeIsFinal
<1>1. ASSUME Inductive, [Next]_vars, NEW p \in Positions, questions[p] \in Closed
      PROVE  questions'[p] = questions[p]
  <2>1. RoomStep
    BY <1>1, RoomSteps DEF Inductive
  <2>2. questions \in [Positions -> {"none", "ACTIVE"} \cup Closed]
    BY <1>1 DEF Inductive, TypeOK
  <2>3. status # "CREATED"
    BY <1>1, <2>2 DEF Inductive, RoomInv, AskedInOrder, LogTellsTheStory, Closed, Positions
  <2>4. ASSUME NEW q \in Positions, NEW c \in Closed, Advanced(q, c)
        PROVE  questions'[p] = questions[p]
    <3>1. q + 1 \in Positions /\ Len(askedLog) = q + 1
      BY <1>1, <2>4, ConstantsAssumption DEF Advanced, Positions, Inductive, RoomInv, OneOpenQuestion
    <3>2. questions[q + 1] = "none"
      BY <1>1, <3>1 DEF Inductive, RoomInv, AskedInOrder, Positions
    <3> QED
      BY <1>1, <2>2, <2>4, <3>1, <3>2 DEF Advanced, Closed
  <2>5. ASSUME NEW q \in Positions, NEW c \in Closed, LastClosed(q, c)
        PROVE  questions'[p] = questions[p]
    BY <1>1, <2>2, <2>5 DEF LastClosed, Closed
  <2>6. ASSUME NEW why \in Reasons, Completed(why) PROVE questions'[p] = questions[p]
    BY <1>1, <2>6 DEF Completed, CloseAll, Closed
  <2> QED
    BY <2>1, <2>3, <2>4, <2>5, <2>6 DEF RoomStep, room, Started, Cancelled, Ticked
<1>2. Inductive /\ [Next]_vars
        => [\A p \in Positions : questions[p] \in Closed => questions'[p] = questions[p]]_vars
  BY <1>1
<1> QED
  BY <1>2, InductiveInvariant, PTL DEF Spec, OutcomeIsFinal

\* The room with all its handlers implements the single line of RoomLifecycle.
THEOREM Implements == Spec => ImplementsLifecycle
<1> DEFINE asked == Len(askedLog)
           open == \E p \in Positions : questions[p] = "ACTIVE"
<1>1. Init => Lifecycle!Init
  BY DEF Init, Lifecycle!Init
<1>2. Inductive /\ [Next]_vars => [Lifecycle!Next]_(Lifecycle!vars)
  <2> SUFFICES ASSUME Inductive, [Next]_vars
               PROVE  Lifecycle!Next \/ UNCHANGED <<status, version, asked, open>>
    BY DEF Lifecycle!vars
  <2>i. TypeOK /\ HandlersKnow /\ RoomInv
    BY DEF Inductive
  <2>t. /\ questions \in [Positions -> {"none", "ACTIVE"} \cup Closed]
        /\ askedLog \in Seq(Positions)
        /\ 0 \in Positions
    BY <2>i, ConstantsAssumption DEF TypeOK, Positions
  <2>1. CASE UNCHANGED room
    BY <2>1 DEF room
  <2>2. CASE Started
    <3>1. askedLog = <<>>
      BY <2>2, <2>i DEF Started, RoomInv, LogTellsTheStory
    <3>2. asked' = 1
      BY <2>2, <3>1 DEF Started
    <3>3. open'
      BY <2>2, <2>t DEF Started
    <3> QED
      BY <2>2, <3>2, <3>3 DEF Started, Lifecycle!Next, Lifecycle!Start
  <2>3. CASE Cancelled
    BY <2>3 DEF Cancelled, Lifecycle!Next, Lifecycle!Cancel
  <2>4. ASSUME NEW p \in Positions, NEW c \in Closed, Advanced(p, c)
        PROVE  Lifecycle!Next
    <3>1. status = "IN_PROGRESS" /\ asked = p + 1 /\ open
      BY <2>4, <2>i DEF Advanced, RoomInv, OneOpenQuestion
    <3>2. asked' = p + 2
      BY <2>4, <2>t, <3>1 DEF Advanced, Positions
    <3>3. p + 1 \in Positions
      BY <2>4, ConstantsAssumption DEF Advanced, Positions
    <3>4. open'
      BY <2>4, <2>t, <3>3 DEF Advanced
    <3>5. UNCHANGED <<status, open>>
      BY <2>4, <3>1, <3>4, Zenon DEF Advanced
    <3>6. asked' = asked + 1 /\ asked < QuestionCount /\ version' = version + 1
      BY <2>4, <3>1, <3>2 DEF Advanced, Positions
    <3> QED
      BY <3>1, <3>5, <3>6, Zenon DEF Lifecycle!Next, Lifecycle!AskNext
  <2>5. ASSUME NEW p \in Positions, NEW c \in Closed, LastClosed(p, c)
        PROVE  Lifecycle!Next
    <3>1. status = "IN_PROGRESS" /\ asked = p + 1 /\ open
      BY <2>5, <2>i DEF LastClosed, RoomInv, OneOpenQuestion
    <3>2. \A q \in Positions : questions[q] = "ACTIVE" => q = p
      BY <2>5, <2>i DEF LastClosed, RoomInv, OneOpenQuestion, Positions
    <3>3. ~ open'
      BY <2>5, <2>t, <3>2 DEF LastClosed, Closed
    <3> QED
      BY <2>5, <3>1, <3>3 DEF LastClosed, Lifecycle!Next, Lifecycle!CloseLast
  <2>6. ASSUME NEW why \in Reasons, Completed(why) PROVE Lifecycle!Next
    <3>1. ~ open'
      BY <2>6, <2>t DEF Completed, CloseAll
    <3> QED
      BY <2>6, <3>1 DEF Completed, Lifecycle!Next, Lifecycle!Complete
  <2>7. CASE Ticked
    BY <2>7 DEF Ticked
  <2> QED
    BY <2>i, <2>1, <2>2, <2>3, <2>4, <2>5, <2>6, <2>7, RoomSteps DEF RoomStep
<1> QED
  BY <1>1, <1>2, InductiveInvariant, PTL DEF Spec, ImplementsLifecycle, Lifecycle!Spec
=============================================================================
