-------------------------- MODULE EvaluationProofs --------------------------
(***************************************************************************)
(* Theorems about Evaluation, for any number of retries, jobs, attempts,   *)
(* slots, sweeps and failures, with or without a worker, in every mode.    *)
(***************************************************************************)
EXTENDS Evaluation, TLAPS

JobRecords == [state : {"none", "waiting", "active", "done"}, made : 0 .. JobAttempts]

Going == {"claim", "claimed", "evaluate", "write", "show"}

\* What a process that runs, or will, knows of its job: a run that may give its
\* report back is a job's, and not of the last attempt.
FrameOK(p, f, js) ==
  /\ p \in Slots => f.at \in Going \cup {"idle"}
  /\ f.at \in Going =>
       /\ p \in Slots => f.job \in Jobs /\ js[f.job].state = "active"
       /\ p \notin Slots => f.job = NoJob
  /\ f.at \in {"claim", "claimed", "evaluate"} /\ ~f.final =>
       p \in Slots /\ js[f.job].made + 1 < JobAttempts
  /\ f.at \in {"write", "show"} =>
       /\ f.status = "PENDING" => f.how = "giveBack"
       /\ f.how = "giveBack" => p \in Slots /\ js[f.job].made + 1 < JobAttempts

\* A job is run by one slot, and has an attempt left as long as it is not done.
Held ==
  /\ \A p \in Procs : FrameOK(p, proc[p], jobs)
  /\ \A s, t \in Slots :
       proc[s].at # "idle" /\ proc[t].at # "idle" /\ proc[s].job = proc[t].job => s = t
  /\ \A n \in Jobs : jobs[n].state \in {"waiting", "active"} => jobs[n].made < JobAttempts

\* A report that says RUNNING is being worked on.
Runner == deaths + errors = 0 /\ ~taken /\ report = "RUNNING" => Working # {}

\* Before the first retry there is one job at most, of the process that
\* completed the room.
OneJob == retries = 0 =>
  /\ \A w \in Retriers : proc[w].at = "idle"
  /\ proc[Completer].at \notin {"reset", "resetRoom"}
  /\ \A n, m \in Jobs : jobs[n].state # "none" /\ jobs[m].state # "none" => n = m
  /\ proc[Completer].at \in {"schedule", "enqueue"} => \A n \in Jobs : jobs[n].state = "none"

\* A slot that has written a result is in the same position as a job that is done.
Attempted ==
  \/ \E n \in Jobs : jobs[n].state = "done"
  \/ \E s \in Slots : proc[s].at = "show" /\ proc[s].how # "giveBack"

Left == deaths + errors + retries = 0 /\ ~taken /\ Attempted => report \in Final \/ Working # {}

\* Where the report and the room's copy stand while p is between its updates.
ShownBy(p) ==
  /\ proc[p].at = "resetRoom" => report = "PENDING"
  /\ proc[p].at = "claimed" => report = "RUNNING"
  /\ proc[p].at \in {"evaluate", "write"} => report = "RUNNING" /\ shown = "RUNNING"
  /\ proc[p].at = "show" => report = proc[p].status

\* One process at a time is between its updates; if there is none, the copy is right.
InStep == deaths + errors = 0 /\ ~crossed =>
  /\ \A p, q \in Procs : Busy(p) /\ Busy(q) => p = q
  /\ \A p \in Procs : ShownBy(p)
  /\ shown = report \/ \E p \in Procs : proc[p].at \in {"resetRoom", "claimed", "show"}

Inductive == TypeOK /\ Held /\ OneRunner /\ Runner /\ OneJob /\ Left /\ InStep
-----------------------------------------------------------------------------
(* Frames                                                                  *)

LEMMA Constants ==
  /\ JobAttempts \in Nat /\ JobAttempts >= 1 /\ MaxJobs \in Nat /\ MaxJobs >= 1
  /\ MaxRetries \in Nat /\ MaxFailures \in Nat
  /\ Completer \notin Retriers /\ Completer \notin Slots /\ Completer \notin Sweepers
  /\ Retriers \cap Slots = {} /\ Sweepers \cap Slots = {} /\ Sweepers \cap Retriers = {}
  /\ NoJob \notin Jobs
  BY ConstantsAssumption DEF Jobs, NoJob

RunFrame(where, final, n) == [at |-> where, final |-> final, job |-> n]
EndFrame(where, status, how, n) == [at |-> where, status |-> status, how |-> how, job |-> n]

\* The frames the handlers store.
LEMMA FrameTypes ==
  /\ Idle \in Frames
  /\ \A saw \in {"FAILED", "RUNNING"} :
       [at |-> "reset", saw |-> saw] \in Frames /\ [at |-> "resetRoom", saw |-> saw] \in Frames
  /\ \A runs \in BOOLEAN : [at |-> "schedule", runs |-> runs] \in Frames
  /\ \A runs \in BOOLEAN, n \in Jobs : [at |-> "enqueue", runs |-> runs, job |-> n] \in Frames
  /\ \A where \in {"claim", "claimed", "evaluate"}, final \in BOOLEAN, n \in {NoJob} \cup Jobs :
       RunFrame(where, final, n) \in Frames
  /\ \A where \in {"write", "show"}, status \in Final \cup {"PENDING"},
        how \in {"result", "giveBack", "catch"}, n \in {NoJob} \cup Jobs :
       EndFrame(where, status, how, n) \in Frames
  BY DEF Frames, Idle, RunFrame, EndFrame

\* What the frame of a process holds at each point.
LEMMA FrameFields ==
  ASSUME NEW f \in Frames
  PROVE  /\ f.at \in {"reset", "resetRoom"} => f.saw \in {"FAILED", "RUNNING"}
         /\ f.at \in {"schedule", "enqueue"} => f.runs \in BOOLEAN
         /\ f.at = "enqueue" => f.job \in Jobs
         /\ f.at \in Going => f.job \in {NoJob} \cup Jobs
         /\ f.at \in {"claim", "claimed", "evaluate"} => f.final \in BOOLEAN
         /\ f.at \in {"write", "show"} =>
              /\ f.status \in Final \cup {"PENDING"} /\ f.how \in {"result", "giveBack", "catch"}
              /\ [f EXCEPT !.at = "show"] = EndFrame("show", f.status, f.how, f.job)
         /\ f.at \in {"idle", "reset", "resetRoom", "schedule", "enqueue"} \cup Going
  BY DEF Frames, Going, EndFrame

LEMMA Initially == Init => Inductive
<1> SUFFICES ASSUME Init PROVE Inductive
  OBVIOUS
<1>1. PICK runs \in BOOLEAN :
        proc = [p \in Procs |-> IF p = Completer THEN [at |-> "schedule", runs |-> runs] ELSE Idle]
  BY DEF Init
<1>2. \A p \in Procs : proc[p].at = (IF p = Completer THEN "schedule" ELSE "idle")
  BY <1>1 DEF Idle
<1>3. TypeOK
  <2>1. {taken, crossed} \subseteq BOOLEAN
    BY DEF Init
  <2>2. proc \in [Procs -> Frames]
    BY <1>1, FrameTypes
  <2>3. jobs \in [Jobs -> JobRecords]
    BY Constants DEF Init, JobRecords
  <2> QED
    BY <2>1, <2>2, <2>3, Constants DEF Init, TypeOK, JobRecords, Statuses, Final
<1>4. \A p \in Procs : FrameOK(p, proc[p], jobs)
  BY <1>2, Constants DEF FrameOK, Going, Procs
<1>5. Held
  BY <1>2, <1>4, Constants DEF Held, Init, Procs
<1>6. Working = {} /\ \A p \in Procs : ~Busy(p)
  BY <1>2 DEF Working, Busy
<1>7. OneRunner /\ Runner
  BY <1>6 DEF OneRunner, Runner, Init
<1>8. OneJob
  BY <1>2, Constants DEF OneJob, Init, Procs, Web
<1>9. Left
  BY <1>2 DEF Left, Attempted, Init, Procs
<1>10. InStep
  BY <1>2, <1>6 DEF InStep, ShownBy, Init
<1> QED
  BY <1>3, <1>5, <1>7, <1>8, <1>9, <1>10 DEF Inductive

-----------------------------------------------------------------------------
(* The kinds of steps, for the jobs and the processes                      *)

LEMMA TypeParts ==
  ASSUME TypeOK
  PROVE  /\ report \in Statuses /\ shown \in Statuses /\ attempts \in 0 .. MaxJobs
         /\ jobs \in [Jobs -> JobRecords] /\ proc \in [Procs -> Frames]
         /\ retries \in 0 .. MaxRetries /\ deaths \in Nat /\ errors \in Nat
         /\ deaths + errors \in 0 .. MaxFailures
  BY DEF TypeOK, JobRecords

\* Process p goes on to frame f with the job that it had; no job changes.
Goes(p, f) ==
  /\ f \in Frames /\ FrameOK(p, f, jobs)
  /\ p \in Slots /\ f.at # "idle" => proc[p].at # "idle" /\ f.job = proc[p].job
  /\ Step(p, f) /\ UNCHANGED jobs

\* Slot s takes the waiting job n.
Takes(s, n) ==
  /\ s \in Slots /\ proc[s].at = "idle" /\ jobs[n].state = "waiting"
  /\ jobs' = [jobs EXCEPT ![n].state = "active"]
  /\ Step(s, RunFrame("claim", IsFinalAttempt(n), n))

Adds(w, n) == w \notin Slots /\ Step(w, Idle) /\ jobs' = AddJob(n)

\* Process p is through; its job has had its attempt, or is given out again.
Ends(p) ==
  /\ proc[p].at \in Going /\ Step(p, Idle)
  /\ \E throws \in BOOLEAN : JobEnds(proc[p].job, throws)

Drops(p) ==
  /\ p \in Slots /\ proc[p].at # "idle" /\ Step(p, Idle)
  /\ jobs' = [jobs EXCEPT ![proc[p].job].state = "waiting"]

\* All but jobs and proc keeps its type.
Scalars ==
  /\ report \in Statuses /\ shown \in Statuses
  /\ attempts \in 0 .. MaxJobs
  /\ age \in {"fresh", "old", "stale"}
  /\ retries \in 0 .. MaxRetries
  /\ deaths + errors \in 0 .. MaxFailures /\ {deaths, errors} \subseteq Nat
  /\ {taken, crossed} \subseteq BOOLEAN

LEMMA ScalarsStay == TypeOK /\ [Next]_vars => Scalars'
<1> SUFFICES ASSUME TypeOK, [Next]_vars PROVE Scalars'
  OBVIOUS
<1> USE Constants DEF Statuses, Final
<1>0. Scalars
  BY DEF TypeOK, Scalars
<1>f. \A p \in Procs : proc[p].at = "write" => proc[p].status \in Statuses
  BY FrameFields, TypeParts DEF Statuses
<1>1. ASSUME NEW w \in Retriers, Retry(w) PROVE Scalars'
  BY <1>0, <1>1 DEF Scalars, Retry
<1>2. ASSUME NEW w \in Web, Schedule(w) \/ Enqueue(w) \/ ResetRoom(w) PROVE Scalars'
  BY <1>0, <1>2 DEF Scalars, Schedule, Enqueue, ResetRoom
<1>3. ASSUME NEW w \in Web, Reset(w) PROVE Scalars'
  <2>1. taken' \in BOOLEAN /\ crossed' \in BOOLEAN
    BY <1>0, <1>3 DEF Scalars, Reset, Crosses
  <2> QED
    BY <1>0, <1>3, <2>1 DEF Scalars, Reset
<1>4. ASSUME NEW p \in Procs, TakeJob(p) \/ Sweep(p) PROVE Scalars'
  BY <1>0, <1>4 DEF Scalars, TakeJob, Sweep
<1>5. ASSUME NEW p \in Procs, Claim(p) PROVE Scalars'
  <2>1. taken' \in BOOLEAN /\ crossed' \in BOOLEAN
    BY <1>0, <1>5 DEF Scalars, Claim, Crosses
  <2>2. attempts' \in 0 .. MaxJobs /\ report' \in Statuses /\ age' \in {"fresh", "old", "stale"}
    <3>1. CASE report' = "RUNNING" /\ attempts' = (IF attempts < MaxJobs THEN attempts + 1 ELSE attempts) /\ age' = "fresh"
      BY <1>0, <3>1 DEF Scalars
    <3>2. CASE UNCHANGED <<report, attempts, age>>
      BY <1>0, <3>2 DEF Scalars
    <3> QED
      BY <1>5, <3>1, <3>2 DEF Claim
  <2>3. UNCHANGED <<shown, retries, deaths, errors>>
    BY <1>5 DEF Claim
  <2> QED
    BY <1>0, <2>1, <2>2, <2>3 DEF Scalars
<1>6. ASSUME NEW p \in Procs, ShowRunning(p) \/ Evaluate(p) \/ WriteReport(p) \/ ShowStatus(p) PROVE Scalars'
  <2>1. proc[p].at \in {"write", "show"} => proc[p].status \in Statuses
    BY FrameFields, TypeParts DEF Statuses
  <2> QED
    BY <1>0, <1>6, <2>1 DEF Scalars, ShowRunning, Evaluate, WriteReport, ShowStatus
<1>7. CASE Tick
  BY <1>0, <1>7 DEF Scalars, Tick
<1>8. ASSUME NEW p \in Procs, Die(p) \/ StatementFails(p) PROVE Scalars'
  <2>1. UNCHANGED <<attempts, age, report, shown, retries, taken, crossed>> /\ deaths + errors < MaxFailures
    BY <1>8 DEF Die, StatementFails, Failing
  <2>2. \/ deaths' = deaths + 1 /\ errors' = errors
        \/ deaths' = deaths /\ errors' = errors + 1
    BY <1>8 DEF Die, StatementFails
  <2>3. deaths' + errors' \in 0 .. MaxFailures /\ deaths' \in Nat /\ errors' \in Nat
    BY <1>0, <2>1, <2>2 DEF Scalars
  <2> QED
    BY <1>0, <2>1, <2>3 DEF Scalars
<1>9. CASE UNCHANGED vars
  BY <1>0, <1>9 DEF Scalars, vars
<1> QED
  BY <1>1, <1>2, <1>3, <1>4, <1>5, <1>6, <1>7, <1>8, <1>9 DEF Next, WebStep, Run, Procs, Web

\* Every step is one of these kinds.
SomeStep ==
  \/ UNCHANGED <<jobs, proc>>
  \/ \E p \in Procs : (\E f \in Frames : Goes(p, f)) \/ Ends(p) \/ Drops(p)
  \/ \E p \in Procs, n \in Jobs : Takes(p, n) \/ Adds(p, n)

LEMMA StepKinds == TypeOK /\ Held /\ [Next]_vars => SomeStep
<1> SUFFICES ASSUME TypeOK, Held, [Next]_vars PROVE SomeStep
  OBVIOUS
<1> USE Constants
<1>1. \A p \in Procs : proc[p] \in Frames /\ FrameOK(p, proc[p], jobs)
  BY TypeParts DEF Held
<1>2. \A p \in Procs : FrameOK(p, Idle, jobs)
  BY DEF FrameOK, Idle, Going
<1>3. ASSUME NEW p \in Procs, NEW f \in Frames, FrameOK(p, f, jobs), Step(p, f), UNCHANGED jobs,
             p \in Slots /\ f.at # "idle" => proc[p].at # "idle" /\ f.job = proc[p].job
      PROVE  SomeStep
  BY <1>3 DEF SomeStep, Goes
<1>4. ASSUME NEW p \in Procs, Step(p, Idle), UNCHANGED jobs PROVE SomeStep
  BY <1>2, <1>3, <1>4, FrameTypes DEF Idle
<1>5. ASSUME NEW w \in Web, NEW f \in Frames, Step(w, f), UNCHANGED jobs,
             f.at \in {"reset", "resetRoom", "schedule", "enqueue"}
      PROVE  SomeStep
  <2>1. w \in Procs /\ w \notin Slots
    BY DEF Procs, Web
  <2>2. FrameOK(w, f, jobs)
    BY <1>5, <2>1 DEF FrameOK, Going
  <2> QED
    BY <1>3, <1>5, <2>1, <2>2
<1>6. ASSUME NEW w \in Web, Inline(w), proc[w].at \in {"schedule", "enqueue"} PROVE SomeStep
  <2>1. w \in Procs /\ w \notin Slots
    BY DEF Procs, Web
  <2>2. RunFrame("claim", TRUE, NoJob) \in Frames
    BY FrameTypes
  <2>3. FrameOK(w, RunFrame("claim", TRUE, NoJob), jobs)
    BY <2>1 DEF FrameOK, RunFrame
  <2>4. CASE Step(w, RunFrame("claim", TRUE, NoJob))
    BY <1>3, <1>6, <2>1, <2>2, <2>3, <2>4 DEF Inline
  <2>5. CASE Step(w, Idle)
    BY <1>4, <1>6, <2>1, <2>5 DEF Inline
  <2> QED
    BY <1>6, <2>4, <2>5 DEF Inline, RunFrame
<1>7. ASSUME NEW w \in Retriers, Retry(w) PROVE SomeStep
  <2>1. w \in Web /\ UNCHANGED jobs
    BY <1>7 DEF Web, Retry
  <2>2. CASE Step(w, [at |-> "schedule", runs |-> TRUE])
    <3>1. [at |-> "schedule", runs |-> TRUE] \in Frames
      BY FrameTypes
    <3> QED
      BY <1>5, <2>1, <2>2, <3>1
  <2>3. CASE MayReset /\ Step(w, [at |-> "reset", saw |-> report])
    <3>1. [at |-> "reset", saw |-> report] \in Frames
      BY <2>3, FrameTypes DEF MayReset
    <3> QED
      BY <1>5, <2>1, <2>3, <3>1
  <2> QED
    BY <1>7, <2>2, <2>3 DEF Retry
<1>8. ASSUME NEW w \in Web, Schedule(w) PROVE SomeStep
  <2>1. CASE attempts + 1 \in Jobs /\ Step(w, [at |-> "enqueue", runs |-> proc[w].runs, job |-> attempts + 1]) /\ UNCHANGED jobs
    <3>1. proc[w].runs \in BOOLEAN
      BY <1>1, <1>8, FrameFields DEF Schedule, Procs
    <3>2. [at |-> "enqueue", runs |-> proc[w].runs, job |-> attempts + 1] \in Frames
      BY <2>1, <3>1, FrameTypes
    <3> QED
      BY <1>5, <2>1, <3>2
  <2> QED
    BY <1>6, <1>8, <2>1 DEF Schedule
<1>9. ASSUME NEW w \in Web, Enqueue(w) PROVE SomeStep
  <2>1. w \in Procs /\ w \notin Slots /\ proc[w].job \in Jobs
    BY <1>1, <1>9, FrameFields DEF Procs, Web, Enqueue
  <2> QED
    BY <1>6, <1>9, <2>1 DEF Enqueue, SomeStep, Adds
<1>10. ASSUME NEW w \in Web, Reset(w) \/ ResetRoom(w) PROVE SomeStep
  <2>1. CASE Reset(w)
    <3>1. [at |-> "resetRoom", saw |-> proc[w].saw] \in Frames
      BY <1>1, <2>1, FrameFields, FrameTypes DEF Reset, Procs
    <3> QED
      BY <1>5, <2>1, <3>1 DEF Reset
  <2>2. CASE ResetRoom(w)
    <3>1. [at |-> "schedule", runs |-> TRUE] \in Frames
      BY FrameTypes
    <3> QED
      BY <1>5, <2>2, <3>1 DEF ResetRoom
  <2> QED
    BY <1>10, <2>1, <2>2
<1>11. ASSUME NEW s \in Slots, TakeJob(s) PROVE SomeStep
  BY <1>11 DEF TakeJob, SomeStep, Takes, RunFrame, Procs
<1>12. ASSUME NEW w \in Sweepers, Sweep(w) PROVE SomeStep
  <2>1. w \in Procs /\ w \notin Slots
    BY DEF Procs
  <2>2. RunFrame("claim", TRUE, NoJob) \in Frames
    BY FrameTypes
  <2>3. FrameOK(w, RunFrame("claim", TRUE, NoJob), jobs)
    BY <2>1 DEF FrameOK, RunFrame
  <2> QED
    BY <1>3, <1>12, <2>1, <2>2, <2>3 DEF Sweep, RunFrame
<1>13. ASSUME NEW p \in Procs, Claim(p) \/ ShowRunning(p) PROVE SomeStep
  <2>1. CASE proc[p].at = "claim" /\ JobEnds(proc[p].job, FALSE) /\ Step(p, Idle)
    BY <2>1 DEF SomeStep, Ends, Going
  <2>2. ASSUME NEW where \in {"claimed", "evaluate"}, proc[p].at \in {"claim", "claimed"},
               Step(p, RunFrame(where, proc[p].final, proc[p].job)), UNCHANGED jobs
        PROVE  SomeStep
    <3>1. proc[p].final \in BOOLEAN /\ proc[p].job \in {NoJob} \cup Jobs
      BY <1>1, <2>2, FrameFields DEF Going
    <3>2. RunFrame(where, proc[p].final, proc[p].job) \in Frames
      BY <3>1, FrameTypes
    <3>3. FrameOK(p, RunFrame(where, proc[p].final, proc[p].job), jobs)
      BY <1>1, <2>2 DEF FrameOK, RunFrame, Going
    <3> QED
      BY <1>3, <2>2, <3>2, <3>3 DEF RunFrame
  <2> QED
    BY <1>13, <2>1, <2>2 DEF Claim, ShowRunning, RunFrame
<1>14. ASSUME NEW p \in Procs, NEW where \in {"write", "show"}, NEW status \in Final \cup {"PENDING"},
              NEW how \in {"result", "giveBack", "catch"}, proc[p].at \in {"evaluate", "write", "show"},
              Step(p, EndFrame(where, status, how, proc[p].job)), UNCHANGED jobs,
              \/ how # "giveBack" /\ status # "PENDING"
              \/ how = "giveBack" /\ proc[p].at = "evaluate" /\ ~proc[p].final
              \/ proc[p].at # "evaluate" /\ how = proc[p].how /\ status = proc[p].status
       PROVE  SomeStep
  <2>1. proc[p].job \in {NoJob} \cup Jobs
    BY <1>1, <1>14, FrameFields DEF Going
  <2>2. EndFrame(where, status, how, proc[p].job) \in Frames
    BY <2>1, FrameTypes
  <2>3. FrameOK(p, EndFrame(where, status, how, proc[p].job), jobs)
    BY <1>1, <1>14 DEF FrameOK, EndFrame, Going
  <2> QED
    BY <1>3, <1>14, <2>2, <2>3 DEF EndFrame
<1>15. ASSUME NEW p \in Procs, Evaluate(p) PROVE SomeStep
  BY <1>14, <1>15 DEF Evaluate, Write, EndFrame, Final
<1>16. ASSUME NEW p \in Procs, WriteReport(p) \/ StatementFails(p) PROVE SomeStep
  <2>1. proc[p].at \in {"write", "show"} =>
          /\ proc[p].status \in Final \cup {"PENDING"} /\ proc[p].how \in {"result", "giveBack", "catch"}
          /\ [proc[p] EXCEPT !.at = "show"] = EndFrame("show", proc[p].status, proc[p].how, proc[p].job)
    BY <1>1, FrameFields
  <2>2. CASE proc[p].at = "write" /\ Step(p, [proc[p] EXCEPT !.at = "show"]) /\ UNCHANGED jobs
    BY <1>14, <2>1, <2>2
  <2>3. CASE proc[p].at \in {"write", "show"} /\ Write(p, "FAILED", "catch") /\ UNCHANGED jobs
    BY <1>14, <2>3 DEF Write, EndFrame, Final
  <2>4. CASE proc[p].at \in Going /\ Step(p, Idle) /\ JobEnds(proc[p].job, TRUE)
    BY <2>4 DEF SomeStep, Ends
  <2> QED
    BY <1>16, <2>2, <2>3, <2>4 DEF WriteReport, StatementFails, Going
<1>17. ASSUME NEW p \in Procs, ShowStatus(p) PROVE SomeStep
  BY <1>17 DEF ShowStatus, SomeStep, Ends, Going
<1>18. ASSUME NEW p \in Procs, Die(p) PROVE SomeStep
  BY <1>4, <1>18 DEF Die, Failing, HasJob, SomeStep, Drops
<1>19. CASE Tick \/ UNCHANGED vars
  BY <1>19 DEF Tick, vars, SomeStep
<1> QED
  BY <1>7, <1>8, <1>9, <1>10, <1>11, <1>12, <1>13, <1>15, <1>16, <1>17, <1>18, <1>19
     DEF Next, WebStep, Run, Procs, Web

\* A frame is judged by the state and the attempts of its job alone.
LEMMA FrameStays ==
  ASSUME NEW p, NEW f, FrameOK(p, f, jobs),
         p \in Slots /\ f.at \in Going => jobs'[f.job] = jobs[f.job]
  PROVE  FrameOK(p, f, jobs')
  BY DEF FrameOK, Going

LEMMA HeldStays == TypeOK /\ Held /\ [Next]_vars => TypeOK' /\ Held'
<1> SUFFICES ASSUME TypeOK, Held, [Next]_vars PROVE TypeOK' /\ Held'
  OBVIOUS
<1> USE Constants
<1>1. jobs \in [Jobs -> JobRecords] /\ proc \in [Procs -> Frames]
  BY TypeParts
<1>2. SUFFICES /\ jobs' \in [Jobs -> JobRecords] /\ proc' \in [Procs -> Frames]
               /\ Held'
  BY ScalarsStay DEF TypeOK, Scalars, JobRecords
<1>3. \A p \in Procs : FrameOK(p, proc[p], jobs)
  BY DEF Held
<1>4. Slots \subseteq Procs /\ \A s \in Slots : proc[s].at \in Going \cup {"idle"}
  BY <1>3 DEF Procs, FrameOK
<1>5. \A s \in Slots : proc[s].at # "idle" => proc[s].job \in Jobs /\ jobs[proc[s].job].state = "active"
  BY <1>3, <1>4 DEF FrameOK
<1>6. CASE UNCHANGED <<jobs, proc>>
  <2>1. \A p \in Procs : FrameOK(p, proc[p], jobs')
    BY <1>3, <1>6, FrameStays
  <2> QED
    BY <1>1, <1>6, <2>1 DEF Held
<1>7. ASSUME NEW p \in Procs, NEW f \in Frames, Goes(p, f)
      PROVE  jobs' \in [Jobs -> JobRecords] /\ proc' \in [Procs -> Frames] /\ Held'
  <2>1. /\ proc' \in [Procs -> Frames] /\ proc'[p] = f /\ \A q \in Procs : q # p => proc'[q] = proc[q]
        /\ UNCHANGED jobs
    BY <1>1, <1>7 DEF Goes, Step
  <2>2. \A q \in Procs : FrameOK(q, proc'[q], jobs')
    BY <1>3, <1>7, <2>1, FrameStays DEF Goes
  <2>3. ASSUME NEW s \in Slots, NEW t \in Slots, proc'[s].at # "idle", proc'[t].at # "idle",
               proc'[s].job = proc'[t].job
        PROVE  s = t
    <3>1. proc[s].at # "idle" /\ proc[s].job = proc'[s].job
      BY <1>4, <1>7, <2>1, <2>3 DEF Goes
    <3>2. proc[t].at # "idle" /\ proc[t].job = proc'[t].job
      BY <1>4, <1>7, <2>1, <2>3 DEF Goes
    <3> QED
      BY <2>3, <3>1, <3>2 DEF Held
  <2> QED
    BY <1>1, <2>1, <2>2, <2>3 DEF Held
<1>8. ASSUME NEW p \in Procs, NEW n \in Jobs, Takes(p, n)
      PROVE  jobs' \in [Jobs -> JobRecords] /\ proc' \in [Procs -> Frames] /\ Held'
  <2> DEFINE f == RunFrame("claim", IsFinalAttempt(n), n)
  <2>1. f \in Frames
    <3>1. IsFinalAttempt(n) \in BOOLEAN
      BY <1>1 DEF IsFinalAttempt, JobRecords
    <3> QED
      BY <3>1, FrameTypes
  <2>2. jobs' = [jobs EXCEPT ![n].state = "active"] /\ jobs[n] \in JobRecords /\ jobs[n].state = "waiting"
    BY <1>1, <1>8 DEF Takes
  <2>3. /\ jobs' \in [Jobs -> JobRecords] /\ \A m \in Jobs : m # n => jobs'[m] = jobs[m]
        /\ jobs'[n].state = "active" /\ jobs'[n].made = jobs[n].made
    BY <1>1, <2>2 DEF JobRecords
  <2>4. /\ proc' \in [Procs -> Frames] /\ proc'[p] = f /\ \A q \in Procs : q # p => proc'[q] = proc[q]
    BY <1>1, <1>8, <2>1 DEF Takes, Step
  <2>5. \A s \in Slots : proc[s].at # "idle" => proc[s].job # n
    BY <1>5, <2>2
  <2>6. FrameOK(p, f, jobs')
    <3>1. f.at = "claim" /\ f.job = n /\ f.final = IsFinalAttempt(n)
      BY DEF RunFrame
    <3>2. ~IsFinalAttempt(n) => jobs'[n].made + 1 < JobAttempts
      BY <2>2, <2>3 DEF IsFinalAttempt, JobRecords
    <3>3. p \in Slots
      BY <1>8 DEF Takes
    <3> HIDE DEF f
    <3> QED
      BY <2>3, <3>1, <3>2, <3>3 DEF FrameOK, Going
  <2>7. ASSUME NEW q \in Procs, q # p PROVE FrameOK(q, proc[q], jobs')
    BY <1>3, <1>5, <2>3, <2>5, FrameStays DEF Going
  <2>8. \A q \in Procs : FrameOK(q, proc'[q], jobs')
    BY <2>4, <2>6, <2>7
  <2>9. ASSUME NEW s \in Slots, NEW t \in Slots, proc'[s].at # "idle", proc'[t].at # "idle",
               proc'[s].job = proc'[t].job
        PROVE  s = t
    BY <1>4, <2>4, <2>5, <2>9 DEF Held, RunFrame
  <2>10. \A m \in Jobs : jobs'[m].state \in {"waiting", "active"} => jobs'[m].made < JobAttempts
    BY <2>2, <2>3 DEF Held
  <2> QED
    BY <2>3, <2>4, <2>8, <2>9, <2>10 DEF Held
\* The steps after which p is idle: other slots have other jobs.
<1>9. ASSUME NEW p \in Procs, Step(p, Idle), jobs' \in [Jobs -> JobRecords],
             \A m \in Jobs : jobs'[m].state \in {"waiting", "active"} => jobs'[m].made < JobAttempts,
             \A s \in Slots : s # p /\ proc[s].at # "idle" => jobs'[proc[s].job] = jobs[proc[s].job]
      PROVE  proc' \in [Procs -> Frames] /\ Held'
  <2>1. /\ proc' \in [Procs -> Frames] /\ proc'[p] = Idle /\ \A q \in Procs : q # p => proc'[q] = proc[q]
    BY <1>1, <1>9, FrameTypes DEF Step
  <2>2. FrameOK(p, Idle, jobs')
    BY DEF FrameOK, Idle, Going
  <2>3. ASSUME NEW q \in Procs, q # p PROVE FrameOK(q, proc[q], jobs')
    BY <1>3, <1>9, <2>3, FrameStays DEF Going
  <2>4. \A q \in Procs : FrameOK(q, proc'[q], jobs')
    BY <2>1, <2>2, <2>3
  <2>5. ASSUME NEW s \in Slots, NEW t \in Slots, proc'[s].at # "idle", proc'[t].at # "idle",
               proc'[s].job = proc'[t].job
        PROVE  s = t
    BY <1>4, <2>1, <2>5 DEF Held, Idle
  <2> QED
    BY <1>9, <2>1, <2>4, <2>5 DEF Held
<1>10. ASSUME NEW p \in Procs, NEW n \in Jobs, Adds(p, n)
       PROVE  jobs' \in [Jobs -> JobRecords] /\ proc' \in [Procs -> Frames] /\ Held'
  <2>1. jobs' \in [Jobs -> JobRecords] /\ \A m \in Jobs : jobs[m].state # "none" => jobs'[m] = jobs[m]
    BY <1>1, <1>10 DEF Adds, AddJob, JobRecords
  <2>2. \A m \in Jobs : jobs'[m] = jobs[m] \/ jobs'[m].made = 0
    BY <1>1, <1>10 DEF Adds, AddJob, JobRecords
  <2>3. \A m \in Jobs : jobs'[m].state \in {"waiting", "active"} => jobs'[m].made < JobAttempts
    BY <2>2 DEF Held
  <2>4. \A s \in Slots : proc[s].at # "idle" => jobs'[proc[s].job] = jobs[proc[s].job]
    BY <1>5, <2>1
  <2> QED
    BY <1>9, <1>10, <2>1, <2>3, <2>4 DEF Adds
<1>11. ASSUME NEW p \in Procs, Ends(p)
       PROVE  jobs' \in [Jobs -> JobRecords] /\ proc' \in [Procs -> Frames] /\ Held'
  <2>1. PICK throws \in BOOLEAN : JobEnds(proc[p].job, throws)
    BY <1>11 DEF Ends
  <2>2. CASE proc[p].job = NoJob
    BY <1>1, <1>9, <1>11, <2>1, <2>2 DEF Ends, JobEnds, Held
  <2>3. CASE proc[p].job # NoJob
    <3>1. p \in Slots /\ proc[p].at # "idle"
      BY <1>3, <1>11, <2>3 DEF FrameOK, Ends, Going
    <3>2. PICK n \in Jobs : n = proc[p].job /\ jobs[n].state = "active" /\ jobs[n].made < JobAttempts
      BY <1>5, <3>1 DEF Held
    <3>3. jobs[n] \in JobRecords /\ jobs[n].made \in Nat /\ jobs[n].made + 1 \in 0 .. JobAttempts
      BY <1>1, <3>2 DEF JobRecords
    <3>4. jobs' = [jobs EXCEPT ![n] =
                     [made |-> jobs[n].made + 1,
                      state |-> IF throws /\ jobs[n].made + 1 < JobAttempts THEN "waiting" ELSE "done"]]
      BY <2>1, <2>3, <3>2 DEF JobEnds
    <3>5. jobs' \in [Jobs -> JobRecords] /\ \A m \in Jobs : m # n => jobs'[m] = jobs[m]
      BY <1>1, <3>3, <3>4 DEF JobRecords
    <3>6. jobs'[n].state = "waiting" => jobs'[n].made < JobAttempts
      BY <1>1, <3>4
    <3>7. jobs'[n].state # "active"
      BY <1>1, <3>4
    <3>8. \A m \in Jobs : jobs'[m].state \in {"waiting", "active"} => jobs'[m].made < JobAttempts
      BY <3>5, <3>6, <3>7 DEF Held
    <3>9. \A s \in Slots : s # p /\ proc[s].at # "idle" => jobs'[proc[s].job] = jobs[proc[s].job]
      BY <1>5, <3>1, <3>2, <3>5 DEF Held
    <3> QED
      BY <1>9, <1>11, <3>5, <3>8, <3>9 DEF Ends
  <2> QED
    BY <2>2, <2>3
<1>12. ASSUME NEW p \in Procs, Drops(p)
       PROVE  jobs' \in [Jobs -> JobRecords] /\ proc' \in [Procs -> Frames] /\ Held'
  <2>1. PICK n \in Jobs : n = proc[p].job /\ jobs[n].state = "active"
    BY <1>5, <1>12 DEF Drops
  <2>2. jobs' = [jobs EXCEPT ![n].state = "waiting"] /\ jobs[n] \in JobRecords
    BY <1>1, <1>12, <2>1 DEF Drops
  <2>3. /\ jobs' \in [Jobs -> JobRecords] /\ \A m \in Jobs : m # n => jobs'[m] = jobs[m]
        /\ jobs'[n].made = jobs[n].made
    BY <1>1, <2>2 DEF JobRecords
  <2>4. \A m \in Jobs : jobs'[m].state \in {"waiting", "active"} => jobs'[m].made < JobAttempts
    BY <2>1, <2>3 DEF Held
  <2>5. \A s \in Slots : s # p /\ proc[s].at # "idle" => jobs'[proc[s].job] = jobs[proc[s].job]
    BY <1>5, <1>12, <2>1, <2>3 DEF Held, Drops
  <2> QED
    BY <1>9, <1>12, <2>3, <2>4, <2>5 DEF Drops
<1> QED
  BY <1>6, <1>7, <1>8, <1>10, <1>11, <1>12, StepKinds DEF SomeStep

-----------------------------------------------------------------------------
(* One runner                                                              *)

LEMMA RunnersStay ==
  ASSUME TypeOK, TypeOK', Held, OneRunner, Runner, [Next]_vars
  PROVE  OneRunner' /\ Runner' /\ (report = "COMPLETED" /\ ~taken' /\ errors' = 0 => report' = "COMPLETED")
<1> USE Constants
<1> DEFINE At(p) == proc[p].at \in {"claimed", "evaluate", "write"}
           Stands == report = "COMPLETED" /\ ~taken' /\ errors' = 0 => report' = "COMPLETED"
<1>1. deaths \in Nat /\ errors \in Nat /\ deaths' \in Nat /\ errors' \in Nat /\ proc \in [Procs -> Frames]
  BY TypeParts DEF TypeOK
\* A step that leaves the report and moves no process into or out of the run.
<1>2. ASSUME UNCHANGED <<report, taken, deaths, errors>>, \A q \in Procs : At(q)' <=> At(q)
      PROVE  OneRunner' /\ Runner' /\ Stands
  <2>1. Working' = Working
    BY <1>2 DEF Working
  <2> QED
    BY <1>2, <2>1 DEF OneRunner, Runner
<1>3. ASSUME NEW p \in Procs, NEW f, Step(p, f), f.at \in {"claimed", "evaluate", "write"} <=> At(p),
             UNCHANGED <<report, taken, deaths, errors>>
      PROVE  OneRunner' /\ Runner' /\ Stands
  BY <1>1, <1>2, <1>3 DEF Step
<1>4. ASSUME NEW w \in Web, Retry(w) \/ Schedule(w) \/ Enqueue(w) \/ ResetRoom(w)
      PROVE  OneRunner' /\ Runner' /\ Stands
  <2>1. UNCHANGED <<report, taken, deaths, errors>> /\ ~At(w)
    BY <1>4 DEF Retry, Schedule, Enqueue, ResetRoom
  <2>2. \E f : Step(w, f) /\ f.at \notin {"claimed", "evaluate", "write"}
    BY <1>4 DEF Retry, Schedule, Enqueue, Inline, ResetRoom, Idle
  <2> QED
    BY <1>3, <2>1, <2>2 DEF Procs
<1>5. ASSUME NEW w \in Web, Reset(w) PROVE OneRunner' /\ Runner' /\ Stands
  <2>1. /\ report' = "PENDING" /\ (taken' <=> taken \/ report \in {"RUNNING", "COMPLETED"})
        /\ UNCHANGED <<deaths, errors>> /\ ~At(w) /\ Step(w, [at |-> "resetRoom", saw |-> proc[w].saw])
    BY <1>5 DEF Reset
  <2>2. \A q \in Procs : At(q)' <=> At(q)
    BY <1>1, <2>1 DEF Step
  <2>3. Working' = Working
    BY <2>2 DEF Working
  <2> QED
    BY <2>1, <2>3 DEF OneRunner, Runner
<1>6. ASSUME NEW p \in Procs, TakeJob(p) \/ Sweep(p) PROVE OneRunner' /\ Runner' /\ Stands
  <2>1. UNCHANGED <<report, taken, deaths, errors>> /\ ~At(p)
    BY <1>6 DEF TakeJob, Sweep
  <2>2. \E n : Step(p, RunFrame("claim", TRUE, n)) \/ Step(p, RunFrame("claim", IsFinalAttempt(n), n))
    BY <1>6 DEF TakeJob, Sweep, RunFrame
  <2>3. \A final, n : RunFrame("claim", final, n).at = "claim"
    BY DEF RunFrame
  <2> QED
    BY <1>3, <2>1, <2>2, <2>3
<1>7. ASSUME NEW p \in Procs, Claim(p) PROVE OneRunner' /\ Runner' /\ Stands
  <2>1. CASE ~CanClaim
    BY <1>3, <1>7, <2>1 DEF Claim, Idle
  <2>2. CASE CanClaim
    <3>1. /\ report' = "RUNNING" /\ (taken' <=> taken \/ (report = "RUNNING" /\ age = "stale"))
          /\ UNCHANGED <<deaths, errors>> /\ proc[p].at = "claim"
          /\ Step(p, RunFrame("claimed", proc[p].final, proc[p].job))
      BY <1>7, <2>2 DEF Claim, RunFrame
    <3>2. At(p)' /\ \A q \in Procs : q # p => proc'[q] = proc[q]
      BY <1>1, <3>1 DEF Step, RunFrame
    <3>3. Working' = Working \cup {p}
      BY <3>1, <3>2 DEF Working
    <3>4. ~taken' /\ errors' = 0 => Working = {}
      BY <2>2, <3>1 DEF OneRunner, CanClaim
    <3>5. report # "COMPLETED"
      BY <2>2 DEF CanClaim
    <3> QED
      BY <3>1, <3>3, <3>4, <3>5 DEF OneRunner, Runner
  <2> QED
    BY <2>1, <2>2
<1>8. ASSUME NEW p \in Procs, ShowRunning(p) \/ Evaluate(p) PROVE OneRunner' /\ Runner' /\ Stands
  <2>1. UNCHANGED <<report, taken, deaths, errors>> /\ At(p)
    BY <1>8 DEF ShowRunning, Evaluate
  <2>2. \E f : Step(p, f) /\ f.at \in {"claimed", "evaluate", "write"}
    BY <1>8 DEF ShowRunning, Evaluate, Write
  <2> QED
    BY <1>3, <2>1, <2>2
<1>9. ASSUME NEW p \in Procs, WriteReport(p) PROVE OneRunner' /\ Runner' /\ Stands
  <2>1. /\ report' = proc[p].status /\ proc[p].status \in Final \cup {"PENDING"} /\ At(p)
        /\ UNCHANGED <<taken, deaths, errors>> /\ Step(p, [proc[p] EXCEPT !.at = "show"])
    BY <1>1, <1>9, FrameFields DEF WriteReport
  <2>2. proc'[p].at = "show" /\ \A q \in Procs : q # p => proc'[q] = proc[q]
    BY <1>1, <1>9, <2>1, FrameFields DEF Step, EndFrame, WriteReport
  <2>3. Working' = Working \ {p} /\ p \in Working
    BY <2>1, <2>2 DEF Working
  <2>4. ~taken' /\ errors' = 0 => report = "RUNNING" /\ Working' = {}
    BY <2>1, <2>3 DEF OneRunner
  <2>5. report' # "RUNNING"
    BY <2>1 DEF Final
  <2> QED
    BY <2>4, <2>5 DEF OneRunner, Runner
<1>10. ASSUME NEW p \in Procs, ShowStatus(p) PROVE OneRunner' /\ Runner' /\ Stands
  BY <1>3, <1>10 DEF ShowStatus, Idle
<1>11. CASE Tick \/ UNCHANGED vars
  BY <1>2, <1>11 DEF Tick, vars
<1>12. ASSUME NEW p \in Procs, Die(p) PROVE OneRunner' /\ Runner' /\ Stands
  <2>1. deaths' = deaths + 1 /\ UNCHANGED <<report, taken, errors>> /\ Step(p, Idle)
    BY <1>12 DEF Die, Failing
  <2>2. Working' \subseteq Working
    BY <1>1, <2>1 DEF Working, Step, Idle
  <2> QED
    BY <1>1, <2>1, <2>2 DEF OneRunner, Runner
<1>13. ASSUME NEW p \in Procs, StatementFails(p) PROVE OneRunner' /\ Runner' /\ Stands
  <2>1. errors' = errors + 1 /\ UNCHANGED deaths
    BY <1>13 DEF StatementFails
  <2> QED
    BY <1>1, <2>1 DEF OneRunner, Runner
<1> QED
  BY <1>4, <1>5, <1>6, <1>7, <1>8, <1>9, <1>10, <1>11, <1>12, <1>13
     DEF Next, WebStep, Run, Procs, Web

-----------------------------------------------------------------------------
(* What a job leaves behind                                                *)

LEMMA OneJobStays == TypeOK /\ Held /\ OneJob /\ [Next]_vars => OneJob'
<1> SUFFICES ASSUME TypeOK, Held, OneJob, [Next]_vars, retries' = 0 PROVE OneJob'
  BY DEF OneJob
<1> USE Constants
<1>1. /\ retries \in Nat /\ proc \in [Procs -> Frames] /\ jobs \in [Jobs -> JobRecords]
      /\ Completer \in Procs /\ Retriers \subseteq Procs
  BY TypeParts DEF Procs, Web
<1>2. ASSUME NEW w \in Retriers, Retry(w) PROVE FALSE
  BY <1>1, <1>2 DEF Retry
<1>3. retries = 0
  <2>1. CASE \E w \in Retriers : Retry(w)
    BY <1>2, <2>1
  <2>2. CASE UNCHANGED retries
    BY <2>2
  <2> QED
    BY <2>1, <2>2 DEF Next, WebStep, Run, Schedule, Enqueue, Reset, ResetRoom, TakeJob, Sweep, Claim,
         ShowRunning, Evaluate, WriteReport, ShowStatus, Tick, Die, StatementFails, Failing, vars
<1>4. \A w \in Web : proc[w].at # "idle" => w = Completer
  BY <1>3 DEF OneJob, Web
\* A step of a process other than a retry's, which adds no job and schedules none.
<1>5. ASSUME NEW p \in Procs \ Retriers, NEW f, Step(p, f), f.at \notin {"reset", "resetRoom"},
             f.at \in {"schedule", "enqueue"} => proc[p].at \in {"schedule", "enqueue"},
             \A n \in Jobs : jobs'[n].state = "none" <=> jobs[n].state = "none"
      PROVE  OneJob'
  BY <1>1, <1>3, <1>5 DEF OneJob, Step
<1>6. ASSUME NEW w \in Web, Schedule(w) PROVE OneJob'
  <2>1. w \in Procs \ Retriers
    BY <1>3, <1>6 DEF OneJob, Schedule, Web, Procs
  <2>2. /\ UNCHANGED jobs /\ proc[w].at = "schedule"
        /\ \E f : Step(w, f) /\ f.at \in {"enqueue", "claim", "idle"}
    BY <1>6 DEF Schedule, Inline, Idle
  <2> QED
    BY <1>5, <2>1, <2>2
<1>7. ASSUME NEW w \in Web, Enqueue(w) PROVE OneJob'
  <2>1. w = Completer /\ proc[w].job \in Jobs /\ \A n \in Jobs : jobs[n].state = "none"
    BY <1>1, <1>3, <1>4, <1>7, FrameFields DEF OneJob, Enqueue, Procs
  <2>2. CASE Inline(w)
    <3>1. UNCHANGED jobs /\ \E f : Step(w, f) /\ f.at \in {"claim", "idle"}
      BY <2>2 DEF Inline, Idle
    <3> QED
      BY <1>1, <1>5, <2>1, <3>1
  <2>3. CASE jobs' = AddJob(proc[w].job) /\ Step(w, Idle)
    <3>1. \A n \in Jobs : n # proc[w].job => jobs'[n].state = "none"
      BY <1>1, <2>1, <2>3 DEF AddJob
    <3>2. proc'[w].at = "idle" /\ \A q \in Procs : q # w => proc'[q] = proc[q]
      BY <1>1, <2>1, <2>3 DEF Step, Idle
    <3> QED
      BY <1>1, <1>3, <2>1, <3>1, <3>2 DEF OneJob
  <2> QED
    BY <1>7, <2>2, <2>3 DEF Enqueue
<1>8. ASSUME NEW w \in Web, Reset(w) \/ ResetRoom(w) PROVE FALSE
  BY <1>3, <1>4, <1>8 DEF OneJob, Reset, ResetRoom
<1>9. ASSUME NEW s \in Slots, TakeJob(s) PROVE OneJob'
  <2>1. PICK n \in Jobs : /\ jobs[n].state = "waiting" /\ jobs' = [jobs EXCEPT ![n].state = "active"]
                          /\ Step(s, [at |-> "claim", final |-> IsFinalAttempt(n), job |-> n])
    BY <1>9 DEF TakeJob
  <2>2. \A m \in Jobs : jobs'[m].state = "none" <=> jobs[m].state = "none"
    BY <1>1, <2>1 DEF JobRecords
  <2>3. s \in Procs \ Retriers
    BY DEF Procs
  <2> QED
    BY <1>5, <2>1, <2>2, <2>3
<1>10. ASSUME NEW w \in Sweepers, Sweep(w) PROVE OneJob'
  <2>1. w \in Procs \ Retriers
    BY DEF Procs
  <2> QED
    BY <1>5, <1>10, <2>1 DEF Sweep
<1>11. ASSUME NEW p \in Procs, NEW throws \in BOOLEAN, proc[p].at \in Going, JobEnds(proc[p].job, throws), Step(p, Idle)
       PROVE  OneJob'
  <2>1. p \in Procs \ Retriers
    BY <1>3, <1>11 DEF OneJob, Going
  <2>2. proc[p].job # NoJob => proc[p].job \in Jobs /\ jobs[proc[p].job].state = "active"
    BY <1>11 DEF Held, FrameOK
  <2>3. \A m \in Jobs : jobs'[m].state = "none" <=> jobs[m].state = "none"
    BY <1>1, <1>11, <2>2 DEF JobEnds
  <2> QED
    BY <1>5, <1>11, <2>1, <2>3 DEF Idle
<1>12. ASSUME NEW p \in Procs, NEW f, Step(p, f), proc[p].at \in Going, f.at \in Going, UNCHANGED jobs PROVE OneJob'
  BY <1>3, <1>5, <1>12 DEF OneJob, Going
<1>13. ASSUME NEW p \in Procs, Claim(p) PROVE OneJob'
  <2>1. CASE CanClaim
    BY <1>12, <1>13, <2>1 DEF Claim, Going
  <2>2. CASE ~CanClaim
    BY <1>11, <1>13, <2>2 DEF Claim, Going
  <2> QED
    BY <2>1, <2>2
<1>14. ASSUME NEW p \in Procs, ShowRunning(p) \/ Evaluate(p) \/ WriteReport(p) PROVE OneJob'
  <2>1. proc[p].at \in Going /\ UNCHANGED jobs
    BY <1>14 DEF ShowRunning, Evaluate, WriteReport, Going
  <2>2. CASE ShowRunning(p)
    BY <1>12, <2>1, <2>2 DEF ShowRunning, Going
  <2>3. CASE Evaluate(p)
    BY <1>12, <2>1, <2>3 DEF Evaluate, Write, Going
  <2>4. CASE WriteReport(p)
    <3>1. Step(p, EndFrame("show", proc[p].status, proc[p].how, proc[p].job))
      BY <1>1, <2>4, FrameFields DEF WriteReport
    <3> QED
      BY <1>12, <2>1, <3>1 DEF EndFrame, Going
  <2> QED
    BY <1>14, <2>2, <2>3, <2>4
<1>15. ASSUME NEW p \in Procs, ShowStatus(p) PROVE OneJob'
  BY <1>11, <1>15 DEF ShowStatus, Going
<1>16. ASSUME NEW p \in Procs, Die(p) PROVE OneJob'
  <2>1. p \in Procs \ Retriers
    BY <1>3, <1>16 DEF OneJob, Die, Failing
  <2>2. p \in Slots => proc[p].job \in Jobs /\ jobs[proc[p].job].state = "active"
    BY <1>16 DEF Held, FrameOK, Die, Failing
  <2>3. \A m \in Jobs : jobs'[m].state = "none" <=> jobs[m].state = "none"
    BY <1>1, <1>16, <2>2 DEF Die, HasJob
  <2> QED
    BY <1>5, <1>16, <2>1, <2>3 DEF Idle, Die
<1>17. ASSUME NEW p \in Procs, StatementFails(p) PROVE OneJob'
  <2>1. proc[p].at \in Going
    BY <1>17 DEF StatementFails, Going
  <2>2. CASE JobEnds(proc[p].job, TRUE) /\ Step(p, Idle)
    BY <1>11, <2>1, <2>2
  <2>3. CASE UNCHANGED jobs /\ Write(p, "FAILED", "catch")
    BY <1>12, <2>1, <2>3 DEF Write, Going
  <2>4. CASE UNCHANGED jobs /\ proc[p].at = "write" /\ Step(p, [proc[p] EXCEPT !.at = "show"])
    <3>1. Step(p, EndFrame("show", proc[p].status, proc[p].how, proc[p].job))
      BY <1>1, <2>4, FrameFields
    <3> QED
      BY <1>12, <2>1, <2>4, <3>1 DEF EndFrame, Going
  <2> QED
    BY <1>17, <2>2, <2>3, <2>4 DEF StatementFails
<1>18. CASE Tick \/ UNCHANGED vars
  BY <1>18 DEF Tick, vars, OneJob
<1> QED
  BY <1>2, <1>6, <1>7, <1>8, <1>9, <1>10, <1>13, <1>14, <1>15, <1>16, <1>17, <1>18
     DEF Next, WebStep, Run, Procs, Web

LEMMA LeftStays ==
  ASSUME TypeOK, TypeOK', Held, Runner, OneJob, Left, [Next]_vars
  PROVE  Left'
<1> SUFFICES ASSUME deaths' + errors' + retries' = 0, ~taken', Attempted'
             PROVE  report' \in Final \/ Working' # {}
  BY DEF Left
<1> USE Constants
<1>1. /\ retries \in Nat /\ deaths \in Nat /\ errors \in Nat
      /\ proc \in [Procs -> Frames] /\ jobs \in [Jobs -> JobRecords] /\ Slots \subseteq Procs
  <2>1. retries \in Nat
    BY TypeParts
  <2> QED
    BY <2>1, TypeParts DEF Procs
<1>0. retries' = 0 /\ deaths' = 0 /\ errors' = 0
  <2>1. retries' \in 0 .. MaxRetries /\ {deaths, errors}' \subseteq Nat
    BY DEF TypeOK
  <2>2. retries' \in Nat /\ deaths' \in Nat /\ errors' \in Nat
    BY <2>1
  <2>3. \A i, j, k \in Nat : i + j + k = 0 => i = 0 /\ j = 0 /\ k = 0
    OBVIOUS
  <2> QED
    BY <2>2, <2>3
<1> DEFINE Goal == report' \in Final \/ Working' # {}
           At(p) == proc[p].at \in {"claimed", "evaluate", "write"}
<1>2. ASSUME UNCHANGED <<retries, deaths, errors, report>>, ~taken, Working' = Working, Attempted PROVE Goal
  BY <1>2 DEF Left
\* A step outside the run that ends no job.
<1>3. ASSUME NEW p \in Procs, NEW f, Step(p, f), ~At(p), f.at \notin {"claimed", "evaluate", "write", "show"},
             UNCHANGED <<retries, deaths, errors, report, taken>>,
             \A n \in Jobs : jobs'[n].state = "done" => jobs[n].state = "done"
      PROVE  Goal
  <2>1. proc'[p] = f /\ \A q \in Procs : q # p => proc'[q] = proc[q]
    BY <1>1, <1>3 DEF Step
  <2>2. Working' = Working
    BY <1>3, <2>1 DEF Working
  <2>3. Attempted
    BY <1>1, <1>3, <2>1 DEF Attempted
  <2> QED
    BY <1>2, <1>3, <2>2, <2>3
<1>4. ASSUME NEW p \in Procs, NEW f, Step(p, f), f.at \in {"claimed", "evaluate", "write"} PROVE Goal
  <2>1. p \in Working'
    BY <1>1, <1>4 DEF Step, Working
  <2> QED
    BY <2>1
<1>5. ASSUME NEW w \in Retriers, Retry(w) PROVE FALSE
  BY <1>0, <1>1, <1>5 DEF Retry
<1>6. ASSUME NEW w \in Web, Schedule(w) PROVE Goal
  <2>1. /\ UNCHANGED <<jobs, retries, deaths, errors, report, taken>> /\ ~At(w)
        /\ \E f : Step(w, f) /\ f.at \in {"enqueue", "claim", "idle"}
    BY <1>6 DEF Schedule, Inline, Idle
  <2> QED
    BY <1>3, <2>1 DEF Procs
<1>7. ASSUME NEW w \in Web, Enqueue(w) PROVE Goal
  <2>1. /\ UNCHANGED <<retries, deaths, errors, report, taken>> /\ ~At(w)
        /\ \E f : Step(w, f) /\ f.at \in {"claim", "idle"}
    BY <1>7 DEF Enqueue, Inline, Idle
  <2>2. \A n \in Jobs : jobs'[n].state = "done" => jobs[n].state = "done"
    BY <1>1, <1>7 DEF Enqueue, Inline, AddJob
  <2> QED
    BY <1>3, <2>1, <2>2 DEF Procs
<1>8. ASSUME NEW w \in Web, Reset(w) \/ ResetRoom(w) PROVE FALSE
  <2>1. retries = 0
    BY <1>0, <1>8 DEF Reset, ResetRoom
  <2> QED
    BY <1>8, <2>1 DEF OneJob, Web, Reset, ResetRoom
<1>9. ASSUME NEW s \in Slots, TakeJob(s) PROVE Goal
  <2>1. PICK n \in Jobs : /\ jobs' = [jobs EXCEPT ![n].state = "active"]
                          /\ Step(s, [at |-> "claim", final |-> IsFinalAttempt(n), job |-> n])
    BY <1>9 DEF TakeJob
  <2>2. \A m \in Jobs : jobs'[m].state = "done" => jobs[m].state = "done"
    BY <1>1, <2>1 DEF JobRecords
  <2> QED
    BY <1>1, <1>3, <1>9, <2>1, <2>2 DEF TakeJob
<1>10. ASSUME NEW w \in Procs, Sweep(w) PROVE Goal
  BY <1>3, <1>10 DEF Sweep
<1>11. ASSUME NEW p \in Procs, Claim(p) PROVE Goal
  <2>1. CASE CanClaim
    BY <1>4, <1>11, <2>1 DEF Claim
  <2>2. CASE ~CanClaim
    <3>1. /\ UNCHANGED <<report, taken, retries, deaths, errors>> /\ Step(p, Idle) /\ proc[p].at = "claim"
      BY <1>11, <2>2 DEF Claim
    <3>2. report \in {"RUNNING", "COMPLETED"}
      BY <2>2, TypeParts DEF CanClaim, Statuses, Final
    <3>3. Working' = Working
      BY <1>1, <3>1 DEF Working, Step, Idle
    <3>4. deaths + errors = 0 /\ ~taken
      BY <1>0, <3>1
    <3> QED
      BY <3>1, <3>2, <3>3, <3>4 DEF Runner, Final
  <2> QED
    BY <2>1, <2>2
<1>12. ASSUME NEW p \in Procs, ShowRunning(p) \/ Evaluate(p) PROVE Goal
  <2>1. CASE ShowRunning(p)
    BY <1>4, <2>1 DEF ShowRunning
  <2>2. CASE Evaluate(p)
    BY <1>4, <2>2 DEF Evaluate, Write
  <2> QED
    BY <1>12, <2>1, <2>2
<1>13. ASSUME NEW p \in Procs, WriteReport(p) PROVE Goal
  <2> DEFINE f == EndFrame("show", proc[p].status, proc[p].how, proc[p].job)
  <2>1. /\ report' = proc[p].status /\ proc[p].status \in Final \cup {"PENDING"} /\ Step(p, f)
        /\ UNCHANGED <<jobs, retries>> /\ proc[p].at = "write"
    BY <1>1, <1>13, FrameFields DEF WriteReport
  <2>2. retries = 0
    BY <1>0, <2>1
  <2>3. SUFFICES ASSUME proc[p].status = "PENDING" PROVE FALSE
    BY <2>1
  <2>4. FrameOK(p, proc[p], jobs)
    BY DEF Held
  <2>5. p \in Slots /\ proc[p].how = "giveBack" /\ proc[p].job \in Jobs /\ jobs[proc[p].job].state = "active"
    BY <2>1, <2>3, <2>4 DEF FrameOK, Going
  <2>6. \A n \in Jobs : jobs[n].state # "none" => n = proc[p].job
    BY <2>2, <2>5 DEF OneJob
  <2>7. \A n \in Jobs : jobs'[n].state # "done"
    BY <2>1, <2>5, <2>6
  <2>8. ASSUME NEW s \in Slots, proc'[s].at = "show", proc'[s].how # "giveBack" PROVE FALSE
    <3>1. s # p
      BY <1>1, <2>1, <2>5, <2>8 DEF Step, EndFrame
    <3>2. proc[s].at = "show"
      BY <1>1, <2>1, <2>8, <3>1 DEF Step
    <3>3. proc[s].job \in Jobs /\ jobs[proc[s].job].state = "active"
      BY <1>1, <3>2 DEF Held, FrameOK, Going
    <3> QED
      BY <2>1, <2>5, <2>6, <3>1, <3>2, <3>3 DEF Held
  <2> QED
    BY <2>7, <2>8 DEF Attempted
<1>14. ASSUME NEW p \in Procs, ShowStatus(p) PROVE Goal
  <2>1. /\ UNCHANGED <<report, taken, retries, deaths, errors>> /\ Step(p, Idle) /\ proc[p].at = "show"
        /\ JobEnds(proc[p].job, proc[p].how # "result")
    BY <1>14 DEF ShowStatus
  <2>2. proc'[p].at = "idle" /\ \A q \in Procs : q # p => proc'[q] = proc[q]
    BY <1>1, <2>1 DEF Step, Idle
  <2>3. Working' = Working
    BY <2>1, <2>2 DEF Working
  <2>4. FrameOK(p, proc[p], jobs)
    BY DEF Held
  <2>5. Attempted
    <3>1. CASE p \in Slots /\ proc[p].how # "giveBack"
      BY <2>1, <3>1 DEF Attempted
    <3>2. CASE p \in Slots /\ proc[p].how = "giveBack"
      <4>1. PICK n \in Jobs : n = proc[p].job /\ n # NoJob /\ jobs[n].made + 1 < JobAttempts
        BY <2>1, <2>4, <3>2 DEF FrameOK, Going
      <4>2. jobs' = [jobs EXCEPT ![n] = [made |-> jobs[n].made + 1, state |-> "waiting"]]
        BY <1>1, <2>1, <3>2, <4>1 DEF JobEnds
      <4>3. \A m \in Jobs : jobs'[m].state = "done" => jobs[m].state = "done"
        BY <1>1, <4>2
      <4> QED
        BY <1>1, <2>2, <4>3 DEF Attempted
    <3>3. CASE p \notin Slots
      <4>1. UNCHANGED jobs
        BY <2>1, <2>4, <3>3 DEF FrameOK, Going, JobEnds
      <4> QED
        BY <1>1, <2>2, <3>3, <4>1 DEF Attempted
    <3> QED
      BY <3>1, <3>2, <3>3
  <2> QED
    BY <1>2, <2>1, <2>3, <2>5
<1>15. CASE Tick \/ UNCHANGED vars
  <2>1. UNCHANGED <<report, taken, retries, deaths, errors, proc, jobs>>
    BY <1>15 DEF Tick, vars
  <2>2. Working' = Working /\ Attempted
    BY <2>1 DEF Working, Attempted
  <2> QED
    BY <1>2, <2>1, <2>2
<1>16. ASSUME NEW p \in Procs, Die(p) \/ StatementFails(p) PROVE FALSE
  <2>1. deaths' = deaths + 1 \/ errors' = errors + 1
    BY <1>16 DEF Die, StatementFails
  <2> QED
    BY <1>0, <1>1, <2>1
<1> QED
  BY <1>5, <1>6, <1>7, <1>8, <1>9, <1>10, <1>11, <1>12, <1>13, <1>14, <1>15, <1>16
     DEF Next, WebStep, Run, Procs, Web
-----------------------------------------------------------------------------
(* The room's copy                                                         *)

LEMMA InStepStays ==
  ASSUME TypeOK, TypeOK', InStep, [Next]_vars
  PROVE  InStep'
<1> DEFINE Between == {"resetRoom", "claimed", "show"}
           Goal == /\ \A p, q \in Procs : Busy(p)' /\ Busy(q)' => p = q
                   /\ \A p \in Procs : ShownBy(p)'
                   /\ shown' = report' \/ \E p \in Procs : proc'[p].at \in Between
<1> SUFFICES ASSUME deaths' + errors' = 0, ~crossed' PROVE Goal
  BY DEF InStep
<1>1. proc \in [Procs -> Frames] /\ deaths \in Nat /\ errors \in Nat
  BY TypeParts
<1>2. deaths' = 0 /\ errors' = 0
  <2>1. {deaths, errors}' \subseteq Nat
    BY DEF TypeOK
  <2>2. deaths' \in Nat /\ errors' \in Nat
    BY <2>1
  <2>3. \A i, j \in Nat : i + j = 0 => i = 0 /\ j = 0
    OBVIOUS
  <2> QED
    BY <2>2, <2>3
<1>3. ASSUME UNCHANGED <<deaths, errors, crossed>>
      PROVE  /\ \A p, q \in Procs : Busy(p) /\ Busy(q) => p = q
             /\ \A p \in Procs : ShownBy(p)
             /\ shown = report \/ \E p \in Procs : proc[p].at \in Between
  BY <1>2, <1>3 DEF InStep
\* A step before a run or a retry, or of one that ends there.
<1>4. ASSUME NEW p \in Procs, NEW f, Step(p, f), ~Busy(p), f.at \in {"idle", "reset", "schedule", "enqueue", "claim"},
             UNCHANGED <<report, shown, crossed, deaths, errors>>
      PROVE  Goal
  <2>1. proc'[p] = f /\ \A q \in Procs : q # p => proc'[q] = proc[q]
    BY <1>1, <1>4 DEF Step
  <2>2. ~Busy(p)' /\ ShownBy(p)'
    BY <1>4, <2>1 DEF Busy, ShownBy
  <2>3. \A q \in Procs : q # p => (Busy(q)' <=> Busy(q)) /\ (ShownBy(q)' <=> ShownBy(q))
    BY <1>4, <2>1 DEF Busy, ShownBy
  <2>4. shown = report \/ \E q \in Procs : q # p /\ proc[q].at \in Between
    BY <1>3, <1>4 DEF Busy
  <2>5. shown' = report' \/ \E q \in Procs : proc'[q].at \in Between
    BY <1>4, <2>1, <2>4
  <2> QED
    BY <1>3, <1>4, <2>2, <2>3, <2>5
\* The first update of a run or a retry: no other is between its own.
<1>5. ASSUME NEW p \in Procs, NEW f, Step(p, f), Crosses(p),
             \/ f.at = "resetRoom" /\ report' = "PENDING"
             \/ f.at = "claimed" /\ report' = "RUNNING"
      PROVE  Goal
  <2>1. proc'[p] = f /\ \A q \in Procs : q # p => proc'[q] = proc[q]
    BY <1>1, <1>5 DEF Step
  <2>2. \A q \in Procs : q # p => ~Busy(q)
    BY <1>5 DEF Crosses
  <2>3. \A q \in Procs : q # p => ~Busy(q)' /\ ShownBy(q)'
    BY <2>1, <2>2 DEF Busy, ShownBy
  <2>4. ShownBy(p)' /\ proc'[p].at \in Between
    BY <1>5, <2>1 DEF ShownBy
  <2> QED
    BY <2>3, <2>4
\* The steps in between.
<1>6. ASSUME NEW p \in Procs, NEW f, Step(p, f), Busy(p), UNCHANGED <<crossed, deaths, errors>>,
             f.at \in {"idle", "schedule", "evaluate", "write", "show"},
             f.at \in {"evaluate", "write"} => report' = "RUNNING",
             IF f.at = "show" THEN report' = f.status ELSE shown' = report'
      PROVE  Goal
  <2>1. proc'[p] = f /\ \A q \in Procs : q # p => proc'[q] = proc[q]
    BY <1>1, <1>6 DEF Step
  <2>2. \A q \in Procs : q # p => ~Busy(q)
    BY <1>3, <1>6
  <2>3. \A q \in Procs : q # p => ~Busy(q)' /\ ShownBy(q)'
    BY <2>1, <2>2 DEF Busy, ShownBy
  <2>4. ShownBy(p)'
    BY <1>6, <2>1 DEF ShownBy
  <2>5. shown' = report' \/ proc'[p].at \in Between
    BY <1>6, <2>1
  <2> QED
    BY <2>3, <2>4, <2>5
<1>7. ASSUME NEW w \in Procs, Retry(w) PROVE Goal
  <2>1. /\ UNCHANGED <<report, shown, crossed, deaths, errors>> /\ ~Busy(w)
        /\ \E f : Step(w, f) /\ f.at \in {"schedule", "reset"}
    BY <1>7 DEF Retry, Busy
  <2> QED
    BY <1>4, <2>1
<1>8. ASSUME NEW w \in Procs, Schedule(w) \/ Enqueue(w) PROVE Goal
  <2>1. UNCHANGED <<report, shown, crossed, deaths, errors>> /\ ~Busy(w)
    BY <1>8 DEF Schedule, Enqueue, Busy
  <2>2. \E f : Step(w, f) /\ f.at \in {"enqueue", "claim", "idle"}
    BY <1>8 DEF Schedule, Enqueue, Inline, Idle
  <2> QED
    BY <1>4, <2>1, <2>2
<1>9. ASSUME NEW w \in Procs, Reset(w) PROVE Goal
  BY <1>5, <1>9 DEF Reset
<1>10. ASSUME NEW w \in Procs, ResetRoom(w) PROVE Goal
  <2>1. Busy(w) /\ UNCHANGED <<report, crossed, deaths, errors>> /\ shown' = "PENDING" /\ proc[w].at = "resetRoom"
    BY <1>10 DEF ResetRoom, Busy
  <2>2. report = "PENDING"
    BY <1>3, <2>1 DEF ShownBy
  <2> QED
    BY <1>6, <1>10, <2>1, <2>2 DEF ResetRoom
<1>11. ASSUME NEW s \in Procs, TakeJob(s) \/ Sweep(s) PROVE Goal
  <2>1. UNCHANGED <<report, shown, crossed, deaths, errors>> /\ ~Busy(s)
    BY <1>11 DEF TakeJob, Sweep, Busy
  <2>2. \E f : Step(s, f) /\ f.at = "claim"
    <3>1. CASE TakeJob(s)
      BY <3>1 DEF TakeJob
    <3>2. CASE Sweep(s)
      BY <3>2 DEF Sweep
    <3> QED
      BY <1>11, <3>1, <3>2
  <2> QED
    BY <1>4, <2>1, <2>2
<1>12. ASSUME NEW p \in Procs, Claim(p) PROVE Goal
  <2>1. CASE CanClaim
    BY <1>5, <1>12, <2>1 DEF Claim
  <2>2. CASE ~CanClaim
    <3>1. UNCHANGED <<report, shown, crossed, deaths, errors>> /\ ~Busy(p) /\ Step(p, Idle) /\ Idle.at = "idle"
      BY <1>12, <2>2 DEF Claim, Busy, Idle
    <3> QED
      BY <1>4, <3>1
  <2> QED
    BY <2>1, <2>2
<1>13. ASSUME NEW p \in Procs, ShowRunning(p) PROVE Goal
  <2>1. Busy(p) /\ UNCHANGED <<report, crossed, deaths, errors>> /\ shown' = "RUNNING" /\ proc[p].at = "claimed"
    BY <1>13 DEF ShowRunning, Busy
  <2>2. report = "RUNNING"
    BY <1>3, <2>1 DEF ShownBy
  <2> QED
    BY <1>6, <1>13, <2>1, <2>2 DEF ShowRunning
<1>14. ASSUME NEW p \in Procs, Evaluate(p) PROVE Goal
  <2>1. Busy(p) /\ UNCHANGED <<report, shown, crossed, deaths, errors>> /\ proc[p].at = "evaluate"
    BY <1>14 DEF Evaluate, Busy
  <2>2. report = "RUNNING" /\ shown = "RUNNING"
    BY <1>3, <2>1 DEF ShownBy
  <2>3. \E f : Step(p, f) /\ f.at = "write"
    BY <1>14 DEF Evaluate, Write
  <2> QED
    BY <1>6, <2>1, <2>2, <2>3
<1>15. ASSUME NEW p \in Procs, WriteReport(p) PROVE Goal
  <2> DEFINE f == EndFrame("show", proc[p].status, proc[p].how, proc[p].job)
  <2>1. /\ Busy(p) /\ UNCHANGED <<crossed, deaths, errors>> /\ report' = proc[p].status
        /\ Step(p, f) /\ f.at = "show" /\ f.status = proc[p].status
    BY <1>1, <1>15, FrameFields DEF WriteReport, Busy, EndFrame
  <2> HIDE DEF f
  <2> QED
    BY <1>6, <2>1
<1>16. ASSUME NEW p \in Procs, ShowStatus(p) PROVE Goal
  <2>1. /\ Busy(p) /\ UNCHANGED <<report, crossed, deaths, errors>> /\ shown' = proc[p].status
        /\ proc[p].at = "show" /\ Step(p, Idle) /\ Idle.at = "idle"
    BY <1>16 DEF ShowStatus, Busy, Idle
  <2>2. report = proc[p].status
    BY <1>3, <2>1 DEF ShownBy
  <2> QED
    BY <1>6, <2>1, <2>2
<1>17. CASE Tick \/ UNCHANGED vars
  BY <1>3, <1>17 DEF Tick, vars, Busy, ShownBy
<1>18. ASSUME NEW p \in Procs, Die(p) \/ StatementFails(p) PROVE FALSE
  <2>1. deaths' = deaths + 1 \/ errors' = errors + 1
    BY <1>18 DEF Die, StatementFails
  <2> QED
    BY <1>1, <1>2, <2>1
<1> HIDE DEF Goal
<1> QED
  BY <1>7, <1>8, <1>9, <1>10, <1>11, <1>12, <1>13, <1>14, <1>15, <1>16, <1>17, <1>18
     DEF Next, WebStep, Run, Procs, Web

-----------------------------------------------------------------------------
(* The theorems                                                            *)

LEMMA InductiveStays == Inductive /\ [Next]_vars => Inductive'
  BY HeldStays, RunnersStay, OneJobStays, LeftStays, InStepStays DEF Inductive

\* What every state satisfies, from which the others follow: a job is held by
\* one slot, a report that says RUNNING is worked on, and so on.
THEOREM InductiveInvariant == Spec => []Inductive
  BY Initially, InductiveStays, PTL DEF Spec

\* Every process is at a point of its handler with the data it needs there, and
\* every job has at most the attempts it is given (packages/engine/src/queues.ts).
THEOREM TypeCorrect == Spec => []TypeOK
<1>1. Inductive => TypeOK
  BY DEF Inductive
<1> QED
  BY <1>1, InductiveInvariant, PTL

\* The conditional update of claim lets one process evaluate, whoever dies, as
\* long as no report is taken from a run (evaluation/service.ts, claim).
THEOREM OneRuns == Spec => []OneRunner
<1>1. Inductive => OneRunner
  BY DEF Inductive
<1> QED
  BY <1>1, InductiveInvariant, PTL

\* A job whose attempts are used up leaves a result behind: a run gives its
\* report back only if its job has an attempt left (finalAttempt of
\* apps/worker), and before a retry no other job can have ended.
THEOREM JobsLeaveResults == Spec => []JobLeavesResult
<1>1. Inductive => JobLeavesResult
  BY DEF Inductive, Left, Attempted, JobLeavesResult
<1> QED
  BY <1>1, InductiveInvariant, PTL

\* The room's copy of the status lags behind the report only between the two
\* updates of runEvaluation and retryEvaluation, unless runs crossed.
THEOREM CopyFollows == Spec => []ShownFollows
<1>1. Inductive => ShownFollows
  BY DEF Inductive, InStep, ShownFollows
<1> QED
  BY <1>1, InductiveInvariant, PTL

\* No late or repeated run overwrites a completed report (runEvaluation writes
\* by the room alone: what keeps it from doing so is that it is the only one).
THEOREM CompletedStays == Spec => CompletedStands
<1>1. Inductive /\ [Next]_vars =>
        [(report = "COMPLETED" /\ ~taken' /\ errors' = 0) => report' = "COMPLETED"]_vars
  <2>1. Inductive /\ [Next]_vars => Inductive'
    BY InductiveStays
  <2> QED
    BY <2>1, RunnersStay DEF Inductive
<1> QED
  BY <1>1, InductiveInvariant, PTL DEF Spec, CompletedStands
=============================================================================
