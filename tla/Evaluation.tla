----------------------------- MODULE Evaluation -----------------------------
(***************************************************************************)
(* The evaluation of one completed interview                               *)
(* (packages/engine/src/evaluation/service.ts, apps/worker/src/index.ts,   *)
(* the evaluation queue of packages/engine/src/queues.ts): who runs it,    *)
(* how often, and what becomes of the report when requests, queue jobs and *)
(* the sweep meet.                                                         *)
(*                                                                         *)
(* Every statement on the database is a step of its own; what the model    *)
(* answers is a choice.  The report's row and the room's copy of its       *)
(* status are two rows, written one after the other.  The queue's delays   *)
(* and locks, the rate limit and the contents of the report are left out.  *)
(***************************************************************************)
EXTENDS Integers

CONSTANTS
  Completer,    \* the process that completed the room
  Retriers,     \* the requests for a retry that may be in flight at once
  Slots,        \* the jobs the worker runs at once (WORKER_CONCURRENCY)
  Sweepers,     \* the sweeps of the worker that may be under way at once
  Deployed,     \* is there a worker?
  Mode,         \* EVALUATION_MODE
  JobAttempts,  \* attempts of a queue job (3)
  MaxJobs,      \* bound on the numbers of jobs
  MaxRetries,   \* bound on the retries the candidate asks for
  MaxFailures   \* bound on processes that die and statements that fail

ASSUME ConstantsAssumption ==
  /\ Completer \notin Retriers \cup Slots \cup Sweepers
  /\ Retriers \cap Slots = {} /\ Sweepers \cap (Retriers \cup Slots) = {}
  /\ Deployed \in BOOLEAN
  /\ Mode \in {"auto", "queue", "inline"}
  /\ {JobAttempts, MaxJobs} \subseteq Nat \ {0}
  /\ {MaxRetries, MaxFailures} \subseteq Nat

VARIABLES
  report,    \* InterviewReport.status
  attempts,  \* InterviewReport.attempts, counted up to MaxJobs
  age,       \* of InterviewReport.updatedAt: "fresh", "old" (5 min), "stale" (10 min)
  shown,     \* InterviewRoom.evaluationStatus
  jobs,      \* n -> the queue's job eval-<room>-<n>
  proc,      \* process -> where it stands in its handler
  retries,   \* how many retries have been asked for
  deaths,    \* how many processes have died
  errors,    \* how many statements have failed
  taken,     \* history: has a report been taken from the run that had claimed it?
  crossed    \* history: has a run or a retry begun before another had ended?

vars == <<report, attempts, age, shown, jobs, proc, retries, deaths, errors, taken, crossed>>

Web == Retriers \cup {Completer}
Procs == Web \cup Slots \cup Sweepers
Final == {"COMPLETED", "FAILED"}
Statuses == {"PENDING", "RUNNING"} \cup Final
NoJob == 0
Jobs == 1 .. MaxJobs

\* Where a process stands.  `runs' tells whether the caller of
\* scheduleEvaluation runs the evaluation itself when it is told "inline";
\* `final' is RunOptions.finalAttempt; `how' is how runEvaluation ends: with a
\* result, by giving the report back for another attempt, or in its catch.
Frames ==
  [at : {"idle"}]
    \cup [at : {"reset", "resetRoom"}, saw : {"FAILED", "RUNNING"}]
    \cup [at : {"schedule"}, runs : BOOLEAN]
    \cup [at : {"enqueue"}, runs : BOOLEAN, job : Jobs]
    \cup [at : {"claim", "claimed", "evaluate"}, final : BOOLEAN, job : {NoJob} \cup Jobs]
    \cup [at : {"write", "show"}, status : Final \cup {"PENDING"},
          how : {"result", "giveBack", "catch"}, job : {NoJob} \cup Jobs]

Idle == [at |-> "idle"]

TypeOK ==
  /\ report \in Statuses /\ shown \in Statuses
  /\ attempts \in 0 .. MaxJobs
  /\ age \in {"fresh", "old", "stale"}
  /\ jobs \in [Jobs -> [state : {"none", "waiting", "active", "done"},
                        made : 0 .. JobAttempts]]
  /\ proc \in [Procs -> Frames]
  /\ retries \in 0 .. MaxRetries
  /\ deaths + errors \in 0 .. MaxFailures /\ {deaths, errors} \subseteq Nat
  /\ {taken, crossed} \subseteq BOOLEAN

\* completeRoom has committed and calls scheduleEvaluation: for a route that
\* looks at the answer (complete, advance), for getInterview or for the sweep.
Init ==
  /\ report = "PENDING" /\ shown = "PENDING"
  /\ attempts = 0
  /\ age = "fresh"
  /\ jobs = [n \in Jobs |-> [state |-> "none", made |-> 0]]
  /\ \E runs \in BOOLEAN :
       proc = [p \in Procs |-> IF p = Completer THEN [at |-> "schedule", runs |-> runs] ELSE Idle]
  /\ retries = 0
  /\ deaths = 0 /\ errors = 0
  /\ taken = FALSE /\ crossed = FALSE

Step(p, frame) == proc' = [proc EXCEPT ![p] = frame]

\* A process that has written the report, or will, and is not through.
Busy(p) == proc[p].at \in {"resetRoom", "claimed", "evaluate", "write", "show"}

\* Is another process in the middle when p begins?
Crosses(p) == crossed' = (crossed \/ \E q \in Procs \ {p} : Busy(q))

-----------------------------------------------------------------------------
(* scheduleEvaluation                                                      *)

\* The answer "inline": the caller runs the evaluation after it has responded,
\* or drops the answer.
Inline(w) ==
  /\ Step(w, IF proc[w].runs THEN [at |-> "claim", final |-> TRUE, job |-> NoJob] ELSE Idle)
  /\ UNCHANGED jobs

\* Read the number of attempts and the worker's heartbeat, which may be missing
\* though the worker is up.
Schedule(w) ==
  /\ proc[w].at = "schedule"
  /\ \/ /\ Mode = "queue" \/ (Mode = "auto" /\ Deployed)
        /\ attempts + 1 \in Jobs
        /\ Step(w, [at |-> "enqueue", runs |-> proc[w].runs, job |-> attempts + 1])
        /\ UNCHANGED jobs
     \/ Mode # "queue" /\ Inline(w)
  /\ UNCHANGED <<report, attempts, age, shown, retries, deaths, errors, taken, crossed>>

\* A job whose number the queue has seen before is not added.
AddJob(n) ==
  IF jobs[n].state = "none" THEN [jobs EXCEPT ![n] = [state |-> "waiting", made |-> 0]]
                            ELSE jobs

Enqueue(w) ==
  /\ proc[w].at = "enqueue"
  /\ \/ jobs' = AddJob(proc[w].job) /\ Step(w, Idle)
     \/ Inline(w)
  /\ UNCHANGED <<report, attempts, age, shown, retries, deaths, errors, taken, crossed>>

-----------------------------------------------------------------------------
(* retryEvaluation                                                         *)

\* Failed, or stuck.
MayReset == report = "FAILED" \/ (report = "RUNNING" /\ age = "stale")

Retry(w) ==
  /\ proc[w].at = "idle"
  /\ retries < MaxRetries
  /\ retries' = retries + 1
  /\ \/ report = "PENDING" /\ Step(w, [at |-> "schedule", runs |-> TRUE])
     \/ /\ MayReset
        /\ Step(w, [at |-> "reset", saw |-> report])
  /\ UNCHANGED <<report, attempts, age, shown, jobs, deaths, errors, taken, crossed>>

\* Back to PENDING, whatever the report is by now.
Reset(w) ==
  /\ proc[w].at = "reset"
  /\ report' = "PENDING"
  /\ age' = "fresh"
  /\ taken' = (taken \/ report \in {"RUNNING", "COMPLETED"})
  /\ Crosses(w)
  /\ Step(w, [at |-> "resetRoom", saw |-> proc[w].saw])
  /\ UNCHANGED <<attempts, shown, jobs, retries, deaths, errors>>

ResetRoom(w) ==
  /\ proc[w].at = "resetRoom"
  /\ shown' = "PENDING"
  /\ Step(w, [at |-> "schedule", runs |-> TRUE])
  /\ UNCHANGED <<report, attempts, age, jobs, retries, deaths, errors, taken, crossed>>

-----------------------------------------------------------------------------
(* The worker                                                              *)

\* MUTANT of IsFinalAttempt: off by one.
IsFinalAttemptLate(n) == jobs[n].made >= JobAttempts

IsFinalAttempt(n) == jobs[n].made + 1 >= JobAttempts

TakeJob(s) ==
  /\ Deployed
  /\ proc[s].at = "idle"
  /\ \E n \in Jobs :
       /\ jobs[n].state = "waiting"
       /\ jobs' = [jobs EXCEPT ![n].state = "active"]
       /\ Step(s, [at |-> "claim", final |-> IsFinalAttempt(n), job |-> n])
  /\ UNCHANGED <<report, attempts, age, shown, retries, deaths, errors, taken, crossed>>

\* MUTANT of MaySweep: the sweep looks only for reports no run has tried.
MaySweepNew == report = "PENDING" /\ age # "fresh" /\ attempts = 0

MaySweep == report = "PENDING" /\ age # "fresh"

\* MUTANT of Sweep: the run of the sweep counts on another attempt.
SweepNotFinal(w) ==
  /\ Deployed
  /\ proc[w].at = "idle"
  /\ MaySweep
  /\ Step(w, [at |-> "claim", final |-> FALSE, job |-> NoJob])
  /\ UNCHANGED <<report, attempts, age, shown, jobs, retries, deaths, errors, taken, crossed>>

\* Reports left PENDING for five minutes are run by the sweep itself.  The next
\* sweep does not wait for it.
Sweep(w) ==
  /\ Deployed
  /\ proc[w].at = "idle"
  /\ MaySweep
  /\ Step(w, [at |-> "claim", final |-> TRUE, job |-> NoJob])
  /\ UNCHANGED <<report, attempts, age, shown, jobs, retries, deaths, errors, taken, crossed>>

-----------------------------------------------------------------------------
(* runEvaluation                                                           *)

\* A job that ends is done; one that throws is attempted again while it may.
JobEnds(n, throws) ==
  jobs' = IF n = NoJob THEN jobs
          ELSE [jobs EXCEPT ![n] =
                  [made |-> @.made + 1,
                   state |-> IF throws /\ @.made + 1 < JobAttempts THEN "waiting" ELSE "done"]]

\* MUTANTS of CanClaim: any run may be taken over at once; a completed report
\* may be evaluated again.
CanClaimAnyRun == report # "COMPLETED"
CanClaimResult == report # "RUNNING"

\* The WHERE of the conditional update of claim.
CanClaim ==
  \/ report \in {"PENDING", "FAILED"}
  \/ report = "RUNNING" /\ age = "stale"

Claim(p) ==
  /\ proc[p].at = "claim"
  /\ \/ /\ CanClaim
        /\ report' = "RUNNING"
        /\ attempts' = IF attempts < MaxJobs THEN attempts + 1 ELSE attempts
        /\ age' = "fresh"
        /\ taken' = (taken \/ (report = "RUNNING" /\ age = "stale"))
        /\ Crosses(p)
        /\ Step(p, [at |-> "claimed", final |-> proc[p].final, job |-> proc[p].job])
        /\ UNCHANGED jobs
     \/ /\ ~CanClaim
        /\ JobEnds(proc[p].job, FALSE)
        /\ Step(p, Idle)
        /\ UNCHANGED <<report, attempts, age, taken, crossed>>
  /\ UNCHANGED <<shown, retries, deaths, errors>>

ShowRunning(p) ==
  /\ proc[p].at = "claimed"
  /\ shown' = "RUNNING"
  /\ Step(p, [at |-> "evaluate", final |-> proc[p].final, job |-> proc[p].job])
  /\ UNCHANGED <<report, attempts, age, jobs, retries, deaths, errors, taken, crossed>>

Write(p, status, how) ==
  Step(p, [at |-> "write", status |-> status, how |-> how, job |-> proc[p].job])

\* Ask the model about every question.  All answers are there, or some are
\* missing for good or on the last attempt, or some may still come, or anything
\* on the way has thrown.
Evaluate(p) ==
  /\ proc[p].at = "evaluate"
  /\ \/ Write(p, "COMPLETED", "result")
     \/ Write(p, "FAILED", "result")
     \/ ~proc[p].final /\ Write(p, "PENDING", "giveBack")
     \/ Write(p, "FAILED", "catch")
  /\ UNCHANGED <<report, attempts, age, shown, jobs, retries, deaths, errors, taken, crossed>>

\* The report is written by its room alone, whoever has claimed it by now.
WriteReport(p) ==
  /\ proc[p].at = "write"
  /\ report' = proc[p].status
  /\ age' = "fresh"
  /\ Step(p, [proc[p] EXCEPT !.at = "show"])
  /\ UNCHANGED <<attempts, shown, jobs, retries, deaths, errors, taken, crossed>>

\* MUTANT of ShowStatus: the room is told of a result only.
ShowResultOnly(p) ==
  /\ proc[p].at = "show"
  /\ shown' = IF proc[p].how = "result" THEN proc[p].status ELSE shown
  /\ JobEnds(proc[p].job, proc[p].how # "result")
  /\ Step(p, Idle)
  /\ UNCHANGED <<report, attempts, age, retries, deaths, errors, taken, crossed>>

ShowStatus(p) ==
  /\ proc[p].at = "show"
  /\ shown' = proc[p].status
  /\ JobEnds(proc[p].job, proc[p].how # "result")
  /\ Step(p, Idle)
  /\ UNCHANGED <<report, attempts, age, retries, deaths, errors, taken, crossed>>

-----------------------------------------------------------------------------
(* Time and failures                                                       *)

\* Five minutes pass.
Tick ==
  /\ report \notin Final
  /\ age # "stale"
  /\ age' = IF age = "fresh" THEN "old" ELSE "stale"
  /\ UNCHANGED <<report, attempts, shown, jobs, proc, retries, deaths, errors, taken, crossed>>

Failing(p) ==
  /\ proc[p].at # "idle"
  /\ deaths + errors < MaxFailures
  /\ UNCHANGED <<attempts, age, report, shown, retries, taken, crossed>>

HasJob(p) == p \in Slots

\* The process dies; a job it was running is given out again as stalled.
Die(p) ==
  /\ Failing(p)
  /\ deaths' = deaths + 1 /\ UNCHANGED errors
  /\ Step(p, Idle)
  /\ jobs' = IF HasJob(p) THEN [jobs EXCEPT ![proc[p].job].state = "waiting"] ELSE jobs

\* The next statement fails.  Inside the try it takes runEvaluation to the
\* catch, where failures are ignored; outside it ends the handler, which Die
\* shows, but for a job: its attempt has thrown.
StatementFails(p) ==
  /\ Failing(p)
  /\ errors' = errors + 1 /\ UNCHANGED deaths
  /\ \/ /\ proc[p].at \in {"write", "show"} /\ proc[p].how # "catch"
        /\ Write(p, "FAILED", "catch")
        /\ UNCHANGED jobs
     \/ /\ proc[p].at = "write" /\ proc[p].how = "catch"
        /\ Step(p, [proc[p] EXCEPT !.at = "show"])
        /\ UNCHANGED jobs
     \/ /\ proc[p].at = "show" /\ proc[p].how = "catch"
        /\ Step(p, Idle)
        /\ JobEnds(proc[p].job, TRUE)
     \/ /\ HasJob(p) /\ proc[p].at \in {"claim", "claimed"}
        /\ Step(p, Idle)
        /\ JobEnds(proc[p].job, TRUE)

-----------------------------------------------------------------------------

Run(p) ==
  Claim(p) \/ ShowRunning(p) \/ Evaluate(p) \/ WriteReport(p) \/ ShowStatus(p)

WebStep(w) == Schedule(w) \/ Enqueue(w) \/ Reset(w) \/ ResetRoom(w) \/ Run(w)

Next ==
  \/ \E w \in Retriers : Retry(w)
  \/ \E w \in Web : WebStep(w)
  \/ \E s \in Slots : TakeJob(s) \/ Run(s)
  \/ \E w \in Sweepers : Sweep(w) \/ Run(w)
  \/ Tick
  \/ \E p \in Procs : Die(p) \/ StatementFails(p)

Spec == Init /\ [][Next]_vars

(***************************************************************************)
(* What has begun goes on, the worker (if there is one) takes jobs and     *)
(* sweeps every minute, time passes.  Nobody has to press "retry".         *)
(***************************************************************************)
Fairness ==
  /\ WF_vars(Tick)
  /\ \A w \in Web : WF_vars(WebStep(w))
  /\ \A s \in Slots : WF_vars(TakeJob(s) \/ Run(s))
  /\ \A w \in Sweepers : WF_vars(Sweep(w) \/ Run(w))

FairSpec == Spec /\ Fairness

-----------------------------------------------------------------------------
(* Correctness                                                             *)

Working == {p \in Procs : proc[p].at \in {"claimed", "evaluate", "write"}}

\* claim is the only lock.  As long as no report was taken from a run (as stale
\* after ten minutes, or reset by a retry that had read an older status), at
\* most one process evaluates, and the report says so, whoever dies meanwhile.
OneRunner ==
  ~taken /\ errors = 0 =>
    /\ \A p, q \in Working : p = q
    /\ Working # {} => report = "RUNNING"

\* "The final attempt stores a partial, judge-based report" (apps/worker): when
\* nothing failed and nobody retried, a job whose attempts are used up leaves a
\* result behind, not a report that waits for one, unless another process is at
\* work on it.
JobLeavesResult ==
  deaths + errors + retries = 0 /\ ~taken =>
    \A n \in Jobs : jobs[n].state = "done" => report \in Final \/ Working # {}

\* The room's copy of the status, which the dashboard shows, lags behind the
\* report only while a process is between its two updates: unless runs crossed
\* or a process failed there, after which the two may differ for good.
ShownFollows ==
  deaths + errors = 0 /\ ~crossed =>
    shown = report \/ \E p \in Procs : proc[p].at \in {"resetRoom", "claimed", "show"}

\* "Duplicate or retried jobs never produce duplicate results" (apps/worker): a
\* completed report stays as it is, if it was not taken and no statement failed.
CompletedStands ==
  [][(report = "COMPLETED" /\ ~taken' /\ errors' = 0) => report' = "COMPLETED"]_vars

\* "Picks up evaluations that were left PENDING" (apps/worker): with a worker, a
\* pending report is run, whatever happened to its job.
PendingIsPickedUp == report = "PENDING" ~> report # "PENDING"

\* If nothing fails, the attempts come to an end and the report has a result.
Settles == <>[](deaths + errors > 0 \/ report \in Final)
=============================================================================
