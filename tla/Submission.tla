----------------------------- MODULE Submission -----------------------------
(***************************************************************************)
(* The submissions of one candidate                                        *)
(* (packages/engine/src/submissions/service.ts, the execution queue of     *)
(* packages/engine/src/queues.ts, apps/code-executor/src/index.ts): from   *)
(* the request that creates a submission, over the job that judges it, to  *)
(* the reads that copy the job's result into the database.                 *)
(*                                                                         *)
(* A submission is its idempotency key: (userId, idempotencyKey) is        *)
(* unique.  A result is what it was computed from.  Every statement on the *)
(* database and every call to Redis is a step of its own.  The tests, the  *)
(* verdicts, the kinds of runs, the draft and the event that are saved     *)
(* beside the submission, and the rate limit are left out.                 *)
(***************************************************************************)
EXTENDS Integers, FiniteSets

CONSTANTS
  Keys,         \* idempotency keys, one for each press of "run" or "submit"
  Polled,       \* the keys of the submissions that some page polls
  Requests,     \* the requests to create a submission in flight at once
  MaxActive,    \* MAX_ACTIVE_PER_USER (3)
  JobAttempts,  \* attempts of a queue job (2)
  MaxStalls,    \* maxStalledCount of the executor (1)
  MaxFailures   \* bound on processes that die and calls that fail

ASSUME ConstantsAssumption ==
  /\ Polled \subseteq Keys /\ Keys \cap Requests = {}
  /\ IsFiniteSet(Keys) /\ IsFiniteSet(Requests)
  /\ {MaxActive, JobAttempts} \subseteq Nat \ {0}
  /\ {MaxStalls, MaxFailures} \subseteq Nat

VARIABLES
  row,       \* key -> Submission.status and where its result comes from
  aged,      \* the keys of the submissions created more than 10 minutes ago
  open,      \* is the question active, in a room in progress, before its deadline?
  job,       \* key -> the queue's job of that id
  proc,      \* process -> where it stands in its handler
  unsure,    \* history: the jobs that were added though the call to add failed
  failures   \* how many processes have died and calls have failed

vars == <<row, aged, open, job, proc, unsure, failures>>

\* A page polls each submission that is pending on its own: the process that
\* polls a submission has its name.
Actors == Requests \cup Polled

Pending == {"QUEUED", "RUNNING"}
Final == {"COMPLETED", "FAILED"}
Judged == {"code", "nothing"}
Results == Judged \cup {"none", "fallback", "error"}
NewJob(state) == [state |-> state, files |-> TRUE, result |-> "none", made |-> 0, stalls |-> 0]
NoRow == [status |-> "none", result |-> "none"]

\* `got' is the result the job had when a reader fetched it.
Frames ==
  [at : {"idle"}]
    \cup [at : {"check", "count", "create", "dup", "enqueue", "fallback"}, key : Keys]
    \cup [at : {"fetch"}, key : Keys, saw : Pending]
    \cup [at : {"getState"}, key : Keys, saw : Pending, got : Judged \cup {"none"}]
    \cup [at : {"update"}, key : Keys, status : Final \cup {"RUNNING"},
          result : Judged \cup {"none", "error"}]

Idle == [at |-> "idle"]

TypeOK ==
  /\ row \in [Keys -> [status : {"none"} \cup Pending \cup Final, result : Results]]
  /\ aged \subseteq Keys
  /\ open \in BOOLEAN
  /\ job \in [Keys -> [state : {"none", "waiting", "active", "judged", "removed"} \cup Final,
                       files : BOOLEAN, result : Judged \cup {"none"},
                       made : 0 .. JobAttempts, stalls : 0 .. MaxStalls]]
  /\ proc \in [Actors -> Frames]
  /\ unsure \subseteq Keys
  /\ failures \in 0 .. MaxFailures

Init ==
  /\ row = [k \in Keys |-> NoRow]
  /\ aged = {}
  /\ open = TRUE
  /\ job = [k \in Keys |-> NewJob("none")]
  /\ proc = [a \in Actors |-> Idle]
  /\ unsure = {}
  /\ failures = 0

Step(a, frame) == proc' = [proc EXCEPT ![a] = frame]
Respond(a) == Step(a, Idle)
At(a, where) == proc[a].at = where
Goto(a, where) == Step(a, [at |-> where, key |-> proc[a].key])

MayFail == failures < MaxFailures /\ failures' = failures + 1

-----------------------------------------------------------------------------
(* createSubmission                                                        *)

\* finalizeSubmission of a row as it was just read.
Finalize(a, k) ==
  IF row[k].status \in Pending THEN Step(a, [at |-> "fetch", key |-> k, saw |-> row[k].status])
                               ELSE Respond(a)

\* A request, or the same one again: a key that exists is only finalised.
Submit(r) ==
  /\ At(r, "idle")
  /\ \E k \in Keys :
       \/ row[k].status = "none" /\ Step(r, [at |-> "check", key |-> k])
       \/ row[k].status \in Pending /\ Finalize(r, k)
  /\ UNCHANGED <<row, aged, open, job, unsure, failures>>

\* Read the room and the question.
Check(r) ==
  /\ At(r, "check")
  /\ IF open THEN Goto(r, "count") ELSE Respond(r)
  /\ UNCHANGED <<row, aged, open, job, unsure, failures>>

\* MUTANT of Active: what is being judged is not counted.
ActiveQueued == {k \in Keys \ aged : row[k].status = "QUEUED"}

\* What counts against MAX_ACTIVE_PER_USER.
Active == {k \in Keys \ aged : row[k].status \in Pending}

Count(r) ==
  /\ At(r, "count")
  /\ IF Cardinality(Active) < MaxActive THEN Goto(r, "create") ELSE Respond(r)
  /\ UNCHANGED <<row, aged, open, job, unsure, failures>>

\* MUTANT of Create: the second of two equal requests takes the row for its own.
CreateOrReuse(r) ==
  LET k == proc[r].key IN
  /\ At(r, "create")
  /\ row' = IF row[k].status = "none" THEN [row EXCEPT ![k].status = "QUEUED"] ELSE row
  /\ Goto(r, "enqueue")
  /\ UNCHANGED <<aged, open, job, unsure, failures>>

\* The unique index lets one of two equal requests create the row.
Create(r) ==
  LET k == proc[r].key IN
  /\ At(r, "create")
  /\ \/ /\ row[k].status = "none"
        /\ row' = [row EXCEPT ![k].status = "QUEUED"]
        /\ Goto(r, "enqueue")
     \/ /\ row[k].status # "none"
        /\ Goto(r, "dup")
        /\ UNCHANGED row
  /\ UNCHANGED <<aged, open, job, unsure, failures>>

ReadDuplicate(r) ==
  /\ At(r, "dup")
  /\ Finalize(r, proc[r].key)
  /\ UNCHANGED <<row, aged, open, job, unsure, failures>>

\* A job whose id the queue has seen is not added.
AddJob(k) ==
  IF job[k].state \in {"none", "removed"} THEN [job EXCEPT ![k] = NewJob("waiting")] ELSE job

\* The executor's heartbeat is there or not, and the job is added or not: the
\* call may fail though the queue has taken the job.
Enqueue(r) ==
  LET k == proc[r].key IN
  /\ At(r, "enqueue")
  /\ \/ job' = AddJob(k) /\ Respond(r) /\ UNCHANGED <<unsure, failures>>
     \/ Goto(r, "fallback") /\ UNCHANGED <<job, unsure, failures>>
     \/ /\ MayFail
        /\ job' = AddJob(k)
        /\ unsure' = unsure \cup {k}
        /\ Goto(r, "fallback")
  /\ UNCHANGED <<row, aged, open>>

\* runFallbackJudge gives a result or throws; the row is updated by its id.
Fallback(r) ==
  LET k == proc[r].key IN
  /\ At(r, "fallback")
  /\ \/ row' = [row EXCEPT ![k] = [status |-> "COMPLETED", result |-> "fallback"]]
     \/ row' = [row EXCEPT ![k] = [status |-> "FAILED", result |-> "error"]]
  /\ Respond(r)
  /\ UNCHANGED <<aged, open, job, unsure, failures>>

-----------------------------------------------------------------------------
(* finalizeSubmission                                                      *)

\* getSubmission or listSubmissions, for a submission that is pending.
Poll(k) ==
  /\ At(k, "idle")
  /\ row[k].status \in Pending
  /\ Finalize(k, k)
  /\ UNCHANGED <<row, aged, open, job, unsure, failures>>

\* MUTANT of Fetch: a job that is missing is waited for.
FetchForever(a) ==
  LET k == proc[a].key IN
  /\ At(a, "fetch")
  /\ IF job[k].state \in {"none", "removed"}
     THEN Respond(a)
     ELSE Step(a, [at |-> "getState", key |-> k, saw |-> proc[a].saw,
                   got |-> IF job[k].state = "COMPLETED" THEN job[k].result ELSE "none"])
  /\ UNCHANGED <<row, aged, open, job, unsure, failures>>

\* lookupExecution fetches the job, then asks for its state.
Fetch(a) ==
  LET k == proc[a].key IN
  /\ At(a, "fetch")
  /\ \/ /\ job[k].state \in {"none", "removed"}
        /\ IF k \in aged
           THEN Step(a, [at |-> "update", key |-> k, status |-> "FAILED", result |-> "error"])
           ELSE Respond(a)
     \/ /\ job[k].state \notin {"none", "removed"}
        /\ Step(a, [at |-> "getState", key |-> k, saw |-> proc[a].saw,
                    got |-> IF job[k].state = "COMPLETED" THEN job[k].result ELSE "none"])
  /\ UNCHANGED <<row, aged, open, job, unsure, failures>>

\* If the job has completed since it was fetched, its result is not there and
\* finalizeSubmission throws.
GetState(a) ==
  LET k == proc[a].key
      state == job[k].state
      got == proc[a].got
      Store(status, result) ==
        Step(a, [at |-> "update", key |-> k, status |-> status, result |-> result])
  IN
  /\ At(a, "getState")
  /\ CASE state = "COMPLETED" /\ got # "none" -> Store("COMPLETED", got)
       [] state = "FAILED" -> Store("FAILED", "error")
       [] state \in {"active", "judged"} /\ proc[a].saw = "QUEUED" -> Store("RUNNING", "none")
       [] OTHER -> Respond(a)
  /\ UNCHANGED <<row, aged, open, job, unsure, failures>>

\* MUTANT of IsPending: the row is updated by its id alone.
IsAnything(k) == k \in Keys

\* The WHERE of the conditional update.
IsPending(k) == row[k].status \in Pending

Update(a) ==
  LET k == proc[a].key IN
  /\ At(a, "update")
  /\ row' = IF IsPending(k)
            THEN [row EXCEPT ![k] = [status |-> proc[a].status, result |-> proc[a].result]]
            ELSE row
  /\ Respond(a)
  /\ UNCHANGED <<aged, open, job, unsure, failures>>

-----------------------------------------------------------------------------
(* The executor                                                            *)

TakeJob(k) ==
  /\ job[k].state = "waiting"
  /\ job' = [job EXCEPT ![k].state = "active"]
  /\ UNCHANGED <<row, aged, open, proc, unsure, failures>>

\* judge, then take the files out of the job (which may fail).  A job without
\* files is judged as invalid.
Judge(k) ==
  /\ job[k].state = "active"
  /\ \E scrubbed \in BOOLEAN :
       job' = [job EXCEPT ![k].state = "judged",
                          ![k].result = IF job[k].files THEN "code" ELSE "nothing",
                          ![k].files = @ /\ ~scrubbed]
  /\ UNCHANGED <<row, aged, open, proc, unsure, failures>>

\* The job is published and returned to the queue.
JobDone(k) ==
  /\ job[k].state = "judged"
  /\ job' = [job EXCEPT ![k].state = "COMPLETED"]
  /\ UNCHANGED <<row, aged, open, proc, unsure, failures>>

\* MUTANT of JudgeThrows: the files are taken out whether judged or not.
JudgeThrowsScrubbing(k) ==
  /\ job[k].state = "active"
  /\ MayFail
  /\ job' = [job EXCEPT ![k].made = @ + 1,
                        ![k].files = FALSE,
                        ![k].state = IF job[k].made + 1 < JobAttempts THEN "waiting" ELSE "FAILED"]
  /\ UNCHANGED <<row, aged, open, proc, unsure>>

\* A failure of the sandbox: the job is attempted again while it may.
JudgeThrows(k) ==
  /\ job[k].state = "active"
  /\ MayFail
  /\ job' = [job EXCEPT ![k].made = @ + 1,
                        ![k].state = IF job[k].made + 1 < JobAttempts THEN "waiting" ELSE "FAILED"]
  /\ UNCHANGED <<row, aged, open, proc, unsure>>

\* The executor dies: the queue gives the stalled job out again, with the data
\* it has by now, but not too often.
ExecutorDies(k) ==
  /\ job[k].state \in {"active", "judged"}
  /\ MayFail
  /\ job' = IF job[k].stalls < MaxStalls
            THEN [job EXCEPT ![k].state = "waiting", ![k].stalls = @ + 1]
            ELSE [job EXCEPT ![k].state = "FAILED"]
  /\ UNCHANGED <<row, aged, open, proc, unsure>>

-----------------------------------------------------------------------------
(* Time and failures                                                       *)

\* Ten minutes pass.
Age(k) ==
  /\ row[k].status # "none"
  /\ k \notin aged
  /\ aged' = aged \cup {k}
  /\ UNCHANGED <<row, open, job, proc, unsure, failures>>

\* Redis keeps a finished job for a day, or loses it with its memory.
RemoveJob(k) ==
  /\ job[k].state \in Final
  /\ k \in aged
  /\ job' = [job EXCEPT ![k].state = "removed"]
  /\ UNCHANGED <<row, aged, open, proc, unsure, failures>>

\* The candidate goes on to the next question, or the interview ends.
Close ==
  /\ open
  /\ open' = FALSE
  /\ UNCHANGED <<row, aged, job, proc, unsure, failures>>

\* A process dies, or one of its calls fails where nothing catches it.
Fail(a) ==
  /\ ~At(a, "idle")
  /\ MayFail
  /\ Respond(a)
  /\ UNCHANGED <<row, aged, open, job, unsure>>

-----------------------------------------------------------------------------

Creating(r) ==
  \/ Check(r) \/ Count(r) \/ Create(r) \/ ReadDuplicate(r) \/ Enqueue(r) \/ Fallback(r)

Finalizing(a) == Fetch(a) \/ GetState(a) \/ Update(a)

Execute(k) == TakeJob(k) \/ Judge(k) \/ JobDone(k)

Next ==
  \/ \E r \in Requests : Submit(r) \/ Creating(r)
  \/ \E a \in Actors : Finalizing(a) \/ Fail(a)
  \/ \E k \in Polled : Poll(k)
  \/ \E k \in Keys : \/ Execute(k) \/ JudgeThrows(k) \/ ExecutorDies(k)
                     \/ Age(k) \/ RemoveJob(k)
  \/ Close

Spec == Init /\ [][Next]_vars

(***************************************************************************)
(* The page polls what is pending, every 1.5 s, a request goes on, an      *)
(* executor works (it is restarted if it dies) and time passes.  Nobody    *)
(* has to submit anything.                                                 *)
(***************************************************************************)
Fairness ==
  /\ \A r \in Requests : WF_vars(Creating(r) \/ Finalizing(r))
  /\ \A k \in Polled : WF_vars(Poll(k) \/ Finalizing(k))
  /\ \A k \in Keys : WF_vars(Execute(k)) /\ WF_vars(Age(k))

FairSpec == Spec /\ Fairness

-----------------------------------------------------------------------------
(* Correctness                                                             *)

\* The limit of pending submissions is counted before the row is created, so
\* requests that race may pass it together; never by more than the others that
\* are in flight.
PendingBounded ==
  Cardinality({k \in Keys \ aged : row[k].status \in Pending})
    <= MaxActive + Cardinality(Requests) - 1

\* "A retried request returns the original submission instead of judging twice":
\* a submission is judged by the executor or by the fallback, never by both,
\* and by one fallback, however often its request is repeated; unless the call
\* that added the job looked as if it had failed.
JudgedOnce ==
  \A k \in Keys \ unsure :
    LET falling == {r \in Requests : At(r, "fallback") /\ proc[r].key = k} IN
    /\ job[k].state # "none" => falling = {} /\ row[k].result # "fallback"
    /\ \A r, s \in falling : r = s
    /\ row[k].result = "fallback" => falling = {}

\* A verdict is about the code that was submitted: an attempt that failed leaves
\* the next one its files.  An executor that died after it had taken the files
\* out does not.
VerdictOfTheCode ==
  \A k \in Keys : job[k].stalls = 0 => row[k].result # "nothing"

\* "Conditional updates make concurrent calls safe": of any number of reads that
\* saw the job in different states, the first to store a final result wins, and
\* no straggler makes it RUNNING or another result.  Only the fallback's own
\* update may.
FinalStands ==
  [][\A k \in Keys :
       /\ row[k].status \in Final
       /\ ~\E r \in Requests : At(r, "fallback") /\ proc[r].key = k
       => row'[k] = row[k]]_vars

\* A submission that is polled does not stay pending, whatever was lost: its job,
\* the result of its job, or the request before it had added the job.
PendingEnds ==
  \A k \in Polled : row[k].status \in Pending ~> row[k].status \in Final
=============================================================================
