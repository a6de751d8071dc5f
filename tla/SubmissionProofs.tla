-------------------------- MODULE SubmissionProofs --------------------------
(***************************************************************************)
(* Theorems about Submission, for any number of keys, requests, polls and  *)
(* failures and any limits.                                                *)
(***************************************************************************)
EXTENDS Submission, FiniteSetTheorems, TLAPS

-----------------------------------------------------------------------------
(* Frames                                                                  *)

KeyFrame(where, k) == [at |-> where, key |-> k]

\* The frames the handlers store.
LEMMA FrameTypes ==
  /\ Idle \in Frames
  /\ \A k \in Keys, where \in {"check", "count", "create", "dup", "enqueue", "fallback"} :
       KeyFrame(where, k) \in Frames
  /\ \A k \in Keys, s \in Pending : [at |-> "fetch", key |-> k, saw |-> s] \in Frames
  /\ \A k \in Keys, s \in Pending, g \in Judged \cup {"none"} :
       [at |-> "getState", key |-> k, saw |-> s, got |-> g] \in Frames
  /\ \A k \in Keys, s \in Final \cup {"RUNNING"}, x \in Judged \cup {"none", "error"} :
       [at |-> "update", key |-> k, status |-> s, result |-> x] \in Frames
  BY DEF Frames, Idle, KeyFrame

\* What the frame of a process holds at each point.
LEMMA FrameFields ==
  ASSUME NEW f \in Frames
  PROVE  /\ f.at # "idle" => f.key \in Keys
         /\ f.at \in {"check", "count", "create", "dup", "enqueue", "fallback"} =>
              f = KeyFrame(f.at, f.key)
         /\ f.at \in {"fetch", "getState"} => f.saw \in Pending
         /\ f.at = "getState" => f.got \in Judged \cup {"none"}
         /\ f.at = "update" => /\ f.status \in Final \cup {"RUNNING"}
                               /\ f.result \in Judged \cup {"none", "error"}
  BY DEF Frames, KeyFrame

-----------------------------------------------------------------------------
(* The invariant                                                           *)

Rows == [status : {"none"} \cup Pending \cup Final, result : Results]
JobRecords ==
  [state : {"none", "waiting", "active", "judged", "removed"} \cup Final,
   files : BOOLEAN, result : Judged \cup {"none"},
   made : 0 .. JobAttempts, stalls : 0 .. MaxStalls]

\* What the queue does to a job keeps it a job.
LEMMA JobJudged ==
  ASSUME NEW j \in JobRecords, NEW x \in Judged, NEW left \in BOOLEAN
  PROVE  /\ [j EXCEPT !.state = "judged", !.result = x, !.files = left] \in JobRecords
         /\ j.stalls \in Nat
<1>1. [j EXCEPT !.state = "judged", !.result = x, !.files = left] \in JobRecords
  BY DEF JobRecords
<1>2. j.stalls \in Nat
  BY DEF JobRecords
<1> QED  BY <1>1, <1>2

LEMMA JobThrown ==
  ASSUME NEW j \in JobRecords, NEW s \in {"waiting", "FAILED"}, NEW m \in 0 .. JobAttempts
  PROVE  /\ [j EXCEPT !.made = m, !.state = s] \in JobRecords
         /\ j.stalls \in Nat
<1>1. [j EXCEPT !.made = m, !.state = s] \in JobRecords
  BY DEF JobRecords, Final
<1>2. j.stalls \in Nat
  BY DEF JobRecords
<1> QED  BY <1>1, <1>2

\* What a row and its job know of each other.
KeyOK(x, j, sure) ==
  /\ x.status = "none" => x.result = "none" /\ j.state = "none"
  /\ j.state = "none" => j.stalls = 0
  /\ sure /\ j.state # "none" => x.result # "fallback"
  /\ j.state \in {"waiting", "active", "judged"} => j.made < JobAttempts
  /\ j.stalls = 0 => /\ x.result # "nothing"
                     /\ j.result # "nothing"
                     /\ j.state \in {"none", "waiting", "active"} => j.files

\* What a process knows of the row and the job of its key.
FrameOK(f, x, j, sure) ==
  /\ f.at \in {"enqueue", "fallback"} => x.status # "none" /\ x.result # "fallback"
  /\ f.at = "enqueue" => j.state = "none"
  /\ f.at = "fallback" /\ sure => j.state = "none"
  /\ f.at = "getState" /\ j.stalls = 0 => f.got # "nothing"
  /\ f.at = "update" /\ j.stalls = 0 => f.result # "nothing"

\* Is f the frame of the request that created the row of k, before it is done?
Owns(f, k) == f.at \in {"enqueue", "fallback"} /\ f.key = k

KeysOK == \A k \in Keys : KeyOK(row[k], job[k], k \notin unsure)
FramesOK ==
  \A a \in Actors : \A k \in Keys :
    proc[a].at # "idle" /\ proc[a].key = k => FrameOK(proc[a], row[k], job[k], k \notin unsure)
OneOwner ==
  \A a, b \in Actors : \A k \in Keys : Owns(proc[a], k) /\ Owns(proc[b], k) => a = b

Inductive == TypeOK /\ KeysOK /\ FramesOK /\ OneOwner

LEMMA InitInductive == Init => Inductive
<1> SUFFICES ASSUME Init PROVE Inductive
  OBVIOUS
<1> USE ConstantsAssumption DEF Init
<1>1. TypeOK
  BY FrameTypes DEF TypeOK, NoRow, NewJob, Results, Pending, Final
<1>2. KeysOK
  BY DEF KeysOK, KeyOK, NoRow, NewJob
<1>3. FramesOK /\ OneOwner
  BY DEF FramesOK, OneOwner, Owns, Idle
<1> QED  BY <1>1, <1>2, <1>3 DEF Inductive

-----------------------------------------------------------------------------
(* The kinds of steps                                                      *)

\* A frame a process may get without anything else changing.
Allowed(f) ==
  /\ f.at \notin {"enqueue", "fallback"}
  /\ f.at = "create" => Cardinality(Active) < MaxActive
  /\ f.at = "getState" /\ job[f.key].stalls = 0 => f.got # "nothing"
  /\ f.at = "update" /\ job[f.key].stalls = 0 => f.result # "nothing"

Moved(a, f) ==
  /\ Allowed(f)
  /\ proc' = [proc EXCEPT ![a] = f]
  /\ UNCHANGED <<row, aged, job, unsure>>

Created(r, k) ==
  /\ proc[r] = KeyFrame("create", k)
  /\ row[k].status = "none"
  /\ row' = [row EXCEPT ![k] = [status |-> "QUEUED", result |-> row[k].result]]
  /\ proc' = [proc EXCEPT ![r] = KeyFrame("enqueue", k)]
  /\ UNCHANGED <<aged, job, unsure>>

\* The job is added, or the fallback judge is to run, or both.
Enqueued(r, k) ==
  /\ proc[r] = KeyFrame("enqueue", k)
  /\ \/ /\ job' = AddJob(k)
        /\ proc' = [proc EXCEPT ![r] = Idle]
        /\ UNCHANGED unsure
     \/ /\ proc' = [proc EXCEPT ![r] = KeyFrame("fallback", k)]
        /\ UNCHANGED <<job, unsure>>
     \/ /\ job' = AddJob(k)
        /\ unsure' = unsure \cup {k}
        /\ proc' = [proc EXCEPT ![r] = KeyFrame("fallback", k)]
  /\ UNCHANGED <<row, aged>>

FellBack(r, k, x) ==
  /\ proc[r] = KeyFrame("fallback", k)
  /\ x.status \in Final /\ x.result # "nothing"
  /\ row' = [row EXCEPT ![k] = x]
  /\ proc' = [proc EXCEPT ![r] = Idle]
  /\ UNCHANGED <<aged, job, unsure>>

Stored(a, k, x) ==
  /\ proc[a].at = "update" /\ proc[a].key = k
  /\ row[k].status \in Pending
  /\ x.status # "none" /\ x.result = proc[a].result /\ x.result # "fallback"
  /\ row' = [row EXCEPT ![k] = x]
  /\ proc' = [proc EXCEPT ![a] = Idle]
  /\ UNCHANGED <<aged, job, unsure>>

JobMoved(k, j) ==
  /\ job[k].state # "none" /\ j.state # "none"
  /\ j.stalls >= job[k].stalls
  /\ j.state \in {"waiting", "active", "judged"} => j.made < JobAttempts
  /\ j.stalls = 0 => /\ j.result # "nothing"
                     /\ j.state \in {"waiting", "active"} => j.files
  /\ job' = [job EXCEPT ![k] = j]
  /\ UNCHANGED <<row, aged, proc, unsure>>

\* Nothing but time and the room.
Waited == aged \subseteq aged' /\ aged' \subseteq Keys /\ UNCHANGED <<row, job, proc, unsure>>

SomeStep ==
  \/ \E a \in Actors, f \in Frames : Moved(a, f)
  \/ \E r \in Requests, k \in Keys : Created(r, k)
  \/ \E r \in Requests, k \in Keys : Enqueued(r, k)
  \/ \E r \in Requests, k \in Keys, x \in Rows : FellBack(r, k, x)
  \/ \E a \in Actors, k \in Keys, x \in Rows : Stored(a, k, x)
  \/ \E k \in Keys, j \in JobRecords : JobMoved(k, j)
  \/ Waited

-----------------------------------------------------------------------------

\* Every action is of one of these kinds.
LEMMA Steps == Inductive /\ [Next]_vars => SomeStep
<1> SUFFICES ASSUME Inductive, [Next]_vars PROVE SomeStep
  OBVIOUS
<1> USE ConstantsAssumption DEF Actors
<1>0. /\ row \in [Keys -> Rows] /\ job \in [Keys -> JobRecords]
      /\ proc \in [Actors -> Frames]
      /\ aged \subseteq Keys
  BY DEF Inductive, TypeOK, Rows, JobRecords
<1>m. ASSUME NEW a \in Actors, NEW f \in Frames, Allowed(f), Step(a, f),
             UNCHANGED <<row, aged, job, unsure>>
      PROVE  SomeStep
  BY <1>m DEF SomeStep, Moved, Step
<1>r. ASSUME NEW a \in Actors, Respond(a), UNCHANGED <<row, aged, job, unsure>>
      PROVE  SomeStep
  BY <1>r, <1>m, FrameTypes DEF Respond, Allowed, Idle
<1>g. ASSUME NEW a \in Actors, NEW where \in {"check", "count", "create", "dup"},
             where = "create" => Cardinality(Active) < MaxActive,
             NEW k \in Keys, Step(a, KeyFrame(where, k)), UNCHANGED <<row, aged, job, unsure>>
      PROVE  SomeStep
  <2>1. KeyFrame(where, k) \in Frames /\ Allowed(KeyFrame(where, k))
    BY <1>g, FrameTypes DEF Allowed, KeyFrame
  <2> QED  BY <2>1, <1>g, <1>m
<1>f. ASSUME NEW a \in Actors, NEW k \in Keys, Finalize(a, k), UNCHANGED <<row, aged, job, unsure>>
      PROVE  SomeStep
  <2>1. CASE row[k].status \in Pending
    <3> DEFINE f == [at |-> "fetch", key |-> k, saw |-> row[k].status]
    <3>1. f \in Frames /\ Allowed(f)
      BY <2>1, FrameTypes DEF Allowed
    <3>2. Step(a, f)
      BY <1>f, <2>1 DEF Finalize
    <3> QED  BY <3>1, <3>2, <1>f, <1>m
  <2>2. CASE row[k].status \notin Pending
    BY <2>2, <1>f, <1>r DEF Finalize
  <2> QED  BY <2>1, <2>2
<1>1. ASSUME NEW r \in Requests, Submit(r) PROVE SomeStep
  <2>1. PICK k \in Keys :
          \/ row[k].status = "none" /\ Step(r, [at |-> "check", key |-> k])
          \/ row[k].status \in Pending /\ Finalize(r, k)
    BY <1>1 DEF Submit
  <2>2. UNCHANGED <<row, aged, job, unsure>>
    BY <1>1 DEF Submit
  <2> QED  BY <2>1, <2>2, <1>g, <1>f DEF KeyFrame
<1>2. ASSUME NEW r \in Requests, Check(r) PROVE SomeStep
  <2>1. proc[r].key \in Keys /\ UNCHANGED <<row, aged, job, unsure>>
    BY <1>2, <1>0, FrameFields DEF Check, At
  <2>2. Step(r, KeyFrame("count", proc[r].key)) \/ Respond(r)
    BY <1>2 DEF Check, Goto, KeyFrame
  <2> QED  BY <2>1, <2>2, <1>g, <1>r
<1>3. ASSUME NEW r \in Requests, Count(r) PROVE SomeStep
  <2>1. proc[r].key \in Keys /\ UNCHANGED <<row, aged, job, unsure>>
    BY <1>3, <1>0, FrameFields DEF Count, At
  <2>2. \/ Cardinality(Active) < MaxActive /\ Step(r, KeyFrame("create", proc[r].key))
        \/ Respond(r)
    BY <1>3 DEF Count, Goto, KeyFrame
  <2> QED  BY <2>1, <2>2, <1>g, <1>r
<1>4. ASSUME NEW r \in Requests, Create(r) PROVE SomeStep
  <2> DEFINE k == proc[r].key
  <2>1. k \in Keys /\ proc[r] = KeyFrame("create", k)
    BY <1>4, <1>0, FrameFields DEF Create, At
  <2>2. CASE row[k].status = "none"
    <3>1. /\ row' = [row EXCEPT ![k].status = "QUEUED"]
          /\ proc' = [proc EXCEPT ![r] = KeyFrame("enqueue", k)]
          /\ UNCHANGED <<aged, job, unsure>>
      BY <1>4, <2>2 DEF Create, Goto, Step, KeyFrame
    <3>2. [row[k] EXCEPT !.status = "QUEUED"] = [status |-> "QUEUED", result |-> row[k].result]
      BY <1>0, <2>1 DEF Rows
    <3> QED  BY <2>1, <2>2, <3>1, <3>2 DEF SomeStep, Created
  <2>3. CASE row[k].status # "none"
    BY <2>1, <2>3, <1>4, <1>g DEF Create, Goto, KeyFrame
  <2> QED  BY <2>2, <2>3
<1>5. ASSUME NEW r \in Requests, ReadDuplicate(r) PROVE SomeStep
  <2>1. proc[r].key \in Keys
    BY <1>5, <1>0, FrameFields DEF ReadDuplicate, At
  <2> QED  BY <2>1, <1>5, <1>f DEF ReadDuplicate
<1>6. ASSUME NEW r \in Requests, Enqueue(r) PROVE SomeStep
  <2> DEFINE k == proc[r].key
  <2>1. k \in Keys /\ proc[r] = KeyFrame("enqueue", k)
    BY <1>6, <1>0, FrameFields DEF Enqueue, At
  <2>2. Enqueued(r, k)
    BY <1>6, <2>1 DEF Enqueue, Enqueued, Goto, Step, Respond, KeyFrame
  <2> QED  BY <2>1, <2>2 DEF SomeStep
<1>7. ASSUME NEW r \in Requests, Fallback(r) PROVE SomeStep
  <2> DEFINE k == proc[r].key
  <2>1. k \in Keys /\ proc[r] = KeyFrame("fallback", k)
    BY <1>7, <1>0, FrameFields DEF Fallback, At
  <2>2. PICK x \in {[status |-> "COMPLETED", result |-> "fallback"],
                    [status |-> "FAILED", result |-> "error"]} : row' = [row EXCEPT ![k] = x]
    BY <1>7 DEF Fallback
  <2>3. x \in Rows /\ x.status \in Final /\ x.result # "nothing"
    BY DEF Rows, Results, Final
  <2>4. FellBack(r, k, x)
    BY <1>7, <2>1, <2>2, <2>3 DEF Fallback, FellBack, Respond, Step
  <2> QED  BY <2>1, <2>3, <2>4 DEF SomeStep
<1>8. ASSUME NEW k \in Polled, Poll(k) PROVE SomeStep
  BY <1>8, <1>f DEF Poll
<1>9. ASSUME NEW a \in Actors, Fetch(a) PROVE SomeStep
  <2> DEFINE k == proc[a].key
             got == IF job[k].state = "COMPLETED" THEN job[k].result ELSE "none"
             f == [at |-> "getState", key |-> k, saw |-> proc[a].saw, got |-> got]
             u == [at |-> "update", key |-> k, status |-> "FAILED", result |-> "error"]
  <2>1. k \in Keys /\ proc[a].saw \in Pending /\ UNCHANGED <<row, aged, job, unsure>>
    BY <1>9, <1>0, FrameFields DEF Fetch, At
  <2>2. Step(a, u) \/ Respond(a) \/ Step(a, f)
    BY <1>9 DEF Fetch
  <2>3. u \in Frames /\ Allowed(u)
    BY <2>1, FrameTypes DEF Allowed, Final
  <2>4. got \in Judged \cup {"none"} /\ (job[k].stalls = 0 => got # "nothing")
    BY <1>0, <2>1 DEF JobRecords, Inductive, KeysOK, KeyOK
  <2>5. f \in Frames
    BY <2>1, <2>4, FrameTypes
  <2>6. Allowed(f)
    BY <2>4 DEF Allowed
  <2> QED  BY <2>1, <2>2, <2>3, <2>5, <2>6, <1>m, <1>r
<1>10. ASSUME NEW a \in Actors, GetState(a) PROVE SomeStep
  <2> DEFINE k == proc[a].key
             u(s, x) == [at |-> "update", key |-> k, status |-> s, result |-> x]
  <2>1. /\ k \in Keys /\ proc[a].got \in Judged \cup {"none"}
        /\ proc[a].at = "getState"
        /\ UNCHANGED <<row, aged, job, unsure>>
    BY <1>10, <1>0, FrameFields DEF GetState, At
  <2>2. \/ Step(a, u("COMPLETED", proc[a].got)) \/ Step(a, u("FAILED", "error"))
        \/ Step(a, u("RUNNING", "none")) \/ Respond(a)
    BY <1>10 DEF GetState
  <2>3. job[k].stalls = 0 => proc[a].got # "nothing"
    BY <2>1 DEF Inductive, FramesOK, FrameOK
  <2>4. ASSUME NEW s \in Final \cup {"RUNNING"}, NEW x \in Judged \cup {"none", "error"},
               job[k].stalls = 0 => x # "nothing"
        PROVE  u(s, x) \in Frames /\ Allowed(u(s, x))
    BY <2>1, <2>4, FrameTypes DEF Allowed
  <2>5. /\ u("COMPLETED", proc[a].got) \in Frames /\ Allowed(u("COMPLETED", proc[a].got))
        /\ u("FAILED", "error") \in Frames /\ Allowed(u("FAILED", "error"))
        /\ u("RUNNING", "none") \in Frames /\ Allowed(u("RUNNING", "none"))
    BY <2>1, <2>3, <2>4 DEF Final
  <2> HIDE DEF u
  <2> QED  BY <2>1, <2>2, <2>5, <1>m, <1>r
<1>11. ASSUME NEW a \in Actors, Update(a) PROVE SomeStep
  <2> DEFINE k == proc[a].key
             x == [status |-> proc[a].status, result |-> proc[a].result]
  <2>1. /\ k \in Keys /\ proc[a].at = "update" /\ UNCHANGED <<aged, job, unsure>>
        /\ proc[a].status \in Final \cup {"RUNNING"}
        /\ proc[a].result \in Judged \cup {"none", "error"}
    BY <1>11, <1>0, FrameFields DEF Update, At
  <2>2. CASE row[k].status \in Pending
    <3>1. x \in Rows
      BY <2>1 DEF Rows, Pending, Final, Results
    <3>2. Stored(a, k, x)
      BY <1>11, <2>1, <2>2 DEF Update, IsPending, Stored, Respond, Step, Final, Judged
    <3> QED  BY <2>1, <3>1, <3>2 DEF SomeStep
  <2>3. CASE row[k].status \notin Pending
    BY <1>11, <2>1, <2>3, <1>r DEF Update, IsPending
  <2> QED  BY <2>2, <2>3
<1>12. ASSUME NEW k \in Keys,
              TakeJob(k) \/ Judge(k) \/ JobDone(k) \/ JudgeThrows(k) \/ ExecutorDies(k) \/ RemoveJob(k)
       PROVE  SomeStep
  <2>0. KeyOK(row[k], job[k], k \notin unsure) /\ job[k] \in JobRecords
    BY <1>0 DEF Inductive, KeysOK
  <2>m. ASSUME NEW j \in JobRecords, job' = [job EXCEPT ![k] = j],
               UNCHANGED <<row, aged, proc, unsure>>,
               job[k].state # "none", j.state # "none",
               j.stalls >= job[k].stalls,
               j.state \in {"waiting", "active", "judged"} => j.made < JobAttempts,
               j.stalls = 0 => /\ j.result # "nothing"
                               /\ j.state \in {"waiting", "active"} => j.files
        PROVE  SomeStep
    BY <2>m DEF SomeStep, JobMoved
  <2>1. CASE TakeJob(k)
    <3> DEFINE j == [job[k] EXCEPT !.state = "active"]
    <3>1. job' = [job EXCEPT ![k] = j] /\ UNCHANGED <<row, aged, proc, unsure>>
      BY <2>1, <1>0 DEF TakeJob
    <3>2. job[k].state = "waiting"
      BY <2>1 DEF TakeJob
    <3>3. /\ j \in JobRecords
          /\ j.state = "active" /\ j.stalls = job[k].stalls /\ j.made = job[k].made
          /\ j.files = job[k].files /\ j.result = job[k].result /\ j.stalls >= job[k].stalls
      BY <2>0 DEF JobRecords
    <3>4. job[k].made < JobAttempts /\ (j.stalls = 0 => j.files /\ j.result # "nothing")
      BY <2>0, <3>2, <3>3 DEF KeyOK
    <3> HIDE DEF j
    <3> QED  BY <2>m, <3>1, <3>2, <3>3, <3>4
  <2>2. CASE Judge(k)
    <3>1. PICK scrubbed \in BOOLEAN :
            job' = [job EXCEPT ![k].state = "judged",
                               ![k].result = IF job[k].files THEN "code" ELSE "nothing",
                               ![k].files = @ /\ ~scrubbed]
      BY <2>2 DEF Judge
    <3> DEFINE verdict == IF job[k].files THEN "code" ELSE "nothing"
               left == job[k].files /\ ~scrubbed
               j == [job[k] EXCEPT !.state = "judged", !.result = verdict, !.files = left]
    <3>2. job' = [job EXCEPT ![k] = j] /\ UNCHANGED <<row, aged, proc, unsure>>
      BY <3>1, <2>2, <1>0 DEF Judge
    <3>3. job[k].state = "active"
      BY <2>2 DEF Judge
    <3>4. verdict \in Judged /\ left \in BOOLEAN
      BY <2>0 DEF Judged
    <3>n. job[k].files => verdict # "nothing"
      OBVIOUS
    <3> HIDE DEF left, verdict
    <3>a. j \in JobRecords /\ job[k].stalls \in Nat
      BY <2>0, <3>4, JobJudged
    <3>b. /\ j.state = "judged" /\ j.stalls = job[k].stalls /\ j.made = job[k].made
          /\ j.result = verdict
      BY <2>0 DEF JobRecords
    <3>5. j.stalls >= job[k].stalls
      BY <3>a, <3>b
    <3>6. job[k].made < JobAttempts /\ (j.stalls = 0 => verdict # "nothing")
      BY <2>0, <3>3, <3>b, <3>n DEF KeyOK
    <3> HIDE DEF j
    <3> QED  BY <2>m, <3>2, <3>3, <3>a, <3>b, <3>5, <3>6
  <2>3. CASE JobDone(k)
    <3> DEFINE j == [job[k] EXCEPT !.state = "COMPLETED"]
    <3>1. job' = [job EXCEPT ![k] = j] /\ UNCHANGED <<row, aged, proc, unsure>>
      BY <2>3, <1>0 DEF JobDone
    <3>2. job[k].state = "judged"
      BY <2>3 DEF JobDone
    <3>3. /\ j \in JobRecords /\ j.state = "COMPLETED"
          /\ j.stalls = job[k].stalls /\ j.result = job[k].result /\ j.stalls >= job[k].stalls
      BY <2>0 DEF JobRecords, Final
    <3>4. j.stalls = 0 => j.result # "nothing"
      BY <2>0, <3>3 DEF KeyOK
    <3> HIDE DEF j
    <3> QED  BY <2>m, <3>1, <3>2, <3>3, <3>4
  <2>4. CASE JudgeThrows(k)
    <3> DEFINE m == job[k].made + 1
               s == IF m < JobAttempts THEN "waiting" ELSE "FAILED"
               j == [job[k] EXCEPT !.made = m, !.state = s]
    <3>1. job' = [job EXCEPT ![k] = j] /\ UNCHANGED <<row, aged, proc, unsure>>
      BY <2>4, <1>0 DEF JudgeThrows
    <3>2. job[k].state = "active"
      BY <2>4 DEF JudgeThrows
    <3>3. /\ job[k].made \in Nat /\ job[k].made < JobAttempts /\ JobAttempts \in Nat
          /\ job[k].stalls = 0 => job[k].files /\ job[k].result # "nothing"
      BY <2>0, <3>2 DEF KeyOK, JobRecords
    <3>4. /\ m \in 0 .. JobAttempts
          /\ s \in {"waiting", "FAILED"}
          /\ s = "waiting" => m < JobAttempts
      BY <3>3
    <3> HIDE DEF m, s
    <3>a. j \in JobRecords /\ job[k].stalls \in Nat
      BY <2>0, <3>4, JobThrown
    <3>b. /\ j.state = s /\ j.made = m
          /\ j.stalls = job[k].stalls /\ j.files = job[k].files /\ j.result = job[k].result
      BY <2>0 DEF JobRecords
    <3>5. j.stalls >= job[k].stalls
      BY <3>a, <3>b
    <3> HIDE DEF j
    <3> QED  BY <2>m, <3>1, <3>2, <3>3, <3>4, <3>a, <3>b, <3>5
  <2>5. CASE ExecutorDies(k)
    <3> DEFINE again == [job[k] EXCEPT !.state = "waiting", !.stalls = job[k].stalls + 1]
               last == [job[k] EXCEPT !.state = "FAILED"]
    <3>1. /\ job[k].state \in {"active", "judged"}
          /\ job[k].made < JobAttempts /\ job[k].stalls \in Nat
          /\ job[k].stalls = 0 => job[k].result # "nothing"
      BY <2>0, <2>5 DEF ExecutorDies, KeyOK, JobRecords
    <3>2. CASE job[k].stalls < MaxStalls
      <4>1. job' = [job EXCEPT ![k] = again] /\ UNCHANGED <<row, aged, proc, unsure>>
        BY <2>5, <3>2, <1>0 DEF ExecutorDies
      <4>2. job[k].stalls + 1 \in 0 .. MaxStalls
        BY <3>1, <3>2
      <4>3. /\ again \in JobRecords /\ again.state = "waiting"
            /\ again.made = job[k].made /\ again.stalls = job[k].stalls + 1
        BY <2>0, <4>2 DEF JobRecords
      <4>4. again.stalls # 0 /\ again.stalls >= job[k].stalls
        BY <3>1, <4>3
      <4> HIDE DEF again
      <4> QED  BY <2>m, <3>1, <4>1, <4>3, <4>4
    <3>3. CASE ~(job[k].stalls < MaxStalls)
      <4>1. job' = [job EXCEPT ![k] = last] /\ UNCHANGED <<row, aged, proc, unsure>>
        BY <2>5, <3>3, <1>0 DEF ExecutorDies
      <4>2. /\ last \in JobRecords /\ last.state = "FAILED"
            /\ last.stalls = job[k].stalls /\ last.stalls >= job[k].stalls
            /\ last.result = job[k].result
        BY <2>0 DEF JobRecords, Final
      <4> HIDE DEF last
      <4> QED  BY <2>m, <3>1, <4>1, <4>2
    <3> QED  BY <3>2, <3>3
  <2>6. CASE RemoveJob(k)
    <3> DEFINE j == [job[k] EXCEPT !.state = "removed"]
    <3>1. job' = [job EXCEPT ![k] = j] /\ UNCHANGED <<row, aged, proc, unsure>>
      BY <2>6, <1>0 DEF RemoveJob
    <3>2. job[k].state # "none"
      BY <2>6 DEF RemoveJob, Final
    <3>3. /\ j \in JobRecords /\ j.state = "removed"
          /\ j.stalls = job[k].stalls /\ j.result = job[k].result /\ j.stalls >= job[k].stalls
      BY <2>0 DEF JobRecords
    <3>4. j.stalls = 0 => j.result # "nothing"
      BY <2>0, <3>3 DEF KeyOK
    <3> HIDE DEF j
    <3> QED  BY <2>m, <3>1, <3>2, <3>3, <3>4
  <2> QED  BY <1>12, <2>1, <2>2, <2>3, <2>4, <2>5, <2>6
<1>13. ASSUME NEW k \in Keys, Age(k) PROVE SomeStep
  BY <1>0, <1>13 DEF Age, SomeStep, Waited
<1>14. CASE Close
  BY <1>0, <1>14 DEF Close, SomeStep, Waited
<1>15. ASSUME NEW a \in Actors, Fail(a) PROVE SomeStep
  BY <1>15, <1>r DEF Fail
<1>16. CASE UNCHANGED vars
  BY <1>0, <1>16 DEF vars, SomeStep, Waited
<1> QED
  BY <1>1, <1>2, <1>3, <1>4, <1>5, <1>6, <1>7, <1>8, <1>9, <1>10, <1>11, <1>12, <1>13, <1>14,
     <1>15, <1>16 DEF Next, Creating, Finalizing, Execute

-----------------------------------------------------------------------------
(* Every step keeps the invariant                                          *)

\* What the kinds of steps do not say.
LEMMA Bookkeeping ==
  TypeOK /\ [Next]_vars => open' \in BOOLEAN /\ failures' \in 0 .. MaxFailures
<1> SUFFICES ASSUME TypeOK, [Next]_vars
             PROVE  open' \in BOOLEAN /\ failures' \in 0 .. MaxFailures
  OBVIOUS
<1>0. open \in BOOLEAN /\ failures \in 0 .. MaxFailures /\ MaxFailures \in Nat
  BY ConstantsAssumption DEF TypeOK
<1>1. MayFail => failures' \in 0 .. MaxFailures
  BY <1>0 DEF MayFail
<1>2. ASSUME NEW r \in Requests, Submit(r) \/ Creating(r)
      PROVE  open' = open /\ (failures' = failures \/ MayFail)
  BY <1>2 DEF Submit, Creating, Check, Count, Create, ReadDuplicate, Enqueue, Fallback
<1>3. ASSUME NEW a \in Actors, Finalizing(a) \/ Fail(a)
      PROVE  open' = open /\ (failures' = failures \/ MayFail)
  BY <1>3 DEF Finalizing, Fetch, GetState, Update, Fail
<1>4. ASSUME NEW k \in Polled, Poll(k) PROVE open' = open /\ failures' = failures
  BY <1>4 DEF Poll
<1>5. ASSUME NEW k \in Keys,
             Execute(k) \/ JudgeThrows(k) \/ ExecutorDies(k) \/ Age(k) \/ RemoveJob(k)
      PROVE  open' = open /\ (failures' = failures \/ MayFail)
  BY <1>5 DEF Execute, TakeJob, Judge, JobDone, JudgeThrows, ExecutorDies, Age, RemoveJob
<1>6. Close \/ UNCHANGED vars => open' \in BOOLEAN /\ failures' = failures
  BY <1>0 DEF Close, vars
<1> QED  BY <1>0, <1>1, <1>2, <1>3, <1>4, <1>5, <1>6 DEF Next

\* The parts of TypeOK that the kinds of steps keep.
Shapes ==
  /\ row \in [Keys -> Rows]
  /\ job \in [Keys -> JobRecords]
  /\ proc \in [Actors -> Frames]
  /\ aged \subseteq Keys /\ unsure \subseteq Keys

LEMMA ShapesStep == Shapes /\ SomeStep => Shapes'
<1> SUFFICES ASSUME Shapes, SomeStep PROVE Shapes'
  OBVIOUS
<1> USE DEF Shapes
<1>1. ASSUME NEW a \in Actors, NEW f \in Frames, Moved(a, f) PROVE Shapes'
  BY <1>1 DEF Moved
<1>2. ASSUME NEW r \in Requests, NEW k \in Keys, Created(r, k) PROVE Shapes'
  <2>1. [status |-> "QUEUED", result |-> row[k].result] \in Rows
    BY DEF Rows, Pending
  <2> QED  BY <1>2, <2>1, FrameTypes DEF Created
<1>3. ASSUME NEW r \in Requests, NEW k \in Keys, Enqueued(r, k) PROVE Shapes'
  <2>1. NewJob("waiting") \in JobRecords
    BY ConstantsAssumption DEF JobRecords, NewJob
  <2>2. AddJob(k) \in [Keys -> JobRecords]
    BY <2>1 DEF AddJob
  <2> QED  BY <1>3, <2>2, FrameTypes DEF Enqueued
<1>4. ASSUME NEW r \in Requests, NEW k \in Keys, NEW x \in Rows, FellBack(r, k, x) PROVE Shapes'
  BY <1>4, FrameTypes DEF FellBack
<1>5. ASSUME NEW a \in Actors, NEW k \in Keys, NEW x \in Rows, Stored(a, k, x) PROVE Shapes'
  BY <1>5, FrameTypes DEF Stored
<1>6. ASSUME NEW k \in Keys, NEW j \in JobRecords, JobMoved(k, j) PROVE Shapes'
  BY <1>6 DEF JobMoved
<1>7. ASSUME Waited PROVE Shapes'
  BY <1>7 DEF Waited
<1> QED  BY <1>1, <1>2, <1>3, <1>4, <1>5, <1>6, <1>7 DEF SomeStep

LEMMA TypeStep == Inductive /\ [Next]_vars => TypeOK'
<1> SUFFICES ASSUME Inductive, [Next]_vars PROVE TypeOK'
  OBVIOUS
<1>1. Shapes
  BY DEF Inductive, TypeOK, Shapes, Rows, JobRecords
<1>2. Shapes'
  BY <1>1, Steps, ShapesStep
<1>3. open' \in BOOLEAN /\ failures' \in 0 .. MaxFailures
  BY Bookkeeping DEF Inductive
<1> QED  BY <1>2, <1>3 DEF TypeOK, Shapes, Rows, JobRecords

\* The parts that relate rows, jobs and processes.
Related == KeysOK /\ FramesOK /\ OneOwner

\* What the invariant says of one key and one process.
LEMMA Of ==
  ASSUME Shapes, Related, NEW k \in Keys, NEW b \in Actors
  PROVE  /\ KeyOK(row[k], job[k], k \notin unsure)
         /\ proc[b].at # "idle" /\ proc[b].key = k =>
              FrameOK(proc[b], row[k], job[k], k \notin unsure)
         /\ row[k] \in Rows /\ job[k] \in JobRecords /\ proc[b] \in Frames
  BY DEF Related, KeysOK, FramesOK, Shapes

LEMMA MovedKeeps ==
  ASSUME Shapes, Related, NEW a \in Actors, NEW f \in Frames, Moved(a, f)
  PROVE  Related'
<1>1. /\ Allowed(f) /\ row' = row /\ job' = job /\ unsure' = unsure
      /\ \A b \in Actors : proc'[b] = IF b = a THEN f ELSE proc[b]
  BY DEF Moved, Shapes
<1>2. KeysOK'
  BY <1>1 DEF Related, KeysOK
<1>3. ASSUME NEW b \in Actors, NEW k \in Keys, proc'[b].at # "idle", proc'[b].key = k
      PROVE  FrameOK(proc'[b], row'[k], job'[k], k \notin unsure')
  <2>1. CASE b = a
    BY <2>1, <1>1, <1>3 DEF Allowed, FrameOK
  <2>2. CASE b # a
    BY <2>2, <1>1, <1>3 DEF Related, FramesOK
  <2> QED  BY <2>1, <2>2
<1>4. OneOwner'
  <2>1. ASSUME NEW b \in Actors, NEW k \in Keys, Owns(proc'[b], k) PROVE Owns(proc[b], k)
    BY <2>1, <1>1 DEF Owns, Allowed
  <2> QED  BY <2>1 DEF Related, OneOwner
<1> QED  BY <1>2, <1>3, <1>4 DEF Related, FramesOK

LEMMA CreatedKeeps ==
  ASSUME Shapes, Related, NEW r \in Requests, NEW k \in Keys, Created(r, k)
  PROVE  Related'
<1> DEFINE x == [status |-> "QUEUED", result |-> row[k].result]
           f == KeyFrame("enqueue", k)
<1> USE DEF Actors
<1>1. /\ job' = job /\ unsure' = unsure
      /\ \A b \in Actors : proc'[b] = IF b = r THEN f ELSE proc[b]
      /\ \A c \in Keys : row'[c] = IF c = k THEN x ELSE row[c]
  BY DEF Created, Shapes
<1>2. row[k].status = "none" /\ row[k].result = "none" /\ job[k].state = "none"
  BY Of DEF Created, KeyOK
<1>3. ASSUME NEW b \in Actors PROVE ~Owns(proc[b], k)
  BY <1>2, Of DEF Owns, FrameOK
<1>4. ASSUME NEW c \in Keys PROVE KeyOK(row'[c], job'[c], c \notin unsure')
  BY <1>1, <1>2, Of DEF KeyOK
<1>5. ASSUME NEW b \in Actors, NEW c \in Keys, proc'[b].at # "idle", proc'[b].key = c
      PROVE  FrameOK(proc'[b], row'[c], job'[c], c \notin unsure')
  <2>1. CASE b = r
    BY <2>1, <1>1, <1>2, <1>5 DEF FrameOK, KeyFrame
  <2>2. CASE b # r
    <3>1. FrameOK(proc[b], row[c], job[c], c \notin unsure) /\ ~Owns(proc[b], k)
      BY <2>2, <1>1, <1>3, <1>5, Of
    <3> QED  BY <2>2, <3>1, <1>1, <1>5 DEF FrameOK, Owns
  <2> QED  BY <2>1, <2>2
<1>6. OneOwner'
  <2>1. ASSUME NEW b \in Actors, NEW c \in Keys, Owns(proc'[b], c)
        PROVE  (b = r /\ c = k) \/ (b # r /\ c # k /\ Owns(proc[b], c))
    BY <2>1, <1>1, <1>3 DEF Owns, KeyFrame
  <2> QED  BY <2>1 DEF Related, OneOwner
<1> QED  BY <1>4, <1>5, <1>6 DEF Related, KeysOK, FramesOK

LEMMA EnqueuedKeeps ==
  ASSUME Shapes, Related, NEW r \in Requests, NEW k \in Keys, Enqueued(r, k)
  PROVE  Related'
<1> USE DEF Actors
<1>1. Owns(proc[r], k) /\ proc[r] \in Frames
  BY DEF Enqueued, Owns, KeyFrame, Shapes
<1>2. job[k].state = "none" /\ row[k].status # "none" /\ row[k].result # "fallback"
  BY Of DEF Enqueued, KeyFrame, FrameOK
<1>3. job[k].stalls = 0 /\ row[k].result # "nothing"
  BY <1>2, Of DEF KeyOK
<1>4. PICK f \in {Idle, KeyFrame("fallback", k)} :
        \A b \in Actors : proc'[b] = IF b = r THEN f ELSE proc[b]
  BY DEF Enqueued, Shapes
<1>5. row' = row /\ unsure \subseteq unsure'
      /\ \A c \in Keys : c # k => /\ job'[c] = job[c]
                                  /\ c \in unsure' => c \in unsure
  BY DEF Enqueued, AddJob, Shapes
<1>6. job'[k] \in {job[k], NewJob("waiting")}
  BY DEF Enqueued, AddJob, Shapes
<1>7. f # Idle /\ k \notin unsure' => job'[k] = job[k]
  BY <1>4 DEF Enqueued, AddJob, Shapes, Idle, KeyFrame
<1>8. ASSUME NEW b \in Actors, b # r PROVE ~Owns(proc[b], k)
  BY <1>1, <1>8 DEF Related, OneOwner
<1>9. KeyOK(row'[k], job'[k], k \notin unsure')
  <2>1. CASE job'[k] = job[k]
    BY <2>1, <1>2, <1>3, <1>5, Of DEF KeyOK
  <2>2. CASE job'[k] = NewJob("waiting")
    BY <2>2, <1>2, <1>3, <1>5, ConstantsAssumption DEF KeyOK, NewJob
  <2> QED  BY <1>6, <2>1, <2>2
<1>10. ASSUME NEW c \in Keys PROVE KeyOK(row'[c], job'[c], c \notin unsure')
  <2>1. CASE c # k
    BY <2>1, <1>5, Of DEF KeyOK
  <2> QED  BY <2>1, <1>9
<1>11. ASSUME NEW b \in Actors, NEW c \in Keys, proc'[b].at # "idle", proc'[b].key = c
       PROVE  FrameOK(proc'[b], row'[c], job'[c], c \notin unsure')
  <2>1. CASE b = r
    <3>1. f = KeyFrame("fallback", k) /\ c = k
      BY <2>1, <1>4, <1>11 DEF Idle, KeyFrame
    <3> QED  BY <2>1, <3>1, <1>2, <1>4, <1>5, <1>7 DEF FrameOK, KeyFrame, Idle
  <2>2. CASE b # r /\ c = k
    <3>1. FrameOK(proc[b], row[k], job[k], k \notin unsure) /\ ~Owns(proc[b], k)
      BY <2>2, <1>4, <1>8, <1>11, Of
    <3> QED  BY <2>2, <3>1, <1>3, <1>4, <1>11 DEF FrameOK, Owns
  <2>3. CASE b # r /\ c # k
    <3>1. FrameOK(proc[b], row[c], job[c], c \notin unsure)
      BY <2>3, <1>4, <1>11, Of
    <3> QED  BY <2>3, <3>1, <1>4, <1>5 DEF FrameOK
  <2> QED  BY <2>1, <2>2, <2>3
<1>12. OneOwner'
  <2>1. ASSUME NEW b \in Actors, NEW c \in Keys, Owns(proc'[b], c) PROVE Owns(proc[b], c)
    BY <2>1, <1>1, <1>4 DEF Owns, KeyFrame, Idle
  <2> QED  BY <2>1 DEF Related, OneOwner
<1> QED  BY <1>10, <1>11, <1>12 DEF Related, KeysOK, FramesOK

LEMMA FellBackKeeps ==
  ASSUME Shapes, Related,
         NEW r \in Requests, NEW k \in Keys, NEW x \in Rows, FellBack(r, k, x)
  PROVE  Related'
<1> USE DEF Actors
<1>1. /\ job' = job /\ unsure' = unsure
      /\ \A b \in Actors : proc'[b] = IF b = r THEN Idle ELSE proc[b]
      /\ \A c \in Keys : row'[c] = IF c = k THEN x ELSE row[c]
  BY DEF FellBack, Shapes
<1>2. /\ Owns(proc[r], k) /\ x.status # "none" /\ x.result # "nothing"
      /\ k \notin unsure => job[k].state = "none"
  BY Of DEF FellBack, Owns, KeyFrame, FrameOK, Final
<1>3. ASSUME NEW b \in Actors, b # r PROVE ~Owns(proc[b], k)
  BY <1>2, <1>3 DEF Related, OneOwner
<1>4. ASSUME NEW c \in Keys PROVE KeyOK(row'[c], job'[c], c \notin unsure')
  BY <1>1, <1>2, Of DEF KeyOK
<1>5. ASSUME NEW b \in Actors, NEW c \in Keys, proc'[b].at # "idle", proc'[b].key = c
      PROVE  FrameOK(proc'[b], row'[c], job'[c], c \notin unsure')
  <2>1. b # r
    BY <1>1, <1>5 DEF Idle
  <2>2. FrameOK(proc[b], row[c], job[c], c \notin unsure) /\ ~Owns(proc[b], k)
    BY <2>1, <1>1, <1>3, <1>5, Of
  <2> QED  BY <2>1, <2>2, <1>1, <1>5 DEF FrameOK, Owns
<1>6. OneOwner'
  <2>1. ASSUME NEW b \in Actors, NEW c \in Keys, Owns(proc'[b], c) PROVE Owns(proc[b], c)
    BY <2>1, <1>1 DEF Owns, Idle
  <2> QED  BY <2>1 DEF Related, OneOwner
<1> QED  BY <1>4, <1>5, <1>6 DEF Related, KeysOK, FramesOK

LEMMA StoredKeeps ==
  ASSUME Shapes, Related,
         NEW a \in Actors, NEW k \in Keys, NEW x \in Rows, Stored(a, k, x)
  PROVE  Related'
<1>1. /\ job' = job /\ unsure' = unsure
      /\ \A b \in Actors : proc'[b] = IF b = a THEN Idle ELSE proc[b]
      /\ \A c \in Keys : row'[c] = IF c = k THEN x ELSE row[c]
  BY DEF Stored, Shapes
<1>2. /\ x.status # "none" /\ x.result # "fallback"
      /\ job[k].stalls = 0 => x.result # "nothing"
  BY Of DEF Stored, FrameOK
<1>3. row[k].status # "none"
  BY DEF Stored, Pending
<1>4. ASSUME NEW c \in Keys PROVE KeyOK(row'[c], job'[c], c \notin unsure')
  BY <1>1, <1>2, Of DEF KeyOK
<1>5. ASSUME NEW b \in Actors, NEW c \in Keys, proc'[b].at # "idle", proc'[b].key = c
      PROVE  FrameOK(proc'[b], row'[c], job'[c], c \notin unsure')
  <2>1. FrameOK(proc[b], row[c], job[c], c \notin unsure) /\ b # a
    BY <1>1, <1>5, Of DEF Idle
  <2> QED  BY <2>1, <1>1, <1>2 DEF FrameOK
<1>6. OneOwner'
  <2>1. ASSUME NEW b \in Actors, NEW c \in Keys, Owns(proc'[b], c) PROVE Owns(proc[b], c)
    BY <2>1, <1>1 DEF Owns, Idle
  <2> QED  BY <2>1 DEF Related, OneOwner
<1> QED  BY <1>4, <1>5, <1>6 DEF Related, KeysOK, FramesOK

LEMMA JobMovedKeeps ==
  ASSUME Shapes, Related, NEW k \in Keys, NEW j \in JobRecords, JobMoved(k, j)
  PROVE  Related'
<1>1. /\ row' = row /\ proc' = proc /\ unsure' = unsure
      /\ \A c \in Keys : job'[c] = IF c = k THEN j ELSE job[c]
  BY DEF JobMoved, Shapes
<1>2. job[k].stalls \in Nat /\ j.stalls \in Nat
  BY DEF Shapes, JobRecords
<1>3. /\ job[k].state # "none" /\ j.state # "none"
      /\ j.stalls = 0 => job[k].stalls = 0
  BY <1>2 DEF JobMoved
<1>4. KeyOK(row[k], j, k \notin unsure)
  <2>1. KeyOK(row[k], job[k], k \notin unsure)
    BY DEF Related, KeysOK
  <2> QED  BY <2>1, <1>3 DEF KeyOK, JobMoved
<1>5. KeysOK'
  BY <1>1, <1>4 DEF Related, KeysOK
<1>6. ASSUME NEW b \in Actors, NEW c \in Keys, proc'[b].at # "idle", proc'[b].key = c
      PROVE  FrameOK(proc'[b], row'[c], job'[c], c \notin unsure')
  BY <1>1, <1>3, <1>6, Of DEF FrameOK
<1>7. OneOwner'
  BY <1>1 DEF Related, OneOwner
<1> QED  BY <1>5, <1>6, <1>7 DEF Related, FramesOK

LEMMA InductiveStep == Inductive /\ [Next]_vars => Inductive'
<1> SUFFICES ASSUME Inductive, [Next]_vars PROVE Inductive'
  OBVIOUS
<1>1. Shapes /\ Related /\ SomeStep
  BY Steps DEF Inductive, TypeOK, Shapes, Rows, JobRecords, Related
<1>2. Waited => Related'
  BY <1>1 DEF Waited, Related, KeysOK, FramesOK, OneOwner
<1>3. Related'
  BY <1>1, <1>2, MovedKeeps, CreatedKeeps, EnqueuedKeeps, FellBackKeeps, StoredKeeps,
     JobMovedKeeps DEF SomeStep
<1> QED  BY <1>3, TypeStep DEF Inductive, Related

-----------------------------------------------------------------------------
(* Theorems                                                                *)

\* Whatever dies or fails, in any order, a row, its job and the processes that
\* hold its key agree with each other as Inductive says.
THEOREM InductiveInvariant == Spec => []Inductive
<1>1. Init => Inductive
  BY InitInductive
<1>2. Inductive /\ [Next]_vars => Inductive'
  BY InductiveStep
<1> QED  BY <1>1, <1>2, PTL DEF Spec

\* The variables keep their types: a job is never attempted or given out again
\* more often than the queue allows.
THEOREM TypeCorrect == Spec => []TypeOK
<1>1. Inductive => TypeOK
  BY DEF Inductive
<1> QED  BY <1>1, InductiveInvariant, PTL

\* However often a request is repeated, and whichever of createSubmission's calls
\* fail, a submission is judged by the executor or by one fallback, never by both,
\* unless the call that added the job failed after the queue had taken it.
THEOREM JudgedByOne == Spec => []JudgedOnce
<1>1. Inductive => JudgedOnce
  <2> SUFFICES ASSUME Inductive, NEW k \in Keys, k \notin unsure
               PROVE  /\ \A r \in Requests : At(r, "fallback") /\ proc[r].key = k =>
                           job[k].state = "none" /\ row[k].result # "fallback"
                      /\ job[k].state # "none" => row[k].result # "fallback"
                      /\ \A r, s \in Requests :
                           /\ At(r, "fallback") /\ proc[r].key = k
                           /\ At(s, "fallback") /\ proc[s].key = k
                           => r = s
    BY DEF JudgedOnce
  <2>1. ASSUME NEW r \in Requests, At(r, "fallback"), proc[r].key = k
        PROVE  job[k].state = "none" /\ row[k].result # "fallback" /\ Owns(proc[r], k)
    BY <2>1 DEF At, Inductive, FramesOK, FrameOK, Owns, Actors
  <2>2. job[k].state # "none" => row[k].result # "fallback"
    BY DEF Inductive, KeysOK, KeyOK
  <2> QED  BY <2>1, <2>2 DEF Inductive, OneOwner, Actors
<1> QED  BY <1>1, InductiveInvariant, PTL

\* A verdict that is stored was computed from the files of the submission, however
\* often the job was attempted, unless an executor died with it.
THEOREM VerdictsAreOfTheCode == Spec => []VerdictOfTheCode
<1>1. Inductive => VerdictOfTheCode
  BY DEF Inductive, KeysOK, KeyOK, VerdictOfTheCode
<1> QED  BY <1>1, InductiveInvariant, PTL

\* A final status and its result are never overwritten, by any number of reads that
\* saw the job in any states, except by the request that judges it itself.
THEOREM ResultsStand == Spec => FinalStands
<1>1. ASSUME Inductive, [Next]_vars, NEW k \in Keys,
             row[k].status \in Final,
             ~\E r \in Requests : At(r, "fallback") /\ proc[r].key = k
      PROVE  row'[k] = row[k]
  <2>0. Shapes /\ SomeStep
    BY <1>1, Steps DEF Inductive, TypeOK, Shapes, Rows, JobRecords
  <2>1. ASSUME NEW r \in Requests, NEW c \in Keys, Created(r, c) PROVE row'[k] = row[k]
    BY <2>0, <2>1, <1>1 DEF Created, Shapes, Final
  <2>2. ASSUME NEW r \in Requests, NEW c \in Keys, NEW x \in Rows, FellBack(r, c, x)
        PROVE  row'[k] = row[k]
    BY <2>0, <2>2, <1>1 DEF FellBack, Shapes, At, KeyFrame
  <2>3. ASSUME NEW a \in Actors, NEW c \in Keys, NEW x \in Rows, Stored(a, c, x)
        PROVE  row'[k] = row[k]
    BY <2>0, <2>3, <1>1 DEF Stored, Shapes, Final, Pending
  <2> QED  BY <2>0, <2>1, <2>2, <2>3 DEF SomeStep, Moved, Enqueued, JobMoved, Waited
<1>2. Inductive /\ [Next]_vars =>
        [\A k \in Keys :
           /\ row[k].status \in Final
           /\ ~\E r \in Requests : At(r, "fallback") /\ proc[r].key = k
           => row'[k] = row[k]]_vars
  BY <1>1
<1> QED  BY <1>2, InductiveInvariant, PTL DEF Spec, FinalStands

-----------------------------------------------------------------------------
(* The limit of pending submissions                                        *)

\* The requests that have counted and not created yet.
InCreate == {r \in Requests : proc[r].at = "create"}

\* Each of them may still add one to what is pending.
Limit == Cardinality(Active) + Cardinality(InCreate) <= MaxActive + Cardinality(Requests) - 1

LEMMA Counts ==
  /\ IsFiniteSet(Active) /\ IsFiniteSet(InCreate)
  /\ Cardinality(Active) \in Nat /\ Cardinality(InCreate) \in Nat
  /\ Cardinality(Requests) \in Nat /\ Cardinality(InCreate) <= Cardinality(Requests)
<1>1. Active \subseteq Keys /\ InCreate \subseteq Requests
  BY DEF Active, InCreate
<1> QED  BY <1>1, ConstantsAssumption, FS_Subset, FS_CardinalityType

LEMMA LimitStep == Inductive /\ Limit /\ [Next]_vars => Limit'
<1> SUFFICES ASSUME Inductive, Limit, [Next]_vars PROVE Limit'
  OBVIOUS
<1>0. Shapes /\ SomeStep
  BY Steps DEF Inductive, TypeOK, Shapes, Rows, JobRecords
<1>c. /\ IsFiniteSet(Active') /\ IsFiniteSet(InCreate')
      /\ Cardinality(Active') \in Nat /\ Cardinality(InCreate') \in Nat
      /\ Cardinality(InCreate') <= Cardinality(Requests)
  <2>1. Active' \subseteq Keys /\ InCreate' \subseteq Requests
    BY DEF Active, InCreate
  <2> QED  BY <2>1, ConstantsAssumption, FS_Subset, FS_CardinalityType
<1>m. MaxActive \in Nat
  BY ConstantsAssumption
\* Steps after which no more submissions are pending or about to be.
<1>s. ASSUME Active' \subseteq Active, InCreate' \subseteq InCreate PROVE Limit'
  <2>1. Cardinality(Active') <= Cardinality(Active) /\ Cardinality(InCreate') <= Cardinality(InCreate)
    BY <1>s, Counts, FS_Subset
  <2> QED  BY <2>1, <1>c, <1>m, Counts DEF Limit
<1>1. ASSUME NEW a \in Actors, NEW f \in Frames, Moved(a, f) PROVE Limit'
  <2>1. Active' = Active
    BY <1>1 DEF Moved, Active
  <2>2. CASE f.at = "create"
    <3>1. Cardinality(Active') < MaxActive
      BY <1>1, <2>1, <2>2 DEF Moved, Allowed
    <3> QED  BY <3>1, <1>c, <1>m, Counts DEF Limit
  <2>3. CASE f.at # "create"
    <3>1. InCreate' \subseteq InCreate
      BY <1>0, <1>1, <2>3 DEF Moved, InCreate, Shapes, Actors
    <3> QED  BY <2>1, <3>1, <1>s
  <2> QED  BY <2>2, <2>3
<1>2. ASSUME NEW r \in Requests, NEW k \in Keys, Created(r, k) PROVE Limit'
  <2>1. Active' \subseteq Active \cup {k}
    BY <1>0, <1>2 DEF Created, Active, Shapes
  <2>2. r \in InCreate /\ InCreate' \subseteq InCreate \ {r}
    BY <1>0, <1>2 DEF Created, InCreate, Shapes, KeyFrame, Actors
  <2>3. IsFiniteSet(Active \cup {k}) /\ Cardinality(Active \cup {k}) <= Cardinality(Active) + 1
    <3>1. /\ IsFiniteSet(Active \cup {k})
          /\ Cardinality(Active \cup {k})
               = IF k \in Active THEN Cardinality(Active) ELSE Cardinality(Active) + 1
      BY Counts, FS_AddElement
    <3> QED  BY <3>1, Counts
  <2>4. /\ IsFiniteSet(InCreate \ {r})
        /\ Cardinality(InCreate \ {r}) = Cardinality(InCreate) - 1
    BY <2>2, Counts, FS_RemoveElement
  <2>5. /\ Cardinality(Active') <= Cardinality(Active \cup {k})
        /\ Cardinality(InCreate') <= Cardinality(InCreate \ {r})
    BY <2>1, <2>2, <2>3, <2>4, FS_Subset
  <2>6. Cardinality(Active \cup {k}) \in Nat
    BY <2>3, FS_CardinalityType
  <2> QED  BY <2>3, <2>4, <2>5, <2>6, <1>c, <1>m, Counts DEF Limit
<1>3. ASSUME NEW r \in Requests, NEW k \in Keys, Enqueued(r, k) PROVE Limit'
  <2>1. Active' = Active
    BY <1>3 DEF Enqueued, Active
  <2>2. InCreate' \subseteq InCreate
    BY <1>0, <1>3 DEF Enqueued, InCreate, Shapes, KeyFrame, Idle, Actors
  <2> QED  BY <2>1, <2>2, <1>s
<1>4. ASSUME NEW r \in Requests, NEW k \in Keys, NEW x \in Rows, FellBack(r, k, x) PROVE Limit'
  <2>1. Active' \subseteq Active
    BY <1>0, <1>4 DEF FellBack, Active, Shapes, Final, Pending
  <2>2. InCreate' \subseteq InCreate
    BY <1>0, <1>4 DEF FellBack, InCreate, Shapes, Idle, Actors
  <2> QED  BY <2>1, <2>2, <1>s
<1>5. ASSUME NEW a \in Actors, NEW k \in Keys, NEW x \in Rows, Stored(a, k, x) PROVE Limit'
  <2>1. Active' \subseteq Active
    BY <1>0, <1>5 DEF Stored, Active, Shapes
  <2>2. InCreate' \subseteq InCreate
    BY <1>0, <1>5 DEF Stored, InCreate, Shapes, Idle, Actors
  <2> QED  BY <2>1, <2>2, <1>s
<1>6. ASSUME NEW k \in Keys, NEW j \in JobRecords, JobMoved(k, j) PROVE Limit'
  BY <1>6, <1>s DEF JobMoved, Active, InCreate
<1>7. ASSUME Waited PROVE Limit'
  BY <1>7, <1>s DEF Waited, Active, InCreate
<1> QED  BY <1>0, <1>1, <1>2, <1>3, <1>4, <1>5, <1>6, <1>7 DEF SomeStep

\* The count and the insert are two statements: the limit holds up to the number of
\* requests that race, less one, and never worse.
THEOREM PendingIsBounded == Spec => []PendingBounded
<1>1. Init => Limit
  <2> SUFFICES ASSUME Init PROVE Limit
    OBVIOUS
  <2>1. Active = {} /\ InCreate = {}
    BY DEF Init, Active, InCreate, NoRow, Pending, Idle, Actors
  <2>2. MaxActive \in Nat \ {0} /\ Cardinality(Requests) \in Nat
    BY ConstantsAssumption, Counts
  <2> QED  BY <2>1, <2>2, FS_EmptySet DEF Limit
<1>2. Limit => PendingBounded
  <2>1. Cardinality(Active) \in Nat /\ Cardinality(InCreate) \in Nat
    BY Counts
  <2>2. Cardinality(Requests) \in Nat /\ MaxActive \in Nat
    BY Counts, ConstantsAssumption
  <2>3. Limit => Cardinality(Active) <= MaxActive + Cardinality(Requests) - 1
    BY <2>1, <2>2 DEF Limit
  <2> QED  BY <2>3 DEF PendingBounded, Active
<1> QED  BY <1>1, <1>2, LimitStep, InductiveInvariant, PTL DEF Spec

=============================================================================
