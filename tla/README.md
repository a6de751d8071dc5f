# Formal models of the interview companion

TLA+ models of this repository: the interview room, the evaluation of a finished
interview, the submission and the judging of code, the candidate's page with its
proctoring, the realtime relay, the AI interviewer, the choice of questions and
the bank they come from. Every module is translated from the source; the file and
the lines a definition stands for are in `PROJECT.json` under `map`. TLC checks
the models on small instances, TLAPS proves the theorems for every value of the
constants.

    tlc -config MCInterview.cfg MCInterview      # one run
    tlapm InterviewProofs.tla                    # the proofs of a module

## 1. The system

A web app (Next.js route handlers, any number of instances), a worker, a code
executor and a realtime server share one PostgreSQL database and one Redis. On
the server there is no in-process state that matters: handlers read rows, await,
and write rows. What is hard there follows from that: between a read and the write
that relies on it, any other handler may have run, and the process may die. The
candidate's browser is the other half: it keeps a copy of the room, a queue of
proctoring events that must survive reloads, and media that must be released, and
its effects, timers, answers and socket messages interleave at every await.
A third part is sequential and hides its mistakes in data: what a harness reads
and prints, which verdict a killed program gets, what the next question is, and
whether the bank's expected outputs are right.

| Component | State | Operations | Interacts with |
| --- | --- | --- | --- |
| Interview lifecycle (`engine/interviews/service.ts`) | `InterviewRoom.status`, `version`, `endsAt`; `InterviewQuestion.status` and texts; the events | create, start, save draft, answer, advance, complete, cancel, read (completes an overdue room), sweep, invites | question selection (may call the AI), evaluation, realtime |
| Evaluation (`engine/evaluation/service.ts`, `apps/worker`) | `InterviewReport`, the room's `evaluationStatus`, the `interview-evaluation` queue | schedule, claim, evaluate, retry, sweep | AI client, submissions, queue |
| Submissions (`engine/submissions/service.ts`, `apps/code-executor`) | `Submission`, the `code-execution-v2` queue | create, enqueue, fall back, finalise on read, judge | executor, fallback judge, interview |
| Judge (`code-executor/judge.ts`, `sandbox.ts`, `core/judge`, `core/problems`, `fallback-judge.ts`) | the container, its memory counter, a deadline | start, compile, run each test, stop, compare, summarise | executor, sandbox, harnesses |
| Proctoring (`engine/proctoring`, the page's queue and monitors) | `ProctoringEvent`, a queue in `localStorage`, open intervals in the page, the camera | push, flush, beacon, persist, ingest, close | room (late window) |
| Interview page (`interview-room.tsx`, `use-interview-socket.ts`, `code-panel.tsx`) | its copy of everything, requests under way, the editor's draft | refresh, poll, submit, chat, follow up, end, save | all handlers, the socket |
| Realtime (`ws-server`, `engine/realtime`) | presence, last code in Redis | notify, relay code, send the snapshot | the pages |
| AI interviewer (`engine/interviews/chat.ts`, `engine/ai`) | the question's events | answer a message, ask one follow-up per trigger | provider |
| Question selection (`engine/interviews/questions.ts`, `core/interview`, `problem-bank`) | the questions asked and how they went | plan, adapt, choose a topic, select | bank, AI |
| Problem bank (`problem-bank`) | 52 problems, two references each, a dataset | build the dataset | harnesses, judge |
| Scoring, rate limits, resumes, access, login | rows, counters | see `PROJECT.json` | |

**Hard behaviours.** Two tabs, double clicks and retried requests; four callers of
`completeRoom`; a deadline three parties watch with different grace (0 s in the
page, 30 s in the handlers, 60 s in the sweep); a transaction followed by work
outside it (broadcast, schedule); jobs that are retried, stall or are lost;
results that are copied from Redis by whoever reads first; runs longer than the
timeout after which they count as dead; two rows that repeat the same status;
answers that overtake each other on the way to the page; a queue that is persisted
while it is being sent; a camera that is granted after its room has been left; a
container whose memory counter remembers earlier tests; pools that run out.
`PROJECT.json` lists each under `hazards`, at its line, with the properties that
watch it, or why none does yet.

**What makes each component correct.** The room: one line of transitions, each
applied and logged once, at most one open question, in the order of the plan,
nothing after the end, the end guaranteed. The evaluation: one run at a time, a
completed report stays, nothing stays pending or running for ever. The
submission: judged once, by its own code, finalised once, never pending for ever.
The proctoring queue: nothing pushed is lost, absences end, it empties. The face
monitor: what it reports is what was seen, counted once, and the camera is
released where the page stops it. The page: it comes to show what is stored, whatever was lost or late.
The code view: "saved" means stored, but for the half-stored (§3); the watcher sees the last code. The AI
interviewer: every message is answered, a repeated call asks nothing new. The
judge: a verdict tells what the program did, within a bounded time. The selection:
nothing twice, a weak topic again. The bank: its expected outputs are right.

## 2. Modules

| Module | What it is |
| --- | --- |
| `RoomLifecycle` | abstract specification: the room as one line of steps `Start`, `AskNext`, `CloseLast`, `Complete`, `Cancel` |
| `Interview` | the room with all the handlers that act on it; implements `RoomLifecycle` |
| `InterviewProofs` | its theorems |
| `Evaluation` | the report, the evaluation queue, the runs, retry and sweep |
| `EvaluationProofs` | its theorems |
| `Submission` | a candidate's submissions, the execution queue, the executor, the readers that finalise |
| `SubmissionProofs` | its theorems |
| `Delivery` | the proctoring queue of a tab and its tab monitor, composed with the ingestion |
| `DeliveryProofs` | its theorems |
| `FaceMonitor` | the camera monitor: how it starts, what it sees each second, the intervals it pushes |
| `Page` | the page's copy of the room, its requests, timers and effects, the notifications |
| `PageProofs` | the theorems of `FaceMonitor` and `Page` |
| `CodeView` | the code from the editor to the draft, and through the relay to an interviewer |
| `Conversation` | the chat and the follow-ups with the provider's attempts |
| `RoomProofs` | the theorems of `CodeView` and `Conversation` |
| `Judge` | one job from its sandbox to its verdict, or by the fallback judge |
| `Harness` | what encoding, the readers and printers of five languages and the comparators do to a value |
| `JudgeProofs` | the theorems of both |
| `Selection` | how an interview chooses its questions |
| `SelectionProofs` | its theorems |
| `QuestionBank` | the technical and behavioral questions and how one is selected |
| `ProblemCatalog` | the 52 coding problems: level, topics, return type, comparator |
| `ProblemBank` | the build of the dataset: both references against each other |
| `BankArrays`, `BankWindows`, `BankLists`, `BankTrees`, `BankGrids`, `BankDp`, `BankSearch` | the problems of the bank: bounded tests, the answer asked for, both references |
| `BankCases` | what these share |
| `MC*` | the constants of the runs |

`Delivery` composes the page's queue with the server's ingestion and `Judge` uses
`Harness`; `Selection` uses `QuestionBank`, and `QuestionBank` and `ProblemBank`
use `ProblemCatalog`. `Page` sees the room of `Interview` as a version and the
submissions of `Submission` as pending or done; `Submission` sees the verdict of
`Judge` as what it was computed from; `Interview` sees the question that
`Selection` chooses as its position.
`Conversation` and `Page` prefix the names every module has (`ChatSpec`, `PageSpec`): their
theorems share a module with another component's.

### Interview

One room. A process (a web request, or the worker) has a frame `req[a]`: where it
stands in its handler and what it has read and keeps. Each action is the code
between two awaits that other processes can get between. A `db.$transaction` is
one step (`StartTx`, `AdvanceTx`, `CompleteTx`): its conditional `updateMany` is
the guard (`StartMatches`, `StillActive`, `CompleteMatches`), its other statements
the primed variables; if it matches no row, or a unique index refuses, the step
changes nothing and the request ends. Two statements that are not in one
transaction are two steps: closing the last question (`CloseLast`) and completing
the room; the check of a question (`CheckQuestion`) and the write of its text
(`WriteColumn`). `clock` is `endsAt` against now: `ahead`, `past` (the 30 s of
grace are over, handlers refuse and reads complete), `overdue` (another 30 s, the
sweep completes). `Tick` moves it, a start sets it back. A handler that returns
early is the absence of a step. `Fail` ends any handler anywhere: what is
committed stays.

Left out: who may call what (reads only), question kinds and texts beyond a set of
values, the AI's choice of the next question (the question is its position),
`ANSWER_SUBMITTED` events, proctoring consent, timestamps, the broadcast (the page
is a component of its own), the invites, row locks inside a transaction (a
deadlock the database resolves by aborting one transaction is `Fail`).

### Evaluation

One report of one completed room. Processes: the one that completed the room and
now calls `scheduleEvaluation` (told `inline` it runs the evaluation, or drops the
answer, as `getInterview` and the sweep do), requests for a retry, the worker's
job slots, its sweeps. Every database statement is a step, so `claim` and the
update of the room's copy (`shown`), or the result and that copy, can be
separated by others or by a death. `age` is `InterviewReport.updatedAt` against
now: after five minutes the sweep looks at a pending report, after ten a running
one may be taken over. The queue is a function of job numbers: `eval-<room>-<n>`
is added once, whatever became of it (`AddJob`); a job that throws is attempted
again up to `JobAttempts`; a job whose worker died is given out again. What the
models answer is the choice in `Evaluate`: everything there, something missing for
good, something that may still come (given back unless it is the final attempt),
or an exception. `taken` and `crossed` are history: they change no guard.

Left out: the rate limit of retries, delays and backoff (any delay is possible),
the contents of the report. `attempts` is counted up to `MaxJobs`.

### Submission

The submissions of one candidate, named by their idempotency keys. `Submit`,
`Check`, `Count`, `Create`, `Enqueue`, `Fallback` are the awaits of
`createSubmission`; a second request with the same key meets the row at `Submit`
or the unique index at `Create` and only finalises. `Fetch`, `GetState`, `Update`
are `finalizeSubmission`: `lookupExecution` fetches the job and then asks for its
state, two round trips, and `Update` is the conditional one. Polls are processes
of their own, one per polled submission. The executor's steps are on the job:
`TakeJob`, `Judge` (judges and then takes the files out of the job's data),
`JobDone`, `JudgeThrows` (sandbox failure, counted against `attempts: 2`),
`ExecutorDies` (a stall, counted against `maxStalledCount: 1`). A result says
only what it was computed from: the code, nothing (files already taken out), the
fallback judge, or an error.

Left out: verdicts and tests, kinds of runs, the draft and event saved on the way
(`Enqueue` follows them; failing there is `Fail`), a stalled executor that is
still alive and scrubs late, the rate limit.

### Delivery

One tab that shows the interview room, mounted again and again (`queue`, by mount):
by a reload, a crash, or a walk to another page of the application, which leaves
the old queue behind with its request under way. The queue's methods are functions
from a queue to a queue (`Pushed`, `Flushed`, `Settled`, `Persist`). A handler of the
browser is a step; `storage` is the `localStorage` entry, of which only the last
`Keep` events are written, and a flush sends at most `Batch`. Beacons are requests
nobody waits for (`Loose`), so they overtake flushes. On the server each statement
is a step: `LoadRoom` (which refuses what is too late), `CloseHidden`, `CreateRow`
with its unique index; `Fail` answers that an event could not be stored. Left out:
times, severities and what `validateEventTimes` rejects; a storage that refuses.

### FaceMonitor

Each call of `start()` is its awaits: `Start`, `Granted` or `Denied`, `Played`, `Loaded`.
Nothing in the hook keeps a second call from starting while the first waits, once the
candidate has turned the camera off (`TurnOff`): `starting` has every call, `live` the
calls whose camera is on, and `held` (`streamRef`) the one that `stop()` would stop.
`Second` is one tick: whatever the detector sees, or nothing. `since`, `open` and `timer`
are the monitor's refs. `StartInterview`, `Cancelled` and `Completed` are what the page
learns of the room, here or from another tab, `PageHide`, `Unmount` and `TrackEnded` the
browser's; all come at any moment. The page stops the camera for a completed room only
(`interview-room.tsx` 133), so `Cancelled` leaves it on. `frames`, `pushed`, `dropped` and
`escaped` are history. Left out: the event that reports a denied camera.

### Page

A request is a set of parts still to be read (`ReadInterview`, `ReadLists`): its
answer takes each part as it was when it was read, and replaces the page's copy as
`refresh` does, the room guarded by its version, chat and submissions by nothing. An
advance after the deadline is refused (`MoveRoom`); only a completion ends the room then.
The candidate submits, writes, presses; the timers poll (`Poll`) and refresh
(`BackgroundRefresh`); effects ask for a follow-up (`AskFollowUp`) and end the
interview (`FinishOnTimeout`). Notifications are a set (`wire`): late, out of order,
or lost with the connection. Left out: what is shown and how.

### CodeView

A code is the number of the edit that made it. The draft side is `SaveDraft` (after
the debounce) and `Run`. A request has up to two calls, the second of a submission being
the page's `Retry` under the same key; on the server a submission's call makes the row
(`CreateRow`) and then sets the draft (`WriteDraft`), or finds the row of an earlier call
and does no more (`FindRow`), and it may die before each write (`Dies`), while the page
waits for it or has given it up. `halves` records the codes of which only the row was
stored. The relay side is `Relay`, which drops what
comes within 150 ms, `Join`, `ReadSnapshot`, `Hello` (three awaits of the
connection handler) and `Show`, which drops what its counter does not exceed.
One coding question; the language and other tabs of the candidate are left out.

### Conversation

A request saves the message (`SaveMessage`) or looks for the follow-up of its trigger
(`Find`), reads its context (`Read`), calls the provider until it answers or gives up
(`Ask`), and stores (`Store`). Errors worth another attempt and those that are not are
told apart; what is said is not. The rate limit is left out.

### Judge and Harness

A job has a judge, a language, a type, a comparator and tests; `did` is what the
program really did in each test, `results` what it is told. `clock` counts from
before the sandbox is created, as the code does, and for the fallback from its first
request, which it gives up after `Patience`. Every branch of the loop is an action:
`Returns`, `ReturnsNothing`, `Talks`, `Crashes`, `IsKilled`, `WatchdogFires`, `Floods`,
`FindsNoContainer`, `Skip`; `DockerFails` may come at any of docker's commands. A program
may crash with or without a word of memory among its errors (`languages.ts`, `oomMarkers`),
exit with 137 by itself, or print of its own before what the harness prints, or instead of
it (`Talks`); such a line is blank or begins with a number. `Harness` has a value go through `EncodeOutput`, the reader
of each language and its printer, down to `null` children of a tree, empty lines of
a matrix and what a missing value prints as, and `OutputsMatch` with the canonical
forms. A job has values that `validateValue` lets pass (`ValidValue`); `SameAnswer` says
when a problem takes two of them for one answer, and a program that returns such a one
is right (`IsRight`). The queues that the readers and printers of trees walk are recursive
functions over the number of nodes visited, so that the rest can be proved about.

A script may return what is not of the declared type. Its printer truncates a number
(`Math.trunc(Number(v))`, `int(v)`) and takes any number but zero for true, so a script's
numbers and Booleans are counted in halves: `MayReturn` says what a function may return,
`Coerced` what the printer makes of it, and `InHalves` how a value of the declared type is
returned. A C++, Java or C program returns the type that it is compiled for. Left out are
values of another kind (a text where a number is declared, an object where a list is):
what JavaScript and Python make of those differs by value, from NaN to an exception. The
digits of a number are not taken apart, the letters of a string are no spaces, a string and
the value of a node stand for the text that is printed of them, floats are whole, and the
tolerance of one problem's comparator is left out with their digits.

### Selection, QuestionBank, ProblemCatalog

`Selection` is `selectNextQuestion` by the kind that the plan of the mode gives:
`AskRequestedProblem`, `AskGeneratedProblem`, `AskBankProblem`, `AskAboutResume`,
`AskTechnical`, `AskAboutExperience`, `AskBehavioral`, between which `Close` leaves any
outcome. `DecideNextDifficulty` and `ChooseTopic` are the rules of `core/interview`.
What the code draws at random is any member of the tier it draws from. The bank's
questions are all there, by id, level and topic; their texts are left out.

### ProblemBank and the Bank modules

Each problem has its bounded cases, the answer that its statement asks for,
stated as a definition (a minimum, a set, a quantified condition), and its two
reference solutions as folds and recursive functions over the same data. Where the
JavaScript and the Python reference run the same steps, one operator stands for both and its
`map` entry for the lines of both; where they differ (a heap against a counter, a
queue against a stack) there are two. `RunReferences` and `Compare` are the build.

## 3. Runs

| Run | Instance | What it shows |
| --- | --- | --- |
| `interview` | 2 requests, worker, 2 questions, 1 text, 1 death | types; one open question, asked in order; version = transitions and the log tells the story; scheduled once; a room in progress has an open question but for the gap after the last; outcomes are final; the abstract lifecycle is implemented; the room ends |
| `evaluation` | completer, 1 retry, 1 job slot, 1 sweep, 2 attempts, 2 jobs, 1 death or failed statement | one run at a time unless a report was taken as stale or reset; a job whose attempts are used up leaves a result; the room's copy follows; a completed report stands; pending reports are picked up; the attempts settle |
| `submission` | 1 key, 2 equal requests, a poll, 2 deaths or failed calls | one judge; a verdict of the code; the first final result stands; pending ends |
| `submission_limit` | 3 keys, 2 requests, limit 1 | pending submissions exceed the limit by at most the requests that race |
| `proctoring` | 3 events, 2 mounts, 1 beacon, 1 blur, storage, batch and flush limit of 2, 1 failure | an event that was pushed is stored or on its way; a stored return has ended its absence; one absence open at a time; the queue empties |
| `face_monitor` | 5 s, graces of 2 and 1 s, 2 calls of `start()`, 1 disturbance | intervals hold only what was seen and do not overlap; every sustained absence is reported; no camera is on in a room that was left or completed, nor behind a page that says it is off, unless it escaped |
| `page` | 1 submission, 1 message, 2 requests, 1 transition and the end, 1 loss | the page catches up; one follow-up call; an interview whose time is up is shown ended |
| `code_view` | 2 edits, 2 loads, 2 joins, 2 requests of 2 calls, 1 loss | "saved" is stored, or half stored by a submission sent again; the watcher has the last code relayed |
| `conversation` | 2 requests, 2 triggers, 3 attempts, 3 calls, 1 death | a repeated call asks nothing; each message is answered |
| `judge` | every language and type, compared exactly, unordered and (a matrix) with its rows sorted, 2 tests of small values, halves added to a script's; 1 test of programs that print of their own; 3 tests against a limit of 1 s and a total of 2.5 s, prompt and slow sandboxes and a patience of 2 s; each with the executor and the fallback | outputs are judged right; the total time is bounded; a fault that is told was had |
| `problem_bank` | 52 problems, about 15 000 tests | every test is accepted with the right answer |
| `selection` | about 100 interviews of every mode on the real bank | no repetition; one resume question; weak topics are revisited |

**Where the code does not do what a document says.** Meeting these, the properties
say what does hold and exclude the case by name.

- A draft or an answer that was checked against an open question is written by id
  after the question has closed (`interviews/service.ts` 191, 208, against its
  message at 178).
- `retryEvaluation` resets the report by its room alone (280): the second of two
  retries may reset what the first one's run has completed (against 277).
- A report whose runner died stays `RUNNING`: the worker's sweep selects `PENDING` only
  (`apps/worker/src/index.ts` 75, against `docs/ARCHITECTURE.md` 45).
- `getInterview` completes an overdue room and drops the answer "inline": without a
  worker nothing evaluates it (93, against `docs/ARCHITECTURE.md` 112).
- The fallback judge's result is stored by id alone (`submissions/service.ts` 129,
  against `docs/ARCHITECTURE.md` 119).
- An event the server could not store is reported in a 200 answer, and the client drops
  it with its batch (`proctoring/service.ts` 101, `proctoring-queue.ts` 72). A reload also
  loses what lies beyond the 200 events that are persisted, and what the queue of a
  room left behind has overwritten.
- Two calls at once for one trigger ask two follow-ups (`chat.ts` 169, against 144).
- After the candidate reloads, an interviewer's view stays with the code of the older
  load until the new counter has passed it (`interview-room.tsx` 95).
- A room that is cancelled in another tab keeps the camera of its lobby on: the page stops
  it for a completed room only (`interview-room.tsx` 133-139, against `docs/SECURITY.md`
  68, "stopped when the interview ends").
- A camera granted after its room was completed or left stays on
  (`use-face-monitor.ts` 131, against 164), as does one whose place in `streamRef` an
  overlapping call of `start()` has taken.
- A submission whose first call dies between its row and the draft is answered from the
  row when it is sent again, and the page says "saved" of code that is no draft
  (`submissions/service.ts` 55-59, 82, 104; `code-panel.tsx` 135).
- A script that returns 2.5 where 2 is the answer, or 1 where true is, is accepted
  (`codegen/javascript.ts` 151-153, `codegen/python.ts` 171): the printers convert what is
  returned. So is a program that prints the answer itself and exits.
- The fallback tells a program that fails at run time of a compilation error if the
  compiler had warned of something (`fallback-judge.ts` 78).
- A sandbox that starts later than the total time skips every test, and the verdict is
  a time limit exceeded (`judge.ts` 48, 98); the fallback judge fails every Python
  and JavaScript program, whose harness opens a file the service does not have
  (`fallback-judge.ts` 29).

**Bounds and why they are enough.** Every race of the code is between two handlers
about one row, so two requests plus the worker show it; a third only repeats the
second. Two questions give a first, a last and an advance between them (the
proofs hold for every number). In `evaluation`, two attempts distinguish the final
attempt from the other, two job numbers the first job from the one after a retry;
the completer, the retry, the slot and the sweep may all be running at once. In
`submission`, two failures are needed for a second stall and for a failed call
after a failed attempt; in `submission_limit` three keys are needed to go beyond
limit + 1, and keys and requests are symmetric there. In `proctoring`, limits of two
let three events overflow the storage, a batch and the flush at once, and the
second mount finds what the first left behind. Five seconds in `face_monitor` hold
an absence, its end and a second one, and two calls of `start()` are one that waits and the
one that overtakes it. Two requests in `page` are an answer and the one
that overtakes it. In `code_view` two edits give an older and a newer code, on either side of a reload or a
join, and the one loss is the death of a call between its writes, or a connection's. In `conversation` the third call is the repeat of one of two
that raced. In `judge`, values have no element, one, equal ones and another order, and what a script
returns of them lies on either side of zero by a half; three tests reach the stop after two timeouts, and the start-up times of 0, 1.4 and 3 s
leave the job all, less than half and none of its time. `problem_bank` has every small
argument a problem allows (its own check is that the two references meet on hundreds of
random ones). `selection` takes the topics with the fewest questions, so that pools run
out. Deadlock is not checked: rooms end and everything may stop.

**Fairness and why the code justifies it.** Weak fairness throughout. Time passes.
A handler that has begun goes on unless its process dies, which is an action
without fairness and bounded. The worker polls its queue and sweeps every minute
(`setInterval`); it is restarted by its platform. An open page polls a pending
submission every 1.5 s. No user action has fairness: nobody must open a page,
press "next" or "retry". `InProgressEnds` therefore rests on the sweep alone,
`PendingIsPickedUp` on the worker, `PendingEnds` on a page (or a report) that
reads the submission. In `Delivery` the queue's interval fires (`FlushTimer`), a
request is answered or fails and the server goes on; in `Page` likewise, and
`BackgroundRefresh` and `Poll` are strongly fair, since a timer that finds a request
under way comes again (every 8 or 30 s, and every 1.5 s) and a slot that is taken now and then is
free now and then. In `Conversation` a handler goes on, and a call of the provider is
aborted after its timeout. The candidate has no fairness anywhere. The other modules
state safety only.

**Conditions inside properties.** `OneRunner`, `JobLeavesResult`, `ShownFollows`,
`CompletedStands` exclude exactly what the findings show to break them (a report
taken as stale or reset by an old read, a failed statement, runs that crossed);
`JudgedOnce` excludes an enqueue that failed after the job had been taken;
`VerdictOfTheCode` excludes a job whose executor died; `FinalStands` excludes the
update of the fallback judge. `PendingIsPickedUp` is checked with a worker deployed.
`NothingLost`, `ReturnEndsAbsence` and `OneAbsenceOpen` exclude events that the server
refused or could not store, that the storage had no room for (`givenUp`) or that the
queue of a room left behind took from it (`overwritten`). `CountedOnce` excludes an
absence cut off by a hidden page or a lost camera, which is taken up from its old
beginning; `AbsenceReported` what was open outside the recording; `CameraReleased` a
camera that was granted too late or replaced while it was on (`escaped`), one just granted
of which the page is about to say so, and the room that was cancelled. `SavedIsStored`
excludes saves that overlapped, until one is answered that was alone (`raced`), and code of
which a submission stored its row only (`halves`), `ViewIsLatest` codes of different loads, `EveryMessageAnswered` a process that
died, `RepeatAsksNothing` calls that ran at once. `OutputsJudgedRight` takes what a script
returns as its printer converts it and leaves out tests whose program printed of its own
(`talked`). `BlameHasCause` speaks of an undisturbed job (`Undisturbed`): time for a whole
test left, a docker within its allowance, a container that lives, and no script behind the
fallback; and it takes a program at its word that exits with 137 or names memory. Everything else, deaths included, is allowed.

## 4. Proofs

`InterviewProofs` proves every safety property of the run `interview`, from
`ConstantsAssumption` alone, for any set of requests, any length of the plan and
any texts. No invariant of the list is inductive: that an advance opens
only the question after the last one asked needs to know that questions are asked
in order; that nothing opens in an ended room needs to know that an ended room has
no open question, hence that `StillActive` fails there; that the reason
`TIME_EXPIRED` is true needs to know that a deadline seen past stays past, hence
that a start cannot follow, hence that a handler which saw the room in progress
can rely on it not being `CREATED` again (`HandlersKnow`, proved with the rest). `Inductive` is the
conjunction of the types, `HandlersKnow`, the facts about the room (`RoomInv`),
`ScheduledOnce` and `OpenUntilTheLast`. The proof first shows, action by action,
that a step changes the room in one of five ways or not at all, then that each of
these five keeps each conjunct. The same five cases prove `EndIsFinal`,
`OutcomeIsFinal` and the refinement: each is one step of `RoomLifecycle`.

`SubmissionProofs` proves every safety property of the runs `submission` and
`submission_limit`, for any numbers of keys, polls, requests, attempts, stalls and
failures. A verdict of the code stored by a reader rests on what the reader holds
since an earlier step, that on what the job held then, and that on the files being
there whenever the job could be judged: `Inductive` states all of it, by key
(`KeyOK`: the row and its job), by process (`FrameOK`: what a process holds of
both), and that only one process is about to enqueue or to judge (`OneOwner`,
without which `JudgedOnce` is not inductive: two such processes would judge twice).
`PendingBounded` needs the stronger `Limit`: each request between its count and its
insert is already counted. Again the steps are first brought into a few kinds
(`SomeStep`), and each kind keeps each part.

`RoomProofs` is about two components that share no state. It proves `SavedIsStored` and
`ViewIsLatest` for any numbers of edits, loads, joins, losses and requests under way,
from `CodeViewAssumption` (the bounds are natural numbers and the page is loaded at
least once). In `CodeView` two arguments meet only in the types. `DraftInv`: unless two
requests were under way at once, the one that is carries the code on the screen as long
as the timer is not set (`AloneInv`). What it has stored is told by its row: where there
is one, its code is the draft, or is known to be half stored (`halves`, a call that died
between its two writes), or a call stands between the two (`Whole`). `ViewInv`: what the relay
takes from one load of the page has growing counters (`Growing`, kept by `Append` and
`Tail`), so that whatever is on its way to the watcher is the snapshot or older
(`Older`); and between the reading of the snapshot and the last message either the
snapshot is still to come or the view has passed it (`Covered`). `ViewIsLatest` alone
says nothing of a view with messages on their way, which is why `Covered` is needed.

It proves `RepeatAsksNothing` of `Conversation` for any requests, triggers, attempts and
calls, from `ConversationAssumption`: a follow-up is shown only after it was stored or
found (`ShownIsStored`), the log only grows, and a repeated call waits in `find` for a
trigger that has been shown (`Repeating`).

`EvaluationProofs` proves every safety property of the run `evaluation`, for any numbers
of retries, sweeps, slots, attempts, jobs and failures. That a process evaluates alone
(`OneRunner`) is almost inductive: only the claim, which finds no `RUNNING` report, brings
a second one in. The others need to know why a run may give its report back: `Held`
says that a job is held by one slot, and that a run which is not the final attempt is a
job's with an attempt left, a fact read when the job was taken and used three awaits later. `Runner`
(a `RUNNING` report has somebody at work) and `OneJob` (before the first retry there is
one job) give `Left`, the strengthening of `JobLeavesResult` that also covers a slot
whose result is written but whose job is not yet done. `InStep` says where report and
copy stand while a process is between its two updates, for `ShownFollows`.
`CompletedStands` follows from `OneRunner`: who writes the
report is at work, so it said `RUNNING` before.

`DeliveryProofs` proves every safety property of the run `proctoring`, for any limits and
any numbers of events, mounts, beacons and failures. Its idea is one invariant of all
the sequences there are: the queue of each mount, the batch of each request and the
storage are `Sound`, that is parts of the events in their order in which one event is
missing before another only if it is safe (stored, refused, given up or overwritten). So
whatever overtakes whatever, an absence is stored before its return (`RowsOK`), and
nothing is dropped from a queue before it is safe (`Stored`). `EventsOK` says what the tab
monitor pushes: an absence is over before the next begins. That the filter of a settled
flush (`Without`) keeps what it should for a queue of any length needs an induction, which
is done by hand: the least length at which the claim fails (`Least`, from the
well-foundedness of the naturals) is not a length at which it fails.

`PageProofs` proves every safety property of the run `face_monitor`, for any grace
periods and any time. An interval that is pushed was open, and one that is open was being
observed: `OpenOK` and `SinceOK` carry what the frames were since then, and `MayFollow` that
an interval beginning there shares no time with an earlier one of its type, across a
pause, a hidden page and a lost camera. For `AbsenceReported` the monitor must also not
look away: `Observed` says that frames without a face are being observed from the first of
them on. For `CameraReleased`, `CameraOK` says that every live stream either is the one
`streamRef` holds or has escaped it (replaced there by an overlapping call of `start()`, or
given when the room was already over or left), so that a `stop()` leaves only the escaped.

`PageProofs` also proves `FollowUpOnce` of `Page`, with which `FaceMonitor` shares no
state, for any submissions, messages, requests, versions and losses. The guard looks at
the copy of the page, which late answers replace; what makes the call unique is that the
set of those asked for is changed by nothing else: whatever has been asked is remembered
(`AskedIsRemembered`), through every answer and the end of the room.

`SelectionProofs` proves both invariants and the action property of the run `selection`, for
any interviews with a mode, a length and a history of at most twenty problems
(`SelectionAssumption`), with any topics, levels and settings. `NeverRepeats` fails as soon as a pool
runs out, since a question may then be drawn from all. So the proof counts: an interview
has at most six questions (`QuestionPlanFits`), twenty-six problems have different ids
(`ListedDiffer`), more than the five asked and the twenty remembered, and six technical and
six behavioral questions, more than the five asked (`FewUsed`, `SomeLeft`, by the pigeonhole
principle). The ids of the three kinds have nothing in common (`IdsDiffer`, from the ids
of the bank, file by file). `OneResumeQuestion` across kinds rests on the plans: none has
technical questions and two behavioral ones. `RevisitsWeakTopic` follows from the tiers
(`FirstOfTiers`): if something available is about the topic, so is everything in the
pool that is taken, in both searches of `ProblemPool`.

`JudgeProofs` proves the invariants of the run `judge`, for any jobs, tests, values and
limits, from `JobsAssumption` (a job has one of the languages, types and comparators,
and valid values) and `TimesAssumption` (times are natural numbers). It has two halves.
Every step that ends a test appends one verdict and what the program did; `Fits` says
when such a pair is right, and any step that fits keeps `Inductive`: that the time is
bounded, that a skipped test has a cause before it (`SkippedAfterFault`, `Stopped`),
that a program which ran out of memory was told of it (`MemoryTold`: the container's
counter remembers it, so a later test may be told the same, but it is not the first that
failed), that blame has a cause and that outputs are judged. Then each way in which a
test ends is shown to fit. `BlameHasCause` of the job follows from the first test that
is not good, which `SummarizeVerdict` picks (`Summarized`).

For the outputs, the codec is proved: `ReadsBack`, each of the five readers returns what was
encoded and leaves the lines behind it, also where the announced lengths are zero or a row is
empty; and `ComparesRight`, two outputs match if and only if the values are the same answer,
whatever blank lines `NormalizeOutput` has taken from their ends. The canonical forms are
bags of tokens and of rows, for which the library states no theorem that helps: two
sequences have one bag if and only if every element is at equally many places (`BagIs`), so
an injective image keeps and reflects that (`BagsOfImages`), and equal bags have equal
lengths (`LengthOfBag`). A program that returns no value is the last case: what its harness
prints is the output of an empty answer or of none (`NothingCompared`).

Scripts may return what is not of the declared type, and the formatters turn it into
something that is (`CoercedIs`): whether a value is right is therefore asked of what its
program means by it (`Meant`), the coerced one for a script, and `TakenAsItIs` adds that this is the value returned whenever it has the
declared type, so only there does "accepted" mean that the program returned the answer. The
fallback compares a trimmed text, with the same outcome (`TrimmedAlike`, `ValueTrimmed`).
Of a test whose program prints text of its own nothing is claimed (`did` is `"talked"`).

`JudgedRight` is `OutputsJudgedRight` for every type but trees. How a level order is linked
and walked back needs an induction over it, and is not true of every value that
`validateValue` lets pass: tokens behind the children of the last node, as in
`[1,null,null,2]`, are read by nobody, so a right program would fail on them. No test of the
bank has such tokens, nor has the run.

**Only model-checked.** Liveness (`InProgressEnds`, `PendingIsPickedUp`, `Settles`,
`PendingEnds`, `QueueDrains`, `CatchesUp`, `TimeUpEnds`, `EveryMessageAnswered`) is out of the
prover's reach under fairness. `OutputsJudgedRight` for trees needs an induction over data (see
above), and so would `ReferencesRight`, over the references of the Bank modules, some of
which are recursive operators besides: the prover's backends do not accept those.

## 5. Plan

1. **`InterviewTx`**: the statements and row locks of start, advance and complete,
   shown to implement `Interview`'s atomic transactions, with the deadlock between
   the two lock orders.
2. **Composition** of `Interview`, `Evaluation` and `Submission`: what an evaluation
   sees of submissions that end or appear after the interview.
3. **Invites, rate limits, scoring**: small modules.
4. The tests that the bank draws at random, by the ranges they are drawn from.

## 6. Not modelled

See `components` in `PROJECT.json` for each part and the reason: pages and login
(rendering), scoring, analytics and health (a read and a weighted mean), rate limits,
resumes (one row, one writer), access checks (reads), schema and migrations (their
unique indexes are guards here). Of modelled parts: the text of generated programs and
starter code, Docker's and the browser's own behaviour beyond what the code sees of
it, presence, clocks that disagree, digits of floating point, the AI's words.
