------------------------------- MODULE Judge -------------------------------
(***************************************************************************)
(* Judging one job (apps/code-executor/src/judge.ts), from its sandbox to  *)
(* its verdict, and the judge that stands in when no executor is alive     *)
(* (engine's fallback-judge.ts).  The text that a test is given, what the  *)
(* harness of the language reads of it and prints, and how that is         *)
(* compared are those of Harness.                                          *)
(*                                                                         *)
(* The candidate's function takes a value and the number Second, and the   *)
(* right answer is the value; a program may do for each test what it       *)
(* likes: return what its language lets it return, print before, end       *)
(* itself, or exit as if it had been killed.  Time is counted in units of  *)
(* 100 ms.                                                                 *)
(***************************************************************************)
EXTENDS Integers, FiniteSets, Sequences, Harness

CONSTANTS
    Jobs,           \* the jobs that are judged; see JobOK for what a job says
    Second,         \* the second argument of every test
    TimeLimit,      \* the time a test may take, in the language of the job
    Total,          \* the time that a job may take: limits.totalTimeMs
    Allowance,      \* EXEC_OVERHEAD_ALLOWANCE_MS
    Watchdog,       \* how long docker may overrun a timeout
    Patience,       \* how long the fallback waits for the service to answer
    Startups        \* the times that it may take until a sandbox is up with the files in it, or to compile them

StopAfterTimeouts == 2

\* The smallest timeout of a test: 100 ms.
Slice == 1

(***************************************************************************)
(* A job: who judges it, its language and type, its comparator, and its    *)
(* tests; expects is FALSE for custom input.  What the program may return  *)
(* or print of its own, the time it may take and docker's latency are the  *)
(* model's: each job varies only what it is there for.                     *)
(***************************************************************************)
JobOK(j) ==
    /\ j.by \in {"sandbox", "fallback"}
    /\ j.language \in {"c", "cpp", "java", "javascript", "python"}
    /\ j.comparator \in {"exact", "unordered", "sortInner"}
    /\ j.expects \in BOOLEAN
    /\ j.type \in ValueTypes /\ \A v \in j.values : ValidValue(j.type, v)
    /\ j.tests \in Seq(j.values)
    /\ \A value \in j.returns : MayReturn(j.language, j.type, value)
    /\ j.paces \subseteq Nat /\ j.latencies \subseteq Nat

ASSUME JobsAssumption == \A j \in Jobs : JobOK(j)

ASSUME TimesAssumption ==
    /\ Second \in Int
    /\ {TimeLimit, Total, Allowance, Watchdog, Patience} \subseteq Nat
    /\ Startups \subseteq Nat

VARIABLES
    job,            \* the job
    stage,          \* "new", "up", "testing", "judged", or "thrown": BullMQ tries the job again
    clock,          \* the time since the job was started
    container,      \* "none", "up", "died" on its own, "destroyed" by the judge
    timeouts,       \* tests that ran out of time
    stop,           \* a test has printed too much
    results,        \* the verdicts of the tests so far
    verdict,        \* of the job, "none" before it is judged
    did             \* what the program did in each test, which the judge can only infer

vars == <<job, stage, clock, container, timeouts, stop, results, verdict, did>>

-----------------------------------------------------------------------------
Lowest(a, b) == IF a < b THEN a ELSE b

Highest(a, b) == IF a < b THEN b ELSE a

Compiled == {"c", "cpp", "java"}

Arg(type, in) ==
    CASE job.language = "javascript" -> JavascriptArg(type, in)
      [] job.language = "python" -> PythonArg(type, in)
      [] job.language = "cpp" -> CppArg(type, in)
      [] job.language = "java" -> JavaArg(type, in)
      [] job.language = "c" -> CArg(type, in)

\* A value as a program holds it: a tree is linked, all else is as a test writes it.
Held(value) == IF job.type = "TreeNode" THEN JsTree(Len(value), value) ELSE value

Test == job.tests[Len(results) + 1]

Expected == EncodeOutput(job.type, Test)

\* What a right program returns for the arguments it was given.
Answered ==
    LET first == Arg(job.type, EncodeInput(<<job.type, "int">>, <<Test, Second>>))
        second == Arg("int", first.rest)
    IN  IF second.value = Second THEN first.value ELSE Held(CHOOSE v \in job.values : v # Test)

\* Two values that a problem takes for the same answer: only what has items can be unordered.
SameAnswer(a, b) ==
    IF job.comparator = "exact" \/ job.type \notin {"int[]", "ListNode", "int[][]", "string[]"} THEN a = b
    ELSE IF job.comparator = "sortInner" /\ job.type = "int[][]"
    THEN ToBag([i \in DOMAIN a |-> ToBag(a[i])]) = ToBag([i \in DOMAIN b |-> ToBag(b[i])])
    ELSE ToBag(a) = ToBag(b)

\* What a returned value is taken for: a script may return what is not of the declared type.
Meant(value) == IF job.language \in Scripts THEN Coerced(job.type, value) ELSE value

\* A right program is right whatever the harness made of the arguments of the test.
IsRight(value) == Meant(value) = Answered \/ SameAnswer(Meant(value), Held(Test))

\* What a program that ends in time returns: the right answer, or any value.
Returned ==
    {IF job.language \in Scripts THEN InHalves(job.type, Answered) ELSE Answered}
        \cup { Held(value) : value \in job.returns }

Printed(result) ==
    CASE job.language = "javascript" -> JavascriptFormat(job.type, result)
      [] job.language = "python" -> PythonFormat(job.type, result)
      [] job.language = "cpp" -> CppFormat(job.type, result)
      [] job.language = "java" -> JavaFormat(job.type, result)
      [] job.language = "c" -> CFormat(job.type, result)

Compare(text) ==
    IF ~ job.expects THEN "EXECUTED"
    ELSE IF OutputsMatch(text, Expected, job.comparator, job.type) THEN "ACCEPTED"
    ELSE "WRONG_ANSWER"

\* A program may end without a value, but for one that Python cannot print: that one crashes.
MayReturnNone ==
    /\ MayReturnNothing(job.language, job.type)
    /\ ~ (job.language = "python" /\ PythonRaises(job.type, Nothing))

Results == { <<value>> : value \in Returned } \cup IF MayReturnNone THEN {Nothing} ELSE {}

SummarizeVerdict(tests) ==
    LET failing == { i \in DOMAIN tests : tests[i] \notin {"ACCEPTED", "EXECUTED"} }
        first == CHOOSE i \in failing : \A k \in failing : i <= k
    IN  IF failing = {} THEN "ACCEPTED"
        ELSE IF tests[first] = "SKIPPED" THEN "TIME_LIMIT_EXCEEDED"
        ELSE tests[first]

AllTests(v) == [i \in DOMAIN job.tests |-> v]

-----------------------------------------------------------------------------
(***************************************************************************)
(* The sandbox.  Docker may fail to start it, to take a file or to run a   *)
(* command: the job is given back, and the sandbox destroyed.              *)
(***************************************************************************)
Skips == stop \/ container = "destroyed" \/ clock > Total \/ timeouts >= StopAfterTimeouts

HasTest == stage = "testing" /\ Len(results) < Len(job.tests)

Runs == job.by = "sandbox" /\ HasTest /\ ~ Skips

Create ==
    /\ job.by = "sandbox" /\ stage = "new"
    /\ \E t \in Startups : clock' = clock + t
    /\ stage' = IF job.language \in Compiled THEN "up" ELSE "testing"
    /\ container' = "up"
    /\ UNCHANGED <<job, timeouts, stop, results, verdict, did>>

DockerFails ==
    /\ \/ job.by = "sandbox" /\ stage = "new" /\ container' \in {"none", "destroyed"}
       \/ (stage = "up" \/ Runs) /\ container' = "destroyed"
    /\ stage' = "thrown"
    /\ UNCHANGED <<job, clock, timeouts, stop, results, verdict, did>>

Compile ==
    /\ stage = "up"
    /\ \E t \in Startups : clock' = clock + t
    /\ stage' = "testing"
    /\ UNCHANGED <<job, container, timeouts, stop, results, verdict, did>>

CompileFails ==
    /\ stage = "up"
    /\ \E t \in Startups : clock' = clock + t
    /\ stage' = "judged"
    /\ verdict' = "COMPILATION_ERROR"
    /\ results' = AllTests("COMPILATION_ERROR")
    /\ did' = AllTests("not compiled")
    /\ container' = "destroyed"
    /\ UNCHANGED <<job, timeouts, stop>>

\* The container is gone, and the judge does not know: docker answers with exit code 1.
ContainerDies ==
    /\ stage = "testing" /\ container = "up"
    /\ container' = "died"
    /\ UNCHANGED <<job, stage, clock, timeouts, stop, results, verdict, did>>

\* MUTANT of Timeout: a test may always take its whole time.
TimeoutWhole == TimeLimit

Timeout == Lowest(TimeLimit, Highest(Slice, Total - clock))

Took(v, taken, what) ==
    /\ results' = Append(results, v)
    /\ did' = Append(did, what)
    /\ clock' = clock + taken
    /\ timeouts' = IF v = "TIME_LIMIT_EXCEEDED" THEN timeouts + 1 ELSE timeouts
    /\ UNCHANGED <<job, stage, verdict>>

Skip ==
    /\ job.by = "sandbox" /\ HasTest /\ Skips
    /\ Took("SKIPPED", 0, "not run")
    /\ UNCHANGED <<container, stop>>

\* The program ends by itself within its timeout, with exit code 0, and has printed the text.
Ends(text, what) ==
    /\ \E pace \in job.paces, latency \in job.latencies :
        /\ pace < Timeout
        /\ Took(IF pace + latency > TimeLimit + Allowance THEN "TIME_LIMIT_EXCEEDED" ELSE Compare(text),
                pace + latency, what)
    /\ UNCHANGED <<container, stop>>

Returns ==
    /\ Runs /\ container = "up"
    /\ \E value \in Returned : Ends(Printed(<<value>>), IF IsRight(value) THEN "right" ELSE "wrong")

\* The function ends without a value, as the code a candidate starts from does.
ReturnsNothing ==
    /\ Runs /\ container = "up"
    /\ MayReturnNone
    /\ Ends(Printed(Nothing), "nothing")

\* The program prints of its own, and the harness behind it, unless the program exits before.
Talks ==
    /\ Runs /\ container = "up"
    /\ \E said \in job.says :
        \/ Ends(said, "talked")
        \/ \E result \in Results : Ends(said \o Printed(result), "talked")

\* A program that exits with another code, or whose printer does, may name memory among its errors,
\* whether or not it ran out of it.
Crashes ==
    /\ Runs /\ container = "up"
    /\ \E pace \in job.paces, latency \in job.latencies, hungry \in BOOLEAN, marked \in BOOLEAN :
        /\ pace < Timeout
        /\ Took(IF marked THEN "MEMORY_LIMIT_EXCEEDED" ELSE "RUNTIME_ERROR", pace + latency,
                IF hungry THEN "out of memory" ELSE IF marked THEN "named memory" ELSE "crashed")
    /\ UNCHANGED <<container, stop>>

\* Docker cannot find the container, and its exit code passes for the program's.
FindsNoContainer ==
    /\ Runs /\ container = "died"
    /\ \E latency \in job.latencies : Took("RUNTIME_ERROR", latency, "lost")
    /\ UNCHANGED <<container, stop>>

(***************************************************************************)
(* Exit code 137: killed by the timeout, by the kernel for its memory, or  *)
(* with the container; or the program exits with that code itself.  The    *)
(* counter of the container tells of memory, where it can be read;         *)
(* otherwise the time does.  It is compared with what it was before the    *)
(* first test, so that once memory ran out it tells so of every test that  *)
(* is killed after.                                                        *)
(***************************************************************************)
\* MUTANT of Killed: only what overran its limit is taken to have been killed for its time.
KilledIfOver(counted, taken) ==
    IF counted \/ taken <= TimeLimit THEN "MEMORY_LIMIT_EXCEEDED" ELSE "TIME_LIMIT_EXCEEDED"

RanOut == \E i \in DOMAIN did : did[i] = "out of memory"

Killed(counted, taken) ==
    IF counted THEN "MEMORY_LIMIT_EXCEEDED"
    ELSE IF 10 * taken >= 9 * TimeLimit THEN "TIME_LIMIT_EXCEEDED"
    ELSE "MEMORY_LIMIT_EXCEEDED"

IsKilled ==
    /\ Runs /\ container = "up"
    /\ \E pace \in job.paces, latency \in job.latencies, counted \in BOOLEAN,
          why \in {"out of memory", "exited 137", "lost", "time"} :
        /\ counted => why = "out of memory" \/ RanOut
        /\ why = "time" => pace >= Timeout
        /\ LET taken == Lowest(pace, Timeout) + latency
           IN  Took(Killed(counted, taken), taken,
                    IF why # "time" THEN why ELSE IF pace >= TimeLimit THEN "slow" ELSE "cut short")
        /\ container' = IF why = "lost" THEN "died" ELSE "up"
    /\ UNCHANGED stop

\* The timeout inside the container does not fire: docker's client is killed instead.
WatchdogFires ==
    /\ Runs /\ container = "up"
    /\ Took("TIME_LIMIT_EXCEEDED", Timeout + Watchdog, "hung")
    /\ container' = "destroyed"
    /\ UNCHANGED stop

Floods ==
    /\ Runs /\ container = "up"
    /\ \E pace \in job.paces : pace < Timeout /\ Took("OUTPUT_LIMIT_EXCEEDED", pace, "flooded")
    /\ container' = "destroyed"
    /\ stop' = TRUE

Finish ==
    /\ stage = "testing" /\ Len(results) = Len(job.tests)
    /\ stage' = "judged"
    /\ verdict' = SummarizeVerdict(results)
    /\ container' = IF container = "none" THEN "none" ELSE "destroyed"
    /\ UNCHANGED <<job, clock, timeouts, stop, results, did>>

-----------------------------------------------------------------------------
(***************************************************************************)
(* The fallback: the web server sends each test to a compilation service,  *)
(* as one file, and has no limit on what all of them take.  The Python and *)
(* JavaScript harnesses open the candidate's code by the name of its file, *)
(* which the service does not have; the candidate's code runs before them. *)
(***************************************************************************)
FallbackStarts ==
    /\ job.by = "fallback" /\ stage = "new"
    /\ stage' = "testing"
    /\ UNCHANGED <<job, clock, container, timeouts, stop, results, verdict, did>>

Asks ==
    /\ job.by = "fallback" /\ HasTest
    /\ \E pace \in job.paces : clock' = clock + Lowest(pace, Patience)

Answers(v, what) ==
    /\ results' = Append(results, v)
    /\ did' = Append(did, what)
    /\ UNCHANGED <<job, stage, container, timeouts, stop, verdict>>

ServiceFails == Asks /\ Answers("INTERNAL_ERROR", "not run")

\* The program does not compile; or it fails, and the compiler had warned of something.
ServiceRejects ==
    /\ Asks
    /\ job.language \in Compiled
    /\ stage' = "judged"
    /\ verdict' = "COMPILATION_ERROR"
    /\ results' = AllTests("COMPILATION_ERROR")
    /\ did' = AllTests("not compiled")
    /\ UNCHANGED <<job, container, timeouts, stop>>

CompareTrimmed(text) == IF job.expects THEN Compare(Trimmed(text)) ELSE "ACCEPTED"

\* The service kills with a signal what takes too long or too much, and a program may kill itself so.
ServiceRuns ==
    /\ Asks
    /\ job.language \notin Scripts
    /\ \/ \E what \in {"slow", "out of memory", "exited 137"} : Answers("TIME_LIMIT_EXCEEDED", what)
       \/ \E what \in {"crashed", "out of memory"} : Answers("RUNTIME_ERROR", what)
       \/ MayReturnNone /\ Answers(CompareTrimmed(Printed(Nothing)), "nothing")
       \/ \E said \in job.says :
             \/ Answers(CompareTrimmed(said), "talked")
             \/ \E result \in Results : Answers(CompareTrimmed(said \o Printed(result)), "talked")
       \/ \E value \in Returned :
             Answers(CompareTrimmed(Printed(<<value>>)), IF IsRight(value) THEN "right" ELSE "wrong")

HarnessFindsNoFile ==
    /\ Asks
    /\ job.language \in Scripts
    /\ \/ Answers("RUNTIME_ERROR", "not run")
       \/ \E said \in job.says : Answers(CompareTrimmed(said), "talked")

-----------------------------------------------------------------------------
Init ==
    /\ job \in Jobs
    /\ stage = "new"
    /\ clock = 0
    /\ container = "none"
    /\ timeouts = 0
    /\ stop = FALSE
    /\ results = <<>>
    /\ verdict = "none"
    /\ did = <<>>

Next ==
    \/ Create \/ DockerFails \/ Compile \/ CompileFails \/ ContainerDies
    \/ Skip \/ Returns \/ ReturnsNothing \/ Talks \/ Crashes \/ FindsNoContainer \/ IsKilled \/ WatchdogFires \/ Floods
    \/ FallbackStarts \/ ServiceFails \/ ServiceRejects \/ ServiceRuns \/ HarnessFindsNoFile
    \/ Finish

Spec == Init /\ [][Next]_vars

-----------------------------------------------------------------------------
(***************************************************************************)
(* A test of a program that prints nothing of its own is accepted if and   *)
(* only if the program is right, and wrong if and only if it is not:       *)
(* nothing that encoding, the five readers, the printers, the fallback's   *)
(* trim and the comparators do to a value tells otherwise.  A program is   *)
(* right if what it returned, taken for the declared type as its language  *)
(* converts it (a script's 2.5 for 2, its 1 for true), is the answer to    *)
(* what it was given, or the answer of the test.  A function that returns  *)
(* nothing is judged as if it had returned what is empty (or false): it    *)
(* passes the tests whose answer that is, and no others.  A job is         *)
(* accepted only if every test of it passes so, or talked: a program that  *)
(* prints of its own is judged by the whole of its output.                 *)
(***************************************************************************)
Passes(i) ==
    \/ did[i] = "right"
    \/ did[i] = "nothing" /\ job.type \in Nullable \cup {"bool"} /\ job.tests[i] = Empty(job.type)

OutputsJudgedRight ==
    job.expects =>
        /\ \A i \in DOMAIN results :
              /\ results[i] = "ACCEPTED" => Passes(i) \/ did[i] = "talked"
              /\ results[i] = "WRONG_ANSWER" => did[i] \in {"wrong", "nothing", "talked"} /\ ~ Passes(i)
              /\ did[i] \in {"right", "wrong", "nothing"} =>
                    results[i] \in {"ACCEPTED", "WRONG_ANSWER", "TIME_LIMIT_EXCEEDED"}
        /\ verdict = "ACCEPTED" => \A i \in DOMAIN job.tests : Passes(i) \/ did[i] = "talked"

(***************************************************************************)
(* Whatever the programs of a job do, its tests do not hold the worker     *)
(* beyond the job's total time by more than one slice and what docker adds *)
(* to it: the sum of the tests' own limits is no bound, as a job may have  *)
(* many tests that each stay just below theirs.  The fallback knows no     *)
(* total time: it waits for the service as often as there are tests.       *)
(***************************************************************************)
TotalTimeBounded ==
    /\ job.by = "sandbox" /\ (\E i \in DOMAIN did : did[i] \notin {"not run", "not compiled"}) =>
          \E latency \in job.latencies \cup {0} : clock <= Total + Slice + Highest(Watchdog, latency)
    /\ job.by = "fallback" => clock <= Patience * Len(results)

(***************************************************************************)
(* While the job has time left for a whole test, docker adds no more than  *)
(* the allowance and the container lives, a candidate is told of a fault   *)
(* only if a test of theirs had it: memory was exceeded, the program       *)
(* crashed, or it ran to its limit (or for its memory, next to it); or if  *)
(* the program said so, by the exit code of what was killed or by a word   *)
(* of its errors.  A test killed for its time after one that ran out of    *)
(* memory may be told that it ran out of memory as well; the verdict of    *)
(* the job is never that of such a test.                                   *)
(***************************************************************************)
Undisturbed ==
    /\ job.by = "sandbox" => clock <= Total - TimeLimit
    /\ \A latency \in job.latencies : latency <= Allowance
    /\ ~ \E i \in DOMAIN did : did[i] = "lost"
    /\ job.by = "fallback" => job.language \notin Scripts

Causes(v) ==
    CASE v = "MEMORY_LIMIT_EXCEEDED" -> {"out of memory", "named memory", "exited 137"}
      [] v = "RUNTIME_ERROR" -> {"crashed", "out of memory"}
      [] v = "TIME_LIMIT_EXCEEDED" -> {"slow", "hung", "out of memory", "exited 137"}
      [] v = "OUTPUT_LIMIT_EXCEEDED" -> {"flooded"}

Faults == {"MEMORY_LIMIT_EXCEEDED", "RUNTIME_ERROR", "TIME_LIMIT_EXCEEDED", "OUTPUT_LIMIT_EXCEEDED"}

BlameHasCause ==
    Undisturbed =>
        /\ \A i \in DOMAIN results : results[i] \in Faults =>
              \/ did[i] \in Causes(results[i])
              \/ results[i] = "MEMORY_LIMIT_EXCEEDED" /\ \E k \in 1 .. i - 1 : did[k] = "out of memory"
        /\ verdict \in Faults => \E i \in DOMAIN did : did[i] \in Causes(verdict)
=============================================================================
