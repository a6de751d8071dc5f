---------------------------- MODULE JudgeProofs ----------------------------
(***************************************************************************)
(* Judge for any jobs, values, times and limits.                           *)
(*                                                                         *)
(* Whatever a step tells of a test, it appends one verdict and what the    *)
(* program did (Appends), and of the other variables it does little        *)
(* (Goes).  Fits says when such a pair is right: in time, in the reasons   *)
(* for which further tests are skipped, in blame, and in the output.  The  *)
(* proof has two halves.  Any step that fits keeps the invariant, and so   *)
(* do the steps around the tests.  Each of the ways in which a test ends   *)
(* fits: for the output this takes the codec, of which it is proved that   *)
(* every harness reads back what was encoded, and that two outputs are     *)
(* compared as their values would be.                                      *)
(*                                                                         *)
(* Trees are left out where outputs are judged: how a level order is read  *)
(* and printed needs an induction over it, and holds only of those that    *)
(* name nothing behind the children of the last node, which validateValue  *)
(* does not ask for.  Of a program that prints of its own nothing is said  *)
(* but in what order it may be skipped, blamed and timed: its output is    *)
(* compared as a whole.                                                    *)
(***************************************************************************)
EXTENDS Judge, FiniteSetTheorems, TLAPS

Verdicts == {"ACCEPTED", "EXECUTED", "WRONG_ANSWER", "TIME_LIMIT_EXCEEDED", "RUNTIME_ERROR",
             "MEMORY_LIMIT_EXCEEDED", "OUTPUT_LIMIT_EXCEEDED", "SKIPPED", "INTERNAL_ERROR", "COMPILATION_ERROR"}

Good == {"ACCEPTED", "EXECUTED"}

Deeds == {"right", "wrong", "nothing", "talked", "crashed", "out of memory", "named memory", "exited 137",
          "slow", "cut short", "hung", "flooded", "lost", "not run", "not compiled"}

\* What takes no time of a job's in the sandbox.
NoTime == {"not run", "not compiled"}

Types ==
    /\ job \in Jobs
    /\ stage \in {"new", "up", "testing", "judged", "thrown"}
    /\ clock \in Nat
    /\ container \in {"none", "up", "died", "destroyed"}
    /\ timeouts \in Nat
    /\ stop \in BOOLEAN
    /\ results \in Seq(Verdicts) /\ did \in Seq(Deeds)
    /\ Len(did) = Len(results) /\ Len(results) <= Len(job.tests)
    /\ verdict \in Verdicts \cup {"none"}

\* What has not begun yet, and what the fallback does without.
Stages ==
    /\ stage \in {"new", "up"} => results = <<>>
    /\ stage # "judged" => verdict = "none"
    /\ job.by = "fallback" => container = "none" /\ ~ stop /\ timeouts = 0 /\ stage \notin {"up", "thrown"}
    /\ stage \in {"new", "up"} => container # "destroyed" /\ ~ stop /\ timeouts = 0

\* Whatever makes the judge skip the tests that are left, but for the time, has failed a test.
Stopped ==
    stage = "testing" /\ (stop \/ container = "destroyed" \/ timeouts > 0) =>
        \E i \in DOMAIN results : results[i] \in Faults

SkippedAfterFault ==
    job.by = "fallback" \/ clock <= Total =>
        \A i \in DOMAIN results : results[i] = "SKIPPED" => \E k \in 1 .. i - 1 : results[k] \in Faults

MemoryTold == \A i \in DOMAIN did : did[i] = "out of memory" => results[i] \in Faults

\* The first half of BlameHasCause, which does not speak of the verdict.
CauseTold ==
    Undisturbed =>
        \A i \in DOMAIN results : results[i] \in Faults =>
            \/ did[i] \in Causes(results[i])
            \/ results[i] = "MEMORY_LIMIT_EXCEEDED" /\ \E k \in 1 .. i - 1 : did[k] = "out of memory"

\* The first half of OutputsJudgedRight; what is expected is compared.
OutputTold ==
    job.expects =>
        \A i \in DOMAIN results :
            /\ results[i] # "EXECUTED"
            /\ job.type # "TreeNode" =>
                /\ results[i] = "ACCEPTED" => Passes(i) \/ did[i] = "talked"
                /\ results[i] = "WRONG_ANSWER" => did[i] \in {"wrong", "nothing", "talked"} /\ ~ Passes(i)
                /\ did[i] \in {"right", "wrong", "nothing"} =>
                      results[i] \in {"ACCEPTED", "WRONG_ANSWER", "TIME_LIMIT_EXCEEDED"}

\* The verdict of a job whose tests have the verdicts s: that of the first test that failed.
Sums(s, v) ==
    \/ v = "ACCEPTED" /\ \A i \in DOMAIN s : s[i] \in Good
    \/ \E i \in DOMAIN s :
          /\ s[i] \notin Good /\ \A k \in 1 .. i - 1 : s[k] \in Good
          /\ v = IF s[i] = "SKIPPED" THEN "TIME_LIMIT_EXCEEDED" ELSE s[i]

\* The tests of a job that is judged by them, and the verdict.
Summarized ==
    stage = "judged" =>
        \/ verdict = "COMPILATION_ERROR"
        \/ Len(results) = Len(job.tests) /\ Sums(results, verdict)

Inductive ==
    /\ Types /\ Stages /\ Stopped /\ SkippedAfterFault /\ MemoryTold
    /\ CauseTold /\ OutputTold /\ TotalTimeBounded /\ Summarized

-----------------------------------------------------------------------------
\* A step that tells verdict v of a test in which the program did what.
Appends(v, what) ==
    /\ stage = "testing" /\ Len(results) < Len(job.tests)
    /\ results' = Append(results, v) /\ did' = Append(did, what)
    /\ UNCHANGED <<job, stage, verdict>>

\* What such a step does to the other variables.
Goes ==
    /\ clock' \in Nat /\ clock <= clock'
    /\ timeouts' \in Nat /\ stop' \in BOOLEAN /\ container' \in {"none", "up", "died", "destroyed"}
    /\ job.by = "fallback" => UNCHANGED <<container, timeouts, stop>>

FitsTime(what) ==
    /\ job.by = "sandbox" =>
          IF what \in NoTime THEN clock' = clock
          ELSE \E latency \in job.latencies \cup {0} : clock' <= Total + Slice + Highest(Watchdog, latency)
    /\ job.by = "fallback" => clock' <= clock + Patience

FitsStop(v) ==
    /\ stop' # stop \/ (container' = "destroyed" /\ container # "destroyed") \/ timeouts' # timeouts => v \in Faults
    /\ v = "SKIPPED" =>
          job.by = "sandbox" /\ (clock > Total \/ stop \/ container = "destroyed" \/ timeouts > 0)

FitsBlame(v, what) ==
    /\ what = "out of memory" => v \in Faults
    /\ Undisturbed' /\ v \in Faults => what \in Causes(v) \/ (v = "MEMORY_LIMIT_EXCEEDED" /\ RanOut)

\* Whether the test is passed, by the output that it has.
PassesNow(what) ==
    \/ what = "right"
    \/ what = "nothing" /\ job.type \in Nullable \cup {"bool"} /\ Test = Empty(job.type)

FitsOutput(v, what) ==
    job.expects =>
        /\ v # "EXECUTED"
        /\ job.type # "TreeNode" =>
            /\ v = "ACCEPTED" => PassesNow(what) \/ what = "talked"
            /\ v = "WRONG_ANSWER" => what \in {"wrong", "nothing", "talked"} /\ ~ PassesNow(what)
            /\ what \in {"right", "wrong", "nothing"} =>
                  v \in {"ACCEPTED", "WRONG_ANSWER", "TIME_LIMIT_EXCEEDED"}

Fits(v, what) ==
    /\ v \in Verdicts /\ what \in Deeds
    /\ Appends(v, what) /\ Goes
    /\ FitsTime(what) /\ FitsStop(v) /\ FitsBlame(v, what) /\ FitsOutput(v, what)

Tells == \E v, what : Fits(v, what)

-----------------------------------------------------------------------------
LEMMA Constants ==
    /\ Second \in Int /\ TimeLimit \in Nat /\ Total \in Nat /\ Allowance \in Nat /\ Watchdog \in Nat
    /\ Patience \in Nat
    /\ \A t \in Startups : t \in Nat
    /\ StopAfterTimeouts = 2 /\ Slice = 1
  BY TimesAssumption DEF StopAfterTimeouts, Slice

LEMMA JobFacts ==
  ASSUME job \in Jobs
  PROVE  /\ job.by \in {"sandbox", "fallback"}
         /\ job.language \in {"c", "cpp", "java", "javascript", "python"}
         /\ job.expects \in BOOLEAN
         /\ job.type \in ValueTypes /\ \A v \in job.values : ValidValue(job.type, v)
         /\ job.tests \in Seq(job.values)
         /\ \A value \in job.returns : MayReturn(job.language, job.type, value)
         /\ Len(job.tests) \in Nat /\ DOMAIN job.tests = 1 .. Len(job.tests)
         /\ \A t \in job.paces : t \in Nat
         /\ \A t \in job.latencies : t \in Nat
<1>1. JobOK(job)
  BY JobsAssumption
<1>2. job.tests \in Seq(job.values)
  BY <1>1 DEF JobOK
<1>3. Len(job.tests) \in Nat /\ DOMAIN job.tests = 1 .. Len(job.tests)
  BY <1>2
<1> QED
  BY <1>1, <1>2, <1>3 DEF JobOK

\* The sequences after a test: what was told stays where it is.
LEMMA Appended ==
  ASSUME NEW S, NEW s \in Seq(S), NEW e \in S
  PROVE  /\ Append(s, e) \in Seq(S)
         /\ Len(s) \in Nat /\ DOMAIN s = 1 .. Len(s)
         /\ Len(Append(s, e)) = Len(s) + 1
         /\ DOMAIN Append(s, e) = 1 .. (Len(s) + 1)
         /\ \A i \in 1 .. Len(s) : Append(s, e)[i] = s[i]
         /\ Append(s, e)[Len(s) + 1] = e
  OBVIOUS

LEMMA LastOrEarlier == \A n \in Nat : \A i \in 1 .. (n + 1) : i \in 1 .. n \/ i = n + 1
  OBVIOUS

LEMMA TestsAppended ==
  ASSUME Types, NEW v \in Verdicts, NEW what \in Deeds, Appends(v, what)
  PROVE  /\ results' \in Seq(Verdicts) /\ did' \in Seq(Deeds)
         /\ Len(results) \in Nat /\ Len(did) = Len(results)
         /\ Len(results') = Len(results) + 1 /\ Len(did') = Len(results) + 1
         /\ DOMAIN results = 1 .. Len(results) /\ DOMAIN did = 1 .. Len(results)
         /\ DOMAIN results' = 1 .. (Len(results) + 1) /\ DOMAIN did' = 1 .. (Len(results) + 1)
         /\ \A i \in 1 .. Len(results) : results'[i] = results[i] /\ did'[i] = did[i]
         /\ results'[Len(results) + 1] = v /\ did'[Len(results) + 1] = what
  BY Appended DEF Types, Appends

-----------------------------------------------------------------------------
(* What is kept by a step that tells of a test.                            *)

LEMMA TestKeepsTypes == Types /\ Tells => Types'
<1> SUFFICES ASSUME Types, NEW v, NEW what, Fits(v, what) PROVE Types'
  BY DEF Tells
<1>1. v \in Verdicts /\ what \in Deeds /\ Appends(v, what) /\ Goes
  BY DEF Fits
<1>2. Len(job.tests) \in Nat
  BY JobFacts DEF Types
<1>3. Len(results') <= Len(job'.tests)
  BY <1>1, <1>2, TestsAppended DEF Types, Appends
<1> QED
  BY <1>1, <1>3, TestsAppended DEF Types, Appends, Goes

LEMMA TestKeepsStages == Types /\ Stages /\ Tells => Stages'
  BY DEF Types, Stages, Tells, Fits, Appends, Goes

LEMMA TestKeepsStopped == Types /\ Stopped /\ Tells => Stopped'
<1> SUFFICES ASSUME Types, Stopped, NEW v, NEW what, Fits(v, what),
                    stop' \/ container' = "destroyed" \/ timeouts' > 0
             PROVE  \E i \in DOMAIN results' : results'[i] \in Faults
  BY DEF Tells, Stopped
<1>1. v \in Verdicts /\ what \in Deeds /\ Appends(v, what) /\ Goes /\ FitsStop(v)
  BY DEF Fits
<1>2. CASE v \in Faults
  BY <1>1, <1>2, TestsAppended
<1>3. CASE v \notin Faults
  <2>1. stop \/ container = "destroyed" \/ timeouts > 0
    BY <1>1, <1>3 DEF FitsStop, Types
  <2>2. PICK i \in DOMAIN results : results[i] \in Faults
    BY <1>1, <2>1 DEF Stopped, Appends
  <2> QED
    BY <1>1, <2>2, TestsAppended
<1> QED
  BY <1>2, <1>3

LEMMA TestKeepsSkipped == Types /\ Stopped /\ SkippedAfterFault /\ Tells => SkippedAfterFault'
<1> SUFFICES ASSUME Types, Stopped, SkippedAfterFault, NEW v, NEW what, Fits(v, what),
                    job'.by = "fallback" \/ clock' <= Total, NEW i \in DOMAIN results', results'[i] = "SKIPPED"
             PROVE  \E k \in 1 .. i - 1 : results'[k] \in Faults
  BY DEF Tells, SkippedAfterFault
<1>1. v \in Verdicts /\ what \in Deeds /\ Appends(v, what) /\ Goes /\ FitsStop(v)
  BY DEF Fits
<1>2. job.by = "fallback" \/ clock <= Total
  <2>1. job' = job
    BY <1>1 DEF Appends
  <2> QED
    BY <1>1, <2>1, Constants DEF Goes, Types
<1>3. CASE i \in 1 .. Len(results)
  <2>1. PICK k \in 1 .. i - 1 : results[k] \in Faults
    BY <1>1, <1>2, <1>3, TestsAppended DEF SkippedAfterFault
  <2>2. k \in 1 .. Len(results)
    BY <1>1, <1>3, <2>1, TestsAppended
  <2> QED
    BY <1>1, <2>1, <2>2, TestsAppended
<1>4. CASE i = Len(results) + 1
  <2>1. stop \/ container = "destroyed" \/ timeouts > 0
    <3>1. v = "SKIPPED"
      BY <1>1, <1>4, TestsAppended
    <3>2. job.by = "sandbox" /\ (clock > Total \/ stop \/ container = "destroyed" \/ timeouts > 0)
      BY <1>1, <3>1 DEF FitsStop
    <3>3. clock <= Total
      BY <1>2, <3>2
    <3> QED
      BY <3>2, <3>3, Constants DEF Types
  <2>2. PICK k \in DOMAIN results : results[k] \in Faults
    BY <1>1, <2>1 DEF Stopped, Appends
  <2> QED
    BY <1>1, <1>4, <2>2, TestsAppended
<1> QED
  BY <1>1, <1>3, <1>4, TestsAppended

LEMMA TestKeepsMemory == Types /\ MemoryTold /\ Tells => MemoryTold'
<1> SUFFICES ASSUME Types, MemoryTold, NEW v, NEW what, Fits(v, what),
                    NEW i \in DOMAIN did', did'[i] = "out of memory"
             PROVE  results'[i] \in Faults
  BY DEF Tells, MemoryTold
<1>1. v \in Verdicts /\ what \in Deeds /\ Appends(v, what) /\ FitsBlame(v, what)
  BY DEF Fits
<1>2. CASE i \in 1 .. Len(results)
  BY <1>1, <1>2, TestsAppended DEF MemoryTold
<1>3. CASE i = Len(results) + 1
  <2>1. did'[i] = what /\ results'[i] = v
    BY <1>1, <1>3, TestsAppended
  <2> QED
    BY <1>1, <2>1 DEF FitsBlame
<1>4. i \in 1 .. Len(results) \/ i = Len(results) + 1
  <2>1. i \in 1 .. (Len(results) + 1) /\ Len(results) \in Nat
    BY <1>1, TestsAppended
  <2> QED
    BY <2>1, LastOrEarlier, Zenon
<1> QED
  BY <1>2, <1>3, <1>4

LEMMA OneMore == \A p, n \in Nat : p * (n + 1) = p * n + p
  OBVIOUS

LEMMA NoFewer ==
  ASSUME NEW p \in Nat, NEW n \in Nat, NEW m \in Nat, n <= m
  PROVE  p * n <= p * m
<1>1. m - n \in Nat
  OBVIOUS
<1>2. p * (m - n) >= 0
  BY <1>1
<1>3. p * m = p * n + p * (m - n)
  BY <1>1
<1>4. p * n \in Nat /\ p * m \in Int /\ p * (m - n) \in Int
  BY <1>1
<1> QED
  BY <1>2, <1>3, <1>4

\* Another wait is within the bound while a test is left.
LEMMA OneLeft ==
  ASSUME NEW p \in Nat, NEW n \in Nat, NEW m \in Nat, n < m
  PROVE  p * n + p <= p * m
<1>1. n + 1 \in Nat /\ n + 1 <= m
  OBVIOUS
<1>2. p * (n + 1) <= p * m
  BY <1>1, NoFewer
<1> QED
  BY <1>2, OneMore

LEMMA Waited ==
  ASSUME NEW p \in Nat, NEW n \in Nat, NEW m \in Nat, NEW c \in Nat, NEW d \in Nat,
         c <= p * n, d <= c + p, p * n + p <= p * m
  PROVE  d <= p * m
<1>1. PICK a : a = p * n
  OBVIOUS
<1>2. PICK b : b = p * m
  OBVIOUS
<1>3. a \in Nat /\ b \in Nat
  BY <1>1, <1>2
<1>4. c <= a /\ a + p <= b
  BY <1>1, <1>2
<1>5. d <= b
  BY <1>3, <1>4
<1> QED
  BY <1>2, <1>5

LEMMA TestKeepsTime == Types /\ TotalTimeBounded /\ Tells => TotalTimeBounded'
<1> SUFFICES ASSUME Types, TotalTimeBounded, NEW v, NEW what, Fits(v, what) PROVE TotalTimeBounded'
  BY DEF Tells
<1>1. v \in Verdicts /\ what \in Deeds /\ Appends(v, what) /\ Goes /\ FitsTime(what)
  BY DEF Fits
<1>2. job' = job
  BY <1>1 DEF Appends
<1>3. ASSUME job.by = "sandbox", NEW i \in DOMAIN did', did'[i] \notin NoTime
      PROVE  \E latency \in job.latencies \cup {0} : clock' <= Total + Slice + Highest(Watchdog, latency)
  <2>1. CASE what \notin NoTime
    BY <1>1, <1>3, <2>1 DEF FitsTime
  <2>2. CASE what \in NoTime
    <3>1. i \in DOMAIN did /\ did[i] = did'[i]
      BY <1>1, <1>3, <2>2, TestsAppended
    <3>2. clock' = clock
      BY <1>1, <1>3, <2>2 DEF FitsTime
    <3> QED
      BY <1>3, <3>1, <3>2 DEF TotalTimeBounded, NoTime
  <2> QED
    BY <2>1, <2>2
<1>4. ASSUME job.by = "fallback" PROVE clock' <= Patience * Len(results')
  <2>1. /\ clock <= Patience * Len(results) /\ clock' <= clock + Patience
        /\ clock \in Nat /\ clock' \in Nat
    BY <1>1, <1>4 DEF TotalTimeBounded, FitsTime, Types, Goes
  <2>2. Len(results) \in Nat /\ Len(results') = Len(results) + 1
    BY <1>1, TestsAppended
  <2>3. Patience * Len(results') = Patience * Len(results) + Patience
    BY <2>2, Constants, OneMore
  <2>4. PICK a : a = Patience * Len(results)
    OBVIOUS
  <2>5. a \in Nat
    BY <2>2, <2>4, Constants
  <2>6. clock <= a /\ Patience * Len(results') = a + Patience
    BY <2>1, <2>3, <2>4
  <2> QED
    BY <2>1, <2>5, <2>6, Constants
<1> QED
  BY <1>2, <1>3, <1>4 DEF TotalTimeBounded, NoTime, Highest

\* A job that is undisturbed was so before.
LEMMA UndisturbedBefore ==
  ASSUME Types, NEW v \in Verdicts, NEW what \in Deeds, Appends(v, what), Goes, Undisturbed'
  PROVE  Undisturbed /\ what # "lost"
<1>1. (job'.by = "sandbox" => clock' <= Total - TimeLimit) /\ job' = job
  BY DEF Undisturbed, Appends
<1>2. job.by = "sandbox" => clock <= Total - TimeLimit
  BY <1>1, Constants DEF Types, Goes
<1>3. \A i \in DOMAIN did' : did'[i] # "lost"
  BY DEF Undisturbed
<1>4. what # "lost" /\ \A i \in DOMAIN did : did[i] # "lost"
  <2>1. \A i \in DOMAIN did : i \in DOMAIN did' /\ did'[i] = did[i]
    BY TestsAppended
  <2>2. Len(results) + 1 \in DOMAIN did' /\ did'[Len(results) + 1] = what
    BY TestsAppended
  <2> QED
    BY <1>3, <2>1, <2>2
<1> QED
  BY <1>1, <1>2, <1>4 DEF Undisturbed

LEMMA TestKeepsCause == Types /\ CauseTold /\ Tells => CauseTold'
<1> SUFFICES ASSUME Types, CauseTold, NEW v, NEW what, Fits(v, what), Undisturbed',
                    NEW i, i \in DOMAIN results', results'[i] \in Faults
             PROVE  \/ did'[i] \in Causes(results'[i])
                    \/ results'[i] = "MEMORY_LIMIT_EXCEEDED" /\ \E k \in 1 .. i - 1 : did'[k] = "out of memory"
  BY DEF Tells, CauseTold, Causes
<1>1. v \in Verdicts /\ what \in Deeds /\ Appends(v, what) /\ Goes /\ FitsBlame(v, what)
  BY DEF Fits
<1>2. CASE i \in 1 .. Len(results)
  <2>1. i \in DOMAIN results /\ results'[i] = results[i] /\ did'[i] = did[i]
    BY <1>1, <1>2, TestsAppended
  <2>2. \/ did[i] \in Causes(results[i])
        \/ results[i] = "MEMORY_LIMIT_EXCEEDED" /\ \E k \in 1 .. i - 1 : did[k] = "out of memory"
    BY <1>1, <2>1, UndisturbedBefore DEF CauseTold
  <2>3. \A k \in 1 .. i - 1 : did'[k] = did[k]
    <3>1. \A k \in 1 .. i - 1 : k \in 1 .. Len(results)
      BY <1>1, <1>2, TestsAppended
    <3> QED
      BY <1>1, <3>1, TestsAppended
  <2> QED
    BY <2>1, <2>2, <2>3
<1>3. CASE i = Len(results) + 1
  <2>1. results'[i] = v /\ did'[i] = what
    BY <1>1, <1>3, TestsAppended
  <2>2. what \in Causes(v) \/ (v = "MEMORY_LIMIT_EXCEEDED" /\ RanOut)
    BY <1>1, <2>1 DEF FitsBlame
  <2>3. RanOut => \E k \in 1 .. i - 1 : did'[k] = "out of memory"
    <3>1. \A k \in DOMAIN did : k \in 1 .. i - 1 /\ did'[k] = did[k]
      BY <1>1, <1>3, TestsAppended
    <3> QED
      BY <3>1 DEF RanOut
  <2> QED
    BY <2>1, <2>2, <2>3
<1>4. i \in 1 .. Len(results) \/ i = Len(results) + 1
  <2>1. i \in 1 .. (Len(results) + 1) /\ Len(results) \in Nat
    BY <1>1, TestsAppended
  <2> QED
    BY <2>1, LastOrEarlier, Zenon
<1> QED
  BY <1>2, <1>3, <1>4

LEMMA TestKeepsOutput == Types /\ OutputTold /\ Tells => OutputTold'
<1> SUFFICES ASSUME Types, OutputTold, NEW v, NEW what, Fits(v, what), job'.expects,
                    NEW i, i \in DOMAIN results'
             PROVE  /\ results'[i] # "EXECUTED"
                    /\ job'.type # "TreeNode" =>
                        /\ results'[i] = "ACCEPTED" => Passes(i)' \/ did'[i] = "talked"
                        /\ results'[i] = "WRONG_ANSWER" => did'[i] \in {"wrong", "nothing", "talked"} /\ ~ Passes(i)'
                        /\ did'[i] \in {"right", "wrong", "nothing"} =>
                              results'[i] \in {"ACCEPTED", "WRONG_ANSWER", "TIME_LIMIT_EXCEEDED"}
  BY DEF Tells, OutputTold
<1>1. v \in Verdicts /\ what \in Deeds /\ Appends(v, what) /\ FitsOutput(v, what)
  BY DEF Fits
<1>0. job' = job
  BY <1>1 DEF Appends
<1>2. CASE i \in 1 .. Len(results)
  <2>1. i \in DOMAIN results /\ results'[i] = results[i] /\ did'[i] = did[i]
    BY <1>1, <1>2, TestsAppended
  <2>2. Passes(i)' <=> Passes(i)
    BY <1>0, <2>1 DEF Passes, Empty
  <2> QED
    BY <1>0, <2>1, <2>2 DEF OutputTold
<1>3. CASE i = Len(results) + 1
  <2>1. results'[i] = v /\ did'[i] = what
    BY <1>1, <1>3, TestsAppended
  <2>2. Passes(i)' <=> PassesNow(what)
    BY <1>0, <1>3, <2>1 DEF Passes, PassesNow, Test, Empty
  <2> QED
    BY <1>0, <1>1, <2>1, <2>2 DEF FitsOutput
<1>4. i \in 1 .. Len(results) \/ i = Len(results) + 1
  <2>1. i \in 1 .. (Len(results) + 1) /\ Len(results) \in Nat
    BY <1>1, TestsAppended
  <2> QED
    BY <2>1, LastOrEarlier, Zenon
<1> QED
  BY <1>2, <1>3, <1>4

LEMMA TestKeepsSummarized == Types /\ Summarized /\ Tells => Summarized'
  BY DEF Summarized, Tells, Fits, Appends

LEMMA TestStays == Inductive /\ Tells => Inductive'
  BY TestKeepsTypes, TestKeepsStages, TestKeepsStopped, TestKeepsSkipped, TestKeepsMemory,
     TestKeepsCause, TestKeepsOutput, TestKeepsTime, TestKeepsSummarized
  DEF Inductive

-----------------------------------------------------------------------------
(* The steps around the tests.                                             *)

LEMMA Initially == Init => Inductive
<1> SUFFICES ASSUME Init PROVE Inductive
  OBVIOUS
<1>1. results = <<>> /\ did = <<>> /\ Len(results) = 0 /\ Len(did) = 0 /\ DOMAIN results = {} /\ DOMAIN did = {}
  BY DEF Init
<1>2. Types
  <2>1. job \in Jobs /\ Len(job.tests) \in Nat
    BY JobFacts DEF Init
  <2>2. results \in Seq(Verdicts) /\ did \in Seq(Deeds)
    BY DEF Init
  <2>3. /\ stage = "new" /\ clock = 0 /\ container = "none" /\ timeouts = 0 /\ stop = FALSE
        /\ verdict = "none"
    BY DEF Init
  <2>4. Len(did) = Len(results) /\ Len(results) <= Len(job.tests)
    BY <1>1, <2>1
  <2> QED
    BY <2>1, <2>2, <2>3, <2>4 DEF Types
<1>3. TotalTimeBounded
  <2>1. 0 <= Patience * 0
    BY Constants
  <2>2. clock = 0
    BY DEF Init
  <2> QED
    BY <1>1, <2>1, <2>2 DEF TotalTimeBounded
<1> QED
  BY <1>1, <1>2, <1>3, Constants
  DEF Init, Inductive, Stages, Stopped, SkippedAfterFault, MemoryTold, CauseTold, OutputTold, Summarized

\* What has been told stays true of what is left alone.
LEMMA ToldStays ==
  ASSUME Inductive, UNCHANGED <<job, clock, results, did>>
  PROVE  SkippedAfterFault' /\ MemoryTold' /\ CauseTold' /\ OutputTold' /\ TotalTimeBounded'
<1>0. job' = job /\ clock' = clock /\ results' = results /\ did' = did
  OBVIOUS
<1> USE DEF Inductive
<1>1. SkippedAfterFault'
  BY <1>0 DEF SkippedAfterFault
<1>2. MemoryTold'
  BY <1>0 DEF MemoryTold
<1>3. CauseTold'
  <2>1. Undisturbed' => Undisturbed
    BY <1>0 DEF Undisturbed
  <2> QED
    BY <1>0, <2>1 DEF CauseTold, Causes
<1>4. OutputTold'
  <2>1. \A i : Passes(i)' <=> Passes(i)
    BY <1>0 DEF Passes, Empty
  <2> QED
    BY <1>0, <2>1 DEF OutputTold
<1>5. TotalTimeBounded'
  BY <1>0 DEF TotalTimeBounded, Highest
<1> QED
  BY <1>1, <1>2, <1>3, <1>4, <1>5

\* A step that tells nothing, at a time when nothing has been told or in no time.
LEMMA QuietStays ==
  ASSUME Inductive, UNCHANGED <<job, results, verdict, did, timeouts, stop>>,
         clock' \in Nat,
         clock' = clock \/ (results = <<>> /\ job.by = "sandbox"),
         stage' \in {"up", "testing"}, stage \in {"new", "up", "testing"},
         stage' # "testing" => stage = "new",
         job.by = "fallback" => stage' = "testing" /\ container' = container,
         container' \in {"none", "up", "died"},
         stage = "testing" => container = "up"
  PROVE  Inductive'
<1> USE DEF Inductive
<1>1. Types'
  BY DEF Types
<1>2. Stages'
  BY DEF Types, Stages
<1>3. Stopped'
  BY DEF Types, Stages, Stopped
<1>4. CASE clock' = clock
  <2>1. Summarized'
    BY DEF Summarized
  <2> QED
    BY <1>1, <1>2, <1>3, <1>4, <2>1, ToldStays
<1>5. CASE results = <<>> /\ job.by = "sandbox"
  <2>1. DOMAIN results = {} /\ DOMAIN did = {}
    BY <1>5 DEF Types
  <2>2. SkippedAfterFault' /\ MemoryTold' /\ CauseTold' /\ OutputTold' /\ TotalTimeBounded' /\ Summarized'
    BY <2>1 DEF SkippedAfterFault, MemoryTold, CauseTold, OutputTold, TotalTimeBounded, Summarized
  <2> QED
    BY <1>1, <1>2, <1>3, <2>2
<1> QED
  BY <1>4, <1>5

\* A job that is given back keeps what was told of it, and is not in the hands of the judge.
LEMMA ThrownStays == Inductive /\ DockerFails => Inductive'
<1> SUFFICES ASSUME Inductive, DockerFails PROVE Inductive'
  OBVIOUS
<1> USE DEF Inductive
<1>1. /\ job.by = "sandbox" /\ stage' = "thrown" /\ stage \in {"new", "up", "testing"}
      /\ UNCHANGED <<job, clock, timeouts, stop, results, verdict, did>> /\ container' \in {"none", "destroyed"}
  <2>1. stage = "up" => job.by = "sandbox"
    BY JobFacts DEF Types, Stages
  <2> QED
    BY <2>1 DEF DockerFails, Runs, HasTest
<1>2. Types' /\ Stages' /\ Stopped' /\ Summarized'
  BY <1>1 DEF Types, Stages, Stopped, Summarized
<1> QED
  BY <1>1, <1>2, ToldStays

LEMMA QuietSteps ==
    Inductive /\ (Create \/ Compile \/ ContainerDies \/ FallbackStarts) => Inductive'
<1> SUFFICES ASSUME Inductive, Create \/ Compile \/ ContainerDies \/ FallbackStarts
             PROVE  Inductive'
  OBVIOUS
<1>1. Types /\ Stages
  BY DEF Inductive
<1>2. CASE Create
  <2>1. clock' \in Nat
    BY <1>1, <1>2, Constants DEF Create, Types
  <2> QED
    BY <1>1, <1>2, <2>1, QuietStays DEF Create, Stages
<1>4. CASE Compile
  <2>1. clock' \in Nat
    BY <1>1, <1>4, Constants DEF Compile, Types
  <2>2. results = <<>> /\ job.by = "sandbox"
    <3>1. job.by \in {"sandbox", "fallback"}
      BY <1>1, JobFacts DEF Types
    <3> QED
      BY <1>1, <1>4, <3>1 DEF Compile, Stages
  <2> QED
    BY <1>1, <1>4, <2>1, <2>2, QuietStays DEF Compile, Types, Stages
<1>5. CASE ContainerDies
  BY <1>1, <1>5, QuietStays DEF ContainerDies, Types, Stages
<1>6. CASE FallbackStarts
  BY <1>1, <1>6, QuietStays DEF FallbackStarts, Types, Stages
<1> QED
  BY <1>2, <1>4, <1>5, <1>6

LEMMA Stutters == Inductive /\ UNCHANGED vars => Inductive'
<1> SUFFICES ASSUME Inductive, UNCHANGED vars PROVE Inductive'
  OBVIOUS
<1> USE DEF Inductive, vars
<1>1. Types' /\ Stages' /\ Stopped' /\ Summarized'
  BY DEF Types, Stages, Stopped, Summarized
<1> QED
  BY <1>1, ToldStays

LEMMA Constantly ==
  ASSUME NEW S, NEW e \in S, NEW n \in Nat
  PROVE  [i \in 1 .. n |-> e] \in Seq(S) /\ Len([i \in 1 .. n |-> e]) = n
  OBVIOUS

LEMMA LengthIs ==
  ASSUME NEW S, NEW s \in Seq(S)
  PROVE  Len(s) \in Nat
  OBVIOUS

LEMMA AtMostItself == \A n \in Nat : n <= n
  OBVIOUS

\* A source that is not compiled is told so in every test.
LEMMA Rejected ==
  ASSUME Inductive, stage' = "judged", verdict' = "COMPILATION_ERROR",
         results' = AllTests("COMPILATION_ERROR"), did' = AllTests("not compiled"),
         UNCHANGED <<job, timeouts, stop>>, clock' \in Nat, clock <= clock',
         container' \in {"none", "up", "died", "destroyed"},
         job.by = "fallback" =>
             container' = container /\ clock' <= clock + Patience /\ Len(results) < Len(job.tests)
  PROVE  Inductive'
<1>1. Types /\ Stages /\ TotalTimeBounded
  BY DEF Inductive
<1>2. job \in Jobs /\ Len(job.tests) \in Nat /\ DOMAIN job.tests = 1 .. Len(job.tests)
  BY <1>1, JobFacts DEF Types
<1>3. /\ results' \in Seq(Verdicts) /\ did' \in Seq(Deeds)
      /\ Len(results') = Len(job.tests) /\ Len(did') = Len(job.tests)
  BY <1>2, Constantly DEF AllTests, Verdicts, Deeds
<1>4. /\ \A i \in DOMAIN results' : results'[i] = "COMPILATION_ERROR"
      /\ \A i \in DOMAIN did' : did'[i] = "not compiled"
  BY DEF AllTests
<1>5. Types'
  <2>0. job' = job
    OBVIOUS
  <2>1. Len(results') <= Len(job'.tests) /\ Len(did') = Len(results')
    <3>1. Len(results') = Len(job.tests) /\ Len(did') = Len(job.tests) /\ Len(job.tests) \in Nat
      BY <1>2, <1>3
    <3>2. job'.tests = job.tests
      BY <2>0, Zenon
    <3>3. Len(job.tests) <= Len(job.tests)
      BY <1>2, AtMostItself
    <3> QED
      BY <3>1, <3>2, <3>3, Zenon
  <2>2. verdict' \in Verdicts
    BY DEF Verdicts
  <2> QED
    BY <1>1, <1>3, <2>1, <2>2 DEF Types
<1>6. Stages' /\ Stopped' /\ Summarized'
  BY <1>1 DEF Stages, Stopped, Summarized
<1>7. SkippedAfterFault' /\ MemoryTold' /\ CauseTold'
  BY <1>4 DEF SkippedAfterFault, MemoryTold, CauseTold, Faults
<1>9. TotalTimeBounded'
  <2>1. job' = job /\ \A i \in DOMAIN did' : did'[i] = "not compiled"
    BY <1>4
  <2>2. ASSUME job.by = "fallback" PROVE clock' <= Patience * Len(results')
    <3>1. clock <= Patience * Len(results) /\ clock' <= clock + Patience /\ clock \in Nat /\ clock' \in Nat
      BY <1>1, <2>2 DEF TotalTimeBounded, Types
    <3>2. Len(results) \in Nat /\ Len(results) < Len(job.tests)
      <4>1. results \in Seq(Verdicts)
        BY <1>1 DEF Types
      <4>2. Len(results) < Len(job.tests)
        BY <2>2, Zenon
      <4>3. Len(results) \in Nat
        BY <4>1, LengthIs, Zenon
      <4> QED
        BY <4>2, <4>3, Zenon
    <3>3. Len(results') = Len(job.tests)
      BY <1>3
    <3>4. Patience * Len(results) + Patience <= Patience * Len(job.tests)
      BY <1>2, <3>2, Constants, OneLeft
    <3> QED
      BY <1>2, <3>1, <3>2, <3>3, <3>4, Constants, Waited
  <2> QED
    BY <2>1, <2>2 DEF TotalTimeBounded
<1>8. OutputTold'
  <2>1. DOMAIN results' = DOMAIN did'
    BY <1>3, <1>2 DEF AllTests
  <2> QED
    BY <1>4, <2>1 DEF OutputTold
<1> QED
  BY <1>5, <1>6, <1>7, <1>8, <1>9 DEF Inductive

LEMMA WaitsFor ==
  ASSUME Types, Asks
  PROVE  clock' \in Nat /\ clock <= clock' /\ clock' <= clock + Patience
<1>1. PICK pace \in job.paces : clock' = clock + Lowest(pace, Patience)
  BY DEF Asks
<1>2. pace \in Nat
  BY JobFacts DEF Types
<1> QED
  BY <1>1, <1>2, Constants DEF Types, Lowest

LEMMA Rejections == Inductive /\ (CompileFails \/ ServiceRejects) => Inductive'
<1> SUFFICES ASSUME Inductive, CompileFails \/ ServiceRejects PROVE Inductive'
  OBVIOUS
<1>1. Types /\ Stages
  BY DEF Inductive
<1>2. CASE CompileFails
  <2>1. job.by # "fallback"
    BY <1>1, <1>2 DEF CompileFails, Stages
  <2>2. clock' \in Nat /\ clock <= clock'
    <3>1. PICK t \in Startups : clock' = clock + t
      BY <1>2 DEF CompileFails
    <3>2. clock \in Nat /\ t \in Nat
      BY <1>1, <3>1, Constants DEF Types
    <3> QED
      BY <3>1, <3>2
  <2> QED
    BY <1>2, <2>1, <2>2, Rejected DEF CompileFails
<1>3. CASE ServiceRejects
  <2>1. /\ clock' \in Nat /\ clock <= clock' /\ clock' <= clock + Patience /\ Len(results) < Len(job.tests)
        /\ container' = container
    BY <1>1, <1>3, WaitsFor DEF ServiceRejects, Asks, HasTest
  <2> QED
    BY <1>1, <1>3, <2>1, Rejected DEF ServiceRejects, Types
<1> QED
  BY <1>2, <1>3

\* A set of natural numbers has a least one.
LEMMA Least ==
  ASSUME NEW T, T \subseteq Nat, T # {}
  PROVE  \E x \in T : \A y \in T : x <= y
<1> DEFINE R == {ss \in Nat \X Nat : ss[1] < ss[2]}
<1>1. OpToRel(<, Nat) = R
  BY Zenon DEF OpToRel
<1>2. IsWellFoundedOn(R, Nat)
  BY Zenon, <1>1, NatLessThanWellFounded
<1>3. \A x, y \in Nat : <<y, x>> \in R <=> y < x
  OBVIOUS
<1> HIDE DEF R
<1>4. PICK x \in T : \A y \in T : ~ (<<y, x>> \in R)
  BY <1>2, WFMin
<1>5. ASSUME NEW y \in T PROVE x <= y
  <2>1. x \in Nat /\ y \in Nat /\ ~ (y < x)
    BY <1>3, <1>4
  <2> QED
    BY <2>1
<1> QED
  BY <1>5

LEMMA Summary ==
  ASSUME NEW s \in Seq(Verdicts)
  PROVE  SummarizeVerdict(s) \in Verdicts /\ Sums(s, SummarizeVerdict(s))
<1> DEFINE failing == { i \in DOMAIN s : s[i] \notin {"ACCEPTED", "EXECUTED"} }
           first == CHOOSE i \in failing : \A k \in failing : i <= k
<1>1. SummarizeVerdict(s) = IF failing = {} THEN "ACCEPTED"
                            ELSE IF s[first] = "SKIPPED" THEN "TIME_LIMIT_EXCEEDED" ELSE s[first]
  BY Zenon DEF SummarizeVerdict
<1>2. DOMAIN s = 1 .. Len(s) /\ Len(s) \in Nat /\ \A i \in DOMAIN s : s[i] \in Verdicts
  OBVIOUS
<1>3. CASE failing # {}
  <2>1. failing \subseteq Nat
    BY <1>2
  <2>2. \E i \in failing : \A k \in failing : i <= k
    BY <1>3, <2>1, Least
  <2>3. first \in failing /\ \A k \in failing : first <= k
    BY <2>2, Zenon
  <2>4. first \in DOMAIN s /\ s[first] \notin Good /\ \A k \in DOMAIN s : s[k] \notin Good => first <= k
    BY <2>3 DEF Good
  <2> HIDE DEF first
  <2>5. \A k \in 1 .. first - 1 : s[k] \in Good
    BY <1>2, <2>4
  <2>6. SummarizeVerdict(s) = IF s[first] = "SKIPPED" THEN "TIME_LIMIT_EXCEEDED" ELSE s[first]
    BY <1>1, <1>3
  <2> HIDE DEF failing
  <2> QED
    BY <1>2, <2>4, <2>5, <2>6 DEF Sums, Verdicts
<1>4. CASE failing = {}
  <2>1. \A i \in DOMAIN s : s[i] \in Good
    BY <1>4 DEF Good
  <2> QED
    BY <1>1, <1>4, <2>1 DEF Sums, Verdicts
<1> QED
  BY <1>3, <1>4

LEMMA FinishStays == Inductive /\ Finish => Inductive'
<1> SUFFICES ASSUME Inductive, Finish PROVE Inductive'
  OBVIOUS
<1>0. /\ stage = "testing" /\ stage' = "judged" /\ verdict' = SummarizeVerdict(results)
      /\ container' = IF container = "none" THEN "none" ELSE "destroyed"
      /\ UNCHANGED <<job, clock, timeouts, stop, results, did>>
      /\ Len(results) = Len(job.tests)
  BY DEF Finish
<1> USE DEF Inductive
<1>1. Types'
  <2>1. verdict' \in Verdicts
    BY <1>0, Summary DEF Types
  <2> QED
    BY <1>0, <2>1 DEF Types
<1>2. Stages' /\ Stopped'
  BY <1>0 DEF Stages, Stopped
<1>6. Sums(results, verdict')
  BY <1>0, Summary DEF Types
<1>7. Summarized'
  BY <1>0, <1>6 DEF Summarized, Sums
<1> QED
  BY <1>0, <1>1, <1>2, <1>7, ToldStays

-----------------------------------------------------------------------------
(* Encoding a value and reading it back.                                   *)

LEMMA LineIs ==
  ASSUME NEW S, NEW s \in Seq(S)
  PROVE  /\ Line(s) \in Seq(Seq(S)) /\ Len(Line(s)) = Len(s) /\ Len(s) \in Nat
         /\ DOMAIN s = 1 .. Len(s) /\ DOMAIN Line(s) = 1 .. Len(s)
         /\ \A i \in 1 .. Len(s) : Line(s)[i] = <<s[i]>> /\ Line(s)[i][1] = s[i]
<1>1. Len(s) \in Nat /\ DOMAIN s = 1 .. Len(s) /\ \A i \in 1 .. Len(s) : s[i] \in S
  OBVIOUS
<1>2. Line(s) = [i \in 1 .. Len(s) |-> <<s[i]>>]
  BY <1>1 DEF Line
<1>3. DOMAIN Line(s) = 1 .. Len(s) /\ \A i \in 1 .. Len(s) : Line(s)[i] = <<s[i]>>
  BY <1>2
<1>4. \A i \in 1 .. Len(s) : <<s[i]>> \in Seq(S) /\ <<s[i]>>[1] = s[i]
  BY <1>1
<1>5. Line(s) \in [1 .. Len(s) -> Seq(S)]
  BY <1>2, <1>4, Zenon
<1>6. Line(s) \in Seq(Seq(S)) /\ Len(Line(s)) = Len(s)
  BY <1>1, <1>5
<1> QED
  BY <1>1, <1>3, <1>4, <1>6

\* What a line says can be read back.
LEMMA NumbersRead ==
  ASSUME NEW S, NEW s \in Seq(S)
  PROVE  Numbers(Line(s)) = s
<1>1. Numbers(Line(s)) = [i \in 1 .. Len(s) |-> s[i]]
  BY LineIs DEF Numbers
<1> QED
  BY <1>1, LineIs

LEMMA LinesDiffer ==
  ASSUME NEW S, NEW s \in Seq(S), NEW t \in Seq(S)
  PROVE  Line(s) = Line(t) <=> s = t
  BY NumbersRead

LEMMA FirstOfAll ==
  ASSUME NEW S, NEW s \in Seq(S), NEW n \in Nat, n >= Len(s)
  PROVE  FirstOf(s, n) = s
<1>1. Len(s) \in Nat
  OBVIOUS
<1>2. FirstOf(s, n) = SubSeq(s, 1, Len(s))
  BY <1>1 DEF FirstOf
<1> QED
  BY <1>2

\* Every harness reads a list of numbers as it is, when as many are announced as there are.
LEMMA IntsRead ==
  ASSUME NEW v \in Seq(Int)
  PROVE  /\ SlicedInts(Len(v), Line(v)) = v
         /\ BoundedInts(Len(v), Line(v)) = v
         /\ StrtolInts(Len(v), Line(v)) = v
<1>1. /\ Line(v) \in Seq(Seq(Int)) /\ Len(Line(v)) = Len(v) /\ Len(v) \in Nat /\ DOMAIN v = 1 .. Len(v)
      /\ \A i \in 1 .. Len(v) : Line(v)[i][1] = v[i]
  BY LineIs
<1>2. v = [i \in 1 .. Len(v) |-> v[i]]
  BY <1>1
<1>3. SlicedInts(Len(v), Line(v)) = v
  BY <1>1, FirstOfAll, NumbersRead DEF SlicedInts
<1>4. BoundedInts(Len(v), Line(v)) = v
  <2>1. { i \in 1 .. Len(v) : i <= Len(Line(v)) } = 1 .. Len(v)
    BY <1>1
  <2>2. BoundedInts(Len(v), Line(v)) = [i \in { i \in 1 .. Len(v) : i <= Len(Line(v)) } |-> Line(v)[i][1]]
    BY DEF BoundedInts
  <2>3. BoundedInts(Len(v), Line(v)) = [i \in 1 .. Len(v) |-> Line(v)[i][1]]
    BY <2>1, <2>2
  <2> QED
    BY <1>1, <1>2, <2>3
<1>5. StrtolInts(Len(v), Line(v)) = v
  BY <1>1, <1>2 DEF StrtolInts
<1> QED
  BY <1>3, <1>4, <1>5

\* Two arguments are encoded one after the other.
LEMMA TwoParts ==
  ASSUME NEW S, NEW a \in Seq(S), NEW b \in Seq(S)
  PROVE  FlattenSeq(<<a, b>>) = a \o b
<1> DEFINE seqs == <<a, b>>
           Is(f) == f = [i \in 1 .. 2 |-> IF i = 1 THEN seqs[i] ELSE f[i - 1] \o seqs[i]]
           flatten == CHOOSE f : Is(f)
<1>1. Len(seqs) = 2
  OBVIOUS
<1>2. FlattenSeq(seqs) = flatten[2]
  BY <1>1 DEF FlattenSeq
<1>3. Is(<<a, a \o b>>)
  OBVIOUS
<1>4. Is(flatten)
  BY <1>3, Zenon
<1> HIDE DEF flatten
<1>5. flatten[1] = a
  BY <1>4
<1>6. flatten[2] = flatten[1] \o b
  <2>1. 2 \in 1 .. 2 /\ 2 # 1 /\ 2 - 1 = 1
    OBVIOUS
  <2> HIDE DEF seqs
  <2>2. flatten[2] = flatten[2 - 1] \o seqs[2]
    BY <1>4, <2>1, Zenon
  <2>3. seqs[2] = b
    BY DEF seqs
  <2> QED
    BY <2>1, <2>2, <2>3, Zenon
<1> QED
  BY <1>2, <1>5, <1>6

\* What follows an argument does not change what its reader reads.
LEMMA LinesOfTwo ==
  ASSUME NEW S, NEW a \in Seq(S), NEW b \in Seq(S)
  PROVE  /\ \A i \in 1 .. Len(a) : LineAt(a \o b, i) = a[i]
         /\ After(a \o b, Len(a)) = b
<1>1. /\ a \o b \in Seq(S) /\ Len(a \o b) = Len(a) + Len(b) /\ Len(a) \in Nat /\ Len(b) \in Nat
      /\ \A i \in 1 .. Len(a) : (a \o b)[i] = a[i]
      /\ \A i \in 1 .. Len(b) : (a \o b)[Len(a) + i] = b[i]
  OBVIOUS
<1>2. \A i \in 1 .. Len(a) : LineAt(a \o b, i) = a[i]
  BY <1>1 DEF LineAt
<1>3. After(a \o b, Len(a)) = b
  <2> DEFINE c == a \o b
  <2>1. c \in Seq(S) /\ Len(c) = Len(a) + Len(b) /\ \A i \in 1 .. Len(b) : c[Len(a) + i] = b[i]
    BY <1>1
  <2> HIDE DEF c
  <2>2. SubSeq(c, Len(a) + 1, Len(c)) = b
    BY <1>1, <2>1
  <2> QED
    BY <2>2 DEF After, c
<1> QED
  BY <1>2, <1>3

\* Both are sequences of what is in either.
LEMMA Widened ==
  ASSUME NEW S, NEW T, NEW s \in Seq(S)
  PROVE  s \in Seq(S \cup T) /\ s \in Seq(T \cup S)
  OBVIOUS

\* The first lines of an input, and what is left when a reader has taken them.
LEMMA Taken ==
  ASSUME NEW S, NEW a \in Seq(S), NEW R, NEW rest \in Seq(R)
  PROVE  /\ \A i \in 1 .. Len(a) : LineAt(a \o rest, i) = a[i]
         /\ After(a \o rest, Len(a)) = rest
<1>1. a \in Seq(S \cup R) /\ rest \in Seq(S \cup R)
  BY Widened, Zenon
<1> QED
  BY <1>1, LinesOfTwo, Zenon

Reads(type, value, in, rest) ==
    /\ JavascriptArg(type, in) = [value |-> value, rest |-> rest]
    /\ PythonArg(type, in) = [value |-> value, rest |-> rest]
    /\ CppArg(type, in) = [value |-> value, rest |-> rest]
    /\ JavaArg(type, in) = [value |-> value, rest |-> rest]
    /\ CArg(type, in) = [value |-> value, rest |-> rest]

LEMMA ReadsScalar ==
  ASSUME NEW type \in Scalars, NEW v, NEW R, NEW rest \in Seq(R)
  PROVE  Reads(type, v, EncodeArg(type, v) \o rest, rest)
<1> DEFINE a == << Line(<<v>>) >>
           in == a \o rest
<1>1. EncodeArg(type, v) = a
  BY DEF EncodeArg, Scalars
<1>2. a \in Seq({Line(<<v>>)}) /\ Len(a) = 1 /\ a[1] = Line(<<v>>)
  OBVIOUS
<1>3. Line(<<v>>)[1][1] = v
  BY DEF Line
<1> HIDE DEF a
<1>4. LineAt(in, 1)[1][1] = v /\ After(in, 1) = rest
  BY <1>2, <1>3, Taken
<1> HIDE DEF in
<1>5. Reads(type, v, in, rest)
  BY <1>4 DEF Reads, JavascriptArg, PythonArg, CppArg, JavaArg, CArg, ReadArg, Scalars
<1> QED
  BY <1>1, <1>5 DEF in

LEMMA ReadsString ==
  ASSUME NEW v \in Seq(STRING), NEW R, NEW rest \in Seq(R)
  PROVE  Reads("string", v, EncodeArg("string", v) \o rest, rest)
<1> DEFINE a == << Line(v) >>
           in == a \o rest
<1>1. EncodeArg("string", v) = a
  BY DEF EncodeArg, Scalars
<1>2. a \in Seq({Line(v)}) /\ Len(a) = 1 /\ a[1] = Line(v)
  OBVIOUS
<1> HIDE DEF a
<1>3. LineAt(in, 1) = Line(v) /\ After(in, 1) = rest
  <2>1. (\A i \in 1 .. Len(a) : LineAt(in, i) = a[i]) /\ After(in, Len(a)) = rest
    BY <1>2, Taken, Zenon
  <2> HIDE DEF in
  <2> QED
    BY <1>2, <2>1
<1>4. Numbers(LineAt(in, 1)) = v /\ After(in, 1) = rest
  BY <1>3, NumbersRead, Zenon
<1> HIDE DEF in
<1>5. Reads("string", v, in, rest)
  BY <1>4 DEF Reads, JavascriptArg, PythonArg, CppArg, JavaArg, CArg, ReadArg, Scalars
<1> QED
  BY <1>1, <1>5 DEF in

LEMMA ReadsInts ==
  ASSUME NEW type \in {"int[]", "ListNode"}, NEW v \in Seq(Int), NEW R, NEW rest \in Seq(R)
  PROVE  Reads(type, v, EncodeArg(type, v) \o rest, rest)
<1> DEFINE a == << Line(<<Len(v)>>), Line(v) >>
           in == a \o rest
<1>1. EncodeArg(type, v) = a
  BY DEF EncodeArg, Scalars
<1>2. a \in Seq({Line(<<Len(v)>>), Line(v)}) /\ Len(a) = 2 /\ a[1] = Line(<<Len(v)>>) /\ a[2] = Line(v)
  OBVIOUS
<1>3. Line(<<Len(v)>>)[1][1] = Len(v)
  BY DEF Line
<1> HIDE DEF a
<1>4. LineAt(in, 1)[1][1] = Len(v) /\ LineAt(in, 2) = Line(v) /\ After(in, 2) = rest
  <2>1. (\A i \in 1 .. Len(a) : LineAt(in, i) = a[i]) /\ After(in, Len(a)) = rest
    BY <1>2, Taken, Zenon
  <2> HIDE DEF in
  <2> QED
    BY <1>2, <1>3, <2>1
<1> HIDE DEF in
<1>5. Reads(type, v, in, rest)
  BY <1>4, IntsRead DEF Reads, JavascriptArg, PythonArg, CppArg, JavaArg, CArg, ReadArg, Scalars
<1> QED
  BY <1>1, <1>5 DEF in

\* A header and rows: one line more than the value has rows.
LEMMA RowsFollow ==
  ASSUME NEW S, NEW v \in Seq(S), NEW T, NEW header \in T, NEW row \in [1 .. Len(v) -> T], NEW R, NEW rest \in Seq(R)
  PROVE  /\ LineAt((<<header>> \o row) \o rest, 1) = header
         /\ \A i \in 1 .. Len(v) : LineAt((<<header>> \o row) \o rest, i + 1) = row[i]
         /\ After((<<header>> \o row) \o rest, Len(v) + 1) = rest
<1> DEFINE a == <<header>> \o row
           in == a \o rest
<1>1. Len(v) \in Nat
  OBVIOUS
<1>2. row \in Seq(T) /\ Len(row) = Len(v)
  BY <1>1
<1>3. a \in Seq(T) /\ Len(a) = Len(v) + 1 /\ a[1] = header /\ \A i \in 1 .. Len(v) : a[i + 1] = row[i]
  BY <1>1, <1>2
<1> HIDE DEF a
<1>4. 1 \in 1 .. Len(a) /\ \A i \in 1 .. Len(v) : i + 1 \in 1 .. Len(a)
  BY <1>1, <1>3
<1>5. LineAt(in, 1) = header /\ After(in, Len(v) + 1) = rest
  BY <1>3, <1>4, Taken, Zenon
<1>6. \A i \in 1 .. Len(v) : LineAt(in, i + 1) = row[i]
  BY <1>3, <1>4, Taken, Zenon
<1> QED
  BY <1>5, <1>6 DEF a

LEMMA ReadsStrings ==
  ASSUME NEW v \in Seq(Seq(STRING)), NEW R, NEW rest \in Seq(R)
  PROVE  Reads("string[]", v, EncodeArg("string[]", v) \o rest, rest)
<1> DEFINE header == Line(<<Len(v)>>)
           row == [i \in 1 .. Len(v) |-> Line(v[i])]
           T == {header} \cup { Line(v[i]) : i \in 1 .. Len(v) }
           in == (<<header>> \o row) \o rest
<1>1. EncodeArg("string[]", v) = <<header>> \o row
  <2>1. DOMAIN v = 1 .. Len(v)
    OBVIOUS
  <2> QED
    BY <2>1 DEF EncodeArg, Scalars
<1>2. row \in [1 .. Len(v) -> T] /\ header \in T
  OBVIOUS
<1>3. header[1][1] = Len(v)
  BY DEF Line
<1> HIDE DEF header, row, T
<1>4. /\ LineAt(in, 1) = header
      /\ \A i \in 1 .. Len(v) : LineAt(in, i + 1) = row[i]
      /\ After(in, Len(v) + 1) = rest
  BY <1>2, RowsFollow
<1> HIDE DEF in
<1>5. [i \in 1 .. Len(v) |-> Numbers(LineAt(in, i + 1))] = v
  <2>1. \A i \in 1 .. Len(v) : Numbers(LineAt(in, i + 1)) = v[i]
    BY <1>4, NumbersRead DEF row
  <2> QED
    BY <2>1
<1>6. Reads("string[]", v, in, rest)
  BY <1>3, <1>4, <1>5 DEF Reads, JavascriptArg, PythonArg, CppArg, JavaArg, CArg, ReadArg, Scalars
<1> QED
  BY <1>1, <1>6 DEF in

\* A row of numbers says first how many they are.
LEMMA CountedRow ==
  ASSUME NEW v \in Seq(Int)
  PROVE  /\ Line(<<Len(v)>> \o v) # <<>>
         /\ Line(<<Len(v)>> \o v)[1][1] = Len(v)
         /\ Tail(Line(<<Len(v)>> \o v)) = Line(v)
<1> DEFINE w == <<Len(v)>> \o v
<1>1. w \in Seq(Int) /\ Len(w) = Len(v) + 1 /\ Len(v) \in Nat /\ w[1] = Len(v) /\ \A i \in 1 .. Len(v) : w[i + 1] = v[i]
  OBVIOUS
<1> HIDE DEF w
<1>2. /\ Line(w) \in Seq(Seq(Int)) /\ Len(Line(w)) = Len(v) + 1
      /\ \A i \in 1 .. Len(v) + 1 : Line(w)[i] = <<w[i]>> /\ Line(w)[i][1] = w[i]
  BY <1>1, LineIs
<1>3. Line(v) \in Seq(Seq(Int)) /\ Len(Line(v)) = Len(v) /\ \A i \in 1 .. Len(v) : Line(v)[i] = <<v[i]>>
  BY LineIs
<1>4. Line(w) # <<>> /\ Line(w)[1][1] = Len(v)
  BY <1>1, <1>2
<1>5. Tail(Line(w)) = Line(v)
  <2>1. \A i \in 1 .. Len(v) : Line(w)[i + 1] = Line(v)[i]
    <3>1. SUFFICES ASSUME NEW i \in 1 .. Len(v) PROVE Line(w)[i + 1] = Line(v)[i]
      OBVIOUS
    <3>2. i + 1 \in 1 .. Len(v) + 1
      BY <1>1
    <3>3. Line(w)[i + 1] = <<w[i + 1]>> /\ w[i + 1] = v[i] /\ Line(v)[i] = <<v[i]>>
      BY <1>1, <1>2, <1>3, <3>2
    <3> QED
      BY <3>3, Zenon
  <2> DEFINE l == Line(w)
             k == Line(v)
  <2>2. l \in Seq(Seq(Int)) /\ k \in Seq(Seq(Int)) /\ Len(l) = Len(k) + 1 /\ \A i \in 1 .. Len(k) : l[i + 1] = k[i]
    BY <1>2, <1>3, <2>1
  <2> HIDE DEF l, k
  <2>3. Tail(l) = k
    BY <2>2
  <2> QED
    BY <2>3 DEF l, k
<1> QED
  BY <1>4, <1>5 DEF w

LEMMA ReadsRows ==
  ASSUME NEW v \in Seq(Seq(Int)), NEW R, NEW rest \in Seq(R)
  PROVE  Reads("int[][]", v, EncodeArg("int[][]", v) \o rest, rest)
<1> DEFINE header == Line(<<Len(v)>>)
           row == [i \in 1 .. Len(v) |-> Line(<<Len(v[i])>> \o v[i])]
           T == {header} \cup { Line(<<Len(v[i])>> \o v[i]) : i \in 1 .. Len(v) }
           in == (<<header>> \o row) \o rest
<1>1. EncodeArg("int[][]", v) = <<header>> \o row
  <2>1. DOMAIN v = 1 .. Len(v)
    OBVIOUS
  <2> QED
    BY <2>1 DEF EncodeArg, Scalars
<1>2. row \in [1 .. Len(v) -> T] /\ header \in T
  OBVIOUS
<1>3. header[1][1] = Len(v)
  BY DEF Line
<1> HIDE DEF header, row, T
<1>4. /\ LineAt(in, 1) = header
      /\ \A i \in 1 .. Len(v) : LineAt(in, i + 1) = row[i]
      /\ After(in, Len(v) + 1) = rest
  BY <1>2, RowsFollow
<1> HIDE DEF in
<1>5. \A i \in 1 .. Len(v) : /\ LineAt(in, i + 1) # <<>>
                             /\ LineAt(in, i + 1)[1][1] = Len(v[i])
                             /\ Tail(LineAt(in, i + 1)) = Line(v[i])
                             /\ v[i] \in Seq(Int)
  <2>1. SUFFICES ASSUME NEW i \in 1 .. Len(v)
                 PROVE  /\ LineAt(in, i + 1) # <<>>
                        /\ LineAt(in, i + 1)[1][1] = Len(v[i])
                        /\ Tail(LineAt(in, i + 1)) = Line(v[i])
                        /\ v[i] \in Seq(Int)
    OBVIOUS
  <2>2. v[i] \in Seq(Int)
    OBVIOUS
  <2>3. LineAt(in, i + 1) = Line(<<Len(v[i])>> \o v[i])
    BY <1>4 DEF row
  <2> QED
    BY <2>2, <2>3, CountedRow, Zenon
<1>6. /\ [i \in 1 .. Len(v) |-> v[i]] = v
      /\ \A i \in 1 .. Len(v) : SlicedInts(Len(v[i]), Line(v[i])) = v[i]
      /\ \A i \in 1 .. Len(v) : BoundedInts(Len(v[i]), Line(v[i])) = v[i]
      /\ \A i \in 1 .. Len(v) : StrtolInts(Len(v[i]), Line(v[i])) = v[i]
  BY <1>5, IntsRead
<1>7. /\ [i \in 1 .. Len(v) |-> IF LineAt(in, i + 1) = <<>> THEN <<>>
                                ELSE SlicedInts(LineAt(in, i + 1)[1][1], Tail(LineAt(in, i + 1)))] = v
      /\ [i \in 1 .. Len(v) |-> IF LineAt(in, i + 1) = <<>> THEN <<>>
                                ELSE BoundedInts(LineAt(in, i + 1)[1][1], Tail(LineAt(in, i + 1)))] = v
      /\ [i \in 1 .. Len(v) |-> IF LineAt(in, i + 1) = <<>> THEN <<>>
                                ELSE StrtolInts(LineAt(in, i + 1)[1][1], Tail(LineAt(in, i + 1)))] = v
  BY <1>5, <1>6
<1>8. Reads("int[][]", v, in, rest)
  BY <1>3, <1>4, <1>7 DEF Reads, JavascriptArg, PythonArg, CppArg, JavaArg, CArg, ReadArg, Scalars
<1> QED
  BY <1>1, <1>8 DEF in

\* Whatever a test says is read as it is by the harness of every language (encodeArgLines of
\* codec.ts and the readers of the five harnesses); of trees, TLC checks it.
THEOREM ReadsBack ==
  ASSUME NEW type \in ValueTypes \ {"TreeNode"}, NEW v, ValidValue(type, v), NEW R, NEW rest \in Seq(R)
  PROVE  Reads(type, v, EncodeArg(type, v) \o rest, rest)
<1>1. CASE type \in Scalars
  BY <1>1, ReadsScalar
<1>2. CASE type = "string"
  <2>1. v \in Seq(STRING)
    BY <1>2 DEF ValidValue
  <2> QED
    BY <1>2, <2>1, ReadsString
<1>3. CASE type \in {"int[]", "ListNode"}
  <2>1. v \in Seq(Int)
    BY <1>3 DEF ValidValue
  <2> QED
    BY <1>3, <2>1, ReadsInts
<1>4. CASE type = "int[][]"
  <2>1. v \in Seq(Seq(Int))
    BY <1>4 DEF ValidValue
  <2> QED
    BY <1>4, <2>1, ReadsRows
<1>5. CASE type = "string[]"
  <2>1. v \in Seq(Seq(STRING))
    BY <1>5 DEF ValidValue
  <2> QED
    BY <1>5, <2>1, ReadsStrings
<1> QED
  BY <1>1, <1>2, <1>3, <1>4, <1>5 DEF ValueTypes

LEMMA EncodedLines ==
  ASSUME NEW type \in ValueTypes \ {"TreeNode"}, NEW v, ValidValue(type, v)
  PROVE  \E X : EncodeArg(type, v) \in Seq(X)
<1>1. CASE type \in Scalars \cup {"string", "int[]", "ListNode"}
  <2>1. CASE type \in Scalars
    <3>1. EncodeArg(type, v) = << Line(<<v>>) >>
      BY <2>1 DEF EncodeArg, Scalars
    <3>2. << Line(<<v>>) >> \in Seq({Line(<<v>>)})
      OBVIOUS
    <3> QED
      BY <3>1, <3>2, Zenon
  <2>2. CASE type = "string"
    <3>1. EncodeArg(type, v) = << Line(v) >>
      BY <2>2 DEF EncodeArg, Scalars
    <3>2. << Line(v) >> \in Seq({Line(v)})
      OBVIOUS
    <3> QED
      BY <3>1, <3>2, Zenon
  <2>3. CASE type \in {"int[]", "ListNode"}
    <3>1. EncodeArg(type, v) = << Line(<<Len(v)>>), Line(v) >>
      BY <2>3 DEF EncodeArg, Scalars
    <3>2. << Line(<<Len(v)>>), Line(v) >> \in Seq({Line(<<Len(v)>>), Line(v)})
      OBVIOUS
    <3> QED
      BY <3>1, <3>2, Zenon
  <2> QED
    BY <1>1, <2>1, <2>2, <2>3
<1>2. CASE type \in {"int[][]", "string[]"}
  <2>1. Len(v) \in Nat /\ DOMAIN v = 1 .. Len(v)
    BY <1>2 DEF ValidValue
  <2>2. PICK header : header = Line(<<Len(v)>>)
    OBVIOUS
  <2>3. PICK row : row = [i \in 1 .. Len(v) |-> IF type = "int[][]" THEN Line(<<Len(v[i])>> \o v[i]) ELSE Line(v[i])]
    OBVIOUS
  <2>4. EncodeArg(type, v) = <<header>> \o row
    BY <1>2, <2>1, <2>2, <2>3 DEF EncodeArg, Scalars
  <2>5. <<header>> \o row \in Seq({header} \cup { row[i] : i \in 1 .. Len(v) })
    <3>1. row \in [1 .. Len(v) -> {header} \cup { row[i] : i \in 1 .. Len(v) }]
      BY <2>3
    <3> QED
      BY <2>1, <3>1
  <2> QED
    BY <2>4, <2>5, Zenon
<1> QED
  BY <1>1, <1>2 DEF ValueTypes

LEMMA EncodedNumber ==
  ASSUME NEW n
  PROVE  EncodeArg("int", n) = << Line(<<n>>) >> /\ EncodeArg("int", n) \in Seq({Line(<<n>>)})
<1>1. EncodeArg("int", n) = << Line(<<n>>) >>
  BY DEF EncodeArg, Scalars
<1>2. << Line(<<n>>) >> \in Seq({Line(<<n>>)})
  OBVIOUS
<1> QED
  BY <1>1, <1>2, Zenon

\* The input of a test is the value and, behind it, the number.
LEMMA InputIs ==
  ASSUME NEW type \in ValueTypes \ {"TreeNode"}, NEW v, ValidValue(type, v), NEW n
  PROVE  EncodeInput(<<type, "int">>, <<v, n>>) = EncodeArg(type, v) \o EncodeArg("int", n)
<1>1. EncodeInput(<<type, "int">>, <<v, n>>) = FlattenSeq(<<EncodeArg(type, v), EncodeArg("int", n)>>)
  BY DEF EncodeInput
<1>2. PICK X : EncodeArg(type, v) \in Seq(X)
  BY EncodedLines
<1>3. PICK Y : EncodeArg("int", n) \in Seq(Y)
  BY EncodedNumber, Zenon
<1>4. EncodeArg(type, v) \in Seq(X \cup Y) /\ EncodeArg("int", n) \in Seq(X \cup Y)
  BY <1>2, <1>3, Widened, Zenon
<1> QED
  BY <1>1, <1>4, TwoParts, Zenon

LEMMA TestIs ==
  ASSUME job \in Jobs, Len(results) \in Nat, Len(results) < Len(job.tests)
  PROVE  Test \in job.values /\ ValidValue(job.type, Test)
<1>1. job.tests \in Seq(job.values) /\ \A v \in job.values : ValidValue(job.type, v)
  BY JobsAssumption DEF JobOK
<1>2. Len(results) + 1 \in 1 .. Len(job.tests)
  BY <1>1
<1> QED
  BY <1>1, <1>2 DEF Test

\* A right program is given what the test says, in every language.
LEMMA AnsweredIsTest ==
  ASSUME job \in Jobs, Len(results) \in Nat, Len(results) < Len(job.tests), job.type # "TreeNode"
  PROVE  Answered = Test
<1>1. job.type \in ValueTypes \ {"TreeNode"} /\ job.language \in {"c", "cpp", "java", "javascript", "python"}
  BY JobsAssumption DEF JobOK
<1>2. ValidValue(job.type, Test)
  BY TestIs
<1> DEFINE rest == EncodeArg("int", Second)
           in == EncodeArg(job.type, Test) \o rest
<1>3. EncodeInput(<<job.type, "int">>, <<Test, Second>>) = in
  BY <1>1, <1>2, InputIs, Zenon
<1>4. rest \in Seq({Line(<<Second>>)}) /\ rest \o <<>> = rest
  <2>1. rest \in Seq({Line(<<Second>>)})
    BY EncodedNumber, Zenon
  <2> HIDE DEF rest
  <2> QED
    BY <2>1
<1>5. Reads(job.type, Test, in, rest)
  BY <1>1, <1>2, <1>4, ReadsBack, Zenon
<1>6. Reads("int", Second, rest, <<>>)
  <2>1. "int" \in Scalars /\ <<>> \in Seq({})
    BY DEF Scalars
  <2>2. Reads("int", Second, rest \o <<>>, <<>>)
    BY <2>1, ReadsScalar, Zenon
  <2> QED
    BY <1>4, <2>2, Zenon
<1>0. Answered = IF Arg("int", Arg(job.type, EncodeInput(<<job.type, "int">>, <<Test, Second>>)).rest).value = Second
                 THEN Arg(job.type, EncodeInput(<<job.type, "int">>, <<Test, Second>>)).value
                 ELSE Held(CHOOSE v \in job.values : v # Test)
  BY DEF Answered
<1> HIDE DEF rest, in
<1>7. Arg(job.type, in) = [value |-> Test, rest |-> rest]
  BY <1>1, <1>5 DEF Arg, Reads
<1>8. Arg("int", rest) = [value |-> Second, rest |-> <<>>]
  BY <1>1, <1>6 DEF Arg, Reads
<1>9. /\ Arg(job.type, EncodeInput(<<job.type, "int">>, <<Test, Second>>)).value = Test
      /\ Arg("int", Arg(job.type, EncodeInput(<<job.type, "int">>, <<Test, Second>>)).rest).value = Second
  BY <1>3, <1>7, <1>8
<1> QED
  BY <1>0, <1>9, Zenon

-----------------------------------------------------------------------------
(* Bags.                                                                   *)

Alike(a, x) == { k \in DOMAIN a : a[k] = x }

\* Two functions have the same bag: each value of one is a value of the other, as often.
SameBag(a, b) ==
    /\ \A i \in DOMAIN a : \E j \in DOMAIN b : b[j] = a[i]
    /\ \A j \in DOMAIN b : \E i \in DOMAIN a : a[i] = b[j]
    /\ \A i \in DOMAIN a, j \in DOMAIN b :
          a[i] = b[j] => Cardinality(Alike(a, a[i])) = Cardinality(Alike(b, b[j]))

LEMMA BagIs ==
  ASSUME NEW a, NEW b
  PROVE  ToBag(a) = ToBag(b) <=> SameBag(a, b)
<1>1. /\ ToBag(a) = [x \in Range(a) |-> Cardinality(Alike(a, x))]
      /\ ToBag(b) = [x \in Range(b) |-> Cardinality(Alike(b, x))]
  BY DEF ToBag, Alike
<1>2. /\ \A x : x \in Range(a) <=> \E i \in DOMAIN a : a[i] = x
      /\ \A x : x \in Range(b) <=> \E i \in DOMAIN b : b[i] = x
  BY DEF Range
<1> DEFINE A == Range(a)
           B == Range(b)
           C(x) == Cardinality(Alike(a, x))
           D(x) == Cardinality(Alike(b, x))
<1>3. ASSUME ToBag(a) = ToBag(b) PROVE SameBag(a, b)
  <2>1. A = B /\ \A x \in A : C(x) = D(x)
    <3> HIDE DEF A, B, C, D
    <3>1. [x \in A |-> C(x)] = [x \in B |-> D(x)]
      BY <1>1, <1>3 DEF A, B, C, D
    <3>2. A = B
      <4>1. DOMAIN [x \in A |-> C(x)] = DOMAIN [x \in B |-> D(x)]
        BY <3>1
      <4> QED
        BY <4>1
    <3>3. ASSUME NEW x \in A PROVE C(x) = D(x)
      <4>1. [y \in A |-> C(y)][x] = [y \in B |-> D(y)][x]
        BY <3>1
      <4> QED
        BY <3>2, <4>1
    <3> QED
      BY <3>2, <3>3
  <2> QED
    BY <1>2, <2>1, Zenon DEF SameBag
<1>4. ASSUME SameBag(a, b) PROVE ToBag(a) = ToBag(b)
  <2>1. A = B
    BY <1>2, <1>4, Zenon DEF SameBag
  <2>2. \A x \in A : C(x) = D(x)
    BY <1>2, <1>4, Zenon DEF SameBag
  <2> HIDE DEF A, B, C, D
  <2>3. [x \in A |-> C(x)] = [x \in B |-> D(x)]
    BY <2>1, <2>2
  <2> QED
    BY <1>1, <2>3 DEF A, B, C, D
<1> QED
  BY <1>3, <1>4

\* What tells the same values apart makes the same bags.
Mirrors(A, a, B, b) == \A i \in DOMAIN a, j \in DOMAIN b : A[i] = B[j] <=> a[i] = b[j]

LEMMA BagsOfImages ==
  ASSUME NEW a, NEW b, NEW A, NEW B, DOMAIN A = DOMAIN a, DOMAIN B = DOMAIN b,
         Mirrors(A, a, A, a), Mirrors(B, b, B, b), Mirrors(A, a, B, b)
  PROVE  ToBag(A) = ToBag(B) <=> ToBag(a) = ToBag(b)
<1>1. \A i \in DOMAIN a : Alike(A, A[i]) = Alike(a, a[i])
  BY DEF Mirrors, Alike
<1>2. \A i \in DOMAIN b : Alike(B, B[i]) = Alike(b, b[i])
  BY DEF Mirrors, Alike
<1>3. \A i \in DOMAIN a, j \in DOMAIN b : (A[i] = B[j] <=> a[i] = b[j]) /\ (B[j] = A[i] <=> b[j] = a[i])
  BY DEF Mirrors
<1>4. SameBag(A, B) <=> SameBag(a, b)
  <2>1. SameBag(A, B) <=>
          /\ \A i \in DOMAIN a : \E j \in DOMAIN b : B[j] = A[i]
          /\ \A j \in DOMAIN b : \E i \in DOMAIN a : A[i] = B[j]
          /\ \A i \in DOMAIN a, j \in DOMAIN b :
                A[i] = B[j] => Cardinality(Alike(A, A[i])) = Cardinality(Alike(B, B[j]))
    BY DEF SameBag
  <2>2. (\A i \in DOMAIN a : \E j \in DOMAIN b : B[j] = A[i]) <=> (\A i \in DOMAIN a : \E j \in DOMAIN b : b[j] = a[i])
    BY <1>3, Zenon
  <2>3. (\A j \in DOMAIN b : \E i \in DOMAIN a : A[i] = B[j]) <=> (\A j \in DOMAIN b : \E i \in DOMAIN a : a[i] = b[j])
    BY <1>3, Zenon
  <2>4. \A i \in DOMAIN a, j \in DOMAIN b :
           (A[i] = B[j] => Cardinality(Alike(A, A[i])) = Cardinality(Alike(B, B[j])))
           <=> (a[i] = b[j] => Cardinality(Alike(a, a[i])) = Cardinality(Alike(b, b[j])))
    BY <1>1, <1>2, <1>3
  <2> QED
    BY <2>1, <2>2, <2>3, <2>4, Zenon DEF SameBag
<1> QED
  BY <1>4, BagIs

LEMMA LengthOfBag ==
  ASSUME NEW S, NEW a \in Seq(S), NEW T, NEW b \in Seq(T), ToBag(a) = ToBag(b)
  PROVE  Len(a) <= Len(b)
<1>1. /\ DOMAIN a = 1 .. Len(a) /\ Len(a) \in Nat
      /\ DOMAIN b = 1 .. Len(b) /\ Len(b) \in Nat
  OBVIOUS
<1>2. SameBag(a, b)
  BY BagIs
<1>3. /\ IsFiniteSet(DOMAIN a) /\ Cardinality(DOMAIN a) = Len(a)
      /\ IsFiniteSet(DOMAIN b) /\ Cardinality(DOMAIN b) = Len(b)
  <2>1. \A n \in Nat : IsFiniteSet(1 .. n) /\ Cardinality(1 .. n) = n
    <3>1. SUFFICES ASSUME NEW n \in Nat PROVE IsFiniteSet(1 .. n) /\ Cardinality(1 .. n) = n
      OBVIOUS
    <3>2. IsFiniteSet(1 .. n) /\ Cardinality(1 .. n) = IF 1 <= n THEN n - 1 + 1 ELSE 0
      BY FS_Interval
    <3> QED
      BY <3>2
  <2> QED
    BY <1>1, <2>1
<1> DEFINE Pairs(x) == Bijection(Alike(a, x), Alike(b, x))
           pair == [i \in DOMAIN a |-> (CHOOSE f \in Pairs(a[i]) : TRUE)[i]]
<1>4. \A i \in DOMAIN a : Pairs(a[i]) # {}
  <2>1. SUFFICES ASSUME NEW i \in DOMAIN a PROVE Pairs(a[i]) # {}
    OBVIOUS
  <2>2. Alike(a, a[i]) \subseteq DOMAIN a /\ Alike(b, a[i]) \subseteq DOMAIN b
    BY DEF Alike
  <2>3. IsFiniteSet(Alike(a, a[i])) /\ IsFiniteSet(Alike(b, a[i]))
    BY <1>3, <2>2, FS_Subset
  <2>4. Cardinality(Alike(a, a[i])) = Cardinality(Alike(b, a[i]))
    BY <1>2, Zenon DEF SameBag
  <2> QED
    BY <2>3, <2>4, FS_SameCardinalityBij DEF ExistsBijection
<1>5. \A i \in DOMAIN a : (CHOOSE f \in Pairs(a[i]) : TRUE) \in Pairs(a[i])
  BY <1>4, Zenon
<1>6. \A i \in DOMAIN a : pair[i] \in DOMAIN b /\ b[pair[i]] = a[i]
  <2>1. SUFFICES ASSUME NEW i \in DOMAIN a PROVE pair[i] \in DOMAIN b /\ b[pair[i]] = a[i]
    OBVIOUS
  <2>2. PICK f : f = CHOOSE g \in Pairs(a[i]) : TRUE
    OBVIOUS
  <2>3. f \in [Alike(a, a[i]) -> Alike(b, a[i])] /\ i \in Alike(a, a[i])
    BY <1>5, <2>2 DEF Bijection, Injection, Alike
  <2>4. pair[i] \in Alike(b, a[i])
    BY <2>2, <2>3
  <2> QED
    BY <2>4 DEF Alike
<1>7. \A i, j \in DOMAIN a : pair[i] = pair[j] => i = j
  <2>1. SUFFICES ASSUME NEW i \in DOMAIN a, NEW j \in DOMAIN a, pair[i] = pair[j] PROVE i = j
    OBVIOUS
  <2>2. PICK f : f = CHOOSE g \in Pairs(a[i]) : TRUE
    OBVIOUS
  <2>3. a[i] = a[j]
    BY <1>6, <2>1, Zenon
  <2>4. pair[i] = f[i] /\ pair[j] = f[j]
    BY <2>2, <2>3
  <2>5. i \in Alike(a, a[i]) /\ j \in Alike(a, a[i])
    BY <2>3 DEF Alike
  <2>6. f \in Injection(Alike(a, a[i]), Alike(b, a[i]))
    BY <1>5, <2>2 DEF Bijection
  <2>7. f[i] = f[j]
    BY <2>1, <2>4, Zenon
  <2> HIDE DEF pair
  <2> QED
    BY <2>5, <2>6, <2>7 DEF Injection, IsInjective
<1> HIDE DEF pair
<1>8. pair \in Injection(DOMAIN a, DOMAIN b)
  <2>1. pair \in [DOMAIN a -> DOMAIN b]
    BY <1>6 DEF pair
  <2> QED
    BY <1>7, <2>1 DEF Injection, IsInjective
<1>9. Cardinality(DOMAIN a) <= Cardinality(DOMAIN b)
  BY <1>3, <1>8, FS_Injection
<1> QED
  BY <1>3, <1>9

-----------------------------------------------------------------------------
(* Comparing.                                                              *)

LEMMA Greatest ==
  ASSUME NEW T, T \subseteq Nat, NEW n \in Nat, \A x \in T : x <= n, T # {}
  PROVE  \E x \in T : \A y \in T : y <= x
<1> DEFINE U == { n - x : x \in T }
<1>1. U \subseteq Nat /\ U # {}
  <2>1. \A x \in T : n - x \in Nat
    OBVIOUS
  <2> QED
    BY <2>1
<1>2. PICK u \in U : \A w \in U : u <= w
  BY <1>1, Least
<1>3. PICK x \in T : u = n - x
  BY <1>2
<1>4. ASSUME NEW y \in T PROVE y <= x
  <2>1. n - x <= n - y
    BY <1>2, <1>3, <1>4
  <2> QED
    BY <2>1, <1>3, <1>4
<1> QED
  BY <1>4

LEMMA FirstOfSome ==
  ASSUME NEW S, NEW s \in Seq(S), NEW n \in 0 .. Len(s)
  PROVE  FirstOf(s, n) = SubSeq(s, 1, n)
<1>1. Len(s) \in Nat /\ n \in Nat /\ n <= Len(s)
  OBVIOUS
<1>2. ~ (n < Len(s)) => Len(s) = n
  BY <1>1
<1>3. CASE n < Len(s)
  BY <1>3, Zenon DEF FirstOf
<1>4. CASE ~ (n < Len(s))
  BY <1>2, <1>4, Zenon DEF FirstOf
<1> QED
  BY <1>3, <1>4

\* What normalizeOutput leaves out are empty lines at the end, which a text seems to have anyway.
LEMMA Normalized ==
  ASSUME NEW S, NEW text \in Seq(S)
  PROVE  /\ NormalizeOutput(text) \in Seq(S) /\ Len(NormalizeOutput(text)) <= Len(text)
         /\ \A i \in Nat \ {0} : LineAt(NormalizeOutput(text), i) = LineAt(text, i)
<1> DEFINE filled == { i \in DOMAIN text : text[i] # <<>> }
           most == CHOOSE n \in {0} \cup filled : \A i \in filled : i <= n
<1>1. Len(text) \in Nat /\ DOMAIN text = 1 .. Len(text)
  OBVIOUS
<1>2. NormalizeOutput(text) = FirstOf(text, most)
  BY Zenon DEF NormalizeOutput
<1>3. \E n \in {0} \cup filled : \A i \in {0} \cup filled : i <= n
  <2>1. {0} \cup filled \subseteq Nat /\ \A i \in {0} \cup filled : i <= Len(text)
    BY <1>1
  <2> HIDE DEF filled
  <2> QED
    BY <1>1, <2>1, Greatest
<1>4. most \in {0} \cup filled /\ \A i \in filled : i <= most
  BY <1>3, Zenon
<1> HIDE DEF most
<1>5. most \in 0 .. Len(text)
  BY <1>1, <1>4
<1>6. NormalizeOutput(text) = SubSeq(text, 1, most)
  BY <1>2, <1>5, FirstOfSome, Zenon
<1> DEFINE norm == SubSeq(text, 1, most)
<1>7. norm \in Seq(S) /\ Len(norm) = most /\ \A i \in 1 .. most : norm[i] = text[i]
  BY <1>1, <1>5
<1> HIDE DEF norm
<1>8. ASSUME NEW i \in Nat \ {0} PROVE LineAt(norm, i) = LineAt(text, i)
  <2>1. CASE i <= most
    BY <1>1, <1>5, <1>7, <2>1 DEF LineAt
  <2>2. CASE i > most
    <3>1. i \in 1 .. Len(text) => text[i] = <<>>
      BY <1>1, <1>4, <1>5, <2>2
    <3> QED
      BY <1>1, <1>5, <1>7, <2>2, <3>1 DEF LineAt
  <2> QED
    BY <1>5, <2>1, <2>2
<1>9. NormalizeOutput(text) = norm
  BY <1>6 DEF norm
<1> QED
  BY <1>1, <1>5, <1>7, <1>8, <1>9

LEMMA OneLine ==
  ASSUME NEW l
  PROVE  LineAt(NormalizeOutput(<<l>>), 1) = l
<1>1. <<l>> \in Seq({l}) /\ 1 \in Nat \ {0}
  OBVIOUS
<1>2. LineAt(NormalizeOutput(<<l>>), 1) = LineAt(<<l>>, 1)
  BY <1>1, Normalized, Zenon
<1>3. LineAt(<<l>>, 1) = l
  BY DEF LineAt
<1> QED
  BY <1>2, <1>3

\* The rows of a normalized text, of which the last may be missing because they are empty.
LEMMA RowsShown ==
  ASSUME NEW S, NEW v \in Seq(Seq(S)), NEW text, text = NormalizeOutput(Rows(v))
  PROVE  /\ text # <<>> /\ text[1] # <<>> /\ text[1][1][1] = Len(v) /\ Len(v) \in Nat
         /\ \A i \in 1 .. Len(v) : LineAt(text, i + 1) = Line(v[i])
         /\ After(text, Len(v) + 1) = <<>>
<1> DEFINE header == Line(<<Len(v)>>)
           row == [i \in 1 .. Len(v) |-> Line(v[i])]
           T == {header} \cup { Line(v[i]) : i \in 1 .. Len(v) }
           rows == <<header>> \o row
<1>1. Rows(v) = rows
  <2>1. DOMAIN v = 1 .. Len(v)
    OBVIOUS
  <2> QED
    BY <2>1 DEF Rows
<1>2. row \in [1 .. Len(v) -> T] /\ header \in T /\ Len(v) \in Nat
  OBVIOUS
<1>3. header[1][1] = Len(v) /\ header # <<>>
  <2>1. header = <<(<<Len(v)>>)>>
    BY DEF Line
  <2> QED
    BY <2>1
<1> HIDE DEF header, row, T
<1>4. rows \in Seq(T) /\ Len(rows) = Len(v) + 1 /\ rows[1] = header /\ \A i \in 1 .. Len(v) : rows[i + 1] = row[i]
  <2>1. row \in Seq(T) /\ Len(row) = Len(v)
    BY <1>2
  <2> QED
    BY <1>2, <2>1
<1> HIDE DEF rows
<1>5. text \in Seq(T) /\ Len(text) <= Len(v) + 1 /\ Len(text) \in Nat
      /\ \A i \in Nat \ {0} : LineAt(text, i) = LineAt(rows, i)
  <2>1. NormalizeOutput(rows) \in Seq(T) /\ Len(NormalizeOutput(rows)) <= Len(rows)
        /\ \A i \in Nat \ {0} : LineAt(NormalizeOutput(rows), i) = LineAt(rows, i)
    BY <1>4, Normalized
  <2>2. text = NormalizeOutput(rows)
    BY <1>1
  <2> HIDE <1>1
  <2> QED
    BY <1>2, <1>4, <2>1, <2>2
<1>6. LineAt(text, 1) = header
  BY <1>2, <1>4, <1>5 DEF LineAt
<1>7. text # <<>> /\ text[1] = header
  BY <1>3, <1>5, <1>6 DEF LineAt
<1>8. \A i \in 1 .. Len(v) : LineAt(text, i + 1) = row[i]
  <2>1. \A i \in 1 .. Len(v) : i + 1 \in Nat \ {0} /\ i + 1 <= Len(rows)
    BY <1>2, <1>4
  <2> QED
    BY <1>4, <1>5, <2>1 DEF LineAt
<1>9. After(text, Len(v) + 1) = <<>>
  BY <1>2, <1>5 DEF After
<1> QED
  BY <1>2, <1>3, <1>7, <1>8, <1>9 DEF row

LEMMA SameItems ==
  ASSUME NEW T, NEW v \in Seq(T), NEW w \in Seq(T), Len(v) = Len(w), \A i \in 1 .. Len(v) : v[i] = w[i]
  PROVE  v = w
  OBVIOUS

\* What is printed of two values is the same text if and only if they are the same.
LEMMA TellsApart ==
  ASSUME NEW type \in ValueTypes \ {"TreeNode"}, NEW v, ValidValue(type, v), NEW w, ValidValue(type, w),
         NormalizeOutput(EncodeOutput(type, v)) = NormalizeOutput(EncodeOutput(type, w))
  PROVE  v = w
<1>1. CASE type \in Scalars
  <2>1. \A u : EncodeOutput(type, u) = << Line(<<u>>) >>
    BY <1>1 DEF EncodeOutput, Scalars
  <2>2. Line(<<v>>) = Line(<<w>>)
    BY <2>1, OneLine
  <2>3. \A u : Line(<<u>>)[1][1] = u
    BY DEF Line
  <2> QED
    BY <2>2, <2>3
<1>2. CASE type \in {"string", "int[]", "ListNode"}
  <2>1. \A u : EncodeOutput(type, u) = << Line(u) >>
    BY <1>2 DEF EncodeOutput, Scalars
  <2>2. Line(v) = Line(w)
    BY <2>1, OneLine
  <2>3. (v \in Seq(STRING) /\ w \in Seq(STRING)) \/ (v \in Seq(Int) /\ w \in Seq(Int))
    BY <1>2 DEF ValidValue
  <2> QED
    BY <2>2, <2>3, LinesDiffer
<1>3. CASE type \in {"int[][]", "string[]"}
  <2>1. EncodeOutput(type, v) = Rows(v) /\ EncodeOutput(type, w) = Rows(w)
    BY <1>3 DEF EncodeOutput, Scalars
  <2>2. PICK S : v \in Seq(Seq(S)) /\ w \in Seq(Seq(S))
    <3>1. (v \in Seq(Seq(STRING)) /\ w \in Seq(Seq(STRING))) \/ (v \in Seq(Seq(Int)) /\ w \in Seq(Seq(Int)))
      BY <1>3 DEF ValidValue
    <3> QED
      BY <3>1, Zenon
  <2>3. PICK text : text = NormalizeOutput(Rows(v)) /\ text = NormalizeOutput(Rows(w))
    BY <2>1
  <2>4. Len(v) = Len(w) /\ \A i \in 1 .. Len(v) : Line(v[i]) = Line(w[i])
    <3>1. text[1][1][1] = Len(v) /\ \A i \in 1 .. Len(v) : LineAt(text, i + 1) = Line(v[i])
      BY <2>2, <2>3, RowsShown, Zenon
    <3>2. text[1][1][1] = Len(w) /\ \A i \in 1 .. Len(w) : LineAt(text, i + 1) = Line(w[i])
      BY <2>2, <2>3, RowsShown, Zenon
    <3> QED
      BY <3>1, <3>2
  <2>5. \A i \in 1 .. Len(v) : v[i] = w[i]
    <3>1. \A i \in 1 .. Len(v) : v[i] \in Seq(S) /\ w[i] \in Seq(S)
      BY <2>2, <2>4
    <3> QED
      BY <2>4, <3>1, LinesDiffer
  <2> QED
    BY <2>2, <2>4, <2>5, SameItems, Zenon
<1> QED
  BY <1>1, <1>2, <1>3 DEF ValueTypes

ListTypes == {"int[]", "ListNode", "int[][]", "string[]"}

LEMMA Listed ==
  ASSUME NEW T, NEW n \in Nat, NEW f \in [1 .. n -> T]
  PROVE  f \in Seq(T) /\ Len(f) = n
  OBVIOUS

\* Bags of lines and bags of values: a line tells of a list all that a bag of it tells.
LEMMA BagsOfLines ==
  ASSUME NEW S, NEW v \in Seq(S), NEW w \in Seq(S)
  PROVE  ToBag(Line(v)) = ToBag(Line(w)) <=> ToBag(v) = ToBag(w)
<1>1. ASSUME NEW a \in Seq(S), NEW b \in Seq(S) PROVE DOMAIN Line(a) = DOMAIN a /\ Mirrors(Line(a), a, Line(b), b)
  <2>1. /\ DOMAIN a = 1 .. Len(a) /\ DOMAIN Line(a) = DOMAIN a /\ \A i \in DOMAIN a : Line(a)[i] = <<a[i]>>
        /\ DOMAIN b = 1 .. Len(b) /\ DOMAIN Line(b) = DOMAIN b /\ \A i \in DOMAIN b : Line(b)[i] = <<b[i]>>
    BY LineIs
  <2>2. \A x, y : <<x>> = <<y>> <=> x = y
    OBVIOUS
  <2>3. ASSUME NEW i \in DOMAIN a, NEW j \in DOMAIN b PROVE Line(a)[i] = Line(b)[j] <=> a[i] = b[j]
    <3>1. Line(a)[i] = <<a[i]>> /\ Line(b)[j] = <<b[j]>>
      BY <2>1, Zenon
    <3> QED
      BY <2>2, <3>1
  <2> QED
    BY <2>1, <2>3 DEF Mirrors
<1>2. /\ DOMAIN Line(v) = DOMAIN v /\ DOMAIN Line(w) = DOMAIN w
      /\ Mirrors(Line(v), v, Line(v), v) /\ Mirrors(Line(w), w, Line(w), w) /\ Mirrors(Line(v), v, Line(w), w)
  BY <1>1
<1> QED
  BY <1>2, BagsOfImages

\* The rows of two values as a text has them, and their bags.
RowLines(v) == [i \in 1 .. Len(v) |-> Line(v[i])]

RowBags(v) == [i \in DOMAIN v |-> ToBag(v[i])]

LineBags(v) == [i \in 1 .. Len(v) |-> ToBag(Line(v[i]))]

LEMMA BagsOfRows ==
  ASSUME NEW S, NEW v \in Seq(Seq(S)), NEW w \in Seq(Seq(S))
  PROVE  /\ ToBag(RowLines(v)) = ToBag(RowLines(w)) <=> ToBag(v) = ToBag(w)
         /\ ToBag(LineBags(v)) = ToBag(LineBags(w)) <=> ToBag(RowBags(v)) = ToBag(RowBags(w))
         /\ ToBag(v) = ToBag(w) => Len(v) = Len(w)
         /\ ToBag(RowBags(v)) = ToBag(RowBags(w)) => Len(v) = Len(w)
<1>0. \A a \in Seq(Seq(S)) : /\ Len(a) \in Nat /\ DOMAIN a = 1 .. Len(a) /\ \A i \in DOMAIN a : a[i] \in Seq(S)
  OBVIOUS
<1>1. ASSUME NEW a \in Seq(Seq(S)), NEW b \in Seq(Seq(S))
      PROVE  /\ DOMAIN RowLines(a) = DOMAIN a /\ DOMAIN LineBags(a) = DOMAIN a /\ DOMAIN RowBags(a) = DOMAIN a
             /\ Mirrors(RowLines(a), a, RowLines(b), b)
             /\ Mirrors(LineBags(a), RowBags(a), LineBags(b), RowBags(b))
  <2>1. DOMAIN RowLines(a) = DOMAIN a /\ DOMAIN LineBags(a) = DOMAIN a /\ DOMAIN RowBags(a) = DOMAIN a
    BY <1>0 DEF RowLines, LineBags, RowBags
  <2>2. \A i \in DOMAIN a : RowLines(a)[i] = Line(a[i]) /\ LineBags(a)[i] = ToBag(Line(a[i])) /\ RowBags(a)[i] = ToBag(a[i])
    BY <1>0 DEF RowLines, LineBags, RowBags
  <2>3. \A i \in DOMAIN b : RowLines(b)[i] = Line(b[i]) /\ LineBags(b)[i] = ToBag(Line(b[i])) /\ RowBags(b)[i] = ToBag(b[i])
    BY <1>0 DEF RowLines, LineBags, RowBags
  <2>4. \A i \in DOMAIN a, j \in DOMAIN b : /\ Line(a[i]) = Line(b[j]) <=> a[i] = b[j]
                                            /\ ToBag(Line(a[i])) = ToBag(Line(b[j])) <=> ToBag(a[i]) = ToBag(b[j])
    BY <1>0, LinesDiffer, BagsOfLines
  <2>5. DOMAIN RowBags(b) = DOMAIN b
    BY DEF RowBags
  <2>6. Mirrors(RowLines(a), a, RowLines(b), b)
    <3>1. ASSUME NEW i \in DOMAIN a, NEW j \in DOMAIN b PROVE RowLines(a)[i] = RowLines(b)[j] <=> a[i] = b[j]
      BY <2>2, <2>3, <2>4
    <3> QED
      BY <3>1 DEF Mirrors
  <2>7. Mirrors(LineBags(a), RowBags(a), LineBags(b), RowBags(b))
    BY <2>1, <2>2, <2>3, <2>4, <2>5 DEF Mirrors
  <2> QED
    BY <2>1, <2>6, <2>7
<1>2. ToBag(RowLines(v)) = ToBag(RowLines(w)) <=> ToBag(v) = ToBag(w)
  <2>1. /\ DOMAIN RowLines(v) = DOMAIN v /\ DOMAIN RowLines(w) = DOMAIN w
        /\ Mirrors(RowLines(v), v, RowLines(v), v) /\ Mirrors(RowLines(w), w, RowLines(w), w)
        /\ Mirrors(RowLines(v), v, RowLines(w), w)
    BY <1>1
  <2> QED
    BY <2>1, BagsOfImages
<1>3. ToBag(LineBags(v)) = ToBag(LineBags(w)) <=> ToBag(RowBags(v)) = ToBag(RowBags(w))
  <2>1. /\ DOMAIN LineBags(v) = DOMAIN RowBags(v) /\ DOMAIN LineBags(w) = DOMAIN RowBags(w)
        /\ Mirrors(LineBags(v), RowBags(v), LineBags(v), RowBags(v))
        /\ Mirrors(LineBags(w), RowBags(w), LineBags(w), RowBags(w))
        /\ Mirrors(LineBags(v), RowBags(v), LineBags(w), RowBags(w))
    BY <1>1
  <2> QED
    BY <2>1, BagsOfImages
<1>4. ASSUME ToBag(v) = ToBag(w) PROVE Len(v) = Len(w)
  <2>1. Len(v) <= Len(w) /\ Len(w) <= Len(v)
    BY <1>4, LengthOfBag, Zenon
  <2> QED
    BY <1>0, <2>1
<1>5. ASSUME ToBag(RowBags(v)) = ToBag(RowBags(w)) PROVE Len(v) = Len(w)
  <2> DEFINE T == { ToBag(s) : s \in Seq(S) }
  <2>1. \A a \in Seq(Seq(S)) : RowBags(a) \in Seq(T) /\ Len(RowBags(a)) = Len(a)
    <3>1. SUFFICES ASSUME NEW a \in Seq(Seq(S)) PROVE RowBags(a) \in Seq(T) /\ Len(RowBags(a)) = Len(a)
      OBVIOUS
    <3>2. RowBags(a) = [i \in 1 .. Len(a) |-> ToBag(a[i])] /\ \A i \in 1 .. Len(a) : ToBag(a[i]) \in T
      BY <1>0 DEF RowBags
    <3> HIDE DEF T
    <3>3. RowBags(a) \in [1 .. Len(a) -> T] /\ Len(a) \in Nat
      BY <1>0, <3>2
    <3> QED
      BY <3>3, Listed, Zenon
  <2> HIDE DEF T
  <2>2. Len(RowBags(v)) <= Len(RowBags(w)) /\ Len(RowBags(w)) <= Len(RowBags(v))
    BY <1>5, <2>1, LengthOfBag, Zenon
  <2> QED
    BY <1>0, <2>1, <2>2
<1> QED
  BY <1>2, <1>3, <1>4, <1>5

\* What two outputs are compared by.
Shown(text, comparator, type) ==
    IF comparator = "unordered" \/ comparator = "sortInner"
    THEN CanonicalUnordered(NormalizeOutput(text), type, comparator = "sortInner")
    ELSE NormalizeOutput(text)

LEMMA MatchIs ==
  ASSUME NEW a, NEW b, NEW comparator, NEW type
  PROVE  OutputsMatch(a, b, comparator, type) <=> Shown(a, comparator, type) = Shown(b, comparator, type)
  BY DEF OutputsMatch, Shown

LEMMA ShownPlain ==
  ASSUME NEW text, NEW comparator, NEW type, comparator = "exact" \/ type \notin ListTypes
  PROVE  Shown(text, comparator, type) = NormalizeOutput(text)
  BY DEF Shown, CanonicalUnordered, ListTypes

LEMMA ShownList ==
  ASSUME NEW l, NEW comparator \in {"unordered", "sortInner"}, NEW type \in {"int[]", "ListNode"}
  PROVE  Shown(<<l>>, comparator, type) = << ToBag(l) >>
<1>1. Shown(<<l>>, comparator, type) = CanonicalUnordered(NormalizeOutput(<<l>>), type, comparator = "sortInner")
  BY DEF Shown
<1>2. CanonicalUnordered(NormalizeOutput(<<l>>), type, comparator = "sortInner") = << ToBag(LineAt(NormalizeOutput(<<l>>), 1)) >>
  BY Zenon DEF CanonicalUnordered
<1> QED
  BY <1>1, <1>2, OneLine

LEMMA ShownRows ==
  ASSUME NEW S, NEW v \in Seq(Seq(S)), NEW comparator \in {"unordered", "sortInner"}, NEW type \in {"int[][]", "string[]"}
  PROVE  Shown(Rows(v), comparator, type)
         = << Len(v), IF comparator = "sortInner" /\ type = "int[][]" THEN ToBag(LineBags(v)) ELSE ToBag(RowLines(v)), <<>> >>
<1>1. PICK text : text = NormalizeOutput(Rows(v))
  OBVIOUS
<1>2. Shown(Rows(v), comparator, type) = CanonicalUnordered(text, type, comparator = "sortInner")
  BY <1>1 DEF Shown
<1>3. /\ text # <<>> /\ text[1] # <<>> /\ text[1][1][1] = Len(v) /\ Len(v) \in Nat
      /\ \A i \in 1 .. Len(v) : LineAt(text, i + 1) = Line(v[i])
      /\ After(text, Len(v) + 1) = <<>>
  BY <1>1, RowsShown, Zenon
<1>4. PICK count : count = CountOf(text)
  OBVIOUS
<1>5. PICK rows : rows = [i \in 1 .. count |-> LineAt(text, i + 1)]
  OBVIOUS
<1>6. type \notin {"int[]", "ListNode"} /\ ~ (type \notin {"int[][]", "string[]"})
  OBVIOUS
<1>7. CanonicalUnordered(text, type, comparator = "sortInner")
      = << count, IF comparator = "sortInner" /\ type = "int[][]" THEN ToBag([i \in 1 .. count |-> ToBag(rows[i])]) ELSE ToBag(rows),
           After(text, count + 1) >>
  BY <1>4, <1>5, <1>6, Zenon DEF CanonicalUnordered
<1>8. count = Len(v)
  BY <1>3, <1>4 DEF CountOf
<1>9. rows = RowLines(v)
  BY <1>3, <1>5, <1>8 DEF RowLines
<1>10. [i \in 1 .. count |-> ToBag(rows[i])] = LineBags(v)
  BY <1>8, <1>9 DEF RowLines, LineBags
<1> QED
  BY <1>2, <1>3, <1>7, <1>8, <1>9, <1>10, Zenon

\* Two outputs are the same for a comparator if and only if the values are the same answer: neither
\* printing nor normalizeOutput, nor the rows of canonicalUnordered, make two values one (encodeOutput
\* of codec.ts, outputsMatch of compare.ts).
THEOREM ComparesRight ==
  ASSUME job \in Jobs, job.type # "TreeNode", NEW v, ValidValue(job.type, v), NEW w, ValidValue(job.type, w)
  PROVE  OutputsMatch(EncodeOutput(job.type, v), EncodeOutput(job.type, w), job.comparator, job.type)
         <=> SameAnswer(v, w)
<1>0. job.type \in ValueTypes \ {"TreeNode"} /\ job.comparator \in {"exact", "unordered", "sortInner"}
  BY JobsAssumption DEF JobOK
<1> DEFINE Text(u) == EncodeOutput(job.type, u)
           Of(u) == Shown(Text(u), job.comparator, job.type)
<1>1. OutputsMatch(Text(v), Text(w), job.comparator, job.type) <=> Of(v) = Of(w)
  BY MatchIs
<1>2. CASE job.comparator = "exact" \/ job.type \notin ListTypes
  <2>1. Of(v) = NormalizeOutput(Text(v)) /\ Of(w) = NormalizeOutput(Text(w))
    BY <1>2, ShownPlain
  <2>2. Of(v) = Of(w) <=> v = w
    BY <1>0, <2>1, TellsApart
  <2>3. SameAnswer(v, w) <=> v = w
    BY <1>2 DEF SameAnswer, ListTypes
  <2> QED
    BY <1>1, <2>2, <2>3
<1>3. CASE job.comparator # "exact" /\ job.type \in {"int[]", "ListNode"}
  <2>1. Text(v) = << Line(v) >> /\ Text(w) = << Line(w) >>
    BY <1>3 DEF EncodeOutput, Scalars
  <2>2. Of(v) = << ToBag(Line(v)) >> /\ Of(w) = << ToBag(Line(w)) >>
    BY <1>0, <1>3, <2>1, ShownList
  <2>3. v \in Seq(Int) /\ w \in Seq(Int)
    BY <1>3 DEF ValidValue
  <2>4. SameAnswer(v, w) <=> ToBag(v) = ToBag(w)
    BY <1>3 DEF SameAnswer
  <2>5. Of(v) = Of(w) <=> ToBag(Line(v)) = ToBag(Line(w))
    BY <2>2
  <2> QED
    BY <1>1, <2>3, <2>4, <2>5, BagsOfLines
<1>4. CASE job.comparator # "exact" /\ job.type \in {"int[][]", "string[]"}
  <2>1. Text(v) = Rows(v) /\ Text(w) = Rows(w)
    BY <1>4 DEF EncodeOutput, Scalars
  <2>2. PICK S : v \in Seq(Seq(S)) /\ w \in Seq(Seq(S))
    <3>1. (v \in Seq(Seq(STRING)) /\ w \in Seq(Seq(STRING))) \/ (v \in Seq(Seq(Int)) /\ w \in Seq(Seq(Int)))
      BY <1>4 DEF ValidValue
    <3> QED
      BY <3>1, Zenon
  <2> DEFINE nested == job.comparator = "sortInner" /\ job.type = "int[][]"
             Bag(u) == IF nested THEN ToBag(LineBags(u)) ELSE ToBag(RowLines(u))
  <2>3. Of(v) = << Len(v), Bag(v), <<>> >> /\ Of(w) = << Len(w), Bag(w), <<>> >>
    <3>1. job.comparator \in {"unordered", "sortInner"}
      BY <1>0, <1>4
    <3> QED
      BY <1>4, <2>1, <2>2, <3>1, ShownRows, Zenon
  <2>4. Of(v) = Of(w) <=> Len(v) = Len(w) /\ Bag(v) = Bag(w)
    <3> HIDE DEF Bag, Of
    <3> QED
      BY <2>3
  <2>5. SameAnswer(v, w) <=> IF nested THEN ToBag(RowBags(v)) = ToBag(RowBags(w)) ELSE ToBag(v) = ToBag(w)
    BY <1>4, Zenon DEF SameAnswer, RowBags
  <2>6. /\ ToBag(RowLines(v)) = ToBag(RowLines(w)) <=> ToBag(v) = ToBag(w)
        /\ ToBag(LineBags(v)) = ToBag(LineBags(w)) <=> ToBag(RowBags(v)) = ToBag(RowBags(w))
        /\ ToBag(v) = ToBag(w) => Len(v) = Len(w)
        /\ ToBag(RowBags(v)) = ToBag(RowBags(w)) => Len(v) = Len(w)
    BY <2>2, BagsOfRows, Zenon
  <2> QED
    BY <1>1, <2>4, <2>5, <2>6
<1> QED
  BY <1>0, <1>2, <1>3, <1>4 DEF ListTypes

-----------------------------------------------------------------------------
(* What the judge makes of a value, and of none.                           *)

LEMMA Towards ==
  ASSUME NEW h \in Int
  PROVE  /\ Trunc(h) \in Int
         /\ h >= 0 => 0 <= 2 * Trunc(h) /\ 2 * Trunc(h) <= h /\ h <= 2 * Trunc(h) + 1
         /\ h < 0 => 2 * Trunc(h) <= 0 /\ 2 * Trunc(h) - 1 <= h /\ h <= 2 * Trunc(h)
  BY DEF Trunc

LEMMA Whole == \A n \in Int : Trunc(2 * n) = n
<1> TAKE n \in Int
<1>1. 2 * n \in Int
  OBVIOUS
<1>2. PICK h \in Int : h = 2 * n
  BY <1>1
<1>3. PICK t \in Int : t = Trunc(h)
  BY Towards
<1>4. (h >= 0 => 2 * t <= h /\ h <= 2 * t + 1) /\ (h < 0 => 2 * t - 1 <= h /\ h <= 2 * t)
  BY <1>3, Towards
<1>5. t = n
  BY <1>2, <1>4
<1> QED
  BY <1>2, <1>3, <1>5

LEMMA Sequence ==
  ASSUME NEW S, NEW n \in Nat, NEW f \in [1 .. n -> S]
  PROVE  f \in Seq(S)
  OBVIOUS

LEMMA TruncatedRow ==
  ASSUME NEW r \in Seq(Int)
  PROVE  [k \in DOMAIN r |-> Trunc(r[k])] \in Seq(Int) /\ [k \in DOMAIN r |-> 2 * r[k]] \in Seq(Int)
<1>1. \A h \in Int : Trunc(h) \in Int /\ 2 * h \in Int
  BY Towards
<1>2. Len(r) \in Nat /\ DOMAIN r = 1 .. Len(r) /\ \A i \in 1 .. Len(r) : r[i] \in Int
  OBVIOUS
<1>3. /\ [k \in 1 .. Len(r) |-> Trunc(r[k])] \in [1 .. Len(r) -> Int]
      /\ [k \in 1 .. Len(r) |-> 2 * r[k]] \in [1 .. Len(r) -> Int]
  BY <1>1, <1>2
<1>4. \A f \in [1 .. Len(r) -> Int] : f \in Seq(Int)
  BY <1>2
<1> QED
  BY <1>2, <1>3, <1>4

LEMMA WholeRow ==
  ASSUME NEW r \in Seq(Int)
  PROVE  [k \in DOMAIN r |-> Trunc(2 * r[k])] = r
<1>1. DOMAIN r = 1 .. Len(r) /\ r = [k \in DOMAIN r |-> r[k]] /\ \A k \in DOMAIN r : r[k] \in Int
  OBVIOUS
<1>2. \A k \in DOMAIN r : Trunc(2 * r[k]) = r[k]
  BY <1>1, Whole
<1> QED
  BY <1>1, <1>2

LEMMA TruncatedRows ==
  ASSUME NEW v \in Seq(Seq(Int))
  PROVE  /\ [i \in DOMAIN v |-> [k \in DOMAIN v[i] |-> Trunc(v[i][k])]] \in Seq(Seq(Int))
         /\ [i \in DOMAIN v |-> [k \in DOMAIN v[i] |-> 2 * v[i][k]]] \in Seq(Seq(Int))
<1>1. Len(v) \in Nat /\ DOMAIN v = 1 .. Len(v) /\ \A i \in 1 .. Len(v) : v[i] \in Seq(Int)
  OBVIOUS
<1>2. \A i \in 1 .. Len(v) : /\ [k \in DOMAIN v[i] |-> Trunc(v[i][k])] \in Seq(Int)
                              /\ [k \in DOMAIN v[i] |-> 2 * v[i][k]] \in Seq(Int)
  BY <1>1, TruncatedRow
<1>3. /\ [i \in 1 .. Len(v) |-> [k \in DOMAIN v[i] |-> Trunc(v[i][k])]] \in [1 .. Len(v) -> Seq(Int)]
      /\ [i \in 1 .. Len(v) |-> [k \in DOMAIN v[i] |-> 2 * v[i][k]]] \in [1 .. Len(v) -> Seq(Int)]
  BY <1>2, Zenon
<1>4. \A f \in [1 .. Len(v) -> Seq(Int)] : f \in Seq(Seq(Int))
  BY <1>1, Sequence
<1> QED
  BY <1>1, <1>3, <1>4, Zenon

\* What a script's printer makes of a value is of the declared type, and a value of that type
\* comes to be returned as one that a script may return.
LEMMA CoercedIs ==
  ASSUME NEW type \in ValueTypes \ {"TreeNode"}, NEW language \in Scripts, NEW v
  PROVE  /\ MayReturn(language, type, v) => ValidValue(type, Coerced(type, v))
         /\ ValidValue(type, v) => MayReturn(language, type, InHalves(type, v))
<1>1. CASE type \in {"int", "long"}
  <2>1. v \in Int => Trunc(v) \in Int /\ 2 * v \in Int
    BY Towards
  <2>2. Coerced(type, v) = Trunc(v) /\ InHalves(type, v) = 2 * v
    BY <1>1 DEF Coerced, InHalves
  <2> QED
    BY <1>1, <2>1, <2>2 DEF MayReturn, ValidValue
<1>2. CASE type = "bool"
  BY <1>2 DEF MayReturn, ValidValue, Coerced, InHalves
<1>3. CASE type = "int[]"
  <2>1. Coerced(type, v) = [k \in DOMAIN v |-> Trunc(v[k])] /\ InHalves(type, v) = [k \in DOMAIN v |-> 2 * v[k]]
    BY <1>3 DEF Coerced, InHalves
  <2> QED
    BY <1>3, <2>1, TruncatedRow DEF MayReturn, ValidValue
<1>4. CASE type = "int[][]"
  <2>1. /\ Coerced(type, v) = [i \in DOMAIN v |-> [k \in DOMAIN v[i] |-> Trunc(v[i][k])]]
        /\ InHalves(type, v) = [i \in DOMAIN v |-> [k \in DOMAIN v[i] |-> 2 * v[i][k]]]
    BY <1>4 DEF Coerced, InHalves
  <2>2. /\ MayReturn(language, type, v) => v \in Seq(Seq(Int))
        /\ \A w : ValidValue(type, w) <=> w \in Seq(Seq(Int))
        /\ \A w : MayReturn(language, type, w) <=> w \in Seq(Seq(Int))
    BY <1>4 DEF MayReturn, ValidValue
  <2> QED
    BY <2>1, <2>2, TruncatedRows
<1>5. CASE type \notin {"int", "long", "bool", "int[]", "int[][]"}
  <2>1. Coerced(type, v) = v /\ InHalves(type, v) = v
    BY <1>5 DEF Coerced, InHalves
  <2> QED
    BY <1>5, <2>1 DEF MayReturn
<1> QED
  BY <1>1, <1>2, <1>3, <1>4, <1>5

\* What a script returns of the declared type is taken for itself (the formatters of javascript.ts
\* and python.ts): only what is not of the type is changed.
THEOREM TakenAsItIs ==
  ASSUME NEW type \in ValueTypes, NEW v, ValidValue(type, v)
  PROVE  Coerced(type, InHalves(type, v)) = v
<1>1. CASE type \in {"int", "long"}
  BY <1>1, Whole DEF ValidValue, Coerced, InHalves
<1>2. CASE type = "bool"
  BY <1>2 DEF ValidValue, Coerced, InHalves
<1>3. CASE type = "int[]"
  <2>1. v \in Seq(Int)
    BY <1>3 DEF ValidValue
  <2>2. Coerced(type, InHalves(type, v)) = [k \in DOMAIN v |-> Trunc(2 * v[k])]
    BY <1>3 DEF Coerced, InHalves
  <2> QED
    BY <2>1, <2>2, WholeRow
<1>4. CASE type = "int[][]"
  <2>1. v \in Seq(Seq(Int))
    BY <1>4 DEF ValidValue
  <2>2. Coerced(type, InHalves(type, v)) = [i \in DOMAIN v |-> [k \in DOMAIN v[i] |-> Trunc(2 * v[i][k])]]
    BY <1>4 DEF Coerced, InHalves
  <2>3. v = [i \in DOMAIN v |-> v[i]] /\ \A i \in DOMAIN v : v[i] \in Seq(Int)
    BY <2>1
  <2>4. \A i \in DOMAIN v : [k \in DOMAIN v[i] |-> Trunc(2 * v[i][k])] = v[i]
    BY <2>3, WholeRow
  <2> QED
    BY <2>2, <2>3, <2>4
<1>5. CASE type \notin {"int", "long", "bool", "int[]", "int[][]"}
  BY <1>5 DEF Coerced, InHalves
<1> QED
  BY <1>1, <1>2, <1>3, <1>4, <1>5

LEMMA TestPrinted ==
  ASSUME job \in Jobs, job.type # "TreeNode", NEW v
  PROVE  Printed(<<v>>) = EncodeOutput(job.type, Meant(v)) /\ Held(v) = v
<1>1. job.language \in {"c", "cpp", "java", "javascript", "python"}
  BY JobsAssumption DEF JobOK
<1>2. <<v>> # Nothing /\ <<v>>[1] = v
  BY DEF Nothing
<1>3. \A w : Format(job.type, w) = EncodeOutput(job.type, w)
  BY DEF Format
<1>4. CASE job.language \in Scripts
  <2>1. Printed(<<v>>) = Format(job.type, Coerced(job.type, v))
    BY <1>2, <1>4 DEF Printed, Scripts, JavascriptFormat, PythonFormat, ScriptFormat
  <2> QED
    BY <1>3, <1>4, <2>1 DEF Held, Meant
<1>5. CASE job.language \notin Scripts
  <2>1. OrEmpty(job.type, <<v>>) = v
    BY <1>2 DEF OrEmpty
  <2>2. Printed(<<v>>) = Format(job.type, v)
    BY <1>1, <1>2, <1>5, <2>1 DEF Printed, Scripts, CppFormat, JavaFormat, CFormat
  <2> QED
    BY <1>3, <1>5, <2>2 DEF Held, Meant
<1> QED
  BY <1>4, <1>5

\* Whatever a program returns is taken for a value of the declared type.
LEMMA MeantIs ==
  ASSUME job \in Jobs, Len(results) \in Nat, Len(results) < Len(job.tests), job.type # "TreeNode",
         NEW value \in Returned
  PROVE  ValidValue(job.type, Meant(value))
<1>1. /\ Answered = Test /\ ValidValue(job.type, Test)
      /\ job.type \in ValueTypes \ {"TreeNode"} /\ \A w \in job.returns : MayReturn(job.language, job.type, w)
  BY AnsweredIsTest, TestIs, JobFacts
<1>2. \A w : Held(w) = w
  BY DEF Held
<1>3. CASE job.language \in Scripts
  <2>1. MayReturn(job.language, job.type, InHalves(job.type, Test))
    BY <1>1, <1>3, CoercedIs
  <2>2. value = InHalves(job.type, Test) \/ value \in job.returns
    BY <1>1, <1>2, <1>3 DEF Returned
  <2>3. MayReturn(job.language, job.type, value)
    BY <1>1, <2>1, <2>2
  <2> QED
    BY <1>1, <1>3, <2>3, CoercedIs DEF Meant
<1>4. CASE job.language \notin Scripts
  <2>1. value = Test \/ value \in job.returns
    BY <1>1, <1>2, <1>4 DEF Returned
  <2>2. \A w \in job.returns : ValidValue(job.type, w)
    BY <1>1, <1>4 DEF MayReturn
  <2> QED
    BY <1>1, <1>4, <2>1, <2>2 DEF Meant
<1> QED
  BY <1>3, <1>4

LEMMA ReturnedIs ==
  ASSUME job \in Jobs, Len(results) \in Nat, Len(results) < Len(job.tests), job.type # "TreeNode",
         NEW value \in Returned
  PROVE  IsRight(value) <=> SameAnswer(Meant(value), Test)
<1>1. Answered = Test /\ Held(Test) = Test
  BY AnsweredIsTest, TestPrinted
<1>2. SameAnswer(Test, Test)
  BY DEF SameAnswer
<1> QED
  BY <1>1, <1>2 DEF IsRight

\* The output of a program that returns a value is accepted if and only if the value is right.
LEMMA ValueCompared ==
  ASSUME job \in Jobs, Len(results) \in Nat, Len(results) < Len(job.tests), job.type # "TreeNode",
         job.expects, NEW value \in Returned
  PROVE  Compare(Printed(<<value>>)) = IF IsRight(value) THEN "ACCEPTED" ELSE "WRONG_ANSWER"
<1>1. /\ ValidValue(job.type, Meant(value)) /\ ValidValue(job.type, Test)
      /\ IsRight(value) <=> SameAnswer(Meant(value), Test)
  BY ReturnedIs, MeantIs, TestIs
<1>2. Printed(<<value>>) = EncodeOutput(job.type, Meant(value)) /\ Expected = EncodeOutput(job.type, Test)
  BY TestPrinted DEF Expected
<1>3. OutputsMatch(Printed(<<value>>), Expected, job.comparator, job.type) <=> IsRight(value)
  BY <1>1, <1>2, ComparesRight, Zenon
<1> QED
  BY <1>3 DEF Compare

\* What is empty is the same answer as what is empty, and as nothing else.
LEMMA EmptyAnswer ==
  ASSUME job \in Jobs, job.type \in Nullable \cup {"bool"}, NEW w, ValidValue(job.type, w)
  PROVE  ValidValue(job.type, Empty(job.type)) /\ (SameAnswer(Empty(job.type), w) <=> w = Empty(job.type))
<1>1. CASE job.type = "bool"
  BY <1>1 DEF ValidValue, Empty, SameAnswer
<1>2. CASE job.type \in Nullable
  <2>1. Empty(job.type) = <<>>
    BY <1>2 DEF Empty, Nullable
  <2>2. ValidValue(job.type, <<>>)
    <3>1. <<>> \in Seq(STRING) /\ <<>> \in Seq(Int) /\ <<>> \in Seq(Seq(STRING)) /\ <<>> \in Seq(Seq(Int))
      OBVIOUS
    <3>2. ValidValue("string", <<>>) /\ ValidValue("int[]", <<>>)
      BY <3>1 DEF ValidValue
    <3>3. ValidValue("int[][]", <<>>)
      BY <3>1 DEF ValidValue
    <3>4. ValidValue("string[]", <<>>)
      BY <3>1 DEF ValidValue
    <3> QED
      BY <1>2, <3>2, <3>3, <3>4 DEF Nullable
  <2>3. PICK S : w \in Seq(S)
    <3>1. w \in Seq(STRING) \/ w \in Seq(Int) \/ w \in Seq(Seq(STRING)) \/ w \in Seq(Seq(Int))
      BY <1>2 DEF ValidValue, Nullable
    <3> QED
      BY <3>1, Zenon
  <2>4. w = <<>> <=> DOMAIN w = {}
    BY <2>3
  <2>5. ToBag(<<>>) = ToBag(w) <=> w = <<>>
    <3>1. ToBag(<<>>) = ToBag(w) => DOMAIN w = {}
      <4>1. ToBag(<<>>) = ToBag(w) => \A j \in DOMAIN w : \E i \in DOMAIN <<>> : <<>>[i] = w[j]
        BY BagIs DEF SameBag
      <4>2. DOMAIN <<>> = {}
        OBVIOUS
      <4> QED
        BY <4>1, <4>2
    <3> QED
      BY <2>4, <3>1
  <2>6. RowBags(<<>>) = <<>> /\ (RowBags(w) = <<>> <=> w = <<>>)
    <3>1. DOMAIN RowBags(w) = DOMAIN w
      BY DEF RowBags
    <3> QED
      BY <2>4, <3>1 DEF RowBags
  <2>7. ToBag(RowBags(<<>>)) = ToBag(RowBags(w)) <=> w = <<>>
    <3>1. ToBag(<<>>) = ToBag(RowBags(w)) => DOMAIN RowBags(w) = {}
      <4>1. ToBag(<<>>) = ToBag(RowBags(w)) => \A j \in DOMAIN RowBags(w) : \E i \in DOMAIN <<>> : <<>>[i] = RowBags(w)[j]
        BY BagIs DEF SameBag
      <4>2. DOMAIN <<>> = {}
        OBVIOUS
      <4> QED
        BY <4>1, <4>2
    <3>2. DOMAIN RowBags(w) = DOMAIN w
      BY DEF RowBags
    <3> QED
      BY <2>4, <2>6, <3>1, <3>2
  <2>8. SameAnswer(<<>>, w) <=> w = <<>>
    <3>1. SameAnswer(<<>>, w) <=>
            IF job.comparator = "exact" \/ job.type \notin {"int[]", "ListNode", "int[][]", "string[]"} THEN <<>> = w
            ELSE IF job.comparator = "sortInner" /\ job.type = "int[][]"
            THEN ToBag(RowBags(<<>>)) = ToBag(RowBags(w)) ELSE ToBag(<<>>) = ToBag(w)
      BY Zenon DEF SameAnswer, RowBags
    <3> QED
      BY <2>5, <2>7, <3>1
  <2> QED
    BY <2>1, <2>2, <2>8
<1> QED
  BY <1>1, <1>2

\* A program that returns nothing passes the tests whose answer is empty, and no others.
LEMMA NothingCompared ==
  ASSUME job \in Jobs, Len(results) \in Nat, Len(results) < Len(job.tests), job.expects,
         MayReturnNone
  PROVE  Compare(Printed(Nothing)) = IF job.type \in Nullable \cup {"bool"} /\ Test = Empty(job.type)
                                     THEN "ACCEPTED" ELSE "WRONG_ANSWER"
<1>0. MayReturnNothing(job.language, job.type) /\ ~ (job.language = "python" /\ PythonRaises(job.type, Nothing))
  BY DEF MayReturnNone
<1>1. job.language \in {"c", "java", "javascript", "python"} /\ job.type \in ValueTypes \ {"ListNode", "TreeNode"}
  BY <1>0, JobsAssumption DEF JobOK, MayReturnNothing, Nullable
<1>2. ValidValue(job.type, Test) /\ Expected = EncodeOutput(job.type, Test)
  BY TestIs DEF Expected
<1>3. CASE job.type \in Nullable \cup {"bool"}
  <2>1. OrEmpty(job.type, Nothing) = Empty(job.type) /\ Format(job.type, Empty(job.type)) = EncodeOutput(job.type, Empty(job.type))
    BY <1>1 DEF OrEmpty, Format
  <2>2. Printed(Nothing) = EncodeOutput(job.type, Empty(job.type))
    BY <1>1, <1>3, <2>1 DEF Printed, JavascriptFormat, PythonFormat, ScriptFormat, JavaFormat, CFormat, Nullable
  <2>3. OutputsMatch(Printed(Nothing), Expected, job.comparator, job.type) <=> Test = Empty(job.type)
    BY <1>1, <1>2, <1>3, <2>2, EmptyAnswer, ComparesRight
  <2> QED
    BY <1>3, <2>3 DEF Compare
<1>4. CASE job.type \notin Nullable \cup {"bool"}
  <2>1. job.type \in {"int", "long", "double"}
    BY <1>1, <1>4 DEF ValueTypes, Scalars, Nullable
  <2>2. job.language = "javascript"
    BY <1>0, <1>1, <1>4, <2>1 DEF MayReturnNothing, PythonRaises, Nullable
  <2>3. Printed(Nothing) = << NotANumber >>
    BY <2>1, <2>2 DEF Printed, JavascriptFormat
  <2>4. Expected = << Line(<<Test>>) >>
    BY <1>2, <2>1 DEF EncodeOutput, Scalars
  <2>5. NotANumber # Line(<<Test>>)
    <3>1. \A token : <<token>>[1] = token
      OBVIOUS
    <3>2. NotANumber[1] = <<"not", "a number">>
      BY <3>1, Zenon DEF NotANumber
    <3>3. Line(<<Test>>)[1] = <<Test>>
      BY DEF Line
    <3>4. Len(<<"not", "a number">>) = 2
      OBVIOUS
    <3>5. Len(<<Test>>) = 1
      OBVIOUS
    <3>6. Len(<<Test>>) # Len(<<"not", "a number">>)
      BY <3>4, <3>5
    <3> QED
      BY <3>2, <3>3, <3>6, Zenon
  <2>6. ~ OutputsMatch(Printed(Nothing), Expected, job.comparator, job.type)
    <3>1. job.type \notin ListTypes
      BY <2>1 DEF ListTypes
    <3>2. OutputsMatch(<<NotANumber>>, <<Line(<<Test>>)>>, job.comparator, job.type)
          => NormalizeOutput(<<NotANumber>>) = NormalizeOutput(<<Line(<<Test>>)>>)
      BY <3>1, MatchIs, ShownPlain
    <3>3. LineAt(NormalizeOutput(<<NotANumber>>), 1) = NotANumber
          /\ LineAt(NormalizeOutput(<<Line(<<Test>>)>>), 1) = Line(<<Test>>)
      BY OneLine, Zenon
    <3> QED
      BY <2>3, <2>4, <2>5, <3>2, <3>3, Zenon
  <2> QED
    BY <1>4, <2>6 DEF Compare
<1> QED
  BY <1>3, <1>4

LEMMA TrimmedFilled ==
  ASSUME NEW S, NEW text \in Seq(S), text # <<>>, text[1] # <<>>
  PROVE  Trimmed(text) = text
<1> DEFINE filled == { i \in DOMAIN text : text[i] # <<>> }
           start == CHOOSE n \in {Len(text) + 1} \cup filled : \A i \in filled : n <= i
<1>1. Len(text) \in Nat /\ Len(text) >= 1 /\ DOMAIN text = 1 .. Len(text)
  OBVIOUS
<1>2. 1 \in filled /\ \A i \in filled : 1 <= i
  BY <1>1
<1>3. start \in {Len(text) + 1} \cup filled /\ \A i \in filled : start <= i
  BY <1>2, Zenon
<1>4. Trimmed(text) = SubSeq(text, start, Len(text))
  BY Zenon DEF Trimmed
<1>5. \A n \in {Len(text) + 1} \cup filled : n \in Nat /\ 1 <= n
  BY <1>1
<1>6. start = 1
  <2>1. start \in Nat /\ 1 <= start /\ start <= 1
    BY <1>2, <1>3, <1>5, Zenon
  <2> HIDE DEF start
  <2> QED
    BY <2>1
<1>7. SubSeq(text, 1, Len(text)) = text
  BY <1>1
<1> QED
  BY <1>4, <1>6, <1>7

\* Nothing is left of one blank line, neither by trim nor by normalizeOutput.
LEMMA TrimmedBlank == NormalizeOutput(Trimmed(<< <<>> >>)) = NormalizeOutput(<< <<>> >>)
<1> DEFINE text == << <<>> >>
<1>1. Len(text) = 1 /\ DOMAIN text = {1} /\ text[1] = <<>>
  OBVIOUS
<1>2. { i \in DOMAIN text : text[i] # <<>> } = {}
  BY <1>1
<1>3. Trimmed(text) = SubSeq(text, CHOOSE n \in {2} \cup {} : \A i \in {} : n <= i, 1)
  BY <1>1, <1>2 DEF Trimmed
<1>4. (CHOOSE n \in {2} \cup {} : \A i \in {} : n <= i) = 2
  OBVIOUS
<1>5. Trimmed(text) = <<>>
  <2>1. SubSeq(text, 2, 1) = <<>>
    OBVIOUS
  <2> HIDE DEF text
  <2> QED
    BY <1>3, <1>4, <2>1
<1>6. (CHOOSE n \in {0} \cup {} : \A i \in {} : i <= n) = 0
  OBVIOUS
<1>7. NormalizeOutput(text) = FirstOf(text, 0)
  BY <1>2, <1>6 DEF NormalizeOutput
<1>8. { i \in DOMAIN <<>> : <<>>[i] # <<>> } = {}
  OBVIOUS
<1>9. NormalizeOutput(<<>>) = FirstOf(<<>>, 0)
  BY <1>6, <1>8 DEF NormalizeOutput
<1>10. FirstOf(text, 0) = <<>> /\ FirstOf(<<>>, 0) = <<>>
  BY DEF FirstOf
<1> QED
  BY <1>5, <1>7, <1>9, <1>10

\* What a printer prints is compared as it is, with trim or without.
LEMMA EncodedTrimmed ==
  ASSUME NEW type \in ValueTypes \ {"TreeNode"}, NEW v, ValidValue(type, v)
  PROVE  NormalizeOutput(Trimmed(EncodeOutput(type, v))) = NormalizeOutput(EncodeOutput(type, v))
<1>1. \A l : NormalizeOutput(Trimmed(<<l>>)) = NormalizeOutput(<<l>>)
  <2> TAKE l
  <2>1. CASE l = <<>>
    BY <2>1, TrimmedBlank
  <2>2. CASE l # <<>>
    <3>1. <<l>> \in Seq({l}) /\ <<l>> # <<>> /\ <<l>>[1] # <<>>
      BY <2>2
    <3>2. Trimmed(<<l>>) = <<l>>
      BY <3>1, TrimmedFilled, Zenon
    <3> QED
      BY <3>2
  <2> QED
    BY <2>1, <2>2
<1>2. CASE type \in Scalars
  <2>1. EncodeOutput(type, v) = << Line(<<v>>) >>
    BY <1>2 DEF EncodeOutput, Scalars
  <2> QED
    BY <1>1, <2>1, Zenon
<1>3. CASE type \in {"string", "int[]", "ListNode"}
  <2>1. EncodeOutput(type, v) = << Line(v) >>
    BY <1>3 DEF EncodeOutput, Scalars
  <2> QED
    BY <1>1, <2>1, Zenon
<1>4. CASE type \in {"int[][]", "string[]"}
  <2>1. EncodeOutput(type, v) = Rows(v)
    BY <1>4 DEF EncodeOutput, Scalars
  <2>2. PICK S : v \in Seq(Seq(S))
    <3>1. v \in Seq(Seq(STRING)) \/ v \in Seq(Seq(Int))
      BY <1>4 DEF ValidValue
    <3> QED
      BY <3>1, Zenon
  <2> DEFINE header == Line(<<Len(v)>>)
             row == [i \in 1 .. Len(v) |-> Line(v[i])]
             T == {header} \cup { Line(v[i]) : i \in 1 .. Len(v) }
  <2>3. DOMAIN v = 1 .. Len(v) /\ Len(v) \in Nat
    BY <2>2
  <2>4. Rows(v) = <<header>> \o row
    BY <2>3 DEF Rows
  <2>5. row \in [1 .. Len(v) -> T] /\ header \in T
    OBVIOUS
  <2>6. header # <<>>
    BY DEF Line
  <2> HIDE DEF header, row, T
  <2>7. row \in Seq(T)
    BY <2>3, <2>5
  <2>8. <<header>> \o row \in Seq(T) /\ (<<header>> \o row)[1] = header /\ <<header>> \o row # <<>>
    BY <2>5, <2>7
  <2>9. Trimmed(<<header>> \o row) = <<header>> \o row
    BY <2>6, <2>8, TrimmedFilled
  <2> QED
    BY <2>1, <2>4, <2>9
<1> QED
  BY <1>2, <1>3, <1>4 DEF ValueTypes

\* The trim of the fallback does not change how a text is judged that a harness printed.
LEMMA TrimmedAlike ==
  ASSUME NEW text, NormalizeOutput(Trimmed(text)) = NormalizeOutput(text)
  PROVE  Compare(Trimmed(text)) = Compare(text)
<1>1. Shown(Trimmed(text), job.comparator, job.type) = Shown(text, job.comparator, job.type)
  BY DEF Shown
<1>2. OutputsMatch(Trimmed(text), Expected, job.comparator, job.type)
      <=> OutputsMatch(text, Expected, job.comparator, job.type)
  BY <1>1, MatchIs
<1> QED
  BY <1>2 DEF Compare

LEMMA ValueTrimmed ==
  ASSUME job \in Jobs, Len(results) \in Nat, Len(results) < Len(job.tests), job.type # "TreeNode",
         NEW value \in Returned
  PROVE  Compare(Trimmed(Printed(<<value>>))) = Compare(Printed(<<value>>))
<1>1. job.type \in ValueTypes \ {"TreeNode"} /\ ValidValue(job.type, Meant(value))
  BY JobFacts, MeantIs
<1>2. Printed(<<value>>) = EncodeOutput(job.type, Meant(value))
  BY TestPrinted
<1> QED
  BY <1>1, <1>2, EncodedTrimmed, TrimmedAlike

LEMMA NothingTrimmed ==
  ASSUME job \in Jobs, MayReturnNone, job.language \notin Scripts
  PROVE  Compare(Trimmed(Printed(Nothing))) = Compare(Printed(Nothing))
<1>1. job.language \in {"c", "java"} /\ job.type \in Nullable
  BY JobFacts DEF MayReturnNone, MayReturnNothing, Scripts
<1>2. job.type \in ValueTypes \ {"TreeNode"}
  BY <1>1 DEF Nullable, ValueTypes
<1>3. Printed(Nothing) = EncodeOutput(job.type, Empty(job.type))
  BY <1>1 DEF Printed, JavaFormat, CFormat, OrEmpty, Format, Nullable
<1>4. ValidValue(job.type, Empty(job.type))
  <2>1. PICK w : ValidValue(job.type, w)
    <3>1. <<>> \in Seq(STRING) /\ <<>> \in Seq(Int) /\ <<>> \in Seq(Seq(STRING)) /\ <<>> \in Seq(Seq(Int))
      OBVIOUS
    <3> QED
      BY <1>1, <3>1 DEF ValidValue, Nullable
  <2> QED
    BY <1>1, <2>1, EmptyAnswer
<1> QED
  BY <1>2, <1>3, <1>4, EncodedTrimmed, TrimmedAlike

-----------------------------------------------------------------------------
(* What each test tells.                                                   *)

LEMMA TimeoutBounds ==
  ASSUME Types, clock <= Total
  PROVE  /\ Timeout \in Nat /\ Timeout <= TimeLimit
         /\ clock + Timeout <= Total + Slice
         /\ clock <= Total - TimeLimit => Timeout = TimeLimit
  BY Constants DEF Types, Timeout, Lowest, Highest

\* What Took does, for all the tests in the sandbox.
LEMMA TookTells ==
  ASSUME Types, Stages, NEW v \in Verdicts, NEW what \in Deeds, NEW taken \in Nat, Took(v, taken, what),
         stage = "testing", Len(results) < Len(job.tests), job.by = "sandbox",
         stop' \in BOOLEAN, container' \in {container, "died", "destroyed"}
  PROVE  /\ Appends(v, what) /\ Goes /\ clock' = clock + taken
         /\ timeouts' # timeouts => v = "TIME_LIMIT_EXCEEDED"
<1>1. clock' = clock + taken /\ clock' \in Nat /\ clock <= clock'
  BY DEF Took, Types
<1>2. timeouts' \in Nat /\ (timeouts' # timeouts => v = "TIME_LIMIT_EXCEEDED")
  BY DEF Took, Types
<1>3. Goes
  BY <1>1, <1>2 DEF Goes, Types
<1>4. Appends(v, what)
  BY DEF Took, Appends
<1> QED
  BY <1>1, <1>2, <1>3, <1>4

LEMMA RunsFacts ==
  ASSUME Inductive, Runs, container \in {"up", "died"}
  PROVE  /\ Types /\ Stages /\ stage = "testing" /\ Len(results) < Len(job.tests)
         /\ job.by = "sandbox" /\ job \in Jobs /\ clock <= Total /\ ~ stop
         /\ Timeout \in Nat /\ Timeout <= TimeLimit
         /\ clock + Timeout <= Total + Slice
         /\ clock <= Total - TimeLimit => Timeout = TimeLimit
<1>1. Types /\ Stages /\ stage = "testing" /\ Len(results) < Len(job.tests) /\ ~ stop
  BY DEF Inductive, Runs, HasTest, Skips
<1>2. clock <= Total /\ job.by = "sandbox"
  BY <1>1, Constants DEF Runs, Skips, Types
<1> QED
  BY <1>1, <1>2, TimeoutBounds DEF Types

\* Such a test fits, if its time, what it stops, what it is blamed for and its output do.
LEMMA SandboxTells ==
  ASSUME Inductive, stage = "testing", Len(results) < Len(job.tests), job.by = "sandbox",
         NEW v \in Verdicts, NEW what \in Deeds, NEW taken \in Nat, Took(v, taken, what),
         stop' \in BOOLEAN, container' \in {container, "died", "destroyed"},
         what \in NoTime => taken = 0,
         what \notin NoTime =>
             \E latency \in job.latencies \cup {0} : clock + taken <= Total + Slice + Highest(Watchdog, latency),
         stop' # stop \/ (container' = "destroyed" /\ container # "destroyed") => v \in Faults,
         v = "SKIPPED" => clock > Total \/ stop \/ container = "destroyed" \/ timeouts > 0,
         FitsBlame(v, what), FitsOutput(v, what)
  PROVE  Tells
<1>0. Types /\ Stages
  BY DEF Inductive
<1>1. Appends(v, what) /\ Goes /\ clock' = clock + taken /\ (timeouts' # timeouts => v = "TIME_LIMIT_EXCEEDED")
  BY <1>0, TookTells
<1>2. FitsTime(what)
  <2>1. CASE what \in NoTime
    BY <1>0, <1>1, <2>1 DEF FitsTime, Types
  <2>2. CASE what \notin NoTime
    BY <1>1, <2>2 DEF FitsTime
  <2> QED
    BY <2>1, <2>2
<1>3. FitsStop(v)
  <2>1. v = "TIME_LIMIT_EXCEEDED" => v \in Faults
    BY DEF Faults
  <2> QED
    BY <1>1, <2>1 DEF FitsStop
<1> QED
  BY <1>1, <1>2, <1>3, Zenon DEF Tells, Fits

LEMMA HighestIs == \A a, b \in Nat : Highest(a, b) \in Nat /\ a <= Highest(a, b) /\ b <= Highest(a, b)
  BY DEF Highest

LEMMA SkipTells == Inductive /\ Skip => Tells
<1> SUFFICES ASSUME Inductive, Skip PROVE Tells
  OBVIOUS
<1>1. Types /\ Stages /\ stage = "testing" /\ Len(results) < Len(job.tests) /\ Skips /\ job.by = "sandbox"
  BY DEF Inductive, Skip, HasTest
<1>2. Took("SKIPPED", 0, "not run") /\ container' = container /\ stop' = stop
  BY DEF Skip
<1>3. "SKIPPED" \in Verdicts /\ "not run" \in Deeds /\ "SKIPPED" \notin Faults /\ "not run" \in NoTime
  BY DEF Verdicts, Deeds, Faults, NoTime
<1>4. clock > Total \/ stop \/ container = "destroyed" \/ timeouts > 0
  BY <1>1, Constants DEF Skips, Types
<1>5. FitsBlame("SKIPPED", "not run") /\ FitsOutput("SKIPPED", "not run")
  BY <1>3 DEF FitsBlame, FitsOutput
<1> QED
  BY <1>1, <1>2, <1>3, <1>4, <1>5, SandboxTells DEF Types

\* What ends within its timeout does not take the job beyond its time.
LEMMA InTime ==
  ASSUME Inductive, Runs, container \in {"up", "died"}, NEW pace \in job.paces, NEW latency \in job.latencies,
         pace < Timeout
  PROVE  /\ pace \in Nat /\ latency \in Nat /\ pace + latency \in Nat
         /\ clock + (pace + latency) <= Total + Slice + Highest(Watchdog, latency)
<1>1. /\ clock \in Nat /\ Timeout \in Nat /\ clock + Timeout <= Total + Slice /\ job \in Jobs
  BY RunsFacts DEF Types
<1>2. pace \in Nat /\ latency \in Nat
  BY <1>1, JobFacts
<1>3. Highest(Watchdog, latency) \in Nat /\ latency <= Highest(Watchdog, latency)
  BY <1>2, Constants, HighestIs
<1>4. clock + pace <= Total + Slice
  BY <1>1, <1>2, Constants
<1> QED
  BY <1>1, <1>2, <1>3, <1>4, Constants

\* A test that fails by itself within its timeout.
LEMMA CrashesTells == Inductive /\ Crashes => Tells
<1> SUFFICES ASSUME Inductive, Crashes PROVE Tells
  OBVIOUS
<1>1. Runs /\ container = "up" /\ container' = container /\ stop' = stop
  BY DEF Crashes
<1>2. PICK pace \in job.paces, latency \in job.latencies, hungry \in BOOLEAN, marked \in BOOLEAN :
        /\ pace < Timeout
        /\ Took(IF marked THEN "MEMORY_LIMIT_EXCEEDED" ELSE "RUNTIME_ERROR", pace + latency,
                IF hungry THEN "out of memory" ELSE IF marked THEN "named memory" ELSE "crashed")
  BY DEF Crashes
<1>3. PICK v : v = IF marked THEN "MEMORY_LIMIT_EXCEEDED" ELSE "RUNTIME_ERROR"
  OBVIOUS
<1>4. PICK what : what = IF hungry THEN "out of memory" ELSE IF marked THEN "named memory" ELSE "crashed"
  OBVIOUS
<1>5. v \in Verdicts /\ what \in Deeds /\ v \in Faults /\ what \notin NoTime /\ what \in Causes(v) /\ v # "SKIPPED"
  BY <1>3, <1>4 DEF Verdicts, Deeds, Faults, NoTime, Causes
<1>6. /\ pace \in Nat /\ latency \in Nat /\ pace + latency \in Nat /\ stop' \in BOOLEAN
      /\ clock + (pace + latency) <= Total + Slice + Highest(Watchdog, latency)
  BY <1>1, <1>2, InTime, RunsFacts DEF Types
<1>7. FitsBlame(v, what) /\ FitsOutput(v, what)
  <2>1. what \notin {"right", "wrong", "nothing"} /\ v \notin {"EXECUTED", "ACCEPTED", "WRONG_ANSWER"}
    BY <1>3, <1>4
  <2> QED
    BY <1>5, <2>1 DEF FitsBlame, FitsOutput
<1>8. Took(v, pace + latency, what)
  BY <1>2, <1>3, <1>4
<1>9. stage = "testing" /\ Len(results) < Len(job.tests) /\ job.by = "sandbox"
  BY <1>1, RunsFacts
<1>10. container' \in {container, "died", "destroyed"} /\ container' # "destroyed"
  BY <1>1
<1> HIDE <1>2
<1> QED
  BY <1>1, <1>5, <1>6, <1>7, <1>8, <1>9, <1>10, SandboxTells

\* Nothing is blamed on the program once the container is lost.
LEMMA FindsNoContainerTells == Inductive /\ FindsNoContainer => Tells
<1> SUFFICES ASSUME Inductive, FindsNoContainer PROVE Tells
  OBVIOUS
<1>1. Runs /\ container = "died" /\ container' = container /\ stop' = stop
  BY DEF FindsNoContainer
<1>2. PICK latency \in job.latencies : Took("RUNTIME_ERROR", latency, "lost")
  BY DEF FindsNoContainer
<1>3. "RUNTIME_ERROR" \in Verdicts /\ "lost" \in Deeds /\ "lost" \notin NoTime
  BY DEF Verdicts, Deeds, NoTime
<1>4. /\ Types /\ Stages /\ stage = "testing" /\ Len(results) < Len(job.tests) /\ job.by = "sandbox"
      /\ stop' \in BOOLEAN /\ clock \in Nat /\ clock <= Total /\ job \in Jobs
  BY <1>1, RunsFacts DEF Types
<1>5. latency \in Nat /\ clock + latency <= Total + Slice + Highest(Watchdog, latency)
  <2>1. latency \in Nat
    BY <1>4, JobFacts
  <2>2. Highest(Watchdog, latency) \in Nat /\ latency <= Highest(Watchdog, latency)
    BY <2>1, Constants, HighestIs
  <2> QED
    BY <1>4, <2>1, <2>2, Constants
<1>6. Appends("RUNTIME_ERROR", "lost")
  BY <1>2, <1>4 DEF Appends, Took
<1>7. ~ Undisturbed'
  BY <1>3, <1>4, <1>6, TestsAppended DEF Undisturbed
<1>8. FitsBlame("RUNTIME_ERROR", "lost") /\ FitsOutput("RUNTIME_ERROR", "lost")
  BY <1>7 DEF FitsBlame, FitsOutput
<1> QED
  BY <1>1, <1>2, <1>3, <1>4, <1>5, <1>8, SandboxTells

\* Docker's client is killed when the timeout and its overrun have passed.
LEMMA WatchdogTells == Inductive /\ WatchdogFires => Tells
<1> SUFFICES ASSUME Inductive, WatchdogFires PROVE Tells
  OBVIOUS
<1>1. /\ Runs /\ container = "up" /\ container' = "destroyed" /\ stop' = stop
      /\ Took("TIME_LIMIT_EXCEEDED", Timeout + Watchdog, "hung")
  BY DEF WatchdogFires
<1>2. "TIME_LIMIT_EXCEEDED" \in Verdicts \cap Faults /\ "hung" \in Deeds /\ "hung" \notin NoTime
      /\ "hung" \in Causes("TIME_LIMIT_EXCEEDED")
  BY DEF Verdicts, Deeds, NoTime, Faults, Causes
<1>3. /\ stage = "testing" /\ Len(results) < Len(job.tests) /\ job.by = "sandbox" /\ stop' \in BOOLEAN
      /\ clock \in Nat /\ Timeout \in Nat /\ clock + Timeout <= Total + Slice
  BY <1>1, RunsFacts DEF Types
<1>4. Timeout + Watchdog \in Nat /\ clock + (Timeout + Watchdog) <= Total + Slice + Highest(Watchdog, 0)
  BY <1>3, Constants, HighestIs
<1>5. FitsBlame("TIME_LIMIT_EXCEEDED", "hung") /\ FitsOutput("TIME_LIMIT_EXCEEDED", "hung")
  BY <1>2 DEF FitsBlame, FitsOutput
<1> QED
  BY <1>1, <1>2, <1>3, <1>4, <1>5, SandboxTells

LEMMA FloodsTells == Inductive /\ Floods => Tells
<1> SUFFICES ASSUME Inductive, Floods PROVE Tells
  OBVIOUS
<1>1. Runs /\ container = "up" /\ container' = "destroyed" /\ stop' = TRUE
  BY DEF Floods
<1>0. PICK pace \in job.paces : pace < Timeout /\ Took("OUTPUT_LIMIT_EXCEEDED", pace, "flooded")
  BY DEF Floods
<1>2. "OUTPUT_LIMIT_EXCEEDED" \in Verdicts \cap Faults /\ "flooded" \in Deeds /\ "flooded" \notin NoTime
      /\ "flooded" \in Causes("OUTPUT_LIMIT_EXCEEDED")
  BY DEF Verdicts, Deeds, NoTime, Faults, Causes
<1>3. /\ stage = "testing" /\ Len(results) < Len(job.tests) /\ job.by = "sandbox"
      /\ clock \in Nat /\ Timeout \in Nat /\ clock + Timeout <= Total + Slice /\ job \in Jobs
  BY <1>1, RunsFacts DEF Types
<1>4. pace \in Nat /\ clock + pace <= Total + Slice + Highest(Watchdog, 0)
  <2>1. pace \in Nat
    BY <1>3, JobFacts
  <2>2. clock + pace <= Total + Slice
    BY <1>0, <1>3, <2>1, Constants
  <2>3. Highest(Watchdog, 0) \in Nat
    BY Constants, HighestIs
  <2> QED
    BY <1>3, <2>1, <2>2, <2>3, Constants
<1>5. FitsBlame("OUTPUT_LIMIT_EXCEEDED", "flooded") /\ FitsOutput("OUTPUT_LIMIT_EXCEEDED", "flooded")
  BY <1>2 DEF FitsBlame, FitsOutput
<1> QED
  BY <1>0, <1>1, <1>2, <1>3, <1>4, <1>5, SandboxTells

\* A test is cut short of its limit only when the job has no time for all of it; and the counter
\* of the container tells of memory only where it ran out, in this test or one before.
LEMMA IsKilledTells == Inductive /\ IsKilled => Tells
<1> SUFFICES ASSUME Inductive, IsKilled PROVE Tells
  OBVIOUS
<1>0. Types
  BY DEF Inductive
<1>1. Runs /\ container = "up" /\ container' \in {container, "died"} /\ stop' = stop
  BY DEF IsKilled
<1>2. PICK pace, latency, counted, why :
        /\ pace \in job.paces /\ latency \in job.latencies /\ counted \in BOOLEAN
        /\ why \in {"out of memory", "exited 137", "lost", "time"}
        /\ counted => why = "out of memory" \/ RanOut
        /\ why = "time" => pace >= Timeout
        /\ Took(Killed(counted, Lowest(pace, Timeout) + latency), Lowest(pace, Timeout) + latency,
                IF why # "time" THEN why ELSE IF pace >= TimeLimit THEN "slow" ELSE "cut short")
  BY DEF IsKilled
<1>3. PICK taken : taken = Lowest(pace, Timeout) + latency
  OBVIOUS
<1>4. PICK v : v = Killed(counted, taken)
  OBVIOUS
<1>5. PICK what : what = IF why # "time" THEN why ELSE IF pace >= TimeLimit THEN "slow" ELSE "cut short"
  OBVIOUS
<1>6. /\ stage = "testing" /\ Len(results) < Len(job.tests) /\ job.by = "sandbox" /\ stop' \in BOOLEAN
      /\ clock \in Nat /\ clock <= Total /\ Timeout \in Nat /\ clock + Timeout <= Total + Slice
      /\ Timeout <= TimeLimit
      /\ clock <= Total - TimeLimit => Timeout = TimeLimit
  BY <1>1, RunsFacts DEF Types
<1>7. pace \in Nat /\ latency \in Nat /\ latency \in job.latencies
  <2>1. pace \in job.paces /\ latency \in job.latencies
    BY <1>2, Zenon
  <2> QED
    BY <1>1, <2>1, RunsFacts, JobFacts
<1>8. taken \in Nat /\ taken <= Timeout + latency /\ (pace >= Timeout => taken = Timeout + latency)
  BY <1>3, <1>6, <1>7 DEF Lowest
<1>9. clock + taken <= Total + Slice + Highest(Watchdog, latency)
  <2>1. Highest(Watchdog, latency) \in Nat /\ latency <= Highest(Watchdog, latency)
    BY <1>7, Constants, HighestIs
  <2> QED
    BY <1>6, <1>7, <1>8, <2>1, Constants
<1>10. v \in {"MEMORY_LIMIT_EXCEEDED", "TIME_LIMIT_EXCEEDED"} /\ (v = "TIME_LIMIT_EXCEEDED" => ~ counted)
  BY <1>4 DEF Killed
<1>11. what \in {"out of memory", "exited 137", "lost", "slow", "cut short"}
  BY <1>2, <1>5
<1>12. v \in Verdicts \cap Faults /\ v # "SKIPPED" /\ what \in Deeds /\ what \notin NoTime
  BY <1>10, <1>11 DEF Verdicts, Deeds, NoTime, Faults
<1>13. Took(v, taken, what)
  BY <1>2, <1>3, <1>4, <1>5
<1>14. ASSUME Undisturbed', why = "time"
       PROVE  \/ v = "MEMORY_LIMIT_EXCEEDED" /\ RanOut
              \/ v = "TIME_LIMIT_EXCEEDED" /\ what = "slow"
  <2>0. pace >= Timeout
    BY <1>2, <1>14, Zenon
  <2>1. clock' = clock + taken /\ clock' <= Total - TimeLimit
    <3>1. clock' = clock + taken /\ job' = job
      BY <1>13 DEF Took
    <3> QED
      BY <1>6, <1>14, <3>1 DEF Undisturbed
  <2>2. Timeout = TimeLimit
    BY <1>6, <1>8, <2>1, Constants
  <2>3. what = "slow"
    BY <1>5, <1>14, <2>0, <2>2, Zenon
  <2>4. 10 * taken >= 9 * TimeLimit
    <3>1. taken = TimeLimit + latency
      BY <1>8, <2>0, <2>2
    <3> QED
      BY <1>7, <3>1, Constants
  <2> QED
    <3>1. counted => RanOut
      BY <1>2, <1>14, Zenon
    <3> QED
      BY <1>4, <2>3, <2>4, <3>1 DEF Killed
<1>15. FitsBlame(v, what)
  <2>1. why \in {"out of memory", "exited 137"} => what \in Causes(v)
    BY <1>5, <1>10 DEF Causes
  <2>2. what = "slow" /\ v = "TIME_LIMIT_EXCEEDED" => what \in Causes(v)
    BY DEF Causes
  <2>3. why = "lost" => ~ Undisturbed'
    <3>1. Appends(v, what)
      BY <1>6, <1>13 DEF Appends, Took
    <3>2. did'[Len(results) + 1] = what /\ Len(results) + 1 \in 1 .. (Len(results) + 1)
      BY <1>0, <1>12, <3>1, TestsAppended
    <3>3. DOMAIN did' = 1 .. (Len(results) + 1)
      BY <1>0, <1>12, <3>1, TestsAppended
    <3> QED
      BY <1>5, <3>2, <3>3 DEF Undisturbed
  <2>4. why \in {"out of memory", "exited 137", "lost", "time"}
    BY <1>2, Zenon
  <2> QED
    BY <1>12, <1>14, <2>1, <2>2, <2>3, <2>4 DEF FitsBlame
<1>16. FitsOutput(v, what)
  BY <1>10, <1>11 DEF FitsOutput
<1>17. container' \in {container, "died", "destroyed"} /\ container' # "destroyed" /\ container # "destroyed"
  BY <1>1
<1> QED
  BY <1>1, <1>6, <1>7, <1>8, <1>9, <1>12, <1>13, <1>15, <1>16, <1>17, SandboxTells

\* The program ends by itself in time, and what it printed is compared, unless docker takes longer
\* than the judge allows for.
LEMMA EndsTells ==
  ASSUME Inductive, Runs, container = "up", NEW text, NEW what \in {"right", "wrong", "nothing", "talked"},
         Ends(text, what), FitsOutput(Compare(text), what)
  PROVE  Tells
<1>1. container' = container /\ stop' = stop
  BY DEF Ends
<1>2. PICK pace \in job.paces, latency \in job.latencies :
        /\ pace < Timeout
        /\ Took(IF pace + latency > TimeLimit + Allowance THEN "TIME_LIMIT_EXCEEDED" ELSE Compare(text),
                pace + latency, what)
  BY DEF Ends
<1>3. PICK v : v = IF pace + latency > TimeLimit + Allowance THEN "TIME_LIMIT_EXCEEDED" ELSE Compare(text)
  OBVIOUS
<1>4. /\ stage = "testing" /\ Len(results) < Len(job.tests) /\ job.by = "sandbox" /\ stop' \in BOOLEAN
      /\ Timeout \in Nat /\ Timeout <= TimeLimit
  BY <1>1, RunsFacts DEF Types
<1>5. /\ pace \in Nat /\ latency \in Nat /\ pace + latency \in Nat
      /\ clock + (pace + latency) <= Total + Slice + Highest(Watchdog, latency)
  BY <1>2, InTime
<1>6. v \in {"TIME_LIMIT_EXCEEDED", "EXECUTED", "ACCEPTED", "WRONG_ANSWER"}
  BY <1>3 DEF Compare
<1>7. /\ v \in Verdicts /\ v # "SKIPPED" /\ what \in Deeds /\ what \notin NoTime
      /\ v \in Faults => v = "TIME_LIMIT_EXCEEDED"
  BY <1>6 DEF Verdicts, Deeds, NoTime, Faults
<1>8. Took(v, pace + latency, what)
  BY <1>2, <1>3
<1>9. FitsBlame(v, what)
  <2>1. Undisturbed' => v # "TIME_LIMIT_EXCEEDED"
    <3>1. Undisturbed' => latency <= Allowance
      BY <1>8 DEF Undisturbed, Took
    <3>2. latency <= Allowance => ~ (pace + latency > TimeLimit + Allowance)
      BY <1>2, <1>4, <1>5, Constants
    <3>3. Compare(text) # "TIME_LIMIT_EXCEEDED"
      BY DEF Compare
    <3> QED
      BY <1>3, <3>1, <3>2, <3>3
  <2> QED
    BY <1>7, <2>1 DEF FitsBlame
<1>10. FitsOutput(v, what)
  <2>1. CASE v = "TIME_LIMIT_EXCEEDED"
    BY <2>1 DEF FitsOutput
  <2>2. CASE v = Compare(text)
    BY <2>2
  <2> QED
    BY <1>3, <2>1, <2>2
<1> HIDE <1>2
<1> QED
  BY <1>1, <1>4, <1>5, <1>7, <1>8, <1>9, <1>10, SandboxTells

\* Whether the text of a value is accepted is whether the value is right.
LEMMA ValueFits ==
  ASSUME Types, Len(results) < Len(job.tests), NEW value \in Returned, NEW v,
         job.expects => v \in {"ACCEPTED", "WRONG_ANSWER"},
         job.expects /\ job.type # "TreeNode" => v = Compare(Printed(<<value>>))
  PROVE  FitsOutput(v, IF IsRight(value) THEN "right" ELSE "wrong")
<1>1. job \in Jobs /\ Len(results) \in Nat
  BY DEF Types
<1>2. job.expects /\ job.type # "TreeNode" => v = IF IsRight(value) THEN "ACCEPTED" ELSE "WRONG_ANSWER"
  BY <1>1, ValueCompared
<1> QED
  BY <1>2 DEF FitsOutput, PassesNow

LEMMA NothingFits ==
  ASSUME Types, Len(results) < Len(job.tests), MayReturnNone, NEW v, job.expects => v = Compare(Printed(Nothing))
  PROVE  FitsOutput(v, "nothing")
<1>1. job \in Jobs /\ Len(results) \in Nat
  BY DEF Types
<1>2. job.expects => v = IF job.type \in Nullable \cup {"bool"} /\ Test = Empty(job.type)
                         THEN "ACCEPTED" ELSE "WRONG_ANSWER"
  BY <1>1, NothingCompared
<1> QED
  BY <1>2 DEF FitsOutput, PassesNow

LEMMA TalkFits ==
  ASSUME NEW v, job.expects => v \in {"ACCEPTED", "WRONG_ANSWER"}
  PROVE  FitsOutput(v, "talked")
  BY DEF FitsOutput, PassesNow

LEMMA Compares == \A text : Compare(text) \in (IF job.expects THEN {"ACCEPTED", "WRONG_ANSWER"} ELSE {"EXECUTED"})
  BY DEF Compare

LEMMA ReturnsTells == Inductive /\ Returns => Tells
<1> SUFFICES ASSUME Inductive, Returns PROVE Tells
  OBVIOUS
<1>1. Runs /\ container = "up"
  BY DEF Returns
<1>2. PICK value \in Returned : Ends(Printed(<<value>>), IF IsRight(value) THEN "right" ELSE "wrong")
  BY DEF Returns
<1>3. PICK what : what = IF IsRight(value) THEN "right" ELSE "wrong"
  OBVIOUS
<1>4. Types /\ Len(results) < Len(job.tests)
  BY <1>1, RunsFacts
<1>5. FitsOutput(Compare(Printed(<<value>>)), what)
  <2>1. job.expects => Compare(Printed(<<value>>)) \in {"ACCEPTED", "WRONG_ANSWER"}
    BY Compares
  <2> QED
    BY <1>3, <1>4, <2>1, ValueFits
<1>6. what \in {"right", "wrong", "nothing", "talked"} /\ Ends(Printed(<<value>>), what)
  BY <1>2, <1>3
<1> QED
  BY <1>1, <1>5, <1>6, EndsTells

LEMMA ReturnsNothingTells == Inductive /\ ReturnsNothing => Tells
<1> SUFFICES ASSUME Inductive, ReturnsNothing PROVE Tells
  OBVIOUS
<1>1. Runs /\ container = "up" /\ MayReturnNone /\ Ends(Printed(Nothing), "nothing")
  BY DEF ReturnsNothing
<1>2. Types /\ Len(results) < Len(job.tests)
  BY <1>1, RunsFacts
<1>3. FitsOutput(Compare(Printed(Nothing)), "nothing")
  BY <1>1, <1>2, NothingFits
<1> QED
  BY <1>1, <1>3, EndsTells

LEMMA TalksTells == Inductive /\ Talks => Tells
<1> SUFFICES ASSUME Inductive, Talks PROVE Tells
  OBVIOUS
<1>1. Runs /\ container = "up"
  BY DEF Talks
<1>2. \E text : Ends(text, "talked")
  BY DEF Talks
<1>3. PICK text : Ends(text, "talked")
  BY <1>2
<1>4. FitsOutput(Compare(text), "talked")
  <2>1. job.expects => Compare(text) \in {"ACCEPTED", "WRONG_ANSWER"}
    BY Compares
  <2> QED
    BY <2>1, TalkFits
<1> QED
  BY <1>1, <1>3, <1>4, EndsTells

\* What the service tells of a test takes no longer than the fallback waits.
LEMMA ServiceTells ==
  ASSUME Inductive, Asks, NEW v \in Verdicts, NEW what \in Deeds, Answers(v, what), v # "SKIPPED",
         FitsBlame(v, what), FitsOutput(v, what)
  PROVE  Tells
<1>1. /\ Types /\ job.by = "fallback" /\ UNCHANGED <<container, timeouts, stop>>
      /\ stage = "testing" /\ Len(results) < Len(job.tests)
  BY DEF Inductive, Asks, HasTest, Answers
<1>2. Appends(v, what)
  BY <1>1 DEF Answers, Appends
<1>3. clock' \in Nat /\ clock <= clock' /\ clock' <= clock + Patience
  BY <1>1, WaitsFor
<1>4. Goes
  BY <1>1, <1>3 DEF Types, Goes
<1>5. FitsTime(what)
  BY <1>1, <1>3 DEF FitsTime
<1>6. FitsStop(v)
  BY <1>1 DEF FitsStop
<1> QED
  BY <1>2, <1>4, <1>5, <1>6, Zenon DEF Tells, Fits

LEMMA TrimmedCompares == \A text : CompareTrimmed(text) \in {"ACCEPTED", "WRONG_ANSWER"}
  BY DEF CompareTrimmed, Compare

LEMMA FallbackTells == Inductive /\ (ServiceFails \/ ServiceRuns \/ HarnessFindsNoFile) => Tells
<1> SUFFICES ASSUME Inductive, ServiceFails \/ ServiceRuns \/ HarnessFindsNoFile PROVE Tells
  OBVIOUS
<1>1. /\ Asks /\ Types /\ job \in Jobs /\ Len(results) \in Nat /\ Len(results) < Len(job.tests) /\ job.by = "fallback"
  <2>1. Types
    BY DEF Inductive
  <2>2. Asks
    BY DEF ServiceFails, ServiceRuns, HarnessFindsNoFile
  <2> QED
    BY <2>1, <2>2 DEF Types, Asks, HasTest
<1>2. /\ {"INTERNAL_ERROR", "RUNTIME_ERROR", "TIME_LIMIT_EXCEEDED", "ACCEPTED", "WRONG_ANSWER"} \subseteq Verdicts
      /\ {"not run", "slow", "crashed", "out of memory", "exited 137", "nothing", "talked", "right", "wrong"} \subseteq Deeds
      /\ {"INTERNAL_ERROR", "ACCEPTED", "WRONG_ANSWER"} \cap Faults = {}
      /\ {"RUNTIME_ERROR", "TIME_LIMIT_EXCEEDED"} \subseteq Faults
      /\ {"slow", "out of memory", "exited 137"} \subseteq Causes("TIME_LIMIT_EXCEEDED")
      /\ {"crashed", "out of memory"} \subseteq Causes("RUNTIME_ERROR")
  BY DEF Verdicts, Deeds, Faults, Causes
<1>3. CASE ServiceFails
  <2>1. FitsBlame("INTERNAL_ERROR", "not run") /\ FitsOutput("INTERNAL_ERROR", "not run")
    BY <1>2 DEF FitsBlame, FitsOutput
  <2> QED
    BY <1>1, <1>2, <1>3, <2>1, ServiceTells DEF ServiceFails
<1>4. ASSUME Answers("RUNTIME_ERROR", "not run"), job.language \in Scripts PROVE Tells
  <2>1. ~ Undisturbed'
    BY <1>1, <1>4 DEF Undisturbed, Answers
  <2>2. FitsBlame("RUNTIME_ERROR", "not run") /\ FitsOutput("RUNTIME_ERROR", "not run")
    BY <2>1 DEF FitsBlame, FitsOutput
  <2> QED
    BY <1>1, <1>2, <1>4, <2>2, ServiceTells
<1>5. ASSUME NEW what \in {"slow", "out of memory", "exited 137"}, Answers("TIME_LIMIT_EXCEEDED", what) PROVE Tells
  <2>1. FitsBlame("TIME_LIMIT_EXCEEDED", what) /\ FitsOutput("TIME_LIMIT_EXCEEDED", what)
    BY <1>2 DEF FitsBlame, FitsOutput
  <2> QED
    BY <1>1, <1>2, <1>5, <2>1, ServiceTells
<1>6. ASSUME NEW what \in {"crashed", "out of memory"}, Answers("RUNTIME_ERROR", what) PROVE Tells
  <2>1. FitsBlame("RUNTIME_ERROR", what) /\ FitsOutput("RUNTIME_ERROR", what)
    BY <1>2 DEF FitsBlame, FitsOutput
  <2> QED
    BY <1>1, <1>2, <1>6, <2>1, ServiceTells
<1>7. ASSUME NEW v \in {"ACCEPTED", "WRONG_ANSWER"}, NEW what \in {"nothing", "talked", "right", "wrong"},
             Answers(v, what), FitsOutput(v, what)
      PROVE  Tells
  <2>1. FitsBlame(v, what)
    BY <1>2 DEF FitsBlame
  <2>2. v \in Verdicts /\ v # "SKIPPED" /\ what \in Deeds
    BY <1>2
  <2> QED
    BY <1>1, <1>7, <2>1, <2>2, ServiceTells
<1>8. ASSUME NEW text, Answers(CompareTrimmed(text), "talked") PROVE Tells
  <2>1. CompareTrimmed(text) \in {"ACCEPTED", "WRONG_ANSWER"}
    BY TrimmedCompares
  <2>2. FitsOutput(CompareTrimmed(text), "talked")
    BY <2>1, TalkFits
  <2> QED
    BY <1>7, <1>8, <2>1, <2>2
<1>9. ASSUME MayReturnNone, job.language \notin Scripts, Answers(CompareTrimmed(Printed(Nothing)), "nothing") PROVE Tells
  <2>1. job.expects => CompareTrimmed(Printed(Nothing)) = Compare(Printed(Nothing))
    BY <1>1, <1>9, NothingTrimmed DEF CompareTrimmed
  <2>2. FitsOutput(CompareTrimmed(Printed(Nothing)), "nothing")
    BY <1>1, <1>9, <2>1, NothingFits
  <2> QED
    BY <1>7, <1>9, <2>2, TrimmedCompares
<1>10. ASSUME NEW value \in Returned,
              Answers(CompareTrimmed(Printed(<<value>>)), IF IsRight(value) THEN "right" ELSE "wrong")
       PROVE  Tells
  <2>1. PICK what : what = IF IsRight(value) THEN "right" ELSE "wrong"
    OBVIOUS
  <2>2. PICK v : v = CompareTrimmed(Printed(<<value>>))
    OBVIOUS
  <2>3. v \in {"ACCEPTED", "WRONG_ANSWER"}
    BY <2>2, TrimmedCompares
  <2>4. job.expects /\ job.type # "TreeNode" => v = Compare(Printed(<<value>>))
    BY <1>1, <2>2, ValueTrimmed DEF CompareTrimmed
  <2>5. FitsOutput(v, what)
    BY <1>1, <2>1, <2>3, <2>4, ValueFits
  <2>6. what \in {"nothing", "talked", "right", "wrong"} /\ Answers(v, what)
    BY <1>10, <2>1, <2>2
  <2> QED
    BY <1>7, <2>3, <2>5, <2>6
<1>11. CASE ServiceRuns
  <2>1. job.language \notin Scripts
    BY <1>11 DEF ServiceRuns
  <2>2. \/ \E what \in {"slow", "out of memory", "exited 137"} : Answers("TIME_LIMIT_EXCEEDED", what)
        \/ \E what \in {"crashed", "out of memory"} : Answers("RUNTIME_ERROR", what)
        \/ MayReturnNone /\ Answers(CompareTrimmed(Printed(Nothing)), "nothing")
        \/ \E text : Answers(CompareTrimmed(text), "talked")
        \/ \E value \in Returned :
              Answers(CompareTrimmed(Printed(<<value>>)), IF IsRight(value) THEN "right" ELSE "wrong")
    BY <1>11, Zenon DEF ServiceRuns
  <2> QED
    BY <1>5, <1>6, <1>8, <1>9, <1>10, <2>1, <2>2
<1>12. CASE HarnessFindsNoFile
  <2>1. job.language \in Scripts /\ (Answers("RUNTIME_ERROR", "not run") \/ \E text : Answers(CompareTrimmed(text), "talked"))
    BY <1>12, Zenon DEF HarnessFindsNoFile
  <2> QED
    BY <1>4, <1>8, <2>1
<1> QED
  BY <1>3, <1>11, <1>12

-----------------------------------------------------------------------------
(* The theorems.                                                           *)

LEMMA StepStays == Inductive /\ [Next]_vars => Inductive'
<1> SUFFICES ASSUME Inductive, [Next]_vars PROVE Inductive'
  OBVIOUS
<1>1. CASE Create \/ Compile \/ ContainerDies \/ FallbackStarts
  BY <1>1, QuietSteps
<1>14. CASE DockerFails
  BY <1>14, ThrownStays
<1>15. CASE Talks
  BY <1>15, TalksTells, TestStays
<1>2. CASE CompileFails \/ ServiceRejects
  BY <1>2, Rejections
<1>3. CASE Skip
  BY <1>3, SkipTells, TestStays
<1>4. CASE Returns
  BY <1>4, ReturnsTells, TestStays
<1>5. CASE ReturnsNothing
  BY <1>5, ReturnsNothingTells, TestStays
<1>6. CASE Crashes
  BY <1>6, CrashesTells, TestStays
<1>7. CASE FindsNoContainer
  BY <1>7, FindsNoContainerTells, TestStays
<1>8. CASE IsKilled
  BY <1>8, IsKilledTells, TestStays
<1>9. CASE WatchdogFires
  BY <1>9, WatchdogTells, TestStays
<1>10. CASE Floods
  BY <1>10, FloodsTells, TestStays
<1>11. CASE ServiceFails \/ ServiceRuns \/ HarnessFindsNoFile
  BY <1>11, FallbackTells, TestStays
<1>12. CASE Finish
  BY <1>12, FinishStays
<1>13. CASE UNCHANGED vars
  BY <1>13, Stutters
<1> QED
  BY <1>1, <1>2, <1>3, <1>4, <1>5, <1>6, <1>7, <1>8, <1>9, <1>10, <1>11, <1>12, <1>13, <1>14, <1>15 DEF Next

\* All of the above at once: what a step that tells of a test, or of the job, leaves true
\* (judge of judge.ts, runFallbackJudge of fallback-judge.ts).
THEOREM InductiveInvariant == Spec => []Inductive
  BY Initially, StepStays, PTL DEF Spec

\* The tests of a job hold the worker no longer than the job's total time, one slice and what
\* docker adds to the last of them, whatever the programs do (the timeout of a test and the check
\* of the time before each, judge.ts); and the fallback no longer than it waits for the service in
\* each test (fallback-judge.ts).
THEOREM TimeIsBounded == Spec => []TotalTimeBounded
<1>1. Inductive => TotalTimeBounded
  BY DEF Inductive
<1> QED
  BY <1>1, InductiveInvariant, PTL

\* In a job that nothing disturbs, neither a test nor the job is told of a fault that no test of
\* the candidate's had (judge of judge.ts, summarizeVerdict of core/judge).
THEOREM NoBlameWithoutCause == Spec => []BlameHasCause
<1>1. ASSUME Inductive, Undisturbed, verdict \in Faults PROVE \E i \in DOMAIN did : did[i] \in Causes(verdict)
  <2>1. Types /\ Stages /\ SkippedAfterFault /\ MemoryTold /\ CauseTold /\ Summarized
    BY <1>1 DEF Inductive
  <2>2. verdict \notin {"none", "COMPILATION_ERROR", "ACCEPTED"} /\ Good \cap Faults = {}
    BY <1>1 DEF Faults, Good
  <2>3. Sums(results, verdict)
    BY <2>1, <2>2 DEF Stages, Summarized
  <2>4. PICK i \in DOMAIN results :
          /\ results[i] \notin Good /\ \A k \in 1 .. i - 1 : results[k] \in Good
          /\ verdict = IF results[i] = "SKIPPED" THEN "TIME_LIMIT_EXCEEDED" ELSE results[i]
    BY <2>2, <2>3 DEF Sums
  <2>5. job.by = "fallback" \/ clock <= Total
    <3>1. job.by \in {"sandbox", "fallback"}
      BY <2>1, JobFacts DEF Types
    <3> QED
      BY <1>1, <2>1, <3>1, Constants DEF Undisturbed, Types
  <2>6. results[i] # "SKIPPED"
    BY <2>1, <2>2, <2>4, <2>5 DEF SkippedAfterFault
  <2>7. verdict = results[i]
    BY <2>4, <2>6
  <2>8. \A k \in 1 .. i - 1 : did[k] # "out of memory"
    <3>1. DOMAIN did = DOMAIN results /\ DOMAIN results = 1 .. Len(results) /\ Len(results) \in Nat
      BY <2>1 DEF Types
    <3>2. \A k \in 1 .. i - 1 : k \in DOMAIN did
      BY <2>4, <3>1
    <3> QED
      BY <2>1, <2>2, <2>4, <3>2 DEF MemoryTold
  <2>9. did[i] \in Causes(results[i])
    BY <1>1, <2>1, <2>7, <2>8 DEF CauseTold
  <2>10. i \in DOMAIN did
    BY <2>1, <2>4 DEF Types
  <2> QED
    BY <2>7, <2>9, <2>10
<1>2. Inductive => BlameHasCause
  BY <1>1 DEF Inductive, CauseTold, BlameHasCause
<1> QED
  BY <1>2, InductiveInvariant, PTL

\* A job is accepted only if each of its tests was accepted, or had nothing to compare its output
\* with (summarizeVerdict of core/judge); and it has a verdict only once it was judged.
THEOREM AcceptedInEveryTest ==
    Spec => [](verdict = "ACCEPTED" =>
                 /\ stage = "judged" /\ Len(results) = Len(job.tests)
                 /\ \A i \in DOMAIN results : results[i] \in Good)
<1>1. ASSUME Inductive, verdict = "ACCEPTED"
      PROVE  /\ stage = "judged" /\ Len(results) = Len(job.tests)
             /\ \A i \in DOMAIN results : results[i] \in Good
  <2>1. stage = "judged" /\ Len(results) = Len(job.tests) /\ Sums(results, verdict)
    BY <1>1 DEF Inductive, Stages, Summarized
  <2> QED
    BY <1>1, <2>1 DEF Sums, Good
<1> QED
  BY <1>1, InductiveInvariant, PTL

\* For every type but trees: a test of a program that prints nothing of its own is accepted if and only
\* if what it returned, taken for the declared type as its language converts it, is right, whatever the
\* values, the language, the comparator and the second argument: nothing is lost between encodeInput,
\* the harness's readers and printers, the fallback's trim, and outputsMatch (codec.ts, compare.ts, the
\* five harnesses, fallback-judge.ts).
THEOREM JudgedRight == Spec => [](job.type # "TreeNode" => OutputsJudgedRight)
<1>1. ASSUME Inductive, job.type # "TreeNode", job.expects, verdict = "ACCEPTED", NEW i \in DOMAIN job.tests
      PROVE  Passes(i) \/ did[i] = "talked"
  <2>1. Len(results) = Len(job.tests) /\ Sums(results, verdict)
    BY <1>1 DEF Inductive, Stages, Summarized
  <2>2. \A k \in DOMAIN results : results[k] \in Good
    BY <1>1, <2>1 DEF Sums, Good
  <2>3. i \in DOMAIN results
    <3>1. DOMAIN job.tests = 1 .. Len(job.tests)
      BY <1>1, JobFacts DEF Inductive, Types
    <3>2. DOMAIN results = 1 .. Len(results)
      BY <1>1 DEF Inductive, Types
    <3> QED
      BY <1>1, <2>1, <3>1, <3>2
  <2>4. results[i] = "ACCEPTED"
    BY <1>1, <2>2, <2>3 DEF Inductive, OutputTold, Good
  <2> QED
    BY <1>1, <2>3, <2>4 DEF Inductive, OutputTold
<1>2. Inductive => (job.type # "TreeNode" => OutputsJudgedRight)
  <2>1. SUFFICES ASSUME Inductive, job.type # "TreeNode", job.expects
                 PROVE  \A i \in DOMAIN results :
                          /\ results[i] = "ACCEPTED" => Passes(i) \/ did[i] = "talked"
                          /\ results[i] = "WRONG_ANSWER" => did[i] \in {"wrong", "nothing", "talked"} /\ ~ Passes(i)
                          /\ did[i] \in {"right", "wrong", "nothing"} =>
                                results[i] \in {"ACCEPTED", "WRONG_ANSWER", "TIME_LIMIT_EXCEEDED"}
    BY <1>1 DEF OutputsJudgedRight
  <2> QED
    BY <2>1 DEF Inductive, OutputTold
<1> QED
  BY <1>2, InductiveInvariant, PTL
=============================================================================
