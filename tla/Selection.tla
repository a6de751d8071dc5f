----------------------------- MODULE Selection -----------------------------
(***************************************************************************)
(* How an interview chooses its questions (engine's questions.ts and the   *)
(* rules of core/interview): the plan of the mode, the level and the topic *)
(* that follow from the last question of the same kind, the question drawn *)
(* from the bank, from the candidate's resume or generated by the AI.      *)
(*                                                                         *)
(* An interview is a record: its mode, minutes, difficulty and topics,     *)
(* whether it is adaptive, uses AI problems and has a confirmed resume,    *)
(* the problem it was started for ("none" if none), and the problems among *)
(* the candidate's last twenty questions of earlier interviews.            *)
(***************************************************************************)
EXTENDS QuestionBank, FiniteSets

CONSTANT Interviews

\* A room has a mode and a length, and the history read for it at most twenty rows (questions.ts:83).
ASSUME SelectionAssumption ==
    \A i \in Interviews :
        /\ i.mode \in {"DSA", "TECHNICAL", "BEHAVIORAL", "MIXED"} /\ i.minutes \in Nat
        /\ IsFiniteSet(i.seen) /\ Cardinality(i.seen) <= 20

VARIABLES
    interview,      \* the interview
    asked,          \* its questions so far, oldest first
    open,           \* the last question has not been closed yet
    outcome         \* kind -> what outcomeOf reads of the last closed question of that kind

vars == <<interview, asked, open, outcome>>

Kinds == {"CODING", "TECHNICAL", "BEHAVIORAL"}

-----------------------------------------------------------------------------
(***************************************************************************)
(* The rules.                                                              *)
(***************************************************************************)

Times(kind, n) == [i \in 1 .. n |-> kind]

QuestionPlan(mode, minutes) ==
    LET written == IF minutes >= 90 THEN 6 ELSE IF minutes >= 60 THEN 5 ELSE IF minutes >= 45 THEN 4 ELSE 3
        problems == IF minutes >= 90 THEN 3 ELSE IF minutes >= 45 THEN 2 ELSE 1
    IN  CASE mode = "DSA" -> Times("CODING", problems)
          [] mode \in {"TECHNICAL", "BEHAVIORAL"} -> Times(mode, written)
          [] mode = "MIXED" ->
                IF minutes >= 90 THEN <<"CODING", "TECHNICAL", "CODING", "TECHNICAL", "BEHAVIORAL">>
                ELSE IF minutes >= 60 THEN <<"CODING", "TECHNICAL", "TECHNICAL", "BEHAVIORAL">>
                ELSE IF minutes >= 45 THEN <<"CODING", "TECHNICAL", "BEHAVIORAL">>
                ELSE <<"CODING", "TECHNICAL">>

DIFFICULTIES == <<"EASY", "MEDIUM", "HARD">>

Rank(difficulty) == CHOOSE i \in DOMAIN DIFFICULTIES : DIFFICULTIES[i] = difficulty

Moved(difficulty, delta) ==
    LET i == Rank(difficulty) + delta
    IN  DIFFICULTIES[IF i < 1 THEN 1 ELSE IF i > 3 THEN 3 ELSE i]

\* Without a submission a coding question has no share of passed tests: "none" of 0.
NothingToJudge(last) == last.kind = "CODING" /\ last.of = 0

Strong(last) ==
    /\ ~ last.skipped /\ ~ NothingToJudge(last)
    /\ IF last.kind = "CODING" THEN last.share = last.of ELSE 10 * last.share >= 6 * last.of

Weak(last) ==
    \/ last.skipped
    \/ /\ ~ NothingToJudge(last)
       /\ IF last.kind = "CODING" THEN 2 * last.share < last.of ELSE 4 * last.share < last.of

Decided(difficulty, revisit) == [difficulty |-> difficulty, revisit |-> revisit]

DecideNextDifficulty(base, last) ==
    IF last = <<>> THEN Decided(base, "none")
    ELSE IF Weak(last[1]) THEN Decided(Moved(last[1].difficulty, -1), last[1].topic)
    ELSE IF Strong(last[1]) THEN Decided(Moved(last[1].difficulty, 1), "none")
    ELSE Decided(last[1].difficulty, "none")

\* MUTANT of ChooseTopic: a topic is revisited only if it was asked for.
ChooseAskedFor(requested, used, revisit, universe) ==
    IF revisit \in requested THEN {revisit}
    ELSE IF requested \subseteq used THEN requested ELSE requested \ used

ChooseTopic(requested, used, revisit, universe) ==
    IF revisit \in universe THEN {revisit}
    ELSE IF requested \subseteq used THEN requested ELSE requested \ used

TOPICS == UNION { TopicsOf(p) : p \in PROBLEMS }

TECHNICAL_TOPICS == UNION { TopicsOf(q) : q \in TECHNICAL_QUESTIONS }

-----------------------------------------------------------------------------
(***************************************************************************)
(* The next question.                                                      *)
(***************************************************************************)
Plan == QuestionPlan(interview.mode, interview.minutes)

Kind == Plan[Len(asked) + 1]

SameKind == { asked[i] : i \in { k \in DOMAIN asked : asked[k].kind = Kind } }

Decision ==
    IF interview.adaptive THEN DecideNextDifficulty(interview.difficulty, outcome[Kind])
    ELSE Decided(interview.difficulty, "none")

Wanted(universe) ==
    ChooseTopic(interview.topics \cap universe, { q.topic : q \in SameKind }, Decision.revisit, universe)

Due(kind) == ~ open /\ Len(asked) < Len(Plan) /\ Kind = kind

Question(source, id, topic, difficulty) ==
    [kind |-> Kind, source |-> source, id |-> id, topic |-> topic, difficulty |-> difficulty]

Ask(question) ==
    /\ asked' = Append(asked, question)
    /\ open' = TRUE
    /\ UNCHANGED <<interview, outcome>>

FromBank(item, topic) == Question("BANK", item.id, topic, item.difficulty)

Requested == interview.requested # "none" /\ SameKind = {}

AskRequestedProblem ==
    /\ Due("CODING") /\ Requested
    /\ \E p \in PROBLEMS : p.id = interview.requested /\ Ask(FromBank(p, p.topics[1]))

\* A problem of the AI that its reference solution has validated.
AskGeneratedProblem ==
    /\ Due("CODING") /\ ~ Requested /\ interview.useAi
    /\ LET topics == Wanted(TOPICS)
       IN  \E topic \in IF topics = {} THEN {"none"} ELSE topics :
               Ask(Question("AI_GENERATED", "none", topic, Decision.difficulty))

InInterview == { q.id : q \in SameKind }

\* MUTANT of ProblemPool: the second search forgets this interview with the earlier ones.
ProblemPoolForgetful(topics) ==
    LET fresh == SelectProblem(Decision.difficulty, topics, InInterview \cup interview.seen)
        relaxed == SelectProblem(Decision.difficulty, topics, {})
    IN  IF fresh.tier # 1 /\ relaxed.tier = 1 THEN relaxed.pool ELSE fresh.pool

\* Problems of earlier interviews come back only where nothing else has the level and the topic.
ProblemPool(topics) ==
    LET fresh == SelectProblem(Decision.difficulty, topics, InInterview \cup interview.seen)
        relaxed == SelectProblem(Decision.difficulty, topics, InInterview)
    IN  IF fresh.tier # 1 /\ relaxed.tier = 1 THEN relaxed.pool ELSE fresh.pool

TopicOf(p, topics) ==
    LET hits == { i \in DOMAIN p.topics : p.topics[i] \in topics }
    IN  p.topics[IF hits = {} THEN 1 ELSE CHOOSE i \in hits : \A k \in hits : i <= k]

\* Also when the AI or the executor is not there, or the AI's problem was rejected.
AskBankProblem ==
    /\ Due("CODING") /\ ~ Requested
    /\ LET topics == Wanted(TOPICS)
       IN  \E p \in ProblemPool(topics) : Ask(FromBank(p, TopicOf(p, topics)))

NoResumeYet == interview.resume /\ ~ \E q \in SameKind : q.source = "RESUME"

\* The AI names the topic of its question.
AskAboutResume ==
    /\ Due("TECHNICAL") /\ NoResumeYet
    /\ \E topic \in {"experience", "databases"} :
           Ask(Question("RESUME", "none", topic, Decision.difficulty))

AskTechnical ==
    /\ Due("TECHNICAL")
    /\ LET topics == Wanted(TECHNICAL_TOPICS)
       IN  \E q \in SelectTechnicalQuestion(Decision.difficulty, topics, InInterview).pool :
               Ask(FromBank(q, q.topics[1]))

\* MUTANT of ResumeAllowed: the first behavioral question may be about the resume too.
ResumeFromTheStart == NoResumeYet

ResumeAllowed == NoResumeYet /\ SameKind # {}

AskAboutExperience ==
    /\ Due("BEHAVIORAL") /\ ResumeAllowed
    /\ Ask(Question("RESUME", "none", "experience", Decision.difficulty))

AskBehavioral ==
    /\ Due("BEHAVIORAL")
    /\ \E q \in SelectBehavioralQuestion(Decision.difficulty, InInterview).pool :
           Ask(FromBank(q, q.topics[1]))

(***************************************************************************)
(* The question is closed, and leaves what outcomeOf reads of it: whether  *)
(* it was skipped, and the share of the tests that the best submission     *)
(* passed, or of the key points that the answer mentions.                  *)
(***************************************************************************)
Shares(kind) == IF kind = "CODING" THEN { <<0, 0>>, <<0, 2>>, <<1, 2>>, <<2, 2>> }
                                   ELSE { <<0, 4>>, <<1, 4>>, <<3, 4>> }

Close ==
    /\ open
    /\ LET q == asked[Len(asked)]
       IN  \E skipped \in BOOLEAN, share \in Shares(q.kind) :
               outcome' = [outcome EXCEPT ![q.kind] =
                   << [kind |-> q.kind, difficulty |-> q.difficulty, topic |-> q.topic,
                       skipped |-> skipped, share |-> share[1], of |-> share[2]] >>]
    /\ open' = FALSE
    /\ UNCHANGED <<interview, asked>>

Init ==
    /\ interview \in Interviews
    /\ asked = <<>>
    /\ open = FALSE
    /\ outcome = [kind \in Kinds |-> <<>>]

Next ==
    \/ AskRequestedProblem \/ AskGeneratedProblem \/ AskBankProblem
    \/ AskAboutResume \/ AskTechnical
    \/ AskAboutExperience \/ AskBehavioral
    \/ Close

Spec == Init /\ [][Next]_vars

-----------------------------------------------------------------------------
(***************************************************************************)
(* No interview asks a question of the bank twice, whatever was asked in   *)
(* earlier ones and however few questions its topics have.                 *)
(***************************************************************************)
NeverRepeats ==
    \A i, k \in DOMAIN asked : asked[i].id = asked[k].id /\ asked[i].id # "none" => i = k

\* An interview has at most one question about the resume, whatever its mode (questions.ts:200).
OneResumeQuestion ==
    \A i, k \in DOMAIN asked : asked[i].source = "RESUME" /\ asked[k].source = "RESUME" => i = k

(***************************************************************************)
(* After a weak answer, an adaptive interview comes back to its topic with *)
(* the next question of the kind that is taken from the bank, unless it    *)
(* has asked everything about it, or, for a coding problem, everything     *)
(* about it has been asked in this interview or in the earlier ones.       *)
(***************************************************************************)
Items(kind) == IF kind = "CODING" THEN PROBLEMS ELSE TECHNICAL_QUESTIONS

Unused(kind, topic) ==
    { q \in Items(kind) : topic \in TopicsOf(q) /\ q.id \notin InInterview
                          /\ (kind = "CODING" => q.id \notin interview.seen) }

RevisitsWeakTopic ==
    [][ LET q == asked'[Len(asked')]
        IN  /\ Len(asked') > Len(asked)
            /\ interview.adaptive /\ q.kind # "BEHAVIORAL" /\ q.source = "BANK"
            /\ outcome[q.kind] # <<>>
            => LET last == outcome[q.kind][1]
               IN  Weak(last) /\ Unused(q.kind, last.topic) # {} => q.topic = last.topic ]_vars
=============================================================================
