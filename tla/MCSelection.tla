---------------------------- MODULE MCSelection ----------------------------
(***************************************************************************)
(* Interviews of every mode: every topic of the coding problems with two   *)
(* problems, longer ones on few topics, and histories in which a topic has *)
(* been used up.                                                           *)
(***************************************************************************)
EXTENDS Selection

Setup(mode, minutes, difficulty, topics) ==
    [mode |-> mode, minutes |-> minutes, difficulty |-> difficulty, topics |-> topics,
     adaptive |-> TRUE, useAi |-> FALSE, resume |-> FALSE, requested |-> "none", seen |-> {}]

About(topic) == { p.id : p \in { p \in PROBLEMS : topic \in TopicsOf(p) } }

\* Two coding problems, on every topic, with and without a history that has used it up.
CodingInterviews ==
    UNION { { [Setup("DSA", 45, difficulty, {topic}) EXCEPT !.seen = seen] :
                difficulty \in {"EASY", "MEDIUM", "HARD"}, seen \in {{}, About(topic)} } :
            topic \in TOPICS }

\* Three problems on a topic of four: it is used up within the interview.
LongCodingInterviews ==
    { [Setup("DSA", 90, "MEDIUM", topics) EXCEPT !.useAi = ai, !.requested = requested] :
        topics \in {{"backtracking"}, {"sliding-window"}, {"trees", "backtracking"}},
        ai \in BOOLEAN, requested \in {"none", "two-sum"} }

\* Four and six technical questions on a topic of three or four.
TechnicalInterviews ==
    { [Setup("TECHNICAL", 45, difficulty, topics) EXCEPT !.resume = resume] :
        difficulty \in {"EASY", "MEDIUM"},
        topics \in {{"web"}, {"databases"}, {"web", "security"}}, resume \in BOOLEAN }
    \cup { [Setup("TECHNICAL", 60, "EASY", {"databases"}) EXCEPT !.adaptive = FALSE] }

\* Three adaptive questions, and six at one level, of which there are four.
BehavioralInterviews ==
    { [Setup("BEHAVIORAL", 30, "EASY", {}) EXCEPT !.resume = resume] : resume \in BOOLEAN }
    \cup { [Setup("BEHAVIORAL", 90, "EASY", {}) EXCEPT !.adaptive = FALSE] }

MixedInterviews ==
    { [Setup("MIXED", minutes, "EASY", {"sliding-window", "web"}) EXCEPT !.resume = TRUE] :
        minutes \in {30, 45, 60, 90} }

MCInterviews ==
    UNION { CodingInterviews, LongCodingInterviews, TechnicalInterviews, BehavioralInterviews,
            MixedInterviews }
=============================================================================
