---------------------------- MODULE QuestionBank ----------------------------
(***************************************************************************)
(* What an interview can ask, and how the bank picks from it               *)
(* (problem-bank/src/index.ts): the coding problems of ProblemCatalog, the *)
(* technical questions and the behavioral ones.  The wording, the key      *)
(* points and the follow-ups of a question are left out: what matters is   *)
(* which question it is, how hard, and what it is about.                   *)
(*                                                                         *)
(* A pick at random is any member of the pool it is drawn from.            *)
(***************************************************************************)
EXTENDS Integers, Sequences, ProblemCatalog

\* Questions about one topic, each given by its id and its level.
Asking(topic, questions) ==
    { [id |-> q[1], difficulty |-> q[2], topics |-> <<topic>>] :
        q \in { questions[i] : i \in DOMAIN questions } }

DataStructuresQuestions ==
    Asking("data-structures", << <<"ds-array-vs-linked-list", "EASY">>, <<"ds-hash-table", "MEDIUM">>, <<"ds-heap", "MEDIUM">>, <<"ds-bst-balance", "HARD">> >>)

AlgorithmsQuestions ==
    Asking("algorithms", << <<"algo-big-o", "EASY">>, <<"algo-quicksort", "MEDIUM">>, <<"algo-dynamic-programming", "MEDIUM">>, <<"algo-graph-shortest-path", "HARD">> >>)

OperatingSystemsQuestions ==
    Asking("operating-systems", << <<"os-process-thread", "EASY">>, <<"os-virtual-memory", "MEDIUM">>, <<"os-deadlock", "MEDIUM">>, <<"os-scheduling", "HARD">> >>)

NetworkingQuestions ==
    Asking("networking", << <<"net-tcp-udp", "EASY">>, <<"net-what-happens-url", "MEDIUM">>, <<"net-http2-websockets", "HARD">> >>)

DatabasesQuestions ==
    Asking("databases", << <<"db-indexes", "EASY">>, <<"db-acid-isolation", "MEDIUM">>, <<"db-sql-vs-nosql", "MEDIUM">>, <<"db-sharding", "HARD">> >>)

SystemDesignQuestions ==
    Asking("system-design", << <<"sd-url-shortener", "MEDIUM">>, <<"sd-rate-limiter", "MEDIUM">>, <<"sd-chat-system", "HARD">>, <<"sd-caching", "EASY">> >>)

OopDesignQuestions ==
    Asking("oop-design", << <<"oop-principles", "EASY">>, <<"oop-solid", "MEDIUM">>, <<"oop-design-patterns", "HARD">> >>)

WebQuestions ==
    Asking("web", << <<"web-rest", "EASY">>, <<"web-auth", "MEDIUM">>, <<"web-rendering", "HARD">> >>)

ConcurrencyQuestions ==
    Asking("concurrency", << <<"conc-race-conditions", "EASY">>, <<"conc-event-loop", "MEDIUM">>, <<"conc-distributed-locks", "HARD">> >>)

SecurityQuestions ==
    Asking("security", << <<"sec-xss-csrf", "MEDIUM">>, <<"sec-password-storage", "EASY">>, <<"sec-sandboxing", "HARD">> >>)

TECHNICAL_QUESTIONS ==
    UNION { DataStructuresQuestions, AlgorithmsQuestions, OperatingSystemsQuestions,
            NetworkingQuestions, DatabasesQuestions, SystemDesignQuestions, OopDesignQuestions,
            WebQuestions, ConcurrencyQuestions, SecurityQuestions }

\* Their topic is the competency they ask for.
BEHAVIORAL_QUESTIONS ==
    UNION { Asking("teamwork", << <<"bh-team-project", "EASY">>, <<"bh-helped-teammate", "MEDIUM">> >>),
            Asking("conflict", << <<"bh-disagreement", "MEDIUM">>, <<"bh-difficult-person", "HARD">> >>),
            Asking("ownership", << <<"bh-ownership-bug", "EASY">>, <<"bh-ownership-beyond", "MEDIUM">> >>),
            Asking("failure", << <<"bh-failure", "MEDIUM">>, <<"bh-deadline-missed", "HARD">> >>),
            Asking("leadership", << <<"bh-lead-initiative", "MEDIUM">>, <<"bh-mentor", "HARD">> >>),
            Asking("ambiguity", << <<"bh-ambiguous-task", "MEDIUM">>, <<"bh-new-technology", "EASY">> >>),
            Asking("communication", << <<"bh-explain-technical", "EASY">>, <<"bh-feedback", "MEDIUM">> >>),
            Asking("prioritization", << <<"bh-priorities", "MEDIUM">>, <<"bh-tradeoff", "HARD">> >>) }

-----------------------------------------------------------------------------
TopicsOf(item) == { item.topics[i] : i \in DOMAIN item.topics }

IsAbout(item, topics) == topics = {} \/ TopicsOf(item) \cap topics # {}

\* The first of the pools that is not empty, with its place in the list.
FirstFilled(tiers) ==
    LET n == CHOOSE n \in DOMAIN tiers : tiers[n] # {} /\ \A m \in 1 .. n - 1 : tiers[m] = {}
    IN  [pool |-> tiers[n], tier |-> n]

\* Both banks look for level and topic, then for the topic, then for the level, then for anything.
TiersOf(available, difficulty, topics) ==
    LET matching == { q \in available : IsAbout(q, topics) }
        level == { q \in available : q.difficulty = difficulty }
    IN  << matching \cap level, matching, level, available >>

SelectProblem(difficulty, topics, exclude) ==
    FirstFilled(TiersOf({ p \in PROBLEMS : p.id \notin exclude }, difficulty, topics))

\* Unlike a problem, a question may be asked again when all have been asked.
PickTiered(items, difficulty, topics, exclude) ==
    FirstFilled(Append(TiersOf({ q \in items : q.id \notin exclude }, difficulty, topics), items))

SelectTechnicalQuestion(difficulty, topics, exclude) ==
    PickTiered(TECHNICAL_QUESTIONS, difficulty, topics, exclude)

SelectBehavioralQuestion(difficulty, exclude) ==
    PickTiered(BEHAVIORAL_QUESTIONS, difficulty, {}, exclude)
=============================================================================
