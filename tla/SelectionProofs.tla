-------------------------- MODULE SelectionProofs --------------------------
(***************************************************************************)
(* Proofs about Selection, for any interviews: no question of the bank is  *)
(* asked twice, at most one is about the resume, and a weak answer brings  *)
(* its topic back.  They need of the bank that its ids tell its questions  *)
(* apart and that it has more of them than an interview and the last       *)
(* twenty questions of the others can use up; and of the picks that the    *)
(* pool they draw from is the first that is not empty.                     *)
(***************************************************************************)
EXTENDS Selection, FiniteSetTheorems, TLAPS

-----------------------------------------------------------------------------
(***************************************************************************)
(* The bank: the ids of each file of problems.                             *)
(***************************************************************************)

ArraysHashingIds ==
    { "two-sum", "best-time-to-buy-and-sell-stock", "product-of-array-except-self",
      "valid-anagram", "top-k-frequent-elements", "longest-consecutive-sequence",
      "subarray-sum-equals-k" }

TwoPointersWindowIds ==
    { "valid-palindrome", "three-sum", "container-with-most-water",
      "longest-substring-without-repeating-characters", "minimum-window-substring",
      "sliding-window-maximum" }

BinarySearchIds ==
    { "binary-search", "search-in-rotated-sorted-array", "koko-eating-bananas",
      "median-of-two-sorted-arrays" }

ListsStacksIds ==
    { "reverse-linked-list", "merge-two-sorted-lists", "remove-nth-node-from-end-of-list",
      "add-two-numbers", "valid-parentheses", "daily-temperatures",
      "evaluate-reverse-polish-notation", "largest-rectangle-in-histogram" }

TreesHeapsIds ==
    { "maximum-depth-of-binary-tree", "invert-binary-tree",
      "binary-tree-level-order-traversal", "validate-binary-search-tree",
      "binary-tree-maximum-path-sum", "kth-largest-element-in-an-array", "last-stone-weight",
      "merge-k-sorted-lists" }

GraphsIds ==
    { "number-of-islands", "course-schedule", "rotting-oranges", "network-delay-time",
      "word-ladder" }

BacktrackingDpIds ==
    { "subsets", "combination-sum", "generate-parentheses", "n-queens-ii", "climbing-stairs",
      "house-robber", "coin-change", "longest-increasing-subsequence", "word-break",
      "edit-distance" }

GreedySortingIds ==
    { "jump-game", "non-overlapping-intervals", "merge-intervals", "meeting-rooms-ii" }

ProblemIds ==
    UNION { ArraysHashingIds, TwoPointersWindowIds, BinarySearchIds, ListsStacksIds,
            TreesHeapsIds, GraphsIds, BacktrackingDpIds, GreedySortingIds }

\* What the selection needs to know of a problem: its id, and that its topics are in order.
IsProblem(p, ids) == p.id \in ids /\ DOMAIN p.topics \subseteq Nat

LEMMA ArraysHashingKnown == \A p \in ARRAYS_HASHING : IsProblem(p, ArraysHashingIds)
  BY DEF ARRAYS_HASHING, ArraysHashingIds, IsProblem, Problem, Exact, Unordered, SortInner,
         Float, twoSum, bestTimeToBuyAndSellStock, productOfArrayExceptSelf, validAnagram,
         topKFrequentElements, longestConsecutiveSequence, subarraySumEqualsK

LEMMA TwoPointersWindowKnown == \A p \in TWO_POINTERS_WINDOW : IsProblem(p, TwoPointersWindowIds)
  BY DEF TWO_POINTERS_WINDOW, TwoPointersWindowIds, IsProblem, Problem, Exact, Unordered,
         SortInner, Float, validPalindrome, threeSum, containerWithMostWater,
         longestSubstringWithoutRepeatingCharacters, minimumWindowSubstring,
         slidingWindowMaximum

LEMMA BinarySearchKnown == \A p \in BINARY_SEARCH : IsProblem(p, BinarySearchIds)
  BY DEF BINARY_SEARCH, BinarySearchIds, IsProblem, Problem, Exact, Unordered, SortInner,
         Float, binarySearch, searchInRotatedSortedArray, kokoEatingBananas,
         medianOfTwoSortedArrays

LEMMA ListsStacksKnown == \A p \in LISTS_STACKS : IsProblem(p, ListsStacksIds)
  BY DEF LISTS_STACKS, ListsStacksIds, IsProblem, Problem, Exact, Unordered, SortInner, Float,
         reverseLinkedList, mergeTwoSortedLists, removeNthNodeFromEndOfList, addTwoNumbers,
         validParentheses, dailyTemperatures, evaluateReversePolishNotation,
         largestRectangleInHistogram

LEMMA TreesHeapsKnown == \A p \in TREES_HEAPS : IsProblem(p, TreesHeapsIds)
  BY DEF TREES_HEAPS, TreesHeapsIds, IsProblem, Problem, Exact, Unordered, SortInner, Float,
         maximumDepthOfBinaryTree, invertBinaryTree, binaryTreeLevelOrderTraversal,
         validateBinarySearchTree, binaryTreeMaximumPathSum, kthLargestElementInAnArray,
         lastStoneWeight, mergeKSortedLists

LEMMA GraphsKnown == \A p \in GRAPHS : IsProblem(p, GraphsIds)
  BY DEF GRAPHS, GraphsIds, IsProblem, Problem, Exact, Unordered, SortInner, Float,
         numberOfIslands, courseSchedule, rottingOranges, networkDelayTime, wordLadder

LEMMA BacktrackingDpKnown == \A p \in BACKTRACKING_DP : IsProblem(p, BacktrackingDpIds)
  BY DEF BACKTRACKING_DP, BacktrackingDpIds, IsProblem, Problem, Exact, Unordered, SortInner,
         Float, subsets, combinationSum, generateParentheses, nQueensII, climbingStairs,
         houseRobber, coinChange, longestIncreasingSubsequence, wordBreak, editDistance

LEMMA GreedySortingKnown == \A p \in GREEDY_SORTING : IsProblem(p, GreedySortingIds)
  BY DEF GREEDY_SORTING, GreedySortingIds, IsProblem, Problem, Exact, Unordered, SortInner,
         Float, jumpGame, nonOverlappingIntervals, mergeIntervals, meetingRoomsII

LEMMA ProblemsKnown == \A p \in PROBLEMS : IsProblem(p, ProblemIds)
  BY ArraysHashingKnown, TwoPointersWindowKnown, BinarySearchKnown, ListsStacksKnown,
     TreesHeapsKnown, GraphsKnown, BacktrackingDpKnown, GreedySortingKnown
  DEF PROBLEMS, ProblemIds, IsProblem

TechnicalIds ==
    { "ds-array-vs-linked-list", "ds-hash-table", "ds-heap", "ds-bst-balance", "algo-big-o",
      "algo-quicksort", "algo-dynamic-programming", "algo-graph-shortest-path",
      "os-process-thread", "os-virtual-memory", "os-deadlock", "os-scheduling", "net-tcp-udp",
      "net-what-happens-url", "net-http2-websockets", "db-indexes", "db-acid-isolation",
      "db-sql-vs-nosql", "db-sharding", "sd-url-shortener", "sd-rate-limiter",
      "sd-chat-system", "sd-caching", "oop-principles", "oop-solid", "oop-design-patterns",
      "web-rest", "web-auth", "web-rendering", "conc-race-conditions", "conc-event-loop",
      "conc-distributed-locks", "sec-xss-csrf", "sec-password-storage", "sec-sandboxing" }

BehavioralIds ==
    { "bh-team-project", "bh-helped-teammate", "bh-disagreement", "bh-difficult-person",
      "bh-ownership-bug", "bh-ownership-beyond", "bh-failure", "bh-deadline-missed",
      "bh-lead-initiative", "bh-mentor", "bh-ambiguous-task", "bh-new-technology",
      "bh-explain-technical", "bh-feedback", "bh-priorities", "bh-tradeoff" }

\* A question has one topic.
IsQuestion(q, ids) == q.id \in ids /\ DOMAIN q.topics = {1}

LEMMA DataStructuresKnown == \A q \in DataStructuresQuestions : IsQuestion(q, TechnicalIds)
  BY DEF DataStructuresQuestions, Asking, IsQuestion, TechnicalIds

LEMMA AlgorithmsKnown == \A q \in AlgorithmsQuestions : IsQuestion(q, TechnicalIds)
  BY DEF AlgorithmsQuestions, Asking, IsQuestion, TechnicalIds

LEMMA OperatingSystemsKnown == \A q \in OperatingSystemsQuestions : IsQuestion(q, TechnicalIds)
  BY DEF OperatingSystemsQuestions, Asking, IsQuestion, TechnicalIds

LEMMA NetworkingKnown == \A q \in NetworkingQuestions : IsQuestion(q, TechnicalIds)
  BY DEF NetworkingQuestions, Asking, IsQuestion, TechnicalIds

LEMMA DatabasesKnown == \A q \in DatabasesQuestions : IsQuestion(q, TechnicalIds)
  BY DEF DatabasesQuestions, Asking, IsQuestion, TechnicalIds

LEMMA SystemDesignKnown == \A q \in SystemDesignQuestions : IsQuestion(q, TechnicalIds)
  BY DEF SystemDesignQuestions, Asking, IsQuestion, TechnicalIds

LEMMA OopDesignKnown == \A q \in OopDesignQuestions : IsQuestion(q, TechnicalIds)
  BY DEF OopDesignQuestions, Asking, IsQuestion, TechnicalIds

LEMMA WebKnown == \A q \in WebQuestions : IsQuestion(q, TechnicalIds)
  BY DEF WebQuestions, Asking, IsQuestion, TechnicalIds

LEMMA ConcurrencyKnown == \A q \in ConcurrencyQuestions : IsQuestion(q, TechnicalIds)
  BY DEF ConcurrencyQuestions, Asking, IsQuestion, TechnicalIds

LEMMA SecurityKnown == \A q \in SecurityQuestions : IsQuestion(q, TechnicalIds)
  BY DEF SecurityQuestions, Asking, IsQuestion, TechnicalIds

LEMMA TechnicalKnown == \A q \in TECHNICAL_QUESTIONS : IsQuestion(q, TechnicalIds)
  BY DataStructuresKnown, AlgorithmsKnown, OperatingSystemsKnown, NetworkingKnown,
     DatabasesKnown, SystemDesignKnown, OopDesignKnown, WebKnown, ConcurrencyKnown,
     SecurityKnown
  DEF TECHNICAL_QUESTIONS

LEMMA BehavioralKnown == \A q \in BEHAVIORAL_QUESTIONS : IsQuestion(q, BehavioralIds)
  BY DEF BEHAVIORAL_QUESTIONS, Asking, IsQuestion, BehavioralIds


-----------------------------------------------------------------------------
(***************************************************************************)
(* The bank does not run out.                                              *)
(***************************************************************************)

LEMMA SomeLeft ==
  ASSUME NEW n \in Nat, NEW names, DOMAIN names = 1 .. n,
         \A i, k \in 1 .. n : i # k => names[i] # names[k],
         NEW used, IsFiniteSet(used), Cardinality(used) < n
  PROVE  \E i \in 1 .. n : names[i] \notin used
<1> SUFFICES ASSUME \A i \in 1 .. n : names[i] \in used PROVE FALSE
  OBVIOUS
<1> DEFINE f == [i \in 1 .. n |-> names[i]]
<1>1. IsFiniteSet(1 .. n) /\ Cardinality(1 .. n) = n
  BY FS_Interval
<1>2. f \in [1 .. n -> used]
  OBVIOUS
<1>3. \E i, k \in 1 .. n : i # k /\ f[i] = f[k]
  <2> HIDE DEF f
  <2> QED
    BY Zenon, <1>1, <1>2, FS_PigeonHole
<1> QED
  BY <1>3

\* Twenty-six of the problems.
Listed ==
    << twoSum, bestTimeToBuyAndSellStock, productOfArrayExceptSelf, validAnagram,
       topKFrequentElements, longestConsecutiveSequence, subarraySumEqualsK, validPalindrome,
       threeSum, containerWithMostWater, longestSubstringWithoutRepeatingCharacters,
       minimumWindowSubstring, slidingWindowMaximum, reverseLinkedList, mergeTwoSortedLists,
       removeNthNodeFromEndOfList, addTwoNumbers, validParentheses, dailyTemperatures,
       evaluateReversePolishNotation, largestRectangleInHistogram, numberOfIslands,
       courseSchedule, rottingOranges, networkDelayTime, wordLadder >>

ListedIds ==
    << "two-sum", "best-time-to-buy-and-sell-stock", "product-of-array-except-self",
       "valid-anagram", "top-k-frequent-elements", "longest-consecutive-sequence",
       "subarray-sum-equals-k", "valid-palindrome", "three-sum", "container-with-most-water",
       "longest-substring-without-repeating-characters", "minimum-window-substring",
       "sliding-window-maximum", "reverse-linked-list", "merge-two-sorted-lists",
       "remove-nth-node-from-end-of-list", "add-two-numbers", "valid-parentheses",
       "daily-temperatures", "evaluate-reverse-polish-notation",
       "largest-rectangle-in-histogram", "number-of-islands", "course-schedule",
       "rotting-oranges", "network-delay-time", "word-ladder" >>

LEMMA ListedDiffer == \A i, k \in 1 .. 26 : i # k => ListedIds[i] # ListedIds[k]
  BY SMTT(60) DEF ListedIds

LEMMA ListedAreProblems == \A i \in 1 .. 26 : Listed[i] \in PROBLEMS /\ Listed[i].id = ListedIds[i]
<1>1. ASSUME NEW i \in 1 .. 7 PROVE Listed[i] \in ARRAYS_HASHING /\ Listed[i].id = ListedIds[i]
  BY DEF Listed, ListedIds, ARRAYS_HASHING, Problem, twoSum, bestTimeToBuyAndSellStock,
         productOfArrayExceptSelf, validAnagram, topKFrequentElements,
         longestConsecutiveSequence, subarraySumEqualsK
<1>2. ASSUME NEW i \in 8 .. 13 PROVE Listed[i] \in TWO_POINTERS_WINDOW /\ Listed[i].id = ListedIds[i]
  BY DEF Listed, ListedIds, TWO_POINTERS_WINDOW, Problem, validPalindrome, threeSum,
         containerWithMostWater, longestSubstringWithoutRepeatingCharacters,
         minimumWindowSubstring, slidingWindowMaximum
<1>3. ASSUME NEW i \in 14 .. 21 PROVE Listed[i] \in LISTS_STACKS /\ Listed[i].id = ListedIds[i]
  BY DEF Listed, ListedIds, LISTS_STACKS, Problem, reverseLinkedList, mergeTwoSortedLists,
         removeNthNodeFromEndOfList, addTwoNumbers, validParentheses, dailyTemperatures,
         evaluateReversePolishNotation, largestRectangleInHistogram
<1>4. ASSUME NEW i \in 22 .. 26 PROVE Listed[i] \in GRAPHS /\ Listed[i].id = ListedIds[i]
  BY DEF Listed, ListedIds, GRAPHS, Problem, numberOfIslands, courseSchedule, rottingOranges,
         networkDelayTime, wordLadder
<1> QED
  BY <1>1, <1>2, <1>3, <1>4 DEF PROBLEMS

LEMMA SomeProblem ==
  ASSUME NEW used, IsFiniteSet(used), Cardinality(used) < 26
  PROVE  \E p \in PROBLEMS : p.id \notin used
<1>1. DOMAIN ListedIds = 1 .. 26
  BY DEF ListedIds
<1>2. \A i, k \in 1 .. 26 : i # k => ListedIds[i] # ListedIds[k]
  BY ListedDiffer
<1>3. \A i \in 1 .. 26 : \E p \in PROBLEMS : p.id = ListedIds[i]
  BY ListedAreProblems
<1>4. PICK i \in 1 .. 26 : ListedIds[i] \notin used
  BY <1>1, <1>2, 26 \in Nat, SomeLeft
<1> QED
  BY <1>3, <1>4

LEMMA AskingHas ==
  ASSUME NEW topic, NEW questions, NEW i \in DOMAIN questions
  PROVE  \E q \in Asking(topic, questions) : q.id = questions[i][1]
<1>1. [id |-> questions[i][1], difficulty |-> questions[i][2], topics |-> <<topic>>] \in Asking(topic, questions)
  BY DEF Asking
<1> QED
  BY <1>1

TechnicalListed ==
    << "ds-hash-table", "algo-big-o", "os-deadlock", "net-tcp-udp", "db-indexes", "sd-caching" >>

LEMMA SomeTechnicalQuestion ==
  ASSUME NEW used, IsFiniteSet(used), Cardinality(used) < 6
  PROVE  \E q \in TECHNICAL_QUESTIONS : q.id \notin used
<1>1. DOMAIN TechnicalListed = 1 .. 6
  BY DEF TechnicalListed
<1>2. \A i, k \in 1 .. 6 : i # k => TechnicalListed[i] # TechnicalListed[k]
  BY DEF TechnicalListed
<1>3. \A i \in 1 .. 6 : \E q \in TECHNICAL_QUESTIONS : q.id = TechnicalListed[i]
  <2>1. \E q \in DataStructuresQuestions : q.id = "ds-hash-table"
    BY 2 \in 1 .. 4, AskingHas DEF DataStructuresQuestions
  <2>2. \E q \in AlgorithmsQuestions : q.id = "algo-big-o"
    BY 1 \in 1 .. 4, AskingHas DEF AlgorithmsQuestions
  <2>3. \E q \in OperatingSystemsQuestions : q.id = "os-deadlock"
    BY 3 \in 1 .. 4, AskingHas DEF OperatingSystemsQuestions
  <2>4. \E q \in NetworkingQuestions : q.id = "net-tcp-udp"
    BY 1 \in 1 .. 3, AskingHas DEF NetworkingQuestions
  <2>5. \E q \in DatabasesQuestions : q.id = "db-indexes"
    BY 1 \in 1 .. 4, AskingHas DEF DatabasesQuestions
  <2>6. \E q \in SystemDesignQuestions : q.id = "sd-caching"
    BY 4 \in 1 .. 4, AskingHas DEF SystemDesignQuestions
  <2> QED
    BY <2>1, <2>2, <2>3, <2>4, <2>5, <2>6 DEF TechnicalListed, TECHNICAL_QUESTIONS
<1>4. PICK i \in 1 .. 6 : TechnicalListed[i] \notin used
  BY <1>1, <1>2, 6 \in Nat, SomeLeft
<1> QED
  BY <1>3, <1>4

BehavioralListed ==
    << "bh-team-project", "bh-disagreement", "bh-ownership-bug", "bh-failure", "bh-mentor", "bh-priorities" >>

LEMMA SomeBehavioralQuestion ==
  ASSUME NEW used, IsFiniteSet(used), Cardinality(used) < 6
  PROVE  \E q \in BEHAVIORAL_QUESTIONS : q.id \notin used
<1>1. DOMAIN BehavioralListed = 1 .. 6
  BY DEF BehavioralListed
<1>2. \A i, k \in 1 .. 6 : i # k => BehavioralListed[i] # BehavioralListed[k]
  BY DEF BehavioralListed
<1>3. \A i \in 1 .. 6 : \E q \in BEHAVIORAL_QUESTIONS : q.id = BehavioralListed[i]
  <2>1. \E q \in Asking("teamwork", << <<"bh-team-project", "EASY">>, <<"bh-helped-teammate", "MEDIUM">> >>) :
        q.id = "bh-team-project"
    BY 1 \in 1 .. 2, AskingHas
  <2>2. \E q \in Asking("conflict", << <<"bh-disagreement", "MEDIUM">>, <<"bh-difficult-person", "HARD">> >>) :
        q.id = "bh-disagreement"
    BY 1 \in 1 .. 2, AskingHas
  <2>3. \E q \in Asking("ownership", << <<"bh-ownership-bug", "EASY">>, <<"bh-ownership-beyond", "MEDIUM">> >>) :
        q.id = "bh-ownership-bug"
    BY 1 \in 1 .. 2, AskingHas
  <2>4. \E q \in Asking("failure", << <<"bh-failure", "MEDIUM">>, <<"bh-deadline-missed", "HARD">> >>) :
        q.id = "bh-failure"
    BY 1 \in 1 .. 2, AskingHas
  <2>5. \E q \in Asking("leadership", << <<"bh-lead-initiative", "MEDIUM">>, <<"bh-mentor", "HARD">> >>) :
        q.id = "bh-mentor"
    BY 2 \in 1 .. 2, AskingHas
  <2>6. \E q \in Asking("prioritization", << <<"bh-priorities", "MEDIUM">>, <<"bh-tradeoff", "HARD">> >>) :
        q.id = "bh-priorities"
    BY 1 \in 1 .. 2, AskingHas
  <2> QED
    BY <2>1, <2>2, <2>3, <2>4, <2>5, <2>6 DEF BehavioralListed, BEHAVIORAL_QUESTIONS
<1>4. PICK i \in 1 .. 6 : BehavioralListed[i] \notin used
  BY <1>1, <1>2, 6 \in Nat, SomeLeft
<1> QED
  BY <1>3, <1>4
-----------------------------------------------------------------------------
(***************************************************************************)
(* The picks: the first pool that is not empty.                            *)
(***************************************************************************)

LEMMA Least ==
  ASSUME NEW T, T \subseteq Nat, T # {}
  PROVE  \E x \in T : \A y \in T : x <= y
<1> DEFINE R == {ss \in Nat \X Nat : ss[1] < ss[2]}
<1>1. OpToRel(<, Nat) = R
  BY Zenon DEF OpToRel
<1>2. IsWellFoundedOn(R, Nat)
  BY Zenon, <1>1, NatLessThanWellFounded
<1>3. \A x, y \in Nat : <<y, x>> \in R <=> y < x
  OBVIOUS
<1> HIDE DEF R
<1>4. PICK x \in T : \A y \in T : ~ (<<y, x>> \in R)
  BY <1>2, WFMin
<1>5. ASSUME NEW y \in T PROVE x <= y
  <2>1. x \in Nat /\ y \in Nat /\ ~ (y < x)
    BY <1>3, <1>4
  <2> QED
    BY <2>1
<1> QED
  BY <1>5

LEMMA FirstIsFilled ==
  ASSUME NEW tiers, NEW n \in Nat, DOMAIN tiers = 1 .. n, NEW k \in 1 .. n, tiers[k] # {}
  PROVE  LET first == FirstFilled(tiers)
         IN  /\ first.tier \in 1 .. k
             /\ first.pool = tiers[first.tier] /\ first.pool # {}
<1> DEFINE Filled(m) == m \in DOMAIN tiers /\ tiers[m] # {} /\ \A l \in 1 .. m - 1 : tiers[l] = {}
           T == { m \in 1 .. n : tiers[m] # {} }
           chosen == CHOOSE m \in DOMAIN tiers : tiers[m] # {} /\ \A l \in 1 .. m - 1 : tiers[l] = {}
<1>1. PICK least \in T : \A m \in T : least <= m
  BY Least, k \in T, T \subseteq Nat
<1>2. Filled(least)
  BY <1>1
<1>3. Filled(chosen)
  BY Zenon, <1>2
<1>4. FirstFilled(tiers) = [pool |-> tiers[chosen], tier |-> chosen]
  BY DEF FirstFilled
<1> HIDE DEF chosen
<1>5. chosen <= k
  BY <1>3
<1> QED
  BY <1>3, <1>4, <1>5

\* What can be picked of those available, when there are some: about the topics, if any is.
LEMMA FirstOfTiers ==
  ASSUME NEW available, available # {}, NEW difficulty, NEW topics
  PROVE  LET first == FirstFilled(TiersOf(available, difficulty, topics))
         IN  /\ first.pool \subseteq available
             /\ (first.tier = 1 \/ \E q \in available : IsAbout(q, topics))
                   => \A q \in first.pool : IsAbout(q, topics)
<1> DEFINE tiers == TiersOf(available, difficulty, topics)
           first == FirstFilled(tiers)
<1>1. /\ DOMAIN tiers = 1 .. 4
      /\ tiers[1] \subseteq tiers[2]
      /\ tiers[2] = { q \in available : IsAbout(q, topics) }
      /\ tiers[3] \subseteq available
      /\ tiers[4] = available
  BY DEF TiersOf
<1> HIDE DEF tiers
<1>2. first.tier \in 1 .. 4 /\ first.pool = tiers[first.tier]
  BY <1>1, FirstIsFilled, 4 \in 1 .. 4
<1>3. ASSUME \E q \in available : IsAbout(q, topics) PROVE first.tier \in 1 .. 2
  BY <1>1, <1>3, FirstIsFilled, 2 \in 1 .. 4
<1> HIDE DEF first
<1>4. first.pool \subseteq available
  BY <1>1, <1>2
<1>5. ASSUME first.tier = 1 \/ \E q \in available : IsAbout(q, topics), NEW q \in first.pool
      PROVE  IsAbout(q, topics)
  <2>1. first.tier \in 1 .. 2
    BY <1>3, <1>5
  <2> QED
    BY <1>1, <1>2, <1>5, <2>1
<1>6. first = FirstFilled(TiersOf(available, difficulty, topics))
  BY DEF first, tiers
<1> QED
  BY Zenon, <1>4, <1>5, <1>6

LEMMA FirstOfQuestions ==
  ASSUME NEW items, NEW available, available # {}, NEW difficulty, NEW topics
  PROVE  LET first == FirstFilled(Append(TiersOf(available, difficulty, topics), items))
         IN  /\ first.pool \subseteq available
             /\ (\E q \in available : IsAbout(q, topics)) => \A q \in first.pool : IsAbout(q, topics)
<1> DEFINE tiers == TiersOf(available, difficulty, topics)
           all == Append(tiers, items)
           first == FirstFilled(all)
<1>1. /\ tiers \in Seq(SUBSET (available \cup items)) /\ Len(tiers) = 4
      /\ tiers[1] \subseteq tiers[2]
      /\ tiers[2] = { q \in available : IsAbout(q, topics) }
      /\ tiers[3] \subseteq available
      /\ tiers[4] = available
  BY DEF TiersOf
<1> HIDE DEF tiers
<1>2. DOMAIN all = 1 .. 5 /\ \A i \in 1 .. 4 : all[i] = tiers[i]
  <2>1. items \in SUBSET (available \cup items)
    OBVIOUS
  <2> QED
    BY <1>1, <2>1
<1> HIDE DEF all
<1>3. first.tier \in 1 .. 4 /\ first.pool = all[first.tier]
  <2>1. all[4] # {}
    BY <1>1, <1>2
  <2> QED
    BY <1>2, <2>1, FirstIsFilled, 4 \in 1 .. 5
<1>4. ASSUME \E q \in available : IsAbout(q, topics) PROVE first.tier \in 1 .. 2
  <2>1. all[2] # {}
    BY <1>1, <1>2, <1>4
  <2> QED
    BY <1>2, <2>1, FirstIsFilled, 2 \in 1 .. 5
<1> HIDE DEF first
<1>5. first.pool \subseteq available
  BY <1>1, <1>2, <1>3
<1>6. ASSUME \E q \in available : IsAbout(q, topics), NEW q \in first.pool
      PROVE  IsAbout(q, topics)
  <2>1. first.tier \in 1 .. 2
    BY <1>4, <1>6
  <2> QED
    BY <1>1, <1>2, <1>3, <1>6, <2>1
<1>7. first = FirstFilled(Append(TiersOf(available, difficulty, topics), items))
  BY DEF first, all, tiers
<1> QED
  BY Zenon, <1>5, <1>6, <1>7
-----------------------------------------------------------------------------
(***************************************************************************)
(* The inductive invariant.                                                *)
(***************************************************************************)

Ids(kind) ==
    IF kind = "CODING" THEN ProblemIds ELSE IF kind = "TECHNICAL" THEN TechnicalIds ELSE BehavioralIds

\* What is asked follows the plan, and is what the bank has of that kind, or nothing of it.
AskedOK ==
    /\ \E A : asked \in Seq(A)
    /\ Len(asked) <= Len(Plan)
    /\ \A i \in 1 .. Len(asked) :
           /\ asked[i].kind = Plan[i]
           /\ asked[i].id \in Ids(Plan[i]) \cup {"none"}

\* A behavioral question about the resume has one before it, so the plan has two behavioral ones.
ResumesOK ==
    /\ \A i \in 1 .. Len(asked) : asked[i].source = "RESUME" =>
           \/ Plan[i] = "TECHNICAL"
           \/ Plan[i] = "BEHAVIORAL" /\ \E k \in 1 .. i - 1 : Plan[k] = "BEHAVIORAL"
    /\ \A i, k \in 1 .. Len(asked) :
           asked[i].source = "RESUME" /\ asked[k].source = "RESUME" /\ Plan[i] = Plan[k] => i = k

\* An outcome is that of a question that was asked.
OutcomesOK ==
    /\ DOMAIN outcome = Kinds
    /\ \A kind \in Kinds : outcome[kind] # <<>> => \E i \in 1 .. Len(asked) : asked[i].kind = kind
    /\ open => Len(asked) > 0

Inductive == interview \in Interviews /\ AskedOK /\ NeverRepeats /\ ResumesOK /\ OutcomesOK

-----------------------------------------------------------------------------
(***************************************************************************)
(* The plan, and what it has used of the bank.                             *)
(***************************************************************************)

\* At most six questions, and at most one behavioral one beside technical ones.
PlanFits(plan) ==
    /\ plan \in Seq(Kinds) /\ Len(plan) \in 1 .. 6
    /\ \A i, j, k \in 1 .. Len(plan) :
           plan[i] = "TECHNICAL" /\ plan[j] = "BEHAVIORAL" /\ plan[k] = "BEHAVIORAL" => j = k

LEMMA OneKindFits == \A kind \in Kinds, n \in 1 .. 6 : PlanFits(Times(kind, n))
<1> SUFFICES ASSUME NEW kind \in Kinds, NEW n \in 1 .. 6 PROVE PlanFits(Times(kind, n))
  OBVIOUS
<1>1. Times(kind, n) \in Seq(Kinds) /\ Len(Times(kind, n)) = n /\ \A i \in 1 .. n : Times(kind, n)[i] = kind
  BY DEF Times
<1> QED
  BY <1>1 DEF PlanFits

LEMMA QuestionPlanFits ==
  ASSUME NEW mode \in {"DSA", "TECHNICAL", "BEHAVIORAL", "MIXED"}, NEW minutes \in Nat
  PROVE  PlanFits(QuestionPlan(mode, minutes))
<1>1. CASE mode = "DSA"
  <2>1. \E n \in 1 .. 6 : QuestionPlan(mode, minutes) = Times("CODING", n)
    BY <1>1 DEF QuestionPlan
  <2> QED
    BY <2>1, OneKindFits DEF Kinds
<1>2. CASE mode \in {"TECHNICAL", "BEHAVIORAL"}
  <2>1. \E n \in 1 .. 6 : QuestionPlan(mode, minutes) = Times(mode, n)
    BY <1>2 DEF QuestionPlan
  <2> QED
    BY <1>2, <2>1, OneKindFits DEF Kinds
<1>3. CASE mode = "MIXED"
  <2>1. \/ QuestionPlan(mode, minutes) = <<"CODING", "TECHNICAL", "CODING", "TECHNICAL", "BEHAVIORAL">>
        \/ QuestionPlan(mode, minutes) = <<"CODING", "TECHNICAL", "TECHNICAL", "BEHAVIORAL">>
        \/ QuestionPlan(mode, minutes) = <<"CODING", "TECHNICAL", "BEHAVIORAL">>
        \/ QuestionPlan(mode, minutes) = <<"CODING", "TECHNICAL">>
    BY <1>3 DEF QuestionPlan
  <2>2. PlanFits(<<"CODING", "TECHNICAL", "CODING", "TECHNICAL", "BEHAVIORAL">>)
    BY DEF Kinds, PlanFits
  <2>3. PlanFits(<<"CODING", "TECHNICAL", "TECHNICAL", "BEHAVIORAL">>)
    BY DEF Kinds, PlanFits
  <2>4. PlanFits(<<"CODING", "TECHNICAL", "BEHAVIORAL">>)
    BY DEF Kinds, PlanFits
  <2>5. PlanFits(<<"CODING", "TECHNICAL">>)
    BY DEF Kinds, PlanFits
  <2> QED
    BY Zenon, <2>1, <2>2, <2>3, <2>4, <2>5
<1> QED
  BY <1>1, <1>2, <1>3

LEMMA PlanOK ==
  ASSUME interview \in Interviews
  PROVE  /\ Plan \in Seq(Kinds) /\ Len(Plan) \in 1 .. 6
         /\ \A i, j, k \in 1 .. Len(Plan) :
                Plan[i] = "TECHNICAL" /\ Plan[j] = "BEHAVIORAL" /\ Plan[k] = "BEHAVIORAL" => j = k
  BY SelectionAssumption, QuestionPlanFits DEF Plan, PlanFits

LEMMA IdsDiffer == \A k, l \in Kinds : k # l => Ids(k) \cap Ids(l) = {}
<1>1. TechnicalIds \cap BehavioralIds = {}
  BY DEF TechnicalIds, BehavioralIds
<1>2. ProblemIds \cap TechnicalIds = {}
  BY DEF ProblemIds, ArraysHashingIds, TwoPointersWindowIds, BinarySearchIds, ListsStacksIds,
         TreesHeapsIds, GraphsIds, BacktrackingDpIds, GreedySortingIds, TechnicalIds
<1>3. ProblemIds \cap BehavioralIds = {}
  BY DEF ProblemIds, ArraysHashingIds, TwoPointersWindowIds, BinarySearchIds, ListsStacksIds,
         TreesHeapsIds, GraphsIds, BacktrackingDpIds, GreedySortingIds, BehavioralIds
<1> QED
  BY <1>1, <1>2, <1>3 DEF Kinds, Ids

\* n questions have at most n ids.
LEMMA FewIds ==
  ASSUME NEW n \in Nat, NEW s, NEW U, \A u \in U : \E k \in 1 .. n : u = s[k].id
  PROVE  IsFiniteSet(U) /\ Cardinality(U) <= n
<1> DEFINE f == [k \in 1 .. n |-> s[k].id]
           R == { f[k] : k \in 1 .. n }
<1>1. IsFiniteSet(1 .. n) /\ Cardinality(1 .. n) = n
  BY FS_Interval
<1>2. f \in Surjection(1 .. n, R)
  BY DEF Surjection
<1>3. U \in SUBSET R
  OBVIOUS
<1> HIDE DEF f, R
<1>4. IsFiniteSet(R) /\ Cardinality(R) <= n
  BY <1>1, <1>2, FS_Surjection
<1> QED
  BY <1>3, <1>4, FS_Subset, FS_CardinalityType

LEMMA FewUsed ==
  ASSUME Inductive, Len(asked) < Len(Plan)
  PROVE  /\ IsFiniteSet(InInterview) /\ Cardinality(InInterview) < 6
         /\ IsFiniteSet(InInterview \cup interview.seen)
         /\ Cardinality(InInterview \cup interview.seen) < 26
<1>1. Len(asked) \in Nat /\ Len(asked) <= 5 /\ DOMAIN asked = 1 .. Len(asked)
  BY PlanOK DEF Inductive, AskedOK
<1>2. \A u \in InInterview : \E k \in 1 .. Len(asked) : u = asked[k].id
  BY <1>1 DEF InInterview, SameKind
<1>3. IsFiniteSet(InInterview) /\ Cardinality(InInterview) <= 5
  <2>1. IsFiniteSet(InInterview) /\ Cardinality(InInterview) <= Len(asked)
    BY <1>1, <1>2, FewIds
  <2>2. Cardinality(InInterview) \in Nat
    BY <2>1, FS_CardinalityType
  <2> QED
    BY <1>1, <2>1, <2>2
<1>4. IsFiniteSet(interview.seen) /\ Cardinality(interview.seen) <= 20
  BY SelectionAssumption DEF Inductive
<1>5. /\ IsFiniteSet(InInterview \cup interview.seen)
      /\ Cardinality(InInterview \cup interview.seen) =
             Cardinality(InInterview) + Cardinality(interview.seen) - Cardinality(InInterview \cap interview.seen)
  BY <1>3, <1>4, FS_Union
<1>6. Cardinality(InInterview \cap interview.seen) \in Nat
  <2>1. InInterview \cap interview.seen \in SUBSET InInterview
    OBVIOUS
  <2> QED
    BY <1>3, <2>1, FS_Subset, FS_CardinalityType
<1>7. Cardinality(InInterview) \in Nat /\ Cardinality(interview.seen) \in Nat
  BY <1>3, <1>4, FS_CardinalityType
<1> QED
  BY <1>3, <1>4, <1>5, <1>6, <1>7
-----------------------------------------------------------------------------
(***************************************************************************)
(* Every question that is asked keeps the invariant.                       *)
(***************************************************************************)

LEMMA InitInductive == Init => Inductive
<1> SUFFICES ASSUME Init PROVE Inductive
  OBVIOUS
<1>1. asked = <<>> /\ <<>> \in Seq({}) /\ Len(asked) = 0 /\ DOMAIN asked = {} /\ interview \in Interviews
  BY DEF Init
<1>2. AskedOK
  BY <1>1, PlanOK DEF AskedOK
<1>3. NeverRepeats /\ ResumesOK
  BY <1>1 DEF NeverRepeats, ResumesOK
<1>4. OutcomesOK
  BY DEF Init, OutcomesOK, Kinds
<1> QED
  BY <1>1, <1>2, <1>3, <1>4 DEF Inductive

LEMMA Appended ==
  ASSUME NEW s, NEW A, s \in Seq(A), NEW q, NEW t, t = Append(s, q)
  PROVE  /\ \E B : t \in Seq(B)
         /\ Len(s) \in Nat /\ Len(t) = Len(s) + 1 /\ DOMAIN s = 1 .. Len(s) /\ DOMAIN t = 1 .. Len(s) + 1
         /\ t[Len(s) + 1] = q /\ \A i \in 1 .. Len(s) : t[i] = s[i]
<1>1. s \in Seq(A \cup {q}) /\ q \in A \cup {q}
  OBVIOUS
<1> QED
  BY <1>1

\* What Ask asks: something of the kind that is due, from the bank or not, and new.
Fits(q) ==
    /\ q.kind = Kind
    /\ q.id \in Ids(Kind) \cup {"none"}
    /\ q.id = "none" \/ q.id \notin InInterview
    /\ q.source = "RESUME" =>
           /\ ~ \E p \in SameKind : p.source = "RESUME"
           /\ Kind = "TECHNICAL" \/ (Kind = "BEHAVIORAL" /\ SameKind # {})

LEMMA AskKeeps ==
  ASSUME Inductive, Len(asked) < Len(Plan), NEW q, Fits(q), Ask(q)
  PROVE  Inductive'
<1> DEFINE n == Len(asked) + 1
<1>1. /\ asked' = Append(asked, q) /\ interview' = interview /\ outcome' = outcome /\ Plan' = Plan
      /\ interview \in Interviews
  BY DEF Ask, Inductive, Plan
<1>2. /\ (\E B : asked' \in Seq(B))
      /\ Len(asked) \in Nat /\ Len(asked') = n /\ DOMAIN asked = 1 .. Len(asked) /\ DOMAIN asked' = 1 .. n
      /\ asked'[n] = q /\ \A i \in 1 .. Len(asked) : asked'[i] = asked[i]
  <2>1. PICK A : asked \in Seq(A)
    BY DEF Inductive, AskedOK
  <2> QED
    BY <1>1, <2>1, Appended
<1>3. Kind = Plan[n] /\ n \in 1 .. Len(Plan) /\ Kind \in Kinds
  BY <1>1, <1>2, PlanOK DEF Kind
<1>4. \A i \in 1 .. Len(asked) : asked[i].kind = Plan[i] /\ asked[i].id \in Ids(Plan[i]) \cup {"none"}
  BY DEF Inductive, AskedOK
<1>5. \A i \in 1 .. n : i = n \/ i \in 1 .. Len(asked)
  BY <1>2
<1>6. \A p : p \in SameKind <=> \E i \in 1 .. Len(asked) : p = asked[i] /\ Plan[i] = Kind
  BY <1>2, <1>4 DEF SameKind
<1>7. AskedOK'
  <2>1. Len(asked') <= Len(Plan)
    BY <1>2, <1>3, PlanOK
  <2>2. \A i \in 1 .. n : asked'[i].kind = Plan[i] /\ asked'[i].id \in Ids(Plan[i]) \cup {"none"}
    BY <1>2, <1>3, <1>4, <1>5 DEF Fits
  <2> QED
    BY <1>1, <1>2, <2>1, <2>2 DEF AskedOK
<1>8. NeverRepeats'
  <2>1. ASSUME NEW i \in 1 .. Len(asked), asked[i].id = q.id, q.id # "none" PROVE FALSE
    <3>1. Plan[i] \in Kinds /\ asked[i].id \in Ids(Plan[i]) /\ q.id \in Ids(Kind)
      BY <1>1, <1>2, <1>4, <2>1, PlanOK DEF Fits, Inductive, AskedOK
    <3>2. Plan[i] = Kind
      BY <1>3, <2>1, <3>1, IdsDiffer
    <3>3. asked[i].id \in InInterview
      BY <1>6, <3>2 DEF InInterview
    <3> QED
      BY <2>1, <3>3 DEF Fits
  <2>2. \A i, k \in 1 .. Len(asked) : asked[i].id = asked[k].id /\ asked[i].id # "none" => i = k
    BY <1>2 DEF Inductive, NeverRepeats
  <2> QED
    BY <1>2, <1>5, <2>1, <2>2 DEF NeverRepeats
<1>9. ResumesOK'
  <2> USE DEF Inductive, ResumesOK
  <2>1. ASSUME NEW i \in 1 .. n, asked'[i].source = "RESUME"
        PROVE  \/ Plan[i] = "TECHNICAL"
               \/ Plan[i] = "BEHAVIORAL" /\ \E k \in 1 .. i - 1 : Plan[k] = "BEHAVIORAL"
    <3>1. CASE i = n
      <4>1. Kind = "TECHNICAL" \/ (Kind = "BEHAVIORAL" /\ SameKind # {})
        BY <1>2, <2>1, <3>1 DEF Fits
      <4>2. SameKind # {} => \E k \in 1 .. n - 1 : Plan[k] = Kind
        BY <1>2, <1>6
      <4> QED
        BY <1>3, <3>1, <4>1, <4>2
    <3>2. CASE i \in 1 .. Len(asked)
      BY <1>2, <2>1, <3>2
    <3> QED
      BY <1>5, <3>1, <3>2
  <2>2. ASSUME NEW i \in 1 .. Len(asked), asked[i].source = "RESUME", Plan[i] = Kind, q.source = "RESUME"
        PROVE  FALSE
    BY <1>6, <2>2 DEF Fits
  <2>3. \A i, k \in 1 .. n :
            asked'[i].source = "RESUME" /\ asked'[k].source = "RESUME" /\ Plan[i] = Plan[k] => i = k
    BY <1>2, <1>3, <1>5, <2>2
  <2> QED
    BY <1>1, <1>2, <2>1, <2>3
<1>10. OutcomesOK'
  <2>1. DOMAIN outcome' = Kinds
    BY <1>1 DEF Inductive, OutcomesOK
  <2>2. ASSUME NEW kind \in Kinds, outcome'[kind] # <<>> PROVE \E i \in 1 .. Len(asked') : asked'[i].kind = kind
    <3>1. PICK i \in 1 .. Len(asked) : asked[i].kind = kind
      BY <1>1, <2>2 DEF Inductive, OutcomesOK
    <3>2. i \in 1 .. n /\ asked'[i].kind = kind
      BY <1>2, <3>1
    <3> QED
      BY <1>2, <3>2
  <2>3. Len(asked') > 0
    BY <1>2
  <2> QED
    BY <2>1, <2>2, <2>3 DEF OutcomesOK
<1> QED
  BY <1>1, <1>7, <1>8, <1>9, <1>10 DEF Inductive
-----------------------------------------------------------------------------
(***************************************************************************)
(* What the actions ask.                                                   *)
(***************************************************************************)

\* A problem of the pool is new, and about the topics if one that nobody has seen is.
LEMMA ProblemPoolOK ==
  ASSUME Inductive, Len(asked) < Len(Plan), NEW topics
  PROVE  /\ \A p \in ProblemPool(topics) : p \in PROBLEMS /\ p.id \notin InInterview
         /\ (\E p \in PROBLEMS : p.id \notin InInterview \cup interview.seen /\ IsAbout(p, topics))
                => \A p \in ProblemPool(topics) : IsAbout(p, topics)
<1> DEFINE unseen == { p \in PROBLEMS : p.id \notin InInterview \cup interview.seen }
           new == { p \in PROBLEMS : p.id \notin InInterview }
           fresh == SelectProblem(Decision.difficulty, topics, InInterview \cup interview.seen)
           relaxed == SelectProblem(Decision.difficulty, topics, InInterview)
<1>1. unseen # {} /\ unseen \subseteq new
  BY FewUsed, SomeProblem
<1>2. /\ fresh = FirstFilled(TiersOf(unseen, Decision.difficulty, topics))
      /\ relaxed = FirstFilled(TiersOf(new, Decision.difficulty, topics))
  BY Zenon DEF SelectProblem
<1>3. ProblemPool(topics) = IF fresh.tier # 1 /\ relaxed.tier = 1 THEN relaxed.pool ELSE fresh.pool
  BY Zenon DEF ProblemPool
<1>4. \A p \in new : p \in PROBLEMS /\ p.id \notin InInterview
  OBVIOUS
<1>5. (\E p \in PROBLEMS : p.id \notin InInterview \cup interview.seen /\ IsAbout(p, topics))
          => \E p \in unseen : IsAbout(p, topics)
  OBVIOUS
<1>6. new # {}
  BY <1>1
<1> HIDE DEF unseen, new, fresh, relaxed
<1>7. /\ fresh.pool \subseteq unseen
      /\ (\E p \in unseen : IsAbout(p, topics)) => \A p \in fresh.pool : IsAbout(p, topics)
  BY <1>1, <1>2, FirstOfTiers
<1>8. /\ relaxed.pool \subseteq new
      /\ relaxed.tier = 1 => \A p \in relaxed.pool : IsAbout(p, topics)
  BY <1>2, <1>6, FirstOfTiers
<1>9. CASE fresh.tier # 1 /\ relaxed.tier = 1
  BY <1>3, <1>4, <1>8, <1>9
<1>10. CASE ~ (fresh.tier # 1 /\ relaxed.tier = 1)
  <2>1. ProblemPool(topics) = fresh.pool
    BY <1>3, <1>10
  <2> QED
    BY <1>1, <1>4, <1>5, <1>7, <2>1
<1> QED
  BY <1>9, <1>10

LEMMA TechnicalPoolOK ==
  ASSUME Inductive, Len(asked) < Len(Plan), NEW difficulty, NEW topics,
         NEW q \in SelectTechnicalQuestion(difficulty, topics, InInterview).pool
  PROVE  /\ q \in TECHNICAL_QUESTIONS /\ q.id \notin InInterview
         /\ (\E p \in TECHNICAL_QUESTIONS : p.id \notin InInterview /\ IsAbout(p, topics)) => IsAbout(q, topics)
<1> DEFINE new == { p \in TECHNICAL_QUESTIONS : p.id \notin InInterview }
           first == FirstFilled(Append(TiersOf(new, difficulty, topics), TECHNICAL_QUESTIONS))
<1>1. new # {}
  BY FewUsed, SomeTechnicalQuestion
<1>2. q \in first.pool
  BY Zenon DEF SelectTechnicalQuestion, PickTiered
<1>3. \A p \in new : p \in TECHNICAL_QUESTIONS /\ p.id \notin InInterview
  OBVIOUS
<1>4. (\E p \in TECHNICAL_QUESTIONS : p.id \notin InInterview /\ IsAbout(p, topics))
          => \E p \in new : IsAbout(p, topics)
  OBVIOUS
<1>5. /\ first.pool \subseteq new
      /\ (\E p \in new : IsAbout(p, topics)) => \A p \in first.pool : IsAbout(p, topics)
  <2> HIDE DEF new
  <2> QED
    BY Zenon, <1>1, FirstOfQuestions
<1> HIDE DEF new, first
<1> QED
  BY <1>2, <1>3, <1>4, <1>5

LEMMA BehavioralPoolOK ==
  ASSUME Inductive, Len(asked) < Len(Plan), NEW difficulty,
         NEW q \in SelectBehavioralQuestion(difficulty, InInterview).pool
  PROVE  q \in BEHAVIORAL_QUESTIONS /\ q.id \notin InInterview
<1> DEFINE new == { p \in BEHAVIORAL_QUESTIONS : p.id \notin InInterview }
           first == FirstFilled(Append(TiersOf(new, difficulty, {}), BEHAVIORAL_QUESTIONS))
<1>1. new # {}
  BY FewUsed, SomeBehavioralQuestion
<1>2. q \in first.pool
  BY Zenon DEF SelectBehavioralQuestion, PickTiered
<1>3. \A p \in new : p \in BEHAVIORAL_QUESTIONS /\ p.id \notin InInterview
  OBVIOUS
<1>4. first.pool \subseteq new
  <2> HIDE DEF new
  <2> QED
    BY Zenon, <1>1, FirstOfQuestions
<1> HIDE DEF new, first
<1> QED
  BY <1>2, <1>3, <1>4

LEMMA FromBankFits ==
  ASSUME NEW item, NEW topic, item.id \in Ids(Kind), item.id \notin InInterview
  PROVE  Fits(FromBank(item, topic))
  BY DEF Fits, FromBank, Question

LEMMA NextInductive == Inductive /\ [Next]_vars => Inductive'
<1> SUFFICES ASSUME Inductive, [Next]_vars PROVE Inductive'
  OBVIOUS
<1>1. CASE AskRequestedProblem
  <2>1. PICK p \in PROBLEMS : Ask(FromBank(p, p.topics[1]))
    BY <1>1 DEF AskRequestedProblem
  <2>2. Kind = "CODING" /\ Len(asked) < Len(Plan) /\ p.id \in Ids(Kind)
    BY <1>1, ProblemsKnown DEF AskRequestedProblem, Due, Ids, IsProblem
  <2>3. p.id \notin InInterview
    BY <1>1 DEF AskRequestedProblem, Requested, InInterview
  <2> QED
    BY <2>1, <2>2, <2>3, FromBankFits, AskKeeps
<1>2. CASE AskGeneratedProblem
  <2>1. PICK topic : Ask(Question("AI_GENERATED", "none", topic, Decision.difficulty))
    BY <1>2 DEF AskGeneratedProblem
  <2>2. Len(asked) < Len(Plan)
    BY <1>2 DEF AskGeneratedProblem, Due
  <2>3. Fits(Question("AI_GENERATED", "none", topic, Decision.difficulty))
    BY DEF Fits, Question
  <2> QED
    BY <2>1, <2>2, <2>3, AskKeeps
<1>3. CASE AskBankProblem
  <2> DEFINE topics == Wanted(TOPICS)
  <2>1. PICK p \in ProblemPool(topics) : Ask(FromBank(p, TopicOf(p, topics)))
    BY <1>3 DEF AskBankProblem
  <2>2. Kind = "CODING" /\ Len(asked) < Len(Plan)
    BY <1>3 DEF AskBankProblem, Due
  <2> HIDE DEF topics
  <2>3. p \in PROBLEMS /\ p.id \notin InInterview
    BY <2>1, <2>2, ProblemPoolOK
  <2>4. p.id \in Ids(Kind)
    BY <2>2, <2>3, ProblemsKnown DEF Ids, IsProblem
  <2> QED
    BY <2>1, <2>2, <2>3, <2>4, FromBankFits, AskKeeps
<1>4. CASE AskAboutResume
  <2>1. PICK topic : Ask(Question("RESUME", "none", topic, Decision.difficulty))
    BY <1>4 DEF AskAboutResume
  <2>2. Kind = "TECHNICAL" /\ Len(asked) < Len(Plan) /\ ~ \E q \in SameKind : q.source = "RESUME"
    BY <1>4 DEF AskAboutResume, Due, NoResumeYet
  <2>3. Fits(Question("RESUME", "none", topic, Decision.difficulty))
    BY <2>2 DEF Fits, Question
  <2> QED
    BY <2>1, <2>2, <2>3, AskKeeps
<1>5. CASE AskTechnical
  <2> DEFINE topics == Wanted(TECHNICAL_TOPICS)
  <2>1. PICK q \in SelectTechnicalQuestion(Decision.difficulty, topics, InInterview).pool :
            Ask(FromBank(q, q.topics[1]))
    BY <1>5 DEF AskTechnical
  <2>2. Kind = "TECHNICAL" /\ Len(asked) < Len(Plan)
    BY <1>5 DEF AskTechnical, Due
  <2> HIDE DEF topics
  <2>3. q \in TECHNICAL_QUESTIONS /\ q.id \notin InInterview
    BY <2>1, <2>2, TechnicalPoolOK
  <2>4. q.id \in Ids(Kind)
    BY <2>2, <2>3, TechnicalKnown DEF Ids, IsQuestion
  <2> QED
    BY <2>1, <2>2, <2>3, <2>4, FromBankFits, AskKeeps
<1>6. CASE AskAboutExperience
  <2>1. /\ Ask(Question("RESUME", "none", "experience", Decision.difficulty))
        /\ Kind = "BEHAVIORAL" /\ Len(asked) < Len(Plan)
        /\ SameKind # {} /\ ~ \E q \in SameKind : q.source = "RESUME"
    BY <1>6 DEF AskAboutExperience, Due, ResumeAllowed, NoResumeYet
  <2>2. Fits(Question("RESUME", "none", "experience", Decision.difficulty))
    BY <2>1 DEF Fits, Question
  <2> QED
    BY <2>1, <2>2, AskKeeps
<1>7. CASE AskBehavioral
  <2>1. PICK q \in SelectBehavioralQuestion(Decision.difficulty, InInterview).pool :
            Ask(FromBank(q, q.topics[1]))
    BY <1>7 DEF AskBehavioral
  <2>2. Kind = "BEHAVIORAL" /\ Len(asked) < Len(Plan)
    BY <1>7 DEF AskBehavioral, Due
  <2>3. q \in BEHAVIORAL_QUESTIONS /\ q.id \notin InInterview
    BY <2>1, <2>2, BehavioralPoolOK
  <2>4. q.id \in Ids(Kind)
    BY <2>2, <2>3, BehavioralKnown DEF Ids, IsQuestion
  <2> QED
    BY <2>1, <2>2, <2>3, <2>4, FromBankFits, AskKeeps
<1>8. CASE Close
  <2>1. interview' = interview /\ asked' = asked /\ open' = FALSE /\ Plan' = Plan
    BY <1>8 DEF Close, Plan
  <2>2. Len(asked) \in 1 .. Len(asked)
    <3>1. Len(asked) > 0 /\ \E A : asked \in Seq(A)
      BY <1>8 DEF Close, Inductive, OutcomesOK, AskedOK
    <3> QED
      BY <3>1
  <2>3. PICK left : outcome' = [outcome EXCEPT ![asked[Len(asked)].kind] = left]
    BY <1>8 DEF Close
  <2>4. OutcomesOK'
    <3>1. DOMAIN outcome' = Kinds
      BY <2>3 DEF Inductive, OutcomesOK
    <3>2. ASSUME NEW kind \in Kinds, outcome'[kind] # <<>> PROVE \E i \in 1 .. Len(asked) : asked[i].kind = kind
      <4>1. CASE kind = asked[Len(asked)].kind
        BY <2>2, <4>1
      <4>2. CASE kind # asked[Len(asked)].kind
        BY <2>3, <3>2, <4>2 DEF Inductive, OutcomesOK
      <4> QED
        BY <4>1, <4>2
    <3> QED
      BY <2>1, <3>1, <3>2 DEF OutcomesOK
  <2> QED
    BY <2>1, <2>4 DEF Inductive, AskedOK, NeverRepeats, ResumesOK
<1>9. CASE UNCHANGED vars
  <2>1. interview' = interview /\ asked' = asked /\ open' = open /\ outcome' = outcome /\ Plan' = Plan
    BY <1>9 DEF vars, Plan
  <2> QED
    BY <2>1 DEF Inductive, AskedOK, NeverRepeats, ResumesOK, OutcomesOK
<1> QED
  BY <1>1, <1>2, <1>3, <1>4, <1>5, <1>6, <1>7, <1>8, <1>9 DEF Next
-----------------------------------------------------------------------------
(***************************************************************************)
(* After a weak answer.                                                    *)
(***************************************************************************)

\* A topic that its bank has is the one that is wanted.
LEMMA WeakTopicWanted ==
  ASSUME interview.adaptive, outcome[Kind] # <<>>, Weak(outcome[Kind][1]),
         NEW universe, outcome[Kind][1].topic \in universe
  PROVE  Wanted(universe) = {outcome[Kind][1].topic}
<1>1. Decision.revisit = outcome[Kind][1].topic
  BY DEF Decision, DecideNextDifficulty, Decided
<1> QED
  BY <1>1 DEF Wanted, ChooseTopic

LEMMA AboutOne ==
  ASSUME NEW item, NEW topic
  PROVE  IsAbout(item, {topic}) <=> topic \in TopicsOf(item)
  BY DEF IsAbout

LEMMA TopicOfProblem ==
  ASSUME NEW p \in PROBLEMS, NEW topic \in TopicsOf(p)
  PROVE  TopicOf(p, {topic}) = topic
<1> DEFINE hits == { i \in DOMAIN p.topics : p.topics[i] \in {topic} }
           first == CHOOSE i \in hits : \A k \in hits : i <= k
<1>1. hits \subseteq Nat /\ hits # {}
  BY ProblemsKnown DEF IsProblem, TopicsOf
<1>2. \E i \in hits : \A k \in hits : i <= k
  <2> HIDE DEF hits
  <2> QED
    BY <1>1, Least
<1>3. first \in hits
  <2> HIDE DEF hits
  <2> QED
    BY Zenon, <1>2
<1>4. p.topics[first] = topic
  <2> HIDE DEF first
  <2> QED
    BY <1>3
<1>5. TopicOf(p, {topic}) = p.topics[IF hits = {} THEN 1 ELSE first]
  BY Zenon DEF TopicOf
<1> HIDE DEF hits, first
<1> QED
  BY <1>1, <1>4, <1>5

LEMMA TopicOfQuestion ==
  ASSUME NEW q \in TECHNICAL_QUESTIONS, NEW topic \in TopicsOf(q)
  PROVE  q.topics[1] = topic
  BY TechnicalKnown DEF IsQuestion, TopicsOf

LEMMA AskedLast ==
  ASSUME Inductive, NEW q, Ask(q)
  PROVE  asked'[Len(asked')] = q
<1>1. PICK A : asked \in Seq(A)
  BY DEF Inductive, AskedOK
<1> QED
  BY <1>1, Appended DEF Ask

LEMMA StepRevisits ==
  ASSUME Inductive, Next, Len(asked') > Len(asked), interview.adaptive,
         NEW q, q = asked'[Len(asked')], q.kind # "BEHAVIORAL", q.source = "BANK",
         outcome[q.kind] # <<>>,
         NEW topic, topic = outcome[q.kind][1].topic,
         Weak(outcome[q.kind][1]), Unused(q.kind, topic) # {}
  PROVE  q.topic = topic
<1>1. PICK unused \in Unused(q.kind, topic) : TRUE
  OBVIOUS
<1>2. CASE AskRequestedProblem
  <2>1. PICK p \in PROBLEMS : Ask(FromBank(p, p.topics[1]))
    BY <1>2 DEF AskRequestedProblem
  <2>2. Kind = "CODING" /\ SameKind = {}
    BY <1>2 DEF AskRequestedProblem, Due, Requested
  <2>3. q.kind = Kind /\ Kind \in Kinds
    BY <2>1, <2>2, AskedLast DEF FromBank, Question, Kinds
  <2>4. PICK i \in 1 .. Len(asked) : asked[i].kind = Kind
    BY <2>3 DEF Inductive, OutcomesOK
  <2>5. asked[i] \in SameKind
    BY <2>4 DEF SameKind, Inductive, AskedOK
  <2> QED
    BY <2>2, <2>5
<1>3. CASE AskGeneratedProblem
  <2>1. PICK t : Ask(Question("AI_GENERATED", "none", t, Decision.difficulty))
    BY <1>3 DEF AskGeneratedProblem
  <2>2. q.source = "AI_GENERATED"
    BY <2>1, AskedLast DEF Question
  <2> QED
    BY <2>2
<1>4. CASE AskBankProblem
  <2>1. PICK p \in ProblemPool(Wanted(TOPICS)) : Ask(FromBank(p, TopicOf(p, Wanted(TOPICS))))
    BY <1>4 DEF AskBankProblem
  <2>2. Kind = "CODING" /\ Len(asked) < Len(Plan)
    BY <1>4 DEF AskBankProblem, Due
  <2>3. q.kind = Kind /\ q.topic = TopicOf(p, Wanted(TOPICS))
    BY <2>1, AskedLast DEF FromBank, Question
  <2>4. unused \in PROBLEMS /\ topic \in TopicsOf(unused) /\ unused.id \notin InInterview \cup interview.seen
    BY <1>1, <2>2, <2>3 DEF Unused, Items
  <2>5. topic \in TOPICS
    BY <2>4 DEF TOPICS
  <2>6. Wanted(TOPICS) = {topic}
    BY <2>3, <2>5, WeakTopicWanted
  <2>7. p \in PROBLEMS /\ IsAbout(p, {topic})
    BY <2>1, <2>2, <2>4, <2>6, AboutOne, ProblemPoolOK
  <2> QED
    BY <2>3, <2>6, <2>7, AboutOne, TopicOfProblem
<1>5. CASE AskAboutResume
  <2>1. PICK t : Ask(Question("RESUME", "none", t, Decision.difficulty))
    BY <1>5 DEF AskAboutResume
  <2>2. q.source = "RESUME"
    BY <2>1, AskedLast DEF Question
  <2> QED
    BY <2>2
<1>6. CASE AskTechnical
  <2>1. PICK item \in SelectTechnicalQuestion(Decision.difficulty, Wanted(TECHNICAL_TOPICS), InInterview).pool :
            Ask(FromBank(item, item.topics[1]))
    BY <1>6 DEF AskTechnical
  <2>2. Kind = "TECHNICAL" /\ Len(asked) < Len(Plan)
    BY <1>6 DEF AskTechnical, Due
  <2>3. q.kind = Kind /\ q.topic = item.topics[1]
    BY <2>1, AskedLast DEF FromBank, Question
  <2>4. unused \in TECHNICAL_QUESTIONS /\ topic \in TopicsOf(unused) /\ unused.id \notin InInterview
    BY <1>1, <2>2, <2>3 DEF Unused, Items
  <2>5. topic \in TECHNICAL_TOPICS
    BY <2>4 DEF TECHNICAL_TOPICS
  <2>6. Wanted(TECHNICAL_TOPICS) = {topic}
    BY <2>3, <2>5, WeakTopicWanted
  <2>7. item \in TECHNICAL_QUESTIONS /\ IsAbout(item, {topic})
    BY <2>1, <2>2, <2>4, <2>6, AboutOne, TechnicalPoolOK
  <2> QED
    BY <2>3, <2>7, AboutOne, TopicOfQuestion
<1>7. CASE AskAboutExperience
  <2>1. Ask(Question("RESUME", "none", "experience", Decision.difficulty))
    BY <1>7 DEF AskAboutExperience
  <2>2. q.source = "RESUME"
    BY <2>1, AskedLast DEF Question
  <2> QED
    BY <2>2
<1>8. CASE AskBehavioral
  <2>1. PICK item : Ask(FromBank(item, item.topics[1]))
    BY <1>8 DEF AskBehavioral
  <2>2. q.kind = "BEHAVIORAL"
    BY <1>8, <2>1, AskedLast DEF AskBehavioral, Due, FromBank, Question
  <2> QED
    BY <2>2
<1>9. CASE Close
  <2>1. asked' = asked
    BY <1>9 DEF Close
  <2>2. Len(asked) \in Nat
    BY DEF Inductive, AskedOK
  <2> QED
    BY <2>1, <2>2
<1> QED
  BY <1>2, <1>3, <1>4, <1>5, <1>6, <1>7, <1>8, <1>9 DEF Next

-----------------------------------------------------------------------------
(***************************************************************************)
(* The theorems.                                                           *)
(***************************************************************************)

\* What is asked follows the plan and is new, for any interviews: the other theorems rest on it.
THEOREM InductiveInvariant == Spec => []Inductive
<1> QED
  BY InitInductive, NextInductive, PTL DEF Spec

\* No interview asks a question of the bank twice, whatever earlier ones have asked.
THEOREM AsksNothingTwice == Spec => []NeverRepeats
<1>1. Inductive => NeverRepeats
  BY DEF Inductive
<1> QED
  BY <1>1, InductiveInvariant, PTL

\* An interview has at most one question about the resume, whatever its mode and plan.
THEOREM AsksOnceAboutResume == Spec => []OneResumeQuestion
<1>1. ASSUME Inductive PROVE OneResumeQuestion
  <2> SUFFICES ASSUME NEW i \in DOMAIN asked, NEW k \in DOMAIN asked,
                      asked[i].source = "RESUME", asked[k].source = "RESUME"
               PROVE  i = k
    BY DEF OneResumeQuestion
  <2>1. PICK A : asked \in Seq(A)
    BY <1>1 DEF Inductive, AskedOK
  <2>2. i \in 1 .. Len(asked) /\ k \in 1 .. Len(asked) /\ Len(asked) \in Nat
    BY <2>1
  <2>3. Len(asked) <= Len(Plan) /\ Len(Plan) \in Nat
    BY <1>1, PlanOK DEF Inductive, AskedOK
  <2>4. \/ Plan[i] = Plan[k]
        \/ Plan[i] = "TECHNICAL" /\ \E j \in 1 .. k - 1 : Plan[j] = "BEHAVIORAL" /\ Plan[k] = "BEHAVIORAL"
        \/ Plan[k] = "TECHNICAL" /\ \E j \in 1 .. i - 1 : Plan[j] = "BEHAVIORAL" /\ Plan[i] = "BEHAVIORAL"
    BY <1>1, <2>2 DEF Inductive, ResumesOK
  <2>5. CASE Plan[i] = Plan[k]
    BY <1>1, <2>2, <2>5 DEF Inductive, ResumesOK
  <2>6. CASE Plan[i] # Plan[k]
    <3>1. PICK t \in {i, k}, l \in {i, k}, j \in Nat :
              j \in 1 .. l - 1 /\ Plan[t] = "TECHNICAL" /\ Plan[j] = "BEHAVIORAL" /\ Plan[l] = "BEHAVIORAL"
      BY <2>4, <2>6
    <3>2. t \in 1 .. Len(Plan) /\ l \in 1 .. Len(Plan) /\ j \in 1 .. Len(Plan) /\ j # l
      BY <2>2, <2>3, <3>1
    <3> QED
      BY <1>1, <3>1, <3>2, PlanOK DEF Inductive
  <2> QED
    BY <2>5, <2>6
<1> QED
  BY <1>1, InductiveInvariant, PTL

\* After a weak answer, the next question of its kind from the bank is about the same topic, while
\* the bank has one that has not been asked.
THEOREM ComesBack == Spec => RevisitsWeakTopic
<1> DEFINE Comes ==
        LET q == asked'[Len(asked')]
        IN  /\ Len(asked') > Len(asked)
            /\ interview.adaptive /\ q.kind # "BEHAVIORAL" /\ q.source = "BANK"
            /\ outcome[q.kind] # <<>>
            => LET last == outcome[q.kind][1]
               IN  Weak(last) /\ Unused(q.kind, last.topic) # {} => q.topic = last.topic
<1>1. Inductive /\ [Next]_vars => [Comes]_vars
  BY StepRevisits
<1>2. Spec => [][Comes]_vars
  BY <1>1, InductiveInvariant, PTL DEF Spec
<1> QED
  BY <1>2 DEF RevisitsWeakTopic
=============================================================================
