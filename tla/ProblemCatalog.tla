--------------------------- MODULE ProblemCatalog ---------------------------
(***************************************************************************)
(* The coding problems of the bank (packages/problem-bank/src/problems):   *)
(* what the selection, the harness and the comparison know of each.  Its   *)
(* tests and its two reference solutions are in the Bank modules.          *)
(***************************************************************************)

\* How two outputs of a problem are compared; see OutputsMatch.
Exact == "exact"

Unordered == "unordered"

SortInner == "sortInner"

\* Within 1e-5: the answers of the one problem that asks for it are half numbers.
Float == "float"

Problem(slug, difficulty, topics, returns, comparator) ==
    [id |-> slug, difficulty |-> difficulty, topics |-> topics, returns |-> returns,
     comparator |-> comparator]

-----------------------------------------------------------------------------
(* arrays-hashing.ts *)

twoSum ==
    Problem("two-sum", "EASY", <<"hashing", "arrays-strings">>, "int[]", Unordered)

bestTimeToBuyAndSellStock ==
    Problem("best-time-to-buy-and-sell-stock", "EASY", <<"arrays-strings", "greedy">>, "int", Exact)

productOfArrayExceptSelf ==
    Problem("product-of-array-except-self", "MEDIUM", <<"arrays-strings">>, "int[]", Exact)

validAnagram ==
    Problem("valid-anagram", "EASY", <<"hashing", "arrays-strings">>, "bool", Exact)

topKFrequentElements ==
    Problem("top-k-frequent-elements", "MEDIUM", <<"hashing", "heap">>, "int[]", Unordered)

longestConsecutiveSequence ==
    Problem("longest-consecutive-sequence", "MEDIUM", <<"hashing">>, "int", Exact)

subarraySumEqualsK ==
    Problem("subarray-sum-equals-k", "MEDIUM", <<"hashing", "arrays-strings">>, "int", Exact)

ARRAYS_HASHING ==
    { twoSum, bestTimeToBuyAndSellStock, productOfArrayExceptSelf,
      validAnagram, topKFrequentElements, longestConsecutiveSequence,
      subarraySumEqualsK }

-----------------------------------------------------------------------------
(* two-pointers-window.ts *)

validPalindrome ==
    Problem("valid-palindrome", "EASY", <<"two-pointers", "arrays-strings">>, "bool", Exact)

threeSum ==
    Problem("three-sum", "MEDIUM", <<"two-pointers", "sorting-searching">>, "int[][]", SortInner)

containerWithMostWater ==
    Problem("container-with-most-water", "MEDIUM", <<"two-pointers", "greedy">>, "int", Exact)

longestSubstringWithoutRepeatingCharacters ==
    Problem("longest-substring-without-repeating-characters", "MEDIUM",
            <<"sliding-window", "hashing">>, "int", Exact)

minimumWindowSubstring ==
    Problem("minimum-window-substring", "HARD", <<"sliding-window", "hashing">>, "string", Exact)

slidingWindowMaximum ==
    Problem("sliding-window-maximum", "HARD", <<"sliding-window", "stack-queue">>, "int[]", Exact)

TWO_POINTERS_WINDOW ==
    { validPalindrome, threeSum, containerWithMostWater,
      longestSubstringWithoutRepeatingCharacters, minimumWindowSubstring,
      slidingWindowMaximum }

-----------------------------------------------------------------------------
(* binary-search.ts *)

binarySearch ==
    Problem("binary-search", "EASY", <<"binary-search">>, "int", Exact)

searchInRotatedSortedArray ==
    Problem("search-in-rotated-sorted-array", "MEDIUM", <<"binary-search">>, "int", Exact)

kokoEatingBananas ==
    Problem("koko-eating-bananas", "MEDIUM", <<"binary-search">>, "int", Exact)

medianOfTwoSortedArrays ==
    Problem("median-of-two-sorted-arrays", "HARD", <<"binary-search">>, "double", Float)

BINARY_SEARCH ==
    { binarySearch, searchInRotatedSortedArray, kokoEatingBananas,
      medianOfTwoSortedArrays }

-----------------------------------------------------------------------------
(* lists-stacks.ts *)

reverseLinkedList ==
    Problem("reverse-linked-list", "EASY", <<"linked-list">>, "ListNode", Exact)

mergeTwoSortedLists ==
    Problem("merge-two-sorted-lists", "EASY", <<"linked-list">>, "ListNode", Exact)

removeNthNodeFromEndOfList ==
    Problem("remove-nth-node-from-end-of-list", "MEDIUM",
            <<"linked-list", "two-pointers">>, "ListNode", Exact)

addTwoNumbers ==
    Problem("add-two-numbers", "MEDIUM", <<"linked-list">>, "ListNode", Exact)

validParentheses ==
    Problem("valid-parentheses", "EASY", <<"stack-queue">>, "bool", Exact)

dailyTemperatures ==
    Problem("daily-temperatures", "MEDIUM", <<"stack-queue">>, "int[]", Exact)

evaluateReversePolishNotation ==
    Problem("evaluate-reverse-polish-notation", "MEDIUM", <<"stack-queue">>, "int", Exact)

largestRectangleInHistogram ==
    Problem("largest-rectangle-in-histogram", "HARD", <<"stack-queue">>, "int", Exact)

LISTS_STACKS ==
    { reverseLinkedList, mergeTwoSortedLists, removeNthNodeFromEndOfList,
      addTwoNumbers, validParentheses, dailyTemperatures,
      evaluateReversePolishNotation, largestRectangleInHistogram }

-----------------------------------------------------------------------------
(* trees-heaps.ts *)

maximumDepthOfBinaryTree ==
    Problem("maximum-depth-of-binary-tree", "EASY", <<"trees">>, "int", Exact)

invertBinaryTree ==
    Problem("invert-binary-tree", "EASY", <<"trees">>, "TreeNode", Exact)

binaryTreeLevelOrderTraversal ==
    Problem("binary-tree-level-order-traversal", "MEDIUM", <<"trees", "graphs">>, "int[][]", Exact)

validateBinarySearchTree ==
    Problem("validate-binary-search-tree", "MEDIUM", <<"trees">>, "bool", Exact)

binaryTreeMaximumPathSum ==
    Problem("binary-tree-maximum-path-sum", "HARD",
            <<"trees", "dynamic-programming">>, "int", Exact)

kthLargestElementInAnArray ==
    Problem("kth-largest-element-in-an-array", "MEDIUM",
            <<"heap", "sorting-searching">>, "int", Exact)

lastStoneWeight ==
    Problem("last-stone-weight", "EASY", <<"heap">>, "int", Exact)

mergeKSortedLists ==
    Problem("merge-k-sorted-lists", "HARD", <<"heap", "linked-list">>, "int[]", Exact)

TREES_HEAPS ==
    { maximumDepthOfBinaryTree, invertBinaryTree,
      binaryTreeLevelOrderTraversal, validateBinarySearchTree,
      binaryTreeMaximumPathSum, kthLargestElementInAnArray, lastStoneWeight,
      mergeKSortedLists }

-----------------------------------------------------------------------------
(* graphs.ts *)

numberOfIslands ==
    Problem("number-of-islands", "MEDIUM", <<"graphs">>, "int", Exact)

courseSchedule ==
    Problem("course-schedule", "MEDIUM", <<"graphs">>, "bool", Exact)

rottingOranges ==
    Problem("rotting-oranges", "MEDIUM", <<"graphs", "stack-queue">>, "int", Exact)

networkDelayTime ==
    Problem("network-delay-time", "MEDIUM", <<"graphs", "heap">>, "int", Exact)

wordLadder ==
    Problem("word-ladder", "HARD", <<"graphs">>, "int", Exact)

GRAPHS ==
    { numberOfIslands, courseSchedule, rottingOranges, networkDelayTime,
      wordLadder }

-----------------------------------------------------------------------------
(* backtracking-dp.ts *)

subsets ==
    Problem("subsets", "MEDIUM", <<"backtracking">>, "int[][]", SortInner)

combinationSum ==
    Problem("combination-sum", "MEDIUM", <<"backtracking">>, "int[][]", SortInner)

generateParentheses ==
    Problem("generate-parentheses", "MEDIUM", <<"backtracking">>, "string[]", Unordered)

nQueensII ==
    Problem("n-queens-ii", "HARD", <<"backtracking">>, "int", Exact)

climbingStairs ==
    Problem("climbing-stairs", "EASY", <<"dynamic-programming">>, "int", Exact)

houseRobber ==
    Problem("house-robber", "MEDIUM", <<"dynamic-programming">>, "int", Exact)

coinChange ==
    Problem("coin-change", "MEDIUM", <<"dynamic-programming">>, "int", Exact)

longestIncreasingSubsequence ==
    Problem("longest-increasing-subsequence", "MEDIUM",
            <<"dynamic-programming", "binary-search">>, "int", Exact)

wordBreak ==
    Problem("word-break", "MEDIUM", <<"dynamic-programming">>, "bool", Exact)

editDistance ==
    Problem("edit-distance", "HARD", <<"dynamic-programming">>, "int", Exact)

BACKTRACKING_DP ==
    { subsets, combinationSum, generateParentheses, nQueensII,
      climbingStairs, houseRobber, coinChange, longestIncreasingSubsequence,
      wordBreak, editDistance }

-----------------------------------------------------------------------------
(* greedy-sorting.ts *)

jumpGame ==
    Problem("jump-game", "MEDIUM", <<"greedy", "dynamic-programming">>, "bool", Exact)

nonOverlappingIntervals ==
    Problem("non-overlapping-intervals", "MEDIUM", <<"greedy", "sorting-searching">>, "int", Exact)

mergeIntervals ==
    Problem("merge-intervals", "MEDIUM", <<"sorting-searching">>, "int[][]", Unordered)

meetingRoomsII ==
    Problem("meeting-rooms-ii", "MEDIUM", <<"heap", "sorting-searching", "greedy">>, "int", Exact)

GREEDY_SORTING ==
    { jumpGame, nonOverlappingIntervals, mergeIntervals, meetingRoomsII }

-----------------------------------------------------------------------------
PROBLEMS ==
    UNION { ARRAYS_HASHING, TWO_POINTERS_WINDOW, BINARY_SEARCH, LISTS_STACKS,
            TREES_HEAPS, GRAPHS, BACKTRACKING_DP, GREEDY_SORTING }

ProblemOf(slug) == CHOOSE p \in PROBLEMS : p.id = slug
=============================================================================
