---------------------------- MODULE BankWindows ----------------------------
(***************************************************************************)
(* The problems of two-pointers-window.ts.                                 *)
(***************************************************************************)
EXTENDS BankCases

\* Every stretch lo .. hi of positions of s; a stretch with hi < lo is empty.
Stretches(s) == { w \in (0 .. Len(s)) \X (-1 .. Len(s) - 1) : w[1] <= w[2] + 1 }

Width(w) == w[2] - w[1] + 1

-----------------------------------------------------------------------------
(* valid-palindrome *)

Lowered == [ch \in {"A", "B", "P"} |-> IF ch = "A" THEN "a" ELSE IF ch = "B" THEN "b" ELSE "p"]

Lower(ch) == Lookup(Lowered, ch, ch)

Alphanumeric(ch) == ch \notin {" ", ",", ".", "'"}

PalindromeCases ==
    { Case(<<s>>) : s \in Arrays({"a", "A", "b", "."}, 1, 4) \cup { <<"0", "P">> } }
        \cup { Example(<< <<"A", "b", ",", " ", "B", "a">> >>, TRUE),
               Example(<< <<"a", " ", "b">> >>, FALSE), Example(<< <<" ">> >>, TRUE) }

PalindromeAnswer(s) ==
    LET kept == [i \in DOMAIN SelectSeq(s, Alphanumeric) |-> Lower(SelectSeq(s, Alphanumeric)[i])]
    IN  \A i \in DOMAIN kept : kept[i] = kept[Len(kept) + 1 - i]

PalindromeJs(s) ==
    LET RECURSIVE Go(_, _)
        Go(i, j) ==
            IF i >= j THEN TRUE
            ELSE IF ~ Alphanumeric(At(s, i)) THEN Go(i + 1, j)
            ELSE IF ~ Alphanumeric(At(s, j)) THEN Go(i, j - 1)
            ELSE Lower(At(s, i)) = Lower(At(s, j)) /\ Go(i + 1, j - 1)
    IN  Go(0, Len(s) - 1)

PalindromePy(s) ==
    LET kept == SelectSeq(s, Alphanumeric)
        cleaned == [i \in DOMAIN kept |-> Lower(kept[i])]
    IN  cleaned = Reverse(cleaned)

-----------------------------------------------------------------------------
(* three-sum *)

ThreeSumCases ==
    { Case(<<nums>>) : nums \in Arrays(-1 .. 1, 3, 5) \cup
                                { <<0, 0, 0, 0>>, <<1, 2, -2, -1>>, <<-2, 0, 1, 1, 2>>, <<3, 0, -2, -1, 1, 2>> } }
        \cup { Example(<< <<-1, 0, 1, 2, -1, -4>> >>, << <<-1, -1, 2>>, <<-1, 0, 1>> >>),
               Example(<< <<0, 1, 1>> >>, <<>>), Example(<< <<0, 0, 0>> >>, << <<0, 0, 0>> >>) }

ThreeSumAnswer(nums) ==
    LET I == DOMAIN nums
    IN  Listed({ Ascending(<<nums[t[1]], nums[t[2]], nums[t[3]]>>) :
                   t \in { u \in I \X I \X I : /\ u[1] < u[2] /\ u[2] < u[3]
                                               /\ nums[u[1]] + nums[u[2]] + nums[u[3]] = 0 } })

ThreeSumJs(nums) ==
    LET a == Ascending(nums)
        RECURSIVE SkipUp(_, _)
        SkipUp(lo, hi) == IF lo < hi /\ At(a, lo) = At(a, lo + 1) THEN SkipUp(lo + 1, hi) ELSE lo
        RECURSIVE SkipDown(_, _)
        SkipDown(lo, hi) == IF lo < hi /\ At(a, hi) = At(a, hi - 1) THEN SkipDown(lo, hi - 1) ELSE hi
        RECURSIVE Meet(_, _, _)
        Meet(i, lo, hi) ==
            LET s == At(a, i) + At(a, lo) + At(a, hi)
                up == SkipUp(lo, hi)
            IN  IF lo >= hi THEN <<>>
                ELSE IF s = 0
                THEN << <<At(a, i), At(a, lo), At(a, hi)>> >> \o Meet(i, up + 1, SkipDown(up, hi) - 1)
                ELSE IF s < 0 THEN Meet(i, lo + 1, hi)
                ELSE Meet(i, lo, hi - 1)
        From(i) == IF i > 0 /\ At(a, i) = At(a, i - 1) THEN <<>> ELSE Meet(i, i + 1, Len(a) - 1)
    IN  FoldLeft(LAMBDA out, i : out \o From(i), <<>>, Upto(0, Len(a) - 3))

ThreeSumPy(nums) ==
    LET First(found, i) ==
            FoldLeft(LAMBDA st, j :
                        LET need == -At(nums, i) - At(nums, j)
                        IN  [seen |-> st.seen \cup {At(nums, j)},
                             found |-> IF need \in st.seen
                                       THEN st.found \cup {Ascending(<<At(nums, i), At(nums, j), need>>)}
                                       ELSE st.found],
                     [seen |-> {}, found |-> found], Upto(i + 1, Len(nums) - 1)).found
    IN  Listed(FoldLeft(First, {}, Positions(nums)))

-----------------------------------------------------------------------------
(* container-with-most-water *)

ContainerCases ==
    { Case(<<height>>) : height \in Arrays(0 .. 3, 2, 4) }
        \cup { Example(<< <<1, 8, 6, 2, 5, 4, 8, 3, 7>> >>, 49), Example(<< <<1, 1>> >>, 1) }

ContainerAnswer(height) ==
    Max({ (j - i) * Smaller(height[i], height[j]) : i, j \in DOMAIN height })

ContainerJs(height) ==
    LET RECURSIVE Go(_, _, _)
        Go(i, j, best) ==
            LET more == Larger(best, (j - i) * Smaller(At(height, i), At(height, j))) IN
            IF i >= j THEN best
            ELSE IF At(height, i) < At(height, j) THEN Go(i + 1, j, more)
            ELSE Go(i, j - 1, more)
    IN  Go(0, Len(height) - 1, 0)

ContainerPy(height) ==
    LET RECURSIVE Left(_, _, _)
        Left(left, right, h) ==
            IF left < right /\ At(height, left) <= h THEN Left(left + 1, right, h) ELSE left
        RECURSIVE Right(_, _, _)
        Right(left, right, h) ==
            IF left < right /\ At(height, right) <= h THEN Right(left, right - 1, h) ELSE right
        RECURSIVE Go(_, _, _)
        Go(left, right, best) ==
            LET h == Smaller(At(height, left), At(height, right))
                moved == Left(left, right, h)
            IN  IF left >= right THEN best
                ELSE Go(moved, Right(moved, right, h), Larger(best, h * (right - left)))
    IN  Go(0, Len(height) - 1, 0)

-----------------------------------------------------------------------------
(* longest-substring-without-repeating-characters *)

SubstringCases ==
    { Case(<<s>>) : s \in Arrays({"a", "b", "c"}, 0, 5) \cup { <<"t", "m", "m", "z", "u", "x", "t">> } }
        \cup { Example(<< <<"a", "b", "c", "a", "b", "c", "b", "b">> >>, 3),
               Example(<< <<"b", "b", "b", "b", "b">> >>, 1),
               Example(<< <<"p", "w", "w", "k", "e", "w">> >>, 3) }

SubstringAnswer(s) ==
    Max({ Width(w) : w \in { v \in Stretches(s) : \A i, j \in v[1] .. v[2] : At(s, i) = At(s, j) => i = j } })

SubstringJs(s) ==
    LET Visit(st, i) ==
            LET prev == Lookup(st.last, At(s, i), -1)
                start == IF prev # -1 /\ prev >= st.start THEN prev + 1 ELSE st.start
            IN  [last |-> (At(s, i) :> i) @@ st.last, start |-> start,
                 best |-> Larger(st.best, i - start + 1)]
    IN  FoldLeft(Visit, [last |-> <<>>, start |-> 0, best |-> 0], Positions(s)).best

SubstringPy(s) ==
    LET RECURSIVE Shrink(_, _, _)
        Shrink(window, left, ch) ==
            IF ch \in window THEN Shrink(window \ {At(s, left)}, left + 1, ch) ELSE <<window, left>>
        Visit(st, right) ==
            LET shrunk == Shrink(st.window, st.left, At(s, right))
            IN  [window |-> shrunk[1] \cup {At(s, right)}, left |-> shrunk[2],
                 best |-> Larger(st.best, right - shrunk[2] + 1)]
    IN  FoldLeft(Visit, [window |-> {}, left |-> 0, best |-> 0], Positions(s)).best

-----------------------------------------------------------------------------
(* minimum-window-substring *)

Count(s, lo, hi, ch) == Cardinality({ i \in lo .. hi : At(s, i) = ch })

Covers(s, w, t) == \A ch \in ToSet(t) : Count(s, w[1], w[2], ch) >= Count(t, 0, Len(t) - 1, ch)

\* The number of shortest windows of s that cover t; minWindowCase keeps the cases with one.
MinWindowStats(s, t) ==
    LET covering == { w \in Stretches(s) : Covers(s, w, t) }
    IN  Cardinality({ w \in covering : \A v \in covering : Width(w) <= Width(v) })

WindowCases ==
    { Case(a) : a \in { <<s, t>> \in Arrays({"a", "b", "c"}, 1, 4) \X Arrays({"a", "b"}, 1, 3) :
                            MinWindowStats(s, t) <= 1 } }
        \cup { Example(<< <<"A", "D", "O", "B", "E", "C", "O", "D", "E", "B", "A", "N", "C">>,
                          <<"A", "B", "C">> >>, <<"B", "A", "N", "C">>),
               Example(<< <<"a">>, <<"a">> >>, <<"a">>), Example(<< <<"a">>, <<"a", "a">> >>, <<>>) }

WindowAnswer(s, t) ==
    LET covering == { w \in Stretches(s) : Covers(s, w, t) }
        least == CHOOSE w \in covering : \A v \in covering : Width(w) <= Width(v)
    IN  IF covering = {} THEN <<>> ELSE SubSeq(s, least[1] + 1, least[2] + 1)

WindowJs(s, t) ==
    LET RECURSIVE Shrink(_, _)
        Shrink(st, right) ==
            LET d == At(s, st.left)
                needed == d \in DOMAIN st.need
                more == IF needed THEN [st.need EXCEPT ![d] = @ + 1] ELSE st.need
                better == right - st.left + 1 < st.bestLen
            IN  IF st.missing # 0 THEN st
                ELSE Shrink([need |-> more,
                             missing |-> IF needed /\ more[d] > 0 THEN 1 ELSE 0,
                             left |-> st.left + 1,
                             bestStart |-> IF better THEN st.left ELSE st.bestStart,
                             bestLen |-> IF better THEN right - st.left + 1 ELSE st.bestLen], right)
        Visit(st, right) ==
            LET c == At(s, right)
            IN  Shrink(IF c \notin DOMAIN st.need THEN st
                       ELSE [st EXCEPT !.missing = IF st.need[c] > 0 THEN @ - 1 ELSE @,
                                       !.need[c] = @ - 1], right)
        end == FoldLeft(Visit, [need |-> [ch \in ToSet(t) |-> Count(t, 0, Len(t) - 1, ch)],
                                missing |-> Len(t), left |-> 0, bestStart |-> 0, bestLen |-> Infinity],
                        Positions(s))
    IN  IF end.bestLen = Infinity THEN <<>> ELSE SubSeq(s, end.bestStart + 1, end.bestStart + end.bestLen)

WindowPy(s, t) ==
    LET need == [ch \in ToSet(t) |-> Count(t, 0, Len(t) - 1, ch)]
        Add(window, ch, n) == (ch :> (Lookup(window, ch, 0) + n)) @@ window
        RECURSIVE Shrink(_, _)
        Shrink(st, right) ==
            LET out == At(s, st.left)
                window == Add(st.window, out, -1)
            IN  IF st.formed # Cardinality(DOMAIN need) THEN st
                ELSE Shrink([window |-> window, left |-> st.left + 1,
                             formed |-> IF out \in DOMAIN need /\ window[out] < Lookup(need, out, 0)
                                        THEN st.formed - 1 ELSE st.formed,
                             best |-> IF right - st.left + 1 < st.best[1]
                                      THEN <<right - st.left + 1, st.left, right + 1>>
                                      ELSE st.best], right)
        Visit(st, right) ==
            LET ch == At(s, right)
                window == Add(st.window, ch, 1)
                full == ch \in DOMAIN need /\ window[ch] = Lookup(need, ch, 0)
            IN  Shrink([st EXCEPT !.window = window, !.formed = IF full THEN @ + 1 ELSE @], right)
        best == FoldLeft(Visit, [window |-> <<>>, left |-> 0, formed |-> 0, best |-> <<Infinity, 0, 0>>],
                         Positions(s)).best
    IN  IF best[1] = Infinity THEN <<>> ELSE SubSeq(s, best[2] + 1, best[3])

-----------------------------------------------------------------------------
(* sliding-window-maximum *)

SlidingCases ==
    { Case(a) : a \in { <<nums, k>> \in Arrays(-1 .. 1, 1, 5) \X (1 .. 5) : k <= Len(nums) } }
        \cup { Example(<< <<1, 3, -1, -3, 5, 3, 6, 7>>, 3>>, <<3, 3, 5, 5, 6, 7>>), Example(<< <<1>>, 1>>, <<1>>) }

SlidingAnswer(nums, k) ==
    [i \in 1 .. Len(nums) - k + 1 |-> Max({ nums[j] : j \in i .. i + k - 1 })]

SlidingJs(nums, k) ==
    LET RECURSIVE Drop(_, _, _)
        Drop(dq, head, x) ==
            IF Len(dq) > head /\ At(nums, Last(dq)) <= x THEN Drop(Front(dq), head, x) ELSE dq
        Visit(st, i) ==
            LET dq == Append(Drop(st.dq, st.head, At(nums, i)), i)
                head == IF At(dq, st.head) <= i - k THEN st.head + 1 ELSE st.head
            IN  [dq |-> dq, head |-> head,
                 out |-> IF i >= k - 1 THEN Append(st.out, At(nums, At(dq, head))) ELSE st.out]
    IN  FoldLeft(Visit, [dq |-> <<>>, head |-> 0, out |-> <<>>], Positions(nums)).out

\* The heap is the set of its pairs; its least has the largest value, and the first of those.
SlidingPy(nums, k) ==
    LET Least(heap) == CHOOSE a \in heap : \A b \in heap : a[1] < b[1] \/ (a[1] = b[1] /\ a[2] <= b[2])
        RECURSIVE Prune(_, _)
        Prune(heap, i) == IF Least(heap)[2] <= i - k THEN Prune(heap \ {Least(heap)}, i) ELSE heap
        Visit(st, i) ==
            LET pushed == st.heap \cup {<< -At(nums, i), i>>}
                heap == IF i >= k - 1 THEN Prune(pushed, i) ELSE pushed
            IN  [heap |-> heap, out |-> IF i >= k - 1 THEN Append(st.out, -Least(heap)[1]) ELSE st.out]
    IN  FoldLeft(Visit, [heap |-> {}, out |-> <<>>], Positions(nums)).out

-----------------------------------------------------------------------------
TwoPointersWindow ==
    { "valid-palindrome", "three-sum", "container-with-most-water",
      "longest-substring-without-repeating-characters", "minimum-window-substring",
      "sliding-window-maximum" }

WindowsCases(slug) ==
    CASE slug = "valid-palindrome" -> PalindromeCases
      [] slug = "three-sum" -> ThreeSumCases
      [] slug = "container-with-most-water" -> ContainerCases
      [] slug = "longest-substring-without-repeating-characters" -> SubstringCases
      [] slug = "minimum-window-substring" -> WindowCases
      [] slug = "sliding-window-maximum" -> SlidingCases

WindowsSolved(slug, a) ==
    CASE slug = "valid-palindrome" ->
            Solved(PalindromeAnswer(a[1]), PalindromeJs(a[1]), PalindromePy(a[1]))
      [] slug = "three-sum" -> Solved(ThreeSumAnswer(a[1]), ThreeSumJs(a[1]), ThreeSumPy(a[1]))
      [] slug = "container-with-most-water" ->
            Solved(ContainerAnswer(a[1]), ContainerJs(a[1]), ContainerPy(a[1]))
      [] slug = "longest-substring-without-repeating-characters" ->
            Solved(SubstringAnswer(a[1]), SubstringJs(a[1]), SubstringPy(a[1]))
      [] slug = "minimum-window-substring" ->
            Solved(WindowAnswer(a[1], a[2]), WindowJs(a[1], a[2]), WindowPy(a[1], a[2]))
      [] slug = "sliding-window-maximum" ->
            Solved(SlidingAnswer(a[1], a[2]), SlidingJs(a[1], a[2]), SlidingPy(a[1], a[2]))
=============================================================================
