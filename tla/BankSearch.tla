----------------------------- MODULE BankSearch -----------------------------
(***************************************************************************)
(* The problems of binary-search.ts and of greedy-sorting.ts.              *)
(***************************************************************************)
EXTENDS BankCases

-----------------------------------------------------------------------------
(* binary-search *)

IndexIn(nums, target) ==
    IF target \in ToSet(nums) THEN (CHOOSE i \in DOMAIN nums : nums[i] = target) - 1 ELSE -1

SearchCases ==
    { Case(<<Ascending(Listed(S)), target>>) : S \in SUBSET (0 .. 5) \ {{}}, target \in -1 .. 6 }
        \cup { Example(<< <<-1, 0, 3, 5, 9, 12>>, 9>>, 4), Example(<< <<-1, 0, 3, 5, 9, 12>>, 2>>, -1) }

SearchAnswer(nums, target) == IndexIn(nums, target)

SearchJs(nums, target) ==
    LET RECURSIVE Halve(_, _)
        Halve(lo, hi) ==
            LET mid == lo + ((hi - lo) \div 2) IN
            IF lo > hi THEN -1
            ELSE IF At(nums, mid) = target THEN mid
            ELSE IF At(nums, mid) < target THEN Halve(mid + 1, hi)
            ELSE Halve(lo, mid - 1)
    IN  Halve(0, Len(nums) - 1)

SearchPy(nums, target) ==
    LET i == BisectLeft(nums, target) IN
    IF i < Len(nums) /\ At(nums, i) = target THEN i ELSE -1

-----------------------------------------------------------------------------
(* search-in-rotated-sorted-array *)

Rotated(nums, k) == SubSeq(nums, k + 1, Len(nums)) \o SubSeq(nums, 1, k)

RotatedCases ==
    { Case(<<Rotated(Ascending(Listed(S)), k % Cardinality(S)), target>>) :
        S \in SUBSET (0 .. 4) \ {{}}, k \in 0 .. 4, target \in -1 .. 5 }
        \cup { Example(<< <<4, 5, 6, 7, 0, 1, 2>>, 0>>, 4),
               Example(<< <<4, 5, 6, 7, 0, 1, 2>>, 3>>, -1), Example(<< <<1>>, 0>>, -1) }

RotatedAnswer(nums, target) == IndexIn(nums, target)

RotatedJs(nums, target) ==
    LET RECURSIVE Halve(_, _)
        Halve(lo, hi) ==
            LET mid == (lo + hi) \div 2
                leftHolds == At(nums, lo) <= target /\ target < At(nums, mid)
                rightHolds == At(nums, mid) < target /\ target <= At(nums, hi)
                goLeft == IF At(nums, lo) <= At(nums, mid) THEN leftHolds ELSE ~ rightHolds
            IN  IF lo > hi THEN -1
                ELSE IF At(nums, mid) = target THEN mid
                ELSE IF goLeft THEN Halve(lo, mid - 1)
                ELSE Halve(mid + 1, hi)
    IN  Halve(0, Len(nums) - 1)

RotatedPy(nums, target) ==
    LET RECURSIVE Pivot(_, _)
        Pivot(lo, hi) ==
            LET mid == (lo + hi) \div 2 IN
            IF lo >= hi THEN lo
            ELSE IF At(nums, mid) > At(nums, hi) THEN Pivot(mid + 1, hi)
            ELSE Pivot(lo, mid)
        pivot == Pivot(0, Len(nums) - 1)
        rotated == Rotated(nums, pivot)
        i == BisectLeft(rotated, target)
    IN  IF i < Len(rotated) /\ At(rotated, i) = target THEN (i + pivot) % Len(nums) ELSE -1

-----------------------------------------------------------------------------
(* koko-eating-bananas *)

CeilDiv(p, k) == (p + k - 1) \div k

HoursAt(piles, k) == FoldLeft(LAMBDA hours, p : hours + CeilDiv(p, k), 0, piles)

KokoCases ==
    { Case(<<piles, Len(piles) + spare>>) : piles \in Arrays(1 .. 5, 1, 3), spare \in 0 .. 2 }
        \cup { Example(<< <<3, 6, 7, 11>>, 8>>, 4), Example(<< <<30, 11, 23, 4, 20>>, 5>>, 30),
               Example(<< <<30, 11, 23, 4, 20>>, 6>>, 23) }

\* The least speed that is fast enough.
KokoAnswer(piles, h) ==
    Min({ k \in 1 .. Max(ToSet(piles)) : HoursAt(piles, k) <= h })

KokoJs(piles, h) ==
    LET RECURSIVE Halve(_, _)
        Halve(lo, hi) ==
            LET mid == (lo + hi) \div 2 IN
            IF lo >= hi THEN lo
            ELSE IF HoursAt(piles, mid) <= h THEN Halve(lo, mid)
            ELSE Halve(mid + 1, hi)
    IN  Halve(1, Max(ToSet(piles)))

\* bisect_left over the keys of range(1, max + 1): False sorts before True.
KokoPy(piles, h) ==
    LET RECURSIVE Bisect(_, _)
        Bisect(lo, hi) ==
            LET mid == (lo + hi) \div 2 IN
            IF lo >= hi THEN lo
            ELSE IF HoursAt(piles, mid + 1) <= h THEN Bisect(lo, mid)
            ELSE Bisect(mid + 1, hi)
    IN  Bisect(0, Max(ToSet(piles))) + 1

-----------------------------------------------------------------------------
(* median-of-two-sorted-arrays: a double that is a multiple of a half, counted in halves *)

MedianCases ==
    { Case(a) : a \in { <<s, t>> \in SortedArrays(0 .. 2, 0, 3) \X SortedArrays(0 .. 2, 0, 3) :
                          Len(s) + Len(t) >= 1 } }
        \cup { Case(<< <<-1000000>>, <<1000000>> >>) }
        \cup { Example(<< <<1, 3>>, <<2>> >>, 4), Example(<< <<1, 2>>, <<3, 4>> >>, 5) }

\* The value with exactly k others before it in sorted order.
Ranked(nums, k) ==
    CHOOSE v \in ToSet(nums) : /\ Cardinality({ i \in DOMAIN nums : nums[i] < v }) <= k
                               /\ Cardinality({ i \in DOMAIN nums : nums[i] <= v }) > k

MedianAnswer(nums1, nums2) ==
    LET all == nums1 \o nums2 IN
    Ranked(all, (Len(all) - 1) \div 2) + Ranked(all, Len(all) \div 2)

HugeValue == 100000000      \* beyond every value: the +-Infinity of the partition

MedianJs(nums1, nums2) ==
    LET a == IF Len(nums1) > Len(nums2) THEN nums2 ELSE nums1
        b == IF Len(nums1) > Len(nums2) THEN nums1 ELSE nums2
        half == (Len(a) + Len(b) + 1) \div 2
        Left(s, i) == IF i = 0 THEN -HugeValue ELSE At(s, i - 1)
        Right(s, i) == IF i = Len(s) THEN HugeValue ELSE At(s, i)
        RECURSIVE Halve(_, _)
        Halve(lo, hi) ==
            LET i == (lo + hi) \div 2
                j == half - i
                leftMax == Larger(Left(a, i), Left(b, j))
            IN  IF lo > hi THEN 0
                ELSE IF Left(a, i) <= Right(b, j) /\ Left(b, j) <= Right(a, i)
                THEN IF (Len(a) + Len(b)) % 2 = 1 THEN 2 * leftMax
                     ELSE leftMax + Smaller(Right(a, i), Right(b, j))
                ELSE IF Left(a, i) > Right(b, j) THEN Halve(lo, i - 1)
                ELSE Halve(i + 1, hi)
    IN  Halve(0, Len(a))

MedianPy(nums1, nums2) ==
    LET merged == Ascending(nums1 \o nums2)
        n == Len(merged)
    IN  IF n % 2 = 1 THEN 2 * At(merged, n \div 2) ELSE At(merged, n \div 2 - 1) + At(merged, n \div 2)

-----------------------------------------------------------------------------
(* jump-game *)

JumpCases ==
    { Case(<<nums>>) : nums \in Arrays(0 .. 2, 1, 4) }
        \cup { Example(<< <<2, 3, 1, 1, 4>> >>, TRUE), Example(<< <<3, 2, 1, 0, 4>> >>, FALSE) }

\* Some increasing set of stops leads from the first index to the last one.
JumpAnswer(nums) ==
    \E stops \in SUBSET (1 .. Len(nums)) :
        /\ {1, Len(nums)} \subseteq stops
        /\ \A i \in stops \ {Len(nums)} : \E j \in stops : i < j /\ j <= i + nums[i]

JumpJs(nums) ==
    LET Visit(s, i) ==
            IF ~ s.ok \/ i > s.reach THEN [s EXCEPT !.ok = FALSE]
            ELSE [s EXCEPT !.reach = Larger(s.reach, i + At(nums, i))]
    IN  FoldLeft(Visit, [reach |-> 0, ok |-> TRUE], Positions(nums)).ok

JumpPy(nums) ==
    FoldLeft(LAMBDA goal, i : IF i + At(nums, i) >= goal THEN i ELSE goal,
             Len(nums) - 1, Reverse(Upto(0, Len(nums) - 2))) = 0

-----------------------------------------------------------------------------
(* non-overlapping-intervals *)

Intervals(latest, shortest) ==
    { <<s, e>> \in (0 .. latest) \X (0 .. latest) : e - s >= shortest }

EraseCases ==
    { Case(<<intervals>>) : intervals \in Arrays(Intervals(3, 1), 1, 3) }
        \cup { Example(<< << <<1, 2>>, <<2, 3>>, <<3, 4>>, <<1, 3>> >> >>, 1),
               Example(<< << <<1, 2>>, <<1, 2>>, <<1, 2>> >> >>, 2),
               Example(<< << <<1, 2>>, <<2, 3>> >> >>, 0) }

EraseAnswer(intervals) ==
    LET Apart(p, q) == p[2] <= q[1] \/ q[2] <= p[1]
        kept == { K \in SUBSET DOMAIN intervals :
                    \A i, j \in K : i = j \/ Apart(intervals[i], intervals[j]) }
    IN  Len(intervals) - Max({ Cardinality(K) : K \in kept })

EraseJs(intervals) ==
    LET a == SortSeq(intervals, LAMBDA x, y : x[2] < y[2])
        Visit(s, x) == IF x[1] >= s.end THEN [kept |-> s.kept + 1, end |-> x[2]] ELSE s
    IN  Len(a) - FoldLeft(Visit, [kept |-> 0, end |-> -Infinity], a).kept

\* How sorted() orders pairs.
Before(x, y) == x[1] < y[1] \/ (x[1] = y[1] /\ x[2] < y[2])

ErasePy(intervals) ==
    LET Visit(s, x) ==
            IF x[1] >= s.end THEN [s EXCEPT !.end = x[2]]
            ELSE [removed |-> s.removed + 1, end |-> Smaller(s.end, x[2])]
    IN  FoldLeft(Visit, [removed |-> 0, end |-> -Infinity], SortSeq(intervals, Before)).removed

-----------------------------------------------------------------------------
(* merge-intervals *)

MergeCases ==
    { Case(<<intervals>>) : intervals \in Arrays(Intervals(3, 0), 1, 2) \cup Arrays(Intervals(2, 0), 3, 3) }
        \cup { Example(<< << <<1, 3>>, <<2, 6>>, <<8, 10>>, <<15, 18>> >> >>,
                       << <<1, 6>>, <<8, 10>>, <<15, 18>> >>),
               Example(<< << <<1, 4>>, <<4, 5>> >> >>, << <<1, 5>> >>) }

\* The intervals grouped by touching, directly or through others; a group spans from its
\* first start to its last end.
MergeAnswer(intervals) ==
    LET Touch(p, q) == p[1] <= q[2] /\ q[1] <= p[2]
        group[n \in Nat, p \in ToSet(intervals)] ==
            IF n = 0 THEN {p}
            ELSE { q \in ToSet(intervals) : \E r \in group[n - 1, p] : Touch(q, r) }
        Span(S) == <<Min({ p[1] : p \in S }), Max({ p[2] : p \in S })>>
    IN  Listed({ Span(group[Len(intervals), p]) : p \in ToSet(intervals) })

MergeJs(intervals) ==
    LET Visit(out, x) ==
            IF out # <<>> /\ x[1] <= Last(out)[2]
            THEN [out EXCEPT ![Len(out)][2] = Larger(Last(out)[2], x[2])]
            ELSE Append(out, x)
    IN  FoldLeft(Visit, <<>>, SortSeq(intervals, LAMBDA x, y : x[1] < y[1]))

MergePy(intervals) ==
    LET events == SortSeq(FlattenSeq([i \in DOMAIN intervals |->
                              << <<intervals[i][1], 0>>, <<intervals[i][2], 1>> >>]), Before)
        Start(s, x) ==
            IF s.depth > 0 THEN [s EXCEPT !.depth = s.depth + 1]
            ELSE IF s.out # <<>> /\ Last(s.out)[2] = x
            THEN [out |-> Front(s.out), depth |-> 1, start |-> Last(s.out)[1]]
            ELSE [s EXCEPT !.depth = 1, !.start = x]
        End(s, x) ==
            [s EXCEPT !.depth = s.depth - 1,
                      !.out = IF s.depth = 1 THEN Append(s.out, <<s.start, x>>) ELSE s.out]
    IN  FoldLeft(LAMBDA s, e : IF e[2] = 0 THEN Start(s, e[1]) ELSE End(s, e[1]),
                 [out |-> <<>>, depth |-> 0, start |-> 0], events).out

-----------------------------------------------------------------------------
(* meeting-rooms-ii *)

RoomsCases ==
    { Case(<<intervals>>) : intervals \in Arrays(Intervals(3, 1), 1, 3) }
        \cup { Example(<< << <<0, 30>>, <<5, 10>>, <<15, 20>> >> >>, 2),
               Example(<< << <<7, 10>>, <<2, 4>> >> >>, 1) }

\* The most meetings under way at one instant; one of the starts is such an instant.
RoomsAnswer(intervals) ==
    Max({ Cardinality({ i \in DOMAIN intervals : intervals[i][1] <= t /\ t < intervals[i][2] }) :
            t \in { x[1] : x \in ToSet(intervals) } })

RoomsJs(intervals) ==
    LET starts == Ascending([i \in DOMAIN intervals |-> intervals[i][1]])
        ends == Ascending([i \in DOMAIN intervals |-> intervals[i][2]])
        RECURSIVE Free(_, _)
        Free(s, start) ==
            IF s.j < Len(ends) /\ At(ends, s.j) <= start
            THEN Free([s EXCEPT !.j = s.j + 1, !.rooms = s.rooms - 1], start)
            ELSE s
        Visit(s, start) ==
            LET f == Free(s, start) IN
            [f EXCEPT !.rooms = f.rooms + 1, !.best = Larger(f.best, f.rooms + 1)]
    IN  FoldLeft(Visit, [rooms |-> 0, best |-> 0, j |-> 0], starts).best

\* A heap is the sorted sequence of its members: its head is heap[0].
RoomsPy(intervals) ==
    LET Visit(heap, x) ==
            IF heap # <<>> /\ Head(heap) <= x[1] THEN Ascending(Append(Tail(heap), x[2]))
            ELSE Ascending(Append(heap, x[2]))
    IN  Len(FoldLeft(Visit, <<>>, SortSeq(intervals, Before)))

-----------------------------------------------------------------------------
SearchSorting ==
    { "binary-search", "search-in-rotated-sorted-array", "koko-eating-bananas",
      "median-of-two-sorted-arrays", "jump-game", "non-overlapping-intervals",
      "merge-intervals", "meeting-rooms-ii" }

SearchSortingCases(slug) ==
    CASE slug = "binary-search" -> SearchCases
      [] slug = "search-in-rotated-sorted-array" -> RotatedCases
      [] slug = "koko-eating-bananas" -> KokoCases
      [] slug = "median-of-two-sorted-arrays" -> MedianCases
      [] slug = "jump-game" -> JumpCases
      [] slug = "non-overlapping-intervals" -> EraseCases
      [] slug = "merge-intervals" -> MergeCases
      [] slug = "meeting-rooms-ii" -> RoomsCases

SearchSortingSolved(slug, a) ==
    CASE slug = "binary-search" ->
            Solved(SearchAnswer(a[1], a[2]), SearchJs(a[1], a[2]), SearchPy(a[1], a[2]))
      [] slug = "search-in-rotated-sorted-array" ->
            Solved(RotatedAnswer(a[1], a[2]), RotatedJs(a[1], a[2]), RotatedPy(a[1], a[2]))
      [] slug = "koko-eating-bananas" ->
            Solved(KokoAnswer(a[1], a[2]), KokoJs(a[1], a[2]), KokoPy(a[1], a[2]))
      [] slug = "median-of-two-sorted-arrays" ->
            Solved(MedianAnswer(a[1], a[2]), MedianJs(a[1], a[2]), MedianPy(a[1], a[2]))
      [] slug = "jump-game" -> Solved(JumpAnswer(a[1]), JumpJs(a[1]), JumpPy(a[1]))
      [] slug = "non-overlapping-intervals" ->
            Solved(EraseAnswer(a[1]), EraseJs(a[1]), ErasePy(a[1]))
      [] slug = "merge-intervals" -> Solved(MergeAnswer(a[1]), MergeJs(a[1]), MergePy(a[1]))
      [] slug = "meeting-rooms-ii" -> Solved(RoomsAnswer(a[1]), RoomsJs(a[1]), RoomsPy(a[1]))
=============================================================================
