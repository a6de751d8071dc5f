----------------------------- MODULE BankArrays -----------------------------
(***************************************************************************)
(* The problems of arrays-hashing.ts.                                      *)
(***************************************************************************)
EXTENDS BankCases

-----------------------------------------------------------------------------
(* two-sum *)

PairsWithSum(nums, target) ==
    { <<i, j>> \in (0 .. Len(nums) - 1) \X (0 .. Len(nums) - 1) :
        i < j /\ At(nums, i) + At(nums, j) = target }

TwoSumCases ==
    { Case(a) : a \in { <<nums, target>> \in Arrays(-1 .. 2, 2, 3) \X (-2 .. 4) :
                          Cardinality(PairsWithSum(nums, target)) = 1 } }
        \cup { Example(<< <<2, 7, 11, 15>>, 9>>, <<0, 1>>),
               Example(<< <<3, 2, 4>>, 6>>, <<1, 2>>),
               Example(<< <<3, 3>>, 6>>, <<0, 1>>) }

TwoSumAnswer(nums, target) == CHOOSE pair \in PairsWithSum(nums, target) : TRUE

TwoSumJs(nums, target) ==
    LET Visit(found, i) ==
            LET need == target - At(nums, i) IN
            IF found.out # <<>> THEN found
            ELSE IF need \in DOMAIN found.seen
            THEN [found EXCEPT !.out = <<found.seen[need], i>>]
            ELSE [found EXCEPT !.seen = (At(nums, i) :> i) @@ found.seen]
    IN  FoldLeft(Visit, [seen |-> <<>>, out |-> <<>>], Positions(nums)).out

TwoSumPy(nums, target) ==
    LET order == SortSeq(Positions(nums), LAMBDA i, j : At(nums, i) < At(nums, j))
        RECURSIVE Close(_, _)
        Close(lo, hi) ==
            LET sum == At(nums, At(order, lo)) + At(nums, At(order, hi)) IN
            IF lo >= hi THEN <<>>
            ELSE IF sum = target THEN Ascending(<<At(order, lo), At(order, hi)>>)
            ELSE IF sum < target THEN Close(lo + 1, hi)
            ELSE Close(lo, hi - 1)
    IN  Close(0, Len(nums) - 1)

-----------------------------------------------------------------------------
(* best-time-to-buy-and-sell-stock *)

BestTimeCases ==
    { Case(<<prices>>) : prices \in Arrays(0 .. 2, 1, 4) }
        \cup { Example(<< <<7, 1, 5, 3, 6, 4>> >>, 5), Example(<< <<7, 6, 4, 3, 1>> >>, 0) }

BestTimeAnswer(prices) ==
    Max({0} \cup { prices[days[2]] - prices[days[1]] :
                     days \in { d \in (DOMAIN prices) \X (DOMAIN prices) : d[1] < d[2] } })

BestTimeJs(prices) ==
    LET Day(s, p) == IF p < s.low THEN [s EXCEPT !.low = p]
                     ELSE IF p - s.low > s.best THEN [s EXCEPT !.best = p - s.low]
                     ELSE s
    IN  FoldLeft(Day, [best |-> 0, low |-> Infinity], prices).best

BestTimePy(prices) ==
    LET Day(s, i) ==
            LET cur == Larger(0, s.cur + At(prices, i) - At(prices, i - 1)) IN
            [cur |-> cur, best |-> Larger(s.best, cur)]
    IN  FoldLeft(Day, [cur |-> 0, best |-> 0], Upto(1, Len(prices) - 1)).best

-----------------------------------------------------------------------------
(* product-of-array-except-self *)

ProductCases ==
    { Case(<<nums>>) : nums \in Arrays(-1 .. 2, 2, 3) \cup { <<2, 3, 0, 4>>, <<5, 7>> } }
        \cup { Example(<< <<1, 2, 3, 4>> >>, <<24, 12, 8, 6>>),
               Example(<< <<-1, 1, 0, -3, 3>> >>, <<0, 0, 9, 0, 0>>) }

ProductAnswer(nums) ==
    [i \in DOMAIN nums |-> FoldLeft(LAMBDA product, x : product * x, 1, RemoveAt(nums, i))]

ProductJs(nums) ==
    LET n == Len(nums)
        Prefix(out, i) == [out EXCEPT ![i + 1] = At(out, i - 1) * At(nums, i - 1)]
        Suffix(s, i) == [out |-> [s.out EXCEPT ![i + 1] = s.out[i + 1] * s.suffix],
                         suffix |-> s.suffix * At(nums, i)]
        prefixes == FoldLeft(Prefix, [i \in 1 .. n |-> 1], Upto(1, n - 1))
    IN  FoldLeft(Suffix, [out |-> prefixes, suffix |-> 1], Reverse(Positions(nums))).out

ProductPy(nums) ==
    LET n == Len(nums)
        prefix[i \in 0 .. n] == IF i = 0 THEN 1 ELSE prefix[i - 1] * At(nums, i - 1)
        suffix[i \in 0 .. n] == IF i = n THEN 1 ELSE suffix[i + 1] * At(nums, i)
    IN  [i \in 1 .. n |-> prefix[i - 1] * suffix[i]]

-----------------------------------------------------------------------------
(* valid-anagram *)

AnagramCases ==
    { Case(a) : a \in Arrays({"a", "b"}, 1, 3) \X Arrays({"a", "b"}, 1, 3) }
        \cup { Example(<< <<"a", "n", "a", "g", "r", "a", "m">>,
                          <<"n", "a", "g", "a", "r", "a", "m">> >>, TRUE),
               Example(<< <<"r", "a", "t">>, <<"c", "a", "r">> >>, FALSE) }

AnagramAnswer(s, t) ==
    Len(s) = Len(t) /\ \E p \in Permutations(DOMAIN s) : \A i \in DOMAIN s : t[i] = s[p[i]]

AnagramJs(s, t) ==
    LET letters == ToSet(s) \cup ToSet(t)
        Count(counts, i) == [c \in letters |-> counts[c] + (IF s[i] = c THEN 1 ELSE 0)
                                                         - (IF t[i] = c THEN 1 ELSE 0)]
        counts == FoldLeft(Count, [c \in letters |-> 0], Upto(1, Len(s)))
    IN  Len(s) = Len(t) /\ \A c \in letters : counts[c] = 0

\* Two strings sort to the same string when they hold the same letters as often.
AnagramPy(s, t) == ToBag(s) = ToBag(t)

-----------------------------------------------------------------------------
(* top-k-frequent-elements *)

Frequency(nums, value) == Cardinality({ i \in DOMAIN nums : nums[i] = value })

\* The values a map holds after counting nums, in the order of its insertions.
InOrderSeen(nums) ==
    FoldLeft(LAMBDA seen, x : IF Contains(seen, x) THEN seen ELSE Append(seen, x), <<>>, nums)

MostFrequent(nums, k) ==
    { S \in SUBSET ToSet(nums) :
        /\ Cardinality(S) = k
        /\ \A x \in S, y \in ToSet(nums) \ S : Frequency(nums, x) >= Frequency(nums, y) }

\* The statement guarantees that the answer is unique, which the generator enforces.
TopKCases ==
    { Case(a) : a \in { <<nums, k>> \in Arrays(1 .. 3, 1, 4) \X (1 .. 3) :
                          Cardinality(MostFrequent(nums, k)) = 1 } }
        \cup { Example(<< <<1, 1, 1, 2, 2, 3>>, 2>>, <<1, 2>>), Example(<< <<1>>, 1>>, <<1>>) }

TopKAnswer(nums, k) == Listed(CHOOSE S \in MostFrequent(nums, k) : TRUE)

TopKJs(nums, k) ==
    LET Bucket(count) == SelectSeq(InOrderSeen(nums), LAMBDA v : Frequency(nums, v) = count)
        buckets == FoldLeft(LAMBDA out, count : out \o Bucket(count), <<>>,
                            Reverse(Upto(1, Len(nums))))
    IN  SubSeq(buckets, 1, Smaller(k, Len(buckets)))

\* heapq.nlargest: the k first of the items sorted by falling count.
TopKPy(nums, k) ==
    LET items == SortSeq(InOrderSeen(nums),
                         LAMBDA v, w : Frequency(nums, v) > Frequency(nums, w))
    IN  SubSeq(items, 1, Smaller(k, Len(items)))

-----------------------------------------------------------------------------
(* longest-consecutive-sequence *)

ConsecutiveCases ==
    { Case(<<nums>>) : nums \in Arrays(0 .. 3, 0, 3) \cup Arrays({0, 1, 3, 4}, 4, 4) }
        \cup { Example(<< <<100, 4, 200, 1, 3, 2>> >>, 4),
               Example(<< <<0, 3, 7, 2, 5, 8, 4, 6, 0, 1>> >>, 9) }

ConsecutiveAnswer(nums) ==
    Max({ n \in 0 .. Len(nums) : n = 0 \/ \E x \in ToSet(nums) : x .. (x + n - 1) \subseteq ToSet(nums) })

ConsecutiveJs(nums) ==
    LET set == ToSet(nums)
        RECURSIVE Run(_, _)
        Run(x, len) == IF x + len \in set THEN Run(x, len + 1) ELSE len
    IN  Max({0} \cup { Run(x, 1) : x \in { y \in set : y - 1 \notin set } })

ConsecutivePy(nums) ==
    LET values == Ascending(Listed(ToSet(nums)))
        Visit(s, i) ==
            LET run == IF i > 0 /\ At(values, i) = At(values, i - 1) + 1 THEN s.run + 1 ELSE 1 IN
            [run |-> run, best |-> Larger(s.best, run)]
    IN  FoldLeft(Visit, [run |-> 0, best |-> 0], Positions(values)).best

-----------------------------------------------------------------------------
(* subarray-sum-equals-k *)

SubarrayCases ==
    { Case(a) : a \in Arrays(-1 .. 1, 1, 4) \X (-1 .. 2) }
        \cup { Example(<< <<1, 1, 1>>, 2>>, 2), Example(<< <<1, 2, 3>>, 3>>, 2) }

SubarrayAnswer(nums, k) ==
    Cardinality({ b \in (DOMAIN nums) \X (DOMAIN nums) :
                    b[1] <= b[2] /\ Total(SubSeq(nums, b[1], b[2])) = k })

SubarrayJs(nums, k) ==
    LET Visit(s, x) ==
            LET sum == s.sum + x IN
            [sum |-> sum,
             count |-> s.count + Lookup(s.seen, sum - k, 0),
             seen |-> (sum :> Lookup(s.seen, sum, 0) + 1) @@ s.seen]
    IN  FoldLeft(Visit, [sum |-> 0, count |-> 0, seen |-> (0 :> 1)], nums).count

SubarrayPy(nums, k) ==
    LET prefix == [i \in 1 .. Len(nums) + 1 |-> Total(SubSeq(nums, 1, i - 1))]
        Visit(s, p) == [total |-> s.total + Lookup(s.counts, p - k, 0),
                        counts |-> (p :> Lookup(s.counts, p, 0) + 1) @@ s.counts]
    IN  FoldLeft(Visit, [total |-> 0, counts |-> <<>>], prefix).total

-----------------------------------------------------------------------------
ArraysHashing ==
    { "two-sum", "best-time-to-buy-and-sell-stock", "product-of-array-except-self",
      "valid-anagram", "top-k-frequent-elements", "longest-consecutive-sequence",
      "subarray-sum-equals-k" }

ArraysCases(slug) ==
    CASE slug = "two-sum" -> TwoSumCases
      [] slug = "best-time-to-buy-and-sell-stock" -> BestTimeCases
      [] slug = "product-of-array-except-self" -> ProductCases
      [] slug = "valid-anagram" -> AnagramCases
      [] slug = "top-k-frequent-elements" -> TopKCases
      [] slug = "longest-consecutive-sequence" -> ConsecutiveCases
      [] slug = "subarray-sum-equals-k" -> SubarrayCases

ArraysSolved(slug, a) ==
    CASE slug = "two-sum" ->
            Solved(TwoSumAnswer(a[1], a[2]), TwoSumJs(a[1], a[2]), TwoSumPy(a[1], a[2]))
      [] slug = "best-time-to-buy-and-sell-stock" ->
            Solved(BestTimeAnswer(a[1]), BestTimeJs(a[1]), BestTimePy(a[1]))
      [] slug = "product-of-array-except-self" ->
            Solved(ProductAnswer(a[1]), ProductJs(a[1]), ProductPy(a[1]))
      [] slug = "valid-anagram" ->
            Solved(AnagramAnswer(a[1], a[2]), AnagramJs(a[1], a[2]), AnagramPy(a[1], a[2]))
      [] slug = "top-k-frequent-elements" ->
            Solved(TopKAnswer(a[1], a[2]), TopKJs(a[1], a[2]), TopKPy(a[1], a[2]))
      [] slug = "longest-consecutive-sequence" ->
            Solved(ConsecutiveAnswer(a[1]), ConsecutiveJs(a[1]), ConsecutivePy(a[1]))
      [] slug = "subarray-sum-equals-k" ->
            Solved(SubarrayAnswer(a[1], a[2]), SubarrayJs(a[1], a[2]), SubarrayPy(a[1], a[2]))
=============================================================================
