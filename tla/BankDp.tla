------------------------------- MODULE BankDp -------------------------------
(***************************************************************************)
(* The problems of backtracking-dp.ts.                                     *)
(***************************************************************************)
EXTENDS BankCases

-----------------------------------------------------------------------------
(* subsets *)

SubsetsCases ==
    { Case(<<nums>>) : nums \in DistinctArrays(-1 .. 1, 1, 3) \cup { <<5>> } }
        \cup { Example(<< <<1, 2, 3>> >>, << <<>>, <<1>>, <<2>>, <<1, 2>>, <<3>>, <<1, 3>>, <<2, 3>>, <<1, 2, 3>> >>),
               Example(<< <<0>> >>, << <<>>, <<0>> >>) }

SubsetsAnswer(nums) == Listed({ Listed(S) : S \in SUBSET ToSet(nums) })

SubsetsJs(nums) ==
    LET Chosen(mask) == SelectSeq(Positions(nums), LAMBDA i : (mask \div 2^i) % 2 = 1)
        Member(mask) == [j \in DOMAIN Chosen(mask) |-> At(nums, Chosen(mask)[j])]
    IN  [k \in 1 .. 2^Len(nums) |-> Member(k - 1)]

SubsetsPy(nums) ==
    LET RECURSIVE Go(_, _)
        Go(i, cur) == IF i = Len(nums) THEN <<cur>>
                      ELSE Go(i + 1, cur) \o Go(i + 1, Append(cur, At(nums, i)))
    IN  Go(0, <<>>)

-----------------------------------------------------------------------------
(* combination-sum *)

CombinationCases ==
    { Case(a) : a \in DistinctArrays(2 .. 4, 1, 3) \X (1 .. 6) }
        \cup { Example(<< <<2, 3, 6, 7>>, 7>>, << <<2, 2, 3>>, <<7>> >>),
               Example(<< <<2, 3, 5>>, 8>>, << <<2, 2, 2, 2>>, <<2, 3, 3>>, <<3, 5>> >>),
               Example(<< <<2>>, 1>>, <<>>) }

CombinationAnswer(candidates, target) ==
    Listed({ s \in SortedArrays(ToSet(candidates), 1, target \div 2) : Total(s) = target })

CombinationJs(candidates, target) ==
    LET c == Ascending(candidates)
        RECURSIVE Go(_, _, _)
        \* The loop from position start on, and in it the call for one candidate more.
        Go(start, remaining, cur) ==
            IF remaining = 0 THEN <<cur>>
            ELSE IF start >= Len(c) \/ At(c, start) > remaining THEN <<>>
            ELSE Go(start, remaining - At(c, start), Append(cur, At(c, start)))
                     \o Go(start + 1, remaining, cur)
    IN  Go(0, target, <<>>)

CombinationPy(candidates, target) ==
    LET With(c, combos) == [i \in DOMAIN combos |-> Append(combos[i], c)]
        Add(ways, c) ==
            FoldLeft(LAMBDA w, t : [w EXCEPT ![t] = @ \o With(c, w[t - c])], ways, Upto(c, target))
    IN  FoldLeft(Add, [t \in 0 .. target |-> IF t = 0 THEN << <<>> >> ELSE <<>>],
                 Ascending(candidates))[target]

-----------------------------------------------------------------------------
(* generate-parentheses *)

ParenthesesCases ==
    { Case(<<n>>) : n \in {2, 4} }
        \cup { Example(<<3>>, << <<"(", "(", "(", ")", ")", ")">>, <<"(", "(", ")", "(", ")", ")">>,
                                 <<"(", "(", ")", ")", "(", ")">>, <<"(", ")", "(", "(", ")", ")">>,
                                 <<"(", ")", "(", ")", "(", ")">> >>),
               Example(<<1>>, << <<"(", ")">> >>) }

Opens(s, i) == Cardinality({ j \in 1 .. i : s[j] = "(" })

ParenthesesAnswer(n) ==
    Listed({ s \in [1 .. 2 * n -> {"(", ")"}] :
               Opens(s, 2 * n) = n /\ \A i \in 1 .. 2 * n : 2 * Opens(s, i) >= i })

ParenthesesJs(n) ==
    LET RECURSIVE Go(_, _, _)
        Go(s, open, close) ==
            IF Len(s) = 2 * n THEN <<s>>
            ELSE (IF open < n THEN Go(Append(s, "("), open + 1, close) ELSE <<>>)
                   \o (IF close < open THEN Go(Append(s, ")"), open, close + 1) ELSE <<>>)
    IN  Go(<<>>, 0, 0)

ParenthesesPy(n) ==
    LET RECURSIVE Table(_)
        Pairs(i, k) ==      \* "(" + inner + ")" + rest, inner from table[i]
            FlattenSeq([a \in DOMAIN Table(i) |->
                [b \in DOMAIN Table(k - 1 - i) |->
                    <<"(">> \o Table(i)[a] \o <<")">> \o Table(k - 1 - i)[b]]])
        Table(k) == IF k = 0 THEN << <<>> >> ELSE FlattenSeq([i \in 1 .. k |-> Pairs(i - 1, k)])
    IN  Table(n)

-----------------------------------------------------------------------------
(* n-queens-ii *)

QueensCases == { Case(<<n>>) : n \in {2, 3, 5} } \cup { Example(<<4>>, 2), Example(<<1>>, 1) }

\* A placement is a column for every row.
QueensAnswer(n) ==
    Cardinality({ p \in Permutations(1 .. n) :
                    \A r, s \in 1 .. n : r < s => p[s] - p[r] \notin {s - r, r - s} })

\* The three bit masks as the sets of their bits; a shift moves every bit by one.
QueensJs(n) ==
    LET full == 0 .. n - 1
        RECURSIVE Go(_, _, _)
        RECURSIVE Try(_, _, _, _)
        Go(cols, d1, d2) ==
            IF cols = full THEN 1 ELSE Try(full \ (cols \cup d1 \cup d2), cols, d1, d2)
        Try(free, cols, d1, d2) ==
            IF free = {} THEN 0
            ELSE LET bit == Min(free) IN
                 Go(cols \cup {bit}, { b + 1 : b \in d1 \cup {bit} } \cap full,
                    { b - 1 : b \in d2 \cup {bit} } \cap full)
                   + Try(free \ {bit}, cols, d1, d2)
    IN  Go({}, {}, {})

QueensPy(n) ==
    LET RECURSIVE Place(_, _, _, _)
        Place(r, cols, diag, anti) ==
            IF r = n THEN 1
            ELSE MapThenSumSet(
                    LAMBDA c : Place(r + 1, cols \cup {c}, diag \cup {r - c}, anti \cup {r + c}),
                    { c \in 0 .. n - 1 : c \notin cols /\ r - c \notin diag /\ r + c \notin anti })
    IN  Place(0, {}, {}, {})

-----------------------------------------------------------------------------
(* climbing-stairs *)

StairsCases == { Case(<<n>>) : n \in {1, 4, 5, 6} } \cup { Example(<<2>>, 2), Example(<<3>>, 3) }

StairsAnswer(n) == Cardinality({ climb \in SeqOf({1, 2}, n) : Total(climb) = n })

StairsJs(n) == FoldLeft(LAMBDA s, i : <<s[2], s[1] + s[2]>>, <<1, 1>>, Upto(2, n))[2]

StairsPy(n) ==
    LET ways[k \in Nat] == IF k <= 1 THEN 1 ELSE ways[k - 1] + ways[k - 2] IN ways[n]

-----------------------------------------------------------------------------
(* house-robber *)

RobberCases ==
    { Case(<<nums>>) : nums \in Arrays(0 .. 2, 1, 4) }
        \cup { Example(<< <<1, 2, 3, 1>> >>, 4), Example(<< <<2, 7, 9, 3, 1>> >>, 12) }

RobberAnswer(nums) ==
    Max({ MapThenSumSet(LAMBDA i : nums[i], H) :
            H \in { H \in SUBSET DOMAIN nums : \A i \in H : i + 1 \notin H } })

RobberJs(nums) ==
    LET s == FoldLeft(LAMBDA s, x : [take |-> s.skip + x, skip |-> Larger(s.take, s.skip)],
                      [take |-> 0, skip |-> 0], nums)
    IN  Larger(s.take, s.skip)

RobberPy(nums) ==
    LET dp[i \in 0 .. Len(nums)] ==
            CASE i = 0 -> 0
              [] i = 1 -> nums[1]
              [] OTHER -> Larger(dp[i - 1], dp[i - 2] + nums[i])
    IN  dp[Len(nums)]

-----------------------------------------------------------------------------
(* coin-change *)

CoinCases ==
    { Case(a) : a \in DistinctArrays({1, 2, 3, 5}, 1, 2) \X (0 .. 7) }
        \cup { Case(<< <<1, 3, 4>>, 6>>), Case(<< <<3, 7>>, 5>>) }
        \cup { Example(<< <<1, 2, 5>>, 11>>, 3), Example(<< <<2>>, 3>>, -1), Example(<< <<1>>, 0>>, 0) }

CoinAnswer(coins, amount) ==
    LET sums[n \in Nat] ==        \* what n coins can make up
            IF n = 0 THEN {0} ELSE { t + c : t \in sums[n - 1], c \in ToSet(coins) }
        enough == { n \in 0 .. amount : amount \in sums[n] }
    IN  IF enough = {} THEN -1 ELSE Min(enough)

CoinJs(coins, amount) ==
    LET dp[a \in 0 .. amount] ==
            IF a = 0 THEN 0
            ELSE FoldLeft(LAMBDA best, c : IF c <= a /\ dp[a - c] + 1 < best THEN dp[a - c] + 1 ELSE best,
                          Infinity, coins)
    IN  IF dp[amount] = Infinity THEN -1 ELSE dp[amount]

\* The order inside a frontier does not matter, so it is a set.
CoinPy(coins, amount) ==
    LET RECURSIVE Search(_, _, _)
        Search(frontier, seen, steps) ==
            LET totals == { v + c : v \in frontier, c \in ToSet(coins) }
                new == { t \in totals : t < amount /\ t \notin seen }
            IN  IF frontier = {} THEN -1
                ELSE IF amount \in totals THEN steps + 1
                ELSE Search(new, seen \cup new, steps + 1)
    IN  IF amount = 0 THEN 0 ELSE Search({0}, {0}, 0)

-----------------------------------------------------------------------------
(* longest-increasing-subsequence *)

IncreasingCases ==
    { Case(<<nums>>) : nums \in Arrays(0 .. 2, 1, 4) \cup { <<1, 3, 6, 7, 9, 4, 10, 5, 6>> } }
        \cup { Example(<< <<10, 9, 2, 5, 3, 7, 101, 18>> >>, 4),
               Example(<< <<0, 1, 0, 3, 2, 3>> >>, 4), Example(<< <<7, 7, 7, 7, 7, 7, 7>> >>, 1) }

IncreasingAnswer(nums) ==
    Max({ Cardinality(I) : I \in { I \in SUBSET DOMAIN nums :
                                     \A i, j \in I : i < j => nums[i] < nums[j] } })

IncreasingJs(nums) ==
    LET RECURSIVE Place(_, _, _, _)
        Place(tails, x, lo, hi) ==
            LET mid == (lo + hi) \div 2 IN
            IF lo >= hi THEN lo
            ELSE IF At(tails, mid) < x THEN Place(tails, x, mid + 1, hi)
            ELSE Place(tails, x, lo, mid)
        Put(tails, x) ==
            LET lo == Place(tails, x, 0, Len(tails)) IN
            IF lo = Len(tails) THEN Append(tails, x) ELSE [tails EXCEPT ![lo + 1] = x]
    IN  Len(FoldLeft(Put, <<>>, nums))

IncreasingPy(nums) ==
    LET Extend(best, j, i) ==
            IF nums[j] < nums[i] /\ best[j] + 1 > best[i] THEN [best EXCEPT ![i] = best[j] + 1] ELSE best
        Visit(best, i) == FoldLeft(LAMBDA b, j : Extend(b, j, i), best, Upto(1, i - 1))
    IN  Max(Range(FoldLeft(Visit, [i \in DOMAIN nums |-> 1], Upto(1, Len(nums)))))

-----------------------------------------------------------------------------
(* word-break *)

BreakWords == { <<"a">>, <<"a", "b">>, <<"b", "a">>, <<"b", "b", "a">> }

WordBreakCases ==
    { Case(<<s, Listed(D)>>) : s \in Arrays({"a", "b"}, 1, 4), D \in SUBSET BreakWords \ {{}} }
        \cup { Example(<< <<"l", "e", "e", "t", "c", "o", "d", "e">>,
                          << <<"l", "e", "e", "t">>, <<"c", "o", "d", "e">> >> >>, TRUE),
               Example(<< <<"c", "a", "t", "s", "a", "n", "d", "o", "g">>,
                          << <<"c", "a", "t", "s">>, <<"d", "o", "g">>, <<"s", "a", "n", "d">>,
                             <<"a", "n", "d">>, <<"c", "a", "t">> >> >>, FALSE) }

\* The string can be cut so that every piece is a word of the dictionary.
WordBreakAnswer(s, wordDict) ==
    \E cuts \in SUBSET (1 .. Len(s) - 1) :
        LET ends == cuts \cup {0, Len(s)} IN
        \A from, to \in ends :
            from < to /\ (\A e \in ends : e <= from \/ e >= to)
                => SubSeq(s, from + 1, to) \in ToSet(wordDict)

LongestWord == 20

WordBreakJs(s, wordDict) ==
    LET ok[i \in 0 .. Len(s)] ==
            i = 0 \/ \E j \in Larger(0, i - LongestWord) .. i - 1 :
                        ok[j] /\ SubSeq(s, j + 1, i) \in ToSet(wordDict)
    IN  ok[Len(s)]

WordBreakPy(s, wordDict) ==
    LET n == Len(s)
        can[i \in 0 .. n] ==
            i = n \/ \E w \in ToSet(wordDict) :
                        i + Len(w) <= n /\ SubSeq(s, i + 1, i + Len(w)) = w /\ can[i + Len(w)]
    IN  can[0]

-----------------------------------------------------------------------------
(* edit-distance *)

EditCases ==
    { Case(a) : a \in Arrays({"a", "b"}, 0, 3) \X Arrays({"a", "b"}, 0, 3) }
        \cup { Example(<< <<"h", "o", "r", "s", "e">>, <<"r", "o", "s">> >>, 3) }

\* The cheapest alignment: an aligned pair that differs is a replacement, a letter
\* without a partner a deletion or an insertion.
EditAnswer(word1, word2) ==
    LET Increasing(A) == \A p, q \in A : p = q \/ (p[1] < q[1] /\ p[2] < q[2])
                                               \/ (q[1] < p[1] /\ q[2] < p[2])
        Cost(A) == Len(word1) + Len(word2) - 2 * Cardinality(A)
                     + Cardinality({ p \in A : word1[p[1]] # word2[p[2]] })
    IN  Min({ Cost(A) : A \in { A \in SUBSET ((DOMAIN word1) \X (DOMAIN word2)) : Increasing(A) } })

EditJs(word1, word2) ==
    LET n == Len(word2)
        \* One row of the table: cur[1] = i, then each cell from prev and its left neighbour.
        Cell(cur, i, j, prev) ==
            Append(cur, IF word1[i] = word2[j] THEN prev[j]
                        ELSE 1 + Min({prev[j], prev[j + 1], cur[j]}))
        Row(prev, i) == FoldLeft(LAMBDA cur, j : Cell(cur, i, j, prev), <<i>>, Upto(1, n))
    IN  FoldLeft(Row, [j \in 1 .. n + 1 |-> j - 1], Upto(1, Len(word1)))[n + 1]

EditPy(word1, word2) ==
    LET d[i \in 0 .. Len(word1), j \in 0 .. Len(word2)] ==
            CASE i = 0 -> j
              [] i > 0 /\ j = 0 -> i
              [] i > 0 /\ j > 0 ->
                    IF word1[i] = word2[j] THEN d[i - 1, j - 1]
                    ELSE 1 + Min({d[i - 1, j - 1], d[i - 1, j], d[i, j - 1]})
    IN  d[Len(word1), Len(word2)]

-----------------------------------------------------------------------------
BacktrackingDp ==
    { "subsets", "combination-sum", "generate-parentheses", "n-queens-ii", "climbing-stairs",
      "house-robber", "coin-change", "longest-increasing-subsequence", "word-break",
      "edit-distance" }

DpCases(slug) ==
    CASE slug = "subsets" -> SubsetsCases
      [] slug = "combination-sum" -> CombinationCases
      [] slug = "generate-parentheses" -> ParenthesesCases
      [] slug = "n-queens-ii" -> QueensCases
      [] slug = "climbing-stairs" -> StairsCases
      [] slug = "house-robber" -> RobberCases
      [] slug = "coin-change" -> CoinCases
      [] slug = "longest-increasing-subsequence" -> IncreasingCases
      [] slug = "word-break" -> WordBreakCases
      [] slug = "edit-distance" -> EditCases

DpSolved(slug, a) ==
    CASE slug = "subsets" -> Solved(SubsetsAnswer(a[1]), SubsetsJs(a[1]), SubsetsPy(a[1]))
      [] slug = "combination-sum" ->
            Solved(CombinationAnswer(a[1], a[2]), CombinationJs(a[1], a[2]), CombinationPy(a[1], a[2]))
      [] slug = "generate-parentheses" ->
            Solved(ParenthesesAnswer(a[1]), ParenthesesJs(a[1]), ParenthesesPy(a[1]))
      [] slug = "n-queens-ii" -> Solved(QueensAnswer(a[1]), QueensJs(a[1]), QueensPy(a[1]))
      [] slug = "climbing-stairs" -> Solved(StairsAnswer(a[1]), StairsJs(a[1]), StairsPy(a[1]))
      [] slug = "house-robber" -> Solved(RobberAnswer(a[1]), RobberJs(a[1]), RobberPy(a[1]))
      [] slug = "coin-change" -> Solved(CoinAnswer(a[1], a[2]), CoinJs(a[1], a[2]), CoinPy(a[1], a[2]))
      [] slug = "longest-increasing-subsequence" ->
            Solved(IncreasingAnswer(a[1]), IncreasingJs(a[1]), IncreasingPy(a[1]))
      [] slug = "word-break" ->
            Solved(WordBreakAnswer(a[1], a[2]), WordBreakJs(a[1], a[2]), WordBreakPy(a[1], a[2]))
      [] slug = "edit-distance" ->
            Solved(EditAnswer(a[1], a[2]), EditJs(a[1], a[2]), EditPy(a[1], a[2]))
=============================================================================
