------------------------------ MODULE BankGrids ------------------------------
(***************************************************************************)
(* The problems of graphs.ts.                                              *)
(***************************************************************************)
EXTENDS BankCases

-----------------------------------------------------------------------------
(* Grids: a sequence of rows, a cell is <<row, column>>, both from 1. *)

Grids(S, sizes) == UNION { [1 .. size[1] -> [1 .. size[2] -> S]] : size \in sizes }

CellsWith(grid, value) ==
    { <<r, c>> \in (1 .. Len(grid)) \X (1 .. Len(grid[1])) : grid[r][c] = value }

Directions == << <<1, 0>>, <<-1, 0>>, <<0, 1>>, <<0, -1>> >>

Neighbours(cell) == { <<cell[1] + d[1], cell[2] + d[2]>> : d \in ToSet(Directions) }

\* The cells in the order of the two nested loops over rows and columns.
RowMajor(grid) == FlattenSeq([r \in DOMAIN grid |-> [c \in DOMAIN grid[1] |-> <<r, c>>]])

-----------------------------------------------------------------------------
(* number-of-islands *)

IslandsCases ==
    { Case(<<grid>>) : grid \in Grids({"0", "1"}, {<<1, 1>>, <<1, 3>>, <<2, 2>>, <<2, 3>>, <<3, 2>>})
                         \cup { << <<"1", "0", "1">>, <<"0", "1", "0">>, <<"1", "0", "1">> >>,
                                << <<"1", "1", "1">>, <<"1", "0", "1">>, <<"1", "1", "1">> >> } }
        \cup { Example(<< << <<"1", "1", "0", "0", "0">>, <<"1", "1", "0", "0", "0">>,
                             <<"0", "0", "1", "0", "0">>, <<"0", "0", "0", "1", "1">> >> >>, 3) }

\* The land cells reached from a cell over land.
Island(land, cell) ==
    LET near[n \in Nat] ==
            IF n = 0 THEN {cell}
            ELSE LET last == near[n - 1] IN last \cup { c \in land : Neighbours(c) \cap last # {} }
    IN  near[Cardinality(land)]

IslandsAnswer(grid) ==
    LET land == CellsWith(grid, "1") IN Cardinality({ Island(land, cell) : cell \in land })

IslandsJs(grid) ==
    LET RECURSIVE Flood(_, _)
        \* The queue from position q on; a cell leaves the land when it enters the queue.
        Flood(queue, land) ==
            IF queue = <<>> THEN land
            ELSE LET found == SelectSeq([i \in 1 .. 4 |-> <<Head(queue)[1] + Directions[i][1],
                                                           Head(queue)[2] + Directions[i][2]>>],
                                        LAMBDA c : c \in land)
                 IN  Flood(Tail(queue) \o found, land \ ToSet(found))
        Visit(s, cell) ==
            IF cell \notin s.land THEN s
            ELSE [count |-> s.count + 1, land |-> Flood(<<cell>>, s.land \ {cell})]
    IN  FoldLeft(Visit, [count |-> 0, land |-> CellsWith(grid, "1")], RowMajor(grid)).count

IslandsPy(grid) ==
    LET land == CellsWith(grid, "1")
        RECURSIVE Find(_, _)
        \* Union-find with path halving: the root of x and the parents it leaves.
        Find(parent, x) ==
            IF parent[x] = x THEN [root |-> x, parent |-> parent]
            ELSE LET halved == [parent EXCEPT ![x] = parent[parent[x]]] IN Find(halved, halved[x])
        Join(s, a, b) ==
            LET fa == Find(s.parent, a)
                fb == Find(fa.parent, b)
            IN  IF fa.root = fb.root THEN [s EXCEPT !.parent = fb.parent]
                ELSE [land |-> s.land - 1, parent |-> [fb.parent EXCEPT ![fa.root] = fb.root]]
        Visit(s, cell) ==
            IF cell \notin land THEN s
            ELSE FoldLeft(LAMBDA t, next : IF next \in land THEN Join(t, cell, next) ELSE t,
                          [s EXCEPT !.land = s.land + 1],
                          << <<cell[1] + 1, cell[2]>>, <<cell[1], cell[2] + 1>> >>)
    IN  FoldLeft(Visit, [land |-> 0, parent |-> [c \in land |-> c]], RowMajor(grid)).land

-----------------------------------------------------------------------------
(* course-schedule *)

CourseCases ==
    { Case(<<n, Listed(pairs)>>) :
        n \in {3}, pairs \in { P \in SUBSET ((0 .. 2) \X (0 .. 2)) : Cardinality(P) <= 4 } }
        \cup { Case(<<1, <<>> >>), Case(<<4, << <<1, 0>>, <<2, 1>>, <<3, 2>>, <<1, 3>> >> >>) }
        \cup { Example(<<2, << <<1, 0>> >> >>, TRUE), Example(<<2, << <<1, 0>>, <<0, 1>> >> >>, FALSE) }

\* Some order of the courses takes every prerequisite before the course.
CourseAnswer(numCourses, prerequisites) ==
    \E order \in Permutations(0 .. numCourses - 1) :
        \A p \in ToSet(prerequisites) : order[p[2]] < order[p[1]]

CourseJs(numCourses, prerequisites) ==
    LET courses == Upto(0, numCourses - 1)
        adj == [b \in ToSet(courses) |-> SelectSeq(prerequisites, LAMBDA p : p[2] = b)]
        indegree == [a \in ToSet(courses) |-> Len(SelectSeq(prerequisites, LAMBDA p : p[1] = a))]
        Release(s, p) ==
            LET left == s.indegree[p[1]] - 1 IN
            [indegree |-> [s.indegree EXCEPT ![p[1]] = left],
             queue |-> IF left = 0 THEN Append(s.queue, p[1]) ELSE s.queue]
        RECURSIVE Take(_, _)
        Take(s, taken) ==
            IF taken >= Len(s.queue) THEN taken
            ELSE Take(FoldLeft(Release, s, adj[At(s.queue, taken)]), taken + 1)
    IN  Take([indegree |-> indegree, queue |-> SelectSeq(courses, LAMBDA i : indegree[i] = 0)], 0)
            = numCourses

CoursePy(numCourses, prerequisites) ==
    LET courses == Upto(0, numCourses - 1)
        adj == [a \in ToSet(courses) |-> SelectSeq(prerequisites, LAMBDA p : p[1] = a)]
        RECURSIVE HasCycle(_, _)
        \* The colours 0 (new), 1 (open), 2 (done) after the search from u, and what it found.
        HasCycle(state, u) ==
            LET Edge(s, p) ==
                    IF s.cycle \/ s.state[p[2]] = 2 THEN s
                    ELSE IF s.state[p[2]] = 1 THEN [s EXCEPT !.cycle = TRUE]
                    ELSE HasCycle(s.state, p[2])
                after == FoldLeft(Edge, [state |-> [state EXCEPT ![u] = 1], cycle |-> FALSE], adj[u])
            IN  IF after.cycle THEN after ELSE [after EXCEPT !.state[u] = 2]
        Visit(s, c) == IF s.cycle \/ s.state[c] # 0 THEN s ELSE HasCycle(s.state, c)
    IN  ~ FoldLeft(Visit, [state |-> [c \in ToSet(courses) |-> 0], cycle |-> FALSE], courses).cycle

-----------------------------------------------------------------------------
(* rotting-oranges *)

OrangesCases ==
    { Case(<<grid>>) : grid \in Grids(0 .. 2, {<<1, 1>>, <<1, 3>>, <<2, 2>>})
                         \cup { << <<2, 1, 1, 1, 1>> >> } }
        \cup { Example(<< << <<2, 1, 1>>, <<1, 1, 0>>, <<0, 1, 1>> >> >>, 4),
               Example(<< << <<2, 1, 1>>, <<0, 1, 1>>, <<1, 0, 1>> >> >>, -1),
               Example(<< << <<0, 2>> >> >>, 0) }

\* An orange rots after as many minutes as it is steps away from a rotten one.
OrangesAnswer(grid) ==
    LET fresh == CellsWith(grid, 1)
        rotten == CellsWith(grid, 2)
        within[n \in Nat] ==
            IF n = 0 THEN rotten
            ELSE LET last == within[n - 1] IN
                 { c \in fresh \cup rotten : c \in last \/ Neighbours(c) \cap last # {} }
        enough == { n \in 0 .. Cardinality(fresh) : fresh \subseteq within[n] }
    IN  IF enough = {} THEN -1 ELSE Min(enough)

OrangesJs(grid) ==
    LET RECURSIVE Minute(_, _, _)
        \* The oranges that rot in a minute are the next queue; its order does not matter.
        Minute(queue, fresh, minutes) ==
            LET next == { c \in fresh : Neighbours(c) \cap queue # {} } IN
            IF queue = {} \/ fresh = {} THEN (IF fresh = {} THEN minutes ELSE -1)
            ELSE Minute(next, fresh \ next, minutes + 1)
    IN  Minute(CellsWith(grid, 2), CellsWith(grid, 1), 0)

OrangesPy(grid) ==
    LET RECURSIVE Minute(_, _, _)
        Minute(rotten, fresh, minutes) ==
            LET toRot == { c \in fresh : Neighbours(c) \cap rotten # {} } IN
            IF toRot # {} THEN Minute(rotten \cup toRot, fresh \ toRot, minutes + 1)
            ELSE IF fresh # {} THEN -1
            ELSE minutes
    IN  Minute(CellsWith(grid, 2), CellsWith(grid, 1), 0)

-----------------------------------------------------------------------------
(* network-delay-time *)

\* Every choice of links with their times; no link twice, none from a node to itself.
Networks(n, times) ==
    LET links == { l \in (1 .. n) \X (1 .. n) : l[1] # l[2] } IN
    { Listed({ <<l[1], l[2], w[l]>> : l \in { m \in links : w[m] >= 0 } }) :
        w \in [links -> times \cup {-1}] } \ {<<>>}

DelayCases ==
    { Case(<<times, 2, k>>) : times \in Networks(2, {0, 1}), k \in 1 .. 2 }
        \cup { Case(<<times, 3, 1>>) : times \in Networks(3, {1, 3}) }
        \cup { Example(<< << <<2, 1, 1>>, <<2, 3, 1>>, <<3, 4, 1>> >>, 4, 2>>, 2),
               Example(<< << <<1, 2, 1>> >>, 2, 1>>, 1), Example(<< << <<1, 2, 1>> >>, 2, 2>>, -1) }

\* The latest arrival over the quickest route to every node; a route visits no node twice.
DelayAnswer(times, n, k) ==
    LET LinkTimes(u, v) == { l[3] : l \in { m \in ToSet(times) : m[1] = u /\ m[2] = v } }
        Routes(v) == { r \in DistinctArrays(1 .. n, 1, n) :
                         /\ r[1] = k /\ Last(r) = v
                         /\ \A i \in 1 .. Len(r) - 1 : LinkTimes(r[i], r[i + 1]) # {} }
        Duration(r) == MapThenSumSet(LAMBDA i : Min(LinkTimes(r[i], r[i + 1])), 1 .. Len(r) - 1)
    IN  IF \E v \in 1 .. n : Routes(v) = {} THEN -1
        ELSE Max({ Min({ Duration(r) : r \in Routes(v) }) : v \in 1 .. n })

\* One link: the end of it is reached earlier if that is quicker.
Relax(dist, link) ==
    IF dist[link[1]] + link[3] < dist[link[2]]
    THEN [dist EXCEPT ![link[2]] = dist[link[1]] + link[3]] ELSE dist

LatestArrival(dist) == IF Max(Range(dist)) >= Infinity THEN -1 ELSE Max(Range(dist))

DelayJs(times, n, k) ==
    LET RECURSIVE Iterate(_, _)
        Iterate(dist, done) ==
            LET open == (1 .. n) \ done
                u == Min({ i \in open : \A j \in open : dist[i] <= dist[j] })
                from == SelectSeq(times, LAMBDA l : l[1] = u)
            IN  IF open = {} THEN dist
                ELSE IF dist[u] = Infinity THEN dist
                ELSE Iterate(FoldLeft(Relax, dist, from), done \cup {u})
    IN  LatestArrival(Iterate([i \in 1 .. n |-> IF i = k THEN 0 ELSE Infinity], {}))

DelayPy(times, n, k) ==
    LET RECURSIVE Round(_, _)
        Round(dist, rounds) ==
            LET relaxed == FoldLeft(LAMBDA d, l : IF d[l[1]] = Infinity THEN d ELSE Relax(d, l), dist, times) IN
            IF rounds = 0 \/ relaxed = dist THEN dist ELSE Round(relaxed, rounds - 1)
    IN  LatestArrival(Round([i \in 1 .. n |-> IF i = k THEN 0 ELSE Infinity], n - 1))

-----------------------------------------------------------------------------
(* word-ladder *)

OneLetterApart(v, w) == Cardinality({ i \in DOMAIN v : v[i] # w[i] }) = 1

Bits == [1 .. 3 -> {"a", "b"}]

Hit == <<"h", "i", "t">>

Cog == <<"c", "o", "g">>

LadderCases ==
    { Case(<< <<"a", "a", "a">>, end, Listed(words)>>) :
        end \in { <<"b", "b", "b">>, <<"a", "b", "b">> }, words \in SUBSET Bits \ {{}} }
        \cup { Example(<<Hit, Cog, << <<"h", "o", "t">>, <<"d", "o", "t">>, <<"d", "o", "g">>,
                                     <<"l", "o", "t">>, <<"l", "o", "g">>, Cog>> >>, 5),
               Example(<<Hit, Cog, << <<"h", "o", "t">>, <<"d", "o", "t">>, <<"d", "o", "g">>,
                                     <<"l", "o", "t">>, <<"l", "o", "g">> >> >>, 0) }

\* The fewest words from begin to end, each one letter from the one before.
LadderAnswer(begin, end, wordList) ==
    LET words == ToSet(wordList)
        reached[n \in Nat] ==
            IF n = 1 THEN {begin}
            ELSE LET last == reached[n - 1] IN { w \in words : \E v \in last : OneLetterApart(v, w) }
        lengths == { n \in 1 .. Len(wordList) + 1 : end \in reached[n] }
    IN  IF lengths = {} THEN 0 ELSE Min(lengths)

\* Two words share a pattern with one letter starred when they are one letter apart (or
\* equal: a word is seen already when its own pattern is looked up).
LadderJs(begin, end, wordList) ==
    LET words == ToSet(wordList)
        RECURSIVE Level(_, _, _)
        Level(level, seen, steps) ==
            LET next == { w \in words \ seen : \E v \in level : OneLetterApart(v, w) } IN
            IF level = {} THEN 0
            ELSE IF end \in level THEN steps
            ELSE Level(next, seen \cup next, steps + 1)
    IN  IF end \notin words THEN 0 ELSE Level({begin}, {begin}, 1)

\* From both ends, always the smaller side; a word found leaves the dictionary.
LadderPy(begin, end, wordList) ==
    LET RECURSIVE Meet(_, _, _, _)
        Meet(a, b, words, steps) ==
            LET front == IF Cardinality(a) > Cardinality(b) THEN b ELSE a
                back == IF Cardinality(a) > Cardinality(b) THEN a ELSE b
                next == { w \in words : \E v \in front : OneLetterApart(v, w) }
            IN  IF a = {} \/ b = {} THEN 0
                ELSE IF \E v \in front, w \in back : OneLetterApart(v, w) THEN steps + 1
                ELSE Meet(next, back, words \ next, steps + 1)
    IN  IF end \notin ToSet(wordList) THEN 0
        ELSE IF begin = end THEN 1
        ELSE Meet({begin}, {end}, ToSet(wordList) \ {begin, end}, 1)

-----------------------------------------------------------------------------
GraphProblems ==
    { "number-of-islands", "course-schedule", "rotting-oranges", "network-delay-time", "word-ladder" }

GraphCases(slug) ==
    CASE slug = "number-of-islands" -> IslandsCases
      [] slug = "course-schedule" -> CourseCases
      [] slug = "rotting-oranges" -> OrangesCases
      [] slug = "network-delay-time" -> DelayCases
      [] slug = "word-ladder" -> LadderCases

GraphSolved(slug, a) ==
    CASE slug = "number-of-islands" ->
            Solved(IslandsAnswer(a[1]), IslandsJs(a[1]), IslandsPy(a[1]))
      [] slug = "course-schedule" ->
            Solved(CourseAnswer(a[1], a[2]), CourseJs(a[1], a[2]), CoursePy(a[1], a[2]))
      [] slug = "rotting-oranges" ->
            Solved(OrangesAnswer(a[1]), OrangesJs(a[1]), OrangesPy(a[1]))
      [] slug = "network-delay-time" ->
            Solved(DelayAnswer(a[1], a[2], a[3]), DelayJs(a[1], a[2], a[3]), DelayPy(a[1], a[2], a[3]))
      [] slug = "word-ladder" ->
            Solved(LadderAnswer(a[1], a[2], a[3]), LadderJs(a[1], a[2], a[3]), LadderPy(a[1], a[2], a[3]))
=============================================================================
