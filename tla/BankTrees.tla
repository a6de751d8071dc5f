----------------------------- MODULE BankTrees -----------------------------
(***************************************************************************)
(* The problems of trees-heaps.ts.  A tree is <<>> or <<left, value,       *)
(* right>>; the arguments of a case are decoded from the level order in    *)
(* which a test is written.  A binary heap is the sorted sequence of what  *)
(* it holds: the references only push, pop the least and look at it.       *)
(***************************************************************************)
EXTENDS BankCases, Harness

HeapPush(heap, x) ==
    LET at == BisectLeft(heap, x) IN SubSeq(heap, 1, at) \o <<x>> \o SubSeq(heap, at + 1, Len(heap))

RECURSIVE TreesOf(_, _)
TreesOf(V, depth) ==
    IF depth = 0 THEN {<<>>}
    ELSE {<<>>} \cup (TreesOf(V, depth - 1) \X V \X TreesOf(V, depth - 1))

\* All trees of two levels over V, all shapes of three levels, and some written in level order.
Trees(V) == TreesOf(V, 2) \cup TreesOf({Larger(0, CHOOSE v \in V : TRUE)}, 3)

Written(tokens) == JsTree(Len(tokens), tokens)

No == Null

\* The nodes of a tree are its paths from the root; a step is 1 to the left and 3 to the right.
RECURSIVE Nodes(_)
Nodes(t) ==
    IF t = <<>> THEN {}
    ELSE {<<>>} \cup { <<1>> \o p : p \in Nodes(t[1]) } \cup { <<3>> \o p : p \in Nodes(t[3]) }

RECURSIVE Below(_, _)
Below(t, p) == IF p = <<>> THEN t ELSE Below(t[Head(p)], Tail(p))

ValueAt(t, p) == Below(t, p)[2]

Children(level) ==
    FlattenSeq([i \in DOMAIN level |->
                   SelectSeq(<<level[i][1], level[i][3]>>, LAMBDA child : child # <<>>)])

-----------------------------------------------------------------------------
(* maximum-depth-of-binary-tree *)

DepthCases ==
    { Case(<<root>>) : root \in Trees({0, 1}) }
        \cup { Example(<<Written(<< <<3>>, <<9>>, <<20>>, No, No, <<15>>, <<7>> >>)>>, 3),
               Example(<<Written(<< <<1>>, No, <<2>> >>)>>, 2) }

DepthAnswer(root) == Max({0} \cup { Len(p) + 1 : p \in Nodes(root) })

DepthJs(root) ==
    LET RECURSIVE Go(_, _)
        Go(level, depth) == IF level = <<>> THEN depth ELSE Go(Children(level), depth + 1)
    IN  IF root = <<>> THEN 0 ELSE Go(<<root>>, 0)

DepthPy(root) ==
    LET RECURSIVE MaxDepth(_)
        MaxDepth(t) == IF t = <<>> THEN 0 ELSE 1 + Larger(MaxDepth(t[1]), MaxDepth(t[3]))
    IN  MaxDepth(root)

-----------------------------------------------------------------------------
(* invert-binary-tree *)

InvertCases ==
    { Case(<<root>>) : root \in Trees({0, 1}) }
        \cup { Example(<<Written(Line(<<4, 2, 7, 1, 3, 6, 9>>))>>, Line(<<4, 7, 2, 9, 6, 3, 1>>)),
               Example(<<Written(Line(<<2, 1, 3>>))>>, Line(<<2, 3, 1>>)),
               Example(<< <<>> >>, <<>>) }

\* The tree that has at every mirrored path what the given one has at the path.
InvertAnswer(root) ==
    LET Mirrored(p) == [i \in DOMAIN p |-> 4 - p[i]]
        RECURSIVE Grown(_)
        Grown(p) == IF Mirrored(p) \notin Nodes(root) THEN <<>>
                    ELSE <<Grown(Append(p, 1)), ValueAt(root, Mirrored(p)), Grown(Append(p, 3))>>
    IN  Grown(<<>>)

\* The stack holds paths into the tree that the swaps change.
InvertJs(root) ==
    LET RECURSIVE Put(_, _, _)
        Put(t, p, sub) == IF p = <<>> THEN sub ELSE [t EXCEPT ![Head(p)] = Put(@, Tail(p), sub)]
        RECURSIVE Go(_, _)
        Go(t, stack) ==
            IF stack = <<>> THEN t
            ELSE LET p == Last(stack)
                     node == Below(t, p)
                 IN  IF node = <<>> THEN Go(t, Front(stack))
                     ELSE Go(Put(t, p, <<node[3], node[2], node[1]>>),
                             Front(stack) \o <<Append(p, 1), Append(p, 3)>>)
    IN  Go(root, << <<>> >>)

InvertPy(root) ==
    LET RECURSIVE Invert(_)
        Invert(t) == IF t = <<>> THEN t ELSE <<Invert(t[3]), t[2], Invert(t[1])>>
    IN  Invert(root)

-----------------------------------------------------------------------------
(* binary-tree-level-order-traversal *)

LevelsCases ==
    { Case(<<root>>) : root \in Trees({0, 1}) }
        \cup { Case(<<Written(<< <<1>>, <<2>>, <<3>>, <<4>>, No, No, <<5>> >>)>>),
               Case(<<Written(<< <<1>>, No, <<2>>, No, <<3>> >>)>>),
               Example(<<Written(<< <<3>>, <<9>>, <<20>>, No, No, <<15>>, <<7>> >>)>>,
                       << <<3>>, <<9, 20>>, <<15, 7>> >>),
               Example(<<Written(<< <<1>> >>)>>, << <<1>> >>), Example(<< <<>> >>, <<>>) }

\* Per level its paths from left to right: of two, the smaller at the first step that differs.
LevelsAnswer(root) ==
    LET Left(p, q) == \E i \in DOMAIN p : p[i] < q[i] /\ \A j \in 1 .. i - 1 : p[j] = q[j]
        Row(d) == LET level == { p \in Nodes(root) : Len(p) = d - 1 }
                      rank == [p \in level |-> 1 + Cardinality({ q \in level : Left(q, p) })]
                  IN  [i \in 1 .. Cardinality(level) |->
                          ValueAt(root, CHOOSE p \in level : rank[p] = i)]
    IN  [d \in 1 .. DepthAnswer(root) |-> Row(d)]

LevelsJs(root) ==
    LET RECURSIVE Go(_)
        Go(level) == IF level = <<>> THEN <<>>
                     ELSE << [i \in DOMAIN level |-> level[i][2]] >> \o Go(Children(level))
    IN  Go(IF root = <<>> THEN <<>> ELSE <<root>>)

LevelsPy(root) ==
    LET RECURSIVE Dfs(_, _, _)
        Dfs(levels, t, depth) ==
            IF t = <<>> THEN levels
            ELSE LET opened == IF depth = Len(levels) THEN Append(levels, <<>>) ELSE levels
                     here == [opened EXCEPT ![depth + 1] = Append(@, t[2])]
                 IN  Dfs(Dfs(here, t[1], depth + 1), t[3], depth + 1)
    IN  Dfs(<<>>, root, 0)

-----------------------------------------------------------------------------
(* validate-binary-search-tree *)

BstCases ==
    { Case(<<root>>) : root \in Trees(1 .. 3) \ {<<>>} }
        \cup { Case(<<Written(<< <<5>>, <<4>>, <<6>>, No, No, <<3>>, <<7>> >>)>>),
               Case(<<Written(<< <<10>>, <<5>>, <<15>>, No, No, <<6>>, <<20>> >>)>>),
               Example(<<Written(Line(<<2, 1, 3>>))>>, TRUE),
               Example(<<Written(<< <<5>>, <<1>>, <<4>>, No, No, <<3>>, <<6>> >>)>>, FALSE) }

BstAnswer(root) ==
    \A p, q \in Nodes(root) :
        /\ IsPrefix(Append(p, 1), q) => ValueAt(root, q) < ValueAt(root, p)
        /\ IsPrefix(Append(p, 3), q) => ValueAt(root, q) > ValueAt(root, p)

\* MUTANT of BstJs: a value that occurs twice is let through.
BstJsLoose(root) ==
    LET RECURSIVE Values(_)
        Values(t) == IF t = <<>> THEN <<>> ELSE Values(t[1]) \o <<t[2]>> \o Values(t[3])
    IN  \A i \in 2 .. Len(Values(root)) : Values(root)[i - 1] <= Values(root)[i]

\* In order, with a stack; prev is <<>> or holds the value before.
BstJs(root) ==
    LET RECURSIVE Descend(_, _)
        Descend(node, stack) ==
            IF node = <<>> THEN stack ELSE Descend(node[1], Append(stack, node))
        RECURSIVE Go(_, _, _)
        Go(node, stack, prev) ==
            IF node = <<>> /\ stack = <<>> THEN TRUE
            ELSE LET down == Descend(node, stack)
                     here == Last(down)
                 IN  IF prev # <<>> /\ here[2] <= prev[1] THEN FALSE
                     ELSE Go(here[3], Front(down), <<here[2]>>)
    IN  Go(root, <<>>, <<>>)

BstPy(root) ==
    LET RECURSIVE Ok(_, _, _)
        Ok(t, lo, hi) ==
            IF t = <<>> THEN TRUE
            ELSE /\ lo < t[2] /\ t[2] < hi
                 /\ Ok(t[1], lo, t[2])
                 /\ Ok(t[3], t[2], hi)
    IN  Ok(root, -Infinity, Infinity)

-----------------------------------------------------------------------------
(* binary-tree-maximum-path-sum *)

PathCases ==
    { Case(<<root>>) : root \in (TreesOf({-2, 1}, 2) \cup TreesOf({-1}, 3)) \ {<<>>} }
        \cup { Case(<<Written(<< <<5>>, <<4>>, <<8>>, <<11>>, No, <<13>>, <<4>>, <<7>>, <<2>>,
                                 No, No, No, <<1>> >>)>>),
               Example(<<Written(Line(<<1, 2, 3>>))>>, 6),
               Example(<<Written(<< <<-10>>, <<9>>, <<20>>, No, No, <<15>>, <<7>> >>)>>, 42) }

\* Between two nodes lie those above exactly one of them, they themselves, and where they meet.
PathAnswer(root) ==
    LET Above(p) == { SubSeq(p, 1, n) : n \in 0 .. Len(p) }
        Meet(p, q) == CHOOSE r \in Above(p) \cap Above(q) : \A s \in Above(p) \cap Above(q) : Len(s) <= Len(r)
        Path(p, q) == ((Above(p) \cup Above(q)) \ (Above(p) \cap Above(q))) \cup {Meet(p, q)}
    IN  Max({ FoldSet(LAMBDA r, sum : sum + ValueAt(root, r), 0, Path(p, q)) : p, q \in Nodes(root) })

\* order lists every node after its parent, and is walked from its end.
PathJs(root) ==
    LET RECURSIVE Order(_)
        Order(stack) ==
            IF stack = <<>> THEN <<>>
            ELSE LET p == Last(stack)
                 IN  <<p>> \o Order(Front(stack) \o SelectSeq(<<Append(p, 1), Append(p, 3)>>,
                                                              LAMBDA c : c \in Nodes(root)))
        Visit(st, p) ==
            LET l == Larger(0, Lookup(st.gain, Append(p, 1), 0))
                r == Larger(0, Lookup(st.gain, Append(p, 3), 0))
            IN  [best |-> Larger(st.best, ValueAt(root, p) + l + r),
                 gain |-> (p :> (ValueAt(root, p) + Larger(l, r))) @@ st.gain]
    IN  FoldLeft(Visit, [best |-> -Infinity, gain |-> <<>>], Reverse(Order(<< <<>> >>))).best

PathPy(root) ==
    LET RECURSIVE Down(_, _)        \* the value returned upward, and best[0]
        Down(t, best) ==
            IF t = <<>> THEN <<0, best>>
            ELSE LET onLeft == Down(t[1], best)
                     onRight == Down(t[3], onLeft[2])
                     left == Larger(onLeft[1], 0)
                     right == Larger(onRight[1], 0)
                 IN  <<t[2] + Larger(left, right), Larger(onRight[2], t[2] + left + right)>>
    IN  Down(root, -Infinity)[2]

-----------------------------------------------------------------------------
(* kth-largest-element-in-an-array *)

KthCases ==
    { Case(a) : a \in { <<nums, k>> \in Arrays(0 .. 2, 1, 4) \X (1 .. 4) : k <= Len(nums) } }
        \cup { Example(<< <<3, 2, 1, 5, 6, 4>>, 2>>, 5), Example(<< <<3, 2, 3, 1, 2, 4, 5, 5, 6>>, 4>>, 4) }

KthAnswer(nums, k) ==
    CHOOSE x \in ToSet(nums) :
        /\ Cardinality({ i \in DOMAIN nums : nums[i] > x }) < k
        /\ Cardinality({ i \in DOMAIN nums : nums[i] >= x }) >= k

KthJs(nums, k) ==
    LET target == Len(nums) - k
        RECURSIVE Partition(_, _, _, _)        \* i moves right and j left until they have passed
        Partition(a, i, j, pivot) ==
            IF i > j THEN <<a, i, j>>
            ELSE IF At(a, i) < pivot THEN Partition(a, i + 1, j, pivot)
            ELSE IF At(a, j) > pivot THEN Partition(a, i, j - 1, pivot)
            ELSE Partition([a EXCEPT ![i + 1] = At(a, j), ![j + 1] = At(a, i)], i + 1, j - 1, pivot)
        RECURSIVE Select(_, _, _)
        Select(a, lo, hi) ==
            LET p == Partition(a, lo, hi, At(a, (lo + hi) \div 2)) IN
            IF target <= p[3] THEN Select(p[1], lo, p[3])
            ELSE IF target >= p[2] THEN Select(p[1], p[2], hi)
            ELSE At(p[1], target)
    IN  Select(nums, 0, Len(nums) - 1)

KthPy(nums, k) ==
    LET Keep(heap, x) == LET pushed == HeapPush(heap, x)
                         IN  IF Len(pushed) > k THEN Tail(pushed) ELSE pushed
    IN  Head(FoldLeft(Keep, <<>>, nums))

-----------------------------------------------------------------------------
(* last-stone-weight *)

StonesCases ==
    { Case(<<stones>>) : stones \in Arrays(1 .. 3, 1, 4) }
        \cup { Example(<< <<2, 7, 4, 1, 8, 1>> >>, 1), Example(<< <<1>> >>, 1) }

\* The turns of the statement, on the bag of the stones.
StonesAnswer(stones) ==
    LET Without(s, i) == SubSeq(s, 1, i - 1) \o SubSeq(s, i + 1, Len(s))
        Heaviest(s) == CHOOSE i \in DOMAIN s : \A j \in DOMAIN s : s[j] <= s[i]
        RECURSIVE Turn(_)
        Turn(s) ==
            IF Len(s) < 2 THEN Total(s)
            ELSE LET y == Heaviest(s)
                     rest == Without(s, y)
                     x == Heaviest(rest)
                 IN  Turn(Without(rest, x) \o IF s[y] = rest[x] THEN <<>> ELSE <<s[y] - rest[x]>>)
    IN  Turn(stones)

StonesJs(stones) ==
    LET RECURSIVE Smash(_)
        Smash(a) ==
            IF Len(a) <= 1 THEN (IF a = <<>> THEN 0 ELSE a[1])
            ELSE LET s == Ascending(a)
                     y == Last(s)
                     x == Last(Front(s))
                     rest == Front(Front(s))
                 IN  Smash(IF y # x THEN Append(rest, y - x) ELSE rest)
    IN  Smash(stones)

StonesPy(stones) ==
    LET RECURSIVE Smash(_)
        Smash(heap) ==
            IF Len(heap) <= 1 THEN (IF heap = <<>> THEN 0 ELSE -heap[1])
            ELSE LET y == -heap[1]
                     x == -heap[2]
                     rest == Tail(Tail(heap))
                 IN  Smash(IF y # x THEN HeapPush(rest, -(y - x)) ELSE rest)
    IN  Smash(Ascending([i \in DOMAIN stones |-> -stones[i]]))

-----------------------------------------------------------------------------
(* merge-k-sorted-lists *)

MergeKCases ==
    { Case(<<lists>>) : lists \in Arrays(SortedArrays(0 .. 1, 0, 2), 0, 3) }
        \cup { Example(<< << <<1, 4, 5>>, <<1, 3, 4>>, <<2, 6>> >> >>, <<1, 1, 2, 3, 4, 4, 5, 6>>),
               Example(<< <<>> >>, <<>>), Example(<< << <<>> >> >>, <<>>) }

MergeKAnswer(lists) == Ascending(FlattenSeq(lists))

MergeKJs(lists) ==
    LET RECURSIVE Merge(_, _)
        Merge(a, b) ==
            IF a = <<>> \/ b = <<>> THEN a \o b
            ELSE IF Head(a) <= Head(b) THEN <<Head(a)>> \o Merge(Tail(a), b)
            ELSE <<Head(b)>> \o Merge(a, Tail(b))
        RECURSIVE Rounds(_)
        Rounds(current) ==
            IF Len(current) = 1 THEN current[1]
            ELSE Rounds([i \in 1 .. (Len(current) + 1) \div 2 |->
                            IF 2 * i <= Len(current) THEN Merge(current[2 * i - 1], current[2 * i])
                            ELSE current[2 * i - 1]])
    IN  IF lists = <<>> THEN <<>> ELSE Rounds(lists)

\* The heap holds <<value, list, position>>; the least of them is popped.
MergeKPy(lists) ==
    LET Before(a, b) == \/ a[1] < b[1]
                        \/ a[1] = b[1] /\ a[2] < b[2]
        RECURSIVE Pop(_)
        Pop(heap) ==
            IF heap = {} THEN <<>>
            ELSE LET top == CHOOSE a \in heap : \A b \in heap \ {a} : Before(a, b)
                     i == top[2]
                     j == top[3]
                     more == IF j + 1 < Len(At(lists, i)) THEN {<<At(At(lists, i), j + 1), i, j + 1>>} ELSE {}
                 IN  <<top[1]>> \o Pop((heap \ {top}) \cup more)
    IN  Pop({ <<At(At(lists, i), 0), i, 0>> : i \in { n \in 0 .. Len(lists) - 1 : At(lists, n) # <<>> } })

-----------------------------------------------------------------------------
TreesHeaps ==
    { "maximum-depth-of-binary-tree", "invert-binary-tree", "binary-tree-level-order-traversal",
      "validate-binary-search-tree", "binary-tree-maximum-path-sum",
      "kth-largest-element-in-an-array", "last-stone-weight", "merge-k-sorted-lists" }

TreesCases(slug) ==
    CASE slug = "maximum-depth-of-binary-tree" -> DepthCases
      [] slug = "invert-binary-tree" -> InvertCases
      [] slug = "binary-tree-level-order-traversal" -> LevelsCases
      [] slug = "validate-binary-search-tree" -> BstCases
      [] slug = "binary-tree-maximum-path-sum" -> PathCases
      [] slug = "kth-largest-element-in-an-array" -> KthCases
      [] slug = "last-stone-weight" -> StonesCases
      [] slug = "merge-k-sorted-lists" -> MergeKCases

TreesSolved(slug, a) ==
    CASE slug = "maximum-depth-of-binary-tree" ->
            Solved(DepthAnswer(a[1]), DepthJs(a[1]), DepthPy(a[1]))
      [] slug = "invert-binary-tree" ->
            Solved(InvertAnswer(a[1]), InvertJs(a[1]), InvertPy(a[1]))
      [] slug = "binary-tree-level-order-traversal" ->
            Solved(LevelsAnswer(a[1]), LevelsJs(a[1]), LevelsPy(a[1]))
      [] slug = "validate-binary-search-tree" ->
            Solved(BstAnswer(a[1]), BstJs(a[1]), BstPy(a[1]))
      [] slug = "binary-tree-maximum-path-sum" ->
            Solved(PathAnswer(a[1]), PathJs(a[1]), PathPy(a[1]))
      [] slug = "kth-largest-element-in-an-array" ->
            Solved(KthAnswer(a[1], a[2]), KthJs(a[1], a[2]), KthPy(a[1], a[2]))
      [] slug = "last-stone-weight" ->
            Solved(StonesAnswer(a[1]), StonesJs(a[1]), StonesPy(a[1]))
      [] slug = "merge-k-sorted-lists" ->
            Solved(MergeKAnswer(a[1]), MergeKJs(a[1]), MergeKPy(a[1]))
=============================================================================
