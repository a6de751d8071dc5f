------------------------------ MODULE BankLists ------------------------------
(***************************************************************************)
(* The problems of lists-stacks.ts.  A linked list is the sequence of its  *)
(* values: the references splice nodes, but share none between two lists.  *)
(***************************************************************************)
EXTENDS BankCases

Push(x, stack) == <<x>> \o stack        \* the top of a stack is its head

-----------------------------------------------------------------------------
(* reverse-linked-list *)

ReverseCases ==
    { Case(<<head>>) : head \in Arrays(1 .. 2, 1, 4) }
        \cup { Example(<< <<1, 2, 3, 4, 5>> >>, <<5, 4, 3, 2, 1>>), Example(<< <<1, 2>> >>, <<2, 1>>),
               Example(<< <<>> >>, <<>>) }

ReverseAnswer(head) == [i \in DOMAIN head |-> head[Len(head) + 1 - i]]

ReverseJs(head) == FoldLeft(LAMBDA prev, node : Push(node, prev), <<>>, head)

ReversePy(head) ==
    LET RECURSIVE Go(_, _)
        Go(node, prev) == IF node = <<>> THEN prev ELSE Go(Tail(node), Push(Head(node), prev))
    IN  Go(head, <<>>)

-----------------------------------------------------------------------------
(* merge-two-sorted-lists *)

MergeTwoCases ==
    { Case(a) : a \in SortedArrays(0 .. 2, 0, 3) \X SortedArrays(0 .. 2, 0, 3) }
        \cup { Example(<< <<1, 2, 4>>, <<1, 3, 4>> >>, <<1, 1, 2, 3, 4, 4>>),
               Example(<< <<>>, <<>> >>, <<>>), Example(<< <<>>, <<0>> >>, <<0>>) }

MergeTwoAnswer(list1, list2) ==
    CHOOSE s \in [1 .. Len(list1 \o list2) -> ToSet(list1 \o list2)] :
        /\ \A i \in 1 .. Len(s) - 1 : s[i] <= s[i + 1]
        /\ ToBag(s) = ToBag(list1 \o list2)

MergeTwoJs(list1, list2) ==
    LET RECURSIVE Splice(_, _, _)
        Splice(merged, a, b) ==
            IF a = <<>> \/ b = <<>> THEN merged \o (IF a # <<>> THEN a ELSE b)
            ELSE IF Head(a) <= Head(b) THEN Splice(Append(merged, Head(a)), Tail(a), b)
            ELSE Splice(Append(merged, Head(b)), a, Tail(b))
    IN  Splice(<<>>, list1, list2)

MergeTwoPy(list1, list2) == Ascending(list1 \o list2)

-----------------------------------------------------------------------------
(* remove-nth-node-from-end-of-list *)

RemoveNthCases ==
    { Case(a) : a \in { <<head, n>> \in Arrays(0 .. 1, 1, 4) \X (1 .. 4) : n <= Len(head) } }
        \cup { Example(<< <<1, 2, 3, 4, 5>>, 2>>, <<1, 2, 3, 5>>), Example(<< <<1>>, 1>>, <<>>),
               Example(<< <<1, 2>>, 1>>, <<1>>) }

RemoveNthAnswer(head, n) ==
    [i \in 1 .. Len(head) - 1 |-> IF i <= Len(head) - n THEN head[i] ELSE head[i + 1]]

\* The dummy is node 0, the end of the list is behind node Len(head); fast runs n + 1 ahead.
RemoveNthJs(head, n) ==
    LET RECURSIVE Run(_, _)
        Run(fast, slow) == IF fast <= Len(head) THEN Run(fast + 1, slow + 1) ELSE slow
        slow == Run(n + 1, 0)
    IN  SubSeq(head, 1, slow) \o SubSeq(head, slow + 2, Len(head))

RemoveNthPy(head, n) ==
    LET idx == Len(head) - n IN
    IF idx = 0 THEN Tail(head) ELSE SubSeq(head, 1, idx) \o SubSeq(head, idx + 2, Len(head))

-----------------------------------------------------------------------------
(* add-two-numbers *)

DigitLists == { d \in Arrays({0, 1, 5, 9}, 1, 3) : Len(d) = 1 \/ Last(d) # 0 }

ValueOf(digits) == FoldRight(LAMBDA d, value : 10 * value + d, digits, 0)

AddCases ==
    { Case(a) : a \in { <<a, b>> \in DigitLists \X DigitLists : Len(a) + Len(b) <= 4 } }
        \cup { Example(<< <<2, 4, 3>>, <<5, 6, 4>> >>, <<7, 0, 8>>), Example(<< <<0>>, <<0>> >>, <<0>>),
               Example(<< <<9, 9, 9, 9, 9, 9, 9>>, <<9, 9, 9, 9>> >>, <<8, 9, 9, 9, 0, 0, 0, 1>>) }

\* The digits of the sum, least significant first, with no leading zero.
AddAnswer(l1, l2) ==
    LET sum == ValueOf(l1) + ValueOf(l2)
        digits == Max({ n \in 1 .. 8 : n = 1 \/ sum >= 10^(n - 1) })
    IN  [i \in 1 .. digits |-> (sum \div 10^(i - 1)) % 10]

AddJs(l1, l2) ==
    LET First(l) == IF l = <<>> THEN 0 ELSE Head(l)
        Rest(l) == IF l = <<>> THEN <<>> ELSE Tail(l)
        RECURSIVE Digits(_, _, _)
        Digits(a, b, carry) ==
            LET sum == First(a) + First(b) + carry IN
            IF a = <<>> /\ b = <<>> /\ carry = 0 THEN <<>>
            ELSE Push(sum % 10, Digits(Rest(a), Rest(b), sum \div 10))
    IN  Digits(l1, l2, 0)

AddPy(l1, l2) ==
    LET RECURSIVE Digits(_)        \* the digits of str(total), from the last one
        Digits(total) == IF total < 10 THEN <<total>> ELSE Push(total % 10, Digits(total \div 10))
    IN  Digits(ValueOf(l1) + ValueOf(l2))

-----------------------------------------------------------------------------
(* valid-parentheses *)

Brackets == << <<"(", ")">>, <<"[", "]">>, <<"{", "}">> >>

ValidCases ==
    { Case(<<s>>) : s \in Arrays({"(", ")", "[", "]"}, 1, 4) }
        \cup { Example(<< <<"(", ")">> >>, TRUE), Example(<< <<"(", ")", "[", "]", "{", "}">> >>, TRUE),
               Example(<< <<"(", "]">> >>, FALSE), Example(<< <<"(", "[", "]", ")">> >>, TRUE) }

\* Empty, or a pair of brackets around a valid string, then a valid string.
ValidAnswer(s) ==
    LET RECURSIVE Valid(_)
        Valid(t) == t = <<>> \/ \E i \in 2 .. Len(t) :
                                   /\ <<t[1], t[i]>> \in ToSet(Brackets)
                                   /\ Valid(SubSeq(t, 2, i - 1))
                                   /\ Valid(SubSeq(t, i + 1, Len(t)))
    IN  Valid(s)

ValidJs(s) ==
    LET Closing(c) == { b \in ToSet(Brackets) : b[2] = c }
        Visit(st, c) ==
            IF ~ st.ok THEN st
            ELSE IF Closing(c) = {} THEN [st EXCEPT !.stack = Push(c, st.stack)]
            ELSE IF st.stack # <<>> /\ <<Head(st.stack), c>> \in ToSet(Brackets)
            THEN [st EXCEPT !.stack = Tail(st.stack)]
            ELSE [st EXCEPT !.ok = FALSE]
        last == FoldLeft(Visit, [stack |-> <<>>, ok |-> TRUE], s)
    IN  last.ok /\ last.stack = <<>>

ValidPy(s) ==
    LET RECURSIVE Replace(_, _)        \* str.replace(pair, ""), from left to right
        Replace(t, pair) ==
            IF Len(t) < 2 THEN t
            ELSE IF SubSeq(t, 1, 2) = pair THEN Replace(SubSeq(t, 3, Len(t)), pair)
            ELSE <<Head(t)>> \o Replace(Tail(t), pair)
        RECURSIVE Shrink(_)
        Shrink(t) == LET u == FoldLeft(Replace, t, Brackets) IN IF u = t THEN t ELSE Shrink(u)
    IN  Shrink(s) = <<>>

-----------------------------------------------------------------------------
(* daily-temperatures *)

TemperaturesCases ==
    { Case(<<t>>) : t \in Arrays(30 .. 32, 1, 4) }
        \cup { Example(<< <<73, 74, 75, 71, 69, 72, 76, 73>> >>, <<1, 1, 4, 2, 1, 1, 0, 0>>),
               Example(<< <<30, 40, 50, 60>> >>, <<1, 1, 1, 0>>), Example(<< <<30, 60, 90>> >>, <<1, 1, 0>>) }

TemperaturesAnswer(t) ==
    LET Warmer(i) == { j \in i + 1 .. Len(t) : t[j] > t[i] } IN
    [i \in DOMAIN t |-> IF Warmer(i) = {} THEN 0 ELSE Min(Warmer(i)) - i]

TemperaturesJs(t) ==
    LET RECURSIVE Settle(_, _)
        Settle(s, i) ==
            IF s.stack # <<>> /\ t[Head(s.stack)] < t[i]
            THEN Settle([stack |-> Tail(s.stack),
                         out |-> [s.out EXCEPT ![Head(s.stack)] = i - Head(s.stack)]], i)
            ELSE [s EXCEPT !.stack = Push(i, s.stack)]
    IN  FoldLeft(Settle, [stack |-> <<>>, out |-> [i \in DOMAIN t |-> 0]], Upto(1, Len(t))).out

\* nxt: the next day of every temperature, beyond the last day for one not met yet.
TemperaturesPy(t) ==
    LET none == Len(t) + 1
        Visit(s, i) ==
            LET warmer == Min({none} \cup { s.nxt[d] : d \in { e \in DOMAIN s.nxt : e > t[i] } }) IN
            [out |-> IF warmer < none THEN [s.out EXCEPT ![i] = warmer - i] ELSE s.out,
             nxt |-> (t[i] :> i) @@ s.nxt]
    IN  FoldLeft(Visit, [out |-> [i \in DOMAIN t |-> 0], nxt |-> <<>>], Reverse(Upto(1, Len(t)))).out

-----------------------------------------------------------------------------
(* evaluate-reverse-polish-notation: a token is a number or an operator *)

Number(v) == [op |-> "number", value |-> v]

Operator(op) == [op |-> op, value |-> 0]

Operators == {"+", "-", "*", "/"}

\* Division truncates toward zero.
Quotient(a, b) == IF (a >= 0) = (b > 0) THEN Larger(a, -a) \div Larger(b, -b)
                  ELSE -(Larger(a, -a) \div Larger(b, -b))

Apply(op, a, b) ==
    CASE op = "+" -> a + b
      [] op = "-" -> a - b
      [] op = "*" -> a * b
      [] op = "/" -> Quotient(a, b)

\* One, two or three operands and their operators, with no division by zero.
RpnCases ==
    { Case(<< <<Number(a), Number(b), Operator(op)>> >>) :
        a \in {-7, 0, 7}, b \in {-2, 2, 3}, op \in Operators }
        \cup { Case(<< <<Number(a), Number(3), Operator(op), Number(b), Operator(or)>> >>) :
                 a \in {-7, 8}, b \in {-2, 5}, op \in Operators, or \in Operators }
        \cup { Case(<< <<Number(a), Number(b), Number(3), Operator(op), Operator(or)>> >>) :
                 a \in {-7, 8}, b \in {-2, 5}, op \in Operators, or \in Operators \ {"/"} }
        \cup { Example(<< <<Number(2), Number(1), Operator("+"), Number(3), Operator("*")>> >>, 9),
               Example(<< <<Number(4), Number(13), Number(5), Operator("/"), Operator("+")>> >>, 6) }

\* A number, or the last token applied to the two expressions before it.
RpnAnswer(tokens) ==
    LET Balance(t) == Cardinality({ i \in DOMAIN t : t[i].op = "number" })
                        - Cardinality({ i \in DOMAIN t : t[i].op # "number" })
        RECURSIVE Value(_)
        Value(t) ==
            LET n == Len(t)
                split == Max({ k \in 1 .. n - 2 : /\ Balance(SubSeq(t, 1, k)) = 1
                                                   /\ Balance(SubSeq(t, k + 1, n - 1)) = 1 })
            IN  IF n = 1 THEN t[1].value
                ELSE Apply(t[n].op, Value(SubSeq(t, 1, split)), Value(SubSeq(t, split + 1, n - 1)))
    IN  Value(tokens)

RpnJs(tokens) ==
    LET Truncated(a, b) == IF a % Larger(b, -b) = 0 \/ a >= 0 THEN Quotient(a, b)
                           ELSE -(Quotient(-a, b))
        Visit(stack, t) ==
            IF t.op = "number" THEN Push(t.value, stack)
            ELSE LET b == stack[1]
                     a == stack[2]
                 IN  Push(IF t.op = "/" THEN Truncated(a, b) ELSE Apply(t.op, a, b), SubSeq(stack, 3, Len(stack)))
    IN  Head(FoldLeft(Visit, <<>>, tokens))

RpnPy(tokens) ==
    LET Visit(stack, t) ==
            IF t.op = "number" THEN Push(t.value, stack)
            ELSE Push(Apply(t.op, stack[2], stack[1]), SubSeq(stack, 3, Len(stack)))
    IN  Head(FoldLeft(Visit, <<>>, tokens))

-----------------------------------------------------------------------------
(* largest-rectangle-in-histogram *)

RectangleCases ==
    { Case(<<heights>>) : heights \in Arrays(0 .. 2, 1, 4) \cup { <<6, 2, 5, 4, 5, 1, 6>> } }
        \cup { Example(<< <<2, 1, 5, 6, 2, 3>> >>, 10), Example(<< <<2, 4>> >>, 4) }

RectangleAnswer(heights) ==
    Max({ (b[2] - b[1] + 1) * Min({ heights[i] : i \in b[1] .. b[2] }) :
            b \in { c \in (DOMAIN heights) \X (DOMAIN heights) : c[1] <= c[2] } })

\* A bar of height 0 behind the last one empties the stack.
RectangleJs(heights) ==
    LET Height(i) == IF i = Len(heights) THEN 0 ELSE At(heights, i)
        RECURSIVE Close(_, _)
        Close(s, i) ==
            IF s.stack # <<>> /\ Height(Head(s.stack)) >= Height(i)
            THEN LET below == Tail(s.stack)
                     left == IF below = <<>> THEN 0 ELSE Head(below) + 1
                 IN  Close([stack |-> below, best |-> Larger(s.best, Height(Head(s.stack)) * (i - left))], i)
            ELSE [s EXCEPT !.stack = Push(i, s.stack)]
    IN  FoldLeft(Close, [stack |-> <<>>, best |-> 0], Upto(0, Len(heights))).best

RectanglePy(heights) ==
    LET n == Len(heights)
        RECURSIVE Lower(_, _)        \* the stack without the bars that are not lower than bar i
        Lower(stack, i) ==
            IF stack # <<>> /\ heights[Head(stack)] >= heights[i] THEN Lower(Tail(stack), i) ELSE stack
        \* For every bar the nearest lower one on the side the walk comes from.
        Walk(indices, none) ==
            FoldLeft(LAMBDA s, i :
                        LET stack == Lower(s.stack, i) IN
                        [stack |-> Push(i, stack),
                         bound |-> (i :> IF stack = <<>> THEN none ELSE Head(stack)) @@ s.bound],
                     [stack |-> <<>>, bound |-> <<>>], indices).bound
        left == Walk(Upto(1, n), 0)
        right == Walk(Reverse(Upto(1, n)), n + 1)
    IN  Max({ heights[i] * (right[i] - left[i] - 1) : i \in 1 .. n })

-----------------------------------------------------------------------------
ListsStacks ==
    { "reverse-linked-list", "merge-two-sorted-lists", "remove-nth-node-from-end-of-list",
      "add-two-numbers", "valid-parentheses", "daily-temperatures",
      "evaluate-reverse-polish-notation", "largest-rectangle-in-histogram" }

ListsCases(slug) ==
    CASE slug = "reverse-linked-list" -> ReverseCases
      [] slug = "merge-two-sorted-lists" -> MergeTwoCases
      [] slug = "remove-nth-node-from-end-of-list" -> RemoveNthCases
      [] slug = "add-two-numbers" -> AddCases
      [] slug = "valid-parentheses" -> ValidCases
      [] slug = "daily-temperatures" -> TemperaturesCases
      [] slug = "evaluate-reverse-polish-notation" -> RpnCases
      [] slug = "largest-rectangle-in-histogram" -> RectangleCases

ListsSolved(slug, a) ==
    CASE slug = "reverse-linked-list" ->
            Solved(ReverseAnswer(a[1]), ReverseJs(a[1]), ReversePy(a[1]))
      [] slug = "merge-two-sorted-lists" ->
            Solved(MergeTwoAnswer(a[1], a[2]), MergeTwoJs(a[1], a[2]), MergeTwoPy(a[1], a[2]))
      [] slug = "remove-nth-node-from-end-of-list" ->
            Solved(RemoveNthAnswer(a[1], a[2]), RemoveNthJs(a[1], a[2]), RemoveNthPy(a[1], a[2]))
      [] slug = "add-two-numbers" -> Solved(AddAnswer(a[1], a[2]), AddJs(a[1], a[2]), AddPy(a[1], a[2]))
      [] slug = "valid-parentheses" -> Solved(ValidAnswer(a[1]), ValidJs(a[1]), ValidPy(a[1]))
      [] slug = "daily-temperatures" ->
            Solved(TemperaturesAnswer(a[1]), TemperaturesJs(a[1]), TemperaturesPy(a[1]))
      [] slug = "evaluate-reverse-polish-notation" -> Solved(RpnAnswer(a[1]), RpnJs(a[1]), RpnPy(a[1]))
      [] slug = "largest-rectangle-in-histogram" ->
            Solved(RectangleAnswer(a[1]), RectangleJs(a[1]), RectanglePy(a[1]))
=============================================================================
