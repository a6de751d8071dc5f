------------------------------ MODULE Harness ------------------------------
(***************************************************************************)
(* The text between the judge and the programs it runs: how core encodes   *)
(* the arguments of a test, how the harness generated for each of the five *)
(* languages reads them and prints a result, and how two outputs are       *)
(* compared.                                                               *)
(*                                                                         *)
(* A text is a sequence of lines and a line a sequence of tokens.  A token *)
(* is <<x>> for a number, a Boolean or a letter x, and <<>> for the word   *)
(* "null".  A string is the sequence of its letters, a linked list the     *)
(* sequence of its values, and a double a whole number of its smallest     *)
(* unit: no problem returns one that five digits do not hold.  A line that *)
(* a program prints of its own is blank or begins with a number.           *)
(***************************************************************************)
EXTENDS Integers, Sequences, SequencesExt

Null == <<>>

Line(s) == [i \in DOMAIN s |-> <<s[i]>>]

Numbers(tokens) == [i \in DOMAIN tokens |-> tokens[i][1]]

FirstOf(s, n) == SubSeq(s, 1, IF n < Len(s) THEN n ELSE Len(s))

-----------------------------------------------------------------------------
(***************************************************************************)
(* Trees.  A tree is <<>> or <<left, value, right>>; a tree in level order *)
(* is a sequence of tokens in which a null stands for a missing child.     *)
(***************************************************************************)

TrimTree(tokens) ==
    LET present == { i \in DOMAIN tokens : tokens[i] # Null }
    IN  FirstOf(tokens, CHOOSE n \in {0} \cup present : \A i \in present : i <= n)

\* Every node in the order of a queue to which a visited node adds both its children:
\* queue[k] is the queue when k nodes have been visited, rest[k] are the nodes still to visit.
Visited(root) ==
    LET queue[k \in Nat] ==
            IF k = 0 THEN <<root>>
            ELSE LET node == Head(queue[k - 1])
                 IN  IF queue[k - 1] = <<>> THEN <<>>
                     ELSE Tail(queue[k - 1]) \o IF node = <<>> THEN <<>> ELSE <<node[1], node[3]>>
        rest[k \in Nat] == IF queue[k] = <<>> THEN <<>> ELSE <<Head(queue[k])>> \o rest[k + 1]
    IN  rest[0]

ToLevelOrder(root) ==
    LET nodes == Visited(root)
    IN  TrimTree([i \in DOMAIN nodes |-> IF nodes[i] = <<>> THEN Null ELSE <<nodes[i][2]>>])

\* The tree below one node of a table of nodes, in which child 0 is no child.
Unfold(nodes, root) ==
    LET tree[i \in 0 .. Len(nodes)] ==
            IF i = 0 THEN <<>> ELSE <<tree[nodes[i].left], nodes[i].val, tree[nodes[i].right]>>
    IN  tree[root]

Leaf(token) == [val |-> token[1], left |-> 0, right |-> 0]

\* Nodes are made in the order in which they enter the queue, and each takes two tokens:
\* linked[k] are the nodes when the first k of them have taken theirs.
JsTree(n, line) ==
    LET t == FirstOf(line, n)
        Child(nodes, side, head, i) ==
            IF i <= Len(t) /\ t[i] # Null
            THEN Append([nodes EXCEPT ![head][side] = Len(nodes) + 1], Leaf(t[i]))
            ELSE nodes
        linked[k \in 0 .. Len(t)] ==
            IF k = 0 THEN <<Leaf(t[1])>>
            ELSE IF k > Len(linked[k - 1]) \/ 2 * k > Len(t) THEN linked[k - 1]
            ELSE Child(Child(linked[k - 1], "left", k, 2 * k), "right", k, 2 * k + 1)
    IN  IF t = <<>> \/ t[1] = Null THEN <<>> ELSE Unfold(linked[Len(t)], 1)

\* C makes all nodes first, and then links those it finds behind each node of the queue.
CTree(n, line) ==
    LET t == FirstOf(line, n)
        nodes == [i \in DOMAIN t |-> IF t[i] = Null THEN Null ELSE Leaf(t[i])]
        Fill(st, side) ==
            IF st.i > Len(t) THEN st
            ELSE [nodes |-> [st.nodes EXCEPT ![Head(st.queue)][side] =
                                IF t[st.i] = Null THEN 0 ELSE st.i],
                  queue |-> IF t[st.i] = Null THEN st.queue ELSE Append(st.queue, st.i),
                  i |-> st.i + 1]
        Linked(st) == [Fill(Fill(st, "left"), "right") EXCEPT !.queue = Tail(@)]
        after[k \in 0 .. Len(t)] ==
            IF k = 0 THEN [nodes |-> nodes, queue |-> <<1>>, i |-> 2]
            ELSE IF after[k - 1].queue = <<>> \/ after[k - 1].i > Len(t) THEN after[k - 1]
            ELSE Linked(after[k - 1])
    IN  IF t = <<>> \/ t[1] = Null THEN <<>> ELSE Unfold(after[Len(t)].nodes, 1)

-----------------------------------------------------------------------------
(***************************************************************************)
(* Encoding.                                                               *)
(***************************************************************************)

Scalars == {"int", "long", "double", "bool"}

ValueTypes == Scalars \cup {"string", "int[]", "int[][]", "string[]", "ListNode", "TreeNode"}

\* What validateValue lets pass.
ValidValue(type, value) ==
    CASE type \in {"int", "long", "double"} -> value \in Int
      [] type = "bool" -> value \in BOOLEAN
      [] type = "string" -> value \in Seq(STRING)
      [] type \in {"int[]", "ListNode"} -> value \in Seq(Int)
      [] type = "int[][]" -> value \in Seq(Seq(Int))
      [] type = "string[]" -> value \in Seq(Seq(STRING))
      [] type = "TreeNode" ->
            /\ value \in Seq(Seq(Int)) /\ \A i \in DOMAIN value : Len(value[i]) <= 1
            /\ value # <<>> => value[1] # Null

EncodeArg(type, value) ==
    CASE type \in Scalars -> << Line(<<value>>) >>
      [] type = "string" -> << Line(value) >>
      [] type \in {"int[]", "ListNode"} -> << Line(<<Len(value)>>), Line(value) >>
      [] type = "int[][]" ->
            << Line(<<Len(value)>>) >> \o [i \in DOMAIN value |-> Line(<<Len(value[i])>> \o value[i])]
      [] type = "string[]" -> << Line(<<Len(value)>>) >> \o [i \in DOMAIN value |-> Line(value[i])]
      [] type = "TreeNode" -> << Line(<<Len(TrimTree(value))>>), TrimTree(value) >>

EncodeInput(types, args) ==
    FlattenSeq([i \in DOMAIN types |-> EncodeArg(types[i], args[i])])

\* What encodeOutput and the five formatters print of a value that is not a tree.
Rows(value) == << Line(<<Len(value)>>) >> \o [i \in DOMAIN value |-> Line(value[i])]

EncodeOutput(type, value) ==
    CASE type \in Scalars -> << Line(<<value>>) >>
      [] type \in {"string", "int[]", "ListNode"} -> << Line(value) >>
      [] type \in {"int[][]", "string[]"} -> Rows(value)
      [] type = "TreeNode" -> << TrimTree(value) >>

-----------------------------------------------------------------------------
(***************************************************************************)
(* The harnesses.  A reader takes the next lines of the input, and an      *)
(* empty line when there is none; it returns the value and the other       *)
(* lines.  JavaScript and Python cut a row at the announced length, C++    *)
(* and Java stop at it or at the end of the row, and C reads as many       *)
(* numbers as were announced, zeros where the row has ended.               *)
(***************************************************************************)

LineAt(in, i) == IF i <= Len(in) THEN in[i] ELSE <<>>

After(in, n) == SubSeq(in, n + 1, Len(in))

ReadArg(type, in, Ints(_, _), Tree(_, _)) ==
    LET first == LineAt(in, 1)
        second == LineAt(in, 2)
        n == first[1][1]
    IN  CASE type \in Scalars -> [value |-> n, rest |-> After(in, 1)]
          [] type = "string" -> [value |-> Numbers(first), rest |-> After(in, 1)]
          [] type \in {"int[]", "ListNode"} -> [value |-> Ints(n, second), rest |-> After(in, 2)]
          [] type = "TreeNode" -> [value |-> Tree(n, second), rest |-> After(in, 2)]
          [] type = "string[]" ->
                [value |-> [i \in 1 .. n |-> Numbers(LineAt(in, i + 1))], rest |-> After(in, n + 1)]
          [] type = "int[][]" ->
                [value |-> [i \in 1 .. n |-> LET row == LineAt(in, i + 1) IN
                                             IF row = <<>> THEN <<>> ELSE Ints(row[1][1], Tail(row))],
                 rest |-> After(in, n + 1)]

SlicedInts(n, tokens) == Numbers(FirstOf(tokens, n))

BoundedInts(n, tokens) ==
    LET Both == { i \in 1 .. n : i <= Len(tokens) } IN [i \in Both |-> tokens[i][1]]

StrtolInts(n, tokens) == [i \in 1 .. n |-> IF i <= Len(tokens) THEN tokens[i][1] ELSE 0]

JavascriptArg(type, in) == ReadArg(type, in, SlicedInts, JsTree)

PythonArg(type, in) == ReadArg(type, in, SlicedInts, JsTree)

CppArg(type, in) == ReadArg(type, in, BoundedInts, JsTree)

JavaArg(type, in) == ReadArg(type, in, BoundedInts, JsTree)

CArg(type, in) == ReadArg(type, in, StrtolInts, CTree)

-----------------------------------------------------------------------------
(***************************************************************************)
(* The printers.  A result is Nothing (undefined, None or null) or <<v>>.  *)
(* What has no value is printed as what is empty, except a number:         *)
(* JavaScript prints NaN, and Python raises an exception.  A list or a     *)
(* tree without nodes is null in every language, so it is a value.         *)
(*                                                                         *)
(* A script may return what is not of the type that was declared, and its  *)
(* printer makes of it what is: a number loses what follows the point, and *)
(* any number but zero is true, as a Boolean is a number where one was     *)
(* declared.  Numbers and Booleans of a script are therefore counted in    *)
(* halves: 5 is 2.5, or what else Number() or int() makes 2.5 of.  A node  *)
(* of a list or a tree, and a string, are printed by the text they have,   *)
(* which is what stands for them here.  Where a conversion raises an       *)
(* exception, the program crashes.                                         *)
(***************************************************************************)
Scripts == {"javascript", "python"}

Nothing == <<>>

Nullable == {"string", "int[]", "int[][]", "string[]"}

Empty(type) == IF type = "bool" THEN FALSE ELSE <<>>

\* The token NaN: it has two parts, so that it is not the token of any number.
NotANumber == << <<"not", "a number">> >>

\* What the function of a language may return, but for nothing; a tree as a test writes it.
MayReturn(language, type, value) ==
    IF language \in Scripts /\ type \in {"int", "long", "bool"} THEN value \in Int
    ELSE ValidValue(type, value)

\* Towards zero.
Trunc(halves) == IF halves >= 0 THEN halves \div 2 ELSE - ((- halves) \div 2)

\* What the printers of the scripts make of what was returned.
Coerced(type, value) ==
    CASE type \in {"int", "long"} -> Trunc(value)
      [] type = "bool" -> value # 0
      [] type = "int[]" -> [i \in DOMAIN value |-> Trunc(value[i])]
      [] type = "int[][]" -> [i \in DOMAIN value |-> [k \in DOMAIN value[i] |-> Trunc(value[i][k])]]
      [] OTHER -> value

\* A value of the declared type as a script returns it.
InHalves(type, value) ==
    CASE type \in {"int", "long"} -> 2 * value
      [] type = "bool" -> IF value THEN 2 ELSE 0
      [] type = "int[]" -> [i \in DOMAIN value |-> 2 * value[i]]
      [] type = "int[][]" -> [i \in DOMAIN value |-> [k \in DOMAIN value[i] |-> 2 * value[i][k]]]
      [] OTHER -> value

\* A tree is printed in level order, with what is missing at the end left out.
Format(type, value) ==
    IF type = "TreeNode" THEN << ToLevelOrder(value) >> ELSE EncodeOutput(type, value)

OrEmpty(type, result) == IF result = Nothing THEN Empty(type) ELSE result[1]

ScriptFormat(type, result) ==
    Format(type, IF result = Nothing THEN Empty(type) ELSE Coerced(type, result[1]))

JavascriptFormat(type, result) ==
    IF result = Nothing /\ type \in {"int", "long", "double"} THEN << NotANumber >>
    ELSE ScriptFormat(type, result)

PythonRaises(type, result) == result = Nothing /\ type \in {"int", "long", "double"}

PythonFormat(type, result) == ScriptFormat(type, result)

\* References may be null, numbers may not.
JavaFormat(type, result) == Format(type, OrEmpty(type, result))

\* The size that the function was to set stays 0.
CFormat(type, result) == Format(type, OrEmpty(type, result))

CppFormat(type, result) == Format(type, result[1])

MayReturnNothing(language, type) ==
    CASE language \in {"javascript", "python"} -> type \notin {"ListNode", "TreeNode"}
      [] language \in {"java", "c"} -> type \in Nullable
      [] language = "cpp" -> FALSE

-----------------------------------------------------------------------------
(***************************************************************************)
(* Comparing two outputs.  A sorted row is compared as the bag of its      *)
(* tokens, sorted rows as the bag of the rows.                             *)
(***************************************************************************)

NormalizeOutput(text) ==
    LET filled == { i \in DOMAIN text : text[i] # <<>> }
    IN  FirstOf(text, CHOOSE n \in {0} \cup filled : \A i \in filled : i <= n)

\* Without what is blank in front, and at the end, which normalizeOutput leaves out anyway.  No line
\* that is not blank begins with a blank.
Trimmed(text) ==
    LET filled == { i \in DOMAIN text : text[i] # <<>> }
        start == CHOOSE n \in {Len(text) + 1} \cup filled : \A i \in filled : n <= i
    IN  SubSeq(text, start, Len(text))

\* parseInt makes NaN of a blank line, no rows of NaN, and a line NaN that no answer begins with;
\* lines follow such a line, as normalizeOutput has left it, and none follow the count 0.
CountOf(lines) == IF lines = <<>> \/ lines[1] = <<>> THEN 0 ELSE lines[1][1][1]

\* MUTANT of CanonicalUnordered: the rows of an answer are always sorted as well.
CanonicalSorted(lines, returns, sortInner) ==
    IF returns \in {"int[]", "ListNode"} THEN << ToBag(LineAt(lines, 1)) >>
    ELSE IF returns \notin {"int[][]", "string[]"} THEN lines
    ELSE LET count == CountOf(lines)
         IN  << count, ToBag([i \in 1 .. count |-> ToBag(LineAt(lines, i + 1))]), After(lines, count + 1) >>

CanonicalUnordered(lines, returns, sortInner) ==
    IF returns \in {"int[]", "ListNode"} THEN << ToBag(LineAt(lines, 1)) >>
    ELSE IF returns \notin {"int[][]", "string[]"} THEN lines
    ELSE LET count == CountOf(lines)
             rows == [i \in 1 .. count |-> LineAt(lines, i + 1)]
             shown == IF sortInner /\ returns = "int[][]"
                      THEN ToBag([i \in 1 .. count |-> ToBag(rows[i])])
                      ELSE ToBag(rows)
         IN  << count, shown, After(lines, count + 1) >>

OutputsMatch(actual, expected, comparator, returns) ==
    LET Canonical(text) ==
            IF comparator = "unordered" \/ comparator = "sortInner"
            THEN CanonicalUnordered(NormalizeOutput(text), returns, comparator = "sortInner")
            ELSE NormalizeOutput(text)
    IN  Canonical(actual) = Canonical(expected)
=============================================================================
