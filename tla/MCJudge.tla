------------------------------ MODULE MCJudge ------------------------------
(***************************************************************************)
(* Jobs of three kinds, for the executor and for the fallback.  Jobs about *)
(* values: every language, every type and every comparator a problem may   *)
(* have, two tests; a script returns numbers that are a half more or less. *)
(* Jobs about output: programs that print a blank line or an answer of     *)
(* their own, or nothing, and exit.  Jobs about time: three tests of a     *)
(* number, programs that end at once, just within the limit or never, and  *)
(* a docker that is prompt, slow, or slower than the judge allows for.     *)
(***************************************************************************)
EXTENDS Judge

Languages == {"c", "cpp", "java", "javascript", "python"}

\* The values of a type: empty, one element, equal elements, and the same in another order.
ValuesOf(type) ==
    CASE type \in {"int", "long", "double"} -> {0, 1, -2}
      [] type = "bool" -> BOOLEAN
      [] type = "string" -> {<<>>, <<"a">>, <<"b", "a">>}
      [] type \in {"int[]", "ListNode"} -> {<<>>, <<0>>, <<1, 2>>, <<2, 1>>, <<1, 1>>}
      [] type = "int[][]" ->
            {<<>>, <<(<<>>)>>, << <<1>>, <<>> >>, << <<>>, <<1>> >>, << <<1, 2>> >>, << <<2, 1>> >>}
      [] type = "string[]" -> {<<>>, <<(<<>>)>>, << <<"a">>, <<"b">> >>, << <<"b">>, <<"a">> >>}
      [] type = "TreeNode" ->
            {<<>>, <<(<<1>>)>>, << <<1>>, Null, <<2>> >>, << <<1>>, <<2>> >>,
             << <<1>>, Null, <<2>>, <<3>> >>, << <<1>>, <<2>>, <<3>>, Null, <<4>> >>}

ComparatorsOf(type) ==
    {"exact", "unordered"} \cup IF type = "int[][]" THEN {"sortInner"} ELSE {}

\* The values as a program returns them: in a script each number, or none of them, may be off by a half.
Off(type, value, d) ==
    CASE type \in {"int", "long", "bool"} -> value + d
      [] type = "int[]" -> [i \in DOMAIN value |-> value[i] + d]
      [] type = "int[][]" -> [i \in DOMAIN value |-> [k \in DOMAIN value[i] |-> value[i][k] + d]]
      [] OTHER -> value

ReturnsOf(language, type) ==
    IF language \in Scripts
    THEN { Off(type, InHalves(type, value), d) : value \in ValuesOf(type), d \in {-1, 0, 1} }
    ELSE ValuesOf(type)

JobOf(by, language, type, comparator, expects, tests, says, paces, latencies) ==
    [by |-> by, language |-> language, type |-> type, comparator |-> comparator, expects |-> expects,
     values |-> ValuesOf(type), returns |-> ReturnsOf(language, type), tests |-> tests, says |-> says,
     paces |-> paces, latencies |-> latencies]

By == {"sandbox", "fallback"}

ValueJobs ==
    UNION { UNION { { JobOf(by, language, type, comparator, TRUE, tests, {}, {1}, {0}) :
                        by \in By, language \in Languages, tests \in [1 .. 2 -> ValuesOf(type)] }
                    : comparator \in ComparatorsOf(type) } : type \in ValueTypes }

SaysOf(type) == { <<>>, << <<>> >> } \cup { EncodeOutput(type, value) : value \in ValuesOf(type) }

OutputJobs ==
    UNION { { JobOf(by, language, type, comparator, TRUE, tests, SaysOf(type), {1}, {0}) :
                by \in By, language \in Languages, comparator \in {"exact", "unordered"},
                tests \in [1 .. 1 -> ValuesOf(type)] }
            : type \in {"int", "string", "int[]", "int[][]"} }

TimeJobs ==
    { JobOf(by, language, "int", "exact", expects, <<0, 1, 1>>, {}, {1, 9, 99}, latencies) :
        by \in By, language \in {"cpp", "python"}, expects \in BOOLEAN, latencies \in {{0, 3}, {6}} }

MCJobs == ValueJobs \cup OutputJobs \cup TimeJobs
=============================================================================
