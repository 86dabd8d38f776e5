---------------------------- MODULE MCScheduler ----------------------------
(* Small manifests for Scheduler.                                          *)
EXTENDS Scheduler

Wide   == {<<"a", "**">>}           \* a directory
Inner  == {<<".", "a", "b">>}       \* a file below it, written differently
Apart  == {<<"c">>, <<"d", "">>}    \* paths of their own

T(id, owns, deps, res) ==
    [id |-> id, owns |-> owns, depends_on |-> deps, cpu |-> res[1], memory |-> res[2]]

M(max, cpu, mem, tasks) ==
    [max_parallel |-> max, cpu |-> cpu, memory |-> mem, tasks |-> tasks]

(* What Validate refuses: a duplicate id, a task that does not fit, a free *)
(* task, an escaping path, an unknown dependency, a cycle, no task at all. *)
InvalidManifests ==
    { M(1, 1, 1, <<>>), M(0, 1, 1, <<T("t1", Apart, {}, <<1, 1>>)>>) } \cup
    { M(2, 2, 2, <<T("t1", Apart, {}, <<1, 1>>), t>>) :
        t \in { T("t1", Wide, {}, <<1, 1>>), T("t2", Wide, {}, <<1, 3>>),
                T("t2", Wide, {}, <<0, 1>>), T("t2", {<<"a", "..", "..">>}, {}, <<1, 1>>),
                T("t2", Wide, {"t3"}, <<1, 1>>), T("t2", Wide, {"t2"}, <<1, 1>>) } }

(* One decision: every task state, few dependency graphs, many loads.  Cpu *)
(* and memory are alike to Next, so that the first load may be fixed.      *)
DecisionManifests ==
    InvalidManifests \cup
    { M(max, 3, 3, <<T("t1", o[1], {}, r[1]), T("t2", o[2], d, r[2]), T("t3", o[3], {}, r[3])>>) :
        max \in 1..2,
        o \in { <<Inner, Wide, Inner>>, <<Apart, Wide, {<<"e">>}>> },
        d \in { {}, {"t1", "t3"} },
        r \in { s \in [1..3 -> {<<1, 2>>, <<2, 1>>}] : s[1] = <<1, 2>> } }

(* A whole plan: every dependency relation on four tasks up to a fixed     *)
(* first one, cyclic ones included.                                        *)
PlanManifests ==
    InvalidManifests \cup
    { M(max, 3, 2, <<T("t1", o[1], d[1], <<1, 1>>), T("t2", o[2], d[2], <<2, 1>>),
                     T("t3", o[3], d[3], <<2, 2>>), T("t4", o[4], {"t2"}, <<1, 1>>)>>) :
        max \in {1, 3},
        o \in { <<Wide, Inner, Apart, Inner>>, <<Apart, Wide, Inner, {<<"e">>}>> },
        d \in [1..3 -> { {}, {"t1"}, {"t2"}, {"t3"}, {"t4"}, {"t1", "t3"} }] }

(* Two tasks with one pattern each: on one side every raw path of at most  *)
(* two segments and some of three, globs last, in the middle and hidden.   *)
Segments == {"a", "b", Root, Here, Up}

RawPatterns ==
    UNION { [1..n -> Segments] : n \in 1..2 } \cup
    { <<s, g>> : s \in Segments, g \in {Star, Stars} } \cup
    { <<Here, "a", Stars>>, <<Here, "a", Star>>, <<"a", "b", Stars>>, <<"a", "b", Star>>,
      <<"a", "b", Root>>, <<"a", Here, "b">>, <<"a", Up, "b">>, <<"a", Up, Up>>,
      <<Up, "a", "b">>, <<"a", Root, Stars>>, <<"a", Up, Stars>>, <<"a", Up, Up, "b">>,
      <<"a", Star, Stars>>, <<"a", Stars, Star>>, <<"a", Stars, "b">>, <<"a", Stars, Root>> }

PatternManifests ==
    { M(2, 2, 2, <<T("t1", {l}, {}, <<1, 1>>), T("t2", {r}, {}, <<1, 1>>)>>) :
        l \in RawPatterns,
        r \in { <<"a", Stars>>, <<"a", "b">>, <<Here, "b", Root>> } }

MCCalls     == ({"once"} \X (DecisionManifests \cup PatternManifests)) \cup ({"plan"} \X PlanManifests)
MCManifests == { c[2] : c \in MCCalls }

MCFiles == UNION { [1..n -> {"a", "b"}] : n \in 1..3 }

=============================================================================
