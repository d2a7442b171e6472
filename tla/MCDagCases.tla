----------------------------- MODULE MCDagCases -----------------------------
(* Graphs of an output that reads two writers under two branches, a formal   *)
(* parameter or one another in circles, and logs in which a signal comes     *)
(* late, is sampled seldom or is absent.                                     *)
EXTENDS Integers, Sequences

CONSTANT NoText

LOCAL Vacant ==
  [kind |-> "open", value |-> 0, inputs |-> <<>>, controls |-> <<>>, text |-> NoText,
   exact |-> TRUE, held |-> FALSE, place |-> <<"scope", 0, 0>>, fresh |-> NoText]
LOCAL Log == [Vacant EXCEPT !.kind = "signal"]
LOCAL Known(n) == [Vacant EXCEPT !.kind = "known", !.value = n]
LOCAL Op(text, inputs, controls, line) ==
  [Vacant EXCEPT !.kind = "operation", !.text = text, !.inputs = inputs, !.controls = controls,
                !.place = <<"scope", line, 0>>]
LOCAL Test(text, inputs) == [Vacant EXCEPT !.kind = "branch", !.text = text, !.inputs = inputs]
LOCAL Read(r) == <<"read", r>>
LOCAL Both == <<<<"s", "s1">>, <<"u", "s2">>>>

LOCAL Firsts ==
  {Test(Read("s"), Both), Test(<<"and", Read("s"), Read("u")>>, Both),
   Test(<<"not", <<"or", Read("u"), Read("s")>>>>, Both),
   [Test(NoText, <<>>) EXCEPT !.fresh = "always_true"],
   Test(Read("k"), <<<<"k", "k">>>>), Test(<<"and", Read("k"), Read("s")>>, Both \o <<<<"k", "k">>>>)}
LOCAL Seconds ==
  {Test(<<"not", Read("s")>>, Both), Test(Read("u"), Both),
   [Test(NoText, <<>>) EXCEPT !.fresh = "always_false"],
   Test(<<"and", Read("y"), Read("u")>>, <<<<"y", "o1">>, <<"u", "s2">>>>)}

LOCAL Two(c, l) == <<Op(Read("u"), Both, <<"b1">>, 1), Op(<<"number", 2>>, <<>>, c, l)>>
LOCAL Writers ==
  {Two(<<"b2">>, 1), Two(<<>>, 2), Two(<<"b1", "b2">>, 2),
   <<Op(<<"number", 2>>, <<>>, <<"b2">>, 2),
     Op(<<"plus", Read("x"), Read("u")>>, <<<<"x", "o1">>, <<"u", "s2">>>>, <<"b1">>, 1)>>}
LOCAL Ends ==
  {Op(Read("x"), <<<<"x", "o1">>, <<"x", "o2">>>>, <<>>, 3),
   Op(<<"if", Read("s"), Read("x"), <<"number", 3>>>>, <<<<"s", "s1">>, <<"x", "f">>, <<"x", "o1">>>>, <<>>, 3)}

LOCAL Made(b1, b2, w, e, k) ==
  [v \in {"s1", "s2", "k", "f", "b1", "b2", "o1", "o2", "out"} |->
     CASE v \in {"s1", "s2"} -> Log
       [] v = "k" -> Known(k)
       [] v = "f" -> [Vacant EXCEPT !.kind = "formal", !.inputs = <<<<"f", "o2">>>>]
       [] v = "b1" -> b1 [] v = "b2" -> b2 [] v = "o1" -> w[1] [] v = "o2" -> w[2] [] v = "out" -> e]

\* Writers that read one another, with a branch that reads one of them
LOCAL Circles ==
  {<<Op(Read("y"), <<<<"y", "o2">>, <<"y", "k">>>>, c, 1),
     Op(<<"if", Read("s"), <<"number", 1>>, Read("x")>>, <<<<"s", "s1">>, <<"x", "o1">>>>, <<>>, 2)>> :
       c \in {<<>>, <<"b1">>}}
  \cup {<<Op(<<"number", 0>>, <<>>, <<"b1">>, 1), Op(Read("x"), <<<<"x", "o1">>, <<"x", "o2">>>>, <<"b2">>, 2)>>}
LOCAL Loops ==
  {Test(Read("y"), <<<<"y", "o2">>>>), Test(<<"or", Read("s"), Read("y")>>, <<<<"s", "s1">>, <<"y", "o1">>>>)}

LOCAL Series(f, m) == [samples |-> f, method |-> m]
LOCAL On(T, ones) == [t \in T |-> IF t \in ones THEN 1 ELSE 0]
\* o1 needs o2 for nothing, as o3 is later, but asks it first.
LOCAL Detour ==
  [v \in {"s1", "s2", "b1", "b2", "o1", "o2", "o3", "o4", "out"} |->
     CASE v \in {"s1", "s2"} -> Log
       [] v = "b1" -> Test(Read("s"), <<<<"s", "s1">>>>)
       [] v = "b2" -> Test(<<"not", <<"not", Read("x")>>>>, <<<<"x", "o1">>>>)
       [] v = "o1" -> Op(Read("x"), <<<<"x", "o2">>, <<"x", "o3">>>>, <<>>, 3)
       [] v = "o2" -> Op(<<"plus", Read("y"), Read("s")>>, <<<<"y", "o1">>, <<"s", "s1">>>>, <<>>, 1)
       [] v = "o3" -> Op(<<"number", 2>>, <<>>, <<"b1">>, 2)
       [] v = "o4" -> Op(<<"number", 0>>, <<>>, <<>>, 0)
       [] v = "out" -> Op(Read("z"), <<<<"z", "o4">>, <<"z", "o2">>>>, <<"b2">>, 4)]

LOCAL Often == Series(On(1..3, {2, 3}), "hold")
LOCAL Once == Series(On({2}, {2}), "hold")
LOCAL FirstLogs ==
  {Series(On(1..3, {1, 3}), "hold"), Series(On({1, 3}, {1}), "slerp")}
LOCAL MoreLogs ==
  FirstLogs \cup {Series(On(1..3, {1, 2}), "hold"), Series(On({1, 3}, {}), "none"),
                  Series(On({2, 3}, {2, 3}), "hold")}

LOCAL All(vertices, outputs, first, second) ==
  [vertices |-> vertices, branches |-> <<"b1", "b2">>, outputs |-> outputs,
   log |-> [s \in {"s1", "s2"} |-> IF s = "s1" THEN first ELSE second]]

DagCases ==
  LET Conjunct == Test(<<"and", Read("s"), Read("u")>>, Both)
      Negated == Test(<<"not", Read("s")>>, Both)
      First == Op(Read("x"), <<<<"x", "o1">>, <<"x", "o2">>>>, <<>>, 3)
  IN  {All(Made(b, Negated, w, e, 1), {"o2", "out"}, f, Often) :
         b \in Firsts, w \in Writers, e \in Ends, f \in FirstLogs}
      \cup {All(Made(Conjunct, b, w, First, 1), {"o2", "out"}, f, g) :
              b \in Seconds, w \in Writers, f \in MoreLogs, g \in {Once, Series(On({}, {}), "hold")}}
      \cup {All(Made(b1, b2, w, First, k), {"o1", "o2", "out"}, f, Once) :
              b1 \in Loops, b2 \in Loops \cup {Negated}, w \in Circles, f \in FirstLogs, k \in 0..1}
      \cup {All(Detour, {"o1", "o2", "out"}, f, Once) : f \in MoreLogs}
=============================================================================
