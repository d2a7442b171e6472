--------------------------- MODULE MCSlicerCases ----------------------------
(* Assignments to three members, one a part of another, in either order:    *)
(* plain, guarded, doubled, calling and reading one another in circles.     *)
EXTENDS Integers, Sequences

LOCAL Var(s) == <<"name", s>>
LOCAL Write(s, e, g) == [target |-> s, value |-> e, guards |-> g]
LOCAL Holds(s) == <<"test", Var(s)>>
LOCAL Fails(s) == <<"not", Var(s)>>

LOCAL Values(s, others) ==
  {Var("log"), <<"plus", Var("log"), Var("par")>>, <<"plus", Var(s), Var("log")>>,
   <<"call", Var("log")>>} \cup {Var(o) : o \in others}

LOCAL Single(s, e) == {<<Write(s, e, <<>>)>>, <<Write(s, e, <<Holds("par")>>)>>}
LOCAL Double(s, e) ==
  {<<Write(s, e, <<Holds("par")>>), Write(s, Var("log"), <<Fails("par")>>)>>,
   <<Write(s, e, <<Holds("par")>>), Write(s, Var("par"), <<Holds("log"), Fails("par")>>)>>,
   <<Write(s, e, <<Holds("par")>>), Write(s, Var("log"), <<>>)>>,
   <<Write(s, Var("log"), <<Holds("par")>>), Write(s, e, <<Holds("par")>>)>>}

LOCAL Of(s, others) == {<<>>} \cup UNION {Single(s, e) \cup Double(s, e) : e \in Values(s, others)}
LOCAL Few(s, values) == {<<>>} \cup UNION {Single(s, e) : e \in values} \cup Double(s, Var("log"))

LOCAL Bindings ==
  {<<>>, <<[logged |-> "log", source |-> "own", target |-> "sub"]>>,
   <<[logged |-> "lost", source |-> "mem", target |-> "mem"]>>}

SlicerSymbols == {"log", "par", "mem", "sub", "own"}
SlicerLonger == [s \in SlicerSymbols |-> IF s = "mem" THEN {"sub"} ELSE {}]
SlicerReadings == [SlicerSymbols -> 0..1]

LOCAL Traced(w, b, e) == [assignments |-> w, bindings |-> b, expression |-> e]

SlicerSources ==
  UNION {{Traced(m \o s \o o, <<>>, <<"plus", Var("mem"), Var("own")>>),
          Traced(o \o s \o m, <<>>, <<"plus", Var("sub"), Var("mem")>>)} :
            m \in Of("mem", {"sub", "own"}), s \in Few("sub", {<<"call", Var("log")>>, Var("mem"), Var("own")}),
            o \in Few("own", {Var("mem")})}
  \cup {Traced(m, b, e) : m \in Of("mem", {"sub"}), b \in Bindings, e \in {Var("mem"), <<"call", Var("sub")>>}}
=============================================================================
