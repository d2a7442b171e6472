--------------------------- MODULE MCHelperCases ----------------------------
(* Helpers of the flight code: bodies of two statements and a return, in    *)
(* every way that a test, a loop or a switch can nest a return, an          *)
(* assignment or a jump, and helpers that call one another.                 *)
EXTENDS Integers, Sequences

LOCAL Lit(n) == <<"lit", n>>
LOCAL Var(n) == <<"name", n>>
LOCAL Plus(e, f) == <<"plus", e, f>>
LOCAL Less(e, f) == <<"less", e, f>>
LOCAL Call(h, s) == <<"call", h, s>>

LOCAL Assign(n, e) == [type |-> "assign", target |-> n, value |-> e]
LOCAL Declare(n, e) == [type |-> "declare", target |-> n, value |-> e]
LOCAL Give(e) == [type |-> "return", value |-> e]
LOCAL Jump(k) == [type |-> k]
LOCAL If(c, s, e) == [type |-> "if", test |-> c, then |-> s, else |-> e, braces |-> TRUE]
LOCAL Section(l, s) == [label |-> l, body |-> s]
LOCAL Choice(s) == [type |-> "switch", on |-> Var("q"), sections |-> s]
LOCAL Counted(n, e, s) == [type |-> "for", var |-> "i", from |-> Lit(0), to |-> e, steps |-> n, body |-> s]
LOCAL Loop(k, c, s) == [type |-> k, test |-> c, body |-> s]

LOCAL Raise == Assign("t", Plus(Var("t"), Lit(1)))
LOCAL Sum == Assign("t", Plus(Var("t"), Var("p")))
LOCAL Positive == Less(Lit(0), Var("p"))
LOCAL Enabled == Less(Lit(0), Var("g"))

\* What a branch or a loop may do.
LOCAL Inner ==
  {<<>>, <<Raise>>, <<Give(Var("p"))>>, <<Raise, Give(Var("t"))>>,
   <<If(Positive, <<Give(Lit(7))>>, <<>>)>>, <<If(Enabled, <<Give(Lit(5))>>, <<>>), Raise>>,
   <<If(Positive, <<Give(Lit(7))>>, <<Raise>>), Give(Lit(6))>>}

LOCAL Rounds(s) ==
  {Counted("i", Lit(2), s), Counted("t", Lit(2), s), Loop("while", Less(Var("t"), Lit(2)), s),
   Loop("do", Less(Var("t"), Lit(2)), s)}

LOCAL Choices ==
  {Choice(<<Section(0, s), Section(1, <<Give(Lit(1))>>), Section(-1, e)>>) :
     s \in {<<>>, <<Raise>>, <<Give(Lit(8))>>}, e \in {<<>>, <<Give(Lit(2))>>, <<Raise>>}}
  \cup {Choice(<<Section(0, s), Section(-1, e), Section(1, <<Give(Lit(1)), Jump("break")>>)>>) :
     s \in {<<>>, <<Give(Lit(8))>>}, e \in {<<>>, <<Give(Lit(2))>>}}
  \cup {Choice(<<Section(-1, <<Give(Lit(2))>>)>>), Choice(<<Section(0, <<Give(Lit(2))>>), Section(1, <<>>)>>)}

LOCAL Statements ==
  {Raise, Assign("p", Plus(Var("p"), Lit(1))), Assign("q", Var("t")), Assign("t", Var("p")),
   [type |-> "call", target |-> "t", value |-> Lit(9)],
   [type |-> "range", body |-> <<Raise>>],
   [If(Positive, <<Give(Lit(4))>>, <<>>) EXCEPT !.braces = FALSE]}
  \cup {If(c, s, e) : c \in {Positive, Enabled, Less(Var("t"), Lit(1))}, s \in Inner,
                      e \in {<<>>, <<Raise>>, <<Give(Var("q"))>>}}
  \cup UNION {Rounds(s) : s \in Inner \cup
                {<<If(Positive, <<Jump("break")>>, <<>>), Raise>>, <<Sum, Raise>>,
                 <<Raise, If(Positive, <<Jump("continue")>>, <<>>), Declare("u", Lit(1))>>,
                 <<Assign("t", Plus(Var("t"), Var("i"))), Assign("i", Plus(Var("i"), Lit(1)))>>}}
  \cup Choices

\* What comes early changes the formal, or returns.
LOCAL Early == {Assign("p", Lit(3)), If(Enabled, <<Give(Var("t"))>>, <<>>),
                If(Positive, <<Give(Var("t"))>>, <<>>)}
LOCAL Simple == Early \cup {Raise, If(Positive, <<Raise>>, <<Sum>>), Counted("i", Var("t"), <<Sum>>)}

LOCAL Alone(b, r) ==
  [helpers |-> [h \in {"h"} |-> [parameters |-> <<"p", "q">>, body |-> b]],
   expression |-> Plus(Call("h", <<Var("v"), Var("w")>>), Lit(1)), parser |-> r]

LOCAL Bodies ==
  {Alone(<<Declare("t", Lit(0)), f, s, Give(Var("t"))>>, r) :
     f \in Statements, s \in Simple, r \in {"scanner", "syntax"}}
  \cup {Alone(<<Declare("t", Var("p")), s, f, Give(Plus(Var("t"), Var("p")))>>, r) :
     f \in Statements, s \in Early, r \in {"scanner", "syntax"}}

LOCAL Deep == <<"times", Var("p"), Plus(Var("q"), Lit(2))>>

\* Two helpers, of which one calls the other or itself.
LOCAL Calling ==
  {[helpers |-> [h \in {"h", "k"} |->
       IF h = "k" THEN [parameters |-> <<"p", "q">>, body |-> b]
       ELSE [parameters |-> <<"p", "q">>, body |-> <<Declare("t", e), Give(Plus(Var("t"), Var("q")))>>]],
    expression |-> x, parser |-> r] :
     b \in {<<Give(Deep)>>, <<If(Positive, <<Give(Var("q"))>>, <<>>), Give(Deep)>>,
            <<If(Enabled, <<Give(Var("q"))>>, <<Give(Lit(3))>>)>>,
            <<If(Enabled, <<Give(Var("q"))>>, <<>>), Give(Lit(3))>>,
            <<If(Positive, <<Give(Call("k", <<Plus(Var("p"), Lit(-1)), Var("q")>>))>>, <<>>), Give(Var("q"))>>},
     e \in {Call("k", <<Var("p"), Lit(1)>>), Call("k", <<Var("q"), Var("p")>>),
            Call("k", <<Plus(Var("p"), Lit(1)), Var("q")>>), Call("k", <<Var("p")>>),
            Call("k", <<Call("k", <<Var("p"), Lit(1)>>), Lit(2)>>), Call("m", <<Var("p")>>)},
     x \in {Call("h", <<Var("v"), Var("w")>>), Call("h", <<Plus(Var("v"), Lit(1)), Lit(2)>>),
            Plus(Call("k", <<Var("w"), Var("v")>>), Lit(1)),
            Call("h", <<Call("k", <<Var("v"), Lit(1)>>), Lit(0)>>)},
     r \in {"scanner", "syntax"}}

Lowerable == Bodies \cup Calling
LowerableNames == <<"g", "i", "p", "q", "t", "u", "v", "w">>
LoweringWorlds ==
  {[n \in {"g", "p", "q", "v", "w"} |-> CASE n = "g" -> g [] n \in {"p", "w"} -> p
                                            [] OTHER -> (g + p) % 2] : g \in 0..1, p \in 0..2}
=============================================================================
