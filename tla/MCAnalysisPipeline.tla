------------------------- MODULE MCAnalysisPipeline -------------------------
(* Model-checking instance of AnalysisPipeline: every report of at most two *)
(* of the hypotheses below, under one title or two.  Titles are alike, so   *)
(* that the first hypothesis may have the first of them.                    *)
EXTENDS AnalysisPipeline

CONSTANTS t1, t2

\* Confidence, what is lacking and the plot: grounded, with a plot that exists
\* and one that does not; each ground lacking where it matters and where not.
Drafts ==
  {<<"high", {}, "produced">>, <<"high", {}, "missing">>,
   <<"high", {"source_refs"}, "none">>,
   <<"medium", {"numeric_checks", "required_signals"}, "none">>,
   <<"medium", {"signature"}, "none">>,
   <<"low", {"source_refs"}, "none">>, <<"unresolved", {"signature"}, "none">>}

Hypotheses ==
  {[title |-> t, confidence |-> d[1], lacks |-> d[2], plot |-> d[3],
    noted |-> FALSE] : t \in Title, d \in Drafts}

SomeAnswers ==
  [hypotheses : {hypotheses \in UNION {[1..n -> Hypotheses] : n \in 0..2} :
                   hypotheses # <<>> => hypotheses[1].title = t1},
   confirmed : SUBSET Title, unconfirmed : {{}}, commit : {"none", "claimed"}]
===========================================================================
