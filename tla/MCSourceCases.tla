---------------------------- MODULE MCSourceCases ----------------------------
(* What the source and the log may hold when the source resolver searches:  *)
(* two files that a first query hits and a third that one of them mentions. *)
EXTENDS SourceResolver

ReadSignals == {"out", "raw"}
SearchExpansions == {{}, {"limit"}}
SourceFiles == {"top", "hdr", "impl"}
Queries == {"wind", "limit", "gust"}
Parameter == "formal"

LOCAL Nil == [f \in SourceFiles |-> {}]
LOCAL Tests(n, r, v, c) == [name |-> n, role |-> r, compared |-> v, cited |-> c]
LOCAL Selects(v) == Tests("P", "branch_selector", v, TRUE)

LOCAL Empty ==
  [parameters |-> [n \in {"P", "Q"} |-> IF n = "P" THEN "1" ELSE Unknown],
   hits |-> [q \in Queries |-> CASE q = "wind" -> {"top", "hdr"} [] q = "limit" -> {"impl"}
                                 [] OTHER -> {}],
   mentions |-> [Nil EXCEPT !["top"] = {"limit"}],
   predicates |-> Nil, assignments |-> Nil, calls |-> Nil, seeds |-> {"wind"},
   agent |-> TRUE, proposals |-> {}]

LOCAL Draft(n, p, c, g, h) ==
  [names |-> n, predicates |-> p, checks |-> c, groups |-> g, chain |-> h,
   outputs |-> {"out", "raw"}]
LOCAL Group(n, p, c) == [names |-> n, predicates |-> p, checks |-> c]
LOCAL Check(p, c) == [parameter |-> p, cited |-> c]
LOCAL In(f, g) == [file |-> f, function |-> g]

\* A draft of two branches, one that cites less than it names, and one that names none.
LOCAL Branches ==
  Draft({"P", "Q"}, {}, {Check("P", TRUE), Check("Q", FALSE)},
        {Group({}, {Tests("P", "branch_selector", "0", TRUE)}, {}),
         Group({"Q"}, {}, {Check("P", TRUE)})}, {In("top", "run")})
LOCAL Uncited ==
  Draft({"Q"}, {Tests("P", "branch_selector", "0", FALSE)}, {}, {Group({"P"}, {}, {})},
        {In("top", "filter")})
LOCAL Direct ==
  Draft({}, {Tests("P", "branch_selector", "0", TRUE), Tests("Q", "branch_selector", "1", TRUE)},
        {}, {Group({"Q"}, {}, {})}, {In("impl", "run")})

\* Predicates of two files that the log contradicts, satisfies or cannot decide.
LOCAL Gated ==
  {[Empty EXCEPT !.predicates = [Nil EXCEPT !["top"] = t, !["impl"] = i], !.agent = g,
                 !.proposals = {{}, {Branches}, {Uncited, Direct}}] :
     t \in {{}, {Selects("0")}, {Selects("1"), Tests("Q", "threshold", Unknown, TRUE)}},
     i \in {{}, {Selects("0")}}, g \in BOOLEAN}

LOCAL Moves(f, t, g) == [from |-> f, to |-> t, function |-> g]

\* Assignments that reach the output through a local, a call or not at all.
LOCAL Flowing ==
  {[Empty EXCEPT !.proposals = {{Branches}, {Uncited}, {Direct}},
                 !.assignments = [Nil EXCEPT !["top"] = t, !["impl"] = i],
                 !.calls = [Nil EXCEPT !["hdr"] = c]] :
     t \in {{Moves("raw", "local", "run")}, {Moves("raw", Parameter, "filter")},
            {Moves("local", "out", "run"), Moves("raw", Parameter, "filter")}},
     i \in {{Moves("local", "out", "run")}, {Moves(Parameter, "out", "filter")},
            {Moves("raw", "out", "run")}},
     c \in {{}, {[callee |-> "filter", argument |-> "local"]},
            {[callee |-> "filter", argument |-> "out"]}}}

Questions == Gated \cup Flowing
=============================================================================
