-------------------------- MODULE MCLegacyPipeline --------------------------
(* Model-checking instance of the analysis pipelines.  A behaviour explores *)
(* one lane: the shell analyser's AnalysisPipeline, or one stage of the     *)
(* older mechanism pipeline, whose stages share no state.                   *)
EXTENDS MCAnalysisPipeline, MechanismDiscovery, JudgedDiscovery, MechanismCache, ReplayReport,
        CandidateVerification, GraphExecution, MCSourceCases, MCLogCases, MCHelperCases, MCSlicerCases, MCDagCases

CONSTANTS
  Off,                                       \* value of a lane that is not explored
  sA, sB, o1, o2,                            \* CandidateVerification
  a, b, x,                                   \* GraphExecution
  top, hdr, base, impl, other, cD, cB, e1, e2,  \* MechanismDiscovery
  kx, ky, kz,                                \* JudgedDiscovery
  w1, w2, b1, b2,                            \* ReplayReport
  m1, m2, f1, f2, y, z, member, Sink, Formal, Return,  \* MechanismDag
  r1, r2                                     \* MechanismCache

VARIABLES
  lane,
  program, walk, frontier, walked, helpers, bindings, emitted, missing, reached,
  body, sites, world, ran,
  flown, builder, overlays, plots, lost,
  helped, lowerStage, refs, rewritten, air, returned,
  traceable, sliceStage, cursor, table, sliced,
  wired, kept, noted, probed, recalled, replays

traced == <<program, walk, frontier, walked, helpers, bindings, emitted, missing, reached>>
extracted == <<body, sites, world, ran>>
plotted == <<flown, builder, overlays, plots, lost>>
lowered == <<helped, lowerStage, refs, rewritten, air, returned>>
sliceable == <<traceable, sliceStage, cursor, table, sliced>>
valued == <<wired, kept, noted, probed, recalled, replays>>

VerificationOff ==
  /\ subject = Off /\ step = Off /\ plans = <<>> /\ outcomes = Off
  /\ graphs = Off /\ flat = Off /\ evaluation = Off

ReconstructionOff ==
  /\ given = Off /\ slice = Off /\ executions = Off /\ phase = Off

DiscoveryOff ==
  /\ request = Off /\ expansion = Off /\ loaded = Off /\ pending = Off
  /\ visited = Off /\ terminal = Off

JudgementOff ==
  /\ override = Off /\ discoveryStage = Off /\ candidates = Off /\ attempts = Off
  /\ reseeded = Off /\ results = Off /\ slices = Off /\ annotated = Off
  /\ shown = Off /\ verdict = Off /\ bonus = Off /\ chosen = Off

ReplayOff ==
  /\ graph = Off /\ feasibilities = Off /\ replayed = Off /\ status = Off
  /\ judgement = Off /\ hypothesis = NoHypothesis

DataflowOff ==
  /\ program = Off /\ walk = Off /\ frontier = Off /\ walked = Off /\ helpers = Off
  /\ bindings = Off /\ emitted = Off /\ missing = Off /\ reached = Off

ReachabilityOff == body = Off /\ sites = Off /\ world = Off /\ ran = Off

ResolutionOff ==
  /\ question = Off /\ turn = Off /\ depth = Off /\ active = Off /\ asked = Off
  /\ offered = Off /\ selected = Off /\ profiled = Off /\ drafts = Off /\ built = Unknown

(***************************************************************************)
(* Candidates and logs: every timeline of one signal beside some of        *)
(* another, with gates that meet in every way; then checks of two roles    *)
(* and of a branch of its own.                                             *)
(***************************************************************************)
VerificationCases ==
  LET Unsure == [kind |-> "unresolved", of |-> "yes"]
      Opaque == [kind |-> "opaque", of |-> "yes"]
      Param(v) == [kind |-> "parameter", of |-> v]
      Sig(s) == [kind |-> "signal", of |-> s]
      Planned(n, r, e) == [name |-> n, role |-> r, executable |-> e]
      D1 == Planned("d1", "mechanism_defining", TRUE)
      D2 == Planned("d2", "mechanism_defining", TRUE)
      DX == Planned("dx", "mechanism_defining", FALSE)
      AP == Planned("ap", "branch_applicability", TRUE)
      Guarded(r, g, c) == [resolved |-> r, gates |-> g, checks |-> c]
      Line(first, second, third) ==
        [t \in {0, 2, 4} |-> IF t = 0 THEN first ELSE IF t = 2 THEN second ELSE third]
      Plots(d, r) == IF ~r THEN {} ELSE IF d = 0 THEN {<<1, 3>>} ELSE {<<0, 1>>, <<3, 9>>}
      OnOff == [s \in {sA, sB} |-> Line("yes", "no", "yes")]
  IN  {[timeline |-> [s \in {sA, sB} |-> IF s = sA THEN m ELSE n],
        duration |-> d, requested |-> Plots(d, r), branches |-> <<Guarded(TRUE, g, {})>>] :
         m \in [{0, 2, 4} -> {"none", "yes", "no"}],
         n \in {Line("none", "none", "none"), Line("yes", "no", "yes"),
                Line("no", "yes", "none")},
         d \in {0, 4}, r \in BOOLEAN,
         g \in {{}, {{Sig(sA)}}, {{Sig(sA), Sig(sB)}}, {{Sig(sA)}, {Param("no")}},
                {{Param("yes"), Sig(sB)}, {Unsure, Sig(sA)}}, {{Opaque}}, {{}}}}
      \cup {[timeline |-> OnOff, duration |-> 0, requested |-> {<<0, 1>>, <<1, 9>>},
             branches |-> <<Guarded(TRUE, {}, c), Guarded(r, h, e)>>] :
              h \in {{}, {{Param("no")}}, {{Unsure}}}, r \in BOOLEAN,
              c \in {{D1}, {D1, AP}}, e \in {{D2}, {D2, DX}, {AP}}}

\* Bindings of one output and two symbols, with controls of every kind, and logs
\* in which a symbol is absent, comes late, or changes.
GraphCases ==
  LET Up == [t \in {1, 2} |-> t - 1]
      Ctl(k, s) == [kind |-> k, series |-> s]
      Free == Ctl("none", NoSeries)
      On == Ctl("logged", [t \in {1} |-> 1])
      Down == Ctl("logged", [t \in {1, 2} |-> 2 - t])
      B(t, r, p, c) == [target |-> t, reads |-> r, publishes |-> p, control |-> c]
      Some == {B(x, {a}, TRUE, c) : c \in {Free, Ctl("unverifiable", NoSeries), On, Down}}
                \cup {B(x, {}, TRUE, Ctl("logged", Up)), B(x, {a, b}, TRUE, Free),
                      B(x, {a, b}, TRUE, On), B(b, {a}, FALSE, Free),
                      B(a, {b}, FALSE, Free)}
  IN  [bindings : {S \in SUBSET Some : Cardinality(S) <= 3},
       logged : {l \in [{a, b, x} -> {NoSeries, [t \in {2} |-> 1], Up}] : DOMAIN l[x] # {2}},
       actual : {NoSeries, [t \in {1} |-> 0], [t \in {1, 2} |-> 1], Up}]

\* A class and its base, declared in two headers; a file that uses them, one
\* that implements them and one that is not part of it.
BaseOf == [c \in {cD, cB} |-> IF c = cD THEN {cB} ELSE {}]
Expansions ==
  LET Ref(k, o, of, l, h) == [kind |-> k, owner |-> o, of |-> of, live |-> l, helper |-> h]
      Refs == {Ref("callable", cD, cD, TRUE, FALSE), Ref("callable", cD, cD, FALSE, TRUE),
               Ref("storage", cD, cD, TRUE, FALSE), Ref("storage", cD, cB, TRUE, FALSE)}
      Plain == [declares |-> {}, includes |-> {}, writes |-> Nothing, hit |-> FALSE,
                refers |-> {}, defines |-> {}, assigns |-> {}]
      Trees ==
        {[f \in {top, hdr, base, impl, other} |->
            CASE f = top -> [Plain EXCEPT !.writes = e1, !.hit = TRUE, !.refers = R,
                                          !.includes = ti]
              [] f = hdr -> [Plain EXCEPT !.declares = {cD}, !.defines = dh]
              [] f = base -> [Plain EXCEPT !.declares = {cB}]
              [] f = impl -> [Plain EXCEPT !.defines = di, !.assigns = ai, !.writes = wi,
                                           !.refers = Ri, !.includes = {top}]
              [] f = other -> [Plain EXCEPT !.assigns = {cB}, !.defines = do]] :
           ti \in {{}, {hdr}}, R \in {S \in SUBSET Refs : Cardinality(S) <= 2},
           dh \in {{}, {cD}}, di \in {{cB}, {cD}}, ai \in {{}, {cD}},
           wi \in {Nothing, e2}, Ri \in {{}, {Ref("storage", cB, cB, TRUE, FALSE)}},
           do \in {{}, {cD}}}
  IN  {[tree |-> t, file |-> q[1], storage |-> q[2], ranked |-> q[3]] :
         t \in Trees, q \in {<<Nothing, Nothing, {}>>, <<top, Nothing, {impl}>>,
                             <<top, e2, {}>>}}

\* Lists with blanks, repetitions and one terminal too many.
SomeProposals ==
  {<<>>, <<kx>>, <<kx, Blank, kx, ky>>, <<ky, kx, kz>>, <<Blank, kz>>}

\* Two writers; branches that constants decide, that freshness decides and that
\* three samples decide, or the two in which their signals were logged together.
ReplayGraphs ==
  LET Sampled(f) == [static |-> "fail", sampled |-> f, policies |-> TRUE, fresh |-> "none"]
      Constant(v) == [Sampled([p \in {} |-> "fail"]) EXCEPT !.static = v]
      Three(first, second, third) ==
        [p \in {0, 2, 4} |-> IF p = 0 THEN first ELSE IF p = 2 THEN second ELSE third]
      Firsts ==
        {Constant("yes"), Constant("fail"), [Constant("fail") EXCEPT !.fresh = "yes"],
         [Constant("fail") EXCEPT !.fresh = "no"]}
        \cup {Sampled(f) : f \in {Three("yes", "yes", "yes"), Three("yes", "no", "no"),
                Three("fail", "yes", "no"), Three("yes", "fail", "yes"),
                Three("no", "no", "no")}}
      Seconds ==
        {Constant("no"), Sampled([p \in {0, 2} |-> "yes"]),
         [Sampled(Three("yes", "no", "no")) EXCEPT !.policies = FALSE],
         Sampled(Three("no", "no", "yes"))}
      W(e, c, i) == [exact |-> e, controls |-> c, inputs |-> i, policies |-> TRUE]
      Make(f, s, v, u, c, g) ==
        [branches |-> [k \in {b1, b2} |-> IF k = b1 THEN f ELSE s],
         writers |-> [w \in {w1, w2} |-> IF w = w1 THEN v ELSE u],
         comparable |-> c, grounded |-> g]
  IN  {Make(f, s, W(TRUE, {b1}, 0..4), W(e, {b2}, 0..4), TRUE, TRUE) :
         f \in Firsts, s \in Seconds, e \in BOOLEAN}
      \cup {Make(f, s, W(TRUE, {b1, b2}, i), W(TRUE, {b2}, 0..4), TRUE, TRUE) :
         f \in Firsts, s \in Seconds, i \in {0..4, 0..2}}
      \cup {Make(Constant("yes"), Constant("yes"), W(TRUE, {b1}, 0..4),
                 W(TRUE, {b2}, 0..4), c, ~c) : c \in BOOLEAN}

\* A method m1 that computes the terminal in three statements, a method m2 beside
\* it, and two helpers of which f1 may call f2: flows through locals, arguments
\* and references in one family, with f2 loaded or to be fetched; through a member
\* in the other.
Dataflow == INSTANCE MechanismDag WITH
  Local <- {x, y}, Shared <- {member, a, b, z, Sink}, Input <- {a, b, z}, Terminal <- Sink,
  Program <-
    LET Case(t, r, g, f, p) ==
          [target |-> t, reads |-> r, guard |-> g, callee |-> f, actual |-> p]
        Set(t, r, g) == Case(t, r, g, Nothing, Nothing)
        Call(t, g, p) == Case(t, {}, g, f1, p)
        Then(t, g, p) == Case(t, {}, g, f2, p)
        Locals == {Set(x, {a}, {}), Set(x, {x, b}, {z}), Set(y, {x}, {}), Call(x, {}, y),
                   Call(x, {z}, a), Call(x, {}, x), Call(Nothing, {}, x), Call(Nothing, {z}, y)}
        LocalHelpers == {<<Set(Return, {Formal}, {a}), Set(Return, {b}, {})>>,
                         <<Set(Formal, {Formal, b}, {}), Set(Return, {z}, {})>>,
                         <<Set(Formal, {a}, {z})>>, <<Then(Return, {}, Formal)>>}
        Members == {Set(member, {a}, {}), Set(member, {b}, {z}), Set(member, {x}, {}),
                    Set(x, {member}, {}), Call(x, {}, a), Call(Nothing, {}, b)}
        MemberHelpers == {<<Set(member, {Formal}, {})>>, <<Set(Sink, {member}, {})>>,
                          <<Set(member, {a}, {}), Set(Return, {member}, {})>>,
                          <<Set(Return, {member}, {})>>, <<Set(Sink, {Formal}, {z})>>,
                          <<Then(Nothing, {}, Formal)>>}
        Sources(p, q, r, beside, helper, second) ==
          [k \in {m1, m2, f1, f2} |-> CASE k = m1 -> <<p, q, r>> [] k = m2 -> beside
                                        [] k = f1 -> helper [] k = f2 -> second]
        LocalCodes ==
          {Sources(p, q, r, <<>>, h, <<Set(Return, {Formal}, {})>>) :
             p \in Locals, q \in Locals, r \in {Set(Sink, {x}, {}), Call(Sink, {}, x)},
             h \in LocalHelpers}
        MemberCodes ==
          {Sources(p, q, r, o, h, h2) : p \in Members, q \in Members,
             r \in {Set(Sink, {member}, {}), Set(Sink, {x}, {})}, h \in MemberHelpers,
             o \in {<<>>, <<Set(member, {b}, {})>>, <<Call(x, {z}, b)>>},
             h2 \in {<<Set(Sink, {Formal}, {})>>, <<Set(member, {Formal}, {})>>}}
        Targets(f) == {f[i].target : i \in DOMAIN f}
        Calling(f) == {i \in DOMAIN f : f[i].callee # Nothing}
        \* What is assigned is returned; what is passed by reference is no input and is
        \* not assigned by the same statement.
        Legal(code) == \A k \in DOMAIN code : \A i \in Calling(code[k]) :
          LET written == Targets(code[code[k][i].callee])
          IN  /\ code[k][i].target # Nothing => Return \in written
              /\ code[k][i].actual \in {a, b, z, code[k][i].target} => Formal \notin written
        All(code) == [code |-> code, loaded |-> {f1, f2}, offered |-> {}]
        One(code) == [code |-> code, loaded |-> {f1}, offered |-> {f2}]
    IN  {All(d) : d \in {e \in LocalCodes \cup MemberCodes : Legal(e)}}
        \cup {One(d) : d \in {e \in LocalCodes : Legal(e)}}

\* Bodies of two or three statements: a condition, a loop or a preprocessor block
\* before another one, and switches whose three sections, in each order of their
\* labels, end, fall through or may do either.
Reachability == INSTANCE SourceReachability WITH
  Aimed <- "first", Waiting <- Nothing,
  World <- [tests : SUBSET {"c", "d"}, selects : {"A", "B", "neither"}],
  Callable <-
    LET P(t) == [type |-> t]
        Assign == P("write")
        Ret == P("return")
        Brk == P("break")
        Aim == [type |-> "aim", storage |-> "second"]
        Block(q) == [type |-> "compound", body |-> q]
        Empty == Block(<<>>)
        Test(c) == <<"test", c>>
        If(c, s, e) == [type |-> "if", test |-> Test(c), then |-> s, else |-> e]
        Switch(q) == [type |-> "switch", sections |-> q]
        Loop(k, t, s) == [type |-> "loop", kind |-> k, test |-> t, body |-> s]
        Case(l, q) == [label |-> l, body |-> q]
        Simple == {Empty, Assign, Ret, Block(<<Aim, Assign>>)}
        Loops == {Loop(k, t, s) : k \in {"while", "do"}, t \in {Test("d"), <<"true">>},
                    s \in {Assign, Aim, Ret, If("c", P("continue"), Empty), If("c", Ret, Assign)}}
        Small ==
          Simple \cup Loops \cup {Aim, Block(<<Assign, Ret>>)}
            \cup {[type |-> "preproc", guarded |-> Block(<<Assign, Aim>>)]}
            \cup {If(c, s, e) : c \in {"c", "d"}, s \in Simple, e \in Simple}
            \cup {If("d", Block(<<If("c", Ret, Empty), Assign>>), e) : e \in Simple}
        Inner == {Assign, Aim, Ret, If("c", Brk, Empty), If("c", Ret, Empty), If("c", Brk, Ret),
                  If("d", Block(<<Assign, Brk>>), Assign), Loop("while", Test("d"), Assign),
                  Switch(<<Case("A", <<Brk>>), Case("B", <<Assign>>)>>)}
        First == {<<>>} \cup {<<s>> : s \in Inner \cup {Brk}}
                   \cup {<<s, e>> : s \in Inner, e \in Inner \cup {Brk}}
        Second == {<<Assign, Brk>>, <<>>, <<If("d", Ret, Empty), Assign>>, <<Ret>>,
                   <<If("c", Ret, Brk)>>}
        Switches(l) == {Switch(<<Case(l[1], p), Case(l[2], q), Case(l[3], <<Assign>>)>>) :
                          p \in First, q \in Second}
        Order == <<"A", "B", "default">>
    IN  {<<s, e, Assign>> : s \in Small, e \in Small}
        \cup {<<s, Assign>> : s \in Switches(Order) \cup Switches(<<"A", "default", "B">>)
                                     \cup Switches(<<"default", "A", "B">>)}
        \cup {<<If("c", s, Empty), Ret>> : s \in Switches(Order)}

CacheOff ==
  /\ tree = Off /\ flight = Off /\ seeds = Off /\ runCandidates = Off /\ unwritten = Off
  /\ handle = Off /\ linked = Off /\ temp = Off /\ content = Off /\ runSnapshot = Off
  /\ runStage = [r \in FlightRun |-> "resolving"] /\ runReport = [r \in FlightRun |-> Unset]

\* Two runs at the commits of one log or of two, with a mechanism that cites two texts,
\* of which the second tree has changed more or less.
Flights ==
  LET Flown(c, f) == [commit |-> c, dag |-> f, refresh |-> f, relevant |-> {"wind"}]
  IN  {Flown("c1", FALSE), Flown("c1", TRUE), Flown("c2", FALSE)}
Histories ==
  LET Text(f, g, l, i, w) == [file |-> f, function |-> g, lines |-> l, inside |-> i, within |-> w]
      Old == Text("v1", "g1", "s1", {"s1"}, {"s1"})
      New == {Old, Unset, Text("v2", "g1", "s2", {"s1"}, {"s1"}), Text("v2", "g2", "s1", {}, {}),
              Text("v2", Unset, "s2", {}, {"s1"}), Text("v2", "g2", "s2", {}, {"s1"})}
      Cites(t, u) == [m \in {"wind"} |-> [n \in {1, 2} |-> IF n = 1 THEN t ELSE u]]
      Trees(t, u, d) == [c \in {"c1", "c2"} \cup d |->
                           IF c = "c1" THEN Cites(Old, Old) ELSE Cites(t, u)]
  IN  {Trees(t, u, {}) : t \in New, u \in {Old, Text("v3", "g3", "s3", {}, {})}}
      \cup {Trees(t, Old, {"dir"}) : t \in New}

SignatureOff == scored = Off /\ checked = <<>> /\ concluded = NoNumber

PlotsOff ==
  /\ flown = Off /\ builder = Off /\ overlays = Off /\ plots = Off /\ lost = Off

Plotting == INSTANCE PlotPayload WITH
  Recording <- Plotted, Unset <- NotLogged,
  log <- flown, stage <- builder, warnings <- lost

LoweringOff ==
  /\ helped = Off /\ lowerStage = Off /\ refs = Off /\ rewritten = Off /\ air = Off
  /\ returned = Off

Lowering == INSTANCE HelperLowering WITH
  Program <- Lowerable, Name <- LowerableNames, World <- LoweringWorlds, Parameter <- {"g"},
  MaxSize <- 60, MaxRounds <- 4, MaxPasses <- 4, Unset <- Nothing,
  program <- helped, stage <- lowerStage, written <- rewritten, world <- air

SlicingOff ==
  /\ traceable = Off /\ sliceStage = Off /\ cursor = Off /\ table = Off /\ sliced = Off

Slicing == INSTANCE SourceSlicer WITH
  Source <- SlicerSources, Symbol <- SlicerSymbols, Signal <- {"log"}, Parameter <- {"par"},
  Longer <- SlicerLonger, Reading <- SlicerReadings, Unset <- Nothing,
  source <- traceable, phase <- sliceStage

ValuesOff ==
  /\ wired = Off /\ kept = Off /\ noted = Off /\ probed = Off /\ recalled = Off
  /\ replays = Off

Values == INSTANCE DagValues WITH
  Dag <- DagCases, Time <- {1, 2, 3}, Window <- {{}, {<<2, 3>>}}, Unset <- NoText,
  dag <- wired, note <- noted, probe <- probed, memo <- recalled, series <- replays

\* The constants of these lanes are such as the theorems about them suppose.
ASSUME DiscoveryConstants == DiscoveryAssumption
ASSUME JudgeConstants == JudgeAssumption
ASSUME CacheConstants == CacheAssumption
ASSUME VerificationConstants == VerificationAssumption
ASSUME ResolverConstants == ResolverAssumption
ASSUME ReportConstants == ReportAssumption
ASSUME GraphConstants == GraphAssumption
ASSUME SignatureConstants == SignatureAssumption

LaneInit ==
  /\ Init
  /\ \/ lane = "shell" \/ lane = "verification" \/ lane = "reconstruction"
     \/ lane = "discovery" \/ lane = "judgement" \/ lane = "replay"
     \/ lane = "dataflow" \/ lane = "reachability" \/ lane = "resolution"
     \/ lane = "cache" \/ lane = "signature" \/ lane = "plots"
     \/ lane = "lowering" \/ lane = "slicing" \/ lane = "values"
  /\ IF lane = "verification" THEN VerificationInit ELSE VerificationOff
  /\ IF lane = "reconstruction" THEN GraphInit ELSE ReconstructionOff
  /\ IF lane = "discovery" THEN ExpansionInit ELSE DiscoveryOff
  /\ IF lane = "judgement" THEN JudgementInit ELSE JudgementOff
  /\ IF lane = "replay" THEN ReportInit ELSE ReplayOff
  /\ IF lane = "dataflow" THEN Dataflow!Init ELSE DataflowOff
  /\ IF lane = "reachability" THEN Reachability!Init ELSE ReachabilityOff
  /\ IF lane = "resolution" THEN ResolverInit ELSE ResolutionOff
  /\ IF lane = "cache" THEN CacheInit ELSE CacheOff
  /\ IF lane = "signature" THEN SignatureInit ELSE SignatureOff
  /\ IF lane = "plots" THEN Plotting!Init ELSE PlotsOff
  /\ IF lane = "lowering" THEN Lowering!Init ELSE LoweringOff
  /\ IF lane = "slicing" THEN Slicing!Init ELSE SlicingOff
  /\ IF lane = "values" THEN Values!Init ELSE ValuesOff

LaneNext ==
  /\ UNCHANGED lane
  /\ IF lane = "shell" THEN Next ELSE UNCHANGED vars
  /\ IF lane = "verification" THEN VerificationNext ELSE UNCHANGED verificationVars
  /\ IF lane = "reconstruction" THEN GraphNext ELSE UNCHANGED graphVars
  /\ IF lane = "discovery" THEN ExpansionNext ELSE UNCHANGED expansionVars
  /\ IF lane = "judgement" THEN JudgementNext ELSE UNCHANGED judgementVars
  /\ IF lane = "replay" THEN ReportNext ELSE UNCHANGED reportVars
  /\ IF lane = "dataflow" THEN Dataflow!Next ELSE UNCHANGED traced
  /\ IF lane = "reachability" THEN Reachability!Next ELSE UNCHANGED extracted
  /\ IF lane = "resolution" THEN ResolverNext ELSE UNCHANGED resolverVars
  /\ IF lane = "cache" THEN CacheNext ELSE UNCHANGED cacheVars
  /\ IF lane = "signature" THEN SignatureNext ELSE UNCHANGED signatureVars
  /\ IF lane = "plots" THEN Plotting!Next ELSE UNCHANGED plotted
  /\ IF lane = "lowering" THEN Lowering!LoweringNext ELSE UNCHANGED lowered
  /\ IF lane = "slicing" THEN Slicing!SlicingNext ELSE UNCHANGED sliceable
  /\ IF lane = "values" THEN Values!DagNext ELSE UNCHANGED valued

lanes == <<lane, vars, verificationVars, graphVars, expansionVars, judgementVars, reportVars,
           traced, extracted, resolverVars, cacheVars, signatureVars, plotted,
           lowered, sliceable, valued>>

LaneSpec == LaneInit /\ [][LaneNext]_lanes
ReplaySpec == lane = "replay" /\ LaneInit /\ [][LaneNext]_lanes
DataflowSpec == lane = "dataflow" /\ LaneInit /\ [][LaneNext]_lanes

\* MechanismDag: what reaches the terminal is evidence of its graph.
FlowIsCovered == lane = "dataflow" => Dataflow!FlowIsCovered

\* MechanismDag: the same, of programs without the patterns that lose a definition.
PlainFlowIsCovered == lane = "dataflow" => Dataflow!PlainFlowIsCovered

\* SourceReachability: the predicates recorded as exact are those of every run, of
\* bodies without the patterns that are recorded wrongly.
PlainReachIsExact == lane = "reachability" => Reachability!PlainReachIsExact

\* PlotPayload: a plot shows what was logged, over the mode and in the style of the time.
PlotsTellTheLog == lane = "plots" => Plotting!PlotsTellTheLog

\* HelperLowering, SourceSlicer and DagValues: a helper that was lowered, a check whose calls
\* were replaced and one whose symbols were traced to the log have the value of the source,
\* but for the bodies that lose it; and a vertex has the value of its graph, whichever was
\* asked before.
ExpressionsKeepTheirMeaning ==
  /\ lane = "lowering" => Lowering!LoweringIsExact
  /\ lane = "slicing" => Slicing!SlicesAreFaithful
  /\ lane = "values" => Values!ValuesAreSound
=============================================================================
