------------------------- MODULE SignatureEvaluator -------------------------
(* The checks of a log's signature (ulog/signature_evaluator.py,            *)
(* evaluate_log_signature): each check reads the samples of its signals in  *)
(* one window and passes, fails or stays unresolved; what it then claims    *)
(* counts for or against the mechanism.                                     *)
(*                                                                          *)
(* Values are numbers or NoNumber, which stands for what is no number, and  *)
(* multiples of the gaps between samples, so that what is interpolated is a *)
(* whole number.  Expressions are the difference of two signals, and a      *)
(* conditional one that reads the second where the first is positive.       *)
EXTENDS Integers, Sequences, FiniteSetsExt

CONSTANTS
  LogCase,       \* logs, with their parameters, windows, checks and what they require
  NoNumber

CheckFields ==
  {"type", "signal", "other", "window", "metric", "op", "value", "upper", "mode", "claims"}

\* A check, of a log with these parameters, that compares with an operator that its type
\* has.  An order is asked of numbers, of a name only if it is that of a parameter.
IsCheck(check, parameters) ==
  LET Operand == Int \cup {NoNumber}
  IN  /\ check = [f \in CheckFields |-> check[f]]
      /\ check.type = "threshold" =>
           /\ check.op \in {"==", "!=", ">=", "<", "between", "outside"}
           /\ {check.value, check.upper} \subseteq Operand \cup DOMAIN parameters
      /\ check.type \in {"parameter_equals", "branch_parameter_satisfied"} =>
           /\ check.op \in {"==", "!=", ">=", "<"}
           /\ check.op \in {">=", "<"} => {check.value, check.upper} \subseteq Operand
      /\ check.type = "derived_expression" =>
           /\ check.op \in {"==", "!=", ">=", "<"}
           /\ check.op \in {">=", "<"} => check.value \in Int

\* Logs are sequences of samples at whole times, and parameters are numbers.
SignatureAssumption ==
  /\ NoNumber \notin Int
  /\ \A c \in LogCase :
       /\ \A s \in DOMAIN c.log : c.log[s] \in Seq([at : Int, value : Int \cup {NoNumber}])
       /\ \A p \in DOMAIN c.parameters : c.parameters[p] \in Int
       /\ Len(c.checks) \in Nat
       /\ \A i \in 1..Len(c.checks) : IsCheck(c.checks[i], c.parameters)

VARIABLES
  scored,        \* the case
  checked,       \* the outcomes of the checks so far
  concluded      \* verdict and ceiling

signatureVars == <<scored, checked, concluded>>

Abs(v) == IF v < 0 THEN -v ELSE v

(***************************************************************************)
(* Windows and samples                                                     *)
(***************************************************************************)

\* _normalize_windows: those that do not end before they start, of which a later one
\* replaces an earlier one of its name, in its place.
NormalizedWindows(windows) == SelectSeq(windows, LAMBDA w : w.from <= w.to)

LastNamed(windows, name) ==
  windows[Max({i \in DOMAIN windows : windows[i].name = name})]

\* _window_for_check: by name, or the first.
WindowOf(check) ==
  LET windows == NormalizedWindows(scored.windows)
      name == IF check.window # NoNumber \/ windows = <<>> THEN check.window
                                                           ELSE windows[1].name
  IN  IF \E i \in DOMAIN windows : windows[i].name = name THEN LastNamed(windows, name)
      ELSE NoNumber

\* _check_samples and _window_samples, of the log the checks read: samples at their
\* places in the log.
WindowSamples(log, check, signal) ==
  LET window == WindowOf(check)
      inside == IF window = NoNumber \/ signal \notin DOMAIN log THEN {}
                ELSE {i \in DOMAIN log[signal] :
                        window.from <= log[signal][i].at /\ log[signal][i].at <= window.to}
  IN  [i \in inside |-> log[signal][i]]

NoSamples(samples) == DOMAIN samples = {}
Earliest(samples) == samples[Min(DOMAIN samples)]
Latest(samples) == samples[Max(DOMAIN samples)]

Numbers(samples) ==
  [i \in {j \in DOMAIN samples : samples[j].value # NoNumber} |-> samples[i]]

ValuesOf(samples) == {samples[i].value : i \in DOMAIN samples}

\* _numeric_delta
NumericDelta(samples) == Latest(Numbers(samples)).value - Earliest(Numbers(samples)).value

\* _sample_metrics
SampleMetrics(samples) ==
  LET s == Numbers(samples)
  IN  IF NoSamples(s) THEN [count |-> Cardinality(DOMAIN samples)]
      ELSE [count |-> Cardinality(DOMAIN s), min |-> Min(ValuesOf(s)), max |-> Max(ValuesOf(s)),
            start |-> Earliest(s).value, end |-> Latest(s).value, delta |-> NumericDelta(samples)]

\* _transitions: from each sample to the next one.
Transitions(samples) ==
  {c \in {<<samples[i].value, samples[Min({j \in DOMAIN samples : j > i})].value>> :
            i \in {k \in DOMAIN samples : \E j \in DOMAIN samples : j > k}} : c[1] # c[2]}

\* _interpolated_value: held before the first sample and after the last one.
Interpolated(samples, at) ==
  LET n == Min({i \in DOMAIN samples : samples[i].at >= at})
      after == samples[n]
      before == samples[Max({i \in DOMAIN samples : i < n})]
  IN  IF at <= Earliest(samples).at THEN Earliest(samples).value
      ELSE IF at >= Latest(samples).at THEN Latest(samples).value
      ELSE before.value
             + ((after.value - before.value) * (at - before.at)) \div (after.at - before.at)

\* The numbers of the signal, against the setpoint while it was logged.
ErrorsFrom(setpoint, actual) ==
  {actual[i].value - Interpolated(setpoint, actual[i].at) :
     i \in {j \in DOMAIN actual : /\ ~NoSamples(setpoint)
                                  /\ actual[j].at >= Earliest(setpoint).at
                                  /\ actual[j].at <= Latest(setpoint).at}}

BrokenErrors(log, check) ==
  ErrorsFrom(IF check.other \in DOMAIN log THEN Numbers(log[check.other]) ELSE <<>>,
             Numbers(WindowSamples(log, check, check.signal)))

\* _aligned_error: where the setpoint was logged before and after.
Errors(log, check) ==
  ErrorsFrom(Numbers(WindowSamples(log, check, check.other)),
             Numbers(WindowSamples(log, check, check.signal)))

(***************************************************************************)
(* Comparisons                                                             *)
(***************************************************************************)
\* _compare_literal; an order of what is no number is an error before it is asked.
CompareLiteral(actual, op, expected) ==
  CASE op = "==" -> actual = expected
    [] op = "!=" -> actual # expected
    [] op = ">=" -> actual >= expected
    [] op = "<" -> actual < expected

Decided(passed) == IF passed THEN "passed" ELSE "failed"

\* _resolve_numeric_value and _get_parameter: a literal, or a parameter of the log.
NumericValue(value) ==
  IF value \notin DOMAIN scored.parameters THEN value ELSE scored.parameters[value]

(***************************************************************************)
(* The checks                                                              *)
(***************************************************************************)
Threshold(log, check) ==
  LET metrics == SampleMetrics(WindowSamples(log, check, check.signal))
      expected == NumericValue(check.value)
      upper == NumericValue(check.upper)
      Between(v) == expected <= v /\ v <= upper
  IN  IF NoSamples(WindowSamples(log, check, check.signal))
           \/ check.metric \notin DOMAIN metrics
           \/ expected = NoNumber \/ (check.op \in {"between", "outside"} /\ upper = NoNumber)
      THEN "unresolved"
      ELSE CASE check.op = "between" -> Decided(Between(metrics[check.metric]))
             [] check.op = "outside" -> Decided(~Between(metrics[check.metric]))
             [] OTHER -> Decided(CompareLiteral(metrics[check.metric], check.op, expected))

TransitionOccurs(log, check) ==
  LET samples == WindowSamples(log, check, check.signal)
  IN  IF NoSamples(samples) THEN "unresolved"
      ELSE Decided(\E c \in Transitions(samples) :
                     /\ check.value = NoNumber \/ c[1] = check.value
                     /\ check.upper = NoNumber \/ c[2] = check.upper)

NoTransition(log, check) ==
  LET samples == WindowSamples(log, check, check.signal)
  IN  IF NoSamples(samples) THEN "unresolved" ELSE Decided(Transitions(samples) = {})

StateEquals(log, check) ==
  LET values == ValuesOf(WindowSamples(log, check, check.signal))
  IN  IF values = {} THEN "unresolved"
      ELSE Decided(IF check.mode = "all" THEN values = {check.value} ELSE check.value \in values)

StateNotEquals(log, check) ==
  LET values == ValuesOf(WindowSamples(log, check, check.signal))
  IN  IF values = {} THEN "unresolved" ELSE Decided(check.value \notin values)

TracksSetpoint(log, check) ==
  LET errors == Errors(log, check)
  IN  IF errors = {} \/ check.value = NoNumber THEN "unresolved"
      ELSE Decided(Max({Abs(e) : e \in errors}) <= check.value)

DivergesFromSetpoint(log, check) ==
  LET errors == Errors(log, check)
      relevant == CASE check.mode = "above" -> errors
                    [] check.mode = "below" -> {-e : e \in errors}
                    [] OTHER -> {Abs(e) : e \in errors}
  IN  IF errors = {} \/ check.value = NoNumber THEN "unresolved"
      ELSE Decided(Max(relevant) >= check.value)

\* What has no minimum has 0.
LeastDelta(check) == IF check.value = NoNumber THEN 0 ELSE check.value

\* A change is from one number to another one.
HasDelta(samples) == Cardinality(DOMAIN Numbers(samples)) >= 2

MonotonicChange(log, check) ==
  LET samples == WindowSamples(log, check, check.signal)
  IN  IF ~HasDelta(samples) THEN "unresolved"
      ELSE Decided(IF check.mode = "increase" THEN NumericDelta(samples) >= LeastDelta(check)
                                              ELSE NumericDelta(samples) <= -LeastDelta(check))

SameDirection(log, check) ==
  LET first == WindowSamples(log, check, check.signal)
      second == WindowSamples(log, check, check.other)
  IN  IF ~HasDelta(first) \/ ~HasDelta(second) THEN "unresolved"
      ELSE Decided(/\ Abs(NumericDelta(first)) >= LeastDelta(check)
                   /\ Abs(NumericDelta(second)) >= LeastDelta(check)
                   /\ NumericDelta(first) * NumericDelta(second) > 0)

\* Of the parameter named by the check, with the check's own expectation.
ParameterEquals(check) ==
  IF check.other \notin DOMAIN scored.parameters \/ check.value = NoNumber THEN "unresolved"
  ELSE Decided(CompareLiteral(scored.parameters[check.other], check.op, check.value))

\* ... or with the value of its source predicate, here in its upper bound: an operator
\* that the check has is kept beside it.
BranchSatisfied(check) ==
  ParameterEquals(IF check.value = NoNumber THEN [check EXCEPT !.value = check.upper] ELSE check)

TracksParameter(log, check) ==
  LET values == ValuesOf(Numbers(WindowSamples(log, check, check.signal)))
  IN  IF check.other \notin DOMAIN scored.parameters \/ values = {} THEN "unresolved"
      ELSE Decided(\A v \in values : Abs(v - scored.parameters[check.other]) <= LeastDelta(check))

TopicFieldPresent(log, check) == Decided(check.signal \in DOMAIN log)

\* _series_value_at: interpolated if all are numbers, else the first of that very time.
SeriesAt(samples, at) ==
  IF \A i \in DOMAIN samples : samples[i].value # NoNumber THEN Interpolated(samples, at)
  ELSE LET there == {i \in DOMAIN samples : samples[i].at = at}
       IN  IF there = {} THEN NoNumber ELSE samples[Min(there)].value

\* _expression_context: a signal without samples is an error, unless the expression is
\* conditional, when only reading it is one.
ContextFails(check, second) == NoSamples(second) /\ check.metric # "conditional"

\* _evaluate_expression_over_context: at the times of the first signal, of which every
\* one needs a value of each signal that has samples.
ValuesAt(samples, first) ==
  {SeriesAt(samples, first[i].at) : i \in DOMAIN first}

Evaluated(check, first, second) ==
  {LET v == first[i].value
       w == IF NoSamples(second) THEN NoNumber ELSE SeriesAt(second, first[i].at)
   IN  IF check.metric = "conditional" THEN (IF v > 0 THEN w ELSE 0)
       ELSE v - w : i \in DOMAIN first}

DerivedExpression(log, check) ==
  LET first == WindowSamples(log, check, check.signal)
      second == WindowSamples(log, check, check.other)
      Holds(v) == CompareLiteral(v, check.op, check.value)
  IN  IF \/ NoSamples(first)
         \/ ContextFails(check, second)
         \/ NoNumber \in ValuesOf(first)
         \/ ~NoSamples(second) /\ NoNumber \in ValuesAt(second, first)
         \/ NoNumber \in Evaluated(check, first, second)
      THEN "unresolved"
      ELSE Decided(IF check.mode = "all"
                   THEN \A v \in Evaluated(check, first, second) : Holds(v)
                   ELSE \E v \in Evaluated(check, first, second) : Holds(v))

\* _run_check
CheckOutcome(log, check) ==
  CASE check.type = "threshold" -> Threshold(log, check)
    [] check.type = "transition_occurs" -> TransitionOccurs(log, check)
    [] check.type = "no_transition" -> NoTransition(log, check)
    [] check.type = "state_equals" -> StateEquals(log, check)
    [] check.type = "state_not_equals" -> StateNotEquals(log, check)
    [] check.type = "tracks_setpoint" -> TracksSetpoint(log, check)
    [] check.type = "diverges_from_setpoint" -> DivergesFromSetpoint(log, check)
    [] check.type = "monotonic_change" -> MonotonicChange(log, check)
    [] check.type = "same_direction_change" -> SameDirection(log, check)
    [] check.type = "parameter_equals" -> ParameterEquals(check)
    [] check.type = "branch_parameter_satisfied" -> BranchSatisfied(check)
    [] check.type = "tracks_parameter_value" -> TracksParameter(log, check)
    [] check.type = "topic_field_present" -> TopicFieldPresent(log, check)
    [] check.type = "derived_expression" -> DerivedExpression(log, check)
    [] OTHER -> "unresolved"

\* _claim_effect: what a check says when it passes is for the mechanism unless it is
\* only given a text that contradicts; what fails is against it.
ClaimEffect(check, outcome) ==
  CASE outcome = "unresolved" -> "none"
    [] outcome = "failed" -> "contradicts"
    [] OTHER -> IF check.claims = {"contradicts"} THEN "contradicts" ELSE "supports"

(***************************************************************************)
(* evaluate_log_signature                                                  *)
(***************************************************************************)
SignatureInit ==
  /\ scored \in LogCase
  /\ checked = <<>>
  /\ concluded = NoNumber

RunCheck ==
  /\ concluded = NoNumber
  /\ Len(checked) < Len(scored.checks)
  /\ LET check == scored.checks[Len(checked) + 1]
     IN  checked' = Append(checked, CheckOutcome(scored.log, check))
  /\ UNCHANGED <<scored, concluded>>

MissingSignals == {s \in scored.required : s \notin DOMAIN scored.log}

ClaimEffects == {ClaimEffect(scored.checks[i], checked[i]) : i \in DOMAIN checked}

\* _confidence: the share that passed, for whichever side, less three tenths if a signal is
\* missing and a tenth for each check that was not resolved, up to a half.
SignatureConfidence ==
  LET Count(status) == Cardinality({i \in DOMAIN checked : checked[i] = status})
      resolved == Count("passed") + Count("failed")
      kept == (IF MissingSignals # {} THEN 7 ELSE 10) *
                (IF Count("unresolved") < 5 THEN 10 - Count("unresolved") ELSE 5)
      AtLeast(tenths) == 10 * Count("passed") * kept >= tenths * 100 * resolved
  IN  CASE resolved = 0 -> "low"
        [] resolved > 0 /\ AtLeast(8) /\ MissingSignals = {} -> "high"
        [] resolved > 0 /\ ~(AtLeast(8) /\ MissingSignals = {}) ->
             IF AtLeast(6) THEN "medium" ELSE "low"

\* _verdict, with verdict_from_counts and ceiling_for.
SignatureVerdict ==
  LET verdict == IF {"supports", "contradicts"} \subseteq ClaimEffects THEN "mixed"
                 ELSE IF "supports" \in ClaimEffects THEN "supported"
                 ELSE IF "contradicts" \in ClaimEffects THEN "contradicted"
                 ELSE "unresolved"
      open == MissingSignals # {} \/ \E i \in DOMAIN checked : checked[i] = "unresolved"
  IN  [verdict |-> verdict, confidence |-> SignatureConfidence,
       ceiling |-> IF MissingSignals # {} THEN "low"
                   ELSE CASE verdict = "supported" -> IF open THEN "medium" ELSE "high"
                          [] verdict = "mixed" -> "medium"
                          [] verdict = "contradicted" -> "low"
                          [] verdict = "unresolved" -> "unresolved"]

ConcludeSignature ==
  /\ concluded = NoNumber
  /\ Len(checked) = Len(scored.checks)
  /\ concluded' = SignatureVerdict
  /\ UNCHANGED <<scored, checked>>

\* The log cannot be parsed: every signal that is required is missing.
ParseFails ==
  /\ concluded = NoNumber
  /\ checked = <<>>
  /\ concluded' = [verdict |-> "unresolved", confidence |-> "low",
                    ceiling |-> IF scored.required # {} THEN "low" ELSE "unresolved"]
  /\ UNCHANGED <<scored, checked>>

SignatureNext == RunCheck \/ ConcludeSignature \/ ParseFails

SignatureSpec == SignatureInit /\ [][SignatureNext]_signatureVars

(***************************************************************************)
(* Properties                                                              *)
(***************************************************************************)

\* The log without what was logged outside the window of a check.
Windowed(check) ==
  [s \in DOMAIN scored.log |-> WindowSamples(scored.log, check, s)]

\* Nothing that was logged outside its window decides a check, through interpolation,
\* alignment or a metric.
WindowDecides ==
  \A i \in DOMAIN checked : checked[i] = CheckOutcome(Windowed(scored.checks[i]), scored.checks[i])

Flipped(op) ==
  CASE op = "==" -> "!=" [] op = "!=" -> "==" [] op = ">=" -> "<" [] op = "<" -> ">="
    [] op = "between" -> "outside" [] OTHER -> "between"

\* A check that states the opposite of another one, by its own code.
Opposite(check) ==
  CASE check.type \in {"threshold", "parameter_equals", "branch_parameter_satisfied"} ->
         [check EXCEPT !.op = Flipped(@)]
    [] check.type = "transition_occurs" /\ check.value = NoNumber /\ check.upper = NoNumber ->
         [check EXCEPT !.type = "no_transition"]
    [] check.type = "state_equals" /\ check.mode = "any" ->
         [check EXCEPT !.type = "state_not_equals"]
    [] check.type = "derived_expression" ->
         [check EXCEPT !.op = Flipped(@), !.mode = IF @ = "all" THEN "any" ELSE "all"]
    [] OTHER -> NoNumber

\* Of two checks that state opposites one passes and the other fails, or neither is
\* resolved: no log supports both and none contradicts both.
OppositesDisagree ==
  \A i \in DOMAIN checked :
    LET opposite == Opposite(scored.checks[i])
    IN  opposite # NoNumber =>
          <<checked[i], CheckOutcome(scored.log, opposite)>> \in
            {<<"passed", "failed">>, <<"failed", "passed">>, <<"unresolved", "unresolved">>}

\* A check that passed, and does not speak against the mechanism when it does.
InFavour(i) == checked[i] = "passed" /\ scored.checks[i].claims # {"contradicts"}

\* A verdict is what the checks claim, and its ceiling is high only if all of them were
\* resolved in its favour.
VerdictHasEvidence ==
  concluded # NoNumber =>
    /\ concluded.verdict \in {"supported", "mixed"} =>
         \E i \in DOMAIN checked : InFavour(i)
    /\ concluded.ceiling = "high" =>
         \A i \in DOMAIN checked : InFavour(i)

\* All three.
ChecksAreConsistent == WindowDecides /\ OppositesDisagree /\ VerdictHasEvidence
=============================================================================
