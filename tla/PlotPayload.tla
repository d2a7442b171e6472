---------------------------- MODULE PlotPayload ----------------------------
(* The plots that the review page asks for (ulog/interactive_plots.py,      *)
(* build_interactive_plot_payload, with interactive_plot_data.py): builders *)
(* run one after the other over one log, and each series is reduced to      *)
(* about as many points as the page can draw.                               *)
(*                                                                          *)
(* A sample is [at, value]; a value is a number, a state or Unset, what is  *)
(* no number.  The points of a series are the set of the samples drawn.     *)
EXTENDS Integers, Sequences, FiniteSets
LOCAL INSTANCE SequencesExt

CONSTANTS
  Recording,     \* what the topics of the log hold
  Unset

VARIABLES
  log,
  stage,         \* the builder that is next, "sent", or "failed"
  overlays,      \* the background of every plot: [from, to, value]
  plots,         \* the series: [plot, key, points]
  warnings

payload == <<log, stage, overlays, plots, warnings>>

Least(S) == CHOOSE v \in S : \A w \in S : v <= w
Greatest(S) == CHOOSE v \in S : \A w \in S : v >= w
Points(s) == {s[i] : i \in DOMAIN s}

(***************************************************************************)
(* Choosing the points                                                     *)
(***************************************************************************)

\* np.linspace(first, last, n, dtype=int), 0 <= i < n
Space(first, last, n, i) ==
  IF n = 1 THEN first ELSE first + (i * (last - first)) \div (n - 1)

\* _bounded_indices, of indices that start at 1: spread over those preferred, or filled
\* up with indices of the whole series.
Bounded(preferred, count, limit) ==
  LET Nth(k) == CHOOSE i \in preferred : Cardinality({j \in preferred : j < i}) = k
      Filled(k) == preferred \cup {Space(1, count, limit, i) : i \in 0..(k - 1)}
      enough == {k \in 1..limit : Cardinality(Filled(k)) >= limit} \cup {limit}
  IN  IF Cardinality(preferred) > limit
      THEN {Nth(Space(0, Cardinality(preferred) - 1, limit, i)) : i \in 0..(limit - 1)}
      ELSE IF Cardinality(preferred) < limit THEN Filled(Least(enough))
      ELSE preferred

\* _step_preserving_indices: both sides of every change.
StepPreserving(s, limit) ==
  Bounded({1, Len(s)} \cup UNION {{i - 1, i} : i \in {j \in 2..Len(s) :
                                                       s[j].value # s[j - 1].value}},
          Len(s), limit)

\* _extrema_preserving_indices: the first least and the first greatest value of each
\* bucket.
ExtremaPreserving(s, limit) ==
  LET count == Len(s)
      buckets == IF (limit - 2) \div 2 > 1 THEN (limit - 2) \div 2 ELSE 1
      Bucket(b) == Space(2, count, buckets + 1, b)..(Space(2, count, buckets + 1, b + 1) - 1)
      First(S, v) == Least({i \in S : s[i].value = v})
      Both(S) == LET v == {s[i].value : i \in S} IN {First(S, Least(v)), First(S, Greatest(v))}
  IN  IF limit <= 2 THEN {1, count}
      ELSE Bounded({1, count} \cup UNION {Both(Bucket(b)) : b \in {c \in 0..(buckets - 1) :
                                                                     Bucket(c) # {}}},
                   count, limit)

\* downsample_pair
Diagnostic(s, limit, steps) ==
  LET most == IF limit > 2 THEN limit ELSE 2
  IN  IF Len(s) <= most THEN Points(s)
      ELSE {s[i] : i \in IF steps THEN StepPreserving(s, most) ELSE ExtremaPreserving(s, most)}

\* _downsample_pair, _downsample_multi and _downsample_xy: every so many samples, and the
\* last one.
Strided(s, limit) ==
  LET stride == (Len(s) + limit - 1) \div limit
  IN  IF Len(s) <= limit THEN Points(s)
      ELSE {s[i] : i \in {j \in DOMAIN s : (j - 1) % stride = 0} \cup {Len(s)}}

(***************************************************************************)
(* What the log holds                                                      *)
(***************************************************************************)

\* _log_time_range: a twentieth more at each end; without the log's own times, from the
\* first sample of a topic to the last one.
TimeRange(l) ==
  LET topics == {l.values[k] : k \in DOMAIN l.values} \ {<<>>}
      first == IF l.limits = Unset THEN Least({t[1].at : t \in topics}) ELSE l.limits[1]
      last == IF l.limits = Unset THEN Greatest({t[Len(t)].at : t \in topics}) ELSE l.limits[2]
      more == (last - first) \div 20
  IN  IF l.limits = Unset /\ topics = {} THEN <<0, 0>> ELSE <<first - more, last + more>>

InRange(l, at) == TimeRange(l)[1] <= at /\ at <= TimeRange(l)[2]

\* resolve_signal, and the loop of series_from_field and of _raw_field_series
Numbers(l, topic) ==
  IF topic \notin DOMAIN l.values THEN <<>>
  ELSE SelectSeq(l.values[topic], LAMBDA s : InRange(l, s.at) /\ s.value # Unset)

\* _interpolated_value, as the sample before and the one after: held at both ends.
Around(s, at) ==
  LET n == Least({i \in DOMAIN s : s[i].at >= at})
  IN  IF \A i \in DOMAIN s : s[i].at < at THEN <<s[Len(s)], s[Len(s)]>>
      ELSE IF n = 1 THEN <<s[1], s[1]>>
      ELSE <<s[n - 1], s[n]>>

\* _state_intervals
Intervals(l, s) ==
  LET from == TimeRange(l)[1]
      to == TimeRange(l)[2]
      Step(acc, e) ==
        IF e.at < from THEN [acc EXCEPT !.current = e.value]
        ELSE IF e.at > to THEN acc
        ELSE IF acc.current = Unset
             THEN [acc EXCEPT !.current = e.value, !.since = e.at]
        ELSE IF e.value = acc.current THEN acc
        ELSE [current |-> e.value, since |-> e.at,
              intervals |-> acc.intervals \cup
                (IF e.at > acc.since
                 THEN {[from |-> acc.since, to |-> e.at, value |-> acc.current]} ELSE {})]
      end == FoldLeft(Step, [current |-> Unset, since |-> from, intervals |-> {}], s)
  IN  end.intervals \cup
        (IF end.current # Unset /\ to > end.since
         THEN {[from |-> end.since, to |-> to, value |-> end.current]} ELSE {})

\* _dropout_overlays
Dropouts(l) ==
  {[from |-> IF d.at > TimeRange(l)[1] THEN d.at ELSE TimeRange(l)[1],
    to |-> IF d.to < TimeRange(l)[2] THEN d.to ELSE TimeRange(l)[2], value |-> "dropout"] :
     d \in {e \in l.dropouts : e.to >= TimeRange(l)[1] /\ e.at <= TimeRange(l)[2]}}

\* _states_from_field, and _flight_style_states of one topic: what is no style is skipped
\* and what repeats is not kept.
Styles(s) ==
  FoldLeft(LAMBDA states, e :
             IF e.value = Unset \/ (states # <<>> /\ states[Len(states)].value = e.value)
             THEN states ELSE Append(states, e),
           <<>>, s)

\* _flight_style_states: those of the VTOL, if it has any.
StyleStates(l) ==
  IF Styles(l.vtol) # <<>> THEN Styles(l.vtol) ELSE Styles(l.status)

\* _flight_styles_present and _flight_style_profile
StylesPresent(l) ==
  LET seen == {e.value : e \in Points(l.vtol) \cup Points(l.status)} \ {Unset}
  IN  l.types \cup (seen \ {"transition"})
        \cup (IF "transition" \in seen THEN {"fixed_wing", "multirotor"} ELSE {})

BrokenStateAt(states, at) ==
  LET begun == {i \in DOMAIN states : states[i].at < at}
  IN  IF begun = {} THEN states[1].value ELSE states[Greatest(begun)].value

\* _state_at_time: the first state also before it began.
StateAt(states, at) ==
  LET begun == {i \in DOMAIN states : states[i].at <= at}
  IN  IF begun = {} THEN states[1].value ELSE states[Greatest(begun)].value

\* _style_valid_at_time
ValidAt(l, style, at) ==
  IF StyleStates(l) = <<>> THEN style \in StylesPresent(l)
  ELSE StateAt(StyleStates(l), at) \in {style, "transition"}

\* _align_xy_with_time: at the times of x, where y was logged before and after.
Aligned(xs, ys) ==
  LET within == SelectSeq(xs, LAMBDA s : ys # <<>> /\ s.at >= ys[1].at /\ s.at <= ys[Len(ys)].at)
  IN  [i \in DOMAIN within |-> [at |-> within[i].at,
                                value |-> <<within[i], Around(ys, within[i].at)>>]]

(***************************************************************************)
(* The builders                                                            *)
(***************************************************************************)
Series(plot, key, points) ==
  IF points = {} THEN {} ELSE {[plot |-> plot, key |-> key, points |-> points]}

\* A builder that raises loses its own plots, or all of them.
Guarded == {"timeseries", "family"}

Order == <<"overlays", "local", "velocity", "timeseries", "actuators", "family", "sent">>

Follow(new) ==
  LET next == Order[(CHOOSE i \in DOMAIN Order : Order[i] = stage) + 1]
  IN  /\ UNCHANGED log
      /\ IF stage \notin log.raises
         THEN stage' = next /\ plots' = plots \cup new /\ UNCHANGED warnings
         ELSE IF stage \in Guarded
         THEN stage' = next /\ warnings' = warnings \cup {stage} /\ UNCHANGED plots
         ELSE stage' = "failed" /\ plots' = {} /\ UNCHANGED warnings

Init ==
  /\ log \in Recording
  /\ stage = "overlays"
  /\ overlays = {} /\ plots = {} /\ warnings = {}

\* _build_overlays: the intervals of modes that have a style, then the dropouts.
BuildOverlays ==
  /\ stage = "overlays"
  /\ overlays' = {i \in Intervals(log, log.mode) : i.value # "unknown"} \cup Dropouts(log)
  /\ Follow({})

\* _build_position_setpoints_trace: those of the whole log that have a place, if there was
\* a GPS; a height that is missing is drawn as it is.
SetpointTrace ==
  LET placed == SelectSeq(log.setpoints, LAMBDA s : s.value.place # Unset)
      heights == [i \in DOMAIN placed |-> [at |-> placed[i].at, value |-> placed[i].value.height]]
  IN  IF log.gps = <<>> THEN {}
      ELSE Series("local", "setpoints", Strided(placed, log.limit))
             \cup Series("local", "heights", Strided(heights, log.limit))

\* _build_local_position_plot, with the GPS trace: its fixes, of the whole log.
BuildLocal ==
  /\ stage = "local"
  /\ UNCHANGED overlays
  /\ LET fixes == SelectSeq(log.gps, LAMBDA s : s.value.fix > 2)
     IN  Follow(Series("local", "position",
                       Strided(Aligned(Numbers(log, "x"), Numbers(log, "y")), log.limit))
                \cup Series("local", "gps", Strided(fixes, log.limit))
                \cup SetpointTrace)

\* _build_fixed_wing_velocity_angle_plot and _build_multirotor_heading_velocity_plot: zero
\* where the other style flies.
VelocityAt(style, s) ==
  [at |-> s.at, value |-> IF ValidAt(log, style, s.at)
                          THEN <<s, Around(Numbers(log, "attitude"), s.at)>> ELSE <<>>]

VelocityOf(style) ==
  LET speed == Numbers(log, "speed")
  IN  IF speed = <<>> \/ Numbers(log, "attitude") = <<>> THEN {}
      ELSE Strided([i \in DOMAIN speed |-> VelocityAt(style, speed[i])], log.limit)

\* _build_velocity_frame_plots
BuildVelocity ==
  /\ stage = "velocity"
  /\ UNCHANGED overlays
  /\ Follow(UNION {Series("velocity", style, VelocityOf(style)) :
                     style \in {"fixed_wing", "multirotor"} \cap StylesPresent(log)})

\* _build_timeseries_plot: the first signal that has numbers, left out if all are zero.
BuildTimeseries ==
  /\ stage = "timeseries"
  /\ UNCHANGED overlays
  /\ LET named == SelectSeq(<<"x", "y">>, LAMBDA t : Numbers(log, t) # <<>>)
         first == Numbers(log, named[1])
         zero == \A i \in DOMAIN first : first[i].value = 0
     IN  Follow(IF named = <<>> \/ zero THEN {}
                ELSE Series("timeseries", "linear", Strided(first, log.limit))
                       \cup Series("timeseries", "steps", Diagnostic(first, log.limit, TRUE)))

\* _dataset_field_series
FieldSeries(topic) == Strided(Numbers(log, topic), log.limit)

\* _build_dynamic_actuator_control_plot: the second plot has the thrust of the first one if
\* it has none of its own.
DynamicActuators ==
  Series("actuators", "thrust0", FieldSeries("thrust0"))
    \cup Series("actuators1", "thrust1",
                FieldSeries(IF "thrust1" \in DOMAIN log.values THEN "thrust1" ELSE "thrust0"))

\* _build_actuator_control_plot_from_dataset, for _build_legacy_actuator_control_plot
LegacyActuators ==
  Series("actuators", "control0", FieldSeries("control0"))
    \cup Series("actuators1", "control1", FieldSeries("control1"))

\* _build_actuator_control_plots
BuildActuators ==
  /\ stage = "actuators"
  /\ UNCHANGED overlays
  /\ Follow(IF log.motors THEN DynamicActuators ELSE LegacyActuators)

\* The builders of interactive_plot_families.py, by series_from_field.
BuildFamily ==
  /\ stage = "family"
  /\ UNCHANGED overlays
  /\ Follow(Series("family", "linear", Diagnostic(Numbers(log, "x"), log.limit, FALSE))
            \cup Series("family", "steps", Diagnostic(Numbers(log, "x"), log.limit, TRUE)))

Next ==
  \/ BuildOverlays \/ BuildLocal \/ BuildVelocity
  \/ BuildTimeseries \/ BuildActuators \/ BuildFamily

PayloadSpec == Init /\ [][Next]_payload

(***************************************************************************)
(* Properties                                                              *)
(***************************************************************************)
Drawn(plot, key) == {s \in plots : s.plot = plot /\ s.key = key}
FirstAt(points) == Least({p.at : p \in points})
LastAt(points) == Greatest({p.at : p \in points})

\* Reducing a series keeps its ends; one of a family also its least and greatest values,
\* and a staircase that has room for its changes is the logged one at every time.
ReducedIsFaithful ==
  \A s \in plots :
    LET logged == Numbers(log, "x")
        Stair(p, at) == (CHOOSE e \in p : e.at = Greatest({f.at : f \in {g \in p : g.at <= at}})).value
        changes == {i \in 2..Len(logged) : logged[i].value # logged[i - 1].value}
        Values(p) == {e.value : e \in p}
    IN  /\ Cardinality(s.points) <= (IF log.limit > 2 THEN log.limit ELSE 2)
             + (IF s.plot = "family" THEN 0 ELSE 1)
        /\ s.plot = "family" =>
             /\ s.points \subseteq Points(logged)
             /\ FirstAt(s.points) = logged[1].at /\ LastAt(s.points) = logged[Len(logged)].at
        /\ s.plot = "family" /\ s.key = "linear" /\ log.limit >= 4 =>
             {Least(Values(Points(logged))), Greatest(Values(Points(logged)))} \subseteq Values(s.points)
        /\ s.key = "steps" /\ s.plot = "family" /\ 2 * Cardinality(changes) + 2 <= log.limit =>
             \A i \in DOMAIN logged : Stair(s.points, logged[i].at) = logged[i].value

\* The background at any time in the range is that of the mode last logged, and no time has
\* two modes.
BackgroundIsTheMode ==
  \A at \in TimeRange(log)[1]..(TimeRange(log)[2] - 1) :
    LET modes == {o \in overlays : o.from <= at /\ at < o.to /\ o.value # "dropout"}
        begun == {i \in DOMAIN log.mode : log.mode[i].at <= at}
    IN  stage # "overlays" =>
          {o.value : o \in modes} =
            IF begun = {} \/ log.mode[Greatest(begun)].value = "unknown" THEN {}
            ELSE {log.mode[Greatest(begun)].value}

\* Only in a transition do both plots of the velocity show one, and each only while its
\* style is the one last logged.
VelocityIsOfItsStyle ==
  \A s \in plots : \A p \in s.points :
    LET states == IF \E i \in DOMAIN log.vtol : log.vtol[i].value # Unset THEN log.vtol ELSE log.status
        known == {i \in DOMAIN states : states[i].value # Unset}
        begun == {i \in known : states[i].at <= p.at}
        flown == states[IF begun = {} THEN Least(known) ELSE Greatest(begun)].value
    IN  s.plot = "velocity" /\ known # {} =>
          (p.value # <<>> <=> flown \in {s.key, "transition"})

\* What is drawn at one place is of one time: the heights of the setpoints are those of the
\* places drawn, and both plots of the velocity have the same times.
TracesAgree ==
  LET Times(plot, key) == UNION {{e.at : e \in s.points} : s \in Drawn(plot, key)}
      styles == {s.key : s \in {t \in plots : t.plot = "velocity"}}
  IN  /\ Times("local", "setpoints") = Times("local", "heights")
      /\ \A one, two \in styles : Times("velocity", one) = Times("velocity", two)

\* All four.
PlotsTellTheLog ==
  ReducedIsFaithful /\ BackgroundIsTheMode /\ VelocityIsOfItsStyle /\ TracesAgree
=============================================================================
