----------------------------- MODULE MCLogCases -----------------------------
(* Logs for the checks of a signature and for the plots of the review page. *)
EXTENDS SignatureEvaluator

CONSTANTS
  Limit,         \* the one parameter of the log
  NotLogged      \* a time, a style or a value that the log does not have

LOCAL At(t, v) == [at |-> t, value |-> v]

(* What the signature evaluator may be given: logs of an actual value and a *)
(* setpoint, windows and one or two checks.  Samples are 1, 2 or 4 apart    *)
(* and their values are multiples of 4.                                     *)
LOCAL Line(first, second, third) == <<At(0, first), At(2, second), At(4, third)>>
LOCAL Between(first, second) == <<At(1, first), At(3, second)>>

LOCAL Both ==
  [act : {Line(0, 4, 8), Line(4, 4, 4), Line(8, NoNumber, 0), Between(4, 0)},
   set : {Line(0, 8, 8), Line(4, NoNumber, 4), Between(8, 4), Between(0, NoNumber),
          <<At(5, 8)>>}]
LOCAL Alone == [act : {Line(0, 4, 8), Line(4, 4, 4)}]

LOCAL Check(t, m, o, v, d) ==
  [type |-> t, signal |-> "act", other |-> "set", window |-> NoNumber, metric |-> m, op |-> o,
   value |-> v, upper |-> IF t = "threshold" THEN 4 ELSE NoNumber, mode |-> d,
   claims |-> {"supports"}]
LOCAL Plain(t, d) == Check(t, "", "", 4, d)

LOCAL Checks ==
  {Check("threshold", m, o, v, "any") : m \in {"min", "max", "start", "delta", "count"},
     o \in {">=", "==", "between"}, v \in {0, 4, NoNumber, Limit}}
  \cup {[Check("transition_occurs", "", "", v, "any") EXCEPT !.upper = u] :
          v \in {0, NoNumber}, u \in {4, NoNumber}}
  \cup {Plain("state_equals", d) : d \in {"any", "all"}}
  \cup {Plain("diverges_from_setpoint", d) : d \in {"above", "below", "absolute"}}
  \cup {Plain(t, "increase") :
          t \in {"no_transition", "tracks_setpoint", "monotonic_change", "same_direction_change",
                 "tracks_parameter_value", "topic_field_present", "unheard_of"}}
  \cup {Check("derived_expression", m, o, v, d) : m \in {"conditional", "difference"},
          o \in {">=", "=="}, v \in {0, 4}, d \in {"any", "all"}}
  \cup {[Check(t, "", o, v, "any") EXCEPT !.other = p, !.upper = 4] :
          t \in {"parameter_equals", "branch_parameter_satisfied"}, o \in {">=", "=="},
          v \in {0, 8, NoNumber}, p \in {Limit, "unlogged"}}

LOCAL Window(n, f, t) == [name |-> n, from |-> f, to |-> t]
LOCAL Logs(l, w, c, r) ==
  [log |-> l, parameters |-> [p \in {Limit} |-> 4], windows |-> w, checks |-> c, required |-> r]

\* Each check in each of three sets of windows; then two checks, of two windows, with
\* what the second one claims.
Signatures ==
  {Logs(l, w, <<c>>, {"act"}) : l \in Both \cup Alone, c \in Checks,
     w \in {<<Window("whole", 0, 4)>>, <<>>,
            <<Window("none", 2, 0), Window("part", 1, 3), Window("part", 2, 4)>>}}
  \cup {Logs(l, <<Window("whole", 0, 5), Window("first", 0, 1)>>,
             <<[c EXCEPT !.window = "first"], [d EXCEPT !.claims = e]>>, {"act", "set"}) :
          l \in Both \cup Alone, e \in {{}, {"supports"}, {"contradicts"}},
          c \in {Check("threshold", "max", ">=", 4, "any"), Plain("tracks_setpoint", "any")},
          d \in {Plain("state_equals", "any"),
                 Check("derived_expression", "difference", ">=", 0, "all")}}

(* What the plots are drawn from.  Times are multiples of 20, so that the  *)
(* margin of a twentieth is whole.                                          *)
LOCAL Every20(s) == [i \in DOMAIN s |-> At(20 * (i - 1), s[i])]
LOCAL Empty ==
  [limits |-> <<0, 100>>, limit |-> 4, values |-> [t \in {} |-> <<>>], mode |-> <<>>,
   dropouts |-> {}, vtol |-> <<>>, status |-> <<>>, types |-> {}, gps |-> <<>>,
   setpoints |-> <<>>, motors |-> TRUE, raises |-> {}]

\* Series of five or seven samples, with gaps, drawn with two to six points.
LOCAL Reduced ==
  {[Empty EXCEPT !.limits = r, !.limit = n,
                 !.values = [t \in {"x"} |-> Every20(SubSeq(s, 1, k))]] :
     r \in {NotLogged, <<0, 80>>}, n \in 2..6, k \in {5, 7},
     s \in {<<v, 0, w, w, u, 2, e>> : v \in 0..2, w \in 0..2, u \in 0..2, e \in 0..2} \cup
           {<<NotLogged, v, w, v, NotLogged, u, u>> : v \in 0..2, w \in 0..2, u \in 0..2}}

\* Modes and dropouts before, in and after the range.
LOCAL Backgrounds ==
  {[Empty EXCEPT !.mode = [i \in DOMAIN m |-> At(t[i], m[i])], !.dropouts = d,
                 !.limits = <<0, 40>>] :
     m \in [1..3 -> {"manual", "mission", "unknown"}],
     t \in {<<-20, 0, 20>>, <<0, 20, 20>>, <<20, 40, 60>>, <<-20, -10, 40>>},
     d \in {{}, {[at |-> -10, to |-> 5], [at |-> 35, to |-> 90], [at |-> 80, to |-> 90]}}}

\* Setpoints without a place, and without a height.
LOCAL Waypoints ==
  [i \in 1..7 |-> At(20 * i, [place |-> IF i = 3 THEN NotLogged ELSE i,
                             height |-> IF i = 5 THEN NotLogged ELSE i])]

\* Styles by the VTOL's status, by the vehicle's and by its type, while speed and
\* attitude are logged at times of their own.
LOCAL Flown ==
  {[Empty EXCEPT !.values = [k \in {"speed", "attitude", "x", "y", "thrust0", "control1"} \cup u |->
                               IF k \in {"speed", "x"} THEN Every20(<<1, 2, 3, 4, 5, 6>>)
                               ELSE <<At(30, 1), At(50, NotLogged), At(70, 2)>>],
                 !.vtol = [i \in DOMAIN v |-> At(40 * i - 20, v[i])],
                 !.status = [i \in DOMAIN w |-> At(40 * i - 40, w[i])],
                 !.types = p, !.raises = b, !.motors = u # {} \/ p # {},
                 !.setpoints = Waypoints,
                 !.gps = <<At(0, [fix |-> 2]), At(20, [fix |-> 3])>>] :
     v \in {<<>>, <<NotLogged, NotLogged>>} \cup
             {<<a, c, d>> : a \in {"multirotor", NotLogged}, c \in {"transition", "fixed_wing"},
                            d \in {"multirotor", "transition", NotLogged}},
     w \in {<<>>, <<"multirotor", "fixed_wing", "multirotor">>, <<NotLogged, "transition">>},
     p \in {{}, {"fixed_wing"}}, u \in {{}, {"thrust1"}},
     b \in {{}, {"timeseries", "family"}, {"velocity"}}}

Plotted == Reduced \cup Backgrounds \cup Flown
=============================================================================
