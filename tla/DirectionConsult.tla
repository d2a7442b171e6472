-------------------------- MODULE DirectionConsult --------------------------
(***************************************************************************)
(* The advisory tool of voluntary mode (_consult,                          *)
(* analysis/jev_consult.py).  The agent describes candidate checks and     *)
(* asks a remote decision model which of them to take next; the answer is  *)
(* advice, or a fallback that leaves the choice to the agent.  Calls of    *)
(* one turn overlap at their only await, the request, and share a budget   *)
(* of requests and the audit log.                                          *)
(*                                                                         *)
(* Definitions named Broken... are faulty variants of the definition they  *)
(* precede; the checks substitute them to see a property fail.             *)
(***************************************************************************)
EXTENDS Naturals, FiniteSets, Sequences

CONSTANTS
  Consultant,   \* invocations of the tool
  Option,       \* candidate ids
  MaxConsults,  \* max_consults
  Luna          \* deferred_to_luna

VARIABLES
  keyed,     \* an API key is configured
  reserved,  \* calls_made["n"]
  step,      \* control point of each invocation
  options,   \* option_ids of each invocation
  sent,      \* the invocations whose request was sent
  answers,   \* the recommendation each invocation returned, with its reason
  audited    \* the records of the audit log: [by, action]

consultVars == <<keyed, reserved, step, options, sent, answers, audited>>

Reason == {"arguments", "no key", "budget", "request", "unparseable",
           "selection", "probabilities", "ambiguous", "advice"}
NoAnswer == [action |-> Luna, reason |-> "none"]

ASSUME ConsultAssumption ==
  /\ MaxConsults \in Nat
  /\ Luna \notin Option

ConsultInit ==
  /\ keyed \in BOOLEAN
  /\ reserved = 0
  /\ step = [c \in Consultant |-> "idle"]
  /\ options = [c \in Consultant |-> {}]
  /\ sent = {}
  /\ answers = [c \in Consultant |-> NoAnswer]
  /\ audited = <<>>

\* Audit and return: the advice, or a fallback with its reason.
Reply(c, action, reason) ==
  /\ audited' = Append(audited, [by |-> c, action |-> action])
  /\ answers' = [answers EXCEPT ![c] = [action |-> action, reason |-> reason]]
  /\ step' = [step EXCEPT ![c] = "answered"]

Fallback(c, reason) == Reply(c, Luna, reason)

(***************************************************************************)
(* Up to the request                                                       *)
(***************************************************************************)

\* Not an object, no candidates, or ids that are missing or not unique.
RefuseArguments(c) ==
  /\ step[c] = "idle"
  /\ Fallback(c, "arguments")
  /\ UNCHANGED <<keyed, reserved, options, sent>>

\* An id that is a list or an object: set() raises TypeError.
UnhashableId(c) ==
  /\ step[c] = "idle"
  /\ step' = [step EXCEPT ![c] = "raised"]
  /\ UNCHANGED <<keyed, reserved, options, sent, answers, audited>>

WithoutKey(c, ids) ==
  /\ step[c] = "idle"
  /\ ~keyed
  /\ options' = [options EXCEPT ![c] = ids]
  /\ Fallback(c, "no key")
  /\ UNCHANGED <<keyed, reserved, sent>>

BudgetExhausted(c, ids) ==
  /\ step[c] = "idle"
  /\ keyed
  /\ reserved >= MaxConsults
  /\ options' = [options EXCEPT ![c] = ids]
  /\ Fallback(c, "budget")
  /\ UNCHANGED <<keyed, reserved, sent>>

BrokenSendRequest(c, ids) ==
  /\ step[c] = "idle"
  /\ keyed
  /\ reserved < MaxConsults
  /\ options' = [options EXCEPT ![c] = ids]
  /\ reserved' = Cardinality({d \in sent : step[d] # "asking"})
  /\ sent' = sent \cup {c}
  /\ step' = [step EXCEPT ![c] = "asking"]
  /\ UNCHANGED <<keyed, answers, audited>>

\* "Reserve before any awaited I/O": the budget is spent, then the request is
\* awaited.
SendRequest(c, ids) ==
  /\ step[c] = "idle"
  /\ keyed
  /\ reserved < MaxConsults
  /\ options' = [options EXCEPT ![c] = ids]
  /\ reserved' = reserved + 1
  /\ sent' = sent \cup {c}
  /\ step' = [step EXCEPT ![c] = "asking"]
  /\ UNCHANGED <<keyed, answers, audited>>

(***************************************************************************)
(* After the request                                                       *)
(***************************************************************************)
kept == <<keyed, reserved, options, sent>>

\* The request raised or was not answered with 200; or the body is no JSON,
\* has no answer, or has one that is no object.
RequestFails(c) ==
  /\ step[c] = "asking"
  /\ \E reason \in {"request", "unparseable"} : Fallback(c, reason)
  /\ UNCHANGED kept

\* The body is JSON but no object, or its answers are not: TypeError.
ConsultRaises(c) ==
  /\ step[c] = "asking"
  /\ step' = [step EXCEPT ![c] = "raised"]
  /\ UNCHANGED <<kept, answers, audited>>

\* The choice is none of the options, or a probability is no number.
AnswerUnusable(c) ==
  /\ step[c] = "asking"
  /\ \E reason \in {"selection", "probabilities"} : Fallback(c, reason)
  /\ UNCHANGED kept

\* A valid choice is advice when the ranked probabilities have a clear first -
\* whichever option that is -, and otherwise ambiguous.
AnswerUsable(c, choice) ==
  /\ step[c] = "asking"
  /\ choice \in options[c]
  /\ Reply(c, choice, "advice") \/ Fallback(c, "ambiguous")
  /\ UNCHANGED kept

ConsultStep(c) ==
  \/ RefuseArguments(c) \/ UnhashableId(c)
  \/ \E ids \in (SUBSET Option) \ {{}} :
       WithoutKey(c, ids) \/ BudgetExhausted(c, ids) \/ SendRequest(c, ids)
  \/ RequestFails(c) \/ ConsultRaises(c) \/ AnswerUnusable(c)
  \/ \E choice \in options[c] : AnswerUsable(c, choice)

ConsultNext == \E c \in Consultant : ConsultStep(c)

ConsultSpec == ConsultInit /\ [][ConsultNext]_consultVars

(***************************************************************************)
(* Properties                                                              *)
(***************************************************************************)

\* "separately-accounted Decisions budget per run": however calls overlap and
\* fail, every request that is sent costs one consult and nothing else does,
\* so the tool refuses for lack of budget only when it is really spent; and
\* the audit log tells of each answered call exactly once, and what it was
\* told, never the answer of another call.
ConsultsAreAccounted ==
  /\ Cardinality(sent) <= MaxConsults
  /\ \A c \in Consultant :
       /\ answers[c].reason = "budget" => Cardinality(sent) = MaxConsults
       /\ answers[c].reason = "advice" => c \in sent
       /\ {i \in DOMAIN audited : audited[i].by = c} # {} <=> step[c] = "answered"
       /\ \A i, j \in DOMAIN audited :
            audited[i].by = c => /\ audited[i].action = answers[c].action
                                 /\ audited[j].by = c => i = j
=============================================================================
