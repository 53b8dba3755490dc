---------------------------- MODULE EffectEngine ----------------------------
(***************************************************************************)
(* The EffectEngine trait (crates/hinzu-core/src/effects.rs): facts in,    *)
(* one summary per symbol out.  This is the promise both engines are held  *)
(* to: the effects are exactly those reachable through edges that carry    *)
(* effects, and every reported effect comes with a genuine evidence path.  *)
(* Which path is reported is left open.                                    *)
(***************************************************************************)
EXTENDS FactGraph

CONSTANTS FactSets,   \* the fact sets an engine may be asked about
          Pending     \* no report has been returned yet

VARIABLES facts, report

vars == <<facts, report>>

HonestEvidence(fs, rep) ==
  \A s \in Symbol, e \in Effect :
    IF e \in rep.effects[s]
    THEN IsEvidencePath(fs, s, e, rep.evidence[s][e])
    ELSE rep.evidence[s][e] = <<>>

Init ==
  /\ facts \in FactSets
  /\ report = Pending

(* fn propagate: facts in, a fixed point out.                              *)
propagate ==
  /\ report = Pending
  /\ report' \in EffectSummaries
  /\ report'.effects = CarriedEffects(facts)
  /\ HonestEvidence(facts, report')
  /\ UNCHANGED facts

Next == propagate

(* The answer comes: stated as an eventuality and not as WF of Next, which *)
(* constrains report' by a predicate and is not directly executable.       *)
Answers == <>(report # Pending)

Spec == Init /\ [][Next]_vars /\ Answers
=============================================================================
