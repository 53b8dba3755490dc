--------------------------- MODULE ExplainedEngine ---------------------------
(***************************************************************************)
(* DbspEngine and EvidenceWalk composed: summaries_from_pairs, where each  *)
(* pair is explained by a breadth-first walk that takes its own steps.     *)
(* DbspEngine has one step for a pair, whose evidence is any shortest      *)
(* chain of uses; here that chain is what the walk comes back with.        *)
(***************************************************************************)
EXTENDS DbspEngine

CONSTANTS
  NoSymbol,   \* a predecessor that was never recorded
  None,       \* the walk returned None
  NoPair      \* no pair is being explained

ASSUME WalkAssumption ==
  /\ NoPair \notin Symbol \X Effect
  /\ Pending # None
  /\ Pending \notin Seq(Symbol)
  /\ None \notin Seq(Symbol)

VARIABLES
  pair,       \* the pair of the current iteration
  start, targets, prev, seen, queue, node, todo, result

walk == <<start, targets, prev, seen, queue, node, todo, result>>

Walk == INSTANCE EvidenceWalk

-----------------------------------------------------------------------------
ExplainedInit == Init /\ Walk!Init /\ pair = NoPair

Compute ==
  /\ LoadInputs \/ Iterate \/ Return
  /\ UNCHANGED <<pair, walk>>

(* The next pair of the set, in its order, and the call of the walk.       *)
Explain ==
  /\ phase = "attach"
  /\ pair = NoPair
  /\ unattached # {}
  /\ UNCHANGED vars
  /\ pair' = CHOOSE p \in unattached : TRUE
  /\ Walk!Call(pair'[1], RootsOf(facts, pair'[2]))

WalkOn ==
  /\ pair # NoPair
  /\ UNCHANGED <<phase, edge_set, pairs, unattached, effects, evidence, pair>>
  /\ Walk!Next

(* The effect is recorded whether or not the walk has found a path.        *)
Record ==
  /\ pair # NoPair
  /\ result # Pending
  /\ unattached' = unattached \ {pair}
  /\ effects' = [effects EXCEPT ![pair[1]] = @ \cup {pair[2]}]
  /\ evidence' = IF result = None THEN evidence
                 ELSE [evidence EXCEPT ![pair[1]][pair[2]] = result]
  /\ pair' = NoPair
  /\ Walk!Forget
  /\ UNCHANGED <<facts, phase, edge_set, pairs>>

ExplainedNext == Compute \/ Explain \/ WalkOn \/ Record

(* A single-threaded function runs until it returns.                       *)
ExplainedSpec ==
  /\ ExplainedInit
  /\ [][ExplainedNext]_<<vars, pair, walk>>
  /\ WF_<<vars, pair, walk>>(ExplainedNext)

-----------------------------------------------------------------------------
(* The walks keep the promise the engine rests on: every step is one of    *)
(* DbspEngine or leaves its state alone.  So a pair is recorded with a     *)
(* chain of run-time uses down to a root of its effect, no shorter one     *)
(* exists ("so the path is the fewest hops", effects.rs), and it is        *)
(* recorded without evidence only when no root can be reached.             *)
WalksExplain == [][Next]_vars
=============================================================================
