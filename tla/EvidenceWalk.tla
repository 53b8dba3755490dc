---------------------------- MODULE EvidenceWalk ----------------------------
(***************************************************************************)
(* shortest_path_to_roots and reconstruct_path of                          *)
(* crates/hinzu-core/src/effects.rs: the breadth-first walk that explains  *)
(* an effect, used by the DBSP engine and by the component rule.           *)
(*                                                                         *)
(* One action per pop of the queue and one per callee of the popped        *)
(* symbol, because the inner loop returns as soon as it meets a target.    *)
(* The callees are visited in the order the edges were reported: any.      *)
(***************************************************************************)
EXTENDS FactGraph, FiniteSets

CONSTANTS NoSymbol,   \* a predecessor that was never recorded
          Pending,    \* the walk has not returned
          None        \* the walk returned None

VARIABLES
  facts,     \* the graph, behind `forward`
  start,     \* the argument of that name, NoSymbol between two walks
  targets,   \* the argument `roots`
  prev,      \* predecessor of each symbol reached
  seen, queue,
  node,      \* the symbol being expanded
  todo,      \* its callees the inner loop has not looked at
  result

vars == <<facts, start, targets, prev, seen, queue, node, todo, result>>

(* No walk is running.                                                     *)
Init ==
  /\ start = NoSymbol
  /\ targets = {}
  /\ prev = [s \in Symbol |-> NoSymbol]
  /\ seen = {}
  /\ queue = <<>>
  /\ node = NoSymbol
  /\ todo = {}
  /\ result = Pending

(* The call: a start that is a root itself is answered at once.            *)
Call(symbol, roots) ==
  /\ start' = symbol
  /\ targets' = roots
  /\ prev' = [s \in Symbol |-> NoSymbol]
  /\ seen' = {symbol}
  /\ queue' = <<symbol>>
  /\ node' = symbol
  /\ todo' = {}
  /\ result' = IF symbol \in roots THEN <<symbol>> ELSE Pending

(* The locals of the walk are gone when it has returned.                   *)
Forget ==
  /\ start' = NoSymbol
  /\ targets' = {}
  /\ prev' = [s \in Symbol |-> NoSymbol]
  /\ seen' = {}
  /\ queue' = <<>>
  /\ node' = NoSymbol
  /\ todo' = {}
  /\ result' = Pending

(* reconstruct_path: follow the predecessors from `end` to `start`, then   *)
(* reverse.                                                                *)
reconstruct_path(pre, end) ==
  LET back[n \in Nat] == IF n = 0 THEN end ELSE pre[back[n - 1]]
      hops == CHOOSE n \in 0 .. Cardinality(Symbol) :
                /\ back[n] = start
                /\ \A m \in 0 .. n - 1 : back[m] # start
  IN  [i \in 1 .. hops + 1 |-> back[hops + 1 - i]]

PopFront ==
  /\ result = Pending
  /\ todo = {}
  /\ queue # <<>>
  /\ node' = Head(queue)
  /\ queue' = Tail(queue)
  /\ todo' = uses_of(facts, node')
  /\ UNCHANGED <<facts, start, targets, prev, seen, result>>

(* A callee that was seen before is skipped.                               *)
SkipCallee(callee) ==
  /\ result = Pending
  /\ callee \in todo \cap seen
  /\ todo' = todo \ {callee}
  /\ UNCHANGED <<facts, start, targets, prev, seen, queue, node, result>>

(* Mutant: a new callee is recorded but its own callees are never visited. *)
ReachCallee_NotQueued(callee) ==
  /\ result = Pending
  /\ callee \in todo \ seen
  /\ todo' = todo \ {callee}
  /\ seen' = seen \cup {callee}
  /\ prev' = [prev EXCEPT ![callee] = node]
  /\ result' = IF callee \in targets THEN reconstruct_path(prev', callee) ELSE result
  /\ UNCHANGED <<facts, start, targets, queue, node>>

(* A new callee is recorded; a target ends the walk, another is queued.    *)
ReachCallee(callee) ==
  /\ result = Pending
  /\ callee \in todo \ seen
  /\ todo' = todo \ {callee}
  /\ seen' = seen \cup {callee}
  /\ prev' = [prev EXCEPT ![callee] = node]
  /\ IF callee \in targets
     THEN /\ result' = reconstruct_path(prev', callee)
          /\ UNCHANGED queue
     ELSE /\ queue' = Append(queue, callee)
          /\ UNCHANGED result
  /\ UNCHANGED <<facts, start, targets, node>>

GiveUp ==
  /\ result = Pending
  /\ todo = {}
  /\ queue = <<>>
  /\ result' = None
  /\ UNCHANGED <<facts, start, targets, prev, seen, queue, node, todo>>

Next ==
  \/ PopFront
  \/ \E callee \in todo : SkipCallee(callee) \/ ReachCallee(callee)
  \/ GiveUp

=============================================================================
