----------------------------- MODULE UnionFind -----------------------------
(***************************************************************************)
(* The disjoint-set forest of similarity/mod.rs (UnionFind) while analyze  *)
(* feeds it the pairs over the threshold, one loop iteration of find at a  *)
(* time: find halves the path it climbs, union hangs the smaller of two    *)
(* trees under the root of the larger.                                     *)
(***************************************************************************)
EXTENDS Integers, Sequences

VARIABLES parent,   \* member -> the member above it, itself at a root
          size,     \* member -> how many members its tree had as a root
          links,    \* the pairs still to be united, in order
          at,       \* where the running find stands
          root      \* what the first find of this union returned, or NoRoot

forest_vars == <<parent, size, links, at, root>>

NoRoot == 0

(* The find a union of the next pair starts with. *)
StartOf(pairs) == IF pairs = <<>> THEN NoRoot ELSE Head(pairs)[1]

(* UnionFind::new, and the first union about to start. *)
Begin(n, pairs) ==
  /\ parent' = [m \in 1 .. n |-> m]
  /\ size' = [m \in 1 .. n |-> 1]
  /\ links' = pairs
  /\ at' = StartOf(pairs)
  /\ root' = NoRoot

(* One turn of the loop of find: the member is lifted to its grandparent,  *)
(* and the climb goes on from there.                                       *)
Halve ==
  /\ links # <<>>
  /\ parent[at] # at
  /\ parent' = [parent EXCEPT ![at] = parent[parent[at]]]
  /\ at' = parent[parent[at]]
  /\ UNCHANGED <<size, links, root>>

(* The first find returns and the second starts. *)
FirstFound ==
  /\ links # <<>>
  /\ parent[at] = at
  /\ root = NoRoot
  /\ root' = at
  /\ at' = Head(links)[2]
  /\ UNCHANGED <<parent, size, links>>

(* A union that forgets to count the members it adds. *)
Unite_NoCount ==
  /\ links # <<>>
  /\ parent[at] = at
  /\ root # NoRoot
  /\ parent' = IF root = at THEN parent
               ELSE IF size[root] >= size[at] THEN [parent EXCEPT ![at] = root]
               ELSE [parent EXCEPT ![root] = at]
  /\ UNCHANGED size
  /\ links' = Tail(links)
  /\ at' = StartOf(Tail(links))
  /\ root' = NoRoot

(* The second find returns: nothing to do for one tree, else the smaller   *)
(* root is put under the larger, which counts the members of both.         *)
Unite ==
  LET ra == root
      rb == at
      big == IF size[ra] >= size[rb] THEN ra ELSE rb
      small == IF size[ra] >= size[rb] THEN rb ELSE ra
  IN  /\ links # <<>>
      /\ parent[at] = at
      /\ root # NoRoot
      /\ IF ra = rb
         THEN UNCHANGED <<parent, size>>
         ELSE /\ parent' = [parent EXCEPT ![small] = big]
              /\ size' = [size EXCEPT ![big] = @ + size[small]]
      /\ links' = Tail(links)
      /\ at' = StartOf(Tail(links))
      /\ root' = NoRoot

ForestStep == Halve \/ FirstFound \/ Unite

-----------------------------------------------------------------------------
Pairs(n) == {p \in (1 .. n) \X (1 .. n) : p[1] < p[2]}

ForestInit ==
  /\ parent = <<>> /\ size = <<>> /\ links = <<>>
  /\ at = NoRoot /\ root = NoRoot

ForestNext ==
  \/ \E n \in Nat : \E pairs \in Seq(Pairs(n)) : Begin(n, pairs)
  \/ ForestStep

ForestSpec == ForestInit /\ [][ForestNext]_forest_vars

(* The trees are forests over n members, and a running find stands on a    *)
(* member, the first one's answer being a root still.                      *)
ForestShape(n) ==
    /\ parent \in [1 .. n -> 1 .. n]
    /\ size \in [1 .. n -> Nat \ {0}]
    /\ links \in Seq(Pairs(n))
    /\ links # <<>> => at \in 1 .. n
    /\ root # NoRoot => root \in 1 .. n /\ parent[root] = root

ForestTypeOK == \E n \in Nat : ForestShape(n)

(* A member below another has the smaller tree, so the climb of find goes  *)
(* through ever larger trees and ends: path halving and linking never      *)
(* close a cycle, which would hang find (mod.rs:902-908).                  *)
FindEnds == \A m \in DOMAIN parent : parent[m] # m => size[m] < size[parent[m]]
=============================================================================
