---------------------------- MODULE TargetGrowth ----------------------------
(***************************************************************************)
(* What every traversal of the dependency graph promises, whatever it      *)
(* searches for: a target is made of whole earlier targets, one behind the *)
(* other, and one more function, each of whose needed parameters is the    *)
(* result of a call in front of it.  Targets are never changed or taken    *)
(* back, and the functions marked visited are those some target ends with. *)
(*                                                                         *)
(* A target is the sequence of the functions it calls.                     *)
(***************************************************************************)
EXTENDS Sequences, Integers

VARIABLES
    needs,      \* function -> its parameters that have to be results
    edges,      \* <<producer, consumer, parameter>>
    targets,
    visited,
    base        \* what the next target will consist of, as far as chosen

vars == <<needs, edges, targets, visited, base>>

Nodes == DOMAIN needs

Supplied(f, chain) ==
    \A k \in needs[f] :
       \E c \in DOMAIN chain : <<chain[c], f, k>> \in edges

Init ==
    /\ DOMAIN needs = {}
    /\ edges = {}
    /\ targets = <<>>
    /\ visited = {}
    /\ base = <<>>

\* The graph is built once, before the first target.
Build ==
    /\ DOMAIN needs = {}
    /\ edges = {}
    /\ targets = <<>>
    /\ UNCHANGED <<targets, visited, base>>

\* A search may start from the empty target.
Seed ==
    /\ targets = <<>>
    /\ targets' = <<(<<>>)>>
    /\ UNCHANGED <<needs, edges, visited, base>>

Take ==
    /\ \E n \in DOMAIN targets : base' = base \o targets[n]
    /\ UNCHANGED <<needs, edges, targets, visited>>

GiveUp ==
    /\ base' = <<>>
    /\ UNCHANGED <<needs, edges, targets, visited>>

Publish ==
    /\ \E f \in Nodes :
         /\ Supplied(f, base)
         /\ targets' = Append(targets, Append(base, f))
         /\ visited' = visited \cup {f}
    /\ base' = <<>>
    /\ UNCHANGED <<needs, edges>>

Next == Build \/ Seed \/ Take \/ GiveUp \/ Publish

Spec == Init /\ [][Next]_vars
=============================================================================
