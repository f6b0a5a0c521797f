--------------------------- MODULE PriorityQueue ---------------------------
(***************************************************************************)
(* What the users of src/core/heap.cc rely on: a set of nodes with         *)
(* priorities, of which pop() takes one with the smallest priority.        *)
(***************************************************************************)
EXTENDS Naturals

CONSTANTS Nodes, Priorities, NoNode

VARIABLES priority,   \* of the nodes in the queue
          popped      \* what the last operation returned, if it was pop()

pqVars == <<priority, popped>>

PQInit == priority = <<>> /\ popped = NoNode

Push == \E n \in Nodes \ DOMAIN priority :
  /\ DOMAIN priority' = DOMAIN priority \cup {n}
  /\ priority'[n] \in Priorities
  /\ \A m \in DOMAIN priority : priority'[m] = priority[m]
  /\ popped' = NoNode

Change == \E n \in DOMAIN priority, p \in Priorities :
  /\ priority' = [priority EXCEPT ![n] = p]
  /\ popped' = NoNode

Drop(n) == priority' = [m \in DOMAIN priority \ {n} |-> priority[m]]

Remove == \E n \in DOMAIN priority : Drop(n) /\ popped' = NoNode

Pop == \E n \in DOMAIN priority :
  /\ \A m \in DOMAIN priority : priority[n] <= priority[m]
  /\ Drop(n)
  /\ popped' = n

PQNext == Push \/ Change \/ Remove \/ Pop

PQSpec == PQInit /\ [][PQNext]_pqVars

=============================================================================
