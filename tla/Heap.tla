-------------------------------- MODULE Heap --------------------------------
(***************************************************************************)
(* The heap of src/core/heap.cc as a component: the array of nodes, their  *)
(* priorities, and the operations its users call.                          *)
(***************************************************************************)
EXTENDS HeapOps, FiniteSets

CONSTANTS Nodes, Priorities, NoNode

ASSUME HeapAssumption == IsFiniteSet(Nodes) /\ Priorities \subseteq Nat /\ NoNode \notin Nodes

VARIABLES nodes, priority,
          popped   \* what the last operation returned, if it was pop()

heapVars == <<nodes, priority, popped>>

HeapInit == nodes = <<>> /\ priority = <<>> /\ popped = NoNode

push(n, p) ==
  /\ n \notin DOMAIN priority
  /\ priority' = [m \in DOMAIN priority \cup {n} |-> IF m = n THEN p ELSE priority[m]]
  /\ nodes' = heap_push(nodes, priority', n)
  /\ popped' = NoNode

change(n, p) ==
  /\ n \in DOMAIN priority
  /\ priority' = [priority EXCEPT ![n] = p]
  /\ nodes' = change_priority(nodes, priority', n, priority[n])
  /\ popped' = NoNode

remove_node(n) ==
  /\ n \in DOMAIN priority
  /\ priority' = [m \in DOMAIN priority \ {n} |-> priority[m]]
  /\ nodes' = heap_remove(nodes, priority, n)
  /\ popped' = NoNode

pop ==
  /\ nodes # <<>>
  /\ priority' = [m \in DOMAIN priority \ {nodes[1]} |-> priority[m]]
  /\ nodes' = heap_pop(nodes, priority)
  /\ popped' = nodes[1]

HeapNext ==
  \/ \E n \in Nodes, p \in Priorities : push(n, p) \/ change(n, p)
  \/ \E n \in Nodes : remove_node(n)
  \/ pop

HeapSpec == HeapInit /\ [][HeapNext]_heapVars

-----------------------------------------------------------------------------
(* The array is ordered like a heap and holds every node once.             *)
HeapOrdered ==
  /\ IsHeap(nodes, priority)
  /\ {nodes[i] : i \in DOMAIN nodes} = DOMAIN priority
  /\ Len(nodes) = Cardinality(DOMAIN priority)

Queue == INSTANCE PriorityQueue

(* The heap is a priority queue: pop() returns a node of smallest          *)
(* priority, every other operation changes only the node it names, and     *)
(* each of them leaves the array in order, wherever in it the node is.     *)
ImplementsQueue == Queue!PQSpec /\ [][HeapOrdered']_heapVars

=============================================================================
