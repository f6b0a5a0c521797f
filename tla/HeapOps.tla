------------------------------ MODULE HeapOps ------------------------------
(***************************************************************************)
(* The binary min-heap of src/core/heap.cc as operators on the sequence of *)
(* its nodes and the function of their priorities.  A loop that shifts     *)
(* nodes along a path is a sequence of exchanges with the moving node.     *)
(***************************************************************************)
EXTENDS Naturals, Sequences

Exchange(ns, i, j) == [ns EXCEPT ![i] = ns[j], ![j] = ns[i]]
DropLast(ns) == SubSeq(ns, 1, Len(ns) - 1)

RECURSIVE bubble_up(_, _, _)
bubble_up(ns, pri, i) ==
  IF i > 1 /\ pri[ns[i \div 2]] > pri[ns[i]]
  THEN bubble_up(Exchange(ns, i, i \div 2), pri, i \div 2)
  ELSE ns

(* Mutant: always the left child.                                          *)
maxchild_Left(ns, pri, i) == IF 2 * i > Len(ns) THEN 0 ELSE 2 * i

(* The child with the smaller priority, the left one if they are equal; 0  *)
(* without children.                                                       *)
maxchild(ns, pri, i) ==
  IF 2 * i > Len(ns) THEN 0
  ELSE IF 2 * i + 1 <= Len(ns) /\ pri[ns[2 * i]] > pri[ns[2 * i + 1]]
       THEN 2 * i + 1 ELSE 2 * i

RECURSIVE percolate_down(_, _, _)
percolate_down(ns, pri, i) ==
  LET c == maxchild(ns, pri, i) IN
    IF c # 0 /\ pri[ns[i]] > pri[ns[c]]
    THEN percolate_down(Exchange(ns, i, c), pri, c)
    ELSE ns

Position(ns, n) == CHOOSE i \in 1..Len(ns) : ns[i] = n

heap_push(ns, pri, n) == bubble_up(Append(ns, n), pri, Len(ns) + 1)

(* pri holds the new priority, old the former one of n.                    *)
change_priority(ns, pri, n, old) ==
  LET i == Position(ns, n) IN
    IF old > pri[n] THEN bubble_up(ns, pri, i) ELSE percolate_down(ns, pri, i)

(* Mutant: the node that takes the free place only moves down.             *)
heap_remove_DownOnly(ns, pri, n) ==
  LET i == Position(ns, n)
      shorter == DropLast([ns EXCEPT ![i] = ns[Len(ns)]])
  IN IF i = Len(ns) THEN shorter ELSE percolate_down(shorter, pri, i)

(* The last node takes the place of n and moves up or down from there.     *)
heap_remove(ns, pri, n) ==
  LET i == Position(ns, n)
      shorter == DropLast([ns EXCEPT ![i] = ns[Len(ns)]])
  IN IF i = Len(ns) THEN shorter
     ELSE IF pri[n] > pri[ns[Len(ns)]] THEN bubble_up(shorter, pri, i)
     ELSE percolate_down(shorter, pri, i)

heap_pop(ns, pri) ==
  IF Len(ns) = 1 THEN <<>>
  ELSE percolate_down(DropLast([ns EXCEPT ![1] = ns[Len(ns)]]), pri, 1)

(* No node has a smaller priority than its parent.                         *)
IsHeap(ns, pri) == \A i \in 2..Len(ns) : pri[ns[i \div 2]] <= pri[ns[i]]

=============================================================================
