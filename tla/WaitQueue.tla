----------------------------- MODULE WaitQueue -----------------------------
(* The lists (std::list) coroutines that wait are kept in.                 *)
EXTENDS Naturals, Sequences

(* std::list::remove of an element that is in the list at most once, which *)
(* the invariants of the components show.                                  *)
Entries(queue, c) == {i \in DOMAIN queue : queue[i] = c}
Remove(queue, c) ==
  IF Entries(queue, c) = {} THEN queue
  ELSE LET i == CHOOSE i \in Entries(queue, c) : TRUE
       IN  SubSeq(queue, 1, i - 1) \o SubSeq(queue, i + 1, Len(queue))
=============================================================================
