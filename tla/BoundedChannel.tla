--------------------------- MODULE BoundedChannel ---------------------------
(***************************************************************************)
(* What a coroutine channel promises to its users: a bounded FIFO queue    *)
(* whose operations take effect atomically.  It says nothing of coroutine  *)
(* switches, wait queues or timers.  CoChannel is shown to implement it.   *)
(***************************************************************************)
EXTENDS Naturals, Sequences

CONSTANTS Procs, Vals, Capacity

VARIABLES
  q,        \* the values inside the channel
  closed,
  pending,  \* the operation each process is suspended in
  item      \* the value a suspended push holds

absVars == <<q, closed, pending, item>>

Init ==
  /\ q = <<>>
  /\ closed = FALSE
  /\ pending = [p \in Procs |-> "none"]
  /\ item = [p \in Procs |-> "none"]

Return(p) ==
  /\ pending' = [pending EXCEPT ![p] = "none"]
  /\ item' = [item EXCEPT ![p] = "none"]

(* A push waits only when there is no room, a pop only when there is no    *)
(* value, and neither on a closed channel.                                 *)
WaitPush(p, v) ==
  /\ ~closed
  /\ pending[p] = "none"
  /\ Len(q) = Capacity
  /\ pending' = [pending EXCEPT ![p] = "push"]
  /\ item' = [item EXCEPT ![p] = v]
  /\ UNCHANGED <<q, closed>>

WaitPop(p) ==
  /\ ~closed
  /\ pending[p] = "none"
  /\ q = <<>>
  /\ pending' = [pending EXCEPT ![p] = "pop"]
  /\ UNCHANGED <<q, closed, item>>

Enqueue(p, v) ==
  /\ ~closed
  /\ Len(q) < Capacity
  /\ \/ pending[p] = "none" /\ \A r \in Procs : pending[r] # "push"
     \/ pending[p] = "push" /\ item[p] = v
  /\ q' = Append(q, v)
  /\ Return(p)
  /\ UNCHANGED closed

Dequeue(p) ==
  /\ q # <<>>
  /\ \/ pending[p] = "none" /\ \A r \in Procs : pending[r] # "pop"
     \/ pending[p] = "pop"
  /\ q' = Tail(q)
  /\ Return(p)
  /\ UNCHANGED closed

(* A suspended operation may end without effect.                           *)
GiveUp(p) ==
  /\ pending[p] # "none"
  /\ Return(p)
  /\ UNCHANGED <<q, closed>>

Close ==
  /\ ~closed
  /\ closed' = TRUE
  /\ UNCHANGED <<q, pending, item>>

Next ==
  \/ Close
  \/ \E p \in Procs :
       \/ WaitPop(p) \/ Dequeue(p) \/ GiveUp(p)
       \/ \E v \in Vals : WaitPush(p, v) \/ Enqueue(p, v)

Spec == Init /\ [][Next]_absVars

=============================================================================
