---------------------------- MODULE MCCoroutines ----------------------------
(* The instances for TLC of the scheduler alone, of the channel and of the *)
(* socket on top of it: "part" says which of them a behaviour is one of.   *)
(* Liveness is checked, so no symmetry is used.                            *)
EXTENDS CoChannel, CoSocket

VARIABLE part

chanOwn == <<queues, closer, opVars>>
sockOwn == <<waits, errCode, sock_closed, deleted, todo>>
allVars == <<coVars, chanOwn, sockOwn>>

CoroutinesInit == ChanInit /\ SockInit /\ part \in {"scheduler", "channel", "socket"}

CoroutinesNext ==
  \/ part = "scheduler" /\ CoNext /\ UNCHANGED <<part, chanOwn, sockOwn>>
  \/ part = "channel" /\ ChanNext /\ UNCHANGED <<part, sockOwn>>
  \/ part = "socket" /\ SockNext /\ UNCHANGED <<part, chanOwn>>

(* CoFairness, ChanFairness or SockFairness, each in its part.             *)
Goes == \/ part = "scheduler" /\ after_yield /\ UNCHANGED <<chanOwn, sockOwn>>
        \/ part = "channel" /\ (after_push \/ after_pop \/ close_loop) /\ UNCHANGED sockOwn
        \/ part = "socket" /\ (after_wait \/ wake_reader) /\ UNCHANGED chanOwn
Fires(c) == \/ part = "scheduler" /\ timer_callback(c) /\ UNCHANGED <<chanOwn, sockOwn>>
            \/ part = "channel" /\ chan_timer_callback(c) /\ UNCHANGED sockOwn
            \/ \E e \in Sides : bound[e] = c /\ sock_timer_callback(e) /\ UNCHANGED chanOwn

CoroutinesSpec ==
  /\ CoroutinesInit /\ [][CoroutinesNext]_<<part, allVars>>
  /\ WF_allVars(Goes) /\ \A c \in Cos : SF_allVars(Fires(c))

(* A coroutine that waits with a deadline, in async(), in push() or pop()  *)
(* of a channel or for a socket, gets the thread back and returns from     *)
(* that call, provided coroutines keep handing it back to the reactor.     *)
Timed(c) == timer[c] \/ \E e \in Sides : bound[e] = c /\ node[e] = "timer"
TimedWaitEnds ==
  []<>(current = Main) => \A c \in Cos : Timed(c) ~> call[c] = "none" \/ on_bailout # "no"
=============================================================================
