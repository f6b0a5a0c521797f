--------------------------- MODULE IoUringEngine ---------------------------
(***************************************************************************)
(* File operations through io_uring, src/os/io_uring_engine.cc: a          *)
(* coroutine puts a request into the ring and waits for at most 30         *)
(* seconds.  The kernel completes requests in any order; the reactor walks *)
(* over the completion queue and resumes the callers, each of which runs   *)
(* on before the walk continues.  A caller that gave up leaves its request *)
(* to that walk.                                                           *)
(*                                                                         *)
(* Reqs are addresses: one that was deleted may be given out again.        *)
(***************************************************************************)
EXTENDS Coroutine, Sequences, FiniteSets

CONSTANT Reqs

VARIABLES
  live,          \* the requests allocated and not deleted
  req_co,        \* IoUringRequest::coroutine
  abandoned,     \* IoUringRequest::abandoned
  in_kernel,     \* requests submitted and not completed
  cq,            \* the completion queue behind the head of the walk
  walking,       \* the reactor is inside process_completions()
  awaits,        \* the request the call of each coroutine waits for, if any
  pending_count

ringVars == <<live, req_co, abandoned, in_kernel, cq>>
uringOwn == <<ringVars, walking, awaits, pending_count>>
uringVars == <<coVars, uringOwn>>

UringInit ==
  /\ live = {} /\ abandoned = {} /\ in_kernel = {}
  /\ req_co = [r \in Reqs |-> Main]
  /\ cq = <<>> /\ walking = FALSE
  /\ awaits = [c \in Cos |-> {}]
  /\ pending_count = 0

(* The thread is not inside the walk: its own code runs or the reactor's.  *)
NotWalking == current = Main => ~walking

(* open(), read(), write(), fstat() and the others up to the yield_ex of   *)
(* submit_and_yield().                                                     *)
submit_and_yield(r) ==
  /\ UserCode
  /\ current \in Cos
  /\ r \notin live
  /\ live' = live \cup {r}
  /\ req_co' = [req_co EXCEPT ![r] = current]
  /\ in_kernel' = in_kernel \cup {r}
  /\ pending_count' = pending_count + 1
  /\ awaits' = [awaits EXCEPT ![current] = {r}]
  /\ BlockIn(current, "lib", "timed")
  /\ UNCHANGED <<lists, on_bailout, abandoned, cq, walking>>

(* Mutant: the request of a call that gave up is deleted with the call.    *)
after_submit_Deletes ==
  /\ current \in Cos
  /\ awaits[current] # {}
  /\ Unblock(current)
  /\ waker' = "none"
  /\ pending_count' = pending_count - 1
  /\ awaits' = [awaits EXCEPT ![current] = {}]
  /\ live' = live \ awaits[current]
  /\ UNCHANGED <<swapVars, lists, on_bailout, abandoned, req_co, in_kernel, cq, walking>>

(* The rest of submit_and_yield(): an answered request is deleted, one     *)
(* that timed out or was canceled is marked and left to the walk.          *)
after_submit ==
  /\ current \in Cos
  /\ awaits[current] # {}
  /\ Unblock(current)
  /\ waker' = "none"
  /\ pending_count' = pending_count - 1
  /\ awaits' = [awaits EXCEPT ![current] = {}]
  /\ IF resume_code[current] = "ok"
     THEN live' = live \ awaits[current] /\ UNCHANGED abandoned
     ELSE abandoned' = abandoned \cup awaits[current] /\ UNCHANGED live
  /\ UNCHANGED <<swapVars, lists, on_bailout, req_co, in_kernel, cq, walking>>

(* The kernel completes a request, at any time.                            *)
kernel_completes(r) ==
  /\ r \in in_kernel
  /\ in_kernel' = in_kernel \ {r}
  /\ cq' = Append(cq, r)
  /\ UNCHANGED <<coVars, live, req_co, abandoned, walking, awaits, pending_count>>

(* process_completions(), from on_event() or at the end of an iteration of *)
(* the reactor.  The walk reads the tail of the queue anew at every turn.  *)
process_completions ==
  /\ current = Main /\ ~walking
  /\ on_bailout = "no"
  /\ walking' = TRUE
  /\ UNCHANGED <<coVars, ringVars, awaits, pending_count>>

process_next ==
  /\ current = Main /\ walking
  /\ cq # <<>>
  /\ cq' = Tail(cq)
  /\ LET r == Head(cq) IN
       IF r \in abandoned
       THEN /\ live' = live \ {r} /\ abandoned' = abandoned \ {r}
            /\ UNCHANGED coVars
       ELSE /\ waker' = "resume" /\ resume(req_co[r])
            /\ UNCHANGED <<live, abandoned, resume_code, cancel_fn, timer, call, lists, on_bailout>>
  /\ UNCHANGED <<req_co, in_kernel, walking, awaits, pending_count>>

process_end ==
  /\ current = Main /\ walking
  /\ cq = <<>>
  /\ walking' = FALSE
  /\ UNCHANGED <<coVars, ringVars, awaits, pending_count>>

uring_timer_callback(c) ==
  /\ awaits[c] # {}
  /\ NotWalking
  /\ FireTimer(c, "timedout")
  /\ UNCHANGED <<lists, on_bailout, uringOwn>>

uring_cancel(c) ==
  /\ awaits[c] # {}
  /\ NotWalking
  /\ CancelWith(c)
  /\ UNCHANGED <<lists, on_bailout, uringOwn>>

UringCoStep ==
  /\ NotWalking
  /\ \/ yield \/ after_yield \/ close
     \/ \E c \in Cos : create(c) \/ resume_user(c) \/ cancel(c)
  /\ UNCHANGED uringOwn

UringNext ==
  \/ UringCoStep
  \/ \E r \in Reqs : submit_and_yield(r) \/ kernel_completes(r)
  \/ after_submit
  \/ process_completions \/ process_next \/ process_end
  \/ \E c \in Cos : uring_timer_callback(c) \/ uring_cancel(c)

UringSpec == CoInit /\ UringInit /\ [][UringNext]_uringVars

-----------------------------------------------------------------------------
(* A request lives exactly as long as the kernel or the queue may name it  *)
(* or its caller reads it: no completion reaches a deleted request, or one *)
(* made later at the same address.  A caller that goes on with a result    *)
(* has its own, and the count that keeps the loop alive is the number of   *)
(* callers that wait.                                                      *)
Unseen == {cq[i] : i \in DOMAIN cq}
Awaited == {r \in Reqs : \E c \in Cos : r \in awaits[c]}
RequestsExact ==
  /\ live = in_kernel \cup Unseen \cup Awaited
  /\ abandoned = live \ Awaited
  /\ in_kernel \cap Unseen = {}
  /\ \A c \in Cos, r \in Reqs : r \in awaits[c] => req_co[r] = c
  /\ pending_count = Cardinality({c \in Cos : awaits[c] # {}})
  /\ \A c \in Cos : current = c /\ awaits[c] # {} /\ resume_code[c] = "ok" =>
       awaits[c] \cap (in_kernel \cup Unseen) = {}
  /\ \A i, j \in DOMAIN cq : cq[i] = cq[j] => i = j

=============================================================================
