--------------------------- MODULE CoSocketProofs ---------------------------
(***************************************************************************)
(* Proofs about the coroutines that wait on a socket, for any set of them. *)
(***************************************************************************)
EXTENDS CoSocket, CoroutineProofs

(* A wait on the socket: the operation exists exactly during the blocking  *)
(* call, and its coroutine is bound to its side, whose event is in the     *)
(* reactor; a timer node is left only under the TimerController that will  *)
(* take it away.                                                           *)
BoundInv ==
  /\ \A c \in Cos : call[c] = "lib" <=> op[c] # NoOp
  /\ \A c \in Cos, e \in Sides : bound[e] = c <=> op[c].side = e
  /\ \A e \in Sides : e \in events <=> bound[e] # Main
  /\ \A e \in Sides : node[e] # "none" => bound[e] # Main /\ enabled[bound[e]]

(* close() and the error callback stay on the stack, outside of any        *)
(* blocking call, until they have looked at the reader.                    *)
TodoInv ==
  \A x \in Cos : todo[x] # "none" => todo[x] = "close" /\ OnStack(x) /\ call[x] = "none"

Closing == \E x \in Cos \cup {Main} : todo[x] = "close"

(* The writer of a closed socket has been woken; the reader has, or will   *)
(* be by the close() that is still on the stack.                           *)
ClosedInv ==
  /\ Closing => sock_closed
  /\ sock_closed /\ bound["write"] # Main => bound["write"] = current
  /\ sock_closed /\ bound["read"] # Main => bound["read"] = current \/ Closing
  /\ deleted => sock_closed /\ ~has_bound

SockIInv == SchedInv /\ SockTypeOK /\ BoundInv /\ TodoInv /\ ClosedInv /\ WaitVerdict

-----------------------------------------------------------------------------
(* Sockets.                                                                *)

LEMMA SideOf ==
  ASSUME SockTypeOK, BoundInv
  PROVE  /\ \A e \in Sides : bound[e] # Main =>
              bound[e] \in Cos /\ call[bound[e]] = "lib" /\ op[bound[e]].side = e
         /\ \A c \in Cos : call[c] = "lib" => op[c].side \in Sides /\ bound[op[c].side] = c
         /\ \A c \in Cos : call[c] # "lib" => op[c].side \notin Sides
<1>1. \A c \in Cos : op[c] = NoOp \/ op[c].side \in Sides
  BY DEF SockTypeOK, Ops
<1>2. NoOp.side \notin Sides
  BY DEF NoOp, Sides
<1>3. \A e \in Sides : bound[e] \in Cos \cup {Main}
  BY DEF SockTypeOK
<1>4. \A c \in Cos : op[c].side \in Sides => op[c] # NoOp
  BY <1>2
<1>5. \A e \in Sides : bound[e] # Main => bound[e] \in Cos /\ op[bound[e]].side = e
  BY <1>3 DEF BoundInv
<1>6. QED BY <1>1, <1>4, <1>5 DEF BoundInv

(* Code of the reactor, or user code: whoever is bound is suspended.       *)
LEMMA OthersBound ==
  ASSUME SockTypeOK, BoundInv, LibIdle, NEW e \in Sides, bound[e] # Main
  PROVE  bound[e] # current
BY SideOf DEF LibIdle

(* Once the thread is back in the reactor no close() is under way, and a   *)
(* closed socket has nobody bound to it.                                   *)
LEMMA ReactorFinds ==
  ASSUME SockIInv, current = Main, todo[Main] # "close"
  PROVE  ~Closing /\ (sock_closed => ~has_bound)
<1>1. \A x \in Cos : ~OnStack(x)
  BY DEF SockIInv, SchedInv, StackInv
<1>2. \A x \in Cos : todo[x] = "none"
  BY Zenon, <1>1 DEF SockIInv, TodoInv
<1>3. ~Closing
  BY <1>2 DEF Closing
<1>4. QED BY <1>3 DEF SockIInv, ClosedInv, has_bound, Sides

(* What a step may do to the rest of close() and of the error callback:    *)
(* take up a close() of its own, drop what was there.                      *)
TodoStep ==
  /\ todo' \in [Cos \cup {Main} -> {"none", "close", "error"}]
  /\ \A x \in Cos : todo'[x] # "none" => todo'[x] = "close" /\ (x = current \/ todo[x] # "none")

TimersOnlyLeave ==
  /\ node' \in [Sides -> {"none", "timer", "forever"}]
  /\ \A e \in Sides : node'[e] # "none" => node[e] # "none"

Around == SchedInv /\ SockTypeOK /\ BoundInv /\ TodoInv

(* A wake-up: the waiter runs, on top of code that is not blocking.        *)
LEMMA WakeKeeps ==
  ASSUME Around, current \in Cos => call[current] = "none",
         NEW e \in Sides, bound[e] # Main, resume(bound[e]), WaitTypes',
         UNCHANGED <<call, user_yield_coros, on_bailout, bound, events, enabled, op, deleted>>,
         TimersOnlyLeave, TodoStep, errCode' \in Errors, sock_closed' \in BOOLEAN
  PROVE  Around' /\ current' = bound[e] /\ bound[e] \in Cos
<1>. DEFINE c == bound[e]
<1>1. c \in Cos /\ call[c] = "lib"
  BY SideOf DEF Around
<1>2. c # current /\ c \notin user_yield_coros
  BY <1>1 DEF Around, SchedInv
<1>3. /\ SchedInv' /\ current' = c
      /\ \A b \in Cos : OnStack(b) => OnStack(b)'
  BY <1>1, <1>2, SchedWake DEF Around
<1>4. SockTypeOK'
  BY DEF Around, SockTypeOK, TimersOnlyLeave, TodoStep
<1>5. BoundInv'
  BY DEF Around, BoundInv, TimersOnlyLeave
<1>6. current \in Cos => OnStack(current)
  BY MainAssumption DEF Around, SchedInv, StackInv
<1>7. TodoInv'
  BY <1>3, <1>6 DEF Around, TodoInv, TodoStep
<1>8. QED BY <1>1, <1>3, <1>4, <1>5, <1>7 DEF Around

(* A step that switches nothing and leaves the waits as they are.          *)
LEMMA StayKeeps ==
  ASSUME Around, current \in Cos => call[current] = "none",
         UNCHANGED <<swapVars, on_bailout, user_yield_coros, call, waits>>, WaitTypes',
         TodoStep, errCode' \in Errors, sock_closed' \in BOOLEAN, deleted' \in BOOLEAN
  PROVE  Around' /\ LibIdle' /\ current' = current
<1>1. current' = current
  BY DEF swapVars
<1>2. SchedInv' /\ \A b \in Cos : OnStack(b)' <=> OnStack(b)
  BY SchedStay DEF Around
<1>3. UNCHANGED <<bound, events, node, enabled, op>>
  BY DEF waits
<1>4. SockTypeOK'
  BY <1>3 DEF Around, SockTypeOK, TodoStep
<1>5. BoundInv'
  BY <1>3 DEF Around, BoundInv
<1>6. current \in Cos => OnStack(current)
  BY MainAssumption DEF Around, SchedInv, StackInv
<1>7. TodoInv'
  BY <1>2, <1>6 DEF Around, TodoInv, TodoStep
<1>8. QED BY <1>1, <1>2, <1>4, <1>5, <1>7 DEF Around, LibIdle

LEMMA IdleVerdict ==
  ASSUME SockTypeOK', BoundInv', LibIdle'
  PROVE  WaitVerdict'
<1>1. \A c \in Cos : op'[c] = NoOp \/ op'[c].side \in Sides
  BY DEF SockTypeOK, Ops
<1>2. NoOp.side \notin Sides
  BY DEF NoOp, Sides
<1>3. \A c \in Cos : current' = c => op'[c] = NoOp
  BY DEF BoundInv, LibIdle
<1>4. QED BY <1>2, <1>3 DEF WaitVerdict

LEMMA SockElseInv ==
  ASSUME SockIInv, SockCoStep
  PROVE  SockIInv'
<1>1. /\ todo[current] = "none" /\ Elsewhere
      /\ UNCHANGED <<bound, events, node, enabled, op, errCode, sock_closed, deleted, todo>>
  BY DEF SockCoStep, Elsewhere, waits
<1>2. SchedInv' /\ LibIdle /\ LibIdle' /\ FramesStay
  BY <1>1, SchedElse DEF SockIInv
<1>3. SockTypeOK'
  BY <1>1 DEF SockIInv, SockTypeOK
<1>4. BoundInv'
  BY <1>1, <1>2 DEF SockIInv, BoundInv, FramesStay
<1>5. TodoInv'
  BY <1>1, <1>2 DEF SockIInv, TodoInv, FramesStay
<1>6. ClosedInv'
  <2>1. \A e \in Sides : bound[e] # Main => bound[e] # current
    BY <1>2, OthersBound DEF SockIInv
  <2>2. QED BY <1>1, <2>1 DEF SockIInv, ClosedInv, Closing, has_bound, Sides
<1>7. WaitVerdict'
  BY <1>2, <1>3, <1>4, IdleVerdict
<1>8. QED BY <1>2, <1>3, <1>4, <1>5, <1>6, <1>7 DEF SockIInv

(* wait_event() of the running coroutine c, the first one of an operation  *)
(* or another turn of its loop.                                            *)
LEMMA WaitInv ==
  ASSUME SockIInv, NEW c \in Cos, c = current, todo[c] = "none", ~sock_closed,
         NEW e \in Sides, (bound[e] = Main /\ call[c] = "none") \/ bound[e] = c,
         NEW o \in [kind : Kinds, side : Sides], o.side = e, op' = [op EXCEPT ![c] = o],
         wait_event(c, e),
         node' \in [Sides -> {"none", "timer", "forever"}], enabled' \in [Cos -> BOOLEAN],
         \A s \in Sides : s # e => node'[s] = node[s],
         \A b \in Cos : b # c => enabled'[b] = enabled[b],
         node'[e] # "none" => enabled'[c],
         UNCHANGED <<lists, on_bailout, sock_closed, deleted, todo>>
  PROVE  SockIInv'
<1>. SchedInv /\ SockTypeOK /\ BoundInv /\ TodoInv /\ ClosedInv /\ WaitTypes
  BY SplitTypes DEF SockIInv, SchedInv
<1>1. /\ SwapOut(c, "waiting") /\ call' = [call EXCEPT ![c] = "lib"]
      /\ resume_code' = [resume_code EXCEPT ![c] = "ok"]
      /\ cancel_fn' = [cancel_fn EXCEPT ![c] = TRUE] /\ timer' = [timer EXCEPT ![c] = FALSE]
      /\ UNCHANGED <<waker, user_yield_coros, inflight>>
      /\ bound' = [bound EXCEPT ![e] = c] /\ events' = events \cup {e} /\ errCode' = "ok"
  BY Zenon DEF wait_event, BlockIn, TimerAdded, lists
<1>2. WaitTypes'
  BY <1>1 DEF WaitTypes, ResumeCodes, Calls
<1>3. /\ call'[c] = "lib" /\ \A b \in Cos : b # c => call'[b] = call[b]
      /\ op'[c] = o /\ \A b \in Cos : b # c => op'[b] = op[b]
      /\ bound'[e] = c /\ \A s \in Sides : s # e => bound'[s] = bound[s]
  BY <1>1 DEF WaitTypes, SockTypeOK
<1>4. c \notin user_yield_coros
  BY DEF SchedInv
<1>5. /\ SchedInv' /\ current' # c /\ (current' \in Cos => call'[current'] = "none")
      /\ \A b \in Cos : b # c => (OnStack(b)' <=> OnStack(b))
  BY <1>1, <1>2, <1>3, <1>4, SchedOut
<1>6. SockTypeOK'
  <2>1. /\ bound' \in [Sides -> Cos \cup {Main}] /\ events' \subseteq Sides /\ errCode' \in Errors
        /\ op' \in [Cos -> Ops]
    BY <1>1 DEF SockTypeOK, Errors, Ops
  <2>2. QED BY <2>1 DEF SockTypeOK
<1>7. \A s \in Sides : s # e => bound[s] # c /\ op[c].side # s
  <2>1. bound[e] = c => op[c].side = e
    BY DEF BoundInv
  <2>2. call[c] = "none" => op[c].side \notin Sides
    BY SideOf
  <2>3. \A s \in Sides : s # e => op[c].side # s
    BY <2>1, <2>2
  <2>4. QED BY <2>3 DEF BoundInv
<1>8. BoundInv'
  <2>1. o # NoOp /\ o.side = e
    BY DEF NoOp, Kinds, Sides
  <2>2. \A b \in Cos : call'[b] = "lib" <=> op'[b] # NoOp
    BY <1>3, <2>1 DEF BoundInv
  <2>3. \A b \in Cos, s \in Sides : bound'[s] = b <=> op'[b].side = s
    <3>1. ASSUME NEW b \in Cos, NEW s \in Sides PROVE bound'[s] = b <=> op'[b].side = s
      <4>1. CASE b = c
        BY <1>3, <1>7, <2>1, <4>1
      <4>2. CASE b # c /\ s = e
        <5>1. bound[e] # b
          BY <4>2, MainAssumption
        <5>2. QED BY <1>3, <4>2, <5>1 DEF BoundInv
      <4>3. CASE b # c /\ s # e
        BY <1>3, <4>3 DEF BoundInv
      <4>4. QED BY <4>1, <4>2, <4>3
    <3>2. QED BY <3>1
  <2>4. \A s \in Sides : s \in events' <=> bound'[s] # Main
    BY <1>1, <1>3, MainAssumption DEF BoundInv
  <2>5. \A s \in Sides : node'[s] # "none" => bound'[s] # Main /\ enabled'[bound'[s]]
    <3>1. ASSUME NEW s \in Sides, node'[s] # "none"
          PROVE  bound'[s] # Main /\ enabled'[bound'[s]]
      <4>1. CASE s = e
        BY <1>3, <3>1, <4>1, MainAssumption
      <4>2. CASE s # e
        <5>1. node[s] # "none" /\ bound'[s] = bound[s]
          BY <1>3, <3>1, <4>2
        <5>2. bound[s] # Main /\ enabled[bound[s]] /\ bound[s] # c
          BY <1>7, <4>2, <5>1 DEF BoundInv
        <5>3. bound[s] \in Cos
          BY <5>2 DEF SockTypeOK
        <5>4. QED BY <5>1, <5>2, <5>3
      <4>3. QED BY <4>1, <4>2
    <3>2. QED BY <3>1
  <2>6. QED BY <2>2, <2>3, <2>4, <2>5 DEF BoundInv
<1>9. TodoInv'
  BY <1>3, <1>5 DEF TodoInv
<1>10. ClosedInv'
  BY DEF ClosedInv, Closing
<1>11. LibIdle'
  BY <1>5 DEF LibIdle
<1>12. WaitVerdict'
  BY <1>6, <1>8, <1>11, IdleVerdict
<1>13. QED BY <1>5, <1>6, <1>8, <1>9, <1>10, <1>12 DEF SockIInv

(* The operation of c returns.                                             *)
LEMMA ReturnInv ==
  ASSUME SockIInv, NEW c \in Cos, c = current, call[c] = "lib", NEW e, e = op[c].side,
         Leave(e), Return(c, e), errCode' \in Errors,
         UNCHANGED <<lists, on_bailout, sock_closed, deleted, todo>>
  PROVE  SockIInv'
<1>. SchedInv /\ SockTypeOK /\ BoundInv /\ TodoInv /\ ClosedInv /\ WaitTypes
  BY SplitTypes DEF SockIInv, SchedInv
<1>1. e \in Sides /\ bound[e] = c
  BY SideOf
<1>2. /\ call' = [call EXCEPT ![c] = "none"] /\ waker' = "none" /\ UNCHANGED <<resume_code, swapVars>>
      /\ cancel_fn' = [cancel_fn EXCEPT ![c] = FALSE] /\ timer' = [timer EXCEPT ![c] = FALSE]
      /\ UNCHANGED <<user_yield_coros, inflight, current>>
      /\ bound' = [bound EXCEPT ![e] = Main] /\ events' = events \ {e}
      /\ op' = [op EXCEPT ![c] = NoOp] /\ enabled' = [enabled EXCEPT ![c] = FALSE]
      /\ node' = IF enabled[c] THEN [node EXCEPT ![e] = "none"] ELSE node
  BY DEF Leave, Return, Unblock, lists, swapVars
<1>3. WaitTypes'
  BY <1>2 DEF WaitTypes, Wakers, Calls
<1>4. /\ call'[c] = "none" /\ \A b \in Cos : b # c => call'[b] = call[b]
      /\ op'[c] = NoOp /\ \A b \in Cos : b # c => op'[b] = op[b]
      /\ bound'[e] = Main /\ \A s \in Sides : s # e => bound'[s] = bound[s]
      /\ \A b \in Cos : b # c => enabled'[b] = enabled[b]
  BY <1>1, <1>2 DEF WaitTypes, SockTypeOK
<1>5. SchedInv' /\ \A b \in Cos : OnStack(b)' <=> OnStack(b)
  BY <1>2, <1>3, <1>4, SchedStay
<1>6. SockTypeOK'
  <2>1. /\ bound' \in [Sides -> Cos \cup {Main}] /\ events' \subseteq Sides
        /\ op' \in [Cos -> Ops] /\ enabled' \in [Cos -> BOOLEAN]
    BY Zenon, <1>2 DEF SockTypeOK, Ops
  <2>2. node' \in [Sides -> {"none", "timer", "forever"}]
    BY Zenon, <1>2 DEF SockTypeOK
  <2>3. QED BY <2>1, <2>2 DEF SockTypeOK
<1>7. \A s \in Sides : s # e => bound[s] # c
  BY DEF BoundInv
<1>8. BoundInv'
  <2>1. NoOp.side \notin Sides
    BY DEF NoOp, Sides
  <2>2. \A b \in Cos : call'[b] = "lib" <=> op'[b] # NoOp
    BY <1>4 DEF BoundInv
  <2>3. ASSUME NEW b \in Cos, NEW s \in Sides PROVE bound'[s] = b <=> op'[b].side = s
    <3>1. CASE b = c
      BY <1>4, <1>7, <2>1, <3>1, MainAssumption
    <3>2. CASE b # c /\ s = e
      <4>1. bound[e] # b
        BY <1>1, <3>2
      <4>2. QED BY <1>4, <3>2, <4>1, MainAssumption DEF BoundInv
    <3>3. CASE b # c /\ s # e
      BY <1>4, <3>3 DEF BoundInv
    <3>4. QED BY Zenon, <3>1, <3>2, <3>3
  <2>4. \A s \in Sides : s \in events' <=> bound'[s] # Main
    BY <1>2, <1>4 DEF BoundInv
  <2>5. ASSUME NEW s \in Sides, node'[s] # "none" PROVE bound'[s] # Main /\ enabled'[bound'[s]]
    <3>1. node[s] # "none" /\ s # e
      <4>1. enabled[c] => node'[e] = "none" /\ \A x \in Sides : x # e => node'[x] = node[x]
        BY <1>1, <1>2 DEF SockTypeOK
      <4>2. ~enabled[c] => node[e] = "none" /\ node' = node
        BY <1>1, <1>2 DEF BoundInv
      <4>3. QED BY <2>5, <4>1, <4>2
    <3>2. bound[s] # Main /\ enabled[bound[s]] /\ bound[s] # c
      BY <1>7, <3>1 DEF BoundInv
    <3>3. bound[s] \in Cos
      BY <3>2 DEF SockTypeOK
    <3>4. QED BY <1>4, <3>1, <3>2, <3>3
  <2>6. QED BY Zenon, <2>2, <2>3, <2>4, <2>5 DEF BoundInv
<1>9. TodoInv'
  BY Zenon, <1>4, <1>5 DEF TodoInv
<1>10. ClosedInv'
  <2>1. ~deleted
    BY <1>1, MainAssumption DEF ClosedInv, has_bound
  <2>2. \A s \in Sides : bound'[s] # Main => bound'[s] = bound[s] /\ bound[s] # current
    BY <1>4, <1>7
  <2>3. QED BY Zenon, <1>2, <2>1, <2>2 DEF ClosedInv, Closing, Sides
<1>11. LibIdle'
  BY <1>2, <1>4 DEF LibIdle
<1>12. WaitVerdict'
  BY <1>6, <1>8, <1>11, IdleVerdict
<1>13. QED BY <1>5, <1>6, <1>8, <1>9, <1>10, <1>12 DEF SockIInv

LEMMA StartInv ==
  ASSUME SockIInv, NEW k \in Kinds, NEW e \in Sides, NEW t \in SockTimeouts, start(k, e, t)
  PROVE  SockIInv'
<1>. SchedInv /\ SockTypeOK /\ BoundInv /\ TodoInv /\ ClosedInv /\ WaitTypes /\ Around
  BY SplitTypes DEF SockIInv, SchedInv, Around
<1>. DEFINE c == current
<1>1. /\ c \in Cos /\ call[c] = "none" /\ todo[c] = "none" /\ bound[e] = Main
      /\ UNCHANGED <<sock_closed, deleted, todo>>
  BY Zenon DEF start, SockUserCode, UserCode
<1>2. CASE errCode' \in {"ok", "error", "ECONNRESET"} /\ UNCHANGED <<coVars, waits>>
  <2>1. /\ UNCHANGED <<swapVars, on_bailout, user_yield_coros, call, waits>> /\ WaitTypes'
        /\ UNCHANGED <<bound, current>>
    BY <1>2 DEF coVars, waitVars, lists, WaitTypes, waits, swapVars
  <2>2. TodoStep /\ errCode' \in Errors /\ sock_closed' \in BOOLEAN /\ deleted' \in BOOLEAN
    BY <1>1, <1>2 DEF SockTypeOK, TodoStep, TodoInv, Errors
  <2>3. Around' /\ LibIdle'
    BY <1>1, <2>1, <2>2, StayKeeps
  <2>4. ClosedInv'
    BY <1>1, <2>1 DEF ClosedInv, Closing, has_bound
  <2>5. WaitVerdict'
    BY <2>3, IdleVerdict DEF Around
  <2>6. QED BY <2>3, <2>4, <2>5 DEF Around, SockIInv
<1>3. CASE /\ ~sock_closed /\ op' = [op EXCEPT ![c] = [kind |-> k, side |-> e]]
           /\ TimerStart(c, e, t) /\ wait_event(c, e) /\ UNCHANGED <<lists, on_bailout>>
  <2>1. node[e] = "none"
    BY Zenon, <1>1 DEF BoundInv
  <2>2. /\ node' \in [Sides -> {"none", "timer", "forever"}] /\ enabled' \in [Cos -> BOOLEAN]
        /\ \A s \in Sides : s # e => node'[s] = node[s]
        /\ \A b \in Cos : b # c => enabled'[b] = enabled[b]
        /\ node'[e] # "none" => enabled'[c]
    <3>1. CASE t # "zero"
      <4>1. /\ enabled' = [enabled EXCEPT ![c] = TRUE]
            /\ node' = [node EXCEPT ![e] = IF t = "timed" THEN "timer" ELSE "forever"]
        BY <1>3, <2>1, <3>1 DEF TimerStart
      <4>2. QED BY <1>1, <4>1 DEF SockTypeOK
    <3>2. CASE t = "zero"
      BY <1>3, <2>1, <3>2 DEF TimerStart, SockTypeOK
    <3>3. QED BY <3>1, <3>2
  <2>. DEFINE o == [kind |-> k, side |-> e]
  <2>3. o \in [kind : Kinds, side : Sides] /\ o.side = e /\ op' = [op EXCEPT ![c] = o]
    BY Zenon, <1>3
  <2>4. /\ c \in Cos /\ c = current /\ todo[c] = "none" /\ ~sock_closed /\ wait_event(c, e)
        /\ (bound[e] = Main /\ call[c] = "none") \/ bound[e] = c
        /\ UNCHANGED <<lists, on_bailout, sock_closed, deleted, todo>>
    BY <1>1, <1>3
  <2>. HIDE DEF o, c
  <2>5. QED BY Zenon, <2>2, <2>3, <2>4, WaitInv
<1>4. QED BY <1>2, <1>3 DEF start

LEMMA AfterWaitInv ==
  ASSUME SockIInv, after_wait
  PROVE  SockIInv'
<1>. DEFINE c == current
            e == op[c].side
<1>1. c \in Cos /\ call[c] = "lib" /\ UNCHANGED <<lists, on_bailout, sock_closed, deleted, todo>>
  BY DEF after_wait
<1>2. e \in Sides /\ bound[e] = c
  BY <1>1, SideOf DEF SockIInv
<1>3. CASE /\ Leave(e) /\ Return(c, e)
           /\ errCode' \in {"ECONNABORTED", errCode} \cup {"ok", "error"}
  <2>1. errCode' \in Errors
    BY <1>3 DEF SockIInv, SockTypeOK, Errors
  <2>2. QED BY <1>1, <1>3, <2>1, ReturnInv
<1>4. CASE /\ ~(sock_closed \/ errCode # "ok") /\ op[c].kind = "loop"
           /\ wait_event(c, e) /\ UNCHANGED <<node, enabled, op>>
  <2>1. op[c] \in [kind : Kinds, side : Sides] /\ op' = [op EXCEPT ![c] = op[c]]
    BY <1>1, <1>2, <1>4 DEF SockIInv, SockTypeOK, Ops, NoOp
  <2>2. todo[c] = "none" /\ ~sock_closed
    BY <1>1, <1>4 DEF SockIInv, TodoInv
  <2>3. /\ node' \in [Sides -> {"none", "timer", "forever"}] /\ enabled' \in [Cos -> BOOLEAN]
        /\ node'[e] # "none" => enabled'[c]
    BY <1>2, <1>4 DEF SockIInv, SockTypeOK, BoundInv
  <2>4. QED BY Zenon, <1>1, <1>2, <1>4, <2>1, <2>2, <2>3, WaitInv
<1>5. QED BY <1>3, <1>4 DEF after_wait

(* The callbacks of the reactor: the socket is open when they find anybody *)
(* to wake.                                                                *)
LEMMA EventInv ==
  ASSUME SockIInv, NEW e \in Sides, event_callback(e)
  PROVE  SockIInv'
<1>. SchedInv /\ SockTypeOK /\ BoundInv /\ TodoInv /\ ClosedInv /\ WaitTypes /\ Around
  BY SplitTypes DEF SockIInv, SchedInv, Around
<1>1. /\ current = Main /\ todo[Main] = "none" /\ bound[e] # Main /\ current \notin Cos
      /\ UNCHANGED <<resume_code, cancel_fn, timer, call, lists, on_bailout, waits, sock_closed, deleted, todo>>
      /\ UNCHANGED <<bound, events, node, enabled, op, user_yield_coros, inflight>>
  BY Zenon, MainAssumption DEF event_callback, ReactorRuns, waits, lists
<1>2. ~Closing /\ ~sock_closed
  BY <1>1, ReactorFinds DEF has_bound
<1>3. TodoStep /\ TimersOnlyLeave /\ sock_closed' \in BOOLEAN /\ deleted' \in BOOLEAN
  BY <1>1 DEF SockTypeOK, TodoStep, TodoInv, TimersOnlyLeave
<1>4. ClosedInv'
  BY Zenon, <1>1, <1>2 DEF ClosedInv, Closing
<1>5. CASE WakeSide(e, "ok", "resume")
  <2>1. errCode' = "ok" /\ waker' = "resume" /\ resume(bound[e])
    BY <1>5 DEF WakeSide
  <2>2. WaitTypes' /\ errCode' \in Errors
    BY Zenon, <1>1, <2>1 DEF WaitTypes, Wakers, Errors
  <2>3. Around'
    BY Zenon, <1>1, <1>3, <2>1, <2>2, WakeKeeps
  <2>4. WaitVerdict'
    BY <1>1, <1>2, <2>1 DEF WaitVerdict
  <2>5. QED BY <1>4, <2>3, <2>4 DEF Around, SockIInv
<1>6. CASE errCode' = "ok" /\ UNCHANGED <<swapVars, waker>>
  <2>1. WaitTypes' /\ errCode' \in Errors
    BY <1>1, <1>6 DEF WaitTypes, Errors
  <2>2. Around' /\ LibIdle'
    BY Zenon, <1>1, <1>3, <1>6, <2>1, StayKeeps
  <2>3. WaitVerdict'
    BY <2>2, IdleVerdict DEF Around
  <2>4. QED BY Zenon, <1>4, <2>2, <2>3 DEF Around, SockIInv
<1>7. QED BY <1>5, <1>6 DEF event_callback

LEMMA SockTimerInv ==
  ASSUME SockIInv, NEW e \in Sides, sock_timer_callback(e)
  PROVE  SockIInv'
<1>. SchedInv /\ SockTypeOK /\ BoundInv /\ TodoInv /\ ClosedInv /\ WaitTypes /\ Around
  BY SplitTypes DEF SockIInv, SchedInv, Around
<1>1. /\ current = Main /\ todo[Main] = "none" /\ bound[e] # Main /\ current \notin Cos
      /\ UNCHANGED <<resume_code, cancel_fn, timer, call, on_bailout, sock_closed, deleted, todo>>
      /\ UNCHANGED <<bound, events, enabled, op, user_yield_coros, inflight>>
      /\ node' = [node EXCEPT ![e] = "none"]
      /\ errCode' = "ETIMEDOUT" /\ waker' = "timer" /\ resume(bound[e])
  BY Zenon, MainAssumption DEF sock_timer_callback, ReactorRuns, lists, WakeSide
<1>2. ~Closing /\ ~sock_closed
  BY Zenon, <1>1, ReactorFinds DEF has_bound
<1>3. TodoStep /\ sock_closed' \in BOOLEAN /\ deleted' \in BOOLEAN
  BY <1>1 DEF SockTypeOK, TodoStep, TodoInv
<1>4. TimersOnlyLeave
  BY <1>1 DEF SockTypeOK, TimersOnlyLeave
<1>5. ClosedInv'
  BY Zenon, <1>1, <1>2 DEF ClosedInv, Closing
<1>6. WaitTypes' /\ errCode' \in Errors
  BY ZenonT(30), <1>1 DEF WaitTypes, Wakers, Errors
<1>7. Around'
  BY <1>1, <1>3, <1>4, <1>6, WakeKeeps
<1>8. WaitVerdict'
  BY <1>1 DEF WaitVerdict
<1>9. QED BY <1>5, <1>7, <1>8 DEF Around, SockIInv

LEMMA ErrorEventInv ==
  ASSUME SockIInv, error_event_callback
  PROVE  SockIInv'
<1>. SchedInv /\ SockTypeOK /\ BoundInv /\ TodoInv /\ ClosedInv /\ WaitTypes /\ Around
  BY SplitTypes DEF SockIInv, SchedInv, Around
<1>1. /\ current = Main /\ todo[Main] = "none" /\ current \notin Cos
      /\ UNCHANGED <<resume_code, cancel_fn, timer, call, lists, on_bailout, waits, sock_closed, deleted>>
      /\ UNCHANGED <<bound, events, node, enabled, op, user_yield_coros, inflight>>
      /\ todo' = [todo EXCEPT ![Main] = "error"]
  BY MainAssumption DEF error_event_callback, ReactorRuns, waits, lists
<1>2. ~Closing /\ (sock_closed => ~has_bound)
  BY <1>1, ReactorFinds
<1>3. /\ todo' \in [Cos \cup {Main} -> {"none", "close", "error"}]
      /\ todo'[Main] = "error" /\ \A x \in Cos : todo'[x] = todo[x]
  BY <1>1, MainAssumption DEF SockTypeOK
<1>4. TodoStep /\ TimersOnlyLeave /\ sock_closed' \in BOOLEAN /\ deleted' \in BOOLEAN
  BY <1>1, <1>3 DEF SockTypeOK, TodoStep, TodoInv, TimersOnlyLeave
<1>5. ClosedInv'
  <2>1. ~Closing'
    BY <1>2, <1>3 DEF Closing
  <2>2. sock_closed => \A e \in Sides : bound[e] = Main
    BY <1>2 DEF has_bound
  <2>3. QED BY <1>1, <2>1, <2>2 DEF ClosedInv, has_bound, Sides
<1>6. CASE bound["write"] # Main
  <2>1. errCode' = "ok" /\ waker' = "resume" /\ resume(bound["write"]) /\ "write" \in Sides
    BY <1>6 DEF error_event_callback, WakeSide, Sides
  <2>2. WaitTypes' /\ errCode' \in Errors
    BY <1>1, <2>1 DEF WaitTypes, Wakers, Errors
  <2>3. Around'
    BY <1>1, <1>4, <1>6, <2>1, <2>2, WakeKeeps
  <2>4. ~sock_closed
    BY <1>2, <1>6, <2>1 DEF has_bound
  <2>5. WaitVerdict'
    BY <1>1, <2>1, <2>4 DEF WaitVerdict
  <2>6. QED BY <1>5, <2>3, <2>5 DEF Around, SockIInv
<1>7. CASE bound["write"] = Main
  <2>1. UNCHANGED <<errCode, swapVars, waker>>
    BY <1>7 DEF error_event_callback
  <2>2. WaitTypes' /\ errCode' \in Errors
    BY <1>1, <2>1 DEF WaitTypes, SockTypeOK
  <2>3. Around' /\ LibIdle'
    BY <1>1, <1>4, <2>1, <2>2, StayKeeps
  <2>4. WaitVerdict'
    BY <2>3, IdleVerdict DEF Around
  <2>5. QED BY <1>5, <2>3, <2>4 DEF Around, SockIInv
<1>8. QED BY <1>6, <1>7

(* cancel() may hit a reader that a close() still on the stack is about to *)
(* wake; its verdict is then that it was canceled.                         *)
LEMMA CancelInv ==
  ASSUME SockIInv, SockUserCode, NEW e \in Sides, bound[e] # Main, resume(bound[e]), WaitTypes',
         errCode' = "ECANCELED", waker' = "cancel",
         UNCHANGED <<call, lists, on_bailout, waits, sock_closed, deleted, todo>>
  PROVE  SockIInv'
<1>. SchedInv /\ SockTypeOK /\ BoundInv /\ TodoInv /\ ClosedInv /\ Around
  BY DEF SockIInv, Around
<1>1. /\ UNCHANGED <<bound, events, node, enabled, op, user_yield_coros, inflight>>
      /\ (current \in Cos => call[current] = "none") /\ LibIdle
  BY DEF waits, lists, SockUserCode, UserCode, LibIdle
<1>2. TodoStep /\ TimersOnlyLeave /\ sock_closed' \in BOOLEAN /\ errCode' \in Errors
  BY <1>1 DEF SockTypeOK, TodoStep, TodoInv, TimersOnlyLeave, Errors
<1>3. Around' /\ current' = bound[e]
  BY <1>1, <1>2, WakeKeeps
<1>4. ClosedInv'
  <2>1. \A s \in Sides : bound[s] # Main => bound[s] # current
    BY <1>1, OthersBound
  <2>2. QED BY <1>1, <1>3, <2>1 DEF ClosedInv, Closing, has_bound, Sides
<1>5. WaitVerdict'
  BY DEF WaitVerdict
<1>6. QED BY <1>3, <1>4, <1>5 DEF Around, SockIInv

LEMMA SockCancelInv ==
  ASSUME SockIInv, NEW e \in Sides, sock_cancel(e)
  PROVE  SockIInv'
<1>1. /\ SockUserCode /\ bound[e] # Main /\ errCode' = "ECANCELED" /\ waker' = "cancel"
      /\ resume(bound[e])
      /\ UNCHANGED <<resume_code, cancel_fn, timer, call, lists, on_bailout, waits, sock_closed, deleted, todo>>
  BY DEF sock_cancel, WakeSide
<1>2. WaitTypes'
  BY <1>1, SplitTypes DEF SockIInv, SchedInv, WaitTypes, Wakers, lists
<1>3. QED BY <1>1, <1>2, CancelInv

LEMMA CoCancelInv ==
  ASSUME SockIInv, NEW c \in Cos, co_cancel(c)
  PROVE  SockIInv'
<1>. DEFINE e == op[c].side
<1>1. e \in Sides /\ bound[e] = c /\ bound[e] # Main
  BY SideOf, MainAssumption DEF SockIInv, co_cancel
<1>2. /\ SockUserCode /\ errCode' = "ECANCELED" /\ waker' = "cancel" /\ resume(c)
      /\ cancel_fn' = [cancel_fn EXCEPT ![c] = FALSE]
      /\ resume_code' = [resume_code EXCEPT ![c] = "canceled"]
      /\ UNCHANGED <<timer, call, lists, on_bailout, waits, sock_closed, deleted, todo>>
  BY DEF co_cancel, CancelWith
<1>3. WaitTypes
  BY SplitTypes DEF SockIInv, SchedInv
<1>4. WaitTypes'
  BY <1>2, <1>3 DEF WaitTypes, Wakers, ResumeCodes, lists
<1>5. QED BY <1>1, <1>2, <1>4, CancelInv

LEMMA WakeReaderInv ==
  ASSUME SockIInv, wake_reader
  PROVE  SockIInv'
<1>. SchedInv /\ SockTypeOK /\ BoundInv /\ TodoInv /\ ClosedInv /\ WaitTypes /\ Around
  BY SplitTypes DEF SockIInv, SchedInv, Around
<1>. DEFINE x == current
<1>1. /\ todo[x] # "none" /\ x \in Cos \cup {Main} /\ "read" \in Sides
      /\ UNCHANGED <<resume_code, cancel_fn, timer, call, lists, on_bailout, waits, sock_closed, deleted>>
      /\ UNCHANGED <<bound, events, node, enabled, op, user_yield_coros, inflight>>
      /\ todo' = [todo EXCEPT ![x] = "none"]
  BY Zenon DEF wake_reader, waits, lists, SchedInv, TypeOK, Sides
<1>2. /\ todo' \in [Cos \cup {Main} -> {"none", "close", "error"}]
      /\ todo'[x] = "none" /\ \A y \in Cos \cup {Main} : y # x => todo'[y] = todo[y]
  BY <1>1 DEF SockTypeOK
<1>3. (x \in Cos => call[x] = "none") /\ LibIdle
  BY Zenon, <1>1 DEF TodoInv, LibIdle
<1>4. todo[x] = "close" \/ (todo[x] = "error" /\ x = Main)
  <2>1. todo[x] \in {"close", "error"}
    BY <1>1 DEF SockTypeOK
  <2>2. x \in Cos => todo[x] = "close"
    BY <1>1 DEF TodoInv
  <2>3. QED BY <1>1, <2>1, <2>2
<1>5. todo[x] = "close" => sock_closed
  BY <1>1 DEF ClosedInv, Closing
<1>6. todo[x] = "error" => ~Closing /\ (sock_closed => bound["read"] = Main)
  BY <1>1, <1>4, ReactorFinds DEF has_bound
<1>7. TodoStep /\ TimersOnlyLeave /\ sock_closed' \in BOOLEAN /\ deleted' \in BOOLEAN
  BY <1>1, <1>2 DEF SockTypeOK, TodoStep, TodoInv, TimersOnlyLeave
<1>8. Closing' => Closing
  BY <1>2 DEF Closing
<1>9. sock_closed => bound["write"] = Main
  BY <1>3, OthersBound DEF ClosedInv, Sides
<1>10. CASE bound["read"] # Main /\ (todo[x] = "error" => events # {} /\ ~deleted)
  <2>1. /\ errCode' = (IF todo[x] = "close" THEN "ECONNRESET" ELSE "ok")
        /\ waker' = "resume" /\ resume(bound["read"])
    BY <1>10 DEF wake_reader, WakeSide
  <2>2. WaitTypes' /\ errCode' \in Errors
    BY <1>1, <2>1 DEF WaitTypes, Wakers, Errors
  <2>3. Around' /\ current' = bound["read"]
    BY <1>1, <1>3, <1>7, <1>10, <2>1, <2>2, WakeKeeps
  <2>4. ClosedInv'
    BY <1>1, <1>8, <1>9, <2>3 DEF ClosedInv, has_bound
  <2>5. errCode' = IF sock_closed THEN "ECONNRESET" ELSE "ok"
    BY <1>4, <1>5, <1>6, <1>10, <2>1
  <2>6. WaitVerdict'
    BY <1>1, <2>1, <2>5 DEF WaitVerdict
  <2>7. QED BY <2>3, <2>4, <2>6 DEF Around, SockIInv
<1>11. CASE ~(bound["read"] # Main /\ (todo[x] = "error" => events # {} /\ ~deleted))
  <2>1. UNCHANGED <<errCode, swapVars, waker>>
    BY <1>11 DEF wake_reader
  <2>2. WaitTypes' /\ errCode' \in Errors
    BY <1>1, <2>1 DEF WaitTypes, SockTypeOK
  <2>3. Around' /\ LibIdle'
    BY <1>1, <1>3, <1>7, <2>1, <2>2, StayKeeps
  <2>4. sock_closed => bound["read"] = Main
    BY <1>4, <1>6, <1>11
  <2>5. ClosedInv'
    BY <1>1, <1>8, <1>9, <2>4 DEF ClosedInv, has_bound
  <2>6. WaitVerdict'
    BY <2>3, IdleVerdict DEF Around
  <2>7. QED BY <2>3, <2>5, <2>6 DEF Around, SockIInv
<1>12. QED BY <1>10, <1>11

LEMMA SockCloseInv ==
  ASSUME SockIInv, sock_close
  PROVE  SockIInv'
<1>. SchedInv /\ SockTypeOK /\ BoundInv /\ TodoInv /\ ClosedInv /\ WaitTypes /\ Around
  BY SplitTypes DEF SockIInv, SchedInv, Around
<1>. DEFINE x == current
<1>1. /\ x \in Cos \cup {Main} /\ (x \in Cos => call[x] = "none") /\ todo[x] = "none" /\ ~deleted
      /\ UNCHANGED <<waits, bound, events, node, enabled, op>>
  BY DEF sock_close, SockUserCode, UserCode, waits, SchedInv, TypeOK
<1>2. ASSUME UNCHANGED <<coVars, todo>>, sock_closed' \in BOOLEAN, deleted' \in BOOLEAN,
             errCode' \in {errCode, "EINPROGRESS"}, ClosedInv'
      PROVE  SockIInv'
  <2>1. UNCHANGED <<swapVars, on_bailout, user_yield_coros, call>> /\ WaitTypes'
    BY <1>2 DEF coVars, waitVars, lists, WaitTypes
  <2>2. TodoStep /\ errCode' \in Errors
    BY <1>2 DEF TodoStep, SockTypeOK, Errors, TodoInv
  <2>3. Around' /\ LibIdle'
    BY <1>1, <1>2, <2>1, <2>2, StayKeeps
  <2>4. WaitVerdict'
    BY <2>3, IdleVerdict DEF Around
  <2>5. QED BY <1>2, <2>3, <2>4 DEF Around, SockIInv
<1>3. CASE ~has_bound /\ sock_closed' = TRUE /\ deleted' = TRUE /\ UNCHANGED <<coVars, errCode, todo>>
  <2>1. ClosedInv'
    BY <1>1, <1>3 DEF ClosedInv, has_bound, Sides
  <2>2. QED BY <1>2, <1>3, <2>1
<1>4. CASE /\ has_bound /\ sock_closed /\ errCode' = "EINPROGRESS"
           /\ UNCHANGED <<coVars, sock_closed, deleted, todo>>
  <2>1. current' = current
    BY <1>4 DEF coVars, swapVars
  <2>2. ClosedInv'
    BY <1>1, <1>4, <2>1 DEF ClosedInv, Closing, has_bound
  <2>3. QED BY <1>2, <1>4, <2>2 DEF SockTypeOK
<1>5. CASE /\ has_bound /\ ~sock_closed /\ sock_closed' = TRUE
           /\ todo' = [todo EXCEPT ![x] = "close"]
           /\ IF bound["write"] # Main
              THEN WakeSide("write", "ECONNRESET", "resume")
              ELSE UNCHANGED <<errCode, swapVars, waker>>
           /\ UNCHANGED <<resume_code, cancel_fn, timer, call, lists, on_bailout, deleted>>
  <2>1. /\ todo' \in [Cos \cup {Main} -> {"none", "close", "error"}]
        /\ todo'[x] = "close" /\ \A y \in Cos \cup {Main} : y # x => todo'[y] = todo[y]
    BY <1>1, <1>5 DEF SockTypeOK
  <2>2. UNCHANGED <<user_yield_coros, inflight>>
    BY <1>5 DEF lists
  <2>3. TodoStep /\ TimersOnlyLeave /\ sock_closed' \in BOOLEAN /\ deleted' \in BOOLEAN
    BY <1>1, <1>5, <2>1 DEF SockTypeOK, TodoStep, TodoInv, TimersOnlyLeave
  <2>4. Closing' /\ ~deleted'
    BY <1>1, <1>5, <2>1 DEF Closing
  <2>5. CASE bound["write"] # Main
    <3>1. /\ errCode' = "ECONNRESET" /\ waker' = "resume" /\ resume(bound["write"])
          /\ "write" \in Sides
      BY <1>5, <2>5 DEF WakeSide, Sides
    <3>2. WaitTypes' /\ errCode' \in Errors
      BY <1>5, <2>2, <3>1 DEF WaitTypes, Wakers, Errors
    <3>3. Around' /\ current' = bound["write"]
      BY <1>1, <1>5, <2>2, <2>3, <2>5, <3>1, <3>2, WakeKeeps
    <3>4. ClosedInv'
      BY Zenon, <1>1, <1>5, <2>4, <3>3 DEF ClosedInv
    <3>5. WaitVerdict'
      BY <1>5, <3>1 DEF WaitVerdict
    <3>6. QED BY <3>3, <3>4, <3>5 DEF Around, SockIInv
  <2>6. CASE bound["write"] = Main
    <3>1. UNCHANGED <<errCode, swapVars, waker>>
      BY <1>5, <2>6
    <3>2. WaitTypes' /\ errCode' \in Errors
      BY <1>5, <2>2, <3>1 DEF WaitTypes, SockTypeOK
    <3>3. Around' /\ LibIdle'
      BY Zenon, <1>1, <1>5, <2>2, <2>3, <3>1, <3>2, StayKeeps
    <3>4. ClosedInv'
      BY Zenon, <1>1, <1>5, <2>4, <2>6 DEF ClosedInv
    <3>5. WaitVerdict'
      BY <3>3, IdleVerdict DEF Around
    <3>6. QED BY <3>3, <3>4, <3>5 DEF Around, SockIInv
  <2>7. QED BY <2>5, <2>6
<1>6. QED BY Zenon, <1>3, <1>4, <1>5 DEF sock_close

LEMMA SockInitInv == SockInit => SockIInv
<1>1. SUFFICES ASSUME SockInit PROVE SockIInv
  OBVIOUS
<1>2. SchedInv /\ LibIdle
  BY <1>1, SchedInit DEF SockInit
<1>3. /\ bound = [e \in Sides |-> Main] /\ events = {} /\ node = [e \in Sides |-> "none"]
      /\ sock_closed = FALSE /\ deleted = FALSE /\ errCode = "ok"
      /\ op = [c \in Cos |-> NoOp] /\ todo = [x \in Cos \cup {Main} |-> "none"]
      /\ current = Main /\ call = [c \in Cos |-> "none"]
  BY <1>1 DEF SockInit, CoInit
<1>4. SockTypeOK
  <2>1. enabled \in [Cos -> BOOLEAN] /\ sock_closed \in BOOLEAN /\ deleted \in BOOLEAN
    BY <1>1, Zenon DEF SockInit
  <2>2. /\ bound \in [Sides -> Cos \cup {Main}] /\ events \subseteq Sides
        /\ node \in [Sides -> {"none", "timer", "forever"}]
        /\ errCode \in Errors /\ op \in [Cos -> Ops]
    BY <1>3 DEF Errors, Ops
  <2>3. todo \in [Cos \cup {Main} -> {"none", "close", "error"}]
    BY <1>3
  <2>4. QED BY <2>1, <2>2, <2>3 DEF SockTypeOK
<1>5. BoundInv
  <2>1. NoOp.side \notin Sides
    BY DEF NoOp, Sides
  <2>2. QED BY <1>3, <2>1, MainAssumption DEF BoundInv
<1>6. TodoInv /\ ClosedInv
  <2>1. \A x \in Cos \cup {Main} : todo[x] = "none"
    BY <1>3
  <2>2. QED BY <1>3, <2>1 DEF TodoInv, ClosedInv, Closing
<1>7. WaitVerdict
  BY <1>3, MainAssumption DEF WaitVerdict
<1>8. QED BY <1>2, <1>4, <1>5, <1>6, <1>7 DEF SockIInv

LEMMA SockStutters == SockIInv /\ UNCHANGED sockVars => SockIInv'
<1>1. SUFFICES ASSUME SockIInv, UNCHANGED sockVars PROVE SockIInv'
  OBVIOUS
<1>2. /\ UNCHANGED <<current, origin, state, depth, resume_code, cancel_fn, timer, call, waker,
                     user_yield_coros, inflight, on_bailout>>
      /\ UNCHANGED <<bound, events, node, enabled, op, errCode, sock_closed, deleted, todo>>
  BY <1>1 DEF sockVars, coVars, swapVars, waitVars, lists, waits
<1>3. SchedInv'
  BY <1>1, SchedSame DEF SockIInv, sockVars
<1>4. SockTypeOK' /\ BoundInv'
  BY <1>1, <1>2 DEF SockIInv, SockTypeOK, BoundInv
<1>5. TodoInv' /\ ClosedInv'
  BY Zenon, <1>1, <1>2 DEF SockIInv, TodoInv, ClosedInv, Closing, has_bound, OnStack
<1>6. WaitVerdict'
  BY <1>1, <1>2 DEF SockIInv, WaitVerdict
<1>7. QED BY <1>3, <1>4, <1>5, <1>6 DEF SockIInv

LEMMA SockStepInv == SockIInv /\ [SockNext]_sockVars => SockIInv'
<1>1. SUFFICES ASSUME SockIInv, SockNext PROVE SockIInv'
  BY SockStutters
<1>2. ASSUME NEW t \in SockTimeouts,
             recv(t) \/ send(t) \/ recv_all(t) \/ send_all(t) \/ accept(t) \/ connect(t)
      PROVE  SockIInv'
  <2>1. \E k \in Kinds, e \in Sides : start(k, e, t)
    BY <1>2 DEF recv, send, recv_all, send_all, accept, connect, Kinds, Sides
  <2>2. QED BY <1>1, <2>1, StartInv
<1>3. ASSUME NEW e \in Sides, event_callback(e) \/ sock_timer_callback(e) \/ sock_cancel(e)
      PROVE  SockIInv'
  BY <1>1, <1>3, EventInv, SockTimerInv, SockCancelInv
<1>4. CASE after_wait \/ wake_reader \/ error_event_callback \/ sock_close
  BY <1>1, <1>4, AfterWaitInv, WakeReaderInv, ErrorEventInv, SockCloseInv
<1>5. QED BY <1>1, <1>2, <1>3, <1>4, SockElseInv, CoCancelInv DEF SockNext

LEMMA SockImplies == SockIInv => WaitersMatch
<1>1. SUFFICES ASSUME SockIInv PROVE WaitersMatch
  OBVIOUS
<1>2. \A c \in Cos, e \in Sides : bound[e] = c <=> call[c] = "lib" /\ op[c].side = e
  <2>1. SockTypeOK /\ BoundInv
    BY <1>1 DEF SockIInv
  <2>2. \A c \in Cos : call[c] = "lib" \/ op[c].side \notin Sides
    BY Zenon, <2>1, SideOf
  <2>3. QED BY <2>1, <2>2 DEF BoundInv
<1>3. CloseWakesBoth
  <2>1. sock_closed /\ ~Closing => \A e \in Sides : bound[e] # Main => bound[e] = current
    BY <1>1 DEF SockIInv, ClosedInv, Sides
  <2>2. deleted => ~has_bound /\ events = {} /\ \A e \in Sides : node[e] = "none"
    <3>1. SUFFICES ASSUME deleted PROVE events = {} /\ \A e \in Sides : bound[e] = Main /\ node[e] = "none"
      BY DEF has_bound
    <3>2. \A e \in Sides : bound[e] = Main
      BY <1>1, <3>1 DEF SockIInv, ClosedInv, has_bound
    <3>3. \A e \in Sides : e \notin events /\ node[e] = "none"
      BY <1>1, <3>2 DEF SockIInv, BoundInv
    <3>4. events \subseteq Sides
      BY <1>1 DEF SockIInv, SockTypeOK
    <3>5. QED BY <3>2, <3>3, <3>4
  <2>3. QED BY Zenon, <2>1, <2>2 DEF CloseWakesBoth, Closing
<1>4. QED BY <1>1, <1>2, <1>3 DEF SockIInv, WaitersMatch, BoundInv

(* read_co, write_co, the events in the reactor and the timer nodes always *)
(* name the coroutine inside the wait they were made for, errCode tells it *)
(* what woke it, and close() wakes both sides and deletes nothing under a  *)
(* waiter, however the woken coroutines go on before close() and the       *)
(* callbacks of the socket get the thread back.                            *)
THEOREM SocketWaitersMatch == SockSpec => []WaitersMatch
<1>1. SockSpec => []SockIInv
  BY SockInitInv, SockStepInv, PTL DEF SockSpec
<1>2. QED BY <1>1, SockImplies, PTL

=============================================================================
