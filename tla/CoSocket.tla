------------------------------ MODULE CoSocket ------------------------------
(***************************************************************************)
(* A socket of the coroutine library, src/coroutine/socket.cc and          *)
(* include/openswoole_coroutine_socket.h, on top of the scheduler: one     *)
(* coroutine may wait on its read side and one on its write side.          *)
(*                                                                         *)
(* A waiting coroutine is woken by an event of the reactor, by its timer,  *)
(* by cancel() or by close().  All of them set the one errCode of the      *)
(* socket and resume the coroutine on top of themselves; close() and the   *)
(* error callback wake the writer first and look at the reader when the    *)
(* writer has given the thread back, whatever it did meanwhile.            *)
(*                                                                         *)
(* Operations differ in what they do around the wait:                      *)
(*   "loop"  try, wait, try again: recv, send, read, write, readv, writev, *)
(*           recvmsg, sendmsg, recvfrom, sendto, sendfile;                 *)
(*   "all"   a barrier run by the event callback moves the data and keeps  *)
(*           the coroutine asleep: recv_all, send_all, readv_all,          *)
(*           writev_all;                                                   *)
(*   "once"  one wait: accept and poll on the read side, connect on the    *)
(*           write side.                                                   *)
(* The owner of the socket deletes it when close() returns true.           *)
(***************************************************************************)
EXTENDS Coroutine

VARIABLES
  bound,     \* read_co and write_co; Main: nullptr
  events,    \* socket->events; the socket is in the reactor when not empty
  node,      \* read_timer and write_timer
  enabled,   \* TimerController::enabled of the operation of each coroutine
  errCode,
  sock_closed,
  deleted,   \* the owner has deleted the socket
  op,        \* the operation each coroutine is inside of
  todo       \* contexts with the rest of close() or of the error callback to do

Sides == {"read", "write"}
Kinds == {"loop", "all", "once"}
NoOp == [kind |-> "none", side |-> "none"]
Ops == {NoOp} \cup [kind : Kinds, side : Sides]
Errors == {"ok", "error", "ETIMEDOUT", "ECANCELED", "ECONNRESET", "ECONNABORTED", "EINPROGRESS"}

waits == <<bound, events, node, enabled, op>>
sockVars == <<coVars, waits, errCode, sock_closed, deleted, todo>>

SockInit ==
  /\ CoInit
  /\ bound = [e \in Sides |-> Main]
  /\ events = {}
  /\ node = [e \in Sides |-> "none"]
  /\ enabled = [c \in Cos |-> FALSE]
  /\ errCode = "ok"
  /\ sock_closed = FALSE
  /\ deleted = FALSE
  /\ op = [c \in Cos |-> NoOp]
  /\ todo = [x \in Cos \cup {Main} |-> "none"]

has_bound == \E e \in Sides : bound[e] # Main
SockUserCode == UserCode /\ todo[current] = "none"
ReactorRuns == current = Main /\ todo[Main] = "none" /\ on_bailout # "fired"

(* set_err(err) and resume() of the coroutine bound to side e.             *)
WakeSide(e, err, w) ==
  /\ errCode' = err
  /\ waker' = w
  /\ resume(bound[e])

-----------------------------------------------------------------------------
(* wait_event() up to the switch.                                          *)
wait_event(c, e) ==
  /\ BlockIn(c, "lib", "never")
  /\ bound' = [bound EXCEPT ![e] = c]
  /\ events' = events \cup {e}
  /\ errCode' = "ok"

(* TimerController::start(): a negative timeout sets the timer pointer to  *)
(* -1, and so does not arm a timer but keeps the destructor symmetric.     *)
TimerStart(c, e, t) ==
  IF t # "zero" /\ node[e] = "none"
  THEN /\ enabled' = [enabled EXCEPT ![c] = TRUE]
       /\ node' = [node EXCEPT ![e] = IF t = "timed" THEN "timer" ELSE "forever"]
  ELSE UNCHANGED <<enabled, node>>

(* The operation of c returns: its TimerController is destroyed.           *)
Return(c, e) ==
  /\ Unblock(c)
  /\ waker' = "none"
  /\ op' = [op EXCEPT ![c] = NoOp]
  /\ node' = IF enabled[c] THEN [node EXCEPT ![e] = "none"] ELSE node
  /\ enabled' = [enabled EXCEPT ![c] = FALSE]
  /\ UNCHANGED swapVars

(* An operation of the running coroutine.  Asking for a side another       *)
(* coroutine is bound to is a fatal error that ends the program; connect() *)
(* asks for both.  It answers at once, with or without an error of the     *)
(* system call, of the timer or of the reactor, or it waits.               *)
start(k, e, t) ==
  LET c == current IN
  /\ SockUserCode
  /\ c \in Cos
  /\ ~deleted
  /\ bound[e] = Main
  /\ k = "once" /\ e = "write" => ~has_bound
  /\ \/ /\ sock_closed
        /\ errCode' = "ECONNRESET"
        /\ UNCHANGED <<coVars, waits>>
     \/ /\ ~sock_closed
        /\ errCode' \in {"ok", "error"}
        /\ UNCHANGED <<coVars, waits>>
     \/ /\ ~sock_closed
        /\ op' = [op EXCEPT ![c] = [kind |-> k, side |-> e]]
        /\ TimerStart(c, e, t)
        /\ wait_event(c, e)
        /\ UNCHANGED <<lists, on_bailout>>
  /\ UNCHANGED <<sock_closed, deleted, todo>>

recv(t) == start("loop", "read", t)
send(t) == start("loop", "write", t)
recv_all(t) == start("all", "read", t)
send_all(t) == start("all", "write", t)
accept(t) == start("once", "read", t)
connect(t) == start("once", "write", t)

(* Mutant: the event stays in the reactor.                                 *)
Leave_KeepEvent(e) ==
  /\ bound' = [bound EXCEPT ![e] = Main]
  /\ UNCHANGED events

(* wait_event() after the switch: the side is unbound and its event leaves *)
(* the reactor.                                                            *)
Leave(e) ==
  /\ bound' = [bound EXCEPT ![e] = Main]
  /\ events' = events \ {e}

(* The rest of the operation: nothing more when the wait failed, except    *)
(* that connect() reports a closed socket in its own way; otherwise the    *)
(* system call again, which may have to wait again in a loop.              *)
after_wait ==
  LET c == current
      e == op[c].side
      interrupted == sock_closed \/ errCode # "ok"
  IN
  /\ c \in Cos
  /\ call[c] = "lib"
  /\ \/ /\ interrupted
        /\ Leave(e)
        /\ Return(c, e)
        /\ errCode' = IF sock_closed /\ op[c].kind = "once" /\ e = "write"
                      THEN "ECONNABORTED" ELSE errCode
     \/ /\ ~interrupted
        /\ Leave(e)
        /\ Return(c, e)
        /\ errCode' \in {"ok", "error"}
     \/ /\ ~interrupted
        /\ op[c].kind = "loop"
        /\ wait_event(c, e)
        /\ UNCHANGED <<node, enabled, op>>
  /\ UNCHANGED <<lists, on_bailout, sock_closed, deleted, todo>>

-----------------------------------------------------------------------------
(* What wakes a waiting coroutine.                                         *)

(* readable_event_callback and writable_event_callback: a barrier that has *)
(* not moved all of its data leaves the coroutine asleep.                  *)
event_callback(e) ==
  /\ ReactorRuns
  /\ e \in events
  /\ bound[e] # Main
  /\ \/ WakeSide(e, "ok", "resume")
     \/ /\ op[bound[e]].kind = "all"
        /\ errCode' = "ok"
        /\ UNCHANGED <<swapVars, waker>>
  /\ UNCHANGED <<resume_code, cancel_fn, timer, call, lists, on_bailout,
                 waits, sock_closed, deleted, todo>>

(* Mutant: the reader is resumed with the errCode the writer has left.     *)
wake_reader_KeepErr ==
  LET x == current IN
  /\ todo[x] # "none"
  /\ call' = call
  /\ todo' = [todo EXCEPT ![x] = "none"]
  /\ IF bound["read"] # Main /\ (todo[x] = "error" => events # {} /\ ~deleted)
     THEN WakeSide("read", errCode, "resume")
     ELSE UNCHANGED <<errCode, swapVars, waker>>
  /\ UNCHANGED <<resume_code, cancel_fn, timer, lists, on_bailout, waits, sock_closed, deleted>>

(* The second half of error_event_callback and of close(): the reader.     *)
(* The callback first looks whether the socket is still in the reactor.    *)
wake_reader ==
  LET x == current
      err == IF todo[x] = "close" THEN "ECONNRESET" ELSE "ok"
  IN
  /\ todo[x] # "none"
  /\ call' = call
  /\ todo' = [todo EXCEPT ![x] = "none"]
  /\ IF bound["read"] # Main /\ (todo[x] = "error" => events # {} /\ ~deleted)
     THEN WakeSide("read", err, "resume")
     ELSE UNCHANGED <<errCode, swapVars, waker>>
  /\ UNCHANGED <<resume_code, cancel_fn, timer, lists, on_bailout, waits, sock_closed, deleted>>

(* error_event_callback, up to the resume of the writer.                   *)
error_event_callback ==
  /\ ReactorRuns
  /\ events # {}
  /\ todo' = [todo EXCEPT ![Main] = "error"]
  /\ IF bound["write"] # Main
     THEN WakeSide("write", "ok", "resume")
     ELSE UNCHANGED <<errCode, swapVars, waker>>
  /\ UNCHANGED <<resume_code, cancel_fn, timer, call, lists, on_bailout, waits, sock_closed, deleted>>

(* Mutant: the callback sets the error and forgets to resume.              *)
sock_timer_callback_NoResume(e) ==
  /\ ReactorRuns
  /\ node[e] = "timer"
  /\ errCode' = "ETIMEDOUT"
  /\ UNCHANGED <<coVars, waits, sock_closed, deleted, todo>>

(* Socket::timer_callback.                                                 *)
sock_timer_callback(e) ==
  /\ ReactorRuns
  /\ node[e] = "timer"
  /\ bound[e] # Main
  /\ node' = [node EXCEPT ![e] = "none"]
  /\ WakeSide(e, "ETIMEDOUT", "timer")
  /\ UNCHANGED <<resume_code, cancel_fn, timer, call, lists, on_bailout,
                 bound, events, enabled, op, sock_closed, deleted, todo>>

(* Socket::cancel(event), called on the socket.                            *)
sock_cancel(e) ==
  /\ SockUserCode
  /\ ~deleted
  /\ bound[e] # Main
  /\ WakeSide(e, "ECANCELED", "cancel")
  /\ UNCHANGED <<resume_code, cancel_fn, timer, call, lists, on_bailout,
                 waits, sock_closed, deleted, todo>>

(* Coroutine::cancel() of a coroutine that waits here: its cancel function *)
(* is Socket::cancel.                                                      *)
co_cancel(c) ==
  /\ SockUserCode
  /\ call[c] = "lib"
  /\ CancelWith(c)
  /\ errCode' = "ECANCELED"
  /\ UNCHANGED <<lists, on_bailout, waits, sock_closed, deleted, todo>>

(* Mutant: close() releases the socket under a coroutine that waits.       *)
sock_close_Unchecked ==
  /\ SockUserCode
  /\ ~deleted
  /\ sock_closed' = TRUE
  /\ deleted' = TRUE
  /\ UNCHANGED <<coVars, waits, errCode, todo>>

(* Mutant: the reader is forgotten when there is a writer.                 *)
sock_close_OneSide ==
  /\ SockUserCode
  /\ ~deleted
  /\ \/ /\ ~has_bound
        /\ sock_closed' = TRUE
        /\ deleted' = TRUE
        /\ UNCHANGED <<coVars, errCode, todo>>
     \/ /\ has_bound /\ ~sock_closed
        /\ sock_closed' = TRUE
        /\ WakeSide(IF bound["write"] # Main THEN "write" ELSE "read", "ECONNRESET", "resume")
        /\ UNCHANGED <<resume_code, cancel_fn, timer, call, lists, on_bailout, deleted, todo>>
  /\ UNCHANGED waits

(* Socket::close() and the delete of its caller when it returns true; with *)
(* a coroutine bound, up to the resume of the writer.                      *)
sock_close ==
  /\ SockUserCode
  /\ ~deleted
  /\ \/ /\ ~has_bound
        /\ sock_closed' = TRUE
        /\ deleted' = TRUE
        /\ UNCHANGED <<coVars, errCode, todo>>
     \/ /\ has_bound /\ sock_closed
        /\ errCode' = "EINPROGRESS"
        /\ UNCHANGED <<coVars, sock_closed, deleted, todo>>
     \/ /\ has_bound /\ ~sock_closed
        /\ sock_closed' = TRUE
        /\ todo' = [todo EXCEPT ![current] = "close"]
        /\ IF bound["write"] # Main
           THEN WakeSide("write", "ECONNRESET", "resume")
           ELSE UNCHANGED <<errCode, swapVars, waker>>
        /\ UNCHANGED <<resume_code, cancel_fn, timer, call, lists, on_bailout, deleted>>
  /\ UNCHANGED waits

-----------------------------------------------------------------------------
(* The rest of the program: coroutines start, end, suspend themselves and  *)
(* are resumed or canceled by others.                                      *)
SockCoStep ==
  /\ todo[current] = "none"
  /\ current \in Cos => op[current].kind # "lookup"
  /\ \/ yield \/ after_yield \/ close
     \/ \E c \in Cos : create(c) \/ resume_user(c) \/ cancel(c)
  /\ UNCHANGED <<waits, errCode, sock_closed, deleted, todo>>

SockTimeouts == {"zero", "timed", "forever"}

SockNext ==
  \/ SockCoStep
  \/ \E t \in SockTimeouts :
       recv(t) \/ send(t) \/ recv_all(t) \/ send_all(t) \/ accept(t) \/ connect(t)
  \/ after_wait \/ wake_reader \/ error_event_callback \/ sock_close
  \/ \E e \in Sides : event_callback(e) \/ sock_timer_callback(e) \/ sock_cancel(e)
  \/ \E c \in Cos : co_cancel(c)

(* Code that can run does run, and the loop selects a timer that is due.   *)
SockFairness ==
  /\ WF_sockVars(after_wait \/ wake_reader)
  /\ \A e \in Sides : SF_sockVars(sock_timer_callback(e))

SockSpec == SockInit /\ [][SockNext]_sockVars /\ SockFairness

-----------------------------------------------------------------------------
(* connect() and sendto() with a name instead of an address: the coroutine *)
(* binds both sides, "locked like wait_event", but waits in                *)
(* System::gethostbyname for an event of the thread pool.                  *)
lookup(t) ==
  /\ SockUserCode
  /\ ~deleted /\ ~sock_closed /\ ~has_bound
  /\ async(t)
  /\ bound' = [e \in Sides |-> current]
  /\ op' = [op EXCEPT ![current] = [kind |-> "lookup", side |-> "none"]]
  /\ UNCHANGED <<events, node, enabled, errCode, sock_closed, deleted, todo>>

after_lookup ==
  /\ current \in Cos
  /\ op[current].kind = "lookup"
  /\ after_yield
  /\ bound' = [e \in Sides |-> Main]
  /\ op' = [op EXCEPT ![current] = NoOp]
  /\ errCode' \in {"ok", "error"}
  /\ UNCHANGED <<events, node, enabled, sock_closed, deleted, todo>>

LookupNext ==
  \/ SockNext \/ after_lookup
  \/ \E t \in Timeouts : lookup(t)
  \/ /\ \E c \in Cos : async_task_completed(c) \/ timer_callback(c)
     /\ todo[Main] = "none"
     /\ UNCHANGED <<waits, errCode, sock_closed, deleted, todo>>

LookupSpec == SockInit /\ [][LookupNext]_sockVars

-----------------------------------------------------------------------------
(* Properties.                                                             *)

SockTypeOK ==
  /\ bound \in [Sides -> Cos \cup {Main}]
  /\ events \subseteq Sides
  /\ node \in [Sides -> {"none", "timer", "forever"}]
  /\ enabled \in [Cos -> BOOLEAN]
  /\ errCode \in Errors
  /\ sock_closed \in BOOLEAN /\ deleted \in BOOLEAN
  /\ op \in [Cos -> Ops]
  /\ todo \in [Cos \cup {Main} -> {"none", "close", "error"}]

(* The one errCode of the socket tells each waiter what woke it, also when *)
(* the other side was woken just before and left an error of its own.      *)
WaitVerdict ==
  \A c \in Cos : current = c /\ op[c].side \in Sides =>
    errCode = CASE waker = "timer" -> "ETIMEDOUT"
                [] waker = "cancel" -> "ECANCELED"
                [] OTHER -> IF sock_closed THEN "ECONNRESET" ELSE "ok"

(* close() wakes both sides, even though the writer runs arbitrary code    *)
(* before it gets to the reader, and nobody waits on a closed socket.      *)
(* When the owner deletes the socket no coroutine is bound to it and it    *)
(* has left the reactor (the assertion of the destructor), and no timer    *)
(* node is left that points to it.                                         *)
CloseWakesBoth ==
  /\ sock_closed /\ (\A x \in Cos \cup {Main} : todo[x] # "close") =>
       \A e \in Sides : bound[e] # Main => bound[e] = current
  /\ deleted => ~has_bound /\ events = {} /\ \A e \in Sides : node[e] = "none"

(* Whatever the socket may resume (read_co, write_co through an event in   *)
(* the reactor or a timer) is the coroutine inside the wait it was made    *)
(* for: the callbacks, which do not check, never find a null pointer and   *)
(* never wake a coroutine that has gone elsewhere.                         *)
WaitersMatch ==
  /\ SockTypeOK /\ WaitVerdict /\ CloseWakesBoth
  /\ \A c \in Cos, e \in Sides : bound[e] = c <=> call[c] = "lib" /\ op[c].side = e
  /\ \A e \in Sides : e \in events <=> bound[e] # Main
  /\ \A e \in Sides : node[e] # "none" => bound[e] # Main /\ enabled[bound[e]]

=============================================================================
