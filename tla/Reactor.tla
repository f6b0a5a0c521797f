------------------------------ MODULE Reactor ------------------------------
(***************************************************************************)
(* One event loop (src/reactor/base.cc, epoll.cc, os/signal.cc): sockets   *)
(* registered with epoll, the batch of events epoll_wait returns, the end  *)
(* callbacks of an iteration in their order, deferred tasks, the buffered  *)
(* write of a socket, signals, and the conditions under which a loop that  *)
(* waits for its exit ends.                                                *)
(*                                                                         *)
(* Callbacks run user code, which registers, removes, writes and closes    *)
(* sockets, defers tasks, starts timers and asynchronous tasks while the   *)
(* rest of the batch is still to come.  Timers and asynchronous tasks are  *)
(* counted here; Timer and AsyncThreads model them.                        *)
(***************************************************************************)
EXTENDS Integers, Sequences, FiniteSets, Functions

CONSTANTS Sockets,     \* sockets of user code, strings
          Signals,     \* signal numbers, without 0
          Signalfds,   \* whether signals come through a signalfd, values to look at
          BufferSize,  \* bytes of out_buffer before it overflows
          MaxOps       \* calls of user code and signals

ASSUME ReactorAssumption ==
  /\ IsFiniteSet(Sockets) /\ Sockets \cap {"aio", "signal", "user"} = {}
  /\ Signals \subseteq Nat \ {0} /\ Signalfds \subseteq BOOLEAN /\ {BufferSize, MaxOps} \subseteq Nat

VARIABLES
  use_signalfd,   \* setting
  at,             \* what the loop is doing
  back,           \* what it does when the callback it is in returns
  loop_running,
  ready,          \* what is left of the events of this iteration: <<socket, kind>>
  sock,           \* by socket: its events, whether it is removed, its memory
  sockets_,       \* the map of registered sockets, those of the library included
  epoll,          \* by socket: what the kernel watches, {} when not registered
  out_buffer,     \* by socket: bytes not yet sent
  defer_tasks,    \* tasks for the end of the iteration: "user" or a socket to free
  executing,      \* deferred tasks being executed
  timers,         \* how many timers there are
  aio_task_num,       \* asynchronous tasks under way, -1 before the first
  singal_no,      \* last signal of the asynchronous handler, or 0
  interrupted,    \* a signal interrupts epoll_wait
  raised, handled, lost, \* history of signals
  written, sent,  \* by socket: bytes accepted from the user, bytes sent
  ops             \* calls of user code and signals so far

flowVars == <<at, back, loop_running, ready>>
socketVars == <<sock, sockets_, epoll>>
deferVars == <<defer_tasks, executing>>
signalVars == <<singal_no, interrupted, raised, handled, lost>>
outVars == <<out_buffer, written, sent>>
reactorVars == <<use_signalfd, flowVars, socketVars, deferVars, timers, aio_task_num, signalVars, outVars, ops>>

\* A main script has created the loop and sets it up before it waits.
ReactorInit ==
  /\ use_signalfd \in Signalfds
  /\ at = "callback" /\ back = "start" /\ loop_running = TRUE /\ ready = <<>>
  /\ sock = [s \in Sockets |-> [events |-> {}, removed |-> TRUE, freed |-> FALSE]]
  /\ sockets_ = IF use_signalfd THEN {"signal"} ELSE {}
  /\ epoll = [s \in Sockets |-> {}]
  /\ out_buffer = [s \in Sockets |-> <<>>]
  /\ defer_tasks = <<>> /\ executing = <<>>
  /\ timers = 0 /\ aio_task_num = -1
  /\ singal_no = 0 /\ interrupted = FALSE /\ raised = {} /\ handled = {} /\ lost = {}
  /\ written = [s \in Sockets |-> 0] /\ sent = [s \in Sockets |-> <<>>]
  /\ ops = 0

\* A callback that makes no more calls returns at once.
callback(b) == IF ops < MaxOps THEN at' = "callback" /\ back' = b ELSE at' = b /\ UNCHANGED back
go(a) == at' = a /\ UNCHANGED back

(***************************************************************************)
(* Registration: add, set, del of the epoll backend and what the reactor   *)
(* builds on them.  The kernel reports a hang-up of what it watches.       *)
(***************************************************************************)
Watched(events) == events \cup {"hup"}

add(s, events) ==
  IF epoll[s] = {}
  THEN /\ epoll' = [epoll EXCEPT ![s] = Watched(events)]
       /\ sock' = [sock EXCEPT ![s].events = events, ![s].removed = FALSE]
       /\ sockets_' = sockets_ \cup {s}
  ELSE UNCHANGED socketVars \* EEXIST

set(s, events) ==
  IF epoll[s] # {}
  THEN /\ epoll' = [epoll EXCEPT ![s] = Watched(events)]
       /\ sock' = [sock EXCEPT ![s].events = events]
       /\ UNCHANGED sockets_
  ELSE UNCHANGED socketVars \* ENOENT

del(s) ==
  IF ~sock[s].removed
  THEN /\ epoll' = [epoll EXCEPT ![s] = {}]
       /\ sock' = [sock EXCEPT ![s].events = {}, ![s].removed = TRUE]
       /\ sockets_' = sockets_ \ {s}
  ELSE UNCHANGED socketVars

add_event(s, e) ==
  LET other == {"read", "write"} \ {e}
  IN  IF other \subseteq sock[s].events THEN set(s, {"read", "write"}) ELSE add(s, {e})

remove_event(s, e) ==
  LET other == {"read", "write"} \ {e}
  IN  IF other \subseteq sock[s].events THEN set(s, other) ELSE del(s)

(***************************************************************************)
(* Calls of user code, from a callback.                                    *)
(***************************************************************************)
Calls == at = "callback" /\ ops < MaxOps /\ ops' = ops + 1
Usable(s) == ~sock[s].freed /\ s \notin Range(defer_tasks) \cup Range(executing)

user_add(s) ==
  /\ Calls /\ Usable(s)
  /\ \E e \in {"read", "write"} : e \notin sock[s].events /\ add_event(s, e)
  /\ UNCHANGED <<use_signalfd, flowVars, deferVars, timers, aio_task_num, signalVars, outVars>>

user_remove(s) ==
  /\ Calls /\ ~sock[s].removed
  /\ "read" \in sock[s].events /\ remove_event(s, "read")
  /\ UNCHANGED <<use_signalfd, flowVars, deferVars, timers, aio_task_num, signalVars, outVars>>

Bytes(s) == <<written[s] + 1, written[s] + 2>>

write_func_NoOffset(s) ==
  \/ /\ out_buffer[s] = <<>>
     /\ \E n \in 0..2 :
          /\ sent' = [sent EXCEPT ![s] = @ \o SubSeq(Bytes(s), 1, n)]
          /\ IF n = 2 THEN UNCHANGED <<out_buffer, socketVars>>
             ELSE /\ out_buffer' = [out_buffer EXCEPT ![s] = Bytes(s)]
                  /\ IF "write" \in sock[s].events THEN UNCHANGED socketVars ELSE add_event(s, "write")
     /\ written' = [written EXCEPT ![s] = @ + 2]
  \/ /\ out_buffer[s] # <<>>
     /\ out_buffer' = [out_buffer EXCEPT ![s] = @ \o Bytes(s)]
     /\ written' = [written EXCEPT ![s] = @ + 2]
     /\ UNCHANGED <<sent, socketVars>>

\* Two bytes are sent at once as far as the socket takes them, the others wait
\* for it to become writable, behind those that wait already; an overflow
\* refuses them.  (Or waits for the socket to be writable, and appends anyway.)
write_func(s) ==
  \/ /\ out_buffer[s] = <<>>
     /\ \E n \in 0..2 :
          /\ sent' = [sent EXCEPT ![s] = @ \o SubSeq(Bytes(s), 1, n)]
          /\ out_buffer' = [out_buffer EXCEPT ![s] = SubSeq(Bytes(s), n + 1, 2)]
          /\ IF n = 2 \/ "write" \in sock[s].events THEN UNCHANGED socketVars ELSE add_event(s, "write")
     /\ written' = [written EXCEPT ![s] = @ + 2]
  \/ /\ out_buffer[s] # <<>>
     /\ \/ Len(out_buffer[s]) > BufferSize /\ UNCHANGED <<out_buffer, written>>
        \/ /\ out_buffer' = [out_buffer EXCEPT ![s] = @ \o Bytes(s)]
           /\ written' = [written EXCEPT ![s] = @ + 2]
     /\ UNCHANGED <<sent, socketVars>>

user_write(s) ==
  /\ Calls /\ Usable(s) /\ write_func(s)
  /\ UNCHANGED <<use_signalfd, flowVars, deferVars, timers, aio_task_num, signalVars>>

user_close_Now(s) ==
  /\ Calls /\ Usable(s)
  /\ epoll' = [epoll EXCEPT ![s] = {}]
  /\ sock' = [sock EXCEPT ![s] = [events |-> {}, removed |-> TRUE, freed |-> TRUE]]
  /\ sockets_' = sockets_ \ {s}
  /\ out_buffer' = [out_buffer EXCEPT ![s] = <<>>]
  /\ UNCHANGED <<use_signalfd, flowVars, deferVars, timers, aio_task_num, signalVars, written, sent>>

\* Socket::free, after the socket was removed from the loop.
user_close(s) ==
  /\ Calls /\ Usable(s)
  /\ del(s)
  /\ out_buffer' = [out_buffer EXCEPT ![s] = <<>>]
  /\ defer_tasks' = Append(defer_tasks, s)
  /\ UNCHANGED <<use_signalfd, flowVars, executing, timers, aio_task_num, signalVars, written, sent>>

defer ==
  /\ Calls /\ defer_tasks' = Append(defer_tasks, "user")
  /\ UNCHANGED <<use_signalfd, flowVars, socketVars, executing, timers, aio_task_num, signalVars, outVars>>

user_timer ==
  /\ Calls
  /\ timers' \in {timers + 1} \cup (IF timers > 0 THEN {timers - 1} ELSE {})
  /\ UNCHANGED <<use_signalfd, flowVars, socketVars, deferVars, aio_task_num, signalVars, outVars>>

\* AsyncThreads::dispatch; the first one registers the completion pipe.
user_task ==
  /\ Calls
  /\ aio_task_num' = IF aio_task_num < 0 THEN 1 ELSE aio_task_num + 1
  /\ sockets_' = sockets_ \cup {"aio"}
  /\ UNCHANGED <<use_signalfd, flowVars, sock, epoll, deferVars, timers, signalVars, outVars>>

callback_returns ==
  /\ at = "callback" /\ at' = back /\ back' = "start"
  /\ UNCHANGED <<use_signalfd, loop_running, ready, socketVars, deferVars, timers, aio_task_num, signalVars, outVars, ops>>

(***************************************************************************)
(* Signals.                                                                *)
(***************************************************************************)
\* The slot will be reset without a look at what it holds by then.
Resetting == (back = "reset" /\ at = "callback") \/ at = "reset"

\* A signal that is watched by the signalfd waits there; otherwise the
\* asynchronous handler runs at once, whatever the loop is doing.
raise(sig) ==
  /\ sig \notin raised /\ raised' = raised \cup {sig} /\ at # "stopped"
  /\ ops < MaxOps /\ ops' = ops + 1
  /\ IF use_signalfd THEN UNCHANGED <<singal_no, interrupted, lost>>
     ELSE /\ singal_no' = sig
          /\ interrupted' = (at = "sleep")
          /\ lost' = lost \cup {singal_no} \cup (IF Resetting THEN {sig} ELSE {})
  /\ UNCHANGED <<use_signalfd, flowVars, socketVars, deferVars, timers, aio_task_num, handled, outVars>>

(***************************************************************************)
(* The loop.                                                               *)
(***************************************************************************)
\* What epoll_wait may report of a socket: readable, writable, or hung up
\* without either.
Reports(s) ==
  IF s \in Sockets
  THEN {<<<<s, k>>>> : k \in epoll[s]}
       \cup (IF {"read", "write"} \subseteq epoll[s] THEN {<<<<s, "read">>, <<s, "write">>>>} ELSE {})
  ELSE {<<<<s, "read">>>>}

SignalPending == use_signalfd /\ raised # handled
Reporting == {s \in Sockets : epoll[s] # {}} \cup (IF aio_task_num > 0 THEN {"aio"} ELSE {})
             \cup (IF SignalPending THEN {"signal"} ELSE {})
Batches ==
  LET one == UNION {Reports(s) : s \in Reporting}
      two == {p[1] \o p[2] : p \in {q \in one \X one : q[1][1][1] # q[2][1][1]}}
  IN  {b \in one \cup two : SignalPending => \E i \in DOMAIN b : b[i][1] = "signal"}

unchanged_loop == UNCHANGED <<use_signalfd, socketVars, timers, aio_task_num, outVars, ops>>

if_exit_AnyTasks ==
  LET event_num == Cardinality(sockets_) - (IF aio_task_num >= 0 THEN 1 ELSE 0) - (IF use_signalfd THEN 1 ELSE 0)
  IN  timers = 0 /\ defer_tasks = <<>> /\ event_num = 0

if_exit ==
  LET event_num == Cardinality(sockets_) - (IF aio_task_num = 0 THEN 1 ELSE 0) - (IF use_signalfd THEN 1 ELSE 0)
  IN  timers = 0 /\ defer_tasks = <<>> /\ event_num = 0

\* openswoole_event_wait.
start ==
  /\ at = "start" /\ go(IF if_exit THEN "stopped" ELSE "begin")
  /\ UNCHANGED <<loop_running, ready, deferVars, signalVars>> /\ unchanged_loop

\* Mutant: every iteration begins with an empty slot for the signal.
begin_Clears ==
  /\ at = "begin" /\ go(IF loop_running THEN "sleep" ELSE "stopped")
  /\ singal_no' = 0
  /\ UNCHANGED <<loop_running, ready, deferVars, interrupted, raised, handled, lost>> /\ unchanged_loop

begin ==
  /\ at = "begin" /\ go(IF loop_running THEN "sleep" ELSE "stopped")
  /\ UNCHANGED <<loop_running, ready, deferVars, signalVars>> /\ unchanged_loop

\* epoll_wait returns events, or none: after a timeout, which is zero when
\* tasks are deferred, or interrupted.  A batch of at most two sockets is
\* looked at; a signalfd is ready as long as a signal is pending.
wakes ==
  /\ at = "sleep"
  /\ \/ ready' \in Batches
     \/ ready' = <<>> /\ ~SignalPending /\ (timers > 0 \/ defer_tasks # <<>> \/ interrupted)
  /\ interrupted' = FALSE
  /\ go("batch")
  /\ UNCHANGED <<loop_running, deferVars, singal_no, raised, handled, lost>> /\ unchanged_loop

InBatch(s, kind) == at = "batch" /\ ready # <<>> /\ Head(ready) = <<s, kind>> /\ ready' = Tail(ready)

\* A socket that was removed meanwhile is left out.
skip(s) ==
  /\ \E kind \in {"read", "write", "hup"} : InBatch(s, kind)
  /\ sock[s].removed
  /\ UNCHANGED <<at, back, loop_running, deferVars, signalVars>> /\ unchanged_loop

\* The read handler of a socket is user code; so is the error handler.
read_handler(s) ==
  /\ InBatch(s, "read") \/ InBatch(s, "hup")
  /\ ~sock[s].removed
  /\ callback("batch")
  /\ UNCHANGED <<loop_running, deferVars, signalVars>> /\ unchanged_loop

\* _writable_callback; an error of the socket calls the error handler.
writable_callback(s) ==
  /\ InBatch(s, "write")
  /\ ~sock[s].removed
  /\ \E n \in 0..Len(out_buffer[s]) :
       /\ sent' = [sent EXCEPT ![s] = @ \o SubSeq(out_buffer[s], 1, n)]
       /\ out_buffer' = [out_buffer EXCEPT ![s] = SubSeq(@, n + 1, Len(@))]
       /\ \/ n = Len(out_buffer[s]) /\ remove_event(s, "write") /\ UNCHANGED <<at, back>>
          \/ n < Len(out_buffer[s]) /\ UNCHANGED <<at, back, socketVars>>
          \/ n < Len(out_buffer[s]) /\ callback("batch") /\ UNCHANGED socketVars
  /\ UNCHANGED <<use_signalfd, loop_running, deferVars, timers, aio_task_num, signalVars, written, ops>>

task_handler ==
  /\ InBatch("aio", "read") /\ callback("task done")
  /\ UNCHANGED <<loop_running, deferVars, signalVars>> /\ unchanged_loop

task_done ==
  /\ at = "task done" /\ go("batch") /\ aio_task_num' = aio_task_num - 1
  /\ UNCHANGED <<use_signalfd, loop_running, ready, socketVars, deferVars, timers, signalVars, outVars, ops>>

signalfd_event_callback ==
  /\ InBatch("signal", "read")
  /\ \E sig \in raised \ handled : handled' = handled \cup {sig}
  /\ callback("batch")
  /\ UNCHANGED <<loop_running, deferVars, singal_no, interrupted, raised, lost>> /\ unchanged_loop

batch_done ==
  /\ at = "batch" /\ ready = <<>> /\ go("timer")
  /\ UNCHANGED <<loop_running, ready, deferVars, signalVars>> /\ unchanged_loop

(***************************************************************************)
(* The end callbacks, in the order of their priorities.                    *)
(***************************************************************************)
end_timer ==
  /\ at = "timer"
  /\ \/ go("defer") /\ UNCHANGED timers
     \/ timers > 0 /\ timers' = timers - 1 /\ callback("timer")
  /\ UNCHANGED <<use_signalfd, loop_running, ready, socketVars, deferVars, aio_task_num, signalVars, outVars, ops>>

end_defer ==
  /\ at = "defer" /\ go("execute")
  /\ executing' = defer_tasks /\ defer_tasks' = <<>>
  /\ UNCHANGED <<loop_running, ready, signalVars>> /\ unchanged_loop

\* socket_free_defer closes the descriptor, whereby the kernel forgets it.
execute ==
  /\ at = "execute" /\ executing # <<>> /\ executing' = Tail(executing)
  /\ LET t == Head(executing) IN
     \/ /\ t = "user" /\ callback("execute") /\ UNCHANGED socketVars
     \/ /\ t # "user" /\ UNCHANGED <<at, back, sockets_>>
        /\ sock' = [sock EXCEPT ![t].freed = TRUE]
        /\ epoll' = [epoll EXCEPT ![t] = {}]
  /\ UNCHANGED <<use_signalfd, loop_running, ready, defer_tasks, timers, aio_task_num, signalVars, outVars, ops>>

\* The idle task is user code, if there is one.
end_idle ==
  /\ at = "execute" /\ executing = <<>> /\ (go("signal") \/ callback("signal"))
  /\ UNCHANGED <<loop_running, ready, deferVars, signalVars>> /\ unchanged_loop

end_signal ==
  /\ at = "signal"
  /\ IF singal_no = 0 THEN go("exit") /\ UNCHANGED handled
     ELSE callback("reset") /\ handled' = handled \cup {singal_no}
  /\ UNCHANGED <<loop_running, ready, deferVars, singal_no, interrupted, raised, lost>> /\ unchanged_loop

end_signal_reset ==
  /\ at = "reset" /\ go("exit")
  /\ singal_no' = 0
  /\ UNCHANGED <<loop_running, ready, deferVars, interrupted, raised, handled, lost>> /\ unchanged_loop

end_try_exit ==
  /\ at = "exit" /\ go("begin")
  /\ loop_running' = (loop_running /\ ~if_exit)
  /\ UNCHANGED <<ready, deferVars, signalVars>> /\ unchanged_loop

UserNext ==
  \/ \E s \in Sockets : user_add(s) \/ user_remove(s) \/ user_write(s) \/ user_close(s)
  \/ defer \/ user_timer \/ user_task

LoopNext ==
  \/ callback_returns \/ start \/ begin \/ wakes \/ task_handler \/ task_done \/ signalfd_event_callback \/ batch_done
  \/ \E s \in Sockets : skip(s) \/ read_handler(s) \/ writable_callback(s)
  \/ end_timer \/ end_defer \/ execute \/ end_idle \/ end_signal \/ end_signal_reset \/ end_try_exit

ReactorNext == UserNext \/ LoopNext \/ \E sig \in Signals : raise(sig)

\* Callbacks return, and the loop goes on when there is something that wakes it.
ReactorFairness ==
  /\ WF_reactorVars(at # "sleep" /\ LoopNext)
  /\ WF_reactorVars((timers > 0 \/ defer_tasks # <<>> \/ interrupted \/ SignalPending) /\ wakes)

ReactorSpec == ReactorInit /\ [][ReactorNext]_reactorVars /\ ReactorFairness
-----------------------------------------------------------------------------
(***************************************************************************)
(* Properties.                                                             *)
(***************************************************************************)
ReactorTypeOK ==
  /\ sock \in [Sockets -> [events : SUBSET {"read", "write"}, removed : BOOLEAN, freed : BOOLEAN]]
  /\ sockets_ \subseteq Sockets \cup {"aio", "signal"}
  /\ epoll \in [Sockets -> SUBSET {"read", "write", "hup"}]
  /\ timers \in Nat /\ aio_task_num \in Nat \cup {-1} /\ singal_no \in Signals \cup {0}

\* A loop that waits for its exit ends only when nothing is registered, timed,
\* deferred or under way, and does not sleep when there is nothing to wait for.
Outstanding == (\E s \in Sockets : epoll[s] # {}) \/ timers > 0 \/ aio_task_num > 0 \/ defer_tasks # <<>>
ExitExact == (at = "stopped" => ~Outstanding) /\ (at = "sleep" => Outstanding)

\* The reactor, the socket and the kernel agree on what is registered; no event
\* that is still to be handled refers to a socket that was freed, although
\* handlers before it close sockets; output that waits is waited for; and the
\* loop ends exactly when nothing is left to do.
LoopSound ==
  /\ ReactorTypeOK /\ ExitExact
  /\ \A s \in Sockets :
       /\ epoll[s] = IF sock[s].removed THEN {} ELSE Watched(sock[s].events)
       /\ sock[s].removed <=> s \notin sockets_
       /\ sock[s].removed => sock[s].events = {}
       /\ out_buffer[s] # <<>> => "write" \in sock[s].events
  /\ \A i \in DOMAIN ready : ready[i][1] \in Sockets => ~sock[ready[i][1]].freed

\* The bytes a socket got are those that were written, in order and each once,
\* whatever was sent at once, in part, or from the buffer; until it is closed,
\* what has not been sent is in the buffer.
OutputInOrder ==
  \A s \in Sockets :
    LET all == sent[s] \o out_buffer[s] IN
    /\ \A i \in DOMAIN all : all[i] = i
    /\ Usable(s) => Len(all) = written[s]

\* Until the loop ends, there is again and again a moment at which every signal
\* that was raised has been handled.  With the asynchronous handler
\* there are three exceptions: another signal comes before it is handled, it
\* comes while the callback of another runs, or it comes when the loop has
\* looked for signals and is about to sleep: then the next event wakes it.
SignalsHandled ==
  []<>(at = "stopped" \/ \A sig \in raised :
         \/ sig \in handled
         \/ ~use_signalfd /\ (sig \in lost \/ (at = "sleep" /\ singal_no = sig /\ ~interrupted)))
=============================================================================
