----------------------------- MODULE CoChannel -----------------------------
(***************************************************************************)
(* The coroutine channel, src/coroutine/channel.cc with the bounds checks  *)
(* of ext-src/openswoole_channel_coro.cc, on top of the scheduler.         *)
(*                                                                         *)
(* push() and pop() either finish at once or suspend the caller in one of  *)
(* two queues.  Whoever makes room or brings a value takes the first       *)
(* waiter out of its queue and resumes it on top of itself, so that the    *)
(* waiter runs before anybody else sees the channel.  close() resumes all  *)
(* waiters in a loop; each of them may run any code before the loop goes   *)
(* on.                                                                     *)
(***************************************************************************)
EXTENDS Coroutine, WaitQueue

CONSTANTS Vals, Capacity

ASSUME CapacityAssumption == Capacity \in Nat \ {0}

VARIABLES
  data_queue,
  producer_queue,
  consumer_queue,
  closed,
  closer,      \* the context inside the loop of close(), at most one
  pending,     \* the operation each coroutine is suspended in
  item,        \* the value its push() holds
  msg_error    \* TimeoutMessage::error of that operation

queues == <<data_queue, producer_queue, consumer_queue, closed>>
opVars == <<pending, item, msg_error>>
chanVars == <<coVars, queues, closer, opVars>>

ChanTypeOK ==
  /\ data_queue \in Seq(Vals)
  /\ producer_queue \in Seq(Cos) /\ consumer_queue \in Seq(Cos)
  /\ closed \in BOOLEAN
  /\ closer \in SUBSET (Cos \cup {Main})
  /\ pending \in [Cos -> {"none", "push", "pop"}]
  /\ item \in [Cos -> Vals \cup {"none"}]
  /\ msg_error \in [Cos -> BOOLEAN]

ChanInit ==
  /\ CoInit
  /\ data_queue = <<>> /\ producer_queue = <<>> /\ consumer_queue = <<>>
  /\ closed = FALSE
  /\ closer = {}
  /\ pending = [c \in Cos |-> "none"]
  /\ item = [c \in Cos |-> "none"]
  /\ msg_error = [c \in Cos |-> FALSE]

is_empty == Len(data_queue) = 0
is_full == Len(data_queue) = Capacity

(* The thread runs user code: also not the rest of a loop of close().      *)
ChanUserCode == UserCode /\ current \notin closer

(* pop_coroutine() of a waiter and its resume(), the last thing that       *)
(* push() and pop() do.                                                    *)
Wake(c) == waker' = "resume" /\ resume(c)

(* Mutant: the value goes to the wrong end of the queue.                   *)
push_data_Front(v) ==
  /\ data_queue' = <<v>> \o data_queue
  /\ IF consumer_queue # <<>>
     THEN consumer_queue' = Tail(consumer_queue) /\ Wake(Head(consumer_queue))
     ELSE waker' = "none" /\ UNCHANGED <<consumer_queue, swapVars>>
  /\ UNCHANGED <<producer_queue, closed>>

push_data(v) ==
  /\ data_queue' = Append(data_queue, v)
  /\ IF consumer_queue # <<>>
     THEN consumer_queue' = Tail(consumer_queue) /\ Wake(Head(consumer_queue))
     ELSE waker' = "none" /\ UNCHANGED <<consumer_queue, swapVars>>
  /\ UNCHANGED <<producer_queue, closed>>

(* Mutant: the waiting producers are not told that there is room.          *)
pop_data_NoNotify ==
  /\ data_queue' = Tail(data_queue)
  /\ waker' = "none"
  /\ UNCHANGED <<swapVars, producer_queue, consumer_queue, closed>>

pop_data ==
  /\ data_queue' = Tail(data_queue)
  /\ IF producer_queue # <<>>
     THEN producer_queue' = Tail(producer_queue) /\ Wake(Head(producer_queue))
     ELSE waker' = "none" /\ UNCHANGED <<producer_queue, swapVars>>
  /\ UNCHANGED <<consumer_queue, closed>>

(* Channel::yield(): the operation k of the running coroutine suspends.    *)
chan_yield(c, k, v, t) ==
  /\ BlockIn(c, "lib", t)
  /\ pending' = [pending EXCEPT ![c] = k]
  /\ item' = [item EXCEPT ![c] = v]
  /\ msg_error' = [msg_error EXCEPT ![c] = FALSE]
  /\ producer_queue' = IF k = "push" THEN Append(producer_queue, c) ELSE producer_queue
  /\ consumer_queue' = IF k = "pop" THEN Append(consumer_queue, c) ELSE consumer_queue
  /\ UNCHANGED <<data_queue, closed>>

-----------------------------------------------------------------------------
push(v, t) ==
  LET c == current IN
  /\ ChanUserCode
  /\ c \in Cos
  /\ \/ /\ closed
        /\ UNCHANGED <<swapVars, waitVars, queues, opVars>>
     \/ /\ ~closed
        /\ is_full \/ producer_queue # <<>>
        /\ chan_yield(c, "push", v, t)
     \/ /\ ~closed
        /\ ~is_full /\ producer_queue = <<>>
        /\ push_data(v)
        /\ UNCHANGED <<resume_code, cancel_fn, timer, call, opVars>>
  /\ UNCHANGED <<lists, on_bailout, closer>>

pop(t) ==
  LET c == current IN
  /\ ChanUserCode
  /\ c \in Cos
  /\ \/ /\ closed /\ is_empty
        /\ UNCHANGED <<swapVars, waitVars, queues, opVars>>
     \/ /\ ~(closed /\ is_empty)
        /\ is_empty \/ consumer_queue # <<>>
        /\ chan_yield(c, "pop", "none", t)
     \/ /\ ~is_empty /\ consumer_queue = <<>>
        /\ pop_data
        /\ UNCHANGED <<resume_code, cancel_fn, timer, call, opVars>>
  /\ UNCHANGED <<lists, on_bailout, closer>>

(* Mutant: the operation goes on after its timeout.                        *)
Verdict_NoTimeout(c, lost) ==
  IF resume_code[c] = "canceled" THEN "canceled"
  ELSE IF lost THEN "closed" ELSE "ok"

(* The checks push() and pop() make, in this order, when they run again;   *)
(* lost: the channel was closed and has nothing left for this operation.   *)
Verdict(c, lost) ==
  IF resume_code[c] = "canceled" THEN "canceled"
  ELSE IF msg_error[c] THEN "timeout"
  ELSE IF lost THEN "closed" ELSE "ok"

(* The tail of Channel::yield() and of the timer handling after it; the    *)
(* message and the argument live on the stack of push() and pop().         *)
Finish(c) ==
  /\ Unblock(c)
  /\ pending' = [pending EXCEPT ![c] = "none"]
  /\ item' = [item EXCEPT ![c] = "none"]
  /\ msg_error' = [msg_error EXCEPT ![c] = FALSE]
  /\ UNCHANGED <<lists, on_bailout, closer>>

GiveUp == waker' = "none" /\ UNCHANGED <<queues, swapVars>>

after_push ==
  /\ current \in Cos
  /\ pending[current] = "push"
  /\ Finish(current)
  /\ IF Verdict(current, closed) = "ok" THEN push_data(item[current]) ELSE GiveUp

after_pop ==
  /\ current \in Cos
  /\ pending[current] = "pop"
  /\ Finish(current)
  /\ IF Verdict(current, closed /\ is_empty) = "ok" THEN pop_data ELSE GiveUp

(* Mutant: the timer leaves the coroutine in its queue.                    *)
chan_timer_callback_StaysQueued(c) ==
  /\ call[c] = "lib"
  /\ Main \notin closer
  /\ FireTimer(c, resume_code[c])
  /\ msg_error' = [msg_error EXCEPT ![c] = TRUE]
  /\ UNCHANGED <<lists, on_bailout, queues, closer, pending, item>>

(* Mutant: the timer does not mark the message.                            *)
chan_timer_callback_NoError(c) ==
  /\ call[c] = "lib"
  /\ Main \notin closer
  /\ FireTimer(c, resume_code[c])
  /\ producer_queue' = Remove(producer_queue, c)
  /\ consumer_queue' = Remove(consumer_queue, c)
  /\ UNCHANGED <<lists, on_bailout, data_queue, closed, closer, opVars>>

(* Channel::timer_callback: the resume code stays, the message is marked.  *)
chan_timer_callback(c) ==
  /\ call[c] = "lib"
  /\ Main \notin closer
  /\ FireTimer(c, resume_code[c])
  /\ msg_error' = [msg_error EXCEPT ![c] = TRUE]
  /\ producer_queue' = Remove(producer_queue, c)
  /\ consumer_queue' = Remove(consumer_queue, c)
  /\ UNCHANGED <<lists, on_bailout, data_queue, closed, closer, pending, item>>

(* cancel() of a coroutine suspended in the channel.                       *)
chan_cancel(c) ==
  /\ call[c] = "lib"
  /\ current \notin closer
  /\ CancelWith(c)
  /\ producer_queue' = Remove(producer_queue, c)
  /\ consumer_queue' = Remove(consumer_queue, c)
  /\ UNCHANGED <<lists, on_bailout, data_queue, closed, closer, opVars>>

(* Channel::close(), from a coroutine or from the main stack.              *)
chan_close ==
  /\ ChanUserCode
  /\ ~closed
  /\ closed' = TRUE
  /\ closer' = {current}
  /\ UNCHANGED <<coVars, data_queue, producer_queue, consumer_queue, opVars>>

(* Mutant: the consumers that wait are forgotten.                          *)
close_loop_ProducersOnly ==
  /\ current \in closer
  /\ \/ /\ producer_queue # <<>>
        /\ producer_queue' = Tail(producer_queue)
        /\ Wake(Head(producer_queue))
        /\ UNCHANGED <<consumer_queue, closer>>
     \/ /\ producer_queue = <<>>
        /\ closer' = {}
        /\ waker' = "none"
        /\ UNCHANGED <<producer_queue, consumer_queue, swapVars>>
  /\ UNCHANGED <<resume_code, cancel_fn, timer, call, lists, on_bailout,
                 data_queue, closed, opVars>>

(* One turn of its loops: all producers, then all consumers.               *)
close_loop ==
  /\ current \in closer
  /\ \/ /\ producer_queue # <<>>
        /\ producer_queue' = Tail(producer_queue)
        /\ Wake(Head(producer_queue))
        /\ UNCHANGED <<consumer_queue, closer>>
     \/ /\ producer_queue = <<>> /\ consumer_queue # <<>>
        /\ consumer_queue' = Tail(consumer_queue)
        /\ Wake(Head(consumer_queue))
        /\ UNCHANGED <<producer_queue, closer>>
     \/ /\ producer_queue = <<>> /\ consumer_queue = <<>>
        /\ closer' = {}
        /\ waker' = "none"
        /\ UNCHANGED <<producer_queue, consumer_queue, swapVars>>
  /\ UNCHANGED <<resume_code, cancel_fn, timer, call, lists, on_bailout,
                 data_queue, closed, opVars>>

(* The rest of the program: coroutines start, end, suspend themselves and  *)
(* are resumed or canceled by others.                                      *)
ChanCoStep ==
  /\ current \notin closer
  /\ \/ yield \/ after_yield \/ close
     \/ \E c \in Cos : create(c) \/ resume_user(c) \/ cancel(c)
  /\ UNCHANGED <<queues, closer, opVars>>

ChanNext ==
  \/ ChanCoStep
  \/ \E t \in Timeouts : pop(t) \/ \E v \in Vals : push(v, t)
  \/ after_push \/ after_pop
  \/ \E c \in Cos : chan_timer_callback(c) \/ chan_cancel(c)
  \/ chan_close \/ close_loop

ChanFairness ==
  /\ WF_chanVars(after_push \/ after_pop \/ close_loop)
  /\ \A c \in Cos : SF_chanVars(chan_timer_callback(c))

ChanSpec == ChanInit /\ [][ChanNext]_chanVars /\ ChanFairness

-----------------------------------------------------------------------------
(* Properties.                                                             *)

(* No lost wake-up: whenever user code or the reactor runs, a producer     *)
(* waits only on a full channel and a consumer only on an empty one; and   *)
(* after the loop of close() no coroutine is suspended in the channel, and *)
(* none suspends there any more.                                           *)
NoLostWakeup ==
  /\ ~closed /\ (current \in Cos => pending[current] = "none") =>
       /\ producer_queue # <<>> => is_full
       /\ consumer_queue # <<>> => is_empty
  /\ closed /\ closer = {} => \A c \in Cos : pending[c] # "none" => current = c

(* A waiter that runs again learns what woke it: timeout only when its     *)
(* timer fired, canceled only when cancel() did; and one that goes on      *)
(* finds what it was resumed for: pop() never reads the front of an empty  *)
(* queue, push() never exceeds the capacity, however the resumes nest.     *)
VerdictMatchesWaker ==
  \A c \in Cos : current = c /\ pending[c] # "none" =>
    LET verdict == Verdict(c, closed /\ (pending[c] = "pop" => is_empty)) IN
    /\ verdict = "timeout" <=> waker = "timer"
    /\ verdict = "canceled" <=> waker = "cancel"
    /\ verdict = "ok" /\ pending[c] = "pop" => ~is_empty
    /\ verdict = "ok" /\ pending[c] = "push" => Len(data_queue) < Capacity

(* A coroutine is in a wait queue exactly while it is suspended in the     *)
(* operation the queue belongs to, and there only once (a canceled or      *)
(* timed out waiter leaves no entry a later push() or pop() would resume); *)
(* it waits only while it has to, and is told the truth about why it was   *)
(* woken.                                                                  *)
QueuesMatchWaits ==
  /\ ChanTypeOK /\ NoLostWakeup /\ VerdictMatchesWaker
  /\ \A c \in Cos :
       /\ Entries(producer_queue, c) # {} <=> pending[c] = "push" /\ current # c
       /\ Entries(consumer_queue, c) # {} <=> pending[c] = "pop" /\ current # c
       /\ \A i, j \in Entries(producer_queue, c) : i = j
       /\ \A i, j \in Entries(consumer_queue, c) : i = j

(* push(), pop() and close() take effect atomically and in FIFO order, and *)
(* fail only for the reasons the interface names.                          *)
Abstract == INSTANCE BoundedChannel WITH Procs <- Cos, q <- data_queue
ImplementsBoundedChannel == Abstract!Spec

=============================================================================
