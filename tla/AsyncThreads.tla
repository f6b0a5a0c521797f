---------------------------- MODULE AsyncThreads ----------------------------
(***************************************************************************)
(* The AIO thread pool of src/os/async_thread.cc: ThreadPool and           *)
(* AsyncThreads.  The reactor thread pushes events into a queue guarded by *)
(* event_mutex and a condition variable; worker threads pop them, run      *)
(* their handlers and send the finished events back through a pipe, which  *)
(* the reactor thread reads in batches.  Core threads live as long as the  *)
(* pool; extra threads are created when events wait too long and retire    *)
(* after an idle time by sending an event about themselves.                *)
(*                                                                         *)
(* A step of a thread is what it does between two points where others can  *)
(* observe it: a critical section of event_mutex, an access to the pipe,   *)
(* or the unguarded read of "running".  A thread whose wait_for() timed    *)
(* out is no longer a waiter although it does not own the mutex yet.       *)
(***************************************************************************)
EXTENDS Naturals, Sequences, FiniteSets

CONSTANTS Events,     \* the requests, each dispatched at most once
          Cores,      \* core threads
          Extras,     \* the other threads that may be created
          WorkerNum,  \* worker_num, the bound on threads
          PipeCap,    \* how many events the pipe holds
          BatchSize,  \* OSW_AIO_EVENT_NUM
          NoEvent

Threads == Cores \cup Extras

ASSUME PoolAssumption ==
  /\ Cores # {} /\ Cores \cap Extras = {}
  /\ Events \cap Threads = {} /\ NoEvent \notin Events \cup Threads
  /\ IsFiniteSet(Threads) /\ IsFiniteSet(Events)
  /\ WorkerNum \in Nat /\ WorkerNum >= Cardinality(Cores)
  /\ PipeCap \in Nat \ {0} /\ BatchSize \in Nat \ {0}

VARIABLES
  running,
  queue,      \* _queue
  pc,         \* where each thread is
  hand,       \* the event a thread holds; itself: the event that retires it
  n_waiting,
  n_closing,
  threads,    \* the map of threads, owned by the reactor thread
  pipe,       \* events written and not yet read
  batch,      \* events read by AsyncThreads::callback and not yet deleted
  in_callback,\* the callback of the first of them is running
  task_num,
  main,       \* the reactor thread: "loop", "joining" in shutdown(), "down"
  issued,     \* history: dispatched requests
  canceled,   \* requests whose caller gave up
  answered,   \* history: requests whose callback ran
  freed       \* history: deleted requests

poolVars == <<running, queue, n_waiting, n_closing>>
threadVars == <<pc, hand>>
mainVars == <<threads, batch, in_callback, task_num, main, issued, canceled, answered, freed>>
asyncVars == <<poolVars, threadVars, pipe, mainVars>>

PCs == {"none", "top", "pop", "handle", "send", "idle", "wait", "expired",
        "notified", "closing", "exited"}

AsyncTypeOK ==
  /\ running \in BOOLEAN
  /\ queue \in Seq(Events)
  /\ pc \in [Threads -> PCs]
  /\ hand \in [Threads -> Events \cup Threads \cup {NoEvent}]
  /\ n_waiting \in Nat /\ n_closing \in Nat
  /\ threads \in SUBSET Threads
  /\ pipe \in Seq(Events \cup Threads) /\ batch \in Seq(Events \cup Threads)
  /\ in_callback \in BOOLEAN
  /\ task_num \in Nat
  /\ main \in {"loop", "joining", "down"}
  /\ issued \in SUBSET Events /\ canceled \in SUBSET Events
  /\ answered \in SUBSET Events /\ freed \in SUBSET Events

(* AsyncThreads::AsyncThreads and ThreadPool::start.                       *)
AsyncInit ==
  /\ running = TRUE
  /\ queue = <<>> /\ pipe = <<>> /\ batch = <<>>
  /\ pc = [t \in Threads |-> IF t \in Cores THEN "top" ELSE "none"]
  /\ hand = [t \in Threads |-> NoEvent]
  /\ n_waiting = 0 /\ n_closing = 0 /\ task_num = 0
  /\ threads = Cores
  /\ in_callback = FALSE
  /\ main = "loop"
  /\ issued = {} /\ canceled = {} /\ answered = {} /\ freed = {}

Waiters == {t \in Threads : pc[t] = "wait"}

-----------------------------------------------------------------------------
(* The worker threads: ThreadPool::create_thread.                          *)

GoTo(t, where) == pc' = [pc EXCEPT ![t] = where]

while_running(t) ==
  /\ pc[t] = "top"
  /\ GoTo(t, IF running THEN "pop" ELSE "exited")
  /\ UNCHANGED <<hand, poolVars, pipe, mainVars>>

(* Mutant: the event is read and stays in the queue.                       *)
pop_Peek(t) ==
  /\ pc[t] = "pop"
  /\ IF queue = <<>>
     THEN GoTo(t, "idle") /\ UNCHANGED hand
     ELSE GoTo(t, "handle") /\ hand' = [hand EXCEPT ![t] = Head(queue)]
  /\ UNCHANGED <<poolVars, pipe, mainVars>>

pop(t) ==
  /\ pc[t] = "pop"
  /\ IF queue = <<>>
     THEN GoTo(t, "idle") /\ UNCHANGED <<queue, hand>>
     ELSE /\ GoTo(t, "handle")
          /\ hand' = [hand EXCEPT ![t] = Head(queue)]
          /\ queue' = Tail(queue)
  /\ UNCHANGED <<running, n_waiting, n_closing, pipe, mainVars>>

(* The handler, or the error of a canceled event: what is left behind in   *)
(* the event is data of its own.                                           *)
handler(t) ==
  /\ pc[t] = "handle"
  /\ GoTo(t, "send")
  /\ UNCHANGED <<hand, poolVars, pipe, mainVars>>

(* A full pipe is waited for and written again.                            *)
send_event(t) ==
  /\ pc[t] = "send"
  /\ Len(pipe) < PipeCap
  /\ pipe' = Append(pipe, hand[t])
  /\ hand' = [hand EXCEPT ![t] = NoEvent]
  /\ GoTo(t, IF hand[t] = t THEN "closing" ELSE "top")
  /\ UNCHANGED <<poolVars, mainVars>>

exit_thread(t) ==
  /\ pc[t] = "closing"
  /\ n_closing' = n_closing - 1
  /\ GoTo(t, "exited")
  /\ UNCHANGED <<running, queue, n_waiting, hand, pipe, mainVars>>

(* Mutant: the queue is not looked at again under the mutex.               *)
wait_NoRecheck(t) ==
  /\ pc[t] = "idle"
  /\ IF ~running
     THEN GoTo(t, "exited") /\ UNCHANGED n_waiting
     ELSE GoTo(t, "wait") /\ n_waiting' = n_waiting + 1
  /\ UNCHANGED <<running, queue, n_closing, hand, pipe, mainVars>>

(* No event was found: look again under the mutex, then wait.              *)
wait(t) ==
  /\ pc[t] = "idle"
  /\ IF queue # <<>> THEN GoTo(t, "top") /\ UNCHANGED n_waiting
     ELSE IF ~running THEN GoTo(t, "exited") /\ UNCHANGED n_waiting
     ELSE GoTo(t, "wait") /\ n_waiting' = n_waiting + 1
  /\ UNCHANGED <<running, queue, n_closing, hand, pipe, mainVars>>

spurious_wakeup(t) ==
  /\ pc[t] = "wait"
  /\ GoTo(t, "notified")
  /\ UNCHANGED <<hand, poolVars, pipe, mainVars>>

wait_returns(t) ==
  /\ pc[t] = "notified"
  /\ n_waiting' = n_waiting - 1
  /\ GoTo(t, "top")
  /\ UNCHANGED <<running, queue, n_closing, hand, pipe, mainVars>>

(* The idle time of an extra thread is over.                               *)
wait_for_expires(t) ==
  /\ t \in Extras
  /\ pc[t] = "wait"
  /\ GoTo(t, "expired")
  /\ UNCHANGED <<hand, poolVars, pipe, mainVars>>

(* Mutant: several threads retire at the same time.                        *)
wait_for_returns_NoRound(t) ==
  /\ pc[t] = "expired"
  /\ GoTo(t, "send")
  /\ hand' = [hand EXCEPT ![t] = t]
  /\ n_waiting' = n_waiting - 1
  /\ n_closing' = n_closing + 1
  /\ UNCHANGED <<running, queue, pipe, mainVars>>

(* wait_for() returns "timeout" with the mutex: retire, one at a time.     *)
wait_for_returns(t) ==
  /\ pc[t] = "expired"
  /\ IF running /\ n_closing # 0
     THEN GoTo(t, "wait") /\ UNCHANGED <<hand, n_waiting, n_closing>>
     ELSE /\ GoTo(t, "send")
          /\ hand' = [hand EXCEPT ![t] = t]
          /\ n_waiting' = n_waiting - 1
          /\ n_closing' = n_closing + 1
  /\ UNCHANGED <<running, queue, pipe, mainVars>>

-----------------------------------------------------------------------------
(* The reactor thread.                                                     *)

(* The sets of threads schedule() may leave: one more thread when nobody   *)
(* waits for work and the first event has been queued for too long (time   *)
(* is abstracted to a choice).                                             *)
schedule ==
  {threads} \cup
  {threads \cup {t} : t \in {x \in Extras \ threads :
     n_waiting = 0 /\ Cardinality(threads) < WorkerNum /\ queue # <<>>}}

Started(ts, awake) ==
  pc' = [t \in Threads |-> IF t \in ts \ threads THEN "top"
                           ELSE IF t \in awake THEN "notified" ELSE pc[t]]

(* async::dispatch and ThreadPool::dispatch, from a coroutine: in the loop *)
(* or inside the callback of another event.                                *)
dispatch(e) ==
  /\ main = "loop"
  /\ batch # <<>> => in_callback
  /\ e \notin issued
  /\ issued' = issued \cup {e}
  /\ queue' = Append(queue, e)
  /\ task_num' = task_num + 1
  /\ \E ts \in schedule, awake \in {{t} : t \in Waiters} \cup {{}} :
       /\ Waiters # {} => awake # {}
       /\ threads' = ts
       /\ Started(ts, awake)
  /\ UNCHANGED <<running, n_waiting, n_closing, hand, pipe, batch, in_callback, main,
                 canceled, answered, freed>>

(* The caller times out or is canceled: coroutine::async marks the event.  *)
cancel_event(e) ==
  /\ main = "loop"
  /\ batch # <<>> => in_callback
  /\ e \in issued \ (answered \cup canceled)
  /\ canceled' = canceled \cup {e}
  /\ UNCHANGED <<poolVars, threadVars, pipe, threads, batch, in_callback, task_num, main,
                 issued, answered, freed>>

(* AsyncThreads::callback reads what is in the pipe.                       *)
read_events ==
  /\ main = "loop"
  /\ batch = <<>> /\ pipe # <<>>
  /\ LET n == IF Len(pipe) < BatchSize THEN Len(pipe) ELSE BatchSize IN
       /\ batch' = SubSeq(pipe, 1, n)
       /\ pipe' = SubSeq(pipe, n + 1, Len(pipe))
  /\ \E ts \in schedule : threads' = ts /\ Started(ts, {})
  /\ UNCHANGED <<poolVars, hand, in_callback, task_num, main, issued, canceled, answered, freed>>

call_back ==
  /\ main = "loop"
  /\ batch # <<>> /\ ~in_callback
  /\ Head(batch) \in Events \ canceled
  /\ in_callback' = TRUE
  /\ answered' = answered \cup {Head(batch)}
  /\ UNCHANGED <<poolVars, threadVars, pipe, threads, batch, task_num, main, issued,
                 canceled, freed>>

(* Mutant: an event may be deleted before its callback ran.                *)
delete_event_Unreported ==
  /\ main = "loop"
  /\ batch # <<>> /\ Head(batch) \in Events
  /\ task_num' = task_num - 1
  /\ freed' = freed \cup {Head(batch)}
  /\ batch' = Tail(batch)
  /\ in_callback' = FALSE
  /\ UNCHANGED <<poolVars, threadVars, pipe, threads, main, issued, canceled, answered>>

(* The event is deleted after its callback, or without one when canceled.  *)
delete_event ==
  /\ main = "loop"
  /\ batch # <<>> /\ Head(batch) \in Events
  /\ in_callback \/ Head(batch) \in canceled
  /\ task_num' = task_num - 1
  /\ freed' = freed \cup {Head(batch)}
  /\ batch' = Tail(batch)
  /\ in_callback' = FALSE
  /\ UNCHANGED <<poolVars, threadVars, pipe, threads, main, issued, canceled, answered>>

(* Mutant: task_num is not balanced for an event nobody dispatched.        *)
release_callback_Unbalanced ==
  /\ main = "loop"
  /\ batch # <<>> /\ Head(batch) \in Threads
  /\ LET t == Head(batch) IN
       /\ pc[t] = "exited"
       /\ threads' = threads \ {t}
       /\ GoTo(t, "none")
  /\ batch' = Tail(batch)
  /\ task_num' = task_num - 1
  /\ UNCHANGED <<poolVars, hand, pipe, in_callback, main, issued, canceled, answered, freed>>

(* release_callback: joins the thread and forgets it; task_num goes up and *)
(* down again.                                                             *)
release_callback ==
  /\ main = "loop"
  /\ batch # <<>> /\ Head(batch) \in Threads
  /\ LET t == Head(batch) IN
       /\ pc[t] = "exited"
       /\ threads' = threads \ {t}
       /\ GoTo(t, "none")
  /\ batch' = Tail(batch)
  /\ UNCHANGED <<poolVars, hand, pipe, in_callback, task_num, main, issued, canceled,
                 answered, freed>>

(* Mutant: the threads that wait are not told.                             *)
shutdown_NoNotify ==
  /\ main = "loop" /\ batch = <<>>
  /\ running' = FALSE
  /\ main' = "joining"
  /\ UNCHANGED <<pc, queue, n_waiting, n_closing, hand, pipe, threads, batch, in_callback,
                 task_num, issued, canceled, answered, freed>>

(* The reactor is destroyed: ThreadPool::shutdown up to the joins.         *)
shutdown ==
  /\ main = "loop" /\ batch = <<>>
  /\ running' = FALSE
  /\ pc' = [t \in Threads |-> IF t \in Waiters THEN "notified" ELSE pc[t]]
  /\ main' = "joining"
  /\ UNCHANGED <<queue, n_waiting, n_closing, hand, pipe, threads, batch, in_callback,
                 task_num, issued, canceled, answered, freed>>

join_all ==
  /\ main = "joining"
  /\ \A t \in threads : pc[t] = "exited"
  /\ main' = "down"
  /\ UNCHANGED <<poolVars, threadVars, pipe, threads, batch, in_callback, task_num, issued,
                 canceled, answered, freed>>

-----------------------------------------------------------------------------
ThreadStep(t) ==
  \/ while_running(t) \/ pop(t) \/ handler(t) \/ send_event(t) \/ exit_thread(t)
  \/ wait(t) \/ wait_returns(t) \/ wait_for_returns(t)

MainStep == read_events \/ call_back \/ delete_event \/ release_callback \/ join_all

AsyncNext ==
  \/ \E t \in Threads : ThreadStep(t) \/ spurious_wakeup(t) \/ wait_for_expires(t)
  \/ \E e \in Events : dispatch(e) \/ cancel_event(e)
  \/ MainStep \/ shutdown

(* Threads that can run do run and handlers return; nothing forces an idle *)
(* time to end, a spurious wake-up, a dispatch or the shutdown.            *)
AsyncFairness ==
  /\ \A t \in Threads : WF_asyncVars(ThreadStep(t))
  /\ WF_asyncVars(MainStep)

AsyncSpec == AsyncInit /\ [][AsyncNext]_asyncVars /\ AsyncFairness

-----------------------------------------------------------------------------
(* Properties.                                                             *)

(* An event in the queue is never left to threads that all sleep: some     *)
(* thread is on its way to the queue, whatever retires or wakes meanwhile. *)
Active(t) ==
  /\ pc[t] \in {"top", "pop", "handle", "send", "idle", "notified"}
  /\ hand[t] # t
NoSleepingQueue == running /\ queue # <<>> => \E t \in Threads : Active(t)

(* task_num, the exit condition of the event loop, counts exactly the      *)
(* requests that were not reported yet; n_waiting, which decides whether a *)
(* thread is created, the threads inside wait(); at most one thread        *)
(* retires at a time.                                                      *)
CountersExact ==
  /\ task_num = Cardinality(issued \ freed)
  /\ n_waiting = Cardinality({t \in Threads : pc[t] \in {"wait", "expired", "notified"}})
  /\ n_closing = Cardinality({t \in Threads : hand[t] = t \/ pc[t] = "closing"})
  /\ running => n_closing <= 1

(* Every request lives in exactly one place until it is deleted, which is  *)
(* not before its caller was answered or gave up (coroutine::async writes  *)
(* to it after a timeout or a cancel); the event that retires a thread     *)
(* reaches the reactor once, while the thread is still in the map ("AIO    *)
(* thread is missing" cannot happen); and the counters agree with it.      *)
Count(s, x) == Cardinality({i \in DOMAIN s : s[i] = x})
Homes(x) == Count(queue, x) + Count(pipe, x) + Count(batch, x)
              + Cardinality({t \in Threads : hand[t] = x})
OneHome ==
  /\ AsyncTypeOK /\ CountersExact
  /\ \A e \in Events : Homes(e) = IF e \in issued \ freed THEN 1 ELSE 0
  /\ \A t \in Threads : Homes(t) > 0 =>
       Homes(t) = 1 /\ t \in threads /\ pc[t] \in {"send", "closing", "exited"}
  /\ freed \subseteq answered \cup canceled

(* Every request is reported and deleted, unless the pool is shut down.    *)
EventuallyFreed == \A e \in Events : e \in issued ~> e \in freed \/ ~running

(* The destructor returns: no thread sleeps through the shutdown.  Nobody  *)
(* reads the pipe any more, so it must have room for what each thread may  *)
(* still send; a thread that finds it full waits for ever.                 *)
RoomToExit == Len(pipe) + Cardinality(threads) <= PipeCap
ShutdownEnds == main = "joining" /\ RoomToExit ~> main = "down"

=============================================================================
