------------------------------- MODULE Timer -------------------------------
(***************************************************************************)
(* The timers of a reactor: src/core/timer.cc on the heap of               *)
(* src/core/heap.cc, driven by the event loop, whose end callback calls    *)
(* select() and which then sleeps for at most timeout_msec.                *)
(*                                                                         *)
(* User code adds and removes timers while I/O is handled ("work"), inside *)
(* timer callbacks, and in the end callbacks that follow select()          *)
(* ("tail").  Time passes wherever user code runs and while the loop       *)
(* sleeps.                                                                 *)
(***************************************************************************)
EXTENDS HeapOps, Integers, FiniteSets

CONSTANTS MaxTimers,  \* how many timers are ever added
          Msecs,      \* the delays and intervals in use
          MaxTime

ASSUME TimerAssumption == MaxTimers \in Nat /\ MaxTime \in Nat /\ Msecs \subseteq Nat \ {0}

NoTimer == -1

VARIABLES
  now,
  pc,           \* "work", "select", "callback", "tail", "sleep"
  heap, node,   \* the heap of ids; the nodes in the map, by id
  next_id, current_id,
  select_now,   \* now_msec of the last select()
  next_msec, timeout_msec,
  wake_at,      \* when the sleep ends, -1: never
  gone,         \* history: ids for which remove() returned true
  fired         \* history: ids whose callbacks ran in this select()

timerVars == <<now, pc, heap, node, next_id, current_id, select_now, next_msec,
               timeout_msec, wake_at, gone, fired>>

Ids == 1..MaxTimers
Exec == [i \in DOMAIN node |-> node[i].exec_msec]

TimerTypeOK ==
  /\ now \in 0..MaxTime /\ select_now \in 0..now
  /\ pc \in {"work", "select", "callback", "tail", "sleep"}
  /\ DOMAIN node \subseteq Ids
  /\ \A i \in DOMAIN node : node[i] \in [exec_msec : Nat, interval : Msecs \cup {0},
                                         fresh : BOOLEAN, removed : BOOLEAN]
  /\ next_id \in 1..(MaxTimers + 1)
  /\ current_id \in Ids \cup {NoTimer}
  /\ next_msec \in Nat \cup {-1} /\ timeout_msec \in Nat \cup {-1} /\ wake_at \in Nat \cup {-1}
  /\ gone \subseteq Ids /\ fired \subseteq Ids

TimerInit ==
  /\ now = 0 /\ pc = "work"
  /\ heap = <<>> /\ node = <<>>
  /\ next_id = 1 /\ current_id = NoTimer
  /\ select_now = 0
  /\ next_msec = -1 /\ timeout_msec = -1 /\ wake_at = -1
  /\ gone = {} /\ fired = {}

UserCode == pc \in {"work", "callback", "tail"}
Without(i) == [j \in DOMAIN node \ {i} |-> node[j]]

-----------------------------------------------------------------------------
(* Timer::add.                                                             *)
add(ms, persistent) ==
  /\ UserCode /\ next_id <= MaxTimers
  /\ LET n == [exec_msec |-> now + ms, interval |-> IF persistent THEN ms ELSE 0,
               fresh |-> TRUE, removed |-> FALSE]
         added == [j \in DOMAIN node \cup {next_id} |-> IF j = next_id THEN n ELSE node[j]]
     IN /\ node' = added
        /\ heap' = heap_push(heap, [j \in DOMAIN added |-> added[j].exec_msec], next_id)
  /\ IF next_msec < 0 \/ next_msec > ms
     THEN next_msec' = ms /\ timeout_msec' = ms
     ELSE UNCHANGED <<next_msec, timeout_msec>>
  /\ next_id' = next_id + 1
  /\ UNCHANGED <<now, pc, current_id, select_now, wake_at, gone, fired>>

(* Mutant: the running timer is not spared.                                *)
remove_Current(i) ==
  /\ UserCode
  /\ i \in DOMAIN node /\ ~node[i].removed
  /\ gone' = gone \cup {i}
  /\ node' = Without(i)
  /\ heap' = heap_remove(heap, Exec, i)
  /\ UNCHANGED <<now, pc, next_id, current_id, select_now, next_msec, timeout_msec,
                 wake_at, fired>>

(* Timer::remove: the timer whose callback runs is only marked.            *)
remove(i) ==
  /\ UserCode
  /\ i \in DOMAIN node /\ ~node[i].removed
  /\ gone' = gone \cup {i}
  /\ IF i = current_id
     THEN node' = [node EXCEPT ![i].removed = TRUE] /\ UNCHANGED heap
     ELSE node' = Without(i) /\ heap' = heap_remove(heap, Exec, i)
  /\ UNCHANGED <<now, pc, next_id, current_id, select_now, next_msec, timeout_msec,
                 wake_at, fired>>

-----------------------------------------------------------------------------
(* Timer::select, the end callback of the loop.                            *)
select ==
  /\ pc = "work"
  /\ pc' = "select"
  /\ select_now' = now
  /\ fired' = {}
  /\ UNCHANGED <<now, heap, node, next_id, current_id, next_msec, timeout_msec, wake_at,
                 gone>>

Due == /\ heap # <<>>
       /\ node[heap[1]].exec_msec <= select_now
       /\ ~node[heap[1]].fresh

call_back ==
  /\ pc = "select" /\ Due
  /\ current_id' = heap[1]
  /\ fired' = fired \cup {heap[1]}
  /\ pc' = "callback"
  /\ UNCHANGED <<now, heap, node, next_id, select_now, next_msec, timeout_msec, wake_at,
                 gone>>

(* The next multiple of the interval after select_now.                     *)
NextExec(n) ==
  n.exec_msec + n.interval * ((select_now - n.exec_msec) \div n.interval + 1)

(* Mutant: a removed persistent timer is scheduled again.                  *)
callback_returns_Again ==
  /\ pc = "callback"
  /\ LET n == node[current_id] IN
       IF n.interval > 0
       THEN /\ node' = [node EXCEPT ![current_id] =
                          [n EXCEPT !.exec_msec = NextExec(n), !.removed = FALSE]]
            /\ heap' = change_priority(heap, [Exec EXCEPT ![current_id] = NextExec(n)],
                                       current_id, n.exec_msec)
       ELSE /\ heap' = heap_pop(heap, Exec)
            /\ node' = Without(current_id)
  /\ current_id' = NoTimer
  /\ pc' = "select"
  /\ UNCHANGED <<now, next_id, select_now, next_msec, timeout_msec, wake_at, gone, fired>>

(* Mutant: one interval is added however late the timer is.                *)
callback_returns_NoCatchUp ==
  /\ pc = "callback"
  /\ LET n == node[current_id]
         later == n.exec_msec + n.interval
     IN IF n.interval > 0 /\ ~n.removed
        THEN /\ node' = [node EXCEPT ![current_id].exec_msec = later]
             /\ heap' = change_priority(heap, [Exec EXCEPT ![current_id] = later],
                                        current_id, n.exec_msec)
        ELSE /\ heap' = heap_pop(heap, Exec)
             /\ node' = Without(current_id)
  /\ current_id' = NoTimer
  /\ pc' = "select"
  /\ UNCHANGED <<now, next_id, select_now, next_msec, timeout_msec, wake_at, gone, fired>>

(* After the callback: a persistent timer is scheduled again, any other    *)
(* is deleted; the heap drops its top.                                     *)
callback_returns ==
  /\ pc = "callback"
  /\ LET n == node[current_id] IN
       IF n.interval > 0 /\ ~n.removed
       THEN /\ node' = [node EXCEPT ![current_id].exec_msec = NextExec(n)]
            /\ heap' = change_priority(heap, [Exec EXCEPT ![current_id] = NextExec(n)],
                                       current_id, n.exec_msec)
       ELSE /\ heap' = heap_pop(heap, Exec)
            /\ node' = Without(current_id)
  /\ current_id' = NoTimer
  /\ pc' = "select"
  /\ UNCHANGED <<now, next_id, select_now, next_msec, timeout_msec, wake_at, gone, fired>>

(* round is only compared for equality: "fresh" says that a node has the   *)
(* current round.                                                          *)
NextRound == node' = [i \in DOMAIN node |-> [node[i] EXCEPT !.fresh = FALSE]]

(* Mutant: a timer that is already due ends the sleep only by I/O.         *)
select_returns_NoMinimum ==
  /\ pc = "select" /\ ~Due
  /\ next_msec' = IF heap = <<>> THEN -1 ELSE node[heap[1]].exec_msec - select_now
  /\ timeout_msec' = IF next_msec' <= 0 THEN -1 ELSE next_msec'
  /\ NextRound
  /\ pc' = "tail"
  /\ UNCHANGED <<now, heap, next_id, current_id, select_now, wake_at, gone, fired>>

(* Nothing more is due: the sleep is set to the earliest timer.            *)
select_returns ==
  /\ pc = "select" /\ ~Due
  /\ LET ms == IF heap = <<>> THEN -1
               ELSE IF node[heap[1]].exec_msec - select_now <= 0 THEN 1
               ELSE node[heap[1]].exec_msec - select_now
     IN next_msec' = ms /\ timeout_msec' = ms
  /\ NextRound
  /\ pc' = "tail"
  /\ UNCHANGED <<now, heap, next_id, current_id, select_now, wake_at, gone, fired>>

-----------------------------------------------------------------------------
(* The loop around it.                                                     *)
sleep ==
  /\ pc = "tail"
  /\ pc' = "sleep"
  /\ wake_at' = IF timeout_msec < 0 THEN -1 ELSE now + timeout_msec
  /\ UNCHANGED <<now, heap, node, next_id, current_id, select_now, next_msec,
                 timeout_msec, gone, fired>>

(* epoll_wait returns: I/O, or the time is over.                           *)
wakes ==
  /\ pc = "sleep"
  /\ pc' = "work"
  /\ wake_at' = -1
  /\ UNCHANGED <<now, heap, node, next_id, current_id, select_now, next_msec,
                 timeout_msec, gone, fired>>

time_passes ==
  /\ pc # "select" /\ (pc = "sleep" /\ wake_at >= 0 => now < wake_at)
  /\ now < MaxTime
  /\ now' = now + 1
  /\ UNCHANGED <<pc, heap, node, next_id, current_id, select_now, next_msec,
                 timeout_msec, wake_at, gone, fired>>

TimerNext ==
  \/ \E ms \in Msecs, persistent \in BOOLEAN : add(ms, persistent)
  \/ \E i \in Ids : remove(i)
  \/ select \/ call_back \/ callback_returns \/ select_returns
  \/ sleep \/ wakes \/ time_passes

TimerSpec == TimerInit /\ [][TimerNext]_timerVars

-----------------------------------------------------------------------------
(* Properties.                                                             *)

(* The loop never sleeps past its earliest timer by more than the time     *)
(* since select() looked at the clock (and the minimum of 1 ms).           *)
Later(a, b) == IF a > b THEN a ELSE b
WakesInTime ==
  pc = "sleep" /\ heap # <<>> =>
    /\ wake_at >= 0
    /\ LET start == wake_at - timeout_msec
       IN wake_at <= Later(node[heap[1]].exec_msec, start + 1) + (start - select_now)

(* The heap is ordered and holds exactly the timers of the map, each once, *)
(* whatever is added and removed inside callbacks: count() is an exit      *)
(* condition of the loop.  The timer whose callback runs stays on top,     *)
(* also among timers of equal time: pop() after the callback drops it.     *)
(* The loop wakes in time for the first.                                   *)
HeapMatchesMap ==
  /\ TimerTypeOK /\ WakesInTime
  /\ IsHeap(heap, Exec)
  /\ {heap[k] : k \in DOMAIN heap} = DOMAIN node
  /\ Len(heap) = Cardinality(DOMAIN node)
  /\ pc = "callback" => heap # <<>> /\ heap[1] = current_id

(* A select() runs each callback at most once, however late it is, none of *)
(* a timer added meanwhile (so it ends), and none of a timer for which     *)
(* remove() returned true.                                                 *)
OncePerSelect ==
  [][pc' = "callback" /\ pc # "callback" =>
       /\ current_id' \notin fired \cup gone
       /\ ~node[current_id'].fresh]_timerVars

=============================================================================
