------------------------------ MODULE Manager ------------------------------
(***************************************************************************)
(* The manager process of a server in process mode, src/server/manager.cc: *)
(* it spawns the worker processes, reaps and replaces them, reloads them   *)
(* on SIGUSR1 (all) and SIGUSR2 (task workers), replaces workers that      *)
(* announce their end through the message box, force-kills those that do   *)
(* not end, and stops everything on SIGTERM.                               *)
(*                                                                         *)
(* Signal handlers run between any two steps of the manager.  A signal     *)
(* that finds the manager in wait() makes wait() return EINTR; one that    *)
(* comes between the test of "running" and wait() only sets its flag.      *)
(* Process ids are numbers in the order of creation and are not reused.    *)
(***************************************************************************)
EXTENDS Naturals, Sequences, FiniteSets

CONSTANTS WorkerNum, TaskWorkerNum, UserWorkerNum,
          ReloadAsyncs,   \* the values of reload_async to look at
          TaskCoroutines, \* and of task_enable_coroutine
          MaxWaitTime,    \* max_wait_time is not 0
          MaxOutside, MaxForkFails  \* bounds on what happens from outside

ASSUME ManagerAssumption ==
  /\ WorkerNum \in Nat \ {0} /\ TaskWorkerNum \in Nat /\ UserWorkerNum \in Nat
  /\ ReloadAsyncs \subseteq BOOLEAN /\ TaskCoroutines \subseteq BOOLEAN /\ MaxWaitTime \in BOOLEAN
  /\ {MaxOutside, MaxForkFails} \subseteq Nat

EventSlots == 1..WorkerNum
TaskSlots == (WorkerNum + 1)..(WorkerNum + TaskWorkerNum)
UserSlots == (WorkerNum + TaskWorkerNum + 1)..(WorkerNum + TaskWorkerNum + UserWorkerNum)
Slots == EventSlots \cup TaskSlots \cup UserSlots

NoPid == 0

VARIABLES
  reload_async, \* settings: event workers leave on their own,
  task_enable_coroutine, \* task workers run an event loop
  pc,           \* where the manager is
  exit_status,  \* what wait_process() returned: a pid, or NoPid for EINTR
  running, reloading, reload_all_worker, reload_task_worker, reload_init, read_message,
  signal_alarm,
  reload_worker_i, reload_worker_num, reload_worker_pid, reload_workers,
  killers,      \* pending timeout killers, oldest first: sets of pids
  alarm_hooked, \* the system timer exists or existed: SIGALRM is its signal
  alarm_armed,  \* alarm() of the stop phase is running
  pid,          \* the pid each worker record holds
  procs,        \* by pid: the slot it was created for and its state
  message_box,  \* slots whose workers announced their end
  told,         \* history: pids a reload sent SIGTERM to
  failed,       \* history: slots whose fork failed
  outside, fork_fails   \* what happened from outside so far

settingVars == <<reload_async, task_enable_coroutine>>
flagVars == <<running, reloading, reload_all_worker, reload_task_worker, reload_init,
              read_message, signal_alarm>>
reloadVars == <<reload_worker_i, reload_worker_num, reload_worker_pid, reload_workers, told>>
timerVars == <<killers, alarm_hooked, alarm_armed>>
workerVars == <<pid, procs, message_box, failed>>
boundVars == <<outside, fork_fails>>
managerVars == <<pc, exit_status, flagVars, reloadVars, timerVars, workerVars, boundVars>>

Pids == 1..Len(procs)
Alive(p) == procs[p].st \notin {"zombie", "reaped"}

ManagerTypeOK ==
  /\ pc \in {"enter", "wait", "read", "clear", "select", "handle", "kill",
             "exit", "wait_event", "wait_task", "wait_user", "stopped"}
  /\ procs \in Seq([slot : Slots, st : {"run", "term", "pushed", "leaving", "zombie", "reaped"}])
  /\ pid \in [Slots -> Pids]
  /\ exit_status \in Pids \cup {NoPid} /\ reload_worker_pid \in Pids \cup {NoPid}
  /\ {running, reloading, reload_all_worker, reload_task_worker, reload_init, read_message,
      signal_alarm, alarm_hooked, alarm_armed} \subseteq BOOLEAN
  /\ reload_workers \in Seq(Pids) /\ reload_worker_num \in 0..Len(reload_workers)
  /\ reload_worker_i \in 0..reload_worker_num
  /\ killers \in Seq(SUBSET Pids)
  /\ message_box \in Seq(Slots)
  /\ told \subseteq Pids /\ failed \subseteq Slots
  /\ outside \in 0..MaxOutside /\ fork_fails \in 0..MaxForkFails

(* start_manager_process has spawned all workers.                          *)
ManagerInit ==
  /\ reload_async \in ReloadAsyncs /\ task_enable_coroutine \in TaskCoroutines
  /\ pc = "enter" /\ exit_status = NoPid
  /\ running = TRUE
  /\ reloading = FALSE /\ reload_all_worker = FALSE /\ reload_task_worker = FALSE
  /\ reload_init = FALSE /\ read_message = FALSE /\ signal_alarm = FALSE
  /\ reload_worker_i = 0 /\ reload_worker_num = 0 /\ reload_worker_pid = NoPid
  /\ reload_workers = <<>>
  /\ killers = <<>> /\ alarm_hooked = FALSE /\ alarm_armed = FALSE
  /\ pid = [s \in Slots |-> s]
  /\ procs = [p \in Slots |-> [slot |-> p, st |-> "run"]]
  /\ message_box = <<>>
  /\ told = {} /\ failed = {}
  /\ outside = 0 /\ fork_fails = 0

-----------------------------------------------------------------------------
(* Sending signals to workers.  Only the first SIGTERM makes a worker      *)
(* leave; SIGKILL ends it.                                                 *)
Term(ps, P) == [p \in 1..Len(ps) |->
                  IF p \in P /\ ps[p].st = "run" THEN [ps[p] EXCEPT !.st = "term"] ELSE ps[p]]
Kill(ps, P) == [p \in 1..Len(ps) |->
                  IF p \in P /\ ps[p].st # "reaped" THEN [ps[p] EXCEPT !.st = "zombie"]
                  ELSE ps[p]]
Reap(ps, P) == [p \in 1..Len(ps) |-> IF p \in P THEN [ps[p] EXCEPT !.st = "reaped"] ELSE ps[p]]

(* spawn_event_worker, ProcessPool::spawn or spawn_user_worker for slot s; *)
(* a failed fork() leaves the old pid in the record.                       *)
Spawned(s, ps) ==
  /\ procs' = Append(ps, [slot |-> s, st |-> "run"])
  /\ pid' = [pid EXCEPT ![s] = Len(ps) + 1]
  /\ failed' = failed \ {s}
  /\ UNCHANGED fork_fails
ForkFailed(s, n) ==
  /\ fork_fails + n <= MaxForkFails
  /\ fork_fails' = fork_fails + n
  /\ failed' = failed \cup {s}
  /\ UNCHANGED <<procs, pid>>

(* The end of an iteration: the test of the while loop.                    *)
Loop == pc' = IF running THEN "enter" ELSE "exit"

-----------------------------------------------------------------------------
(* The main loop of Manager::start.                                        *)

wait_blocks ==
  /\ pc = "enter"
  /\ \A p \in Pids : procs[p].st # "zombie"
  /\ pc' = "wait"
  /\ UNCHANGED <<exit_status, flagVars, reloadVars, timerVars, workerVars, boundVars>>

wait_process(p) ==
  /\ pc \in {"enter", "wait"}
  /\ procs[p].st = "zombie"
  /\ exit_status' = p
  /\ procs' = Reap(procs, {p})
  /\ pc' = "read"
  /\ UNCHANGED <<flagVars, reloadVars, timerVars, pid, message_box, failed, boundVars>>

(* The loop over the message box, a message at a time.                     *)
pop_message ==
  /\ pc = "read" /\ read_message /\ message_box # <<>>
  /\ message_box' = Tail(message_box)
  /\ IF running
     THEN Spawned(Head(message_box), procs) \/ ForkFailed(Head(message_box), 1)
     ELSE UNCHANGED <<procs, pid, failed, fork_fails>>
  /\ UNCHANGED <<pc, exit_status, flagVars, reloadVars, timerVars, outside>>

box_empty ==
  /\ pc = "read"
  /\ read_message => message_box = <<>>
  /\ pc' = IF read_message THEN "clear" ELSE "select"
  /\ UNCHANGED <<exit_status, flagVars, reloadVars, timerVars, workerVars, boundVars>>

clear_read_message ==
  /\ pc = "clear"
  /\ read_message' = FALSE
  /\ pc' = "select"
  /\ UNCHANGED <<exit_status, running, reloading, reload_all_worker, reload_task_worker,
                 reload_init, signal_alarm, reloadVars, timerVars, workerVars, boundVars>>

(* openswoole_timer_select: kill_timeout_process for the killers that are  *)
(* due, the oldest first.                                                  *)
timer_select ==
  /\ pc = "select"
  /\ IF signal_alarm /\ alarm_hooked
     THEN /\ signal_alarm' = FALSE
          /\ \E n \in (IF killers = <<>> THEN {0} ELSE 1..Len(killers)) :
               /\ killers' = SubSeq(killers, n + 1, Len(killers))
               /\ procs' = Kill(procs, UNION {killers[k] : k \in 1..n})
     ELSE UNCHANGED <<signal_alarm, killers, procs>>
  /\ pc' = "handle"
  /\ UNCHANGED <<exit_status, running, reloading, reload_all_worker, reload_task_worker,
                 reload_init, read_message, reloadVars, alarm_hooked, alarm_armed,
                 pid, message_box, failed, boundVars>>

(* wait() was interrupted and there is no reload to start.                 *)
wait_failed ==
  /\ pc = "handle" /\ exit_status = NoPid
  /\ reloading => ~reload_all_worker /\ ~reload_task_worker
  /\ Loop
  /\ UNCHANGED <<exit_status, flagVars, reloadVars, timerVars, workerVars, boundVars>>

Pids_of(S) == {pid[s] : s \in S}
PidList(first, n) == [k \in 1..n |-> pid[first + k - 1]]

(* Mutant: nobody is killed.                                               *)
add_timeout_killer_None(Ss) == UNCHANGED <<killers, alarm_hooked>>

(* add_timeout_killer for the workers of the given sets of slots.          *)
add_timeout_killer(Ss) ==
  IF MaxWaitTime
  THEN /\ killers' = killers \o [k \in 1..Len(Ss) |-> Pids_of(Ss[k])]
       /\ alarm_hooked' = TRUE
  ELSE UNCHANGED <<killers, alarm_hooked>>

(* SIGUSR1: a reload of event and task workers starts; event workers with  *)
(* reload_async are told at once, the others one after the other.          *)
start_reload_all ==
  /\ pc = "handle" /\ exit_status = NoPid
  /\ reloading /\ reload_all_worker
  /\ IF reload_init
     THEN UNCHANGED <<reload_init, reload_all_worker, reloadVars, killers, alarm_hooked, procs>>
     ELSE /\ reload_init' = TRUE /\ reload_all_worker' = FALSE
          /\ reload_workers' = PidList(1, WorkerNum + TaskWorkerNum)
          /\ reload_worker_num' = WorkerNum + TaskWorkerNum
          /\ add_timeout_killer(IF TaskWorkerNum > 0 THEN <<EventSlots, TaskSlots>>
                                ELSE <<EventSlots>>)
          /\ IF reload_async
             THEN /\ procs' = Term(procs, Pids_of(EventSlots))
                  /\ told' = told \cup Pids_of(EventSlots)
                  /\ reload_worker_i' = WorkerNum
             ELSE reload_worker_i' = 0 /\ UNCHANGED <<procs, told>>
          /\ UNCHANGED reload_worker_pid
  /\ pc' = "kill"
  /\ UNCHANGED <<exit_status, running, reloading, reload_task_worker, read_message, signal_alarm,
                 alarm_armed, pid, message_box, failed, boundVars>>

(* SIGUSR2: a reload of the task workers.                                  *)
start_reload_task ==
  /\ pc = "handle" /\ exit_status = NoPid
  /\ reloading /\ ~reload_all_worker /\ reload_task_worker
  /\ IF TaskWorkerNum = 0
     THEN /\ reloading' = FALSE
          /\ Loop
          /\ UNCHANGED <<reload_init, reload_task_worker, reloadVars, killers, alarm_hooked>>
     ELSE /\ IF reload_init
             THEN UNCHANGED <<reload_init, reload_task_worker, reloadVars, killers, alarm_hooked>>
             ELSE /\ reload_init' = TRUE /\ reload_task_worker' = FALSE
                  /\ reload_workers' = PidList(WorkerNum + 1, TaskWorkerNum)
                  /\ reload_worker_num' = TaskWorkerNum
                  /\ reload_worker_i' = 0
                  /\ add_timeout_killer(<<TaskSlots>>)
                  /\ UNCHANGED <<reload_worker_pid, told>>
          /\ pc' = "kill"
          /\ UNCHANGED reloading
  /\ UNCHANGED <<exit_status, running, reload_all_worker, read_message, signal_alarm,
                 alarm_armed, workerVars, boundVars>>

(* Mutant: a reload goes on after the exit of any child.                   *)
child_exit_AnyExit ==
  /\ pc = "handle" /\ exit_status # NoPid
  /\ LET s == procs[exit_status].slot IN
       IF running /\ pid[s] = exit_status
       THEN \/ Spawned(s, procs)
            \/ /\ s \notin EventSlots
               /\ ForkFailed(s, IF s \in TaskSlots /\ UserWorkerNum > 0 THEN 2 ELSE 1)
       ELSE UNCHANGED <<procs, pid, failed, fork_fails>>
  /\ reload_worker_i' = IF running /\ reloading
                        THEN reload_worker_i + 1 ELSE reload_worker_i
  /\ pc' = "kill"
  /\ UNCHANGED <<exit_status, flagVars, reload_worker_num, reload_worker_pid, reload_workers,
                 told, timerVars, message_box, outside>>

(* Mutant: a reload respawns nobody.                                       *)
child_exit_NotReloading ==
  /\ pc = "handle" /\ exit_status # NoPid
  /\ LET s == procs[exit_status].slot IN
       IF running /\ ~reloading /\ pid[s] = exit_status
       THEN \/ Spawned(s, procs)
            \/ /\ s \notin EventSlots
               /\ ForkFailed(s, IF s \in TaskSlots /\ UserWorkerNum > 0 THEN 2 ELSE 1)
       ELSE UNCHANGED <<procs, pid, failed, fork_fails>>
  /\ reload_worker_i' = IF running /\ exit_status = reload_worker_pid /\ reloading
                        THEN reload_worker_i + 1 ELSE reload_worker_i
  /\ pc' = "kill"
  /\ UNCHANGED <<exit_status, flagVars, reload_worker_num, reload_worker_pid, reload_workers,
                 told, timerVars, message_box, outside>>

(* A child was reaped: its slot is filled again, and a reload that waited  *)
(* for it goes on.  A failed fork() is tried again for event workers; for  *)
(* task workers it is tried once more when there are user workers.         *)
child_exit ==
  /\ pc = "handle" /\ exit_status # NoPid
  /\ LET s == procs[exit_status].slot IN
       IF running /\ pid[s] = exit_status
       THEN \/ Spawned(s, procs)
            \/ /\ s \notin EventSlots
               /\ ForkFailed(s, IF s \in TaskSlots /\ UserWorkerNum > 0 THEN 2 ELSE 1)
       ELSE UNCHANGED <<procs, pid, failed, fork_fails>>
  /\ reload_worker_i' = IF running /\ exit_status = reload_worker_pid /\ reloading
                        THEN reload_worker_i + 1 ELSE reload_worker_i
  /\ pc' = "kill"
  /\ UNCHANGED <<exit_status, flagVars, reload_worker_num, reload_worker_pid, reload_workers,
                 told, timerVars, message_box, outside>>

(* Mutant: the last worker of the list is forgotten.                      *)
kill_worker_OffByOne ==
  /\ pc = "kill"
  /\ LET left == {k \in (reload_worker_i + 1)..(reload_worker_num - 1) :
                    procs[reload_workers[k]].st # "reaped"}
         next == CHOOSE k \in left : \A j \in left : k <= j
     IN \/ /\ ~reloading
           /\ UNCHANGED <<reloading, reload_init, reloadVars, procs>>
        \/ /\ reloading /\ left = {}
           /\ reload_worker_i' = 0 /\ reload_worker_pid' = NoPid
           /\ reload_init' = FALSE /\ reloading' = FALSE
           /\ UNCHANGED <<reload_worker_num, reload_workers, told, procs>>
        \/ /\ reloading /\ left # {}
           /\ reload_worker_i' = next - 1
           /\ reload_worker_pid' = reload_workers[next]
           /\ procs' = Term(procs, {reload_workers[next]})
           /\ told' = told \cup {reload_workers[next]}
           /\ UNCHANGED <<reloading, reload_init, reload_worker_num, reload_workers>>
  /\ Loop
  /\ UNCHANGED <<exit_status, running, reload_all_worker, reload_task_worker, read_message,
                 signal_alarm, timerVars, pid, message_box, failed, boundVars>>

(* _kill_worker: workers of the list that are gone are skipped, the next   *)
(* one is told to stop; after the last one the reload is finished.         *)
kill_worker ==
  /\ pc = "kill"
  /\ LET left == {k \in (reload_worker_i + 1)..reload_worker_num :
                    procs[reload_workers[k]].st # "reaped"}
         next == CHOOSE k \in left : \A j \in left : k <= j
     IN \/ /\ ~reloading
           /\ UNCHANGED <<reloading, reload_init, reloadVars, procs>>
        \/ /\ reloading /\ left = {}
           /\ reload_worker_i' = 0 /\ reload_worker_pid' = NoPid
           /\ reload_init' = FALSE /\ reloading' = FALSE
           /\ UNCHANGED <<reload_worker_num, reload_workers, told, procs>>
        \/ /\ reloading /\ left # {}
           /\ reload_worker_i' = next - 1
           /\ reload_worker_pid' = reload_workers[next]
           /\ procs' = Term(procs, {reload_workers[next]})
           /\ told' = told \cup {reload_workers[next]}
           /\ UNCHANGED <<reloading, reload_init, reload_worker_num, reload_workers>>
  /\ Loop
  /\ UNCHANGED <<exit_status, running, reload_all_worker, reload_task_worker, read_message,
                 signal_alarm, timerVars, pid, message_box, failed, boundVars>>

-----------------------------------------------------------------------------
(* The end of Manager::start.                                              *)

(* The timer is freed, alarm() armed and the event workers told to stop.   *)
kill_event_workers ==
  /\ pc = "exit"
  /\ killers' = <<>>
  /\ signal_alarm' = (signal_alarm /\ ~alarm_hooked)
  /\ alarm_armed' = MaxWaitTime
  /\ procs' = Term(procs, Pids_of(EventSlots))
  /\ pc' = "wait_event"
  /\ UNCHANGED <<exit_status, running, reloading, reload_all_worker, reload_task_worker,
                 reload_init, read_message, reloadVars, alarm_hooked, pid, message_box, failed,
                 boundVars>>

(* openswoole_waitpid for every worker of a kind, then the next kind.      *)
waitpid_all(S, from, to, T) ==
  /\ pc = from
  /\ \A p \in Pids_of(S) : ~Alive(p)
  /\ procs' = Term(Reap(procs, Pids_of(S)), Pids_of(T))
  /\ pc' = to
  /\ alarm_armed' = (alarm_armed /\ to # "stopped")
  /\ UNCHANGED <<exit_status, flagVars, reloadVars, killers, alarm_hooked, pid, message_box,
                 failed, boundVars>>

wait_event_workers == waitpid_all(EventSlots, "wait_event", "wait_task", TaskSlots)
wait_task_workers == waitpid_all(TaskSlots, "wait_task", "wait_user", UserSlots)
wait_user_workers == waitpid_all(UserSlots, "wait_user", "stopped", {})

-----------------------------------------------------------------------------
(* Manager::signal_handler.  Interrupted: what a handler does to wait().   *)
Interrupted ==
  IF pc = "wait" THEN pc' = "read" /\ exit_status' = NoPid
  ELSE UNCHANGED <<pc, exit_status>>

InLoop == pc \notin {"exit", "wait_event", "wait_task", "wait_user", "stopped"}

SIGTERM ==
  /\ InLoop /\ running
  /\ running' = FALSE
  /\ Interrupted
  /\ UNCHANGED <<reloading, reload_all_worker, reload_task_worker, reload_init, read_message,
                 signal_alarm, reloadVars, timerVars, workerVars, boundVars>>

SIGUSR1 ==
  /\ InLoop /\ outside < MaxOutside
  /\ outside' = outside + 1
  /\ reloading' = TRUE
  /\ reload_all_worker' = (reload_all_worker \/ ~reloading)
  /\ Interrupted
  /\ UNCHANGED <<running, reload_task_worker, reload_init, read_message, signal_alarm,
                 reloadVars, timerVars, workerVars, fork_fails>>

SIGUSR2 ==
  /\ InLoop /\ outside < MaxOutside
  /\ outside' = outside + 1
  /\ reloading' = TRUE
  /\ reload_task_worker' = (reload_task_worker \/ ~reloading)
  /\ Interrupted
  /\ UNCHANGED <<running, reload_all_worker, reload_init, read_message, signal_alarm,
                 reloadVars, timerVars, workerVars, fork_fails>>

(* The system timer is periodic while timers are pending.                  *)
timer_SIGALRM ==
  /\ InLoop /\ killers # <<>>
  /\ signal_alarm' = TRUE
  /\ Interrupted
  /\ UNCHANGED <<running, reloading, reload_all_worker, reload_task_worker, reload_init,
                 read_message, reloadVars, timerVars, workerVars, boundVars>>

(* Mutant: the alarm is only noted.                                        *)
force_kill_SIGALRM_NotesOnly ==
  /\ alarm_armed
  /\ alarm_armed' = FALSE
  /\ signal_alarm' = TRUE
  /\ procs' = procs
  /\ UNCHANGED <<pc, exit_status, running, reloading, reload_all_worker, reload_task_worker,
                 reload_init, read_message, reloadVars, killers, alarm_hooked, pid, message_box,
                 failed, boundVars>>

(* alarm() of the stop phase: the manager's handler kills all workers; the *)
(* one the system timer has installed instead only notes the alarm.        *)
force_kill_SIGALRM ==
  /\ alarm_armed
  /\ alarm_armed' = FALSE
  /\ signal_alarm' = TRUE
  /\ procs' = IF alarm_hooked THEN procs ELSE Kill(procs, Pids_of(Slots))
  /\ UNCHANGED <<pc, exit_status, running, reloading, reload_all_worker, reload_task_worker,
                 reload_init, read_message, reloadVars, killers, alarm_hooked, pid, message_box,
                 failed, boundVars>>

-----------------------------------------------------------------------------
(* The workers.                                                            *)
SetState(p, st) == procs' = [procs EXCEPT ![p].st = st]
Announces(p) ==
  reload_async /\ procs[p].slot \in EventSlots \cup (IF task_enable_coroutine THEN TaskSlots ELSE {})

(* A worker reaches max_request: it stops as if it had received SIGTERM.   *)
reach_max_request(p) ==
  /\ procs[p].st = "run" /\ procs[p].slot \notin UserSlots
  /\ outside < MaxOutside
  /\ outside' = outside + 1
  /\ SetState(p, "term")
  /\ UNCHANGED <<pc, exit_status, flagVars, reloadVars, timerVars, pid, message_box, failed,
                 fork_fails>>

(* stop_async_worker: the message first, then the signal.                  *)
push_stop_message(p) ==
  /\ procs[p].st = "term" /\ Announces(p)
  /\ message_box' = Append(message_box, procs[p].slot)
  /\ SetState(p, "pushed")
  /\ UNCHANGED <<pc, exit_status, flagVars, reloadVars, timerVars, pid, failed, boundVars>>

SIGIO(p) ==
  /\ procs[p].st = "pushed"
  /\ SetState(p, "leaving")
  /\ IF InLoop
     THEN read_message' = TRUE /\ Interrupted
     ELSE UNCHANGED <<read_message, pc, exit_status>>
  /\ UNCHANGED <<running, reloading, reload_all_worker, reload_task_worker, reload_init,
                 signal_alarm, reloadVars, timerVars, pid, message_box, failed, boundVars>>

(* A worker that was told to stop ends: at once, or after its stop message *)
(* when it sends one.                                                      *)
exits(p) ==
  /\ \/ procs[p].st = "leaving"
     \/ procs[p].st = "term" /\ ~Announces(p)
  /\ SetState(p, "zombie")
  /\ UNCHANGED <<pc, exit_status, flagVars, reloadVars, timerVars, pid, message_box, failed,
                 boundVars>>

(* A worker ends by a fatal error.                                         *)
crashes(p) ==
  /\ Alive(p) /\ outside < MaxOutside
  /\ outside' = outside + 1
  /\ SetState(p, "zombie")
  /\ UNCHANGED <<pc, exit_status, flagVars, reloadVars, timerVars, pid, message_box, failed,
                 fork_fails>>

-----------------------------------------------------------------------------
ManagerStep ==
  \/ wait_blocks \/ (\E p \in Pids : wait_process(p))
  \/ pop_message \/ box_empty \/ clear_read_message \/ timer_select
  \/ wait_failed \/ start_reload_all \/ start_reload_task \/ child_exit \/ kill_worker
  \/ kill_event_workers \/ wait_event_workers \/ wait_task_workers \/ wait_user_workers

WorkerStep(p) ==
  reach_max_request(p) \/ push_stop_message(p) \/ SIGIO(p) \/ exits(p) \/ crashes(p)

ManagerNext ==
  \/ ManagerStep
  \/ SIGTERM \/ SIGUSR1 \/ SIGUSR2 \/ timer_SIGALRM \/ force_kill_SIGALRM
  \/ \E p \in Pids : WorkerStep(p)

(* The manager runs and alarms go off.  Nothing makes a worker end.        *)
ManagerFairness ==
  /\ WF_managerVars(ManagerStep)
  /\ WF_managerVars(timer_SIGALRM) /\ WF_managerVars(force_kill_SIGALRM)

ManagerSpec ==
  /\ ManagerInit
  /\ [][ManagerNext /\ UNCHANGED settingVars]_<<managerVars, settingVars>>
  /\ ManagerFairness

-----------------------------------------------------------------------------
(* Properties.                                                             *)

(* Whenever the manager waits, no worker record holds a process that was   *)
(* reaped: every slot has a process or will be filled when its process is  *)
(* reaped.  Only task and user workers can be lost to a failing fork().    *)
SlotsFilled ==
  /\ ManagerTypeOK
  /\ pc = "wait" /\ running =>
       \A s \in EventSlots \cup (Slots \ failed) : procs[pid[s]].st # "reaped"

(* A reload takes workers down one after the other: at most one of those   *)
(* it told to stop is still there (of the task workers only, if event      *)
(* workers are reloaded asynchronously).                                   *)
ReloadOneByOne ==
  LET S == IF reload_async THEN TaskSlots ELSE Slots
  IN \A p, q \in {x \in told : procs[x].slot \in S /\ Alive(x)} : p = q

(* A reload that has started tells one worker after the other and ends     *)
(* only when every worker it found has been told to stop or is gone.       *)
ReloadComplete ==
  [][/\ ReloadOneByOne'
     /\ reload_init /\ ~reload_init' =>
          \A k \in 1..reload_worker_num : reload_workers[k] \in told \/ ~Alive(reload_workers[k])]_managerVars

(* Workers that hang for ever hold up neither a reload that has started,   *)
(* which kills them, nor the stop of a manager that never used the system  *)
(* timer.                                                                  *)
EndsDespiteHangs ==
  /\ reload_init ~> ~reload_init \/ ~running
  /\ pc = "exit" /\ ~alarm_hooked ~> pc = "stopped"

(* "reload all workers", "reload finish": a reload that was asked for ends *)
(* only after it was started.                                              *)
ReloadNotLost == [][reloading /\ ~reloading' => reload_init]_managerVars

(* "kill and wait all child process": no worker that nobody told to stop   *)
(* outlives the manager.                                                   *)
NoOrphan == pc = "stopped" => \A p \in Pids : procs[p].st # "run"

(* "wait child process", "force kill": the stop phase ends.                *)
StopEnds == pc = "exit" ~> pc = "stopped"

=============================================================================
