----------------------------- MODULE TaskWorker -----------------------------
(***************************************************************************)
(* Tasks: an event worker hands work to the pool of task workers and gets  *)
(* the answers (Server::task, taskwait, taskWaitMulti and taskCo of        *)
(* openswoole_server.cc, ProcessPool::dispatch and the worker loop of      *)
(* process_pool.cc, Server::reply_task_result of task_worker.cc).          *)
(*                                                                         *)
(* There are two ways back.  Inside a coroutine the answer is an event in  *)
(* the pipe of the worker, and task_coroutine_map says who waits for it.   *)
(* Without coroutines the worker blocks: the answer lies in the worker's   *)
(* slot of task_result in shared memory, or in a file the slot names, and  *)
(* a byte in task_notify_pipes wakes the worker.                           *)
(*                                                                         *)
(* One event worker is modelled; its ids are never used again.  A task is  *)
(* answered at most once.  A task worker may be killed inside onTask, not  *)
(* while it holds the lock of the slot, which nobody would release.        *)
(***************************************************************************)
EXTENDS Integers, Sequences, FiniteSets, TLC

CONSTANTS
  Callers,      \* coroutines of the worker; the blocking worker is one of them
  TaskNum,      \* task_worker_num
  TasksPerCall, \* tasks of one taskCo or taskWaitMulti
  MaxTasks,     \* tasks handed out
  MaxKills,     \* task workers killed
  MaxFails      \* messages that cannot be sent

ASSUME TaskNumAssumption == TaskNum \in Nat \ {0}

None == -1      \* no task, no file
False == -2     \* the result FALSE
TW == 0 .. TaskNum - 1

VARIABLES
  mode,               \* "co": the worker runs coroutines; "block"
  call,               \* what each caller is doing, and what its last call returned
  current_task_id,
  round_id, status,   \* ProcessPool
  tasking_num,        \* gs->tasking_num
  queue,              \* the pipe to each task worker
  tpc, task,          \* where each task worker is, and its task
  slot,               \* task_result of the worker
  file,               \* the file of taskWaitMulti
  lock,               \* worker->lock: FALSE, or taken
  notified,           \* bytes in the notify pipe
  finish_events,             \* FINISH events in the pipe of the worker
  map,                \* task_coroutine_map
  kills, fails

poolVars == <<round_id, status, queue, tasking_num, current_task_id, fails>>
taskVars == <<tpc, task, kills>>
slotVars == <<slot, file, lock, notified>>
taskAll == <<mode, call, poolVars, taskVars, slotVars, finish_events, map>>

Zero == [fd |-> 0, data |-> None, count |-> 0, path |-> None]
NoCall == [pc |-> "idle", kind |-> "none", ids |-> <<>>, n |-> 0, got |-> <<>>, late |-> {},
           timedout |-> FALSE]
NoTask == [id |-> None, type |-> "none"]
Caller == CHOOSE c \in Callers : TRUE

TaskInit ==
  /\ mode \in {"co", "block"}
  /\ call = [c \in Callers |-> NoCall]
  /\ current_task_id = 0 /\ round_id = 0 /\ tasking_num = 0
  /\ status = [t \in TW |-> "idle"]
  /\ queue = [t \in TW |-> <<>>]
  /\ tpc = [t \in TW |-> "idle"]
  /\ task = [t \in TW |-> NoTask]
  /\ slot = Zero
  /\ file = [path |-> None, ids |-> <<>>]
  /\ lock = FALSE
  /\ notified = 0
  /\ finish_events = <<>>
  /\ map = <<>>
  /\ kills = 0 /\ fails = 0

-----------------------------------------------------------------------------
(* ProcessPool.                                                            *)

(* schedule(): worker_num + 1 attempts, round robin, to find an idle       *)
(* worker; the last one tried when there is none.                          *)
Attempts == {k \in 0 .. TaskNum : status[(round_id + k) % TaskNum] = "idle"}
Tried == IF Attempts = {} THEN TaskNum ELSE CHOOSE k \in Attempts : \A j \in Attempts : k <= j

(* php_openswoole_task_pack, tasking_num, dispatch of one task; the        *)
(* difference is what the method adds to tasking_num for it.               *)
dispatch_task(type, difference) ==
  /\ current_task_id < MaxTasks
  /\ current_task_id' = current_task_id + 1
  /\ round_id' = (round_id + Tried + 1) % TaskNum
  /\ queue' = [queue EXCEPT ![(round_id + Tried) % TaskNum] =
                 Append(@, [id |-> current_task_id, type |-> type])]
  /\ tasking_num' = tasking_num + difference
  /\ UNCHANGED <<status, fails>>

dispatch_fails(difference) ==
  /\ current_task_id < MaxTasks
  /\ fails < MaxFails
  /\ fails' = fails + 1
  /\ current_task_id' = current_task_id + 1
  /\ round_id' = (round_id + Tried + 1) % TaskNum
  /\ tasking_num' = tasking_num + difference
  /\ UNCHANGED <<status, queue>>

(* The worker loop takes a task and calls onTask, which counts it.         *)
Busy(t) == tpc[t] \notin {"idle", "killed"}
onTask(t) ==
  /\ tpc[t] = "idle"
  /\ queue[t] # <<>>
  /\ task' = [task EXCEPT ![t] = Head(queue[t])]
  /\ queue' = [queue EXCEPT ![t] = Tail(@)]
  /\ status' = [status EXCEPT ![t] = "busy"]
  /\ tasking_num' = tasking_num - 1
  /\ tpc' = [tpc EXCEPT ![t] = "running"]
  /\ UNCHANGED <<mode, call, current_task_id, round_id, fails, kills, slotVars, finish_events, map>>

Ended(t) ==
  /\ tpc' = [tpc EXCEPT ![t] = "idle"]
  /\ status' = [status EXCEPT ![t] = "idle"]
  /\ task' = [task EXCEPT ![t] = NoTask]
  /\ UNCHANGED <<mode, call, current_task_id, round_id, tasking_num, queue, fails, kills, map>>

(* onTask returns null and has not called finish(): no answer.             *)
no_answer(t) ==
  /\ tpc[t] = "running"
  /\ Ended(t)
  /\ UNCHANGED <<slotVars, finish_events>>

(* A killed task worker loses its task; the next process takes its place   *)
(* and its pipe, and is idle.                                              *)
kill(t) ==
  /\ tpc[t] = "running"
  /\ kills < MaxKills
  /\ kills' = kills + 1
  /\ tpc' = [tpc EXCEPT ![t] = "killed"]
  /\ UNCHANGED <<mode, call, poolVars, task, slotVars, finish_events, map>>

TaskWorker_onStart(t) ==
  /\ tpc[t] = "killed"
  /\ Ended(t)
  /\ UNCHANGED <<slotVars, finish_events>>

-----------------------------------------------------------------------------
(* Server::reply_task_result.                                              *)

TaskStep(t, next) ==
  /\ tpc' = [tpc EXCEPT ![t] = next]
  /\ UNCHANGED <<mode, call, poolVars, task, kills, map>>

(* A task of OSW_TASK_NONBLOCK: the answer goes into the worker's pipe.    *)
reply_event(t) ==
  /\ tpc[t] = "running"
  /\ task[t].type \in {"task", "coroutine"}
  /\ finish_events' = Append(finish_events, task[t])
  /\ Ended(t)
  /\ UNCHANGED slotVars

reply_lock(t) ==
  /\ tpc[t] = "running"
  /\ task[t].type \in {"wait", "waitall"}
  /\ ~lock
  /\ lock' = TRUE
  /\ TaskStep(t, IF task[t].type = "wait" THEN "fd" ELSE "append")
  /\ UNCHANGED <<slot, file, notified, finish_events>>

(* taskwait: the head of the slot, then pack().                            *)
reply_fd(t) ==
  /\ tpc[t] = "fd"
  /\ slot' = [slot EXCEPT !.fd = task[t].id]
  /\ TaskStep(t, "data")
  /\ UNCHANGED <<file, lock, notified, finish_events>>

reply_data(t) ==
  /\ tpc[t] = "data"
  /\ slot' = [slot EXCEPT !.data = task[t].id, !.path = None]
  /\ TaskStep(t, "unlock")
  /\ UNCHANGED <<file, lock, notified, finish_events>>

(* taskWaitMulti: the file the slot names now, if it can be opened.        *)
reply_append(t) ==
  /\ tpc[t] = "append"
  /\ IF slot.path # None /\ file.path = slot.path
     THEN /\ file' = [file EXCEPT !.ids = Append(@, task[t].id)]
          /\ TaskStep(t, "count")
     ELSE /\ TaskStep(t, "unlock")
          /\ UNCHANGED file
  /\ UNCHANGED <<slot, lock, notified, finish_events>>

reply_count(t) ==
  /\ tpc[t] = "count"
  /\ slot' = [slot EXCEPT !.count = @ + 1]
  /\ TaskStep(t, "unlock")
  /\ UNCHANGED <<file, lock, notified, finish_events>>

reply_unlock(t) ==
  /\ tpc[t] = "unlock"
  /\ lock' = FALSE
  /\ TaskStep(t, "notify")
  /\ UNCHANGED <<slot, file, notified, finish_events>>

reply_notify(t) ==
  /\ tpc[t] = "notify"
  /\ notified' = notified + 1
  /\ Ended(t)
  /\ UNCHANGED <<slot, file, lock, finish_events>>

-----------------------------------------------------------------------------
(* The coroutines of the worker.  One runs at a time, and nothing else of  *)
(* the worker does while a method that does not yield is not finished.     *)

Begin(kind, pc) == [NoCall EXCEPT !.pc = pc, !.kind = kind]
Free == mode = "co" /\ \A c \in Callers : call[c].pc # "loop"
CoStep == UNCHANGED <<mode, taskVars, slotVars, finish_events>>
Room(n) == current_task_id + n <= MaxTasks

(* Mutant: a task that was not sent stays counted.                         *)
server_task_Counted ==
  /\ Free /\ Room(1)
  /\ dispatch_task("task", 1) \/ dispatch_fails(1)
  /\ UNCHANGED <<call, map>>
  /\ CoStep

(* task(): the answer is onFinish's.                                       *)
server_task ==
  /\ Free /\ Room(1)
  /\ dispatch_task("task", 1) \/ dispatch_fails(0)
  /\ UNCHANGED <<call, map>>
  /\ CoStep

co_taskwait(c) ==
  /\ Free /\ Room(1)
  /\ call[c].pc = "idle"
  /\ \/ /\ dispatch_task("coroutine", 1)
        /\ map' = (current_task_id :> c) @@ map
        /\ call' = [call EXCEPT ![c] = [Begin("taskwait", "yield") EXCEPT !.ids = <<current_task_id>>, !.n = 1]]
     \/ /\ dispatch_fails(0)
        /\ call' = [call EXCEPT ![c] = [Begin("taskwait", "idle") EXCEPT !.ids = <<None>>]]
        /\ UNCHANGED map
  /\ CoStep

(* taskCo(): the results of tasks that were not sent are FALSE at once.    *)
taskCo(c) ==
  /\ Free /\ Room(TasksPerCall)
  /\ call[c].pc = "idle"
  /\ call' = [call EXCEPT ![c] = Begin("taskCo", "loop")]
  /\ UNCHANGED <<poolVars, map>>
  /\ CoStep

taskCo_dispatch(c) ==
  LET i == Len(call[c].ids) IN
  /\ call[c].pc = "loop"
  /\ i < TasksPerCall
  /\ \/ /\ dispatch_task("coroutine", 1)
        /\ map' = (current_task_id :> c) @@ map
        /\ call' = [call EXCEPT ![c].ids = Append(@, current_task_id), ![c].n = @ + 1]
     \/ /\ dispatch_fails(0)
        /\ call' = [call EXCEPT ![c].ids = Append(@, None), ![c].got = (i :> False) @@ @]
        /\ UNCHANGED map
  /\ CoStep

taskCo_yield(c) ==
  /\ call[c].pc = "loop"
  /\ Len(call[c].ids) = TasksPerCall
  /\ call' = [call EXCEPT ![c].pc = IF call[c].n = 0 THEN "idle" ELSE "yield"]
  /\ UNCHANGED <<poolVars, map>>
  /\ CoStep

Erase(ids) == [id \in DOMAIN map \ ids |-> map[id]]
Answer == Head(finish_events)
EventStep ==
  /\ finish_events' = Tail(finish_events)
  /\ UNCHANGED <<poolVars, taskVars, slotVars>>

(* onFinish of a task nobody waits for: one of task(), or expired.         *)
onFinish_other ==
  /\ Free
  /\ finish_events # <<>>
  /\ Answer.type = "task" \/ Answer.id \notin DOMAIN map
  /\ UNCHANGED <<mode, call, map>>
  /\ EventStep

Waits(c) == call[c].pc = "yield" /\ \E i \in DOMAIN call[c].ids : call[c].ids[i] = Answer.id

onFinish_taskwait ==
  /\ Free
  /\ finish_events # <<>>
  /\ Answer.type = "coroutine" /\ Answer.id \in DOMAIN map
  /\ LET c == map[Answer.id] IN
     /\ Waits(c) /\ call[c].kind = "taskwait"
     /\ call' = [call EXCEPT ![c].got = (0 :> Answer.id), ![c].pc = "idle"]
     /\ map' = Erase({Answer.id})
  /\ UNCHANGED mode
  /\ EventStep

(* The index is searched among the first n tasks.                          *)
onFinish_taskCo ==
  /\ Free
  /\ finish_events # <<>>
  /\ Answer.type = "coroutine" /\ Answer.id \in DOMAIN map
  /\ LET c == map[Answer.id]
         r == call[c]
         found == {i \in 1 .. r.n : r.ids[i] = Answer.id} IN
     /\ Waits(c) /\ r.kind = "taskCo"
     /\ IF found = {} THEN UNCHANGED <<call, map>>
        ELSE LET got == [i \in {i - 1 : i \in found} |-> Answer.id] @@ r.got IN
             /\ call' = [call EXCEPT ![c].got = got,
                                     ![c].pc = IF Cardinality(DOMAIN got) = r.n THEN "idle" ELSE @]
             /\ map' = Erase({Answer.id})
  /\ UNCHANGED mode
  /\ EventStep

(* The entry of the map points into the stack of a call that is over.      *)
onFinish_dangling ==
  /\ Free
  /\ finish_events # <<>>
  /\ Answer.type = "coroutine" /\ Answer.id \in DOMAIN map
  /\ ~Waits(map[Answer.id])
  /\ mode' = "undefined"
  /\ UNCHANGED <<call, map>>
  /\ EventStep

(* Mutant: the entry stays in the map after a timeout.                     *)
co_timeout_KeepEntry(c) ==
  LET missing == {i \in 1 .. call[c].n : i - 1 \notin DOMAIN call[c].got} IN
  /\ Free
  /\ call[c].pc = "yield"
  /\ call' = [call EXCEPT ![c].pc = "idle", ![c].timedout = TRUE,
                          ![c].got = [i \in {i - 1 : i \in missing} |-> False] @@ @]
  /\ UNCHANGED <<map, poolVars>>
  /\ CoStep

(* Mutant: taskwait() yields without a timer.                              *)
co_timeout_NoTimer(c) ==
  LET missing == {i \in 1 .. call[c].n : i - 1 \notin DOMAIN call[c].got} IN
  /\ Free
  /\ call[c].pc = "yield" /\ call[c].kind = "taskCo"
  /\ call' = [call EXCEPT ![c].pc = "idle", ![c].timedout = TRUE,
                          ![c].got = [i \in {i - 1 : i \in missing} |-> False] @@ @]
  /\ map' = Erase({call[c].ids[i] : i \in missing})
  /\ UNCHANGED poolVars
  /\ CoStep

(* yield_ex() reports a timeout.                                           *)
co_timeout(c) ==
  LET missing == {i \in 1 .. call[c].n : i - 1 \notin DOMAIN call[c].got} IN
  /\ Free
  /\ call[c].pc = "yield"
  /\ call' = [call EXCEPT ![c].pc = "idle", ![c].timedout = TRUE,
                          ![c].got = [i \in {i - 1 : i \in missing} |-> False] @@ @]
  /\ map' = Erase({call[c].ids[i] : i \in missing})
  /\ UNCHANGED poolVars
  /\ CoStep

-----------------------------------------------------------------------------
(* The blocking worker.                                                    *)

me == call[Caller]
Set(fields) == call' = [call EXCEPT ![Caller] = fields]
WorkerStep == UNCHANGED <<mode, taskVars, finish_events, map>>

(* The tasks whose answer would still go to the slot.                      *)
UsesSlot(x) == x.type \in {"wait", "waitall"}
InFlight ==
  LET queued(t) == {queue[t][i] : i \in DOMAIN queue[t]}
      here(t) == IF Busy(t) THEN {task[t]} ELSE {} IN
  {x.id : x \in {y \in UNION {queued(t) \union here(t) : t \in TW} : UsesSlot(y)}}

(* taskwait() and taskWaitMulti() clear the slot without its lock.         *)
block_begin(kind, n) ==
  /\ mode = "block" /\ Room(n)
  /\ me.pc = "idle"
  /\ Set([Begin(kind, IF kind = "taskwait" THEN "clear" ELSE "lock") EXCEPT !.late = InFlight])
  /\ slot' = Zero
  /\ UNCHANGED <<poolVars, file, lock, notified>>
  /\ WorkerStep
taskwait == block_begin("taskwait", 1)
taskWaitMulti == block_begin("taskWaitMulti", TasksPerCall)

multi_lock ==
  /\ me.pc = "lock"
  /\ ~lock
  /\ slot' = [slot EXCEPT !.count = 0, !.path = current_task_id]
  /\ file' = [path |-> current_task_id, ids |-> <<>>]
  /\ Set([me EXCEPT !.pc = "clear"])
  /\ UNCHANGED <<poolVars, lock, notified>>
  /\ WorkerStep

(* "clear history task"                                                    *)
clear_history ==
  /\ me.pc = "clear"
  /\ notified' = 0
  /\ Set([me EXCEPT !.pc = "dispatch"])
  /\ UNCHANGED <<poolVars, slot, file, lock>>
  /\ WorkerStep

taskwait_dispatch ==
  /\ me.pc = "dispatch" /\ me.kind = "taskwait"
  /\ \/ dispatch_task("wait", 1) /\ Set([me EXCEPT !.pc = "read", !.ids = <<current_task_id>>])
     \/ dispatch_fails(0) /\ Set([me EXCEPT !.pc = "idle", !.ids = <<None>>])
  /\ UNCHANGED slotVars
  /\ WorkerStep

(* taskWaitMulti() takes back what it has added to tasking_num when the    *)
(* task was sent, and keeps it when it was not.                            *)
multi_dispatch ==
  LET i == Len(me.ids)
      next == IF i + 1 < TasksPerCall THEN "dispatch" ELSE "read" IN
  /\ me.pc = "dispatch" /\ me.kind = "taskWaitMulti"
  /\ \/ /\ dispatch_task("waitall", 0)
        /\ Set([me EXCEPT !.ids = Append(@, current_task_id), !.n = @ + 1, !.pc = next])
     \/ /\ dispatch_fails(1)
        /\ Set([me EXCEPT !.ids = Append(@, None), !.got = (i :> False) @@ @,
                          !.pc = IF next = "read" /\ me.n = 0 THEN "idle" ELSE next])
  /\ UNCHANGED slotVars
  /\ WorkerStep

read_notify ==
  /\ me.pc = "read"
  /\ notified > 0
  /\ notified' = notified - 1
  /\ Set([me EXCEPT !.pc = "check"])
  /\ UNCHANGED <<poolVars, slot, file, lock>>
  /\ WorkerStep

block_timeout ==
  /\ me.pc = "read"
  /\ Set([me EXCEPT !.timedout = TRUE, !.pc = IF me.kind = "taskwait" THEN "idle" ELSE "content"])
  /\ UNCHANGED <<poolVars, slotVars>>
  /\ WorkerStep

(* taskwait() looks at the slot without its lock, first at the id.         *)
taskwait_check ==
  /\ me.pc = "check" /\ me.kind = "taskwait"
  /\ Set([me EXCEPT !.pc = IF slot.fd # me.ids[1] THEN "read" ELSE "unpack"])
  /\ UNCHANGED <<poolVars, slotVars>>
  /\ WorkerStep

taskwait_unpack ==
  /\ me.pc = "unpack"
  /\ Set([me EXCEPT !.pc = "idle", !.got = (0 :> slot.data)])
  /\ UNCHANGED <<poolVars, slotVars>>
  /\ WorkerStep

(* taskWaitMulti() reads on until all have answered or its time is over;   *)
(* after the answer of a late taskwait() the count is anything.            *)
multi_check ==
  /\ me.pc = "check" /\ me.kind = "taskWaitMulti"
  /\ \/ /\ slot.count < me.n \/ slot.path = None
        /\ Set([me EXCEPT !.pc = "read"])
     \/ /\ slot.count < me.n \/ slot.path = None
        /\ Set([me EXCEPT !.pc = "content", !.timedout = TRUE])
     \/ /\ slot.count >= me.n \/ slot.path = None
        /\ Set([me EXCEPT !.pc = "content"])
  /\ UNCHANGED <<poolVars, slotVars>>
  /\ WorkerStep

(* The answers in the file; that of a task of another call gets the index  *)
(* behind the last.  An empty file stays, and the call returns FALSE.      *)
IndexOf(id) ==
  IF \E j \in DOMAIN me.ids : me.ids[j] = id
  THEN (CHOOSE j \in DOMAIN me.ids : me.ids[j] = id) - 1 ELSE TasksPerCall
multi_content ==
  /\ me.pc = "content"
  /\ ~lock
  /\ IF file.ids = <<>>
     THEN /\ Set([me EXCEPT !.pc = "idle", !.got = <<>>])
          /\ UNCHANGED file
     ELSE /\ Set([me EXCEPT !.pc = "idle",
                            !.got = [j \in {IndexOf(file.ids[k]) : k \in DOMAIN file.ids} |->
                                       CHOOSE id \in {file.ids[k] : k \in DOMAIN file.ids} : IndexOf(id) = j] @@ @])
          /\ file' = [path |-> None, ids |-> <<>>]
  /\ UNCHANGED <<poolVars, slot, lock, notified>>
  /\ WorkerStep

-----------------------------------------------------------------------------
TaskProcess(t) ==
  \/ onTask(t) \/ reply_event(t)
  \/ reply_lock(t) \/ reply_fd(t) \/ reply_data(t) \/ reply_append(t) \/ reply_count(t)
  \/ reply_unlock(t) \/ reply_notify(t) \/ TaskWorker_onStart(t)

Worker ==
  \/ \E c \in Callers : taskCo_dispatch(c) \/ taskCo_yield(c)
  \/ onFinish_other \/ onFinish_taskwait \/ onFinish_taskCo \/ onFinish_dangling
  \/ multi_lock \/ clear_history \/ taskwait_dispatch \/ multi_dispatch
  \/ read_notify \/ taskwait_check \/ taskwait_unpack \/ multi_check \/ multi_content

Timeout == block_timeout \/ \E c \in Callers : co_timeout(c)

TaskNext ==
  \/ \E t \in TW : TaskProcess(t) \/ no_answer(t) \/ kill(t)
  \/ server_task \/ \E c \in Callers : co_taskwait(c) \/ taskCo(c)
  \/ taskwait \/ taskWaitMulti
  \/ Worker \/ Timeout

(* The processes run, and timers fire; whether the user calls, answers or  *)
(* kills is up to the user.                                                *)
TaskFairness ==
  /\ \A t \in TW : WF_taskAll(TaskProcess(t))
  /\ WF_taskAll(Worker)
  /\ WF_taskAll(block_timeout)
  /\ \A c \in Callers : WF_taskAll(co_timeout(c))

TaskSpec == TaskInit /\ [][TaskNext]_taskAll /\ TaskFairness

-----------------------------------------------------------------------------
(* Properties.                                                             *)

Over(c) == call[c].pc = "idle" /\ call[c].kind # "none"
AllSent(c) == None \notin {call[c].ids[i] : i \in DOMAIN call[c].ids}

(* tasking_num counts the tasks in the pipes, with task workers killed and *)
(* messages that cannot be sent; taskWaitMulti() does not keep to it.      *)
TaskingExact ==
  mode = "co" => tasking_num = Cardinality({<<t, i>> \in TW \X (1 .. MaxTasks) : i <= Len(queue[t])})

(* A call gives each of its tasks the answer of that task or FALSE, and    *)
(* FALSE only after a timeout or when the task was not sent, however the   *)
(* answers of this and of earlier calls arrive; a late answer finds no     *)
(* entry in task_coroutine_map, not the stack of a call that is over.      *)
(* The blocking calls do so only if no earlier task can still write to the *)
(* slot, and taskCo() leaves entries behind when a task is not sent.       *)
OwnAnswers ==
  /\ TaskingExact
  /\ mode = "undefined" => fails > 0
  /\ \A c \in Callers : Over(c) /\ call[c].late = {} =>
     LET r == call[c] IN
     /\ \A i \in DOMAIN r.got : i + 1 \in DOMAIN r.ids /\ r.got[i] \in {r.ids[i + 1], False}
     /\ ~r.timedout /\ AllSent(c) => \A i \in DOMAIN r.ids : i - 1 \in DOMAIN r.got /\ r.got[i - 1] = r.ids[i]

(* Every call of the worker ends, answered or not.                         *)
CallsEnd == \A c \in Callers : call[c].pc # "idle" ~> (call[c].pc = "idle" \/ mode = "undefined")

=============================================================================
