------------------------------- MODULE CoWait -------------------------------
(***************************************************************************)
(* What a coroutine may wait for in the system besides files and sockets:  *)
(* the end of child processes (System::waitpid of src/os/wait.cc), a       *)
(* signal and several descriptors at once (System::wait_signal and         *)
(* System::socket_poll of src/coroutine/system.cc).                        *)
(*                                                                         *)
(* Each wait leaves a pointer to the caller's stack in a list, a map, an   *)
(* array or the reactor.  Signals are handled by the reactor, between two  *)
(* other callbacks.  The program is assumed to wait for one signal in one  *)
(* coroutine at a time: a second caller takes the place of the first.      *)
(***************************************************************************)
EXTENDS Coroutine, WaitQueue

CONSTANTS Pids,  \* child processes
          AnyPid \* the argument -1

ASSUME PidAssumption == /\ AnyPid \notin Pids
                        /\ {"signal", "poll", "none"} \cap (Pids \cup {AnyPid}) = {}

VARIABLES
  doing,           \* what each coroutine waits for: a pid, AnyPid, "signal", "poll", "none"
  stage,           \* "try" before the first look of waitpid(), "wait", "deferred" or "none"
  task_pid,        \* WaitTask::pid, AnyPid for -1
  wait_list, waitpid_map, child_processes, signal_ready,
  child,           \* each child: "runs", "zombie", "reaped"
  sigchld,         \* SIGCHLD is pending
  reaping,         \* the reactor is in the loop of signal_handler
  listener,        \* listeners[signo], Main for nullptr
  doubled          \* history: children two coroutines waited for at once

childVars == <<wait_list, waitpid_map, child_processes, signal_ready, child, sigchld, reaping, doubled>>
waitOwn == <<doing, stage, task_pid, childVars, listener>>
sysVars == <<coVars, waitOwn>>

WaitInit ==
  /\ doing = [c \in Cos |-> "none"] /\ stage = [c \in Cos |-> "none"]
  /\ task_pid = [c \in Cos |-> AnyPid]
  /\ wait_list = <<>> /\ waitpid_map = [p \in Pids |-> Main]
  /\ child_processes = {} /\ signal_ready = FALSE
  /\ child = [p \in Pids |-> "runs"] /\ sigchld = FALSE /\ reaping = FALSE
  /\ listener = Main
  /\ doubled = {}

(* The main stack is not inside the loop of signal_handler.                *)
NotReaping == current = Main => ~reaping
InCoroutine == UserCode /\ current \in Cos
Wants(w, p) == w \in {p, AnyPid}

-----------------------------------------------------------------------------
(* waitpid() returns the status of a child that was reaped before.         *)
waitpid_stored(w) ==
  /\ InCoroutine
  /\ \E p \in child_processes : Wants(w, p) /\ child_processes' = child_processes \ {p}
  /\ UNCHANGED <<coVars, doing, stage, task_pid, wait_list, waitpid_map, signal_ready, child,
                 sigchld, reaping, doubled, listener>>

(* Mutant: SIGCHLD is not registered before the first look.                *)
waitpid_NoInit(w) ==
  /\ InCoroutine
  /\ ~\E p \in child_processes : Wants(w, p)
  /\ call' = [call EXCEPT ![current] = "lib"]
  /\ doing' = [doing EXCEPT ![current] = w]
  /\ stage' = [stage EXCEPT ![current] = "try"]
  /\ UNCHANGED <<swapVars, resume_code, cancel_fn, timer, waker, lists, on_bailout, task_pid,
                 childVars, listener>>

(* Otherwise it registers SIGCHLD, ...                                     *)
waitpid(w) ==
  /\ InCoroutine
  /\ ~\E p \in child_processes : Wants(w, p)
  /\ call' = [call EXCEPT ![current] = "lib"]
  /\ doing' = [doing EXCEPT ![current] = w]
  /\ stage' = [stage EXCEPT ![current] = "try"]
  /\ signal_ready' = TRUE
  /\ UNCHANGED <<swapVars, resume_code, cancel_fn, timer, waker, lists, on_bailout, task_pid,
                 wait_list, waitpid_map, child_processes, child, sigchld, reaping, doubled,
                 listener>>

(* ... looks once without waiting, and puts its task where the handler of  *)
(* the signal finds it.                                                    *)
waitpid_try(t) ==
  LET c == current IN
  /\ c \in Cos /\ stage[c] = "try"
  /\ LET zombies == {p \in Pids : child[p] = "zombie" /\ Wants(doing[c], p)} IN
     \/ /\ \E p \in zombies : child' = [child EXCEPT ![p] = "reaped"]
        /\ call' = [call EXCEPT ![c] = "none"]
        /\ doing' = [doing EXCEPT ![c] = "none"]
        /\ stage' = [stage EXCEPT ![c] = "none"]
        /\ UNCHANGED <<swapVars, resume_code, cancel_fn, timer, waker, wait_list, waitpid_map,
                       doubled>>
     \/ /\ zombies = {}
        /\ stage' = [stage EXCEPT ![c] = "wait"]
        /\ IF doing[c] = AnyPid
           THEN wait_list' = Append(wait_list, c) /\ UNCHANGED <<waitpid_map, doubled>>
           ELSE /\ waitpid_map' = [waitpid_map EXCEPT ![doing[c]] = c]
                /\ doubled' = IF \E d \in Cos \ {c} : doing[d] = doing[c]
                              THEN doubled \cup {doing[c]} ELSE doubled
                /\ UNCHANGED wait_list
        /\ BlockIn(c, "lib", t)
        /\ UNCHANGED <<doing, child>>
  /\ UNCHANGED <<lists, on_bailout, task_pid, child_processes, signal_ready, sigchld, reaping,
                 listener>>

(* A child ends; an unregistered SIGCHLD is ignored.                       *)
child_ends(p) ==
  /\ child[p] = "runs"
  /\ child' = [child EXCEPT ![p] = "zombie"]
  /\ sigchld' = (sigchld \/ signal_ready)
  /\ UNCHANGED <<coVars, doing, stage, task_pid, wait_list, waitpid_map, child_processes,
                 signal_ready, reaping, doubled, listener>>

(* signal_handler: the reactor takes the signal and reaps in a loop.       *)
signal_handler ==
  /\ sigchld /\ current = Main /\ ~reaping /\ on_bailout = "no"
  /\ sigchld' = FALSE /\ reaping' = TRUE
  /\ UNCHANGED <<coVars, doing, stage, task_pid, wait_list, waitpid_map, child_processes,
                 signal_ready, child, doubled, listener>>

TaskOf(p) == IF waitpid_map[p] # Main THEN waitpid_map[p]
             ELSE IF wait_list # <<>> THEN Head(wait_list) ELSE Main

(* One turn of the loop: the caller that waits for this child, else the    *)
(* first that waits for any, is given the status and runs at once.         *)
reap(p) ==
  /\ reaping /\ current = Main /\ child[p] = "zombie"
  /\ child' = [child EXCEPT ![p] = "reaped"]
  /\ IF TaskOf(p) # Main
     THEN /\ task_pid' = [task_pid EXCEPT ![TaskOf(p)] = p]
          /\ waker' = "resume" /\ resume(TaskOf(p))
          /\ UNCHANGED <<resume_code, cancel_fn, timer, call, lists, on_bailout, child_processes>>
     ELSE /\ child_processes' = child_processes \cup {p}
          /\ UNCHANGED <<coVars, task_pid>>
  /\ UNCHANGED <<doing, stage, wait_list, waitpid_map, signal_ready, sigchld, reaping, doubled,
                 listener>>

reap_done ==
  /\ reaping /\ current = Main
  /\ \A p \in Pids : child[p] # "zombie"
  /\ reaping' = FALSE
  /\ UNCHANGED <<coVars, doing, stage, task_pid, wait_list, waitpid_map, child_processes,
                 signal_ready, child, sigchld, doubled, listener>>

(* Mutant: every caller takes the first entry off the list.                *)
after_waitpid_PopsFront ==
  LET c == current IN
  /\ c \in Cos /\ stage[c] = "wait" /\ doing[c] \in Pids \cup {AnyPid}
  /\ IF doing[c] = AnyPid
     THEN wait_list' = Tail(wait_list) /\ UNCHANGED waitpid_map
     ELSE waitpid_map' = [waitpid_map EXCEPT ![doing[c]] = Main] /\ UNCHANGED wait_list
  /\ Unblock(c) /\ waker' = "none"
  /\ doing' = [doing EXCEPT ![c] = "none"] /\ stage' = [stage EXCEPT ![c] = "none"]
  /\ task_pid' = [task_pid EXCEPT ![c] = AnyPid]
  /\ UNCHANGED <<swapVars, lists, on_bailout, child_processes, signal_ready, child, sigchld,
                 reaping, doubled, listener>>

(* The rest of waitpid(): the task leaves the list or the map.             *)
after_waitpid ==
  LET c == current IN
  /\ c \in Cos /\ stage[c] = "wait" /\ doing[c] \in Pids \cup {AnyPid}
  /\ IF doing[c] = AnyPid
     THEN /\ wait_list' = IF task_pid[c] # AnyPid THEN Tail(wait_list)
                          ELSE Remove(wait_list, c)
          /\ UNCHANGED waitpid_map
     ELSE waitpid_map' = [waitpid_map EXCEPT ![doing[c]] = Main] /\ UNCHANGED wait_list
  /\ Unblock(c) /\ waker' = "none"
  /\ doing' = [doing EXCEPT ![c] = "none"] /\ stage' = [stage EXCEPT ![c] = "none"]
  /\ task_pid' = [task_pid EXCEPT ![c] = AnyPid]
  /\ UNCHANGED <<swapVars, lists, on_bailout, child_processes, signal_ready, child, sigchld,
                 reaping, doubled, listener>>

-----------------------------------------------------------------------------
(* wait_signal(), whose handler takes the coroutine out of the slot.       *)
wait_signal(t) ==
  /\ InCoroutine
  /\ listener = Main
  /\ listener' = current
  /\ doing' = [doing EXCEPT ![current] = "signal"]
  /\ stage' = [stage EXCEPT ![current] = "wait"]
  /\ BlockIn(current, "lib", t)
  /\ UNCHANGED <<lists, on_bailout, task_pid, childVars>>

signal_arrives ==
  /\ current = Main /\ ~reaping
  /\ listener # Main
  /\ listener' = Main
  /\ waker' = "resume" /\ resume(listener)
  /\ UNCHANGED <<resume_code, cancel_fn, timer, call, lists, on_bailout, doing, stage, task_pid,
                 childVars>>

after_wait_signal ==
  LET c == current IN
  /\ c \in Cos /\ doing[c] = "signal"
  /\ listener' = Main
  /\ Unblock(c) /\ waker' = "none"
  /\ doing' = [doing EXCEPT ![c] = "none"] /\ stage' = [stage EXCEPT ![c] = "none"]
  /\ UNCHANGED <<swapVars, lists, on_bailout, task_pid, childVars>>

-----------------------------------------------------------------------------
(* socket_poll() on at least one descriptor: its yield() cannot be         *)
(* canceled.                                                               *)
socket_poll(t) ==
  /\ InCoroutine
  /\ SwapOut(current, "waiting")
  /\ timer' = [timer EXCEPT ![current] = TimerAdded(t)]
  /\ call' = [call EXCEPT ![current] = "lib"]
  /\ resume_code' = [resume_code EXCEPT ![current] = "ok"]
  /\ doing' = [doing EXCEPT ![current] = "poll"]
  /\ stage' = [stage EXCEPT ![current] = "wait"]
  /\ UNCHANGED <<cancel_fn, waker, lists, on_bailout, task_pid, childVars, listener>>

(* The first event of any descriptor deletes the timer and leaves the rest *)
(* to the end of the iteration; further events only note what happened.    *)
socket_poll_trigger_event(c) ==
  /\ current = Main /\ ~reaping
  /\ doing[c] = "poll" /\ stage[c] = "wait"
  /\ stage' = [stage EXCEPT ![c] = "deferred"]
  /\ timer' = [timer EXCEPT ![c] = FALSE]
  /\ UNCHANGED <<swapVars, resume_code, cancel_fn, call, waker, lists, on_bailout, doing,
                 task_pid, childVars, listener>>

socket_poll_completed(c) ==
  /\ current = Main /\ ~reaping
  /\ stage[c] = "deferred"
  /\ stage' = [stage EXCEPT ![c] = "wait"]
  /\ waker' = "resume" /\ resume(c)
  /\ UNCHANGED <<resume_code, cancel_fn, timer, call, lists, on_bailout, doing, task_pid,
                 childVars, listener>>

after_socket_poll ==
  LET c == current IN
  /\ c \in Cos /\ doing[c] = "poll"
  /\ call' = [call EXCEPT ![c] = "none"] /\ waker' = "none"
  /\ doing' = [doing EXCEPT ![c] = "none"] /\ stage' = [stage EXCEPT ![c] = "none"]
  /\ UNCHANGED <<swapVars, resume_code, cancel_fn, timer, lists, on_bailout, task_pid, childVars,
                 listener>>

-----------------------------------------------------------------------------
(* The three timer callbacks only resume; they leave the list, the map and *)
(* the slot to the caller.                                                 *)
wait_timer_callback(c) ==
  /\ stage[c] = "wait" /\ NotReaping
  /\ FireTimer(c, "ok")
  /\ UNCHANGED <<lists, on_bailout, waitOwn>>

(* The cancel functions delete the timer, which the part after the yield   *)
(* does here, and resume.                                                  *)
wait_cancel(c) ==
  /\ stage[c] = "wait" /\ NotReaping
  /\ CancelWith(c)
  /\ UNCHANGED <<lists, on_bailout, waitOwn>>

WaitCoStep ==
  /\ NotReaping
  /\ \/ yield \/ after_yield \/ close
     \/ \E c \in Cos : create(c) \/ resume_user(c) \/ cancel(c)
  /\ UNCHANGED waitOwn

WaitGoesOn == after_waitpid \/ after_wait_signal \/ after_socket_poll

WaitNext ==
  \/ WaitCoStep
  \/ \E w \in Pids \cup {AnyPid} : waitpid(w) \/ waitpid_stored(w)
  \/ \E t \in Timeouts : waitpid_try(t) \/ wait_signal(t) \/ socket_poll(t)
  \/ \E p \in Pids : child_ends(p) \/ reap(p)
  \/ signal_handler \/ reap_done \/ signal_arrives \/ WaitGoesOn
  \/ \E c \in Cos : \/ socket_poll_trigger_event(c) \/ socket_poll_completed(c)
                     \/ wait_timer_callback(c) \/ wait_cancel(c)

WaitSpec == CoInit /\ WaitInit /\ [][WaitNext]_sysVars

-----------------------------------------------------------------------------
(* The comment in waitpid() ("we must register SIGCHLD before try waitpid, *)
(* or we may lose the SIGCHLD"): nobody waits for a child that has ended   *)
(* unless the signal or the loop of its handler is still to come, and no   *)
(* status is put aside that somebody waits for.                            *)
NoLostChild ==
  /\ \A p \in Pids, c \in Cos :
       child[p] = "zombie" /\ stage[c] = "wait" /\ Wants(doing[c], p) => sigchld \/ reaping
  /\ wait_list # <<>> => child_processes = {}
  /\ \A p \in child_processes \ doubled :
       child[p] = "reaped" /\ \A c \in Cos : ~(stage[c] = "wait" /\ doing[c] = p)

(* Whatever the handlers may write to or resume is a caller still inside   *)
(* its wait, so their pointers into its stack are good, also when the      *)
(* callers they resume wait again in the middle of the loop; a caller is   *)
(* handed the status of a child it asked for, and only when it runs at     *)
(* once.  Two callers that wait for one child share one entry and are left *)
(* out.                                                                    *)
Registered(c, w) == stage[c] = "wait" /\ doing[c] = w
WaitsMatch ==
  /\ NoLostChild
  /\ \A i, j \in DOMAIN wait_list : wait_list[i] = wait_list[j] => i = j
  /\ {wait_list[i] : i \in DOMAIN wait_list} = {c \in Cos : Registered(c, AnyPid)}
  /\ \A p \in Pids \ doubled : \A c \in Cos : waitpid_map[p] = c <=> Registered(c, p)
  /\ \A c \in Cos : task_pid[c] # AnyPid =>
       current = c /\ Registered(c, doing[c]) /\ Wants(doing[c], task_pid[c])
  /\ \A c \in Cos : listener = c => Registered(c, "signal")
  /\ \A c \in Cos : Registered(c, "signal") => c \in {listener, current}
  /\ \A c \in Cos : stage[c] = "deferred" => state[c] = "waiting" /\ ~timer[c]

=============================================================================
