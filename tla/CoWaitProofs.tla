---------------------------- MODULE CoWaitProofs ----------------------------
(***************************************************************************)
(* Proofs about the coroutines that wait for children, for a signal or for *)
(* several descriptors, for any set of coroutines and of children: a wait  *)
(* is registered exactly as long as it lasts, and a child that was reaped  *)
(* is never lost to the coroutine that waits for it.                       *)
(*                                                                         *)
(* A status is put aside, handed to a waiter or left to waitpid() itself,  *)
(* by who is first; the invariant says, for each stage of the call, which  *)
(* of the three a child can still be in.                                   *)
(***************************************************************************)
EXTENDS CoWait, CoroutineProofs

Whats == Pids \cup {AnyPid, "signal", "poll", "none"}

WaitStateOK ==
  /\ doing \in [Cos -> Whats]
  /\ stage \in [Cos -> {"none", "try", "wait", "deferred"}]
  /\ task_pid \in [Cos -> Pids \cup {AnyPid}]
  /\ wait_list \in Seq(Cos)
  /\ waitpid_map \in [Pids -> Cos \cup {Main}]
  /\ child_processes \subseteq Pids
  /\ child \in [Pids -> {"runs", "zombie", "reaped"}]
  /\ listener \in Cos \cup {Main}

(* The stages of a wait.  waitpid() has looked for a status put aside and  *)
(* has registered SIGCHLD when it is about to look for a child.            *)
StageInv ==
  \A c \in Cos :
    /\ call[c] = "lib" <=> stage[c] # "none"
    /\ stage[c] = "none" <=> doing[c] = "none"
    /\ stage[c] = "try" => /\ current = c /\ doing[c] \in Pids \cup {AnyPid}
                           /\ \A p \in child_processes : ~Wants(doing[c], p)
    /\ stage[c] = "deferred" => current # c /\ doing[c] = "poll" /\ ~timer[c]
    /\ doing[c] \in Pids \cup {AnyPid} => signal_ready

(* Where the callers of waitpid() are found: the map may have lost one of  *)
(* two that wait for the same child, but never names one that has left;    *)
(* and a caller of the list that was given a status is its first.          *)
PlaceInv ==
  /\ Once(wait_list)
  /\ \A c \in Cos : In(wait_list, c) <=> Registered(c, AnyPid)
  /\ \A p \in Pids, c \in Cos : waitpid_map[p] = c => Registered(c, p)
  /\ \A p \in Pids \ doubled, c \in Cos : Registered(c, p) => waitpid_map[p] = c
  /\ \A c \in Cos : task_pid[c] # AnyPid =>
       /\ current = c /\ stage[c] = "wait" /\ Wants(doing[c], task_pid[c])
       /\ doing[c] = AnyPid => wait_list # <<>> /\ Head(wait_list) = c

SignalInv ==
  /\ \A c \in Cos : listener = c => Registered(c, "signal")
  /\ \A c \in Cos : Registered(c, "signal") => c \in {listener, current}
  /\ \A b, c \in Cos : Registered(b, "signal") /\ Registered(c, "signal") => b = c

WaitIInv == SchedInv /\ WaitStateOK /\ StageInv /\ PlaceInv /\ SignalInv /\ NoLostChild

(* Code of the reactor, or user code: every wait is suspended.             *)
LEMMA IdleFacts ==
  ASSUME StageInv, PlaceInv, SignalInv, LibIdle
  PROVE  /\ \A c \in Cos : stage[c] # "none" => current # c /\ call[c] = "lib"
         /\ \A c \in Cos : stage[c] # "try" /\ task_pid[c] = AnyPid
         /\ \A c \in Cos : Registered(c, "signal") => c = listener
<1>1. \A c \in Cos : stage[c] # "none" => current # c /\ call[c] = "lib"
  BY DEF StageInv, LibIdle
<1>2. \A c \in Cos : stage[c] # "try" /\ task_pid[c] = AnyPid
  BY Zenon, <1>1 DEF StageInv, PlaceInv
<1>3. QED BY <1>1, <1>2 DEF SignalInv, Registered

LEMMA WaitElseInv ==
  ASSUME WaitIInv, WaitCoStep
  PROVE  WaitIInv'
<1>1. /\ Elsewhere
      /\ UNCHANGED <<doing, stage, task_pid, wait_list, waitpid_map, child_processes, signal_ready,
                     child, sigchld, reaping, doubled, listener>>
  BY DEF WaitCoStep, Elsewhere, waitOwn, childVars
<1>2. SchedInv' /\ LibIdle /\ LibIdle' /\ FramesStay
  BY <1>1, SchedElse DEF WaitIInv
<1>3. /\ \A c \in Cos : stage[c] # "none" => current # c /\ call[c] = "lib"
      /\ \A c \in Cos : stage[c] # "try" /\ task_pid[c] = AnyPid
      /\ \A c \in Cos : Registered(c, "signal") => c = listener
  BY <1>2, IdleFacts DEF WaitIInv
<1>4. \A c \in Cos : stage[c] # "none" => current' # c /\ timer'[c] = timer[c]
  BY <1>2, <1>3 DEF FramesStay, LibIdle
<1>5. WaitStateOK'
  BY <1>1 DEF WaitIInv, WaitStateOK
<1>6. StageInv'
  BY <1>1, <1>2, <1>3, <1>4 DEF WaitIInv, StageInv, FramesStay
<1>7. PlaceInv'
  BY <1>1, <1>3 DEF WaitIInv, PlaceInv, Registered
<1>8. SignalInv'
  BY <1>1, <1>3 DEF WaitIInv, SignalInv, Registered
<1>9. NoLostChild'
  BY <1>1 DEF WaitIInv, NoLostChild, Wants
<1>10. QED BY <1>2, <1>5, <1>6, <1>7, <1>8, <1>9 DEF WaitIInv

(* Steps of the rest of the system: nothing is resumed.                    *)
LEMMA WaitSameInv ==
  ASSUME WaitIInv, UNCHANGED <<coVars, doing, stage, task_pid, wait_list, waitpid_map, listener>>,
         child_processes' \subseteq Pids, child' \in [Pids -> {"runs", "zombie", "reaped"}],
         \A c \in Cos : stage[c] = "try" => child_processes' \subseteq child_processes,
         signal_ready => signal_ready', doubled' = doubled, NoLostChild'
  PROVE  WaitIInv'
<1>1. UNCHANGED <<current, call, timer>>
  BY DEF coVars, swapVars, waitVars
<1>2. SchedInv'
  BY SchedSame DEF WaitIInv
<1>3. WaitStateOK'
  BY DEF WaitIInv, WaitStateOK
<1>4. StageInv'
  BY <1>1 DEF WaitIInv, StageInv, Wants
<1>5. PlaceInv' /\ SignalInv'
  BY <1>1 DEF WaitIInv, PlaceInv, SignalInv, Registered, Wants
<1>6. QED BY <1>2, <1>3, <1>4, <1>5 DEF WaitIInv

LEMMA StoredInv ==
  ASSUME WaitIInv, NEW w \in Pids \cup {AnyPid}, waitpid_stored(w)
  PROVE  WaitIInv'
<1>1. /\ child_processes' \subseteq child_processes
      /\ UNCHANGED <<coVars, doing, stage, task_pid, wait_list, waitpid_map, signal_ready, child,
                     sigchld, reaping, doubled, listener>>
  BY DEF waitpid_stored
<1>2. NoLostChild'
  BY <1>1 DEF WaitIInv, NoLostChild, Wants
<1>3. child_processes' \subseteq Pids /\ child' \in [Pids -> {"runs", "zombie", "reaped"}]
  BY <1>1 DEF WaitIInv, WaitStateOK
<1>4. QED BY <1>1, <1>2, <1>3, WaitSameInv

LEMMA ChildEndsInv ==
  ASSUME WaitIInv, NEW p \in Pids, child_ends(p)
  PROVE  WaitIInv'
<1>1. /\ child[p] = "runs" /\ child' = [child EXCEPT ![p] = "zombie"]
      /\ sigchld' = (sigchld \/ signal_ready)
      /\ UNCHANGED <<coVars, doing, stage, task_pid, wait_list, waitpid_map, child_processes,
                     signal_ready, reaping, doubled, listener>>
  BY DEF child_ends
<1>2. child' \in [Pids -> {"runs", "zombie", "reaped"}] /\ \A q \in Pids : q # p => child'[q] = child[q]
  BY <1>1 DEF WaitIInv, WaitStateOK
<1>3. NoLostChild'
  <2>1. \A q \in Pids, c \in Cos :
          child'[q] = "zombie" /\ stage[c] = "wait" /\ Wants(doing[c], q) => sigchld' \/ reaping
    <3>1. ASSUME NEW q \in Pids, NEW c \in Cos, child'[q] = "zombie", stage[c] = "wait", Wants(doing[c], q)
          PROVE  sigchld' \/ reaping
      <4>1. doing[c] \in Pids \cup {AnyPid}
        BY <3>1 DEF Wants
      <4>2. signal_ready
        BY <4>1 DEF WaitIInv, StageInv
      <4>3. QED BY Zenon, <1>1, <4>2
    <3>2. QED BY <3>1
  <2>2. \A q \in child_processes \ doubled : q # p
    BY <1>1 DEF WaitIInv, NoLostChild
  <2>3. \A q \in child_processes : q \in Pids
    BY DEF WaitIInv, WaitStateOK
  <2>4. QED BY <1>1, <1>2, <2>1, <2>2, <2>3 DEF WaitIInv, NoLostChild, Wants
<1>4. child_processes' \subseteq Pids
  BY <1>1 DEF WaitIInv, WaitStateOK
<1>5. QED BY <1>1, <1>2, <1>3, <1>4, WaitSameInv

LEMMA HandlerInv ==
  ASSUME WaitIInv, signal_handler \/ reap_done
  PROVE  WaitIInv'
<1>1. UNCHANGED <<coVars, doing, stage, task_pid, wait_list, waitpid_map, child_processes,
                  signal_ready, child, doubled, listener>>
  BY DEF signal_handler, reap_done
<1>2. reaping' \/ \A p \in Pids : child[p] # "zombie"
  BY DEF signal_handler, reap_done
<1>3. NoLostChild'
  BY <1>1, <1>2 DEF WaitIInv, NoLostChild, Wants
<1>4. child_processes' \subseteq Pids /\ child' \in [Pids -> {"runs", "zombie", "reaped"}]
  BY <1>1 DEF WaitIInv, WaitStateOK
<1>5. QED BY <1>1, <1>3, <1>4, WaitSameInv

(* A wake-up from code that is not blocking: the scheduler's part.         *)
LEMMA WakeWaiter ==
  ASSUME SchedInv, NEW c \in Cos, call[c] = "lib", c # current,
         current \in Cos => call[current] = "none",
         resume(c), WaitTypes', UNCHANGED <<call, lists, on_bailout>>
  PROVE  SchedInv' /\ current' = c
<1>1. user_yield_coros' = user_yield_coros /\ c \notin user_yield_coros
  BY DEF lists, SchedInv
<1>2. QED BY <1>1, SchedWake

(* The timer, cancel() and the end of socket_poll() only resume.           *)
LEMMA ResumeInv ==
  ASSUME WaitIInv, current \in Cos => call[current] = "none",
         NEW c \in Cos, stage[c] \in {"wait", "deferred"}, stage' = [stage EXCEPT ![c] = "wait"],
         resume(c), WaitTypes', \A b \in Cos : b # c => timer'[b] = timer[b],
         UNCHANGED <<call, lists, on_bailout, doing, task_pid, childVars, listener>>
  PROVE  WaitIInv'
<1>1. UNCHANGED <<wait_list, waitpid_map, child_processes, signal_ready, child, sigchld, reaping, doubled>>
  BY DEF childVars
<1>2. LibIdle
  BY DEF LibIdle
<1>3. /\ \A b \in Cos : stage[b] # "none" => current # b /\ call[b] = "lib"
      /\ \A b \in Cos : stage[b] # "try" /\ task_pid[b] = AnyPid
      /\ \A b \in Cos : Registered(b, "signal") => b = listener
  BY <1>2, IdleFacts DEF WaitIInv
<1>4. SchedInv' /\ current' = c
  BY <1>3, WakeWaiter DEF WaitIInv
<1>5. stage'[c] = "wait" /\ \A b \in Cos : b # c => stage'[b] = stage[b]
  BY DEF WaitIInv, WaitStateOK
<1>6. \A b \in Cos : stage[b] = "deferred" => doing[b] = "poll"
  BY DEF WaitIInv, StageInv
<1>7. \A b \in Cos : (stage'[b] = "wait" <=> stage[b] = "wait") \/ doing[b] = "poll"
  BY <1>5, <1>6
<1>8. \A b \in Cos, w \in Pids \cup {AnyPid, "signal"} : Registered(b, w)' <=> Registered(b, w)
  BY <1>7, PidAssumption DEF Registered
<1>9. WaitStateOK'
  BY <1>1, <1>5 DEF WaitIInv, WaitStateOK
<1>10. StageInv'
  BY <1>1, <1>3, <1>4, <1>5 DEF WaitIInv, StageInv, Wants
<1>11. PlaceInv'
  BY <1>1, <1>3, <1>8 DEF WaitIInv, PlaceInv
<1>12. SignalInv'
  BY <1>3, <1>8 DEF WaitIInv, SignalInv
<1>13. NoLostChild'
  <2>1. \A b \in Cos, p \in Pids : Wants(doing[b], p) => doing[b] # "poll"
    BY PidAssumption DEF Wants
  <2>2. child_processes \subseteq Pids
    BY DEF WaitIInv, WaitStateOK
  <2>3. \A b \in Cos, p \in Pids : doing[b] = p => Wants(doing[b], p)
    BY DEF Wants
  <2>4. QED BY <1>1, <1>7, <2>1, <2>2, <2>3 DEF WaitIInv, NoLostChild
<1>14. QED BY <1>4, <1>9, <1>10, <1>11, <1>12, <1>13 DEF WaitIInv

LEMMA WaitTimerInv ==
  ASSUME WaitIInv, NEW c \in Cos, wait_timer_callback(c)
  PROVE  WaitIInv'
<1>1. /\ stage[c] = "wait" /\ current = Main /\ resume(c) /\ waker' = "timer"
      /\ timer' = [timer EXCEPT ![c] = FALSE]
      /\ resume_code' = [resume_code EXCEPT ![c] = "ok"]
      /\ UNCHANGED <<cancel_fn, call, lists, on_bailout, user_yield_coros, inflight>>
      /\ UNCHANGED <<doing, stage, task_pid, childVars, listener>>
  BY DEF wait_timer_callback, FireTimer, lists, waitOwn
<1>2. WaitTypes /\ stage \in [Cos -> {"none", "try", "wait", "deferred"}]
  BY SplitTypes DEF WaitIInv, SchedInv, WaitStateOK
<1>3. WaitTypes' /\ \A b \in Cos : b # c => timer'[b] = timer[b]
  BY <1>1, <1>2 DEF WaitTypes, Wakers, ResumeCodes
<1>4. stage' = [stage EXCEPT ![c] = "wait"]
  BY <1>1, <1>2
<1>5. QED BY Zenon, <1>1, <1>3, <1>4, ResumeInv, MainAssumption

LEMMA WaitCancelInv ==
  ASSUME WaitIInv, NEW c \in Cos, wait_cancel(c)
  PROVE  WaitIInv'
<1>1. /\ stage[c] = "wait" /\ (current \in Cos => call[current] = "none") /\ resume(c)
      /\ waker' = "cancel" /\ cancel_fn' = [cancel_fn EXCEPT ![c] = FALSE]
      /\ resume_code' = [resume_code EXCEPT ![c] = "canceled"]
      /\ UNCHANGED <<timer, call, lists, on_bailout, user_yield_coros, inflight>>
      /\ UNCHANGED <<doing, stage, task_pid, childVars, listener>>
  BY DEF wait_cancel, CancelWith, UserCode, lists, waitOwn
<1>2. WaitTypes /\ stage \in [Cos -> {"none", "try", "wait", "deferred"}]
  BY SplitTypes DEF WaitIInv, SchedInv, WaitStateOK
<1>3. WaitTypes'
  BY <1>1, <1>2 DEF WaitTypes, Wakers, ResumeCodes
<1>4. stage' = [stage EXCEPT ![c] = "wait"]
  BY <1>1, <1>2
<1>5. QED BY Zenon, <1>1, <1>3, <1>4, ResumeInv

LEMMA PollCompletedInv ==
  ASSUME WaitIInv, NEW c \in Cos, socket_poll_completed(c)
  PROVE  WaitIInv'
<1>1. /\ current = Main /\ stage[c] = "deferred" /\ stage' = [stage EXCEPT ![c] = "wait"]
      /\ waker' = "resume" /\ resume(c)
      /\ UNCHANGED <<resume_code, cancel_fn, timer, call, lists, on_bailout, user_yield_coros, inflight>>
      /\ UNCHANGED <<doing, task_pid, childVars, listener>>
  BY DEF socket_poll_completed, lists
<1>2. WaitTypes'
  BY <1>1, SplitTypes DEF WaitIInv, SchedInv, WaitTypes, Wakers
<1>3. QED BY Zenon, <1>1, <1>2, ResumeInv, MainAssumption

LEMMA SignalArrivesInv ==
  ASSUME WaitIInv, signal_arrives
  PROVE  WaitIInv'
<1>. DEFINE c == listener
<1>1. /\ current = Main /\ c # Main /\ listener' = Main /\ waker' = "resume" /\ resume(c)
      /\ UNCHANGED <<resume_code, cancel_fn, timer, call, lists, on_bailout, user_yield_coros, inflight>>
      /\ UNCHANGED <<doing, stage, task_pid>>
      /\ UNCHANGED <<wait_list, waitpid_map, child_processes, signal_ready, child, sigchld, reaping, doubled>>
  BY DEF signal_arrives, lists, childVars
<1>2. LibIdle /\ current \notin Cos
  BY <1>1, MainAssumption DEF LibIdle
<1>3. /\ \A b \in Cos : stage[b] # "none" => current # b /\ call[b] = "lib"
      /\ \A b \in Cos : stage[b] # "try" /\ task_pid[b] = AnyPid
      /\ \A b \in Cos : Registered(b, "signal") => b = listener
  BY <1>2, IdleFacts DEF WaitIInv
<1>4. c \in Cos /\ stage[c] = "wait" /\ doing[c] = "signal"
  BY <1>1 DEF WaitIInv, SignalInv, WaitStateOK, Registered
<1>5. WaitTypes'
  BY <1>1, SplitTypes DEF WaitIInv, SchedInv, WaitTypes, Wakers
<1>6. SchedInv' /\ current' = c
  BY <1>1, <1>2, <1>3, <1>4, <1>5, WakeWaiter DEF WaitIInv
<1>7. WaitStateOK'
  BY <1>1 DEF WaitIInv, WaitStateOK
<1>8. StageInv'
  BY Zenon, <1>1, <1>3, <1>4, <1>6 DEF WaitIInv, StageInv, Wants
<1>9. PlaceInv'
  BY <1>1, <1>3 DEF WaitIInv, PlaceInv, Registered
<1>10. SignalInv'
  BY <1>1, <1>3, <1>4, <1>6, MainAssumption DEF WaitIInv, SignalInv, Registered
<1>11. NoLostChild'
  BY Zenon, <1>1 DEF WaitIInv, NoLostChild, Wants
<1>12. QED BY <1>6, <1>7, <1>8, <1>9, <1>10, <1>11 DEF WaitIInv

(* One turn of the loop of signal_handler.                                 *)
LEMMA ReapInv ==
  ASSUME WaitIInv, NEW p \in Pids, reap(p)
  PROVE  WaitIInv'
<1>. SchedInv /\ WaitStateOK /\ StageInv /\ PlaceInv /\ SignalInv /\ NoLostChild
  BY DEF WaitIInv
<1>1. /\ reaping /\ current = Main /\ child[p] = "zombie" /\ child' = [child EXCEPT ![p] = "reaped"]
      /\ UNCHANGED <<doing, stage, wait_list, waitpid_map, signal_ready, sigchld, reaping, doubled,
                     listener>>
  BY DEF reap
<1>2. /\ child' \in [Pids -> {"runs", "zombie", "reaped"}]
      /\ child'[p] = "reaped" /\ \A q \in Pids : q # p => child'[q] = child[q]
  BY <1>1 DEF WaitStateOK
<1>3. LibIdle /\ current \notin Cos
  BY <1>1, MainAssumption DEF LibIdle
<1>4. /\ \A b \in Cos : stage[b] # "none" => current # b /\ call[b] = "lib"
      /\ \A b \in Cos : stage[b] # "try" /\ task_pid[b] = AnyPid
      /\ \A b \in Cos : Registered(b, "signal") => b = listener
  BY <1>3, IdleFacts
<1>5. CASE TaskOf(p) # Main
  <2>. DEFINE c == TaskOf(p)
  <2>1. /\ task_pid' = [task_pid EXCEPT ![c] = p] /\ waker' = "resume" /\ resume(c)
        /\ UNCHANGED <<resume_code, cancel_fn, timer, call, lists, on_bailout, child_processes>>
        /\ UNCHANGED <<user_yield_coros, inflight>>
    BY <1>5 DEF reap, lists
  <2>2. \/ c \in Cos /\ Registered(c, p)
        \/ c \in Cos /\ Registered(c, AnyPid) /\ wait_list # <<>> /\ Head(wait_list) = c
    <3>1. CASE waitpid_map[p] # Main
      BY <3>1 DEF TaskOf, PlaceInv, WaitStateOK
    <3>2. CASE waitpid_map[p] = Main
      <4>1. wait_list # <<>> /\ c = Head(wait_list)
        BY <1>5, <3>2 DEF TaskOf
      <4>2. c \in Cos /\ In(wait_list, c)
        BY <4>1, QueueTail DEF PlaceInv, WaitStateOK
      <4>3. QED BY <4>1, <4>2 DEF PlaceInv
    <3>3. QED BY <3>1, <3>2
  <2>3. c \in Cos /\ stage[c] = "wait" /\ Wants(doing[c], p)
    BY <2>2 DEF Registered, Wants
  <2>4. doing[c] = AnyPid => wait_list # <<>> /\ Head(wait_list) = c
    BY <2>2, PidAssumption DEF Registered
  <2>. HIDE DEF c
  <2>5. WaitTypes'
    BY <2>1, SplitTypes DEF SchedInv, WaitTypes, Wakers
  <2>6. SchedInv' /\ current' = c
    BY <1>3, <1>4, <2>1, <2>3, <2>5, WakeWaiter
  <2>7. task_pid' \in [Cos -> Pids \cup {AnyPid}] /\ task_pid'[c] = p
        /\ \A b \in Cos : b # c => task_pid'[b] = AnyPid
    BY <1>4, <2>1, <2>3 DEF WaitStateOK
  <2>8. WaitStateOK'
    BY <1>1, <1>2, <2>1, <2>7 DEF WaitStateOK
  <2>9. StageInv'
    BY ZenonT(30), <1>1, <1>4, <2>1, <2>3, <2>6 DEF StageInv, Wants
  <2>10. PlaceInv'
    <3>1. \A b \in Cos : task_pid'[b] # AnyPid =>
            /\ current' = b /\ stage[b] = "wait" /\ Wants(doing[b], task_pid'[b])
            /\ doing[b] = AnyPid => wait_list # <<>> /\ Head(wait_list) = b
      BY <2>3, <2>4, <2>6, <2>7
    <3>2. QED BY <1>1, <3>1 DEF PlaceInv, Registered, Wants
  <2>11. SignalInv'
    BY <1>1, <1>4 DEF SignalInv, Registered
  <2>12. NoLostChild'
    BY <1>1, <1>2, <2>1 DEF NoLostChild, Wants
  <2>13. QED BY <2>6, <2>8, <2>9, <2>10, <2>11, <2>12 DEF WaitIInv
<1>6. CASE TaskOf(p) = Main
  <2>1. child_processes' = child_processes \cup {p} /\ UNCHANGED <<coVars, task_pid>>
    BY <1>6 DEF reap
  <2>2. waitpid_map[p] = Main /\ wait_list = <<>>
    <3>1. waitpid_map[p] = Main
      BY <1>6 DEF TaskOf
    <3>2. wait_list # <<>> => Head(wait_list) \in Cos
      BY DEF WaitStateOK
    <3>3. QED BY <1>6, <3>1, <3>2, MainAssumption DEF TaskOf
  <2>3. p \notin doubled => \A c \in Cos : ~(stage[c] = "wait" /\ doing[c] = p)
    <3>1. \A c \in Cos : c # waitpid_map[p]
      BY <2>2, MainAssumption
    <3>2. QED BY ZenonT(30), <3>1 DEF PlaceInv, Registered
  <2>4. NoLostChild'
    <3>1. \A q \in child_processes \ doubled : q # p /\ q \in Pids
      BY <1>1 DEF NoLostChild, WaitStateOK
    <3>2. \A q \in child_processes' \ doubled :
            child'[q] = "reaped" /\ \A c \in Cos : ~(stage[c] = "wait" /\ doing[c] = q)
      BY <1>2, <2>1, <2>3, <3>1 DEF NoLostChild
    <3>3. \A q \in Pids, c \in Cos :
            child'[q] = "zombie" /\ stage[c] = "wait" /\ Wants(doing[c], q) => sigchld' \/ reaping'
      BY <1>1
    <3>4. QED BY <1>1, <2>2, <3>2, <3>3 DEF NoLostChild, Wants
  <2>5. child_processes' \subseteq Pids
    BY <2>1 DEF WaitStateOK
  <2>6. QED BY <1>1, <1>2, <1>4, <2>1, <2>4, <2>5, WaitSameInv
<1>7. QED BY <1>5, <1>6

LEMMA TriggerInv ==
  ASSUME WaitIInv, NEW c \in Cos, socket_poll_trigger_event(c)
  PROVE  WaitIInv'
<1>1. /\ current = Main /\ doing[c] = "poll" /\ stage[c] = "wait"
      /\ stage' = [stage EXCEPT ![c] = "deferred"] /\ timer' = [timer EXCEPT ![c] = FALSE]
      /\ UNCHANGED <<swapVars, resume_code, cancel_fn, call, waker, on_bailout, user_yield_coros, inflight>>
      /\ UNCHANGED <<doing, task_pid, listener, current>>
      /\ UNCHANGED <<wait_list, waitpid_map, child_processes, signal_ready, child, sigchld, reaping, doubled>>
  BY DEF socket_poll_trigger_event, childVars, lists, swapVars
<1>2. WaitTypes /\ WaitStateOK
  BY SplitTypes DEF WaitIInv, SchedInv
<1>3. WaitTypes' /\ ~timer'[c] /\ \A b \in Cos : b # c => timer'[b] = timer[b]
  BY Zenon, <1>1, <1>2 DEF WaitTypes
<1>4. SchedInv'
  BY <1>1, <1>3, SchedStay DEF WaitIInv
<1>5. stage'[c] = "deferred" /\ \A b \in Cos : b # c => stage'[b] = stage[b]
  BY <1>1, <1>2 DEF WaitStateOK
<1>6. \A b \in Cos, w \in Pids \cup {AnyPid, "signal"} : Registered(b, w)' <=> Registered(b, w)
  BY <1>1, <1>5, PidAssumption DEF Registered
<1>7. WaitStateOK'
  BY <1>1, <1>2, <1>5 DEF WaitStateOK
<1>8. StageInv'
  BY <1>1, <1>3, <1>5, MainAssumption DEF WaitIInv, StageInv, Wants
<1>9. PlaceInv'
  BY Zenon, <1>1, <1>5, <1>6, MainAssumption DEF WaitIInv, PlaceInv
<1>10. SignalInv'
  BY <1>1, <1>6 DEF WaitIInv, SignalInv
<1>11. NoLostChild'
  BY <1>1, <1>5 DEF WaitIInv, NoLostChild, Wants
<1>12. QED BY <1>4, <1>7, <1>8, <1>9, <1>10, <1>11 DEF WaitIInv

LEMMA WaitpidInv ==
  ASSUME WaitIInv, NEW w \in Pids \cup {AnyPid}, waitpid(w)
  PROVE  WaitIInv'
<1>. DEFINE c == current
<1>1. /\ c \in Cos /\ call[c] = "none" /\ ~\E p \in child_processes : Wants(w, p)
      /\ call' = [call EXCEPT ![c] = "lib"] /\ doing' = [doing EXCEPT ![c] = w]
      /\ stage' = [stage EXCEPT ![c] = "try"] /\ signal_ready' = TRUE
      /\ UNCHANGED <<swapVars, resume_code, cancel_fn, timer, waker, on_bailout, user_yield_coros, inflight>>
      /\ UNCHANGED <<task_pid, listener, current, wait_list, waitpid_map, child_processes, child, sigchld,
                     reaping, doubled>>
  BY DEF waitpid, InCoroutine, UserCode, lists, swapVars
<1>2. WaitTypes /\ WaitStateOK
  BY SplitTypes DEF WaitIInv, SchedInv
<1>3. WaitTypes'
  BY <1>1, <1>2 DEF WaitTypes, Calls
<1>4. /\ call'[c] = "lib" /\ doing'[c] = w /\ stage'[c] = "try"
      /\ \A b \in Cos : b # c => call'[b] = call[b] /\ doing'[b] = doing[b] /\ stage'[b] = stage[b]
  BY <1>1, <1>2 DEF WaitTypes, WaitStateOK
<1>5. SchedInv'
  BY <1>1, <1>3, <1>4, SchedStay DEF WaitIInv
<1>6. stage[c] = "none" /\ doing[c] = "none" /\ w # "none"
  BY <1>1, PidAssumption DEF WaitIInv, StageInv
<1>7. LibIdle
  BY <1>1 DEF LibIdle
<1>8. /\ \A b \in Cos : stage[b] # "try" /\ task_pid[b] = AnyPid
      /\ \A b \in Cos : Registered(b, "signal") => b = listener
  BY <1>7, IdleFacts DEF WaitIInv
<1>. HIDE DEF c
<1>9. \A b \in Cos, v \in Whats : Registered(b, v)' <=> Registered(b, v)
  BY <1>4, <1>6 DEF Registered
<1>10. WaitStateOK'
  BY Zenon, <1>1, <1>2 DEF WaitStateOK, Whats
<1>11. StageInv'
  <2>1. /\ \A p \in child_processes' : ~Wants(doing'[c], p)
        /\ current' = c /\ signal_ready'
    BY Zenon, <1>1, <1>4 DEF Wants, c
  <2>2. /\ call'[c] = "lib" /\ stage'[c] = "try" /\ doing'[c] # "none"
        /\ doing'[c] \in Pids \cup {AnyPid}
    BY Zenon, <1>4, <1>6
  <2>3. ASSUME NEW b \in Cos, b # c
        PROVE  /\ call'[b] = "lib" <=> stage'[b] # "none"
               /\ stage'[b] = "none" <=> doing'[b] = "none"
               /\ stage'[b] # "try"
               /\ stage'[b] = "deferred" => current' # b /\ doing'[b] = "poll" /\ ~timer'[b]
    <3>1. /\ call'[b] = call[b] /\ stage'[b] = stage[b] /\ doing'[b] = doing[b] /\ timer'[b] = timer[b]
          /\ stage[b] # "try" /\ current' = current
      BY Zenon, <1>1, <1>4, <1>8, <2>3
    <3>2. StageInv
      BY DEF WaitIInv
    <3>3. /\ call[b] = "lib" <=> stage[b] # "none"
          /\ stage[b] = "none" <=> doing[b] = "none"
          /\ stage[b] = "deferred" => current # b /\ doing[b] = "poll" /\ ~timer[b]
      BY <3>2 DEF StageInv
    <3>4. QED BY <3>1, <3>3
  <2>4. QED BY <2>1, <2>2, <2>3 DEF StageInv, Wants
<1>12. PlaceInv'
  BY Zenon, <1>1, <1>8, <1>9 DEF WaitIInv, PlaceInv, Whats
<1>13. SignalInv'
  BY Zenon, <1>1, <1>8, <1>9 DEF WaitIInv, SignalInv, Whats
<1>14. NoLostChild'
  BY <1>1, <1>4 DEF WaitIInv, NoLostChild, Wants
<1>15. QED BY <1>5, <1>10, <1>11, <1>12, <1>13, <1>14 DEF WaitIInv

(* The running coroutine is not itself in a wait.                          *)
LEMMA AloneFacts ==
  ASSUME StageInv, PlaceInv, SignalInv, NEW c \in Cos, current = c, stage[c] # "wait"
  PROVE  /\ \A b \in Cos : b # c => stage[b] # "try"
         /\ \A b \in Cos : task_pid[b] = AnyPid
         /\ \A b \in Cos : Registered(b, "signal") => b = listener
<1>1. \A b \in Cos : b # c => stage[b] # "try"
  BY DEF StageInv
<1>2. \A b \in Cos : task_pid[b] = AnyPid
  BY DEF PlaceInv
<1>3. QED BY Zenon, <1>1, <1>2 DEF SignalInv, Registered

(* The running coroutine starts to wait.                                   *)
LEMMA BlockWait ==
  ASSUME WaitIInv, NEW c \in Cos, current = c, stage[c] # "wait",
         SwapOut(c, "waiting"), WaitTypes', UNCHANGED <<user_yield_coros, on_bailout>>,
         call' = [call EXCEPT ![c] = "lib"], stage' = [stage EXCEPT ![c] = "wait"],
         \A b \in Cos : b # c => timer'[b] = timer[b] /\ doing'[b] = doing[b],
         doing' \in [Cos -> Whats], doing'[c] # "none",
         doing'[c] \in Pids \cup {AnyPid} => signal_ready,
         UNCHANGED <<task_pid, child_processes, signal_ready>>
  PROVE  /\ SchedInv' /\ StageInv'
         /\ stage' \in [Cos -> {"none", "try", "wait", "deferred"}] /\ stage'[c] = "wait"
         /\ \A b \in Cos : b # c => stage'[b] = stage[b]
         /\ \A b \in Cos, w \in Whats : Registered(b, w)' <=> Registered(b, w) \/ (b = c /\ w = doing'[c])
         /\ \A w \in Whats : ~Registered(c, w)
<1>. SchedInv /\ WaitStateOK /\ StageInv /\ PlaceInv /\ SignalInv /\ WaitTypes
  BY Zenon, SplitTypes DEF WaitIInv, SchedInv
<1>1. /\ call'[c] = "lib" /\ stage'[c] = "wait"
      /\ \A b \in Cos : b # c => call'[b] = call[b] /\ stage'[b] = stage[b]
      /\ stage' \in [Cos -> {"none", "try", "wait", "deferred"}]
  BY DEF WaitTypes, WaitStateOK
<1>2. c \notin user_yield_coros
  BY Zenon DEF SchedInv
<1>3. SchedInv' /\ current' # c /\ (current' \in Cos => call'[current'] = "none")
  BY Zenon, <1>1, <1>2, SchedOut
<1>4. \A b \in Cos : b # c => stage[b] # "try"
  BY Zenon, AloneFacts
<1>5. StageInv'
  <2>1. ASSUME NEW b \in Cos
        PROVE  /\ call'[b] = "lib" <=> stage'[b] # "none"
               /\ stage'[b] = "none" <=> doing'[b] = "none"
               /\ doing'[b] \in Pids \cup {AnyPid} => signal_ready
               /\ stage'[b] # "try"
    BY <1>1, <1>4 DEF StageInv
  <2>2. ASSUME NEW b \in Cos, stage'[b] = "deferred"
        PROVE  current' # b /\ doing'[b] = "poll" /\ ~timer'[b]
    <3>1. b # c /\ stage[b] = "deferred" /\ call'[b] = "lib"
      BY Zenon, <1>1, <2>1, <2>2
    <3>2. QED BY Zenon, <1>3, <3>1 DEF StageInv
  <2>3. QED BY Zenon, <2>1, <2>2 DEF StageInv
<1>6. QED BY <1>1, <1>3, <1>5 DEF Registered

(* The running coroutine leaves its call.                                  *)
LEMMA ReturnWait ==
  ASSUME WaitIInv, NEW c \in Cos, current = c, UNCHANGED <<swapVars, on_bailout, user_yield_coros>>,
         WaitTypes', call' = [call EXCEPT ![c] = "none"], stage' = [stage EXCEPT ![c] = "none"],
         doing' = [doing EXCEPT ![c] = "none"], \A b \in Cos : b # c => timer'[b] = timer[b],
         UNCHANGED <<child_processes, signal_ready>>
  PROVE  /\ SchedInv' /\ StageInv' /\ current' = c
         /\ stage' \in [Cos -> {"none", "try", "wait", "deferred"}] /\ doing' \in [Cos -> Whats]
         /\ stage'[c] = "none" /\ \A b \in Cos : b # c => stage'[b] = stage[b] /\ doing'[b] = doing[b]
         /\ \A b \in Cos, w \in Whats : Registered(b, w)' <=> Registered(b, w) /\ b # c
<1>. SchedInv /\ WaitStateOK /\ StageInv /\ PlaceInv /\ SignalInv /\ WaitTypes
  BY SplitTypes DEF WaitIInv, SchedInv
<1>1. /\ call'[c] = "none" /\ stage'[c] = "none" /\ doing'[c] = "none"
      /\ \A b \in Cos : b # c => call'[b] = call[b] /\ stage'[b] = stage[b] /\ doing'[b] = doing[b]
      /\ stage' \in [Cos -> {"none", "try", "wait", "deferred"}] /\ doing' \in [Cos -> Whats]
  BY DEF WaitTypes, WaitStateOK, Whats
<1>2. SchedInv' /\ current' = c
  BY Zenon, <1>1, SchedStay DEF swapVars
<1>3. StageInv'
  BY <1>1, <1>2, PidAssumption DEF StageInv, Wants
<1>4. QED BY <1>1, <1>2, <1>3 DEF Registered

LEMMA TryInv ==
  ASSUME WaitIInv, NEW t \in Timeouts, waitpid_try(t)
  PROVE  WaitIInv'
<1>. SchedInv /\ WaitStateOK /\ StageInv /\ PlaceInv /\ SignalInv /\ NoLostChild /\ WaitTypes
  BY SplitTypes DEF WaitIInv, SchedInv
<1>. DEFINE c == current
            zombies == {p \in Pids : child[p] = "zombie" /\ Wants(doing[c], p)}
<1>1. /\ c \in Cos /\ stage[c] = "try"
      /\ UNCHANGED <<user_yield_coros, inflight, on_bailout, task_pid, child_processes, signal_ready,
                     sigchld, reaping, listener>>
  BY DEF waitpid_try, lists
<1>2. /\ doing[c] \in Pids \cup {AnyPid} /\ signal_ready
      /\ \A p \in child_processes : ~Wants(doing[c], p)
  BY Zenon, <1>1 DEF StageInv
<1>3. /\ \A b \in Cos : task_pid[b] = AnyPid
      /\ \A b \in Cos : Registered(b, "signal") => b = listener
  BY Zenon, <1>1, AloneFacts
<1>4. Pids \cup {AnyPid, "signal"} \subseteq Whats
  BY DEF Whats
<1>5. CASE \E p \in zombies : child' = [child EXCEPT ![p] = "reaped"] /\ UNCHANGED wait_list
                              /\ stage' = [stage EXCEPT ![c] = "none"]
  <2>0. UNCHANGED <<swapVars, resume_code, cancel_fn, timer, waker, wait_list, waitpid_map, doubled>>
        /\ call' = [call EXCEPT ![c] = "none"] /\ doing' = [doing EXCEPT ![c] = "none"]
    <3>1. stage'[c] = "none"
      BY <1>1, <1>5 DEF WaitStateOK
    <3>2. [stage EXCEPT ![c] = "wait"][c] = "wait"
      BY <1>1 DEF WaitStateOK
    <3>3. stage' # [stage EXCEPT ![c] = "wait"]
      BY Zenon, <3>1, <3>2
    <3>4. QED BY <3>3 DEF waitpid_try
  <2>1. PICK p \in Pids : child' = [child EXCEPT ![p] = "reaped"]
    BY Zenon, <1>5
  <2>2. WaitTypes'
    BY <1>1, <2>0 DEF WaitTypes, Calls
  <2>3. /\ SchedInv' /\ StageInv' /\ current' = c
        /\ stage' \in [Cos -> {"none", "try", "wait", "deferred"}] /\ doing' \in [Cos -> Whats]
        /\ stage'[c] = "none" /\ \A b \in Cos : b # c => stage'[b] = stage[b] /\ doing'[b] = doing[b]
        /\ \A b \in Cos, w \in Whats : Registered(b, w)' <=> Registered(b, w) /\ b # c
    BY Zenon, <1>1, <1>5, <2>0, <2>2, ReturnWait
  <2>4. \A b \in Cos, w \in Whats : Registered(b, w)' <=> Registered(b, w)
    BY Zenon, <1>1, <2>3 DEF Registered
  <2>. HIDE DEF c, zombies
  <2>5. /\ child' \in [Pids -> {"runs", "zombie", "reaped"}]
        /\ \A q \in Pids : child'[q] \in {child[q], "reaped"}
    BY <2>1 DEF WaitStateOK
  <2>6. WaitStateOK'
    BY Zenon, <1>1, <2>0, <2>3, <2>5 DEF WaitStateOK
  <2>7. PlaceInv'
    BY Zenon, <1>1, <1>3, <1>4, <2>0, <2>4 DEF PlaceInv
  <2>8. SignalInv'
    BY Zenon, <1>1, <1>3, <1>4, <2>4 DEF SignalInv
  <2>9. NoLostChild'
    <3>1. \A q \in child_processes : q \in Pids
      BY DEF WaitStateOK
    <3>2. \A q \in Pids, b \in Cos :
            child'[q] = "zombie" /\ stage'[b] = "wait" /\ Wants(doing'[b], q) => sigchld \/ reaping
      <4>1. ASSUME NEW q \in Pids, NEW b \in Cos, child'[q] = "zombie", stage'[b] = "wait",
                   Wants(doing'[b], q)
            PROVE  sigchld \/ reaping
        <5>1. b # c /\ stage[b] = "wait" /\ Wants(doing[b], q)
          BY <2>3, <4>1
        <5>2. child[q] = "zombie"
          BY <2>5, <4>1
        <5>3. QED BY Zenon, <5>1, <5>2 DEF NoLostChild
      <4>2. QED BY <4>1
    <3>3. \A q \in child_processes \ doubled :
            child'[q] = "reaped" /\ \A b \in Cos : ~(stage'[b] = "wait" /\ doing'[b] = q)
      BY <2>3, <2>5, <3>1 DEF NoLostChild
    <3>4. QED BY Zenon, <1>1, <2>0, <3>2, <3>3 DEF NoLostChild, Wants
  <2>10. QED BY Zenon, <2>3, <2>6, <2>7, <2>8, <2>9 DEF WaitIInv
<1>6. CASE zombies = {} /\ BlockIn(c, "lib", t) /\ stage' = [stage EXCEPT ![c] = "wait"]
           /\ UNCHANGED <<doing, child>>
           /\ IF doing[c] = AnyPid
              THEN wait_list' = Append(wait_list, c) /\ UNCHANGED <<waitpid_map, doubled>>
              ELSE /\ waitpid_map' = [waitpid_map EXCEPT ![doing[c]] = c]
                   /\ doubled' = IF \E d \in Cos \ {c} : doing[d] = doing[c]
                                 THEN doubled \cup {doing[c]} ELSE doubled
                   /\ UNCHANGED wait_list
  <2>1. /\ SwapOut(c, "waiting") /\ resume_code' = [resume_code EXCEPT ![c] = "ok"]
        /\ cancel_fn' = [cancel_fn EXCEPT ![c] = TRUE] /\ timer' = [timer EXCEPT ![c] = TimerAdded(t)]
        /\ call' = [call EXCEPT ![c] = "lib"] /\ UNCHANGED waker
    BY <1>6 DEF BlockIn
  <2>2. WaitTypes' /\ \A b \in Cos : b # c => timer'[b] = timer[b]
    BY <1>1, <2>1 DEF WaitTypes, ResumeCodes, Calls, TimerAdded
  <2>3. doing' \in [Cos -> Whats] /\ doing'[c] = doing[c] /\ doing'[c] # "none" /\ doing' = doing
    BY Zenon, <1>2, <1>6, PidAssumption DEF WaitStateOK
  <2>4. /\ SchedInv' /\ StageInv'
        /\ stage' \in [Cos -> {"none", "try", "wait", "deferred"}] /\ stage'[c] = "wait"
        /\ \A b \in Cos : b # c => stage'[b] = stage[b]
        /\ \A b \in Cos, w \in Whats : Registered(b, w)' <=> Registered(b, w) \/ (b = c /\ w = doing'[c])
        /\ \A w \in Whats : ~Registered(c, w)
    BY Zenon, <1>1, <1>2, <1>6, <2>1, <2>2, <2>3, BlockWait
  <2>. HIDE DEF c
  <2>5. WaitStateOK' /\ PlaceInv' /\ doubled \subseteq doubled'
        /\ (wait_list' # <<>> => wait_list # <<>> \/ doing[c] = AnyPid)
    <3>1. CASE doing[c] = AnyPid
      <4>1. wait_list' = Append(wait_list, c) /\ UNCHANGED <<waitpid_map, doubled>>
        BY Zenon, <1>6, <3>1
      <4>2. ~In(wait_list, c)
        BY <1>1, <1>4, <2>4 DEF PlaceInv
      <4>3. /\ wait_list' \in Seq(Cos) /\ Once(wait_list')
            /\ \A x \in Cos : In(wait_list', x) <=> In(wait_list, x) \/ x = c
        BY <1>1, <4>1, <4>2, QueueAppend DEF PlaceInv, WaitStateOK
      <4>4. WaitStateOK'
        BY Zenon, <1>1, <1>6, <2>3, <2>4, <4>1, <4>3 DEF WaitStateOK
      <4>5. \A b \in Cos : In(wait_list', b) <=> Registered(b, AnyPid)'
        BY Zenon, <1>4, <2>3, <2>4, <3>1, <4>3 DEF PlaceInv
      <4>6. \A b \in Cos, p \in Pids : Registered(b, p)' <=> Registered(b, p)
        BY <1>4, <2>3, <2>4, <3>1, PidAssumption
      <4>7. QED BY Zenon, <1>1, <1>3, <3>1, <4>1, <4>3, <4>4, <4>5, <4>6 DEF PlaceInv
    <3>2. CASE doing[c] # AnyPid
      <4>. DEFINE p0 == doing[c]
      <4>1. /\ p0 \in Pids /\ UNCHANGED wait_list /\ waitpid_map' = [waitpid_map EXCEPT ![p0] = c]
            /\ doubled' = IF \E d \in Cos \ {c} : doing[d] = p0 THEN doubled \cup {p0} ELSE doubled
        BY <1>2, <1>6, <3>2
      <4>. HIDE DEF p0
      <4>2. /\ waitpid_map'[p0] = c /\ \A p \in Pids : p # p0 => waitpid_map'[p] = waitpid_map[p]
            /\ waitpid_map' \in [Pids -> Cos \cup {Main}]
        BY <1>1, <4>1 DEF WaitStateOK
      <4>3. WaitStateOK'
        BY Zenon, <1>1, <1>6, <2>3, <2>4, <4>1, <4>2 DEF WaitStateOK
      <4>4. \A b \in Cos : Registered(b, AnyPid)' <=> Registered(b, AnyPid)
        BY <1>4, <2>3, <2>4, <3>2
      <4>5. \A b \in Cos, p \in Pids : Registered(b, p)' <=> Registered(b, p) \/ (b = c /\ p = p0)
        BY Zenon, <1>4, <2>3, <2>4 DEF p0
      <4>6. \A p \in Pids, b \in Cos : waitpid_map'[p] = b => Registered(b, p)'
        BY <4>2, <4>5 DEF PlaceInv
      <4>7. \A p \in Pids \ doubled', b \in Cos : Registered(b, p)' => waitpid_map'[p] = b
        <5>1. ASSUME NEW p \in Pids \ doubled', NEW b \in Cos, Registered(b, p)', ~(b = c /\ p = p0)
              PROVE  waitpid_map'[p] = b
          <6>1. Registered(b, p) /\ p \notin doubled
            BY <4>1, <4>5, <5>1
          <6>2. b # c
            BY <1>4, <2>4, <6>1
          <6>3. p # p0
            BY <4>1, <5>1, <6>1, <6>2 DEF Registered
          <6>4. QED BY Zenon, <4>2, <6>1, <6>3 DEF PlaceInv
        <5>2. QED BY <4>2, <5>1
      <4>8. PlaceInv'
        BY Zenon, <1>1, <1>3, <4>1, <4>4, <4>6, <4>7 DEF PlaceInv
      <4>9. QED BY <4>1, <4>3, <4>8
    <3>3. QED BY <3>1, <3>2
  <2>6. SignalInv'
    <3>1. \A b \in Cos : Registered(b, "signal")' <=> Registered(b, "signal")
      BY <1>2, <1>4, <2>3, <2>4, PidAssumption
    <3>2. QED BY Zenon, <1>1, <1>3, <3>1 DEF SignalInv
  <2>7. NoLostChild'
    <3>1. \A p \in Pids, b \in Cos :
            child[p] = "zombie" /\ stage'[b] = "wait" /\ Wants(doing[b], p) => sigchld \/ reaping
      <4>1. \A p \in Pids : ~(child[p] = "zombie" /\ Wants(doing[c], p))
        BY <1>6
      <4>2. QED BY Zenon, <2>4, <4>1 DEF NoLostChild
    <3>2. wait_list' # <<>> => child_processes = {}
      BY Zenon, <1>2, <2>5 DEF NoLostChild, Wants
    <3>3. \A p \in child_processes \ doubled' :
            child[p] = "reaped" /\ \A b \in Cos : ~(stage'[b] = "wait" /\ doing[b] = p)
      <4>1. \A p \in child_processes : doing[c] # p
        BY <1>2 DEF Wants
      <4>2. QED BY <2>4, <2>5, <4>1 DEF NoLostChild
    <3>4. QED BY Zenon, <1>1, <1>6, <3>1, <3>2, <3>3 DEF NoLostChild, Wants
  <2>8. QED BY Zenon, <2>4, <2>5, <2>6, <2>7 DEF WaitIInv
<1>7. QED BY <1>5, <1>6 DEF waitpid_try

LEMMA WaitSignalInv ==
  ASSUME WaitIInv, NEW t \in Timeouts, wait_signal(t) \/ socket_poll(t)
  PROVE  WaitIInv'
<1>. SchedInv /\ WaitStateOK /\ StageInv /\ PlaceInv /\ SignalInv /\ NoLostChild /\ WaitTypes
  BY Zenon, SplitTypes DEF WaitIInv, SchedInv
<1>. DEFINE c == current
<1>1. PICK w \in {"signal", "poll"} :
        /\ c \in Cos /\ call[c] = "none" /\ SwapOut(c, "waiting")
        /\ resume_code' = [resume_code EXCEPT ![c] = "ok"]
        /\ timer' = [timer EXCEPT ![c] = TimerAdded(t)] /\ call' = [call EXCEPT ![c] = "lib"]
        /\ cancel_fn' \in {cancel_fn, [cancel_fn EXCEPT ![c] = TRUE]} /\ UNCHANGED waker
        /\ doing' = [doing EXCEPT ![c] = w] /\ stage' = [stage EXCEPT ![c] = "wait"]
        /\ UNCHANGED <<user_yield_coros, inflight, on_bailout, task_pid, wait_list, waitpid_map,
                       child_processes, signal_ready, child, sigchld, reaping, doubled>>
        /\ IF w = "signal" THEN listener = Main /\ listener' = c ELSE listener' = listener
  <2>1. CASE wait_signal(t)
    BY Zenon, <2>1 DEF wait_signal, BlockIn, InCoroutine, UserCode, lists, childVars
  <2>2. CASE socket_poll(t)
    BY <2>2 DEF socket_poll, InCoroutine, UserCode, lists, childVars
  <2>3. QED BY Zenon, <2>1, <2>2
<1>2. WaitTypes' /\ \A b \in Cos : b # c => timer'[b] = timer[b]
  BY Zenon, <1>1 DEF WaitTypes, ResumeCodes, Calls, TimerAdded
<1>3. /\ doing' \in [Cos -> Whats] /\ doing'[c] = w /\ w \notin Pids \cup {AnyPid, "none"}
      /\ \A b \in Cos : b # c => doing'[b] = doing[b]
  BY <1>1, PidAssumption DEF WaitStateOK, Whats
<1>4. stage[c] = "none"
  BY <1>1 DEF StageInv
<1>5. /\ SchedInv' /\ StageInv'
      /\ stage' \in [Cos -> {"none", "try", "wait", "deferred"}] /\ stage'[c] = "wait"
      /\ \A b \in Cos : b # c => stage'[b] = stage[b]
      /\ \A b \in Cos, v \in Whats : Registered(b, v)' <=> Registered(b, v) \/ (b = c /\ v = doing'[c])
      /\ \A v \in Whats : ~Registered(c, v)
  BY ZenonT(30), <1>1, <1>2, <1>3, <1>4, BlockWait
<1>6. /\ \A b \in Cos : task_pid[b] = AnyPid
      /\ \A b \in Cos : Registered(b, "signal") => b = listener
  BY <1>1, <1>4, AloneFacts
<1>. HIDE DEF c
<1>7. WaitStateOK'
  BY Zenon, <1>1, <1>3, <1>5 DEF WaitStateOK
<1>8. \A b \in Cos, v \in Pids \cup {AnyPid} : Registered(b, v)' <=> Registered(b, v)
  BY Zenon, <1>3, <1>5 DEF Whats
<1>9. PlaceInv'
  BY Zenon, <1>1, <1>6, <1>8 DEF PlaceInv
<1>10. SignalInv'
  <2>1. \A b \in Cos : Registered(b, "signal")' <=> Registered(b, "signal") \/ (b = c /\ w = "signal")
    BY Zenon, <1>3, <1>5 DEF Whats
  <2>2. CASE w = "signal"
    <3>1. \A b \in Cos : ~Registered(b, "signal")
      BY <1>1, <1>6, <2>2, MainAssumption
    <3>2. QED BY <1>1, <2>1, <2>2, <3>1 DEF SignalInv
  <2>3. CASE w # "signal"
    BY Zenon, <1>1, <1>6, <2>1, <2>3 DEF SignalInv
  <2>4. QED BY <2>2, <2>3
<1>11. NoLostChild'
  <2>1. \A p \in Pids : ~Wants(doing'[c], p)
    BY <1>3 DEF Wants
  <2>2. \A p \in Pids, b \in Cos :
          child[p] = "zombie" /\ stage'[b] = "wait" /\ Wants(doing'[b], p) => sigchld \/ reaping
    BY Zenon, <1>3, <1>5, <2>1 DEF NoLostChild
  <2>3. \A p \in child_processes : doing'[c] # p
    BY Zenon, <1>3 DEF WaitStateOK
  <2>4. \A p \in child_processes \ doubled :
          child[p] = "reaped" /\ \A b \in Cos : ~(stage'[b] = "wait" /\ doing'[b] = p)
    <3>1. ASSUME NEW p \in child_processes \ doubled
          PROVE  child[p] = "reaped" /\ \A b \in Cos : b # c => ~(stage'[b] = "wait" /\ doing'[b] = p)
      <4>1. \A b \in Cos : b # c => stage'[b] = stage[b] /\ doing'[b] = doing[b]
        BY <1>3, <1>5
      <4>2. child[p] = "reaped" /\ \A b \in Cos : ~(stage[b] = "wait" /\ doing[b] = p)
        BY DEF NoLostChild
      <4>3. QED BY <4>1, <4>2
    <3>2. QED BY Zenon, <2>3, <3>1
  <2>5. QED BY <1>1, <2>2, <2>4 DEF NoLostChild, Wants
<1>12. QED BY <1>5, <1>7, <1>9, <1>10, <1>11 DEF WaitIInv

(* A coroutine that leaves its wait waits for nothing.                     *)
LEMMA LostLeave ==
  ASSUME NoLostChild, NEW c \in Cos, stage'[c] = "none",
         \A b \in Cos : b # c => stage'[b] = stage[b] /\ doing'[b] = doing[b],
         UNCHANGED <<child, child_processes, sigchld, reaping, doubled>>,
         wait_list' # <<>> => wait_list # <<>>
  PROVE  NoLostChild'
<1>1. \A p \in Pids, b \in Cos :
        child[p] = "zombie" /\ stage'[b] = "wait" /\ Wants(doing'[b], p) => sigchld \/ reaping
  BY Zenon DEF NoLostChild
<1>2. \A p \in child_processes \ doubled :
        child[p] = "reaped" /\ \A b \in Cos : ~(stage'[b] = "wait" /\ doing'[b] = p)
  BY DEF NoLostChild
<1>3. QED BY Zenon, <1>1, <1>2 DEF NoLostChild, Wants

LEMMA AfterSignalInv ==
  ASSUME WaitIInv, after_wait_signal \/ after_socket_poll
  PROVE  WaitIInv'
<1>. SchedInv /\ WaitStateOK /\ StageInv /\ PlaceInv /\ SignalInv /\ NoLostChild /\ WaitTypes
  BY Zenon, SplitTypes DEF WaitIInv, SchedInv
<1>. DEFINE c == current
<1>1. PICK w \in {"signal", "poll"} :
        /\ c \in Cos /\ doing[c] = w
        /\ call' = [call EXCEPT ![c] = "none"] /\ waker' = "none" /\ UNCHANGED <<resume_code, swapVars>>
        /\ timer' \in {timer, [timer EXCEPT ![c] = FALSE]}
        /\ cancel_fn' \in {cancel_fn, [cancel_fn EXCEPT ![c] = FALSE]}
        /\ doing' = [doing EXCEPT ![c] = "none"] /\ stage' = [stage EXCEPT ![c] = "none"]
        /\ UNCHANGED <<user_yield_coros, inflight, on_bailout, task_pid, wait_list, waitpid_map,
                       child_processes, signal_ready, child, sigchld, reaping, doubled>>
        /\ listener' = IF w = "signal" THEN Main ELSE listener
  <2>1. CASE after_wait_signal
    BY <2>1 DEF after_wait_signal, Unblock, lists, childVars
  <2>2. CASE after_socket_poll
    BY <2>2 DEF after_socket_poll, lists, childVars
  <2>3. QED BY <2>1, <2>2
<1>2. WaitTypes' /\ \A b \in Cos : b # c => timer'[b] = timer[b]
  BY Zenon, <1>1 DEF WaitTypes, Calls, Wakers
<1>3. /\ SchedInv' /\ StageInv' /\ current' = c
      /\ stage' \in [Cos -> {"none", "try", "wait", "deferred"}] /\ doing' \in [Cos -> Whats]
      /\ stage'[c] = "none" /\ \A b \in Cos : b # c => stage'[b] = stage[b] /\ doing'[b] = doing[b]
      /\ \A b \in Cos, v \in Whats : Registered(b, v)' <=> Registered(b, v) /\ b # c
  BY Zenon, <1>1, <1>2, ReturnWait
<1>4. \A b \in Cos : task_pid[b] = AnyPid
  <2>1. w \notin Pids \cup {AnyPid}
    BY PidAssumption
  <2>2. \A b \in Cos : task_pid[b] # AnyPid => Wants(w, task_pid[b])
    BY Zenon, <1>1 DEF PlaceInv
  <2>3. QED BY Zenon, <2>1, <2>2 DEF Wants, WaitStateOK
<1>5. Registered(c, "signal") <=> w = "signal"
  <2>1. stage[c] = "wait"
    <3>1. w \notin Pids \cup {AnyPid, "none"}
      BY PidAssumption
    <3>2. stage[c] # "none" /\ stage[c] # "try" /\ stage[c] # "deferred"
      BY <1>1, <3>1 DEF StageInv
    <3>3. QED BY <1>1, <3>2 DEF WaitStateOK
  <2>2. QED BY <1>1, <2>1 DEF Registered
<1>. HIDE DEF c
<1>6. WaitStateOK'
  BY Zenon, <1>1, <1>3 DEF WaitStateOK
<1>7. \A b \in Cos, v \in Pids \cup {AnyPid} : Registered(b, v)' <=> Registered(b, v)
  <2>1. \A v \in Pids \cup {AnyPid} : ~Registered(c, v)
    BY <1>1, PidAssumption DEF Registered
  <2>2. QED BY <1>3, <2>1 DEF Whats
<1>8. PlaceInv'
  BY Zenon, <1>1, <1>4, <1>7 DEF PlaceInv
<1>9. SignalInv'
  <2>1. \A b \in Cos : Registered(b, "signal")' <=> Registered(b, "signal") /\ b # c
    BY <1>3 DEF Whats
  <2>2. CASE w = "signal"
    <3>1. \A b \in Cos : ~Registered(b, "signal")'
      BY Zenon, <1>1, <1>5, <2>1, <2>2 DEF SignalInv
    <3>2. QED BY <1>1, <2>2, <3>1, MainAssumption DEF SignalInv
  <2>3. CASE w # "signal"
    BY Zenon, <1>1, <1>3, <1>5, <2>1, <2>3 DEF SignalInv, c
  <2>4. QED BY <2>2, <2>3
<1>10. NoLostChild'
  BY Zenon, <1>1, <1>3, LostLeave
<1>11. QED BY <1>3, <1>6, <1>8, <1>9, <1>10 DEF WaitIInv

(* The caller of waitpid() leaves the list, as its first when the handler  *)
(* gave it a status and from the middle when it did not, or the map.       *)
LEMMA AfterWaitpidInv ==
  ASSUME WaitIInv, after_waitpid
  PROVE  WaitIInv'
<1>. SchedInv /\ WaitStateOK /\ StageInv /\ PlaceInv /\ SignalInv /\ NoLostChild /\ WaitTypes
  BY Zenon, SplitTypes DEF WaitIInv, SchedInv
<1>. DEFINE c == current
<1>1. /\ c \in Cos /\ stage[c] = "wait" /\ doing[c] \in Pids \cup {AnyPid}
      /\ call' = [call EXCEPT ![c] = "none"] /\ waker' = "none" /\ UNCHANGED <<resume_code, swapVars>>
      /\ timer' = [timer EXCEPT ![c] = FALSE] /\ cancel_fn' = [cancel_fn EXCEPT ![c] = FALSE]
      /\ doing' = [doing EXCEPT ![c] = "none"] /\ stage' = [stage EXCEPT ![c] = "none"]
      /\ task_pid' = [task_pid EXCEPT ![c] = AnyPid]
      /\ UNCHANGED <<user_yield_coros, inflight, on_bailout, child_processes, signal_ready, child,
                     sigchld, reaping, doubled, listener>>
      /\ IF doing[c] = AnyPid
         THEN /\ wait_list' = IF task_pid[c] # AnyPid THEN Tail(wait_list) ELSE Remove(wait_list, c)
              /\ UNCHANGED waitpid_map
         ELSE waitpid_map' = [waitpid_map EXCEPT ![doing[c]] = Main] /\ UNCHANGED wait_list
  BY Zenon DEF after_waitpid, Unblock, lists
<1>2. WaitTypes' /\ \A b \in Cos : b # c => timer'[b] = timer[b]
  BY <1>1 DEF WaitTypes, Calls, Wakers
<1>3. /\ SchedInv' /\ StageInv' /\ current' = c
      /\ stage' \in [Cos -> {"none", "try", "wait", "deferred"}] /\ doing' \in [Cos -> Whats]
      /\ stage'[c] = "none" /\ \A b \in Cos : b # c => stage'[b] = stage[b] /\ doing'[b] = doing[b]
      /\ \A b \in Cos, v \in Whats : Registered(b, v)' <=> Registered(b, v) /\ b # c
  BY Zenon, <1>1, <1>2, ReturnWait
<1>4. task_pid' \in [Cos -> Pids \cup {AnyPid}] /\ \A b \in Cos : task_pid'[b] = AnyPid
  BY <1>1 DEF WaitStateOK, PlaceInv
<1>5. Registered(c, doing[c])
  BY Zenon, <1>1 DEF Registered
<1>6. task_pid[c] # AnyPid /\ doing[c] = AnyPid => wait_list # <<>> /\ Head(wait_list) = c
  BY Zenon, <1>1 DEF PlaceInv
<1>7. \A b \in Cos, v \in Pids \cup {AnyPid, "signal"} : Registered(b, v)' <=> Registered(b, v) /\ b # c
  BY <1>3 DEF Whats
<1>. HIDE DEF c
<1>8. /\ PlaceInv' /\ wait_list' \in Seq(Cos) /\ waitpid_map' \in [Pids -> Cos \cup {Main}]
      /\ (wait_list' # <<>> => wait_list # <<>>)
  <2>1. CASE doing[c] = AnyPid
    <3>1. /\ UNCHANGED waitpid_map
          /\ wait_list' = IF task_pid[c] # AnyPid THEN Tail(wait_list) ELSE Remove(wait_list, c)
      BY <1>1, <2>1
    <3>2. /\ wait_list' \in Seq(Cos) /\ Once(wait_list')
          /\ \A x \in Cos : In(wait_list', x) <=> In(wait_list, x) /\ x # c
      <4>1. wait_list \in Seq(Cos) /\ Once(wait_list)
        BY DEF WaitStateOK, PlaceInv
      <4>2. CASE task_pid[c] # AnyPid
        <5>1. wait_list # <<>> /\ Head(wait_list) = c /\ wait_list' = Tail(wait_list)
          BY <1>6, <2>1, <3>1, <4>2
        <5>2. QED BY Zenon, <4>1, <5>1, QueueTail
      <4>3. CASE task_pid[c] = AnyPid
        BY Zenon, <1>1, <3>1, <4>1, <4>3, QueueRemove
      <4>4. QED BY <4>2, <4>3
    <3>3. wait_list' # <<>> => wait_list # <<>>
      <4>1. wait_list \in Seq(Cos)
        BY DEF WaitStateOK
      <4>2. wait_list = <<>> => \A x \in Cos : ~In(wait_list, x)
        BY Zenon, <4>1, QueueEmpty
      <4>3. wait_list = <<>> => \A x \in Cos : ~In(wait_list', x)
        BY <3>2, <4>2
      <4>4. (\A x \in Cos : ~In(wait_list', x)) => wait_list' = <<>>
        BY <3>2, QueueEmpty
      <4>5. QED BY <4>3, <4>4
    <3>4. \A b \in Cos : In(wait_list', b) <=> Registered(b, AnyPid)'
      BY Zenon, <1>7, <3>2 DEF PlaceInv
    <3>5. \A b \in Cos, p \in Pids : Registered(b, p)' <=> Registered(b, p)
      <4>1. \A p \in Pids : ~Registered(c, p)
        BY Zenon, <2>1, PidAssumption DEF Registered
      <4>2. QED BY <1>7, <4>1
    <3>6. PlaceInv'
      BY <1>1, <1>4, <3>1, <3>2, <3>4, <3>5 DEF PlaceInv
    <3>7. QED BY <3>1, <3>2, <3>3, <3>6 DEF WaitStateOK
  <2>2. CASE doing[c] # AnyPid
    <3>. DEFINE p0 == doing[c]
    <3>1. p0 \in Pids /\ waitpid_map' = [waitpid_map EXCEPT ![p0] = Main] /\ UNCHANGED wait_list
      BY <1>1, <2>2
    <3>2. Registered(c, p0) /\ \A p \in Pids \cup {AnyPid} : p # p0 => ~Registered(c, p)
      BY Zenon, <1>5 DEF Registered
    <3>3. p0 # AnyPid
      BY <2>2
    <3>. HIDE DEF p0
    <3>4. /\ waitpid_map'[p0] = Main /\ \A p \in Pids : p # p0 => waitpid_map'[p] = waitpid_map[p]
          /\ waitpid_map' \in [Pids -> Cos \cup {Main}]
      BY <3>1 DEF WaitStateOK
    <3>5. \A b \in Cos : Registered(b, AnyPid)' <=> Registered(b, AnyPid)
      BY <1>7, <3>2, <3>3
    <3>6. \A p \in Pids, b \in Cos : waitpid_map'[p] = b => Registered(b, p)'
      <4>1. ASSUME NEW p \in Pids, NEW b \in Cos, waitpid_map'[p] = b PROVE Registered(b, p)'
        <5>1. p # p0
          BY Zenon, <3>4, <4>1, MainAssumption
        <5>2. Registered(b, p)
          BY <3>4, <4>1, <5>1 DEF PlaceInv
        <5>3. QED BY <1>7, <3>2, <5>1, <5>2
      <4>2. QED BY <4>1
    <3>7. \A p \in Pids \ doubled, b \in Cos : Registered(b, p)' => waitpid_map'[p] = b
      <4>1. ASSUME NEW p \in Pids \ doubled, NEW b \in Cos, Registered(b, p)'
            PROVE  waitpid_map'[p] = b
        <5>1. Registered(b, p) /\ b # c
          BY Zenon, <1>7, <4>1
        <5>2. waitpid_map[p] = b
          BY Zenon, <5>1 DEF PlaceInv
        <5>3. p # p0
          BY <1>1, <3>2, <5>1, <5>2 DEF PlaceInv
        <5>4. QED BY <3>4, <5>2, <5>3
      <4>2. QED BY <4>1
    <3>8. PlaceInv'
      BY <1>1, <1>4, <3>1, <3>5, <3>6, <3>7 DEF PlaceInv
    <3>9. QED BY <3>1, <3>4, <3>8 DEF WaitStateOK
  <2>3. QED BY <2>1, <2>2
<1>9. WaitStateOK'
  BY Zenon, <1>1, <1>3, <1>4, <1>8 DEF WaitStateOK
<1>10. SignalInv'
  <2>1. ~Registered(c, "signal")
    BY <1>1, PidAssumption DEF Registered
  <2>2. QED BY Zenon, <1>1, <1>3, <1>7, <2>1 DEF SignalInv, c
<1>11. NoLostChild'
  BY Zenon, <1>1, <1>3, <1>8, LostLeave
<1>12. QED BY <1>3, <1>8, <1>9, <1>10, <1>11 DEF WaitIInv

LEMMA WaitInitInv == CoInit /\ WaitInit => WaitIInv
<1>1. SUFFICES ASSUME CoInit, WaitInit PROVE WaitIInv
  OBVIOUS
<1>2. SchedInv /\ \A c \in Cos : call[c] = "none"
  BY <1>1, SchedInit DEF CoInit
<1>3. WaitStateOK
  BY <1>1 DEF WaitInit, WaitStateOK, Whats
<1>4. /\ \A c \in Cos : doing[c] = "none" /\ stage[c] = "none" /\ task_pid[c] = AnyPid
      /\ \A p \in Pids : waitpid_map[p] = Main
      /\ wait_list = <<>> /\ child_processes = {} /\ listener = Main
  BY <1>1 DEF WaitInit
<1>5. StageInv
  BY Zenon, <1>2, <1>4, PidAssumption DEF StageInv
<1>6. PlaceInv
  <2>1. Once(wait_list) /\ \A c \in Cos : ~In(wait_list, c)
    BY <1>4 DEF Once, In
  <2>2. QED BY <1>4, <2>1, MainAssumption DEF PlaceInv, Registered
<1>7. SignalInv
  BY Zenon, <1>4, MainAssumption DEF SignalInv, Registered
<1>8. NoLostChild
  BY <1>4 DEF NoLostChild
<1>9. QED BY <1>2, <1>3, <1>5, <1>6, <1>7, <1>8 DEF WaitIInv

LEMMA WaitNextInv == WaitIInv /\ [WaitNext]_sysVars => WaitIInv'
<1>1. SUFFICES ASSUME WaitIInv, [WaitNext]_sysVars PROVE WaitIInv'
  OBVIOUS
<1>2. CASE WaitCoStep
  BY <1>1, <1>2, WaitElseInv
<1>3. ASSUME NEW w \in Pids \cup {AnyPid}, waitpid(w) \/ waitpid_stored(w) PROVE WaitIInv'
  BY <1>1, <1>3, WaitpidInv, StoredInv
<1>4. ASSUME NEW t \in Timeouts, waitpid_try(t) \/ wait_signal(t) \/ socket_poll(t) PROVE WaitIInv'
  BY <1>1, <1>4, TryInv, WaitSignalInv
<1>5. ASSUME NEW p \in Pids, child_ends(p) \/ reap(p) PROVE WaitIInv'
  BY <1>1, <1>5, ChildEndsInv, ReapInv
<1>6. CASE signal_handler \/ reap_done
  BY <1>1, <1>6, HandlerInv
<1>7. CASE signal_arrives
  BY <1>1, <1>7, SignalArrivesInv
<1>8. CASE WaitGoesOn
  BY <1>1, <1>8, AfterWaitpidInv, AfterSignalInv DEF WaitGoesOn
<1>9. ASSUME NEW c \in Cos, \/ socket_poll_trigger_event(c) \/ socket_poll_completed(c)
                            \/ wait_timer_callback(c) \/ wait_cancel(c)
      PROVE  WaitIInv'
  BY <1>1, <1>9, TriggerInv, PollCompletedInv, WaitTimerInv, WaitCancelInv
<1>10. CASE UNCHANGED sysVars
  <2>1. UNCHANGED <<coVars, doing, stage, task_pid, wait_list, waitpid_map, listener, child_processes,
                    child, signal_ready, doubled, sigchld, reaping>>
    BY <1>10 DEF sysVars, waitOwn, childVars
  <2>2. child_processes' \subseteq Pids /\ child' \in [Pids -> {"runs", "zombie", "reaped"}]
    BY Zenon, <1>1, <2>1 DEF WaitIInv, WaitStateOK
  <2>3. NoLostChild'
    BY <1>1, <2>1 DEF WaitIInv, NoLostChild, Wants
  <2>4. QED BY <1>1, <2>1, <2>2, <2>3, WaitSameInv
<1>11. QED BY <1>1, <1>2, <1>3, <1>4, <1>5, <1>6, <1>7, <1>8, <1>9, <1>10 DEF WaitNext

LEMMA WaitsMatchHolds == WaitIInv => WaitsMatch
<1>1. SUFFICES ASSUME WaitIInv PROVE WaitsMatch
  OBVIOUS
<1>. SchedInv /\ WaitStateOK /\ StageInv /\ PlaceInv /\ SignalInv /\ NoLostChild
  BY <1>1 DEF WaitIInv
<1>2. \A i, j \in DOMAIN wait_list : wait_list[i] = wait_list[j] => i = j
  BY Zenon DEF PlaceInv, Once
<1>3. {wait_list[i] : i \in DOMAIN wait_list} = {c \in Cos : Registered(c, AnyPid)}
  BY DEF PlaceInv, In, WaitStateOK
<1>4. \A p \in Pids \ doubled : \A c \in Cos : waitpid_map[p] = c <=> Registered(c, p)
  BY Zenon DEF PlaceInv
<1>5. \A c \in Cos : task_pid[c] # AnyPid =>
        current = c /\ Registered(c, doing[c]) /\ Wants(doing[c], task_pid[c])
  BY DEF PlaceInv, Registered
<1>6. \A c \in Cos : stage[c] = "deferred" => state[c] = "waiting" /\ ~timer[c]
  BY DEF StageInv, SchedInv
<1>7. QED BY Zenon, <1>2, <1>3, <1>4, <1>5, <1>6 DEF WaitsMatch, SignalInv

(* Every task the SIGCHLD handler may write to or resume, in the list, in  *)
(* the map or in the slot of wait_signal(), belongs to a coroutine that is *)
(* still inside its wait; nobody waits for a child that has ended without  *)
(* a signal to come; and a status goes to a caller that asked for it:      *)
(* signal_handler, waitpid() and wait_signal() of coroutine/system.cc, for *)
(* any set of coroutines and of children.                                  *)
THEOREM ChildrenFindTheirWaiters == WaitSpec => []WaitsMatch
<1>1. CoInit /\ WaitInit => WaitIInv
  BY WaitInitInv
<1>2. WaitIInv /\ [WaitNext]_sysVars => WaitIInv'
  BY WaitNextInv
<1>3. WaitIInv => WaitsMatch
  BY WaitsMatchHolds
<1>4. QED BY <1>1, <1>2, <1>3, PTL DEF WaitSpec

=============================================================================
