--------------------------- MODULE ManagerProofs ---------------------------
(***************************************************************************)
(* Proofs about the manager process, for any number of event, task and     *)
(* user workers and any number of signals, crashes and failing forks: no   *)
(* slot is left with a process that was reaped, and a reload takes the     *)
(* workers down one after the other and forgets none.                      *)
(*                                                                         *)
(* Between wait() and the handling of what it returned, the slot of the    *)
(* reaped process is empty and other children end, announce themselves and *)
(* are replaced; a reload goes on by comparing that pid with the one it    *)
(* told last.  The invariant says where the reload is at each of these     *)
(* points.                                                                 *)
(***************************************************************************)
EXTENDS Manager, WellFoundedInduction, TLAPS

ProcRecord == [slot : Slots, st : {"run", "term", "pushed", "leaving", "zombie", "reaped"}]
Settled == {"read", "clear", "select", "handle"}

TypeInv ==
  /\ ManagerTypeOK
  /\ reload_async \in BOOLEAN /\ task_enable_coroutine \in BOOLEAN

(* A record's process was made for its slot; a pid that wait() returned is *)
(* that of a reaped process until the next wait().                         *)
ProcInv ==
  /\ \A s \in Slots : procs[pid[s]].slot = s
  /\ pc \in Settled \cup {"kill"} /\ exit_status # NoPid => procs[exit_status].st = "reaped"

(* The slot of the process that was just reaped is the only empty one.     *)
FillInv ==
  /\ running => InLoop
  /\ running => \A s \in EventSlots \cup (Slots \ failed) :
       procs[pid[s]].st = "reaped" => pc \in Settled /\ pid[s] = exit_status

(* Event workers that are reloaded asynchronously are not waited for.  The *)
(* worker a reload waits for is the next of its list, until it has been    *)
(* replaced or a new list is made; those before it are gone.  The list of  *)
(* a finished reload is still used when a child ends between the signal    *)
(* that asks for a new one and its start.                                  *)
NotWaitedFor(p) == procs[p].st = "reaped" \/ (reload_async /\ procs[p].slot \in EventSlots)

ReloadInv ==
  /\ reload_worker_pid # NoPid =>
       /\ reload_worker_pid \in told
       /\ \/ /\ reload_worker_i < reload_worker_num
             /\ reload_worker_pid = reload_workers[reload_worker_i + 1]
          \/ pc = "kill" /\ reloading /\ NotWaitedFor(reload_worker_pid)
  /\ ~reload_init => \A k \in 1..reload_worker_num : NotWaitedFor(reload_workers[k])
  /\ \A k \in 1..reload_worker_i : NotWaitedFor(reload_workers[k])
  /\ reload_init => \A k \in 1..reload_worker_i :
       reload_workers[k] \in told \/ procs[reload_workers[k]].st = "reaped"
  /\ \A p \in told :
       Alive(p) /\ procs[p].slot \in (IF reload_async THEN TaskSlots ELSE Slots)
       => p = reload_worker_pid

ManagerInv == TypeInv /\ ProcInv /\ FillInv /\ ReloadInv

-----------------------------------------------------------------------------
(* What happens to processes: they keep their slots, those that ended stay *)
(* ended and those that were reaped stay reaped.                           *)
Evolves(ps, qs) ==
  /\ qs \in Seq(ProcRecord) /\ Len(ps) <= Len(qs)
  /\ \A p \in 1..Len(ps) :
       /\ qs[p].slot = ps[p].slot
       /\ ps[p].st = "reaped" => qs[p].st = "reaped"
       /\ ps[p].st = "zombie" => qs[p].st \in {"zombie", "reaped"}
NoneReaped(ps, qs) ==
  \A p \in 1..Len(ps) : qs[p].st = "reaped" => ps[p].st = "reaped"

LEMMA IsSeq ==
  ASSUME NEW n \in Nat, NEW S, NEW q \in [1..n -> S]
  PROVE  q \in Seq(S) /\ Len(q) = n
OBVIOUS

LEMMA WithState ==
  ASSUME NEW r \in ProcRecord, NEW st \in {"run", "term", "pushed", "leaving", "zombie", "reaped"}
  PROVE  /\ [r EXCEPT !.st = st] \in ProcRecord /\ [r EXCEPT !.st = st].slot = r.slot
         /\ [r EXCEPT !.st = st].st = st
BY DEF ProcRecord

LEMMA ProcFields ==
  ASSUME procs \in Seq(ProcRecord), NEW p \in 1..Len(procs)
  PROVE  procs[p] \in ProcRecord /\ procs[p].slot \in Slots
<1>1. procs[p] \in ProcRecord
  OBVIOUS
<1>2. \A r \in ProcRecord : r.slot \in Slots
  BY DEF ProcRecord
<1>3. QED BY <1>1, <1>2

LEMMA TermEvolves ==
  ASSUME NEW ps \in Seq(ProcRecord), NEW P
  PROVE  Evolves(ps, Term(ps, P)) /\ NoneReaped(ps, Term(ps, P)) /\ Len(Term(ps, P)) = Len(ps)
<1>. Len(ps) \in Nat /\ \A p \in 1..Len(ps) : ps[p] \in ProcRecord
  OBVIOUS
<1>1. Term(ps, P) \in [1..Len(ps) -> ProcRecord]
  BY Zenon, WithState DEF Term
<1>2. Term(ps, P) \in Seq(ProcRecord) /\ Len(Term(ps, P)) = Len(ps)
  BY <1>1, IsSeq
<1>3. QED BY <1>2, WithState DEF Term, Evolves, NoneReaped

LEMMA KillEvolves ==
  ASSUME NEW ps \in Seq(ProcRecord), NEW P
  PROVE  Evolves(ps, Kill(ps, P)) /\ NoneReaped(ps, Kill(ps, P)) /\ Len(Kill(ps, P)) = Len(ps)
<1>. Len(ps) \in Nat /\ \A p \in 1..Len(ps) : ps[p] \in ProcRecord
  OBVIOUS
<1>1. Kill(ps, P) \in [1..Len(ps) -> ProcRecord]
  BY Zenon, WithState DEF Kill
<1>2. Kill(ps, P) \in Seq(ProcRecord) /\ Len(Kill(ps, P)) = Len(ps)
  BY <1>1, IsSeq
<1>3. QED BY <1>2, WithState DEF Kill, Evolves, NoneReaped

LEMMA ReapEvolves ==
  ASSUME NEW ps \in Seq(ProcRecord), NEW P
  PROVE  Evolves(ps, Reap(ps, P)) /\ Len(Reap(ps, P)) = Len(ps)
<1>. Len(ps) \in Nat /\ \A p \in 1..Len(ps) : ps[p] \in ProcRecord
  OBVIOUS
<1>1. Reap(ps, P) \in [1..Len(ps) -> ProcRecord]
  BY Zenon, WithState DEF Reap
<1>2. Reap(ps, P) \in Seq(ProcRecord) /\ Len(Reap(ps, P)) = Len(ps)
  BY <1>1, IsSeq
<1>3. QED BY <1>2, WithState DEF Reap, Evolves

LEMMA AppendEvolves ==
  ASSUME NEW ps \in Seq(ProcRecord), NEW r \in ProcRecord
  PROVE  /\ Evolves(ps, Append(ps, r)) /\ NoneReaped(ps, Append(ps, r))
         /\ Len(Append(ps, r)) = Len(ps) + 1 /\ Append(ps, r)[Len(ps) + 1] = r
BY DEF Evolves, NoneReaped, ProcRecord

(* A worker's own steps: it changes its state, and is not a zombie before. *)
LEMMA StateEvolves ==
  ASSUME NEW ps \in Seq(ProcRecord), NEW p \in 1..Len(ps), NEW st \in {"term", "pushed", "leaving", "zombie"},
         ps[p].st \notin {"zombie", "reaped"}
  PROVE  LET qs == [ps EXCEPT ![p].st = st] IN Evolves(ps, qs) /\ NoneReaped(ps, qs) /\ Len(qs) = Len(ps)
<1> DEFINE qs == [ps EXCEPT ![p].st = st]
<1>. Len(ps) \in Nat /\ ps \in [1..Len(ps) -> ProcRecord]
  OBVIOUS
<1>. [ps[p] EXCEPT !.st = st] \in ProcRecord
  BY Zenon, WithState
<1>1. qs \in [1..Len(ps) -> ProcRecord]
  OBVIOUS
<1>2. qs \in Seq(ProcRecord) /\ Len(qs) = Len(ps)
  BY <1>1, IsSeq
<1>3. QED BY <1>2, WithState DEF Evolves, NoneReaped

LEMMA SameEvolves ==
  ASSUME NEW ps \in Seq(ProcRecord)
  PROVE  Evolves(ps, ps) /\ NoneReaped(ps, ps)
BY DEF Evolves, NoneReaped, ProcRecord

LEMMA SeqGrows ==
  ASSUME NEW S, NEW T, S \subseteq T, NEW q \in Seq(S)
  PROVE  q \in Seq(T)
OBVIOUS

(* What is a pid stays one.                                                *)
LEMMA TypesGrow ==
  ASSUME ManagerTypeOK, Evolves(procs, procs')
  PROVE  /\ procs' \in Seq(ProcRecord) /\ Pids \subseteq Pids'
         /\ pid \in [Slots -> Pids'] /\ exit_status \in Pids' \cup {NoPid}
         /\ reload_worker_pid \in Pids' \cup {NoPid}
         /\ reload_workers \in Seq(Pids') /\ killers \in Seq(SUBSET Pids') /\ told \subseteq Pids'
<1>1. procs' \in Seq(ProcRecord) /\ Pids \subseteq Pids'
  BY DEF Evolves, ManagerTypeOK, Pids
<1>2. reload_workers \in Seq(Pids') /\ killers \in Seq(SUBSET Pids')
  BY <1>1, SeqGrows DEF ManagerTypeOK
<1>3. QED BY <1>1, <1>2 DEF ManagerTypeOK

LEMMA ReloadTypes ==
  ASSUME ManagerTypeOK
  PROVE  /\ reload_worker_num \in Nat /\ reload_worker_i \in Nat /\ reload_worker_i <= reload_worker_num
         /\ reload_workers \in Seq(Pids) /\ reload_worker_num <= Len(reload_workers)
         /\ \A k \in 1..reload_worker_num : reload_workers[k] \in Pids
<1>1. reload_workers \in Seq(Pids) /\ reload_worker_num \in 0..Len(reload_workers)
      /\ reload_worker_i \in 0..reload_worker_num
  BY DEF ManagerTypeOK
<1>2. QED BY <1>1

-----------------------------------------------------------------------------
(* The steps that neither fill a slot nor move a reload on.                *)
Ordinary ==
  /\ Evolves(procs, procs') /\ (running' => NoneReaped(procs, procs'))
  /\ UNCHANGED <<pid, failed, reloadVars, reload_init, settingVars>>
  /\ running' => running /\ InLoop'
  /\ exit_status # NoPid /\ pc \in Settled => pc' \in Settled /\ exit_status' = exit_status
  /\ pc = "kill" => pc' = "kill" /\ (reloading => reloading')
  /\ pc' \in Settled \cup {"kill"} /\ exit_status' # NoPid =>
       pc \in Settled \cup {"kill"} /\ exit_status' = exit_status

(* No step of a process makes the reload wait for it again.                *)
NotWaitedForNext(p) ==
  procs'[p].st = "reaped" \/ (reload_async /\ procs'[p].slot \in EventSlots)

LEMMA WaitedForLess ==
  ASSUME Evolves(procs, procs'), NEW p \in Pids
  PROVE  /\ NotWaitedFor(p) => NotWaitedForNext(p)
         /\ procs'[p].st \notin {"zombie", "reaped"} => Alive(p)
         /\ procs'[p].slot = procs[p].slot
         /\ procs[p].st = "reaped" => procs'[p].st = "reaped"
BY DEF Evolves, Alive, Pids, NotWaitedFor, NotWaitedForNext

LEMMA ReloadKeeps ==
  ASSUME ManagerTypeOK, ReloadInv, Evolves(procs, procs'), UNCHANGED <<reloadVars, reload_init, settingVars>>,
         pc = "kill" => pc' = "kill" /\ (reloading => reloading')
  PROVE  ReloadInv'
<1>. told \subseteq Pids /\ reload_worker_pid \in Pids \cup {NoPid}
  BY DEF ManagerTypeOK
<1>. /\ \A k \in 1..reload_worker_num : reload_workers[k] \in Pids
     /\ \A k \in 1..reload_worker_i : k \in 1..reload_worker_num
  BY ReloadTypes
<1>1. UNCHANGED <<reload_worker_i, reload_worker_num, reload_worker_pid, reload_workers, told,
                  reload_init, reload_async>>
  BY DEF reloadVars, settingVars
<1>2. reload_worker_pid # NoPid =>
        /\ reload_worker_pid \in told
        /\ \/ /\ reload_worker_i < reload_worker_num
              /\ reload_worker_pid = reload_workers[reload_worker_i + 1]
           \/ pc' = "kill" /\ reloading' /\ NotWaitedForNext(reload_worker_pid)
  BY WaitedForLess DEF ReloadInv
<1>3. /\ ~reload_init => \A k \in 1..reload_worker_num : NotWaitedForNext(reload_workers[k])
      /\ \A k \in 1..reload_worker_i : NotWaitedForNext(reload_workers[k])
      /\ reload_init => \A k \in 1..reload_worker_i :
           reload_workers[k] \in told \/ procs'[reload_workers[k]].st = "reaped"
  BY WaitedForLess DEF ReloadInv
<1>4. \A p \in told :
        /\ procs'[p].st \notin {"zombie", "reaped"}
        /\ procs'[p].slot \in (IF reload_async THEN TaskSlots ELSE Slots)
        => p = reload_worker_pid
  BY WaitedForLess DEF ReloadInv
<1>5. QED BY <1>1, <1>2, <1>3, <1>4 DEF ReloadInv, NotWaitedFor, NotWaitedForNext, Alive

LEMMA OrdinaryKeeps ==
  ASSUME ManagerInv, Ordinary
  PROVE  ProcInv' /\ FillInv' /\ ReloadInv'
<1>. /\ ManagerTypeOK /\ ProcInv /\ FillInv /\ ReloadInv
     /\ \A s \in Slots : pid[s] \in Pids /\ pid[s] # NoPid
     /\ EventSlots \cup (Slots \ failed) \subseteq Slots
  BY DEF ManagerInv, TypeInv, ManagerTypeOK, Pids, NoPid, Slots
<1>. /\ Evolves(procs, procs') /\ Pids = 1..Len(procs)
     /\ UNCHANGED <<pid, failed, reloadVars, reload_init, settingVars>>
  BY DEF Ordinary, Pids
<1>1. ProcInv'
  BY Zenon DEF ProcInv, Ordinary, Evolves, ManagerTypeOK
<1>2. FillInv'
  <2>1. SUFFICES ASSUME running', NEW s \in EventSlots \cup (Slots \ failed),
                        procs'[pid[s]].st = "reaped"
                 PROVE  pc' \in Settled /\ pid[s] = exit_status'
    BY DEF Ordinary, FillInv
  <2>2. procs[pid[s]].st = "reaped" /\ running
    BY <2>1 DEF Ordinary, NoneReaped
  <2>3. pc \in Settled /\ pid[s] = exit_status
    BY <2>2 DEF FillInv
  <2>4. QED BY <2>3 DEF Ordinary
<1>3. ReloadInv'
  BY ReloadKeeps DEF Ordinary
<1>4. QED BY <1>1, <1>2, <1>3

(* The common part of the proofs of types.                                 *)
LEMMA TypesHold ==
  ASSUME ManagerInv, Evolves(procs, procs'), UNCHANGED settingVars,
         pc' \in {"enter", "wait", "read", "clear", "select", "handle", "kill",
                  "exit", "wait_event", "wait_task", "wait_user", "stopped"},
         exit_status' \in Pids \cup {NoPid}, killers' \in Seq(SUBSET Pids),
         message_box' \in Seq(Slots), outside' \in 0..MaxOutside, fork_fails' \in 0..MaxForkFails,
         {running, reloading, reload_all_worker, reload_task_worker, reload_init, read_message,
          signal_alarm, alarm_hooked, alarm_armed}' \subseteq BOOLEAN,
         pid' \in [Slots -> Pids'], failed' \subseteq Slots, told' \subseteq Pids,
         reload_workers' \in Seq(Pids), reload_worker_num' \in 0..Len(reload_workers'),
         reload_worker_i' \in 0..reload_worker_num', reload_worker_pid' \in Pids \cup {NoPid}
  PROVE  TypeInv'
<1>1. ManagerTypeOK
  BY DEF ManagerInv, TypeInv
<1>2. procs' \in Seq(ProcRecord) /\ Pids \subseteq Pids'
  BY <1>1, TypesGrow
<1>3. /\ exit_status' \in Pids' \cup {NoPid} /\ killers' \in Seq(SUBSET Pids')
      /\ reload_worker_pid' \in Pids' \cup {NoPid} /\ reload_workers' \in Seq(Pids')
      /\ told' \subseteq Pids'
  BY <1>2, SeqGrows
<1>4. ManagerTypeOK'
  BY <1>2, <1>3 DEF ManagerTypeOK, ProcRecord
<1>5. QED BY <1>4 DEF ManagerInv, TypeInv, settingVars

LEMMA TypesKeep ==
  ASSUME ManagerInv, Evolves(procs, procs'), UNCHANGED <<settingVars, reloadVars, pid, failed>>,
         pc' \in {"enter", "wait", "read", "clear", "select", "handle", "kill",
                  "exit", "wait_event", "wait_task", "wait_user", "stopped"},
         exit_status' \in Pids \cup {NoPid}, killers' \in Seq(SUBSET Pids),
         message_box' \in Seq(Slots), outside' \in 0..MaxOutside, fork_fails' \in 0..MaxForkFails,
         {running, reloading, reload_all_worker, reload_task_worker, reload_init, read_message,
          signal_alarm, alarm_hooked, alarm_armed}' \subseteq BOOLEAN
  PROVE  TypeInv'
<1>1. ManagerTypeOK
  BY DEF ManagerInv, TypeInv
<1>2. pid' \in [Slots -> Pids']
  BY <1>1, TypesGrow
<1>3. /\ reload_workers' \in Seq(Pids) /\ reload_worker_num' \in 0..Len(reload_workers')
      /\ reload_worker_i' \in 0..reload_worker_num' /\ failed' \subseteq Slots
      /\ reload_worker_pid' \in Pids \cup {NoPid} /\ told' \subseteq Pids
  BY <1>1 DEF ManagerTypeOK, reloadVars
<1>4. QED BY <1>2, <1>3, TypesHold

LEMMA Unpacked ==
  ASSUME ManagerInv
  PROVE  /\ ManagerTypeOK /\ procs \in Seq(ProcRecord) /\ Evolves(procs, procs) /\ NoneReaped(procs, procs)
         /\ exit_status \in Pids \cup {NoPid} /\ killers \in Seq(SUBSET Pids) /\ message_box \in Seq(Slots)
         /\ outside \in 0..MaxOutside /\ fork_fails \in 0..MaxForkFails
         /\ running => InLoop
BY Zenon, SameEvolves DEF ManagerInv, TypeInv, FillInv, ManagerTypeOK, ProcRecord

LEMMA LoopSteps ==
  ASSUME ManagerInv, UNCHANGED settingVars,
         wait_blocks \/ box_empty \/ clear_read_message \/ wait_failed
  PROVE  ManagerInv'
<1>. /\ ManagerTypeOK /\ Evolves(procs, procs) /\ NoneReaped(procs, procs)
     /\ exit_status \in Pids \cup {NoPid} /\ killers \in Seq(SUBSET Pids) /\ message_box \in Seq(Slots)
     /\ outside \in 0..MaxOutside /\ fork_fails \in 0..MaxForkFails
     /\ running => InLoop
  BY Unpacked
<1>. /\ UNCHANGED <<reloadVars, pid, procs, failed, reload_init, running, reloading, exit_status,
                    killers, message_box, outside, fork_fails>>
     /\ {running, reloading, reload_all_worker, reload_task_worker, reload_init, read_message,
         signal_alarm, alarm_hooked, alarm_armed}' \subseteq BOOLEAN
     /\ pc' \in {"wait", "clear", "select", "enter", "exit"}
  BY Zenon DEF ManagerTypeOK, wait_blocks, box_empty, clear_read_message, wait_failed, Loop, flagVars,
         timerVars, workerVars, boundVars
<1>1. TypeInv'
  BY TypesKeep
<1>2. Ordinary
  BY DEF Ordinary, Settled, InLoop, wait_blocks, box_empty, clear_read_message, wait_failed, Loop
<1>3. QED BY <1>1, <1>2, OrdinaryKeeps DEF ManagerInv

LEMMA SignalSteps ==
  ASSUME ManagerInv, UNCHANGED settingVars, SIGTERM \/ SIGUSR1 \/ SIGUSR2 \/ timer_SIGALRM
  PROVE  ManagerInv'
<1>. /\ ManagerTypeOK /\ Evolves(procs, procs) /\ NoneReaped(procs, procs)
     /\ exit_status \in Pids \cup {NoPid} /\ killers \in Seq(SUBSET Pids) /\ message_box \in Seq(Slots)
     /\ outside \in 0..MaxOutside /\ fork_fails \in 0..MaxForkFails
     /\ running => InLoop
  BY Unpacked
<1>. /\ UNCHANGED <<reloadVars, pid, procs, failed, reload_init, killers, message_box, fork_fails>>
     /\ Interrupted /\ InLoop /\ (running' => running) /\ (reloading => reloading')
  BY DEF SIGTERM, SIGUSR1, SIGUSR2, timer_SIGALRM, flagVars, timerVars, workerVars, boundVars
<1>. {running, reloading, reload_all_worker, reload_task_worker, reload_init, read_message,
      signal_alarm, alarm_hooked, alarm_armed}' \subseteq BOOLEAN
  <2>1. {running, reloading, reload_all_worker, reload_task_worker, reload_init, read_message,
         signal_alarm, alarm_hooked, alarm_armed} \subseteq BOOLEAN
    BY DEF ManagerTypeOK
  <2>2. /\ running' \in BOOLEAN /\ reloading' \in BOOLEAN /\ reload_all_worker' \in BOOLEAN
        /\ reload_task_worker' \in BOOLEAN /\ signal_alarm' \in BOOLEAN
    BY Zenon, <2>1 DEF SIGTERM, SIGUSR1, SIGUSR2, timer_SIGALRM
  <2>3. UNCHANGED <<reload_init, read_message, alarm_hooked, alarm_armed>>
    BY DEF SIGTERM, SIGUSR1, SIGUSR2, timer_SIGALRM, timerVars
  <2>4. QED BY <2>1, <2>2, <2>3
<1>. outside' \in 0..MaxOutside
  BY ManagerAssumption DEF SIGTERM, SIGUSR1, SIGUSR2, timer_SIGALRM, boundVars
<1>. /\ exit_status' \in Pids \cup {NoPid}
     /\ pc' \in {"enter", "wait", "read", "clear", "select", "handle", "kill",
                 "exit", "wait_event", "wait_task", "wait_user", "stopped"}
  BY DEF Interrupted, ManagerTypeOK
<1>1. TypeInv'
  BY TypesKeep
<1>2. Ordinary
  BY DEF Ordinary, Settled, InLoop, Interrupted
<1>3. QED BY <1>1, <1>2, OrdinaryKeeps DEF ManagerInv

LEMMA TimerSelect ==
  ASSUME ManagerInv, UNCHANGED settingVars, timer_select
  PROVE  ManagerInv'
<1>. /\ ManagerTypeOK /\ procs \in Seq(ProcRecord) /\ Evolves(procs, procs) /\ NoneReaped(procs, procs)
     /\ exit_status \in Pids \cup {NoPid} /\ killers \in Seq(SUBSET Pids) /\ message_box \in Seq(Slots)
     /\ outside \in 0..MaxOutside /\ fork_fails \in 0..MaxForkFails
     /\ running => InLoop
  BY Unpacked
<1>1. /\ UNCHANGED <<reloadVars, pid, failed, reload_init, running, reloading, exit_status,
                     message_box, outside, fork_fails>>
      /\ pc = "select" /\ pc' = "handle"
      /\ {running, reloading, reload_all_worker, reload_task_worker, reload_init, read_message,
          signal_alarm, alarm_hooked, alarm_armed}' \subseteq BOOLEAN
  BY Zenon DEF ManagerTypeOK, timer_select, boundVars
<1>2. Evolves(procs, procs') /\ NoneReaped(procs, procs')
  BY Zenon, KillEvolves DEF timer_select
<1>3. killers' \in Seq(SUBSET Pids)
  <2>1. CASE killers' = killers
    BY <2>1
  <2>2. CASE killers' # killers
    <3>1. PICK n \in (IF killers = <<>> THEN {0} ELSE 1..Len(killers)) :
            killers' = SubSeq(killers, n + 1, Len(killers))
      BY Zenon, <2>2 DEF timer_select
    <3>2. n \in Nat
      OBVIOUS
    <3>3. \A m \in Nat : SubSeq(killers, m + 1, Len(killers)) \in Seq(SUBSET Pids)
      OBVIOUS
    <3>4. QED BY <3>1, <3>2, <3>3
  <2>3. QED BY <2>1, <2>2
<1>4. TypeInv'
  BY <1>1, <1>2, <1>3, TypesKeep
<1>5. Ordinary
  BY <1>1, <1>2 DEF Ordinary, Settled, InLoop
<1>6. QED BY <1>4, <1>5, OrdinaryKeeps DEF ManagerInv

(* The end of the manager: it is out of the loop, and not running.         *)
LEMMA StopSteps ==
  ASSUME ManagerInv, UNCHANGED settingVars,
         \/ kill_event_workers \/ wait_event_workers \/ wait_task_workers \/ wait_user_workers
         \/ force_kill_SIGALRM
  PROVE  ManagerInv'
<1>. /\ ManagerTypeOK /\ procs \in Seq(ProcRecord) /\ Evolves(procs, procs) /\ NoneReaped(procs, procs)
     /\ exit_status \in Pids \cup {NoPid} /\ killers \in Seq(SUBSET Pids) /\ message_box \in Seq(Slots)
     /\ outside \in 0..MaxOutside /\ fork_fails \in 0..MaxForkFails
     /\ running => InLoop
  BY Unpacked
<1>1. /\ UNCHANGED <<reloadVars, pid, failed, reload_init, running, reloading, exit_status,
                     message_box, outside, fork_fails>>
      /\ killers' \in Seq(SUBSET Pids)
      /\ {running, reloading, reload_all_worker, reload_task_worker, reload_init, read_message,
          signal_alarm, alarm_hooked, alarm_armed}' \subseteq BOOLEAN
  <2>1. {running, reloading, reload_all_worker, reload_task_worker, reload_init, read_message,
         signal_alarm, alarm_hooked, alarm_armed} \subseteq BOOLEAN
    BY DEF ManagerTypeOK
  <2>2. CASE kill_event_workers
    <3>1. signal_alarm' \in BOOLEAN /\ alarm_armed' \in BOOLEAN
      BY <2>1, <2>2, ManagerAssumption DEF kill_event_workers
    <3>2. QED BY <2>1, <2>2, <3>1 DEF kill_event_workers, boundVars
  <2>3. CASE wait_event_workers \/ wait_task_workers \/ wait_user_workers
    <3>1. alarm_armed' \in BOOLEAN
      BY Zenon, <2>1, <2>3 DEF wait_event_workers, wait_task_workers, wait_user_workers, waitpid_all
    <3>2. QED BY Zenon, <2>1, <2>3, <3>1 DEF wait_event_workers, wait_task_workers, wait_user_workers, waitpid_all,
                 boundVars, flagVars
  <2>4. CASE force_kill_SIGALRM
    BY Zenon, <2>1, <2>4 DEF force_kill_SIGALRM, boundVars
  <2>5. QED BY <2>2, <2>3, <2>4
<1>2. Evolves(procs, procs')
  <2>1. \A P, Q : Evolves(procs, Term(Reap(procs, P), Q))
    <3>1. SUFFICES ASSUME NEW P, NEW Q PROVE Evolves(procs, Term(Reap(procs, P), Q))
      OBVIOUS
    <3>2. Evolves(procs, Reap(procs, P)) /\ Reap(procs, P) \in Seq(ProcRecord)
      BY ReapEvolves DEF Evolves
    <3>3. Evolves(Reap(procs, P), Term(Reap(procs, P), Q))
      BY <3>2, TermEvolves
    <3>4. QED BY <3>2, <3>3 DEF Evolves
  <2>2. QED BY <2>1, TermEvolves, KillEvolves
        DEF kill_event_workers, wait_event_workers, wait_task_workers, wait_user_workers, waitpid_all,
            force_kill_SIGALRM
<1>3. running' => NoneReaped(procs, procs') /\ pc' = pc
  BY <1>1, KillEvolves
     DEF kill_event_workers, wait_event_workers, wait_task_workers, wait_user_workers, waitpid_all,
         force_kill_SIGALRM, InLoop
<1>4. \/ pc' = pc
      \/ /\ pc \in {"exit", "wait_event", "wait_task", "wait_user"}
         /\ pc' \in {"wait_event", "wait_task", "wait_user", "stopped"}
  BY DEF kill_event_workers, wait_event_workers, wait_task_workers, wait_user_workers, waitpid_all,
         force_kill_SIGALRM
<1>5. pc' \in {"enter", "wait", "read", "clear", "select", "handle", "kill",
               "exit", "wait_event", "wait_task", "wait_user", "stopped"}
  BY <1>4 DEF ManagerTypeOK
<1>6. TypeInv'
  BY Zenon, <1>1, <1>2, <1>5, TypesKeep
<1>7. Ordinary
  BY <1>1, <1>2, <1>3, <1>4 DEF Ordinary, Settled, InLoop
<1>8. QED BY <1>6, <1>7, OrdinaryKeeps DEF ManagerInv

LEMMA WorkerSteps ==
  ASSUME ManagerInv, UNCHANGED settingVars, NEW p \in Pids, WorkerStep(p)
  PROVE  ManagerInv'
<1>. /\ ManagerTypeOK /\ procs \in Seq(ProcRecord) /\ Evolves(procs, procs) /\ NoneReaped(procs, procs)
     /\ exit_status \in Pids \cup {NoPid} /\ killers \in Seq(SUBSET Pids) /\ message_box \in Seq(Slots)
     /\ outside \in 0..MaxOutside /\ fork_fails \in 0..MaxForkFails
     /\ running => InLoop
  BY Unpacked
<1>. p \in 1..Len(procs)
  BY DEF Pids
<1>. procs[p].slot \in Slots
  BY ProcFields
<1>1. /\ UNCHANGED <<reloadVars, pid, failed, reload_init, running, reloading, killers, fork_fails>>
      /\ {running, reloading, reload_all_worker, reload_task_worker, reload_init, read_message,
          signal_alarm, alarm_hooked, alarm_armed}' \subseteq BOOLEAN
  BY Zenon DEF ManagerTypeOK, WorkerStep, reach_max_request, push_stop_message, SIGIO, exits, crashes,
         flagVars, timerVars, boundVars
<1>2. outside' \in 0..MaxOutside /\ message_box' \in Seq(Slots)
  <2>1. /\ outside' = outside \/ (outside < MaxOutside /\ outside' = outside + 1)
        /\ message_box' = message_box \/ message_box' = Append(message_box, procs[p].slot)
    BY Zenon DEF WorkerStep, reach_max_request, push_stop_message, SIGIO, exits, crashes, boundVars
  <2>2. outside' \in 0..MaxOutside
    BY <2>1, ManagerAssumption
  <2>3. Append(message_box, procs[p].slot) \in Seq(Slots)
    OBVIOUS
  <2>4. QED BY Zenon, <2>1, <2>2, <2>3
<1>3. Evolves(procs, procs') /\ NoneReaped(procs, procs')
  <2>1. /\ procs[p].st \notin {"zombie", "reaped"}
        /\ \E st \in {"term", "pushed", "leaving", "zombie"} : procs' = [procs EXCEPT ![p].st = st]
    BY DEF WorkerStep, reach_max_request, push_stop_message, SIGIO, exits, crashes, SetState, Alive
  <2>2. PICK st \in {"term", "pushed", "leaving", "zombie"} : procs' = [procs EXCEPT ![p].st = st]
    BY Zenon, <2>1
  <2>3. QED BY Zenon, <2>1, <2>2, StateEvolves
<1>4. UNCHANGED <<pc, exit_status>> \/ (InLoop /\ Interrupted)
  BY Zenon DEF WorkerStep, reach_max_request, push_stop_message, SIGIO, exits, crashes
<1>5. /\ exit_status' \in Pids \cup {NoPid}
      /\ pc' \in {"enter", "wait", "read", "clear", "select", "handle", "kill",
                  "exit", "wait_event", "wait_task", "wait_user", "stopped"}
  BY Zenon, <1>4 DEF Interrupted, ManagerTypeOK
<1>6. TypeInv'
  BY <1>1, <1>2, <1>3, <1>5, TypesKeep
<1>7. Ordinary
  BY <1>1, <1>3, <1>4 DEF Ordinary, Settled, InLoop, Interrupted
<1>8. QED BY <1>6, <1>7, OrdinaryKeeps DEF ManagerInv

-----------------------------------------------------------------------------
(* Children are reaped and replaced.                                       *)
LEMMA WaitProcess ==
  ASSUME ManagerInv, UNCHANGED settingVars, NEW p \in Pids, wait_process(p)
  PROVE  ManagerInv'
<1>. /\ ManagerTypeOK /\ procs \in Seq(ProcRecord)
     /\ exit_status \in Pids \cup {NoPid} /\ killers \in Seq(SUBSET Pids) /\ message_box \in Seq(Slots)
     /\ outside \in 0..MaxOutside /\ fork_fails \in 0..MaxForkFails
     /\ running => InLoop
  BY Unpacked
<1>. ProcInv /\ FillInv /\ ReloadInv
  BY DEF ManagerInv
<1>1. /\ UNCHANGED <<reloadVars, pid, failed, reload_init, running, reloading, killers, fork_fails,
                     outside, message_box>>
      /\ {running, reloading, reload_all_worker, reload_task_worker, reload_init, read_message,
          signal_alarm, alarm_hooked, alarm_armed}' \subseteq BOOLEAN
      /\ pc \in {"enter", "wait"} /\ pc' = "read" /\ exit_status' = p
      /\ procs' = Reap(procs, {p}) /\ procs[p].st = "zombie"
  BY DEF ManagerTypeOK, wait_process, flagVars, timerVars, boundVars
<1>2. Evolves(procs, procs')
  BY Zenon, <1>1, ReapEvolves
<1>3. TypeInv'
  BY Zenon, <1>1, <1>2, TypesKeep
<1>4. /\ procs'[p].st = "reaped"
      /\ \A q \in 1..Len(procs) : q # p => procs'[q] = procs[q]
  <2>1. p \in 1..Len(procs) /\ procs[p] \in ProcRecord
    BY DEF Pids
  <2>2. [procs[p] EXCEPT !.st = "reaped"].st = "reaped"
    BY <2>1, WithState
  <2>3. QED BY Zenon, <1>1, <2>1, <2>2 DEF Reap
<1>5. \A s \in Slots : pid[s] \in 1..Len(procs)
  BY Zenon DEF ManagerTypeOK, Pids
<1>6. ProcInv'
  BY Zenon, <1>1, <1>2, <1>4, <1>5 DEF ProcInv, Evolves
<1>7. FillInv'
  <2>1. SUFFICES ASSUME running, NEW s \in EventSlots \cup (Slots \ failed),
                        procs'[pid[s]].st = "reaped", pid[s] # p
                 PROVE  FALSE
    BY Zenon, <1>1 DEF FillInv, InLoop, Settled
  <2>2. procs[pid[s]].st = "reaped"
    BY <2>1, <1>4, <1>5 DEF Slots
  <2>3. QED BY Zenon, <2>1, <2>2, <1>1 DEF FillInv, Settled
<1>8. ReloadInv'
  BY <1>1, <1>2, ReloadKeeps
<1>9. QED BY <1>3, <1>6, <1>7, <1>8 DEF ManagerInv

(* A slot is filled: its record holds a new process.                       *)
LEMMA SpawnFills ==
  ASSUME ManagerInv, NEW s \in Slots, Spawned(s, procs)
  PROVE  /\ Evolves(procs, procs') /\ pid' \in [Slots -> Pids'] /\ failed' \subseteq Slots
         /\ fork_fails' = fork_fails
         /\ \A t \in Slots : procs'[pid'[t]].slot = t
         /\ procs'[pid'[s]].st = "run"
         /\ \A t \in Slots \ {s} : /\ pid'[t] = pid[t] /\ procs'[pid'[t]].st = procs[pid[t]].st
                                   /\ t \in failed' <=> t \in failed
<1>. /\ procs \in Seq(ProcRecord) /\ pid \in [Slots -> 1..Len(procs)] /\ failed \subseteq Slots
     /\ \A t \in Slots : procs[pid[t]].slot = t
  BY Zenon, Unpacked DEF ManagerInv, ManagerTypeOK, ProcInv, Pids
<1> DEFINE r == [slot |-> s, st |-> "run"]
<1>. r \in ProcRecord /\ r.slot = s /\ r.st = "run"
  BY DEF ProcRecord
<1>1. /\ procs' = Append(procs, r) /\ pid' = [pid EXCEPT ![s] = Len(procs) + 1]
      /\ failed' = failed \ {s} /\ fork_fails' = fork_fails
  BY DEF Spawned
<1> HIDE DEF r
<1>2. /\ Evolves(procs, procs') /\ Len(procs') = Len(procs) + 1 /\ procs'[Len(procs) + 1] = r
  BY <1>1, AppendEvolves
<1>3. \A q \in 1..Len(procs) : procs'[q] = procs[q]
  BY <1>1
<1>4. pid'[s] = Len(procs) + 1 /\ \A t \in Slots \ {s} : pid'[t] = pid[t]
  BY <1>1
<1>5. pid' \in [Slots -> Pids']
  BY <1>1, <1>2 DEF Pids
<1>6. QED BY <1>1, <1>2, <1>3, <1>4, <1>5

(* A failed fork() or none: the records stay, and a slot may be given up.  *)
LEMMA ForkFails ==
  ASSUME ManagerInv, NEW s \in Slots, NEW n \in Nat,
         \/ ForkFailed(s, n)
         \/ UNCHANGED <<procs, pid, failed, fork_fails>>
  PROVE  /\ UNCHANGED <<procs, pid>> /\ failed \subseteq failed' /\ failed' \subseteq Slots
         /\ fork_fails' \in 0..MaxForkFails /\ pid' \in [Slots -> Pids']
<1>. /\ fork_fails \in 0..MaxForkFails /\ MaxForkFails \in Nat /\ failed \subseteq Slots
     /\ pid \in [Slots -> Pids]
  BY Unpacked, ManagerAssumption DEF ManagerTypeOK
<1>1. UNCHANGED <<procs, pid>> /\ failed \subseteq failed' /\ failed' \subseteq Slots
  BY DEF ForkFailed
<1>2. fork_fails' \in 0..MaxForkFails
  BY DEF ForkFailed
<1>3. Pids' = Pids
  BY <1>1 DEF Pids
<1>4. QED BY <1>1, <1>2, <1>3

LEMMA PopMessage ==
  ASSUME ManagerInv, UNCHANGED settingVars, pop_message
  PROVE  ManagerInv'
<1>. /\ ManagerTypeOK /\ procs \in Seq(ProcRecord) /\ Evolves(procs, procs) /\ NoneReaped(procs, procs)
     /\ exit_status \in Pids \cup {NoPid} /\ killers \in Seq(SUBSET Pids) /\ message_box \in Seq(Slots)
     /\ outside \in 0..MaxOutside /\ fork_fails \in 0..MaxForkFails
     /\ running => InLoop
  BY Unpacked
<1>. ProcInv /\ FillInv /\ ReloadInv /\ told \subseteq Pids
  BY DEF ManagerInv, ManagerTypeOK
<1> DEFINE h == Head(message_box)
<1>1. h \in Slots /\ message_box' \in Seq(Slots)
  BY DEF pop_message
<1>2. /\ UNCHANGED <<reloadVars, reload_init, running, reloading, exit_status, killers, outside, pc>>
      /\ {running, reloading, reload_all_worker, reload_task_worker, reload_init, read_message,
          signal_alarm, alarm_hooked, alarm_armed}' \subseteq BOOLEAN
      /\ pc = "read"
  BY DEF ManagerTypeOK, pop_message, flagVars, timerVars, boundVars
<1>3. \/ Spawned(h, procs) \/ ForkFailed(h, 1)
      \/ ~running /\ UNCHANGED <<procs, pid, failed, fork_fails>>
  BY DEF pop_message
<1> HIDE DEF h
<1>4. /\ reload_workers' \in Seq(Pids) /\ reload_worker_num' \in 0..Len(reload_workers')
      /\ reload_worker_i' \in 0..reload_worker_num' /\ told' \subseteq Pids
      /\ reload_worker_pid' \in Pids \cup {NoPid}
  BY Zenon, <1>2 DEF ManagerTypeOK, reloadVars
<1>5. pc' \in {"enter", "wait", "read", "clear", "select", "handle", "kill",
               "exit", "wait_event", "wait_task", "wait_user", "stopped"}
  BY <1>2
<1>6. CASE Spawned(h, procs)
  <2>1. /\ Evolves(procs, procs') /\ pid' \in [Slots -> Pids'] /\ failed' \subseteq Slots
        /\ fork_fails' = fork_fails
        /\ \A t \in Slots : procs'[pid'[t]].slot = t
        /\ procs'[pid'[h]].st = "run"
        /\ \A t \in Slots \ {h} : /\ pid'[t] = pid[t] /\ procs'[pid'[t]].st = procs[pid[t]].st
                                  /\ t \in failed' <=> t \in failed
    BY Zenon, <1>1, <1>6, SpawnFills
  <2>2. TypeInv'
    BY <1>1, <1>2, <1>4, <1>5, <2>1, TypesHold
  <2>3. ProcInv'
    BY Zenon, <1>2, <2>1 DEF ProcInv, Evolves, Pids
  <2>4. FillInv'
    BY Zenon, <1>2, <2>1 DEF FillInv, InLoop, Settled, Slots
  <2>5. ReloadInv'
    BY <1>2, <2>1, ReloadKeeps
  <2>6. QED BY <2>2, <2>3, <2>4, <2>5 DEF ManagerInv
<1>7. CASE ForkFailed(h, 1) \/ (~running /\ UNCHANGED <<procs, pid, failed, fork_fails>>)
  <2>1. /\ UNCHANGED <<procs, pid>> /\ failed \subseteq failed' /\ failed' \subseteq Slots
        /\ fork_fails' \in 0..MaxForkFails /\ pid' \in [Slots -> Pids']
    BY <1>1, <1>7, ForkFails
  <2>2. TypeInv'
    BY Zenon, <1>1, <1>2, <1>4, <1>5, <2>1, TypesHold
  <2>3. ProcInv'
    BY <1>2, <2>1 DEF ProcInv
  <2>4. FillInv'
    BY Zenon, <1>2, <2>1 DEF FillInv, InLoop
  <2>5. ReloadInv'
    BY <1>2, <2>1, ReloadKeeps
  <2>6. QED BY <2>2, <2>3, <2>4, <2>5 DEF ManagerInv
<1>8. QED BY <1>3, <1>6, <1>7

LEMMA ChildExit ==
  ASSUME ManagerInv, UNCHANGED settingVars, child_exit
  PROVE  ManagerInv'
<1>. /\ ManagerTypeOK /\ procs \in Seq(ProcRecord) /\ Evolves(procs, procs) /\ NoneReaped(procs, procs)
     /\ exit_status \in Pids \cup {NoPid} /\ killers \in Seq(SUBSET Pids) /\ message_box \in Seq(Slots)
     /\ outside \in 0..MaxOutside /\ fork_fails \in 0..MaxForkFails
     /\ running => InLoop
  BY Unpacked
<1>. ProcInv /\ FillInv /\ ReloadInv
  BY DEF ManagerInv
<1>. /\ reload_worker_num \in Nat /\ reload_worker_i \in Nat /\ reload_worker_i <= reload_worker_num
     /\ reload_workers \in Seq(Pids) /\ reload_worker_num <= Len(reload_workers)
     /\ \A k \in 1..reload_worker_num : reload_workers[k] \in Pids
  BY ReloadTypes
<1> DEFINE s == procs[exit_status].slot
           Goes == running /\ exit_status = reload_worker_pid /\ reloading
<1>1. /\ UNCHANGED <<reload_worker_num, reload_worker_pid, reload_workers, told, reload_init, running,
                     reloading, exit_status, killers, outside, message_box>>
      /\ {running, reloading, reload_all_worker, reload_task_worker, reload_init, read_message,
          signal_alarm, alarm_hooked, alarm_armed}' \subseteq BOOLEAN
      /\ pc = "handle" /\ pc' = "kill" /\ exit_status # NoPid
  BY DEF ManagerTypeOK, child_exit, flagVars, timerVars, boundVars
<1>2. reload_worker_i' = IF Goes THEN reload_worker_i + 1 ELSE reload_worker_i
  BY Zenon DEF child_exit
<1>3. \/ running /\ pid[s] = exit_status /\ Spawned(s, procs)
      \/ /\ running /\ pid[s] = exit_status /\ s \notin EventSlots
         /\ ForkFailed(s, IF s \in TaskSlots /\ UserWorkerNum > 0 THEN 2 ELSE 1)
      \/ ~(running /\ pid[s] = exit_status) /\ UNCHANGED <<procs, pid, failed, fork_fails>>
  BY Zenon DEF child_exit
<1>. exit_status \in 1..Len(procs) /\ procs[exit_status].st = "reaped"
  BY Zenon, <1>1 DEF Pids, ProcInv, Settled
<1>. s \in Slots
  BY Zenon, ProcFields
<1>4. /\ Evolves(procs, procs') /\ pid' \in [Slots -> Pids'] /\ failed' \subseteq Slots
      /\ fork_fails' \in 0..MaxForkFails
      /\ \A t \in Slots : procs'[pid'[t]].slot = t
      /\ \A t \in Slots \ {s} : /\ pid'[t] = pid[t] /\ procs'[pid'[t]].st = procs[pid[t]].st
                                /\ t \in failed' <=> t \in failed
      /\ running => \/ procs'[pid'[s]].st = "run"
                    \/ s \in failed' \ EventSlots
                    \/ pid[s] # exit_status /\ procs'[pid'[s]] = procs[pid[s]] /\ failed' = failed
  <2> HIDE DEF s
  <2>1. CASE Spawned(s, procs)
    <3>1. /\ Evolves(procs, procs') /\ pid' \in [Slots -> Pids'] /\ failed' \subseteq Slots
          /\ fork_fails' = fork_fails
          /\ \A t \in Slots : procs'[pid'[t]].slot = t
          /\ procs'[pid'[s]].st = "run"
          /\ \A t \in Slots \ {s} : /\ pid'[t] = pid[t] /\ procs'[pid'[t]].st = procs[pid[t]].st
                                    /\ t \in failed' <=> t \in failed
      BY <2>1, SpawnFills
    <3>2. QED BY Zenon, <3>1
  <2>2. CASE /\ running /\ pid[s] = exit_status /\ s \notin EventSlots
             /\ ForkFailed(s, IF s \in TaskSlots /\ UserWorkerNum > 0 THEN 2 ELSE 1)
    <3>1. PICK n \in Nat : ForkFailed(s, n)
      BY Zenon, <2>2
    <3>2. /\ UNCHANGED <<procs, pid>> /\ failed' \subseteq Slots
          /\ fork_fails' \in 0..MaxForkFails /\ pid' \in [Slots -> Pids']
      BY Zenon, <3>1, ForkFails
    <3>3. failed' = failed \cup {s}
      BY <3>1 DEF ForkFailed
    <3>4. QED BY <2>2, <3>2, <3>3 DEF ProcInv
  <2>3. CASE ~(running /\ pid[s] = exit_status) /\ UNCHANGED <<procs, pid, failed, fork_fails>>
    <3>1. 1 \in Nat /\ UNCHANGED <<procs, pid, failed, fork_fails>>
      BY Zenon, <2>3
    <3>2. /\ UNCHANGED <<procs, pid>> /\ failed' \subseteq Slots
          /\ fork_fails' \in 0..MaxForkFails /\ pid' \in [Slots -> Pids']
      BY Zenon, <3>1, ForkFails
    <3>3. QED BY Zenon, <2>3, <3>2 DEF ProcInv
  <2>4. QED BY Zenon, <1>3, <2>1, <2>2, <2>3
<1>5. Goes => /\ reload_worker_i < reload_worker_num
              /\ reload_worker_pid = reload_workers[reload_worker_i + 1]
              /\ reload_worker_pid \in told /\ procs'[reload_worker_pid].st = "reaped"
  BY Zenon, <1>1, <1>4 DEF ReloadInv, Evolves
<1> HIDE DEF Goes, s
<1>6. /\ reload_workers' \in Seq(Pids) /\ reload_worker_num' \in 0..Len(reload_workers')
      /\ told' \subseteq Pids /\ reload_worker_pid' \in Pids \cup {NoPid}
      /\ exit_status' \in Pids \cup {NoPid}
  BY Zenon, <1>1 DEF ManagerTypeOK
<1>7. reload_worker_i' \in 0..reload_worker_num'
  BY <1>1, <1>2, <1>5
<1>8. TypeInv'
  BY Zenon, <1>1, <1>4, <1>6, <1>7, TypesHold
<1>9. ProcInv'
  BY <1>1, <1>4 DEF ProcInv, Evolves
<1>10. FillInv'
  <2>1. SUFFICES ASSUME running, NEW t \in EventSlots \cup (Slots \ failed'),
                        procs'[pid'[t]].st = "reaped"
                 PROVE  FALSE
    BY Zenon, <1>1 DEF FillInv, InLoop
  <2>2. t \in Slots
    BY Zenon, <2>1 DEF Slots
  <2>3. CASE t # s
    <3>1. procs[pid[t]].st = "reaped" /\ t \in EventSlots \cup (Slots \ failed)
      BY Zenon, <1>4, <2>1, <2>2, <2>3
    <3>2. pid[t] = exit_status /\ procs[pid[t]].slot = t
      BY Zenon, <2>1, <2>2, <3>1 DEF FillInv, ProcInv
    <3>3. QED BY <2>3, <3>2 DEF s
  <2>4. CASE t = s
    <3>1. pid[s] # exit_status /\ procs[pid[s]].st = "reaped" /\ s \in EventSlots \cup (Slots \ failed)
      BY Zenon, <1>4, <2>1, <2>2, <2>4
    <3>2. QED BY Zenon, <2>1, <3>1 DEF FillInv
  <2>5. QED BY <2>3, <2>4
<1>11. ReloadInv'
  <2>. told \subseteq Pids /\ reload_worker_pid \in Pids \cup {NoPid} /\ reload_async' = reload_async
    BY Zenon DEF ManagerTypeOK, settingVars
  <2>1. reload_worker_pid # NoPid =>
          /\ reload_worker_pid \in told
          /\ \/ /\ reload_worker_i' < reload_worker_num
                /\ reload_worker_pid = reload_workers[reload_worker_i' + 1]
             \/ reloading /\ procs'[reload_worker_pid].st = "reaped"
    BY Zenon, <1>1, <1>2, <1>5 DEF ReloadInv, Goes
  <2>2. ASSUME NEW k \in 1..reload_worker_i'
        PROVE  /\ NotWaitedForNext(reload_workers[k])
               /\ reload_init => reload_workers[k] \in told \/ procs'[reload_workers[k]].st = "reaped"
    <3>1. CASE Goes /\ k = reload_worker_i + 1
      BY Zenon, <3>1, <1>5 DEF NotWaitedForNext
    <3>2. CASE k \in 1..reload_worker_i
      <4>. k \in 1..reload_worker_num
        BY <3>2, SMTT(30)
      <4>1. reload_workers[k] \in Pids
        BY Zenon
      <4>2. QED BY Zenon, <3>2, <1>4, <4>1, WaitedForLess DEF ReloadInv
    <3>3. (Goes /\ k = reload_worker_i + 1) \/ k \in 1..reload_worker_i
      BY <1>2
    <3>4. QED BY Zenon, <3>1, <3>2, <3>3
  <2>3. ~reload_init => \A k \in 1..reload_worker_num : NotWaitedForNext(reload_workers[k])
    BY Zenon, <1>4, WaitedForLess DEF ReloadInv
  <2>4. \A p \in told :
          /\ procs'[p].st \notin {"zombie", "reaped"}
          /\ procs'[p].slot \in (IF reload_async THEN TaskSlots ELSE Slots)
          => p = reload_worker_pid
    BY Zenon, <1>4, WaitedForLess DEF ReloadInv
  <2>5. QED BY Zenon, <1>1, <2>1, <2>2, <2>3, <2>4 DEF ReloadInv, NotWaitedFor, NotWaitedForNext, Alive
<1>12. QED BY Zenon, <1>8, <1>9, <1>10, <1>11 DEF ManagerInv

-----------------------------------------------------------------------------
(* Reloads.                                                                *)
LEMMA SlotFacts ==
  /\ Slots = 1..(WorkerNum + TaskWorkerNum + UserWorkerNum)
  /\ EventSlots \subseteq Slots /\ TaskSlots \subseteq Slots /\ EventSlots \cap TaskSlots = {}
  /\ EventSlots = 1..WorkerNum
BY ManagerAssumption DEF Slots, EventSlots, TaskSlots, UserSlots

LEMMA PidListFacts ==
  ASSUME ManagerTypeOK, NEW first \in Nat, NEW n \in Nat,
         \A k \in 1..n : first + k - 1 \in Slots
  PROVE  /\ PidList(first, n) \in Seq(Pids) /\ Len(PidList(first, n)) = n
         /\ \A k \in 1..n : PidList(first, n)[k] = pid[first + k - 1]
<1>1. \A k \in 1..n : pid[first + k - 1] \in Pids
  BY DEF ManagerTypeOK
<1>2. PidList(first, n) \in [1..n -> Pids]
  BY <1>1 DEF PidList
<1>3. PidList(first, n) \in Seq(Pids) /\ Len(PidList(first, n)) = n
  BY <1>2, IsSeq
<1>4. QED BY <1>3 DEF PidList

LEMMA KillerTypes ==
  ASSUME ManagerTypeOK, NEW Ss \in Seq(SUBSET Slots), add_timeout_killer(Ss)
  PROVE  killers' \in Seq(SUBSET Pids) /\ alarm_hooked' \in BOOLEAN
<1>. killers \in Seq(SUBSET Pids) /\ alarm_hooked \in BOOLEAN /\ pid \in [Slots -> Pids]
  BY Zenon DEF ManagerTypeOK
<1>1. alarm_hooked' \in BOOLEAN
  BY Zenon DEF add_timeout_killer
<1>2. CASE MaxWaitTime
  <2>1. [k \in 1..Len(Ss) |-> Pids_of(Ss[k])] \in [1..Len(Ss) -> SUBSET Pids]
    BY DEF Pids_of
  <2>2. Len(Ss) \in Nat
    OBVIOUS
  <2>3. [k \in 1..Len(Ss) |-> Pids_of(Ss[k])] \in Seq(SUBSET Pids)
    BY <2>1, <2>2, IsSeq
  <2>4. killers' = killers \o [k \in 1..Len(Ss) |-> Pids_of(Ss[k])]
    BY Zenon, <1>2 DEF add_timeout_killer
  <2>5. QED BY <1>1, <2>3, <2>4
<1>3. CASE ~MaxWaitTime
  BY <1>1, <1>3 DEF add_timeout_killer
<1>4. QED BY <1>2, <1>3

(* What the first step of a reload does.  A reload has not told anybody    *)
(* yet, or all event workers at once.                                      *)
Starts ==
  /\ pc = "handle" /\ pc' = "kill" /\ exit_status = NoPid /\ reloading /\ ~reload_init /\ reload_init'
  /\ UNCHANGED <<settingVars, exit_status, running, reloading, read_message, signal_alarm, alarm_armed,
                 pid, message_box, failed, boundVars, reload_worker_pid>>
  /\ reload_all_worker' \in BOOLEAN /\ reload_task_worker' \in BOOLEAN
  /\ \E Ss \in Seq(SUBSET Slots) : add_timeout_killer(Ss)
  /\ reload_workers' \in Seq(Pids) /\ Len(reload_workers') = reload_worker_num'
  /\ \/ procs' = procs /\ told' = told /\ reload_worker_i' = 0
     \/ /\ procs' = Term(procs, Pids_of(EventSlots)) /\ told' = told \cup Pids_of(EventSlots)
        /\ reload_async /\ reload_worker_i' \in 0..reload_worker_num'
        /\ \A k \in 1..reload_worker_i' : reload_workers'[k] \in Pids_of(EventSlots)

LEMMA ReloadStarts ==
  ASSUME ManagerInv, Starts
  PROVE  ManagerInv'
<1>. /\ ManagerTypeOK /\ procs \in Seq(ProcRecord) /\ Evolves(procs, procs) /\ NoneReaped(procs, procs)
     /\ exit_status \in Pids \cup {NoPid} /\ killers \in Seq(SUBSET Pids) /\ message_box \in Seq(Slots)
     /\ outside \in 0..MaxOutside /\ fork_fails \in 0..MaxForkFails
     /\ running => InLoop
  BY Unpacked
<1>. ProcInv /\ FillInv /\ ReloadInv /\ pid \in [Slots -> Pids]
  BY Zenon DEF ManagerInv, ManagerTypeOK
<1>1. Evolves(procs, procs') /\ NoneReaped(procs, procs') /\ Len(procs') = Len(procs)
  BY TermEvolves DEF Starts
<1>2. killers' \in Seq(SUBSET Pids) /\ alarm_hooked' \in BOOLEAN
  BY Zenon, KillerTypes DEF Starts
<1>3. Pids_of(EventSlots) \subseteq Pids
  BY SlotFacts DEF Pids_of
<1>4. /\ told' \subseteq Pids /\ reload_worker_pid' = reload_worker_pid
      /\ reload_workers' \in Seq(Pids) /\ reload_worker_num' \in 0..Len(reload_workers')
      /\ reload_worker_i' \in 0..reload_worker_num'
  <2>1. told \subseteq Pids
    BY Zenon DEF ManagerTypeOK
  <2>2. told' \subseteq Pids /\ reload_worker_pid' = reload_worker_pid
    BY <1>3, <2>1 DEF Starts
  <2>3. reload_workers' \in Seq(Pids) /\ reload_worker_num' = Len(reload_workers')
    BY DEF Starts
  <2>4. reload_worker_num' \in Nat
    BY <2>3
  <2>5. reload_worker_i' \in 0..reload_worker_num'
    BY <2>4 DEF Starts
  <2>6. QED BY <2>2, <2>3, <2>4, <2>5
<1>5. {running, reloading, reload_all_worker, reload_task_worker, reload_init, read_message,
       signal_alarm, alarm_hooked, alarm_armed}' \subseteq BOOLEAN
  BY Zenon, <1>2 DEF ManagerTypeOK, Starts
<1>6. TypeInv'
  <2>1. pid' \in [Slots -> Pids'] /\ failed' \subseteq Slots
    BY <1>1 DEF Starts, ManagerTypeOK, Pids
  <2>2. /\ UNCHANGED <<settingVars, exit_status, message_box, outside, fork_fails>>
        /\ pc' = "kill"
    BY Zenon DEF Starts, boundVars
  <2>3. reload_worker_pid' \in Pids \cup {NoPid}
    BY Zenon DEF Starts, ManagerTypeOK
  <2>4. QED BY Zenon, <1>1, <1>2, <1>4, <1>5, <2>1, <2>2, <2>3, TypesHold
<1>7. ProcInv'
  BY <1>1 DEF ProcInv, Starts, Evolves, Pids
<1>8. FillInv'
  <2>1. SUFFICES ASSUME running, NEW s \in EventSlots \cup (Slots \ failed),
                        procs'[pid[s]].st = "reaped"
                 PROVE  FALSE
    BY Zenon DEF Starts, FillInv, InLoop
  <2>2. pid[s] \in 1..Len(procs)
    BY SlotFacts DEF Pids
  <2>3. procs[pid[s]].st = "reaped"
    BY Zenon, <1>1, <2>1, <2>2 DEF NoneReaped
  <2>4. exit_status = NoPid /\ pid[s] # NoPid
    BY <2>2 DEF Starts, NoPid
  <2>5. QED BY Zenon, <2>1, <2>3, <2>4 DEF FillInv
<1>9. ReloadInv'
  <2>. /\ told' \subseteq Pids /\ told \subseteq told' /\ reload_worker_pid' = reload_worker_pid
       /\ pc = "handle" /\ pc' = "kill" /\ reloading' /\ ~reload_init /\ reload_init'
       /\ reload_async' = reload_async /\ reload_worker_pid \in Pids \cup {NoPid}
    BY Zenon, <1>4 DEF Starts, settingVars, ManagerTypeOK
  <2>1. ASSUME NEW p \in Pids_of(EventSlots)
        PROVE  procs[p].slot \in EventSlots
    <3>1. PICK s \in EventSlots : p = pid[s]
      BY Zenon DEF Pids_of
    <3>2. QED BY Zenon, <3>1, SlotFacts DEF ProcInv
  <2>2. reload_worker_pid # NoPid => reload_worker_pid \in told /\ NotWaitedForNext(reload_worker_pid)
    <3>1. reload_worker_pid # NoPid => reload_worker_pid \in told /\ NotWaitedFor(reload_worker_pid)
      <4>1. reload_worker_i < reload_worker_num => reload_worker_i + 1 \in 1..reload_worker_num
        BY ReloadTypes
      <4>2. QED BY Zenon, <4>1 DEF ReloadInv
    <3>2. QED BY Zenon, <1>1, <3>1, WaitedForLess
  <2>3. \A k \in 1..reload_worker_i' : reload_workers'[k] \in told' /\ NotWaitedForNext(reload_workers'[k])
    <3>1. \A p \in Pids_of(EventSlots) : reload_async => NotWaitedForNext(p)
      BY Zenon, <1>1, <1>3, <2>1, WaitedForLess DEF NotWaitedForNext
    <3>2. QED BY <3>1 DEF Starts
  <2>4. ASSUME NEW p \in told', procs'[p].st \notin {"zombie", "reaped"},
               procs'[p].slot \in (IF reload_async THEN TaskSlots ELSE Slots)
        PROVE  p = reload_worker_pid
    <3>1. Alive(p) /\ procs'[p].slot = procs[p].slot
      BY Zenon, <1>1, <2>4, WaitedForLess
    <3>2. CASE p \in told
      BY Zenon, <2>4, <3>1, <3>2 DEF ReloadInv
    <3>3. CASE p \notin told
      <4>1. reload_async /\ p \in Pids_of(EventSlots)
        BY <3>3 DEF Starts
      <4>2. QED BY Zenon, <2>1, <2>4, <3>1, <4>1, SlotFacts
    <3>4. QED BY <3>2, <3>3
  <2>5. QED BY <2>2, <2>3, <2>4 DEF ReloadInv, NotWaitedFor, NotWaitedForNext, Alive
<1>10. QED BY <1>6, <1>7, <1>8, <1>9 DEF ManagerInv

LEMMA StartReloadAll ==
  ASSUME ManagerInv, UNCHANGED settingVars, start_reload_all
  PROVE  ManagerInv'
<1>. /\ ManagerTypeOK /\ procs \in Seq(ProcRecord) /\ Evolves(procs, procs) /\ NoneReaped(procs, procs)
     /\ exit_status \in Pids \cup {NoPid} /\ killers \in Seq(SUBSET Pids) /\ message_box \in Seq(Slots)
     /\ outside \in 0..MaxOutside /\ fork_fails \in 0..MaxForkFails
     /\ running => InLoop
  BY Unpacked
<1>. /\ {running, reloading, reload_all_worker, reload_task_worker, reload_init, read_message,
         signal_alarm, alarm_hooked, alarm_armed} \subseteq BOOLEAN
     /\ WorkerNum \in Nat /\ TaskWorkerNum \in Nat /\ UserWorkerNum \in Nat
  BY ManagerAssumption DEF ManagerTypeOK
<1>1. /\ pc = "handle" /\ pc' = "kill" /\ exit_status = NoPid /\ reloading
      /\ UNCHANGED <<exit_status, running, reloading, reload_task_worker, read_message, signal_alarm,
                     alarm_armed, pid, message_box, failed, boundVars>>
  BY Zenon DEF start_reload_all
<1>2. CASE reload_init
  <2>1. /\ UNCHANGED <<reload_init, reload_all_worker, reloadVars, killers, alarm_hooked, procs, pid,
                       exit_status, message_box, failed, outside, fork_fails>>
    BY <1>1, <1>2 DEF start_reload_all, boundVars
  <2>2. {running, reloading, reload_all_worker, reload_task_worker, reload_init, read_message,
         signal_alarm, alarm_hooked, alarm_armed}' \subseteq BOOLEAN
    BY Zenon, <1>1, <2>1
  <2>3. TypeInv'
    BY Zenon, <1>1, <2>1, <2>2, TypesKeep
  <2>4. Ordinary
    BY Zenon, <1>1, <2>1 DEF Ordinary, InLoop, Settled
  <2>5. QED BY Zenon, <2>3, <2>4, OrdinaryKeeps DEF ManagerInv
<1>3. CASE ~reload_init
  <2>1. /\ reload_init' /\ reload_all_worker' = FALSE
        /\ reload_workers' = PidList(1, WorkerNum + TaskWorkerNum)
        /\ reload_worker_num' = WorkerNum + TaskWorkerNum /\ reload_worker_pid' = reload_worker_pid
        /\ add_timeout_killer(IF TaskWorkerNum > 0 THEN <<EventSlots, TaskSlots>> ELSE <<EventSlots>>)
        /\ \/ procs' = procs /\ told' = told /\ reload_worker_i' = 0
           \/ /\ procs' = Term(procs, Pids_of(EventSlots)) /\ told' = told \cup Pids_of(EventSlots)
              /\ reload_async /\ reload_worker_i' = WorkerNum
    BY Zenon, <1>3 DEF start_reload_all
  <2>2. /\ PidList(1, WorkerNum + TaskWorkerNum) \in Seq(Pids)
        /\ Len(PidList(1, WorkerNum + TaskWorkerNum)) = WorkerNum + TaskWorkerNum
        /\ \A k \in 1..(WorkerNum + TaskWorkerNum) : PidList(1, WorkerNum + TaskWorkerNum)[k] = pid[k]
    <3>1. \A k \in 1..(WorkerNum + TaskWorkerNum) : 1 + k - 1 = k /\ 1 + k - 1 \in Slots
      BY SlotFacts
    <3>2. 1 \in Nat /\ WorkerNum + TaskWorkerNum \in Nat
      OBVIOUS
    <3>3. /\ PidList(1, WorkerNum + TaskWorkerNum) \in Seq(Pids)
          /\ Len(PidList(1, WorkerNum + TaskWorkerNum)) = WorkerNum + TaskWorkerNum
          /\ \A k \in 1..(WorkerNum + TaskWorkerNum) :
               PidList(1, WorkerNum + TaskWorkerNum)[k] = pid[1 + k - 1]
      BY <3>1, <3>2, PidListFacts
    <3>4. QED BY Zenon, <3>1, <3>3
  <2>3. \E Ss \in Seq(SUBSET Slots) : add_timeout_killer(Ss)
    <3>1. <<EventSlots, TaskSlots>> \in Seq(SUBSET Slots) /\ <<EventSlots>> \in Seq(SUBSET Slots)
      BY SlotFacts
    <3>2. QED BY Zenon, <2>1, <3>1
  <2>4. \A k \in 1..WorkerNum : pid[k] \in Pids_of(EventSlots)
    BY DEF Pids_of, EventSlots
  <2>5. WorkerNum \in 0..(WorkerNum + TaskWorkerNum)
        /\ \A k \in 1..WorkerNum : k \in 1..(WorkerNum + TaskWorkerNum)
    OBVIOUS
  <2>6. reload_all_worker' \in BOOLEAN /\ reload_task_worker' \in BOOLEAN
    BY Zenon, <1>1, <2>1
  <2>7. Starts
    BY Zenon, <1>1, <1>3, <2>1, <2>2, <2>3, <2>4, <2>5, <2>6 DEF Starts
  <2>8. QED BY <2>7, ReloadStarts
<1>4. QED BY <1>2, <1>3

LEMMA StartReloadTask ==
  ASSUME ManagerInv, UNCHANGED settingVars, start_reload_task
  PROVE  ManagerInv'
<1>. /\ ManagerTypeOK /\ procs \in Seq(ProcRecord) /\ Evolves(procs, procs) /\ NoneReaped(procs, procs)
     /\ exit_status \in Pids \cup {NoPid} /\ killers \in Seq(SUBSET Pids) /\ message_box \in Seq(Slots)
     /\ outside \in 0..MaxOutside /\ fork_fails \in 0..MaxForkFails
     /\ running => InLoop
  BY Unpacked
<1>. /\ {running, reloading, reload_all_worker, reload_task_worker, reload_init, read_message,
         signal_alarm, alarm_hooked, alarm_armed} \subseteq BOOLEAN
     /\ WorkerNum \in Nat /\ TaskWorkerNum \in Nat /\ UserWorkerNum \in Nat
  BY ManagerAssumption DEF ManagerTypeOK
<1>1. /\ pc = "handle" /\ exit_status = NoPid /\ reloading
      /\ UNCHANGED <<exit_status, running, reload_all_worker, read_message, signal_alarm,
                     alarm_armed, pid, procs, message_box, failed, outside, fork_fails, boundVars>>
  BY Zenon DEF start_reload_task, workerVars, boundVars
<1>2. CASE TaskWorkerNum = 0 \/ reload_init
  <2>1. /\ UNCHANGED <<reload_init, reload_task_worker, reloadVars, killers, alarm_hooked>>
        /\ reloading' \in BOOLEAN
        /\ pc' \in {"enter", "exit", "kill"} /\ (running => pc' # "exit")
    BY Zenon, <1>1, <1>2 DEF start_reload_task, Loop
  <2>2. {running, reloading, reload_all_worker, reload_task_worker, reload_init, read_message,
         signal_alarm, alarm_hooked, alarm_armed}' \subseteq BOOLEAN
    BY Zenon, <1>1, <2>1
  <2>3. TypeInv'
    BY <1>1, <2>1, <2>2, TypesKeep
  <2>4. Ordinary
    BY Zenon, <1>1, <2>1 DEF Ordinary, InLoop, Settled
  <2>5. QED BY <2>3, <2>4, OrdinaryKeeps DEF ManagerInv
<1>3. CASE TaskWorkerNum # 0 /\ ~reload_init
  <2>1. /\ reload_init' /\ reload_task_worker' = FALSE /\ pc' = "kill" /\ reloading' = reloading
        /\ reload_workers' = PidList(WorkerNum + 1, TaskWorkerNum)
        /\ reload_worker_num' = TaskWorkerNum /\ reload_worker_i' = 0
        /\ add_timeout_killer(<<TaskSlots>>)
        /\ UNCHANGED <<reload_worker_pid, told>>
    BY <1>3 DEF start_reload_task
  <2>2. /\ PidList(WorkerNum + 1, TaskWorkerNum) \in Seq(Pids)
        /\ Len(PidList(WorkerNum + 1, TaskWorkerNum)) = TaskWorkerNum
    <3>1. \A k \in 1..TaskWorkerNum : WorkerNum + 1 + k - 1 \in Slots
      BY SlotFacts
    <3>2. WorkerNum + 1 \in Nat
      OBVIOUS
    <3>3. QED BY Zenon, <3>1, <3>2, PidListFacts
  <2>3. \E Ss \in Seq(SUBSET Slots) : add_timeout_killer(Ss)
    <3>1. <<TaskSlots>> \in Seq(SUBSET Slots)
      BY SlotFacts
    <3>2. QED BY Zenon, <2>1, <3>1
  <2>4. reload_all_worker' \in BOOLEAN /\ reload_task_worker' \in BOOLEAN
    BY Zenon, <1>1, <2>1
  <2>5. Starts
    BY <1>1, <1>3, <2>1, <2>2, <2>3, <2>4 DEF Starts
  <2>6. QED BY <2>5, ReloadStarts
<1>4. QED BY <1>2, <1>3

LEMMA LeastNatural ==
  ASSUME NEW S \in SUBSET Nat, S # {}
  PROVE  \E k \in S : \A j \in S : k <= j
<1> DEFINE R == OpToRel(<, Nat)
<1>1. IsWellFoundedOn(R, Nat)
  BY Zenon, NatLessThanWellFounded
<1>2. \A x, y \in Nat : x < y => <<x, y>> \in R
  BY DEF OpToRel
<1> HIDE DEF R
<1>3. PICK x \in S : \A y \in S : ~(<<y, x>> \in R)
  BY Zenon, <1>1, WFMin
<1>4. \A y \in S : y \in Nat /\ x \in Nat /\ ~(y < x)
  BY Zenon, <1>2, <1>3
<1>5. \A y \in S : x <= y
  BY <1>4
<1>6. QED BY <1>5

LEMMA KillWorker ==
  ASSUME ManagerInv, UNCHANGED settingVars, kill_worker
  PROVE  /\ ManagerInv'
         /\ reload_init /\ ~reload_init' =>
              \A k \in 1..reload_worker_num : reload_workers[k] \in told \/ ~Alive(reload_workers[k])
<1>. /\ ManagerTypeOK /\ procs \in Seq(ProcRecord) /\ Evolves(procs, procs) /\ NoneReaped(procs, procs)
     /\ exit_status \in Pids \cup {NoPid} /\ killers \in Seq(SUBSET Pids) /\ message_box \in Seq(Slots)
     /\ outside \in 0..MaxOutside /\ fork_fails \in 0..MaxForkFails
     /\ running => InLoop
  BY Unpacked
<1>. ProcInv /\ FillInv /\ ReloadInv
  BY DEF ManagerInv
<1>. /\ reload_worker_num \in Nat /\ reload_worker_i \in Nat /\ reload_worker_i <= reload_worker_num
     /\ reload_workers \in Seq(Pids) /\ reload_worker_num <= Len(reload_workers)
     /\ \A k \in 1..reload_worker_num : reload_workers[k] \in Pids
  BY ReloadTypes
<1> DEFINE left == {k \in (reload_worker_i + 1)..reload_worker_num :
                      procs[reload_workers[k]].st # "reaped"}
           next == CHOOSE k \in left : \A j \in left : k <= j
<1>1. /\ pc = "kill" /\ pc' \in {"enter", "exit"} /\ (running => pc' = "enter")
      /\ UNCHANGED <<exit_status, running, reload_all_worker, reload_task_worker, read_message,
                     signal_alarm, killers, alarm_hooked, alarm_armed, pid, message_box, failed,
                     outside, fork_fails, reload_worker_num, reload_workers, reload_async>>
  BY Zenon DEF kill_worker, Loop, timerVars, boundVars, reloadVars, settingVars
<1>2. \/ /\ ~reloading
         /\ UNCHANGED <<reloading, reload_init, reloadVars, procs>>
      \/ /\ reloading /\ left = {}
         /\ reload_worker_i' = 0 /\ reload_worker_pid' = NoPid
         /\ reload_init' = FALSE /\ reloading' = FALSE
         /\ UNCHANGED <<told, procs>>
      \/ /\ reloading /\ left # {}
         /\ reload_worker_i' = next - 1
         /\ reload_worker_pid' = reload_workers[next]
         /\ procs' = Term(procs, {reload_workers[next]})
         /\ told' = told \cup {reload_workers[next]}
         /\ UNCHANGED <<reloading, reload_init>>
  BY Zenon DEF kill_worker
<1>3. left # {} => next \in left /\ \A j \in left : next <= j
  <2>1. left \in SUBSET Nat
    OBVIOUS
  <2> HIDE DEF left
  <2>2. QED BY Zenon, <2>1, LeastNatural
<1>. \A k \in left : k \in Nat /\ reload_worker_i < k /\ k <= reload_worker_num /\ reload_workers[k] \in Pids
  OBVIOUS
<1>. \A k \in (reload_worker_i + 1)..reload_worker_num : k \notin left => procs[reload_workers[k]].st = "reaped"
  OBVIOUS
<1> HIDE DEF left, next
<1>4. /\ Evolves(procs, procs') /\ NoneReaped(procs, procs')
  BY Zenon, <1>2, TermEvolves
<1>5. /\ told' \subseteq Pids /\ reload_worker_pid' \in Pids \cup {NoPid}
      /\ reload_worker_i' \in 0..reload_worker_num
  <2>1. told \subseteq Pids /\ reload_worker_pid \in Pids \cup {NoPid}
    BY DEF ManagerTypeOK
  <2>2. reload_worker_i' \in 0..reload_worker_num
    <3>1. \/ reload_worker_i' = reload_worker_i \/ reload_worker_i' = 0
          \/ left # {} /\ reload_worker_i' = next - 1
      BY Zenon, <1>2 DEF reloadVars
    <3>2. left # {} => next \in Nat /\ reload_worker_i < next /\ next <= reload_worker_num
      BY Zenon, <1>3
    <3>3. QED BY <3>1, <3>2
  <2>3. QED BY Zenon, <1>2, <1>3, <2>1, <2>2 DEF reloadVars
<1>6. TypeInv'
  <2>1. {running, reloading, reload_all_worker, reload_task_worker, reload_init, read_message,
         signal_alarm, alarm_hooked, alarm_armed}' \subseteq BOOLEAN
    BY Zenon, <1>1, <1>2 DEF ManagerTypeOK
  <2>2. pid' \in [Slots -> Pids'] /\ failed' \subseteq Slots
    BY Zenon, <1>1, <1>4, TypesGrow DEF ManagerTypeOK
  <2>3. /\ reload_workers' \in Seq(Pids) /\ reload_worker_num' \in 0..Len(reload_workers')
        /\ reload_worker_i' \in 0..reload_worker_num'
    <3>1. reload_worker_num \in 0..Len(reload_workers)
      BY Zenon DEF ManagerTypeOK
    <3>2. QED BY Zenon, <1>1, <1>5, <3>1
  <2>4. QED BY Zenon, <1>1, <1>4, <1>5, <2>1, <2>2, <2>3, TypesHold
<1>7. ProcInv'
  BY Zenon, <1>1, <1>4 DEF ProcInv, Evolves, ManagerTypeOK, Pids, Settled
<1>8. FillInv'
  <2>1. SUFFICES ASSUME running, NEW s \in EventSlots \cup (Slots \ failed),
                        procs'[pid[s]].st = "reaped"
                 PROVE  FALSE
    BY Zenon, <1>1 DEF FillInv, InLoop
  <2>2. pid[s] \in 1..Len(procs)
    BY Zenon, SlotFacts DEF Pids, ManagerTypeOK
  <2>3. procs[pid[s]].st = "reaped"
    BY Zenon, <1>4, <2>1, <2>2 DEF NoneReaped
  <2>4. QED BY Zenon, <1>1, <2>1, <2>3 DEF FillInv, Settled
<1>9. reload_worker_pid # NoPid =>
        \/ NotWaitedFor(reload_worker_pid)
        \/ reloading /\ left # {} /\ reload_worker_pid = reload_workers[next]
        \/ ~reloading
  <2>1. CASE pc = "kill" /\ reloading /\ NotWaitedFor(reload_worker_pid)
    BY Zenon, <2>1
  <2>2. CASE /\ reload_worker_i < reload_worker_num /\ reloading
             /\ reload_worker_pid = reload_workers[reload_worker_i + 1]
    <3>1. reload_worker_i + 1 \in (reload_worker_i + 1)..reload_worker_num
      BY <2>2
    <3>2. CASE reload_worker_i + 1 \in left
      <4>1. next = reload_worker_i + 1
        BY <1>3, <3>2
      <4>2. QED BY <2>2, <3>2, <4>1
    <3>3. CASE reload_worker_i + 1 \notin left
      BY <2>2, <3>1, <3>3 DEF NotWaitedFor
    <3>4. QED BY <3>2, <3>3
  <2>3. QED BY Zenon, <2>1, <2>2 DEF ReloadInv
<1>10. \A p \in told : Alive(p) /\ procs[p].slot \in (IF reload_async THEN TaskSlots ELSE Slots)
         => ~NotWaitedFor(p) /\ p = reload_worker_pid /\ p # NoPid
  <2>1. NoPid \notin Pids /\ told \subseteq Pids
    BY DEF NoPid, Pids, ManagerTypeOK
  <2>2. QED BY Zenon, <2>1, SlotFacts DEF ReloadInv, NotWaitedFor, Alive
<1>11. ReloadInv'
  <2>1. CASE ~reloading
    <3>1. UNCHANGED <<reload_worker_i, reload_worker_pid, told, reload_init, procs, reloading>>
      BY Zenon, <1>2, <2>1 DEF reloadVars
    <3>2. QED BY Zenon, <1>1, <2>1, <3>1 DEF ReloadInv, NotWaitedFor, Alive
  <2>2. CASE reloading /\ left = {}
    <3>1. /\ reload_worker_i' = 0 /\ reload_worker_pid' = NoPid /\ ~reload_init'
          /\ UNCHANGED <<told, procs>>
      BY Zenon, <1>2, <2>2
    <3>2. ASSUME NEW k \in 1..reload_worker_num
          PROVE  NotWaitedFor(reload_workers[k])
      <4>1. k \in 1..reload_worker_i \/ k \in (reload_worker_i + 1)..reload_worker_num
        OBVIOUS
      <4>2. QED BY Zenon, <2>2, <4>1 DEF ReloadInv, NotWaitedFor
    <3>3. \A p \in told : ~(Alive(p) /\ procs[p].slot \in (IF reload_async THEN TaskSlots ELSE Slots))
      BY Zenon, <1>9, <1>10, <2>2
    <3>4. 1..reload_worker_i' = {}
      BY <3>1
    <3>5. QED BY Zenon, <1>1, <3>1, <3>2, <3>3, <3>4 DEF ReloadInv, NotWaitedFor, Alive
  <2>3. CASE reloading /\ left # {}
    <3>1. /\ reload_worker_i' = next - 1 /\ reload_worker_pid' = reload_workers[next]
          /\ told' = told \cup {reload_workers[next]} /\ UNCHANGED <<reloading, reload_init>>
      BY Zenon, <1>2, <2>3
    <3>2. next \in Nat /\ reload_worker_i < next /\ next <= reload_worker_num
          /\ \A k \in (reload_worker_i + 1)..(next - 1) : procs[reload_workers[k]].st = "reaped"
      <4>1. next \in left /\ \A j \in left : next <= j
        BY <1>3, <2>3
      <4>2. next \in Nat /\ reload_worker_i < next /\ next <= reload_worker_num
        BY <4>1
      <4>3. ASSUME NEW k \in (reload_worker_i + 1)..(next - 1)
            PROVE  k \in (reload_worker_i + 1)..reload_worker_num /\ k \notin left
        BY <4>1, <4>2
      <4>4. QED BY <4>2, <4>3
    <3>3. reload_worker_i' < reload_worker_num /\ reload_worker_pid' = reload_workers[reload_worker_i' + 1]
          /\ reload_worker_pid' \in told'
      BY <3>1, <3>2
    <3>4. ASSUME NEW k \in 1..reload_worker_i'
          PROVE  /\ reload_workers[k] \in Pids /\ NotWaitedFor(reload_workers[k])
                 /\ reload_init => reload_workers[k] \in told \/ procs[reload_workers[k]].st = "reaped"
      <4>. reload_worker_i' = next - 1 /\ next \in Nat /\ next <= reload_worker_num
        BY Zenon, <3>1, <3>2
      <4>1. k \in 1..reload_worker_num /\ (k \in 1..reload_worker_i \/ k \in (reload_worker_i + 1)..(next - 1))
        OBVIOUS
      <4>2. QED BY Zenon, <3>2, <4>1 DEF ReloadInv, NotWaitedFor
    <3>5. ASSUME NEW k \in 1..reload_worker_i'
          PROVE  /\ NotWaitedForNext(reload_workers[k])
                 /\ reload_init => reload_workers[k] \in told' \/ procs'[reload_workers[k]].st = "reaped"
      BY Zenon, <1>4, <3>1, <3>4, WaitedForLess
    <3>6. ~reload_init => \A k \in 1..reload_worker_num : NotWaitedForNext(reload_workers[k])
      BY Zenon, <1>4, WaitedForLess DEF ReloadInv
    <3>7. ASSUME NEW p \in told', procs'[p].st \notin {"zombie", "reaped"},
                 procs'[p].slot \in (IF reload_async THEN TaskSlots ELSE Slots)
          PROVE  p = reload_worker_pid'
      <4>1. Alive(p) /\ procs'[p].slot = procs[p].slot
        BY Zenon, <1>4, <1>5, <3>7, WaitedForLess
      <4>2. CASE p \in told
        BY Zenon, <1>9, <1>10, <2>3, <3>1, <3>7, <4>1, <4>2
      <4>3. QED BY Zenon, <3>1, <4>2
    <3>8. QED BY Zenon, <1>1, <3>1, <3>3, <3>5, <3>6, <3>7 DEF ReloadInv, NotWaitedFor, NotWaitedForNext, Alive
  <2>4. QED BY <2>1, <2>2, <2>3
<1>12. reload_init /\ ~reload_init' =>
         \A k \in 1..reload_worker_num : reload_workers[k] \in told \/ ~Alive(reload_workers[k])
  <2>1. SUFFICES ASSUME reload_init, ~reload_init', NEW k \in 1..reload_worker_num
                 PROVE  reload_workers[k] \in told \/ procs[reload_workers[k]].st = "reaped"
    BY Zenon DEF Alive
  <2>2. left = {}
    BY Zenon, <1>2, <2>1
  <2>3. k \in 1..reload_worker_i \/ k \in (reload_worker_i + 1)..reload_worker_num
    OBVIOUS
  <2>4. QED BY Zenon, <2>1, <2>2, <2>3 DEF ReloadInv
<1>13. QED BY Zenon, <1>6, <1>7, <1>8, <1>11, <1>12 DEF ManagerInv

-----------------------------------------------------------------------------
LEMMA InitInv ==
  ASSUME ManagerInit
  PROVE  ManagerInv
<1>. /\ pid = [s \in Slots |-> s] /\ procs = [p \in Slots |-> [slot |-> p, st |-> "run"]]
     /\ pc = "enter" /\ running = TRUE /\ exit_status = NoPid /\ reload_worker_pid = NoPid
     /\ reload_worker_i = 0 /\ reload_worker_num = 0 /\ reload_workers = <<>> /\ killers = <<>>
     /\ message_box = <<>> /\ told = {} /\ failed = {} /\ outside = 0 /\ fork_fails = 0
     /\ reload_async \in BOOLEAN /\ task_enable_coroutine \in BOOLEAN
  BY ManagerAssumption DEF ManagerInit
<1> DEFINE N == WorkerNum + TaskWorkerNum + UserWorkerNum
<1>1. N \in Nat /\ Slots = 1..N
  BY ManagerAssumption, SlotFacts
<1>2. procs \in Seq(ProcRecord) /\ Len(procs) = N
  <2>1. procs \in [1..N -> ProcRecord]
    BY <1>1 DEF ProcRecord
  <2>2. QED BY <1>1, <2>1, IsSeq
<1>3. pid \in [Slots -> Pids] /\ Pids = Slots
  BY <1>1, <1>2 DEF Pids
<1>4. {running, reloading, reload_all_worker, reload_task_worker, reload_init, read_message,
       signal_alarm, alarm_hooked, alarm_armed} \subseteq BOOLEAN
  BY Zenon DEF ManagerInit
<1>5. ManagerTypeOK
  <2>1. outside \in 0..MaxOutside /\ fork_fails \in 0..MaxForkFails
    BY ManagerAssumption
  <2>2. /\ reload_workers \in Seq(Pids) /\ reload_worker_num \in 0..Len(reload_workers)
        /\ reload_worker_i \in 0..reload_worker_num /\ killers \in Seq(SUBSET Pids)
        /\ message_box \in Seq(Slots)
    OBVIOUS
  <2>3. QED BY <1>2, <1>3, <1>4, <2>1, <2>2 DEF ManagerTypeOK, ProcRecord
<1>6. \A s \in Slots : procs[pid[s]].slot = s /\ procs[pid[s]].st = "run"
  OBVIOUS
<1>7. EventSlots \cup (Slots \ failed) \subseteq Slots
  BY SlotFacts
<1>8. ProcInv /\ FillInv
  BY <1>6, <1>7 DEF ProcInv, FillInv, Settled, InLoop
<1>9. ReloadInv
  BY DEF ReloadInv
<1>10. QED BY <1>5, <1>8, <1>9 DEF ManagerInv, TypeInv

LEMMA StepInv ==
  ASSUME ManagerInv, [ManagerNext /\ UNCHANGED settingVars]_<<managerVars, settingVars>>
  PROVE  /\ ManagerInv'
         /\ reload_init /\ ~reload_init' =>
              \A k \in 1..reload_worker_num : reload_workers[k] \in told \/ ~Alive(reload_workers[k])
<1>. reload_init \in BOOLEAN
  BY DEF ManagerInv, TypeInv, ManagerTypeOK
<1>1. CASE ManagerStep /\ ~kill_worker /\ UNCHANGED settingVars
  <2>1. ManagerInv'
    BY <1>1, LoopSteps, WaitProcess, PopMessage, TimerSelect, StartReloadAll, StartReloadTask, ChildExit,
       StopSteps DEF ManagerStep
  <2>2. reload_init => reload_init'
    BY Zenon, <1>1 DEF ManagerStep, wait_blocks, wait_process, pop_message, box_empty, clear_read_message,
       timer_select, wait_failed, start_reload_all, start_reload_task, child_exit, kill_event_workers,
       wait_event_workers, wait_task_workers, wait_user_workers, waitpid_all, flagVars
  <2>3. QED BY <2>1, <2>2
<1>2. CASE kill_worker /\ UNCHANGED settingVars
  BY <1>2, KillWorker
<1>3. CASE (SIGTERM \/ SIGUSR1 \/ SIGUSR2 \/ timer_SIGALRM \/ force_kill_SIGALRM) /\ UNCHANGED settingVars
  <2>1. ManagerInv'
    BY Zenon, <1>3, SignalSteps, StopSteps
  <2>2. reload_init' = reload_init
    BY <1>3 DEF SIGTERM, SIGUSR1, SIGUSR2, timer_SIGALRM, force_kill_SIGALRM
  <2>3. QED BY <2>1, <2>2
<1>4. CASE (\E p \in Pids : WorkerStep(p)) /\ UNCHANGED settingVars
  <2>1. ManagerInv'
    BY <1>4, WorkerSteps
  <2>2. reload_init' = reload_init
    BY Zenon, <1>4 DEF WorkerStep, reach_max_request, push_stop_message, SIGIO, exits, crashes, flagVars
  <2>3. QED BY <2>1, <2>2
<1>5. CASE UNCHANGED <<managerVars, settingVars>>
  <2>1. UNCHANGED <<pc, exit_status, running, reloading, reload_all_worker, reload_task_worker, reload_init,
                    read_message, signal_alarm, killers, alarm_hooked, alarm_armed, pid, procs,
                    message_box, failed, outside, fork_fails, reloadVars, settingVars>>
    BY <1>5 DEF managerVars, flagVars, timerVars, workerVars, boundVars
  <2>2. Ordinary
    BY Zenon, <2>1, Unpacked DEF Ordinary, InLoop
  <2>3. {running, reloading, reload_all_worker, reload_task_worker, reload_init, read_message,
         signal_alarm, alarm_hooked, alarm_armed}' \subseteq BOOLEAN
    BY Zenon, <2>1, Unpacked DEF ManagerTypeOK
  <2>4. pc' \in {"enter", "wait", "read", "clear", "select", "handle", "kill",
                 "exit", "wait_event", "wait_task", "wait_user", "stopped"}
    BY <2>1, Unpacked DEF ManagerTypeOK
  <2>5. Evolves(procs, procs')
    BY Zenon, <2>2 DEF Ordinary
  <2>6. TypeInv'
    BY <2>1, <2>3, <2>4, <2>5, Unpacked, TypesKeep
  <2>7. QED BY Zenon, <2>1, <2>2, <2>6, OrdinaryKeeps DEF ManagerInv
<1>6. QED BY Zenon, <1>1, <1>2, <1>3, <1>4, <1>5 DEF ManagerNext

LEMMA InvImplies ==
  ASSUME ManagerInv
  PROVE  SlotsFilled /\ ReloadOneByOne
<1>1. SlotsFilled
  BY DEF ManagerInv, TypeInv, FillInv, SlotsFilled, Settled
<1>2. ReloadOneByOne
  BY Zenon DEF ManagerInv, ReloadInv, ReloadOneByOne
<1>3. QED BY <1>1, <1>2

LEMMA Invariance == ManagerSpec => []ManagerInv
<1>1. ManagerInit => ManagerInv
  BY InitInv
<1>2. ManagerInv /\ [ManagerNext /\ UNCHANGED settingVars]_<<managerVars, settingVars>> => ManagerInv'
  BY StepInv
<1>3. QED BY <1>1, <1>2, PTL DEF ManagerSpec

(* Whatever signals, crashes and failing forks come: when the manager      *)
(* waits, the record of every event worker, and of every other worker      *)
(* whose fork did not fail, holds a process that has not been reaped.      *)
THEOREM SlotsStayFilled == ManagerSpec => []SlotsFilled
<1>1. ManagerInv => SlotsFilled
  BY InvImplies
<1>2. QED BY <1>1, Invariance, PTL

(* A reload tells one worker after the other to stop, and is over only     *)
(* when every worker of its list has been told or is gone.                 *)
THEOREM ReloadsAreComplete == ManagerSpec => ReloadComplete
<1>1. ManagerInv /\ ManagerInv' /\ [ManagerNext /\ UNCHANGED settingVars]_<<managerVars, settingVars>>
      => [/\ ReloadOneByOne'
          /\ reload_init /\ ~reload_init' =>
               \A k \in 1..reload_worker_num :
                 reload_workers[k] \in told \/ ~Alive(reload_workers[k])]_managerVars
  <2>1. ManagerInv' => ReloadOneByOne'
    BY InvImplies, PTL
  <2>2. QED BY <2>1, StepInv
<1>2. QED BY <1>1, Invariance, PTL DEF ManagerSpec, ReloadComplete
=============================================================================
