--------------------------- MODULE SessionEvents ---------------------------
(***************************************************************************)
(* What a server promises to the callbacks of its user: a session is       *)
(* announced by onConnect once, then onReceive may be called for it, then  *)
(* onClose once, then nothing.  A session that the server itself gives up  *)
(* by force (its heartbeat, or the death of a worker) is promised nothing, *)
(* nor is any session where connections are not bound to workers.          *)
(***************************************************************************)
CONSTANT SessionIds

VARIABLE phase

SessionEventsInit == \E p \in {"new", "given up"} : phase = [s \in SessionIds |-> p]

Connect(s) == phase[s] = "new" /\ phase' = [phase EXCEPT ![s] = "open"]
Receive(s) == phase[s] = "open" /\ phase' = [phase EXCEPT ![s] = "got"]
ReceiveMore(s) == phase[s] = "got" /\ phase' = [phase EXCEPT ![s] = "open"]
Close(s) == phase[s] \in {"open", "got"} /\ phase' = [phase EXCEPT ![s] = "closed"]
GiveUp == \E S \in SUBSET SessionIds : phase' = [s \in SessionIds |-> IF s \in S THEN "given up" ELSE phase[s]]

SessionEventsNext ==
  \/ \E s \in SessionIds : Connect(s) \/ Receive(s) \/ ReceiveMore(s) \/ Close(s)
  \/ GiveUp

SessionEventsSpec == SessionEventsInit /\ [][SessionEventsNext]_phase
=============================================================================
