------------------------------ MODULE MCServer ------------------------------
(* The instances for TLC of what a server's processes do for a connection  *)
(* and for a task: "part" says which of them a behaviour is one of.        *)
(* Liveness is checked, so no symmetry is used.                            *)
EXTENDS Connection, TaskWorker

VARIABLE part

ServerInit ==
  /\ part \in {"connection", "tasks"}
  /\ ConnectionInit /\ TaskInit
  /\ part # "connection" => dispatch_mode = "hash" /\ ~heartbeat
  /\ part # "tasks" => mode = "co"

ServerNext ==
  \/ part = "connection" /\ ConnectionNext /\ UNCHANGED <<part, taskAll>>
  \/ part = "tasks" /\ TaskNext /\ UNCHANGED <<part, connectionVars>>

(* ConnectionFairness or TaskFairness, each in its part.                   *)
ServerSpec ==
  /\ ServerInit /\ [][ServerNext]_<<part, connectionVars, taskAll>>
  /\ WF_connectionVars(part = "connection" /\ ReactorSteps)
  /\ WF_connectionVars(part = "connection" /\ HeartbeatSteps)
  /\ \A w \in Workers : WF_connectionVars(part = "connection" /\ WorkerSteps(w))
  /\ \A t \in TW : WF_taskAll(part = "tasks" /\ TaskProcess(t))
  /\ WF_taskAll(part = "tasks" /\ Worker)
  /\ WF_taskAll(part = "tasks" /\ block_timeout)
  /\ \A c \in Callers : WF_taskAll(part = "tasks" /\ co_timeout(c))
=============================================================================
