--------------------------- MODULE MCSharedMemory ---------------------------
(* The instances for TLC of the structures that processes share: the       *)
(* table, the ring buffer and the channel.  "part" says which of them a    *)
(* behaviour is one of.  Liveness is checked, so no symmetry is used.      *)
EXTENDS MCTable, RingBuffer, ShmChannel

VARIABLE part

SharedInit ==
  /\ part \in {"table", "ring", "channel"}
  /\ TableInit /\ RingInit /\ ShmInit
  /\ part # "table" => row_num = 0

SharedNext ==
  \/ part = "table" /\ TableNext /\ UNCHANGED <<part, ringVars, shmVars>>
  \/ part = "ring" /\ RingNext /\ UNCHANGED <<part, tableVars, shmVars>>
  \/ part = "channel" /\ ShmNext /\ UNCHANGED <<part, tableVars, ringVars>>

(* TableFairness or RingFairness, each in its part.                        *)
SharedSpec ==
  /\ SharedInit /\ [][SharedNext]_<<part, tableVars, ringVars, shmVars>>
  /\ \A p \in Procs : /\ WF_tableVars(part = "table" /\ Step(p))
                       /\ SF_tableVars(part = "table" /\ owner_gone(p) /\ UNCHANGED ops)
  /\ WF_ringVars(part = "ring" /\ (collect \/ place))
  /\ WF_ringVars(part = "ring" /\ want > 0 /\ \E n \in Blocks : alloc(n))
  /\ WF_ringVars(part = "ring" /\ \E a \in held : ring_free(a))
  /\ WF_ringVars(part = "ring" /\ count_free)
=============================================================================
