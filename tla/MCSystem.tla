------------------------------ MODULE MCSystem ------------------------------
(* The instances for TLC of the three ways out of the event loop into the  *)
(* system: the pool of AIO threads, the io_uring engine for files, and the *)
(* waits for children, signals and several descriptors.  "part" says which *)
(* of them a behaviour is one of.  Liveness is checked, so no symmetry is  *)
(* used; in the initial state of the threads nothing is fair and enabled,  *)
(* so their fairness leaves the other parts alone.                         *)
EXTENDS AsyncThreads, IoUringEngine, CoWait

VARIABLE part

SystemInit ==
  /\ AsyncInit /\ CoInit /\ UringInit /\ WaitInit
  /\ part \in {"threads", "uring", "waits"}

SystemNext ==
  \/ part = "threads" /\ AsyncNext /\ UNCHANGED <<part, coVars, uringOwn, waitOwn>>
  \/ part = "uring" /\ UringNext /\ UNCHANGED <<part, asyncVars, waitOwn>>
  \/ part = "waits" /\ WaitNext /\ UNCHANGED <<part, asyncVars, uringOwn>>

systemVars == <<part, asyncVars, coVars, uringOwn, waitOwn>>
SystemSpec == SystemInit /\ [][SystemNext]_systemVars /\ AsyncFairness
=============================================================================
