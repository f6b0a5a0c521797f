----------------------------- MODULE SharedMap -----------------------------
(***************************************************************************)
(* What Table promises its users: a map from keys to values on which the   *)
(* operations of all processes act one at a time.  A new key may be        *)
(* refused for want of memory.  "out" is the last answer, until its        *)
(* operation returns.                                                      *)
(***************************************************************************)
CONSTANTS Keys, Vals, NoVal

VARIABLES map, out

MapInit == map \in [Keys -> Vals \cup {NoVal}] /\ out = NoVal

Set(k, v) == out' = TRUE /\ map' = [map EXCEPT ![k] = v]
Refuse(k) == out' = FALSE /\ map[k] = NoVal /\ UNCHANGED map
Get(k) == out' = map[k] /\ UNCHANGED map
Del(k) == out' = (map[k] # NoVal) /\ map' = [map EXCEPT ![k] = NoVal]
Forget == out' = NoVal /\ UNCHANGED map

MapNext ==
  \/ Forget
  \/ \E k \in Keys : (\E v \in Vals : Set(k, v)) \/ Refuse(k) \/ Get(k) \/ Del(k)

MapSpec == MapInit /\ [][MapNext]_<<map, out>>
=============================================================================
