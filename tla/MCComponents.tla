---------------------------- MODULE MCComponents ----------------------------
(* The instances for TLC of the components whose properties are all safety *)
(* properties: "part" says of which of them a behaviour is one, the others *)
(* stay as they were.                                                      *)
EXTENDS Heap, Timer, PipeIpc, HttpClient, PgClient, Http2Client,
        HttpServer, PacketReader

VARIABLES
  part,
  done   \* the last operation on the heap was carried out

(* The end-of-packet mark overlaps with itself, and packets hold beginnings *)
(* of it; lengths from zero on.                                            *)
Eof3 == <<0, 0, 1>>
WithLength(n) == <<0, n>> \o [i \in 1 .. n |-> 1]
Texts == {<<>>, <<0>>, <<0, 1>>}
Streams3 ==
  [length |-> {<<WithLength(a), WithLength(b), WithLength(c)>> : a, b, c \in 0 .. 2},
   eof |-> {<<a \o Eof, b \o Eof, c \o Eof>> : a, b, c \in Texts}]

ComponentsInit ==
  /\ HeapInit /\ TimerInit /\ IpcInit /\ HttpInit /\ PgInit /\ H2Init /\ HttpdInit /\ PktInit
  /\ part \in {"heap", "timer", "ipc", "http", "pg", "h2", "httpd", "packets"}
  /\ done = FALSE
  /\ part # "ipc" => ~discard_timeout_request
  /\ part # "http" => ~defer /\ ~keep_alive
  /\ part # "httpd" => ~handshake_cb
  /\ part # "packets" => protocol = "length" /\ packets = <<WithLength(0), WithLength(0), WithLength(0)>>

(* Every array a heap may have is reached by pushes that leave the new     *)
(* node at its end, up to the names of the nodes; on each of them every    *)
(* operation is carried out.                                               *)
AtEnd(n, p) == n \in Nodes /\ push(n, p) /\ nodes' = Append(nodes, n)

HeapStep ==
  /\ ~done
  /\ \/ done' = FALSE /\ \E p \in Priorities : AtEnd(Len(nodes) + 1, p)
     \/ done' = TRUE /\ HeapNext

ComponentsNext ==
  \/ /\ part = "heap" /\ HeapStep
     /\ UNCHANGED <<part, timerVars, ipcVars, httpVars, pgVars, h2Vars, httpdVars, pktVars>>
  \/ /\ part = "timer" /\ TimerNext
     /\ UNCHANGED <<part, done, heapVars, ipcVars, httpVars, pgVars, h2Vars, httpdVars, pktVars>>
  \/ /\ part = "ipc" /\ IpcNext
     /\ UNCHANGED <<part, done, heapVars, timerVars, httpVars, pgVars, h2Vars, httpdVars, pktVars>>
  \/ /\ part = "http" /\ HttpNext
     /\ UNCHANGED <<part, done, heapVars, timerVars, ipcVars, pgVars, h2Vars, httpdVars, pktVars>>
  \/ /\ part = "pg" /\ PgNext
     /\ UNCHANGED <<part, done, heapVars, timerVars, ipcVars, httpVars, h2Vars, httpdVars, pktVars>>
  \/ /\ part = "h2" /\ H2Next
     /\ UNCHANGED <<part, done, heapVars, timerVars, ipcVars, httpVars, pgVars, httpdVars, pktVars>>
  \/ /\ part = "httpd" /\ HttpdNext
     /\ UNCHANGED <<part, done, heapVars, timerVars, ipcVars, httpVars, pgVars, h2Vars, pktVars>>
  \/ /\ part = "packets" /\ PktNext
     /\ UNCHANGED <<part, done, heapVars, timerVars, ipcVars, httpVars, pgVars, h2Vars, httpdVars>>

ComponentsSpec ==
  ComponentsInit /\ [][ComponentsNext]_<<part, done, heapVars, timerVars, ipcVars,
                                         httpVars, pgVars, h2Vars, httpdVars, pktVars>>
=============================================================================
