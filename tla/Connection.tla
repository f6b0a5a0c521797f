----------------------------- MODULE Connection -----------------------------
(***************************************************************************)
(* The life of a connection in process mode: the master accepts it and     *)
(* gives it a session, a reactor thread reads and writes its socket        *)
(* (src/server/reactor_thread.cc), worker processes run the callbacks and  *)
(* end it (src/server/process.cc, worker.cc), a heartbeat thread gives up  *)
(* silent peers.  They share the arrays of connections and sessions and    *)
(* talk through pipes.                                                     *)
(*                                                                         *)
(* A worker works on the Connection it looked up, not on the session: the  *)
(* record may be reset and given to another session meanwhile.  Messages   *)
(* of one process to the reactor keep their order, those of two processes  *)
(* do not, since a process buffers what a full pipe does not take.         *)
(***************************************************************************)
EXTENDS Naturals, Sequences, FiniteSets, SequencesExt

CONSTANTS Fds, Workers,      \* descriptors and worker ids, both numbers
          Modes,             \* dispatch modes to look at: see Silent, IsHash
          Heartbeats,        \* whether a heartbeat runs, values to look at
          SessionListSize,
          PipeSize,          \* messages the kernel takes for a worker
          BufferSize,        \* chunks of out_buffer before it overflows
          MaxQueued,         \* max_queued_bytes, in messages
          MaxSession,        \* bounds on what happens from outside
          MaxData, MaxCalls, MaxForce, MaxCrash, MaxOutside

ASSUME ConnectionAssumption ==
  /\ Fds \subseteq Nat \ {0} /\ IsFiniteSet(Fds) /\ Workers = 0..(Cardinality(Workers) - 1)
  /\ Modes \subseteq {"hash", "round", "silent"} /\ Heartbeats \subseteq BOOLEAN
  /\ SessionListSize >= Cardinality(Fds) \* max_connection is cut to the size of the list
  /\ {SessionListSize, PipeSize, BufferSize, MaxQueued, MaxSession, MaxData, MaxCalls, MaxForce, MaxCrash, MaxOutside} \subseteq Nat

SessionIds == 1..MaxSession
\* The other senders of messages to the reactor thread, beside the workers.
Master == Cardinality(Workers)
Heart == Cardinality(Workers) + 1

VARIABLES
  dispatch_mode, heartbeat, \* settings
  conn,          \* connection_list
  session_list, session_round,
  events,        \* by descriptor: the events its socket is registered for
  out_buffer,    \* by descriptor: chunks not yet written
  peer,          \* by descriptor: the other side, "none" for a free descriptor
  to_reactor,    \* by sender: messages to the reactor thread
  to_worker,     \* by worker: what its pipe holds
  pipe_buffer,   \* by worker: what the reactor thread buffers for its pipe
  worker,        \* by worker: the call of end() it is in
  resume_timers, \* by session: pending timers that resume its reading
  phase,         \* history: what the callbacks have seen of a session
  ended,         \* history: sessions that end() has closed
  given_up,      \* history: sessions ended by force
  paused,        \* history: by descriptor, the last of pause and resume was pause
  doubled,       \* history: sessions with two timers at a time
  lost_close,    \* history: sessions whose CLOSE was refused for an overflow
  counts         \* how often things happened from outside

settingVars == <<dispatch_mode, heartbeat>>
socketVars == <<events, out_buffer, peer>>
sessionVars == <<session_list, session_round>>
pipeVars == <<to_reactor, to_worker, pipe_buffer>>
historyVars == <<phase, ended, given_up, paused, doubled, lost_close>>
connectionVars == <<settingVars, conn, sessionVars, socketVars, pipeVars, worker, resume_timers, historyVars, counts>>

\* The modes 1, 3 and 7, in which onConnect and onClose are disabled.
Silent == dispatch_mode = "silent"
\* A connection belongs to one worker.
IsHash == dispatch_mode = "hash"

Conns == [session_id : 0..MaxSession, closing : BOOLEAN, closed : BOOLEAN, close_reset : BOOLEAN,
          close_actively : BOOLEAN, close_force : BOOLEAN, close_queued : BOOLEAN,
          peer_closed : BOOLEAN, overflow : BOOLEAN, timer : BOOLEAN, queued : Nat]

\* *conn = {}: session_id 0 stands for active = 0 as well.
NewConn(s) == [session_id |-> s, closing |-> FALSE, closed |-> FALSE, close_reset |-> FALSE,
               close_actively |-> FALSE, close_force |-> FALSE, close_queued |-> FALSE,
               peer_closed |-> FALSE, overflow |-> FALSE, timer |-> FALSE, queued |-> 0]

Idle == [pc |-> "idle", fd |-> 0, s |-> 0]

ConnectionInit ==
  /\ dispatch_mode \in Modes /\ heartbeat \in Heartbeats
  /\ conn = [f \in Fds |-> NewConn(0)]
  /\ session_list = [i \in 0..(SessionListSize - 1) |-> [fd |-> 0, id |-> 0]]
  /\ session_round = 0
  /\ events = [f \in Fds |-> {}] /\ out_buffer = [f \in Fds |-> <<>>] /\ peer = [f \in Fds |-> "none"]
  /\ to_reactor = [p \in Workers \cup {Master, Heart} |-> <<>>]
  /\ to_worker = [w \in Workers |-> <<>>] /\ pipe_buffer = [w \in Workers |-> <<>>]
  /\ worker = [w \in Workers |-> Idle]
  /\ resume_timers = [s \in SessionIds |-> 0]
  /\ phase = [s \in SessionIds |-> "new"]
  /\ ended = {} /\ given_up = {} /\ paused = [f \in Fds |-> FALSE] /\ doubled = {} /\ lost_close = {}
  /\ counts = [data |-> 0, calls |-> 0, force |-> 0, crash |-> 0]

\* The heartbeat counts as one of the MaxOutside things.
Count(what, max) == /\ counts[what] < max
                    /\ counts.data + counts.calls + counts.force + counts.crash + (IF heartbeat THEN 1 ELSE 0) < MaxOutside
                    /\ counts' = [counts EXCEPT ![what] = @ + 1]

(***************************************************************************)
(* Sessions.                                                               *)
(***************************************************************************)
get_session(s) == session_list[s % SessionListSize]

\* The descriptor of a session, 0 when there is no such connection.
get_connection_verify(s) ==
  LET fd == get_session(s).fd
  IN  IF fd # 0 /\ get_session(s).id = s /\ conn[fd].session_id = s THEN fd ELSE 0

\* The first free slot after session_round, as add_connection() looks for it.
next_session(i) == i \in SessionIds /\ i > session_round /\ get_session(i).fd = 0
                   /\ \A j \in SessionIds : j > session_round /\ j < i => get_session(j).fd # 0

(***************************************************************************)
(* The reactor thread's way to a worker: what its pipe does not take is    *)
(* buffered, behind what is buffered already.                              *)
(***************************************************************************)
schedule_worker(fd) == IF IsHash THEN {fd % Cardinality(Workers)} ELSE Workers

send_to_worker(w, m) ==
  IF pipe_buffer[w] = <<>> /\ Len(to_worker[w]) < PipeSize
  THEN to_worker' = [to_worker EXCEPT ![w] = Append(@, m)] /\ UNCHANGED pipe_buffer
  ELSE pipe_buffer' = [pipe_buffer EXCEPT ![w] = Append(@, m)] /\ UNCHANGED to_worker

\* c is the connection of fd as its handler has changed it so far.
dispatch(fd, c, type) ==
  IF c.closed /\ ~(type = "close" /\ c.close_force)
  THEN UNCHANGED <<to_worker, pipe_buffer>>
  ELSE \E w \in schedule_worker(fd) : send_to_worker(w, [type |-> type, s |-> c.session_id])

no_dispatch == UNCHANGED <<to_worker, pipe_buffer>>

(***************************************************************************)
(* Closing in the reactor thread.                                          *)
(***************************************************************************)
close_connection_KeepsSession(fd) ==
  /\ conn' = [conn EXCEPT ![fd] = NewConn(0)]
  /\ events' = [events EXCEPT ![fd] = {}]
  /\ out_buffer' = [out_buffer EXCEPT ![fd] = <<>>]
  /\ peer' = [peer EXCEPT ![fd] = "none"]
  /\ resume_timers' = [resume_timers EXCEPT ![conn[fd].session_id] = IF conn[fd].timer THEN @ - 1 ELSE @]
  /\ no_dispatch
  /\ UNCHANGED sessionVars

close_connection_KeepsTimer(fd) ==
  /\ session_list' = [session_list EXCEPT ![conn[fd].session_id % SessionListSize].fd = 0]
  /\ conn' = [conn EXCEPT ![fd] = NewConn(0)]
  /\ events' = [events EXCEPT ![fd] = {}]
  /\ out_buffer' = [out_buffer EXCEPT ![fd] = <<>>]
  /\ peer' = [peer EXCEPT ![fd] = "none"]
  /\ no_dispatch
  /\ UNCHANGED <<session_round, resume_timers>>

close_connection(fd) ==
  /\ session_list' = [session_list EXCEPT ![conn[fd].session_id % SessionListSize].fd = 0]
  /\ conn' = [conn EXCEPT ![fd] = NewConn(0)]
  /\ events' = [events EXCEPT ![fd] = {}]
  /\ out_buffer' = [out_buffer EXCEPT ![fd] = <<>>]
  /\ peer' = [peer EXCEPT ![fd] = "none"]
  /\ resume_timers' = [resume_timers EXCEPT ![conn[fd].session_id] = IF conn[fd].timer THEN @ - 1 ELSE @]
  /\ no_dispatch
  /\ UNCHANGED session_round

\* A handler that keeps the connection: its record, its events, its buffer.
keep(fd, c, evs, buf) ==
  /\ conn' = [conn EXCEPT ![fd] = c]
  /\ events' = [events EXCEPT ![fd] = evs]
  /\ out_buffer' = [out_buffer EXCEPT ![fd] = buf]
  /\ UNCHANGED <<sessionVars, peer, resume_timers>>

onClose_NoNotify(fd, c, buf) ==
  \/ Silent /\ close_connection(fd)
  \/ ~Silent /\ keep(fd, [c EXCEPT !.peer_closed = TRUE], {}, buf) /\ no_dispatch

\* ReactorThread_onClose.
onClose(fd, c, buf) ==
  \/ Silent /\ close_connection(fd)
  \/ ~Silent /\ events[fd] = {} /\ keep(fd, c, {}, buf) /\ no_dispatch
  \/ ~Silent /\ events[fd] # {} /\ c.close_queued /\ close_connection(fd)
  \/ /\ ~Silent /\ events[fd] # {} /\ ~c.close_queued
     /\ LET d == [c EXCEPT !.peer_closed = TRUE]
        IN  keep(fd, d, {}, buf) /\ dispatch(fd, d, "close")

(***************************************************************************)
(* The master accepts.                                                     *)
(***************************************************************************)
accept_connection(fd) ==
  /\ peer[fd] = "none"
  /\ \E s \in SessionIds :
       /\ next_session(s)
       /\ conn' = [conn EXCEPT ![fd] = NewConn(s)]
       /\ session_list' = [session_list EXCEPT ![s % SessionListSize] = [fd |-> fd, id |-> s]]
       /\ session_round' = s
       /\ to_reactor' = [to_reactor EXCEPT ![Master] = Append(@, [type |-> "incoming", s |-> s])]
  /\ peer' = [peer EXCEPT ![fd] = "open"]
  /\ paused' = [paused EXCEPT ![fd] = FALSE]
  /\ UNCHANGED <<settingVars, events, out_buffer, to_worker, pipe_buffer, worker, resume_timers,
                 phase, ended, given_up, doubled, lost_close, counts>>

peer_closes(fd) ==
  /\ peer[fd] = "open" /\ peer' = [peer EXCEPT ![fd] = "closed"]
  /\ UNCHANGED <<settingVars, conn, sessionVars, events, out_buffer, pipeVars, worker, resume_timers,
                 historyVars, counts>>

(***************************************************************************)
(* The reactor thread: sockets.                                            *)
(***************************************************************************)
\* What ReactorThread_onRead does after the protocol has dispatched data.
throttle(fd, c) ==
  IF c.queued > MaxQueued
  THEN /\ conn' = [conn EXCEPT ![fd] = [c EXCEPT !.timer = TRUE]]
       /\ resume_timers' = [resume_timers EXCEPT ![c.session_id] = @ + 1]
       /\ events' = [events EXCEPT ![fd] = @ \ {"read"}]
       /\ doubled' = IF resume_timers[c.session_id] > 0 THEN doubled \cup {c.session_id} ELSE doubled
  ELSE conn' = [conn EXCEPT ![fd] = c] /\ UNCHANGED <<resume_timers, events, doubled>>

read_data(fd) ==
  /\ "read" \in events[fd] /\ peer[fd] = "open" /\ Count("data", MaxData)
  /\ dispatch(fd, conn[fd], "data")
  /\ throttle(fd, [conn[fd] EXCEPT !.queued = @ + 1])
  /\ UNCHANGED <<settingVars, sessionVars, out_buffer, peer, to_reactor, worker, phase, ended, given_up, paused, lost_close>>

read_end(fd) ==
  /\ "read" \in events[fd] /\ peer[fd] = "closed"
  /\ onClose(fd, conn[fd], out_buffer[fd])
  /\ UNCHANGED <<settingVars, to_reactor, worker, historyVars, counts>>

resume_data_receiving_Forgets(s) ==
  LET fd == get_connection_verify(s) IN
  /\ resume_timers[s] > 0 /\ fd # 0 /\ conn[fd].queued <= MaxQueued
  /\ resume_timers' = [resume_timers EXCEPT ![s] = @ - 1]
  /\ conn' = [conn EXCEPT ![fd].timer = FALSE]
  /\ UNCHANGED <<settingVars, sessionVars, socketVars, pipeVars, worker, historyVars, counts>>

\* ReactorThread_resume_data_receiving; with too much still queued it adds itself again.
resume_data_receiving(s) ==
  LET fd == get_connection_verify(s) IN
  /\ resume_timers[s] > 0 /\ fd # 0 /\ conn[fd].queued <= MaxQueued
  /\ resume_timers' = [resume_timers EXCEPT ![s] = @ - 1]
  /\ conn' = [conn EXCEPT ![fd].timer = FALSE]
  /\ events' = [events EXCEPT ![fd] = @ \cup {"read"}]
  /\ UNCHANGED <<settingVars, sessionVars, out_buffer, peer, pipeVars, worker, historyVars, counts>>

\* The part of onWrite() after its loop: left is what remains of the buffer.
written(fd, left) ==
  LET c == [conn[fd] EXCEPT !.overflow = @ /\ Len(left) >= BufferSize]
  IN  /\ keep(fd, c, IF ~c.peer_closed /\ left = <<>> THEN {"read"} ELSE events[fd], left)
      /\ no_dispatch

\* ReactorThread_onWrite: n chunks leave before a CLOSE, a full socket or an error.
onWrite(fd) ==
  /\ "write" \in events[fd]
  /\ \E n \in 0..Len(out_buffer[fd]) :
       LET left == SubSeq(out_buffer[fd], n + 1, Len(out_buffer[fd])) IN
       /\ \A i \in 1..n : out_buffer[fd][i] = "data"
       /\ \/ left # <<>> /\ Head(left) = "close" /\ close_connection(fd)
          \/ (left # <<>> => Head(left) = "data" /\ n > 0) /\ written(fd, left)
          \/ left # <<>> /\ Head(left) = "data" /\ peer[fd] = "closed" /\ onClose(fd, conn[fd], left)
  /\ UNCHANGED <<settingVars, to_reactor, worker, historyVars, counts>>

\* ReactorThread_onPipeWrite, one message.
onPipeWrite(w) ==
  /\ pipe_buffer[w] # <<>> /\ Len(to_worker[w]) < PipeSize
  /\ pipe_buffer' = [pipe_buffer EXCEPT ![w] = Tail(@)]
  /\ LET m == Head(pipe_buffer[w]) fd == get_connection_verify(m.s)
     IN  to_worker' = IF fd # 0 /\ conn[fd].closed THEN to_worker ELSE [to_worker EXCEPT ![w] = Append(@, m)]
  /\ UNCHANGED <<settingVars, conn, sessionVars, socketVars, to_reactor, worker, resume_timers, historyVars, counts>>

(***************************************************************************)
(* The reactor thread: ReactorThread_onPipeRead, by type of message.       *)
(***************************************************************************)
take(p, type) ==
  /\ to_reactor[p] # <<>> /\ Head(to_reactor[p]).type = type
  /\ to_reactor' = [to_reactor EXCEPT ![p] = Tail(@)]

\* The connection is looked up by its slot alone.
connection_incoming ==
  /\ take(Master, "incoming")
  /\ LET fd == get_session(Head(to_reactor[Master]).s).fd IN
     /\ fd # 0
     /\ keep(fd, conn[fd], {"read"}, out_buffer[fd])
     /\ IF Silent THEN no_dispatch ELSE dispatch(fd, conn[fd], "connect")
  /\ UNCHANGED <<settingVars, worker, historyVars, counts>>

unchanged_connection == UNCHANGED <<conn, sessionVars, socketVars, to_worker, pipe_buffer, resume_timers>>

close_force ==
  /\ take(Heart, "force")
  /\ LET s == Head(to_reactor[Heart]).s fd == get_connection_verify(s) IN
     /\ \/ fd = 0 /\ unchanged_connection
        \/ fd # 0 /\ (Silent \/ conn[fd].close_force) /\ close_connection(fd)
        \/ /\ fd # 0 /\ ~Silent /\ ~conn[fd].close_force
           /\ onClose(fd, [conn[fd] EXCEPT !.close_force = TRUE], out_buffer[fd])
     /\ given_up' = IF fd = 0 THEN given_up ELSE given_up \cup {s}
  /\ UNCHANGED <<settingVars, worker, phase, ended, paused, doubled, lost_close, counts>>

\* send_to_connection() with a CLOSE.
send_close(w) ==
  /\ take(w, "close")
  /\ LET fd == get_connection_verify(Head(to_reactor[w]).s) IN
     \/ fd = 0 /\ unchanged_connection
     \/ /\ fd # 0
        /\ conn[fd].close_reset \/ conn[fd].close_force \/ conn[fd].peer_closed \/ out_buffer[fd] = <<>>
        /\ close_connection(fd)
     \/ /\ fd # 0 /\ out_buffer[fd] # <<>>
        /\ ~(conn[fd].close_reset \/ conn[fd].close_force \/ conn[fd].peer_closed)
        /\ keep(fd, [conn[fd] EXCEPT !.close_queued = TRUE], events[fd] \cup {"write"}, Append(out_buffer[fd], "close"))
        /\ no_dispatch
  /\ UNCHANGED <<settingVars, worker, historyVars, counts>>

\* send_to_connection() with data: sent at once, or buffered.
send_data(w) ==
  /\ take(w, "data")
  /\ LET fd == get_connection_verify(Head(to_reactor[w]).s) IN
     \/ fd = 0 /\ unchanged_connection
     \/ fd # 0 /\ (out_buffer[fd] = <<>> \/ conn[fd].peer_closed) /\ unchanged_connection
     \/ /\ fd # 0 /\ ~conn[fd].peer_closed
        /\ keep(fd, [conn[fd] EXCEPT !.overflow = @ \/ Len(out_buffer[fd]) >= BufferSize],
                events[fd] \cup {"write"}, Append(out_buffer[fd], "data"))
        /\ no_dispatch
  /\ UNCHANGED <<settingVars, worker, historyVars, counts>>

pause_recv(w) ==
  /\ take(w, "pause")
  /\ LET fd == get_connection_verify(Head(to_reactor[w]).s) IN
     \/ fd = 0 /\ unchanged_connection /\ UNCHANGED paused
     \/ /\ fd # 0 /\ paused' = [paused EXCEPT ![fd] = TRUE]
        /\ keep(fd, conn[fd], events[fd] \ {"read"}, out_buffer[fd]) /\ no_dispatch
  /\ UNCHANGED <<settingVars, worker, phase, ended, given_up, doubled, lost_close, counts>>

\* A socket that is registered for writing is left as it is.
resume_recv(w) ==
  /\ take(w, "resume")
  /\ LET fd == get_connection_verify(Head(to_reactor[w]).s) IN
     \/ fd = 0 /\ unchanged_connection /\ UNCHANGED paused
     \/ /\ fd # 0 /\ paused' = [paused EXCEPT ![fd] = FALSE]
        /\ keep(fd, conn[fd], IF events[fd] = {} THEN {"read"} ELSE events[fd], out_buffer[fd])
        /\ no_dispatch
  /\ UNCHANGED <<settingVars, worker, phase, ended, given_up, doubled, lost_close, counts>>

(***************************************************************************)
(* The worker processes.                                                   *)
(***************************************************************************)
seen(s) == phase' = [phase EXCEPT ![s] = CASE @ = "new" -> "open" [] @ = "open" -> "got" [] OTHER -> "open"]

end_NoForward(w, s, fd, c) ==
  /\ worker' = IF c.close_force \/ ~(c.closing \/ c.closed)
               THEN [worker EXCEPT ![w] = [pc |-> "checked", fd |-> fd, s |-> s]] ELSE worker
  /\ UNCHANGED to_worker

\* end(): w is the calling worker, c the connection after the flags were set.
end(w, s, fd, c) ==
  IF IsHash /\ c.close_actively /\ fd % Cardinality(Workers) # w
  THEN \* forwarded to the worker of the connection, in blocking mode
       LET v == fd % Cardinality(Workers) IN
       /\ Len(to_worker[v]) < PipeSize
       /\ to_worker' = [to_worker EXCEPT ![v] = Append(@, [type |-> "close", s |-> s])]
       /\ UNCHANGED worker
  ELSE /\ worker' = IF c.close_force \/ ~(c.closing \/ c.closed)
                    THEN [worker EXCEPT ![w] = [pc |-> "checked", fd |-> fd, s |-> s]] ELSE worker
       /\ UNCHANGED to_worker

\* accept_task() of a worker that is not in a callback.
receive(w, type) ==
  /\ worker[w].pc = "idle" /\ to_worker[w] # <<>> /\ Head(to_worker[w]).type = type

popped(w) == to_worker' = [to_worker EXCEPT ![w] = Tail(@)]

accept_connect(w) ==
  /\ receive(w, "connect") /\ popped(w)
  /\ seen(Head(to_worker[w]).s)
  /\ UNCHANGED <<settingVars, conn, sessionVars, socketVars, to_reactor, pipe_buffer, worker, resume_timers,
                 ended, given_up, paused, doubled, lost_close, counts>>

discard_data_Never(fd) == fd = 0 /\ ~Silent

\* Worker_discard_data: data of a closed connection is dropped; data of no
\* connection too, but for the silent modes.
discard_data(fd) == IF fd = 0 THEN ~Silent ELSE conn[fd].closed

accept_data(w) ==
  /\ receive(w, "data") /\ popped(w)
  /\ LET s == Head(to_worker[w]).s fd == get_connection_verify(s) IN
     /\ conn' = IF fd = 0 THEN conn ELSE [conn EXCEPT ![fd].queued = @ - 1]
     /\ IF discard_data(fd) THEN UNCHANGED phase ELSE seen(s)
  /\ UNCHANGED <<settingVars, sessionVars, socketVars, to_reactor, pipe_buffer, worker, resume_timers,
                 ended, given_up, paused, doubled, lost_close, counts>>

accept_close(w) ==
  /\ receive(w, "close")
  /\ LET s == Head(to_worker[w]).s fd == get_connection_verify(s) IN
     /\ worker' = IF fd # 0 /\ (conn[fd].close_force \/ ~(conn[fd].closing \/ conn[fd].closed))
                  THEN [worker EXCEPT ![w] = [pc |-> "checked", fd |-> fd, s |-> s]] ELSE worker
  /\ popped(w)
  /\ UNCHANGED <<settingVars, conn, sessionVars, socketVars, to_reactor, pipe_buffer, resume_timers, historyVars, counts>>

\* Calls of user code, between callbacks (of a coroutine) or inside onClose.
Calls(w, s) == /\ worker[w].pc # "checked" /\ Count("calls", MaxCalls)
               /\ phase[s] # "new"

close(w, s) ==
  /\ Calls(w, s)
  /\ LET fd == get_connection_verify(s) IN
     /\ fd # 0
     /\ \E reset \in BOOLEAN :
          LET c == [conn[fd] EXCEPT !.close_reset = @ \/ reset, !.close_actively = TRUE]
          IN  conn' = [conn EXCEPT ![fd] = c] /\ end(w, s, fd, c)
  /\ UNCHANGED <<settingVars, sessionVars, socketVars, to_reactor, pipe_buffer, resume_timers, historyVars>>

send(w, s) ==
  /\ Calls(w, s)
  /\ LET fd == get_connection_verify(s) IN
     fd # 0 /\ ~(conn[fd].closed \/ conn[fd].peer_closed \/ conn[fd].overflow)
  /\ to_reactor' = [to_reactor EXCEPT ![w] = Append(@, [type |-> "data", s |-> s])]
  /\ UNCHANGED <<settingVars, conn, sessionVars, socketVars, to_worker, pipe_buffer, worker, resume_timers, historyVars>>

feedback(w, s) ==
  /\ Calls(w, s) /\ get_connection_verify(s) # 0
  /\ \E type \in {"pause", "resume"} :
       to_reactor' = [to_reactor EXCEPT ![w] = Append(@, [type |-> type, s |-> s])]
  /\ UNCHANGED <<settingVars, conn, sessionVars, socketVars, to_worker, pipe_buffer, worker, resume_timers, historyVars>>

\* end(): closing is set and onClose is called.
call_onClose(w) ==
  /\ worker[w].pc = "checked"
  /\ worker' = [worker EXCEPT ![w].pc = "onclose"]
  /\ conn' = [conn EXCEPT ![worker[w].fd].closing = TRUE]
  /\ phase' = IF Silent THEN phase ELSE [phase EXCEPT ![worker[w].s] = IF @ = "closed" THEN "closed twice" ELSE "closed"]
  /\ ended' = ended \cup {worker[w].s}
  /\ UNCHANGED <<settingVars, sessionVars, socketVars, pipeVars, resume_timers, given_up, paused, doubled, lost_close, counts>>

\* end(): onClose is back.  finish() refuses the CLOSE when the connection is
\* gone, or when its output has overflowed.
finish_close(w) ==
  LET s == worker[w].s fd == get_connection_verify(s) IN
  /\ worker[w].pc = "onclose"
  /\ worker' = [worker EXCEPT ![w] = Idle]
  /\ conn' = [conn EXCEPT ![worker[w].fd].closing = FALSE, ![worker[w].fd].closed = TRUE]
  /\ to_reactor' = IF fd # 0 /\ ~conn[fd].overflow
                   THEN [to_reactor EXCEPT ![w] = Append(@, [type |-> "close", s |-> s])] ELSE to_reactor
  /\ lost_close' = IF fd # 0 /\ conn[fd].overflow THEN lost_close \cup {s} ELSE lost_close
  /\ UNCHANGED <<settingVars, sessionVars, socketVars, to_worker, pipe_buffer, resume_timers, phase, ended, given_up, paused, doubled, counts>>

\* A worker dies in end() or with messages it had not yet written; the manager
\* starts another.
worker_dies(w) ==
  /\ worker[w].pc # "idle" \/ to_reactor[w] # <<>>
  /\ Count("crash", MaxCrash)
  /\ worker' = [worker EXCEPT ![w] = Idle]
  /\ \E n \in 0..Len(to_reactor[w]) : to_reactor' = [to_reactor EXCEPT ![w] = SubSeq(@, 1, n)]
  /\ given_up' = given_up \cup {s \in SessionIds : get_connection_verify(s) # 0}
  /\ UNCHANGED <<settingVars, conn, sessionVars, socketVars, to_worker, pipe_buffer, resume_timers, phase, ended, paused, doubled, lost_close>>

AtRest == /\ \A p \in DOMAIN to_reactor : to_reactor[p] = <<>>
          /\ \A w \in Workers : worker[w].pc = "idle" /\ to_worker[w] = <<>>

\* The heartbeat thread finds an unhealthy connection.  heartbeat_idle_time is
\* longer than the reactor thread takes to handle an INCOMING.  MaxForce times
\* it comes at any moment, otherwise when everything is at rest.
heartbeat_check(fd) ==
  /\ heartbeat /\ conn[fd].session_id # 0
  /\ [type |-> "incoming", s |-> conn[fd].session_id] \notin Range(to_reactor[Master])
  /\ to_reactor[Heart] = <<>>
  /\ IF peer[fd] = "closed" /\ AtRest THEN UNCHANGED counts ELSE Count("force", MaxForce)
  /\ to_reactor' = [to_reactor EXCEPT ![Heart] = Append(@, [type |-> "force", s |-> conn[fd].session_id])]
  /\ UNCHANGED <<settingVars, conn, sessionVars, socketVars, to_worker, pipe_buffer, worker, resume_timers, historyVars>>

ReactorNext ==
  \/ \E fd \in Fds : read_data(fd) \/ read_end(fd) \/ onWrite(fd)
  \/ \E s \in SessionIds : resume_data_receiving(s)
  \/ \E w \in Workers : onPipeWrite(w) \/ send_close(w) \/ send_data(w) \/ pause_recv(w) \/ resume_recv(w)
  \/ connection_incoming \/ close_force

WorkerNext(w) ==
  \/ accept_connect(w) \/ accept_data(w) \/ accept_close(w) \/ call_onClose(w) \/ finish_close(w)
  \/ worker_dies(w)
  \/ \E s \in SessionIds : close(w, s) \/ send(w, s) \/ feedback(w, s)

ConnectionNext ==
  \/ \E fd \in Fds : accept_connection(fd) \/ peer_closes(fd) \/ heartbeat_check(fd)
  \/ ReactorNext
  \/ \E w \in Workers : WorkerNext(w)

\* The reactor thread handles what is there, a socket whose peer is gone being
\* readable and writable; workers handle their messages; the heartbeat comes again.
\* Nothing is asked of peers that are there, nor of user code.
ReactorSteps ==
  \/ \E fd \in Fds : read_end(fd) \/ (peer[fd] = "closed" /\ onWrite(fd))
  \/ \E s \in SessionIds : resume_data_receiving(s)
  \/ \E w \in Workers : onPipeWrite(w) \/ send_close(w) \/ send_data(w) \/ pause_recv(w) \/ resume_recv(w)
  \/ connection_incoming \/ close_force
HeartbeatSteps == \E fd \in Fds : peer[fd] = "closed" /\ heartbeat_check(fd)
WorkerSteps(w) == accept_connect(w) \/ accept_data(w) \/ accept_close(w) \/ call_onClose(w) \/ finish_close(w)

ConnectionFairness ==
  /\ WF_connectionVars(ReactorSteps) /\ WF_connectionVars(HeartbeatSteps)
  /\ \A w \in Workers : WF_connectionVars(WorkerSteps(w))

ConnectionSpec == ConnectionInit /\ [][ConnectionNext]_connectionVars /\ ConnectionFairness
-----------------------------------------------------------------------------
(***************************************************************************)
(* Properties.                                                             *)
(***************************************************************************)
ConnectionTypeOK ==
  /\ conn \in [Fds -> Conns]
  /\ session_list \in [0..(SessionListSize - 1) -> [fd : Fds \cup {0}, id : 0..MaxSession]]
  /\ events \in [Fds -> SUBSET {"read", "write"}]
  /\ \A fd \in Fds : out_buffer[fd] \in Seq({"data", "close"})
  /\ peer \in [Fds -> {"none", "open", "closed"}]
  /\ resume_timers \in [SessionIds -> Nat]

\* conn->closed is only ever set for a session that the server ended, and not
\* for the next one that was given the same descriptor.
ClosedByServer == \A fd \in Fds : conn[fd].session_id # 0 /\ conn[fd].closed => conn[fd].session_id \in ended

\* The session table and the connections agree: an occupied slot names a
\* connection of that session, an active connection has its slot, and an
\* INCOMING that is under way finds the connection it was sent for, although
\* the reactor thread looks it up by its slot alone.  In a mode that binds
\* connections to workers no session is taken for closed in place of another.
SessionsMatch ==
  /\ ConnectionTypeOK
  /\ \A i \in DOMAIN session_list : session_list[i].fd # 0 => conn[session_list[i].fd].session_id = session_list[i].id
  /\ \A fd \in Fds : /\ conn[fd].session_id # 0 => get_connection_verify(conn[fd].session_id) = fd
                     /\ conn[fd].session_id = 0 => events[fd] = {} /\ out_buffer[fd] = <<>> /\ peer[fd] = "none"
  /\ \A i \in DOMAIN to_reactor[Master] : get_connection_verify(to_reactor[Master][i].s) # 0
  /\ IsHash /\ given_up = {} => ClosedByServer

\* In a mode that binds connections to workers the callbacks see every session
\* in order: onConnect, then onReceive, then onClose once; unless a heartbeat
\* or a dying worker ended it by force.
Events == INSTANCE SessionEvents WITH
  phase <- [s \in SessionIds |-> IF s \in given_up \/ ~IsHash THEN "given up" ELSE phase[s]]
EventsInOrder == Events!SessionEventsSpec

\* A timer that resumes reading ends with its connection, of which it keeps
\* the socket; unless reading was resumed while it was pending (by the end of
\* the output, or by the user) and throttled again: conn->timer remembers one.
TimersEnd == \A s \in SessionIds : resume_timers[s] > 0 => get_connection_verify(s) # 0 \/ s \in doubled

\* A connection whose reading was not paused by the user can always be heard
\* again: it is read, or a timer or the end of its output will resume reading,
\* or its INCOMING or its end is under way; and no such timer outlives it.
NeverDeaf ==
  /\ TimersEnd
  /\ \A fd \in Fds : LET c == conn[fd] IN
       c.session_id # 0 /\ ~paused[fd] /\ ~c.peer_closed /\ ~c.close_force =>
         \/ events[fd] # {}
         \/ resume_timers[c.session_id] > 0
         \/ [type |-> "incoming", s |-> c.session_id] \in Range(to_reactor[Master])

\* A connection whose peer has gone is freed: with a heartbeat always, without
\* one unless the user has paused it, its CLOSE was refused for an overflow, a
\* worker died, or it is taken for closed in place of an earlier session.
DeadConnectionFreed ==
  \A s \in SessionIds :
    (get_connection_verify(s) # 0 /\ peer[get_session(s).fd] = "closed") ~>
      (get_connection_verify(s) = 0 \/ (~heartbeat /\ (paused[get_session(s).fd] \/ s \in lost_close \cup given_up \/ ~ClosedByServer)))

=============================================================================
