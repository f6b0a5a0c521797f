------------------------------ MODULE PipeIpc -------------------------------
(* The packets that reactor threads and workers exchange over the unix     *)
(* datagram sockets between them (src/server/process.cc,                   *)
(* src/server/worker.cc, src/server/reactor_thread.cc).  A packet larger   *)
(* than a datagram goes as several chunks.  Any thread may write into a    *)
(* worker's pipe, so chunks of several packets interleave in it and the    *)
(* worker tells them apart by msg_id; any worker may write into the pipe   *)
(* of responses, whose reader tells them apart by worker.                  *)
(*                                                                         *)
(* One pipe of each direction is modelled: "down", which the worker Target *)
(* reads, and "up", which the thread Reader reads.  The unit of data is    *)
(* what a datagram of the fallback size holds.                             *)
EXTENDS Naturals, Sequences, FiniteSets

CONSTANTS
  Threads, Reader,     \* the reactor threads; the one that reads "up"
  Workers, Target,     \* the workers; the one that reads "down"
  NoPacket,            \* no call of process_send_packet is in progress
  Sizes,               \* lengths of packets
  IpcSize,             \* units that ipc_max_size leaves for data
  PipeSize,            \* bound: datagrams the kernel holds for a pipe
  MaxPackets,          \* bound: packets sent
  MaxSessions,         \* bound: connections of a thread; the last stays open
  MaxRestarts          \* bound: workers killed

VARIABLES
  worker_msg_id,       \* the next number of a packet
  resp,                \* the packet a sender is in process_send_packet with
  out_buffer,          \* a sender's chunks that wait for room in the pipe
  writing,             \* a thread is in the loop of onPipeWrite
  pipe,                \* the datagrams in each pipe
  session, closed,     \* the connection of each thread: session, conn->closed
  discard_timeout_request,
  worker_buffers,      \* the worker's packets in progress, by msg_id
  send_buffers,        \* the reader's responses in progress, by worker
  delivered,           \* history: the packets handed over
  given_up,            \* history: packets of which a chunk was never sent
  severed,             \* history: packets cut by a restart of their reader
  torn,                \* history: workers with an unfinished response
  restarts

threadVars == <<writing, session, closed>>
readerVars == <<worker_buffers, send_buffers, delivered>>
historyVars == <<given_up, severed, torn, restarts>>
ipcVars == <<worker_msg_id, resp, out_buffer, pipe, discard_timeout_request,
             threadVars, readerVars, historyVars>>

Senders == Threads \cup Workers
FallbackSize == 1
Dest(s) == IF s \in Threads THEN "down" ELSE "up"
Chunks(s) == SelectSeq(pipe[Dest(s)] \o out_buffer[s], LAMBDA c : c.from = s)

IpcInit ==
  /\ worker_msg_id = 1
  /\ resp = [s \in Senders |-> NoPacket]
  /\ out_buffer = [s \in Senders |-> <<>>]
  /\ writing = [t \in Threads |-> FALSE]
  /\ pipe = [d \in {"down", "up"} |-> <<>>]
  /\ session = [t \in Threads |-> 1]
  /\ closed = [t \in Threads |-> FALSE]
  /\ discard_timeout_request \in BOOLEAN
  /\ worker_buffers = <<>>
  /\ send_buffers = [w \in Workers |-> <<>>]
  /\ delivered = <<>>
  /\ given_up = {} /\ severed = {} /\ torn = {} /\ restarts = 0

(* The call of process_send_packet by dispatch() or finish(); a closed     *)
(* connection gets nothing any more.  A packet that fits goes as it is.    *)
process_send_packet(s, size) ==
  /\ worker_msg_id <= MaxPackets
  /\ resp[s] = NoPacket
  /\ s \in Threads => ~closed[s] /\ ~writing[s]
  /\ worker_msg_id' = worker_msg_id + 1
  /\ resp' = [resp EXCEPT ![s] =
       [msg_id |-> worker_msg_id, len |-> size, left |-> size, begin |-> TRUE,
        chunk |-> size > IpcSize, max_length |-> IpcSize]]
  /\ UNCHANGED <<out_buffer, pipe, discard_timeout_request, threadVars,
                 readerVars, historyVars>>

CopyN(r) == IF r.left > r.max_length THEN r.max_length ELSE r.left

Datagram(s, r) ==
  [from |-> s, session |-> IF s \in Threads THEN session[s] ELSE 0,
   msg_id |-> r.msg_id, len |-> r.len, chunk |-> r.chunk, begin |-> r.begin,
   end |-> r.left <= r.max_length,
   data |-> [i \in 1..CopyN(r) |-> <<r.msg_id, r.len - r.left + i>>]]

(* One datagram of the packet: written when nothing waits and the pipe has *)
(* room, else kept in out_buffer.                                          *)
send_packet(s) ==
  /\ resp[s] # NoPacket
  /\ LET r == resp[s]
         d == Datagram(s, r) IN
     /\ IF out_buffer[s] = <<>> /\ Len(pipe[Dest(s)]) < PipeSize
          THEN /\ pipe' = [pipe EXCEPT ![Dest(s)] = Append(@, d)]
               /\ UNCHANGED out_buffer
          ELSE /\ out_buffer' = [out_buffer EXCEPT ![s] = Append(@, d)]
               /\ UNCHANGED pipe
     /\ resp' = [resp EXCEPT ![s] =
          IF d.end THEN NoPacket
          ELSE [r EXCEPT !.left = r.left - CopyN(r), !.begin = FALSE]]
  /\ UNCHANGED <<worker_msg_id, discard_timeout_request, threadVars,
                 readerVars, historyVars>>

(* Of the packet the sender is at, some chunks are in the pipe and some    *)
(* are not.                                                                *)
Cut(s) == IF out_buffer[s] # <<>> THEN ~Head(out_buffer[s]).begin
          ELSE resp[s] # NoPacket /\ ~resp[s].begin

(* The kernel has no memory for the datagram: the packet goes on in chunks *)
(* of the fallback size, and is given up when even one of those fails; of  *)
(* a packet without data there is no chunk to send.                        *)
send_packet_ENOBUFS(s) ==
  /\ resp[s] # NoPacket /\ out_buffer[s] = <<>>
  /\ LET r == resp[s] IN
     IF r.left > 0 /\ (~r.chunk \/ r.max_length > FallbackSize)
       THEN /\ resp' = [resp EXCEPT ![s] =
                 [r EXCEPT !.chunk = TRUE, !.max_length = FallbackSize]]
            /\ UNCHANGED <<given_up, torn>>
       ELSE /\ resp' = [resp EXCEPT ![s] = NoPacket]
            /\ given_up' = given_up \cup {r.msg_id}
            /\ torn' = torn \cup {w \in {s} \cap Workers : Cut(w)}
  /\ UNCHANGED <<worker_msg_id, out_buffer, pipe, discard_timeout_request,
                 threadVars, readerVars, severed, restarts>>

(* ReactorThread_onPipeWrite drops what its connection can no longer use.  *)
Discarded(t, c) ==
  IF c.session = session[t] THEN closed[t] ELSE discard_timeout_request

(* Mutant: the handler returns after a chunk it has dropped.               *)
onPipeWrite_discard_Returns(t) ==
  /\ resp[t] = NoPacket /\ out_buffer[t] # <<>>
  /\ Discarded(t, Head(out_buffer[t]))
  /\ out_buffer' = [out_buffer EXCEPT ![t] = Tail(@)]
  /\ writing' = [writing EXCEPT ![t] = FALSE]
  /\ given_up' = given_up \cup {Head(out_buffer[t]).msg_id}
  /\ UNCHANGED <<worker_msg_id, resp, pipe, session, closed, severed, torn,
                 discard_timeout_request, readerVars, restarts>>

(* One turn of its loop that drops a chunk; the loop goes on with the next *)
(* before the thread does anything else.                                   *)
onPipeWrite_discard(t) ==
  /\ resp[t] = NoPacket /\ out_buffer[t] # <<>>
  /\ Discarded(t, Head(out_buffer[t]))
  /\ out_buffer' = [out_buffer EXCEPT ![t] = Tail(@)]
  /\ writing' = [writing EXCEPT ![t] = Len(out_buffer[t]) > 1]
  /\ given_up' = given_up \cup {Head(out_buffer[t]).msg_id}
  /\ UNCHANGED <<worker_msg_id, resp, pipe, session, closed, severed, torn,
                 discard_timeout_request, readerVars, restarts>>

(* One turn that sends a chunk.                                            *)
onPipeWrite_send(t) ==
  /\ resp[t] = NoPacket /\ out_buffer[t] # <<>>
  /\ ~Discarded(t, Head(out_buffer[t]))
  /\ Len(pipe["down"]) < PipeSize
  /\ pipe' = [pipe EXCEPT !["down"] = Append(@, Head(out_buffer[t]))]
  /\ out_buffer' = [out_buffer EXCEPT ![t] = Tail(@)]
  /\ writing' = [writing EXCEPT ![t] = Len(out_buffer[t]) > 1]
  /\ UNCHANGED <<worker_msg_id, resp, session, closed, readerVars,
                 discard_timeout_request, historyVars>>

(* The pipe is full, or the kernel short of memory: wait for the next event. *)
onPipeWrite_wait(t) ==
  /\ writing[t] /\ ~Discarded(t, Head(out_buffer[t]))
  /\ writing' = [writing EXCEPT ![t] = FALSE]
  /\ UNCHANGED <<worker_msg_id, resp, out_buffer, pipe, session, closed,
                 discard_timeout_request, readerVars, historyVars>>

(* The worker's end of the pipe of responses has room again.               *)
writable_callback(w) ==
  /\ resp[w] = NoPacket /\ out_buffer[w] # <<>>
  /\ Len(pipe["up"]) < PipeSize
  /\ pipe' = [pipe EXCEPT !["up"] = Append(@, Head(out_buffer[w]))]
  /\ out_buffer' = [out_buffer EXCEPT ![w] = Tail(@)]
  /\ UNCHANGED <<worker_msg_id, resp, discard_timeout_request, threadVars,
                 readerVars, historyVars>>

Delivery(c, data) ==
  Append(delivered, [from |-> c.from, msg_id |-> c.msg_id, len |-> c.len,
                     data |-> data])

(* get_worker_buffer: the buffer of a packet, made by its first chunk.     *)
get_worker_buffer(c) ==
  IF c.msg_id \in DOMAIN worker_buffers THEN worker_buffers[c.msg_id] ELSE <<>>

HasBuffer(c) == c.begin \/ c.msg_id \in DOMAIN worker_buffers

(* One turn of Worker_onPipeReceive.  A chunk that belongs to no packet    *)
(* stays in the pipe.                                                      *)
Worker_onPipeReceive ==
  /\ pipe["down"] # <<>> /\ resp[Target] = NoPacket
  /\ LET c == Head(pipe["down"])
         buffer == get_worker_buffer(c) \o c.data IN
     /\ c.chunk => HasBuffer(c)
     /\ worker_buffers' =
          IF c.chunk /\ ~c.end
            THEN [i \in DOMAIN worker_buffers \cup {c.msg_id} |->
                    IF i = c.msg_id THEN buffer ELSE worker_buffers[i]]
            ELSE [i \in DOMAIN worker_buffers \ {c.msg_id} |-> worker_buffers[i]]
     /\ delivered' = IF ~c.chunk THEN Delivery(c, c.data)
                     ELSE IF c.end THEN Delivery(c, buffer) ELSE delivered
  /\ pipe' = [pipe EXCEPT !["down"] = Tail(@)]
  /\ UNCHANGED <<worker_msg_id, resp, out_buffer, discard_timeout_request,
                 threadVars, send_buffers, historyVars>>

(* One turn of ReactorThread_onPipeRead.                                   *)
ReactorThread_onPipeRead ==
  /\ pipe["up"] # <<>> /\ resp[Reader] = NoPacket /\ ~writing[Reader]
  /\ LET c == Head(pipe["up"])
         package == send_buffers[c.from] \o c.data IN
     IF ~c.chunk
       THEN delivered' = Delivery(c, c.data) /\ UNCHANGED send_buffers
     ELSE IF c.end
       THEN /\ delivered' = Delivery(c, package)
            /\ send_buffers' = [send_buffers EXCEPT ![c.from] = <<>>]
       ELSE /\ send_buffers' = [send_buffers EXCEPT ![c.from] = package]
            /\ UNCHANGED delivered
  /\ pipe' = [pipe EXCEPT !["up"] = Tail(@)]
  /\ UNCHANGED <<worker_msg_id, resp, out_buffer, discard_timeout_request,
                 threadVars, worker_buffers, historyVars>>

(* A worker closes the connection: end() sets conn->closed.                *)
end(t) ==
  /\ ~closed[t] /\ session[t] < MaxSessions
  /\ closed' = [closed EXCEPT ![t] = TRUE]
  /\ UNCHANGED <<worker_msg_id, resp, out_buffer, writing, pipe, session,
                 discard_timeout_request, readerVars, historyVars>>

(* The thread frees the connection; the next one has another session.      *)
close_connection(t) ==
  /\ resp[t] = NoPacket /\ ~writing[t] /\ session[t] < MaxSessions
  /\ session' = [session EXCEPT ![t] = @ + 1]
  /\ closed' = [closed EXCEPT ![t] = FALSE]
  /\ UNCHANGED <<worker_msg_id, resp, out_buffer, writing, pipe,
                 discard_timeout_request, readerVars, historyVars>>

(* A worker is killed and the manager starts it again on the same pipes.   *)
worker_restarts(w) ==
  /\ restarts < MaxRestarts
  /\ restarts' = restarts + 1
  /\ resp' = [resp EXCEPT ![w] = NoPacket]
  /\ out_buffer' = [out_buffer EXCEPT ![w] = <<>>]
  /\ IF w = Target
       THEN worker_buffers' = <<>> /\ severed' = severed \cup DOMAIN worker_buffers
       ELSE UNCHANGED <<worker_buffers, severed>>
  /\ torn' = torn \cup {v \in {w} : Cut(v)}
  /\ given_up' = given_up \cup {out_buffer[w][i].msg_id : i \in DOMAIN out_buffer[w]}
       \cup (IF resp[w] # NoPacket THEN {resp[w].msg_id} ELSE {})
  /\ UNCHANGED <<worker_msg_id, pipe, discard_timeout_request, threadVars,
                 send_buffers, delivered>>

IpcNext ==
  \/ \E s \in Senders :
       \/ \E size \in Sizes : process_send_packet(s, size)
       \/ send_packet(s)
       \/ send_packet_ENOBUFS(s)
  \/ \E t \in Threads : \/ onPipeWrite_discard(t) \/ onPipeWrite_send(t)
                        \/ onPipeWrite_wait(t) \/ end(t) \/ close_connection(t)
  \/ \E w \in Workers : writable_callback(w) \/ worker_restarts(w)
  \/ Worker_onPipeReceive
  \/ ReactorThread_onPipeRead

-----------------------------------------------------------------------------
Whole(d) == [i \in 1..d.len |-> <<d.msg_id, i>>]

(* The packet's rest is still with its sender or on its way.               *)
Coming(s, id) ==
  \/ resp[s] # NoPacket /\ resp[s].msg_id = id
  \/ \E i \in DOMAIN Chunks(s) : Chunks(s)[i].msg_id = id /\ Chunks(s)[i].end

(* Packets that cross the pipes in chunks arrive as they were sent:        *)
(* whatever is handed over is one whole packet (a worker with a response   *)
(* that was never finished excepted), each packet at most once and those   *)
(* of a sender in the order it sent them.  No chunk reaches the worker     *)
(* without the first one of its packet, for such a chunk would block the   *)
(* pipe for ever (a restart of the worker inside a packet excepted), and a *)
(* packet the worker has begun is on its way to its end unless its sender  *)
(* gave it up.  This is about the chunks of process_send_packet, the       *)
(* discarding in ReactorThread_onPipeWrite and the reassembly in           *)
(* Worker_onPipeReceive and ReactorThread_onPipeRead.                      *)
PacketsWhole ==
  /\ \A i \in DOMAIN delivered :
       delivered[i].data = Whole(delivered[i]) \/ delivered[i].from \in torn
  /\ \A i, j \in DOMAIN delivered :
       i < j /\ delivered[i].from = delivered[j].from
         => delivered[i].msg_id < delivered[j].msg_id
  /\ \A i \in DOMAIN pipe["down"] :
       LET c == pipe["down"][i] IN
       c.chunk => \/ HasBuffer(c) \/ c.msg_id \in severed
                  \/ \E j \in 1..(i - 1) : /\ pipe["down"][j].msg_id = c.msg_id
                                           /\ pipe["down"][j].begin
  /\ \A id \in DOMAIN worker_buffers :
       id \in given_up \/ \E t \in Threads : Coming(t, id)
=============================================================================
