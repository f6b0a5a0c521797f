----------------------------- MODULE Http2Client -----------------------------
(***************************************************************************)
(* The HTTP/2 client for coroutines, class Client of                       *)
(* ext-src/openswoole_http2_client_coro.cc: requests multiplexed over one  *)
(* connection, sent by one coroutine while another one receives whatever   *)
(* response comes next.                                                    *)
(*                                                                         *)
(* The data of a response are numbered units; a DATA frame carries a few   *)
(* of them.  A frame that makes the receiver answer (SETTINGS, PING, a     *)
(* window that is used up) is handled while no other coroutine is sending: *)
(* the socket allows one writer and a second is a fatal error.             *)
(***************************************************************************)
EXTENDS Integers, Sequences, FiniteSets, SequencesExt

CONSTANTS MaxStreams,      \* requests per connection
          MaxUnits,        \* units of data in a response
          MaxWire,         \* frames on their way
          DefaultWindow,   \* OSW_HTTP2_DEFAULT_WINDOW_SIZE
          MaxWindow,       \* OSW_HTTP2_MAX_WINDOW_SIZE
          MaxConnections

StreamIds == 1 .. MaxStreams

VARIABLES
  client,      \* "none", "connecting", "up", "closed": closed, but still held
  streams,     \* the Stream of each id
  stream_id,   \* the next one to send
  max_concurrent_streams,
  window_size, \* local_settings.window_size
  writer,      \* the sending coroutine: "idle", or what it waits in
  request,     \* what it sends
  reader,      \* "idle", "recv", "read"
  responses,   \* history: the units returned for each stream, and whether its end was
  broken,      \* history: a send failed, so that the rest of a frame is missing
  connections, \* history: connections made
  server,      \* the server's view of each stream
  wire,        \* frames on their way to the client
  server_window \* what the server may send on the connection

h2Server == <<server, wire, server_window>>
h2Vars == <<client, streams, stream_id, max_concurrent_streams, window_size, writer, request, reader,
            responses, broken, connections, h2Server>>

NoStream == [on |-> FALSE, pipeline |-> FALSE, use_pipeline_read |-> FALSE,
             pipeline_response |-> FALSE, request_end |-> FALSE, buffer |-> <<>>,
             local_window_size |-> 0]
NoRequest == [id |-> 0, data |-> FALSE, end |-> FALSE]
NoResponse == [data |-> <<>>, ends |-> 0]
Unseen == [state |-> "none", sent |-> 0, ended |-> FALSE, window |-> 0]

H2Init ==
  /\ client = "none" /\ streams = [i \in StreamIds |-> NoStream] /\ stream_id = 0
  /\ max_concurrent_streams = MaxStreams /\ window_size = DefaultWindow
  /\ writer = "idle" /\ request = NoRequest /\ reader = "idle"
  /\ responses = [i \in StreamIds |-> NoResponse] /\ broken = FALSE /\ connections = 0
  /\ server = [i \in StreamIds |-> Unseen] /\ wire = <<>> /\ server_window = 0

-----------------------------------------------------------------------------
(* The history of a connection ends with it.                               *)
Forget ==
  /\ responses' = [i \in StreamIds |-> NoResponse] /\ broken' = FALSE
  /\ server' = [i \in StreamIds |-> Unseen] /\ wire' = <<>> /\ server_window' = 0

(* close(): while a coroutine waits on the socket the streams stay, and    *)
(* so does the socket, until close() is called again.                      *)
H2Close(bound) ==
  /\ IF bound THEN client' = "closed" /\ UNCHANGED streams
     ELSE client' = "none" /\ streams' = [i \in StreamIds |-> NoStream]
  /\ Forget


h2_connect ==
  /\ client = "none" /\ writer = "idle" /\ reader = "idle"
  /\ connections < MaxConnections
  /\ client' = "connecting" /\ writer' = "connect"
  /\ UNCHANGED <<streams, stream_id, max_concurrent_streams, window_size, request, reader, responses,
                 broken, connections, h2Server>>

(* The settings the client announces carry its window as it is left from   *)
(* the connection before.                                                  *)
h2_connected ==
  /\ writer = "connect" /\ client = "connecting"
  /\ client' = "up" /\ writer' = "idle"
  /\ stream_id' = 1
  /\ max_concurrent_streams' = MaxStreams
  /\ connections' = connections + 1
  /\ server' = [i \in StreamIds |-> [Unseen EXCEPT !.window = window_size]]
  /\ server_window' = DefaultWindow
  /\ UNCHANGED <<streams, window_size, request, reader, responses, broken, wire>>

h2_connect_fails ==
  /\ writer = "connect"
  /\ writer' = "idle"
  /\ H2Close(FALSE)
  /\ UNCHANGED <<stream_id, max_concurrent_streams, window_size, request, reader, connections>>

(* create_stream: emplace leaves a stream of that id alone.                *)
create_stream(id, pipeline, use_pipeline_read) ==
  streams' = IF streams[id].on THEN streams
             ELSE [streams EXCEPT ![id] = [NoStream EXCEPT !.on = TRUE, !.pipeline = pipeline,
                                             !.use_pipeline_read = use_pipeline_read,
                                             !.local_window_size = DefaultWindow]]

(* send_request up to the wait for the HEADERS frame to be sent.           *)
send_request(pipeline, use_pipeline_read, data) ==
  /\ writer = "idle" /\ client = "up"
  /\ stream_id <= MaxStreams
  /\ Cardinality({i \in StreamIds : streams[i].on}) < max_concurrent_streams
  /\ create_stream(stream_id, pipeline, use_pipeline_read)
  /\ writer' = "headers"
  /\ request' = [id |-> stream_id, data |-> data, end |-> FALSE]
  /\ UNCHANGED <<client, stream_id, max_concurrent_streams, window_size, reader, responses, broken,
                 connections, h2Server>>

ServerSees(id) ==
  server' = IF broken \/ server[id].state # "none" THEN server
            ELSE [server EXCEPT ![id].state = "open"]

headers_sent ==
  /\ writer = "headers" /\ client = "up"
  /\ ServerSees(request.id)
  /\ IF request.data
     THEN writer' = "body" /\ UNCHANGED <<request, stream_id>>
     ELSE writer' = "idle" /\ request' = NoRequest /\ stream_id' = stream_id + 1
  /\ UNCHANGED <<client, streams, max_concurrent_streams, window_size, reader, responses, broken,
                 connections, wire, server_window>>

(* send_data of the whole body.                                            *)
body_sent ==
  /\ writer = "body" /\ client = "up"
  /\ writer' = "idle" /\ request' = NoRequest /\ stream_id' = stream_id + 1
  /\ UNCHANGED <<client, streams, max_concurrent_streams, window_size, reader, responses, broken,
                 connections, h2Server>>

(* write() on a pipelined stream.                                          *)
write_data(id, end) ==
  /\ writer = "idle" /\ client = "up"
  /\ streams[id].on /\ streams[id].pipeline /\ ~streams[id].request_end
  /\ writer' = "write"
  /\ request' = [id |-> id, data |-> TRUE, end |-> end]
  /\ UNCHANGED <<client, streams, stream_id, max_concurrent_streams, window_size, reader, responses,
                 broken, connections, h2Server>>

written ==
  /\ writer = "write" /\ client = "up"
  /\ streams' = [streams EXCEPT ![request.id].request_end = streams[request.id].on /\ (@ \/ request.end)]
  /\ writer' = "idle" /\ request' = NoRequest
  /\ UNCHANGED <<client, stream_id, max_concurrent_streams, window_size, reader, responses, broken,
                 connections, h2Server>>

(* A send that fails: a timeout, a reset, a cancel, a close.  The stream   *)
(* stays and its id is used again.                                         *)
h2_send_fails ==
  /\ writer \in {"headers", "body", "write"}
  /\ writer' = "idle" /\ request' = NoRequest
  /\ broken' = TRUE
  /\ responses' = [i \in StreamIds |-> NoResponse]
  /\ server' = [i \in StreamIds |-> Unseen]
  /\ UNCHANGED <<client, streams, stream_id, max_concurrent_streams, window_size, reader,
                 connections, wire, server_window>>

h2_close ==
  /\ client # "none"
  /\ H2Close(writer # "idle" \/ reader # "idle")
  /\ UNCHANGED <<stream_id, max_concurrent_streams, window_size, writer, request, reader, connections>>

-----------------------------------------------------------------------------
(* recv(), and read(), which also returns a part of a response.            *)
h2_recv(how) ==
  /\ reader = "idle" /\ client = "up"
  /\ reader' = how
  /\ UNCHANGED <<client, streams, stream_id, max_concurrent_streams, window_size, writer, request,
                 responses, broken, connections, h2Server>>

(* recv_packet fails; nothing is closed.                                   *)
h2_recv_fails ==
  /\ reader # "idle"
  /\ reader' = "idle"
  /\ UNCHANGED <<client, streams, stream_id, max_concurrent_streams, window_size, writer, request,
                 responses, broken, connections, h2Server>>

NextIs(type) == reader # "idle" /\ client = "up" /\ wire # <<>> /\ Head(wire).type = type

(* parse_frame on SETTINGS, whose acknowledgement is sent at once.         *)
frame_settings ==
  /\ NextIs("SETTINGS") /\ writer = "idle"
  /\ max_concurrent_streams' = Head(wire).n
  /\ wire' = Tail(wire)
  /\ UNCHANGED <<client, streams, stream_id, window_size, writer, request, reader, responses, broken,
                 connections, server, server_window>>

frame_goaway ==
  /\ NextIs("GOAWAY")
  /\ H2Close(writer # "idle")
  /\ reader' = "idle"
  /\ UNCHANGED <<stream_id, max_concurrent_streams, window_size, writer, request, connections>>

(* delete and free quietly                                                 *)
frame_rst_stream ==
  /\ NextIs("RST_STREAM")
  /\ streams' = [streams EXCEPT ![Head(wire).id] = NoStream]
  /\ wire' = Tail(wire)
  /\ UNCHANGED <<client, stream_id, max_concurrent_streams, window_size, writer, request, reader,
                 responses, broken, connections, server, server_window>>

(* HEADERS and DATA of a stream that is gone are skipped.                  *)
frame_unknown ==
  /\ NextIs("HEADERS") \/ NextIs("DATA")
  /\ ~streams[Head(wire).id].on
  /\ wire' = Tail(wire)
  /\ UNCHANGED <<client, streams, stream_id, max_concurrent_streams, window_size, writer, request,
                 reader, responses, broken, connections, server, server_window>>

ReturnResponse(id, data, end) ==
  [responses EXCEPT ![id].data = @ \o data, ![id].ends = IF end THEN @ + 1 ELSE @]

(* The end of parse_frame: the response is complete, or a part of it is    *)
(* wanted; the buffer moves into the response that is returned.            *)
Deliver_KeepsBuffer(id, stream, end) ==
  LET pipeline_read == /\ reader = "read" \/ stream.use_pipeline_read
                       /\ stream.pipeline_response
  IN IF end \/ pipeline_read
     THEN /\ responses' = ReturnResponse(id, stream.buffer, end)
          /\ streams' = [streams EXCEPT ![id] = IF end THEN NoStream ELSE stream]
          /\ reader' = "idle"
     ELSE /\ streams' = [streams EXCEPT ![id] = stream]
          /\ UNCHANGED <<responses, reader>>
Deliver(id, stream, end) ==
  LET pipeline_read == /\ reader = "read" \/ stream.use_pipeline_read
                       /\ stream.pipeline_response
  IN IF end \/ pipeline_read
     THEN /\ responses' = ReturnResponse(id, stream.buffer, end)
          /\ streams' = [streams EXCEPT ![id] = IF end THEN NoStream
                                                ELSE [stream EXCEPT !.buffer = <<>>]]
          /\ reader' = "idle"
     ELSE /\ streams' = [streams EXCEPT ![id] = stream]
          /\ UNCHANGED <<responses, reader>>

frame_headers ==
  /\ NextIs("HEADERS")
  /\ LET f == Head(wire)
     IN streams[f.id].on /\ Deliver(f.id, streams[f.id], f.end)
  /\ wire' = Tail(wire)
  /\ UNCHANGED <<client, stream_id, max_concurrent_streams, window_size, writer, request, broken,
                 connections, server, server_window>>

(* A window below a quarter of the maximum is filled up to the maximum.    *)
Refill(window) == IF window < MaxWindow \div 4 THEN MaxWindow - window ELSE 0

frame_data ==
  /\ NextIs("DATA")
  /\ LET f == Head(wire)
         n == Len(f.data)
         stream == streams[f.id]
         update == IF n = 0 THEN 0 ELSE Refill(window_size - n)
         stream_update == IF n = 0 THEN 0 ELSE Refill(stream.local_window_size - n)
     IN /\ stream.on
        /\ writer = "idle" \/ update + stream_update = 0
        /\ window_size' = window_size - n + update
        /\ server_window' = server_window + update
        /\ server' = [server EXCEPT ![f.id].window = @ + stream_update]
        /\ Deliver(f.id, [stream EXCEPT !.pipeline_response = @ \/ ~f.end,
                                        !.buffer = @ \o f.data,
                                        !.local_window_size = @ - n + stream_update], f.end)
  /\ wire' = Tail(wire)
  /\ UNCHANGED <<client, stream_id, max_concurrent_streams, writer, request, broken, connections>>

(* A window update that cannot be sent ends recv() before the rest of the  *)
(* frame is looked at.                                                     *)
frame_data_fails ==
  /\ NextIs("DATA") /\ writer = "idle"
  /\ LET f == Head(wire)
         n == Len(f.data)
         stream == streams[f.id]
     IN /\ stream.on /\ n > 0
        /\ Refill(window_size - n) + Refill(stream.local_window_size - n) > 0
        /\ window_size' \in {window_size - n, window_size - n + Refill(window_size - n)}
        /\ streams' = [streams EXCEPT ![f.id].buffer = @ \o f.data,
                                      ![f.id].pipeline_response = @ \/ ~f.end,
                                      ![f.id].local_window_size = @ - n]
  /\ broken' = TRUE /\ reader' = "idle"
  /\ wire' = Tail(wire)
  /\ UNCHANGED <<client, stream_id, max_concurrent_streams, writer, request, responses, connections,
                 server, server_window>>

-----------------------------------------------------------------------------
(* The server: it may answer before it has all of the request.             *)
ServerSends(frame) ==
  /\ client = "up" /\ ~broken /\ Len(wire) < MaxWire
  /\ wire' = Append(wire, frame)
  /\ UNCHANGED <<client, streams, stream_id, max_concurrent_streams, window_size, writer, request,
                 reader, responses, broken, connections>>

server_headers(id, end) ==
  /\ server[id].state = "open" /\ ~server[id].ended
  /\ server' = [server EXCEPT ![id].state = "answering", ![id].ended = end]
  /\ ServerSends([type |-> "HEADERS", id |-> id, data |-> <<>>, n |-> 0, end |-> end])
  /\ UNCHANGED server_window

server_data(id, n, end) ==
  /\ server[id].state = "answering" /\ ~server[id].ended
  /\ server[id].sent + n <= MaxUnits
  /\ n <= server_window /\ n <= server[id].window
  /\ n = 0 => end
  /\ server' = [server EXCEPT ![id].sent = @ + n, ![id].ended = end, ![id].window = @ - n]
  /\ server_window' = server_window - n
  /\ ServerSends([type |-> "DATA", id |-> id, data |-> [i \in 1 .. n |-> server[id].sent + i],
                  n |-> 0, end |-> end])

server_resets(id) ==
  /\ server[id].state # "none" /\ ~server[id].ended
  /\ server' = [server EXCEPT ![id].state = "reset", ![id].ended = TRUE]
  /\ ServerSends([type |-> "RST_STREAM", id |-> id, data |-> <<>>, n |-> 0, end |-> FALSE])
  /\ UNCHANGED server_window

server_settings(n) ==
  /\ wire = <<>>
  /\ ServerSends([type |-> "SETTINGS", id |-> 0, data |-> <<>>, n |-> n, end |-> FALSE])
  /\ UNCHANGED <<server, server_window>>

server_goaway ==
  /\ wire = <<>>
  /\ ServerSends([type |-> "GOAWAY", id |-> 0, data |-> <<>>, n |-> 0, end |-> FALSE])
  /\ UNCHANGED <<server, server_window>>

H2Next ==
  \/ h2_connect \/ h2_connected \/ h2_connect_fails
  \/ send_request(FALSE, FALSE, FALSE) \/ send_request(FALSE, TRUE, TRUE)
  \/ send_request(TRUE, FALSE, FALSE)
  \/ headers_sent \/ body_sent \/ written \/ h2_send_fails \/ h2_close
  \/ \E how \in {"recv", "read"} : h2_recv(how)
  \/ h2_recv_fails
  \/ frame_settings \/ frame_goaway \/ frame_rst_stream \/ frame_unknown
  \/ frame_headers \/ frame_data \/ frame_data_fails
  \/ \E id \in StreamIds :
       \/ \E end \in BOOLEAN :
            \/ write_data(id, end) \/ server_headers(id, end)
            \/ \E n \in 0 .. MaxUnits : server_data(id, n, end)
       \/ server_resets(id)
  \/ server_settings(1)
  \/ server_goaway

-----------------------------------------------------------------------------
(* The units of stream id still on their way.                              *)
InFlight(id) ==
  FlattenSeq([k \in DOMAIN wire |-> IF wire[k].id = id THEN wire[k].data ELSE <<>>])

(* As long as no send has failed on it, what a connection carries is what  *)
(* the program gets: the parts returned for a stream, the ones collected   *)
(* for it and the ones on their way are what the server sent for it, once  *)
(* and in order; a complete response is returned once, last, and ends its  *)
(* stream; a request has a stream until it is answered or reset.  On the   *)
(* first connection both sides agree on every window, so that the server   *)
(* is never without one for good.                                          *)
OwnStreams ==
  /\ stream_id \in 0 .. MaxStreams + 1
  /\ client = "none" => \A id \in StreamIds : ~streams[id].on
  /\ client = "up" /\ ~broken =>
       \A id \in StreamIds :
         /\ server[id].state # "reset" =>
              responses[id].data \o streams[id].buffer \o InFlight(id) = [i \in 1 .. server[id].sent |-> i]
         /\ responses[id].ends = IF /\ server[id].ended /\ server[id].state # "reset"
                                    /\ ~streams[id].on
                                 THEN 1 ELSE 0
         /\ streams[id].on <=>
              \/ writer = "headers" /\ request.id = id
              \/ /\ server[id].state # "none"
                 /\ ~server[id].ended \/ \E k \in DOMAIN wire : wire[k].id = id
  /\ client = "up" /\ ~broken /\ connections = 1 =>
       /\ server_window + Len(FlattenSeq([k \in DOMAIN wire |-> wire[k].data])) = window_size
       /\ \A id \in StreamIds :
            streams[id].on /\ server[id].state # "reset" =>
              server[id].window + Len(InFlight(id)) = streams[id].local_window_size
       /\ window_size \in 0 .. MaxWindow

=============================================================================
