----------------------------- MODULE HttpServer -----------------------------
(***************************************************************************)
(* One connection of the HTTP and WebSocket server: the reactor thread,    *)
(* Port_onRead_http and dispatch_frame, which takes what the client sends  *)
(* for requests or for frames; the worker, onReceive and the Response      *)
(* object of ext-src/openswoole_http_response.cc, in the hands of a        *)
(* program that may call its methods in any order and drop it at any time; *)
(* and any process, which may disconnect() the client.  They share         *)
(* conn->websocket_status without a lock.  A send may fail at any time,    *)
(* for the output buffer is full, and succeed the next time.               *)
(*                                                                         *)
(* The client sends a request when it has read the response to the last    *)
(* one, frames once it has read a 101, and nothing after its close frame.  *)
(* A program detaches a response before it has sent anything with it, and  *)
(* answers a handshake with a status and an empty end(); the program       *)
(* pushes to clients whose handshake is answered.                          *)
(***************************************************************************)
EXTENDS Naturals, Sequences, SequencesExt

CONSTANTS HttpRequests,  \* requests a client sends
          MaxWrites,     \* bound on the chunks of a response
          MaxMessages,   \* messages a client sends over the WebSocket
          MaxFrames,     \* bound on the frames on their way
          Owner, Other   \* the worker the connection is bound to, and another process

VARIABLES
  handshake_cb,      \* onHandShake is set
  websocket_status,  \* of the connection, as is the next
  http_upgrade,
  websocket_buffer,  \* the first part of this message, or 0
  conn_closed,       \* conn->closed
  peer_closed,       \* conn->peer_closed, or the connection is gone
  inbox,             \* what the client has sent
  queue,             \* what is dispatched to the worker
  ctx,               \* the HttpContext of the response
  closer,            \* where a process is in disconnect(), which it calls once: "idle",
                     \* "pushed" or "done"
  reading,           \* what the client expects next of the bytes it was sent
  requests, writes, composed,
  fragmented,        \* the client has sent the first part of a message
  client_closed,     \* the client has sent its close frame
  messages,          \* history: messages handed to onMessage
  disconnected,      \* history: somebody called disconnect()
  unfinished         \* history: a response was dropped and its last chunk could not be sent

connection == <<handshake_cb, websocket_status, http_upgrade, websocket_buffer>>
clientSide == <<inbox, requests, composed, fragmented, client_closed>>
bounds == <<writes, messages, disconnected, unfinished>>
httpdVars == <<connection, conn_closed, peer_closed, queue, ctx, closer, reading, clientSide,
               bounds>>

Frame(op, n, fin) == [op |-> op, n |-> n, fin |-> fin]
Requests == {"plain", "upgrade", "bad_upgrade"}
Frames == {"text", "continuation", "ping", "close"}
Upgraded == websocket_status \in {"handshake", "active", "closing"}

(* The response objects: bound to a request, or made by create().          *)
Context(keepalive, upgrade) ==
  [live |-> TRUE, end |-> FALSE, detached |-> FALSE, header |-> FALSE, chunked |-> FALSE,
   trailer |-> FALSE, status |-> 0, keepalive |-> keepalive, upgrade |-> upgrade, ending |-> FALSE]
NoContext == [Context(FALSE, FALSE) EXCEPT !.live = FALSE, !.end = TRUE]

HttpdInit ==
  /\ handshake_cb \in BOOLEAN /\ websocket_status = "none" /\ http_upgrade = FALSE
  /\ websocket_buffer = 0 /\ conn_closed = FALSE /\ peer_closed = FALSE
  /\ inbox = <<>> /\ queue = <<>> /\ ctx = NoContext
  /\ closer = [p \in {Owner, Other} |-> "idle"]
  /\ reading = "idle" /\ requests = 0 /\ writes = 0 /\ composed = 0
  /\ fragmented = FALSE /\ client_closed = FALSE
  /\ messages = <<>> /\ disconnected = FALSE /\ unfinished = FALSE

-----------------------------------------------------------------------------
(* The client's reading of one piece: a response of known length, with its *)
(* body or before it, a chunked one piece by piece, one that ends with the *)
(* connection; after a 101, frames; after a close frame, nothing matters.  *)
Expect(state, piece) ==
  CASE state = "closed" -> "closed"
    [] state = "response" /\ piece \in {"full", "head", "chunked", "unsized", "switch"} ->
         [full |-> "idle", head |-> "body", chunked |-> "chunks",
          unsized |-> "until_close", switch |-> "frames"][piece]
    [] state = "body" /\ piece = "body" -> "idle"
    [] state = "chunks" /\ piece \in {"chunk", "zero", "last"} ->
         [chunk |-> "chunks", zero |-> "trailers", last |-> "idle"][piece]
    [] state = "trailers" /\ piece = "trailer" -> "idle"
    [] state = "frames" /\ piece \in {"frame", "close"} ->
         [frame |-> "frames", close |-> "closed"][piece]
    [] OTHER -> "garbled"

Sent(pieces) == reading' = FoldLeft(Expect, reading, pieces)

(* What ctx->send() may return: after send_yield too, it is what the last  *)
(* attempt returned.                                                       *)
Sends == IF conn_closed \/ peer_closed THEN {FALSE} ELSE BOOLEAN

Piece(ok, piece) == IF ok THEN <<piece>> ELSE <<>>

-----------------------------------------------------------------------------
(* The client.                                                             *)
ask(kind) ==
  /\ reading = "idle" /\ requests < HttpRequests /\ ~peer_closed
  /\ requests' = requests + 1
  /\ reading' = "response"
  /\ inbox' = Append(inbox, Frame(kind, requests + 1, TRUE))
  /\ UNCHANGED <<connection, conn_closed, peer_closed, queue, ctx, closer, composed, fragmented,
                 client_closed, bounds>>

(* A frame: a whole message, the first or the last part of one, or a       *)
(* control frame, which may come between the parts.                        *)
send_frame(op, fin) ==
  /\ reading \in {"frames", "closed"} /\ ~client_closed /\ ~peer_closed
  /\ Len(inbox) + Len(queue) < MaxFrames
  /\ CASE op = "text" -> ~fragmented /\ composed < MaxMessages
       [] op = "continuation" -> fragmented /\ fin
       [] OTHER -> fin
  /\ composed' = IF op = "text" THEN composed + 1 ELSE composed
  /\ fragmented' = IF op \in {"text", "continuation"} THEN ~fin ELSE fragmented
  /\ client_closed' = (op = "close")
  /\ inbox' = Append(inbox, Frame(op, composed', fin))
  /\ UNCHANGED <<connection, conn_closed, peer_closed, queue, ctx, closer, reading, requests,
                 bounds>>

-----------------------------------------------------------------------------
(* The reactor thread: Port_onRead_http.  A connection that is upgraded    *)
(* speaks frames; the first of them makes the status ACTIVE, whatever it   *)
(* was.  dispatch_frame looks at the status once more for a close frame.   *)
Status == IF http_upgrade THEN websocket_status ELSE "active"

onRead_request ==
  /\ inbox # <<>> /\ ~peer_closed
  /\ ~Upgraded /\ Head(inbox).op \in Requests
  /\ inbox' = Tail(inbox)
  /\ queue' = Append(queue, Head(inbox))
  /\ UNCHANGED <<connection, conn_closed, peer_closed, ctx, closer, reading, requests, composed,
                 fragmented, client_closed, bounds>>

onRead_bad_request ==
  /\ inbox # <<>> /\ ~peer_closed
  /\ ~Upgraded /\ Head(inbox).op \notin Requests
  /\ inbox' = Tail(inbox)
  /\ Sent(<<"unsized">>)
  /\ peer_closed' = TRUE
  /\ UNCHANGED <<connection, conn_closed, queue, ctx, closer, requests, composed, fragmented,
                 client_closed, bounds>>

(* Mutant: a part of a message is dispatched as if it were the message.    *)
dispatch_frame_Parts(f) ==
  /\ queue' = Append(queue, IF f.op = "continuation" THEN Frame("text", f.n, TRUE) ELSE f)
  /\ IF f.op = "close" THEN Sent(<<"close">>) ELSE UNCHANGED reading
  /\ peer_closed' = (f.op = "close")
  /\ UNCHANGED websocket_buffer

dispatch_frame(f) ==
  CASE f.op = "text" /\ ~f.fin ->
         websocket_buffer' = f.n /\ UNCHANGED <<queue, reading, peer_closed>>
    [] f.op = "continuation" ->
         /\ websocket_buffer' = 0
         /\ queue' = Append(queue, Frame("text", websocket_buffer, TRUE))
         /\ UNCHANGED <<reading, peer_closed>>
    [] f.op = "close" ->
         /\ IF Status # "closing"
            THEN queue' = Append(queue, f) /\ Sent(<<"close">>)
            ELSE UNCHANGED <<queue, reading>>
         /\ peer_closed' = TRUE
         /\ UNCHANGED websocket_buffer
    [] OTHER ->
         queue' = Append(queue, f) /\ UNCHANGED <<websocket_buffer, reading, peer_closed>>

onRead_frame ==
  /\ inbox # <<>> /\ ~peer_closed /\ Upgraded
  /\ inbox' = Tail(inbox)
  /\ http_upgrade' = TRUE
  /\ websocket_status' = IF Head(inbox).op = "close" /\ Status = "closing" THEN "none" ELSE Status
  /\ dispatch_frame(Head(inbox))
  /\ UNCHANGED <<handshake_cb, conn_closed, ctx, closer, requests, composed, fragmented,
                 client_closed, bounds>>

(* The CLOSE event of the worker reaches the thread, or the client goes.   *)
reactor_close ==
  /\ ~peer_closed
  /\ peer_closed' = TRUE
  /\ UNCHANGED <<connection, conn_closed, queue, ctx, closer, reading, clientSide, bounds>>

-----------------------------------------------------------------------------
(* The worker: onReceive.  While it is in disconnect() or end() it does    *)
(* not look at its queue.                                                  *)
Receives == queue # <<>> /\ closer[Owner] # "pushed" /\ ~ctx.ending /\ queue' = Tail(queue)

onMessage ==
  /\ Receives /\ websocket_status = "active" /\ Head(queue).op \in {"text", "ping", "close"}
  /\ messages' = IF Head(queue).op = "text" THEN Append(messages, Head(queue).n) ELSE messages
  /\ \E ok \in Sends : Sent(Piece(ok /\ Head(queue).op = "ping", "frame"))
  /\ UNCHANGED <<connection, conn_closed, peer_closed, ctx, closer, clientSide, writes,
                 disconnected, unfinished>>

(* A frame of a connection that is no longer ACTIVE is parsed as a request.*)
onReceive_illegal ==
  /\ Receives /\ websocket_status # "active" /\ Head(queue).op \in {"text", "ping", "close"}
  /\ \E ok \in Sends : Sent(Piece(ok, "unsized"))
  /\ conn_closed' = TRUE
  /\ UNCHANGED <<connection, peer_closed, ctx, closer, clientSide, bounds>>

onRequest ==
  /\ Receives /\ Head(queue).op = "plain" /\ websocket_status # "connection"
  /\ \E keepalive \in BOOLEAN : ctx' = Context(keepalive, FALSE)
  /\ writes' = 0
  /\ UNCHANGED <<connection, conn_closed, peer_closed, closer, reading, clientSide, messages,
                 disconnected, unfinished>>

(* A request to upgrade makes the status CONNECTION, and that stays when   *)
(* the handshake is refused.                                               *)
Handshake ==
  \/ Head(queue).op \in {"upgrade", "bad_upgrade"}
  \/ Head(queue).op = "plain" /\ websocket_status = "connection"

onHandShake ==
  /\ Receives /\ handshake_cb /\ Handshake
  /\ websocket_status' = "handshake"
  /\ ctx' = Context(TRUE, TRUE)
  /\ UNCHANGED <<handshake_cb, http_upgrade, websocket_buffer, conn_closed, peer_closed, closer,
                 reading, clientSide, bounds>>

(* openswoole_websocket_handshake: the status is ACTIVE before the 101 is  *)
(* sent; a handshake that fails closes the connection.                     *)
websocket_onHandshake ==
  /\ Receives /\ ~handshake_cb /\ Handshake
  /\ \E ok \in Sends :
       /\ websocket_status' = IF Head(queue).op = "upgrade" THEN "active" ELSE "connection"
       /\ Sent(Piece(ok, IF Head(queue).op = "upgrade" THEN "switch" ELSE "full"))
       /\ conn_closed' = (conn_closed \/ ~ok \/ Head(queue).op # "upgrade")
  /\ UNCHANGED <<handshake_cb, http_upgrade, websocket_buffer, peer_closed, ctx, closer,
                 clientSide, bounds>>

(* The CLOSE another process has sent to the worker.                       *)
onCloseEvent ==
  /\ Receives /\ Head(queue).op = "disconnect"
  /\ conn_closed' = TRUE
  /\ UNCHANGED <<connection, peer_closed, ctx, closer, reading, clientSide, bounds>>

-----------------------------------------------------------------------------
(* The methods of the Response: each returns at once when the context has  *)
(* ended or is detached.                                                   *)
Usable == ctx.live /\ ~ctx.end /\ ~ctx.detached /\ ~ctx.ending /\ closer[Owner] # "pushed"

theRest == <<connection, peer_closed, queue, closer, clientSide, messages, disconnected>>

(* The status matters to a handshake only.                                 *)
status(code) ==
  /\ Usable /\ ctx.upgrade /\ ctx' = [ctx EXCEPT !.status = code]
  /\ UNCHANGED <<theRest, conn_closed, reading, writes, unfinished>>

trailer ==
  /\ Usable /\ ~ctx.upgrade /\ ctx' = [ctx EXCEPT !.trailer = TRUE]
  /\ UNCHANGED <<theRest, conn_closed, reading, writes, unfinished>>

(* write(): the header when it was not sent, then a chunk; no data is no   *)
(* chunk.                                                                  *)
write(empty) ==
  /\ Usable /\ ~ctx.upgrade /\ writes < MaxWrites
  /\ writes' = writes + 1
  /\ \E head \in Sends, chunk \in Sends :
       IF ~ctx.header /\ ~head
       THEN UNCHANGED <<ctx, reading>>
       ELSE /\ ctx' = IF ctx.header THEN ctx ELSE [ctx EXCEPT !.header = TRUE, !.chunked = TRUE]
            /\ Sent(Piece(~ctx.header, "chunked") \o Piece(chunk /\ ~empty, "chunk"))
  /\ UNCHANGED <<theRest, conn_closed, unfinished>>

(* What end() does after it has sent what is left: the status of a         *)
(* handshake is stored in a step of its own.                               *)
Ends(c) == IF c.upgrade THEN [c EXCEPT !.ending = TRUE] ELSE [c EXCEPT !.end = TRUE]

end_chunked(c) ==
  /\ c.chunked
  /\ \E last \in Sends, rest \in Sends :
       IF ~last
       THEN ctx' = c /\ UNCHANGED <<reading, conn_closed>>
       ELSE /\ ctx' = Ends([c EXCEPT !.chunked = FALSE, !.trailer = FALSE])
            /\ Sent(IF c.trailer THEN <<"zero">> \o Piece(rest, "trailer") ELSE <<"last">>)
            /\ conn_closed' = (conn_closed \/ ~c.keepalive \/ (c.trailer /\ ~rest))

(* Without chunks: header and body together, or one after the other when   *)
(* the body is longer than a page.                                         *)
InOnePiece(c) ==
  IF c.upgrade THEN IF c.status = 101 THEN "switch" ELSE "unsized" ELSE "full"

end_whole(c, long) ==
  /\ ~c.chunked /\ ~c.header
  /\ \E head \in Sends, body \in Sends :
       CASE long /\ ~head -> ctx' = c /\ UNCHANGED <<reading, conn_closed>>
         [] long /\ head  -> /\ ctx' = [c EXCEPT !.header = TRUE, !.end = TRUE]
                            /\ Sent(<<"head">> \o Piece(body, "body"))
                            /\ conn_closed' = (conn_closed \/ ~body \/ ~c.keepalive)
         [] ~long -> /\ ctx' = IF head THEN Ends([c EXCEPT !.header = TRUE])
                               ELSE [c EXCEPT !.header = TRUE, !.end = TRUE]
                     /\ Sent(Piece(head, InOnePiece(c)))
                     /\ conn_closed' = (conn_closed \/ ~head \/ ~c.keepalive)

end_response(long) ==
  /\ Usable /\ (long => ~ctx.upgrade)
  /\ end_chunked(ctx) \/ end_whole(ctx, long)
  /\ UNCHANGED <<theRest, writes, unfinished>>

(* end() after a sendfile() that failed behind its header: the assertion   *)
(* of http_build_header ends the worker.                                   *)
end_aborts ==
  /\ Usable /\ ctx.header /\ ~ctx.chunked
  /\ ctx' = NoContext
  /\ UNCHANGED <<theRest, conn_closed, reading, writes, unfinished>>

(* Mutant: a handshake that is refused leaves the connection open.         *)
end_handshake_KeepsOpen ==
  /\ ctx.ending
  /\ websocket_status' = IF ctx.status = 101 THEN "active" ELSE "none"
  /\ ctx' = [ctx EXCEPT !.ending = FALSE, !.end = TRUE]
  /\ UNCHANGED <<handshake_cb, http_upgrade, websocket_buffer, conn_closed, peer_closed, queue,
                 closer, reading, clientSide, bounds>>

(* The second half of end() in a handshake.                                *)
end_handshake ==
  /\ ctx.ending
  /\ LET refused == websocket_status = "handshake" /\ ctx.status # 101 IN
     /\ websocket_status' = CASE refused -> "none"
                              [] websocket_status = "handshake" /\ ~refused -> "active"
                              [] OTHER -> websocket_status
     /\ conn_closed' = (conn_closed \/ refused)
  /\ ctx' = [ctx EXCEPT !.ending = FALSE, !.end = TRUE]
  /\ UNCHANGED <<handshake_cb, http_upgrade, websocket_buffer, peer_closed, queue, closer, reading,
                 clientSide, bounds>>

(* Mutant: a file is sent although the response is chunked.                *)
sendfile_Chunked(empty) ==
  /\ Usable /\ ~ctx.upgrade
  /\ \E file \in Sends :
       /\ ctx' = [ctx EXCEPT !.header = TRUE, !.end = empty \/ file]
       /\ Sent(Piece(~ctx.header, "head") \o Piece(file, "body"))
       /\ conn_closed' = (conn_closed \/ ~(empty \/ file))
  /\ UNCHANGED <<theRest, writes, unfinished>>

sendfile(empty) ==
  /\ Usable /\ ~ctx.upgrade /\ ~ctx.chunked
  /\ \E head \in Sends, file \in Sends :
       IF ~ctx.header /\ ~head
       THEN UNCHANGED <<ctx, reading, conn_closed>>
       ELSE /\ ctx' = [ctx EXCEPT !.header = TRUE, !.end = empty \/ file]
            /\ Sent(Piece(~ctx.header, IF empty THEN "full" ELSE "head")
                      \o Piece(~empty /\ file, "body"))
            /\ conn_closed' = (conn_closed \/ ~(empty \/ file) \/ ~ctx.keepalive)
  /\ UNCHANGED <<theRest, writes, unfinished>>

detach ==
  /\ Usable /\ ~ctx.upgrade /\ ~ctx.header
  /\ ctx' = [ctx EXCEPT !.detached = TRUE]
  /\ UNCHANGED <<theRest, conn_closed, reading, writes, unfinished>>

(* Response::create() of the session of a detached response.               *)
create ==
  /\ ctx.detached /\ closer[Owner] # "pushed"
  /\ ctx' = Context(TRUE, FALSE)
  /\ UNCHANGED <<theRest, conn_closed, reading, writes, unfinished>>

close_response ==
  /\ ctx.live /\ ~ctx.ending /\ closer[Owner] # "pushed" /\ ~conn_closed
  /\ conn_closed' = TRUE
  /\ UNCHANGED <<theRest, ctx, reading, writes, unfinished>>

(* The object is dropped: a response that was not ended is ended, as a 500 *)
(* if it has no status.                                                    *)
free_object ==
  /\ ctx.live /\ ~ctx.ending /\ closer[Owner] # "pushed"
  /\ IF ctx.end \/ ctx.detached \/ conn_closed \/ peer_closed
     THEN /\ ctx' = [NoContext EXCEPT !.detached = ctx.detached]
          /\ UNCHANGED <<conn_closed, reading, unfinished>>
     ELSE LET c == [ctx EXCEPT !.live = FALSE, !.status = IF @ = 0 THEN 500 ELSE @] IN
          /\ end_chunked(c) \/ end_whole(c, FALSE)
          /\ unfinished' = (unfinished \/ ~(ctx'.end \/ ctx'.ending))
  /\ UNCHANGED <<theRest, writes>>

-----------------------------------------------------------------------------
(* push() and disconnect() of the WebSocket server, in any process.        *)
push_message(p) ==
  /\ closer[p] # "pushed" /\ (p = Owner => ~ctx.ending)
  /\ Upgraded /\ reading \in {"frames", "closed"}
  /\ TRUE \in Sends /\ Sent(<<"frame">>)
  /\ UNCHANGED <<connection, conn_closed, peer_closed, queue, ctx, closer, clientSide, bounds>>

disconnect(p) ==
  /\ closer[p] = "idle" /\ (p = Owner => ~ctx.ending)
  /\ Upgraded /\ reading \in {"frames", "closed"}
  /\ TRUE \in Sends /\ Sent(<<"close">>)
  /\ closer' = [closer EXCEPT ![p] = "pushed"]
  /\ disconnected' = TRUE
  /\ UNCHANGED <<connection, conn_closed, peer_closed, queue, ctx, clientSide, writes, messages,
                 unfinished>>

(* The status is stored after the close frame is sent.  The connection is  *)
(* closed by the worker it is bound to.                                    *)
disconnect_closes(p) ==
  /\ closer[p] = "pushed"
  /\ closer' = [closer EXCEPT ![p] = "done"]
  /\ websocket_status' = "closing"
  /\ conn_closed' = (conn_closed \/ p = Owner)
  /\ queue' = IF p = Owner THEN queue ELSE Append(queue, Frame("disconnect", 0, TRUE))
  /\ UNCHANGED <<handshake_cb, http_upgrade, websocket_buffer, peer_closed, ctx, reading,
                 clientSide, bounds>>

HttpdNext ==
  \/ \E kind \in Requests \cup {"malformed"} : ask(kind)
  \/ \E op \in Frames, fin \in BOOLEAN : send_frame(op, fin)
  \/ onRead_request \/ onRead_bad_request \/ onRead_frame \/ reactor_close
  \/ onMessage \/ onReceive_illegal \/ onRequest \/ onHandShake \/ websocket_onHandshake
  \/ onCloseEvent
  \/ \E code \in {101, 200} : status(code)
  \/ trailer \/ detach \/ create \/ close_response \/ free_object \/ end_aborts \/ end_handshake
  \/ \E b \in BOOLEAN : write(b) \/ end_response(b) \/ sendfile(b)
  \/ \E p \in {Owner, Other} : push_message(p) \/ disconnect(p) \/ disconnect_closes(p)

HttpdSpec == HttpdInit /\ [][HttpdNext]_httpdVars

-----------------------------------------------------------------------------
(* Both sides read what the other one wrote.  The client never meets bytes *)
(* it cannot place; what it has sent is read as a request before the       *)
(* upgrade and as a frame after it; messages arrive whole, once and in     *)
(* their order, and all of them unless the connection is closed or         *)
(* somebody disconnects the client.  And a request that was taken is       *)
(* answered to the end when the response has ended or was dropped, unless  *)
(* the connection is closed or the last chunk could not be sent.           *)
StreamsAgree ==
  /\ reading # "garbled"
  /\ inbox # <<>> /\ ~peer_closed => (Head(inbox).op \in Frames <=> Upgraded)
  /\ \A i \in 1 .. Len(messages) - 1 : messages[i] < messages[i + 1]
  /\ ~disconnected /\ ~conn_closed /\ ~peer_closed /\ inbox = <<>> /\ queue = <<>> /\ ~fragmented =>
       messages = [i \in 1 .. composed |-> i]
  /\ inbox = <<>> /\ queue = <<>> /\ ~conn_closed /\ ~peer_closed /\ ~unfinished
     /\ (ctx.end \/ ~ctx.live) /\ ~ctx.detached /\ ~ctx.ending =>
       reading \in {"idle", "frames", "closed"}

=============================================================================
