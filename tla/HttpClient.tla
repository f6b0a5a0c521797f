----------------------------- MODULE HttpClient -----------------------------
(***************************************************************************)
(* The HTTP and WebSocket client for coroutines, class HttpClient of       *)
(* ext-src/openswoole_http_client_coro.cc: one object whose connection is  *)
(* made when it is needed and kept for the next request.  One coroutine    *)
(* makes the calls, a second one reads frames once the connection is a     *)
(* WebSocket, and anybody may close it under them.  What a wait of the     *)
(* socket may return is the subject of CoSocket; here it returns what was  *)
(* asked for, or fails.                                                    *)
(*                                                                         *)
(* A response is a part of its header, the rest of the header and a body;  *)
(* a read returns as many of these pieces as have arrived.  A program that *)
(* defers the response fetches it before its next request.                 *)
(***************************************************************************)
EXTENDS Naturals, Sequences

CONSTANTS MaxRequests,      \* requests a program makes
          ReconnectInterval \* reconnect_interval, the attempts to connect

VARIABLES
  step,       \* what the caller waits in: "connect", "send", "recv", "push", or "idle"
  frame,      \* another coroutine waits for a frame
  socket,     \* "none", "new", "up", or "closing": closed while somebody waits on it
  connected,  \* the property of the PHP object
  wait, websocket, defer, keep_alive,
  compress,   \* compress_method is set
  reconnected_count,
  buffer,     \* pieces of an incomplete header in the read buffer
  parsed,     \* pieces llhttp has seen in this call
  got,        \* history: the pieces of the response returned last
  last,       \* history: the last request
  upgrading,  \* the last request asks for a WebSocket
  owed,       \* requests the server has not answered
  stream,     \* pieces on their way to the client
  fin         \* the server has closed the connection

peer == <<owed, stream, fin>>
flags == <<wait, websocket, defer, keep_alive, compress>>
httpVars == <<step, frame, socket, connected, flags, reconnected_count, buffer, parsed, got, last,
              upgrading, peer>>

Kinds == {"sized", "gzip", "until_close", "switching"}

HttpInit ==
  /\ step = "idle" /\ frame = FALSE /\ socket = "none" /\ connected = FALSE
  /\ wait = FALSE /\ websocket = FALSE /\ compress = FALSE
  /\ defer \in BOOLEAN /\ keep_alive \in BOOLEAN
  /\ reconnected_count = 0
  /\ buffer = <<>> /\ parsed = <<>> /\ got = <<>> /\ last = 0 /\ upgrading = FALSE
  /\ owed = <<>> /\ stream = <<>> /\ fin = FALSE

-----------------------------------------------------------------------------
(* close(): while somebody else waits on the socket it only wakes them,    *)
(* and the last of them lets the socket go.                                *)
Close(bound, should_be_reset) ==
  /\ connected' = FALSE
  /\ IF bound
     THEN socket' = "closing" /\ UNCHANGED <<wait, websocket, compress, peer, buffer>>
     ELSE /\ socket' = "none"
          /\ websocket' = FALSE
          /\ IF should_be_reset THEN wait' = FALSE /\ compress' = FALSE
             ELSE UNCHANGED <<wait, compress>>
          /\ owed' = <<>> /\ stream' = <<>> /\ fin' = FALSE /\ buffer' = <<>>

check_liveness == socket = "up" /\ ~(fin /\ stream = <<>>)

(* execute(), get(), post(), upgrade() up to the first wait: the liveness  *)
(* of a kept connection is looked at, and a dead one is replaced.          *)
exec(up) ==
  /\ step = "idle" /\ ~frame /\ ~websocket
  /\ ~wait
  /\ last < MaxRequests /\ last' = last + 1
  /\ upgrading' = up
  /\ defer' = (defer /\ ~up)
  /\ got' = <<>>
  /\ reconnected_count' = 0
  /\ IF check_liveness
     THEN step' = "send" /\ UNCHANGED <<socket, connected, wait, websocket, compress, peer, buffer>>
     ELSE /\ step' = "connect"
          /\ UNCHANGED <<wait, compress>>
          /\ connected' = FALSE /\ websocket' = FALSE
          /\ socket' = "new"
          /\ owed' = <<>> /\ stream' = <<>> /\ fin' = FALSE /\ buffer' = <<>>
  /\ UNCHANGED <<frame, keep_alive, parsed>>

connect ==
  /\ step = "connect" /\ socket = "new"
  /\ socket' = "up" /\ connected' = TRUE /\ reconnected_count' = 0
  /\ step' = "send"
  /\ UNCHANGED <<frame, flags, buffer, parsed, got, last, upgrading, peer>>

(* keep_liveness() tries again with a new socket.                          *)
connect_fails ==
  /\ step = "connect"
  /\ reconnected_count' = reconnected_count + 1
  /\ IF reconnected_count' < ReconnectInterval
     THEN step' = "connect" /\ socket' = "new" ELSE step' = "idle" /\ socket' = "none"
  /\ connected' = FALSE /\ websocket' = FALSE /\ wait' = FALSE /\ compress' = FALSE
  /\ UNCHANGED <<frame, defer, keep_alive, buffer, parsed, got, last, upgrading, peer>>

(* The pieces of the response to request r.                                *)
Response(r, kind) ==
  LET piece(p) == [req |-> r, part |-> p, kind |-> kind]
  IN <<piece("start"), piece("head")>>
       \o IF kind \in {"sized", "gzip"} THEN <<piece("body")>> ELSE <<>>

send(kind) ==
  /\ step = "send" /\ socket = "up"
  /\ kind = "switching" => upgrading
  /\ owed' = owed \o Response(last, kind)
  /\ wait' = TRUE
  /\ step' = IF defer THEN "idle" ELSE "recv"
  /\ parsed' = <<>>
  /\ UNCHANGED <<frame, socket, connected, websocket, defer, keep_alive, compress,
                 reconnected_count, buffer, got, last, upgrading, stream, fin>>

send_fails ==
  /\ step = "send"
  /\ step' = "idle"
  /\ Close(FALSE, TRUE)
  /\ UNCHANGED <<frame, defer, keep_alive, reconnected_count, parsed, got, last, upgrading>>

(* recv() of a deferred response; the parser starts anew.                  *)
recv ==
  /\ step = "idle" /\ ~websocket
  /\ wait /\ socket = "up"
  /\ step' = "recv"
  /\ parsed' = <<>>
  /\ UNCHANGED <<frame, socket, connected, flags, reconnected_count, buffer, got, last, upgrading,
                 peer>>

(* recv_http_response: a read returns the first n pieces of the stream. An *)
(* incomplete header stays in the buffer; from the end of the header on    *)
(* everything goes through the parser, whose callbacks set the flags.  The *)
(* end of recv() then keeps the connection or closes it.                   *)
Seen(n) == buffer \o SubSeq(stream, 1, n)
HeaderIn(pieces) == \E i \in DOMAIN pieces : pieces[i].part = "head"
Completed(pieces) ==
  \E i \in DOMAIN pieces : <<pieces[i].part, pieces[i].kind>> \in
    {<<"body", "sized">>, <<"body", "gzip">>, <<"head", "switching">>}

recv_header_part(n) ==
  /\ step = "recv" /\ socket = "up" /\ n \in 1 .. Len(stream)
  /\ parsed = <<>> /\ ~HeaderIn(Seen(n))
  /\ buffer' = Seen(n)
  /\ stream' = SubSeq(stream, n + 1, Len(stream))
  /\ UNCHANGED <<step, frame, socket, connected, flags, reconnected_count, parsed, got, last,
                 upgrading, owed, fin>>

recv_more(n) ==
  /\ step = "recv" /\ socket = "up" /\ n \in 1 .. Len(stream)
  /\ parsed # <<>> \/ HeaderIn(Seen(n))
  /\ ~Completed(parsed \o Seen(n))
  /\ parsed' = parsed \o Seen(n)
  /\ compress' = (compress \/ (\E i \in DOMAIN Seen(n) : Seen(n)[i].kind = "gzip"))
  /\ buffer' = <<>>
  /\ stream' = SubSeq(stream, n + 1, Len(stream))
  /\ UNCHANGED <<step, frame, socket, connected, wait, websocket, defer, keep_alive,
                 reconnected_count, got, last, upgrading, owed, fin>>

recv_completed(n) ==
  /\ step = "recv" /\ socket = "up" /\ n \in 1 .. Len(stream)
  /\ LET all == parsed \o Seen(n)
         ws == \E i \in DOMAIN all : all[i].kind = "switching"
     IN /\ HeaderIn(all) /\ Completed(all)
        /\ got' = all
        /\ IF ~keep_alive /\ ~ws
           THEN Close(FALSE, TRUE)
           ELSE /\ wait' = FALSE /\ compress' = FALSE /\ websocket' = ws
                /\ buffer' = <<>>
                /\ stream' = SubSeq(stream, n + 1, Len(stream))
                /\ UNCHANGED <<socket, connected, owed, fin>>
  /\ step' = "idle" /\ parsed' = <<>>
  /\ UNCHANGED <<frame, defer, keep_alive, reconnected_count, last, upgrading>>

(* The end of the stream completes a response that has no length of its    *)
(* own; the connection is kept by a client that keeps connections, and     *)
(* found dead by its next request.                                         *)
recv_eof ==
  /\ step = "recv" /\ socket = "up" /\ stream = <<>> /\ fin
  /\ parsed # <<>> /\ parsed[Len(parsed)].kind = "until_close"
  /\ got' = parsed
  /\ step' = "idle" /\ parsed' = <<>>
  /\ IF keep_alive
     THEN /\ wait' = FALSE /\ compress' = FALSE
          /\ UNCHANGED <<socket, connected, websocket, buffer, peer>>
     ELSE Close(FALSE, TRUE)
  /\ UNCHANGED <<frame, defer, keep_alive, reconnected_count, last, upgrading>>

(* A timeout, an error, a cancel, a close by somebody else, a malformed    *)
(* header, or the end of the stream before the end of the response.        *)
recv_fails_Keeps ==
  /\ step = "recv"
  /\ step' = "idle" /\ parsed' = <<>> /\ wait' = FALSE
  /\ IF socket = "up" THEN UNCHANGED <<socket, connected>> ELSE socket' = "none" /\ connected' = FALSE
  /\ UNCHANGED <<frame, websocket, compress, buffer, peer, defer, keep_alive, reconnected_count, got,
                 last, upgrading>>
recv_fails ==
  /\ step = "recv"
  /\ step' = "idle" /\ parsed' = <<>>
  /\ Close(FALSE, TRUE)
  /\ UNCHANGED <<frame, defer, keep_alive, reconnected_count, got, last, upgrading>>

-----------------------------------------------------------------------------
(* The WebSocket: push() and recv() of a frame, each by a coroutine of its *)
(* own.                                                                    *)
push_frame ==
  /\ step = "idle" /\ websocket /\ socket = "up"
  /\ step' = "push"
  /\ UNCHANGED <<frame, socket, connected, flags, reconnected_count, buffer, parsed, got, last,
                 upgrading, peer>>

push_ok ==
  /\ step = "push" /\ socket = "up"
  /\ step' = "idle"
  /\ UNCHANGED <<frame, socket, connected, flags, reconnected_count, buffer, parsed, got, last,
                 upgrading, peer>>

push_fails ==
  /\ step = "push"
  /\ step' = "idle"
  /\ Close(frame, TRUE)
  /\ UNCHANGED <<frame, defer, keep_alive, reconnected_count, parsed, got, last, upgrading>>

recv_frame ==
  /\ ~frame /\ websocket /\ socket = "up"
  /\ frame' = TRUE
  /\ UNCHANGED <<step, socket, connected, flags, reconnected_count, buffer, parsed, got, last,
                 upgrading, peer>>

(* A frame, or a timeout, which leaves the connection open.                *)
recv_frame_returns ==
  /\ frame /\ socket = "up"
  /\ frame' = FALSE
  /\ UNCHANGED <<step, socket, connected, flags, reconnected_count, buffer, parsed, got, last,
                 upgrading, peer>>

recv_frame_fails_Frees ==
  /\ frame
  /\ frame' = FALSE
  /\ Close(FALSE, TRUE)
  /\ UNCHANGED <<step, defer, keep_alive, reconnected_count, parsed, got, last, upgrading>>
recv_frame_fails ==
  /\ frame
  /\ frame' = FALSE
  /\ Close(step = "push", TRUE)
  /\ UNCHANGED <<step, defer, keep_alive, reconnected_count, parsed, got, last, upgrading>>

(* close() by the program, from any coroutine.                             *)
close ==
  /\ socket # "none"
  /\ Close(step # "idle" \/ frame, TRUE)
  /\ UNCHANGED <<step, frame, defer, keep_alive, reconnected_count, parsed, got, last, upgrading>>

-----------------------------------------------------------------------------
(* The server answers in order, piece by piece, and may close the          *)
(* connection anywhere.                                                    *)
server_sends ==
  /\ socket = "up" /\ ~fin /\ owed # <<>>
  /\ stream' = Append(stream, Head(owed))
  /\ owed' = Tail(owed)
  /\ UNCHANGED <<step, frame, socket, connected, flags, reconnected_count, buffer, parsed, got,
                 last, upgrading, fin>>

server_closes ==
  /\ socket = "up" /\ ~fin
  /\ fin' = TRUE /\ owed' = <<>>
  /\ UNCHANGED <<step, frame, socket, connected, flags, reconnected_count, buffer, parsed, got,
                 last, upgrading, stream>>

HttpCall ==
  \/ \E up \in BOOLEAN : exec(up)
  \/ connect \/ connect_fails
  \/ \E kind \in Kinds : send(kind)
  \/ send_fails \/ recv \/ recv_eof \/ recv_fails
  \/ \E n \in 1 .. 3 : recv_header_part(n) \/ recv_more(n) \/ recv_completed(n)
  \/ push_frame \/ push_ok \/ push_fails
  \/ recv_frame \/ recv_frame_returns \/ recv_frame_fails
  \/ close

HttpNext == HttpCall \/ server_sends \/ server_closes

-----------------------------------------------------------------------------
HttpTypeOK ==
  /\ step \in {"idle", "connect", "send", "recv", "push"}
  /\ socket \in {"none", "new", "up", "closing"}
  /\ reconnected_count \in 0 .. ReconnectInterval
  /\ last \in 0 .. MaxRequests

(* The response a call returns is the whole response to the request made   *)
(* last, whatever was left of an earlier one that failed.  Nothing of a    *)
(* connection outlives it: without a socket no response is awaited, the    *)
(* object is no WebSocket and nobody waits; `connected` says whether the   *)
(* socket is open; a decoder set up for one response is gone before the    *)
(* next.                                                                   *)
OwnResponse ==
  /\ HttpTypeOK
  /\ got # <<>> => \E kind \in Kinds : got = Response(last, kind)
  /\ socket = "none" => ~wait /\ ~websocket /\ ~frame /\ step = "idle"
  /\ connected <=> socket = "up"
  /\ socket = "closing" => step # "idle" \/ frame
  /\ compress => step = "recv"

=============================================================================
