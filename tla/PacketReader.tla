---------------------------- MODULE PacketReader ----------------------------
(***************************************************************************)
(* Packets cut out of a byte stream that arrives in pieces: the readers of *)
(* the server, Protocol::recv_with_length_protocol and                     *)
(* recv_with_eof_protocol with split_by_eof (src/protocol/base.cc), and    *)
(* those of the coroutine socket, recv_packet with its two protocols       *)
(* (src/coroutine/socket.cc).                                              *)
(*                                                                         *)
(* The server reads when the level-triggered reactor reports the socket,   *)
(* with or without SSL; under SSL the bytes of the records taken from the  *)
(* kernel wait inside the SSL library, where the reactor does not see      *)
(* them.  The coroutine reads until it has a packet.  The peer sends whole *)
(* well-formed packets, none above the maximum length.                     *)
(***************************************************************************)
EXTENDS Naturals, Sequences, SequencesExt

CONSTANTS
  Readers,     \* a subset of {"length", "ssl_length", "split", "ssl_split", "co_length", "co_eof"}
  Streams,     \* what the peer may send: sequences of packets, per kind of protocol
  HeaderLen,   \* package_length_offset + package_length_size, also package_body_offset
  Eof,         \* package_eof
  RecvBuffer   \* the most bytes one recv of an end-of-packet reader asks for

VARIABLES
  protocol,    \* the reader
  packets,     \* the packets the peer sends
  arrived,     \* bytes of the stream in the kernel or past it
  decrypted,   \* bytes inside the SSL library or past it
  read,        \* bytes taken by recv()
  recv_buffer, \* buffer->str up to buffer->length
  offset,      \* buffer->offset
  recv_wait,   \* socket->recv_wait
  rpc,         \* where the reader is
  handed       \* the packets handed on

pktVars == <<protocol, packets, arrived, decrypted, read, recv_buffer, offset, recv_wait, rpc, handed>>

HasLength(r) == r \in {"length", "ssl_length", "co_length"}
Ssl(r) == r \in {"ssl_length", "ssl_split"}
Co(r) == r \in {"co_length", "co_eof"}

SentBytes == FlattenSeq(packets)

PktInit ==
  /\ protocol \in Readers
  /\ packets \in Streams[IF HasLength(protocol) THEN "length" ELSE "eof"]
  /\ arrived = 0 /\ decrypted = 0 /\ read = 0
  /\ recv_buffer = <<>>
  /\ offset = 0
  /\ recv_wait = FALSE
  /\ rpc = "idle"
  /\ handed = <<>>

(* The network delivers some more bytes.                                   *)
arrive ==
  /\ \E n \in arrived + 1 .. Len(SentBytes) : arrived' = n
  /\ UNCHANGED <<protocol, packets, decrypted, read, recv_buffer, offset, recv_wait, rpc, handed>>

(* Protocol::default_length_func, with a length that fits its last byte.    *)
get_package_length(data) ==
  IF Len(data) < HeaderLen THEN 0 ELSE HeaderLen + data[HeaderLen]

(* openswoole_strnstr: the first place of the end mark at or after from.   *)
Matches(s, from) == {i \in from + 1 .. Len(s) + 1 - Len(Eof) : SubSeq(s, i, i + Len(Eof) - 1) = Eof}
FirstMatch(s, from) == CHOOSE i \in Matches(s, from) : \A j \in Matches(s, from) : i <= j

reduce(n) == SubSeq(recv_buffer, n + 1, Len(recv_buffer))
Lesser(a, b) == IF a < b THEN a ELSE b
InKernel == IF Ssl(protocol) THEN arrived - decrypted ELSE arrived - read

(* Socket::recv of at most n bytes.  Over SSL it decrypts records until it *)
(* has them; the rest of the last record stays in the SSL library.         *)
SocketRecv(n, next) ==
  LET got == Lesser(n, arrived - read) IN
  /\ got > 0
  /\ read' = read + got
  /\ recv_buffer' = recv_buffer \o SubSeq(SentBytes, read + 1, read + got)
  /\ IF Ssl(protocol) /\ read + got > decrypted
     THEN decrypted' \in read + got .. arrived
     ELSE decrypted' = decrypted
  /\ rpc' = next
  /\ UNCHANGED <<protocol, packets, arrived, offset, recv_wait, handed>>

Go(next) ==
  /\ rpc' = next
  /\ UNCHANGED <<protocol, packets, arrived, decrypted, read, recv_buffer, offset, recv_wait, handed>>

HandOn(n, next) ==
  /\ handed' = Append(handed, SubSeq(recv_buffer, 1, n))
  /\ rpc' = next
  /\ UNCHANGED <<protocol, packets, arrived, decrypted, read>>

-----------------------------------------------------------------------------
(* The server.                                                             *)

(* The reactor reports the socket while the kernel has bytes for it.       *)
on_read ==
  /\ ~Co(protocol)
  /\ rpc = "idle"
  /\ InKernel > 0
  /\ Go("recv")

(* recv() finds nothing: EAGAIN ends the callback.                         *)
recv_again ==
  /\ ~Co(protocol)
  /\ rpc = "recv"
  /\ arrived = read
  /\ Go("idle")

(* _do_recv of recv_with_length_protocol.                                  *)
RecvSize == IF offset > 0 THEN offset - Len(recv_buffer) ELSE HeaderLen
length_recv ==
  /\ protocol \in {"length", "ssl_length"}
  /\ rpc = "recv"
  /\ SocketRecv(RecvSize, IF recv_wait THEN "received" ELSE "get_length")

(* The rest of a packet came, or a part of it.                             *)
length_received ==
  /\ rpc = "received"
  /\ Go(IF Len(recv_buffer) >= offset THEN "dispatch"
        ELSE IF Ssl(protocol) THEN "recv" ELSE "idle")

(* _do_get_length: no length yet ends the callback.                        *)
length_get ==
  LET n == get_package_length(recv_buffer) IN
  /\ rpc = "get_length"
  /\ IF n = 0
     THEN Go("idle")
     ELSE /\ recv_wait' = TRUE
          /\ offset' = n
          /\ rpc' = IF Len(recv_buffer) >= n THEN "dispatch" ELSE "recv"
          /\ UNCHANGED <<protocol, packets, arrived, decrypted, read, recv_buffer, handed>>

(* _do_dispatch: reduce() and clear() both reset the offset.               *)
length_dispatch ==
  /\ rpc = "dispatch"
  /\ HandOn(offset, IF Len(recv_buffer) > offset THEN "get_length"
                    ELSE IF Ssl(protocol) THEN "recv" ELSE "idle")
  /\ recv_wait' = FALSE
  /\ recv_buffer' = reduce(offset)
  /\ offset' = 0

(* recv_with_eof_protocol.                                                 *)
eof_recv ==
  /\ protocol \in {"split", "ssl_split"}
  /\ rpc = "recv"
  /\ SocketRecv(RecvBuffer, "split")

(* Mutant: the next search starts where the last bytes end.                *)
NotFound_AtEnd == Len(recv_buffer)

(* The place where the next search starts when there was no end mark.      *)
NotFound == Len(recv_buffer) - Len(Eof)

(* recv_split_by_eof with String::split: each turn hands on one packet;    *)
(* without a packet, and over SSL in any case, the reader receives again.  *)
split ==
  /\ rpc = "split"
  /\ IF Len(recv_buffer) < Len(Eof) THEN Go("idle")
     ELSE IF Matches(recv_buffer, offset) = {}
     THEN /\ offset' = NotFound
          /\ rpc' = "recv"
          /\ UNCHANGED <<protocol, packets, arrived, decrypted, read, recv_buffer,
                         recv_wait, handed>>
     ELSE /\ HandOn(FirstMatch(recv_buffer, offset) + Len(Eof) - 1, "split_more")
          /\ recv_buffer' = reduce(FirstMatch(recv_buffer, offset) + Len(Eof) - 1)
          /\ offset' = 0
          /\ UNCHANGED recv_wait

split_more ==
  /\ rpc = "split_more"
  /\ IF Matches(recv_buffer, 0) # {}
     THEN Go("split")
     ELSE /\ offset' = IF Len(recv_buffer) > Len(Eof) THEN Len(recv_buffer) - Len(Eof) ELSE 0
          /\ rpc' = IF Ssl(protocol) THEN "recv" ELSE "idle"
          /\ UNCHANGED <<protocol, packets, arrived, decrypted, read, recv_buffer,
                         recv_wait, handed>>

-----------------------------------------------------------------------------
(* The coroutine: recv_packet() is called again for every packet, the one  *)
(* before is cut off first.                                                *)
recv_packet ==
  /\ Co(protocol)
  /\ rpc = "idle"
  /\ recv_buffer' = reduce(offset)
  /\ offset' = 0
  /\ rpc' = IF HasLength(protocol)
            THEN IF Len(recv_buffer') >= HeaderLen THEN "co_get_length" ELSE "co_header"
            ELSE IF recv_buffer' # <<>> THEN "co_find" ELSE "co_recv"
  /\ UNCHANGED <<protocol, packets, arrived, decrypted, read, recv_wait, handed>>

(* recv_packet_with_length_protocol.                                       *)
co_header ==
  /\ rpc = "co_header"
  /\ SocketRecv(HeaderLen - Len(recv_buffer), "co_get_length")

co_get_length ==
  LET n == get_package_length(recv_buffer) IN
  /\ rpc = "co_get_length"
  /\ IF n = 0 THEN Go("co_header")
     ELSE IF n <= Len(recv_buffer)
     THEN /\ HandOn(n, "idle")
          /\ offset' = n
          /\ UNCHANGED <<recv_buffer, recv_wait>>
     ELSE /\ offset' = n
          /\ rpc' = "co_body"
          /\ UNCHANGED <<protocol, packets, arrived, decrypted, read, recv_buffer,
                         recv_wait, handed>>

(* recv_all() waits until it has the whole body.                           *)
co_body ==
  /\ rpc = "co_body"
  /\ \/ Len(recv_buffer) < offset /\ SocketRecv(offset - Len(recv_buffer), "co_body")
     \/ /\ Len(recv_buffer) = offset /\ HandOn(offset, "idle")
        /\ UNCHANGED <<recv_buffer, offset, recv_wait>>

(* recv_packet_with_eof_protocol: it may receive more than one packet, and *)
(* looks into what is left first.                                          *)
co_recv ==
  /\ rpc = "co_recv"
  /\ SocketRecv(RecvBuffer, "co_find")

co_find ==
  /\ rpc = "co_find"
  /\ IF Matches(recv_buffer, 0) = {} THEN Go("co_recv")
     ELSE /\ HandOn(FirstMatch(recv_buffer, 0) + Len(Eof) - 1, "idle")
          /\ offset' = FirstMatch(recv_buffer, 0) + Len(Eof) - 1
          /\ UNCHANGED <<recv_buffer, recv_wait>>

PktNext ==
  \/ arrive
  \/ on_read \/ recv_again
  \/ length_recv \/ length_received \/ length_get \/ length_dispatch
  \/ eof_recv \/ split \/ split_more
  \/ recv_packet \/ co_header \/ co_get_length \/ co_body \/ co_recv \/ co_find

PktSpec == PktInit /\ [][PktNext]_pktVars

-----------------------------------------------------------------------------
(* Properties.                                                             *)

(* A reader that has to wait for the network (the reactor will not report  *)
(* the socket, the coroutine sleeps) has handed on every packet that has   *)
(* arrived whole, and keeps no packet in a buffer nobody looks into.  The  *)
(* length reader over SSL is the exception: base.cc:192 ends the callback  *)
(* on half a header although the SSL library may hold the other half.      *)
Complete == {k \in 0 .. Len(packets) : Len(FlattenSeq(SubSeq(packets, 1, k))) <= arrived}
Waiting ==
  \/ ~Co(protocol) /\ rpc = "idle" /\ InKernel = 0
  \/ rpc \in {"co_header", "co_recv"} /\ read = arrived
  \/ rpc = "co_body" /\ Len(recv_buffer) < offset /\ read = arrived
NoPacketStuck ==
  Waiting /\ protocol # "ssl_length" => \A k \in Complete : k <= Len(handed)

(* However the stream is cut into pieces, the packets handed on are the    *)
(* packets sent, in order, and what was read is in them or in the buffer:  *)
(* no byte is lost, doubled or moved to the neighbour packet; and no       *)
(* packet that has arrived whole is left waiting for the next one.         *)
PacketsExact ==
  LET cut == IF Co(protocol) /\ rpc = "idle" THEN reduce(offset) ELSE recv_buffer IN
  /\ Len(handed) <= Len(packets)
  /\ handed = SubSeq(packets, 1, Len(handed))
  /\ FlattenSeq(handed) \o cut = SubSeq(SentBytes, 1, read)
  /\ NoPacketStuck

=============================================================================
