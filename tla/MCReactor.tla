----------------------------- MODULE MCReactor -----------------------------
(* Two sockets, two signals, signalfd and the asynchronous handler.        *)
EXTENDS Reactor
=============================================================================
