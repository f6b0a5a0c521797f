-------------------------------- MODULE Fifo --------------------------------
(* What the channel in shared memory promises: messages leave in the order *)
(* in which they came, a push into an empty channel is not refused, and a  *)
(* pop fails only when there is none.                                      *)
EXTENDS Sequences

CONSTANT Messages
VARIABLES items,
          ret     \* the message that was pushed or popped, none after a failure

FifoInit == items = <<>> /\ ret = <<>>

FifoPush ==
  \/ ret' # <<>> /\ ret'[1] \in Messages /\ items' = items \o ret'
  \/ items # <<>> /\ ret' = <<>> /\ UNCHANGED items

FifoPop ==
  \/ items # <<>> /\ ret' = <<Head(items)>> /\ items' = Tail(items)
  \/ items = <<>> /\ ret' = <<>> /\ UNCHANGED items

FifoSpec == FifoInit /\ [][FifoPush \/ FifoPop]_<<items, ret>>
=============================================================================
