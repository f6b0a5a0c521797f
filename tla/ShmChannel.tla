----------------------------- MODULE ShmChannel -----------------------------
(***************************************************************************)
(* openswoole::Channel (src/core/channel.cc): messages of different length *)
(* in a circular memory, behind a lock in shared memory.  It carries the   *)
(* message boxes of the manager and of the process pool.                   *)
(*                                                                         *)
(* A cell of the memory is sizeof(int) bytes: the length of a message      *)
(* takes one, its data as many as it has.  push() and pop() hold the lock  *)
(* for the whole operation, so each is one step.  A message that starts    *)
(* before the end of the memory may run over it, into the maxlen bytes     *)
(* that make() adds.                                                       *)
(***************************************************************************)
EXTENDS Naturals, Sequences

CONSTANTS
  ChanSize,      \* size, in cells
  MaxLen,    \* maxlen, in cells
  Values     \* what a message may hold

ASSUME SizeAssumption == ChanSize \in Nat /\ MaxLen \in Nat /\ ChanSize >= MaxLen

VARIABLES
  mem, head, tail, head_tag, tail_tag, num, bytes,
  chan_ret   \* the message that was pushed or popped, none after a failure

shmVars == <<mem, head, tail, head_tag, tail_tag, num, bytes, chan_ret>>

ChanMessages == {[length |-> n, value |-> v] : n \in 1 .. MaxLen, v \in Values}

(* make()                                                                  *)
ShmInit ==
  /\ mem = [a \in 0 .. ChanSize + MaxLen |-> 0]
  /\ head = 0 /\ tail = 0
  /\ head_tag = 0 /\ tail_tag = 0
  /\ num = 0 /\ bytes = 0
  /\ chan_ret = <<>>

empty == num = 0
full == (head = tail /\ tail_tag # head_tag) \/ bytes + num = ChanSize

Refuse ==
  /\ chan_ret' = <<>>
  /\ UNCHANGED <<mem, head, tail, head_tag, tail_tag, num, bytes>>

(* Mutant: room for the data is enough.                                    *)
chan_in_NoHeader(m) ==
  LET msize == m.length + 1 IN
  IF full \/ (tail < head /\ head - tail < m.length) THEN Refuse
  ELSE /\ mem' = [a \in DOMAIN mem |-> IF a = tail THEN m.length
                                      ELSE IF a \in tail + 1 .. tail + m.length THEN m.value ELSE mem[a]]
       /\ tail' = IF tail < head \/ tail + msize < ChanSize THEN tail + msize ELSE 0
       /\ tail_tag' = IF tail < head \/ tail + msize < ChanSize THEN tail_tag ELSE 1 - tail_tag
       /\ num' = num + 1
       /\ bytes' = bytes + m.length
       /\ chan_ret' = <<m>>
       /\ UNCHANGED <<head, head_tag>>

(* Only a tail that is not behind the head goes back to the start.         *)
chan_in(m) ==
  LET msize == m.length + 1 IN
  IF full \/ (tail < head /\ head - tail < msize) THEN Refuse
  ELSE /\ mem' = [a \in DOMAIN mem |-> IF a = tail THEN m.length
                                      ELSE IF a \in tail + 1 .. tail + m.length THEN m.value ELSE mem[a]]
       /\ tail' = IF tail < head \/ tail + msize < ChanSize THEN tail + msize ELSE 0
       /\ tail_tag' = IF tail < head \/ tail + msize < ChanSize THEN tail_tag ELSE 1 - tail_tag
       /\ num' = num + 1
       /\ bytes' = bytes + m.length
       /\ chan_ret' = <<m>>
       /\ UNCHANGED <<head, head_tag>>

(* All cells of a message hold its value, or it is damaged.                *)
Slice(a) ==
  LET whole == \A b \in a + 1 .. a + mem[a] : mem[b] = mem[a + 1] IN
  [length |-> mem[a], value |-> IF whole THEN mem[a + 1] ELSE 0]

AfterSlice(a) == IF a + mem[a] + 1 >= ChanSize THEN 0 ELSE a + mem[a] + 1

chan_out ==
  IF empty THEN Refuse
  ELSE /\ head' = AfterSlice(head)
       /\ head_tag' = IF head + mem[head] + 1 >= ChanSize THEN 1 - head_tag ELSE head_tag
       /\ num' = num - 1
       /\ bytes' = bytes - mem[head]
       /\ chan_ret' = <<Slice(head)>>
       /\ UNCHANGED <<mem, tail, tail_tag>>

push == \E m \in ChanMessages : chan_in(m)
pop == chan_out

ShmNext == push \/ pop
ShmSpec == ShmInit /\ [][ShmNext]_shmVars

-----------------------------------------------------------------------------
(* Properties.                                                             *)

(* The messages in the memory, found as out() would find them.             *)
Slices ==
  LET at[k \in 1 .. ChanSize + 1] == IF k = 1 THEN head ELSE AfterSlice(at[k - 1]) IN
  [k \in 1 .. num |-> Slice(at[k])]

F == INSTANCE Fifo WITH Messages <- ChanMessages, items <- Slices, ret <- chan_ret

(* The channel is a queue: no message is lost, damaged by another or       *)
(* delivered twice when head and tail go round in memory, are equal, or    *)
(* when the memory is full to the last cell; an empty channel takes every  *)
(* message, and only an empty one has none to give.                        *)
ImplementsFifo == F!FifoSpec

=============================================================================
