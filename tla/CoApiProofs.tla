----------------------------- MODULE CoApiProofs ----------------------------
(***************************************************************************)
(* Proofs about two classes that coroutines use.                           *)
(*                                                                         *)
(* The channel, for any set of coroutines, any set of values and any       *)
(* capacity: its queues match what is suspended in it, no wake-up is lost, *)
(* and it implements the atomic bounded FIFO queue.  The induction is over *)
(* the state between any two steps, so it has to say how a wake-up in      *)
(* progress looks: the resumed waiter is on top of the stack, whoever woke *)
(* it is below it in code that is not blocking, and the room or the value  *)
(* it was woken for is still there.                                        *)
(*                                                                         *)
(* The PostgreSQL client, for any number of commands and statements: a     *)
(* result belongs to the statement whose command made it, and is freed     *)
(* once.                                                                   *)
(***************************************************************************)
EXTENDS CoChannel, PgClient, CoroutineProofs

(* What a waiter that runs again finds, by who woke it.                    *)
Woken(c) ==
  \/ waker = "resume" /\ resume_code[c] = "ok" /\ ~msg_error[c]
  \/ waker = "timer" /\ resume_code[c] = "ok" /\ msg_error[c]
  \/ waker = "cancel" /\ resume_code[c] = "canceled" /\ ~msg_error[c]

(* The operations: the frame of push() or pop() exists exactly during the  *)
(* blocking call, and its message is untouched while it is suspended.      *)
OpInv ==
  \A c \in Cos :
    /\ call[c] = "lib" <=> pending[c] # "none"
    /\ pending[c] = "push" => item[c] \in Vals
    /\ pending[c] # "push" => item[c] = "none"
    /\ pending[c] # "none" /\ current # c => resume_code[c] = "ok" /\ ~msg_error[c]
    /\ pending[c] # "none" /\ current = c => Woken(c)

QueueInv ==
  /\ Once(producer_queue) /\ Once(consumer_queue)
  /\ \A c \in Cos : /\ In(producer_queue, c) <=> pending[c] = "push" /\ current # c
                    /\ In(consumer_queue, c) <=> pending[c] = "pop" /\ current # c

(* close(): its caller stays on the stack outside of any blocking call     *)
(* until the loop has emptied both queues.                                 *)
CloserInv ==
  /\ closer # {} => closed
  /\ \A c \in Cos : c \in closer => OnStack(c) /\ call[c] = "none"
  /\ closed /\ closer = {} => producer_queue = <<>> /\ consumer_queue = <<>>

(* The values: nobody waits without a reason, except between a wake-up and *)
(* the moment the woken waiter takes what it was woken for.                *)
Quiet ==
  /\ producer_queue # <<>> => is_full
  /\ consumer_queue # <<>> => is_empty

HandOver ==
  \/ pending[current] = "push" /\ Len(data_queue) = Capacity - 1 /\ consumer_queue = <<>>
  \/ pending[current] = "pop" /\ Len(data_queue) = 1 /\ producer_queue = <<>>

Resumed == current \in Cos /\ pending[current] # "none" /\ waker = "resume"

DataInv ==
  /\ Len(data_queue) <= Capacity
  /\ closed => (consumer_queue # <<>> => is_empty)
  /\ ~closed => IF Resumed THEN HandOver ELSE Quiet

FrameInv == SchedInv /\ ChanTypeOK /\ OpInv /\ QueueInv /\ CloserInv
ChanIInv == FrameInv /\ DataInv

-----------------------------------------------------------------------------
(* The waits.  Done: the running context, if it is a coroutine, ends the   *)
(* step outside of any operation; all others keep theirs.                  *)

OpTypes ==
  /\ pending \in [Cos -> {"none", "push", "pop"}]
  /\ item \in [Cos -> Vals \cup {"none"}]
  /\ msg_error \in [Cos -> BOOLEAN]

Done ==
  \A b \in Cos :
    IF b = current
    THEN call'[b] = "none" /\ pending'[b] = "none" /\ item'[b] = "none"
    ELSE /\ call'[b] = call[b] /\ pending'[b] = pending[b] /\ item'[b] = item[b]

LEMMA DoneByFinish ==
  ASSUME FrameInv, current \in Cos, Finish(current)
  PROVE  /\ Done /\ OpTypes' /\ UNCHANGED <<resume_code, lists, on_bailout, closer>>
         /\ timer' \in [Cos -> BOOLEAN] /\ cancel_fn' \in [Cos -> BOOLEAN]
         /\ call' \in [Cos -> Calls]
         /\ \A b \in Cos : b # current => msg_error'[b] = msg_error[b]
<1>1. TypeOK /\ ChanTypeOK
  BY DEF FrameInv, SchedInv
<1>2. Done
  BY <1>1 DEF Done, Finish, Unblock, TypeOK, ChanTypeOK
<1>3. OpTypes' /\ \A b \in Cos : b # current => msg_error'[b] = msg_error[b]
  BY <1>1 DEF OpTypes, Finish, ChanTypeOK
<1>4. /\ timer' \in [Cos -> BOOLEAN] /\ cancel_fn' \in [Cos -> BOOLEAN]
      /\ call' \in [Cos -> Calls] /\ UNCHANGED resume_code
  BY <1>1 DEF TypeOK, Finish, Unblock, Calls
<1>5. QED BY <1>2, <1>3, <1>4 DEF Finish

LEMMA DoneByUser ==
  ASSUME FrameInv, UserCode, UNCHANGED <<call, opVars>>
  PROVE  Done /\ OpTypes' /\ \A b \in Cos : msg_error'[b] = msg_error[b]
<1>1. current \in Cos => call[current] = "none"
  BY DEF UserCode
<1>2. \A b \in Cos : call[b] = "none" => pending[b] = "none" /\ item[b] = "none"
  BY DEF FrameInv, OpInv
<1>3. Done
  BY <1>1, <1>2 DEF Done, opVars
<1>4. QED BY <1>3 DEF OpTypes, opVars, FrameInv, ChanTypeOK

(* The waiter w runs next: it has left its queue, and what it finds says   *)
(* who woke it.                                                            *)
LEMMA FrameWake ==
  ASSUME FrameInv, NEW w \in Cos, pending[w] # "none", w # current, resume(w),
         Done, OpTypes', WaitTypes', UNCHANGED <<lists, on_bailout, closed, closer>>,
         \A b \in Cos : b # w /\ b # current =>
            resume_code'[b] = resume_code[b] /\ msg_error'[b] = msg_error[b],
         current' = w => Woken(w)',
         data_queue' \in Seq(Vals),
         producer_queue' \in Seq(Cos), Once(producer_queue'),
         \A x \in Cos : In(producer_queue', x) <=> In(producer_queue, x) /\ x # w,
         consumer_queue' \in Seq(Cos), Once(consumer_queue'),
         \A x \in Cos : In(consumer_queue', x) <=> In(consumer_queue, x) /\ x # w
  PROVE  FrameInv' /\ current' = w /\ pending'[w] = pending[w]
<1>1. SchedInv /\ call[w] = "lib" /\ w \notin user_yield_coros
  BY DEF FrameInv, OpInv, SchedInv
<1>2. \A b \in Cos : IF b = current THEN call'[b] = "none" ELSE call'[b] = call[b]
  BY DEF Done
<1>3. UNCHANGED <<user_yield_coros, on_bailout, closed, closer>>
  BY DEF lists
<1>4. SchedInv' /\ current' = w /\ \A b \in Cos : OnStack(b) => OnStack(b)'
  BY <1>1, <1>2, <1>3, SchedWake
<1>5. pending'[w] = pending[w] /\ Woken(w)'
  BY <1>4 DEF Done
<1>6. ChanTypeOK'
  BY <1>3 DEF ChanTypeOK, OpTypes, FrameInv
<1>7. OpInv'
  <2>1. SUFFICES ASSUME NEW b \in Cos
                 PROVE  /\ call'[b] = "lib" <=> pending'[b] # "none"
                        /\ pending'[b] = "push" => item'[b] \in Vals
                        /\ pending'[b] # "push" => item'[b] = "none"
                        /\ pending'[b] # "none" /\ current' # b =>
                              resume_code'[b] = "ok" /\ ~msg_error'[b]
                        /\ pending'[b] # "none" /\ current' = b => Woken(b)'
    BY DEF OpInv
  <2>2. CASE b = current
    BY <2>2 DEF Done
  <2>3. CASE b # current
    <3>1. call'[b] = call[b] /\ pending'[b] = pending[b] /\ item'[b] = item[b]
      BY <2>3 DEF Done
    <3>2. /\ call[b] = "lib" <=> pending[b] # "none"
          /\ pending[b] = "push" => item[b] \in Vals
          /\ pending[b] # "push" => item[b] = "none"
          /\ pending[b] # "none" => resume_code[b] = "ok" /\ ~msg_error[b]
      BY <2>3 DEF FrameInv, OpInv
    <3>3. QED BY <1>4, <1>5, <2>3, <3>1, <3>2
  <2>4. QED BY Zenon, <2>2, <2>3
<1>8. QueueInv'
  <2>1. ASSUME NEW x \in Cos
        PROVE  /\ In(producer_queue, x) /\ x # w <=> pending'[x] = "push" /\ w # x
               /\ In(consumer_queue, x) /\ x # w <=> pending'[x] = "pop" /\ w # x
    BY DEF Done, FrameInv, QueueInv
  <2>2. QED BY <1>4, <2>1 DEF QueueInv
<1>9. CloserInv'
  <2>1. \A c \in Cos : c \in closer' => OnStack(c)' /\ call'[c] = "none"
    BY <1>2, <1>3, <1>4 DEF FrameInv, CloserInv
  <2>2. closed' /\ closer' = {} => producer_queue' = <<>> /\ consumer_queue' = <<>>
    <3>1. SUFFICES ASSUME closed, closer = {}
                   PROVE  producer_queue' = <<>> /\ consumer_queue' = <<>>
      BY <1>3
    <3>2. producer_queue = <<>> /\ consumer_queue = <<>>
      BY <3>1 DEF FrameInv, CloserInv
    <3>3. \A x \in Cos : ~In(producer_queue, x) /\ ~In(consumer_queue, x)
      BY Zenon, <3>2, QueueEmpty DEF FrameInv, ChanTypeOK
    <3>4. QED BY <3>3, QueueEmpty
  <2>3. QED BY <1>3, <2>1, <2>2 DEF CloserInv, FrameInv
<1>10. QED BY <1>4, <1>5, <1>6, <1>7, <1>8, <1>9 DEF FrameInv

(* Nobody is woken: the running context goes on.                           *)
LEMMA FrameStay ==
  ASSUME FrameInv, UNCHANGED <<swapVars, producer_queue, consumer_queue>>,
         Done, OpTypes', WaitTypes', UNCHANGED <<lists, on_bailout, closed, closer>>,
         \A b \in Cos : b # current =>
            resume_code'[b] = resume_code[b] /\ msg_error'[b] = msg_error[b],
         data_queue' \in Seq(Vals)
  PROVE  FrameInv' /\ (current' \in Cos => pending'[current'] = "none")
<1>1. UNCHANGED <<current, user_yield_coros, on_bailout, closed, closer,
                  producer_queue, consumer_queue>>
  BY DEF lists, swapVars
<1>2. \A b \in Cos : IF b = current THEN call'[b] = "none" ELSE call'[b] = call[b]
  BY DEF Done
<1>3. SchedInv' /\ \A b \in Cos : OnStack(b)' <=> OnStack(b)
  BY <1>1, <1>2, SchedStay DEF FrameInv
<1>4. ChanTypeOK'
  BY <1>1 DEF ChanTypeOK, OpTypes, FrameInv
<1>5. OpInv'
  <2>1. SUFFICES ASSUME NEW b \in Cos
                 PROVE  /\ call'[b] = "lib" <=> pending'[b] # "none"
                        /\ pending'[b] = "push" => item'[b] \in Vals
                        /\ pending'[b] # "push" => item'[b] = "none"
                        /\ pending'[b] # "none" /\ current' # b =>
                              resume_code'[b] = "ok" /\ ~msg_error'[b]
                        /\ pending'[b] # "none" /\ current' = b => Woken(b)'
    BY DEF OpInv
  <2>2. CASE b = current
    BY <1>1, <2>2 DEF Done
  <2>3. CASE b # current
    <3>1. call'[b] = call[b] /\ pending'[b] = pending[b] /\ item'[b] = item[b]
      BY <2>3 DEF Done
    <3>2. /\ call[b] = "lib" <=> pending[b] # "none"
          /\ pending[b] = "push" => item[b] \in Vals
          /\ pending[b] # "push" => item[b] = "none"
          /\ pending[b] # "none" => resume_code[b] = "ok" /\ ~msg_error[b]
      BY <2>3 DEF FrameInv, OpInv
    <3>3. QED BY <1>1, <2>3, <3>1, <3>2
  <2>4. QED BY <2>2, <2>3
<1>6. QueueInv'
  <2>1. ASSUME NEW x \in Cos
        PROVE  /\ In(producer_queue, x) <=> pending'[x] = "push" /\ current # x
               /\ In(consumer_queue, x) <=> pending'[x] = "pop" /\ current # x
    BY DEF Done, FrameInv, QueueInv
  <2>2. QED BY <1>1, <2>1 DEF QueueInv, FrameInv
<1>7. CloserInv'
  BY <1>1, <1>2, <1>3 DEF FrameInv, CloserInv
<1>8. QED BY <1>1, <1>3, <1>4, <1>5, <1>6, <1>7 DEF FrameInv, Done

(* Channel::yield(): the caller joins its queue and leaves the thread to a *)
(* context that is in no operation.                                        *)
LEMMA FrameBlock ==
  ASSUME FrameInv, ChanUserCode, ~closed, NEW c \in Cos, current = c,
         NEW k \in {"push", "pop"}, NEW v, NEW t \in Timeouts,
         IF k = "push" THEN v \in Vals ELSE v = "none",
         chan_yield(c, k, v, t), UNCHANGED <<lists, on_bailout, closer>>
  PROVE  FrameInv' /\ (current' \in Cos => pending'[current'] = "none")
<1>. /\ SchedInv /\ TypeOK /\ ChanTypeOK /\ OpInv /\ QueueInv /\ CloserInv
     /\ call[c] = "none" /\ c \notin closer
  BY DEF FrameInv, SchedInv, ChanUserCode, UserCode
<1>1. /\ SwapOut(c, "waiting") /\ call' = [call EXCEPT ![c] = "lib"]
      /\ resume_code' = [resume_code EXCEPT ![c] = "ok"]
      /\ cancel_fn' = [cancel_fn EXCEPT ![c] = TRUE]
      /\ timer' = [timer EXCEPT ![c] = TimerAdded(t)]
      /\ UNCHANGED <<waker, on_bailout, user_yield_coros, inflight, closed, closer, data_queue>>
  BY DEF chan_yield, BlockIn, lists
<1>2. WaitTypes'
  BY <1>1 DEF WaitTypes, TypeOK, ResumeCodes, Calls, TimerAdded
<1>3. /\ call'[c] = "lib" /\ pending'[c] = k /\ item'[c] = v
      /\ resume_code'[c] = "ok" /\ ~msg_error'[c]
      /\ \A b \in Cos : b # c =>
            /\ call'[b] = call[b] /\ pending'[b] = pending[b] /\ item'[b] = item[b]
            /\ resume_code'[b] = resume_code[b] /\ msg_error'[b] = msg_error[b]
  BY <1>1 DEF chan_yield, TypeOK, ChanTypeOK
<1>4. c \notin user_yield_coros
  BY Zenon DEF SchedInv
<1>5. /\ SchedInv' /\ current' # c
      /\ current' \in Cos => call'[current'] = "none"
      /\ \A b \in Cos : b # c => (OnStack(b)' <=> OnStack(b))
  BY <1>1, <1>2, <1>3, <1>4, SchedOut
<1>6. /\ ~In(producer_queue, c) /\ ~In(consumer_queue, c)
      /\ Once(producer_queue) /\ Once(consumer_queue)
      /\ producer_queue \in Seq(Cos) /\ consumer_queue \in Seq(Cos)
  BY DEF QueueInv, ChanTypeOK
<1>7. /\ producer_queue' = IF k = "push" THEN Append(producer_queue, c) ELSE producer_queue
      /\ consumer_queue' = IF k = "pop" THEN Append(consumer_queue, c) ELSE consumer_queue
  BY DEF chan_yield
<1>8. /\ producer_queue' \in Seq(Cos) /\ Once(producer_queue')
      /\ \A x \in Cos : In(producer_queue', x) <=> In(producer_queue, x) \/ (x = c /\ k = "push")
  BY <1>6, <1>7, QueueAppend
<1>9. /\ consumer_queue' \in Seq(Cos) /\ Once(consumer_queue')
      /\ \A x \in Cos : In(consumer_queue', x) <=> In(consumer_queue, x) \/ (x = c /\ k = "pop")
  BY <1>6, <1>7, QueueAppend
<1>10. ChanTypeOK'
  <2>1. /\ pending' \in [Cos -> {"none", "push", "pop"}]
        /\ item' \in [Cos -> Vals \cup {"none"}]
        /\ msg_error' \in [Cos -> BOOLEAN]
    BY DEF chan_yield, ChanTypeOK
  <2>2. QED BY <1>1, <1>8, <1>9, <2>1 DEF ChanTypeOK
<1>11. \A b \in Cos : call[b] = "lib" <=> pending[b] # "none"
  BY DEF OpInv
<1>12. current' \in Cos => pending'[current'] = "none"
  BY <1>3, <1>5, <1>11
<1>13. OpInv'
  <2>1. \A b \in Cos : pending'[b] # "none" => current' # b
    BY <1>12
  <2>2. \A b \in Cos : b # c /\ pending[b] # "none" => resume_code[b] = "ok" /\ ~msg_error[b]
    BY DEF OpInv
  <2>3. pending'[c] = "push" => item'[c] \in Vals
    BY Zenon, <1>3
  <2>4. pending'[c] # "push" => item'[c] = "none"
    BY Zenon, <1>3
  <2>5. \A b \in Cos : /\ call'[b] = "lib" <=> pending'[b] # "none"
                       /\ pending'[b] = "push" => item'[b] \in Vals
                       /\ pending'[b] # "push" => item'[b] = "none"
    BY ZenonT(30), <1>3, <2>3, <2>4 DEF OpInv
  <2>6. \A b \in Cos : pending'[b] # "none" => resume_code'[b] = "ok" /\ ~msg_error'[b]
    BY Zenon, <1>3, <2>2
  <2>7. QED BY Zenon, <2>1, <2>5, <2>6 DEF OpInv
<1>14. QueueInv'
  <2>1. \A x \in Cos : x # c => /\ In(producer_queue, x) <=> pending[x] = "push"
                                /\ In(consumer_queue, x) <=> pending[x] = "pop"
    BY DEF QueueInv
  <2>2. \A x \in Cos : pending'[x] # "none" => current' # x
    BY <1>12
  <2>3. QED BY Zenon, <1>3, <1>6, <1>8, <1>9, <2>1, <2>2 DEF QueueInv
<1>15. CloserInv'
  BY <1>1, <1>3, <1>5 DEF CloserInv
<1>16. QED BY <1>5, <1>10, <1>12, <1>13, <1>14, <1>15 DEF FrameInv

-----------------------------------------------------------------------------
(* The rest of the program cannot disturb the channel: it never resumes a  *)
(* coroutine that is suspended in it.                                      *)
NoOpRuns == current \in Cos => pending[current] = "none"

LEMMA ElseKeeps ==
  ASSUME FrameInv, NoOpRuns, SchedInv', UNCHANGED <<queues, closer, opVars>>,
         \A b \in Cos : call'[b] = "lib" <=> call[b] = "lib",
         current' \in Cos => pending[current'] = "none",
         \A b \in Cos : pending[b] # "none" => resume_code'[b] = resume_code[b],
         \A b \in Cos : b \in closer => OnStack(b)' /\ call'[b] = "none"
  PROVE  FrameInv' /\ NoOpRuns'
<1>. UNCHANGED <<data_queue, producer_queue, consumer_queue, closed, closer, pending, item, msg_error>>
  BY DEF queues, opVars
<1>1. \A b \in Cos : pending[b] # "none" => current # b /\ current' # b
  BY DEF NoOpRuns
<1>2. ChanTypeOK'
  BY DEF FrameInv, ChanTypeOK
<1>3. OpInv'
  BY Zenon, <1>1 DEF FrameInv, OpInv
<1>4. QueueInv'
  BY <1>1 DEF FrameInv, QueueInv
<1>5. CloserInv'
  BY DEF FrameInv, CloserInv
<1>6. QED BY <1>2, <1>3, <1>4, <1>5 DEF FrameInv, NoOpRuns

LEMMA FrameElse ==
  ASSUME FrameInv, ChanCoStep
  PROVE  FrameInv' /\ NoOpRuns /\ NoOpRuns' /\ UNCHANGED <<queues, closer, opVars>>
<1>1. UNCHANGED <<queues, closer, opVars>> /\ current \notin closer /\ Elsewhere /\ SchedInv
  BY DEF ChanCoStep, Elsewhere, FrameInv
<1>2. SchedInv' /\ LibIdle /\ LibIdle' /\ FramesStay
  BY <1>1, SchedElse
<1>3. /\ \A b \in Cos : call[b] = "lib" <=> pending[b] # "none"
      /\ \A b \in Cos : b \in closer => OnStack(b) /\ call[b] = "none"
  BY DEF FrameInv, OpInv, CloserInv
<1>4. NoOpRuns
  BY <1>2, <1>3 DEF LibIdle, NoOpRuns
<1>5. /\ \A b \in Cos : call'[b] = "lib" <=> call[b] = "lib"
      /\ current' \in Cos => pending[current'] = "none"
      /\ \A b \in Cos : pending[b] # "none" => resume_code'[b] = resume_code[b]
      /\ \A b \in Cos : b \in closer => OnStack(b)' /\ call'[b] = "none"
  BY <1>1, <1>2, <1>3 DEF FramesStay, LibIdle
<1>6. QED BY <1>1, <1>2, <1>4, <1>5, ElseKeeps

-----------------------------------------------------------------------------
(* Wake-ups.  Ends: push() or pop() is over but for the wake-up it makes.  *)
Ends ==
  /\ Done /\ OpTypes'
  /\ timer' \in [Cos -> BOOLEAN] /\ cancel_fn' \in [Cos -> BOOLEAN] /\ call' \in [Cos -> Calls]
  /\ UNCHANGED <<resume_code, lists, on_bailout, closer>>
  /\ \A b \in Cos : b # current => msg_error'[b] = msg_error[b]

LEMMA EndsByFinish == FrameInv /\ current \in Cos /\ Finish(current) => Ends
BY DoneByFinish DEF Ends

LEMMA EndsByUser ==
  ASSUME FrameInv, UserCode,
         UNCHANGED <<resume_code, cancel_fn, timer, call, opVars, lists, on_bailout, closer>>
  PROVE  Ends
<1>1. Done /\ OpTypes' /\ \A b \in Cos : msg_error'[b] = msg_error[b]
  BY DoneByUser
<1>2. TypeOK
  BY DEF FrameInv, SchedInv
<1>3. QED BY Zenon, <1>1, <1>2 DEF Ends, TypeOK

(* A waiter leaves its queue when it is resumed; the other queue never     *)
(* held it.                                                                *)
LEMMA WakeHead ==
  ASSUME FrameInv, Ends, UNCHANGED closed, data_queue' \in Seq(Vals),
         \/ /\ producer_queue # <<>> /\ producer_queue' = Tail(producer_queue)
            /\ Wake(Head(producer_queue)) /\ UNCHANGED consumer_queue
         \/ /\ consumer_queue # <<>> /\ consumer_queue' = Tail(consumer_queue)
            /\ Wake(Head(consumer_queue)) /\ UNCHANGED producer_queue
  PROVE  /\ FrameInv' /\ Resumed'
         /\ consumer_queue' = consumer_queue => pending'[current'] = "push"
         /\ producer_queue' = producer_queue => pending'[current'] = "pop"
<1>. /\ producer_queue \in Seq(Cos) /\ consumer_queue \in Seq(Cos)
     /\ Once(producer_queue) /\ Once(consumer_queue) /\ SchedInv /\ OpInv
     /\ \A x \in Cos : /\ In(producer_queue, x) <=> pending[x] = "push" /\ current # x
                       /\ In(consumer_queue, x) <=> pending[x] = "pop" /\ current # x
  BY DEF FrameInv, ChanTypeOK, QueueInv
<1>1. ASSUME NEW w \in Cos, pending[w] # "none", w # current, Wake(w),
             producer_queue' \in Seq(Cos), Once(producer_queue'),
             \A x \in Cos : In(producer_queue', x) <=> In(producer_queue, x) /\ x # w,
             consumer_queue' \in Seq(Cos), Once(consumer_queue'),
             \A x \in Cos : In(consumer_queue', x) <=> In(consumer_queue, x) /\ x # w
      PROVE  FrameInv' /\ Resumed' /\ pending'[current'] = pending[w] /\ current' = w
  <2>1. resume(w) /\ waker' = "resume"
    BY Zenon, <1>1 DEF Wake
  <2>2. WaitTypes'
    BY Zenon, <2>1 DEF Ends, lists, WaitTypes, SchedInv, TypeOK, Wakers
  <2>3. Woken(w)'
    BY <1>1, <2>1 DEF Woken, OpInv, Ends
  <2>4. FrameInv' /\ current' = w /\ pending'[w] = pending[w]
    BY Zenon, <1>1, <2>1, <2>2, <2>3, FrameWake DEF Ends
  <2>5. QED BY <1>1, <2>1, <2>4 DEF Resumed
<1>2. CASE /\ producer_queue # <<>> /\ producer_queue' = Tail(producer_queue)
           /\ Wake(Head(producer_queue)) /\ UNCHANGED consumer_queue
  <2>. DEFINE w == Head(producer_queue)
  <2>1. /\ w \in Cos /\ In(producer_queue, w)
        /\ producer_queue' \in Seq(Cos) /\ Once(producer_queue')
        /\ \A x \in Cos : In(producer_queue', x) <=> In(producer_queue, x) /\ x # w
    BY <1>2, QueueTail
  <2>. HIDE DEF w
  <2>2. pending[w] = "push" /\ w # current
    BY <2>1
  <2>3. \A x \in Cos : In(consumer_queue', x) <=> In(consumer_queue, x) /\ x # w
    BY <1>2, <2>1, <2>2
  <2>4. FrameInv' /\ Resumed' /\ pending'[current'] = "push" /\ current' = w
    BY <1>1, <1>2, <2>1, <2>2, <2>3 DEF w
  <2>5. producer_queue' # producer_queue
    BY <2>1
  <2>6. QED BY <2>4, <2>5
<1>3. CASE /\ consumer_queue # <<>> /\ consumer_queue' = Tail(consumer_queue)
           /\ Wake(Head(consumer_queue)) /\ UNCHANGED producer_queue
  <2>. DEFINE w == Head(consumer_queue)
  <2>1. /\ w \in Cos /\ In(consumer_queue, w)
        /\ consumer_queue' \in Seq(Cos) /\ Once(consumer_queue')
        /\ \A x \in Cos : In(consumer_queue', x) <=> In(consumer_queue, x) /\ x # w
    BY <1>3, QueueTail
  <2>. HIDE DEF w
  <2>2. pending[w] = "pop" /\ w # current
    BY <2>1
  <2>3. \A x \in Cos : In(producer_queue', x) <=> In(producer_queue, x) /\ x # w
    BY <1>3, <2>1, <2>2
  <2>4. FrameInv' /\ Resumed' /\ pending'[current'] = "pop" /\ current' = w
    BY <1>1, <1>3, <2>1, <2>2, <2>3 DEF w
  <2>5. consumer_queue' # consumer_queue
    BY <2>1
  <2>6. QED BY <2>4, <2>5
<1>4. QED BY <1>2, <1>3

LEMMA WakeNobody ==
  ASSUME FrameInv, Ends, waker' = "none", data_queue' \in Seq(Vals),
         UNCHANGED <<closed, swapVars, producer_queue, consumer_queue>>
  PROVE  FrameInv' /\ NoOpRuns'
<1>1. WaitTypes'
  BY DEF Ends, lists, WaitTypes, FrameInv, SchedInv, TypeOK, Wakers
<1>2. QED BY Zenon, <1>1, FrameStay DEF Ends, NoOpRuns

(* A timer or cancel() takes the waiter out of whichever queue it is in.   *)
LEMMA WakeAside ==
  ASSUME FrameInv, NoOpRuns, NEW c \in Cos, call[c] = "lib", current # c, resume(c),
         current \in Cos => call[current] = "none",
         producer_queue' = Remove(producer_queue, c),
         consumer_queue' = Remove(consumer_queue, c),
         UNCHANGED <<call, lists, on_bailout, data_queue, closed, closer, pending, item>>,
         timer' \in [Cos -> BOOLEAN], cancel_fn' \in [Cos -> BOOLEAN],
         \/ /\ waker' = "timer" /\ UNCHANGED resume_code
            /\ msg_error' = [msg_error EXCEPT ![c] = TRUE]
         \/ /\ waker' = "cancel" /\ UNCHANGED msg_error
            /\ resume_code' = [resume_code EXCEPT ![c] = "canceled"]
  PROVE  /\ FrameInv' /\ ~Resumed'
         /\ \A x \in Cos : /\ In(producer_queue', x) => In(producer_queue, x)
                           /\ In(consumer_queue', x) => In(consumer_queue, x)
<1>. /\ producer_queue \in Seq(Cos) /\ consumer_queue \in Seq(Cos)
     /\ Once(producer_queue) /\ Once(consumer_queue) /\ TypeOK /\ ChanTypeOK
     /\ data_queue \in Seq(Vals) /\ OpInv
  BY Zenon DEF FrameInv, ChanTypeOK, QueueInv, SchedInv
<1>1. /\ producer_queue' \in Seq(Cos) /\ Once(producer_queue')
      /\ \A x \in Cos : In(producer_queue', x) <=> In(producer_queue, x) /\ x # c
  BY Zenon, QueueRemove
<1>2. /\ consumer_queue' \in Seq(Cos) /\ Once(consumer_queue')
      /\ \A x \in Cos : In(consumer_queue', x) <=> In(consumer_queue, x) /\ x # c
  BY Zenon, QueueRemove
<1>3. /\ pending[c] # "none" /\ resume_code[c] = "ok" /\ ~msg_error[c]
      /\ \A b \in Cos : call[b] = "none" => pending[b] = "none" /\ item[b] = "none"
  BY DEF OpInv
<1>4. Done
  BY <1>3 DEF Done
<1>5. WaitTypes'
  BY DEF WaitTypes, TypeOK, lists, ResumeCodes, Wakers
<1>6. OpTypes'
  BY Zenon DEF OpTypes, ChanTypeOK
<1>7. Woken(c)' /\ \A b \in Cos : b # c => /\ resume_code'[b] = resume_code[b]
                                           /\ msg_error'[b] = msg_error[b]
  BY <1>3 DEF Woken, TypeOK, ChanTypeOK
<1>8. FrameInv' /\ current' = c
  BY Zenon, <1>1, <1>2, <1>3, <1>4, <1>5, <1>6, <1>7, FrameWake
<1>9. waker' # "resume"
  OBVIOUS
<1>10. QED BY Zenon, <1>1, <1>2, <1>8, <1>9 DEF Resumed

LEMMA InvStutters == ChanIInv /\ UNCHANGED chanVars => ChanIInv'
<1>. SUFFICES ASSUME ChanIInv, UNCHANGED chanVars PROVE ChanIInv'
  OBVIOUS
<1>1. /\ UNCHANGED <<current, origin, state, depth, resume_code, cancel_fn, timer, call, waker>>
      /\ UNCHANGED <<user_yield_coros, inflight, on_bailout>>
      /\ UNCHANGED <<data_queue, producer_queue, consumer_queue, closed, closer>>
      /\ UNCHANGED <<pending, item, msg_error>>
  BY Zenon DEF chanVars, coVars, swapVars, waitVars, lists, queues, opVars
<1>2. SchedInv'
  BY <1>1 DEF ChanIInv, FrameInv, SchedInv, TypeOK, StackInv, OnStack
<1>3. ChanTypeOK' /\ QueueInv' /\ CloserInv'
  BY Zenon, <1>1 DEF ChanIInv, FrameInv, ChanTypeOK, QueueInv, CloserInv, OnStack
<1>4. OpInv'
  BY Zenon, <1>1 DEF ChanIInv, FrameInv, OpInv, Woken
<1>5. DataInv'
  BY <1>1 DEF ChanIInv, DataInv, Resumed, HandOver, Quiet, is_empty, is_full
<1>6. QED BY <1>2, <1>3, <1>4, <1>5 DEF ChanIInv, FrameInv

-----------------------------------------------------------------------------
(* The values.                                                             *)
LEMMA PushData ==
  ASSUME ChanIInv, Ends, NEW v \in Vals, push_data(v), ~closed, Len(data_queue) < Capacity,
         consumer_queue # <<>> => is_empty /\ producer_queue = <<>>,
         consumer_queue = <<>> /\ producer_queue # <<>> => Len(data_queue) = Capacity - 1
  PROVE  ChanIInv'
<1>. /\ FrameInv /\ Capacity \in Nat /\ data_queue \in Seq(Vals)
     /\ data_queue' = Append(data_queue, v) /\ UNCHANGED <<producer_queue, closed>>
  BY CapacityAssumption DEF ChanIInv, FrameInv, ChanTypeOK, push_data
<1>1. data_queue' \in Seq(Vals) /\ Len(data_queue') = Len(data_queue) + 1 /\ Len(data_queue) \in Nat
  OBVIOUS
<1>2. Len(data_queue') <= Capacity
  BY <1>1
<1>3. CASE consumer_queue # <<>>
  <2>1. consumer_queue' = Tail(consumer_queue) /\ Wake(Head(consumer_queue))
    BY <1>3 DEF push_data
  <2>2. FrameInv' /\ Resumed' /\ pending'[current'] = "pop"
    BY <1>1, <1>3, <2>1, WakeHead
  <2>3. Len(data_queue') = 1 /\ producer_queue' = <<>>
    BY <1>1, <1>3 DEF is_empty
  <2>4. HandOver'
    BY <2>2, <2>3 DEF HandOver
  <2>5. QED BY <1>2, <2>2, <2>4 DEF ChanIInv, DataInv
<1>4. CASE consumer_queue = <<>>
  <2>1. waker' = "none" /\ UNCHANGED <<consumer_queue, swapVars>>
    BY <1>4 DEF push_data
  <2>2. FrameInv' /\ ~Resumed'
    BY <1>1, <2>1, WakeNobody DEF Resumed
  <2>3. Quiet'
    BY <1>1, <1>4, <2>1 DEF Quiet, is_full
  <2>4. QED BY <1>2, <2>2, <2>3 DEF ChanIInv, DataInv
<1>5. QED BY <1>3, <1>4

LEMMA PopData ==
  ASSUME ChanIInv, Ends, pop_data, ~is_empty,
         ~closed /\ producer_queue # <<>> => is_full /\ consumer_queue = <<>>,
         ~closed /\ producer_queue = <<>> /\ consumer_queue # <<>> => Len(data_queue) = 1
  PROVE  ChanIInv'
<1>. /\ FrameInv /\ DataInv /\ Capacity \in Nat /\ data_queue \in Seq(Vals)
     /\ data_queue' = Tail(data_queue) /\ UNCHANGED <<consumer_queue, closed>>
  BY CapacityAssumption DEF ChanIInv, FrameInv, ChanTypeOK, pop_data
<1>1. /\ data_queue' \in Seq(Vals) /\ Len(data_queue') = Len(data_queue) - 1
      /\ Len(data_queue) \in Nat /\ Len(data_queue) > 0
  BY DEF is_empty
<1>2. Len(data_queue') <= Capacity /\ (closed' => (consumer_queue' # <<>> => is_empty'))
  BY <1>1 DEF DataInv
<1>3. CASE producer_queue # <<>>
  <2>1. producer_queue' = Tail(producer_queue) /\ Wake(Head(producer_queue))
    BY <1>3 DEF pop_data
  <2>2. FrameInv' /\ Resumed' /\ pending'[current'] = "push"
    BY <1>1, <1>3, <2>1, WakeHead
  <2>3. ~closed => Len(data_queue') = Capacity - 1 /\ consumer_queue' = <<>>
    BY <1>1, <1>3 DEF is_full
  <2>4. ~closed => HandOver'
    BY <2>2, <2>3 DEF HandOver
  <2>5. QED BY <1>2, <2>2, <2>4 DEF ChanIInv, DataInv
<1>4. CASE producer_queue = <<>>
  <2>1. waker' = "none" /\ UNCHANGED <<producer_queue, swapVars>>
    BY <1>4 DEF pop_data
  <2>2. FrameInv' /\ ~Resumed'
    BY <1>1, <2>1, WakeNobody DEF Resumed
  <2>3. ~closed => Quiet'
    BY <1>1, <1>4, <2>1 DEF Quiet, is_empty
  <2>4. QED BY <1>2, <2>2, <2>3 DEF ChanIInv, DataInv
<1>5. QED BY <1>3, <1>4

(* Nothing is taken or brought, and no resumed waiter is on top after it.  *)
LEMMA DataSame ==
  ASSUME DataInv, ~closed => Quiet, ~Resumed', UNCHANGED <<data_queue, closed>>,
         producer_queue = <<>> => producer_queue' = <<>> \/ (~closed => is_full),
         consumer_queue = <<>> => consumer_queue' = <<>> \/ is_empty
  PROVE  DataInv'
BY DEF DataInv, Quiet, is_full, is_empty

(* User code runs only when no wake-up is in progress.                     *)
LEMMA UserIsQuiet ==
  ASSUME ChanIInv, UserCode
  PROVE  NoOpRuns /\ ~Resumed /\ (~closed => Quiet) /\ (closed => (consumer_queue # <<>> => is_empty))
<1>1. NoOpRuns
  BY DEF UserCode, NoOpRuns, ChanIInv, FrameInv, OpInv
<1>2. QED BY <1>1 DEF NoOpRuns, Resumed, ChanIInv, DataInv

(* Where an operation may suspend.                                         *)
LEMMA PopWaits ==
  ASSUME ChanIInv, UserCode, ~(closed /\ is_empty), is_empty \/ consumer_queue # <<>>
  PROVE  ~closed /\ is_empty
BY UserIsQuiet DEF Quiet

LEMMA PushInv ==
  ASSUME ChanIInv, NEW v \in Vals, NEW t \in Timeouts, push(v, t)
  PROVE  ChanIInv'
<1>. /\ ChanUserCode /\ UserCode /\ current \in Cos /\ FrameInv /\ DataInv
     /\ UNCHANGED <<lists, on_bailout, closer>>
     /\ Capacity \in Nat /\ Capacity > 0 /\ Len(data_queue) \in Nat
  BY CapacityAssumption DEF push, ChanUserCode, ChanIInv, FrameInv, ChanTypeOK
<1>1. CASE closed /\ UNCHANGED <<swapVars, waitVars, queues, opVars>>
  <2>1. UNCHANGED chanVars
    BY <1>1 DEF chanVars, coVars
  <2>2. QED BY <2>1, InvStutters
<1>2. CASE ~closed /\ (is_full \/ producer_queue # <<>>) /\ chan_yield(current, "push", v, t)
  <2>1. FrameInv' /\ ~Resumed'
    BY <1>2, FrameBlock DEF Resumed
  <2>2. is_full /\ Quiet
    BY <1>2, UserIsQuiet DEF Quiet
  <2>3. UNCHANGED <<data_queue, closed, consumer_queue>>
    BY <1>2 DEF chan_yield
  <2>4. DataInv'
    BY <2>1, <2>2, <2>3, DataSame
  <2>5. QED BY <2>1, <2>4 DEF ChanIInv
<1>3. CASE /\ ~closed /\ ~is_full /\ producer_queue = <<>> /\ push_data(v)
           /\ UNCHANGED <<resume_code, cancel_fn, timer, call, opVars>>
  <2>1. Ends
    BY <1>3, EndsByUser
  <2>2. Len(data_queue) < Capacity
    BY <1>3 DEF DataInv, is_full
  <2>3. consumer_queue # <<>> => is_empty
    BY <1>3, UserIsQuiet DEF Quiet
  <2>4. QED BY <1>3, <2>1, <2>2, <2>3, PushData
<1>4. QED BY <1>1, <1>2, <1>3 DEF push

LEMMA PopInv ==
  ASSUME ChanIInv, NEW t \in Timeouts, pop(t)
  PROVE  ChanIInv'
<1>. /\ ChanUserCode /\ UserCode /\ current \in Cos /\ FrameInv /\ DataInv
     /\ UNCHANGED <<lists, on_bailout, closer>>
  BY DEF pop, ChanUserCode, ChanIInv
<1>1. CASE closed /\ is_empty /\ UNCHANGED <<swapVars, waitVars, queues, opVars>>
  <2>1. UNCHANGED chanVars
    BY <1>1 DEF chanVars, coVars
  <2>2. QED BY <2>1, InvStutters
<1>2. CASE /\ ~(closed /\ is_empty) /\ (is_empty \/ consumer_queue # <<>>)
           /\ chan_yield(current, "pop", "none", t)
  <2>1. ~closed /\ is_empty /\ Quiet
    BY <1>2, PopWaits, UserIsQuiet
  <2>2. FrameInv' /\ ~Resumed'
    BY <1>2, <2>1, FrameBlock DEF Resumed
  <2>3. UNCHANGED <<data_queue, closed, producer_queue>>
    BY <1>2 DEF chan_yield
  <2>4. DataInv'
    BY <2>1, <2>2, <2>3, DataSame
  <2>5. QED BY <2>2, <2>4 DEF ChanIInv
<1>3. CASE /\ ~is_empty /\ consumer_queue = <<>> /\ pop_data
           /\ UNCHANGED <<resume_code, cancel_fn, timer, call, opVars>>
  <2>1. Ends
    BY <1>3, EndsByUser
  <2>2. ~closed /\ producer_queue # <<>> => is_full
    BY UserIsQuiet DEF Quiet
  <2>3. QED BY <1>3, <2>1, <2>2, PopData
<1>4. QED BY <1>1, <1>2, <1>3 DEF pop

(* A woken operation that goes on was resumed by the other side and finds  *)
(* what it was resumed for.                                                *)
LEMMA VerdictOk ==
  ASSUME ChanIInv, current \in Cos, pending[current] # "none", NEW lost \in BOOLEAN,
         Verdict(current, lost) = "ok"
  PROVE  ~lost /\ Resumed /\ (~closed => HandOver)
<1>1. Woken(current)
  BY DEF ChanIInv, FrameInv, OpInv
<1>2. ~lost /\ waker = "resume"
  BY <1>1 DEF Verdict, Woken
<1>3. QED BY <1>2 DEF Resumed, ChanIInv, DataInv

(* One that gives up was not resumed by the other side, or the channel was *)
(* closed under it.                                                        *)
LEMMA GivesUp ==
  ASSUME ChanIInv, current \in Cos, pending[current] # "none", NEW lost \in BOOLEAN,
         Verdict(current, lost) # "ok", lost => closed, Finish(current), GiveUp
  PROVE  ChanIInv'
<1>1. FrameInv /\ DataInv /\ Ends /\ Woken(current)
  BY Zenon, EndsByFinish DEF ChanIInv, FrameInv, OpInv
<1>2. waker' = "none" /\ UNCHANGED <<data_queue, producer_queue, consumer_queue, closed, swapVars>>
  BY DEF GiveUp, queues
<1>3. data_queue' \in Seq(Vals)
  BY <1>1, <1>2 DEF FrameInv, ChanTypeOK
<1>4. FrameInv' /\ ~Resumed'
  BY Zenon, <1>1, <1>2, <1>3, WakeNobody DEF Resumed
<1>5. ~closed => waker # "resume"
  BY Zenon, <1>1 DEF Verdict, Woken
<1>6. ~closed => Quiet
  BY <1>1, <1>5 DEF DataInv, Resumed
<1>7. DataInv'
  BY <1>1, <1>2, <1>4, <1>6, DataSame
<1>8. QED BY <1>4, <1>7 DEF ChanIInv

LEMMA JustBelow == \A m, n \in Nat : m = n - 1 => m < n
OBVIOUS

LEMMA AfterPushInv ==
  ASSUME ChanIInv, after_push
  PROVE  ChanIInv'
<1>. /\ current \in Cos /\ pending[current] = "push" /\ Finish(current) /\ FrameInv
     /\ closed \in BOOLEAN /\ item[current] \in Vals
     /\ Capacity \in Nat /\ Capacity > 0 /\ Len(data_queue) \in Nat
  BY CapacityAssumption DEF after_push, ChanIInv, FrameInv, OpInv, ChanTypeOK
<1>1. CASE Verdict(current, closed) = "ok"
  <2>1. ~closed /\ HandOver
    BY Zenon, <1>1, VerdictOk
  <2>2. Len(data_queue) = Capacity - 1 /\ consumer_queue = <<>>
    BY ZenonT(30), <2>1 DEF HandOver
  <2>3. push_data(item[current]) /\ Ends
    BY <1>1, EndsByFinish DEF after_push
  <2>4. Len(data_queue) < Capacity
    BY Zenon, <2>2, JustBelow
  <2>5. QED BY <2>1, <2>2, <2>3, <2>4, PushData
<1>2. CASE Verdict(current, closed) # "ok"
  BY <1>2, GivesUp DEF after_push
<1>3. QED BY Zenon, <1>1, <1>2

LEMMA AfterPopInv ==
  ASSUME ChanIInv, after_pop
  PROVE  ChanIInv'
<1>. /\ current \in Cos /\ pending[current] = "pop" /\ Finish(current) /\ FrameInv /\ DataInv
     /\ closed \in BOOLEAN /\ (closed /\ is_empty) \in BOOLEAN
  BY DEF after_pop, ChanIInv, FrameInv, ChanTypeOK
<1>1. CASE Verdict(current, closed /\ is_empty) = "ok"
  <2>1. ~(closed /\ is_empty) /\ (~closed => HandOver)
    BY <1>1, VerdictOk
  <2>2. ~closed => Len(data_queue) = 1 /\ producer_queue = <<>>
    BY <2>1 DEF HandOver
  <2>3. pop_data /\ Ends
    BY <1>1, EndsByFinish DEF after_pop
  <2>4. ~is_empty
    BY <2>1, <2>2 DEF is_empty
  <2>5. QED BY <2>2, <2>3, <2>4, PopData
<1>2. CASE Verdict(current, closed /\ is_empty) # "ok"
  BY Zenon, <1>2, GivesUp DEF after_pop
<1>3. QED BY <1>1, <1>2

LEMMA AsideInv ==
  ASSUME ChanIInv, NEW c \in Cos, chan_timer_callback(c) \/ chan_cancel(c)
  PROVE  ChanIInv'
<1>. /\ FrameInv /\ DataInv /\ TypeOK /\ ChanTypeOK /\ on_bailout = "no"
  BY DEF ChanIInv, FrameInv, SchedInv
<1>1. UserCode /\ current # c
  BY MainAssumption DEF UserCode, chan_timer_callback, FireTimer, chan_cancel, CancelWith
<1>2. NoOpRuns /\ (~closed => Quiet) /\ (current \in Cos => call[current] = "none")
  BY Zenon, <1>1, UserIsQuiet DEF UserCode
<1>3. /\ call[c] = "lib" /\ resume(c) /\ UNCHANGED call
      /\ producer_queue' = Remove(producer_queue, c)
      /\ consumer_queue' = Remove(consumer_queue, c)
      /\ UNCHANGED <<lists, on_bailout, data_queue, closed, closer, pending, item>>
  BY DEF chan_timer_callback, FireTimer, chan_cancel, CancelWith, opVars
<1>4. timer' \in [Cos -> BOOLEAN] /\ cancel_fn' \in [Cos -> BOOLEAN]
  BY Zenon DEF chan_timer_callback, FireTimer, chan_cancel, CancelWith, TypeOK
<1>5. \/ /\ waker' = "timer" /\ UNCHANGED resume_code
         /\ msg_error' = [msg_error EXCEPT ![c] = TRUE]
      \/ /\ waker' = "cancel" /\ UNCHANGED msg_error
         /\ resume_code' = [resume_code EXCEPT ![c] = "canceled"]
  <2>1. CASE chan_timer_callback(c)
    <3>1. resume_code' = [resume_code EXCEPT ![c] = resume_code[c]]
      BY <2>1 DEF chan_timer_callback, FireTimer
    <3>2. UNCHANGED resume_code
      BY <3>1 DEF TypeOK
    <3>3. QED BY <2>1, <3>2 DEF chan_timer_callback, FireTimer
  <2>2. CASE chan_cancel(c)
    BY <2>2 DEF chan_cancel, CancelWith, opVars
  <2>3. QED BY <2>1, <2>2
<1>6. /\ FrameInv' /\ ~Resumed'
      /\ \A x \in Cos : /\ In(producer_queue', x) => In(producer_queue, x)
                        /\ In(consumer_queue', x) => In(consumer_queue, x)
  BY <1>1, <1>2, <1>3, <1>4, <1>5, WakeAside
<1>7. /\ producer_queue = <<>> => producer_queue' = <<>>
      /\ consumer_queue = <<>> => consumer_queue' = <<>>
  <2>1. /\ producer_queue \in Seq(Cos) /\ consumer_queue \in Seq(Cos)
        /\ producer_queue' \in Seq(Cos) /\ consumer_queue' \in Seq(Cos)
    BY <1>6 DEF FrameInv, ChanTypeOK
  <2>2. QED BY Zenon, <1>6, <2>1, QueueEmpty
<1>8. DataInv'
  BY <1>2, <1>3, <1>6, <1>7, DataSame
<1>9. QED BY <1>6, <1>8 DEF ChanIInv

LEMMA CloseInv ==
  ASSUME ChanIInv, chan_close
  PROVE  ChanIInv'
<1>. /\ FrameInv /\ DataInv /\ UserCode /\ ~closed /\ closed' = TRUE /\ closer' = {current}
     /\ UNCHANGED <<coVars, data_queue, producer_queue, consumer_queue, opVars>>
  BY DEF ChanIInv, chan_close, ChanUserCode
<1>1. /\ UNCHANGED <<current, origin, state, depth, resume_code, cancel_fn, timer, call, waker>>
      /\ UNCHANGED <<user_yield_coros, inflight, on_bailout, pending, item, msg_error>>
  BY DEF coVars, swapVars, waitVars, lists, opVars
<1>2. SchedInv'
  BY Zenon, <1>1 DEF FrameInv, SchedInv, TypeOK, StackInv, OnStack
<1>3. ChanTypeOK'
  BY <1>1 DEF FrameInv, SchedInv, TypeOK, ChanTypeOK
<1>4. OpInv' /\ QueueInv'
  BY Zenon, <1>1 DEF FrameInv, OpInv, Woken, QueueInv
<1>5. current \in Cos => OnStack(current) /\ call[current] = "none"
  BY Zenon, MainAssumption DEF FrameInv, SchedInv, StackInv, UserCode
<1>6. CloserInv'
  BY Zenon, <1>1, <1>5 DEF CloserInv, OnStack
<1>7. DataInv'
  <2>1. Quiet
    BY UserIsQuiet
  <2>2. QED BY <2>1 DEF DataInv, Quiet, is_empty
<1>8. QED BY <1>2, <1>3, <1>4, <1>6, <1>7 DEF ChanIInv, FrameInv

LEMMA CloseLoopInv ==
  ASSUME ChanIInv, close_loop
  PROVE  ChanIInv'
<1>. /\ FrameInv /\ DataInv /\ current \in closer /\ closed /\ on_bailout = "no"
     /\ UNCHANGED <<resume_code, cancel_fn, timer, call, lists, on_bailout,
                    data_queue, closed, opVars>>
  BY DEF ChanIInv, close_loop, FrameInv, CloserInv, SchedInv
<1>1. UserCode
  BY DEF UserCode, FrameInv, CloserInv
<1>2. data_queue' \in Seq(Vals)
  BY DEF FrameInv, ChanTypeOK
<1>3. CASE closer' = closer
  <2>1. Ends
    BY <1>1, <1>3, EndsByUser
  <2>2. \/ /\ producer_queue # <<>> /\ producer_queue' = Tail(producer_queue)
           /\ Wake(Head(producer_queue)) /\ UNCHANGED consumer_queue
        \/ /\ consumer_queue # <<>> /\ consumer_queue' = Tail(consumer_queue)
           /\ Wake(Head(consumer_queue)) /\ UNCHANGED producer_queue
    BY <1>3 DEF close_loop
  <2>3. FrameInv'
    BY <1>2, <2>1, <2>2, WakeHead
  <2>4. consumer_queue = <<>> => consumer_queue' = <<>>
    BY <2>2
  <2>5. QED BY <2>3, <2>4 DEF ChanIInv, DataInv, is_empty
<1>4. CASE closer' # closer
  <2>1. /\ producer_queue = <<>> /\ consumer_queue = <<>> /\ closer' = {} /\ waker' = "none"
        /\ UNCHANGED <<producer_queue, consumer_queue, swapVars>>
    BY <1>4 DEF close_loop
  <2>2. UNCHANGED <<current, origin, state, depth, user_yield_coros, inflight, pending, item, msg_error>>
    BY <2>1 DEF swapVars, lists, opVars
  <2>3. SchedInv'
    BY Zenon, <2>1, <2>2 DEF FrameInv, SchedInv, TypeOK, StackInv, OnStack, Wakers
  <2>4. ChanTypeOK' /\ QueueInv' /\ CloserInv'
    BY <2>1, <2>2 DEF FrameInv, ChanTypeOK, QueueInv, CloserInv
  <2>5. NoOpRuns
    BY Zenon, <1>1, UserIsQuiet
  <2>6. OpInv'
    BY <2>2, <2>5 DEF FrameInv, OpInv, NoOpRuns
  <2>7. DataInv'
    BY <2>1 DEF DataInv, is_empty
  <2>8. QED BY <2>3, <2>4, <2>6, <2>7 DEF ChanIInv, FrameInv
<1>5. QED BY Zenon, <1>3, <1>4

-----------------------------------------------------------------------------
(* The induction.                                                          *)
LEMMA ChanInitInv == ChanInit => ChanIInv
<1>. SUFFICES ASSUME ChanInit PROVE ChanIInv
  OBVIOUS
<1>. /\ CoInit /\ data_queue = <<>> /\ producer_queue = <<>> /\ consumer_queue = <<>>
     /\ closed = FALSE /\ closer = {} /\ pending = [c \in Cos |-> "none"]
     /\ item = [c \in Cos |-> "none"] /\ msg_error = [c \in Cos |-> FALSE]
  BY DEF ChanInit
<1>1. TypeOK /\ StackInv
  BY InitIInv DEF IInv
<1>2. SchedInv
  BY <1>1 DEF SchedInv, CoInit
<1>3. ChanTypeOK /\ DOMAIN producer_queue = {} /\ DOMAIN consumer_queue = {}
  <2>1. DOMAIN producer_queue = {} /\ DOMAIN consumer_queue = {}
    OBVIOUS
  <2>2. /\ data_queue \in Seq(Vals) /\ producer_queue \in Seq(Cos) /\ consumer_queue \in Seq(Cos)
        /\ closed \in BOOLEAN /\ closer \in SUBSET (Cos \cup {Main})
    <3>1. data_queue \in Seq(Vals) /\ producer_queue \in Seq(Cos) /\ consumer_queue \in Seq(Cos)
      OBVIOUS
    <3>2. closed \in BOOLEAN /\ closer \in SUBSET (Cos \cup {Main})
      BY Zenon
    <3>3. QED BY <3>1, <3>2
  <2>3. /\ pending \in [Cos -> {"none", "push", "pop"}]
        /\ item \in [Cos -> Vals \cup {"none"}] /\ msg_error \in [Cos -> BOOLEAN]
    OBVIOUS
  <2>4. QED BY <2>1, <2>2, <2>3 DEF ChanTypeOK
<1>4. QueueInv
  BY <1>3 DEF QueueInv, Once, In
<1>5. OpInv /\ CloserInv
  BY DEF OpInv, CloserInv, CoInit
<1>6. Len(data_queue) = 0 /\ Capacity \in Nat
  BY CapacityAssumption
<1>7. ~Resumed /\ Quiet
  BY MainAssumption DEF Resumed, Quiet, CoInit
<1>8. DataInv
  BY <1>6, <1>7 DEF DataInv
<1>9. QED BY <1>2, <1>3, <1>4, <1>5, <1>8 DEF ChanIInv, FrameInv

LEMMA ElseInv ==
  ASSUME ChanIInv, ChanCoStep
  PROVE  ChanIInv'
<1>1. FrameInv' /\ NoOpRuns /\ NoOpRuns' /\ UNCHANGED <<queues, closer, opVars>>
  BY FrameElse DEF ChanIInv
<1>2. UNCHANGED <<data_queue, producer_queue, consumer_queue, closed>>
  BY <1>1 DEF queues
<1>3. ~Resumed' /\ (~closed => Quiet)
  BY <1>1 DEF NoOpRuns, Resumed, ChanIInv, DataInv
<1>4. DataInv'
  BY <1>2, <1>3, DataSame DEF ChanIInv
<1>5. QED BY <1>1, <1>4 DEF ChanIInv

LEMMA ChanStepInv == ChanIInv /\ [ChanNext]_chanVars => ChanIInv'
<1>. SUFFICES ASSUME ChanIInv, [ChanNext]_chanVars PROVE ChanIInv'
  OBVIOUS
<1>1. CASE ChanCoStep
  BY <1>1, ElseInv
<1>2. ASSUME NEW t \in Timeouts, pop(t) \/ \E v \in Vals : push(v, t) PROVE ChanIInv'
  BY <1>2, PopInv, PushInv
<1>3. CASE after_push \/ after_pop
  BY <1>3, AfterPushInv, AfterPopInv
<1>4. ASSUME NEW c \in Cos, chan_timer_callback(c) \/ chan_cancel(c) PROVE ChanIInv'
  BY <1>4, AsideInv
<1>5. CASE chan_close \/ close_loop
  BY <1>5, CloseInv, CloseLoopInv
<1>6. CASE UNCHANGED chanVars
  BY <1>6, InvStutters
<1>7. QED BY <1>1, <1>2, <1>3, <1>4, <1>5, <1>6 DEF ChanNext

LEMMA ChanInvariance == ChanSpec => []ChanIInv
<1>1. QED BY ChanInitInv, ChanStepInv, PTL DEF ChanSpec

LEMMA ChanInvImplies == ChanIInv => QueuesMatchWaits
<1>. SUFFICES ASSUME ChanIInv PROVE QueuesMatchWaits
  OBVIOUS
<1>. FrameInv /\ DataInv /\ ChanTypeOK /\ OpInv /\ QueueInv /\ CloserInv
  BY DEF ChanIInv, FrameInv
<1>1. NoLostWakeup
  <2>1. ~closed /\ (current \in Cos => pending[current] = "none") => Quiet
    BY DEF DataInv, Resumed
  <2>2. closed /\ closer = {} => \A c \in Cos : pending[c] # "none" => current = c
    <3>. SUFFICES ASSUME closed, closer = {}, NEW c \in Cos, pending[c] # "none"
                  PROVE  current = c
      OBVIOUS
    <3>1. ~In(producer_queue, c) /\ ~In(consumer_queue, c)
      BY Zenon, QueueEmpty DEF CloserInv, ChanTypeOK
    <3>2. pending[c] \in {"push", "pop"}
      BY DEF ChanTypeOK
    <3>3. QED BY <3>1, <3>2 DEF QueueInv
  <2>3. QED BY <2>1, <2>2 DEF NoLostWakeup, Quiet
<1>2. VerdictMatchesWaker
  <2>. SUFFICES ASSUME NEW c \in Cos, current = c, pending[c] # "none"
       PROVE  LET verdict == Verdict(c, closed /\ (pending[c] = "pop" => is_empty)) IN
              /\ verdict = "timeout" <=> waker = "timer"
              /\ verdict = "canceled" <=> waker = "cancel"
              /\ verdict = "ok" /\ pending[c] = "pop" => ~is_empty
              /\ verdict = "ok" /\ pending[c] = "push" => Len(data_queue) < Capacity
    BY ZenonT(30) DEF VerdictMatchesWaker
  <2>. DEFINE lost == closed /\ (pending[c] = "pop" => is_empty)
              verdict == Verdict(c, lost)
  <2>. lost \in BOOLEAN /\ Woken(c) /\ Capacity \in Nat
    BY Zenon, CapacityAssumption DEF OpInv
  <2>1. (verdict = "timeout" <=> waker = "timer") /\ (verdict = "canceled" <=> waker = "cancel")
    <3>. HIDE DEF lost
    <3>1. QED BY DEF Verdict, Woken
  <2>2. verdict = "ok" => ~lost /\ (~closed => HandOver)
    <3>. HIDE DEF lost
    <3>1. QED BY VerdictOk
  <2>3. verdict = "ok" /\ pending[c] = "pop" => ~is_empty
    <3>1. HandOver /\ pending[c] = "pop" => ~is_empty
      BY DEF HandOver, is_empty
    <3>. HIDE DEF verdict
    <3>2. QED BY <2>2, <3>1
  <2>4. verdict = "ok" /\ pending[c] = "push" => Len(data_queue) < Capacity
    <3>1. HandOver /\ pending[c] = "push" => Len(data_queue) < Capacity
      BY DEF HandOver
    <3>. HIDE DEF verdict
    <3>2. QED BY <2>2, <3>1
  <2>5. QED BY <2>1, <2>3, <2>4
<1>3. ASSUME NEW c \in Cos
      PROVE  /\ Entries(producer_queue, c) # {} <=> pending[c] = "push" /\ current # c
             /\ Entries(consumer_queue, c) # {} <=> pending[c] = "pop" /\ current # c
             /\ \A i, j \in Entries(producer_queue, c) : i = j
             /\ \A i, j \in Entries(consumer_queue, c) : i = j
  <2>1. /\ Entries(producer_queue, c) # {} <=> In(producer_queue, c)
        /\ Entries(consumer_queue, c) # {} <=> In(consumer_queue, c)
    BY Zenon DEF Entries, In
  <2>2. /\ \A i, j \in Entries(producer_queue, c) : i = j
        /\ \A i, j \in Entries(consumer_queue, c) : i = j
    BY DEF Entries, QueueInv, Once
  <2>3. QED BY <2>1, <2>2 DEF QueueInv
<1>4. QED BY <1>1, <1>2, <1>3 DEF QueuesMatchWaits

(* A coroutine is in a wait queue exactly while it is suspended there,     *)
(* nobody waits for what is there, and a waiter that runs again is told    *)
(* the truth: push(), pop(), cancel(), the timer and the loop of close()   *)
(* keep this for any number of coroutines and any capacity.                *)
THEOREM WaitersAreQueued == ChanSpec => []QueuesMatchWaits
<1>1. QED BY ChanInvariance, ChanInvImplies, PTL

-----------------------------------------------------------------------------
(* The refinement.                                                         *)
LEMMA ReturnIdle ==
  ASSUME ChanTypeOK, NEW c \in Cos, pending[c] = "none", item[c] = "none"
  PROVE  /\ pending = [pending EXCEPT ![c] = "none"]
         /\ item = [item EXCEPT ![c] = "none"]
BY DEF ChanTypeOK

LEMMA PushSimulates ==
  ASSUME ChanIInv, NEW v \in Vals, NEW t \in Timeouts, push(v, t)
  PROVE  Abstract!Next \/ UNCHANGED Abstract!absVars
<1>. DEFINE c == current
<1>. /\ UserCode /\ c \in Cos /\ FrameInv /\ DataInv /\ ChanTypeOK /\ call[c] = "none"
     /\ Capacity \in Nat /\ Len(data_queue) \in Nat
  BY CapacityAssumption DEF push, ChanUserCode, UserCode, ChanIInv, FrameInv, ChanTypeOK
<1>1. pending[c] = "none" /\ item[c] = "none"
  BY Zenon DEF FrameInv, OpInv
<1>2. CASE UNCHANGED <<swapVars, waitVars, queues, opVars>>
  BY <1>2 DEF queues, opVars, Abstract!absVars
<1>3. CASE ~closed /\ (is_full \/ producer_queue # <<>>) /\ chan_yield(c, "push", v, t)
  <2>1. is_full
    BY <1>3, UserIsQuiet DEF Quiet
  <2>2. /\ pending' = [pending EXCEPT ![c] = "push"] /\ item' = [item EXCEPT ![c] = v]
        /\ UNCHANGED <<data_queue, closed>>
    BY <1>3 DEF chan_yield
  <2>3. Abstract!WaitPush(c, v)
    BY <1>1, <1>3, <2>1, <2>2 DEF Abstract!WaitPush, is_full
  <2>4. QED BY <2>3 DEF Abstract!Next
<1>4. CASE /\ ~closed /\ ~is_full /\ producer_queue = <<>> /\ push_data(v)
           /\ UNCHANGED <<resume_code, cancel_fn, timer, call, opVars>>
  <2>1. data_queue' = Append(data_queue, v) /\ UNCHANGED <<closed, pending, item>>
    BY <1>4 DEF push_data, opVars
  <2>2. Len(data_queue) < Capacity
    BY <1>4 DEF DataInv, is_full
  <2>3. \A r \in Cos : ~In(producer_queue, r)
    BY Zenon, <1>4, QueueEmpty DEF ChanTypeOK
  <2>4. \A r \in Cos : pending[r] # "push"
    BY Zenon, <1>1, <2>3 DEF FrameInv, QueueInv
  <2>5. Abstract!Return(c)
    BY Zenon, <1>1, <2>1, ReturnIdle DEF Abstract!Return
  <2>6. Abstract!Enqueue(c, v)
    BY Zenon, <1>1, <1>4, <2>1, <2>2, <2>4, <2>5 DEF Abstract!Enqueue
  <2>7. QED BY <2>6 DEF Abstract!Next
<1>5. QED BY <1>2, <1>3, <1>4 DEF push

LEMMA PopSimulates ==
  ASSUME ChanIInv, NEW t \in Timeouts, pop(t)
  PROVE  Abstract!Next \/ UNCHANGED Abstract!absVars
<1>. DEFINE c == current
<1>. /\ UserCode /\ c \in Cos /\ FrameInv /\ ChanTypeOK /\ call[c] = "none"
     /\ data_queue \in Seq(Vals)
  BY DEF pop, ChanUserCode, UserCode, ChanIInv, FrameInv, ChanTypeOK
<1>1. pending[c] = "none" /\ item[c] = "none"
  BY Zenon DEF FrameInv, OpInv
<1>2. CASE UNCHANGED <<swapVars, waitVars, queues, opVars>>
  BY <1>2 DEF queues, opVars, Abstract!absVars
<1>3. CASE /\ ~(closed /\ is_empty) /\ (is_empty \/ consumer_queue # <<>>)
           /\ chan_yield(c, "pop", "none", t)
  <2>1. ~closed /\ is_empty
    BY <1>3, PopWaits
  <2>2. /\ pending' = [pending EXCEPT ![c] = "pop"] /\ item' = [item EXCEPT ![c] = "none"]
        /\ UNCHANGED <<data_queue, closed>>
    BY <1>3 DEF chan_yield
  <2>3. item' = item
    BY <1>1, <2>2, ReturnIdle
  <2>4. data_queue = <<>>
    BY <2>1 DEF is_empty
  <2>5. Abstract!WaitPop(c)
    BY <1>1, <2>1, <2>2, <2>3, <2>4 DEF Abstract!WaitPop
  <2>6. QED BY <2>5 DEF Abstract!Next
<1>4. CASE /\ ~is_empty /\ consumer_queue = <<>> /\ pop_data
           /\ UNCHANGED <<resume_code, cancel_fn, timer, call, opVars>>
  <2>1. data_queue' = Tail(data_queue) /\ UNCHANGED <<closed, pending, item>>
    BY <1>4 DEF pop_data, opVars
  <2>2. data_queue # <<>>
    BY <1>4 DEF is_empty
  <2>3. \A r \in Cos : ~In(consumer_queue, r)
    BY Zenon, <1>4, QueueEmpty DEF ChanTypeOK
  <2>4. \A r \in Cos : pending[r] # "pop"
    BY Zenon, <1>1, <2>3 DEF FrameInv, QueueInv
  <2>5. Abstract!Return(c)
    BY <1>1, <2>1, ReturnIdle DEF Abstract!Return
  <2>6. Abstract!Dequeue(c)
    BY Zenon, <1>1, <2>1, <2>2, <2>4, <2>5 DEF Abstract!Dequeue
  <2>7. QED BY <2>6 DEF Abstract!Next
<1>5. QED BY Zenon, <1>2, <1>3, <1>4 DEF pop

LEMMA AfterSimulates ==
  ASSUME ChanIInv, after_push \/ after_pop
  PROVE  Abstract!Next \/ UNCHANGED Abstract!absVars
<1>. DEFINE c == current
<1>. /\ c \in Cos /\ pending[c] # "none" /\ Finish(c) /\ FrameInv /\ ChanTypeOK
     /\ data_queue \in Seq(Vals) /\ closed \in BOOLEAN /\ (closed /\ is_empty) \in BOOLEAN
     /\ Capacity \in Nat
  BY CapacityAssumption DEF after_push, after_pop, ChanIInv, FrameInv, ChanTypeOK
<1>1. Abstract!Return(c)
  BY DEF Finish, Abstract!Return
<1>2. CASE GiveUp
  <2>1. Abstract!GiveUp(c)
    BY <1>1, <1>2 DEF GiveUp, queues, Abstract!GiveUp
  <2>2. QED BY <2>1 DEF Abstract!Next
<1>3. CASE pending[c] = "push" /\ Verdict(c, closed) = "ok" /\ push_data(item[c])
  <2>1. ~closed /\ HandOver
    BY Zenon, <1>3, VerdictOk
  <2>2. Len(data_queue) < Capacity
    <3>1. Len(data_queue) = Capacity - 1
      BY Zenon, <1>3, <2>1 DEF HandOver
    <3>2. QED BY <3>1
  <2>3. item[c] \in Vals /\ data_queue' = Append(data_queue, item[c]) /\ UNCHANGED closed
    BY Zenon, <1>3 DEF push_data, FrameInv, OpInv
  <2>4. Abstract!Enqueue(c, item[c])
    BY Zenon, <1>1, <1>3, <2>1, <2>2, <2>3 DEF Abstract!Enqueue
  <2>5. QED BY Zenon, <2>3, <2>4 DEF Abstract!Next
<1>4. CASE pending[c] = "pop" /\ Verdict(c, closed /\ is_empty) = "ok" /\ pop_data
  <2>1. ~(closed /\ is_empty) /\ (~closed => HandOver)
    BY <1>4, VerdictOk
  <2>2. data_queue # <<>>
    <3>1. ~closed => Len(data_queue) = 1
      BY <1>4, <2>1, Zenon DEF HandOver
    <3>2. CASE closed
      BY <2>1, <3>2 DEF is_empty
    <3>3. CASE ~closed
      <4>1. Len(data_queue) = 1
        BY <3>1, <3>3, Zenon
      <4>2. QED BY <4>1
    <3>4. QED BY <3>2, <3>3
  <2>3. data_queue' = Tail(data_queue) /\ UNCHANGED closed
    BY <1>4 DEF pop_data
  <2>4. Abstract!Dequeue(c)
    BY <1>1, <1>4, <2>2, <2>3 DEF Abstract!Dequeue
  <2>5. QED BY <2>4 DEF Abstract!Next
<1>5. QED BY <1>2, <1>3, <1>4 DEF after_push, after_pop

LEMMA StepSimulates ==
  ASSUME ChanIInv, [ChanNext]_chanVars
  PROVE  [Abstract!Next]_(Abstract!absVars)
<1>1. ASSUME NEW t \in Timeouts, pop(t) \/ \E v \in Vals : push(v, t)
      PROVE  [Abstract!Next]_(Abstract!absVars)
  BY <1>1, PopSimulates, PushSimulates
<1>2. CASE after_push \/ after_pop
  BY <1>2, AfterSimulates
<1>3. CASE chan_close
  BY <1>3 DEF chan_close, opVars, Abstract!Next, Abstract!Close
<1>4. CASE \/ ChanCoStep \/ close_loop \/ UNCHANGED chanVars
           \/ \E c \in Cos : chan_timer_callback(c) \/ chan_cancel(c)
  <2>1. UNCHANGED <<data_queue, closed, pending, item>>
    BY Zenon, <1>4 DEF ChanCoStep, close_loop, chanVars, queues, opVars, chan_timer_callback, chan_cancel
  <2>2. QED BY <2>1 DEF Abstract!absVars
<1>5. QED BY <1>1, <1>2, <1>3, <1>4 DEF ChanNext

(* The channel implements the atomic bounded FIFO queue: with any number   *)
(* of coroutines and however their resumes nest, push(), pop() and close() *)
(* take effect at one point, in order, and fail only for the reasons the   *)
(* interface names.                                                        *)
THEOREM ChannelIsBoundedQueue == ChanSpec => ImplementsBoundedChannel
<1>1. ChanInit => Abstract!Init
  BY DEF ChanInit, Abstract!Init
<1>2. ChanIInv /\ [ChanNext]_chanVars => [Abstract!Next]_(Abstract!absVars)
  BY StepSimulates
<1>3. QED
  BY <1>1, <1>2, ChanInvariance, PTL DEF ChanSpec, ImplementsBoundedChannel, Abstract!Spec

-----------------------------------------------------------------------------
(* The PostgreSQL client.  The kind of the request, which decides how an   *)
(* answer is parsed, fits the call that waits for it; ...                  *)
PgTypes ==
  /\ conn \in {"none", "connecting", "ok"}
  /\ pgcall \in {"idle", "connect", "query", "prepare", "execute", "metaData", "dealloc"}
  /\ event \in {"none", "read", "write"} /\ co \in BOOLEAN
  /\ reply \in {"none", "ok", "error"} /\ request_success \in BOOLEAN /\ twice \in BOOLEAN
  /\ cmd \in Nat /\ sent \in Nat /\ result \in Nat
  /\ stmts \in [Stmts -> [alive : BOOLEAN, named : BOOLEAN, result : Nat, by : Nat]]
  /\ cleared \subseteq Nat \ {0}

CallMatches ==
  /\ pgcall = "connect" <=> conn = "connecting"
  /\ pgcall \in {"query", "execute", "dealloc"} => request_type = "NORMAL_QUERY"
  /\ pgcall = "prepare" => request_type = "PREPARE"
  /\ pgcall = "metaData" => request_type = "META_DATA"
  /\ pgcall = "execute" => subject \in Stmts

(* ... and the result of the command in progress is nowhere yet.           *)
Numbered ==
  /\ cmd <= sent
  /\ \A n \in cleared : n <= sent /\ n # cmd
  /\ \A s \in Stmts : stmts[s].result <= sent /\ (stmts[s].result # 0 => stmts[s].result # cmd)

WaitMatches ==
  /\ co <=> event # "none"
  /\ co <=> pgcall # "idle"

Owned ==
  /\ \A s \in Stmts : stmts[s].alive => stmts[s].result = stmts[s].by
  /\ ~twice
  /\ \A s \in Stmts : stmts[s].result \notin cleared
  /\ \A s, t \in Stmts : s # t /\ stmts[s].result # 0 => stmts[s].result # stmts[t].result

PgIInv == PgTypes /\ CallMatches /\ Numbered /\ WaitMatches /\ Owned

LEMMA PgSame ==
  ASSUME Owned, Numbered, UNCHANGED <<stmts, cleared, twice, sent>>, cmd' \in {0, cmd}, PgTypes
  PROVE  Owned' /\ Numbered'
<1>1. Owned'
  BY DEF Owned
<1>2. Numbered'
  BY DEF Numbered, PgTypes
<1>3. QED BY Zenon, <1>1, <1>2

(* What SendCommand() does to the call and to the number of the command.   *)
LEMMA PgSend ==
  ASSUME PgTypes, CallMatches, WaitMatches, UNCHANGED conn,
         NEW type \in {"query", "prepare", "execute", "dealloc"}, NEW s, NEW request,
         SendCommand(type, s, request),
         request = IF type = "prepare" THEN "PREPARE" ELSE "NORMAL_QUERY",
         type = "execute" => s \in Stmts
  PROVE  /\ CallMatches' /\ WaitMatches'
         /\ pgcall' \in {"idle", type} /\ event' \in {"none", "read", "write"} /\ co' \in BOOLEAN
         /\ reply' \in {"none", "ok", "error"}
         /\ \/ cmd' = 0 /\ sent' = sent
            \/ sent' = sent + 1 /\ cmd' = sent + 1
<1>1. conn = "ok" /\ pgcall = "idle" /\ request_type' = request
  BY DEF SendCommand
<1>2. CASE cmd' = 0 /\ reply' = "none" /\ UNCHANGED <<pgcall, subject, event, co, sent>>
  BY <1>1, <1>2 DEF CallMatches, WaitMatches, PgTypes
<1>3. CASE /\ sent' = sent + 1 /\ cmd' = sent + 1 /\ reply' = "none" /\ pgcall' = type /\ subject' = s
           /\ Yield(IF unsent' THEN "write" ELSE "read")
  <2>1. event' \in {"read", "write"} /\ co' = TRUE
    BY <1>3 DEF Yield
  <2>2. WaitMatches'
    BY <1>3, <2>1 DEF WaitMatches
  <2>3. CallMatches'
    BY Zenon, <1>1, <1>3 DEF CallMatches
  <2>4. QED BY <1>3, <2>1, <2>2, <2>3
<1>4. QED BY <1>2, <1>3 DEF SendCommand

(* A new command gets a number that no result has.                         *)
LEMMA PgNumber ==
  ASSUME PgTypes, Numbered,
         \/ cmd' \in {0, cmd} /\ sent' = sent
         \/ sent' = sent + 1 /\ cmd' \in {0, sent + 1},
         \A n \in cleared' : n \in cleared \/ \E s \in Stmts : n = stmts[s].result /\ n # 0,
         cleared' \subseteq Nat \ {0},
         \A s \in Stmts : stmts'[s].result \in {0, stmts[s].result}
  PROVE  Numbered' /\ cmd' \in Nat /\ sent' \in Nat
<1>1. cmd \in Nat /\ sent \in Nat /\ cmd' \in Nat /\ sent' \in Nat
  BY DEF PgTypes
<1>2. cmd' <= sent'
  BY <1>1 DEF Numbered
<1>3. \A s \in Stmts : stmts[s].result \in Nat
  BY DEF PgTypes
<1>4. \A n \in Nat : n <= sent /\ (n # 0 => n # cmd) => n <= sent' /\ (n # 0 => n # cmd')
  BY <1>1
<1>5. \A n \in cleared' : n <= sent /\ n # cmd
  BY Zenon DEF Numbered
<1>6. \A n \in cleared' : n <= sent' /\ n # cmd'
  BY <1>4, <1>5
<1>7. \A s \in Stmts : stmts'[s].result <= sent /\ (stmts'[s].result # 0 => stmts'[s].result # cmd)
                       /\ stmts'[s].result \in Nat
  BY <1>1, <1>3 DEF Numbered
<1>8. QED BY Zenon, <1>1, <1>2, <1>4, <1>6, <1>7 DEF Numbered

LEMMA PgConnectInv ==
  ASSUME PgIInv, pg_connect \/ connect_callback
  PROVE  PgIInv'
<1>. PgTypes /\ CallMatches /\ Numbered /\ WaitMatches /\ Owned
  BY DEF PgIInv
<1>1. UNCHANGED <<stmts, cleared, twice, sent, result>> /\ cmd' \in {0, cmd}
  BY DEF pg_connect, connect_callback, libpq
<1>2. Owned' /\ Numbered'
  BY <1>1, PgSame
<1>3. CASE pg_connect
  <2>1. PgTypes'
    BY Zenon, <1>1, <1>3 DEF PgTypes, pg_connect, Yield
  <2>2. CallMatches' /\ WaitMatches'
    BY <1>3 DEF CallMatches, WaitMatches, pg_connect, Yield
  <2>3. QED BY Zenon, <1>2, <2>1, <2>2 DEF PgIInv
<1>4. CASE connect_callback
  <2>1. PgTypes'
    BY Zenon, <1>1, <1>4 DEF PgTypes, connect_callback, Return, libpq
  <2>2. CallMatches' /\ WaitMatches'
    BY Zenon, <1>4 DEF CallMatches, WaitMatches, PgTypes, connect_callback, Return
  <2>3. QED BY <1>2, <2>1, <2>2 DEF PgIInv
<1>5. QED BY <1>3, <1>4

LEMMA PgCommandInv ==
  ASSUME PgIInv, query \/ prepare \/ metaData \/ \E s \in Stmts : execute(s)
  PROVE  PgIInv'
<1>. PgTypes /\ CallMatches /\ Numbered /\ WaitMatches /\ Owned
  BY Zenon DEF PgIInv
<1>1. UNCHANGED <<conn, request_success, result, stmts, cleared, twice>>
  BY Zenon DEF query, prepare, metaData, execute
<1>2. /\ CallMatches' /\ WaitMatches'
      /\ pgcall' \in {"idle", "query", "prepare", "execute", "metaData", "dealloc"}
      /\ event' \in {"none", "read", "write"} /\ co' \in BOOLEAN
      /\ reply' \in {"none", "ok", "error"}
      /\ \/ cmd' \in {0, cmd} /\ sent' = sent
         \/ sent' = sent + 1 /\ cmd' \in {0, sent + 1}
  <2>1. CASE query
    <3>1. SendCommand("query", NoStmt, "NORMAL_QUERY")
      BY <2>1 DEF query
    <3>2. QED BY <1>1, <3>1, PgSend
  <2>2. CASE prepare
    <3>1. SendCommand("prepare", NoStmt, "PREPARE")
      BY Zenon, <2>2 DEF prepare
    <3>2. QED BY <1>1, <3>1, PgSend
  <2>3. CASE metaData
    <3>1. /\ conn = "ok" /\ request_type' = "META_DATA" /\ pgcall' = "metaData" /\ event' = "read"
          /\ co' = TRUE /\ reply' = "none" /\ sent' = sent + 1 /\ cmd' \in {0, sent + 1}
      BY <2>3 DEF metaData, Yield
    <3>2. QED BY <1>1, <3>1 DEF CallMatches, WaitMatches
  <2>4. ASSUME NEW s \in Stmts, execute(s)
        PROVE  /\ CallMatches' /\ WaitMatches'
               /\ pgcall' \in {"idle", "query", "prepare", "execute", "metaData", "dealloc"}
               /\ event' \in {"none", "read", "write"} /\ co' \in BOOLEAN
               /\ reply' \in {"none", "ok", "error"}
               /\ \/ cmd' \in {0, cmd} /\ sent' = sent
                  \/ sent' = sent + 1 /\ cmd' \in {0, sent + 1}
    <3>1. CASE cmd = 0
      <4>1. SendCommand("execute", s, "NORMAL_QUERY")
        BY Zenon, <2>4, <3>1 DEF execute
      <4>2. QED BY Zenon, <1>1, <4>1, PgSend
    <3>2. CASE cmd # 0
      <4>1. /\ pgcall = "idle" /\ request_type' = "NORMAL_QUERY"
            /\ UNCHANGED <<pgcall, subject, event, co, cmd, reply, sent>>
        BY Zenon, <2>4, <3>2 DEF execute, libpq
      <4>2. QED BY <1>1, <4>1 DEF CallMatches, WaitMatches, PgTypes
    <3>3. QED BY <3>1, <3>2
  <2>5. QED BY Zenon, <2>1, <2>2, <2>3, <2>4
<1>3. Numbered' /\ cmd' \in Nat /\ sent' \in Nat
  BY Zenon, <1>1, <1>2, PgNumber DEF PgTypes
<1>4. Owned'
  BY <1>1 DEF Owned
<1>5. PgTypes'
  BY <1>1, <1>2, <1>3 DEF PgTypes
<1>6. QED BY <1>2, <1>3, <1>4, <1>5 DEF PgIInv

(* The answer of the command in progress is freed, ...                     *)
LEMMA PgCleared ==
  ASSUME PgTypes, Numbered, Owned, NEW k \in {{}, {cmd}}, PQclear(k), UNCHANGED <<stmts, sent>>, cmd' = 0
  PROVE  Owned' /\ Numbered' /\ cleared' \subseteq Nat \ {0} /\ twice' \in BOOLEAN
<1>1. /\ cleared' = cleared \cup (k \ {0}) /\ twice' = (twice \/ (k \ {0}) \cap cleared # {})
      /\ k \ {0} \subseteq {cmd}
  BY DEF PQclear
<1>2. (k \ {0}) \cap cleared = {} /\ ~twice
  BY <1>1 DEF Numbered, Owned
<1>3. twice' = FALSE
  BY Zenon, <1>1, <1>2
<1>4. \A s \in Stmts : stmts[s].result \notin k \ {0}
  BY Zenon, <1>1 DEF Numbered
<1>5. Owned'
  BY <1>1, <1>3, <1>4 DEF Owned
<1>6. cleared' \subseteq Nat \ {0}
  BY Zenon, <1>1 DEF PgTypes
<1>7. \A n \in cleared' : n <= sent /\ n # 0
  BY <1>1, <1>6 DEF Numbered, PgTypes
<1>8. Numbered'
  BY <1>7 DEF Numbered, PgTypes
<1>9. QED BY Zenon, <1>3, <1>5, <1>6, <1>8

(* ... or goes to a statement.                                             *)
LEMMA PgStored ==
  ASSUME PgTypes, Numbered, Owned, NEW k \in {{}, {cmd}}, PQclear(k), NEW s \in Stmts,
         NEW r \in {0, cmd}, r # 0 => k = {},
         stmts' \in [Stmts -> [alive : BOOLEAN, named : BOOLEAN, result : Nat, by : Nat]],
         stmts'[s].result = r, stmts'[s].by = r, \A t \in Stmts : t # s => stmts'[t] = stmts[t],
         cmd' = 0, sent' = sent
  PROVE  Owned' /\ Numbered' /\ cleared' \subseteq Nat \ {0} /\ twice' \in BOOLEAN
<1>1. /\ cleared' = cleared \cup (k \ {0}) /\ twice' = (twice \/ (k \ {0}) \cap cleared # {})
      /\ k \ {0} \subseteq {cmd}
  BY Zenon DEF PQclear
<1>2. (k \ {0}) \cap cleared = {} /\ ~twice
  BY <1>1 DEF Numbered, Owned
<1>3. twice' = FALSE
  BY Zenon, <1>1, <1>2
<1>4. cleared' \subseteq Nat \ {0} /\ cmd \in Nat /\ sent \in Nat /\ r \in Nat
  <2>1. cmd \in Nat /\ sent \in Nat /\ r \in Nat
    BY DEF PgTypes
  <2>2. cleared' \subseteq Nat \ {0}
    BY Zenon, <1>1, <2>1 DEF PgTypes
  <2>3. QED BY <2>1, <2>2
<1>5. r \notin cleared'
  <2>1. CASE r = 0
    BY Zenon, <1>4, <2>1
  <2>2. CASE r # 0
    <3>1. r = cmd /\ cleared' = cleared
      BY Zenon, <1>1, <2>2
    <3>2. QED BY Zenon, <3>1 DEF Numbered
  <2>3. QED BY Zenon, <2>1, <2>2
<1>6. \A t \in Stmts : t # s => /\ stmts'[t].result \notin cleared'
                                /\ stmts'[t].result # 0 => stmts'[t].result # r
  BY <1>1 DEF Numbered, Owned
<1>7. Owned'
  BY ZenonT(30), <1>3, <1>5, <1>6 DEF Owned
<1>8. \A n \in cleared' : n <= sent /\ n # 0
  BY <1>1, <1>4 DEF Numbered
<1>9. r <= sent /\ \A t \in Stmts : t # s => stmts'[t].result <= sent
  BY <1>4 DEF Numbered
<1>10. Numbered'
  BY <1>4, <1>8, <1>9 DEF Numbered
<1>11. QED BY ZenonT(30), <1>3, <1>4, <1>7, <1>10

LEMMA PgDtorInv ==
  ASSUME PgIInv, NEW s \in Stmts, dtor(s)
  PROVE  PgIInv'
<1>. PgTypes /\ CallMatches /\ Numbered /\ WaitMatches /\ Owned
  BY Zenon DEF PgIInv
<1>. DEFINE k == {stmts[s].result} \ {0}
<1>1. /\ cleared' = cleared \cup k /\ twice' = (twice \/ k \cap cleared # {})
      /\ stmts' = [stmts EXCEPT ![s] = Fresh] /\ UNCHANGED <<conn, request_success, result>>
      /\ pgcall = "idle"
  BY Zenon DEF dtor, PQclear
<1>2. /\ stmts' \in [Stmts -> [alive : BOOLEAN, named : BOOLEAN, result : Nat, by : Nat]]
      /\ stmts'[s] = Fresh /\ \A t \in Stmts : t # s => stmts'[t] = stmts[t]
  BY <1>1 DEF PgTypes, Fresh
<1>3. Fresh.result = 0 /\ ~Fresh.alive
  BY DEF Fresh
<1>4. k \cap cleared = {} /\ ~twice'
  BY Zenon, <1>1 DEF Owned
<1>5. cleared' \subseteq Nat \ {0}
  BY ZenonT(30), <1>1 DEF PgTypes
<1>6. Owned'
  <2>1. \A t \in Stmts : t # s => stmts[t].result \notin k
    BY Zenon DEF Owned
  <2>2. \A t \in Stmts : stmts'[t].result \notin cleared'
    BY Zenon, <1>1, <1>2, <1>3, <1>5, <2>1 DEF Owned
  <2>3. \A t, u \in Stmts : t # u /\ stmts'[t].result # 0 => stmts'[t].result # stmts'[u].result
    BY <1>2, <1>3 DEF Owned
  <2>4. \A t \in Stmts : stmts'[t].alive => stmts'[t].result = stmts'[t].by
    BY <1>2, <1>3 DEF Owned
  <2>5. QED BY <1>4, <2>2, <2>3, <2>4 DEF Owned
<1>7. /\ CallMatches' /\ WaitMatches' /\ pgcall' \in {"idle", "dealloc"}
      /\ event' \in {"none", "read", "write"} /\ co' \in BOOLEAN
      /\ reply' \in {"none", "ok", "error"}
      /\ \/ cmd' \in {0, cmd} /\ sent' = sent
         \/ sent' = sent + 1 /\ cmd' \in {0, sent + 1}
  <2>1. CASE conn = "ok" /\ stmts[s].named
    <3>1. SendCommand("dealloc", NoStmt, "NORMAL_QUERY")
      BY Zenon, <2>1 DEF dtor
    <3>2. QED BY <1>1, <3>1, PgSend
  <2>2. CASE ~(conn = "ok" /\ stmts[s].named)
    <3>1. UNCHANGED <<pgcall, subject, event, co, request_type, cmd, reply, sent>>
      BY Zenon, <2>2 DEF dtor, libpq
    <3>2. QED BY <1>1, <3>1 DEF CallMatches, WaitMatches, PgTypes
  <2>3. QED BY <2>1, <2>2
<1>8. Numbered' /\ cmd' \in Nat /\ sent' \in Nat
  <2>1. \A n \in cleared' : n \in cleared \/ \E t \in Stmts : n = stmts[t].result /\ n # 0
    BY <1>1
  <2>2. \A t \in Stmts : stmts'[t].result \in {0, stmts[t].result}
    BY Zenon, <1>2, <1>3
  <2>3. QED BY Zenon, <1>5, <1>7, <2>1, <2>2, PgNumber
<1>9. PgTypes'
  BY <1>1, <1>2, <1>4, <1>5, <1>7, <1>8 DEF PgTypes
<1>10. QED BY <1>6, <1>7, <1>8, <1>9 DEF PgIInv

(* Steps that make and free no result.                                     *)
LEMMA PgWaitInv ==
  ASSUME PgIInv, pg_close \/ pg_answers \/ onWritable \/ pg_gives_up
  PROVE  PgIInv'
<1>. PgTypes /\ CallMatches /\ Numbered /\ WaitMatches /\ Owned
  BY Zenon DEF PgIInv
<1>1. UNCHANGED <<request_type, request_success, sent, result, stmts, cleared, twice>> /\ cmd' \in {0, cmd}
  BY DEF pg_close, pg_answers, onWritable, pg_gives_up, libpq
<1>2. Owned' /\ Numbered'
  BY <1>1, PgSame
<1>3. CASE pg_close \/ pg_answers
  <2>1. /\ UNCHANGED <<pgcall, subject, event, co>> /\ reply' \in {"none", "ok", "error"}
        /\ conn' = conn \/ (conn = "ok" /\ conn' = "none")
    BY Zenon, <1>3 DEF pg_close, pg_answers
  <2>2. PgTypes'
    BY <1>1, <2>1 DEF PgTypes
  <2>3. CallMatches' /\ WaitMatches'
    BY Zenon, <1>1, <2>1 DEF CallMatches, WaitMatches
  <2>4. QED BY Zenon, <1>2, <2>2, <2>3 DEF PgIInv
<1>4. CASE onWritable
  <2>1. /\ conn = "ok" /\ event = "write" /\ UNCHANGED <<conn, reply>>
        /\ \/ event' \in {"read", "write"} /\ co' = TRUE /\ UNCHANGED <<pgcall, subject>>
           \/ Return
    BY Zenon, <1>4 DEF onWritable, Yield
  <2>2. PgTypes'
    <3>1. /\ pgcall' \in {pgcall, "idle"} /\ event' \in {"none", "read", "write"}
          /\ conn' \in {"none", "connecting", "ok"} /\ reply' = reply
      BY <2>1 DEF PgTypes, Return
    <3>2. co' \in BOOLEAN
      BY Zenon, <2>1 DEF Return
    <3>3. cmd' \in Nat
      BY <1>1 DEF PgTypes
    <3>4. QED BY <1>1, <3>1, <3>2, <3>3 DEF PgTypes
  <2>3. CallMatches' /\ WaitMatches'
    BY Zenon, <1>1, <2>1 DEF CallMatches, WaitMatches, Return
  <2>4. QED BY <1>2, <2>2, <2>3 DEF PgIInv
<1>5. CASE pg_gives_up
  <2>1. Return /\ conn' = (IF conn = "connecting" THEN "none" ELSE conn) /\ UNCHANGED reply
    BY <1>5 DEF pg_gives_up, libpq
  <2>2. PgTypes'
    <3>1. /\ pgcall' \in {pgcall, "idle"} /\ event' \in {"none", "read", "write"}
          /\ conn' \in {"none", "connecting", "ok"} /\ reply' = reply
      BY <2>1 DEF PgTypes, Return
    <3>2. co' \in BOOLEAN
      BY Zenon, <2>1 DEF Return
    <3>3. cmd' \in Nat
      BY <1>1 DEF PgTypes
    <3>4. QED BY <1>1, <3>1, <3>2, <3>3 DEF PgTypes
  <2>3. CallMatches' /\ WaitMatches'
    BY <1>1, <2>1 DEF CallMatches, WaitMatches, Return
  <2>4. QED BY <1>2, <2>2, <2>3 DEF PgIInv
<1>6. QED BY <1>3, <1>4, <1>5

(* An answer is parsed as its request asks for, and leaves its result with *)
(* a statement, with the connection object, or nowhere.                    *)
LEMMA PgReadableInv ==
  ASSUME PgIInv, onReadable
  PROVE  PgIInv'
<1>. PgTypes /\ CallMatches /\ Numbered /\ WaitMatches /\ Owned
  BY DEF PgIInv
<1>1. /\ conn = "ok" /\ event = "read" /\ reply \in {"ok", "error"} /\ cmd' = 0 /\ reply' = "none"
      /\ UNCHANGED <<conn, request_type, sent>>
  BY DEF onReadable, PgTypes
<1>2. pgcall \in {"query", "prepare", "execute", "metaData", "dealloc"}
  BY <1>1 DEF CallMatches, WaitMatches, PgTypes
<1>. DEFINE StmtType == [alive : BOOLEAN, named : BOOLEAN, result : Nat, by : Nat]
<1>3. ASSUME Return, request_success' \in BOOLEAN, result' \in Nat, stmts' \in [Stmts -> StmtType],
             Owned', Numbered', cleared' \subseteq Nat \ {0}, twice' \in BOOLEAN
      PROVE  PgIInv'
  <2>1. pgcall' = "idle" /\ event' = "none" /\ co' = FALSE
    BY <1>3 DEF Return
  <2>2. PgTypes'
    BY Zenon, <1>1, <1>3, <2>1 DEF PgTypes
  <2>3. CallMatches' /\ WaitMatches'
    BY <1>1, <2>1 DEF CallMatches, WaitMatches
  <2>4. QED BY <1>3, <2>2, <2>3 DEF PgIInv
<1>4. CASE request_type = "NORMAL_QUERY" /\ query_result_parse /\ Return
  <2>1. pgcall \in {"query", "execute", "dealloc"}
    BY <1>2, <1>4 DEF CallMatches
  <2>2. CASE request_success' = FALSE /\ PQclear({cmd}) /\ UNCHANGED result /\ AfterQuery
    <3>1. UNCHANGED stmts
      BY <2>2 DEF AfterQuery
    <3>2. Owned' /\ Numbered' /\ cleared' \subseteq Nat \ {0} /\ twice' \in BOOLEAN
      BY <1>1, <2>2, <3>1, PgCleared
    <3>3. request_success' \in BOOLEAN /\ result' \in Nat /\ stmts' \in [Stmts -> StmtType]
      BY Zenon, <2>2, <3>1 DEF PgTypes
    <3>4. QED BY <1>3, <1>4, <3>2, <3>3
  <2>3. CASE request_success' = TRUE /\ AfterQuery /\ pgcall = "dealloc" /\ PQclear({cmd}) /\ result' = 0
    <3>1. UNCHANGED stmts
      BY <2>3 DEF AfterQuery
    <3>2. Owned' /\ Numbered' /\ cleared' \subseteq Nat \ {0} /\ twice' \in BOOLEAN
      BY <1>1, <2>3, <3>1, PgCleared
    <3>3. request_success' \in BOOLEAN /\ result' \in Nat /\ stmts' \in [Stmts -> StmtType]
      BY Zenon, <2>3, <3>1 DEF PgTypes
    <3>4. QED BY <1>3, <1>4, <3>2, <3>3
  <2>4. CASE request_success' = TRUE /\ AfterQuery /\ pgcall # "dealloc" /\ PQclear({}) /\ result' = cmd
    <3>1. PICK s \in Stmts :
            /\ stmts' \in [Stmts -> StmtType] /\ stmts'[s].result = cmd /\ stmts'[s].by = cmd
            /\ \A t \in Stmts : t # s => stmts'[t] = stmts[t]
      <4>1. CASE pgcall = "query"
        <5>1. NewStmt(FALSE)
          BY Zenon, <2>4, <4>1 DEF AfterQuery
        <5>2. PICK s \in Stmts :
                stmts' = [stmts EXCEPT ![s] = [alive |-> TRUE, named |-> FALSE, result |-> cmd, by |-> cmd]]
          BY Zenon, <2>4, <5>1 DEF NewStmt
        <5>3. QED BY <5>2 DEF PgTypes
      <4>2. CASE pgcall = "execute"
        <5>1. stmts' = [stmts EXCEPT ![subject].result = cmd, ![subject].by = cmd] /\ subject \in Stmts
          BY <2>4, <4>2 DEF AfterQuery, CallMatches
        <5>2. stmts' = [stmts EXCEPT ![subject] = [stmts[subject] EXCEPT !.result = cmd, !.by = cmd]]
          BY Zenon, <5>1 DEF PgTypes
        <5>3. /\ [stmts[subject] EXCEPT !.result = cmd, !.by = cmd] \in StmtType
              /\ [stmts[subject] EXCEPT !.result = cmd, !.by = cmd].result = cmd
              /\ [stmts[subject] EXCEPT !.result = cmd, !.by = cmd].by = cmd
          BY ZenonT(30), <5>1 DEF PgTypes
        <5>4. QED BY <5>1, <5>2, <5>3 DEF PgTypes
      <4>3. QED BY Zenon, <2>1, <2>4, <4>1, <4>2
    <3>. HIDE DEF StmtType
    <3>2. Owned' /\ Numbered' /\ cleared' \subseteq Nat \ {0} /\ twice' \in BOOLEAN
      BY <1>1, <2>4, <3>1, PgStored DEF StmtType
    <3>3. request_success' \in BOOLEAN /\ result' \in Nat
      BY <2>4 DEF PgTypes
    <3>4. QED BY Zenon, <1>3, <1>4, <3>1, <3>2, <3>3
  <2>5. QED BY Zenon, <1>4, <2>2, <2>3, <2>4 DEF query_result_parse
<1>5. CASE request_type = "PREPARE" /\ prepare_result_parse /\ Return
  <2>1. request_success' \in BOOLEAN /\ PQclear({cmd}) /\ result' \in Nat
    BY <1>5 DEF prepare_result_parse, PgTypes
  <2>2. CASE UNCHANGED stmts
    <3>1. Owned' /\ Numbered' /\ cleared' \subseteq Nat \ {0} /\ twice' \in BOOLEAN
      BY <1>1, <2>1, <2>2, PgCleared
    <3>2. stmts' \in [Stmts -> StmtType]
      BY Zenon, <2>2 DEF PgTypes
    <3>3. QED BY Zenon, <1>3, <1>5, <2>1, <3>1, <3>2
  <2>3. CASE NewStmt(TRUE)
    <3>1. PICK s \in Stmts :
            stmts' = [stmts EXCEPT ![s] = [alive |-> TRUE, named |-> TRUE, result |-> 0, by |-> 0]]
      BY Zenon, <2>3 DEF NewStmt
    <3>2. /\ stmts' \in [Stmts -> StmtType] /\ stmts'[s].result = 0 /\ stmts'[s].by = 0
          /\ \A t \in Stmts : t # s => stmts'[t] = stmts[t]
      BY Zenon, <3>1 DEF PgTypes
    <3>. HIDE DEF StmtType
    <3>3. Owned' /\ Numbered' /\ cleared' \subseteq Nat \ {0} /\ twice' \in BOOLEAN
      BY <1>1, <2>1, <3>2, PgStored DEF StmtType
    <3>4. QED BY <1>3, <1>5, <2>1, <3>2, <3>3
  <2>4. QED BY Zenon, <1>5, <2>2, <2>3 DEF prepare_result_parse
<1>6. CASE request_type = "META_DATA" /\ meta_data_result_parse
  <2>1. /\ UNCHANGED <<request_success, stmts, cleared, twice>>
        /\ \/ result' = cmd /\ Return
           \/ UNCHANGED <<pgcall, subject, event, co, result>>
    BY <1>6 DEF meta_data_result_parse
  <2>2. Owned' /\ Numbered'
    BY Zenon, <1>1, <2>1, PgSame
  <2>3. /\ request_success' \in BOOLEAN /\ stmts' \in [Stmts -> StmtType]
        /\ cleared' \subseteq Nat \ {0} /\ twice' \in BOOLEAN
    BY <2>1 DEF PgTypes
  <2>4. CASE result' = cmd /\ Return
    <3>1. result' \in Nat
      BY <2>4 DEF PgTypes
    <3>2. QED BY Zenon, <1>3, <2>2, <2>3, <2>4, <3>1
  <2>5. CASE UNCHANGED <<pgcall, subject, event, co, result>>
    <3>1. PgTypes'
      BY Zenon, <1>1, <2>3, <2>5 DEF PgTypes
    <3>2. CallMatches' /\ WaitMatches'
      BY <1>1, <2>5 DEF CallMatches, WaitMatches
    <3>3. QED BY Zenon, <2>2, <3>1, <3>2 DEF PgIInv
  <2>6. QED BY <2>1, <2>4, <2>5
<1>7. QED BY <1>4, <1>5, <1>6 DEF onReadable

LEMMA PgInitInv == PgInit => PgIInv
<1>1. SUFFICES ASSUME PgInit PROVE PgIInv
  OBVIOUS
<1>2. PgTypes
  BY Zenon, <1>1 DEF PgInit, PgTypes, Fresh
<1>3. \A s \in Stmts : ~stmts[s].alive /\ stmts[s].result = 0
  BY <1>1 DEF PgInit, Fresh
<1>4. CallMatches /\ WaitMatches
  BY <1>1 DEF PgInit, CallMatches, WaitMatches
<1>5. Numbered /\ Owned
  BY <1>1, <1>3 DEF PgInit, Numbered, Owned
<1>6. QED BY <1>2, <1>4, <1>5 DEF PgIInv

LEMMA PgNextInv == PgIInv /\ [PgNext]_pgVars => PgIInv'
<1>1. SUFFICES ASSUME PgIInv, [PgNext]_pgVars PROVE PgIInv'
  OBVIOUS
<1>2. CASE pg_connect \/ connect_callback
  BY <1>1, <1>2, PgConnectInv
<1>3. CASE query \/ prepare \/ metaData \/ \E s \in Stmts : execute(s)
  BY <1>1, <1>3, PgCommandInv
<1>4. CASE \E s \in Stmts : dtor(s)
  BY <1>1, <1>4, PgDtorInv
<1>5. CASE pg_close \/ pg_answers \/ onWritable \/ pg_gives_up
  BY <1>1, <1>5, PgWaitInv
<1>6. CASE onReadable
  BY <1>1, <1>6, PgReadableInv
<1>7. CASE UNCHANGED pgVars
  BY ZenonT(30), <1>1, <1>7 DEF PgIInv, PgTypes, CallMatches, Numbered, WaitMatches, Owned, pgVars, libpq
<1>8. QED BY <1>1, <1>2, <1>3, <1>4, <1>5, <1>6, <1>7 DEF PgNext

(* A statement holds the result of the command that made or last executed  *)
(* it until its destructor frees it, and no result is freed twice,         *)
(* whichever calls failed, timed out or were refused before: Object and    *)
(* Statement of the PostgreSQL client, for any number of commands and      *)
(* statements.                                                             *)
THEOREM StatementsOwnResults == PgSpec => []OwnResult
<1>1. PgInit => PgIInv
  BY PgInitInv
<1>2. PgIInv /\ [PgNext]_pgVars => PgIInv'
  BY PgNextInv
<1>3. PgIInv => OwnResult
  BY DEF PgIInv, Owned, WaitMatches, OwnResult
<1>4. QED BY <1>1, <1>2, <1>3, PTL DEF PgSpec

=============================================================================
