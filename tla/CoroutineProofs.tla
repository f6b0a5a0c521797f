-------------------------- MODULE CoroutineProofs --------------------------
(***************************************************************************)
(* Proofs about the coroutine scheduler, for any set of coroutines.        *)
(*                                                                         *)
(* The lemmas on SwapIn and SwapOut are about the context switches alone;  *)
(* components built on the scheduler reuse them.                           *)
(***************************************************************************)
EXTENDS Coroutine, WaitQueue, TLAPS

SwapTypeOK ==
  /\ current \in Cos \cup {Main}
  /\ origin \in [Cos -> Cos \cup {Main}]
  /\ state \in [Cos -> States]
  /\ depth \in [Cos -> Nat]

(* Pushing a coroutine that does not run on top of the stack keeps the     *)
(* stack well formed: what resume() and create() rely on.                  *)
LEMMA SwapInStack ==
  ASSUME NEW c \in Cos, NEW st \in {"init", "running"},
         SwapTypeOK, StackInv, on_bailout = "no", on_bailout' = "no",
         ~OnStack(c), SwapIn(c, st)
  PROVE  SwapTypeOK' /\ StackInv'
<1>1. SwapTypeOK'
  BY MainAssumption DEF SwapTypeOK, SwapIn, States
<1>2. /\ current' = c
      /\ origin'[c] = current
      /\ depth'[c] = IF current = Main THEN 1 ELSE depth[current] + 1
      /\ OnStack(c)'
  BY DEF SwapTypeOK, SwapIn, OnStack
<1>3. \A b \in Cos : b # c => /\ origin'[b] = origin[b]
                              /\ depth'[b] = depth[b]
                              /\ OnStack(b)' <=> OnStack(b)
  BY DEF SwapTypeOK, SwapIn, OnStack
<1>4. \A b \in Cos : OnStack(b) => origin[b] # c
  BY MainAssumption DEF StackInv
<1>5. current # Main => current \in Cos /\ OnStack(current) /\ current # c
  BY DEF StackInv, SwapTypeOK
<1>6. \A b \in Cos : b # c /\ OnStack(b) => depth[b] < depth'[c] /\ depth[b] \in Nat
  <2>1. SUFFICES ASSUME NEW b \in Cos, b # c, OnStack(b)
                 PROVE  depth[b] < depth'[c] /\ depth[b] \in Nat
    OBVIOUS
  <2>2. current # Main /\ depth[b] <= depth[current]
    BY <2>1 DEF StackInv
  <2>3. depth[b] \in Nat /\ depth[current] \in Nat
    BY <1>5, <2>1, <2>2 DEF SwapTypeOK
  <2>4. QED BY <1>2, <2>2, <2>3
<1>7. ASSUME NEW b \in Cos, OnStack(b)'
      PROVE  /\ current' # Main => depth'[b] <= depth'[current']
             /\ IF origin'[b] = Main THEN depth'[b] = 1
                ELSE OnStack(origin[b])' /\ depth'[b] = depth'[origin'[b]] + 1
  <2>1. CASE b = c
    <3>1. depth'[b] \in Nat
      BY <1>1 DEF SwapTypeOK
    <3>2. QED BY <1>2, <1>3, <1>5, <2>1, <3>1
  <2>2. CASE b # c
    <3>1. OnStack(b) /\ origin'[b] = origin[b] /\ depth'[b] = depth[b]
      BY <1>3, <1>7, <2>2
    <3>2. IF origin[b] = Main THEN depth[b] = 1
          ELSE OnStack(origin[b]) /\ depth[b] = depth[origin[b]] + 1
      BY <3>1 DEF StackInv
    <3>3. origin[b] # Main => origin[b] \in Cos /\ origin[b] # c
      BY <1>4, <3>1 DEF SwapTypeOK
    <3>4. depth'[b] <= depth'[c]
      <4>1. depth[b] < depth'[c] /\ depth[b] \in Nat
        BY <1>6, <2>2, <3>1
      <4>2. depth'[c] \in Nat
        BY <1>1 DEF SwapTypeOK
      <4>3. QED BY <3>1, <4>1, <4>2
    <3>5. QED BY <1>2, <1>3, <3>1, <3>2, <3>3, <3>4
  <2>3. QED BY <2>1, <2>2
<1>8. ASSUME NEW a \in Cos, NEW b \in Cos, OnStack(a)', OnStack(b)', depth'[a] = depth'[b]
      PROVE  a = b
  <2>1. CASE a = c \/ b = c
    BY <1>1, <1>3, <1>6, <1>8, <2>1 DEF SwapTypeOK
  <2>2. CASE a # c /\ b # c
    BY <1>3, <1>8, <2>2 DEF StackInv
  <2>3. QED BY <2>1, <2>2
<1>9. QED
  BY <1>1, <1>2, <1>7, <1>8, MainAssumption DEF StackInv, OnStack

(* Popping the top of the stack keeps it well formed, whatever the state   *)
(* the coroutine leaves in: what yield() and close() rely on.              *)
LEMMA SwapOutStack ==
  ASSUME NEW c \in Cos, NEW st \in {"waiting", "end"},
         SwapTypeOK, StackInv, on_bailout = "no", on_bailout' = "no", current = c,
         SwapOut(c, st)
  PROVE  SwapTypeOK' /\ StackInv'
<1>1. SwapTypeOK' /\ current' = origin[c]
  BY DEF SwapTypeOK, States, SwapOut
<1>2. /\ OnStack(c) /\ ~OnStack(c)'
      /\ \A b \in Cos : b # c => /\ OnStack(b)' <=> OnStack(b)
                                 /\ origin'[b] = origin[b] /\ depth'[b] = depth[b]
  BY MainAssumption DEF SwapTypeOK, StackInv, OnStack, SwapOut
<1>3. \A b \in Cos : OnStack(b)' => b # c /\ OnStack(b) /\ depth[b] < depth[c]
  <2>1. SUFFICES ASSUME NEW b \in Cos, OnStack(b)'
                 PROVE  b # c /\ OnStack(b) /\ depth[b] < depth[c]
    OBVIOUS
  <2>2. b # c /\ OnStack(b)
    BY <1>2, <2>1
  <2>3. depth[b] <= depth[c] /\ depth[b] # depth[c]
    BY <1>2, <2>2, MainAssumption DEF StackInv
  <2>4. QED BY <2>2, <2>3 DEF SwapTypeOK
<1>4. \A b \in Cos : OnStack(b)' => origin[b] # c
  <2>1. SUFFICES ASSUME NEW b \in Cos, OnStack(b)', origin[b] = c
                 PROVE  FALSE
    OBVIOUS
  <2>2. depth[b] = depth[c] + 1
    BY <1>3, <2>1, MainAssumption DEF StackInv
  <2>3. QED BY <1>3, <2>1, <2>2 DEF SwapTypeOK
<1>5. IF origin[c] = Main THEN depth[c] = 1
      ELSE OnStack(origin[c]) /\ depth[c] = depth[origin[c]] + 1
  BY <1>2 DEF StackInv
<1>6. CASE origin[c] = Main
  <2>1. \A b \in Cos : ~OnStack(b)'
    <3>1. SUFFICES ASSUME NEW b \in Cos, OnStack(b)' PROVE FALSE
      OBVIOUS
    <3>2. depth[b] < 1 /\ OnStack(b)
      BY <1>3, <1>5, <1>6, <3>1
    <3>3. depth[b] = 1 \/ (origin[b] \in Cos /\ depth[b] = depth[origin[b]] + 1)
      BY <3>2 DEF StackInv, SwapTypeOK
    <3>4. QED BY <3>2, <3>3 DEF SwapTypeOK
  <2>2. QED BY <1>1, <1>6, <2>1 DEF StackInv
<1>7. CASE origin[c] # Main
  <2>1. origin[c] \in Cos /\ OnStack(origin[c]) /\ depth[c] = depth[origin[c]] + 1
    BY <1>5, <1>7 DEF SwapTypeOK
  <2>2. OnStack(current)'
    <3>1. origin[c] # c
      BY <2>1 DEF SwapTypeOK
    <3>2. QED BY <1>1, <1>2, <2>1, <3>1
  <2>3. \A b \in Cos : OnStack(b)' => depth[b] <= depth[origin[c]]
    BY <1>3, <2>1 DEF SwapTypeOK
  <2>4. \A b \in Cos : OnStack(b)' =>
           IF origin[b] = Main THEN depth[b] = 1
           ELSE OnStack(origin[b])' /\ depth[b] = depth[origin[b]] + 1
    <3>1. SUFFICES ASSUME NEW b \in Cos, OnStack(b)', origin[b] # Main
                   PROVE  OnStack(origin[b])' /\ depth[b] = depth[origin[b]] + 1
      BY <1>3 DEF StackInv
    <3>2. OnStack(origin[b]) /\ depth[b] = depth[origin[b]] + 1 /\ origin[b] \in Cos
      BY <1>3, <3>1 DEF StackInv, SwapTypeOK
    <3>3. QED BY <1>2, <1>4, <3>1, <3>2
  <2>5. \A a, b \in Cos : OnStack(a)' /\ OnStack(b)' /\ depth[a] = depth[b] => a = b
    BY <1>3 DEF StackInv
  <2>6. QED
    <3>1. current' # Main /\ OnStack(current)' /\ current' = origin[c]
      BY <1>1, <1>7, <2>2
    <3>2. \A b \in Cos : OnStack(b)' => origin'[b] = origin[b] /\ depth'[b] = depth[b]
      BY <1>2
    <3>3. \A b \in Cos : OnStack(b)' => depth'[b] <= depth'[current']
      BY <2>3, <3>1, <3>2, <2>1
    <3>4. \A b \in Cos : OnStack(b)' =>
             IF origin'[b] = Main THEN depth'[b] = 1
             ELSE OnStack(origin[b])' /\ depth'[b] = depth'[origin'[b]] + 1
      BY <2>4, <3>2, <1>1 DEF SwapTypeOK
    <3>5. \A a, b \in Cos : OnStack(a)' /\ OnStack(b)' /\ depth'[a] = depth'[b] => a = b
      BY <2>5, <3>2
    <3>6. QED BY <1>1, <3>1, <3>3, <3>4, <3>5 DEF StackInv
<1>8. QED BY <1>1, <1>6, <1>7

-----------------------------------------------------------------------------
(* The inductive invariant.  CallInv: a coroutine inside a blocking call   *)
(* is suspended or on top of the stack.  CodeInv: the resume code is RC_OK *)
(* while suspended, and after the wait only when no AIO event of the       *)
(* coroutine is left.                                                      *)
CallInv ==
  /\ on_bailout # "no" => current = Main
  /\ \A c \in Cos : call[c] # "none" => state[c] = "waiting" \/ current = c

CodeInv ==
  \A c \in Cos :
    /\ current = c /\ call[c] \in {"yield", "async"} /\ resume_code[c] = "ok" => c \notin inflight
    /\ on_bailout = "no" /\ state[c] = "waiting" /\ call[c] # "none" => resume_code[c] = "ok"

IInv == TypeOK /\ StackInv /\ NoStaleWaker /\ AnswerMatchesWaker /\ CallInv /\ CodeInv

LEMMA TypeGivesSwapType == TypeOK => SwapTypeOK
BY DEF TypeOK, SwapTypeOK

LEMMA StackUnchanged ==
  ASSUME StackInv, UNCHANGED <<swapVars, on_bailout>>
  PROVE  StackInv'
BY DEF StackInv, OnStack, swapVars

(* Any wake-up of a suspended coroutine, with the early return of resume() *)
(* under bailout.                                                          *)
LEMMA ResumeStack ==
  ASSUME NEW c \in Cos, SwapTypeOK, StackInv, state[c] = "waiting",
         on_bailout # "fired", UNCHANGED on_bailout, resume(c)
  PROVE  SwapTypeOK' /\ StackInv'
<1>1. CASE on_bailout = "no"
  <2>1. ~OnStack(c) /\ SwapIn(c, "running") /\ on_bailout' = "no"
    BY <1>1 DEF OnStack, resume
  <2>2. QED BY <1>1, <2>1, SwapInStack
<1>2. CASE on_bailout # "no"
  <2>1. UNCHANGED swapVars
    BY <1>2 DEF resume
  <2>2. QED BY <2>1, StackUnchanged DEF swapVars, SwapTypeOK
<1>3. QED BY <1>1, <1>2

LEMMA InitIInv == CoInit => IInv
<1>1. SUFFICES ASSUME CoInit PROVE IInv
  OBVIOUS
<1>2. TypeOK
  BY <1>1 DEF CoInit, TypeOK, States, ResumeCodes, Calls, Wakers
<1>3. StackInv
  BY <1>1 DEF CoInit, StackInv, OnStack
<1>4. NoStaleWaker /\ AnswerMatchesWaker /\ CallInv /\ CodeInv
  BY <1>1, MainAssumption
     DEF CoInit, NoStaleWaker, AnswerMatchesWaker, AnswerOf, CallInv, CodeInv
<1>5. QED BY <1>2, <1>3, <1>4 DEF IInv

(* What a blocking call does before its context switch.                    *)
LEMMA BlockInIInv ==
  ASSUME IInv, UserCode, NEW c \in Cos, current = c, NEW k \in {"yield", "async"},
         NEW t \in Timeouts, BlockIn(c, k, t), UNCHANGED on_bailout,
         user_yield_coros' = IF k = "yield" THEN user_yield_coros \cup {c}
                                            ELSE user_yield_coros,
         inflight' = IF k = "async" THEN inflight \cup {c} ELSE inflight
  PROVE  IInv'
<1>1. /\ on_bailout = "no" /\ call[c] = "none"
      /\ SwapTypeOK /\ SwapOut(c, "waiting")
      /\ state' = [state EXCEPT ![c] = "waiting"]
  BY TypeGivesSwapType DEF UserCode, BlockIn, SwapOut, IInv
<1>2. SwapTypeOK' /\ StackInv'
  BY <1>1, SwapOutStack DEF IInv
<1>3. TypeOK'
  BY <1>1, <1>2 DEF IInv, TypeOK, SwapTypeOK, BlockIn, TimerAdded, Timeouts,
                    ResumeCodes, Calls, Wakers
<1>4. \A b \in Cos : b # c =>
         /\ call'[b] = call[b] /\ state'[b] = state[b] /\ timer'[b] = timer[b]
         /\ cancel_fn'[b] = cancel_fn[b] /\ resume_code'[b] = resume_code[b]
  BY <1>1 DEF BlockIn, IInv, TypeOK
<1>5. /\ call'[c] = k /\ state'[c] = "waiting" /\ resume_code'[c] = "ok"
      /\ waker' = waker
  BY <1>1 DEF BlockIn, IInv, TypeOK
<1>6. current' # c
  BY <1>1, <1>2, <1>5, MainAssumption DEF StackInv, OnStack
<1>7. \A b \in Cos : b # c => (call[b] # "none" => state[b] = "waiting")
  BY DEF IInv, CallInv
<1>8. CallInv'
  BY <1>1, <1>4, <1>5, <1>7 DEF CallInv
<1>9. NoStaleWaker'
  <2>1. SUFFICES ASSUME NEW b \in Cos
        PROVE  /\ timer'[b] \/ cancel_fn'[b] \/ b \in user_yield_coros' \cup inflight' =>
                    call'[b] # "none" /\ (state'[b] = "waiting" \/ current' = b)
               /\ b \in user_yield_coros' => call'[b] = "yield" /\ state'[b] = "waiting"
               /\ b \in inflight' => call'[b] = "async"
    BY DEF NoStaleWaker
  <2>2. c \notin user_yield_coros /\ c \notin inflight
    BY <1>1 DEF IInv, NoStaleWaker
  <2>3. CASE b = c
    BY <1>5, <2>2, <2>3
  <2>4. CASE b # c
    <3>1. b \in user_yield_coros' <=> b \in user_yield_coros
      BY <2>4
    <3>2. b \in inflight' <=> b \in inflight
      BY <2>4
    <3>3. QED BY <1>4, <1>7, <2>4, <3>1, <3>2 DEF IInv, NoStaleWaker
  <2>5. QED BY <2>3, <2>4
<1>10. \A b \in Cos : current' = b => b # c /\ call'[b] = "none"
  BY <1>1, <1>2, <1>4, <1>6, <1>7, MainAssumption DEF StackInv, OnStack
<1>11. CodeInv' /\ AnswerMatchesWaker'
  BY <1>1, <1>4, <1>5, <1>10 DEF IInv, CodeInv, AnswerMatchesWaker
<1>12. QED BY <1>2, <1>3, <1>8, <1>9, <1>11 DEF IInv

(* What every wake-up of a suspended coroutine does, whoever w causes it.  *)
LEMMA WakeIInv ==
  ASSUME IInv, NEW c \in Cos, state[c] = "waiting", call[c] # "none",
         on_bailout # "fired", current = Main \/ UserCode, resume(c),
         NEW w \in {"resume", "timer", "cancel"}, waker' = w,
         resume_code' = [resume_code EXCEPT ![c] = IF w = "resume" THEN resume_code[c]
                                                   ELSE AnswerOf(w)],
         timer' \in [Cos -> BOOLEAN], cancel_fn' \in [Cos -> BOOLEAN],
         \A b \in Cos : (timer'[b] => timer[b]) /\ (cancel_fn'[b] => cancel_fn[b]),
         user_yield_coros' \subseteq user_yield_coros, c \notin user_yield_coros',
         inflight' \subseteq inflight, w = "resume" => c \notin inflight',
         UNCHANGED <<call, on_bailout>>
  PROVE  IInv'
<1>1. SwapTypeOK' /\ StackInv'
  BY ResumeStack, TypeGivesSwapType DEF IInv
<1>2. TypeOK'
  BY Zenon, <1>1 DEF IInv, TypeOK, SwapTypeOK, AnswerOf, ResumeCodes, Wakers
<1>3. \A b \in Cos : b # c => state'[b] = state[b] /\ resume_code'[b] = resume_code[b]
  BY DEF IInv, TypeOK, resume, SwapIn, swapVars
<1>4. \A b \in Cos : call[b] # "none" => state[b] = "waiting"
  BY MainAssumption DEF UserCode, IInv, CallInv
<1>5. /\ on_bailout = "no" => current' = c /\ state'[c] = "running"
      /\ on_bailout # "no" => current' = Main /\ state'[c] = "waiting"
  BY DEF resume, SwapIn, swapVars, IInv, TypeOK, CallInv
<1>6. CallInv'
  BY <1>3, <1>4, <1>5 DEF CallInv
<1>7. NoStaleWaker'
  <2>1. SUFFICES ASSUME NEW b \in Cos
        PROVE  /\ timer'[b] \/ cancel_fn'[b] \/ b \in user_yield_coros' \cup inflight' =>
                    call'[b] # "none" /\ (state'[b] = "waiting" \/ current' = b)
               /\ b \in user_yield_coros' => call'[b] = "yield" /\ state'[b] = "waiting"
               /\ b \in inflight' => call'[b] = "async"
    BY DEF NoStaleWaker
  <2>2. CASE b = c
    BY <1>5, <2>2 DEF IInv, NoStaleWaker
  <2>3. CASE b # c
    BY <1>3, <1>4, <2>3 DEF IInv, NoStaleWaker
  <2>4. QED BY <2>2, <2>3
<1>8. resume_code'[c] = IF w = "resume" THEN resume_code[c] ELSE AnswerOf(w)
  BY DEF IInv, TypeOK
<1>9. on_bailout = "no" => /\ resume_code'[c] = AnswerOf(w)
                           /\ resume_code'[c] = "ok" => c \notin inflight'
  BY <1>8 DEF IInv, CodeInv, AnswerOf
<1>10. \A b \in Cos : current' = b => b = c /\ on_bailout = "no"
  BY <1>5, MainAssumption
<1>11. CodeInv' /\ AnswerMatchesWaker'
  BY <1>3, <1>5, <1>9, <1>10 DEF IInv, CodeInv, AnswerMatchesWaker
<1>12. QED BY <1>1, <1>2, <1>6, <1>7, <1>11 DEF IInv

LEMMA CreateIInv ==
  ASSUME IInv, NEW c \in Cos, create(c)
  PROVE  IInv'
<1>1. SwapTypeOK' /\ StackInv' /\ on_bailout = "no" /\ on_bailout' = "no"
  BY SwapInStack, TypeGivesSwapType DEF IInv, create, UserCode, OnStack
<1>2. TypeOK'
  BY <1>1 DEF IInv, TypeOK, SwapTypeOK, create, waitVars, lists
<1>3. /\ \A b \in Cos : b # c => state'[b] = state[b]
      /\ state[c] = "none" /\ state'[c] = "init" /\ current' = c
      /\ UNCHANGED <<resume_code, cancel_fn, timer, call, waker, user_yield_coros, inflight>>
  BY DEF IInv, TypeOK, create, SwapIn, waitVars, lists
<1>4. \A b \in Cos : call[b] # "none" => state[b] = "waiting" /\ b # c
  BY <1>3, MainAssumption DEF create, UserCode, IInv, CallInv, StackInv, OnStack
<1>5. CallInv' /\ AnswerMatchesWaker' /\ CodeInv'
  BY <1>1, <1>3, <1>4 DEF IInv, CallInv, AnswerMatchesWaker, CodeInv
<1>6. NoStaleWaker'
  BY <1>3, <1>4 DEF IInv, NoStaleWaker
<1>7. QED BY <1>1, <1>2, <1>5, <1>6 DEF IInv

LEMMA CloseIInv ==
  ASSUME IInv, close
  PROVE  IInv'
<1>1. /\ current \in Cos /\ on_bailout = "no" /\ on_bailout' = "no"
      /\ call[current] = "none" /\ SwapTypeOK
  BY TypeGivesSwapType DEF IInv, close, UserCode
<1>2. SwapTypeOK' /\ StackInv'
  BY <1>1, SwapOutStack DEF IInv, close
<1>3. TypeOK'
  BY <1>2 DEF IInv, TypeOK, SwapTypeOK, close, waitVars, lists
<1>4. /\ \A b \in Cos : b # current => state'[b] = state[b]
      /\ UNCHANGED <<resume_code, cancel_fn, timer, call, waker, user_yield_coros, inflight>>
  BY <1>1 DEF IInv, TypeOK, close, SwapOut, waitVars, lists
<1>5. \A b \in Cos : call[b] # "none" => state[b] = "waiting" /\ b # current
  BY <1>1 DEF IInv, CallInv
<1>6. \A b \in Cos : current' = b => call[b] = "none"
  BY <1>2, <1>4, <1>5, MainAssumption DEF StackInv, OnStack, close, UserCode
<1>7. CallInv' /\ AnswerMatchesWaker' /\ CodeInv'
  BY <1>1, <1>4, <1>5, <1>6 DEF IInv, CallInv, AnswerMatchesWaker, CodeInv
<1>8. NoStaleWaker'
  BY <1>4, <1>5 DEF IInv, NoStaleWaker
<1>9. QED BY <1>2, <1>3, <1>7, <1>8 DEF IInv

LEMMA AfterYieldIInv ==
  ASSUME IInv, after_yield
  PROVE  IInv'
<1>1. PICK c \in Cos : current = c /\ call[c] \in {"yield", "async"}
  BY DEF after_yield
<1>2. /\ UNCHANGED <<swapVars, user_yield_coros, on_bailout, resume_code>> /\ waker' = "none"
      /\ cancel_fn' = [cancel_fn EXCEPT ![c] = FALSE]
      /\ timer' = [timer EXCEPT ![c] = FALSE]
      /\ call' = [call EXCEPT ![c] = "none"]
      /\ inflight' = IF resume_code[c] = "ok" THEN inflight ELSE inflight \ {c}
  BY <1>1 DEF after_yield, Unblock
<1>3. TypeOK'
  BY <1>2 DEF IInv, TypeOK, Calls, Wakers, swapVars
<1>4. StackInv'
  BY <1>2, StackUnchanged DEF IInv
<1>5. current' = c /\ call'[c] = "none"
  BY <1>1, <1>2 DEF IInv, TypeOK, swapVars
<1>6. CallInv' /\ CodeInv' /\ AnswerMatchesWaker'
  BY <1>1, <1>2, <1>5 DEF IInv, TypeOK, CallInv, CodeInv, AnswerMatchesWaker, swapVars
<1>7. NoStaleWaker'
  <2>1. c \notin inflight' /\ c \notin user_yield_coros
    BY <1>1, <1>2, MainAssumption DEF IInv, CodeInv, NoStaleWaker, StackInv, OnStack, CallInv
  <2>2. QED BY <1>1, <1>2, <2>1 DEF IInv, TypeOK, NoStaleWaker, swapVars
<1>8. QED BY <1>3, <1>4, <1>6, <1>7 DEF IInv

(* Control leaves from the root of the stack: nothing but its state moves. *)
LEMMA BailoutIInv ==
  ASSUME IInv, bailout
  PROVE  IInv'
<1>1. PICK root \in Cos : /\ OnStack(root)
                          /\ state' = [state EXCEPT ![root] = "waiting"]
                          /\ resume_code' = [resume_code EXCEPT ![root] = "ok"]
                          /\ current' = Main
  BY Zenon DEF bailout
<1>2. /\ on_bailout' = "fired" /\ current \in Cos /\ call[current] = "none"
      /\ UNCHANGED <<origin, depth, cancel_fn, timer, call, waker, user_yield_coros, inflight>>
  BY DEF bailout, UserCode, lists
<1>3. TypeOK'
  BY <1>1, <1>2 DEF IInv, TypeOK, States, ResumeCodes
<1>4. StackInv'
  BY <1>2 DEF StackInv
<1>5. \A b \in Cos : call[b] # "none" => state'[b] = "waiting"
  BY <1>1, <1>2 DEF IInv, TypeOK, CallInv
<1>6. CallInv' /\ CodeInv' /\ AnswerMatchesWaker'
  BY <1>1, <1>2, <1>5, MainAssumption DEF IInv, CallInv, CodeInv, AnswerMatchesWaker
<1>7. NoStaleWaker'
  BY <1>1, <1>2, <1>5 DEF IInv, NoStaleWaker
<1>8. QED BY <1>3, <1>4, <1>6, <1>7 DEF IInv

LEMMA BailoutMainIInv ==
  ASSUME IInv, bailout_main
  PROVE  IInv'
<1>1. /\ current = Main /\ on_bailout = "no" /\ on_bailout' = "marked"
      /\ UNCHANGED <<swapVars, waitVars, lists>>
  BY DEF bailout_main, UserCode
<1>2. TypeOK'
  BY <1>1 DEF IInv, TypeOK, swapVars, waitVars, lists
<1>3. StackInv'
  BY <1>1 DEF IInv, StackInv, OnStack, swapVars
<1>4. CallInv' /\ CodeInv' /\ AnswerMatchesWaker' /\ NoStaleWaker'
  BY <1>1 DEF IInv, CallInv, CodeInv, AnswerMatchesWaker, NoStaleWaker, swapVars, waitVars, lists
<1>5. QED BY <1>2, <1>3, <1>4 DEF IInv

LEMMA StutterIInv ==
  ASSUME IInv, UNCHANGED coVars
  PROVE  IInv'
BY DEF IInv, TypeOK, StackInv, OnStack, NoStaleWaker, AnswerMatchesWaker, AnswerOf, CallInv, CodeInv,
       coVars, swapVars, waitVars, lists

LEMMA NextIInv == IInv /\ [CoNext]_coVars => IInv'
<1>1. SUFFICES ASSUME IInv, [CoNext]_coVars PROVE IInv'
  OBVIOUS
<1>2. ASSUME NEW c \in Cos, create(c) PROVE IInv'
  BY <1>1, <1>2, CreateIInv
<1>3. ASSUME NEW c \in Cos, resume_user(c) PROVE IInv'
  <2>1. state[c] = "waiting" /\ call[c] = "yield" /\ c \notin inflight
    BY <1>1, <1>3 DEF IInv, NoStaleWaker, resume_user
  <2>2. resume_code' = [resume_code EXCEPT ![c] = resume_code[c]]
    BY <1>1, <1>3 DEF IInv, TypeOK, resume_user
  <2>3. QED BY Zenon, <1>1, <1>3, <2>1, <2>2, WakeIInv DEF IInv, TypeOK, resume_user, UserCode
<1>4. ASSUME NEW c \in Cos, cancel(c) PROVE IInv'
  <2>1. state[c] = "waiting" /\ call[c] # "none" /\ on_bailout = "no"
    BY <1>1, <1>4 DEF IInv, NoStaleWaker, cancel, CancelWith, UserCode
  <2>2. /\ resume_code' = [resume_code EXCEPT ![c] = AnswerOf("cancel")]
        /\ cancel_fn' \in [Cos -> BOOLEAN] /\ \A b \in Cos : cancel_fn'[b] => cancel_fn[b]
        /\ timer' = timer /\ timer \in [Cos -> BOOLEAN]
    BY <1>1, <1>4 DEF IInv, TypeOK, cancel, CancelWith, AnswerOf
  <2>3. QED BY Zenon, <1>1, <1>4, <2>1, <2>2, WakeIInv DEF cancel, CancelWith
<1>5. ASSUME NEW c \in Cos, async_task_completed(c) PROVE IInv'
  <2>1. state[c] = "waiting" /\ call[c] = "async" /\ c \notin user_yield_coros
    BY <1>1, <1>5, MainAssumption DEF IInv, NoStaleWaker, async_task_completed
  <2>2. resume_code' = [resume_code EXCEPT ![c] = resume_code[c]]
    BY <1>1, <1>5 DEF IInv, TypeOK, async_task_completed
  <2>3. QED BY Zenon, <1>1, <1>5, <2>1, <2>2, WakeIInv DEF IInv, TypeOK, async_task_completed
<1>6. ASSUME NEW c \in Cos, timer_callback(c) PROVE IInv'
  <2>1. state[c] = "waiting" /\ call[c] = "async" /\ c \notin user_yield_coros
    BY <1>1, <1>6, MainAssumption DEF IInv, NoStaleWaker, timer_callback, FireTimer
  <2>2. /\ resume_code' = [resume_code EXCEPT ![c] = AnswerOf("timer")]
        /\ timer' \in [Cos -> BOOLEAN] /\ \A b \in Cos : timer'[b] => timer[b]
        /\ cancel_fn' = cancel_fn /\ cancel_fn \in [Cos -> BOOLEAN]
    BY <1>1, <1>6 DEF IInv, TypeOK, timer_callback, FireTimer, AnswerOf
  <2>3. QED BY Zenon, <1>1, <1>6, <2>1, <2>2, WakeIInv DEF timer_callback, FireTimer, lists
<1>7. ASSUME NEW t \in Timeouts, async(t) PROVE IInv'
  BY <1>1, <1>7, BlockInIInv DEF async
<1>8. CASE yield
  BY <1>1, <1>8, BlockInIInv DEF yield, Timeouts
<1>9. CASE after_yield \/ close \/ bailout \/ bailout_main \/ UNCHANGED coVars
  BY <1>1, <1>9, AfterYieldIInv, CloseIInv, BailoutIInv, BailoutMainIInv, StutterIInv
<1>10. QED BY <1>1, <1>2, <1>3, <1>4, <1>5, <1>6, <1>7, <1>8, <1>9 DEF CoNext

(* resume(), yield(), cancel(), the timer and AIO callbacks, close() and    *)
(* bailout() keep the invariant.                                           *)
THEOREM InductiveInvariant == CoSpec => []IInv
BY InitIInv, NextIInv, PTL DEF CoSpec

(* The variables keep their types: no timer node, resume code or list ever *)
(* holds anything the code does not declare for it.                        *)
THEOREM TypeCorrect == CoSpec => []TypeOK
<1>1. IInv => TypeOK
  BY DEF IInv
<1>2. QED BY <1>1, InductiveInvariant, PTL

(* resume(), yield(), close() and bailout() keep the chain of origins the  *)
(* native stack, for any number of coroutines and any nesting.             *)
THEOREM StackCorrect == CoSpec => []StackInv
<1>1. IInv => StackInv
  BY DEF IInv
<1>2. QED BY <1>1, InductiveInvariant, PTL

(* Timers, AIO events, cancel functions and user_yield_coros entries never *)
(* outlive the blocking call they were made for.                           *)
THEOREM WakersCorrect == CoSpec => []NoStaleWaker
<1>1. IInv => NoStaleWaker
  BY DEF IInv
<1>2. QED BY <1>1, InductiveInvariant, PTL

(* yield() and yield_ex() report what ended the wait.                      *)
THEOREM AnswersCorrect == CoSpec => []AnswerMatchesWaker
<1>1. IInv => AnswerMatchesWaker
  BY DEF IInv
<1>2. QED BY <1>1, InductiveInvariant, PTL

(* The return address of a frame on the stack is never overwritten.        *)
THEOREM OriginsCorrect == CoSpec => FramesKeepOrigin
<1>1. ASSUME IInv, [CoNext]_coVars
      PROVE  [\A c \in Cos : OnStack(c) /\ OnStack(c)' => origin'[c] = origin[c]]_coVars
  <2>1. SUFFICES ASSUME CoNext, NEW b \in Cos, OnStack(b), OnStack(b)'
                 PROVE  origin'[b] = origin[b]
    BY <1>1
  <2>2. ASSUME NEW c \in Cos, NEW st, SwapIn(c, st), ~OnStack(c)
        PROVE  origin'[b] = origin[b]
    BY <1>1, <2>1, <2>2 DEF SwapIn, IInv, TypeOK
  <2>3. ASSUME NEW c \in Cos, resume(c), state[c] = "waiting"
        PROVE  origin'[b] = origin[b]
    BY <1>1, <2>2, <2>3 DEF resume, swapVars, OnStack
  <2>4. ASSUME NEW c \in Cos, create(c) PROVE origin'[b] = origin[b]
    BY <1>1, <2>2, <2>4 DEF create, OnStack
  <2>5. ASSUME NEW c \in Cos, resume_user(c) \/ cancel(c)
        PROVE  origin'[b] = origin[b]
    BY <1>1, <2>3, <2>5 DEF resume_user, cancel, CancelWith, UserCode, IInv, NoStaleWaker
  <2>6. ASSUME NEW c \in Cos, async_task_completed(c) \/ timer_callback(c)
        PROVE  origin'[b] = origin[b]
    BY <1>1, <2>3, <2>6, MainAssumption
       DEF async_task_completed, timer_callback, FireTimer, IInv, NoStaleWaker
  <2>7. ASSUME NEW c \in Cos, NEW st \in {"waiting", "end"}, SwapOut(c, st)
        PROVE  origin'[b] = origin[b]
    <3>1. b # c
      BY <1>1, <2>1, <2>7 DEF IInv, TypeOK, SwapOut, OnStack
    <3>2. QED BY <1>1, <2>1, <2>7, <3>1 DEF IInv, TypeOK, SwapOut
  <2>8. CASE (\E t \in Timeouts : async(t)) \/ yield \/ close
    BY <2>7, <2>8 DEF async, yield, BlockIn, close
  <2>9. CASE after_yield \/ bailout \/ bailout_main
    BY <2>9 DEF after_yield, bailout, bailout_main, swapVars
  <2>10. QED BY <2>1, <2>4, <2>5, <2>6, <2>8, <2>9 DEF CoNext
<1>2. QED BY <1>1, InductiveInvariant, PTL DEF CoSpec, FramesKeepOrigin

-----------------------------------------------------------------------------
(* What components built on the scheduler need of it, as long as nothing   *)
(* bails out: the invariant of its state, and how resume(), yield() and    *)
(* the code outside of the component keep it.                              *)

(* The scheduler: a coroutine inside a blocking call is suspended or on    *)
(* top of the stack, and the list of user-level yields holds suspended     *)
(* coroutines only.                                                        *)
SchedInv ==
  /\ TypeOK /\ StackInv /\ on_bailout = "no"
  /\ \A c \in Cos : call[c] # "none" => state[c] = "waiting" \/ current = c
  /\ \A c \in user_yield_coros : call[c] = "yield" /\ current # c

WaitTypes ==
  /\ resume_code \in [Cos -> ResumeCodes]
  /\ cancel_fn \in [Cos -> BOOLEAN]
  /\ timer \in [Cos -> BOOLEAN]
  /\ call \in [Cos -> Calls]
  /\ waker \in Wakers
  /\ user_yield_coros \in SUBSET Cos
  /\ inflight \in SUBSET Cos

LEMMA SplitTypes == TypeOK => SwapTypeOK /\ WaitTypes
BY DEF TypeOK, SwapTypeOK, WaitTypes

(* A coroutine inside a blocking call is not on the stack unless it is on  *)
(* top of it, so resume() of a suspended one pushes a new frame.           *)
LEMMA SchedWake ==
  ASSUME SchedInv, NEW w \in Cos, call[w] # "none", w # current, resume(w),
         UNCHANGED on_bailout, WaitTypes',
         \A b \in Cos : IF b = current THEN call'[b] = "none" ELSE call'[b] = call[b],
         user_yield_coros' \subseteq user_yield_coros, w \notin user_yield_coros'
  PROVE  /\ SchedInv' /\ current' = w
         /\ \A b \in Cos : OnStack(b) => OnStack(b)'
<1>1. state[w] = "waiting" /\ SwapTypeOK /\ state \in [Cos -> States]
  BY SplitTypes DEF SchedInv, SwapTypeOK
<1>2. SwapIn(w, "running") /\ ~OnStack(w) /\ on_bailout = "no" /\ on_bailout' = "no"
  BY <1>1 DEF SchedInv, resume, OnStack
<1>3. SwapTypeOK' /\ StackInv'
  BY <1>1, <1>2, SwapInStack DEF SchedInv
<1>4. current' = w /\ state'[w] = "running" /\ \A b \in Cos : b # w => state'[b] = state[b]
  BY <1>1, <1>2 DEF SwapIn
<1>5. TypeOK'
  BY <1>2, <1>3 DEF TypeOK, SwapTypeOK, WaitTypes
<1>6. \A b \in Cos : call'[b] # "none" => state'[b] = "waiting" \/ current' = b
  BY <1>4 DEF SchedInv
<1>7. \A b \in user_yield_coros' : call'[b] = "yield" /\ current' # b
  <2>1. \A b \in user_yield_coros : call[b] = "yield" /\ current # b
    BY DEF SchedInv
  <2>2. user_yield_coros' \subseteq Cos
    BY DEF WaitTypes
  <2>3. QED BY <1>4, <2>1, <2>2
<1>8. \A b \in Cos : OnStack(b) => OnStack(b)'
  BY <1>4 DEF OnStack
<1>9. QED BY <1>2, <1>3, <1>4, <1>5, <1>6, <1>7, <1>8 DEF SchedInv

(* Whoever gets the thread back from yield() or at the end of a coroutine  *)
(* is not inside a blocking call: it called resume().                      *)
LEMMA SchedOut ==
  ASSUME SchedInv, NEW c \in Cos, current = c,
         NEW st \in {"waiting", "end"}, SwapOut(c, st), UNCHANGED on_bailout, WaitTypes',
         \A b \in Cos : b # c => call'[b] = call[b],
         st = "end" => call'[c] = "none",
         \A b \in user_yield_coros' : b # c => b \in user_yield_coros,
         c \in user_yield_coros' => call'[c] = "yield"
  PROVE  /\ SchedInv' /\ current' # c
         /\ current' \in Cos => call'[current'] = "none"
         /\ \A b \in Cos : b # c => (OnStack(b)' <=> OnStack(b))
<1>1. SwapTypeOK /\ on_bailout = "no" /\ on_bailout' = "no" /\ StackInv
  BY SplitTypes DEF SchedInv
<1>2. SwapTypeOK' /\ StackInv'
  BY <1>1, SwapOutStack
<1>3. /\ state'[c] = st /\ current' = origin[c] /\ ~OnStack(c)'
      /\ \A b \in Cos : b # c => state'[b] = state[b]
  BY <1>1 DEF SwapOut, SwapTypeOK, OnStack
<1>4. current' # Main => OnStack(current)'
  BY <1>1, <1>2 DEF StackInv
<1>5. current' # c /\ current' \in Cos \cup {Main}
  BY <1>2, <1>3, <1>4, MainAssumption DEF SwapTypeOK
<1>6. \A b \in Cos : b # c => (OnStack(b)' <=> OnStack(b))
  BY <1>3 DEF OnStack
<1>7. \A b \in Cos : b # c /\ call[b] # "none" => state[b] = "waiting"
  BY DEF SchedInv
<1>8. current' \in Cos => call'[current'] = "none"
  BY <1>3, <1>4, <1>5, <1>7, MainAssumption DEF OnStack
<1>9. TypeOK'
  BY <1>1, <1>2 DEF TypeOK, SwapTypeOK, WaitTypes
<1>10. \A b \in Cos : call'[b] # "none" => state'[b] = "waiting" \/ current' = b
  BY <1>3, <1>7
<1>11. \A b \in user_yield_coros' : call'[b] = "yield" /\ current' # b
  <2>1. \A b \in user_yield_coros : call[b] = "yield"
    BY DEF SchedInv
  <2>2. user_yield_coros' \subseteq Cos
    BY DEF WaitTypes
  <2>3. \A b \in user_yield_coros' : call'[b] = "yield"
    BY <2>1, <2>2
  <2>4. QED BY <1>8, <2>2, <2>3
<1>12. QED BY <1>1, <1>2, <1>5, <1>6, <1>8, <1>9, <1>10, <1>11 DEF SchedInv

(* A step that switches no context and changes only the call of whoever    *)
(* runs.                                                                   *)
LEMMA SchedStay ==
  ASSUME SchedInv, UNCHANGED <<swapVars, on_bailout, user_yield_coros>>, WaitTypes',
         \A b \in Cos : b # current => call'[b] = call[b]
  PROVE  SchedInv' /\ \A b \in Cos : OnStack(b)' <=> OnStack(b)
<1>1. SwapTypeOK' /\ StackInv' /\ on_bailout' = "no"
  BY StackUnchanged, SplitTypes DEF SchedInv, swapVars, SwapTypeOK
<1>2. TypeOK'
  BY <1>1 DEF TypeOK, SwapTypeOK, WaitTypes
<1>3. UNCHANGED <<current, state, user_yield_coros>>
  BY DEF swapVars
<1>4. \A b \in Cos : call'[b] # "none" => state'[b] = "waiting" \/ current' = b
  BY <1>3 DEF SchedInv
<1>5. \A b \in user_yield_coros' : call'[b] = "yield" /\ current' # b
  <2>1. \A b \in user_yield_coros : call[b] = "yield" /\ current # b
    BY DEF SchedInv
  <2>2. user_yield_coros' \subseteq Cos
    BY DEF WaitTypes
  <2>3. QED BY <1>3, <2>1, <2>2
<1>6. QED BY <1>1, <1>2, <1>3, <1>4, <1>5 DEF SchedInv, OnStack

LEMMA SchedSame ==
  ASSUME SchedInv, UNCHANGED coVars
  PROVE  SchedInv' /\ \A b \in Cos : OnStack(b)' <=> OnStack(b)
<1>1. UNCHANGED <<current, origin, state, depth, resume_code, cancel_fn, timer, call, waker,
                  user_yield_coros, inflight, on_bailout>>
  BY DEF coVars, swapVars, waitVars, lists
<1>2. TypeOK'
  BY <1>1 DEF SchedInv, TypeOK
<1>3. StackInv'
  BY <1>1, StackUnchanged DEF SchedInv, swapVars
<1>4. QED BY <1>1, <1>2, <1>3 DEF SchedInv, OnStack

(* The rest of a program that uses a component: it never resumes a         *)
(* coroutine that is suspended in the component ("lib"), leaves what such  *)
(* a coroutine will find alone, and keeps the other frames on the stack.   *)
Elsewhere ==
  \/ yield \/ after_yield \/ close
  \/ \E c \in Cos : create(c) \/ resume_user(c) \/ cancel(c)

LibIdle == current \in Cos => call[current] # "lib"

FramesStay ==
  /\ \A b \in Cos : call'[b] = "lib" <=> call[b] = "lib"
  /\ \A b \in Cos : call[b] = "lib" =>
       resume_code'[b] = resume_code[b] /\ timer'[b] = timer[b] /\ cancel_fn'[b] = cancel_fn[b]
  /\ \A b \in Cos : OnStack(b) /\ b # current /\ call[b] = "none" => OnStack(b)' /\ call'[b] = "none"

LEMMA SchedElse ==
  ASSUME SchedInv, Elsewhere
  PROVE  SchedInv' /\ LibIdle /\ LibIdle' /\ FramesStay
<1>. TypeOK /\ StackInv /\ on_bailout = "no" /\ SwapTypeOK /\ WaitTypes
  BY SplitTypes DEF SchedInv
<1>1. UserCode => LibIdle
  BY DEF UserCode, LibIdle
<1>2. CASE yield
  <2>. DEFINE c == current
  <2>1. /\ c \in Cos /\ call[c] = "none" /\ LibIdle /\ SwapOut(c, "waiting")
        /\ user_yield_coros' = user_yield_coros \cup {c}
        /\ call' = [call EXCEPT ![c] = "yield"] /\ resume_code' = [resume_code EXCEPT ![c] = "ok"]
        /\ cancel_fn' = [cancel_fn EXCEPT ![c] = TRUE] /\ timer' = [timer EXCEPT ![c] = FALSE]
        /\ UNCHANGED <<waker, inflight, on_bailout>>
    BY Zenon, <1>1, <1>2 DEF yield, UserCode, BlockIn, TimerAdded
  <2>2. WaitTypes'
    BY <2>1 DEF WaitTypes, ResumeCodes, Calls
  <2>3. /\ call'[c] = "yield"
        /\ \A b \in Cos : b # c => call'[b] = call[b] /\ resume_code'[b] = resume_code[b]
                                   /\ timer'[b] = timer[b] /\ cancel_fn'[b] = cancel_fn[b]
    BY <2>1 DEF WaitTypes
  <2>4. /\ SchedInv' /\ current' # c /\ (current' \in Cos => call'[current'] = "none")
        /\ \A b \in Cos : b # c => (OnStack(b)' <=> OnStack(b))
    BY <2>1, <2>2, <2>3, SchedOut
  <2>5. FramesStay
    BY Zenon, <2>1, <2>3, <2>4 DEF FramesStay
  <2>6. LibIdle'
    BY <2>4 DEF LibIdle
  <2>7. QED BY <2>1, <2>4, <2>5, <2>6
<1>3. CASE after_yield
  <2>. DEFINE c == current
  <2>1. /\ c \in Cos /\ call[c] \in {"yield", "async"} /\ LibIdle /\ UNCHANGED swapVars
        /\ call' = [call EXCEPT ![c] = "none"] /\ UNCHANGED resume_code
        /\ cancel_fn' = [cancel_fn EXCEPT ![c] = FALSE] /\ timer' = [timer EXCEPT ![c] = FALSE]
        /\ waker' = "none" /\ inflight' \subseteq inflight
        /\ UNCHANGED <<user_yield_coros, on_bailout>>
    BY <1>3 DEF after_yield, Unblock, LibIdle
  <2>2. WaitTypes'
    BY <2>1 DEF WaitTypes, Wakers, Calls
  <2>3. /\ \A b \in Cos : IF b = c THEN call'[b] = "none" ELSE call'[b] = call[b]
        /\ \A b \in Cos : b # c => timer'[b] = timer[b] /\ cancel_fn'[b] = cancel_fn[b]
    BY <2>1 DEF WaitTypes
  <2>4. SchedInv' /\ \A b \in Cos : OnStack(b)' <=> OnStack(b)
    BY <2>1, <2>2, <2>3, SchedStay
  <2>5. current' = current
    BY <2>1 DEF swapVars
  <2>6. FramesStay
    BY Zenon, <2>1, <2>3, <2>4 DEF FramesStay
  <2>7. LibIdle'
    BY <2>1, <2>3, <2>5 DEF LibIdle
  <2>8. QED BY <2>1, <2>4, <2>6, <2>7
<1>4. CASE close
  <2>. DEFINE c == current
  <2>1. /\ c \in Cos /\ call[c] = "none" /\ LibIdle /\ SwapOut(c, "end")
        /\ UNCHANGED <<waitVars, lists, on_bailout>>
    BY <1>1, <1>4 DEF close, UserCode
  <2>2. WaitTypes' /\ UNCHANGED <<call, resume_code, timer, cancel_fn, user_yield_coros>>
    BY <2>1 DEF WaitTypes, waitVars, lists
  <2>3. c \notin user_yield_coros
    BY DEF SchedInv
  <2>4. /\ SchedInv' /\ current' # c /\ (current' \in Cos => call'[current'] = "none")
        /\ \A b \in Cos : b # c => (OnStack(b)' <=> OnStack(b))
    BY <2>1, <2>2, <2>3, SchedOut
  <2>5. FramesStay
    BY <2>1, <2>2, <2>4 DEF FramesStay
  <2>6. LibIdle'
    BY <2>4 DEF LibIdle
  <2>7. QED BY <2>1, <2>4, <2>5, <2>6
<1>5. ASSUME NEW c \in Cos, create(c) PROVE SchedInv' /\ LibIdle /\ LibIdle' /\ FramesStay
  <2>1. /\ UserCode /\ LibIdle /\ state[c] = "none" /\ SwapIn(c, "init")
        /\ UNCHANGED <<waitVars, lists, on_bailout>>
    BY <1>1, <1>5 DEF create
  <2>2. WaitTypes' /\ UNCHANGED <<call, resume_code, timer, cancel_fn, user_yield_coros, on_bailout>>
    BY <2>1 DEF WaitTypes, waitVars, lists
  <2>3. SwapTypeOK' /\ StackInv' /\ ~OnStack(c)
    BY <2>1, <2>2, SwapInStack DEF OnStack
  <2>4. current' = c /\ \A b \in Cos : b # c => state'[b] = state[b]
    BY <2>1 DEF SwapIn, SwapTypeOK
  <2>5. c # current /\ call[c] = "none"
    BY <2>1, <2>3, MainAssumption DEF StackInv, SchedInv
  <2>6. SchedInv'
    <3>1. TypeOK'
      BY <2>2, <2>3 DEF TypeOK, SwapTypeOK, WaitTypes
    <3>2. \A b \in Cos : call'[b] # "none" => state'[b] = "waiting" \/ current' = b
      BY <2>1, <2>2, <2>4 DEF SchedInv, UserCode
    <3>3. \A b \in user_yield_coros' : call'[b] = "yield" /\ current' # b
      BY <2>2, <2>4, <2>5 DEF SchedInv
    <3>4. QED BY <2>2, <2>3, <3>1, <3>2, <3>3 DEF SchedInv
  <2>7. FramesStay
    BY <2>2, <2>3, <2>4 DEF FramesStay, OnStack
  <2>8. LibIdle'
    BY <2>2, <2>4, <2>5 DEF LibIdle
  <2>9. QED BY <2>1, <2>6, <2>7, <2>8
<1>6. ASSUME NEW c \in Cos, resume_user(c) \/ cancel(c)
      PROVE  SchedInv' /\ LibIdle /\ LibIdle' /\ FramesStay
  <2>1. /\ UserCode /\ LibIdle /\ resume(c) /\ UNCHANGED <<on_bailout, call>>
        /\ call[c] \in {"yield", "async"} /\ user_yield_coros' = user_yield_coros \ {c}
        /\ waker' \in {"resume", "cancel"} /\ UNCHANGED <<timer, inflight>>
        /\ cancel_fn' = cancel_fn \/ cancel_fn' = [cancel_fn EXCEPT ![c] = FALSE]
        /\ resume_code' = resume_code \/ resume_code' = [resume_code EXCEPT ![c] = "canceled"]
    BY <1>1, <1>6 DEF resume_user, cancel, CancelWith, SchedInv
  <2>2. WaitTypes'
    BY Zenon, <2>1 DEF WaitTypes, Wakers, ResumeCodes
  <2>3. c # current
    BY <2>1 DEF UserCode
  <2>4. SchedInv' /\ current' = c /\ \A b \in Cos : OnStack(b) => OnStack(b)'
    BY <2>1, <2>2, <2>3, SchedWake DEF UserCode
  <2>5. \A b \in Cos : b # c => resume_code'[b] = resume_code[b] /\ cancel_fn'[b] = cancel_fn[b]
    BY <2>1 DEF WaitTypes
  <2>6. FramesStay
    BY <2>1, <2>4, <2>5 DEF FramesStay
  <2>7. LibIdle'
    BY <2>1, <2>4 DEF LibIdle
  <2>8. QED BY <2>1, <2>4, <2>6, <2>7
<1>7. QED BY <1>2, <1>3, <1>4, <1>5, <1>6 DEF Elsewhere

LEMMA SchedInit == CoInit => SchedInv /\ LibIdle
<1>1. SUFFICES ASSUME CoInit PROVE SchedInv /\ LibIdle
  OBVIOUS
<1>2. TypeOK /\ StackInv
  BY <1>1, InitIInv DEF IInv
<1>3. /\ current = Main /\ user_yield_coros = {} /\ on_bailout = "no"
      /\ \A c \in Cos : call[c] = "none"
  BY <1>1 DEF CoInit
<1>4. QED BY <1>2, <1>3, MainAssumption DEF SchedInv, LibIdle

-----------------------------------------------------------------------------
(* The lists of waiting coroutines.                                        *)

In(queue, c) == \E i \in DOMAIN queue : queue[i] = c
Once(queue) == \A i, j \in DOMAIN queue : queue[i] = queue[j] => i = j

LEMMA QueueEmpty ==
  ASSUME NEW S, NEW q \in Seq(S)
  PROVE  q = <<>> <=> \A x \in S : ~In(q, x)
<1>1. q # <<>> => 1 \in DOMAIN q /\ q[1] \in S
  OBVIOUS
<1>2. q = <<>> => DOMAIN q = {}
  OBVIOUS
<1>3. QED BY <1>1, <1>2 DEF In

LEMMA QueueAppend ==
  ASSUME NEW S, NEW q \in Seq(S), Once(q), NEW c \in S, ~In(q, c)
  PROVE  /\ Append(q, c) \in Seq(S) /\ Once(Append(q, c)) /\ Append(q, c) # <<>>
         /\ \A x \in S : In(Append(q, c), x) <=> In(q, x) \/ x = c
<1>. DEFINE r == Append(q, c)
<1>1. /\ r \in Seq(S) /\ Len(q) \in Nat /\ DOMAIN q = 1..Len(q)
      /\ DOMAIN r = 1..(Len(q) + 1) /\ r[Len(q) + 1] = c
      /\ \A i \in DOMAIN q : r[i] = q[i]
  OBVIOUS
<1>. HIDE DEF r
<1>2. \A i \in DOMAIN r : i \in DOMAIN q \/ i = Len(q) + 1
  BY <1>1
<1>3. DOMAIN q \subseteq DOMAIN r /\ Len(q) + 1 \in DOMAIN r
  BY <1>1
<1>4. Once(r)
  BY <1>1, <1>2 DEF Once, In
<1>5. \A x \in S : In(r, x) <=> In(q, x) \/ x = c
  BY <1>1, <1>2, <1>3 DEF In
<1>6. r # <<>>
  BY <1>3
<1>7. QED BY <1>1, <1>4, <1>5, <1>6 DEF r

(* pop_coroutine() takes the only entry of the first waiter.               *)
LEMMA QueueTail ==
  ASSUME NEW S, NEW q \in Seq(S), q # <<>>, Once(q)
  PROVE  /\ Head(q) \in S /\ In(q, Head(q))
         /\ Tail(q) \in Seq(S) /\ Once(Tail(q))
         /\ \A x \in S : In(Tail(q), x) <=> In(q, x) /\ x # Head(q)
<1>. DEFINE r == Tail(q)
<1>1. /\ r \in Seq(S) /\ Len(q) \in Nat /\ DOMAIN q = 1..Len(q) /\ Len(q) > 0
      /\ DOMAIN r = 1..(Len(q) - 1) /\ Head(q) = q[1] /\ Head(q) \in S
      /\ \A i \in DOMAIN r : r[i] = q[i + 1]
  OBVIOUS
<1>. HIDE DEF r
<1>. DEFINE up(i) == i + 1
            down(i) == i - 1
<1>2. /\ 1 \in DOMAIN q
      /\ \A i \in DOMAIN r : up(i) \in DOMAIN q /\ up(i) # 1 /\ r[i] = q[up(i)]
      /\ \A i \in DOMAIN q : i # 1 => down(i) \in DOMAIN r /\ r[down(i)] = q[i]
      /\ \A i, j \in DOMAIN r : up(i) = up(j) => i = j
  BY <1>1
<1>. HIDE DEF up, down
<1>3. Once(r)
  BY <1>2 DEF Once
<1>4. ASSUME NEW x \in S PROVE In(r, x) <=> In(q, x) /\ x # Head(q)
  <2>1. In(r, x) => In(q, x) /\ x # Head(q)
    BY <1>1, <1>2 DEF In, Once
  <2>2. In(q, x) /\ x # Head(q) => In(r, x)
    BY <1>1, <1>2 DEF In
  <2>3. QED BY <2>1, <2>2
<1>5. In(q, Head(q))
  BY <1>1, <1>2 DEF In
<1>6. QED BY <1>1, <1>3, <1>4, <1>5 DEF r

LEMMA SubSeqFacts ==
  ASSUME NEW S, NEW s \in Seq(S), NEW m \in Nat, NEW n \in Nat, 1 <= m, m <= n + 1, n <= Len(s)
  PROVE  /\ SubSeq(s, m, n) \in Seq(S) /\ Len(SubSeq(s, m, n)) = n - m + 1
         /\ \A i \in 1..(n - m + 1) : SubSeq(s, m, n)[i] = s[m + i - 1]
<1>1. \A i \in m..n : s[i] \in S
  OBVIOUS
<1>2. SubSeq(s, m, n) \in Seq(S)
  BY <1>1
<1>3. Len(SubSeq(s, m, n)) = IF m <= n THEN n - m + 1 ELSE 0
  OBVIOUS
<1>4. \A i \in 1..(n - m + 1) : SubSeq(s, m, n)[i] = s[m + i - 1]
  OBVIOUS
<1>5. m <= n \/ n - m + 1 = 0
  OBVIOUS
<1>6. QED BY <1>2, <1>3, <1>4, <1>5

LEMMA QueueRemove ==
  ASSUME NEW S, NEW q \in Seq(S), Once(q), NEW c \in S
  PROVE  /\ Remove(q, c) \in Seq(S) /\ Once(Remove(q, c))
         /\ \A x \in S : In(Remove(q, c), x) <=> In(q, x) /\ x # c
<1>1. CASE Entries(q, c) = {}
  <2>1. Remove(q, c) = q /\ ~In(q, c)
    BY <1>1 DEF Remove, Entries, In
  <2>2. QED BY <2>1
<1>2. CASE Entries(q, c) # {}
  <2>1. PICK k \in Entries(q, c) :
           Remove(q, c) = SubSeq(q, 1, k - 1) \o SubSeq(q, k + 1, Len(q))
    BY Zenon, <1>2 DEF Remove
  <2>. DEFINE r == SubSeq(q, 1, k - 1) \o SubSeq(q, k + 1, Len(q))
              n == Len(q)
  <2>2. k \in 1..n /\ q[k] = c /\ n \in Nat /\ DOMAIN q = 1..n
    BY DEF Entries
  <2>. DEFINE a == SubSeq(q, 1, k - 1)
              b == SubSeq(q, k + 1, n)
  <2>3. /\ a \in Seq(S) /\ Len(a) = (k - 1) - 1 + 1
        /\ \A i \in 1..((k - 1) - 1 + 1) : a[i] = q[1 + i - 1]
    <3>1. k - 1 \in Nat /\ 1 <= (k - 1) + 1 /\ k - 1 <= Len(q)
      BY <2>2
    <3>2. QED BY <3>1, SubSeqFacts
  <2>4. /\ b \in Seq(S) /\ Len(b) = n - (k + 1) + 1
        /\ \A i \in 1..(n - (k + 1) + 1) : b[i] = q[k + 1 + i - 1]
    <3>1. k + 1 \in Nat /\ 1 <= k + 1 /\ k + 1 <= n + 1 /\ n <= Len(q) /\ n \in Nat
      BY <2>2
    <3>. HIDE DEF n
    <3>2. QED BY <3>1, SubSeqFacts
  <2>5. r = a \o b
    OBVIOUS
  <2>. HIDE DEF r, a, b, n
  <2>6. /\ (k - 1) - 1 + 1 = k - 1 /\ n - (k + 1) + 1 = n - k
        /\ k - 1 \in Nat /\ n - k \in Nat
    BY <2>2
  <2>7. /\ r \in Seq(S) /\ Len(r) = (k - 1) + (n - k)
        /\ \A i \in 1..(k - 1) : r[i] = a[i]
        /\ \A i \in (k - 1 + 1)..(k - 1 + (n - k)) : r[i] = b[i - (k - 1)]
    <3>1. Len(a) = k - 1 /\ Len(b) = n - k
      BY <2>3, <2>4, <2>6
    <3>. DEFINE m1 == k - 1
                m2 == n - k
    <3>2. a \in Seq(S) /\ b \in Seq(S) /\ Len(a) = m1 /\ Len(b) = m2
          /\ m1 \in Nat /\ m2 \in Nat
      BY <2>3, <2>4, <2>6, <3>1
    <3>. HIDE DEF m1, m2
    <3>3. /\ r \in Seq(S) /\ Len(r) = m1 + m2
          /\ \A i \in 1..m1 : r[i] = a[i]
          /\ \A i \in (m1 + 1)..(m1 + m2) : r[i] = b[i - m1]
      <4>1. /\ a \o b \in Seq(S) /\ Len(a \o b) = m1 + m2
            /\ \A i \in 1..m1 : (a \o b)[i] = a[i]
            /\ \A i \in (m1 + 1)..(m1 + m2) : (a \o b)[i] = b[i - m1]
        BY <3>2
      <4>2. QED BY <2>5, <4>1, Zenon
    <3>4. QED BY <3>3 DEF m1, m2
  <2>8. DOMAIN r = 1..(n - 1)
    BY <2>2, <2>7
  <2>9. ASSUME NEW i \in 1..(n - 1) PROVE r[i] = IF i < k THEN q[i] ELSE q[i + 1]
    <3>1. CASE i < k
      <4>1. i \in 1..(k - 1) /\ 1 + i - 1 = i
        BY <2>2, <3>1
      <4>2. QED BY <2>3, <2>6, <2>7, <3>1, <4>1
    <3>2. CASE i >= k
      <4>. DEFINE j == i - (k - 1)
      <4>1. i \in (k - 1 + 1)..(k - 1 + (n - k)) /\ j \in 1..(n - k) /\ k + 1 + j - 1 = i + 1
        BY <2>2, <3>2
      <4>2. r[i] = b[j]
        BY <2>7, <4>1
      <4>. HIDE DEF j
      <4>3. b[j] = q[k + 1 + j - 1]
        BY <2>4, <2>6, <4>1
      <4>4. QED BY <2>2, <3>2, <4>1, <4>2, <4>3
    <3>3. QED BY <2>2, <3>1, <3>2
  <2>. DEFINE up(i) == IF i < k THEN i ELSE i + 1
              down(i) == IF i < k THEN i ELSE i - 1
  <2>10. /\ \A i \in DOMAIN r : up(i) \in DOMAIN q /\ up(i) # k /\ r[i] = q[up(i)]
         /\ \A i, j \in DOMAIN r : up(i) = up(j) => i = j
         /\ \A i \in DOMAIN q : i # k => down(i) \in DOMAIN r /\ r[down(i)] = q[i]
         /\ k \in DOMAIN q
    BY <2>2, <2>8, <2>9
  <2>. HIDE DEF up, down
  <2>11. Once(r)
    BY <2>10 DEF Once
  <2>12. ASSUME NEW x \in S PROVE In(r, x) <=> In(q, x) /\ x # c
    <3>1. In(r, x) => In(q, x) /\ x # c
      BY <2>2, <2>10 DEF In, Once
    <3>2. In(q, x) /\ x # c => In(r, x)
      BY <2>2, <2>10 DEF In
    <3>3. QED BY <3>1, <3>2
  <2>13. QED BY <2>1, <2>7, <2>11, <2>12 DEF r, a, b, n
<1>3. QED BY <1>1, <1>2

=============================================================================
