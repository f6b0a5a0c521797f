----------------------------- MODULE UringProofs ----------------------------
(***************************************************************************)
(* Proofs about the files read and written through io_uring, for any set   *)
(* of coroutines and of requests: a request outlives its caller exactly    *)
(* when the timer or cancel() was first, a completion resumes the caller   *)
(* it was made for, and pending_count counts the callers that wait.        *)
(***************************************************************************)
EXTENDS IoUringEngine, CoroutineProofs, FiniteSetTheorems

Callers == {c \in Cos : awaits[c] # {}}

UringTypes ==
  /\ live \subseteq Reqs /\ abandoned \subseteq Reqs /\ in_kernel \subseteq Reqs
  /\ req_co \in [Reqs -> Cos \cup {Main}]
  /\ cq \in Seq(Reqs)
  /\ awaits \in [Cos -> SUBSET Reqs]
  /\ IsFiniteSet(Callers)

(* A call waits for one request, which is still on its way exactly until   *)
(* the walk resumes the call for it: when the timer or cancel() was first, *)
(* the completion is still to come.                                        *)
OneRequest ==
  \A c \in Cos :
    /\ call[c] = "lib" <=> awaits[c] # {}
    /\ awaits[c] # {} => \E r \in Reqs : awaits[c] = {r}
    /\ current # c /\ awaits[c] # {} => resume_code[c] = "ok"
    /\ current # c \/ resume_code[c] # "ok" => awaits[c] \subseteq in_kernel \cup Unseen

UringIInv == SchedInv /\ UringTypes /\ OneRequest /\ RequestsExact

LEMMA UnseenIs ==
  ASSUME cq \in Seq(Reqs)
  PROVE  Unseen \subseteq Reqs /\ \A r \in Reqs : r \in Unseen <=> In(cq, r)
BY DEF Unseen, In

LEMMA UringElseInv ==
  ASSUME UringIInv, UringCoStep
  PROVE  UringIInv'
<1>1. Elsewhere /\ UNCHANGED <<live, req_co, abandoned, in_kernel, cq, awaits, pending_count>>
  BY DEF UringCoStep, Elsewhere, uringOwn, ringVars
<1>2. SchedInv' /\ LibIdle /\ LibIdle' /\ FramesStay
  BY <1>1, SchedElse DEF UringIInv
<1>3. Callers' = Callers /\ Unseen' = Unseen /\ Awaited' = Awaited
  BY <1>1 DEF Callers, Unseen, Awaited
<1>4. UringTypes'
  BY <1>1, <1>3 DEF UringIInv, UringTypes
<1>5. \A c \in Cos : awaits[c] # {} => call[c] = "lib" /\ current # c /\ current' # c
  BY <1>2 DEF UringIInv, OneRequest, LibIdle, FramesStay
<1>6. OneRequest'
  <2>1. SUFFICES ASSUME NEW c \in Cos
                 PROVE  /\ call'[c] = "lib" <=> awaits[c] # {}
                        /\ awaits[c] # {} => \E r \in Reqs : awaits[c] = {r}
                        /\ awaits[c] # {} => resume_code'[c] = "ok"
                        /\ awaits[c] \subseteq in_kernel \cup Unseen
    BY <1>1, <1>3 DEF OneRequest
  <2>2. /\ call[c] = "lib" <=> awaits[c] # {}
        /\ awaits[c] # {} => \E r \in Reqs : awaits[c] = {r}
        /\ awaits[c] # {} => resume_code[c] = "ok"
        /\ awaits[c] \subseteq in_kernel \cup Unseen
    BY <1>5 DEF UringIInv, OneRequest
  <2>3. QED BY <1>2, <2>2 DEF FramesStay
<1>7. RequestsExact'
  <2>1. \A c \in Cos : current' = c => awaits[c] = {}
    BY <1>5
  <2>2. Cardinality(Callers') = Cardinality(Callers)
    BY <1>3
  <2>3. QED BY <1>1, <1>3, <2>1, <2>2 DEF UringIInv, RequestsExact, Callers
<1>8. QED BY <1>2, <1>4, <1>6, <1>7 DEF UringIInv

(* Steps that do not touch the requests: a wake-up by the timer or by      *)
(* cancel().                                                               *)
LEMMA GiveUpInv ==
  ASSUME UringIInv, NEW c \in Cos, awaits[c] # {}, current \in Cos => call[current] = "none",
         resume(c), NEW code \in {"timedout", "canceled"},
         resume_code' = [resume_code EXCEPT ![c] = code],
         WaitTypes', UNCHANGED <<call, lists, on_bailout, uringOwn>>
  PROVE  UringIInv'
<1>1. UNCHANGED <<live, req_co, abandoned, in_kernel, cq, awaits, pending_count, user_yield_coros>>
  BY DEF uringOwn, ringVars, lists
<1>2. call[c] = "lib" /\ c # current
  BY DEF UringIInv, OneRequest
<1>3. c \notin user_yield_coros
  BY <1>2 DEF UringIInv, SchedInv
<1>4. SchedInv' /\ current' = c
  BY <1>1, <1>2, <1>3, SchedWake DEF UringIInv
<1>5. /\ resume_code'[c] = code /\ code # "ok"
      /\ \A b \in Cos : b # c => resume_code'[b] = resume_code[b]
  BY DEF UringIInv, SchedInv, TypeOK
<1>6. Callers' = Callers /\ Unseen' = Unseen /\ Awaited' = Awaited
  BY <1>1 DEF Callers, Unseen, Awaited
<1>7. UringTypes'
  BY <1>1, <1>6 DEF UringIInv, UringTypes
<1>8. \A b \in Cos : awaits[b] # {} => current # b
  BY DEF UringIInv, OneRequest
<1>9. OneRequest'
  <2>1. SUFFICES ASSUME NEW b \in Cos
                 PROVE  /\ call[b] = "lib" <=> awaits[b] # {}
                        /\ awaits[b] # {} => \E r \in Reqs : awaits[b] = {r}
                        /\ c # b /\ awaits[b] # {} => resume_code'[b] = "ok"
                        /\ awaits[b] \subseteq in_kernel \cup Unseen
    BY <1>1, <1>4, <1>6 DEF OneRequest
  <2>2. /\ call[b] = "lib" <=> awaits[b] # {}
        /\ awaits[b] # {} => \E r \in Reqs : awaits[b] = {r}
        /\ awaits[b] # {} => resume_code[b] = "ok"
        /\ awaits[b] \subseteq in_kernel \cup Unseen
    BY <1>8 DEF UringIInv, OneRequest
  <2>3. QED BY <1>5, <2>2
<1>10. RequestsExact'
  <2>1. Cardinality(Callers') = Cardinality(Callers)
    BY <1>6
  <2>2. QED BY <1>1, <1>4, <1>5, <1>6, <2>1 DEF UringIInv, RequestsExact, Callers
<1>11. QED BY <1>4, <1>7, <1>9, <1>10 DEF UringIInv

LEMMA UringTimerInv ==
  ASSUME UringIInv, NEW c \in Cos, uring_timer_callback(c)
  PROVE  UringIInv'
<1>1. /\ awaits[c] # {} /\ current = Main /\ resume(c) /\ waker' = "timer"
      /\ timer' = [timer EXCEPT ![c] = FALSE]
      /\ resume_code' = [resume_code EXCEPT ![c] = "timedout"]
      /\ UNCHANGED <<cancel_fn, call, lists, on_bailout, uringOwn, user_yield_coros, inflight>>
  BY DEF uring_timer_callback, FireTimer, lists
<1>2. WaitTypes
  BY SplitTypes DEF UringIInv, SchedInv
<1>3. WaitTypes'
  BY <1>1, <1>2 DEF WaitTypes, Wakers, ResumeCodes
<1>4. QED BY Zenon, <1>1, <1>3, GiveUpInv, MainAssumption

LEMMA UringCancelInv ==
  ASSUME UringIInv, NEW c \in Cos, uring_cancel(c)
  PROVE  UringIInv'
<1>1. /\ awaits[c] # {} /\ (current \in Cos => call[current] = "none") /\ resume(c)
      /\ waker' = "cancel" /\ cancel_fn' = [cancel_fn EXCEPT ![c] = FALSE]
      /\ resume_code' = [resume_code EXCEPT ![c] = "canceled"]
      /\ UNCHANGED <<timer, call, lists, on_bailout, uringOwn, user_yield_coros, inflight>>
  BY DEF uring_cancel, CancelWith, UserCode, lists
<1>2. WaitTypes
  BY SplitTypes DEF UringIInv, SchedInv
<1>3. WaitTypes'
  BY <1>1, <1>2 DEF WaitTypes, Wakers, ResumeCodes
<1>4. QED BY Zenon, <1>1, <1>3, GiveUpInv

LEMMA SubmitInv ==
  ASSUME UringIInv, NEW r \in Reqs, submit_and_yield(r)
  PROVE  UringIInv'
<1>. DEFINE c == current
<1>. SchedInv /\ UringTypes /\ OneRequest /\ RequestsExact /\ WaitTypes
  BY SplitTypes DEF UringIInv, SchedInv
<1>1. /\ c \in Cos /\ call[c] = "none" /\ r \notin live
      /\ live' = live \cup {r} /\ req_co' = [req_co EXCEPT ![r] = c]
      /\ in_kernel' = in_kernel \cup {r} /\ pending_count' = pending_count + 1
      /\ awaits' = [awaits EXCEPT ![c] = {r}]
      /\ SwapOut(c, "waiting") /\ call' = [call EXCEPT ![c] = "lib"]
      /\ resume_code' = [resume_code EXCEPT ![c] = "ok"]
      /\ cancel_fn' = [cancel_fn EXCEPT ![c] = TRUE] /\ timer' = [timer EXCEPT ![c] = TRUE]
      /\ UNCHANGED <<waker, user_yield_coros, inflight, on_bailout, abandoned, cq>>
  BY Zenon DEF submit_and_yield, UserCode, BlockIn, TimerAdded, lists
<1>2. WaitTypes'
  BY <1>1 DEF WaitTypes, ResumeCodes, Calls
<1>3. /\ call'[c] = "lib" /\ resume_code'[c] = "ok" /\ awaits'[c] = {r} /\ req_co'[r] = c
      /\ \A b \in Cos : b # c => /\ call'[b] = call[b] /\ resume_code'[b] = resume_code[b]
                                 /\ awaits'[b] = awaits[b]
      /\ \A s \in Reqs : s # r => req_co'[s] = req_co[s]
  BY <1>1 DEF WaitTypes, UringTypes
<1>4. c \notin user_yield_coros /\ awaits[c] = {}
  BY <1>1 DEF SchedInv, OneRequest
<1>5. SchedInv' /\ current' # c /\ (current' \in Cos => call'[current'] = "none")
  BY <1>1, <1>2, <1>3, <1>4, SchedOut
<1>. HIDE DEF c
<1>6. Unseen' = Unseen
  BY <1>1 DEF Unseen
<1>7. r \notin in_kernel /\ r \notin Unseen /\ r \notin Awaited
  BY <1>1 DEF RequestsExact
<1>8. Awaited' = Awaited \cup {r}
  BY <1>1, <1>3, <1>4 DEF Awaited
<1>9. Callers' = Callers \cup {c} /\ c \notin Callers
  BY <1>1, <1>3, <1>4 DEF Callers
<1>10. IsFiniteSet(Callers') /\ Cardinality(Callers') = Cardinality(Callers) + 1
  BY <1>9, FS_AddElement DEF UringTypes
<1>11. UringTypes'
  BY <1>1, <1>10 DEF UringTypes
<1>12. \A b \in Cos : awaits[b] # {} => current # b /\ current' # b
  BY <1>3, <1>4, <1>5 DEF OneRequest, c
<1>13. OneRequest'
  <2>1. ASSUME NEW b \in Cos
        PROVE  /\ call'[b] = "lib" <=> awaits'[b] # {}
               /\ awaits'[b] # {} => \E s \in Reqs : awaits'[b] = {s}
               /\ awaits'[b] # {} => resume_code'[b] = "ok"
               /\ awaits'[b] \subseteq in_kernel' \cup Unseen'
    <3>1. CASE b = c
      BY <1>1, <1>3, <3>1
    <3>2. CASE b # c
      BY <1>1, <1>3, <1>6, <1>12, <3>2 DEF OneRequest
    <3>3. QED BY <3>1, <3>2
  <2>2. QED BY <2>1 DEF OneRequest
<1>14. RequestsExact'
  <2>1. live' = in_kernel' \cup Unseen' \cup Awaited' /\ in_kernel' \cap Unseen' = {}
    BY <1>1, <1>6, <1>7, <1>8 DEF RequestsExact
  <2>2. abandoned' = live' \ Awaited'
    BY <1>1, <1>8 DEF RequestsExact
  <2>3. \A b \in Cos, s \in Reqs : s \in awaits'[b] => req_co'[s] = b
    <3>1. \A b \in Cos : r \notin awaits[b]
      BY <1>7 DEF Awaited
    <3>2. QED BY <1>3, <3>1 DEF RequestsExact
  <2>4. pending_count' = Cardinality(Callers')
    BY <1>1, <1>10 DEF RequestsExact, Callers
  <2>5. \A b \in Cos : current' = b => awaits'[b] = {}
    BY <1>3, <1>5, <1>12
  <2>6. QED BY <1>1, <2>1, <2>2, <2>3, <2>4, <2>5 DEF RequestsExact, Callers
<1>15. QED BY <1>5, <1>11, <1>13, <1>14 DEF UringIInv

LEMMA AfterSubmitInv ==
  ASSUME UringIInv, after_submit
  PROVE  UringIInv'
<1>. DEFINE c == current
<1>. SchedInv /\ UringTypes /\ OneRequest /\ RequestsExact /\ WaitTypes
  BY SplitTypes DEF UringIInv, SchedInv
<1>1. /\ c \in Cos /\ awaits[c] # {} /\ pending_count' = pending_count - 1
      /\ awaits' = [awaits EXCEPT ![c] = {}]
      /\ UNCHANGED <<swapVars, on_bailout, user_yield_coros>> /\ call' = [call EXCEPT ![c] = "none"]
      /\ cancel_fn' = [cancel_fn EXCEPT ![c] = FALSE] /\ timer' = [timer EXCEPT ![c] = FALSE]
      /\ waker' = "none" /\ UNCHANGED <<resume_code, inflight, current, req_co, in_kernel, cq>>
      /\ IF resume_code[c] = "ok"
         THEN live' = live \ awaits[c] /\ UNCHANGED abandoned
         ELSE abandoned' = abandoned \cup awaits[c] /\ UNCHANGED live
  BY DEF after_submit, Unblock, lists, swapVars
<1>2. WaitTypes'
  BY <1>1 DEF WaitTypes, Wakers, Calls
<1>3. /\ call'[c] = "none" /\ awaits'[c] = {}
      /\ \A b \in Cos : b # c => call'[b] = call[b] /\ awaits'[b] = awaits[b]
  BY <1>1 DEF WaitTypes, UringTypes
<1>4. SchedInv'
  BY <1>1, <1>2, <1>3, SchedStay
<1>5. PICK r \in Reqs : awaits[c] = {r}
  BY <1>1 DEF OneRequest
<1>6. /\ \A b \in Cos : b # c => r \notin awaits[b]
      /\ r \in live /\ r \in Awaited
  BY <1>1, <1>5 DEF RequestsExact, Awaited
<1>7. resume_code[c] = "ok" => r \notin in_kernel \cup Unseen
  BY <1>1, <1>5 DEF RequestsExact
<1>8. resume_code[c] # "ok" => r \in in_kernel \cup Unseen
  BY <1>1, <1>5 DEF OneRequest
<1>. HIDE DEF c
<1>9. Unseen' = Unseen /\ Awaited' = Awaited \ {r}
  <2>1. Unseen' = Unseen
    BY <1>1 DEF Unseen
  <2>2. Awaited' = Awaited \ {r}
    BY <1>1, <1>3, <1>5, <1>6 DEF Awaited
  <2>3. QED BY <2>1, <2>2
<1>10. Callers' = Callers \ {c} /\ c \in Callers
  BY <1>1, <1>3 DEF Callers
<1>11. IsFiniteSet(Callers') /\ Cardinality(Callers') = Cardinality(Callers) - 1
  BY <1>10, FS_RemoveElement DEF UringTypes
<1>12. UringTypes'
  BY <1>1, <1>11 DEF UringTypes
<1>13. OneRequest'
  <2>1. ASSUME NEW b \in Cos
        PROVE  /\ call'[b] = "lib" <=> awaits'[b] # {}
               /\ awaits'[b] # {} => \E s \in Reqs : awaits'[b] = {s}
               /\ awaits'[b] # {} => resume_code'[b] = "ok"
               /\ awaits'[b] \subseteq in_kernel' \cup Unseen'
    <3>1. CASE b = c
      BY <1>3, <3>1
    <3>2. CASE b # c
      BY <1>1, <1>3, <1>9, <3>2 DEF OneRequest, c
    <3>3. QED BY <3>1, <3>2
  <2>2. QED BY <2>1 DEF OneRequest
<1>14. RequestsExact'
  <2>1. live' = in_kernel' \cup Unseen' \cup Awaited' /\ abandoned' = live' \ Awaited'
    <3>1. CASE resume_code[c] = "ok"
      <4>1. live' = live \ {r} /\ abandoned' = abandoned
        BY <1>1, <1>5, <3>1
      <4>2. QED BY <1>1, <1>7, <1>9, <3>1, <4>1 DEF RequestsExact
    <3>2. CASE resume_code[c] # "ok"
      <4>1. live' = live /\ abandoned' = abandoned \cup {r}
        BY <1>1, <1>5, <3>2
      <4>2. QED BY <1>1, <1>6, <1>8, <1>9, <3>2, <4>1 DEF RequestsExact
    <3>3. QED BY <3>1, <3>2
  <2>2. in_kernel' \cap Unseen' = {}
    BY <1>1, <1>9 DEF RequestsExact
  <2>3. \A b \in Cos, s \in Reqs : s \in awaits'[b] => req_co'[s] = b
    BY <1>1, <1>3 DEF RequestsExact
  <2>4. pending_count' = Cardinality(Callers')
    BY <1>1, <1>11 DEF RequestsExact, Callers
  <2>5. \A b \in Cos : current' = b => awaits'[b] = {}
    BY <1>1, <1>3 DEF c
  <2>6. QED BY <1>1, <2>1, <2>2, <2>3, <2>4, <2>5 DEF RequestsExact, Callers
<1>15. QED BY <1>4, <1>12, <1>13, <1>14 DEF UringIInv

LEMMA CompletesInv ==
  ASSUME UringIInv, NEW r \in Reqs, kernel_completes(r)
  PROVE  UringIInv'
<1>. SchedInv /\ UringTypes /\ OneRequest /\ RequestsExact
  BY DEF UringIInv
<1>1. /\ r \in in_kernel /\ in_kernel' = in_kernel \ {r} /\ cq' = Append(cq, r)
      /\ UNCHANGED <<coVars, live, req_co, abandoned, awaits, pending_count>>
      /\ UNCHANGED <<current, call, resume_code>>
  BY DEF kernel_completes, coVars, swapVars, waitVars
<1>2. SchedInv'
  BY <1>1, SchedSame
<1>3. cq \in Seq(Reqs) /\ Once(cq) /\ ~In(cq, r)
  <2>1. cq \in Seq(Reqs) /\ Once(cq) /\ r \notin Unseen
    BY <1>1 DEF UringTypes, RequestsExact, Once
  <2>2. QED BY <2>1, UnseenIs
<1>4. cq' \in Seq(Reqs) /\ Once(cq') /\ \A x \in Reqs : In(cq', x) <=> In(cq, x) \/ x = r
  BY <1>1, <1>3, QueueAppend
<1>5. Unseen' = Unseen \cup {r}
  <2>1. Unseen' \subseteq Reqs /\ \A x \in Reqs : x \in Unseen' <=> In(cq', x)
    BY <1>4 DEF Unseen, In
  <2>2. Unseen \subseteq Reqs /\ \A x \in Reqs : x \in Unseen <=> In(cq, x)
    BY <1>3, UnseenIs
  <2>3. QED BY <1>4, <2>1, <2>2
<1>6. Awaited' = Awaited /\ Callers' = Callers /\ in_kernel' \cup Unseen' = in_kernel \cup Unseen
  BY <1>1, <1>5 DEF Awaited, Callers
<1>7. UringTypes'
  BY <1>1, <1>4, <1>6 DEF UringTypes
<1>8. OneRequest'
  BY Zenon, <1>1, <1>6 DEF OneRequest
<1>9. RequestsExact'
  <2>1. in_kernel' \cap Unseen' = {}
    BY <1>1, <1>5 DEF RequestsExact
  <2>2. live' = in_kernel' \cup Unseen' \cup Awaited' /\ abandoned' = live' \ Awaited'
    BY <1>1, <1>6 DEF RequestsExact
  <2>3. pending_count' = Cardinality(Callers')
    BY <1>1, <1>6 DEF RequestsExact, Callers
  <2>4. \A c \in Cos : current' = c /\ awaits'[c] # {} /\ resume_code'[c] = "ok" =>
          awaits'[c] \cap (in_kernel' \cup Unseen') = {}
    BY <1>1, <1>6 DEF RequestsExact
  <2>5. QED BY <1>1, <1>4, <2>1, <2>2, <2>3, <2>4 DEF RequestsExact, Callers, Once
<1>10. QED BY <1>2, <1>7, <1>8, <1>9 DEF UringIInv

(* A turn of the walk: a request nobody waits for any more is deleted, the *)
(* caller of another runs at once.                                         *)
LEMMA ProcessNextInv ==
  ASSUME UringIInv, process_next
  PROVE  UringIInv'
<1>. SchedInv /\ UringTypes /\ OneRequest /\ RequestsExact /\ WaitTypes
  BY SplitTypes DEF UringIInv, SchedInv
<1>. DEFINE r == Head(cq)
<1>1. /\ current = Main /\ cq # <<>> /\ cq' = Tail(cq)
      /\ IF r \in abandoned
         THEN live' = live \ {r} /\ abandoned' = abandoned \ {r} /\ UNCHANGED coVars
         ELSE /\ waker' = "resume" /\ resume(req_co[r])
              /\ UNCHANGED <<live, abandoned, resume_code, cancel_fn, timer, call, lists, on_bailout>>
      /\ UNCHANGED <<req_co, in_kernel, awaits, pending_count>>
  BY DEF process_next
<1>2. cq \in Seq(Reqs) /\ Once(cq)
  BY DEF UringTypes, RequestsExact, Once
<1>3. /\ r \in Reqs /\ In(cq, r) /\ cq' \in Seq(Reqs) /\ Once(cq')
      /\ \A x \in Reqs : In(cq', x) <=> In(cq, x) /\ x # r
  BY <1>1, <1>2, QueueTail
<1>4. r \in Unseen /\ Unseen' = Unseen \ {r}
  <2>1. Unseen' \subseteq Reqs /\ \A x \in Reqs : x \in Unseen' <=> In(cq', x)
    BY <1>3 DEF Unseen, In
  <2>2. Unseen \subseteq Reqs /\ \A x \in Reqs : x \in Unseen <=> In(cq, x)
    BY <1>2, UnseenIs
  <2>3. QED BY <1>3, <2>1, <2>2
<1>. HIDE DEF r
<1>5. r \notin in_kernel /\ r \in live
  BY <1>4 DEF RequestsExact
<1>6. Awaited' = Awaited /\ Callers' = Callers
  BY <1>1 DEF Awaited, Callers
<1>7. pending_count' = Cardinality(Callers') /\ in_kernel' \cap Unseen' = {}
  BY <1>1, <1>4, <1>6 DEF RequestsExact, Callers
<1>8. CASE r \in abandoned
  <2>1. /\ live' = live \ {r} /\ abandoned' = abandoned \ {r} /\ UNCHANGED coVars
        /\ UNCHANGED <<current, call, resume_code>>
    BY <1>1, <1>8 DEF coVars, swapVars, waitVars
  <2>2. SchedInv'
    BY Zenon, <2>1, SchedSame
  <2>3. r \notin Awaited /\ \A c \in Cos : r \notin awaits[c]
    BY <1>3, <1>8 DEF RequestsExact, Awaited
  <2>4. UringTypes'
    BY Zenon, <1>1, <1>3, <1>6, <2>1 DEF UringTypes
  <2>5. OneRequest'
    BY Zenon, <1>1, <1>4, <2>1, <2>3 DEF OneRequest
  <2>6. live' = in_kernel' \cup Unseen' \cup Awaited' /\ abandoned' = live' \ Awaited'
    BY <1>1, <1>4, <1>5, <1>6, <2>1, <2>3 DEF RequestsExact
  <2>7. RequestsExact'
    BY Zenon, <1>1, <1>3, <1>4, <1>7, <2>1, <2>6 DEF RequestsExact, Callers, Once
  <2>8. QED BY <2>2, <2>4, <2>5, <2>7 DEF UringIInv
<1>9. CASE r \notin abandoned
  <2>1. r \in Awaited
    BY <1>5, <1>9 DEF RequestsExact
  <2>2. PICK c \in Cos : r \in awaits[c]
    BY <2>1 DEF Awaited
  <2>3. req_co[r] = c /\ awaits[c] = {r} /\ call[c] = "lib"
    BY <1>3, <2>2 DEF RequestsExact, OneRequest
  <2>4. /\ waker' = "resume" /\ resume(c) /\ current \notin Cos
        /\ UNCHANGED <<live, abandoned, resume_code, cancel_fn, timer, call, on_bailout>>
        /\ UNCHANGED <<user_yield_coros, inflight>>
    BY <1>1, <1>9, <2>3, MainAssumption DEF lists
  <2>5. WaitTypes'
    BY Zenon, <2>4 DEF WaitTypes, Wakers
  <2>6. c # current /\ c \notin user_yield_coros
    BY <2>3, <2>4 DEF SchedInv
  <2>7. SchedInv' /\ current' = c
    BY <2>3, <2>4, <2>5, <2>6, SchedWake
  <2>8. UringTypes'
    BY Zenon, <1>1, <1>3, <1>6, <2>4 DEF UringTypes
  <2>9. resume_code[c] = "ok" /\ \A b \in Cos : b # c => r \notin awaits[b]
    BY <1>3, <2>3, <2>6 DEF OneRequest, RequestsExact
  <2>10. OneRequest'
    <3>1. ASSUME NEW b \in Cos
          PROVE  /\ call'[b] = "lib" <=> awaits'[b] # {}
                 /\ awaits'[b] # {} => \E s \in Reqs : awaits'[b] = {s}
                 /\ awaits'[b] # {} => resume_code'[b] = "ok"
                 /\ b # c => awaits'[b] \subseteq in_kernel' \cup Unseen'
      BY Zenon, <1>1, <1>4, <2>4, <2>9 DEF OneRequest
    <3>2. QED BY <2>4, <2>7, <2>9, <3>1 DEF OneRequest
  <2>11. RequestsExact'
    <3>1. live' = in_kernel' \cup Unseen' \cup Awaited' /\ abandoned' = live' \ Awaited'
      BY Zenon, <1>1, <1>4, <1>6, <2>1, <2>4 DEF RequestsExact
    <3>2. awaits'[c] \cap (in_kernel' \cup Unseen') = {}
      BY <1>1, <1>4, <1>5, <2>3
    <3>3. QED BY <1>1, <1>3, <1>7, <2>4, <2>7, <3>1, <3>2 DEF RequestsExact, Callers, Once
  <2>12. QED BY Zenon, <2>7, <2>8, <2>10, <2>11 DEF UringIInv
<1>10. QED BY <1>8, <1>9

LEMMA UringSame ==
  ASSUME UringIInv, UNCHANGED <<coVars, ringVars, awaits, pending_count>>
  PROVE  UringIInv'
<1>1. /\ UNCHANGED <<live, req_co, abandoned, in_kernel, cq, awaits, pending_count>>
      /\ UNCHANGED <<current, call, resume_code>>
  BY DEF ringVars, coVars, swapVars, waitVars
<1>2. SchedInv'
  BY SchedSame DEF UringIInv
<1>3. Callers' = Callers /\ Unseen' = Unseen /\ Awaited' = Awaited
  BY <1>1 DEF Callers, Unseen, Awaited
<1>4. UringTypes' /\ OneRequest'
  BY Zenon, <1>1, <1>3 DEF UringIInv, UringTypes, OneRequest
<1>5. pending_count' = Cardinality(Callers')
  BY Zenon, <1>1, <1>3 DEF UringIInv, RequestsExact, Callers
<1>6. RequestsExact'
  BY <1>1, <1>3, <1>5 DEF UringIInv, RequestsExact, Callers
<1>7. QED BY <1>2, <1>4, <1>6 DEF UringIInv

LEMMA UringInitInv == CoInit /\ UringInit => UringIInv
<1>1. SUFFICES ASSUME CoInit, UringInit PROVE UringIInv
  OBVIOUS
<1>2. SchedInv
  BY <1>1, SchedInit
<1>3. /\ live = {} /\ abandoned = {} /\ in_kernel = {} /\ cq = <<>> /\ pending_count = 0
      /\ req_co = [r \in Reqs |-> Main] /\ awaits = [c \in Cos |-> {}]
      /\ \A c \in Cos : call[c] = "none"
  BY <1>1 DEF UringInit, CoInit
<1>4. Callers = {} /\ Unseen = {} /\ Awaited = {}
  BY <1>3 DEF Callers, Unseen, Awaited
<1>5. IsFiniteSet(Callers) /\ Cardinality(Callers) = 0
  BY <1>4, FS_EmptySet
<1>6. UringTypes
  BY <1>3, <1>5 DEF UringTypes
<1>7. OneRequest
  BY Zenon, <1>3 DEF OneRequest
<1>8. RequestsExact
  <2>1. pending_count = Cardinality(Callers)
    BY <1>3, <1>5
  <2>2. QED BY <1>3, <1>4, <2>1 DEF RequestsExact, Callers
<1>9. QED BY <1>2, <1>6, <1>7, <1>8 DEF UringIInv

LEMMA UringStepInv == UringIInv /\ [UringNext]_uringVars => UringIInv'
<1>1. SUFFICES ASSUME UringIInv, [UringNext]_uringVars PROVE UringIInv'
  OBVIOUS
<1>2. CASE UNCHANGED uringVars
  BY <1>1, <1>2, UringSame DEF uringVars, uringOwn
<1>3. CASE process_completions \/ process_end
  BY <1>1, <1>3, UringSame DEF process_completions, process_end
<1>4. CASE UringCoStep \/ after_submit \/ process_next
  BY <1>1, <1>4, UringElseInv, AfterSubmitInv, ProcessNextInv
<1>5. ASSUME NEW r \in Reqs, submit_and_yield(r) \/ kernel_completes(r) PROVE UringIInv'
  BY <1>1, <1>5, SubmitInv, CompletesInv
<1>6. ASSUME NEW c \in Cos, uring_timer_callback(c) \/ uring_cancel(c) PROVE UringIInv'
  BY <1>1, <1>6, UringTimerInv, UringCancelInv
<1>7. QED BY <1>1, <1>2, <1>3, <1>4, <1>5, <1>6 DEF UringNext

(* No completion reaches a request that was deleted or given out again,    *)
(* and no request leaks, for any number of calls and requests: a call that *)
(* timed out or was canceled leaves its request to the walk over the       *)
(* completion queue, which is the only one to delete it.                   *)
THEOREM RequestsAreExact == UringSpec => []RequestsExact
<1>1. UringIInv => RequestsExact
  BY DEF UringIInv
<1>2. QED BY <1>1, UringInitInv, UringStepInv, PTL DEF UringSpec

=============================================================================
