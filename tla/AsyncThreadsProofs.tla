------------------------- MODULE AsyncThreadsProofs -------------------------
(***************************************************************************)
(* No event is ever left to sleeping threads, for any number of threads    *)
(* and requests.  The argument: a thread goes to sleep only while it owns  *)
(* the mutex and the queue is empty; an event that arrives finds either a  *)
(* waiter to notify or, since core threads never retire, a core thread     *)
(* that is awake.                                                          *)
(*                                                                         *)
(* From dispatch() to delete an event has one home: the queue, a thread,   *)
(* the pipe or the batch being handled; the counters of the pool follow    *)
(* from how many are where.                                                *)
(***************************************************************************)
EXTENDS AsyncThreads, FiniteSetTheorems, TLAPS

Awake == {"top", "pop", "handle", "send", "idle", "notified"}

ThreadTypeOK ==
  /\ running \in BOOLEAN
  /\ queue \in Seq(Events)
  /\ pc \in [Threads -> PCs]
  /\ hand \in [Threads -> Events \cup Threads \cup {NoEvent}]
  /\ threads \in SUBSET Threads

(* Only a thread that retires holds the event about itself, and it does    *)
(* so only to send it; core threads never time out; threads outside of the *)
(* map have not started.                                                   *)
HandInv == \A t \in Threads :
  /\ hand[t] = t => pc[t] = "send" /\ t \notin Cores
  /\ pc[t] = "expired" => t \notin Cores
  /\ t \notin threads => pc[t] = "none"

(* While the pool runs core threads sleep or are on their way.             *)
CoreInv == running => \A t \in Cores : pc[t] \in Awake \cup {"wait"}

SleepInv == ThreadTypeOK /\ HandInv /\ CoreInv /\ NoSleepingQueue

LEMMA InitSleep == AsyncInit => SleepInv
<1>1. SUFFICES ASSUME AsyncInit PROVE SleepInv
  OBVIOUS
<1>2. ThreadTypeOK /\ queue = <<>>
  BY <1>1 DEF AsyncInit, ThreadTypeOK, PCs, Threads
<1>3. HandInv /\ CoreInv
  BY <1>1, PoolAssumption DEF AsyncInit, HandInv, CoreInv, Awake, Threads
<1>4. QED BY <1>2, <1>3 DEF SleepInv, NoSleepingQueue

(* A step that moves one thread that was active, or adds none to the       *)
(* queue, keeps the invariant if the thread stays active or the queue is   *)
(* empty.                                                                  *)
LEMMA ThreadMoves ==
  ASSUME SleepInv, NEW t \in Threads, NEW p \in PCs, GoTo(t, p),
         NEW h \in Events \cup Threads \cup {NoEvent}, hand' = [hand EXCEPT ![t] = h],
         UNCHANGED <<running, threads>>, queue' \in Seq(Events),
         pc[t] # "none", h = t => p = "send" /\ t \notin Cores,
         p = "expired" => t \notin Cores,
         running /\ t \in Cores => p \in Awake \cup {"wait"},
         running /\ queue' # <<>> => queue # <<>> /\ (Active(t) => p \in Awake /\ h # t)
  PROVE  SleepInv'
<1>1. ThreadTypeOK'
  BY DEF SleepInv, ThreadTypeOK, GoTo
<1>2. /\ pc'[t] = p /\ hand'[t] = h
      /\ \A b \in Threads : b # t => pc'[b] = pc[b] /\ hand'[b] = hand[b]
  BY DEF SleepInv, ThreadTypeOK, GoTo
<1>3. t \in threads
  BY DEF SleepInv, HandInv
<1>4. HandInv' /\ CoreInv'
  BY <1>2, <1>3 DEF SleepInv, HandInv, CoreInv, Threads
<1>5. NoSleepingQueue'
  <2>1. SUFFICES ASSUME running, queue' # <<>>
                 PROVE  \E b \in Threads : Active(b)'
    BY DEF NoSleepingQueue
  <2>2. PICK b \in Threads : Active(b)
    BY <2>1 DEF SleepInv, NoSleepingQueue
  <2>3. CASE b = t
    BY <1>2, <2>1, <2>2, <2>3 DEF Active, Awake
  <2>4. CASE b # t
    BY <1>2, <2>2, <2>4 DEF Active
  <2>5. QED BY <2>3, <2>4
<1>6. QED BY <1>1, <1>4, <1>5 DEF SleepInv

LEMMA ThreadStepSleep ==
  ASSUME SleepInv, NEW t \in Threads,
         ThreadStep(t) \/ spurious_wakeup(t) \/ wait_for_expires(t)
  PROVE  SleepInv'
<1>1. /\ hand[t] \in Events \cup Threads \cup {NoEvent} /\ hand = [hand EXCEPT ![t] = hand[t]]
      /\ queue \in Seq(Events) /\ t \notin Events /\ t # NoEvent
      /\ hand[t] = t => pc[t] = "send" /\ t \notin Cores
      /\ pc[t] = "expired" => t \notin Cores
  BY PoolAssumption DEF SleepInv, ThreadTypeOK, HandInv
<1>2. CASE while_running(t)
  <2>1. PICK p \in {"pop", "exited"} : GoTo(t, p) /\ (running => p = "pop")
    BY <1>2 DEF while_running
  <2>2. QED BY Zenon, <1>1, <1>2, <2>1, ThreadMoves DEF while_running, poolVars, mainVars, PCs, Awake
<1>3. CASE pop(t) /\ queue = <<>>
  BY <1>1, <1>3, ThreadMoves DEF pop, mainVars, PCs, Awake
<1>4. CASE pop(t) /\ queue # <<>>
  <2>1. Head(queue) \in Events /\ Tail(queue) \in Seq(Events)
    BY <1>1, <1>4
  <2>2. /\ GoTo(t, "handle") /\ hand' = [hand EXCEPT ![t] = Head(queue)]
        /\ queue' = Tail(queue) /\ UNCHANGED <<running, threads>> /\ pc[t] = "pop"
    BY <1>4 DEF pop, mainVars
  <2>3. Head(queue) # t
    BY <1>1, <2>1
  <2>4. QED BY Zenon, <1>4, <2>1, <2>2, <2>3, ThreadMoves DEF PCs, Awake
<1>5. CASE handler(t)
  BY <1>1, <1>5, ThreadMoves DEF handler, poolVars, mainVars, PCs, Awake, Active
<1>6. CASE send_event(t) /\ hand[t] = t
  <2>1. ~Active(t)
    BY <1>6 DEF Active
  <2>2. /\ GoTo(t, "closing") /\ hand' = [hand EXCEPT ![t] = NoEvent] /\ pc[t] = "send"
        /\ UNCHANGED <<running, queue, threads>>
    BY <1>6 DEF send_event, poolVars, mainVars
  <2>3. QED BY Zenon, <1>1, <1>6, <2>1, <2>2, ThreadMoves DEF PCs, Awake
<1>7. CASE send_event(t) /\ hand[t] # t
  <2>1. /\ GoTo(t, "top") /\ hand' = [hand EXCEPT ![t] = NoEvent] /\ pc[t] = "send"
        /\ UNCHANGED <<running, queue, threads>>
    BY <1>7 DEF send_event, poolVars, mainVars
  <2>2. QED BY Zenon, <1>1, <2>1, ThreadMoves DEF PCs, Awake
<1>8. CASE exit_thread(t)
  <2>1. ~Active(t) /\ (running => t \notin Cores)
    BY <1>8 DEF exit_thread, Active, SleepInv, CoreInv, Awake
  <2>2. QED BY <1>1, <1>8, <2>1, ThreadMoves DEF exit_thread, mainVars, PCs
<1>9. CASE wait(t)
  <2>1. PICK p \in {"top", "wait", "exited"} :
           GoTo(t, p) /\ (running /\ queue # <<>> => p = "top") /\ (running => p # "exited")
    BY <1>9 DEF wait
  <2>2. QED BY Zenon, <1>1, <1>9, <2>1, ThreadMoves DEF wait, mainVars, PCs, Awake
<1>10. CASE wait_returns(t) \/ spurious_wakeup(t)
  BY <1>1, <1>10, ThreadMoves DEF wait_returns, spurious_wakeup, poolVars, mainVars, PCs, Awake
<1>11. CASE wait_for_expires(t)
  <2>1. ~Active(t) /\ t \notin Cores
    BY <1>11, PoolAssumption DEF wait_for_expires, Active
  <2>2. QED BY <1>1, <1>11, <2>1, ThreadMoves DEF wait_for_expires, poolVars, mainVars, PCs
<1>12. CASE wait_for_returns(t)
  <2>1. ~Active(t) /\ (running => t \notin Cores) /\ pc[t] = "expired"
        /\ UNCHANGED <<running, queue, threads>>
    BY <1>12 DEF wait_for_returns, Active, SleepInv, CoreInv, Awake, mainVars
  <2>2. CASE running /\ n_closing # 0
    BY <1>1, <1>12, <2>1, <2>2, ThreadMoves DEF wait_for_returns, PCs
  <2>3. CASE ~(running /\ n_closing # 0)
    <3>1. GoTo(t, "send") /\ hand' = [hand EXCEPT ![t] = t]
      BY <1>12, <2>3 DEF wait_for_returns
    <3>2. QED BY Zenon, <1>1, <2>1, <3>1, ThreadMoves DEF PCs, Awake
  <2>4. QED BY <2>2, <2>3
<1>13. QED
  BY <1>2, <1>3, <1>4, <1>5, <1>6, <1>7, <1>8, <1>9, <1>10, <1>11, <1>12 DEF ThreadStep

(* The reactor thread touches the threads' part when it dispatches (one    *)
(* more event, perhaps one waiter notified or one thread created), when it *)
(* reads events, when it releases a thread and when it shuts down.         *)
LEMMA StartedSleep ==
  ASSUME SleepInv, NEW ts \in schedule, NEW awake \in SUBSET Waiters,
         threads' = ts, Started(ts, awake), UNCHANGED <<running, hand>>,
         queue' \in Seq(Events), queue = queue' \/ Waiters = {} \/ awake # {}
  PROVE  SleepInv'
<1>1. ts \subseteq Threads /\ threads \subseteq ts
  BY DEF schedule, SleepInv, ThreadTypeOK, Threads
<1>2. ThreadTypeOK'
  BY <1>1 DEF Started, PCs, SleepInv, ThreadTypeOK
<1>3. \A t \in Threads : pc'[t] = IF t \in ts \ threads THEN "top"
                                  ELSE IF t \in awake THEN "notified" ELSE pc[t]
  BY DEF Started
<1>4. \A t \in awake : t \in Threads /\ pc[t] = "wait"
  BY DEF Waiters
<1>5. HandInv'
  BY <1>1, <1>3, <1>4 DEF SleepInv, HandInv
<1>6. CoreInv'
  BY <1>3 DEF SleepInv, CoreInv, Awake, Threads
<1>7. \A t \in Threads : Active(t) => Active(t)'
  BY <1>3, <1>4 DEF Active
<1>8. NoSleepingQueue'
  <2>1. SUFFICES ASSUME running, queue' # <<>> PROVE \E t \in Threads : Active(t)'
    BY DEF NoSleepingQueue
  <2>2. CASE queue' = queue
    BY <1>7, <2>1, <2>2 DEF SleepInv, NoSleepingQueue
  <2>3. CASE awake # {}
    <3>1. PICK t \in awake : TRUE
      BY <2>3
    <3>2. pc'[t] = "notified" \/ pc'[t] = "top"
      BY <1>3, <1>4
    <3>3. hand[t] # t
      BY <1>4 DEF SleepInv, HandInv
    <3>4. QED BY <1>4, <3>2, <3>3 DEF Active
  <2>4. CASE Waiters = {}
    <3>1. PICK t \in Cores : TRUE
      BY PoolAssumption
    <3>2. t \in Threads /\ pc[t] # "wait"
      BY <2>4 DEF Waiters, Threads
    <3>3. pc[t] \in Awake /\ hand[t] # t
      BY <2>1, <3>2 DEF SleepInv, CoreInv, HandInv
    <3>4. Active(t)
      BY <3>3 DEF Active, Awake
    <3>5. QED BY <1>7, <3>2, <3>4
  <2>5. QED BY <2>2, <2>3, <2>4
<1>9. QED BY <1>2, <1>5, <1>6, <1>8 DEF SleepInv

LEMMA ReactorStepSleep ==
  ASSUME SleepInv, MainStep \/ shutdown \/ (\E e \in Events : dispatch(e) \/ cancel_event(e))
  PROVE  SleepInv'
<1>1. ASSUME NEW e \in Events, dispatch(e) PROVE SleepInv'
  <2>1. PICK ts \in schedule, awake \in {{t} : t \in Waiters} \cup {{}} :
          (Waiters # {} => awake # {}) /\ threads' = ts /\ Started(ts, awake)
    BY <1>1 DEF dispatch
  <2>2. awake \in SUBSET Waiters
    OBVIOUS
  <2>3. queue' \in Seq(Events) /\ UNCHANGED <<running, hand>>
    BY <1>1 DEF dispatch, SleepInv, ThreadTypeOK
  <2>4. QED BY <2>1, <2>2, <2>3, StartedSleep
<1>2. CASE read_events
  <2>1. PICK ts \in schedule : threads' = ts /\ Started(ts, {})
    BY <1>2 DEF read_events
  <2>2. queue' = queue /\ queue \in Seq(Events) /\ UNCHANGED <<running, hand>>
    BY <1>2 DEF read_events, poolVars, SleepInv, ThreadTypeOK
  <2>3. {} \in SUBSET Waiters
    OBVIOUS
  <2>4. QED BY <2>1, <2>2, <2>3, StartedSleep
<1>3. CASE release_callback
  <2>1. PICK t : /\ t \in Threads /\ pc[t] = "exited" /\ threads' = threads \ {t}
                 /\ pc' = [pc EXCEPT ![t] = "none"] /\ UNCHANGED <<running, queue, hand>>
    BY Zenon, <1>3 DEF release_callback, GoTo, poolVars
  <2>2. /\ pc'[t] = "none" /\ hand[t] # t
        /\ \A b \in Threads : b # t => pc'[b] = pc[b]
    BY <2>1 DEF SleepInv, ThreadTypeOK, HandInv
  <2>3. ThreadTypeOK'
    BY <2>1 DEF SleepInv, ThreadTypeOK, PCs
  <2>4. HandInv'
    BY <2>1, <2>2 DEF SleepInv, HandInv
  <2>5. CoreInv'
    BY <2>1, <2>2 DEF SleepInv, CoreInv, Awake, Threads
  <2>6. NoSleepingQueue'
    <3>1. \A b \in Threads : Active(b) => Active(b)'
      BY <2>1, <2>2 DEF Active
    <3>2. QED BY <2>1, <3>1 DEF SleepInv, NoSleepingQueue
  <2>7. QED BY <2>3, <2>4, <2>5, <2>6 DEF SleepInv
<1>4. CASE shutdown
  <2>1. ~running' /\ UNCHANGED <<queue, hand, threads>> /\ running' \in BOOLEAN
        /\ pc' = [t \in Threads |-> IF t \in Waiters THEN "notified" ELSE pc[t]]
    BY Zenon, <1>4 DEF shutdown
  <2>2. ThreadTypeOK'
    BY <2>1 DEF SleepInv, ThreadTypeOK, PCs
  <2>3. HandInv'
    BY <2>1 DEF SleepInv, HandInv, Waiters
  <2>4. QED BY <2>1, <2>2, <2>3 DEF SleepInv, CoreInv, NoSleepingQueue
<1>5. ASSUME UNCHANGED <<running, queue, threads, pc, hand>> PROVE SleepInv'
  BY <1>5 DEF SleepInv, ThreadTypeOK, HandInv, CoreInv, NoSleepingQueue, Active
<1>6. ASSUME NEW e \in Events, cancel_event(e) PROVE SleepInv'
  BY <1>5, <1>6 DEF cancel_event, poolVars, threadVars
<1>7. CASE call_back \/ delete_event \/ join_all
  BY <1>5, <1>7 DEF call_back, delete_event, join_all, poolVars, threadVars
<1>8. QED BY <1>1, <1>2, <1>3, <1>4, <1>6, <1>7 DEF MainStep

(* An event in the queue always has an awake thread, however many threads  *)
(* and requests there are, whatever retires, times out or wakes up.        *)
THEOREM QueueNeverSleeps == AsyncSpec => []NoSleepingQueue
<1>1. SleepInv /\ [AsyncNext]_asyncVars => SleepInv'
  <2>1. SUFFICES ASSUME SleepInv, [AsyncNext]_asyncVars PROVE SleepInv'
    OBVIOUS
  <2>2. CASE AsyncNext
    BY <2>1, <2>2, ThreadStepSleep, ReactorStepSleep DEF AsyncNext
  <2>3. CASE UNCHANGED asyncVars
    BY <2>1, <2>3 DEF asyncVars, poolVars, threadVars, mainVars,
       SleepInv, ThreadTypeOK, HandInv, CoreInv, NoSleepingQueue, Active
  <2>4. QED BY <2>1, <2>2, <2>3
<1>2. SleepInv => NoSleepingQueue
  BY DEF SleepInv
<1>3. QED BY InitSleep, <1>1, <1>2, PTL DEF AsyncSpec

-----------------------------------------------------------------------------
(* How often an element occurs in a sequence.                              *)

LEMMA SeqEqual ==
  ASSUME NEW S, NEW a \in Seq(S), NEW b \in Seq(S), Len(a) = Len(b), \A i \in 1 .. Len(a) : a[i] = b[i]
  PROVE  a = b
OBVIOUS

LEMMA ConcatFacts ==
  ASSUME NEW S, NEW a \in Seq(S), NEW b \in Seq(S)
  PROVE  /\ a \o b \in Seq(S) /\ Len(a \o b) = Len(a) + Len(b)
         /\ \A i \in 1 .. Len(a) + Len(b) : (a \o b)[i] = IF i <= Len(a) THEN a[i] ELSE b[i - Len(a)]
OBVIOUS

LEMMA CountNat ==
  ASSUME NEW S, NEW s \in Seq(S), NEW x
  PROVE  Count(s, x) \in Nat /\ IsFiniteSet({i \in DOMAIN s : s[i] = x})
<1>1. DOMAIN s = 1 .. Len(s) /\ Len(s) \in Nat
  OBVIOUS
<1>2. IsFiniteSet(1 .. Len(s))
  BY <1>1, FS_Interval
<1>3. {i \in DOMAIN s : s[i] = x} \in SUBSET (1 .. Len(s))
  BY <1>1
<1>4. IsFiniteSet({i \in DOMAIN s : s[i] = x})
  BY <1>2, <1>3, FS_Subset
<1>5. QED BY <1>4, FS_CardinalityType DEF Count

LEMMA DisjointUnion ==
  ASSUME NEW A, NEW B, IsFiniteSet(A), IsFiniteSet(B), A \cap B = {}
  PROVE  Cardinality(A \cup B) = Cardinality(A) + Cardinality(B)
<1>1. Cardinality(A) \in Nat /\ Cardinality(B) \in Nat
  BY FS_CardinalityType
<1>2. Cardinality(A \cup B) = Cardinality(A) + Cardinality(B) - Cardinality(A \cap B)
  BY FS_Union
<1>3. Cardinality(A \cap B) = 0
  BY FS_EmptySet
<1>4. QED BY <1>1, <1>2, <1>3

(* The occurrences in a concatenation are those of its parts, the second   *)
(* ones shifted by the length of the first part.                           *)
LEMMA CountConcat ==
  ASSUME NEW S, NEW s \in Seq(S), NEW u \in Seq(S), NEW x
  PROVE  Count(s \o u, x) = Count(s, x) + Count(u, x)
<1> DEFINE A == {i \in DOMAIN s : s[i] = x}
           B == {i \in DOMAIN u : u[i] = x}
           C == {i \in DOMAIN (s \o u) : (s \o u)[i] = x}
           shift == [i \in B |-> i + Len(s)]
           D == {i + Len(s) : i \in B}
<1>1. /\ DOMAIN s = 1 .. Len(s) /\ Len(s) \in Nat
      /\ DOMAIN u = 1 .. Len(u) /\ Len(u) \in Nat
      /\ DOMAIN (s \o u) = 1 .. (Len(s) + Len(u))
      /\ \A i \in 1 .. Len(s) + Len(u) :
           (s \o u)[i] = IF i <= Len(s) THEN s[i] ELSE u[i - Len(s)]
  OBVIOUS
<1>2. IsFiniteSet(A) /\ IsFiniteSet(B) /\ Cardinality(A) \in Nat /\ Cardinality(B) \in Nat
  BY Zenon, CountNat, FS_CardinalityType
<1>3. IsFiniteSet(D) /\ Cardinality(D) = Cardinality(B)
  <2>1. \A i, j \in B : i + Len(s) = j + Len(s) => i = j
    BY <1>1
  <2>2. shift \in Bijection(B, D)
    BY <2>1 DEF Bijection, Injection, Surjection, IsInjective
  <2>3. QED BY <1>2, <2>2, FS_Bijection DEF ExistsBijection
<1>4. C = A \cup D
  <2>1. ASSUME NEW i \in C PROVE i \in A \cup D
    <3>1. CASE i <= Len(s)
      BY <1>1, <3>1
    <3>2. CASE ~(i <= Len(s))
      <4>1. i - Len(s) \in B /\ i = (i - Len(s)) + Len(s)
        BY <1>1, <3>2
      <4>2. QED BY <4>1
    <3>3. QED BY <3>1, <3>2
  <2>2. A \subseteq C
    BY <1>1
  <2>3. ASSUME NEW j \in B PROVE j + Len(s) \in C
    BY <1>1
  <2>4. QED BY <2>1, <2>2, <2>3
<1>5. A \cap D = {}
  BY <1>1
<1>6. Cardinality(C) = Cardinality(A) + Cardinality(B)
  <2> HIDE DEF A, B, C, D
  <2>1. QED BY <1>2, <1>3, <1>4, <1>5, DisjointUnion
<1>7. QED BY Zenon, <1>6 DEF Count

LEMMA CountOne ==
  ASSUME NEW x, NEW y
  PROVE  Count(<<>>, x) = 0 /\ Count(<<y>>, x) = IF x = y THEN 1 ELSE 0
<1>1. {i \in DOMAIN <<>> : <<>>[i] = x} = {}
  OBVIOUS
<1>2. {i \in DOMAIN <<y>> : <<y>>[i] = x} = IF x = y THEN {1} ELSE {}
  OBVIOUS
<1>3. QED BY <1>1, <1>2, FS_EmptySet, FS_Singleton DEF Count

LEMMA CountAppend ==
  ASSUME NEW S, NEW s \in Seq(S), NEW y \in S, NEW x
  PROVE  Count(Append(s, y), x) = Count(s, x) + IF x = y THEN 1 ELSE 0
<1>1. Append(s, y) = s \o <<y>> /\ <<y>> \in Seq(S)
  OBVIOUS
<1>2. Count(s \o <<y>>, x) = Count(s, x) + Count(<<y>>, x)
  BY Zenon, <1>1, CountConcat
<1>3. Count(<<y>>, x) = IF x = y THEN 1 ELSE 0
  BY CountOne
<1>4. QED BY <1>1, <1>2, <1>3

LEMMA CountTail ==
  ASSUME NEW S, NEW s \in Seq(S), s # <<>>, NEW x
  PROVE  Count(s, x) = Count(Tail(s), x) + IF x = Head(s) THEN 1 ELSE 0
<1>1. Head(s) \in S /\ Tail(s) \in Seq(S) /\ <<Head(s)>> \in Seq(S)
  OBVIOUS
<1>2. s = <<Head(s)>> \o Tail(s)
  <2>1. /\ Len(s) \in Nat \ {0} /\ Head(s) = s[1] /\ Len(Tail(s)) = Len(s) - 1
        /\ \A i \in 1 .. Len(Tail(s)) : Tail(s)[i] = s[i + 1]
    OBVIOUS
  <2>2. /\ <<Head(s)>> \o Tail(s) \in Seq(S)
        /\ Len(<<Head(s)>> \o Tail(s)) = Len(s)
    BY <1>1, <2>1
  <2>3. \A i \in 1 .. Len(s) : s[i] = (<<Head(s)>> \o Tail(s))[i]
    BY <1>1, <2>1
  <2>4. QED BY <2>2, <2>3, SeqEqual
<1>3. Count(<<Head(s)>> \o Tail(s), x) = Count(<<Head(s)>>, x) + Count(Tail(s), x)
  BY Zenon, <1>1, CountConcat
<1>4. Count(<<Head(s)>>, x) = IF x = Head(s) THEN 1 ELSE 0
  BY CountOne
<1>5. Count(Tail(s), x) \in Nat
  BY Zenon, <1>1, CountNat
<1>6. Count(s, x) = Count(<<Head(s)>>, x) + Count(Tail(s), x)
  BY <1>2, <1>3, Zenon
<1>7. QED BY <1>4, <1>5, <1>6

LEMMA CountSplit ==
  ASSUME NEW S, NEW s \in Seq(S), NEW n \in 0 .. Len(s), NEW x
  PROVE  /\ SubSeq(s, 1, n) \in Seq(S) /\ SubSeq(s, n + 1, Len(s)) \in Seq(S)
         /\ Count(s, x) = Count(SubSeq(s, 1, n), x) + Count(SubSeq(s, n + 1, Len(s)), x)
<1> DEFINE a == SubSeq(s, 1, n)
           b == SubSeq(s, n + 1, Len(s))
<1>1. /\ a \in Seq(S) /\ b \in Seq(S) /\ Len(a) = n /\ Len(b) = Len(s) - n
      /\ \A i \in 1 .. n : a[i] = s[i]
      /\ \A i \in 1 .. Len(s) - n : b[i] = s[i + n]
  OBVIOUS
<1> HIDE DEF a, b
<1>2. /\ a \o b \in Seq(S) /\ Len(a \o b) = Len(a) + Len(b)
      /\ \A i \in 1 .. Len(a) + Len(b) : (a \o b)[i] = IF i <= Len(a) THEN a[i] ELSE b[i - Len(a)]
  BY <1>1, ConcatFacts
<1>3. a \o b = s
  <2>1. ASSUME NEW i \in 1 .. Len(s) PROVE (a \o b)[i] = s[i]
    <3>1. CASE i <= n
      BY <1>1, <1>2, <3>1
    <3>2. CASE ~(i <= n)
      <4>1. i - n \in 1 .. Len(s) - n /\ i \in 1 .. Len(a) + Len(b) /\ ~(i <= Len(a)) /\ i - Len(a) = i - n
        BY <1>1, <3>2
      <4>2. (a \o b)[i] = b[i - n] /\ b[i - n] = s[(i - n) + n]
        BY <1>1, <1>2, <4>1
      <4>3. QED BY <4>2
    <3>3. QED BY Zenon, <3>1, <3>2
  <2>2. Len(a \o b) = Len(s)
    BY <1>1, <1>2
  <2>3. QED BY Zenon, <1>2, <2>1, <2>2, SeqEqual
<1>4. Count(a \o b, x) = Count(a, x) + Count(b, x)
  BY <1>1, CountConcat
<1>5. QED BY Zenon, <1>1, <1>3, <1>4 DEF a, b

-----------------------------------------------------------------------------
(* The inductive invariant behind OneHome.  HandExact: a thread holds an   *)
(* event exactly between pop() and the end of the write, and only its own  *)
(* retirement besides requests.  RetireInv: a thread that sends a request  *)
(* does not retire at the same time.  CallbackInv: the callback that runs  *)
(* is the one of the first event of the batch.                             *)
HandExact == \A t \in Threads :
  /\ hand[t] # NoEvent <=> pc[t] \in {"handle", "send"}
  /\ hand[t] \in Threads => hand[t] = t

RetireInv == \A t \in Threads : Homes(t) > 0 /\ pc[t] = "send" => hand[t] = t

CallbackInv == in_callback => batch # <<>> /\ Head(batch) \in Events \cap answered

HomeInv == OneHome /\ HandExact /\ RetireInv /\ CallbackInv /\ freed \subseteq issued

Held(x) == Cardinality({t \in Threads : hand[t] = x})
NewHeld(x) == Cardinality({t \in Threads : hand'[t] = x})
NewHomes(x) == Count(queue', x) + Count(pipe', x) + Count(batch', x) + NewHeld(x)
Sleepers == {t \in Threads : pc[t] \in {"wait", "expired", "notified"}}
Closers == {t \in Threads : hand[t] = t \/ pc[t] = "closing"}
Bit(b) == IF b THEN 1 ELSE 0
HandSet(t, h) == hand' = [hand EXCEPT ![t] = h]
HomesSame == \A x \in Events \cup Threads : NewHomes(x) = Homes(x)

(* Thread t goes to p with h in hand, and the counters follow.             *)
ThreadGoes(t, p, h) ==
  /\ GoTo(t, p) /\ HandSet(t, h)
  /\ n_waiting' = n_waiting + Bit(p \in {"wait", "expired", "notified"})
                            - Bit(pc[t] \in {"wait", "expired", "notified"})
  /\ n_closing' = n_closing + Bit(h = t \/ p = "closing")
                            - Bit(hand[t] = t \/ pc[t] = "closing")
  /\ running => n_closing' <= 1
  /\ UNCHANGED <<running, mainVars>>

(* Two subsets of a finite set that differ in at most one element.         *)
LEMMA OneMoves ==
  ASSUME NEW S, IsFiniteSet(S), NEW A \in SUBSET S, NEW B \in SUBSET S, NEW t,
         A \ {t} = B \ {t}
  PROVE  /\ Cardinality(A) \in Nat /\ Cardinality(B) \in Nat
         /\ Cardinality(B) + Bit(t \in A) = Cardinality(A) + Bit(t \in B)
<1>1. IsFiniteSet(A) /\ IsFiniteSet(B)
  BY FS_Subset
<1>2. Cardinality(A) \in Nat /\ Cardinality(B) \in Nat
  BY <1>1, FS_CardinalityType
<1>3. /\ Cardinality(A \ {t}) = IF t \in A THEN Cardinality(A) - 1 ELSE Cardinality(A)
      /\ Cardinality(B \ {t}) = IF t \in B THEN Cardinality(B) - 1 ELSE Cardinality(B)
  BY Zenon, <1>1, FS_RemoveElement
<1>4. QED BY <1>2, <1>3 DEF Bit

LEMMA HeldMoves ==
  ASSUME AsyncTypeOK, NEW t \in Threads, NEW h \in Events \cup Threads \cup {NoEvent},
         HandSet(t, h), NEW x \in Events \cup Threads
  PROVE  /\ Held(x) \in Nat /\ NewHeld(x) \in Nat
         /\ NewHeld(x) + Bit(hand[t] = x) = Held(x) + Bit(h = x)
<1> DEFINE A == {b \in Threads : hand[b] = x}
           B == {b \in Threads : hand'[b] = x}
<1>1. \A b \in Threads : hand'[b] = IF b = t THEN h ELSE hand[b]
  BY DEF AsyncTypeOK, HandSet
<1>2. A \ {t} = B \ {t} /\ (t \in A <=> hand[t] = x) /\ (t \in B <=> h = x)
  BY <1>1
<1>3. /\ Cardinality(A) \in Nat /\ Cardinality(B) \in Nat
      /\ Cardinality(B) + Bit(t \in A) = Cardinality(A) + Bit(t \in B)
  <2>1. A \in SUBSET Threads /\ B \in SUBSET Threads /\ IsFiniteSet(Threads)
    BY PoolAssumption
  <2>2. QED
    <3> HIDE DEF A, B
    <3>1. QED BY <1>2, <2>1, OneMoves
<1>4. QED BY <1>2, <1>3 DEF Held, NewHeld, Bit

(* The counters follow a thread that moves from one point to another.      *)
LEMMA ThreadCounters ==
  ASSUME AsyncTypeOK, CountersExact, NEW t \in Threads, NEW p \in PCs, NEW h,
         ThreadGoes(t, p, h)
  PROVE  CountersExact' /\ n_waiting' \in Nat /\ n_closing' \in Nat
<1>1. \A b \in Threads : /\ hand'[b] = IF b = t THEN h ELSE hand[b]
                         /\ pc'[b] = IF b = t THEN p ELSE pc[b]
  BY DEF AsyncTypeOK, ThreadGoes, HandSet, GoTo
<1>2. /\ Sleepers \in SUBSET Threads /\ Sleepers' \in SUBSET Threads
      /\ Closers \in SUBSET Threads /\ Closers' \in SUBSET Threads
      /\ IsFiniteSet(Threads)
  BY PoolAssumption DEF Sleepers, Closers
<1>3. /\ Sleepers \ {t} = Sleepers' \ {t}
      /\ t \in Sleepers <=> pc[t] \in {"wait", "expired", "notified"}
      /\ t \in Sleepers' <=> p \in {"wait", "expired", "notified"}
  BY <1>1 DEF Sleepers
<1>4. /\ Closers \ {t} = Closers' \ {t}
      /\ t \in Closers <=> hand[t] = t \/ pc[t] = "closing"
      /\ t \in Closers' <=> h = t \/ p = "closing"
  BY <1>1 DEF Closers
<1>5. /\ Cardinality(Sleepers) \in Nat /\ Cardinality(Sleepers') \in Nat
      /\ Cardinality(Sleepers') + Bit(t \in Sleepers) = Cardinality(Sleepers) + Bit(t \in Sleepers')
  BY <1>2, <1>3, OneMoves
<1>6. /\ Cardinality(Closers) \in Nat /\ Cardinality(Closers') \in Nat
      /\ Cardinality(Closers') + Bit(t \in Closers) = Cardinality(Closers) + Bit(t \in Closers')
  BY <1>2, <1>4, OneMoves
<1>7. n_waiting' = Cardinality(Sleepers')
  BY <1>3, <1>5 DEF CountersExact, Sleepers, Bit, ThreadGoes
<1>8. n_closing' = Cardinality(Closers')
  BY <1>4, <1>6 DEF CountersExact, Closers, Bit, ThreadGoes
<1>9. QED BY <1>5, <1>6, <1>7, <1>8 DEF CountersExact, Sleepers, Closers, ThreadGoes, mainVars

(* A thread that moves on and carries its event along: nothing leaves its  *)
(* home but by moving to the next one.                                     *)
LEMMA ThreadMovesHome ==
  ASSUME HomeInv, NEW t \in Threads, NEW p \in PCs,
         NEW h \in Events \cup Threads \cup {NoEvent}, ThreadGoes(t, p, h), HomesSame,
         queue' \in Seq(Events), pipe' \in Seq(Events \cup Threads),
         h # NoEvent <=> p \in {"handle", "send"}, h \in Threads => h = t,
         Homes(t) > 0 => p \in {"closing", "exited"}
  PROVE  HomeInv'
<1>1. AsyncTypeOK /\ CountersExact
  BY DEF HomeInv, OneHome
<1>2. CountersExact' /\ n_waiting' \in Nat /\ n_closing' \in Nat
  BY <1>1, ThreadCounters
<1>3. AsyncTypeOK'
  BY <1>1, <1>2 DEF AsyncTypeOK, GoTo, ThreadGoes, HandSet, mainVars
<1>4. \A b \in Threads : /\ hand'[b] = IF b = t THEN h ELSE hand[b]
                         /\ pc'[b] = IF b = t THEN p ELSE pc[b]
  BY <1>1 DEF AsyncTypeOK, GoTo, ThreadGoes, HandSet
<1>5. HandExact'
  BY <1>4 DEF HomeInv, HandExact
<1>6. CallbackInv' /\ freed' \subseteq issued' /\ freed' \subseteq answered' \cup canceled'
  BY DEF HomeInv, OneHome, CallbackInv, ThreadGoes, mainVars
<1>7. \A e \in Events : NewHomes(e) = IF e \in issued' \ freed' THEN 1 ELSE 0
  BY DEF HomeInv, OneHome, HomesSame, ThreadGoes, mainVars
<1>8. \A b \in Threads : NewHomes(b) > 0 =>
         /\ NewHomes(b) = 1 /\ b \in threads' /\ pc'[b] \in {"send", "closing", "exited"}
         /\ pc'[b] = "send" => hand'[b] = b
  <2>1. SUFFICES ASSUME NEW b \in Threads, Homes(b) > 0
                 PROVE  /\ Homes(b) = 1 /\ b \in threads
                        /\ pc'[b] \in {"send", "closing", "exited"}
                        /\ pc'[b] = "send" => hand'[b] = b
    BY DEF HomesSame, ThreadGoes, mainVars
  <2>2. QED BY <1>4, <2>1 DEF HomeInv, OneHome, RetireInv
<1>9. QED BY <1>2, <1>3, <1>5, <1>6, <1>7, <1>8 DEF HomeInv, OneHome, RetireInv,
                                                      Homes, NewHomes, NewHeld

(* Where an element is counted: the three sequences and the threads.       *)
LEMMA HomesNat ==
  ASSUME AsyncTypeOK, NEW x
  PROVE  /\ Count(queue, x) \in Nat /\ Count(pipe, x) \in Nat /\ Count(batch, x) \in Nat
         /\ Held(x) \in Nat
         /\ Homes(x) = Count(queue, x) + Count(pipe, x) + Count(batch, x) + Held(x)
<1>1. Count(queue, x) \in Nat /\ Count(pipe, x) \in Nat /\ Count(batch, x) \in Nat
  BY Zenon, CountNat DEF AsyncTypeOK
<1>2. {t \in Threads : hand[t] = x} \in SUBSET Threads /\ IsFiniteSet(Threads)
  BY PoolAssumption
<1>3. IsFiniteSet({t \in Threads : hand[t] = x})
  BY <1>2, FS_Subset
<1>4. Held(x) \in Nat
  BY <1>3, FS_CardinalityType DEF Held
<1>5. QED BY <1>1, <1>4 DEF Homes, Held

LEMMA ThreadStepHome ==
  ASSUME HomeInv, SleepInv, NEW t \in Threads,
         ThreadStep(t) \/ spurious_wakeup(t) \/ wait_for_expires(t)
  PROVE  HomeInv'
<1>1. /\ AsyncTypeOK /\ CountersExact /\ n_waiting \in Nat /\ n_closing \in Nat
      /\ hand[t] \in Events \cup Threads \cup {NoEvent} /\ hand = [hand EXCEPT ![t] = hand[t]]
      /\ queue \in Seq(Events) /\ pipe \in Seq(Events \cup Threads)
      /\ t \notin Events /\ t # NoEvent
      /\ running => n_closing <= 1
  BY Zenon, PoolAssumption DEF HomeInv, OneHome, AsyncTypeOK, CountersExact
<1>2. /\ hand[t] # NoEvent <=> pc[t] \in {"handle", "send"}
      /\ hand[t] \in Threads => hand[t] = t
      /\ hand[t] = t => pc[t] = "send"
  BY DEF HomeInv, HandExact, SleepInv, HandInv
<1>3. /\ Homes(t) > 0 => pc[t] \in {"send", "closing", "exited"}
      /\ Homes(t) > 0 /\ pc[t] = "send" => hand[t] = t
  BY DEF HomeInv, OneHome, RetireInv
<1>4. ASSUME NEW p \in PCs, ThreadGoes(t, p, hand[t]), UNCHANGED <<queue, hand, pipe, mainVars>>,
             hand[t] # NoEvent <=> p \in {"handle", "send"},
             Homes(t) > 0 => p \in {"closing", "exited"}
      PROVE  HomeInv'
  <2>1. HomesSame
    BY <1>4 DEF HomesSame, Homes, NewHomes, NewHeld, mainVars
  <2>2. QED BY <1>1, <1>2, <1>4, <2>1, ThreadMovesHome
<1>5. CASE while_running(t)
  <2>1. PICK p \in {"pop", "exited"} : GoTo(t, p)
    BY <1>5 DEF while_running
  <2>2. /\ UNCHANGED <<running, queue, hand, pipe, n_waiting, n_closing, mainVars>>
        /\ pc[t] = "top" /\ hand[t] = NoEvent
    BY <1>2, <1>5 DEF while_running, poolVars
  <2>3. ThreadGoes(t, p, hand[t]) /\ p \in PCs
    BY <1>1, <2>1, <2>2 DEF ThreadGoes, HandSet, Bit, PCs
  <2>4. QED BY <1>3, <1>4, <2>2, <2>3
<1>6. CASE pop(t) /\ queue = <<>>
  <2>1. /\ UNCHANGED <<running, queue, hand, pipe, n_waiting, n_closing, mainVars>>
        /\ pc[t] = "pop" /\ hand[t] = NoEvent /\ GoTo(t, "idle")
    BY <1>2, <1>6 DEF pop
  <2>2. ThreadGoes(t, "idle", hand[t]) /\ "idle" \in PCs
    BY <1>1, <2>1 DEF ThreadGoes, HandSet, Bit, PCs
  <2>3. QED BY <1>3, <1>4, <2>1, <2>2
<1>7. CASE pop(t) /\ queue # <<>>
  <2>1. Head(queue) \in Events /\ Tail(queue) \in Seq(Events)
    BY <1>1, <1>7
  <2>2. /\ GoTo(t, "handle") /\ hand' = [hand EXCEPT ![t] = Head(queue)]
        /\ queue' = Tail(queue) /\ UNCHANGED <<running, n_waiting, n_closing, pipe, mainVars>>
        /\ pc[t] = "pop" /\ hand[t] = NoEvent
    BY <1>2, <1>7 DEF pop
  <2>3. /\ Head(queue) # t /\ Head(queue) # NoEvent /\ Head(queue) \notin Threads
        /\ HandSet(t, Head(queue))
    BY <2>1, <2>2, PoolAssumption DEF HandSet
  <2>4. ASSUME NEW x \in Events \cup Threads PROVE NewHomes(x) = Homes(x)
    <3>1. Count(queue, x) = Count(Tail(queue), x) + IF x = Head(queue) THEN 1 ELSE 0
      BY <1>1, <1>7, CountTail
    <3>2. NewHeld(x) + Bit(hand[t] = x) = Held(x) + Bit(Head(queue) = x)
      BY <1>1, <2>1, <2>3, HeldMoves
    <3>3. hand[t] # x /\ Count(Tail(queue), x) \in Nat /\ NewHeld(x) \in Nat
      <4>1. Count(Tail(queue), x) \in Nat
        BY Zenon, <2>1, CountNat
      <4>2. NewHeld(x) \in Nat
        BY <1>1, <2>1, <2>3, HeldMoves
      <4>3. hand[t] # x
        BY <2>2, PoolAssumption
      <4>4. QED BY <4>1, <4>2, <4>3
    <3>4. NewHomes(x) = Count(Tail(queue), x) + Count(pipe, x) + Count(batch, x) + NewHeld(x)
      BY <2>2 DEF NewHomes, mainVars
    <3>5. /\ Count(queue, x) \in Nat /\ Count(pipe, x) \in Nat /\ Count(batch, x) \in Nat
          /\ Held(x) \in Nat
          /\ Homes(x) = Count(queue, x) + Count(pipe, x) + Count(batch, x) + Held(x)
      BY <1>1, HomesNat
    <3>6. QED BY <3>1, <3>2, <3>3, <3>4, <3>5 DEF Bit
  <2>5. ThreadGoes(t, "handle", Head(queue)) /\ "handle" \in PCs
    BY <1>1, <2>2, <2>3 DEF ThreadGoes, Bit, PCs
  <2>6. HomesSame
    BY <2>4 DEF HomesSame
  <2>7. QED BY <1>1, <1>3, <2>1, <2>2, <2>3, <2>5, <2>6, ThreadMovesHome
<1>8. CASE handler(t)
  <2>1. /\ UNCHANGED <<running, queue, hand, pipe, n_waiting, n_closing, mainVars>>
        /\ pc[t] = "handle" /\ hand[t] # NoEvent /\ hand[t] # t /\ GoTo(t, "send")
    BY <1>2, <1>8 DEF handler, poolVars
  <2>2. ThreadGoes(t, "send", hand[t]) /\ "send" \in PCs
    BY <1>1, <2>1 DEF ThreadGoes, HandSet, Bit, PCs
  <2>3. QED BY Zenon, <1>3, <1>4, <2>1, <2>2
<1>9. CASE send_event(t)
  <2>1. PICK p \in {"closing", "top"} : GoTo(t, p) /\ (p = "closing" <=> hand[t] = t)
    BY <1>9 DEF send_event
  <2>2. /\ pipe' = Append(pipe, hand[t]) /\ HandSet(t, NoEvent)
        /\ UNCHANGED <<running, queue, n_waiting, n_closing, mainVars>>
        /\ pc[t] = "send" /\ hand[t] \in Events \cup Threads
    BY <1>1, <1>2, <1>9 DEF send_event, poolVars, HandSet
  <2>3. pipe' \in Seq(Events \cup Threads) /\ NoEvent \notin Events \cup Threads
    BY <1>1, <2>2, PoolAssumption
  <2>4. ASSUME NEW x \in Events \cup Threads PROVE NewHomes(x) = Homes(x)
    <3>1. Count(Append(pipe, hand[t]), x) = Count(pipe, x) + IF x = hand[t] THEN 1 ELSE 0
      BY <1>1, <2>2, CountAppend
    <3>2. NewHeld(x) + Bit(hand[t] = x) = Held(x) + Bit(NoEvent = x) /\ NewHeld(x) \in Nat
      BY <1>1, <2>2, HeldMoves
    <3>3. NoEvent # x
      BY Zenon, <2>3
    <3>4. NewHomes(x) = Count(queue, x) + Count(Append(pipe, hand[t]), x) + Count(batch, x)
                          + NewHeld(x)
      BY <2>2 DEF NewHomes, mainVars
    <3>5. /\ Count(queue, x) \in Nat /\ Count(pipe, x) \in Nat /\ Count(batch, x) \in Nat
          /\ Held(x) \in Nat
          /\ Homes(x) = Count(queue, x) + Count(pipe, x) + Count(batch, x) + Held(x)
      BY <1>1, HomesNat
    <3>6. QED BY <3>1, <3>2, <3>3, <3>4, <3>5 DEF Bit
  <2>5. ThreadGoes(t, p, NoEvent) /\ p \in PCs
    BY <1>1, <2>1, <2>2 DEF ThreadGoes, Bit, PCs
  <2>6. HomesSame
    BY <2>4 DEF HomesSame
  <2>7. QED BY <1>1, <1>3, <2>1, <2>2, <2>3, <2>5, <2>6, ThreadMovesHome
<1>10. CASE exit_thread(t)
  <2>1. /\ UNCHANGED <<running, queue, hand, pipe, n_waiting, mainVars>>
        /\ pc[t] = "closing" /\ hand[t] = NoEvent /\ GoTo(t, "exited")
        /\ n_closing' = n_closing - 1
    BY <1>2, <1>10 DEF exit_thread
  <2>2. ThreadGoes(t, "exited", hand[t]) /\ "exited" \in PCs
    BY <1>1, <2>1 DEF ThreadGoes, HandSet, Bit, PCs
  <2>3. QED BY Zenon, <1>3, <1>4, <2>1, <2>2
<1>11. CASE wait(t)
  <2>1. PICK p \in {"top", "wait", "exited"} :
          GoTo(t, p) /\ n_waiting' = n_waiting + Bit(p = "wait")
    BY <1>1, <1>11 DEF wait, Bit
  <2>2. /\ UNCHANGED <<running, queue, hand, pipe, n_closing, mainVars>>
        /\ pc[t] = "idle" /\ hand[t] = NoEvent
    BY <1>2, <1>11 DEF wait
  <2>3. ThreadGoes(t, p, hand[t]) /\ p \in PCs
    BY <1>1, <2>1, <2>2 DEF ThreadGoes, HandSet, Bit, PCs
  <2>4. QED BY Zenon, <1>3, <1>4, <2>2, <2>3
<1>12. CASE wait_returns(t)
  <2>1. /\ UNCHANGED <<running, queue, hand, pipe, n_closing, mainVars>>
        /\ pc[t] = "notified" /\ hand[t] = NoEvent /\ GoTo(t, "top")
        /\ n_waiting' = n_waiting - 1
    BY <1>2, <1>12 DEF wait_returns
  <2>2. ThreadGoes(t, "top", hand[t]) /\ "top" \in PCs
    BY <1>1, <2>1 DEF ThreadGoes, HandSet, Bit, PCs
  <2>3. QED BY <1>3, <1>4, <2>1, <2>2
<1>13. CASE spurious_wakeup(t) \/ wait_for_expires(t)
  <2>1. PICK p \in {"notified", "expired"} : GoTo(t, p)
    BY <1>13 DEF spurious_wakeup, wait_for_expires
  <2>2. /\ UNCHANGED <<running, queue, hand, pipe, n_waiting, n_closing, mainVars>>
        /\ pc[t] = "wait" /\ hand[t] = NoEvent
    BY <1>2, <1>13 DEF spurious_wakeup, wait_for_expires, poolVars
  <2>3. ThreadGoes(t, p, hand[t]) /\ p \in PCs
    BY <1>1, <2>1, <2>2 DEF ThreadGoes, HandSet, Bit, PCs
  <2>4. QED BY <1>3, <1>4, <2>2, <2>3
<1>14. CASE wait_for_returns(t) /\ running /\ n_closing # 0
  <2>1. /\ UNCHANGED <<running, queue, hand, pipe, n_waiting, n_closing, mainVars>>
        /\ pc[t] = "expired" /\ hand[t] = NoEvent /\ GoTo(t, "wait")
    BY <1>2, <1>14 DEF wait_for_returns
  <2>2. ThreadGoes(t, "wait", hand[t]) /\ "wait" \in PCs
    BY <1>1, <2>1 DEF ThreadGoes, HandSet, Bit, PCs
  <2>3. QED BY <1>3, <1>4, <2>1, <2>2
<1>15. CASE wait_for_returns(t) /\ ~(running /\ n_closing # 0)
  <2>1. /\ GoTo(t, "send") /\ HandSet(t, t)
        /\ n_waiting' = n_waiting - 1 /\ n_closing' = n_closing + 1
        /\ UNCHANGED <<running, queue, pipe, mainVars>>
        /\ pc[t] = "expired" /\ hand[t] = NoEvent /\ t \in threads /\ "send" \in PCs
    BY Zenon, <1>2, <1>15 DEF wait_for_returns, SleepInv, HandInv, PCs, HandSet
  <2>2. CountersExact' /\ n_waiting' \in Nat /\ n_closing' \in Nat
    <3>1. ThreadGoes(t, "send", t)
      BY <1>1, <1>15, <2>1 DEF ThreadGoes, Bit
    <3>2. QED BY <1>1, <2>1, <3>1, ThreadCounters
  <2>3. AsyncTypeOK'
    BY <1>1, <2>1, <2>2 DEF AsyncTypeOK, GoTo, HandSet, mainVars
  <2>4. \A b \in Threads : /\ hand'[b] = IF b = t THEN t ELSE hand[b]
                           /\ pc'[b] = IF b = t THEN "send" ELSE pc[b]
    BY <1>1, <2>1 DEF AsyncTypeOK, GoTo, HandSet
  <2>5. HandExact' /\ CallbackInv'
    BY Zenon, <1>1, <2>1, <2>4 DEF HomeInv, HandExact, CallbackInv, mainVars
  <2>6. ASSUME NEW x \in Events \cup Threads PROVE NewHomes(x) = Homes(x) + Bit(x = t)
    <3>1. NewHeld(x) + Bit(hand[t] = x) = Held(x) + Bit(t = x) /\ NewHeld(x) \in Nat
      BY <1>1, <2>1, HeldMoves
    <3>2. NoEvent # x
      BY PoolAssumption
    <3>3. NewHomes(x) = Count(queue, x) + Count(pipe, x) + Count(batch, x) + NewHeld(x)
      BY <2>1 DEF NewHomes, mainVars
    <3>4. /\ Count(queue, x) \in Nat /\ Count(pipe, x) \in Nat /\ Count(batch, x) \in Nat
          /\ Held(x) \in Nat
          /\ Homes(x) = Count(queue, x) + Count(pipe, x) + Count(batch, x) + Held(x)
      BY <1>1, HomesNat
    <3>5. QED BY <2>1, <3>1, <3>2, <3>3, <3>4 DEF Bit
  <2>7. Homes(t) = 0
    BY <1>1, <1>3, <2>1, HomesNat
  <2>8. \A e \in Events : NewHomes(e) = IF e \in issued' \ freed' THEN 1 ELSE 0
    BY <1>1, <2>1, <2>6 DEF HomeInv, OneHome, mainVars, Bit
  <2>9. \A b \in Threads : NewHomes(b) > 0 =>
           /\ NewHomes(b) = 1 /\ b \in threads' /\ pc'[b] \in {"send", "closing", "exited"}
           /\ pc'[b] = "send" => hand'[b] = b
    <3>1. ASSUME NEW b \in Threads, b # t, NewHomes(b) > 0
          PROVE  /\ NewHomes(b) = 1 /\ b \in threads' /\ pc'[b] \in {"send", "closing", "exited"}
                 /\ pc'[b] = "send" => hand'[b] = b
      <4>1. NewHomes(b) = Homes(b)
        BY <1>1, <2>6, <3>1, HomesNat DEF Bit
      <4>2. QED BY <2>1, <2>4, <3>1, <4>1 DEF HomeInv, OneHome, RetireInv, mainVars
    <3>2. NewHomes(t) = 1 /\ t \in threads' /\ pc'[t] = "send" /\ hand'[t] = t
      BY <2>1, <2>4, <2>6, <2>7 DEF Bit, mainVars
    <3>3. QED BY Zenon, <3>1, <3>2
  <2>10. freed' \subseteq issued' /\ freed' \subseteq answered' \cup canceled'
    BY <2>1 DEF HomeInv, OneHome, mainVars
  <2>11. QED BY Zenon, <2>2, <2>3, <2>5, <2>8, <2>9, <2>10 DEF HomeInv, OneHome, RetireInv,
                                                        Homes, NewHomes, NewHeld
<1>16. QED
  BY Zenon, <1>5, <1>6, <1>7, <1>8, <1>9, <1>10, <1>11, <1>12, <1>13, <1>14, <1>15 DEF ThreadStep

(* What the reactor thread does to the threads: waiters are notified and   *)
(* threads that do not exist are started.                                  *)
LEMMA WokenHome ==
  ASSUME HomeInv, pc' \in [Threads -> PCs], hand' = hand,
         \A b \in Threads : \/ pc'[b] = pc[b]
                            \/ pc[b] = "wait" /\ pc'[b] = "notified"
                            \/ pc[b] = "none" /\ pc'[b] = "top"
  PROVE  /\ HandExact' /\ Sleepers' = Sleepers /\ Closers' = Closers
         /\ \A b \in Threads : Homes(b) > 0 => pc'[b] = pc[b]
<1>1. HandExact'
  BY DEF HomeInv, HandExact
<1>2. Sleepers' = Sleepers /\ Closers' = Closers
  BY DEF Sleepers, Closers
<1>3. \A b \in Threads : Homes(b) > 0 => pc'[b] = pc[b]
  BY DEF HomeInv, OneHome
<1>4. QED BY <1>1, <1>2, <1>3

LEMMA StartedHome ==
  ASSUME HomeInv, SleepInv, NEW ts \in schedule, NEW awake \in SUBSET Waiters,
         threads' = ts, Started(ts, awake), hand' = hand
  PROVE  /\ HandExact' /\ Sleepers' = Sleepers /\ Closers' = Closers
         /\ pc' \in [Threads -> PCs] /\ threads' \in SUBSET Threads /\ threads \subseteq threads'
         /\ \A b \in Threads : Homes(b) > 0 => pc'[b] = pc[b]
<1>1. threads \subseteq ts /\ ts \subseteq Threads
  BY DEF schedule, SleepInv, ThreadTypeOK, Threads
<1>2. pc' \in [Threads -> PCs]
  BY DEF Started, PCs, SleepInv, ThreadTypeOK
<1>3. \A b \in Threads : \/ pc'[b] = pc[b]
                         \/ pc[b] = "wait" /\ pc'[b] = "notified"
                         \/ pc[b] = "none" /\ pc'[b] = "top"
  BY DEF Started, Waiters, SleepInv, HandInv
<1>4. QED BY <1>1, <1>2, <1>3, WokenHome

(* From the three parts of the argument to the invariant.                  *)
LEMMA ReactorHome ==
  ASSUME HomeInv, AsyncTypeOK', HandExact', Sleepers' = Sleepers, Closers' = Closers,
         running' => running, UNCHANGED <<n_waiting, n_closing>>, CallbackInv',
         task_num' = Cardinality(issued' \ freed'), freed' \subseteq issued',
         freed' \subseteq answered' \cup canceled',
         \A e \in Events : NewHomes(e) = IF e \in issued' \ freed' THEN 1 ELSE 0,
         \A b \in Threads : NewHomes(b) > 0 =>
           NewHomes(b) = Homes(b) /\ b \in threads' /\ pc'[b] = pc[b] /\ hand'[b] = hand[b]
  PROVE  HomeInv'
<1>1. CountersExact'
  BY Zenon DEF HomeInv, OneHome, CountersExact, Sleepers, Closers
<1>2. \A b \in Threads : NewHomes(b) > 0 =>
         /\ NewHomes(b) = 1 /\ b \in threads' /\ pc'[b] \in {"send", "closing", "exited"}
         /\ pc'[b] = "send" => hand'[b] = b
  BY Zenon DEF HomeInv, OneHome, RetireInv
<1>3. QED BY Zenon, <1>1, <1>2 DEF HomeInv, OneHome, RetireInv, Homes, NewHomes, NewHeld

LEMMA DispatchHome ==
  ASSUME HomeInv, SleepInv, NEW e \in Events, dispatch(e)
  PROVE  HomeInv'
<1>1. PICK ts \in schedule, awake \in {{t} : t \in Waiters} \cup {{}} :
        threads' = ts /\ Started(ts, awake)
  BY DEF dispatch
<1>2. /\ e \notin issued /\ issued' = issued \cup {e} /\ queue' = Append(queue, e)
      /\ task_num' = task_num + 1
      /\ UNCHANGED <<running, n_waiting, n_closing, hand, pipe, batch, in_callback, main,
                     canceled, answered, freed>>
  BY DEF dispatch
<1>3. AsyncTypeOK /\ CountersExact /\ queue \in Seq(Events) /\ awake \in SUBSET Waiters
  BY DEF HomeInv, OneHome, AsyncTypeOK
<1>4. /\ HandExact' /\ Sleepers' = Sleepers /\ Closers' = Closers
      /\ pc' \in [Threads -> PCs] /\ threads' \in SUBSET Threads /\ threads \subseteq threads'
      /\ \A b \in Threads : Homes(b) > 0 => pc'[b] = pc[b]
  BY <1>1, <1>2, <1>3, StartedHome
<1>5. AsyncTypeOK'
  BY <1>2, <1>3, <1>4 DEF AsyncTypeOK
<1>6. /\ task_num' = Cardinality(issued' \ freed') /\ freed' \subseteq issued'
      /\ freed' \subseteq answered' \cup canceled' /\ e \notin freed
  <2>1. e \notin freed /\ freed \subseteq issued /\ freed \subseteq answered \cup canceled
    BY Zenon, <1>2 DEF HomeInv, OneHome
  <2>2. IsFiniteSet(issued \ freed)
    BY <1>3, PoolAssumption, FS_Subset DEF AsyncTypeOK
  <2>3. Cardinality((issued \ freed) \cup {e}) = Cardinality(issued \ freed) + 1
    BY Zenon, <1>2, <2>2, FS_AddElement
  <2>4. issued' \ freed' = (issued \ freed) \cup {e}
    BY <1>2, <2>1
  <2>5. QED BY Zenon, <1>2, <1>3, <2>1, <2>3, <2>4 DEF CountersExact
<1>7. ASSUME NEW x \in Events \cup Threads
      PROVE  NewHomes(x) = Homes(x) + Bit(x = e) /\ Homes(x) \in Nat
  <2>1. Count(Append(queue, e), x) = Count(queue, x) + IF x = e THEN 1 ELSE 0
    BY <1>3, CountAppend
  <2>2. NewHomes(x) = Count(Append(queue, e), x) + Count(pipe, x) + Count(batch, x) + Held(x)
    BY <1>2 DEF NewHomes, NewHeld, Held
  <2>3. /\ Count(queue, x) \in Nat /\ Count(pipe, x) \in Nat /\ Count(batch, x) \in Nat
        /\ Held(x) \in Nat
        /\ Homes(x) = Count(queue, x) + Count(pipe, x) + Count(batch, x) + Held(x)
    BY <1>3, HomesNat
  <2>4. QED BY <2>1, <2>2, <2>3 DEF Bit
<1>8. \A x \in Events : NewHomes(x) = IF x \in issued' \ freed' THEN 1 ELSE 0
  BY <1>2, <1>6, <1>7 DEF HomeInv, OneHome, Bit
<1>9. \A b \in Threads : NewHomes(b) > 0 =>
         NewHomes(b) = Homes(b) /\ b \in threads' /\ pc'[b] = pc[b] /\ hand'[b] = hand[b]
  <2>1. SUFFICES ASSUME NEW b \in Threads, NewHomes(b) > 0
                 PROVE  NewHomes(b) = Homes(b) /\ b \in threads' /\ pc'[b] = pc[b]
    BY Zenon, <1>2
  <2>2. b # e
    BY PoolAssumption
  <2>3. NewHomes(b) = Homes(b)
    BY <1>7, <2>2 DEF Bit
  <2>4. QED BY <1>4, <2>1, <2>3 DEF HomeInv, OneHome
<1>10. CallbackInv'
  BY <1>2 DEF HomeInv, CallbackInv
<1>11. QED BY Zenon, <1>2, <1>4, <1>5, <1>6, <1>8, <1>9, <1>10, ReactorHome

LEMMA ReadHome ==
  ASSUME HomeInv, SleepInv, read_events
  PROVE  HomeInv'
<1>1. PICK ts \in schedule : threads' = ts /\ Started(ts, {})
  BY DEF read_events
<1>2. /\ batch = <<>> /\ pipe # <<>>
      /\ UNCHANGED <<running, queue, n_waiting, n_closing, hand, in_callback, task_num, main,
                     issued, canceled, answered, freed>>
  BY DEF read_events, poolVars
<1>3. AsyncTypeOK /\ CountersExact /\ pipe \in Seq(Events \cup Threads) /\ {} \in SUBSET Waiters
  BY DEF HomeInv, OneHome, AsyncTypeOK
<1>4. PICK n \in 0 .. Len(pipe) : /\ batch' = SubSeq(pipe, 1, n)
                                  /\ pipe' = SubSeq(pipe, n + 1, Len(pipe))
  <2>1. Len(pipe) \in Nat /\ BatchSize \in Nat
    BY <1>3, PoolAssumption
  <2>2. (IF Len(pipe) < BatchSize THEN Len(pipe) ELSE BatchSize) \in 0 .. Len(pipe)
    BY <2>1
  <2>3. QED BY Zenon, <2>2 DEF read_events
<1>5. /\ HandExact' /\ Sleepers' = Sleepers /\ Closers' = Closers
      /\ pc' \in [Threads -> PCs] /\ threads' \in SUBSET Threads /\ threads \subseteq threads'
      /\ \A b \in Threads : Homes(b) > 0 => pc'[b] = pc[b]
  BY <1>1, <1>2, <1>3, StartedHome
<1>6. batch' \in Seq(Events \cup Threads) /\ pipe' \in Seq(Events \cup Threads)
  BY <1>3, <1>4, CountSplit
<1>7. AsyncTypeOK'
  BY <1>2, <1>3, <1>5, <1>6 DEF AsyncTypeOK
<1>8. ASSUME NEW x \in Events \cup Threads PROVE NewHomes(x) = Homes(x)
  <2>1. Count(pipe, x) = Count(SubSeq(pipe, 1, n), x) + Count(SubSeq(pipe, n + 1, Len(pipe)), x)
    BY <1>3, CountSplit
  <2>2. Count(batch, x) = 0
    BY Zenon, <1>2, CountOne
  <2>3. NewHomes(x) = Count(queue, x) + Count(SubSeq(pipe, n + 1, Len(pipe)), x)
                        + Count(SubSeq(pipe, 1, n), x) + Held(x)
    BY <1>2, <1>4 DEF NewHomes, NewHeld, Held
  <2>4. /\ Count(queue, x) \in Nat /\ Held(x) \in Nat
        /\ Homes(x) = Count(queue, x) + Count(pipe, x) + Count(batch, x) + Held(x)
    BY <1>3, HomesNat
  <2>5. /\ Count(SubSeq(pipe, n + 1, Len(pipe)), x) \in Nat
        /\ Count(SubSeq(pipe, 1, n), x) \in Nat
    BY Zenon, <1>4, <1>6, CountNat
  <2>6. QED BY <2>1, <2>2, <2>3, <2>4, <2>5
<1>9. \A x \in Events : NewHomes(x) = IF x \in issued' \ freed' THEN 1 ELSE 0
  BY <1>2, <1>8 DEF HomeInv, OneHome
<1>10. \A b \in Threads : NewHomes(b) > 0 =>
         NewHomes(b) = Homes(b) /\ b \in threads' /\ pc'[b] = pc[b] /\ hand'[b] = hand[b]
  BY <1>2, <1>5, <1>8 DEF HomeInv, OneHome
<1>11. /\ task_num' = Cardinality(issued' \ freed') /\ freed' \subseteq issued'
       /\ freed' \subseteq answered' \cup canceled'
  BY <1>2 DEF HomeInv, OneHome, CountersExact
<1>12. CallbackInv'
  BY <1>2 DEF HomeInv, CallbackInv
<1>13. QED BY Zenon, <1>2, <1>5, <1>7, <1>9, <1>10, <1>11, <1>12, ReactorHome

(* The first event of the batch is deleted, or the thread it is about      *)
(* released: the last home of the event is gone.                           *)
LEMMA BatchTail ==
  ASSUME HomeInv, batch # <<>>, batch' = Tail(batch), UNCHANGED <<queue, hand, pipe>>
  PROVE  /\ Head(batch) \in Events \cup Threads /\ batch' \in Seq(Events \cup Threads)
         /\ Homes(Head(batch)) > 0
         /\ \A x \in Events \cup Threads :
              NewHomes(x) + Bit(x = Head(batch)) = Homes(x) /\ NewHomes(x) \in Nat
<1>1. AsyncTypeOK /\ batch \in Seq(Events \cup Threads)
  BY DEF HomeInv, OneHome, AsyncTypeOK
<1>2. Head(batch) \in Events \cup Threads /\ Tail(batch) \in Seq(Events \cup Threads)
  BY <1>1
<1>3. ASSUME NEW x \in Events \cup Threads
      PROVE  NewHomes(x) + Bit(x = Head(batch)) = Homes(x) /\ NewHomes(x) \in Nat
  <2>1. Count(batch, x) = Count(Tail(batch), x) + IF x = Head(batch) THEN 1 ELSE 0
    BY <1>1, CountTail
  <2>2. Count(Tail(batch), x) \in Nat
    BY Zenon, <1>2, CountNat
  <2>3. NewHomes(x) = Count(queue, x) + Count(pipe, x) + Count(Tail(batch), x) + Held(x)
    BY DEF NewHomes, NewHeld, Held
  <2>4. /\ Count(queue, x) \in Nat /\ Count(pipe, x) \in Nat /\ Held(x) \in Nat
        /\ Homes(x) = Count(queue, x) + Count(pipe, x) + Count(batch, x) + Held(x)
    BY <1>1, HomesNat
  <2>5. QED BY <2>1, <2>2, <2>3, <2>4 DEF Bit
<1>4. Homes(Head(batch)) > 0
  BY <1>2, <1>3 DEF Bit
<1>5. QED BY <1>2, <1>3, <1>4

LEMMA DeleteHome ==
  ASSUME HomeInv, delete_event
  PROVE  HomeInv'
<1> DEFINE e == Head(batch)
<1>1. /\ batch # <<>> /\ e \in Events /\ (in_callback \/ e \in canceled)
      /\ task_num' = task_num - 1 /\ freed' = freed \cup {e} /\ batch' = Tail(batch)
      /\ in_callback' = FALSE
      /\ UNCHANGED <<running, queue, n_waiting, n_closing, pc, hand, pipe, threads, main, issued,
                     canceled, answered>>
  BY DEF delete_event, poolVars, threadVars
<1>2. /\ batch' \in Seq(Events \cup Threads) /\ Homes(e) > 0
      /\ \A x \in Events \cup Threads :
           NewHomes(x) + Bit(x = e) = Homes(x) /\ NewHomes(x) \in Nat
  BY <1>1, BatchTail
<1>3. AsyncTypeOK /\ CountersExact
  BY DEF HomeInv, OneHome
<1>4. e \in issued \ freed /\ Homes(e) = 1
  BY <1>1, <1>2 DEF HomeInv, OneHome
<1>5. task_num' = Cardinality(issued' \ freed') /\ task_num' \in Nat
  <2>1. IsFiniteSet(issued \ freed)
    BY <1>3, PoolAssumption, FS_Subset DEF AsyncTypeOK
  <2>2. Cardinality((issued \ freed) \ {e}) = Cardinality(issued \ freed) - 1
    BY <1>4, <2>1, FS_RemoveElement
  <2>3. issued' \ freed' = (issued \ freed) \ {e}
    BY <1>1
  <2>4. IsFiniteSet((issued \ freed) \ {e})
    BY <2>1, FS_RemoveElement
  <2>5. Cardinality((issued \ freed) \ {e}) \in Nat
    BY <2>4, FS_CardinalityType
  <2>6. QED BY Zenon, <1>1, <1>3, <2>2, <2>3, <2>5 DEF CountersExact
<1>6. AsyncTypeOK'
  BY Zenon, <1>1, <1>2, <1>3, <1>5 DEF AsyncTypeOK
<1>7. HandExact' /\ Sleepers' = Sleepers /\ Closers' = Closers /\ CallbackInv'
  BY <1>1 DEF HomeInv, HandExact, Sleepers, Closers, CallbackInv
<1>8. freed' \subseteq issued' /\ freed' \subseteq answered' \cup canceled'
  BY <1>1, <1>4 DEF HomeInv, OneHome, CallbackInv
<1>9. \A x \in Events : NewHomes(x) = IF x \in issued' \ freed' THEN 1 ELSE 0
  <2>1. SUFFICES ASSUME NEW x \in Events
                 PROVE  NewHomes(x) = IF x \in issued' \ freed' THEN 1 ELSE 0
    OBVIOUS
  <2>2. NewHomes(x) + Bit(x = e) = Homes(x) /\ NewHomes(x) \in Nat
    BY <1>2
  <2>3. Homes(x) = IF x \in issued \ freed THEN 1 ELSE 0
    BY DEF HomeInv, OneHome
  <2>4. QED BY <1>1, <1>4, <2>2, <2>3 DEF Bit
<1>10. \A b \in Threads : NewHomes(b) > 0 =>
         NewHomes(b) = Homes(b) /\ b \in threads' /\ pc'[b] = pc[b] /\ hand'[b] = hand[b]
  <2>1. \A b \in Threads : b # e
    BY <1>1, PoolAssumption
  <2>2. \A b \in Threads : NewHomes(b) = Homes(b)
    BY <1>2, <2>1 DEF Bit
  <2>3. QED BY <1>1, <2>2 DEF HomeInv, OneHome
<1>11. QED BY <1>1, <1>5, <1>6, <1>7, <1>8, <1>9, <1>10, ReactorHome

LEMMA ReleaseHome ==
  ASSUME HomeInv, release_callback
  PROVE  HomeInv'
<1> DEFINE t == Head(batch)
<1>1. /\ batch # <<>> /\ t \in Threads /\ pc[t] = "exited" /\ threads' = threads \ {t}
      /\ GoTo(t, "none") /\ batch' = Tail(batch)
      /\ UNCHANGED <<running, queue, n_waiting, n_closing, hand, pipe, in_callback, task_num, main,
                     issued, canceled, answered, freed>>
  BY DEF release_callback, poolVars
<1>2. /\ batch' \in Seq(Events \cup Threads) /\ Homes(t) > 0
      /\ \A x \in Events \cup Threads :
           NewHomes(x) + Bit(x = t) = Homes(x) /\ NewHomes(x) \in Nat
  BY <1>1, BatchTail
<1>3. AsyncTypeOK
  BY DEF HomeInv, OneHome
<1>4. \A b \in Threads : pc'[b] = IF b = t THEN "none" ELSE pc[b]
  BY <1>1, <1>3 DEF AsyncTypeOK, GoTo
<1>5. AsyncTypeOK'
  BY <1>1, <1>2, <1>3 DEF AsyncTypeOK, GoTo, PCs
<1>6. HandExact' /\ Sleepers' = Sleepers /\ Closers' = Closers
  BY <1>1, <1>4 DEF HomeInv, HandExact, Sleepers, Closers
<1>7. CallbackInv'
  <2>1. ~in_callback
    BY <1>1, PoolAssumption DEF HomeInv, CallbackInv
  <2>2. QED BY <1>1, <2>1 DEF CallbackInv
<1>8. /\ task_num' = Cardinality(issued' \ freed') /\ freed' \subseteq issued'
      /\ freed' \subseteq answered' \cup canceled'
  BY <1>1 DEF HomeInv, OneHome, CountersExact
<1>9. \A x \in Events : NewHomes(x) = IF x \in issued' \ freed' THEN 1 ELSE 0
  <2>1. \A x \in Events : x # t
    BY <1>1, PoolAssumption
  <2>2. \A x \in Events : NewHomes(x) = Homes(x)
    BY <1>2, <2>1 DEF Bit
  <2>3. QED BY <1>1, <2>2 DEF HomeInv, OneHome
<1>10. \A b \in Threads : NewHomes(b) > 0 =>
         NewHomes(b) = Homes(b) /\ b \in threads' /\ pc'[b] = pc[b] /\ hand'[b] = hand[b]
  <2>1. NewHomes(t) = 0
    BY <1>1, <1>2 DEF HomeInv, OneHome, Bit
  <2>2. \A b \in Threads : b # t => NewHomes(b) = Homes(b)
    BY <1>2 DEF Bit
  <2>3. \A b \in Threads : NewHomes(b) > 0 => b # t /\ Homes(b) > 0
    BY <2>1, <2>2
  <2>4. \A b \in Threads : Homes(b) > 0 => b \in threads
    BY DEF HomeInv, OneHome
  <2>5. QED BY Zenon, <1>1, <1>4, <2>2, <2>3, <2>4
<1>11. QED BY <1>1, <1>5, <1>6, <1>7, <1>8, <1>9, <1>10, ReactorHome

LEMMA ReactorStepHome ==
  ASSUME HomeInv, SleepInv,
         MainStep \/ shutdown \/ (\E e \in Events : dispatch(e) \/ cancel_event(e))
  PROVE  HomeInv'
<1>1. ASSUME NEW e \in Events, dispatch(e) PROVE HomeInv'
  BY <1>1, DispatchHome
<1>2. CASE read_events
  BY <1>2, ReadHome
<1>3. CASE delete_event
  BY <1>3, DeleteHome
<1>4. CASE release_callback
  BY <1>4, ReleaseHome
<1>5. ASSUME UNCHANGED <<queue, hand, pipe, batch, threads, issued, freed, task_num>>,
             AsyncTypeOK', HandExact', Sleepers' = Sleepers, Closers' = Closers,
             running' => running, UNCHANGED <<n_waiting, n_closing>>, CallbackInv',
             answered \subseteq answered', canceled \subseteq canceled',
             \A b \in Threads : Homes(b) > 0 => pc'[b] = pc[b]
      PROVE  HomeInv'
  <2>1. \A x \in Events \cup Threads : NewHomes(x) = Homes(x)
    BY Zenon, <1>5 DEF Homes, NewHomes, NewHeld
  <2>2. /\ \A e \in Events : NewHomes(e) = IF e \in issued' \ freed' THEN 1 ELSE 0
        /\ \A b \in Threads : NewHomes(b) > 0 =>
             NewHomes(b) = Homes(b) /\ b \in threads' /\ pc'[b] = pc[b] /\ hand'[b] = hand[b]
    BY Zenon, <1>5, <2>1 DEF HomeInv, OneHome
  <2>3. /\ task_num' = Cardinality(issued' \ freed') /\ freed' \subseteq issued'
        /\ freed' \subseteq answered' \cup canceled'
    BY <1>5 DEF HomeInv, OneHome, CountersExact
  <2>4. QED BY Zenon, <1>5, <2>2, <2>3, ReactorHome
<1>6. CASE shutdown
  <2>1. /\ ~running' /\ running' \in BOOLEAN /\ main' = "joining"
        /\ pc' = [t \in Threads |-> IF t \in Waiters THEN "notified" ELSE pc[t]]
        /\ UNCHANGED <<queue, n_waiting, n_closing, hand, pipe, threads, batch, in_callback,
                       task_num, issued, canceled, answered, freed>>
    BY Zenon, <1>6 DEF shutdown
  <2>2. AsyncTypeOK' /\ CallbackInv'
    BY <2>1 DEF HomeInv, OneHome, AsyncTypeOK, CallbackInv, PCs
  <2>3. \A b \in Threads : pc'[b] = pc[b] \/ (pc[b] = "wait" /\ pc'[b] = "notified")
    BY <2>1 DEF Waiters
  <2>4. pc' \in [Threads -> PCs]
    BY <2>2 DEF AsyncTypeOK
  <2>5. /\ HandExact' /\ Sleepers' = Sleepers /\ Closers' = Closers
        /\ \A b \in Threads : Homes(b) > 0 => pc'[b] = pc[b]
    BY <2>1, <2>3, <2>4, WokenHome
  <2>6. QED BY <1>5, <2>1, <2>2, <2>5
<1>7. CASE call_back
  <2>1. /\ batch # <<>> /\ Head(batch) \in Events /\ answered' = answered \cup {Head(batch)}
        /\ in_callback' = TRUE
        /\ UNCHANGED <<running, queue, n_waiting, n_closing, pc, hand, pipe, threads, batch,
                       task_num, main, issued, canceled, freed>>
    BY <1>7 DEF call_back, poolVars, threadVars
  <2>2. AsyncTypeOK' /\ CallbackInv'
    BY <2>1 DEF HomeInv, OneHome, AsyncTypeOK, CallbackInv
  <2>3. HandExact' /\ Sleepers' = Sleepers /\ Closers' = Closers
    BY <2>1 DEF HomeInv, HandExact, Sleepers, Closers
  <2>4. QED BY <1>5, <2>1, <2>2, <2>3
<1>8. ASSUME NEW e \in Events, cancel_event(e) PROVE HomeInv'
  <2>1. /\ canceled' = canceled \cup {e}
        /\ UNCHANGED <<running, queue, n_waiting, n_closing, pc, hand, pipe, threads, batch,
                       in_callback, task_num, main, issued, answered, freed>>
    BY Zenon, <1>8 DEF cancel_event, poolVars, threadVars
  <2>2. AsyncTypeOK' /\ CallbackInv'
    BY Zenon, <2>1 DEF HomeInv, OneHome, AsyncTypeOK, CallbackInv
  <2>3. HandExact' /\ Sleepers' = Sleepers /\ Closers' = Closers
    BY <2>1 DEF HomeInv, HandExact, Sleepers, Closers
  <2>4. QED BY <1>5, <2>1, <2>2, <2>3
<1>9. CASE join_all
  <2>1. /\ main' = "down"
        /\ UNCHANGED <<running, queue, n_waiting, n_closing, pc, hand, pipe, threads, batch,
                       in_callback, task_num, issued, canceled, answered, freed>>
    BY <1>9 DEF join_all, poolVars, threadVars
  <2>2. AsyncTypeOK' /\ CallbackInv'
    BY <2>1 DEF HomeInv, OneHome, AsyncTypeOK, CallbackInv
  <2>3. HandExact' /\ Sleepers' = Sleepers /\ Closers' = Closers
    BY <2>1 DEF HomeInv, HandExact, Sleepers, Closers
  <2>4. QED BY <1>5, <2>1, <2>2, <2>3
<1>10. QED BY <1>1, <1>2, <1>3, <1>4, <1>6, <1>7, <1>8, <1>9 DEF MainStep

LEMMA InitHome == AsyncInit => HomeInv
<1>1. SUFFICES ASSUME AsyncInit PROVE HomeInv
  OBVIOUS
<1>2. AsyncTypeOK
  <2>1. pc \in [Threads -> PCs] /\ threads \in SUBSET Threads
    BY <1>1 DEF AsyncInit, PCs, Threads
  <2>2. hand \in [Threads -> Events \cup Threads \cup {NoEvent}]
    BY <1>1 DEF AsyncInit
  <2>3. /\ queue \in Seq(Events) /\ pipe \in Seq(Events \cup Threads)
        /\ batch \in Seq(Events \cup Threads) /\ n_waiting \in Nat /\ n_closing \in Nat
        /\ task_num \in Nat
    BY <1>1 DEF AsyncInit
  <2>4. running \in BOOLEAN /\ in_callback \in BOOLEAN /\ main \in {"loop", "joining", "down"}
    BY <1>1, Zenon DEF AsyncInit
  <2>5. /\ issued \in SUBSET Events /\ canceled \in SUBSET Events
        /\ answered \in SUBSET Events /\ freed \in SUBSET Events
    BY <1>1 DEF AsyncInit
  <2>6. QED BY <2>1, <2>2, <2>3, <2>4, <2>5 DEF AsyncTypeOK
<1>3. HandExact /\ CallbackInv
  <2>1. \A t \in Threads : hand[t] = NoEvent /\ NoEvent \notin Threads /\ t # NoEvent
    BY <1>1, PoolAssumption DEF AsyncInit
  <2>2. \A t \in Threads : pc[t] \in {"top", "none"}
    BY <1>1 DEF AsyncInit
  <2>3. QED BY <1>1, <2>1, <2>2 DEF AsyncInit, HandExact, CallbackInv
<1>4. Sleepers = {} /\ Closers = {} /\ issued \ freed = {}
  BY <1>1, PoolAssumption DEF AsyncInit, Sleepers, Closers
<1>5. CountersExact
  <2>1. Cardinality(Sleepers) = 0 /\ Cardinality(Closers) = 0 /\ Cardinality(issued \ freed) = 0
    BY <1>4, FS_EmptySet
  <2>2. task_num = 0 /\ n_waiting = 0 /\ n_closing = 0
    BY <1>1 DEF AsyncInit
  <2>3. QED BY <2>1, <2>2 DEF CountersExact, Sleepers, Closers
<1>6. ASSUME NEW x \in Events \cup Threads PROVE Homes(x) = 0
  <2>1. {t \in Threads : hand[t] = x} = {}
    BY Zenon, <1>1, PoolAssumption DEF AsyncInit
  <2>2. Held(x) = 0
    BY <2>1, FS_EmptySet DEF Held
  <2>3. Count(queue, x) = 0 /\ Count(pipe, x) = 0 /\ Count(batch, x) = 0
    BY Zenon, <1>1, CountOne DEF AsyncInit
  <2>4. QED BY <1>2, <2>2, <2>3, HomesNat
<1>7. QED BY <1>1, <1>2, <1>3, <1>5, <1>6 DEF AsyncInit, HomeInv, OneHome, RetireInv

(* Every request has exactly one home from dispatch to delete, nobody      *)
(* frees it early, a retiring thread is announced once and found in the    *)
(* map, and task_num, n_waiting and n_closing are exact, for any number of *)
(* requests and threads and any size of the pipe and of the batch.         *)
THEOREM EventsHaveOneHome == AsyncSpec => []OneHome
<1> DEFINE Inv == SleepInv /\ HomeInv
<1>1. Inv /\ [AsyncNext]_asyncVars => Inv'
  <2>1. SUFFICES ASSUME SleepInv, HomeInv, [AsyncNext]_asyncVars PROVE SleepInv' /\ HomeInv'
    OBVIOUS
  <2>2. CASE AsyncNext
    BY <2>1, <2>2, ThreadStepSleep, ReactorStepSleep, ThreadStepHome, ReactorStepHome
       DEF AsyncNext
  <2>3. CASE UNCHANGED asyncVars
    <3>1. SleepInv'
      BY <2>1, <2>3 DEF asyncVars, poolVars, threadVars, mainVars,
         SleepInv, ThreadTypeOK, HandInv, CoreInv, NoSleepingQueue, Active
    <3>2. HomeInv'
      <4>1. OneHome'
        <5>1. AsyncTypeOK' /\ CountersExact'
          BY <2>1, <2>3 DEF asyncVars, poolVars, threadVars, mainVars, HomeInv, OneHome, AsyncTypeOK, CountersExact
        <5>2. \A x : Homes(x)' = Homes(x)
          BY Zenon, <2>3 DEF asyncVars, poolVars, threadVars, mainVars, Homes
        <5>3. QED BY Zenon, <2>1, <2>3, <5>1, <5>2 DEF asyncVars, poolVars, threadVars, mainVars, HomeInv, OneHome
      <4>2. HandExact' /\ RetireInv' /\ CallbackInv' /\ (freed \subseteq issued)'
        BY <2>1, <2>3 DEF asyncVars, poolVars, threadVars, mainVars, HomeInv, Homes, HandExact, RetireInv, CallbackInv
      <4>3. QED BY <4>1, <4>2 DEF HomeInv
    <3>3. QED BY Zenon, <3>1, <3>2
  <2>4. QED BY <2>1, <2>2, <2>3
<1>2. AsyncInit => Inv
  BY InitSleep, InitHome
<1>3. Inv => OneHome
  BY DEF HomeInv
<1>4. QED BY <1>1, <1>2, <1>3, PTL DEF AsyncSpec

=============================================================================
