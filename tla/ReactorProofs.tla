--------------------------- MODULE ReactorProofs ---------------------------
(***************************************************************************)
(* Proofs about the event loop, for any number of sockets, signals and     *)
(* calls of user code: the reactor, the sockets and the kernel agree on    *)
(* what is registered, no event is delivered to freed memory, the loop     *)
(* ends exactly when nothing is left to do, and output is sent in order.   *)
(*                                                                         *)
(* The library's own entries of sockets_ (the completion pipe of the AIO   *)
(* threads and the signalfd) are what if_exit subtracts, so the exit       *)
(* condition is exact only because they are there exactly when it says so. *)
(***************************************************************************)
EXTENDS Reactor, FiniteSetTheorems, TLAPS

Places == {"callback", "start", "begin", "sleep", "stopped", "batch", "task done", "timer",
           "defer", "execute", "signal", "reset", "exit"}
Backs == {"start", "batch", "task done", "timer", "execute", "signal", "reset"}
Sources == Sockets \cup {"aio", "signal"}
Kinds == {"read", "write", "hup"}
Doing(x) == at = x \/ (at = "callback" /\ back = x)

TypeInv ==
  /\ ReactorTypeOK
  /\ use_signalfd \in BOOLEAN /\ loop_running \in BOOLEAN
  /\ at \in Places /\ back \in Backs
  /\ ready \in Seq(Sources \X Kinds)
  /\ defer_tasks \in Seq(Sockets \cup {"user"}) /\ executing \in Seq(Sockets \cup {"user"})
  /\ out_buffer \in [Sockets -> Seq(Nat)] /\ sent \in [Sockets -> Seq(Nat)]
  /\ written \in [Sockets -> Nat]

(* What is registered; the library's entries; a socket that is to be freed *)
(* or was freed is not registered any more.                                *)
RegInv ==
  /\ \A s \in Sockets :
       /\ epoll[s] = IF sock[s].removed THEN {} ELSE Watched(sock[s].events)
       /\ sock[s].removed <=> s \notin sockets_
       /\ sock[s].removed <=> sock[s].events = {}
  /\ "aio" \in sockets_ <=> aio_task_num >= 0
  /\ "signal" \in sockets_ <=> use_signalfd
GoneInv == \A s \in Sockets : ~Usable(s) => sock[s].removed
WaitInv == \A s \in Sockets : out_buffer[s] # <<>> => "write" \in sock[s].events

(* Events are pending only while the batch is worked off; they refer to    *)
(* sockets that exist and to one finished asynchronous task at most.       *)
ReadyInv ==
  /\ ready # <<>> => Doing("batch") \/ Doing("task done")
  /\ \A i \in DOMAIN ready : ready[i][1] \in Sockets => ~sock[ready[i][1]].freed
  /\ \A i \in DOMAIN ready : ready[i][1] = "aio" => aio_task_num > 0 /\ ~Doing("task done")
  /\ \A i, j \in DOMAIN ready : ready[i][1] = "aio" /\ ready[j][1] = "aio" => i = j
  /\ Doing("task done") => aio_task_num > 0

(* The decision to end is taken at the end of an iteration and still true  *)
(* when the loop acts on it.                                               *)
ExitInv ==
  /\ ~loop_running => at \in {"begin", "stopped"}
  /\ at = "begin" => (loop_running <=> Outstanding)
  /\ ExitExact

(* Deferred tasks are executed to the last before the iteration goes on.   *)
ExecInv == executing # <<>> => Doing("execute")

LoopInv == TypeInv /\ RegInv /\ GoneInv /\ WaitInv /\ ReadyInv /\ ExitInv /\ ExecInv

-----------------------------------------------------------------------------
(* Registration.  Whatever add_event, remove_event and del do, it comes    *)
(* down to a new set of events, and no registration when it is empty.      *)
SockRecord == [events : SUBSET {"read", "write"}, removed : BOOLEAN, freed : BOOLEAN]
Registered(s, ev) ==
  /\ sock' \in [Sockets -> SockRecord] /\ epoll' \in [Sockets -> SUBSET {"read", "write", "hup"}]
  /\ sock'[s].events = ev /\ sock'[s].freed = sock[s].freed
  /\ sock'[s].removed <=> ev = {}
  /\ epoll'[s] = IF ev = {} THEN {} ELSE Watched(ev)
  /\ \A b \in Sockets \ {s} : sock'[b] = sock[b] /\ epoll'[b] = epoll[b]
  /\ sockets_' = IF ev = {} THEN sockets_ \ {s} ELSE sockets_ \cup {s}

LEMMA SockFields ==
  ASSUME TypeInv, RegInv, NEW s \in Sockets
  PROVE  /\ sock \in [Sockets -> SockRecord] /\ epoll \in [Sockets -> SUBSET {"read", "write", "hup"}]
         /\ sock[s].events \subseteq {"read", "write"}
         /\ sock[s].removed \in BOOLEAN /\ sock[s].freed \in BOOLEAN
         /\ sock[s].removed <=> sock[s].events = {}
         /\ sock[s].removed <=> s \notin sockets_
         /\ epoll[s] = IF sock[s].removed THEN {} ELSE Watched(sock[s].events)
         /\ epoll[s] = {} <=> sock[s].removed
BY DEF TypeInv, ReactorTypeOK, RegInv, Watched, SockRecord

(* Updates of a socket's record.                                           *)
LEMMA SockUpdate ==
  ASSUME sock \in [Sockets -> SockRecord], NEW s \in Sockets,
         NEW ev \in SUBSET {"read", "write"}, NEW r \in BOOLEAN,
         \/ sock' = [sock EXCEPT ![s].events = ev] /\ (sock[s].removed <=> r)
         \/ sock' = [sock EXCEPT ![s].events = ev, ![s].removed = r]
  PROVE  /\ sock' \in [Sockets -> SockRecord]
         /\ sock'[s].events = ev /\ sock'[s].freed = sock[s].freed
         /\ sock'[s].removed <=> r
         /\ \A b \in Sockets \ {s} : sock'[b] = sock[b]
BY DEF SockRecord

LEMMA WatchUpdate ==
  ASSUME epoll \in [Sockets -> SUBSET {"read", "write", "hup"}], NEW s \in Sockets,
         NEW ev \in SUBSET {"read", "write", "hup"}, epoll' = [epoll EXCEPT ![s] = ev]
  PROVE  /\ epoll' \in [Sockets -> SUBSET {"read", "write", "hup"}] /\ epoll'[s] = ev
         /\ \A b \in Sockets \ {s} : epoll'[b] = epoll[b]
OBVIOUS

LEMMA SetRegisters ==
  ASSUME TypeInv, RegInv, NEW s \in Sockets, NEW ev \in SUBSET {"read", "write"},
         ev # {}, sock[s].events # {}, set(s, ev)
  PROVE  Registered(s, ev)
<1>1. /\ sock \in [Sockets -> SockRecord] /\ epoll \in [Sockets -> SUBSET {"read", "write", "hup"}]
      /\ ~sock[s].removed /\ s \in sockets_ /\ epoll[s] # {}
  BY SockFields
<1>2. /\ epoll' = [epoll EXCEPT ![s] = Watched(ev)] /\ sockets_' = sockets_
      /\ sock' = [sock EXCEPT ![s].events = ev]
  BY <1>1 DEF set
<1>3. /\ sock' \in [Sockets -> SockRecord]
      /\ sock'[s].events = ev /\ sock'[s].freed = sock[s].freed /\ ~sock'[s].removed
      /\ \A b \in Sockets \ {s} : sock'[b] = sock[b]
  BY Zenon, <1>1, <1>2, SockUpdate
<1>4. Watched(ev) \in SUBSET {"read", "write", "hup"}
  BY DEF Watched
<1>5. /\ epoll' \in [Sockets -> SUBSET {"read", "write", "hup"}] /\ epoll'[s] = Watched(ev)
      /\ \A b \in Sockets \ {s} : epoll'[b] = epoll[b]
  BY <1>1, <1>2, <1>4, WatchUpdate
<1>6. QED BY <1>1, <1>2, <1>3, <1>5 DEF Registered

LEMMA AddRegisters ==
  ASSUME TypeInv, RegInv, NEW s \in Sockets, NEW ev \in SUBSET {"read", "write"},
         ev # {}, sock[s].events = {}, add(s, ev)
  PROVE  Registered(s, ev)
<1>1. /\ sock \in [Sockets -> SockRecord] /\ epoll \in [Sockets -> SUBSET {"read", "write", "hup"}]
      /\ epoll[s] = {}
  BY SockFields
<1>2. /\ epoll' = [epoll EXCEPT ![s] = Watched(ev)] /\ sockets_' = sockets_ \cup {s}
      /\ sock' = [sock EXCEPT ![s].events = ev, ![s].removed = FALSE]
  BY <1>1 DEF add
<1>3. /\ sock' \in [Sockets -> SockRecord]
      /\ sock'[s].events = ev /\ sock'[s].freed = sock[s].freed /\ ~sock'[s].removed
      /\ \A b \in Sockets \ {s} : sock'[b] = sock[b]
  BY Zenon, <1>1, <1>2, SockUpdate
<1>4. Watched(ev) \in SUBSET {"read", "write", "hup"}
  BY DEF Watched
<1>5. /\ epoll' \in [Sockets -> SUBSET {"read", "write", "hup"}] /\ epoll'[s] = Watched(ev)
      /\ \A b \in Sockets \ {s} : epoll'[b] = epoll[b]
  BY <1>1, <1>2, <1>4, WatchUpdate
<1>6. QED BY <1>1, <1>2, <1>3, <1>5 DEF Registered

LEMMA DelRegisters ==
  ASSUME TypeInv, RegInv, NEW s \in Sockets, del(s)
  PROVE  Registered(s, {})
<1>1. /\ sock \in [Sockets -> SockRecord] /\ epoll \in [Sockets -> SUBSET {"read", "write", "hup"}]
      /\ sock[s].removed <=> s \notin sockets_
      /\ sock[s].removed <=> sock[s].events = {}
      /\ sock[s].removed <=> epoll[s] = {}
  BY SockFields
<1>2. CASE ~sock[s].removed
  <2>1. /\ epoll' = [epoll EXCEPT ![s] = {}]
        /\ sock' = [sock EXCEPT ![s].events = {}, ![s].removed = TRUE]
        /\ sockets_' = sockets_ \ {s}
    BY <1>2 DEF del
  <2>2. /\ sock' \in [Sockets -> SockRecord]
        /\ sock'[s].events = {} /\ sock'[s].freed = sock[s].freed /\ sock'[s].removed
        /\ \A b \in Sockets \ {s} : sock'[b] = sock[b]
    BY Zenon, <1>1, <2>1, SockUpdate
  <2>3. /\ epoll' \in [Sockets -> SUBSET {"read", "write", "hup"}] /\ epoll'[s] = {}
        /\ \A b \in Sockets \ {s} : epoll'[b] = epoll[b]
    BY <1>1, <2>1, WatchUpdate
  <2>4. QED BY <2>1, <2>2, <2>3 DEF Registered
<1>3. CASE sock[s].removed
  <2>1. UNCHANGED <<sock, sockets_, epoll>>
    BY <1>3 DEF del, socketVars
  <2>2. QED BY <1>1, <1>3, <2>1 DEF Registered
<1>4. QED BY <1>2, <1>3

LEMMA AddEvent ==
  ASSUME TypeInv, RegInv, NEW s \in Sockets, NEW e \in {"read", "write"},
         e \notin sock[s].events, add_event(s, e)
  PROVE  Registered(s, sock[s].events \cup {e})
<1> DEFINE ev == sock[s].events
           other == {"read", "write"} \ {e}
<1>1. ev \subseteq {"read", "write"}
  BY SockFields
<1>2. CASE other \subseteq ev
  <2>1. ev \cup {e} = {"read", "write"} /\ ev # {} /\ set(s, {"read", "write"})
    BY <1>1, <1>2 DEF add_event
  <2>2. QED BY <2>1, SetRegisters
<1>3. CASE ~(other \subseteq ev)
  <2>1. ev = {} /\ ev \cup {e} = {e} /\ add(s, {e})
    BY <1>1, <1>3 DEF add_event
  <2>2. QED BY <2>1, AddRegisters
<1>4. QED BY <1>2, <1>3

LEMMA RemoveEvent ==
  ASSUME TypeInv, RegInv, NEW s \in Sockets, NEW e \in {"read", "write"},
         remove_event(s, e)
  PROVE  Registered(s, sock[s].events \ {e})
<1> DEFINE ev == sock[s].events
           other == {"read", "write"} \ {e}
<1>1. ev \subseteq {"read", "write"}
  BY SockFields
<1>2. CASE other \subseteq ev
  <2>1. ev \ {e} = other /\ ev # {} /\ set(s, other) /\ other # {}
    BY <1>1, <1>2 DEF remove_event
  <2>2. QED BY <2>1, SetRegisters
<1>3. CASE ~(other \subseteq ev)
  <2>1. ev \ {e} = {} /\ del(s)
    BY <1>1, <1>3 DEF remove_event
  <2>2. QED BY <2>1, DelRegisters
<1>4. QED BY <1>2, <1>3

-----------------------------------------------------------------------------
(* The parts of LoopInv, by what a step touches.                           *)
LEMMA RegKept ==
  ASSUME LoopInv, NEW s \in Sockets, NEW ev \in SUBSET {"read", "write"}, Registered(s, ev),
         UNCHANGED <<use_signalfd, aio_task_num>>
  PROVE  /\ RegInv'
         /\ sock' \in [Sockets -> SockRecord] /\ epoll' \in [Sockets -> SUBSET {"read", "write", "hup"}]
         /\ sockets_' \subseteq Sources
         /\ \A b \in Sockets : sock'[b].freed = sock[b].freed
<1>1. /\ sock' \in [Sockets -> SockRecord] /\ epoll' \in [Sockets -> SUBSET {"read", "write", "hup"}]
      /\ sockets_' \subseteq Sources
      /\ \A b \in Sockets : sock'[b].freed = sock[b].freed
  BY Zenon DEF Registered, LoopInv, TypeInv, ReactorTypeOK, Sources
<1>2. ASSUME NEW b \in Sockets
      PROVE  /\ epoll'[b] = IF sock'[b].removed THEN {} ELSE Watched(sock'[b].events)
             /\ sock'[b].removed <=> b \notin sockets_'
             /\ sock'[b].removed <=> sock'[b].events = {}
  <2>1. CASE b = s
    BY Zenon, <2>1 DEF Registered
  <2>2. CASE b # s
    <3>1. b \in sockets_' <=> b \in sockets_
      BY <2>2 DEF Registered
    <3>2. sock'[b] = sock[b] /\ epoll'[b] = epoll[b]
      BY <2>2 DEF Registered
    <3>3. QED BY <3>1, <3>2 DEF LoopInv, RegInv
  <2>3. QED BY <2>1, <2>2
<1>3. ("aio" \in sockets_' <=> "aio" \in sockets_) /\ ("signal" \in sockets_' <=> "signal" \in sockets_)
  BY ReactorAssumption DEF Registered
<1>4. QED BY <1>1, <1>2, <1>3 DEF LoopInv, RegInv

(* Between two decisions to end or to sleep.                               *)
LEMMA ExitKept ==
  ASSUME LoopInv, at \notin {"begin", "stopped"}, at' \notin {"begin", "sleep", "stopped"},
         loop_running' = loop_running
  PROVE  ExitInv'
BY DEF LoopInv, ExitInv, ExitExact

(* No event is pending, or those that were, possibly less the first.       *)
LEMMA EmptyDomain == DOMAIN <<>> = {}
<1>1. <<>> \in Seq({}) /\ Len(<<>>) = 0
  OBVIOUS
<1>2. DOMAIN <<>> = 1 .. Len(<<>>)
  BY <1>1
<1>3. QED BY <1>1, <1>2

LEMMA ReadyNone ==
  ASSUME ready' = <<>>, at' # "task done", ~(at' = "callback" /\ back' = "task done")
  PROVE  ReadyInv'
<1>1. DOMAIN ready' = {}
  BY Zenon, EmptyDomain
<1>2. QED BY Zenon, <1>1 DEF ReadyInv, Doing

TaskDone == at = "task done" \/ (at = "callback" /\ back = "task done")
InBatchNow == at = "batch" \/ (at = "callback" /\ back = "batch")
LEMMA ReadyKept ==
  ASSUME LoopInv, NEW k \in {0, 1},
         \A i \in DOMAIN ready' : i + k \in DOMAIN ready /\ ready'[i] = ready[i + k],
         \A b \in Sockets : sock'[b].freed = sock[b].freed,
         aio_task_num' \in Int, aio_task_num' >= aio_task_num,
         ready' # <<>> => InBatchNow' \/ TaskDone', TaskDone' => TaskDone, DOMAIN ready' \subseteq Int
  PROVE  ReadyInv'
<1>1. /\ \A i \in DOMAIN ready : ready[i][1] \in Sockets => ~sock[ready[i][1]].freed
      /\ \A i \in DOMAIN ready : ready[i][1] = "aio" => aio_task_num > 0 /\ ~TaskDone
      /\ \A i, j \in DOMAIN ready : ready[i][1] = "aio" /\ ready[j][1] = "aio" => i = j
      /\ TaskDone => aio_task_num > 0
  BY Zenon DEF LoopInv, ReadyInv, Doing, TaskDone
<1>. aio_task_num \in Int
  BY DEF LoopInv, TypeInv, ReactorTypeOK
<1>2. ASSUME NEW i \in DOMAIN ready', ready'[i][1] \in Sockets
      PROVE  ~sock'[ready'[i][1]].freed
  BY <1>1, <1>2
<1>3. ASSUME NEW i \in DOMAIN ready', ready'[i][1] = "aio"
      PROVE  aio_task_num' > 0 /\ ~TaskDone'
  <2>1. i + k \in DOMAIN ready /\ ready[i + k][1] = "aio"
    BY <1>3
  <2>2. aio_task_num > 0 /\ ~TaskDone
    BY <1>1, <2>1
  <2>3. QED BY <1>1, <2>2
<1>4. ASSUME NEW i \in DOMAIN ready', NEW j \in DOMAIN ready', ready'[i][1] = "aio", ready'[j][1] = "aio"
      PROVE  i = j
  <2>1. i + k = j + k
    BY <1>1, <1>4
  <2>2. QED BY <2>1
<1>5. TaskDone' => aio_task_num' > 0
  BY <1>1
<1>6. QED BY Zenon, <1>2, <1>3, <1>4, <1>5 DEF ReadyInv, Doing, TaskDone, InBatchNow

LEMMA NotInBatch ==
  ASSUME LoopInv, at \notin {"batch", "task done", "callback"}
  PROVE  ready = <<>>
BY Zenon DEF LoopInv, ReadyInv, Doing

(* A call of user code.                                                    *)
LEMMA UserFlow ==
  ASSUME LoopInv, at = "callback", UNCHANGED <<flowVars, executing>>,
         \A b \in Sockets : sock'[b].freed = sock[b].freed,
         aio_task_num' \in Int, aio_task_num' >= aio_task_num
  PROVE  ReadyInv' /\ ExitInv' /\ ExecInv'
<1>1. ReadyInv'
  <2>1. ready' = ready /\ at' = at /\ back' = back
    BY DEF flowVars
  <2>2. ready \in Seq(Sources \X Kinds)
    BY DEF LoopInv, TypeInv
  <2>3. \A i \in DOMAIN ready' : i + 0 \in DOMAIN ready /\ ready'[i] = ready[i + 0]
    BY <2>1, <2>2
  <2>4. ready' # <<>> => InBatchNow' \/ TaskDone'
    BY Zenon, <2>1 DEF LoopInv, ReadyInv, Doing, InBatchNow, TaskDone
  <2>5. TaskDone' => TaskDone
    BY Zenon, <2>1 DEF TaskDone
  <2>6. DOMAIN ready' \subseteq Int
    BY <2>1, <2>2
  <2>7. QED BY <2>3, <2>4, <2>5, <2>6, ReadyKept
<1>2. ExitInv'
  BY ExitKept DEF flowVars
<1>3. ExecInv'
  BY DEF LoopInv, ExecInv, Doing, flowVars
<1>4. QED BY <1>1, <1>2, <1>3

(* The loop's count of what is registered, less the library's entries.     *)
LEMMA ExitCondition ==
  ASSUME LoopInv
  PROVE  if_exit <=> ~Outstanding
<1> DEFINE R == sockets_ \cap Sockets
           L == sockets_ \ Sockets
           aio == IF aio_task_num >= 0 THEN 1 ELSE 0
           sig == IF use_signalfd THEN 1 ELSE 0
<1>1. IsFiniteSet(R) /\ Cardinality(R) \in Nat /\ (Cardinality(R) = 0 <=> R = {})
  BY Zenon, ReactorAssumption, FS_Subset, FS_CardinalityType, FS_EmptySet
<1>2. L \subseteq {"aio", "signal"}
  BY DEF LoopInv, TypeInv, ReactorTypeOK
<1>3. ("aio" \in L <=> aio_task_num >= 0) /\ ("signal" \in L <=> use_signalfd)
  BY ReactorAssumption DEF LoopInv, RegInv
<1>4. /\ IsFiniteSet({}) /\ Cardinality({}) = 0
      /\ IsFiniteSet({"aio"}) /\ Cardinality({"aio"}) = 1
      /\ IsFiniteSet({"signal"}) /\ Cardinality({"signal"}) = 1
  BY Zenon, FS_EmptySet, FS_Singleton
<1>5. IsFiniteSet({"aio"} \cup {"signal"}) /\ Cardinality({"aio"} \cup {"signal"}) = 2
  BY <1>4, FS_AddElement
<1>6. IsFiniteSet(L) /\ Cardinality(L) = aio + sig
  <2>1. CASE aio_task_num >= 0 /\ use_signalfd
    <3>1. L = {"aio"} \cup {"signal"}
      BY <1>2, <1>3, <2>1
    <3>2. QED BY <1>5, <2>1, <3>1
  <2>2. CASE aio_task_num >= 0 /\ ~use_signalfd
    <3>1. L = {"aio"}
      BY <1>2, <1>3, <2>2
    <3>2. QED BY <1>4, <2>2, <3>1
  <2>3. CASE ~(aio_task_num >= 0) /\ use_signalfd
    <3>1. L = {"signal"}
      BY <1>2, <1>3, <2>3
    <3>2. QED BY <1>4, <2>3, <3>1
  <2>4. CASE ~(aio_task_num >= 0) /\ ~use_signalfd
    <3>1. L = {}
      BY <1>2, <1>3, <2>4
    <3>2. QED BY <1>4, <2>4, <3>1
  <2>5. QED BY <2>1, <2>2, <2>3, <2>4
<1>7. Cardinality(sockets_) = Cardinality(R) + aio + sig
  <2>1. sockets_ = R \cup L /\ R \cap L = {}
    OBVIOUS
  <2> HIDE DEF R, L
  <2>2. Cardinality(R \cup L) = Cardinality(R) + Cardinality(L) - Cardinality(R \cap L)
    BY <1>1, <1>6, FS_Union
  <2>3. QED BY <1>1, <1>4, <1>6, <2>1, <2>2
<1>8. R = {} <=> ~\E s \in Sockets : epoll[s] # {}
  BY Zenon DEF LoopInv, RegInv, Watched
<1> HIDE DEF R, L
<1>9. aio_task_num \in Int /\ timers \in Nat
  BY DEF LoopInv, TypeInv, ReactorTypeOK
<1>10. QED BY <1>1, <1>7, <1>8, <1>9 DEF if_exit, Outstanding

-----------------------------------------------------------------------------
(* Calls of user code.                                                     *)
LEMMA SameRegisters ==
  ASSUME TypeInv, RegInv, NEW s \in Sockets, UNCHANGED socketVars
  PROVE  Registered(s, sock[s].events)
<1>1. UNCHANGED <<sock, sockets_, epoll>>
  BY DEF socketVars
<1>2. /\ sock \in [Sockets -> SockRecord] /\ epoll \in [Sockets -> SUBSET {"read", "write", "hup"}]
      /\ sock[s].removed <=> sock[s].events = {}
      /\ sock[s].removed <=> s \notin sockets_
      /\ epoll[s] = IF sock[s].removed THEN {} ELSE Watched(sock[s].events)
  BY SockFields
<1>3. QED BY <1>1, <1>2 DEF Registered

OutputOf(s, ev) ==
  /\ out_buffer' \in [Sockets -> Seq(Nat)] /\ sent' \in [Sockets -> Seq(Nat)] /\ written' \in [Sockets -> Nat]
  /\ out_buffer'[s] # <<>> => "write" \in ev
  /\ \A b \in Sockets \ {s} : out_buffer'[b] = out_buffer[b]

LEMMA AppendRange ==
  ASSUME NEW S, NEW q \in Seq(S), NEW x \in S
  PROVE  Append(q, x) \in Seq(S) /\ Range(Append(q, x)) = Range(q) \cup {x}
<1>1. /\ Append(q, x) \in Seq(S) /\ Len(Append(q, x)) = Len(q) + 1
      /\ \A i \in 1 .. Len(q) : Append(q, x)[i] = q[i]
      /\ Append(q, x)[Len(q) + 1] = x
  OBVIOUS
<1>2. DOMAIN q = 1 .. Len(q) /\ DOMAIN Append(q, x) = 1 .. Len(q) + 1 /\ Len(q) \in Nat
  BY <1>1
<1>3. QED BY <1>1, <1>2 DEF Range

LEMMA SocketStep ==
  ASSUME LoopInv, NEW s \in Sockets, NEW ev \in SUBSET {"read", "write"}, Registered(s, ev), OutputOf(s, ev),
         UNCHANGED <<use_signalfd, loop_running, executing, timers, aio_task_num, singal_no>>,
         at' \in Places, back' \in Backs, ready' \in Seq(Sources \X Kinds),
         \/ defer_tasks' = defer_tasks /\ (Usable(s) \/ ev = {})
         \/ defer_tasks' = Append(defer_tasks, s) /\ ev = {}
  PROVE  /\ TypeInv' /\ RegInv' /\ GoneInv' /\ WaitInv'
         /\ \A b \in Sockets : sock'[b].freed = sock[b].freed
<1>1. /\ RegInv'
      /\ sock' \in [Sockets -> SockRecord] /\ epoll' \in [Sockets -> SUBSET {"read", "write", "hup"}]
      /\ sockets_' \subseteq Sources
      /\ \A b \in Sockets : sock'[b].freed = sock[b].freed
  BY RegKept
<1>2. /\ defer_tasks' \in Seq(Sockets \cup {"user"})
      /\ Range(defer_tasks') \subseteq Range(defer_tasks) \cup (IF ev = {} THEN {s} ELSE {})
  <2>1. defer_tasks \in Seq(Sockets \cup {"user"})
    BY DEF LoopInv, TypeInv
  <2>2. /\ Append(defer_tasks, s) \in Seq(Sockets \cup {"user"})
        /\ Range(Append(defer_tasks, s)) = Range(defer_tasks) \cup {s}
    BY <2>1, AppendRange
  <2>3. QED BY Zenon, <2>1, <2>2
<1>3. TypeInv'
  <2>1. ReactorTypeOK'
    BY <1>1, <1>2 DEF LoopInv, TypeInv, ReactorTypeOK, Sources, SockRecord
  <2>2. QED BY <1>2, <2>1 DEF LoopInv, TypeInv, OutputOf
<1>4. GoneInv'
  <2> SUFFICES ASSUME NEW b \in Sockets, ~Usable(b)'
               PROVE  sock'[b].removed
    BY DEF GoneInv
  <2>1. CASE b = s
    <3>1. ev = {}
      BY <1>1, <1>2, <2>1 DEF Usable
    <3>2. QED BY <2>1, <3>1 DEF Registered
  <2>2. CASE b # s
    <3>1. ~Usable(b)
      BY <1>1, <1>2, <2>2 DEF Usable
    <3>2. QED BY <2>2, <3>1 DEF LoopInv, GoneInv, Registered
  <2>3. QED BY <2>1, <2>2
<1>5. WaitInv'
  <2> SUFFICES ASSUME NEW b \in Sockets, out_buffer'[b] # <<>>
               PROVE  "write" \in sock'[b].events
    BY DEF WaitInv
  <2>1. CASE b = s
    BY <2>1 DEF Registered, OutputOf
  <2>2. CASE b # s
    BY Zenon, <2>2 DEF Registered, OutputOf, LoopInv, WaitInv
  <2>3. QED BY <2>1, <2>2
<1>6. QED BY <1>1, <1>3, <1>4, <1>5

LEMMA SocketCall ==
  ASSUME LoopInv, NEW s \in Sockets, NEW ev \in SUBSET {"read", "write"}, Registered(s, ev), OutputOf(s, ev),
         at = "callback", UNCHANGED <<use_signalfd, flowVars, executing, timers, aio_task_num, signalVars>>,
         \/ defer_tasks' = defer_tasks /\ (Usable(s) \/ ev = {})
         \/ defer_tasks' = Append(defer_tasks, s) /\ ev = {}
  PROVE  LoopInv'
<1>1. UNCHANGED <<use_signalfd, loop_running, executing, timers, aio_task_num, singal_no, at, back, ready>>
  BY DEF flowVars, signalVars
<1>2. at' \in Places /\ back' \in Backs /\ ready' \in Seq(Sources \X Kinds)
  BY <1>1 DEF LoopInv, TypeInv
<1>3. TypeInv' /\ RegInv' /\ GoneInv' /\ WaitInv' /\ \A b \in Sockets : sock'[b].freed = sock[b].freed
  BY <1>1, <1>2, SocketStep
<1>4. ReadyInv' /\ ExitInv' /\ ExecInv'
  BY <1>3, UserFlow DEF LoopInv, TypeInv, ReactorTypeOK
<1>5. QED BY <1>3, <1>4 DEF LoopInv

LEMMA SeqEqual ==
  ASSUME NEW S, NEW a \in Seq(S), NEW b \in Seq(S), Len(a) = Len(b), \A i \in 1 .. Len(a) : a[i] = b[i]
  PROVE  a = b
OBVIOUS

LEMMA ConcatFacts ==
  ASSUME NEW S, NEW a \in Seq(S), NEW b \in Seq(S)
  PROVE  /\ a \o b \in Seq(S) /\ Len(a \o b) = Len(a) + Len(b) /\ a \o <<>> = a
         /\ \A i \in 1 .. Len(a) + Len(b) : (a \o b)[i] = IF i <= Len(a) THEN a[i] ELSE b[i - Len(a)]
OBVIOUS

LEMMA SplitSeq ==
  ASSUME NEW S, NEW q \in Seq(S), NEW n \in 0 .. Len(q)
  PROVE  /\ SubSeq(q, 1, n) \in Seq(S) /\ SubSeq(q, n + 1, Len(q)) \in Seq(S)
         /\ SubSeq(q, 1, n) \o SubSeq(q, n + 1, Len(q)) = q
         /\ n = Len(q) => SubSeq(q, n + 1, Len(q)) = <<>>
<1> DEFINE a == SubSeq(q, 1, n)
           b == SubSeq(q, n + 1, Len(q))
<1>1. a \in Seq(S) /\ b \in Seq(S) /\ Len(a) = n /\ Len(b) = Len(q) - n
  OBVIOUS
<1>2. (\A i \in 1 .. n : a[i] = q[i]) /\ \A i \in 1 .. Len(q) - n : b[i] = q[i + n]
  OBVIOUS
<1>0. n = Len(q) => b = <<>>
  OBVIOUS
<1> HIDE DEF a, b
<1>3. /\ a \o b \in Seq(S) /\ Len(a \o b) = Len(a) + Len(b)
      /\ \A i \in 1 .. Len(a) + Len(b) : (a \o b)[i] = IF i <= Len(a) THEN a[i] ELSE b[i - Len(a)]
  BY <1>1, ConcatFacts
<1>4. a \o b = q
  <2>1. ASSUME NEW i \in 1 .. Len(q) PROVE (a \o b)[i] = q[i]
    <3>1. CASE i <= n
      BY <1>1, <1>2, <1>3, <3>1
    <3>2. CASE ~(i <= n)
      <4>1. i - n \in 1 .. Len(q) - n /\ i \in 1 .. Len(a) + Len(b) /\ ~(i <= Len(a)) /\ i - Len(a) = i - n
        BY <1>1, <3>2
      <4>2. (a \o b)[i] = b[i - n] /\ b[i - n] = q[(i - n) + n]
        BY Zenon, <1>2, <1>3, <4>1
      <4>3. QED BY <4>2
    <3>3. QED BY Zenon, <3>1, <3>2
  <2>2. Len(a \o b) = Len(q)
    BY <1>1, <1>3
  <2>3. QED BY Zenon, <1>3, <2>1, <2>2, SeqEqual
<1>5. QED BY Zenon, <1>0, <1>1, <1>4 DEF a, b

LEMMA BytesType ==
  ASSUME LoopInv, NEW s \in Sockets
  PROVE  /\ Bytes(s) \in Seq(Nat) /\ Len(Bytes(s)) = 2 /\ written[s] \in Nat
         /\ Bytes(s)[1] = written[s] + 1 /\ Bytes(s)[2] = written[s] + 2
<1>1. written[s] \in Nat
  BY DEF LoopInv, TypeInv
<1>2. QED BY <1>1 DEF Bytes

LEMMA UserAdd ==
  ASSUME LoopInv, NEW s \in Sockets, user_add(s)
  PROVE  LoopInv'
<1>1. PICK e \in {"read", "write"} : e \notin sock[s].events /\ add_event(s, e)
  BY DEF user_add
<1>2. TypeInv /\ RegInv
  BY DEF LoopInv
<1> DEFINE ev == sock[s].events \cup {e}
<1>3. Registered(s, ev)
  BY Zenon, <1>1, <1>2, AddEvent
<1>4. ev \in SUBSET {"read", "write"}
  BY <1>2, SockFields
<1>5. /\ at = "callback" /\ Usable(s) /\ UNCHANGED <<defer_tasks, outVars>>
      /\ UNCHANGED <<use_signalfd, flowVars, executing, timers, aio_task_num, signalVars>>
  BY DEF user_add, Calls, deferVars
<1>6. OutputOf(s, ev)
  BY <1>5 DEF OutputOf, outVars, LoopInv, TypeInv, WaitInv
<1> HIDE DEF ev
<1>7. QED BY <1>3, <1>4, <1>5, <1>6, SocketCall

LEMMA UserRemove ==
  ASSUME LoopInv, NEW s \in Sockets, user_remove(s)
  PROVE  LoopInv'
<1>1. remove_event(s, "read") /\ ~sock[s].removed
  BY DEF user_remove
<1>2. TypeInv /\ RegInv
  BY DEF LoopInv
<1> DEFINE ev == sock[s].events \ {"read"}
<1>3. Registered(s, ev)
  BY Zenon, <1>1, <1>2, RemoveEvent
<1>4. ev \in SUBSET {"read", "write"}
  BY <1>2, SockFields
<1>5. /\ at = "callback" /\ UNCHANGED <<defer_tasks, outVars>>
      /\ UNCHANGED <<use_signalfd, flowVars, executing, timers, aio_task_num, signalVars>>
  BY DEF user_remove, Calls, deferVars
<1>6. OutputOf(s, ev)
  BY <1>5 DEF OutputOf, outVars, LoopInv, TypeInv, WaitInv
<1>7. Usable(s)
  BY <1>1 DEF LoopInv, GoneInv
<1> HIDE DEF ev
<1>8. QED BY <1>3, <1>4, <1>5, <1>6, <1>7, SocketCall

LEMMA UserClose ==
  ASSUME LoopInv, NEW s \in Sockets, user_close(s)
  PROVE  LoopInv'
<1>1. TypeInv /\ RegInv
  BY DEF LoopInv
<1>2. Registered(s, {})
  BY <1>1, DelRegisters DEF user_close
<1>3. /\ at = "callback" /\ UNCHANGED <<written, sent>>
      /\ defer_tasks' = Append(defer_tasks, s) /\ out_buffer' = [out_buffer EXCEPT ![s] = <<>>]
      /\ UNCHANGED <<use_signalfd, flowVars, executing, timers, aio_task_num, signalVars>>
  BY DEF user_close, Calls
<1>4. OutputOf(s, {})
  BY <1>3 DEF OutputOf, LoopInv, TypeInv
<1>5. QED BY <1>2, <1>3, <1>4, SocketCall

LEMMA UserWrite ==
  ASSUME LoopInv, NEW s \in Sockets, user_write(s)
  PROVE  LoopInv'
<1>1. TypeInv /\ RegInv
  BY DEF LoopInv
<1>2. /\ at = "callback" /\ Usable(s) /\ UNCHANGED <<defer_tasks>>
      /\ UNCHANGED <<use_signalfd, flowVars, executing, timers, aio_task_num, signalVars>>
  BY DEF user_write, Calls, deferVars
<1>3. /\ out_buffer \in [Sockets -> Seq(Nat)] /\ sent \in [Sockets -> Seq(Nat)] /\ written \in [Sockets -> Nat]
      /\ Bytes(s) \in Seq(Nat) /\ Len(Bytes(s)) = 2
  BY Zenon, BytesType DEF LoopInv, TypeInv
<1>4. sock[s].events \subseteq {"read", "write"}
  BY <1>1, SockFields
<1>5. CASE /\ out_buffer[s] = <<>>
           /\ \E n \in 0..2 :
                /\ sent' = [sent EXCEPT ![s] = @ \o SubSeq(Bytes(s), 1, n)]
                /\ out_buffer' = [out_buffer EXCEPT ![s] = SubSeq(Bytes(s), n + 1, 2)]
                /\ IF n = 2 \/ "write" \in sock[s].events THEN UNCHANGED socketVars ELSE add_event(s, "write")
           /\ written' = [written EXCEPT ![s] = @ + 2]
  <2>1. PICK n \in 0 .. 2 :
          /\ sent' = [sent EXCEPT ![s] = @ \o SubSeq(Bytes(s), 1, n)]
          /\ out_buffer' = [out_buffer EXCEPT ![s] = SubSeq(Bytes(s), n + 1, 2)]
          /\ IF n = 2 \/ "write" \in sock[s].events THEN UNCHANGED socketVars ELSE add_event(s, "write")
    BY Zenon, <1>5
  <2>2. /\ SubSeq(Bytes(s), 1, n) \in Seq(Nat) /\ SubSeq(Bytes(s), n + 1, 2) \in Seq(Nat)
        /\ n = 2 => SubSeq(Bytes(s), n + 1, 2) = <<>>
    BY Zenon, <1>3, SplitSeq
  <2>3. /\ out_buffer' \in [Sockets -> Seq(Nat)] /\ sent' \in [Sockets -> Seq(Nat)] /\ written' \in [Sockets -> Nat]
        /\ out_buffer'[s] = SubSeq(Bytes(s), n + 1, 2)
        /\ \A b \in Sockets \ {s} : out_buffer'[b] = out_buffer[b]
    <3>1. sent[s] \o SubSeq(Bytes(s), 1, n) \in Seq(Nat)
      BY <1>3, <2>2
    <3>2. sent' \in [Sockets -> Seq(Nat)]
      BY <1>3, <2>1, <3>1
    <3>3. /\ out_buffer' \in [Sockets -> Seq(Nat)]
          /\ out_buffer'[s] = SubSeq(Bytes(s), n + 1, 2)
          /\ \A b \in Sockets \ {s} : out_buffer'[b] = out_buffer[b]
      BY <1>3, <2>1, <2>2
    <3>4. written' \in [Sockets -> Nat]
      BY <1>3, <1>5
    <3>5. QED BY <3>2, <3>3, <3>4
  <2>4. CASE n = 2 \/ "write" \in sock[s].events
    <3>1. Registered(s, sock[s].events)
      BY <1>1, <2>1, <2>4, SameRegisters
    <3>2. OutputOf(s, sock[s].events)
      BY <2>2, <2>3, <2>4 DEF OutputOf
    <3>3. QED BY <1>2, <1>4, <3>1, <3>2, SocketCall
  <2>5. CASE ~(n = 2 \/ "write" \in sock[s].events)
    <3>1. Registered(s, sock[s].events \cup {"write"})
      BY Zenon, <1>1, <2>1, <2>5, AddEvent
    <3>2. OutputOf(s, sock[s].events \cup {"write"})
      BY <2>3 DEF OutputOf
    <3>3. sock[s].events \cup {"write"} \in SUBSET {"read", "write"}
      BY <1>4
    <3>4. QED BY <1>2, <3>1, <3>2, <3>3, SocketCall
  <2>6. QED BY <2>4, <2>5
<1>6. CASE /\ out_buffer[s] # <<>>
           /\ \/ Len(out_buffer[s]) > BufferSize /\ UNCHANGED <<out_buffer, written>>
              \/ /\ out_buffer' = [out_buffer EXCEPT ![s] = @ \o Bytes(s)]
                 /\ written' = [written EXCEPT ![s] = @ + 2]
           /\ UNCHANGED <<sent, socketVars>>
  <2>1. out_buffer[s] \o Bytes(s) \in Seq(Nat)
    BY <1>3
  <2>2. /\ out_buffer' \in [Sockets -> Seq(Nat)] /\ sent' \in [Sockets -> Seq(Nat)] /\ written' \in [Sockets -> Nat]
        /\ \A b \in Sockets \ {s} : out_buffer'[b] = out_buffer[b]
    <3>1. CASE UNCHANGED <<out_buffer, written>>
      BY <1>3, <1>6, <3>1
    <3>2. CASE /\ out_buffer' = [out_buffer EXCEPT ![s] = @ \o Bytes(s)]
               /\ written' = [written EXCEPT ![s] = @ + 2]
      <4>1. written' \in [Sockets -> Nat]
        BY <1>3, <3>2
      <4>2. out_buffer' \in [Sockets -> Seq(Nat)] /\ \A b \in Sockets \ {s} : out_buffer'[b] = out_buffer[b]
        BY <1>3, <2>1, <3>2
      <4>3. QED BY <1>3, <1>6, <4>1, <4>2
    <3>3. QED BY <1>6, <3>1, <3>2
  <2>3. "write" \in sock[s].events
    BY <1>6 DEF LoopInv, WaitInv
  <2>4. Registered(s, sock[s].events)
    BY <1>1, <1>6, SameRegisters
  <2>5. OutputOf(s, sock[s].events)
    BY <2>2, <2>3 DEF OutputOf
  <2>6. QED BY <1>2, <1>4, <2>4, <2>5, SocketCall
<1>7. QED BY <1>5, <1>6 DEF user_write, write_func

LEMMA UserDefer ==
  ASSUME LoopInv, defer
  PROVE  LoopInv'
<1>1. /\ at = "callback" /\ defer_tasks' = Append(defer_tasks, "user")
      /\ UNCHANGED <<use_signalfd, sock, sockets_, epoll, executing, timers, aio_task_num, singal_no>>
      /\ UNCHANGED <<at, back, loop_running, ready>> /\ UNCHANGED <<out_buffer, written, sent>>
  BY DEF defer, Calls, flowVars, socketVars, signalVars, outVars
<1>2. defer_tasks \in Seq(Sockets \cup {"user"})
  BY DEF LoopInv, TypeInv
<1>3. /\ defer_tasks' \in Seq(Sockets \cup {"user"})
      /\ Range(defer_tasks') = Range(defer_tasks) \cup {"user"}
  BY <1>1, <1>2, AppendRange
<1>4. TypeInv'
  BY <1>1, <1>3 DEF LoopInv, TypeInv, ReactorTypeOK
<1>5. RegInv' /\ WaitInv'
  BY <1>1 DEF LoopInv, RegInv, WaitInv
<1>6. GoneInv'
  <2> SUFFICES ASSUME NEW b \in Sockets, ~Usable(b)'
               PROVE  sock'[b].removed
    BY DEF GoneInv
  <2>1. ~Usable(b)
    BY <1>1, <1>3, ReactorAssumption DEF Usable
  <2>2. QED BY <1>1, <2>1 DEF LoopInv, GoneInv
<1>7. ReadyInv' /\ ExitInv' /\ ExecInv'
  BY <1>1, UserFlow DEF LoopInv, TypeInv, ReactorTypeOK, flowVars
<1>8. QED BY <1>4, <1>5, <1>6, <1>7 DEF LoopInv

LEMMA UserTask ==
  ASSUME LoopInv, user_task
  PROVE  LoopInv'
<1>1. /\ at = "callback" /\ sockets_' = sockets_ \cup {"aio"}
      /\ aio_task_num' = IF aio_task_num < 0 THEN 1 ELSE aio_task_num + 1
      /\ UNCHANGED <<use_signalfd, sock, epoll, defer_tasks, executing, timers, singal_no>>
      /\ UNCHANGED <<at, back, loop_running, ready>> /\ UNCHANGED <<out_buffer, written, sent>>
  BY DEF user_task, Calls, flowVars, deferVars, signalVars, outVars
<1>2. aio_task_num \in Nat \cup {-1}
  BY DEF LoopInv, TypeInv, ReactorTypeOK
<1>3. aio_task_num' \in Nat /\ aio_task_num' >= aio_task_num
  BY <1>1, <1>2
<1>4. TypeInv'
  <2>1. ReactorTypeOK'
    BY <1>1, <1>3 DEF LoopInv, TypeInv, ReactorTypeOK
  <2>2. QED BY <1>1, <2>1 DEF LoopInv, TypeInv
<1>5. RegInv'
  <2>1. /\ \A s \in Sockets : s \in sockets_' <=> s \in sockets_
        /\ "aio" \in sockets_' /\ ("signal" \in sockets_' <=> "signal" \in sockets_)
    BY <1>1, ReactorAssumption
  <2>2. "aio" \in sockets_' <=> aio_task_num' >= 0
    BY <1>3, <2>1
  <2>3. QED BY <1>1, <2>1, <2>2 DEF LoopInv, RegInv
<1>6. GoneInv' /\ WaitInv'
  BY <1>1 DEF LoopInv, GoneInv, WaitInv, Usable
<1>7. ReadyInv' /\ ExitInv' /\ ExecInv'
  BY <1>1, <1>3, UserFlow DEF flowVars
<1>8. QED BY <1>4, <1>5, <1>6, <1>7 DEF LoopInv

(* A step that leaves sockets, deferred tasks and output alone.            *)
Quiet ==
  /\ UNCHANGED <<use_signalfd, sock, sockets_, epoll, defer_tasks, executing, out_buffer, written, sent>>
  /\ aio_task_num' \in Nat \cup {-1} /\ (aio_task_num' >= 0 <=> aio_task_num >= 0)
  /\ timers' \in Nat /\ singal_no' \in Signals \cup {0} /\ loop_running' \in BOOLEAN
  /\ at' \in Places /\ back' \in Backs /\ ready' \in Seq(Sources \X Kinds)

LEMMA QuietStep ==
  ASSUME LoopInv, Quiet
  PROVE  TypeInv' /\ RegInv' /\ GoneInv' /\ WaitInv'
<1>1. TypeInv'
  <2>1. ReactorTypeOK'
    BY DEF LoopInv, TypeInv, ReactorTypeOK, Quiet
  <2>2. QED BY <2>1 DEF LoopInv, TypeInv, Quiet
<1>2. RegInv'
  BY DEF LoopInv, RegInv, Quiet
<1>3. GoneInv' /\ WaitInv'
  BY DEF LoopInv, GoneInv, WaitInv, Usable, Quiet
<1>4. QED BY <1>1, <1>2, <1>3

LEMMA UserTimer ==
  ASSUME LoopInv, user_timer
  PROVE  LoopInv'
<1>1. /\ at = "callback" /\ timers' \in {timers + 1} \cup (IF timers > 0 THEN {timers - 1} ELSE {})
      /\ UNCHANGED <<use_signalfd, sock, sockets_, epoll, defer_tasks, executing, aio_task_num, singal_no>>
      /\ UNCHANGED <<at, back, loop_running, ready>> /\ UNCHANGED <<out_buffer, written, sent>>
  BY DEF user_timer, Calls, flowVars, socketVars, deferVars, signalVars, outVars
<1>2. Quiet
  BY <1>1 DEF Quiet, LoopInv, TypeInv, ReactorTypeOK
<1>3. ReadyInv' /\ ExitInv' /\ ExecInv'
  BY <1>1, UserFlow DEF LoopInv, TypeInv, ReactorTypeOK, flowVars
<1>4. QED BY <1>2, <1>3, QuietStep DEF LoopInv

LEMMA UserSteps ==
  ASSUME LoopInv, UserNext
  PROVE  LoopInv'
BY UserAdd, UserRemove, UserWrite, UserClose, UserDefer, UserTimer, UserTask DEF UserNext

-----------------------------------------------------------------------------
(* Steps of the loop.                                                      *)
LEMMA CallbackTo ==
  ASSUME LoopInv, NEW b \in Backs, callback(b)
  PROVE  at' \in {"callback", b} /\ back' \in Backs /\ (at' = "callback" => back' = b) /\ at' \in Places
BY Zenon DEF callback, Backs, Places, LoopInv, TypeInv

LEMMA GoTo ==
  ASSUME LoopInv, NEW a \in Places, go(a)
  PROVE  at' = a /\ at' \in Places /\ back' \in Backs /\ back' = back
BY DEF go, LoopInv, TypeInv

(* Outside callbacks, the batch and the deferred tasks.                    *)
LEMMA EndStep ==
  ASSUME LoopInv, Quiet, at \notin {"callback", "batch", "task done", "execute"}, ready' = ready,
         at' # "task done", ~(at' = "callback" /\ back' = "task done")
  PROVE  TypeInv' /\ RegInv' /\ GoneInv' /\ WaitInv' /\ ReadyInv' /\ ExecInv'
<1>1. TypeInv' /\ RegInv' /\ GoneInv' /\ WaitInv'
  BY Zenon, QuietStep
<1>2. ReadyInv'
  BY Zenon, NotInBatch, ReadyNone
<1>3. ExecInv'
  BY Zenon DEF LoopInv, ExecInv, Doing, Quiet
<1>4. QED BY Zenon, <1>1, <1>2, <1>3

LEMMA QuietFlow ==
  ASSUME LoopInv, unchanged_loop, UNCHANGED deferVars, singal_no' \in Signals \cup {0}, loop_running' \in BOOLEAN,
         at' \in Places, back' \in Backs, ready' \in Seq(Sources \X Kinds)
  PROVE  Quiet /\ UNCHANGED <<timers, aio_task_num>> /\ (Outstanding' <=> Outstanding)
<1>1. /\ UNCHANGED <<use_signalfd, sock, sockets_, epoll, defer_tasks, executing, out_buffer, written, sent>>
      /\ UNCHANGED <<timers, aio_task_num>>
  BY DEF unchanged_loop, socketVars, deferVars, outVars
<1>2. Quiet
  BY <1>1 DEF Quiet, LoopInv, TypeInv, ReactorTypeOK
<1>3. QED BY <1>1, <1>2 DEF Outstanding

LEMMA FlowTypes ==
  ASSUME LoopInv
  PROVE  /\ singal_no \in Signals \cup {0} /\ loop_running \in BOOLEAN
         /\ at \in Places /\ back \in Backs /\ ready \in Seq(Sources \X Kinds)
BY DEF LoopInv, TypeInv, ReactorTypeOK

LEMMA Start ==
  ASSUME LoopInv, start
  PROVE  LoopInv'
<1>1. /\ at = "start" /\ at' = (IF if_exit THEN "stopped" ELSE "begin") /\ UNCHANGED back
      /\ UNCHANGED <<loop_running, ready, singal_no>>
  BY DEF start, go, signalVars
<1>2. at' \in Places
  BY <1>1 DEF Places
<1>3. Quiet /\ (Outstanding' <=> Outstanding)
  BY <1>1, <1>2, FlowTypes, QuietFlow DEF start
<1>4. TypeInv' /\ RegInv' /\ GoneInv' /\ WaitInv' /\ ReadyInv' /\ ExecInv'
  BY <1>1, <1>3, EndStep
<1>5. ExitInv'
  BY <1>1, <1>3, ExitCondition DEF LoopInv, ExitInv, ExitExact
<1>6. QED BY <1>4, <1>5 DEF LoopInv

LEMMA Begin ==
  ASSUME LoopInv, begin
  PROVE  LoopInv'
<1>1. /\ at = "begin" /\ at' = (IF loop_running THEN "sleep" ELSE "stopped") /\ UNCHANGED back
      /\ UNCHANGED <<loop_running, ready, singal_no>>
  BY DEF begin, go, signalVars
<1>2. at' \in Places
  BY <1>1 DEF Places
<1>3. Quiet /\ (Outstanding' <=> Outstanding)
  BY <1>1, <1>2, FlowTypes, QuietFlow DEF begin
<1>4. TypeInv' /\ RegInv' /\ GoneInv' /\ WaitInv' /\ ReadyInv' /\ ExecInv'
  BY <1>1, <1>3, EndStep
<1>5. ExitInv'
  BY <1>1, <1>3 DEF LoopInv, ExitInv, ExitExact
<1>6. QED BY <1>4, <1>5 DEF LoopInv

LEMMA TryExit ==
  ASSUME LoopInv, end_try_exit
  PROVE  LoopInv'
<1>1. /\ at = "exit" /\ at' = "begin" /\ UNCHANGED back
      /\ loop_running' = (loop_running /\ ~if_exit) /\ UNCHANGED <<ready, singal_no>>
  BY DEF end_try_exit, go, signalVars
<1>2. at' \in Places /\ loop_running' \in BOOLEAN
  BY <1>1 DEF Places
<1>3. Quiet /\ (Outstanding' <=> Outstanding)
  BY <1>1, <1>2, FlowTypes, QuietFlow DEF end_try_exit
<1>4. TypeInv' /\ RegInv' /\ GoneInv' /\ WaitInv' /\ ReadyInv' /\ ExecInv'
  BY <1>1, <1>3, EndStep
<1>5. loop_running
  BY <1>1 DEF LoopInv, ExitInv
<1>6. ExitInv'
  BY Zenon, <1>1, <1>3, <1>5, ExitCondition DEF ExitInv, ExitExact
<1>7. QED BY <1>4, <1>6 DEF LoopInv

LEMMA EndSignal ==
  ASSUME LoopInv, end_signal
  PROVE  LoopInv'
<1>1. at = "signal" /\ UNCHANGED <<loop_running, ready, singal_no>>
  BY DEF end_signal
<1>2. /\ at' \in {"callback", "reset", "exit"} /\ back' \in Backs /\ at' \in Places
      /\ at' = "callback" => back' = "reset"
  <2>1. CASE singal_no = 0
    BY Zenon, <2>1, GoTo DEF end_signal, Places
  <2>2. CASE singal_no # 0
    BY Zenon, <2>2, CallbackTo DEF end_signal, Backs
  <2>3. QED BY <2>1, <2>2
<1>3. Quiet
  BY <1>1, <1>2, FlowTypes, QuietFlow DEF end_signal
<1>4. TypeInv' /\ RegInv' /\ GoneInv' /\ WaitInv' /\ ReadyInv' /\ ExecInv'
  BY Zenon, <1>1, <1>2, <1>3, EndStep
<1>5. ExitInv'
  BY <1>1, <1>2, ExitKept
<1>6. QED BY <1>4, <1>5 DEF LoopInv

LEMMA EndReset ==
  ASSUME LoopInv, end_signal_reset
  PROVE  LoopInv'
<1>1. at = "reset" /\ UNCHANGED <<loop_running, ready, back>> /\ at' = "exit" /\ at' \in Places /\ singal_no' = 0
  BY DEF end_signal_reset, go, Places
<1>2. Quiet
  BY <1>1, FlowTypes, QuietFlow DEF end_signal_reset
<1>3. TypeInv' /\ RegInv' /\ GoneInv' /\ WaitInv' /\ ReadyInv' /\ ExecInv'
  BY <1>1, <1>2, EndStep
<1>4. ExitInv'
  BY <1>1, ExitKept
<1>5. QED BY <1>3, <1>4 DEF LoopInv

LEMMA EndTimer ==
  ASSUME LoopInv, end_timer
  PROVE  LoopInv'
<1>1. /\ at = "timer" /\ UNCHANGED <<loop_running, ready, singal_no, aio_task_num>>
      /\ UNCHANGED <<use_signalfd, sock, sockets_, epoll, defer_tasks, executing, out_buffer, written, sent>>
  BY DEF end_timer, socketVars, deferVars, outVars, signalVars
<1>2. timers' \in Nat
  BY DEF end_timer, LoopInv, TypeInv, ReactorTypeOK
<1>3. /\ at' \in {"callback", "timer", "defer"} /\ back' \in Backs /\ at' \in Places
      /\ at' = "callback" => back' = "timer"
  <2>1. CASE go("defer")
    BY Zenon, <2>1, GoTo DEF Places
  <2>2. CASE callback("timer")
    BY Zenon, <2>2, CallbackTo DEF Backs
  <2>3. QED BY <2>1, <2>2 DEF end_timer
<1>4. Quiet
  BY <1>1, <1>2, <1>3, FlowTypes DEF Quiet, LoopInv, TypeInv, ReactorTypeOK
<1>5. TypeInv' /\ RegInv' /\ GoneInv' /\ WaitInv' /\ ReadyInv' /\ ExecInv'
  BY Zenon, <1>1, <1>3, <1>4, EndStep
<1>6. ExitInv'
  BY <1>1, <1>3, ExitKept
<1>7. QED BY <1>5, <1>6 DEF LoopInv

LEMMA EndIdle ==
  ASSUME LoopInv, end_idle
  PROVE  LoopInv'
<1>1. at = "execute" /\ executing = <<>> /\ UNCHANGED <<loop_running, ready, singal_no, executing>>
  BY DEF end_idle, signalVars, deferVars
<1>2. /\ at' \in {"callback", "signal"} /\ back' \in Backs /\ at' \in Places
      /\ at' = "callback" => back' = "signal"
  BY Zenon, GoTo, CallbackTo DEF end_idle, Backs, Places
<1>3. Quiet
  BY <1>1, <1>2, FlowTypes, QuietFlow DEF end_idle
<1>4. ReadyInv'
  BY Zenon, <1>1, <1>2, NotInBatch, ReadyNone
<1>5. ExecInv'
  BY <1>1 DEF ExecInv
<1>6. ExitInv'
  BY <1>1, <1>2, ExitKept
<1>7. QED BY <1>3, <1>4, <1>5, <1>6, QuietStep DEF LoopInv

LEMMA BatchDone ==
  ASSUME LoopInv, batch_done
  PROVE  LoopInv'
<1>1. /\ at = "batch" /\ ready = <<>> /\ UNCHANGED <<loop_running, ready, singal_no, executing, back>>
      /\ at' = "timer" /\ at' \in Places
  BY DEF batch_done, go, signalVars, deferVars, Places
<1>2. Quiet
  BY <1>1, FlowTypes, QuietFlow DEF batch_done
<1>3. ReadyInv'
  BY <1>1, ReadyNone
<1>4. ExecInv'
  BY <1>1 DEF LoopInv, ExecInv, Doing
<1>5. ExitInv'
  BY <1>1, ExitKept
<1>6. QED BY <1>2, <1>3, <1>4, <1>5, QuietStep DEF LoopInv

LEMMA CallbackReturns ==
  ASSUME LoopInv, callback_returns
  PROVE  LoopInv'
<1>1. /\ at = "callback" /\ at' = back /\ back' = "start"
      /\ UNCHANGED <<loop_running, ready, singal_no, executing, aio_task_num, sock>>
  BY DEF callback_returns, signalVars, deferVars, socketVars
<1>2. at' \in Places /\ back' \in Backs /\ at' \notin {"begin", "sleep", "stopped", "callback"}
  BY Zenon, <1>1, FlowTypes DEF Places, Backs
<1>3. Quiet
  BY <1>1, <1>2, FlowTypes, QuietFlow DEF callback_returns, unchanged_loop
<1>4. ready \in Seq(Sources \X Kinds) /\ aio_task_num \in Int
  BY FlowTypes DEF LoopInv, TypeInv, ReactorTypeOK
<1>5. ReadyInv'
  <2>1. \A i \in DOMAIN ready' : i + 0 \in DOMAIN ready /\ ready'[i] = ready[i + 0]
    BY <1>1, <1>4
  <2>2. ready' # <<>> => InBatchNow' \/ TaskDone'
    BY Zenon, <1>1 DEF LoopInv, ReadyInv, Doing, InBatchNow, TaskDone
  <2>3. TaskDone' => TaskDone
    BY Zenon, <1>1, <1>2 DEF TaskDone
  <2>4. DOMAIN ready' \subseteq Int
    BY <1>1, <1>4
  <2>5. QED BY <1>1, <1>4, <2>1, <2>2, <2>3, <2>4, ReadyKept
<1>6. ExecInv'
  BY <1>1 DEF LoopInv, ExecInv, Doing
<1>7. ExitInv'
  BY <1>1, <1>2, ExitKept
<1>8. QED BY <1>3, <1>5, <1>6, <1>7, QuietStep DEF LoopInv

LEMMA Raise ==
  ASSUME LoopInv, NEW sig \in Signals, raise(sig)
  PROVE  LoopInv'
<1>1. /\ UNCHANGED <<use_signalfd, at, back, loop_running, ready, timers, aio_task_num>>
      /\ UNCHANGED <<sock, sockets_, epoll, defer_tasks, executing, out_buffer, written, sent>>
  BY DEF raise, flowVars, socketVars, deferVars, outVars
<1>2. singal_no' \in Signals \cup {0}
  BY FlowTypes DEF raise
<1>3. Quiet
  BY <1>1, <1>2, FlowTypes DEF Quiet, LoopInv, TypeInv, ReactorTypeOK
<1>4. ReadyInv' /\ ExecInv'
  BY Zenon, <1>1 DEF LoopInv, ReadyInv, ExecInv, Doing
<1>5. Outstanding' <=> Outstanding
  BY <1>1 DEF Outstanding
<1>6. ExitInv'
  BY <1>1, <1>5 DEF LoopInv, ExitInv, ExitExact
<1>7. QED BY <1>3, <1>4, <1>6, QuietStep DEF LoopInv

LEMMA TailReady ==
  ASSUME LoopInv, ready # <<>>, ready' = Tail(ready)
  PROVE  /\ ready' \in Seq(Sources \X Kinds) /\ DOMAIN ready' \subseteq Int
         /\ \A i \in DOMAIN ready' : i + 1 \in DOMAIN ready /\ ready'[i] = ready[i + 1]
         /\ 1 \in DOMAIN ready /\ ready[1] = Head(ready) /\ \A i \in DOMAIN ready' : i >= 1
<1>1. ready \in Seq(Sources \X Kinds)
  BY FlowTypes
<1>2. /\ ready' \in Seq(Sources \X Kinds) /\ Len(ready') = Len(ready) - 1 /\ Len(ready) \in Nat \ {0}
      /\ \A i \in 1 .. Len(ready') : ready'[i] = ready[i + 1]
  BY <1>1
<1>3. DOMAIN ready = 1 .. Len(ready) /\ DOMAIN ready' = 1 .. Len(ready')
  BY <1>1, <1>2
<1>4. ready[1] = Head(ready)
  BY <1>1
<1>5. QED BY <1>2, <1>3, <1>4

BatchGoesOn ==
  /\ at = "batch" /\ ready # <<>> /\ ready' = Tail(ready)
  /\ at' \in {"batch", "callback"} /\ (at' = "callback" => back' = "batch")
  /\ UNCHANGED <<loop_running, aio_task_num, executing>>

LEMMA BatchStep ==
  ASSUME LoopInv, BatchGoesOn, \A b \in Sockets : sock'[b].freed = sock[b].freed
  PROVE  ReadyInv' /\ ExitInv' /\ ExecInv'
<1>1. /\ at = "batch" /\ ready # <<>> /\ ready' = Tail(ready)
      /\ at' \in {"batch", "callback"} /\ (at' = "callback" => back' = "batch")
      /\ UNCHANGED <<loop_running, aio_task_num, executing>>
  BY DEF BatchGoesOn
<1>2. aio_task_num \in Int
  BY DEF LoopInv, TypeInv, ReactorTypeOK
<1>3. ReadyInv'
  <2>1. InBatchNow'
    BY <1>1 DEF InBatchNow
  <2>2. ~TaskDone'
    BY Zenon, <1>1 DEF TaskDone
  <2>3. QED BY <1>1, <1>2, <2>1, <2>2, TailReady, ReadyKept
<1>4. ExitInv'
  BY Zenon, <1>1, ExitKept
<1>5. ExecInv'
  BY <1>1 DEF LoopInv, ExecInv, Doing
<1>6. QED BY <1>3, <1>4, <1>5

LEMMA QuietBatch ==
  ASSUME LoopInv, at = "batch", ready # <<>>, ready' = Tail(ready),
         at' \in {"batch", "callback"}, at' = "callback" => back' = "batch", back' \in Backs,
         unchanged_loop, UNCHANGED <<loop_running, deferVars, singal_no>>
  PROVE  LoopInv'
<1>1. at' \in Places /\ ready' \in Seq(Sources \X Kinds)
  BY Zenon, TailReady DEF Places
<1>2. Quiet /\ UNCHANGED <<timers, aio_task_num>>
  BY <1>1, FlowTypes, QuietFlow
<1>3. BatchGoesOn
  BY <1>2 DEF BatchGoesOn, deferVars
<1>4. \A b \in Sockets : sock'[b].freed = sock[b].freed
  BY <1>2 DEF Quiet
<1>5. QED BY Zenon, <1>2, <1>3, <1>4, BatchStep, QuietStep DEF LoopInv

LEMMA Skip ==
  ASSUME LoopInv, NEW s \in Sockets, skip(s)
  PROVE  LoopInv'
BY QuietBatch, FlowTypes DEF skip, InBatch, signalVars

LEMMA ReadHandler ==
  ASSUME LoopInv, NEW s \in Sockets, read_handler(s)
  PROVE  LoopInv'
<1>1. at' \in {"callback", "batch"} /\ back' \in Backs /\ (at' = "callback" => back' = "batch")
  BY Zenon, CallbackTo DEF read_handler, Backs
<1>2. QED BY <1>1, QuietBatch DEF read_handler, InBatch, signalVars

LEMMA SignalfdCallback ==
  ASSUME LoopInv, signalfd_event_callback
  PROVE  LoopInv'
<1>1. at' \in {"callback", "batch"} /\ back' \in Backs /\ (at' = "callback" => back' = "batch")
  BY Zenon, CallbackTo DEF signalfd_event_callback, Backs
<1>2. QED BY <1>1, QuietBatch DEF signalfd_event_callback, InBatch

LEMMA WritableCallback ==
  ASSUME LoopInv, NEW s \in Sockets, writable_callback(s)
  PROVE  LoopInv'
<1>1. TypeInv /\ RegInv
  BY DEF LoopInv
<1>2. /\ at = "batch" /\ ready # <<>> /\ ready' = Tail(ready) /\ ~sock[s].removed
      /\ UNCHANGED <<use_signalfd, loop_running, defer_tasks, executing, timers, aio_task_num, singal_no, written>>
  BY DEF writable_callback, InBatch, deferVars, signalVars
<1>3. PICK n \in 0..Len(out_buffer[s]) :
       /\ sent' = [sent EXCEPT ![s] = @ \o SubSeq(out_buffer[s], 1, n)]
       /\ out_buffer' = [out_buffer EXCEPT ![s] = SubSeq(@, n + 1, Len(@))]
       /\ \/ n = Len(out_buffer[s]) /\ remove_event(s, "write") /\ UNCHANGED <<at, back>>
          \/ n < Len(out_buffer[s]) /\ UNCHANGED <<at, back, socketVars>>
          \/ n < Len(out_buffer[s]) /\ callback("batch") /\ UNCHANGED socketVars
  BY Zenon DEF writable_callback
<1>4. /\ out_buffer \in [Sockets -> Seq(Nat)] /\ sent \in [Sockets -> Seq(Nat)] /\ written \in [Sockets -> Nat]
      /\ sock[s].events \subseteq {"read", "write"}
  BY Zenon, <1>1, SockFields DEF TypeInv
<1>5. at' \in {"batch", "callback"} /\ back' \in Backs /\ (at' = "callback" => back' = "batch")
  BY Zenon, <1>2, <1>3, CallbackTo, FlowTypes DEF Backs
<1>6. at' \in Places /\ ready' \in Seq(Sources \X Kinds)
  BY Zenon, <1>2, <1>5, TailReady DEF Places
<1>7. /\ SubSeq(out_buffer[s], 1, n) \in Seq(Nat) /\ SubSeq(out_buffer[s], n + 1, Len(out_buffer[s])) \in Seq(Nat)
      /\ n = Len(out_buffer[s]) => SubSeq(out_buffer[s], n + 1, Len(out_buffer[s])) = <<>>
  BY Zenon, <1>4, SplitSeq
<1>8. /\ out_buffer' \in [Sockets -> Seq(Nat)]
      /\ out_buffer'[s] = SubSeq(out_buffer[s], n + 1, Len(out_buffer[s]))
      /\ \A b \in Sockets \ {s} : out_buffer'[b] = out_buffer[b]
  BY Zenon, <1>3, <1>4, <1>7
<1>9. sent' \in [Sockets -> Seq(Nat)]
  <2>1. sent[s] \o SubSeq(out_buffer[s], 1, n) \in Seq(Nat)
    BY <1>4, <1>7
  <2>2. QED BY Zenon, <1>3, <1>4, <2>1
<1>10. PICK ev \in SUBSET {"read", "write"} : Registered(s, ev) /\ OutputOf(s, ev)
  <2>1. CASE n = Len(out_buffer[s])
    <3>1. Registered(s, sock[s].events \ {"write"})
      <4>1. remove_event(s, "write")
        BY <1>3, <1>4, <2>1
      <4>2. QED BY Zenon, <1>1, <4>1, RemoveEvent
    <3>2. out_buffer'[s] = <<>>
      BY <1>7, <1>8, <2>1
    <3>3. OutputOf(s, sock[s].events \ {"write"})
      BY Zenon, <1>2, <1>4, <1>8, <1>9, <3>2 DEF OutputOf
    <3>4. QED BY Zenon, <1>4, <3>1, <3>3
  <2>2. CASE n < Len(out_buffer[s])
    <3>1. Registered(s, sock[s].events)
      BY <1>1, <1>3, <2>2, SameRegisters
    <3>2. out_buffer[s] # <<>>
      BY <1>4, <2>2
    <3>3. OutputOf(s, sock[s].events)
      BY <1>2, <1>4, <1>8, <1>9, <3>2 DEF OutputOf, LoopInv, WaitInv
    <3>4. QED BY Zenon, <1>4, <3>1, <3>3
  <2>3. QED BY <1>3, <2>1, <2>2
<1>11. Usable(s)
  BY Zenon, <1>2 DEF LoopInv, GoneInv
<1>12. TypeInv' /\ RegInv' /\ GoneInv' /\ WaitInv' /\ \A b \in Sockets : sock'[b].freed = sock[b].freed
  BY Zenon, <1>2, <1>5, <1>6, <1>10, <1>11, SocketStep
<1>13. ReadyInv' /\ ExitInv' /\ ExecInv'
  BY <1>2, <1>5, <1>12, BatchStep DEF BatchGoesOn
<1>14. QED BY <1>12, <1>13 DEF LoopInv

(* What epoll_wait returns refers to registered sockets, and at most once  *)
(* to the completion pipe.                                                 *)
LEMMA ReportShape ==
  ASSUME LoopInv, NEW s \in Reporting, NEW b \in Reports(s)
  PROVE  /\ s \in Sources /\ b \in Seq(Sources \X Kinds) /\ Len(b) \in {1, 2}
         /\ \A i \in 1 .. Len(b) : b[i][1] = s
         /\ s = "aio" => Len(b) = 1
<1>1. s \in Sources
  BY DEF Reporting, Sources
<1>2. CASE s \in Sockets
  <2>1. epoll[s] \subseteq Kinds /\ s # "aio"
    BY <1>2, ReactorAssumption DEF LoopInv, TypeInv, ReactorTypeOK, Kinds
  <2>2. CASE \E k \in epoll[s] : b = <<<<s, k>>>>
    BY <1>1, <2>1, <2>2
  <2>3. CASE b = <<<<s, "read">>, <<s, "write">>>>
    BY <1>1, <2>1, <2>3 DEF Kinds
  <2>4. QED BY <1>2, <2>2, <2>3 DEF Reports
<1>3. CASE s \notin Sockets
  <2>1. b = <<<<s, "read">>>>
    BY <1>3 DEF Reports
  <2>2. QED BY <1>1, <2>1 DEF Kinds
<1>4. QED BY <1>2, <1>3

FromKernel(b) ==
  /\ b \in Seq(Sources \X Kinds)
  /\ \A i \in DOMAIN b : b[i][1] \in Reporting
  /\ \A i, j \in DOMAIN b : b[i][1] = "aio" /\ b[j][1] = "aio" => i = j

LEMMA BatchShape ==
  ASSUME LoopInv, NEW b \in Batches
  PROVE  FromKernel(b)
<1> DEFINE one == UNION {Reports(s) : s \in Reporting}
<1>1. CASE b \in one
  <2>1. PICK s \in Reporting : b \in Reports(s)
    BY <1>1
  <2>2. /\ b \in Seq(Sources \X Kinds) /\ Len(b) \in {1, 2}
        /\ \A i \in 1 .. Len(b) : b[i][1] = s
        /\ s = "aio" => Len(b) = 1
    BY <2>1, ReportShape
  <2>3. DOMAIN b = 1 .. Len(b)
    BY <2>2
  <2>4. QED BY <2>2, <2>3 DEF FromKernel
<1>2. CASE b \notin one
  <2>1. PICK p \in one, q \in one : b = p \o q /\ p[1][1] # q[1][1]
    BY ZenonT(30), <1>2 DEF Batches
  <2>2. PICK s \in Reporting, t \in Reporting : p \in Reports(s) /\ q \in Reports(t)
    BY <2>1
  <2>3. /\ p \in Seq(Sources \X Kinds) /\ Len(p) \in {1, 2}
        /\ \A i \in 1 .. Len(p) : p[i][1] = s
        /\ s = "aio" => Len(p) = 1
    BY <2>2, ReportShape
  <2>4. /\ q \in Seq(Sources \X Kinds) /\ Len(q) \in {1, 2}
        /\ \A i \in 1 .. Len(q) : q[i][1] = t
        /\ t = "aio" => Len(q) = 1
    BY <2>2, ReportShape
  <2>5. /\ p \o q \in Seq(Sources \X Kinds) /\ Len(p \o q) = Len(p) + Len(q)
        /\ \A i \in 1 .. Len(p) + Len(q) : (p \o q)[i] = IF i <= Len(p) THEN p[i] ELSE q[i - Len(p)]
    BY <2>3, <2>4
  <2>6. DOMAIN b = 1 .. Len(p) + Len(q)
    BY <2>1, <2>5
  <2>7. \A i \in DOMAIN b : b[i][1] = IF i <= Len(p) THEN s ELSE t
    BY <2>1, <2>3, <2>4, <2>5, <2>6
  <2>8. s # t
    BY <2>1, <2>3, <2>4
  <2>9. \A i, j \in DOMAIN b : b[i][1] = "aio" /\ b[j][1] = "aio" => i = j
    BY <2>3, <2>4, <2>6, <2>7, <2>8
  <2>10. QED BY <2>1, <2>5, <2>7, <2>9 DEF FromKernel
<1>3. QED BY <1>1, <1>2

LEMMA Wakes ==
  ASSUME LoopInv, wakes
  PROVE  LoopInv'
<1>1. /\ at = "sleep" /\ at' = "batch" /\ UNCHANGED back /\ UNCHANGED <<loop_running, deferVars, singal_no>>
      /\ unchanged_loop
  BY DEF wakes, go
<1>2. FromKernel(ready')
  <2>1. CASE ready' \in Batches
    BY <2>1, BatchShape
  <2>2. CASE ready' = <<>>
    BY <2>2, EmptyDomain DEF FromKernel
  <2>3. QED BY <2>1, <2>2 DEF wakes
<1>3. at' \in Places
  BY <1>1 DEF Places
<1>4. Quiet /\ UNCHANGED <<timers, aio_task_num>>
  BY <1>1, <1>2, <1>3, FlowTypes, QuietFlow DEF FromKernel
<1>5. ASSUME NEW i \in DOMAIN ready', ready'[i][1] \in Sockets
      PROVE  ~sock'[ready'[i][1]].freed
  <2> DEFINE s == ready'[i][1]
  <2>1. epoll[s] # {}
    BY Zenon, <1>2, <1>5, ReactorAssumption DEF FromKernel, Reporting
  <2>2. ~sock[s].removed
    BY <1>5, <2>1 DEF LoopInv, RegInv
  <2>3. Usable(s)
    BY <1>5, <2>2 DEF LoopInv, GoneInv
  <2>4. QED BY <1>4, <2>3 DEF Usable, Quiet
<1>6. ASSUME NEW i \in DOMAIN ready', ready'[i][1] = "aio"
      PROVE  aio_task_num' > 0
  BY <1>2, <1>4, <1>6, ReactorAssumption DEF FromKernel, Reporting
<1>7. ReadyInv'
  BY <1>1, <1>2, <1>5, <1>6 DEF ReadyInv, Doing, FromKernel
<1>8. ExitInv'
  BY <1>1, ExitKept
<1>9. ExecInv'
  BY <1>1 DEF LoopInv, ExecInv, Doing, deferVars
<1>10. QED BY <1>4, <1>7, <1>8, <1>9, QuietStep DEF LoopInv

(* The event of a finished task was the only one of its kind in the batch. *)
LEMMA TaskHandler ==
  ASSUME LoopInv, task_handler
  PROVE  LoopInv'
<1>1. /\ at = "batch" /\ ready # <<>> /\ Head(ready) = <<"aio", "read">> /\ ready' = Tail(ready)
      /\ UNCHANGED <<loop_running, deferVars, singal_no>> /\ unchanged_loop
  BY Zenon DEF task_handler, InBatch, signalVars
<1>2. /\ at' \in {"callback", "task done"} /\ back' \in Backs /\ at' \in Places
      /\ at' = "callback" => back' = "task done"
  BY Zenon, CallbackTo DEF task_handler, Backs
<1>3. /\ ready' \in Seq(Sources \X Kinds) /\ DOMAIN ready' \subseteq Int
      /\ \A i \in DOMAIN ready' : i + 1 \in DOMAIN ready /\ ready'[i] = ready[i + 1]
      /\ 1 \in DOMAIN ready /\ ready[1] = Head(ready) /\ \A i \in DOMAIN ready' : i >= 1
  BY <1>1, TailReady
<1>4. Quiet /\ UNCHANGED <<timers, aio_task_num>>
  BY Zenon, <1>1, <1>2, <1>3, FlowTypes, QuietFlow
<1>5. ready[1][1] = "aio"
  BY <1>1, <1>3
<1>6. aio_task_num' > 0
  BY Zenon, <1>3, <1>4, <1>5 DEF LoopInv, ReadyInv
<1>7. ASSUME NEW i \in DOMAIN ready'
      PROVE  ready'[i][1] # "aio" /\ (ready'[i][1] \in Sockets => ~sock'[ready'[i][1]].freed)
  <2>1. i + 1 \in DOMAIN ready /\ ready'[i] = ready[i + 1] /\ i + 1 # 1
    BY <1>3
  <2>2. ready[i + 1][1] # "aio"
    BY Zenon, <1>3, <1>5, <2>1 DEF LoopInv, ReadyInv
  <2>3. sock' = sock
    BY <1>4 DEF Quiet
  <2>4. ready[i + 1][1] \in Sockets => ~sock[ready[i + 1][1]].freed
    BY Zenon, <2>1 DEF LoopInv, ReadyInv
  <2>5. QED BY <2>1, <2>2, <2>3, <2>4
<1>8. ReadyInv'
  BY Zenon, <1>2, <1>6, <1>7 DEF ReadyInv, Doing
<1>9. ExitInv'
  BY Zenon, <1>1, <1>2, ExitKept
<1>10. ExecInv'
  BY <1>1 DEF LoopInv, ExecInv, Doing, deferVars
<1>11. QED BY <1>4, <1>8, <1>9, <1>10, QuietStep DEF LoopInv

LEMMA TaskIsDone ==
  ASSUME LoopInv, task_done
  PROVE  LoopInv'
<1>1. /\ at = "task done" /\ at' = "batch" /\ UNCHANGED back /\ aio_task_num' = aio_task_num - 1
      /\ UNCHANGED <<use_signalfd, sock, sockets_, epoll, defer_tasks, executing, out_buffer, written, sent>>
      /\ UNCHANGED <<loop_running, ready, timers, singal_no>>
  BY Zenon DEF task_done, go, socketVars, deferVars, signalVars, outVars
<1>2. aio_task_num \in Int /\ aio_task_num > 0 /\ timers \in Nat
  <2>1. aio_task_num \in Int /\ timers \in Nat
    BY DEF LoopInv, TypeInv, ReactorTypeOK
  <2>2. aio_task_num > 0
    BY Zenon, <1>1 DEF LoopInv, ReadyInv, Doing
  <2>3. QED BY <2>1, <2>2
<1>3. Quiet
  <2>1. aio_task_num' \in Nat \cup {-1} /\ (aio_task_num' >= 0 <=> aio_task_num >= 0) /\ timers' \in Nat
    <3>1. aio_task_num' = aio_task_num - 1 /\ timers' = timers
      BY Zenon, <1>1
    <3>2. QED BY <1>2, <3>1
  <2>2. at' \in Places
    BY Zenon, <1>1 DEF Places
  <2>3. QED BY Zenon, <1>1, <2>1, <2>2, FlowTypes DEF Quiet
<1>4. /\ \A i \in DOMAIN ready : ready[i][1] = "aio" => ~Doing("task done")
      /\ \A i \in DOMAIN ready : ready[i][1] \in Sockets => ~sock[ready[i][1]].freed
  BY Zenon DEF LoopInv, ReadyInv
<1>. \A i \in DOMAIN ready : ready[i][1] # "aio"
  BY Zenon, <1>1, <1>4 DEF Doing
<1>5. ReadyInv'
  BY Zenon, <1>1, <1>4 DEF ReadyInv, Doing
<1>6. ExitInv'
  BY Zenon, <1>1, ExitKept
<1>7. ExecInv'
  BY Zenon, <1>1 DEF LoopInv, ExecInv, Doing
<1>8. QED BY <1>3, <1>5, <1>6, <1>7, QuietStep DEF LoopInv

LEMMA EndDefer ==
  ASSUME LoopInv, end_defer
  PROVE  LoopInv'
<1>1. /\ at = "defer" /\ at' = "execute" /\ UNCHANGED back /\ executing' = defer_tasks /\ defer_tasks' = <<>>
      /\ UNCHANGED <<use_signalfd, sock, sockets_, epoll, out_buffer, written, sent>>
      /\ UNCHANGED <<loop_running, ready, timers, singal_no, aio_task_num>>
  BY DEF end_defer, go, unchanged_loop, socketVars, signalVars, outVars
<1>2. defer_tasks' \in Seq(Sockets \cup {"user"}) /\ Range(defer_tasks') = {}
  BY <1>1, EmptyDomain DEF Range
<1>3. at' \in Places
  BY <1>1 DEF Places
<1>4. TypeInv'
  <2>1. ReactorTypeOK'
    BY <1>1 DEF LoopInv, TypeInv, ReactorTypeOK
  <2>2. QED BY <1>1, <1>2, <1>3, <2>1 DEF LoopInv, TypeInv
<1>5. RegInv' /\ WaitInv'
  BY <1>1 DEF LoopInv, RegInv, WaitInv
<1>6. GoneInv'
  BY <1>1, <1>2 DEF LoopInv, GoneInv, Usable
<1>7. ReadyInv'
  BY <1>1, NotInBatch, ReadyNone
<1>8. ExitInv'
  BY <1>1, ExitKept
<1>9. ExecInv'
  BY <1>1 DEF ExecInv, Doing
<1>10. QED BY <1>4, <1>5, <1>6, <1>7, <1>8, <1>9 DEF LoopInv

LEMMA TailRange ==
  ASSUME NEW S, NEW q \in Seq(S), q # <<>>
  PROVE  /\ Head(q) \in S /\ Tail(q) \in Seq(S) /\ Head(q) \in Range(q)
         /\ Range(Tail(q)) \subseteq Range(q) /\ Range(q) \subseteq Range(Tail(q)) \cup {Head(q)}
<1>1. /\ Head(q) \in S /\ Tail(q) \in Seq(S)
      /\ Len(Tail(q)) = Len(q) - 1 /\ Len(q) \in Nat \ {0} /\ Head(q) = q[1]
      /\ \A i \in 1 .. Len(Tail(q)) : Tail(q)[i] = q[i + 1]
  OBVIOUS
<1>2. DOMAIN q = 1 .. Len(q) /\ DOMAIN Tail(q) = 1 .. Len(q) - 1
  BY <1>1
<1>3. Head(q) \in Range(q) /\ Range(Tail(q)) \subseteq Range(q)
  BY <1>1, <1>2 DEF Range
<1>4. ASSUME NEW i \in DOMAIN q PROVE q[i] \in Range(Tail(q)) \cup {Head(q)}
  <2>1. i = 1 \/ i \in 2 .. Len(q)
    BY <1>1, <1>2
  <2>2. CASE i \in 2 .. Len(q)
    <3>1. i - 1 \in DOMAIN Tail(q) /\ q[i] = Tail(q)[i - 1]
      BY <1>1, <1>2, <2>2
    <3>2. QED BY <3>1 DEF Range
  <2>3. QED BY <1>1, <2>1, <2>2
<1>5. Range(q) = {q[i] : i \in DOMAIN q}
  BY DEF Range
<1>6. QED BY <1>1, <1>3, <1>4, <1>5

(* A socket is freed after it was removed, and while no event is pending.  *)
LEMMA Execute ==
  ASSUME LoopInv, execute
  PROVE  LoopInv'
<1>1. /\ at = "execute" /\ executing # <<>> /\ executing' = Tail(executing)
      /\ UNCHANGED <<use_signalfd, loop_running, ready, defer_tasks, timers, aio_task_num, singal_no>>
      /\ UNCHANGED <<out_buffer, written, sent>>
  BY DEF execute, signalVars, outVars
<1> DEFINE t == Head(executing)
<1>2. /\ executing \in Seq(Sockets \cup {"user"}) /\ executing' \in Seq(Sockets \cup {"user"})
      /\ t \in Sockets \cup {"user"} /\ t \in Range(executing) /\ Range(executing') \subseteq Range(executing)
  <2>1. executing \in Seq(Sockets \cup {"user"})
    BY DEF LoopInv, TypeInv
  <2>2. QED BY <1>1, <2>1, TailRange
<1>3. ready = <<>>
  BY <1>1, NotInBatch
<1>4. CASE t = "user" /\ callback("execute") /\ UNCHANGED socketVars
  <2>1. UNCHANGED <<sock, sockets_, epoll>>
    BY <1>4 DEF socketVars
  <2>2. /\ at' \in {"callback", "execute"} /\ back' \in Backs /\ at' \in Places
        /\ at' = "callback" => back' = "execute"
    BY Zenon, <1>4, CallbackTo DEF Backs
  <2>3. TypeInv'
    <3>1. ReactorTypeOK'
      BY Zenon, <1>1, <2>1 DEF LoopInv, TypeInv, ReactorTypeOK
    <3>2. QED BY Zenon, <1>1, <1>2, <2>1, <2>2, <3>1 DEF LoopInv, TypeInv
  <2>4. RegInv' /\ WaitInv'
    BY <1>1, <2>1 DEF LoopInv, RegInv, WaitInv
  <2>5. GoneInv'
    BY <1>1, <1>2, <2>1 DEF LoopInv, GoneInv, Usable
  <2>6. ReadyInv'
    BY Zenon, <1>1, <1>3, <2>2, ReadyNone
  <2>7. ExitInv'
    BY <1>1, <2>2, ExitKept
  <2>8. ExecInv'
    BY <2>2 DEF ExecInv, Doing
  <2>9. QED BY <2>3, <2>4, <2>5, <2>6, <2>7, <2>8 DEF LoopInv
<1>5. CASE /\ t # "user" /\ UNCHANGED <<at, back, sockets_>>
           /\ sock' = [sock EXCEPT ![t].freed = TRUE]
           /\ epoll' = [epoll EXCEPT ![t] = {}]
  <2>1. t \in Sockets /\ TypeInv /\ RegInv
    BY Zenon, <1>2, <1>5 DEF LoopInv
  <2>2. sock[t].removed /\ epoll[t] = {}
    <3>1. ~Usable(t)
      BY <1>2 DEF Usable
    <3>2. QED BY <2>1, <3>1 DEF LoopInv, GoneInv, RegInv
  <2>3. sock \in [Sockets -> SockRecord] /\ epoll \in [Sockets -> SUBSET {"read", "write", "hup"}]
    BY <2>1, SockFields
  <2>4. /\ sock' \in [Sockets -> SockRecord]
        /\ \A b \in Sockets : sock'[b].events = sock[b].events /\ sock'[b].removed = sock[b].removed
        /\ \A b \in Sockets \ {t} : sock'[b].freed = sock[b].freed
    BY Zenon, <1>5, <2>1, <2>3 DEF SockRecord
  <2>5. epoll' = epoll
    BY <1>5, <2>1, <2>2, <2>3
  <2>6. TypeInv'
    <3>1. ReactorTypeOK'
      BY Zenon, <1>1, <1>5, <2>4, <2>5 DEF LoopInv, TypeInv, ReactorTypeOK, SockRecord
    <3>2. QED BY <1>1, <1>2, <1>5, <3>1 DEF LoopInv, TypeInv
  <2>7. RegInv' /\ WaitInv'
    BY ZenonT(30), <1>1, <1>5, <2>4, <2>5 DEF LoopInv, RegInv, WaitInv
  <2>8. GoneInv'
    <3> SUFFICES ASSUME NEW b \in Sockets, ~Usable(b)'
                 PROVE  sock'[b].removed
      BY DEF GoneInv
    <3>1. ~Usable(b)
      BY <1>1, <1>2, <2>4 DEF Usable
    <3>2. QED BY <2>4, <3>1 DEF LoopInv, GoneInv
  <2>9. ReadyInv'
    BY <1>1, <1>3, <1>5, ReadyNone
  <2>10. ExitInv'
    BY <1>1, <1>5, ExitKept
  <2>11. ExecInv'
    BY <1>1, <1>5 DEF ExecInv, Doing
  <2>12. QED BY <2>6, <2>7, <2>8, <2>9, <2>10, <2>11 DEF LoopInv
<1>6. QED BY <1>4, <1>5 DEF execute

-----------------------------------------------------------------------------
LEMMA InitLoop == ReactorInit => LoopInv
<1> SUFFICES ASSUME ReactorInit PROVE LoopInv
  OBVIOUS
<1>1. use_signalfd \in BOOLEAN
  BY ReactorAssumption, Zenon DEF ReactorInit
<1>2. TypeInv
  <2>1. ReactorTypeOK
    BY DEF ReactorInit, ReactorTypeOK
  <2>2. at \in Places /\ back \in Backs /\ loop_running \in BOOLEAN
    BY DEF ReactorInit, Places, Backs
  <2>3. /\ ready \in Seq(Sources \X Kinds)
        /\ defer_tasks \in Seq(Sockets \cup {"user"}) /\ executing \in Seq(Sockets \cup {"user"})
    BY DEF ReactorInit
  <2>4. out_buffer \in [Sockets -> Seq(Nat)] /\ sent \in [Sockets -> Seq(Nat)] /\ written \in [Sockets -> Nat]
    BY DEF ReactorInit
  <2>5. QED BY Zenon, <1>1, <2>1, <2>2, <2>3, <2>4 DEF TypeInv
<1>3. RegInv
  BY <1>1, ReactorAssumption DEF ReactorInit, RegInv
<1>4. GoneInv /\ WaitInv
  BY Zenon DEF ReactorInit, GoneInv, WaitInv
<1>5. ReadyInv
  BY EmptyDomain DEF ReactorInit, ReadyInv, Doing
<1>6. ExitInv /\ ExecInv
  BY DEF ReactorInit, ExitInv, ExecInv, ExitExact
<1>7. QED BY <1>2, <1>3, <1>4, <1>5, <1>6 DEF LoopInv

LEMMA StepLoop ==
  ASSUME LoopInv, [ReactorNext]_reactorVars
  PROVE  LoopInv'
<1>1. CASE UserNext
  BY <1>1, UserSteps
<1>2. CASE LoopNext
  <2>1. CASE \E s \in Sockets : skip(s) \/ read_handler(s) \/ writable_callback(s)
    BY <2>1, Skip, ReadHandler, WritableCallback
  <2>2. QED
    BY Zenon, <1>2, <2>1, CallbackReturns, Start, Begin, Wakes, TaskHandler, TaskIsDone, SignalfdCallback, BatchDone,
       EndTimer, EndDefer, Execute, EndIdle, EndSignal, EndReset, TryExit DEF LoopNext
<1>3. CASE \E sig \in Signals : raise(sig)
  BY <1>3, Raise
<1>4. CASE UNCHANGED reactorVars
  <2>1. /\ UNCHANGED <<use_signalfd, at, back, loop_running, ready, timers, aio_task_num, singal_no>>
        /\ UNCHANGED <<sock, sockets_, epoll, defer_tasks, executing, out_buffer, written, sent>>
    BY <1>4 DEF reactorVars, flowVars, socketVars, deferVars, signalVars, outVars
  <2>2. Quiet
    BY <2>1, FlowTypes DEF Quiet, LoopInv, TypeInv, ReactorTypeOK
  <2>3. ReadyInv' /\ ExecInv'
    BY Zenon, <2>1 DEF LoopInv, ReadyInv, ExecInv, Doing
  <2>4. Outstanding' <=> Outstanding
    BY <2>1 DEF Outstanding
  <2>5. ExitInv'
    BY <2>1, <2>4 DEF LoopInv, ExitInv, ExitExact
  <2>6. QED BY <2>2, <2>3, <2>5, QuietStep DEF LoopInv
<1>5. QED BY <1>1, <1>2, <1>3, <1>4 DEF ReactorNext

(* For any sockets, signals and number of calls: the reactor, the sockets  *)
(* and the kernel agree on what is registered, whatever handlers do while  *)
(* a batch is worked off; no pending event refers to a freed socket; and   *)
(* the loop stops exactly when nothing is left to wait for.                *)
THEOREM LoopIsSound == ReactorSpec => []LoopSound
<1>1. LoopInv => LoopSound
  BY Zenon DEF LoopInv, TypeInv, RegInv, WaitInv, ReadyInv, ExitInv, LoopSound
<1>2. QED BY <1>1, InitLoop, StepLoop, PTL DEF ReactorSpec

-----------------------------------------------------------------------------
(* Output.                                                                 *)
Counting(q) == \A i \in DOMAIN q : q[i] = i

LEMMA CountingPrefix ==
  ASSUME NEW a \in Seq(Nat), NEW b \in Seq(Nat), Counting(a \o b)
  PROVE  Counting(a \o <<>>)
<1>1. /\ a \o b \in Seq(Nat) /\ Len(a \o b) = Len(a) + Len(b)
      /\ \A i \in 1 .. Len(a) + Len(b) : (a \o b)[i] = IF i <= Len(a) THEN a[i] ELSE b[i - Len(a)]
  BY ConcatFacts
<1>2. DOMAIN (a \o b) = 1 .. Len(a) + Len(b) /\ DOMAIN a = 1 .. Len(a) /\ Len(a) \in Nat /\ Len(b) \in Nat
  BY <1>1
<1>3. \A i \in DOMAIN a : a[i] = i
  BY <1>1, <1>2 DEF Counting
<1>4. a \o <<>> = a
  OBVIOUS
<1>5. QED BY <1>3, <1>4 DEF Counting

LEMMA CountingAppend ==
  ASSUME NEW q \in Seq(Nat), Counting(q), NEW w \in Nat, Len(q) = w,
         NEW b \in Seq(Nat), Len(b) = 2, b[1] = w + 1, b[2] = w + 2
  PROVE  Counting(q \o b) /\ Len(q \o b) = w + 2
<1>1. /\ q \o b \in Seq(Nat) /\ Len(q \o b) = Len(q) + Len(b)
      /\ \A i \in 1 .. Len(q) + Len(b) : (q \o b)[i] = IF i <= Len(q) THEN q[i] ELSE b[i - Len(q)]
  BY Zenon, ConcatFacts
<1>2. DOMAIN (q \o b) = 1 .. w + 2 /\ DOMAIN q = 1 .. w
  BY <1>1
<1>3. ASSUME NEW i \in 1 .. w + 2 PROVE (q \o b)[i] = i
  <2>1. CASE i <= w
    BY <1>1, <1>2, <2>1 DEF Counting
  <2>2. CASE i = w + 1
    BY <1>1, <2>2
  <2>3. CASE i = w + 2
    BY <1>1, <2>3
  <2>4. i <= w \/ i = w + 1 \/ i = w + 2
    OBVIOUS
  <2>5. QED BY Zenon, <2>1, <2>2, <2>3, <2>4
<1>4. QED BY Zenon, <1>1, <1>2, <1>3 DEF Counting

OutputStep(s) ==
  /\ \A b \in Sockets \ {s} : /\ sent'[b] = sent[b] /\ out_buffer'[b] = out_buffer[b] /\ written'[b] = written[b]
                              /\ Usable(b)' => Usable(b)
  /\ Counting(sent'[s] \o out_buffer'[s])
  /\ Usable(s)' => Len(sent'[s] \o out_buffer'[s]) = written'[s]

LEMMA OutputKept ==
  ASSUME OutputInOrder, NEW s \in Sockets, OutputStep(s)
  PROVE  OutputInOrder'
<1> SUFFICES ASSUME NEW b \in Sockets
             PROVE  /\ \A i \in DOMAIN (sent'[b] \o out_buffer'[b]) : (sent'[b] \o out_buffer'[b])[i] = i
                    /\ Usable(b)' => Len(sent'[b] \o out_buffer'[b]) = written'[b]
  BY Zenon DEF OutputInOrder
<1>1. CASE b = s
  BY Zenon, <1>1 DEF OutputStep, Counting
<1>2. CASE b # s
  <2>1. /\ sent'[b] = sent[b] /\ out_buffer'[b] = out_buffer[b] /\ written'[b] = written[b]
        /\ Usable(b)' => Usable(b)
    BY <1>2 DEF OutputStep
  <2>2. QED BY Zenon, <2>1 DEF OutputInOrder
<1>3. QED BY Zenon, <1>1, <1>2

LEMMA OutputSame ==
  ASSUME OutputInOrder, UNCHANGED <<sent, out_buffer, written>>, \A b \in Sockets : Usable(b)' => Usable(b)
  PROVE  OutputInOrder'
BY Zenon DEF OutputInOrder

LEMMA ConcatThree ==
  ASSUME NEW a \in Seq(Nat), NEW b \in Seq(Nat), NEW c \in Seq(Nat)
  PROVE  (a \o b) \o c = a \o (b \o c)
OBVIOUS

LEMMA WriteOutput ==
  ASSUME LoopInv, OutputInOrder, NEW s \in Sockets, user_write(s)
  PROVE  OutputInOrder'
<1>1. LoopInv'
  BY UserWrite
<1>2. /\ out_buffer \in [Sockets -> Seq(Nat)] /\ sent \in [Sockets -> Seq(Nat)] /\ written \in [Sockets -> Nat]
      /\ Bytes(s) \in Seq(Nat) /\ Len(Bytes(s)) = 2
      /\ Bytes(s)[1] = written[s] + 1 /\ Bytes(s)[2] = written[s] + 2
  BY Zenon, BytesType DEF LoopInv, TypeInv
<1>3. Usable(s) /\ UNCHANGED <<defer_tasks, executing>>
  BY DEF user_write, deferVars
<1>4. \A b \in Sockets : sock'[b].freed = sock[b].freed
  <2>1. TypeInv /\ RegInv
    BY DEF LoopInv
  <2>2. CASE UNCHANGED socketVars
    BY <2>2 DEF socketVars
  <2>3. CASE "write" \notin sock[s].events /\ add_event(s, "write")
    <3>1. Registered(s, sock[s].events \cup {"write"})
      BY Zenon, <2>1, <2>3, AddEvent
    <3>2. QED BY <3>1 DEF Registered
  <2>4. QED BY <2>2, <2>3 DEF user_write, write_func
<1>5. \A b \in Sockets : Usable(b)' => Usable(b)
  BY <1>3, <1>4 DEF Usable
<1>6. /\ Counting(sent[s] \o out_buffer[s]) /\ Len(sent[s] \o out_buffer[s]) = written[s]
      /\ sent[s] \o out_buffer[s] \in Seq(Nat)
  <2>1. sent[s] \o out_buffer[s] \in Seq(Nat)
    BY <1>2
  <2>2. QED BY Zenon, <1>3, <2>1 DEF OutputInOrder, Counting
<1>7. /\ Counting((sent[s] \o out_buffer[s]) \o Bytes(s))
      /\ Len((sent[s] \o out_buffer[s]) \o Bytes(s)) = written[s] + 2
  BY Zenon, <1>2, <1>6, CountingAppend
<1>8. CASE /\ out_buffer[s] = <<>>
           /\ \E n \in 0..2 :
                /\ sent' = [sent EXCEPT ![s] = @ \o SubSeq(Bytes(s), 1, n)]
                /\ out_buffer' = [out_buffer EXCEPT ![s] = SubSeq(Bytes(s), n + 1, 2)]
           /\ written' = [written EXCEPT ![s] = @ + 2]
  <2>1. PICK n \in 0..2 :
                /\ sent' = [sent EXCEPT ![s] = @ \o SubSeq(Bytes(s), 1, n)]
                /\ out_buffer' = [out_buffer EXCEPT ![s] = SubSeq(Bytes(s), n + 1, 2)]
    BY Zenon, <1>8
  <2>2. /\ SubSeq(Bytes(s), 1, n) \in Seq(Nat) /\ SubSeq(Bytes(s), n + 1, 2) \in Seq(Nat)
        /\ SubSeq(Bytes(s), 1, n) \o SubSeq(Bytes(s), n + 1, 2) = Bytes(s)
    BY Zenon, <1>2, SplitSeq
  <2>3. /\ sent'[s] = sent[s] \o SubSeq(Bytes(s), 1, n) /\ out_buffer'[s] = SubSeq(Bytes(s), n + 1, 2)
        /\ written'[s] = written[s] + 2
        /\ \A b \in Sockets \ {s} : /\ sent'[b] = sent[b] /\ out_buffer'[b] = out_buffer[b]
                                    /\ written'[b] = written[b]
    BY Zenon, <1>2, <1>8, <2>1
  <2>4. (sent[s] \o SubSeq(Bytes(s), 1, n)) \o SubSeq(Bytes(s), n + 1, 2)
          = sent[s] \o (SubSeq(Bytes(s), 1, n) \o SubSeq(Bytes(s), n + 1, 2))
    <3>1. sent[s] \in Seq(Nat)
      BY <1>2
    <3>2. QED BY Zenon, <2>2, <3>1, ConcatThree
  <2>5. sent[s] \o out_buffer[s] = sent[s]
    BY <1>2, <1>8
  <2>6. sent'[s] \o out_buffer'[s] = (sent[s] \o out_buffer[s]) \o Bytes(s)
    BY <2>2, <2>3, <2>4, <2>5, Zenon
  <2>7. OutputStep(s)
    <3>1. Counting(sent'[s] \o out_buffer'[s]) /\ Len(sent'[s] \o out_buffer'[s]) = written'[s]
      BY <1>7, <2>3, <2>6, Zenon
    <3>2. QED BY <1>5, <2>3, <3>1, Zenon DEF OutputStep
  <2>8. QED BY <2>7, OutputKept
<1>9. CASE /\ out_buffer' = [out_buffer EXCEPT ![s] = @ \o Bytes(s)]
           /\ written' = [written EXCEPT ![s] = @ + 2]
           /\ sent' = sent
  <2>1. /\ sent'[s] = sent[s] /\ out_buffer'[s] = out_buffer[s] \o Bytes(s)
        /\ written'[s] = written[s] + 2
        /\ \A b \in Sockets \ {s} : /\ sent'[b] = sent[b] /\ out_buffer'[b] = out_buffer[b]
                                    /\ written'[b] = written[b]
    BY Zenon, <1>2, <1>9
  <2>2. (sent[s] \o out_buffer[s]) \o Bytes(s) = sent[s] \o (out_buffer[s] \o Bytes(s))
    <3>1. sent[s] \in Seq(Nat) /\ out_buffer[s] \in Seq(Nat) /\ Bytes(s) \in Seq(Nat)
      BY <1>2
    <3>2. QED BY Zenon, <3>1, ConcatThree
  <2>3. sent'[s] \o out_buffer'[s] = (sent[s] \o out_buffer[s]) \o Bytes(s)
    BY <2>1, <2>2, Zenon
  <2>4. OutputStep(s)
    <3>1. Counting(sent'[s] \o out_buffer'[s]) /\ Len(sent'[s] \o out_buffer'[s]) = written'[s]
      BY <1>7, <2>1, <2>3, Zenon
    <3>2. QED BY <1>5, <2>1, <3>1, Zenon DEF OutputStep
  <2>5. QED BY <2>4, OutputKept
<1>10. CASE UNCHANGED <<sent, out_buffer, written>>
  BY Zenon, <1>5, <1>10, OutputSame
<1>11. QED BY Zenon, <1>8, <1>9, <1>10 DEF user_write, write_func

LEMMA CloseOutput ==
  ASSUME LoopInv, OutputInOrder, NEW s \in Sockets, user_close(s)
  PROVE  OutputInOrder'
<1>1. out_buffer \in [Sockets -> Seq(Nat)] /\ sent \in [Sockets -> Seq(Nat)]
  BY DEF LoopInv, TypeInv
<1>2. /\ out_buffer' = [out_buffer EXCEPT ![s] = <<>>] /\ UNCHANGED <<written, sent, executing>>
      /\ defer_tasks' = Append(defer_tasks, s)
  BY DEF user_close
<1>3. \A b \in Sockets : sock'[b].freed = sock[b].freed
  <2>1. Registered(s, {})
    BY DelRegisters DEF user_close, LoopInv
  <2>2. QED BY <2>1 DEF Registered
<1>4. Range(defer_tasks') = Range(defer_tasks) \cup {s}
  <2>1. defer_tasks \in Seq(Sockets \cup {"user"})
    BY DEF LoopInv, TypeInv
  <2>2. QED BY <1>2, <2>1, AppendRange
<1>5. ~Usable(s)' /\ \A b \in Sockets : Usable(b)' => Usable(b)
  BY <1>2, <1>3, <1>4 DEF Usable
<1>6. Counting(sent[s] \o <<>>)
  BY Zenon, <1>1, CountingPrefix DEF OutputInOrder, Counting
<1>7. OutputStep(s)
  BY <1>1, <1>2, <1>5, <1>6 DEF OutputStep
<1>8. QED BY <1>7, OutputKept

LEMMA WritableOutput ==
  ASSUME LoopInv, OutputInOrder, NEW s \in Sockets, writable_callback(s)
  PROVE  OutputInOrder'
<1>1. out_buffer \in [Sockets -> Seq(Nat)] /\ sent \in [Sockets -> Seq(Nat)] /\ TypeInv /\ RegInv
  BY DEF LoopInv, TypeInv
<1>2. UNCHANGED <<defer_tasks, executing, written>> /\ ~sock[s].removed
  BY DEF writable_callback, deferVars
<1>3. PICK n \in 0..Len(out_buffer[s]) :
       /\ sent' = [sent EXCEPT ![s] = @ \o SubSeq(out_buffer[s], 1, n)]
       /\ out_buffer' = [out_buffer EXCEPT ![s] = SubSeq(@, n + 1, Len(@))]
       /\ remove_event(s, "write") \/ UNCHANGED socketVars
  BY Zenon DEF writable_callback
<1>4. \A b \in Sockets : sock'[b].freed = sock[b].freed
  <2>1. CASE remove_event(s, "write")
    <3>1. Registered(s, sock[s].events \ {"write"})
      BY Zenon, <1>1, <2>1, RemoveEvent
    <3>2. QED BY <3>1 DEF Registered
  <2>2. CASE UNCHANGED socketVars
    BY Zenon, <2>2 DEF socketVars
  <2>3. QED BY Zenon, <1>3, <2>1, <2>2
<1>5. \A b \in Sockets : Usable(b)' => Usable(b)
  BY <1>2, <1>4 DEF Usable
<1>6. Usable(s)
  BY <1>2 DEF LoopInv, GoneInv
<1>7. out_buffer[s] \in Seq(Nat) /\ sent[s] \in Seq(Nat)
  BY <1>1
<1> DEFINE o == out_buffer[s]
<1>8. /\ SubSeq(o, 1, n) \in Seq(Nat) /\ SubSeq(o, n + 1, Len(o)) \in Seq(Nat)
      /\ SubSeq(o, 1, n) \o SubSeq(o, n + 1, Len(o)) = o
  BY Zenon, <1>7, SplitSeq
<1>9. /\ sent'[s] = sent[s] \o SubSeq(o, 1, n) /\ out_buffer'[s] = SubSeq(o, n + 1, Len(o))
      /\ \A b \in Sockets \ {s} : sent'[b] = sent[b] /\ out_buffer'[b] = out_buffer[b] /\ written'[b] = written[b]
  BY Zenon, <1>1, <1>2, <1>3
<1>10. (sent[s] \o SubSeq(o, 1, n)) \o SubSeq(o, n + 1, Len(o))
         = sent[s] \o (SubSeq(o, 1, n) \o SubSeq(o, n + 1, Len(o)))
  <2> HIDE DEF o
  <2>1. QED BY Zenon, <1>7, <1>8, ConcatThree
<1>11. sent'[s] \o out_buffer'[s] = sent[s] \o out_buffer[s]
  <2>1. sent[s] \o (SubSeq(o, 1, n) \o SubSeq(o, n + 1, Len(o))) = sent[s] \o o
    BY <1>8, Zenon
  <2>2. QED BY <1>9, <1>10, <2>1, Zenon
<1>12. Counting(sent[s] \o out_buffer[s]) /\ Len(sent[s] \o out_buffer[s]) = written[s]
  BY Zenon, <1>6 DEF OutputInOrder, Counting
<1>13. Counting(sent'[s] \o out_buffer'[s]) /\ Len(sent'[s] \o out_buffer'[s]) = written'[s]
  BY <1>2, <1>11, <1>12, Zenon
<1>14. OutputStep(s)
  BY <1>5, <1>9, <1>13, Zenon DEF OutputStep
<1>15. QED BY <1>14, OutputKept

(* Steps that leave output alone: no socket becomes usable again.          *)
NoneUsable == UNCHANGED <<sent, out_buffer, written>> /\ \A b \in Sockets : Usable(b)' => Usable(b)

LEMMA AsideOutput ==
  ASSUME UNCHANGED outVars, UNCHANGED socketVars, UNCHANGED deferVars
  PROVE  NoneUsable
BY DEF outVars, socketVars, deferVars, NoneUsable, Usable

LEMMA UserOutput ==
  ASSUME LoopInv, UserNext,
         ~\E s \in Sockets : user_write(s) \/ user_close(s)
  PROVE  NoneUsable
<1>1. ASSUME NEW s \in Sockets, user_add(s) \/ user_remove(s)
      PROVE  NoneUsable
  <2>1. UNCHANGED <<sent, out_buffer, written, defer_tasks, executing>>
    BY <1>1 DEF user_add, user_remove, outVars, deferVars
  <2>2. PICK ev : Registered(s, ev)
    BY Zenon, <1>1, AddEvent, RemoveEvent DEF user_add, user_remove, LoopInv
  <2>3. \A b \in Sockets : sock'[b].freed = sock[b].freed
    BY <2>2 DEF Registered
  <2>4. QED BY Zenon, <2>1, <2>3 DEF NoneUsable, Usable
<1>2. ASSUME defer PROVE NoneUsable
  <2>1. UNCHANGED <<sent, out_buffer, written, sock, executing>> /\ defer_tasks' = Append(defer_tasks, "user")
    BY <1>2 DEF defer, outVars, socketVars
  <2>2. Range(Append(defer_tasks, "user")) = Range(defer_tasks) \cup {"user"}
    <3>1. defer_tasks \in Seq(Sockets \cup {"user"})
      BY DEF LoopInv, TypeInv
    <3>2. QED BY <3>1, AppendRange
  <2>3. QED BY <2>1, <2>2 DEF NoneUsable, Usable
<1>3. ASSUME user_timer PROVE NoneUsable
  BY <1>3, AsideOutput DEF user_timer
<1>4. ASSUME user_task PROVE NoneUsable
  BY <1>4 DEF user_task, outVars, deferVars, NoneUsable, Usable
<1>5. QED BY Zenon, <1>1, <1>2, <1>3, <1>4 DEF UserNext

LEMMA LoopOutput ==
  ASSUME LoopInv, LoopNext, ~\E s \in Sockets : writable_callback(s)
  PROVE  NoneUsable
<1>1. ASSUME end_defer PROVE NoneUsable
  <2>1. /\ at = "defer" /\ executing' = defer_tasks /\ defer_tasks' = <<>>
        /\ UNCHANGED <<sent, out_buffer, written, sock>>
    BY <1>1 DEF end_defer, unchanged_loop, outVars, socketVars
  <2>2. executing = <<>>
    BY <2>1 DEF LoopInv, ExecInv, Doing
  <2>3. Range(executing) = {}
    BY <2>2, EmptyDomain DEF Range
  <2>4. QED BY <2>1, <2>3 DEF NoneUsable, Usable
<1>2. ASSUME execute PROVE NoneUsable
  <2>1. /\ executing # <<>> /\ executing' = Tail(executing)
        /\ UNCHANGED <<sent, out_buffer, written, defer_tasks>>
        /\ \/ Head(executing) = "user" /\ UNCHANGED sock
           \/ Head(executing) # "user" /\ sock' = [sock EXCEPT ![Head(executing)].freed = TRUE]
    BY <1>2 DEF execute, outVars, socketVars
  <2>2. executing \in Seq(Sockets \cup {"user"}) /\ sock \in [Sockets -> SockRecord]
    BY DEF LoopInv, TypeInv, ReactorTypeOK, SockRecord
  <2>3. Range(executing) \subseteq Range(executing') \cup {Head(executing)} /\ Head(executing) \in Sockets \cup {"user"}
    BY <2>1, <2>2, TailRange
  <2>4. ASSUME NEW b \in Sockets, Usable(b)' PROVE Usable(b)
    <3>1. ~sock'[b].freed /\ b \notin Range(defer_tasks) /\ b \notin Range(executing')
      BY <2>1, <2>4 DEF Usable
    <3>2. b # Head(executing) /\ ~sock[b].freed
      BY <2>1, <2>2, <2>3, <3>1, ReactorAssumption DEF SockRecord
    <3>3. QED BY <2>3, <3>1, <3>2 DEF Usable
  <2>5. QED BY <2>1, <2>4 DEF NoneUsable
<1>3. ASSUME \/ callback_returns \/ start \/ begin \/ wakes \/ task_handler \/ task_done
             \/ signalfd_event_callback \/ batch_done \/ end_timer
             \/ end_idle \/ end_signal \/ end_signal_reset \/ end_try_exit
             \/ \E s \in Sockets : skip(s) \/ read_handler(s)
      PROVE  NoneUsable
  <2>1. UNCHANGED outVars /\ UNCHANGED socketVars /\ UNCHANGED deferVars
    BY Zenon, <1>3 DEF callback_returns, start, begin, wakes, task_handler, task_done, signalfd_event_callback, batch_done,
                end_timer, end_idle, end_signal, end_signal_reset, end_try_exit, skip, read_handler, unchanged_loop
  <2>2. QED BY <2>1, AsideOutput
<1>4. QED BY <1>1, <1>2, <1>3 DEF LoopNext

LEMMA StepOutput ==
  ASSUME LoopInv, OutputInOrder, [ReactorNext]_reactorVars
  PROVE  OutputInOrder'
<1>1. CASE \E s \in Sockets : user_write(s) \/ user_close(s) \/ writable_callback(s)
  BY <1>1, WriteOutput, CloseOutput, WritableOutput
<1>2. CASE ~\E s \in Sockets : user_write(s) \/ user_close(s) \/ writable_callback(s)
  <2>1. NoneUsable
    <3>1. CASE \E sig \in Signals : raise(sig)
      BY <3>1, AsideOutput DEF raise
    <3>2. CASE UNCHANGED reactorVars
      BY <3>2, AsideOutput DEF reactorVars
    <3>3. QED BY <1>2, <3>1, <3>2, UserOutput, LoopOutput DEF ReactorNext
  <2>2. QED BY <2>1, OutputSame DEF NoneUsable
<1>3. QED BY <1>1, <1>2

(* For any sockets and any writes: what a socket gets is what was written  *)
(* to it, in order and each byte once, whether it was sent at once, in     *)
(* part, or later from the buffer; nothing is missing until it is closed.  *)
THEOREM OutputIsInOrder == ReactorSpec => []OutputInOrder
<1>1. ReactorInit => OutputInOrder
  <2> SUFFICES ASSUME ReactorInit, NEW s \in Sockets
               PROVE  /\ \A i \in DOMAIN (sent[s] \o out_buffer[s]) : (sent[s] \o out_buffer[s])[i] = i
                      /\ Usable(s) => Len(sent[s] \o out_buffer[s]) = written[s]
    BY Zenon DEF OutputInOrder
  <2>1. sent[s] = <<>> /\ out_buffer[s] = <<>> /\ written[s] = 0
    BY DEF ReactorInit
  <2>2. sent[s] \o out_buffer[s] = <<>>
    <3>1. <<>> \o <<>> = <<>>
      OBVIOUS
    <3>2. QED BY <2>1, <3>1, Zenon
  <2>3. QED BY <2>1, <2>2, EmptyDomain
<1>2. QED BY <1>1, InitLoop, StepLoop, StepOutput, PTL DEF ReactorSpec

=============================================================================
