----------------------------- MODULE Coroutine -----------------------------
(***************************************************************************)
(* The coroutine scheduler of the core library: class Coroutine of         *)
(* src/coroutine/base.cc and include/openswoole_coroutine.h, with the      *)
(* user-level yield, resume and cancel of ext-src/openswoole_coroutine.cc. *)
(*                                                                         *)
(* All coroutines share one thread.  resume() runs the target on top of    *)
(* its caller and remembers the caller in "origin"; yield() and the end of *)
(* the coroutine's function hand control back to "origin".  Main stands    *)
(* for the null pointer: the native stack of the process, where the        *)
(* reactor loop runs timers and callbacks.                                 *)
(*                                                                         *)
(* User code is any sequence of the calls below, issued by the coroutine   *)
(* that holds the thread.  A blocking call is two steps, the part before   *)
(* the context switch and the part after it; between the two every other   *)
(* coroutine and the reactor may run.                                      *)
(***************************************************************************)
EXTENDS Naturals

CONSTANTS Cos,   \* the coroutines the program may create
          Main   \* no coroutine: Coroutine::current = nullptr

ASSUME MainAssumption == Main \notin Cos

VARIABLES
  current,     \* Coroutine::current
  origin,      \* Coroutine::origin, the resumer of each coroutine
  state,       \* Coroutine::state; "none" before creation, "end" once deleted
  resume_code, \* Coroutine::resume_code_
  cancel_fn,   \* cancel_fn_ /= nullptr
  timer,       \* a timer node whose callback resumes the coroutine is pending
  user_yield_coros, \* coroutines suspended by the user-level yield()
  inflight,    \* coroutines with an AIO event dispatched and not canceled
  on_bailout,  \* "no", "marked" (no resume any more), "fired" (the process exits)
  call,        \* the blocking call the coroutine is inside of
  waker,       \* history: what the last resume() came from
  depth        \* history: frames on the native stack below and including it

swapVars == <<current, origin, state, depth>>
waitVars == <<resume_code, cancel_fn, timer, call, waker>>
lists == <<user_yield_coros, inflight>>
coVars == <<swapVars, waitVars, lists, on_bailout>>

States == {"none", "init", "waiting", "running", "end"}
ResumeCodes == {"ok", "timedout", "canceled"}
Calls == {"none", "yield", "async", "lib"}   \* "lib": of a component built on top
Wakers == {"none", "resume", "timer", "cancel"}

(* A timeout argument as the library converts it: no deadline when it is   *)
(* not positive; (long)(timeout * 1000) is 0 below a millisecond, and      *)
(* openswoole_timer_add refuses a delay of 0 by returning nullptr.         *)
Timeouts == {"never", "submilli", "timed"}
TimerAdded(t) == t = "timed"

OnStack(c) == state[c] \in {"init", "running"}

TypeOK ==
  /\ current \in Cos \cup {Main}
  /\ origin \in [Cos -> Cos \cup {Main}]
  /\ state \in [Cos -> States]
  /\ depth \in [Cos -> Nat]
  /\ resume_code \in [Cos -> ResumeCodes]
  /\ cancel_fn \in [Cos -> BOOLEAN]
  /\ timer \in [Cos -> BOOLEAN]
  /\ call \in [Cos -> Calls]
  /\ waker \in Wakers
  /\ user_yield_coros \in SUBSET Cos
  /\ inflight \in SUBSET Cos
  /\ on_bailout \in {"no", "marked", "fired"}

CoInit ==
  /\ current = Main
  /\ origin = [c \in Cos |-> Main]
  /\ state = [c \in Cos |-> "none"]
  /\ depth = [c \in Cos |-> 0]
  /\ resume_code = [c \in Cos |-> "ok"]
  /\ cancel_fn = [c \in Cos |-> FALSE]
  /\ timer = [c \in Cos |-> FALSE]
  /\ call = [c \in Cos |-> "none"]
  /\ waker = "none"
  /\ user_yield_coros = {}
  /\ inflight = {}
  /\ on_bailout = "no"

(* The thread executes user code: the script or a reactor callback on the  *)
(* main stack, or a coroutine that is not inside a blocking call.          *)
UserCode ==
  /\ on_bailout = "no"
  /\ current \in Cos => call[current] = "none"

-----------------------------------------------------------------------------
(* The context switches every operation is built from.                     *)

SwapIn(c, st) ==
  /\ state' = [state EXCEPT ![c] = st]
  /\ origin' = [origin EXCEPT ![c] = current]
  /\ depth' = [depth EXCEPT ![c] = IF current = Main THEN 1 ELSE depth[current] + 1]
  /\ current' = c

(* Coroutine::resume(): silently nothing once bailout was requested.       *)
resume(c) ==
  IF on_bailout = "no" THEN SwapIn(c, "running") ELSE UNCHANGED swapVars

(* Mutant: control always goes back to the reactor.                        *)
SwapOut_ToMain(c, st) ==
  /\ state' = [state EXCEPT ![c] = st]
  /\ current' = Main
  /\ origin' = [origin EXCEPT ![c] = Main]
  /\ depth' = [depth EXCEPT ![c] = 0]

(* The running coroutine hands control back to its origin, which nobody    *)
(* reads again before the next resume sets it.                             *)
SwapOut(c, st) ==
  /\ state' = [state EXCEPT ![c] = st]
  /\ current' = origin[c]
  /\ origin' = [origin EXCEPT ![c] = Main]
  /\ depth' = [depth EXCEPT ![c] = 0]

(* Mutant: the resume code of the previous call is left in place.          *)
BlockIn_KeepCode(c, k, t) ==
  /\ SwapOut(c, "waiting")
  /\ cancel_fn' = [cancel_fn EXCEPT ![c] = TRUE]
  /\ timer' = [timer EXCEPT ![c] = TimerAdded(t)]
  /\ call' = [call EXCEPT ![c] = k]
  /\ UNCHANGED <<resume_code, waker>>

(* Coroutine::yield(cancel_fn) at the head of a blocking call k, with a    *)
(* timer when the timeout asks for one.                                    *)
BlockIn(c, k, t) ==
  /\ SwapOut(c, "waiting")
  /\ resume_code' = [resume_code EXCEPT ![c] = "ok"]
  /\ cancel_fn' = [cancel_fn EXCEPT ![c] = TRUE]
  /\ timer' = [timer EXCEPT ![c] = TimerAdded(t)]
  /\ call' = [call EXCEPT ![c] = k]
  /\ UNCHANGED waker

(* Mutant: the pending timer is not deleted.                               *)
Unblock_KeepTimer(c) ==
  /\ cancel_fn' = [cancel_fn EXCEPT ![c] = FALSE]
  /\ call' = [call EXCEPT ![c] = "none"]
  /\ UNCHANGED <<timer, resume_code>>

(* The tail of a blocking call of c: yield(cancel_fn) clears the cancel    *)
(* function and the pending timer is deleted.                              *)
Unblock(c) ==
  /\ cancel_fn' = [cancel_fn EXCEPT ![c] = FALSE]
  /\ timer' = [timer EXCEPT ![c] = FALSE]
  /\ call' = [call EXCEPT ![c] = "none"]
  /\ UNCHANGED resume_code

(* Mutant: the callback consumes the timer and forgets to resume.          *)
FireTimer_NoResume(c, code) ==
  /\ timer[c]
  /\ current = Main
  /\ on_bailout # "fired"
  /\ timer' = [timer EXCEPT ![c] = FALSE]
  /\ resume_code' = [resume_code EXCEPT ![c] = code]
  /\ waker' = "timer"
  /\ UNCHANGED <<swapVars, cancel_fn, call>>

(* A timer callback consumes its node and resumes c with the given code.   *)
FireTimer(c, code) ==
  /\ timer[c]
  /\ current = Main
  /\ on_bailout # "fired"
  /\ timer' = [timer EXCEPT ![c] = FALSE]
  /\ resume_code' = [resume_code EXCEPT ![c] = code]
  /\ waker' = "timer"
  /\ resume(c)
  /\ UNCHANGED <<cancel_fn, call>>

(* Coroutine::cancel() up to the call of the cancel function, whose own    *)
(* effects (leaving a queue) the caller conjoins; it ends in resume().     *)
CancelWith(c) ==
  /\ UserCode
  /\ cancel_fn[c]
  /\ cancel_fn' = [cancel_fn EXCEPT ![c] = FALSE]
  /\ resume_code' = [resume_code EXCEPT ![c] = "canceled"]
  /\ waker' = "cancel"
  /\ resume(c)
  /\ UNCHANGED <<timer, call>>

-----------------------------------------------------------------------------
(* The operations.                                                         *)

(* Coroutine::create: the new coroutine runs at once, in STATE_INIT until  *)
(* its first yield.                                                        *)
create(c) ==
  /\ UserCode
  /\ state[c] = "none"
  /\ SwapIn(c, "init")
  /\ UNCHANGED <<waitVars, lists, on_bailout>>

(* The coroutine's function returned: check_end calls close().             *)
close ==
  /\ UserCode
  /\ current \in Cos
  /\ SwapOut(current, "end")
  /\ UNCHANGED <<waitVars, lists, on_bailout>>

(* The user-level yield() of the PHP API.                                  *)
yield ==
  /\ UserCode
  /\ current \in Cos
  /\ user_yield_coros' = user_yield_coros \cup {current}
  /\ BlockIn(current, "yield", "never")
  /\ UNCHANGED <<inflight, on_bailout>>

(* The user-level resume() of the PHP API: only coroutines that yielded    *)
(* through yield() can be resumed by hand.                                 *)
resume_user(c) ==
  /\ UserCode
  /\ c \in user_yield_coros
  /\ user_yield_coros' = user_yield_coros \ {c}
  /\ waker' = "resume"
  /\ resume(c)
  /\ UNCHANGED <<resume_code, cancel_fn, timer, call, inflight, on_bailout>>

(* coroutine::async(): the event goes to the thread pool and the coroutine *)
(* waits for it in yield_ex(timeout).                                      *)
async(t) ==
  /\ UserCode
  /\ current \in Cos
  /\ inflight' = inflight \cup {current}
  /\ BlockIn(current, "async", t)
  /\ UNCHANGED <<user_yield_coros, on_bailout>>

(* The reactor reads a finished event that was not canceled.  Events that  *)
(* were canceled are deleted without effect and leave no trace here.       *)
async_task_completed(c) ==
  /\ current = Main
  /\ on_bailout # "fired"
  /\ c \in inflight
  /\ inflight' = inflight \ {c}
  /\ waker' = "resume"
  /\ resume(c)
  /\ UNCHANGED <<resume_code, cancel_fn, timer, call, user_yield_coros, on_bailout>>

(* The timer callback of yield_ex.                                         *)
timer_callback(c) ==
  /\ call[c] = "async"
  /\ FireTimer(c, "timedout")
  /\ UNCHANGED <<lists, on_bailout>>

(* cancel(): the cancel function of yield() leaves user_yield_coros, the   *)
(* one of yield_ex only resumes.                                           *)
cancel(c) ==
  /\ call[c] \in {"yield", "async"}
  /\ CancelWith(c)
  /\ user_yield_coros' = user_yield_coros \ {c}
  /\ UNCHANGED <<inflight, on_bailout>>

(* After the switch back yield() and yield_ex() report the resume code and *)
(* async() marks its event canceled unless it was answered.                *)
after_yield ==
  /\ current \in Cos
  /\ call[current] \in {"yield", "async"}
  /\ Unblock(current)
  /\ waker' = "none"
  /\ inflight' = IF resume_code[current] = "ok" THEN inflight ELSE inflight \ {current}
  /\ UNCHANGED <<swapVars, user_yield_coros, on_bailout>>

(* bailout(nullptr) at the end of the request, outside of any coroutine.   *)
bailout_main ==
  /\ UserCode
  /\ current = Main
  /\ on_bailout' = "marked"
  /\ UNCHANGED <<swapVars, waitVars, lists>>

(* bailout(func) on a fatal error: control leaves the coroutine closest to *)
(* the main stack, whose check_end then calls func and exits.              *)
bailout ==
  /\ UserCode
  /\ current \in Cos
  /\ \E root \in Cos :
       /\ OnStack(root) /\ origin[root] = Main
       /\ state' = [state EXCEPT ![root] = "waiting"]
       /\ resume_code' = [resume_code EXCEPT ![root] = "ok"]
       /\ current' = Main
  /\ on_bailout' = "fired"
  /\ UNCHANGED <<origin, depth, cancel_fn, timer, call, waker, lists>>

CoNext ==
  \/ \E c \in Cos : create(c) \/ resume_user(c) \/ cancel(c)
                  \/ async_task_completed(c) \/ timer_callback(c)
  \/ \E t \in Timeouts : async(t)
  \/ yield \/ after_yield \/ close
  \/ bailout \/ bailout_main

(* A timer that is due is selected whenever the reactor loop gets the      *)
(* thread back, and code that can run does run.                            *)
CoFairness ==
  /\ WF_coVars(after_yield)
  /\ \A c \in Cos : SF_coVars(timer_callback(c))

CoSpec == CoInit /\ [][CoNext]_coVars /\ CoFairness

-----------------------------------------------------------------------------
(* Properties.                                                             *)

(* The frames of the native stack are exactly the coroutines that run:     *)
(* following origin from current visits each of them once, from the        *)
(* deepest to the first, and ends on the main stack.  So yield() returns   *)
(* to the caller of resume(), and once the reactor has the thread back no  *)
(* coroutine is half executed.                                             *)
StackInv ==
  on_bailout # "fired" =>
    /\ current = Main => \A c \in Cos : ~OnStack(c)
    /\ current # Main => OnStack(current)
    /\ \A c \in Cos : OnStack(c) =>
         /\ current # Main => depth[c] <= depth[current]
         /\ IF origin[c] = Main THEN depth[c] = 1
            ELSE OnStack(origin[c]) /\ depth[c] = depth[origin[c]] + 1
    /\ \A b, c \in Cos : OnStack(b) /\ OnStack(c) /\ depth[b] = depth[c] => b = c

(* Whatever may still resume a coroutine (a timer, an AIO event, the list  *)
(* of user-level yields, a cancel function) belongs to the blocking call   *)
(* it is suspended in: no wake-up outlives the call it was made for.       *)
NoStaleWaker ==
  \A c \in Cos :
    /\ timer[c] \/ cancel_fn[c] \/ c \in user_yield_coros \cup inflight =>
         /\ call[c] # "none"
         /\ state[c] = "waiting" \/ current = c
    /\ c \in user_yield_coros => call[c] = "yield" /\ state[c] = "waiting"
    /\ c \in inflight => call[c] = "async"

(* A blocking call that runs again finds the resume code of what resumed   *)
(* it: timed out only when its timer fired, canceled only when cancel()    *)
(* did, and never a code left over from an earlier call.                   *)
AnswerOf(w) == CASE w = "timer" -> "timedout" [] w = "cancel" -> "canceled" [] OTHER -> "ok"
AnswerMatchesWaker ==
  \A c \in Cos : current = c /\ call[c] \in {"yield", "async"} =>
                   resume_code[c] = AnswerOf(waker)

(* No step changes the return address of a frame on the stack: resume()    *)
(* is never applied to a coroutine that already runs, the general form of  *)
(* OSW_ASSERT(current != this).                                            *)
FramesKeepOrigin ==
  [][\A c \in Cos : OnStack(c) /\ OnStack(c)' => origin'[c] = origin[c]]_coVars

=============================================================================
