------------------------------- MODULE MsTimer -------------------------------
(***************************************************************************)
(* One msTimer (ClockAndTimer/source/msTimer.cpp, header/msBaseTimer.h):   *)
(* its owner calls start, stop and isExpired, and the thread made by       *)
(* create runs evaluationLoop, which calls start or stop itself.  A step   *)
(* is one critical section of resource_mutex, which every accessor of      *)
(* base_timer is; trigger_mutex is only ever taken by the loop.            *)
(*                                                                         *)
(* The loop waits on trigger_condVar without a predicate: a notify_one     *)
(* reaches it only while it waits, and it may wake up for no reason.       *)
(* Time is counted in half milliseconds, because Stopwatch rounds: it      *)
(* reads the wall clock, which may be set forward or back.                 *)
(***************************************************************************)
EXTENDS Integers

CONSTANTS
    MaxTimeout,   \* bound: timeouts and the elapsed time, in milliseconds
    MaxStarts,    \* bound: calls of start that are accepted
    MaxJumps      \* bound: times the wall clock is set

ASSUME MsTimerAssumption == MaxTimeout \in Nat \ {0} /\ MaxStarts \in Nat /\ MaxJumps \in Nat

VARIABLES
    mode,          \* set by the constructor
    timerStatus,
    timeoutms,
    elapsed,       \* now() - start_time of timerHandle, -1 for every negative time
    expired,
    pc,            \* where each thread is
    arg,           \* timeout_ms of the start each thread is in
    starts,        \* history: starts of the owner that set the status
    callbacks,     \* history: callbacks of a ONE_SHOT timer
    stopped,       \* history: the owner has stopped the timer and not started it since
    late,          \* history: callbacks since then, up to 2
    unheard,       \* history: the last notify_one found nobody waiting
    left,          \* history: half milliseconds till the owner's start may be over
    undisturbed,   \* history: the loop slept through that start, the clock ran on
    jumps          \* history: times the clock was set

settings == <<mode, timerStatus, timeoutms, elapsed, expired>>
punctual == <<left, undisturbed, jumps>>
history == <<starts, callbacks, stopped, late, unheard, punctual>>
vars == <<settings, pc, arg, history>>

LastTick == 2 * MaxTimeout

Threads == {"owner", "loop"}

InStart == {"startTest", "setTimeout", "setStatus", "startWatch", "notifyOne", "zeroTimeout", "zeroStatus"}
InStop == {"stopTest", "clearStatus", "clearTimeout"}
OwnerPlaces == {"idle"} \cup InStart \cup InStop
LoopPlaces == {"toWait", "waiting", "test", "check", "getTimeout", "setExpired", "notify"}
              \cup InStart \cup InStop

TypeOK ==
    /\ mode \in {"ONE_SHOT", "PERIODIC"}
    /\ timerStatus \in BOOLEAN
    /\ timeoutms \in 0..MaxTimeout
    /\ elapsed \in -1..LastTick
    /\ expired \in BOOLEAN
    /\ pc \in [Threads -> OwnerPlaces \cup LoopPlaces]
    /\ pc["owner"] \in OwnerPlaces
    /\ pc["loop"] \in LoopPlaces
    /\ arg \in [Threads -> 0..MaxTimeout]
    /\ starts \in 0..MaxStarts
    /\ callbacks \in Nat
    /\ stopped \in BOOLEAN
    /\ late \in 0..2
    /\ unheard \in BOOLEAN
    /\ left \in 0..LastTick
    /\ undisturbed \in BOOLEAN
    /\ jumps \in 0..MaxJumps

Init ==
    /\ mode \in {"ONE_SHOT", "PERIODIC"}
    /\ timerStatus = FALSE /\ timeoutms = 0 /\ elapsed = 0 /\ expired = FALSE
    /\ pc = [owner |-> "idle", loop |-> "toWait"]
    /\ arg = [t \in Threads |-> 0]
    /\ starts = 0 /\ callbacks = 0
    /\ stopped = FALSE /\ late = 0 /\ unheard = FALSE
    /\ left = 0 /\ undisturbed = FALSE /\ jumps = 0

Goes(t, from, to) == pc[t] = from /\ pc' = [pc EXCEPT ![t] = to]

(* Where a thread goes on after its call of start or stop.                 *)
AfterNothing(t) == "idle"
After(t) == IF t = "owner" THEN "idle" ELSE "setExpired"

-----------------------------------------------------------------------------
(* start(timeout_ms)                                                       *)
StartTests(t) ==
    /\ Goes(t, "startTest",
            IF arg[t] = 0 THEN "zeroTimeout" ELSE IF timerStatus THEN After(t) ELSE "setTimeout")
    /\ UNCHANGED <<settings, arg, history>>

Asleep == pc["loop"] \in {"toWait", "waiting"}

SetsTimeout(t) ==
    /\ Goes(t, "setTimeout", "setStatus")
    /\ timeoutms' = arg[t]
    /\ undisturbed' = (t = "owner" /\ Asleep)
    /\ UNCHANGED <<mode, timerStatus, elapsed, expired, arg, starts, callbacks, stopped, late, unheard,
                   left, jumps>>

SetsStatus(t) ==
    /\ Goes(t, "setStatus", "startWatch")
    /\ timerStatus' = TRUE
    /\ IF t = "owner" THEN starts' = starts + 1 /\ stopped' = FALSE /\ left' = 2 * arg[t] - 1
       ELSE UNCHANGED <<starts, stopped, left>>
    /\ UNCHANGED <<mode, timeoutms, elapsed, expired, arg, callbacks, late, unheard, undisturbed, jumps>>

WatchKept == elapsed
WatchStarted == 0

StartsWatch(t) ==
    /\ Goes(t, "startWatch", "notifyOne")
    /\ elapsed' = WatchStarted
    /\ UNCHANGED <<mode, timerStatus, timeoutms, expired, arg, history>>

(* Only a loop that waits is woken up.                                     *)
WokenNever(waiter) == waiter
Woken(waiter) == IF waiter = "waiting" THEN "test" ELSE waiter

NotifiesOne(t) ==
    /\ pc[t] = "notifyOne"
    /\ pc' = IF t = "owner" THEN [owner |-> "idle", loop |-> Woken(pc["loop"])]
             ELSE [pc EXCEPT !["loop"] = "setExpired"]
    /\ unheard' = (pc["loop"] = "toWait" \/ (unheard /\ pc["loop"] # "waiting"))
    /\ UNCHANGED <<settings, arg, starts, callbacks, stopped, late, punctual>>

(* start(0) stops the timer, which for a moment runs with the timeout 0.   *)
ZeroesTimeout(t) ==
    /\ Goes(t, "zeroTimeout", "zeroStatus")
    /\ timeoutms' = arg[t]
    /\ undisturbed' = FALSE
    /\ UNCHANGED <<mode, timerStatus, elapsed, expired, arg, starts, callbacks, stopped, late, unheard,
                   left, jumps>>

(* The owner's view of a stop that took place.                             *)
OwnerStops(t) ==
    IF t = "owner" THEN stopped' = TRUE /\ late' = 0 ELSE UNCHANGED <<stopped, late>>

ZeroesStatus(t) ==
    /\ Goes(t, "zeroStatus", After(t))
    /\ timerStatus' = FALSE
    /\ OwnerStops(t)
    /\ UNCHANGED <<mode, timeoutms, elapsed, expired, arg, starts, callbacks, unheard, punctual>>

(* stop()                                                                  *)
StopTests(t) ==
    /\ Goes(t, "stopTest", IF timerStatus THEN "clearStatus" ELSE After(t))
    /\ UNCHANGED <<settings, arg, history>>

StatusKept == timerStatus
StatusCleared == FALSE

ClearsStatus(t) ==
    /\ Goes(t, "clearStatus", "clearTimeout")
    /\ timerStatus' = StatusCleared
    /\ OwnerStops(t)
    /\ UNCHANGED <<mode, timeoutms, elapsed, expired, arg, starts, callbacks, unheard, punctual>>

ClearsTimeout(t) ==
    /\ Goes(t, "clearTimeout", After(t))
    /\ timeoutms' = 0
    /\ UNCHANGED <<mode, timerStatus, elapsed, expired, arg, history>>

StartOrStop(t) ==
    \/ StartTests(t) \/ SetsTimeout(t) \/ SetsStatus(t) \/ StartsWatch(t) \/ NotifiesOne(t)
    \/ ZeroesTimeout(t) \/ ZeroesStatus(t)
    \/ StopTests(t) \/ ClearsStatus(t) \/ ClearsTimeout(t)

-----------------------------------------------------------------------------
(* The owner's calls.                                                      *)
CallsStart ==
    /\ starts < MaxStarts
    /\ Goes("owner", "idle", "startTest")
    /\ \E timeout \in 0..MaxTimeout : arg' = [arg EXCEPT !["owner"] = timeout]
    /\ UNCHANGED <<settings, history>>

CallsStop == Goes("owner", "idle", "stopTest") /\ UNCHANGED <<settings, arg, history>>

IsExpired ==
    /\ pc["owner"] = "idle"
    /\ expired
    /\ expired' = FALSE
    /\ UNCHANGED <<mode, timerStatus, timeoutms, elapsed, pc, arg, history>>

-----------------------------------------------------------------------------
(* evaluationLoop                                                          *)
LoopWaits == Goes("loop", "toWait", "waiting") /\ UNCHANGED <<settings, arg, history>>

WakesForNoReason ==
    /\ Goes("loop", "waiting", "test")
    /\ unheard' = FALSE
    /\ undisturbed' = (undisturbed /\ pc["owner"] \notin {"setStatus", "startWatch"})
    /\ UNCHANGED <<settings, arg, starts, callbacks, stopped, late, left, jumps>>

GoesOnAlways == TRUE
GoesOn == timerStatus

LoopTests ==
    /\ Goes("loop", "test", IF GoesOn THEN "check" ELSE "toWait")
    /\ UNCHANGED <<settings, arg, history>>

(* elapsed<milliseconds>() rounds to the nearest, half a millisecond up; a *)
(* negative time wraps around to a huge one.  Where checkTimeOut fails the *)
(* loop pauses for 10 ms.                                                  *)
TimedOut == elapsed < 0 \/ (elapsed + 1) \div 2 >= timeoutms

LoopChecks ==
    /\ Goes("loop", "check",
            IF ~TimedOut THEN "test" ELSE IF mode = "PERIODIC" THEN "getTimeout" ELSE "stopTest")
    /\ UNCHANGED <<settings, arg, history>>

LoopGetsTimeout ==
    /\ Goes("loop", "getTimeout", "startTest")
    /\ arg' = [arg EXCEPT !["loop"] = timeoutms]
    /\ UNCHANGED <<settings, history>>

LoopSetsExpired ==
    /\ Goes("loop", "setExpired", "notify")
    /\ expired' = TRUE
    /\ UNCHANGED <<mode, timerStatus, timeoutms, elapsed, arg, history>>

LoopNotifies ==
    /\ Goes("loop", "notify", "test")
    /\ callbacks' = IF mode = "ONE_SHOT" THEN callbacks + 1 ELSE callbacks
    /\ late' = IF stopped /\ late < 2 THEN late + 1 ELSE late
    /\ UNCHANGED <<settings, arg, starts, stopped, unheard, punctual>>

(* Time passes, or the wall clock is set, forward or back.                 *)
Tick ==
    /\ elapsed < LastTick \/ left > 0
    /\ elapsed' = IF elapsed < LastTick THEN elapsed + 1 ELSE elapsed
    /\ left' = IF left > 0 THEN left - 1 ELSE 0
    /\ UNCHANGED <<mode, timerStatus, timeoutms, expired, pc, arg, starts, callbacks, stopped, late, unheard,
                   undisturbed, jumps>>

ClockIsSet ==
    /\ jumps < MaxJumps
    /\ jumps' = jumps + 1
    /\ elapsed' \in -1..LastTick
    /\ undisturbed' = FALSE
    /\ UNCHANGED <<mode, timerStatus, timeoutms, expired, pc, arg, starts, callbacks, stopped, late, unheard,
                   left>>

-----------------------------------------------------------------------------
OwnerCalls == CallsStart \/ CallsStop \/ IsExpired

Loop ==
    \/ LoopWaits \/ LoopTests \/ LoopChecks \/ LoopGetsTimeout \/ LoopSetsExpired \/ LoopNotifies
    \/ StartOrStop("loop")

Next == OwnerCalls \/ StartOrStop("owner") \/ Loop \/ WakesForNoReason \/ Tick \/ ClockIsSet

Spec == Init /\ [][Next]_vars

(* A call that has begun goes on, the loop never ends, time passes.  The   *)
(* owner need not call, and nobody need wake up for no reason.             *)
Fairness == WF_vars(StartOrStop("owner")) /\ WF_vars(Loop) /\ WF_vars(Tick)

FairSpec == Spec /\ Fairness

-----------------------------------------------------------------------------
(* A ONE_SHOT timer calls back at most once for each start that was        *)
(* accepted, although the stop inside the loop may fall between a stop and *)
(* a start of the owner (msTimer.cpp:97-110).                              *)
CallbackNeedsStart == mode = "ONE_SHOT" => callbacks <= starts

(* After the owner stopped a ONE_SHOT timer, at most the callback that was *)
(* already under way is still made (msTimer.cpp:70-78, 98-110).            *)
StopLeavesOne == mode = "ONE_SHOT" => late <= 1

(* A timer that runs while the loop sleeps is one whose start came between *)
(* the loop's last test and its wait (msTimer.cpp:94-97).                  *)
SleepsOnlyUnheard ==
    /\ timerStatus
    /\ Asleep
    /\ pc["owner"] \notin {"startWatch", "notifyOne"}
    => unheard

(* A timer is never found to be over more than half a millisecond before   *)
(* its timeout, unless the loop was awake while it was started, and can    *)
(* have looked at the new timeout with the old stopwatch, or the wall      *)
(* clock was set, forward or back, since then (msTimer.cpp:52-54,          *)
(* Stopwatch.hpp:24, 37, 89-94).                                           *)
OverInTime ==
    undisturbed /\ timerStatus /\ pc["loop"] \in {"stopTest", "clearStatus", "getTimeout"} => left = 0

(* A ONE_SHOT timer whose start was heard comes to its end: it expires or  *)
(* is stopped (msTimer.cpp:97-114).                                        *)
OneShotEnds == mode = "ONE_SHOT" /\ timerStatus ~> ~timerStatus \/ unheard
=============================================================================
