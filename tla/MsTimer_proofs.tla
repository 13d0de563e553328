--------------------------- MODULE MsTimer_proofs ---------------------------
(***************************************************************************)
(* MsTimer for any timeouts and any number of starts.                      *)
(***************************************************************************)
EXTENDS MsTimer, TLAPS

(* The bound of starts holds until the owner's start takes effect.         *)
StartsLeft == pc["owner"] \in {"startTest", "setTimeout", "setStatus"} => starts < MaxStarts

(* Between a test that found the timer running and the callback; the part  *)
(* before the loop's own stop, and the part after it.                      *)
BeforeStop == {"check", "stopTest", "clearStatus"}
AfterStop == {"clearTimeout", "setExpired", "notify"}

(* Callbacks a ONE_SHOT timer may still make for the starts there were.    *)
Live == IF timerStatus THEN 1 ELSE 0
Owed ==
    IF pc["loop"] \in BeforeStop THEN 1
    ELSE IF pc["loop"] \in AfterStop THEN 1 + Live ELSE Live

OneShot ==
    /\ pc["loop"] \notin InStart \cup {"getTimeout"}
    /\ callbacks + Owed <= starts
    /\ late <= 1
    /\ stopped => ~timerStatus /\ (pc["loop"] \in BeforeStop \cup AfterStop => late = 0)

(* While a start goes undisturbed the loop sleeps, the timeout is the      *)
(* start's and the stopwatch shows at most the time that has passed.       *)
HalfMs == 2 * timeoutms - 1
Starting == {"setStatus", "startWatch"}
InTime == left = 0 \/ (elapsed >= 0 /\ left + elapsed <= HalfMs)

StartReady ==
    /\ pc["owner"] \in {"setTimeout"} \cup Starting => arg["owner"] > 0
    /\ pc["owner"] \in {"setTimeout", "setStatus"} /\ Asleep => ~timerStatus

Punctual == undisturbed =>
    /\ pc["owner"] \in Starting => Asleep /\ timeoutms = arg["owner"]
    /\ pc["owner"] = "startWatch" => left <= HalfMs
    /\ timerStatus /\ pc["owner"] # "startWatch" => InTime
    /\ pc["loop"] \notin Starting \cup {"notifyOne"}
    /\ "clearTimeout" \in {pc["owner"], pc["loop"]} => ~timerStatus

IInv ==
    /\ TypeOK /\ StartsLeft /\ StartReady
    /\ SleepsOnlyUnheard
    /\ mode = "ONE_SHOT" => OneShot
    /\ Punctual /\ OverInTime

LEMMA InitHolds == Init => IInv
  <1> SUFFICES ASSUME Init PROVE IInv
    OBVIOUS
  <1>1. TypeOK
    <2>1. 0 \in 0..MaxTimeout /\ 0 \in 0..MaxStarts /\ 0 \in 0..MaxJumps /\ 0 \in 0..LastTick
          /\ 0 \in -1..LastTick
      BY MsTimerAssumption DEF LastTick
    <2>2. pc \in [Threads -> OwnerPlaces \cup LoopPlaces] /\ pc["owner"] = "idle" /\ pc["loop"] = "toWait"
      BY DEF Init, Threads, OwnerPlaces, LoopPlaces
    <2>3. arg \in [Threads -> 0..MaxTimeout]
      BY <2>1 DEF Init
    <2>4. pc["owner"] \in OwnerPlaces /\ pc["loop"] \in LoopPlaces
      BY <2>2 DEF OwnerPlaces, LoopPlaces
    <2>5. mode \in {"ONE_SHOT", "PERIODIC"} /\ timerStatus \in BOOLEAN /\ expired \in BOOLEAN
          /\ stopped \in BOOLEAN /\ unheard \in BOOLEAN /\ undisturbed \in BOOLEAN
      BY DEF Init
    <2>6. timeoutms \in 0..MaxTimeout /\ elapsed \in -1..LastTick /\ starts \in 0..MaxStarts
          /\ callbacks \in Nat /\ late \in 0..2 /\ left \in 0..LastTick /\ jumps \in 0..MaxJumps
      BY <2>1 DEF Init
    <2>7. QED
      BY <2>2, <2>3, <2>4, <2>5, <2>6 DEF TypeOK
  <1>2. StartsLeft /\ StartReady /\ SleepsOnlyUnheard /\ Punctual /\ OverInTime
    BY DEF Init, StartsLeft, StartReady, Starting, SleepsOnlyUnheard, Punctual, OverInTime
  <1>3. OneShot
    BY DEF Init, OneShot, Owed, Live, BeforeStop, AfterStop, InStart
  <1>4. QED
    BY <1>1, <1>2, <1>3 DEF IInv

-----------------------------------------------------------------------------
PlacesOf(t) == IF t = "owner" THEN OwnerPlaces ELSE LoopPlaces

(* What it means that a thread goes on to one of its places.               *)
PcTyped ==
    /\ pc \in [Threads -> OwnerPlaces \cup LoopPlaces]
    /\ pc["owner"] \in OwnerPlaces
    /\ pc["loop"] \in LoopPlaces

LEMMA GoesTyped ==
    ASSUME PcTyped, NEW t \in Threads, NEW from, NEW to \in PlacesOf(t), Goes(t, from, to)
    PROVE  PcTyped' /\ pc'[t] = to /\ \A u \in Threads \ {t} : pc'[u] = pc[u]
  BY DEF PcTyped, Threads, PlacesOf, Goes

LEMMA PcStep == IInv /\ [Next]_vars => PcTyped' /\ StartsLeft'
  <1> SUFFICES ASSUME IInv, [Next]_vars PROVE PcTyped' /\ StartsLeft'
    OBVIOUS
  <1>0. PcTyped /\ StartsLeft
    BY DEF IInv, TypeOK, PcTyped
  <1>1. ASSUME NEW t \in Threads, NEW from, NEW to \in PlacesOf(t), Goes(t, from, to), starts' = starts,
               to \in {"setTimeout", "setStatus"} => from \in {"startTest", "setTimeout"},
               t = "owner" /\ to = "startTest" => starts < MaxStarts
        PROVE  PcTyped' /\ StartsLeft'
    <2>1. PcTyped' /\ pc[t] = from /\ pc'[t] = to /\ \A u \in Threads \ {t} : pc'[u] = pc[u]
      BY <1>0, <1>1, GoesTyped DEF Goes
    <2>2. CASE t = "owner"
      BY <1>0, <1>1, <2>1, <2>2 DEF StartsLeft
    <2>3. CASE t # "owner"
      BY <1>0, <1>1, <2>1, <2>3 DEF StartsLeft, Threads
    <2>4. QED
      BY <2>2, <2>3
  <1> USE DEF PlacesOf, OwnerPlaces, LoopPlaces, InStart, InStop, After, history
  <1>2. ASSUME NEW t \in Threads, StartOrStop(t) PROVE PcTyped' /\ StartsLeft'
    <2>1. CASE StartTests(t)
      <3> DEFINE to == IF arg[t] = 0 THEN "zeroTimeout" ELSE IF timerStatus THEN After(t) ELSE "setTimeout"
      <3>1. Goes(t, "startTest", to) /\ to \in PlacesOf(t) /\ to # "startTest" /\ to # "setStatus"
        BY <2>1 DEF StartTests, Threads
      <3> HIDE DEF to
      <3>2. QED
        BY <1>1, <2>1, <3>1 DEF StartTests
    <2>2. CASE SetsTimeout(t) \/ StartsWatch(t) \/ ZeroesTimeout(t)
      BY <1>1, <2>2 DEF SetsTimeout, StartsWatch, ZeroesTimeout
    <2>3. CASE SetsStatus(t)
      <3>1. PcTyped' /\ pc'[t] = "startWatch" /\ \A u \in Threads \ {t} : pc'[u] = pc[u]
        BY <1>0, <2>3, GoesTyped DEF SetsStatus
      <3>2. QED
        BY <1>0, <2>3, <3>1 DEF SetsStatus, StartsLeft, Threads
    <2>4. CASE NotifiesOne(t)
      BY <1>0, <2>4 DEF NotifiesOne, Woken, PcTyped, StartsLeft, Threads
    <2>5. CASE ZeroesStatus(t) \/ ClearsTimeout(t) \/ ClearsStatus(t)
      BY <1>1, <2>5 DEF ZeroesStatus, ClearsTimeout, ClearsStatus, OwnerStops
    <2>6. CASE StopTests(t)
      <3> DEFINE to == IF timerStatus THEN "clearStatus" ELSE After(t)
      <3>1. Goes(t, "stopTest", to) /\ to \in PlacesOf(t)
            /\ to \notin {"startTest", "setStatus", "setTimeout"}
        BY <2>6 DEF StopTests, Threads
      <3> HIDE DEF to
      <3>2. QED
        BY <1>1, <2>6, <3>1 DEF StopTests
    <2>7. QED
      BY <1>2, <2>1, <2>2, <2>3, <2>4, <2>5, <2>6 DEF StartOrStop
  <1>3. CASE CallsStart
    BY <1>1, <1>3 DEF CallsStart, Threads
  <1>4. CASE CallsStop
    BY <1>1, <1>4 DEF CallsStop, Threads
  <1>5. CASE LoopTests
    <2> DEFINE to == IF GoesOn THEN "check" ELSE "toWait"
    <2>1. Goes("loop", "test", to) /\ to \in {"check", "toWait"}
      BY <1>5 DEF LoopTests
    <2> HIDE DEF to
    <2>2. QED
      BY <1>1, <1>5, <2>1 DEF LoopTests, Threads
  <1>6. CASE LoopChecks
    <2> DEFINE to == IF ~TimedOut THEN "test" ELSE IF mode = "PERIODIC" THEN "getTimeout" ELSE "stopTest"
    <2>1. Goes("loop", "check", to) /\ to \in {"test", "getTimeout", "stopTest"}
      BY <1>6 DEF LoopChecks
    <2> HIDE DEF to
    <2>2. QED
      BY <1>1, <1>6, <2>1 DEF LoopChecks, Threads
  <1>7. CASE LoopWaits \/ LoopGetsTimeout \/ LoopSetsExpired \/ LoopNotifies \/ WakesForNoReason
    BY <1>1, <1>7 DEF LoopWaits, LoopGetsTimeout, LoopSetsExpired, LoopNotifies, WakesForNoReason, Threads
  <1>8. CASE IsExpired \/ Tick \/ ClockIsSet \/ UNCHANGED vars
    BY <1>0, <1>8 DEF IsExpired, Tick, ClockIsSet, vars, PcTyped, StartsLeft
  <1>9. QED
    BY <1>2, <1>3, <1>4, <1>5, <1>6, <1>7, <1>8 DEF Next, OwnerCalls, Loop, Threads

(* The settings and the history keep their types.                          *)
DataTyped ==
    /\ mode \in {"ONE_SHOT", "PERIODIC"}
    /\ timerStatus \in BOOLEAN /\ expired \in BOOLEAN /\ stopped \in BOOLEAN /\ unheard \in BOOLEAN
    /\ undisturbed \in BOOLEAN
    /\ timeoutms \in 0..MaxTimeout
    /\ elapsed \in -1..LastTick
    /\ left \in 0..LastTick
    /\ jumps \in 0..MaxJumps
    /\ arg \in [Threads -> 0..MaxTimeout]
    /\ starts \in 0..MaxStarts
    /\ callbacks \in Nat
    /\ late \in 0..2

LEMMA DataStep == IInv /\ [Next]_vars => DataTyped'
  <1> SUFFICES ASSUME IInv, [Next]_vars PROVE DataTyped'
    OBVIOUS
  <1>0. DataTyped /\ StartsLeft /\ StartReady
    BY DEF IInv, TypeOK, DataTyped
  <1> USE MsTimerAssumption, <1>0 DEF DataTyped, settings, history, punctual, LastTick
  <1>1. ASSUME NEW t \in Threads, StartOrStop(t) PROVE DataTyped'
    <2>1. CASE StartTests(t) \/ StopTests(t)
      BY <2>1 DEF StartTests, StopTests
    <2>2. CASE SetsTimeout(t) \/ ZeroesTimeout(t)
      <3>1. undisturbed' \in BOOLEAN
        BY <2>2 DEF SetsTimeout, ZeroesTimeout
      <3>2. QED
        BY <2>2, <3>1 DEF SetsTimeout, ZeroesTimeout
    <2>3. CASE SetsStatus(t)
      <3>1. starts' \in 0..MaxStarts
        BY <2>3 DEF SetsStatus, StartsLeft, Goes
      <3>2. stopped' \in BOOLEAN
        BY <2>3 DEF SetsStatus
      <3>3. left' \in 0..LastTick
        <4>1. CASE t = "owner"
          BY <2>3, <4>1 DEF SetsStatus, StartReady, Starting, Goes
        <4>2. QED
          BY <2>3, <4>1 DEF SetsStatus
      <3>4. QED
        BY <2>3, <3>1, <3>2, <3>3 DEF SetsStatus
    <2>4. CASE StartsWatch(t) \/ ClearsTimeout(t)
      BY <2>4 DEF StartsWatch, WatchStarted, ClearsTimeout
    <2>5. CASE NotifiesOne(t)
      <3>1. unheard' \in BOOLEAN
        BY <2>5 DEF NotifiesOne
      <3>2. QED
        BY <2>5, <3>1 DEF NotifiesOne
    <2>6. CASE ZeroesStatus(t) \/ ClearsStatus(t)
      <3>1. stopped' \in BOOLEAN
        BY <2>6 DEF ZeroesStatus, ClearsStatus, OwnerStops
      <3>2. late' \in 0..2
        BY <2>6 DEF ZeroesStatus, ClearsStatus, OwnerStops
      <3>3. QED
        BY <2>6, <3>1, <3>2 DEF ZeroesStatus, ClearsStatus, StatusCleared
    <2>7. QED
      BY <1>1, <2>1, <2>2, <2>3, <2>4, <2>5, <2>6 DEF StartOrStop
  <1>2. CASE CallsStart
    BY <1>2 DEF CallsStart, Threads
  <1>3. CASE CallsStop \/ IsExpired \/ LoopWaits \/ LoopTests \/ LoopChecks \/ LoopSetsExpired
    BY <1>3 DEF CallsStop, IsExpired, LoopWaits, LoopTests, LoopChecks, LoopSetsExpired
  <1>4. CASE LoopGetsTimeout
    BY <1>4 DEF LoopGetsTimeout, Threads
  <1>5. CASE LoopNotifies
    <2>1. late' \in 0..2 /\ callbacks' \in Nat
      BY <1>5 DEF LoopNotifies
    <2>2. QED
      BY <1>5, <2>1 DEF LoopNotifies
  <1>6. CASE Tick
    <2>1. elapsed' \in -1..LastTick /\ left' \in 0..LastTick
      BY <1>6 DEF Tick
    <2>2. QED
      BY <1>6, <2>1 DEF Tick
  <1>7. CASE WakesForNoReason
    <2>1. undisturbed' \in BOOLEAN /\ unheard' \in BOOLEAN
      BY <1>7 DEF WakesForNoReason
    <2>2. QED
      BY <1>7, <2>1 DEF WakesForNoReason
  <1>8. CASE ClockIsSet
    <2>1. jumps' \in 0..MaxJumps /\ elapsed' \in -1..LastTick
      BY <1>8 DEF ClockIsSet
    <2>2. QED
      BY <1>8, <2>1 DEF ClockIsSet
  <1>9. CASE UNCHANGED vars
    BY <1>9 DEF vars
  <1>10. QED
    BY <1>1, <1>2, <1>3, <1>4, <1>5, <1>6, <1>7, <1>8, <1>9 DEF Next, OwnerCalls, Loop, Threads

LEMMA TypeStep == IInv /\ [Next]_vars => TypeOK' /\ StartsLeft'
  BY PcStep, DataStep DEF TypeOK, PcTyped, DataTyped

LEMMA SleepStep == IInv /\ [Next]_vars => SleepsOnlyUnheard'
  <1> SUFFICES ASSUME IInv, [Next]_vars PROVE SleepsOnlyUnheard'
    OBVIOUS
  <1> USE DEF IInv, TypeOK, SleepsOnlyUnheard, Asleep, Threads, Goes, After, settings, history
  <1>1. ASSUME NEW t \in Threads, StartOrStop(t) PROVE SleepsOnlyUnheard'
    <2>1. CASE StartTests(t) \/ SetsTimeout(t)
      BY <2>1 DEF StartTests, SetsTimeout
    <2>2. CASE SetsStatus(t) \/ StartsWatch(t)
      BY <2>2 DEF SetsStatus, StartsWatch
    <2>3. CASE NotifiesOne(t)
      BY <2>3 DEF NotifiesOne, Woken
    <2>4. CASE ZeroesTimeout(t) \/ ZeroesStatus(t)
      BY <2>4 DEF ZeroesTimeout, ZeroesStatus
    <2>5. CASE StopTests(t) \/ ClearsStatus(t) \/ ClearsTimeout(t)
      BY <2>5 DEF StopTests, ClearsStatus, StatusCleared, ClearsTimeout
    <2>6. QED
      BY <1>1, <2>1, <2>2, <2>3, <2>4, <2>5 DEF StartOrStop
  <1>2. CASE OwnerCalls
    BY <1>2 DEF OwnerCalls, CallsStart, CallsStop, IsExpired
  <1>3. CASE Loop /\ ~StartOrStop("loop")
    <2>1. CASE LoopWaits
      BY <2>1 DEF LoopWaits
    <2>2. CASE LoopTests
      BY <2>2 DEF LoopTests, GoesOn
    <2>3. CASE LoopChecks
      BY <2>3 DEF LoopChecks
    <2>4. CASE LoopGetsTimeout \/ LoopSetsExpired \/ LoopNotifies
      BY <2>4 DEF LoopGetsTimeout, LoopSetsExpired, LoopNotifies
    <2>5. QED
      BY <1>3, <2>1, <2>2, <2>3, <2>4 DEF Loop
  <1>4. CASE WakesForNoReason \/ Tick \/ ClockIsSet
    BY <1>4 DEF WakesForNoReason, Tick, ClockIsSet
  <1>5. CASE UNCHANGED vars
    BY <1>5 DEF vars
  <1>6. QED
    BY <1>1, <1>2, <1>3, <1>4, <1>5 DEF Next, Loop

(* One lemma for each thread: what the owner does to a ONE_SHOT timer, and *)
(* what the loop does.                                                     *)
LEMMA OwnerOneShot ==
    ASSUME IInv, mode = "ONE_SHOT", OwnerCalls \/ StartOrStop("owner")
    PROVE  OneShot'
  <1> USE DEF IInv, TypeOK, OneShot, Owed, Live, BeforeStop, AfterStop, InStart, Threads, Goes, After,
          settings, history
  <1>1. CASE OwnerCalls
    BY <1>1 DEF OwnerCalls, CallsStart, CallsStop, IsExpired
  <1>2. CASE StartTests("owner") \/ SetsTimeout("owner") \/ StartsWatch("owner")
    BY <1>2 DEF StartTests, SetsTimeout, StartsWatch
  <1>3. CASE SetsStatus("owner")
    BY <1>3 DEF SetsStatus
  <1>4. CASE NotifiesOne("owner")
    BY <1>4 DEF NotifiesOne, Woken
  <1>5. CASE ZeroesTimeout("owner") \/ StopTests("owner") \/ ClearsTimeout("owner")
    BY <1>5 DEF ZeroesTimeout, StopTests, ClearsTimeout
  <1>6. CASE ZeroesStatus("owner")
    BY <1>6 DEF ZeroesStatus, OwnerStops
  <1>7. CASE ClearsStatus("owner")
    BY <1>7 DEF ClearsStatus, StatusCleared, OwnerStops
  <1>8. QED
    BY <1>1, <1>2, <1>3, <1>4, <1>5, <1>6, <1>7 DEF StartOrStop

LEMMA LoopOneShot ==
    ASSUME IInv, mode = "ONE_SHOT", Loop \/ WakesForNoReason
    PROVE  OneShot'
  <1> USE DEF IInv, TypeOK, OneShot, Owed, Live, BeforeStop, AfterStop, InStart, Threads, Goes, After,
          settings, history
  <1>1. CASE LoopWaits \/ WakesForNoReason
    BY <1>1 DEF LoopWaits, WakesForNoReason
  <1>2. CASE LoopTests
    BY <1>2 DEF LoopTests, GoesOn
  <1>3. CASE LoopChecks
    BY <1>3 DEF LoopChecks
  <1>4. CASE LoopGetsTimeout \/ LoopSetsExpired
    BY <1>4 DEF LoopGetsTimeout, LoopSetsExpired
  <1>5. CASE LoopNotifies
    BY <1>5 DEF LoopNotifies
  <1>6. CASE StopTests("loop")
    BY <1>6 DEF StopTests
  <1>7. CASE ClearsStatus("loop")
    BY <1>7 DEF ClearsStatus, StatusCleared, OwnerStops
  <1>8. CASE ClearsTimeout("loop")
    BY <1>8 DEF ClearsTimeout
  <1>9. CASE StartTests("loop") \/ SetsTimeout("loop") \/ SetsStatus("loop") \/ StartsWatch("loop")
             \/ NotifiesOne("loop") \/ ZeroesTimeout("loop") \/ ZeroesStatus("loop")
    BY <1>9 DEF StartTests, SetsTimeout, SetsStatus, StartsWatch, NotifiesOne, ZeroesTimeout, ZeroesStatus
  <1>10. QED
    BY <1>1, <1>2, <1>3, <1>4, <1>5, <1>6, <1>7, <1>8, <1>9 DEF Loop, StartOrStop

(* The mode never changes.                                                 *)
LEMMA ModeStays == [Next]_vars => mode' = mode
  BY DEF Next, OwnerCalls, CallsStart, CallsStop, IsExpired, Loop, LoopWaits, LoopTests, LoopChecks,
     LoopGetsTimeout, LoopSetsExpired, LoopNotifies, StartOrStop, StartTests, SetsTimeout, SetsStatus,
     StartsWatch, NotifiesOne, ZeroesTimeout, ZeroesStatus, StopTests, ClearsStatus, ClearsTimeout,
     WakesForNoReason, Tick, ClockIsSet, settings, vars

LEMMA OneShotStep == IInv /\ [Next]_vars /\ mode = "ONE_SHOT" => OneShot'
  <1> SUFFICES ASSUME IInv, [Next]_vars, mode = "ONE_SHOT" PROVE OneShot'
    OBVIOUS
  <1>1. CASE OwnerCalls \/ StartOrStop("owner")
    BY <1>1, OwnerOneShot
  <1>2. CASE Loop \/ WakesForNoReason
    BY <1>2, LoopOneShot
  <1>3. CASE Tick \/ ClockIsSet \/ UNCHANGED vars
    BY <1>3 DEF IInv, OneShot, Owed, Live, Tick, ClockIsSet, vars, settings, history
  <1>4. QED
    BY <1>1, <1>2, <1>3 DEF Next

(* The owner gets beyond the test of start only with a timeout, and then   *)
(* only the loop, while it is awake, can make the timer run.               *)
LEMMA ReadyStep == IInv /\ [Next]_vars => StartReady'
  <1> SUFFICES ASSUME IInv, [Next]_vars PROVE StartReady'
    OBVIOUS
  <1> USE DEF IInv, TypeOK, StartReady, Starting, Asleep, Threads, Goes, After, settings, history
  <1>1. ASSUME NEW t \in Threads, StartOrStop(t) PROVE StartReady'
    <2>1. CASE StartTests(t)
      BY <2>1 DEF StartTests
    <2>2. CASE SetsTimeout(t) \/ SetsStatus(t) \/ StartsWatch(t)
      BY <2>2 DEF SetsTimeout, SetsStatus, StartsWatch
    <2>3. CASE NotifiesOne(t) \/ ZeroesTimeout(t) \/ ZeroesStatus(t)
      BY <2>3 DEF NotifiesOne, Woken, ZeroesTimeout, ZeroesStatus
    <2>4. CASE StopTests(t) \/ ClearsStatus(t) \/ ClearsTimeout(t)
      BY <2>4 DEF StopTests, ClearsStatus, StatusCleared, ClearsTimeout
    <2>5. QED
      BY <1>1, <2>1, <2>2, <2>3, <2>4 DEF StartOrStop
  <1>2. CASE OwnerCalls
    BY <1>2 DEF OwnerCalls, CallsStart, CallsStop, IsExpired
  <1>3. CASE LoopWaits \/ LoopTests \/ LoopChecks \/ LoopGetsTimeout \/ LoopSetsExpired \/ LoopNotifies
    BY <1>3 DEF LoopWaits, LoopTests, GoesOn, LoopChecks, LoopGetsTimeout, LoopSetsExpired, LoopNotifies
  <1>4. CASE WakesForNoReason \/ Tick \/ ClockIsSet
    BY <1>4 DEF WakesForNoReason, Tick, ClockIsSet
  <1>5. CASE UNCHANGED vars
    BY <1>5 DEF vars
  <1>6. QED
    BY <1>1, <1>2, <1>3, <1>4, <1>5 DEF Next, Loop

LEMMA PunctualStep == IInv /\ [Next]_vars => Punctual'
  <1> SUFFICES ASSUME IInv, [Next]_vars PROVE Punctual'
    OBVIOUS
  <1> USE DEF IInv, TypeOK, Punctual, StartReady, InTime, HalfMs, Starting, Asleep, Threads, Goes, After,
          settings, history, punctual
  <1>1. ASSUME NEW t \in Threads, StartOrStop(t) PROVE Punctual'
    <2>1. CASE StartTests(t)
      BY <2>1 DEF StartTests
    <2>2. CASE SetsTimeout(t)
      BY <2>2 DEF SetsTimeout
    <2>3. CASE SetsStatus(t)
      BY <2>3 DEF SetsStatus
    <2>4. CASE StartsWatch(t)
      BY <2>4 DEF StartsWatch, WatchStarted
    <2>5. CASE NotifiesOne(t)
      BY <2>5 DEF NotifiesOne, Woken
    <2>6. CASE ZeroesTimeout(t)
      BY <2>6 DEF ZeroesTimeout
    <2>7. CASE ZeroesStatus(t)
      BY <2>7 DEF ZeroesStatus
    <2>8. CASE StopTests(t)
      BY <2>8 DEF StopTests
    <2>9. CASE ClearsStatus(t)
      BY <2>9 DEF ClearsStatus, StatusCleared
    <2>10. CASE ClearsTimeout(t)
      BY <2>10 DEF ClearsTimeout
    <2>11. QED
      BY <1>1, <2>1, <2>2, <2>3, <2>4, <2>5, <2>6, <2>7, <2>8, <2>9, <2>10 DEF StartOrStop
  <1>2. CASE OwnerCalls
    BY <1>2 DEF OwnerCalls, CallsStart, CallsStop, IsExpired
  <1>3. CASE LoopWaits \/ LoopTests \/ LoopChecks
    BY <1>3 DEF LoopWaits, LoopTests, LoopChecks
  <1>4. CASE LoopGetsTimeout \/ LoopSetsExpired \/ LoopNotifies
    BY <1>4 DEF LoopGetsTimeout, LoopSetsExpired, LoopNotifies
  <1>5. CASE WakesForNoReason \/ ClockIsSet
    BY <1>5 DEF WakesForNoReason, ClockIsSet
  <1>6. CASE Tick
    BY <1>6, MsTimerAssumption DEF Tick, LastTick
  <1>7. CASE UNCHANGED vars
    BY <1>7 DEF vars
  <1>8. QED
    BY <1>1, <1>2, <1>3, <1>4, <1>5, <1>6, <1>7 DEF Next, Loop

(* The loop comes to stop or to getTimeoutms only through checkTimeOut.    *)
LEMMA OverStep == IInv /\ [Next]_vars => OverInTime'
  <1> SUFFICES ASSUME IInv, [Next]_vars PROVE OverInTime'
    OBVIOUS
  <1> USE DEF IInv, TypeOK, OverInTime, Asleep, Threads, Goes, After, settings, history, punctual
  <1>1. CASE LoopChecks
    <2>1. CASE undisturbed /\ timerStatus /\ TimedOut
      <3>1. InTime
        BY <1>1, <2>1 DEF LoopChecks, Punctual, Starting
      <3>2. left = 0
        BY <2>1, <3>1 DEF InTime, HalfMs, TimedOut
      <3>3. QED
        BY <1>1, <3>2 DEF LoopChecks
    <2>2. CASE ~TimedOut
      BY <1>1, <2>2 DEF LoopChecks
    <2>3. CASE ~undisturbed \/ ~timerStatus
      BY <1>1, <2>3 DEF LoopChecks
    <2>4. QED
      BY <2>1, <2>2, <2>3
  <1>2. ASSUME NEW t \in Threads, StartOrStop(t) PROVE OverInTime'
    <2>1. CASE StartTests(t) \/ StartsWatch(t)
      BY <2>1 DEF StartTests, StartsWatch
    <2>2. CASE SetsTimeout(t) \/ ZeroesTimeout(t)
      BY <2>2 DEF SetsTimeout, ZeroesTimeout
    <2>3. CASE SetsStatus(t)
      BY <2>3 DEF SetsStatus, Punctual, Starting
    <2>4. CASE NotifiesOne(t)
      BY <2>4 DEF NotifiesOne, Woken
    <2>5. CASE ZeroesStatus(t) \/ ClearsStatus(t)
      BY <2>5 DEF ZeroesStatus, ClearsStatus, StatusCleared
    <2>6. CASE StopTests(t) \/ ClearsTimeout(t)
      BY <2>6 DEF StopTests, ClearsTimeout
    <2>7. QED
      BY <1>2, <2>1, <2>2, <2>3, <2>4, <2>5, <2>6 DEF StartOrStop
  <1>3. CASE OwnerCalls
    BY <1>3 DEF OwnerCalls, CallsStart, CallsStop, IsExpired
  <1>4. CASE LoopWaits \/ LoopTests \/ LoopGetsTimeout \/ LoopSetsExpired \/ LoopNotifies
    BY <1>4 DEF LoopWaits, LoopTests, LoopGetsTimeout, LoopSetsExpired, LoopNotifies
  <1>5. CASE WakesForNoReason
    BY <1>5 DEF WakesForNoReason
  <1>6. CASE Tick
    BY <1>6 DEF Tick
  <1>7. CASE ClockIsSet \/ UNCHANGED vars
    BY <1>7 DEF ClockIsSet, vars
  <1>8. QED
    BY <1>1, <1>2, <1>3, <1>4, <1>5, <1>6, <1>7 DEF Next, Loop

LEMMA IInvHolds == Spec => []IInv
  <1>1. IInv /\ [Next]_vars => IInv'
    BY TypeStep, SleepStep, OneShotStep, ModeStays, ReadyStep, PunctualStep, OverStep DEF IInv
  <1>2. QED
    BY <1>1, InitHolds, PTL DEF Spec

-----------------------------------------------------------------------------
(* Every variable of the timer has its type.                               *)
THEOREM MsTimerTyped == Spec => []TypeOK
  BY IInvHolds, PTL DEF IInv

(* A ONE_SHOT timer calls back at most once for each start                 *)
(* (msTimer.cpp:97-110).                                                   *)
THEOREM OneCallbackPerStart == Spec => []CallbackNeedsStart
  <1>1. IInv => CallbackNeedsStart
    BY DEF IInv, TypeOK, OneShot, Owed, Live, CallbackNeedsStart
  <1>2. QED
    BY <1>1, IInvHolds, PTL

(* After a stop of a ONE_SHOT timer at most one callback is still made     *)
(* (msTimer.cpp:70-78).                                                    *)
THEOREM OneCallbackAfterStop == Spec => []StopLeavesOne
  <1>1. IInv => StopLeavesOne
    BY DEF IInv, OneShot, StopLeavesOne
  <1>2. QED
    BY <1>1, IInvHolds, PTL

(* A running timer is looked at unless its notify_one found nobody waiting *)
(* (msTimer.cpp:94-97).                                                    *)
THEOREM RunningIsWatched == Spec => []SleepsOnlyUnheard
  BY IInvHolds, PTL DEF IInv

(* A start that goes undisturbed is found to be over only when its timeout *)
(* has passed, but for the half millisecond of the rounding: undisturbed   *)
(* by a loop that is awake and by a clock that is set, forward or back     *)
(* (msTimer.cpp:52-54, msBaseTimer.h:88-98, Stopwatch.hpp:24, 37, 89-94).  *)
THEOREM NotOverEarly == Spec => []OverInTime
  BY IInvHolds, PTL DEF IInv
=============================================================================
