---------------------------- MODULE BTimer_proofs ----------------------------
(***************************************************************************)
(* BTimer reports no expiry early and implements TimerView, for any number *)
(* of starts, with and without lock timeouts, and whether or not a thread  *)
(* runs the io_service.                                                    *)
(***************************************************************************)
EXTENDS BTimer, FiniteSetTheorems, TLAPS

(* Why the view holds: the wait of the current handle is outstanding until *)
(* the handle is due, an expiry is noticed only of a handle that is due,   *)
(* and only a running service thread can be in the way of the owner.       *)
HandlesType ==
    /\ starts \in Nat
    /\ handle \in 0..starts
    /\ due \subseteq 1..starts
    /\ waiting \subseteq 1..starts
    /\ ready \in Nat
    /\ timerExpiry \in BOOLEAN

WaitsUntilDue == handle # NoHandle => handle \in waiting \cup due

ServiceRuns ==
    /\ service # "idle" => TimersRun
    /\ holder = "service" => service # "idle"

IInv == HandlesType /\ WaitsUntilDue /\ NoEarlyExpiry /\ ServiceRuns

LEMMA Truth ==
    ASSUME NEW b, NEW p \in BOOLEAN, b = p
    PROVE  b \in BOOLEAN /\ (p => b = TRUE) /\ (~p => b = FALSE)
  OBVIOUS

(* What timeoutCB makes of the flag.                                       *)
LEMMA Noticing ==
    ASSUME timerExpiry' = Noticed, handle # NoHandle
    PROVE  /\ timerExpiry' \in BOOLEAN
           /\ handle \in due => timerExpiry' = TRUE
           /\ handle \notin due => timerExpiry' = FALSE
<1>1. timerExpiry' = (handle \in due)
  BY DEF Noticed
<1>2. (handle \in due) \in BOOLEAN
  OBVIOUS
<1>3. QED
  BY <1>1, <1>2, Truth

LEMMA InitIInv == Init => IInv
<1> SUFFICES ASSUME Init PROVE IInv
  OBVIOUS
<1>1. HandlesType
  <2>1. timerExpiry \in BOOLEAN
    BY DEF Init
  <2>2. starts = 0 /\ handle = 0 /\ due = {} /\ waiting = {} /\ ready = 0
    BY DEF Init, NoHandle
  <2>3. QED
    BY <2>1, <2>2 DEF HandlesType
<1>2. WaitsUntilDue /\ NoEarlyExpiry
  BY DEF Init, WaitsUntilDue, NoEarlyExpiry
<1>3. ServiceRuns
  BY DEF Init, ServiceRuns
<1>4. QED
  BY <1>1, <1>2, <1>3 DEF IInv

(* Most steps leave the handles alone.                                     *)
handleVars == <<mode, handle, starts, due, waiting, timerExpiry>>

LEMMA HandlesAlone ==
    ASSUME IInv, UNCHANGED handleVars, ready' \in Nat, ServiceRuns'
    PROVE  IInv'
  BY DEF IInv, HandlesType, WaitsUntilDue, NoEarlyExpiry, handleVars

LEMMA OwnerIInv ==
    ASSUME IInv, Owner
    PROVE  IInv'
<1> USE DEF NoHandle
<1>1. ready \in Nat /\ ServiceRuns
  BY DEF IInv, HandlesType
<1>2. CASE CallStop \/ CallStart \/ CallIsExpired
  <2>1. UNCHANGED <<handleVars, ready, service, holder>>
    BY <1>2 DEF CallStop, CallStart, CallIsExpired, OwnerCalls, handleVars
  <2>2. ServiceRuns'
    BY <1>1, <2>1 DEF ServiceRuns, TimersRun
  <2>3. QED
    BY <1>1, <2>1, <2>2, HandlesAlone
<1>3. CASE OwnerLocks
  <2>1. ServiceRuns'
    BY <1>1, <1>3 DEF OwnerLocks, Locks, ServiceRuns, TimersRun
  <2>2. QED
    BY <1>1, <1>3, <2>1, HandlesAlone DEF OwnerLocks, handleVars
<1>4. CASE OwnerGivesUp
  <2>1. ServiceRuns'
    BY <1>1, <1>4 DEF OwnerGivesUp, ServiceRuns, TimersRun
  <2>2. QED
    BY <1>1, <1>4, <2>1, HandlesAlone DEF OwnerGivesUp, handleVars
<1>5. CASE StopBody
  <2>1. ServiceRuns'
    BY <1>1, <1>5 DEF StopBody, Unlocks, ServiceRuns, TimersRun
  <2>2. HandlesType'
    BY <1>5 DEF StopBody, Cancelled, IInv, HandlesType
  <2>3. QED
    BY <1>5, <2>1, <2>2 DEF StopBody, IInv, WaitsUntilDue, NoEarlyExpiry
<1>6. CASE StartBody
  <2>1. ServiceRuns'
    BY <1>1, <1>6 DEF StartBody, Unlocks, ServiceRuns, TimersRun
  <2>2. HandlesType'
    <3>1. timerExpiry' \in BOOLEAN
      BY <1>6 DEF StartBody, ExpiryReset
    <3>2. /\ starts' = starts + 1 /\ handle' = starts + 1 /\ waiting' = waiting \cup {starts + 1}
          /\ due' = due /\ ready' = ready
      BY <1>6 DEF StartBody
    <3>3. QED
      BY <3>1, <3>2 DEF IInv, HandlesType
  <2>3. WaitsUntilDue' /\ NoEarlyExpiry'
    BY <1>6 DEF StartBody, ExpiryReset, WaitsUntilDue, NoEarlyExpiry
  <2>4. QED
    BY <2>1, <2>2, <2>3 DEF IInv
<1>7. CASE IsExpiredBody
  <2>1. ServiceRuns'
    BY <1>1, <1>7 DEF IsExpiredBody, Unlocks, ServiceRuns, TimersRun
  <2>2. QED
    BY <1>7, <2>1 DEF IsExpiredBody, IInv, HandlesType, WaitsUntilDue, NoEarlyExpiry
<1>8. QED
  BY <1>2, <1>3, <1>4, <1>5, <1>6, <1>7 DEF Owner, OwnerGoesOn

LEMMA IoServiceIInv ==
    ASSUME IInv, IoService
    PROVE  IInv'
<1> USE DEF NoHandle
<1>1. TimersRun /\ ready \in Nat /\ ServiceRuns
  BY DEF IoService, IInv, HandlesType
<1>2. ASSUME NEW h \in Handles, Completes(h) PROVE IInv'
  <2>1. ServiceRuns'
    BY <1>1, <1>2 DEF Completes, ServiceRuns, TimersRun
  <2>2. HandlesType'
    BY <1>2 DEF Completes, IInv, HandlesType
  <2>3. QED
    BY <1>2, <2>1, <2>2 DEF Completes, IInv, WaitsUntilDue, NoEarlyExpiry
<1>3. CASE ServiceCalls
  <2>1. ServiceRuns'
    BY <1>1, <1>3 DEF ServiceCalls, ServiceRuns, TimersRun
  <2>2. QED
    BY <1>1, <1>3, <2>1, HandlesAlone DEF ServiceCalls, handleVars
<1>4. CASE ServiceLocks
  <2>1. ServiceRuns'
    BY <1>1, <1>4 DEF ServiceLocks, ServiceWants, ServiceRuns, TimersRun
  <2>2. QED
    BY <1>1, <1>4, <2>1, HandlesAlone DEF ServiceLocks, handleVars
<1>5. CASE ServiceGivesUp
  <2>1. ServiceRuns'
    BY <1>1, <1>5 DEF ServiceGivesUp, GivesUp, ServiceRuns, TimersRun
  <2>2. QED
    BY <1>1, <1>5, <2>1, HandlesAlone DEF ServiceGivesUp, handleVars
<1>6. CASE TimeoutBody
  <2>1. ServiceRuns'
    BY <1>1, <1>6 DEF TimeoutBody, Unlocks, ServiceRuns, TimersRun
  <2>2. timerExpiry' \in BOOLEAN /\ (timerExpiry' /\ handle # NoHandle => handle \in due)
    <3>1. timerExpiry \in BOOLEAN
      BY DEF IInv, HandlesType
    <3>2. CASE handle = NoHandle
      BY <1>6, <3>1, <3>2 DEF TimeoutBody, Noticed
    <3>3. CASE handle # NoHandle
      <4>1. timerExpiry' = Noticed
        BY <1>6 DEF TimeoutBody
      <4>2. /\ timerExpiry' \in BOOLEAN
            /\ handle \in due => timerExpiry' = TRUE
            /\ handle \notin due => timerExpiry' = FALSE
        BY <3>3, <4>1, Noticing
      <4>3. timerExpiry' => handle \in due
        BY <4>2
      <4>4. QED
        BY <4>2, <4>3
    <3>4. QED
      BY <3>2, <3>3
  <2>3. UNCHANGED <<mode, handle, starts, due, waiting, ready>>
    BY <1>6 DEF TimeoutBody
  <2>4. QED
    BY <2>1, <2>2, <2>3 DEF IInv, HandlesType, WaitsUntilDue, NoEarlyExpiry
<1>7. CASE CallsBack
  <2>1. ServiceRuns'
    BY <1>1, <1>7 DEF CallsBack, ServiceRuns, TimersRun
  <2>2. QED
    BY <1>1, <1>7, <2>1, HandlesAlone DEF CallsBack, handleVars
<1>8. CASE RestartBody
  <2>1. ServiceRuns'
    BY <1>1, <1>8 DEF RestartBody, Unlocks, ServiceRuns, TimersRun
  <2>2. CASE mode = "PERIODIC" /\ handle # NoHandle
    <3>1. /\ mode' = mode /\ handle' = handle /\ starts' = starts /\ timerExpiry' = timerExpiry
          /\ ready' = ready + Cancelled(handle)
          /\ waiting' = waiting \cup {handle} /\ due' = due \ {handle}
      BY <1>8, <2>2 DEF RestartBody, Rearmed
    <3>2. HandlesType'
      BY <2>2, <3>1 DEF Cancelled, IInv, HandlesType
    <3>3. WaitsUntilDue' /\ NoEarlyExpiry'
      BY <2>2, <3>1 DEF WaitsUntilDue, NoEarlyExpiry
    <3>4. QED
      BY <2>1, <3>2, <3>3 DEF IInv
  <2>3. CASE ~(mode = "PERIODIC" /\ handle # NoHandle)
    BY <1>1, <1>8, <2>1, <2>3, HandlesAlone DEF RestartBody, handleVars
  <2>4. QED
    BY <2>2, <2>3
<1>9. QED
  BY <1>2, <1>3, <1>4, <1>5, <1>6, <1>7, <1>8 DEF IoService

LEMMA NextIInv ==
    ASSUME IInv, [Next]_vars
    PROVE  IInv'
<1>1. CASE Owner
  BY <1>1, OwnerIInv
<1>2. CASE IoService
  BY <1>2, IoServiceIInv
<1>3. CASE Clock
  BY <1>3 DEF Clock, Elapses, IInv, HandlesType, WaitsUntilDue, NoEarlyExpiry, ServiceRuns, TimersRun
<1>4. CASE UNCHANGED vars
  BY <1>4 DEF vars, IInv, HandlesType, WaitsUntilDue, NoEarlyExpiry, ServiceRuns, TimersRun
<1>5. QED
  BY <1>1, <1>2, <1>3, <1>4 DEF Next

(* A ONE_SHOT timer that is not due is never reported expired, although    *)
(* timeoutCB answers for whichever handle it finds (bTimer.cpp:153-169).   *)
THEOREM NothingEarly == Spec => []NoEarlyExpiry
<1>1. IInv => NoEarlyExpiry
  BY DEF IInv
<1>2. QED
  BY <1>1, InitIInv, NextIInv, PTL DEF Spec

-----------------------------------------------------------------------------
(* The steps of the view, by what they make of it.                         *)
LEMMA PendingReplaced ==
    ASSUME NEW S, NEW r \in [pending : S, expiry : S], NEW b \in S
    PROVE  [r EXCEPT !.pending = b] = [pending |-> b, expiry |-> r.expiry]
  OBVIOUS

LEMMA ExpiryReplaced ==
    ASSUME NEW S, NEW r \in [pending : S, expiry : S], NEW b \in S
    PROVE  [r EXCEPT !.expiry = b] = [pending |-> r.pending, expiry |-> b]
  OBVIOUS

LEMMA ViewType ==
    ASSUME timerExpiry \in BOOLEAN
    PROVE  /\ View \in [pending : BOOLEAN, expiry : BOOLEAN]
           /\ View.pending = Pending /\ View.expiry = timerExpiry
<1>1. Pending \in BOOLEAN
  BY DEF Pending
<1>2. QED
  BY <1>1 DEF View

LEMMA SeenAsStop ==
    ASSUME timerExpiry \in BOOLEAN, Pending' = FALSE, timerExpiry' = timerExpiry
    PROVE  Seen!Stop
<1>1. View' = [pending |-> FALSE, expiry |-> timerExpiry]
  BY DEF View
<1>2. [View EXCEPT !.pending = FALSE] = [pending |-> FALSE, expiry |-> View.expiry]
  <2>1. View \in [pending : BOOLEAN, expiry : BOOLEAN]
    BY ViewType
  <2>2. QED
    BY <2>1, PendingReplaced
<1>3. View' = [View EXCEPT !.pending = FALSE]
  BY <1>1, <1>2, ViewType
<1>4. QED
  BY <1>3 DEF Seen!Stop, Seen!Stopped

LEMMA SeenAsStart ==
    ASSUME Pending' = TRUE, timerExpiry' = FALSE
    PROVE  Seen!Start
<1>1. View' = [pending |-> TRUE, expiry |-> FALSE]
  BY DEF View
<1>2. QED
  BY <1>1 DEF Seen!Start, Seen!Started, Seen!Armed

LEMMA SeenAsIsExpired ==
    ASSUME timerExpiry \in BOOLEAN, Pending' = Pending, timerExpiry' = FALSE
    PROVE  Seen!IsExpired
<1>1. View' = [pending |-> Pending, expiry |-> FALSE]
  BY DEF View
<1>2. [View EXCEPT !.expiry = FALSE] = [pending |-> View.pending, expiry |-> FALSE]
  <2>1. View \in [pending : BOOLEAN, expiry : BOOLEAN]
    BY ViewType
  <2>2. QED
    <3>1. FALSE \in BOOLEAN
      OBVIOUS
    <3>2. QED
      BY <2>1, <3>1, ExpiryReplaced, Zenon
<1>3. View' = [View EXCEPT !.expiry = FALSE]
  BY <1>1, <1>2, ViewType
<1>4. QED
  BY <1>3 DEF Seen!IsExpired, Seen!ExpiryCleared

LEMMA SeenAsFire ==
    ASSUME TimersRun, Pending = TRUE, Pending' \in BOOLEAN, timerExpiry' = TRUE
    PROVE  Seen!Fire
<1>1. View.pending = TRUE
  BY DEF View
<1>2. View' = [pending |-> Pending', expiry |-> TRUE]
  BY DEF View
<1>3. View' \in Seen!Fired(View)
  BY <1>2 DEF Seen!Fired
<1>4. QED
  BY <1>1, <1>3 DEF Seen!Fire, Seen!TimersRun, TimersRun

LEMMA NotSeen ==
    ASSUME Pending' = Pending, timerExpiry' = timerExpiry
    PROVE  UNCHANGED View
  BY DEF View

(* A PERIODIC timer may lose an expiry that its owner has not asked for:   *)
(* the owner sees as much as if it had.                                    *)
LEMMA TimeoutSeen ==
    ASSUME IInv, TimersRun, TimeoutBody
    PROVE  [Seen!Next]_View
<1> USE DEF NoHandle
<1>1. UNCHANGED <<mode, handle, waiting, ready, due>> /\ service = "called" /\ timerExpiry' = Noticed
  BY DEF TimeoutBody
<1>2. timerExpiry \in BOOLEAN /\ WaitsUntilDue
  BY DEF IInv, HandlesType
<1>3. CASE handle = NoHandle
  <2>1. Pending' = Pending /\ timerExpiry' = timerExpiry
    BY <1>1, <1>3 DEF Pending, Noticed
  <2>2. QED
    BY <2>1, NotSeen
<1>4. CASE handle # NoHandle /\ handle \in due
  <2>1. timerExpiry' = TRUE
    BY <1>1, <1>4, Noticing
  <2>2. Pending = TRUE /\ Pending' \in BOOLEAN
    BY <1>1, <1>4 DEF Pending, AtWork
  <2>3. QED
    BY <2>1, <2>2, SeenAsFire DEF Seen!Next
<1>5. CASE handle # NoHandle /\ handle \notin due
  <2>1. timerExpiry' = FALSE
    BY <1>1, <1>5, Noticing
  <2>2. waiting # {}
    BY <1>2, <1>5 DEF WaitsUntilDue
  <2>3. Pending' = Pending
    BY <1>1, <2>2 DEF Pending
  <2>4. QED
    BY <1>2, <2>1, <2>3, SeenAsIsExpired DEF Seen!Next
<1>6. QED
  BY <1>3, <1>4, <1>5

LEMMA RestartSeen ==
    ASSUME IInv, RestartBody
    PROVE  [Seen!Next]_View
<1> USE DEF NoHandle
<1>1. UNCHANGED <<mode, handle, timerExpiry>> /\ service = "restarting" /\ service' = "idle"
  BY DEF RestartBody
<1>2. CASE mode = "PERIODIC" /\ handle # NoHandle
  <2>1. waiting' # {}
    BY <1>2 DEF RestartBody, Rearmed
  <2>2. Pending' = Pending
    BY <1>1, <1>2, <2>1 DEF Pending, AtWork
  <2>3. QED
    BY <1>1, <2>2, NotSeen
<1>3. CASE ~(mode = "PERIODIC" /\ handle # NoHandle)
  <2>1. UNCHANGED <<ready, waiting>>
    BY <1>3 DEF RestartBody
  <2>2. Pending' = Pending
    BY <1>1, <1>3, <2>1 DEF Pending, AtWork
  <2>3. QED
    BY <1>1, <2>2, NotSeen
<1>4. QED
  BY <1>2, <1>3

LEMMA NextSeen ==
    ASSUME IInv, [Next]_vars
    PROVE  [Seen!Next]_View
<1> USE DEF NoHandle
<1> timerExpiry \in BOOLEAN
  BY DEF IInv, HandlesType
<1>1. CASE UNCHANGED <<handle, waiting, ready, timerExpiry>> /\ AtWork' = AtWork
  <2>1. Pending' = Pending
    BY <1>1 DEF Pending
  <2>2. QED
    BY <1>1, <2>1, NotSeen
<1>2. CASE StopBody
  <2>1. Pending' = FALSE /\ timerExpiry' = timerExpiry
    BY <1>2 DEF StopBody, Pending
  <2>2. QED
    BY <2>1, SeenAsStop DEF Seen!Next
<1>3. CASE StartBody
  <2>1. handle' # 0 /\ waiting' # {}
    BY <1>3 DEF StartBody, IInv, HandlesType
  <2>2. Pending' = TRUE
    BY <2>1 DEF Pending
  <2>3. timerExpiry' = FALSE
    BY <1>3 DEF StartBody, ExpiryReset
  <2>4. QED
    BY <2>2, <2>3, SeenAsStart DEF Seen!Next
<1>4. CASE IsExpiredBody
  <2>1. Pending' = Pending /\ timerExpiry' = FALSE
    BY <1>4 DEF IsExpiredBody, Pending, AtWork
  <2>2. QED
    BY <2>1, SeenAsIsExpired DEF Seen!Next
<1>5. ASSUME NEW h \in Handles, Completes(h) PROVE [Seen!Next]_View
  <2>1. waiting # {} /\ ready' > 0 /\ UNCHANGED <<handle, timerExpiry>>
    BY <1>5 DEF Completes, IInv, HandlesType
  <2>2. Pending' = Pending
    BY <2>1 DEF Pending
  <2>3. QED
    BY <2>1, <2>2, NotSeen
<1>6. CASE ServiceCalls
  <2>1. ready > 0 /\ service' = "called" /\ UNCHANGED <<handle, waiting, timerExpiry>>
    BY <1>6 DEF ServiceCalls
  <2>2. Pending' = Pending
    BY <2>1 DEF Pending, AtWork
  <2>3. QED
    BY <2>1, <2>2, NotSeen
<1>7. CASE ServiceGivesUp
  <2>1. UNCHANGED <<handle, waiting, ready, timerExpiry>> /\ service' = "idle"
    BY <1>7 DEF ServiceGivesUp
  <2>2. Pending' = Pending \/ Pending' = FALSE
    BY <2>1 DEF Pending, AtWork
  <2>3. QED
    BY <2>1, <2>2, NotSeen, SeenAsStop DEF Seen!Next
<1>8. CASE TimersRun /\ TimeoutBody
  BY <1>8, TimeoutSeen
<1>9. CASE CallStop \/ CallStart \/ CallIsExpired
  BY <1>1, <1>9 DEF CallStop, CallStart, CallIsExpired, OwnerCalls, AtWork
<1>10. CASE OwnerLocks \/ OwnerGivesUp \/ ServiceLocks
  BY <1>1, <1>10 DEF OwnerLocks, OwnerGivesUp, ServiceLocks, AtWork
<1>11. CASE CallsBack
  BY <1>1, <1>11 DEF CallsBack, AtWork
<1>12. CASE RestartBody
  BY <1>12, RestartSeen
<1>13. CASE Clock
  BY <1>1, <1>13 DEF Clock, Elapses, AtWork
<1>14. CASE UNCHANGED vars
  BY <1>1, <1>14 DEF vars, AtWork
<1>15. QED
  BY <1>2, <1>3, <1>4, <1>5, <1>6, <1>7, <1>8, <1>9, <1>10, <1>11, <1>12, <1>13, <1>14
     DEF Next, Owner, OwnerGoesOn, IoService

(* The btimer, its lock and its service thread are the timer that DDServer *)
(* and DDClient are modelled with: each start, stop, isExpired and         *)
(* timeoutCB (bTimer.cpp:27-126, 153-182) does to it what TimerView says.  *)
THEOREM TimerRefinement == Spec => ImplementsView
<1>1. Init => Seen!Init
  <2> SUFFICES ASSUME Init PROVE View = Seen!NewTimer
    BY DEF Seen!Init
  <2>1. Pending = FALSE /\ timerExpiry = FALSE
    BY DEF Init, Pending
  <2>2. QED
    BY <2>1 DEF View, Seen!NewTimer
<1>2. QED
  BY <1>1, InitIInv, NextIInv, NextSeen, PTL DEF Spec, ImplementsView, Seen!Spec

-----------------------------------------------------------------------------
(* What the invariants of the two modes rest on: only a handler that found *)
(* a handle calls back, and a PERIODIC timer has its next wait.            *)
AtMostOneLate == handle = NoHandle => late <= 1 /\ (service = "calling" => late = 0)

Control ==
    /\ mode \in {"ONE_SHOT", "PERIODIC"}
    /\ holder \in {"nobody", "owner", "service"}
    /\ owner \in {"idle", "stopping", "startStopping", "starting", "asking"}
    /\ service \in {"idle", "called", "calling", "restarting"}
    /\ lost \in BOOLEAN
    /\ late \in 0..2
    /\ starts <= MaxStarts
    /\ owner \in {"startStopping", "starting"} => starts < MaxStarts

(* Each handle is waited for once: the waits outstanding, the handlers     *)
(* still to run and the one that runs, which may wait once more, are       *)
(* together no more than the handles created.                              *)
Running == IF service = "idle" THEN 0 ELSE 1

Counted == ready + Cardinality(waiting) + Running <= starts

(* The waits outstanding can be counted: the wait of a new handle is one   *)
(* more, a wait that is completed or cancelled one less.                   *)
LEMMA Waits ==
    ASSUME HandlesType
    PROVE  /\ IsFiniteSet(waiting) /\ Cardinality(waiting) \in Nat
           /\ \A h : Cardinality(waiting \ {h}) =
                      IF h \in waiting THEN Cardinality(waiting) - 1 ELSE Cardinality(waiting)
           /\ Cardinality(waiting \cup {starts + 1}) = Cardinality(waiting) + 1
<1>1. IsFiniteSet(waiting)
  <2>1. starts \in Int /\ 1 \in Int /\ waiting \in SUBSET (1..starts)
    BY DEF HandlesType
  <2>2. IsFiniteSet(1..starts)
    BY ONLY <2>1, FS_Interval
  <2>3. QED
    BY ONLY <2>1, <2>2, FS_Subset
<1>2. starts + 1 \notin waiting
  BY DEF HandlesType
<1>3. Cardinality(waiting) \in Nat
  BY <1>1, FS_CardinalityType
<1>4. ASSUME NEW h
      PROVE  Cardinality(waiting \ {h}) =
             IF h \in waiting THEN Cardinality(waiting) - 1 ELSE Cardinality(waiting)
  <2>1. CASE h \in waiting
    BY <1>1, <2>1, FS_RemoveElement
  <2>2. CASE h \notin waiting
    <3>1. waiting \ {h} = waiting
      BY <2>2
    <3>2. QED
      BY <2>2, <3>1
  <2>3. QED
    BY <2>1, <2>2
<1>5. Cardinality(waiting \cup {starts + 1}) = Cardinality(waiting) + 1
  BY <1>1, <1>2, FS_AddElement
<1>6. QED
  BY <1>1, <1>3, <1>4, <1>5

LEMMA InitControl == Init => Control /\ AtMostOneLate
<1> SUFFICES ASSUME Init PROVE Control /\ AtMostOneLate
  OBVIOUS
<1>1. starts <= MaxStarts /\ late \in 0..2 /\ late = 0
  BY BoundAssumption DEF Init
<1>2. lost \in BOOLEAN /\ owner = "idle" /\ service = "idle" /\ holder = "nobody"
  BY DEF Init
<1>3. mode \in {"ONE_SHOT", "PERIODIC"}
  BY DEF Init
<1>4. QED
  BY <1>1, <1>2, <1>3 DEF Control, AtMostOneLate

(* The places of the two threads, and the number of starts, keep in range. *)
LEMMA ControlStep ==
    ASSUME IInv, Control, [Next]_vars
    PROVE  Control'
<1> starts \in Nat /\ MaxStarts \in Nat
  BY BoundAssumption DEF IInv, HandlesType
<1> USE DEF Control, history
<1>1. CASE CallStop \/ CallStart \/ CallIsExpired
  BY <1>1 DEF CallStop, CallStart, CallIsExpired, OwnerCalls
<1>2. CASE OwnerLocks \/ OwnerGivesUp
  BY <1>2 DEF OwnerLocks, OwnerGivesUp, Locks, AfterCall
<1>3. CASE StopBody
  <2>1. late' \in 0..2
    BY <1>3 DEF StopBody
  <2>2. QED
    BY <1>3, <2>1 DEF StopBody, Unlocks, AfterCall
<1>4. CASE StartBody
  <2>1. lost' \in BOOLEAN
    BY <1>4 DEF StartBody
  <2>2. starts' <= MaxStarts
    BY <1>4 DEF StartBody
  <2>3. QED
    BY <1>4, <2>1, <2>2 DEF StartBody, Unlocks
<1>5. CASE IsExpiredBody
  BY <1>5 DEF IsExpiredBody, Unlocks
<1>6. CASE IoService
  <2>1. ASSUME NEW h \in Handles, Completes(h) PROVE Control'
    BY <2>1 DEF Completes
  <2>2. CASE ServiceCalls \/ ServiceLocks \/ ServiceGivesUp
    BY <2>2 DEF ServiceCalls, ServiceLocks, ServiceGivesUp, Locks
  <2>3. CASE TimeoutBody \/ RestartBody
    BY <2>3 DEF TimeoutBody, RestartBody, Unlocks
  <2>4. CASE CallsBack
    <3>1. late' \in 0..2
      BY <2>4 DEF CallsBack
    <3>2. QED
      BY <2>4, <3>1 DEF CallsBack
  <2>5. QED
    BY <1>6, <2>1, <2>2, <2>3, <2>4 DEF IoService
<1>7. CASE Clock
  BY <1>7 DEF Clock, Elapses
<1>8. CASE UNCHANGED vars
  BY <1>8 DEF vars
<1>9. QED
  BY <1>1, <1>2, <1>3, <1>4, <1>5, <1>6, <1>7, <1>8 DEF Next, Owner, OwnerGoesOn

(* A start adds a wait, a completion or a stop turns it into a handler, a  *)
(* handler that ends is used up, a restart waits in its place.             *)
LEMMA CountedStep ==
    ASSUME IInv, Control, Counted, [Next]_vars
    PROVE  Counted'
<1>0. HandlesType /\ starts \in Nat /\ ready \in Nat
  BY DEF IInv, HandlesType
<1> USE DEF Running
<1>1. CASE UNCHANGED <<ready, waiting, starts>> /\ (service' = "idle" \/ service # "idle")
  <2>1. Running' <= Running /\ Running \in Nat /\ Running' \in Nat
    BY <1>1
  <2>2. Cardinality(waiting) \in Nat
    BY <1>0, Waits
  <2>3. QED
    BY <1>0, <1>1, <2>1, <2>2 DEF Counted
<1>2. CASE StopBody
  <2>1. ready' = ready + Cancelled(handle) /\ waiting' = waiting \ {handle} /\ UNCHANGED <<starts, service>>
    BY <1>2 DEF StopBody
  <2>2. QED
    BY <1>0, <2>1, Waits DEF Counted, Cancelled
<1>3. CASE StartBody
  <2>1. /\ ready' = ready /\ waiting' = waiting \cup {starts + 1} /\ starts' = starts + 1
        /\ service' = service
    BY <1>3 DEF StartBody
  <2>2. QED
    BY <1>0, <2>1, Waits DEF Counted
<1>4. ASSUME NEW h \in Handles, Completes(h) PROVE Counted'
  <2>1. h \in waiting /\ ready' = ready + 1 /\ waiting' = waiting \ {h} /\ UNCHANGED <<starts, service>>
    BY <1>4 DEF Completes
  <2>2. QED
    BY <1>0, <2>1, Waits DEF Counted
<1>5. CASE ServiceCalls
  <2>1. ready' = ready - 1 /\ UNCHANGED <<waiting, starts>> /\ service = "idle" /\ service' = "called"
    BY <1>5 DEF ServiceCalls
  <2>2. QED
    BY <1>0, <2>1, Waits DEF Counted
<1>6. CASE RestartBody
  <2>1. starts' = starts /\ service = "restarting" /\ service' = "idle"
    BY <1>6 DEF RestartBody
  <2>2. CASE mode = "PERIODIC" /\ handle # NoHandle
    <3>1. ready' = ready + Cancelled(handle) /\ waiting' = waiting \cup {handle}
      BY <1>6, <2>2 DEF RestartBody, Rearmed
    <3>2. CASE handle \in waiting
      <4>1. ready' = ready + 1 /\ waiting' = waiting
        BY <3>1, <3>2 DEF Cancelled
      <4>2. QED
        BY <1>0, <2>1, <4>1, Waits DEF Counted
    <3>3. CASE handle \notin waiting
      <4>1. ready' = ready /\ Cardinality(waiting') = Cardinality(waiting) + 1
        BY <1>0, <3>1, <3>3, Waits, FS_AddElement DEF Cancelled
      <4>2. QED
        BY <1>0, <2>1, <4>1, Waits DEF Counted
    <3>4. QED
      BY <3>2, <3>3
  <2>3. CASE ~(mode = "PERIODIC" /\ handle # NoHandle)
    <3>1. UNCHANGED <<ready, waiting>>
      BY <1>6, <2>3 DEF RestartBody
    <3>2. QED
      BY <1>1, <2>1, <3>1
  <2>4. QED
    BY <2>2, <2>3
<1>7. CASE CallStop \/ CallStart \/ CallIsExpired \/ OwnerLocks \/ OwnerGivesUp \/ IsExpiredBody
  BY <1>1, <1>7 DEF CallStop, CallStart, CallIsExpired, OwnerCalls, OwnerLocks, OwnerGivesUp, IsExpiredBody
<1>8. CASE ServiceLocks \/ ServiceGivesUp \/ TimeoutBody \/ CallsBack
  BY <1>1, <1>8 DEF ServiceLocks, ServiceGivesUp, ServiceWants, TimeoutBody, CallsBack
<1>9. CASE Clock
  BY <1>1, <1>9 DEF Clock, Elapses
<1>10. CASE UNCHANGED vars
  BY <1>1, <1>10 DEF vars
<1>11. QED
  BY <1>2, <1>3, <1>4, <1>5, <1>6, <1>7, <1>8, <1>9, <1>10 DEF Next, Owner, OwnerGoesOn, IoService

(* A callback without a handle uses up the one that was under way when the *)
(* handle was removed: no handler finds another.                           *)
LEMMA LateStep ==
    ASSUME IInv, Control, AtMostOneLate, [Next]_vars
    PROVE  AtMostOneLate'
<1>0. starts \in Nat /\ late \in 0..2
  BY DEF IInv, HandlesType, Control
<1> USE DEF AtMostOneLate, NoHandle, history
<1>1. CASE StopBody
  BY <1>0, <1>1 DEF StopBody
<1>2. CASE StartBody
  BY <1>0, <1>2 DEF StartBody
<1>3. CASE CallsBack
  BY <1>0, <1>3 DEF CallsBack
<1>4. CASE TimeoutBody
  BY <1>0, <1>4 DEF TimeoutBody, Found
<1>5. CASE RestartBody
  BY <1>0, <1>5 DEF RestartBody
<1>6. CASE UNCHANGED <<handle, late>> /\ service' # "calling"
  BY <1>0, <1>6
<1>7. CASE UNCHANGED <<handle, late, service>>
  BY <1>0, <1>7
<1>8. CASE CallStop \/ CallStart \/ CallIsExpired \/ OwnerLocks \/ OwnerGivesUp \/ IsExpiredBody
  BY <1>7, <1>8 DEF CallStop, CallStart, CallIsExpired, OwnerCalls, OwnerLocks, OwnerGivesUp, IsExpiredBody
<1>9. CASE ServiceCalls \/ ServiceGivesUp
  BY <1>6, <1>9 DEF ServiceCalls, ServiceGivesUp
<1>10. CASE ServiceLocks \/ Clock \/ UNCHANGED vars
  BY <1>7, <1>10 DEF ServiceLocks, Clock, Elapses, vars
<1>11. ASSUME NEW h \in Handles, Completes(h) PROVE AtMostOneLate'
  BY <1>7, <1>11 DEF Completes
<1>12. QED
  BY <1>1, <1>2, <1>3, <1>4, <1>5, <1>8, <1>9, <1>10, <1>11 DEF Next, Owner, OwnerGoesOn, IoService

(* The handler of a PERIODIC timer that finds the handle not due leaves    *)
(* its wait outstanding, and one that finds it due waits again.            *)
LEMMA PeriodicStep ==
    ASSUME IInv, PeriodicGoesOn, [Next]_vars
    PROVE  PeriodicGoesOn'
<1>0. ready \in Nat /\ starts \in Nat /\ WaitsUntilDue
  BY DEF IInv, HandlesType
<1> USE DEF PeriodicGoesOn, Pending, AtWork, NoHandle, history
<1>1. CASE StopBody
  BY <1>1 DEF StopBody
<1>2. CASE StartBody
  BY <1>2 DEF StartBody
<1>3. ASSUME NEW h \in Handles, Completes(h) PROVE PeriodicGoesOn'
  BY <1>0, <1>3 DEF Completes
<1>4. CASE ServiceCalls
  BY <1>0, <1>4 DEF ServiceCalls
<1>5. CASE ServiceGivesUp
  BY <1>5 DEF ServiceGivesUp
<1>6. CASE TimeoutBody
  BY <1>0, <1>6 DEF TimeoutBody, Found, WaitsUntilDue
<1>7. CASE CallsBack
  BY <1>7 DEF CallsBack
<1>8. CASE RestartBody
  BY <1>8 DEF RestartBody, Rearmed
<1>9. CASE UNCHANGED <<mode, handle, lost, waiting, ready, service>>
  BY <1>9
<1>10. CASE CallStop \/ CallStart \/ CallIsExpired \/ OwnerLocks \/ OwnerGivesUp \/ IsExpiredBody
  BY <1>9, <1>10 DEF CallStop, CallStart, CallIsExpired, OwnerCalls, OwnerLocks, OwnerGivesUp, IsExpiredBody
<1>11. CASE ServiceLocks \/ Clock \/ UNCHANGED vars
  BY <1>9, <1>11 DEF ServiceLocks, Clock, Elapses, vars
<1>12. QED
  BY <1>1, <1>2, <1>3, <1>4, <1>5, <1>6, <1>7, <1>8, <1>10, <1>11 DEF Next, Owner, OwnerGoesOn, IoService

(* Every variable of the timer has its type; above all no handler runs     *)
(* more often than a wait was started (bTimer.cpp:42-46, 89-97).           *)
THEOREM BTimerTyped == Spec => []TypeOK
<1>1. Init => IInv /\ Control /\ Counted
  <2> SUFFICES ASSUME Init PROVE Control /\ Counted
    BY InitIInv
  <2>1. Control
    BY InitControl
  <2>2. starts = 0 /\ ready = 0 /\ Cardinality(waiting) = 0 /\ Running = 0
    BY FS_EmptySet DEF Init, Running
  <2>3. QED
    BY <2>1, <2>2 DEF Counted
<1>2. IInv /\ Control /\ Counted /\ [Next]_vars => (IInv /\ Control /\ Counted)'
  BY NextIInv, ControlStep, CountedStep
<1>3. IInv /\ Control /\ Counted => TypeOK
  <2> SUFFICES ASSUME IInv, Control, Counted PROVE TypeOK
    OBVIOUS
  <2>1. ready \in 0..MaxStarts
    BY BoundAssumption, Waits DEF IInv, HandlesType, Control, Counted, Running
  <2>2. handle \in 0..MaxStarts /\ starts \in 0..MaxStarts /\ due \subseteq Handles /\ waiting \subseteq Handles
    BY BoundAssumption DEF IInv, HandlesType, Control, Handles
  <2>3. timerExpiry \in BOOLEAN
    BY DEF IInv, HandlesType
  <2>4. QED
    BY <2>1, <2>2, <2>3 DEF TypeOK, Control
<1>4. QED
  BY <1>1, <1>2, <1>3, PTL DEF Spec

(* A PERIODIC timer that is set has a wait or a handler outstanding, unless *)
(* the service thread gave up the lock (bTimer.cpp:54-76, 153-181).        *)
THEOREM PeriodicNeverDry == Spec => []PeriodicGoesOn
<1>1. Init => PeriodicGoesOn
  BY DEF Init, PeriodicGoesOn
<1>2. QED
  BY <1>1, InitIInv, NextIInv, PeriodicStep, PTL DEF Spec

(* After a stop at most the callback already under way is made             *)
(* (bTimer.cpp:98-104, 163, 175-178).                                      *)
THEOREM OneCallbackAfterStop == Spec => []StopLeavesOne
<1>1. Init => Control /\ AtMostOneLate
  BY InitControl
<1>2. AtMostOneLate => StopLeavesOne
  BY DEF AtMostOneLate, StopLeavesOne
<1>3. QED
  BY <1>1, <1>2, InitIInv, NextIInv, ControlStep, LateStep, PTL DEF Spec
=============================================================================
