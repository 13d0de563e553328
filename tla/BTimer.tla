------------------------------- MODULE BTimer -------------------------------
(***************************************************************************)
(* One btimer (bTimer/bTimer.cpp), ONE_SHOT as DDBase makes it or PERIODIC: *)
(* its owner calls start, stop and isExpired, and one thread runs the      *)
(* handlers of the io_service, in the order they became ready.             *)
(*                                                                         *)
(* Every critical section of resProtect is two steps, the lock and the     *)
(* body, so that the other thread's try_lock_for may give up in between.   *)
(* timeoutCB ignores the error code and looks at the handle of the moment, *)
(* not at the one whose wait it completes.  It calls back without the lock, *)
(* and its last call, restart, takes the lock once more.                   *)
(***************************************************************************)
EXTENDS StateTimer, Naturals

CONSTANT MaxStarts   \* bound: handles created

ASSUME BoundAssumption == MaxStarts \in Nat

VARIABLES
    mode,          \* set by the constructor
    handle,        \* the current handle, 0 for NULL
    starts,        \* history: handles created, and the last one's number
    due,           \* handles whose expires_at has passed
    waiting,       \* handles with an async_wait that has not completed
    ready,         \* number of completed waits whose timeoutCB has still to run
    timerExpiry,
    holder,        \* who holds resProtect: "nobody", "owner" or "service"
    owner,         \* where the owner is
    service,       \* where the service thread is
    lost,          \* history: the service thread gave up the lock since the last start
    late           \* history: callbacks made without a handle since the last stop of one, up to 2

history == <<lost, late>>
vars == <<mode, history, handle, starts, due, waiting, ready, timerExpiry, holder, owner, service>>

NoHandle == 0
Handles == 1..MaxStarts

TypeOK ==
    /\ mode \in {"ONE_SHOT", "PERIODIC"}
    /\ handle \in 0..MaxStarts
    /\ starts \in 0..MaxStarts
    /\ due \subseteq Handles
    /\ waiting \subseteq Handles
    /\ ready \in 0..MaxStarts
    /\ timerExpiry \in BOOLEAN
    /\ holder \in {"nobody", "owner", "service"}
    /\ owner \in {"idle", "stopping", "startStopping", "starting", "asking"}
    /\ service \in {"idle", "called", "calling", "restarting"}
    /\ lost \in BOOLEAN
    /\ late \in 0..2

Init ==
    /\ mode \in {"ONE_SHOT", "PERIODIC"}
    /\ handle = NoHandle /\ starts = 0
    /\ due = {} /\ waiting = {} /\ ready = 0
    /\ timerExpiry = FALSE
    /\ holder = "nobody" /\ owner = "idle" /\ service = "idle"
    /\ lost = FALSE /\ late = 0

-----------------------------------------------------------------------------
(* The lock.  try_lock_for gives up only while the other thread holds it.  *)
Locks(thread) == holder = "nobody" /\ holder' = thread

Unlocks(thread) == holder = thread /\ holder' = "nobody"

GivesUp(thread) == LockTimeouts /\ holder \notin {"nobody", thread}

-----------------------------------------------------------------------------
(* The owner: a call begins, gets or does not get the lock, does its work. *)

OwnerCalls(call) ==
    /\ owner = "idle"
    /\ owner' = call
    /\ UNCHANGED <<mode, history, handle, starts, due, waiting, ready, timerExpiry, holder, service>>

CallStop == OwnerCalls("stopping")

(* start() begins with a stop(), whose result it does not look at.         *)
CallStart == starts < MaxStarts /\ OwnerCalls("startStopping")

CallIsExpired == OwnerCalls("asking")

OwnerLocks ==
    /\ owner # "idle"
    /\ Locks("owner")
    /\ UNCHANGED <<mode, history, handle, starts, due, waiting, ready, timerExpiry, owner, service>>

(* A stop inside a start is followed by the rest of the start.             *)
AfterCall == IF owner = "startStopping" THEN "starting" ELSE "idle"

OwnerGivesUp ==
    /\ owner # "idle"
    /\ GivesUp("owner")
    /\ owner' = AfterCall
    /\ UNCHANGED <<mode, history, handle, starts, due, waiting, ready, timerExpiry, holder, service>>

(* cancel() and the destructor both complete a wait that is outstanding.   *)
CancelledAnyway(h) == 1
Cancelled(h) == IF h \in waiting THEN 1 ELSE 0

StopBody ==
    /\ owner \in {"stopping", "startStopping"}
    /\ Unlocks("owner")
    /\ ready' = ready + Cancelled(handle)
    /\ waiting' = waiting \ {handle}
    /\ handle' = NoHandle
    /\ late' = IF handle # NoHandle THEN 0 ELSE late
    /\ owner' = AfterCall
    /\ UNCHANGED <<mode, lost, starts, due, timerExpiry, service>>

(* A handle that stop could not remove is overwritten and never deleted.   *)
ExpiryKept == timerExpiry
ExpiryReset == FALSE

StartBody ==
    /\ owner = "starting"
    /\ Unlocks("owner")
    /\ starts' = starts + 1
    /\ handle' = starts + 1
    /\ waiting' = waiting \cup {starts + 1}
    /\ timerExpiry' = ExpiryReset
    /\ lost' = FALSE
    /\ owner' = "idle"
    /\ UNCHANGED <<mode, late, due, ready, service>>

IsExpiredBody ==
    /\ owner = "asking"
    /\ Unlocks("owner")
    /\ timerExpiry' = FALSE
    /\ owner' = "idle"
    /\ UNCHANGED <<mode, history, handle, starts, due, waiting, ready, service>>

-----------------------------------------------------------------------------
(* Time passes; the io_service completes a wait that is due.               *)
Elapses(h) ==
    /\ h \in 1..starts \ due
    /\ due' = due \cup {h}
    /\ UNCHANGED <<mode, history, handle, starts, waiting, ready, timerExpiry, holder, owner, service>>

Completes(h) ==
    /\ h \in waiting \cap due
    /\ waiting' = waiting \ {h}
    /\ ready' = ready + 1
    /\ UNCHANGED <<mode, history, handle, starts, due, timerExpiry, holder, owner, service>>

ServiceCalls ==
    /\ service = "idle"
    /\ ready > 0
    /\ ready' = ready - 1
    /\ service' = "called"
    /\ UNCHANGED <<mode, history, handle, starts, due, waiting, timerExpiry, holder, owner>>

ServiceWants == service \in {"called", "restarting"}

ServiceLocks ==
    /\ ServiceWants
    /\ Locks("service")
    /\ UNCHANGED <<mode, history, handle, starts, due, waiting, ready, timerExpiry, owner, service>>

ServiceGivesUp ==
    /\ ServiceWants
    /\ GivesUp("service")
    /\ lost' = TRUE
    /\ service' = "idle"
    /\ UNCHANGED <<mode, late, handle, starts, due, waiting, ready, timerExpiry, holder, owner>>

(* Under the lock: an unset handle is left alone, and timerExpiry becomes  *)
(* whether the handle of the moment is due.                                *)
NoticedUnset == handle = NoHandle \/ handle \in due
NoticedTooSoon == IF handle = NoHandle THEN timerExpiry ELSE handle \notin due
Noticed == IF handle = NoHandle THEN timerExpiry ELSE handle \in due

FoundUnset == handle = NoHandle \/ handle \in due
Found == handle # NoHandle /\ handle \in due

TimeoutBody ==
    /\ service = "called"
    /\ Unlocks("service")
    /\ timerExpiry' = Noticed
    /\ service' = IF Found THEN "calling" ELSE "idle"
    /\ UNCHANGED <<mode, history, handle, starts, due, waiting, ready, owner>>

(* notifyCB, if there is one.                                              *)
CallsBack ==
    /\ service = "calling"
    /\ service' = "restarting"
    /\ late' = IF handle = NoHandle /\ late < 2 THEN late + 1 ELSE late
    /\ UNCHANGED <<mode, lost, handle, starts, due, waiting, ready, timerExpiry, holder, owner>>

(* expires_from_now cancels a wait on the handle, which is then not due    *)
(* any more, and async_wait is one more wait.                              *)
NotRearmed == waiting
Rearmed == waiting \cup {handle}

RestartBody ==
    /\ service = "restarting"
    /\ Unlocks("service")
    /\ service' = "idle"
    /\ IF mode = "PERIODIC" /\ handle # NoHandle
       THEN /\ ready' = ready + Cancelled(handle)
            /\ waiting' = Rearmed
            /\ due' = due \ {handle}
       ELSE UNCHANGED <<ready, waiting, due>>
    /\ UNCHANGED <<mode, history, handle, starts, timerExpiry, owner>>

-----------------------------------------------------------------------------
OwnerGoesOn == OwnerLocks \/ OwnerGivesUp \/ StopBody \/ StartBody \/ IsExpiredBody

Owner ==
    \/ CallStop \/ CallStart \/ CallIsExpired
    \/ OwnerGoesOn

IoService ==
    /\ TimersRun
    /\ \/ \E h \in Handles : Completes(h)
       \/ ServiceCalls \/ ServiceLocks \/ ServiceGivesUp \/ TimeoutBody \/ CallsBack
       \/ RestartBody

Clock == \E h \in Handles : Elapses(h)

Next == Owner \/ IoService \/ Clock

Spec == Init /\ [][Next]_vars

(* A call that has begun goes on, the service thread runs, time passes.    *)
Fairness == WF_vars(OwnerGoesOn) /\ WF_vars(IoService) /\ WF_vars(Clock)

FairSpec == Spec /\ Fairness

-----------------------------------------------------------------------------
(* No expiry is reported of a ONE_SHOT timer that is not due: a handler    *)
(* left over from an earlier start, which timeoutCB cannot tell from its   *)
(* own (bTimer.cpp:153-169), does no harm to the timer started since.      *)
NoEarlyExpiry == mode = "ONE_SHOT" /\ timerExpiry /\ handle # NoHandle => handle \in due

(* The timer as its owner sees it.                                         *)
AtWork == service = "called" \/ (mode = "PERIODIC" /\ service \in {"calling", "restarting"})
Pending == handle # NoHandle /\ (waiting # {} \/ ready > 0 \/ AtWork)

View == [pending |-> Pending, expiry |-> timerExpiry]

Seen == INSTANCE TimerView WITH t <- View

(* BTimer implements the timer that DDServer and DDClient are built on.    *)
ImplementsView == Seen!Spec

(* A PERIODIC timer that is set never runs dry: whichever handlers and     *)
(* restarts come between, a wait or a handler is outstanding, unless one   *)
(* of them gave up the lock (bTimer.cpp:54-76, 153-181).                   *)
PeriodicGoesOn == mode = "PERIODIC" /\ handle # NoHandle /\ ~lost => Pending

(* After a stop at most the callback already under way is made, however    *)
(* many handlers are left over (bTimer.cpp:98-104, 163, 175-178).          *)
StopLeavesOne == handle = NoHandle => late <= 1

(* A timer that is pending comes to report an expiry, unless it is stopped *)
(* or the service thread gives up the lock (bTimer.cpp:153-169).           *)
ExpiryComes == Pending ~> timerExpiry \/ handle = NoHandle \/ lost
=============================================================================
