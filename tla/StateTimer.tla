----------------------------- MODULE StateTimer -----------------------------
(***************************************************************************)
(* The state-transition timer of bTimer/bTimer.cpp as its owner sees it.   *)
(* BTimer has the threads, the lock and the handlers behind it.            *)
(*                                                                         *)
(* pending: a handle is set and a wait or a handler is still outstanding,  *)
(* so that timeoutCB may yet report an expiry.  expiry: timerExpiry.       *)
(***************************************************************************)
CONSTANTS
    RunServices,       \* the io_services that some thread runs, see TimersRun
    LockTimeouts       \* may a try_lock_for give up: 100 us in bTimer.cpp, 1 ms in DDBase.cpp?

ASSUME TimerAssumption ==
    /\ RunServices \subseteq {"argument", "member"}
    /\ LockTimeouts \in BOOLEAN

Timers == [pending : BOOLEAN, expiry : BOOLEAN]

NewTimer == [pending |-> FALSE, expiry |-> FALSE]

(* The handle is created on the member io_service of btimer, which hides   *)
(* the constructor's argument.  Only a thread that runs the member makes   *)
(* timeoutCB happen, and only then can somebody else hold resProtect.      *)
TimersRun == "member" \in RunServices

LockMayFail == TimersRun /\ LockTimeouts

(* stop() drops the handle and keeps timerExpiry.                          *)
Stopped(t) == {[t EXCEPT !.pending = FALSE]} \cup (IF LockMayFail THEN {t} ELSE {})

(* start() is stop() and then, under the lock, a fresh handle.             *)
NeverArmed == [pending |-> FALSE, expiry |-> FALSE]
Armed == [pending |-> TRUE, expiry |-> FALSE]
NotArmed(t) == IF LockMayFail THEN Stopped(t) ELSE {}
Started(t) == {Armed} \cup NotArmed(t)

(* isExpired() tests and clears; it answers false when it gets no lock.    *)
ReadsExpired(t) == t.expiry
ReadsNotExpired(t) == ~t.expiry \/ LockMayFail
ExpiryCleared(t) == [t EXCEPT !.expiry = FALSE]

(* timeoutCB on the timer thread.  It may be the handler of an earlier     *)
(* wait that finds the new handle due, so that one more is still to come.  *)
(* Without the lock the expiry is lost.                                    *)
FiredUnnoticed(t) == {[t EXCEPT !.pending = FALSE]}
Fired(t) == {[pending |-> more, expiry |-> TRUE] : more \in BOOLEAN}
            \cup (IF LockMayFail THEN {[t EXCEPT !.pending = FALSE]} ELSE {})
=============================================================================
