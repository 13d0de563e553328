------------------------------ MODULE TimerView ------------------------------
(***************************************************************************)
(* What a state-transition timer may do between two calls of its owner,    *)
(* and what each call does to it.                                          *)
(***************************************************************************)
EXTENDS StateTimer

VARIABLE t   \* one of Timers

Init == t = NewTimer

Stop == t' \in Stopped(t)

Start == t' \in Started(t)

IsExpired == t' = ExpiryCleared(t)

Fire == TimersRun /\ t.pending /\ t' \in Fired(t)

Next == Stop \/ Start \/ IsExpired \/ Fire

Spec == Init /\ [][Next]_t
=============================================================================
