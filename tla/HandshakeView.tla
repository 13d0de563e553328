---------------------------- MODULE HandshakeView ----------------------------
(***************************************************************************)
(* The two ends of the hand-over of a transfer as DDClient has it: reading *)
(* the next state and entering it is one step, so is a state's work, and a *)
(* call of startNewTransfer finds the client idle and takes effect at      *)
(* once.  Nothing is promised once a state mutex was given up.             *)
(***************************************************************************)
CONSTANT Successors   \* for each working state the set of states it may lead to

VARIABLES
    current,    \* currentState
    next,       \* nextState
    transfer,   \* what the application knows of the last transfer it started
    excused     \* a lock was given up

vars == <<current, next, transfer, excused>>

Init == current = "IDLE" /\ next = "IDLE" /\ transfer = "none" /\ ~excused

Start ==
    /\ current = "IDLE" /\ next = "IDLE"
    /\ transfer # "running"
    /\ next' = "REQUEST" /\ transfer' = "running"
    /\ UNCHANGED <<current, excused>>

Enter == current # next /\ current' = next /\ UNCHANGED <<next, transfer, excused>>

Work ==
    /\ current = next
    /\ current \in DOMAIN Successors
    /\ next' \in Successors[current]
    /\ UNCHANGED <<current, transfer, excused>>

Notify ==
    /\ current = "TERMINATE" /\ next = "TERMINATE"
    /\ transfer = "running"
    /\ transfer' \in {"success", "failure"}
    /\ next' = "IDLE"
    /\ UNCHANGED <<current, excused>>

Next == Start \/ Enter \/ Work \/ Notify \/ excused'

Spec == Init /\ [][Next]_vars
=============================================================================
