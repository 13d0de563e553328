--------------------------- MODULE StateHandshake ---------------------------
(***************************************************************************)
(* How a transfer passes from the main loop of DDTest to the FSM thread of *)
(* the client and back, one access to a shared variable at a time: the     *)
(* current and the next state, isBusy, the application's buffer and its    *)
(* length, and DDTest's flag startNextTransfer.  DDClient takes a call of  *)
(* startNewTransfer and the entry of a state as single steps; HandshakeView *)
(* is that coarser grain.                                                  *)
(*                                                                         *)
(* Each critical section of nxt_mutex is two steps, the lock and the body, *)
(* so that the other thread's try_lock_for may give up in between.  Only   *)
(* the FSM thread ever takes cur_mutex, which therefore never fails.  What *)
(* the states do with packets is left out: a state's work leads to any of  *)
(* the states its code can set.                                            *)
(***************************************************************************)
EXTENDS Naturals

CONSTANTS
    MaxTransfers,   \* transfers DDTest starts before it ends (10 in DDTest.cpp)
    Frames,         \* frames that fit the buffer given to startNewTransfer
    LockTimeouts    \* may the 1 ms try_lock_for of nxt_mutex give up?

ASSUME HandshakeAssumption ==
    /\ MaxTransfers \in Nat \ {0}
    /\ Frames \in Nat \ {0}
    /\ LockTimeouts \in BOOLEAN

VARIABLES
    next,        \* nextState
    current,     \* currentState
    busy,        \* isBusy
    buffer,      \* internalBuffer: the call of startNewTransfer it came with, 0 for NULL
    room,        \* internalBufferLen, in frames
    success,     \* isTransferSuccess
    holder,      \* who holds nxt_mutex: "nobody", "fsm" or "app"
    fsm,         \* where the FSM thread is in FSMLoop
    target,      \* the argument of its setNextFSMState
    app,         \* where the main thread is in DDTest
    startNext,   \* startNextTransfer
    count,       \* TransactionCount
    transfer,    \* history: "none", "running", "lost" (accepted, but the next state was
                 \* not set), or what clientNotify last said
    gaveUp,      \* history: a lock was given up
    failed,      \* history: clientNotify(false) was called
    overtaken    \* history: the flag was cleared after clientNotify(true) had set it

fsmVars == <<current, busy, success, fsm, target>>
appVars == <<app, count>>
vars == <<next, buffer, room, holder, startNext, transfer, gaveUp, failed, overtaken, fsmVars, appVars>>

FSMStates == {"IDLE", "REQUEST", "RESPONSE", "INITIATE_BLOCK", "BLOCK", "TERMINATE"}

Outcomes == {"success", "failure"}

TypeOK ==
    /\ next \in FSMStates /\ current \in FSMStates /\ target \in FSMStates
    /\ busy \in BOOLEAN /\ success \in BOOLEAN
    /\ room \in 0..Frames
    /\ buffer \in 0..MaxTransfers
    /\ holder \in {"nobody", "fsm", "app"}
    /\ fsm \in {"read", "reread", "mark", "work", "letGoBuffer", "letGoRoom", "leave"}
    /\ app \in {"test", "check", "giveBuffer", "giveRoom", "setNext", "clear", "sleep", "ended"}
    /\ count \in 0..MaxTransfers
    /\ startNext \in BOOLEAN
    /\ transfer \in {"none", "running", "lost"} \cup Outcomes
    /\ gaveUp \in BOOLEAN /\ failed \in BOOLEAN /\ overtaken \in BOOLEAN

Init ==
    /\ next = "IDLE" /\ current = "IDLE" /\ target = "IDLE"
    /\ busy = FALSE /\ success = FALSE
    /\ buffer = 0 /\ room = 0
    /\ holder = "nobody"
    /\ fsm = "read" /\ app = "test"
    /\ startNext = TRUE
    /\ count = 0
    /\ transfer = "none"
    /\ gaveUp = FALSE /\ failed = FALSE /\ overtaken = FALSE

-----------------------------------------------------------------------------
(* nxt_mutex.  A try_lock_for gives up only while the other one holds it.  *)
FsmWants == fsm \in {"read", "reread", "leave"}
AppWants == app = "setNext"

GivesUp(thread) ==
    /\ LockTimeouts
    /\ holder \notin {"nobody", thread}
    /\ gaveUp' = TRUE

FsmLocks ==
    /\ FsmWants
    /\ holder = "nobody"
    /\ holder' = "fsm"
    /\ UNCHANGED <<next, buffer, room, startNext, transfer, gaveUp, failed, overtaken, fsmVars, appVars>>

AppLocks ==
    /\ AppWants
    /\ holder = "nobody"
    /\ holder' = "app"
    /\ UNCHANGED <<next, buffer, room, startNext, transfer, gaveUp, failed, overtaken, fsmVars, appVars>>

(* What a call of the FSM thread does with the lock, or without it.        *)
FsmHolds == holder = "fsm" /\ holder' = "nobody" /\ UNCHANGED gaveUp
FsmGivesUp == GivesUp("fsm") /\ UNCHANGED holder

(* getNextFSMState answers TERMINATE without the lock.                     *)
GetsNext(state) ==
    \/ FsmHolds /\ state = next
    \/ FsmGivesUp /\ state = "TERMINATE"

-----------------------------------------------------------------------------
(* The FSM thread.  It reads the next state, and once more to enter it.    *)
FsmReads ==
    /\ fsm = "read"
    /\ \E state \in FSMStates :
          /\ GetsNext(state)
          /\ fsm' = IF state # current THEN "reread" ELSE "mark"
    /\ UNCHANGED <<next, current, busy, buffer, room, success, target, startNext, transfer, failed,
                   overtaken, appVars>>

FsmEnters ==
    /\ fsm = "reread"
    /\ \E state \in FSMStates : GetsNext(state) /\ current' = state
    /\ fsm' = "mark"
    /\ UNCHANGED <<next, busy, buffer, room, success, target, startNext, transfer, failed,
                   overtaken, appVars>>

FsmMarks ==
    /\ fsm = "mark"
    /\ busy' = IF current # "IDLE" THEN TRUE ELSE busy
    /\ fsm' = "work"
    /\ UNCHANGED <<next, current, buffer, room, success, target, holder, startNext, transfer, gaveUp,
                   failed, overtaken, appVars>>

FsmIdles ==
    /\ fsm = "work"
    /\ current = "IDLE"
    /\ busy' = FALSE
    /\ fsm' = "read"
    /\ UNCHANGED <<next, current, buffer, room, success, target, holder, startNext, transfer, gaveUp,
                   failed, overtaken, appVars>>

SuccessorsUnnotified ==
    [REQUEST |-> {"RESPONSE", "TERMINATE"}, RESPONSE |-> {"INITIATE_BLOCK", "IDLE"},
     INITIATE_BLOCK |-> {"BLOCK", "TERMINATE"}, BLOCK |-> {"BLOCK", "TERMINATE"}]

(* The states each working state may set as the next one.                  *)
Successors ==
    [REQUEST |-> {"RESPONSE", "TERMINATE"}, RESPONSE |-> {"INITIATE_BLOCK", "TERMINATE"},
     INITIATE_BLOCK |-> {"BLOCK", "TERMINATE"}, BLOCK |-> {"BLOCK", "TERMINATE"}]

(* BLOCK stores a frame only if the buffer has room; after the last one    *)
(* the transfer is a success, if the ACK can be sent.                      *)
FsmStores ==
    /\ fsm = "work"
    /\ current = "BLOCK"
    /\ room > 0
    /\ room' = room - 1
    /\ target' \in Successors["BLOCK"]
    /\ success' \in {success} \cup (IF target' = "TERMINATE" THEN {TRUE} ELSE {})
    /\ fsm' = "leave"
    /\ UNCHANGED <<next, current, busy, buffer, holder, startNext, transfer, gaveUp, failed,
                   overtaken, appVars>>

(* Any other work, or a frame that does not come or does not fit.          *)
FsmWorks ==
    /\ fsm = "work"
    /\ current \in DOMAIN Successors
    /\ target' \in IF current = "BLOCK" THEN {"TERMINATE"} ELSE Successors[current]
    /\ fsm' = "leave"
    /\ UNCHANGED <<next, current, busy, buffer, room, success, holder, startNext, transfer, gaveUp,
                   failed, overtaken, appVars>>

(* clientNotify: only a success sets the flag.                             *)
FlagKept == startNext
FlagAfterNotify == IF success THEN TRUE ELSE startNext

FsmNotifies ==
    /\ fsm = "work"
    /\ current = "TERMINATE"
    /\ transfer' = IF success THEN "success" ELSE "failure"
    /\ startNext' = FlagAfterNotify
    /\ failed' = (failed \/ ~success)
    /\ success' = FALSE
    /\ fsm' = "letGoBuffer"
    /\ UNCHANGED <<next, current, busy, buffer, room, target, holder, gaveUp, overtaken, appVars>>

FsmLetsGoBuffer ==
    /\ fsm = "letGoBuffer"
    /\ buffer' = 0
    /\ fsm' = "letGoRoom"
    /\ UNCHANGED <<next, current, busy, room, success, target, holder, startNext, transfer, gaveUp,
                   failed, overtaken, appVars>>

RoomKept == room
RoomAfterCleanup == 0

FsmLetsGoRoom ==
    /\ fsm = "letGoRoom"
    /\ room' = RoomAfterCleanup
    /\ target' = "IDLE"
    /\ fsm' = "leave"
    /\ UNCHANGED <<next, current, busy, buffer, success, holder, startNext, transfer, gaveUp, failed,
                   overtaken, appVars>>

(* setNextFSMState does nothing without the lock.                          *)
FsmLeaves ==
    /\ fsm = "leave"
    /\ \/ FsmHolds /\ next' = target
       \/ FsmGivesUp /\ UNCHANGED next
    /\ fsm' = "read"
    /\ UNCHANGED <<current, busy, buffer, room, success, target, startNext, transfer, failed,
                   overtaken, appVars>>

-----------------------------------------------------------------------------
(* The main thread: DDTest's loop with startNewTransfer inside it.         *)
AppMoves(from, to) == app = from /\ app' = to

AppTests ==
    /\ AppMoves("test", IF startNext THEN "check" ELSE "sleep")
    /\ UNCHANGED <<next, buffer, room, holder, startNext, count, transfer, gaveUp, failed, overtaken,
                   fsmVars>>

FreeUnchecked == TRUE
Free == ~busy

AppChecks ==
    /\ AppMoves("check", IF Free THEN "giveBuffer" ELSE "sleep")
    /\ UNCHANGED <<next, buffer, room, holder, startNext, count, transfer, gaveUp, failed, overtaken,
                   fsmVars>>

AppGivesBuffer ==
    /\ AppMoves("giveBuffer", "giveRoom")
    /\ buffer' = count + 1
    /\ UNCHANGED <<next, room, holder, startNext, count, transfer, gaveUp, failed, overtaken, fsmVars>>

AppGivesRoom ==
    /\ AppMoves("giveRoom", "setNext")
    /\ room' = Frames
    /\ UNCHANGED <<next, buffer, holder, startNext, count, transfer, gaveUp, failed, overtaken, fsmVars>>

(* startNewTransfer returns true even if its setNextFSMState did nothing.  *)
AppSetsNext ==
    /\ AppMoves("setNext", "clear")
    /\ \/ /\ holder = "app" /\ holder' = "nobody"
          /\ next' = "REQUEST" /\ transfer' = "running"
          /\ UNCHANGED gaveUp
       \/ GivesUp("app") /\ transfer' = "lost" /\ UNCHANGED <<holder, next>>
    /\ UNCHANGED <<buffer, room, startNext, count, failed, overtaken, fsmVars>>

(* The flag is cleared after the call, whatever was notified meanwhile.    *)
AppClears ==
    /\ AppMoves("clear", "sleep")
    /\ count' = count + 1
    /\ startNext' = FALSE
    /\ overtaken' = (overtaken \/ transfer = "success")
    /\ UNCHANGED <<next, buffer, room, holder, transfer, gaveUp, failed, fsmVars>>

OneMoreToStart == count <= MaxTransfers
MoreToStart == count < MaxTransfers

(* After its last transfer DDTest destroys the joinable threads, and the   *)
(* process ends with whatever they are doing.                              *)
AppWakes ==
    /\ AppMoves("sleep", IF MoreToStart THEN "test" ELSE "ended")
    /\ UNCHANGED <<next, buffer, room, holder, startNext, count, transfer, gaveUp, failed, overtaken,
                   fsmVars>>

-----------------------------------------------------------------------------
FsmNext ==
    /\ app # "ended"
    /\ \/ FsmLocks
       \/ FsmReads \/ FsmEnters \/ FsmMarks
       \/ FsmIdles \/ FsmWorks \/ FsmStores
       \/ FsmNotifies \/ FsmLetsGoBuffer \/ FsmLetsGoRoom
       \/ FsmLeaves

AppNext ==
    \/ AppLocks
    \/ AppTests \/ AppChecks \/ AppGivesBuffer \/ AppGivesRoom
    \/ AppSetsNext \/ AppClears \/ AppWakes

Next == FsmNext \/ AppNext

Spec == Init /\ [][Next]_vars

(* clientTaskloop never stops calling FSMLoop, and sleep(10) returns.  A   *)
(* state's work comes to an end: run timers_live has when it does.         *)
Fairness == WF_vars(FsmNext) /\ WF_vars(AppNext)

FairSpec == Spec /\ Fairness

-----------------------------------------------------------------------------
(* A frame is stored only into the buffer of the call that is being        *)
(* carried out, never through the NULL pointer of the cleanup, even when   *)
(* lost locks run a transfer nobody waits for (DDClient.cpp:231-242,       *)
(* 338-342, 417-428).                                                      *)
Accepted == IF app = "clear" THEN count + 1 ELSE count

StoresIntoGiven ==
    fsm = "work" /\ current = "BLOCK" /\ room > 0 => buffer # 0 /\ buffer = Accepted

(* DDTest sleeps with its flag cleared only while the FSM has a transfer   *)
(* to carry out: with the FSM in IDLE it starts no other for ever.  What   *)
(* does leave it stuck is a failure (DDTest.cpp:216), a success notified   *)
(* before the flag of the transfer itself was cleared (DDTest.cpp:317), or *)
(* a lock given up by setNextFSMState in a startNewTransfer that still     *)
(* returned true (DDBase.cpp:279, DDClient.cpp:428).                       *)
SleepsForAReason ==
    app \in {"test", "sleep"} /\ ~startNext => next # "IDLE" \/ failed \/ overtaken \/ transfer = "lost"

(* A transfer that startNewTransfer accepted is notified, unless a lock    *)
(* was given up or DDTest ended the process first (DDTest.cpp:323-330).    *)
AcceptedIsNotified == transfer = "running" ~> transfer # "running" \/ gaveUp \/ app = "ended"

(* The notification stands for the whole of TERMINATE.                     *)
NextSeen ==
    IF fsm \in {"letGoBuffer", "letGoRoom"} \/ (fsm = "leave" /\ target = "IDLE") THEN "IDLE" ELSE next

Seen == INSTANCE HandshakeView WITH next <- NextSeen, excused <- gaveUp

(* The hand-over implements the single steps DDClient is written with.     *)
ImplementsHandshake == Seen!Spec
=============================================================================
