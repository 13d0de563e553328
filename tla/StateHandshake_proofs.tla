------------------------ MODULE StateHandshake_proofs ------------------------
(***************************************************************************)
(* StateHandshake for any number of transfers and any buffer: frames are   *)
(* stored into the right buffer and DDTest is never stuck without a        *)
(* reason, lock timeouts or not; without one the hand-over implements the  *)
(* coarser grain of DDClient.                                              *)
(***************************************************************************)
EXTENDS StateHandshake, TLAPS

(* The FSM thread is in its idle rounds.                                   *)
Idle == next = "IDLE" /\ current = "IDLE" /\ fsm \in {"read", "mark", "work"}

(* It is on its way there from a notification.                             *)
Returning ==
    /\ busy
    /\ current = "TERMINATE"
    /\ \/ /\ next = "TERMINATE"
          /\ \/ fsm \in {"letGoBuffer", "letGoRoom"}
             \/ fsm = "leave" /\ target = "IDLE"
       \/ next = "IDLE" /\ fsm \in {"read", "reread"}

Done == ~success /\ (Idle \/ Returning)

(* While the main thread is at nxt_mutex the FSM thread may be thrown into *)
(* TERMINATE, but no further.                                              *)
AtMostThrown ==
    /\ ~success
    /\ next = "IDLE"
    /\ current \in {"IDLE", "TERMINATE"}
    /\ fsm = "leave" => target = "IDLE"

(* A success is on its way to the notification.                            *)
Succeeding ==
    \/ fsm = "leave" /\ target = "TERMINATE"
    \/ /\ next = "TERMINATE"
       /\ fsm \in {"read", "reread"} \/ (fsm \in {"mark", "work"} /\ current = "TERMINATE")

(* Whose turn it is.                                                       *)
Turns ==
    /\ holder = "app" => app = "setNext"
    /\ app \in {"giveBuffer", "giveRoom"} => Idle /\ ~success
    /\ app = "check" => startNext /\ Done
    /\ app \in {"test", "sleep"} /\ startNext => Done
    /\ app = "setNext" => AtMostThrown
    /\ success => Succeeding
    /\ fsm = "work" /\ current # "IDLE" => busy

(* The buffer is that of the call in progress or of the last one.          *)
Given ==
    /\ app \in {"test", "check", "giveBuffer", "giveRoom", "setNext", "clear"} => count < MaxTransfers
    /\ buffer # 0 => buffer = IF app \in {"giveRoom", "setNext", "clear"} THEN count + 1 ELSE count
    /\ app = "giveRoom" => buffer # 0
    /\ room > 0 => buffer # 0 \/ fsm = "letGoRoom"

(* The FSM thread has told the outcome and not yet set IDLE.               *)
Notified == fsm \in {"letGoBuffer", "letGoRoom"} \/ (fsm = "leave" /\ target = "IDLE")

(* What is known of the last transfer: before a failure it runs only while *)
(* the next state is not IDLE, nor about to be.                            *)
Reasons ==
    /\ transfer = "failure" => failed
    /\ app = "clear" => transfer # "none"
    /\ app = "setNext" => ~Notified \/ failed
    /\ transfer = "running" => (next # "IDLE" /\ ~Notified) \/ failed
    /\ app \in {"test", "sleep"} /\ ~startNext => transfer \in {"running", "lost"} \/ failed \/ overtaken

IInv == TypeOK /\ Turns /\ Given /\ Reasons

Working == {"REQUEST", "RESPONSE", "INITIATE_BLOCK", "BLOCK"}

(* The states a working state leads to are states, and never IDLE.         *)
LEMMA SuccessorsKnown ==
    /\ DOMAIN Successors = Working
    /\ \A s \in Working : \A n \in Successors[s] : n \in FSMStates /\ n # "IDLE"
  <1>1. DOMAIN Successors = Working
    BY DEF Successors, Working
  <1>2. /\ Successors["REQUEST"] = {"RESPONSE", "TERMINATE"}
        /\ Successors["RESPONSE"] = {"INITIATE_BLOCK", "TERMINATE"}
        /\ Successors["INITIATE_BLOCK"] = {"BLOCK", "TERMINATE"}
        /\ Successors["BLOCK"] = {"BLOCK", "TERMINATE"}
    BY DEF Successors
  <1>3. QED
    BY <1>1, <1>2 DEF Working, FSMStates

LEMMA InitHolds == Init => IInv
  <1> SUFFICES ASSUME Init PROVE IInv
    OBVIOUS
  <1>1. TypeOK
    <2>1. 0 \in 0..MaxTransfers /\ 0 \in 0..Frames
      BY HandshakeAssumption
    <2>2. QED
      BY <2>1 DEF Init, TypeOK, FSMStates, Outcomes
  <1>2. Turns
    BY DEF Init, Turns, Idle, Done
  <1>3. Given /\ Reasons
    BY HandshakeAssumption DEF Init, Given, Reasons
  <1>4. QED
    BY <1>1, <1>2, <1>3 DEF IInv

LEMMA TypeStep == IInv /\ [Next]_vars => TypeOK'
  <1> SUFFICES ASSUME IInv, [Next]_vars PROVE TypeOK'
    OBVIOUS
  <1> USE HandshakeAssumption DEF IInv, TypeOK, Outcomes
  <1>1. CASE FsmNext
    <2> USE <1>1
    <2>1. CASE FsmLocks
      BY <2>1 DEF FsmLocks, fsmVars, appVars
    <2>2. CASE FsmReads
      <3>1. gaveUp' \in BOOLEAN /\ holder' \in {"nobody", "fsm", "app"}
        BY <2>2 DEF FsmReads, GetsNext, FsmHolds, FsmGivesUp, GivesUp
      <3>2. current' \in FSMStates /\ fsm' \in {"read", "reread", "mark"}
        BY <2>2 DEF FsmReads
      <3>3. QED
        BY <2>2, <3>1, <3>2 DEF FsmReads, appVars
    <2>3. CASE FsmEnters
      <3>1. gaveUp' \in BOOLEAN /\ holder' \in {"nobody", "fsm", "app"}
        BY <2>3 DEF FsmEnters, GetsNext, FsmHolds, FsmGivesUp, GivesUp
      <3>2. current' \in FSMStates /\ fsm' \in {"read", "reread", "mark"}
        BY <2>3 DEF FsmEnters
      <3>3. QED
        BY <2>3, <3>1, <3>2 DEF FsmEnters, appVars
    <2>4. CASE FsmMarks
      <3>1. busy' \in BOOLEAN /\ fsm' = "work"
        BY <2>4 DEF FsmMarks
      <3>2. QED
        BY <2>4, <3>1, ZenonT(40) DEF FsmMarks, appVars
    <2>5. CASE FsmIdles
      <3>1. busy' \in BOOLEAN /\ fsm' = "read"
        BY <2>5 DEF FsmIdles
      <3>2. QED
        BY <2>5, <3>1 DEF FsmIdles, appVars
    <2>6. CASE FsmWorks
      <3>1. target' \in FSMStates
        BY <2>6, SuccessorsKnown DEF FsmWorks, FSMStates
      <3>2. QED
        BY <2>6, <3>1 DEF FsmWorks, appVars
    <2>7. CASE FsmStores
      <3>1. target' \in FSMStates
        BY <2>7, SuccessorsKnown DEF FsmStores, Working
      <3>2. success' \in BOOLEAN
        BY <2>7 DEF FsmStores
      <3>3. QED
        BY <2>7, <3>1, <3>2 DEF FsmStores, appVars
    <2>8. CASE FsmNotifies
      BY <2>8 DEF FsmNotifies, FlagAfterNotify, appVars
    <2>9. CASE FsmLetsGoBuffer
      BY <2>9 DEF FsmLetsGoBuffer, appVars
    <2>10. CASE FsmLetsGoRoom
      BY <2>10 DEF FsmLetsGoRoom, RoomAfterCleanup, appVars, FSMStates
    <2>11. CASE FsmLeaves
      <3>1. gaveUp' \in BOOLEAN /\ holder' \in {"nobody", "fsm", "app"}
        BY <2>11 DEF FsmLeaves, FsmHolds, FsmGivesUp, GivesUp
      <3>2. next' \in FSMStates /\ fsm' = "read"
        BY <2>11 DEF FsmLeaves
      <3>3. QED
        BY <2>11, <3>1, <3>2 DEF FsmLeaves, appVars
    <2>12. QED
      BY <2>1, <2>2, <2>3, <2>4, <2>5, <2>6, <2>7, <2>8, <2>9, <2>10, <2>11 DEF FsmNext
  <1>2. CASE AppNext
    <2>1. CASE AppLocks
      BY <2>1 DEF AppLocks, fsmVars, appVars
    <2>2. CASE AppTests
      BY <2>2 DEF AppTests, AppMoves, fsmVars
    <2>3. CASE AppChecks
      BY <2>3 DEF AppChecks, AppMoves, fsmVars
    <2>4. CASE AppGivesBuffer
      BY <2>4 DEF AppGivesBuffer, AppMoves, fsmVars, Given
    <2>5. CASE AppGivesRoom
      BY <2>5 DEF AppGivesRoom, AppMoves, fsmVars
    <2>6. CASE AppSetsNext
      <3>1. /\ gaveUp' \in BOOLEAN /\ holder' \in {"nobody", "fsm", "app"}
            /\ next' \in FSMStates /\ transfer' \in {"running", "lost"}
        BY <2>6 DEF AppSetsNext, GivesUp, FSMStates
      <3>2. QED
        BY <2>6, <3>1 DEF AppSetsNext, AppMoves, fsmVars
    <2>7. CASE AppClears
      <3>1. overtaken' \in BOOLEAN
        BY <2>7 DEF AppClears
      <3>2. count' \in 0..MaxTransfers
        BY <2>7 DEF AppClears, AppMoves, Given
      <3>3. QED
        BY <2>7, <3>1, <3>2, ZenonT(40) DEF AppClears, AppMoves, fsmVars
    <2>8. CASE AppWakes
      BY <2>8 DEF AppWakes, AppMoves, fsmVars
    <2>9. QED
      BY <1>2, <2>1, <2>2, <2>3, <2>4, <2>5, <2>6, <2>7, <2>8 DEF AppNext
  <1>3. CASE UNCHANGED vars
    BY <1>3 DEF vars, fsmVars, appVars
  <1>4. QED
    BY <1>1, <1>2, <1>3 DEF Next

LEMMA GivenStep == IInv /\ [Next]_vars => Given'
  <1> SUFFICES ASSUME IInv, [Next]_vars PROVE Given'
    OBVIOUS
  <1> USE HandshakeAssumption DEF IInv, TypeOK, Given
  <1>1. CASE FsmNext
    <2>1. CASE FsmLocks \/ FsmMarks \/ FsmIdles \/ FsmWorks \/ FsmNotifies
      BY <2>1 DEF FsmLocks, FsmMarks, FsmIdles, FsmWorks, FsmNotifies, fsmVars, appVars
    <2>2. CASE FsmReads \/ FsmEnters \/ FsmLeaves
      BY <2>2 DEF FsmReads, FsmEnters, FsmLeaves, appVars
    <2>3. CASE FsmStores
      BY <2>3 DEF FsmStores, appVars
    <2>4. CASE FsmLetsGoBuffer
      BY <2>4 DEF FsmLetsGoBuffer, appVars, Turns, Idle
    <2>5. CASE FsmLetsGoRoom
      BY <2>5 DEF FsmLetsGoRoom, RoomAfterCleanup, appVars
    <2>6. QED
      BY <1>1, <2>1, <2>2, <2>3, <2>4, <2>5 DEF FsmNext
  <1>2. CASE AppNext
    <2>1. CASE AppLocks
      BY <2>1 DEF AppLocks, fsmVars, appVars
    <2>2. CASE AppTests \/ AppChecks
      BY <2>2 DEF AppTests, AppChecks, AppMoves, fsmVars
    <2>3. CASE AppGivesBuffer
      BY <2>3 DEF AppGivesBuffer, AppMoves, fsmVars
    <2>4. CASE AppGivesRoom
      BY <2>4 DEF AppGivesRoom, AppMoves, fsmVars
    <2>5. CASE AppSetsNext
      BY <2>5 DEF AppSetsNext, AppMoves, fsmVars
    <2>6. CASE AppClears
      BY <2>6 DEF AppClears, AppMoves, fsmVars
    <2>7. CASE AppWakes
      BY <2>7 DEF AppWakes, AppMoves, MoreToStart, fsmVars
    <2>8. QED
      BY <1>2, <2>1, <2>2, <2>3, <2>4, <2>5, <2>6, <2>7 DEF AppNext
  <1>3. CASE UNCHANGED vars
    BY <1>3 DEF vars, fsmVars, appVars
  <1>4. QED
    BY <1>1, <1>2, <1>3 DEF Next

LEMMA ReasonsStep == IInv /\ [Next]_vars => Reasons'
  <1> SUFFICES ASSUME IInv, [Next]_vars PROVE Reasons'
    OBVIOUS
  <1> USE DEF IInv, Reasons, Notified
  <1>1. CASE FsmNext
    <2>1. CASE FsmLocks \/ FsmMarks \/ FsmIdles
      BY <2>1 DEF FsmLocks, FsmMarks, FsmIdles, fsmVars, appVars
    <2>2. CASE FsmReads \/ FsmEnters
      BY <2>2 DEF FsmReads, FsmEnters, appVars
    <2>3. CASE FsmWorks
      <3>1. target' # "IDLE"
        BY <2>3, SuccessorsKnown DEF FsmWorks, Working
      <3>2. QED
        BY <2>3, <3>1 DEF FsmWorks, appVars
    <2>4. CASE FsmStores
      <3>1. target' # "IDLE"
        BY <2>4, SuccessorsKnown DEF FsmStores, Working
      <3>2. QED
        BY <2>4, <3>1 DEF FsmStores, appVars
    <2>5. CASE FsmNotifies
      <3>1. app = "setNext" => ~success
        BY DEF Turns, AtMostThrown
      <3>2. QED
        BY <2>5, <3>1 DEF FsmNotifies, FlagAfterNotify, appVars
    <2>6. CASE FsmLetsGoBuffer \/ FsmLetsGoRoom
      BY <2>6 DEF FsmLetsGoBuffer, FsmLetsGoRoom, appVars
    <2>7. CASE FsmLeaves
      <3>1. next' \in {next, target} /\ fsm = "leave" /\ fsm' = "read"
        BY <2>7 DEF FsmLeaves
      <3>2. QED
        BY <2>7, <3>1 DEF FsmLeaves, appVars
    <2>8. QED
      BY <1>1, <2>1, <2>2, <2>3, <2>4, <2>5, <2>6, <2>7 DEF FsmNext
  <1>2. CASE AppNext
    <2>1. CASE AppLocks
      BY <2>1 DEF AppLocks, fsmVars, appVars
    <2>2. CASE AppTests
      BY <2>2 DEF AppTests, AppMoves, fsmVars
    <2>3. CASE AppChecks
      BY <2>3 DEF AppChecks, AppMoves, Turns, fsmVars
    <2>4. CASE AppGivesBuffer
      BY <2>4 DEF AppGivesBuffer, AppMoves, fsmVars
    <2>5. CASE AppGivesRoom
      BY <2>5 DEF AppGivesRoom, AppMoves, Turns, Idle, fsmVars
    <2>6. CASE AppSetsNext
      <3>1. \/ next' = "REQUEST" /\ transfer' = "running"
            \/ transfer' = "lost"
        BY <2>6 DEF AppSetsNext
      <3>2. QED
        BY <2>6, <3>1 DEF AppSetsNext, AppMoves, fsmVars
    <2>7. CASE AppClears
      BY <2>7 DEF AppClears, AppMoves, TypeOK, Outcomes, fsmVars
    <2>8. CASE AppWakes
      BY <2>8 DEF AppWakes, AppMoves, fsmVars
    <2>9. QED
      BY <1>2, <2>1, <2>2, <2>3, <2>4, <2>5, <2>6, <2>7, <2>8 DEF AppNext
  <1>3. CASE UNCHANGED vars
    BY <1>3 DEF vars, fsmVars, appVars
  <1>4. QED
    BY <1>1, <1>2, <1>3 DEF Next

LEMMA TurnsStep == IInv /\ [Next]_vars => Turns'
  <1> SUFFICES ASSUME IInv, [Next]_vars PROVE Turns'
    OBVIOUS
  <1> USE DEF IInv, TypeOK, Turns, Idle, Done, Returning, AtMostThrown, Succeeding
  <1>1. CASE FsmNext
    <2>1. CASE FsmLocks
      BY <2>1 DEF FsmLocks, fsmVars, appVars
    <2>2. CASE FsmReads
      BY <2>2 DEF FsmReads, GetsNext, FsmHolds, FsmGivesUp, GivesUp, appVars
    <2>3. CASE FsmEnters
      BY <2>3 DEF FsmEnters, GetsNext, FsmHolds, FsmGivesUp, GivesUp, appVars
    <2>4. CASE FsmMarks
      BY <2>4 DEF FsmMarks, appVars
    <2>5. CASE FsmIdles
      BY <2>5 DEF FsmIdles, appVars
    <2>6. CASE FsmWorks
      BY <2>6, SuccessorsKnown DEF FsmWorks, appVars, Working
    <2>7. CASE FsmStores
      BY <2>7 DEF FsmStores, appVars
    <2>8. CASE FsmNotifies
      BY <2>8 DEF FsmNotifies, FlagAfterNotify, appVars
    <2>9. CASE FsmLetsGoBuffer
      BY <2>9 DEF FsmLetsGoBuffer, appVars
    <2>10. CASE FsmLetsGoRoom
      BY <2>10 DEF FsmLetsGoRoom, appVars
    <2>11. CASE FsmLeaves
      BY <2>11 DEF FsmLeaves, FsmHolds, FsmGivesUp, GivesUp, appVars
    <2>12. QED
      BY <1>1, <2>1, <2>2, <2>3, <2>4, <2>5, <2>6, <2>7, <2>8, <2>9, <2>10, <2>11 DEF FsmNext
  <1>2. CASE AppNext
    <2>1. CASE AppLocks
      BY <2>1 DEF AppLocks, AppWants, fsmVars, appVars
    <2>2. CASE AppTests
      BY <2>2 DEF AppTests, AppMoves, fsmVars
    <2>3. CASE AppChecks
      BY <2>3 DEF AppChecks, AppMoves, Free, fsmVars
    <2>4. CASE AppGivesBuffer
      BY <2>4 DEF AppGivesBuffer, AppMoves, fsmVars
    <2>5. CASE AppGivesRoom
      BY <2>5 DEF AppGivesRoom, AppMoves, fsmVars
    <2>6. CASE AppSetsNext
      BY <2>6 DEF AppSetsNext, AppMoves, GivesUp, fsmVars
    <2>7. CASE AppClears
      BY <2>7 DEF AppClears, AppMoves, fsmVars
    <2>8. CASE AppWakes
      BY <2>8 DEF AppWakes, AppMoves, fsmVars
    <2>9. QED
      BY <1>2, <2>1, <2>2, <2>3, <2>4, <2>5, <2>6, <2>7, <2>8 DEF AppNext
  <1>3. CASE UNCHANGED vars
    BY <1>3 DEF vars, fsmVars, appVars
  <1>4. QED
    BY <1>1, <1>2, <1>3 DEF Next

LEMMA IInvHolds == Spec => []IInv
  <1>1. IInv /\ [Next]_vars => IInv'
    BY TypeStep, TurnsStep, GivenStep, ReasonsStep DEF IInv
  <1>2. QED
    BY <1>1, InitHolds, PTL DEF Spec

(* Every variable of the hand-over has its type.                           *)
THEOREM HandshakeTyped == Spec => []TypeOK
  BY IInvHolds, PTL DEF IInv

(* A frame is stored only into the buffer of the accepted call, whatever   *)
(* locks are given up (DDClient.cpp:231-242).                              *)
THEOREM StoredIntoGiven == Spec => []StoresIntoGiven
  <1>1. IInv => StoresIntoGiven
    BY HandshakeAssumption DEF IInv, TypeOK, Turns, Given, Idle, AtMostThrown, StoresIntoGiven, Accepted
  <1>2. QED
    BY <1>1, IInvHolds, PTL

(* DDTest sleeps with its flag cleared only while the FSM has a transfer   *)
(* to carry out, after a failure, after a success that came too early, or  *)
(* after a startNewTransfer whose next state a lock lost (DDTest.cpp:309-  *)
(* 324, DDBase.cpp:279).                                                   *)
THEOREM StuckForAReason == Spec => []SleepsForAReason
  <1>1. IInv => SleepsForAReason
    BY DEF IInv, Reasons, SleepsForAReason
  <1>2. QED
    BY <1>1, IInvHolds, PTL

-----------------------------------------------------------------------------
(* Until a lock is given up: the main thread is at nxt_mutex only while    *)
(* the FSM thread idles, the FSM thread is in the next state or about to   *)
(* enter it, and a transfer runs exactly while that is not IDLE.           *)
HandedOver ==
    /\ app \in {"giveBuffer", "giveRoom", "setNext"} => Idle
    /\ fsm \in {"mark", "work"} => current = next \/ current = "IDLE"
    /\ Notified => current = "TERMINATE" /\ next = "TERMINATE"
    /\ fsm = "leave" /\ target # "IDLE" =>
          current = next /\ current \in DOMAIN Successors /\ target \in Successors[current]
    /\ transfer = "running" <=> NextSeen # "IDLE"

RInv == IInv /\ (~gaveUp => HandedOver)

(* Without a lock given up a step is one of the coarser grain or none.     *)
LEMMA HandOverStep ==
    ASSUME IInv, HandedOver, Next, ~gaveUp'
    PROVE  HandedOver' /\ [Seen!Next]_(Seen!vars)
  <1> USE DEF IInv, TypeOK, HandedOver, Notified, NextSeen, Idle
  <1>1. CASE FsmNext
    <2>1. CASE FsmLocks
      BY <2>1 DEF FsmLocks, fsmVars, appVars, Seen!vars
    <2>2. CASE FsmReads
      BY <2>2 DEF FsmReads, GetsNext, FsmHolds, FsmGivesUp, GivesUp, appVars, Seen!vars
    <2>3. CASE FsmEnters
      <3>1. current' = next /\ fsm' = "mark" /\ UNCHANGED <<next, transfer, gaveUp, app, target>>
        BY <2>3 DEF FsmEnters, GetsNext, FsmHolds, FsmGivesUp, GivesUp, appVars
      <3>2. HandedOver'
        BY <2>3, <3>1 DEF FsmEnters
      <3>3. [Seen!Next]_(Seen!vars)
        BY <2>3, <3>1 DEF FsmEnters, Seen!Next, Seen!Enter, Seen!vars
      <3>4. QED
        BY <3>2, <3>3
    <2>4. CASE FsmMarks \/ FsmIdles
      BY <2>4 DEF FsmMarks, FsmIdles, appVars, Seen!vars
    <2>5. CASE FsmWorks
      <3>1. current = next /\ current \in DOMAIN Successors /\ target' \in Successors[current]
        <4>1. current = next /\ current \in DOMAIN Successors
          BY <2>5, SuccessorsKnown DEF FsmWorks, Working
        <4>2. "TERMINATE" \in Successors["BLOCK"]
          BY DEF Successors
        <4>3. QED
          BY <2>5, <4>1, <4>2 DEF FsmWorks
      <3>2. target' # "IDLE"
        BY <3>1, SuccessorsKnown
      <3>3. fsm = "work" /\ fsm' = "leave" /\ UNCHANGED <<next, current, transfer, gaveUp, app>>
        BY <2>5 DEF FsmWorks, appVars
      <3>4. NextSeen = next /\ NextSeen' = next
        BY <3>2, <3>3
      <3>5. HandedOver'
        BY <3>1, <3>2, <3>3, <3>4, SuccessorsKnown DEF Working
      <3>6. QED
        BY <3>3, <3>4, <3>5 DEF Seen!vars
    <2>6. CASE FsmStores
      <3>1. current = next /\ current \in DOMAIN Successors /\ target' \in Successors[current]
        BY <2>6, SuccessorsKnown DEF FsmStores, Working
      <3>2. target' # "IDLE"
        BY <3>1, SuccessorsKnown
      <3>3. fsm = "work" /\ fsm' = "leave" /\ UNCHANGED <<next, current, transfer, gaveUp, app>>
        BY <2>6 DEF FsmStores, appVars
      <3>4. NextSeen = next /\ NextSeen' = next
        BY <3>2, <3>3
      <3>5. HandedOver'
        BY <3>1, <3>2, <3>3, <3>4, SuccessorsKnown DEF Working
      <3>6. QED
        BY <3>3, <3>4, <3>5 DEF Seen!vars
    <2>7. CASE FsmNotifies
      <3>1. current = "TERMINATE" /\ next = "TERMINATE" /\ fsm' = "letGoBuffer"
            /\ transfer' \in {"success", "failure"}
            /\ UNCHANGED <<current, next, gaveUp, app, target>>
        BY <2>7 DEF FsmNotifies, appVars
      <3>2. NextSeen' = "IDLE" /\ NextSeen = "TERMINATE" /\ transfer = "running"
        BY <2>7, <3>1 DEF FsmNotifies
      <3>3. HandedOver'
        BY <2>7, <3>1, <3>2 DEF FsmNotifies
      <3>4. [Seen!Next]_(Seen!vars)
        BY <3>1, <3>2 DEF Seen!Next, Seen!Notify
      <3>5. QED
        BY <3>3, <3>4
    <2>8. CASE FsmLetsGoBuffer \/ FsmLetsGoRoom
      BY <2>8 DEF FsmLetsGoBuffer, FsmLetsGoRoom, appVars, Seen!vars
    <2>9. CASE FsmLeaves
      <3>1. next' = target /\ fsm' = "read" /\ UNCHANGED <<current, transfer, gaveUp, app, target>>
        BY <2>9 DEF FsmLeaves, FsmHolds, FsmGivesUp, GivesUp, appVars
      <3>2. NextSeen' = target
        BY <3>1
      <3>3. CASE target = "IDLE"
        BY <2>9, <3>1, <3>2, <3>3 DEF FsmLeaves, Seen!vars
      <3>4. CASE target # "IDLE"
        <4>1. current = NextSeen /\ current \in DOMAIN Successors /\ NextSeen' \in Successors[current]
          BY <2>9, <3>1, <3>2, <3>4 DEF FsmLeaves
        <4>2. [Seen!Next]_(Seen!vars)
          BY <3>1, <4>1 DEF Seen!Next, Seen!Work
        <4>3. HandedOver'
          BY <2>9, <3>1, <3>2, <3>4, SuccessorsKnown DEF FsmLeaves, Working
        <4>4. QED
          BY <4>2, <4>3
      <3>5. QED
        BY <3>3, <3>4
    <2>10. QED
      BY <1>1, <2>1, <2>2, <2>3, <2>4, <2>5, <2>6, <2>7, <2>8, <2>9 DEF FsmNext
  <1>2. CASE AppNext
    <2>1. CASE AppLocks
      BY <2>1 DEF AppLocks, fsmVars, appVars, Seen!vars
    <2>2. CASE AppTests
      BY <2>2 DEF AppTests, AppMoves, fsmVars, Seen!vars
    <2>3. CASE AppChecks
      BY <2>3 DEF AppChecks, AppMoves, Free, Turns, Done, Returning, fsmVars, Seen!vars
    <2>4. CASE AppGivesBuffer \/ AppGivesRoom
      BY <2>4 DEF AppGivesBuffer, AppGivesRoom, AppMoves, fsmVars, Seen!vars
    <2>5. CASE AppSetsNext
      <3>1. next' = "REQUEST" /\ transfer' = "running" /\ app' = "clear"
            /\ UNCHANGED <<gaveUp, current, fsm, target>>
        BY <2>5 DEF AppSetsNext, AppMoves, GivesUp, fsmVars
      <3>2. Idle
        BY <2>5 DEF AppSetsNext, AppMoves
      <3>3. NextSeen = "IDLE" /\ NextSeen' = "REQUEST"
        BY <3>1, <3>2
      <3>4. HandedOver'
        BY <3>1, <3>2, <3>3
      <3>5. [Seen!Next]_(Seen!vars)
        BY <3>1, <3>2, <3>3 DEF Seen!Next, Seen!Start
      <3>6. QED
        BY <3>4, <3>5
    <2>6. CASE AppClears \/ AppWakes
      BY <2>6 DEF AppClears, AppWakes, AppMoves, fsmVars, Seen!vars
    <2>7. QED
      BY <1>2, <2>1, <2>2, <2>3, <2>4, <2>5, <2>6 DEF AppNext
  <1>3. QED
    BY <1>1, <1>2 DEF Next

(* A lock given up stays on record.                                        *)
LEMMA GaveUpStays ==
    ASSUME gaveUp, [Next]_vars
    PROVE  gaveUp'
  BY DEF Next, FsmNext, AppNext, FsmLocks, FsmReads, FsmEnters, FsmMarks, FsmIdles, FsmWorks, FsmStores,
     FsmNotifies, FsmLetsGoBuffer, FsmLetsGoRoom, FsmLeaves, AppLocks, AppTests, AppChecks,
     AppGivesBuffer, AppGivesRoom, AppSetsNext, AppClears, AppWakes, GetsNext, FsmHolds, FsmGivesUp,
     GivesUp, vars

(* Until a lock is given up the hand-over of a transfer, one access at a   *)
(* time, implements the single steps of DDClient (DDClient.cpp:14-44,      *)
(* 321-342, 403-431).                                                      *)
THEOREM HandshakeRefinement == Spec => ImplementsHandshake
  <1>1. Init => RInv /\ Seen!Init
    <2> SUFFICES ASSUME Init PROVE RInv /\ Seen!Init
      OBVIOUS
    <2>1. NextSeen = "IDLE"
      BY DEF Init, NextSeen
    <2>2. HandedOver
      BY <2>1 DEF Init, HandedOver, Notified
    <2>3. QED
      BY <2>1, <2>2, InitHolds DEF Init, RInv, Seen!Init
  <1>2. RInv /\ [Next]_vars => RInv' /\ [Seen!Next]_(Seen!vars)
    <2> SUFFICES ASSUME RInv, [Next]_vars PROVE RInv' /\ [Seen!Next]_(Seen!vars)
      OBVIOUS
    <2>1. IInv'
      BY TypeStep, TurnsStep, GivenStep, ReasonsStep DEF IInv, RInv
    <2>2. CASE gaveUp'
      BY <2>1, <2>2 DEF RInv, Seen!Next
    <2>3. CASE UNCHANGED vars
      BY <2>1, <2>3 DEF RInv, HandedOver, Notified, NextSeen, Idle, vars, fsmVars, appVars, Seen!vars
    <2>4. CASE Next /\ ~gaveUp'
      BY <2>1, <2>4, GaveUpStays, HandOverStep DEF RInv
    <2>5. QED
      BY <2>2, <2>3, <2>4
  <1>3. QED
    BY <1>1, <1>2, PTL DEF Spec, ImplementsHandshake, Seen!Spec
=============================================================================
