---------------------- MODULE RobotStateMachineProofs ----------------------
(***************************************************************************)
(* What the state machine of one robot guarantees for all orders, tasks,   *)
(* modes and battery levels and every retry limit.                         *)
(*                                                                         *)
(* The invariants of the machine hold only because of what its queue of    *)
(* triggers can hold: a transition has no guard on the keyword arguments   *)
(* or the active order of the trigger that fires it.  IInv adds that every *)
(* queued trigger is due (its arguments and the state are those its        *)
(* transition needs), and is preserved by one lemma per action.            *)
(***************************************************************************)
EXTENDS RobotStateMachine, TLAPS, SequenceTheorems

USE DEF Source, Loading, Target, Unloading, TrolleyError,
        Pick, AtPick, Deliver, AtTarget, PickError

\* A trigger that is queued is due: its keyword arguments and the state of the
\* machine are those its transition relies on.
Due(c) ==
    /\ c.name # "cancel_active_mission"
    /\ c.name = "process_warehouseorder" => c.who \in Orders /\ state \in FreeStates
    /\ c.name = "invalid_warehousetask" => active_wht # None
    /\ c.name \in {"mission_succeeded", "mission_failed"} =>
          mission = NoMission /\ (state = Deliver => active_wht # None)

\* The queue holds one trigger at most, behind the cancellation of a mission.
TriggersOK ==
    \/ triggers = <<>>
    \/ \E c \in TriggerCall :
          /\ Due(c)
          /\ triggers \in {<<c>>, <<Call("cancel_active_mission"), c>>}

\* A delivery without a task has no mission either: it waits.
DeliveryOK ==
    state = Deliver /\ active_wht = None => mission = NoMission /\ triggers = <<>>

\* The inductive invariant.
IInv == TypeOK /\ NoContextLoss /\ TriggersOK /\ DeliveryOK

-----------------------------------------------------------------------------
(* Lemmas about the operators of the machine.                              *)

\* The triggers of the transition table.
LEMMA TriggerNamesDef ==
    TriggerNames = {"start_fresh_machine", "go_staging", "staging_timeout",
        "too_many_failed_whos", "charge_battery", "charging_canceled", "recover_robot",
        "process_warehouseorder", "mission_docking", "mission_succeeded",
        "mission_failed", "warehouseorder_aborted", "invalid_warehousetask",
        "warehouseorder_confirmed", "pickpackpass_who_with_tasks", "cancel_active_mission",
        "create_staging_mission", "create_charge_mission",
        "create_get_trolley_mission", "create_return_trolley_mission",
        "create_move_mission"}
BY DEF TriggerNames, Sources

\* Where the two triggers named here have transitions.
LEMMA SourcesOf ==
    /\ Sources["process_warehouseorder"] = IdleStates \cup
          {"charging", "movingToStaging", Unloading, AtTarget}
    /\ Sources["warehouseorder_aborted"] = {Source, Pick}
BY DEF Sources

\* A trigger called without arguments.
LEMMA CallType ==
    ASSUME NEW name \in TriggerNames
    PROVE  Call(name) \in TriggerCall
BY DEF Call, TriggerCall

\* confirm_wht keeps the type of an order's CR.
LEMMA ConfirmType ==
    ASSUME NEW c \in OrderCR, NEW seen \in OrderCR, NEW t \in Tasks,
           NEW number \in {"FIRST", "SECOND"}, NEW type \in {"SUCCESS", "ERROR"}
    PROVE  Confirm(c, seen, t, number, type) \in OrderCR
BY DEF Confirm, OrderCR, Confirmations

\* The finalizer calls keep the type of an order's CR.
LEMMA FinalizerType ==
    ASSUME NEW c \in OrderCR, NEW seen \in OrderCR
    PROVE  Add_finalizer(c, seen) \in OrderCR /\ Remove_finalizer(c, seen) \in OrderCR
BY DEF Add_finalizer, Remove_finalizer, OrderCR, MaxFinalizers

\* What _decide_whats_next may call, whatever the queue.
LEMMA DecideType ==
    ASSUME NEW q, DOMAIN q \subseteq Orders, q \in [DOMAIN q -> SUBSET Tasks],
           NEW f, NEW calls \in Decide_whats_next(q, f)
    PROVE  \/ calls = <<>>
           \/ calls = <<Call("charge_battery")>>
           \/ calls = <<Call("too_many_failed_whos")>>
           \/ \E w \in DOMAIN q : calls = <<CallWith("process_warehouseorder", w, q[w])>>
BY DEF Decide_whats_next

\* A trigger being processed, other than a cancellation, is due and the last one.
LEMMA HeadDue ==
    ASSUME TriggersOK, triggers # <<>>, Head(triggers).name # "cancel_active_mission"
    PROVE  /\ Head(triggers) \in TriggerCall /\ Due(Head(triggers))
           /\ triggers = <<Head(triggers)>> /\ Tail(triggers) = <<>>
<1>1. PICK c \in TriggerCall :
         /\ Due(c)
         /\ triggers \in {<<c>>, <<Call("cancel_active_mission"), c>>}
  BY DEF TriggersOK
<1>2. triggers # <<Call("cancel_active_mission"), c>>
  BY DEF Call
<1>3. triggers = <<c>>
  BY <1>1, <1>2
<1>4. Head(triggers) = c /\ Tail(triggers) = <<>>
  BY <1>3
<1> QED BY <1>1, <1>3, <1>4

\* The last trigger calls no other one.
LEMMA ThenNone ==
    ASSUME Tail(triggers) = <<>>, Then(<<>>)
    PROVE  triggers' = <<>>
BY DEF Then

\* The last trigger calls one other.
LEMMA ThenCall ==
    ASSUME Tail(triggers) = <<>>, NEW c \in TriggerCall, Then(<<c>>)
    PROVE  triggers' = <<c>>
<1>1. <<>> \o <<c>> = <<c>>
  OBVIOUS
<1> QED BY <1>1 DEF Then

\* An empty queue of triggers is in order.
LEMMA NoneLeft ==
    ASSUME triggers' = <<>>
    PROVE  triggers' \in Seq(TriggerCall) /\ TriggersOK'
BY DEF TriggersOK

\* A queue of one due trigger is in order.
LEMMA OneLeft ==
    ASSUME NEW c \in TriggerCall, triggers' = <<c>>, Due(c)'
    PROVE  triggers' \in Seq(TriggerCall) /\ TriggersOK'
BY DEF TriggersOK

\* A transition resets counts only, so they stay within their bound.
LEMMA GotoType ==
    ASSUME StateTypeOK, NEW dest \in States, Goto(dest)
    PROVE  state' = dest /\ error_count' \in [States -> 0..MaxRetry]
BY ParameterAssumption DEF StateTypeOK, Goto

\* The parts of the type invariant depend on their own variables only.
LEMMA Frames ==
    /\ UNCHANGED activeVars => (ActiveTypeOK' <=> ActiveTypeOK)
    /\ UNCHANGED queueVars => (QueueTypeOK' <=> QueueTypeOK)
    /\ UNCHANGED missionVars => (MissionTypeOK' <=> MissionTypeOK)
    /\ UNCHANGED envVars => (EnvTypeOK' <=> EnvTypeOK)
BY DEF activeVars, queueVars, missionVars, envVars,
       ActiveTypeOK, QueueTypeOK, MissionTypeOK, EnvTypeOK

\* A transition that leaves the orders, the missions and the environment alone.
LEMMA QuietType ==
    ASSUME TypeOK, state' \in States, error_count' \in [States -> 0..MaxRetry],
           triggers' \in Seq(TriggerCall), cr' \in [Orders -> OrderCR],
           UNCHANGED <<activeVars, frameVars>>
    PROVE  TypeOK'
BY Frames DEF TypeOK, StateTypeOK, frameVars

\* Closing the active order.
LEMMA CloseWhoType ==
    ASSUME TypeOK, NEW c \in OrderCR, Close_active_who(c)
    PROVE  QueueTypeOK' /\ cr' \in [Orders -> OrderCR]
<1>1. QueueTypeOK'
  BY DEF TypeOK, QueueTypeOK, Close_active_who, Without
<1>2. CASE active_who \in Orders
  BY <1>1, <1>2, FinalizerType DEF TypeOK, EnvTypeOK, Close_active_who
<1>3. CASE active_who \notin Orders
  BY <1>1, <1>3 DEF TypeOK, Close_active_who
<1> QED BY <1>1, <1>2, <1>3

\* Closing the active task.
LEMMA CloseWhtType ==
    ASSUME TypeOK, Close_active_wht
    PROVE  QueueTypeOK' /\ who_tasks' \in SUBSET Tasks
BY DEF TypeOK, ActiveTypeOK, QueueTypeOK, Close_active_wht

\* A confirmation sent with an order and a task at hand.
LEMMA SendType ==
    ASSUME TypeOK, active_who \in Orders, active_wht # None,
           NEW number \in {"FIRST", "SECOND"}, NEW type \in {"SUCCESS", "ERROR"}
    PROVE  /\ Confirm(cr[active_who], cache[active_who], active_wht, number, type) \in OrderCR
           /\ Send_confirmation(number, type) => cr' \in [Orders -> OrderCR]
<1>1. active_wht \in Tasks /\ cr[active_who] \in OrderCR /\ cache[active_who] \in OrderCR
  BY DEF TypeOK, EnvTypeOK, ActiveTypeOK
<1>2. Confirm(cr[active_who], cache[active_who], active_wht, number, type) \in OrderCR
  BY <1>1, ConfirmType
<1> QED BY <1>2 DEF TypeOK, Send_confirmation

\* What the machine decides to do next is due where it decides.
LEMMA DecisionDue ==
    ASSUME Tail(triggers) = <<>>, NEW q, DOMAIN q \subseteq Orders,
           q \in [DOMAIN q -> SUBSET Tasks], NEW f, NEW calls \in Decide_whats_next(q, f),
           Then(calls), state' \in FreeStates
    PROVE  triggers' \in Seq(TriggerCall) /\ TriggersOK'
<1>1. \/ calls = <<>>
      \/ calls = <<Call("charge_battery")>>
      \/ calls = <<Call("too_many_failed_whos")>>
      \/ \E w \in DOMAIN q : calls = <<CallWith("process_warehouseorder", w, q[w])>>
  BY DecideType
<1>2. CASE calls = <<>>
  BY <1>2, ThenNone, NoneLeft
<1>3. CASE calls = <<Call("charge_battery")>> \/ calls = <<Call("too_many_failed_whos")>>
  BY <1>3, ThenCall, OneLeft, CallType, TriggerNamesDef DEF Due, Call
<1>4. ASSUME NEW w \in DOMAIN q, calls = <<CallWith("process_warehouseorder", w, q[w])>>
      PROVE  triggers' \in Seq(TriggerCall) /\ TriggersOK'
  <2>1. CallWith("process_warehouseorder", w, q[w]) \in TriggerCall
    BY TriggerNamesDef DEF CallWith, TriggerCall
  <2>2. Due(CallWith("process_warehouseorder", w, q[w]))'
    BY DEF Due, CallWith
  <2> QED BY <1>4, <2>1, <2>2, ThenCall, OneLeft
<1> QED BY <1>1, <1>2, <1>3, <1>4

\* Entering idle.
LEMMA IdleEntered ==
    ASSUME Tail(triggers) = <<>>, QueueTypeOK', state' = "idle", EnterIdle
    PROVE  /\ ActiveTypeOK' /\ NoContextLoss' /\ DeliveryOK'
           /\ triggers' \in Seq(TriggerCall) /\ TriggersOK'
<1>1. ActiveTypeOK' /\ NoContextLoss' /\ DeliveryOK'
  BY DEF EnterIdle, No_active_work, ActiveTypeOK, NoContextLoss, DeliveryOK,
         FreeStates, TrolleyStates, PickStates, IdleStates
<1>2. PICK q : q = warehouseorders'
  OBVIOUS
<1>3. PICK f : f = failed_warehouseorders'
  OBVIOUS
<1>4. PICK calls \in Decide_whats_next(q, f) : Then(calls)
  BY <1>2, <1>3 DEF EnterIdle
<1>5. DOMAIN q \subseteq Orders /\ q \in [DOMAIN q -> SUBSET Tasks]
  BY <1>2 DEF QueueTypeOK
<1>6. triggers' \in Seq(TriggerCall) /\ TriggersOK'
  BY <1>4, <1>5, DecisionDue DEF FreeStates, IdleStates
<1> QED BY <1>1, <1>6

-----------------------------------------------------------------------------
(* The steps of the machine.                                               *)

USE DEF FreeStates, IdleStates, TrolleyStates, PickStates, States

\* A retry stays within the bound of the count.
LEMMA RetryType ==
    ASSUME StateTypeOK, ~Max_mission_errors_reached, Increase_mission_errorcount
    PROVE  error_count' \in [States -> 0..MaxRetry]
BY ParameterAssumption
   DEF StateTypeOK, Max_mission_errors_reached, Increase_mission_errorcount

\* The count of failed orders stays within its bound.
LEMMA FailedType ==
    ASSUME StateTypeOK,
           \/ failed_warehouseorders' \in {0, failed_warehouseorders}
           \/ Log_warehouse_order_fail
    PROVE  failed_warehouseorders' \in 0..(MaxFailedOrders + 1)
<1>1. /\ MaxFailedOrders \in Nat /\ failed_warehouseorders \in Int
      /\ 0 <= failed_warehouseorders /\ failed_warehouseorders <= MaxFailedOrders + 1
  BY ParameterAssumption DEF StateTypeOK
<1>2. /\ failed_warehouseorders' \in Int
      /\ 0 <= failed_warehouseorders' /\ failed_warehouseorders' <= MaxFailedOrders + 1
  BY <1>1 DEF Log_warehouse_order_fail
<1> QED BY <1>1, <1>2

\* Setting off: a new mission, nothing else.
LEMMA SetOffStep ==
    ASSUME IInv, Go_staging \/ Charge_battery \/ Recover_trolley_robot
    PROVE  IInv'
<1>1. Tail(triggers) = <<>>
  BY HeadDue DEF IInv, Go_staging, Charge_battery, Recover_trolley_robot, Trigger
<1>2. PICK name \in {"create_staging_mission", "create_charge_mission",
                     "create_return_trolley_mission"} : triggers' = <<Call(name)>>
  BY <1>1, ThenCall, CallType, TriggerNamesDef
     DEF Go_staging, Charge_battery, Recover_trolley_robot
<1>3. triggers' \in Seq(TriggerCall) /\ TriggersOK'
  BY <1>2, OneLeft, CallType, TriggerNamesDef DEF Due, Call
<1>4. TypeOK'
  BY <1>3, GotoType, QuietType DEF IInv, TypeOK, Go_staging, Charge_battery, Recover_trolley_robot
<1>5. NoContextLoss' /\ DeliveryOK'
  BY DEF IInv, NoContextLoss, DeliveryOK, Goto, Go_staging, Charge_battery,
         Recover_trolley_robot, activeVars
<1> QED BY <1>3, <1>4, <1>5 DEF IInv

\* At the staging area: what is decided there is due.
LEMMA EnterStagingStep == ASSUME IInv, EnterStaging PROVE IInv'
<1>1. Tail(triggers) = <<>> /\ state' = "atStaging"
  BY HeadDue DEF IInv, EnterStaging, Trigger, Goto
<1>2. PICK calls \in Decide_whats_next(warehouseorders, failed_warehouseorders) :
         Then(calls)
  BY DEF EnterStaging
<1>3. triggers' \in Seq(TriggerCall) /\ TriggersOK'
  BY <1>1, <1>2, DecisionDue DEF IInv, TypeOK, QueueTypeOK
<1>4. TypeOK'
  BY <1>3, GotoType, QuietType DEF IInv, TypeOK, EnterStaging
<1>5. NoContextLoss' /\ DeliveryOK'
  BY <1>1 DEF IInv, NoContextLoss, DeliveryOK, EnterStaging, activeVars
<1> QED BY <1>3, <1>4, <1>5 DEF IInv

\* Giving up after too many failed orders.
LEMMA TooManyFailedStep == ASSUME IInv, Too_many_failed_whos PROVE IInv'
<1>1. triggers' = <<Call("create_staging_mission")>>
  BY HeadDue, ThenCall, CallType, TriggerNamesDef DEF IInv, Too_many_failed_whos, Trigger
<1>2. triggers' \in Seq(TriggerCall) /\ TriggersOK'
  BY <1>1, OneLeft, CallType, TriggerNamesDef DEF Due, Call
<1>3. TypeOK'
  BY <1>2, GotoType, Frames, ParameterAssumption
     DEF IInv, TypeOK, StateTypeOK, Too_many_failed_whos, orderVars
<1>4. NoContextLoss' /\ DeliveryOK'
  BY DEF IInv, NoContextLoss, DeliveryOK, Goto, Too_many_failed_whos, orderVars,
         activeVars
<1> QED BY <1>2, <1>3, <1>4 DEF IInv

\* A failed mission of a free robot is retried within the bound.
LEMMA FreeRetryStep == ASSUME IInv, Free_mission_retry PROVE IInv'
<1>1. PICK name \in {"create_staging_mission", "create_charge_mission"} :
         triggers' = <<Call(name)>>
  BY HeadDue, ThenCall, CallType, TriggerNamesDef DEF IInv, Free_mission_retry, Trigger
<1>2. triggers' \in Seq(TriggerCall) /\ TriggersOK'
  BY <1>1, OneLeft, CallType, TriggerNamesDef DEF Due, Call
<1>3. StateTypeOK'
  <2>1. error_count' \in [States -> 0..MaxRetry]
    BY RetryType DEF IInv, TypeOK, Free_mission_retry
  <2>2. failed_warehouseorders' = 0 \/ failed_warehouseorders' = failed_warehouseorders
    BY DEF Free_mission_retry
  <2>3. failed_warehouseorders' \in 0..(MaxFailedOrders + 1)
    BY <2>2, FailedType DEF IInv, TypeOK
  <2> QED BY <2>1, <2>3 DEF IInv, TypeOK, StateTypeOK, Free_mission_retry
<1>4. TypeOK'
  BY <1>2, <1>3, Frames DEF IInv, TypeOK, Free_mission_retry, orderVars
<1>5. NoContextLoss' /\ DeliveryOK'
  BY DEF IInv, NoContextLoss, DeliveryOK, Free_mission_retry, orderVars, activeVars
<1> QED BY <1>2, <1>4, <1>5 DEF IInv

\* A trolley not yet returned: one more mission, within the bound.
LEMMA ReturnRetryStep == ASSUME IInv, Return_trolley_retry PROVE IInv'
<1>1. triggers' = <<Call("create_return_trolley_mission")>>
  BY HeadDue, ThenCall, CallType, TriggerNamesDef DEF IInv, Return_trolley_retry, Trigger
<1>2. triggers' \in Seq(TriggerCall) /\ TriggersOK'
  BY <1>1, OneLeft, CallType, TriggerNamesDef DEF Due, Call
<1>3. TypeOK'
  BY <1>2, RetryType, QuietType DEF IInv, TypeOK, Return_trolley_retry
<1>4. NoContextLoss' /\ DeliveryOK'
  BY DEF IInv, NoContextLoss, DeliveryOK, Return_trolley_retry, activeVars
<1> QED BY <1>2, <1>3, <1>4 DEF IInv

\* Back to idle from the states without an order.
LEMMA BackToIdleStep ==
    ASSUME IInv,
           Start_fresh_machine \/ Charging_ends \/ Free_mission_given_up \/ Recover_free_robot
    PROVE  IInv'
<1>1. Tail(triggers) = <<>>
  BY HeadDue DEF IInv, Trigger, Start_fresh_machine, Charging_ends, Free_mission_given_up,
     Recover_free_robot
<1>2. /\ state' = "idle" /\ error_count' \in [States -> 0..MaxRetry]
      /\ EnterIdle /\ QueueTypeOK' /\ MissionTypeOK' /\ EnvTypeOK'
      /\ UNCHANGED <<failed_warehouseorders, cr>>
  BY GotoType, Frames
     DEF IInv, TypeOK, StateTypeOK, frameVars, countVars, Start_fresh_machine, Charging_ends,
         Free_mission_given_up, Recover_free_robot
<1>3. /\ ActiveTypeOK' /\ NoContextLoss' /\ DeliveryOK'
      /\ triggers' \in Seq(TriggerCall) /\ TriggersOK'
  BY <1>1, <1>2, IdleEntered
<1> QED BY <1>2, <1>3 DEF IInv, TypeOK, StateTypeOK

\* A trigger without effect.
LEMMA NoEffectStep ==
    ASSUME IInv, Error_mission_over \/ Refused
    PROVE  IInv'
<1>1. triggers # <<>> /\ UNCHANGED otherVars
  BY DEF Error_mission_over, Refused, Trigger
<1>2. Head(triggers).name # "cancel_active_mission"
  BY DEF IInv, TypeOK, StateTypeOK, Error_mission_over, Refused,
         Trigger, Sources
<1>3. triggers' = <<>>
  BY <1>1, <1>2, HeadDue, ThenNone DEF IInv, Error_mission_over, Refused
<1>4. TypeOK' /\ TriggersOK'
  BY <1>1, <1>3, NoneLeft, Frames
     DEF IInv, TypeOK, StateTypeOK, otherVars, orderVars, countVars
<1>5. ~(state = Source /\ active_wht = None)
  BY SourcesOf DEF IInv, NoContextLoss, Error_mission_over, Refused,
         Trigger, Call
<1>6. NoContextLoss' /\ DeliveryOK'
  BY <1>1, <1>3, <1>5 DEF IInv, NoContextLoss, DeliveryOK, otherVars, orderVars,
         activeVars, missionVars
<1> QED BY <1>4, <1>6 DEF IInv

\* Cancelling a mission leaves the trigger behind it due.
LEMMA CancelStep == ASSUME IInv, Cancel_active_mission PROVE IInv'
<1>1. PICK c \in TriggerCall : Due(c) /\ triggers = <<Call("cancel_active_mission"), c>>
  BY DEF IInv, TriggersOK, Due, Cancel_active_mission, Trigger
<1>2. triggers' = <<c>> /\ mission' = NoMission
  BY <1>1 DEF Cancel_active_mission, Then
<1>3. Due(c)'
  BY <1>1, <1>2
     DEF Due, IInv, Cancel_active_mission, orderVars, activeVars, DeliveryOK
<1>4. triggers' \in Seq(TriggerCall) /\ TriggersOK'
  BY <1>2, <1>3, OneLeft
<1>5. MissionTypeOK'
  BY <1>2 DEF IInv, TypeOK, MissionTypeOK, Cancel_active_mission, Mission, NoMission
<1>6. TypeOK'
  BY <1>4, <1>5, Frames DEF IInv, TypeOK, StateTypeOK, Cancel_active_mission, orderVars, countVars
<1>7. triggers # <<>> /\ triggers # <<Call("warehouseorder_aborted")>>
  BY <1>1 DEF Call
<1>8. NoContextLoss' /\ DeliveryOK'
  BY <1>7 DEF IInv, NoContextLoss, DeliveryOK, Cancel_active_mission, orderVars,
     activeVars
<1> QED BY <1>4, <1>6, <1>8 DEF IInv

\* A mission created, or one overwritten.
LEMMA CreateStep == ASSUME IInv, Create_mission PROVE IInv'
<1>1. /\ triggers # <<>>
      /\ Head(triggers).name \in {"create_staging_mission", "create_charge_mission",
            "create_get_trolley_mission", "create_return_trolley_mission",
            "create_move_mission"}
  BY DEF Create_mission, CreateMission
<1>2. triggers' = <<>>
  BY <1>1, HeadDue, ThenNone DEF IInv, Create_mission
<1>3. CreateMission[Head(triggers).name] \in MissionKinds
  BY <1>1 DEF CreateMission, MissionKinds
<1>4. MissionTypeOK'
  BY <1>3 DEF IInv, TypeOK, MissionTypeOK, Create_mission, Mission, NoMission
<1>5. TypeOK' /\ TriggersOK'
  BY <1>2, <1>4, NoneLeft, Frames
     DEF IInv, TypeOK, StateTypeOK, Create_mission, orderVars, countVars
<1>6. NoContextLoss' /\ DeliveryOK'
  BY <1>1 DEF IInv, NoContextLoss, DeliveryOK, Create_mission, orderVars, activeVars, Call
<1> QED BY <1>5, <1>6 DEF IInv

\* The triggers called when the way to a source bin starts.
LEMMA SourceEntered ==
    ASSUME Tail(triggers) = <<>>, NEW ts \in SUBSET Tasks, EnterSource(ts), state' = Source
    PROVE  /\ active_wht' \in Tasks \cup {None}
           /\ active_wht' = None => triggers' = <<Call("warehouseorder_aborted")>>
           /\ triggers' \in Seq(TriggerCall) /\ TriggersOK'
<1>1. CASE ts = {} /\ active_wht' = None /\ Then(<<Call("warehouseorder_aborted")>>)
  BY <1>1, ThenCall, OneLeft, CallType, TriggerNamesDef DEF Due, Call
<1>2. ASSUME NEW name \in {"invalid_warehousetask", "create_get_trolley_mission"},
             active_wht' \in Tasks, Then(<<Call(name)>>)
      PROVE  /\ active_wht' # None
             /\ triggers' \in Seq(TriggerCall) /\ TriggersOK'
  BY <1>2, ThenCall, OneLeft, CallType, TriggerNamesDef, OrdersAssumption DEF Due, Call
<1> QED BY <1>1, <1>2 DEF EnterSource

\* The triggers called when the way to a pick starts.
LEMMA PickEntered ==
    ASSUME Tail(triggers) = <<>>, EnterPick
    PROVE  /\ active_wht' = None
           /\ triggers' \in Seq(TriggerCall) /\ TriggersOK'
BY ThenNone, NoneLeft DEF EnterPick

\* The triggers called when a delivery starts.
LEMMA DeliverEntered ==
    ASSUME Tail(triggers) = <<>>, NEW ts \in SUBSET Tasks, EnterDeliver(ts)
    PROVE  /\ active_wht' \in Tasks \cup {None}
           /\ ts # {} => active_wht' # None
           /\ active_wht' = None => triggers' = <<>>
           /\ triggers' \in Seq(TriggerCall) /\ TriggersOK'
<1>1. CASE ts = {} /\ active_wht' = None /\ Then(<<>>)
  BY <1>1, ThenNone, NoneLeft
<1>2. ASSUME NEW name \in {"invalid_warehousetask", "create_move_mission"},
             active_wht' \in Tasks, Then(<<Call(name)>>)
      PROVE  /\ active_wht' # None
             /\ triggers' \in Seq(TriggerCall) /\ TriggersOK'
  BY <1>2, ThenCall, OneLeft, CallType, TriggerNamesDef, OrdersAssumption DEF Due, Call
<1> QED BY <1>1, <1>2 DEF EnterDeliver

\* An order is started: only a free robot has this trigger queued.
LEMMA ProcessStep == ASSUME IInv, Process_warehouseorder PROVE IInv'
<1> DEFINE w == Head(triggers).who
           ts == Head(triggers).tasks
<1>1. /\ Tail(triggers) = <<>> /\ w \in Orders /\ ts \in SUBSET Tasks
      /\ state \in FreeStates
  BY HeadDue DEF IInv, Due, TriggerCall, Process_warehouseorder, Trigger
<1>2. active_who = None /\ active_wht = None
  BY <1>1 DEF IInv, NoContextLoss
<1>3. /\ active_who' = w /\ who_tasks' = ts /\ UNCHANGED <<frameVars>>
      /\ cr' = [cr EXCEPT ![w] = Add_finalizer(@, cache[w])]
  BY DEF Process_warehouseorder
<1>4. cr' \in [Orders -> OrderCR]
  BY <1>1, <1>3, FinalizerType DEF IInv, TypeOK, EnvTypeOK
<1>5. \/ w \in PickOrders /\ Goto(Pick) /\ EnterPick
      \/ w \notin PickOrders /\ Goto(Source) /\ EnterSource(ts)
  BY <1>2 DEF Process_warehouseorder
<1>6. /\ active_wht' \in Tasks \cup {None}
      /\ state' = Source /\ active_wht' = None =>
            triggers' = <<Call("warehouseorder_aborted")>>
      /\ state' = Pick => active_wht' = None
      /\ triggers' \in Seq(TriggerCall) /\ TriggersOK'
      /\ error_count' \in [States -> 0..MaxRetry]
  BY <1>1, <1>5, SourceEntered, PickEntered, GotoType DEF IInv, TypeOK, Goto
<1>7. TypeOK'
  BY <1>1, <1>3, <1>4, <1>5, <1>6, Frames
     DEF IInv, TypeOK, StateTypeOK, ActiveTypeOK, frameVars, Goto
<1>8. NoContextLoss' /\ DeliveryOK'
  BY <1>1, <1>3, <1>5, <1>6 DEF NoContextLoss, DeliveryOK, Goto
<1> QED BY <1>6, <1>7, <1>8 DEF IInv

\* An order of a moveTrolley process is closed: failed, or completed.
LEMMA TrolleyClosedStep ==
    ASSUME IInv,
           \/ Trolley_order_aborted \/ Trolley_invalid_task \/ Trolley_not_loaded
           \/ Trolley_order_completed \/ Trolley_order_confirmed
    PROVE  IInv'
<1>1. Tail(triggers) = <<>> /\ active_who \in Orders
  BY HeadDue DEF IInv, NoContextLoss, Trigger, Trolley_order_aborted, Trolley_invalid_task,
     Trolley_not_loaded, Trolley_order_completed, Trolley_order_confirmed
<1>2. \/ Trolley_invalid_task \/ Trolley_not_loaded \/ Trolley_order_completed
      => active_wht # None
  BY <1>1 DEF IInv, NoContextLoss, Trigger, Call, Trolley_invalid_task, Trolley_not_loaded,
     Trolley_order_completed
<1>3. PICK c \in OrderCR : Close_active_who(c)
  <2>1. cr[active_who] \in OrderCR
    BY <1>1 DEF IInv, TypeOK
  <2> QED BY <1>1, <1>2, <2>1, SendType DEF IInv, Trolley_order_failed, First_error,
          Trolley_order_aborted, Trolley_invalid_task, Trolley_not_loaded,
          Trolley_order_completed, Trolley_order_confirmed
<1>4. QueueTypeOK' /\ cr' \in [Orders -> OrderCR]
  BY <1>3, CloseWhoType DEF IInv
<1>5. /\ state' = "idle" /\ error_count' \in [States -> 0..MaxRetry] /\ EnterIdle
      /\ UNCHANGED <<missionVars, envVars>>
      /\ Log_warehouse_order_fail \/ failed_warehouseorders' = 0
  BY GotoType DEF IInv, TypeOK, StateTypeOK, Trolley_order_failed, Trolley_order_aborted,
     Trolley_invalid_task, Trolley_not_loaded, Trolley_order_completed, Trolley_order_confirmed
<1>6. failed_warehouseorders' \in 0..(MaxFailedOrders + 1)
  BY <1>5, FailedType DEF IInv, TypeOK
<1>7. /\ ActiveTypeOK' /\ NoContextLoss' /\ DeliveryOK'
      /\ triggers' \in Seq(TriggerCall) /\ TriggersOK'
  BY <1>1, <1>4, <1>5, IdleEntered
<1> QED BY <1>4, <1>5, <1>6, <1>7, Frames DEF IInv, TypeOK, StateTypeOK

\* A trolley not yet loaded: one more mission, within the bound.
LEMMA GetRetryStep == ASSUME IInv, Get_trolley_retry PROVE IInv'
<1>1. Tail(triggers) = <<>> /\ who_tasks \in SUBSET Tasks
  BY HeadDue DEF IInv, TypeOK, ActiveTypeOK, Trigger, Get_trolley_retry
<1>2. /\ active_wht' \in Tasks \cup {None}
      /\ active_wht' = None => triggers' = <<Call("warehouseorder_aborted")>>
      /\ triggers' \in Seq(TriggerCall) /\ TriggersOK'
  BY <1>1, SourceEntered DEF Get_trolley_retry
<1>3. error_count' \in [States -> 0..MaxRetry]
  BY RetryType DEF IInv, TypeOK, Get_trolley_retry
<1>4. TypeOK'
  BY <1>2, <1>3, Frames
     DEF IInv, TypeOK, StateTypeOK, ActiveTypeOK, Get_trolley_retry, frameVars
<1>5. NoContextLoss' /\ DeliveryOK'
  BY <1>2 DEF IInv, NoContextLoss, DeliveryOK, Get_trolley_retry
<1> QED BY <1>2, <1>4, <1>5 DEF IInv

\* The trolley is reported: loaded, or not returned.
LEMMA TrolleyReportedStep ==
    ASSUME IInv, Trolley_loaded \/ Trolley_not_returned
    PROVE  IInv'
<1>1. Tail(triggers) = <<>> /\ active_who \in Orders /\ active_wht # None
  BY HeadDue DEF IInv, NoContextLoss, Trigger, Trolley_loaded, Trolley_not_returned
<1>2. cr' \in [Orders -> OrderCR]
  BY <1>1, SendType DEF IInv, Trolley_loaded, Trolley_not_returned
<1>3. \/ triggers' = <<>>
      \/ triggers' = <<Call("create_return_trolley_mission")>>
  BY <1>1, ThenNone, ThenCall, CallType, TriggerNamesDef DEF Trolley_loaded, Trolley_not_returned
<1>4. triggers' \in Seq(TriggerCall) /\ TriggersOK'
  BY <1>3, NoneLeft, OneLeft, CallType, TriggerNamesDef DEF Due, Call
<1>5. state' \in {Target, TrolleyError} /\ error_count' \in [States -> 0..MaxRetry]
  BY GotoType DEF IInv, TypeOK, StateTypeOK, Trolley_loaded, Trolley_not_returned, countVars
<1>6. UNCHANGED <<activeVars, frameVars>>
  BY DEF Trolley_loaded, Trolley_not_returned, orderVars, countVars, frameVars
<1>7. TypeOK'
  BY <1>2, <1>4, <1>5, <1>6, QuietType DEF IInv
<1>8. NoContextLoss' /\ DeliveryOK'
  BY <1>1, <1>5, <1>6
     DEF IInv, NoContextLoss, DeliveryOK, activeVars, Trolley_loaded, Trolley_not_returned
<1> QED BY <1>4, <1>7, <1>8 DEF IInv

\* Docking passes a mission that has succeeded on.
LEMMA DockingStep == ASSUME IInv, Trolley_docking PROVE IInv'
<1>1. /\ Tail(triggers) = <<>> /\ Due(Head(triggers))
      /\ state \in {Source, Target} /\ state' \in {Loading, Unloading}
  BY HeadDue DEF IInv, Trigger, Trolley_docking, Goto
<1>2. active_wht # None
  BY <1>1 DEF IInv, NoContextLoss, Trolley_docking, Trigger, Call
<1>3. \/ triggers' = <<>>
      \/ mission = NoMission /\ triggers' = <<Call("mission_succeeded")>>
  BY <1>1, ThenNone, ThenCall, CallType, TriggerNamesDef DEF Trolley_docking, Trigger, Due
<1>4. UNCHANGED <<activeVars, frameVars, cr>>
  BY DEF Trolley_docking
<1>5. triggers' \in Seq(TriggerCall) /\ TriggersOK'
  BY <1>1, <1>3, <1>4, NoneLeft, OneLeft, CallType, TriggerNamesDef
     DEF Due, Call, frameVars, missionVars
<1>6. TypeOK'
  BY <1>1, <1>4, <1>5, GotoType, QuietType DEF IInv, TypeOK, Trolley_docking
<1>7. NoContextLoss' /\ DeliveryOK'
  BY <1>1, <1>2, <1>4 DEF IInv, NoContextLoss, DeliveryOK, activeVars
<1> QED BY <1>5, <1>6, <1>7 DEF IInv

\* A trolley is returned and the next one chosen.
LEMMA NextTaskStep == ASSUME IInv, Trolley_next_task PROVE IInv'
<1>1. /\ Tail(triggers) = <<>> /\ active_who \in Orders /\ active_wht # None
      /\ who_tasks \ {active_wht} \in SUBSET Tasks
  BY HeadDue DEF IInv, TypeOK, ActiveTypeOK, NoContextLoss, Trigger, Trolley_next_task
<1>2. cr' \in [Orders -> OrderCR]
  BY <1>1, SendType DEF IInv, Trolley_next_task
<1>3. state' = Source /\ error_count' \in [States -> 0..MaxRetry]
  BY GotoType DEF IInv, TypeOK, Trolley_next_task
<1>4. /\ active_wht' \in Tasks \cup {None}
      /\ active_wht' = None => triggers' = <<Call("warehouseorder_aborted")>>
      /\ triggers' \in Seq(TriggerCall) /\ TriggersOK'
  BY <1>1, <1>3, SourceEntered DEF Trolley_next_task
<1>5. QueueTypeOK' /\ who_tasks' \in SUBSET Tasks
  BY CloseWhtType DEF IInv, Trolley_next_task
<1>6. TypeOK'
  BY <1>2, <1>3, <1>4, <1>5, Frames
     DEF IInv, TypeOK, StateTypeOK, ActiveTypeOK, Trolley_next_task
<1>7. NoContextLoss' /\ DeliveryOK'
  BY <1>1, <1>3, <1>4 DEF IInv, NoContextLoss, DeliveryOK, Trolley_next_task
<1> QED BY <1>4, <1>6, <1>7 DEF IInv

\* A pick robot that needs help keeps its order.
LEMMA NeedsHelpStep == ASSUME IInv, Pick_needs_help PROVE IInv'
<1>1. /\ Tail(triggers) = <<>> /\ Due(Head(triggers)) /\ active_who \in Orders
  BY HeadDue, OrdersAssumption DEF IInv, NoContextLoss, Trigger, Pick_needs_help
<1>2. state = Deliver => active_wht # None
  BY <1>1 DEF Due, Pick_needs_help, Trigger
<1>3. cr' \in [Orders -> OrderCR]
  BY <1>1, <1>2, SendType DEF IInv, TypeOK, Pick_needs_help
<1>4. triggers' = <<>>
  BY <1>1, ThenNone DEF Pick_needs_help
<1>5. state' = PickError /\ error_count' \in [States -> 0..MaxRetry]
  BY GotoType DEF IInv, TypeOK, StateTypeOK, Pick_needs_help
<1>6. UNCHANGED <<activeVars, frameVars>>
  BY DEF Pick_needs_help
<1>7. TypeOK' /\ TriggersOK'
  BY <1>3, <1>4, <1>5, <1>6, NoneLeft, QuietType DEF IInv
<1>8. NoContextLoss' /\ DeliveryOK'
  BY <1>5, <1>6 DEF IInv, NoContextLoss, DeliveryOK, activeVars, Pick_needs_help
<1> QED BY <1>7, <1>8 DEF IInv

\* A failed drive of a pick robot is retried within the bound.
LEMMA PickRetryStep == ASSUME IInv, Pick_mission_retry PROVE IInv'
<1>1. /\ Tail(triggers) = <<>> /\ mission = NoMission
      /\ who_tasks \in SUBSET Tasks
  BY HeadDue DEF IInv, TypeOK, ActiveTypeOK, Due, Trigger, Pick_mission_retry
<1>2. /\ active_wht' \in Tasks \cup {None}
      /\ state = Pick => active_wht' = None
      /\ state = Deliver /\ active_wht' = None => triggers' = <<>>
      /\ triggers' \in Seq(TriggerCall) /\ TriggersOK'
  BY <1>1, PickEntered, DeliverEntered DEF Pick_mission_retry
<1>3. error_count' \in [States -> 0..MaxRetry]
  BY RetryType DEF IInv, TypeOK, Pick_mission_retry
<1>4. TypeOK'
  BY <1>2, <1>3, Frames
     DEF IInv, TypeOK, StateTypeOK, ActiveTypeOK, Pick_mission_retry, frameVars
<1>5. NoContextLoss' /\ DeliveryOK'
  BY <1>1, <1>2 DEF IInv, NoContextLoss, DeliveryOK, Pick_mission_retry, frameVars, missionVars
<1> QED BY <1>2, <1>4, <1>5 DEF IInv

\* A recovered pick robot chooses a task again.
LEMMA RecoverPickStep == ASSUME IInv, Recover_pick_robot PROVE IInv'
<1>1. /\ Tail(triggers) = <<>> /\ who_tasks \in SUBSET Tasks
  BY HeadDue DEF IInv, TypeOK, ActiveTypeOK, Trigger, Recover_pick_robot
<1>2. \/ state' = Pick /\ EnterPick
      \/ state' = Deliver /\ EnterDeliver(who_tasks) /\ who_tasks # {}
  BY DEF Recover_pick_robot, More_warehouse_tasks, Goto
<1>3. /\ active_wht' \in Tasks \cup {None}
      /\ state' = Deliver => active_wht' # None
      /\ state' = Pick => active_wht' = None
      /\ triggers' \in Seq(TriggerCall) /\ TriggersOK'
  BY <1>1, <1>2, PickEntered, DeliverEntered
<1>4. error_count' \in [States -> 0..MaxRetry]
  BY GotoType DEF IInv, TypeOK, Recover_pick_robot
<1>5. TypeOK'
  BY <1>2, <1>3, <1>4, Frames
     DEF IInv, TypeOK, StateTypeOK, ActiveTypeOK, Recover_pick_robot, frameVars
<1>6. NoContextLoss' /\ DeliveryOK'
  BY <1>2, <1>3 DEF IInv, NoContextLoss, DeliveryOK, Recover_pick_robot
<1> QED BY <1>3, <1>5, <1>6 DEF IInv

\* A pick robot waits where it has arrived.
LEMMA ArrivedStep == ASSUME IInv, Pick_arrived PROVE IInv'
<1>1. triggers' = <<>> /\ (state = Deliver => active_wht # None)
  BY HeadDue, ThenNone DEF IInv, Due, Trigger, Pick_arrived
<1>2. TypeOK' /\ TriggersOK'
  BY <1>1, NoneLeft, GotoType, QuietType DEF IInv, TypeOK, Pick_arrived
<1>3. NoContextLoss' /\ DeliveryOK'
  BY <1>1 DEF IInv, NoContextLoss, DeliveryOK, Pick_arrived, Goto, activeVars
<1> QED BY <1>2, <1>3 DEF IInv

\* The picks are delivered, the first task is confirmed.
LEMMA StartDeliveryStep == ASSUME IInv, Start_delivery PROVE IInv'
<1> DEFINE ts == who_tasks \ {active_wht}
<1>1. /\ Tail(triggers) = <<>> /\ ts \in SUBSET Tasks /\ ts # {}
      /\ active_who \in Orders
  BY HeadDue, OrdersAssumption DEF IInv, TypeOK, ActiveTypeOK, NoContextLoss, Trigger,
     Start_delivery, More_warehouse_tasks
<1>2. state' = Deliver /\ error_count' \in [States -> 0..MaxRetry]
  BY GotoType DEF IInv, TypeOK, Start_delivery
<1>3. /\ active_wht' \in Tasks /\ active_wht' # None
      /\ triggers' \in Seq(TriggerCall) /\ TriggersOK'
  BY <1>1, DeliverEntered DEF Start_delivery
<1>4. QueueTypeOK' /\ who_tasks' \in SUBSET Tasks
  BY CloseWhtType DEF IInv, Start_delivery
<1>5. cr' \in [Orders -> OrderCR]
  <2>1. PICK t \in Tasks : t = active_wht'
    BY <1>3
  <2>2. cr' = [cr EXCEPT ![active_who] =
                  Confirm(@, cache[active_who], t, "FIRST", "SUCCESS")]
    BY <2>1 DEF Start_delivery
  <2>3. cr[active_who] \in OrderCR /\ cache[active_who] \in OrderCR
    BY <1>1 DEF IInv, TypeOK, EnvTypeOK
  <2> QED BY <2>2, <2>3, ConfirmType DEF IInv, TypeOK
<1>6. TypeOK'
  BY <1>2, <1>3, <1>4, <1>5, Frames
     DEF IInv, TypeOK, StateTypeOK, ActiveTypeOK, Start_delivery
<1>7. NoContextLoss' /\ DeliveryOK'
  BY <1>2, <1>3 DEF IInv, NoContextLoss, DeliveryOK, Start_delivery
<1> QED BY <1>3, <1>6, <1>7 DEF IInv

\* A pick order is closed: the robot is free.
LEMMA PickConfirmedStep == ASSUME IInv, Pick_order_confirmed PROVE IInv'
<1>1. Tail(triggers) = <<>> /\ state' = "idle"
  BY HeadDue DEF IInv, Trigger, Pick_order_confirmed, Goto
<1>2. QueueTypeOK'
  BY DEF IInv, TypeOK, QueueTypeOK, Pick_order_confirmed, Close_active_who, Without
<1>3. cr' \in [Orders -> OrderCR]
  BY FinalizerType DEF IInv, TypeOK, EnvTypeOK, Pick_order_confirmed, Close_active_who
<1>4. failed_warehouseorders' \in 0..(MaxFailedOrders + 1)
  BY FailedType DEF IInv, TypeOK, Pick_order_confirmed
<1>5. /\ ActiveTypeOK' /\ NoContextLoss' /\ DeliveryOK'
      /\ triggers' \in Seq(TriggerCall) /\ TriggersOK'
  BY <1>1, <1>2, IdleEntered DEF Pick_order_confirmed
<1>6. TypeOK'
  BY <1>1, <1>2, <1>3, <1>4, <1>5, GotoType, Frames
     DEF IInv, TypeOK, StateTypeOK, Pick_order_confirmed
<1> QED BY <1>5, <1>6 DEF IInv

\* Every transition keeps the invariant.
LEMMA MachineStep == ASSUME IInv, Machine PROVE IInv'
BY SetOffStep, EnterStagingStep, TooManyFailedStep, FreeRetryStep, ReturnRetryStep,
   BackToIdleStep, NoEffectStep, CancelStep, CreateStep, ProcessStep, TrolleyClosedStep,
   GetRetryStep, TrolleyReportedStep, DockingStep, NextTaskStep, NeedsHelpStep,
   PickRetryStep, RecoverPickStep, ArrivedStep, StartDeliveryStep, PickConfirmedStep
   DEF Machine

-----------------------------------------------------------------------------
(* The callbacks and the environment.                                      *)

\* A queue of one due trigger, alone or behind a cancellation.
LEMMA QueueLeft ==
    ASSUME NEW c \in TriggerCall, Due(c)',
           triggers' \in {<<c>>, <<Call("cancel_active_mission"), c>>}
    PROVE  triggers' \in Seq(TriggerCall) /\ TriggersOK'
<1>1. CASE triggers' = <<c>>
  BY <1>1, OneLeft
<1>2. CASE triggers' = <<Call("cancel_active_mission"), c>>
  <2>1. Call("cancel_active_mission") \in TriggerCall
    BY CallType, TriggerNamesDef
  <2>2. triggers' \in Seq(TriggerCall)
    BY <1>2, <2>1
  <2>3. TriggersOK'
    <3>1. \E e \in TriggerCall : Due(e)' /\ triggers' = <<Call("cancel_active_mission"), e>>
      BY <1>2
    <3> QED BY <3>1 DEF TriggersOK, Call
  <2> QED BY <2>2, <2>3
<1> QED BY <1>1, <1>2

\* The end of a mission is announced once, with no mission left.
LEMMA MissionCbStep == ASSUME IInv, Mission_cb PROVE IInv'
<1>1. /\ triggers = <<>> /\ mission \in Mission
      /\ UNCHANGED <<state, orderVars, orphans, countVars, envVars, cr>>
  BY DEF IInv, TypeOK, MissionTypeOK, NoMission, Mission_cb, Callback
<1>2. \/ mission' = NoMission /\ triggers' = <<Call("mission_succeeded")>>
      \/ mission' = NoMission /\ triggers' = <<Call("mission_failed")>>
      \/ mission' = mission /\ triggers' = <<Call("mission_docking")>>
  BY DEF Mission_cb
<1>3. mission # NoMission
  BY <1>1 DEF Mission, NoMission
<1>4. state = Deliver => active_wht # None
  BY <1>3 DEF IInv, DeliveryOK
<1>5. triggers' \in Seq(TriggerCall) /\ TriggersOK'
  BY <1>1, <1>2, <1>4, OneLeft, CallType, TriggerNamesDef DEF Due, Call, orderVars, activeVars
<1>6. MissionTypeOK'
  BY <1>1, <1>2 DEF IInv, TypeOK, MissionTypeOK
<1>7. TypeOK'
  BY <1>1, <1>5, <1>6, Frames DEF IInv, TypeOK, StateTypeOK, orderVars, countVars
<1>8. ~(state = Source /\ active_wht = None)
  BY <1>1 DEF IInv, NoContextLoss
<1>9. NoContextLoss' /\ DeliveryOK'
  BY <1>1, <1>4, <1>8 DEF IInv, NoContextLoss, DeliveryOK, orderVars, activeVars
<1> QED BY <1>5, <1>7, <1>9 DEF IInv

\* A callback that only calls a trigger that is due.
LEMMA CallingStep ==
    ASSUME IInv, Callback, UNCHANGED otherVars, NEW c \in TriggerCall, Due(c),
           c.name \notin {"mission_succeeded", "mission_failed"},
           state # Deliver,
           triggers' \in {<<c>>, <<Call("cancel_active_mission"), c>>}
    PROVE  IInv'
<1>1. Due(c)'
  BY DEF Due, otherVars, orderVars, activeVars, missionVars
<1>2. triggers' \in Seq(TriggerCall) /\ TriggersOK'
  BY <1>1, QueueLeft
<1>3. TypeOK'
  BY <1>2, Frames DEF IInv, TypeOK, StateTypeOK, otherVars, orderVars, countVars
<1>4. ~(state = Source /\ active_wht = None)
  BY DEF IInv, NoContextLoss, Callback
<1>5. NoContextLoss' /\ DeliveryOK'
  BY <1>4 DEF IInv, NoContextLoss, DeliveryOK, otherVars, orderVars, activeVars
<1> QED BY <1>2, <1>3, <1>5 DEF IInv

\* A callback that calls nothing.
LEMMA NoCallStep == ASSUME IInv, UNCHANGED otherVars, UNCHANGED triggers PROVE IInv'
<1>1. TypeOK'
  BY Frames DEF IInv, TypeOK, StateTypeOK, otherVars, orderVars, countVars
<1>2. NoContextLoss' /\ DeliveryOK' /\ TriggersOK'
  BY DEF IInv, NoContextLoss, DeliveryOK, TriggersOK, Due, otherVars, orderVars, activeVars, missionVars
<1> QED BY <1>1, <1>2 DEF IInv

\* The battery callback acts in the free states only.
LEMMA RobotCbStep == ASSUME IInv, Robot_cb PROVE IInv'
<1>1. Callback /\ UNCHANGED otherVars /\ state \in FreeStates
  BY DEF Robot_cb
<1>2. CASE \/ triggers' = <<Call("charge_battery")>>
           \/ triggers' = <<Call("cancel_active_mission"), Call("charge_battery")>>
  <2>1. PICK c \in TriggerCall : c = Call("charge_battery")
    BY CallType, TriggerNamesDef
  <2>2. Due(c) /\ c.name = "charge_battery"
    BY <2>1 DEF Due, Call
  <2>3. triggers' \in {<<c>>, <<Call("cancel_active_mission"), c>>}
    BY <1>2, <2>1
  <2> QED BY <1>1, <2>2, <2>3, CallingStep
<1>3. ASSUME NEW w \in DOMAIN warehouseorders,
             triggers' = <<Call("cancel_active_mission"),
                           CallWith("process_warehouseorder", w, warehouseorders[w])>>
      PROVE  IInv'
  <2>1. w \in Orders /\ warehouseorders[w] \in SUBSET Tasks
    BY DEF IInv, TypeOK, QueueTypeOK
  <2>2. PICK c \in TriggerCall : c = CallWith("process_warehouseorder", w, warehouseorders[w])
    BY <2>1, TriggerNamesDef DEF CallWith, TriggerCall
  <2>3. Due(c) /\ c.name = "process_warehouseorder"
    BY <1>1, <2>1, <2>2 DEF Due, CallWith
  <2>4. triggers' \in {<<c>>, <<Call("cancel_active_mission"), c>>}
    BY <1>3, <2>2
  <2> QED BY <1>1, <2>3, <2>4, CallingStep
<1> QED BY <1>2, <1>3 DEF Robot_cb

\* The callbacks of the configuration, the timeouts and processed orders.
LEMMA SimpleCbStep ==
    ASSUME IInv,
           \/ Cfg_recover_cb \/ Cfg_idle_charge_states_cb \/ Idle_timeout \/ Staging_timeout
           \/ \E w \in Orders : Warehouseorder_processed_cb(w)
    PROVE  IInv'
<1>1. Callback /\ UNCHANGED otherVars
  BY DEF Cfg_recover_cb, Cfg_idle_charge_states_cb, Idle_timeout, Staging_timeout,
     Warehouseorder_processed_cb
<1>2. \/ triggers' = <<>>
      \/ \E name \in {"recover_robot", "staging_timeout", "charging_canceled", "go_staging",
                      "warehouseorder_confirmed"} :
            /\ triggers' \in {<<Call(name)>>, <<Call("cancel_active_mission"), Call(name)>>}
            /\ state # Deliver
  BY DEF Cfg_recover_cb, Cfg_idle_charge_states_cb, Idle_timeout, Staging_timeout,
     Warehouseorder_processed_cb, Awaited_completion, ErrorStates
<1>3. CASE triggers' = <<>>
  BY <1>1, <1>3, NoCallStep DEF Callback
<1>4. ASSUME NEW name \in {"recover_robot", "staging_timeout", "charging_canceled",
                "go_staging", "warehouseorder_confirmed"},
             triggers' \in {<<Call(name)>>, <<Call("cancel_active_mission"), Call(name)>>},
             state # Deliver
      PROVE  IInv'
  <2>1. PICK c \in TriggerCall : c = Call(name)
    BY CallType, TriggerNamesDef
  <2>2. Due(c) /\ c.name \notin {"mission_succeeded", "mission_failed"}
    BY <2>1 DEF Due, Call
  <2> QED BY <1>1, <1>4, <2>1, <2>2, CallingStep
<1> QED BY <1>2, <1>3, <1>4

\* A new or changed order of the robot.
LEMMA OrderCbStep ==
    ASSUME IInv, NEW w \in Orders, NEW spec \in Events(w), Warehouseorder_cb(w, spec)
    PROVE  IInv'
<1> DEFINE ts == spec.tasks
<1>1. /\ triggers = <<>> /\ ts \in SUBSET Tasks /\ spec \in OrderSpec
  BY OrdersAssumption DEF Warehouseorder_cb, Callback, Events, IInv, TypeOK, EnvTypeOK,
     OrderSpec, OrderCR
<1>2. /\ triggers' = Update_robot_who_calls(w, ts)
      /\ UNCHANGED <<state, active_who, active_wht, missionVars, countVars, envVars, cr>>
  BY DEF Warehouseorder_cb
<1>3. QueueTypeOK'
  BY <1>1, <1>2 DEF IInv, TypeOK, QueueTypeOK, Warehouseorder_cb
<1>4. ActiveTypeOK'
  BY <1>1 DEF IInv, TypeOK, ActiveTypeOK, Warehouseorder_cb
<1>5. /\ triggers' \in Seq(TriggerCall) /\ TriggersOK'
      /\ state = Deliver => triggers' = <<>>
  <2>1. CASE Update_robot_who_calls(w, ts) = <<>>
    BY <1>2, <2>1, NoneLeft
  <2>2. CASE state = AtPick /\ triggers' = <<Call("pickpackpass_who_with_tasks")>>
    BY <2>2, OneLeft, CallType, TriggerNamesDef DEF Due, Call
  <2>3. CASE /\ state \in FreeStates
             /\ triggers' \in {<<CallWith("process_warehouseorder", w, ts)>>,
                               <<Call("cancel_active_mission"),
                                 CallWith("process_warehouseorder", w, ts)>>}
    <3>1. PICK c \in TriggerCall : c = CallWith("process_warehouseorder", w, ts)
      BY <1>1, TriggerNamesDef DEF CallWith, TriggerCall
    <3>2. Due(c)'
      BY <1>1, <1>2, <2>3, <3>1 DEF Due, CallWith
    <3> QED BY <2>3, <3>1, <3>2, QueueLeft
  <2> QED BY <1>2, <2>1, <2>2, <2>3 DEF Update_robot_who_calls
<1>6. TypeOK'
  BY <1>1, <1>2, <1>3, <1>4, <1>5, Frames DEF IInv, TypeOK, StateTypeOK, countVars
<1>7. NoContextLoss' /\ DeliveryOK'
  BY <1>1, <1>2, <1>5 DEF IInv, NoContextLoss, DeliveryOK, missionVars
<1> QED BY <1>5, <1>6, <1>7 DEF IInv

\* The event of a sub order ends in an error.
LEMMA SubCbStep ==
    ASSUME IInv, NEW s \in SubOrders, Sub_warehouseorder_cb(s)
    PROVE  IInv'
<1>1. /\ UNCHANGED <<state, orderVars, missionVars, countVars, cr, triggers>>
      /\ UNCHANGED <<mode, battery, cache, order_status>>
      /\ sub_events' = sub_events \ {s}
  BY DEF Sub_warehouseorder_cb, Callback
<1>2. EnvTypeOK'
  BY <1>1 DEF IInv, TypeOK, EnvTypeOK
<1>3. TypeOK'
  BY <1>1, <1>2, Frames DEF IInv, TypeOK, StateTypeOK, orderVars, countVars
<1>4. NoContextLoss' /\ DeliveryOK' /\ TriggersOK'
  BY <1>1 DEF IInv, NoContextLoss, DeliveryOK, TriggersOK, Due, orderVars, activeVars,
         missionVars
<1> QED BY <1>3, <1>4 DEF IInv

\* A deleted order leaves the queue.
LEMMA DeletedCbStep ==
    ASSUME IInv, NEW w \in Orders, Warehouseorder_deleted_cb(w)
    PROVE  IInv'
<1>1. /\ triggers = <<>> /\ triggers' = Awaited_completion(w)
      /\ UNCHANGED <<state, activeVars, missionVars, countVars,
                     mode, battery, cache, cr, sub_events>>
  BY DEF Warehouseorder_deleted_cb, Callback
<1>2. QueueTypeOK' /\ EnvTypeOK'
  BY <1>1 DEF IInv, TypeOK, QueueTypeOK, EnvTypeOK, Warehouseorder_deleted_cb, Without,
     OrderSpec
<1>3. \/ triggers' = <<>>
      \/ /\ \E name \in {"warehouseorder_confirmed"} :
               triggers' = <<Call(name)>>
         /\ state # Deliver
  BY <1>1 DEF Awaited_completion
<1>4. triggers' \in Seq(TriggerCall) /\ TriggersOK'
  BY <1>3, NoneLeft, OneLeft, CallType, TriggerNamesDef DEF Due, Call
<1>5. TypeOK'
  BY <1>1, <1>2, <1>4, Frames DEF IInv, TypeOK, StateTypeOK, countVars
<1>6. NoContextLoss' /\ DeliveryOK'
  BY <1>1, <1>3 DEF IInv, NoContextLoss, DeliveryOK, activeVars, missionVars
<1> QED BY <1>4, <1>5, <1>6 DEF IInv

\* Every callback keeps the invariant.
LEMMA CallbackStep == ASSUME IInv, Callbacks PROVE IInv'
BY MissionCbStep, RobotCbStep, SimpleCbStep, OrderCbStep, SubCbStep, DeletedCbStep
   DEF Callbacks

\* The environment leaves the machine alone; it gives no mission to a machine
\* without one.
LEMMA EnvironmentStep == ASSUME IInv, Environment PROVE IInv'
<1>1. UNCHANGED machineVars /\ UNCHANGED cr
  BY DEF Environment, Watch_order, Order_processed, Sub_order_sent, Update_robot_status, Set_mode,
         Mission_watched, Mission_docks, Mission_ends, Orphan_ends
<1>2. EnvTypeOK'
  <2>1. CASE UNCHANGED envVars
    BY <2>1, Frames DEF IInv, TypeOK
  <2>2. ASSUME NEW w \in Orders, Watch_order(w) \/ Order_processed(w) PROVE EnvTypeOK'
    BY <2>2 DEF IInv, TypeOK, EnvTypeOK, Watch_order, Order_processed
  <2>5. ASSUME NEW s \in SubOrders, Sub_order_sent(s) PROVE EnvTypeOK'
    BY <2>5 DEF IInv, TypeOK, EnvTypeOK, Sub_order_sent
  <2>3. ASSUME NEW b \in BatteryLevels, Update_robot_status(b) PROVE EnvTypeOK'
    BY <2>3 DEF IInv, TypeOK, EnvTypeOK, Update_robot_status
  <2>4. ASSUME NEW m \in Modes, Set_mode(m) PROVE EnvTypeOK'
    BY <2>4 DEF IInv, TypeOK, EnvTypeOK, Set_mode
  <2> QED BY <2>1, <2>2, <2>3, <2>4, <2>5
          DEF Environment, Mission_watched, Mission_docks, Mission_ends, Orphan_ends
<1>3. MissionTypeOK' /\ (mission = NoMission => mission' = NoMission)
  <2>1. mission' = mission \/ (mission \in Mission /\ \E st \in {"running", "docking",
            "succeeded", "failed"} : mission' = [mission EXCEPT !.status = st])
    BY DEF IInv, TypeOK, MissionTypeOK, NoMission, Environment, Watch_order, Order_processed,
       Sub_order_sent, Update_robot_status, Set_mode, missionVars, Mission_watched, Mission_docks,
       Mission_ends, Orphan_ends
  <2>2. orphans' \subseteq orphans
    BY DEF Environment, Watch_order, Order_processed, Sub_order_sent, Update_robot_status, Set_mode,
       missionVars, Mission_watched, Mission_docks, Mission_ends, Orphan_ends
  <2>3. mission \in Mission => mission # NoMission
    BY DEF Mission, NoMission
  <2> QED BY <2>1, <2>2, <2>3 DEF IInv, TypeOK, MissionTypeOK, Mission
<1>4. TypeOK'
  BY <1>1, <1>2, <1>3, Frames
     DEF IInv, TypeOK, StateTypeOK, machineVars, orderVars, countVars
<1>5. TriggersOK'
  BY <1>1, <1>3 DEF IInv, TriggersOK, Due, machineVars, orderVars, activeVars
<1>6. NoContextLoss' /\ DeliveryOK'
  BY <1>1, <1>3 DEF IInv, NoContextLoss, DeliveryOK, machineVars, orderVars, activeVars
<1> QED BY <1>4, <1>5, <1>6 DEF IInv

-----------------------------------------------------------------------------
(* The theorems.                                                           *)

\* IInv is an inductive invariant of the machine.
THEOREM Inductive == Spec => []IInv
<1>1. Init => IInv
  <2> SUFFICES ASSUME Init PROVE IInv
    OBVIOUS
  <2>1. PICK c \in TriggerCall : c = Call("start_fresh_machine")
    BY CallType, TriggerNamesDef
  <2>2. Due(c) /\ triggers = <<c>>
    BY <2>1 DEF Init, Due, Call
  <2>3. TriggersOK /\ triggers \in Seq(TriggerCall)
    BY <2>2 DEF TriggersOK
  <2>4. StateTypeOK /\ ActiveTypeOK /\ MissionTypeOK
    BY ParameterAssumption
       DEF Init, StateTypeOK, ActiveTypeOK, MissionTypeOK
  <2>5. QueueTypeOK
    BY DEF Init, QueueTypeOK, OrderSpec
  <2>6. EnvTypeOK /\ cr \in [Orders -> OrderCR]
    BY DEF Init, EnvTypeOK, OrderCR, MaxFinalizers
  <2>7. NoContextLoss /\ DeliveryOK
    BY DEF Init, NoContextLoss, DeliveryOK
  <2> QED BY <2>3, <2>4, <2>5, <2>6, <2>7 DEF IInv, TypeOK
<1>2. IInv /\ [Next]_vars => IInv'
  <2>1. ASSUME IInv, UNCHANGED vars PROVE IInv'
    BY <2>1, NoCallStep DEF vars, otherVars
  <2> QED BY <2>1, MachineStep, CallbackStep, EnvironmentStep DEF Next
<1> QED BY <1>1, <1>2, PTL DEF Spec

\* The type invariant; in particular a state is never retried more often than
\* max_retry_count allows.
THEOREM TypeCorrect == Spec => []TypeOK
<1>1. IInv => TypeOK
  BY DEF IInv
<1> QED BY <1>1, Inductive, PTL

\* The on_enter and before callbacks always find the order and the task they
\* rely on, and a free robot has none.
THEOREM ContextKept == Spec => []NoContextLoss
<1>1. IInv => NoContextLoss
  BY DEF IInv
<1> QED BY <1>1, Inductive, PTL
\* A step takes up an order only where there is none, and otherwise keeps the
\* order or lets it go.
LEMMA OrderStep ==
    ASSUME IInv, [Next]_vars
    PROVE  active_who' = active_who \/ active_who' = None \/ active_who = None
<1>1. CASE Process_warehouseorder
  <2>1. Head(triggers).who \in Orders /\ state \in FreeStates
    BY <1>1, HeadDue DEF IInv, Due, Process_warehouseorder, Trigger
  <2> QED BY <2>1 DEF IInv, NoContextLoss
<1>2. CASE \/ Start_fresh_machine \/ Charging_ends \/ Free_mission_given_up
           \/ Recover_free_robot \/ Trolley_order_aborted \/ Trolley_invalid_task
           \/ Trolley_not_loaded \/ Trolley_order_completed \/ Trolley_order_confirmed
           \/ Pick_order_confirmed
  BY <1>2 DEF Start_fresh_machine, Charging_ends, Free_mission_given_up, Recover_free_robot,
     Trolley_order_aborted, Trolley_invalid_task, Trolley_not_loaded, Trolley_order_failed,
     Trolley_order_completed, Trolley_order_confirmed, Pick_order_confirmed,
     EnterIdle, No_active_work
<1>3. CASE \/ Go_staging \/ Too_many_failed_whos \/ EnterStaging \/ Charge_battery
           \/ Free_mission_retry \/ Error_mission_over \/ Cancel_active_mission
           \/ Create_mission \/ Refused
  BY <1>3 DEF Go_staging, Too_many_failed_whos, EnterStaging, Charge_battery,
     Free_mission_retry, Error_mission_over, Cancel_active_mission, Create_mission,
     Refused, otherVars, orderVars, activeVars
<1>4. CASE \/ Get_trolley_retry \/ Return_trolley_retry \/ Trolley_not_returned
           \/ Recover_trolley_robot \/ Trolley_docking \/ Trolley_loaded
           \/ Trolley_next_task
  BY <1>4 DEF Get_trolley_retry, Return_trolley_retry, Trolley_not_returned,
     Recover_trolley_robot, Trolley_docking, Trolley_loaded, Trolley_next_task,
     orderVars, activeVars
<1>5. CASE \/ Pick_needs_help \/ Pick_mission_retry
           \/ Recover_pick_robot \/ Pick_arrived \/ Start_delivery
  BY <1>5 DEF Pick_needs_help, Pick_mission_retry, Recover_pick_robot,
     Pick_arrived, Start_delivery,
     otherVars, orderVars, activeVars
<1>6. CASE Callbacks
  BY <1>6 DEF Callbacks, Mission_cb, Robot_cb, Cfg_recover_cb, Cfg_idle_charge_states_cb,
     Idle_timeout, Staging_timeout, Warehouseorder_cb, Sub_warehouseorder_cb,
     Warehouseorder_processed_cb, Warehouseorder_deleted_cb, otherVars, orderVars, activeVars
<1>7. CASE Environment
  BY <1>7 DEF Environment, Watch_order, Order_processed, Sub_order_sent, Update_robot_status, Set_mode,
     Mission_watched, Mission_docks, Mission_ends, Orphan_ends, machineVars, orderVars,
     activeVars
<1>8. CASE UNCHANGED vars
  BY <1>8 DEF vars, orderVars, activeVars
<1> QED
  BY <1>1, <1>2, <1>3, <1>4, <1>5, <1>6, <1>7, <1>8 DEF Next, Machine

\* No order is ever replaced by another one: the robot closes it first, whatever
\* orders are assigned, received or deleted meanwhile.
THEOREM OrderClosed == Spec => OrderClosedFirst
<1>1. IInv /\ [Next]_vars => [active_who' # active_who => None \in {active_who, active_who'}]_vars
  BY OrderStep
<1> QED BY <1>1, Inductive, PTL DEF Spec, OrderClosedFirst
=============================================================================
