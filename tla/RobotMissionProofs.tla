------------------------- MODULE RobotMissionProofs -------------------------
(***************************************************************************)
(* The missions of one robot: a robot that drives has the mission it waits *)
(* for, and no mission that moves a trolley or a picking robot is lost     *)
(* sight of, for all orders, tasks, modes, battery levels and retry        *)
(* limits, missions that fail at any time and events in any order.         *)
(*                                                                         *)
(* Both follow from what the queue of triggers holds: a trigger that is    *)
(* queued is one the state has a transition for (Fits), so that none but   *)
(* those of a mission nobody waits for are refused; the transition into a  *)
(* driving state calls the trigger that creates its mission; and while     *)
(* there is a mission of the process, nothing but its docking is queued.   *)
(***************************************************************************)
EXTENDS RobotStateMachineProofs

USE DEF Source, Loading, Target, Unloading, TrolleyError,
        Pick, AtPick, Deliver, AtTarget, PickError,
        FreeStates, IdleStates, TrolleyStates, PickStates, States

\* The states a mission of a kind is for.
StatesOf == [staging |-> {"movingToStaging", "robotError"}, charge |-> {"charging"},
             get |-> {Source, Loading}, return |-> {Target, Unloading}, move |-> {Deliver}]

\* A robot in state s with the task wht at hand waits for a mission.
Driving(s, wht) ==
    \/ s \in {"movingToStaging", "charging", Source, Loading, Target, Unloading}
    \/ s = Deliver /\ wht # None

\* The robot has the mission it waits for.
Matched ==
    /\ state = "movingToStaging" => mission.kind = "staging"
    /\ state = "charging" => mission.kind = "charge"
    /\ state \in {Source, Loading} => mission.kind = "get"
    /\ state \in {Target, Unloading} => mission.kind = "return"
    /\ state = Deliver /\ active_wht # None => mission.kind = "move"

\* The trigger has a transition in state s, and creates the mission of s.
MissionCalls == {"mission_docking", "mission_succeeded", "mission_failed"}

Fit(name, s, wht) ==
    /\ name \notin MissionCalls => s \in Sources[name]
    /\ name \in DOMAIN CreateMission =>
         /\ s \in StatesOf[CreateMission[name]]
         /\ name = "create_move_mission" => wht # None

\* A mission that docks is the one waited for, or nobody waits.
Fits(c) ==
    /\ Fit(c.name, state, active_wht)
    /\ c.name = "mission_docking" => Matched

FitsAll == \A c \in TriggerCall :
    /\ triggers \in {<<c>>, <<Call("cancel_active_mission"), c>>} => Fits(c)
    /\ triggers = <<Call("cancel_active_mission"), c>> => c.name # "mission_docking"

\* The missions that move a trolley or a picking robot.
Held ==
    mission.kind \in {"get", "return", "move"} =>
        /\ state \in StatesOf[mission.kind]
        /\ triggers \in {<<>>, <<Call("mission_docking")>>}
        /\ mission.kind = "move" => active_wht # None

\* The inductive invariant, with IInv.
MInv == FitsAll /\ Held /\ MissionMatchesState /\ TrolleyMissionsTracked

-----------------------------------------------------------------------------
(* Lemmas about the triggers.                                              *)

\* Where each trigger is called.
LEMMA FitIn ==
    ASSUME NEW s, NEW wht
    PROVE  /\ s = "idle" => Fit("start_fresh_machine", s, wht) /\ Fit("go_staging", s, wht)
           /\ s = "atStaging" => Fit("staging_timeout", s, wht)
           /\ s \in IdleStates =>
                Fit("too_many_failed_whos", s, wht) /\ Fit("process_warehouseorder", s, wht)
           /\ s \in IdleStates \cup {"movingToStaging", "robotError"} =>
                Fit("charge_battery", s, wht)
           /\ s \in {"movingToStaging", "charging"} => Fit("process_warehouseorder", s, wht)
           /\ s = "charging" =>
                Fit("charging_canceled", s, wht) /\ Fit("create_charge_mission", s, wht)
           /\ s \in {"movingToStaging", "robotError"} => Fit("create_staging_mission", s, wht)
           /\ s \in {Source, Loading} => Fit("create_get_trolley_mission", s, wht)
           /\ s \in {Target, Unloading} => Fit("create_return_trolley_mission", s, wht)
           /\ s = Deliver /\ wht # None => Fit("create_move_mission", s, wht)
           /\ s \in {TrolleyError, PickError, "robotError"} => Fit("recover_robot", s, wht)
           /\ s \in {Source, Pick} => Fit("warehouseorder_aborted", s, wht)
           /\ s \in {Source, Deliver} => Fit("invalid_warehousetask", s, wht)
           /\ s \in {TrolleyError, AtTarget, PickError} => Fit("warehouseorder_confirmed", s, wht)
           /\ s = AtPick => Fit("pickpackpass_who_with_tasks", s, wht)
           /\ Fit("mission_succeeded", s, wht) /\ Fit("mission_failed", s, wht)
           /\ Fit("mission_docking", s, wht)
BY DEF Fit, MissionCalls, Sources, CreateMission, StatesOf, ErrorStates

\* What a step leaves queued.
Calls ==
    \/ triggers' = <<>> /\ ~Driving(state', active_wht')
    \/ \E c \in TriggerCall :
         /\ triggers' = <<c>> /\ c.name # "mission_docking"
         /\ Fit(c.name, state', active_wht')

\* A step that calls the one trigger c leaves Calls.
LEMMA CallsOne ==
    ASSUME Tail(triggers) = <<>>, NEW c \in TriggerCall, Then(<<c>>), c.name # "mission_docking",
           Fit(c.name, state', active_wht')
    PROVE  Calls
BY ThenCall DEF Calls

\* The same for a trigger without arguments.
LEMMA CallsName ==
    ASSUME Tail(triggers) = <<>>, NEW name \in TriggerNames, Then(<<Call(name)>>),
           name # "mission_docking", Fit(name, state', active_wht')
    PROVE  Calls
<1>1. PICK c \in TriggerCall : c = Call(name)
  BY CallType
<1> QED BY <1>1, CallsOne DEF Call

\* A step that calls nothing leaves Calls where nobody waits for a mission.
LEMMA CallsNone ==
    ASSUME Tail(triggers) = <<>>, Then(<<>>), ~Driving(state', active_wht')
    PROVE  Calls
BY ThenNone DEF Calls

\* A trigger other than a docking that leaves the mission alone: the missions of
\* the process are not concerned.
LEMMA Moved ==
    ASSUME IInv, MInv, UNCHANGED missionVars, triggers # <<>>,
           Head(triggers).name # "mission_docking", Calls
    PROVE  MInv'
<1>1. mission.kind \notin {"get", "return", "move"}
  BY DEF MInv, Held, Call
<1>2. Held' /\ TrolleyMissionsTracked'
  BY <1>1 DEF MInv, Held, TrolleyMissionsTracked, missionVars
<1>3. FitsAll'
  <2>1. ASSUME NEW d \in TriggerCall, triggers' \in {<<d>>, <<Call("cancel_active_mission"), d>>}
        PROVE  Fits(d)' /\ triggers' # <<Call("cancel_active_mission"), d>>
    <3>1. PICK c \in TriggerCall :
            /\ triggers' = <<c>> /\ c.name # "mission_docking" /\ Fit(c.name, state', active_wht')
      BY <2>1 DEF Calls
    <3>2. d = c
      BY <2>1, <3>1
    <3>3. triggers' # <<Call("cancel_active_mission"), d>>
      BY <3>1
    <3> QED BY <3>1, <3>2, <3>3 DEF Fits
  <2> QED BY <2>1 DEF FitsAll
<1>4. MissionMatchesState'
  BY DEF Calls, MissionMatchesState, Callback, Driving
<1> QED BY <1>2, <1>3, <1>4 DEF MInv

\* What is decided has a transition.
LEMMA Decided ==
    ASSUME Tail(triggers) = <<>>, NEW q, DOMAIN q \subseteq Orders,
           q \in [DOMAIN q -> SUBSET Tasks], NEW f, NEW calls \in Decide_whats_next(q, f),
           Then(calls), state' \in IdleStates
    PROVE  Calls
<1>1. \/ calls = <<>>
      \/ calls = <<Call("charge_battery")>>
      \/ calls = <<Call("too_many_failed_whos")>>
      \/ \E w \in DOMAIN q : calls = <<CallWith("process_warehouseorder", w, q[w])>>
  BY DecideType
<1>2. CASE calls = <<>>
  BY <1>2, CallsNone DEF Driving
<1>3. CASE calls = <<Call("charge_battery")>>
  BY <1>3, CallsName, FitIn, TriggerNamesDef
<1>4. CASE calls = <<Call("too_many_failed_whos")>>
  BY <1>4, CallsName, FitIn, TriggerNamesDef
<1>5. ASSUME NEW w \in DOMAIN q, calls = <<CallWith("process_warehouseorder", w, q[w])>>
      PROVE  Calls
  <2>1. PICK c \in TriggerCall : c = CallWith("process_warehouseorder", w, q[w])
    BY TriggerNamesDef DEF CallWith, TriggerCall
  <2>2. c.name = "process_warehouseorder"
    BY <2>1 DEF CallWith
  <2> QED BY <1>5, <2>1, <2>2, CallsOne, FitIn
<1> QED BY <1>1, <1>2, <1>3, <1>4, <1>5

\* On entering idle, what is decided has a transition.
LEMMA DecidedIdle ==
    ASSUME Tail(triggers) = <<>>, QueueTypeOK', state' = "idle", EnterIdle
    PROVE  Calls
<1>1. PICK q : q = warehouseorders'
  OBVIOUS
<1>2. PICK f : f = failed_warehouseorders'
  OBVIOUS
<1>3. PICK calls \in Decide_whats_next(q, f) : Then(calls)
  BY <1>1, <1>2 DEF EnterIdle
<1>4. DOMAIN q \subseteq Orders /\ q \in [DOMAIN q -> SUBSET Tasks]
  BY <1>1 DEF QueueTypeOK
<1>5. Calls
  BY <1>3, <1>4, Decided
<1> QED BY <1>5

\* Nothing is called.
LEMMA NothingCalled == ASSUME triggers' = <<>> PROVE FitsAll'
BY DEF FitsAll

-----------------------------------------------------------------------------
(* The steps of the machine.                                               *)

\* A trigger that is processed is the last one, and the step leaves Calls.
LEMMA Processed ==
    ASSUME IInv, MInv, UNCHANGED missionVars, NEW name \in TriggerNames, Trigger(name),
           name \notin {"cancel_active_mission", "mission_docking"},
           Tail(triggers) = <<>> => Calls
    PROVE  MInv'
<1>1. triggers # <<>> /\ Head(triggers).name = name
  BY DEF Trigger
<1>2. Tail(triggers) = <<>>
  BY <1>1, HeadDue DEF IInv
<1> QED BY <1>1, <1>2, Moved

\* Setting off: the mission of the new state is created next.
LEMMA SetOffMoves ==
    ASSUME IInv, MInv,
           \/ Go_staging \/ Charge_battery \/ Recover_trolley_robot \/ Too_many_failed_whos
           \/ Free_mission_retry \/ Return_trolley_retry
    PROVE  MInv'
<1>1. CASE Go_staging \/ Too_many_failed_whos
  <2>1. /\ Then(<<Call("create_staging_mission")>>) /\ state' \in {"movingToStaging", "robotError"}
        /\ UNCHANGED missionVars
        /\ Trigger("go_staging") \/ Trigger("too_many_failed_whos")
    BY <1>1 DEF Go_staging, Too_many_failed_whos, Goto, frameVars
  <2>2. Tail(triggers) = <<>> => Calls
    BY <2>1, CallsName, FitIn, TriggerNamesDef
  <2> QED BY <2>1, <2>2, Processed, TriggerNamesDef
<1>2. CASE Charge_battery
  <2>1. /\ Then(<<Call("create_charge_mission")>>) /\ state' = "charging"
        /\ UNCHANGED missionVars /\ Trigger("charge_battery")
    BY <1>2 DEF Charge_battery, Goto, frameVars
  <2>2. Tail(triggers) = <<>> => Calls
    BY <2>1, CallsName, FitIn, TriggerNamesDef
  <2> QED BY <2>1, <2>2, Processed, TriggerNamesDef
<1>3. CASE Recover_trolley_robot \/ Return_trolley_retry
  <2>1. /\ Then(<<Call("create_return_trolley_mission")>>) /\ state' = Target
        /\ UNCHANGED missionVars
        /\ Trigger("recover_robot") \/ Trigger("mission_failed")
    BY <1>3 DEF Recover_trolley_robot, Return_trolley_retry, Goto, frameVars
  <2>2. Tail(triggers) = <<>> => Calls
    BY <2>1, CallsName, FitIn, TriggerNamesDef
  <2> QED BY <2>1, <2>2, Processed, TriggerNamesDef
<1>4. CASE Free_mission_retry
  <2>1. /\ \/ Then(<<Call("create_charge_mission")>>) /\ state = "charging"
           \/ /\ Then(<<Call("create_staging_mission")>>)
              /\ state \in {"movingToStaging", "robotError"}
        /\ state' = state /\ UNCHANGED missionVars /\ Trigger("mission_failed")
    BY <1>4 DEF Free_mission_retry
  <2>2. Tail(triggers) = <<>> => Calls
    BY <2>1, CallsName, FitIn, TriggerNamesDef
  <2> QED BY <2>1, <2>2, Processed, TriggerNamesDef
<1> QED BY <1>1, <1>2, <1>3, <1>4

\* Back to idle, or at the staging area: what is decided comes next.
LEMMA IdleMoves ==
    ASSUME IInv, IInv', MInv,
           \/ Start_fresh_machine \/ Charging_ends \/ Free_mission_given_up
           \/ Recover_free_robot \/ Trolley_order_aborted \/ Trolley_invalid_task
           \/ Trolley_not_loaded \/ Trolley_order_completed \/ Trolley_order_confirmed
           \/ Pick_order_confirmed
    PROVE  MInv'
<1>1. /\ state' = "idle" /\ EnterIdle /\ UNCHANGED missionVars
      /\ \E name \in {"start_fresh_machine", "mission_succeeded", "charging_canceled",
                      "mission_failed", "recover_robot", "warehouseorder_aborted",
                      "invalid_warehousetask", "warehouseorder_confirmed"} : Trigger(name)
  BY DEF Start_fresh_machine, Charging_ends, Free_mission_given_up, Recover_free_robot,
     Trolley_order_aborted, Trolley_invalid_task, Trolley_not_loaded, Trolley_order_failed,
     Trolley_order_completed, Trolley_order_confirmed, Pick_order_confirmed, Goto, frameVars
<1>2. QueueTypeOK'
  BY DEF IInv, TypeOK
<1>3. Tail(triggers) = <<>> => Calls
  BY <1>1, <1>2, DecidedIdle
<1> QED BY <1>1, <1>3, Processed, TriggerNamesDef

\* At the staging area what is decided comes next.
LEMMA StagingMoves == ASSUME IInv, MInv, EnterStaging PROVE MInv'
<1>1. /\ state' = "atStaging" /\ UNCHANGED missionVars
      /\ Trigger("mission_succeeded") \/ Trigger("staging_timeout")
  BY DEF EnterStaging, Goto, frameVars
<1>2. PICK calls \in Decide_whats_next(warehouseorders, failed_warehouseorders) : Then(calls)
  BY DEF EnterStaging
<1>3. Tail(triggers) = <<>> => Calls
  BY <1>1, <1>2, Decided DEF IInv, TypeOK, QueueTypeOK
<1> QED BY <1>1, <1>3, Processed, TriggerNamesDef

\* Arriving, or waiting for help: nothing is called, no mission waited for.
LEMMA ArrivedMoves ==
    ASSUME IInv, MInv,
           Pick_arrived \/ Trolley_not_returned \/ Pick_needs_help
    PROVE  MInv'
<1>1. /\ state' \in {AtPick, AtTarget, TrolleyError, PickError} /\ UNCHANGED missionVars
      /\ Then(<<>>)
      /\ \E name \in {"mission_succeeded", "mission_failed", "warehouseorder_aborted",
                      "invalid_warehousetask"} : Trigger(name)
  BY DEF Pick_arrived, Trolley_not_returned, Pick_needs_help, Goto, frameVars
<1>2. Tail(triggers) = <<>> => Calls
  BY <1>1, CallsNone DEF Driving
<1> QED BY <1>1, <1>2, Processed, TriggerNamesDef

\* A trigger that does nothing where nobody drives.
LEMMA QuietMoves ==
    ASSUME IInv, MInv, Error_mission_over
    PROVE  MInv'
<1>1. /\ state = "robotError" /\ UNCHANGED otherVars /\ Then(<<>>)
      /\ \E name \in {"mission_succeeded", "mission_failed"} : Trigger(name)
  BY DEF Error_mission_over
<1>2. UNCHANGED <<state, missionVars>>
  BY <1>1 DEF otherVars
<1>3. Tail(triggers) = <<>> => Calls
  BY <1>1, <1>2, CallsNone DEF Driving
<1> QED BY <1>1, <1>2, <1>3, Processed, TriggerNamesDef

\* The state of a moveTrolley order is entered: its mission is created, or the
\* order aborted.
LEMMA SourceCalls ==
    ASSUME Tail(triggers) = <<>>, NEW ts \in SUBSET Tasks, state' = Source, EnterSource(ts)
    PROVE  Calls
BY CallsName, FitIn, TriggerNamesDef DEF EnterSource

\* A robot that waits for a sub order drives nowhere.
LEMMA PickCalls ==
    ASSUME Tail(triggers) = <<>>, state' = Pick, EnterPick
    PROVE  Calls
BY CallsNone DEF EnterPick, Driving

\* The same for the delivery.
LEMMA DeliverCalls ==
    ASSUME Tail(triggers) = <<>>, NEW ts \in SUBSET Tasks, state' = Deliver, EnterDeliver(ts)
    PROVE  Calls
<1>1. CASE ts = {}
  BY <1>1, CallsNone DEF EnterDeliver, Driving
<1>2. CASE ts # {}
  <2>1. active_wht' # None
    BY <1>2, OrdersAssumption DEF EnterDeliver
  <2> QED BY <1>2, <2>1, CallsName, FitIn, TriggerNamesDef DEF EnterDeliver
<1> QED BY <1>1, <1>2

\* An order is started.
LEMMA ProcessMoves == ASSUME IInv, MInv, Process_warehouseorder PROVE MInv'
<1>1. /\ UNCHANGED missionVars /\ Trigger("process_warehouseorder")
      /\ \/ state' = Pick /\ EnterPick
         \/ state' = Source /\ EnterSource(Head(triggers).tasks)
  BY DEF Process_warehouseorder, Goto, frameVars
<1>2. Head(triggers) \in TriggerCall /\ Tail(triggers) = <<>>
  BY <1>1, HeadDue DEF IInv, Trigger
<1>3. Head(triggers).tasks \in SUBSET Tasks
  BY <1>2 DEF TriggerCall
<1>4. Calls
  BY <1>1, <1>2, <1>3, SourceCalls, PickCalls
<1> QED BY <1>1, <1>4, Processed, TriggerNamesDef

\* The next mission of an order, or the same again.
LEMMA SourceMoves == ASSUME IInv, MInv, Get_trolley_retry \/ Trolley_next_task PROVE MInv'
<1>1. /\ UNCHANGED missionVars /\ state' = Source
      /\ Trigger("mission_failed") \/ Trigger("mission_succeeded")
      /\ EnterSource(who_tasks) \/ EnterSource(who_tasks \ {active_wht})
  BY DEF Get_trolley_retry, Trolley_next_task, Goto, frameVars
<1>2. Tail(triggers) = <<>>
  BY <1>1, HeadDue DEF IInv, Trigger
<1>3. who_tasks \in SUBSET Tasks /\ who_tasks \ {active_wht} \in SUBSET Tasks
  BY DEF IInv, TypeOK, ActiveTypeOK
<1>4. Calls
  BY <1>1, <1>2, <1>3, SourceCalls
<1> QED BY <1>1, <1>4, Processed, TriggerNamesDef

\* The trolley is loaded: its return mission is created.
LEMMA LoadedMoves == ASSUME IInv, MInv, Trolley_loaded PROVE MInv'
<1>1. /\ UNCHANGED missionVars /\ state' = Target /\ Trigger("mission_succeeded")
      /\ Then(<<Call("create_return_trolley_mission")>>)
  BY DEF Trolley_loaded, Goto, frameVars
<1>2. Tail(triggers) = <<>> => Calls
  BY <1>1, CallsName, FitIn, TriggerNamesDef
<1> QED BY <1>1, <1>2, Processed, TriggerNamesDef

\* The pickPackPass process: the same again, or waiting for a sub order.
LEMMA PickMoves == ASSUME IInv, MInv, Pick_mission_retry \/ Recover_pick_robot PROVE MInv'
<1>1. /\ UNCHANGED missionVars
      /\ Trigger("mission_failed") \/ Trigger("recover_robot")
      /\ \/ state' = Pick /\ EnterPick
         \/ state' = Deliver /\ EnterDeliver(who_tasks)
  BY DEF Pick_mission_retry, Recover_pick_robot, Goto, frameVars
<1>2. Tail(triggers) = <<>>
  BY <1>1, HeadDue DEF IInv, Trigger
<1>3. who_tasks \in SUBSET Tasks
  BY DEF IInv, TypeOK, ActiveTypeOK
<1>4. Calls
  BY <1>1, <1>2, <1>3, PickCalls, DeliverCalls
<1> QED BY <1>1, <1>4, Processed, TriggerNamesDef

\* The delivery starts.
LEMMA DeliveryMoves == ASSUME IInv, MInv, Start_delivery PROVE MInv'
<1>1. /\ UNCHANGED missionVars /\ state' = Deliver /\ Trigger("pickpackpass_who_with_tasks")
      /\ EnterDeliver(who_tasks \ {active_wht})
  BY DEF Start_delivery, Goto, frameVars
<1>2. Tail(triggers) = <<>> /\ who_tasks \ {active_wht} \in SUBSET Tasks
  BY <1>1, HeadDue DEF IInv, Trigger, TypeOK, ActiveTypeOK
<1>3. Calls
  BY <1>1, <1>2, DeliverCalls
<1> QED BY <1>1, <1>3, Processed, TriggerNamesDef

\* Docking: the mission goes on, and so does its robot.
LEMMA DockingMoves == ASSUME IInv, MInv, Trolley_docking PROVE MInv'
<1>1. /\ UNCHANGED missionVars /\ UNCHANGED activeVars
      /\ \/ state = Source /\ state' = Loading
         \/ state = Target /\ state' = Unloading
  BY DEF Trolley_docking, Goto, frameVars
<1>2. CASE Trigger("mission_succeeded")
  <2>1. Then(<<Call("mission_succeeded")>>)
    BY <1>2 DEF Trolley_docking
  <2>2. Tail(triggers) = <<>> => Calls
    BY <2>1, CallsName, FitIn, TriggerNamesDef
  <2> QED BY <1>1, <1>2, <2>2, Processed, TriggerNamesDef
<1>3. CASE Trigger("mission_docking") /\ ~Trigger("mission_succeeded")
  <2>1. PICK c \in TriggerCall : c = Head(triggers) /\ triggers = <<c>> /\ Tail(triggers) = <<>>
    BY <1>3, HeadDue DEF IInv, Trigger
  <2>2. Matched
    BY <1>3, <2>1 DEF MInv, FitsAll, Fits, Trigger
  <2>3. triggers' = <<>>
    BY <1>3, <2>1, ThenNone DEF Trolley_docking
  <2>4. mission.kind = IF state = Source THEN "get" ELSE "return"
    BY <1>1, <2>2 DEF Matched
  <2>5. Held' /\ MissionMatchesState' /\ TrolleyMissionsTracked'
    BY <1>1, <2>3, <2>4
       DEF Held, MissionMatchesState, TrolleyMissionsTracked, MInv, missionVars, StatesOf
  <2>6. FitsAll'
    BY <2>3, NothingCalled
  <2> QED BY <2>5, <2>6 DEF MInv
<1> QED BY <1>2, <1>3 DEF Trolley_docking


\* A trigger that is refused leaves no robot waiting for a mission it lacks.
LEMMA RefusedMoves == ASSUME IInv, MInv, Refused PROVE MInv'
<1>1. /\ triggers # <<>> /\ state \notin Sources[Head(triggers).name] /\ triggers' = <<>>
      /\ UNCHANGED <<state, active_wht, missionVars>>
  BY DEF Refused, otherVars, orderVars, activeVars
<1>2. Head(triggers).name # "cancel_active_mission"
  <2>1. Sources["cancel_active_mission"] = States
    BY DEF Sources
  <2> QED BY <1>1, <2>1 DEF IInv, TypeOK, StateTypeOK
<1>3. PICK c \in TriggerCall : c = Head(triggers) /\ triggers = <<c>>
  BY <1>1, <1>2, HeadDue DEF IInv
<1>4. Fits(c) /\ state \notin Sources[c.name]
  BY <1>1, <1>3 DEF MInv, FitsAll
<1>5. c.name \in MissionCalls
  BY <1>4 DEF Fits, Fit
<1>6. CASE c.name = "mission_docking"
  <2>1. MissionMatchesState'
    BY <1>1, <1>4, <1>6 DEF Fits, Matched, MissionMatchesState, missionVars
  <2> QED BY <1>1, <2>1, NothingCalled
          DEF MInv, Held, TrolleyMissionsTracked, missionVars
<1>7. CASE c.name \in {"mission_succeeded", "mission_failed"}
  <2>1. state \notin {"movingToStaging", "charging", Source, Loading, Target, Unloading,
                      Pick, Deliver}
    BY <1>4, <1>7 DEF Sources
  <2>2. MissionMatchesState'
    BY <1>1, <2>1 DEF MissionMatchesState
  <2> QED BY <1>1, <2>2, NothingCalled
          DEF MInv, Held, TrolleyMissionsTracked, missionVars
<1> QED BY <1>5, <1>6, <1>7 DEF MissionCalls

\* No mission of a process is cancelled.
LEMMA CancelMoves == ASSUME IInv, MInv, Cancel_active_mission PROVE MInv'
<1>1. PICK c \in TriggerCall : triggers = <<Call("cancel_active_mission"), c>>
  <2>1. PICK c \in TriggerCall :
          Due(c) /\ triggers \in {<<c>>, <<Call("cancel_active_mission"), c>>}
    BY DEF IInv, TriggersOK, Cancel_active_mission, Trigger
  <2>2. triggers # <<c>>
    BY <2>1 DEF Due, Cancel_active_mission, Trigger
  <2> QED BY <2>1, <2>2
<1>2. triggers' = <<c>>
  <2>1. Tail(triggers) = <<c>>
    BY <1>1
  <2>2. <<c>> \o <<>> = <<c>>
    OBVIOUS
  <2> QED BY <2>1, <2>2 DEF Cancel_active_mission, Then
<1>3. c.name # "mission_docking" /\ Fit(c.name, state, active_wht)
  BY <1>1 DEF MInv, FitsAll, Fits
<1>4. /\ mission' = NoMission
      /\ orphans' \in {orphans, orphans \cup {mission.kind}}
      /\ UNCHANGED <<state, active_wht>>
      /\ orphans' # orphans => mission.status = "created"
  BY DEF Cancel_active_mission, orderVars, activeVars
<1>5. FitsAll'
  <2>1. ASSUME NEW d \in TriggerCall,
               triggers' \in {<<d>>, <<Call("cancel_active_mission"), d>>}
        PROVE  Fits(d)' /\ triggers' # <<Call("cancel_active_mission"), d>>
    <3>1. triggers' # <<Call("cancel_active_mission"), d>> /\ d = c
      BY <1>2, <2>1
    <3> QED BY <1>3, <1>4, <3>1 DEF Fits
  <2> QED BY <2>1 DEF FitsAll
<1>6. mission.kind \notin {"get", "return", "move"}
  <2>1. triggers # <<>> /\ triggers # <<Call("mission_docking")>>
    BY <1>1
  <2> QED BY <2>1 DEF MInv, Held
<1>7. TrolleyMissionsTracked'
  BY <1>4, <1>6 DEF MInv, TrolleyMissionsTracked, IInv, TypeOK, MissionTypeOK, Mission,
     MissionKinds, NoMission
<1>8. Held' /\ MissionMatchesState'
  BY <1>2, <1>4 DEF Held, NoMission, MInv, MissionMatchesState, Callback
<1> QED BY <1>5, <1>7, <1>8 DEF MInv

\* The mission created is the one the robot waits for, and replaces none of a process.
LEMMA CreateMoves == ASSUME IInv, MInv, Create_mission PROVE MInv'
<1>1. /\ triggers # <<>> /\ Head(triggers).name \in DOMAIN CreateMission
      /\ mission' = [kind |-> CreateMission[Head(triggers).name], status |-> "created"]
      /\ orphans' \in {orphans, orphans \cup {mission.kind}}
      /\ orphans' # orphans => mission.status \in {"created", "running", "docking"}
      /\ UNCHANGED <<state, active_wht>> /\ Then(<<>>)
  BY DEF Create_mission, orderVars, activeVars
<1>2. PICK c \in TriggerCall : c = Head(triggers) /\ triggers = <<c>> /\ Tail(triggers) = <<>>
  BY <1>1, HeadDue DEF IInv, CreateMission
<1>3. triggers' = <<>>
  BY <1>1, <1>2, ThenNone
<1>4. /\ c.name \in DOMAIN CreateMission
      /\ state \in StatesOf[CreateMission[c.name]]
      /\ c.name = "create_move_mission" => active_wht # None
  BY <1>1, <1>2 DEF MInv, FitsAll, Fits, Fit
<1>5. mission.kind \notin {"get", "return", "move"}
  <2>1. triggers # <<>> /\ triggers # <<Call("mission_docking")>>
    BY <1>1, <1>2 DEF CreateMission, Call
  <2> QED BY <2>1 DEF MInv, Held
<1>6. TrolleyMissionsTracked'
  BY <1>1, <1>5 DEF MInv, TrolleyMissionsTracked, IInv, TypeOK, MissionTypeOK, Mission,
     MissionKinds, NoMission
<1>7. mission'.kind = CreateMission[c.name]
  BY <1>1, <1>2
<1>8. Held' /\ MissionMatchesState'
  BY <1>1, <1>3, <1>4, <1>7
     DEF Held, MInv, MissionMatchesState, StatesOf, CreateMission
<1> QED BY <1>3, <1>6, <1>8, NothingCalled DEF MInv

\* Every transition keeps MInv.
LEMMA MachineMoves == ASSUME IInv, IInv', MInv, Machine PROVE MInv'
BY SetOffMoves, IdleMoves, StagingMoves, ArrivedMoves, QuietMoves, ProcessMoves, SourceMoves,
   LoadedMoves, PickMoves, DeliveryMoves, DockingMoves, RefusedMoves, CancelMoves, CreateMoves
   DEF Machine

-----------------------------------------------------------------------------
(* The callbacks and the environment.                                      *)

\* A callback that calls nothing, or a trigger that has a transition where the
\* robot has no mission of a process.
LEMMA Called ==
    ASSUME MInv, Callback, UNCHANGED <<state, active_wht, missionVars>>,
           \/ triggers' = <<>>
           \/ \E c \in TriggerCall :
                /\ triggers' \in {<<c>>, <<Call("cancel_active_mission"), c>>}
                /\ c.name # "mission_docking"
                /\ Fit(c.name, state, active_wht)
                /\ mission.kind \notin {"get", "return", "move"}
    PROVE  MInv'
<1>1. TrolleyMissionsTracked'
  BY DEF MInv, TrolleyMissionsTracked, missionVars
<1>2. CASE triggers' = <<>>
  <2>1. Held' /\ MissionMatchesState'
    BY <1>2 DEF MInv, Held, MissionMatchesState, Callback, missionVars
  <2> QED BY <1>1, <1>2, <2>1, NothingCalled DEF MInv
<1>3. ASSUME NEW c \in TriggerCall, c.name # "mission_docking",
             triggers' \in {<<c>>, <<Call("cancel_active_mission"), c>>},
             Fit(c.name, state, active_wht), mission.kind \notin {"get", "return", "move"}
      PROVE  MInv'
  <2>1. triggers' # <<>>
    BY <1>3
  <2>2. Held' /\ MissionMatchesState'
    BY <1>3, <2>1 DEF Held, MissionMatchesState, Callback, missionVars
  <2>3. ASSUME NEW d \in TriggerCall,
               \/ triggers' = <<d>>
               \/ triggers' = <<Call("cancel_active_mission"), d>>
        PROVE  d = c
    BY <1>3, <2>3
  <2>4. ASSUME NEW d \in TriggerCall,
               triggers' \in {<<d>>, <<Call("cancel_active_mission"), d>>}
        PROVE  Fits(d)' /\ d.name # "mission_docking"
    <3>1. d = c
      BY <2>3, <2>4
    <3> QED BY <1>3, <3>1 DEF Fits
  <2>5. FitsAll'
    BY <2>4 DEF FitsAll
  <2> QED BY <1>1, <2>2, <2>5 DEF MInv
<1> QED BY <1>2, <1>3

\* The same for a trigger without arguments.
LEMMA CalledName ==
    ASSUME MInv, Callback, UNCHANGED <<state, active_wht, missionVars>>,
           NEW name \in TriggerNames, name # "mission_docking",
           triggers' \in {<<Call(name)>>, <<Call("cancel_active_mission"), Call(name)>>},
           Fit(name, state, active_wht), mission.kind \notin {"get", "return", "move"}
    PROVE  MInv'
<1>1. PICK c \in TriggerCall : c = Call(name) /\ c.name = name
  BY CallType DEF Call
<1> QED BY <1>1, Called

\* Where the robot has no mission of a process.
LEMMA NotHeld ==
    ASSUME MInv, state \notin {Source, Loading, Target, Unloading, Deliver}
    PROVE  mission.kind \notin {"get", "return", "move"}
BY DEF MInv, Held, StatesOf

\* What a callback that only calls triggers leaves alone.
LEMMA OthersKept ==
    ASSUME UNCHANGED otherVars
    PROVE  UNCHANGED <<state, active_wht, missionVars>>
BY DEF otherVars, orderVars, activeVars

\* The status of the mission is passed on to a robot that waits for it.
LEMMA MissionCbMoves == ASSUME IInv, MInv, Mission_cb PROVE MInv'
<1>1. /\ triggers = <<>> /\ UNCHANGED <<state, active_wht, orphans>>
  BY DEF Mission_cb, Callback, orderVars, activeVars
<1>2. PICK name \in MissionCalls :
        /\ triggers' = <<Call(name)>>
        /\ IF name = "mission_docking" THEN mission' = mission ELSE mission' = NoMission
  BY DEF Mission_cb, MissionCalls
<1>3. PICK c \in TriggerCall : c = Call(name) /\ c.name = name
  BY CallType, TriggerNamesDef DEF Call, MissionCalls
<1>4. Fit(name, state, active_wht)
  BY FitIn DEF MissionCalls
<1>5. Matched /\ (name = "mission_docking" => Matched')
  BY <1>1, <1>2 DEF MInv, MissionMatchesState, Callback, Matched
<1>6. FitsAll'
  <2>1. ASSUME NEW d \in TriggerCall,
               triggers' \in {<<d>>, <<Call("cancel_active_mission"), d>>}
        PROVE  Fits(d)' /\ triggers' # <<Call("cancel_active_mission"), d>>
    <3>1. d = c /\ triggers' # <<Call("cancel_active_mission"), d>>
      BY <1>2, <1>3, <2>1
    <3> QED BY <1>1, <1>3, <1>4, <1>5, <3>1 DEF Fits
  <2> QED BY <2>1 DEF FitsAll
<1>7. triggers' # <<>>
  BY <1>2
<1>8. Held'
  BY <1>1, <1>2 DEF MInv, Held, NoMission
<1>9. TrolleyMissionsTracked' /\ MissionMatchesState'
  BY <1>1, <1>7 DEF MInv, TrolleyMissionsTracked, MissionMatchesState, Callback
<1> QED BY <1>6, <1>8, <1>9 DEF MInv

\* The battery callback acts where there is no mission of a process.
LEMMA RobotCbMoves == ASSUME IInv, MInv, Robot_cb PROVE MInv'
<1>1. /\ Callback /\ UNCHANGED otherVars
      /\ state \in {"atStaging", "movingToStaging", "robotError", "charging"}
  BY DEF Robot_cb
<1>2. mission.kind \notin {"get", "return", "move"}
  BY <1>1, NotHeld
<1>3. CASE /\ state # "charging"
           /\ triggers' \in {<<Call("charge_battery")>>,
                             <<Call("cancel_active_mission"), Call("charge_battery")>>}
  <2>1. Fit("charge_battery", state, active_wht)
    BY <1>1, <1>3, FitIn
  <2> QED BY <1>1, <1>2, <1>3, <2>1, CalledName, OthersKept, TriggerNamesDef
<1>4. ASSUME NEW w \in DOMAIN warehouseorders, state = "charging",
             triggers' = <<Call("cancel_active_mission"),
                           CallWith("process_warehouseorder", w, warehouseorders[w])>>
      PROVE  MInv'
  <2>1. w \in Orders /\ warehouseorders[w] \in SUBSET Tasks
    BY DEF IInv, TypeOK, QueueTypeOK
  <2>2. PICK c \in TriggerCall : c = CallWith("process_warehouseorder", w, warehouseorders[w])
    BY <2>1, TriggerNamesDef DEF CallWith, TriggerCall
  <2>3. c.name = "process_warehouseorder" /\ Fit("process_warehouseorder", state, active_wht)
    BY <1>4, <2>2, FitIn DEF CallWith
  <2>4. triggers' = <<Call("cancel_active_mission"), c>>
    BY <1>4, <2>2
  <2> QED BY <1>1, <1>2, <2>3, <2>4, Called, OthersKept
<1> QED BY <1>1, <1>3, <1>4 DEF Robot_cb

\* An order that was waited for: nobody drives then.
LEMMA AwaitedMoves ==
    ASSUME MInv, Callback, UNCHANGED <<state, active_wht, missionVars>>,
           NEW w, triggers' = Awaited_completion(w)
    PROVE  MInv'
<1>1. CASE /\ state \in {TrolleyError, PickError, AtTarget}
           /\ triggers' = <<Call("warehouseorder_confirmed")>>
  <2>1. Fit("warehouseorder_confirmed", state, active_wht)
    BY <1>1, FitIn
  <2> QED BY <1>1, <2>1, CalledName, NotHeld, TriggerNamesDef
<1> QED BY <1>1, Called DEF Awaited_completion

\* The callbacks of the configuration and the timeouts.
LEMMA SimpleCbMoves ==
    ASSUME IInv, MInv,
           \/ Cfg_recover_cb \/ Cfg_idle_charge_states_cb \/ Idle_timeout \/ Staging_timeout
    PROVE  MInv'
<1>1. Callback /\ UNCHANGED otherVars
  BY DEF Cfg_recover_cb, Cfg_idle_charge_states_cb, Idle_timeout, Staging_timeout
<1>2. PICK name \in {"recover_robot", "staging_timeout", "charging_canceled", "go_staging"} :
        /\ triggers' \in {<<Call(name)>>, <<Call("cancel_active_mission"), Call(name)>>}
        /\ name = "recover_robot" => state \in ErrorStates
        /\ name = "staging_timeout" => state = "atStaging"
        /\ name = "charging_canceled" => state = "charging"
        /\ name = "go_staging" => state = "idle"
  BY DEF Cfg_recover_cb, Cfg_idle_charge_states_cb, Idle_timeout, Staging_timeout
<1>3. Fit(name, state, active_wht)
  BY <1>2, FitIn DEF ErrorStates
<1>4. mission.kind \notin {"get", "return", "move"}
  BY <1>2, NotHeld DEF ErrorStates
<1> QED BY <1>1, <1>2, <1>3, <1>4, CalledName, OthersKept, TriggerNamesDef

\* A new or changed order of the robot.
LEMMA OrderCbMoves ==
    ASSUME IInv, MInv, NEW w \in Orders, NEW spec \in Events(w), Warehouseorder_cb(w, spec)
    PROVE  MInv'
<1> DEFINE ts == spec.tasks
<1>1. /\ Callback /\ ts \in SUBSET Tasks
      /\ triggers' = Update_robot_who_calls(w, ts)
      /\ UNCHANGED <<state, active_wht, missionVars>>
  BY OrdersAssumption DEF Warehouseorder_cb, Events
<1>2. CASE state = AtPick /\ triggers' = <<Call("pickpackpass_who_with_tasks")>>
  <2>1. Fit("pickpackpass_who_with_tasks", state, active_wht)
    BY <1>2, FitIn
  <2> QED BY <1>1, <1>2, <2>1, CalledName, NotHeld, TriggerNamesDef
<1>3. CASE /\ state \in IdleStates \cup {"movingToStaging", "charging"}
           /\ triggers' \in {<<CallWith("process_warehouseorder", w, ts)>>,
                             <<Call("cancel_active_mission"),
                               CallWith("process_warehouseorder", w, ts)>>}
  <2>1. PICK c \in TriggerCall : c = CallWith("process_warehouseorder", w, ts)
    BY <1>1, TriggerNamesDef DEF CallWith, TriggerCall
  <2>2. c.name = "process_warehouseorder" /\ Fit("process_warehouseorder", state, active_wht)
    BY <1>3, <2>1, FitIn DEF CallWith
  <2>3. triggers' \in {<<c>>, <<Call("cancel_active_mission"), c>>}
    BY <1>3, <2>1
  <2>4. mission.kind \notin {"get", "return", "move"}
    BY <1>3, NotHeld
  <2> QED BY <1>1, <2>2, <2>3, <2>4, Called
<1>4. CASE Update_robot_who_calls(w, ts) = <<>>
  BY <1>1, <1>4, Called
<1> QED BY <1>1, <1>2, <1>3, <1>4 DEF Update_robot_who_calls

\* The event of a sub order ends in an error.
LEMMA SubCbMoves ==
    ASSUME IInv, MInv, NEW s \in SubOrders, Sub_warehouseorder_cb(s)
    PROVE  MInv'
<1>1. Callback /\ triggers' = <<>> /\ UNCHANGED <<state, active_wht, missionVars>>
  BY DEF Sub_warehouseorder_cb, orderVars, activeVars
<1> QED BY <1>1, Called

\* Every callback keeps MInv.
LEMMA CallbackMoves == ASSUME IInv, MInv, Callbacks PROVE MInv'
<1>1. ASSUME NEW w \in Orders, Warehouseorder_processed_cb(w) \/ Warehouseorder_deleted_cb(w)
      PROVE  MInv'
  <2>1. /\ Callback /\ triggers' = Awaited_completion(w)
        /\ UNCHANGED <<state, active_wht, missionVars>>
    BY <1>1, OthersKept
       DEF Warehouseorder_processed_cb, Warehouseorder_deleted_cb, activeVars
  <2> QED BY <2>1, AwaitedMoves
<1> QED BY <1>1, MissionCbMoves, RobotCbMoves, SimpleCbMoves, OrderCbMoves, SubCbMoves
        DEF Callbacks

\* The environment creates no mission and ends none of a process unseen.
LEMMA EnvironmentMoves == ASSUME IInv, MInv, Environment PROVE MInv'
<1>1. /\ UNCHANGED <<state, triggers, active_wht>>
      /\ orphans' \subseteq orphans
      /\ \/ mission' = mission
         \/ \E st \in {"running", "docking", "succeeded", "failed"} :
              mission' = [mission EXCEPT !.status = st]
  BY DEF Environment, Watch_order, Order_processed, Sub_order_sent, Update_robot_status, Set_mode,
         Mission_watched, Mission_docks, Mission_ends, Orphan_ends, machineVars, missionVars,
         orderVars, activeVars
<1>2. mission'.kind = mission.kind
  BY <1>1 DEF IInv, TypeOK, MissionTypeOK, Mission, NoMission
<1>3. FitsAll'
  BY <1>1, <1>2 DEF MInv, FitsAll, Fits, Matched
<1>4. Held' /\ MissionMatchesState' /\ TrolleyMissionsTracked'
  BY <1>1, <1>2 DEF MInv, Held, MissionMatchesState, Callback, TrolleyMissionsTracked
<1> QED BY <1>3, <1>4 DEF MInv

-----------------------------------------------------------------------------
(* The theorems.                                                           *)

\* With IInv, MInv is an inductive invariant of the machine.
THEOREM MissionsKept == Spec => []MInv
<1>1. Init => MInv
  <2> SUFFICES ASSUME Init PROVE MInv
    OBVIOUS
  <2>1. PICK c \in TriggerCall : c = Call("start_fresh_machine")
    BY CallType, TriggerNamesDef
  <2>2. triggers = <<c>> /\ state = "idle" /\ c.name = "start_fresh_machine"
    BY <2>1 DEF Init, Call
  <2>3. ASSUME NEW d \in TriggerCall, triggers \in {<<d>>, <<Call("cancel_active_mission"), d>>}
        PROVE  Fits(d) /\ triggers # <<Call("cancel_active_mission"), d>>
    <3>1. d = c /\ triggers # <<Call("cancel_active_mission"), d>>
      BY <2>2, <2>3
    <3> QED BY <2>2, <3>1, FitIn DEF Fits
  <2>4. FitsAll
    BY <2>3 DEF FitsAll
  <2>5. Held /\ MissionMatchesState /\ TrolleyMissionsTracked
    BY <2>2 DEF Init, Held, MissionMatchesState, Callback, TrolleyMissionsTracked,
       NoMission
  <2> QED BY <2>4, <2>5 DEF MInv
<1>2. IInv /\ IInv' /\ MInv /\ [Next]_vars => MInv'
  <2>1. ASSUME MInv, UNCHANGED vars PROVE MInv'
    BY <2>1 DEF MInv, FitsAll, Fits, Matched, Held, MissionMatchesState, Callback,
       TrolleyMissionsTracked, vars, orderVars, activeVars, missionVars
  <2> QED BY <2>1, MachineMoves, CallbackMoves, EnvironmentMoves DEF Next
<1> QED BY <1>1, <1>2, Inductive, PTL DEF Spec

\* Whenever the machine is quiescent in a driving state, active_mission names a
\* mission of the kind that state waits for.
THEOREM MissionMatches == Spec => []MissionMatchesState
<1>1. MInv => MissionMatchesState
  BY DEF MInv
<1> QED BY <1>1, MissionsKept, PTL

\* No mission that moves a trolley or a picking robot is overwritten or
\* cancelled before its CR is known.
THEOREM MissionsTracked == Spec => []TrolleyMissionsTracked
<1>1. MInv => TrolleyMissionsTracked
  BY DEF MInv
<1> QED BY <1>1, MissionsKept, PTL
=============================================================================
