-------------------------- MODULE RobotStateMachine --------------------------
(***************************************************************************)
(* The state machine of one robot in the ewm-robot-controller              *)
(* (statemachine.py, with its transition table statemachine_config.py) and *)
(* the three sets of custom resources it works on: its missions            *)
(* (missioncontroller.py), its robotconfiguration                          *)
(* (robotconfigcontroller.py) and its warehouse orders                     *)
(* (ordercontroller.py).                                                   *)
(*                                                                         *)
(* The machine is a LockedHierarchicalMachine with queued=True.  A watch   *)
(* callback runs with the machine's lock held; a trigger called while      *)
(* another one is processed is appended to the machine's queue and runs    *)
(* after it, still under the lock.  So a callback is one step that starts  *)
(* with an empty queue and leaves the triggers it calls in `triggers`, and *)
(* every queued trigger is one step of its own.  What other threads write  *)
(* without that lock (the CR caches, the battery level, the configuration) *)
(* may change between any two steps.                                       *)
(***************************************************************************)
EXTENDS Integers, Sequences, FiniteSets

CONSTANTS
    Orders,            \* warehouse orders assigned to this robot
    PickOrders,        \* those of Orders with flgwho set
    SubOrders,         \* sub orders of its pickPackPass orders
    Tasks,             \* warehouse tasks
    TasksOf,           \* the tasks an order can have, by order
    TopOf,             \* topwhoid of a sub order
    NonHuTasks,        \* tasks with flghuto unset
    None,              \* no order, no task, no spec
    MaxRetry,          \* max_retry_count
    MaxFailedOrders,   \* the literal 3 of _decide_whats_next
    BatteryLevels, BatteryMin, BatteryIdle, BatteryOk,
    ChargeTarget,      \* the literal 90 of _decide_whats_next
    Modes,             \* the modes the configuration may be set to
    MayFail,           \* bound: the kinds of missions that may fail
    PromptWatch,       \* TRUE: no mission ends before the watch has caught up
    OlderEvents        \* bound: FALSE if an event waits no longer than the cache lags

ASSUME OrdersAssumption ==
    /\ None \notin Orders \cup Tasks
    /\ PickOrders \subseteq Orders
    /\ TasksOf \in [Orders -> SUBSET Tasks]
    /\ TopOf \in [SubOrders -> PickOrders]

ASSUME ParameterAssumption ==
    /\ MaxRetry \in Nat \ {0}
    /\ MaxFailedOrders \in Nat
    /\ BatteryLevels \subseteq Int
    /\ {BatteryMin, BatteryIdle, BatteryOk, ChargeTarget} \subseteq Int
    /\ Modes \subseteq {"RUN", "IDLE", "CHARGE", "STOP"}
    /\ {PromptWatch, OlderEvents} \subseteq BOOLEAN

-----------------------------------------------------------------------------
(* States, missions, confirmations and triggers.                           *)

Source   == "moveTrolley_movingToSourceBin"
Loading  == "moveTrolley_loadingTrolley"
Target   == "moveTrolley_movingToTargetBin"
Unloading == "moveTrolley_unloadingTrolley"
TrolleyError == "moveTrolley_waitingForErrorRecovery"
Pick     == "pickPackPass_movingtoPickLocation"
AtPick   == "pickPackPass_waitingAtPick"
Deliver  == "pickPackPass_movingtoTargetLocation"
AtTarget == "pickPackPass_waitingAtTarget"
PickError == "pickPackPass_waitingForErrorRecovery"

TrolleyStates == {Source, Loading, Target, Unloading, TrolleyError}
PickStates    == {Pick, AtPick, Deliver, AtTarget, PickError}
IdleStates    == {"idle", "atStaging"}
FreeStates    == IdleStates \cup {"movingToStaging", "charging", "robotError"}
ErrorStates   == {TrolleyError, PickError, "robotError"}
States        == FreeStates \cup TrolleyStates \cup PickStates

MissionKinds == {"staging", "charge", "get", "return", "move"}
Mission   == [kind : MissionKinds,
              status : {"created", "running", "docking", "succeeded", "failed"}]
NoMission == [kind |-> "none", status |-> "none"]

\* A confirmation of a task: <<task, FIRST or SECOND, SUCCESS or ERROR>>.
Confirmations == Tasks \X {"FIRST", "SECOND"} \X {"SUCCESS", "ERROR"}

\* What a robot reads and writes of an order's CR: the confirmations in
\* status.data and how often its finalizer is in metadata.finalizers (a second
\* entry is as bad as a third: MaxFinalizers is the bound of the count).
MaxFinalizers == 2
OrderCR == [data : SUBSET Confirmations, fin : 0..MaxFinalizers]

\* The spec of an order's CR: its tasks, and the confirmations the order
\* manager has processed (process_status).
OrderSpec == [tasks : SUBSET Tasks, data : SUBSET Confirmations]

CreateMission == [create_staging_mission |-> "staging",
                  create_charge_mission  |-> "charge",
                  create_get_trolley_mission    |-> "get",
                  create_return_trolley_mission |-> "return",
                  create_move_mission    |-> "move"]

\* The states in which a trigger has a transition; elsewhere it raises a
\* MachineError.  Two triggers are left out that only a sub order calls
\* (see Sub_warehouseorder_cb): new_active_sub_who, warehousetask_confirmed.
Sources == [
    start_fresh_machine |-> {"idle"},
    go_staging          |-> {"idle"},
    staging_timeout     |-> {"atStaging"},
    too_many_failed_whos |-> IdleStates,
    charge_battery      |-> IdleStates \cup {"movingToStaging", "robotError"},
    charging_canceled   |-> {"charging"},
    recover_robot       |-> ErrorStates,
    process_warehouseorder |-> IdleStates \cup
        {"charging", "movingToStaging", Unloading, AtTarget},
    mission_docking     |-> {Source, Target},
    mission_succeeded   |-> {"movingToStaging", "charging", "robotError",
                             Source, Loading, Target, Unloading, Pick, Deliver},
    mission_failed      |-> {"movingToStaging", "charging", "robotError",
                             Source, Loading, Target, Unloading, Pick, Deliver},
    warehouseorder_aborted   |-> {Source, Pick},
    invalid_warehousetask    |-> {Source, Deliver},
    warehouseorder_confirmed |-> {TrolleyError, AtTarget, PickError},
    pickpackpass_who_with_tasks |-> {AtPick},
    cancel_active_mission    |-> States,
    create_staging_mission   |-> States,
    create_charge_mission    |-> States,
    create_get_trolley_mission    |-> States,
    create_return_trolley_mission |-> States,
    create_move_mission      |-> States]

TriggerNames == DOMAIN Sources

\* A queued trigger with its keyword arguments: an order and its tasks.
TriggerCall == [name : TriggerNames, who : Orders \cup {None}, tasks : SUBSET Tasks]
Call(name) == [name |-> name, who |-> None, tasks |-> {}]
CallWith(name, w, ts) == [name |-> name, who |-> w, tasks |-> ts]

-----------------------------------------------------------------------------
VARIABLES
    state,                \* state of the machine
    triggers,             \* triggers called and not yet processed
    warehouseorders,      \* the queue: tasks of each order in it, by order
    active_who, who_tasks,          \* order in process and its tasks
    active_wht,                     \* task in process
    mission,              \* the mission named by active_mission
    orphans,              \* kinds of missions running that no one tracks
    error_count, failed_warehouseorders,
    processed_order_spec, \* last spec of an order processed
    mode, battery,        \* conf.mode and battery_percentage
    cr, cache,            \* order CRs in the API server and as last watched
    order_status,         \* spec.order_status of the order CRs
    sub_events            \* sub orders whose event waits for its callback

activeVars == <<active_who, who_tasks, active_wht>>
queueVars  == <<warehouseorders, processed_order_spec>>
orderVars  == <<activeVars, queueVars>>
missionVars == <<mission, orphans>>
countVars  == <<error_count, failed_warehouseorders>>
envVars    == <<mode, battery, cache, order_status, sub_events>>
\* What a callback that only calls triggers, and what most transitions, leave alone.
otherVars == <<state, orderVars, missionVars, countVars, envVars, cr>>
frameVars == <<queueVars, missionVars, failed_warehouseorders, envVars>>
vars == <<state, triggers, orderVars, missionVars, countVars, envVars, cr>>

StateTypeOK ==
    /\ state \in States
    /\ error_count \in [States -> 0..MaxRetry]
    /\ failed_warehouseorders \in 0..(MaxFailedOrders + 1)

ActiveTypeOK ==
    /\ active_who \in Orders \cup {None}
    /\ who_tasks \in SUBSET Tasks
    /\ active_wht \in Tasks \cup {None}

QueueTypeOK ==
    /\ DOMAIN warehouseorders \subseteq Orders
    /\ warehouseorders \in [DOMAIN warehouseorders -> SUBSET Tasks]
    /\ processed_order_spec \in [Orders -> OrderSpec \cup {None}]

MissionTypeOK ==
    /\ mission \in Mission \cup {NoMission}
    /\ orphans \in SUBSET MissionKinds

EnvTypeOK ==
    /\ mode \in Modes
    /\ battery \in BatteryLevels
    /\ cache \in [Orders -> OrderCR]
    /\ order_status \in [Orders -> {"RUNNING", "PROCESSED", "DELETED"}]
    /\ sub_events \in SUBSET SubOrders

\* The type invariant; with it, no state is retried more than MaxRetry times.
TypeOK ==
    /\ StateTypeOK
    /\ triggers \in Seq(TriggerCall)
    /\ ActiveTypeOK
    /\ QueueTypeOK
    /\ MissionTypeOK
    /\ EnvTypeOK
    /\ cr \in [Orders -> OrderCR]

Init ==
    /\ state = "idle"
    /\ triggers = <<Call("start_fresh_machine")>>
    /\ warehouseorders = [w \in {} |-> {}]
    /\ active_who = None /\ who_tasks = {} /\ active_wht = None
    /\ mission = NoMission /\ orphans = {}
    /\ error_count = [s \in States |-> 0]
    /\ failed_warehouseorders = 0
    /\ processed_order_spec = [w \in Orders |-> None]
    /\ mode \in Modes
    /\ battery \in BatteryLevels
    /\ cr = [w \in Orders |-> [data |-> {}, fin |-> 0]]
    /\ cache = cr
    /\ order_status = [w \in Orders |-> "RUNNING"]
    /\ sub_events = {}

-----------------------------------------------------------------------------
(* Helpers: processing a trigger, counters, CR updates.                    *)

Trigger(name) == triggers # <<>> /\ Head(triggers).name = name
Then(calls)   == triggers' = Tail(triggers) \o calls
Callback      == triggers = <<>>

\* A transition to dest; leaving a state resets its error count, unless the
\* trigger is mission_failed.
Goto(dest) ==
    /\ state' = dest
    /\ error_count' = IF dest = state THEN error_count
                                      ELSE [error_count EXCEPT ![state] = 0]

Increase_mission_errorcount ==
    error_count' = [error_count EXCEPT ![state] = @ + 1]
\* mutant: one retry too many
Max_mission_errors_exceeded == error_count[state] > MaxRetry

Max_mission_errors_reached == error_count[state] >= MaxRetry

Log_warehouse_order_fail ==
    failed_warehouseorders' = IF failed_warehouseorders > MaxFailedOrders
                              THEN failed_warehouseorders
                              ELSE failed_warehouseorders + 1

More_warehouse_tasks == who_tasks \ {active_wht} # {}
Battery_empty        == battery < BatteryMin

\* confirm_wht and the finalizer calls read the CR from the watch cache and
\* patch the whole list: c is the CR before the call, seen its cached copy.
Confirm(c, seen, t, number, type) ==
    IF <<t, number, type>> \in seen.data
    THEN c
    ELSE [c EXCEPT !.data = seen.data \cup {<<t, number, type>>}]

Add_finalizer(c, seen) ==
    [c EXCEPT !.fin = IF seen.fin = MaxFinalizers THEN @ ELSE seen.fin + 1]

Remove_finalizer(c, seen) ==
    IF seen.fin = 0 THEN c ELSE [c EXCEPT !.fin = seen.fin - 1]

Send_confirmation(number, type) ==
    cr' = [cr EXCEPT ![active_who] =
              Confirm(@, cache[active_who], active_wht, number, type)]

Without(f, x) == [y \in DOMAIN f \ {x} |-> f[y]]

\* _close_active_who, after the confirmation conf of the same transition has
\* made the CR of the order c.
Close_active_who(c) ==
    /\ warehouseorders' = Without(warehouseorders, active_who)
    /\ cr' = [cr EXCEPT ![active_who] = Remove_finalizer(c, cache[active_who])]
    /\ UNCHANGED processed_order_spec

\* _close_active_wht takes the task out of the order, which is the same object
\* as the one in the queue.
Close_active_wht ==
    /\ who_tasks' = who_tasks \ {active_wht}
    /\ warehouseorders' = [w \in DOMAIN warehouseorders |->
                              warehouseorders[w] \
                                  (IF w = active_who THEN {active_wht} ELSE {})]
    /\ UNCHANGED processed_order_spec

\* mutant: the task is not cleared
Active_wht_kept ==
    active_who' = None /\ who_tasks' = {} /\ UNCHANGED active_wht

\* on_enter_idle: there is no active work.
No_active_work ==
    active_who' = None /\ who_tasks' = {} /\ active_wht' = None

\* mutant: the queue is forgotten
Decide_without_queue(q, f) ==
    CASE Battery_empty -> {<<Call("charge_battery")>>}
      [] ~Battery_empty /\ f > MaxFailedOrders -> {<<Call("too_many_failed_whos")>>}
      [] OTHER -> {<<>>}

\* The calls _decide_whats_next may make: with the orders of the queue q to
\* choose from (its sort by sequence number is left open) and f failed orders.
\* Its cancellations never run: the destination is always an idle state.
Decide_whats_next(q, f) ==
    CASE mode = "CHARGE" ->
            {IF battery < ChargeTarget THEN <<Call("charge_battery")>> ELSE <<>>}
      [] mode # "CHARGE" /\ Battery_empty ->
            {<<Call("charge_battery")>>}
      [] mode # "CHARGE" /\ ~Battery_empty /\ f > MaxFailedOrders ->
            {<<Call("too_many_failed_whos")>>}
      [] mode \in {"RUN", "IDLE"} /\ ~Battery_empty /\ f <= MaxFailedOrders
         /\ DOMAIN q # {} ->
            {<<CallWith("process_warehouseorder", w, q[w])>> : w \in DOMAIN q}
      [] OTHER -> {<<>>}

\* Entering idle, deciding on the queue as the transition leaves it.
EnterIdle ==
    /\ No_active_work
    /\ \E calls \in Decide_whats_next(warehouseorders', failed_warehouseorders') :
          Then(calls)

\* on_enter_moveTrolley_movingToSourceBin with the tasks ts of the order.
EnterSource(ts) ==
    \/ /\ ts = {}
       /\ active_wht' = None
       /\ Then(<<Call("warehouseorder_aborted")>>)
    \/ \E t \in ts :
       /\ active_wht' = t
       /\ Then(<<Call(IF t \in NonHuTasks THEN "invalid_warehousetask"
                                          ELSE "create_get_trolley_mission")>>)

\* on_enter_pickPackPass_movingtoPickLocation: without an active sub order the
\* robot waits for one.
EnterPick ==
    /\ active_wht' = None
    /\ Then(<<>>)

\* on_enter_pickPackPass_movingtoTargetLocation with the tasks ts of the order.
EnterDeliver(ts) ==
    \/ /\ ts = {}
       /\ active_wht' = None
       /\ Then(<<>>)
    \/ \E t \in ts :
       /\ active_wht' = t
       /\ Then(<<Call(IF t \in NonHuTasks THEN "invalid_warehousetask"
                                          ELSE "create_move_mission")>>)

-----------------------------------------------------------------------------
(* Transitions common to both processes.                                   *)

Start_fresh_machine ==
    /\ Trigger("start_fresh_machine") /\ state = "idle"
    /\ Goto("idle")
    /\ UNCHANGED <<frameVars, cr>>
    /\ EnterIdle

Go_staging ==
    /\ Trigger("go_staging") /\ state = "idle"
    /\ Goto("movingToStaging")
    /\ Then(<<Call("create_staging_mission")>>)
    /\ UNCHANGED <<activeVars, frameVars, cr>>

\* too_many_failed_whos, whose on_enter starts counting afresh.
Too_many_failed_whos ==
    /\ Trigger("too_many_failed_whos") /\ state \in IdleStates
    /\ Goto("robotError")
    /\ failed_warehouseorders' = 0
    /\ Then(<<Call("create_staging_mission")>>)
    /\ UNCHANGED <<orderVars, missionVars, envVars, cr>>

\* Arriving at the staging area, and its timeout: decide what is next.
EnterStaging ==
    /\ \/ Trigger("mission_succeeded") /\ state = "movingToStaging"
       \/ Trigger("staging_timeout")   /\ state = "atStaging"
    /\ Goto("atStaging")
    /\ \E calls \in Decide_whats_next(warehouseorders, failed_warehouseorders) :
          Then(calls)
    /\ UNCHANGED <<activeVars, frameVars, cr>>

Charge_battery ==
    /\ Trigger("charge_battery")
    /\ state \in IdleStates \cup {"movingToStaging", "robotError"}
    /\ Goto("charging")
    /\ Then(<<Call("create_charge_mission")>>)
    /\ UNCHANGED <<activeVars, frameVars, cr>>

Charging_ends ==
    /\ state = "charging"
    /\ Trigger("mission_succeeded") \/ Trigger("charging_canceled")
    /\ Goto("idle")
    /\ UNCHANGED <<frameVars, cr>>
    /\ EnterIdle

\* mutant: the retry is counted, but no new mission created
Free_mission_retry_without_mission ==
    /\ Trigger("mission_failed")
    /\ state \in {"movingToStaging", "charging", "robotError"}
    /\ ~Max_mission_errors_reached
    /\ Increase_mission_errorcount
    /\ Then(<<>>)
    /\ UNCHANGED <<state, orderVars, missionVars, failed_warehouseorders, envVars, cr>>

\* A failed mission outside the processes: staging and charging retry, then
\* give up and go idle; robotError retries, then stays without a mission.
Free_mission_retry ==
    /\ Trigger("mission_failed")
    /\ state \in {"movingToStaging", "charging", "robotError"}
    /\ ~Max_mission_errors_reached
    /\ Increase_mission_errorcount
    /\ failed_warehouseorders' =
          IF state = "robotError" THEN 0 ELSE failed_warehouseorders
    /\ Then(<<Call(IF state = "charging" THEN "create_charge_mission"
                                         ELSE "create_staging_mission")>>)
    /\ UNCHANGED <<state, orderVars, missionVars, envVars, cr>>

Free_mission_given_up ==
    /\ Trigger("mission_failed") /\ state \in {"movingToStaging", "charging"}
    /\ Max_mission_errors_reached
    /\ state' = "idle"
    /\ UNCHANGED <<queueVars, missionVars, countVars, envVars, cr>>
    /\ EnterIdle

\* A robot in robotError ends its mission: an internal transition, or none.
Error_mission_over ==
    /\ state = "robotError"
    /\ \/ Trigger("mission_succeeded")
       \/ Trigger("mission_failed") /\ Max_mission_errors_reached
    /\ Then(<<>>)
    /\ UNCHANGED otherVars

Recover_free_robot ==
    /\ Trigger("recover_robot") /\ state = "robotError"
    /\ Goto("idle")
    /\ UNCHANGED <<frameVars, cr>>
    /\ EnterIdle

Cancel_active_mission ==
    /\ Trigger("cancel_active_mission")
    /\ mission' = NoMission
    /\ orphans' = IF mission.status = "created"  \* its CR is not in the cache
                  THEN orphans \cup {mission.kind} ELSE orphans
    /\ Then(<<>>)
    /\ UNCHANGED <<state, orderVars, countVars, envVars, cr>>

\* create_*_mission: an active mission is overwritten, not cancelled.
Create_mission ==
    /\ triggers # <<>> /\ Head(triggers).name \in DOMAIN CreateMission
    /\ mission' = [kind |-> CreateMission[Head(triggers).name], status |-> "created"]
    /\ orphans' = IF mission.status \in {"created", "running", "docking"}
                  THEN orphans \cup {mission.kind} ELSE orphans
    /\ Then(<<>>)
    /\ UNCHANGED <<state, orderVars, countVars, envVars, cr>>

\* The trigger has no transition from this state: MachineError, and whatever
\* is queued behind it is dropped.
Refused ==
    /\ triggers # <<>> /\ state \notin Sources[Head(triggers).name]
    /\ triggers' = <<>>
    /\ UNCHANGED otherVars

-----------------------------------------------------------------------------
(* Starting an order, and the moveTrolley process.                         *)

\* mutant: no finalizer is added where the cached copy shows one
Process_warehouseorder_once_held ==
    /\ Trigger("process_warehouseorder")
    /\ state \in Sources["process_warehouseorder"]
    /\ LET w  == Head(triggers).who
           ts == Head(triggers).tasks
       IN  /\ active_who' = w
           /\ who_tasks' = ts
           /\ cr' = IF cache[w].fin > 0 THEN cr
                    ELSE [cr EXCEPT ![w] = Add_finalizer(@, cache[w])]
           /\ IF w \in PickOrders
              THEN Goto(Pick) /\ EnterPick
              ELSE Goto(Source) /\ EnterSource(ts)
    /\ UNCHANGED frameVars

\* _save_active_warehouse_order, and the state the order's kind leads to.
Process_warehouseorder ==
    /\ Trigger("process_warehouseorder")
    /\ state \in Sources["process_warehouseorder"]
    /\ LET w  == Head(triggers).who
           ts == Head(triggers).tasks
       IN  /\ active_who' = w
           /\ who_tasks' = ts
           /\ cr' = [cr EXCEPT ![w] = Add_finalizer(@, cache[w])]
           /\ IF w \in PickOrders
              THEN Goto(Pick) /\ EnterPick
              ELSE Goto(Source) /\ EnterSource(ts)
    /\ UNCHANGED frameVars

\* The order is closed without success; c is its CR after the confirmation.
Trolley_order_failed(c) ==
    /\ Log_warehouse_order_fail
    /\ Close_active_who(c)
    /\ UNCHANGED <<missionVars, envVars>>
    /\ EnterIdle

First_error == Confirm(cr[active_who], cache[active_who], active_wht, "FIRST", "ERROR")

Trolley_order_aborted ==
    /\ Trigger("warehouseorder_aborted") /\ state = Source
    /\ Goto("idle")
    /\ Trolley_order_failed(cr[active_who])

Trolley_invalid_task ==
    /\ Trigger("invalid_warehousetask") /\ state = Source
    /\ Goto("idle")
    /\ Trolley_order_failed(First_error)

Trolley_not_loaded ==
    /\ Trigger("mission_failed") /\ state \in {Source, Loading}
    /\ Max_mission_errors_reached
    /\ state' = "idle" /\ UNCHANGED error_count
    /\ Trolley_order_failed(First_error)

Get_trolley_retry ==
    /\ Trigger("mission_failed") /\ state \in {Source, Loading}
    /\ ~Max_mission_errors_reached
    /\ state' = Source
    /\ Increase_mission_errorcount
    /\ EnterSource(who_tasks)
    /\ UNCHANGED <<active_who, who_tasks, frameVars, cr>>

Return_trolley_retry ==
    /\ Trigger("mission_failed") /\ state \in {Target, Unloading}
    /\ ~Max_mission_errors_reached
    /\ state' = Target
    /\ Increase_mission_errorcount
    /\ Then(<<Call("create_return_trolley_mission")>>)
    /\ UNCHANGED <<activeVars, frameVars, cr>>

\* mutant: the order manager is not told
Trolley_not_returned_untold ==
    /\ Trigger("mission_failed") /\ state \in {Target, Unloading}
    /\ Max_mission_errors_reached
    /\ state' = TrolleyError
    /\ Then(<<>>)
    /\ UNCHANGED <<orderVars, missionVars, countVars, envVars, cr>>

Trolley_not_returned ==
    /\ Trigger("mission_failed") /\ state \in {Target, Unloading}
    /\ Max_mission_errors_reached
    /\ state' = TrolleyError
    /\ Send_confirmation("SECOND", "ERROR")
    /\ Then(<<>>)
    /\ UNCHANGED <<orderVars, missionVars, countVars, envVars>>

Recover_trolley_robot ==
    /\ Trigger("recover_robot") /\ state = TrolleyError
    /\ Goto(Target)
    /\ Then(<<Call("create_return_trolley_mission")>>)
    /\ UNCHANGED <<activeVars, frameVars, cr>>

\* Docking starts loading or unloading; a mission that has already succeeded
\* is passed on to the new state.
Trolley_docking ==
    /\ Trigger("mission_docking") \/ Trigger("mission_succeeded")
    /\ \/ state = Source /\ Goto(Loading)
       \/ state = Target /\ Goto(Unloading)
    /\ Then(IF Trigger("mission_succeeded") THEN <<Call("mission_succeeded")>> ELSE <<>>)
    /\ UNCHANGED <<activeVars, frameVars, cr>>

\* mutant: the first confirmation is not sent
Trolley_loaded_untold ==
    /\ Trigger("mission_succeeded") /\ state = Loading
    /\ Goto(Target)
    /\ Then(<<Call("create_return_trolley_mission")>>)
    /\ UNCHANGED <<activeVars, frameVars, cr>>

Trolley_loaded ==
    /\ Trigger("mission_succeeded") /\ state = Loading
    /\ Goto(Target)
    /\ Send_confirmation("FIRST", "SUCCESS")
    /\ Then(<<Call("create_return_trolley_mission")>>)
    /\ UNCHANGED <<activeVars, frameVars>>

Trolley_next_task ==
    /\ Trigger("mission_succeeded") /\ state = Unloading
    /\ More_warehouse_tasks
    /\ Goto(Source)
    /\ Send_confirmation("SECOND", "SUCCESS")
    /\ Close_active_wht
    /\ EnterSource(who_tasks \ {active_wht})
    /\ UNCHANGED <<active_who, missionVars, failed_warehouseorders, envVars>>

Trolley_order_completed ==
    /\ Trigger("mission_succeeded") /\ state = Unloading
    /\ ~More_warehouse_tasks
    /\ Goto("idle")
    /\ failed_warehouseorders' = 0
    /\ Close_active_who(Confirm(cr[active_who], cache[active_who],
                                active_wht, "SECOND", "SUCCESS"))
    /\ UNCHANGED <<missionVars, envVars>>
    /\ EnterIdle

Trolley_order_confirmed ==
    /\ Trigger("warehouseorder_confirmed") /\ state = TrolleyError
    /\ Goto("idle")
    /\ Trolley_order_failed(cr[active_who])

-----------------------------------------------------------------------------
(* The pickPackPass process.  No sub order becomes the active one, so that  *)
(* the robot waits in Pick: what takes it further is a staging mission      *)
(* that was still running when it was recovered from robotError.            *)

\* The robot needs help: a mission that failed too often, or a task to deliver
\* that is no handling unit (an error is confirmed for it).
Pick_needs_help ==
    /\ \/ Trigger("invalid_warehousetask") /\ state = Deliver /\ Goto(PickError)
       \/ /\ Trigger("mission_failed") /\ state \in {Pick, Deliver}
          /\ Max_mission_errors_reached
          /\ state' = PickError /\ UNCHANGED error_count
    /\ IF state = Deliver THEN Send_confirmation("SECOND", "ERROR") ELSE UNCHANGED cr
    /\ Then(<<>>)
    /\ UNCHANGED <<activeVars, frameVars>>

Pick_mission_retry ==
    /\ Trigger("mission_failed") /\ state \in {Pick, Deliver}
    /\ ~Max_mission_errors_reached
    /\ Increase_mission_errorcount
    /\ IF state = Pick THEN EnterPick ELSE EnterDeliver(who_tasks)
    /\ UNCHANGED <<state, active_who, who_tasks, frameVars, cr>>

Recover_pick_robot ==
    /\ Trigger("recover_robot") /\ state = PickError
    /\ IF More_warehouse_tasks
       THEN Goto(Deliver) /\ EnterDeliver(who_tasks)
       ELSE Goto(Pick) /\ EnterPick
    /\ UNCHANGED <<active_who, who_tasks, frameVars, cr>>

Pick_arrived ==
    /\ Trigger("mission_succeeded")
    /\ \/ state = Pick /\ Goto(AtPick)
       \/ state = Deliver /\ Goto(AtTarget)
    /\ Then(<<>>)
    /\ UNCHANGED <<activeVars, frameVars, cr>>

\* The first confirmation is sent after the new state has chosen its task.
Start_delivery ==
    /\ Trigger("pickpackpass_who_with_tasks") /\ state = AtPick
    /\ More_warehouse_tasks
    /\ Goto(Deliver)
    /\ Close_active_wht
    /\ EnterDeliver(who_tasks \ {active_wht})
    /\ cr' = [cr EXCEPT ![active_who] =
                 Confirm(@, cache[active_who], active_wht', "FIRST", "SUCCESS")]
    /\ UNCHANGED <<active_who, missionVars, failed_warehouseorders, envVars>>

Pick_order_confirmed ==
    /\ Trigger("warehouseorder_confirmed") /\ state \in {AtTarget, PickError}
    /\ Goto("idle")
    /\ IF state = AtTarget THEN failed_warehouseorders' = 0
                           ELSE Log_warehouse_order_fail
    /\ Close_active_who(cr[active_who])
    /\ UNCHANGED <<missionVars, envVars>>
    /\ EnterIdle

-----------------------------------------------------------------------------
(* The callbacks of the watches, the timeouts of the machine's states.     *)

\* mission_cb: what the last status of the active mission triggers.
Mission_cb ==
    /\ Callback
    /\ \/ /\ mission.status \in {"succeeded", "failed"}
          /\ mission' = NoMission
          /\ triggers' = <<Call(IF mission.status = "succeeded"
                                THEN "mission_succeeded" ELSE "mission_failed")>>
       \/ /\ mission.status = "docking"
          /\ triggers' = <<Call("mission_docking")>>
          /\ UNCHANGED mission
    /\ UNCHANGED <<state, orderVars, orphans, countVars, envVars, cr>>

\* mutant: a robot fetching a trolley is sent to charge as well
Robot_cb_any_state ==
    /\ Callback
    /\ state \in {"movingToStaging", "robotError", Source} /\ Battery_empty
    /\ triggers' = <<Call("cancel_active_mission"), Call("charge_battery")>>
    /\ UNCHANGED otherVars

\* robot_cb: the battery decides in the states without an order.
Robot_cb ==
    /\ Callback
    /\ \/ /\ state = "atStaging" /\ battery < BatteryIdle
          /\ triggers' = <<Call("charge_battery")>>
       \/ /\ state \in {"movingToStaging", "robotError"} /\ Battery_empty
          /\ triggers' = <<Call("cancel_active_mission"), Call("charge_battery")>>
       \/ /\ state = "charging" /\ battery > BatteryMin
          /\ \E w \in DOMAIN warehouseorders :
                triggers' = <<Call("cancel_active_mission"),
                              CallWith("process_warehouseorder", w, warehouseorders[w])>>
    /\ UNCHANGED otherVars

Cfg_recover_cb ==
    /\ Callback /\ state \in ErrorStates
    /\ triggers' = <<Call("recover_robot")>>
    /\ UNCHANGED otherVars

Cfg_idle_charge_states_cb ==
    /\ Callback /\ mode = "RUN"
    /\ \/ /\ state = "atStaging"
          /\ triggers' = <<Call("staging_timeout")>>
       \/ /\ state = "charging" /\ battery >= BatteryOk
          /\ triggers' = <<Call("cancel_active_mission"), Call("charging_canceled")>>
    /\ UNCHANGED otherVars

Idle_timeout ==
    /\ Callback /\ state = "idle"
    /\ triggers' = <<Call("go_staging")>>
    /\ UNCHANGED otherVars

Staging_timeout ==
    /\ Callback /\ state = "atStaging"
    /\ triggers' = <<Call("staging_timeout")>>
    /\ UNCHANGED otherVars

\* An event of the order's CR: a spec, with the status of the same version,
\* which the order manager has processed (others are skipped).  It has waited
\* for one of five threads and for the machine's lock, so that its status can
\* be older than the CR, and with OlderEvents than the cached copy.
Events(w) == [tasks : SUBSET TasksOf[w],
              data : IF OlderEvents THEN SUBSET cache[w].data ELSE {cache[w].data}]

Confirmed(t, number, spec) == <<t, number, "SUCCESS">> \in spec.data

\* The tasks an event shows with a source bin: EWM empties it when it books the
\* first confirmation, and the tasks in the event are those from before or after.
Source_bins(spec) ==
    {spec.tasks, {t \in spec.tasks : ~Confirmed(t, "FIRST", spec)}}

\* warehouse_order_precheck: no task has its second confirmation, and none with
\* its first one still has a source bin.
Precheck(w, spec) ==
    /\ order_status[w] = "RUNNING"
    /\ \A t \in spec.tasks : ~Confirmed(t, "SECOND", spec)
    /\ \E bins \in Source_bins(spec) :
          \A t \in bins : ~Confirmed(t, "FIRST", spec)

\* mutant: an order is started from the states the transition table allows,
\* without a look at the active order
Update_robot_who_calls_unchecked(w, ts) ==
    IF mode = "RUN" /\ state \in Sources["process_warehouseorder"]
    THEN <<Call("cancel_active_mission"), CallWith("process_warehouseorder", w, ts)>>
    ELSE <<>>

\* What _update_robot_who calls for the order w received with tasks ts.
Update_robot_who_calls(w, ts) ==
    CASE active_who = None /\ mode = "RUN"
         /\ (state = "movingToStaging" \/ (state = "charging" /\ ~Battery_empty)) ->
            <<Call("cancel_active_mission"), CallWith("process_warehouseorder", w, ts)>>
      [] active_who = None /\ mode = "RUN" /\ state \in IdleStates ->
            <<CallWith("process_warehouseorder", w, ts)>>
      [] active_who = w /\ w \in PickOrders /\ state = AtPick
         /\ ts # {} /\ active_wht = None ->
            <<Call("pickpackpass_who_with_tasks")>>
      [] OTHER -> <<>>

\* warehouseorder_cb for an order of this robot whose spec has changed.
Warehouseorder_cb(w, spec) ==
    /\ Callback
    /\ Precheck(w, spec) /\ processed_order_spec[w] # spec
    /\ processed_order_spec' = [processed_order_spec EXCEPT ![w] = spec]
    /\ warehouseorders' = [v \in DOMAIN warehouseorders \cup {w} |->
                              IF v = w THEN spec.tasks ELSE warehouseorders[v]]
    /\ who_tasks' = IF active_who = w THEN spec.tasks ELSE who_tasks
    /\ triggers' = Update_robot_who_calls(w, spec.tasks)
    /\ UNCHANGED <<state, active_who, active_wht, missionVars, countVars, envVars, cr>>

\* warehouseorder_cb for a sub order: before it calls _update_sub_who,
\* _update_who reads an attribute of the spec that does not exist.  The
\* AttributeError ends the callback, which is logged and not repeated.
Sub_warehouseorder_cb(s) ==
    /\ Callback /\ s \in sub_events
    /\ sub_events' = sub_events \ {s}
    /\ triggers' = <<>>
    /\ UNCHANGED <<state, orderVars, missionVars, countVars, cr, mode, battery, cache, order_status>>

\* check_awaited_warehouseorder_completion: the order awaited.  (A task is
\* awaited in AtPick only, where the robot has none.)
Awaited_completion(w) ==
    IF state \in {TrolleyError, PickError, AtTarget} /\ active_who = w
    THEN <<Call("warehouseorder_confirmed")>> ELSE <<>>

Warehouseorder_processed_cb(w) ==
    /\ Callback /\ order_status[w] = "PROCESSED"
    /\ triggers' = Awaited_completion(w)
    /\ UNCHANGED otherVars

\* The CR of a processed order without finalizers goes, and the callback
\* takes the order out of the queue.
Warehouseorder_deleted_cb(w) ==
    /\ Callback /\ order_status[w] = "PROCESSED" /\ cr[w].fin = 0
    /\ order_status' = [order_status EXCEPT ![w] = "DELETED"]
    /\ warehouseorders' = Without(warehouseorders, w)
    /\ processed_order_spec' = [v \in Orders |->
                                  IF v = w THEN None ELSE processed_order_spec[v]]
    /\ triggers' = Awaited_completion(w)
    /\ UNCHANGED <<state, activeVars, missionVars, countVars, mode, battery, cache, cr, sub_events>>

-----------------------------------------------------------------------------
(* What other threads, the mission controller, the order manager and the   *)
(* user do, at any time.                                                   *)

machineVars == <<state, triggers, orderVars, countVars>>

Watch_order(w) ==
    /\ cache[w] # cr[w]
    /\ cache' = [cache EXCEPT ![w] = cr[w]]
    /\ UNCHANGED <<machineVars, missionVars, mode, battery, cr, order_status, sub_events>>

Order_processed(w) ==
    /\ order_status[w] = "RUNNING"
    /\ order_status' = [order_status EXCEPT ![w] = "PROCESSED"]
    /\ UNCHANGED <<machineVars, missionVars, mode, battery, cache, cr, sub_events>>

\* The order manager sends a sub order of a running order to the robot.
Sub_order_sent(s) ==
    /\ order_status[TopOf[s]] = "RUNNING" /\ s \notin sub_events
    /\ sub_events' = sub_events \cup {s}
    /\ UNCHANGED <<machineVars, missionVars, mode, battery, cache, cr, order_status>>

Update_robot_status(b) ==
    /\ battery # b /\ battery' = b
    /\ UNCHANGED <<machineVars, missionVars, mode, cache, cr, order_status, sub_events>>

Set_mode(m) ==
    /\ mode # m /\ mode' = m
    /\ UNCHANGED <<machineVars, missionVars, battery, cache, cr, order_status, sub_events>>

Mission_watched ==
    /\ mission.status = "created"
    /\ mission' = [mission EXCEPT !.status = "running"]
    /\ UNCHANGED <<machineVars, orphans, envVars, cr>>

Mission_docks ==
    /\ mission.status = "running" /\ mission.kind \in {"get", "return", "charge"}
    /\ mission' = [mission EXCEPT !.status = "docking"]
    /\ UNCHANGED <<machineVars, orphans, envVars, cr>>

\* A mission that failed, or was cancelled or deleted by someone else, is "failed".
Mission_ends(result) ==
    /\ mission.status \in {"running", "docking"}
    /\ result = "failed" => mission.kind \in MayFail
    /\ PromptWatch => cache = cr
    /\ mission' = [mission EXCEPT !.status = result]
    /\ UNCHANGED <<machineVars, orphans, envVars, cr>>

Orphan_ends(kind) ==
    /\ kind \in orphans /\ orphans' = orphans \ {kind}
    /\ UNCHANGED <<machineVars, mission, envVars, cr>>

-----------------------------------------------------------------------------
Machine ==
    \/ Start_fresh_machine \/ Go_staging \/ Too_many_failed_whos \/ EnterStaging
    \/ Charge_battery \/ Charging_ends \/ Free_mission_retry \/ Free_mission_given_up
    \/ Error_mission_over \/ Recover_free_robot
    \/ Cancel_active_mission \/ Create_mission \/ Refused
    \/ Process_warehouseorder \/ Trolley_order_aborted \/ Trolley_invalid_task
    \/ Trolley_not_loaded \/ Get_trolley_retry \/ Return_trolley_retry
    \/ Trolley_not_returned \/ Recover_trolley_robot \/ Trolley_docking
    \/ Trolley_loaded \/ Trolley_next_task \/ Trolley_order_completed
    \/ Trolley_order_confirmed
    \/ Pick_needs_help \/ Pick_mission_retry \/ Recover_pick_robot \/ Pick_arrived
    \/ Start_delivery \/ Pick_order_confirmed

Callbacks ==
    \/ Mission_cb \/ Robot_cb \/ Cfg_recover_cb \/ Cfg_idle_charge_states_cb
    \/ Idle_timeout \/ Staging_timeout
    \/ \E w \in Orders : \E spec \in Events(w) : Warehouseorder_cb(w, spec)
    \/ \E w \in Orders : Warehouseorder_processed_cb(w)
    \/ \E w \in Orders : Warehouseorder_deleted_cb(w)
    \/ \E s \in SubOrders : Sub_warehouseorder_cb(s)

Environment ==
    \/ \E w \in Orders : Watch_order(w) \/ Order_processed(w)
    \/ \E s \in SubOrders : Sub_order_sent(s)
    \/ \E b \in BatteryLevels : Update_robot_status(b)
    \/ \E m \in Modes : Set_mode(m)
    \/ Mission_watched \/ Mission_docks
    \/ \E result \in {"succeeded", "failed"} : Mission_ends(result)
    \/ \E kind \in MissionKinds : Orphan_ends(kind)

Next == Machine \/ Callbacks \/ Environment

Spec == Init /\ [][Next]_vars

\* The machine drains its queue; missions, watches and timeouts do not stall;
\* a callback waiting for the machine's lock gets it.
Fairness ==
    /\ WF_vars(Machine)
    /\ WF_vars(Mission_watched) /\ WF_vars(Mission_cb)
    /\ WF_vars(\E result \in {"succeeded", "failed"} : Mission_ends(result))
    /\ \A w \in Orders : WF_vars(Watch_order(w))
    /\ \A s \in SubOrders : WF_vars(Sub_warehouseorder_cb(s))
    /\ WF_vars(Idle_timeout) /\ WF_vars(Staging_timeout) /\ WF_vars(Robot_cb)

FairSpec == Spec /\ Fairness

-----------------------------------------------------------------------------
(* Properties.                                                             *)

\* The context the on_enter and before callbacks rely on (they raise a
\* TypeError without it): in a process state the robot has an order of the
\* right kind, and past the source bin also the task whose trolley it moves;
\* outside the processes it has neither.
NoContextLoss ==
    /\ state \in FreeStates => active_who = None /\ active_wht = None
    /\ state \in TrolleyStates => active_who \in Orders \ PickOrders
    /\ state \in PickStates => active_who \in PickOrders
    /\ state \in {Pick, AtPick} => active_wht = None
    /\ state \in {Loading, Target, Unloading, TrolleyError, AtTarget} => active_wht # None
    /\ state = Source /\ active_wht = None =>
          triggers = <<Call("warehouseorder_aborted")>>

\* A robot that drives has the mission it waits for: whenever the machine is
\* quiescent in a driving state, active_mission names a mission of the right
\* kind.  Without it no mission_cb would ever move the machine on.
MissionMatchesState ==
    Callback =>
        /\ state = "movingToStaging" => mission.kind = "staging"
        /\ state = "charging" => mission.kind = "charge"
        /\ state \in {Source, Loading} => mission.kind = "get"
        /\ state \in {Target, Unloading} => mission.kind = "return"
        /\ state = Deliver /\ active_wht # None => mission.kind = "move"

\* A mission that moves a trolley or a picking robot is never overwritten or
\* cancelled before its CR is known: no one else would stop it.
TrolleyMissionsTracked == orphans \subseteq {"staging", "charge"}

\* In the status of a moveTrolley order the second confirmation of a task,
\* success or error, stands only beside its first successful one: EWM books
\* them in turn.
FirstBeforeSecond ==
    \A w \in Orders \ PickOrders, t \in Tasks, type \in {"SUCCESS", "ERROR"} :
        <<t, "SECOND", type>> \in cr[w].data => <<t, "FIRST", "SUCCESS">> \in cr[w].data

\* While a robot works on an order its finalizer is on the order's CR, so
\* that the CR cannot disappear under it, stale caches or not.
FinalizerHeld ==
    active_who # None => cr[active_who].fin > 0

\* An order is never replaced by another one: the robot closes it first.
OrderClosedFirst ==
    [][active_who' # active_who => None \in {active_who, active_who'}]_vars

\* An order of which a task got its second confirmation is skipped: the robot
\* never sets off for the trolley of such a task.
NoTaskRedone ==
    [][mission' # mission /\ mission'.kind = "get" /\ mission'.status = "created"
       => <<active_wht, "SECOND", "SUCCESS">> \notin cr[active_who].data]_vars

\* A sub order of the order in process, received while the robot waits for it,
\* becomes the active one: the robot gets a task to pick.
SubOrderTakenUp ==
    \A s \in SubOrders :
        s \in sub_events /\ state = Pick /\ active_who = TopOf[s] ~> active_wht # None

\* A trolley taken from its source bin is eventually reported: returned, or
\* in the hands of error recovery.
TrolleyReported ==
    \A w \in Orders, t \in Tasks :
        <<t, "FIRST", "SUCCESS">> \in cr[w].data ~>
        cr[w].data \cap {<<t, "SECOND", "SUCCESS">>, <<t, "SECOND", "ERROR">>} # {}

\* A queued order does not wait for ever for a free robot in mode RUN with a
\* charged battery that is not in robotError.
QueueIsServed ==
    DOMAIN warehouseorders # {} ~>
        \/ active_who # None \/ DOMAIN warehouseorders = {}
        \/ mode # "RUN" \/ battery <= BatteryMin \/ state = "robotError"

=============================================================================
