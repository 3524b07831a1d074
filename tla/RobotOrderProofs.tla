-------------------------- MODULE RobotOrderProofs --------------------------
(***************************************************************************)
(* What one robot writes into the CRs of its orders, for all orders,       *)
(* tasks, modes, battery levels and retry limits.                          *)
(*                                                                         *)
(* Every write starts from the copy of the CR in the watch cache, which    *)
(* may be old.  The finalizers need no more than what they count; the      *)
(* confirmations of a moveTrolley order need that the watch has caught up  *)
(* when a mission ends (PromptWatch), since they are sent when one has.    *)
(***************************************************************************)
EXTENDS RobotMissionProofs

USE DEF Source, Loading, Target, Unloading, TrolleyError,
        Pick, AtPick, Deliver, AtTarget, PickError,
        FreeStates, IdleStates, TrolleyStates, PickStates, States

\* The moveTrolley orders.
TrolleyOrders == Orders \ PickOrders

\* A count of finalizers that is seen at its limit is not zero.
FinalizersSeen == \A w \in Orders : cr[w].fin = 0 => cache[w].fin # MaxFinalizers

\* The first confirmation of a task.
First(t) == <<t, "FIRST", "SUCCESS">>

\* A task that is confirmed, or reported, a second time is confirmed a first time.
Paired(data) == \A t \in Tasks, type \in {"SUCCESS", "ERROR"} :
    <<t, "SECOND", type>> \in data => First(t) \in data

\* The robot has taken the trolley of its task.
Carrying == state \in {Target, Unloading, TrolleyError}

\* The mission of a moveTrolley order has ended, and the machine knows or will.
Results == {"mission_succeeded", "mission_failed"}
Ended ==
    \/ mission.kind \in {"get", "return"} /\ mission.status \in {"succeeded", "failed"}
    \/ \E k \in DOMAIN triggers : triggers[k].name \in Results

\* The first confirmation comes first, and a result that is at hand was not
\* overtaken by a confirmation the watch has not shown.
SequenceInv ==
    /\ \A w \in TrolleyOrders : Paired(cr[w].data) /\ Paired(cache[w].data)
    /\ Carrying => First(active_wht) \in cr[active_who].data
    /\ state \in {Source, Loading, Target, Unloading} /\ Ended =>
          cache[active_who].data = cr[active_who].data

-----------------------------------------------------------------------------
(* The writes to the CRs.                                                     *)

\* The transitions that write a CR: they close an order, send a confirmation, or
\* add or remove finalizers.
Closing ==
    \/ Trolley_order_aborted \/ Trolley_invalid_task \/ Trolley_not_loaded
    \/ Trolley_order_completed \/ Trolley_order_confirmed
Sending ==
    \/ Trolley_not_returned \/ Trolley_loaded \/ Trolley_next_task
    \/ Pick_needs_help \/ Start_delivery
Writing ==
    \/ Process_warehouseorder \/ Pick_order_confirmed
    \/ Closing \/ Sending

\* The types the lemmas below need.
LEMMA CrTypes ==
    ASSUME IInv, NEW w \in Orders
    PROVE  /\ cr[w] \in OrderCR /\ cache[w] \in OrderCR
           /\ cr[w].fin \in 0 .. 2 /\ cache[w].fin \in 0 .. 2
           /\ cr[w].data \in SUBSET Confirmations /\ cache[w].data \in SUBSET Confirmations
           /\ cr \in [Orders -> OrderCR] /\ cache \in [Orders -> OrderCR]
BY DEF IInv, TypeOK, EnvTypeOK, OrderCR, MaxFinalizers

\* The other steps: the watch may show a CR, and an order may be let go.
LEMMA NotWriting ==
    ASSUME IInv, [Next]_vars, ~Writing
    PROVE  /\ cr' = cr
           /\ \A w \in Orders : cache'[w] \in {cache[w], cr[w]}
           /\ active_who' \in {active_who, None}
<1>1. CASE Machine
  <2>1. UNCHANGED cr /\ UNCHANGED cache
    BY <1>1 DEF Machine, Writing, Closing, Sending, Start_fresh_machine, Go_staging,
       Too_many_failed_whos, EnterStaging, Charge_battery, Charging_ends, Free_mission_retry,
       Free_mission_given_up, Error_mission_over, Recover_free_robot, Cancel_active_mission,
       Create_mission, Refused, Get_trolley_retry, Return_trolley_retry,
       Recover_trolley_robot, Trolley_docking, Pick_mission_retry, Recover_pick_robot,
       Pick_arrived, frameVars, otherVars, envVars
  <2>2. active_who' \in {active_who, None}
    BY <1>1 DEF Machine, Writing, Closing, Sending, Start_fresh_machine, Go_staging,
       Too_many_failed_whos, EnterStaging, Charge_battery, Charging_ends, Free_mission_retry,
       Free_mission_given_up, Error_mission_over, Recover_free_robot, Cancel_active_mission,
       Create_mission, Refused, Get_trolley_retry, Return_trolley_retry,
       Recover_trolley_robot, Trolley_docking, Pick_mission_retry, Recover_pick_robot,
       Pick_arrived, otherVars, orderVars,
       activeVars, EnterIdle, No_active_work
  <2> QED BY <2>1, <2>2
<1>2. CASE Callbacks
  BY <1>2 DEF Callbacks, Mission_cb, Robot_cb, Cfg_recover_cb, Cfg_idle_charge_states_cb,
     Idle_timeout, Staging_timeout, Warehouseorder_cb, Sub_warehouseorder_cb,
     Warehouseorder_processed_cb, Warehouseorder_deleted_cb, otherVars, orderVars, activeVars,
     envVars
<1>3. CASE Environment
  <2>1. UNCHANGED <<machineVars, cr>>
    BY <1>3 DEF Environment, Watch_order, Order_processed, Sub_order_sent, Update_robot_status, Set_mode,
       Mission_watched, Mission_docks, Mission_ends, Orphan_ends
  <2>2. UNCHANGED cache \/ \E w \in Orders : cache' = [cache EXCEPT ![w] = cr[w]]
    BY <1>3 DEF Environment, Watch_order, Order_processed, Sub_order_sent, Update_robot_status, Set_mode,
       Mission_watched, Mission_docks, Mission_ends, Orphan_ends, envVars
  <2> QED BY <2>1, <2>2, CrTypes DEF machineVars, orderVars, activeVars
<1>4. CASE UNCHANGED vars
  BY <1>4 DEF vars, orderVars, activeVars, envVars
<1> QED BY <1>1, <1>2, <1>3, <1>4 DEF Next

\* A trigger that is processed with the order, and the task, it relies on.
LEMMA AtHand ==
    ASSUME IInv, Closing \/ Sending
    PROVE  /\ active_who \in Orders /\ Tail(triggers) = <<>>
           /\ triggers = <<Head(triggers)>> /\ Head(triggers) \in TriggerCall
           /\ Due(Head(triggers))
<1>1. active_who \in Orders
  BY OrdersAssumption DEF IInv, NoContextLoss, Closing, Sending, Trolley_order_aborted,
     Trolley_invalid_task, Trolley_not_loaded, Trolley_order_completed,
     Trolley_order_confirmed, Trolley_not_returned, Trolley_loaded, Trolley_next_task,
     Pick_needs_help, Start_delivery
<1>2. triggers # <<>> /\ Head(triggers).name # "cancel_active_mission"
  BY DEF Closing, Sending, Trigger, Trolley_order_aborted,
     Trolley_invalid_task, Trolley_not_loaded, Trolley_order_completed,
     Trolley_order_confirmed, Trolley_not_returned, Trolley_loaded, Trolley_next_task,
     Pick_needs_help, Start_delivery
<1> QED BY <1>1, <1>2, HeadDue DEF IInv

\* confirm_wht leaves the finalizers.
LEMMA ConfirmFin ==
    ASSUME NEW c \in OrderCR, NEW seen \in OrderCR, NEW t, NEW number, NEW type
    PROVE  Confirm(c, seen, t, number, type).fin = c.fin
BY DEF Confirm, OrderCR

\* confirm_wht adds a confirmation the watch does not show to those it shows.
LEMMA ConfirmData ==
    ASSUME NEW c \in OrderCR, NEW seen \in OrderCR, NEW t, NEW number, NEW type
    PROVE  /\ <<t, number, type>> \in seen.data =>
                Confirm(c, seen, t, number, type).data = c.data
           /\ <<t, number, type>> \notin seen.data =>
                Confirm(c, seen, t, number, type).data = seen.data \cup {<<t, number, type>>}
BY DEF Confirm, OrderCR

\* Adding and removing a finalizer leaves the confirmations.
LEMMA FinalizedCr ==
    ASSUME NEW c \in OrderCR, NEW seen \in OrderCR
    PROVE  /\ Add_finalizer(c, seen).data = c.data
           /\ Remove_finalizer(c, seen).data = c.data
           /\ (c.fin = 0 => seen.fin # MaxFinalizers) => Add_finalizer(c, seen).fin > 0
           /\ (c.fin = 0 => seen.fin # MaxFinalizers)
              => (Remove_finalizer(c, seen).fin = 0 => seen.fin # MaxFinalizers)
BY DEF Add_finalizer, Remove_finalizer, OrderCR, MaxFinalizers

\* The order that is closed: its confirmations c, one of the last transition's.
LEMMA Closed ==
    ASSUME IInv, Closing
    PROVE  /\ \E c \in OrderCR :
                /\ c.fin = cr[active_who].fin
                /\ cr' = [cr EXCEPT ![active_who] = Remove_finalizer(c, cache[active_who])]
                /\ \/ c = cr[active_who]
                   \/ c = First_error /\ Trolley_invalid_task
                   \/ c = First_error /\ Trolley_not_loaded
                   \/ /\ c = Confirm(cr[active_who], cache[active_who], active_wht,
                                     "SECOND", "SUCCESS")
                      /\ Trolley_order_completed
           /\ state' = "idle" /\ active_who' = None
           /\ who_tasks' = {} /\ active_wht' = None
           /\ UNCHANGED <<missionVars, envVars>>
           /\ warehouseorders' = Without(warehouseorders, active_who)
<1>1. active_who \in Orders /\ Due(Head(triggers))
  BY AtHand
<1>2. cr[active_who] \in OrderCR /\ cache[active_who] \in OrderCR
  BY <1>1, CrTypes
<1>3. /\ state' = "idle" /\ EnterIdle /\ UNCHANGED <<missionVars, envVars>>
  BY DEF Closing, Goto, Trolley_order_aborted, Trolley_invalid_task, Trolley_not_loaded,
     Trolley_order_completed, Trolley_order_confirmed, Trolley_order_failed
<1>4. \E c \in {cr[active_who], First_error,
                Confirm(cr[active_who], cache[active_who], active_wht, "SECOND", "SUCCESS")} :
        /\ Close_active_who(c)
        /\ \/ c = cr[active_who]
           \/ c = First_error /\ Trolley_invalid_task
           \/ c = First_error /\ Trolley_not_loaded
           \/ /\ c = Confirm(cr[active_who], cache[active_who], active_wht,
                             "SECOND", "SUCCESS")
              /\ Trolley_order_completed
  BY DEF Closing, Trolley_order_aborted, Trolley_invalid_task, Trolley_not_loaded,
     Trolley_order_completed, Trolley_order_confirmed, Trolley_order_failed
<1>5. PICK c \in {cr[active_who], First_error,
                  Confirm(cr[active_who], cache[active_who], active_wht, "SECOND", "SUCCESS")} :
        /\ Close_active_who(c)
        /\ \/ c = cr[active_who]
           \/ c = First_error /\ Trolley_invalid_task
           \/ c = First_error /\ Trolley_not_loaded
           \/ /\ c = Confirm(cr[active_who], cache[active_who], active_wht,
                             "SECOND", "SUCCESS")
              /\ Trolley_order_completed
  BY <1>4
<1>6. Closing /\ c # cr[active_who] => active_wht # None /\ active_wht \in Tasks
  BY <1>1, <1>5 DEF IInv, TypeOK, ActiveTypeOK, NoContextLoss, Trolley_invalid_task,
     Trolley_not_loaded, Trolley_order_completed, Trigger, Due, Call
<1>7. c \in OrderCR /\ c.fin = cr[active_who].fin
  <2>1. CASE c = cr[active_who]
    BY <1>2, <2>1
  <2>2. CASE c # cr[active_who]
    <3>1. PICK number \in {"FIRST", "SECOND"}, type \in {"SUCCESS", "ERROR"} :
            c = Confirm(cr[active_who], cache[active_who], active_wht, number, type)
      BY <1>5, <2>2 DEF First_error
    <3>2. c.fin = cr[active_who].fin
      BY <1>2, <3>1, ConfirmFin
    <3>3. c \in OrderCR
      BY <1>1, <1>6, <2>2, <3>1, SendType, AtHand DEF IInv
    <3> QED BY <3>2, <3>3
  <2> QED BY <2>1, <2>2
<1>8. /\ warehouseorders' = Without(warehouseorders, active_who)
      /\ cr' = [cr EXCEPT ![active_who] = Remove_finalizer(c, cache[active_who])]
  BY <1>5 DEF Close_active_who
<1> QED BY <1>3, <1>5, <1>7, <1>8 DEF EnterIdle, No_active_work

-----------------------------------------------------------------------------
(* The finalizers.                                                          *)

\* An order that is started has a finalizer.
LEMMA StartedHeld ==
    ASSUME IInv, FinalizersSeen, FinalizerHeld, NEW w \in Orders,
           cr' = [cr EXCEPT ![w] = Add_finalizer(@, cache[w])], UNCHANGED cache,
           active_who' \in {active_who, w, None}
    PROVE  FinalizersSeen' /\ FinalizerHeld'
<1>1. cr \in [Orders -> OrderCR] /\ cr[w] \in OrderCR /\ cache[w] \in OrderCR
  BY CrTypes
<1>2. PICK new : new = Add_finalizer(cr[w], cache[w])
  OBVIOUS
<1>3. new.fin > 0
  BY <1>1, <1>2, FinalizedCr DEF FinalizersSeen
<1>4. cr' = [cr EXCEPT ![w] = new]
  BY <1>2
<1>5. \A v \in Orders : cr'[v] = IF v = w THEN new ELSE cr[v]
  BY <1>1, <1>4
<1>6. new.fin # 0
  BY <1>3
<1>7. FinalizersSeen'
  BY <1>5, <1>6 DEF FinalizersSeen
<1>8. active_who # None => active_who \in Orders
  BY DEF IInv, TypeOK, ActiveTypeOK
<1>9. FinalizerHeld'
  BY <1>3, <1>5, <1>8 DEF FinalizerHeld
<1> QED BY <1>7, <1>9

\* Every step keeps the finalizers.
LEMMA FinalizersKept ==
    ASSUME IInv, FinalizersSeen, FinalizerHeld, [Next]_vars
    PROVE  FinalizersSeen' /\ FinalizerHeld'
<1>0. active_who # None => active_who \in Orders
  BY DEF IInv, TypeOK, ActiveTypeOK
<1>1. CASE ~Writing
  <2>1. /\ cr' = cr
        /\ \A w \in Orders : cache'[w] \in {cache[w], cr[w]}
        /\ active_who' \in {active_who, None}
    BY <1>1, NotWriting
  <2>2. FinalizersSeen'
    BY <2>1 DEF FinalizersSeen, MaxFinalizers
  <2>3. FinalizerHeld'
    BY <2>1 DEF FinalizerHeld
  <2> QED BY <2>2, <2>3
<1>2. CASE Process_warehouseorder
  <2>1. Head(triggers).who \in Orders
    BY <1>2, HeadDue DEF IInv, Due, Process_warehouseorder, Trigger
  <2>2. PICK w \in Orders : w = Head(triggers).who
    BY <2>1
  <2>3. /\ cr' = [cr EXCEPT ![w] = Add_finalizer(@, cache[w])]
        /\ active_who' = w /\ UNCHANGED cache
    BY <1>2, <2>2 DEF Process_warehouseorder, frameVars, envVars
  <2> QED BY <2>3, StartedHeld
<1>4. CASE Closing
  <2>1. PICK c \in OrderCR :
          /\ c.fin = cr[active_who].fin
          /\ cr' = [cr EXCEPT ![active_who] = Remove_finalizer(c, cache[active_who])]
    BY <1>4, Closed
  <2>2. active_who' = None /\ cache' = cache /\ active_who \in Orders
    BY <1>4, Closed, AtHand DEF envVars
  <2>3. PICK new : new = Remove_finalizer(c, cache[active_who])
    OBVIOUS
  <2>4. cache[active_who] \in OrderCR /\ cr \in [Orders -> OrderCR]
    BY <2>2, CrTypes
  <2>5. new.fin = 0 => cache[active_who].fin # MaxFinalizers
    BY <2>1, <2>2, <2>3, <2>4, FinalizedCr DEF FinalizersSeen
  <2>6. \A v \in Orders : cr'[v] = IF v = active_who THEN new ELSE cr[v]
    BY <2>1, <2>3, <2>4
  <2> QED BY <2>2, <2>5, <2>6 DEF FinalizersSeen, FinalizerHeld
<1>5. CASE Pick_order_confirmed
  <2>1. /\ cr' = [cr EXCEPT ![active_who] = Remove_finalizer(cr[active_who], cache[active_who])]
        /\ active_who' = None /\ cache' = cache
    BY <1>5 DEF Pick_order_confirmed, Close_active_who, EnterIdle, No_active_work, envVars
  <2>2. active_who \in Orders
    BY <1>5, OrdersAssumption DEF Pick_order_confirmed, IInv, NoContextLoss
  <2>3. PICK new : new = Remove_finalizer(cr[active_who], cache[active_who])
    OBVIOUS
  <2>4. cr[active_who] \in OrderCR /\ cache[active_who] \in OrderCR /\ cr \in [Orders -> OrderCR]
    BY <2>2, CrTypes
  <2>5. new.fin = 0 => cache[active_who].fin # MaxFinalizers
    BY <2>2, <2>3, <2>4, FinalizedCr DEF FinalizersSeen
  <2>6. \A v \in Orders : cr'[v] = IF v = active_who THEN new ELSE cr[v]
    BY <2>1, <2>3, <2>4
  <2> QED BY <2>1, <2>2, <2>5, <2>6 DEF FinalizersSeen, FinalizerHeld
<1>6. CASE Sending
  <2>1. active_who \in Orders
    BY <1>6, AtHand
  <2>2. /\ active_who' = active_who /\ cache' = cache
        /\ \/ cr' = cr
           \/ \E t, number, type :
                cr' = [cr EXCEPT ![active_who] =
                         Confirm(@, cache[active_who], t, number, type)]
    BY <1>6 DEF Sending, Trolley_not_returned, Trolley_loaded, Trolley_next_task,
       Pick_needs_help, Start_delivery, Send_confirmation, orderVars, activeVars,
       frameVars, envVars
  <2>3. cr \in [Orders -> OrderCR] /\ cr[active_who] \in OrderCR
        /\ cache[active_who] \in OrderCR
    BY <2>1, CrTypes
  <2>4. ASSUME NEW w \in Orders PROVE cr'[w].fin = cr[w].fin
    BY <2>1, <2>2, <2>3, ConfirmFin
  <2> QED BY <1>0, <2>2, <2>4 DEF FinalizersSeen, FinalizerHeld
<1> QED BY <1>1, <1>2, <1>4, <1>5, <1>6 DEF Writing

\* While a robot works on an order its finalizer is on the order's CR, so that
\* the CR cannot disappear under it, whatever the cache shows.
THEOREM FinalizersHold == Spec => []FinalizerHeld
<1>1. Init => FinalizersSeen /\ FinalizerHeld
  BY DEF Init, FinalizersSeen, FinalizerHeld, MaxFinalizers
<1>2. IInv /\ FinalizersSeen /\ FinalizerHeld /\ [Next]_vars => FinalizersSeen' /\ FinalizerHeld'
  BY FinalizersKept
<1> QED BY <1>1, <1>2, Inductive, PTL DEF Spec

-----------------------------------------------------------------------------
(* The confirmations of a moveTrolley order are in sequence.                *)

\* A confirmation that keeps the pairs: a first one, or one beside its first.
LEMMA PairedStill ==
    ASSUME NEW new, NEW old, NEW seen, Paired(old), Paired(seen),
           NEW t, NEW number, NEW type,
           number = "FIRST" \/ First(t) \in seen,
           new = old \/ new = seen \cup {<<t, number, type>>}
    PROVE  Paired(new)
<1> SUFFICES ASSUME NEW u \in Tasks, NEW error \in {"SUCCESS", "ERROR"},
                    <<u, "SECOND", error>> \in new
             PROVE  First(u) \in new
  BY DEF Paired
<1>1. CASE new = old
  BY <1>1 DEF Paired
<1>2. CASE new = seen \cup {<<t, number, type>>}
  <2>1. CASE <<u, "SECOND", error>> \in seen
    BY <1>2, <2>1 DEF Paired
  <2>2. CASE <<u, "SECOND", error>> = <<t, number, type>>
    <3>1. u = t /\ number # "FIRST"
      BY <2>2
    <3> QED BY <1>2, <3>1
  <2> QED BY <1>2, <2>1, <2>2
<1> QED BY <1>1, <1>2

\* The order in process is a moveTrolley order in the states of its process.
LEMMA AtTrolley ==
    ASSUME IInv, state \in TrolleyStates
    PROVE  active_who \in TrolleyOrders /\ active_who \in Orders
BY DEF IInv, NoContextLoss, TrolleyOrders

\* A result that is processed: the watch has caught up, the mission is over.
LEMMA ResultAtHand ==
    ASSUME IInv, SequenceInv, NEW name \in Results, Trigger(name)
    PROVE  /\ Ended /\ mission = NoMission
           /\ state \in {Source, Loading, Target, Unloading} =>
                cache[active_who].data = cr[active_who].data
<1>1. triggers # <<>> /\ Head(triggers).name = name
  BY DEF Trigger
<1>2. triggers = <<Head(triggers)>> /\ Due(Head(triggers))
  BY <1>1, HeadDue DEF IInv, Results
<1>3. triggers[1].name \in Results /\ 1 \in DOMAIN triggers
  BY <1>1, <1>2
<1>4. Ended
  BY <1>3 DEF Ended
<1> QED BY <1>1, <1>2, <1>4 DEF SequenceInv, Due, Results

\* A queue of one trigger that is no result, without a mission of the process.
LEMMA NotEnded ==
    ASSUME \/ triggers' = <<>>
           \/ \E name \in TriggerNames \ Results : triggers' = <<Call(name)>>,
           mission'.kind \notin {"get", "return"} \/ mission' = NoMission
    PROVE  ~Ended'
<1>1. mission'.kind \notin {"get", "return"}
  BY DEF NoMission
<1>2. CASE triggers' = <<>>
  BY <1>1, <1>2 DEF Ended
<1>3. ASSUME NEW name \in TriggerNames \ Results, triggers' = <<Call(name)>> PROVE ~Ended'
  <2>1. \A k \in DOMAIN triggers' : triggers'[k].name \notin Results
    BY <1>3 DEF Call
  <2> QED BY <1>1, <2>1 DEF Ended
<1> QED BY <1>2, <1>3

\* What EnterSource calls.
LEMMA SourceCalled ==
    ASSUME Tail(triggers) = <<>>, NEW ts, EnterSource(ts)
    PROVE  \E name \in {"warehouseorder_aborted", "invalid_warehousetask",
                        "create_get_trolley_mission"} : triggers' = <<Call(name)>>
<1>1. ASSUME NEW name \in {"warehouseorder_aborted", "invalid_warehousetask",
                          "create_get_trolley_mission"}, Then(<<Call(name)>>)
      PROVE  triggers' = <<Call(name)>>
  BY <1>1, ThenCall, CallType, TriggerNamesDef
<1>2. ASSUME NEW t, Then(<<Call(IF t \in NonHuTasks THEN "invalid_warehousetask"
                                                  ELSE "create_get_trolley_mission")>>)
      PROVE  \E name \in {"invalid_warehousetask", "create_get_trolley_mission"} :
                triggers' = <<Call(name)>>
  <2>1. CASE t \in NonHuTasks
    BY <1>1, <1>2, <2>1
  <2>2. CASE t \notin NonHuTasks
    BY <1>1, <1>2, <2>2
  <2> QED BY <2>1, <2>2
<1> QED BY <1>1, <1>2 DEF EnterSource

\* A mission of a moveTrolley order is under way.
Moving == state \in {Source, Loading, Target, Unloading}

\* The other transitions: a trolley stays taken, and a mission that has ended
\* has ended before.
LEMMA QuietMachine ==
    ASSUME IInv, MInv, Machine, ~Writing
    PROVE  /\ Carrying' => Carrying /\ active_who' = active_who /\ active_wht' = active_wht
           /\ Moving' /\ Ended' => active_who' = active_who /\ Moving /\ Ended
<1>1. CASE \/ Start_fresh_machine \/ Go_staging \/ Too_many_failed_whos \/ EnterStaging
           \/ Charge_battery \/ Charging_ends \/ Free_mission_retry \/ Free_mission_given_up
           \/ Error_mission_over \/ Recover_free_robot \/ Pick_mission_retry
           \/ Recover_pick_robot \/ Pick_arrived
  <2>1. state' \notin TrolleyStates
    BY <1>1 DEF Start_fresh_machine, Go_staging, Too_many_failed_whos, EnterStaging,
       Charge_battery, Charging_ends, Free_mission_retry, Free_mission_given_up,
       Error_mission_over, Recover_free_robot, Pick_mission_retry, Recover_pick_robot,
       Pick_arrived, Goto, otherVars
  <2> QED BY <2>1 DEF Carrying, Moving
<1>2. CASE Cancel_active_mission \/ Create_mission \/ Refused
  <2>1. UNCHANGED <<state, active_who, active_wht>>
    BY <1>2 DEF Cancel_active_mission, Create_mission, Refused, otherVars, orderVars, activeVars
  <2>2. CASE Create_mission
    <3>1. triggers # <<>> /\ Head(triggers).name # "cancel_active_mission"
      BY <2>2 DEF Create_mission, CreateMission
    <3>2. triggers' = <<>> /\ mission'.status = "created"
      BY <2>2, <3>1, HeadDue, ThenNone DEF IInv, Create_mission
    <3> QED BY <2>1, <3>2 DEF Carrying, Ended
  <2>3. CASE Refused
    <3>1. triggers' = <<>> /\ mission' = mission
      BY <2>3 DEF Refused, otherVars, missionVars
    <3> QED BY <2>1, <3>1 DEF Carrying, Ended, Moving
  <2>4. CASE Cancel_active_mission
    <3>1. PICK c \in TriggerCall : triggers = <<Call("cancel_active_mission"), c>>
      BY <2>4 DEF IInv, TriggersOK, Due, Cancel_active_mission, Trigger
    <3>2. triggers' = <<c>> /\ mission'.status = "none"
      BY <2>4, <3>1 DEF Cancel_active_mission, Then, NoMission
    <3>3. ASSUME NEW k \in DOMAIN triggers', triggers'[k].name \in Results PROVE Ended
      <4>1. c.name \in Results
        BY <3>2, <3>3
      <4>2. 2 \in DOMAIN triggers /\ triggers[2] = c
        BY <3>1
      <4> QED BY <4>1, <4>2 DEF Ended
    <3>4. Ended' => Ended
      BY <3>2, <3>3 DEF Ended
    <3> QED BY <2>1, <3>4 DEF Carrying, Moving
  <2> QED BY <1>2, <2>2, <2>3, <2>4
<1>3. CASE Get_trolley_retry \/ Return_trolley_retry \/ Trolley_docking
  <2>1. /\ triggers # <<>> /\ Head(triggers).name \in Results \cup {"mission_docking"}
        /\ Moving /\ active_who' = active_who /\ mission' = mission
    BY <1>3 DEF Get_trolley_retry, Return_trolley_retry, Trolley_docking, Trigger, Results,
       Moving, activeVars, frameVars, missionVars
  <2>2. triggers = <<Head(triggers)>> /\ Tail(triggers) = <<>>
    BY <2>1, HeadDue DEF IInv, Results
  <2>3. Head(triggers).name \in Results => Ended
    BY <2>2 DEF Ended
  <2>4. Head(triggers).name = "mission_docking" => Then(<<>>) /\ triggers' = <<>>
    BY <1>3, <2>2, ThenNone DEF Get_trolley_retry, Return_trolley_retry, Trolley_docking, Trigger
  <2>5. Ended' => Ended
    BY <2>1, <2>3, <2>4 DEF Ended
  <2>6. Carrying' => Carrying /\ active_wht' = active_wht
    BY <1>3 DEF Get_trolley_retry, Return_trolley_retry, Trolley_docking, Goto, Carrying, activeVars
  <2> QED BY <2>1, <2>5, <2>6
<1>4. CASE Recover_trolley_robot
  <2>1. /\ Trigger("recover_robot") /\ state = TrolleyError /\ UNCHANGED <<activeVars, mission>>
        /\ Then(<<Call("create_return_trolley_mission")>>)
    BY <1>4 DEF Recover_trolley_robot, frameVars, missionVars
  <2>2. Tail(triggers) = <<>>
    BY <2>1, HeadDue DEF IInv, Trigger
  <2>3. triggers' = <<Call("create_return_trolley_mission")>>
    BY <2>1, <2>2, ThenCall, CallType, TriggerNamesDef
  <2>4. mission.kind \notin {"get", "return"}
    BY <2>1 DEF MInv, Held, StatesOf
  <2>5. ~Ended'
    BY <2>1, <2>3, <2>4, NotEnded, TriggerNamesDef DEF Results
  <2> QED BY <2>1, <2>5 DEF Carrying, activeVars
<1> QED BY <1>1, <1>2, <1>3, <1>4 DEF Machine, Writing, Closing, Sending


\* A callback passes a mission that has ended on, and reports no other.
LEMMA QuietCallback ==
    ASSUME IInv, MInv, Callbacks
    PROVE  /\ UNCHANGED <<state, active_who, active_wht>>
           /\ Moving' /\ Ended' => Ended
<1>1. UNCHANGED <<state, active_who, active_wht>> /\ triggers = <<>>
  BY DEF Callbacks, Mission_cb, Robot_cb, Cfg_recover_cb, Cfg_idle_charge_states_cb,
     Idle_timeout, Staging_timeout, Warehouseorder_cb, Sub_warehouseorder_cb,
     Warehouseorder_processed_cb, Warehouseorder_deleted_cb, otherVars, orderVars, activeVars,
     Callback
<1>2. CASE Mission_cb
  <2>1. CASE mission.status \in {"succeeded", "failed"} /\ Moving
    <3>1. mission.kind \in {"get", "return"}
      BY <1>1, <2>1 DEF MInv, MissionMatchesState, Callback, Moving
    <3> QED BY <1>1, <2>1, <3>1 DEF Ended
  <2>2. CASE mission.status = "docking" /\ mission' = mission
             /\ triggers' = <<Call("mission_docking")>>
    <3>1. \A k \in DOMAIN triggers' : triggers'[k].name \notin Results
      BY <2>2 DEF Call, Results
    <3> QED BY <1>1, <2>2, <3>1 DEF Ended
  <2> QED BY <1>1, <1>2, <2>1, <2>2 DEF Mission_cb, Moving
<1>3. CASE \/ Robot_cb \/ Cfg_recover_cb \/ Cfg_idle_charge_states_cb \/ Idle_timeout
           \/ Staging_timeout
  <2>1. state \in {"robotError", "atStaging", "charging", "movingToStaging", "idle",
                   TrolleyError, PickError}
    BY <1>3 DEF Robot_cb, Cfg_recover_cb, Cfg_idle_charge_states_cb, Idle_timeout,
       Staging_timeout, ErrorStates
  <2> QED BY <1>1, <2>1 DEF Moving
<1>4. CASE /\ mission' = mission
           /\ Moving => triggers' = <<>>
  BY <1>1, <1>4 DEF Ended, Moving
<1>5. ASSUME NEW w \in Orders, Warehouseorder_processed_cb(w) \/ Warehouseorder_deleted_cb(w)
      PROVE  Moving' /\ Ended' => Ended
  <2>1. mission' = mission /\ triggers' = Awaited_completion(w)
    BY <1>5 DEF Warehouseorder_processed_cb, Warehouseorder_deleted_cb, missionVars, otherVars
  <2>2. Moving => triggers' = <<>>
    BY <2>1 DEF Moving, Awaited_completion
  <2> QED BY <1>4, <2>1, <2>2
<1>6. ASSUME NEW w \in Orders, NEW spec, Warehouseorder_cb(w, spec)
      PROVE  Moving' /\ Ended' => Ended
  <2>1. mission' = mission /\ triggers' = Update_robot_who_calls(w, spec.tasks)
    BY <1>6 DEF Warehouseorder_cb, missionVars
  <2>2. Moving => triggers' = <<>>
    BY <2>1 DEF Moving, Update_robot_who_calls
  <2> QED BY <1>4, <2>1, <2>2
<1>7. ASSUME NEW s \in SubOrders, Sub_warehouseorder_cb(s)
      PROVE  Moving' /\ Ended' => Ended
  BY <1>4, <1>7 DEF Sub_warehouseorder_cb, missionVars
<1> QED BY <1>1, <1>2, <1>3, <1>5, <1>6, <1>7 DEF Callbacks

\* A mission ends when the watch has caught up.
LEMMA QuietEnvironment ==
    ASSUME IInv, PromptWatch, Environment
    PROVE  /\ UNCHANGED <<state, triggers, active_who, who_tasks, active_wht, warehouseorders>>
           /\ Ended' => Ended \/ cache = cr
<1>1. UNCHANGED <<state, triggers, active_who, who_tasks, active_wht, warehouseorders>>
  BY DEF Environment, Watch_order, Order_processed, Sub_order_sent, Update_robot_status, Set_mode,
     Mission_watched, Mission_docks, Mission_ends, Orphan_ends, machineVars, orderVars,
     activeVars, queueVars
<1>2. CASE mission' = mission
  BY <1>1, <1>2 DEF Ended
<1>3. CASE Mission_watched \/ Mission_docks
  <2>1. mission \in Mission
    BY <1>3 DEF IInv, TypeOK, MissionTypeOK, NoMission, Mission_watched, Mission_docks
  <2>2. mission'.status \in {"running", "docking"}
    BY <1>3, <2>1 DEF Mission_watched, Mission_docks, Mission
  <2> QED BY <1>1, <2>2 DEF Ended
<1>4. CASE \E result \in {"succeeded", "failed"} : Mission_ends(result)
  BY <1>1, <1>4, Zenon DEF Mission_ends
<1>5. \/ mission' = mission \/ Mission_watched \/ Mission_docks
      \/ \E result \in {"succeeded", "failed"} : Mission_ends(result)
  BY DEF Environment, Watch_order, Order_processed, Sub_order_sent, Update_robot_status, Set_mode,
     Orphan_ends, missionVars
<1> QED BY <1>1, <1>2, <1>3, <1>4, <1>5

\* A step that writes no CR keeps the sequence.
LEMMA QuietSequence ==
    ASSUME IInv, IInv', MInv, PromptWatch, SequenceInv, [Next]_vars, ~Writing
    PROVE  SequenceInv'
<1>1. /\ cr' = cr
      /\ \A w \in Orders : cache'[w] \in {cache[w], cr[w]}
  BY NotWriting
<1>2. /\ Carrying' => Carrying /\ active_who' = active_who /\ active_wht' = active_wht
      /\ Moving' /\ Ended' => active_who' = active_who /\ ((Moving /\ Ended) \/ cache = cr)
  <2>1. CASE Machine
    BY <2>1, QuietMachine
  <2>2. CASE Callbacks
    BY <2>2, QuietCallback DEF Carrying, Moving
  <2>3. CASE Environment
    BY <2>3, QuietEnvironment DEF Carrying, Moving
  <2>4. CASE UNCHANGED vars
    BY <2>4 DEF vars, orderVars, activeVars, missionVars, Carrying, Moving, Ended
  <2> QED BY <2>1, <2>2, <2>3, <2>4 DEF Next
<1>3. \A w \in TrolleyOrders : Paired(cr'[w].data) /\ Paired(cache'[w].data)
  BY <1>1 DEF SequenceInv, TrolleyOrders
<1>4. Carrying' => First(active_wht)' \in cr'[active_who'].data
  BY <1>1, <1>2 DEF SequenceInv, First
<1>5. Moving' /\ Ended' => cache'[active_who'].data = cr'[active_who'].data
  <2>1. SUFFICES ASSUME Moving', Ended' PROVE cache'[active_who'].data = cr'[active_who'].data
    OBVIOUS
  <2>2. cache[active_who].data = cr[active_who].data /\ active_who' = active_who
    BY <1>2, <2>1 DEF SequenceInv, Moving
  <2>3. active_who' \in Orders
    BY <2>1 DEF IInv, NoContextLoss, Moving
  <2> QED BY <1>1, <2>2, <2>3
<1> QED BY <1>3, <1>4, <1>5 DEF SequenceInv, Moving


\* A confirmation sent by a robot that moves a trolley: a first one, or a second
\* one of the trolley it has taken, when the mission has ended.
LEMMA SentPaired ==
    ASSUME IInv, SequenceInv, active_who \in TrolleyOrders, NEW new \in OrderCR,
           NEW t, NEW number, NEW type,
           \/ number = "FIRST"
           \/ First(t) \in cr[active_who].data /\ cache[active_who].data = cr[active_who].data,
           \/ new.data = cr[active_who].data
           \/ new.data = Confirm(cr[active_who], cache[active_who], t, number, type).data,
           cr' = [cr EXCEPT ![active_who] = new], UNCHANGED cache
    PROVE  \A w \in TrolleyOrders : Paired(cr'[w].data) /\ Paired(cache'[w].data)
<1>1. active_who \in Orders
  BY DEF TrolleyOrders
<1>2. cr[active_who] \in OrderCR /\ cache[active_who] \in OrderCR /\ cr \in [Orders -> OrderCR]
  BY <1>1, CrTypes
<1>3. Paired(cr[active_who].data) /\ Paired(cache[active_who].data)
  BY DEF SequenceInv
<1>4. \/ new.data = cr[active_who].data
      \/ new.data = cache[active_who].data \cup {<<t, number, type>>}
  <2>1. PICK c : c = Confirm(cr[active_who], cache[active_who], t, number, type)
    OBVIOUS
  <2>2. \/ c.data = cr[active_who].data
        \/ c.data = cache[active_who].data \cup {<<t, number, type>>}
    <3>1. PICK old \in OrderCR, seen \in OrderCR : old = cr[active_who] /\ seen = cache[active_who]
      BY <1>2
    <3>2. CASE <<t, number, type>> \in seen.data
      BY <2>1, <3>1, <3>2, ConfirmData
    <3>3. CASE <<t, number, type>> \notin seen.data
      BY <2>1, <3>1, <3>3, ConfirmData
    <3> QED BY <3>2, <3>3
  <2> QED BY <2>1, <2>2
<1>5. Paired(new.data)
  <2>1. PICK a, b, c : a = new.data /\ b = cr[active_who].data /\ c = cache[active_who].data
    OBVIOUS
  <2>2. Paired(a)
    BY <1>3, <1>4, <2>1, PairedStill
  <2> QED BY <2>1, <2>2
<1>6. \A w \in Orders : cr'[w] = IF w = active_who THEN new ELSE cr[w]
  BY <1>2
<1> QED BY <1>3, <1>5, <1>6 DEF SequenceInv, TrolleyOrders

\* An order is started: no mission of the process has ended.
LEMMA ProcessSequence ==
    ASSUME IInv, MInv, SequenceInv, Process_warehouseorder
    PROVE  SequenceInv'
<1>1. Head(triggers).who \in Orders /\ state \in FreeStates /\ Tail(triggers) = <<>>
  BY HeadDue DEF IInv, Due, Process_warehouseorder, Trigger
<1>2. PICK w \in Orders : w = Head(triggers).who
  BY <1>1
<1>3. /\ cr' = [cr EXCEPT ![w] = Add_finalizer(@, cache[w])] /\ UNCHANGED <<cache, mission>>
      /\ \/ state' = Pick
         \/ state' = Source /\ EnterSource(Head(triggers).tasks)
  BY <1>2 DEF Process_warehouseorder, frameVars, envVars, missionVars, Goto
<1>4. \A v \in Orders : cr'[v].data = cr[v].data
  <2>1. cr \in [Orders -> OrderCR] /\ cr[w] \in OrderCR /\ cache[w] \in OrderCR
    BY CrTypes
  <2> QED BY <1>3, <2>1, FinalizedCr
<1>5. \A v \in TrolleyOrders : Paired(cr'[v].data) /\ Paired(cache'[v].data)
  BY <1>3, <1>4 DEF SequenceInv, TrolleyOrders
<1>6. state' = Source => ~Ended'
  <2>1. mission.kind \notin {"get", "return"}
    BY <1>1 DEF MInv, Held, StatesOf
  <2> QED BY <1>1, <1>3, <2>1, SourceCalled, NotEnded, TriggerNamesDef DEF Results
<1> QED BY <1>3, <1>5, <1>6 DEF SequenceInv, Carrying

\* A trolley that could not be returned, one that is loaded, one that is returned.
LEMMA TrolleySequence ==
    ASSUME IInv, MInv, SequenceInv, Trolley_not_returned \/ Trolley_loaded \/ Trolley_next_task
    PROVE  SequenceInv'
<1>1. /\ active_who \in TrolleyOrders /\ active_who \in Orders /\ Tail(triggers) = <<>>
      /\ active_who' = active_who /\ UNCHANGED <<cache, mission>>
  BY AtHand, AtTrolley DEF Sending, Trolley_not_returned, Trolley_loaded, Trolley_next_task,
     orderVars, activeVars, frameVars, missionVars, envVars
<1>2. mission = NoMission /\ cache[active_who].data = cr[active_who].data
  BY ResultAtHand DEF Results, Trolley_not_returned, Trolley_loaded, Trolley_next_task
<1>3. cr[active_who] \in OrderCR /\ cache[active_who] \in OrderCR /\ cr \in [Orders -> OrderCR]
  BY <1>1, CrTypes
<1>4. active_wht # None /\ active_wht \in Tasks
  BY DEF IInv, NoContextLoss, TypeOK, ActiveTypeOK, Trolley_not_returned, Trolley_loaded,
     Trolley_next_task
<1>5. PICK number \in {"FIRST", "SECOND"}, type \in {"SUCCESS", "ERROR"} :
        /\ Send_confirmation(number, type)
        /\ Trolley_loaded <=> number = "FIRST" /\ type = "SUCCESS"
  BY DEF Trolley_not_returned, Trolley_loaded, Trolley_next_task
<1>6. PICK new : new = Confirm(cr[active_who], cache[active_who], active_wht, number, type)
  OBVIOUS
<1>7. new \in OrderCR
  BY <1>3, <1>4, <1>6, ConfirmType
<1>8. cr' = [cr EXCEPT ![active_who] = new]
  BY <1>5, <1>6 DEF Send_confirmation
<1>9. ~Trolley_loaded => First(active_wht) \in cr[active_who].data
  BY DEF SequenceInv, Carrying, Trolley_not_returned, Trolley_next_task
<1>10. \A w \in TrolleyOrders : Paired(cr'[w].data) /\ Paired(cache'[w].data)
  BY <1>1, <1>2, <1>5, <1>6, <1>7, <1>8, <1>9, SentPaired
<1>11. Carrying' => First(active_wht)' \in cr'[active_who'].data
  <2>1. cr'[active_who] = new
    BY <1>1, <1>3, <1>8
  <2>2. CASE Trolley_loaded \/ Trolley_not_returned
    <3>1. active_wht' = active_wht
      BY <2>2 DEF Trolley_loaded, Trolley_not_returned, orderVars, activeVars
    <3>2. First(active_wht) \in new.data
      <4>1. \/ new.data = cr[active_who].data /\ <<active_wht, number, type>> \in cr[active_who].data
            \/ new.data = cr[active_who].data \cup {<<active_wht, number, type>>}
        BY <1>2, <1>3, <1>6, ConfirmData
      <4> QED BY <1>5, <1>9, <2>2, <4>1 DEF First
    <3> QED BY <1>1, <2>1, <3>1, <3>2 DEF First
  <2>3. CASE Trolley_next_task
    BY <2>3 DEF Trolley_next_task, Goto, Carrying
  <2> QED BY <2>2, <2>3
<1>12. ~Ended'
  <2>1. \/ triggers' = <<>>
        \/ triggers' = <<Call("create_return_trolley_mission")>>
        \/ EnterSource(who_tasks \ {active_wht})
    BY <1>1, ThenNone, ThenCall, CallType, TriggerNamesDef
       DEF Trolley_not_returned, Trolley_loaded, Trolley_next_task
  <2> QED BY <1>1, <1>2, <2>1, SourceCalled, NotEnded, TriggerNamesDef DEF Results
<1> QED BY <1>10, <1>11, <1>12 DEF SequenceInv


\* An order that is closed: a last second confirmation has its first one.
LEMMA ClosingSequence == ASSUME IInv, SequenceInv, Closing PROVE SequenceInv'
<1>1. active_who \in TrolleyOrders /\ active_who \in Orders
  BY AtTrolley DEF Closing, Trolley_order_aborted, Trolley_invalid_task, Trolley_not_loaded,
     Trolley_order_completed, Trolley_order_confirmed
<1>2. PICK c \in OrderCR :
        /\ cr' = [cr EXCEPT ![active_who] = Remove_finalizer(c, cache[active_who])]
        /\ \/ c = cr[active_who]
           \/ c = First_error /\ Trolley_invalid_task
           \/ c = First_error /\ Trolley_not_loaded
           \/ /\ c = Confirm(cr[active_who], cache[active_who], active_wht, "SECOND", "SUCCESS")
              /\ Trolley_order_completed
  BY Closed
<1>3. cache' = cache /\ state' = "idle"
  BY Closed DEF envVars
<1>4. cr[active_who] \in OrderCR /\ cache[active_who] \in OrderCR
  BY <1>1, CrTypes
<1>5. PICK new \in OrderCR : new = Remove_finalizer(c, cache[active_who])
  BY <1>4, FinalizerType
<1>6. new.data = c.data
  BY <1>4, <1>5, FinalizedCr
<1>7. cr' = [cr EXCEPT ![active_who] = new]
  BY <1>2, <1>5
<1>8. PICK number, type :
        /\ \/ number = "FIRST"
           \/ First(active_wht) \in cr[active_who].data
              /\ cache[active_who].data = cr[active_who].data
        /\ \/ c = cr[active_who]
           \/ c = Confirm(cr[active_who], cache[active_who], active_wht, number, type)
  <2>1. CASE Trolley_order_completed
    <3>1. First(active_wht) \in cr[active_who].data
      BY <2>1 DEF SequenceInv, Carrying, Trolley_order_completed
    <3>2. cache[active_who].data = cr[active_who].data
      BY <2>1, ResultAtHand DEF Results, Trolley_order_completed
    <3>3. c = Confirm(cr[active_who], cache[active_who], active_wht, "SECOND", "SUCCESS")
          \/ c = cr[active_who]
      BY <1>2, <2>1 DEF Trolley_order_completed, Trolley_invalid_task, Trolley_not_loaded, Trigger
    <3> QED BY <3>1, <3>2, <3>3
  <2>2. CASE ~Trolley_order_completed
    BY <1>2, <2>2 DEF First_error
  <2> QED BY <2>1, <2>2
<1>9. \A w \in TrolleyOrders : Paired(cr'[w].data) /\ Paired(cache'[w].data)
  BY <1>1, <1>3, <1>6, <1>7, <1>8, SentPaired
<1> QED BY <1>3, <1>9 DEF SequenceInv, Carrying

\* A pickPackPass order writes none of a moveTrolley order.
LEMMA PickSequence ==
    ASSUME IInv, SequenceInv,
           Pick_order_confirmed \/ Pick_needs_help \/ Start_delivery
    PROVE  SequenceInv'
<1>1. state' \notin TrolleyStates /\ cache' = cache
  BY DEF Pick_order_confirmed, Pick_needs_help, Start_delivery, Goto, frameVars, envVars
<1>2. active_who \in PickOrders
  BY DEF IInv, NoContextLoss, Pick_order_confirmed, Pick_needs_help, Start_delivery
<1>3. ASSUME NEW w \in TrolleyOrders PROVE cr'[w] = cr[w]
  <2>1. w \in Orders /\ w # active_who
    BY <1>2 DEF TrolleyOrders
  <2>2. cr \in [Orders -> OrderCR]
    BY <2>1, CrTypes
  <2> QED BY <2>1, <2>2 DEF Pick_order_confirmed, Pick_needs_help, Start_delivery,
     Send_confirmation, Close_active_who
<1> QED BY <1>1, <1>3 DEF SequenceInv, Carrying

\* Every step keeps the sequence.
LEMMA SequenceKept ==
    ASSUME IInv, IInv', MInv, PromptWatch, SequenceInv, [Next]_vars
    PROVE  SequenceInv'
BY QuietSequence, ProcessSequence, TrolleySequence, ClosingSequence, PickSequence
   DEF Writing, Sending

\* In the status of a moveTrolley order the second confirmation of a task,
\* success or error, stands only beside its first successful one, provided that
\* the watch has caught up when a mission ends.
THEOREM InSequence == PromptWatch => (Spec => []FirstBeforeSecond)
<1> SUFFICES ASSUME PromptWatch PROVE Spec => []FirstBeforeSecond
  OBVIOUS
<1>1. Init => SequenceInv
  <2> SUFFICES ASSUME Init PROVE SequenceInv
    OBVIOUS
  <2>1. \A w \in TrolleyOrders : Paired(cr[w].data) /\ Paired(cache[w].data)
    BY DEF Init, Paired, TrolleyOrders
  <2> QED BY <2>1 DEF Init, SequenceInv, Carrying
<1>2. IInv /\ IInv' /\ MInv /\ SequenceInv /\ [Next]_vars => SequenceInv'
  BY SequenceKept
<1>3. SequenceInv => FirstBeforeSecond
  BY DEF SequenceInv, Paired, FirstBeforeSecond, TrolleyOrders, First
<1> QED BY <1>1, <1>2, <1>3, Inductive, MissionsKept, PTL DEF Spec

=============================================================================
