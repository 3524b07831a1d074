# A verification project for the EWM cloud robotics system

The system connects the warehouse management of SAP (EWM) with mobile robots:
EWM holds warehouse orders and their tasks, an order manager in the cloud turns
them into custom resources (CRs) of Kubernetes, one controller per robot executes
them by creating missions, and a mission controller on the robot drives it. All
parts talk only through CRs, which every process watches and caches, and through
OData calls to EWM. This directory holds TLA+ models of those parts, the TLC
instances that check them and the TLAPS proofs about them.

`src/` below is the repository. Sources of the Python packages are abbreviated:
`statemachine.py` is `src/python-modules/robcoewmrobotcontroller/robcoewmrobotcontroller/statemachine.py`
and so on; `PROJECT.json` has the full paths and the lines of every definition.

## 1. Inventory

| component | state it keeps | operations | what is hard | what makes it correct |
|---|---|---|---|---|
| **ewm-robot-controller: state machine** (`statemachine.py`, `statemachine_config.py`) | hierarchical state, active order / task / sub order, queue of orders, active mission, error counts | transitions with `before`, `conditions`, `on_enter` callbacks; callbacks of four watches; two timeouts | triggers queue behind each other, watches and timeouts run in other threads, data read from stale caches | context of each state, the mission a state waits for exists, confirmations in order, no order lost or replaced; no task done twice and no sub order ignored, which the code does not keep |
| **ewm-robot-controller: handlers** (`missioncontroller.py`, `robotcontroller.py`, `robotconfigcontroller.py`, `ordercontroller.py`) | last mission and robot status, mode, caches of the CRs | create and delete missions, `confirm_wht`, finalizers, `warehouse_order_precheck` | read-modify-write on cached copies | finalizers held while needed, confirmations appended |
| **ewm-robot-controller: start and restore** (`robot.py`) | state saved in the status of the robotconfiguration CR | save after a state change, restore at start | crash between creating a mission and saving its name | the state can be restored at any time (`docs/architecture.md:20`) |
| **ewm-order-manager: orders** (`manager.py`, `ordercontroller.py`, `robotconfigcontroller.py`, `helper.py`) | order CRs with their process status, the memory of processed confirmations, watch caches | request orders for robots, write CRs, book confirmations in EWM, take orders back, clean up CRs | retries after lost answers, two lists (sent and processed) with two writers in one CR, callbacks with old copies, an EWM that changes meanwhile | no confirmation is forgotten or overtakes another, an error is reported once, what EWM assigned or finished reaches the CR |
| **ewm-order-manager: reservations** (`manager.py`, `orderreservationcontroller.py`, `auctioneercontroller.py`) | reservation CRs: status, orders, assignments | reserve orders in EWM, offer, assign winners, time out, cancel | several reads and writes of EWM in one handler, failures in between | an order is reserved once; none stays reserved for ever |
| **order-auctioneer** (`src/go/cmd/order-auctioneer`) | auctioneer, reservation and auction CRs, informer caches | create reservations and auctions, collect bids, choose winners, clean up | informers lag, auctions of one reservation close apart | one winner per order, winners among the bidders, every auction closes |
| **order-bid-agent** (`src/go/cmd/order-bid-agent`) | auction CR of the robot | compute a bid per order, write it before the deadline | deadline against calculation | no bid after the auction closed |
| **mission controllers** (`mircontroller`, `fetchcontroller`, `dummycontroller`) | the copy of every mission CR, the mission in work, whether the process is in its first pass | accept missions, take one up, create a robot mission for every action and follow it, cancel, resume after a restart | three copies of one program with differences; deletion against creation, requests without an answer that are sent again, missions resumed from old CRs, lost events | a robot works on one mission at a time; what is reported was performed, in order, and not more often than faults explain; accepted missions end |
| **k8scrhandler** | watch cache, registered callbacks, worker pool | watch, re-initialise, process, reprocess, update status and spec, finalizers | five workers, a new list after a break, a resource version that is too old, copies of the cache | the newest version of a CR reaches its callback |
| **ABAP function modules** (`src/abap`) | the orders in EWM | offer, assign and take back orders, book confirmations, alerts | they are called again after lost answers, in any order | see the order manager |
| robot-configurator, OData interface, types, travel time calculator, token proxy, generated clients, simulator, UI, charts | - | - | - | mostly not modelled, see section 7 |

Interactions. The order manager writes order CRs (`spec.data`, `spec.process_status`)
and reads the confirmations the robots append to `status.data`; an order CR is
deleted when it is PROCESSED and its finalizers are gone. The robot controller
creates mission CRs and reads their status; the mission controller does the
opposite. Auctioneer and order manager meet in reservation CRs, auctioneer and bid
agent in auction CRs. Nothing is transactional: a status is read from a watch
cache, changed, and patched back as a whole.

## 2. Modules

| module | models | state |
|---|---|---|
| `RobotStateMachine` | the state machine of one robot with its mission, order, robot and configuration handlers | written |
| `MCRobotStateMachine` | constants for TLC | written |
| `RobotStateMachineProofs` | the inductive invariant of the machine and the theorems | written |
| `RobotMissionProofs` | what the queue of triggers holds, and the theorems about missions | written |
| `RobotOrderProofs` | what the machine writes into the CRs of its orders, and the theorems about it | written |
| `OrderReservation` | the order manager's handlers of reservations, with the auctioneer's steps on them and EWM's state of the orders | written |
| `MCOrderReservation` | symmetry for TLC | written |
| `OrderReservationProofs` | the invariant of a round of calls and the theorems | written |
| `OrderFulfilment` | the order manager's callbacks of order CRs and of robot configuration CRs, with the robots' writes to the CRs and EWM's state of the orders | written |
| `MCOrderFulfilment` | constants for TLC | written |
| `OrderFulfilmentProofs` | the inductive invariant of the confirmations and the theorems | written |
| `K8sCRHandler` | the watch, cache and executor of one kind of CR, instantiated by the modules whose callbacks they are | written |
| `MissionControllers` | the mission controllers of MiR, Fetch and dummy robots, on an instance of `K8sCRHandler` | written |
| `MissionService` | abstract: what a robot controller may rely on, whatever controller serves it | written |
| `MissionControllersProofs` | the invariants of the mission controllers, the refinement of `MissionService` and the theorems | written |
| `MCMissionControllers` | missions and robots for TLC | written |
| `RobotRestart` | saving and restoring the state machine around a crash | planned |
| `AuctionWinners`, `Auctioneer` | the choice of winners against a reference definition; auctions, bids and reservations with informers that lag | planned |

### How RobotStateMachine corresponds to the code

The class is a `LockedHierarchicalMachine` with `queued=True`. Two facts of that
library shape the module:

* a watch callback, a timeout or a trigger runs with the machine's lock held until
  the queue of triggers is empty. A callback is therefore *one* action that starts
  with an empty queue (`Callback`) and leaves in `triggers` what it called;
* a trigger called while another is processed is appended to the queue. Every queued
  trigger is one action, whose guard `Trigger(name)` names the head of the queue. An
  action is a whole transition: condition, `before` callbacks, change of state with
  the reset of the error count, `on_enter` callbacks and the triggers they call. A
  trigger without a transition from the current state raises a `MachineError`, which
  clears the queue (`Refused`).

Other threads do not take that lock, so `Environment` may act between any two
triggers: the order CRs' cache catches up (`Watch_order`), the mission CR changes
(`Mission_*`), the battery level and the mode are replaced, an order is marked
PROCESSED by the order manager.

| state in the module | in the code |
|---|---|
| `state`, `error_count` | `state`, `error_count` |
| `triggers` | the queue `_transition_queue` of the machine |
| `active_who`, `who_tasks`, `active_wht` | the attributes of the same names; an order is split into its number and the tasks it still has |
| `warehouseorders` | `warehouseorders` |
| `sub_events` | sub orders sent to the robot whose event waits for `warehouseorder_cb` |
| `processed_order_spec` | the cache of specs already handed on, `ordercontroller.py` |
| `mission` | `active_mission` and the status of the CR it names |
| `orphans` | missions still running whose name was overwritten, or that were not in the cache when they were to be deleted |
| `failed_warehouseorders`, `mode`, `battery` | `failed_warehouseorders`, `conf.mode`, `battery_percentage` |
| `cr`, `cache` | `status.data` and `metadata.finalizers` of the order CRs at the API server and in the watch cache |
| `order_status` | `spec.order_status`, written by the order manager |

**Events of orders.** `Events` are the specs an event may bring with the status of the same
version. The status the event carries can be behind the CR, and, with `OlderEvents`, behind the
cached copy too: the event has waited for one of five threads and for the machine's lock.
`Precheck` skips a spec of which a task has its second confirmation, or its first one and
still a source bin. EWM empties the source bin when it books the first confirmation, and the
tasks in the event may be from before or after that (`Source_bins`).

**Sub orders.** For an order of another resource `_update_who` first builds a debug message from
`warehouseorder_spec.who` (`statemachine.py:391-393`). A `WarehouseOrderCRDSpec` has no such
attribute; the AttributeError ends the trigger, the executor swallows it, and
`_update_sub_who` is never called. `Sub_warehouseorder_cb` therefore only uses the event up.
Everything behind that call (`active_sub_who`, the triggers `new_active_sub_who` and
`warehousetask_confirmed` and their transitions) cannot happen and is not modelled. The states
of pickPackPass behind `movingtoPickLocation` are reached all the same: a staging mission that
is not cancelled (`statemachine.py:722`, `missioncontroller.py:245`) outlives `robotError` and a
recovery, and when its result arrives during a pickPackPass order, `mission_succeeded` moves
the robot to `waitingAtPick`, and `pickpackpass_who_with_tasks` on to the delivery.

`confirm_wht`, `add_finalizer` and `remove_finalizer` read a deep copy of the cached
CR and patch the whole list: `Confirm`, `Add_finalizer` and `Remove_finalizer` take
the CR and its cached copy and do the same.

`Decide_whats_next` is the set of calls `_decide_whats_next` may make. It takes any
order of the queue where the code takes the one with the smallest sequence number.
Left out are logging and metrics, the choice of a charger and the addresses of
missions. The queued order and the active order are one object in the code as long
as no newer version has arrived; `Close_active_wht` changes both. After a newer
version has arrived, `_update_robot_who` replaces both as well.

### How OrderReservation corresponds to the code

A reservation CR is written by two sides: the auctioneer writes its spec (the
winners), the order manager its status. The module has both, and EWM as the third
party that knows for each order whether it is open, in process, with a robot or done.

* `orderreservation_cb` runs under the lock of its CR (`cr_locks`), the callbacks of
  different CRs in five threads. `job[r]` is the callback that holds the lock of `r`:
  what it read, what it works on and the call it makes next. One action is one call
  to EWM or to Kubernetes with the code up to the next one; anything else may happen
  between two of them. `Next_call` is the control flow between the loops of
  `_process_orderres_cr_reservations`.
* A callback gets the CR its event brought. It may be old when the lock is free at
  last: `pending[r]` are the copies handed to the executor. They are taken in any
  order, since nothing orders the threads that wait for a lock.
* `Watch` delivers the present CR; events overtaken by it are left out, since
  `Reprocess` and the waiting copies give callbacks old versions already. Only a
  DELETED event changes the cache without a callback.
* Every call may fail. A call that changes EWM fails in two ways: it was not made, or
  it was made and the answer got lost (`Fault` in `Getnew`, `Assign`, `Unset`). A
  refusal by EWM (`Assign_fails`) is no fault. The code tells the two apart as
  `connection_error`, the field `err`.
* `Restart` loses callbacks and cache and lists the CRs again.
* `ewm[o] = r` records for an order in process which reservation took it last. EWM
  knows only "in process"; no guard of the model tells one reservation from another.
* `Getnew` takes orders that are open. Without one the callback has nothing but a message to
  write, and writes the whole status of its copy with it (`Getnew_no_order`,
  `manager.py:712-717`): status NEW, no orders. The copy may be old, so that a reservation that
  is ACCEPTED or has its assignments goes back to NEW. The field `msg` is that message, which
  is written once.
* `validuntil` is no clock: a callback that finds no assignments may find the time
  over (`Start_timeout`) or not (`Nothing_to_do`).
* The auctioneer's informers lag, so `Create_reservation` does not wait for other
  reservations; its updates carry the resource version, so `Close_auction` and
  `Delete_reservation` act on the present CR. A name is used again once its
  CR is gone or FAILED and no callback knows it.
* Lists of orders and assignments are sets. Sending an order to its robot succeeds or
  fails here; the order's CR belongs to `OrderFulfilment`. The tasks read for ACCEPTED
  are data.

### How OrderFulfilment corresponds to the code

An order CR has two writers. The robot appends confirmations to `status.data`
(`confirm_wht`); the order manager writes `spec.order_status`, the label of the robot
and `spec.process_status`, the confirmations it is done with. The module has both,
EWM, and the person who reacts to an alert.

| state in the module | in the code |
|---|---|
| `ewm[o]` | EWM: the queue of the order (for robots or for errors), its robot, its tasks, and the log of what it was told |
| `crs[o]`, `cache[o]` | the CR at the API server and in `_cr_cache` |
| `pending[o]` | copies of the CR in the executor, waiting for the lock of the CR |
| `job[o]` | `process_who_cr_cb` while it has that lock: its copy, the confirmation in work and its next call |
| `memory[o]` | `msg_mem.who_confirmations` |
| `desk[r]` | `process_robotconfig_cr` for robot `r` and its next call |
| `workers[o]` | the robots that have the order in their queue or in work |
| `faults` | failed or unanswered calls and restarts so far |

* One action is one call to EWM or to Kubernetes with the code up to the next call.
  For one confirmation that is: `Read_open_tasks`, `Confirm_warehousetask`, then `Clean`
  (after a first error or after the last task) or, after a first confirmation,
  `Get_robot_whos` and `Send_robot_whos`. `Continue` is the control flow between
  confirmations: the next one that the copy does not show as processed and that is
  not in the memory; when none is left, the list is saved.
* `Memorize` adds the confirmation when *all* its calls have succeeded. An exception
  ends the callback without saving (`Abort`), and the confirmations are processed again.
* A call that fails may have been carried out (`Abort`, `Desk_fails`).
* EWM is modelled from the function modules in `src/abap`, each call one step: what it
  offers a robot that asks for work (`Offered`), that it answers "already confirmed"
  (`Already`), that an error moves the order to the error queue and a first one takes it from
  its robot (`Booked`), and that it takes no order from a robot that holds a part of it
  (`Picked`, `Refused`). A refused error has changed the queue by then (`Rejected`). That it
  refuses a confirmation of an order that is not with the robot is the answer of
  `/SCWM/TO_CONFIRM`, which is outside of the repository.
* The callback of robot configurations requests an order for a robot without one
  (`Request_work`). Whether it does is left open: the code asks for mode RUN, an idle and
  available robot with a charged battery and a recent status, and no auction under way
  (`manager.py:254-275`). The callback takes orders without a first confirmation back from a
  robot that charges, stops or stays in error; it goes by the status it began with, so it may
  start at any time.

Abstractions. An order is one order with `NTasks` tasks, without sub orders. Robots see
the present CR (the copies they work with are in `RobotStateMachine`), send no
confirmation twice and have one order at a time. A waiting copy that a new one equals is
one copy; without room the event is left out, since CRs are processed again every ten
seconds. A person acts only after an alert, and puts an order back into the queue only
when its CR is PROCESSED. CRs are never deleted (the order manager keeps the fifty newest).

### How MissionControllers and K8sCRHandler correspond to the code

`K8sCRHandler` is the handler of one kind of CR. The API server sends the versions of
each CR in the order they were written (`stream`); the watcher thread caches one and
submits its callback (`Watch_on_crs`); the executor runs the callbacks of a CR one after
the other (`calls`). The handler's own reactions to breaks are `Init_watcher` (after an
error of the API: a new list, every CR of it called back as ADDED), `Too_old` (error 410:
it goes on at the version the error names) and `Synchronize_cache`.

The three mission controllers are copies of one program with differences. `Missions` is
watched through an instance of the handler. The common bodies come first; an action
`Mir_x`, `Fetch_x` or `Dummy_x` is the body for that controller with what is its own, and
`Init` chooses the controller. `PROJECT.json` maps the three to their own sources.

| state in the module | in the code |
|---|---|
| `missions` | `_missions`, the copies the loop looks at |
| `upstart` | `_controller_upstart` |
| `todo` | the copies the present pass of `_watch_missions` still has to look at |
| `job[r]` | `_active_mission` (MiR, dummy) or `_active_missions[r]` (Fetch), with the status `run_mission` keeps of it and its next call |
| `queue` | the missions of the MiR queue, the tasks of FetchCore, the counters of the dummy |

The loop, the threads of `run_mission`, the executor and the robots interleave; an action
ends where a call to Kubernetes or to the robot returns. A request without an answer may
have reached the robot, and `@retry` sends it again (`mircontroller/mirapi.py:125`, ten attempts;
`fetchcontroller/fetchcore.py:161`, five). `Post` is one attempt: answered, or not and then
sent again (`Sent_again`) or given up (`Request_fails`); each attempt may have left a robot
mission, of which the controller follows the last. The Fetch controller knows the robots of its
fleet before it watches missions (`fetchcontroller/run.py`, `robot.py:108-125`).
A process that ends is started again with an empty memory and a new list (`Start_again`); in MiR
and Fetch, an update of a CR that is gone but still
cached ends the process itself (`Update_not_found`).

`MissionService` says what a robot controller may rely on: a mission is accepted before it
runs, a robot works on one mission at a time, only the mission in work leaves RUNNING,
and a final status stays. `ServiceKept` is the refinement: `status` is the status in the
CRs, `work` the mission in `job`. If the controller has missed events (`behind`), a
finished mission may be done once more; the abstract specification says so.

## 3. Properties and runs

| run | instance | checks |
|---|---|---|
| `queue` | a moveTrolley order, whose second task may be no handling unit, and a pickPackPass order with a sub order; a delivery may fail | `TypeOK` (with the retry bound), `NoContextLoss`, `FinalizerHeld`; `FirstBeforeSecond`: in a moveTrolley order a second confirmation never stands without the first; `OrderClosedFirst` |
| `modes` | three battery levels, three modes, one order; staging and charging may fail | `MissionMatchesState`: a driving machine follows a mission of the kind its state waits for. `TrolleyMissionsTracked`: only staging and charge missions are ever left running |
| `liveness` | one order, RUN and STOP; fetching and returning may fail; fair | `FirstBeforeSecond` with retries and error recovery; `TrolleyReported`, `QueueIsServed` |
| `redone` | one order whose events wait for the machine | a claim of a comment and a log message the code does not keep |
| `sub_order` | a pickPackPass order with a sub order; fair | a claim of a docstring and a log message the code does not keep |
| `reservation_ends` | one reservation after the other for two orders, a robot, one fault | `TypeOK`; `ReleasedAtEnd`: a reservation that ends leaves no order in process; `ReservationEnds`: a reservation with orders ends or fails, unless it goes back to NEW for ever; `NothingStaysReserved`: an order in process gets out of it |
| `reservation_once` | two reservations, one order, no fault | a claim of two comments the code does not keep |
| `orders` | an order of two tasks, a robot, one error, one fault | `TypeOK`; `ProcessedIsBooked`: what is saved as processed or memorized is in EWM; `BookedInSequence`: no confirmation is booked before those ahead of it are settled; `ErrorReportedOnce`; `ConfirmationsArrive`, `DoneIsClosed`, `AssignedArrives`: what the robot sent reaches EWM, what EWM finished or assigned reaches the CR |
| `orders_own` | an order of one task and two robots, one error, no fault | a claim of a comment the code does not keep |
| `missions` | a mission of two actions at a MiR, a Fetch or a dummy controller, three disturbances | `TypeOK`; `SucceededIsPerformed`: SUCCEEDED only if the robot did every action; `ActionsInOrder`; `NotRequestedTwice`: a robot gets an action once, and once more at most for each restart, missed event and request without an answer; `NewestOnItsWay`: breaks of the watch lose no newest version |
| `missions_two` | two missions for one robot or for two, one disturbance, fair | `ServiceKept`: the controllers implement `MissionService`; `MissionEnds`: an accepted mission ends |
| `missions_canceled` | one mission at a MiR, one disturbance | a log message the code does not keep |

Disturbances of missions are CRs deleted, restarts, requests without an answer, new lists
of the watch and versions lost. Every property of a passing run is also run against a
mutated definition with a plausible bug (the operators marked `mutant` in the modules) and
is violated there.

### Bounds

* `MaxRetry = 1`, `MaxFailedOrders = 1` (0 in `queue`; the code has configurable retries and
  the literal 3): one failure is retried and the next one given up, so both sides of the
  comparison occur, and orders that fail reach `robotError`. The proofs hold for every value.
* Three battery levels: one below the minimum, one between minimum and idle, one
  above every threshold.
* `MayFail` names the missions that may fail in a run, because every kind that may
  fail multiplies the states. Between them the passing runs let every kind fail.
* `MaxFinalizers = 2`: a finalizer listed twice (which a stale cache allows) is seen;
  a third entry would change nothing.
* `PromptWatch` in the state machine: the robot's watch has seen its own writes before a
  mission *ends*; missions take minutes, the watch milliseconds. Steps of the machine
  itself are not restricted, so two confirmations in one run of the queue do meet a stale
  cache.
* `OlderEvents = FALSE` in the passing runs: an event of an order carries the status of the
  cached copy, which may itself be behind the CR. With TRUE it carries any earlier part of it;
  the properties of the passing runs are proved for both values, and `redone` shows what TRUE
  breaks.
* In `queue` the moveTrolley order has one task with a handling unit and one without, so that
  an order ends with a task returned and one refused. Two trolleys in a row are covered by the
  proofs only.
* `MaxFaults = 1`: one call fails, one answer is lost or the manager restarts once, at any
  point of `reservation_ends` and of `orders`. The proofs hold for any number.
* `MaxPending = 1` (reservations, orders): one copy waits while a callback runs on another
  and the cache may show a third, so a callback can be two versions behind. The proofs hold
  for any number. In `missions` up to three versions of a CR, in `missions_two` two, are on
  their way.
* `NTasks = 2` in `orders`: a first confirmation of one task may stand before the second of
  the other, and only the last task closes the order. One order is enough for the
  properties, which speak of one order each; that a robot has one order at a time couples
  orders only through `Request_work`. The proofs hold for any number of orders and robots.
* `MaxErrors = 1`: an error takes the order from the robot; a second one would come from a
  second robot. `orders_own` has that robot.
* `MaxDisturbances = 3` in `missions`: for instance a restart, a request without an answer
  and a deletion. With two missions it is 1. `MaxRobotMissions` is the number of requests a
  behaviour may make; with it at 5 one of two actions can be requested as often as three
  restarts or requests without an answer allow and once more.
* `PromptWatch` in the mission controllers: the loop starts no pass while the *end* of a
  mission is on its way (half a second against milliseconds). Without it a finished mission
  may be done again, which `MissionService` describes as `behind`.
* `Quantity` is the number of orders, so that a reservation gets fewer than it asks for
  whenever another one or a robot was faster.
* Symmetry: the reservations in `reservation_once`, which checks no liveness.

The passing runs have between 250 000 (`orders`) and 2.6 million (`modes`) distinct states and
take one to three and a half minutes.

### Fairness

`Fairness` of the state machine has one condition for each thing the code keeps going on
its own: the thread that holds the lock drains the queue (`Machine`); the mission controller
works on a mission until it ends (which `MissionEnds` shows, with its exceptions);
`mission_cb` runs for every change of the active mission; the watch of order CRs delivers;
the timers of `idle` and `atStaging` run out; `robot_cb` runs for every update of the robot
CR; the callback of a sub order gets the machine's lock. Nothing is assumed of people or of EWM:
the mode may stay STOP for ever, a robot that
needs help may never get any, an order need not be updated. Hence `QueueIsServed` ends in
its exceptions and `TrolleyReported` in an error confirmation.

The fairness of `OrderReservation` is that of the threads it models. A callback that
runs makes its next call, and the executor starts those that wait. CRs are reprocessed
every ten seconds. The watch delivers what has changed: it is strongly fair because the
bound `MaxPending`, which the real queue does not have, may disable it again and again.
Time passes: when callbacks start again and again without assignments, one of them
finds `validuntil` over. The auctioneer deletes what has ended and creates a
reservation when it can again and again. Faults are bounded, hence finite. Nobody is
assumed to bid, to request work or to finish an order. `NothingStaysReserved` has one
more condition, `CopiesGetFresh`: from some time on callbacks start with an up-to-date
copy. TLC showed it to be needed: a callback that starts with an old copy of its CR
writes an older list of orders over a newer one, and the order that dropped out waits
for the next reservation. If that happens for ever, the order may wait for ever. `ReservationEnds`
needs the same condition, since such a callback can put the reservation back to NEW when no
order is left, and ends in an exception: a reservation put back to NEW stays NEW as long as no
order is found.

In `OrderFulfilment` the watch, the executor, the threads and the calls of the order manager
go on, and CRs are processed again. Robots, persons and faults owe nothing, and the order manager
owes no request for work: a robot that is stopped, or one an auctioneer serves, is never polled
(`manager.py:254-275`). `AssignedArrives` has the polling as its premise, robot by robot, and so
speaks of the robots the order manager goes on requesting work for.
`ConfirmationsArrive` and `DoneIsClosed` name one exception, `Blocked`: EWM refuses a
confirmation for good when the order has left the robot, and an error before a first
confirmation while the robot holds another task. The code logs "try again later" and goes
on trying.

In `MissionControllers` the callbacks, the watcher, the loop, `run_mission` of each robot and
the robots go on. `MissionEnds` has three exceptions, all found by TLC and all left in the
property by name: `LeftBehind` (only the first pass of a process resumes RUNNING missions; one
whose CR comes into `_missions` after that pass is never resumed), `stuck` (a Fetch mission
deleted before it is set RUNNING keeps its robot occupied for ever) and `lost` (on error 410
a CR written in between is never called back).

### What the code does not keep

* `reservation_once`: *"Check if warehouse orders are reserved for a different
  auction"* (`manager.py:675`). The check reads the cached statuses. Two callbacks that
  both read the orders in process before either has written its status take the same
  order, and both CRs offer it. No fault is needed; the lock is per CR. EWM sorts it
  out when the winners are assigned: the second assignment is refused, or, if the first
  reservation times out, it takes an order that is open again.
* `orders_own`: *"Consider entries for own robot resource only"*
  (`src/python-modules/robcoewmrobotcontroller/robcoewmrobotcontroller/ordercontroller.py:62`).
  Only `process_status` is filtered by the robot, `data` is not. An order that one robot
  reported an error of, and that EWM gives to another one, has entries of the first for
  ever, so that the second never takes it.
* `missions_canceled`: *"CR of mission deleted, mission was canceled"*
  (`mircontroller/mission.py:369`). The DELETED callback looks for the id of a robot
  mission every half second. When the CR is deleted while the request that creates the
  robot mission is under way, the update of the ids finds no CR and `run_mission` ends; the
  callback then finds nothing in work, and the robot goes on with the mission just created.
* `redone`: *"Check if a warehouse task is already confirmed"*
  (`src/python-modules/robcoewmrobotcontroller/robcoewmrobotcontroller/ordercontroller.py:70`).
  The precheck looks at the status of the event. The event waited for the machine's lock while
  the transition that returned the last trolley appended the second confirmation and closed the
  order: by the status the event carries nothing is confirmed yet, the order goes back into the
  queue and the robot sets out for the trolley again.
* `sub_order`: *"Update a sub warehouse order not directly assigned to this robot."*
  (`statemachine.py:473`) and *"New sub warehouse order for active warehouse order received"*
  (`:487-489`). The AttributeError of `statemachine.py:391-393` (see section 2) ends the callback
  of every sub order before, and a pickPackPass robot waits in `movingtoPickLocation`.

Beside these, comments and log messages of the robot controller promise more than the
code does, as reading it shows: active missions are not cancelled before charging
(`statemachine.py:722` compares the destination of the event, an idle state). *"Get current
status from custom resource of the warehouse order"* and *"Append current wht confirmation to
status"* (`src/python-modules/robcoewmrobotcontroller/robcoewmrobotcontroller/ordercontroller.py:95`
and `:97`): the status is the one in the watch cache, and the whole list is replaced. When a
trolley is returned and the next task of the order has no handling unit, the machine sends the
second confirmation and, in the same run of its queue, the error for the next task. The error is
appended to a list without the second confirmation, which is lost.

Two things go wrong without contradicting a word of the repository, and the properties say how
far they may go. A POST that is sent again after a timeout can leave several robot missions for
one action (`NotRequestedTwice` counts them). A callback with an old copy of a reservation that
finds no orders puts the reservation back to NEW (`ReservationEnds`, `NothingStaysReserved`).

`FirstBeforeSecond` speaks of moveTrolley orders. A pickPackPass robot that
recovers from a failed pick while its order has tasks to deliver goes straight to
the delivery and sends no first confirmation; nothing in the repository says what
it should send.

## 4. Proofs

`RobotStateMachineProofs` proves, for all sets of orders and tasks, all retry
limits, battery levels and modes, with stale caches and late events:

* `TypeCorrect`: `Spec => []TypeOK`;
* `ContextKept`: `Spec => []NoContextLoss`;
* `OrderClosed`: `Spec => OrderClosedFirst`.

The only assumptions are `OrdersAssumption` and `ParameterAssumption` of the module.

`NoContextLoss` is not inductive: the transitions do not check the arguments or the
context a trigger brings, they trust whoever queued it. `IInv` adds what the callers
guarantee:

* `TriggersOK`: at most one trigger is queued, alone or behind a cancellation, and it
  is *due* (`Due`): a start of an order names an order and the machine is free;
  the result of a mission comes when no mission is left; a task found
  to be no handling unit task is at hand;
* `DeliveryOK`: a delivery without a task has no mission either. It is what keeps a
  late result from moving a delivery without a task on to a state that needs one.

`Inductive` is proved with one lemma per action (or group of like actions), each with
one step per part of the invariant the action can disturb; `HeadDue` turns the queue
into the facts the transition needs, `IdleEntered`, `PickEntered` and
`DeliverEntered` do the `on_enter` callbacks once. `OrderStep` sums up what a step may
do to `active_who`, and `OrderClosed` follows from it.

`RobotMissionProofs` builds on it and proves, without further assumptions,

* `MissionMatches`: `Spec => []MissionMatchesState`;
* `MissionsTracked`: `Spec => []TrolleyMissionsTracked`.

Both are about moments when the queue is empty or a trigger is just processed, so the invariant
`MInv` says what the queue holds in between. `FitsAll`: a queued trigger has a transition in the
state it will find, unless it reports a mission; so no trigger that creates a mission is ever
refused, and a state that waits for a mission has either the mission or the trigger that creates
it (`Calls`). `Held`: while there is a mission that moves a trolley or a picking robot, nothing
but its docking is queued, hence nothing that overwrites or cancels it. `MachineMoves`,
`CallbackMoves` and `EnvironmentMoves`
have one lemma per group of actions.

`RobotOrderProofs` is about what the machine writes into the CRs of its orders, always starting
from a cached copy:

* `FinalizersHold`: `Spec => []FinalizerHeld`, however late the watch is;
* `InSequence`: `PromptWatch => (Spec => []FirstBeforeSecond)`, for events of any age.

The hypothesis is the one the runs make by their constant. It is needed, since confirmations are
sent when a mission has ended and go into a list read from the cache. The invariants are

* `FinalizersSeen`: a count of finalizers the watch shows at its limit is not zero in the CR (a
  finalizer is not added to a list that has it twice, so this is what the addition rests on);
* `SequenceInv`: the CR and its cached copy are in sequence; a trolley that is carried has its
  first confirmation; and from the end of a mission until its result is processed the cache
  shows what the CR says.

Only a few actions write a CR (`Writing`); `NotWriting` and `QuietSequence` do all others at
once.

`OrderReservationProofs` proves, for all sets of reservations, orders and robots and
any bound on faults and on waiting callbacks:

* `ReservationTypeCorrect`: `Spec => []TypeOK`;
* `EndReleases`: `Spec => ReleasedAtEnd`.

The only assumption is `ReservationAssumption`, which keeps the four kinds of values of
`ewm` apart. A reservation that ends has asked EWM about every order, but not in the
step that ends it, and others have changed EWM since. `IInv` therefore says of every
callback how far it has come (`JobOK`): unless a call failed, the orders it is done with
are out of process for its reservation or recorded as assigned, and it writes only when
it is done with all. `OneJob` is the interference argument: the steps of other
callbacks, robots and EWM never take an order for *this* reservation, so they cannot
break it; `NextCall` does the control flow once; one lemma per phase does the calls.
`EndIsWritten` shows that SUCCEEDED and TIMEOUT are written by such a callback only.

`OrderFulfilmentProofs` proves, for all sets of orders and robots, any number of tasks, of
waiting copies, of errors and of faults:

* `FulfilmentTypeCorrect`: `Spec => []TypeOK`;
* `NothingForgotten`: `Spec => []ProcessedIsBooked`;
* `SequenceKept`: `Spec => []BookedInSequence`;
* `ErrorsReported`: `Spec => []ErrorReportedOnce`.

The only assumption is `FulfilmentAssumption`, of which the proofs use that the number of faults
is a natural number. Neither `ProcessedIsBooked` nor `BookedInSequence` is inductive: the process
status is written from the copy a callback began with, long after EWM was asked, and the memory
outlives the callback. `IInv` adds

* `CopiesOK`: every copy of a CR that is cached or waits names only settled confirmations as
  processed, and its data are a beginning of the present data;
* `JobsOK`: a callback has settled everything before the confirmation in work, that one too when
  it is confirmed, and all of it when it saves;
* `DataOK`: no confirmation is twice in a CR, and EWM has logged none but those.

Three facts about a step carry the proof: tasks only go forward and the log grows only by the
confirmation a callback books (`EwmStep`); the data only grow and the process status is only
replaced by what a callback saves (`CrsStep`); the memory only takes what is settled
(`MemoryStep`). `SettledStays` and `Stays` turn the first two into "what is settled, or in order,
stays so", whoever moves; `CallbackMoves` sums up the calls of a callback, `ContinueOK` does the
search for its next confirmation once.

`ErrorReportedOnce` counts: an error is booked at most once more than there were faults. `OnceOK`
ties the count to what the order manager knows: an error it does not know to be booked (neither
memorized nor in clean-up, `Marked`) was booked at most as often as there were faults, and a
callback books only what is not memorized. So a booking takes the error from the second bound to
the first, and only a fault makes the manager forget it.

`MissionControllersProofs` proves, for all missions, actions, robots and labels, any number of
versions on their way, of restarts, lists, breaks of the watch and failing requests, and for the
three controllers at once:

* `TypeCorrect`: `Spec => []TypeOK`;
* `NewestArrives`: `Spec => []NewestOnItsWay`;
* `ServiceImplemented`: `Spec => ServiceKept`, the refinement of `MissionService`;
* `InOrder`: `Spec => []ActionsInOrder`;
* `SuccessIsTrue`: `Spec => []SucceededIsPerformed`;
* `AskedOnce`: `Spec => []NotRequestedTwice`.

The assumptions are those the modules name. The three controllers share their bodies, so the
proof looks at a step only as far as they have it in common: `OtherStep` and `RunStep` say what a
step may do, and `WayStep`, `CrsStep` and `JobStep` how the copies of a CR, the CR and the mission
in work change with it. From these follow, one after the other,

* `Typed`: types, and of each job the states `run_mission` can be in;
* `NewestOnItsWay`, which is inductive with `Typed`;
* `ServiceInv`: what the loop rests on when it takes a copy for the CR. No copy is ahead of its
  CR, none follows its deletion, a CR without status was never accepted, a new process looks at
  every RUNNING mission before it has ended, and what is in work has not ended while the
  watch keeps up. `ServiceStep` then maps every step to a step of `MissionService` or a stutter:
  `AcceptStep`, `RequestStep`, `ReadyStep`, `TakenStep`, `DropOrRun`, `BehindStep`;
* `OrderInv`: the ids in every copy of a CR are those of robot missions of its actions, in order,
  and `run_mission` counts only what its robot has done. Neither property is inductive without
  it, since a mission is resumed from whichever copy the loop finds;
* `OnceInv`: as long as the process is not started again, misses no event and its requests are
  answered, a job is past what it requested, and what has left its job is over and not taken up
  again except to be refused.

Each invariant, `MInv`, `SequenceInv` and `OnceOK` were checked by TLC on the instances of the
runs before they were proved.

## 5. Only model-checked

The liveness properties (`TrolleyReported`, `QueueIsServed`, `ReservationEnds`,
`NothingStaysReserved`, `ConfirmationsArrive`, `DoneIsClosed`, `AssignedArrives`,
`MissionEnds`) stay with TLC: the prover does not handle fairness. All safety properties of the
passing runs are proved. `FirstBeforeSecond` is proved under the hypothesis named above, which the
runs that check it have too. The properties of the runs that expect a
violation are false, and TLC shows the counterexample.

## 6. Plan

1. Robot state machine, its instances and its first theorems (done).
2. `OrderReservation` and its theorems (done).
3. `OrderFulfilment`, the confirmations from the robot through the order manager to EWM, and its
   theorems (done). Sub orders of the order manager are left.
4. `K8sCRHandler`, `MissionControllers` and the refinement of `MissionService` (done).
5. Proofs of all safety properties of the passing runs, and that `MissionControllers` implements
   `MissionService` (done).
6. `RobotRestart`: what a crash between two writes leaves, against `docs/architecture.md:20`.
7. `AuctionWinners` and `Auctioneer`: winners against a reference definition over all small bid
   tables; auctions and reservations with lagging informers.

## 7. Not modelled

* The restore of the state machine after a restart (`robot.py`), and a Kubernetes or OData call
  that fails *inside* one of its transitions: the exception ends the transition half way, and
  what is restored depends on when transitions save.
* Of the order manager: sub orders, the clean-up of PROCESSED CRs beyond the fifty newest,
  several orders per robot, and the conditions under which a robot asks for work on its own
  (`is_orderauction_running` among them): any robot may ask, none must.
* Of the robot controller: what is behind the AttributeError of a sub order.
* The auctioneer's choice of winners and its bids: in `OrderReservation` any assignment may win.
* Of the mission controllers: the robot's status CR, and `unpause_robot_reset_error`, which
  clears errors of a MiR beside the mission.
* The robot configurator, the formatting and tokens of the OData interface and the types:
  sequences of requests and data declarations without behaviour of their own.
* The travel time calculator, the token proxy and the generated Go clients.
* The locks of the ABAP function modules and the function modules of EWM they call; the
  simulator, the monitoring UI and the deployment charts.
* Liveness by proof, and the values of recursive definitions by proof: out of the
  prover's reach.
