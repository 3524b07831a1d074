-------------------------- MODULE OrderReservation --------------------------
(* The reservation of warehouse orders for an auction: the order manager's     *)
(* handlers of OrderReservation CRs (manager.py, orderreservationcontroller.py)*)
(* with the auctioneer's steps on the same CRs and the orders' state in EWM.   *)
(*                                                                             *)
(* One handler runs per CR at a time (K8sCRHandler.cr_locks), handlers of      *)
(* different CRs run in five threads. A handler works on a copy of the CR that *)
(* may be out of date when it gets the lock, makes one EWM call after the      *)
(* other, and patches the whole status at its end. Each call is an action.     *)
EXTENDS Integers, FiniteSets

CONSTANTS
  Reservations,  \* names of reservations; a name is used again once its CR is gone
  Orders,        \* warehouse orders
  Robots,
  Quantity,      \* orderrequest.quantity
  MaxPending,    \* bound: copies of one CR waiting for its lock
  MaxFaults      \* bound: failed calls, unanswered calls, and restarts

ASSUME ReservationAssumption ==
  /\ IsFiniteSet(Orders)
  /\ Quantity \in Nat \ {0}
  /\ MaxPending \in Nat \ {0}
  /\ MaxFaults \in Nat
  /\ {"open", "done"} \cap (Robots \union Reservations) = {}
  /\ Robots \cap Reservations = {}

VARIABLES
  ewm,       \* state of an order in EWM: "open", "done", the robot it is assigned to,
             \* or, while it is in process without a robot, the reservation it was last
             \* taken for (EWM itself only knows "in process")
  cr,        \* reservation CRs at the API server
  cache,     \* the order manager's copies of them
  pending,   \* copies handed to the executor whose callback does not run yet
  job,       \* the running callback of a CR
  auction,   \* the orders the OrderAuction CRs of a reservation offer, {} without CRs
  faults     \* number of faults so far

vars == <<ewm, cr, cache, pending, job, auction, faults>>

-----------------------------------------------------------------------------
Assignment == Orders \X Robots

InProcessStatus == {"NEW", "ACCEPTED", "RESERVATIONS"}
Status == InProcessStatus \union {"FAILED", "SUCCEEDED", "TIMEOUT"}

(* A CR: status.status, status.warehouseorders, status.orderassignments and    *)
(* spec.orderassignments, and whether status.message says that no orders were  *)
(* found. NoCR stands for a CR that does not exist.                            *)
CR == [st: Status, whos: SUBSET Orders, done: SUBSET Assignment, asg: SUBSET Assignment,
       msg: BOOLEAN]
NewCR == [st |-> "NEW", whos |-> {}, done |-> {}, asg |-> {}, msg |-> FALSE]
NoCR == [st |-> "none", whos |-> {}, done |-> {}, asg |-> {}, msg |-> FALSE]

(* A callback: its next call, the status it read, the status it will write if  *)
(* no call fails, the lists it works on, the assignments still to make, the    *)
(* orders neither assigned nor released yet, and connection_error.             *)
Call == {"idle", "get_in_process", "check", "getnew", "tasks", "assign", "send",
         "unset", "update"}
Job == [call: Call, from: Status, st: Status, whos: SUBSET Orders,
        done: SUBSET Assignment, asg: SUBSET Assignment, left: SUBSET Orders,
        msg: BOOLEAN, err: BOOLEAN]
Idle == [call |-> "idle", from |-> "NEW", st |-> "NEW", whos |-> {}, done |-> {},
         asg |-> {}, left |-> {}, msg |-> FALSE, err |-> FALSE]
Callback(c, call, st) ==
  [call |-> call, from |-> c.st, st |-> st, whos |-> c.whos, done |-> c.done,
   asg |-> c.asg, left |-> c.whos, msg |-> c.msg, err |-> FALSE]

(* Orders without a robot that EWM has open, and those it has in process.      *)
Open == {o \in Orders : ewm[o] = "open"}
InProcess == {o \in Orders : ewm[o] \in Reservations}

Init ==
  /\ ewm = [o \in Orders |-> "open"]
  /\ cr = [r \in Reservations |-> NoCR]
  /\ cache = [r \in Reservations |-> NoCR]
  /\ pending = [r \in Reservations |-> {}]
  /\ job = [r \in Reservations |-> Idle]
  /\ auction = [r \in Reservations |-> {}]
  /\ faults = 0

Fault == faults < MaxFaults /\ faults' = faults + 1
NoFault == UNCHANGED faults

Continue(r, j) == job' = [job EXCEPT ![r] = j]

(* A callback that returns, or is left by an exception, releases the lock.     *)
Return(r) == Continue(r, Idle)

(* mutant: orders that could not be assigned are not released *)
Next_call_unreleased(j) ==
  IF j.call = "assign" /\ j.asg = {} THEN [j EXCEPT !.call = "update"]
  ELSE IF j.call = "unset" /\ j.left = {} THEN [j EXCEPT !.call = "update"]
  ELSE j

(* What follows in _process_orderres_cr_reservations when the list of the      *)
(* present loop is exhausted: assign, then release what is left, then write.   *)
Next_call(j) ==
  IF j.call = "assign" /\ j.asg = {}
  THEN [j EXCEPT !.call = IF j.err \/ j.left = {} THEN "update" ELSE "unset"]
  ELSE IF j.call = "unset" /\ j.left = {} THEN [j EXCEPT !.call = "update"]
  ELSE j

-----------------------------------------------------------------------------
(* orderreservation_cb: what a callback does with its copy c of the CR.        *)

Take(r, c) ==
  /\ job[r].call = "idle"
  /\ c \in pending[r]
  /\ pending' = [pending EXCEPT ![r] = @ \ {c}]
  /\ UNCHANGED <<ewm, cr, cache, auction, faults>>

Start_new(r, c) ==
  c.st = "NEW" /\ Take(r, c) /\ Continue(r, Callback(c, "get_in_process", "ACCEPTED"))

Start_accepted(r, c) ==
  c.st = "ACCEPTED" /\ Take(r, c) /\ Continue(r, Callback(c, "tasks", "RESERVATIONS"))

Start_assignments(r, c) ==
  /\ c.st = "RESERVATIONS" /\ c.asg # {}
  /\ Take(r, c)
  /\ Continue(r, Callback(c, "assign", "SUCCEEDED"))

(* validuntil of the copy has passed.                                          *)
Start_timeout(r, c) ==
  /\ c.st = "RESERVATIONS" /\ c.asg = {}
  /\ Take(r, c)
  /\ Continue(r, Next_call(Callback(c, "unset", "TIMEOUT")))

Nothing_to_do(r, c) ==
  /\ \/ c.st = "RESERVATIONS" /\ c.asg = {}
     \/ c.st \notin InProcessStatus
  /\ Take(r, c)
  /\ UNCHANGED job

-----------------------------------------------------------------------------
(* _process_orderres_cr_new                                                    *)

Get_in_process(r) ==
  /\ job[r].call = "get_in_process"
  /\ \/ NoFault /\ Continue(r, [job[r] EXCEPT !.call = "check", !.whos = InProcess])
     \/ Fault /\ Return(r)
     \/ Fault /\ Continue(r, [job[r] EXCEPT !.call = "update", !.st = "FAILED", !.msg = FALSE])
  /\ UNCHANGED <<ewm, cr, cache, pending, auction>>

(* get_reserved_warehouseorders                                                *)
Reserved == UNION {cache[q].whos : q \in {q \in Reservations : cache[q].st \in InProcessStatus}}

Take_for(r, whos) == ewm' = [o \in Orders |-> IF o \in whos THEN r ELSE ewm[o]]

(* mutant: only new orders are used, those in process already are left *)
Check_new_only(r) ==
  /\ job[r].call = "check"
  /\ Continue(r, [job[r] EXCEPT !.whos = {}, !.call = "getnew"])
  /\ UNCHANGED <<ewm, cr, cache, pending, auction, faults>>

Check(r) ==
  LET whos == job[r].whos \ Reserved
  IN  /\ job[r].call = "check"
      /\ Take_for(r, whos \intersect InProcess)
      /\ Continue(r, [job[r] EXCEPT !.whos = whos,
           !.call = IF Cardinality(whos) < Quantity THEN "getnew" ELSE "update"])
      /\ UNCHANGED <<cr, cache, pending, auction, faults>>

(* What getnew_rtype_warehouseorders may return for a callback that has whos.  *)
NewOrders(whos) ==
  {new \in SUBSET Open : \/ Cardinality(new) = Quantity - Cardinality(whos)
                         \/ new = Open /\ Cardinality(new) < Quantity - Cardinality(whos)}

Patch(r, st, whos, done, msg) ==
  IF cr[r] = NoCR THEN UNCHANGED cr
  ELSE cr' = [cr EXCEPT ![r] = [@ EXCEPT !.st = st, !.whos = whos, !.done = done, !.msg = msg]]

Getnew(r) ==
  /\ job[r].call = "getnew"
  /\ \E new \in NewOrders(job[r].whos) :
       /\ job[r].whos \union new # {}
       /\ Take_for(r, new)
       /\ \/ NoFault /\ Continue(r, [job[r] EXCEPT !.call = "update", !.whos = @ \union new])
          \/ Fault /\ Return(r)
  /\ UNCHANGED <<cr, cache, pending, auction>>

(* Without any order the CR gets a message, once. The write carries the whole  *)
(* status of the copy, NEW and without orders, also when the CR is not NEW any *)
(* more because an earlier callback found some.                                *)
Getnew_no_order(r) ==
  /\ job[r].call = "getnew"
  /\ job[r].whos = {} /\ Open = {}
  /\ \/ NoFault /\ IF job[r].msg THEN UNCHANGED cr ELSE Patch(r, "NEW", {}, job[r].done, TRUE)
     \/ Fault /\ UNCHANGED cr
  /\ Return(r)
  /\ UNCHANGED <<ewm, cache, pending, auction>>

Getnew_fails(r) ==
  /\ job[r].call = "getnew"
  /\ Fault /\ Return(r)
  /\ UNCHANGED <<ewm, cr, cache, pending, auction>>

(* ResourceTypeIsNoRobotError of the second call: the status is written, but   *)
(* the callback goes on with the orders it has.                                *)
Getnew_no_robot_type(r) ==
  /\ job[r].call = "getnew"
  /\ Fault
  /\ Patch(r, "FAILED", {}, job[r].done, FALSE)
  /\ IF cr[r] = NoCR \/ job[r].whos = {} THEN Return(r)
     ELSE Continue(r, [job[r] EXCEPT !.call = "update"])
  /\ UNCHANGED <<ewm, cache, pending, auction>>

-----------------------------------------------------------------------------
(* _process_orderres_cr_accepted: reads the tasks of all orders.               *)

Get_tasks(r) ==
  /\ job[r].call = "tasks"
  /\ \/ NoFault /\ Continue(r, [job[r] EXCEPT !.call = "update"])
     \/ Fault /\ Continue(r, [job[r] EXCEPT !.call = "update", !.err = TRUE])
  /\ UNCHANGED <<ewm, cr, cache, pending, auction>>

-----------------------------------------------------------------------------
(* _process_orderres_cr_reservations                                           *)

(* Skipped: not in the reservation list, or assigned before.                   *)
Skip(r, a) ==
  /\ job[r].call = "assign"
  /\ a \in job[r].asg
  /\ a[1] \notin job[r].left \/ a \in job[r].done
  /\ Continue(r, Next_call([job[r] EXCEPT !.asg = @ \ {a},
       !.left = IF a \in job[r].done THEN @ \ {a[1]} ELSE @]))
  /\ UNCHANGED <<ewm, cr, cache, pending, auction, faults>>

To_assign(r, a) ==
  /\ job[r].call = "assign"
  /\ a \in job[r].asg \ job[r].done
  /\ a[1] \in job[r].left

(* EWM assigns an open order as well as one in process.                        *)
Assign(r, a) ==
  /\ To_assign(r, a)
  /\ a[1] \in Open \union InProcess
  /\ ewm' = [ewm EXCEPT ![a[1]] = a[2]]
  /\ \/ /\ NoFault
        /\ Continue(r, [job[r] EXCEPT !.call = "send", !.asg = @ \ {a},
                          !.left = @ \ {a[1]}, !.done = @ \union {a}])
     \/ Fault /\ Continue(r, Next_call([job[r] EXCEPT !.asg = @ \ {a}, !.err = TRUE]))
  /\ UNCHANGED <<cr, cache, pending, auction>>

(* No connection, or a refusal: NoOrderFound, RobotNotFound, ...Assigned.      *)
Assign_fails(r, a) ==
  /\ To_assign(r, a)
  /\ \/ NoFault /\ Continue(r, Next_call([job[r] EXCEPT !.asg = @ \ {a}]))
     \/ Fault /\ Continue(r, Next_call([job[r] EXCEPT !.asg = @ \ {a}, !.err = TRUE]))
  /\ UNCHANGED <<ewm, cr, cache, pending, auction>>

(* get_and_send_robot_whos                                                     *)
Send(r) ==
  LET j == [job[r] EXCEPT !.call = "assign"]
  IN  /\ job[r].call = "send"
      /\ \/ NoFault /\ Continue(r, Next_call(j))
         \/ Fault /\ Continue(r, Next_call([j EXCEPT !.err = TRUE]))
      /\ UNCHANGED <<ewm, cr, cache, pending, auction>>

(* unset_warehouseorder_in_process changes nothing for an order that is not in *)
(* process or has a robot. NoOrderFoundError counts as success.                *)
Unset(r, o) ==
  LET j == [job[r] EXCEPT !.left = @ \ {o}]
  IN  /\ job[r].call = "unset"
      /\ o \in job[r].left
      /\ ewm' = [ewm EXCEPT ![o] = IF o \in InProcess THEN "open" ELSE @]
      /\ \/ NoFault /\ Continue(r, Next_call(j))
         \/ Fault /\ Continue(r, Next_call([j EXCEPT !.err = TRUE]))
      /\ UNCHANGED <<cr, cache, pending, auction>>

(* mutant: a connection error is logged but not remembered *)
Unset_fails_unnoticed(r, o) ==
  /\ job[r].call = "unset"
  /\ o \in job[r].left
  /\ Fault
  /\ Continue(r, Next_call([job[r] EXCEPT !.left = @ \ {o}]))
  /\ UNCHANGED <<ewm, cr, cache, pending, auction>>

Unset_fails(r, o) ==
  /\ job[r].call = "unset"
  /\ o \in job[r].left
  /\ Fault
  /\ Continue(r, Next_call([job[r] EXCEPT !.left = @ \ {o}, !.err = TRUE]))
  /\ UNCHANGED <<ewm, cr, cache, pending, auction>>

-----------------------------------------------------------------------------
(* update_cr_status at the end of a callback. After a connection error the     *)
(* status it read stays.                                                       *)
Update(r) ==
  /\ job[r].call = "update"
  /\ Patch(r, IF job[r].err THEN job[r].from ELSE job[r].st, job[r].whos, job[r].done,
           job[r].msg)
  /\ Return(r)
  /\ UNCHANGED <<ewm, cache, pending, auction, faults>>

Update_fails(r) ==
  /\ job[r].call = "update"
  /\ Fault /\ Return(r)
  /\ UNCHANGED <<ewm, cr, cache, pending, auction>>

Callback_step(r) ==
  \/ \E c \in pending[r] : \/ Start_new(r, c) \/ Start_accepted(r, c)
                           \/ Start_assignments(r, c) \/ Start_timeout(r, c)
                           \/ Nothing_to_do(r, c)
  \/ Get_in_process(r) \/ Check(r) \/ Getnew(r) \/ Getnew_no_order(r) \/ Getnew_fails(r)
  \/ Getnew_no_robot_type(r)
  \/ Get_tasks(r)
  \/ \E a \in job[r].asg : Skip(r, a) \/ Assign(r, a) \/ Assign_fails(r, a)
  \/ Send(r)
  \/ \E o \in job[r].left : Unset(r, o) \/ Unset_fails(r, o)
  \/ Update(r) \/ Update_fails(r)

-----------------------------------------------------------------------------
(* The watch of the order manager, its reprocessing loop, and its restart.     *)

Submit(r, c) ==
  /\ c \in pending[r] \/ Cardinality(pending[r]) < MaxPending
  /\ pending' = [pending EXCEPT ![r] = @ \union {c}]

(* mutant: callbacks also run for DELETED events *)
Watch_deleted(r) ==
  /\ cache[r] # cr[r]
  /\ cache' = [cache EXCEPT ![r] = cr[r]]
  /\ Submit(r, cr[r])
  /\ UNCHANGED <<ewm, cr, job, auction, faults>>

(* No callback of the order manager handles a DELETED event.                   *)
Watch(r) ==
  /\ cache[r] # cr[r]
  /\ cache' = [cache EXCEPT ![r] = cr[r]]
  /\ IF cr[r] = NoCR THEN UNCHANGED pending ELSE Submit(r, cr[r])
  /\ UNCHANGED <<ewm, cr, job, auction, faults>>

(* mutant: only reservations still without orders are processed again *)
Reprocess_new(r) ==
  /\ cache[r].st = "NEW"
  /\ Submit(r, cache[r])
  /\ UNCHANGED <<ewm, cr, cache, job, auction, faults>>

Reprocess(r) ==
  /\ cache[r] # NoCR
  /\ Submit(r, cache[r])
  /\ UNCHANGED <<ewm, cr, cache, job, auction, faults>>

Restart ==
  /\ Fault
  /\ cache' = cr
  /\ pending' = [r \in Reservations |-> IF cr[r] = NoCR THEN {} ELSE {cr[r]}]
  /\ job' = [r \in Reservations |-> Idle]
  /\ UNCHANGED <<ewm, cr, auction>>

-----------------------------------------------------------------------------
(* The auctioneer on reservation CRs. Its informer may not show the latest     *)
(* reservation, so it may create one while another is not accepted yet. Its    *)
(* updates carry the resource version: they are made to the present CR.        *)

(* A CR that FAILED stays but does nothing more: its name here is free again.  *)
Create_reservation(r) ==
  /\ cr[r] = NoCR \/ cr[r].st = "FAILED"
  /\ cache[r] = cr[r] /\ pending[r] = {} /\ job[r] = Idle
  /\ cr' = [cr EXCEPT ![r] = NewCR]
  /\ auction' = [auction EXCEPT ![r] = {}]
  /\ UNCHANGED <<ewm, cache, pending, job, faults>>

Create_auctions(r) ==
  /\ cr[r].st = "RESERVATIONS" /\ auction[r] = {}
  /\ auction' = [auction EXCEPT ![r] = cr[r].whos]
  /\ UNCHANGED <<ewm, cr, cache, pending, job, faults>>

(* getAuctionWinners: every order and every robot wins at most once.           *)
Winners(whos) ==
  {w \in SUBSET (whos \X Robots) :
     w # {} /\ \A a, b \in w : a[1] = b[1] \/ a[2] = b[2] => a = b}

Close_auction(r) ==
  /\ cr[r].st = "RESERVATIONS" /\ cr[r].asg = {} /\ auction[r] = cr[r].whos
  /\ \E w \in Winners(auction[r]) : cr' = [cr EXCEPT ![r].asg = w]
  /\ UNCHANGED <<ewm, cache, pending, job, auction, faults>>

(* deleteInconsistentReservations and cleanupReservations                      *)
Delete_reservation(r) ==
  /\ \/ cr[r].st = "RESERVATIONS" /\ cr[r].asg = {} /\ auction[r] \notin {{}, cr[r].whos}
     \/ cr[r].st \in {"SUCCEEDED", "TIMEOUT"}
  /\ cr' = [cr EXCEPT ![r] = NoCR]
  /\ auction' = [auction EXCEPT ![r] = {}]
  /\ UNCHANGED <<ewm, cache, pending, job, faults>>

-----------------------------------------------------------------------------
(* Other users of EWM: an idle robot requests work (getnew_robot), the orders  *)
(* of a robot that charges or stops are unassigned, and orders get done.       *)

Change_order(o, to) ==
  /\ ewm' = [ewm EXCEPT ![o] = to]
  /\ UNCHANGED <<cr, cache, pending, job, auction, faults>>

Robot_requests_work(o) == o \in Open /\ \E rb \in Robots : Change_order(o, rb)
Unassign(o) == ewm[o] \in Robots /\ Change_order(o, "open")
Order_done(o) == ewm[o] \in Robots \union {"open"} /\ Change_order(o, "done")

Next ==
  \/ \E r \in Reservations :
       \/ Callback_step(r)
       \/ Watch(r) \/ Reprocess(r)
       \/ Create_reservation(r) \/ Create_auctions(r)
       \/ Close_auction(r) \/ Delete_reservation(r)
  \/ Restart
  \/ \E o \in Orders : Robot_requests_work(o) \/ Unassign(o) \/ Order_done(o)

Spec == Init /\ [][Next]_vars

(* The executor runs the callbacks it was given, the watch delivers (it never  *)
(* really waits for MaxPending, hence strong), CRs are reprocessed every ten   *)
(* seconds, validuntil passes, the auctioneer creates and cleans up. Faults are*)
(* finite. Nothing makes robots bid or request work.                           *)
Fairness ==
  \A r \in Reservations :
    /\ WF_vars(Callback_step(r))
    /\ SF_vars(\E c \in pending[r] : Start_timeout(r, c))
    /\ SF_vars(Watch(r))
    /\ WF_vars(Reprocess(r))
    /\ SF_vars(Create_reservation(r))
    /\ WF_vars(Delete_reservation(r))

FairSpec == Spec /\ Fairness

-----------------------------------------------------------------------------
TypeOK ==
  /\ ewm \in [Orders -> {"open", "done"} \union Robots \union Reservations]
  /\ cr \in [Reservations -> CR \union {NoCR}]
  /\ cache \in [Reservations -> CR \union {NoCR}]
  /\ pending \in [Reservations -> SUBSET CR]
  /\ job \in [Reservations -> Job]
  /\ auction \in [Reservations -> SUBSET Orders]
  /\ faults \in 0..MaxFaults

(* A reservation that ends (SUCCEEDED or TIMEOUT) leaves no order in process:  *)
(* unless the order is recorded as assigned, EWM has it open again, with a     *)
(* robot, or done, or another reservation has taken it since. However many     *)
(* calls failed and callbacks were repeated, a reservation ends only after a   *)
(* complete round of answered calls (manager.py:849 and 875).                  *)
ReleasedAtEnd ==
  [][\A r \in Reservations :
       cr'[r].st \in {"SUCCEEDED", "TIMEOUT"} /\ cr'[r] # cr[r] =>
         \A o \in cr'[r].whos : ewm'[o] = r => \E rb \in Robots : <<o, rb>> \in cr'[r].done]_vars

(* "Check if warehouse orders are reserved for a different auction", "Use non  *)
(* reserved warehouse orders for this auction" (manager.py:675, 678): no order *)
(* is reserved by two reservations. The check reads the cached statuses, which *)
(* do not show what another callback has taken and not written yet.            *)
ReservedOnce ==
  \A r, q \in Reservations :
    r # q /\ {cr[r].st, cr[q].st} \subseteq {"ACCEPTED", "RESERVATIONS"} =>
      cr[r].whos \intersect cr[q].whos = {}

(* From some time on, callbacks start with a copy that shows the latest orders.*)
CopiesGetFresh ==
  <>[][\A r \in Reservations : job[r] = Idle /\ job'[r] # Idle =>
         job'[r].from = cr[r].st /\ job'[r].whos = cr[r].whos]_vars

(* A reservation that has orders ends, by its assignments or by its timeout, or*)
(* fails: the auctioneer, which waits for it before it requests more orders,   *)
(* does not wait for ever. A callback with an old copy that finds no order puts*)
(* the reservation back to NEW (manager.py:712-717): then it ends later, unless*)
(* it finds no order again.                                                    *)
ReservationEnds ==
  CopiesGetFresh =>
    \A r \in Reservations :
      [](cr[r].st \in {"ACCEPTED", "RESERVATIONS"} =>
           <>(\/ cr[r].st \in {"FAILED", "SUCCEEDED", "TIMEOUT", "none"}
              \/ [](cr[r].st = "NEW")))

(* No order stays in process without a robot for ever: not one whose           *)
(* reservation was never written, was overwritten by a repeated callback (with *)
(* other orders or with none) or was deleted, nor one that was refused by EWM. *)
(* The next reservation takes it over (get_in_process_warehouseorders).        *)
(* Repeated callbacks with old copies can displace an order again and again, so*)
(* they have to stop at some time.                                             *)
NothingStaysReserved ==
  CopiesGetFresh =>
    \A o \in Orders : ewm[o] \in Reservations ~> ewm[o] \notin Reservations

=============================================================================
