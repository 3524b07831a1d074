----------------------- MODULE OrderReservationProofs -----------------------
(***************************************************************************)
(* What the reservation of orders guarantees for all numbers of            *)
(* reservations, orders and robots, and for all bounds on faults and on    *)
(* waiting callbacks.                                                      *)
(*                                                                         *)
(* That a reservation leaves no order behind when it ends is a fact about  *)
(* the callback that writes the end: JobOK says how far its round of calls *)
(* has come.  A callback is disturbed by its own steps and, through EWM,   *)
(* by those of all others, which never take an order for its reservation.  *)
(***************************************************************************)
EXTENDS OrderReservation, TLAPS

\* Callback j of reservation r, with EWM in state e: its calls fit the status it
\* read, and unless a call failed, the orders that it is done with are released
\* or recorded as assigned; it writes only when it is done with all of them.
JobOK(e, r, j) ==
    /\ j.from \in InProcessStatus
    /\ j.call \in {"get_in_process", "check", "getnew"} => j.from = "NEW"
    /\ j.call = "tasks" => j.from = "ACCEPTED"
    /\ j.call \in {"assign", "send", "unset"} => j.from = "RESERVATIONS"
    /\ j.st \in {"SUCCEEDED", "TIMEOUT"} => j.from = "RESERVATIONS"
    /\ j.from = "RESERVATIONS" =>
         \/ j.err
         \/ /\ j.call = "update" => j.left = {}
            /\ \A o \in j.whos \ j.left :
                 e[o] = r => \E rb \in Robots : <<o, rb>> \in j.done

JobsOK == \A r \in Reservations : JobOK(ewm, r, job[r])

\* The inductive invariant.
IInv == TypeOK /\ JobsOK

-----------------------------------------------------------------------------
(* Lemmas about the operators of the model.                                *)

\* Next_call only chooses the next call: from the loop it is in to the release
\* of what is left, or, when nothing is left or a call failed, to the end.
LEMMA NextCall ==
    ASSUME NEW j \in Job
    PROVE  /\ Next_call(j) \in Job
           /\ \A e, r : JobOK(e, r, [j EXCEPT !.call = "assign"]) /\ j.call = "assign"
                          => JobOK(e, r, Next_call(j))
           /\ \A e, r : JobOK(e, r, [j EXCEPT !.call = "unset"]) /\ j.call = "unset"
                          => JobOK(e, r, Next_call(j))
BY DEF Next_call, Job, Call, JobOK

\* A step of the callback of r that leaves it in order, and takes no order for
\* another reservation, leaves all callbacks in order.
LEMMA OneJob ==
    ASSUME TypeOK, JobsOK, NEW r \in Reservations, NEW j \in Job,
           Continue(r, j), JobOK(ewm', r, j),
           \A q \in Reservations \ {r} : \A o \in Orders : ewm'[o] = q => ewm[o] = q
    PROVE  JobsOK' /\ job' \in [Reservations -> Job]
<1>1. job' = [job EXCEPT ![r] = j] /\ job \in [Reservations -> Job]
  BY DEF Continue, TypeOK
<1>2. job' \in [Reservations -> Job]
  BY <1>1
<1>3. ASSUME NEW q \in Reservations PROVE JobOK(ewm', q, job'[q])
  <2>1. CASE q = r
    BY <1>1, <2>1
  <2>2. CASE q # r
    <3>1. job'[q] = job[q] /\ job[q] \in Job
      BY <1>1, <2>2
    <3>2. JobOK(ewm, q, job[q])
      BY DEF JobsOK
    <3>3. job[q].whos \subseteq Orders
      BY <3>1 DEF Job
    <3>4. QED
      BY <2>2, <3>1, <3>2, <3>3 DEF JobOK
  <2>3. QED
    BY <2>1, <2>2
<1>4. QED
  BY <1>2, <1>3 DEF JobsOK

\* Faults are counted up to their bound.
LEMMA FaultType ==
    ASSUME TypeOK, Fault \/ NoFault
    PROVE  faults' \in 0..MaxFaults
BY ReservationAssumption DEF TypeOK, Fault, NoFault

\* A patch writes a status, or nothing when the CR is gone.
LEMMA PatchType ==
    ASSUME TypeOK, NEW r \in Reservations, NEW st \in Status,
           NEW whos \in SUBSET Orders, NEW done \in SUBSET Assignment,
           NEW msg \in BOOLEAN, Patch(r, st, whos, done, msg)
    PROVE  cr' \in [Reservations -> CR \union {NoCR}]
<1>1. CASE cr[r] = NoCR
  BY <1>1 DEF Patch, TypeOK
<1>2. CASE cr[r] # NoCR
  <2>1. cr[r] \in CR
    BY <1>2 DEF TypeOK
  <2>2. [cr[r] EXCEPT !.st = st, !.whos = whos, !.done = done, !.msg = msg] \in CR
    BY <2>1 DEF CR
  <2>3. QED
    BY <1>2, <2>2 DEF Patch, TypeOK
<1>3. QED
  BY <1>1, <1>2

\* Taking orders for r keeps EWM in its type, and takes none for another q.
LEMMA TakeFor ==
    ASSUME TypeOK, NEW r \in Reservations, NEW whos, Take_for(r, whos)
    PROVE  /\ ewm' \in [Orders -> {"open", "done"} \union Robots \union Reservations]
           /\ \A q \in Reservations \ {r} : \A o \in Orders : ewm'[o] = q => ewm[o] = q
BY DEF TypeOK, Take_for

\* An idle callback is in order.
LEMMA IdleOK ==
    Idle \in Job /\ \A e, r : JobOK(e, r, Idle)
BY DEF Idle, Job, Call, JobOK, Status, InProcessStatus, Assignment

-----------------------------------------------------------------------------
(* One lemma per phase of a callback.                                      *)

\* A callback that starts, in any status, with any copy of its CR.
LEMMA TakeStep ==
    ASSUME IInv, NEW r \in Reservations, NEW c \in pending[r],
           \/ Start_new(r, c) \/ Start_accepted(r, c) \/ Start_assignments(r, c)
           \/ Start_timeout(r, c) \/ Nothing_to_do(r, c)
    PROVE  IInv'
<1> USE DEF IInv
<1>1. c \in CR
  BY DEF TypeOK
<1>2. Take(r, c)
  BY DEF Start_new, Start_accepted, Start_assignments, Start_timeout, Nothing_to_do
<1>3. /\ UNCHANGED <<ewm, cr, cache, auction, faults>>
      /\ pending' \in [Reservations -> SUBSET CR]
  BY <1>2 DEF Take, TypeOK
<1>4. ASSUME NEW j \in Job, Continue(r, j), JobOK(ewm, r, j)
      PROVE  IInv'
  BY <1>3, <1>4, OneJob DEF TypeOK
<1>5. \A call \in Call, st \in Status :
          /\ Callback(c, call, st) \in Job
          /\ Callback(c, call, st).call = call
          /\ Callback(c, call, st).from = c.st
          /\ Callback(c, call, st).st = st
          /\ Callback(c, call, st).whos = Callback(c, call, st).left
  BY <1>1 DEF Callback, Job, CR
<1>6. CASE Start_new(r, c)
  <2> DEFINE j == Callback(c, "get_in_process", "ACCEPTED")
  <2>1. j \in Job /\ JobOK(ewm, r, j)
    BY <1>5, <1>6 DEF Start_new, JobOK, InProcessStatus, Status, Call
  <2>2. QED
    BY <1>4, <1>6, <2>1 DEF Start_new
<1>7. CASE Start_accepted(r, c)
  <2> DEFINE j == Callback(c, "tasks", "RESERVATIONS")
  <2>1. j \in Job /\ JobOK(ewm, r, j)
    BY <1>5, <1>7 DEF Start_accepted, JobOK, InProcessStatus, Status, Call
  <2>2. QED
    BY <1>4, <1>7, <2>1 DEF Start_accepted
<1>8. CASE Start_assignments(r, c)
  <2> DEFINE j == Callback(c, "assign", "SUCCEEDED")
  <2>1. j \in Job /\ JobOK(ewm, r, j)
    BY <1>5, <1>8 DEF Start_assignments, JobOK, InProcessStatus, Status, Call
  <2>2. QED
    BY <1>4, <1>8, <2>1 DEF Start_assignments
<1>9. CASE Start_timeout(r, c)
  <2> DEFINE j == Callback(c, "unset", "TIMEOUT")
  <2>1. /\ j \in Job
        /\ j.call = "unset" /\ j.from = "RESERVATIONS" /\ j.st = "TIMEOUT"
        /\ j.whos = j.left
    BY <1>5, <1>9 DEF Start_timeout, Status, Call
  <2> HIDE DEF j
  <2>2. JobOK(ewm, r, [j EXCEPT !.call = "unset"])
    BY <2>1 DEF JobOK, InProcessStatus, Job
  <2>3. Next_call(j) \in Job /\ JobOK(ewm, r, Next_call(j))
    BY <2>1, <2>2, NextCall
  <2>4. Continue(r, Next_call(j))
    BY <1>9 DEF Start_timeout, j
  <2>5. QED
    BY <1>4, <2>3, <2>4
<1>10. CASE Nothing_to_do(r, c)
  BY <1>3, <1>10 DEF Nothing_to_do, TypeOK, JobsOK
<1>11. QED
  BY <1>6, <1>7, <1>8, <1>9, <1>10

\* _process_orderres_cr_new and _process_orderres_cr_accepted: nothing is asked of
\* the orders of a callback that has not read RESERVATIONS.
LEMMA NewStep ==
    ASSUME IInv, NEW r \in Reservations,
           \/ Get_in_process(r) \/ Check(r) \/ Getnew(r) \/ Getnew_no_order(r)
           \/ Getnew_fails(r) \/ Getnew_no_robot_type(r) \/ Get_tasks(r)
    PROVE  IInv'
<1> USE DEF IInv
<1> DEFINE j0 == job[r]
<1>1. j0 \in Job /\ JobOK(ewm, r, j0)
  BY DEF TypeOK, JobsOK
<1>2. ASSUME NEW j \in Job, Continue(r, j), JobOK(ewm', r, j),
             \A q \in Reservations \ {r} : \A o \in Orders : ewm'[o] = q => ewm[o] = q,
             ewm' \in [Orders -> {"open", "done"} \union Robots \union Reservations],
             cr' \in [Reservations -> CR \union {NoCR}],
             UNCHANGED <<cache, pending, auction>>, Fault \/ NoFault
      PROVE  IInv'
  <2>1. JobsOK' /\ job' \in [Reservations -> Job]
    BY <1>2, OneJob
  <2>2. faults' \in 0..MaxFaults
    BY <1>2, FaultType
  <2>3. QED
    BY <1>2, <2>1, <2>2 DEF TypeOK
<1>3. ASSUME UNCHANGED ewm
      PROVE  /\ \A q \in Reservations \ {r} : \A o \in Orders : ewm'[o] = q => ewm[o] = q
             /\ ewm' \in [Orders -> {"open", "done"} \union Robots \union Reservations]
  BY <1>3 DEF TypeOK
<1>4. ASSUME NEW j \in Job, j.from \in {"NEW", "ACCEPTED"},
             j.call \in {"check", "getnew"} => j.from = "NEW",
             j.call \in {"check", "getnew", "update"},
             j.st \notin {"SUCCEEDED", "TIMEOUT"}
      PROVE  JobOK(ewm', r, j)
  BY <1>4 DEF JobOK, InProcessStatus
<1>5. InProcess \subseteq Orders /\ \A whos : NewOrders(whos) \subseteq SUBSET Orders
  BY DEF InProcess, NewOrders, Open
<1>6. CASE Get_in_process(r)
  <2>1. j0.call = "get_in_process" /\ j0.from = "NEW"
    BY <1>1, <1>6 DEF Get_in_process, JobOK
  <2>2. UNCHANGED <<ewm, cr, cache, pending, auction>> /\ (Fault \/ NoFault)
    BY <1>6 DEF Get_in_process
  <2>3. PICK j \in {Idle, [j0 EXCEPT !.call = "check", !.whos = InProcess],
                    [j0 EXCEPT !.call = "update", !.st = "FAILED", !.msg = FALSE]} : Continue(r, j)
    BY <1>6 DEF Get_in_process, Return
  <2>4. j0.st \notin {"SUCCEEDED", "TIMEOUT"}
    BY <1>1, <2>1 DEF JobOK
  <2>5. j \in Job /\ JobOK(ewm', r, j)
    <3>1. CASE j = Idle
      BY <3>1, IdleOK
    <3>2. CASE j = [j0 EXCEPT !.call = "check", !.whos = InProcess]
      <4>1. j \in Job /\ j.from = "NEW" /\ j.call = "check" /\ j.st = j0.st
        BY <1>1, <1>5, <2>1, <3>2 DEF Job, Call
      <4>2. QED
        BY <1>4, <2>4, <4>1
    <3>3. CASE j = [j0 EXCEPT !.call = "update", !.st = "FAILED", !.msg = FALSE]
      <4>1. j \in Job /\ j.from = "NEW" /\ j.call = "update" /\ j.st = "FAILED"
        BY <1>1, <2>1, <3>3 DEF Job, Call, Status
      <4>2. QED
        BY <1>4, <4>1
    <3>4. QED
      BY <2>3, <3>1, <3>2, <3>3
  <2>6. QED
    BY <1>2, <1>3, <2>2, <2>3, <2>5 DEF TypeOK
<1>7. CASE Check(r)
  <2> DEFINE whos == j0.whos \ Reserved
             call == IF Cardinality(whos) < Quantity THEN "getnew" ELSE "update"
             j == [j0 EXCEPT !.whos = whos, !.call = call]
  <2>1. j0.from = "NEW" /\ j0.st \notin {"SUCCEEDED", "TIMEOUT"}
    BY <1>1, <1>7 DEF Check, JobOK
  <2>2. j \in Job /\ j.from = "NEW" /\ j.call \in {"getnew", "update"} /\ j.st = j0.st
    <3>1. whos \in SUBSET Orders
      BY <1>1 DEF Job
    <3>2. call \in {"getnew", "update"}
      OBVIOUS
    <3> HIDE DEF whos, call
    <3>3. QED
      BY <1>1, <2>1, <3>1, <3>2 DEF Job, Call
  <2>3. JobOK(ewm', r, j)
    <3> HIDE DEF j
    <3>1. QED
      BY <1>4, <2>1, <2>2
  <2>4. Take_for(r, whos \intersect InProcess) /\ Continue(r, j)
        /\ UNCHANGED <<cr, cache, pending, auction, faults>>
    BY <1>7 DEF Check
  <2> HIDE DEF j, whos
  <2>5. QED
    BY <1>2, <2>2, <2>3, <2>4, TakeFor DEF TypeOK, NoFault
<1>8. CASE Getnew(r)
  <2>1. j0.from = "NEW" /\ j0.st \notin {"SUCCEEDED", "TIMEOUT"}
    BY <1>1, <1>8 DEF Getnew, JobOK
  <2>2. PICK new \in NewOrders(j0.whos) :
          /\ Take_for(r, new)
          /\ \/ NoFault /\ Continue(r, [j0 EXCEPT !.call = "update",
                                                  !.whos = j0.whos \union new])
             \/ Fault /\ Return(r)
    BY <1>8 DEF Getnew
  <2> DEFINE ju == [j0 EXCEPT !.call = "update", !.whos = j0.whos \union new]
  <2>3. \/ Continue(r, Idle)
        \/ Continue(r, ju)
    BY <2>2 DEF Return
  <2>4. Idle \in Job /\ JobOK(ewm', r, Idle)
    BY IdleOK
  <2>5. ju \in Job /\ ju.from = "NEW" /\ ju.call = "update" /\ ju.st = j0.st
    <3>1. new \in SUBSET Orders
      BY <1>5
    <3>2. QED
      BY <1>1, <2>1, <3>1 DEF Job, Call
  <2> HIDE DEF ju
  <2>6. JobOK(ewm', r, ju)
    BY <1>4, <2>1, <2>5
  <2>7. UNCHANGED <<cr, cache, pending, auction>> /\ (Fault \/ NoFault)
    BY <1>8, <2>2 DEF Getnew
  <2>8. cr' \in [Reservations -> CR \union {NoCR}]
    BY <2>7 DEF TypeOK
  <2>9. QED
    BY <1>2, <2>2, <2>3, <2>4, <2>5, <2>6, <2>7, <2>8, TakeFor
<1>9. CASE Getnew_fails(r)
  BY <1>2, <1>3, <1>9, IdleOK DEF Getnew_fails, Return, TypeOK
<1>10. CASE Getnew_no_robot_type(r)
  <2> DEFINE ju == [j0 EXCEPT !.call = "update"]
  <2>1. j0.from = "NEW" /\ j0.st \notin {"SUCCEEDED", "TIMEOUT"}
    BY <1>1, <1>10 DEF Getnew_no_robot_type, JobOK
  <2>2. Idle \in Job /\ JobOK(ewm', r, Idle)
    BY IdleOK
  <2>3. ju \in Job /\ ju.from = "NEW" /\ ju.call = "update" /\ ju.st = j0.st
    BY <1>1, <2>1 DEF Job, Call
  <2>4. Continue(r, Idle) \/ Continue(r, ju)
    BY <1>10 DEF Getnew_no_robot_type, Return
  <2> HIDE DEF ju
  <2>5. JobOK(ewm', r, ju)
    BY <1>4, <2>1, <2>3
  <2>6. UNCHANGED <<ewm, cache, pending, auction>> /\ Fault
    BY <1>10 DEF Getnew_no_robot_type
  <2>7. cr' \in [Reservations -> CR \union {NoCR}]
    <3>1. Patch(r, "FAILED", {}, j0.done, FALSE) /\ j0.done \in SUBSET Assignment
      BY <1>1, <1>10 DEF Getnew_no_robot_type, Job
    <3>2. QED
      BY <3>1, PatchType DEF Status
  <2>8. QED
    BY <1>2, <1>3, <2>2, <2>3, <2>4, <2>5, <2>6, <2>7
<1>11. CASE Get_tasks(r)
  <2> DEFINE jf == [j0 EXCEPT !.call = "update", !.err = TRUE]
             ju == [j0 EXCEPT !.call = "update"]
  <2>1. Continue(r, jf) \/ Continue(r, ju)
    BY <1>11 DEF Get_tasks
  <2>2. jf \in Job /\ ju \in Job
    BY <1>1 DEF Job, Call
  <2>3. j0.from = "ACCEPTED" /\ j0.st \notin {"SUCCEEDED", "TIMEOUT"}
    BY <1>1, <1>11 DEF Get_tasks, JobOK
  <2>4. JobOK(ewm', r, jf) /\ JobOK(ewm', r, ju)
    BY <1>1, <1>4, <2>2, <2>3 DEF Job
  <2>5. UNCHANGED <<ewm, cr, cache, pending, auction>> /\ (Fault \/ NoFault)
    BY <1>11 DEF Get_tasks
  <2> HIDE DEF jf, ju
  <2>6. QED
    BY <1>2, <1>3, <2>1, <2>2, <2>4, <2>5 DEF TypeOK
<1>12. CASE Getnew_no_order(r)
  <2>1. Continue(r, Idle) /\ UNCHANGED <<ewm, cache, pending, auction>> /\ (Fault \/ NoFault)
    BY <1>12 DEF Getnew_no_order, Return
  <2>2. UNCHANGED cr \/ Patch(r, "NEW", {}, j0.done, TRUE)
    BY <1>12 DEF Getnew_no_order
  <2>3. j0.done \in SUBSET Assignment
    BY <1>1 DEF Job
  <2>4. cr' \in [Reservations -> CR \union {NoCR}]
    BY <2>2, <2>3, PatchType DEF Status, InProcessStatus, TypeOK
  <2>5. QED
    BY <1>2, <1>3, <2>1, <2>4, IdleOK
<1>13. QED
  BY <1>6, <1>7, <1>8, <1>9, <1>10, <1>11, <1>12

\* _process_orderres_cr_reservations: what is done with an order is recorded, or
\* it is no longer in process, or the failed call is remembered.
LEMMA RoundStep ==
    ASSUME IInv, NEW r \in Reservations,
           \/ \E a \in job[r].asg : Skip(r, a) \/ Assign(r, a) \/ Assign_fails(r, a)
           \/ Send(r)
           \/ \E o \in job[r].left : Unset(r, o) \/ Unset_fails(r, o)
    PROVE  IInv'
<1> USE DEF IInv
<1> DEFINE j0 == job[r]
           Result(j) == \/ Continue(r, Next_call(j))
                        \/ Continue(r, j) /\ j.call = "send"
<1>1. j0 \in Job /\ JobOK(ewm, r, j0)
  BY DEF TypeOK, JobsOK
<1>2. \A a \in j0.asg : a \in Assignment /\ a = <<a[1], a[2]>> /\ a[1] \in Orders /\ a[2] \in Robots
  BY <1>1 DEF Job, Assignment
<1>3. \A q \in Reservations : q \notin Robots /\ q # "open" /\ q # "done"
  BY ReservationAssumption
<1>4. ASSUME NEW j \in Job, j.call \in {"assign", "unset", "send"}, Result(j),
             JobOK(ewm', r, j),
             \A q \in Reservations \ {r} : \A o \in Orders : ewm'[o] = q => ewm[o] = q,
             ewm' \in [Orders -> {"open", "done"} \union Robots \union Reservations],
             UNCHANGED <<cr, cache, pending, auction>>, Fault \/ NoFault
      PROVE  IInv'
  <2>1. JobOK(ewm', r, [j EXCEPT !.call = j.call])
    BY <1>4 DEF JobOK, Job
  <2>2. \E k \in Job : Continue(r, k) /\ JobOK(ewm', r, k)
    <3>1. CASE Continue(r, Next_call(j)) /\ j.call \in {"assign", "unset"}
      BY <1>4, <2>1, <3>1, NextCall
    <3>2. CASE Continue(r, Next_call(j)) /\ j.call = "send"
      BY <1>4, <3>2 DEF Next_call
    <3>3. CASE Continue(r, j)
      BY <1>4, <3>3
    <3>4. QED
      BY <1>4, <3>1, <3>2, <3>3
  <2>3. JobsOK' /\ job' \in [Reservations -> Job]
    BY <1>4, <2>2, OneJob
  <2>4. faults' \in 0..MaxFaults
    BY <1>4, FaultType
  <2>5. QED
    BY <1>4, <2>3, <2>4 DEF TypeOK
<1>5. ASSUME UNCHANGED ewm
      PROVE  /\ \A q \in Reservations \ {r} : \A o \in Orders : ewm'[o] = q => ewm[o] = q
             /\ ewm' \in [Orders -> {"open", "done"} \union Robots \union Reservations]
  BY <1>5 DEF TypeOK
<1>6. \* a round with a failed call asks nothing of EWM
      ASSUME NEW j \in Job, j.call \in {"assign", "unset", "send"}, j.err,
             j.from = "RESERVATIONS"
      PROVE  JobOK(ewm', r, j)
  BY <1>6 DEF JobOK, InProcessStatus
<1>7. ASSUME NEW a \in j0.asg, Skip(r, a)
      PROVE  IInv'
  <2> DEFINE left == IF a \in j0.done THEN j0.left \ {a[1]} ELSE j0.left
             j == [j0 EXCEPT !.asg = j0.asg \ {a}, !.left = left]
  <2>1. /\ j0.call = "assign" /\ Continue(r, Next_call(j))
        /\ UNCHANGED <<ewm, cr, cache, pending, auction, faults>>
    BY <1>7 DEF Skip
  <2>2. j \in Job
    BY <1>1 DEF Job
  <2>3. j.call = "assign" /\ j.from = j0.from /\ j.st = j0.st /\ j.whos = j0.whos
        /\ j.done = j0.done /\ j.left = left /\ j.err = j0.err
    BY <1>1, <2>1 DEF Job
  <2> HIDE DEF j
  <2>4. ASSUME NEW o \in j.whos \ j.left, ewm[o] = r, ~j0.err
        PROVE  \E rb \in Robots : <<o, rb>> \in j.done
    <3>1. CASE o \notin j0.left
      BY <1>1, <2>1, <2>3, <2>4, <3>1 DEF JobOK
    <3>2. CASE o \in j0.left
      <4>1. a \in j0.done /\ o = a[1]
        BY <2>3, <2>4, <3>2
      <4>2. QED
        BY <1>2, <2>3, <4>1
    <3>3. QED
      BY <3>1, <3>2
  <2>5. JobOK(ewm', r, j)
    BY <1>1, <2>1, <2>3, <2>4 DEF JobOK
  <2>6. QED
    BY <1>4, <1>5, <2>1, <2>2, <2>3, <2>5 DEF NoFault
<1>8. ASSUME NEW a \in j0.asg, Assign(r, a)
      PROVE  IInv'
  <2> DEFINE js == [j0 EXCEPT !.call = "send", !.asg = j0.asg \ {a},
                      !.left = j0.left \ {a[1]}, !.done = j0.done \union {a}]
             jf == [j0 EXCEPT !.asg = j0.asg \ {a}, !.err = TRUE]
  <2>1. /\ j0.call = "assign" /\ j0.from = "RESERVATIONS"
        /\ ewm' = [ewm EXCEPT ![a[1]] = a[2]]
        /\ \/ NoFault /\ Continue(r, js)
           \/ Fault /\ Continue(r, Next_call(jf))
        /\ UNCHANGED <<cr, cache, pending, auction>>
    BY <1>1, <1>8 DEF Assign, To_assign, JobOK
  <2>2. /\ \A q \in Reservations : \A o \in Orders : ewm'[o] = q => ewm[o] = q /\ o # a[1]
        /\ ewm' \in [Orders -> {"open", "done"} \union Robots \union Reservations]
    BY <1>2, <1>3, <2>1 DEF TypeOK
  <2>3. js \in Job /\ jf \in Job
    BY <1>1, <1>2 DEF Job, Call
  <2>4. js.call = "send" /\ js.from = j0.from /\ js.st = j0.st /\ js.whos = j0.whos
        /\ js.done = j0.done \union {a} /\ js.left = j0.left \ {a[1]} /\ js.err = j0.err
    BY <1>1 DEF Job
  <2>5. jf.call = "assign" /\ jf.from = "RESERVATIONS" /\ jf.err
    BY <1>1, <2>1 DEF Job
  <2> HIDE DEF js, jf
  <2>6. JobOK(ewm', r, jf)
    BY <1>6, <2>3, <2>5
  <2>7. ASSUME NEW o \in js.whos \ js.left, ewm'[o] = r, ~j0.err
        PROVE  \E rb \in Robots : <<o, rb>> \in js.done
    <3>1. o \in Orders
      BY <1>1, <2>4, <2>7 DEF Job
    <3>2. ewm[o] = r /\ o # a[1]
      BY <2>2, <2>7, <3>1
    <3>3. QED
      BY <1>1, <2>1, <2>4, <2>7, <3>2 DEF JobOK
  <2>8. JobOK(ewm', r, js)
    BY <1>1, <2>1, <2>4, <2>7 DEF JobOK
  <2>9. CASE NoFault /\ Continue(r, js)
    BY <1>4, <2>1, <2>2, <2>3, <2>4, <2>8, <2>9
  <2>10. CASE Fault /\ Continue(r, Next_call(jf))
    BY <1>4, <2>1, <2>2, <2>3, <2>5, <2>6, <2>10
  <2>11. QED
    BY <2>1, <2>9, <2>10
<1>9. ASSUME NEW a \in j0.asg, Assign_fails(r, a)
      PROVE  IInv'
  <2> DEFINE jn == [j0 EXCEPT !.asg = j0.asg \ {a}]
             jf == [j0 EXCEPT !.asg = j0.asg \ {a}, !.err = TRUE]
  <2>1. /\ j0.call = "assign" /\ j0.from = "RESERVATIONS"
        /\ \/ NoFault /\ Continue(r, Next_call(jn))
           \/ Fault /\ Continue(r, Next_call(jf))
        /\ UNCHANGED <<ewm, cr, cache, pending, auction>>
    BY <1>1, <1>9 DEF Assign_fails, To_assign, JobOK
  <2>2. jn \in Job /\ jf \in Job
    BY <1>1 DEF Job
  <2>3. jn.call = "assign" /\ jf.call = "assign" /\ jf.from = "RESERVATIONS" /\ jf.err
    BY <1>1, <2>1 DEF Job
  <2>4. JobOK(ewm', r, jn)
    BY <1>1, <2>1 DEF JobOK, Job
  <2> HIDE DEF jn, jf
  <2>5. JobOK(ewm', r, jf)
    BY <1>6, <2>2, <2>3
  <2>6. QED
    BY <1>4, <1>5, <2>1, <2>2, <2>3, <2>4, <2>5
<1>10. CASE Send(r)
  <2> DEFINE jn == [j0 EXCEPT !.call = "assign"]
             jf == [jn EXCEPT !.err = TRUE]
  <2>1. /\ j0.call = "send" /\ j0.from = "RESERVATIONS"
        /\ \/ NoFault /\ Continue(r, Next_call(jn))
           \/ Fault /\ Continue(r, Next_call(jf))
        /\ UNCHANGED <<ewm, cr, cache, pending, auction>>
    BY <1>1, <1>10 DEF Send, JobOK
  <2>2. jn \in Job /\ jf \in Job
    BY <1>1 DEF Job, Call
  <2>3. jn.call = "assign" /\ jf.call = "assign" /\ jf.from = "RESERVATIONS" /\ jf.err
    BY <1>1, <2>1 DEF Job
  <2>4. JobOK(ewm', r, jn)
    BY <1>1, <2>1 DEF JobOK, Job
  <2> HIDE DEF jn, jf
  <2>5. JobOK(ewm', r, jf)
    BY <1>6, <2>2, <2>3
  <2>6. QED
    BY <1>4, <1>5, <2>1, <2>2, <2>3, <2>4, <2>5
<1>11. ASSUME NEW o \in j0.left, Unset(r, o)
       PROVE  IInv'
  <2> DEFINE jn == [j0 EXCEPT !.left = j0.left \ {o}]
             jf == [jn EXCEPT !.err = TRUE]
  <2>1. /\ j0.call = "unset" /\ j0.from = "RESERVATIONS"
        /\ ewm' = [ewm EXCEPT ![o] = IF o \in InProcess THEN "open" ELSE ewm[o]]
        /\ \/ NoFault /\ Continue(r, Next_call(jn))
           \/ Fault /\ Continue(r, Next_call(jf))
        /\ UNCHANGED <<cr, cache, pending, auction>>
    BY <1>1, <1>11 DEF Unset, JobOK
  <2>2. o \in Orders
    BY <1>1 DEF Job
  <2>3. /\ \A q \in Reservations : \A p \in Orders : ewm'[p] = q => ewm[p] = q /\ p # o
        /\ ewm' \in [Orders -> {"open", "done"} \union Robots \union Reservations]
    BY <1>3, <2>1, <2>2 DEF TypeOK, InProcess
  <2>4. jn \in Job /\ jf \in Job
    BY <1>1 DEF Job
  <2>5. /\ jn.call = "unset" /\ jn.from = j0.from /\ jn.st = j0.st /\ jn.whos = j0.whos
        /\ jn.done = j0.done /\ jn.left = j0.left \ {o} /\ jn.err = j0.err
        /\ jf.call = "unset" /\ jf.from = "RESERVATIONS" /\ jf.err
    BY <1>1, <2>1 DEF Job
  <2> HIDE DEF jn, jf
  <2>6. ASSUME NEW p \in jn.whos \ jn.left, ewm'[p] = r, ~j0.err
        PROVE  \E rb \in Robots : <<p, rb>> \in jn.done
    <3>1. p \in Orders
      BY <1>1, <2>5, <2>6 DEF Job
    <3>2. ewm[p] = r /\ p # o
      BY <2>3, <2>6, <3>1
    <3>3. QED
      BY <1>1, <2>1, <2>5, <2>6, <3>2 DEF JobOK
  <2>7. JobOK(ewm', r, jn)
    BY <1>1, <2>1, <2>5, <2>6 DEF JobOK
  <2>8. JobOK(ewm', r, jf)
    BY <1>6, <2>4, <2>5
  <2>9. QED
    BY <1>4, <2>1, <2>3, <2>4, <2>5, <2>7, <2>8
<1>12. ASSUME NEW o \in j0.left, Unset_fails(r, o)
       PROVE  IInv'
  <2> DEFINE jf == [j0 EXCEPT !.left = j0.left \ {o}, !.err = TRUE]
  <2>1. /\ j0.call = "unset" /\ j0.from = "RESERVATIONS"
        /\ Fault /\ Continue(r, Next_call(jf))
        /\ UNCHANGED <<ewm, cr, cache, pending, auction>>
    BY <1>1, <1>12 DEF Unset_fails, JobOK
  <2>2. jf \in Job
    BY <1>1 DEF Job
  <2>3. jf.call = "unset" /\ jf.from = "RESERVATIONS" /\ jf.err
    BY <1>1, <2>1 DEF Job
  <2> HIDE DEF jf
  <2>4. JobOK(ewm', r, jf)
    BY <1>6, <2>2, <2>3
  <2>5. QED
    BY <1>4, <1>5, <2>1, <2>2, <2>3, <2>4
<1>13. QED
  BY <1>7, <1>8, <1>9, <1>10, <1>11, <1>12

\* The end of a callback, with its status written or not.
LEMMA EndStep ==
    ASSUME IInv, NEW r \in Reservations, Update(r) \/ Update_fails(r)
    PROVE  IInv'
<1> USE DEF IInv
<1>1. job[r] \in Job
  BY DEF TypeOK
<1>2. Continue(r, Idle) /\ UNCHANGED <<ewm, cache, pending, auction>> /\ (Fault \/ NoFault)
  BY DEF Update, Update_fails, Return, NoFault
<1>3. cr' \in [Reservations -> CR \union {NoCR}]
  <2>1. CASE Update(r)
    <3> DEFINE st == IF job[r].err THEN job[r].from ELSE job[r].st
    <3>1. /\ st \in Status /\ job[r].whos \in SUBSET Orders
          /\ job[r].done \in SUBSET Assignment /\ job[r].msg \in BOOLEAN
      BY <1>1 DEF Job
    <3>2. Patch(r, st, job[r].whos, job[r].done, job[r].msg)
      BY <2>1 DEF Update
    <3> HIDE DEF st
    <3>3. QED
      BY <3>1, <3>2, PatchType
  <2>2. CASE Update_fails(r)
    BY <2>2 DEF Update_fails, TypeOK
  <2>3. QED
    BY <2>1, <2>2
<1>4. JobsOK' /\ job' \in [Reservations -> Job]
  BY <1>2, IdleOK, OneJob
<1>5. faults' \in 0..MaxFaults
  BY <1>2, FaultType
<1>6. QED
  BY <1>2, <1>3, <1>4, <1>5 DEF TypeOK

-----------------------------------------------------------------------------
(* The other steps.                                                        *)

\* The watch, the reprocessing loop and the auctioneer do not touch callbacks or
\* EWM; what they submit are CRs.
LEMMA CRStep ==
    ASSUME IInv, NEW r \in Reservations,
           \/ Watch(r) \/ Reprocess(r) \/ Create_reservation(r) \/ Create_auctions(r)
           \/ Close_auction(r) \/ Delete_reservation(r)
    PROVE  IInv'
<1> USE DEF IInv
<1>1. UNCHANGED <<ewm, job, faults>>
  BY DEF Watch, Reprocess, Create_reservation, Create_auctions, Close_auction,
         Delete_reservation
<1>2. JobsOK'
  BY <1>1 DEF JobsOK
<1>3. cr[r] \in CR \union {NoCR} /\ cache[r] \in CR \union {NoCR} /\ NewCR \in CR
  BY DEF TypeOK, NewCR, CR, Status, InProcessStatus
<1>4. UNCHANGED pending \/ \E c \in CR : Submit(r, c)
  BY <1>3 DEF Watch, Reprocess, Create_reservation, Create_auctions, Close_auction,
              Delete_reservation
<1>5. pending' \in [Reservations -> SUBSET CR]
  BY <1>4 DEF TypeOK, Submit
<1>6. cache' \in [Reservations -> CR \union {NoCR}]
  BY <1>3 DEF TypeOK, Watch, Reprocess, Create_reservation, Create_auctions,
              Close_auction, Delete_reservation
<1>7. /\ cr' \in [Reservations -> CR \union {NoCR}]
      /\ auction' \in [Reservations -> SUBSET Orders]
  <2>1. CASE Watch(r) \/ Reprocess(r)
    BY <2>1 DEF Watch, Reprocess, TypeOK
  <2>2. CASE Create_reservation(r)
    BY <1>3, <2>2 DEF Create_reservation, TypeOK
  <2>3. CASE Create_auctions(r)
    <3>1. cr[r].whos \in SUBSET Orders
      BY <1>3 DEF CR, NoCR
    <3>2. QED
      BY <2>3, <3>1 DEF Create_auctions, TypeOK
  <2>4. CASE Close_auction(r)
    <3>1. PICK w \in Winners(auction[r]) : cr' = [cr EXCEPT ![r].asg = w]
      BY <2>4 DEF Close_auction
    <3>2. w \in SUBSET Assignment
      BY DEF Winners, TypeOK, Assignment
    <3>3. cr[r] \in CR
      BY <1>3, <2>4 DEF Close_auction, NoCR
    <3>4. [cr[r] EXCEPT !.asg = w] \in CR
      BY <3>2, <3>3 DEF CR
    <3>5. QED
      BY <2>4, <3>1, <3>4 DEF Close_auction, TypeOK
  <2>5. CASE Delete_reservation(r)
    BY <2>5 DEF Delete_reservation, TypeOK
  <2>6. QED
    BY <2>1, <2>2, <2>3, <2>4, <2>5
<1>8. QED
  BY <1>1, <1>2, <1>5, <1>6, <1>7 DEF TypeOK

\* A restart forgets the callbacks, not the CRs.
LEMMA RestartStep ==
    ASSUME IInv, Restart
    PROVE  IInv'
<1>1. JobsOK'
  BY IdleOK DEF Restart, JobsOK
<1>2. TypeOK'
  <2>1. faults' \in 0..MaxFaults
    BY FaultType DEF IInv, Restart
  <2>2. QED
    BY <2>1, IdleOK DEF Restart, IInv, TypeOK
<1>3. QED
  BY <1>1, <1>2 DEF IInv

\* Other users of EWM take no order for a reservation.
LEMMA OrderStep ==
    ASSUME IInv, NEW o \in Orders, Robot_requests_work(o) \/ Unassign(o) \/ Order_done(o)
    PROVE  IInv'
<1>1. PICK to \in {"open", "done"} \union Robots : Change_order(o, to)
  BY DEF Robot_requests_work, Unassign, Order_done
<1>2. TypeOK'
  BY <1>1 DEF Change_order, IInv, TypeOK
<1>3. \A q \in Reservations : \A p \in Orders : ewm'[p] = q => ewm[p] = q
  BY <1>1, ReservationAssumption DEF Change_order, IInv, TypeOK
<1>4. ASSUME NEW q \in Reservations PROVE JobOK(ewm', q, job[q])
  <2>1. JobOK(ewm, q, job[q]) /\ job[q].whos \subseteq Orders
    BY DEF IInv, JobsOK, TypeOK, Job
  <2>2. QED
    BY <1>3, <2>1 DEF JobOK
<1>5. job' = job
  BY <1>1 DEF Change_order
<1>6. QED
  BY <1>2, <1>4, <1>5 DEF IInv, JobsOK

-----------------------------------------------------------------------------
(* The theorems.                                                           *)

\* The invariant is inductive: it holds of the empty system, and every step of
\* the order manager, the auctioneer and the users of EWM preserves it.
THEOREM RoundInductive ==
    /\ Init => IInv
    /\ IInv /\ [Next]_vars => IInv'
<1>1. ASSUME Init PROVE IInv
  <2>1. TypeOK
    BY <1>1, IdleOK, ReservationAssumption DEF Init, TypeOK
  <2>2. JobsOK
    BY <1>1, IdleOK DEF Init, JobsOK
  <2>3. QED
    BY <2>1, <2>2 DEF IInv
<1>2. ASSUME IInv, [Next]_vars PROVE IInv'
  <2>1. CASE UNCHANGED vars
    BY <1>2, <2>1 DEF vars, IInv, TypeOK, JobsOK
  <2>2. ASSUME NEW r \in Reservations, Callback_step(r) PROVE IInv'
    BY <1>2, <2>2, TakeStep, NewStep, RoundStep, EndStep DEF Callback_step
  <2>3. ASSUME NEW r \in Reservations,
               \/ Watch(r) \/ Reprocess(r) \/ Create_reservation(r) \/ Create_auctions(r)
               \/ Close_auction(r) \/ Delete_reservation(r)
        PROVE  IInv'
    BY <1>2, <2>3, CRStep
  <2>4. CASE Restart
    BY <1>2, <2>4, RestartStep
  <2>5. ASSUME NEW o \in Orders, Robot_requests_work(o) \/ Unassign(o) \/ Order_done(o)
        PROVE  IInv'
    BY <1>2, <2>5, OrderStep
  <2>6. QED
    BY <1>2, <2>1, <2>2, <2>3, <2>4, <2>5 DEF Next
<1>3. QED
  BY <1>1, <1>2

\* Every variable keeps its type: in particular only CRs that exist are handed to
\* callbacks, and no status is written that is none.
THEOREM ReservationTypeCorrect == Spec => []TypeOK
<1>1. IInv => TypeOK
  BY DEF IInv
<1>2. QED
  BY <1>1, RoundInductive, PTL DEF Spec

\* The status SUCCEEDED or TIMEOUT is only written at the end of a callback that
\* is done with all orders of the reservation.
LEMMA EndIsWritten ==
    ASSUME IInv, [Next]_vars, NEW r \in Reservations,
           cr'[r].st \in {"SUCCEEDED", "TIMEOUT"}, cr'[r] # cr[r]
    PROVE  /\ Update(r)
           /\ ~job[r].err /\ job[r].from = "RESERVATIONS"
           /\ cr'[r].whos = job[r].whos /\ cr'[r].done = job[r].done
<1>1. cr \in [Reservations -> CR \union {NoCR}]
  BY DEF IInv, TypeOK
<1>2. \E q \in Reservations : Callback_step(q) \/ Create_reservation(q) \/ Close_auction(q)
                              \/ Delete_reservation(q)
  <2>1. cr' # cr
    OBVIOUS
  <2>2. QED
    BY <2>1 DEF Next, vars, Watch, Reprocess, Create_auctions, Restart, Change_order,
       Robot_requests_work, Unassign, Order_done
<1>3. PICK q \in Reservations : Callback_step(q) \/ Create_reservation(q) \/ Close_auction(q)
                                \/ Delete_reservation(q)
  BY <1>2
<1>4. Update(q) \/ Getnew_no_order(q) \/ Getnew_no_robot_type(q) \/ Create_reservation(q) \/ Close_auction(q)
      \/ Delete_reservation(q)
  BY <1>3 DEF Callback_step, Start_new, Start_accepted, Start_assignments, Start_timeout,
     Nothing_to_do, Take, Get_in_process, Check, Getnew, Getnew_fails, Get_tasks, Skip,
     Assign, Assign_fails, Send, Unset, Unset_fails, Update_fails
<1>5. ~Getnew_no_robot_type(q) /\ ~Getnew_no_order(q)
  BY <1>1 DEF Getnew_no_robot_type, Getnew_no_order, Patch, CR
<1>6. ~Create_reservation(q)
  BY <1>1 DEF Create_reservation, NewCR
<1>7. ~Close_auction(q)
  <2>1. ASSUME Close_auction(q) PROVE FALSE
    <3>1. PICK w : cr' = [cr EXCEPT ![q].asg = w] /\ cr[q].st = "RESERVATIONS"
      BY <2>1 DEF Close_auction
    <3>2. cr[q] \in CR
      BY <1>1, <3>1 DEF NoCR
    <3>3. cr'[r].st = cr[r].st /\ r = q
      BY <1>1, <3>1, <3>2 DEF CR
    <3>4. QED
      BY <3>1, <3>3
  <2>2. QED
    BY <2>1
<1>8. ~Delete_reservation(q)
  BY <1>1 DEF Delete_reservation, NoCR
<1>9. Update(q)
  BY <1>4, <1>5, <1>6, <1>7, <1>8
<1>10. /\ cr[q] # NoCR
       /\ cr' = [cr EXCEPT ![q] = [cr[q] EXCEPT
                   !.st = IF job[q].err THEN job[q].from ELSE job[q].st,
                   !.whos = job[q].whos, !.done = job[q].done, !.msg = job[q].msg]]
  BY <1>9 DEF Update, Patch
<1>11. q = r /\ cr[r] \in CR
  BY <1>1, <1>10
<1>12. /\ cr'[r].whos = job[r].whos /\ cr'[r].done = job[r].done
       /\ cr'[r].st = IF job[r].err THEN job[r].from ELSE job[r].st
  BY <1>1, <1>10, <1>11 DEF CR
<1>13. JobOK(ewm, r, job[r])
  BY DEF IInv, JobsOK
<1>14. QED
  BY <1>9, <1>11, <1>12, <1>13 DEF JobOK, InProcessStatus

\* A reservation that ends leaves no order in process, whatever calls failed,
\* whatever callbacks were repeated and whatever other reservations did meanwhile.
THEOREM EndReleases == Spec => ReleasedAtEnd
<1>1. ASSUME IInv, [Next]_vars
      PROVE  \A r \in Reservations :
               cr'[r].st \in {"SUCCEEDED", "TIMEOUT"} /\ cr'[r] # cr[r] =>
                 \A o \in cr'[r].whos :
                   ewm'[o] = r => \E rb \in Robots : <<o, rb>> \in cr'[r].done
  <2>1. SUFFICES ASSUME NEW r \in Reservations,
                        cr'[r].st \in {"SUCCEEDED", "TIMEOUT"}, cr'[r] # cr[r],
                        NEW o \in cr'[r].whos, ewm'[o] = r
                 PROVE  \E rb \in Robots : <<o, rb>> \in cr'[r].done
    OBVIOUS
  <2>2. /\ Update(r) /\ ~job[r].err /\ job[r].from = "RESERVATIONS"
        /\ cr'[r].whos = job[r].whos /\ cr'[r].done = job[r].done
    BY <1>1, <2>1, EndIsWritten
  <2>3. JobOK(ewm, r, job[r])
    BY <1>1 DEF IInv, JobsOK
  <2>4. job[r].call = "update" /\ ewm' = ewm
    BY <2>2 DEF Update
  <2>5. QED
    BY <2>1, <2>2, <2>3, <2>4 DEF JobOK
<1>2. IInv /\ [Next]_vars =>
        [\A r \in Reservations :
           cr'[r].st \in {"SUCCEEDED", "TIMEOUT"} /\ cr'[r] # cr[r] =>
             \A o \in cr'[r].whos :
               ewm'[o] = r => \E rb \in Robots : <<o, rb>> \in cr'[r].done]_vars
  BY <1>1
<1>3. QED
  BY <1>2, RoundInductive, PTL DEF Spec, ReleasedAtEnd

=============================================================================
