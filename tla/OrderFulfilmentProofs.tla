----------------------- MODULE OrderFulfilmentProofs -----------------------
(* What the order manager guarantees of confirmations, for all numbers of     *)
(* orders, tasks, robots, waiting copies, errors and faults: it forgets none, *)
(* and it gives them to EWM in the sequence of the robot.                     *)
(*                                                                            *)
(* The copies of a CR that are on their way name no confirmation as processed *)
(* that EWM has not, and a callback passes a confirmation only when that is   *)
(* settled.  What is settled stays settled, and what a copy has in its data   *)
(* is still in front in the CR: the data only grow.                           *)
EXTENDS OrderFulfilment, TLAPS, FiniteSetTheorems

\* s is what t begins with.
Front(s, t) == Len(s) <= Len(t) /\ \A i \in 1 .. Len(s) : t[i] = s[i]

\* A copy of the CR of o.
CopyOK(o, copy) ==
    /\ \A c \in copy.process_status : Settled(o, c)
    /\ Front(copy.data, crs[o].data)

CopiesOK == \A o \in Orders : CopyOK(o, cache[o]) /\ \A copy \in pending[o] : CopyOK(o, copy)

\* A callback of the CR of o: all before the confirmation in work is settled,
\* that one too when it is confirmed, and all of the data when they are saved.
Confirming == {"read", "book", "clean", "whos", "send"}

JobOK(o, j) ==
    /\ Front(j.data, crs[o].data)
    /\ \A c \in j.seen : Settled(o, c)
    /\ j.call = "save" => \A i \in 1 .. Len(j.data) : Settled(o, j.data[i])
    /\ j.call \in Confirming \ {"clean"} => j.at # 0
    /\ j.call = "verify" => j.at = 0
    /\ j.call \in Confirming /\ j.at # 0 =>
         /\ j.at \in 1 .. Len(j.data)
         /\ \A i \in 1 .. (j.at - 1) : Settled(o, j.data[i])
         /\ j.call \notin {"read", "book"} => Settled(o, j.data[j.at])

JobsOK == \A o \in Orders : JobOK(o, job[o])

\* No confirmation is twice in a CR, and EWM has none but those.
DataOK ==
    \A o \in Orders :
        /\ \A i, k \in 1 .. Len(crs[o].data) : crs[o].data[i] = crs[o].data[k] => i = k
        /\ \A k \in 1 .. Len(ewm[o].log) :
             \E i \in 1 .. Len(crs[o].data) : ewm[o].log[k] = crs[o].data[i]

\* The inductive invariant.
IInv == TypeOK /\ ProcessedIsBooked /\ CopiesOK /\ JobsOK /\ DataOK /\ BookedInSequence

-----------------------------------------------------------------------------
(* Types                                                                      *)

\* What a confirmation consists of.
LEMMA ConfFields ==
    ASSUME NEW c \in Conf
    PROVE  /\ c.tanum \in Tasks /\ c.rsrc \in Robots
           /\ c.confirmationnumber \in {"FIRST", "SECOND"}
           /\ c.confirmationtype \in {"SUCCESS", "ERROR"}
BY DEF Conf

\* The values a new order starts with have their types.
LEMMA EmptyData == <<>> \in Seq(Conf) /\ {} \in SUBSET Conf /\ NoCR \in OrderCR /\ Idle \in Job
<1>1. <<>> \in Seq(Conf)
  OBVIOUS
<1> QED BY <1>1 DEF NoCR, OrderCR, Idle, Job

\* Booking a confirmation keeps the type of EWM.
LEMMA BookedType ==
    ASSUME TypeOK, NEW o \in Orders, NEW c \in Conf
    PROVE  Booked(o, c) \in [Orders -> EwmOrder]
<1>1. ewm \in [Orders -> EwmOrder] /\ ewm[o].log \in Seq(Conf)
  BY DEF TypeOK, EwmOrder
<1>2. Append(ewm[o].log, c) \in Seq(Conf)
  BY <1>1
<1>3. c.tanum \in Tasks
  BY ConfFields
<1> DEFINE taken == [ewm EXCEPT ![o].log = Append(@, c)]
<1>4. taken \in [Orders -> EwmOrder]
  BY <1>1, <1>2 DEF EwmOrder
<1>5. \/ Booked(o, c) = ewm
      \/ Booked(o, c) = taken
      \/ Booked(o, c) = [taken EXCEPT ![o].task[c.tanum] = "first"]
      \/ Booked(o, c) = [taken EXCEPT ![o].task[c.tanum] = "done"]
      \/ Booked(o, c) = [taken EXCEPT ![o].queue = "errors", ![o].robot = None]
      \/ Booked(o, c) = [taken EXCEPT ![o].queue = "errors"]
  <2>1. CASE Already(o, c)
    BY <2>1 DEF Booked, Is, Already
  <2>2. CASE ~Already(o, c) /\ c.confirmationtype = "SUCCESS"
    BY <2>2, ConfFields DEF Booked, Is
  <2>3. CASE c.confirmationtype = "ERROR"
    BY <2>3, ConfFields DEF Booked, Is, Already
  <2> QED BY <2>1, <2>2, <2>3, ConfFields
<1> HIDE DEF taken
<1>6. [taken EXCEPT ![o].task[c.tanum] = "first"] \in [Orders -> EwmOrder]
  BY <1>3, <1>4 DEF EwmOrder
<1>7. [taken EXCEPT ![o].task[c.tanum] = "done"] \in [Orders -> EwmOrder]
  BY <1>3, <1>4 DEF EwmOrder
<1>8. [taken EXCEPT ![o].queue = "errors", ![o].robot = None] \in [Orders -> EwmOrder]
  BY <1>4 DEF EwmOrder
<1>9. [taken EXCEPT ![o].queue = "errors"] \in [Orders -> EwmOrder]
  BY <1>4 DEF EwmOrder
<1> QED BY <1>1, <1>4, <1>5, <1>6, <1>7, <1>8, <1>9

\* A refusal changes at most the queue of the order.
LEMMA RejectedQueue ==
    ASSUME TypeOK, NEW o \in Orders, NEW c, ewm' = Rejected(o, c)
    PROVE  /\ ewm' \in [Orders -> EwmOrder]
           /\ \A q \in Orders : ewm'[q].log = ewm[q].log /\ ewm'[q].task = ewm[q].task
<1>1. ewm \in [Orders -> EwmOrder]
  BY DEF TypeOK
<1>2. ewm' = ewm \/ ewm' = [ewm EXCEPT ![o].queue = "errors"]
  BY DEF Rejected
<1>3. CASE ewm' = ewm
  BY <1>1, <1>3
<1>4. CASE ewm' = [ewm EXCEPT ![o].queue = "errors"]
  <2>1. ewm' \in [Orders -> EwmOrder]
    BY <1>1, <1>4 DEF EwmOrder
  <2>2. \A q \in Orders : ewm'[q].log = ewm[q].log /\ ewm'[q].task = ewm[q].task
    BY <1>1, <1>4 DEF EwmOrder
  <2> QED BY <2>1, <2>2
<1> QED BY <1>2, <1>3, <1>4

\* The search for the next confirmation keeps the type of the jobs.
LEMMA ContinueType ==
    ASSUME TypeOK, NEW o \in Orders, NEW j \in Job, NEW k \in Nat, Continue(o, j, k)
    PROVE  job' \in [Orders -> Job]
<1>1. job \in [Orders -> Job] /\ Len(j.data) \in Nat
  BY DEF TypeOK, Job
<1>2. CASE job' = [job EXCEPT ![o] = [Idle EXCEPT !.call = "save", !.data = j.data]]
  <2>1. [Idle EXCEPT !.call = "save", !.data = j.data] \in Job
    BY DEF Job, Idle
  <2> QED BY <2>1, <1>1, <1>2
<1>3. CASE \E i \in k .. Len(j.data) :
             job' = [job EXCEPT ![o] = [j EXCEPT !.call = "read", !.at = i, !.last = FALSE]]
  <2>1. PICK i \in k .. Len(j.data) :
             job' = [job EXCEPT ![o] = [j EXCEPT !.call = "read", !.at = i, !.last = FALSE]]
    BY <1>3
  <2>2. i \in Nat
    BY <1>1
  <2>3. [j EXCEPT !.call = "read", !.at = i, !.last = FALSE] \in Job
    BY <2>2 DEF Job
  <2> QED BY <2>1, <2>3, <1>1
<1> QED BY <1>2, <1>3 DEF Continue

\* The confirmation in work is one.
LEMMA CurrentType ==
    ASSUME TypeOK, JobsOK, NEW o \in Orders, job[o].call \in Confirming, job[o].at # 0
    PROVE  Current(o) \in Conf /\ Current(o).rsrc \in Robots /\ job[o].at + 1 \in Nat
<1>1. job[o].at \in 1 .. Len(job[o].data) /\ job[o].data \in Seq(Conf) /\ job[o].at \in Nat
  BY DEF JobsOK, JobOK, TypeOK, Job
<1> QED BY <1>1, ConfFields DEF Current

\* Memorizing a confirmation keeps the types.
LEMMA MemorizeType ==
    ASSUME TypeOK, JobsOK, NEW o \in Orders, job[o].call \in Confirming, job[o].at # 0,
           Memorize(o)
    PROVE  memory' \in [Orders -> SUBSET Conf] /\ job' \in [Orders -> Job]
<1>1. job[o] \in Job /\ memory \in [Orders -> SUBSET Conf]
  BY DEF TypeOK
<1>2. job' \in [Orders -> Job]
  BY <1>1, CurrentType, ContinueType DEF Memorize
<1> QED BY <1>1, <1>2, CurrentType DEF Memorize

\* Going to the next call keeps the types.
LEMMA GoType ==
    ASSUME TypeOK, NEW o \in Orders, NEW call \in {"clean", "whos", "send"}, Go(o, call)
    PROVE  memory' \in [Orders -> SUBSET Conf] /\ job' \in [Orders -> Job]
BY DEF Go, TypeOK, Job

\* The end of a callback keeps the types.
LEMMA FinishType ==
    ASSUME TypeOK, NEW o \in Orders, Finish(o)
    PROVE  memory' \in [Orders -> SUBSET Conf] /\ job' \in [Orders -> Job]
BY EmptyData DEF Finish, TypeOK

\* What follows a confirmation that is booked keeps the types.
LEMMA ConfirmedType ==
    ASSUME TypeOK, JobsOK, NEW o \in Orders, job[o].call \in Confirming, job[o].at # 0,
           NEW c, Confirmed(o, c)
    PROVE  memory' \in [Orders -> SUBSET Conf] /\ job' \in [Orders -> Job]
BY GoType, MemorizeType DEF Confirmed

\* Faults stay within their bound.
LEMMA FaultType == ASSUME TypeOK, Fault PROVE faults' \in 0 .. MaxFaults
BY FulfilmentAssumption DEF TypeOK, Fault

\* The writes to the CR of an order.
LEMMA SendType ==
    ASSUME TypeOK, NEW o \in Orders, NEW r \in Robots, Send_who_to_robot(o, r)
    PROVE  crs' \in [Orders -> OrderCR]
<1>5. crs \in [Orders -> OrderCR]
  BY DEF TypeOK
<1>1. [crs EXCEPT ![o].order_status = "RUNNING", ![o].robot = r] \in [Orders -> OrderCR]
  BY <1>5 DEF OrderCR
<1> QED BY <1>1 DEF Send_who_to_robot, TypeOK

\* Marking a CR PROCESSED keeps the type of the CRs.
LEMMA CleanupType ==
    ASSUME TypeOK, NEW o \in Orders, Cleanup_who(o)
    PROVE  crs' \in [Orders -> OrderCR]
<1>5. crs \in [Orders -> OrderCR]
  BY DEF TypeOK
<1>1. [crs EXCEPT ![o].order_status = "PROCESSED"] \in [Orders -> OrderCR]
  BY <1>5 DEF OrderCR
<1> QED BY <1>1 DEF Cleanup_who, TypeOK

\* Saving the process status keeps the type of the CRs.
LEMMA SaveType ==
    ASSUME TypeOK, NEW o \in Orders, Save_processed_status(o)
    PROVE  crs' \in [Orders -> OrderCR]
<1>1. job[o].data \in Seq(Conf)
  BY DEF TypeOK, Job
<1>2. Range(job[o].data) \subseteq Conf
  BY <1>1 DEF Range
<1>5. crs \in [Orders -> OrderCR]
  BY DEF TypeOK
<1>3. [crs EXCEPT ![o].process_status = Range(job[o].data)] \in [Orders -> OrderCR]
  BY <1>5, <1>2 DEF OrderCR
<1> QED BY <1>3 DEF Save_processed_status, TypeOK

-----------------------------------------------------------------------------
(* Every step keeps the types.                                                *)

\* The watch and the executor keep the types.
LEMMA WatchType ==
    ASSUME TypeOK, NEW o \in Orders, Watch(o) \/ Reprocess(o) \/ Take(o)
    PROVE  TypeOK'
<1>1. \A copy \in OrderCR : Submit(o, copy) => pending' \in [Orders -> SUBSET OrderCR]
  BY DEF Submit, TypeOK
<1>2. CASE Watch(o)
  BY <1>1, <1>2 DEF Watch, TypeOK
<1>3. CASE Reprocess(o)
  BY <1>1, <1>3 DEF Reprocess, TypeOK
<1>4. CASE Take(o)
  <2>1. PICK copy \in pending[o] :
          /\ pending' = [pending EXCEPT ![o] = @ \ {copy}]
          /\ \/ job' = [job EXCEPT ![o] = [Idle EXCEPT !.data = copy.data,
                                             !.seen = copy.process_status, !.call = "verify"]]
             \/ Continue(o, [Idle EXCEPT !.data = copy.data, !.seen = copy.process_status], 1)
    BY <1>4 DEF Take
  <2>2. copy.data \in Seq(Conf) /\ copy.process_status \in SUBSET Conf
    BY DEF TypeOK, OrderCR
  <2>3. [Idle EXCEPT !.data = copy.data, !.seen = copy.process_status] \in Job
    BY <2>2 DEF Idle, Job
  <2>4. [Idle EXCEPT !.data = copy.data, !.seen = copy.process_status, !.call = "verify"] \in Job
    BY <2>2 DEF Idle, Job
  <2>5. job' \in [Orders -> Job]
    BY <2>1, <2>3, <2>4, ContinueType DEF TypeOK
  <2> QED BY <2>1, <2>5, <1>4 DEF Take, TypeOK
<1> QED BY <1>2, <1>3, <1>4

\* The callbacks of orders keep the types.
LEMMA CallbackType ==
    ASSUME TypeOK, JobsOK, NEW o \in Orders, Process_who_cr(o)
    PROVE  TypeOK'
<1>1. CASE Read_open_tasks(o)
  <2>1. job[o].call \in Confirming /\ job[o].at # 0
    BY <1>1 DEF Read_open_tasks, Confirming, JobsOK, JobOK
  <2>2. CASE Current(o).tanum \in OpenTasks(o)
    <3>1. \A b \in BOOLEAN : [job EXCEPT ![o].call = "book", ![o].last = b] \in [Orders -> Job]
      <4>1. job \in [Orders -> Job]
        BY DEF TypeOK
      <4> QED BY <4>1 DEF Job
    <3>2. \E b \in BOOLEAN : job' = [job EXCEPT ![o].call = "book", ![o].last = b]
      BY <1>1, <2>2, Zenon DEF Read_open_tasks
    <3> QED BY <1>1, <2>2, <3>1, <3>2 DEF Read_open_tasks, rest, TypeOK
  <2>3. CASE Current(o).tanum \notin OpenTasks(o)
    BY <1>1, <2>1, <2>3, ConfirmedType DEF Read_open_tasks, rest, TypeOK
  <2> QED BY <2>2, <2>3
<1>2. CASE Confirm_warehousetask(o)
  <2>1. job[o].call \in Confirming /\ job[o].at # 0
    BY <1>2 DEF Confirm_warehousetask, Confirming, JobsOK, JobOK
  <2>2. ewm' \in [Orders -> EwmOrder]
    BY <1>2, <2>1, CurrentType, BookedType DEF Confirm_warehousetask
  <2>3. memory' \in [Orders -> SUBSET Conf] /\ job' \in [Orders -> Job]
    BY <1>2, <2>1, GoType, ConfirmedType DEF Confirm_warehousetask
  <2> QED BY <1>2, <2>2, <2>3 DEF Confirm_warehousetask, rest, TypeOK
<1>3. CASE Clean(o)
  <2>1. memory' \in [Orders -> SUBSET Conf] /\ job' \in [Orders -> Job]
    BY <1>3, FinishType, ConfirmedType DEF Clean, Confirming
  <2> QED BY <1>3, <2>1, CleanupType DEF Clean, rest, TypeOK
<1>4. CASE Get_robot_whos(o)
  <2>1. job[o].call \in Confirming /\ job[o].at # 0
    BY <1>4 DEF Get_robot_whos, Confirming, JobsOK, JobOK
  <2>2. memory' \in [Orders -> SUBSET Conf] /\ job' \in [Orders -> Job]
    BY <1>4, <2>1, GoType, MemorizeType DEF Get_robot_whos
  <2> QED BY <1>4, <2>2 DEF Get_robot_whos, rest, TypeOK
<1>5. CASE Send_robot_whos(o)
  <2>1. job[o].call \in Confirming /\ job[o].at # 0
    BY <1>5 DEF Send_robot_whos, Confirming, JobsOK, JobOK
  <2>2. memory' \in [Orders -> SUBSET Conf] /\ job' \in [Orders -> Job]
    BY <1>5, <2>1, MemorizeType DEF Send_robot_whos
  <2>3. crs' \in [Orders -> OrderCR]
    BY <1>5, <2>1, CurrentType, SendType DEF Send_robot_whos
  <2> QED BY <1>5, <2>2, <2>3 DEF Send_robot_whos, rest, TypeOK
<1>6. CASE Verify(o)
  <2>1. memory' \in [Orders -> SUBSET Conf] /\ job' \in [Orders -> Job]
    BY <1>6, GoType, FinishType DEF Verify
  <2> QED BY <1>6, <2>1 DEF Verify, rest, TypeOK
<1>7. CASE Save(o)
  <2>1. job' \in [Orders -> Job]
    BY <1>7, EmptyData DEF Save, TypeOK
  <2> QED BY <1>7, <2>1, SaveType DEF Save, rest, TypeOK
<1>8. CASE Abort(o)
  <2>1. job' \in [Orders -> Job]
    BY <1>8, EmptyData DEF Abort, TypeOK
  <2>2. ewm' \in [Orders -> EwmOrder]
    <3>1. CASE UNCHANGED ewm
      BY <3>1 DEF TypeOK
    <3>2. CASE job[o].call = "book" /\ ewm' = Booked(o, Current(o))
      <4>1. Current(o) \in Conf
        BY <3>2, CurrentType DEF Confirming, JobsOK, JobOK
      <4> QED BY <3>2, <4>1, BookedType
    <3>3. CASE ewm' = Rejected(o, Current(o))
      BY <3>3, RejectedQueue
    <3> QED BY <1>8, <3>1, <3>2, <3>3 DEF Abort
  <2>3. faults' \in 0 .. MaxFaults
    BY <1>8, FaultType DEF Abort, TypeOK
  <2> QED BY <1>8, <2>1, <2>2, <2>3 DEF Abort, rest, TypeOK
<1> QED BY <1>1, <1>2, <1>3, <1>4, <1>5, <1>6, <1>7, <1>8 DEF Process_who_cr

\* The callbacks of robot configurations keep the types.
LEMMA DeskType ==
    ASSUME TypeOK, NEW r \in Robots,
           Request_work(r) \/ Unassign_whos(r) \/ Process_robotconfig_cr(r)
    PROVE  TypeOK'
<1>1. \A request \in Desk : Serve(r, request) => desk' \in [Robots -> Desk]
  BY DEF Serve, TypeOK
<1>2. NoRequest \in Desk /\ \A o \in Orders : \A call \in {"getnew", "send", "unassign", "clean"} :
        [call |-> call, whos |-> {o}] \in Desk
  BY DEF NoRequest, Desk
<1>3. ewm \in [Orders -> EwmOrder]
  BY DEF TypeOK
<1>4. \A o \in Orders : Assigned(o, r) \in [Orders -> EwmOrder]
  BY <1>3 DEF Assigned, EwmOrder
<1>5. \A o \in Orders : Unassigned(o) \in [Orders -> EwmOrder]
  BY <1>3 DEF Unassigned, EwmOrder
<1>6. desk[r].whos \subseteq Orders
  BY DEF TypeOK, Desk
<1>7. \A o \in Offered(r) : o \in Orders
  BY DEF Offered, Own, Queued
<1>8. CASE Request_work(r)
  <2>1. [call |-> "getnew", whos |-> {}] \in Desk
    BY DEF Desk
  <2> QED BY <1>1, <1>8, <2>1 DEF Request_work, TypeOK
<1>9. CASE Unassign_whos(r)
  BY <1>1, <1>2, <1>9 DEF Unassign_whos, Running_whos, TypeOK
<1>10. CASE Getnew_robot_who(r)
  <2>1. ewm' \in [Orders -> EwmOrder] /\ desk' \in [Robots -> Desk]
    BY <1>1, <1>2, <1>3, <1>4, <1>7, <1>10 DEF Getnew_robot_who
  <2> QED BY <1>10, <2>1 DEF Getnew_robot_who, TypeOK
<1>11. CASE Send_new_who(r)
  <2>1. desk' \in [Robots -> Desk]
    BY <1>1, <1>2, <1>11 DEF Send_new_who
  <2>2. crs' \in [Orders -> OrderCR]
    BY <1>6, <1>11, SendType DEF Send_new_who
  <2> QED BY <1>11, <2>1, <2>2 DEF Send_new_who, TypeOK
<1>12. CASE Unassign_robot_who(r)
  <2>1. [desk[r] EXCEPT !.call = "clean"] \in Desk
    BY DEF TypeOK, Desk
  <2>2. ewm' \in [Orders -> EwmOrder] /\ desk' \in [Robots -> Desk]
    BY <1>1, <1>2, <1>3, <1>5, <1>6, <1>12, <2>1 DEF Unassign_robot_who
  <2> QED BY <1>12, <2>2 DEF Unassign_robot_who, TypeOK
<1>13. CASE Clean_unassigned(r)
  <2>1. desk' \in [Robots -> Desk]
    BY <1>1, <1>2, <1>13 DEF Clean_unassigned
  <2>2. crs' \in [Orders -> OrderCR]
    BY <1>6, <1>13, CleanupType DEF Clean_unassigned
  <2> QED BY <1>13, <2>1, <2>2 DEF Clean_unassigned, TypeOK
<1>14. CASE Desk_fails(r)
  <2>1. ewm' \in [Orders -> EwmOrder] /\ desk' \in [Robots -> Desk]
    BY <1>1, <1>2, <1>3, <1>4, <1>5, <1>6, <1>7, <1>14 DEF Desk_fails
  <2>2. faults' \in 0 .. MaxFaults
    BY <1>14, FaultType DEF Desk_fails
  <2> QED BY <1>14, <2>1, <2>2 DEF Desk_fails, TypeOK
<1> QED BY <1>8, <1>9, <1>10, <1>11, <1>12, <1>13, <1>14 DEF Process_robotconfig_cr

\* Robots and persons keep the types.
LEMMA OutsideType ==
    ASSUME TypeOK, NEW o \in Orders,
           \/ User_confirms(o) \/ User_requeues(o) \/ Robot_takes(o)
           \/ \E r \in Robots : Confirm_wht(o, r)
    PROVE  TypeOK'
<1>1. ewm \in [Orders -> EwmOrder] /\ crs \in [Orders -> OrderCR]
  BY DEF TypeOK
<1>2. CASE User_confirms(o)
  <2>1. [ewm EXCEPT ![o].task = [t \in Tasks |-> "done"]] \in [Orders -> EwmOrder]
    BY <1>1 DEF EwmOrder
  <2> QED BY <1>2, <2>1 DEF User_confirms, TypeOK
<1>3. CASE User_requeues(o)
  <2>1. [ewm EXCEPT ![o].queue = "robots"] \in [Orders -> EwmOrder]
    BY <1>1 DEF EwmOrder
  <2> QED BY <1>3, <2>1 DEF User_requeues, TypeOK
<1>4. CASE Robot_takes(o)
  <2>1. crs[o].robot \in Robots
    <3>1. PICK c \in Conf : c.rsrc = crs[o].robot
      BY <1>4 DEF Robot_takes, Next_confirmation
    <3> QED BY <3>1, ConfFields
  <2> QED BY <1>4, <2>1 DEF Robot_takes, TypeOK
<1>5. CASE \E r \in Robots : Confirm_wht(o, r)
  <2>1. PICK r \in Robots, c \in Conf :
          /\ crs' = [crs EXCEPT ![o].data = Append(@, c)]
          /\ \E over \in BOOLEAN : workers' = [workers EXCEPT ![o] = IF over THEN @ \ {r} ELSE @]
    BY <1>5, Zenon DEF Confirm_wht, Next_confirmation
  <2>2. Append(crs[o].data, c) \in Seq(Conf)
    BY <1>1 DEF OrderCR
  <2>3. crs' \in [Orders -> OrderCR]
    BY <1>1, <2>1, <2>2 DEF OrderCR
  <2>4. workers' \in [Orders -> SUBSET Robots]
    BY <2>1 DEF TypeOK
  <2> QED BY <1>5, <2>3, <2>4 DEF Confirm_wht, TypeOK
<1> QED BY <1>2, <1>3, <1>4, <1>5

\* A restart keeps the types.
LEMMA RestartType == ASSUME TypeOK, Restart PROVE TypeOK'
BY EmptyData, FaultType DEF Restart, TypeOK, NoRequest, Desk

\* Every step keeps the types, if the jobs are in order.
LEMMA TypeStep == ASSUME TypeOK, JobsOK, [Next]_vars PROVE TypeOK'
<1>1. CASE UNCHANGED vars
  BY <1>1 DEF vars, TypeOK
<1>2. CASE Restart
  BY <1>2, RestartType
<1> QED BY <1>1, <1>2, WatchType, CallbackType, OutsideType, DeskType DEF Next

-----------------------------------------------------------------------------
(* EWM: tasks only go forward, the log only grows, by confirmations in work.  *)

Later(o) ==
    /\ \A t \in Tasks : ewm[o].task[t] = "done" => ewm'[o].task[t] = "done"
    /\ \A t \in Tasks : ewm[o].task[t] = "first" => ewm'[o].task[t] \in {"first", "done"}
    /\ Front(ewm[o].log, ewm'[o].log)

Logged(o) ==
    \A k \in 1 .. Len(ewm'[o].log) :
        \/ k <= Len(ewm[o].log)
        \/ job[o].call = "book" /\ ewm'[o].log[k] = Current(o)

\* A step that logs nothing and only finishes tasks undoes nothing in EWM.
LEMMA SameLog ==
    ASSUME TypeOK, \A q \in Orders : ewm'[q].log = ewm[q].log,
           \A q \in Orders : ewm'[q].task = ewm[q].task
                             \/ ewm'[q].task = [t \in Tasks |-> "done"]
    PROVE  \A q \in Orders : Later(q) /\ Logged(q)
<1>1. ASSUME NEW q \in Orders PROVE Later(q) /\ Logged(q)
  <2>1. ewm[q].log \in Seq(Conf) /\ Len(ewm[q].log) \in Nat
    BY DEF TypeOK, EwmOrder
  <2>2. Front(ewm[q].log, ewm'[q].log) /\ Logged(q)
    BY <2>1 DEF Front, Logged
  <2>3. CASE ewm'[q].task = ewm[q].task
    BY <2>2, <2>3 DEF Later
  <2>4. CASE ewm'[q].task = [t \in Tasks |-> "done"]
    BY <2>2, <2>4 DEF Later
  <2> QED BY <2>2, <2>3, <2>4
<1> QED BY <1>1

\* EWM logs a confirmation only if it thereby settles it.
LEMMA BookedLater ==
    ASSUME TypeOK, NEW o \in Orders, NEW c \in Conf, ewm' = Booked(o, c)
    PROVE  /\ \A q \in Orders : Later(q)
           /\ \A q \in Orders \ {o} : ewm'[q] = ewm[q]
           /\ \A k \in 1 .. Len(ewm'[o].log) : k <= Len(ewm[o].log) \/ ewm'[o].log[k] = c
           /\ Settled(o, c)'
<1> DEFINE taken == [ewm EXCEPT ![o].log = Append(@, c)]
<1>1. ewm \in [Orders -> EwmOrder] /\ ewm[o].log \in Seq(Conf) /\ c.tanum \in Tasks
  BY ConfFields DEF TypeOK, EwmOrder
<1>2. CASE Already(o, c)
  <2>1. ewm' = ewm
    BY <1>2 DEF Booked, Is, Already
  <2> QED BY <1>1, <1>2, <2>1 DEF Later, Front, Settled, Already, EwmOrder
<1>3. CASE ~Already(o, c)
  <2>1. \/ ewm' = taken
        \/ Is(c, "FIRST", "SUCCESS") /\ ewm' = [taken EXCEPT ![o].task[c.tanum] = "first"]
        \/ ewm' = [taken EXCEPT ![o].task[c.tanum] = "done"]
        \/ ewm' = [taken EXCEPT ![o].queue = "errors", ![o].robot = None]
        \/ ewm' = [taken EXCEPT ![o].queue = "errors"]
    <3>1. CASE c.confirmationtype = "SUCCESS"
      BY <1>3, <3>1, ConfFields DEF Booked, Is
    <3>2. CASE c.confirmationtype = "ERROR"
      BY <1>3, <3>2, ConfFields DEF Booked, Is
    <3> QED BY <3>1, <3>2, ConfFields
  <2>2. /\ ewm'[o].log = Append(ewm[o].log, c)
        /\ \A q \in Orders \ {o} : ewm'[q] = ewm[q]
        /\ \/ ewm'[o].task = ewm[o].task
           \/ /\ Is(c, "FIRST", "SUCCESS")
              /\ ewm'[o].task = [ewm[o].task EXCEPT ![c.tanum] = "first"]
           \/ ewm'[o].task = [ewm[o].task EXCEPT ![c.tanum] = "done"]
    BY <1>1, <2>1 DEF EwmOrder
  <2>3. Is(c, "FIRST", "SUCCESS") => ewm[o].task[c.tanum] # "done"
    BY <1>3 DEF Already, Is
  <2>4. \A q \in Orders \ {o} : Later(q)
    BY <1>1, <2>2 DEF Later, Front, EwmOrder
  <2>5. Later(o)
    <3>1. Front(ewm[o].log, ewm'[o].log)
      BY <1>1, <2>2 DEF Front
    <3>2. ewm[o].task \in [Tasks -> {"open", "first", "done"}]
      BY <1>1 DEF EwmOrder
    <3> QED BY <1>1, <2>2, <2>3, <3>1, <3>2 DEF Later
  <2>6. Len(ewm[o].log) + 1 \in DOMAIN ewm'[o].log /\ ewm'[o].log[Len(ewm[o].log) + 1] = c
    BY <1>1, <2>2
  <2>7. Settled(o, c)'
    BY <2>6 DEF Settled
  <2>8. \A k \in 1 .. Len(ewm'[o].log) : k <= Len(ewm[o].log) \/ ewm'[o].log[k] = c
    BY <1>1, <2>2
  <2> QED BY <2>2, <2>4, <2>5, <2>7, <2>8
<1> QED BY <1>2, <1>3

\* A callback books a confirmation after those before it.
LEMMA BookedLogged ==
    ASSUME TypeOK, JobsOK, NEW o \in Orders, job[o].call = "book",
           ewm' = Booked(o, Current(o))
    PROVE  \A q \in Orders : Later(q) /\ Logged(q)
<1>1. Current(o) \in Conf
  BY CurrentType DEF Confirming, JobsOK, JobOK
<1>2. \A q \in Orders \ {o} : Logged(q)
  BY <1>1, BookedLater DEF Logged, TypeOK, EwmOrder
<1>3. Logged(o)
  BY <1>1, BookedLater DEF Logged
<1> QED BY <1>1, <1>2, <1>3, BookedLater

\* What any step may do to EWM: tasks only go forward, the log only grows in order.
LEMMA EwmStep ==
    ASSUME TypeOK, JobsOK, [Next]_vars
    PROVE  \A q \in Orders : Later(q) /\ Logged(q)
<1>1. ewm \in [Orders -> EwmOrder]
  BY DEF TypeOK
<1>2. CASE UNCHANGED ewm
  BY <1>2, SameLog
<1>3. ASSUME NEW o \in Orders, Confirm_warehousetask(o) \/ Abort(o), ewm' # ewm
      PROVE  \A q \in Orders : Later(q) /\ Logged(q)
  <2>1. CASE job[o].call = "book" /\ ewm' = Booked(o, Current(o))
    BY <2>1, BookedLogged
  <2>2. CASE ewm' = Rejected(o, Current(o))
    BY <2>2, RejectedQueue, SameLog
  <2> QED BY <1>3, <2>1, <2>2 DEF Confirm_warehousetask, Abort
<1>4. ASSUME NEW o \in Orders, User_confirms(o) \/ User_requeues(o)
      PROVE  \A q \in Orders : Later(q) /\ Logged(q)
  <2>1. CASE User_confirms(o)
    <3>1. ewm' = [ewm EXCEPT ![o].task = [t \in Tasks |-> "done"]]
      BY <2>1 DEF User_confirms
    <3>2. \A q \in Orders : ewm'[q].log = ewm[q].log
      BY <1>1, <3>1 DEF EwmOrder
    <3>3. \A q \in Orders : ewm'[q].task = ewm[q].task
                             \/ ewm'[q].task = [t \in Tasks |-> "done"]
      BY <1>1, <3>1 DEF EwmOrder
    <3> QED BY <3>2, <3>3, SameLog
  <2>2. CASE User_requeues(o)
    <3>1. ewm' = [ewm EXCEPT ![o].queue = "robots"]
      BY <2>2 DEF User_requeues
    <3>2. \A q \in Orders : ewm'[q].log = ewm[q].log /\ ewm'[q].task = ewm[q].task
      BY <1>1, <3>1 DEF EwmOrder
    <3> QED BY <3>2, SameLog
  <2> QED BY <1>4, <2>1, <2>2
<1>5. ASSUME NEW r \in Robots, NEW o \in Orders, ewm' = Assigned(o, r) \/ ewm' = Unassigned(o)
      PROVE  \A q \in Orders : Later(q) /\ Logged(q)
  <2>1. \E robot : ewm' = [ewm EXCEPT ![o].robot = robot]
    BY <1>1, <1>5 DEF Assigned, Unassigned
  <2>2. \A q \in Orders : ewm'[q].log = ewm[q].log /\ ewm'[q].task = ewm[q].task
    BY <1>1, <2>1 DEF EwmOrder
  <2> QED BY <2>2, SameLog
<1>6. ASSUME NEW r \in Robots, Process_robotconfig_cr(r)
      PROVE  \A q \in Orders : Later(q) /\ Logged(q)
  <2>1. UNCHANGED ewm \/ \E o \in Orders : ewm' = Assigned(o, r) \/ ewm' = Unassigned(o)
    <3>1. desk[r].whos \subseteq Orders /\ Offered(r) \subseteq Orders
      BY DEF TypeOK, Desk, Offered, Own, Queued
    <3> QED BY <1>6, <3>1 DEF Process_robotconfig_cr, Getnew_robot_who, Send_new_who,
              Unassign_robot_who, Clean_unassigned, Desk_fails
  <2> QED BY <1>2, <1>5, <2>1
<1>7. ASSUME NEW o \in Orders, Watch(o) \/ Reprocess(o) \/ Take(o) \/ Robot_takes(o)
                               \/ \E r \in Robots : Confirm_wht(o, r)
      PROVE  UNCHANGED ewm
  BY <1>7 DEF Watch, Reprocess, Take, Robot_takes, Confirm_wht
<1>8. ASSUME NEW o \in Orders, Process_who_cr(o), ~(Confirm_warehousetask(o) \/ Abort(o))
      PROVE  UNCHANGED ewm
  BY <1>8 DEF Process_who_cr, Read_open_tasks, Clean, Get_robot_whos, Send_robot_whos, Verify, Save
<1>9. ASSUME NEW r \in Robots, Request_work(r) \/ Unassign_whos(r) PROVE UNCHANGED ewm
  BY <1>9 DEF Request_work, Unassign_whos
<1>10. Restart \/ UNCHANGED vars => UNCHANGED ewm
  BY DEF Restart, vars
<1> QED BY <1>2, <1>3, <1>4, <1>6, <1>7, <1>8, <1>9, <1>10 DEF Next

-----------------------------------------------------------------------------
(* CRs: the robot appends to the data, the order manager saves what it has    *)
(* processed.                                                                 *)

Saved(q) ==
    \/ crs'[q].process_status = crs[q].process_status
    \/ job[q].call = "save" /\ crs'[q].process_status = Range(job[q].data)

Sends(q) ==
    \/ crs'[q].data = crs[q].data
    \/ /\ UNCHANGED ewm
       /\ \E r \in Robots : \E c \in Next_confirmation(q, r) :
            crs'[q].data = Append(crs[q].data, c)

\* An assignment and a clean-up write neither list of confirmations.
LEMMA Written ==
    ASSUME TypeOK, NEW o \in Orders, NEW r, Send_who_to_robot(o, r) \/ Cleanup_who(o)
    PROVE  \A q \in Orders : Saved(q) /\ Sends(q)
<1>1. crs \in [Orders -> OrderCR]
  BY DEF TypeOK
<1>2. CASE UNCHANGED crs
  BY <1>2 DEF Saved, Sends
<1>3. CASE crs' = [crs EXCEPT ![o].order_status = "RUNNING", ![o].robot = r]
  BY <1>1, <1>3 DEF Saved, Sends, OrderCR
<1>4. CASE crs' = [crs EXCEPT ![o].order_status = "PROCESSED"]
  BY <1>1, <1>4 DEF Saved, Sends, OrderCR
<1> QED BY <1>2, <1>3, <1>4 DEF Send_who_to_robot, Cleanup_who

\* What any step may do to a CR: data only grow, the process status is saved.
LEMMA CrsStep ==
    ASSUME TypeOK, [Next]_vars
    PROVE  \A q \in Orders : Saved(q) /\ Sends(q)
<1>1. crs \in [Orders -> OrderCR]
  BY DEF TypeOK
<1>2. CASE UNCHANGED crs
  BY <1>2 DEF Saved, Sends
<1>4. ASSUME NEW o \in Orders, Send_robot_whos(o)
      PROVE  \A q \in Orders : Saved(q) /\ Sends(q)
  BY <1>4, Written DEF Send_robot_whos
<1>5. ASSUME NEW o \in Orders, Clean(o)
      PROVE  \A q \in Orders : Saved(q) /\ Sends(q)
  BY <1>5, Written DEF Clean
<1>6. ASSUME NEW o \in Orders, Save(o)
      PROVE  \A q \in Orders : Saved(q) /\ Sends(q)
  <2>1. CASE crs' = [crs EXCEPT ![o].process_status = Range(job[o].data)]
    BY <1>1, <1>6, <2>1 DEF Save, Saved, Sends, OrderCR
  <2> QED BY <1>2, <1>6, <2>1 DEF Save, Save_processed_status
<1>7. ASSUME NEW o \in Orders, NEW r \in Robots, Confirm_wht(o, r)
      PROVE  \A q \in Orders : Saved(q) /\ Sends(q)
  <2>1. PICK c \in Next_confirmation(o, r) : crs' = [crs EXCEPT ![o].data = Append(@, c)]
    BY <1>7 DEF Confirm_wht
  <2>2. UNCHANGED ewm
    BY <1>7 DEF Confirm_wht
  <2> QED BY <1>1, <2>1, <2>2 DEF Saved, Sends, OrderCR
<1>8. ASSUME NEW r \in Robots, Send_new_who(r) \/ Clean_unassigned(r)
      PROVE  \A q \in Orders : Saved(q) /\ Sends(q)
  <2>1. desk[r].whos \subseteq Orders
    BY DEF TypeOK, Desk
  <2> QED BY <1>8, <2>1, Written DEF Send_new_who, Clean_unassigned
<1>9. ASSUME NEW o \in Orders, Watch(o) \/ Reprocess(o) \/ Take(o) \/ Robot_takes(o)
             \/ User_confirms(o) \/ User_requeues(o)
      PROVE  UNCHANGED crs
  BY <1>9 DEF Watch, Reprocess, Take, Robot_takes, User_confirms, User_requeues
<1>10. ASSUME NEW o \in Orders, Read_open_tasks(o) \/ Confirm_warehousetask(o)
              \/ Get_robot_whos(o) \/ Verify(o) \/ Abort(o)
       PROVE  UNCHANGED crs
  BY <1>10 DEF Read_open_tasks, Confirm_warehousetask, Get_robot_whos, Verify, Abort
<1>11. ASSUME NEW r \in Robots, Request_work(r) \/ Unassign_whos(r) \/ Getnew_robot_who(r)
              \/ Unassign_robot_who(r) \/ Desk_fails(r)
       PROVE  UNCHANGED crs
  BY <1>11 DEF Request_work, Unassign_whos, Getnew_robot_who, Unassign_robot_who, Desk_fails
<1>12. Restart \/ UNCHANGED vars => UNCHANGED crs
  BY DEF Restart, vars
<1> QED BY <1>2, <1>4, <1>5, <1>6, <1>7, <1>8, <1>9, <1>10, <1>11, <1>12
        DEF Next, Process_who_cr, Process_robotconfig_cr

-----------------------------------------------------------------------------
(* What is settled, or in order, stays so.                                    *)

\* Beginnings of sequences.
LEMMA FrontFacts ==
    /\ \A s \in Seq(Conf) : Front(s, s)
    /\ \A s, t, u \in Seq(Conf) : Front(s, t) /\ Front(t, u) => Front(s, u)
    /\ \A s \in Seq(Conf) : \A c \in Conf : Front(s, Append(s, c))
BY DEF Front

\* What is settled stays so.
LEMMA SettledStays ==
    ASSUME NEW o \in Orders, NEW c \in Conf, Later(o), TypeOK, TypeOK', Settled(o, c)
    PROVE  Settled(o, c)'
<1>1. c.tanum \in Tasks
  BY ConfFields
<1>2. ewm[o].log \in Seq(Conf) /\ ewm'[o].log \in Seq(Conf)
  BY DEF TypeOK, EwmOrder
<1>3. CASE \E k \in DOMAIN ewm[o].log : ewm[o].log[k] = c
  <2>1. PICK k \in 1 .. Len(ewm[o].log) : ewm[o].log[k] = c
    BY <1>2, <1>3
  <2>2. k \in DOMAIN ewm'[o].log /\ ewm'[o].log[k] = c
    BY <1>2, <2>1 DEF Later, Front
  <2> QED BY <2>2 DEF Settled
<1>4. CASE ewm[o].task[c.tanum] = "done" \/ Already(o, c)
  BY <1>1, <1>4 DEF Later, Settled, Already
<1> QED BY <1>3, <1>4 DEF Settled

\* Copies, and callbacks, that are in order stay so.
LEMMA Stays ==
    ASSUME TypeOK, TypeOK', NEW o \in Orders, Later(o), Sends(o)
    PROVE  /\ Front(crs[o].data, crs'[o].data)
           /\ \A copy \in OrderCR : CopyOK(o, copy) => CopyOK(o, copy)'
           /\ \A j \in Job : JobOK(o, j) => JobOK(o, j)'
<1>1. crs[o].data \in Seq(Conf) /\ crs'[o].data \in Seq(Conf)
  BY DEF TypeOK, OrderCR
<1>2. Front(crs[o].data, crs'[o].data)
  BY <1>1, FrontFacts DEF Sends, Next_confirmation
<1>3. \A c \in Conf : Settled(o, c) => Settled(o, c)'
  BY SettledStays
<1>4. ASSUME NEW copy \in OrderCR, CopyOK(o, copy) PROVE CopyOK(o, copy)'
  <2>1. copy.data \in Seq(Conf) /\ copy.process_status \subseteq Conf
    BY DEF OrderCR
  <2> QED BY <1>1, <1>2, <1>3, <1>4, <2>1, FrontFacts DEF CopyOK
<1>5. ASSUME NEW j \in Job, JobOK(o, j) PROVE JobOK(o, j)'
  <2>1. j.data \in Seq(Conf) /\ j.seen \subseteq Conf
    BY DEF Job
  <2>2. Front(j.data, crs'[o].data)
    BY <1>1, <1>2, <1>5, <2>1, FrontFacts DEF JobOK
  <2>3. \A i \in 1 .. Len(j.data) : Settled(o, j.data[i]) => Settled(o, j.data[i])'
    BY <1>3, <2>1
  <2> QED BY <1>3, <1>5, <2>1, <2>2, <2>3 DEF JobOK
<1> QED BY <1>2, <1>4, <1>5

-----------------------------------------------------------------------------
(* What is processed is settled.                                              *)

\* The steps of a callback: it ends, it goes on from a verification, it books,
\* or it goes on after a confirmation that is settled.
Passes(o) ==
    /\ job[o].call \in Confirming /\ job[o].at # 0
    /\ \E c \in Conf : c = Current(o) /\ Settled(o, c)'
    /\ Memorize(o) \/ Go(o, "clean") \/ Go(o, "whos") \/ Go(o, "send")

Moves(o) ==
    \/ job' = [job EXCEPT ![o] = Idle] /\ UNCHANGED memory
    \/ job[o].call = "verify" /\ Go(o, "clean")
    \/ /\ job[o].call = "read" /\ UNCHANGED memory
       /\ \E b \in BOOLEAN : job' = [job EXCEPT ![o].call = "book", ![o].last = b]
    \/ Passes(o)

\* A confirmation that is booked is settled when the callback goes on.
LEMMA ConfirmedPasses ==
    ASSUME NEW o \in Orders, job[o].call \in Confirming, job[o].at # 0,
           NEW c \in Conf, c = Current(o), Settled(o, c)', Confirmed(o, c)
    PROVE  Passes(o)
BY DEF Confirmed, Passes

\* What a callback may do to its job and its memory.
LEMMA CallbackMoves ==
    ASSUME TypeOK, TypeOK', JobsOK, NEW o \in Orders, Later(o), Process_who_cr(o)
    PROVE  Moves(o)
<1> DEFINE c == Current(o)
<1>1. job[o].call \in Confirming /\ job[o].at # 0 => c \in Conf
  BY CurrentType
<1>2. ASSUME job[o].call \in {"clean", "whos", "send"}, job[o].at # 0
      PROVE  \E d \in Conf : d = c /\ Settled(o, d)'
  <2>1. c \in Conf /\ Settled(o, c)
    BY <1>1, <1>2 DEF Confirming, JobsOK, JobOK, Current
  <2>2. PICK d \in Conf : d = c
    BY <2>1
  <2>3. Settled(o, d)'
    BY <2>1, <2>2, SettledStays
  <2> QED BY <2>2, <2>3
<1>3. CASE Read_open_tasks(o)
  <2>1. job[o].call \in Confirming /\ job[o].at # 0
    BY <1>3 DEF Read_open_tasks, Confirming, JobsOK, JobOK
  <2>2. CASE c.tanum \in OpenTasks(o)
    <3>1. \E b \in BOOLEAN : job' = [job EXCEPT ![o].call = "book", ![o].last = b]
      BY <1>3, <2>2, Zenon DEF Read_open_tasks
    <3> QED BY <1>3, <2>2, <3>1 DEF Read_open_tasks, Moves
  <2>3. CASE c.tanum \notin OpenTasks(o)
    <3>1. PICK d \in Conf : d = c
      BY <1>1, <2>1
    <3>2. Settled(o, d)'
      <4>1. Settled(o, d)
        BY <2>3, <3>1, ConfFields DEF OpenTasks, Settled
      <4> QED BY <4>1, SettledStays
    <3>3. Confirmed(o, d)
      BY <1>3, <2>3, <3>1 DEF Read_open_tasks
    <3> QED BY <2>1, <3>1, <3>2, <3>3, ConfirmedPasses DEF Moves
  <2> QED BY <2>2, <2>3
<1>4. CASE Confirm_warehousetask(o)
  <2>1. job[o].call \in Confirming /\ job[o].at # 0
    BY <1>4 DEF Confirm_warehousetask, Confirming, JobsOK, JobOK
  <2>2. PICK d \in Conf : d = c
    BY <1>1, <2>1
  <2>3. Settled(o, d)'
    BY <1>4, <2>2, BookedLater DEF Confirm_warehousetask
  <2>4. Go(o, "clean") \/ Confirmed(o, d)
    BY <1>4, <2>2 DEF Confirm_warehousetask
  <2> QED BY <2>1, <2>2, <2>3, <2>4, ConfirmedPasses DEF Moves, Passes
<1>5. CASE Clean(o)
  <2>1. CASE job[o].at = 0
    BY <1>5, <2>1 DEF Clean, Finish, Moves
  <2>2. CASE job[o].at # 0
    <3>1. PICK d \in Conf : d = c /\ Settled(o, d)'
      BY <1>2, <1>5, <2>2 DEF Clean
    <3>3. Confirmed(o, d) /\ job[o].call \in Confirming
      BY <1>5, <2>2, <3>1 DEF Clean, Confirming
    <3> QED BY <2>2, <3>1, <3>3, ConfirmedPasses DEF Moves
  <2> QED BY <2>1, <2>2
<1>6. CASE Get_robot_whos(o) \/ Send_robot_whos(o)
  <2>1. job[o].call \in {"whos", "send"} /\ job[o].call \in Confirming /\ job[o].at # 0
    BY <1>6 DEF Get_robot_whos, Send_robot_whos, Confirming, JobsOK, JobOK
  <2>2. PICK d \in Conf : d = c /\ Settled(o, d)'
    BY <1>2, <2>1
  <2> QED BY <1>6, <2>1, <2>2 DEF Get_robot_whos, Send_robot_whos, Moves, Passes
<1>7. CASE Verify(o)
  BY <1>7 DEF Verify, Finish, Moves
<1>8. CASE Save(o) \/ Abort(o)
  BY <1>8 DEF Save, Abort, Moves
<1> QED BY <1>3, <1>4, <1>5, <1>6, <1>7, <1>8 DEF Process_who_cr

\* Nothing else writes the memory or the jobs, but Take and Restart.
LEMMA OtherSteps ==
    ASSUME [Next]_vars
    PROVE  \/ \E o \in Orders : Process_who_cr(o) \/ Take(o)
           \/ Restart
           \/ UNCHANGED <<job, memory>>
<1>1. ASSUME NEW o \in Orders,
             Watch(o) \/ Reprocess(o) \/ User_confirms(o) \/ User_requeues(o)
                \/ Robot_takes(o) \/ \E r \in Robots : Confirm_wht(o, r)
      PROVE  UNCHANGED <<job, memory>>
  BY <1>1 DEF Watch, Reprocess, User_confirms, User_requeues, Robot_takes, Confirm_wht
<1>2. ASSUME NEW r \in Robots,
             Request_work(r) \/ Unassign_whos(r) \/ Process_robotconfig_cr(r)
      PROVE  UNCHANGED <<job, memory>>
  BY <1>2 DEF Request_work, Unassign_whos, Process_robotconfig_cr, Getnew_robot_who,
              Send_new_who, Unassign_robot_who, Clean_unassigned, Desk_fails
<1> QED BY <1>1, <1>2 DEF Next, vars

Remembered(q) == \A c \in memory'[q] : c \in memory[q] \/ Settled(q, c)'

\* The memory takes only what is settled.
LEMMA MemoryStep ==
    ASSUME TypeOK, TypeOK', JobsOK, \A q \in Orders : Later(q), [Next]_vars
    PROVE  \A q \in Orders : Remembered(q)
<1>1. memory \in [Orders -> SUBSET Conf]
  BY DEF TypeOK
<1>2. CASE UNCHANGED memory
  BY <1>2 DEF Remembered
<1>3. CASE Restart
  BY <1>3 DEF Restart, Remembered
<1>4. ASSUME NEW o \in Orders, Process_who_cr(o), ~UNCHANGED memory
      PROVE  \A q \in Orders : Remembered(q)
  <2>1. Memorize(o) /\ \E c \in Conf : c = Current(o) /\ Settled(o, c)'
    BY <1>4, CallbackMoves DEF Moves, Passes, Go
  <2>2. PICK c \in Conf : memory' = [memory EXCEPT ![o] = @ \union {c}] /\ Settled(o, c)'
    BY <2>1 DEF Memorize
  <2> QED BY <1>1, <2>2 DEF Remembered
<1>5. ASSUME NEW o \in Orders, Take(o) PROVE UNCHANGED memory
  BY <1>5 DEF Take
<1> QED BY <1>2, <1>3, <1>4, <1>5, OtherSteps

\* Only what is settled is saved or memorized.
LEMMA ProcessedStep ==
    ASSUME IInv, TypeOK', [Next]_vars
    PROVE  ProcessedIsBooked'
<1>1. \A q \in Orders : Later(q) /\ Saved(q) /\ Remembered(q)
  BY EwmStep, CrsStep, MemoryStep DEF IInv
<1>2. ASSUME NEW q \in Orders, NEW c \in crs'[q].process_status \union memory'[q]
      PROVE  Settled(q, c)'
  <2>1. c \in Conf
    BY DEF TypeOK, OrderCR
  <2>2. CASE c \in crs[q].process_status \union memory[q]
    BY <1>1, <2>1, <2>2, SettledStays DEF IInv, ProcessedIsBooked
  <2>3. CASE job[q].call = "save" /\ c \in Range(job[q].data)
    <3>1. job[q].data \in Seq(Conf)
      BY DEF IInv, TypeOK, Job
    <3>2. PICK i \in 1 .. Len(job[q].data) : c = job[q].data[i]
      BY <2>3, <3>1 DEF Range
    <3>3. Settled(q, c)
      BY <2>3, <3>2 DEF IInv, JobsOK, JobOK
    <3> QED BY <1>1, <2>1, <3>3, SettledStays DEF IInv
  <2> QED BY <1>1, <2>2, <2>3 DEF Saved, Remembered
<1> QED BY <1>2 DEF ProcessedIsBooked

\* Copies of the CR stay behind it.
LEMMA CopiesStep ==
    ASSUME IInv, TypeOK', [Next]_vars
    PROVE  CopiesOK'
<1>1. \A q \in Orders : Later(q) /\ Sends(q)
  BY EwmStep, CrsStep DEF IInv
<1>2. crs \in [Orders -> OrderCR] /\ cache \in [Orders -> OrderCR]
      /\ pending \in [Orders -> SUBSET OrderCR]
  BY DEF IInv, TypeOK
<1>3. ASSUME NEW q \in Orders PROVE CopyOK(q, crs[q])
  <2>1. crs[q].data \in Seq(Conf)
    BY <1>2 DEF OrderCR
  <2> QED BY <2>1, FrontFacts DEF CopyOK, IInv, ProcessedIsBooked
<1>4. \A q \in Orders : cache'[q] \in {cache[q], crs[q]}
                         /\ pending'[q] \subseteq pending[q] \union {cache[q], crs[q]}
  <2>1. CASE UNCHANGED <<cache, pending>>
    BY <2>1
  <2>2. CASE Restart
    BY <2>2 DEF Restart
  <2>3. ASSUME NEW o \in Orders, Watch(o) \/ Reprocess(o) \/ Take(o)
        PROVE  \A q \in Orders : cache'[q] \in {cache[q], crs[q]}
                  /\ pending'[q] \subseteq pending[q] \union {cache[q], crs[q]}
    <3>1. \A copy : Submit(o, copy) =>
            \A q \in Orders : pending'[q] \subseteq pending[q]
                              \/ (q = o /\ pending'[q] \subseteq pending[q] \union {copy})
      BY <1>2 DEF Submit
    <3>2. CASE Watch(o)
      <4>1. cache' = [cache EXCEPT ![o] = crs[o]]
        BY <3>2 DEF Watch
      <4>2. Submit(o, crs[o]) \/ UNCHANGED pending
        BY <3>2 DEF Watch
      <4> QED BY <1>2, <3>1, <4>1, <4>2
    <3>3. CASE Reprocess(o)
      BY <1>2, <3>1, <3>3 DEF Reprocess
    <3>4. CASE Take(o)
      <4>1. UNCHANGED cache /\ \E copy : pending' = [pending EXCEPT ![o] = @ \ {copy}]
        BY <3>4 DEF Take
      <4> QED BY <1>2, <4>1
    <3> QED BY <2>3, <3>2, <3>3, <3>4
  <2>4. ASSUME NEW o \in Orders,
               Process_who_cr(o) \/ User_confirms(o) \/ User_requeues(o)
                \/ Robot_takes(o) \/ \E r \in Robots : Confirm_wht(o, r)
        PROVE  UNCHANGED <<cache, pending>>
    BY <2>4 DEF Process_who_cr, Read_open_tasks, Confirm_warehousetask, Clean, Get_robot_whos,
          Send_robot_whos, Verify, Save, Abort, rest, User_confirms, User_requeues,
          Robot_takes, Confirm_wht
  <2>5. ASSUME NEW r \in Robots,
               Request_work(r) \/ Unassign_whos(r) \/ Process_robotconfig_cr(r)
        PROVE  UNCHANGED <<cache, pending>>
    BY <2>5 DEF Request_work, Unassign_whos, Process_robotconfig_cr, Getnew_robot_who,
                Send_new_who, Unassign_robot_who, Clean_unassigned, Desk_fails
  <2> QED BY <2>1, <2>2, <2>3, <2>4, <2>5 DEF Next, vars
<1>5. ASSUME NEW q \in Orders, NEW copy \in {cache'[q]} \union pending'[q]
      PROVE  CopyOK(q, copy)'
  <2>1. PICK old \in OrderCR : old = copy /\ CopyOK(q, old)
    BY <1>2, <1>3, <1>4 DEF IInv, CopiesOK
  <2>2. CopyOK(q, old)'
    BY <1>1, <2>1, Stays DEF IInv
  <2> QED BY <2>1, <2>2
<1>6. ASSUME NEW q \in Orders PROVE CopyOK(q, cache[q])' /\ \A copy \in pending'[q] : CopyOK(q, copy)'
  <2>1. PICK copy : copy = cache'[q]
    OBVIOUS
  <2>2. CopyOK(q, copy)'
    BY <1>5, <2>1
  <2> QED BY <1>5, <2>1, <2>2 DEF CopyOK
<1> QED BY <1>6 DEF CopiesOK

-----------------------------------------------------------------------------
(* A callback goes through the data.                                          *)

\* The search for the next confirmation leaves nothing unsettled behind.
LEMMA ContinueOK ==
    ASSUME TypeOK, TypeOK', NEW o \in Orders, NEW j \in Job, NEW k \in Nat \ {0},
           Front(j.data, crs'[o].data),
           \A c \in j.seen \union memory'[o] : Settled(o, c)',
           k <= Len(j.data) + 1,
           \A i \in 1 .. (k - 1) : Settled(o, j.data[i])',
           Continue(o, j, k)
    PROVE  /\ JobOK(o, job[o])'
           /\ \A q \in Orders \ {o} : job'[q] = job[q]
<1> DEFINE left == {i \in k .. Len(j.data) : j.data[i] \notin j.seen \union memory'[o]}
<1>1. job \in [Orders -> Job] /\ j.data \in Seq(Conf) /\ Len(j.data) \in Nat
  BY DEF TypeOK, Job
<1>2. \A i \in 1 .. Len(j.data) : i \notin left => Settled(o, j.data[i])'
  <2>1. ASSUME NEW i \in 1 .. Len(j.data), i \notin left PROVE Settled(o, j.data[i])'
    <3>1. CASE i <= k - 1
      BY <3>1
    <3>2. CASE i >= k
      <4>1. j.data[i] \in j.seen \union memory'[o]
        BY <1>1, <2>1, <3>2
      <4> QED BY <4>1
    <3> QED BY <1>1, <3>1, <3>2
  <2> QED BY <2>1
<1>3. CASE left = {} /\ job' = [job EXCEPT ![o] = [Idle EXCEPT !.call = "save", !.data = j.data]]
  <2>1. /\ job'[o].call = "save" /\ job'[o].data = j.data /\ job'[o].seen = {}
        /\ \A q \in Orders \ {o} : job'[q] = job[q]
    BY <1>1, <1>3 DEF Idle
  <2>2. \A i \in 1 .. Len(j.data) : Settled(o, j.data[i])'
    BY <1>2, <1>3
  <2> QED BY <2>1, <2>2 DEF JobOK, Confirming
<1>4. ASSUME NEW i \in left, \A n \in left : i <= n,
             job' = [job EXCEPT ![o] = [j EXCEPT !.call = "read", !.at = i, !.last = FALSE]]
      PROVE  /\ JobOK(o, job[o])'
             /\ \A q \in Orders \ {o} : job'[q] = job[q]
  <2>1. /\ job'[o].call = "read" /\ job'[o].data = j.data /\ job'[o].seen = j.seen
        /\ job'[o].at = i /\ \A q \in Orders \ {o} : job'[q] = job[q]
    BY <1>1, <1>4 DEF Job
  <2>2. i \in 1 .. Len(j.data)
    BY <1>1
  <2>3. \A n \in 1 .. (i - 1) : Settled(o, j.data[n])'
    <3>1. \A n \in 1 .. (i - 1) : n \in 1 .. Len(j.data) /\ n \notin left
      BY <1>1, <1>4, <2>2
    <3> QED BY <1>2, <3>1
  <2> QED BY <2>1, <2>2, <2>3 DEF JobOK, Confirming
<1> QED BY <1>3, <1>4 DEF Continue

\* A callback that no step of its order moves stays as it should be.
LEMMA SameJob ==
    ASSUME IInv, TypeOK', NEW q \in Orders, Later(q), Sends(q), job'[q] = job[q]
    PROVE  JobOK(q, job[q])'
<1>1. PICK j \in Job : j = job[q] /\ JobOK(q, j)
  BY DEF IInv, TypeOK, JobsOK
<1>2. JobOK(q, j)'
  BY <1>1, Stays DEF IInv
<1> QED BY <1>1, <1>2

\* A callback that ended owes nothing.
LEMMA IdleOK == ASSUME NEW q \in Orders, job'[q] = Idle, TypeOK' PROVE JobOK(q, job[q])'
<1>1. crs'[q].data \in Seq(Conf)
  BY DEF TypeOK, OrderCR
<1>2. Front(<<>>, crs'[q].data)
  BY <1>1 DEF Front
<1> QED BY <1>2 DEF JobOK, Idle, Confirming

\* A callback that goes on has settled what is behind it.
LEMMA PassesOK ==
    ASSUME IInv, TypeOK', ProcessedIsBooked', NEW o \in Orders, Later(o), Sends(o), Passes(o)
    PROVE  JobOK(o, job[o])' /\ \A q \in Orders \ {o} : job'[q] = job[q]
<1>1. job \in [Orders -> Job]
  BY DEF IInv, TypeOK
<1>2. PICK j \in Job : j = job[o] /\ JobOK(o, j)
  BY <1>1 DEF IInv, JobsOK
<1>3. JobOK(o, j)'
  BY <1>2, Stays DEF IInv
<1>4. j.data \in Seq(Conf) /\ Len(j.data) \in Nat /\ j.at \in 1 .. Len(j.data)
  BY <1>2 DEF Passes, JobOK, Job
<1>5. \A i \in 1 .. j.at : Settled(o, j.data[i])'
  <2>1. \A i \in 1 .. (j.at - 1) : Settled(o, j.data[i])'
    BY <1>2, <1>3 DEF Passes, JobOK
  <2>2. Settled(o, j.data[j.at])'
    <3>1. PICK c \in Conf : c = j.data[j.at] /\ Settled(o, c)'
      BY <1>2 DEF Passes, Current
    <3> QED BY <3>1
  <2>3. \A i \in 1 .. j.at : i \in 1 .. (j.at - 1) \/ i = j.at
    BY <1>4
  <2> QED BY <2>1, <2>2, <2>3
<1>6. CASE Memorize(o)
  <2>5. PICK k \in Nat \ {0} : k = j.at + 1
    BY <1>4
  <2>1. Continue(o, j, k) /\ k <= Len(j.data) + 1
    BY <1>2, <1>4, <1>6, <2>5 DEF Memorize
  <2>2. \A c \in j.seen \union memory'[o] : Settled(o, c)'
    BY <1>3 DEF JobOK, ProcessedIsBooked
  <2>3. \A i \in 1 .. (k - 1) : Settled(o, j.data[i])'
    BY <1>4, <1>5, <2>5
  <2>4. Front(j.data, crs'[o].data)
    BY <1>3 DEF JobOK
  <2> QED BY <2>1, <2>2, <2>3, <2>4, ContinueOK DEF IInv
<1>7. ASSUME NEW call \in {"clean", "whos", "send"}, Go(o, call)
      PROVE  JobOK(o, job[o])' /\ \A q \in Orders \ {o} : job'[q] = job[q]
  <2>1. /\ job'[o].call = call /\ job'[o].data = j.data /\ job'[o].seen = j.seen
        /\ job'[o].at = j.at /\ \A q \in Orders \ {o} : job'[q] = job[q]
    BY <1>1, <1>2, <1>7 DEF Go, Job
  <2> QED BY <1>3, <1>4, <1>5, <2>1 DEF JobOK, Confirming
<1> QED BY <1>6, <1>7 DEF Passes

\* Every callback has settled what is behind it after every step.
LEMMA JobsStep ==
    ASSUME IInv, TypeOK', ProcessedIsBooked', [Next]_vars
    PROVE  JobsOK'
<1>1. \A q \in Orders : Later(q) /\ Sends(q)
  BY EwmStep, CrsStep DEF IInv
<1>2. job \in [Orders -> Job] /\ pending \in [Orders -> SUBSET OrderCR]
  BY DEF IInv, TypeOK
<1>3. CASE UNCHANGED job
  BY <1>1, <1>3, SameJob DEF JobsOK
<1>4. CASE Restart
  BY <1>4, IdleOK DEF Restart, JobsOK
<1>5. ASSUME NEW o \in Orders, Process_who_cr(o)
      PROVE  JobOK(o, job[o])' /\ \A q \in Orders \ {o} : job'[q] = job[q]
  <2>1. Moves(o)
    BY <1>1, <1>5, CallbackMoves DEF IInv
  <2>2. CASE job' = [job EXCEPT ![o] = Idle]
    BY <1>2, <2>2, IdleOK
  <2>3. CASE Passes(o)
    BY <1>1, <2>3, PassesOK
  <2>4. PICK j \in Job : j = job[o] /\ JobOK(o, j)
    BY <1>2 DEF IInv, JobsOK
  <2>5. JobOK(o, j)'
    BY <1>1, <2>4, Stays DEF IInv
  <2>6. CASE job[o].call = "verify" /\ Go(o, "clean")
    <3>1. /\ job'[o].call = "clean" /\ job'[o].data = j.data /\ job'[o].seen = j.seen
          /\ job'[o].at = 0 /\ \A q \in Orders \ {o} : job'[q] = job[q]
      BY <1>2, <2>4, <2>6 DEF Go, Job, JobOK
    <3> QED BY <2>5, <3>1 DEF JobOK, Confirming
  <2>7. CASE job[o].call = "read"
             /\ \E b \in BOOLEAN : job' = [job EXCEPT ![o].call = "book", ![o].last = b]
    <3>1. /\ job'[o].call = "book" /\ job'[o].data = j.data /\ job'[o].seen = j.seen
          /\ job'[o].at = j.at /\ \A q \in Orders \ {o} : job'[q] = job[q]
      BY <1>2, <2>4, <2>7 DEF Job
    <3> QED BY <2>4, <2>5, <2>7, <3>1 DEF JobOK, Confirming
  <2> QED BY <2>1, <2>2, <2>3, <2>6, <2>7 DEF Moves
<1>6. ASSUME NEW o \in Orders, Take(o)
      PROVE  JobOK(o, job[o])' /\ \A q \in Orders \ {o} : job'[q] = job[q]
  <2>1. PICK copy \in pending[o] :
          LET j == [Idle EXCEPT !.data = copy.data, !.seen = copy.process_status] IN
          \/ job' = [job EXCEPT ![o] = [j EXCEPT !.call = "verify"]]
          \/ Continue(o, j, 1)
    BY <1>6 DEF Take
  <2> DEFINE j == [Idle EXCEPT !.data = copy.data, !.seen = copy.process_status]
  <2>2. copy \in OrderCR /\ copy.data \in Seq(Conf) /\ copy.process_status \in SUBSET Conf
    BY <1>2 DEF OrderCR
  <2>3. CopyOK(o, copy)'
    BY <1>1, <2>2, Stays DEF IInv, CopiesOK
  <2>4. /\ j \in Job /\ j.data = copy.data /\ j.seen = copy.process_status
        /\ j.call = "idle" /\ j.at = 0
    BY <2>2 DEF Idle, Job
  <2>5. CASE job' = [job EXCEPT ![o] = [j EXCEPT !.call = "verify"]]
    <3>1. /\ job'[o].call = "verify" /\ job'[o].data = copy.data
          /\ job'[o].seen = copy.process_status /\ job'[o].at = 0
          /\ \A q \in Orders \ {o} : job'[q] = job[q]
      BY <1>2, <2>4, <2>5 DEF Idle
    <3> QED BY <2>3, <3>1 DEF JobOK, CopyOK, Confirming
  <2>6. CASE Continue(o, j, 1)
    <3>1. PICK k \in Job : k = j
      BY <2>4
    <3>2. Front(k.data, crs'[o].data) /\ \A c \in k.seen : Settled(o, c)'
      BY <2>3, <2>4, <3>1 DEF CopyOK
    <3>3. \A c \in k.seen \union memory'[o] : Settled(o, c)'
      BY <3>2 DEF ProcessedIsBooked
    <3>4. 1 <= Len(k.data) + 1
      BY <2>2, <2>4, <3>1
    <3>5. Continue(o, k, 1)
      BY <2>6, <3>1
    <3> QED BY <3>2, <3>3, <3>4, <3>5, ContinueOK DEF IInv
  <2> QED BY <2>1, <2>5, <2>6
<1>7. ASSUME NEW o \in Orders, Process_who_cr(o) \/ Take(o) PROVE JobsOK'
  <2>1. ASSUME NEW q \in Orders \ {o} PROVE JobOK(q, job[q])'
    BY <1>1, <1>5, <1>6, <1>7, SameJob
  <2> QED BY <1>5, <1>6, <1>7, <2>1 DEF JobsOK
<1> QED BY <1>3, <1>4, <1>7, OtherSteps

-----------------------------------------------------------------------------
(* The data and the log.                                                      *)

\* A robot sends nothing twice.
LEMMA NewConf ==
    ASSUME NEW o \in Orders, NEW r \in Robots, NEW c \in Next_confirmation(o, r)
    PROVE  c \notin Range(crs[o].data)
<1>1. SUFFICES ASSUME c \in Range(crs[o].data) PROVE FALSE
  OBVIOUS
<1>2. c \in Conf /\ c.rsrc = r /\ ~Over(o, r, c.tanum, c.confirmationnumber)
  BY DEF Next_confirmation
<1>3. Has(o, r, c.tanum, c.confirmationnumber, c.confirmationtype)
  BY <1>1, <1>2 DEF Has, Sent, Is
<1> QED BY <1>2, <1>3, ConfFields DEF Over

\* No confirmation gets twice into a CR.
LEMMA DistinctStep ==
    ASSUME TypeOK, DataOK, NEW o \in Orders, Sends(o)
    PROVE  \A i, k \in 1 .. Len(crs'[o].data) : crs'[o].data[i] = crs'[o].data[k] => i = k
<1>1. crs[o].data \in Seq(Conf)
  BY DEF TypeOK, OrderCR
<1>2. CASE crs'[o].data = crs[o].data
  BY <1>2 DEF DataOK
<1>3. ASSUME NEW r \in Robots, NEW c \in Next_confirmation(o, r),
             crs'[o].data = Append(crs[o].data, c)
      PROVE  \A i, k \in 1 .. Len(crs'[o].data) : crs'[o].data[i] = crs'[o].data[k] => i = k
  <2>1. \A i \in 1 .. Len(crs[o].data) : crs[o].data[i] # c
    BY <1>1, NewConf DEF Range
  <2>2. c \in Conf
    BY DEF Next_confirmation
  <2> QED BY <1>1, <1>3, <2>1, <2>2 DEF DataOK
<1> QED BY <1>2, <1>3 DEF Sends

\* Where what EWM has logged is in the data, and that all before it is settled.
LEMMA LogStep ==
    ASSUME IInv, TypeOK', [Next]_vars, NEW o \in Orders, Later(o), Logged(o), Sends(o),
           NEW n \in 1 .. Len(ewm'[o].log)
    PROVE  \E m \in 1 .. Len(crs'[o].data) :
             /\ ewm'[o].log[n] = crs'[o].data[m]
             /\ \A i \in 1 .. (m - 1) : \A c \in Conf :
                  c = crs'[o].data[i] => Settled(o, c)'
<1>1. crs[o].data \in Seq(Conf) /\ crs'[o].data \in Seq(Conf) /\ ewm[o].log \in Seq(Conf)
      /\ ewm'[o].log \in Seq(Conf) /\ job[o].data \in Seq(Conf)
  BY DEF IInv, TypeOK, OrderCR, EwmOrder, Job
<1>2. Front(crs[o].data, crs'[o].data)
  BY Stays DEF IInv
<1>3. SUFFICES \E m \in 1 .. Len(crs[o].data) :
                 /\ ewm'[o].log[n] = crs[o].data[m]
                 /\ \A i \in 1 .. (m - 1) : Settled(o, crs[o].data[i])
  <2>1. PICK m \in 1 .. Len(crs[o].data) :
                 /\ ewm'[o].log[n] = crs[o].data[m]
                 /\ \A i \in 1 .. (m - 1) : Settled(o, crs[o].data[i])
    BY <1>3
  <2>2. m \in 1 .. Len(crs'[o].data) /\ crs'[o].data[m] = crs[o].data[m]
    BY <1>1, <1>2 DEF Front
  <2>3. ASSUME NEW i \in 1 .. (m - 1), NEW c \in Conf, c = crs'[o].data[i]
        PROVE  Settled(o, c)'
    <3>1. crs'[o].data[i] = crs[o].data[i]
      BY <1>1, <1>2 DEF Front
    <3> QED BY <2>1, <2>3, <3>1, SettledStays DEF IInv
  <2> QED BY <2>1, <2>2, <2>3
<1>4. CASE n <= Len(ewm[o].log)
  <2>1. n \in 1 .. Len(ewm[o].log) /\ n \in DOMAIN ewm[o].log /\ ewm'[o].log[n] = ewm[o].log[n]
    BY <1>1, <1>4 DEF Later, Front
  <2>2. PICK m \in 1 .. Len(crs[o].data) : ewm[o].log[n] = crs[o].data[m]
    BY <2>1 DEF IInv, DataOK
  <2>3. m \in DOMAIN crs[o].data
    BY <1>1
  <2>4. \A i \in 1 .. (m - 1) : Settled(o, crs[o].data[i])
    BY <2>1, <2>2, <2>3 DEF IInv, BookedInSequence
  <2> QED BY <2>1, <2>2, <2>4
<1>5. CASE job[o].call = "book" /\ ewm'[o].log[n] = Current(o)
  <2>1. /\ job[o].at \in 1 .. Len(job[o].data) /\ Front(job[o].data, crs[o].data)
        /\ \A i \in 1 .. (job[o].at - 1) : Settled(o, job[o].data[i])
    BY <1>5 DEF IInv, JobsOK, JobOK, Confirming
  <2>2. job[o].at \in 1 .. Len(crs[o].data) /\ crs[o].data[job[o].at] = Current(o)
    BY <1>1, <2>1 DEF Front, Current
  <2>3. \A i \in 1 .. (job[o].at - 1) : crs[o].data[i] = job[o].data[i]
    BY <1>1, <2>1 DEF Front
  <2> QED BY <1>5, <2>1, <2>2, <2>3
<1> QED BY <1>4, <1>5 DEF Logged

\* EWM logs only what the CR has, in sequence.
LEMMA DataStep ==
    ASSUME IInv, TypeOK', [Next]_vars
    PROVE  DataOK' /\ BookedInSequence'
<1>1. \A o \in Orders : Later(o) /\ Logged(o) /\ Sends(o)
  BY EwmStep, CrsStep DEF IInv
<1>2. DataOK'
  BY <1>1, DistinctStep, LogStep DEF DataOK, IInv
<1>3. ASSUME NEW o \in Orders, NEW k \in DOMAIN crs'[o].data, NEW i \in 1 .. (k - 1),
             NEW n \in DOMAIN ewm'[o].log, ewm'[o].log[n] = crs'[o].data[k]
      PROVE  Settled(o, crs[o].data[i])'
  <2>1. crs'[o].data \in Seq(Conf) /\ ewm'[o].log \in Seq(Conf)
    BY DEF TypeOK, OrderCR, EwmOrder
  <2>2. PICK m \in 1 .. Len(crs'[o].data) :
          /\ ewm'[o].log[n] = crs'[o].data[m]
          /\ \A h \in 1 .. (m - 1) : \A c \in Conf : c = crs'[o].data[h] => Settled(o, c)'
    <3>1. n \in 1 .. Len(ewm'[o].log)
      BY <2>1
    <3> QED BY <1>1, <3>1, LogStep
  <2>3. k \in 1 .. Len(crs'[o].data) /\ k = m
    <3>1. k \in 1 .. Len(crs'[o].data)
      BY <2>1
    <3>2. crs'[o].data[k] = crs'[o].data[m]
      BY <1>3, <2>2
    <3>3. \A h, l \in 1 .. Len(crs'[o].data) : crs'[o].data[h] = crs'[o].data[l] => h = l
      BY <1>2 DEF DataOK
    <3> QED BY <3>1, <3>2, <3>3
  <2>4. PICK c \in Conf : c = crs'[o].data[i]
    BY <2>1, <2>3
  <2>5. Settled(o, c)'
    BY <2>2, <2>3, <2>4
  <2> QED BY <2>4, <2>5 DEF Settled, Already
<1> QED BY <1>2, <1>3 DEF BookedInSequence

-----------------------------------------------------------------------------
(* The results                                                                *)

\* IInv holds at the start.
LEMMA InitOK == Init => IInv
<1> SUFFICES ASSUME Init PROVE IInv
  OBVIOUS
<1>1. TypeOK
  <2>1. \A o \in Orders : ewm[o] \in EwmOrder
    BY EmptyData DEF Init, EwmOrder
  <2> QED BY <2>1, EmptyData, FulfilmentAssumption DEF Init, TypeOK, NoRequest, Desk
<1>2. \A o \in Orders : /\ crs[o] = NoCR /\ cache[o] = NoCR /\ pending[o] = {}
                        /\ job[o] = Idle /\ memory[o] = {} /\ ewm[o].log = <<>>
  BY DEF Init
<1>3. ProcessedIsBooked /\ DataOK /\ BookedInSequence
  BY <1>2 DEF ProcessedIsBooked, DataOK, BookedInSequence, NoCR
<1>4. CopiesOK /\ JobsOK
  BY <1>2 DEF CopiesOK, CopyOK, JobsOK, JobOK, Confirming, Front, NoCR, Idle
<1> QED BY <1>1, <1>3, <1>4 DEF IInv

\* The invariant is inductive.
THEOREM FulfilmentInductive == (Init => IInv) /\ (IInv /\ [Next]_vars => IInv')
<1>1. ASSUME IInv, [Next]_vars PROVE IInv'
  <2>1. TypeOK'
    BY <1>1, TypeStep DEF IInv
  <2>2. ProcessedIsBooked'
    BY <1>1, <2>1, ProcessedStep
  <2> QED BY <1>1, <2>1, <2>2, CopiesStep, JobsStep, DataStep DEF IInv
<1> QED BY <1>1, InitOK

\* IInv holds in every state reached.
LEMMA AlwaysIInv == Spec => []IInv
BY FulfilmentInductive, PTL DEF Spec

\* Every state of the order manager, EWM and the CRs has its type.
THEOREM FulfilmentTypeCorrect == Spec => []TypeOK
<1>1. IInv => TypeOK
  BY DEF IInv
<1> QED BY <1>1, AlwaysIInv, PTL

\* No confirmation that is saved as processed, or memorized, is one EWM has not
\* settled: not after failed calls, lost answers or restarts.
THEOREM NothingForgotten == Spec => []ProcessedIsBooked
<1>1. IInv => ProcessedIsBooked
  BY DEF IInv
<1> QED BY <1>1, AlwaysIInv, PTL

\* EWM gets the confirmations of an order in the sequence the robots sent them.
THEOREM SequenceKept == Spec => []BookedInSequence
<1>1. IInv => BookedInSequence
  BY DEF IInv
<1> QED BY <1>1, AlwaysIInv, PTL

-----------------------------------------------------------------------------
(* Errors.  A callback books an error only if it is not memorized, and then   *)
(* memorizes it or fails: each fault allows one repetition.                   *)

Count(s, c) == Cardinality({k \in DOMAIN s : s[k] = c})

\* The order manager knows of c that it is booked.
Marked(o, c) ==
    \/ c \in memory[o]
    \/ job[o].call = "clean" /\ job[o].at # 0 /\ Current(o) = c

OnceOK(o) ==
    /\ job[o].call \in {"read", "book"} => Current(o) \notin memory[o]
    /\ \A c \in Conf : c.confirmationtype = "ERROR" =>
         /\ Count(ewm[o].log, c) <= 1 + faults
         /\ ~Marked(o, c) => Count(ewm[o].log, c) <= faults

\* How often a sequence has an element, and with one more.
LEMMA CountType == ASSUME NEW s \in Seq(Conf), NEW c PROVE Count(s, c) \in Nat
<1>1. IsFiniteSet(DOMAIN s)
  BY FS_Interval
<1>2. {k \in DOMAIN s : s[k] = c} \in SUBSET DOMAIN s
  OBVIOUS
<1> QED BY <1>1, <1>2, FS_Subset, FS_CardinalityType DEF Count

\* One more element counts once.
LEMMA CountAppend ==
    ASSUME NEW s \in Seq(Conf), NEW d \in Conf, NEW c
    PROVE  Count(Append(s, d), c) = IF c = d THEN Count(s, c) + 1 ELSE Count(s, c)
<1> DEFINE At(q) == {k \in DOMAIN q : q[k] = c}
<1>1. IsFiniteSet(DOMAIN s) /\ Len(s) \in Nat /\ DOMAIN s = 1 .. Len(s)
  BY FS_Interval
<1>2. IsFiniteSet(At(s))
  BY <1>1, FS_Subset
<1>3. At(Append(s, d)) = IF c = d THEN At(s) \cup {Len(s) + 1} ELSE At(s)
  <2>1. DOMAIN Append(s, d) = 1 .. (Len(s) + 1)
    OBVIOUS
  <2>2. \A k \in 1 .. Len(s) : Append(s, d)[k] = s[k]
    OBVIOUS
  <2>3. Append(s, d)[Len(s) + 1] = d
    OBVIOUS
  <2>4. 1 .. (Len(s) + 1) = (1 .. Len(s)) \cup {Len(s) + 1}
    BY <1>1
  <2> QED BY <1>1, <2>1, <2>2, <2>3, <2>4
<1>4. Len(s) + 1 \notin At(s)
  BY <1>1
<1>5. /\ c = d => Cardinality(At(Append(s, d))) = Cardinality(At(s)) + 1
      /\ c # d => Cardinality(At(Append(s, d))) = Cardinality(At(s))
  BY <1>2, <1>3, <1>4, FS_AddElement
<1> QED BY <1>5 DEF Count

\* A step that books nothing and forgets nothing, unless by a fault.
LEMMA NotBooked ==
    ASSUME NEW q \in Orders, TypeOK, OnceOK(q), ewm'[q].log = ewm[q].log,
           faults' \in {faults, faults + 1},
           job'[q].call \in {"read", "book"} => Current(q)' \notin memory'[q],
           \A c \in Conf : Marked(q, c) /\ c.confirmationtype = "ERROR"
                           => Marked(q, c)' \/ faults' = faults + 1
    PROVE  OnceOK(q)'
<1>1. ASSUME NEW c \in Conf, c.confirmationtype = "ERROR"
      PROVE  /\ Count(ewm'[q].log, c) <= 1 + faults'
             /\ ~Marked(q, c)' => Count(ewm'[q].log, c) <= faults'
  <2>1. PICK n \in Nat : n = Count(ewm[q].log, c)
    BY CountType DEF TypeOK, EwmOrder
  <2>2. faults \in Int
    BY FulfilmentAssumption DEF TypeOK
  <2>3. n <= 1 + faults /\ (~Marked(q, c) => n <= faults)
    BY <1>1, <2>1 DEF OnceOK
  <2>4. n <= 1 + faults'
    BY <2>2, <2>3
  <2>5. ASSUME ~Marked(q, c)' PROVE n <= faults'
    <3>1. CASE Marked(q, c)
      BY <1>1, <2>2, <2>3, <2>5, <3>1
    <3>2. CASE ~Marked(q, c)
      BY <2>2, <2>3, <3>2
    <3> QED BY <3>1, <3>2
  <2> QED BY <2>1, <2>4, <2>5
<1> QED BY <1>1 DEF OnceOK

\* A callback that books the confirmation in work, and memorizes it or fails.
LEMMA BookedOnce ==
    ASSUME NEW q \in Orders, TypeOK, OnceOK(q), NEW d \in Conf, d = Current(q),
           job[q].call = "book", ewm'[q].log = Append(ewm[q].log, d),
           faults' \in {faults, faults + 1}, memory[q] \subseteq memory'[q],
           job'[q].call \in {"read", "book"} => Current(q)' \notin memory'[q],
           d.confirmationtype = "ERROR" => Marked(q, d)' \/ faults' = faults + 1
    PROVE  OnceOK(q)'
<1>1. ASSUME NEW c \in Conf, c.confirmationtype = "ERROR"
      PROVE  /\ Count(ewm'[q].log, c) <= 1 + faults'
             /\ ~Marked(q, c)' => Count(ewm'[q].log, c) <= faults'
  <2>1. PICK n \in Nat : n = Count(ewm[q].log, c)
    BY CountType DEF TypeOK, EwmOrder
  <2>2. PICK f \in Int, g \in Int : f = faults /\ g = faults' /\ g \in {f, f + 1}
    <3>1. faults \in Int
      BY FulfilmentAssumption DEF TypeOK
    <3> QED BY <3>1
  <2>3. n <= 1 + f /\ (~Marked(q, c) => n <= f)
    BY <1>1, <2>1, <2>2 DEF OnceOK
  <2>4. Count(ewm'[q].log, c) = IF c = d THEN n + 1 ELSE n
    BY <2>1, CountAppend DEF TypeOK, EwmOrder
  <2>5. Marked(q, c) <=> c \in memory[q]
    BY DEF Marked
  <2>6. PICK m \in Nat : m = Count(ewm'[q].log, c)
    BY <2>4
  <2>7. CASE c = d
    <3>1. n <= f /\ m = n + 1
      BY <2>3, <2>4, <2>5, <2>6, <2>7 DEF OnceOK
    <3>2. g = f \/ g = f + 1
      BY <2>2
    <3>3. m <= 1 + g
      BY <3>1, <3>2
    <3>4. ASSUME ~Marked(q, c)' PROVE m <= g
      <4>1. g = f + 1
        BY <1>1, <2>2, <2>7, <3>4
      <4> QED BY <3>1, <4>1
    <3> QED BY <2>2, <2>6, <3>3, <3>4
  <2>8. CASE c # d
    <3>1. m = n
      BY <2>4, <2>6, <2>8
    <3>2. g = f \/ g = f + 1
      BY <2>2
    <3>3. m <= 1 + g
      BY <2>3, <3>1, <3>2
    <3>4. ASSUME ~Marked(q, c)' PROVE m <= g
      <4>1. ~Marked(q, c)
        BY <2>5, <3>4 DEF Marked
      <4> QED BY <2>3, <3>1, <3>2, <4>1
    <3> QED BY <2>2, <2>6, <3>3, <3>4
  <2> QED BY <2>7, <2>8
<1> QED BY <1>1 DEF OnceOK

\* A callback goes on with a confirmation that is not memorized.
Unread(q) == job'[q].call \in {"read", "book"} => Current(q)' \notin memory'[q]

\* The search for the next confirmation skips what is memorized.
LEMMA ContinueUnread ==
    ASSUME TypeOK, NEW q \in Orders, NEW j \in Job, NEW k \in Nat, Continue(q, j, k)
    PROVE  Unread(q) /\ \A p \in Orders \ {q} : job'[p] = job[p]
<1>1. job \in [Orders -> Job] /\ Len(j.data) \in Nat
  BY DEF TypeOK, Job
<1>2. CASE job' = [job EXCEPT ![q] = [Idle EXCEPT !.call = "save", !.data = j.data]]
  BY <1>1, <1>2 DEF Unread, Idle
<1>3. ASSUME NEW i \in k .. Len(j.data), j.data[i] \notin j.seen \union memory'[q],
             job' = [job EXCEPT ![q] = [j EXCEPT !.call = "read", !.at = i, !.last = FALSE]]
      PROVE  Unread(q) /\ \A p \in Orders \ {q} : job'[p] = job[p]
  <2>1. job'[q].data = j.data /\ job'[q].at = i /\ \A p \in Orders \ {q} : job'[p] = job[p]
    BY <1>1, <1>3 DEF Job
  <2> QED BY <1>3, <2>1 DEF Unread, Current
<1> QED BY <1>2, <1>3 DEF Continue

\* What a callback does with the confirmation in work once it is confirmed.
LEMMA MemorizeUnread ==
    ASSUME TypeOK, JobsOK, NEW q \in Orders, job[q].call \in Confirming, job[q].at # 0,
           Memorize(q)
    PROVE  /\ Unread(q) /\ memory'[q] = memory[q] \union {Current(q)}
           /\ \A p \in Orders \ {q} : job'[p] = job[p] /\ memory'[p] = memory[p]
<1>1. PICK j \in Job : j = job[q]
  BY DEF TypeOK
<1>2. PICK k \in Nat : k = job[q].at + 1
  BY CurrentType
<1>3. memory \in [Orders -> SUBSET Conf]
  BY DEF TypeOK
<1> QED BY <1>1, <1>2, <1>3, ContinueUnread DEF Memorize

\* Going on to the calls after the booking keeps the confirmation in work.
LEMMA GoUnread ==
    ASSUME TypeOK, NEW q \in Orders, NEW call \in {"clean", "whos", "send"}, Go(q, call)
    PROVE  /\ Unread(q) /\ memory' = memory /\ Current(q)' = Current(q)
           /\ job'[q].call = call /\ job'[q].at = job[q].at
           /\ \A p \in Orders \ {q} : job'[p] = job[p]
BY DEF Go, TypeOK, Job, Unread, Current

\* An error that is confirmed is memorized at once.
LEMMA ConfirmedUnread ==
    ASSUME TypeOK, JobsOK, NEW q \in Orders, job[q].call \in Confirming, job[q].at # 0,
           NEW c \in Conf, c = Current(q), Confirmed(q, c)
    PROVE  /\ Unread(q) /\ memory[q] \subseteq memory'[q]
           /\ c.confirmationtype = "ERROR" => c \in memory'[q]
           /\ \A p \in Orders \ {q} : job'[p] = job[p] /\ memory'[p] = memory[p]
<1>1. CASE Is(c, "FIRST", "SUCCESS") /\ Go(q, "whos")
  BY <1>1, GoUnread DEF Is
<1>2. CASE Memorize(q)
  BY <1>2, MemorizeUnread
<1> QED BY <1>1, <1>2 DEF Confirmed

\* A callback that ends leaves the memory alone.
LEMMA FinishUnread ==
    ASSUME TypeOK, NEW q \in Orders, Finish(q)
    PROVE  Unread(q) /\ memory' = memory /\ \A p \in Orders \ {q} : job'[p] = job[p]
BY DEF Finish, TypeOK, Unread, Idle

\* EWM books a confirmation at most once when it is asked to.
LogBooked(q, c) ==
    /\ ewm'[q].log = ewm[q].log \/ ewm'[q].log = Append(ewm[q].log, c)
    /\ \A p \in Orders \ {q} : ewm'[p].log = ewm[p].log

\* Booking adds to the log of its order only.
LEMMA BookedLog ==
    ASSUME TypeOK, NEW q \in Orders, NEW c \in Conf, ewm' = Booked(q, c)
    PROVE  LogBooked(q, c)
<1> DEFINE taken == [ewm EXCEPT ![q].log = Append(@, c)]
<1>1. ewm \in [Orders -> EwmOrder]
  BY DEF TypeOK
<1>2. \/ ewm' = ewm
      \/ ewm' = taken
      \/ ewm' = [taken EXCEPT ![q].task[c.tanum] = "first"]
      \/ ewm' = [taken EXCEPT ![q].task[c.tanum] = "done"]
      \/ ewm' = [taken EXCEPT ![q].queue = "errors", ![q].robot = None]
      \/ ewm' = [taken EXCEPT ![q].queue = "errors"]
  <2>1. CASE Already(q, c)
    BY <2>1 DEF Booked
  <2>2. CASE ~Already(q, c) /\ c.confirmationtype = "SUCCESS"
    BY <2>2, ConfFields DEF Booked, Is
  <2>3. CASE ~Already(q, c) /\ c.confirmationtype = "ERROR"
    BY <2>3, ConfFields DEF Booked, Is
  <2> QED BY <2>1, <2>2, <2>3, ConfFields
<1> QED BY <1>1, <1>2 DEF LogBooked, EwmOrder

\* A step of a callback of q.
OnceMoves(q) ==
    /\ Unread(q)
    /\ \A p \in Orders \ {q} : /\ job'[p] = job[p] /\ memory'[p] = memory[p]
                               /\ ewm'[p].log = ewm[p].log
    /\ faults' \in {faults, faults + 1}

\* A callback keeps the count of the errors of its order.
LEMMA CallbackOnce ==
    ASSUME TypeOK, JobsOK, NEW q \in Orders, OnceOK(q), Process_who_cr(q)
    PROVE  OnceOK(q)' /\ OnceMoves(q)
<1>1. \A call \in {"read", "book", "whos", "send"} :
        job[q].call = call => job[q].call \in Confirming /\ job[q].at # 0
  BY DEF JobsOK, JobOK, Confirming
<1>2. job[q].call \in Confirming /\ job[q].at # 0 => Current(q) \in Conf
  BY CurrentType
<1>3. job[q].call # "clean" => \A c : Marked(q, c) <=> c \in memory[q]
  BY DEF Marked
<1>4. \A c : c \in memory'[q] => Marked(q, c)'
  BY DEF Marked
<1>5. CASE Read_open_tasks(q)
  <2>1. UNCHANGED <<ewm, faults>> /\ job[q].call = "read"
    BY <1>5 DEF Read_open_tasks
  <2>2. PICK c \in Conf : c = Current(q)
    BY <1>1, <1>2, <2>1
  <2>3. CASE c.tanum \in OpenTasks(q)
    <3>1. UNCHANGED memory /\ \E b \in BOOLEAN : job' = [job EXCEPT ![q].call = "book", ![q].last = b]
      BY <1>5, <2>2, <2>3, Zenon DEF Read_open_tasks
    <3>2. /\ Current(q)' = Current(q) /\ \A p \in Orders \ {q} : job'[p] = job[p]
      BY <3>1 DEF TypeOK, Job, Current
    <3>3. Current(q) \notin memory[q]
      BY <2>1 DEF OnceOK
    <3>4. OnceMoves(q)
      BY <2>1, <3>1, <3>2, <3>3 DEF OnceMoves, Unread
    <3> QED BY <1>3, <1>4, <2>1, <3>1, <3>4, NotBooked DEF OnceMoves, Unread
  <2>4. CASE Confirmed(q, c)
    <3>1. /\ Unread(q) /\ memory[q] \subseteq memory'[q]
          /\ \A p \in Orders \ {q} : job'[p] = job[p] /\ memory'[p] = memory[p]
      BY <1>1, <2>1, <2>2, <2>4, ConfirmedUnread
    <3> QED BY <1>3, <1>4, <2>1, <3>1, NotBooked DEF OnceMoves, Unread
  <2> QED BY <1>5, <2>2, <2>3, <2>4 DEF Read_open_tasks
<1>6. CASE Confirm_warehousetask(q)
  <2>1. UNCHANGED faults /\ job[q].call = "book"
    BY <1>6 DEF Confirm_warehousetask
  <2>2. PICK c \in Conf : c = Current(q)
    BY <1>1, <1>2, <2>1
  <2>3. /\ ewm' = Booked(q, c)
        /\ Go(q, "clean") \/ Confirmed(q, c)
    BY <1>6, <2>2 DEF Confirm_warehousetask
  <2>4. /\ Unread(q) /\ memory[q] \subseteq memory'[q]
        /\ c.confirmationtype = "ERROR" => Marked(q, c)'
        /\ \A p \in Orders \ {q} : job'[p] = job[p] /\ memory'[p] = memory[p]
    <3>1. CASE Go(q, "clean")
      BY <1>1, <2>1, <2>2, <3>1, GoUnread DEF Marked
    <3>2. CASE Confirmed(q, c)
      BY <1>1, <1>4, <2>1, <2>2, <3>2, ConfirmedUnread
    <3> QED BY <2>3, <3>1, <3>2
  <2>5. LogBooked(q, c)
    BY <2>3, BookedLog
  <2>6. OnceMoves(q)
    BY <2>1, <2>4, <2>5 DEF OnceMoves, LogBooked
  <2>7. CASE ewm'[q].log = ewm[q].log
    <3>1. \A d \in Conf : Marked(q, d) => Marked(q, d)'
      BY <1>3, <1>4, <2>1, <2>4
    <3>2. faults' \in {faults, faults + 1}
      BY <2>1
    <3>3. job'[q].call \in {"read", "book"} => Current(q)' \notin memory'[q]
      BY <2>4 DEF Unread
    <3> QED BY <2>6, <2>7, <3>1, <3>2, <3>3, NotBooked
  <2>8. CASE ewm'[q].log = Append(ewm[q].log, c)
    <3>1. faults' \in {faults, faults + 1}
      BY <2>1
    <3>2. job'[q].call \in {"read", "book"} => Current(q)' \notin memory'[q]
      BY <2>4 DEF Unread
    <3> QED BY <2>1, <2>2, <2>4, <2>6, <2>8, <3>1, <3>2, BookedOnce
  <2> QED BY <2>5, <2>6, <2>7, <2>8 DEF LogBooked
<1>7. CASE Clean(q)
  <2>1. UNCHANGED <<ewm, faults>> /\ job[q].call = "clean"
    BY <1>7 DEF Clean
  <2>2. CASE job[q].at = 0
    <3>1. Unread(q) /\ memory' = memory /\ \A p \in Orders \ {q} : job'[p] = job[p]
      BY <1>7, <2>2, FinishUnread DEF Clean
    <3>2. \A c : Marked(q, c) <=> c \in memory[q]
      BY <2>2 DEF Marked
    <3> QED BY <1>4, <2>1, <3>1, <3>2, NotBooked DEF OnceMoves, Unread
  <2>3. CASE job[q].at # 0
    <3>1. PICK c \in Conf : c = Current(q)
      BY <1>2, <2>1, <2>3 DEF Confirming
    <3>2. /\ Unread(q) /\ memory[q] \subseteq memory'[q]
          /\ c.confirmationtype = "ERROR" => c \in memory'[q]
          /\ \A p \in Orders \ {q} : job'[p] = job[p] /\ memory'[p] = memory[p]
      BY <1>7, <2>1, <2>3, <3>1, ConfirmedUnread DEF Clean, Confirming
    <3>3. \A d : Marked(q, d) => d \in memory[q] \/ d = c
      BY <3>1 DEF Marked
    <3> QED BY <1>4, <2>1, <3>2, <3>3, NotBooked DEF OnceMoves, Unread
  <2> QED BY <2>2, <2>3
<1>8. CASE Get_robot_whos(q) \/ Send_robot_whos(q)
  <2>1. UNCHANGED <<ewm, faults>> /\ job[q].call \in {"whos", "send"}
    BY <1>8 DEF Get_robot_whos, Send_robot_whos
  <2>2. /\ Unread(q) /\ memory[q] \subseteq memory'[q]
        /\ \A p \in Orders \ {q} : job'[p] = job[p] /\ memory'[p] = memory[p]
    BY <1>1, <1>8, <2>1, GoUnread, MemorizeUnread DEF Get_robot_whos, Send_robot_whos
  <2> QED BY <1>3, <1>4, <2>1, <2>2, NotBooked DEF OnceMoves, Unread
<1>9. CASE Verify(q)
  <2>1. UNCHANGED <<ewm, faults>> /\ job[q].call = "verify"
    BY <1>9 DEF Verify
  <2>2. Unread(q) /\ memory' = memory /\ \A p \in Orders \ {q} : job'[p] = job[p]
    BY <1>9, GoUnread, FinishUnread DEF Verify
  <2> QED BY <1>3, <1>4, <2>1, <2>2, NotBooked DEF OnceMoves, Unread
<1>10. CASE Save(q)
  <2>1. UNCHANGED <<ewm, faults, memory>> /\ job[q].call = "save"
    BY <1>10 DEF Save
  <2>2. Unread(q) /\ \A p \in Orders \ {q} : job'[p] = job[p]
    BY <1>10 DEF Save, TypeOK, Unread, Idle
  <2> QED BY <1>3, <1>4, <2>1, <2>2, NotBooked DEF OnceMoves, Unread
<1>11. CASE Abort(q)
  <2>1. /\ UNCHANGED memory /\ faults' \in {faults, faults + 1}
        /\ Unread(q) /\ \A p \in Orders \ {q} : job'[p] = job[p]
    BY <1>11 DEF Abort, Fault, TypeOK, Unread, Idle
  <2>2. CASE UNCHANGED ewm /\ faults' = faults + 1
    BY <1>3, <1>4, <2>1, <2>2, NotBooked DEF OnceMoves, Unread
  <2>4. CASE job[q].call = "book" /\ ewm' = Rejected(q, Current(q))
    <3>1. \A p \in Orders : ewm'[p].log = ewm[p].log
      BY <2>4, RejectedQueue
    <3> QED BY <1>3, <1>4, <2>1, <2>4, <3>1, NotBooked DEF OnceMoves, Unread
  <2>3. CASE job[q].call = "book" /\ ewm' = Booked(q, Current(q)) /\ faults' = faults + 1
    <3>1. PICK c \in Conf : c = Current(q)
      BY <1>1, <1>2, <2>3
    <3>2. LogBooked(q, c)
      BY <2>3, <3>1, BookedLog
    <3>3. OnceMoves(q)
      BY <2>1, <3>2 DEF OnceMoves, LogBooked
    <3>4. CASE ewm'[q].log = ewm[q].log
      <4>1. job'[q].call \in {"read", "book"} => Current(q)' \notin memory'[q]
        BY <2>1 DEF Unread
      <4> QED BY <2>1, <2>3, <3>3, <3>4, <4>1, NotBooked
    <3>5. CASE ewm'[q].log = Append(ewm[q].log, c)
      <4>1. job'[q].call \in {"read", "book"} => Current(q)' \notin memory'[q]
        BY <2>1 DEF Unread
      <4> QED BY <2>1, <2>3, <3>1, <3>3, <3>5, <4>1, BookedOnce
    <3> QED BY <3>2, <3>3, <3>4, <3>5 DEF LogBooked
  <2> QED BY <1>11, <2>2, <2>3, <2>4 DEF Abort, Fault
<1> QED BY <1>5, <1>6, <1>7, <1>8, <1>9, <1>10, <1>11 DEF Process_who_cr

\* A step that leaves the callback of q, its memory and its log alone.
LEMMA SameOnce ==
    ASSUME TypeOK, NEW q \in Orders, OnceOK(q), ewm'[q].log = ewm[q].log,
           job'[q] = job[q], memory'[q] = memory[q], faults' \in {faults, faults + 1}
    PROVE  OnceOK(q)'
<1>1. Current(q)' = Current(q)
  BY DEF Current
<1>2. job'[q].call \in {"read", "book"} => Current(q)' \notin memory'[q]
  BY <1>1 DEF OnceOK
<1>3. \A c \in Conf : Marked(q, c) => Marked(q, c)'
  BY <1>1 DEF Marked
<1> QED BY <1>2, <1>3, NotBooked

\* The robots, the desks, the watch and the persons book nothing.
LEMMA OtherLog ==
    ASSUME TypeOK, [Next]_vars, ~Restart,
           \A o \in Orders : ~Process_who_cr(o) /\ ~Take(o)
    PROVE  /\ faults' \in {faults, faults + 1}
           /\ \A q \in Orders : ewm'[q].log = ewm[q].log
<1>1. ewm \in [Orders -> EwmOrder]
  BY DEF TypeOK
<1>2. ASSUME NEW o \in Orders,
             Watch(o) \/ Reprocess(o) \/ Robot_takes(o) \/ \E r \in Robots : Confirm_wht(o, r)
      PROVE  UNCHANGED <<ewm, faults>>
  BY <1>2 DEF Watch, Reprocess, Robot_takes, Confirm_wht
<1>3. ASSUME NEW o \in Orders, User_confirms(o) \/ User_requeues(o)
      PROVE  UNCHANGED faults /\ \A q \in Orders : ewm'[q].log = ewm[q].log
  <2>1. UNCHANGED faults
    BY <1>3 DEF User_confirms, User_requeues
  <2>2. CASE User_confirms(o)
    <3>1. ewm' = [ewm EXCEPT ![o].task = [t \in Tasks |-> "done"]]
      BY <2>2 DEF User_confirms
    <3> QED BY <1>1, <2>1, <3>1 DEF EwmOrder
  <2>3. CASE User_requeues(o)
    <3>1. ewm' = [ewm EXCEPT ![o].queue = "robots"]
      BY <2>3 DEF User_requeues
    <3> QED BY <1>1, <2>1, <3>1 DEF EwmOrder
  <2> QED BY <1>3, <2>2, <2>3
<1>4. ASSUME NEW r \in Robots, Request_work(r) \/ Unassign_whos(r)
      PROVE  UNCHANGED <<ewm, faults>>
  BY <1>4 DEF Request_work, Unassign_whos
<1>5. ASSUME NEW r \in Robots, Process_robotconfig_cr(r)
      PROVE  /\ faults' \in {faults, faults + 1}
             /\ \A q \in Orders : ewm'[q].log = ewm[q].log
  <2>1. faults' \in {faults, faults + 1}
    BY <1>5 DEF Process_robotconfig_cr, Getnew_robot_who, Send_new_who, Unassign_robot_who,
       Clean_unassigned, Desk_fails, Fault
  <2>2. UNCHANGED ewm \/ \E o \in Orders : ewm' = Assigned(o, r) \/ ewm' = Unassigned(o)
    <3>1. desk[r].whos \subseteq Orders /\ Offered(r) \subseteq Orders
      BY DEF TypeOK, Desk, Offered, Own, Queued
    <3> QED BY <1>5, <3>1 DEF Process_robotconfig_cr, Getnew_robot_who, Send_new_who,
              Unassign_robot_who, Clean_unassigned, Desk_fails
  <2>3. ASSUME NEW o \in Orders, ewm' = Assigned(o, r) \/ ewm' = Unassigned(o)
        PROVE  \A q \in Orders : ewm'[q].log = ewm[q].log
    <3>1. \E robot : ewm' = [ewm EXCEPT ![o].robot = robot]
      BY <1>1, <2>3 DEF Assigned, Unassigned
    <3> QED BY <1>1, <3>1 DEF EwmOrder
  <2> QED BY <2>1, <2>2, <2>3
<1>6. UNCHANGED vars => UNCHANGED <<ewm, faults>>
  BY DEF vars
<1> QED BY <1>2, <1>3, <1>4, <1>5, <1>6 DEF Next

\* Every step keeps the counts.
LEMMA OnceStep ==
    ASSUME IInv, TypeOK', \A q \in Orders : OnceOK(q), [Next]_vars
    PROVE  \A q \in Orders : OnceOK(q)'
<1>1. TypeOK /\ JobsOK
  BY DEF IInv
<1>2. ASSUME NEW o \in Orders, Process_who_cr(o), NEW q \in Orders PROVE OnceOK(q)'
  <2>1. OnceOK(o)' /\ OnceMoves(o)
    BY <1>1, <1>2, CallbackOnce
  <2> QED BY <1>1, <2>1, SameOnce DEF OnceMoves
<1>3. ASSUME NEW o \in Orders, Take(o), NEW q \in Orders PROVE OnceOK(q)'
  <2>1. UNCHANGED <<ewm, memory, faults>> /\ job[o] = Idle
    BY <1>3 DEF Take
  <2>2. Unread(o) /\ \A p \in Orders \ {o} : job'[p] = job[p]
    <3>1. PICK j \in Job :
            \/ job' = [job EXCEPT ![o] = [j EXCEPT !.call = "verify"]]
            \/ Continue(o, j, 1)
      <4>1. PICK copy \in pending[o] :
              LET j == [Idle EXCEPT !.data = copy.data, !.seen = copy.process_status] IN
              \/ job' = [job EXCEPT ![o] = [j EXCEPT !.call = "verify"]]
              \/ Continue(o, j, 1)
        BY <1>3, Zenon DEF Take
      <4>2. copy.data \in Seq(Conf) /\ copy.process_status \in SUBSET Conf
        BY <1>1 DEF TypeOK, OrderCR
      <4>3. [Idle EXCEPT !.data = copy.data, !.seen = copy.process_status] \in Job
        BY <4>2 DEF Idle, Job
      <4> QED BY <4>1, <4>3
    <3>2. CASE job' = [job EXCEPT ![o] = [j EXCEPT !.call = "verify"]]
      BY <1>1, <3>2 DEF TypeOK, Job, Unread
    <3>3. CASE Continue(o, j, 1)
      BY <1>1, <3>3, ContinueUnread
    <3> QED BY <3>1, <3>2, <3>3
  <2>3. CASE q = o
    <3>1. \A c : Marked(o, c) => Marked(o, c)'
      BY <2>1 DEF Marked, Idle
    <3> QED BY <1>1, <2>1, <2>2, <2>3, <3>1, NotBooked DEF Unread
  <2>4. CASE q # o
    BY <1>1, <2>1, <2>2, <2>4, SameOnce
  <2> QED BY <2>3, <2>4
<1>4. CASE Restart
  <2>1. ASSUME NEW q \in Orders PROVE OnceOK(q)'
    <3>1. /\ ewm'[q].log = ewm[q].log /\ faults' = faults + 1
          /\ job'[q].call \notin {"read", "book"}
      BY <1>4 DEF Restart, Fault, Idle
    <3> QED BY <1>1, <3>1, NotBooked
  <2> QED BY <2>1
<1>5. CASE UNCHANGED <<job, memory>> /\ ~Restart /\ \A o \in Orders : ~Process_who_cr(o) /\ ~Take(o)
  <2>1. faults' \in {faults, faults + 1} /\ \A q \in Orders : ewm'[q].log = ewm[q].log
    BY <1>1, <1>5, OtherLog
  <2> QED BY <1>1, <1>5, <2>1, SameOnce
<1> QED BY <1>2, <1>3, <1>4, <1>5, OtherSteps

\* Every state reached counts its errors.
LEMMA AlwaysOnce == Spec => [](\A q \in Orders : OnceOK(q))
<1> DEFINE Once == \A q \in Orders : OnceOK(q)
<1>1. Init => Once
  <2>1. \A c : Count(<<>>, c) = 0
    <3>1. \A c : {k \in DOMAIN <<>> : <<>>[k] = c} = {}
      OBVIOUS
    <3> QED BY <3>1, FS_EmptySet DEF Count
  <2> QED BY <2>1 DEF Init, OnceOK, Idle
<1>2. IInv /\ IInv' /\ Once /\ [Next]_vars => Once'
  BY OnceStep DEF IInv
<1> QED BY <1>1, <1>2, AlwaysIInv, PTL DEF Spec

\* EWM gets every error once, and once more at most for each failed call and
\* each restart, however often the CR of the order is processed again.
THEOREM ErrorsReported == Spec => []ErrorReportedOnce
<1>1. IInv /\ (\A q \in Orders : OnceOK(q)) => ErrorReportedOnce
  <2> SUFFICES ASSUME IInv, \A q \in Orders : OnceOK(q), NEW o \in Orders,
                      NEW c \in Range(ewm[o].log), c.confirmationtype = "ERROR"
               PROVE  Cardinality({k \in DOMAIN ewm[o].log : ewm[o].log[k] = c}) <= 1 + faults
    BY DEF ErrorReportedOnce
  <2>1. c \in Conf
    <3>1. ewm[o].log \in Seq(Conf)
      BY DEF IInv, TypeOK, EwmOrder
    <3> QED BY <3>1 DEF Range
  <2> QED BY <2>1 DEF OnceOK, Count
<1> QED BY <1>1, AlwaysIInv, AlwaysOnce, PTL
=============================================================================
