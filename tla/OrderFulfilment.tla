--------------------------- MODULE OrderFulfilment ---------------------------
(* How a warehouse order gets from EWM to a robot and its confirmations get    *)
(* back: the order manager's callbacks of warehouse order CRs and of robot     *)
(* configuration CRs (manager.py, ordercontroller.py, helper.py), with the     *)
(* robots and EWM as they see them.                                            *)
(*                                                                             *)
(* An order CR has two writers.  The robot appends confirmations to            *)
(* status.data; the order manager writes spec.order_status, the label of the   *)
(* robot and spec.process_status, the confirmations it is done with.  The      *)
(* callbacks of a CR run one at a time, those of different CRs in five threads;*)
(* a callback works on the copy its event brought.  Every call to EWM or       *)
(* Kubernetes is an action.  The robots are modelled by what they write: they  *)
(* see the present CR (RobotStateMachine has their copies).                    *)
EXTENDS Integers, Sequences, FiniteSets, Functions

CONSTANTS
    Orders, NTasks,  \* orders; every one has tasks 1 .. NTasks
    Robots,
    None,            \* no robot
    MaxPending,      \* bound: copies of a CR that wait for its lock
    MaxErrors,       \* bound: errors the robots report of an order
    MaxFaults        \* bound: calls that fail or are not answered, restarts

ASSUME FulfilmentAssumption ==
    /\ None \notin Robots
    /\ NTasks \in Nat \ {0}
    /\ MaxPending \in Nat \ {0}
    /\ MaxErrors \in Nat
    /\ MaxFaults \in Nat

VARIABLES
    ewm,      \* ewm[o]: the order in EWM
    crs,      \* crs[o]: the CR of the order at the API server
    cache,    \* cache[o]: the order manager's copy of it
    pending,  \* pending[o]: copies handed to the executor
    job,      \* job[o]: process_who_cr_cb, while it has the lock of the CR
    memory,   \* msg_mem.who_confirmations
    desk,     \* desk[r]: process_robotconfig_cr for robot r
    workers,  \* workers[o]: the robots that have it in their queue or in work
    faults

vars == <<ewm, crs, cache, pending, job, memory, desk, workers, faults>>

-----------------------------------------------------------------------------
(* Data                                                                       *)

Tasks == 1 .. NTasks

\* A confirmation.  It has a date; no two are equal.
Conf == [tanum : Tasks, confirmationnumber : {"FIRST", "SECOND"},
         confirmationtype : {"SUCCESS", "ERROR"}, rsrc : Robots]

Is(c, number, type) == c.confirmationnumber = number /\ c.confirmationtype = type

\* An order is in a queue for robots or in the error queue, where a person looks
\* at it; with or without a robot.  log: the confirmations and errors taken.
EwmOrder == [queue : {"robots", "errors"}, robot : Robots \union {None},
             task : [Tasks -> {"open", "first", "done"}], log : Seq(Conf)]

OpenTasks(o) == {t \in Tasks : ewm[o].task[t] # "done"}
With(o, r) == ewm[o].robot = r

OrderCR == [order_status : {"none", "RUNNING", "PROCESSED"}, robot : Robots \union {None},
            data : Seq(Conf), process_status : SUBSET Conf]
NoCR == [order_status |-> "none", robot |-> None, data |-> <<>>, process_status |-> {}]

\* A callback: its next call, the data and the process status of its copy, the
\* place in the data of the confirmation it processes, and whether the task of
\* that is the last open one it has read.
Job == [call : {"idle", "read", "book", "clean", "whos", "send", "verify", "save"},
        data : Seq(Conf), seen : SUBSET Conf, at : Nat, last : BOOLEAN]
Idle == [call |-> "idle", data |-> <<>>, seen |-> {}, at |-> 0, last |-> FALSE]

Desk == [call : {"idle", "getnew", "send", "unassign", "clean"}, whos : SUBSET Orders]
NoRequest == [call |-> "idle", whos |-> {}]

TypeOK ==
    /\ ewm \in [Orders -> EwmOrder]
    /\ crs \in [Orders -> OrderCR]
    /\ cache \in [Orders -> OrderCR]
    /\ pending \in [Orders -> SUBSET OrderCR]
    /\ job \in [Orders -> Job]
    /\ memory \in [Orders -> SUBSET Conf]
    /\ desk \in [Robots -> Desk]
    /\ workers \in [Orders -> SUBSET Robots]
    /\ faults \in 0 .. MaxFaults

Init ==
    /\ ewm = [o \in Orders |-> [queue |-> "robots", robot |-> None,
                                task |-> [t \in Tasks |-> "open"], log |-> <<>>]]
    /\ crs = [o \in Orders |-> NoCR]
    /\ cache = crs
    /\ pending = [o \in Orders |-> {}]
    /\ job = [o \in Orders |-> Idle]
    /\ memory = [o \in Orders |-> {}]
    /\ desk = [r \in Robots |-> NoRequest]
    /\ workers = [o \in Orders |-> {}]
    /\ faults = 0

-----------------------------------------------------------------------------
(* EWM                                                                        *)

Started(o) == \E t \in Tasks : ewm[o].task[t] # "open"
Picked(o) == \E t \in Tasks : ewm[o].task[t] = "first"

\* A robot confirms tasks of its own orders.  An order cannot be taken from a
\* robot that holds a part of it, not by an error before a first confirmation
\* either; the robot that reports an error is not compared with the order's.
Refused(o, c) ==
    IF c.confirmationtype = "SUCCESS" THEN ~With(o, c.rsrc)
    ELSE c.confirmationnumber = "FIRST" /\ Picked(o)

\* What a task has is answered as already confirmed.
Already(o, c) ==
    /\ c.confirmationtype = "SUCCESS"
    /\ \/ ewm[o].task[c.tanum] = "done"
       \/ c.confirmationnumber = "FIRST" /\ ewm[o].task[c.tanum] = "first"

Booked(o, c) ==
    LET taken == [ewm EXCEPT ![o].log = Append(@, c)] IN
    CASE Already(o, c) -> ewm
      [] Is(c, "FIRST", "SUCCESS") /\ ~Already(o, c) -> [taken EXCEPT ![o].task[c.tanum] = "first"]
      [] Is(c, "SECOND", "SUCCESS") /\ ~Already(o, c) -> [taken EXCEPT ![o].task[c.tanum] = "done"]
      [] Is(c, "FIRST", "ERROR") -> [taken EXCEPT ![o].queue = "errors", ![o].robot = None]
      [] Is(c, "SECOND", "ERROR") -> [taken EXCEPT ![o].queue = "errors"]

\* An error before a first confirmation changes the queue, which is committed,
\* before EWM finds that the order cannot be taken from its robot.
Rejected(o, c) ==
    IF Is(c, "FIRST", "ERROR") THEN [ewm EXCEPT ![o].queue = "errors"] ELSE ewm

\* A person who gets the alert of an error confirms the tasks of the order, or
\* puts it back into its queue when the robot is rid of it.
User_confirms(o) ==
    /\ \E c \in Range(ewm[o].log) : c.confirmationtype = "ERROR"
    /\ OpenTasks(o) # {}
    /\ ewm' = [ewm EXCEPT ![o].task = [t \in Tasks |-> "done"]]
    /\ UNCHANGED <<crs, cache, pending, job, memory, desk, workers, faults>>

User_requeues(o) ==
    /\ ewm[o].queue = "errors" /\ ewm[o].robot = None /\ crs[o].order_status = "PROCESSED"
    /\ ewm' = [ewm EXCEPT ![o].queue = "robots"]
    /\ UNCHANGED <<crs, cache, pending, job, memory, desk, workers, faults>>

-----------------------------------------------------------------------------
(* The order controller: CRs of orders                                        *)

Cached(o) == cache[o].order_status # "none"

\* Whether the CR exists is a question to the cache: one that it does not show
\* yet is created again, which fails.
Send_who_to_robot(o, r) ==
    crs' = IF Cached(o) \/ crs[o] = NoCR
           THEN [crs EXCEPT ![o].order_status = "RUNNING", ![o].robot = r] ELSE crs

Cleanup_who(o) ==
    crs' = IF Cached(o) THEN [crs EXCEPT ![o].order_status = "PROCESSED"] ELSE crs

\* The data of the callback's copy, not of the present CR, are marked.
Save_processed_status(o) ==
    crs' = IF Cached(o) THEN [crs EXCEPT ![o].process_status = Range(job[o].data)] ELSE crs

Fault == faults < MaxFaults /\ faults' = faults + 1

\* The watch shows the present CR and hands it to the executor if it is MODIFIED.
\* Without room the event is left out: the CRs are processed again every ten
\* seconds.  The callback does nothing with an order that is PROCESSED.
Submit(o, copy) ==
    pending' = IF copy.order_status = "RUNNING"
                  /\ Cardinality(pending[o] \union {copy}) <= MaxPending
               THEN [pending EXCEPT ![o] = @ \union {copy}] ELSE pending

Watch(o) ==
    /\ cache[o] # crs[o]
    /\ cache' = [cache EXCEPT ![o] = crs[o]]
    /\ IF Cached(o) THEN Submit(o, crs[o]) ELSE UNCHANGED pending
    /\ UNCHANGED <<ewm, crs, job, memory, desk, workers, faults>>

\* Mutant: only orders without confirmations are processed again.
Reprocess_untouched(o) ==
    /\ cache[o].order_status = "RUNNING" /\ cache[o].data = <<>>
    /\ Submit(o, cache[o])
    /\ pending' # pending
    /\ UNCHANGED <<ewm, crs, cache, job, memory, desk, workers, faults>>

Reprocess(o) ==
    /\ cache[o].order_status = "RUNNING"
    /\ Submit(o, cache[o])
    /\ pending' # pending
    /\ UNCHANGED <<ewm, crs, cache, job, memory, desk, workers, faults>>

-----------------------------------------------------------------------------
(* process_who_cr_cb                                                          *)

\* The confirmation in work.
Current(o) == job[o].data[job[o].at]

\* Mutant: the memory is not asked.
Continue_all(o, j, k) ==
    LET left == {i \in k .. Len(j.data) : j.data[i] \notin j.seen} IN
    \/ left = {} /\ job' = [job EXCEPT ![o] = [Idle EXCEPT !.call = "save", !.data = j.data]]
    \/ \E i \in left :
        /\ \A n \in left : i <= n
        /\ job' = [job EXCEPT ![o] = [j EXCEPT !.call = "read", !.at = i, !.last = FALSE]]

\* The callback goes on with the first confirmation from k on that its copy does
\* not show as processed and that is not memorized.
Continue(o, j, k) ==
    LET left == {i \in k .. Len(j.data) : j.data[i] \notin j.seen \union memory'[o]} IN
    \/ left = {} /\ job' = [job EXCEPT ![o] = [Idle EXCEPT !.call = "save", !.data = j.data]]
    \/ \E i \in left :
        /\ \A n \in left : i <= n
        /\ job' = [job EXCEPT ![o] = [j EXCEPT !.call = "read", !.at = i, !.last = FALSE]]

\* The callback starts with one of the waiting copies.
Take(o) ==
    /\ job[o] = Idle
    /\ \E copy \in pending[o] :
        LET j == [Idle EXCEPT !.data = copy.data, !.seen = copy.process_status] IN
        /\ pending' = [pending EXCEPT ![o] = @ \ {copy}]
        /\ UNCHANGED memory
        /\ IF Range(copy.data) \subseteq copy.process_status
           THEN job' = [job EXCEPT ![o] = [j EXCEPT !.call = "verify"]]
           ELSE Continue(o, j, 1)
    /\ UNCHANGED <<ewm, crs, cache, desk, workers, faults>>

rest == <<cache, pending, desk, workers>>

\* The first confirmation is memorized when all its calls have succeeded.
Memorize(o) ==
    /\ memory' = [memory EXCEPT ![o] = @ \union {Current(o)}]
    /\ Continue(o, job[o], job[o].at + 1)

Go(o, call) == job' = [job EXCEPT ![o].call = call] /\ UNCHANGED memory
Finish(o) == job' = [job EXCEPT ![o] = Idle] /\ UNCHANGED memory

\* Step 2 after the confirmation of a task.
Confirmed(o, c) ==
    IF Is(c, "FIRST", "SUCCESS") THEN Go(o, "whos") ELSE Memorize(o)

\* confirm_warehousetask reads the open tasks and skips a task that is not.
Read_open_tasks(o) ==
    LET c == Current(o) IN
    /\ job[o].call = "read"
    /\ IF c.tanum \in OpenTasks(o)
       THEN /\ job' = [job EXCEPT ![o].call = "book", ![o].last = OpenTasks(o) = {c.tanum}]
            /\ UNCHANGED memory
       ELSE Confirmed(o, c)
    /\ UNCHANGED <<ewm, crs, faults, rest>>

Confirm_warehousetask(o) ==
    LET c == Current(o) IN
    /\ job[o].call = "book"
    /\ ~Refused(o, c)
    /\ ewm' = Booked(o, c)
    /\ IF \/ Is(c, "FIRST", "ERROR")
          \/ Is(c, "SECOND", "SUCCESS") /\ job[o].last
       THEN Go(o, "clean")
       ELSE Confirmed(o, c)
    /\ UNCHANGED <<crs, faults, rest>>

\* cleanup_who, after a confirmation or a verification.
Clean(o) ==
    /\ job[o].call = "clean"
    /\ Cleanup_who(o)
    /\ IF job[o].at = 0 THEN Finish(o) ELSE Confirmed(o, Current(o))
    /\ UNCHANGED <<ewm, faults, rest>>

\* After a first confirmation the robot gets its orders as EWM has them now.
Get_robot_whos(o) ==
    LET r == Current(o).rsrc IN
    /\ job[o].call = "whos"
    /\ IF With(o, r) /\ OpenTasks(o) # {} THEN Go(o, "send") ELSE Memorize(o)
    /\ UNCHANGED <<ewm, crs, faults, rest>>

Send_robot_whos(o) ==
    /\ job[o].call = "send"
    /\ Send_who_to_robot(o, Current(o).rsrc)
    /\ Memorize(o)
    /\ UNCHANGED <<ewm, faults, rest>>

\* Mutant: only an order without any confirmation is verified.
Verify_untouched(o) ==
    /\ job[o].call = "verify"
    /\ IF OpenTasks(o) = {} /\ job[o].data = <<>> THEN Go(o, "clean") ELSE Finish(o)
    /\ UNCHANGED <<ewm, crs, faults, rest>>

\* Nothing to confirm: is the order still open in EWM?
Verify(o) ==
    /\ job[o].call = "verify"
    /\ IF OpenTasks(o) = {} THEN Go(o, "clean") ELSE Finish(o)
    /\ UNCHANGED <<ewm, crs, faults, rest>>

Save(o) ==
    /\ job[o].call = "save"
    /\ Save_processed_status(o)
    /\ job' = [job EXCEPT ![o] = Idle]
    /\ UNCHANGED <<ewm, memory, faults, rest>>

\* Mutant: the processed confirmations are saved after an exception too.
Abort_saves(o) ==
    /\ job[o] # Idle
    /\ job' = [job EXCEPT ![o] = [Idle EXCEPT !.call = "save", !.data = job[o].data]]
    /\ job[o].call = "book" /\ Refused(o, Current(o))
    /\ ewm' = Rejected(o, Current(o))
    /\ UNCHANGED <<crs, memory, faults, rest>>

\* Mutant: a refused confirmation is left for later, the next one processed.
Abort_goes_on(o) ==
    /\ job[o].call = "book" /\ Refused(o, Current(o))
    /\ ewm' = Rejected(o, Current(o))
    /\ UNCHANGED memory
    /\ Continue(o, job[o], job[o].at + 1)
    /\ UNCHANGED <<crs, faults, rest>>

\* A call that fails, or is refused by EWM, ends the callback: "try again
\* later".  EWM may have booked a confirmation it did not answer.
Abort(o) ==
    /\ job[o] # Idle
    /\ job' = [job EXCEPT ![o] = Idle]
    /\ \/ /\ job[o].call = "book" /\ Refused(o, Current(o))
          /\ ewm' = Rejected(o, Current(o))
          /\ UNCHANGED faults
       \/ Fault /\ UNCHANGED ewm
       \/ /\ Fault
          /\ job[o].call = "book" /\ ~Refused(o, Current(o))
          /\ ewm' = Booked(o, Current(o))
    /\ UNCHANGED <<crs, memory, rest>>

Process_who_cr(o) ==
    \/ Read_open_tasks(o) \/ Confirm_warehousetask(o) \/ Clean(o)
    \/ Get_robot_whos(o) \/ Send_robot_whos(o) \/ Verify(o) \/ Save(o)
    \/ Abort(o)

-----------------------------------------------------------------------------
(* process_robotconfig_cr                                                     *)

Running_whos(r) == {o \in Orders : cache[o].order_status = "RUNNING" /\ cache[o].robot = r}

Serve(r, request) == desk' = [desk EXCEPT ![r] = request]

\* An order is requested for a robot without one.  Whether its status lets the
\* order manager do so (mode RUN, an idle state, available, charged, a recent
\* update, no auction for it) is left open: the step is never owed.
Request_work(r) ==
    /\ desk[r] = NoRequest
    /\ Running_whos(r) = {}
    /\ Serve(r, [call |-> "getnew", whos |-> {}])
    /\ UNCHANGED <<ewm, crs, cache, pending, job, memory, workers, faults>>

\* EWM answers with the order it gave the robot before, if that is not started
\* ("in case the OData interface got a read timeout then"), refuses if it is
\* (RobotHasOrderError), and otherwise assigns one of the queue, if there is any.
Own(r) == {o \in Orders : With(o, r) /\ OpenTasks(o) # {}}
Queued == {o \in Orders : ewm[o].queue = "robots" /\ ewm[o].robot = None /\ OpenTasks(o) # {}}
\* Mutant: a robot that has an order is always refused another.
Offered_new(r) == IF Own(r) = {} THEN Queued ELSE {}

Offered(r) == IF Own(r) = {} THEN Queued ELSE {o \in Own(r) : ~Started(o)}
Assigned(o, r) == [ewm EXCEPT ![o].robot = r]

Getnew_robot_who(r) ==
    /\ desk[r].call = "getnew"
    /\ \/ Offered(r) = {} /\ Serve(r, NoRequest) /\ UNCHANGED ewm
       \/ \E o \in Offered(r) :
            /\ ewm' = Assigned(o, r)
            /\ Serve(r, [call |-> "send", whos |-> {o}])
    /\ UNCHANGED <<crs, cache, pending, job, memory, workers, faults>>

Send_new_who(r) ==
    /\ desk[r].call = "send"
    /\ \E o \in desk[r].whos : Send_who_to_robot(o, r)
    /\ Serve(r, NoRequest)
    /\ UNCHANGED <<ewm, cache, pending, job, memory, workers, faults>>

\* A robot that charges, stops or stays in error gives back its orders which
\* have no first confirmation yet, as far as the cache shows it.  The status of
\* the robot is the one the callback began with.
Unassign_whos(r) ==
    /\ desk[r] = NoRequest
    /\ \E o \in Running_whos(r) :
        /\ \A k \in DOMAIN cache[o].data : ~Is(cache[o].data[k], "FIRST", "SUCCESS")
        /\ Serve(r, [call |-> "unassign", whos |-> {o}])
    /\ UNCHANGED <<ewm, crs, cache, pending, job, memory, workers, faults>>

\* Mutant: the order is left with a resource that is none of the robots.
Unassigned_nowhere(o) == [ewm EXCEPT ![o].robot = ""]

\* EWM takes the order from whichever robot has it; it refuses an order a robot
\* holds a part of.
Unassigned(o) == [ewm EXCEPT ![o].robot = None]

Unassign_robot_who(r) ==
    /\ desk[r].call = "unassign"
    /\ \E o \in desk[r].whos :
        IF Picked(o)
        THEN Serve(r, NoRequest) /\ UNCHANGED ewm
        ELSE Serve(r, [desk[r] EXCEPT !.call = "clean"]) /\ ewm' = Unassigned(o)
    /\ UNCHANGED <<crs, cache, pending, job, memory, workers, faults>>

Clean_unassigned(r) ==
    /\ desk[r].call = "clean"
    /\ \E o \in desk[r].whos : Cleanup_who(o)
    /\ Serve(r, NoRequest)
    /\ UNCHANGED <<ewm, cache, pending, job, memory, workers, faults>>

\* A call fails; EWM may have done what it was asked for.
Desk_fails(r) ==
    /\ desk[r] # NoRequest
    /\ Fault
    /\ Serve(r, NoRequest)
    /\ \/ UNCHANGED ewm
       \/ desk[r].call = "getnew" /\ \E o \in Offered(r) : ewm' = Assigned(o, r)
       \/ desk[r].call = "unassign" /\ \E o \in desk[r].whos : ~Picked(o) /\ ewm' = Unassigned(o)
    /\ UNCHANGED <<crs, cache, pending, job, memory, workers>>

Process_robotconfig_cr(r) ==
    \/ Getnew_robot_who(r) \/ Send_new_who(r)
    \/ Unassign_robot_who(r) \/ Clean_unassigned(r) \/ Desk_fails(r)

\* The order manager starts again: callbacks, memory and cache are lost, the
\* CRs listed.  A listed CR is ADDED, which calls no callback of an order.
Restart ==
    /\ Fault
    /\ job' = [o \in Orders |-> Idle]
    /\ desk' = [r \in Robots |-> NoRequest]
    /\ memory' = [o \in Orders |-> {}]
    /\ cache' = crs
    /\ pending' = [o \in Orders |-> {}]
    /\ UNCHANGED <<ewm, crs, workers>>

-----------------------------------------------------------------------------
(* The robots                                                                 *)

Sent(o, r) == {c \in Range(crs[o].data) : c.rsrc = r}

\* A task gets the first confirmation, or an error instead; then the second, or
\* an error instead.  The tasks are gone through in their sequence.
Errors(o) == {c \in Range(crs[o].data) : c.confirmationtype = "ERROR"}
Has(o, r, t, number, type) ==
    \E c \in Sent(o, r) : c.tanum = t /\ Is(c, number, type)
Over(o, r, t, number) ==
    Has(o, r, t, number, "SUCCESS") \/ Has(o, r, t, "FIRST", "ERROR") \/ Has(o, r, t, "SECOND", "ERROR")

Next_confirmation(o, r) ==
    {c \in Conf :
        /\ c.rsrc = r
        /\ ~Over(o, r, c.tanum, c.confirmationnumber)
        /\ c.confirmationnumber = "SECOND" => Has(o, r, c.tanum, "FIRST", "SUCCESS")
        /\ \A t \in 1 .. (c.tanum - 1) : Over(o, r, t, c.confirmationnumber)
        /\ c.confirmationtype = "ERROR" => Cardinality(Errors(o)) < MaxErrors}

\* A robot takes an order when the order manager is done with all confirmations,
\* where the processed ones count only if they are the robot's own, and no task
\* that is left has a second confirmation.
Warehouse_order_precheck(o, r) ==
    /\ Range(crs[o].data) = {c \in crs[o].process_status : c.rsrc = r}
    /\ \A c \in Range(crs[o].data) :
        Is(c, "SECOND", "SUCCESS") => c.tanum \notin OpenTasks(o)

\* The robot takes it into its queue unless it has nothing left to do for it.
Robot_takes(o) ==
    LET r == crs[o].robot IN
    /\ crs[o].order_status = "RUNNING"
    /\ r \notin workers[o]
    /\ Next_confirmation(o, r) # {}
    /\ Warehouse_order_precheck(o, r)
    /\ workers' = [workers EXCEPT ![o] = @ \union {r}]
    /\ UNCHANGED <<ewm, crs, cache, pending, job, memory, desk, faults>>

\* The order is over for the robot after an error or after the last task.
Confirm_wht(o, r) ==
    /\ r \in workers[o]
    /\ crs[o] # NoCR
    /\ \E c \in Next_confirmation(o, r) :
        /\ crs' = [crs EXCEPT ![o].data = Append(@, c)]
        /\ LET done == {d.tanum : d \in {d \in Sent(o, r) \union {c} : Is(d, "SECOND", "SUCCESS")}} IN
           workers' = [workers EXCEPT ![o] =
               IF c.confirmationtype = "ERROR" \/ done = Tasks THEN @ \ {r} ELSE @]
    /\ UNCHANGED <<ewm, cache, pending, job, memory, desk, faults>>

-----------------------------------------------------------------------------
Next ==
    \/ \E o \in Orders :
        \/ Watch(o) \/ Reprocess(o) \/ Take(o) \/ Process_who_cr(o)
        \/ User_confirms(o) \/ User_requeues(o)
        \/ Robot_takes(o) \/ \E r \in Robots : Confirm_wht(o, r)
    \/ \E r \in Robots :
        Request_work(r) \/ Unassign_whos(r) \/ Process_robotconfig_cr(r)
    \/ Restart

Spec == Init /\ [][Next]_vars

\* The watch, the executor and the threads of the order manager go on; CRs are
\* processed again every ten seconds.  Robots, persons and faults owe nothing.
Fairness ==
    /\ \A o \in Orders :
        /\ WF_vars(Watch(o)) /\ WF_vars(Reprocess(o))
        /\ WF_vars(Take(o)) /\ WF_vars(Process_who_cr(o))
    /\ \A r \in Robots : WF_vars(Process_robotconfig_cr(r))

FairSpec == Spec /\ Fairness

-----------------------------------------------------------------------------
(* Properties                                                                 *)

\* EWM has taken the confirmation, or the task no more needs it.
Settled(o, c) ==
    \/ \E k \in DOMAIN ewm[o].log : ewm[o].log[k] = c
    \/ ewm[o].task[c.tanum] = "done" \/ Already(o, c)

\* What the process status or the memory of the order manager names as
\* processed is in EWM, in spite of failed calls, lost answers, restarts and
\* copies that come in another order: a confirmation that EWM never gets would
\* leave stock where it is no more.
ProcessedIsBooked ==
    \A o \in Orders : \A c \in crs[o].process_status \union memory[o] : Settled(o, c)

\* EWM gets the confirmations of an order in the sequence the robot sent them:
\* none is booked before those ahead of it in the CR are settled.
BookedInSequence ==
    \A o \in Orders : \A k \in DOMAIN crs[o].data : \A i \in 1 .. (k - 1) :
        (\E n \in DOMAIN ewm[o].log : ewm[o].log[n] = crs[o].data[k])
            => Settled(o, crs[o].data[i])

\* Every error is reported to EWM once, an alert for a person, except that a
\* failed call or a restart may repeat it once.
ErrorReportedOnce ==
    \A o \in Orders : \A c \in Range(ewm[o].log) :
        c.confirmationtype = "ERROR" =>
            Cardinality({k \in DOMAIN ewm[o].log : ewm[o].log[k] = c}) <= 1 + faults

\* A confirmation is refused for ever when the order has left the robot, and an
\* error before a first confirmation while the robot holds another task.
Blocked(o) == \E c \in Range(crs[o].data) : c \notin crs[o].process_status /\ Refused(o, c)

\* The order manager catches up with the confirmations of a running order,
\* unless EWM refuses one.
ConfirmationsArrive ==
    \A o \in Orders :
        (crs[o].order_status = "RUNNING" /\ crs[o].process_status # Range(crs[o].data))
            ~> (crs[o].process_status = Range(crs[o].data)
                \/ crs[o].order_status = "PROCESSED" \/ Blocked(o))

\* An order that is done in EWM does not stay RUNNING.
DoneIsClosed ==
    \A o \in Orders : (OpenTasks(o) = {} /\ crs[o].order_status = "RUNNING")
        ~> (crs[o].order_status = "PROCESSED" \/ Blocked(o))

\* An order EWM has assigned, where the answer was lost or the CR closed behind
\* its back, gets to the robot as long as it is not started: unless a time comes
\* from which on the order manager may request work for the robot and does not,
\* for the status of the robot or an auction.
AssignedArrives ==
    \A r \in Robots : WF_vars(Request_work(r)) =>
        \A o \in Orders :
            With(o, r) ~> (~With(o, r) \/ Started(o) \/ OpenTasks(o) = {}
                           \/ (crs[o].order_status = "RUNNING" /\ crs[o].robot = r))

\* An order that is RUNNING for a robot and has all its confirmations processed
\* is one the robot takes.
OwnEntriesOnly ==
    \A o \in Orders :
        LET r == crs[o].robot IN
        (crs[o].order_status = "RUNNING" /\ Sent(o, r) = {}
            /\ crs[o].process_status = Range(crs[o].data))
        => Warehouse_order_precheck(o, r)

=============================================================================
