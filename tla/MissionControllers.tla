------------------------- MODULE MissionControllers -------------------------
(* The mission controllers of MiR, Fetch and dummy robots.  Each watches the  *)
(* mission CRs of its robots, keeps a copy of every CR in _missions, takes    *)
(* the missions up one after the other, creates a mission (MiR, dummy) or a   *)
(* task (Fetch) at the robot for every action of a mission, and follows it    *)
(* to its end.                                                                *)
(*                                                                            *)
(* The three are copies of one program with differences.  The common bodies   *)
(* come first; an action Mir_x, Fetch_x or Dummy_x is the body for that       *)
(* controller with what is its own.  The controller of a behaviour is chosen  *)
(* in Init.  The mission loop, the threads of missions, the executor of       *)
(* callbacks and the robots interleave; an action ends where a call to        *)
(* Kubernetes or to the robot returns.                                        *)
EXTENDS Integers, Sequences, FiniteSets

CONSTANTS
    Missions,          \* names of mission CRs
    Robots,            \* the robots served: a Fetch controller knows them
                       \* before it watches missions
    None,              \* no mission
    ActionsOf,         \* ActionsOf[m]: the kinds of the actions in its spec
    Assignments,       \* the ways in which CRs are labelled with robots
    Kinds,             \* the controllers considered
    PromptWatch,       \* see KeptUp
    MaxPending,        \* bound: versions of a CR on their way
    MaxRobotMissions,  \* bound: missions or tasks created at robots
    MaxDisturbances    \* bound: CRs deleted, restarts, requests to a
                       \* robot that fail or are not answered, watches
                       \* initialised or gone on later

ASSUME MissionAssumption ==
    /\ None \notin Missions
    /\ ActionsOf \in [Missions -> Seq({"move", "trolley", "charge"})]
    /\ Assignments \subseteq [Missions -> Robots]
    /\ Kinds \subseteq {"mir", "fetch", "dummy"}
    /\ PromptWatch \in BOOLEAN
    /\ {MaxPending, MaxRobotMissions, MaxDisturbances} \subseteq Nat

VARIABLES
    kind,        \* the controller of this behaviour
    robot_of,    \* the label cloudrobotics.com/robot-name of each CR
    crs, stream, cache, calls,   \* see K8sCRHandler
    missions,    \* _missions: the copy of each CR the loop looks at
    upstart,     \* _controller_upstart
    todo,        \* the copies the present pass of the loop has still to look at
    job,         \* job[r]: _active_mission(s) and where run_mission is with it
    queue,       \* queue[id]: a mission or task at a robot
    next_id,     \* the last id given out
    restarts, relists, lost,     \* how often each happened
    unanswered   \* requests to a robot that failed or were not answered

watch == <<crs, stream, cache, calls>>
faults == <<restarts, relists, lost, unanswered>>
vars == <<kind, robot_of, watch, missions, upstart, todo, job, queue, next_id, faults>>

-----------------------------------------------------------------------------
(* Data                                                                       *)

Final == {"SUCCEEDED", "FAILED", "CANCELED"}
\* Executing: or Pending behind other robot missions.
Unfinished == {"Executing", "Docking"}

\* A mission CR, as far as the controllers read and write it: its status, the
\* ids of its robot missions and whether activeAction says DOCKING.  "new" is
\* a CR without status.
Entries == [status : {"none", "deleted", "new", "ACCEPTED", "RUNNING"} \union Final,
            ids : Seq(Nat), docking : BOOLEAN]

NotYet == [status |-> "none", ids |-> <<>>, docking |-> FALSE]
Gone == [NotYet EXCEPT !.status = "deleted"]
NewCR == [NotYet EXCEPT !.status = "new"]
CR == {e \in Entries : e.status \notin {"none", "deleted"}}

Watch == INSTANCE K8sCRHandler WITH Names <- Missions

\* m, cr: the mission in work and the status run_mission keeps of it; pc: the
\* call it makes next; i: the action; id: its robot mission.
Job == [m : Missions \union {None}, cr : Entries,
        pc : {"free", "begin", "action", "register", "watch", "end", "stuck"},
        i : Nat, id : Nat]

Free == [m |-> None, cr |-> NotYet, pc |-> "free", i |-> 0, id |-> 0]

\* A mission of the MiR queue, a task of FetchCore, a counter of the dummy.
RobotMission == [m : Missions \union {None}, action : Nat,
                 state : {"none", "Done", "Aborted", "Canceled"} \union Unfinished]

NoRobotMission == [m |-> None, action |-> 0, state |-> "none"]

Ids == 1 .. MaxRobotMissions
EmptyQueue == [id \in Ids |-> NoRobotMission]

TypeOK ==
    /\ kind \in Kinds
    /\ robot_of \in Assignments
    /\ Watch!WatchTypeOK
    /\ missions \in [Missions -> Entries]
    /\ upstart \in BOOLEAN
    /\ todo \in [Missions -> Entries]
    /\ job \in [Robots -> Job]
    /\ queue \in [Ids -> RobotMission]
    /\ next_id \in 0 .. MaxRobotMissions
    /\ {restarts, relists, lost, unanswered} \subseteq Nat

Init ==
    /\ kind \in Kinds
    /\ robot_of \in Assignments
    \* A MiR and a dummy controller serve one robot.
    /\ kind # "fetch" => \A m, n \in Missions : robot_of[m] = robot_of[n]
    /\ Watch!WatchInit
    /\ missions = [m \in Missions |-> NotYet]
    /\ upstart = TRUE
    /\ todo = [m \in Missions |-> NotYet]
    /\ job = [r \in Robots |-> Free]
    /\ queue = EmptyQueue
    /\ next_id = 0
    /\ restarts = 0 /\ relists = 0 /\ lost = 0 /\ unanswered = 0

\* The bound on what may disturb the missions.
Spared ==
    Cardinality({m \in Missions : crs[m] = Gone}) + restarts + relists + lost + unanswered
        < MaxDisturbances

-----------------------------------------------------------------------------
(* Callbacks                                                                  *)

\* The callback of m is done; Keep(copy) is what it leaves in _missions.
Store(m, copy) == missions' = [missions EXCEPT ![m] = copy]

\* ADDED and MODIFIED.  A CR seen for the first time without a status is
\* accepted.  If the CR was deleted meanwhile or the update fails, _callback
\* logs the error and nobody tries again.
Robco_mission_cb(m) ==
    /\ calls[m] # <<>> /\ Head(calls[m]) # Gone
    /\ Store(m, Head(calls[m]))
    /\ calls' = [calls EXCEPT ![m] = Tail(@)]
    /\ IF missions[m] = NotYet /\ Head(calls[m]).status = "new" /\ Watch!Exists(m)
       THEN \/ Watch!Write(m, [NewCR EXCEPT !.status = "ACCEPTED"])
            \/ UNCHANGED <<crs, stream>>
       ELSE UNCHANGED <<crs, stream>>
    /\ UNCHANGED <<kind, robot_of, cache, upstart, todo, job, queue, next_id, faults>>

Mir_robco_mission_cb(m) == kind = "mir" /\ Robco_mission_cb(m)
Fetch_robco_mission_cb(m) == kind = "fetch" /\ Robco_mission_cb(m)
Dummy_robco_mission_cb(m) == kind = "dummy" /\ Robco_mission_cb(m)

\* DELETED: canceled are the robot missions that are stopped.
Stopped(canceled) ==
    [id \in Ids |-> IF id \in canceled /\ queue[id].state \in Unfinished
                    THEN [queue[id] EXCEPT !.state = "Canceled"] ELSE queue[id]]

Deleted_cb(m) ==
    /\ calls[m] # <<>> /\ Head(calls[m]) = Gone
    /\ calls' = [calls EXCEPT ![m] = Tail(@)]
    /\ UNCHANGED <<kind, robot_of, crs, stream, cache, upstart, todo, job, next_id,
                   restarts, relists, lost>>

Drop(m, canceled) ==
    /\ Deleted_cb(m)
    /\ queue' = Stopped(canceled)
    /\ UNCHANGED unanswered

JobOf(m) == job[robot_of[m]]
Active(m) == JobOf(m).m = m
LastId(m) == JobOf(m).cr.ids[Len(JobOf(m).cr.ids)]

\* MiR: the callback of a mission in work waits for an id of a robot mission
\* and deletes the robot mission.
Mir_mission_deleted_cb(m) ==
    /\ kind = "mir"
    /\ Store(m, NotYet)
    /\ \/ ~Active(m) /\ Drop(m, {})
       \/ Active(m) /\ JobOf(m).cr.ids # <<>> /\ Drop(m, {LastId(m)})

\* The robot does not stop its mission.
Cancel_fails(m) ==
    /\ Active(m)
    /\ Spared
    /\ unanswered' = unanswered + 1
    /\ Deleted_cb(m)
    /\ UNCHANGED queue

\* No id within ten seconds, or an error at the robot.  The exception of an
\* error but a server's leaves the copy where it is.
Mir_cancel_fails(m) ==
    /\ kind = "mir"
    /\ Cancel_fails(m)
    /\ Store(m, NotYet) \/ UNCHANGED missions

\* Fetch: the task is canceled if it still runs.  Without a task yet the list
\* access raises an IndexError, which _callback logs: the copy stays.
Fetch_mission_deleted_cb(m) ==
    /\ kind = "fetch"
    /\ \/ ~Active(m) /\ Store(m, NotYet) /\ Drop(m, {})
       \/ Active(m) /\ JobOf(m).cr.ids # <<>> /\ Store(m, NotYet) /\ Drop(m, {LastId(m)})
       \/ Active(m) /\ JobOf(m).cr.ids = <<>> /\ UNCHANGED missions /\ Drop(m, {})

\* FetchCore does not tell the status of the task, or refuses the patch.
Fetch_cancel_task_fails(m) ==
    /\ kind = "fetch"
    /\ JobOf(m).cr.ids # <<>>
    /\ Cancel_fails(m)
    /\ Store(m, NotYet)

\* Dummy: the check for the mission in work looks it up under the name of the
\* robot and never finds it.
Dummy_mission_deleted_cb(m) ==
    /\ kind = "dummy"
    /\ Store(m, NotYet)
    /\ Drop(m, {})

-----------------------------------------------------------------------------
(* The loop over the missions                                                 *)

\* The watch is less than a mission behind when the loop starts a pass, every
\* half second: it does not start while the end of a mission is on its way.
KeptUp ==
    PromptWatch => \A m \in Missions :
        \A s \in {stream[m], calls[m]} : \A k \in 1 .. Len(s) : s[k].status \notin Final

Runnable(copy) ==
    copy.status \in (IF upstart THEN {"RUNNING", "ACCEPTED"} ELSE {"ACCEPTED"})

(* mutant: a mission is resumed behind the last action that has an id *)
Taken_behind(m, copy) ==
    [m |-> m, cr |-> copy, pc |-> "begin", i |-> Len(copy.ids) + 1, id |-> 0]

Taken(m, copy) == [m |-> m, cr |-> copy, pc |-> "begin", i |-> 1, id |-> 0]

Loop_free == \A r \in Robots : job[r] = Free
InPass == \E m \in Missions : todo[m] # NotYet

\* MiR and dummy: a pass copies _missions, then runs the missions one by one.
Start_pass ==
    /\ ~InPass /\ Loop_free /\ KeptUp
    /\ todo' = missions
    /\ todo' # todo
    /\ UNCHANGED <<kind, robot_of, watch, missions, upstart, job, queue, next_id, faults>>

\* A mission of the pass is taken up if it may run, else left out.  The loop
\* takes them in the order they were added, which after a list is any order.
\* Upstart ends with the pass; nobody looks at it before the next one.
Visit(m) ==
    /\ Loop_free
    /\ todo[m] # NotYet
    /\ todo' = [todo EXCEPT ![m] = NotYet]
    /\ upstart' = (upstart /\ \E n \in Missions \ {m} : todo[n] # NotYet)
    /\ job' = IF Runnable(todo[m])
              THEN [job EXCEPT ![robot_of[m]] = Taken(m, todo[m])]
              ELSE job
    /\ UNCHANGED <<kind, robot_of, watch, missions, queue, next_id, faults>>

Mir_watch_missions ==
    kind = "mir" /\ (Start_pass \/ \E m \in Missions : Visit(m))
Dummy_watch_missions ==
    kind = "dummy" /\ (Start_pass \/ \E m \in Missions : Visit(m))

(* mutant: a mission in work does not keep the robot from taking another *)
Fetch_watch_missions_any ==
    /\ kind = "fetch"
    /\ KeptUp
    /\ \E m \in Missions : missions[m] # NotYet
    /\ upstart' = FALSE
    /\ \E pick \in [Robots -> Missions \union {None}] :
        /\ \A r \in Robots :
            LET runnable == {m \in Missions : robot_of[m] = r /\ Runnable(missions[m])}
            IN  IF runnable # {} THEN pick[r] \in runnable ELSE pick[r] = None
        /\ job' = [r \in Robots |-> IF pick[r] = None THEN job[r]
                                    ELSE Taken(pick[r], missions[pick[r]])]
    /\ UNCHANGED <<kind, robot_of, watch, missions, todo, queue, next_id, faults>>

\* Fetch: a mission runs in a thread of its own, so a pass takes no time.  A
\* robot with an entry in _active_missions is left out, any other one takes
\* up a mission if it has one that may run.
Fetch_watch_missions ==
    /\ kind = "fetch"
    /\ KeptUp
    /\ \E m \in Missions : missions[m] # NotYet
    /\ upstart' = FALSE
    /\ \E pick \in [Robots -> Missions \union {None}] :
        /\ \A r \in Robots :
            LET runnable == {m \in Missions : robot_of[m] = r /\ Runnable(missions[m])}
            IN  IF job[r] = Free /\ runnable # {} THEN pick[r] \in runnable ELSE pick[r] = None
        /\ job' = [r \in Robots |-> IF pick[r] = None THEN job[r]
                                    ELSE Taken(pick[r], missions[pick[r]])]
    /\ UNCHANGED <<kind, robot_of, watch, missions, todo, queue, next_id, faults>>

-----------------------------------------------------------------------------
(* run_mission                                                                *)

\* MiR and Fetch check that the CR exists before they update it, dummy does not.
Known(m) == kind = "dummy" \/ Watch!Cached(m)

\* An update of the status with what run_mission keeps of it: job[r] becomes
\* saved, whose cr is written, or gone if the cache has no such CR any more.
Update_cr_status(r, saved, gone) ==
    LET m == job[r].m IN
    \/ /\ Known(m) /\ Watch!Exists(m)
       /\ Watch!Write(m, saved.cr)
       /\ job' = [job EXCEPT ![r] = IF saved.cr.status \in Final THEN Free ELSE saved]
       /\ UNCHANGED <<kind, robot_of, cache, calls, missions, upstart, todo, queue, next_id, faults>>
    \/ /\ ~Known(m)
       /\ job' = [job EXCEPT ![r] = gone]
       /\ UNCHANGED <<kind, robot_of, watch, missions, upstart, todo, queue, next_id, faults>>

\* A step of run_mission that only moves it on.
Go(r, next) ==
    /\ job' = [job EXCEPT ![r] = next]
    /\ UNCHANGED <<kind, robot_of, watch, missions, upstart, todo, queue, next_id, faults>>

Ended(j, result) == [j EXCEPT !.cr.status = result, !.pc = "end"]

\* A mission that was RUNNING is resumed, any other one is set RUNNING first.
Begin(r, gone) ==
    LET j == [job[r] EXCEPT !.cr.status = "RUNNING", !.pc = "action"] IN
    /\ job[r].pc = "begin"
    /\ IF job[r].cr.status = "RUNNING" THEN Go(r, j) ELSE Update_cr_status(r, j, gone)

Mir_begin(r) == kind = "mir" /\ Begin(r, Free)
Dummy_begin(r) == kind = "dummy" /\ Begin(r, Free)
\* Fetch: run_mission returns without giving _active_missions[robot] back.
Fetch_begin(r) == kind = "fetch" /\ Begin(r, [job[r] EXCEPT !.pc = "stuck"])

Actions(r) == ActionsOf[job[r].m]
AtAction(r) == job[r].pc = "action" /\ job[r].i <= Len(Actions(r))

\* The i-th id of the CR belongs to the i-th action: it is followed, not
\* created again.  After the last action the mission has succeeded.
Next_action(r) ==
    LET j == job[r] IN
    \/ AtAction(r) /\ j.i <= Len(j.cr.ids) /\ Go(r, [j EXCEPT !.id = j.cr.ids[j.i], !.pc = "watch"])
    \/ j.pc = "action" /\ j.i > Len(Actions(r)) /\ Go(r, Ended(j, "SUCCEEDED"))

Mir_next_action(r) == kind = "mir" /\ Next_action(r)
Dummy_next_action(r) == kind = "dummy" /\ Next_action(r)
\* Fetch cannot charge: it waits for ten seconds, and no id is written.
Fetch_next_action(r) ==
    /\ kind = "fetch"
    /\ IF AtAction(r) /\ Actions(r)[job[r].i] = "charge"
       THEN Go(r, [job[r] EXCEPT !.i = @ + 1])
       ELSE Next_action(r)

Needs_creation(r) == AtAction(r) /\ job[r].i > Len(job[r].cr.ids)

\* A robot mission is created, whatever its kind: it goes to the end of the
\* queue.
Enqueue(r) ==
    /\ next_id < MaxRobotMissions
    /\ next_id' = next_id + 1
    /\ queue' = [queue EXCEPT ![next_id'] =
                    [m |-> job[r].m, action |-> job[r].i, state |-> "Executing"]]

\* A dummy gives out an id.  If it was asked for that id before, it has a
\* counter for it already.
Next_mission_id(r) ==
    IF next_id < MaxRobotMissions /\ queue[next_id + 1] # NoRobotMission
    THEN next_id' = next_id + 1 /\ UNCHANGED queue
    ELSE Enqueue(r)

\* The answer to the request has the id of the robot mission.
Answered(r) ==
    /\ job' = [job EXCEPT ![r].id = next_id', ![r].pc = "register"]
    /\ UNCHANGED <<kind, robot_of, watch, missions, upstart, todo, faults>>

\* The last attempt fails: the mission ends.
Request_fails(r) ==
    /\ Spared
    /\ unanswered' = unanswered + 1
    /\ job' = [job EXCEPT ![r] = Ended(job[r], "FAILED")]
    /\ UNCHANGED <<kind, robot_of, watch, missions, upstart, todo, restarts, relists, lost>>

\* @retry: a request that timed out, lost its connection or met an error of
\* the server is sent again.  (The attempts of one call, 10 of a MiR and 5 of
\* a Fetch, are not counted: the last one may be any.)
Sent_again(r) ==
    /\ Spared
    /\ unanswered' = unanswered + 1
    /\ UNCHANGED <<kind, robot_of, watch, missions, upstart, todo, job, restarts, relists, lost>>

\* One that is not answered may nevertheless have reached the robot: every
\* attempt may leave a robot mission there, only the last one is followed.
Post(r) ==
    \/ Enqueue(r) /\ Answered(r)
    \/ (Enqueue(r) \/ UNCHANGED <<queue, next_id>>) /\ (Sent_again(r) \/ Request_fails(r))

\* MiR: moves, fetches and returns trolleys and charges by missions of its own,
\* found by name, which fails like a request.
Mir_run_action(r) == kind = "mir" /\ Needs_creation(r) /\ Post(r)

\* Fetch: no map or an unknown position fail like a request.
Fetch_move_to_position(r) == Actions(r)[job[r].i] = "move" /\ Post(r)
\* A robot that cannot attach or detach carts moves there and asks for help.
Fetch_get_or_return_trolley(r) == Actions(r)[job[r].i] = "trolley" /\ Post(r)

Fetch_run_action(r) ==
    /\ kind = "fetch"
    /\ Needs_creation(r)
    /\ Fetch_move_to_position(r) \/ Fetch_get_or_return_trolley(r)

Dummy_run_action(r) ==
    kind = "dummy" /\ Needs_creation(r) /\ Next_mission_id(r) /\ Answered(r)

(* mutant: STATES_CANCELED has two members *)
Register_deleted(r) ==
    LET j == [job[r] EXCEPT !.cr.ids = Append(@, job[r].id), !.pc = "watch"] IN
    /\ job[r].pc = "register"
    /\ Update_cr_status(r, j, Ended(j, "DELETED"))

\* The id goes into the CR.  A CR that is gone ends the mission as CANCELED.
Register(r) ==
    LET j == [job[r] EXCEPT !.cr.ids = Append(@, job[r].id), !.pc = "watch"] IN
    /\ job[r].pc = "register"
    /\ Update_cr_status(r, j, Ended(j, "CANCELED"))

Mir_register(r) == kind = "mir" /\ Register(r)
Fetch_register(r) == kind = "fetch" /\ Register(r)
Dummy_register(r) == kind = "dummy" /\ Register(r)

State(r) == queue[job[r].id].state

(* mutant: an aborted action does not fail the mission *)
Watch_running_on(r) ==
    LET j == job[r] IN
    /\ j.pc = "watch"
    /\ \/ State(r) \in {"Done", "Aborted"} /\ Go(r, [j EXCEPT !.i = @ + 1, !.pc = "action"])
       \/ State(r) = "Canceled" /\ Go(r, Ended(j, "CANCELED"))

(* mutant: the state Aborted is waited for like Executing *)
Watch_running_aborted(r) ==
    LET j == job[r] IN
    /\ j.pc = "watch"
    /\ \/ State(r) = "Done" /\ Go(r, [j EXCEPT !.i = @ + 1, !.pc = "action"])
       \/ State(r) = "Canceled" /\ Go(r, Ended(j, "CANCELED"))

\* get_robco_state: the end of the robot mission moves the mission on.
Watch_running(r) ==
    LET j == job[r] IN
    /\ j.pc = "watch"
    /\ \/ State(r) = "Done" /\ Go(r, [j EXCEPT !.i = @ + 1, !.pc = "action"])
       \/ State(r) = "Aborted" /\ Go(r, Ended(j, "FAILED"))
       \/ State(r) = "Canceled" /\ Go(r, Ended(j, "CANCELED"))

\* MiR: a new activeAction of a trolley mission is written to the CR.  The
\* empty one at its end is not: the patch merges it with the one before.
New_activity(r) ==
    /\ kind = "mir"
    /\ job[r].pc = "watch"
    /\ Actions(r)[job[r].i] = "trolley"
    /\ State(r) \in {"Executing", "Docking"}
    /\ job[r].cr.docking # (State(r) = "Docking")

Report_activity(r) ==
    LET j == [job[r] EXCEPT !.cr.docking = (State(r) = "Docking")] IN
    /\ New_activity(r)
    /\ Update_cr_status(r, j, Ended(j, "CANCELED"))

\* MiR: a state that cannot be read fails the mission.  Fetch asks again.
Poll_fails(r) ==
    job[r].pc = "watch" /\ Request_fails(r) /\ UNCHANGED <<queue, next_id>>

Mir_watch_running(r) ==
    kind = "mir" /\ (Watch_running(r) \/ Report_activity(r) \/ Poll_fails(r))
Fetch_watch_running(r) == kind = "fetch" /\ Watch_running(r)
Dummy_watch_running(r) == kind = "dummy" /\ Watch_running(r)

\* The result is written and the robot free for its next mission.
End_mission(r) == job[r].pc = "end" /\ Update_cr_status(r, job[r], Free)

Mir_end(r) == kind = "mir" /\ End_mission(r)
Fetch_end(r) == kind = "fetch" /\ End_mission(r)
Dummy_end(r) == kind = "dummy" /\ End_mission(r)

-----------------------------------------------------------------------------
(* Errors and restarts                                                        *)

\* The process ends and is started again: a new list, nothing in memory.  The
\* dummy robot lives in the process.
Start_again ==
    /\ Watch!Start_watcher
    /\ missions' = [m \in Missions |-> NotYet]
    /\ upstart' = TRUE
    /\ todo' = [m \in Missions |-> NotYet]
    /\ job' = [r \in Robots |-> Free]
    /\ queue' = IF kind = "dummy" THEN EmptyQueue ELSE queue
    /\ next_id' = IF kind = "dummy" THEN 0 ELSE next_id
    /\ restarts' = restarts + 1
    /\ UNCHANGED <<kind, robot_of, relists, lost, unanswered>>

Updating(r) ==
    \/ job[r].pc = "begin" /\ job[r].cr.status # "RUNNING"
    \/ job[r].pc \in {"register", "end"}
    \/ New_activity(r)

\* The CR is deleted but the cache still has it: the update fails with 404,
\* an exception that ends MiR and Fetch controllers.
Update_not_found(r) ==
    /\ kind \in {"mir", "fetch"}
    /\ Updating(r)
    /\ Known(job[r].m) /\ ~Watch!Exists(job[r].m)
    /\ Start_again

\* Dummy: the mission is left, "Continuing anyway".
Dummy_update_not_found(r) ==
    /\ kind = "dummy"
    /\ Updating(r)
    /\ ~Watch!Exists(job[r].m)
    /\ Go(r, Free)

Restart == Spared /\ Start_again

-----------------------------------------------------------------------------
(* The robot controller, the robots and the watch                             *)

Create_mission(m) ==
    /\ crs[m] = NotYet
    /\ Watch!Write(m, NewCR)
    /\ UNCHANGED <<kind, robot_of, cache, calls, missions, upstart, todo, job, queue, next_id, faults>>

Delete_mission(m) ==
    /\ Watch!Exists(m)
    /\ Spared
    /\ Watch!Write(m, Gone)
    /\ UNCHANGED <<kind, robot_of, cache, calls, missions, upstart, todo, job, queue, next_id, faults>>

At(r, id) == queue[id].m # None /\ robot_of[queue[id].m] = r

\* A robot works on the first robot mission of its queue that is not finished.
\* Only a MiR tells that it docks.
After(id) ==
    LET q == queue[id] IN
    CASE q.state = "Executing" /\ kind = "mir" /\ ActionsOf[q.m][q.action] = "trolley"
            -> {"Docking", "Aborted"}
      [] q.state \in {"Executing", "Docking"} -> {"Done", "Aborted"}
      [] OTHER -> {}

Robot_works(id) ==
    /\ kind \in {"mir", "fetch"}
    /\ queue[id].m # None
    /\ \A k \in 1 .. id - 1 :
        queue[k].state \in Unfinished => robot_of[queue[k].m] # robot_of[queue[id].m]
    /\ \E s \in After(id) : queue' = [queue EXCEPT ![id].state = s]
    /\ UNCHANGED <<kind, robot_of, watch, missions, upstart, todo, job, next_id, faults>>

\* A dummy counts how often it is asked for a mission; one it does not know
\* starts to count then.
Dummy_counts(r) ==
    /\ kind = "dummy"
    /\ job[r].pc = "watch"
    /\ \E next \in {<<"none", "Executing">>, <<"Executing", "Done">>} :
        /\ State(r) = next[1]
        /\ queue' = [queue EXCEPT ![job[r].id].state = next[2]]
    /\ UNCHANGED <<kind, robot_of, watch, missions, upstart, todo, job, next_id, faults>>

Controller_vars == <<kind, robot_of, missions, upstart, todo, job, queue, next_id>>

Watch_event(m) == Watch!Watch_on_crs(m) /\ UNCHANGED <<Controller_vars, faults>>
Synchronize == Watch!Synchronize_cache /\ UNCHANGED <<Controller_vars, faults>>

Relist ==
    /\ Spared
    /\ relists' = relists + 1
    /\ Watch!Init_watcher
    /\ UNCHANGED <<Controller_vars, restarts, lost, unanswered>>

Lose ==
    /\ Spared
    /\ lost' = lost + 1
    /\ Watch!Too_old
    /\ UNCHANGED <<Controller_vars, restarts, relists, unanswered>>

-----------------------------------------------------------------------------
Mir_callback(m) ==
    Mir_robco_mission_cb(m) \/ Mir_mission_deleted_cb(m) \/ Mir_cancel_fails(m)
Fetch_callback(m) ==
    Fetch_robco_mission_cb(m) \/ Fetch_mission_deleted_cb(m) \/ Fetch_cancel_task_fails(m)
Dummy_callback(m) == Dummy_robco_mission_cb(m) \/ Dummy_mission_deleted_cb(m)
Callback(m) == Mir_callback(m) \/ Fetch_callback(m) \/ Dummy_callback(m)

Watch_missions == Mir_watch_missions \/ Fetch_watch_missions \/ Dummy_watch_missions

Mir_run(r) ==
    \/ Mir_begin(r) \/ Mir_next_action(r) \/ Mir_run_action(r)
    \/ Mir_register(r) \/ Mir_watch_running(r) \/ Mir_end(r)
Fetch_run(r) ==
    \/ Fetch_begin(r) \/ Fetch_next_action(r) \/ Fetch_run_action(r)
    \/ Fetch_register(r) \/ Fetch_watch_running(r) \/ Fetch_end(r)
Dummy_run(r) ==
    \/ Dummy_begin(r) \/ Dummy_next_action(r) \/ Dummy_run_action(r)
    \/ Dummy_register(r) \/ Dummy_watch_running(r) \/ Dummy_end(r)
    \/ Dummy_counts(r) \/ Dummy_update_not_found(r)
Run_mission(r) == Mir_run(r) \/ Fetch_run(r) \/ Dummy_run(r) \/ Update_not_found(r)

Next ==
    \/ \E m \in Missions :
        Callback(m) \/ Watch_event(m) \/ Create_mission(m) \/ Delete_mission(m)
    \/ Watch_missions
    \/ \E r \in Robots : Run_mission(r)
    \/ \E id \in Ids : Robot_works(id)
    \/ Restart \/ Synchronize \/ Relist \/ Lose

Spec == Init /\ [][Next]_vars

\* The threads go on: the executor of callbacks, the watcher, the loop over
\* the missions, run_mission of each robot.  So do the robots.  Nothing is
\* assumed of the robot controller, and the faults are not fair.
Fairness ==
    /\ WF_vars(\E m \in Missions : Callback(m))
    /\ WF_vars(\E m \in Missions : Watch_event(m))
    /\ WF_vars(Watch_missions)
    /\ \A r \in Robots : WF_vars(Run_mission(r))
    /\ \A r \in Robots : WF_vars(\E id \in Ids : At(r, id) /\ Robot_works(id))

FairSpec == Spec /\ Fairness

-----------------------------------------------------------------------------
(* Properties                                                                 *)

Robot_missions(m, i) == {id \in Ids : queue[id].m = m /\ queue[id].action = i}
Performed(m, i) == \E id \in Robot_missions(m, i) : queue[id].state = "Done"

\* Fetch robots do not charge.
Left_out(m, i) == kind = "fetch" /\ ActionsOf[m][i] = "charge"

\* A CR says SUCCEEDED only of a mission whose actions the robot has all
\* performed, however often the controller was started again in between and
\* whatever versions of the CR it resumed from.
SucceededIsPerformed ==
    \A m \in Missions : kind # "dummy" /\ crs[m].status = "SUCCEEDED" =>
        \A i \in 1 .. Len(ActionsOf[m]) : Left_out(m, i) \/ Performed(m, i)

\* The robot is asked for an action only after it has performed all the
\* actions before it: it never returns a trolley it did not get.
ActionsInOrder ==
    \A id \in Ids : kind # "dummy" /\ queue[id].m # None =>
        \A i \in 1 .. queue[id].action - 1 :
            Left_out(queue[id].m, i) \/ Performed(queue[id].m, i)

\* With missionQueueIds (taskids) in the CR a robot mission that was answered
\* for is not requested again, whatever becomes of the mission and of the
\* copies of its CR: each further robot mission for an action needs a request
\* that was not answered and is sent again, a controller that ended between
\* the request and the update, or one that has missed events.
NotRequestedTwice ==
    kind # "dummy" /\ PromptWatch => \A m \in Missions : \A i \in 1 .. Len(ActionsOf[m]) :
        Cardinality(Robot_missions(m, i)) <= 1 + restarts + lost + unanswered

\* The newest version of a CR that exists is on its way to the controller or
\* is the copy it has, whatever happens to the watch but a resource version
\* that is too old.
Newest(m) ==
    IF stream[m] # <<>> THEN stream[m][Len(stream[m])]
    ELSE IF calls[m] # <<>> THEN calls[m][Len(calls[m])] ELSE missions[m]

NewestOnItsWay ==
    lost = 0 => \A m \in Missions : Watch!Exists(m) => Newest(m) = crs[m]

\* What the robot controller relies on; see MissionService.
Service == INSTANCE MissionService WITH
    status <- [m \in Missions |-> crs[m].status],
    work <- [r \in Robots |-> job[r].m],
    behind <- (lost > 0 \/ ~PromptWatch)

ServiceKept == Service!Spec

\* A mission that was accepted ends, unless its CR is deleted, an event was
\* lost, its robot waits for ever for the mission of a deleted CR (Fetch), or
\* a new process has ended its upstart without resuming it.
LeftBehind(m) ==
    /\ restarts > 0 /\ ~upstart
    /\ crs[m].status = "RUNNING"
    /\ ~Active(m) /\ todo[m] = NotYet

MissionEnds ==
    \A m \in Missions :
        crs[m].status \in {"ACCEPTED", "RUNNING"} ~>
            \/ crs[m].status \in Final \union {"deleted"}
            \/ LeftBehind(m)
            \/ JobOf(m).pc = "stuck"
            \/ lost > 0

\* 'CR of mission deleted, mission was canceled': when all was said about the
\* deletion of a CR and its mission is not in work any more, the robot does
\* not go on with a robot mission of it.
DeletedIsCanceled ==
    \A m \in Missions :
        /\ crs[m] = Gone /\ stream[m] = <<>> /\ calls[m] = <<>>
        /\ ~Active(m)
        /\ restarts = 0 /\ relists = 0 /\ lost = 0 /\ unanswered = 0
        => \A id \in Ids : queue[id].m = m => queue[id].state \notin Unfinished

=============================================================================
