---------------------- MODULE MissionControllersProofs ----------------------
(* What the mission controllers guarantee, for all missions, actions, robots, *)
(* labels, numbers of versions on their way, restarts, lists, breaks of the   *)
(* watch and failing requests: the newest version of a CR is on its way; what *)
(* a CR says has happened was done, in order; an action is requested again    *)
(* only after a fault; and MissionService is implemented.                     *)
(*                                                                            *)
(* The three controllers share their bodies, so the proof looks at a step     *)
(* only as far as the three have it in common: OtherStep and RunStep say what *)
(* a step may do, and from them follows for each variable how it changes      *)
(* (WayFacts the copies of a CR, CrsFacts the CR, JobFacts the mission in     *)
(* work).  Every invariant is proved from those facts: Typed; that no copy is *)
(* ahead of its CR and what is in work has not ended (ServiceInv); that the   *)
(* ids in all copies belong to the actions in order (OrderInv); that a job is *)
(* past what was requested, and what left its job is over (OnceInv).          *)
EXTENDS MissionControllers, FiniteSetTheorems, TLAPS

-----------------------------------------------------------------------------
(* The inductive invariant                                                    *)

\* Where run_mission of robot r is, and what it keeps of the CR by then.
Underway == {"action", "register", "watch", "end"}

JobTyped(r, j) ==
    /\ j.pc = "free" => j = Free
    /\ j.pc # "free" =>
         /\ j.m \in Missions /\ robot_of[j.m] = r
         /\ j.i \in Nat \ {0}
    /\ j.pc = "begin" => j.cr.status \in {"ACCEPTED", "RUNNING"}
    /\ j.pc \in {"action", "register", "watch"} => j.cr.status = "RUNNING"
    /\ j.pc = "end" => j.cr.status \in Final

Typed == TypeOK /\ \A r \in Robots : JobTyped(r, job[r])

\* The versions of the CR of m the loop may still see.
Elems(s) == {s[k] : k \in DOMAIN s}
OnItsWay(m) == Elems(stream[m]) \union Elems(calls[m])
Copies(m) == OnItsWay(m) \union {missions[m], todo[m]}

\* A CR that is gone, is gone: nothing else has been written since.
GoneStays(m) == Gone \in Copies(m) \union {cache[m]} => crs[m] = Gone

\* The cache knows every CR of which a version was called back.
CachedFirst(m) ==
    cache[m] = NotYet =>
        /\ calls[m] = <<>> /\ missions[m] = NotYet /\ todo[m] = NotYet
        /\ \A r \in Robots : job[r].m # m

\* Only a mission whose CR is not in _missions is accepted: no version without
\* status may come after it was accepted, then.
AcceptedOnce(m) ==
    missions[m] = NotYet /\ Watch!Exists(m) /\ crs[m].status # "new" =>
        \A e \in OnItsWay(m) : e.status # "new"

\* No copy is ahead of its CR.
NotAhead(m) ==
    /\ \A e \in Copies(m) :
         /\ e # NotYet => crs[m] # NotYet
         /\ e.status \in {"ACCEPTED", "RUNNING"} \union Final => crs[m].status \notin {"none", "new"}
         /\ e.status = "RUNNING" => crs[m].status # "ACCEPTED"
    /\ \A r \in Robots : job[r].m = m => crs[m].status \notin {"none", "new"}

\* Before a new process has looked at a mission for the first time, no mission
\* that it takes to be RUNNING has ended.
Unvisited(m) == upstart /\ (InPass => todo[m] # NotYet)

Upstart(m) ==
    /\ Unvisited(m) /\ crs[m].status \in Final => \A e \in Copies(m) : e.status # "RUNNING"
    /\ \A r \in Robots : job[r].m = m => todo[m] = NotYet /\ ~Unvisited(m)

\* The mission in work has not ended.
Lagging == lost > 0 \/ ~PromptWatch

InWork(r, j) ==
    /\ \/ j.pc = "begin" /\ j.cr.status = "RUNNING"
       \/ j.pc \in Underway
       => crs[j.m].status \in {"RUNNING", "deleted"}
    /\ j.pc \notin {"free", "stuck"} /\ ~Lagging => crs[j.m].status \notin Final

\* Neither has one that the pass of the loop has still to look at.
InTodo(m) == ~Lagging /\ todo[m].status \in {"ACCEPTED", "RUNNING"} => crs[m].status \notin Final

\* A Fetch pass takes no time.
NoPass == kind = "fetch" => \A m \in Missions : todo[m] = NotYet

ServiceInv ==
    /\ NoPass
    /\ \A m \in Missions :
        /\ GoneStays(m) /\ CachedFirst(m) /\ AcceptedOnce(m) /\ NotAhead(m)
        /\ Upstart(m) /\ InTodo(m)
    /\ \A r \in Robots : InWork(r, job[r])

\* Done with an action, and all before it.
Settled(m, i) == Left_out(m, i) \/ Performed(m, i)
Before(m, i) == \A n \in 1 .. (i - 1) : Settled(m, n)

Belongs(id, m, i) == id \in 1 .. next_id /\ queue[id].m = m /\ queue[id].action >= i

IdsOK(m, e) == \A k \in 1 .. Len(e.ids) : Belongs(e.ids[k], m, k)

JobInOrder(j) ==
    /\ IdsOK(j.m, j.cr)
    /\ j.pc \in {"begin", "action", "register", "watch"} => Before(j.m, j.i)
    /\ j.pc = "register" => Len(j.cr.ids) < j.i
    /\ j.pc \in {"register", "watch"} => Belongs(j.id, j.m, j.i)
    /\ j.pc = "end" /\ j.cr.status = "SUCCEEDED" => Before(j.m, Len(ActionsOf[j.m]) + 1)

\* The robot missions there are.
Numbered == \A id \in Ids : id > next_id => queue[id] = NoRobotMission

OrderParts ==
    /\ Numbered /\ ActionsInOrder /\ SucceededIsPerformed
    /\ \A m \in Missions : \A e \in Copies(m) \union {crs[m]} : IdsOK(m, e)
    /\ \A r \in Robots : job[r].pc # "free" => JobInOrder(job[r])

\* A dummy forgets what it did when it is started again.
OrderInv == kind # "dummy" => OrderParts

\* Requested as often as new processes, missed events and requests without an
\* answer account for: not again before the next of them.
Asked(m, i) == Cardinality(Robot_missions(m, i))
Spent(m, i) == i \in 1 .. Len(ActionsOf[m]) /\ Asked(m, i) > restarts + lost + unanswered
Anything(m) == \E i \in 1 .. Len(ActionsOf[m]) : Spent(m, i)

\* The job is past the request of action i, or will not get there.
Past(j, i) ==
    \/ j.pc \in {"end", "stuck"}
    \/ i < j.i
    \/ i = j.i /\ j.pc \in {"register", "watch"}
Refused(j) == j.pc = "begin" /\ j.cr.status = "ACCEPTED" /\ crs[j.m] = Gone

\* A mission that is not in work any more has ended, and the loop will see so.
Over(m) ==
    /\ crs[m] # Gone => /\ crs[m].status \in Final
                       /\ Newest(m) = crs[m]
                       /\ todo[m].status \notin {"ACCEPTED", "RUNNING"}
    /\ ~Unvisited(m)

OnceParts(m) ==
    /\ \A i \in 1 .. Len(ActionsOf[m]) : Asked(m, i) <= 1 + restarts + lost + unanswered
    /\ Anything(m) /\ (\A r \in Robots : job[r].m # m) => Over(m)
    /\ \A r \in Robots : job[r].m = m =>
         \A i \in 1 .. Len(ActionsOf[m]) : Spent(m, i) => Past(job[r], i) \/ Refused(job[r])

Fault == restarts' + lost' + unanswered' = restarts + lost + unanswered + 1

OnceInv == kind # "dummy" /\ PromptWatch => \A m \in Missions : OnceParts(m)

-----------------------------------------------------------------------------
(* Data                                                                       *)

Statuses == {"none", "deleted", "new", "ACCEPTED", "RUNNING"} \union Final

\* The versions of a CR that the definitions name, told apart.
LEMMA EntryData ==
    /\ NotYet \in Entries /\ Gone \in Entries /\ NewCR \in CR
    /\ NotYet.status = "none" /\ NotYet.ids = <<>>
    /\ Gone.status = "deleted" /\ Gone.ids = <<>>
    /\ NewCR.status = "new" /\ NewCR.ids = <<>>
    /\ Gone # NotYet /\ CR \subseteq Entries
    /\ Gone \notin CR /\ NotYet \notin CR
    /\ \A e \in CR : e # Gone /\ e # NotYet
<1>1. <<>> \in Seq(Nat)
  OBVIOUS
<1>2. NotYet \in Entries /\ NotYet.status = "none" /\ NotYet.ids = <<>>
  BY <1>1 DEF NotYet, Entries
<1>3. Gone \in Entries /\ Gone.status = "deleted" /\ Gone.ids = <<>>
  BY <1>1 DEF NotYet, Gone, Entries
<1>4. NewCR \in Entries /\ NewCR.status = "new" /\ NewCR.ids = <<>>
  BY <1>1 DEF NotYet, NewCR, Entries
<1>5. \A e \in CR : e \in Entries /\ e.status # "none" /\ e.status # "deleted"
  BY DEF CR
<1>6. NewCR \in CR
  BY <1>4 DEF CR
<1> QED BY <1>2, <1>3, <1>4, <1>5, <1>6

\* What a version of a CR consists of.
LEMMA EntryFields ==
    ASSUME NEW e \in Entries
    PROVE  e.status \in Statuses /\ e.ids \in Seq(Nat) /\ e.docking \in BOOLEAN
BY DEF Entries, Statuses

\* What the CR at the API server, a version of it or a cached one may be.
LEMMA VersionData ==
    /\ Watch!Version = CR \union {Gone} /\ Watch!Entry = CR \union {NotYet, Gone}
    /\ Watch!Version \subseteq Entries /\ Watch!Entry \subseteq Entries
    /\ \A e \in Watch!Version : e.status # "none" /\ (e.status = "deleted" => e = Gone)
    /\ \A e \in Watch!Entry : (e.status = "none" => e = NotYet) /\ (e.status = "deleted" => e = Gone)
<1>1. Watch!Version = CR \union {Gone} /\ Watch!Entry = CR \union {NotYet, Gone}
  BY DEF Watch!Version, Watch!Entry
<1>2. \A e \in CR : e \in Entries /\ e.status # "none" /\ e.status # "deleted"
  BY DEF CR
<1> QED BY <1>1, <1>2, EntryData

\* An edit of a CR leaves it a CR.
LEMMA EntryEdits ==
    ASSUME NEW e \in Entries, NEW s \in {"ACCEPTED", "RUNNING"} \union Final, NEW id \in Nat,
           NEW d \in BOOLEAN
    PROVE  /\ [e EXCEPT !.status = s] \in CR
           /\ [e EXCEPT !.status = s].status = s
           /\ [e EXCEPT !.status = s].ids = e.ids
           /\ [e EXCEPT !.ids = Append(e.ids, id)] \in Entries
           /\ [e EXCEPT !.ids = Append(e.ids, id)].status = e.status
           /\ [e EXCEPT !.ids = Append(e.ids, id)].ids = Append(e.ids, id)
           /\ [e EXCEPT !.docking = d] \in Entries
           /\ [e EXCEPT !.docking = d].status = e.status
           /\ [e EXCEPT !.docking = d].ids = e.ids
           /\ e.status = s => e \in CR
<1>1. Append(e.ids, id) \in Seq(Nat)
  BY DEF Entries
<1>2. s \in Statuses /\ s # "none" /\ s # "deleted"
  BY DEF Statuses, Final
<1>3. [e EXCEPT !.status = s] \in Entries
  BY <1>2 DEF Entries, Statuses
<1>4. [e EXCEPT !.ids = Append(e.ids, id)] \in Entries
  BY <1>1 DEF Entries
<1>5. [e EXCEPT !.docking = d] \in Entries
  BY DEF Entries
<1> QED BY <1>2, <1>3, <1>4, <1>5 DEF CR, Entries

-----------------------------------------------------------------------------
(* What the steps of run_mission have in common                               *)

RunFrame == UNCHANGED <<kind, robot_of, cache, calls, missions, upstart, todo, restarts, relists, lost>>

\* It goes on to j and writes nothing; the robot may have got a request.
MovesTo(r, j) ==
    /\ job' = [job EXCEPT ![r] = j]
    /\ UNCHANGED <<crs, stream>> /\ RunFrame
    /\ queue' \in [Ids -> RobotMission] /\ next_id' \in 0 .. MaxRobotMissions
    /\ unanswered' \in {unanswered, unanswered + 1}

\* It writes the status of j and goes on to j, or is at the end of the mission.
SavesTo(r, j) ==
    /\ Watch!Exists(job[r].m) /\ Watch!Write(job[r].m, j.cr)
    /\ job' = [job EXCEPT ![r] = IF j.cr.status \in Final THEN Free ELSE j]
    /\ RunFrame /\ UNCHANGED <<queue, next_id, unanswered>>

\* It never comes back to an action it is done with.
Forward(now, j) ==
    \/ j.pc \in {"end", "stuck"}
    \/ /\ now.pc \notin {"end", "stuck"}
       /\ \/ now.i < j.i
          \/ now.i = j.i /\ (now.pc \in {"register", "watch"} => j.pc \in {"register", "watch"})

\* Where it may go on from its present job.
Goes(now, j) ==
    \/ j = now
    \/ /\ now.pc # "free" /\ j = Free
       /\ ~Watch!Cached(now.m) \/ ~Watch!Exists(now.m)
    \/ /\ now.pc = "begin" /\ j.pc = "stuck" /\ j.m = now.m
    \/ /\ now.pc \in Underway \/ (now.pc = "begin" /\ now.cr.status = "RUNNING")
       /\ j.pc \in Underway /\ j.m = now.m /\ Forward(now, j)

Writes(now, j) ==
    /\ j.m = now.m /\ Forward(now, j)
    /\ \/ now.pc \in {"begin", "register", "watch"} /\ j.pc \in {"action", "watch"}
       \/ now.pc = "end" /\ j.pc = "end"

JobKept(r, j) == j \in Job /\ JobTyped(r, j)

\* The type invariant, variable by variable.
LEMMA TypeFacts ==
    ASSUME TypeOK
    PROVE  /\ kind \in Kinds /\ robot_of \in [Missions -> Robots]
           /\ crs \in [Missions -> CR \union {NotYet, Gone}]
           /\ cache \in [Missions -> CR \union {NotYet, Gone}]
           /\ stream \in [Missions -> Seq(CR \union {Gone})]
           /\ calls \in [Missions -> Seq(CR \union {Gone})]
           /\ missions \in [Missions -> Entries] /\ todo \in [Missions -> Entries]
           /\ upstart \in BOOLEAN
           /\ job \in [Robots -> Job]
           /\ queue \in [Ids -> RobotMission] /\ next_id \in 0 .. MaxRobotMissions
           /\ restarts \in Nat /\ relists \in Nat /\ lost \in Nat /\ unanswered \in Nat
BY VersionData, MissionAssumption DEF TypeOK, Watch!WatchTypeOK

\* What a job consists of.
LEMMA JobData ==
    ASSUME NEW j \in Job
    PROVE  /\ j.m \in Missions \union {None} /\ j.cr \in Entries
           /\ j.pc \in {"free", "begin", "action", "register", "watch", "end", "stuck"}
           /\ j.i \in Nat /\ j.id \in Nat
           /\ j.cr.status \in Statuses /\ j.cr.ids \in Seq(Nat)
BY EntryFields DEF Job

\* What a free robot has.
LEMMA FreeData ==
    /\ Free \in Job /\ Free.m = None /\ Free.cr = NotYet /\ Free.pc = "free"
BY EntryData DEF Free, Job

\* The edits that run_mission makes to a job.
PCs == {"begin", "action", "register", "watch", "end", "stuck"}
Told == {"ACCEPTED", "RUNNING", "SUCCEEDED", "FAILED", "CANCELED"}

\* The calls of run_mission and the statuses it may tell.
LEMMA PCsAndTold ==
    /\ \A pc \in {"begin", "action", "register", "watch", "end", "stuck"} : pc \in PCs
    /\ \A s \in {"ACCEPTED", "RUNNING", "SUCCEEDED", "FAILED", "CANCELED"} : s \in Told
    /\ Told = {"ACCEPTED", "RUNNING"} \union Final
BY DEF PCs, Told, Final

ToPc(j, pc) == [j EXCEPT !.pc = pc]
ToStatus(j, s, pc) == [j EXCEPT !.cr.status = s, !.pc = pc]
ToAction(j, i, pc) == [j EXCEPT !.i = i, !.pc = pc]
ToId(j, id, pc) == [j EXCEPT !.id = id, !.pc = pc]
AddId(j, k, pc) == [j EXCEPT !.cr.ids = Append(j.cr.ids, k), !.pc = pc]
ToDocking(j, d) == [j EXCEPT !.cr.docking = d]

\* j and to differ in none of these.
SameBut(to, j) == to \in Job /\ to.m = j.m

\* A job that goes to another call keeps the rest.
LEMMA PcEdit ==
    ASSUME NEW j \in Job, NEW pc \in PCs
    PROVE  /\ SameBut(ToPc(j, pc), j) /\ ToPc(j, pc).pc = pc /\ ToPc(j, pc).cr = j.cr
           /\ ToPc(j, pc).i = j.i /\ ToPc(j, pc).id = j.id
BY DEF Job, PCs, ToPc, SameBut

\* A job that tells another status keeps the ids.
LEMMA StatusEdit ==
    ASSUME NEW j \in Job, NEW s \in Told, NEW pc \in PCs
    PROVE  /\ SameBut(ToStatus(j, s, pc), j) /\ ToStatus(j, s, pc).pc = pc
           /\ ToStatus(j, s, pc).i = j.i /\ ToStatus(j, s, pc).id = j.id
           /\ ToStatus(j, s, pc).cr \in CR /\ ToStatus(j, s, pc).cr.status = s
           /\ ToStatus(j, s, pc).cr.ids = j.cr.ids
<1>1. [j.cr EXCEPT !.status = s] \in CR /\ CR \subseteq Entries
  BY JobData, EntryEdits, EntryData, PCsAndTold
<1> QED BY <1>1 DEF Job, PCs, Entries, ToStatus, SameBut

\* A job that goes to another action keeps its copy of the CR.
LEMMA ActionEdit ==
    ASSUME NEW j \in Job, NEW i \in Nat, NEW pc \in PCs
    PROVE  /\ SameBut(ToAction(j, i, pc), j) /\ ToAction(j, i, pc).pc = pc
           /\ ToAction(j, i, pc).cr = j.cr /\ ToAction(j, i, pc).i = i
           /\ ToAction(j, i, pc).id = j.id
           /\ j.pc = pc => [j EXCEPT !.i = i] = ToAction(j, i, pc)
BY DEF Job, PCs, ToAction, SameBut

\* A job that watches another robot mission keeps its copy of the CR.
LEMMA IdEdit ==
    ASSUME NEW j \in Job, NEW id \in Nat, NEW pc \in PCs
    PROVE  /\ SameBut(ToId(j, id, pc), j) /\ ToId(j, id, pc).pc = pc
           /\ ToId(j, id, pc).cr = j.cr /\ ToId(j, id, pc).i = j.i /\ ToId(j, id, pc).id = id
BY DEF Job, PCs, ToId, SameBut

\* A job that registers a robot mission adds its id to the CR.
LEMMA IdsEdit ==
    ASSUME NEW j \in Job, NEW k \in Nat, NEW pc \in PCs
    PROVE  /\ SameBut(AddId(j, k, pc), j) /\ AddId(j, k, pc).pc = pc
           /\ AddId(j, k, pc).i = j.i /\ AddId(j, k, pc).id = j.id
           /\ AddId(j, k, pc).cr.status = j.cr.status
           /\ AddId(j, k, pc).cr.ids = Append(j.cr.ids, k)
<1>1. j.cr \in Entries /\ Append(j.cr.ids, k) \in Seq(Nat)
  BY JobData
<1>2. [j.cr EXCEPT !.ids = Append(j.cr.ids, k)] \in Entries
  BY <1>1 DEF Entries
<1> QED BY <1>1, <1>2 DEF Job, PCs, Entries, AddId, SameBut

\* A job that reports docking keeps status and ids.
LEMMA DockingEdit ==
    ASSUME NEW j \in Job, NEW d \in BOOLEAN
    PROVE  /\ SameBut(ToDocking(j, d), j) /\ ToDocking(j, d).pc = j.pc
           /\ ToDocking(j, d).i = j.i /\ ToDocking(j, d).id = j.id
           /\ ToDocking(j, d).cr.status = j.cr.status /\ ToDocking(j, d).cr.ids = j.cr.ids
<1>1. j.cr \in Entries /\ [j.cr EXCEPT !.docking = d] \in Entries
  BY JobData, EntryEdits
<1> QED BY <1>1 DEF Job, Entries, ToDocking, SameBut

\* An update of the CR either reaches it or finds that it is gone.
LEMMA UpdateCases ==
    ASSUME Typed, NEW r \in Robots, NEW saved, NEW gone, Update_cr_status(r, saved, gone)
    PROVE  \/ SavesTo(r, saved)
           \/ MovesTo(r, gone) /\ ~Watch!Cached(job[r].m)
BY TypeFacts DEF Update_cr_status, Known, SavesTo, MovesTo, RunFrame, watch, faults, Typed

\* run_mission goes on without writing the CR.
LEMMA GoCase ==
    ASSUME Typed, NEW r \in Robots, NEW next, Go(r, next)
    PROVE  MovesTo(r, next)
BY TypeFacts DEF Go, MovesTo, RunFrame, watch, faults, Typed

\* The steps of robot r: to a job of the given kind, with or without an
\* update of the CR.
RunStep(r) ==
    \/ \E j : JobKept(r, j) /\ Goes(job[r], j) /\ MovesTo(r, j)
    \/ \E j : JobKept(r, j) /\ Writes(job[r], j) /\ SavesTo(r, j)

\* Setting a mission RUNNING, or refusing it, is a step of a job.
LEMMA BeginStep ==
    ASSUME Typed, NEW r \in Robots, NEW gone \in {Free, ToPc(job[r], "stuck")}, Begin(r, gone)
    PROVE  RunStep(r)
<1> DEFINE now == job[r]
           j == ToStatus(now, "RUNNING", "action")
           stuck == ToPc(now, "stuck")
<1>1. now \in Job /\ JobTyped(r, now) /\ now.pc = "begin"
  BY TypeFacts DEF Typed, Begin
<1>2. j \in Job /\ j.m = now.m /\ j.i = now.i /\ j.pc = "action" /\ j.cr.status = "RUNNING"
  <2>1. "RUNNING" \in Told /\ "action" \in PCs
    BY PCsAndTold
  <2> QED BY <1>1, <2>1, StatusEdit DEF SameBut
<1>3. stuck \in Job /\ stuck.m = now.m /\ stuck.i = now.i /\ stuck.pc = "stuck"
  BY <1>1, PcEdit DEF PCs, SameBut
<1>4. JobKept(r, j) /\ JobKept(r, stuck) /\ JobKept(r, Free)
  BY <1>1, <1>2, <1>3, FreeData DEF JobKept, JobTyped, Final
<1>5. \/ Go(r, j) /\ now.cr.status = "RUNNING"
      \/ Update_cr_status(r, j, gone)
  BY DEF Begin, ToStatus
<1> HIDE DEF j, stuck
<1>6. CASE Go(r, j) /\ now.cr.status = "RUNNING"
  BY <1>1, <1>2, <1>4, <1>6, GoCase DEF RunStep, Goes, Underway, Forward
<1>7. CASE Update_cr_status(r, j, gone)
  <2>1. CASE SavesTo(r, j)
    BY <1>1, <1>2, <1>4, <2>1 DEF RunStep, Writes, Forward
  <2>2. CASE MovesTo(r, gone) /\ ~Watch!Cached(now.m)
    <3>1. gone = Free \/ gone = stuck
      BY DEF stuck
    <3> QED BY <1>1, <1>3, <1>4, <2>2, <3>1 DEF RunStep, Goes
  <2> QED BY <1>7, <2>1, <2>2, UpdateCases
<1> QED BY <1>5, <1>6, <1>7

\* A step that goes on to another call for the same mission.
LEMMA UnderwayStep ==
    ASSUME Typed, NEW r \in Robots, NEW j \in Job, MovesTo(r, j),
           job[r].pc \in Underway, j.m = job[r].m, j.i # 0, Forward(job[r], j),
           \/ j.pc \in {"action", "register", "watch"} /\ j.cr.status = "RUNNING"
           \/ j.pc = "end" /\ j.cr.status \in Final
    PROVE  RunStep(r)
<1>1. job[r] \in Job /\ JobTyped(r, job[r])
  BY TypeFacts DEF Typed
<1>2. JobKept(r, j)
  BY <1>1, JobData DEF JobKept, JobTyped, Underway
<1>3. Goes(job[r], j)
  BY DEF Goes, Underway
<1> QED BY <1>2, <1>3 DEF RunStep

\* Going to the next action is a step of a job.
LEMMA NextActionStep ==
    ASSUME Typed, NEW r \in Robots,
           \/ Next_action(r)
           \/ AtAction(r) /\ Go(r, [job[r] EXCEPT !.i = @ + 1])
    PROVE  RunStep(r)
<1> DEFINE now == job[r]
           ended == ToStatus(now, "SUCCEEDED", "end")
<1>1. now \in Job /\ JobTyped(r, now) /\ now.pc = "action"
  BY TypeFacts DEF Typed, AtAction, Next_action
<1>2. now.i \in Nat /\ now.i # 0 /\ now.cr.status = "RUNNING" /\ now.cr.ids \in Seq(Nat)
  BY <1>1, JobData DEF JobTyped
<1>3. "SUCCEEDED" \in Told /\ "end" \in PCs /\ "action" \in PCs /\ "watch" \in PCs /\ "SUCCEEDED" \in Final
  BY PCsAndTold DEF Final
<1>4. CASE AtAction(r) /\ now.i <= Len(now.cr.ids) /\ Go(r, ToId(now, now.cr.ids[now.i], "watch"))
  <2>1. PICK id \in Nat : id = now.cr.ids[now.i]
    BY <1>2, <1>4
  <2>2. MovesTo(r, ToId(now, id, "watch"))
    BY <1>4, <2>1, GoCase
  <2>3. /\ ToId(now, id, "watch") \in Job /\ ToId(now, id, "watch").m = now.m
        /\ ToId(now, id, "watch").pc = "watch" /\ ToId(now, id, "watch").i = now.i
        /\ ToId(now, id, "watch").cr = now.cr
    BY <1>1, <1>3, IdEdit DEF SameBut
  <2> QED BY <1>1, <1>2, <2>2, <2>3, UnderwayStep DEF Underway, Forward
<1>5. CASE Go(r, ended)
  <2>1. ended \in Job /\ ended.m = now.m /\ ended.i = now.i /\ ended.pc = "end" /\ ended.cr.status = "SUCCEEDED"
    BY <1>1, <1>3, StatusEdit DEF SameBut
  <2> HIDE DEF ended
  <2> QED BY <1>1, <1>2, <1>3, <1>5, <2>1, GoCase, UnderwayStep DEF Underway, Forward
<1>6. CASE AtAction(r) /\ Go(r, [now EXCEPT !.i = now.i + 1])
  <2>1. PICK i \in Nat : i = now.i + 1
    BY <1>2
  <2>2. MovesTo(r, ToAction(now, i, "action"))
    BY <1>1, <1>3, <1>6, <2>1, GoCase, ActionEdit
  <2>3. /\ ToAction(now, i, "action") \in Job /\ ToAction(now, i, "action").m = now.m
        /\ ToAction(now, i, "action").pc = "action" /\ ToAction(now, i, "action").i = i
        /\ ToAction(now, i, "action").cr = now.cr
    BY <1>1, <1>3, ActionEdit DEF SameBut
  <2> QED BY <1>1, <1>2, <2>1, <2>2, <2>3, UnderwayStep DEF Underway, Forward
<1> QED BY <1>4, <1>5, <1>6 DEF Next_action, ToId, ToStatus, Ended

\* A request adds a robot mission at most.
LEMMA QueueStep ==
    ASSUME Typed, NEW r \in Robots, Enqueue(r), job[r].pc # "free"
    PROVE  queue' \in [Ids -> RobotMission] /\ next_id' \in 0 .. MaxRobotMissions
<1>1. job[r] \in Job /\ next_id \in 0 .. MaxRobotMissions /\ MaxRobotMissions \in Nat
  BY TypeFacts, MissionAssumption DEF Typed
<1>2. next_id' \in Ids /\ next_id' \in 0 .. MaxRobotMissions
  BY <1>1 DEF Enqueue, Ids
<1>3. [m |-> job[r].m, action |-> job[r].i, state |-> "Executing"] \in RobotMission
  BY <1>1, JobData DEF RobotMission, Unfinished
<1>4. queue \in [Ids -> RobotMission]
  BY TypeFacts DEF Typed
<1> QED BY <1>2, <1>3, <1>4 DEF Enqueue

\* A request that is answered, and one that is not.
LEMMA AnsweredStep ==
    ASSUME Typed, NEW r \in Robots, Needs_creation(r), Answered(r),
           queue' \in [Ids -> RobotMission], next_id' \in 0 .. MaxRobotMissions
    PROVE  RunStep(r)
<1> DEFINE now == job[r]
<1>1. now \in Job /\ JobTyped(r, now) /\ now.pc = "action"
  BY TypeFacts DEF Typed, AtAction, Needs_creation
<1>2. PICK id \in Nat : id = next_id'
  BY MissionAssumption
<1>3. "register" \in PCs
  BY PCsAndTold
<1>4. job' = [job EXCEPT ![r] = ToId(now, id, "register")]
  BY <1>2, TypeFacts DEF Answered, ToId, Typed
<1>5. MovesTo(r, ToId(now, id, "register"))
  BY <1>4, TypeFacts DEF Answered, MovesTo, RunFrame, watch, faults, Typed
<1>6. /\ ToId(now, id, "register") \in Job /\ ToId(now, id, "register").m = now.m
      /\ ToId(now, id, "register").pc = "register" /\ ToId(now, id, "register").i = now.i
      /\ ToId(now, id, "register").cr = now.cr
  BY <1>1, <1>3, IdEdit DEF SameBut
<1> QED BY <1>1, <1>5, <1>6, UnderwayStep DEF Underway, JobTyped, Forward

\* A request that fails is a step of a job.
LEMMA FailedStep ==
    ASSUME Typed, NEW r \in Robots, job[r].pc \in {"action", "watch"}, Request_fails(r),
           Enqueue(r) \/ UNCHANGED <<queue, next_id>>
    PROVE  RunStep(r)
<1> DEFINE now == job[r]
           ended == ToStatus(now, "FAILED", "end")
<1>1. now \in Job /\ JobTyped(r, now)
  BY TypeFacts DEF Typed
<1>2. "FAILED" \in Told /\ "end" \in PCs /\ "FAILED" \in Final
  BY PCsAndTold DEF Final
<1>3. queue' \in [Ids -> RobotMission] /\ next_id' \in 0 .. MaxRobotMissions
  BY QueueStep, TypeFacts DEF Typed
<1>4. MovesTo(r, ended)
  BY <1>3, TypeFacts DEF Request_fails, Ended, ToStatus, MovesTo, RunFrame, watch, Typed
<1>5. ended \in Job /\ ended.m = now.m /\ ended.i = now.i /\ ended.pc = "end" /\ ended.cr.status = "FAILED"
  BY <1>1, <1>2, StatusEdit DEF SameBut
<1> HIDE DEF ended
<1> QED BY <1>1, <1>2, <1>4, <1>5, UnderwayStep DEF Underway, JobTyped, Forward

\* A request that is sent again leaves the job where it is.
LEMMA SentAgainStep ==
    ASSUME Typed, NEW r \in Robots, Needs_creation(r), Sent_again(r),
           Enqueue(r) \/ UNCHANGED <<queue, next_id>>
    PROVE  MovesTo(r, job[r]) /\ RunStep(r)
<1>1. JobKept(r, job[r]) /\ job = [job EXCEPT ![r] = job[r]] /\ job[r].pc # "free"
  BY TypeFacts DEF Typed, JobKept, Needs_creation, AtAction
<1>2. queue' \in [Ids -> RobotMission] /\ next_id' \in 0 .. MaxRobotMissions
  BY <1>1, QueueStep, TypeFacts DEF Typed
<1>3. MovesTo(r, job[r])
  BY <1>1, <1>2 DEF Sent_again, MovesTo, RunFrame, watch
<1> QED BY <1>1, <1>3 DEF RunStep, Goes

\* A request to the robot is a step of a job.
LEMMA PostStep ==
    ASSUME Typed, NEW r \in Robots, Needs_creation(r), Post(r)
    PROVE  RunStep(r)
BY QueueStep, AnsweredStep, SentAgainStep, FailedStep DEF Post, Needs_creation, AtAction

\* An action of the dummy is a step of a job.
LEMMA DummyRequestStep ==
    ASSUME Typed, NEW r \in Robots, Dummy_run_action(r)
    PROVE  RunStep(r)
<1>1. next_id \in 0 .. MaxRobotMissions /\ queue \in [Ids -> RobotMission] /\ MaxRobotMissions \in Nat
  BY TypeFacts, MissionAssumption DEF Typed
<1>2. queue' \in [Ids -> RobotMission] /\ next_id' \in 0 .. MaxRobotMissions
  <2>1. CASE Enqueue(r)
    BY <2>1, QueueStep DEF Dummy_run_action, Needs_creation, AtAction
  <2>2. CASE next_id < MaxRobotMissions /\ next_id' = next_id + 1 /\ UNCHANGED queue
    BY <1>1, <2>2
  <2> QED BY <2>1, <2>2 DEF Dummy_run_action, Next_mission_id
<1> QED BY <1>2, AnsweredStep DEF Dummy_run_action

\* Writing the id of the robot mission into the CR is a step of a job.
LEMMA RegisterStep ==
    ASSUME Typed, NEW r \in Robots, Register(r)
    PROVE  RunStep(r)
<1> DEFINE now == job[r]
           j == AddId(now, now.id, "watch")
           ended == ToStatus(j, "CANCELED", "end")
<1>1. now \in Job /\ JobTyped(r, now) /\ now.pc = "register" /\ now.id \in Nat
  BY TypeFacts, JobData DEF Typed, Register
<1>2. "CANCELED" \in Told /\ "end" \in PCs /\ "watch" \in PCs /\ "CANCELED" \in Final
  BY PCsAndTold DEF Final
<1>3. /\ j \in Job /\ j.m = now.m /\ j.i = now.i /\ j.pc = "watch"
      /\ j.cr.status = now.cr.status
  BY <1>1, <1>2, IdsEdit DEF SameBut
<1>4. Update_cr_status(r, j, ended)
  BY DEF Register, AddId, Ended, ToStatus
<1> HIDE DEF j
<1>5. /\ ended \in Job /\ ended.m = j.m /\ ended.i = j.i /\ ended.pc = "end"
      /\ ended.cr.status = "CANCELED"
  BY <1>2, <1>3, StatusEdit DEF SameBut
<1> HIDE DEF ended
<1>6. CASE SavesTo(r, j)
  BY <1>1, <1>3, <1>6 DEF RunStep, Writes, JobKept, JobTyped, Forward
<1>7. CASE MovesTo(r, ended)
  BY <1>1, <1>2, <1>3, <1>5, <1>7, UnderwayStep DEF Underway, JobTyped, Forward
<1> QED BY <1>4, <1>6, <1>7, UpdateCases

\* Looking at the robot mission is a step of a job.
LEMMA WatchRunningStep ==
    ASSUME Typed, NEW r \in Robots, Watch_running(r)
    PROVE  RunStep(r)
<1> DEFINE now == job[r]
<1>1. /\ now \in Job /\ JobTyped(r, now) /\ now.pc = "watch"
      /\ now.i \in Nat /\ now.i # 0 /\ now.cr.status = "RUNNING"
  BY TypeFacts, JobData DEF Typed, Watch_running, JobTyped
<1>2. "end" \in PCs /\ "action" \in PCs
  BY PCsAndTold
<1>3. CASE Go(r, [now EXCEPT !.i = now.i + 1, !.pc = "action"])
  <2>1. PICK i \in Nat : i = now.i + 1
    BY <1>1
  <2>2. MovesTo(r, ToAction(now, i, "action"))
    BY <1>3, <2>1, GoCase DEF ToAction
  <2>3. /\ ToAction(now, i, "action") \in Job /\ ToAction(now, i, "action").m = now.m
        /\ ToAction(now, i, "action").pc = "action" /\ ToAction(now, i, "action").i = i
        /\ ToAction(now, i, "action").cr = now.cr
    BY <1>1, <1>2, ActionEdit DEF SameBut
  <2> QED BY <1>1, <2>1, <2>2, <2>3, UnderwayStep DEF Underway, Forward
<1>4. ASSUME NEW s \in {"FAILED", "CANCELED"}, Go(r, ToStatus(now, s, "end"))
      PROVE  RunStep(r)
  <2>1. s \in Told /\ s \in Final
    BY PCsAndTold DEF Final
  <2>2. /\ ToStatus(now, s, "end") \in Job /\ ToStatus(now, s, "end").m = now.m
        /\ ToStatus(now, s, "end").i = now.i /\ ToStatus(now, s, "end").pc = "end"
        /\ ToStatus(now, s, "end").cr.status = s
    BY <1>1, <1>2, <2>1, StatusEdit DEF SameBut
  <2> QED BY <1>1, <1>4, <2>1, <2>2, GoCase, UnderwayStep DEF Underway, Forward
<1> QED BY <1>3, <1>4 DEF Watch_running, Ended, ToStatus

\* Reporting where the robot is, is a step of a job.
LEMMA ReportStep ==
    ASSUME Typed, NEW r \in Robots, Report_activity(r)
    PROVE  RunStep(r)
<1> DEFINE now == job[r]
<1>1. now \in Job /\ JobTyped(r, now) /\ now.pc = "watch"
  BY TypeFacts DEF Typed, Report_activity, New_activity
<1>2. PICK d \in BOOLEAN : d = (State(r) = "Docking")
  OBVIOUS
<1>3. "CANCELED" \in Told /\ "end" \in PCs /\ "CANCELED" \in Final
  BY PCsAndTold DEF Final
<1>4. PICK j \in Job : j = ToDocking(now, d) /\ j.m = now.m /\ j.i = now.i /\ j.pc = "watch"
                       /\ j.cr.status = now.cr.status
  BY <1>1, DockingEdit DEF SameBut
<1>5. PICK ended \in Job : ended = ToStatus(j, "CANCELED", "end") /\ ended.m = j.m /\ ended.i = j.i
                           /\ ended.pc = "end" /\ ended.cr.status = "CANCELED"
  BY <1>3, StatusEdit DEF SameBut
<1>6. Update_cr_status(r, j, ended)
  BY <1>2, <1>4, <1>5 DEF Report_activity, Ended, ToStatus, ToDocking
<1>7. CASE SavesTo(r, j)
  BY <1>1, <1>4, <1>7 DEF RunStep, Writes, JobKept, JobTyped, Forward
<1>8. CASE MovesTo(r, ended)
  BY <1>1, <1>3, <1>4, <1>5, <1>8, UnderwayStep DEF Underway, JobTyped, Forward
<1> QED BY <1>6, <1>7, <1>8, UpdateCases

\* Writing the final status is a step of a job.
LEMMA EndStep ==
    ASSUME Typed, NEW r \in Robots, End_mission(r)
    PROVE  RunStep(r)
<1>1. job[r] \in Job /\ JobTyped(r, job[r]) /\ job[r].pc = "end"
  BY TypeFacts DEF Typed, End_mission
<1>2. JobKept(r, Free) /\ JobKept(r, job[r])
  BY <1>1, FreeData DEF JobKept, JobTyped
<1>3. CASE SavesTo(r, job[r])
  BY <1>1, <1>2, <1>3 DEF RunStep, Writes, Forward
<1>4. CASE MovesTo(r, Free) /\ ~Watch!Cached(job[r].m)
  BY <1>1, <1>2, <1>4 DEF RunStep, Goes
<1> QED BY <1>3, <1>4, UpdateCases DEF End_mission

\* The counter of the dummy is a step of a job.
LEMMA CountStep ==
    ASSUME Typed, NEW r \in Robots, Dummy_counts(r)
    PROVE  RunStep(r)
<1>1. JobKept(r, job[r]) /\ job = [job EXCEPT ![r] = job[r]]
  BY TypeFacts DEF Typed, JobKept
<1>2. queue' \in [Ids -> RobotMission]
  <2>1. PICK s \in {"Executing", "Done"} : queue' = [queue EXCEPT ![job[r].id].state = s]
    <3>1. PICK next \in {<<"none", "Executing">>, <<"Executing", "Done">>} :
                queue' = [queue EXCEPT ![job[r].id].state = next[2]]
      BY DEF Dummy_counts
    <3>2. next[2] \in {"Executing", "Done"}
      OBVIOUS
    <3> QED BY <3>1, <3>2
  <2>2. s \in {"none", "Done", "Aborted", "Canceled"} \union Unfinished
    BY DEF Unfinished
  <2>3. \A q \in RobotMission : [q EXCEPT !.state = s] \in RobotMission
    BY <2>2 DEF RobotMission
  <2>4. queue \in [Ids -> RobotMission]
    BY TypeFacts DEF Typed
  <2> QED BY <2>1, <2>3, <2>4
<1>3. MovesTo(r, job[r])
  BY <1>1, <1>2, TypeFacts DEF Dummy_counts, MovesTo, RunFrame, watch, faults, Typed
<1> QED BY <1>1, <1>3 DEF RunStep, Goes

\* An update of the dummy that finds no CR is a step of a job.
LEMMA NotFoundStep ==
    ASSUME Typed, NEW r \in Robots, Dummy_update_not_found(r)
    PROVE  RunStep(r)
<1>1. MovesTo(r, Free) /\ ~Watch!Exists(job[r].m)
  BY GoCase DEF Dummy_update_not_found
<1>2. job[r].pc # "free"
  BY DEF Dummy_update_not_found, Updating, New_activity
<1>3. JobKept(r, Free)
  BY FreeData DEF JobKept, JobTyped
<1> QED BY <1>1, <1>2, <1>3 DEF RunStep, Goes

\* The steps of run_mission.
LEMMA RunSteps ==
    ASSUME Typed, NEW r \in Robots, Run_mission(r)
    PROVE  Start_again \/ RunStep(r)
<1>1. CASE Mir_run(r)
  <2>1. Poll_fails(r) => RunStep(r)
    BY FailedStep DEF Poll_fails
  <2>2. Free \in {Free, ToPc(job[r], "stuck")}
    OBVIOUS
  <2> QED BY <1>1, <2>1, <2>2, BeginStep, NextActionStep, PostStep, RegisterStep, WatchRunningStep,
             ReportStep, EndStep
          DEF Mir_run, Mir_begin, Mir_next_action, Mir_run_action, Mir_register, Mir_watch_running, Mir_end
<1>2. CASE Fetch_run(r)
  <2>1. Fetch_begin(r) => RunStep(r)
    BY BeginStep DEF Fetch_begin, ToPc
  <2>2. Fetch_run_action(r) => RunStep(r)
    BY PostStep DEF Fetch_run_action, Fetch_move_to_position, Fetch_get_or_return_trolley
  <2>3. Fetch_next_action(r) => RunStep(r)
    BY NextActionStep DEF Fetch_next_action
  <2> QED BY <1>2, <2>1, <2>2, <2>3, RegisterStep, WatchRunningStep, EndStep
          DEF Fetch_run, Fetch_register, Fetch_watch_running, Fetch_end
<1>3. CASE Dummy_run(r)
  <2>1. Free \in {Free, ToPc(job[r], "stuck")}
    OBVIOUS
  <2> QED BY <1>3, <2>1, BeginStep, NextActionStep, DummyRequestStep, RegisterStep, WatchRunningStep,
             EndStep, CountStep, NotFoundStep
          DEF Dummy_run, Dummy_begin, Dummy_next_action, Dummy_register, Dummy_watch_running, Dummy_end
<1>4. CASE Update_not_found(r)
  BY <1>4 DEF Update_not_found
<1> QED BY <1>1, <1>2, <1>3, <1>4 DEF Run_mission

-----------------------------------------------------------------------------
(* What the other steps have in common                                        *)

\* A callback of m: the copy of a deleted CR goes or stays.
CallStep(m) ==
    /\ calls[m] # <<>> /\ calls' = [calls EXCEPT ![m] = Tail(@)]
    /\ \/ Head(calls[m]) # Gone /\ Store(m, Head(calls[m]))
       \/ Head(calls[m]) = Gone /\ (Store(m, NotYet) \/ UNCHANGED missions)
    /\ \/ UNCHANGED <<crs, stream>>
       \/ /\ missions[m] = NotYet /\ Head(calls[m]).status = "new" /\ Watch!Exists(m)
          /\ Store(m, Head(calls[m]))
          /\ Watch!Write(m, [NewCR EXCEPT !.status = "ACCEPTED"])
    /\ \E canceled \in SUBSET Nat : queue' = Stopped(canceled)
    /\ unanswered' \in {unanswered, unanswered + 1}
    /\ UNCHANGED <<kind, robot_of, cache, upstart, todo, job, next_id, restarts, relists, lost>>

\* A callback accepts a mission, keeps its copy or cancels.
LEMMA CallSteps ==
    ASSUME Typed, NEW m \in Missions, Callback(m)
    PROVE  CallStep(m)
<1> USE TypeFacts DEF Typed
<1>1. queue = Stopped({})
  BY DEF Stopped
<1>2. {} \in SUBSET Nat
  OBVIOUS
<1>3. CASE Robco_mission_cb(m)
  BY <1>1, <1>2, <1>3 DEF Robco_mission_cb, CallStep, Store, faults
<1>4. ASSUME Drop(m, {}), Store(m, NotYet) \/ UNCHANGED missions
      PROVE  CallStep(m)
  BY <1>2, <1>4 DEF Drop, Deleted_cb, CallStep
<1>5. ASSUME Drop(m, {LastId(m)}), JobOf(m).cr.ids # <<>>, Store(m, NotYet) \/ UNCHANGED missions
      PROVE  CallStep(m)
  <2>1. robot_of[m] \in Robots /\ JobOf(m) \in Job
    BY DEF JobOf
  <2>2. JobOf(m).cr.ids \in Seq(Nat)
    BY <2>1, JobData
  <2>3. PICK ids \in Seq(Nat) : ids = JobOf(m).cr.ids
    BY <2>2
  <2>4. ids[Len(ids)] \in Nat
    BY <1>5, <2>3
  <2>5. {LastId(m)} \in SUBSET Nat
    BY <2>3, <2>4 DEF LastId
  <2> QED BY <1>5, <2>5 DEF Drop, Deleted_cb, CallStep
<1>6. CASE Cancel_fails(m) /\ (Store(m, NotYet) \/ UNCHANGED missions)
  BY <1>1, <1>2, <1>6 DEF Cancel_fails, Deleted_cb, CallStep
<1>7. CASE Mir_callback(m)
  BY <1>3, <1>4, <1>5, <1>6, <1>7
     DEF Mir_callback, Mir_robco_mission_cb, Mir_mission_deleted_cb, Mir_cancel_fails
<1>8. CASE Fetch_callback(m)
  BY <1>3, <1>4, <1>5, <1>6, <1>8
     DEF Fetch_callback, Fetch_robco_mission_cb, Fetch_mission_deleted_cb, Fetch_cancel_task_fails
<1>9. CASE Dummy_callback(m)
  BY <1>3, <1>4, <1>9 DEF Dummy_callback, Dummy_robco_mission_cb, Dummy_mission_deleted_cb
<1> QED BY <1>7, <1>8, <1>9 DEF Callback

\* A step of the watch: nothing of the controller but its cache and the calls
\* of callbacks.
WatchStep ==
    /\ \/ \E m \in Missions : Watch!Watch_on_crs(m)
       \/ Watch!Synchronize_cache \/ Watch!Init_watcher
       \/ Watch!Too_old /\ lost' = lost + 1
    /\ lost' \in {lost, lost + 1} /\ relists' \in Nat
    /\ UNCHANGED <<kind, robot_of, missions, upstart, todo, job, queue, next_id, restarts, unanswered>>

\* The watch moves versions of CRs, and changes none.
LEMMA WatchSteps ==
    ASSUME Typed, (\E m \in Missions : Watch_event(m)) \/ Synchronize \/ Relist \/ Lose
    PROVE  WatchStep
<1>0. lost \in Nat /\ relists \in Nat
  BY TypeFacts DEF Typed
<1>1. CASE \E m \in Missions : Watch_event(m)
  BY <1>0, <1>1 DEF Watch_event, WatchStep, Controller_vars, faults
<1>2. CASE Synchronize
  <2>1. Watch!Synchronize_cache /\ UNCHANGED <<Controller_vars, faults>>
    BY <1>2 DEF Synchronize
  <2> QED BY <1>0, <2>1 DEF WatchStep, Controller_vars, faults
<1>3. CASE Relist
  <2>1. Watch!Init_watcher /\ relists' = relists + 1 /\ UNCHANGED <<Controller_vars, restarts, lost, unanswered>>
    BY <1>3 DEF Relist
  <2> QED BY <1>0, <2>1 DEF WatchStep, Controller_vars
<1>4. CASE Lose
  <2>1. Watch!Too_old /\ lost' = lost + 1 /\ UNCHANGED <<Controller_vars, restarts, relists, unanswered>>
    BY <1>4 DEF Lose
  <2> QED BY <1>0, <2>1 DEF WatchStep, Controller_vars
<1> QED BY <1>1, <1>2, <1>3, <1>4

\* The robot controller creates or deletes a mission.
EnvStep(m) ==
    /\ \/ crs[m] = NotYet /\ Watch!Write(m, NewCR)
       \/ Watch!Exists(m) /\ Watch!Write(m, Gone)
    /\ UNCHANGED <<kind, robot_of, cache, calls, missions, upstart, todo, job, queue, next_id, faults>>

\* A robot works.
RobotStep ==
    /\ \E id \in Ids : Robot_works(id)
    /\ queue' \in [Ids -> RobotMission]
    /\ UNCHANGED <<kind, robot_of, watch, missions, upstart, todo, job, next_id, faults>>

\* A robot changes the states of its robot missions only.
LEMMA RobotSteps ==
    ASSUME Typed, NEW id \in Ids, Robot_works(id)
    PROVE  RobotStep
<1>1. PICK s \in After(id) : queue' = [queue EXCEPT ![id].state = s]
  BY DEF Robot_works
<1>2. s \in {"Docking", "Done", "Aborted"}
  BY <1>1 DEF After
<1>3. queue \in [Ids -> RobotMission] /\ queue[id] \in RobotMission
  BY TypeFacts DEF Typed
<1>4. [queue[id] EXCEPT !.state = s] \in RobotMission
  BY <1>2, <1>3 DEF RobotMission, Unfinished
<1> QED BY <1>1, <1>3, <1>4 DEF RobotStep, Robot_works

\* A step of the loop, of a callback, of the watch, of a robot or of the robot
\* controller.
OtherStep ==
    \/ \E m \in Missions : CallStep(m) \/ EnvStep(m) \/ Visit(m)
    \/ kind # "fetch" /\ Start_pass
    \/ kind = "fetch" /\ Fetch_watch_missions
    \/ WatchStep \/ RobotStep \/ Start_again

SomeStep == OtherStep \/ \E r \in Robots : RunStep(r)

\* Every step is one of run_mission or one that leaves the jobs' calls alone.
LEMMA OtherSteps ==
    ASSUME Typed, Next
    PROVE  OtherStep \/ \E r \in Robots : Run_mission(r)
<1>1. ASSUME NEW m \in Missions, Callback(m) \/ Create_mission(m) \/ Delete_mission(m)
      PROVE  CallStep(m) \/ EnvStep(m)
  BY <1>1, CallSteps DEF EnvStep, Create_mission, Delete_mission
<1>2. Watch_missions =>
        \/ \E m \in Missions : Visit(m)
        \/ kind # "fetch" /\ Start_pass
        \/ kind = "fetch" /\ Fetch_watch_missions
  BY DEF Watch_missions, Mir_watch_missions, Fetch_watch_missions, Dummy_watch_missions
<1>3. CASE \E m \in Missions : Callback(m) \/ Create_mission(m) \/ Delete_mission(m)
  BY <1>1, <1>3 DEF OtherStep
<1>4. CASE (\E m \in Missions : Watch_event(m)) \/ Synchronize \/ Relist \/ Lose
  BY <1>4, WatchSteps DEF OtherStep
<1>5. CASE \E id \in Ids : Robot_works(id)
  BY <1>5, RobotSteps DEF OtherStep
<1>6. CASE Watch_missions
  BY <1>2, <1>6 DEF OtherStep
<1>7. CASE Restart
  BY <1>7 DEF OtherStep, Restart
<1> QED BY <1>3, <1>4, <1>5, <1>6, <1>7 DEF Next

\* Every step is one of the kinds the invariants are proved for.
LEMMA Steps ==
    ASSUME Typed, Next
    PROVE  SomeStep
<1>1. ASSUME NEW r \in Robots, Run_mission(r)
      PROVE  RunStep(r) \/ Start_again
  BY <1>1, RunSteps
<1> QED BY <1>1, OtherSteps DEF SomeStep, OtherStep

-----------------------------------------------------------------------------
(* Types                                                                      *)

\* The elements of a sequence, of its head and tail, and with one more.
LEMMA SeqData ==
    ASSUME NEW S, NEW s \in Seq(S)
    PROVE  /\ Elems(s) \subseteq S /\ Elems(<<>>) = {}
           /\ s # <<>> => /\ Head(s) \in Elems(s) /\ Tail(s) \in Seq(S)
                          /\ Elems(Tail(s)) \subseteq Elems(s)
                          /\ Elems(s) = {Head(s)} \union Elems(Tail(s))
           /\ \A x \in S : Append(s, x) \in Seq(S) /\ Elems(Append(s, x)) = Elems(s) \union {x}
<1>1. DOMAIN s = 1 .. Len(s) /\ Len(s) \in Nat /\ Elems(s) \subseteq S /\ Elems(<<>>) = {}
  BY DEF Elems
<1>2. ASSUME s # <<>>
      PROVE  /\ Head(s) \in Elems(s) /\ Tail(s) \in Seq(S)
             /\ Elems(Tail(s)) \subseteq Elems(s)
             /\ Elems(s) = {Head(s)} \union Elems(Tail(s))
  <2>1. /\ Tail(s) \in Seq(S) /\ Len(Tail(s)) = Len(s) - 1 /\ Head(s) = s[1]
        /\ 1 \in DOMAIN s /\ DOMAIN Tail(s) = 1 .. (Len(s) - 1)
        /\ \A k \in 1 .. (Len(s) - 1) : Tail(s)[k] = s[k + 1]
    BY <1>1, <1>2
  <2>2. ASSUME NEW k \in DOMAIN s
        PROVE  s[k] = Head(s) \/ s[k] \in Elems(Tail(s))
    <3>1. CASE k = 1
      BY <2>1, <3>1
    <3>2. CASE k # 1
      <4>1. k - 1 \in DOMAIN Tail(s) /\ Tail(s)[k - 1] = s[k]
        BY <1>1, <2>1, <3>2
      <4> QED BY <4>1 DEF Elems
    <3> QED BY <3>1, <3>2
  <2>3. ASSUME NEW k \in DOMAIN Tail(s)
        PROVE  Tail(s)[k] \in Elems(s)
    <3>1. k + 1 \in DOMAIN s /\ Tail(s)[k] = s[k + 1]
      BY <1>1, <2>1
    <3> QED BY <3>1 DEF Elems
  <2> QED BY <2>1, <2>2, <2>3 DEF Elems
<1>3. ASSUME NEW x \in S
      PROVE  Append(s, x) \in Seq(S) /\ Elems(Append(s, x)) = Elems(s) \union {x}
  <2>1. /\ DOMAIN Append(s, x) = 1 .. (Len(s) + 1) /\ Append(s, x)[Len(s) + 1] = x
        /\ \A k \in 1 .. Len(s) : Append(s, x)[k] = s[k]
    BY <1>1
  <2> QED BY <1>1, <2>1 DEF Elems
<1> QED BY <1>1, <1>2, <1>3

\* A list of the API server has the CR once if it exists.
LEMMA ListedData ==
    ASSUME Typed, NEW m \in Missions
    PROVE  /\ Watch!Listed(m) \in Seq(CR \union {Gone})
           /\ calls[m] \o Watch!Listed(m) \in Seq(CR \union {Gone})
           /\ Watch!Exists(m) => /\ crs[m] \in CR
                                /\ Watch!Listed(m) = <<crs[m]>>
                                /\ Elems(Watch!Listed(m)) = {crs[m]}
                                /\ calls[m] \o Watch!Listed(m) = Append(calls[m], crs[m])
           /\ ~Watch!Exists(m) => /\ Watch!Listed(m) = <<>>
                                 /\ calls[m] \o Watch!Listed(m) = calls[m]
<1>1. calls[m] \in Seq(CR \union {Gone}) /\ crs[m] \in CR \union {NotYet, Gone}
  BY TypeFacts DEF Typed
<1>2. CASE Watch!Exists(m)
  <2>1. crs[m] \in CR /\ Watch!Listed(m) = <<crs[m]>>
    BY <1>1, <1>2 DEF Watch!Listed, Watch!Exists
  <2>2. PICK v \in CR : v = crs[m]
    BY <2>1
  <2>3. <<v>> \in Seq(CR \union {Gone}) /\ calls[m] \o <<v>> = Append(calls[m], v)
    BY <1>1
  <2>4. Elems(<<v>>) = {v}
    BY DEF Elems
  <2>5. Append(calls[m], v) \in Seq(CR \union {Gone})
    BY <1>1, SeqData
  <2> QED BY <1>2, <2>1, <2>2, <2>3, <2>4, <2>5
<1>3. CASE ~Watch!Exists(m)
  <2>1. Watch!Listed(m) = <<>>
    BY <1>3 DEF Watch!Listed
  <2>2. <<>> \in Seq(CR \union {Gone}) /\ calls[m] \o <<>> = calls[m]
    BY <1>1
  <2> QED BY <1>1, <1>3, <2>1, <2>2
<1> QED BY <1>2, <1>3

\* A write changes one CR and puts the version on its way.
LEMMA WriteTypes ==
    ASSUME Typed, NEW m \in Missions, NEW v \in CR \union {Gone}, Watch!Write(m, v)
    PROVE  /\ crs' \in [Missions -> CR \union {NotYet, Gone}] /\ crs'[m] = v
           /\ \A n \in Missions \ {m} : crs'[n] = crs[n] /\ stream'[n] = stream[n]
           /\ stream' \in [Missions -> Seq(CR \union {Gone})]
           /\ Elems(stream'[m]) = Elems(stream[m]) \union {v}
           /\ stream'[m] = Append(stream[m], v)
<1>1. /\ crs \in [Missions -> CR \union {NotYet, Gone}]
      /\ stream \in [Missions -> Seq(CR \union {Gone})]
  BY TypeFacts DEF Typed
<1>2. crs' = [crs EXCEPT ![m] = v] /\ stream' = [stream EXCEPT ![m] = Append(stream[m], v)]
  BY DEF Watch!Write
<1>3. stream[m] \in Seq(CR \union {Gone})
  BY <1>1
<1>4. Append(stream[m], v) \in Seq(CR \union {Gone})
      /\ Elems(Append(stream[m], v)) = Elems(stream[m]) \union {v}
  BY <1>3, SeqData
<1> QED BY <1>1, <1>2, <1>4

\* A step keeps the types when it keeps that of every variable.
LEMMA TypesKept ==
    ASSUME Typed, kind' = kind, robot_of' = robot_of,
           crs' \in [Missions -> CR \union {NotYet, Gone}],
           cache' \in [Missions -> CR \union {NotYet, Gone}],
           stream' \in [Missions -> Seq(CR \union {Gone})],
           calls' \in [Missions -> Seq(CR \union {Gone})],
           missions' \in [Missions -> Entries], todo' \in [Missions -> Entries],
           upstart' \in BOOLEAN, job' \in [Robots -> Job],
           queue' \in [Ids -> RobotMission], next_id' \in 0 .. MaxRobotMissions,
           restarts' \in Nat, relists' \in Nat, lost' \in Nat, unanswered' \in Nat
    PROVE  TypeOK'
<1>1. kind \in Kinds /\ robot_of \in Assignments
  BY DEF Typed, TypeOK
<1>2. (Watch!Entry = CR \union {NotYet, Gone} /\ Watch!Version = CR \union {Gone})
  BY VersionData
<1>3. Watch!WatchTypeOK'
  BY <1>2 DEF Watch!WatchTypeOK
<1> QED BY <1>1, <1>3 DEF TypeOK

\* A step of one job keeps the types of all.
LEMMA JobsKept ==
    ASSUME Typed, robot_of' = robot_of, NEW r \in Robots, NEW j, JobKept(r, j),
           job' = [job EXCEPT ![r] = j]
    PROVE  /\ job' \in [Robots -> Job] /\ \A q \in Robots : JobTyped(q, job[q])'
           /\ job'[r] = j /\ \A q \in Robots \ {r} : job'[q] = job[q]
<1>1. job \in [Robots -> Job] /\ \A q \in Robots : JobTyped(q, job[q])
  BY TypeFacts DEF Typed
<1>2. \A q \in Robots : job'[q] = IF q = r THEN j ELSE job[q]
  BY <1>1
<1>3. \A q \in Robots : job'[q] \in Job /\ JobTyped(q, job'[q])
  BY <1>1, <1>2 DEF JobKept
<1> QED BY <1>1, <1>2, <1>3 DEF JobTyped, JobKept

\* Callbacks keep the types.
LEMMA CallTyped ==
    ASSUME Typed, NEW m \in Missions, CallStep(m)
    PROVE  Typed'
<1> USE TypeFacts DEF Typed
<1>1. calls[m] \in Seq(CR \union {Gone}) /\ calls[m] # <<>>
  BY DEF CallStep
<1>2. Head(calls[m]) \in CR \union {Gone} /\ Tail(calls[m]) \in Seq(CR \union {Gone})
  BY <1>1, SeqData
<1>3. calls' \in [Missions -> Seq(CR \union {Gone})]
  BY <1>2 DEF CallStep
<1>4. missions' \in [Missions -> Entries]
  BY <1>2, EntryData DEF CallStep, Store
<1>5. /\ crs' \in [Missions -> CR \union {NotYet, Gone}]
      /\ stream' \in [Missions -> Seq(CR \union {Gone})]
  <2>1. CASE UNCHANGED <<crs, stream>>
    BY <2>1
  <2>2. CASE Watch!Write(m, [NewCR EXCEPT !.status = "ACCEPTED"])
    <3>1. [NewCR EXCEPT !.status = "ACCEPTED"] \in CR
      BY EntryEdits, EntryData
    <3> QED BY <2>2, <3>1, WriteTypes
  <2> QED BY <2>1, <2>2 DEF CallStep
<1>6. queue' \in [Ids -> RobotMission]
  <2>1. PICK canceled \in SUBSET Nat : queue' = Stopped(canceled)
    BY DEF CallStep
  <2>2. \A id \in Ids : queue[id] \in RobotMission /\ [queue[id] EXCEPT !.state = "Canceled"] \in RobotMission
    BY DEF RobotMission
  <2> QED BY <2>1, <2>2 DEF Stopped
<1>7. TypeOK'
  BY <1>3, <1>4, <1>5, <1>6, TypesKept DEF CallStep
<1> QED BY <1>7 DEF CallStep, JobTyped

\* The watch keeps the types.
LEMMA WatchTyped ==
    ASSUME Typed, WatchStep
    PROVE  Typed'
<1> USE TypeFacts DEF Typed
<1>0. /\ UNCHANGED <<kind, robot_of, missions, upstart, todo, job, queue, next_id, restarts, unanswered>>
      /\ lost' \in Nat /\ relists' \in Nat
  BY DEF WatchStep
<1>1. /\ crs' \in [Missions -> CR \union {NotYet, Gone}]
      /\ cache' \in [Missions -> CR \union {NotYet, Gone}]
      /\ stream' \in [Missions -> Seq(CR \union {Gone})]
      /\ calls' \in [Missions -> Seq(CR \union {Gone})]
  <2>0. <<>> \in Seq(CR \union {Gone})
    OBVIOUS
  <2>1. CASE \E m \in Missions : Watch!Watch_on_crs(m)
    <3>1. PICK m \in Missions : Watch!Watch_on_crs(m)
      BY <2>1
    <3>2. stream[m] \in Seq(CR \union {Gone}) /\ calls[m] \in Seq(CR \union {Gone}) /\ stream[m] # <<>>
      BY <3>1 DEF Watch!Watch_on_crs
    <3>3. PICK v \in CR \union {Gone} : v = Head(stream[m])
      BY <3>2, SeqData
    <3>4. Tail(stream[m]) \in Seq(CR \union {Gone}) /\ Append(calls[m], v) \in Seq(CR \union {Gone})
      BY <3>2, SeqData
    <3> QED BY <3>1, <3>3, <3>4 DEF Watch!Watch_on_crs
  <2>2. CASE Watch!Synchronize_cache
    BY <2>2 DEF Watch!Synchronize_cache
  <2>3. CASE Watch!Init_watcher
    BY <2>0, <2>3, ListedData DEF Watch!Init_watcher
  <2>4. CASE Watch!Too_old
    BY <2>0, <2>4 DEF Watch!Too_old
  <2> QED BY <2>1, <2>2, <2>3, <2>4 DEF WatchStep
<1>2. TypeOK'
  BY <1>0, <1>1, TypesKept
<1> QED BY <1>0, <1>2 DEF JobTyped

\* The robot controller, which requests and withdraws missions, keeps the types.
LEMMA EnvTyped ==
    ASSUME Typed, NEW m \in Missions, EnvStep(m)
    PROVE  Typed'
<1> USE TypeFacts DEF Typed
<1>1. PICK v \in CR \union {Gone} : Watch!Write(m, v)
  BY EntryData DEF EnvStep
<1>2. /\ crs' \in [Missions -> CR \union {NotYet, Gone}]
      /\ stream' \in [Missions -> Seq(CR \union {Gone})]
  BY <1>1, WriteTypes
<1>3. TypeOK'
  BY <1>2, TypesKept DEF EnvStep, faults
<1> QED BY <1>3 DEF EnvStep, JobTyped

\* A restart keeps the types.
LEMMA StartTyped ==
    ASSUME Typed, Start_again
    PROVE  Typed'
<1> USE TypeFacts DEF Typed
<1>1. /\ crs' \in [Missions -> CR \union {NotYet, Gone}]
      /\ cache' \in [Missions -> CR \union {NotYet, Gone}]
      /\ stream' \in [Missions -> Seq(CR \union {Gone})]
      /\ calls' \in [Missions -> Seq(CR \union {Gone})]
  <2>1. <<>> \in Seq(CR \union {Gone})
    OBVIOUS
  <2> QED BY <2>1, ListedData DEF Start_again, Watch!Start_watcher
<1>2. queue' \in [Ids -> RobotMission] /\ next_id' \in 0 .. MaxRobotMissions
  <2>1. NoRobotMission \in RobotMission /\ 0 \in 0 .. MaxRobotMissions
    BY MissionAssumption DEF NoRobotMission, RobotMission
  <2> QED BY <2>1 DEF Start_again, EmptyQueue
<1>3. TypeOK'
  BY <1>1, <1>2, EntryData, FreeData, TypesKept DEF Start_again
<1>4. \A r \in Robots : job'[r] = Free
  BY DEF Start_again
<1> QED BY <1>3, <1>4, FreeData DEF JobTyped

\* run_mission keeps the types.
LEMMA RunTyped ==
    ASSUME Typed, NEW r \in Robots, RunStep(r)
    PROVE  Typed'
<1> USE TypeFacts DEF Typed
<1>1. ASSUME NEW j, JobKept(r, j), MovesTo(r, j)
      PROVE  Typed'
  <2>1. job' \in [Robots -> Job] /\ \A q \in Robots : JobTyped(q, job[q])'
    BY <1>1, JobsKept DEF MovesTo, RunFrame
  <2>2. TypeOK'
    BY <1>1, <2>1, TypesKept DEF MovesTo, RunFrame
  <2> QED BY <2>1, <2>2
<1>2. ASSUME NEW j, JobKept(r, j), Writes(job[r], j), SavesTo(r, j)
      PROVE  Typed'
  <2>1. job[r].m \in Missions
    BY <1>2 DEF Writes, JobTyped
  <2>2. j.cr \in CR
    BY <1>2, JobData DEF JobKept, JobTyped, Writes, CR, Final
  <2>3. /\ crs' \in [Missions -> CR \union {NotYet, Gone}]
        /\ stream' \in [Missions -> Seq(CR \union {Gone})]
    BY <1>2, <2>1, <2>2, WriteTypes DEF SavesTo
  <2>4. PICK to : to = IF j.cr.status \in Final THEN Free ELSE j
    OBVIOUS
  <2>5. JobKept(r, to) /\ job' = [job EXCEPT ![r] = to]
    BY <1>2, <2>4, FreeData DEF JobKept, JobTyped, SavesTo
  <2>6. job' \in [Robots -> Job] /\ \A q \in Robots : JobTyped(q, job[q])'
    BY <1>2, <2>5, JobsKept DEF SavesTo, RunFrame
  <2>7. TypeOK'
    BY <1>2, <2>3, <2>6, TypesKept DEF SavesTo, RunFrame
  <2> QED BY <2>6, <2>7
<1> QED BY <1>1, <1>2 DEF RunStep

\* The job a robot starts with is that of a mission it may run.
LEMMA TakenData ==
    ASSUME Typed, NEW m \in Missions, NEW copy \in Entries, Runnable(copy)
    PROVE  JobKept(robot_of[m], Taken(m, copy)) /\ robot_of[m] \in Robots
           /\ Taken(m, copy).m = m /\ Taken(m, copy).pc = "begin" /\ Taken(m, copy).cr = copy
           /\ copy.status \in {"ACCEPTED", "RUNNING"} /\ (copy.status = "RUNNING" => upstart)
<1>1. copy.status \in {"ACCEPTED", "RUNNING"} /\ (copy.status = "RUNNING" => upstart)
  BY DEF Runnable
<1>2. Taken(m, copy) \in Job
  BY DEF Taken, Job
<1> QED BY <1>1, <1>2, TypeFacts DEF Taken, JobKept, JobTyped, Typed

\* A look of the loop at one mission keeps the types.
LEMMA VisitTyped ==
    ASSUME Typed, NEW m \in Missions, Visit(m)
    PROVE  Typed'
<1> USE TypeFacts DEF Typed
<1>0. todo[m] \in Entries /\ NotYet \in Entries
  BY EntryData
<1>1. todo' \in [Missions -> Entries] /\ upstart' \in BOOLEAN
  <2>1. todo' \in [Missions -> Entries]
    BY <1>0 DEF Visit
  <2>2. upstart' \in BOOLEAN
    BY DEF Visit
  <2> QED BY <2>1, <2>2
<1>2. job' \in [Robots -> Job] /\ \A q \in Robots : JobTyped(q, job[q])'
  <2>1. CASE Runnable(todo[m])
    <3>1. job' = [job EXCEPT ![robot_of[m]] = Taken(m, todo[m])] /\ robot_of' = robot_of
      BY <2>1 DEF Visit
    <3>2. PICK r \in Robots : r = robot_of[m] /\ JobKept(r, Taken(m, todo[m]))
      BY <1>0, <2>1, TakenData
    <3> QED BY <3>1, <3>2, JobsKept
  <2>2. CASE ~Runnable(todo[m])
    BY <2>2 DEF Visit, JobTyped
  <2> QED BY <2>1, <2>2
<1>3. TypeOK'
  BY <1>1, <1>2, TypesKept DEF Visit, watch, faults
<1> QED BY <1>2, <1>3

\* What a pass of the Fetch loop takes up, robot by robot.
FetchTaken(r) ==
    \/ job'[r] = job[r]
    \/ /\ job[r] = Free
       /\ \E m \in Missions : /\ robot_of[m] = r /\ Runnable(missions[m])
                              /\ job'[r] = Taken(m, missions[m])

\* A pass of the Fetch loop chooses a job for every robot at once.
LEMMA FetchPass ==
    ASSUME Typed, Fetch_watch_missions
    PROVE  /\ job' = [r \in Robots |-> job'[r]] /\ \A r \in Robots : FetchTaken(r)
           /\ upstart' = FALSE /\ KeptUp
           /\ UNCHANGED <<kind, robot_of, watch, missions, todo, queue, next_id, faults>>
<1>1. PICK pick \in [Robots -> Missions \union {None}] :
        /\ \A r \in Robots :
            LET runnable == {m \in Missions : robot_of[m] = r /\ Runnable(missions[m])}
            IN  IF job[r] = Free /\ runnable # {} THEN pick[r] \in runnable ELSE pick[r] = None
        /\ job' = [r \in Robots |-> IF pick[r] = None THEN job[r]
                                    ELSE Taken(pick[r], missions[pick[r]])]
  BY DEF Fetch_watch_missions
<1>2. ASSUME NEW r \in Robots
      PROVE  FetchTaken(r)
  <2>1. CASE pick[r] = None
    BY <1>1, <2>1 DEF FetchTaken
  <2>2. CASE pick[r] # None
    <3>1. PICK m \in Missions : m = pick[r] /\ job[r] = Free /\ robot_of[m] = r /\ Runnable(missions[m])
      BY <1>1, <2>2
    <3>2. job'[r] = Taken(m, missions[m])
      BY <1>1, <2>2, <3>1
    <3> QED BY <3>1, <3>2 DEF FetchTaken
  <2> QED BY <2>1, <2>2
<1>3. job' = [r \in Robots |-> job'[r]]
  BY <1>1
<1> QED BY <1>2, <1>3 DEF Fetch_watch_missions

\* A pass of the Fetch loop keeps the types.
LEMMA FetchTyped ==
    ASSUME Typed, Fetch_watch_missions
    PROVE  Typed'
<1> USE TypeFacts DEF Typed
<1>1. ASSUME NEW r \in Robots
      PROVE  job'[r] \in Job /\ JobTyped(r, job'[r])
  <2>1. CASE job'[r] = job[r]
    BY <2>1
  <2>2. CASE job'[r] # job[r]
    <3>1. PICK m \in Missions : robot_of[m] = r /\ Runnable(missions[m])
                                /\ job'[r] = Taken(m, missions[m])
      BY <2>2, FetchPass DEF FetchTaken
    <3>2. missions[m] \in Entries
      OBVIOUS
    <3> QED BY <3>1, <3>2, TakenData DEF JobKept
  <2> QED BY <2>1, <2>2
<1>2. robot_of' = robot_of
  BY FetchPass
<1>3. job' \in [Robots -> Job] /\ \A r \in Robots : JobTyped(r, job[r])'
  <2>1. job' \in [Robots -> Job]
    BY <1>1, FetchPass
  <2> QED BY <1>1, <1>2, <2>1 DEF JobTyped
<1>4. TypeOK'
  BY <1>3, FetchPass, TypesKept DEF watch, faults
<1> QED BY <1>3, <1>4

\* The start of a pass keeps the types.
LEMMA PassTyped ==
    ASSUME Typed, Start_pass
    PROVE  Typed'
<1> USE TypeFacts DEF Typed
<1>1. TypeOK'
  BY TypesKept DEF Start_pass, watch, faults
<1> QED BY <1>1 DEF Start_pass, JobTyped

\* The robots keep the types.
LEMMA RobotTyped ==
    ASSUME Typed, RobotStep
    PROVE  Typed'
<1> USE TypeFacts DEF Typed
<1>1. TypeOK'
  BY TypesKept DEF RobotStep, watch, faults
<1> QED BY <1>1 DEF RobotStep, JobTyped

\* Every step keeps the types.
LEMMA TypedStep ==
    ASSUME Typed, [Next]_vars
    PROVE  Typed'
<1>1. CASE Next
  <2>1. SomeStep
    BY <1>1, Steps
  <2> QED BY <2>1, CallTyped, EnvTyped, VisitTyped, RunTyped, PassTyped, FetchTyped, WatchTyped,
             RobotTyped, StartTyped DEF SomeStep, OtherStep
<1>2. CASE UNCHANGED vars
  BY <1>2, TypeFacts, TypesKept DEF vars, watch, faults, Typed, JobTyped
<1> QED BY <1>1, <1>2

\* The types hold at the start.
LEMMA TypedInit ==
    ASSUME Init
    PROVE  Typed
<1>0. <<>> \in Seq(CR \union {Gone})
  OBVIOUS
<1>1. Watch!WatchTypeOK
  BY <1>0, VersionData DEF Init, Watch!WatchInit, Watch!WatchTypeOK
<1>2. NoRobotMission \in RobotMission /\ MaxRobotMissions \in Nat /\ 0 \in 0 .. MaxRobotMissions
  BY MissionAssumption DEF NoRobotMission, RobotMission
<1>3. TypeOK
  BY <1>1, <1>2, EntryData, FreeData DEF Init, TypeOK, EmptyQueue
<1> QED BY <1>3, FreeData DEF Init, Typed, JobTyped

\* Every variable has its type, and each job is one of a mission of its robot
\* in a state that run_mission can be in.
THEOREM Typing == Spec => []Typed
<1>1. Init => Typed
  BY TypedInit
<1>2. Typed /\ [Next]_vars => Typed'
  BY TypedStep
<1> QED BY <1>1, <1>2, PTL DEF Spec

\* Every variable has its type, whatever happens to the controllers, the
\* watch, the robots and the CRs.
THEOREM TypeCorrect == Spec => []TypeOK
<1>1. Typed => TypeOK
  BY DEF Typed
<1> QED BY <1>1, Typing, PTL

-----------------------------------------------------------------------------
(* The newest version is on its way                                           *)

Newer(s, c, e) ==
    IF s # <<>> THEN s[Len(s)] ELSE IF c # <<>> THEN c[Len(c)] ELSE e

NewestKept(m) == Watch!Exists(m) => Newest(m) = crs[m]

\* The last element of a sequence, of its tail, and with one more.
LEMMA LastData ==
    ASSUME NEW S, NEW s \in Seq(S)
    PROVE  /\ \A x \in S : Append(s, x) # <<>> /\ Append(s, x)[Len(Append(s, x))] = x
           /\ s # <<>> => /\ Tail(s) = <<>> => Head(s) = s[Len(s)]
                          /\ Tail(s) # <<>> => Tail(s)[Len(Tail(s))] = s[Len(s)]
OBVIOUS

\* The newest version when versions move from the API server to the callbacks.
LEMMA NewerData ==
    ASSUME NEW S, NEW s \in Seq(S), NEW c \in Seq(S), NEW e
    PROVE  /\ \A x \in S : Newer(Append(s, x), c, e) = x
           /\ \A x \in S : Newer(<<>>, Append(c, x), e) = x
           \* the head of s goes to the end of c, the head of c becomes e
           /\ s # <<>> => Newer(Tail(s), Append(c, Head(s)), e) = Newer(s, c, e)
           /\ c # <<>> => Newer(s, Tail(c), Head(c)) = Newer(s, c, e)
           /\ c # <<>> /\ Newer(s, c, e) # Head(c) => \A f : Newer(s, Tail(c), f) = Newer(s, c, e)
<1>1. ASSUME s # <<>>
      PROVE  Newer(Tail(s), Append(c, Head(s)), e) = Newer(s, c, e)
  <2>1. Head(s) \in S /\ Tail(s) \in Seq(S)
    BY <1>1
  <2>2. Append(c, Head(s)) # <<>> /\ Append(c, Head(s))[Len(Append(c, Head(s)))] = Head(s)
    BY <2>1, LastData
  <2>3. /\ Tail(s) = <<>> => Head(s) = s[Len(s)]
        /\ Tail(s) # <<>> => Tail(s)[Len(Tail(s))] = s[Len(s)]
    BY <1>1, LastData
  <2> QED BY <1>1, <2>2, <2>3 DEF Newer
<1>2. /\ c # <<>> /\ Tail(c) = <<>> => Head(c) = c[Len(c)]
      /\ c # <<>> /\ Tail(c) # <<>> => Tail(c)[Len(Tail(c))] = c[Len(c)]
  BY LastData
<1>3. \A x \in S : /\ Append(s, x) # <<>> /\ Append(s, x)[Len(Append(s, x))] = x
                   /\ Append(c, x) # <<>> /\ Append(c, x)[Len(Append(c, x))] = x
  BY LastData
<1> QED BY <1>1, <1>2, <1>3 DEF Newer

\* The newest version in the words of the lemma above.
LEMMA NewestIs == \A m : Newest(m) = Newer(stream[m], calls[m], missions[m])
BY DEF Newest, Newer

\* Where a mission is not concerned by a step.
LEMMA NewestFrame ==
    ASSUME NEW m \in Missions, NewestKept(m), crs'[m] = crs[m], stream'[m] = stream[m],
           calls'[m] = calls[m], missions'[m] = missions[m]
    PROVE  NewestKept(m)'
BY DEF NewestKept, Newest, Watch!Exists

\* A write is the newest version on its way.
LEMMA NewestWritten ==
    ASSUME Typed, NEW m \in Missions, NEW v \in CR \union {Gone}, Watch!Write(m, v)
    PROVE  NewestKept(m)'
<1>1. stream[m] \in Seq(CR \union {Gone}) /\ stream'[m] = Append(stream[m], v) /\ crs'[m] = v
  BY TypeFacts, WriteTypes DEF Typed
<1>2. PICK s \in Seq(CR \union {Gone}) : s = stream[m]
  BY <1>1
<1>3. Append(s, v) # <<>> /\ Append(s, v)[Len(Append(s, v))] = v
  BY LastData
<1> QED BY <1>1, <1>2, <1>3 DEF NewestKept, Newest

\* A callback keeps the newest version: it takes the oldest.
LEMMA NewestCall ==
    ASSUME Typed, NEW m \in Missions, CallStep(m), NEW n \in Missions, NewestKept(n)
    PROVE  NewestKept(n)'
<1> USE TypeFacts DEF Typed
<1>1. ASSUME n # m, Watch!Write(m, [NewCR EXCEPT !.status = "ACCEPTED"]) \/ UNCHANGED <<crs, stream>>
      PROVE  NewestKept(n)'
  <2>1. crs'[n] = crs[n] /\ stream'[n] = stream[n] /\ calls'[n] = calls[n] /\ missions'[n] = missions[n]
    BY <1>1 DEF CallStep, Store, Watch!Write
  <2> QED BY <2>1, NewestFrame
<1>2. ASSUME n = m, Watch!Write(m, [NewCR EXCEPT !.status = "ACCEPTED"])
      PROVE  NewestKept(n)'
  <2>1. [NewCR EXCEPT !.status = "ACCEPTED"] \in CR
    BY EntryEdits, EntryData
  <2> QED BY <1>2, <2>1, NewestWritten
<1>3. ASSUME n = m, UNCHANGED <<crs, stream>>
      PROVE  NewestKept(n)'
  <2>1. SUFFICES ASSUME Watch!Exists(m)'
                 PROVE  Newest(m)' = crs[m]
    BY <1>3 DEF NewestKept
  <2>2. Watch!Exists(m) /\ Newest(m) = crs[m]
    BY <1>3, <2>1 DEF NewestKept, Watch!Exists
  <2>3. stream[m] \in Seq(CR \union {Gone}) /\ calls[m] \in Seq(CR \union {Gone})
    OBVIOUS
  <2>4. calls[m] # <<>> /\ calls'[m] = Tail(calls[m])
    BY DEF CallStep
  <2>5. Newest(m)' = Newer(stream[m], Tail(calls[m]), missions'[m])
    BY <1>3, <2>4 DEF Newest, Newer
  <2>6. Newest(m) = Newer(stream[m], calls[m], missions[m])
    BY DEF Newest, Newer
  <2>7. CASE Head(calls[m]) = Gone
    <3>1. Newer(stream[m], calls[m], missions[m]) # Head(calls[m])
      BY <2>2, <2>6, <2>7 DEF Watch!Exists
    <3> QED BY <2>2, <2>3, <2>4, <2>5, <2>6, <3>1, NewerData
  <2>8. CASE Head(calls[m]) # Gone
    <3>1. missions'[m] = Head(calls[m])
      BY <2>8 DEF CallStep, Store
    <3> QED BY <2>2, <2>3, <2>4, <2>5, <2>6, <3>1, NewerData
  <2> QED BY <2>7, <2>8
<1> QED BY <1>1, <1>2, <1>3 DEF CallStep

\* The watch keeps the newest version if it loses none.
LEMMA NewestWatch ==
    ASSUME Typed, WatchStep, lost' = lost, NEW n \in Missions, NewestKept(n)
    PROVE  NewestKept(n)'
<1>0. /\ stream \in [Missions -> Seq(CR \union {Gone})] /\ calls \in [Missions -> Seq(CR \union {Gone})]
      /\ cache \in [Missions -> CR \union {NotYet, Gone}] /\ lost \in Nat
  BY TypeFacts DEF Typed
<1>1. stream[n] \in Seq(CR \union {Gone}) /\ calls[n] \in Seq(CR \union {Gone}) /\ UNCHANGED missions
  BY <1>0 DEF WatchStep
<1>2. CASE \E m \in Missions : Watch!Watch_on_crs(m)
  <2>1. PICK m \in Missions : Watch!Watch_on_crs(m)
    BY <1>2
  <2>2. CASE n # m
    BY <1>0, <1>1, <2>1, <2>2, NewestFrame DEF Watch!Watch_on_crs
  <2>3. CASE n = m
    <3>1. /\ stream[m] # <<>> /\ stream'[m] = Tail(stream[m])
          /\ calls'[m] = Append(calls[m], Head(stream[m])) /\ crs' = crs
      BY <1>0, <2>1 DEF Watch!Watch_on_crs
    <3>2. Newest(m)' = Newer(Tail(stream[m]), Append(calls[m], Head(stream[m])), missions[m])
      BY <1>1, <3>1 DEF Newest, Newer
    <3>3. Newest(m)' = Newest(m)
      BY <1>1, <2>3, <3>1, <3>2, NewerData, NewestIs
    <3> QED BY <2>3, <3>1, <3>3 DEF NewestKept, Watch!Exists
  <2> QED BY <2>2, <2>3
<1>3. CASE Watch!Synchronize_cache
  BY <1>1, <1>3, NewestFrame DEF Watch!Synchronize_cache
<1>4. CASE Watch!Init_watcher
  <2>1. SUFFICES ASSUME Watch!Exists(n)'
                 PROVE  Newest(n)' = crs[n]
    BY <1>4 DEF NewestKept, Watch!Init_watcher
  <2>2. Watch!Exists(n) /\ stream'[n] = <<>> /\ calls'[n] = Append(calls[n], crs[n]) /\ crs[n] \in CR
    BY <1>4, <2>1, ListedData DEF Watch!Init_watcher, Watch!Exists
  <2>3. PICK c \in Seq(CR \union {Gone}), v \in CR \union {Gone} : c = calls[n] /\ v = crs[n]
    BY <1>1, <2>2
  <2>4. Newest(n)' = Newer(<<>>, Append(c, v), missions'[n])
    BY <2>2, <2>3 DEF Newest, Newer
  <2>5. Newer(<<>>, Append(c, v), missions'[n]) = v
    BY NewerData
  <2> QED BY <2>2, <2>3, <2>4, <2>5
<1>5. CASE lost' = lost + 1
  BY <1>0, <1>5
<1> QED BY <1>2, <1>3, <1>4, <1>5 DEF WatchStep

\* A new process lists all CRs.
LEMMA NewestStart ==
    ASSUME Typed, Start_again, NEW n \in Missions
    PROVE  NewestKept(n)'
<1>1. SUFFICES ASSUME Watch!Exists(n)'
               PROVE  Newest(n)' = crs'[n]
  BY DEF NewestKept
<1>2. Watch!Exists(n) /\ stream'[n] = <<>> /\ calls'[n] = Watch!Listed(n) /\ crs' = crs
  BY <1>1 DEF Start_again, Watch!Start_watcher, Watch!Exists
<1>3. calls'[n] = <<crs[n]>>
  BY <1>2, ListedData
<1> QED BY <1>2, <1>3 DEF Newest

\* run_mission keeps the newest version: it only writes newer ones.
LEMMA NewestRun ==
    ASSUME Typed, NEW r \in Robots, RunStep(r), NEW n \in Missions, NewestKept(n)
    PROVE  NewestKept(n)'
<1> USE TypeFacts DEF Typed
<1>1. ASSUME NEW j, MovesTo(r, j)
      PROVE  NewestKept(n)'
  BY <1>1, NewestFrame DEF MovesTo, RunFrame
<1>2. ASSUME NEW j, JobKept(r, j), Writes(job[r], j), SavesTo(r, j)
      PROVE  NewestKept(n)'
  <2>1. j.m \in Missions /\ j.m = job[r].m /\ j.cr \in CR
    BY <1>2, JobData DEF Writes, JobKept, JobTyped, CR, Final
  <2>2. CASE n = j.m
    BY <1>2, <2>1, <2>2, NewestWritten DEF SavesTo
  <2>3. CASE n # j.m
    BY <1>2, <2>1, <2>3, NewestFrame DEF SavesTo, RunFrame, Watch!Write
  <2> QED BY <2>2, <2>3
<1> QED BY <1>1, <1>2 DEF RunStep

\* Versions lost stay lost.
LEMMA LostGrows ==
    ASSUME Typed, [Next]_vars
    PROVE  lost \in Nat /\ lost' \in Nat /\ lost' >= lost /\ (lost' = 0 => lost = 0)
<1>1. lost \in Nat
  BY TypeFacts DEF Typed
<1>2. CASE SomeStep
  <2>1. ASSUME NEW m \in Missions, CallStep(m) \/ EnvStep(m) \/ Visit(m)
        PROVE  lost' = lost
    BY <2>1 DEF CallStep, EnvStep, Visit, faults
  <2>2. ASSUME NEW r \in Robots, RunStep(r)
        PROVE  lost' = lost
    BY <2>2 DEF RunStep, MovesTo, SavesTo, RunFrame
  <2>3. Start_pass \/ Fetch_watch_missions \/ RobotStep \/ Start_again => lost' = lost
    BY DEF Start_pass, Fetch_watch_missions, RobotStep, Start_again, faults
  <2>4. WatchStep => lost' \in {lost, lost + 1}
    BY DEF WatchStep
  <2> QED BY <1>1, <1>2, <2>1, <2>2, <2>3, <2>4 DEF SomeStep, OtherStep
<1>3. CASE UNCHANGED vars
  BY <1>1, <1>3 DEF vars, faults
<1> QED BY <1>2, <1>3, Steps

\* The newest version stays on its way in every step that loses none.
LEMMA NewestKeptStep ==
    ASSUME Typed, [Next]_vars, lost' = lost, NEW n \in Missions, NewestKept(n)
    PROVE  NewestKept(n)'
<1>1. ASSUME NEW m \in Missions, EnvStep(m)
      PROVE  NewestKept(n)'
  <2>1. PICK v \in CR \union {Gone} : Watch!Write(m, v)
    BY <1>1, EntryData DEF EnvStep
  <2>2. CASE n = m
    BY <2>1, <2>2, NewestWritten
  <2>3. CASE n # m
    BY <1>1, <2>1, <2>3, NewestFrame, TypeFacts DEF EnvStep, Watch!Write, Typed
  <2> QED BY <2>2, <2>3
<1>2. CASE \/ (\E m \in Missions : Visit(m)) \/ Start_pass \/ Fetch_watch_missions
           \/ RobotStep \/ UNCHANGED vars
  BY <1>2, NewestFrame DEF Visit, Start_pass, Fetch_watch_missions, RobotStep, vars, watch
<1> QED BY <1>1, <1>2, Steps, NewestCall, NewestRun, NewestWatch, NewestStart DEF SomeStep, OtherStep

\* NewestOnItsWay is inductive with the types.
LEMMA NewestStep ==
    ASSUME Typed, NewestOnItsWay, [Next]_vars
    PROVE  NewestOnItsWay'
<1>1. SUFFICES ASSUME lost' = 0, NEW n \in Missions
               PROVE  NewestKept(n)'
  BY DEF NewestOnItsWay, NewestKept
<1>2. lost = 0
  BY <1>1, LostGrows
<1>3. NewestKept(n)
  BY <1>2 DEF NewestOnItsWay, NewestKept
<1> QED BY <1>1, <1>2, <1>3, NewestKeptStep

\* The newest version of a CR that exists is on its way to the controller or
\* is the copy it has: an event gets lost only when a resource version is too
\* old, whatever else breaks.
THEOREM NewestArrives == Spec => []NewestOnItsWay
<1>1. Init => NewestOnItsWay
  BY DEF Init, NewestOnItsWay, Watch!WatchInit, Watch!Exists
<1>2. Typed /\ NewestOnItsWay /\ [Next]_vars => NewestOnItsWay'
  BY NewestStep
<1> QED BY <1>1, <1>2, Typing, PTL DEF Spec

-----------------------------------------------------------------------------
(* What a step does to the copies, to a CR and to a job                       *)

\* The loop and the watch see nothing of m but what was on its way, or is
\* the CR.
WayFacts(m) ==
    /\ \A e \in OnItsWay(m)' : e \in OnItsWay(m) \/ e = crs'[m]
    /\ missions'[m] \in {NotYet, missions[m]} \union Elems(calls[m])
    /\ todo'[m] \in {NotYet, todo[m], missions[m]}
    /\ cache'[m] \in {cache[m], crs[m]} \union OnItsWay(m)

\* Versions on their way are versions of CRs.
LEMMA WayTypes ==
    ASSUME Typed, NEW m \in Missions
    PROVE  /\ OnItsWay(m) \subseteq CR \union {Gone}
           /\ \A e \in OnItsWay(m) : e # NotYet /\ e \in Entries
           /\ Copies(m) \subseteq Entries
<1>1. stream[m] \in Seq(CR \union {Gone}) /\ calls[m] \in Seq(CR \union {Gone})
  BY TypeFacts DEF Typed
<1>2. OnItsWay(m) \subseteq CR \union {Gone}
  BY <1>1, SeqData DEF OnItsWay
<1>3. missions[m] \in Entries /\ todo[m] \in Entries
  BY TypeFacts DEF Typed
<1> QED BY <1>2, <1>3, EntryData DEF Copies

\* A step that leaves the handler alone moves nothing.
LEMMA WayFrame ==
    ASSUME NEW m \in Missions, UNCHANGED <<missions, todo, cache, calls>>,
           stream'[m] = stream[m]
    PROVE  WayFacts(m)
BY DEF WayFacts, OnItsWay

\* A write adds its version to those on their way.
LEMMA WayWritten ==
    ASSUME Typed, NEW n \in Missions, NEW v \in CR \union {Gone}, Watch!Write(n, v),
           UNCHANGED <<missions, todo, cache, calls>>, NEW m \in Missions
    PROVE  WayFacts(m)
<1>1. stream'[m] # stream[m] => m = n
  BY WriteTypes
<1>2. m = n => Elems(stream'[m]) = Elems(stream[m]) \union {v} /\ crs'[m] = v
  BY WriteTypes
<1> QED BY <1>1, <1>2, WayFrame DEF WayFacts, OnItsWay

\* A callback moves versions from the calls to the loop.
LEMMA WayCall ==
    ASSUME Typed, NEW n \in Missions, CallStep(n), NEW m \in Missions
    PROVE  WayFacts(m)
<1>1. \A k \in Missions : calls[k] \in Seq(CR \union {Gone}) /\ stream[k] \in Seq(CR \union {Gone})
  BY TypeFacts DEF Typed
<1>2. /\ calls[n] # <<>> /\ calls'[n] = Tail(calls[n]) /\ UNCHANGED <<todo, cache>>
      /\ m # n => calls'[m] = calls[m] /\ missions'[m] = missions[m]
      /\ missions'[n] \in {NotYet, missions[n], Head(calls[n])}
  BY TypeFacts DEF CallStep, Store, Typed
<1>3. Head(calls[n]) \in Elems(calls[n]) /\ Elems(calls'[n]) \subseteq Elems(calls[n])
  BY <1>1, <1>2, SeqData
<1>4. Elems(calls'[m]) \subseteq Elems(calls[m])
  BY <1>2, <1>3
<1>5. \A e \in Elems(stream'[m]) : e \in Elems(stream[m]) \/ e = crs'[m]
  <2>1. CASE UNCHANGED <<crs, stream>>
    BY <2>1
  <2>2. CASE Watch!Write(n, [NewCR EXCEPT !.status = "ACCEPTED"])
    <3>1. PICK v \in CR \union {Gone} : Watch!Write(n, v)
      BY <2>2, EntryEdits, EntryData
    <3>2. stream'[m] # stream[m] => m = n
      BY <3>1, WriteTypes
    <3>3. Elems(stream'[n]) = Elems(stream[n]) \union {v} /\ crs'[n] = v
      BY <3>1, WriteTypes
    <3> QED BY <3>2, <3>3
  <2> QED BY <2>1, <2>2 DEF CallStep
<1> QED BY <1>2, <1>3, <1>4, <1>5 DEF WayFacts, OnItsWay

\* The watch moves versions to the calls.
LEMMA WayWatch ==
    ASSUME Typed, WatchStep, NEW m \in Missions
    PROVE  WayFacts(m)
<1>1. /\ stream[m] \in Seq(CR \union {Gone}) /\ calls[m] \in Seq(CR \union {Gone})
      /\ cache \in [Missions -> CR \union {NotYet, Gone}]
      /\ stream \in [Missions -> Seq(CR \union {Gone})] /\ calls \in [Missions -> Seq(CR \union {Gone})]
  BY TypeFacts DEF Typed
<1>2. UNCHANGED <<missions, todo>>
  BY DEF WatchStep
<1>3. Elems(<<>>) = {}
  BY DEF Elems
<1>4. CASE \E n \in Missions : Watch!Watch_on_crs(n)
  <2>1. PICK n \in Missions : Watch!Watch_on_crs(n)
    BY <1>4
  <2>2. CASE m # n
    BY <1>1, <1>2, <2>1, <2>2 DEF Watch!Watch_on_crs, WayFacts, OnItsWay
  <2>3. CASE m = n
    <3>1. PICK v \in CR \union {Gone} : v = Head(stream[m]) /\ stream[m] # <<>>
      BY <1>1, <2>1, <2>3, SeqData DEF Watch!Watch_on_crs
    <3>2. stream'[m] = Tail(stream[m]) /\ calls'[m] = Append(calls[m], v) /\ cache'[m] = v
      BY <1>1, <2>1, <2>3, <3>1 DEF Watch!Watch_on_crs
    <3>3. v \in Elems(stream[m]) /\ Elems(stream'[m]) \subseteq Elems(stream[m])
      BY <1>1, <3>1, <3>2, SeqData
    <3>4. Elems(Append(calls[m], v)) = Elems(calls[m]) \union {v}
      BY <1>1, <3>1, SeqData
    <3> QED BY <1>2, <3>2, <3>3, <3>4 DEF WayFacts, OnItsWay
  <2> QED BY <2>2, <2>3
<1>5. CASE Watch!Synchronize_cache
  BY <1>1, <1>2, <1>5 DEF Watch!Synchronize_cache, WayFacts, OnItsWay
<1>6. CASE Watch!Init_watcher
  <2>1. /\ stream'[m] = <<>> /\ cache'[m] = crs[m] /\ crs' = crs
        /\ calls'[m] = calls[m] \o Watch!Listed(m)
    BY <1>6 DEF Watch!Init_watcher
  <2>2. Elems(calls[m] \o Watch!Listed(m)) \subseteq Elems(calls[m]) \union {crs[m]}
    <3>1. CASE Watch!Exists(m)
      <4>1. crs[m] \in CR \union {Gone} /\ calls[m] \o Watch!Listed(m) = Append(calls[m], crs[m])
        BY <3>1, ListedData
      <4>2. Elems(Append(calls[m], crs[m])) = Elems(calls[m]) \union {crs[m]}
        BY <1>1, <4>1, SeqData
      <4> QED BY <4>1, <4>2
    <3>2. CASE ~Watch!Exists(m)
      BY <3>2, ListedData
    <3> QED BY <3>1, <3>2
  <2> QED BY <1>2, <1>3, <2>1, <2>2 DEF WayFacts, OnItsWay
<1>7. CASE Watch!Too_old
  BY <1>2, <1>3, <1>7 DEF Watch!Too_old, WayFacts, OnItsWay
<1> QED BY <1>4, <1>5, <1>6, <1>7 DEF WatchStep

\* A new process has seen nothing but what is listed.
LEMMA WayStart ==
    ASSUME Typed, Start_again, NEW m \in Missions
    PROVE  /\ \A e \in Copies(m)' : e = NotYet \/ (e = crs[m] /\ Watch!Exists(m))
           /\ cache'[m] = crs[m] /\ crs'[m] = crs[m] /\ todo'[m] = NotYet /\ missions'[m] = NotYet
           /\ \A r \in Robots : job'[r] = Free
           /\ WayFacts(m)
           /\ calls'[m] # <<>> => Watch!Exists(m)
<1>1. /\ stream'[m] = <<>> /\ cache'[m] = crs[m] /\ crs' = crs /\ calls'[m] = Watch!Listed(m)
      /\ missions'[m] = NotYet /\ todo'[m] = NotYet /\ \A r \in Robots : job'[r] = Free
  BY DEF Start_again, Watch!Start_watcher
<1>2. Elems(<<>>) = {}
  BY DEF Elems
<1>3. \A e \in OnItsWay(m)' : e = crs[m] /\ Watch!Exists(m)
  BY <1>1, <1>2, ListedData DEF OnItsWay
<1> QED BY <1>1, <1>3, ListedData DEF Copies, WayFacts

\* run_mission writes the CR of the mission in work.
LEMMA RunWrite ==
    ASSUME Typed, NEW r \in Robots, NEW j, JobKept(r, j), Writes(job[r], j)
    PROVE  job[r].m \in Missions /\ robot_of[job[r].m] = r /\ j.m = job[r].m /\ j.cr \in CR
BY JobData DEF Writes, JobKept, JobTyped, CR, Final

\* What any step may do to the versions on their way.
LEMMA WayStep ==
    ASSUME Typed, [Next]_vars, NEW m \in Missions
    PROVE  WayFacts(m)
<1>1. ASSUME NEW n \in Missions, EnvStep(n)
      PROVE  WayFacts(m)
  BY <1>1, WayWritten, EntryData DEF EnvStep
<1>2. ASSUME NEW r \in Robots, RunStep(r)
      PROVE  WayFacts(m)
  <2>1. ASSUME NEW j, MovesTo(r, j)
        PROVE  WayFacts(m)
    BY <2>1, WayFrame DEF MovesTo, RunFrame
  <2>2. ASSUME NEW j, JobKept(r, j), Writes(job[r], j), SavesTo(r, j)
        PROVE  WayFacts(m)
    <3>1. PICK n \in Missions, v \in CR \union {Gone} : Watch!Write(n, v)
      BY <2>2, RunWrite DEF SavesTo
    <3> QED BY <2>2, <3>1, WayWritten DEF SavesTo, RunFrame
  <2> QED BY <1>2, <2>1, <2>2 DEF RunStep
<1>3. ASSUME NEW n \in Missions, Visit(n)
      PROVE  WayFacts(m)
  <2>1. todo'[m] \in {NotYet, todo[m]} /\ UNCHANGED <<watch, missions>>
    BY <1>3, TypeFacts DEF Visit, Typed
  <2> QED BY <2>1 DEF WayFacts, OnItsWay, watch
<1>4. CASE Start_pass
  BY <1>4 DEF Start_pass, WayFacts, OnItsWay, watch
<1>5. CASE Fetch_watch_missions \/ RobotStep \/ UNCHANGED vars
  BY <1>5, WayFrame DEF Fetch_watch_missions, RobotStep, vars, watch
<1> QED BY <1>1, <1>2, <1>3, <1>4, <1>5, Steps, WayCall, WayWatch, WayStart DEF SomeStep, OtherStep

\* Who writes a CR, and when.
CrsFacts(m) ==
    \/ crs'[m] = crs[m]
    \/ crs[m] = NotYet /\ crs'[m] = NewCR
    \/ Watch!Exists(m) /\ crs'[m] = Gone
    \/ /\ Watch!Exists(m) /\ missions[m] = NotYet /\ missions'[m] # NotYet
       /\ \E e \in OnItsWay(m) : e.status = "new"
       /\ crs'[m].status = "ACCEPTED" /\ crs'[m] # NotYet /\ job' = job
    \/ /\ Watch!Exists(m) /\ crs'[m] \in CR
       /\ \E r \in Robots :
            /\ job[r].m = m /\ missions' = missions
            /\ \/ job[r].pc = "end" /\ crs'[m].status \in Final /\ job'[r] = Free
               \/ /\ job[r].pc \in {"begin", "register", "watch"}
                  /\ crs'[m].status = "RUNNING" /\ job'[r].pc \in {"action", "watch"}
                  /\ job'[r].m = m

\* A callback accepts a CR that is new, or leaves it alone.
LEMMA CrsCall ==
    ASSUME Typed, NEW n \in Missions, CallStep(n), NEW m \in Missions
    PROVE  CrsFacts(m)
<1>1. CASE UNCHANGED <<crs, stream>>
  BY <1>1 DEF CrsFacts
<1>2. CASE ~UNCHANGED <<crs, stream>>
  <2>1. /\ missions[n] = NotYet /\ Head(calls[n]).status = "new" /\ Watch!Exists(n)
        /\ Store(n, Head(calls[n])) /\ job' = job /\ calls[n] # <<>>
        /\ Watch!Write(n, [NewCR EXCEPT !.status = "ACCEPTED"])
    BY <1>2 DEF CallStep
  <2>2. CASE m # n
    BY <2>1, <2>2 DEF CrsFacts, Watch!Write
  <2>3. CASE m = n
    <3>1. [NewCR EXCEPT !.status = "ACCEPTED"] \in CR /\ [NewCR EXCEPT !.status = "ACCEPTED"].status = "ACCEPTED"
      BY EntryEdits, EntryData
    <3>2. crs'[m] \in CR /\ crs'[m].status = "ACCEPTED"
      BY <2>1, <2>3, <3>1, WriteTypes
    <3>3. calls[n] \in Seq(CR \union {Gone})
      BY TypeFacts DEF Typed
    <3>4. Head(calls[n]) \in OnItsWay(n)
      BY <2>1, <3>3, SeqData DEF OnItsWay
    <3>5. missions'[m] = Head(calls[n])
      BY <2>1, <2>3, TypeFacts DEF Store, Typed
    <3>6. missions'[m] # NotYet
      BY <2>3, <3>4, <3>5, WayTypes
    <3> QED BY <2>1, <2>3, <3>2, <3>4, <3>6, EntryData DEF CrsFacts
  <2> QED BY <2>2, <2>3
<1> QED BY <1>1, <1>2

\* run_mission sets the CR RUNNING or ends it, in this order.
LEMMA CrsRun ==
    ASSUME Typed, NEW r \in Robots, RunStep(r), NEW m \in Missions
    PROVE  CrsFacts(m)
<1>1. ASSUME NEW j, MovesTo(r, j)
      PROVE  CrsFacts(m)
  BY <1>1 DEF MovesTo, CrsFacts
<1>2. ASSUME NEW j, JobKept(r, j), Writes(job[r], j), SavesTo(r, j)
      PROVE  CrsFacts(m)
  <2>1. job[r].m \in Missions /\ j.m = job[r].m /\ j.cr \in CR
    BY <1>2, RunWrite
  <2>2. CASE m # job[r].m
    BY <1>2, <2>2 DEF SavesTo, Watch!Write, CrsFacts
  <2>3. CASE m = job[r].m
    <3>1. crs'[m] = j.cr /\ Watch!Exists(m) /\ missions' = missions
      BY <1>2, <2>1, <2>3, WriteTypes DEF SavesTo, RunFrame
    <3>2. job'[r] = IF j.cr.status \in Final THEN Free ELSE j
      BY <1>2, TypeFacts DEF SavesTo, Typed
    <3>3. CASE job[r].pc = "end" /\ j.pc = "end"
      <4>1. j.cr.status \in Final
        BY <1>2, <3>3 DEF JobKept, JobTyped
      <4> QED BY <2>1, <2>3, <3>1, <3>2, <3>3, <4>1 DEF CrsFacts
    <3>4. CASE job[r].pc \in {"begin", "register", "watch"} /\ j.pc \in {"action", "watch"}
      <4>1. j.cr.status = "RUNNING" /\ j.cr.status \notin Final
        BY <1>2, <3>4 DEF JobKept, JobTyped, Final
      <4> QED BY <2>1, <2>3, <3>1, <3>2, <3>4, <4>1 DEF CrsFacts
    <3> QED BY <1>2, <3>3, <3>4 DEF Writes
  <2> QED BY <2>2, <2>3
<1> QED BY <1>1, <1>2 DEF RunStep

\* What any step may do to a CR.
LEMMA CrsStep ==
    ASSUME Typed, [Next]_vars, NEW m \in Missions
    PROVE  CrsFacts(m)
<1>1. ASSUME NEW n \in Missions, EnvStep(n)
      PROVE  CrsFacts(m)
  <2>1. CASE crs[n] = NotYet /\ Watch!Write(n, NewCR)
    <3>1. NewCR \in CR \union {Gone}
      BY EntryData
    <3>2. crs'[n] = NewCR /\ (m # n => crs'[m] = crs[m])
      BY <2>1, <3>1, WriteTypes
    <3> QED BY <2>1, <3>2 DEF CrsFacts
  <2>2. CASE Watch!Exists(n) /\ Watch!Write(n, Gone)
    <3>1. crs'[n] = Gone /\ (m # n => crs'[m] = crs[m])
      BY <2>2, WriteTypes
    <3> QED BY <2>2, <3>1 DEF CrsFacts
  <2> QED BY <1>1, <2>1, <2>2 DEF EnvStep
<1>2. ASSUME crs' = crs
      PROVE  CrsFacts(m)
  BY <1>2 DEF CrsFacts
<1>3. ASSUME NEW n \in Missions, Visit(n)
      PROVE  crs' = crs
  BY <1>3 DEF Visit, watch
<1>4. Start_pass \/ Fetch_watch_missions \/ RobotStep \/ Start_again \/ UNCHANGED vars => crs' = crs
  BY DEF Start_pass, Fetch_watch_missions, RobotStep, Start_again, Watch!Start_watcher, vars, watch
<1>5. WatchStep => crs' = crs
  BY DEF WatchStep, Watch!Watch_on_crs, Watch!Synchronize_cache, Watch!Init_watcher, Watch!Too_old
<1> QED BY <1>1, <1>2, <1>3, <1>4, <1>5, Steps, CrsCall, CrsRun DEF SomeStep, OtherStep

\* What a pass may take up.
TakeFacts(r) ==
    /\ job[r] = Free /\ UNCHANGED <<crs, lost>>
    /\ \E m \in Missions :
         /\ robot_of[m] = r
         /\ \/ /\ Runnable(todo[m]) /\ job'[r] = Taken(m, todo[m])
               /\ Visit(m)
            \/ /\ Runnable(missions[m]) /\ job'[r] = Taken(m, missions[m])
               /\ kind = "fetch" /\ KeptUp /\ upstart' = FALSE /\ UNCHANGED todo

JobFacts(r) ==
    \/ job'[r] = job[r]
    \/ job'[r] = Free
    \/ job[r].pc = "begin" /\ job'[r].pc = "stuck" /\ job'[r].m = job[r].m
    \/ /\ job[r].pc \in Underway \/ (job[r].pc = "begin" /\ job[r].cr.status = "RUNNING")
       /\ job'[r].pc \in Underway /\ job'[r].m = job[r].m /\ crs' = crs
    \/ /\ job'[r].pc \in {"action", "watch"} /\ job'[r].m = job[r].m
       /\ job[r].m \in Missions /\ crs'[job[r].m].status = "RUNNING"
    \/ TakeFacts(r)

\* What run_mission may do to any job.
LEMMA JobRun ==
    ASSUME Typed, NEW q \in Robots, RunStep(q), NEW r \in Robots
    PROVE  JobFacts(r)
<1>1. job \in [Robots -> Job]
  BY TypeFacts DEF Typed
<1>2. ASSUME NEW j, JobKept(q, j), Goes(job[q], j), MovesTo(q, j)
      PROVE  JobFacts(r)
  BY <1>1, <1>2 DEF MovesTo, Goes, JobFacts
<1>3. ASSUME NEW j, JobKept(q, j), Writes(job[q], j), SavesTo(q, j)
      PROVE  JobFacts(r)
  <2>1. job[q].m \in Missions /\ j.m = job[q].m /\ j.cr \in CR
    BY <1>3, RunWrite
  <2>2. /\ job'[q] = IF j.cr.status \in Final THEN Free ELSE j
        /\ r # q => job'[r] = job[r]
    BY <1>1, <1>3 DEF SavesTo
  <2>3. crs'[job[q].m] = j.cr
    BY <1>3, <2>1, WriteTypes DEF SavesTo
  <2>4. j.pc = "end" => j.cr.status \in Final
    BY <1>3 DEF JobKept, JobTyped
  <2>5. j.pc \in {"action", "watch"} => j.cr.status = "RUNNING"
    BY <1>3 DEF JobKept, JobTyped
  <2> QED BY <1>3, <2>1, <2>2, <2>3, <2>4, <2>5 DEF JobFacts, Writes
<1> QED BY <1>2, <1>3 DEF RunStep

\* A pass of the loop leaves the job of a robot as it is, or gives it one.
LEMMA TakeStep ==
    ASSUME Typed, NEW r \in Robots,
           (\E m \in Missions : Visit(m)) \/ (kind = "fetch" /\ Fetch_watch_missions)
    PROVE  UNCHANGED <<crs, lost>> /\ (job'[r] = job[r] \/ TakeFacts(r))
<1>1. ASSUME NEW m \in Missions, Visit(m)
      PROVE  UNCHANGED <<crs, lost>> /\ (job'[r] = job[r] \/ TakeFacts(r))
  <2>1. job \in [Robots -> Job] /\ robot_of[m] \in Robots
    BY TypeFacts DEF Typed
  <2>2. UNCHANGED <<crs, lost>>
    BY <1>1 DEF Visit, watch, faults
  <2>3. CASE Runnable(todo[m]) /\ robot_of[m] = r
    <3>1. job[r] = Free /\ job'[r] = Taken(m, todo[m])
      BY <1>1, <2>1, <2>3 DEF Visit, Loop_free
    <3> QED BY <1>1, <2>2, <2>3, <3>1 DEF TakeFacts
  <2>4. CASE ~(Runnable(todo[m]) /\ robot_of[m] = r)
    BY <1>1, <2>1, <2>2, <2>4 DEF Visit
  <2> QED BY <2>3, <2>4
<1>2. CASE kind = "fetch" /\ Fetch_watch_missions
  <2>1. FetchTaken(r) /\ KeptUp /\ upstart' = FALSE /\ UNCHANGED <<crs, lost, todo>>
    BY <1>2, FetchPass DEF watch, faults
  <2> QED BY <1>2, <2>1 DEF FetchTaken, TakeFacts
<1> QED BY <1>1, <1>2

\* What any step may do to a job.
LEMMA JobStep ==
    ASSUME Typed, [Next]_vars, NEW r \in Robots
    PROVE  JobFacts(r)
<1>1. (\E m \in Missions : Visit(m)) \/ (kind = "fetch" /\ Fetch_watch_missions) => JobFacts(r)
  BY TakeStep DEF JobFacts
<1>2. ASSUME NEW m \in Missions, CallStep(m) \/ EnvStep(m)
      PROVE  job' = job
  BY <1>2 DEF CallStep, EnvStep
<1>3. Start_pass \/ WatchStep \/ RobotStep \/ UNCHANGED vars => job' = job
  BY DEF Start_pass, WatchStep, RobotStep, vars
<1>4. Start_again => JobFacts(r)
  BY DEF Start_again, JobFacts
<1>5. job' = job => JobFacts(r)
  BY DEF JobFacts
<1> QED BY <1>1, <1>2, <1>3, <1>4, <1>5, Steps, JobRun DEF SomeStep, OtherStep

-----------------------------------------------------------------------------
(* What the service rests on                                                  *)

MissionInv(m) ==
    GoneStays(m) /\ CachedFirst(m) /\ AcceptedOnce(m) /\ NotAhead(m) /\ Upstart(m) /\ InTodo(m)

\* The invariant, mission by mission.
LEMMA ServiceParts ==
    ServiceInv <=> /\ NoPass /\ \A m \in Missions : MissionInv(m)
                   /\ \A r \in Robots : InWork(r, job[r])
BY DEF ServiceInv, MissionInv

\* The way of a CR: created, accepted, run, ended; deleted at any time.
LEMMA CrsForward ==
    ASSUME Typed, NEW m \in Missions, MissionInv(m), CrsFacts(m)
    PROVE  /\ crs[m] = Gone => crs'[m] = Gone
           /\ crs[m] # NotYet => crs'[m] # NotYet
           /\ crs[m].status \notin {"none", "new"} => crs'[m].status \notin {"none", "new"}
           /\ crs'[m].status = "ACCEPTED" => crs'[m] = crs[m] \/ crs[m].status = "new"
           /\ crs'[m].status = "new" => crs'[m] = crs[m] \/ crs[m] = NotYet
           /\ crs'[m].status \in Final => \/ crs'[m] = crs[m]
                                          \/ \E r \in Robots : job[r].m = m /\ job'[r] = Free
<1>1. CASE crs'[m] = crs[m]
  BY <1>1
<1>2. CASE crs[m] = NotYet /\ crs'[m] = NewCR
  BY <1>2, EntryData DEF Final
<1>3. CASE Watch!Exists(m) /\ crs'[m] = Gone
  BY <1>3, EntryData DEF Final, Watch!Exists
<1>4. CASE /\ Watch!Exists(m) /\ missions[m] = NotYet /\ crs'[m] # NotYet
           /\ \E e \in OnItsWay(m) : e.status = "new"
           /\ crs'[m].status = "ACCEPTED"
  <2>1. crs[m].status = "new"
    BY <1>4 DEF MissionInv, AcceptedOnce
  <2> QED BY <1>4, <2>1, EntryData DEF Final, Watch!Exists
<1>5. CASE /\ Watch!Exists(m) /\ crs'[m] \in CR
           /\ \E r \in Robots :
                /\ job[r].m = m
                /\ \/ crs'[m].status \in Final /\ job'[r] = Free
                   \/ crs'[m].status = "RUNNING"
  BY <1>5, EntryData DEF Final, Watch!Exists
<1> QED BY <1>1, <1>2, <1>3, <1>4, <1>5 DEF CrsFacts

\* Every copy is one of before, none, or the CR.
LEMMA CopiesStep ==
    ASSUME NEW m \in Missions, WayFacts(m)
    PROVE  \A e \in Copies(m)' : e \in Copies(m) \/ e = NotYet \/ e = crs'[m]
BY DEF WayFacts, Copies, OnItsWay

\* A CR that is gone stays gone.
LEMMA GoneStep ==
    ASSUME Typed, [Next]_vars, NEW m \in Missions, MissionInv(m)
    PROVE  GoneStays(m)'
<1>1. WayFacts(m) /\ CrsFacts(m)
  BY WayStep, CrsStep
<1>2. SUFFICES ASSUME Gone \in Copies(m)' \union {cache'[m]}
               PROVE  crs'[m] = Gone
  BY DEF GoneStays
<1>3. CASE crs[m] = Gone
  BY <1>1, <1>3, CrsForward
<1>4. CASE crs'[m] = Gone
  BY <1>4
<1>5. Gone \in Copies(m) \union {cache[m]} \/ Gone = crs'[m] \/ Gone = crs[m]
  BY <1>1, <1>2, CopiesStep, EntryData DEF WayFacts, Copies
<1> QED BY <1>3, <1>4, <1>5 DEF MissionInv, GoneStays

\* What has no CR is nowhere.
LEMMA NothingYet ==
    ASSUME Typed, NEW m \in Missions, MissionInv(m), crs[m] = NotYet
    PROVE  /\ calls[m] = <<>> /\ stream[m] = <<>> /\ missions[m] = NotYet /\ todo[m] = NotYet
           /\ \A r \in Robots : job[r].m # m
<1>1. \A e \in Copies(m) : e = NotYet
  BY DEF MissionInv, NotAhead
<1>2. \A r \in Robots : job[r].m # m
  BY EntryData DEF MissionInv, NotAhead
<1>3. OnItsWay(m) = {}
  BY <1>1, WayTypes DEF Copies
<1>4. calls[m] \in Seq(CR \union {Gone}) /\ stream[m] \in Seq(CR \union {Gone})
  BY TypeFacts DEF Typed
<1>5. calls[m] = <<>> /\ stream[m] = <<>>
  BY <1>3, <1>4, SeqData DEF OnItsWay
<1> QED BY <1>1, <1>2, <1>5 DEF Copies

\* No copy gets ahead of its CR.
LEMMA AheadStep ==
    ASSUME Typed, [Next]_vars, NEW m \in Missions, MissionInv(m)
    PROVE  NotAhead(m)'
<1>0. WayFacts(m) /\ CrsFacts(m)
  BY WayStep, CrsStep
<1>1. ASSUME NEW e, e \in Copies(m)'
      PROVE  /\ e # NotYet => crs'[m] # NotYet
             /\ e.status \in {"ACCEPTED", "RUNNING"} \union Final => crs'[m].status \notin {"none", "new"}
             /\ e.status = "RUNNING" => crs'[m].status # "ACCEPTED"
  <2>1. CASE e \in Copies(m)
    <3>1. /\ e # NotYet => crs[m] # NotYet
          /\ e.status \in {"ACCEPTED", "RUNNING"} \union Final => crs[m].status \notin {"none", "new"}
          /\ e.status = "RUNNING" => crs[m].status # "ACCEPTED"
      BY <2>1 DEF MissionInv, NotAhead
    <3> QED BY <1>0, <3>1, CrsForward
  <2>2. CASE e = NotYet
    BY <2>2, EntryData DEF Final
  <2>3. CASE e = crs'[m]
    BY <2>3 DEF Final
  <2> QED BY <1>0, <1>1, <2>1, <2>2, <2>3, CopiesStep
<1>2. ASSUME NEW r \in Robots, job'[r].m = m
      PROVE  crs'[m].status \notin {"none", "new"}
  <2>0. JobFacts(r)
    BY JobStep
  <2>1. CASE job[r].m = m
    BY <1>0, <2>1, CrsForward DEF MissionInv, NotAhead
  <2>2. CASE job[r].m # m
    <3>1. m # None
      BY MissionAssumption
    <3>2. TakeFacts(r)
      BY <1>2, <2>0, <2>2, <3>1, FreeData DEF JobFacts
    <3>3. PICK n \in Missions : \E copy \in {todo[n], missions[n]} : Runnable(copy) /\ job'[r] = Taken(n, copy)
      BY <3>2 DEF TakeFacts
    <3>4. PICK copy \in {todo[n], missions[n]} : Runnable(copy) /\ job'[r] = Taken(n, copy)
      BY <3>3
    <3>5. n = m /\ copy.status \in {"ACCEPTED", "RUNNING"}
      BY <1>2, <3>4 DEF Taken, Runnable
    <3>6. crs[m].status \notin {"none", "new"}
      BY <3>4, <3>5 DEF MissionInv, NotAhead, Copies
    <3> QED BY <1>0, <3>6, CrsForward
  <2> QED BY <2>1, <2>2
<1> QED BY <1>1, <1>2 DEF NotAhead

\* A CR is accepted once.
LEMMA AcceptedStep ==
    ASSUME Typed, [Next]_vars, NEW m \in Missions, MissionInv(m)
    PROVE  AcceptedOnce(m)'
<1>1. WayFacts(m) /\ CrsFacts(m)
  BY WayStep, CrsStep
<1>2. SUFFICES ASSUME missions'[m] = NotYet, Watch!Exists(m)', crs'[m].status # "new",
                      NEW e, e \in OnItsWay(m)'
               PROVE  e.status # "new"
  BY DEF AcceptedOnce
<1>3. CASE missions[m] = NotYet /\ Watch!Exists(m) /\ crs[m].status # "new"
  BY <1>1, <1>2, <1>3 DEF MissionInv, AcceptedOnce, WayFacts
<1>4. CASE ~Watch!Exists(m)
  \* It was created in this step, and is new, or it is gone.
  BY <1>1, <1>2, <1>4, EntryData DEF CrsFacts, Watch!Exists
<1>5. CASE missions[m] # NotYet /\ Watch!Exists(m)
  \* The process was started again, or the callback is that of a deleted CR.
  <2>1. Start_again \/ (\E n \in Missions : CallStep(n)) \/ missions' = missions
    BY Steps DEF SomeStep, OtherStep, EnvStep, Visit, RunStep, MovesTo, SavesTo, RunFrame, Start_pass,
       Fetch_watch_missions, WatchStep, RobotStep, vars
  <2>2. CASE Start_again
    BY <1>2, <2>2, WayStart, WayTypes, EntryData DEF Copies
  <2>3. CASE \E n \in Missions : CallStep(n)
    <3>1. PICK n \in Missions : CallStep(n)
      BY <2>3
    <3>2. n = m
      BY <1>2, <1>5, <3>1, TypeFacts DEF CallStep, Store, Typed
    <3>3. Head(calls[m]) \in OnItsWay(m)
      BY <3>1, <3>2, SeqData, TypeFacts DEF CallStep, OnItsWay, Typed
    <3>4. Head(calls[m]) = Gone
      BY <1>2, <1>5, <3>1, <3>2, <3>3, TypeFacts, WayTypes DEF CallStep, Store, Typed
    <3>5. crs[m] = Gone
      BY <3>3, <3>4 DEF MissionInv, GoneStays, Copies
    <3> QED BY <1>5, <3>5 DEF Watch!Exists
  <2> QED BY <1>2, <1>5, <2>1, <2>2, <2>3
<1>6. CASE missions[m] = NotYet /\ Watch!Exists(m) /\ crs[m].status = "new"
  \* It was accepted, which puts a copy into _missions; nothing else is done
  \* to a CR without status.
  <2>1. CASE crs'[m] = crs[m]
    BY <1>2, <1>6, <2>1
  <2>2. CASE crs'[m] # crs[m]
    <3>1. \A r \in Robots : job[r].m # m
      BY <1>6 DEF MissionInv, NotAhead
    <3>2. crs'[m] # Gone
      BY <1>2 DEF Watch!Exists
    <3> QED BY <1>1, <1>2, <1>6, <2>2, <3>1, <3>2 DEF CrsFacts, Watch!Exists
  <2> QED BY <2>1, <2>2
<1> QED BY <1>3, <1>4, <1>5, <1>6

\* A version is cached before its callback is called.
LEMMA CallsStep ==
    ASSUME Typed, [Next]_vars, NEW m \in Missions
    PROVE  calls'[m] = <<>> \/ calls[m] # <<>> \/ cache'[m] # NotYet
<1>0. /\ stream \in [Missions -> Seq(CR \union {Gone})] /\ calls \in [Missions -> Seq(CR \union {Gone})]
      /\ cache \in [Missions -> CR \union {NotYet, Gone}]
  BY TypeFacts DEF Typed
<1>1. ASSUME NEW n \in Missions, CallStep(n) \/ EnvStep(n) \/ Visit(n)
      PROVE  calls'[m] = calls[m] \/ calls[m] # <<>>
  BY <1>0, <1>1 DEF CallStep, EnvStep, Visit, watch
<1>2. CASE WatchStep
  <2>1. ASSUME NEW n \in Missions, Watch!Watch_on_crs(n), calls'[m] # calls[m]
        PROVE  cache'[m] # NotYet
    <3>1. n = m /\ cache'[m] = Head(stream[m]) /\ stream[m] # <<>>
      BY <1>0, <2>1 DEF Watch!Watch_on_crs
    <3>2. Head(stream[m]) \in OnItsWay(m)
      BY <1>0, <3>1, SeqData DEF OnItsWay
    <3> QED BY <3>1, <3>2, WayTypes
  <2>2. CASE Watch!Init_watcher
    BY <2>2, ListedData DEF Watch!Init_watcher, Watch!Exists
  <2>3. Watch!Synchronize_cache \/ Watch!Too_old => calls' = calls
    BY DEF Watch!Synchronize_cache, Watch!Too_old
  <2> QED BY <1>2, <2>1, <2>2, <2>3 DEF WatchStep
<1>3. ASSUME NEW r \in Robots, RunStep(r)
      PROVE  calls' = calls
  BY <1>3 DEF RunStep, MovesTo, SavesTo, RunFrame
<1>4. Start_pass \/ Fetch_watch_missions \/ RobotStep \/ UNCHANGED vars => calls' = calls
  BY DEF Start_pass, Fetch_watch_missions, RobotStep, vars, watch
<1>5. CASE Start_again
  BY <1>5, WayStart DEF Watch!Exists
<1> QED BY <1>1, <1>2, <1>3, <1>4, <1>5, Steps DEF SomeStep, OtherStep

\* The cache comes first.
LEMMA CachedStep ==
    ASSUME Typed, [Next]_vars, NEW m \in Missions, MissionInv(m)
    PROVE  CachedFirst(m)'
<1>1. WayFacts(m)
  BY WayStep
<1>2. SUFFICES ASSUME cache'[m] = NotYet
               PROVE  /\ calls'[m] = <<>> /\ missions'[m] = NotYet /\ todo'[m] = NotYet
                      /\ \A r \in Robots : job'[r].m # m
  BY DEF CachedFirst
<1>3. /\ calls[m] = <<>> /\ missions[m] = NotYet /\ todo[m] = NotYet
      /\ \A r \in Robots : job[r].m # m
  <2>1. cache[m] = NotYet \/ crs[m] = NotYet
    BY <1>1, <1>2, WayTypes DEF WayFacts
  <2> QED BY <2>1, NothingYet DEF MissionInv, CachedFirst
<1>4. calls'[m] = <<>>
  BY <1>2, <1>3, CallsStep
<1>5. Elems(<<>>) = {}
  BY DEF Elems
<1>6. missions'[m] = NotYet /\ todo'[m] = NotYet
  BY <1>1, <1>3, <1>5 DEF WayFacts
<1>7. ASSUME NEW r \in Robots, job'[r].m = m
      PROVE  FALSE
  <2>0. JobFacts(r) /\ m # None
    BY JobStep, MissionAssumption
  <2>1. TakeFacts(r)
    BY <1>3, <1>7, <2>0, FreeData DEF JobFacts
  <2>2. PICK n \in Missions : \E copy \in {todo[n], missions[n]} : Runnable(copy) /\ job'[r] = Taken(n, copy)
    BY <2>1 DEF TakeFacts
  <2>3. n = m
    BY <1>7, <2>2 DEF Taken
  <2>4. Runnable(NotYet)
    BY <1>3, <2>2, <2>3
  <2> QED BY <2>4, EntryData DEF Runnable
<1> QED BY <1>4, <1>6, <1>7

\* The controller and the labels are those of the beginning.
LEMMA KindStays ==
    ASSUME Typed, [Next]_vars
    PROVE  kind' = kind /\ robot_of' = robot_of
<1>1. ASSUME NEW m \in Missions, CallStep(m) \/ EnvStep(m) \/ Visit(m)
      PROVE  kind' = kind /\ robot_of' = robot_of
  BY <1>1 DEF CallStep, EnvStep, Visit
<1>2. ASSUME NEW r \in Robots, RunStep(r)
      PROVE  kind' = kind /\ robot_of' = robot_of
  BY <1>2 DEF RunStep, MovesTo, SavesTo, RunFrame
<1>3. Start_pass \/ Fetch_watch_missions \/ WatchStep \/ RobotStep \/ Start_again \/ UNCHANGED vars
        => kind' = kind /\ robot_of' = robot_of
  BY DEF Start_pass, Fetch_watch_missions, WatchStep, RobotStep, Start_again, vars
<1> QED BY <1>1, <1>2, <1>3, Steps DEF SomeStep, OtherStep

\* A mission that was looked at stays so, unless the process is started again.
LEMMA VisitedStep ==
    ASSUME Typed, [Next]_vars, NEW m \in Missions, Unvisited(m)'
    PROVE  Start_again \/ Unvisited(m)
<1>0. todo \in [Missions -> Entries]
  BY TypeFacts DEF Typed
<1>1. ASSUME UNCHANGED <<upstart, todo>>
      PROVE  Unvisited(m)
  BY <1>1 DEF Unvisited, InPass
<1>2. ASSUME NEW n \in Missions, Visit(n)
      PROVE  Unvisited(m)
  <2>1. upstart /\ \E k \in Missions \ {n} : todo[k] # NotYet
    BY <1>2 DEF Visit, Unvisited
  <2>2. InPass'
    BY <1>0, <1>2, <2>1 DEF Visit, InPass
  <2>3. todo'[m] # NotYet
    BY <2>2 DEF Unvisited
  <2>4. todo[m] # NotYet
    BY <1>0, <1>2, <2>3 DEF Visit
  <2> QED BY <2>1, <2>4 DEF Unvisited
<1>3. ASSUME Start_pass
      PROVE  Unvisited(m)
  BY <1>3 DEF Start_pass, Unvisited
<1>4. ASSUME NEW n \in Missions, CallStep(n) \/ EnvStep(n)
      PROVE  UNCHANGED <<upstart, todo>>
  BY <1>4 DEF CallStep, EnvStep
<1>5. ASSUME NEW r \in Robots, RunStep(r)
      PROVE  UNCHANGED <<upstart, todo>>
  BY <1>5 DEF RunStep, MovesTo, SavesTo, RunFrame
<1>6. WatchStep \/ RobotStep \/ UNCHANGED vars => UNCHANGED <<upstart, todo>>
  BY DEF WatchStep, RobotStep, vars
<1>7. ~Fetch_watch_missions
  BY FetchPass DEF Unvisited
<1> QED BY <1>1, <1>2, <1>3, <1>4, <1>5, <1>6, <1>7, Steps DEF SomeStep, OtherStep

\* A mission in work is not in the pass.
LEMMA TodoStep ==
    ASSUME Typed, [Next]_vars, NEW m \in Missions, NEW r \in Robots, job[r].m = m, todo[m] = NotYet
    PROVE  todo'[m] = NotYet
<1>0. todo \in [Missions -> Entries]
  BY TypeFacts DEF Typed
<1>1. ASSUME NEW n \in Missions, CallStep(n) \/ EnvStep(n) \/ Visit(n)
      PROVE  todo'[m] = NotYet
  BY <1>0, <1>1 DEF CallStep, EnvStep, Visit
<1>2. ASSUME NEW q \in Robots, RunStep(q)
      PROVE  todo' = todo
  BY <1>2 DEF RunStep, MovesTo, SavesTo, RunFrame
<1>3. WatchStep \/ RobotStep \/ Fetch_watch_missions \/ UNCHANGED vars => todo' = todo
  BY DEF WatchStep, RobotStep, Fetch_watch_missions, vars
<1>4. ~Start_pass
  BY FreeData, MissionAssumption DEF Start_pass, Loop_free
<1>5. Start_again => todo'[m] = NotYet
  BY DEF Start_again
<1> QED BY <1>1, <1>2, <1>3, <1>4, <1>5, Steps DEF SomeStep, OtherStep

\* A Fetch pass takes no time in any state reached.
LEMMA NoPassStep ==
    ASSUME Typed, [Next]_vars, NoPass
    PROVE  NoPass'
<1>1. kind' = kind
  BY KindStays
<1>2. SUFFICES ASSUME kind = "fetch", NEW m \in Missions
               PROVE  todo'[m] = NotYet
  BY <1>1 DEF NoPass
<1>3. todo[m] = NotYet /\ todo \in [Missions -> Entries]
  BY <1>2, TypeFacts DEF NoPass, Typed
<1>4. ASSUME NEW n \in Missions, CallStep(n) \/ EnvStep(n) \/ Visit(n)
      PROVE  todo'[m] = NotYet
  BY <1>3, <1>4 DEF CallStep, EnvStep, Visit
<1>5. ASSUME NEW q \in Robots, RunStep(q)
      PROVE  todo' = todo
  BY <1>5 DEF RunStep, MovesTo, SavesTo, RunFrame
<1>6. WatchStep \/ RobotStep \/ Fetch_watch_missions \/ UNCHANGED vars => todo' = todo
  BY DEF WatchStep, RobotStep, Fetch_watch_missions, vars
<1>7. Start_again => todo'[m] = NotYet
  BY DEF Start_again
<1> QED BY <1>2, <1>3, <1>4, <1>5, <1>6, <1>7, Steps DEF SomeStep, OtherStep

\* A new process finds no mission RUNNING that has ended.
LEMMA UpstartStep ==
    ASSUME Typed, [Next]_vars, NoPass, NEW m \in Missions, MissionInv(m)
    PROVE  Upstart(m)'
<1>0. WayFacts(m) /\ CrsFacts(m) /\ m # None
  BY WayStep, CrsStep, MissionAssumption
<1>1. ASSUME Unvisited(m)', crs'[m].status \in Final, NEW e, e \in Copies(m)'
      PROVE  e.status # "RUNNING"
  <2>1. CASE Start_again
    BY <1>1, <2>1, WayStart, EntryData DEF Final
  <2>2. CASE Unvisited(m)
    <3>1. \A r \in Robots : job[r].m # m
      BY <2>2 DEF MissionInv, Upstart
    <3>2. crs'[m] = crs[m]
      BY <1>0, <1>1, <3>1, CrsForward
    <3>3. e \in Copies(m) => e.status # "RUNNING"
      BY <1>1, <2>2, <3>2 DEF MissionInv, Upstart
    <3> QED BY <1>0, <1>1, <3>3, CopiesStep, EntryData DEF Final
  <2> QED BY <1>1, <2>1, <2>2, VisitedStep
<1>2. ASSUME NEW r \in Robots, job'[r].m = m
      PROVE  todo'[m] = NotYet /\ ~Unvisited(m)'
  <2>0. JobFacts(r)
    BY JobStep
  <2>1. CASE Start_again
    BY <1>0, <1>2, <2>1, FreeData, WayStart
  <2>2. CASE job[r].m = m /\ ~Start_again
    <3>1. todo[m] = NotYet /\ ~Unvisited(m)
      BY <2>2 DEF MissionInv, Upstart
    <3> QED BY <2>2, <3>1, TodoStep, VisitedStep
  <2>3. CASE job[r].m # m
    <3>1. TakeFacts(r)
      BY <1>0, <1>2, <2>0, <2>3, FreeData DEF JobFacts
    <3>2. PICK n \in Missions :
             \/ job'[r] = Taken(n, todo[n]) /\ Visit(n)
             \/ job'[r] = Taken(n, missions[n]) /\ kind = "fetch" /\ upstart' = FALSE
      BY <3>1 DEF TakeFacts
    <3>3. n = m
      BY <1>2, <3>2 DEF Taken
    <3>4. CASE Visit(n)
      <4>1. todo'[m] = NotYet
        BY <3>3, <3>4, TypeFacts DEF Visit, Typed
      <4>2. upstart' => \E k \in Missions \ {m} : todo'[k] # NotYet
        BY <3>3, <3>4, TypeFacts DEF Visit, Typed
      <4> QED BY <4>1, <4>2 DEF Unvisited, InPass
    <3>5. CASE kind = "fetch" /\ upstart' = FALSE
      <4>1. kind' = kind /\ NoPass'
        BY KindStays, NoPassStep
      <4> QED BY <3>5, <4>1 DEF NoPass, Unvisited
    <3> QED BY <3>2, <3>4, <3>5
  <2> QED BY <2>1, <2>2, <2>3
<1> QED BY <1>1, <1>2 DEF Upstart

\* While the watch has kept up, the copy of a mission that has ended says so.
LEMMA KeptNotFinal ==
    ASSUME Typed, NewestOnItsWay, ~Lagging, KeptUp, NEW m \in Missions,
           missions[m].status \in {"ACCEPTED", "RUNNING"}
    PROVE  crs[m].status \notin Final
<1>1. lost = 0 /\ PromptWatch
  BY TypeFacts DEF Lagging, Typed
<1>2. stream[m] \in Seq(CR \union {Gone}) /\ calls[m] \in Seq(CR \union {Gone})
  BY TypeFacts DEF Typed
<1>3. \A k \in 1 .. Len(stream[m]) : stream[m][k].status \notin Final
  BY <1>1 DEF KeptUp
<1>4. \A k \in 1 .. Len(calls[m]) : calls[m][k].status \notin Final
  BY <1>1 DEF KeptUp
<1>5. Newest(m).status \notin Final
  <2>1. stream[m] # <<>> => Len(stream[m]) \in 1 .. Len(stream[m])
    BY <1>2
  <2>2. calls[m] # <<>> => Len(calls[m]) \in 1 .. Len(calls[m])
    BY <1>2
  <2>3. missions[m].status \notin Final
    BY DEF Final
  <2> QED BY <1>3, <1>4, <2>1, <2>2, <2>3 DEF Newest
<1>6. CASE Watch!Exists(m)
  BY <1>1, <1>5, <1>6 DEF NewestOnItsWay
<1>7. CASE ~Watch!Exists(m)
  BY <1>7, EntryData DEF Watch!Exists, Final
<1> QED BY <1>6, <1>7

\* The pass has no ended mission to look at while the watch keeps up.
LEMMA InTodoStep ==
    ASSUME Typed, [Next]_vars, NewestOnItsWay, NEW m \in Missions, MissionInv(m)
    PROVE  InTodo(m)'
<1>0. CrsFacts(m)
  BY CrsStep
<1>1. SUFFICES ASSUME ~Lagging', todo'[m].status \in {"ACCEPTED", "RUNNING"}
               PROVE  crs'[m].status \notin Final
  BY DEF InTodo
<1>2. ~Lagging
  BY <1>1, LostGrows DEF Lagging
<1>3. todo'[m] # NotYet
  BY <1>1, EntryData
<1>4. CASE Start_pass
  <2>1. todo'[m] = missions[m] /\ crs' = crs /\ KeptUp
    BY <1>4 DEF Start_pass, watch
  <2> QED BY <1>1, <1>2, <2>1, KeptNotFinal
<1>5. CASE todo'[m] = todo[m]
  <2>1. crs[m].status \notin Final
    BY <1>1, <1>2, <1>5 DEF MissionInv, InTodo
  <2>2. \A r \in Robots : job[r].m # m
    BY <1>3, <1>5 DEF MissionInv, Upstart
  <2> QED BY <1>0, <2>1, <2>2, CrsForward
<1>6. Start_pass \/ todo'[m] = todo[m]
  <2>0. todo \in [Missions -> Entries]
    BY TypeFacts DEF Typed
  <2>1. ASSUME NEW n \in Missions, CallStep(n) \/ EnvStep(n) \/ Visit(n)
        PROVE  todo'[m] = todo[m]
    BY <1>3, <2>0, <2>1 DEF CallStep, EnvStep, Visit
  <2>2. ASSUME NEW q \in Robots, RunStep(q)
        PROVE  todo' = todo
    BY <2>2 DEF RunStep, MovesTo, SavesTo, RunFrame
  <2>3. WatchStep \/ RobotStep \/ Fetch_watch_missions \/ UNCHANGED vars => todo' = todo
    BY DEF WatchStep, RobotStep, Fetch_watch_missions, vars
  <2>4. ~Start_again
    BY <1>3 DEF Start_again
  <2> QED BY <2>1, <2>2, <2>3, <2>4, Steps DEF SomeStep, OtherStep
<1> QED BY <1>4, <1>5, <1>6

\* What may happen to the CR of a mission in work.
LEMMA WorkCrs ==
    ASSUME Typed, NEW r \in Robots, job[r].m \in Missions, MissionInv(job[r].m), CrsFacts(job[r].m)
    PROVE  \/ crs'[job[r].m] = crs[job[r].m]
           \/ crs'[job[r].m] = Gone
           \/ job[r].pc = "end" /\ job'[r] = Free /\ crs'[job[r].m].status \in Final
           \/ /\ crs'[job[r].m].status = "RUNNING" /\ job'[r].m = job[r].m
              /\ job'[r].pc \in {"action", "watch"}
<1>1. PICK m \in Missions : m = job[r].m
  OBVIOUS
<1>2. crs[m].status \notin {"none", "new"}
  BY <1>1 DEF MissionInv, NotAhead
<1>3. \A q \in Robots : job[q].m = m => q = r
  BY <1>1, FreeData, MissionAssumption DEF Typed, JobTyped
<1>4. CrsFacts(m) /\ MissionInv(m)
  BY <1>1
<1>5. crs[m] # NotYet
  BY <1>2, EntryData
<1>6. ~(missions[m] = NotYet /\ Watch!Exists(m) /\ \E e \in OnItsWay(m) : e.status = "new")
  BY <1>2, <1>4 DEF MissionInv, AcceptedOnce
<1> QED BY <1>1, <1>3, <1>4, <1>5, <1>6 DEF CrsFacts

\* The mission in work does not end by itself.
LEMMA InWorkStep ==
    ASSUME Typed, [Next]_vars, NewestOnItsWay, NoPass, \A m \in Missions : MissionInv(m),
           NEW r \in Robots, InWork(r, job[r])
    PROVE  InWork(r, job[r])'
<1> DEFINE m == job'[r].m
<1>0. JobFacts(r) /\ lost' \in Nat /\ (~Lagging' => ~Lagging)
  BY JobStep, LostGrows DEF Lagging
<1>1. CASE job'[r] = Free \/ job'[r].pc = "stuck"
  BY <1>1, FreeData DEF InWork, Underway
<1>2. CASE job'[r].m = job[r].m /\ job[r].m \in Missions /\ crs'[job[r].m].status = "RUNNING"
  BY <1>2 DEF InWork, Final
<1>3. CASE job'[r] = job[r]
  <2>1. CASE job[r].pc = "free"
    BY <1>3, <2>1 DEF InWork, Underway
  <2>2. CASE job[r].pc # "free"
    <3>1. job[r].m \in Missions
      BY <2>2 DEF Typed, JobTyped
    <3>2. CrsFacts(job[r].m)
      BY <3>1, CrsStep
    <3>3. CASE crs'[job[r].m] = crs[job[r].m]
      BY <1>0, <1>3, <3>3 DEF InWork
    <3>4. CASE crs'[job[r].m] = Gone
      BY <1>3, <3>4, EntryData DEF InWork, Final
    <3>5. CASE job'[r] = Free
      BY <1>1, <3>5
    <3> QED BY <1>2, <1>3, <3>1, <3>2, <3>3, <3>4, <3>5, WorkCrs
  <2> QED BY <2>1, <2>2
<1>4. CASE /\ job[r].pc \in Underway \/ (job[r].pc = "begin" /\ job[r].cr.status = "RUNNING")
           /\ job'[r].pc \in Underway /\ job'[r].m = job[r].m /\ crs' = crs
  BY <1>0, <1>4 DEF InWork, Underway
<1>5. CASE TakeFacts(r)
  <2>1. PICK n \in Missions : \E copy \in {todo[n], missions[n]} :
           /\ Runnable(copy) /\ job'[r] = Taken(n, copy)
           /\ \/ copy = todo[n] /\ Visit(n)
              \/ copy = missions[n] /\ kind = "fetch" /\ KeptUp
    BY <1>5 DEF TakeFacts
  <2>2. PICK copy \in {todo[n], missions[n]} :
           /\ Runnable(copy) /\ job'[r] = Taken(n, copy)
           /\ \/ copy = todo[n] /\ Visit(n)
              \/ copy = missions[n] /\ kind = "fetch" /\ KeptUp
    BY <2>1
  <2>3. /\ copy.status \in {"ACCEPTED", "RUNNING"} /\ (copy.status = "RUNNING" => upstart)
        /\ job'[r].m = n /\ job'[r].pc = "begin" /\ job'[r].cr = copy /\ crs' = crs
    BY <1>5, <2>2 DEF Runnable, Taken, TakeFacts
  <2>4. copy \in Copies(n) /\ MissionInv(n)
    BY DEF Copies
  <2>5. ASSUME copy.status = "RUNNING"
        PROVE  crs[n].status \in {"RUNNING", "deleted"}
    <3>1. Unvisited(n)
      BY <2>2, <2>3, <2>5 DEF Unvisited, Visit, NoPass, InPass
    <3>2. crs[n].status \notin Final
      BY <2>4, <2>5, <3>1 DEF MissionInv, Upstart
    <3>3. crs[n].status \notin {"none", "new", "ACCEPTED"}
      BY <2>4, <2>5 DEF MissionInv, NotAhead
    <3>4. crs[n] \in Entries
      BY TypeFacts, EntryData DEF Typed
    <3> QED BY <3>2, <3>3, <3>4, EntryFields DEF Statuses
  <2>6. ASSUME ~Lagging
        PROVE  crs[n].status \notin Final
    BY <2>2, <2>3, <2>4, <2>6, KeptNotFinal DEF MissionInv, InTodo
  <2> QED BY <1>0, <2>3, <2>5, <2>6 DEF InWork, Underway
<1> QED BY <1>0, <1>1, <1>2, <1>3, <1>4, <1>5 DEF JobFacts

-----------------------------------------------------------------------------
(* The service                                                                *)

\* ServiceInv holds at the start.
LEMMA ServiceInvInit ==
    ASSUME Init
    PROVE  ServiceInv
<1>1. Elems(<<>>) = {}
  BY DEF Elems
<1>2. ASSUME NEW m \in Missions
      PROVE  /\ crs[m] = NotYet /\ cache[m] = NotYet /\ calls[m] = <<>>
             /\ Copies(m) = {NotYet} /\ OnItsWay(m) = {}
             /\ missions[m] = NotYet /\ todo[m] = NotYet
  BY <1>1 DEF Init, Watch!WatchInit, Copies, OnItsWay
<1>3. ASSUME NEW r \in Robots
      PROVE  job[r] = Free
  BY <1>3 DEF Init
<1>4. ASSUME NEW m \in Missions
      PROVE  MissionInv(m)
  <2>1. \A r \in Robots : job[r].m # m
    BY <1>3, FreeData, MissionAssumption
  <2> QED BY <1>2, <2>1, EntryData
          DEF MissionInv, GoneStays, CachedFirst, AcceptedOnce, NotAhead, Upstart, InTodo, Final, Watch!Exists
<1>5. ASSUME NEW r \in Robots
      PROVE  InWork(r, job[r])
  BY <1>3, FreeData DEF InWork, Underway
<1>6. NoPass
  BY <1>2 DEF NoPass
<1> QED BY <1>4, <1>5, <1>6, ServiceParts

\* ServiceInv is inductive with the types and NewestOnItsWay.
LEMMA ServiceInvStep ==
    ASSUME Typed, NewestOnItsWay, ServiceInv, [Next]_vars
    PROVE  ServiceInv'
<1>0. NoPass /\ (\A m \in Missions : MissionInv(m)) /\ (\A r \in Robots : InWork(r, job[r]))
  BY ServiceParts
<1>1. NoPass'
  BY <1>0, NoPassStep
<1>2. ASSUME NEW m \in Missions
      PROVE  /\ GoneStays(m)' /\ CachedFirst(m)' /\ AcceptedOnce(m)' /\ NotAhead(m)'
             /\ Upstart(m)' /\ InTodo(m)'
  BY <1>0, GoneStep, CachedStep, AcceptedStep, AheadStep, UpstartStep, InTodoStep
<1>3. \A r \in Robots : InWork(r, job[r])'
  BY <1>0, InWorkStep
<1> QED BY <1>1, <1>2, <1>3 DEF ServiceInv

\* What the loop rests on when it takes a copy for the CR: a copy is never
\* ahead of its CR, a CR is accepted once, nothing follows its deletion, and
\* what is in work has not ended while the watch keeps up.
THEOREM ServiceRests == Spec => []ServiceInv
<1>1. Init => ServiceInv
  BY ServiceInvInit
<1>2. Typed /\ NewestOnItsWay /\ ServiceInv /\ [Next]_vars => ServiceInv'
  BY ServiceInvStep
<1> QED BY <1>1, <1>2, Typing, NewestArrives, PTL DEF Spec

\* What of the service a step leaves as it is.
ServiceFrame == UNCHANGED <<crs, job, lost>>

\* A step that changes neither CRs nor jobs is none of the service.
LEMMA FrameStep ==
    ASSUME ServiceFrame
    PROVE  UNCHANGED Service!service_vars
BY DEF ServiceFrame, Service!service_vars

\* A callback accepts a mission, in the words of the service, or does nothing there.
LEMMA AcceptStep ==
    ASSUME Typed, ServiceInv, NEW m \in Missions, CallStep(m)
    PROVE  ServiceFrame \/ Service!Accept(m)
<1>1. CASE UNCHANGED crs
  BY <1>1 DEF CallStep, ServiceFrame
<1>2. CASE ~UNCHANGED crs
  <2>1. /\ missions[m] = NotYet /\ Head(calls[m]).status = "new" /\ Watch!Exists(m)
        /\ calls[m] # <<>> /\ UNCHANGED <<job, lost>>
        /\ Watch!Write(m, [NewCR EXCEPT !.status = "ACCEPTED"])
    BY <1>2 DEF CallStep
  <2>2. Head(calls[m]) \in OnItsWay(m)
    BY <2>1, TypeFacts, SeqData DEF Typed, OnItsWay
  <2>3. crs[m].status = "new"
    BY <2>1, <2>2, ServiceParts DEF MissionInv, AcceptedOnce
  <2>4. [NewCR EXCEPT !.status = "ACCEPTED"].status = "ACCEPTED"
    BY EntryEdits, EntryData
  <2>5. [n \in Missions |-> crs'[n].status] = [[n \in Missions |-> crs[n].status] EXCEPT ![m] = "ACCEPTED"]
    BY <2>1, <2>4, TypeFacts DEF Typed, Watch!Write
  <2> QED BY <2>1, <2>3, <2>5 DEF Service!Accept, Service!SetStatus
<1> QED BY <1>1, <1>2

\* The robot controller requests and withdraws missions of the service.
LEMMA RequestStep ==
    ASSUME Typed, NEW m \in Missions, EnvStep(m)
    PROVE  Service!Request(m) \/ Service!Withdraw(m)
<1>0. crs \in [Missions -> CR \union {NotYet, Gone}] /\ UNCHANGED <<job, lost>>
  BY TypeFacts DEF Typed, EnvStep, faults
<1>1. CASE crs[m] = NotYet /\ Watch!Write(m, NewCR)
  <2>1. [n \in Missions |-> crs'[n].status] = [[n \in Missions |-> crs[n].status] EXCEPT ![m] = "new"]
    BY <1>0, <1>1, EntryData DEF Watch!Write
  <2> QED BY <1>0, <1>1, <2>1, EntryData DEF Service!Request, Service!SetStatus
<1>2. CASE Watch!Exists(m) /\ Watch!Write(m, Gone)
  <2>1. [n \in Missions |-> crs'[n].status] = [[n \in Missions |-> crs[n].status] EXCEPT ![m] = "deleted"]
    BY <1>0, <1>2, EntryData DEF Watch!Write
  <2>2. crs[m] \in CR
    BY <1>0, <1>2 DEF Watch!Exists
  <2>3. crs[m].status \notin {"none", "deleted"}
    BY <2>2 DEF CR
  <2> QED BY <1>0, <2>1, <2>3 DEF Service!Withdraw, Service!SetStatus
<1> QED BY <1>1, <1>2 DEF EnvStep

\* A mission that is taken up is one that the robot controller waits for.
LEMMA ReadyStep ==
    ASSUME Typed, NewestOnItsWay, ServiceInv, NEW r \in Robots, TakeFacts(r)
    PROVE  job[r].m = None /\ job'[r].m \in Missions /\ Service!Ready(job'[r].m)
<1>1. PICK n \in Missions : \E copy \in {todo[n], missions[n]} :
         /\ Runnable(copy) /\ job'[r] = Taken(n, copy)
         /\ copy = todo[n] \/ KeptUp
  BY DEF TakeFacts
<1>2. PICK copy \in {todo[n], missions[n]} :
         /\ Runnable(copy) /\ job'[r] = Taken(n, copy)
         /\ copy = todo[n] \/ KeptUp
  BY <1>1
<1>3. copy.status \in {"ACCEPTED", "RUNNING"} /\ job'[r].m = n /\ job[r].m = None
  BY <1>2, FreeData DEF Runnable, Taken, TakeFacts
<1>4. MissionInv(n) /\ copy \in Copies(n)
  BY ServiceParts DEF Copies
<1>5. crs[n].status \notin {"none", "new"}
  BY <1>3, <1>4 DEF MissionInv, NotAhead
<1>6. ~Lagging => crs[n].status \notin Final
  BY <1>2, <1>3, <1>4, KeptNotFinal DEF MissionInv, InTodo
<1>7. crs[n].status \in Statuses
  BY TypeFacts, EntryData, EntryFields DEF Typed
<1>8. Service!Ready(n)
  BY <1>5, <1>6, <1>7 DEF Service!Ready, Lagging, Statuses
<1> QED BY <1>3, <1>8

\* The loop takes missions into work as the service does.
LEMMA TakenStep ==
    ASSUME Typed, NewestOnItsWay, ServiceInv,
           (\E m \in Missions : Visit(m)) \/ (kind = "fetch" /\ Fetch_watch_missions)
    PROVE  Service!Take
<1> DEFINE taken == [r \in Robots |-> job'[r].m]
<1>0. UNCHANGED <<crs, lost>> /\ \A r \in Robots : job'[r] = job[r] \/ TakeFacts(r)
  <2>1. CASE Robots = {}
    BY <2>1 DEF Visit, Fetch_watch_missions, watch, faults
  <2>2. CASE Robots # {}
    BY <2>2, TakeStep
  <2> QED BY <2>1, <2>2
<1>1. ASSUME NEW r \in Robots
      PROVE  /\ taken[r] \in Missions \union {None}
             /\ IF [q \in Robots |-> job[q].m][r] = None
                THEN taken[r] # None => Service!Ready(taken[r])
                ELSE taken[r] = [q \in Robots |-> job[q].m][r]
  <2>1. job[r].m \in Missions \union {None}
    BY TypeFacts, JobData DEF Typed
  <2>2. CASE job'[r] = job[r]
    BY <2>1, <2>2
  <2>3. CASE TakeFacts(r)
    BY <2>3, ReadyStep
  <2> QED BY <1>0, <2>2, <2>3
<1>2. taken \in [Robots -> Missions \union {None}]
  BY <1>1
<1> QED BY <1>0, <1>1, <1>2 DEF Service!Take

\* run_mission runs, ends or drops a mission of the service.
LEMMA DropOrRun ==
    ASSUME Typed, ServiceInv, NEW r \in Robots, RunStep(r)
    PROVE  \/ UNCHANGED Service!service_vars
           \/ Service!Drop(r) \/ Service!Run(r) \/ \E s \in Final : Service!End(r, s)
<1> DEFINE m == job[r].m
<1>0. /\ crs \in [Missions -> CR \union {NotYet, Gone}] /\ job \in [Robots -> Job]
      /\ cache \in [Missions -> CR \union {NotYet, Gone}]
      /\ job[r].pc # "free" => m \in Missions /\ m # None
      /\ [q \in Robots |-> job[q].m][r] = m
  BY TypeFacts, MissionAssumption DEF Typed, JobTyped
<1>1. m \in Missions => MissionInv(m) /\ [n \in Missions |-> crs[n].status][m] = crs[m].status
  BY ServiceParts
<1>2. m \in Missions => crs[m].status \notin {"none", "new"} /\ crs[m].status \in Statuses
  BY <1>0, <1>1, EntryData, EntryFields DEF MissionInv, NotAhead
<1>3. ASSUME NEW j, JobKept(r, j), Goes(job[r], j), MovesTo(r, j)
      PROVE  UNCHANGED Service!service_vars \/ Service!Drop(r)
  <2>0. UNCHANGED <<crs, lost>> /\ job' = [job EXCEPT ![r] = j]
    BY <1>3 DEF MovesTo, RunFrame
  <2>1. CASE j.m = m
    <3>1. \A q \in Robots : job'[q].m = job[q].m
      BY <1>0, <2>0, <2>1
    <3> QED BY <2>0, <3>1 DEF Service!service_vars
  <2>2. CASE job[r].pc # "free" /\ j = Free /\ (~Watch!Cached(m) \/ ~Watch!Exists(m))
    <3>1. m \in Missions /\ MissionInv(m)
      BY <1>0, <1>1, <2>2
    <3>2. cache[m] # NotYet
      BY <3>1 DEF MissionInv, CachedFirst
    <3>3. crs[m] = Gone
      BY <1>2, <2>2, <3>1, <3>2, EntryData DEF Watch!Cached, Watch!Exists, MissionInv, GoneStays
    <3>4. [q \in Robots |-> job'[q].m] = [[q \in Robots |-> job[q].m] EXCEPT ![r] = None]
      BY <1>0, <2>0, <2>2, FreeData
    <3> QED BY <1>0, <1>1, <2>0, <2>2, <3>1, <3>3, <3>4, EntryData DEF Service!Drop
  <2> QED BY <1>3, <2>1, <2>2 DEF Goes
<1>4. ASSUME NEW j, JobKept(r, j), Writes(job[r], j), SavesTo(r, j)
      PROVE  Service!Run(r) \/ \E s \in Final : Service!End(r, s)
  <2>0. /\ m \in Missions /\ j.m = m /\ j.cr \in CR /\ crs' = [crs EXCEPT ![m] = j.cr] /\ lost' = lost
        /\ job' = [job EXCEPT ![r] = IF j.cr.status \in Final THEN Free ELSE j] /\ Watch!Exists(m)
    BY <1>4, RunWrite DEF SavesTo, RunFrame, Watch!Write
  <2>1. crs[m].status \in {"ACCEPTED", "RUNNING"} \union Final /\ m # None
    BY <1>0, <1>2, <2>0, MissionAssumption DEF Statuses, Watch!Exists, CR
  <2>2. [n \in Missions |-> crs'[n].status] = [[n \in Missions |-> crs[n].status] EXCEPT ![m] = j.cr.status]
    BY <1>0, <2>0
  <2>3. CASE job[r].pc \in {"begin", "register", "watch"} /\ j.pc \in {"action", "watch"}
    <3>1. j.cr.status = "RUNNING" /\ j.cr.status \notin Final
      BY <1>4, <2>3 DEF JobKept, JobTyped, Final
    <3>2. [q \in Robots |-> job'[q].m] = [q \in Robots |-> job[q].m]
      BY <1>0, <2>0, <3>1
    <3>3. ~Lagging => crs[m].status \notin Final
      BY <2>3, ServiceParts DEF InWork
    <3> QED BY <1>0, <1>1, <2>0, <2>1, <2>2, <3>1, <3>2, <3>3 DEF Service!Run, Service!SetStatus, Service!Final, Final, Lagging
  <2>4. CASE job[r].pc = "end" /\ j.pc = "end"
    <3>1. j.cr.status \in Final
      BY <1>4, <2>4 DEF JobKept, JobTyped
    <3>2. crs[m].status = "RUNNING"
      BY <2>1, <2>4, ServiceParts DEF InWork, Underway, Final
    <3>3. [q \in Robots |-> job'[q].m] = [[q \in Robots |-> job[q].m] EXCEPT ![r] = None]
      BY <1>0, <2>0, <3>1, FreeData
    <3>4. Service!End(r, j.cr.status)
      BY <1>0, <1>1, <2>0, <2>1, <2>2, <3>2, <3>3 DEF Service!End, Service!SetStatus
    <3> QED BY <3>1, <3>4
  <2> QED BY <1>4, <2>3, <2>4 DEF Writes
<1> QED BY <1>3, <1>4 DEF RunStep

\* A watch that loses versions falls behind in the words of the service.
LEMMA BehindStep ==
    ASSUME Typed, WatchStep
    PROVE  UNCHANGED Service!service_vars \/ Service!FallBehind
<1>1. UNCHANGED <<crs, job>>
  BY DEF WatchStep, Watch!Watch_on_crs, Watch!Synchronize_cache, Watch!Init_watcher, Watch!Too_old
<1>2. lost' = lost \/ lost' > 0
  BY TypeFacts DEF WatchStep, Typed
<1> QED BY <1>1, <1>2 DEF Service!FallBehind, Service!service_vars

\* Every step is one of the service, or none that the robot controller sees.
LEMMA ServiceStep ==
    ASSUME Typed, NewestOnItsWay, ServiceInv, [Next]_vars
    PROVE  Service!Next \/ UNCHANGED Service!service_vars
<1>1. ASSUME NEW m \in Missions, CallStep(m) \/ EnvStep(m)
      PROVE  Service!Next \/ UNCHANGED Service!service_vars
  BY <1>1, AcceptStep, RequestStep, FrameStep DEF Service!Next
<1>2. (\E m \in Missions : Visit(m)) \/ (kind = "fetch" /\ Fetch_watch_missions) => Service!Next
  BY TakenStep DEF Service!Next
<1>3. ASSUME NEW r \in Robots, RunStep(r)
      PROVE  Service!Next \/ UNCHANGED Service!service_vars
  BY <1>3, DropOrRun DEF Service!Next, Service!Final, Final
<1>4. Start_pass \/ RobotStep \/ UNCHANGED vars => UNCHANGED Service!service_vars
  BY FrameStep DEF Start_pass, RobotStep, vars, watch, faults, ServiceFrame
<1>5. Start_again => Service!Halt
  <2>1. ASSUME Start_again
        PROVE  /\ UNCHANGED <<crs, lost>>
               /\ \A r \in Robots : job'[r].m = None
    BY <2>1, FreeData DEF Start_again, Watch!Start_watcher
  <2> QED BY <2>1 DEF Service!Halt
<1>6. WatchStep => Service!Next \/ UNCHANGED Service!service_vars
  BY BehindStep DEF Service!Next
<1>7. Service!Halt => Service!Next
  BY DEF Service!Next
<1> QED BY <1>1, <1>2, <1>3, <1>4, <1>5, <1>6, <1>7, Steps DEF SomeStep, OtherStep

\* The three mission controllers do what a robot controller may rely on: they
\* implement MissionService.
THEOREM ServiceImplemented == Spec => ServiceKept
<1>1. Init => Service!Init
  BY EntryData, FreeData DEF Init, Watch!WatchInit, Service!Init
<1>2. Typed /\ NewestOnItsWay /\ ServiceInv /\ [Next]_vars => [Service!Next]_(Service!service_vars)
  BY ServiceStep
<1> QED BY <1>1, <1>2, Typing, NewestArrives, ServiceRests, PTL DEF Spec, ServiceKept, Service!Spec

-----------------------------------------------------------------------------
(* The order of the actions                                                   *)

\* What a step does to the robot missions: some go on, or one is added for the
\* action a mission has come to, which goes on with it unless the request was
\* not answered.
QueueKept ==
    /\ next_id' = next_id
    /\ \A id \in Ids :
         /\ queue'[id].m = queue[id].m /\ queue'[id].action = queue[id].action
         /\ queue[id].state \notin Unfinished => queue'[id] = queue[id]

QueueNew ==
    \E r \in Robots :
      /\ Needs_creation(r) /\ Enqueue(r)
      /\ job'[r].m = job[r].m /\ job'[r].i = job[r].i
      /\ job'[r].pc = "register" \/ unanswered' = unanswered + 1

\* A step that leaves the queue alone keeps it.
LEMMA QueueSame ==
    ASSUME UNCHANGED <<queue, next_id>>
    PROVE  QueueKept
BY DEF QueueKept

\* A request adds a robot mission for the action of the job.
LEMMA QueueAdded ==
    ASSUME Typed, NEW r \in Robots, Needs_creation(r), Enqueue(r)
    PROVE  /\ next_id' = next_id + 1 /\ next_id' \in Ids /\ job[r].pc = "action"
           /\ job[r] \in Job /\ job[r].m \in Missions /\ job[r].i \in Nat \ {0}
           /\ job[r].i > Len(job[r].cr.ids)
           /\ queue'[next_id'] = [m |-> job[r].m, action |-> job[r].i, state |-> "Executing"]
           /\ \A id \in Ids : id # next_id' => queue'[id] = queue[id]
<1>1. next_id \in 0 .. MaxRobotMissions /\ MaxRobotMissions \in Nat /\ queue \in [Ids -> RobotMission]
  BY TypeFacts, MissionAssumption DEF Typed
<1>2. next_id' = next_id + 1 /\ next_id' \in Ids
  BY <1>1 DEF Enqueue, Ids
<1>3. job[r] \in Job /\ JobTyped(r, job[r]) /\ job[r].pc = "action"
  BY TypeFacts DEF Typed, Needs_creation, AtAction
<1>4. job[r].m \in Missions /\ job[r].i \in Nat \ {0} /\ job[r].i > Len(job[r].cr.ids)
  BY <1>3 DEF JobTyped, Needs_creation
<1> QED BY <1>1, <1>2, <1>3, <1>4 DEF Enqueue

\* Robot missions keep their mission and action, and what is done.
LEMMA QueueStays ==
    ASSUME Typed, Numbered, QueueKept \/ QueueNew
    PROVE  /\ next_id \in 0 .. MaxRobotMissions /\ next_id' \in {next_id, next_id + 1}
           /\ Numbered'
           /\ \A id \in Ids : queue[id].m # None =>
                /\ id <= next_id /\ queue'[id].m = queue[id].m /\ queue'[id].action = queue[id].action
                /\ queue[id].state = "Done" => queue'[id].state = "Done"
<1>1. next_id \in 0 .. MaxRobotMissions /\ MaxRobotMissions \in Nat
  BY TypeFacts, MissionAssumption DEF Typed
<1>2. NoRobotMission.m = None /\ NoRobotMission.state \notin Unfinished /\ "Done" \notin Unfinished
  BY DEF NoRobotMission, Unfinished
<1>3. \A id \in Ids : queue[id].m # None => id <= next_id
  BY <1>1, <1>2 DEF Numbered, Ids
<1>4. CASE QueueKept
  BY <1>1, <1>2, <1>3, <1>4 DEF QueueKept, Numbered
<1>5. CASE QueueNew
  <2>1. PICK r \in Robots : Needs_creation(r) /\ Enqueue(r)
    BY <1>5 DEF QueueNew
  <2>2. /\ next_id' = next_id + 1 /\ next_id' \in Ids
        /\ \A id \in Ids : id # next_id' => queue'[id] = queue[id]
    BY <2>1, QueueAdded
  <2>3. \A id \in Ids : id <= next_id => id # next_id'
    BY <1>1, <2>2 DEF Ids
  <2>4. Numbered'
    BY <1>1, <2>2 DEF Numbered, Ids
  <2> QED BY <1>1, <1>3, <2>2, <2>3, <2>4 DEF Ids
<1> QED BY <1>4, <1>5

\* What was performed stays performed, and an id that of its action.
LEMMA OrderStays ==
    ASSUME Typed, Numbered, kind' = kind, QueueKept \/ QueueNew, NEW m \in Missions
    PROVE  /\ \A i : Settled(m, i) => Settled(m, i)'
           /\ \A i : Before(m, i) => Before(m, i)'
           /\ \A id, i : Belongs(id, m, i) => Belongs(id, m, i)'
           /\ \A e : IdsOK(m, e) => IdsOK(m, e)'
           /\ \A j : j.m = m /\ JobInOrder(j) => JobInOrder(j)'
<1>0. /\ next_id \in 0 .. MaxRobotMissions /\ next_id' \in {next_id, next_id + 1} /\ m # None
      /\ MaxRobotMissions \in Nat
  BY QueueStays, MissionAssumption
<1>1. ASSUME NEW i, Settled(m, i)
      PROVE  Settled(m, i)'
  <2>1. CASE Left_out(m, i)
    BY <2>1 DEF Left_out, Settled
  <2>2. CASE Performed(m, i)
    <3>1. PICK id \in Ids : queue[id].m = m /\ queue[id].action = i /\ queue[id].state = "Done"
      BY <2>2 DEF Performed, Robot_missions
    <3>2. queue'[id].m = m /\ queue'[id].action = i /\ queue'[id].state = "Done"
      BY <1>0, <3>1, QueueStays
    <3> QED BY <3>2 DEF Settled, Performed, Robot_missions
  <2> QED BY <1>1, <2>1, <2>2 DEF Settled
<1>2. ASSUME NEW i, Before(m, i)
      PROVE  Before(m, i)'
  BY <1>1, <1>2 DEF Before
<1>3. ASSUME NEW id, NEW i, Belongs(id, m, i)
      PROVE  Belongs(id, m, i)'
  <2>1. id \in Ids /\ id \in 1 .. next_id'
    BY <1>0, <1>3 DEF Belongs, Ids
  <2> QED BY <1>0, <1>3, <2>1, QueueStays DEF Belongs
<1>4. ASSUME NEW e, IdsOK(m, e)
      PROVE  IdsOK(m, e)'
  BY <1>3, <1>4 DEF IdsOK
<1>5. ASSUME NEW j, j.m = m, JobInOrder(j)
      PROVE  JobInOrder(j)'
  BY <1>2, <1>3, <1>4, <1>5 DEF JobInOrder
<1> QED BY <1>1, <1>2, <1>3, <1>4, <1>5

\* run_mission of r keeps the order of the actions: it goes on to a job that
\* keeps it, and writes no success but at the end of a mission.
OrderRun(r) ==
    /\ QueueKept \/ QueueNew
    /\ \E j : /\ j = Free \/ JobInOrder(j)'
              /\ \/ MovesTo(r, j)
                 \/ /\ SavesTo(r, j) /\ j.m = job[r].m
                    /\ j.cr.status = "SUCCEEDED" => j.pc = "end"

OrderKept(j) == j = Free \/ (j.m \in Missions /\ JobInOrder(j))

\* run_mission goes on with a job in order.
LEMMA OrderGoes ==
    ASSUME Typed, Numbered, NEW r \in Robots, NEW j, OrderKept(j), Go(r, j)
    PROVE  OrderRun(r)
<1>1. UNCHANGED <<queue, next_id>> /\ MovesTo(r, j) /\ kind' = kind
  BY GoCase DEF Go, MovesTo, RunFrame
<1>2. j = Free \/ JobInOrder(j)'
  BY <1>1, QueueSame, OrderStays DEF OrderKept
<1> QED BY <1>1, <1>2, QueueSame DEF OrderRun

\* run_mission writes a CR in order.
LEMMA OrderUpdates ==
    ASSUME Typed, Numbered, NEW r \in Robots, NEW saved, NEW gone, OrderKept(saved), OrderKept(gone),
           Update_cr_status(r, saved, gone), saved.m = job[r].m,
           saved.cr.status = "SUCCEEDED" => saved.pc = "end"
    PROVE  OrderRun(r)
<1>1. UNCHANGED <<queue, next_id, kind>>
  BY DEF Update_cr_status
<1>2. SavesTo(r, saved) \/ MovesTo(r, gone)
  BY UpdateCases
<1>3. (saved = Free \/ JobInOrder(saved)') /\ (gone = Free \/ JobInOrder(gone)')
  BY <1>1, QueueSame, OrderStays DEF OrderKept
<1> QED BY <1>1, <1>2, <1>3, QueueSame DEF OrderRun

\* What a job in order may go on to.
LEMMA OrderEdits ==
    ASSUME Typed, NEW j \in Job, j.m \in Missions, JobInOrder(j)
    PROVE  /\ OrderKept(ToPc(j, "stuck"))
           /\ \A s \in {"FAILED", "CANCELED"} : OrderKept(ToStatus(j, s, "end"))
           /\ j.pc = "begin" => OrderKept(ToStatus(j, "RUNNING", "action"))
           /\ Before(j.m, Len(ActionsOf[j.m]) + 1) => OrderKept(ToStatus(j, "SUCCEEDED", "end"))
           /\ \A i \in Nat : Before(j.m, i) => OrderKept(ToAction(j, i, "action"))
           /\ \A id \in Nat : j.pc = "action" /\ Belongs(id, j.m, j.i) => OrderKept(ToId(j, id, "watch"))
<1>0. {"stuck", "end", "action", "watch"} \subseteq PCs /\ {"FAILED", "CANCELED", "RUNNING", "SUCCEEDED"} \subseteq Told
  BY PCsAndTold
<1>1. OrderKept(ToPc(j, "stuck"))
  <2>1. /\ ToPc(j, "stuck").m = j.m /\ ToPc(j, "stuck").cr = j.cr /\ ToPc(j, "stuck").pc = "stuck"
    BY <1>0, PcEdit DEF SameBut
  <2> QED BY <2>1 DEF OrderKept, JobInOrder
<1>2. ASSUME NEW s \in {"FAILED", "CANCELED"}
      PROVE  OrderKept(ToStatus(j, s, "end"))
  <2>1. PICK to : to = ToStatus(j, s, "end")
    OBVIOUS
  <2>2. s \in Told /\ "end" \in PCs
    BY <1>0
  <2>3. to.m = j.m /\ to.cr.ids = j.cr.ids /\ to.cr.status = s /\ to.pc = "end"
    BY <2>1, <2>2, StatusEdit DEF SameBut
  <2>4. JobInOrder(to)
    BY <2>3 DEF JobInOrder, IdsOK
  <2> QED BY <2>1, <2>3, <2>4 DEF OrderKept
<1>3. ASSUME j.pc = "begin"
      PROVE  OrderKept(ToStatus(j, "RUNNING", "action"))
  <2>1. PICK to : to = ToStatus(j, "RUNNING", "action")
    OBVIOUS
  <2>2. "RUNNING" \in Told /\ "action" \in PCs
    BY <1>0
  <2>3. to.m = j.m /\ to.cr.ids = j.cr.ids /\ to.pc = "action" /\ to.i = j.i
    BY <2>1, <2>2, StatusEdit DEF SameBut
  <2>4. JobInOrder(to)
    BY <1>3, <2>3 DEF JobInOrder, IdsOK
  <2> QED BY <2>1, <2>3, <2>4 DEF OrderKept
<1>4. ASSUME Before(j.m, Len(ActionsOf[j.m]) + 1)
      PROVE  OrderKept(ToStatus(j, "SUCCEEDED", "end"))
  <2>1. PICK to : to = ToStatus(j, "SUCCEEDED", "end")
    OBVIOUS
  <2>2. "SUCCEEDED" \in Told /\ "end" \in PCs
    BY <1>0
  <2>3. to.m = j.m /\ to.cr.ids = j.cr.ids /\ to.pc = "end"
    BY <2>1, <2>2, StatusEdit DEF SameBut
  <2>4. JobInOrder(to)
    BY <1>4, <2>3 DEF JobInOrder, IdsOK
  <2> QED BY <2>1, <2>3, <2>4 DEF OrderKept
<1>5. ASSUME NEW i \in Nat, Before(j.m, i)
      PROVE  OrderKept(ToAction(j, i, "action"))
  <2>1. PICK to : to = ToAction(j, i, "action")
    OBVIOUS
  <2>2. to.m = j.m /\ to.cr = j.cr /\ to.pc = "action" /\ to.i = i
    BY <1>0, <2>1, ActionEdit DEF SameBut
  <2>3. JobInOrder(to)
    BY <1>5, <2>2 DEF JobInOrder, IdsOK
  <2> QED BY <2>1, <2>2, <2>3 DEF OrderKept
<1>6. ASSUME NEW id \in Nat, j.pc = "action", Belongs(id, j.m, j.i)
      PROVE  OrderKept(ToId(j, id, "watch"))
  <2>1. PICK to : to = ToId(j, id, "watch")
    OBVIOUS
  <2>2. to.m = j.m /\ to.cr = j.cr /\ to.pc = "watch" /\ to.i = j.i /\ to.id = id
    BY <1>0, <2>1, IdEdit DEF SameBut
  <2>3. JobInOrder(to)
    BY <1>6, <2>2 DEF JobInOrder, IdsOK
  <2> QED BY <2>1, <2>2, <2>3 DEF OrderKept
<1> QED BY <1>1, <1>2, <1>3, <1>4, <1>5, <1>6

\* A mission begins in order.
LEMMA OrderBegin ==
    ASSUME Typed, Numbered, NEW r \in Robots, NEW gone \in {Free, ToPc(job[r], "stuck")}, Begin(r, gone),
           JobInOrder(job[r])
    PROVE  OrderRun(r)
<1> DEFINE j == ToStatus(job[r], "RUNNING", "action")
<1>1. job[r] \in Job /\ job[r].pc = "begin" /\ job[r].m \in Missions
  BY TypeFacts DEF Typed, JobTyped, Begin
<1>2. OrderKept(j) /\ OrderKept(gone)
  BY <1>1, OrderEdits DEF OrderKept
<1>3. j.m = job[r].m /\ j.cr.status # "SUCCEEDED"
  <2>1. "RUNNING" \in Told /\ "action" \in PCs
    BY PCsAndTold
  <2> QED BY <1>1, <2>1, StatusEdit DEF SameBut
<1>4. Go(r, j) \/ Update_cr_status(r, j, gone)
  BY DEF Begin, ToStatus
<1> HIDE DEF j
<1> QED BY <1>2, <1>3, <1>4, OrderGoes, OrderUpdates

\* An action follows those that are done with.
LEMMA OrderNextAction ==
    ASSUME Typed, Numbered, NEW r \in Robots, JobInOrder(job[r]), kind # "dummy",
           \/ Next_action(r)
           \/ AtAction(r) /\ kind = "fetch" /\ Actions(r)[job[r].i] = "charge" /\ Go(r, [job[r] EXCEPT !.i = @ + 1])
    PROVE  OrderRun(r)
<1> DEFINE now == job[r]
           ended == ToStatus(now, "SUCCEEDED", "end")
<1>1. /\ now \in Job /\ now.pc = "action" /\ now.m \in Missions /\ now.i \in Nat \ {0}
      /\ now.cr.ids \in Seq(Nat) /\ Len(ActionsOf[now.m]) \in Nat
  BY TypeFacts, JobData, MissionAssumption DEF Typed, JobTyped, AtAction, Next_action
<1>2. Before(now.m, now.i)
  BY <1>1 DEF JobInOrder
<1>3. CASE AtAction(r) /\ now.i <= Len(now.cr.ids) /\ Go(r, ToId(now, now.cr.ids[now.i], "watch"))
  <2>1. PICK id \in Nat : id = now.cr.ids[now.i]
    BY <1>1, <1>3
  <2>2. Belongs(id, now.m, now.i)
    BY <1>1, <1>3, <2>1 DEF JobInOrder, IdsOK
  <2>3. OrderKept(ToId(now, id, "watch")) /\ Go(r, ToId(now, id, "watch"))
    BY <1>1, <1>3, <2>1, <2>2, OrderEdits
  <2> QED BY <2>3, OrderGoes
<1>4. CASE now.i > Len(ActionsOf[now.m]) /\ Go(r, ended)
  <2>1. Before(now.m, Len(ActionsOf[now.m]) + 1)
    BY <1>1, <1>2, <1>4 DEF Before
  <2>2. OrderKept(ended)
    BY <1>1, <2>1, OrderEdits
  <2> QED BY <1>4, <2>2, OrderGoes
<1>5. CASE AtAction(r) /\ kind = "fetch" /\ Actions(r)[job[r].i] = "charge" /\ Go(r, [now EXCEPT !.i = now.i + 1])
  <2>1. PICK i \in Nat : i = now.i + 1
    BY <1>1
  <2>2. Before(now.m, i)
    BY <1>1, <1>2, <1>5, <2>1 DEF Before, Settled, Left_out, Actions
  <2>3. "action" \in PCs
    BY PCsAndTold
  <2>4. OrderKept(ToAction(now, i, "action")) /\ Go(r, ToAction(now, i, "action"))
    BY <1>1, <1>5, <2>1, <2>2, <2>3, OrderEdits, ActionEdit
  <2> QED BY <2>4, OrderGoes
<1> QED BY <1>3, <1>4, <1>5 DEF Next_action, ToId, ToStatus, Ended, Actions

\* A request that fails keeps the order.
LEMMA OrderFails ==
    ASSUME Typed, Numbered, NEW r \in Robots, JobInOrder(job[r]), job[r].pc \in {"action", "watch"},
           Request_fails(r), QueueKept \/ QueueNew, kind' = kind,
           queue' \in [Ids -> RobotMission], next_id' \in 0 .. MaxRobotMissions
    PROVE  OrderRun(r)
<1> DEFINE ended == ToStatus(job[r], "FAILED", "end")
<1>1. job[r] \in Job /\ job[r].m \in Missions
  BY TypeFacts DEF Typed, JobTyped
<1>2. MovesTo(r, ended)
  BY TypeFacts DEF Request_fails, Ended, ToStatus, MovesTo, RunFrame, watch, Typed
<1>3. OrderKept(ended)
  BY <1>1, OrderEdits
<1> HIDE DEF ended
<1>4. PICK to : to = ended
  OBVIOUS
<1>5. to = Free \/ JobInOrder(to)'
  BY <1>3, <1>4, OrderStays DEF OrderKept
<1> QED BY <1>2, <1>4, <1>5 DEF OrderRun

\* A request follows the actions that are done with.
LEMMA OrderPost ==
    ASSUME Typed, Numbered, NEW r \in Robots, JobInOrder(job[r]), Needs_creation(r), Post(r)
    PROVE  OrderRun(r)
<1> DEFINE now == job[r]
           ended == ToStatus(now, "FAILED", "end")
<1>1. now \in Job /\ now.pc = "action" /\ now.m \in Missions /\ now.i \in Nat \ {0}
  BY TypeFacts DEF Typed, JobTyped, AtAction, Needs_creation
<1>2. kind' = kind /\ queue' \in [Ids -> RobotMission] /\ next_id' \in 0 .. MaxRobotMissions
  BY <1>1, TypeFacts, QueueStep DEF Post, Answered, Sent_again, Request_fails, Typed
<1>3. QueueKept \/ QueueNew
  <2>1. CASE UNCHANGED <<queue, next_id>>
    BY <2>1, QueueSame
  <2>2. CASE Enqueue(r)
    <3>1. /\ job'[r].m = now.m /\ job'[r].i = now.i
          /\ job'[r].pc = "register" \/ unanswered' = unanswered + 1
      <4>1. job \in [Robots -> Job] /\ now.m = job[r].m
        BY TypeFacts DEF Typed
      <4>2. Answered(r) => job'[r] = [job[r] EXCEPT !.id = next_id', !.pc = "register"]
        BY <4>1 DEF Answered
      <4>3. Request_fails(r) => /\ job'[r] = ToStatus(job[r], "FAILED", "end")
                                /\ unanswered' = unanswered + 1
        BY <4>1 DEF Request_fails, Ended, ToStatus
      <4>4. "FAILED" \in Told /\ "end" \in PCs
        BY PCsAndTold
      <4>5. /\ ToStatus(job[r], "FAILED", "end").m = job[r].m
            /\ ToStatus(job[r], "FAILED", "end").i = job[r].i
            /\ ToStatus(job[r], "FAILED", "end").pc = "end"
        BY <1>1, <4>4, StatusEdit DEF SameBut
      <4>6. CASE Answered(r)
        BY <1>1, <4>2, <4>6 DEF Job
      <4>7. CASE Request_fails(r)
        BY <4>3, <4>5, <4>7
      <4>8. CASE Sent_again(r)
        BY <4>8 DEF Sent_again
      <4> QED BY <4>6, <4>7, <4>8 DEF Post
    <3> QED BY <2>2, <3>1 DEF QueueNew
  <2> QED BY <2>1, <2>2 DEF Post
<1>4. CASE Enqueue(r) /\ Answered(r)
  <2>1. PICK id \in Nat : id = next_id'
    BY <1>2, MissionAssumption
  <2>2. PICK to : to = ToId(now, id, "register")
    OBVIOUS
  <2>3. job' = [job EXCEPT ![r] = to]
    BY <1>4, <2>1, <2>2, TypeFacts DEF Answered, ToId, Typed
  <2>4. MovesTo(r, to)
    BY <1>2, <1>4, <2>3, TypeFacts DEF Answered, MovesTo, RunFrame, watch, faults, Typed
  <2>5. "register" \in PCs
    BY PCsAndTold
  <2>6. to.m = now.m /\ to.cr = now.cr /\ to.pc = "register" /\ to.i = now.i /\ to.id = id
    BY <1>1, <2>2, <2>5, IdEdit DEF SameBut
  <2>7. PICK m \in Missions, i \in Nat \ {0} : m = now.m /\ i = now.i
    BY <1>1
  <2>8. /\ queue'[id] = [m |-> m, action |-> i, state |-> "Executing"] /\ id \in Ids
        /\ Len(now.cr.ids) < i
    BY <1>1, <1>4, <2>1, <2>7, QueueAdded, JobData
  <2>9. Belongs(id, m, i)'
    BY <2>1, <2>8 DEF Belongs, Ids
  <2>10. Before(m, i)' /\ IdsOK(m, to.cr)'
    <3>1. PICK e : e = now.cr
      OBVIOUS
    <3>2. Before(m, i) /\ IdsOK(m, e)
      BY <1>1, <2>7, <3>1 DEF JobInOrder
    <3>3. Before(m, i)' /\ IdsOK(m, e)'
      BY <1>2, <1>3, <3>2, OrderStays
    <3> QED BY <2>6, <3>1, <3>3
  <2>11. JobInOrder(to)'
    BY <2>6, <2>7, <2>8, <2>9, <2>10 DEF JobInOrder
  <2> QED BY <1>3, <2>4, <2>11 DEF OrderRun
<1>5. CASE Request_fails(r)
  BY <1>1, <1>2, <1>3, <1>5, OrderFails
<1>6. CASE Sent_again(r) /\ (Enqueue(r) \/ UNCHANGED <<queue, next_id>>)
  <2>1. PICK j : j = job[r]
    OBVIOUS
  <2>2. JobInOrder(j)'
    BY <1>1, <1>2, <1>3, <2>1, OrderStays
  <2>3. MovesTo(r, j)
    BY <1>6, <2>1, SentAgainStep
  <2> QED BY <1>3, <2>2, <2>3 DEF OrderRun
<1> QED BY <1>4, <1>5, <1>6 DEF Post

\* The id registered is that of the action in work.
LEMMA OrderRegister ==
    ASSUME Typed, Numbered, NEW r \in Robots, JobInOrder(job[r]), Register(r)
    PROVE  OrderRun(r)
<1> DEFINE now == job[r]
           ended(j) == ToStatus(j, "CANCELED", "end")
<1>1. /\ now \in Job /\ now.pc = "register" /\ now.m \in Missions /\ now.i \in Nat /\ now.id \in Nat
      /\ now.cr.status = "RUNNING" /\ now.cr.ids \in Seq(Nat)
  BY TypeFacts, JobData DEF Typed, JobTyped, Register
<1>2. "watch" \in PCs /\ "end" \in PCs /\ "CANCELED" \in Told
  BY PCsAndTold
<1>3. PICK j : j = AddId(now, now.id, "watch")
  OBVIOUS
<1>4. /\ j \in Job /\ j.m = now.m /\ j.i = now.i /\ j.id = now.id /\ j.pc = "watch"
      /\ j.cr.status = "RUNNING" /\ j.cr.ids = Append(now.cr.ids, now.id)
  <2>1. PICK c \in Job, id \in Nat : c = now /\ id = now.id
    BY <1>1
  <2>2. /\ SameBut(AddId(c, id, "watch"), c) /\ AddId(c, id, "watch").pc = "watch"
        /\ AddId(c, id, "watch").i = c.i /\ AddId(c, id, "watch").id = c.id
        /\ AddId(c, id, "watch").cr.status = c.cr.status
        /\ AddId(c, id, "watch").cr.ids = Append(c.cr.ids, id)
    <3>1. "watch" \in PCs
      BY PCsAndTold
    <3> HIDE DEF now
    <3> QED BY <3>1, IdsEdit
  <2> QED BY <1>1, <1>3, <2>1, <2>2 DEF SameBut
<1>5. IdsOK(now.m, j.cr)
  <2>1. ASSUME NEW k \in 1 .. Len(j.cr.ids)
        PROVE  Belongs(j.cr.ids[k], now.m, k)
    <3>1. CASE k <= Len(now.cr.ids)
      BY <1>1, <1>4, <3>1 DEF JobInOrder, IdsOK
    <3>2. CASE k > Len(now.cr.ids)
      <4>1. k = Len(now.cr.ids) + 1 /\ j.cr.ids[k] = now.id /\ k <= now.i
        BY <1>1, <1>4, <3>2 DEF JobInOrder
      <4>2. Belongs(now.id, now.m, now.i)
        BY <1>1 DEF JobInOrder
      <4>3. now.id \in Ids /\ queue[now.id].action \in Nat
        BY <4>2, TypeFacts, MissionAssumption DEF Belongs, Typed, Ids, RobotMission
      <4> QED BY <1>1, <4>1, <4>2, <4>3 DEF Belongs
    <3> QED BY <1>1, <1>4, <3>1, <3>2
  <2> QED BY <2>1 DEF IdsOK
<1>6. JobInOrder(j)
  BY <1>1, <1>4, <1>5 DEF JobInOrder
<1>7. OrderKept(j) /\ OrderKept(ended(j))
  BY <1>1, <1>4, <1>6, OrderEdits DEF OrderKept
<1>8. Update_cr_status(r, j, ended(j))
  BY <1>3 DEF Register, AddId, Ended, ToStatus
<1> QED BY <1>4, <1>7, <1>8, OrderUpdates

\* run_mission goes on when the robot has done the action.
LEMMA OrderWatch ==
    ASSUME Typed, Numbered, ActionsInOrder, kind # "dummy", NEW r \in Robots, JobInOrder(job[r]),
           Watch_running(r)
    PROVE  OrderRun(r)
<1> DEFINE now == job[r]
<1>1. now \in Job /\ now.pc = "watch" /\ now.m \in Missions /\ now.m # None /\ now.i \in Nat \ {0}
  BY TypeFacts, MissionAssumption DEF Typed, JobTyped, Watch_running
<1>2. \A s \in {"FAILED", "CANCELED"} : OrderKept(ToStatus(now, s, "end"))
  BY <1>1, OrderEdits
<1>3. CASE State(r) = "Done" /\ Go(r, [now EXCEPT !.i = now.i + 1, !.pc = "action"])
  <2>1. PICK i \in Nat : i = now.i + 1
    BY <1>1
  <2>2. Belongs(now.id, now.m, now.i) /\ Before(now.m, now.i)
    BY <1>1 DEF JobInOrder
  <2>3. now.id \in Ids /\ queue[now.id].action \in Nat
    BY <2>2, TypeFacts, MissionAssumption DEF Belongs, Typed, Ids, RobotMission
  <2>4. Settled(now.m, now.i)
    <3>1. CASE queue[now.id].action = now.i
      BY <1>3, <2>2, <2>3, <3>1 DEF Settled, Performed, Robot_missions, Belongs, State
    <3>2. CASE queue[now.id].action # now.i
      BY <1>1, <2>2, <2>3, <3>2 DEF ActionsInOrder, Settled, Belongs
    <3> QED BY <3>1, <3>2
  <2>5. Before(now.m, i)
    BY <1>1, <2>1, <2>2, <2>4 DEF Before
  <2>6. OrderKept(ToAction(now, i, "action")) /\ Go(r, ToAction(now, i, "action"))
    BY <1>1, <1>3, <2>1, <2>5, OrderEdits DEF ToAction
  <2> QED BY <2>6, OrderGoes
<1>4. CASE \E s \in {"FAILED", "CANCELED"} : Go(r, ToStatus(now, s, "end"))
  BY <1>2, <1>4, OrderGoes
<1> QED BY <1>3, <1>4 DEF Watch_running, Ended, ToStatus

\* A report of the position keeps the order.
LEMMA OrderReport ==
    ASSUME Typed, Numbered, NEW r \in Robots, JobInOrder(job[r]), Report_activity(r)
    PROVE  OrderRun(r)
<1> DEFINE now == job[r]
           ended(j) == ToStatus(j, "CANCELED", "end")
<1>1. now \in Job /\ now.pc = "watch" /\ now.m \in Missions /\ now.cr.status = "RUNNING"
  BY TypeFacts DEF Typed, JobTyped, Report_activity, New_activity
<1>2. (State(r) = "Docking") \in BOOLEAN
  OBVIOUS
<1>3. PICK j : j = ToDocking(now, State(r) = "Docking")
  OBVIOUS
<1>4. /\ j \in Job /\ j.m = now.m /\ j.i = now.i /\ j.id = now.id /\ j.pc = "watch"
      /\ j.cr.status = "RUNNING" /\ j.cr.ids = now.cr.ids
  BY <1>1, <1>2, <1>3, DockingEdit DEF SameBut
<1>5. JobInOrder(j)
  BY <1>1, <1>4 DEF JobInOrder, IdsOK
<1>6. OrderKept(j) /\ OrderKept(ended(j))
  BY <1>1, <1>4, <1>5, OrderEdits DEF OrderKept
<1>7. Update_cr_status(r, j, ended(j))
  BY <1>3 DEF Report_activity, ToDocking, Ended, ToStatus
<1> QED BY <1>4, <1>6, <1>7, OrderUpdates

\* SUCCEEDED is written after the last action.
LEMMA OrderEnd ==
    ASSUME Typed, Numbered, NEW r \in Robots, JobInOrder(job[r]), End_mission(r)
    PROVE  OrderRun(r)
<1>1. job[r].pc = "end" /\ job[r].m \in Missions
  BY DEF Typed, JobTyped, End_mission
<1> QED BY <1>1, OrderUpdates DEF End_mission, OrderKept

\* run_mission of a MiR or of a Fetch robot.
LEMMA OrderRuns ==
    ASSUME Typed, Numbered, ActionsInOrder, kind # "dummy", NEW r \in Robots,
           job[r].pc # "free" => JobInOrder(job[r]), Run_mission(r)
    PROVE  OrderRun(r) \/ Start_again
<1>1. CASE Mir_run(r)
  <2>1. /\ Mir_begin(r) => job[r].pc # "free" /\ Begin(r, Free)
        /\ Mir_next_action(r) => job[r].pc # "free" /\ Next_action(r)
        /\ Mir_run_action(r) => job[r].pc # "free" /\ Needs_creation(r) /\ Post(r)
        /\ Mir_register(r) => job[r].pc # "free" /\ Register(r)
        /\ Mir_end(r) => job[r].pc # "free" /\ End_mission(r)
    BY DEF Mir_begin, Begin, Mir_next_action, Next_action, AtAction, Mir_run_action, Needs_creation,
           Mir_register, Register, Mir_end, End_mission
  <2>2. Mir_watch_running(r) =>
          job[r].pc = "watch" /\ (Watch_running(r) \/ Report_activity(r) \/ Poll_fails(r))
    BY DEF Mir_watch_running, Watch_running, Report_activity, New_activity, Poll_fails
  <2>3. Poll_fails(r) /\ JobInOrder(job[r]) => OrderRun(r)
    BY OrderFails, QueueSame, TypeFacts DEF Poll_fails, Request_fails, Typed
  <2>4. Free \in {Free, ToPc(job[r], "stuck")}
    OBVIOUS
  <2> QED BY <1>1, <2>1, <2>2, <2>3, <2>4, OrderBegin, OrderNextAction, OrderPost, OrderRegister,
             OrderWatch, OrderReport, OrderEnd DEF Mir_run
<1>2. CASE Fetch_run(r)
  <2>1. /\ Fetch_begin(r) => job[r].pc # "free" /\ Begin(r, ToPc(job[r], "stuck"))
        /\ Fetch_run_action(r) => job[r].pc # "free" /\ Needs_creation(r) /\ Post(r)
        /\ Fetch_register(r) => job[r].pc # "free" /\ Register(r)
        /\ Fetch_watch_running(r) => job[r].pc # "free" /\ Watch_running(r)
        /\ Fetch_end(r) => job[r].pc # "free" /\ End_mission(r)
    BY DEF Fetch_begin, Begin, ToPc, Fetch_run_action, Fetch_move_to_position, Fetch_get_or_return_trolley,
           Needs_creation, AtAction, Fetch_register, Register, Fetch_watch_running, Watch_running,
           Fetch_end, End_mission
  <2>2. Fetch_next_action(r) =>
          /\ job[r].pc # "free"
          /\ \/ Next_action(r)
             \/ AtAction(r) /\ kind = "fetch" /\ Actions(r)[job[r].i] = "charge"
                /\ Go(r, [job[r] EXCEPT !.i = job[r].i + 1])
    BY DEF Fetch_next_action, Next_action, AtAction
  <2>3. ToPc(job[r], "stuck") \in {Free, ToPc(job[r], "stuck")}
    OBVIOUS
  <2> QED BY <1>2, <2>1, <2>2, <2>3, OrderBegin, OrderNextAction, OrderPost, OrderRegister,
             OrderWatch, OrderEnd DEF Fetch_run
<1>3. CASE Dummy_run(r)
  BY <1>3 DEF Dummy_run, Dummy_begin, Dummy_next_action, Dummy_run_action, Dummy_register,
     Dummy_watch_running, Dummy_end, Dummy_counts, Dummy_update_not_found
<1>4. CASE Update_not_found(r)
  BY <1>4 DEF Update_not_found
<1> QED BY <1>1, <1>2, <1>3, <1>4 DEF Run_mission

\* Every step is one that keeps the order or does not touch it.
LEMMA OrderSteps ==
    ASSUME Typed, Numbered, ActionsInOrder, kind # "dummy",
           \A r \in Robots : job[r].pc # "free" => JobInOrder(job[r]),
           [Next]_vars
    PROVE  OtherStep \/ (\E r \in Robots : OrderRun(r)) \/ UNCHANGED vars
BY OtherSteps, OrderRuns DEF OtherStep

\* What the other steps do to the robot missions, and to the ids in a CR.
LEMMA OtherQueue ==
    ASSUME Typed, kind # "dummy", OtherStep
    PROVE  QueueKept
<1>1. ASSUME NEW m \in Missions, CallStep(m)
      PROVE  QueueKept
  <2>1. PICK canceled \in SUBSET Nat : queue' = Stopped(canceled)
    BY <1>1 DEF CallStep
  <2>2. next_id' = next_id
    BY <1>1 DEF CallStep
  <2>3. ASSUME NEW id \in Ids
        PROVE  /\ queue'[id].m = queue[id].m /\ queue'[id].action = queue[id].action
               /\ queue[id].state \notin Unfinished => queue'[id] = queue[id]
    <3>1. queue[id] \in RobotMission
      BY TypeFacts DEF Typed
    <3>2. queue'[id] = IF id \in canceled /\ queue[id].state \in Unfinished
                       THEN [queue[id] EXCEPT !.state = "Canceled"] ELSE queue[id]
      BY <2>1 DEF Stopped
    <3> QED BY <3>1, <3>2 DEF RobotMission
  <2> QED BY <2>2, <2>3 DEF QueueKept
<1>2. CASE RobotStep
  <2>1. PICK id \in Ids : Robot_works(id)
    BY <1>2 DEF RobotStep
  <2>2. PICK s \in After(id) : queue' = [queue EXCEPT ![id].state = s]
    BY <2>1 DEF Robot_works
  <2>3. queue[id].state \in Unfinished
    BY <2>2 DEF After, Unfinished
  <2>4. queue \in [Ids -> RobotMission]
    BY TypeFacts DEF Typed
  <2>5. queue'[id].m = queue[id].m /\ queue'[id].action = queue[id].action
    BY <2>2, <2>4 DEF RobotMission
  <2>6. \A k \in Ids : k # id => queue'[k] = queue[k]
    BY <2>2, <2>4
  <2> QED BY <1>2, <2>3, <2>5, <2>6 DEF RobotStep, QueueKept
<1>3. ASSUME NEW m \in Missions, EnvStep(m) \/ Visit(m)
      PROVE  UNCHANGED <<queue, next_id>>
  BY <1>3 DEF EnvStep, Visit
<1>4. Start_pass \/ Fetch_watch_missions \/ WatchStep \/ Start_again => UNCHANGED <<queue, next_id>>
  BY DEF Start_pass, Fetch_watch_missions, WatchStep, Start_again
<1> QED BY <1>1, <1>2, <1>3, <1>4, QueueSame DEF OtherStep

\* Others than run_mission write no ids and no SUCCEEDED.
LEMMA OtherCrs ==
    ASSUME Typed, OtherStep, NEW m \in Missions
    PROVE  crs'[m] = crs[m] \/ (crs'[m].ids = <<>> /\ crs'[m].status # "SUCCEEDED")
<1> DEFINE accepted == [NewCR EXCEPT !.status = "ACCEPTED"]
<1>0. crs \in [Missions -> CR \union {NotYet, Gone}]
  BY TypeFacts DEF Typed
<1>1. \A e \in {NewCR, Gone, accepted} : e.ids = <<>> /\ e.status # "SUCCEEDED"
  <2>1. NewCR \in Entries
    BY EntryData
  <2>2. accepted.status = "ACCEPTED" /\ accepted.ids = NewCR.ids
    BY <2>1, EntryEdits
  <2> QED BY <2>2, EntryData
<1>2. ASSUME NEW n \in Missions, NEW e \in {NewCR, Gone, accepted}, Watch!Write(n, e)
      PROVE  crs'[m] = crs[m] \/ crs'[m] = e
  BY <1>0, <1>2 DEF Watch!Write
<1> HIDE DEF accepted
<1>3. ASSUME NEW n \in Missions, CallStep(n)
      PROVE  crs' = crs \/ Watch!Write(n, accepted)
  BY <1>3 DEF CallStep, accepted
<1>4. ASSUME NEW n \in Missions, EnvStep(n)
      PROVE  Watch!Write(n, NewCR) \/ Watch!Write(n, Gone)
  BY <1>4 DEF EnvStep
<1>5. ASSUME NEW n \in Missions, Visit(n)
      PROVE  crs' = crs
  BY <1>5 DEF Visit, watch
<1>6. Start_pass \/ Fetch_watch_missions \/ RobotStep \/ Start_again \/ WatchStep => crs' = crs
  BY DEF Start_pass, Fetch_watch_missions, RobotStep, Start_again, Watch!Start_watcher, watch,
     WatchStep, Watch!Watch_on_crs, Watch!Synchronize_cache, Watch!Init_watcher, Watch!Too_old
<1> QED BY <1>1, <1>2, <1>3, <1>4, <1>5, <1>6 DEF OtherStep

\* ... and to the jobs.
LEMMA OtherJobs ==
    ASSUME Typed, OtherStep, NEW r \in Robots
    PROVE  \/ job'[r] = job[r] \/ job'[r] = Free
           \/ \E m \in Missions : \E copy \in Copies(m) : job'[r] = Taken(m, copy)
<1>1. (\E m \in Missions : Visit(m)) \/ (kind = "fetch" /\ Fetch_watch_missions)
        => \/ job'[r] = job[r]
           \/ \E m \in Missions : \E copy \in Copies(m) : job'[r] = Taken(m, copy)
  <2>1. ASSUME TakeFacts(r)
        PROVE  \E m \in Missions : \E copy \in Copies(m) : job'[r] = Taken(m, copy)
    <3>1. PICK m \in Missions : job'[r] = Taken(m, todo[m]) \/ job'[r] = Taken(m, missions[m])
      BY <2>1 DEF TakeFacts
    <3>2. todo[m] \in Copies(m) /\ missions[m] \in Copies(m)
      BY DEF Copies
    <3> QED BY <3>1, <3>2
  <2> QED BY <2>1, TakeStep
<1>2. ASSUME NEW m \in Missions, CallStep(m) \/ EnvStep(m)
      PROVE  job' = job
  BY <1>2 DEF CallStep, EnvStep
<1>3. Start_pass \/ WatchStep \/ RobotStep => job' = job
  BY DEF Start_pass, WatchStep, RobotStep
<1>4. Start_again => job'[r] = Free
  BY DEF Start_again
<1> QED BY <1>1, <1>2, <1>3, <1>4 DEF OtherStep

\* The ids in a CR stay in order.
LEMMA OrderCrs ==
    ASSUME Typed, OrderParts, kind # "dummy", kind' = kind, QueueKept \/ QueueNew,
           OtherStep \/ (\E r \in Robots : OrderRun(r)) \/ UNCHANGED vars,
           NEW m \in Missions
    PROVE  /\ IdsOK(m, crs[m])'
           /\ crs'[m].status = "SUCCEEDED" => Before(m, Len(ActionsOf[m]) + 1)'
<1>1. CASE crs'[m] = crs[m]
  <2>1. PICK e : e = crs[m]
    OBVIOUS
  <2>2. IdsOK(m, e)'
    BY <2>1, OrderStays DEF OrderParts
  <2>3. Len(ActionsOf[m]) \in Nat
    BY MissionAssumption
  <2>4. crs[m].status = "SUCCEEDED" => Before(m, Len(ActionsOf[m]) + 1)
    BY <2>3 DEF OrderParts, SucceededIsPerformed, Before, Settled
  <2>5. crs[m].status = "SUCCEEDED" => Before(m, Len(ActionsOf[m]) + 1)'
    BY <2>4, OrderStays DEF OrderParts
  <2> QED BY <1>1, <2>1, <2>2, <2>5 DEF IdsOK
<1>2. CASE crs'[m].ids = <<>> /\ crs'[m].status # "SUCCEEDED"
  BY <1>2 DEF IdsOK
<1>3. ASSUME NEW r \in Robots, OrderRun(r), crs'[m] # crs[m]
      PROVE  /\ IdsOK(m, crs[m])'
             /\ crs'[m].status = "SUCCEEDED" => Before(m, Len(ActionsOf[m]) + 1)'
  <2>1. PICK j : /\ j = Free \/ JobInOrder(j)'
                 /\ \/ MovesTo(r, j)
                    \/ /\ SavesTo(r, j) /\ j.m = job[r].m
                       /\ j.cr.status = "SUCCEEDED" => j.pc = "end"
    BY <1>3 DEF OrderRun
  <2>2. /\ SavesTo(r, j) /\ j.m = job[r].m /\ crs'[m] = j.cr /\ m = j.m
        /\ j.cr.status = "SUCCEEDED" => j.pc = "end"
    BY <1>3, <2>1, TypeFacts DEF MovesTo, SavesTo, Watch!Write, Typed
  <2>3. JobInOrder(j)'
    BY <2>1, <2>2, FreeData, MissionAssumption
  <2>4. IdsOK(m, crs[m])'
    BY <2>2, <2>3 DEF JobInOrder, IdsOK
  <2> QED BY <2>2, <2>3, <2>4 DEF JobInOrder
<1>4. UNCHANGED vars => crs' = crs
  BY DEF vars, watch
<1> QED BY <1>1, <1>2, <1>3, <1>4, OtherCrs

\* The jobs stay in order.
LEMMA OrderJobs ==
    ASSUME Typed, OrderParts, kind # "dummy", kind' = kind, QueueKept \/ QueueNew,
           OtherStep \/ (\E r \in Robots : OrderRun(r)) \/ UNCHANGED vars,
           NEW r \in Robots, job'[r].pc # "free"
    PROVE  JobInOrder(job[r])'
<1>0. job \in [Robots -> Job]
  BY TypeFacts DEF Typed
<1>1. CASE job'[r] = job[r]
  <2>1. PICK j : j = job[r]
    OBVIOUS
  <2>2. j.m \in Missions /\ JobInOrder(j)
    BY <1>1, <2>1 DEF Typed, JobTyped, OrderParts
  <2>3. JobInOrder(j)'
    BY <2>2, OrderStays DEF OrderParts
  <2> QED BY <1>1, <2>1, <2>3
<1>2. ASSUME NEW m \in Missions, NEW copy \in Copies(m), job'[r] = Taken(m, copy)
      PROVE  JobInOrder(job[r])'
  <2>1. IdsOK(m, copy)'
    BY OrderStays DEF OrderParts
  <2>2. PICK j : j = Taken(m, copy)
    OBVIOUS
  <2>3. j.m = m /\ j.cr = copy /\ j.pc = "begin" /\ j.i = 1
    BY <2>2 DEF Taken
  <2>4. JobInOrder(j)'
    BY <2>1, <2>3 DEF JobInOrder, Before
  <2> QED BY <1>2, <2>2, <2>4
<1>3. ASSUME NEW q \in Robots, OrderRun(q), job'[r] # job[r]
      PROVE  JobInOrder(job[r])'
  <2>1. PICK j : /\ j = Free \/ JobInOrder(j)'
                 /\ MovesTo(q, j) \/ SavesTo(q, j)
    BY <1>3 DEF OrderRun
  <2>2. job'[r] = j \/ job'[r] = Free
    BY <1>0, <1>3, <2>1 DEF MovesTo, SavesTo
  <2>3. job'[r] = j /\ j # Free
    BY <2>2, FreeData
  <2> QED BY <2>1, <2>3
<1>4. UNCHANGED vars => job' = job
  BY DEF vars
<1> QED BY <1>1, <1>2, <1>3, <1>4, OtherJobs, FreeData

\* OrderParts is inductive with the types.
LEMMA OrderPartsStep ==
    ASSUME Typed, OrderParts, kind # "dummy", [Next]_vars
    PROVE  OrderParts'
<1>0. kind' = kind
  BY KindStays
<1>1. OtherStep \/ (\E r \in Robots : OrderRun(r)) \/ UNCHANGED vars
  BY OrderSteps DEF OrderParts
<1>2. QueueKept \/ QueueNew
  BY <1>1, OtherQueue, QueueSame DEF OrderRun, vars
<1>3. Numbered'
  BY <1>2, QueueStays DEF OrderParts
<1>4. \A m \in Missions : \A i : Settled(m, i) => Settled(m, i)'
  BY <1>0, <1>2, OrderStays DEF OrderParts
<1>5. ActionsInOrder'
  <2>1. ASSUME NEW id \in Ids, NEW m, m = queue'[id].m, m # None, NEW i \in 1 .. queue'[id].action - 1
        PROVE  Settled(m, i)'
    <3>1. CASE queue[id].m # None
      <4>1. m = queue[id].m /\ queue'[id].action = queue[id].action /\ queue[id].m \in Missions
        BY <1>2, <2>1, <3>1, QueueStays, TypeFacts DEF OrderParts, Typed, RobotMission
      <4>2. Settled(m, i)
        BY <2>1, <3>1, <4>1 DEF OrderParts, ActionsInOrder, Settled
      <4> QED BY <1>4, <4>1, <4>2
    <3>2. CASE queue[id].m = None
      <4>1. QueueNew
        BY <1>2, <2>1, <3>2 DEF QueueKept
      <4>2. PICK r \in Robots : Needs_creation(r) /\ Enqueue(r)
        BY <4>1 DEF QueueNew
      <4>3. id = next_id'
        BY <2>1, <3>2, <4>2, QueueAdded
      <4>4. /\ queue'[id] = [m |-> job[r].m, action |-> job[r].i, state |-> "Executing"]
            /\ job[r].pc = "action" /\ job[r].m \in Missions
        BY <4>2, <4>3, QueueAdded
      <4>5. m = job[r].m /\ i \in 1 .. job[r].i - 1
        BY <2>1, <4>4
      <4>6. Before(job[r].m, job[r].i)
        BY <4>4 DEF OrderParts, JobInOrder
      <4>7. Settled(m, i)
        BY <4>5, <4>6 DEF Before
      <4> QED BY <1>4, <4>4, <4>5, <4>7
    <3> QED BY <3>1, <3>2
  <2>2. ASSUME NEW id \in Ids, queue'[id].m # None, NEW i \in 1 .. queue'[id].action - 1
        PROVE  Left_out(queue[id].m, i)' \/ Performed(queue[id].m, i)'
    <3>1. PICK m : m = queue'[id].m
      OBVIOUS
    <3>2. Settled(m, i)'
      BY <2>1, <2>2, <3>1
    <3> QED BY <3>1, <3>2 DEF Settled, Left_out, Performed, Robot_missions
  <2> QED BY <1>0, <2>2 DEF ActionsInOrder
<1>6. ASSUME NEW m \in Missions
      PROVE  /\ IdsOK(m, crs[m])'
             /\ crs'[m].status = "SUCCEEDED" => Before(m, Len(ActionsOf[m]) + 1)'
  BY <1>0, <1>1, <1>2, OrderCrs
<1>7. SucceededIsPerformed'
  <2>1. ASSUME NEW m \in Missions, crs'[m].status = "SUCCEEDED", NEW i \in 1 .. Len(ActionsOf[m])
        PROVE  Settled(m, i)'
    <3>1. Len(ActionsOf[m]) \in Nat /\ i \in 1 .. (Len(ActionsOf[m]) + 1) - 1
      BY MissionAssumption
    <3> QED BY <1>6, <2>1, <3>1 DEF Before
  <2> QED BY <2>1 DEF SucceededIsPerformed, Settled
<1>8. ASSUME NEW m \in Missions, NEW e \in Copies(m)' \union {crs'[m]}
      PROVE  IdsOK(m, e)'
  <2>1. CASE e \in Copies(m)
    BY <1>0, <1>2, <2>1, OrderStays DEF OrderParts
  <2>2. CASE e = NotYet
    BY <2>2, EntryData DEF IdsOK
  <2>3. CASE e = crs'[m]
    BY <1>6, <2>3 DEF IdsOK
  <2> QED BY <2>1, <2>2, <2>3, <1>8, WayStep, CopiesStep
<1>9. ASSUME NEW r \in Robots, job'[r].pc # "free"
      PROVE  JobInOrder(job[r])'
  BY <1>0, <1>1, <1>2, <1>9, OrderJobs
<1> QED BY <1>3, <1>5, <1>7, <1>8, <1>9 DEF OrderParts

\* A robot is asked for the actions of a mission in their order, and a CR says
\* SUCCEEDED of what was performed: the ids in every copy of a CR are those of
\* the actions, and run_mission counts only what its robot has done.
THEOREM OrderKeptUp == Spec => []OrderInv
<1>1. Init => OrderInv
  <2>1. ASSUME Init
        PROVE  OrderInv
    <3>1. /\ Elems(<<>>) = {} /\ NoRobotMission.m = None
          /\ \A id \in Ids : queue[id] = NoRobotMission
      BY <2>1 DEF Elems, Init, EmptyQueue, NoRobotMission
    <3>2. \A m \in Missions : crs[m] = NotYet /\ \A e \in Copies(m) \union {crs[m]} : e = NotYet
      BY <2>1, <3>1 DEF Init, Watch!WatchInit, Copies, OnItsWay
    <3>3. \A r \in Robots : job[r].pc = "free"
      BY <2>1, FreeData DEF Init
    <3>4. Len(<<>>) = 0
      OBVIOUS
    <3>5. \A m \in Missions : IdsOK(m, NotYet)
      BY <3>4, EntryData DEF IdsOK
    <3> QED BY <3>1, <3>2, <3>3, <3>5, EntryData
            DEF OrderInv, OrderParts, Numbered, ActionsInOrder, SucceededIsPerformed
  <2> QED BY <2>1
<1>2. Typed /\ OrderInv /\ [Next]_vars => OrderInv'
  BY OrderPartsStep, KindStays DEF OrderInv
<1> QED BY <1>1, <1>2, Typing, PTL DEF Spec

\* No robot is asked for an action before it has performed the ones before it,
\* whatever copies of the CR a mission is resumed from.
THEOREM InOrder == Spec => []ActionsInOrder
<1>1. OrderInv => ActionsInOrder
  BY DEF OrderInv, OrderParts, ActionsInOrder
<1> QED BY <1>1, OrderKeptUp, PTL

\* A CR says SUCCEEDED only of a mission that its robot has performed.
THEOREM SuccessIsTrue == Spec => []SucceededIsPerformed
<1>1. OrderInv => SucceededIsPerformed
  BY DEF OrderInv, OrderParts, SucceededIsPerformed
<1> QED BY <1>1, OrderKeptUp, PTL

-----------------------------------------------------------------------------
(* Nothing is requested twice                                                 *)

\* Requests for an action are countable.
LEMMA AskedData ==
    ASSUME NEW m, NEW i
    PROVE  IsFiniteSet(Robot_missions(m, i)) /\ Asked(m, i) \in Nat
<1>1. MaxRobotMissions \in Nat
  BY MissionAssumption
<1>2. IsFiniteSet(Ids)
  BY <1>1, FS_Interval DEF Ids
<1>3. Robot_missions(m, i) \subseteq Ids
  BY DEF Robot_missions
<1>4. IsFiniteSet(Robot_missions(m, i))
  BY <1>2, <1>3, FS_Subset
<1> QED BY <1>4, FS_CardinalityType DEF Asked

\* Robot missions that go on are no new ones.
LEMMA AskedKept ==
    ASSUME QueueKept, NEW m, NEW i
    PROVE  Asked(m, i)' = Asked(m, i)
<1>1. Robot_missions(m, i)' = Robot_missions(m, i)
  BY DEF QueueKept, Robot_missions
<1> QED BY <1>1 DEF Asked

\* A request is one more for its action, and none more for others.
LEMMA AskedNew ==
    ASSUME Typed, Numbered, NEW r \in Robots, Needs_creation(r), Enqueue(r), NEW m \in Missions, NEW i
    PROVE  /\ m = job[r].m /\ i = job[r].i => Asked(m, i)' = Asked(m, i) + 1
           /\ m # job[r].m \/ i # job[r].i => Asked(m, i)' = Asked(m, i)
<1>1. PICK id \in Ids : id = next_id'
  BY QueueAdded
<1>2. /\ queue'[id] = [m |-> job[r].m, action |-> job[r].i, state |-> "Executing"]
      /\ \A k \in Ids : k # id => queue'[k] = queue[k]
  BY <1>1, QueueAdded
<1>3. id > next_id
  <2>1. next_id \in 0 .. MaxRobotMissions /\ MaxRobotMissions \in Nat
    BY TypeFacts, MissionAssumption DEF Typed
  <2>2. next_id' = next_id + 1
    BY DEF Enqueue
  <2> QED BY <1>1, <2>1, <2>2
<1>4. queue[id].m = None /\ m # None
  BY <1>3, MissionAssumption DEF Numbered, NoRobotMission
<1>5. id \notin Robot_missions(m, i)
  BY <1>4 DEF Robot_missions
<1>6. ASSUME m = job[r].m, i = job[r].i
      PROVE  Asked(m, i)' = Asked(m, i) + 1
  <2>1. Robot_missions(m, i)' = Robot_missions(m, i) \union {id}
    BY <1>2, <1>4, <1>6 DEF Robot_missions
  <2> QED BY <1>5, <2>1, AskedData, FS_AddElement DEF Asked
<1>7. ASSUME m # job[r].m \/ i # job[r].i
      PROVE  Asked(m, i)' = Asked(m, i)
  <2>1. Robot_missions(m, i)' = Robot_missions(m, i)
    BY <1>2, <1>4, <1>7 DEF Robot_missions
  <2> QED BY <2>1 DEF Asked
<1> QED BY <1>6, <1>7

\* A new process, a missed event or a request that was not answered starts the
\* count again.
LEMMA EpochStep ==
    ASSUME Typed, kind # "dummy", [Next]_vars
    PROVE  /\ \E x \in Nat, y \in Nat, z \in Nat :
                restarts = x /\ lost = y /\ unanswered = z
           /\ \E x \in Nat, y \in Nat, z \in Nat :
                restarts' = x /\ lost' = y /\ unanswered' = z
           /\ \/ Fault
              \/ UNCHANGED <<restarts, lost, unanswered>> /\ ~Start_again
<1>1. restarts \in Nat /\ lost \in Nat /\ unanswered \in Nat
  BY TypeFacts DEF Typed
<1>2. ASSUME NEW m \in Missions, CallStep(m) \/ EnvStep(m) \/ Visit(m)
      PROVE  UNCHANGED <<restarts, lost>> /\ unanswered' \in {unanswered, unanswered + 1}
  BY <1>2 DEF CallStep, EnvStep, Visit, faults
<1>3. ASSUME NEW r \in Robots, RunStep(r)
      PROVE  UNCHANGED <<restarts, lost>> /\ unanswered' \in {unanswered, unanswered + 1}
  BY <1>3 DEF RunStep, MovesTo, SavesTo, RunFrame
<1>4. Start_pass \/ Fetch_watch_missions \/ RobotStep \/ UNCHANGED vars =>
        UNCHANGED <<restarts, lost, unanswered>>
  BY DEF Start_pass, Fetch_watch_missions, RobotStep, vars, faults
<1>5. WatchStep => UNCHANGED <<restarts, unanswered>> /\ lost' \in {lost, lost + 1}
  BY DEF WatchStep
<1>6. Start_again => UNCHANGED <<lost, unanswered>> /\ restarts' = restarts + 1
  BY DEF Start_again
<1>7. \/ UNCHANGED <<restarts, lost, unanswered>>
      \/ UNCHANGED <<restarts, lost>> /\ unanswered' = unanswered + 1
      \/ UNCHANGED <<restarts, unanswered>> /\ lost' = lost + 1
      \/ UNCHANGED <<lost, unanswered>> /\ restarts' = restarts + 1
  BY <1>2, <1>3, <1>4, <1>5, <1>6, Steps DEF SomeStep, OtherStep
<1>8. PICK x \in Nat, y \in Nat, z \in Nat : restarts = x /\ lost = y /\ unanswered = z
  BY <1>1
<1>9. PICK u, v, w : restarts' = u /\ lost' = v /\ unanswered' = w
  OBVIOUS
<1>10. <<u, v, w>> \in {<<x, y, z>>, <<x, y, z + 1>>, <<x, y + 1, z>>, <<x + 1, y, z>>}
  BY <1>7, <1>8, <1>9
<1>11. u \in Nat /\ v \in Nat /\ w \in Nat
  BY <1>8, <1>10
<1>12. CASE <<u, v, w>> = <<x, y, z>>
  <2>1. ~Start_again
    BY <1>6, <1>8, <1>9, <1>12
  <2> QED BY <1>8, <1>9, <1>11, <1>12, <2>1
<1>13. CASE <<u, v, w>> # <<x, y, z>>
  <2>1. u + v + w = x + y + z + 1
    BY <1>8, <1>10, <1>13
  <2> QED BY <1>8, <1>9, <1>11, <2>1 DEF Fault
<1> QED BY <1>12, <1>13

\* A job that is under way is not replaced.
LEMMA BusyStep ==
    ASSUME Typed, OtherStep, ~Start_again, NEW r \in Robots, job[r] # Free
    PROVE  job'[r] = job[r]
<1>1. (\E m \in Missions : Visit(m)) \/ (kind = "fetch" /\ Fetch_watch_missions) => job'[r] = job[r]
  BY TakeStep DEF TakeFacts
<1>2. ASSUME NEW m \in Missions, CallStep(m) \/ EnvStep(m)
      PROVE  job' = job
  BY <1>2 DEF CallStep, EnvStep
<1>3. Start_pass \/ WatchStep \/ RobotStep => job' = job
  BY DEF Start_pass, WatchStep, RobotStep
<1> QED BY <1>1, <1>2, <1>3 DEF OtherStep

\* A job that goes forward stays past what it is past.
LEMMA ForwardPast ==
    ASSUME NEW now \in Job, NEW j \in Job, Forward(now, j), NEW i \in Nat, Past(now, i)
    PROVE  Past(j, i)
<1>1. now.i \in Nat /\ j.i \in Nat
  BY JobData
<1> QED BY <1>1 DEF Forward, Past

\* A job stays past a request while its process lives.
LEMMA PastStep ==
    ASSUME Typed, ServiceInv, [Next]_vars, ~Start_again, NEW r \in Robots, job[r].m \in Missions,
           job'[r].m = job[r].m, NEW i \in Nat, Past(job[r], i) \/ Refused(job[r])
    PROVE  Past(job'[r], i) \/ Refused(job[r])'
<1>0. job[r] \in Job /\ job \in [Robots -> Job] /\ job[r] # Free /\ job[r].m # None
  BY TypeFacts, FreeData, MissionAssumption DEF Typed
<1>1. MissionInv(job[r].m) /\ CrsFacts(job[r].m)
  BY CrsStep, ServiceParts
<1>2. CASE job'[r] = job[r]
  <2>1. crs[job[r].m] = Gone => crs'[job[r].m] = Gone
    BY <1>1, CrsForward
  <2> QED BY <1>2, <2>1 DEF Refused
<1>3. ASSUME NEW j, JobKept(r, j), Goes(job[r], j), job'[r] = j
      PROVE  Past(job'[r], i) \/ Refused(job[r])'
  <2>1. CASE j.pc = "stuck"
    BY <1>3, <2>1 DEF Past
  <2>2. CASE /\ job[r].pc \in Underway \/ (job[r].pc = "begin" /\ job[r].cr.status = "RUNNING")
             /\ Forward(job[r], j)
    BY <1>0, <1>3, <2>2, ForwardPast DEF Refused, Underway, JobKept
  <2> QED BY <1>0, <1>2, <1>3, <2>1, <2>2, FreeData DEF Goes
<1>4. ASSUME NEW j, JobKept(r, j), Writes(job[r], j), SavesTo(r, j)
      PROVE  Past(job'[r], i) \/ Refused(job[r])'
  <2>1. ~Refused(job[r])
    BY <1>4 DEF SavesTo, Watch!Exists, Refused
  <2>2. job'[r] = j
    BY <1>0, <1>4, FreeData DEF SavesTo
  <2> QED BY <1>0, <1>4, <2>1, <2>2, ForwardPast DEF JobKept, Writes
<1>5. ASSUME NEW q \in Robots, RunStep(q)
      PROVE  Past(job'[r], i) \/ Refused(job[r])'
  <2>1. CASE q # r
    BY <1>0, <1>2, <1>5, <2>1 DEF RunStep, MovesTo, SavesTo
  <2>2. CASE q = r
    BY <1>0, <1>3, <1>4, <1>5, <2>2 DEF RunStep, MovesTo
  <2> QED BY <2>1, <2>2
<1>6. UNCHANGED vars => job' = job
  BY DEF vars
<1> QED BY <1>0, <1>2, <1>5, <1>6, BusyStep, Steps DEF SomeStep

\* A loop that keeps up knows of the mission that it has ended.
LEMMA KeptOver ==
    ASSUME Typed, KeptUp, PromptWatch, NEW m \in Missions, crs[m].status \in Final, Newest(m) = crs[m]
    PROVE  missions[m] = crs[m]
<1>1. stream[m] \in Seq(CR \union {Gone}) /\ calls[m] \in Seq(CR \union {Gone})
  BY TypeFacts DEF Typed
<1>2. \A k \in 1 .. Len(stream[m]) : stream[m][k].status \notin Final
  BY DEF KeptUp
<1>3. \A k \in 1 .. Len(calls[m]) : calls[m][k].status \notin Final
  BY DEF KeptUp
<1>4. stream[m] # <<>> => Len(stream[m]) \in 1 .. Len(stream[m])
  BY <1>1
<1>5. calls[m] # <<>> => Len(calls[m]) \in 1 .. Len(calls[m])
  BY <1>1
<1> QED BY <1>2, <1>3, <1>4, <1>5 DEF Newest

\* Where todo comes from.
LEMMA TodoFrom ==
    ASSUME Typed, [Next]_vars, NEW m \in Missions
    PROVE  \/ todo'[m] \in {todo[m], NotYet}
           \/ KeptUp /\ UNCHANGED <<crs, missions>> /\ todo'[m] = missions[m]
<1>0. todo \in [Missions -> Entries]
  BY TypeFacts DEF Typed
<1>1. ASSUME NEW n \in Missions, CallStep(n) \/ EnvStep(n) \/ Visit(n)
      PROVE  todo'[m] \in {todo[m], NotYet}
  BY <1>0, <1>1 DEF CallStep, EnvStep, Visit
<1>2. ASSUME NEW q \in Robots, RunStep(q)
      PROVE  todo' = todo
  BY <1>2 DEF RunStep, MovesTo, SavesTo, RunFrame
<1>3. WatchStep \/ RobotStep \/ Fetch_watch_missions \/ UNCHANGED vars => todo' = todo
  BY DEF WatchStep, RobotStep, Fetch_watch_missions, vars
<1>4. Start_again => todo'[m] = NotYet
  BY DEF Start_again
<1>5. Start_pass => KeptUp /\ UNCHANGED <<crs, missions>> /\ todo'[m] = missions[m]
  BY DEF Start_pass, watch
<1> QED BY <1>1, <1>2, <1>3, <1>4, <1>5, Steps DEF SomeStep, OtherStep

\* What is over stays over.
LEMMA OverStep ==
    ASSUME Typed, ServiceInv, PromptWatch, [Next]_vars, lost' = lost, ~Start_again,
           NEW m \in Missions, \A r \in Robots : job[r].m # m, Over(m)
    PROVE  Over(m)'
<1>1. MissionInv(m) /\ CrsFacts(m)
  BY CrsStep, ServiceParts
<1>2. ~Unvisited(m)'
  BY VisitedStep DEF Over
<1>3. ASSUME crs'[m] # Gone
      PROVE  /\ crs'[m].status \in Final /\ Newest(m)' = crs'[m]
             /\ todo'[m].status \notin {"ACCEPTED", "RUNNING"}
  <2>1. crs[m] # Gone
    BY <1>1, <1>3, CrsForward
  <2>2. /\ crs[m].status \in Final /\ Newest(m) = crs[m]
        /\ todo[m].status \notin {"ACCEPTED", "RUNNING"}
    BY <2>1 DEF Over
  <2>3. crs'[m] = crs[m]
    <3>1. crs[m].status \notin {"none", "new"} /\ crs[m] # NotYet
      BY <2>2, EntryData DEF Final
    <3>2. CASE crs'[m].status = "ACCEPTED"
      BY <1>1, <3>1, <3>2, CrsForward
    <3> QED BY <1>1, <1>3, <3>1, <3>2 DEF CrsFacts
  <2>4. Newest(m)' = crs'[m]
    <3>1. NewestKept(m)'
      BY <2>2, NewestKeptStep DEF NewestKept
    <3>2. Watch!Exists(m)'
      BY <2>2, <2>3, EntryData DEF Watch!Exists, Final
    <3> QED BY <3>1, <3>2 DEF NewestKept
  <2>5. todo'[m].status \notin {"ACCEPTED", "RUNNING"}
    <3>1. KeptUp => missions[m] = crs[m]
      BY <2>2, KeptOver
    <3> QED BY <2>2, <3>1, TodoFrom, EntryData DEF Final
  <2> QED BY <2>2, <2>3, <2>4, <2>5
<1> QED BY <1>2, <1>3 DEF Over

\* One that is taken up nevertheless was deleted, and its CR refuses the update.
LEMMA TakenRefused ==
    ASSUME Typed, ServiceInv, PromptWatch, NEW r \in Robots, TakeFacts(r), job'[r].m \in Missions,
           Over(job'[r].m)
    PROVE  Refused(job[r])'
<1>1. PICK m \in Missions : m = job'[r].m
  OBVIOUS
<1>2. PICK n \in Missions :
        \/ Runnable(todo[n]) /\ job'[r] = Taken(n, todo[n]) /\ Visit(n)
        \/ /\ Runnable(missions[n]) /\ job'[r] = Taken(n, missions[n])
           /\ kind = "fetch" /\ KeptUp
  BY DEF TakeFacts
<1>3. n = m
  BY <1>1, <1>2 DEF Taken
<1>4. Over(m) /\ crs' = crs
  BY <1>1 DEF TakeFacts
<1>5. CASE Runnable(todo[m]) /\ job'[r] = Taken(m, todo[m]) /\ Visit(m)
  <2>1. todo[m] # NotYet
    BY <1>5 DEF Visit
  <2>2. ~upstart
    BY <1>4, <2>1 DEF Over, Unvisited
  <2>3. todo[m].status = "ACCEPTED"
    BY <1>5, <2>2 DEF Runnable
  <2>4. crs[m] = Gone
    BY <1>4, <2>3 DEF Over
  <2> QED BY <1>4, <1>5, <2>3, <2>4 DEF Refused, Taken
<1>6. CASE /\ Runnable(missions[m]) /\ job'[r] = Taken(m, missions[m])
           /\ kind = "fetch" /\ KeptUp
  <2>1. ~InPass
    BY <1>6 DEF ServiceInv, NoPass, InPass
  <2>2. ~upstart
    BY <1>4, <2>1 DEF Over, Unvisited
  <2>3. missions[m].status = "ACCEPTED"
    BY <1>6, <2>2 DEF Runnable
  <2>4. crs[m] = Gone
    BY <1>4, <1>6, <2>3, KeptOver DEF Over, Final
  <2> QED BY <1>4, <1>6, <2>3, <2>4 DEF Refused, Taken
<1> QED BY <1>2, <1>3, <1>5, <1>6

\* A mission leaves its job when it has ended, or its CR is gone.
LEMMA EndsOver ==
    ASSUME Typed, ServiceInv, [Next]_vars, ~Start_again, NEW m \in Missions, NEW r \in Robots,
           job[r].m = m, job'[r].m # m
    PROVE  Over(m)'
<1>0. /\ crs \in [Missions -> CR \union {NotYet, Gone}] /\ job \in [Robots -> Job]
      /\ job[r] # Free /\ job[r].pc # "free"
  BY TypeFacts, FreeData, MissionAssumption DEF Typed, JobTyped
<1>1. MissionInv(m)
  BY ServiceParts
<1>2. todo[m] = NotYet /\ ~Unvisited(m) /\ crs[m].status \notin {"none", "new"}
  BY <1>1 DEF MissionInv, Upstart, NotAhead
<1>3. RunStep(r)
  <2>1. ~OtherStep
    BY <1>0, BusyStep
  <2>2. UNCHANGED vars => job' = job
    BY DEF vars
  <2>3. ASSUME NEW q \in Robots, RunStep(q), q # r
        PROVE  FALSE
    BY <1>0, <2>3 DEF RunStep, MovesTo, SavesTo
  <2> QED BY <2>1, <2>2, <2>3, Steps DEF SomeStep
<1>4. UNCHANGED <<todo, upstart>>
  BY <1>3 DEF RunStep, MovesTo, SavesTo, RunFrame
<1>5. ~Unvisited(m)' /\ todo'[m].status \notin {"ACCEPTED", "RUNNING"}
  BY <1>2, <1>4, EntryData DEF Unvisited, InPass
<1>6. ASSUME NEW j, JobKept(r, j), Goes(job[r], j), MovesTo(r, j)
      PROVE  crs'[m] = Gone
  <2>1. crs' = crs /\ job'[r] = j
    BY <1>0, <1>6 DEF MovesTo
  <2>2. ~Watch!Cached(m) \/ ~Watch!Exists(m)
    BY <1>6, <2>1 DEF Goes
  <2>3. cache[m] # NotYet
    BY <1>1 DEF MissionInv, CachedFirst
  <2> QED BY <1>1, <1>2, <2>1, <2>2, <2>3, EntryData DEF Watch!Cached, Watch!Exists, MissionInv, GoneStays
<1>7. ASSUME NEW j, JobKept(r, j), Writes(job[r], j), SavesTo(r, j)
      PROVE  crs'[m].status \in Final /\ Newest(m)' = crs'[m]
  <2>1. j.m = m /\ j.cr \in CR /\ Watch!Write(m, j.cr) /\ crs'[m] = j.cr
    BY <1>0, <1>7, RunWrite DEF SavesTo, Watch!Write
  <2>2. j.cr.status \in Final
    BY <1>0, <1>7, <2>1 DEF SavesTo
  <2>3. NewestKept(m)'
    BY <2>1, NewestWritten
  <2>4. Watch!Exists(m)'
    BY <2>1, EntryData DEF Watch!Exists
  <2> QED BY <2>1, <2>2, <2>3, <2>4 DEF NewestKept
<1> QED BY <1>3, <1>5, <1>6, <1>7 DEF RunStep, Over

\* The step of a process that has missed nothing since the counts stand.
LEMMA OnceWork ==
    ASSUME Typed, Typed', ServiceInv, kind # "dummy", PromptWatch, [Next]_vars, ~Start_again,
           NEW m \in Missions, OnceParts(m), Anything(m),
           NEW r \in Robots, job'[r].m = m, NEW i \in 1 .. Len(ActionsOf[m]), Spent(m, i)
    PROVE  Past(job'[r], i) \/ Refused(job[r])'
<1>0. i \in Nat /\ m # None
  BY MissionAssumption
<1>1. CASE job[r].m = m
  <2>1. Past(job[r], i) \/ Refused(job[r])
    BY <1>1 DEF OnceParts
  <2> QED BY <1>0, <1>1, <2>1, PastStep
<1>2. CASE job[r].m # m
  <2>1. r = robot_of[m]
    BY <1>0, FreeData, KindStays DEF Typed, JobTyped
  <2>2. \A q \in Robots : job[q].m # m
    BY <1>0, <1>2, <2>1, FreeData DEF Typed, JobTyped
  <2>3. Over(m)
    BY <2>2 DEF OnceParts
  <2>4. TakeFacts(r)
    BY <1>0, <1>2, JobStep, FreeData DEF JobFacts
  <2> QED BY <2>3, <2>4, TakenRefused
<1> QED BY <1>1, <1>2

\* A mission that leaves its job has ended, and the loop will see so.
LEMMA OnceOver ==
    ASSUME Typed, ServiceInv, PromptWatch, [Next]_vars, ~Start_again, lost' = lost,
           NEW m \in Missions, OnceParts(m), Anything(m), \A r \in Robots : job'[r].m # m
    PROVE  Over(m)'
<1>1. CASE \E r \in Robots : job[r].m = m
  BY <1>1, EndsOver
<1>2. CASE \A r \in Robots : job[r].m # m
  BY <1>2, OverStep DEF OnceParts
<1> QED BY <1>1, <1>2

\* After a fault every action may be requested once more, even if it was
\* requested with the fault.
LEMMA OnceFault ==
    ASSUME Typed, ServiceInv, OrderParts, kind # "dummy", [Next]_vars, QueueKept \/ QueueNew, Fault,
           NEW m \in Missions, OnceParts(m)
    PROVE  OnceParts(m)'
<1> DEFINE Acts == 1 .. Len(ActionsOf[m])
<1>1. ASSUME NEW i \in Acts
      PROVE  Asked(m, i)' = Asked(m, i) \/ (Asked(m, i)' = Asked(m, i) + 1 /\ ~Spent(m, i))
  <2>1. CASE QueueKept
    BY <2>1, AskedKept
  <2>2. ASSUME NEW q \in Robots, Needs_creation(q), Enqueue(q)
        PROVE  Asked(m, i)' = Asked(m, i) \/ (Asked(m, i)' = Asked(m, i) + 1 /\ ~Spent(m, i))
    <3>1. PICK k \in Nat : k = job[q].i
      BY TypeFacts, JobData DEF Typed
    <3>2. job[q].pc = "action" /\ Numbered
      BY <2>2 DEF Needs_creation, AtAction, OrderParts
    <3>3. CASE job[q].m = m /\ i = k
      <4>1. ~Past(job[q], k) /\ ~Refused(job[q])
        BY <3>1, <3>2 DEF Past, Refused
      <4>2. ~Spent(m, k)
        BY <3>3, <4>1 DEF OnceParts, Spent
      <4> QED BY <2>2, <3>1, <3>2, <3>3, <4>2, AskedNew
    <3>4. CASE job[q].m # m \/ i # k
      BY <2>2, <3>1, <3>2, <3>4, AskedNew
    <3> QED BY <3>3, <3>4
  <2> QED BY <2>1, <2>2 DEF QueueNew
<1>2. ASSUME NEW i \in Acts
      PROVE  /\ ~(Asked(m, i)' > restarts' + lost' + unanswered')
             /\ Asked(m, i)' <= 1 + restarts' + lost' + unanswered'
  <2>1. PICK x \in Nat, y \in Nat, z \in Nat : restarts = x /\ lost = y /\ unanswered = z
    BY EpochStep
  <2>2. PICK u \in Nat, v \in Nat, w \in Nat : restarts' = u /\ lost' = v /\ unanswered' = w
    BY EpochStep
  <2>3. PICK a \in Nat : a = Asked(m, i)
    BY AskedData
  <2>4. PICK b : b = Asked(m, i)'
    OBVIOUS
  <2>5. a <= 1 + x + y + z /\ (b = a \/ (b = a + 1 /\ ~(a > x + y + z)))
    BY <1>1, <2>1, <2>3, <2>4 DEF OnceParts, Spent
  <2>6. u + v + w = x + y + z + 1
    BY <2>1, <2>2 DEF Fault
  <2>7. ~(b > u + v + w) /\ b <= 1 + u + v + w
    BY <2>5, <2>6
  <2> QED BY <2>2, <2>4, <2>7
<1>3. \A i \in Acts : ~(Asked(m, i)' > restarts' + lost' + unanswered')
                      /\ Asked(m, i)' <= 1 + restarts' + lost' + unanswered'
  BY <1>2
<1>4. \A i \in Acts : ~Spent(m, i)'
  BY <1>3 DEF Spent
<1>5. ~Anything(m)'
  BY <1>4 DEF Anything
<1> QED BY <1>3, <1>4, <1>5 DEF OnceParts

\* OnceParts is inductive with ServiceInv and OrderParts.
LEMMA OnceStep ==
    ASSUME Typed, Typed', ServiceInv, OrderParts, kind # "dummy", PromptWatch, [Next]_vars,
           NEW m \in Missions, OnceParts(m)
    PROVE  OnceParts(m)'
<1> DEFINE Acts == 1 .. Len(ActionsOf[m])
<1>0. /\ m # None /\ Acts \subseteq Nat
      /\ \A i : Asked(m, i) \in Nat
  BY MissionAssumption, AskedData
<1>1. QueueKept \/ QueueNew
  BY OrderSteps, OtherQueue, QueueSame DEF OrderParts, OrderRun, vars
<1>2. \A i \in Acts : Asked(m, i) <= 1 + restarts + lost + unanswered
  BY DEF OnceParts
<1>3. CASE Fault
  BY <1>1, <1>3, OnceFault
<1>4. CASE /\ UNCHANGED <<restarts, lost, unanswered>> /\ ~Start_again
           /\ \A i \in Acts : Asked(m, i)' = Asked(m, i)
  <2>1. \A i \in Acts : Spent(m, i)' = Spent(m, i)
    BY <1>4 DEF Spent
  <2>2. Anything(m)' = Anything(m)
    BY <2>1 DEF Anything
  <2>3. Anything(m)' /\ (\A r \in Robots : job'[r].m # m) => Over(m)'
    BY <1>4, <2>2, OnceOver
  <2>4. ASSUME NEW r \in Robots, job'[r].m = m, NEW i \in Acts, Spent(m, i)'
        PROVE  Past(job'[r], i) \/ Refused(job[r])'
    <3>1. Spent(m, i) /\ Anything(m)
      BY <2>1, <2>4 DEF Anything
    <3> QED BY <1>4, <2>4, <3>1, OnceWork
  <2> QED BY <1>2, <1>4, <2>3, <2>4 DEF OnceParts, Past
<1>5. ASSUME UNCHANGED <<restarts, lost, unanswered>>, ~Start_again,
             NEW q \in Robots, Needs_creation(q), Enqueue(q), job[q].m = m,
             job'[q].pc = "register", job'[q].m = job[q].m, job'[q].i = job[q].i
      PROVE  OnceParts(m)'
  <2>1. PICK k \in Nat : k = job[q].i
    BY <1>5, TypeFacts, JobData DEF Typed
  <2>2. job[q].pc = "action" /\ Numbered
    BY <1>5 DEF Needs_creation, AtAction, OrderParts
  <2>3. \A i \in Acts : i # k => Asked(m, i)' = Asked(m, i)
    BY <1>5, <2>1, <2>2, AskedNew
  <2>4. Asked(m, k)' = Asked(m, k) + 1
    BY <1>5, <2>1, <2>2, AskedNew
  <2>5. ~Past(job[q], k) /\ ~Refused(job[q])
    BY <2>1, <2>2 DEF Past, Refused
  <2>6. ~Spent(m, k)
    BY <1>5, <2>5 DEF OnceParts, Spent
  <2>7. \A i \in Acts : Asked(m, i)' <= 1 + restarts' + lost' + unanswered'
    <3>1. PICK x \in Nat, y \in Nat, z \in Nat : restarts = x /\ lost = y /\ unanswered = z
      BY EpochStep
    <3>2. k \in Acts => Asked(m, k)' <= 1 + x + y + z
      BY <1>0, <2>4, <2>6, <3>1 DEF Spent
    <3> QED BY <1>2, <1>5, <2>3, <3>1, <3>2
  <2>8. \A r \in Robots : job'[r].m = m => r = q
    BY <1>0, <1>5, FreeData DEF Typed, JobTyped
  <2>9. ASSUME NEW i \in Acts, Spent(m, i)'
        PROVE  Past(job'[q], i) \/ Refused(job[q])'
    <3>1. CASE i = k
      BY <1>5, <2>1, <3>1 DEF Past
    <3>2. CASE i # k
      <4>1. Asked(m, i)' = Asked(m, i)
        BY <2>3, <3>2
      <4>2. Spent(m, i) /\ Anything(m)
        BY <1>5, <2>9, <4>1 DEF Spent, Anything
      <4> QED BY <1>5, <2>9, <4>2, OnceWork
    <3> QED BY <3>1, <3>2
  <2>10. ~(\A r \in Robots : job'[r].m # m)
    BY <1>5
  <2> QED BY <2>7, <2>8, <2>9, <2>10 DEF OnceParts, Past
<1>6. ASSUME UNCHANGED <<restarts, lost, unanswered>>, ~Start_again, QueueNew
      PROVE  OnceParts(m)'
  <2>1. PICK q \in Robots :
          /\ Needs_creation(q) /\ Enqueue(q) /\ job'[q].m = job[q].m /\ job'[q].i = job[q].i
          /\ job'[q].pc = "register" \/ unanswered' = unanswered + 1
    BY <1>6 DEF QueueNew
  <2>2. job'[q].pc = "register"
    BY <1>6, <2>1, TypeFacts DEF Typed
  <2>3. CASE job[q].m # m
    <3>1. \A i \in Acts : Asked(m, i)' = Asked(m, i)
      BY <2>1, <2>3, AskedNew DEF OrderParts
    <3> QED BY <1>4, <1>6, <3>1
  <2> QED BY <1>5, <1>6, <2>1, <2>2, <2>3
<1>7. QueueKept => \A i \in Acts : Asked(m, i)' = Asked(m, i)
  BY AskedKept
<1> QED BY <1>1, <1>3, <1>4, <1>6, <1>7, EpochStep

\* Between two starts of the process, and as long as no event is missed and
\* every request is answered, an action is requested once: the job that asked
\* for it does not come back to it, and what has ended is not taken up again
\* but to be refused.
THEOREM OnceKept == Spec => []OnceInv
<1>1. Init => OnceInv
  <2>1. ASSUME Init, NEW m \in Missions
        PROVE  OnceParts(m)
    <3>1. \A i : Robot_missions(m, i) = {}
      BY <2>1, MissionAssumption DEF Init, EmptyQueue, NoRobotMission, Robot_missions
    <3>2. \A i : Asked(m, i) = 0
      BY <3>1, FS_EmptySet DEF Asked
    <3>3. restarts = 0 /\ lost = 0 /\ unanswered = 0
      BY <2>1 DEF Init
    <3> QED BY <3>2, <3>3 DEF OnceParts, Spent, Anything
  <2> QED BY <2>1 DEF OnceInv
<1>2. Typed /\ Typed' /\ ServiceInv /\ OrderInv /\ OnceInv /\ [Next]_vars => OnceInv'
  BY OnceStep, KindStays DEF OnceInv, OrderInv
<1> QED BY <1>1, <1>2, Typing, ServiceRests, OrderKeptUp, PTL DEF Spec

\* Every further robot mission for an action needs a request that was not
\* answered, a process that was started again, or a missed event.
THEOREM AskedOnce == Spec => []NotRequestedTwice
<1>1. OnceInv => NotRequestedTwice
  BY DEF OnceInv, OnceParts, NotRequestedTwice, Asked
<1> QED BY <1>1, OnceKept, PTL
=============================================================================
