--------------------------- MODULE MissionService ---------------------------
(* What a robot controller may rely on when it creates a mission CR, whatever *)
(* mission controller serves its robot: a mission is accepted before it runs, *)
(* a robot works on one mission at a time, only the mission a robot works on  *)
(* changes from RUNNING, and a final status stays until the CR is deleted.    *)
(* If the controller has missed events (behind), it may do a finished mission *)
(* once more; that is the only exception.                                     *)
CONSTANTS Missions, Robots, None

VARIABLES
    status,  \* status[m]: the status in the CR, or "none", or "deleted"
    work,    \* work[r]: the mission robot r works on, or None
    behind   \* the controller has missed events

service_vars == <<status, work, behind>>

Final == {"SUCCEEDED", "FAILED", "CANCELED"}

Init ==
    /\ status = [m \in Missions |-> "none"]
    /\ work = [r \in Robots |-> None]
    /\ behind \in BOOLEAN

SetStatus(m, s) == status' = [status EXCEPT ![m] = s]

\* The robot controller creates a mission, and deletes it when it likes to.
Request(m) == /\ status[m] = "none"
              /\ SetStatus(m, "new")
              /\ UNCHANGED <<work, behind>>

Withdraw(m) == /\ status[m] \notin {"none", "deleted"}
               /\ SetStatus(m, "deleted")
               /\ UNCHANGED <<work, behind>>

Accept(m) == /\ status[m] = "new"
             /\ SetStatus(m, "ACCEPTED")
             /\ UNCHANGED <<work, behind>>

\* Robots that are free take missions up; one that was deleted meanwhile is
\* dropped again.
Ready(m) == status[m] \in {"ACCEPTED", "RUNNING", "deleted"} \/ behind

Take == /\ \E taken \in [Robots -> Missions \union {None}] :
            /\ \A r \in Robots : IF work[r] = None
                                 THEN taken[r] # None => Ready(taken[r])
                                 ELSE taken[r] = work[r]
            /\ work' = taken
        /\ UNCHANGED <<status, behind>>

Run(r) == /\ work[r] # None
          /\ \/ status[work[r]] \in {"ACCEPTED", "RUNNING"}
             \/ behind /\ status[work[r]] \in Final
          /\ SetStatus(work[r], "RUNNING")
          /\ UNCHANGED <<work, behind>>

\* The end of a mission is reported and the robot free in one step.
End(r, s) == /\ work[r] # None
             /\ status[work[r]] = "RUNNING"
             /\ SetStatus(work[r], s)
             /\ work' = [work EXCEPT ![r] = None]
             /\ UNCHANGED behind

Drop(r) == /\ work[r] # None
           /\ status[work[r]] = "deleted"
           /\ work' = [work EXCEPT ![r] = None]
           /\ UNCHANGED <<status, behind>>

\* The controller stops and starts again, with no mission in work.
Halt == /\ work' = [r \in Robots |-> None]
        /\ UNCHANGED <<status, behind>>

FallBehind == /\ behind' = TRUE
              /\ UNCHANGED <<status, work>>

Next ==
    \/ \E m \in Missions : Request(m) \/ Withdraw(m) \/ Accept(m)
    \/ \E r \in Robots :
        \/ \E s \in Final : End(r, s)
        \/ Run(r) \/ Drop(r)
    \/ Take
    \/ Halt
    \/ FallBehind

Spec == Init /\ [][Next]_service_vars

=============================================================================
