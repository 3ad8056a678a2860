------------------------------ MODULE ClaimOnce ------------------------------
(***************************************************************************)
(* What the work queue promises to the handhelds that claim from it,       *)
(* whatever its tables look like: a task is taken at most once, by one     *)
(* employee, for good; an employee has at most one task in hand; a         *)
(* finished task stays finished and is taken by nobody else.  One          *)
(* committed request may end a task and take the next one.                 *)
(*                                                                         *)
(* WorkTasks.tla (requests as atomic steps) and WorkClaim.tla (requests as *)
(* interleaved SQL statements) both implement this specification.          *)
(***************************************************************************)
CONSTANTS Users, Tasks, Nobody

VARIABLES
  taken_by,   \* taken_by[t]: the employee who took t, or Nobody
  finished    \* the tasks that have ended

InHand(u) == {t \in Tasks \ finished : taken_by[t] = u}

Init ==
  /\ taken_by \in [Tasks -> Users \cup {Nobody}]
  /\ finished \in SUBSET Tasks
  /\ \A u \in Users : \A s, t \in InHand(u) : s = t

Finish(t) ==
  /\ t \notin finished
  /\ finished' = finished \cup {t}
  /\ UNCHANGED taken_by

Take(u, t) ==
  /\ t \notin finished
  /\ taken_by[t] = Nobody
  /\ InHand(u) = {}
  /\ taken_by' = [taken_by EXCEPT ![t] = u]
  /\ UNCHANGED finished

FinishAndTake(s, u, t) ==
  /\ s \notin finished
  /\ t \notin finished \cup {s}
  /\ taken_by[t] = Nobody
  /\ InHand(u) \subseteq {s}
  /\ finished' = finished \cup {s}
  /\ taken_by' = [taken_by EXCEPT ![t] = u]

Next ==
  \/ \E t \in Tasks : Finish(t)
  \/ \E u \in Users, t \in Tasks : Take(u, t)
  \/ \E s, t \in Tasks, u \in Users : FinishAndTake(s, u, t)

Spec == Init /\ [][Next]_<<taken_by, finished>>

=============================================================================
