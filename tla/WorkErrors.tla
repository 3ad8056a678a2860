------------------------------ MODULE WorkErrors ------------------------------
(***************************************************************************)
(* Mistake cases of ME Warehouse Control: create_error and review_error of *)
(* api/routes/work_control.py, and the confirmed mistakes of its           *)
(* efficiency report, on top of the task queue of WorkTasks.               *)
(*                                                                         *)
(* A case stores who picked and who packed the Pack Note when the mistake  *)
(* is reported; the review decides which of the two is responsible.  A     *)
(* barcode, order or task of the request only serves to find the Pack Note.*)
(***************************************************************************)
EXTENDS WorkTasks

CONSTANT MaxCases   \* bound on the rows of work_errors

ASSUME CasesAssumption == MaxCases \in Nat

VARIABLE cases      \* work_errors; NULL: no such row yet

evars == <<vars, cases>>

CaseIds == 1..MaxCases

\* The responsibilities the report tells apart; UNKNOWN stands for the five others.
RESPONSIBILITIES == {"PICKER", "PACKER", "BOTH", "UNKNOWN"}

EInit == Init /\ cases = [c \in CaseIds |-> NULL]

Reported(c) == cases[c] # NULL

-----------------------------------------------------------------------------

\* wrong variant: whoever is expected to do the stage is taken for its worker
LatestOwner(b, type) ==
  LET tasks == {t \in TaskIds : job[t].batch = b /\ job[t].type = type
                                  /\ Owner(t, assigned_to) # NULL}
  IN  IF tasks = {} THEN NULL ELSE Owner(Max(tasks), assigned_to)

\* the first row ORDER BY task_id DESC of the claimed tasks of one stage
LatestClaimer(b, type) ==
  LET tasks == {t \in TaskIds : job[t].batch = b /\ job[t].type = type /\ claimed_by[t] # NULL}
  IN  IF tasks = {} THEN NULL ELSE claimed_by[Max(tasks)]

\* POST /errors, about task t (NULL: none) and Pack Note b (NULL: none).  Employees
\* report from their own task.  An order identifies the Pack Note when the task has none.
create_error(u, t, b) ==
  \E c \in CaseIds :
    /\ \A d \in CaseIds : Reported(d) <=> d < c
    /\ u \notin Admins => t # NULL
    /\ t # NULL => /\ status[t] # "NONE"
                   /\ u \in Admins \cup {assigned_to[t], claimed_by[t]}
                   /\ job[t].batch # NULL => b = job[t].batch
    /\ b # NULL => batch_status[b] # "NONE"
    /\ cases' = [cases EXCEPT ![c] =
         [batch |-> b, status |-> "PENDING", responsibility |-> "UNCONFIRMED",
          picker |-> IF b = NULL THEN NULL ELSE LatestClaimer(b, "PICKING"),
          packer |-> IF b = NULL THEN NULL ELSE LatestClaimer(b, "PACKING")]]
    /\ UNCHANGED vars

\* POST /errors/<id>/review
review_error(c, verdict, responsibility) ==
  /\ Reported(c)
  /\ cases[c].status = "PENDING"
  /\ cases' = [cases EXCEPT ![c].status = verdict, ![c].responsibility = responsibility]
  /\ UNCHANGED vars

Cases ==
  \/ \E u \in Users, t \in TaskIds \cup {NULL}, b \in Batches \cup {NULL} : create_error(u, t, b)
  \/ \E c \in CaseIds, verdict \in {"CONFIRMED", "DISMISSED"}, r \in RESPONSIBILITIES :
       review_error(c, verdict, r)

ENext == Cases \/ (Next /\ UNCHANGED cases)

ESpec == EInit /\ [][ENext]_evars

-----------------------------------------------------------------------------
(***************************************************************************)
(* Properties                                                              *)
(***************************************************************************)

\* confirmed_errors of the efficiency report, the cases counted against w
ChargedPicking(w) ==
  {c \in CaseIds : /\ Reported(c) /\ cases[c].status = "CONFIRMED"
                   /\ cases[c].responsibility \in {"PICKER", "BOTH"}
                   /\ cases[c].picker = w}
ChargedPacking(w) ==
  {c \in CaseIds : /\ Reported(c) /\ cases[c].status = "CONFIRMED"
                   /\ cases[c].responsibility \in {"PACKER", "BOTH"}
                   /\ cases[c].packer = w}

\* "A reported issue is not an automatic accusation": whatever is reassigned,
\* cancelled or claimed between the report, the review and the reading of the
\* efficiency report, a mistake is counted only against an employee who really took
\* that stage of the Pack Note, and never against one employee for both stages.
ChargedForOwnStage ==
  \A w \in Users :
    /\ \A c \in ChargedPicking(w) :
         \E t \in TaskIds : /\ job[t].batch = cases[c].batch /\ job[t].type = "PICKING"
                            /\ claimed_by[t] = w
    /\ \A c \in ChargedPacking(w) :
         \E t \in TaskIds : /\ job[t].batch = cases[c].batch /\ job[t].type = "PACKING"
                            /\ claimed_by[t] = w
    /\ \A c \in ChargedPicking(w), d \in ChargedPacking(w) : cases[c].batch # cases[d].batch

=============================================================================
