---------------------------- MODULE WorkReceiving ----------------------------
(***************************************************************************)
(* Receiving drafts (Draft GRN) of ME Warehouse Control: the handlers of   *)
(* api/routes/work_control.py that create, photograph, submit and review   *)
(* a draft, on top of the task queue of WorkTasks.  Submitting a draft     *)
(* completes its task and may claim the next one in the same transaction;  *)
(* rejecting it inserts a recount task.                                    *)
(*                                                                         *)
(* The counted quantities are left out: nothing below depends on them.     *)
(* The photo store is not modelled: an upload is the row of work_evidence. *)
(***************************************************************************)
EXTENDS WorkTasks

CONSTANTS
  MaxDrafts,    \* bound on the rows of receiving_drafts
  LineCounts    \* how many lines a draft may have

ASSUME DraftsAssumption == MaxDrafts \in Nat /\ LineCounts \subseteq Nat \ {0}

VARIABLE drafts  \* receiving_drafts with its lines' photos; NULL: no such row yet

allvars == <<vars, drafts>>

DraftIds == 1..MaxDrafts
DraftStatuses == {"DRAFT", "SUBMITTED", "APPROVED", "REJECTED", "POSTED"}
DraftRow == [task : TaskIds \cup {NULL}, counted_by : Users, status : DraftStatuses,
             lines : {1..n : n \in LineCounts}, header_photo : BOOLEAN,
             line_photos : SUBSET Nat, recount : TaskIds \cup {NULL}]

ASSUME DraftRowAssumption == NULL \notin DraftRow

RInit == Init /\ drafts = [d \in DraftIds |-> NULL]

Counted(d) == drafts[d] # NULL

-----------------------------------------------------------------------------

\* POST /receiving-drafts, for a task in progress or for none
create_receiving_draft(u, t, lines) ==
  \E d \in DraftIds :
    /\ \A e \in DraftIds : Counted(e) <=> e < d
    /\ t # NULL => /\ job[t].type = "RECEIVING"
                   /\ MayTransition(t, u)
                   /\ status[t] = "IN_PROGRESS"
                   /\ \A e \in DraftIds : Counted(e) => drafts[e].task # t
    /\ drafts' = [drafts EXCEPT ![d] =
         [task |-> t, counted_by |-> u, status |-> "DRAFT", lines |-> 1..lines,
          header_photo |-> FALSE, line_photos |-> {}, recount |-> NULL]]
    /\ UNCHANGED vars

MayEdit(d, u) == u \in Admins \/ drafts[d].counted_by = u

\* POST /evidence, with the draft or one of its lines as target, in any status
upload_evidence(d, u) ==
  /\ Counted(d)
  /\ MayEdit(d, u)
  /\ \/ drafts' = [drafts EXCEPT ![d].header_photo = TRUE]
     \/ \E line \in drafts[d].lines :
          drafts' = [drafts EXCEPT ![d].line_photos = @ \cup {line}]
  /\ UNCHANGED vars

\* wrong variant: any photo will do
PhotographedOnce(r) == r.header_photo \/ r.line_photos # {}

\* one photo of the arrival, or one of every line
Photographed(r) == r.header_photo \/ r.line_photos = r.lines

\* wrong variant: the linked task is left to the worker
submit_without_complete(d, u) ==
  /\ Counted(d)
  /\ MayEdit(d, u)
  /\ drafts[d].status = "DRAFT"
  /\ Photographed(drafts[d])
  /\ drafts' = [drafts EXCEPT ![d].status = "SUBMITTED"]
  /\ UNCHANGED vars

\* POST /receiving-drafts/<id>/submit, with transition_task and claim_next_task
submit_receiving_draft(d, u) ==
  /\ Counted(d)
  /\ MayEdit(d, u)
  /\ drafts[d].status = "DRAFT"
  /\ Photographed(drafts[d])
  /\ drafts' = [drafts EXCEPT ![d].status = "SUBMITTED"]
  /\ IF drafts[d].task = NULL THEN UNCHANGED vars ELSE COMPLETE(drafts[d].task, u)

\* wrong variant: a reviewed draft can be reviewed again
MayFollowAny(from) == {"APPROVED", "REJECTED", "POSTED"}

MayFollow(from) ==
  CASE from = "SUBMITTED" -> {"APPROVED", "REJECTED"}
    [] from = "APPROVED"  -> {"POSTED"}
    [] OTHER              -> {}

SmallerOf(m, n) == IF m < n THEN m ELSE n

\* The recount of a rejected draft: one more RECEIVING task, assigned to the counter
\* whatever his availability, grants and role.  It has its idempotency key from the
\* draft, which is rejected at most once.
insert_recount(d, t) ==
  /\ FirstFree(t)
  /\ job' = [job EXCEPT ![t] =
       [type |-> "RECEIVING", batch |-> NULL,
        priority |-> SmallerOf(100, job[drafts[d].task].priority + 10)]]
  /\ status' = [status EXCEPT ![t] = "ASSIGNED"]
  /\ assigned_to' = [assigned_to EXCEPT ![t] = drafts[d].counted_by]
  /\ UNCHANGED <<claimed_by, timing, verified, batch_status, availability, grants, now>>

\* POST /receiving-drafts/<id>/review
review_receiving_draft(d, verdict) ==
  /\ Counted(d)
  /\ verdict \in MayFollow(drafts[d].status)
  /\ IF verdict = "REJECTED" /\ drafts[d].task # NULL
       THEN \E t \in TaskIds :
              /\ insert_recount(d, t)
              /\ drafts' = [drafts EXCEPT ![d].status = verdict, ![d].recount = t]
       ELSE drafts' = [drafts EXCEPT ![d].status = verdict] /\ UNCHANGED vars

Receive ==
  \/ \E u \in Users, t \in TaskIds \cup {NULL}, n \in LineCounts : create_receiving_draft(u, t, n)
  \/ \E d \in DraftIds, u \in Users : upload_evidence(d, u)
  \/ \E d \in DraftIds, u \in Users : submit_receiving_draft(d, u)
  \/ \E d \in DraftIds, verdict \in DraftStatuses : review_receiving_draft(d, verdict)

RNext == Receive \/ (Next /\ UNCHANGED drafts)

RSpec == RInit /\ [][RNext]_allvars

-----------------------------------------------------------------------------
(***************************************************************************)
(* Properties                                                              *)
(***************************************************************************)

\* The stock clerk only ever sees finished counts: a draft that has left DRAFT shows
\* a photo of the arrival or of every line, and its task, if it has one, is COMPLETED
\* -- not cancelled, and not reopened by anything the queue does later.
ReviewedAreFinished ==
  \A d \in DraftIds : Counted(d) /\ drafts[d].status # "DRAFT" =>
    /\ drafts[d].header_photo \/ \A line \in drafts[d].lines : line \in drafts[d].line_photos
    /\ drafts[d].task # NULL => status[drafts[d].task] = "COMPLETED"

\* Every rejection of a task's count leads to exactly one recount task, a RECEIVING
\* task of its own, however often drafts are reviewed and recounts rejected again.  It
\* ranks above the rejected task while there is room: priorities end at 100, where the
\* recount of a task of priority 100 gets the same rank, and is not the "higher priority
\* recount task" of docs/me-warehouse-control.md.
OneRecountPerRejection ==
  /\ \A d \in DraftIds : Counted(d) =>
       /\ drafts[d].status = "REJECTED" /\ drafts[d].task # NULL <=> drafts[d].recount # NULL
       /\ drafts[d].recount # NULL =>
            LET t == drafts[d].recount
            IN  /\ Exists(t) /\ job[t].type = "RECEIVING" /\ t # drafts[d].task
                /\ \/ job[t].priority > job[drafts[d].task].priority
                   \/ job[drafts[d].task].priority >= 100 /\ job[t].priority = 100
  /\ \A d, e \in DraftIds :
       Counted(d) /\ Counted(e) /\ d # e /\ drafts[d].recount # NULL
         => drafts[d].recount # drafts[e].recount

\* Recounts are the one exception to the rule that waiting assignments name an
\* employee on duty (AssigneesOnDuty): whatever else waits for somebody who is away
\* has been released.
OnlyRecountsWaitOffDuty ==
  \A t \in TaskIds :
    /\ status[t] = "ASSIGNED"
    /\ assigned_to[t] \in Workers => availability[assigned_to[t]] # "AVAILABLE"
    => \E d \in DraftIds : Counted(d) /\ drafts[d].recount = t /\ drafts[d].counted_by = assigned_to[t]

=============================================================================
