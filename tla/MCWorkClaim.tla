----------------------------- MODULE MCWorkClaim -----------------------------
(* Small instances of WorkClaim for TLC: which requests overlap, on which rows. *)
EXTENDS WorkClaim, TLC

CONSTANTS ann, bob, b1, r1, r2

\* one Pack Note, and one task without
MCTypes   == 1 :> "PICKING" @@ 2 :> "PACKING" @@ 3 :> "RECEIVING"
MCBatches == 1 :> b1 @@ 2 :> b1 @@ 3 :> NULL
AllTypes  == {"PICKING", "PACKING", "RECEIVING"}

Claims(types) == [kind : {"claim_next"}, user : Workers, types : types]
Stage     == {t \in Tasks : TaskBatch[t] # NULL}
Completions(kinds) == [kind : kinds, user : Workers, task : Tasks, types : {AllTypes}]
Cancels      == [kind : {"cancel"}, user : {NULL}, task : Tasks]
Dispatches   == [kind : {"run_dispatch"}]
Breaks       == [kind : {"availability"}, user : Workers, status : {"BREAK", "AVAILABLE"}]
Assignments  == [kind : {"assign"}, user : Workers, task : Stage]
Returns      == [kind : {"unassign"}, task : Stage]

\* handhelds finishing and claiming, and an administrator cancelling
Handhelds == Claims({AllTypes}) \cup Completions({"complete", "complete_claim"}) \cup Cancels
\* supervisors at the dispatch board while somebody claims
Board == Claims({AllTypes}) \cup Dispatches \cup Breaks \cup Assignments \cup Returns
\* an assignment by hand against a claim of the other stage
HandAssignment == Claims({{"PICKING"}}) \cup [kind : {"assign"}, user : Workers, task : {2}]
\* a dispatch against an employee who goes on a break
BreakAndDispatch == Dispatches \cup [kind : {"availability"}, user : {ann}, status : {"BREAK"}]

\* Overlapping requests are either of the one sort or of the other; at the board
\* only the Pack Note is left, the third task is done.
Done(t) == db.rows[t].status = "COMPLETED"
AtHandhelds == prog \in [Requests -> Handhelds] /\ \A t \in Tasks : ~Done(t)
AtBoard     == prog \in [Requests -> Board] /\ \A t \in Tasks : Done(t) <=> t \notin Stage
Everyone    == Handhelds \cup Board
\* requests are interchangeable, and so are the employees: one order of two different
\* kinds stands for both, and the first request that names somebody names ann
Rank == "claim_next" :> 1 @@ "complete" :> 2 @@ "complete_claim" :> 3 @@ "cancel" :> 4
        @@ "run_dispatch" :> 5 @@ "availability" :> 6 @@ "assign" :> 7 @@ "unassign" :> 8
EachPairOnce == /\ Rank[prog[r1].kind] <= Rank[prog[r2].kind]
                /\ "user" \in DOMAIN prog[r1] => prog[r1].user # bob
RequestsInit == Init /\ EachPairOnce /\ (AtHandhelds \/ (AtBoard /\ \A t \in Tasks \ Stage : db.rows[t].claimed_by = ann))
RequestsSpec == RequestsInit /\ [][Next]_vars /\ Fairness

\* the Pack Note and nothing else, none of it finished
OpenInit == Init /\ \A t \in Tasks : ~Done(t)
OpenSpec == OpenInit /\ [][Next]_vars /\ Fairness
=============================================================================
