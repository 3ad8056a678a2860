--------------------------- MODULE MCWorkReceiving ---------------------------
(* Small instances of WorkReceiving for TLC. *)
EXTENDS WorkReceiving, TLC

CONSTANTS ann, root

MCRank    == ann :> 1
MCMinutes == [type \in TaskTypes |-> 1]
NoTypeLists == {}
Receiving == {"RECEIVING"}
\* the first recount reaches the top of the range, the recount of it stays there
NearTop == {95}
AnyGranted == {NULL}
ReceiveOnly == {{"RECEIVING"}}
OnOrBreak == {"AVAILABLE", "BREAK"}

\* the employee counts, photographs and submits; an administrator cancels; of the
\* queue there is what a count and a recount need. Photos are taken until
\* there are enough, since more of them change nothing, and of the lines, which are
\* alike, the first comes first.
CountNext ==
  \/ \E u \in Workers, t \in TaskIds \cup {NULL}, n \in LineCounts : create_receiving_draft(u, t, n)
  \/ \E d \in DraftIds, u \in Workers :
       /\ Counted(d) /\ ~Photographed(drafts[d])
       /\ upload_evidence(d, u)
       /\ drafts'[d].line_photos # {2}
  \/ \E d \in DraftIds, u \in Workers : submit_receiving_draft(d, u)
  \/ \E d \in DraftIds, verdict \in DraftStatuses : review_receiving_draft(d, verdict)
  \/ /\ \/ \E type \in LooseTypes, p \in Priorities : create_task(type, NULL, p, NULL)
        \/ \E w \in Workers, av \in AvailabilityChoices : set_worker_availability(w, av)
        \/ \E u \in Workers : claim_next(u)
        \/ \E t \in TaskIds, u \in Workers : START(t, u) \/ COMPLETE(t, u)
        \/ \E t \in TaskIds, u \in Admins : CANCEL(t, u)
     /\ UNCHANGED drafts
CountSpec == RInit /\ [][CountNext]_allvars
=============================================================================
