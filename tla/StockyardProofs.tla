-------------------------- MODULE StockyardProofs --------------------------
(***************************************************************************)
(* Theorems about Stockyard for every set of days, transfer orders,        *)
(* documents, versions and requests: the closing of transfer orders, what  *)
(* arrives at the other warehouse, the version of a document that is in    *)
(* force, the lines of the order it stands for, what a purchase order      *)
(* says it has received, and what may be picked for a transfer order.      *)
(***************************************************************************)
EXTENDS Stockyard, RowFacts, FiniteSetTheorems, TLAPS

-----------------------------------------------------------------------------
(***************************************************************************)
(* Transfer orders.  A line that somebody picks for, or that an approval   *)
(* asks for, is there: its order can no longer be deleted.                 *)
(***************************************************************************)
There(l) == l \in ToLines /\ toline[l].status # "NONE"

ToRows ==
  /\ DOMAIN transfer = Transfers
  /\ DOMAIN toline = ToLines
  /\ \A l \in ToLines : DOMAIN toline[l] = {"committed", "picked", "approved", "status"}

TasksThere ==
  \A k \in totask : /\ DOMAIN k = {"id", "batch", "line", "bin", "qty", "status"}
                    /\ There(k.line)

LoadedThere ==
  /\ DOMAIN handheld = Handhelds
  /\ \A h \in Handhelds : handheld[h].op # "none" =>
       \E k \in totask : k.line = handheld[h].task.line

ApprovalsThere ==
  \A a \in approval : /\ DOMAIN a = {"id", "to", "lines", "status"}
                      /\ a.to \in Transfers
                      /\ a.status \in {"PENDING", "APPROVED", "REJECTED"}
                      /\ \A l \in DOMAIN a.lines : l[1] = a.to /\ There(l)

ClosedIsDecided ==
  \A t \in Transfers : transfer[t] = "CLOSED" =>
    /\ is_header_closeable(toline, t)
    /\ ApprovalsOf(t, {"PENDING"}) = {}

TransferInv == ToRows /\ TasksThere /\ LoadedThere /\ ApprovalsThere /\ ClosedIsDecided

LEMMA TransferInvInit == Init => TransferInv
  BY DEF Init, TransferInv, ToRows, NoToLine, TasksThere, LoadedThere, Free, ApprovalsThere,
         ClosedIsDecided, is_header_closeable, ApprovalsOf

LEMMA TransfersUnchanged == TransferInv /\ UNCHANGED transferVars => TransferInv'
  BY DEF transferVars, TransferInv, ToRows, TasksThere, LoadedThere, ApprovalsThere, There,
         ClosedIsDecided, is_header_closeable, ApprovalsOf

\* lines that an order had stay, and no task, approval or handheld changes
LEMMA LinesStay ==
  ASSUME TransferInv, UNCHANGED <<approval, totask, handheld>>, ToRows',
         \A l \in ToLines : There(l) => toline'[l].status # "NONE"
  PROVE  TasksThere' /\ LoadedThere' /\ ApprovalsThere'
  BY DEF TransferInv, TasksThere, LoadedThere, ApprovalsThere, There

LEMMA ImportStep ==
  ASSUME TransferInv, NEW t \in Transfers, NEW cart, import_transfer_order(t, cart)
  PROVE  TransferInv'
<1>1. ToRows'
  BY DEF import_transfer_order, TransferInv, ToRows
<1>2. \A l \in ToLines : l[1] = t \/ toline'[l] = toline[l]
  BY DEF import_transfer_order
<1>3. \A l \in ToLines : There(l) => l[1] # t
  BY DEF import_transfer_order, LinesOfTO, There
<1>4. TasksThere' /\ LoadedThere' /\ ApprovalsThere'
  BY <1>1, <1>2, <1>3, LinesStay DEF import_transfer_order, There
<1>5. \A u \in Transfers : transfer'[u] = "CLOSED" => u # t /\ transfer[u] = "CLOSED"
  BY DEF import_transfer_order, TransferInv, ToRows
<1>6. ClosedIsDecided'
  BY <1>2, <1>5 DEF import_transfer_order, TransferInv, ClosedIsDecided, is_header_closeable, ApprovalsOf
<1> QED BY <1>1, <1>4, <1>6 DEF TransferInv

LEMMA CancelStep ==
  ASSUME TransferInv, NEW t \in Transfers, cancel_transfer_order(t)
  PROVE  TransferInv'
<1>1. ToRows'
  BY DEF cancel_transfer_order, TransferInv, ToRows
<1>2. TasksThere' /\ LoadedThere' /\ ApprovalsThere'
  BY <1>1, LinesStay DEF cancel_transfer_order, There
<1>3. \A u \in Transfers : transfer'[u] = "CLOSED" => transfer[u] = "CLOSED"
  BY DEF cancel_transfer_order, TransferInv, ToRows
<1>4. ClosedIsDecided'
  BY <1>3 DEF cancel_transfer_order, TransferInv, ClosedIsDecided, is_header_closeable, ApprovalsOf
<1> QED BY <1>1, <1>2, <1>4 DEF TransferInv

LEMMA DeleteStep ==
  ASSUME TransferInv, NEW t \in Transfers, delete_transfer_order(t)
  PROVE  TransferInv'
<1>1. ToRows'
  BY DEF delete_transfer_order, TransferInv, ToRows, NoToLine
<1>2. \A l \in ToLines : toline'[l] = IF l[1] = t THEN NoToLine ELSE toline[l]
  BY DEF delete_transfer_order
<1>3. \A k \in totask : k.line[1] # t
  BY DEF delete_transfer_order
<1>4. approval' = approval /\ totask' = totask /\ handheld' = handheld
  BY DEF delete_transfer_order
<1>5. TasksThere' /\ LoadedThere'
  BY <1>2, <1>3, <1>4 DEF TransferInv, TasksThere, LoadedThere, There
<1>6. ApprovalsOf(t, {"PENDING"}) = {}
  BY DEF delete_transfer_order, ApprovalsOf
<1>7. ApprovalsThere'
  <2>1. \A a \in approval : a.to # t
    BY DEF delete_transfer_order, ApprovalsOf, TransferInv, ApprovalsThere
  <2> QED BY <1>2, <1>4, <2>1 DEF TransferInv, ApprovalsThere, There
<1>8. ClosedIsDecided'
  BY <1>2, <1>4, <1>6 DEF delete_transfer_order, TransferInv, ToRows, ClosedIsDecided, is_header_closeable,
     ApprovalsOf, NoToLine
<1> QED BY <1>1, <1>5, <1>7, <1>8 DEF TransferInv

LEMMA ShortCloseStep ==
  ASSUME TransferInv, NEW l \in ToLines, short_close_to_line(l)
  PROVE  TransferInv'
<1>1. ToRows'
  BY DEF short_close_to_line, TransferInv, ToRows
<1>2. \A m \in ToLines : /\ m # l => toline'[m] = toline[m]
                          /\ toline'[l].status = "SHORT_CLOSED"
  BY DEF short_close_to_line, TransferInv, ToRows
<1>3. TasksThere' /\ LoadedThere' /\ ApprovalsThere'
  BY <1>1, <1>2, LinesStay DEF short_close_to_line, There
<1>4. ClosedIsDecided'
  BY <1>2 DEF short_close_to_line, TransferInv, ClosedIsDecided, is_header_closeable, ApprovalsOf
<1> QED BY <1>1, <1>3, <1>4 DEF TransferInv

LEMMA StartPickingStep ==
  ASSUME TransferInv, NEW t \in Transfers, start_to_picking(t)
  PROVE  TransferInv'
<1>1. UNCHANGED <<transfer, toline, approval, handheld>>
  BY DEF start_to_picking
<1>2. ASSUME NEW k \in totask', k \notin totask
      PROVE  /\ DOMAIN k = {"id", "batch", "line", "bin", "qty", "status"}
             /\ k.line \in Open(t)
  BY <1>2 DEF start_to_picking
<1>3. Open(t) \subseteq {l \in ToLines : There(l)}
  BY DEF Open, LinesOfTO, There
<1>4. totask \subseteq totask'
  BY DEF start_to_picking
<1>5. TasksThere'
  BY <1>1, <1>2, <1>3 DEF TransferInv, TasksThere, There
<1> QED BY <1>1, <1>4, <1>5 DEF TransferInv, ToRows, LoadedThere, ApprovalsThere, There,
           ClosedIsDecided, is_header_closeable, ApprovalsOf

LEMMA LoadStep ==
  ASSUME TransferInv, NEW h \in Handhelds, NEW op, NEW k, NEW q, LoadToTask(h, op, k, q)
  PROVE  TransferInv'
<1>1. UNCHANGED <<transfer, toline, approval, totask>> /\ k \in totask
  BY DEF LoadToTask
<1>2. LoadedThere'
  BY <1>1 DEF LoadToTask, TransferInv, LoadedThere
<1> QED BY <1>1, <1>2 DEF TransferInv, ToRows, TasksThere, ApprovalsThere, There,
           ClosedIsDecided, is_header_closeable, ApprovalsOf

\* a task that ends keeps its line
LEMMA EndTaskLines ==
  ASSUME TasksThere, NEW k, NEW status, EndTask(k, status)
  PROVE  /\ \A j \in totask' : /\ DOMAIN j = {"id", "batch", "line", "bin", "qty", "status"}
                               /\ There(j.line)
         /\ \A j \in totask : \E i \in totask' : i.line = j.line
<1> DEFINE ended(j) == IF j.id = k.id THEN [j EXCEPT !.status = status] ELSE j
<1>1. totask' = {ended(j) : j \in totask}
  BY DEF EndTask
<1>2. \A j \in totask : /\ DOMAIN ended(j) = {"id", "batch", "line", "bin", "qty", "status"}
                         /\ ended(j).line = j.line
  BY DEF TasksThere
<1> HIDE DEF ended
<1> QED BY <1>1, <1>2 DEF TasksThere

\* the units of a confirm go to a line that is still open: not one of a closed order
LEMMA ConfirmStep ==
  ASSUME TransferInv, NEW h \in Handhelds, confirm_to_pick(h)
  PROVE  TransferInv'
<1> DEFINE k == handheld[h].task
           q == handheld[h].q
<1>1. There(k.line)
  BY DEF confirm_to_pick, TransferInv, LoadedThere, TasksThere
<1>2. approval' = approval /\ handheld' = [handheld EXCEPT ![h] = Free]
  BY DEF confirm_to_pick
<1>3. CASE ~CanPick(k.line, q)
  <2>1. UNCHANGED <<totask, toline, transfer>>
    BY <1>3 DEF confirm_to_pick
  <2> QED BY <1>2, <2>1 DEF TransferInv, ToRows, TasksThere, LoadedThere, Free, ApprovalsThere, There,
             ClosedIsDecided, is_header_closeable, ApprovalsOf
<1>4. CASE CanPick(k.line, q)
  <2>1. EndTask(k, "PICKED")
    BY <1>4 DEF confirm_to_pick
  <2>2. /\ toline' = [toline EXCEPT ![k.line].picked = @ + q,
                       ![k.line].status = IF toline[k.line].picked + q = toline[k.line].committed
                                          THEN "PICKED" ELSE "PARTIALLY_PICKED"]
        /\ transfer' = [transfer EXCEPT ![k.line[1]] = IF @ = "OPEN" THEN "PARTIALLY_PICKED" ELSE @]
    BY <1>4 DEF confirm_to_pick
  <2>3. toline[k.line].status \in {"PENDING", "PARTIALLY_PICKED"}
    BY <1>4 DEF CanPick
  <2> HIDE DEF k, q
  <2>4. ToRows'
    BY <1>1, <2>2 DEF TransferInv, ToRows, There
  <2>5. /\ toline'[k.line].status \in {"PICKED", "PARTIALLY_PICKED"}
        /\ \A l \in ToLines : l # k.line => toline'[l] = toline[l]
    BY <1>1, <2>2 DEF TransferInv, ToRows, There
  <2>6. \A l : There(l) => There(l)'
    BY <2>5 DEF There
  <2>7. TasksThere' /\ \A j \in totask : \E i \in totask' : i.line = j.line
    BY <2>1, <2>6, EndTaskLines DEF TransferInv, TasksThere
  <2>8. LoadedThere'
    BY <1>2, <2>7 DEF TransferInv, LoadedThere, Free
  <2>9. ApprovalsThere'
    BY <1>2, <2>6 DEF TransferInv, ApprovalsThere
  <2>10. ClosedIsDecided'
    <3> SUFFICES ASSUME NEW t \in Transfers, transfer'[t] = "CLOSED"
                 PROVE  is_header_closeable(toline, t)' /\ ApprovalsOf(t, {"PENDING"})' = {}
      BY DEF ClosedIsDecided
    <3>1. transfer[t] = "CLOSED"
      BY <2>2 DEF TransferInv, ToRows
    <3>2. is_header_closeable(toline, t) /\ ApprovalsOf(t, {"PENDING"}) = {}
      BY <3>1 DEF TransferInv, ClosedIsDecided
    <3>3. k.line[1] # t
      BY <1>1, <2>3, <3>2 DEF is_header_closeable, There
    <3>4. is_header_closeable(toline, t)'
      BY <2>5, <3>2, <3>3 DEF is_header_closeable
    <3> QED BY <1>2, <3>2, <3>4 DEF ApprovalsOf
  <2> QED BY <2>4, <2>7, <2>8, <2>9, <2>10 DEF TransferInv
<1> QED BY <1>3, <1>4

LEMMA ShortStep ==
  ASSUME TransferInv, NEW h \in Handhelds, short_to_pick(h)
  PROVE  TransferInv'
<1>1. UNCHANGED <<transfer, toline, approval>> /\ handheld' = [handheld EXCEPT ![h] = Free]
  BY DEF short_to_pick
<1>2. EndTask(handheld[h].task, "SHORT")
  BY DEF short_to_pick
<1>3. TasksThere' /\ \A j \in totask : \E i \in totask' : i.line = j.line
  BY <1>1, <1>2, EndTaskLines DEF TransferInv, TasksThere, There
<1>4. LoadedThere'
  BY <1>1, <1>3 DEF TransferInv, LoadedThere, Free
<1> QED BY <1>1, <1>3, <1>4 DEF TransferInv, ToRows, ApprovalsThere, There,
           ClosedIsDecided, is_header_closeable, ApprovalsOf

\* a submit asks for lines that are there, of an order that is not closed
LEMMA SubmitStep ==
  ASSUME TransferInv, NEW t, submit_picks(t), UNCHANGED <<toline, totask, handheld>>
  PROVE  TransferInv'
<1>1. DOMAIN Snapshot(t) # {} /\ \A l \in DOMAIN Snapshot(t) : l[1] = t /\ There(l)
  BY DEF submit_picks, CanSubmit, Snapshot, LinesOfTO, There
<1>2. t \in Transfers
  BY <1>1 DEF There, ToLines
<1>3. \A a \in approval' : \/ a \in approval
                            \/ /\ DOMAIN a = {"id", "to", "lines", "status"}
                               /\ a.to = t /\ a.lines = Snapshot(t) /\ a.status = "PENDING"
  BY DEF submit_picks
<1>4. ToRows' /\ TasksThere' /\ LoadedThere'
  BY DEF submit_picks, TransferInv, ToRows, TasksThere, LoadedThere, There
<1>5. ApprovalsThere'
  BY <1>1, <1>2, <1>3 DEF TransferInv, ApprovalsThere, There
<1>6. \A u \in Transfers : transfer'[u] = "CLOSED" => u # t /\ transfer[u] = "CLOSED"
  BY <1>2 DEF submit_picks, TransferInv, ToRows
<1>7. ClosedIsDecided'
  BY <1>3, <1>6 DEF TransferInv, ClosedIsDecided, is_header_closeable, ApprovalsOf
<1> QED BY <1>4, <1>5, <1>7 DEF TransferInv

LEMMA CompleteStep ==
  ASSUME TransferInv, NEW n, complete_to_batch(n)
  PROVE  TransferInv'
<1>1. UNCHANGED <<toline, totask, handheld>>
  BY DEF complete_to_batch
<1>2. UNCHANGED <<approval, transfer>> \/ \E t : submit_picks(t)
  BY DEF complete_to_batch
<1>3. CASE UNCHANGED <<approval, transfer>>
  BY <1>1, <1>3 DEF TransferInv, ToRows, TasksThere, LoadedThere, ApprovalsThere, There,
     ClosedIsDecided, is_header_closeable, ApprovalsOf
<1> QED BY <1>1, <1>2, <1>3, SubmitStep

\* the approval that is decided keeps its order and its lines
LEMMA ResolveStep ==
  ASSUME TransferInv, NEW a \in approval, NEW status \in {"APPROVED", "REJECTED"}, Resolve(a, status)
  PROVE  /\ \A b \in approval' : /\ DOMAIN b = {"id", "to", "lines", "status"}
                                 /\ b.to \in Transfers
                                 /\ b.status \in {"PENDING", "APPROVED", "REJECTED"}
                                 /\ \A l \in DOMAIN b.lines : l[1] = b.to /\ There(l)
         /\ \A b \in approval' : b.status = "PENDING" => b \in approval
  BY DEF TransferInv, ApprovalsThere, Resolve

LEMMA ApproveStep ==
  ASSUME TransferInv, NEW a \in approval, approve_transfer_order_approval(a)
  PROVE  TransferInv'
<1>1. a.to \in Transfers /\ a.status = "PENDING" /\ \A l \in DOMAIN a.lines : l[1] = a.to /\ There(l)
  BY DEF approve_transfer_order_approval, TransferInv, ApprovalsThere
<1>2. /\ UNCHANGED <<totask, handheld>>
      /\ Resolve(a, "APPROVED")
      /\ transfer' = [transfer EXCEPT ![a.to] = IF evaluate_to_closure(a.to) THEN "CLOSED" ELSE @]
  BY DEF approve_transfer_order_approval
<1>3. \A l \in ToLines : \/ l \notin DOMAIN a.lines /\ toline'[l] = toline[l]
                         \/ /\ l \in DOMAIN a.lines
                            /\ DOMAIN toline'[l] = DOMAIN toline[l]
                            /\ toline'[l].status \in {toline[l].status, "APPROVED"}
  BY DEF approve_transfer_order_approval, TransferInv, ToRows
<1>4. ToRows'
  BY <1>2, <1>3 DEF approve_transfer_order_approval, TransferInv, ToRows
<1>5. \A l : There(l) => There(l)'
  BY <1>3 DEF There
<1>6. TasksThere' /\ LoadedThere'
  BY <1>2, <1>5 DEF TransferInv, TasksThere, LoadedThere
<1>7. /\ \A b \in approval' : /\ DOMAIN b = {"id", "to", "lines", "status"}
                              /\ b.to \in Transfers
                              /\ b.status \in {"PENDING", "APPROVED", "REJECTED"}
                              /\ \A l \in DOMAIN b.lines : l[1] = b.to /\ There(l)
      /\ \A b \in approval' : b.status = "PENDING" => b \in approval
  BY <1>2, ResolveStep
<1>8. ApprovalsThere'
  BY <1>5, <1>7 DEF ApprovalsThere
<1>9. ClosedIsDecided'
  <2> SUFFICES ASSUME NEW t \in Transfers, transfer'[t] = "CLOSED"
               PROVE  is_header_closeable(toline, t)' /\ ApprovalsOf(t, {"PENDING"})' = {}
    BY DEF ClosedIsDecided
  <2>1. CASE t = a.to
    <3>1. transfer[t] # "CLOSED"
      BY <1>1, <2>1 DEF TransferInv, ClosedIsDecided, ApprovalsOf
    <3>2. evaluate_to_closure(t)
      BY <1>2, <2>1, <3>1 DEF TransferInv, ToRows
    <3> QED BY <3>2 DEF evaluate_to_closure, is_header_closeable, ApprovalsOf
  <2>2. CASE t # a.to
    <3>1. transfer[t] = "CLOSED"
      BY <1>2, <2>2 DEF TransferInv, ToRows
    <3>2. is_header_closeable(toline, t) /\ ApprovalsOf(t, {"PENDING"}) = {}
      BY <3>1 DEF TransferInv, ClosedIsDecided
    <3>3. \A l \in ToLines : l[1] = t => toline'[l] = toline[l]
      BY <1>1, <1>3, <2>2
    <3> QED BY <1>7, <3>2, <3>3 DEF is_header_closeable, ApprovalsOf
  <2> QED BY <2>1, <2>2
<1> QED BY <1>4, <1>6, <1>8, <1>9 DEF TransferInv

LEMMA RejectStep ==
  ASSUME TransferInv, NEW a \in approval, reject_transfer_order_approval(a)
  PROVE  TransferInv'
<1>1. UNCHANGED <<transfer, toline, totask, handheld>> /\ Resolve(a, "REJECTED")
  BY DEF reject_transfer_order_approval
<1>2. /\ \A b \in approval' : /\ DOMAIN b = {"id", "to", "lines", "status"}
                              /\ b.to \in Transfers
                              /\ b.status \in {"PENDING", "APPROVED", "REJECTED"}
                              /\ \A l \in DOMAIN b.lines : l[1] = b.to /\ There(l)
      /\ \A b \in approval' : b.status = "PENDING" => b \in approval
  BY <1>1, ResolveStep
<1>3. ApprovalsThere'
  BY <1>1, <1>2 DEF ApprovalsThere, There
<1>4. ClosedIsDecided'
  BY <1>1, <1>2 DEF TransferInv, ClosedIsDecided, is_header_closeable, ApprovalsOf
<1> QED BY <1>1, <1>3, <1>4 DEF TransferInv, ToRows, TasksThere, LoadedThere, There

LEMMA TransferInvNext == TransferInv /\ [Next]_vars => TransferInv'
<1> SUFFICES ASSUME TransferInv, [Next]_vars PROVE TransferInv'
  OBVIOUS
<1>1. CASE UNCHANGED transferVars
  BY <1>1, TransfersUnchanged
<1>2. CASE TransferDesk
  <2>1. ASSUME NEW n, cancel_to_batch(n) PROVE TransferInv'
    BY <2>1 DEF cancel_to_batch, TransferInv, ToRows, TasksThere, LoadedThere, ApprovalsThere, There,
       ClosedIsDecided, is_header_closeable, ApprovalsOf
  <2>2. ASSUME NEW t, submit_transfer_order_picks(t) PROVE TransferInv'
    BY <2>2, SubmitStep DEF submit_transfer_order_picks
  <2>3. \A t \in Transfers : start_to_picking(t) => TransferInv'
    BY StartPickingStep
  <2>4. \A op, k, q : \A h \in Handhelds : LoadToTask(h, op, k, q) => TransferInv'
    BY LoadStep
  <2> QED BY <1>2, <2>1, <2>2, <2>3, <2>4, ImportStep, CancelStep, DeleteStep, ShortCloseStep,
             ConfirmStep, ShortStep, CompleteStep, ApproveStep, RejectStep DEF TransferDesk
<1> QED BY <1>1, <1>2 DEF Next, vars

\* A transfer order that is CLOSED has nothing undecided and stays that way, in whatever
\* order picks, submits, approvals, short closes, cancellations and deletions come.
THEOREM ClosedSettled == Spec => []ClosedIsSettled
<1>1. Init => TransferInv
  BY TransferInvInit
<1>2. TransferInv /\ [Next]_vars => TransferInv'
  BY TransferInvNext
<1>3. TransferInv => ClosedIsSettled
  BY DEF TransferInv, ClosedIsDecided, ClosedIsSettled, is_header_closeable, LinesOfTO
<1> QED BY <1>1, <1>2, <1>3, PTL DEF Spec

-----------------------------------------------------------------------------
(***************************************************************************)
(* What arrives at the other warehouse.  A line never counts more as       *)
(* approved than was picked for it, and one that is not there counts       *)
(* nothing; so only an approval changes a count, and by what it credits.   *)
(***************************************************************************)
LinesFor(i) == {l \in ToLines : l[2] = i}
Credited(i) == Total([l \in LinesFor(i) |-> toline[l].approved], LinesFor(i))

LineCounts ==
  \A l \in ToLines : /\ toline[l].picked \in Nat /\ toline[l].approved \in Nat
                     /\ toline[l].approved <= toline[l].picked
                     /\ toline[l].status = "NONE" => toline[l].approved = 0

LoadedCounts == \A h \in Handhelds : handheld[h].op # "none" => handheld[h].q \in Nat
AskedCounts  == \A a \in approval : \A l \in DOMAIN a.lines : a.lines[l] \in Nat

CountsInv ==
  /\ LineCounts /\ LoadedCounts /\ AskedCounts
  /\ DOMAIN arrived = Items
  /\ \A i \in Items : arrived[i] = Credited(i)

LEMMA CountsInvInit == Init => CountsInv
<1> SUFFICES ASSUME Init PROVE CountsInv
  OBVIOUS
<1>1. toline = [l \in ToLines |-> NoToLine] /\ arrived = [i \in Items |-> 0] /\ approval = {}
      /\ handheld = [h \in Handhelds |-> Free]
  BY DEF Init
<1>2. ASSUME NEW i \in Items PROVE Credited(i) = 0
  <2>1. \A l \in LinesFor(i) : [m \in LinesFor(i) |-> toline[m].approved][l] = 0
    BY <1>1 DEF LinesFor, NoToLine
  <2> QED BY <2>1, TotalZero DEF Credited
<1> QED BY <1>1, <1>2 DEF CountsInv, LineCounts, LoadedCounts, AskedCounts, NoToLine, Free

LEMMA CountsKept ==
  ASSUME CountsInv, arrived' = arrived, LineCounts', LoadedCounts', AskedCounts',
         \A l \in ToLines : toline'[l].approved = toline[l].approved
  PROVE  CountsInv'
<1>1. ASSUME NEW i \in Items PROVE Credited(i)' = Credited(i)
  <2>1. [l \in LinesFor(i) |-> toline'[l].approved] = [l \in LinesFor(i) |-> toline[l].approved]
    BY DEF LinesFor
  <2> QED BY <2>1 DEF Credited, LinesFor, ToLines
<1> QED BY <1>1 DEF CountsInv

LEMMA CountsUnchanged == CountsInv /\ UNCHANGED transferVars => CountsInv'
<1> SUFFICES ASSUME CountsInv, UNCHANGED transferVars PROVE CountsInv'
  OBVIOUS
<1>1. UNCHANGED <<toline, approval, handheld, arrived>>
  BY DEF transferVars
<1>2. LineCounts' /\ LoadedCounts' /\ AskedCounts'
  BY <1>1 DEF CountsInv, LineCounts, LoadedCounts, AskedCounts
<1> QED BY <1>1, <1>2, CountsKept

LEMMA ImportCounts ==
  ASSUME CountsInv, NEW t \in Transfers, NEW cart, import_transfer_order(t, cart)
  PROVE  CountsInv'
<1>1. UNCHANGED <<approval, handheld, arrived>>
  BY DEF import_transfer_order
<1>2. \A l \in ToLines : l[1] = t => toline[l].status = "NONE"
  BY DEF import_transfer_order, LinesOfTO
<1>3. \A l \in ToLines : \/ toline'[l] = toline[l]
                         \/ /\ l[1] = t
                            /\ toline'[l].picked = 0 /\ toline'[l].approved = 0
  BY DEF import_transfer_order
<1>4. \A l \in ToLines : toline'[l].approved = toline[l].approved
  BY <1>2, <1>3 DEF CountsInv, LineCounts
<1>5. LineCounts' /\ LoadedCounts' /\ AskedCounts'
  BY <1>1, <1>3 DEF CountsInv, LineCounts, LoadedCounts, AskedCounts
<1> QED BY <1>1, <1>4, <1>5, CountsKept

LEMMA DeleteCounts ==
  ASSUME CountsInv, NEW t \in Transfers, delete_transfer_order(t)
  PROVE  CountsInv'
<1>1. /\ UNCHANGED <<approval, handheld, arrived>>
      /\ \A l \in ToLines : toline'[l] = IF l[1] = t THEN NoToLine ELSE toline[l]
  BY DEF delete_transfer_order
<1>2. \A l \in ToLines : l[1] = t => toline[l].status = "NONE" \/ toline[l].picked = 0
  BY DEF delete_transfer_order, LinesOfTO
<1>3. \A l \in ToLines : toline'[l].approved = toline[l].approved
  BY <1>1, <1>2 DEF CountsInv, LineCounts, NoToLine
<1>4. LineCounts' /\ LoadedCounts' /\ AskedCounts'
  BY <1>1 DEF CountsInv, LineCounts, LoadedCounts, AskedCounts, NoToLine
<1> QED BY <1>1, <1>3, <1>4, CountsKept

LEMMA ShortCloseCounts ==
  ASSUME TransferInv, CountsInv, NEW l \in ToLines, short_close_to_line(l)
  PROVE  CountsInv'
<1>1. /\ UNCHANGED <<approval, handheld, arrived>>
      /\ \A m \in ToLines : /\ toline'[m].picked = toline[m].picked
                            /\ toline'[m].approved = toline[m].approved
                            /\ toline'[m].status \in {toline[m].status, "SHORT_CLOSED"}
  BY DEF short_close_to_line, TransferInv, ToRows
<1>2. LineCounts' /\ LoadedCounts' /\ AskedCounts'
  BY <1>1 DEF CountsInv, LineCounts, LoadedCounts, AskedCounts
<1> QED BY <1>1, <1>2, CountsKept

LEMMA LoadCounts ==
  ASSUME TransferInv, CountsInv, NEW h \in Handhelds, NEW op, NEW k, NEW q \in Nat, LoadToTask(h, op, k, q)
  PROVE  CountsInv'
<1>1. /\ UNCHANGED <<toline, approval, arrived>>
      /\ handheld' = [handheld EXCEPT ![h] = [op |-> op, task |-> k, q |-> q]]
  BY DEF LoadToTask
<1>2. LineCounts' /\ AskedCounts'
  BY <1>1 DEF CountsInv, LineCounts, AskedCounts
<1>3. LoadedCounts'
  BY <1>1 DEF CountsInv, TransferInv, LoadedThere, LoadedCounts
<1> QED BY <1>1, <1>2, <1>3, CountsKept

\* a handheld that is done
LEMMA FreedCounts ==
  ASSUME TransferInv, CountsInv, NEW h \in Handhelds, handheld' = [handheld EXCEPT ![h] = Free]
  PROVE  LoadedCounts'
  BY DEF CountsInv, TransferInv, LoadedThere, LoadedCounts, Free

LEMMA ConfirmCounts ==
  ASSUME TransferInv, CountsInv, NEW h \in Handhelds, confirm_to_pick(h)
  PROVE  CountsInv'
<1> DEFINE k == handheld[h].task
           q == handheld[h].q
<1>1. UNCHANGED <<approval, arrived>> /\ LoadedCounts'
  BY FreedCounts DEF confirm_to_pick
<1>2. AskedCounts' /\ q \in Nat /\ There(k.line)
  BY <1>1 DEF confirm_to_pick, CountsInv, AskedCounts, LoadedCounts, TransferInv, LoadedThere, TasksThere
<1>3. \/ UNCHANGED toline
      \/ toline' = [toline EXCEPT ![k.line].picked = @ + q,
                      ![k.line].status = IF toline[k.line].picked + q = toline[k.line].committed
                                         THEN "PICKED" ELSE "PARTIALLY_PICKED"]
  BY DEF confirm_to_pick
<1> HIDE DEF k, q
<1>4. \A l \in ToLines : /\ toline'[l].approved = toline[l].approved
                         /\ \/ toline'[l] = toline[l]
                            \/ /\ toline'[l].picked = toline[l].picked + q
                               /\ toline'[l].status \in {"PICKED", "PARTIALLY_PICKED"}
  BY <1>2, <1>3 DEF TransferInv, ToRows, There
<1>5. LineCounts'
  BY <1>2, <1>4 DEF CountsInv, LineCounts
<1> QED BY <1>1, <1>2, <1>4, <1>5, CountsKept

\* a submit asks for what was picked and not yet approved
LEMMA SubmitCounts ==
  ASSUME CountsInv, NEW t, submit_picks(t), UNCHANGED <<toline, handheld, arrived>>
  PROVE  CountsInv'
<1>1. LineCounts' /\ LoadedCounts'
  BY DEF CountsInv, LineCounts, LoadedCounts
<1>2. \A l \in DOMAIN Snapshot(t) : Snapshot(t)[l] \in Nat
  BY DEF Snapshot, LinesOfTO, CountsInv, LineCounts
<1>3. \A a \in approval' : a \in approval \/ a.lines = Snapshot(t)
  BY DEF submit_picks
<1>4. AskedCounts'
  BY <1>2, <1>3 DEF CountsInv, AskedCounts
<1> QED BY <1>1, <1>4, CountsKept

LEMMA CompleteCounts ==
  ASSUME CountsInv, NEW n, complete_to_batch(n)
  PROVE  CountsInv'
<1>1. UNCHANGED <<toline, handheld, arrived>>
  BY DEF complete_to_batch
<1>2. UNCHANGED approval \/ \E t : submit_picks(t)
  BY DEF complete_to_batch
<1>3. ASSUME UNCHANGED approval PROVE CountsInv'
  <2>1. LineCounts' /\ LoadedCounts' /\ AskedCounts'
    BY <1>1, <1>3 DEF CountsInv, LineCounts, LoadedCounts, AskedCounts
  <2> QED BY <1>1, <2>1, CountsKept
<1> QED BY <1>1, <1>2, <1>3, SubmitCounts

LEMMA ResolveCounts ==
  ASSUME TransferInv, CountsInv, NEW a \in approval, NEW status, Resolve(a, status)
  PROVE  AskedCounts'
  BY DEF TransferInv, ApprovalsThere, CountsInv, AskedCounts, Resolve

\* an approval has at most one line for an item, and credits what it adds to that line
LEMMA ApproveCounts ==
  ASSUME TransferInv, CountsInv, NEW a \in approval, approve_transfer_order_approval(a)
  PROVE  CountsInv'
<1>1. a.to \in Transfers /\ \A l \in DOMAIN a.lines : l[1] = a.to /\ There(l)
  BY DEF TransferInv, ApprovalsThere
<1>2. \A l \in DOMAIN a.lines : a.lines[l] \in Nat /\ toline[l].approved + a.lines[l] <= toline[l].picked
  BY DEF approve_transfer_order_approval, CountsInv, AskedCounts
<1>3. \A l \in ToLines :
        \/ l \notin DOMAIN a.lines /\ toline'[l] = toline[l]
        \/ /\ l \in DOMAIN a.lines
           /\ toline'[l].approved = toline[l].approved + a.lines[l]
           /\ toline'[l].picked = toline[l].picked
           /\ toline'[l].status \in {toline[l].status, "APPROVED"}
  BY DEF approve_transfer_order_approval, TransferInv, ToRows
<1>4. LineCounts'
  <2> SUFFICES ASSUME NEW l \in ToLines
               PROVE  /\ toline'[l].picked \in Nat /\ toline'[l].approved \in Nat
                      /\ toline'[l].approved <= toline'[l].picked
                      /\ toline'[l].status = "NONE" => toline'[l].approved = 0
    BY DEF LineCounts
  <2>1. CASE l \notin DOMAIN a.lines
    BY <1>3, <2>1 DEF CountsInv, LineCounts
  <2>2. CASE l \in DOMAIN a.lines
    BY <1>1, <1>2, <1>3, <2>2 DEF CountsInv, LineCounts, There
  <2> QED BY <2>1, <2>2
<1>5. handheld' = handheld /\ Resolve(a, "APPROVED") /\ arrived' = [i \in Items |-> arrived[i] + Asked(a, i)]
  BY DEF approve_transfer_order_approval
<1>6. LoadedCounts' /\ AskedCounts'
  BY <1>5, ResolveCounts DEF CountsInv, LoadedCounts
<1>7. ASSUME NEW i \in Items PROVE Credited(i)' = Credited(i) + Asked(a, i)
  <2> DEFINE S == LinesFor(i)
             f == [l \in S |-> toline[l].approved]
             g == [l \in S |-> toline'[l].approved]
             x == <<a.to, i>>
  <2>1. IsFiniteSet(S)
    <3>1. IsFiniteSet(ToLines)
      BY TransfersAssumption, BinsAssumption, FS_Product DEF ToLines
    <3> QED BY <3>1, FS_Subset DEF LinesFor
  <2>2. NatOn(f, S) /\ NatOn(g, S)
    BY <1>4 DEF NatOn, CountsInv, LineCounts, LinesFor
  <2>3. x \in S
    BY <1>1 DEF LinesFor, ToLines
  <2>4. \A l \in S : l # x => l \notin DOMAIN a.lines
    BY <1>1 DEF LinesFor, ToLines
  <2>5. \A l \in S : l # x => g[l] = f[l]
    BY <1>3, <2>4 DEF LinesFor
  <2>6. g[x] = f[x] + Asked(a, i) /\ g[x] \in Nat /\ f[x] \in Nat /\ Asked(a, i) \in Nat
    <3>1. f[x] = toline[x].approved /\ g[x] = toline'[x].approved /\ x \in ToLines
      BY <2>3 DEF LinesFor
    <3>2. f[x] \in Nat /\ g[x] \in Nat
      BY <2>2, <2>3 DEF NatOn
    <3>3. CASE x \in DOMAIN a.lines
      BY <1>2, <1>3, <3>1, <3>2, <3>3 DEF Asked
    <3>4. CASE x \notin DOMAIN a.lines
      BY <1>3, <3>1, <3>2, <3>4 DEF Asked
    <3> QED BY <3>3, <3>4
  <2> HIDE DEF S, f, g, x
  <2>7. Total(g, S) = Total(f, S) - f[x] + g[x]
    BY <2>1, <2>2, <2>3, <2>5, <2>6, TotalChange
  <2>8. Total(f, S) \in Nat
    BY <2>1, <2>2, UnitsFinite
  <2>9. Total(g, S) = Total(f, S) + Asked(a, i)
    BY <2>6, <2>7, <2>8
  <2> QED BY <2>9 DEF Credited, S, f, g, LinesFor, ToLines
<1> QED BY <1>4, <1>5, <1>6, <1>7 DEF CountsInv

LEMMA CountsInvNext == TransferInv /\ CountsInv /\ [Next]_vars => CountsInv'
<1> SUFFICES ASSUME TransferInv, CountsInv, [Next]_vars PROVE CountsInv'
  OBVIOUS
<1>1. CASE UNCHANGED transferVars
  BY <1>1, CountsUnchanged
<1>2. ASSUME UNCHANGED <<toline, approval, arrived>>, LoadedCounts' PROVE CountsInv'
  <2>1. LineCounts' /\ AskedCounts'
    BY <1>2 DEF CountsInv, LineCounts, AskedCounts
  <2> QED BY <1>2, <2>1, CountsKept
<1>3. CASE TransferDesk
  <2>1. ASSUME handheld' = handheld PROVE LoadedCounts'
    BY <2>1 DEF CountsInv, LoadedCounts
  <2>2. ASSUME NEW t, cancel_transfer_order(t) \/ start_to_picking(t) PROVE CountsInv'
    BY <1>2, <2>1, <2>2 DEF cancel_transfer_order, start_to_picking
  <2>3. ASSUME NEW n, cancel_to_batch(n) PROVE CountsInv'
    BY <1>2, <2>1, <2>3 DEF cancel_to_batch
  <2>4. ASSUME NEW t, submit_transfer_order_picks(t) PROVE CountsInv'
    BY <2>4, SubmitCounts DEF submit_transfer_order_picks
  <2>5. ASSUME NEW h \in Handhelds, NEW k, NEW q \in 0 .. k.qty, NEW op, LoadToTask(h, op, k, q) PROVE CountsInv'
    BY <2>5, LoadCounts
  <2>6. ASSUME NEW h \in Handhelds, short_to_pick(h) PROVE CountsInv'
    BY <1>2, <2>6, FreedCounts DEF short_to_pick
  <2>7. ASSUME NEW a \in approval, reject_transfer_order_approval(a) PROVE CountsInv'
    <3>1. AskedCounts' /\ UNCHANGED <<toline, handheld, arrived>>
      BY <2>7, ResolveCounts DEF reject_transfer_order_approval
    <3>2. LineCounts' /\ LoadedCounts'
      BY <3>1 DEF CountsInv, LineCounts, LoadedCounts
    <3> QED BY <3>1, <3>2, CountsKept
  <2> QED BY <1>3, <2>2, <2>3, <2>4, <2>5, <2>6, <2>7, ImportCounts, DeleteCounts, ShortCloseCounts,
             ConfirmCounts, CompleteCounts, ApproveCounts DEF TransferDesk
<1> QED BY <1>1, <1>3 DEF Next, vars

\* The other warehouse is credited exactly what the lines count as approved, also when the
\* same picks are submitted twice and approvals wait side by side.
THEOREM ArrivedCorrect == Spec => []ArrivedAsApproved
<1>1. Init => TransferInv /\ CountsInv
  BY TransferInvInit, CountsInvInit
<1>2. TransferInv /\ CountsInv /\ [Next]_vars => (TransferInv /\ CountsInv)'
  BY TransferInvNext, CountsInvNext
<1>3. CountsInv => ArrivedAsApproved
  BY DEF CountsInv, ArrivedAsApproved, Credited, LinesFor, SumOver
<1> QED BY <1>1, <1>2, <1>3, PTL DEF Spec

-----------------------------------------------------------------------------
(***************************************************************************)
(* Requests.  What each desk does to those in flight, apart from the       *)
(* upstream system's posts.                                                *)
(***************************************************************************)
Elsewhere ==
  \/ UNCHANGED request
  \/ \E r \in Requests : \E m : /\ m.op # "post" /\ m.op # "cancel_receiving"
                                /\ request' = [request EXCEPT ![r] = m]

\* a transaction that lands stock and looks for backorders keeps what it found to itself
Looking == UNCHANGED <<inventory, orderVars, request, adjustment, receipt, desksVars>>

LEMMA Looks ==
  /\ \A p, i, q, b : BeginReceipt(p, i, q, b) => Looking
  /\ \A r : LandTransfer(r) \/ LandReview(r) => Looking
  /\ \A i, b, q : BeginAdjustment(i, b, q) => Looking
  /\ \A i, b, n : BeginUpdate(i, b, n) => Looking /\ UNCHANGED inboundVars
<1>1. \A op, by, i, rows, q, inv : LookForBackorders(op, by, i, rows, q, inv) => Looking
  BY DEF LookForBackorders, SalesUnchanged, Looking, orderVars
<1> QED BY <1>1 DEF BeginReceipt, LandTransfer, LandReview, BeginAdjustment, BeginUpdate

LEMMA DesksMove == Purchasing \/ SalesDesk => UNCHANGED request
  BY DEF Purchasing, create_purchase_order, close_purchase_order, reopen_purchase_order,
         update_purchase_order, add_purchase_order_line, update_purchase_order_line,
         delete_purchase_order_line, edit_purchase_order_line, POUnchanged,
         SalesDesk, create_sales_order, partial_fulfill_sales_order, cancel_sales_order

LEMMA ShelvingMoves == Shelving => Elsewhere /\ UNCHANGED <<purchase, poline, goods>>
<1>1. ASSUME NEW r \in Requests, NEW i, NEW from, NEW to, NEW q, BeginTransfer(r, i, from, to, q)
      PROVE  Elsewhere /\ UNCHANGED <<purchase, poline, goods>>
  <2>1. PICK m : m.op = "transfer" /\ request' = [request EXCEPT ![r] = m]
    BY <1>1 DEF BeginTransfer
  <2> QED BY <1>1, <2>1 DEF BeginTransfer, stockroomVars, desksVars, Elsewhere
<1>2. ASSUME NEW r \in Requests, NEW a, BeginReview(r, a)
      PROVE  Elsewhere /\ UNCHANGED <<purchase, poline, goods>>
  <2>1. PICK m : m.op = "review" /\ request' = [request EXCEPT ![r] = m]
    BY <1>2 DEF BeginReview
  <2> QED BY <1>2, <2>1 DEF BeginReview, stockroomVars, desksVars, Elsewhere
<1>3. ASSUME NEW r \in Requests, FinishTransfer(r) \/ FinishReview(r)
      PROVE  Elsewhere /\ UNCHANGED <<purchase, poline, goods>>
  <2>1. request' = [request EXCEPT ![r] = Idle] /\ Idle.op = "none"
    BY <1>3 DEF FinishTransfer, FinishReview, Idle
  <2> QED BY <1>3, <2>1 DEF FinishTransfer, FinishReview, desksVars, Elsewhere
<1>4. ASSUME NEW i, NEW from, NEW to, NEW q, move(i, from, to, q) \/ direct_adjustment(i, from, q)
      PROVE  Elsewhere /\ UNCHANGED <<purchase, poline, goods>>
  BY <1>4 DEF move, direct_adjustment, stockroomVars, desksVars, Elsewhere
<1>5. ASSUME NEW c, NEW x, create_cycle_count(c, x) \/ submit_cycle_count(c, x) \/ reject_adjustment(x)
      PROVE  Elsewhere /\ UNCHANGED <<purchase, poline, goods>>
  BY <1>5 DEF create_cycle_count, submit_cycle_count, reject_adjustment, Elsewhere
<1>6. CASE Looking
  BY <1>6 DEF Looking, desksVars, Elsewhere
<1> QED BY <1>1, <1>2, <1>3, <1>4, <1>5, <1>6, Looks DEF Shelving

LEMMA PickersMove == Pickers => Elsewhere
<1>1. ASSUME NEW r \in Requests, NEW u, NEW O, BeginCreate(r, "wave", u, O) PROVE Elsewhere
  <2>1. request' = [request EXCEPT ![r] = Plan(Db, "wave", u, O)] /\ Plan(Db, "wave", u, O).op = "wave"
    BY <1>1 DEF BeginCreate, Plan
  <2> QED BY <2>1 DEF Elsewhere
<1>2. ASSUME NEW r \in Requests, FinishCreate(r) \/ RefuseCreate(r) \/ ApplyPick(r) PROVE Elsewhere
  <2>1. request' = [request EXCEPT ![r] = Idle] /\ Idle.op = "none"
    BY <1>2 DEF FinishCreate, RefuseCreate, ApplyPick, Idle
  <2> QED BY <2>1 DEF Elsewhere
<1>3. ASSUME NEW r \in Requests, NEW t, NEW q, LoadTask(r, "confirm", t, q) PROVE Elsewhere
  <2>1. PICK m : m.op = "confirm" /\ request' = [request EXCEPT ![r] = m]
    BY <1>3 DEF LoadTask
  <2> QED BY <2>1 DEF Elsewhere
<1>4. ASSUME NEW b, complete_batch(b) \/ cancel_batch(b) PROVE Elsewhere
  BY <1>4 DEF complete_batch, cancel_batch, Elsewhere
<1>5. ASSUME NEW r \in Requests, PlanWave(r) PROVE Elsewhere
  <2>1. PICK m : m.op = "wave" /\ request' = [request EXCEPT ![r] = m]
    BY <1>5 DEF PlanWave
  <2> QED BY <2>1 DEF Elsewhere
<1> QED BY <1>1, <1>2, <1>3, <1>4, <1>5 DEF Pickers

-----------------------------------------------------------------------------
(***************************************************************************)
(* Documents.  A post that has looked at the versions is still news when   *)
(* it writes: its advisory lock keeps other posts of the document out.     *)
(***************************************************************************)
Posts(r, d) == request[r].op = "post" /\ request[r].doc = d

InboundRows ==
  \A x \in inbound : DOMAIN x = {"doc", "version", "message", "status"} /\ x.version \in Nat

PostsAreNews ==
  /\ DOMAIN request = Requests
  /\ \A r \in Requests, d \in Docs : Posts(r, d) =>
       /\ request[r].version \in Nat
       /\ \A x \in RowsOf(d) : x.version < request[r].version

PostsExclude == \A d \in Docs, r, s \in Requests : Posts(r, d) /\ Posts(s, d) => r = s

PostInv == InboundRows /\ PostsAreNews /\ PostsExclude /\ OneInForce

LEMMA PostInvInit == Init => PostInv
  BY DEF Init, PostInv, InboundRows, PostsAreNews, Posts, Idle, PostsExclude, OneInForce, RowsOf, Applied

LEMMA RequestsUnchanged == PostInv /\ UNCHANGED <<request, inbound>> => PostInv'
  BY DEF PostInv, InboundRows, PostsAreNews, Posts, PostsExclude, OneInForce, RowsOf, Applied

\* a request that ends, or that does something else
LEMMA OtherRequest ==
  ASSUME PostInv, NEW r \in Requests, NEW m, m.op # "post",
         request' = [request EXCEPT ![r] = m], UNCHANGED inbound
  PROVE  PostInv'
  BY DEF PostInv, InboundRows, PostsAreNews, Posts, PostsExclude, OneInForce, RowsOf, Applied

LEMMA EndRequest ==
  ASSUME PostInv, NEW r \in Requests, request' = [request EXCEPT ![r] = Idle], UNCHANGED inbound
  PROVE  PostInv'
  BY OtherRequest DEF Idle

LEMMA NewsIsNewer ==
  ASSUME PostInv, NEW d \in Docs, NEW v \in Versions, NewsTo(d, v)
  PROVE  v \in Nat /\ \A x \in RowsOf(d) : x.version < v
<1>1. v \in Nat
  BY VersionAssumption DEF Versions
<1>2. \A x \in RowsOf(d) : x.version \in Nat /\ x.version # v
  BY DEF NewsTo, PostInv, InboundRows, RowsOf
<1>3. CASE RowsOf(d) = {}
  BY <1>1, <1>3
<1>4. CASE RowsOf(d) # {}
  <2>1. PICK x \in RowsOf(d) : Applied(d) = {x} /\ \A y \in RowsOf(d) : y.version <= x.version
    BY <1>4 DEF PostInv, OneInForce
  <2>2. ~ (x.version > v)
    BY <2>1 DEF NewsTo
  <2> QED BY <1>1, <1>2, <2>1, <2>2
<1> QED BY <1>3, <1>4

\* the newest version is recorded, and supersedes the one in force
LEMMA RecordedInForce ==
  ASSUME PostInv, NEW d \in Docs, NEW v \in Nat, NEW m, Recorded(d, v, m),
         \A x \in RowsOf(d) : x.version < v
  PROVE  /\ InboundRows' /\ OneInForce'
         /\ \A e \in Docs : e # d => RowsOf(e)' = RowsOf(e)
<1> DEFINE row == InboundRow(d, v, m)
           kept(x) == IF x \in Applied(d) THEN [x EXCEPT !.status = "superseded"] ELSE x
<1>1. inbound' = {kept(x) : x \in inbound} \cup {row}
  BY DEF Recorded, Superseded
<1>2. /\ DOMAIN row = {"doc", "version", "message", "status"}
      /\ row.doc = d /\ row.version = v /\ row.status = "applied"
  BY DEF InboundRow
<1>3. \A x \in inbound : /\ DOMAIN kept(x) = {"doc", "version", "message", "status"}
                         /\ kept(x).doc = x.doc /\ kept(x).version = x.version
                         /\ x.doc # d => kept(x) = x
                         /\ x.doc = d => kept(x).status # "applied"
  BY DEF PostInv, InboundRows, Applied, RowsOf
<1> HIDE DEF row, kept
<1>4. InboundRows'
  BY <1>1, <1>2, <1>3 DEF PostInv, InboundRows
<1>5. ASSUME NEW e \in Docs, e # d PROVE RowsOf(e)' = RowsOf(e)
  BY <1>1, <1>2, <1>3, <1>5 DEF RowsOf
<1>6. /\ row \in RowsOf(d)'
      /\ \A y \in RowsOf(d)' : y = row \/ (y.version < v /\ y.status # "applied" /\ y.version \in Nat)
  BY <1>1, <1>2, <1>3 DEF RowsOf, PostInv, InboundRows
<1>7. Applied(d)' = {row} /\ \A y \in RowsOf(d)' : y.version <= row.version
  BY <1>2, <1>6 DEF Applied
<1>8. OneInForce'
  BY <1>5, <1>6, <1>7 DEF PostInv, OneInForce, Applied
<1> QED BY <1>4, <1>5, <1>8

LEMMA BeginPostStep ==
  ASSUME PostInv, NEW r \in Requests, NEW d \in Docs, NEW v \in Versions, NEW m, BeginPost(r, d, v, m)
  PROVE  PostInv'
<1>1. /\ inbound' = inbound /\ Posting(d) = {} /\ NewsTo(d, v)
      /\ request' = [request EXCEPT ![r] = [op |-> "post", doc |-> d, version |-> v, message |-> m]]
  BY DEF BeginPost, inboundVars
<1>2. v \in Nat /\ \A x \in RowsOf(d) : x.version < v
  BY <1>1, NewsIsNewer
<1>3. \A s \in Requests : ~Posts(s, d)
  BY <1>1 DEF Posting, Posts
<1>4. \A s \in Requests, e \in Docs : Posts(s, e)' <=> IF s = r THEN e = d ELSE Posts(s, e)
  BY <1>1 DEF Posts, PostInv, PostsAreNews
<1>5. PostsAreNews'
  BY <1>1, <1>2, <1>4 DEF PostInv, PostsAreNews, RowsOf
<1>6. PostsExclude'
  BY <1>3, <1>4 DEF PostInv, PostsExclude
<1> QED BY <1>1, <1>5, <1>6 DEF PostInv, InboundRows, OneInForce, RowsOf, Applied

\* a post that ends has recorded its version, or has failed
LEMMA FinishPostStep ==
  ASSUME PostInv, NEW r \in Requests, NEW d \in Docs, Posts(r, d),
         request' = [request EXCEPT ![r] = Idle],
         UNCHANGED inbound \/ \E m : Recorded(d, request[r].version, m)
  PROVE  PostInv'
<1>1. CASE UNCHANGED inbound
  BY <1>1, EndRequest
<1>2. ASSUME NEW m, Recorded(d, request[r].version, m) PROVE PostInv'
  <2>1. request[r].version \in Nat /\ \A x \in RowsOf(d) : x.version < request[r].version
    BY DEF PostInv, PostsAreNews
  <2>2. InboundRows' /\ OneInForce' /\ \A e \in Docs : e # d => RowsOf(e)' = RowsOf(e)
    BY <1>2, <2>1, RecordedInForce
  <2>3. \A s \in Requests, e \in Docs : Posts(s, e)' => Posts(s, e) /\ e # d /\ s # r
    BY DEF Posts, Idle, PostInv, PostsAreNews, PostsExclude
  <2>4. PostsAreNews'
    BY <2>2, <2>3 DEF PostInv, PostsAreNews
  <2> QED BY <2>2, <2>3, <2>4 DEF PostInv, PostsExclude
<1> QED BY <1>1, <1>2

\* cancellations are one step, and wait for a post of the document like any other
LEMMA PostCancellationStep ==
  ASSUME PostInv, NEW d \in Docs, NEW v \in Versions, NEW m, PostCancellation(d, v, m)
  PROVE  PostInv'
<1>1. request' = request /\ Posting(d) = {} /\ NewsTo(d, v) /\ Recorded(d, v, m)
  BY DEF PostCancellation
<1>2. v \in Nat /\ \A x \in RowsOf(d) : x.version < v
  BY <1>1, NewsIsNewer
<1>3. InboundRows' /\ OneInForce' /\ \A e \in Docs : e # d => RowsOf(e)' = RowsOf(e)
  BY <1>1, <1>2, RecordedInForce
<1>4. \A s \in Requests, e \in Docs : Posts(s, e)' => Posts(s, e) /\ e # d
  BY <1>1 DEF Posting, Posts
<1>5. PostsAreNews'
  BY <1>1, <1>3, <1>4 DEF PostInv, PostsAreNews
<1> QED BY <1>1, <1>3, <1>4, <1>5 DEF PostInv, PostsExclude

LEMMA UpstreamStep ==
  ASSUME PostInv, Upstream
  PROVE  PostInv'
<1>1. SalesDocs \subseteq Docs /\ PurchaseDocs \subseteq Docs
  BY DEF Docs
<1>2. ASSUME NEW r \in Requests, NEW held, FinishSalesPost(r, held) PROVE PostInv'
  <2>1. /\ Posts(r, request[r].doc) /\ request[r].doc \in Docs
        /\ request' = [request EXCEPT ![r] = Idle]
        /\ Recorded(request[r].doc, request[r].version, request[r].message)
    BY <1>1, <1>2 DEF FinishSalesPost, Posts
  <2> QED BY <2>1, FinishPostStep
<1>3. ASSUME NEW r \in Requests, FinishPurchasePost(r) PROVE PostInv'
  <2>1. /\ Posts(r, request[r].doc) /\ request[r].doc \in Docs
        /\ request' = [request EXCEPT ![r] = Idle]
    BY <1>1, <1>3 DEF FinishPurchasePost, Posts
  <2>2. UNCHANGED inbound \/ Recorded(request[r].doc, request[r].version, request[r].message)
    BY <1>3 DEF FinishPurchasePost
  <2> QED BY <2>1, <2>2, FinishPostStep
<1>4. ASSUME NEW i, NEW b, NEW n, inventory_update(i, b, n) PROVE PostInv'
  BY <1>4, RequestsUnchanged DEF inventory_update, inboundVars
<1>5. ASSUME NEW i, NEW b, NEW n, BeginUpdate(i, b, n) PROVE PostInv'
  BY <1>5, Looks, RequestsUnchanged DEF Looking, inboundVars
<1> QED BY <1>1, <1>2, <1>3, <1>4, <1>5, BeginPostStep, PostCancellationStep DEF Upstream

LEMMA ReceivingPosts ==
  ASSUME PostInv, Receiving, UNCHANGED inbound
  PROVE  PostInv'
<1>1. ASSUME NEW p, NEW i, NEW q, NEW b, NEW g, receive_items(p, i, q, b) \/ record_unreceive(g) PROVE PostInv'
  BY <1>1, RequestsUnchanged DEF receive_items, record_unreceive
<1>2. ASSUME NEW r \in Requests, NEW g, BeginCancelReceiving(r, g) PROVE PostInv'
  <2>1. PICK m : m.op = "cancel_receiving" /\ request' = [request EXCEPT ![r] = m]
    BY <1>2 DEF BeginCancelReceiving
  <2> QED BY <2>1, OtherRequest
<1>3. ASSUME NEW r \in Requests, FinishCancelReceiving(r) PROVE PostInv'
  BY <1>3, EndRequest DEF FinishCancelReceiving
<1>4. ASSUME NEW p, NEW i, NEW q, NEW b, BeginReceipt(p, i, q, b) PROVE PostInv'
  BY <1>4, Looks, RequestsUnchanged DEF Looking
<1> QED BY <1>1, <1>2, <1>3, <1>4 DEF Receiving

LEMMA PostInvNext == PostInv /\ [Next]_vars => PostInv'
<1> SUFFICES ASSUME PostInv, [Next]_vars PROVE PostInv'
  OBVIOUS
<1>1. CASE Elsewhere /\ UNCHANGED inboundVars
  BY <1>1, OtherRequest, RequestsUnchanged DEF Elsewhere, inboundVars
<1>2. CASE UNCHANGED <<request, inboundVars>>
  BY <1>2, RequestsUnchanged DEF inboundVars
<1>3. CASE (Purchasing \/ SalesDesk) /\ UNCHANGED inboundVars
  BY <1>2, <1>3, DesksMove
<1>4. CASE Receiving /\ UNCHANGED inboundVars
  BY <1>4, ReceivingPosts DEF inboundVars
<1>5. CASE (Shelving \/ Pickers) /\ UNCHANGED inboundVars
  BY <1>1, <1>5, ShelvingMoves, PickersMove
<1>6. CASE Upstream
  BY <1>6, UpstreamStep
<1> QED BY <1>2, <1>3, <1>4, <1>5, <1>6 DEF Next, vars

\* However the versions of a document are posted, repeated, reordered and overlapped,
\* exactly one row of it is in force, and it is the newest.
THEOREM NewestInForce == Spec => []OneInForce
<1>1. Init => PostInv
  BY PostInvInit
<1>2. PostInv /\ [Next]_vars => PostInv'
  BY PostInvNext
<1>3. PostInv => OneInForce
  BY DEF PostInv
<1> QED BY <1>1, <1>2, <1>3, PTL DEF Spec

-----------------------------------------------------------------------------
(***************************************************************************)
(* Receipts.  What a line counts as received is covered by the receipts    *)
(* that stand for it: a receipt that is struck, whether by one request or  *)
(* by two that both read it, takes its units from the line at least once.  *)
(***************************************************************************)
StandingReceipts(p, i) == {g \in goods : g.live /\ g.po = p /\ g.item = i}

ReceiptRow(g) == /\ DOMAIN g = {"id", "po", "item", "bin", "q", "live"}
                 /\ g.id \in Nat /\ g.q \in Nat

GoodsRows ==
  /\ IsFiniteSet(goods)
  /\ \A g \in goods : ReceiptRow(g)
  /\ DOMAIN poline = Purchases \X Items
  /\ \A k \in DOMAIN poline : poline[k] # NULL =>
       DOMAIN poline[k] = {"ordered", "received"} /\ poline[k].received \in Nat

\* a cancellation still has the receipt it read, as it was when nobody had struck it
StrikesReceipts ==
  /\ DOMAIN request = Requests
  /\ \A r \in Requests : request[r].op = "cancel_receiving" =>
       ReceiptRow(request[r].goods) /\ request[r].goods.live

GoodsInv == GoodsRows /\ StrikesReceipts /\ ReceivedIsReceipted

LEMMA QuantitiesOf ==
  ASSUME NEW S, IsFiniteSet(S), \A g \in S : ReceiptRow(g), NEW T, T \subseteq S
  PROVE  /\ IsFiniteSet(T) /\ NatOn([g \in S |-> g.q], T)
         /\ Total([g \in T |-> g.q], T) = Total([g \in S |-> g.q], T)
         /\ Total([g \in S |-> g.q], T) \in Nat
<1> DEFINE f == [g \in S |-> g.q]
           h == [g \in T |-> g.q]
<1>1. IsFiniteSet(T) /\ NatOn(f, T) /\ \A g \in T : h[g] = f[g]
  BY FS_Subset DEF NatOn, ReceiptRow
<1> HIDE DEF f, h
<1>2. Total(h, T) = Total(f, T) /\ Total(f, T) \in Nat
  BY <1>1, TotalSame, UnitsFinite
<1> QED BY <1>1, <1>2 DEF f, h

LEMMA ReceiptsAreSums ==
  /\ \A p, i : ReceiptsOf(p, i) = Total([g \in StandingReceipts(p, i) |-> g.q], StandingReceipts(p, i))
  /\ \A p, i : ReceiptsOf(p, i)' = Total([g \in StandingReceipts(p, i)' |-> g.q], StandingReceipts(p, i)')
  BY DEF ReceiptsOf, StandingReceipts, SumOver

LEMMA ReceiptsAreNat ==
  ASSUME GoodsRows, NEW p, NEW i
  PROVE  ReceiptsOf(p, i) \in Nat
<1>1. StandingReceipts(p, i) \subseteq goods
  BY DEF StandingReceipts
<1> QED BY <1>1, QuantitiesOf, ReceiptsAreSums DEF GoodsRows

\* a receipt that is added counts for its line only
LEMMA ReceiptAdded ==
  ASSUME GoodsRows, NEW x, ReceiptRow(x), x.live, x \notin goods, goods' = goods \cup {x}, NEW p, NEW i
  PROVE  ReceiptsOf(p, i)' = ReceiptsOf(p, i) + IF x.po = p /\ x.item = i THEN x.q ELSE 0
<1> DEFINE f == [g \in goods' |-> g.q]
           T == StandingReceipts(p, i)
           U == StandingReceipts(p, i)'
<1>1. IsFiniteSet(goods') /\ \A g \in goods' : ReceiptRow(g)
  BY FS_AddElement DEF GoodsRows
<1>2. /\ IsFiniteSet(U) /\ NatOn(f, U)
      /\ ReceiptsOf(p, i)' = Total(f, U)
  <2>1. U \subseteq goods'
    BY DEF StandingReceipts
  <2> QED BY <1>1, <2>1, QuantitiesOf, ReceiptsAreSums
<1>3. ReceiptsOf(p, i) = Total(f, T) /\ Total(f, T) \in Nat
  <2> DEFINE e == [g \in goods |-> g.q]
  <2>1. ReceiptsOf(p, i) = Total(e, T) /\ Total(e, T) \in Nat
    <3>1. T \subseteq goods
      BY DEF StandingReceipts
    <3> QED BY <3>1, QuantitiesOf, ReceiptsAreSums DEF GoodsRows
  <2>2. \A g \in T : e[g] = f[g]
    BY DEF StandingReceipts
  <2> HIDE DEF e, f, T
  <2> QED BY <2>1, <2>2, TotalSame
<1>4. CASE x.po = p /\ x.item = i
  <2>1. x \in U /\ T = U \ {x} /\ f[x] = x.q
    BY <1>4 DEF StandingReceipts
  <2> HIDE DEF f, T, U
  <2>2. Total(f, U) = Total(f, U \ {x}) + f[x]
    BY <1>2, <2>1, TotalWithout
  <2> QED BY <1>2, <1>3, <1>4, <2>1, <2>2
<1>5. CASE ~(x.po = p /\ x.item = i)
  <2>1. T = U
    BY <1>5 DEF StandingReceipts
  <2> HIDE DEF f, T, U
  <2> QED BY <1>2, <1>3, <1>5, <2>1
<1> QED BY <1>4, <1>5

\* a receipt that is struck counts no more; one that another has struck counted no more
LEMMA ReceiptStruck ==
  ASSUME GoodsRows, NEW x, ReceiptRow(x),
         goods' = (goods \ {x}) \cup {Struck(x)}, NEW p, NEW i
  PROVE  /\ IsFiniteSet(goods') /\ \A g \in goods' : ReceiptRow(g)
         /\ ReceiptsOf(p, i)' = ReceiptsOf(p, i) - IF x \in goods /\ x.live /\ x.po = p /\ x.item = i THEN x.q ELSE 0
<1> DEFINE f == [g \in goods |-> g.q]
           e == [g \in goods' |-> g.q]
           T == StandingReceipts(p, i)
           U == StandingReceipts(p, i)'
<1>1. ReceiptRow(Struck(x)) /\ Struck(x).live = FALSE
  BY DEF Struck, ReceiptRow
<1>2. IsFiniteSet(goods') /\ \A g \in goods' : ReceiptRow(g)
  BY <1>1, FS_AddElement, FS_RemoveElement DEF GoodsRows
<1>3. ReceiptsOf(p, i)' = Total(e, U) /\ IsFiniteSet(U)
  <2>1. U \subseteq goods'
    BY DEF StandingReceipts
  <2> QED BY <1>2, <2>1, QuantitiesOf, ReceiptsAreSums
<1>4. /\ IsFiniteSet(T) /\ NatOn(f, T)
      /\ ReceiptsOf(p, i) = Total(f, T) /\ Total(f, T) \in Nat
  <2>1. T \subseteq goods
    BY DEF StandingReceipts
  <2> QED BY <2>1, QuantitiesOf, ReceiptsAreSums DEF GoodsRows
<1>5. U = T \ {x} /\ \A g \in U : e[g] = f[g]
  BY <1>1 DEF StandingReceipts
<1>6. Total(e, U) = Total(f, U)
  <2> HIDE DEF f, e, T, U
  <2> QED BY <1>5, TotalSame
<1>7. CASE x \in goods /\ x.live /\ x.po = p /\ x.item = i
  <2>1. x \in T /\ f[x] = x.q
    BY <1>7 DEF StandingReceipts
  <2> HIDE DEF f, e, T, U
  <2>2. Total(f, T) = Total(f, T \ {x}) + f[x] /\ Total(f, T \ {x}) \in Nat
    BY <1>4, <2>1, TotalWithout
  <2> QED BY <1>2, <1>3, <1>4, <1>5, <1>6, <1>7, <2>1, <2>2 DEF ReceiptRow
<1>8. CASE ~(x \in goods /\ x.live /\ x.po = p /\ x.item = i)
  <2>1. T \ {x} = T
    BY <1>8 DEF StandingReceipts
  <2>2. (IF x \in goods /\ x.live /\ x.po = p /\ x.item = i THEN x.q ELSE 0) = 0
    BY <1>8, Zenon
  <2>3. Total(e, U) = Total(f, T)
    BY <1>5, <1>6, <2>1
  <2> HIDE DEF f, e, T, U
  <2>4. ReceiptsOf(p, i)' = ReceiptsOf(p, i) - 0
    BY <1>3, <1>4, <2>3
  <2> QED BY <1>2, <2>2, <2>4
<1> QED BY <1>7, <1>8

LEMMA GoodsInvInit == Init => GoodsInv
  BY FS_EmptySet DEF Init, GoodsInv, GoodsRows, StrikesReceipts, ReceivedIsReceipted, Idle

LEMMA ReceiptsStay ==
  ASSUME goods' = goods
  PROVE  \A p, i : ReceiptsOf(p, i)' = ReceiptsOf(p, i)
<1>1. \A p, i : StandingReceipts(p, i)' = StandingReceipts(p, i)
  BY DEF StandingReceipts
<1> QED BY <1>1, ReceiptsAreSums

LEMMA GoodsUnchanged ==
  ASSUME GoodsInv, StrikesReceipts', UNCHANGED <<poline, goods>>
  PROVE  GoodsInv'
<1>1. GoodsRows'
  BY DEF GoodsInv, GoodsRows
<1>2. ReceivedIsReceipted'
  BY ReceiptsStay DEF GoodsInv, ReceivedIsReceipted
<1> QED BY <1>1, <1>2 DEF GoodsInv

LEMMA StrikesStay ==
  ASSUME GoodsInv,
         \/ UNCHANGED request
         \/ \E r \in Requests : \E m : m.op # "cancel_receiving" /\ request' = [request EXCEPT ![r] = m]
  PROVE  StrikesReceipts'
  BY DEF GoodsInv, StrikesReceipts

\* lines that are entered, edited, replaced or deleted: a line that is new or replaced
\* has received nothing
LEMMA LinesEdited ==
  ASSUME GoodsInv, goods' = goods, StrikesReceipts', DOMAIN poline' = DOMAIN poline,
         \A k \in DOMAIN poline : \/ poline'[k] = poline[k]
                                  \/ poline'[k] = NULL
                                  \/ /\ DOMAIN poline'[k] = {"ordered", "received"}
                                     /\ \/ poline'[k].received = 0
                                        \/ poline[k] # NULL /\ poline'[k].received = poline[k].received
  PROVE  GoodsInv'
<1>1. GoodsRows'
  BY DEF GoodsInv, GoodsRows
<1>2. ASSUME NEW p \in Purchases, NEW i \in Items, poline'[<<p, i>>] # NULL
      PROVE  poline'[<<p, i>>].received <= ReceiptsOf(p, i)'
  <2>1. ReceiptsOf(p, i)' = ReceiptsOf(p, i) /\ ReceiptsOf(p, i) \in Nat
    BY ReceiptsStay, ReceiptsAreNat DEF GoodsInv
  <2>2. <<p, i>> \in DOMAIN poline
    BY DEF GoodsInv, GoodsRows
  <2>3. poline[<<p, i>>] # NULL => poline[<<p, i>>].received <= ReceiptsOf(p, i)
    BY DEF GoodsInv, ReceivedIsReceipted
  <2> QED BY <1>2, <2>1, <2>2, <2>3
<1> QED BY <1>1, <1>2 DEF GoodsInv, ReceivedIsReceipted

LEMMA PurchasingGoods ==
  ASSUME GoodsInv, Purchasing
  PROVE  GoodsInv'
<1>1. StrikesReceipts'
  BY DesksMove, StrikesStay
<1>2. ASSUME NEW p, NEW cart, create_purchase_order(p, cart) PROVE GoodsInv'
  <2>1. /\ goods' = goods
        /\ DOMAIN poline' = DOMAIN poline
        /\ \A k \in DOMAIN poline : poline'[k] = poline[k] \/
             (DOMAIN poline'[k] = {"ordered", "received"} /\ poline'[k].received = 0)
    BY <1>2 DEF create_purchase_order, POUnchanged
  <2> QED BY <1>1, <2>1, LinesEdited
<1>3. ASSUME NEW p, NEW status, update_purchase_order(p, status) PROVE GoodsInv'
  BY <1>1, <1>3, GoodsUnchanged DEF update_purchase_order, POUnchanged
<1>4. ASSUME NEW p, NEW i, NEW new, edit_purchase_order_line(p, i, new),
             \/ <<p, i>> \notin DOMAIN poline
             \/ new = NULL
             \/ /\ DOMAIN new = {"ordered", "received"}
                /\ \/ new.received = 0
                   \/ poline[<<p, i>>] # NULL /\ new.received = poline[<<p, i>>].received
      PROVE  GoodsInv'
  <2>1. goods' = goods /\ poline' = [poline EXCEPT ![<<p, i>>] = new]
    BY <1>4 DEF edit_purchase_order_line, POUnchanged
  <2> QED BY <1>1, <1>4, <2>1, LinesEdited
<1>5. ASSUME NEW p, NEW i, NEW q,
             \/ add_purchase_order_line(p, i, q)
             \/ update_purchase_order_line(p, i, q)
             \/ delete_purchase_order_line(p, i)
      PROVE  GoodsInv'
  <2>1. CASE add_purchase_order_line(p, i, q)
    <3> DEFINE new == [ordered |-> q, received |-> 0]
    <3>1. edit_purchase_order_line(p, i, new) /\ DOMAIN new = {"ordered", "received"} /\ new.received = 0
      BY <2>1 DEF add_purchase_order_line
    <3> HIDE DEF new
    <3> QED BY <1>4, <3>1
  <2>2. CASE update_purchase_order_line(p, i, q)
    <3> DEFINE new == [poline[<<p, i>>] EXCEPT !.ordered = q]
    <3>1. edit_purchase_order_line(p, i, new) /\ poline[<<p, i>>] # NULL
      BY <2>2 DEF update_purchase_order_line
    <3>2. \/ <<p, i>> \notin DOMAIN poline
          \/ DOMAIN new = {"ordered", "received"} /\ new.received = poline[<<p, i>>].received
      BY <3>1 DEF GoodsInv, GoodsRows
    <3> HIDE DEF new
    <3> QED BY <1>4, <3>1, <3>2
  <2>3. CASE delete_purchase_order_line(p, i)
    BY <1>4, <2>3 DEF delete_purchase_order_line
  <2> QED BY <1>5, <2>1, <2>2, <2>3
<1> QED BY <1>2, <1>3, <1>5 DEF Purchasing, close_purchase_order, reopen_purchase_order

\* a strike takes from the line at least what it takes from its receipts
LEMMA StrikeGoods ==
  ASSUME GoodsInv, NEW g, ReceiptRow(g), StrikeReceipt(g), StrikesReceipts'
  PROVE  GoodsInv'
<1> DEFINE k == <<g.po, g.item>>
           taken(p, i) == IF g \in goods /\ g.live /\ g.po = p /\ g.item = i THEN g.q ELSE 0
<1>1. goods' = (goods \ {g}) \cup {Struck(g)}
  BY DEF StrikeReceipt
<1>2. /\ IsFiniteSet(goods') /\ \A x \in goods' : ReceiptRow(x)
      /\ \A p, i : ReceiptsOf(p, i)' = ReceiptsOf(p, i) - taken(p, i)
  BY <1>1, ReceiptStruck DEF GoodsInv
<1>3. /\ DOMAIN poline' = DOMAIN poline
      /\ \A x \in DOMAIN poline :
           \/ x # k /\ poline'[x] = poline[x]
           \/ x = k /\ poline[k] = NULL /\ poline'[x] = NULL
           \/ /\ x = k /\ poline[k] # NULL
              /\ DOMAIN poline'[x] = {"ordered", "received"}
              /\ poline'[x].received = AtLeast0(poline[k].received - g.q)
  BY DEF StrikeReceipt, GoodsInv, GoodsRows
<1>4. g.q \in Nat
  BY DEF ReceiptRow
<1>5. GoodsRows'
  <2>1. DOMAIN poline' = Purchases \X Items
    BY <1>3 DEF GoodsInv, GoodsRows
  <2>2. ASSUME NEW x \in DOMAIN poline', poline'[x] # NULL
        PROVE  DOMAIN poline'[x] = {"ordered", "received"} /\ poline'[x].received \in Nat
    BY <1>3, <1>4, <2>2 DEF GoodsInv, GoodsRows, AtLeast0
  <2> QED BY <1>2, <2>1, <2>2 DEF GoodsRows
<1>6. ASSUME NEW p \in Purchases, NEW i \in Items, poline'[<<p, i>>] # NULL
      PROVE  poline'[<<p, i>>].received <= ReceiptsOf(p, i)'
  <2> DEFINE x == <<p, i>>
  <2>1. /\ ReceiptsOf(p, i)' = ReceiptsOf(p, i) - taken(p, i)
        /\ ReceiptsOf(p, i) \in Nat /\ ReceiptsOf(p, i)' \in Nat
    <3>1. GoodsRows /\ GoodsRows'
      BY <1>5 DEF GoodsInv
    <3>2. \A S : (IsFiniteSet(goods') /\ \A y \in goods' : ReceiptRow(y)) /\ S = StandingReceipts(p, i)' =>
             Total([y \in goods' |-> y.q], S) \in Nat /\ ReceiptsOf(p, i)' = Total([y \in goods' |-> y.q], S)
      <4>1. StandingReceipts(p, i)' \subseteq goods'
        BY DEF StandingReceipts
      <4> QED BY <4>1, QuantitiesOf, ReceiptsAreSums
    <3> QED BY <1>2, <3>1, <3>2, ReceiptsAreNat
  <2>2. x \in DOMAIN poline
    BY DEF GoodsInv, GoodsRows
  <2>3. poline[x] # NULL => poline[x].received \in Nat /\ poline[x].received <= ReceiptsOf(p, i)
    BY <2>2 DEF GoodsInv, GoodsRows, ReceivedIsReceipted
  <2>4. CASE x # k
    <3>1. taken(p, i) = 0
      BY <2>4
    <3> QED BY <1>3, <1>6, <2>1, <2>2, <2>3, <2>4, <3>1
  <2>5. CASE x = k
    <3>1. taken(p, i) \in {0, g.q} /\ poline'[x].received = AtLeast0(poline[x].received - g.q) /\ poline[x] # NULL
      BY <1>3, <1>6, <2>2, <2>5
    <3> HIDE DEF taken, x
    <3> QED BY <1>4, <2>1, <2>3, <3>1 DEF AtLeast0, x
  <2> QED BY <2>4, <2>5
<1> QED BY <1>5, <1>6 DEF GoodsInv, ReceivedIsReceipted

LEMMA ReceiveGoods ==
  ASSUME GoodsInv, NEW p \in Purchases, NEW i, NEW q \in Quantities, NEW b, receive_items(p, i, q, b)
  PROVE  GoodsInv'
<1>1. PICK n \in Receipts :
        /\ \A g \in goods : g.id < n
        /\ goods' = goods \cup {[id |-> n, po |-> p, item |-> i, bin |-> b, q |-> q, live |-> TRUE]}
  BY DEF receive_items
<1> DEFINE x == [id |-> n, po |-> p, item |-> i, bin |-> b, q |-> q, live |-> TRUE]
<1>2. n \in Nat /\ q \in Nat
  BY ReceiptsAssumption, OrderedAssumption DEF Quantities
<1>3. ReceiptRow(x) /\ x.live /\ x.po = p /\ x.item = i /\ x.q = q /\ x \notin goods
  BY <1>1, <1>2 DEF ReceiptRow
<1>4. request' = request /\ poline' = [poline EXCEPT ![<<p, i>>].received = @ + q] /\ poline[<<p, i>>] # NULL
  BY DEF receive_items, MayBeReceived
<1>5. StrikesReceipts'
  BY <1>4, StrikesStay
<1> HIDE DEF x
<1>6. goods' = goods \cup {x}
  BY <1>1 DEF x
<1>7. \A o, j : ReceiptsOf(o, j)' = ReceiptsOf(o, j) + IF o = p /\ j = i THEN q ELSE 0
  BY <1>3, <1>6, ReceiptAdded DEF GoodsInv
<1>8. GoodsRows'
  <2>1. IsFiniteSet(goods') /\ \A g \in goods' : ReceiptRow(g)
    BY <1>3, <1>6, FS_AddElement DEF GoodsInv, GoodsRows
  <2>2. /\ DOMAIN poline' = Purchases \X Items
        /\ \A k \in DOMAIN poline : poline'[k] # NULL =>
             DOMAIN poline'[k] = {"ordered", "received"} /\ poline'[k].received \in Nat
    BY <1>2, <1>4 DEF GoodsInv, GoodsRows
  <2> QED BY <2>1, <2>2 DEF GoodsInv, GoodsRows
<1>9. ASSUME NEW o \in Purchases, NEW j \in Items, poline'[<<o, j>>] # NULL
      PROVE  poline'[<<o, j>>].received <= ReceiptsOf(o, j)'
  <2>1. ReceiptsOf(o, j) \in Nat /\ <<o, j>> \in DOMAIN poline
    BY ReceiptsAreNat DEF GoodsInv, GoodsRows
  <2>2. poline[<<o, j>>] # NULL => poline[<<o, j>>].received \in Nat /\ poline[<<o, j>>].received <= ReceiptsOf(o, j)
    BY <2>1 DEF GoodsInv, GoodsRows, ReceivedIsReceipted
  <2>3. CASE o = p /\ j = i
    <3>1. poline'[<<o, j>>].received = poline[<<o, j>>].received + q
      BY <1>4, <2>1, <2>3 DEF GoodsInv, GoodsRows
    <3> QED BY <1>2, <1>4, <1>7, <2>1, <2>2, <2>3, <3>1
  <2>4. CASE ~(o = p /\ j = i)
    <3>1. poline'[<<o, j>>] = poline[<<o, j>>]
      BY <1>4, <2>1, <2>4
    <3> QED BY <1>7, <1>9, <2>1, <2>2, <2>4, <3>1
  <2> QED BY <2>3, <2>4
<1> QED BY <1>5, <1>8, <1>9 DEF GoodsInv, ReceivedIsReceipted

LEMMA ReceivingGoods ==
  ASSUME GoodsInv, Receiving
  PROVE  GoodsInv'
<1>1. ASSUME NEW r \in Requests, NEW g \in goods, BeginCancelReceiving(r, g) PROVE GoodsInv'
  <2>1. /\ request' = [request EXCEPT ![r] = [op |-> "cancel_receiving", goods |-> g]]
        /\ g.live /\ ReceiptRow(g) /\ UNCHANGED <<poline, goods>>
    BY <1>1 DEF BeginCancelReceiving, stockroomVars, desksVars, GoodsInv, GoodsRows
  <2>2. StrikesReceipts'
    BY <2>1 DEF GoodsInv, StrikesReceipts
  <2> QED BY <2>1, <2>2, GoodsUnchanged
<1>2. ASSUME NEW r \in Requests, FinishCancelReceiving(r) PROVE GoodsInv'
  <2> DEFINE g == request[r].goods
  <2>1. /\ request' = [request EXCEPT ![r] = Idle] /\ Idle.op = "none"
        /\ StrikeReceipt(IF g \in goods THEN g ELSE Struck(g))
        /\ ReceiptRow(g) /\ g.live
    BY <1>2 DEF FinishCancelReceiving, Idle, GoodsInv, StrikesReceipts
  <2>2. StrikesReceipts'
    BY <2>1, StrikesStay
  <2> HIDE DEF g
  <2>3. ReceiptRow(Struck(g))
    BY <2>1 DEF Struck, ReceiptRow
  <2> QED BY <2>1, <2>2, <2>3, StrikeGoods
<1>3. ASSUME NEW g \in goods, record_unreceive(g) PROVE GoodsInv'
  <2>1. request' = request /\ g.live /\ StrikeReceipt(g) /\ ReceiptRow(g)
    BY <1>3 DEF record_unreceive, GoodsInv, GoodsRows
  <2>2. StrikesReceipts'
    BY <2>1, StrikesStay
  <2> QED BY <2>1, <2>2, StrikeGoods
<1>4. ASSUME NEW p, NEW i, NEW q, NEW b, BeginReceipt(p, i, q, b) PROVE GoodsInv'
  <2>1. UNCHANGED <<request, poline, goods>>
    BY <1>4, Looks DEF Looking, desksVars
  <2> QED BY <2>1, StrikesStay, GoodsUnchanged
<1> QED BY <1>1, <1>2, <1>3, <1>4, ReceiveGoods DEF Receiving

\* a post replaces the lines of a purchase order by lines that have received nothing
LEMMA PostedGoods ==
  ASSUME GoodsInv, NEW r \in Requests, FinishPurchasePost(r)
  PROVE  GoodsInv'
<1>1. /\ goods' = goods /\ request' = [request EXCEPT ![r] = Idle] /\ Idle.op = "none"
  BY DEF FinishPurchasePost, Idle
<1>2. StrikesReceipts'
  BY <1>1, StrikesStay
<1>3. /\ DOMAIN poline' = DOMAIN poline
      /\ \A k \in DOMAIN poline :
           \/ poline'[k] = poline[k]
           \/ poline'[k] = NULL
           \/ DOMAIN poline'[k] = {"ordered", "received"} /\ poline'[k].received = 0
  <2> DEFINE m == request[r].message
             lined(p) == IF DOMAIN m.cart = {} THEN poline
                         ELSE [k \in DOMAIN poline |-> IF k[1] # p THEN poline[k]
                                 ELSE IF k[2] \in DOMAIN m.cart THEN [ordered |-> m.cart[k[2]], received |-> 0]
                                 ELSE NULL]
  <2>1. poline' = poline \/ \E p : poline' = lined(p)
    BY DEF FinishPurchasePost
  <2>2. ASSUME NEW p, NEW k \in DOMAIN poline
        PROVE  /\ DOMAIN lined(p) = DOMAIN poline
               /\ \/ lined(p)[k] = poline[k]
                  \/ lined(p)[k] = NULL
                  \/ DOMAIN lined(p)[k] = {"ordered", "received"} /\ lined(p)[k].received = 0
    OBVIOUS
  <2>3. \A p : DOMAIN lined(p) = DOMAIN poline
    OBVIOUS
  <2> HIDE DEF lined
  <2> QED BY <2>1, <2>2, <2>3
<1> QED BY <1>1, <1>2, <1>3, LinesEdited

LEMMA GoodsInvNext == GoodsInv /\ [Next]_vars => GoodsInv'
<1> SUFFICES ASSUME GoodsInv, [Next]_vars PROVE GoodsInv'
  OBVIOUS
<1>1. CASE Elsewhere /\ UNCHANGED <<poline, goods>>
  <2>1. StrikesReceipts'
    BY <1>1, StrikesStay DEF Elsewhere
  <2> QED BY <1>1, <2>1, GoodsUnchanged
<1>2. CASE Purchasing \/ Receiving
  BY <1>2, PurchasingGoods, ReceivingGoods
<1>3. CASE Shelving
  BY <1>1, <1>3, ShelvingMoves
<1>4. CASE (SalesDesk \/ Pickers) /\ UNCHANGED stockroomVars
  BY <1>1, <1>4, DesksMove, PickersMove DEF Elsewhere, stockroomVars, desksVars
<1>5. CASE UNCHANGED <<request, stockroomVars>>
  BY <1>1, <1>5 DEF Elsewhere, stockroomVars, desksVars
<1>6. CASE Upstream
  <2>1. ASSUME NEW s \in Requests, NEW d, NEW v, NEW m, BeginPost(s, d, v, m) PROVE GoodsInv'
    <3>1. PICK x : x.op = "post" /\ request' = [request EXCEPT ![s] = x]
      BY <2>1 DEF BeginPost
    <3>2. StrikesReceipts'
      BY <3>1, StrikesStay
    <3> QED BY <2>1, <3>2, GoodsUnchanged DEF BeginPost, stockroomVars, desksVars
  <2>2. ASSUME NEW s \in Requests, NEW held, FinishSalesPost(s, held) PROVE GoodsInv'
    <3>1. request' = [request EXCEPT ![s] = Idle] /\ Idle.op = "none"
      BY <2>2 DEF FinishSalesPost, Idle
    <3>2. StrikesReceipts'
      BY <3>1, StrikesStay
    <3> QED BY <2>2, <3>2, GoodsUnchanged DEF FinishSalesPost, stockroomVars, desksVars
  <2>3. ASSUME NEW d, NEW v, NEW m, PostCancellation(d, v, m) PROVE GoodsInv'
    BY <1>5, <2>3 DEF PostCancellation
  <2>4. ASSUME NEW i, NEW b, NEW n, inventory_update(i, b, n) PROVE GoodsInv'
    BY <1>1, <2>4 DEF inventory_update, desksVars, Elsewhere
  <2>5. ASSUME NEW i, NEW b, NEW n, BeginUpdate(i, b, n) PROVE GoodsInv'
    BY <1>1, <2>5, Looks DEF Looking, desksVars, Elsewhere
  <2> QED BY <1>6, <2>1, <2>2, <2>3, <2>4, <2>5, PostedGoods DEF Upstream
<1> QED BY <1>2, <1>3, <1>4, <1>5, <1>6 DEF Next, vars, stockroomVars, desksVars

\* A purchase order never claims more units than its standing receipts, also when two
\* requests cancel one receipt, or the desk strikes it while a handheld cancels it.
THEOREM ReceivedCorrect == Spec => []ReceivedIsReceipted
<1>1. Init => GoodsInv
  BY GoodsInvInit
<1>2. GoodsInv /\ [Next]_vars => GoodsInv'
  BY GoodsInvNext
<1>3. GoodsInv => ReceivedIsReceipted
  BY DEF GoodsInv
<1> QED BY <1>1, <1>2, <1>3, PTL DEF Spec

-----------------------------------------------------------------------------
(***************************************************************************)
(* The lines of a posted order.  What the desks, the pickers and a cancel  *)
(* write to a line is never what it orders, so the lines stay those of the *)
(* newest version that had any until a newer one has some.                 *)
(***************************************************************************)
LineFields  == {"row", "ordered", "allocated", "picked", "packed", "shipped", "received"}
LineShape(rows) == DOMAIN rows = Lines /\ \A l \in Lines : DOMAIN rows[l] = LineFields
OrderShape(ord) == /\ DOMAIN ord = Orders
                   /\ \A o \in Orders : DOMAIN ord[o] = {"status", "kind", "parent", "voided"}
Tables(db) == /\ DOMAIN db = {"inv", "order", "line", "batch", "task"}
              /\ LineShape(db.line) /\ OrderShape(db.order)

Lasting(old, new) == \A o \in Orders : old[o].status # "NONE" => new[o].status # "NONE"
AsOrdered(new, old) == DOMAIN new = LineFields /\ new.row = old.row /\ new.ordered = old.ordered
Quiet(db, new) ==
  /\ Tables(new) /\ Lasting(db.order, new.order)
  /\ \A l \in Lines : AsOrdered(new.line[l], db.line[l])

LEMMA QuietTwice ==
  ASSUME NEW a, NEW b, NEW c, Quiet(a, b), Quiet(b, c)
  PROVE  Quiet(a, c)
  BY DEF Quiet, Lasting, AsOrdered

LEMMA QuietSame ==
  ASSUME NEW db, Tables(db)
  PROVE  Quiet(db, db)
  BY DEF Quiet, Tables, Lasting, AsOrdered, LineShape

LEMMA LineWritten ==
  ASSUME NEW row, DOMAIN row = LineFields
  PROVE  /\ AsOrdered(row, row)
         /\ \A q : AsOrdered([row EXCEPT !.allocated = q], row)
         /\ \A q : AsOrdered([row EXCEPT !.picked = q], row)
         /\ \A p, q : AsOrdered([row EXCEPT !.picked = p, !.allocated = q], row)
         /\ \A p, q : AsOrdered([row EXCEPT !.picked = p, !.packed = q], row)
  BY DEF AsOrdered, LineFields

\* a session in which only lines changed, and none in what it orders
LEMMA LinesQuiet ==
  ASSUME NEW db, Tables(db), NEW new, DOMAIN new = {"inv", "order", "line", "batch", "task"},
         new.order = db.order, DOMAIN new.line = Lines,
         \A l \in Lines : AsOrdered(new.line[l], db.line[l])
  PROVE  Quiet(db, new)
  BY DEF Quiet, Tables, Lasting, LineShape, AsOrdered

LEMMA NormaliseQuiet ==
  ASSUME NEW db, Tables(db), NEW standing
  PROVE  Quiet(db, _normalize_so_reservations(db, standing))
<1> DEFINE new == _normalize_so_reservations(db, standing)
<1>1. /\ DOMAIN new = {"inv", "order", "line", "batch", "task"} /\ new.order = db.order
      /\ new.line = [l \in Lines |-> IF l \in DOMAIN standing
                                     THEN [db.line[l] EXCEPT !.allocated = db.line[l].picked]
                                     ELSE db.line[l]]
  BY DEF Tables, _normalize_so_reservations
<1> HIDE DEF new
<1>2. \A l \in Lines : AsOrdered(new.line[l], db.line[l])
  BY <1>1 DEF Tables, LineShape, AsOrdered, LineFields
<1>3. Quiet(db, new)
  BY <1>1, <1>2, LinesQuiet
<1> QED BY <1>3 DEF new

LEMMA ReserveQuiet ==
  ASSUME NEW db, Tables(db), NEW taken, NEW T, NEW b, NEW u, NEW O
  PROVE  Quiet(db, Reserve(db, taken, T, b, u, O))
<1> DEFINE new == Reserve(db, taken, T, b, u, O)
           ofLine(l) == Total(taken, {x \in DOMAIN taken : x[1] = l})
<1>1. /\ DOMAIN new = {"inv", "order", "line", "batch", "task"} /\ new.order = db.order
      /\ new.line = [l \in Lines |-> [db.line[l] EXCEPT !.allocated = @ + ofLine(l)]]
  BY DEF Tables, Reserve
<1> HIDE DEF new, ofLine
<1>2. \A l \in Lines : AsOrdered(new.line[l], db.line[l])
  BY <1>1 DEF Tables, LineShape, AsOrdered, LineFields
<1>3. Quiet(db, new)
  BY <1>1, <1>2, LinesQuiet
<1> QED BY <1>3 DEF new

LEMMA RevertQuiet ==
  ASSUME NEW db, Tables(db), NEW B
  PROVE  Quiet(db, full_revert_batch(db, B))
<1> DEFINE new == full_revert_batch(db, B)
           T == {t \in db.task : /\ t.batch \in B /\ db.batch[t.batch].status = "OPEN"
                                 /\ t.status \in {"PENDING", "PICKED", "SHORT"}}
           picked(l) == Picked({t \in T : t.line = l})
           held(l) == Quantity({t \in T : t.line = l})
<1>1. /\ DOMAIN new = {"inv", "order", "line", "batch", "task"} /\ new.order = db.order
      /\ new.line = [l \in Lines |-> [db.line[l] EXCEPT !.picked = AtLeast0(@ - picked(l)),
                                                        !.allocated = AtLeast0(@ - held(l))]]
  BY DEF Tables, full_revert_batch
<1> HIDE DEF new, picked, held
<1>2. ASSUME NEW l \in Lines PROVE AsOrdered(new.line[l], db.line[l])
  <2> DEFINE p == AtLeast0(db.line[l].picked - picked(l))
             q == AtLeast0(db.line[l].allocated - held(l))
  <2>1. new.line[l] = [db.line[l] EXCEPT !.picked = p, !.allocated = q]
    BY <1>1 DEF Tables, LineShape, LineFields
  <2> HIDE DEF p, q
  <2> QED BY <2>1 DEF Tables, LineShape, AsOrdered, LineFields
<1>3. Quiet(db, new)
  BY <1>1, <1>2, LinesQuiet
<1> QED BY <1>3 DEF new

LEMMA PickQuiet ==
  ASSUME NEW db, Tables(db), NEW t, NEW q
  PROVE  Quiet(db, confirm_pick(db, t, q)) /\ Quiet(db, short_pick(db, t, q))
<1>1. ASSUME NEW new, NEW gain, DOMAIN new = {"inv", "order", "line", "batch", "task"},
             new.order = db.order, new.line = AddPicked(db, gain)
      PROVE  Quiet(db, new)
  <2>1. \A l \in Lines : AsOrdered(new.line[l], db.line[l])
    BY <1>1 DEF Tables, LineShape, AddPicked, AsOrdered, LineFields
  <2>2. DOMAIN new.line = Lines
    BY <1>1 DEF AddPicked
  <2> QED BY <1>1, <2>1, <2>2, LinesQuiet
<1>2. Quiet(db, confirm_pick(db, t, q))
  <2> DEFINE new == confirm_pick(db, t, q)
             gain == IF IsWaveTask(t) THEN Shared(db, t, t.share) ELSE [l \in {t.line} |-> q]
  <2>1. DOMAIN new = {"inv", "order", "line", "batch", "task"} /\ new.order = db.order /\ new.line = AddPicked(db, gain)
    BY DEF Tables, confirm_pick
  <2> HIDE DEF new, gain
  <2>2. Quiet(db, new)
    BY <1>1, <2>1
  <2> QED BY <2>2 DEF new
<1>3. Quiet(db, short_pick(db, t, q))
  <2> DEFINE new == short_pick(db, t, q)
             gain == IF IsWaveTask(t) THEN Shared(db, t, Given(t, q)) ELSE [l \in {t.line} |-> q]
  <2>1. DOMAIN new = {"inv", "order", "line", "batch", "task"} /\ new.order = db.order /\ new.line = AddPicked(db, gain)
    BY DEF Tables, short_pick
  <2> HIDE DEF new, gain
  <2>2. Quiet(db, new)
    BY <1>1, <2>1
  <2> QED BY <2>2 DEF new
<1> QED BY <1>2, <1>3

LEMMA UnwindQuiet ==
  ASSUME NEW db, Tables(db), NEW o
  PROVE  Quiet(db, _unwind_allocated(db, o)) /\ Quiet(db, _unwind_picked_or_packed(db, o))
<1>1. Quiet(db, _unwind_allocated(db, o))
  <2> DEFINE new == _unwind_allocated(db, o)
  <2>1. /\ DOMAIN new = {"inv", "order", "line", "batch", "task"} /\ new.order = db.order
        /\ new.line = [l \in Lines |-> IF l[1] = o THEN [db.line[l] EXCEPT !.allocated = 0]
                                       ELSE db.line[l]]
    BY DEF Tables, _unwind_allocated
  <2> HIDE DEF new
  <2>2. \A l \in Lines : AsOrdered(new.line[l], db.line[l])
    BY <2>1 DEF Tables, LineShape, AsOrdered, LineFields
  <2>3. Quiet(db, new)
    BY <2>1, <2>2, LinesQuiet
  <2> QED BY <2>3 DEF new
<1>2. Quiet(db, _unwind_picked_or_packed(db, o))
  <2> DEFINE new == _unwind_picked_or_packed(db, o)
  <2>1. /\ DOMAIN new = {"inv", "order", "line", "batch", "task"} /\ new.order = db.order
        /\ new.line = [l \in Lines |-> IF l[1] = o /\ db.line[l].picked > 0
                                       THEN [db.line[l] EXCEPT !.picked = 0, !.packed = 0]
                                       ELSE db.line[l]]
    BY DEF Tables, _unwind_picked_or_packed
  <2> HIDE DEF new
  <2>2. \A l \in Lines : AsOrdered(new.line[l], db.line[l])
    BY <2>1 DEF Tables, LineShape, AsOrdered, LineFields
  <2>3. Quiet(db, new)
    BY <2>1, <2>2, LinesQuiet
  <2> QED BY <2>3 DEF new
<1> QED BY <1>1, <1>2

LEMMA StatusQuiet ==
  ASSUME NEW db, Tables(db), NEW o, NEW s, s # "NONE"
  PROVE  Quiet(db, [db EXCEPT !.order[o].status = s])
<1> DEFINE new == [db EXCEPT !.order[o].status = s]
<1>1. /\ DOMAIN new = {"inv", "order", "line", "batch", "task"} /\ new.line = db.line
      /\ new.order = [db.order EXCEPT ![o].status = s]
  BY DEF Tables
<1> HIDE DEF new
<1>2. OrderShape(new.order) /\ Lasting(db.order, new.order)
  BY <1>1 DEF Tables, OrderShape, Lasting
<1>3. Quiet(db, new)
  BY <1>1, <1>2, LineWritten DEF Quiet, Tables, LineShape
<1> QED BY <1>3 DEF new

LEMMA CancelOneQuiet ==
  ASSUME NEW db, Tables(db), NEW o
  PROVE  Quiet(db, CancelOne(db, o))
<1> DEFINE unwound == CASE db.order[o].status = "OPEN"                -> _unwind_allocated(db, o)
                        [] db.order[o].status \in {"PICKED", "PACKED"} -> _unwind_picked_or_packed(db, o)
                        [] OTHER                                      -> db
<1>1. Quiet(db, unwound)
  BY QuietSame, UnwindQuiet
<1>2. CancelOne(db, o) = [unwound EXCEPT !.order[o].status = "CANCELLED"]
  BY DEF CancelOne
<1> HIDE DEF unwound
<1>3. Quiet(unwound, [unwound EXCEPT !.order[o].status = "CANCELLED"])
  BY <1>1, StatusQuiet DEF Quiet
<1>4. Quiet(db, [unwound EXCEPT !.order[o].status = "CANCELLED"])
  BY <1>1, <1>3, QuietTwice
<1> QED BY <1>2, <1>4

LEMMA CancelledQuiet ==
  ASSUME NEW db, Tables(db), NEW o
  PROVE  Quiet(db, Cancelled(db, o))
<1> DEFINE parent == CancelOne(db, o)
           c == Min(BackordersOf(parent, o))
<1>1. Quiet(db, parent)
  BY CancelOneQuiet
<1>2. Quiet(parent, CancelOne(parent, c))
  <2> HIDE DEF parent, c
  <2> QED BY <1>1, CancelOneQuiet DEF Quiet
<1>3. Quiet(db, CancelOne(parent, c))
  <2> HIDE DEF parent, c
  <2> QED BY <1>1, <1>2, QuietTwice
<1>4. Cancelled(db, o) = parent \/ Cancelled(db, o) = CancelOne(parent, c)
  BY DEF Cancelled
<1> QED BY <1>1, <1>3, <1>4

\* the backorders that a look has found are opened
LEMMA ReleasedLasts ==
  ASSUME OrderShape(order), NEW O
  PROVE  OrderShape(Released(O)) /\ Lasting(order, Released(O))
  BY DEF Released, OrderShape, Lasting

LinesLast(ord, old, new) == \A l \in Lines : ord[l[1]].status # "NONE" => AsOrdered(new[l], old[l])
Shaped == LineShape(line) /\ OrderShape(order)

\* a step that leaves what the lines order alone, and one that does not
Written == Shaped' /\ Lasting(order, order')
Calm    == Written /\ LinesLast(order, line, line')

LEMMA DbTables == Shaped <=> Tables(Db)
  BY DEF Shaped, Tables, Db

LEMMA CommitCalm ==
  ASSUME NEW new, Quiet(Db, new), Commit(new)
  PROVE  Calm
<1>1. order' = new.order /\ line' = new.line
  BY DEF Commit
<1>2. Db.order = order /\ Db.line = line
  BY DEF Db
<1> QED BY <1>1, <1>2 DEF Quiet, Tables, Calm, Written, Shaped, LinesLast, LineShape, OrderShape, Lasting

LEMMA StillCalm == Shaped /\ UNCHANGED <<order, line>> => Calm
  BY DEF Shaped, Calm, Written, Lasting, LinesLast, AsOrdered, LineShape, OrderShape

LEMMA LandCalm ==
  ASSUME Shaped, NEW op, NEW by, NEW rows, NEW q, NEW inv, Land(op, by, rows, q, inv) \/ Shelve(inv)
  PROVE  Calm
<1>1. CASE Shelve(inv)
  BY <1>1, StillCalm DEF Shelve
<1>2. CASE Land(op, by, rows, q, inv)
  <2>1. PICK O : order' = Released(O) /\ line' = line
    BY <1>2 DEF Land
  <2>2. OrderShape(order') /\ Lasting(order, order')
    BY <2>1, ReleasedLasts DEF Shaped
  <2> QED BY <2>1, <2>2 DEF Shaped, Calm, Written, LinesLast, AsOrdered, LineShape
<1> QED BY <1>1, <1>2

LEMMA ShelveCalm == \A inv : Shaped /\ Shelve(inv) => Calm
  BY StillCalm DEF Shelve

LEMMA LookCalm == Shaped /\ Looking => Calm
  BY StillCalm DEF Looking, orderVars

LEMMA ReceivingCalm ==
  ASSUME Shaped, Receiving
  PROVE  Calm
<1>1. ASSUME NEW p, NEW i, NEW q, NEW b, receive_items(p, i, q, b) PROVE Calm
  BY <1>1, LandCalm DEF receive_items
<1>2. ASSUME NEW r, NEW g, BeginCancelReceiving(r, g) \/ FinishCancelReceiving(r) \/ record_unreceive(g) PROVE Calm
  BY <1>2, ShelveCalm DEF BeginCancelReceiving, FinishCancelReceiving, record_unreceive
<1> QED BY <1>1, <1>2, Looks, LookCalm DEF Receiving

LEMMA ShelvingCalm ==
  ASSUME Shaped, Shelving
  PROVE  Calm
<1>1. ASSUME NEW r, NEW i, NEW from, NEW to, NEW q,
             \/ move(i, from, to, q) \/ BeginTransfer(r, i, from, to, q) \/ FinishTransfer(r)
             \/ direct_adjustment(i, from, q)
      PROVE  Calm
  BY <1>1, LandCalm, ShelveCalm DEF move, BeginTransfer, FinishTransfer, direct_adjustment
<1>2. ASSUME NEW r, NEW c, NEW x,
             \/ create_cycle_count(c, x) \/ submit_cycle_count(c, x) \/ BeginReview(r, x)
             \/ FinishReview(r) \/ reject_adjustment(x)
      PROVE  Calm
  BY <1>2, LandCalm, ShelveCalm
     DEF create_cycle_count, submit_cycle_count, BeginReview, FinishReview, reject_adjustment
<1> QED BY <1>1, <1>2, Looks, LookCalm DEF Shelving

\* an order is entered; whether it was there before or not, no other order changes
LEMMA EntryCalm ==
  ASSUME Shaped, NEW o, NEW cart, create_sales_order(o, cart)
  PROVE  Calm
<1> DEFINE new == Entered(Db, o, cart)
<1>1. o \in Orders /\ order[o].status = "NONE" /\ Commit(new)
  BY DEF create_sales_order, FreshOrder, Unborn
<1>2. /\ new.order = [order EXCEPT ![o] = [NoOrder EXCEPT !.status = "OPEN"]]
      /\ new.line = [l \in Lines |->
                       IF l[1] = o /\ l[2] \in DOMAIN cart
                       THEN [NewLine(cart[l[2]]) EXCEPT !.allocated = Reserved(Db.inv, l[2], cart[l[2]])]
                       ELSE line[l]]
  BY DEF Entered, Db
<1> HIDE DEF new
<1>3. order' = new.order /\ line' = new.line
  BY <1>1 DEF Commit
<1>4. OrderShape(order') /\ Lasting(order, order')
  BY <1>2, <1>3 DEF Shaped, OrderShape, Lasting, NoOrder
<1>5. LineShape(line')
  <2>1. \A q, n : DOMAIN [NewLine(q) EXCEPT !.allocated = n] = LineFields
    BY DEF NewLine, NoLine, LineFields
  <2> QED BY <1>2, <1>3, <2>1 DEF Shaped, LineShape
<1>6. LinesLast(order, line, line')
  BY <1>1, <1>2, <1>3 DEF LinesLast, AsOrdered, Shaped, LineShape
<1> QED BY <1>4, <1>5, <1>6 DEF Calm, Written, Shaped

LEMMA PartialWritten ==
  ASSUME Shaped, NEW l \in Lines, NEW q, NEW bo, partial_fulfill_sales_order(l, q, bo)
  PROVE  Written
<1> DEFINE left == line[l].ordered - q
           db1 == IF left = 0 THEN DeleteLine(Db, l) ELSE [Db EXCEPT !.line[l].ordered = left]
           inv == take_floored(db1.inv, l[2], FullestBin(l[2]), WrittenOff(l[2], q))
           db2 == [db1 EXCEPT !.inv = inv]
           new == WithBackorderFor(db2, l, q, bo)
<1>1. Commit(new) /\ bo \in Orders
  BY DEF partial_fulfill_sales_order, FreshOrder, Unborn
<1>2. db1.order = order /\ LineShape(db1.line) /\ DOMAIN db1 = {"inv", "order", "line", "batch", "task"}
  BY DEF DeleteLine, Db, Shaped, LineShape, GoneLine, NoLine, LineFields
<1> HIDE DEF db1, inv
<1>3. db2.order = order /\ LineShape(db2.line) /\ DOMAIN db2 = {"inv", "order", "line", "batch", "task"}
  BY <1>2
<1> HIDE DEF db2
<1>4. new.order = [order EXCEPT ![bo] = [NoOrder EXCEPT !.status = "WAITING_STOCK", !.kind = "backorder", !.parent = l[1]]]
  BY <1>3 DEF WithBackorderFor
<1>5. LineShape(new.line)
  <2>1. new.line = [db2.line EXCEPT ![<<bo, l[2]>>] = NewLine(q)]
    BY <1>3 DEF WithBackorderFor
  <2>2. DOMAIN NewLine(q) = LineFields
    BY DEF NewLine, NoLine, LineFields
  <2> QED BY <1>3, <2>1, <2>2 DEF LineShape
<1> HIDE DEF new
<1>6. order' = new.order /\ line' = new.line
  BY <1>1 DEF Commit
<1>7. OrderShape(order') /\ Lasting(order, order')
  BY <1>1, <1>4, <1>6 DEF Shaped, OrderShape, Lasting, NoOrder
<1> QED BY <1>5, <1>6, <1>7 DEF Written, Shaped

LEMMA SalesDeskWrites ==
  ASSUME Shaped, SalesDesk
  PROVE  Calm \/ (Does("partial") /\ Written)
<1>1. ASSUME NEW o, NEW cart, create_sales_order(o, cart) PROVE Calm
  BY <1>1, EntryCalm
<1>2. ASSUME NEW o, cancel_sales_order(o) PROVE Calm
  <2>1. Quiet(Db, Cancelled(Db, o)) /\ Commit(Cancelled(Db, o))
    BY <1>2, DbTables, CancelledQuiet DEF cancel_sales_order
  <2> QED BY <2>1, CommitCalm
<1>3. ASSUME NEW l \in Lines, NEW q, NEW bo, partial_fulfill_sales_order(l, q, bo) PROVE Written
  BY <1>3, PartialWritten
<1> QED BY <1>1, <1>2, <1>3 DEF SalesDesk

LEMMA PickersCalm ==
  ASSUME Shaped, Pickers
  PROVE  Calm
<1>1. ASSUME NEW r, NEW u, NEW O, BeginCreate(r, "wave", u, O) PROVE Calm
  BY <1>1, StillCalm DEF BeginCreate, Unchanged
<1>2. ASSUME NEW r, FinishCreate(r) PROVE Calm
  <2> DEFINE db1 == Normalised(Db, request[r])
  <2>1. PICK b : Create(Db, request[r], b)
    BY <1>2 DEF FinishCreate
  <2>2. PICK taken, T, u, O : Commit(Reserve(db1, taken, T, b, u, O))
    BY <2>1 DEF Create
  <2>3. Quiet(Db, db1)
    BY DbTables, NormaliseQuiet DEF Normalised
  <2> HIDE DEF db1
  <2>4. Quiet(db1, Reserve(db1, taken, T, b, u, O))
    BY <2>3, ReserveQuiet DEF Quiet
  <2>5. Quiet(Db, Reserve(db1, taken, T, b, u, O))
    BY <2>3, <2>4, QuietTwice
  <2> QED BY <2>2, <2>5, CommitCalm
<1>3. ASSUME NEW B, Commit(full_revert_batch(Db, B)) PROVE Calm
  BY <1>3, DbTables, RevertQuiet, CommitCalm
<1>4. ASSUME NEW r, RefuseCreate(r) PROVE Calm
  <2>1. Unchanged \/ \E b : Commit(full_revert_batch(Db, {b}))
    BY <1>4 DEF RefuseCreate
  <2> QED BY <1>3, <2>1, StillCalm DEF Unchanged
<1>5. ASSUME NEW r, ApplyPick(r) PROVE Calm
  <2> DEFINE t == request[r].task
             q == request[r].q
  <2>1. Commit(confirm_pick(Db, t, q)) \/ Commit(short_pick(Db, t, q))
    BY <1>5 DEF ApplyPick
  <2>2. Quiet(Db, confirm_pick(Db, t, q)) /\ Quiet(Db, short_pick(Db, t, q))
    BY DbTables, PickQuiet
  <2> QED BY <2>1, <2>2, CommitCalm
<1>6. ASSUME NEW r, NEW t, NEW q, LoadTask(r, "confirm", t, q) PROVE Calm
  BY <1>6, StillCalm DEF LoadTask, Unchanged
<1>7. ASSUME NEW b, complete_batch(b) PROVE Calm
  <2>1. line' = line /\ order' = [o \in Orders |-> IF o \in batch[b].orders
                                    THEN [order[o] EXCEPT !.status = "PICKED"] ELSE order[o]]
    BY <1>7 DEF complete_batch
  <2>2. OrderShape(order') /\ Lasting(order, order')
    BY <2>1 DEF Shaped, OrderShape, Lasting
  <2> QED BY <2>1, <2>2 DEF Shaped, Calm, Written, LinesLast, AsOrdered, LineShape
<1>8. ASSUME NEW b, cancel_batch(b) PROVE Calm
  BY <1>3, <1>8 DEF cancel_batch
<1>9. ASSUME NEW r, PlanWave(r) PROVE Calm
  BY <1>9, StillCalm DEF PlanWave, Unchanged
<1> QED BY <1>1, <1>2, <1>4, <1>5, <1>6, <1>7, <1>8, <1>9 DEF Pickers

-----------------------------------------------------------------------------
(* Documents of one type, and the days they are posted on. *)
PostedCart(c) == \E I \in SUBSET Items : c \in [I -> Nat]
Posted(m) == PostedCart(m.cart) /\ m.status \in {NULL, "OPEN", "CANCELLED"}

\* each stands for one order, and an order for at most one document
Mapped(D) ==
  /\ DOMAIN canonical = Docs
  /\ \A d, e \in D : canonical[d] # NULL /\ canonical[d] = canonical[e] => d = e

\* a document that was posted has its order
RowsAre(D, op) ==
  \A d \in D, x \in inbound : x.doc = d =>
    canonical[d] # NULL /\ Does(op) /\ PostedCart(x.message.cart)
PostsAre(D, op) ==
  /\ DOMAIN request = Requests /\ desk \in Desks
  /\ \A r \in Requests, d \in D : Posts(r, d) => Does(op) /\ Posted(request[r].message)

\* the row of the newest version that has lines
Newest(d, x) == /\ x \in inbound /\ x.doc = d /\ DOMAIN x.message.cart # {}
                /\ \A y \in inbound : y.doc = d /\ DOMAIN y.message.cart # {} => y.version <= x.version

\* what the recording of a newer version makes the newest lines
LEMMA RecordedNewest ==
  ASSUME InboundRows, NEW d \in Docs, NEW v \in Nat, NEW m, Recorded(d, v, m),
         \A x \in RowsOf(d) : x.version < v
  PROVE  /\ \A x \in inbound' : x.doc # d => x \in inbound
         /\ \A x \in inbound' : x.doc = d => x.message = m \/ \E y \in inbound : y.doc = d /\ y.message = x.message
         /\ \A e, x : e # d /\ Newest(e, x)' => Newest(e, x)
         /\ \A x : Newest(d, x)' => IF DOMAIN m.cart = {} THEN \E y : Newest(d, y) /\ y.message = x.message
                                    ELSE x.message = m
<1> DEFINE row == InboundRow(d, v, m)
           kept(x) == IF x \in Applied(d) THEN [x EXCEPT !.status = "superseded"] ELSE x
<1>1. inbound' = {kept(x) : x \in inbound} \cup {row}
  BY DEF Recorded, Superseded
<1>2. row.doc = d /\ row.version = v /\ row.message = m
  BY DEF InboundRow
<1>3. \A x \in inbound : /\ kept(x).doc = x.doc /\ kept(x).version = x.version /\ kept(x).message = x.message
                         /\ x.doc # d => kept(x) = x
  BY DEF InboundRows, Applied, RowsOf
<1>4. \A x \in inbound : x.version \in Nat /\ (x.doc = d => x.version < v)
  BY DEF InboundRows, RowsOf
<1> HIDE DEF row, kept
<1>5. \A x \in inbound' : x.doc # d => x \in inbound
  BY <1>1, <1>2, <1>3
<1>6. \A x \in inbound' : x = row \/ \E y \in inbound : x = kept(y)
  BY <1>1
<1>7. \A x \in inbound : kept(x) \in inbound'
  BY <1>1
<1>8. row \in inbound'
  BY <1>1
<1>9. \A x \in inbound' : x.doc = d => x.message = m \/ \E y \in inbound : y.doc = d /\ y.message = x.message
  BY <1>2, <1>3, <1>6
<1>10. ASSUME NEW e, NEW x, e # d, Newest(e, x)' PROVE Newest(e, x)
  <2>1. x \in inbound
    BY <1>5, <1>10 DEF Newest
  <2>2. \A y \in inbound : y.doc = e => y \in inbound'
    BY <1>3, <1>7, <1>10
  <2> QED BY <1>10, <2>1, <2>2 DEF Newest
<1>11. ASSUME NEW x, Newest(d, x)', DOMAIN m.cart = {}
       PROVE  \E y : Newest(d, y) /\ y.message = x.message
  <2>1. x # row
    BY <1>2, <1>11 DEF Newest
  <2>2. PICK y \in inbound : x = kept(y)
    BY <1>6, <1>11, <2>1 DEF Newest
  <2>3. \A z \in inbound : z.doc = d /\ DOMAIN z.message.cart # {} => z.version <= y.version
    BY <1>3, <1>7, <1>11, <2>2 DEF Newest
  <2>4. Newest(d, y) /\ y.message = x.message
    BY <1>3, <1>11, <2>2, <2>3 DEF Newest
  <2> QED BY <2>4
<1>12. ASSUME NEW x, Newest(d, x)', DOMAIN m.cart # {}
       PROVE  x.message = m
  <2>1. v <= x.version
    BY <1>2, <1>8, <1>12 DEF Newest
  <2>2. ASSUME NEW y \in inbound, x = kept(y) PROVE FALSE
    <3>1. y.doc = d /\ y.version = x.version
      BY <1>3, <1>12, <2>2 DEF Newest
    <3> QED BY <1>4, <2>1, <3>1
  <2>3. x = row
    BY <1>6, <1>12, <2>2 DEF Newest
  <2> QED BY <1>2, <2>3
<1> QED BY <1>5, <1>9, <1>10, <1>11, <1>12

\* the lines of a message
LEMMA CartsPosted ==
  ASSUME desk \in Desks, NEW m \in Messages \cup Cancellations
  PROVE  Posted(m)
<1>1. Quantities \subseteq Nat
  BY OrderedAssumption DEF Quantities
<1>2. m.cart = [i \in {} |-> 0] \/ m.cart \in Carts
  BY DEF Messages, Cancellations
<1> SUFFICES PostedCart(m.cart)
  BY DEF Posted, Messages, Cancellations
<1>3. CASE m.cart = [i \in {} |-> 0]
  BY <1>3 DEF PostedCart
<1>4. CASE m.cart \in Carts
  <2>1. PICK I \in SUBSET desk.items : m.cart \in [I -> Quantities]
    BY <1>4 DEF Carts
  <2>2. I \in SUBSET Items /\ m.cart \in [I -> Nat]
    BY <1>1, <2>1, DesksAssumption
  <2> QED BY <2>2 DEF PostedCart
<1> QED BY <1>2, <1>3, <1>4

\* what each step does to the requests
LEMMA RequestsMove ==
  ASSUME [Next]_vars, DOMAIN request = Requests
  PROVE  \/ UNCHANGED request
         \/ \E r \in Requests : \E m : m.op # "post" /\ request' = [request EXCEPT ![r] = m]
         \/ \E r \in Requests, v \in Versions, m \in Messages \cup Cancellations :
              \/ \E d \in SalesDocs : Does("feed") /\ BeginPost(r, d, v, m)
              \/ \E d \in PurchaseDocs : Does("feed_po") /\ BeginPost(r, d, v, m)
<1> DEFINE Ends == \E r \in Requests : \E m : m.op # "post" /\ request' = [request EXCEPT ![r] = m]
           Begins == \E r \in Requests, v \in Versions, m \in Messages \cup Cancellations :
                        \/ \E d \in SalesDocs : Does("feed") /\ BeginPost(r, d, v, m)
                        \/ \E d \in PurchaseDocs : Does("feed_po") /\ BeginPost(r, d, v, m)
<1> SUFFICES UNCHANGED request \/ Ends \/ Begins
  OBVIOUS
<1> HIDE DEF Ends, Begins
<1>1. Elsewhere => UNCHANGED request \/ Ends
  BY DEF Elsewhere, Ends
<1>2. CASE Purchasing \/ SalesDesk
  BY <1>2, DesksMove
<1>3. CASE Shelving \/ Pickers
  BY <1>1, <1>3, ShelvingMoves, PickersMove DEF Ends
<1>4. ASSUME NEW r \in Requests, request' = [request EXCEPT ![r] = Idle] PROVE Ends
  BY <1>4 DEF Ends, Idle
<1>5. CASE Receiving
  <2>1. ASSUME NEW p, NEW i, NEW q, NEW b, NEW g, receive_items(p, i, q, b) \/ record_unreceive(g)
        PROVE  UNCHANGED request
    BY <2>1 DEF receive_items, record_unreceive
  <2>2. ASSUME NEW p, NEW i, NEW q, NEW b, BeginReceipt(p, i, q, b) PROVE UNCHANGED request
    BY <2>2, Looks DEF Looking
  <2>3. ASSUME NEW r \in Requests, NEW g, BeginCancelReceiving(r, g) PROVE Ends
    <3>1. PICK m : m.op = "cancel_receiving" /\ request' = [request EXCEPT ![r] = m]
      BY <2>3 DEF BeginCancelReceiving
    <3> QED BY <3>1 DEF Ends
  <2>4. ASSUME NEW r \in Requests, FinishCancelReceiving(r) PROVE Ends
    BY <1>4, <2>4 DEF FinishCancelReceiving
  <2> QED BY <1>5, <2>1, <2>2, <2>3, <2>4 DEF Receiving, Ends
<1>6. CASE Upstream
  <2>1. ASSUME NEW r \in Requests, NEW held, FinishSalesPost(r, held) \/ FinishPurchasePost(r) PROVE Ends
    BY <1>4, <2>1 DEF FinishSalesPost, FinishPurchasePost
  <2>2. ASSUME NEW d, NEW v, NEW m, NEW i, NEW b, NEW n,
               PostCancellation(d, v, m) \/ inventory_update(i, b, n) \/ BeginUpdate(i, b, n)
        PROVE  UNCHANGED request
    BY <2>2, Looks DEF PostCancellation, inventory_update, Looking
  <2>3. ASSUME NEW r \in Requests, NEW v \in Versions, NEW m \in Messages \cup Cancellations,
               \/ \E d \in SalesDocs : Does("feed") /\ BeginPost(r, d, v, m)
               \/ \E d \in PurchaseDocs : Does("feed_po") /\ BeginPost(r, d, v, m)
        PROVE  Begins
    BY <2>3 DEF Begins
  <2> QED BY <1>6, <2>1, <2>2, <2>3 DEF Upstream, Ends, Begins
<1>7. CASE UNCHANGED request
  BY <1>7
<1>8. Next => \/ Purchasing \/ Receiving \/ Shelving \/ SalesDesk \/ Pickers \/ Upstream
              \/ UNCHANGED request
  BY DEF Next
<1> QED BY <1>2, <1>3, <1>5, <1>6, <1>7, <1>8 DEF vars

LEMMA PostsStayTyped ==
  ASSUME PostsAre(SalesDocs, "feed"), PostsAre(PurchaseDocs, "feed_po"), [Next]_vars
  PROVE  PostsAre(SalesDocs, "feed")' /\ PostsAre(PurchaseDocs, "feed_po")'
<1>1. desk' = desk
  BY DEF Next, vars
<1>2. CASE UNCHANGED request
  BY <1>1, <1>2 DEF PostsAre, Posts, Does, Posted, PostedCart
<1>3. ASSUME NEW r \in Requests, NEW m, m.op # "post", request' = [request EXCEPT ![r] = m]
      PROVE  PostsAre(SalesDocs, "feed")' /\ PostsAre(PurchaseDocs, "feed_po")'
  BY <1>1, <1>3 DEF PostsAre, Posts, Does, Posted, PostedCart
<1>4. ASSUME NEW r \in Requests, NEW d, NEW v, NEW m \in Messages \cup Cancellations, BeginPost(r, d, v, m),
             \/ d \in SalesDocs /\ Does("feed")
             \/ d \in PurchaseDocs /\ Does("feed_po")
      PROVE  PostsAre(SalesDocs, "feed")' /\ PostsAre(PurchaseDocs, "feed_po")'
  <2>1. request' = [request EXCEPT ![r] = [op |-> "post", doc |-> d, version |-> v, message |-> m]]
    BY <1>4 DEF BeginPost
  <2>2. Posted(m)
    BY CartsPosted DEF PostsAre
  <2>3. \A s \in Requests : \A e : Posts(s, e)' => (s = r /\ e = d /\ request'[s].message = m)
                                               \/ (Posts(s, e) /\ request'[s] = request[s])
    BY <2>1 DEF Posts, PostsAre
  <2>4. ASSUME NEW D, NEW op, PostsAre(D, op), d \in D => Does(op) PROVE PostsAre(D, op)'
    <3>1. \A s \in Requests, e \in D : Posts(s, e)' => Does(op) /\ Posted(request'[s].message)
      BY <1>4, <2>2, <2>3, <2>4 DEF PostsAre
    <3> QED BY <1>1, <2>1, <2>4, <3>1 DEF PostsAre, Does, Posted, PostedCart
  <2>5. ~ (d \in SalesDocs /\ d \in PurchaseDocs)
    BY DocsAssumption
  <2>6. (d \in SalesDocs => Does("feed")) /\ (d \in PurchaseDocs => Does("feed_po"))
    BY <1>4, <2>5
  <2> QED BY <2>4, <2>6
<1> QED BY <1>2, <1>3, <1>4, RequestsMove DEF PostsAre

-----------------------------------------------------------------------------
(* Sales orders *)
SalesCart(o) == [i \in {l[2] : l \in LinesIn(Db, o)} |-> line[<<o, i>>].ordered]
OrdersThere  == \A d \in SalesDocs : canonical[d] # NULL =>
                  canonical[d] \in Orders /\ order[canonical[d]].status # "NONE"
SalesLines   == \A d \in SalesDocs, x \in inbound : Newest(d, x) => x.message.cart = SalesCart(canonical[d])

PostsTyped == PostsAre(SalesDocs, "feed") /\ PostsAre(PurchaseDocs, "feed_po")
SalesInv ==
  /\ Shaped /\ PostsTyped /\ Mapped(SalesDocs) /\ OrdersThere /\ RowsAre(SalesDocs, "feed")
  /\ LinesLeftAlone => SalesLines

LEMMA SalesCartKept ==
  ASSUME NEW o, \A l \in Lines : l[1] = o => AsOrdered(line'[l], line[l])
  PROVE  SalesCart(o)' = SalesCart(o)
<1>1. LinesIn(Db, o)' = {l \in Lines : line'[l].row = "live" /\ l[1] = o}
  BY DEF LinesIn, LiveLines, Db
<1>2. LinesIn(Db, o) = {l \in Lines : line[l].row = "live" /\ l[1] = o}
  BY DEF LinesIn, LiveLines, Db
<1>3. LinesIn(Db, o)' = LinesIn(Db, o)
  BY <1>1, <1>2 DEF AsOrdered
<1>4. ASSUME NEW i \in {l[2] : l \in LinesIn(Db, o)}
      PROVE  line'[<<o, i>>].ordered = line[<<o, i>>].ordered
  <2>1. PICK l \in LinesIn(Db, o) : i = l[2]
    OBVIOUS
  <2>2. l \in Lines /\ l = <<o, i>>
    BY <1>2, <2>1 DEF Lines
  <2> QED BY <2>2 DEF AsOrdered
<1> QED BY <1>3, <1>4 DEF SalesCart

\* the lines of an order that were just replaced
LEMMA SalesCartPosted ==
  ASSUME NEW o \in Orders, NEW cart, PostedCart(cart),
         \A l \in Lines : l[1] = o => /\ line'[l].row = "live" <=> l[2] \in DOMAIN cart
                                      /\ l[2] \in DOMAIN cart => line'[l].ordered = cart[l[2]]
  PROVE  SalesCart(o)' = cart
<1>1. PICK I \in SUBSET Items : cart \in [I -> Nat]
  BY DEF PostedCart
<1>2. LinesIn(Db, o)' = {l \in Lines : line'[l].row = "live" /\ l[1] = o}
  BY DEF LinesIn, LiveLines, Db
<1>3. \A l \in Lines : l = <<l[1], l[2]>> /\ l[2] \in Items
  BY DEF Lines
<1>4. \A i \in I : <<o, i>> \in Lines
  BY DEF Lines
<1>5. \A l \in LinesIn(Db, o)' : l[2] \in I
  BY <1>1, <1>2
<1>6. \A i \in I : <<o, i>> \in LinesIn(Db, o)'
  BY <1>1, <1>2, <1>4
<1>7. {l[2] : l \in LinesIn(Db, o)'} = I
  <2>1. \A i \in I : \E l \in LinesIn(Db, o)' : l[2] = i
    BY <1>6
  <2> QED BY <1>5, <2>1
<1>8. \A i \in I : line'[<<o, i>>].ordered = cart[i]
  BY <1>1, <1>4
<1> QED BY <1>1, <1>7, <1>8 DEF SalesCart

LEMMA SalesStep ==
  ASSUME SalesInv, desk' = desk, Written, PostsTyped', Mapped(SalesDocs)', OrdersThere',
         RowsAre(SalesDocs, "feed")',
         \A d \in SalesDocs, x \in inbound' : LinesLeftAlone /\ Newest(d, x)' =>
            \/ x.message.cart = SalesCart(canonical[d])'
            \/ /\ canonical'[d] = canonical[d]
               /\ \E y \in inbound : Newest(d, y) /\ y.message = x.message
               /\ \A l \in Lines : l[1] = canonical[d] => AsOrdered(line'[l], line[l])
  PROVE  SalesInv'
<1>1. LinesLeftAlone' = LinesLeftAlone
  BY DEF LinesLeftAlone, Does
<1>2. ASSUME NEW d \in SalesDocs, NEW x \in inbound', LinesLeftAlone, Newest(d, x)'
      PROVE  x.message.cart = SalesCart(canonical[d])'
  <2>1. CASE x.message.cart = SalesCart(canonical[d])'
    BY <2>1
  <2>2. CASE /\ canonical'[d] = canonical[d]
             /\ \E y \in inbound : Newest(d, y) /\ y.message = x.message
             /\ \A l \in Lines : l[1] = canonical[d] => AsOrdered(line'[l], line[l])
    <3>1. PICK o : o = canonical[d]
      OBVIOUS
    <3>2. SalesCart(o)' = SalesCart(o)
      BY <2>2, <3>1, SalesCartKept
    <3>3. SalesCart(canonical[d])' = SalesCart(o)' /\ SalesCart(canonical[d]) = SalesCart(o)
      BY <2>2, <3>1 DEF SalesCart
    <3> QED BY <1>2, <2>2, <3>2, <3>3 DEF SalesInv, SalesLines
  <2> QED BY <1>2, <2>1, <2>2
<1> QED BY <1>1, <1>2 DEF SalesInv, SalesLines, Written

\* nobody posts
LEMMA SalesAway ==
  ASSUME SalesInv, UNCHANGED <<inboundVars, desk>>, PostsTyped', Calm \/ (Does("partial") /\ Written)
  PROVE  SalesInv'
<1>1. Written /\ inbound' = inbound /\ canonical' = canonical /\ desk' = desk
  BY DEF Calm, inboundVars
<1>2. Mapped(SalesDocs)' /\ RowsAre(SalesDocs, "feed")'
  BY <1>1 DEF SalesInv, Mapped, RowsAre, Does
<1>3. OrdersThere'
  BY <1>1 DEF SalesInv, OrdersThere, Written, Lasting
<1>4. \A d, x : Newest(d, x)' => Newest(d, x)
  BY <1>1 DEF Newest
<1>5. ASSUME NEW d \in SalesDocs, NEW x \in inbound', LinesLeftAlone, Newest(d, x)'
      PROVE  \A l \in Lines : l[1] = canonical[d] => AsOrdered(line'[l], line[l])
  <2>1. x \in inbound /\ x.doc = d
    BY <1>1, <1>5 DEF Newest
  <2>2. canonical[d] # NULL /\ Does("feed")
    BY <2>1 DEF SalesInv, RowsAre
  <2>3. Calm /\ order[canonical[d]].status # "NONE"
    BY <1>5, <2>2 DEF LinesLeftAlone, SalesInv, OrdersThere
  <2> QED BY <2>3 DEF Calm, LinesLast
<1> QED BY <1>1, <1>2, <1>3, <1>4, <1>5, SalesStep

\* the lines of an order, and only they, are replaced by those of a message that has some
LinesReplaced(new, db, o, cart) ==
  /\ Tables(new) /\ new.order = db.order
  /\ DOMAIN cart = {} => new = db
  /\ \A l \in Lines : l[1] # o => AsOrdered(new.line[l], db.line[l])
  /\ DOMAIN cart # {} =>
       \A l \in Lines : l[1] = o => /\ new.line[l].row = "live" <=> l[2] \in DOMAIN cart
                                    /\ l[2] \in DOMAIN cart => new.line[l].ordered = cart[l[2]]

LEMMA RelinedLines ==
  ASSUME NEW db, Tables(db), NEW o, NEW cart
  PROVE  LinesReplaced(Relined(db, o, cart), db, o, cart)
<1> DEFINE new == Relined(db, o, cart)
<1> SUFFICES LinesReplaced(new, db, o, cart)
  OBVIOUS
<1>1. CASE DOMAIN cart = {}
  BY <1>1 DEF Relined, Tables, LineShape, AsOrdered, LinesReplaced
<1>2. CASE DOMAIN cart # {}
  <2>1. /\ DOMAIN new = {"inv", "order", "line", "batch", "task"} /\ new.order = db.order
        /\ new.line = [l \in Lines |-> CASE l[1] = o /\ l[2] \in DOMAIN cart -> NewLine(cart[l[2]])
                                         [] l \in LinesIn(db, o) /\ l[2] \notin DOMAIN cart -> GoneLine
                                         [] OTHER -> db.line[l]]
    BY <1>2 DEF Relined, Tables
  <2> HIDE DEF new
  <2>2. \A q : DOMAIN NewLine(q) = LineFields /\ NewLine(q).row = "live" /\ NewLine(q).ordered = q
    BY DEF NewLine, NoLine, LineFields
  <2>3. DOMAIN GoneLine = LineFields /\ GoneLine.row = "gone"
    BY DEF GoneLine, NoLine, LineFields
  <2>4. \A l \in Lines : l \in LinesIn(db, o) <=> l[1] = o /\ db.line[l].row = "live"
    BY DEF LinesIn, LiveLines
  <2>5. \A l \in Lines : \/ l[1] = o /\ l[2] \in DOMAIN cart /\ new.line[l] = NewLine(cart[l[2]])
                         \/ l[1] = o /\ l[2] \notin DOMAIN cart /\ db.line[l].row = "live" /\ new.line[l] = GoneLine
                         \/ l[1] = o /\ l[2] \notin DOMAIN cart /\ db.line[l].row # "live" /\ new.line[l] = db.line[l]
                         \/ l[1] # o /\ new.line[l] = db.line[l]
    BY <2>1, <2>4
  <2>6. Tables(new)
    BY <2>1, <2>2, <2>3, <2>5 DEF Tables, LineShape
  <2>7. \A l \in Lines : l[1] # o => AsOrdered(new.line[l], db.line[l])
    BY <2>5 DEF AsOrdered, Tables, LineShape
  <2>8. \A l \in Lines : l[1] = o => /\ new.line[l].row = "live" <=> l[2] \in DOMAIN cart
                                     /\ l[2] \in DOMAIN cart => new.line[l].ordered = cart[l[2]]
    BY <2>2, <2>3, <2>5
  <2>9. Tables(new) /\ new.order = db.order
    BY <2>1, <2>6
  <2> QED BY <1>2, <2>7, <2>8, <2>9 DEF LinesReplaced
<1> QED BY <1>1, <1>2

\* a post or a cancellation of document d, of which the order o holds the lines
LEMMA SalesPosted ==
  ASSUME SalesInv, InboundRows, desk' = desk, PostsTyped', Does("feed"),
         NEW d \in SalesDocs, NEW v \in Nat, NEW m, PostedCart(m.cart), Recorded(d, v, m),
         \A x \in RowsOf(d) : x.version < v,
         NEW o \in Orders,
         \/ canonical[d] = o /\ canonical' = canonical
         \/ canonical[d] = NULL /\ order[o].status = "NONE" /\ canonical' = [canonical EXCEPT ![d] = o],
         Written, order'[o].status # "NONE",
         \A l \in Lines : l[1] # o => AsOrdered(line'[l], line[l]),
         DOMAIN m.cart = {} => \A l \in Lines : AsOrdered(line'[l], line[l]),
         DOMAIN m.cart # {} =>
           \A l \in Lines : l[1] = o => /\ line'[l].row = "live" <=> l[2] \in DOMAIN m.cart
                                        /\ l[2] \in DOMAIN m.cart => line'[l].ordered = m.cart[l[2]]
  PROVE  SalesInv'
<1>1. d \in Docs /\ o # NULL /\ NULL \notin Orders
  BY DocsAssumption DEF Docs
<1>2. canonical'[d] = o /\ DOMAIN canonical' = Docs /\ \A e \in SalesDocs : e # d => canonical'[e] = canonical[e]
  BY <1>1 DEF SalesInv, Mapped, Docs
<1>3. \A e \in SalesDocs : e # d /\ canonical[e] # NULL => canonical[e] # o
  BY DEF SalesInv, Mapped, OrdersThere
<1>4. Mapped(SalesDocs)'
  BY <1>1, <1>2, <1>3 DEF SalesInv, Mapped
<1>5. OrdersThere'
  BY <1>2 DEF SalesInv, OrdersThere, Written, Lasting
<1>6. /\ \A x \in inbound' : x.doc # d => x \in inbound
      /\ \A x \in inbound' : x.doc = d => x.message = m \/ \E y \in inbound : y.doc = d /\ y.message = x.message
      /\ \A e, x : e # d /\ Newest(e, x)' => Newest(e, x)
      /\ \A x : Newest(d, x)' => IF DOMAIN m.cart = {} THEN \E y : Newest(d, y) /\ y.message = x.message
                                 ELSE x.message = m
  BY <1>1, RecordedNewest
<1>7. RowsAre(SalesDocs, "feed")'
  <2>1. \A x \in inbound' : x.doc = d => PostedCart(x.message.cart)
    BY <1>6 DEF SalesInv, RowsAre
  <2> QED BY <1>1, <1>2, <1>6, <2>1 DEF SalesInv, RowsAre, Does, PostedCart
<1>8. ASSUME NEW e \in SalesDocs, NEW x \in inbound', LinesLeftAlone, Newest(e, x)'
      PROVE  \/ x.message.cart = SalesCart(canonical[e])'
             \/ /\ canonical'[e] = canonical[e]
                /\ \E y \in inbound : Newest(e, y) /\ y.message = x.message
                /\ \A l \in Lines : l[1] = canonical[e] => AsOrdered(line'[l], line[l])
  <2>1. CASE e # d
    <3>1. Newest(e, x) /\ x \in inbound
      BY <1>6, <1>8, <2>1 DEF Newest
    <3>2. canonical[e] # NULL
      BY <1>8, <3>1 DEF SalesInv, RowsAre, Newest
    <3>3. canonical[e] # o
      BY <1>3, <2>1, <3>2
    <3> QED BY <1>2, <2>1, <3>1, <3>3
  <2>2. CASE e = d /\ DOMAIN m.cart = {}
    <3>1. PICK y : Newest(d, y) /\ y.message = x.message
      BY <1>6, <1>8, <2>2
    <3>2. y \in inbound /\ y.doc = d
      BY <3>1 DEF Newest
    <3>3. canonical[d] # NULL
      BY <3>2 DEF SalesInv, RowsAre
    <3>4. canonical'[d] = canonical[d]
      BY <3>3
    <3> QED BY <2>2, <3>1, <3>2, <3>4
  <2>3. CASE e = d /\ DOMAIN m.cart # {}
    <3>1. x.message = m
      BY <1>6, <1>8, <2>3
    <3>2. SalesCart(o)' = m.cart
      BY <2>3, SalesCartPosted
    <3>3. SalesCart(canonical[e])' = m.cart
      BY <1>2, <2>3, <3>2 DEF SalesCart
    <3> QED BY <3>1, <3>3
  <2> QED BY <2>1, <2>2, <2>3
<1> QED BY <1>4, <1>5, <1>7, <1>8, SalesStep

LEMMA FinishSalesStep ==
  ASSUME SalesInv, PostInv, desk' = desk, PostsTyped', NEW r \in Requests, NEW held, FinishSalesPost(r, held)
  PROVE  SalesInv'
<1> DEFINE m == request[r].message
           d == request[r].doc
           v == request[r].version
<1>1. d \in SalesDocs /\ d \in Docs /\ Posts(r, d) /\ Recorded(d, v, m)
  BY DEF FinishSalesPost, Posts, Docs
<1>2. v \in Nat /\ \A x \in RowsOf(d) : x.version < v
  BY <1>1 DEF PostInv, PostsAreNews
<1>3. Does("feed") /\ PostedCart(m.cart) /\ m.status \in {NULL, "OPEN", "CANCELLED"} /\ InboundRows
  BY <1>1 DEF SalesInv, PostsTyped, PostsAre, PostInv, Posted
<1>4. Tables(Db) /\ Db.order = order /\ Db.line = line
  BY DbTables DEF SalesInv, Db
<1>5. CASE canonical[d] # NULL
  <2> DEFINE o == canonical[d]
             db == Headed(Db, o, m.status)
             new == Relined(db, o, m.cart)
  <2>1. Commit(new) /\ canonical' = canonical
    BY <1>5 DEF FinishSalesPost
  <2>2. o \in Orders /\ order[o].status # "NONE"
    BY <1>1, <1>5 DEF SalesInv, OrdersThere
  <2>3. Quiet(Db, db)
    BY <1>3, <1>4, QuietSame, StatusQuiet DEF Headed
  <2> HIDE DEF db
  <2>4. LinesReplaced(new, db, o, m.cart)
    BY <2>3, RelinedLines DEF Quiet
  <2> HIDE DEF new
  <2>5. order' = new.order /\ line' = new.line
    BY <2>1 DEF Commit
  <2>6. Written /\ order'[o].status # "NONE"
    BY <1>4, <2>2, <2>3, <2>4, <2>5 DEF Written, Shaped, Quiet, Tables, Lasting, LinesReplaced
  <2>7. \A l \in Lines : l[1] # o => AsOrdered(line'[l], line[l])
    BY <1>4, <2>3, <2>4, <2>5 DEF Quiet, AsOrdered, LinesReplaced
  <2>8. DOMAIN m.cart = {} => \A l \in Lines : AsOrdered(line'[l], line[l])
    BY <1>4, <2>3, <2>4, <2>5 DEF Quiet, LinesReplaced
  <2>9. DOMAIN m.cart # {} =>
          \A l \in Lines : l[1] = o => /\ line'[l].row = "live" <=> l[2] \in DOMAIN m.cart
                                       /\ l[2] \in DOMAIN m.cart => line'[l].ordered = m.cart[l[2]]
    BY <2>4, <2>5 DEF LinesReplaced
  <2>10. canonical[d] = o
    OBVIOUS
  <2> HIDE DEF m, d, v, o
  <2> QED BY <1>1, <1>2, <1>3, <2>1, <2>2, <2>6, <2>7, <2>8, <2>9, <2>10, SalesPosted
<1>6. CASE canonical[d] = NULL
  <2>1. PICK o \in Orders :
          /\ FreshOrder(o)
          /\ Commit(Relined([Db EXCEPT !.order[o] = NewHeader(m, held)], o, m.cart))
          /\ canonical' = [canonical EXCEPT ![d] = o]
    BY <1>6 DEF FinishSalesPost
  <2> DEFINE db == [Db EXCEPT !.order[o] = NewHeader(m, held)]
             new == Relined(db, o, m.cart)
  <2>2. order[o].status = "NONE"
    BY <2>1 DEF FreshOrder, Unborn
  <2>3. /\ NewHeader(m, held).status # "NONE"
        /\ DOMAIN NewHeader(m, held) = {"status", "kind", "parent", "voided"}
    BY <1>3 DEF NewHeader, NoOrder
  <2>4. Tables(db) /\ db.line = line /\ db.order = [order EXCEPT ![o] = NewHeader(m, held)]
    BY <1>4, <2>3 DEF Tables, OrderShape, Db
  <2> HIDE DEF db
  <2>5. LinesReplaced(new, db, o, m.cart)
    BY <2>4, RelinedLines
  <2> HIDE DEF new
  <2>6. order' = new.order /\ line' = new.line
    BY <2>1 DEF Commit, new, db
  <2>7. Written /\ order'[o].status # "NONE"
    BY <1>4, <2>2, <2>3, <2>4, <2>5, <2>6 DEF Written, Shaped, Tables, Lasting, OrderShape, LinesReplaced
  <2>8. DOMAIN m.cart = {} => \A l \in Lines : AsOrdered(line'[l], line[l])
    BY <2>4, <2>5, <2>6 DEF Tables, LineShape, AsOrdered, LinesReplaced
  <2>9. DOMAIN m.cart # {} =>
          \A l \in Lines : l[1] = o => /\ line'[l].row = "live" <=> l[2] \in DOMAIN m.cart
                                       /\ l[2] \in DOMAIN m.cart => line'[l].ordered = m.cart[l[2]]
    BY <2>5, <2>6 DEF LinesReplaced
  <2>10. \A l \in Lines : l[1] # o => AsOrdered(line'[l], line[l])
    BY <2>4, <2>5, <2>6 DEF LinesReplaced
  <2>11. o \in Orders /\ canonical[d] = NULL /\ order[o].status = "NONE" /\ canonical' = [canonical EXCEPT ![d] = o]
    BY <1>6, <2>1, <2>2
  <2>12. \/ canonical[d] = o /\ canonical' = canonical
         \/ canonical[d] = NULL /\ order[o].status = "NONE" /\ canonical' = [canonical EXCEPT ![d] = o]
    BY <2>11
  <2>13. o \in Orders
    BY <2>11
  <2> HIDE DEF m, d, v
  <2> QED BY <1>1, <1>2, <1>3, <2>12, <2>13, <2>7, <2>8, <2>9, <2>10, SalesPosted
<1> QED BY <1>5, <1>6

\* a cancellation may carry lines too, which replace those of the cancelled order
LEMMA CancellationStep ==
  ASSUME SalesInv, PostInv, desk' = desk, PostsTyped', NEW d \in SalesDocs, NEW v \in Versions,
         NEW m \in Cancellations, Does("feed"), PostCancellation(d, v, m)
  PROVE  SalesInv'
<1> DEFINE o == canonical[d]
           db == Cancelled(Db, o)
           new == Relined(db, o, m.cart)
<1>1. NewsTo(d, v) /\ canonical[d] # NULL /\ Commit(new) /\ Recorded(d, v, m) /\ canonical' = canonical
  BY DEF PostCancellation, IsCancellation
<1>2. v \in Nat /\ InboundRows /\ \A x \in RowsOf(d) : x.version < v
  BY <1>1, NewsIsNewer DEF PostInv, Docs
<1>3. PostedCart(m.cart)
  BY CartsPosted DEF SalesInv, PostsTyped, PostsAre, Posted
<1>4. Tables(Db) /\ Db.order = order /\ Db.line = line
  BY DbTables DEF SalesInv, Db
<1>5. o \in Orders /\ order[o].status # "NONE"
  BY <1>1 DEF SalesInv, OrdersThere
<1>6. Quiet(Db, db)
  BY <1>4, CancelledQuiet
<1> HIDE DEF db
<1>7. LinesReplaced(new, db, o, m.cart)
  BY <1>6, RelinedLines DEF Quiet
<1> HIDE DEF new
<1>8. order' = new.order /\ line' = new.line
  BY <1>1 DEF Commit
<1>9. Written /\ order'[o].status # "NONE"
  BY <1>4, <1>5, <1>6, <1>7, <1>8 DEF Written, Shaped, Quiet, Tables, Lasting, LinesReplaced
<1>10. \A l \in Lines : l[1] # o => AsOrdered(line'[l], line[l])
  BY <1>4, <1>6, <1>7, <1>8 DEF Quiet, AsOrdered, LinesReplaced
<1>11. DOMAIN m.cart = {} => \A l \in Lines : AsOrdered(line'[l], line[l])
  BY <1>4, <1>6, <1>7, <1>8 DEF Quiet, LinesReplaced
<1>12. DOMAIN m.cart # {} =>
         \A l \in Lines : l[1] = o => /\ line'[l].row = "live" <=> l[2] \in DOMAIN m.cart
                                      /\ l[2] \in DOMAIN m.cart => line'[l].ordered = m.cart[l[2]]
  BY <1>7, <1>8 DEF LinesReplaced
<1>13. canonical[d] = o
  OBVIOUS
<1> HIDE DEF o
<1> QED BY <1>1, <1>2, <1>3, <1>5, <1>9, <1>10, <1>11, <1>12, <1>13, SalesPosted

\* a post of a purchase order is none of a sales order's
LEMMA SalesElsewhere ==
  ASSUME SalesInv, InboundRows, desk' = desk, PostsTyped', UNCHANGED <<order, line>>, NEW d \in PurchaseDocs,
         inbound' = inbound \/ \E v, m : Recorded(d, v, m),
         canonical' = canonical \/ \E p : canonical' = [canonical EXCEPT ![d] = p]
  PROVE  SalesInv'
<1>1. Calm
  BY StillCalm DEF SalesInv
<1>2. d \notin SalesDocs
  BY DocsAssumption
<1>3. \A e \in SalesDocs : canonical'[e] = canonical[e]
  BY <1>2 DEF SalesInv, Mapped, Docs
<1>4. /\ \A x \in inbound' : x.doc # d => x \in inbound
      /\ \A x \in inbound : x.doc # d => x \in inbound'
  BY DEF Recorded, Superseded, InboundRow, Applied, RowsOf, InboundRows
<1>5. \A e \in SalesDocs : \A x : Newest(e, x)' => Newest(e, x)
  BY <1>2, <1>4 DEF Newest
<1>6. Mapped(SalesDocs)' /\ OrdersThere'
  BY <1>1, <1>3 DEF SalesInv, Mapped, OrdersThere, Calm, Written, Lasting
<1>7. RowsAre(SalesDocs, "feed")'
  BY <1>2, <1>3, <1>4 DEF SalesInv, RowsAre, Does
<1>8. ASSUME NEW e \in SalesDocs, NEW x \in inbound', LinesLeftAlone, Newest(e, x)'
      PROVE  /\ canonical'[e] = canonical[e]
             /\ \E y \in inbound : Newest(e, y) /\ y.message = x.message
             /\ \A l \in Lines : l[1] = canonical[e] => AsOrdered(line'[l], line[l])
  <2>1. Newest(e, x) /\ x \in inbound
    BY <1>5, <1>8 DEF Newest
  <2>2. \A l \in Lines : AsOrdered(line'[l], line[l])
    BY DEF SalesInv, Shaped, LineShape, AsOrdered
  <2> QED BY <1>3, <2>1, <2>2
<1> QED BY <1>1, <1>6, <1>7, <1>8, SalesStep DEF Calm

LEMMA SalesInvInit == Init => SalesInv
<1> SUFFICES ASSUME Init PROVE SalesInv
  OBVIOUS
<1>1. LineShape([l \in Lines |-> NoLine]) /\ OrderShape([o \in Orders |-> NoOrder])
  BY DEF LineShape, OrderShape, NoLine, NoOrder, LineFields
<1>2. LineShape(EmptyYard.line) /\ OrderShape(EmptyYard.order)
  BY <1>1 DEF EmptyYard
<1> DEFINE entered == Entered(EmptyYard, 1, desk.cart)
<1>3. LineShape(entered.line) /\ OrderShape(entered.order) /\ DOMAIN entered = {"inv", "order", "line", "batch", "task"}
  <2>1. \A q, n : DOMAIN [NewLine(q) EXCEPT !.allocated = n] = LineFields
    BY DEF NewLine, NoLine, LineFields
  <2>2. DOMAIN [NoOrder EXCEPT !.status = "OPEN"] = {"status", "kind", "parent", "voided"}
    BY DEF NoOrder
  <2>3. DOMAIN EmptyYard = {"inv", "order", "line", "batch", "task"}
    BY DEF EmptyYard
  <2>4. /\ entered.order = [EmptyYard.order EXCEPT ![1] = [NoOrder EXCEPT !.status = "OPEN"]]
        /\ entered.line = [l \in Lines |->
                 IF l[1] = 1 /\ l[2] \in DOMAIN desk.cart
                 THEN [NewLine(desk.cart[l[2]]) EXCEPT !.allocated = Reserved(EmptyYard.inv, l[2], desk.cart[l[2]])]
                 ELSE EmptyYard.line[l]]
        /\ DOMAIN entered = {"inv", "order", "line", "batch", "task"}
    BY <2>3 DEF Entered
  <2> HIDE DEF entered
  <2> QED BY <1>2, <2>1, <2>2, <2>4 DEF LineShape, OrderShape
<1>4. LineShape(Morning.line) /\ OrderShape(Morning.order)
  <2> HIDE DEF entered
  <2>1. \A q : DOMAIN NewLine(q) = LineFields
    BY DEF NewLine, NoLine, LineFields
  <2>2. DOMAIN [NoOrder EXCEPT !.status = "WAITING_STOCK", !.kind = "backorder", !.parent = 1]
          = {"status", "kind", "parent", "voided"}
    BY DEF NoOrder
  <2>3. /\ WithBackorder(entered).order =
             [entered.order EXCEPT ![2] = [NoOrder EXCEPT !.status = "WAITING_STOCK", !.kind = "backorder", !.parent = 1]]
        /\ WithBackorder(entered).line = [l \in Lines |-> IF l[1] = 2 /\ l[2] \in DOMAIN desk.waiting
                                                          THEN NewLine(desk.waiting[l[2]]) ELSE entered.line[l]]
    BY <1>3 DEF WithBackorder
  <2>4. LineShape(WithBackorder(entered).line) /\ OrderShape(WithBackorder(entered).order)
    BY <1>3, <2>1, <2>2, <2>3 DEF LineShape, OrderShape
  <2>5. Morning = EmptyYard \/ Morning = entered \/ Morning = WithBackorder(entered)
    BY DEF Morning, entered
  <2> QED BY <1>2, <1>3, <2>4, <2>5
<1>5. Shaped
  BY <1>4 DEF Init, Shaped
<1>6. PostsTyped
  BY DEF Init, PostsTyped, PostsAre, Posts, Idle
<1>7. /\ Mapped(SalesDocs) /\ OrdersThere /\ RowsAre(SalesDocs, "feed") /\ SalesLines
  BY DEF Init, Mapped, OrdersThere, RowsAre, SalesLines, Docs
<1> QED BY <1>5, <1>6, <1>7 DEF SalesInv

LEMMA SalesInvNext ==
  ASSUME SalesInv, PostInv, [Next]_vars
  PROVE  SalesInv'
<1>1. desk' = desk /\ PostsTyped' /\ Shaped /\ InboundRows
  BY PostsStayTyped DEF Next, vars, PostsTyped, SalesInv, PostInv
<1>2. ASSUME Calm \/ (Does("partial") /\ Written), UNCHANGED inboundVars PROVE SalesInv'
  BY <1>1, <1>2, SalesAway
<1>3. ASSUME UNCHANGED <<order, line, inboundVars>> PROVE SalesInv'
  BY <1>1, <1>2, <1>3, StillCalm
<1>4. CASE (Purchasing \/ Receiving \/ Shelving) /\ UNCHANGED inboundVars
  <2>1. Purchasing => UNCHANGED <<order, line>>
    BY DEF Purchasing, create_purchase_order, close_purchase_order, reopen_purchase_order,
           update_purchase_order, add_purchase_order_line, update_purchase_order_line,
           delete_purchase_order_line, edit_purchase_order_line, POUnchanged
  <2> QED BY <1>1, <1>2, <1>3, <1>4, <2>1, ReceivingCalm, ShelvingCalm
<1>5. CASE (SalesDesk \/ Pickers) /\ UNCHANGED inboundVars
  BY <1>1, <1>2, <1>5, SalesDeskWrites, PickersCalm
<1>6. CASE Upstream
  <2>1. ASSUME NEW r, NEW d, NEW v, NEW m, BeginPost(r, d, v, m) PROVE SalesInv'
    BY <1>3, <2>1 DEF BeginPost, orderVars
  <2>2. ASSUME NEW r \in Requests, NEW held, FinishSalesPost(r, held) PROVE SalesInv'
    BY <1>1, <2>2, FinishSalesStep
  <2>3. ASSUME NEW r \in Requests, FinishPurchasePost(r) PROVE SalesInv'
    <3> DEFINE d == request[r].doc
    <3>1. /\ d \in PurchaseDocs /\ UNCHANGED <<order, line>>
          /\ inbound' = inbound \/ \E v, m : Recorded(d, v, m)
          /\ canonical' = canonical \/ \E p : canonical' = [canonical EXCEPT ![d] = p]
      BY <2>3 DEF FinishPurchasePost, orderVars
    <3> HIDE DEF d
    <3> QED BY <1>1, <3>1, SalesElsewhere
  <2>4. ASSUME NEW d \in SalesDocs, NEW v \in Versions, NEW m \in Cancellations, Does("feed"), PostCancellation(d, v, m)
        PROVE  SalesInv'
    BY <1>1, <2>4, CancellationStep
  <2>5. ASSUME NEW i, NEW b, NEW n, inventory_update(i, b, n) PROVE SalesInv'
    BY <1>1, <1>2, <2>5, LandCalm, ShelveCalm DEF inventory_update
  <2>6. ASSUME NEW i, NEW b, NEW n, BeginUpdate(i, b, n) PROVE SalesInv'
    BY <1>1, <1>2, <2>6, Looks, LookCalm
  <2> QED BY <1>6, <2>1, <2>2, <2>3, <2>4, <2>5, <2>6 DEF Upstream
<1>7. CASE UNCHANGED <<order, line, inboundVars>>
  BY <1>3, <1>7
<1>8. Next => \/ (Purchasing \/ Receiving \/ Shelving) /\ UNCHANGED inboundVars
              \/ (SalesDesk \/ Pickers) /\ UNCHANGED inboundVars
              \/ UNCHANGED <<order, line, inboundVars>>
              \/ Upstream
  BY DEF Next
<1>9. UNCHANGED vars => UNCHANGED <<order, line, inboundVars>>
  BY DEF vars
<1> QED BY <1>4, <1>5, <1>6, <1>7, <1>8, <1>9

-----------------------------------------------------------------------------
(* Purchase orders *)
PurchaseLine == [ordered : Nat, received : Nat]
POShaped     == DOMAIN purchase = Purchases /\ poline \in [Purchases \X Items -> PurchaseLine \cup {NULL}]
POCart(p)    == [i \in LinesOfPO(poline, p) |-> poline[<<p, i>>].ordered]
OrdersPlaced == \A d \in PurchaseDocs : canonical[d] # NULL =>
                  canonical[d] \in Purchases /\ purchase[canonical[d]] # NULL
POLines      == \A d \in PurchaseDocs, x \in inbound : Newest(d, x) => x.message.cart = POCart(canonical[d])

PurchaseInv ==
  /\ POShaped /\ PostsTyped /\ Mapped(PurchaseDocs) /\ OrdersPlaced /\ RowsAre(PurchaseDocs, "feed_po")
  /\ LinesLeftAlone => POLines

AsLined(k) == /\ poline'[k] = NULL <=> poline[k] = NULL
              /\ poline[k] # NULL => poline'[k].ordered = poline[k].ordered
POWritten  == POShaped' /\ \A p \in Purchases : purchase[p] # NULL => purchase'[p] # NULL
POCalm     == POWritten /\ \A k \in Purchases \X Items : purchase[k[1]] # NULL => AsLined(k)

LEMMA NotNull ==
  /\ \A x \in PurchaseLine : x # NULL
  /\ \A f, p : StatusOf(f, p) # NULL
  /\ NULL \notin {"OPEN", "PARTIAL", "RECEIVED", "CLOSED", "ARCHIVED"}
  BY PurchasesAssumption DEF PurchaseLine, StatusOf

LEMMA StillPO == POShaped /\ UNCHANGED <<purchase, poline>> => POCalm
  BY DEF POShaped, POCalm, POWritten, AsLined

LEMMA PurchasingPO ==
  ASSUME POShaped, desk \in Desks, Purchasing
  PROVE  POCalm \/ (Does("edit") /\ POWritten)
<1>1. Quantities \subseteq Nat /\ desk.items \subseteq Items
  BY OrderedAssumption, DesksAssumption DEF Quantities
<1>2. ASSUME NEW p \in Purchases, NEW cart \in Carts, create_purchase_order(p, cart) PROVE POCalm
  <2>1. \A i \in DOMAIN cart : cart[i] \in Nat
    BY <1>1, <1>2 DEF Carts
  <2>2. \A k \in Purchases \X Items : \/ poline'[k] = poline[k]
                                      \/ k[1] = p /\ poline'[k] \in PurchaseLine
    BY <1>2, <2>1 DEF create_purchase_order, POShaped, PurchaseLine
  <2>3. poline' \in [Purchases \X Items -> PurchaseLine \cup {NULL}]
    <3>1. DOMAIN poline = Purchases \X Items
      BY DEF POShaped
    <3>2. poline' = [k \in Purchases \X Items |-> poline'[k]]
      BY <1>2, <3>1 DEF create_purchase_order
    <3>3. \A k \in Purchases \X Items : poline'[k] \in PurchaseLine \cup {NULL}
      BY <2>2 DEF POShaped
    <3> HIDE DEF PurchaseLine
    <3> QED BY <3>2, <3>3
  <2>4. purchase[p] = NULL /\ purchase' = [purchase EXCEPT ![p] = "OPEN"]
    BY <1>2 DEF create_purchase_order
  <2> QED BY <2>2, <2>3, <2>4 DEF POShaped, POCalm, POWritten, AsLined
<1>3. ASSUME NEW p, NEW s \in {"OPEN", "CLOSED", "ARCHIVED"}, update_purchase_order(p, s) PROVE POCalm
  BY <1>3, NotNull DEF update_purchase_order, POShaped, POCalm, POWritten, AsLined
<1>4. ASSUME NEW p, NEW i, NEW new \in PurchaseLine \cup {NULL}, edit_purchase_order_line(p, i, new)
      PROVE  POWritten
  <2>1. /\ poline' = [poline EXCEPT ![<<p, i>>] = new]
        /\ purchase' = [purchase EXCEPT ![p] = StatusOf(poline', p)]
    BY <1>4 DEF edit_purchase_order_line, recompute_po_status
  <2>2. StatusOf(poline', p) # NULL
    BY NotNull
  <2> HIDE DEF PurchaseLine
  <2> QED BY <2>1, <2>2 DEF POShaped, POWritten
<1>5. ASSUME NEW p \in Purchases, NEW i \in Items, NEW q \in Nat,
             add_purchase_order_line(p, i, q) \/ update_purchase_order_line(p, i, q)
      PROVE  POWritten
  <2>1. CASE add_purchase_order_line(p, i, q)
    <3>1. [ordered |-> q, received |-> 0] \in PurchaseLine
      BY DEF PurchaseLine
    <3> QED BY <1>4, <2>1, <3>1 DEF add_purchase_order_line
  <2>2. CASE update_purchase_order_line(p, i, q)
    <3>1. poline[<<p, i>>] \in PurchaseLine
      BY <2>2 DEF update_purchase_order_line, POShaped
    <3>2. [poline[<<p, i>>] EXCEPT !.ordered = q] \in PurchaseLine
      BY <3>1 DEF PurchaseLine
    <3> QED BY <1>4, <2>2, <3>2 DEF update_purchase_order_line
  <2> QED BY <1>5, <2>1, <2>2
<1>6. ASSUME NEW p, NEW i, delete_purchase_order_line(p, i) PROVE POWritten
  BY <1>4, <1>6 DEF delete_purchase_order_line
<1> QED BY <1>1, <1>2, <1>3, <1>5, <1>6
        DEF Purchasing, close_purchase_order, reopen_purchase_order

LEMMA StrikePO ==
  ASSUME POShaped, NEW g, g.q \in Nat, StrikeReceipt(g)
  PROVE  POCalm
<1> DEFINE k == <<g.po, g.item>>
           left == AtLeast0(poline[k].received - g.q)
<1>1. purchase' = [purchase EXCEPT ![g.po] = StatusOf(poline', g.po)] /\ StatusOf(poline', g.po) # NULL
  BY NotNull DEF StrikeReceipt, recompute_po_status
<1>2. poline' = IF poline[k] = NULL THEN poline ELSE [poline EXCEPT ![k].received = left]
  BY DEF StrikeReceipt
<1>3. k \in Purchases \X Items /\ poline[k] # NULL => left \in Nat
  BY DEF POShaped, PurchaseLine, AtLeast0
<1> HIDE DEF left, k
<1>4. \A j \in Purchases \X Items :
        \/ poline'[j] = poline[j]
        \/ /\ j = k /\ poline[j] \in PurchaseLine
           /\ poline'[j] = [poline[j] EXCEPT !.received = left]
  BY <1>2 DEF POShaped
<1>5. \A j \in Purchases \X Items : poline'[j] \in PurchaseLine \cup {NULL} /\ AsLined(j)
  <2> SUFFICES ASSUME NEW j \in Purchases \X Items
               PROVE  poline'[j] \in PurchaseLine \cup {NULL} /\ AsLined(j)
    OBVIOUS
  <2>1. CASE poline'[j] = poline[j]
    BY <2>1 DEF AsLined, POShaped
  <2>2. CASE /\ j = k /\ poline[j] \in PurchaseLine
             /\ poline'[j] = [poline[j] EXCEPT !.received = left]
    <3>1. left \in Nat
      BY <1>3, <2>2, NotNull
    <3>2. poline'[j] \in PurchaseLine /\ poline'[j].ordered = poline[j].ordered
      BY <2>2, <3>1 DEF PurchaseLine
    <3> QED BY <2>2, <3>2, NotNull DEF AsLined
  <2> QED BY <1>4, <2>1, <2>2
<1>6. POShaped'
  BY <1>1, <1>2, <1>5 DEF POShaped
<1> QED BY <1>1, <1>5, <1>6 DEF POShaped, POCalm, POWritten

LEMMA ReceivingPO ==
  ASSUME POShaped, GoodsInv, desk \in Desks, Receiving
  PROVE  POCalm
<1>1. Quantities \subseteq Nat /\ desk.items \subseteq Items
  BY OrderedAssumption, DesksAssumption DEF Quantities
<1>2. ASSUME NEW p \in Purchases, NEW i \in Items, NEW q \in Nat, NEW b, receive_items(p, i, q, b) PROVE POCalm
  <2> DEFINE k == <<p, i>>
             n == poline[k].received + q
  <2>1. /\ poline[k] \in PurchaseLine
        /\ poline' = [poline EXCEPT ![k].received = n]
        /\ purchase' = [purchase EXCEPT ![p] = IF StatusOf(poline', p) = "RECEIVED" THEN "RECEIVED" ELSE "PARTIAL"]
    BY <1>2 DEF receive_items, MayBeReceived, POShaped
  <2>2. n \in Nat
    BY <2>1 DEF PurchaseLine
  <2> HIDE DEF n, k
  <2>3. [poline[k] EXCEPT !.received = n] \in PurchaseLine /\ [poline[k] EXCEPT !.received = n].ordered = poline[k].ordered
    BY <2>1, <2>2 DEF PurchaseLine
  <2>4. \A j \in Purchases \X Items : poline'[j] = IF j = k THEN [poline[k] EXCEPT !.received = n] ELSE poline[j]
    BY <2>1 DEF POShaped
  <2>5. \A j \in Purchases \X Items : poline'[j] \in PurchaseLine \cup {NULL} /\ AsLined(j)
    BY <2>1, <2>3, <2>4, NotNull DEF AsLined, POShaped
  <2>6. POShaped'
    BY <2>1, <2>5 DEF POShaped
  <2> QED BY <2>1, <2>5, <2>6, NotNull DEF POShaped, POCalm, POWritten
<1>3. ASSUME NEW r, NEW g, BeginCancelReceiving(r, g) PROVE POCalm
  BY <1>3, StillPO DEF BeginCancelReceiving, stockroomVars, desksVars
<1>4. ASSUME NEW r \in Requests, FinishCancelReceiving(r) PROVE POCalm
  <2> DEFINE g == request[r].goods
             x == IF g \in goods THEN g ELSE Struck(g)
  <2>1. ReceiptRow(g) /\ StrikeReceipt(x)
    BY <1>4 DEF FinishCancelReceiving, GoodsInv, StrikesReceipts
  <2>2. x.q \in Nat
    BY <2>1 DEF ReceiptRow, Struck
  <2> HIDE DEF x
  <2> QED BY <2>1, <2>2, StrikePO
<1>5. ASSUME NEW g \in goods, record_unreceive(g) PROVE POCalm
  BY <1>5, StrikePO DEF record_unreceive, GoodsInv, GoodsRows, ReceiptRow
<1>6. ASSUME NEW p, NEW i, NEW q, NEW b, BeginReceipt(p, i, q, b) PROVE POCalm
  BY <1>6, Looks, StillPO DEF Looking, desksVars
<1> QED BY <1>1, <1>2, <1>3, <1>4, <1>5, <1>6 DEF Receiving

LEMMA POCartKept ==
  ASSUME NEW p \in Purchases, \A i \in Items : AsLined(<<p, i>>)
  PROVE  POCart(p)' = POCart(p)
<1>1. LinesOfPO(poline, p)' = LinesOfPO(poline, p)
  BY DEF LinesOfPO, AsLined
<1>2. \A i \in LinesOfPO(poline, p) : poline'[<<p, i>>].ordered = poline[<<p, i>>].ordered
  BY DEF LinesOfPO, AsLined
<1> QED BY <1>1, <1>2 DEF POCart

\* the lines of a purchase order that were just replaced
LinesPosted(p, cart) ==
  \A i \in Items : poline'[<<p, i>>] = IF i \in DOMAIN cart THEN [ordered |-> cart[i], received |-> 0] ELSE NULL

LEMMA POCartPosted ==
  ASSUME NEW p \in Purchases, NEW cart, PostedCart(cart), LinesPosted(p, cart)
  PROVE  POCart(p)' = cart
<1>1. PICK I \in SUBSET Items : cart \in [I -> Nat]
  BY DEF PostedCart
<1>2. \A i \in I : [ordered |-> cart[i], received |-> 0] # NULL /\ [ordered |-> cart[i], received |-> 0].ordered = cart[i]
  <2>1. \A i \in I : [ordered |-> cart[i], received |-> 0] \in PurchaseLine
    BY <1>1 DEF PurchaseLine
  <2> QED BY <2>1, NotNull
<1>3. LinesOfPO(poline, p)' = I
  BY <1>1, <1>2 DEF LinesOfPO, LinesPosted
<1>4. \A i \in I : poline'[<<p, i>>].ordered = cart[i]
  BY <1>1, <1>2 DEF LinesPosted
<1> QED BY <1>1, <1>3, <1>4 DEF POCart

LEMMA PurchaseStep ==
  ASSUME PurchaseInv, desk' = desk, POWritten, PostsTyped', Mapped(PurchaseDocs)', OrdersPlaced',
         RowsAre(PurchaseDocs, "feed_po")',
         \A d \in PurchaseDocs, x \in inbound' : LinesLeftAlone /\ Newest(d, x)' =>
            \/ x.message.cart = POCart(canonical[d])'
            \/ /\ canonical'[d] = canonical[d]
               /\ canonical[d] \in Purchases
               /\ \E y \in inbound : Newest(d, y) /\ y.message = x.message
               /\ \A i \in Items : AsLined(<<canonical[d], i>>)
  PROVE  PurchaseInv'
<1>1. LinesLeftAlone' = LinesLeftAlone
  BY DEF LinesLeftAlone, Does
<1>2. ASSUME NEW d \in PurchaseDocs, NEW x \in inbound', LinesLeftAlone, Newest(d, x)'
      PROVE  x.message.cart = POCart(canonical[d])'
  <2>1. CASE x.message.cart = POCart(canonical[d])'
    BY <2>1
  <2>2. CASE /\ canonical'[d] = canonical[d]
             /\ canonical[d] \in Purchases
             /\ \E y \in inbound : Newest(d, y) /\ y.message = x.message
             /\ \A i \in Items : AsLined(<<canonical[d], i>>)
    <3>1. PICK p \in Purchases : p = canonical[d]
      BY <2>2
    <3>2. POCart(p)' = POCart(p)
      BY <2>2, <3>1, POCartKept
    <3>3. POCart(canonical[d])' = POCart(p)' /\ POCart(canonical[d]) = POCart(p)
      BY <2>2, <3>1 DEF POCart
    <3> QED BY <1>2, <2>2, <3>2, <3>3 DEF PurchaseInv, POLines
  <2> QED BY <1>2, <2>1, <2>2
<1> QED BY <1>1, <1>2 DEF PurchaseInv, POLines, POWritten

\* nobody posts
LEMMA PurchaseAway ==
  ASSUME PurchaseInv, UNCHANGED <<inboundVars, desk>>, PostsTyped', POCalm \/ (Does("edit") /\ POWritten)
  PROVE  PurchaseInv'
<1>1. POWritten /\ inbound' = inbound /\ canonical' = canonical /\ desk' = desk
  BY DEF POCalm, inboundVars
<1>2. Mapped(PurchaseDocs)' /\ RowsAre(PurchaseDocs, "feed_po")'
  BY <1>1 DEF PurchaseInv, Mapped, RowsAre, Does
<1>3. OrdersPlaced'
  BY <1>1 DEF PurchaseInv, OrdersPlaced, POWritten
<1>4. \A d, x : Newest(d, x)' => Newest(d, x)
  BY <1>1 DEF Newest
<1>5. ASSUME NEW d \in PurchaseDocs, NEW x \in inbound', LinesLeftAlone, Newest(d, x)'
      PROVE  canonical[d] \in Purchases /\ \A i \in Items : AsLined(<<canonical[d], i>>)
  <2>1. x \in inbound /\ x.doc = d
    BY <1>1, <1>5 DEF Newest
  <2>2. canonical[d] # NULL /\ Does("feed_po")
    BY <2>1 DEF PurchaseInv, RowsAre
  <2>3. POCalm /\ canonical[d] \in Purchases /\ purchase[canonical[d]] # NULL
    BY <1>5, <2>2 DEF LinesLeftAlone, PurchaseInv, OrdersPlaced
  <2>4. \A k \in Purchases \X Items : k[1] = canonical[d] => AsLined(k)
    BY <2>3 DEF POCalm
  <2> QED BY <2>3, <2>4
<1> QED BY <1>1, <1>2, <1>3, <1>4, <1>5, PurchaseStep

\* a post of document d, of which the order p holds the lines
LEMMA PurchasePosted ==
  ASSUME PurchaseInv, InboundRows, desk' = desk, PostsTyped', Does("feed_po"),
         NEW d \in PurchaseDocs, NEW v \in Nat, NEW m, PostedCart(m.cart), Recorded(d, v, m),
         \A x \in RowsOf(d) : x.version < v,
         NEW p \in Purchases,
         \/ canonical[d] = p /\ canonical' = canonical
         \/ canonical[d] = NULL /\ purchase[p] = NULL /\ canonical' = [canonical EXCEPT ![d] = p],
         POWritten, purchase'[p] # NULL,
         \A k \in Purchases \X Items : k[1] # p => AsLined(k),
         DOMAIN m.cart = {} => \A i \in Items : AsLined(<<p, i>>),
         DOMAIN m.cart # {} => LinesPosted(p, m.cart)
  PROVE  PurchaseInv'
<1>1. d \in Docs /\ p # NULL /\ NULL \notin Purchases
  BY DocsAssumption DEF Docs
<1>2. /\ canonical'[d] = p /\ DOMAIN canonical' = Docs
      /\ \A e \in PurchaseDocs : e # d => canonical'[e] = canonical[e]
  BY <1>1 DEF PurchaseInv, Mapped, Docs
<1>3. \A e \in PurchaseDocs : e # d /\ canonical[e] # NULL => canonical[e] # p
  BY DEF PurchaseInv, Mapped, OrdersPlaced
<1>4. Mapped(PurchaseDocs)'
  BY <1>1, <1>2, <1>3 DEF PurchaseInv, Mapped
<1>5. OrdersPlaced'
  BY <1>2 DEF PurchaseInv, OrdersPlaced, POWritten
<1>6. /\ \A x \in inbound' : x.doc # d => x \in inbound
      /\ \A x \in inbound' : x.doc = d => x.message = m \/ \E y \in inbound : y.doc = d /\ y.message = x.message
      /\ \A e, x : e # d /\ Newest(e, x)' => Newest(e, x)
      /\ \A x : Newest(d, x)' => IF DOMAIN m.cart = {} THEN \E y : Newest(d, y) /\ y.message = x.message
                                 ELSE x.message = m
  BY <1>1, RecordedNewest
<1>7. RowsAre(PurchaseDocs, "feed_po")'
  <2>1. \A x \in inbound' : x.doc = d => PostedCart(x.message.cart)
    BY <1>6 DEF PurchaseInv, RowsAre
  <2> QED BY <1>1, <1>2, <1>6, <2>1 DEF PurchaseInv, RowsAre, Does, PostedCart
<1>8. ASSUME NEW e \in PurchaseDocs, NEW x \in inbound', LinesLeftAlone, Newest(e, x)'
      PROVE  \/ x.message.cart = POCart(canonical[e])'
             \/ /\ canonical'[e] = canonical[e]
                /\ canonical[e] \in Purchases
                /\ \E y \in inbound : Newest(e, y) /\ y.message = x.message
                /\ \A i \in Items : AsLined(<<canonical[e], i>>)
  <2>1. CASE e # d
    <3>1. Newest(e, x) /\ x \in inbound
      BY <1>6, <1>8, <2>1 DEF Newest
    <3>2. canonical[e] # NULL /\ canonical[e] \in Purchases
      BY <1>8, <3>1 DEF PurchaseInv, RowsAre, Newest, OrdersPlaced
    <3>3. canonical[e] # p
      BY <1>3, <2>1, <3>2
    <3>4. \A i \in Items : AsLined(<<canonical[e], i>>)
      BY <3>2, <3>3
    <3> QED BY <1>2, <2>1, <3>1, <3>2, <3>4
  <2>2. CASE e = d /\ DOMAIN m.cart = {}
    <3>1. PICK y : Newest(d, y) /\ y.message = x.message
      BY <1>6, <1>8, <2>2
    <3>2. y \in inbound /\ y.doc = d
      BY <3>1 DEF Newest
    <3>3. canonical[d] # NULL
      BY <3>2 DEF PurchaseInv, RowsAre
    <3>4. canonical[d] = p /\ canonical'[d] = canonical[d]
      BY <3>3
    <3> QED BY <2>2, <3>1, <3>2, <3>4
  <2>3. CASE e = d /\ DOMAIN m.cart # {}
    <3>1. x.message = m
      BY <1>6, <1>8, <2>3
    <3>2. POCart(p)' = m.cart
      BY <2>3, POCartPosted
    <3>3. POCart(canonical[e])' = m.cart
      BY <1>2, <2>3, <3>2 DEF POCart
    <3> QED BY <3>1, <3>3
  <2> QED BY <2>1, <2>2, <2>3
<1> QED BY <1>4, <1>5, <1>7, <1>8, PurchaseStep

LEMMA FinishPurchaseStep ==
  ASSUME PurchaseInv, PostInv, desk' = desk, PostsTyped', NEW r \in Requests, FinishPurchasePost(r)
  PROVE  PurchaseInv'
<1> DEFINE m == request[r].message
           d == request[r].doc
           v == request[r].version
           lined(p) == IF DOMAIN m.cart = {} THEN poline
                       ELSE [k \in DOMAIN poline |-> IF k[1] # p THEN poline[k]
                               ELSE IF k[2] \in DOMAIN m.cart THEN [ordered |-> m.cart[k[2]], received |-> 0]
                               ELSE NULL]
<1>1. d \in PurchaseDocs /\ d \in Docs /\ Posts(r, d)
  BY DEF FinishPurchasePost, Posts, Docs
<1>2. v \in Nat /\ \A x \in RowsOf(d) : x.version < v
  BY <1>1 DEF PostInv, PostsAreNews
<1>3. Does("feed_po") /\ PostedCart(m.cart) /\ m.status \in {NULL, "OPEN", "CANCELLED"} /\ InboundRows
  BY <1>1 DEF PurchaseInv, PostsTyped, PostsAre, PostInv, Posted
<1>4. ASSUME NEW p \in Purchases, poline' = lined(p)
      PROVE  /\ poline' \in [Purchases \X Items -> PurchaseLine \cup {NULL}]
             /\ \A k \in Purchases \X Items : k[1] # p => AsLined(k)
             /\ DOMAIN m.cart = {} => \A i \in Items : AsLined(<<p, i>>)
             /\ DOMAIN m.cart # {} => LinesPosted(p, m.cart)
  <2>1. CASE DOMAIN m.cart = {}
    BY <1>4, <2>1 DEF PurchaseInv, POShaped, AsLined
  <2>2. CASE DOMAIN m.cart # {}
    <3>1. PICK I \in SUBSET Items : m.cart \in [I -> Nat]
      BY <1>3 DEF PostedCart
    <3>2. \A i \in DOMAIN m.cart : [ordered |-> m.cart[i], received |-> 0] \in PurchaseLine
      BY <3>1 DEF PurchaseLine
    <3>3. poline' = [k \in Purchases \X Items |-> IF k[1] # p THEN poline[k]
                       ELSE IF k[2] \in DOMAIN m.cart THEN [ordered |-> m.cart[k[2]], received |-> 0]
                       ELSE NULL]
      BY <1>4, <2>2 DEF PurchaseInv, POShaped
    <3>4. \A k \in Purchases \X Items : poline'[k] \in PurchaseLine \cup {NULL}
      BY <3>2, <3>3 DEF PurchaseInv, POShaped
    <3>5. poline' \in [Purchases \X Items -> PurchaseLine \cup {NULL}]
      <4> HIDE DEF PurchaseLine
      <4> QED BY <3>3, <3>4
    <3>6. \A k \in Purchases \X Items : k[1] # p => AsLined(k)
      BY <3>3 DEF AsLined
    <3>7. LinesPosted(p, m.cart)
      BY <3>3 DEF LinesPosted
    <3> QED BY <2>2, <3>5, <3>6, <3>7
  <2> QED BY <2>1, <2>2
<1>5. ASSUME NEW p \in Purchases, NEW s, s # NULL, Recorded(d, v, m), poline' = lined(p),
             \/ purchase[p] # NULL /\ purchase' = purchase
             \/ purchase' = [purchase EXCEPT ![p] = s],
             \/ canonical[d] = p /\ canonical' = canonical
             \/ canonical[d] = NULL /\ purchase[p] = NULL /\ canonical' = [canonical EXCEPT ![d] = p]
      PROVE  PurchaseInv'
  <2>1. POWritten /\ purchase'[p] # NULL
    BY <1>4, <1>5 DEF PurchaseInv, POShaped, POWritten
  <2>2. /\ \A k \in Purchases \X Items : k[1] # p => AsLined(k)
        /\ DOMAIN m.cart = {} => \A i \in Items : AsLined(<<p, i>>)
        /\ DOMAIN m.cart # {} => LinesPosted(p, m.cart)
    BY <1>4, <1>5
  <2> HIDE DEF m, d, v, lined
  <2>3. \/ canonical[d] = p /\ canonical' = canonical
        \/ canonical[d] = NULL /\ purchase[p] = NULL /\ canonical' = [canonical EXCEPT ![d] = p]
    BY <1>5
  <2> QED BY <1>1, <1>2, <1>3, <1>5, <2>1, <2>2, <2>3, PurchasePosted
<1>6. CASE canonical[d] # NULL
  <2>1. canonical[d] \in Purchases /\ purchase[canonical[d]] # NULL /\ canonical' = canonical
    BY <1>1, <1>6 DEF PurchaseInv, OrdersPlaced, FinishPurchasePost
  <2>2. CASE UNCHANGED <<purchase, poline, inbound>>
    BY <2>1, <2>2, PurchaseAway, StillPO DEF PurchaseInv, inboundVars
  <2>3. CASE /\ Recorded(d, v, m) /\ poline' = lined(canonical[d])
             /\ purchase' = IF m.status = NULL THEN purchase ELSE [purchase EXCEPT ![canonical[d]] = m.status]
    <3>1. PICK p \in Purchases : p = canonical[d]
      BY <2>1
    <3>2. PICK s : s # NULL /\ (purchase' = purchase \/ purchase' = [purchase EXCEPT ![p] = s])
      <4>1. CASE m.status = NULL
        BY <2>3, <4>1, NotNull
      <4>2. CASE m.status # NULL
        BY <2>3, <3>1, <4>2
      <4> QED BY <4>1, <4>2
    <3>3. poline' = lined(p) /\ canonical[d] = p /\ purchase[p] # NULL
      BY <2>1, <2>3, <3>1
    <3> QED BY <1>5, <2>1, <2>3, <3>2, <3>3
  <2>4. \/ UNCHANGED <<purchase, poline, inbound>>
        \/ /\ Recorded(d, v, m) /\ poline' = lined(canonical[d])
           /\ purchase' = IF m.status = NULL THEN purchase ELSE [purchase EXCEPT ![canonical[d]] = m.status]
    BY <1>6 DEF FinishPurchasePost
  <2> QED BY <2>2, <2>3, <2>4
<1>7. CASE canonical[d] = NULL
  <2>1. PICK p \in Purchases :
          /\ purchase[p] = NULL
          /\ Recorded(d, v, m)
          /\ poline' = lined(p)
          /\ purchase' = [purchase EXCEPT ![p] = IF m.status = NULL THEN "OPEN" ELSE m.status]
          /\ canonical' = [canonical EXCEPT ![d] = p]
    BY <1>7 DEF FinishPurchasePost
  <2>2. (IF m.status = NULL THEN "OPEN" ELSE m.status) # NULL
    BY NotNull
  <2> QED BY <1>5, <1>7, <2>1, <2>2
<1> QED BY <1>6, <1>7

\* a post of a sales order is none of a purchase order's
LEMMA PurchaseElsewhere ==
  ASSUME PurchaseInv, InboundRows, desk' = desk, PostsTyped', UNCHANGED <<purchase, poline>>, NEW d \in SalesDocs,
         \E v, m : Recorded(d, v, m),
         canonical' = canonical \/ \E o : canonical' = [canonical EXCEPT ![d] = o]
  PROVE  PurchaseInv'
<1>1. POCalm
  BY StillPO DEF PurchaseInv
<1>2. d \notin PurchaseDocs
  BY DocsAssumption
<1>3. \A e \in PurchaseDocs : canonical'[e] = canonical[e]
  BY <1>2 DEF PurchaseInv, Mapped, Docs
<1>4. /\ \A x \in inbound' : x.doc # d => x \in inbound
      /\ \A x \in inbound : x.doc # d => x \in inbound'
  BY DEF Recorded, Superseded, InboundRow, Applied, RowsOf, InboundRows
<1>5. \A e \in PurchaseDocs : \A x : Newest(e, x)' => Newest(e, x)
  BY <1>2, <1>4 DEF Newest
<1>6. Mapped(PurchaseDocs)' /\ OrdersPlaced'
  BY <1>1, <1>3 DEF PurchaseInv, Mapped, OrdersPlaced, POCalm, POWritten
<1>7. RowsAre(PurchaseDocs, "feed_po")'
  BY <1>2, <1>3, <1>4 DEF PurchaseInv, RowsAre, Does
<1>8. ASSUME NEW e \in PurchaseDocs, NEW x \in inbound', LinesLeftAlone, Newest(e, x)'
      PROVE  /\ canonical'[e] = canonical[e]
             /\ canonical[e] \in Purchases
             /\ \E y \in inbound : Newest(e, y) /\ y.message = x.message
             /\ \A i \in Items : AsLined(<<canonical[e], i>>)
  <2>1. Newest(e, x) /\ x \in inbound
    BY <1>5, <1>8 DEF Newest
  <2>2. canonical[e] \in Purchases
    BY <1>8, <2>1 DEF PurchaseInv, RowsAre, Newest, OrdersPlaced
  <2>3. \A i \in Items : AsLined(<<canonical[e], i>>)
    BY DEF AsLined
  <2> QED BY <1>3, <2>1, <2>2, <2>3
<1> QED BY <1>1, <1>6, <1>7, <1>8, PurchaseStep DEF POCalm

LEMMA PurchaseInvInit == Init => PurchaseInv
  BY DEF Init, PurchaseInv, POShaped, PostsTyped, PostsAre, Posts, Idle, Mapped, OrdersPlaced, RowsAre,
         POLines, Newest, Docs

LEMMA PurchaseInvNext ==
  ASSUME PurchaseInv, PostInv, GoodsInv, [Next]_vars
  PROVE  PurchaseInv'
<1>1. desk' = desk /\ desk \in Desks /\ PostsTyped' /\ POShaped /\ InboundRows
  BY PostsStayTyped DEF Next, vars, PostsTyped, PurchaseInv, PostInv, PostsAre
<1>2. ASSUME POCalm \/ (Does("edit") /\ POWritten), UNCHANGED inboundVars PROVE PurchaseInv'
  BY <1>1, <1>2, PurchaseAway
<1>3. ASSUME UNCHANGED <<purchase, poline, inboundVars>> PROVE PurchaseInv'
  BY <1>1, <1>2, <1>3, StillPO
<1>4. CASE (Purchasing \/ Receiving \/ Shelving) /\ UNCHANGED inboundVars
  BY <1>1, <1>2, <1>3, <1>4, PurchasingPO, ReceivingPO, ShelvingMoves
<1>5. ASSUME UNCHANGED <<desksVars, inboundVars>> PROVE PurchaseInv'
  BY <1>3, <1>5 DEF desksVars
<1>6. CASE Upstream
  <2>1. ASSUME NEW r, NEW d, NEW v, NEW m, BeginPost(r, d, v, m) PROVE PurchaseInv'
    BY <1>5, <2>1 DEF BeginPost, stockroomVars
  <2>2. ASSUME NEW r \in Requests, NEW held, FinishSalesPost(r, held) PROVE PurchaseInv'
    <3> DEFINE d == request[r].doc
    <3>1. /\ d \in SalesDocs /\ UNCHANGED <<purchase, poline>>
          /\ \E v, m : Recorded(d, v, m)
          /\ canonical' = canonical \/ \E o : canonical' = [canonical EXCEPT ![d] = o]
      BY <2>2 DEF FinishSalesPost, stockroomVars, desksVars
    <3> HIDE DEF d
    <3> QED BY <1>1, <3>1, PurchaseElsewhere
  <2>3. ASSUME NEW r \in Requests, FinishPurchasePost(r) PROVE PurchaseInv'
    BY <1>1, <2>3, FinishPurchaseStep
  <2>4. ASSUME NEW d \in SalesDocs, NEW v, NEW m, PostCancellation(d, v, m) PROVE PurchaseInv'
    <3>1. UNCHANGED <<purchase, poline, canonical>> /\ Recorded(d, v, m)
      BY <2>4 DEF PostCancellation, stockroomVars, desksVars
    <3> QED BY <1>1, <3>1, PurchaseElsewhere
  <2>5. ASSUME NEW i, NEW b, NEW n, inventory_update(i, b, n) \/ BeginUpdate(i, b, n) PROVE PurchaseInv'
    BY <1>5, <2>5, Looks DEF inventory_update, Looking
  <2> QED BY <1>6, <2>1, <2>2, <2>3, <2>4, <2>5 DEF Upstream
<1>7. Next => \/ (Purchasing \/ Receiving \/ Shelving) /\ UNCHANGED inboundVars
              \/ UNCHANGED <<desksVars, inboundVars>>
              \/ Upstream
  BY DEF Next, stockroomVars
<1>8. UNCHANGED vars => UNCHANGED <<desksVars, inboundVars>>
  BY DEF vars, desksVars
<1> QED BY <1>4, <1>5, <1>6, <1>7, <1>8

\* The order a document stands for holds the lines of the newest version that had any,
\* however versions are reordered and repeated, and whatever the desks, the pickers,
\* receipts and cancellations do to those lines meanwhile.
THEOREM NewestLines == Spec => []NewestApplied
<1>1. Init => PostInv /\ GoodsInv /\ SalesInv /\ PurchaseInv
  BY PostInvInit, GoodsInvInit, SalesInvInit, PurchaseInvInit
<1>2. PostInv /\ GoodsInv /\ SalesInv /\ PurchaseInv /\ [Next]_vars
        => (PostInv /\ GoodsInv /\ SalesInv /\ PurchaseInv)'
  BY PostInvNext, GoodsInvNext, SalesInvNext, PurchaseInvNext
<1>3. ASSUME PostInv, SalesInv, PurchaseInv PROVE NewestApplied
  <2>1. ASSUME LinesLeftAlone, NEW d \in Docs, NEW x \in RowsOf(d), DOMAIN x.message.cart # {},
               \A y \in RowsOf(d) : DOMAIN y.message.cart # {} => y.version <= x.version
        PROVE  IF d \in SalesDocs
               THEN x.message.cart = [i \in {l[2] : l \in LinesIn(Db, canonical[d])} |-> line[<<canonical[d], i>>].ordered]
               ELSE x.message.cart = [i \in LinesOfPO(poline, canonical[d]) |-> poline[<<canonical[d], i>>].ordered]
    <3>1. Newest(d, x) /\ x \in inbound
      BY <2>1 DEF Newest, RowsOf
    <3>2. CASE d \in SalesDocs
      <4>1. x.message.cart = SalesCart(canonical[d])
        BY <1>3, <2>1, <3>1, <3>2 DEF SalesInv, SalesLines
      <4> QED BY <3>2, <4>1 DEF SalesCart
    <3>3. CASE d \notin SalesDocs
      <4>1. d \in PurchaseDocs
        BY <3>3 DEF Docs
      <4>2. x.message.cart = POCart(canonical[d])
        BY <1>3, <2>1, <3>1, <4>1 DEF PurchaseInv, POLines
      <4> QED BY <3>3, <4>2 DEF POCart
    <3> QED BY <3>2, <3>3
  <2> QED BY <1>3, <2>1 DEF NewestApplied, PostInv
<1> QED BY <1>1, <1>2, <1>3, PTL DEF Spec

-----------------------------------------------------------------------------
(***************************************************************************)
(* The quantities of the yard.  What an import commits to a line comes     *)
(* from a walk over the free units of every bin, so whatever any handler   *)
(* writes to the shelves has to be a number; nothing says that a quantity  *)
(* is not negative, and none of this needs it.                             *)
(***************************************************************************)
IntLine(row) == row.ordered \in Int /\ row.allocated \in Int /\ row.picked \in Int

IntShare(s) == IsFiniteSet(DOMAIN s) /\ \A o \in DOMAIN s : s[o] \in Int
TaskFields  == {"id", "batch", "order", "line", "item", "bin", "qty", "picked", "status",
                "share", "shorted", "lost"}
IntTask(t)  == DOMAIN t = TaskFields /\ t.qty \in Int /\ t.picked \in Int /\ IntShare(t.share)
IntTasks(T) == IsFiniteSet(T) /\ \A t \in T : IntTask(t)

IntLines(rows) == \A l \in Lines : IntLine(rows[l])
\* a database session whose quantities are numbers
Ints(db) == Tables(db) /\ db.inv \in InventoryType /\ IntLines(db.line) /\ IntTasks(db.task)

\* quantities for some lines
IntMap(m) == DOMAIN m \subseteq Lines /\ \A l \in DOMAIN m : m[l] \in Int

-----------------------------------------------------------------------------
(* Sums and walks *)

\* a row that holds less than nothing counts for nothing
LEMMA TotalOfInts ==
  ASSUME NEW S, IsFiniteSet(S), NEW f, \A x \in S : f[x] \in Int
  PROVE  Total(f, S) \in Nat
<1> DEFINE g == [x \in S |-> AtLeast0(f[x])]
<1>1. NatOn(g, S)
  BY DEF NatOn, AtLeast0
<1>2. \A x \in S : (1 .. f[x]) = (1 .. g[x])
  BY DEF AtLeast0
<1>3. Units(f, S) = Units(g, S)
  <2>1. {{x} \X (1 .. f[x]) : x \in S} = {{x} \X (1 .. g[x]) : x \in S}
    <3> HIDE DEF g
    <3> QED BY <1>2
  <2> QED BY <2>1 DEF Units
<1> HIDE DEF g
<1> QED BY <1>1, <1>3, UnitsFinite DEF Total

LEMMA SomeOfInts ==
  ASSUME NEW S, IsFiniteSet(S), NEW f, \A x \in S : f[x] \in Int, NEW T \in SUBSET S
  PROVE  Total(f, T) \in Nat
<1>1. IsFiniteSet(T)
  BY FS_Subset
<1> QED BY <1>1, TotalOfInts

LEMMA YardRows ==
  /\ \A i \in Items, b \in Bins : <<i, b>> \in Rows
  /\ \A r \in Rows : r = <<r[1], r[2]>> /\ r[1] \in Items /\ r[2] \in Bins
  /\ IsFiniteSet(Bins) /\ IsFiniteSet(Pickable) /\ Pickable \subseteq Bins
  /\ IsFiniteSet(Lines)
<1>1. Pickable \in SUBSET Bins /\ IsFiniteSet(Bins)
  BY BinsAssumption
<1>2. IsFiniteSet(Pickable)
  BY <1>1, FS_Subset
<1>3. \A r \in Rows : r = <<r[1], r[2]>> /\ r[1] \in Items /\ r[2] \in Bins
  BY DEF Rows
<1>4. \A i \in Items, b \in Bins : <<i, b>> \in Rows
  BY DEF Rows
<1>5. IsFiniteSet(Orders \X Items)
  BY BinsAssumption, OrdersAssumption, FS_Product
<1> QED BY <1>1, <1>2, <1>3, <1>4, <1>5 DEF Lines

\* what a walk takes from a row, whatever rows come before it
LEMMA WalkTakes ==
  ASSUME NEW D, IsFiniteSet(D), NEW cap, \A b \in D : cap[b] \in Int, NEW need \in Int,
         NEW b \in D, NEW C \in SUBSET D
  PROVE  Least(cap[b], AtLeast0(need - Total(cap, C))) \in Int
<1>1. Total(cap, C) \in Nat
  BY SomeOfInts
<1>2. AtLeast0(need - Total(cap, C)) \in Int
  BY <1>1 DEF AtLeast0
<1> QED BY <1>2 DEF Least

\* the walks by inventory_id
LEMMA WalkInOrder ==
  ASSUME NEW cap, IsFiniteSet(DOMAIN cap), \A b \in DOMAIN cap : cap[b] \in Int, NEW need \in Int
  PROVE  /\ DOMAIN Walk(cap, need, LAMBDA c, b : c < b) = DOMAIN cap
         /\ \A b \in DOMAIN cap : Walk(cap, need, LAMBDA c, b2 : c < b2)[b] \in Int
<1>1. ASSUME NEW b \in DOMAIN cap
      PROVE  Least(cap[b], AtLeast0(need - Total(cap, {c \in DOMAIN cap : c # b /\ c < b}))) \in Int
  <2>1. {c \in DOMAIN cap : c # b /\ c < b} \in SUBSET DOMAIN cap
    OBVIOUS
  <2> QED BY <2>1, WalkTakes
<1> QED BY <1>1 DEF Walk

\* and those that begin with the fullest bin
LEMMA WalkFullest ==
  ASSUME NEW inv \in InventoryType, NEW i \in Items, NEW need \in Int
  PROVE  /\ \A b \in Bins : ReserveTaken(inv, i, need)[b] \in Int
         /\ Reserved(inv, i, need) \in Nat
<1> DEFINE cap == [b \in Bins |-> AtLeast0(Available(inv, i, b))]
           before(b) == {c \in DOMAIN cap : c # b /\ (cap[c] > cap[b] \/ (cap[c] = cap[b] /\ c < b))}
<1>1. DOMAIN cap = Bins /\ \A b \in Bins : cap[b] \in Int
  BY YardRows DEF InventoryType, Available, AtLeast0
<1>2. ASSUME NEW b \in Bins
      PROVE  ReserveTaken(inv, i, need)[b] \in Int
  <2>1. ReserveTaken(inv, i, need)[b] = Least(cap[b], AtLeast0(need - Total(cap, before(b))))
    BY DEF ReserveTaken, Walk
  <2>2. before(b) \in SUBSET Bins
    OBVIOUS
  <2> HIDE DEF cap, before
  <2> QED BY <1>1, <2>1, <2>2, YardRows, WalkTakes
<1>3. Total(ReserveTaken(inv, i, need), Bins) \in Nat
  BY <1>2, YardRows, TotalOfInts
<1> QED BY <1>2, <1>3 DEF Reserved

-----------------------------------------------------------------------------
(* The inventory functions *)

LEMMA RowNumbers ==
  ASSUME NEW inv \in InventoryType, NEW r \in Rows
  PROVE  inv[r].on_hand \in Int /\ inv[r].allocated \in Int
  BY DEF InventoryType

LEMMA RowPut ==
  ASSUME NEW inv \in InventoryType, NEW r, NEW q, r \in Rows => q \in Int
  PROVE  /\ [inv EXCEPT ![r].on_hand = q] \in InventoryType
         /\ [inv EXCEPT ![r].allocated = q] \in InventoryType
  BY DEF InventoryType

LEMMA ShelfInts ==
  ASSUME NEW inv \in InventoryType, NEW i, NEW b, NEW q, <<i, b>> \in Rows => q \in Int
  PROVE  /\ add_inventory(inv, i, b, q) \in InventoryType
         /\ [inv EXCEPT ![<<i, b>>].on_hand = @ - q] \in InventoryType
         /\ take_floored(inv, i, b, q) \in InventoryType
         /\ release_floored(inv, i, b, q) \in InventoryType
<1> DEFINE r == <<i, b>>
           row == inv[r]
<1>1. /\ r \in Rows => row.on_hand + q \in Int
      /\ r \in Rows => row.on_hand - q \in Int
      /\ r \in Rows => AtLeast0(row.on_hand - q) \in Int
      /\ r \in Rows => AtLeast0(row.allocated - q) \in Int
  BY RowNumbers DEF AtLeast0
<1>2. /\ add_inventory(inv, i, b, q) = [inv EXCEPT ![r].on_hand = row.on_hand + q]
      /\ [inv EXCEPT ![<<i, b>>].on_hand = @ - q] = [inv EXCEPT ![r].on_hand = row.on_hand - q]
      /\ take_floored(inv, i, b, q) = [inv EXCEPT ![r].on_hand = AtLeast0(row.on_hand - q)]
      /\ release_floored(inv, i, b, q) = [inv EXCEPT ![r].allocated = AtLeast0(row.allocated - q)]
  BY DEF add_inventory, take_floored, release_floored
<1> HIDE DEF r, row
<1>3. /\ [inv EXCEPT ![r].on_hand = row.on_hand + q] \in InventoryType
      /\ [inv EXCEPT ![r].on_hand = row.on_hand - q] \in InventoryType
      /\ [inv EXCEPT ![r].on_hand = AtLeast0(row.on_hand - q)] \in InventoryType
      /\ [inv EXCEPT ![r].allocated = AtLeast0(row.allocated - q)] \in InventoryType
  BY <1>1, RowPut
<1> QED BY <1>2, <1>3

\* a row at a time
LEMMA RowsInts ==
  ASSUME NEW f, \A r \in Rows : f[r] \in [on_hand : Int, allocated : Int]
  PROVE  [r \in Rows |-> f[r]] \in InventoryType
  BY DEF InventoryType

LEMMA ReleaseInts ==
  ASSUME NEW inv \in InventoryType, NEW i, NEW need, i \in Items => need \in Int
  PROVE  ReleaseWalk(inv, i, need) \in InventoryType
<1> DEFINE cap == [b \in Bins |-> AtLeast0(inv[<<i, b>>].allocated)]
           taken == Walk(cap, need, LAMBDA c, b : c < b)
           new == [r \in Rows |-> IF r[1] = i THEN [inv[r] EXCEPT !.allocated = @ - taken[r[2]]]
                                  ELSE inv[r]]
<1>1. ReleaseWalk(inv, i, need) = new
  BY DEF ReleaseWalk
<1>2. ASSUME i \in Items PROVE \A b \in Bins : taken[b] \in Int
  <2>1. DOMAIN cap = Bins /\ \A b \in Bins : cap[b] \in Int
    BY <1>2, YardRows DEF InventoryType, AtLeast0
  <2> HIDE DEF cap
  <2> QED BY <1>2, <2>1, YardRows, WalkInOrder
<1> HIDE DEF taken, cap
<1>3. ASSUME NEW r \in Rows PROVE new[r] \in [on_hand : Int, allocated : Int]
  <2>1. inv[r] \in [on_hand : Int, allocated : Int] /\ r[1] \in Items /\ r[2] \in Bins
    BY YardRows DEF InventoryType
  <2>2. CASE r[1] = i
    BY <1>2, <2>1, <2>2
  <2>3. CASE r[1] # i
    BY <2>1, <2>3
  <2> QED BY <2>2, <2>3
<1>4. new \in InventoryType
  BY <1>3 DEF InventoryType
<1> HIDE DEF new
<1> QED BY <1>1, <1>4

LEMMA ReserveInts ==
  ASSUME NEW inv \in InventoryType, NEW i, NEW need, i \in Items => need \in Int
  PROVE  ReserveWalk(inv, i, need) \in InventoryType
<1> DEFINE taken == ReserveTaken(inv, i, need)
           new == [r \in Rows |-> IF r[1] = i THEN [inv[r] EXCEPT !.allocated = @ + taken[r[2]]]
                                  ELSE inv[r]]
<1>1. ReserveWalk(inv, i, need) = new
  BY DEF ReserveWalk
<1>2. ASSUME i \in Items PROVE \A b \in Bins : taken[b] \in Int
  BY <1>2, WalkFullest
<1> HIDE DEF taken
<1>3. ASSUME NEW r \in Rows PROVE new[r] \in [on_hand : Int, allocated : Int]
  <2>1. inv[r] \in [on_hand : Int, allocated : Int] /\ r[1] \in Items /\ r[2] \in Bins
    BY YardRows DEF InventoryType
  <2>2. CASE r[1] = i
    BY <1>2, <2>1, <2>2
  <2>3. CASE r[1] # i
    BY <2>1, <2>3
  <2> QED BY <2>2, <2>3
<1>4. new \in InventoryType
  BY <1>3 DEF InventoryType
<1> HIDE DEF new
<1> QED BY <1>1, <1>4

-----------------------------------------------------------------------------
(* What a session writes *)

LEMMA LineNumbers ==
  ASSUME NEW db, Ints(db), NEW l \in Lines
  PROVE  /\ DOMAIN db.line[l] = LineFields
         /\ db.line[l].ordered \in Int /\ db.line[l].allocated \in Int /\ db.line[l].picked \in Int
  BY DEF Ints, IntLines, IntLine, Tables, LineShape

\* the quantities of a set of tasks
LEMMA TaskSums ==
  ASSUME NEW T, IntTasks(T), NEW S \in SUBSET T
  PROVE  Quantity(S) \in Nat /\ Picked(S) \in Nat
<1>1. IsFiniteSet(S) /\ \A t \in S : t.qty \in Int /\ t.picked \in Int
  BY FS_Subset DEF IntTasks, IntTask
<1>2. \A t \in S : [x \in S |-> x.qty][t] \in Int /\ [x \in S |-> x.picked][t] \in Int
  BY <1>1
<1> QED BY <1>1, <1>2, TotalOfInts DEF Quantity, Picked, SumOver

LEMMA MapSums ==
  ASSUME NEW m, IntMap(m), NEW L, L \subseteq DOMAIN m
  PROVE  /\ IsFiniteSet(DOMAIN m) /\ Total(m, L) \in Nat
         /\ Total([l \in L |-> m[l]], L) \in Nat
<1>1. DOMAIN m \in SUBSET Lines
  BY DEF IntMap
<1>2. IsFiniteSet(DOMAIN m)
  BY <1>1, YardRows, FS_Subset
<1>3. IsFiniteSet(L) /\ \A l \in L : m[l] \in Int /\ [k \in L |-> m[k]][l] \in Int
  BY <1>2, FS_Subset DEF IntMap
<1> QED BY <1>2, <1>3, TotalOfInts

LEMMA PlanMaps ==
  ASSUME NEW db, Ints(db), NEW O
  PROVE  IntMap(Standing(db, O)) /\ IntMap(Needs(db, O))
<1> DEFINE L == {m \in LiveLines(db) : m[1] \in O /\ db.line[m].allocated > db.line[m].picked}
           M == {m \in LiveLines(db) : m[1] \in O /\ db.line[m].ordered > db.line[m].allocated}
<1>1. L \subseteq Lines /\ M \subseteq Lines
  BY DEF LiveLines
<1>2. /\ DOMAIN Standing(db, O) = L /\ \A l \in L : Standing(db, O)[l] = db.line[l].allocated - db.line[l].picked
      /\ DOMAIN Needs(db, O) = M /\ \A l \in M : Needs(db, O)[l] = db.line[l].ordered - db.line[l].allocated
  BY DEF Standing, Needs
<1> HIDE DEF L, M
<1> QED BY <1>1, <1>2, LineNumbers DEF IntMap

LEMMA NormaliseInts ==
  ASSUME NEW db, Ints(db), NEW standing, IntMap(standing)
  PROVE  Ints(_normalize_so_reservations(db, standing))
<1> DEFINE new == _normalize_so_reservations(db, standing)
           held(i) == SumOver(LAMBDA l : standing[l], {l \in DOMAIN standing : l[2] = i})
           freed == [i \in Items |-> ReleaseWalk(db.inv, i, held(i))]
<1>1. /\ new.task = db.task
      /\ new.inv = [r \in Rows |-> freed[r[1]][r]]
      /\ new.line = [l \in Lines |-> IF l \in DOMAIN standing
                                     THEN [db.line[l] EXCEPT !.allocated = db.line[l].picked]
                                     ELSE db.line[l]]
  BY DEF Ints, Tables, _normalize_so_reservations
<1>2. Tables(new)
  BY NormaliseQuiet DEF Quiet, Ints
<1>3. ASSUME NEW i \in Items PROVE held(i) \in Nat
  <2> DEFINE L == {l \in DOMAIN standing : l[2] = i}
  <2>1. held(i) = Total([l \in L |-> standing[l]], L)
    BY DEF SumOver
  <2>2. L \subseteq DOMAIN standing
    OBVIOUS
  <2> HIDE DEF L
  <2> QED BY <2>1, <2>2, MapSums
<1>4. ASSUME NEW i \in Items PROVE freed[i] \in InventoryType
  <2>1. held(i) \in Int
    <3>1. held(i) \in Nat
      BY <1>3
    <3> HIDE DEF held
    <3> QED BY <3>1
  <2>2. freed[i] = ReleaseWalk(db.inv, i, held(i))
    OBVIOUS
  <2> HIDE DEF held, freed
  <2> QED BY <2>1, <2>2, ReleaseInts DEF Ints
<1> HIDE DEF freed, new
<1>5. new.inv \in InventoryType
  <2>1. \A r \in Rows : freed[r[1]][r] \in [on_hand : Int, allocated : Int]
    BY <1>4, YardRows DEF InventoryType
  <2> QED BY <1>1, <2>1 DEF InventoryType
<1>6. IntLines(new.line)
  BY <1>1, LineNumbers DEF IntLines, IntLine, LineFields
<1>7. Ints(new)
  BY <1>1, <1>2, <1>5, <1>6 DEF Ints
<1> QED BY <1>7 DEF new

\* what is taken from each bin for each line
IntTaken(taken) == IsFiniteSet(DOMAIN taken) /\ \A x \in DOMAIN taken : taken[x] \in Int

LEMMA AllocationInts ==
  ASSUME NEW db, Ints(db), NEW need, IntMap(need)
  PROVE  /\ IntTaken(Allocation(db, need))
         /\ DOMAIN Allocation(db, need) = (DOMAIN need) \X Pickable
<1>1. IsFiniteSet(DOMAIN need) /\ DOMAIN need \subseteq Lines
  <2>1. DOMAIN need \subseteq DOMAIN need
    OBVIOUS
  <2> QED BY <2>1, MapSums DEF IntMap
<1>2. IsFiniteSet((DOMAIN need) \X Pickable)
  BY <1>1, YardRows, FS_Product
<1>3. ASSUME NEW l \in DOMAIN need, NEW b \in Pickable PROVE Taken(db, need, l, b) \in Int
  <2> DEFINE lineStart == Total(need, {m \in DOMAIN need : m[2] = l[2] /\ m[1] < l[1]})
             free(c) == AtLeast0(Available(db.inv, l[2], c))
             B == {c \in Pickable : c < b}
             binStart == SumOver(free, B)
             upTo == Least(lineStart + need[l], binStart + free(b))
  <2>1. l[2] \in Items
    BY <1>1 DEF Lines
  <2>2. \A c \in Bins : free(c) \in Int
    BY <2>1, YardRows DEF Ints, InventoryType, Available, AtLeast0
  <2>3. lineStart \in Nat
    <3> DEFINE L == {m \in DOMAIN need : m[2] = l[2] /\ m[1] < l[1]}
    <3>1. L \subseteq DOMAIN need
      OBVIOUS
    <3> HIDE DEF L
    <3> QED BY <3>1, MapSums
  <2>4. binStart \in Nat
    <3>1. B \in SUBSET Pickable
      OBVIOUS
    <3>2. IsFiniteSet(B) /\ B \subseteq Bins
      BY <3>1, YardRows, FS_Subset
    <3> HIDE DEF B
    <3>3. \A c \in B : [x \in B |-> free(x)][c] \in Int
      BY <2>2, <3>2
    <3>4. binStart = Total([x \in B |-> free(x)], B)
      BY DEF SumOver
    <3> HIDE DEF binStart, free
    <3> QED BY <3>2, <3>3, <3>4, TotalOfInts
  <2>5. need[l] \in Int /\ free(b) \in Int
    BY <2>2, YardRows DEF IntMap
  <2>6. Taken(db, need, l, b) = AtLeast0(upTo - MaxOf2(lineStart, binStart))
    BY DEF Taken
  <2> HIDE DEF lineStart, binStart, free
  <2> QED BY <2>3, <2>4, <2>5, <2>6 DEF Least, AtLeast0, MaxOf2
<1>4. /\ DOMAIN Allocation(db, need) = (DOMAIN need) \X Pickable
      /\ \A x \in (DOMAIN need) \X Pickable : Allocation(db, need)[x] \in Int
  BY <1>3 DEF Allocation
<1> QED BY <1>2, <1>4 DEF IntTaken

LEMMA TakenSums ==
  ASSUME NEW taken, IntTaken(taken), NEW X, X \subseteq DOMAIN taken
  PROVE  Total(taken, X) \in Nat /\ IsFiniteSet(X)
<1>1. X \in SUBSET DOMAIN taken
  OBVIOUS
<1> QED BY <1>1, SomeOfInts, FS_Subset DEF IntTaken

\* the rows of a set, rewritten one by one
LEMMA RewrittenFinite ==
  ASSUME NEW S, IsFiniteSet(S), NEW f
  PROVE  IsFiniteSet({f[x] : x \in S})
<1> DEFINE T == {f[x] : x \in S}
           g == [x \in S |-> f[x]]
<1>1. g \in Surjection(S, T)
  BY DEF Surjection
<1> HIDE DEF T, g
<1>2. IsFiniteSet(T)
  BY <1>1, FS_Surjection
<1> QED BY <1>2 DEF T

LEMMA NewTaskInts ==
  ASSUME NEW b, NEW o, NEW i, NEW bin, NEW q \in Int, NEW share, IntShare(share)
  PROVE  IntTask(NewTask(b, o, i, bin, q, share))
  BY DEF IntTask, NewTask, TaskFields

LEMMA LineTasksInts ==
  ASSUME NEW taken, IntTaken(taken), NEW b
  PROVE  IntTasks(LineTasks(taken, b))
<1> DEFINE X == {y \in DOMAIN taken : taken[y] > 0}
           f == [x \in X |-> NewTask(b, x[1][1], x[1][2], x[2], taken[x], NoShare)]
<1>1. IsFiniteSet(X) /\ \A x \in X : taken[x] \in Int
  BY TakenSums DEF IntTaken
<1>2. LineTasks(taken, b) = {f[x] : x \in X}
  BY DEF LineTasks
<1>3. IntShare(NoShare)
  BY FS_EmptySet DEF IntShare, NoShare
<1> HIDE DEF X
<1>4. \A x \in X : IntTask(f[x])
  BY <1>1, <1>3, NewTaskInts
<1>5. IsFiniteSet({f[x] : x \in X})
  <2> HIDE DEF f
  <2> QED BY <1>1, RewrittenFinite
<1> HIDE DEF f
<1> QED BY <1>2, <1>4, <1>5 DEF IntTasks

LEMMA WaveTasksInts ==
  ASSUME NEW taken, IntTaken(taken), NEW L, L \subseteq Lines, DOMAIN taken = L \X Pickable, NEW b
  PROVE  IntTasks(WaveTasks(taken, b))
<1> DEFINE X == {y \in DOMAIN taken : taken[y] > 0}
           f == [x \in X |-> WaveTask(taken, b, x[1][2], x[2])]
<1>1. IsFiniteSet(X)
  BY TakenSums DEF IntTaken
<1>2. WaveTasks(taken, b) = {f[x] : x \in X}
  BY DEF WaveTasks
<1>3. ASSUME NEW x \in X PROVE IntTask(f[x])
  <2> DEFINE i == x[1][2]
             c == x[2]
             P == {p \in Contributors(taken, i) : taken[<< <<p, i>>, c>>] > 0}
             share == [o \in P |-> taken[<< <<o, i>>, c>>]]
  <2>1. c \in Pickable
    OBVIOUS
  <2>2. \A p \in Contributors(taken, i) : << <<p, i>>, c>> \in DOMAIN taken
    <3> SUFFICES ASSUME NEW y \in L, y[2] = i PROVE << <<y[1], i>>, c>> \in DOMAIN taken
      BY DEF Contributors
    <3>1. y = <<y[1], i>>
      BY DEF Lines
    <3> QED BY <2>1, <3>1
  <2>3. \A o \in P : share[o] \in Int
    BY <2>2 DEF IntTaken
  <2>4. IsFiniteSet(P)
    <3>1. P \subseteq Orders
      BY DEF Contributors, Lines
    <3>2. P \in SUBSET Orders /\ IsFiniteSet(Orders)
      BY <3>1, OrdersAssumption
    <3> HIDE DEF P
    <3> QED BY <3>2, FS_Subset
  <2>5. DOMAIN share = P
    OBVIOUS
  <2>6. f[x] = NewTask(b, Min(Contributors(taken, i)), i, c, Total(share, DOMAIN share), share)
    BY DEF WaveTask
  <2> HIDE DEF share, P, i, c, f
  <2>7. IntShare(share) /\ Total(share, DOMAIN share) \in Int
    BY <2>3, <2>4, <2>5, TotalOfInts DEF IntShare
  <2> QED BY <2>6, <2>7, NewTaskInts
<1> HIDE DEF f
<1>4. IsFiniteSet({f[x] : x \in X})
  <2> HIDE DEF X
  <2> QED BY <1>1, RewrittenFinite
<1> QED BY <1>2, <1>3, <1>4 DEF IntTasks

LEMMA ReservedInts ==
  ASSUME NEW db, Ints(db), NEW taken, IntTaken(taken), NEW T, IntTasks(T), NEW b, NEW u, NEW O
  PROVE  Ints(Reserve(db, taken, T, b, u, O))
<1> DEFINE new == Reserve(db, taken, T, b, u, O)
           ofLine(l) == Total(taken, {x \in DOMAIN taken : x[1] = l})
           fromBin(i, c) == Total(taken, {x \in DOMAIN taken : x[1][2] = i /\ x[2] = c})
<1>1. /\ new.task = db.task \cup T
      /\ new.inv = [r \in Rows |-> [db.inv[r] EXCEPT !.allocated = @ + fromBin(r[1], r[2])]]
      /\ new.line = [l \in Lines |-> [db.line[l] EXCEPT !.allocated = @ + ofLine(l)]]
  BY DEF Ints, Tables, Reserve
<1>2. Tables(new)
  BY ReserveQuiet DEF Quiet, Ints
<1>3. \A l : ofLine(l) \in Nat
  <2> SUFFICES ASSUME NEW l PROVE ofLine(l) \in Nat
    OBVIOUS
  <2>1. {x \in DOMAIN taken : x[1] = l} \subseteq DOMAIN taken
    OBVIOUS
  <2> QED BY <2>1, TakenSums
<1>4. \A i, c : fromBin(i, c) \in Nat
  <2> SUFFICES ASSUME NEW i, NEW c PROVE fromBin(i, c) \in Nat
    OBVIOUS
  <2>1. {x \in DOMAIN taken : x[1][2] = i /\ x[2] = c} \subseteq DOMAIN taken
    OBVIOUS
  <2> QED BY <2>1, TakenSums
<1> HIDE DEF new, ofLine, fromBin
<1>5. new.inv \in InventoryType
  <2>1. \A r \in Rows : [db.inv[r] EXCEPT !.allocated = @ + fromBin(r[1], r[2])] \in [on_hand : Int, allocated : Int]
    BY <1>4 DEF Ints, InventoryType
  <2> QED BY <1>1, <2>1 DEF InventoryType
<1>6. IntLines(new.line)
  BY <1>1, <1>3, LineNumbers DEF IntLines, IntLine, LineFields
<1>7. IntTasks(new.task)
  <2>1. IsFiniteSet(db.task \cup T)
    BY FS_Union DEF Ints, IntTasks
  <2>2. \A t \in db.task \cup T : IntTask(t)
    BY DEF Ints, IntTasks
  <2> QED BY <1>1, <2>1, <2>2 DEF IntTasks
<1>8. Ints(new)
  BY <1>2, <1>5, <1>6, <1>7 DEF Ints
<1> QED BY <1>8 DEF new

LEMMA UndoneInts ==
  ASSUME NEW t, IntTask(t)
  PROVE  IntTask(Undone(t))
<1>1. \A s : IntTask([t EXCEPT !.status = s])
  BY DEF IntTask, TaskFields
<1>2. \/ Undone(t) = t \/ Undone(t) = [t EXCEPT !.status = "RELEASED"]
      \/ Undone(t) = [t EXCEPT !.status = "SKIPPED"]
  BY DEF Undone
<1> QED BY <1>1, <1>2

LEMMA TasksRewritten ==
  ASSUME NEW T, IntTasks(T), NEW f, \A t \in T : IntTask(f[t])
  PROVE  IntTasks({f[t] : t \in T})
<1>1. IsFiniteSet({f[t] : t \in T})
  BY RewrittenFinite DEF IntTasks
<1> QED BY <1>1 DEF IntTasks

LEMMA RevertInts ==
  ASSUME NEW db, Ints(db), NEW B
  PROVE  Ints(full_revert_batch(db, B))
<1> DEFINE new == full_revert_batch(db, B)
           T == {t \in db.task : /\ t.batch \in B /\ db.batch[t.batch].status = "OPEN"
                                 /\ t.status \in {"PENDING", "PICKED", "SHORT"}}
           at(r) == {t \in T : t.item = r[1] /\ t.bin = r[2]}
           pending(r) == Quantity({t \in at(r) : t.status = "PENDING"})
           put(r) == Picked(at(r))
           picked(l) == Picked({t \in T : t.line = l})
           held(l) == Quantity({t \in T : t.line = l})
           undone == [t \in db.task |-> IF t \in T THEN Undone(t) ELSE t]
<1>1. /\ new.task = {undone[t] : t \in db.task}
      /\ new.inv = [r \in Rows |-> [on_hand   |-> db.inv[r].on_hand + put(r),
                                    allocated |-> IF pending(r) = 0 THEN db.inv[r].allocated
                                                  ELSE AtLeast0(db.inv[r].allocated - pending(r))]]
      /\ new.line = [l \in Lines |-> [db.line[l] EXCEPT !.picked = AtLeast0(@ - picked(l)),
                                                        !.allocated = AtLeast0(@ - held(l))]]
  BY DEF Ints, Tables, full_revert_batch
<1>2. Tables(new)
  BY RevertQuiet DEF Quiet, Ints
<1>3. \A S \in SUBSET db.task : Quantity(S) \in Nat /\ Picked(S) \in Nat
  BY TaskSums DEF Ints
<1>4. \A r : pending(r) \in Nat /\ put(r) \in Nat
  <2> SUFFICES ASSUME NEW r PROVE pending(r) \in Nat /\ put(r) \in Nat
    OBVIOUS
  <2>1. at(r) \in SUBSET db.task /\ {t \in at(r) : t.status = "PENDING"} \in SUBSET db.task
    OBVIOUS
  <2> HIDE DEF at
  <2> QED BY <1>3, <2>1
<1>5. \A l : picked(l) \in Nat /\ held(l) \in Nat
  <2> SUFFICES ASSUME NEW l PROVE picked(l) \in Nat /\ held(l) \in Nat
    OBVIOUS
  <2>1. {t \in T : t.line = l} \in SUBSET db.task
    OBVIOUS
  <2> HIDE DEF T
  <2> QED BY <1>3, <2>1
<1>6. IntTasks(new.task)
  <2>1. \A t \in db.task : IntTask(undone[t])
    BY UndoneInts DEF Ints, IntTasks
  <2>2. IntTasks(db.task)
    BY DEF Ints
  <2> HIDE DEF undone, new
  <2>3. IntTasks({undone[t] : t \in db.task})
    BY <2>1, <2>2, TasksRewritten
  <2> QED BY <1>1, <2>3
<1> HIDE DEF new, pending, put, picked, held, undone
<1>7. new.inv \in InventoryType
  <2>1. ASSUME NEW r \in Rows PROVE new.inv[r] \in [on_hand : Int, allocated : Int]
    <3>1. db.inv[r].on_hand \in Int /\ db.inv[r].allocated \in Int
      BY RowNumbers DEF Ints
    <3>2. db.inv[r].on_hand + put(r) \in Int
      BY <1>4, <3>1
    <3>3. (IF pending(r) = 0 THEN db.inv[r].allocated ELSE AtLeast0(db.inv[r].allocated - pending(r))) \in Int
      BY <1>4, <3>1 DEF AtLeast0
    <3> DEFINE p == db.inv[r].on_hand + put(r)
               q == IF pending(r) = 0 THEN db.inv[r].allocated ELSE AtLeast0(db.inv[r].allocated - pending(r))
    <3>4. new.inv[r] = [on_hand |-> p, allocated |-> q]
      BY <1>1
    <3>5. p \in Int /\ q \in Int
      BY <3>2, <3>3
    <3> HIDE DEF p, q
    <3> QED BY <3>4, <3>5
  <2> QED BY <1>1, <2>1 DEF InventoryType
<1>8. IntLines(new.line)
  <2> SUFFICES ASSUME NEW l \in Lines PROVE IntLine(new.line[l])
    BY DEF IntLines
  <2> DEFINE p == AtLeast0(db.line[l].picked - picked(l))
             q == AtLeast0(db.line[l].allocated - held(l))
  <2>1. new.line[l] = [db.line[l] EXCEPT !.picked = p, !.allocated = q]
    BY <1>1, LineNumbers DEF LineFields
  <2>2. p \in Int /\ q \in Int
    BY <1>5, LineNumbers DEF AtLeast0
  <2> HIDE DEF p, q
  <2> QED BY <2>1, <2>2, LineNumbers DEF IntLine, LineFields
<1>9. Ints(new)
  BY <1>2, <1>6, <1>7, <1>8 DEF Ints
<1> QED BY <1>9 DEF new

LEMMA TakenFromShelf ==
  ASSUME NEW db, Ints(db), NEW t, IntTask(t), NEW q \in Int
  PROVE  TakeFromShelf(db, t, q) \in InventoryType
<1> DEFINE inv == take_floored(db.inv, t.item, t.bin, q)
<1>1. inv \in InventoryType
  BY ShelfInts DEF Ints
<1>2. t.qty \in Int
  BY DEF IntTask
<1> HIDE DEF inv
<1>3. release_floored(inv, t.item, t.bin, t.qty) \in InventoryType
  BY <1>1, <1>2, ShelfInts
<1> QED BY <1>3 DEF TakeFromShelf, inv

LEMMA PickedInts ==
  ASSUME NEW db, Ints(db), NEW gain, \A l \in DOMAIN gain : gain[l] \in Int
  PROVE  IntLines(AddPicked(db, gain))
  BY LineNumbers DEF AddPicked, IntLines, IntLine, LineFields

LEMMA WrittenInts ==
  ASSUME NEW T, IntTasks(T), NEW t, NEW new, new.picked \in Int, NEW db, db.task = T
  PROVE  IntTasks(WriteTask(db, t, new))
<1> DEFINE f == [s \in T |-> IF s.id = t.id THEN [s EXCEPT !.status = new.status, !.picked = new.picked,
                                                            !.shorted = @ \cup new.shorted] ELSE s]
<1>1. WriteTask(db, t, new) = {f[s] : s \in T}
  BY DEF WriteTask
<1>2. \A s \in T : IntTask(f[s])
  BY DEF IntTasks, IntTask, TaskFields
<1> HIDE DEF f
<1> QED BY <1>1, <1>2, TasksRewritten

LEMMA SharedInts ==
  ASSUME NEW db, NEW t, NEW share, \A o \in DOMAIN t.share : share[o] \in Int
  PROVE  \A l \in DOMAIN Shared(db, t, share) : Shared(db, t, share)[l] \in Int
<1>1. WithLine(db, t) \subseteq DOMAIN t.share
  BY DEF WithLine
<1>2. \A o \in WithLine(db, t) : share[<<o, t.item>>[1]] \in Int
  BY <1>1
<1> QED BY <1>2 DEF Shared

LEMMA PickInts ==
  ASSUME NEW db, Ints(db), NEW t, IntTask(t), NEW q \in Int
  PROVE  Ints(confirm_pick(db, t, q))
<1> DEFINE new == confirm_pick(db, t, q)
           gain == IF IsWaveTask(t) THEN Shared(db, t, t.share) ELSE [l \in {t.line} |-> q]
           row == [status |-> "PICKED", picked |-> q, shorted |-> {}]
<1>1. /\ new.inv = TakeFromShelf(db, t, q) /\ new.line = AddPicked(db, gain)
      /\ new.task = WriteTask(db, t, row)
  BY DEF Ints, Tables, confirm_pick
<1>2. Tables(new)
  BY PickQuiet DEF Quiet, Ints
<1>3. \A l \in DOMAIN gain : gain[l] \in Int
  <2>1. \A l \in DOMAIN Shared(db, t, t.share) : Shared(db, t, t.share)[l] \in Int
    BY SharedInts DEF IntTask, IntShare
  <2> QED BY <2>1
<1>4. row.picked \in Int
  OBVIOUS
<1> HIDE DEF new, gain, row
<1>5. new.inv \in InventoryType
  BY <1>1, TakenFromShelf
<1>6. IntLines(new.line)
  BY <1>1, <1>3, PickedInts
<1>7. IntTasks(new.task)
  BY <1>1, <1>4, WrittenInts DEF Ints
<1>8. Ints(new)
  BY <1>2, <1>5, <1>6, <1>7 DEF Ints
<1> QED BY <1>8 DEF new

LEMMA ShortInts ==
  ASSUME NEW db, Ints(db), NEW t, IntTask(t), NEW q \in Int
  PROVE  Ints(short_pick(db, t, q))
<1> DEFINE new == short_pick(db, t, q)
           given == Given(t, q)
           gain == IF IsWaveTask(t) THEN Shared(db, t, given) ELSE [l \in {t.line} |-> q]
           row == [status |-> "SHORT", picked |-> q, shorted |-> {o \in WithLine(db, t) : given[o] < t.share[o]}]
<1>1. /\ new.inv = TakeFromShelf(db, t, q) /\ new.line = AddPicked(db, gain)
      /\ new.task = WriteTask(db, t, row)
  BY DEF Ints, Tables, short_pick
<1>2. Tables(new)
  BY PickQuiet DEF Quiet, Ints
<1>3. \A o \in DOMAIN t.share : given[o] \in Int
  <2>1. IsFiniteSet(DOMAIN t.share) /\ \A o \in DOMAIN t.share : t.share[o] \in Int
    BY DEF IntTask, IntShare
  <2> DEFINE share == t.share
  <2> HIDE DEF share
  <2>2. \A o \in DOMAIN share : Walk(share, q, LAMBDA n, p : n < p)[o] \in Int
    BY <2>1, WalkInOrder DEF share
  <2> QED BY <2>2 DEF Given, share
<1>4. \A l \in DOMAIN gain : gain[l] \in Int
  <2> HIDE DEF given
  <2>1. \A l \in DOMAIN Shared(db, t, given) : Shared(db, t, given)[l] \in Int
    BY <1>3, SharedInts
  <2> QED BY <2>1
<1>5. row.picked \in Int
  OBVIOUS
<1> HIDE DEF new, gain, row
<1>6. new.inv \in InventoryType
  BY <1>1, TakenFromShelf
<1>7. IntLines(new.line)
  BY <1>1, <1>4, PickedInts
<1>8. IntTasks(new.task)
  BY <1>1, <1>5, WrittenInts DEF Ints
<1>9. Ints(new)
  BY <1>2, <1>6, <1>7, <1>8 DEF Ints
<1> QED BY <1>9 DEF new

LEMMA UnwindInts ==
  ASSUME NEW db, Ints(db), NEW o \in Orders
  PROVE  Ints(_unwind_allocated(db, o)) /\ Ints(_unwind_picked_or_packed(db, o))
<1>1. Ints(_unwind_allocated(db, o))
  <2> DEFINE new == _unwind_allocated(db, o)
             pending(r) == {t \in db.task : /\ t.status = "PENDING" /\ t.bin = r[2]
                                            /\ t.line = <<o, r[1]>>
                                            /\ db.line[<<o, r[1]>>].allocated > 0}
             held(r) == Quantity(pending(r))
  <2>1. /\ new.inv = [r \in Rows |-> [db.inv[r] EXCEPT !.allocated = @ - held(r)]]
        /\ new.line = [l \in Lines |-> IF l[1] = o THEN [db.line[l] EXCEPT !.allocated = 0]
                                       ELSE db.line[l]]
        /\ new.task = {t \in db.task : t.order # o}
    BY DEF Ints, Tables, _unwind_allocated
  <2>2. Tables(new)
    BY UnwindQuiet DEF Quiet, Ints
  <2>3. \A r : held(r) \in Nat
    <3> SUFFICES ASSUME NEW r PROVE held(r) \in Nat
      OBVIOUS
    <3>1. pending(r) \in SUBSET db.task
      OBVIOUS
    <3> HIDE DEF pending
    <3> QED BY <3>1, TaskSums DEF Ints
  <2> HIDE DEF new, held
  <2>4. new.inv \in InventoryType
    <3>1. \A r \in Rows : [db.inv[r] EXCEPT !.allocated = @ - held(r)] \in [on_hand : Int, allocated : Int]
      BY <2>3 DEF Ints, InventoryType
    <3> QED BY <2>1, <3>1 DEF InventoryType
  <2>5. IntLines(new.line)
    BY <2>1, LineNumbers DEF IntLines, IntLine, LineFields
  <2>6. IntTasks(new.task)
    <3>1. new.task \in SUBSET db.task
      BY <2>1
    <3> QED BY <3>1, FS_Subset DEF Ints, IntTasks
  <2>7. Ints(new)
    BY <2>2, <2>4, <2>5, <2>6 DEF Ints
  <2> QED BY <2>7 DEF new
<1>2. Ints(_unwind_picked_or_packed(db, o))
  <2> DEFINE new == _unwind_picked_or_packed(db, o)
  <2>1. /\ new.inv = [r \in Rows |-> IF r[2] = ReceivingBin
                                     THEN [db.inv[r] EXCEPT !.on_hand = @ + db.line[<<o, r[1]>>].picked]
                                     ELSE db.inv[r]]
        /\ new.line = [l \in Lines |-> IF l[1] = o /\ db.line[l].picked > 0
                                       THEN [db.line[l] EXCEPT !.picked = 0, !.packed = 0]
                                       ELSE db.line[l]]
        /\ new.task = db.task
    BY DEF Ints, Tables, _unwind_picked_or_packed
  <2>2. Tables(new)
    BY UnwindQuiet DEF Quiet, Ints
  <2> HIDE DEF new
  <2>3. new.inv \in InventoryType
    <3>1. ASSUME NEW r \in Rows PROVE new.inv[r] \in [on_hand : Int, allocated : Int]
      <4>1. <<o, r[1]>> \in Lines
        BY YardRows DEF Lines
      <4>2. db.line[<<o, r[1]>>].picked \in Int /\ db.inv[r] \in [on_hand : Int, allocated : Int]
        BY <4>1, LineNumbers DEF Ints, InventoryType
      <4>3. [db.inv[r] EXCEPT !.on_hand = @ + db.line[<<o, r[1]>>].picked] \in [on_hand : Int, allocated : Int]
        BY <4>2
      <4>4. \/ new.inv[r] = [db.inv[r] EXCEPT !.on_hand = @ + db.line[<<o, r[1]>>].picked]
            \/ new.inv[r] = db.inv[r]
        BY <2>1
      <4> QED BY <4>2, <4>3, <4>4
    <3> QED BY <2>1, <3>1 DEF InventoryType
  <2>4. IntLines(new.line)
    <3> SUFFICES ASSUME NEW l \in Lines PROVE IntLine(new.line[l])
      BY DEF IntLines
    <3>1. IntLine(db.line[l]) /\ DOMAIN db.line[l] = LineFields
      BY LineNumbers DEF IntLine
    <3>2. IntLine([db.line[l] EXCEPT !.picked = 0, !.packed = 0])
      BY <3>1 DEF IntLine, LineFields
    <3>3. new.line[l] = db.line[l] \/ new.line[l] = [db.line[l] EXCEPT !.picked = 0, !.packed = 0]
      BY <2>1
    <3> QED BY <3>1, <3>2, <3>3
  <2>5. Ints(new)
    BY <2>1, <2>2, <2>3, <2>4 DEF Ints
  <2> QED BY <2>5 DEF new
<1> QED BY <1>1, <1>2

LEMMA CancelOneInts ==
  ASSUME NEW db, Ints(db), NEW o \in Orders
  PROVE  Ints(CancelOne(db, o))
<1> DEFINE unwound == CASE db.order[o].status = "OPEN"                -> _unwind_allocated(db, o)
                        [] db.order[o].status \in {"PICKED", "PACKED"} -> _unwind_picked_or_packed(db, o)
                        [] OTHER                                      -> db
           new == [unwound EXCEPT !.order[o].status = "CANCELLED"]
<1>1. Ints(unwound)
  BY UnwindInts
<1>2. CancelOne(db, o) = new
  BY DEF CancelOne
<1> HIDE DEF unwound
<1>3. new.inv = unwound.inv /\ new.line = unwound.line /\ new.task = unwound.task
  OBVIOUS
<1>4. Tables(new)
  BY <1>1, StatusQuiet DEF Quiet, Ints
<1> HIDE DEF new
<1> QED BY <1>1, <1>2, <1>3, <1>4 DEF Ints

LEMMA CancelledInts ==
  ASSUME NEW db, Ints(db), NEW o \in Orders
  PROVE  Ints(Cancelled(db, o))
<1> DEFINE parent == CancelOne(db, o)
           below == BackordersOf(parent, o)
<1>1. Ints(parent)
  BY CancelOneInts
<1>2. below # {} => Min(below) \in Orders
  <2>1. below \subseteq Orders /\ below \subseteq Nat
    BY OrdersAssumption DEF BackordersOf
  <2> HIDE DEF below
  <2> QED BY <2>1, MinOfRows
<1>3. below # {} => Ints(CancelOne(parent, Min(below)))
  <2> HIDE DEF parent, below
  <2> QED BY <1>1, <1>2, CancelOneInts
<1>4. Cancelled(db, o) = parent \/ (below # {} /\ Cancelled(db, o) = CancelOne(parent, Min(below)))
  BY DEF Cancelled
<1> HIDE DEF parent, below
<1> QED BY <1>1, <1>3, <1>4

LEMMA NewLineInts ==
  /\ \A q \in Int : IntLine(NewLine(q)) /\ DOMAIN NewLine(q) = LineFields
  /\ \A q, n \in Int : LET row == [NewLine(q) EXCEPT !.allocated = n]
                       IN  IntLine(row) /\ DOMAIN row = LineFields
  BY DEF NewLine, NoLine, IntLine, LineFields

LEMMA EntryInts ==
  ASSUME NEW db, Ints(db), NEW o, NEW cart, \A i \in DOMAIN cart : cart[i] \in Int
  PROVE  Ints(Entered(db, o, cart))
<1> DEFINE new == Entered(db, o, cart)
           reserved(i) == Reserved(db.inv, i, cart[i])
           walk(i) == ReserveWalk(db.inv, i, cart[i])
<1>1. /\ DOMAIN new = {"inv", "order", "line", "batch", "task"} /\ new.task = db.task
      /\ new.order = [db.order EXCEPT ![o] = [NoOrder EXCEPT !.status = "OPEN"]]
      /\ new.line = [l \in Lines |-> IF l[1] = o /\ l[2] \in DOMAIN cart
                                     THEN [NewLine(cart[l[2]]) EXCEPT !.allocated = reserved(l[2])]
                                     ELSE db.line[l]]
      /\ new.inv = [r \in Rows |-> IF r[1] \in DOMAIN cart THEN walk(r[1])[r] ELSE db.inv[r]]
  BY DEF Entered, Ints, Tables
<1>2. ASSUME NEW i \in Items, i \in DOMAIN cart
      PROVE  reserved(i) \in Int /\ walk(i) \in InventoryType
  <2>1. cart[i] \in Int /\ db.inv \in InventoryType
    BY <1>2 DEF Ints
  <2> QED BY <2>1, WalkFullest, ReserveInts
<1> HIDE DEF new, reserved, walk
<1>3. new.inv \in InventoryType
  <2>1. ASSUME NEW r \in Rows PROVE new.inv[r] \in [on_hand : Int, allocated : Int]
    <3>1. r[1] \in Items /\ db.inv[r] \in [on_hand : Int, allocated : Int]
      BY YardRows DEF Ints, InventoryType
    <3>2. r[1] \in DOMAIN cart => walk(r[1])[r] \in [on_hand : Int, allocated : Int]
      BY <1>2, <3>1 DEF InventoryType
    <3> QED BY <1>1, <3>1, <3>2
  <2> QED BY <1>1, <2>1 DEF InventoryType
<1>4. ASSUME NEW l \in Lines PROVE IntLine(new.line[l]) /\ DOMAIN new.line[l] = LineFields
  <2>1. CASE l[1] = o /\ l[2] \in DOMAIN cart
    <3>1. l[2] \in Items
      BY DEF Lines
    <3>2. reserved(l[2]) \in Int /\ cart[l[2]] \in Int
      BY <1>2, <2>1, <3>1
    <3>3. new.line[l] = [NewLine(cart[l[2]]) EXCEPT !.allocated = reserved(l[2])]
      BY <1>1, <2>1
    <3> QED BY <3>2, <3>3, NewLineInts
  <2>2. CASE ~ (l[1] = o /\ l[2] \in DOMAIN cart)
    BY <1>1, <2>2, LineNumbers DEF IntLine
  <2> QED BY <2>1, <2>2
<1>5. Tables(new)
  <2>1. OrderShape(new.order)
    BY <1>1 DEF Ints, Tables, OrderShape, NoOrder
  <2>2. LineShape(new.line)
    BY <1>1, <1>4 DEF LineShape
  <2> QED BY <1>1, <2>1, <2>2 DEF Tables
<1>6. Ints(new)
  BY <1>1, <1>3, <1>4, <1>5 DEF Ints, IntLines
<1> QED BY <1>6 DEF new

-----------------------------------------------------------------------------
(* The steps *)

Numbers == inventory \in InventoryType /\ IntLines(line) /\ IntTasks(task)

\* what a request has read
ReviewRow(a) == DOMAIN a = {"count", "item", "bin", "change", "status"} /\ a.change \in Int
RequestInts(m) ==
  /\ m.op \in {"wave", "batch"} => IntMap(m.standing) /\ ((m.needs = NULL /\ ~m.planned) \/ IntMap(m.needs))
  /\ m.op \in {"confirm", "short"} => IntTask(m.task) /\ m.q \in Int
  /\ m.op = "transfer" => m.left \in Int /\ m.q \in Int
  /\ m.op = "review" => /\ ReviewRow(m.row)
                        /\ <<m.row.item, m.row.bin>> \in Rows => m.new \in Int
RequestsInts == DOMAIN request = Requests /\ \A r \in Requests : RequestInts(request[r])

\* what a count expects, and what its review is about
CountsInts ==
  /\ DOMAIN count = Counts
  /\ \A c \in Counts : count[c] # NULL =>
       /\ DOMAIN count[c] = {"status", "bin", "expected"}
       /\ \A i \in DOMAIN count[c].expected : count[c].expected[i] \in Int
  /\ \A a \in review : ReviewRow(a)

YardNumbers == Numbers /\ RequestsInts /\ CountsInts

LEMMA DbInts == Ints(Db) <=> Numbers /\ Shaped
<1>1. Tables(Db) <=> Shaped
  BY DbTables
<1>2. Db.inv = inventory /\ Db.line = line /\ Db.task = task
  BY DEF Db
<1> QED BY <1>1, <1>2 DEF Ints, Numbers

LEMMA CommitInts ==
  ASSUME NEW new, Ints(new), Commit(new)
  PROVE  Numbers'
  BY DEF Ints, Commit, Numbers

LEMMA ShelveInts ==
  ASSUME Numbers, NEW inv \in InventoryType, Shelve(inv), UNCHANGED task
  PROVE  Numbers'
  BY DEF Shelve, Numbers

LEMMA LandInts ==
  ASSUME Numbers, NEW op, NEW by, NEW rows, NEW q, NEW inv \in InventoryType, Land(op, by, rows, q, inv), UNCHANGED task
  PROVE  Numbers'
  BY DEF Land, Numbers

\* a look writes no shelf and no line
LEMMA LookInts ==
  ASSUME YardNumbers, Looking
  PROVE  YardNumbers'
<1>1. UNCHANGED <<inventory, line, task, request, count, review>>
  BY DEF Looking, orderVars, desksVars
<1> QED BY <1>1 DEF YardNumbers, Numbers, RequestsInts, CountsInts

LEMMA RequestPut ==
  ASSUME RequestsInts, NEW r, NEW m, RequestInts(m), request' = [request EXCEPT ![r] = m]
  PROVE  RequestsInts'
<1>1. DOMAIN request' = Requests
  BY DEF RequestsInts
<1>2. \A s \in Requests : request'[s] = m \/ request'[s] = request[s]
  BY DEF RequestsInts
<1>3. \A s \in Requests : RequestInts(request'[s])
  BY <1>2 DEF RequestsInts
<1> QED BY <1>1, <1>3 DEF RequestsInts

LEMMA IdleInts == RequestInts(Idle)
  BY DEF RequestInts, Idle

LEMMA StillCounts == CountsInts /\ UNCHANGED <<count, review>> => CountsInts'
  BY DEF CountsInts

LEMMA StillRequests == RequestsInts /\ UNCHANGED request => RequestsInts'
  BY DEF RequestsInts

LEMMA DeskNumbers ==
  ASSUME desk \in Desks
  PROVE  /\ Quantities \subseteq Nat /\ desk.items \subseteq Items /\ desk.docks \subseteq Bins
         /\ \A cart \in Carts : DOMAIN cart \subseteq Items /\ \A i \in DOMAIN cart : cart[i] \in Nat
<1>1. Quantities \subseteq Nat
  BY OrderedAssumption DEF Quantities
<1>2. desk.items \subseteq Items /\ desk.docks \subseteq Bins
  BY DesksAssumption
<1>3. ASSUME NEW cart \in Carts PROVE DOMAIN cart \subseteq Items /\ \A i \in DOMAIN cart : cart[i] \in Nat
  <2>1. PICK I \in SUBSET desk.items : cart \in [I -> Quantities]
    BY DEF Carts
  <2> QED BY <1>1, <1>2, <2>1
<1> QED BY <1>1, <1>2, <1>3

LEMMA ReceivingInts ==
  ASSUME YardNumbers, GoodsInv, desk \in Desks, Receiving, UNCHANGED task
  PROVE  YardNumbers'
<1>1. Numbers /\ RequestsInts /\ CountsInts /\ inventory \in InventoryType
  BY DEF YardNumbers, Numbers
<1>2. ASSUME NEW p, NEW i, NEW q \in Quantities, NEW b, receive_items(p, i, q, b) PROVE YardNumbers'
  <2>1. add_inventory(inventory, i, b, q) \in InventoryType
    <3>1. q \in Int
      BY DeskNumbers
    <3> QED BY <1>1, <3>1, ShelfInts
  <2>2. /\ Land("receive", p, {<<i, b>>}, q, add_inventory(inventory, i, b, q))
        /\ UNCHANGED <<request, count, review>>
    BY <1>2 DEF receive_items
  <2> QED BY <1>1, <2>1, <2>2, LandInts, StillCounts, StillRequests DEF YardNumbers
<1>3. ASSUME NEW r, NEW g, BeginCancelReceiving(r, g) PROVE YardNumbers'
  <2>1. /\ Shelve(inventory) /\ UNCHANGED <<count, review>>
        /\ request' = [request EXCEPT ![r] = [op |-> "cancel_receiving", goods |-> g]]
    BY <1>3 DEF BeginCancelReceiving, stockroomVars, desksVars
  <2>2. RequestInts([op |-> "cancel_receiving", goods |-> g])
    BY DEF RequestInts
  <2> QED BY <1>1, <2>1, <2>2, ShelveInts, StillCounts, RequestPut DEF YardNumbers
<1>4. ASSUME NEW r \in Requests, FinishCancelReceiving(r) PROVE YardNumbers'
  <2> DEFINE g == request[r].goods
             inv == take_floored(inventory, g.item, g.bin, g.q)
  <2>1. Shelve(inv) /\ UNCHANGED <<count, review>> /\ request' = [request EXCEPT ![r] = Idle]
        /\ request[r].op = "cancel_receiving"
    BY <1>4 DEF FinishCancelReceiving
  <2>2. g.q \in Int
    BY <2>1 DEF GoodsInv, StrikesReceipts, ReceiptRow
  <2> HIDE DEF g
  <2>3. inv \in InventoryType
    BY <1>1, <2>2, ShelfInts
  <2> HIDE DEF inv
  <2> QED BY <1>1, <2>1, <2>3, ShelveInts, StillCounts, RequestPut, IdleInts DEF YardNumbers
<1>5. ASSUME NEW g \in goods, record_unreceive(g) PROVE YardNumbers'
  <2> DEFINE cap == [b \in Bins |-> AtLeast0(Available(inventory, g.item, b))]
             before(b) == {c \in Bins : c # b /\ (\/ c = g.bin
                                                  \/ b # g.bin /\ (cap[c] > cap[b] \/ (cap[c] = cap[b] /\ c < b)))}
             inv == [s \in Rows |-> IF s[1] = g.item THEN [inventory[s] EXCEPT !.on_hand = @ - UnreceiveTaken(g)[s[2]]]
                                    ELSE inventory[s]]
  <2>1. Shelve(inv) /\ UNCHANGED <<request, count, review>>
    BY <1>5 DEF record_unreceive
  <2>2. g.q \in Int
    BY DEF GoodsInv, GoodsRows, ReceiptRow
  <2>3. ASSUME g.item \in Items, NEW b \in Bins PROVE UnreceiveTaken(g)[b] \in Int
    <3>1. UnreceiveTaken(g)[b] = Least(cap[b], AtLeast0(g.q - Total(cap, before(b))))
      BY DEF UnreceiveTaken, Walk
    <3>2. \A c \in Bins : cap[c] \in Int
      BY <1>1, <2>3, YardRows DEF InventoryType, Available, AtLeast0
    <3>3. before(b) \in SUBSET Bins
      OBVIOUS
    <3> HIDE DEF cap, before
    <3> QED BY <2>2, <3>1, <3>2, <3>3, YardRows, WalkTakes
  <2>4. ASSUME NEW s \in Rows PROVE inv[s] \in [on_hand : Int, allocated : Int]
    <3>1. inventory[s] \in [on_hand : Int, allocated : Int] /\ s[1] \in Items /\ s[2] \in Bins
      BY <1>1, YardRows DEF InventoryType
    <3>2. CASE s[1] = g.item
      <4>1. UnreceiveTaken(g)[s[2]] \in Int
        BY <2>3, <3>1, <3>2
      <4> QED BY <3>1, <3>2, <4>1
    <3>3. CASE s[1] # g.item
      BY <3>1, <3>3
    <3> QED BY <3>2, <3>3
  <2>5. inv \in InventoryType
    BY <2>4 DEF InventoryType
  <2> HIDE DEF inv
  <2> QED BY <1>1, <2>1, <2>5, ShelveInts, StillCounts, StillRequests DEF YardNumbers
<1> QED BY <1>2, <1>3, <1>4, <1>5, Looks, LookInts DEF Receiving

LEMMA MovesInts ==
  ASSUME YardNumbers, desk \in Desks, UNCHANGED task, NEW r, NEW i \in desk.items, NEW from \in Bins, NEW to \in Bins,
         NEW q \in Quantities, move(i, from, to, q) \/ BeginTransfer(r, i, from, to, q)
  PROVE  YardNumbers'
<1>1. Numbers /\ RequestsInts /\ CountsInts /\ inventory \in InventoryType
  BY DEF YardNumbers, Numbers
<1>2. q \in Int /\ <<i, from>> \in Rows
  BY DeskNumbers, YardRows
<1>3. CASE move(i, from, to, q)
  <2> DEFINE inv == [inventory EXCEPT ![<<i, from>>].on_hand = @ - q]
  <2>1. inv \in InventoryType
    BY <1>1, <1>2, ShelfInts
  <2>2. move_inventory(inventory, i, from, to, q) = add_inventory(inv, i, to, q)
    BY DEF move_inventory
  <2> HIDE DEF inv
  <2>3. move_inventory(inventory, i, from, to, q) \in InventoryType
    <3>1. q \in Int
      BY <1>2
    <3>2. add_inventory(inv, i, to, q) \in InventoryType
      BY <2>1, <3>1, ShelfInts
    <3> QED BY <2>2, <3>2
  <2>4. Shelve(move_inventory(inventory, i, from, to, q)) /\ UNCHANGED <<request, count, review>>
    BY <1>3 DEF move, stockroomVars, desksVars
  <2> QED BY <1>1, <2>3, <2>4, ShelveInts, StillCounts, StillRequests DEF YardNumbers
<1>4. CASE BeginTransfer(r, i, from, to, q)
  <2> DEFINE left == inventory[<<i, from>>].on_hand - q
             m == [op |-> "transfer", item |-> i, from |-> from, to |-> to, left |-> left, q |-> q]
  <2>1. Shelve(inventory) /\ UNCHANGED <<count, review>> /\ request' = [request EXCEPT ![r] = m]
    BY <1>4 DEF BeginTransfer, stockroomVars, desksVars
  <2>2. left \in Int
    BY <1>1, <1>2, RowNumbers
  <2> HIDE DEF left
  <2>3. RequestInts(m)
    BY <1>2, <2>2 DEF RequestInts
  <2> HIDE DEF m
  <2> QED BY <1>1, <2>1, <2>3, ShelveInts, StillCounts, RequestPut DEF YardNumbers
<1> QED BY <1>3, <1>4

LEMMA WritesInts ==
  ASSUME YardNumbers, UNCHANGED task, NEW r \in Requests, FinishTransfer(r) \/ FinishReview(r)
  PROVE  YardNumbers'
<1>1. Numbers /\ RequestsInts /\ CountsInts /\ inventory \in InventoryType /\ RequestInts(request[r])
  BY DEF YardNumbers, Numbers, RequestsInts
<1>2. CASE FinishTransfer(r)
  <2> DEFINE m == request[r]
             inv == [inventory EXCEPT ![<<m.item, m.from>>].on_hand = m.left]
             new == add_inventory(inv, m.item, m.to, m.q)
  <2>1. /\ m.op = "transfer" /\ Land("transfer", r, BothEnds(m), m.q, new)
        /\ UNCHANGED <<count, review>> /\ request' = [request EXCEPT ![r] = Idle]
    BY <1>2 DEF FinishTransfer, Moved, desksVars
  <2>2. m.left \in Int /\ m.q \in Int
    BY <1>1, <2>1 DEF RequestInts
  <2> HIDE DEF m
  <2>3. inv \in InventoryType
    BY <1>1, <2>2, RowPut
  <2> HIDE DEF inv
  <2>4. new \in InventoryType
    BY <2>2, <2>3, ShelfInts
  <2> HIDE DEF new
  <2> QED BY <1>1, <2>1, <2>4, LandInts, StillCounts, RequestPut, IdleInts DEF YardNumbers
<1>3. CASE FinishReview(r)
  <2> DEFINE a == request[r].row
             n == request[r].new
             inv == [inventory EXCEPT ![<<a.item, a.bin>>].on_hand = n]
  <2>1. /\ request[r].op = "review"
        /\ Land("review", r, {<<a.item, a.bin>>}, a.change, inv) \/ Shelve(inv)
        /\ UNCHANGED count /\ request' = [request EXCEPT ![r] = Idle] /\ Reviewed(a, "APPROVED")
    BY <1>3 DEF FinishReview, Counted
  <2>2. <<a.item, a.bin>> \in Rows => n \in Int
    BY <1>1, <2>1 DEF RequestInts
  <2>4. CountsInts'
    <3>1. review' = (review \ {a}) \cup {[a EXCEPT !.status = "APPROVED"]}
      BY <2>1 DEF Reviewed
    <3>2. ReviewRow([a EXCEPT !.status = "APPROVED"])
      BY <1>1, <2>1 DEF RequestInts, ReviewRow
    <3> HIDE DEF a
    <3> QED BY <1>1, <2>1, <3>1, <3>2 DEF CountsInts
  <2> HIDE DEF a, n
  <2>3. inv \in InventoryType
    BY <1>1, <2>2, RowPut
  <2> HIDE DEF inv
  <2> QED BY <1>1, <2>1, <2>3, <2>4, LandInts, ShelveInts, RequestPut, IdleInts DEF YardNumbers
<1> QED BY <1>2, <1>3

LEMMA AdjustInts ==
  ASSUME YardNumbers, UNCHANGED task, NEW i \in Items, NEW b \in Bins, NEW q \in Int,
         direct_adjustment(i, b, q) \/ inventory_update(i, b, q)
  PROVE  YardNumbers'
<1>1. Numbers /\ RequestsInts /\ CountsInts /\ inventory \in InventoryType
  BY DEF YardNumbers, Numbers
<1>2. UNCHANGED <<request, count, review>>
  BY DEF direct_adjustment, inventory_update, stockroomVars, desksVars
<1>3. inventory[<<i, b>>].on_hand \in Int
  BY <1>1, YardRows, RowNumbers
<1>4. CASE direct_adjustment(i, b, q)
  <2>1. LET inv == add_inventory(inventory, i, b, q)
        IN  Land("adjust", NULL, {<<i, b>>}, q, inv) \/ Shelve(inv)
    BY <1>4 DEF direct_adjustment
  <2>2. add_inventory(inventory, i, b, q) \in InventoryType
    BY <1>1, ShelfInts
  <2> QED BY <1>1, <1>2, <2>1, <2>2, LandInts, ShelveInts, StillCounts, StillRequests DEF YardNumbers
<1>5. CASE inventory_update(i, b, q)
  <2> DEFINE n == q - inventory[<<i, b>>].on_hand
             more == add_inventory(inventory, i, b, n)
             less == [inventory EXCEPT ![<<i, b>>].on_hand = q]
  <2>1. Land("sync", NULL, {<<i, b>>}, n, more) \/ Shelve(less)
    BY <1>5 DEF inventory_update, Lacking
  <2>2. n \in Int
    BY <1>3
  <2> HIDE DEF n
  <2>3. more \in InventoryType /\ less \in InventoryType
    BY <1>1, <2>2, ShelfInts, RowPut
  <2> HIDE DEF more, less
  <2> QED BY <1>1, <1>2, <2>1, <2>3, LandInts, ShelveInts, StillCounts, StillRequests DEF YardNumbers
<1> QED BY <1>4, <1>5

LEMMA CountingInts ==
  ASSUME YardNumbers, UNCHANGED task, NEW c \in Counts, NEW b \in Bins, NEW counted, DOMAIN counted \subseteq Items,
         \A i \in DOMAIN counted : counted[i] \in Int,
         create_cycle_count(c, b) \/ submit_cycle_count(c, counted)
  PROVE  YardNumbers'
<1>1. Numbers /\ RequestsInts /\ CountsInts /\ inventory \in InventoryType
  BY DEF YardNumbers, Numbers
<1>2. UNCHANGED request /\ Shelve(inventory)
  BY DEF create_cycle_count, submit_cycle_count
<1>3. CASE create_cycle_count(c, b)
  <2> DEFINE I == {j \in Items : inventory[<<j, b>>].on_hand > 0}
             expected == [i \in I |-> inventory[<<i, b>>].on_hand]
             row == [status |-> "PENDING", bin |-> b, expected |-> expected]
  <2>1. count' = [count EXCEPT ![c] = row] /\ UNCHANGED review
    BY <1>3 DEF create_cycle_count
  <2>2. \A i \in DOMAIN expected : expected[i] \in Int
    BY <1>1, YardRows, RowNumbers
  <2> HIDE DEF expected
  <2>3. DOMAIN row = {"status", "bin", "expected"} /\ \A i \in DOMAIN row.expected : row.expected[i] \in Int
    BY <2>2
  <2> HIDE DEF row
  <2>4. CountsInts'
    BY <1>1, <2>1, <2>3 DEF CountsInts
  <2> QED BY <1>1, <1>2, <2>4, ShelveInts, StillRequests DEF YardNumbers
<1>4. CASE submit_cycle_count(c, counted)
  <2> DEFINE off == Variances(c, counted)
             s == IF off = {} THEN "COMPLETED" ELSE "VARIANCE"
             row(i) == [count |-> c, item |-> i, bin |-> count[c].bin,
                        change |-> counted[i] - Expected(c, i), status |-> "PENDING"]
  <2>1. /\ count[c] # NULL /\ count' = [count EXCEPT ![c].status = s]
        /\ review' = review \cup {row(i) : i \in off}
    BY <1>4 DEF submit_cycle_count
  <2>2. \A i \in off : ReviewRow(row(i))
    <3> SUFFICES ASSUME NEW i \in off PROVE ReviewRow(row(i))
      OBVIOUS
    <3>1. counted[i] \in Int
      BY DEF Variances
    <3>2. Expected(c, i) \in Int
      BY <1>1, <2>1 DEF CountsInts, Expected
    <3> QED BY <3>1, <3>2 DEF ReviewRow
  <2> HIDE DEF row, off, s
  <2>3. CountsInts'
    <3>1. DOMAIN count' = Counts /\ \A a \in review' : ReviewRow(a)
      BY <1>1, <2>1, <2>2 DEF CountsInts
    <3>2. \A d \in Counts : count'[d] # NULL =>
             /\ DOMAIN count'[d] = {"status", "bin", "expected"}
             /\ \A i \in DOMAIN count'[d].expected : count'[d].expected[i] \in Int
      BY <1>1, <2>1 DEF CountsInts
    <3> QED BY <3>1, <3>2 DEF CountsInts
  <2> QED BY <1>1, <1>2, <2>3, ShelveInts, StillRequests DEF YardNumbers
<1> QED BY <1>3, <1>4

LEMMA ReviewingInts ==
  ASSUME YardNumbers, UNCHANGED task, NEW r, NEW a \in review, BeginReview(r, a) \/ reject_adjustment(a)
  PROVE  YardNumbers'
<1>1. Numbers /\ RequestsInts /\ CountsInts /\ inventory \in InventoryType /\ ReviewRow(a)
  BY DEF YardNumbers, Numbers, CountsInts
<1>2. Shelve(inventory)
  BY DEF BeginReview, reject_adjustment
<1>3. CASE BeginReview(r, a)
  <2> DEFINE n == AtLeast0(inventory[<<a.item, a.bin>>].on_hand + a.change)
             m == [op |-> "review", row |-> a, new |-> n]
  <2>1. UNCHANGED <<count, review>> /\ request' = [request EXCEPT ![r] = m]
    BY <1>3 DEF BeginReview, stockroomVars, desksVars
  <2>2. <<a.item, a.bin>> \in Rows => n \in Int
    BY <1>1, RowNumbers DEF ReviewRow, AtLeast0
  <2> HIDE DEF n
  <2>3. RequestInts(m)
    BY <1>1, <2>2 DEF RequestInts
  <2> HIDE DEF m
  <2> QED BY <1>1, <1>2, <2>1, <2>3, ShelveInts, StillCounts, RequestPut DEF YardNumbers
<1>4. CASE reject_adjustment(a)
  <2>1. UNCHANGED <<request, count>> /\ review' = (review \ {a}) \cup {[a EXCEPT !.status = "REJECTED"]}
    BY <1>4 DEF reject_adjustment, Reviewed
  <2>2. ReviewRow([a EXCEPT !.status = "REJECTED"])
    BY <1>1 DEF ReviewRow
  <2>3. CountsInts'
    BY <1>1, <2>1, <2>2 DEF CountsInts
  <2> QED BY <1>1, <1>2, <2>1, <2>3, ShelveInts, StillRequests DEF YardNumbers
<1> QED BY <1>3, <1>4

LEMMA ShelvingInts ==
  ASSUME YardNumbers, desk \in Desks, Shelving, UNCHANGED task
  PROVE  YardNumbers'
<1>1. ASSUME NEW i \in desk.items, NEW b \in desk.docks, NEW q \in -MaxChange .. MaxChange, direct_adjustment(i, b, q)
      PROVE  YardNumbers'
  <2>1. i \in Items /\ b \in Bins /\ q \in Int
    BY DeskNumbers
  <2> QED BY <1>1, <2>1, AdjustInts
<1>2. ASSUME NEW c \in Counts, NEW b \in desk.docks, create_cycle_count(c, b) PROVE YardNumbers'
  <2>1. b \in Bins /\ DOMAIN [i \in {} |-> 0] \subseteq Items /\ \A i \in DOMAIN [i \in {} |-> 0] : [j \in {} |-> 0][i] \in Int
    BY DeskNumbers
  <2> QED BY <1>2, <2>1, CountingInts
<1>3. ASSUME NEW c \in Counts, NEW n \in 0 .. MaxOrdered + 1, submit_cycle_count(c, [i \in desk.items |-> n])
      PROVE  YardNumbers'
  <2> DEFINE counted == [i \in desk.items |-> n]
  <2>1. DOMAIN counted \subseteq Items /\ \A i \in DOMAIN counted : counted[i] \in Int
    BY DeskNumbers
  <2> HIDE DEF counted
  <2>2. ReceivingBin \in Bins
    BY BinsAssumption
  <2>3. submit_cycle_count(c, counted)
    BY <1>3 DEF counted
  <2> QED BY <2>1, <2>2, <2>3, CountingInts
<1> QED BY <1>1, <1>2, <1>3, MovesInts, WritesInts, ReviewingInts, Looks, LookInts DEF Shelving

LEMMA DeletedInts ==
  ASSUME NEW T, IntTasks(T), NEW l
  PROVE  IntTasks({Orphaned(t, l) : t \in T})
<1> DEFINE f == [t \in T |-> Orphaned(t, l)]
<1>1. \A t \in T : IntTask(f[t])
  BY DEF IntTasks, IntTask, Orphaned, TaskFields
<1>2. {Orphaned(t, l) : t \in T} = {f[t] : t \in T}
  OBVIOUS
<1> HIDE DEF f
<1> QED BY <1>1, <1>2, TasksRewritten

LEMMA GoneLineInts == IntLine(GoneLine)
  BY DEF GoneLine, NoLine, IntLine

LEMMA PartialInts ==
  ASSUME Numbers, Shaped, NEW l \in Lines, NEW q \in Int, NEW bo, partial_fulfill_sales_order(l, q, bo)
  PROVE  Numbers'
<1> DEFINE left == line[l].ordered - q
           lost == WrittenOff(l[2], q)
           db1 == IF left = 0 THEN DeleteLine(Db, l) ELSE [Db EXCEPT !.line[l].ordered = left]
           inv == take_floored(db1.inv, l[2], FullestBin(l[2]), lost)
           db2 == [db1 EXCEPT !.inv = inv]
           new == WithBackorderFor(db2, l, q, bo)
<1>1. Commit(new) /\ bo \in Orders
  BY DEF partial_fulfill_sales_order, FreshOrder, Unborn
<1>2. /\ DOMAIN db1 = {"inv", "order", "line", "batch", "task"} /\ db1.inv = inventory
      /\ db1.line = [line EXCEPT ![l] = IF left = 0 THEN GoneLine ELSE [@ EXCEPT !.ordered = left]]
      /\ db1.task = task \/ db1.task = {Orphaned(t, l) : t \in task}
  BY DEF Db, DeleteLine, Shaped, LineShape
<1>3. IntTasks(db1.task)
  BY <1>2, DeletedInts DEF Numbers
<1>4. <<l[2], FullestBin(l[2])>> \in Rows => lost \in Int
  <2> SUFFICES ASSUME <<l[2], FullestBin(l[2])>> \in Rows PROVE lost \in Int
    OBVIOUS
  <2>1. Available(inventory, l[2], FullestBin(l[2])) \in Int
    BY RowNumbers DEF Numbers, Available
  <2> QED BY <2>1 DEF WrittenOff, AtLeast0, Least
<1>5. left \in Int
  BY DEF Numbers, IntLines, IntLine
<1> HIDE DEF db1, left, lost
<1>6. inv \in InventoryType
  BY <1>2, <1>4, ShelfInts DEF Numbers
<1> HIDE DEF inv
<1>7. /\ new.inv = inv /\ new.task = db1.task
      /\ new.line = [db1.line EXCEPT ![<<bo, l[2]>>] = NewLine(q)]
  BY <1>2 DEF WithBackorderFor
<1> HIDE DEF new
<1>8. IntLine([line[l] EXCEPT !.ordered = left])
  BY <1>5 DEF Numbers, IntLines, IntLine, Shaped, LineShape, LineFields
<1>9. ASSUME NEW k \in Lines PROVE IntLine(new.line[k])
  <2>1. \/ new.line[k] = NewLine(q) \/ new.line[k] = line[k]
        \/ new.line[k] = GoneLine \/ new.line[k] = [line[l] EXCEPT !.ordered = left]
    BY <1>2, <1>7 DEF Shaped, LineShape
  <2> QED BY <1>8, <2>1, NewLineInts, GoneLineInts DEF Numbers, IntLines
<1>10. inventory' = new.inv /\ line' = new.line /\ task' = new.task
  BY <1>1 DEF Commit
<1> QED BY <1>3, <1>6, <1>7, <1>9, <1>10 DEF Numbers, IntLines

LEMMA SalesDeskInts ==
  ASSUME YardNumbers, Shaped, desk \in Desks, SalesDesk, UNCHANGED <<count, review>>
  PROVE  YardNumbers'
<1>1. Numbers /\ RequestsInts /\ CountsInts /\ Ints(Db)
  BY DbInts DEF YardNumbers
<1>2. ASSUME NEW o, NEW cart \in Carts, create_sales_order(o, cart) PROVE Numbers' /\ UNCHANGED request
  <2>1. \A i \in DOMAIN cart : cart[i] \in Int
    BY DeskNumbers
  <2>2. Ints(Entered(Db, o, cart))
    BY <1>1, <2>1, EntryInts
  <2> QED BY <1>2, <2>2, CommitInts DEF create_sales_order
<1>3. ASSUME NEW l \in Lines, NEW q \in Quantities, NEW bo, partial_fulfill_sales_order(l, q, bo)
      PROVE  Numbers' /\ UNCHANGED request
  <2>1. q \in Int
    BY DeskNumbers
  <2> QED BY <1>1, <1>3, <2>1, PartialInts DEF partial_fulfill_sales_order
<1>4. ASSUME NEW o \in Orders, cancel_sales_order(o) PROVE Numbers' /\ UNCHANGED request
  <2>1. Ints(Cancelled(Db, o))
    BY <1>1, CancelledInts
  <2> QED BY <1>4, <2>1, CommitInts DEF cancel_sales_order
<1>5. Numbers' /\ UNCHANGED request
  BY <1>2, <1>3, <1>4 DEF SalesDesk
<1> QED BY <1>1, <1>5, StillCounts, StillRequests DEF YardNumbers

LEMMA PlannedNeedsInts ==
  ASSUME Numbers, Shaped, NEW plan, RequestInts(plan), plan.op \in {"wave", "batch"}
  PROVE  IntMap(PlannedNeeds(Db, plan)) /\ Ints(Normalised(Db, plan))
<1> DEFINE db1 == Normalised(Db, plan)
<1>1. IntMap(plan.standing) /\ ((plan.needs = NULL /\ ~plan.planned) \/ IntMap(plan.needs))
  BY DEF RequestInts
<1>2. Ints(db1)
  BY <1>1, DbInts, NormaliseInts DEF Normalised
<1>3. PlannedNeeds(Db, plan) = Needs(db1, plan.orders) \/ IntMap(PlannedNeeds(Db, plan))
  BY <1>1 DEF PlannedNeeds
<1> HIDE DEF db1
<1>4. IntMap(Needs(db1, plan.orders))
  BY <1>2, PlanMaps
<1>5. IntMap(PlannedNeeds(Db, plan))
  BY <1>3, <1>4
<1> QED BY <1>2, <1>5 DEF db1

LEMMA CreateInts ==
  ASSUME Numbers, Shaped, NEW plan, RequestInts(plan), plan.op \in {"wave", "batch"}, NEW b, Create(Db, plan, b)
  PROVE  Numbers'
<1> DEFINE db1 == Normalised(Db, plan)
           need == IF plan.op = "wave" THEN PlannedNeeds(Db, plan) ELSE Needs(db1, plan.orders)
           taken == Allocation(db1, need)
           T == IF plan.op = "wave" THEN WaveTasks(taken, b) ELSE LineTasks(taken, b)
           new == Reserve(db1, taken, T, b, plan.by, plan.orders)
<1>1. Commit(new)
  BY DEF Create
<1>2. IntMap(PlannedNeeds(Db, plan)) /\ Ints(Normalised(Db, plan))
  BY PlannedNeedsInts
<1>3. Ints(db1)
  BY <1>2
<1>4. IntMap(need)
  <2> HIDE DEF db1
  <2>1. IntMap(Needs(db1, plan.orders))
    BY <1>3, PlanMaps
  <2> QED BY <1>2, <2>1
<1> HIDE DEF db1, need
<1>5. IntTaken(taken) /\ DOMAIN taken = (DOMAIN need) \X Pickable /\ DOMAIN need \subseteq Lines
  BY <1>3, <1>4, AllocationInts DEF IntMap
<1> HIDE DEF taken
<1>6. IntTasks(T)
  BY <1>5, WaveTasksInts, LineTasksInts
<1> HIDE DEF T
<1>7. Ints(new)
  BY <1>3, <1>5, <1>6, ReservedInts
<1> HIDE DEF new
<1> QED BY <1>1, <1>7, CommitInts

LEMMA PickersInts ==
  ASSUME YardNumbers, Shaped, Pickers, UNCHANGED <<count, review>>
  PROVE  YardNumbers'
<1>1. Numbers /\ RequestsInts /\ CountsInts /\ Ints(Db) /\ \A r \in Requests : RequestInts(request[r])
  BY DbInts DEF YardNumbers, RequestsInts
<1>2. UNCHANGED <<inventory, line, task>> => Numbers'
  BY <1>1 DEF Numbers
<1>3. ASSUME NEW B, Commit(full_revert_batch(Db, B)) PROVE Numbers'
  BY <1>1, <1>3, RevertInts, CommitInts
<1>4. ASSUME NEW r, NEW u, NEW O, BeginCreate(r, "wave", u, O) PROVE Numbers' /\ RequestsInts'
  <2> DEFINE m == Plan(Db, "wave", u, O)
  <2>1. request' = [request EXCEPT ![r] = m] /\ UNCHANGED <<inventory, line, task>>
    BY <1>4 DEF BeginCreate, Unchanged
  <2>2. /\ m.op = "wave" /\ ~m.planned /\ m.standing = Standing(Db, O)
        /\ m.needs = NULL \/ m.needs = Needs(Db, O)
    BY DEF Plan
  <2> HIDE DEF m
  <2>3. RequestInts(m)
    BY <1>1, <2>2, PlanMaps DEF RequestInts
  <2> QED BY <1>1, <1>2, <2>1, <2>3, RequestPut
<1>5. ASSUME NEW r \in Requests, request' = [request EXCEPT ![r] = Idle] PROVE RequestsInts'
  BY <1>1, <1>5, RequestPut, IdleInts
<1>6. ASSUME NEW r \in Requests, FinishCreate(r) PROVE Numbers' /\ RequestsInts'
  <2>1. PICK b : Create(Db, request[r], b)
    BY <1>6 DEF FinishCreate
  <2>2. Shaped /\ RequestInts(request[r]) /\ request[r].op \in {"wave", "batch"} /\ request' = [request EXCEPT ![r] = Idle]
    BY <1>1, <1>6 DEF FinishCreate, Planning
  <2> QED BY <1>1, <1>5, <2>1, <2>2, CreateInts
<1>7. ASSUME NEW r \in Requests, RefuseCreate(r) PROVE Numbers' /\ RequestsInts'
  <2>1. UNCHANGED <<inventory, line, task>> \/ \E b : Commit(full_revert_batch(Db, {b}))
    BY <1>7 DEF RefuseCreate, Unchanged
  <2> QED BY <1>2, <1>3, <1>5, <1>7, <2>1 DEF RefuseCreate
<1>8. ASSUME NEW r \in Requests, ApplyPick(r) PROVE Numbers' /\ RequestsInts'
  <2> SUFFICES Numbers'
    BY <1>5, <1>8 DEF ApplyPick
  <2> DEFINE t == request[r].task
             q == request[r].q
  <2>1. IntTask(t) /\ q \in Int
    BY <1>1, <1>8 DEF ApplyPick, RequestInts
  <2>2. Commit(confirm_pick(Db, t, q)) \/ Commit(short_pick(Db, t, q))
    BY <1>8 DEF ApplyPick
  <2> HIDE DEF t, q
  <2>3. Ints(confirm_pick(Db, t, q)) /\ Ints(short_pick(Db, t, q))
    BY <1>1, <2>1, PickInts, ShortInts
  <2> QED BY <2>2, <2>3, CommitInts
<1>9. ASSUME NEW r, NEW t \in task, NEW q \in 0 .. t.qty, LoadTask(r, "confirm", t, q) PROVE Numbers' /\ RequestsInts'
  <2> DEFINE m == [op |-> "confirm", task |-> t, q |-> q]
  <2>1. request' = [request EXCEPT ![r] = m] /\ UNCHANGED <<inventory, line, task>>
    BY <1>9 DEF LoadTask, Unchanged
  <2>2. IntTask(t) /\ q \in Int
    BY <1>1 DEF Numbers, IntTasks
  <2>3. RequestInts(m)
    BY <2>2 DEF RequestInts
  <2> HIDE DEF m
  <2> QED BY <1>1, <1>2, <2>1, <2>3, RequestPut
<1>10. ASSUME NEW b, complete_batch(b) \/ cancel_batch(b) PROVE Numbers' /\ RequestsInts'
  <2>1. UNCHANGED request /\ (UNCHANGED <<inventory, line, task>> \/ Commit(full_revert_batch(Db, {b})))
    BY <1>10 DEF complete_batch, cancel_batch
  <2> QED BY <1>1, <1>2, <1>3, <2>1, StillRequests
<1>11. ASSUME NEW r \in Requests, PlanWave(r) PROVE Numbers' /\ RequestsInts'
  <2> DEFINE plan == request[r]
             m == [op |-> "wave", by |-> plan.by, orders |-> plan.orders, standing |-> plan.standing,
                   needs |-> PlannedNeeds(Db, plan), planned |-> TRUE]
  <2>1. plan.op = "wave" /\ request' = [request EXCEPT ![r] = m] /\ UNCHANGED <<inventory, line, task>>
    BY <1>11 DEF PlanWave, Unchanged
  <2>2. RequestInts(plan) /\ plan.op \in {"wave", "batch"}
    BY <1>1, <2>1
  <2>3. IntMap(plan.standing)
    BY <2>2 DEF RequestInts
  <2> HIDE DEF plan
  <2>4. IntMap(PlannedNeeds(Db, plan))
    BY <1>1, <2>2, PlannedNeedsInts
  <2>5. m.op = "wave" /\ m.standing = plan.standing /\ m.needs = PlannedNeeds(Db, plan)
    OBVIOUS
  <2> HIDE DEF m
  <2>6. RequestInts(m)
    BY <2>3, <2>4, <2>5 DEF RequestInts
  <2> QED BY <1>1, <1>2, <2>1, <2>6, RequestPut
<1>12. Numbers' /\ RequestsInts'
  BY <1>4, <1>6, <1>7, <1>8, <1>9, <1>10, <1>11 DEF Pickers
<1> QED BY <1>1, <1>12, StillCounts DEF YardNumbers

LEMMA RelinedInts ==
  ASSUME NEW db, DOMAIN db = {"inv", "order", "line", "batch", "task"}, db.inv \in InventoryType,
         IntLines(db.line), IntTasks(db.task), NEW o, NEW cart, \A i \in DOMAIN cart : cart[i] \in Int,
         Commit(Relined(db, o, cart))
  PROVE  Numbers'
<1> DEFINE new == Relined(db, o, cart)
           f == [t \in db.task |-> IF <<o, t.item>> \in LinesIn(db, o) THEN Orphaned(t, <<o, t.item>>) ELSE t]
<1>1. CASE DOMAIN cart = {}
  BY <1>1 DEF Relined, Commit, Numbers
<1>2. CASE DOMAIN cart # {}
  <2>1. /\ new.inv = db.inv /\ new.task = {f[t] : t \in db.task}
        /\ new.line = [l \in Lines |-> CASE l[1] = o /\ l[2] \in DOMAIN cart -> NewLine(cart[l[2]])
                                         [] l \in LinesIn(db, o) /\ l[2] \notin DOMAIN cart -> GoneLine
                                         [] OTHER -> db.line[l]]
    BY <1>2 DEF Relined
  <2>2. \A t \in db.task : IntTask(f[t])
    <3>1. \A t \in db.task : \A l : IntTask(Orphaned(t, l))
      BY DEF IntTasks, IntTask, Orphaned, TaskFields
    <3> QED BY <3>1 DEF IntTasks
  <2> HIDE DEF f, new
  <2>3. IntTasks(new.task)
    BY <2>1, <2>2, TasksRewritten
  <2>4. ASSUME NEW l \in Lines PROVE IntLine(new.line[l])
    <3>1. \/ l[2] \in DOMAIN cart /\ new.line[l] = NewLine(cart[l[2]])
          \/ new.line[l] = GoneLine \/ new.line[l] = db.line[l]
      BY <2>1
    <3> QED BY <3>1, NewLineInts, GoneLineInts DEF IntLines
  <2>5. Commit(new)
    BY DEF new
  <2>6. inventory' = new.inv /\ line' = new.line /\ task' = new.task
    BY <2>5 DEF Commit
  <2>7. IntLines(new.line) /\ new.inv \in InventoryType
    BY <2>1, <2>4 DEF IntLines
  <2> QED BY <2>3, <2>6, <2>7 DEF Numbers
<1> QED BY <1>1, <1>2

LEMMA FinishSalesInts ==
  ASSUME YardNumbers, SalesInv, NEW r \in Requests, NEW held, FinishSalesPost(r, held)
  PROVE  YardNumbers'
<1> DEFINE m == request[r].message
           d == request[r].doc
<1>1. Numbers /\ RequestsInts /\ CountsInts
  BY DEF YardNumbers
<1>2. /\ request[r].op = "post" /\ d \in SalesDocs /\ UNCHANGED <<count, review>>
      /\ request' = [request EXCEPT ![r] = Idle]
      /\ \/ Commit(Relined(Headed(Db, canonical[d], m.status), canonical[d], m.cart))
         \/ \E o : Commit(Relined([Db EXCEPT !.order[o] = NewHeader(m, held)], o, m.cart))
  BY DEF FinishSalesPost, stockroomVars, desksVars
<1>3. \A i \in DOMAIN m.cart : m.cart[i] \in Int
  <2>1. Posts(r, d)
    BY <1>2 DEF Posts
  <2> QED BY <1>2, <2>1 DEF SalesInv, PostsTyped, PostsAre, Posted, PostedCart
<1> HIDE DEF m, d
<1>4. ASSUME NEW db, NEW ord, db = [Db EXCEPT !.order = ord], NEW o, Commit(Relined(db, o, m.cart)) PROVE Numbers'
  <2>1. /\ DOMAIN db = {"inv", "order", "line", "batch", "task"} /\ db.inv = inventory
        /\ db.line = line /\ db.task = task
    BY <1>4 DEF Db
  <2> QED BY <1>1, <1>3, <1>4, <2>1, RelinedInts DEF Numbers
<1>5. Headed(Db, canonical[d], m.status) =
        [Db EXCEPT !.order = IF m.status = NULL THEN order ELSE [order EXCEPT ![canonical[d]].status = m.status]]
  BY DEF Headed, Db
<1>6. \A o : [Db EXCEPT !.order[o] = NewHeader(m, held)] = [Db EXCEPT !.order = [order EXCEPT ![o] = NewHeader(m, held)]]
  BY DEF Db
<1>7. Numbers'
  BY <1>2, <1>4, <1>5, <1>6
<1> QED BY <1>1, <1>2, <1>7, StillCounts, RequestPut, IdleInts DEF YardNumbers

LEMMA CancellationInts ==
  ASSUME YardNumbers, SalesInv, desk \in Desks, NEW d \in SalesDocs, NEW v, NEW m \in Cancellations,
         PostCancellation(d, v, m)
  PROVE  YardNumbers'
<1> DEFINE o == canonical[d]
           db == Cancelled(Db, o)
<1>1. Numbers /\ RequestsInts /\ CountsInts /\ Ints(Db)
  BY DbInts DEF YardNumbers, SalesInv
<1>2. o \in Orders
  BY DEF PostCancellation, IsCancellation, SalesInv, OrdersThere
<1>3. Commit(Relined(db, o, m.cart)) /\ UNCHANGED <<request, count, review>>
  BY DEF PostCancellation, stockroomVars, desksVars
<1>4. \A i \in DOMAIN m.cart : m.cart[i] \in Int
  BY CartsPosted DEF Posted, PostedCart
<1> HIDE DEF o
<1>5. Ints(db)
  BY <1>1, <1>2, CancelledInts
<1> HIDE DEF db
<1>6. Numbers'
  BY <1>3, <1>4, <1>5, RelinedInts DEF Ints, Tables
<1> QED BY <1>1, <1>3, <1>6, StillCounts, StillRequests DEF YardNumbers

LEMMA UpstreamInts ==
  ASSUME YardNumbers, SalesInv, desk \in Desks, Upstream
  PROVE  YardNumbers'
<1>1. Numbers /\ RequestsInts /\ CountsInts
  BY DEF YardNumbers
<1>2. ASSUME UNCHANGED <<inventory, line, task, count, review>>, RequestsInts' PROVE YardNumbers'
  BY <1>1, <1>2, StillCounts DEF YardNumbers, Numbers
<1>3. ASSUME NEW r, NEW d, NEW v, NEW m, BeginPost(r, d, v, m) PROVE YardNumbers'
  <2> DEFINE new == [op |-> "post", doc |-> d, version |-> v, message |-> m]
  <2>1. request' = [request EXCEPT ![r] = new] /\ UNCHANGED <<inventory, line, task, count, review>>
    BY <1>3 DEF BeginPost, orderVars, stockroomVars, desksVars
  <2>2. RequestInts(new)
    BY DEF RequestInts
  <2> HIDE DEF new
  <2> QED BY <1>1, <1>2, <2>1, <2>2, RequestPut
<1>4. ASSUME NEW r, FinishPurchasePost(r) PROVE YardNumbers'
  <2>1. request' = [request EXCEPT ![r] = Idle] /\ UNCHANGED <<inventory, line, task, count, review>>
    BY <1>4 DEF FinishPurchasePost, orderVars
  <2> QED BY <1>1, <1>2, <2>1, RequestPut, IdleInts
<1>5. ASSUME NEW i \in desk.items, NEW b \in desk.docks, NEW n \in 0 .. MaxStock, inventory_update(i, b, n)
      PROVE  YardNumbers'
  <2>1. i \in Items /\ b \in Bins /\ n \in Int /\ UNCHANGED task
    BY <1>5, DeskNumbers DEF inventory_update, SalesUnchanged
  <2> QED BY <1>5, <2>1, AdjustInts
<1>6. ASSUME NEW i, NEW b, NEW n, BeginUpdate(i, b, n) PROVE YardNumbers'
  BY <1>6, Looks, LookInts
<1> QED BY <1>3, <1>4, <1>5, <1>6, FinishSalesInts, CancellationInts DEF Upstream

-----------------------------------------------------------------------------
(* The transfer orders *)

HeldNumbers ==
  /\ \A k \in totask : k.qty \in Int
  /\ \A h \in Handhelds : handheld[h].op # "none" => handheld[h].task.qty \in Int
TransferNumbers == TypeOKTransfers /\ HeldNumbers

LEMMA ToLineNumbers ==
  ASSUME TypeOKTransfers, NEW l \in ToLines
  PROVE  toline[l].committed \in Nat /\ toline[l].picked \in Nat /\ toline[l].approved \in Nat
  BY DEF TypeOKTransfers, ToLineRow

LEMMA CommittedNat ==
  ASSUME inventory \in InventoryType, NEW i \in Items, NEW q \in Int
  PROVE  /\ Total(CommitWalk(i, q), Bins) \in Nat
         /\ \A b \in Bins : CommitWalk(i, q)[b] \in Int
<1> DEFINE cap == FreeOf(i)
<1>1. DOMAIN cap = Bins /\ \A b \in Bins : cap[b] \in Int
  BY YardRows DEF FreeOf, InventoryType, Available, AtLeast0
<1> HIDE DEF cap
<1>2. \A b \in Bins : Walk(cap, q, LAMBDA c, a : c < a)[b] \in Int
  BY <1>1, YardRows, WalkInOrder
<1>3. CommitWalk(i, q) = Walk(cap, q, LAMBDA c, a : c < a)
  BY DEF CommitWalk, cap
<1>4. \A b \in Bins : CommitWalk(i, q)[b] \in Int
  BY <1>2, <1>3
<1> QED BY <1>4, YardRows, TotalOfInts

LEMMA ImportInts ==
  ASSUME inventory \in InventoryType, TransferNumbers, NEW t \in Transfers, NEW cart,
         \A i \in DOMAIN cart : cart[i] \in Int, import_transfer_order(t, cart)
  PROVE  inventory' \in InventoryType /\ TransferNumbers'
<1>1. inventory' \in InventoryType
  <2>1. ASSUME NEW r \in Rows
        PROVE  (IF r[1] \in DOMAIN cart
                THEN [inventory[r] EXCEPT !.allocated = @ + CommitWalk(r[1], cart[r[1]])[r[2]]]
                ELSE inventory[r]) \in [on_hand : Int, allocated : Int]
    <3>1. r[1] \in Items /\ r[2] \in Bins /\ inventory[r] \in [on_hand : Int, allocated : Int]
      BY YardRows DEF InventoryType
    <3>2. r[1] \in DOMAIN cart => CommitWalk(r[1], cart[r[1]])[r[2]] \in Int
      BY <3>1, CommittedNat
    <3> QED BY <3>1, <3>2
  <2> QED BY <2>1 DEF import_transfer_order, InventoryType
<1>2. ASSUME NEW l \in ToLines PROVE /\ toline'[l] \in ToLineRow
                                      /\ toline'[l].approved <= toline'[l].picked
                                      /\ toline'[l].picked <= toline'[l].committed
  <2>1. CASE l[1] = t /\ l[2] \in DOMAIN cart
    <3> DEFINE n == Total(CommitWalk(l[2], cart[l[2]]), Bins)
    <3>1. n \in Nat
      BY <2>1, CommittedNat DEF ToLines
    <3>2. toline'[l] = [committed |-> n, picked |-> 0, approved |-> 0,
                        status |-> IF n > 0 THEN "PENDING" ELSE "SHORT_CLOSED"]
      BY <2>1 DEF import_transfer_order
    <3> HIDE DEF n
    <3> QED BY <3>1, <3>2 DEF ToLineRow
  <2>2. CASE ~ (l[1] = t /\ l[2] \in DOMAIN cart)
    BY <2>2 DEF import_transfer_order, TransferNumbers, TypeOKTransfers
  <2> QED BY <2>1, <2>2
<1>3. DOMAIN toline' = ToLines /\ toline' = [l \in ToLines |-> toline'[l]]
  BY DEF import_transfer_order
<1>4. TypeOKTransfers'
  BY <1>2, <1>3 DEF import_transfer_order, TransferNumbers, TypeOKTransfers, ToLines
<1>5. HeldNumbers'
  BY DEF import_transfer_order, TransferNumbers, HeldNumbers
<1> QED BY <1>1, <1>4, <1>5 DEF TransferNumbers

TransferStatuses ==
  {NULL, "OPEN", "PARTIALLY_PICKED", "AWAITING_APPROVAL", "CLOSED", "CANCELLED"}
ToLineNumbersAt(row) ==
  row \in ToLineRow /\ row.approved <= row.picked /\ row.picked <= row.committed

LEMMA TransferTypes ==
  /\ TypeOKTransfers <=> /\ transfer \in [Transfers -> TransferStatuses]
                         /\ toline \in [ToLines -> ToLineRow]
                         /\ \A l \in ToLines : ToLineNumbersAt(toline[l])
  /\ TypeOKTransfers' <=> /\ transfer' \in [Transfers -> TransferStatuses]
                          /\ toline' \in [ToLines -> ToLineRow]
                          /\ \A l \in ToLines : ToLineNumbersAt(toline'[l])
  BY DEF TypeOKTransfers, TransferStatuses, ToLineNumbersAt, ToLines

LEMMA TransferPut ==
  ASSUME NEW f \in [Transfers -> TransferStatuses], NEW t, NEW s, t \in Transfers => s \in TransferStatuses
  PROVE  [f EXCEPT ![t] = s] \in [Transfers -> TransferStatuses]
  OBVIOUS

LEMMA HeldKept ==
  ASSUME HeldNumbers, UNCHANGED handheld, \A k \in totask' : k.qty \in Int
  PROVE  HeldNumbers'
  BY DEF HeldNumbers

\* what is free for a release: the whole of what the line has outstanding
LEMMA ReleaseToInts ==
  ASSUME inventory \in InventoryType, TransferNumbers, NEW t, _release_reservations(t)
  PROVE  inventory' \in InventoryType
<1>1. ASSUME NEW r \in Rows
      PROVE  (IF <<t, r[1]>> \in LinesOfTO(t)
              THEN ReleaseWalk(inventory, r[1], Outstanding(<<t, r[1]>>))[r]
              ELSE inventory[r]) \in [on_hand : Int, allocated : Int]
  <2>1. <<t, r[1]>> \in LinesOfTO(t) => Outstanding(<<t, r[1]>>) \in Int
    BY ToLineNumbers DEF LinesOfTO, Outstanding, TransferNumbers
  <2>2. CASE <<t, r[1]>> \in LinesOfTO(t)
    <3>1. ReleaseWalk(inventory, r[1], Outstanding(<<t, r[1]>>)) \in InventoryType
      BY <2>1, <2>2, ReleaseInts
    <3> QED BY <2>2, <3>1 DEF InventoryType
  <2>3. CASE <<t, r[1]>> \notin LinesOfTO(t)
    BY <2>3 DEF InventoryType
  <2> QED BY <2>2, <2>3
<1> QED BY <1>1 DEF _release_reservations, InventoryType

LEMMA CancelInts ==
  ASSUME inventory \in InventoryType, TransferNumbers, NEW t \in Transfers, cancel_transfer_order(t)
  PROVE  inventory' \in InventoryType /\ TransferNumbers'
<1>1. inventory' \in InventoryType
  BY ReleaseToInts DEF cancel_transfer_order
<1>2. transfer' = [transfer EXCEPT ![t] = "CANCELLED"] /\ UNCHANGED <<toline, totask, handheld>>
  BY DEF cancel_transfer_order
<1>3. transfer' \in [Transfers -> TransferStatuses]
  BY <1>2, TransferTypes, TransferPut DEF TransferStatuses, TransferNumbers
<1> QED BY <1>1, <1>2, <1>3, TransferTypes, HeldKept DEF TransferNumbers, HeldNumbers

LEMMA DeleteInts ==
  ASSUME inventory \in InventoryType, TransferNumbers, NEW t \in Transfers, delete_transfer_order(t)
  PROVE  inventory' \in InventoryType /\ TransferNumbers'
<1>1. inventory' \in InventoryType
  BY ReleaseToInts DEF delete_transfer_order
<1>2. /\ transfer' = [transfer EXCEPT ![t] = NULL] /\ UNCHANGED <<totask, handheld>>
      /\ toline' = [l \in ToLines |-> IF l[1] = t THEN NoToLine ELSE toline[l]]
  BY DEF delete_transfer_order
<1>3. transfer' \in [Transfers -> TransferStatuses]
  BY <1>2, TransferTypes, TransferPut DEF TransferStatuses, TransferNumbers
<1>4. NoToLine \in ToLineRow /\ ToLineNumbersAt(NoToLine)
  BY DEF NoToLine, ToLineRow, ToLineNumbersAt
<1>5. toline' \in [ToLines -> ToLineRow] /\ \A l \in ToLines : ToLineNumbersAt(toline'[l])
  <2> HIDE DEF NoToLine
  <2> QED BY <1>2, <1>4, TransferTypes DEF TransferNumbers
<1> QED BY <1>1, <1>2, <1>3, <1>5, TransferTypes, HeldKept DEF TransferNumbers, HeldNumbers

LEMMA ToLinePut ==
  ASSUME toline \in [ToLines -> ToLineRow], \A l \in ToLines : ToLineNumbersAt(toline[l]),
         NEW x, NEW row, x \in ToLines => ToLineNumbersAt(row), toline' = [toline EXCEPT ![x] = row]
  PROVE  toline' \in [ToLines -> ToLineRow] /\ \A l \in ToLines : ToLineNumbersAt(toline'[l])
  BY DEF ToLineNumbersAt

LEMMA ShortCloseInts ==
  ASSUME inventory \in InventoryType, TransferNumbers, NEW l \in ToLines, short_close_to_line(l)
  PROVE  inventory' \in InventoryType /\ TransferNumbers'
<1>1. inventory' \in InventoryType
  <2>1. AtLeast0(Outstanding(l)) \in Int
    BY ToLineNumbers DEF Outstanding, AtLeast0, TransferNumbers
  <2> QED BY <2>1, ReleaseInts DEF short_close_to_line
<1>2. /\ UNCHANGED <<transfer, totask, handheld>>
      /\ toline' = [toline EXCEPT ![l] = [toline[l] EXCEPT !.status = "SHORT_CLOSED"]]
  BY DEF short_close_to_line
<1>3. toline \in [ToLines -> ToLineRow] /\ \A m \in ToLines : ToLineNumbersAt(toline[m])
  BY TransferTypes DEF TransferNumbers
<1>4. ToLineNumbersAt([toline[l] EXCEPT !.status = "SHORT_CLOSED"])
  BY <1>3 DEF ToLineNumbersAt, ToLineRow
<1>5. toline' \in [ToLines -> ToLineRow] /\ \A m \in ToLines : ToLineNumbersAt(toline'[m])
  BY <1>2, <1>3, <1>4, ToLinePut
<1> QED BY <1>1, <1>2, <1>5, TransferTypes, HeldKept DEF TransferNumbers, HeldNumbers

\* what a plan asks of a bin
LEMMA PlanInts ==
  ASSUME inventory \in InventoryType, TypeOKTransfers, NEW l \in ToLines, NEW b \in Bins
  PROVE  PlanWalk(l)[b] \in Int
<1> DEFINE cap == [c \in Bins |-> AtLeast0(inventory[<<l[2], c>>].on_hand)]
<1>1. l[2] \in Items
  BY DEF ToLines
<1>2. DOMAIN cap = Bins /\ \A c \in Bins : cap[c] \in Int
  BY <1>1, YardRows DEF InventoryType, AtLeast0
<1>3. toline[l].committed - toline[l].picked \in Int
  BY ToLineNumbers
<1>4. PlanWalk(l) = Walk(cap, toline[l].committed - toline[l].picked, LAMBDA c, d : c < d)
  BY DEF PlanWalk
<1> HIDE DEF cap
<1> QED BY <1>2, <1>3, <1>4, YardRows, WalkInOrder

LEMMA StartPickingInts ==
  ASSUME inventory \in InventoryType, TransferNumbers, NEW t \in Transfers, start_to_picking(t)
  PROVE  inventory' \in InventoryType /\ TransferNumbers'
<1>1. UNCHANGED <<inventory, transfer, toline, handheld>>
  BY DEF start_to_picking
<1>2. ASSUME NEW k \in totask' PROVE k.qty \in Int
  <2>1. CASE k \in totask
    BY <2>1 DEF TransferNumbers, HeldNumbers
  <2>2. CASE k \notin totask
    <3>1. PICK x \in Open(t) \X Bins : k.qty = PlanWalk(x[1])[x[2]]
      BY <1>2, <2>2 DEF start_to_picking
    <3>2. x[1] \in ToLines /\ x[2] \in Bins
      BY DEF Open, LinesOfTO
    <3> QED BY <3>1, <3>2, PlanInts DEF TransferNumbers
  <2> QED BY <2>1, <2>2
<1> QED BY <1>1, <1>2, TransferTypes, HeldKept DEF TransferNumbers

LEMMA LoadInts ==
  ASSUME inventory \in InventoryType, TransferNumbers, NEW h, NEW op, NEW k, NEW q, LoadToTask(h, op, k, q)
  PROVE  inventory' \in InventoryType /\ TransferNumbers'
<1>1. /\ UNCHANGED <<inventory, transfer, toline, totask>> /\ k \in totask
      /\ handheld' = [handheld EXCEPT ![h] = [op |-> op, task |-> k, q |-> q]]
  BY DEF LoadToTask
<1>2. ASSUME NEW g \in Handhelds, handheld'[g].op # "none" PROVE handheld'[g].task.qty \in Int
  <2>1. handheld'[g] = handheld[g] \/ handheld'[g] = [op |-> op, task |-> k, q |-> q]
    BY <1>1
  <2> QED BY <1>1, <1>2, <2>1 DEF TransferNumbers, HeldNumbers
<1>3. HeldNumbers'
  BY <1>1, <1>2 DEF HeldNumbers, TransferNumbers
<1> QED BY <1>1, <1>3, TransferTypes DEF TransferNumbers

LEMMA EndTaskInts ==
  ASSUME TasksThere, \A k \in totask : k.qty \in Int, NEW k, NEW status, EndTask(k, status)
  PROVE  \A j \in totask' : j.qty \in Int
<1> DEFINE ended(j) == IF j.id = k.id THEN [j EXCEPT !.status = status] ELSE j
<1>1. totask' = {ended(j) : j \in totask}
  BY DEF EndTask
<1>2. \A j \in totask : ended(j).qty = j.qty
  BY DEF TasksThere
<1> HIDE DEF ended
<1> QED BY <1>1, <1>2

LEMMA FreedInts ==
  ASSUME HeldNumbers, TransferInv, NEW h, handheld' = [handheld EXCEPT ![h] = Free],
         \A k \in totask' : k.qty \in Int
  PROVE  HeldNumbers'
<1>1. ASSUME NEW g \in Handhelds, handheld'[g].op # "none" PROVE handheld'[g].task.qty \in Int
  <2>1. handheld'[g] = handheld[g] \/ handheld'[g] = Free
    BY DEF TransferInv, LoadedThere
  <2> QED BY <1>1, <2>1 DEF HeldNumbers, Free
<1> QED BY <1>1 DEF HeldNumbers

LEMMA ToLineWritten ==
  ASSUME NEW row, ToLineNumbersAt(row), NEW q \in Nat, NEW s
  PROVE  /\ row.picked + q <= row.committed /\ s \in {"PICKED", "PARTIALLY_PICKED"} =>
              ToLineNumbersAt([row EXCEPT !.picked = @ + q, !.status = s])
         /\ row.approved + q <= row.picked /\ s \in {"APPROVED", row.status} =>
              ToLineNumbersAt([row EXCEPT !.approved = @ + q, !.status = s])
<1> DEFINE statuses == {"NONE", "PENDING", "PARTIALLY_PICKED", "PICKED", "APPROVED", "SHORT_CLOSED"}
           p == row.picked + q
           n == row.approved + q
           one == [row EXCEPT !.picked = p]
           two == [row EXCEPT !.approved = n]
<1>1. row \in ToLineRow /\ row.committed \in Nat /\ row.picked \in Nat /\ row.approved \in Nat
      /\ row.approved <= row.picked /\ row.picked <= row.committed /\ row.status \in statuses
  BY DEF ToLineNumbersAt, ToLineRow
<1>2. p \in Nat /\ n \in Nat
  BY <1>1
<1>3. /\ [row EXCEPT !.picked = @ + q, !.status = s] = [one EXCEPT !.status = s]
      /\ [row EXCEPT !.approved = @ + q, !.status = s] = [two EXCEPT !.status = s]
  OBVIOUS
<1>4. row.approved <= p /\ (row.approved + q <= row.picked => n <= row.picked)
  BY <1>1
<1>5. one \in ToLineRow /\ one.committed = row.committed /\ one.picked = p /\ one.approved = row.approved
  <2> HIDE DEF p
  <2> QED BY <1>1, <1>2 DEF ToLineRow
<1>6. two \in ToLineRow /\ two.committed = row.committed /\ two.picked = row.picked /\ two.approved = n
  <2> HIDE DEF n
  <2> QED BY <1>1, <1>2 DEF ToLineRow
<1> HIDE DEF one, two
<1>7. ASSUME NEW r \in ToLineRow, s \in statuses
      PROVE  LET w == [r EXCEPT !.status = s]
             IN  w \in ToLineRow /\ w.committed = r.committed /\ w.picked = r.picked /\ w.approved = r.approved
  BY <1>7 DEF ToLineRow
<1>8. s \in {"PICKED", "PARTIALLY_PICKED"} \/ s \in {"APPROVED", row.status} => s \in statuses
  BY <1>1
<1> HIDE DEF statuses
<1>9. ASSUME p <= row.committed, s \in {"PICKED", "PARTIALLY_PICKED"}
      PROVE  ToLineNumbersAt([one EXCEPT !.status = s])
  BY <1>4, <1>5, <1>7, <1>8, <1>9 DEF ToLineNumbersAt
<1>10. ASSUME n <= row.picked, s \in {"APPROVED", row.status}
       PROVE  ToLineNumbersAt([two EXCEPT !.status = s])
  BY <1>1, <1>6, <1>7, <1>8, <1>10 DEF ToLineNumbersAt
<1> QED BY <1>3, <1>9, <1>10

\* the guard of the UPDATE that counts a pick is what keeps the line within its commitment
LEMMA ConfirmInts ==
  ASSUME inventory \in InventoryType, TransferNumbers, TransferInv, CountsInv, NEW h \in Handhelds,
         confirm_to_pick(h)
  PROVE  inventory' \in InventoryType /\ TransferNumbers'
<1> DEFINE k == handheld[h].task
           q == handheld[h].q
<1>1. There(k.line) /\ q \in Nat
  BY DEF confirm_to_pick, TransferInv, LoadedThere, TasksThere, CountsInv, LoadedCounts
<1>2. inventory' = inventory /\ handheld' = [handheld EXCEPT ![h] = Free]
  BY DEF confirm_to_pick
<1>3. \A j \in totask' : j.qty \in Int
  <2>1. \A j \in totask : j.qty \in Int
    BY DEF TransferNumbers, HeldNumbers
  <2>2. totask' = totask \/ EndTask(k, "PICKED")
    BY DEF confirm_to_pick
  <2> QED BY <2>1, <2>2, EndTaskInts DEF TransferInv
<1>4. HeldNumbers'
  BY <1>2, <1>3, FreedInts DEF TransferNumbers
<1>5. CASE ~CanPick(k.line, q)
  <2>1. UNCHANGED <<toline, transfer>>
    BY <1>5 DEF confirm_to_pick
  <2> QED BY <1>2, <1>4, <2>1, TransferTypes DEF TransferNumbers
<1>6. CASE CanPick(k.line, q)
  <2> DEFINE l == k.line
             row == [toline[l] EXCEPT !.picked = @ + q,
                       !.status = IF toline[l].picked + q = toline[l].committed
                                  THEN "PICKED" ELSE "PARTIALLY_PICKED"]
             s == IF transfer[l[1]] = "OPEN" THEN "PARTIALLY_PICKED" ELSE transfer[l[1]]
  <2>1. toline' = [toline EXCEPT ![l].picked = @ + q,
                       ![l].status = IF toline[l].picked + q = toline[l].committed
                                     THEN "PICKED" ELSE "PARTIALLY_PICKED"]
        /\ transfer' = [transfer EXCEPT ![l[1]] = s]
    BY <1>6 DEF confirm_to_pick
  <2>2. l \in ToLines /\ toline[l].picked + q <= toline[l].committed
    BY <1>1, <1>6 DEF There, CanPick
  <2>3. toline \in [ToLines -> ToLineRow] /\ \A m \in ToLines : ToLineNumbersAt(toline[m])
    BY TransferTypes DEF TransferNumbers
  <2> HIDE DEF k, q, l
  <2>4. toline' = [toline EXCEPT ![l] = row]
    BY <2>1, <2>2, <2>3
  <2>5. ToLineNumbersAt(row)
    <3> DEFINE st == IF toline[l].picked + q = toline[l].committed THEN "PICKED" ELSE "PARTIALLY_PICKED"
    <3>1. row = [toline[l] EXCEPT !.picked = @ + q, !.status = st] /\ st \in {"PICKED", "PARTIALLY_PICKED"}
      OBVIOUS
    <3> HIDE DEF row, st
    <3> QED BY <1>1, <2>2, <2>3, <3>1, ToLineWritten
  <2> HIDE DEF row
  <2>6. toline' \in [ToLines -> ToLineRow] /\ \A m \in ToLines : ToLineNumbersAt(toline'[m])
    BY <2>3, <2>4, <2>5, ToLinePut
  <2>7. transfer \in [Transfers -> TransferStatuses]
    BY TransferTypes DEF TransferNumbers
  <2>8. l[1] \in Transfers => s \in TransferStatuses
    BY <2>7 DEF TransferStatuses
  <2> HIDE DEF s
  <2>9. transfer' \in [Transfers -> TransferStatuses]
    BY <2>1, <2>7, <2>8, TransferPut
  <2> QED BY <1>2, <1>4, <2>6, <2>9, TransferTypes DEF TransferNumbers
<1> QED BY <1>5, <1>6

LEMMA ShortToInts ==
  ASSUME inventory \in InventoryType, TransferNumbers, TransferInv, CountsInv, NEW h \in Handhelds,
         short_to_pick(h)
  PROVE  inventory' \in InventoryType /\ TransferNumbers'
<1> DEFINE k == handheld[h].task
           taken == take_floored(inventory, k.line[2], k.bin, handheld[h].q)
<1>1. /\ UNCHANGED <<transfer, toline>> /\ handheld' = [handheld EXCEPT ![h] = Free]
      /\ EndTask(k, "SHORT")
      /\ inventory' = release_floored(taken, k.line[2], k.bin, k.qty)
  BY DEF short_to_pick
<1>2. handheld[h].q \in Int /\ k.qty \in Int
  <2>1. handheld[h].op # "none"
    BY DEF short_to_pick
  <2>2. handheld[h].q \in Nat
    BY <2>1 DEF CountsInv, LoadedCounts
  <2> QED BY <2>1, <2>2 DEF TransferNumbers, HeldNumbers
<1> HIDE DEF k
<1>3. taken \in InventoryType
  BY <1>2, ShelfInts
<1> HIDE DEF taken
<1>4. inventory' \in InventoryType
  BY <1>1, <1>2, <1>3, ShelfInts
<1>5. \A j \in totask' : j.qty \in Int
  BY <1>1, EndTaskInts DEF TransferNumbers, HeldNumbers, TransferInv
<1>6. HeldNumbers'
  BY <1>1, <1>5, FreedInts DEF TransferNumbers
<1> QED BY <1>1, <1>4, <1>6, TransferTypes DEF TransferNumbers

LEMMA SubmitInts ==
  ASSUME TransferNumbers, NEW t, submit_picks(t)
  PROVE  transfer' \in [Transfers -> TransferStatuses]
<1> DEFINE s == IF Open(t) = {} THEN "AWAITING_APPROVAL" ELSE "PARTIALLY_PICKED"
<1>1. transfer' = [transfer EXCEPT ![t] = s] /\ s \in TransferStatuses
  BY DEF submit_picks, TransferStatuses
<1> HIDE DEF s
<1> QED BY <1>1, TransferTypes, TransferPut DEF TransferNumbers

LEMMA SubmitsInts ==
  ASSUME inventory \in InventoryType, TransferNumbers,
         \/ \E t \in Transfers : submit_transfer_order_picks(t)
         \/ \E n \in DOMAIN tobatch : complete_to_batch(n) \/ cancel_to_batch(n)
         \/ \E a \in approval : reject_transfer_order_approval(a)
  PROVE  inventory' \in InventoryType /\ TransferNumbers'
<1>1. UNCHANGED <<inventory, toline, totask, handheld>>
  BY DEF submit_transfer_order_picks, complete_to_batch, cancel_to_batch, reject_transfer_order_approval
<1>2. UNCHANGED transfer \/ \E t : submit_picks(t)
  <2>1. \A n : complete_to_batch(n) => UNCHANGED transfer \/ \E t : submit_picks(t)
    BY DEF complete_to_batch
  <2> QED BY <2>1 DEF submit_transfer_order_picks, cancel_to_batch, reject_transfer_order_approval
<1>3. transfer' \in [Transfers -> TransferStatuses]
  BY <1>2, SubmitInts, TransferTypes DEF TransferNumbers
<1> QED BY <1>1, <1>3, TransferTypes, HeldKept DEF TransferNumbers, HeldNumbers

\* the table's CHECK is what keeps an approval within what was picked
LEMMA ApproveInts ==
  ASSUME inventory \in InventoryType, TransferNumbers, TransferInv, CountsInv, NEW a \in approval,
         approve_transfer_order_approval(a)
  PROVE  inventory' \in InventoryType /\ TransferNumbers'
<1>1. UNCHANGED <<totask, handheld>>
  BY DEF approve_transfer_order_approval
<1>2. transfer' \in [Transfers -> TransferStatuses]
  <2> DEFINE s == IF evaluate_to_closure(a.to) THEN "CLOSED" ELSE transfer[a.to]
  <2>1. transfer' = [transfer EXCEPT ![a.to] = s]
    BY DEF approve_transfer_order_approval
  <2>2. transfer \in [Transfers -> TransferStatuses]
    BY TransferTypes DEF TransferNumbers
  <2>3. a.to \in Transfers => s \in TransferStatuses
    BY <2>2 DEF TransferStatuses
  <2> HIDE DEF s
  <2> QED BY <2>1, <2>2, <2>3, TransferPut
<1>3. \A l \in DOMAIN a.lines : a.lines[l] \in Nat
  BY DEF CountsInv, AskedCounts
<1>4. toline \in [ToLines -> ToLineRow] /\ \A l \in ToLines : ToLineNumbersAt(toline[l])
  BY TransferTypes DEF TransferNumbers
<1>5. toline' \in [ToLines -> ToLineRow] /\ \A l \in ToLines : ToLineNumbersAt(toline'[l])
  <2> DEFINE put(l) == [toline[l] EXCEPT !.approved = @ + a.lines[l],
                          !.status = IF toline[l].approved + a.lines[l] = toline[l].picked
                                        /\ toline[l].picked = toline[l].committed
                                     THEN "APPROVED" ELSE @]
  <2>1. toline' = [l \in ToLines |-> IF l \notin DOMAIN a.lines THEN toline[l] ELSE put(l)]
    BY DEF approve_transfer_order_approval
  <2>2. ASSUME NEW l \in ToLines, l \in DOMAIN a.lines PROVE ToLineNumbersAt(put(l))
    <3>1. toline[l].approved + a.lines[l] <= toline[l].picked /\ a.lines[l] \in Nat
      BY <1>3, <2>2 DEF approve_transfer_order_approval
    <3> DEFINE st == IF toline[l].approved + a.lines[l] = toline[l].picked
                        /\ toline[l].picked = toline[l].committed
                     THEN "APPROVED" ELSE toline[l].status
    <3>2. put(l) = [toline[l] EXCEPT !.approved = @ + a.lines[l], !.status = st]
          /\ st \in {"APPROVED", toline[l].status}
      OBVIOUS
    <3>3. ToLineNumbersAt(toline[l])
      BY <1>4
    <3> DEFINE q == a.lines[l]
               row == toline[l]
    <3>4. row.approved + q <= row.picked /\ q \in Nat /\ ToLineNumbersAt(row)
      BY <3>1, <3>3
    <3>5. put(l) = [row EXCEPT !.approved = @ + q, !.status = st] /\ st \in {"APPROVED", row.status}
      BY <3>2
    <3> HIDE DEF put, st, q, row
    <3>6. ToLineNumbersAt([row EXCEPT !.approved = @ + q, !.status = st])
      BY <3>4, <3>5, ToLineWritten
    <3> QED BY <3>5, <3>6
  <2> HIDE DEF put
  <2>3. \A l \in ToLines : ToLineNumbersAt(toline'[l])
    BY <1>4, <2>1, <2>2
  <2> QED BY <2>1, <2>3 DEF ToLineNumbersAt
<1>6. inventory' \in InventoryType
  <2>1. ASSUME NEW r \in Rows PROVE SourceTaken(r[1], Asked(a, r[1]))[r[2]] \in Int
    <3> DEFINE cap == [b \in Bins |-> AtLeast0(Least(inventory[<<r[1], b>>].allocated,
                                                    inventory[<<r[1], b>>].on_hand))]
    <3>1. Asked(a, r[1]) \in Int
      BY <1>3 DEF Asked
    <3>2. DOMAIN cap = Bins /\ \A b \in Bins : cap[b] \in Int
      BY YardRows DEF InventoryType, AtLeast0, Least
    <3>3. SourceTaken(r[1], Asked(a, r[1])) = Walk(cap, Asked(a, r[1]), LAMBDA c, b : c < b)
      BY DEF SourceTaken
    <3> HIDE DEF cap
    <3> QED BY <3>1, <3>2, <3>3, YardRows, WalkInOrder
  <2>2. inventory' = [r \in Rows |-> [on_hand   |-> inventory[r].on_hand - SourceTaken(r[1], Asked(a, r[1]))[r[2]],
                                      allocated |-> inventory[r].allocated - SourceTaken(r[1], Asked(a, r[1]))[r[2]]]]
    BY DEF approve_transfer_order_approval
  <2> QED BY <2>1, <2>2 DEF InventoryType
<1> QED BY <1>1, <1>2, <1>5, <1>6, TransferTypes, HeldKept DEF TransferNumbers, HeldNumbers

LEMMA TransferDeskInts ==
  ASSUME inventory \in InventoryType, TransferNumbers, TransferInv, CountsInv, desk \in Desks, TransferDesk
  PROVE  inventory' \in InventoryType /\ TransferNumbers'
<1> DEFINE Goal == inventory' \in InventoryType /\ TransferNumbers'
<1>1. ASSUME NEW t \in Transfers, NEW cart \in Carts, import_transfer_order(t, cart) PROVE Goal
  BY <1>1, DeskNumbers, ImportInts
<1>2. ASSUME NEW t \in Transfers, cancel_transfer_order(t) PROVE Goal
  BY <1>2, CancelInts
<1>3. ASSUME NEW t \in Transfers, delete_transfer_order(t) PROVE Goal
  BY <1>3, DeleteInts
<1>4. ASSUME NEW t \in Transfers, start_to_picking(t) PROVE Goal
  BY <1>4, StartPickingInts
<1>5. ASSUME NEW l \in ToLines, short_close_to_line(l) PROVE Goal
  BY <1>5, ShortCloseInts
<1>6. ASSUME NEW h \in Handhelds, NEW op, NEW k, NEW q, LoadToTask(h, op, k, q) PROVE Goal
  BY <1>6, LoadInts
<1>7. ASSUME NEW h \in Handhelds, confirm_to_pick(h) PROVE Goal
  BY <1>7, ConfirmInts
<1>8. ASSUME NEW h \in Handhelds, short_to_pick(h) PROVE Goal
  BY <1>8, ShortToInts
<1>9. ASSUME NEW a \in approval, approve_transfer_order_approval(a) PROVE Goal
  BY <1>9, ApproveInts
<1>10. ASSUME \/ \E t \in Transfers : submit_transfer_order_picks(t)
              \/ \E n \in DOMAIN tobatch : complete_to_batch(n) \/ cancel_to_batch(n)
              \/ \E a \in approval : reject_transfer_order_approval(a)
       PROVE  Goal
  BY <1>10, SubmitsInts
<1> HIDE DEF Goal
<1>11. Goal
  BY <1>1, <1>2, <1>3, <1>4, <1>5, <1>6, <1>7, <1>8, <1>9, <1>10 DEF TransferDesk
<1> QED BY <1>11 DEF Goal

YardInv == YardNumbers /\ TransferNumbers

LEMMA StillTransfers == TransferNumbers /\ UNCHANGED transferVars => TransferNumbers'
  BY TransferTypes DEF transferVars, TransferNumbers, HeldNumbers

LEMMA YardInvNext ==
  ASSUME YardInv, SalesInv, GoodsInv, TransferInv, CountsInv, [Next]_vars
  PROVE  YardInv'
<1>1. /\ Numbers /\ RequestsInts /\ CountsInts /\ YardNumbers /\ TransferNumbers /\ inventory \in InventoryType
      /\ Shaped /\ desk \in Desks
  BY DEF YardInv, YardNumbers, Numbers, SalesInv, PostsTyped, PostsAre
<1>2. ASSUME UNCHANGED <<inventory, line, task, request, count, review>> PROVE YardNumbers'
  BY <1>1, <1>2, StillCounts, StillRequests DEF YardNumbers, Numbers
<1>3. CASE (Purchasing \/ Receiving \/ Shelving) /\ UNCHANGED transferVars
  <2>1. CASE Purchasing
    <3>1. UNCHANGED <<inventory, line, task, request, count, review>>
      BY <2>1 DEF Purchasing, create_purchase_order, close_purchase_order, reopen_purchase_order,
           update_purchase_order, add_purchase_order_line, update_purchase_order_line,
           delete_purchase_order_line, edit_purchase_order_line, POUnchanged, SalesUnchanged
    <3> QED BY <1>1, <1>2, <1>3, <3>1, StillTransfers DEF YardInv
  <2>2. Receiving => YardNumbers'
    <3>1. Receiving => UNCHANGED task
      BY Looks DEF Looking, orderVars, Receiving, receive_items, BeginCancelReceiving, FinishCancelReceiving, record_unreceive,
             SalesUnchanged
    <3> QED BY <1>1, <3>1, ReceivingInts
  <2>3. Shelving => YardNumbers'
    <3>1. Shelving => UNCHANGED task
      BY Looks DEF Looking, orderVars, Shelving, move, BeginTransfer, FinishTransfer, direct_adjustment, create_cycle_count,
             submit_cycle_count, BeginReview, FinishReview, reject_adjustment, SalesUnchanged
    <3> QED BY <1>1, <3>1, ShelvingInts
  <2> QED BY <1>1, <1>3, <2>1, <2>2, <2>3, StillTransfers DEF YardInv
<1>4. CASE (SalesDesk \/ Pickers) /\ UNCHANGED <<stockroomVars, transferVars, inboundVars>>
  <2>1. UNCHANGED <<count, review>>
    BY <1>4 DEF stockroomVars, desksVars
  <2> QED BY <1>1, <1>4, <2>1, SalesDeskInts, PickersInts, StillTransfers DEF YardInv
<1>5. CASE TransferDesk
           /\ UNCHANGED <<order, line, batch, task, request, adjustment, receipt, stockroomVars, inboundVars>>
  <2>1. inventory' \in InventoryType /\ TransferNumbers'
    BY <1>1, <1>5, TransferDeskInts
  <2>2. UNCHANGED <<line, task, request, count, review>>
    BY <1>5 DEF stockroomVars, desksVars
  <2>3. Numbers' /\ RequestsInts' /\ CountsInts'
    BY <1>1, <2>1, <2>2, StillCounts, StillRequests DEF Numbers
  <2> QED BY <2>1, <2>3 DEF YardInv, YardNumbers
<1>6. CASE Upstream /\ UNCHANGED transferVars
  BY <1>1, <1>6, UpstreamInts, StillTransfers DEF YardInv
<1>7. CASE UNCHANGED vars
  BY <1>1, <1>2, <1>7, StillTransfers DEF vars, YardInv, transferVars
<1>8. Next => \/ (Purchasing \/ Receiving \/ Shelving) /\ UNCHANGED transferVars
              \/ (SalesDesk \/ Pickers) /\ UNCHANGED <<stockroomVars, transferVars, inboundVars>>
              \/ TransferDesk
                 /\ UNCHANGED <<order, line, batch, task, request, adjustment, receipt, stockroomVars, inboundVars>>
              \/ Upstream /\ UNCHANGED transferVars
  BY DEF Next
<1> QED BY <1>3, <1>4, <1>5, <1>6, <1>7, <1>8

LEMMA MorningInts ==
  ASSUME desk \in Desks
  PROVE  Morning.inv \in InventoryType /\ IntLines(Morning.line) /\ IntTasks(Morning.task)
<1> DEFINE entered == Entered(EmptyYard, 1, desk.cart)
           waiting == [l \in Lines |-> IF l[1] = 2 /\ l[2] \in DOMAIN desk.waiting
                                       THEN NewLine(desk.waiting[l[2]]) ELSE entered.line[l]]
<1>1. /\ desk.shelf \in [Rows -> Nat]
      /\ \A i \in DOMAIN desk.cart : desk.cart[i] \in Int
      /\ \A i \in DOMAIN desk.waiting : desk.waiting[i] \in Int
  BY DesksAssumption
<1>2. Ints(EmptyYard)
  <2>1. IntLine(NoLine) /\ DOMAIN NoLine = LineFields
    BY DEF NoLine, IntLine, LineFields
  <2>2. DOMAIN NoOrder = {"status", "kind", "parent", "voided"}
    BY DEF NoOrder
  <2>3. /\ DOMAIN EmptyYard = {"inv", "order", "line", "batch", "task"} /\ EmptyYard.task = {}
        /\ EmptyYard.inv = [r \in Rows |-> [on_hand |-> desk.shelf[r], allocated |-> 0]]
        /\ EmptyYard.line = [l \in Lines |-> NoLine] /\ EmptyYard.order = [o \in Orders |-> NoOrder]
    BY DEF EmptyYard
  <2>4. EmptyYard.inv \in InventoryType
    BY <1>1, <2>3 DEF InventoryType
  <2>5. IntTasks(EmptyYard.task)
    BY <2>3, FS_EmptySet DEF IntTasks
  <2>6. Tables(EmptyYard) /\ IntLines(EmptyYard.line)
    BY <2>1, <2>2, <2>3 DEF Tables, LineShape, OrderShape, IntLines
  <2> QED BY <2>4, <2>5, <2>6 DEF Ints
<1>3. Ints(entered)
  BY <1>1, <1>2, EntryInts
<1>4. Morning = EmptyYard \/ Morning = entered \/ Morning = WithBackorder(entered)
  BY DEF Morning
<1> HIDE DEF entered
<1>5. DOMAIN entered = {"inv", "order", "line", "batch", "task"}
  BY <1>3 DEF Ints, Tables
<1>6. /\ WithBackorder(entered).inv = entered.inv /\ WithBackorder(entered).task = entered.task
      /\ WithBackorder(entered).line = waiting
  BY <1>5 DEF WithBackorder
<1>7. ASSUME NEW l \in Lines PROVE IntLine(waiting[l])
  <2>1. waiting[l] = entered.line[l] \/ \E q \in Int : waiting[l] = NewLine(q)
    BY <1>1
  <2> QED BY <1>3, <2>1, NewLineInts DEF Ints, IntLines
<1>8. IntLines(waiting)
  BY <1>7 DEF IntLines
<1> HIDE DEF waiting
<1> QED BY <1>2, <1>3, <1>4, <1>6, <1>8 DEF Ints

LEMMA YardInvInit == Init => YardInv
<1> SUFFICES ASSUME Init PROVE YardInv
  OBVIOUS
<1>1. Numbers
  BY MorningInts DEF Init, Numbers
<1>2. RequestsInts
  BY IdleInts DEF Init, RequestsInts
<1>3. CountsInts
  BY DEF Init, CountsInts
<1>4. TypeOKTransfers
  BY DEF Init, TypeOKTransfers, NoToLine, ToLineRow, ToLines
<1>5. HeldNumbers
  BY DEF Init, HeldNumbers, Free
<1> QED BY <1>1, <1>2, <1>3, <1>4, <1>5 DEF YardInv, YardNumbers, TransferNumbers

\* A transfer line never picks more than the import committed to it
\* (update_transfer_order_line_picked checks it where it writes) and never has more
\* approved than was picked (CHECK approved_qty <= picked_qty), whatever the handhelds,
\* the approvals and everybody who moves the stock meanwhile do.
THEOREM PickedIsCommitted == Spec => []TypeOKTransfers
<1>1. Init => YardInv /\ TransferInv /\ CountsInv /\ PostInv /\ GoodsInv /\ SalesInv
  BY YardInvInit, TransferInvInit, CountsInvInit, PostInvInit, GoodsInvInit, SalesInvInit
<1>2. YardInv /\ TransferInv /\ CountsInv /\ PostInv /\ GoodsInv /\ SalesInv /\ [Next]_vars
        => (YardInv /\ TransferInv /\ CountsInv /\ PostInv /\ GoodsInv /\ SalesInv)'
  BY YardInvNext, TransferInvNext, CountsInvNext, PostInvNext, GoodsInvNext, SalesInvNext
<1>3. YardInv => TypeOKTransfers
  BY DEF YardInv, TransferNumbers
<1> QED BY <1>1, <1>2, <1>3, PTL DEF Spec

=============================================================================
