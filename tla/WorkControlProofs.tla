-------------------------- MODULE WorkControlProofs --------------------------
(***************************************************************************)
(* Theorems about what surrounds the task queue, on top of the theorems    *)
(* about the queue itself: the loop of auto_dispatch (WorkDispatch), the   *)
(* drafts of WorkReceiving with their recounts, and the mistake cases of   *)
(* WorkErrors.                                                             *)
(***************************************************************************)
EXTENDS WorkDispatch, WorkReceiving, WorkErrors, WorkTasksProofs, RowFacts

-----------------------------------------------------------------------------
(***************************************************************************)
(* Dispatch.  The loop of auto_dispatch, with its running totals, computes *)
(* what the rule of WorkTasks says.                                        *)
(***************************************************************************)

LEMMA TasksFinite == IsFiniteSet(TaskIds) /\ \A S : S \subseteq TaskIds => IsFiniteSet(S)
<1>1. IsFiniteSet(TaskIds)
  BY IntervalSize, BoundsAssumption DEF TaskIds
<1> QED BY <1>1, FS_Subset

(* The queue *)

LEMMA BeforeOrders ==
  ASSUME TypeOK
  PROVE  /\ \A s \in TaskIds : ~ Before(s, s, job)
         /\ \A s, t \in TaskIds : s # t => Before(s, t, job) \/ Before(t, s, job)
         /\ \A r, s, t \in TaskIds : Before(r, s, job) /\ Before(s, t, job) => Before(r, t, job)
         /\ \A s, t \in TaskIds : ~ (Before(s, t, job) /\ Before(t, s, job))
<1>1. \A t \in TaskIds : t \in Nat /\ job[t].priority \in Nat
  BY DEF TypeOK, Job, TaskIds
<1> QED BY <1>1 DEF Before

LEMMA Positions ==
  ASSUME TypeOK
  PROVE  /\ \A t \in Open : Cardinality(Ahead(t)) \in 0 .. (Cardinality(Open) - 1)
         /\ \A s, t \in Open : Before(s, t, job) => Cardinality(Ahead(s)) < Cardinality(Ahead(t))
         /\ Cardinality(Open) \in Nat /\ IsFiniteSet(Open)
<1>1. Open \subseteq TaskIds /\ IsFiniteSet(Open) /\ Cardinality(Open) \in Nat
  BY TasksFinite, FS_CardinalityType DEF Open
<1>2. ASSUME NEW t \in Open PROVE IsFiniteSet(Ahead(t)) /\ Cardinality(Ahead(t)) \in Nat
  BY <1>1, TasksFinite, FS_CardinalityType DEF Ahead
<1>3. ASSUME NEW t \in Open PROVE Cardinality(Ahead(t)) \in 0 .. (Cardinality(Open) - 1)
  <2>1. Ahead(t) \subseteq Open \ {t}
    BY <1>1, BeforeOrders DEF Ahead
  <2>2. IsFiniteSet(Open \ {t}) /\ Cardinality(Open \ {t}) = Cardinality(Open) - 1
    BY <1>1, FS_RemoveElement
  <2>3. Cardinality(Ahead(t)) <= Cardinality(Open \ {t})
    BY <2>1, <2>2, FS_Subset
  <2> QED BY <1>1, <1>2, <2>2, <2>3
<1>4. ASSUME NEW s \in Open, NEW t \in Open, Before(s, t, job)
      PROVE  Cardinality(Ahead(s)) < Cardinality(Ahead(t))
  <2>1. Ahead(s) \cup {s} \subseteq Ahead(t) /\ s \notin Ahead(s)
    BY <1>1, <1>4, BeforeOrders DEF Ahead
  <2>2. IsFiniteSet(Ahead(s) \cup {s}) /\ Cardinality(Ahead(s) \cup {s}) = Cardinality(Ahead(s)) + 1
    BY <1>2, <2>1, FS_AddElement
  <2>3. Cardinality(Ahead(s) \cup {s}) <= Cardinality(Ahead(t))
    BY <1>2, <2>1, FS_Subset
  <2> QED BY <1>2, <2>2, <2>3
<1> QED BY <1>1, <1>3, <1>4

LEMMA QueueOrder ==
  ASSUME TypeOK
  PROVE  LET N == Cardinality(Open)
         IN  /\ N \in Nat /\ Open \subseteq TaskIds
             /\ \A n \in 1 .. N : OpenTasks[n] \in Open
             /\ \A t \in Open : \E n \in 1 .. N : OpenTasks[n] = t
             /\ \A m, n \in 1 .. N : m < n <=> Before(OpenTasks[m], OpenTasks[n], job)
<1> DEFINE N == Cardinality(Open)
           place == [t \in Open |-> Cardinality(Ahead(t))]
           P == 0 .. (N - 1)
<1>1. /\ N \in Nat /\ IsFiniteSet(Open) /\ Open \subseteq TaskIds
      /\ \A t \in Open : place[t] \in P
      /\ \A s, t \in Open : Before(s, t, job) => place[s] < place[t]
  BY Positions DEF Open
<1>2. IsFiniteSet(P) /\ Cardinality(P) = N
  BY <1>1, FS_Interval
<1>3. place \in Injection(Open, P)
  <2>1. place \in [Open -> P]
    BY <1>1
  <2>2. ASSUME NEW s \in Open, NEW t \in Open, place[s] = place[t] PROVE s = t
    <3>1. place[s] \in Int /\ place[t] \in Int
      BY <1>1
    <3>2. ~ Before(s, t, job) /\ ~ Before(t, s, job)
      <4> HIDE DEF place
      <4> QED BY <1>1, <2>2, <3>1
    <3> QED BY <1>1, <3>2, BeforeOrders
  <2> HIDE DEF place, P
  <2> QED BY <2>1, <2>2 DEF Injection, IsInjective
<1>4. place \in Surjection(Open, P)
  <2> HIDE DEF place, P
  <2> QED BY <1>1, <1>2, <1>3, FS_Injection
<1>5. \A n \in 1 .. N : OpenTasks[n] \in Open /\ place[OpenTasks[n]] = n - 1
  <2> TAKE n \in 1 .. N
  <2>1. n - 1 \in P
    BY <1>1
  <2>2. \E t \in Open : place[t] = n - 1
    <3> HIDE DEF place, P
    <3> QED BY <1>4, <2>1 DEF Surjection
  <2>3. \E t \in Open : Cardinality(Ahead(t)) = n - 1
    BY <2>2
  <2>4. OpenTasks[n] = CHOOSE t \in Open : Cardinality(Ahead(t)) = n - 1
    BY DEF OpenTasks
  <2>5. OpenTasks[n] \in Open /\ Cardinality(Ahead(OpenTasks[n])) = n - 1
    BY <2>3, <2>4
  <2> QED BY <2>5
<1> HIDE DEF place
<1>6. \A t \in Open : \E n \in 1 .. N : OpenTasks[n] = t
  <2> TAKE t \in Open
  <2>1. place[t] + 1 \in 1 .. N /\ place[t] \in Int
    BY <1>1
  <2>2. OpenTasks[place[t] + 1] \in Open /\ place[OpenTasks[place[t] + 1]] = place[t]
    BY <1>5, <2>1
  <2>3. OpenTasks[place[t] + 1] = t
    <3> HIDE DEF P
    <3> QED BY <1>3, <2>2 DEF Injection, IsInjective
  <2> QED BY <2>1, <2>3
<1>7. ASSUME NEW m \in 1 .. N, NEW n \in 1 .. N
      PROVE  m < n <=> Before(OpenTasks[m], OpenTasks[n], job)
  <2> DEFINE s == OpenTasks[m]
             t == OpenTasks[n]
  <2>1. s \in Open /\ t \in Open /\ place[s] = m - 1 /\ place[t] = n - 1
    BY <1>5
  <2> HIDE DEF s, t
  <2>2. Before(s, t, job) => m < n
    BY <1>1, <2>1
  <2>3. m < n => s # t
    BY <1>1, <2>1
  <2>4. Before(t, s, job) => n < m
    BY <1>1, <2>1
  <2>5. s # t => Before(s, t, job) \/ Before(t, s, job)
    BY <1>1, <2>1, BeforeOrders
  <2>6. ~ (m < n /\ n < m)
    BY <1>1
  <2> QED BY <2>2, <2>3, <2>4, <2>5, <2>6 DEF s, t
<1> QED BY <1>1, <1>5, <1>6, <1>7

First(n) == {OpenTasks[m] : m \in 1 .. n}

LEMMA FirstTasks ==
  ASSUME TypeOK
  PROVE  LET N == Cardinality(Open)
         IN  /\ First(0) = {} /\ First(N) = Open
             /\ \A n \in 0 .. N : First(n) \subseteq Open
             /\ \A n \in 1 .. N : /\ First(n) = First(n - 1) \cup {OpenTasks[n]}
                                  /\ OpenTasks[n] \in Open
                                  /\ OpenTasks[n] \notin First(n - 1)
                                  /\ \A s \in Open : s \in First(n - 1) <=> Before(s, OpenTasks[n], job)
<1> DEFINE N == Cardinality(Open)
<1>1. /\ N \in Nat /\ Open \subseteq TaskIds
      /\ \A n \in 1 .. N : OpenTasks[n] \in Open
      /\ \A t \in Open : \E n \in 1 .. N : OpenTasks[n] = t
      /\ \A m, n \in 1 .. N : m < n <=> Before(OpenTasks[m], OpenTasks[n], job)
  BY QueueOrder
<1> HIDE DEF N
<1>2. First(0) = {} /\ First(N) = Open
  BY <1>1 DEF First
<1>3. ASSUME NEW n \in 0 .. N PROVE First(n) \subseteq Open
  BY <1>1 DEF First
<1>4. ASSUME NEW n \in 1 .. N
      PROVE  /\ First(n) = First(n - 1) \cup {OpenTasks[n]}
             /\ \A s \in Open : s \in First(n - 1) <=> Before(s, OpenTasks[n], job)
  <2>1. \A m : m \in 1 .. n <=> m \in 1 .. (n - 1) \/ m = n
    BY <1>1
  <2>2. First(n) = First(n - 1) \cup {OpenTasks[n]}
    BY <2>1 DEF First
  <2>3. ASSUME NEW s \in Open PROVE s \in First(n - 1) <=> Before(s, OpenTasks[n], job)
    <3>1. \A m : m \in 1 .. (n - 1) <=> m \in 1 .. N /\ m < n
      BY <1>1
    <3>2. s \in First(n - 1) <=> \E m \in 1 .. N : m < n /\ OpenTasks[m] = s
      BY <3>1 DEF First
    <3>3. PICK k \in 1 .. N : OpenTasks[k] = s
      BY <1>1
    <3> QED BY <1>1, <3>2, <3>3
  <2> QED BY <2>2, <2>3
<1>5. ASSUME NEW n \in 1 .. N PROVE OpenTasks[n] \notin First(n - 1)
  BY <1>1, <1>4, BeforeOrders
<1> QED BY <1>1, <1>2, <1>3, <1>4, <1>5 DEF N

(* What an employee already has *)

MinutesOf == [t \in TaskIds |-> RemainingMinutes(t, status, job)]
EstimateOf == [t \in TaskIds |-> EstimatedMinutes[job[t].type]]
Has(u, S)  == {t \in S : Owner(t, assigned_to) = u}

LEMMA MinutesNat ==
  ASSUME TypeOK
  PROVE  NatOn(MinutesOf, TaskIds) /\ NatOn(EstimateOf, TaskIds)
<1>1. ASSUME NEW t \in TaskIds PROVE MinutesOf[t] \in Nat /\ EstimateOf[t] \in Nat
  <2>1. job[t].type \in TaskTypes /\ EstimatedMinutes[job[t].type] \in Nat
    BY InputsAssumption DEF TypeOK, Job
  <2>2. timing[t] \in Timing /\ now \in Nat
    BY DEF TypeOK
  <2>3. timing[t].active \in Nat /\ timing[t].active_from \in Nat \cup {NULL}
    BY <2>2 DEF Timing, Stamp
  <2>4. \A n \in Int : Greatest0(n) \in Nat
    BY DEF Greatest0
  <2>5. timing[t].active_from # NULL => Greatest0(now - timing[t].active_from) \in Nat
    BY <2>2, <2>3, <2>4
  <2> DEFINE running == IF status[t] = "IN_PROGRESS" /\ timing[t].active_from # NULL
                          THEN Greatest0(now - timing[t].active_from) ELSE 0
  <2>6. running \in Nat
    BY <2>5
  <2>7. RemainingMinutes(t, status, job)
          = Greatest0(EstimatedMinutes[job[t].type] - (timing[t].active + running))
    BY DEF RemainingMinutes
  <2> HIDE DEF running
  <2>8. RemainingMinutes(t, status, job) \in Nat
    BY <2>1, <2>3, <2>4, <2>6, <2>7
  <2> QED BY <2>1, <2>8 DEF MinutesOf, EstimateOf
<1> QED BY <1>1 DEF NatOn

\* one more task: the sum grows by it
LEMMA OneMore ==
  ASSUME NEW f, NatOn(f, TaskIds), NEW S, S \subseteq TaskIds, NEW t \in TaskIds, t \notin S
  PROVE  /\ Total(f, S) \in Nat /\ f[t] \in Nat /\ Cardinality(S) \in Nat
         /\ Total(f, S \cup {t}) = Total(f, S) + f[t]
         /\ Cardinality(S \cup {t}) = Cardinality(S) + 1
<1>1. IsFiniteSet(S) /\ IsFiniteSet(S \cup {t}) /\ S \cup {t} \subseteq TaskIds
  BY TasksFinite
<1>2. NatOn(f, S \cup {t}) /\ NatOn(f, S) /\ f[t] \in Nat
  BY <1>1 DEF NatOn
<1>3. Total(f, S \cup {t}) = Total(f, (S \cup {t}) \ {t}) + f[t]
  BY <1>1, <1>2, TotalWithout
<1>4. (S \cup {t}) \ {t} = S
  OBVIOUS
<1> QED BY <1>1, <1>2, <1>3, <1>4, UnitsFinite, FS_AddElement, FS_CardinalityType

LEMMA SumsOverTasks ==
  ASSUME NEW S, S \subseteq TaskIds
  PROVE  /\ SumOver(LAMBDA s : RemainingMinutes(s, status, job), S) = Total(MinutesOf, S)
         /\ SumOver(LAMBDA s : EstimatedMinutes[job[s].type], S) = Total(EstimateOf, S)
<1>1. \A s \in S : /\ [x \in S |-> RemainingMinutes(x, status, job)][s] = MinutesOf[s]
                   /\ [x \in S |-> EstimatedMinutes[job[x].type]][s] = EstimateOf[s]
  BY DEF MinutesOf, EstimateOf
<1>2. Total([x \in S |-> RemainingMinutes(x, status, job)], S) = Total(MinutesOf, S)
  BY <1>1, TotalSame
<1>3. Total([x \in S |-> EstimatedMinutes[job[x].type]], S) = Total(EstimateOf, S)
  BY <1>1, TotalSame
<1> QED BY <1>2, <1>3 DEF SumOver

\* the totals after the tasks of S
TotalsOf(S) == [minutes |-> [u \in Users |-> Total(MinutesOf, Has(u, S))],
                count   |-> [u \in Users |-> Cardinality(Has(u, S))]]

LEMMA NoneOwned == TotalsOf({}) = NoTotals
<1>1. \A u : Has(u, {}) = {}
  BY DEF Has
<1>2. \A f : Total(f, {}) = 0
  BY TotalEmpty
<1> QED BY <1>1, <1>2, FS_EmptySet DEF TotalsOf, NoTotals

LEMMA OwnedStep ==
  ASSUME TypeOK, NEW S, S \subseteq TaskIds, NEW t \in TaskIds, t \notin S
  PROVE  AddOwned(TotalsOf(S), t) = TotalsOf(S \cup {t})
<1> DEFINE o == Owner(t, assigned_to)
<1>1. o \in Users \cup {NULL} /\ NULL \notin Users
  BY NullAssumption DEF TypeOK, Owner
<1>2. \A u : Has(u, S \cup {t}) = IF u = o THEN Has(u, S) \cup {t} ELSE Has(u, S)
  BY DEF Has
<1>3. \A u : Has(u, S) \subseteq TaskIds /\ t \notin Has(u, S)
  BY DEF Has
<1>4. \A u : /\ Total(MinutesOf, Has(u, S) \cup {t}) = Total(MinutesOf, Has(u, S)) + MinutesOf[t]
             /\ Cardinality(Has(u, S) \cup {t}) = Cardinality(Has(u, S)) + 1
  BY <1>3, MinutesNat, OneMore
<1>5. MinutesOf[t] = RemainingMinutes(t, status, job)
  BY DEF MinutesOf
<1> HIDE DEF o
<1>6. CASE o = NULL
  <2>1. AddOwned(TotalsOf(S), t) = TotalsOf(S)
    BY <1>6 DEF AddOwned, o
  <2>2. \A u \in Users : Has(u, S \cup {t}) = Has(u, S)
    BY <1>1, <1>2, <1>6
  <2> QED BY <2>1, <2>2 DEF TotalsOf
<1>7. CASE o # NULL
  <2> DEFINE m == [u \in Users |-> Total(MinutesOf, Has(u, S))]
             c == [u \in Users |-> Cardinality(Has(u, S))]
  <2>1. AddOwned(TotalsOf(S), t) = [minutes |-> [m EXCEPT ![o] = @ + MinutesOf[t]],
                                    count   |-> [c EXCEPT ![o] = @ + 1]]
    BY <1>5, <1>7 DEF AddOwned, TotalsOf, o
  <2>2. [m EXCEPT ![o] = @ + MinutesOf[t]] = [u \in Users |-> Total(MinutesOf, Has(u, S \cup {t}))]
    BY <1>2, <1>4
  <2>3. [c EXCEPT ![o] = @ + 1] = [u \in Users |-> Cardinality(Has(u, S \cup {t}))]
    BY <1>2, <1>4
  <2> HIDE DEF m, c
  <2> QED BY <2>1, <2>2, <2>3 DEF TotalsOf
<1> QED BY <1>6, <1>7

\* The first pass of the loop: what everybody owns among the open tasks.
LEMMA FirstPass ==
  ASSUME TypeOK
  PROVE  OwnedTotals = TotalsOf(Open)
<1> DEFINE N == Cardinality(Open)
           Pass(f) == f = [n \in 0 .. N |-> IF n = 0 THEN NoTotals
                                            ELSE AddOwned(f[n - 1], OpenTasks[n])]
           g == [n \in 0 .. N |-> TotalsOf(First(n))]
<1>1. N \in Nat /\ Open \subseteq TaskIds
  BY QueueOrder
<1>2. \A n \in 1 .. N : AddOwned(TotalsOf(First(n - 1)), OpenTasks[n]) = TotalsOf(First(n))
  <2> TAKE n \in 1 .. N
  <2>1. /\ First(n) = First(n - 1) \cup {OpenTasks[n]} /\ OpenTasks[n] \in TaskIds
        /\ OpenTasks[n] \notin First(n - 1) /\ First(n - 1) \subseteq TaskIds
    BY <1>1, FirstTasks
  <2> QED BY <2>1, OwnedStep
<1>3. TotalsOf(First(0)) = NoTotals
  BY FirstTasks, NoneOwned
<1>4. Pass(g)
  <2> DEFINE h == [n \in 0 .. N |-> IF n = 0 THEN NoTotals ELSE AddOwned(g[n - 1], OpenTasks[n])]
  <2>1. ASSUME NEW n \in 0 .. N PROVE g[n] = h[n]
    <3>1. CASE n = 0
      BY <1>3, <3>1
    <3>2. CASE n # 0
      <4>1. n \in 1 .. N /\ n - 1 \in 0 .. N
        BY <1>1, <3>2
      <4> HIDE DEF N
      <4> QED BY <1>2, <3>2, <4>1
    <3> QED BY <3>1, <3>2
  <2> HIDE DEF N
  <2>2. g = h
    BY <2>1
  <2> QED BY <2>2
<1>5. \E f : Pass(f) /\ OwnedTotals = f[N]
  <2> HIDE DEF g
  <2> QED BY <1>4 DEF OwnedTotals
<1>6. PICK f : Pass(f) /\ OwnedTotals = f[N]
  BY <1>5
<1> DEFINE S == {n \in 0 .. N : f[n] = g[n]}
<1>7. \A n \in 0 .. N : f[n] = IF n = 0 THEN NoTotals ELSE AddOwned(f[n - 1], OpenTasks[n])
  <2> HIDE DEF N
  <2> QED BY <1>6
<1>8. \A n \in 0 .. N : n \in S
  <2>1. 0 \in S
    BY <1>1, <1>3, <1>7
  <2>2. ASSUME NEW n \in 1 .. N, n - 1 \in S PROVE n \in S
    <3>1. n \in 0 .. N /\ n # 0 /\ n - 1 \in 0 .. N
      BY <1>1
    <3>2. f[n - 1] = TotalsOf(First(n - 1))
      BY <2>2
    <3> HIDE DEF N
    <3>3. f[n] = TotalsOf(First(n))
      BY <1>2, <1>7, <3>1, <3>2
    <3> QED BY <3>1, <3>3
  <2> HIDE DEF N, S
  <2> QED BY <1>1, <2>1, <2>2, UpTo
<1>9. N \in S
  <2>1. N \in 0 .. N
    BY <1>1
  <2> HIDE DEF N, S
  <2> QED BY <1>8, <2>1
<1> QED BY <1>6, <1>9, FirstTasks

(* What the second pass gives *)

Pending     == Unowned(status, assigned_to)
Assignments == [Pending -> Workers \cup {NULL}]
To(f, u)    == {t \in Pending : f[t] = u}

\* the rule, for one task
Best(t, f) ==
  LET candidates == DispatchCandidates(t, f, assigned_to, job, availability)
  IN  IF candidates = {} THEN f[t] = NULL
      ELSE /\ f[t] \in candidates
           /\ \A w \in candidates \ {f[t]} : Preferred(f[t], w, t, f, status, assigned_to, job)

\* the variables of the loop when it has given f
After(f) ==
  [given  |-> f,
   totals |-> [minutes |-> [u \in Users |-> Total(MinutesOf, Has(u, Open)) + Total(EstimateOf, To(f, u))],
               count   |-> [u \in Users |-> Cardinality(Has(u, Open)) + Cardinality(To(f, u))]],
   counterparts |-> [b \in Batches |-> PickPackWorkers[b]
                       \cup ({f[s] : s \in {r \in Pending : job[r].batch = b}} \ {NULL})]]

\* the tasks of S have got what the rule gives them, and no others anything
Given(f, S) ==
  /\ f \in Assignments
  /\ \A t \in Pending \ S : f[t] = NULL
  /\ \A t \in Pending \cap S : Best(t, f)

LEMMA PendingTasks ==
  ASSUME TypeOK
  PROVE  Pending \subseteq Open /\ Pending \subseteq TaskIds /\ Open \subseteq TaskIds
         /\ (\A w \in Workers : w \in Users /\ w # NULL)
         /\ \A t \in TaskIds : job[t].batch # NULL => job[t].batch \in Batches
  BY NullAssumption DEF Pending, Unowned, Open, OPEN_STATUSES, Statuses, TERMINAL, TypeOK, Job, Users

\* what the rule says of a task depends on the tasks before it only
LEMMA RuleLocal ==
  ASSUME TypeOK, NEW f \in Assignments, NEW g \in Assignments, NEW t,
         \A r \in Pending : Before(r, t, job) => f[r] = g[r]
  PROVE  /\ DispatchCandidates(t, f, assigned_to, job, availability)
              = DispatchCandidates(t, g, assigned_to, job, availability)
         /\ \A v, w : Preferred(v, w, t, f, status, assigned_to, job)
                        <=> Preferred(v, w, t, g, status, assigned_to, job)
<1>1. DOMAIN f = Pending /\ DOMAIN g = Pending
  BY DEF Assignments
<1>2. \A w : GivenBefore(w, t, f, job) = GivenBefore(w, t, g, job)
  BY <1>1 DEF GivenBefore
<1>3. CounterpartWorkers(t, f, assigned_to, job) = CounterpartWorkers(t, g, assigned_to, job)
  <2> DEFINE E == {r \in Pending : Before(r, t, job) /\ job[r].batch = job[t].batch}
  <2>1. {f[s] : s \in E} = {g[s] : s \in E}
    OBVIOUS
  <2> QED BY <1>1, <2>1 DEF CounterpartWorkers
<1>4. \A w : /\ ProjectedMinutes(w, t, f, status, assigned_to, job)
                  = ProjectedMinutes(w, t, g, status, assigned_to, job)
             /\ AssignedCount(w, t, f, status, assigned_to, job)
                  = AssignedCount(w, t, g, status, assigned_to, job)
  BY <1>2 DEF ProjectedMinutes, AssignedCount
<1> QED BY <1>3, <1>4 DEF DispatchCandidates, Preferred

LEMMA BestLocal ==
  ASSUME TypeOK, NEW f \in Assignments, NEW g \in Assignments, NEW t \in Pending, f[t] = g[t],
         \A r \in Pending : Before(r, t, job) => f[r] = g[r], Best(t, f)
  PROVE  Best(t, g)
  BY RuleLocal DEF Best

\* when the loop comes to t, its totals are the rule's
LEMMA TotalsAgree ==
  ASSUME TypeOK, NEW n \in 1 .. Cardinality(Open), NEW f, Given(f, First(n - 1)), NEW w \in Workers
  PROVE  LET t == OpenTasks[n]
         IN  /\ ProjectedMinutes(w, t, f, status, assigned_to, job) = After(f).totals.minutes[w]
             /\ AssignedCount(w, t, f, status, assigned_to, job) = After(f).totals.count[w]
             /\ After(f).totals.minutes[w] \in Nat
             /\ After(f).totals.count[w] \in Nat
<1> DEFINE t == OpenTasks[n]
<1>1. DOMAIN f = Pending /\ Pending \subseteq Open /\ Open \subseteq TaskIds /\ w \in Users /\ w # NULL
  BY PendingTasks DEF Given, Assignments
<1>2. \A s \in Open : s \in First(n - 1) <=> Before(s, t, job)
  BY FirstTasks
<1>3. GivenBefore(w, t, f, job) = To(f, w)
  BY <1>1, <1>2 DEF GivenBefore, To, Given
<1>4. OpenOwned(w, status, assigned_to) = Has(w, Open)
  BY DEF OpenOwned, Has, Open
<1>5. Has(w, Open) \subseteq TaskIds /\ To(f, w) \subseteq TaskIds
  BY <1>1 DEF Has, To
<1>6. ProjectedMinutes(w, t, f, status, assigned_to, job)
        = Total(MinutesOf, Has(w, Open)) + Total(EstimateOf, To(f, w))
  <2>1. SumOver(LAMBDA s : RemainingMinutes(s, status, job), Has(w, Open)) = Total(MinutesOf, Has(w, Open))
    BY <1>5, SumsOverTasks
  <2>2. SumOver(LAMBDA s : EstimatedMinutes[job[s].type], To(f, w)) = Total(EstimateOf, To(f, w))
    BY <1>5, SumsOverTasks
  <2> QED BY <1>3, <1>4, <2>1, <2>2 DEF ProjectedMinutes
<1>7. AssignedCount(w, t, f, status, assigned_to, job) = Cardinality(Has(w, Open)) + Cardinality(To(f, w))
  BY <1>3, <1>4 DEF AssignedCount
<1>8. /\ Total(MinutesOf, Has(w, Open)) \in Nat /\ Total(EstimateOf, To(f, w)) \in Nat
      /\ Cardinality(Has(w, Open)) \in Nat /\ Cardinality(To(f, w)) \in Nat
  <2>1. IsFiniteSet(Has(w, Open)) /\ IsFiniteSet(To(f, w))
    BY <1>5, TasksFinite
  <2>2. NatOn(MinutesOf, Has(w, Open)) /\ NatOn(EstimateOf, To(f, w))
    BY <1>5, MinutesNat DEF NatOn
  <2> QED BY <2>1, <2>2, UnitsFinite, FS_CardinalityType
<1>9. /\ After(f).totals.minutes[w] = Total(MinutesOf, Has(w, Open)) + Total(EstimateOf, To(f, w))
      /\ After(f).totals.count[w] = Cardinality(Has(w, Open)) + Cardinality(To(f, w))
  BY <1>1 DEF After
<1> QED BY <1>6, <1>7, <1>8, <1>9

LoopCandidates(t, acc) ==
  {w \in Workers :
     /\ availability[w] = "AVAILABLE"
     /\ job[t].type \in grants[w]
     /\ ~ /\ job[t].batch # NULL
          /\ job[t].type \in PickPack
          /\ w \in acc.counterparts[job[t].batch]}

LEMMA CandidatesAgree ==
  ASSUME TypeOK, RowsAgree, NEW n \in 1 .. Cardinality(Open), NEW f, Given(f, First(n - 1))
  PROVE  LET t == OpenTasks[n]
         IN  LoopCandidates(t, After(f)) = DispatchCandidates(t, f, assigned_to, job, availability)
<1> DEFINE t == OpenTasks[n]
           b == job[t].batch
<1>1. DOMAIN f = Pending /\ Pending \subseteq Open /\ Open \subseteq TaskIds
  BY PendingTasks DEF Given, Assignments
<1>2. t \in TaskIds /\ \A s \in Open : s \in First(n - 1) <=> Before(s, t, job)
  BY <1>1, FirstTasks
<1> SUFFICES ASSUME NEW w \in Workers, b # NULL
             PROVE  w \in After(f).counterparts[b] <=> w \in CounterpartWorkers(t, f, assigned_to, job)
  BY DEF LoopCandidates, DispatchCandidates
<1>3. b \in Batches /\ w # NULL
  BY <1>2, PendingTasks
<1>4. After(f).counterparts[b]
        = PickPackWorkers[b] \cup ({f[s] : s \in {r \in Pending : job[r].batch = b}} \ {NULL})
  BY <1>3 DEF After
<1>5. w \in PickPackWorkers[b] <=> \E s \in TaskIds : /\ job[s].batch = b /\ job[s].type \in PickPack
                                                      /\ Owner(s, assigned_to) = w
  <2>1. \A s \in TaskIds : job[s].batch = b => Exists(s)
    BY <1>3, NullAssumption DEF Exists, RowsAgree
  <2> HIDE DEF b
  <2> QED BY <1>3, <2>1 DEF PickPackWorkers
<1>6. w \in CounterpartWorkers(t, f, assigned_to, job) <=>
        \/ \E s \in TaskIds : job[s].batch = b /\ job[s].type \in PickPack /\ Owner(s, assigned_to) = w
        \/ \E s \in Pending : Before(s, t, job) /\ job[s].batch = b /\ f[s] = w
  BY <1>1 DEF CounterpartWorkers
<1>7. \A s \in Pending : f[s] = w => Before(s, t, job)
  BY <1>1, <1>2, <1>3 DEF Given
<1> QED BY <1>3, <1>4, <1>5, <1>6, <1>7

\* min over some candidates: there is a least one
LEMMA LeastIs ==
  ASSUME NEW C, C \subseteq Workers, C # {}, NEW totals,
         \A w \in C : totals.minutes[w] \in Nat /\ totals.count[w] \in Nat
  PROVE  /\ Least(C, totals) \in C
         /\ \A w \in C \ {Least(C, totals)} :
              LET v == Least(C, totals)
              IN  \/ totals.minutes[v] < totals.minutes[w]
                  \/ /\ totals.minutes[v] = totals.minutes[w]
                     /\ \/ totals.count[v] < totals.count[w]
                        \/ totals.count[v] = totals.count[w] /\ Rank[v] < Rank[w]
<1> DEFINE m(w) == totals.minutes[w]
           c(w) == totals.count[w]
           M  == {m(w) : w \in C}
           C1 == {w \in C : m(w) = Min(M)}
           K  == {c(w) : w \in C1}
           C2 == {w \in C1 : c(w) = Min(K)}
           L  == {Rank[w] : w \in C2}
<1>1. Min(M) \in M /\ \A k \in M : Min(M) <= k
  <2>1. M \subseteq Nat /\ M # {}
    OBVIOUS
  <2> HIDE DEF M
  <2> QED BY <2>1, MinOfRows
<1>2. C1 # {} /\ C1 \subseteq C /\ \A w \in C : Min(M) <= m(w)
  BY <1>1
<1>3. Min(K) \in K /\ \A k \in K : Min(K) <= k
  <2>1. K \subseteq Nat /\ K # {}
    BY <1>2
  <2> HIDE DEF K
  <2> QED BY <2>1, MinOfRows
<1>4. C2 # {} /\ C2 \subseteq C1 /\ \A w \in C1 : Min(K) <= c(w)
  BY <1>3
<1>5. Min(L) \in L /\ \A k \in L : Min(L) <= k
  <2>1. L \subseteq Nat /\ L # {}
    <3> HIDE DEF C1, C2, M, K
    <3> QED BY <1>2, <1>4, RankAssumption
  <2> HIDE DEF L
  <2> QED BY <2>1, MinOfRows
<1>6. PICK v \in C2 : Rank[v] = Min(L)
  BY <1>5
<1>7. \A w \in C : m(w) \in Nat /\ c(w) \in Nat /\ Rank[w] \in Nat
  BY RankAssumption
<1>8. v \in C /\ m(v) = Min(M) /\ c(v) = Min(K)
  BY <1>6
<1>9. \A w \in C2 : Rank[v] <= Rank[w] /\ (w # v => Rank[v] # Rank[w])
  <2>1. \A w \in C2 : Rank[w] \in L
    OBVIOUS
  <2>2. C2 \subseteq Workers
    OBVIOUS
  <2> HIDE DEF L, C2, C1
  <2> QED BY <1>5, <1>6, <2>1, <2>2, RankAssumption
<1>10. ASSUME NEW w \in C \ {v}
       PROVE  \/ m(v) < m(w)
              \/ m(v) = m(w) /\ (c(v) < c(w) \/ (c(v) = c(w) /\ Rank[v] < Rank[w]))
  <2>1. m(w) # Min(M) => m(v) < m(w)
    <3>1. Min(M) <= m(w) /\ m(v) \in Nat /\ m(w) \in Nat
      BY <1>2, <1>7, <1>8
    <3> HIDE DEF M, m
    <3> QED BY <1>8, <3>1
  <2>2. w \in C1 /\ c(w) # Min(K) => c(v) < c(w)
    <3>1. w \in C1 => Min(K) <= c(w) /\ c(v) \in Nat /\ c(w) \in Nat
      BY <1>4, <1>7, <1>8
    <3> HIDE DEF K, c, C1
    <3> QED BY <1>8, <3>1
  <2>3. w \in C2 => Rank[v] < Rank[w]
    <3>1. w \in C2 => Rank[v] <= Rank[w] /\ Rank[v] # Rank[w] /\ Rank[v] \in Nat /\ Rank[w] \in Nat
      BY <1>7, <1>8, <1>9
    <3> HIDE DEF C2
    <3> QED BY <3>1
  <2>4. m(w) = Min(M) => w \in C1
    OBVIOUS
  <2>5. w \in C1 /\ c(w) = Min(K) => w \in C2
    OBVIOUS
  <2> HIDE DEF M, K, C1, C2, m, c
  <2> QED BY <1>8, <2>1, <2>2, <2>3, <2>4, <2>5
<1> HIDE DEF M, K, L, C1, C2
<1>11. \E x \in C : \A w \in C \ {x} :
         \/ totals.minutes[x] < totals.minutes[w]
         \/ /\ totals.minutes[x] = totals.minutes[w]
            /\ \/ totals.count[x] < totals.count[w]
               \/ totals.count[x] = totals.count[w] /\ Rank[x] < Rank[w]
  BY <1>8, <1>10
<1> QED BY <1>11 DEF Least

\* what the loop does when it gives t to w
LEMMA Giving ==
  ASSUME TypeOK, NEW f \in Assignments, NEW t \in Pending, f[t] = NULL, NEW w \in Workers
  PROVE  LET g == [f EXCEPT ![t] = w]
             a == After(f)
         IN  After(g) = [given  |-> g,
                         totals |-> [minutes |-> [a.totals.minutes EXCEPT ![w] = @ + EstimateOf[t]],
                                     count   |-> [a.totals.count EXCEPT ![w] = @ + 1]],
                         counterparts |-> [b \in Batches |->
                           IF b = job[t].batch THEN a.counterparts[b] \cup {w} ELSE a.counterparts[b]]]
<1> DEFINE g == [f EXCEPT ![t] = w]
           Old(u) == Total(MinutesOf, Has(u, Open))
           Num(u) == Cardinality(Has(u, Open))
           m == [u \in Users |-> Old(u) + Total(EstimateOf, To(f, u))]
           c == [u \in Users |-> Num(u) + Cardinality(To(f, u))]
<1>1. /\ DOMAIN f = Pending /\ Pending \subseteq TaskIds /\ Open \subseteq TaskIds
      /\ w \in Users /\ w # NULL /\ \A u \in Users : u # NULL
  BY PendingTasks, NullAssumption DEF Assignments, Users
<1>2. \A u \in Users : To(g, u) = IF u = w THEN To(f, u) \cup {t} ELSE To(f, u)
  BY <1>1 DEF To
<1>3. \A u : To(f, u) \subseteq TaskIds /\ Has(u, Open) \subseteq TaskIds
  BY <1>1 DEF To, Has
<1>4. t \notin To(f, w) /\ t \in TaskIds
  BY <1>1 DEF To
<1>5. /\ Total(EstimateOf, To(f, w) \cup {t}) = Total(EstimateOf, To(f, w)) + EstimateOf[t]
      /\ Cardinality(To(f, w) \cup {t}) = Cardinality(To(f, w)) + 1
      /\ Total(EstimateOf, To(f, w)) \in Nat /\ EstimateOf[t] \in Nat /\ Cardinality(To(f, w)) \in Nat
  BY <1>3, <1>4, MinutesNat, OneMore
<1>6. Old(w) \in Nat /\ Num(w) \in Nat
  <2>1. IsFiniteSet(Has(w, Open)) /\ NatOn(MinutesOf, Has(w, Open))
    BY <1>3, TasksFinite, MinutesNat DEF NatOn
  <2> QED BY <2>1, UnitsFinite, FS_CardinalityType
<1>7. [u \in Users |-> Old(u) + Total(EstimateOf, To(g, u))] = [m EXCEPT ![w] = @ + EstimateOf[t]]
  <2>1. Old(w) + Total(EstimateOf, To(g, w)) = m[w] + EstimateOf[t]
    <3>1. Total(EstimateOf, To(g, w)) = Total(EstimateOf, To(f, w)) + EstimateOf[t]
      BY <1>1, <1>2, <1>5
    <3>2. m[w] = Old(w) + Total(EstimateOf, To(f, w))
      BY <1>1
    <3> HIDE DEF m, Old, g
    <3> QED BY <1>5, <1>6, <3>1, <3>2
  <2>2. \A u \in Users : u # w => To(g, u) = To(f, u)
    BY <1>2
  <2> HIDE DEF g, Old
  <2> QED BY <2>1, <2>2
<1>8. [u \in Users |-> Num(u) + Cardinality(To(g, u))] = [c EXCEPT ![w] = @ + 1]
  <2>1. Num(w) + Cardinality(To(g, w)) = c[w] + 1
    <3>1. Cardinality(To(g, w)) = Cardinality(To(f, w)) + 1
      BY <1>1, <1>2, <1>5
    <3>2. c[w] = Num(w) + Cardinality(To(f, w))
      BY <1>1
    <3> HIDE DEF c, Num, g
    <3> QED BY <1>5, <1>6, <3>1, <3>2
  <2>2. \A u \in Users : u # w => To(g, u) = To(f, u)
    BY <1>2
  <2> HIDE DEF g, Num
  <2> QED BY <2>1, <2>2
<1>9. ASSUME NEW b \in Batches
      PROVE  {g[s] : s \in {r \in Pending : job[r].batch = b}} \ {NULL}
               = ({f[s] : s \in {r \in Pending : job[r].batch = b}} \ {NULL})
                 \cup (IF b = job[t].batch THEN {w} ELSE {})
  <2> DEFINE E == {r \in Pending : job[r].batch = b}
  <2>1. \A s \in E : g[s] = IF s = t THEN w ELSE f[s]
    BY <1>1
  <2>2. t \in E <=> b = job[t].batch
    OBVIOUS
  <2> HIDE DEF E, g
  <2> QED BY <1>1, <2>1, <2>2 DEF E
<1>10. \A b \in Batches : After(g).counterparts[b]
                           = IF b = job[t].batch THEN After(f).counterparts[b] \cup {w}
                             ELSE After(f).counterparts[b]
  <2> TAKE b \in Batches
  <2>1. /\ After(g).counterparts[b] = PickPackWorkers[b]
               \cup ({g[s] : s \in {r \in Pending : job[r].batch = b}} \ {NULL})
        /\ After(f).counterparts[b] = PickPackWorkers[b]
               \cup ({f[s] : s \in {r \in Pending : job[r].batch = b}} \ {NULL})
    BY DEF After
  <2> HIDE DEF g
  <2> QED BY <1>9, <2>1
<1>11. After(f).totals.minutes = m /\ After(f).totals.count = c
  BY DEF After
<1>12. /\ After(g).given = g
       /\ After(g).totals = [minutes |-> [m EXCEPT ![w] = @ + EstimateOf[t]],
                             count   |-> [c EXCEPT ![w] = @ + 1]]
  <2> HIDE DEF g, m, c
  <2> QED BY <1>7, <1>8 DEF After
<1>13. After(g) = [given |-> g, totals |-> After(g).totals,
                   counterparts |-> [b \in Batches |-> After(g).counterparts[b]]]
  BY DEF After
<1> HIDE DEF g, m, c
<1> QED BY <1>10, <1>11, <1>12, <1>13 DEF g

\* One turn of the second loop gives the next task what the rule gives it.
LEMMA Turn ==
  ASSUME TypeOK, RowsAgree, NEW n \in 1 .. Cardinality(Open), NEW f, Given(f, First(n - 1))
  PROVE  \E g : GiveTask(After(f), OpenTasks[n]) = After(g) /\ Given(g, First(n))
<1> DEFINE t == OpenTasks[n]
           a == After(f)
           C == LoopCandidates(t, a)
<1>1. /\ f \in Assignments /\ DOMAIN f = Pending /\ Pending \subseteq Open /\ Open \subseteq TaskIds
      /\ t \in Open /\ t \in TaskIds
      /\ First(n) = First(n - 1) \cup {t} /\ t \notin First(n - 1)
      /\ \A s \in Open : s \in First(n - 1) <=> Before(s, t, job)
  BY PendingTasks, FirstTasks DEF Given, Assignments
<1>2. C = DispatchCandidates(t, f, assigned_to, job, availability)
  BY CandidatesAgree
<1>3. t \in Pending <=> status[t] = "QUEUED" /\ assigned_to[t] = NULL
  BY <1>1 DEF Pending, Unowned
<1>4. CASE t \notin Pending
  <2>1. GiveTask(a, t) = a
    BY <1>3, <1>4 DEF GiveTask
  <2>2. Given(f, First(n))
    BY <1>1, <1>4 DEF Given
  <2> QED BY <2>1, <2>2
<1>5. CASE t \in Pending /\ C = {}
  <2>1. GiveTask(a, t) = a
    BY <1>5 DEF GiveTask, LoopCandidates
  <2>2. f[t] = NULL
    BY <1>1, <1>5 DEF Given
  <2>3. Best(t, f)
    BY <1>2, <1>5, <2>2 DEF Best
  <2>4. Given(f, First(n))
    BY <1>1, <2>3 DEF Given
  <2> QED BY <2>1, <2>4
<1>6. CASE t \in Pending /\ C # {}
  <2> DEFINE v == Least(C, a.totals)
             g == [f EXCEPT ![t] = v]
  <2>1. \A w \in Workers : /\ ProjectedMinutes(w, t, f, status, assigned_to, job) = a.totals.minutes[w]
                           /\ AssignedCount(w, t, f, status, assigned_to, job) = a.totals.count[w]
                           /\ a.totals.minutes[w] \in Nat /\ a.totals.count[w] \in Nat
    BY TotalsAgree
  <2>2. C \subseteq Workers
    BY DEF LoopCandidates
  <2> HIDE DEF C, a
  <2>3. /\ v \in C
        /\ \A w \in C \ {v} :
              \/ a.totals.minutes[v] < a.totals.minutes[w]
              \/ /\ a.totals.minutes[v] = a.totals.minutes[w]
                 /\ \/ a.totals.count[v] < a.totals.count[w]
                    \/ a.totals.count[v] = a.totals.count[w] /\ Rank[v] < Rank[w]
    BY <1>6, <2>1, <2>2, LeastIs
  <2>4. v \in Workers
    BY <2>2, <2>3
  <2>5. \A w \in C \ {v} : Preferred(v, w, t, f, status, assigned_to, job)
    <3> TAKE w \in C \ {v}
    <3>1. w \in Workers
      BY <2>2
    <3> HIDE DEF v
    <3> QED BY <2>1, <2>3, <2>4, <3>1 DEF Preferred
  <2>6. f[t] = NULL
    BY <1>1, <1>6 DEF Given
  <2>7. GiveTask(a, t) = After(g)
    <3>1. GiveTask(a, t) =
            [given  |-> [a.given EXCEPT ![t] = v],
             totals |-> [minutes |-> [a.totals.minutes EXCEPT ![v] = @ + EstimatedMinutes[job[t].type]],
                         count   |-> [a.totals.count EXCEPT ![v] = @ + 1]],
             counterparts |-> [b \in Batches |->
               IF b = job[t].batch THEN a.counterparts[b] \cup {v} ELSE a.counterparts[b]]]
      BY <1>3, <1>6 DEF GiveTask, C, LoopCandidates
    <3>2. a.given = f
      BY DEF a, After
    <3>3. EstimatedMinutes[job[t].type] = EstimateOf[t]
      BY <1>1 DEF EstimateOf
    <3> HIDE DEF v
    <3>4. After(g) = [given  |-> g,
                      totals |-> [minutes |-> [a.totals.minutes EXCEPT ![v] = @ + EstimateOf[t]],
                                  count   |-> [a.totals.count EXCEPT ![v] = @ + 1]],
                      counterparts |-> [b \in Batches |->
                        IF b = job[t].batch THEN a.counterparts[b] \cup {v} ELSE a.counterparts[b]]]
      BY <1>1, <1>6, <2>4, <2>6, Giving DEF a
    <3> QED BY <3>1, <3>2, <3>3, <3>4
  <2> HIDE DEF v
  <2>8. g \in Assignments
    BY <1>1, <2>4 DEF Assignments
  <2>9. \A r \in Pending : r # t => g[r] = f[r]
    BY <1>1
  <2>10. g[t] = v
    BY <1>1, <1>6
  <2> HIDE DEF g
  <2>11. ASSUME NEW s \in Pending \cap First(n) PROVE Best(s, g)
    <3>1. \A r \in Pending : Before(r, s, job) => f[r] = g[r]
      <4>1. ~ Before(t, s, job)
        <5>1. s = t \/ Before(s, t, job)
          BY <1>1
        <5> QED BY <1>1, <5>1, BeforeOrders
      <4> QED BY <2>9, <4>1
    <3>2. CASE s = t
      <4>1. DispatchCandidates(t, g, assigned_to, job, availability) = C
        BY <1>1, <1>2, <2>8, <3>1, <3>2, RuleLocal
      <4>2. \A w : Preferred(v, w, t, g, status, assigned_to, job)
                     <=> Preferred(v, w, t, f, status, assigned_to, job)
        BY <1>1, <2>8, <3>1, <3>2, RuleLocal
      <4> QED BY <1>6, <2>3, <2>5, <2>10, <3>2, <4>1, <4>2 DEF Best
    <3>3. CASE s # t
      <4>1. Best(s, f) /\ f[s] = g[s]
        BY <1>1, <2>9, <3>3 DEF Given
      <4> QED BY <1>1, <2>8, <3>1, <4>1, BestLocal
    <3> QED BY <3>2, <3>3
  <2>12. \A s \in Pending \ First(n) : g[s] = NULL
    BY <1>1, <2>9 DEF Given
  <2>13. Given(g, First(n))
    BY <2>8, <2>11, <2>12 DEF Given
  <2> QED BY <2>7, <2>13 DEF a
<1> QED BY <1>4, <1>5, <1>6

LEMMA NothingYet ==
  ASSUME TypeOK
  PROVE  \E f : NothingGiven = After(f) /\ Given(f, First(0))
<1> DEFINE f == [t \in Pending |-> NULL]
<1>1. f \in Assignments /\ First(0) = {} /\ \A u \in Users : u # NULL
  BY FirstTasks, NullAssumption DEF Assignments
<1>2. \A u \in Users : To(f, u) = {}
  BY <1>1 DEF To
<1>3. \A u \in Users : /\ Total(MinutesOf, Has(u, Open)) \in Nat
                       /\ Cardinality(Has(u, Open)) \in Nat
  <2> TAKE u \in Users
  <2>1. Has(u, Open) \subseteq TaskIds
    BY DEF Has, Open
  <2>2. IsFiniteSet(Has(u, Open)) /\ NatOn(MinutesOf, Has(u, Open))
    BY <2>1, TasksFinite, MinutesNat DEF NatOn
  <2> QED BY <2>2, UnitsFinite, FS_CardinalityType
<1>4. \A u \in Users : /\ Total(MinutesOf, Has(u, Open)) + Total(EstimateOf, To(f, u))
                            = Total(MinutesOf, Has(u, Open))
                       /\ Cardinality(Has(u, Open)) + Cardinality(To(f, u)) = Cardinality(Has(u, Open))
  <2> HIDE DEF f
  <2> QED BY <1>2, <1>3, TotalEmpty, FS_EmptySet
<1>5. \A b \in Batches : {f[s] : s \in {r \in Pending : job[r].batch = b}} \ {NULL} = {}
  OBVIOUS
<1>6. PickPackWorkers = [b \in Batches |-> PickPackWorkers[b]]
  BY DEF PickPackWorkers
<1>7. NothingGiven = [given |-> f, totals |-> TotalsOf(Open), counterparts |-> PickPackWorkers]
  BY FirstPass DEF NothingGiven, Pending
<1> HIDE DEF f
<1>8. NothingGiven = After(f)
  <2>1. After(f).totals = TotalsOf(Open)
    BY <1>4 DEF After, TotalsOf
  <2>2. After(f).counterparts = PickPackWorkers
    BY <1>5, <1>6 DEF After
  <2>3. After(f) = [given |-> f, totals |-> After(f).totals, counterparts |-> After(f).counterparts]
    BY DEF After
  <2> QED BY <1>7, <2>1, <2>2, <2>3
<1>9. Given(f, {})
  BY <1>1 DEF Given, f
<1> QED BY <1>1, <1>8, <1>9

Turns(n, e) == e = [m \in 0 .. n |-> IF m = 0 THEN NothingGiven
                                     ELSE GiveTask(e[m - 1], OpenTasks[m])]

LEMMA TurnsExist ==
  ASSUME NEW N \in Nat
  PROVE  \E e : Turns(N, e)
<1> DEFINE S == {n \in 0 .. N : \E e : Turns(n, e)}
<1>1. 0 \in S
  <2> DEFINE e == [m \in 0 .. 0 |-> NothingGiven]
  <2>1. Turns(0, e)
    BY DEF Turns
  <2> QED BY <2>1
<1>2. ASSUME NEW n \in 1 .. N, n - 1 \in S PROVE n \in S
  <2>1. PICK e : Turns(n - 1, e)
    BY <1>2
  <2> DEFINE g == [m \in 0 .. n |-> IF m = n THEN GiveTask(e[n - 1], OpenTasks[n]) ELSE e[m]]
             h == [m \in 0 .. n |-> IF m = 0 THEN NothingGiven ELSE GiveTask(g[m - 1], OpenTasks[m])]
  <2>2. ASSUME NEW m \in 0 .. n PROVE g[m] = h[m]
    <3>1. CASE m = n
      <4>1. g[m - 1] = e[n - 1] /\ m # 0
        BY <3>1
      <4> QED BY <3>1, <4>1
    <3>2. CASE m # n
      <4>1. m \in 0 .. (n - 1)
        BY <3>2
      <4>2. e[m] = IF m = 0 THEN NothingGiven ELSE GiveTask(e[m - 1], OpenTasks[m])
        BY <2>1, <4>1 DEF Turns
      <4>3. m # 0 => g[m - 1] = e[m - 1]
        BY <4>1
      <4> QED BY <3>2, <4>2, <4>3
    <3> QED BY <3>1, <3>2
  <2>3. g = h
    <3>1. DOMAIN g = 0 .. n /\ DOMAIN h = 0 .. n
      OBVIOUS
    <3> QED BY <2>2
  <2>4. Turns(n, g)
    BY <2>3 DEF Turns
  <2> QED BY <2>4
<1>3. N \in S
  <2>1. N \in 0 .. N
    OBVIOUS
  <2> HIDE DEF S
  <2> QED BY <1>1, <1>2, <2>1, UpTo
<1> QED BY <1>3

\* The second pass: the loop ends with what the rule gives.
LEMMA SecondPass ==
  ASSUME TypeOK, RowsAgree
  PROVE  Given(DispatchLoop, Open)
<1> DEFINE N == Cardinality(Open)
<1>1. N \in Nat
  BY QueueOrder
<1> HIDE DEF N
<1>2. \E e : /\ e = [m \in 0 .. N |-> IF m = 0 THEN NothingGiven ELSE GiveTask(e[m - 1], OpenTasks[m])]
             /\ DispatchLoop = e[N].given
  <2>1. \E e : e = [m \in 0 .. N |-> IF m = 0 THEN NothingGiven ELSE GiveTask(e[m - 1], OpenTasks[m])]
    BY <1>1, TurnsExist DEF Turns
  <2> QED BY <2>1 DEF DispatchLoop, N
<1>3. PICK e : Turns(N, e) /\ DispatchLoop = e[N].given
  BY <1>2 DEF Turns
<1> DEFINE S == {n \in 0 .. N : \E f : e[n] = After(f) /\ Given(f, First(n))}
<1>4. \A n \in 0 .. N : e[n] = IF n = 0 THEN NothingGiven ELSE GiveTask(e[n - 1], OpenTasks[n])
  BY <1>3 DEF Turns
<1>5. 0 \in S
  BY <1>1, <1>4, NothingYet
<1>6. ASSUME NEW n \in 1 .. N, n - 1 \in S PROVE n \in S
  <2>1. n \in 0 .. N /\ n # 0
    BY <1>1
  <2>2. PICK f : e[n - 1] = After(f) /\ Given(f, First(n - 1))
    BY <1>6
  <2>3. e[n] = GiveTask(After(f), OpenTasks[n])
    BY <1>4, <2>1, <2>2
  <2>4. \E g : e[n] = After(g) /\ Given(g, First(n))
    BY <2>2, <2>3, Turn DEF N
  <2> QED BY <2>1, <2>4
<1>7. N \in S
  <2>1. N \in 0 .. N
    BY <1>1
  <2> HIDE DEF S
  <2> QED BY <1>1, <1>5, <1>6, <2>1, UpTo
<1>8. PICK f : e[N] = After(f) /\ Given(f, First(N))
  BY <1>7
<1>9. First(N) = Open
  BY FirstTasks DEF N
<1> QED BY <1>3, <1>8, <1>9 DEF After

\* the rule leaves no choice
LEMMA OneDispatch ==
  ASSUME TypeOK, NEW f \in Assignments, NEW g \in Assignments,
         \A t \in Pending : Best(t, f) /\ Best(t, g)
  PROVE  f = g
<1> DEFINE N == Cardinality(Open)
           S == {n \in 0 .. N : \A t \in Pending \cap First(n) : f[t] = g[t]}
<1>1. N \in Nat /\ First(0) = {} /\ First(N) = Open /\ Pending \subseteq Open
  BY QueueOrder, FirstTasks, PendingTasks
<1>2. 0 \in S
  BY <1>1
<1>3. ASSUME NEW n \in 1 .. N, n - 1 \in S PROVE n \in S
  <2> DEFINE t == OpenTasks[n]
             C == DispatchCandidates(t, f, assigned_to, job, availability)
  <2>1. First(n) = First(n - 1) \cup {t} /\ \A s \in Open : s \in First(n - 1) <=> Before(s, t, job)
    BY FirstTasks
  <2>2. \A r \in Pending : Before(r, t, job) => f[r] = g[r]
    BY <1>1, <1>3, <2>1
  <2>3. /\ C = DispatchCandidates(t, g, assigned_to, job, availability)
        /\ \A v, w : Preferred(v, w, t, f, status, assigned_to, job)
                       <=> Preferred(v, w, t, g, status, assigned_to, job)
    BY <2>2, RuleLocal
  <2>4. ASSUME t \in Pending PROVE f[t] = g[t]
    <3> SUFFICES ASSUME f[t] # g[t] PROVE FALSE
      OBVIOUS
    <3>1. f[t] \in C /\ g[t] \in C
      BY <2>3, <2>4 DEF Best
    <3>2. /\ Preferred(f[t], g[t], t, f, status, assigned_to, job)
          /\ Preferred(g[t], f[t], t, f, status, assigned_to, job)
      BY <2>3, <2>4, <3>1 DEF Best
    <3>3. \A w \in Workers : /\ ProjectedMinutes(w, t, f, status, assigned_to, job) \in Nat
                             /\ AssignedCount(w, t, f, status, assigned_to, job) \in Nat
                             /\ Rank[w] \in Nat
      <4> TAKE w \in Workers
      <4>1. /\ OpenOwned(w, status, assigned_to) \subseteq TaskIds
            /\ GivenBefore(w, t, f, job) \subseteq TaskIds
        BY PendingTasks DEF OpenOwned, GivenBefore, Assignments
      <4>2. IsFiniteSet(OpenOwned(w, status, assigned_to)) /\ IsFiniteSet(GivenBefore(w, t, f, job))
        BY <4>1, TasksFinite
      <4>3. /\ NatOn(MinutesOf, OpenOwned(w, status, assigned_to))
            /\ NatOn(EstimateOf, GivenBefore(w, t, f, job))
        BY <4>1, MinutesNat DEF NatOn
      <4>4. /\ Total(MinutesOf, OpenOwned(w, status, assigned_to)) \in Nat
            /\ Total(EstimateOf, GivenBefore(w, t, f, job)) \in Nat
            /\ Cardinality(OpenOwned(w, status, assigned_to)) \in Nat
            /\ Cardinality(GivenBefore(w, t, f, job)) \in Nat
        BY <4>2, <4>3, UnitsFinite, FS_CardinalityType
      <4>5. /\ SumOver(LAMBDA s : RemainingMinutes(s, status, job), OpenOwned(w, status, assigned_to))
                 = Total(MinutesOf, OpenOwned(w, status, assigned_to))
            /\ SumOver(LAMBDA s : EstimatedMinutes[job[s].type], GivenBefore(w, t, f, job))
                 = Total(EstimateOf, GivenBefore(w, t, f, job))
        BY <4>1, SumsOverTasks
      <4>6. ProjectedMinutes(w, t, f, status, assigned_to, job)
              = Total(MinutesOf, OpenOwned(w, status, assigned_to))
                + Total(EstimateOf, GivenBefore(w, t, f, job))
        BY <4>5 DEF ProjectedMinutes
      <4> QED BY <4>4, <4>6, RankAssumption DEF AssignedCount
    <3>4. C \subseteq Workers
      BY DEF DispatchCandidates
    <3> DEFINE v == f[t]
               w == g[t]
    <3>5. v \in Workers /\ w \in Workers
      BY <3>1, <3>4
    <3> HIDE DEF v, w, t
    <3>6. Preferred(v, w, t, f, status, assigned_to, job) /\ Preferred(w, v, t, f, status, assigned_to, job)
      BY <3>2 DEF v, w
    <3> QED BY <3>3, <3>5, <3>6 DEF Preferred
  <2>5. n \in 0 .. N
    BY <1>1
  <2> QED BY <1>3, <2>1, <2>4, <2>5
<1>4. N \in S
  <2>1. N \in 0 .. N
    BY <1>1
  <2> HIDE DEF S, N
  <2> QED BY <1>1, <1>2, <1>3, <2>1, UpTo
<1>5. \A t \in Pending : f[t] = g[t]
  BY <1>1, <1>4
<1> QED BY <1>5 DEF Assignments

LEMMA DispatchOfRule ==
  ASSUME NEW f
  PROVE  f \in Dispatches <=> f \in Assignments /\ \A t \in Pending : Best(t, f)
<1>1. f \in Assignments => DOMAIN f = Pending
  BY DEF Assignments
<1> QED BY <1>1 DEF Dispatches, IsDispatch, Best, Assignments, Pending

LEMMA LoopIsRule ==
  ASSUME TypeOK, RowsAgree
  PROVE  DispatchIsLoop
<1>1. DispatchLoop \in Assignments /\ \A t \in Pending : Best(t, DispatchLoop)
  BY SecondPass, PendingTasks DEF Given
<1>2. DispatchLoop \in Dispatches
  BY <1>1, DispatchOfRule
<1>3. ASSUME NEW f \in Dispatches PROVE f = DispatchLoop
  BY <1>1, DispatchOfRule, OneDispatch
<1> QED BY <1>2, <1>3 DEF DispatchIsLoop

LEMMA LoopLeavesNone ==
  ASSUME TypeOK, RowsAgree
  PROVE  DispatchExhaustive
<1> DEFINE f == DispatchLoop
           Holder(s) == IF s \in DOMAIN f THEN f[s] ELSE Owner(s, assigned_to)
<1>1. f \in Assignments /\ DOMAIN f = Pending /\ \A t \in Pending : Best(t, f)
  BY SecondPass, PendingTasks DEF Given, Assignments
<1> HIDE DEF f
<1> SUFFICES ASSUME NEW t \in Pending, f[t] = NULL, NEW w \in Workers,
                    availability[w] = "AVAILABLE", job[t].type \in grants[w]
             PROVE  \E s \in TaskIds : /\ job[t].batch # NULL
                                       /\ job[s].batch = job[t].batch
                                       /\ Holder(s) = w
  BY <1>1 DEF DispatchExhaustive, f
<1>2. w # NULL /\ Pending \subseteq TaskIds
  BY PendingTasks
<1>3. NULL \notin Workers
  BY PendingTasks
<1>4. DispatchCandidates(t, f, assigned_to, job, availability) = {}
  BY <1>1, <1>3 DEF Best, DispatchCandidates
<1>5. job[t].batch # NULL /\ w \in CounterpartWorkers(t, f, assigned_to, job)
  BY <1>4 DEF DispatchCandidates
<1>6. CASE \E s \in TaskIds : job[s].batch = job[t].batch /\ Owner(s, assigned_to) = w
  <2>1. PICK s \in TaskIds : job[s].batch = job[t].batch /\ Owner(s, assigned_to) = w
    BY <1>6
  <2>2. s \notin Pending
    BY <1>2, <2>1 DEF Pending, Unowned, Owner, RowsAgree
  <2> QED BY <1>1, <1>5, <2>1, <2>2
<1>7. CASE \E s \in Pending : job[s].batch = job[t].batch /\ f[s] = w
  BY <1>1, <1>2, <1>5, <1>7
<1> QED BY <1>1, <1>5, <1>6, <1>7 DEF CounterpartWorkers

\* The loop of auto_dispatch, with its running totals and counterpart sets, and the rule
\* by which the queue is specified (the best candidate given the choices before it) say
\* the same in every state: there is one dispatch that obeys the rule, and the loop finds it.
THEOREM LoopComputesRule == Spec => []DispatchIsLoop
<1>1. RowInv => DispatchIsLoop
  BY LoopIsRule DEF RowInv
<1> QED BY <1>1, RowCorrect, PTL

\* After a dispatch, whoever is available and granted the type of a task that is left in
\* the queue has another task of the same Pack Note: nothing waits that somebody could take.
THEOREM NobodyIdles == Spec => []DispatchExhaustive
<1>1. RowInv => DispatchExhaustive
  BY LoopLeavesNone DEF RowInv
<1> QED BY <1>1, RowCorrect, PTL

-----------------------------------------------------------------------------
(***************************************************************************)
(* Receiving.  A recount is inserted for its counter whatever his          *)
(* availability, so RowInv of WorkTasksProofs does not hold here (it says  *)
(* who is on duty).  What the drafts rely on is less: the first section    *)
(* proves it of every step of the queue from the types of the columns      *)
(* alone.                                                                  *)
(***************************************************************************)
Columns ==
  /\ job \in [TaskIds -> Job]
  /\ status \in [TaskIds -> Statuses \cup {"NONE"}]
  /\ assigned_to \in [TaskIds -> Users \cup {NULL}]
  /\ claimed_by \in [TaskIds -> Users \cup {NULL}]
  /\ availability \in [Users -> AvailabilityStatuses]
  /\ \A t \in TaskIds : status[t] \in {"NONE", "QUEUED", "ASSIGNED"} => claimed_by[t] = NULL

\* What a step keeps of a row: its job, and the end of a count
KeptRow(t) ==
  /\ status[t] # "NONE" => status'[t] # "NONE" /\ job'[t] = job[t]
  /\ status[t] = "COMPLETED" => status'[t] = "COMPLETED"

OnDuty(t) == assigned_to[t] \in Workers /\ availability[assigned_to[t]] = "AVAILABLE"

\* A row that waits for somebody is his from now on and he is on duty, or was his
\* before and he has not left.
Waits(t) ==
  status'[t] = "ASSIGNED" =>
    \/ OnDuty(t)'
    \/ status[t] = "ASSIGNED" /\ assigned_to'[t] = assigned_to[t] /\ (OnDuty(t) => OnDuty(t)')

QueueStep == Columns' /\ \A t \in TaskIds : KeptRow(t) /\ Waits(t)

-----------------------------------------------------------------------------
(***************************************************************************)
(* The queue                                                               *)
(***************************************************************************)

\* What a request has written before it dispatches: new rows, released rows, no others
Between(st, as, av) ==
  \A t \in TaskIds :
    \/ /\ st[t] = status[t] /\ as[t] = assigned_to[t] /\ job'[t] = job[t]
       /\ status[t] = "ASSIGNED" /\ OnDuty(t) => av[as[t]] = "AVAILABLE"
    \/ /\ status[t] = "NONE" /\ st[t] = "QUEUED"
    \/ /\ status[t] \in {"QUEUED", "ASSIGNED"} /\ st[t] = "QUEUED" /\ job'[t] = job[t]

\* A dispatch from columns that lie between the old and the new ones
LEMMA DispatchKeeps ==
  ASSUME Columns, NEW st \in [TaskIds -> Statuses \cup {"NONE"}],
         NEW as \in [TaskIds -> Users \cup {NULL}],
         NEW jb, NEW av,
         auto_dispatch(st, as, jb, av),
         job' \in [TaskIds -> Job], claimed_by' = claimed_by,
         availability' = av, av \in [Users -> AvailabilityStatuses],
         Between(st, as, av)
  PROVE  QueueStep
<1>1. /\ status' \in [TaskIds -> Statuses \cup {"NONE"}]
      /\ assigned_to' \in [TaskIds -> Users \cup {NULL}]
      /\ \A t \in TaskIds :
           \/ status'[t] = st[t] /\ assigned_to'[t] = as[t]
           \/ /\ st[t] = "QUEUED" /\ status'[t] = "ASSIGNED"
              /\ assigned_to'[t] \in Workers /\ av[assigned_to'[t]] = "AVAILABLE"
  <2>1. /\ status' \in [TaskIds -> Statuses \cup {"NONE"}]
        /\ assigned_to' \in [TaskIds -> Users \cup {NULL}]
        /\ DispatchedRows(st, as, jb, av)
    BY DispatchStep
  <2> QED BY <2>1 DEF DispatchedRows
<1>2. Columns'
  <2>1. ASSUME NEW t \in TaskIds, status'[t] \in {"NONE", "QUEUED", "ASSIGNED"}
        PROVE  claimed_by[t] = NULL
    <3>1. status[t] \in {"NONE", "QUEUED", "ASSIGNED"}
      BY <1>1, <2>1 DEF Between
    <3> QED BY <3>1 DEF Columns
  <2> QED BY <1>1, <2>1 DEF Columns
<1>3. ASSUME NEW t \in TaskIds PROVE KeptRow(t)
  BY <1>1 DEF KeptRow, Between
<1>4. ASSUME NEW t \in TaskIds PROVE Waits(t)
  BY <1>1 DEF Waits, OnDuty, Between
<1> QED BY <1>2, <1>3, <1>4 DEF QueueStep

\* An assignment by hand
LEMMA AssignKeeps ==
  ASSUME Columns, NEW t \in TaskIds, NEW w \in Workers,
         status[t] \in {"NONE", "QUEUED", "ASSIGNED"}, availability[w] = "AVAILABLE",
         status' = [status EXCEPT ![t] = "ASSIGNED"],
         assigned_to' = [assigned_to EXCEPT ![t] = w],
         job' \in [TaskIds -> Job], \A s \in TaskIds : s # t \/ status[t] # "NONE" => job'[s] = job[s],
         UNCHANGED <<claimed_by, availability>>
  PROVE  QueueStep
<1>1. Columns'
  BY DEF Columns, Statuses, Users
<1>2. ASSUME NEW s \in TaskIds PROVE KeptRow(s) /\ Waits(s)
  BY DEF Columns, KeptRow, Waits, OnDuty
<1> QED BY <1>1, <1>2 DEF QueueStep

LEMMA CreateKeeps ==
  ASSUME Columns,
         \/ \E b \in Batches, l \in BatchTypeLists, p \in Priorities : create_batch(b, l, p)
         \/ \E type \in LooseTypes, b \in Batches \cup {NULL}, p \in Priorities,
               w \in Workers \cup {NULL} : create_task(type, b, p, w)
  PROVE  QueueStep
<1>1. ASSUME NEW b \in Batches, NEW l \in BatchTypeLists, NEW p \in Priorities, create_batch(b, l, p)
      PROVE  QueueStep
  <2> DEFINE new(t) == t..(t + Len(l) - 1)
             jb(t)  == [s \in TaskIds |-> IF s \in new(t)
                        THEN [type |-> l[s - t + 1], batch |-> b, priority |-> p]
                        ELSE job[s]]
             st(t)  == [s \in TaskIds |-> IF s \in new(t) THEN "QUEUED" ELSE status[s]]
  <2>1. PICK t \in TaskIds :
          /\ FirstFree(t) /\ new(t) \subseteq TaskIds
          /\ job' = jb(t)
          /\ auto_dispatch(st(t), assigned_to, jb(t), availability)
    BY <1>1 DEF create_batch
  <2>2. l \in Seq(TaskTypes) /\ Len(l) \in Nat /\ p \in Nat
    BY InputsAssumption
  <2>3. \A s \in new(t) : l[s - t + 1] \in TaskTypes
    BY <2>2 DEF TaskIds
  <2>4. job' \in [TaskIds -> Job]
    BY <2>1, <2>2, <2>3 DEF Job, Columns
  <2>5. st(t) \in [TaskIds -> Statuses \cup {"NONE"}]
    BY DEF Columns, Statuses
  <2>6. \A s \in TaskIds : \/ st(t)[s] = status[s] /\ job'[s] = job[s]
                           \/ status[s] = "NONE" /\ st(t)[s] = "QUEUED"
    BY <2>1 DEF FirstFree, TaskIds
  <2>7. UNCHANGED <<claimed_by, availability>>
    BY <1>1 DEF create_batch
  <2> HIDE DEF st, jb
  <2> QED BY <2>1, <2>4, <2>5, <2>6, <2>7, DispatchKeeps DEF Columns, OnDuty, Between
<1>2. ASSUME NEW type \in LooseTypes, NEW b \in Batches \cup {NULL}, NEW p \in Priorities,
             NEW w \in Workers \cup {NULL}, create_task(type, b, p, w)
      PROVE  QueueStep
  <2> DEFINE jb(t) == [job EXCEPT ![t] = [type |-> type, batch |-> b, priority |-> p]]
             st(t) == [status EXCEPT ![t] = "QUEUED"]
  <2>1. PICK t \in TaskIds :
          /\ FirstFree(t)
          /\ job' = jb(t)
          /\ \/ /\ w = NULL
                /\ auto_dispatch(st(t), assigned_to, jb(t), availability)
             \/ /\ w # NULL
                /\ MayBeAssigned(w, t, jb(t))
                /\ status' = [st(t) EXCEPT ![t] = "ASSIGNED"]
                /\ assigned_to' = [assigned_to EXCEPT ![t] = w]
    BY <1>2 DEF create_task
  <2>2. job' \in [TaskIds -> Job]
    BY <2>1, InputsAssumption DEF Job, Columns
  <2>3. st(t) \in [TaskIds -> Statuses \cup {"NONE"}]
    BY DEF Columns, Statuses
  <2>4. status[t] = "NONE" /\ st(t)[t] = "QUEUED"
    BY <2>1 DEF FirstFree, TaskIds, Columns
  <2>5. UNCHANGED <<claimed_by, availability>>
    BY <1>2 DEF create_task
  <2>6. \A s \in TaskIds \ {t} : st(t)[s] = status[s] /\ job'[s] = job[s]
    BY <2>1 DEF Columns
  <2>7. CASE auto_dispatch(st(t), assigned_to, jb(t), availability)
    <3> HIDE DEF st, jb
    <3> QED BY <2>2, <2>3, <2>4, <2>5, <2>6, <2>7, DispatchKeeps DEF Columns, OnDuty, Between
  <2>8. CASE /\ w # NULL
             /\ MayBeAssigned(w, t, jb(t))
             /\ status' = [st(t) EXCEPT ![t] = "ASSIGNED"]
             /\ assigned_to' = [assigned_to EXCEPT ![t] = w]
    <3>1. status' = [status EXCEPT ![t] = "ASSIGNED"]
      BY <2>8 DEF Columns
    <3>2. availability[w] = "AVAILABLE"
      BY <2>8 DEF MayBeAssigned
    <3> QED BY <2>2, <2>4, <2>5, <2>6, <2>8, <3>1, <3>2, AssignKeeps
  <2> QED BY <2>1, <2>7, <2>8
<1> QED BY <1>1, <1>2

LEMMA SuperviseKeeps ==
  ASSUME Columns, Supervise
  PROVE  QueueStep
<1>1. CASE run_dispatch
  BY <1>1, DispatchKeeps DEF run_dispatch, Columns, OnDuty, Between
<1>2. ASSUME NEW w \in Workers, NEW av \in AvailabilityChoices, set_worker_availability(w, av)
      PROVE  QueueStep
  <2> DEFINE released == {t \in TaskIds : /\ av # "AVAILABLE"
                                          /\ assigned_to[t] = w
                                          /\ claimed_by[t] = NULL
                                          /\ status[t] = "ASSIGNED"}
             st == [t \in TaskIds |-> IF t \in released THEN "QUEUED" ELSE status[t]]
             as == [t \in TaskIds |-> IF t \in released THEN NULL ELSE assigned_to[t]]
  <2>1. /\ st \in [TaskIds -> Statuses \cup {"NONE"}]
        /\ as \in [TaskIds -> Users \cup {NULL}]
    BY DEF Columns, Statuses
  <2>2. auto_dispatch(st, as, job, availability')
    BY <1>2 DEF set_worker_availability
  <2>3. /\ UNCHANGED <<job, claimed_by>> /\ availability' = [availability EXCEPT ![w] = av]
        /\ availability' \in [Users -> AvailabilityStatuses]
    BY <1>2, InputsAssumption DEF set_worker_availability, Columns, Users
  <2>4. ASSUME NEW t \in TaskIds
        PROVE  \/ /\ st[t] = status[t] /\ as[t] = assigned_to[t]
                  /\ status[t] = "ASSIGNED" /\ OnDuty(t) => availability'[as[t]] = "AVAILABLE"
               \/ status[t] = "ASSIGNED" /\ st[t] = "QUEUED"
    BY <2>3 DEF Columns, OnDuty
  <2>5. job' \in [TaskIds -> Job] /\ \A t \in TaskIds : job'[t] = job[t]
    BY <2>3 DEF Columns
  <2> HIDE DEF st, as
  <2>6. Between(st, as, availability')
    BY <2>4, <2>5 DEF Between
  <2> QED BY <2>1, <2>2, <2>3, <2>5, <2>6, DispatchKeeps
<1>3. ASSUME NEW t \in TaskIds, NEW w \in Workers \cup {NULL}, assign_task(t, w)
      PROVE  QueueStep
  <2> DEFINE st == [status EXCEPT ![t] = "QUEUED"]
             as == [assigned_to EXCEPT ![t] = NULL]
  <2>1. /\ status[t] \in {"QUEUED", "ASSIGNED"}
        /\ UNCHANGED <<job, claimed_by, availability>>
    BY <1>3 DEF assign_task
  <2>2. CASE auto_dispatch(st, as, job, availability)
    <3>1. /\ st \in [TaskIds -> Statuses \cup {"NONE"}]
          /\ as \in [TaskIds -> Users \cup {NULL}]
          /\ st[t] = "QUEUED" /\ \A s \in TaskIds \ {t} : st[s] = status[s] /\ as[s] = assigned_to[s]
      BY DEF Columns, Statuses
    <3>2. job' \in [TaskIds -> Job] /\ availability \in [Users -> AvailabilityStatuses]
      BY <2>1 DEF Columns
    <3> HIDE DEF st, as
    <3>3. Between(st, as, availability)
      BY <2>1, <3>1 DEF OnDuty, Between
    <3> QED BY <2>1, <2>2, <3>1, <3>2, <3>3, DispatchKeeps
  <2>3. CASE /\ w # NULL
             /\ MayBeAssigned(w, t, job)
             /\ status' = [status EXCEPT ![t] = "ASSIGNED"]
             /\ assigned_to' = [assigned_to EXCEPT ![t] = w]
    BY <2>1, <2>3, AssignKeeps DEF MayBeAssigned, Columns
  <2> QED BY <1>3, <2>2, <2>3 DEF assign_task
<1>4. CASE new_work_day \/ \E w \in Workers : update_user(w)
  BY <1>4 DEF new_work_day, update_user, QueueStep, Columns, KeptRow, Waits, OnDuty, Users,
     AvailabilityStatuses
<1> QED BY <1>1, <1>2, <1>3, <1>4, CreateKeeps DEF Supervise

\* A claim from a status column in which count t may just have been completed
LEMMA ClaimKeeps ==
  ASSUME Columns, NEW u \in Users, NEW types, NEW bs,
         NEW st \in [TaskIds -> Statuses \cup {"NONE"}],
         claim_next_task(u, types, st, bs),
         UNCHANGED <<job, assigned_to, availability>>,
         \A t \in TaskIds : st[t] = status[t] \/ (status[t] = "IN_PROGRESS" /\ st[t] = "COMPLETED")
  PROVE  QueueStep /\ \A t \in TaskIds : st[t] = "COMPLETED" => status'[t] = "COMPLETED"
<1>1. CASE status' = st /\ claimed_by' = claimed_by
  BY <1>1 DEF QueueStep, Columns, KeptRow, Waits, OnDuty
<1>2. ASSUME NEW t \in TaskIds, st[t] \in {"QUEUED", "ASSIGNED"},
             status' = [st EXCEPT ![t] = "CLAIMED"], claimed_by' = [claimed_by EXCEPT ![t] = u]
      PROVE  QueueStep /\ \A s \in TaskIds : st[s] = "COMPLETED" => status'[s] = "COMPLETED"
  BY <1>2 DEF QueueStep, Columns, KeptRow, Waits, OnDuty, Statuses
<1> QED BY <1>1, <1>2, ClaimStep DEF Claimable

\* A completion, with or without a claim
LEMMA CompleteKeeps ==
  ASSUME Columns, NEW t \in TaskIds, NEW u \in Users, COMPLETE(t, u)
  PROVE  QueueStep /\ status'[t] = "COMPLETED"
<1> DEFINE st == [status EXCEPT ![t] = "COMPLETED"]
<1>1. /\ status[t] = "IN_PROGRESS" /\ UNCHANGED <<job, assigned_to, availability>>
      /\ st \in [TaskIds -> Statuses \cup {"NONE"}] /\ st[t] = "COMPLETED"
      /\ \A s \in TaskIds \ {t} : st[s] = status[s]
  BY DEF COMPLETE, Columns, Statuses
<1>2. \/ status' = st /\ UNCHANGED claimed_by
      \/ \E types, bs : claim_next_task(u, types, st, bs)
  BY DEF COMPLETE
<1> HIDE DEF st
<1>3. CASE status' = st /\ UNCHANGED claimed_by
  BY <1>1, <1>3 DEF QueueStep, Columns, KeptRow, Waits, OnDuty
<1>4. CASE \E types, bs : claim_next_task(u, types, st, bs)
  BY <1>1, <1>4, ClaimKeeps
<1> QED BY <1>2, <1>3, <1>4

LEMMA QueueKeeps ==
  ASSUME Columns, [Next]_vars
  PROVE  QueueStep
<1>1. ASSUME NEW u \in Users, claim_next(u) PROVE QueueStep
  BY <1>1, ClaimKeeps DEF claim_next, Columns
<1>2. ASSUME NEW t \in TaskIds, NEW u \in Users,
             START(t, u) \/ PAUSE(t, u) \/ RESUME(t, u) \/ CANCEL(t, u)
      PROVE  QueueStep
  <2>1. /\ UNCHANGED <<job, assigned_to, claimed_by, availability>>
        /\ \E new \in Statuses \ {"QUEUED", "ASSIGNED"} : status' = [status EXCEPT ![t] = new]
        /\ status[t] \in OPEN_STATUSES
    BY <1>2 DEF START, PAUSE, RESUME, CANCEL, Statuses, OPEN_STATUSES, TERMINAL
  <2> QED BY <2>1 DEF QueueStep, Columns, KeptRow, Waits, OnDuty, Statuses, OPEN_STATUSES, TERMINAL
<1>3. CASE Tick \/ UNCHANGED vars \/ \E t \in TaskIds, u \in Users : verify_task_scan(t, u)
  BY <1>3 DEF Tick, vars, verify_task_scan, QueueStep, Columns, KeptRow, Waits, OnDuty
<1> QED BY <1>1, <1>2, <1>3, SuperviseKeeps, CompleteKeeps DEF Next, Work

-----------------------------------------------------------------------------
(***************************************************************************)
(* The drafts                                                              *)
(***************************************************************************)

\* OneRecountPerRejection, of one row r whose recount follows it, and of two
Recounted(r, st, jb) ==
  /\ r.status = "REJECTED" /\ r.task # NULL <=> r.recount # NULL
  /\ r.recount # NULL =>
       /\ st[r.recount] # "NONE" /\ jb[r.recount].type = "RECEIVING" /\ r.recount # r.task
       /\ \/ jb[r.recount].priority > jb[r.task].priority
          \/ jb[r.task].priority >= 100 /\ jb[r.recount].priority = 100
Apart(f) ==
  \A d, e \in DraftIds : f[d] # NULL /\ f[e] # NULL /\ d # e /\ f[d].recount # NULL
                          => f[d].recount # f[e].recount

LEMMA RecountForm ==
  OneRecountPerRejection <=> /\ \A d \in DraftIds : Counted(d) => Recounted(drafts[d], status, job)
                             /\ Apart(drafts)
  BY DEF OneRecountPerRejection, Recounted, Apart, Counted, Exists

LEMMA RecountFormPrime ==
  OneRecountPerRejection' <=> /\ \A d \in DraftIds : Counted(d)' => Recounted(drafts'[d], status', job')
                              /\ Apart(drafts')
  BY DEF OneRecountPerRejection, Recounted, Apart, Counted, Exists

DraftRows == drafts \in [DraftIds -> DraftRow \cup {NULL}]

\* Drafts are about tasks that exist.
TasksThere == \A d \in DraftIds : Counted(d) /\ drafts[d].task # NULL => Exists(drafts[d].task)

DraftsInv == /\ Columns /\ DraftRows /\ TasksThere
             /\ ReviewedAreFinished /\ OneRecountPerRejection /\ OnlyRecountsWaitOffDuty

LEMMA DraftsInvInit == RInit => DraftsInv
<1> SUFFICES ASSUME RInit PROVE DraftsInv
  OBVIOUS
<1>1. Columns
  BY DEF RInit, Init, Columns, Job, TaskTypes, AvailabilityStatuses
<1> QED BY <1>1 DEF RInit, Init, DraftsInv, DraftRows, TasksThere, ReviewedAreFinished,
           OneRecountPerRejection, OnlyRecountsWaitOffDuty, Counted

\* What every step but the insertion of a recount keeps of a draft
SameDraft(d) ==
  /\ Counted(d) => Counted(d)'
  /\ Counted(d)' => /\ Counted(d)
                    /\ drafts'[d].task = drafts[d].task
                    /\ drafts'[d].counted_by = drafts[d].counted_by
                    /\ drafts'[d].recount = drafts[d].recount

\* The queue moves on under the drafts.
LEMMA DraftsKept ==
  ASSUME DraftsInv, QueueStep, DraftRows',
         \A d \in DraftIds : SameDraft(d),
         \A d \in DraftIds : Counted(d) => (drafts'[d].status = "REJECTED" /\ drafts[d].task # NULL
                                            <=> drafts[d].status = "REJECTED" /\ drafts[d].task # NULL)
  PROVE  TasksThere' /\ OneRecountPerRejection' /\ OnlyRecountsWaitOffDuty'
<1>1. TasksThere'
  <2> SUFFICES ASSUME NEW d \in DraftIds, Counted(d)', drafts'[d].task # NULL
               PROVE  status'[drafts'[d].task] # "NONE"
    BY DEF TasksThere, Exists
  <2>1. Counted(d) /\ drafts[d] \in DraftRow /\ drafts'[d].task = drafts[d].task
    BY DEF SameDraft, DraftsInv, DraftRows, Counted
  <2>2. drafts[d].task \in TaskIds /\ status[drafts[d].task] # "NONE"
    BY <2>1 DEF DraftsInv, DraftRow, TasksThere, Exists
  <2> QED BY <2>1, <2>2 DEF QueueStep, KeptRow
<1>2. OneRecountPerRejection'
  <2>1. ASSUME NEW d \in DraftIds, Counted(d)'
        PROVE  Recounted(drafts'[d], status', job')
    <3>1. /\ Counted(d) /\ drafts[d] \in DraftRow
          /\ drafts'[d].recount = drafts[d].recount /\ drafts'[d].task = drafts[d].task
      BY <2>1 DEF SameDraft, DraftsInv, DraftRows, Counted
    <3>2. Recounted(drafts[d], status, job)
      BY <3>1, RecountForm DEF DraftsInv
    <3>3. ASSUME drafts[d].recount # NULL
          PROVE  /\ status'[drafts[d].recount] # "NONE"
                 /\ job'[drafts[d].recount] = job[drafts[d].recount]
                 /\ job'[drafts[d].task] = job[drafts[d].task]
      <4>1. drafts[d].task # NULL /\ drafts[d].task \in TaskIds /\ drafts[d].recount \in TaskIds
        BY <3>1, <3>2, <3>3 DEF Recounted, DraftRow
      <4>2. status[drafts[d].recount] # "NONE" /\ status[drafts[d].task] # "NONE"
        BY <3>1, <3>2, <3>3, <4>1 DEF Recounted, DraftsInv, TasksThere, Exists
      <4> QED BY <4>1, <4>2 DEF QueueStep, KeptRow
    <3> QED BY <3>1, <3>2, <3>3 DEF Recounted
  <2>2. Apart(drafts')
    BY RecountForm DEF DraftsInv, Apart, SameDraft, Counted
  <2> QED BY <2>1, <2>2, RecountFormPrime
<1>3. OnlyRecountsWaitOffDuty'
  <2> SUFFICES ASSUME NEW t \in TaskIds, status'[t] = "ASSIGNED", ~OnDuty(t)'
               PROVE  \E d \in DraftIds : /\ Counted(d)' /\ drafts'[d].recount = t
                                          /\ drafts'[d].counted_by = assigned_to'[t]
    BY DEF OnlyRecountsWaitOffDuty, OnDuty
  <2>1. status[t] = "ASSIGNED" /\ assigned_to'[t] = assigned_to[t] /\ ~OnDuty(t)
    BY DEF QueueStep, Waits
  <2>2. PICK d \in DraftIds : Counted(d) /\ drafts[d].recount = t /\ drafts[d].counted_by = assigned_to[t]
    BY <2>1 DEF DraftsInv, OnlyRecountsWaitOffDuty, OnDuty
  <2> QED BY <2>1, <2>2 DEF SameDraft
<1> QED BY <1>1, <1>2, <1>3

LEMMA QueueUnchanged == Columns /\ UNCHANGED vars => QueueStep
  BY QueueKeeps

LEMMA QueueDraftStep ==
  ASSUME DraftsInv, [Next]_vars, UNCHANGED drafts
  PROVE  DraftsInv'
<1>1. QueueStep /\ Columns'
  BY QueueKeeps DEF DraftsInv, QueueStep
<1>2. DraftRows' /\ \A d \in DraftIds : SameDraft(d)
  BY DEF DraftsInv, DraftRows, SameDraft, Counted
<1>3. ReviewedAreFinished'
  BY <1>1 DEF DraftsInv, DraftRows, DraftRow, ReviewedAreFinished, QueueStep, KeptRow, Counted
<1> QED BY <1>1, <1>2, <1>3, DraftsKept DEF DraftsInv

LEMMA CreateDraftStep ==
  ASSUME DraftsInv, NEW u \in Users, NEW t \in TaskIds \cup {NULL}, NEW n \in LineCounts,
         create_receiving_draft(u, t, n)
  PROVE  DraftsInv'
<1> DEFINE row == [task |-> t, counted_by |-> u, status |-> "DRAFT", lines |-> 1..n,
                   header_photo |-> FALSE, line_photos |-> {}, recount |-> NULL]
<1>1. PICK d \in DraftIds : drafts[d] = NULL /\ drafts' = [drafts EXCEPT ![d] = row]
  <2>1. PICK d \in DraftIds : /\ \A e \in DraftIds : Counted(e) <=> e < d
                             /\ drafts' = [drafts EXCEPT ![d] = row]
    BY DEF create_receiving_draft
  <2>2. ~(d < d)
    BY <2>1, DraftsAssumption DEF DraftIds
  <2>3. drafts[d] = NULL
    BY <2>1, <2>2 DEF Counted
  <2> QED BY <2>1, <2>3
<1>2. UNCHANGED vars /\ (t # NULL => status[t] = "IN_PROGRESS")
  BY DEF create_receiving_draft
<1>3. row \in DraftRow
  BY DEF DraftRow, DraftStatuses
<1>4. /\ row.task = t /\ row.status = "DRAFT" /\ row.recount = NULL
  OBVIOUS
<1> HIDE DEF row
<1>5. drafts'[d] = row /\ \A e \in DraftIds \ {d} : drafts'[e] = drafts[e]
  BY <1>1 DEF DraftsInv, DraftRows
<1>6. DraftRows'
  BY <1>1, <1>3 DEF DraftsInv, DraftRows
<1>7. Columns' /\ UNCHANGED <<job, status, assigned_to, availability>>
  BY <1>2 DEF DraftsInv, Columns, vars
<1>8. TasksThere' /\ ReviewedAreFinished'
  BY <1>2, <1>4, <1>5, <1>7 DEF DraftsInv, TasksThere, ReviewedAreFinished, Counted, Exists
<1>9. OneRecountPerRejection'
  BY <1>4, <1>5, <1>7 DEF DraftsInv, OneRecountPerRejection, Counted, Exists
<1>10. OnlyRecountsWaitOffDuty'
  BY <1>1, <1>5, <1>7 DEF DraftsInv, OnlyRecountsWaitOffDuty, Counted
<1> QED BY <1>6, <1>7, <1>8, <1>9, <1>10 DEF DraftsInv

\* One draft is rewritten, and keeps what it is about.
Finished(row) == row.header_photo \/ \A line \in row.lines : line \in row.line_photos

LEMMA RewriteStep ==
  ASSUME DraftsInv, QueueStep, NEW d \in DraftIds, Counted(d), NEW row \in DraftRow,
         drafts' = [drafts EXCEPT ![d] = row],
         row.task = drafts[d].task, row.counted_by = drafts[d].counted_by,
         row.recount = drafts[d].recount,
         row.status = "REJECTED" /\ row.task # NULL
           <=> drafts[d].status = "REJECTED" /\ drafts[d].task # NULL,
         row.status # "DRAFT" => /\ Finished(row)
                                 /\ row.task # NULL => status'[row.task] = "COMPLETED"
  PROVE  DraftsInv'
<1>1. drafts'[d] = row /\ \A e \in DraftIds \ {d} : drafts'[e] = drafts[e]
  BY DEF DraftsInv, DraftRows
<1>2. DraftRows'
  BY DEF DraftsInv, DraftRows
<1>3. \A e \in DraftIds : SameDraft(e)
  BY <1>1, DraftRowAssumption DEF SameDraft, Counted
<1>4. ReviewedAreFinished'
  <2>1. ASSUME NEW e \in DraftIds \ {d}, Counted(e), drafts[e].status # "DRAFT"
        PROVE  /\ Finished(drafts[e])
               /\ drafts[e].task # NULL => status'[drafts[e].task] = "COMPLETED"
    <3>1. drafts[e].task # NULL => drafts[e].task \in TaskIds
      BY <2>1 DEF DraftsInv, DraftRows, DraftRow, Counted
    <3> QED BY <2>1, <3>1 DEF DraftsInv, ReviewedAreFinished, QueueStep, KeptRow, Finished
  <2> QED BY <1>1, <2>1 DEF ReviewedAreFinished, Counted, Finished
<1>5. TasksThere' /\ OneRecountPerRejection' /\ OnlyRecountsWaitOffDuty'
  BY <1>1, <1>2, <1>3, DraftsKept
<1> QED BY <1>2, <1>4, <1>5 DEF DraftsInv, QueueStep

LEMMA UploadStep ==
  ASSUME DraftsInv, NEW d \in DraftIds, NEW u \in Users, upload_evidence(d, u)
  PROVE  DraftsInv'
<1>1. Counted(d) /\ drafts[d] \in DraftRow /\ QueueStep /\ UNCHANGED vars
  BY QueueUnchanged DEF upload_evidence, DraftsInv, DraftRows, Counted
<1>2. ASSUME NEW row \in DraftRow, drafts' = [drafts EXCEPT ![d] = row],
             row.task = drafts[d].task, row.counted_by = drafts[d].counted_by,
             row.recount = drafts[d].recount, row.status = drafts[d].status,
             Finished(drafts[d]) => Finished(row)
      PROVE  DraftsInv'
  <2>1. row.status # "DRAFT" => /\ Finished(row)
                                /\ row.task # NULL => status'[row.task] = "COMPLETED"
    BY <1>1, <1>2 DEF DraftsInv, ReviewedAreFinished, Finished, vars
  <2> QED BY <1>1, <1>2, <2>1, RewriteStep
<1>3. CASE drafts' = [drafts EXCEPT ![d].header_photo = TRUE]
  <2> DEFINE row == [drafts[d] EXCEPT !.header_photo = TRUE]
  <2>1. row \in DraftRow
    BY <1>1 DEF DraftRow
  <2>2. /\ row.task = drafts[d].task /\ row.counted_by = drafts[d].counted_by
        /\ row.recount = drafts[d].recount /\ row.status = drafts[d].status /\ Finished(row)
    BY <1>1 DEF DraftRow, Finished
  <2>3. drafts' = [drafts EXCEPT ![d] = row]
    BY <1>3
  <2> HIDE DEF row
  <2> QED BY <1>2, <2>1, <2>2, <2>3
<1>4. ASSUME NEW line \in drafts[d].lines, drafts' = [drafts EXCEPT ![d].line_photos = @ \cup {line}]
      PROVE  DraftsInv'
  <2> DEFINE row == [drafts[d] EXCEPT !.line_photos = @ \cup {line}]
  <2>1. line \in Nat
    BY <1>1, DraftsAssumption DEF DraftRow
  <2>2. row \in DraftRow
    BY <1>1, <2>1 DEF DraftRow
  <2>3. /\ row.task = drafts[d].task /\ row.counted_by = drafts[d].counted_by
        /\ row.recount = drafts[d].recount /\ row.status = drafts[d].status
        /\ Finished(drafts[d]) => Finished(row)
    BY <1>1 DEF DraftRow, Finished
  <2>4. drafts' = [drafts EXCEPT ![d] = row]
    BY <1>4
  <2> HIDE DEF row
  <2> QED BY <1>2, <2>2, <2>3, <2>4
<1> QED BY <1>3, <1>4 DEF upload_evidence

\* A draft of status new, and otherwise the same
LEMMA StatusStep ==
  ASSUME DraftsInv, QueueStep, NEW d \in DraftIds, Counted(d), NEW new \in DraftStatuses \ {"DRAFT"},
         drafts' = [drafts EXCEPT ![d].status = new],
         drafts[d].task = NULL \/ (new # "REJECTED" /\ drafts[d].status # "REJECTED"),
         Finished(drafts[d]), drafts[d].task # NULL => status'[drafts[d].task] = "COMPLETED"
  PROVE  DraftsInv'
<1> DEFINE row == [drafts[d] EXCEPT !.status = new]
<1>1. drafts[d] \in DraftRow
  BY DEF DraftsInv, DraftRows, Counted
<1>2. row \in DraftRow
  BY <1>1 DEF DraftRow
<1>3. /\ row.task = drafts[d].task /\ row.counted_by = drafts[d].counted_by
      /\ row.recount = drafts[d].recount /\ row.status = new /\ Finished(row)
  BY <1>1 DEF DraftRow, Finished
<1>4. drafts' = [drafts EXCEPT ![d] = row]
  OBVIOUS
<1> HIDE DEF row
<1>5. /\ row.status = "REJECTED" /\ row.task # NULL
        <=> drafts[d].status = "REJECTED" /\ drafts[d].task # NULL
      /\ row.status # "DRAFT" => /\ Finished(row)
                                 /\ row.task # NULL => status'[row.task] = "COMPLETED"
  BY <1>3
<1> QED BY <1>2, <1>3, <1>4, <1>5, RewriteStep

LEMMA SubmitStep ==
  ASSUME DraftsInv, NEW d \in DraftIds, NEW u \in Users, submit_receiving_draft(d, u)
  PROVE  DraftsInv'
<1>1. /\ Counted(d) /\ drafts[d] \in DraftRow /\ drafts[d].status = "DRAFT"
      /\ drafts' = [drafts EXCEPT ![d].status = "SUBMITTED"]
      /\ Finished(drafts[d])
  BY DEF submit_receiving_draft, DraftsInv, DraftRows, Counted, Photographed, Finished
<1>2. QueueStep /\ (drafts[d].task # NULL => status'[drafts[d].task] = "COMPLETED")
  <2>1. CASE drafts[d].task = NULL
    BY <2>1, QueueUnchanged DEF submit_receiving_draft, DraftsInv
  <2>2. CASE drafts[d].task # NULL
    <3>1. drafts[d].task \in TaskIds /\ COMPLETE(drafts[d].task, u)
      BY <1>1, <2>2 DEF submit_receiving_draft, DraftRow
    <3> QED BY <3>1, CompleteKeeps DEF DraftsInv
  <2> QED BY <2>1, <2>2
<1> QED BY <1>1, <1>2, StatusStep DEF DraftStatuses

\* A rejection inserts its recount.
LEMMA RecountStep ==
  ASSUME DraftsInv, NEW d \in DraftIds, NEW t \in TaskIds, Counted(d),
         drafts[d].status = "SUBMITTED", drafts[d].task # NULL, insert_recount(d, t),
         drafts' = [drafts EXCEPT ![d].status = "REJECTED", ![d].recount = t]
  PROVE  DraftsInv'
<1> DEFINE row == [drafts[d] EXCEPT !.status = "REJECTED", !.recount = t]
           new == [type |-> "RECEIVING", batch |-> NULL,
                   priority |-> SmallerOf(100, job[drafts[d].task].priority + 10)]
<1>1. /\ drafts[d] \in DraftRow /\ drafts[d].task \in TaskIds /\ Exists(drafts[d].task)
      /\ status[t] = "NONE" /\ t # NULL
  BY NullAssumption DEF DraftsInv, DraftRows, DraftRow, Counted, TasksThere, insert_recount, FirstFree, TaskIds, Exists
<1>2. /\ row \in DraftRow /\ row.task = drafts[d].task /\ row.counted_by = drafts[d].counted_by
      /\ row.status = "REJECTED" /\ row.recount = t
      /\ Finished(drafts[d]) => Finished(row)
  BY <1>1 DEF DraftRow, DraftStatuses, Finished
<1>3. drafts' = [drafts EXCEPT ![d] = row]
  BY DEF DraftsInv, DraftRows
<1>4. job[drafts[d].task] \in Job
  BY <1>1 DEF DraftsInv, Columns
<1>5. /\ new \in Job /\ new.type = "RECEIVING"
      /\ \/ new.priority > job[drafts[d].task].priority
         \/ job[drafts[d].task].priority >= 100 /\ new.priority = 100
  BY <1>4, NullAssumption DEF Job, TaskTypes, SmallerOf
<1>6. /\ job' = [job EXCEPT ![t] = new]
      /\ status' = [status EXCEPT ![t] = "ASSIGNED"]
      /\ assigned_to' = [assigned_to EXCEPT ![t] = drafts[d].counted_by]
      /\ UNCHANGED <<claimed_by, availability>>
  BY DEF insert_recount
<1> HIDE DEF row, new
<1>7. drafts'[d] = row /\ \A e \in DraftIds \ {d} : drafts'[e] = drafts[e]
  BY <1>3 DEF DraftsInv, DraftRows
<1>8. DraftRows'
  BY <1>2, <1>3 DEF DraftsInv, DraftRows
<1>9. Columns'
  BY <1>1, <1>5, <1>6 DEF DraftsInv, Columns, DraftRow, Statuses
<1>10. /\ job'[t] = new /\ status'[t] = "ASSIGNED" /\ assigned_to'[t] = drafts[d].counted_by
       /\ \A s \in TaskIds \ {t} : /\ job'[s] = job[s] /\ status'[s] = status[s]
                                   /\ assigned_to'[s] = assigned_to[s]
  BY <1>6 DEF DraftsInv, Columns
<1>11. Counted(d)' /\ \A e \in DraftIds : Counted(e)' <=> Counted(e)
  BY <1>2, <1>7, DraftRowAssumption DEF Counted
<1>12. \A e \in DraftIds : Counted(e) =>
         /\ drafts[e].task # NULL => drafts[e].task \in TaskIds \ {t}
         /\ drafts[e].recount # NULL => drafts[e].recount \in TaskIds \ {t}
  BY <1>1 DEF DraftsInv, DraftRows, DraftRow, Counted, TasksThere, OneRecountPerRejection, Exists
<1>13. TasksThere'
  <2>1. \A e \in DraftIds \ {d} : Counted(e)' /\ drafts'[e].task # NULL
          => status'[drafts'[e].task] # "NONE"
    BY <1>7, <1>10, <1>11, <1>12 DEF DraftsInv, TasksThere, Exists
  <2>2. status'[row.task] # "NONE"
    BY <1>1, <1>2, <1>10 DEF Exists
  <2> QED BY <1>7, <2>1, <2>2 DEF TasksThere, Exists
<1>14. ReviewedAreFinished'
  <2>1. Finished(row) /\ row.task \in TaskIds \ {t} /\ status[row.task] = "COMPLETED"
    BY <1>1, <1>2 DEF DraftsInv, ReviewedAreFinished, Finished, Exists
  <2>2. \A e \in DraftIds \ {d} : Counted(e) /\ drafts[e].status # "DRAFT" =>
          /\ Finished(drafts[e])
          /\ drafts[e].task # NULL => status'[drafts[e].task] = "COMPLETED"
    BY <1>10, <1>12 DEF DraftsInv, ReviewedAreFinished, Finished
  <2>3. status'[row.task] = "COMPLETED"
    BY <1>10, <2>1
  <2> QED BY <1>7, <1>11, <2>1, <2>2, <2>3 DEF ReviewedAreFinished, Finished
<1>15. OneRecountPerRejection'
  <2>1. ASSUME NEW e \in DraftIds \ {d}, Counted(e)
        PROVE  Recounted(drafts[e], status', job') /\ drafts[e].recount # t
    <3>1. Recounted(drafts[e], status, job)
      BY <2>1, RecountForm DEF DraftsInv
    <3>2. t \in TaskIds /\ t # NULL
      BY <1>1
    <3>3. drafts[e].recount # NULL => /\ drafts[e].recount \in TaskIds \ {t}
                                      /\ drafts[e].task \in TaskIds \ {t}
      BY <1>12, <2>1, <3>1 DEF Recounted
    <3> QED BY <1>10, <3>1, <3>2, <3>3 DEF Recounted
  <2>2. Recounted(row, status', job')
    <3>1. row.task # NULL /\ row.task \in TaskIds \ {t}
      BY <1>1, <1>2 DEF Exists
    <3> QED BY <1>1, <1>2, <1>5, <1>10, <3>1 DEF Recounted
  <2>3. Apart(drafts)
    BY RecountForm DEF DraftsInv
  <2>4. \A e, f \in DraftIds \ {d} : Counted(e) /\ Counted(f) /\ e # f /\ drafts[e].recount # NULL
          => drafts[e].recount # drafts[f].recount
    BY <2>3 DEF Apart, Counted
  <2>5. \A e \in DraftIds \ {d} : Counted(e) => drafts[e].recount # row.recount
    BY <1>2, <2>1
  <2>6. \A e \in DraftIds : drafts'[e] # NULL <=> Counted(e)
    BY <1>11 DEF Counted
  <2>7. Apart(drafts')
    <3> SUFFICES ASSUME NEW e \in DraftIds, NEW f \in DraftIds, Counted(e), Counted(f), e # f,
                        drafts'[e].recount # NULL
                 PROVE  drafts'[e].recount # drafts'[f].recount
      BY <2>6 DEF Apart
    <3>1. CASE e = d
      BY <1>7, <2>5, <3>1
    <3>2. CASE f = d
      BY <1>7, <2>5, <3>2
    <3>3. CASE e # d /\ f # d
      BY <1>7, <2>4, <3>3
    <3> QED BY <3>1, <3>2, <3>3
  <2> QED BY <1>7, <1>11, <2>1, <2>2, <2>7, RecountFormPrime
<1>16. OnlyRecountsWaitOffDuty'
  <2> SUFFICES ASSUME NEW s \in TaskIds, status'[s] = "ASSIGNED", ~OnDuty(s)'
               PROVE  \E e \in DraftIds : /\ Counted(e)' /\ drafts'[e].recount = s
                                          /\ drafts'[e].counted_by = assigned_to'[s]
    BY DEF OnlyRecountsWaitOffDuty, OnDuty
  <2>1. CASE s = t
    BY <1>2, <1>7, <1>10, <1>11, <2>1
  <2>2. CASE s # t
    <3>1. status[s] = "ASSIGNED" /\ ~OnDuty(s)
      BY <1>6, <1>10, <2>2 DEF OnDuty
    <3>2. PICK e \in DraftIds : Counted(e) /\ drafts[e].recount = s /\ drafts[e].counted_by = assigned_to[s]
      BY <3>1 DEF DraftsInv, OnlyRecountsWaitOffDuty, OnDuty
    <3>3. drafts[d].recount = NULL
      BY DEF DraftsInv, OneRecountPerRejection
    <3>4. e # d
      BY <3>2, <3>3, NullAssumption DEF TaskIds
    <3> QED BY <1>7, <1>10, <1>11, <2>2, <3>2, <3>4
  <2> QED BY <2>1, <2>2
<1> QED BY <1>8, <1>9, <1>13, <1>14, <1>15, <1>16 DEF DraftsInv

LEMMA ReviewStep ==
  ASSUME DraftsInv, NEW d \in DraftIds, NEW verdict \in DraftStatuses, review_receiving_draft(d, verdict)
  PROVE  DraftsInv'
<1>1. /\ Counted(d) /\ verdict \in MayFollow(drafts[d].status)
      /\ drafts[d].status \in {"SUBMITTED", "APPROVED"} /\ verdict # "DRAFT"
      /\ verdict = "REJECTED" => drafts[d].status = "SUBMITTED"
  BY DEF review_receiving_draft, MayFollow
<1>2. CASE verdict = "REJECTED" /\ drafts[d].task # NULL
  <2>1. PICK t \in TaskIds :
          /\ insert_recount(d, t)
          /\ drafts' = [drafts EXCEPT ![d].status = "REJECTED", ![d].recount = t]
    BY <1>2 DEF review_receiving_draft
  <2> QED BY <1>1, <1>2, <2>1, RecountStep
<1>3. CASE ~(verdict = "REJECTED" /\ drafts[d].task # NULL)
  <2>1. drafts' = [drafts EXCEPT ![d].status = verdict] /\ UNCHANGED vars
    BY <1>3 DEF review_receiving_draft
  <2>2. QueueStep
    BY <2>1, QueueUnchanged DEF DraftsInv
  <2>3. Finished(drafts[d]) /\ (drafts[d].task # NULL => status'[drafts[d].task] = "COMPLETED")
    BY <1>1, <2>1 DEF DraftsInv, ReviewedAreFinished, Finished, vars
  <2> QED BY <1>1, <1>3, <2>1, <2>2, <2>3, StatusStep
<1> QED BY <1>2, <1>3

LEMMA DraftsInvNext == DraftsInv /\ [RNext]_allvars => DraftsInv'
<1> SUFFICES ASSUME DraftsInv, [RNext]_allvars PROVE DraftsInv'
  OBVIOUS
<1>1. CASE [Next]_vars /\ UNCHANGED drafts
  BY <1>1, QueueDraftStep
<1>2. CASE Receive
  BY <1>2, CreateDraftStep, UploadStep, SubmitStep, ReviewStep DEF Receive
<1> QED BY <1>1, <1>2 DEF RNext, allvars

LEMMA DraftsCorrect == RSpec => []DraftsInv
  BY DraftsInvInit, DraftsInvNext, PTL DEF RSpec

\* review_receiving_draft only ever sees drafts that were photographed and whose task is
\* done: submit_receiving_draft completes it in the same transaction, and nothing in the
\* queue reopens a completed task.
THEOREM ReviewedFinished == RSpec => []ReviewedAreFinished
  BY DraftsCorrect, PTL DEF DraftsInv

\* A rejected count leads to one recount of its own, however often review_receiving_draft
\* rejects recounts in turn; it ranks above the rejected task unless that one has the
\* highest priority, 100, already.
THEOREM RecountedOnce == RSpec => []OneRecountPerRejection
  BY DraftsCorrect, PTL DEF DraftsInv

\* Whoever goes off duty keeps nothing waiting but recounts: everything else is released
\* by set_worker_availability, and assign_task and auto_dispatch give it to those on duty.
THEOREM RecountsAlone == RSpec => []OnlyRecountsWaitOffDuty
  BY DraftsCorrect, PTL DEF DraftsInv

-----------------------------------------------------------------------------
(***************************************************************************)
(* Mistake cases.                                                          *)
(***************************************************************************)
\* w has taken a stage of Pack Note b
Took(w, b, type) ==
  \E t \in TaskIds : claimed_by[t] = w /\ job[t].batch = b /\ job[t].type = type

\* The people a case names took the stages they are named for.
NamedRightly ==
  /\ DOMAIN cases = CaseIds
  /\ \A c \in CaseIds : Reported(c) =>
       /\ DOMAIN cases[c] = {"batch", "status", "responsibility", "picker", "packer"}
       /\ \A w \in Users :
            /\ cases[c].picker = w => cases[c].batch # NULL /\ Took(w, cases[c].batch, "PICKING")
            /\ cases[c].packer = w => cases[c].batch # NULL /\ Took(w, cases[c].batch, "PACKING")

ErrorsInv == RowInv /\ CrossCheck /\ NamedRightly

\* Whoever took a stage stays the one who took it.
LEMMA TookKept ==
  ASSUME RowInv, [Next]_vars, NEW w \in Users, NEW b, NEW type, Took(w, b, type)
  PROVE  Took(w, b, type)'
<1>1. PICK t \in TaskIds : claimed_by[t] = w /\ job[t].batch = b /\ job[t].type = type
  BY DEF Took
<1>2. claimed_by[t] # NULL
  BY <1>1, NullAssumption
<1>3. claimed_by'[t] = w
  BY <1>1, <1>2, AttributionStep DEF StableRow
<1>4. job'[t] = job[t]
  <2>1. CASE Supervise
    <3>1. status[t] \notin {"NONE", "QUEUED", "ASSIGNED"}
      BY <1>2 DEF RowInv, RowsAgree
    <3> QED BY <2>1, <3>1, SuperviseRows DEF RowInv, SameRow, Requeued
  <2>2. CASE Work \/ Tick \/ UNCHANGED vars
    BY <2>2 DEF Work, claim_next, verify_task_scan, START, PAUSE, RESUME, COMPLETE, CANCEL, Tick, vars
  <2> QED BY <2>1, <2>2 DEF Next
<1> QED BY <1>1, <1>3, <1>4 DEF Took

\* The latest claimer of a stage took it.
LEMMA ClaimerTook ==
  ASSUME RowInv, NEW b, NEW type, NEW w \in Users, LatestClaimer(b, type) = w
  PROVE  Took(w, b, type)
<1> DEFINE S == {t \in TaskIds : job[t].batch = b /\ job[t].type = type /\ claimed_by[t] # NULL}
<1>1. S # {} /\ claimed_by[Max(S)] = w
  BY NullAssumption DEF LatestClaimer
<1>2. Max(S) \in S
  <2>1. S \subseteq 1 .. MaxTasks /\ MaxTasks \in Nat
    BY BoundsAssumption DEF TaskIds
  <2> HIDE DEF S
  <2> QED BY <1>1, <2>1, MaxOfRows
<1> QED BY <1>1, <1>2 DEF Took

LEMMA ReportStep ==
  ASSUME ErrorsInv, NEW u, NEW t, NEW b, create_error(u, t, b)
  PROVE  NamedRightly'
<1>1. PICK c \in CaseIds :
        cases' = [cases EXCEPT ![c] =
          [batch |-> b, status |-> "PENDING", responsibility |-> "UNCONFIRMED",
           picker |-> IF b = NULL THEN NULL ELSE LatestClaimer(b, "PICKING"),
           packer |-> IF b = NULL THEN NULL ELSE LatestClaimer(b, "PACKING")]]
  BY DEF create_error
<1>2. UNCHANGED vars
  BY DEF create_error
<1>3. \A e, type : \A w \in Users : Took(w, e, type)' <=> Took(w, e, type)
  BY <1>2 DEF Took, vars
<1>4. \A w \in Users :
        /\ cases'[c].picker = w => b # NULL /\ Took(w, b, "PICKING")
        /\ cases'[c].packer = w => b # NULL /\ Took(w, b, "PACKING")
  BY <1>1, ClaimerTook, NullAssumption DEF ErrorsInv, NamedRightly
<1>5. /\ DOMAIN cases' = CaseIds
      /\ cases'[c].batch = b
      /\ DOMAIN cases'[c] = {"batch", "status", "responsibility", "picker", "packer"}
      /\ \A d \in CaseIds \ {c} : cases'[d] = cases[d]
  BY <1>1 DEF ErrorsInv, NamedRightly
<1> QED BY <1>3, <1>4, <1>5 DEF ErrorsInv, NamedRightly, Reported

LEMMA ErrorsInvNext == ErrorsInv /\ [ENext]_evars => ErrorsInv'
<1> SUFFICES ASSUME ErrorsInv, [ENext]_evars PROVE ErrorsInv'
  OBVIOUS
<1>1. [Next]_vars
  BY DEF ENext, Cases, create_error, review_error, evars
<1>2. RowInv' /\ CrossCheck'
  BY <1>1, RowInvNext, CrossCheckNext DEF ErrorsInv
<1>3. ASSUME UNCHANGED cases PROVE NamedRightly'
  BY <1>1, <1>3, TookKept DEF ErrorsInv, NamedRightly, Reported
<1>4. ASSUME NEW c \in CaseIds, NEW verdict, NEW r, review_error(c, verdict, r)
      PROVE  NamedRightly'
  <2>1. \A e, type : \A w \in Users : Took(w, e, type)' <=> Took(w, e, type)
    BY <1>4 DEF review_error, Took, vars
  <2>2. /\ DOMAIN cases' = CaseIds
        /\ \A d \in CaseIds : Reported(d) =>
             /\ DOMAIN cases'[d] = DOMAIN cases[d]
             /\ cases'[d].batch = cases[d].batch
             /\ cases'[d].picker = cases[d].picker /\ cases'[d].packer = cases[d].packer
        /\ \A d \in CaseIds : cases'[d] # NULL => Reported(d)
    BY <1>4 DEF review_error, ErrorsInv, NamedRightly, Reported
  <2> QED BY <2>1, <2>2 DEF ErrorsInv, NamedRightly, Reported
<1> QED BY <1>2, <1>3, <1>4, ReportStep DEF ErrorsInv, ENext, Cases, evars

\* A mistake is counted only against the employee who took the stage, and never against
\* one employee for both stages of a Pack Note: create_error takes the names from
\* claims, which nothing rewrites, and the two stages are claimed by different people.
THEOREM ChargedRightly == ESpec => []ChargedForOwnStage
<1>1. EInit => ErrorsInv
  <2> SUFFICES ASSUME EInit PROVE ErrorsInv
    OBVIOUS
  <2>1. RowInv
    BY RowInvInit DEF EInit
  <2>2. CrossCheck
    BY DEF EInit, Init, CrossCheck, Counterpart
  <2> QED BY <2>1, <2>2 DEF EInit, ErrorsInv, NamedRightly, Reported
<1>2. ErrorsInv /\ [ENext]_evars => ErrorsInv'
  BY ErrorsInvNext
<1>3. ErrorsInv => ChargedForOwnStage
  <2> SUFFICES ASSUME ErrorsInv, NEW w \in Users
               PROVE  /\ \A c \in ChargedPicking(w) : Took(w, cases[c].batch, "PICKING")
                      /\ \A c \in ChargedPacking(w) : Took(w, cases[c].batch, "PACKING")
                      /\ \A c \in ChargedPicking(w), d \in ChargedPacking(w) :
                           cases[c].batch # cases[d].batch
    BY DEF ChargedForOwnStage, Took
  <2>1. /\ \A c \in ChargedPicking(w) : cases[c].batch # NULL /\ Took(w, cases[c].batch, "PICKING")
        /\ \A c \in ChargedPacking(w) : Took(w, cases[c].batch, "PACKING")
    BY DEF ErrorsInv, NamedRightly, ChargedPicking, ChargedPacking
  <2>2. \A b : b # NULL /\ Took(w, b, "PICKING") => ~Took(w, b, "PACKING")
    BY NullAssumption DEF ErrorsInv, CrossCheck, Counterpart, PickPack, Owner, Took
  <2> QED BY <2>1, <2>2
<1> QED BY <1>1, <1>2, <1>3, PTL DEF ESpec

=============================================================================
