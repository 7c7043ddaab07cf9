------------------------ MODULE IngestPipeline_proofs ------------------------
(***************************************************************************)
(* Theorems about IngestPipeline, for every set of requests, sessions,     *)
(* sites and shards, every capacity and batch size and every set of faults.*)
(***************************************************************************)
EXTENDS IngestPipeline, SequenceTheorems, TLAPS

-----------------------------------------------------------------------------
(* Ranges of sequences *)

\* Appending an element adds it to the range.
LEMMA RangeAppend ==
  ASSUME NEW S, NEW q \in Seq(S), NEW e \in S
  PROVE  Range(Append(q, e)) = Range(q) \cup {e}
<1>1. Len(Append(q, e)) = Len(q) + 1 /\ Len(q) \in Nat
  OBVIOUS
<1>2. \A i \in 1..Len(q) : Append(q, e)[i] = q[i]
  OBVIOUS
<1>3. Append(q, e)[Len(q) + 1] = e
  OBVIOUS
<1>4. DOMAIN Append(q, e) = 1..(Len(q) + 1) /\ DOMAIN q = 1..Len(q)
  OBVIOUS
<1> QED
  BY <1>1, <1>2, <1>3, <1>4 DEF Range

\* A sequence that is not empty holds its head and what its tail holds.
LEMMA RangeHeadTail ==
  ASSUME NEW S, NEW q \in Seq(S), q # <<>>
  PROVE  Range(q) = {Head(q)} \cup Range(Tail(q)) /\ Head(q) \in S
<1>1. Len(q) \in Nat \ {0} /\ Head(q) = q[1]
  OBVIOUS
<1>2. Len(Tail(q)) = Len(q) - 1 /\ DOMAIN Tail(q) = 1..(Len(q) - 1)
  BY HeadTailProperties
<1>3. \A i \in 1..(Len(q) - 1) : Tail(q)[i] = q[i + 1]
  BY <1>2, HeadTailProperties
<1>4. ASSUME NEW i \in DOMAIN q
      PROVE  q[i] \in {Head(q)} \cup Range(Tail(q))
  <2>1. CASE i = 1
    BY <1>1, <2>1
  <2>2. CASE i # 1
    <3>1. i - 1 \in DOMAIN Tail(q) /\ Tail(q)[i - 1] = q[i]
      BY <1>1, <1>2, <1>3, <2>2
    <3> QED
      BY <3>1 DEF Range
  <2> QED
    BY <2>1, <2>2
<1>5. Head(q) \in Range(q)
  BY <1>1 DEF Range
<1>6. ASSUME NEW i \in DOMAIN Tail(q)
      PROVE  Tail(q)[i] \in Range(q)
  <2>1. i + 1 \in DOMAIN q /\ Tail(q)[i] = q[i + 1]
    BY <1>1, <1>2, <1>3
  <2> QED
    BY <2>1 DEF Range
<1>7. Head(q) \in S
  BY HeadTailProperties
<1> QED
  BY <1>4, <1>5, <1>6, <1>7 DEF Range

\* A concatenation holds what its two parts hold.
LEMMA RangeConcat ==
  ASSUME NEW S, NEW p \in Seq(S), NEW q \in Seq(S)
  PROVE  Range(p \o q) = Range(p) \cup Range(q)
<1>1. /\ Len(p) \in Nat /\ Len(q) \in Nat
      /\ DOMAIN p = 1..Len(p) /\ DOMAIN q = 1..Len(q)
      /\ DOMAIN (p \o q) = 1..(Len(p) + Len(q))
  BY ConcatProperties
<1>2. \A i \in 1..(Len(p) + Len(q)) :
        (p \o q)[i] = IF i <= Len(p) THEN p[i] ELSE q[i - Len(p)]
  BY ConcatProperties
<1>3. ASSUME NEW i \in 1..(Len(p) + Len(q))
      PROVE  (p \o q)[i] \in Range(p) \cup Range(q)
  BY <1>1, <1>2 DEF Range
<1>4. ASSUME NEW i \in 1..Len(p)
      PROVE  p[i] \in Range(p \o q)
  <2>1. i \in DOMAIN (p \o q) /\ (p \o q)[i] = p[i]
    BY <1>1, <1>2
  <2> QED
    BY <2>1 DEF Range
<1>5. ASSUME NEW i \in 1..Len(q)
      PROVE  q[i] \in Range(p \o q)
  <2>1. Len(p) + i \in DOMAIN (p \o q) /\ (p \o q)[Len(p) + i] = q[i]
    BY <1>1, <1>2
  <2> QED
    BY <2>1 DEF Range
<1> QED
  BY <1>1, <1>3, <1>4, <1>5 DEF Range

LEMMA RangeEmpty == Range(<<>>) = {}
  BY DEF Range

LEMMA RangeType ==
  ASSUME NEW S, NEW q \in Seq(S)
  PROVE  Range(q) \subseteq S
  BY DEF Range

-----------------------------------------------------------------------------
(* Type correctness *)

LEMMA NoTransactionType == NoTransaction \in Transactions
<1>1. {} \in SUBSET Sessions /\ {} \in SUBSET Requests /\ <<>> \in Seq(Requests)
  OBVIOUS
<1> QED
  BY <1>1 DEF NoTransaction, Transactions

LEMMA BodyType ==
  ASSUME TypeOK, NEW r \in Requests
  PROVE  /\ body[r].session \in Sessions /\ body[r].site \in Sites
         /\ body[r].kind \in {"send", "heartbeat"}
         /\ Shard(r) \in Shards
  BY ShardAssumption DEF TypeOK, Bodies, Shard

LEMMA WriteItemType ==
  ASSUME TypeOK, NEW t \in Transactions, NEW r \in Requests
  PROVE  WriteItem(t, r) \in Transactions /\ AbortItem(t) \in Transactions
<1> DEFINE new == IF known[r] THEN {} ELSE {body[r].session} \ session
<1>1. t.event \in Seq(Requests) /\ Append(t.event, r) \in Seq(Requests)
  BY DEF Transactions
<1>2. t.session \cup new \in SUBSET Sessions
  BY BodyType DEF Transactions
<1>3. t.next + 1 \in Nat \ {0} /\ t.aborted \in BOOLEAN
  BY DEF Transactions
<1>4. \A d \in SUBSET Requests :
        t.data \cup d \in SUBSET Requests /\ t.revenue \cup d \in SUBSET Requests
  BY DEF Transactions
<1>5. WriteItem(t, r) \in Transactions
  <2> HIDE DEF new
  <2> QED
    BY <1>1, <1>2, <1>3, <1>4 DEF Transactions, WriteItem, new
<1>6. AbortItem(t) \in Transactions
  BY <1>1, <1>3 DEF Transactions, AbortItem
<1> QED
  BY <1>5, <1>6

LEMMA FinishBatchType ==
  ASSUME TypeOK, NEW s \in Shards, FinishBatch(s)
  PROVE  /\ wpc' \in [Shards -> WorkerStates]
         /\ batch' \in [Shards -> Seq(Requests)]
         /\ tx' \in [Shards -> Transactions]
  BY NoTransactionType DEF TypeOK, FinishBatch, WorkerStates

LEMMA TypeInit == Init => TypeOK
<1> SUFFICES ASSUME Init PROVE TypeOK
  OBVIOUS
<1>1. tx \in [Shards -> Transactions]
  BY NoTransactionType DEF Init
<1> QED
  BY <1>1 DEF Init, TypeOK, HandlerStates, WorkerStates

LEMMA TypeHandler ==
  ASSUME TypeOK, NEW r \in Requests, HandlerStep(r)
  PROVE  TypeOK'
<1> USE DEF db, rows, caches, handler, worker, history
<1>1. CASE Refuse(r)
  BY <1>1 DEF TypeOK, Refuse, GoTo, HandlerStates
<1>2. CASE CheckSite(r)
  BY <1>2 DEF TypeOK, CheckSite, Admit, Reject, GoTo, HandlerStates
<1>3. CASE LookupSite(r)
  BY <1>3 DEF TypeOK, LookupSite, GoTo, HandlerStates
<1>4. CASE FillSite(r)
  <2>1. website_cache' \in [Sites -> {"miss", "yes", "no"}]
    <3>1. (IF found[r] THEN "yes" ELSE "no") \in {"miss", "yes", "no"}
      OBVIOUS
    <3> QED
      BY <1>4, <3>1 DEF TypeOK, FillSite
  <2>2. pc' \in [Requests -> HandlerStates] /\ known' \in [Requests -> BOOLEAN]
    <3>1. Admit(r) \/ Reject(r)
      BY <1>4 DEF FillSite
    <3> QED
      BY <3>1 DEF TypeOK, Admit, Reject, GoTo, HandlerStates
  <2> QED
    BY <1>4, <2>1, <2>2 DEF TypeOK, FillSite
<1>5. CASE ReadSession(r)
  BY <1>5 DEF TypeOK, ReadSession, GoTo, HandlerStates
<1>6. CASE MarkSession(r)
  BY <1>6, BodyType DEF TypeOK, MarkSession, GoTo, HandlerStates
<1>7. CASE Push(r)
  <2>1. body[r].session \in Sessions /\ Shard(r) \in Shards
    BY BodyType
  <2>2. queue' \in [Shards -> Seq(Requests)]
    <3>1. Append(queue[Shard(r)], r) \in Seq(Requests)
      BY <2>1 DEF TypeOK
    <3> QED
      BY <1>7, <2>1, <3>1 DEF TypeOK, Push
  <2>3. pushed' \in [Sessions -> Seq(Requests)]
    <3>1. Append(pushed[body[r].session], r) \in Seq(Requests)
      BY <2>1 DEF TypeOK
    <3> QED
      BY <1>7, <2>1, <3>1 DEF TypeOK, Push
  <2> QED
    BY <1>7, <2>2, <2>3 DEF TypeOK, Push, GoTo, HandlerStates
<1> QED
  BY <1>1, <1>2, <1>3, <1>4, <1>5, <1>6, <1>7 DEF HandlerStep

LEMMA TypeWorker ==
  ASSUME TypeOK, NEW s \in Shards, WorkerStep(s)
  PROVE  TypeOK'
<1> USE DEF db, rows, caches, handler, worker, history
<1>0. queue[s] # <<>> =>
        Head(queue[s]) \in Requests /\ Tail(queue[s]) \in Seq(Requests)
  BY HeadTailProperties DEF TypeOK
<1>1. CASE WorkerRecv(s)
  <2>1. batch' \in [Shards -> Seq(Requests)] /\ queue' \in [Shards -> Seq(Requests)]
    BY <1>0, <1>1 DEF TypeOK, WorkerRecv
  <2> QED
    BY <1>1, <2>1 DEF TypeOK, WorkerRecv, WorkerStates
<1>2. CASE WorkerDrain(s)
  <2>1. batch' \in [Shards -> Seq(Requests)] /\ queue' \in [Shards -> Seq(Requests)]
    BY <1>0, <1>2 DEF TypeOK, WorkerDrain
  <2> QED
    BY <1>2, <2>1 DEF TypeOK, WorkerDrain
<1>3. CASE WorkerDrained(s)
  BY <1>3 DEF TypeOK, WorkerDrained, WorkerStates
<1>4. CASE WorkerBegin(s)
  <2>1. Range(batch[s]) \subseteq Requests
    BY RangeType DEF TypeOK
  <2>2. CASE wpc' = [wpc EXCEPT ![s] = "insert"] /\ UNCHANGED <<batch, tx, lost>>
    BY <1>4, <2>2 DEF TypeOK, WorkerBegin, WorkerStates
  <2>3. CASE FinishBatch(s) /\ lost' = lost \cup Range(batch[s])
    BY <1>4, <2>1, <2>3, FinishBatchType DEF TypeOK, WorkerBegin
  <2> QED
    BY <1>4, <2>2, <2>3 DEF WorkerBegin
<1>5. CASE WorkerInsert(s)
  <2> DEFINE r == batch[s][tx[s].next]
  <2>1. tx[s] \in Transactions /\ tx[s].next \in 1..Len(batch[s])
    BY <1>5 DEF TypeOK, WorkerInsert, Transactions
  <2>2. r \in Requests
    BY <2>1, ElementOfSeq DEF TypeOK
  <2>3. WriteItem(tx[s], r) \in Transactions /\ AbortItem(tx[s]) \in Transactions
    BY <2>1, <2>2, WriteItemType
  <2>5. tx' \in [Shards -> Transactions]
    BY <1>5, <2>3 DEF TypeOK, WorkerInsert
  <2> QED
    BY <1>5, <2>5 DEF TypeOK, WorkerInsert
<1>6. CASE WorkerCommit(s)
  <2>1. Range(batch[s]) \subseteq Requests
    BY RangeType DEF TypeOK
  <2>2. tx[s] \in Transactions
    BY DEF TypeOK
  <2>3. /\ session' \in SUBSET Sessions /\ website_event' \in Seq(Requests)
        /\ event_data' \in SUBSET Requests /\ revenue' \in SUBSET Requests
        /\ lost' \in SUBSET Requests
    <3>1. website_event \o tx[s].event \in Seq(Requests)
      BY <2>2, ConcatProperties DEF TypeOK, Transactions
    <3> QED
      BY <1>6, <2>1, <2>2, <3>1 DEF TypeOK, WorkerCommit, Transactions
  <2>4. FinishBatch(s)
    BY <1>6 DEF WorkerCommit
  <2> QED
    BY <1>6, <2>3, <2>4, FinishBatchType DEF TypeOK, WorkerCommit
<1> QED
  BY <1>1, <1>2, <1>3, <1>4, <1>5, <1>6 DEF WorkerStep

LEMMA TypeEnvironment ==
  ASSUME TypeOK,
         \/ \E w \in Sites : AdminStep(w) \/ EvictWebsite(w)
         \/ \E x \in Sessions : EvictSession(x)
         \/ Restart
  PROVE  TypeOK'
<1> USE DEF db, rows, caches, handler, worker, history
<1>1. ASSUME NEW w \in Sites, AdminStep(w) \/ EvictWebsite(w)
      PROVE  TypeOK'
  BY <1>1 DEF TypeOK, AdminStep, CreateWebsite, DeleteWebsite, EvictWebsite
<1>2. ASSUME NEW x \in Sessions, EvictSession(x)
      PROVE  TypeOK'
  BY <1>2 DEF TypeOK, EvictSession
<1>3. CASE Restart
  <2>1. InFlight \subseteq Requests
    BY RangeType DEF TypeOK, InFlight
  <2>2. pc' \in [Requests -> HandlerStates]
    BY <1>3 DEF TypeOK, Restart, HandlerStates
  <2>3. tx' \in [Shards -> Transactions]
    BY <1>3, NoTransactionType DEF Restart
  <2> QED
    BY <1>3, <2>1, <2>2, <2>3 DEF TypeOK, Restart, WorkerStates
<1> QED
  BY <1>1, <1>2, <1>3

LEMMA TypeStep == TypeOK /\ [Next]_vars => TypeOK'
<1> SUFFICES ASSUME TypeOK, [Next]_vars PROVE TypeOK'
  OBVIOUS
<1>1. CASE Next
  BY <1>1, TypeHandler, TypeWorker, TypeEnvironment DEF Next
<1>2. CASE UNCHANGED vars
  BY <1>2 DEF TypeOK, vars, db, caches, handler, worker, history
<1> QED
  BY <1>1, <1>2

\* Every variable keeps its type: in particular a worker never indexes its
\* batch outside its bounds (queue.rs:85).
THEOREM TypeCorrect == Spec => []TypeOK
<1>1. TypeOK /\ [Next]_vars => TypeOK'
  BY TypeStep
<1> QED
  BY <1>1, TypeInit, PTL DEF Spec

-----------------------------------------------------------------------------
(* The memory bound *)

\* A worker that sleeps has no batch, and a transaction has rows only while
\* the worker writes it.
WorkerShape ==
  \A s \in Shards :
    /\ wpc[s] = "idle" => batch[s] = <<>>
    /\ wpc[s] # "insert" => tx[s] = NoTransaction

LEMMA ShapeInit == Init => WorkerShape
  BY DEF Init, WorkerShape

\* Only the worker of a shard and a restart touch its state.
LEMMA ShapeStep == TypeOK /\ WorkerShape /\ [Next]_vars => WorkerShape'
<1> SUFFICES ASSUME TypeOK, WorkerShape, [Next]_vars, NEW z \in Shards
             PROVE  /\ wpc'[z] = "idle" => batch'[z] = <<>>
                    /\ wpc'[z] # "insert" => tx'[z] = NoTransaction
  BY DEF WorkerShape
<1> USE DEF WorkerShape, worker
<1>1. CASE UNCHANGED worker
  BY <1>1
<1>2. ASSUME NEW r \in Requests, HandlerStep(r)
      PROVE  UNCHANGED worker
  BY <1>2 DEF HandlerStep, Refuse, CheckSite, LookupSite, FillSite, ReadSession,
              MarkSession, Push
<1>3. ASSUME NEW s \in Shards, WorkerStep(s)
      PROVE  /\ wpc'[z] = "idle" => batch'[z] = <<>>
             /\ wpc'[z] # "insert" => tx'[z] = NoTransaction
  <2>1. CASE WorkerRecv(s)
    BY <2>1 DEF WorkerRecv, TypeOK
  <2>2. CASE WorkerDrain(s)
    BY <2>2 DEF WorkerDrain, TypeOK
  <2>3. CASE WorkerDrained(s)
    BY <2>3 DEF WorkerDrained, TypeOK
  <2>4. CASE FinishBatch(s)
    BY <2>4 DEF FinishBatch, TypeOK
  <2>5. CASE WorkerBegin(s)
    BY <2>4, <2>5 DEF WorkerBegin, TypeOK
  <2>6. CASE WorkerInsert(s)
    BY <2>6 DEF WorkerInsert, TypeOK
  <2>7. CASE WorkerCommit(s)
    BY <2>4, <2>7 DEF WorkerCommit
  <2> QED
    BY <1>3, <2>1, <2>2, <2>3, <2>5, <2>6, <2>7 DEF WorkerStep
<1>4. ASSUME NEW w \in Sites, AdminStep(w) \/ EvictWebsite(w)
      PROVE  UNCHANGED worker
  BY <1>4 DEF AdminStep, CreateWebsite, DeleteWebsite, EvictWebsite
<1>5. ASSUME NEW x \in Sessions, EvictSession(x)
      PROVE  UNCHANGED worker
  BY <1>5 DEF EvictSession
<1>6. CASE Restart
  BY <1>6 DEF Restart
<1>7. CASE UNCHANGED vars
  BY <1>7 DEF vars
<1> QED
  BY <1>1, <1>2, <1>3, <1>4, <1>5, <1>6, <1>7 DEF Next

LEMMA BoundInit == Init => MemoryBound
<1> SUFFICES ASSUME Init, NEW s \in Shards
             PROVE  Len(queue[s]) <= ShardCap /\ Len(batch[s]) <= MaxBatch
  BY DEF MemoryBound
<1>1. queue[s] = <<>> /\ batch[s] = <<>>
  BY DEF Init
<1> QED
  BY <1>1, CapacityAssumption

LEMMA BoundStep ==
  TypeOK /\ WorkerShape /\ MemoryBound /\ [Next]_vars => MemoryBound'
<1> SUFFICES ASSUME TypeOK, WorkerShape, MemoryBound, [Next]_vars, NEW z \in Shards
             PROVE  Len(queue'[z]) <= ShardCap /\ Len(batch'[z]) <= MaxBatch
  BY DEF MemoryBound
<1> USE CapacityAssumption DEF MemoryBound, worker
<1>0. /\ queue[z] \in Seq(Requests) /\ batch[z] \in Seq(Requests)
      /\ Len(<<>>) = 0
  BY DEF TypeOK
<1>1. CASE UNCHANGED <<queue, batch>>
  BY <1>1
<1>2. ASSUME NEW r \in Requests, HandlerStep(r)
      PROVE  Len(queue'[z]) <= ShardCap /\ Len(batch'[z]) <= MaxBatch
  <2>1. CASE Push(r)
    <3>1. Shard(r) \in Shards /\ queue[Shard(r)] \in Seq(Requests)
      BY BodyType DEF TypeOK
    <3>2. Len(queue'[z]) <= ShardCap
      <4>1. CASE Len(queue[Shard(r)]) < ShardCap
        <5>1. queue' = [queue EXCEPT ![Shard(r)] = Append(@, r)]
          BY <2>1, <4>1 DEF Push
        <5>2. Len(Append(queue[Shard(r)], r)) = Len(queue[Shard(r)]) + 1
          BY <3>1
        <5> QED
          BY <1>0, <3>1, <4>1, <5>1, <5>2 DEF TypeOK
      <4>2. CASE ~(Len(queue[Shard(r)]) < ShardCap)
        BY <2>1, <4>2 DEF Push
      <4> QED
        BY <4>1, <4>2
    <3> QED
      BY <2>1, <3>2 DEF Push
  <2>2. CASE ~Push(r)
    BY <1>1, <1>2, <2>2 DEF HandlerStep, Refuse, CheckSite, LookupSite, FillSite,
              ReadSession, MarkSession
  <2> QED
    BY <2>1, <2>2
<1>3. ASSUME NEW s \in Shards, WorkerStep(s)
      PROVE  Len(queue'[z]) <= ShardCap /\ Len(batch'[z]) <= MaxBatch
  <2>0. /\ queue[s] \in Seq(Requests) /\ batch[s] \in Seq(Requests)
        /\ queue[s] # <<>> =>
             Head(queue[s]) \in Requests /\ Len(Tail(queue[s])) = Len(queue[s]) - 1
    BY HeadTailProperties DEF TypeOK
  <2>1. CASE WorkerRecv(s)
    <3>1. batch[s] = <<>>
      BY <2>1 DEF WorkerRecv, WorkerShape
    <3> QED
      BY <1>0, <2>0, <2>1, <3>1 DEF WorkerRecv, TypeOK
  <2>2. CASE WorkerDrain(s)
    BY <1>0, <2>0, <2>2 DEF WorkerDrain, TypeOK
  <2>3. CASE WorkerDrained(s) \/ WorkerInsert(s)
    BY <1>1, <2>3 DEF WorkerDrained, WorkerInsert
  <2>4. CASE FinishBatch(s) /\ UNCHANGED queue
    BY <1>0, <2>4 DEF FinishBatch, TypeOK
  <2>5. CASE WorkerBegin(s)
    BY <1>1, <2>4, <2>5 DEF WorkerBegin
  <2>6. CASE WorkerCommit(s)
    BY <2>4, <2>6 DEF WorkerCommit
  <2> QED
    BY <1>3, <2>1, <2>2, <2>3, <2>5, <2>6 DEF WorkerStep
<1>4. ASSUME NEW w \in Sites, AdminStep(w) \/ EvictWebsite(w)
      PROVE  UNCHANGED <<queue, batch>>
  BY <1>4 DEF AdminStep, CreateWebsite, DeleteWebsite, EvictWebsite
<1>5. ASSUME NEW x \in Sessions, EvictSession(x)
      PROVE  UNCHANGED <<queue, batch>>
  BY <1>5 DEF EvictSession
<1>6. CASE Restart
  BY <1>0, <1>6 DEF Restart
<1>7. CASE UNCHANGED vars
  BY <1>7, <1>1 DEF vars
<1> QED
  BY <1>1, <1>2, <1>3, <1>4, <1>5, <1>6, <1>7 DEF Next

\* No shard holds more than its capacity and no worker more than one batch:
\* the memory of the queue is bounded whatever the load (queue.rs:58, 75).
THEOREM MemoryBounded == Spec => []MemoryBound
<1>1. /\ TypeOK /\ WorkerShape /\ MemoryBound /\ [Next]_vars
         => TypeOK' /\ WorkerShape' /\ MemoryBound'
  BY TypeStep, ShapeStep, BoundStep
<1>2. Init => TypeOK /\ WorkerShape /\ MemoryBound
  BY TypeInit, ShapeInit, BoundInit
<1> QED
  BY <1>1, <1>2, PTL DEF Spec

-----------------------------------------------------------------------------
(* An event becomes visible with its rows *)

\* The rows of set d go with the events of seq exactly for these payloads.
RowsOf(d, seq, classes) ==
  \A r \in Requests : r \in d <=> r \in Range(seq) /\ body[r].payload \in classes

Rows(t) ==
  /\ RowsOf(t.data, t.event, {"data", "sale"})
  /\ RowsOf(t.revenue, t.event, {"sale"})

\* The correspondence already holds inside each transaction.
EventInv ==
  /\ RowsOf(event_data, website_event, {"data", "sale"})
  /\ RowsOf(revenue, website_event, {"sale"})
  /\ \A s \in Shards : Rows(tx[s])

LEMMA NoTransactionRows == Rows(NoTransaction)
  BY RangeEmpty DEF Rows, RowsOf, NoTransaction

\* Writing an item keeps the correspondence.
LEMMA WriteItemRows ==
  ASSUME TypeOK, NEW t \in Transactions, NEW r \in Requests, Rows(t)
  PROVE  Rows(WriteItem(t, r)) /\ Rows(AbortItem(t))
<1>1. Range(Append(t.event, r)) = Range(t.event) \cup {r}
  BY RangeAppend DEF Transactions
<1>2. /\ WriteItem(t, r).event = Append(t.event, r)
      /\ WriteItem(t, r).data =
           t.data \cup (IF body[r].payload \in {"data", "sale"} THEN {r} ELSE {})
      /\ WriteItem(t, r).revenue =
           t.revenue \cup (IF body[r].payload = "sale" THEN {r} ELSE {})
  BY DEF WriteItem
<1>3. Rows(WriteItem(t, r))
  BY <1>1, <1>2 DEF Rows, RowsOf
<1>4. Rows(AbortItem(t))
  BY DEF Rows, RowsOf, AbortItem
<1> QED
  BY <1>3, <1>4

LEMMA EventInit == Init => EventInv
<1> SUFFICES ASSUME Init PROVE EventInv
  OBVIOUS
<1>1. \A s \in Shards : Rows(tx[s])
  BY NoTransactionRows DEF Init
<1> QED
  BY <1>1, RangeEmpty DEF Init, EventInv, RowsOf

LEMMA EventStep == TypeOK /\ EventInv /\ [Next]_vars => EventInv'
<1> SUFFICES ASSUME TypeOK, EventInv, [Next]_vars PROVE EventInv'
  OBVIOUS
<1> USE DEF db, rows, handler, worker
<1>1. CASE UNCHANGED <<event_data, revenue, website_event, body, tx>>
  BY <1>1 DEF EventInv, Rows, RowsOf
<1>2. ASSUME NEW r \in Requests, HandlerStep(r)
      PROVE  UNCHANGED <<event_data, revenue, website_event, body, tx>>
  BY <1>2 DEF HandlerStep, Refuse, CheckSite, LookupSite, FillSite, ReadSession,
              MarkSession, Push
<1>3. ASSUME NEW s \in Shards, WorkerStep(s)
      PROVE  EventInv'
  <2>0. body' = body
    BY <1>3 DEF WorkerStep, WorkerRecv, WorkerDrain, WorkerDrained, WorkerBegin,
                WorkerInsert, WorkerCommit
  <2>1. CASE WorkerRecv(s) \/ WorkerDrain(s) \/ WorkerDrained(s)
    BY <1>1, <2>1 DEF WorkerRecv, WorkerDrain, WorkerDrained
  <2>3. CASE WorkerBegin(s)
    <3>1. CASE UNCHANGED tx
      BY <1>1, <2>3, <3>1 DEF WorkerBegin
    <3>2. CASE FinishBatch(s)
      <4>1. \A z \in Shards : tx'[z] = tx[z] \/ tx'[z] = NoTransaction
        BY <3>2 DEF FinishBatch, TypeOK
      <4>2. \A z \in Shards : Rows(tx'[z])
        BY <4>1, NoTransactionRows DEF EventInv
      <4> QED
        BY <2>0, <2>3, <4>2 DEF EventInv, Rows, RowsOf, WorkerBegin
    <3> QED
      BY <2>3, <3>1, <3>2 DEF WorkerBegin
  <2>4. CASE WorkerInsert(s)
    <3> DEFINE r == batch[s][tx[s].next]
    <3>1. tx[s] \in Transactions /\ tx[s].next \in 1..Len(batch[s])
      BY <2>4 DEF TypeOK, WorkerInsert, Transactions
    <3>2. r \in Requests
      BY <3>1, ElementOfSeq DEF TypeOK
    <3>3. Rows(WriteItem(tx[s], r)) /\ Rows(AbortItem(tx[s]))
      BY <3>1, <3>2, WriteItemRows DEF EventInv
    <3>4. \A z \in Shards :
            tx'[z] \in {tx[z], WriteItem(tx[s], r), AbortItem(tx[s])}
      BY <2>4 DEF WorkerInsert, TypeOK
    <3>5. \A z \in Shards : Rows(tx'[z])
      BY <3>3, <3>4 DEF EventInv
    <3> QED
      BY <2>0, <2>4, <3>5 DEF EventInv, Rows, RowsOf, WorkerInsert
  <2>5. CASE WorkerCommit(s)
    <3>1. \A z \in Shards : tx'[z] = tx[z] \/ tx'[z] = NoTransaction
      BY <2>5 DEF WorkerCommit, FinishBatch, TypeOK
    <3>2. \A z \in Shards : Rows(tx'[z])
      BY <3>1, NoTransactionRows DEF EventInv
    <3>3. CASE UNCHANGED rows
      BY <2>0, <3>2, <3>3 DEF EventInv, Rows, RowsOf
    <3>4. CASE /\ website_event' = website_event \o tx[s].event
               /\ event_data' = event_data \cup tx[s].data
               /\ revenue' = revenue \cup tx[s].revenue
      <4>1. Range(website_event') = Range(website_event) \cup Range(tx[s].event)
        BY <3>4, RangeConcat DEF TypeOK, Transactions
      <4> QED
        BY <2>0, <3>2, <3>4, <4>1 DEF EventInv, Rows, RowsOf
    <3> QED
      BY <2>5, <3>3, <3>4 DEF WorkerCommit
  <2> QED
    BY <1>3, <2>1, <2>3, <2>4, <2>5 DEF WorkerStep
<1>4. ASSUME NEW w \in Sites, AdminStep(w) \/ EvictWebsite(w)
      PROVE  UNCHANGED <<event_data, revenue, website_event, body, tx>>
  BY <1>4 DEF AdminStep, CreateWebsite, DeleteWebsite, EvictWebsite
<1>5. ASSUME NEW x \in Sessions, EvictSession(x)
      PROVE  UNCHANGED <<event_data, revenue, website_event, body, tx>>
  BY <1>5 DEF EvictSession
<1>6. CASE Restart
  BY <1>6, NoTransactionRows DEF Restart, EventInv, Rows, RowsOf
<1>7. CASE UNCHANGED vars
  BY <1>1, <1>7 DEF vars
<1> QED
  BY <1>1, <1>2, <1>3, <1>4, <1>5, <1>6, <1>7 DEF Next

\* An event, its event_data rows and its revenue row become visible together
\* or not at all, whichever statement or commit fails (queue.rs:82-316).
THEOREM EventIsComplete == Spec => []EventComplete
<1>1. TypeOK /\ EventInv /\ [Next]_vars => TypeOK' /\ EventInv'
  BY TypeStep, EventStep
<1>2. Init => TypeOK /\ EventInv
  BY TypeInit, EventInit
<1>3. EventInv => EventComplete
  BY DEF EventInv, EventComplete, RowsOf, Stored
<1> QED
  BY <1>1, <1>2, <1>3, PTL DEF Spec

-----------------------------------------------------------------------------
(* Nothing is forgotten and nothing is written twice *)

\* Only the tail of a sequence without repetitions is left when its head goes.
LEMMA InjectiveTail ==
  ASSUME NEW S, NEW q \in Seq(S), q # <<>>, IsInjective(q)
  PROVE  IsInjective(Tail(q)) /\ Head(q) \notin Range(Tail(q))
<1>1. Len(q) \in Nat \ {0} /\ Head(q) = q[1] /\ DOMAIN q = 1..Len(q)
  OBVIOUS
<1>2. DOMAIN Tail(q) = 1..(Len(q) - 1)
  BY HeadTailProperties
<1>3. \A i \in 1..(Len(q) - 1) : Tail(q)[i] = q[i + 1] /\ i + 1 \in DOMAIN q /\ i + 1 # 1
  BY <1>1, HeadTailProperties
<1>4. Head(q) \notin Range(Tail(q))
  BY <1>1, <1>2, <1>3 DEF Range, IsInjective
<1>5. \A i, j \in 1..(Len(q) - 1) : i + 1 = j + 1 => i = j
  BY <1>1
<1>6. IsInjective(Tail(q))
  BY <1>2, <1>3, <1>5 DEF IsInjective
<1> QED
  BY <1>4, <1>6

LEMMA InjectiveAppend ==
  ASSUME NEW S, NEW q \in Seq(S), NEW e \in S, IsInjective(q), e \notin Range(q)
  PROVE  IsInjective(Append(q, e))
<1>1. Len(q) \in Nat /\ DOMAIN q = 1..Len(q) /\ DOMAIN Append(q, e) = 1..(Len(q) + 1)
  OBVIOUS
<1>2. Append(q, e)[Len(q) + 1] = e /\ \A i \in 1..Len(q) : Append(q, e)[i] = q[i]
  OBVIOUS
<1>3. \A i \in 1..Len(q) : q[i] # e
  BY <1>1 DEF Range
<1>4. ASSUME NEW i \in 1..(Len(q) + 1), NEW j \in 1..(Len(q) + 1),
             Append(q, e)[i] = Append(q, e)[j]
      PROVE  i = j
  <2>1. CASE i \in 1..Len(q) /\ j \in 1..Len(q)
    BY <1>1, <1>2, <1>4, <2>1 DEF IsInjective
  <2>2. CASE i = Len(q) + 1 /\ j \in 1..Len(q)
    BY <1>2, <1>3, <1>4, <2>2
  <2>3. CASE j = Len(q) + 1 /\ i \in 1..Len(q)
    BY <1>2, <1>3, <1>4, <2>3
  <2> QED
    BY <1>1, <2>1, <2>2, <2>3
<1>5. \A i, j \in DOMAIN Append(q, e) :
        Append(q, e)[i] = Append(q, e)[j] => i = j
  BY <1>1, <1>4
<1> QED
  BY <1>5, Zenon DEF IsInjective

\* The rows of a transaction that is not aborted are those of the items the
\* worker has gone through.
Written ==
  \A s \in Shards :
    ~tx[s].aborted =>
      /\ tx[s].next <= Len(batch[s]) + 1
      /\ tx[s].event = SubSeq(batch[s], 1, tx[s].next - 1)

LEMMA NoTransactionWritten ==
  ASSUME NEW q \in Seq(Requests)
  PROVE  /\ NoTransaction.next <= Len(q) + 1
         /\ NoTransaction.event = SubSeq(q, 1, NoTransaction.next - 1)
<1>1. SubSeq(q, 1, 0) = <<>>
  OBVIOUS
<1> QED
  BY <1>1 DEF NoTransaction

LEMMA WrittenInit == Init => Written
<1> SUFFICES ASSUME Init, NEW s \in Shards
             PROVE  /\ tx[s].next <= Len(batch[s]) + 1
                    /\ tx[s].event = SubSeq(batch[s], 1, tx[s].next - 1)
  BY DEF Written
<1>1. tx[s] = NoTransaction /\ batch[s] \in Seq(Requests)
  BY DEF Init
<1> QED
  BY <1>1, NoTransactionWritten

\* What the statements of an item add to the transaction.
LEMMA WriteItemAdds ==
  ASSUME NEW t, NEW r, NEW w, w = WriteItem(t, r)
  PROVE  /\ w.next = t.next + 1 /\ w.event = Append(t.event, r) /\ w.aborted = t.aborted
         /\ w.session = t.session \cup (IF known[r] THEN {} ELSE {body[r].session} \ session)
<1>1. /\ WriteItem(t, r).next = t.next + 1
      /\ WriteItem(t, r).event = Append(t.event, r)
      /\ WriteItem(t, r).aborted = t.aborted
  BY DEF WriteItem
<1>2. WriteItem(t, r).session =
        t.session \cup (IF known[r] THEN {} ELSE {body[r].session} \ session)
  BY DEF WriteItem
<1> QED
  BY <1>1, <1>2

LEMMA WrittenStep ==
  TypeOK /\ WorkerShape /\ Written /\ [Next]_vars => Written'
<1> SUFFICES ASSUME TypeOK, WorkerShape, Written, [Next]_vars, NEW z \in Shards,
                    ~tx'[z].aborted
             PROVE  /\ tx'[z].next <= Len(batch'[z]) + 1
                    /\ tx'[z].event = SubSeq(batch'[z], 1, tx'[z].next - 1)
  BY DEF Written
<1>0. TypeOK' /\ WorkerShape'
  BY TypeStep, ShapeStep
<1>1. batch'[z] \in Seq(Requests)
  BY <1>0 DEF TypeOK
<1>2. CASE tx'[z] = NoTransaction
  BY <1>1, <1>2, NoTransactionWritten
<1>3. CASE UNCHANGED <<tx, batch>>
  BY <1>3 DEF Written
<1>4. ASSUME NEW r \in Requests, HandlerStep(r)
      PROVE  UNCHANGED <<tx, batch>>
  BY <1>4 DEF HandlerStep, Refuse, CheckSite, LookupSite, FillSite, ReadSession,
              MarkSession, Push, worker
<1>5. ASSUME NEW s \in Shards, WorkerStep(s)
      PROVE  /\ tx'[z].next <= Len(batch'[z]) + 1
             /\ tx'[z].event = SubSeq(batch'[z], 1, tx'[z].next - 1)
  <2>1. CASE z # s
    <3>1. tx'[z] = tx[z] /\ batch'[z] = batch[z]
      BY <1>5, <2>1 DEF TypeOK, WorkerStep, WorkerRecv, WorkerDrain, WorkerDrained,
                        WorkerBegin, WorkerInsert, WorkerCommit, FinishBatch, worker
    <3> QED
      BY <3>1 DEF Written
  <2>2. CASE z = s /\ WorkerInsert(s)
    <3> DEFINE n == tx[z].next
               r == batch[z][n]
    <3>1. /\ tx[z] \in Transactions /\ n \in Nat \ {0} /\ n \in 1..Len(batch[z])
          /\ batch[z] \in Seq(Requests) /\ r \in Requests
      BY <2>2, ElementOfSeq DEF TypeOK, WorkerInsert, Transactions
    <3>2. batch' = batch /\ tx'[z] \in {WriteItem(tx[z], r), AbortItem(tx[z])}
      BY <2>2 DEF WorkerInsert, TypeOK
    <3>3. AbortItem(tx[z]).aborted
      BY DEF AbortItem
    <3>4. tx'[z] = WriteItem(tx[z], r)
      BY <3>2, <3>3
    <3>5. /\ tx'[z].next = n + 1 /\ tx'[z].event = Append(tx[z].event, r)
          /\ ~tx[z].aborted
      BY <3>4, WriteItemAdds
    <3>6. tx[z].event = SubSeq(batch[z], 1, n - 1)
      BY <3>5 DEF Written
    <3>7. SubSeq(batch[z], 1, n) = Append(SubSeq(batch[z], 1, n - 1), r)
      <4>1. 1 \in 1..Len(batch[z]) /\ n \in 1..Len(batch[z])
        BY <3>1
      <4>2. SubSeq(batch[z], 1, n) = SubSeq(batch[z], 1, n - 1) \o <<batch[z][n]>>
        BY <3>1, <4>1, SubSeqRecursiveSecond
      <4>3. SubSeq(batch[z], 1, n - 1) \in Seq(Requests)
        BY <3>1, SubSeqProperties, ElementOfSeq
      <4> QED
        BY <3>1, <4>2, <4>3, AppendIsConcat
    <3>8. (n + 1) - 1 = n /\ n + 1 <= Len(batch[z]) + 1
      BY <3>1
    <3> HIDE DEF n, r
    <3> QED
      BY <3>2, <3>5, <3>6, <3>7, <3>8
  <2>3. CASE z = s /\ ~WorkerInsert(s)
    <3>1. wpc[s] # "insert" /\ UNCHANGED tx => tx'[s] = NoTransaction
      BY DEF WorkerShape
    <3>2. FinishBatch(s) => tx'[s] = NoTransaction
      BY DEF FinishBatch, TypeOK
    <3> QED
      BY <1>2, <1>5, <2>3, <3>1, <3>2 DEF WorkerStep, WorkerRecv, WorkerDrain,
         WorkerDrained, WorkerBegin, WorkerCommit, worker
  <2> QED
    BY <2>1, <2>2, <2>3
<1>6. ASSUME NEW w \in Sites, AdminStep(w) \/ EvictWebsite(w)
      PROVE  UNCHANGED <<tx, batch>>
  BY <1>6 DEF AdminStep, CreateWebsite, DeleteWebsite, EvictWebsite, worker
<1>7. ASSUME NEW x \in Sessions, EvictSession(x)
      PROVE  UNCHANGED <<tx, batch>>
  BY <1>7 DEF EvictSession, worker
<1>8. CASE Restart
  BY <1>2, <1>8 DEF Restart
<1>9. CASE UNCHANGED vars
  BY <1>3, <1>9 DEF vars, worker
<1> QED
  BY <1>3, <1>4, <1>5, <1>6, <1>7, <1>8, <1>9 DEF Next

\* Where the requests are: an item is in the channel of its shard, in the
\* batch of its worker, in the table or lost.
Custody ==
  /\ Accounted
  /\ \A s \in Shards : IsInjective(queue[s])
  /\ \A r \in lost : pc[r] \in {"done", "gone"}
  /\ \A r \in Stored : pc[r] = "done"

LEMMA HeldType ==
  ASSUME TypeOK, NEW s \in Shards
  PROVE  Held(s) \subseteq Requests /\ Stored \subseteq Requests
  BY RangeType DEF TypeOK, Held, Stored

LEMMA CustodyInit == Init => Custody
<1> SUFFICES ASSUME Init PROVE Custody
  OBVIOUS
<1>1. /\ Stored = {} /\ lost = {}
      /\ \A s \in Shards : queue[s] = <<>> /\ batch[s] = <<>> /\ Held(s) = {}
  BY RangeEmpty DEF Init, Stored, Held
<1>2. \A s \in Shards : IsInjective(queue[s])
  BY <1>1 DEF IsInjective
<1> QED
  BY <1>1, <1>2, RangeEmpty DEF Init, Custody, Accounted

\* Accounted is about the set of items a shard holds, not about where in the
\* shard they are.
LEMMA AccountedFrame ==
  ASSUME TypeOK, Accounted, UNCHANGED <<body, lost>>, Stored' = Stored,
         \A s \in Shards : Held(s)' = Held(s),
         \A s \in Shards : Range(queue'[s]) \cap Range(batch'[s]) = {},
         \A r \in Requests : pc'[r] = "done" <=> pc[r] = "done"
  PROVE  Accounted'
<1>1. \A r \in Requests : Shard(r)' = Shard(r) /\ Shard(r) \in Shards
  BY BodyType DEF Shard
<1>2. \A r \in Requests :
        pc'[r] = "done" => r \in Held(Shard(r))' \cup Stored' \cup lost'
  BY <1>1 DEF Accounted
<1>3. \A s \in Shards : \A r \in Held(s)' :
        Shard(r)' = s /\ pc'[r] = "done" /\ r \notin Stored' \cup lost'
  BY <1>1, HeldType DEF Accounted
<1>4. Stored' \cap lost' = {}
  BY DEF Accounted
<1> QED
  BY <1>1, <1>2, <1>3, <1>4 DEF Accounted

\* A step that moves no item and answers nobody keeps Custody.
LEMMA CustodyFrame ==
  ASSUME TypeOK, Custody, UNCHANGED <<queue, batch, website_event, lost, body>>,
         \A r \in Requests :
           \/ pc'[r] = pc[r]
           \/ pc[r] \notin {"done", "gone"} /\ pc'[r] \notin {"done", "gone"}
  PROVE  Custody'
<1>1. /\ Stored' = Stored /\ \A s \in Shards : Held(s)' = Held(s)
      /\ \A r \in Requests : Shard(r)' = Shard(r)
  BY DEF Stored, Held, Shard
<1>2. Accounted'
  BY <1>1, AccountedFrame DEF Custody, Accounted
<1>3. \A r \in lost : r \in Requests
  BY DEF TypeOK
<1>4. \A r \in Stored : r \in Requests
  BY RangeType DEF TypeOK, Stored
<1> QED
  BY <1>1, <1>2, <1>3, <1>4 DEF Custody

LEMMA CustodyPush ==
  ASSUME TypeOK, Custody, NEW r \in Requests, Push(r)
  PROVE  Custody'
<1> DEFINE s == Shard(r)
<1>1. /\ s \in Shards /\ queue[s] \in Seq(Requests) /\ pc[r] = "push"
      /\ pc' = [pc EXCEPT ![r] = "done"]
      /\ UNCHANGED <<website_event, batch, body>>
  BY BodyType DEF TypeOK, Push, GoTo, db, worker
<1>2. r \notin Stored \cup lost /\ \A z \in Shards : r \notin Held(z)
  BY <1>1 DEF Custody, Accounted
<1>3. /\ Stored' = Stored /\ \A x \in Requests : Shard(x)' = Shard(x)
  BY <1>1 DEF Stored, Shard
<1>4. \A x \in Requests : pc'[x] = IF x = r THEN "done" ELSE pc[x]
  BY <1>1 DEF TypeOK
<1>5. Stored \subseteq Requests /\ lost \subseteq Requests
      /\ \A z \in Shards : Held(z) \subseteq Requests
  BY <1>1, HeldType DEF TypeOK
<1>6. CASE Len(queue[s]) < ShardCap
  <2>1. queue' = [queue EXCEPT ![s] = Append(@, r)] /\ lost' = lost
    BY <1>6 DEF Push
  <2>2. Range(queue'[s]) = Range(queue[s]) \cup {r}
    BY <1>1, <2>1, RangeAppend DEF TypeOK
  <2>3. \A z \in Shards \ {s} : queue'[z] = queue[z]
    BY <2>1 DEF TypeOK
  <2>4. \A z \in Shards : Held(z)' = IF z = s THEN Held(z) \cup {r} ELSE Held(z)
    BY <1>1, <2>2, <2>3 DEF Held
  <2>5. r \notin Range(queue[s]) /\ r \notin Range(batch[s])
    BY <1>1, <1>2 DEF Held
  <2>6. \A z \in Shards : IsInjective(queue'[z])
    <3>1. IsInjective(Append(queue[s], r))
      BY <1>1, <2>5, InjectiveAppend DEF Custody
    <3> QED
      BY <1>1, <2>1, <2>3, <3>1 DEF Custody, TypeOK
  <2>7. \A z \in Shards : Range(queue'[z]) \cap Range(batch'[z]) = {}
    BY <1>1, <2>2, <2>3, <2>5 DEF Custody, Accounted
  <2>8. Accounted'
    <3> HIDE DEF s
    <3>1. \A x \in Requests :
            pc'[x] = "done" => x \in Held(Shard(x))' \cup Stored' \cup lost'
      BY <1>1, <1>3, <1>4, <2>1, <2>4, BodyType DEF Custody, Accounted, s
    <3>2. \A z \in Shards : \A x \in Held(z)' :
            Shard(x)' = z /\ pc'[x] = "done" /\ x \notin Stored' \cup lost'
      BY <1>1, <1>2, <1>3, <1>4, <1>5, <2>1, <2>4 DEF Custody, Accounted, s
    <3> QED
      BY <1>3, <2>1, <2>7, <3>1, <3>2 DEF Custody, Accounted
  <2> QED
    BY <1>3, <1>4, <1>5, <2>1, <2>6, <2>8 DEF Custody
<1>7. CASE ~(Len(queue[s]) < ShardCap)
  <2>1. queue' = queue /\ lost' = lost \cup {r}
    BY <1>7 DEF Push
  <2>2. \A z \in Shards : Held(z)' = Held(z)
    BY <1>1, <2>1 DEF Held
  <2>3. \A x \in Requests :
          pc'[x] = "done" => x \in Held(Shard(x))' \cup Stored' \cup lost'
    <3> HIDE DEF s
    <3> QED
      BY <1>3, <1>4, <2>1, <2>2, BodyType DEF Custody, Accounted
  <2>4. \A z \in Shards : \A x \in Held(z)' :
          Shard(x)' = z /\ pc'[x] = "done" /\ x \notin Stored' \cup lost'
    BY <1>2, <1>3, <1>4, <1>5, <2>1, <2>2 DEF Custody, Accounted
  <2>5. Accounted'
    BY <1>1, <1>2, <1>3, <2>1, <2>3, <2>4 DEF Custody, Accounted
  <2> QED
    BY <1>1, <1>3, <1>4, <1>5, <2>1, <2>5 DEF Custody
<1> QED
  BY <1>6, <1>7

\* The worker takes the head of its channel into its batch.
LEMMA CustodyTake ==
  ASSUME TypeOK, Custody, NEW s \in Shards, queue[s] # <<>>,
         batch' = [batch EXCEPT ![s] = Append(@, Head(queue[s]))],
         queue' = [queue EXCEPT ![s] = Tail(@)],
         UNCHANGED <<pc, body, website_event, lost>>
  PROVE  Custody'
<1>1. /\ queue[s] \in Seq(Requests) /\ batch[s] \in Seq(Requests)
      /\ Head(queue[s]) \in Requests
  BY RangeHeadTail DEF TypeOK
<1>2. Range(queue[s]) = {Head(queue[s])} \cup Range(Tail(queue[s]))
  BY <1>1, RangeHeadTail
<1>3. IsInjective(Tail(queue[s])) /\ Head(queue[s]) \notin Range(Tail(queue[s]))
  BY <1>1, InjectiveTail DEF Custody
<1>4. /\ queue'[s] = Tail(queue[s]) /\ batch'[s] = Append(batch[s], Head(queue[s]))
      /\ \A z \in Shards \ {s} : queue'[z] = queue[z] /\ batch'[z] = batch[z]
  BY DEF TypeOK
<1>5. Range(batch'[s]) = Range(batch[s]) \cup {Head(queue[s])}
  BY <1>1, <1>4, RangeAppend
<1>6. \A z \in Shards : Held(z)' = Held(z)
  BY <1>2, <1>4, <1>5 DEF Held
<1>7. \A z \in Shards : Range(queue'[z]) \cap Range(batch'[z]) = {}
  <2> TAKE z \in Shards
  <2>1. Range(queue[z]) \cap Range(batch[z]) = {}
    BY DEF Custody, Accounted
  <2>2. CASE z = s
    BY <1>2, <1>3, <1>4, <1>5, <2>1, <2>2
  <2>3. CASE z # s
    BY <1>4, <2>1, <2>3
  <2> QED
    BY <2>2, <2>3
<1>8. \A z \in Shards : IsInjective(queue'[z])
  BY <1>3, <1>4 DEF Custody
<1>9. Stored' = Stored /\ \A x \in Requests : Shard(x)' = Shard(x)
  BY DEF Stored, Shard
<1>10. Accounted'
  BY <1>6, <1>7, <1>9, AccountedFrame DEF Custody
<1> QED
  BY <1>8, <1>9, <1>10 DEF Custody

\* The batch of a worker is stored or lost as a whole.
LEMMA CustodySettle ==
  ASSUME TypeOK, Custody, NEW s \in Shards,
         batch' = [batch EXCEPT ![s] = <<>>], UNCHANGED <<pc, body, queue>>,
         \/ Stored' = Stored \cup Range(batch[s]) /\ lost' = lost
         \/ Stored' = Stored /\ lost' = lost \cup Range(batch[s])
  PROVE  Custody'
<1>1. /\ \A z \in Shards \ {s} : batch'[z] = batch[z]
      /\ Range(batch'[s]) = {}
  BY RangeEmpty DEF TypeOK
<1>2. /\ Range(batch[s]) \subseteq Requests /\ Stored \subseteq Requests
      /\ \A z \in Shards : Held(z) \subseteq Requests
  BY HeldType DEF Held
<1>3. \A r \in Range(batch[s]) :
        Shard(r) = s /\ pc[r] = "done" /\ r \notin Stored \cup lost
  BY DEF Custody, Accounted, Held
<1>4. \A z \in Shards \ {s} : Held(z)' = Held(z)
  BY <1>1 DEF Held
<1>5. Held(s)' = Range(queue[s]) /\ Held(s) = Range(queue[s]) \cup Range(batch[s])
  BY <1>1 DEF Held
<1>6. Range(queue[s]) \cap Range(batch[s]) = {}
  BY DEF Custody, Accounted
<1>7. \A x \in Requests : Shard(x)' = Shard(x) /\ Shard(x) \in Shards
  BY BodyType DEF Shard
<1>8. Stored' \cup lost' = Stored \cup lost \cup Range(batch[s])
  OBVIOUS
<1>9. \A x \in Requests :
        pc'[x] = "done" => x \in Held(Shard(x))' \cup Stored' \cup lost'
  BY <1>4, <1>5, <1>7, <1>8 DEF Custody, Accounted
<1>10. \A z \in Shards : \A x \in Held(z)' :
         Shard(x)' = z /\ pc'[x] = "done" /\ x \notin Stored' \cup lost'
  <2> TAKE z \in Shards
  <2>1. CASE z = s
    BY <1>2, <1>5, <1>6, <1>7, <1>8, <2>1 DEF Custody, Accounted
  <2>2. CASE z # s
    BY <1>2, <1>3, <1>4, <1>7, <1>8, <2>2 DEF Custody, Accounted
  <2> QED
    BY <2>1, <2>2
<1>11. /\ \A z \in Shards : Range(queue'[z]) \cap Range(batch'[z]) = {}
       /\ Stored' \cap lost' = {}
  BY <1>1, <1>3 DEF Custody, Accounted
<1>12. Accounted'
  BY <1>9, <1>10, <1>11 DEF Accounted
<1> QED
  BY <1>3, <1>12 DEF Custody

LEMMA CustodyRestart ==
  ASSUME TypeOK, Custody, Restart
  PROVE  Custody'
<1>1. /\ lost' = lost \cup InFlight /\ UNCHANGED <<website_event, body>>
      /\ \A s \in Shards : queue'[s] = <<>> /\ batch'[s] = <<>>
      /\ \A r \in Requests :
           pc'[r] = IF pc[r] \in {"idle", "done", "rejected"} THEN pc[r] ELSE "gone"
  BY DEF Restart, db
<1>2. /\ \A s \in Shards : Held(s)' = {}
      /\ Stored' = Stored /\ \A r \in Requests : Shard(r)' = Shard(r)
  BY <1>1, RangeEmpty DEF Held, Stored, Shard
<1>3. \A r \in Requests :
        r \in InFlight <=> pc[r] = "push" \/ \E s \in Shards : r \in Held(s)
  BY DEF InFlight, Held
<1>4. /\ Stored \subseteq Requests /\ lost \subseteq Requests
      /\ InFlight \subseteq Requests
  BY RangeType DEF TypeOK, Stored, InFlight
<1>5. \A s \in Shards : IsInjective(queue'[s])
  BY <1>1 DEF IsInjective
<1>6. \A r \in Requests :
        pc'[r] = "done" => r \in Held(Shard(r))' \cup Stored' \cup lost'
  BY <1>1, <1>2, <1>3, BodyType DEF Custody, Accounted
<1>7. \A r \in InFlight : pc[r] \in {"push", "done"}
  BY <1>3, <1>4 DEF Custody, Accounted
<1>8. \A r \in InFlight : r \notin Stored
  BY <1>3, <1>4 DEF Custody, Accounted
<1>9. Accounted'
  <2>1. Stored' \cap lost' = {}
    BY <1>1, <1>2, <1>8 DEF Custody, Accounted
  <2> QED
    BY <1>1, <1>2, <1>6, <2>1, RangeEmpty DEF Accounted
<1>10. (\A r \in lost : pc[r] \in {"done", "gone"})'
  BY <1>1, <1>4, <1>7 DEF Custody
<1>11. (\A r \in Stored : pc[r] = "done")'
  BY <1>1, <1>2, <1>4 DEF Custody
<1> QED
  BY <1>5, <1>9, <1>10, <1>11 DEF Custody

\* The batch of a worker that has gone through it, when nothing was refused.
LEMMA CommittedBatch ==
  ASSUME TypeOK, Written, NEW s \in Shards, ~tx[s].aborted,
         tx[s].next > Len(batch[s])
  PROVE  tx[s].event = batch[s]
<1>1. batch[s] \in Seq(Requests) /\ tx[s].next \in Nat
  BY DEF TypeOK, Transactions
<1>2. tx[s].next - 1 = Len(batch[s])
  BY <1>1 DEF Written
<1> QED
  BY <1>1, <1>2, SubSeqFull DEF Written

LEMMA CustodyStep ==
  TypeOK /\ WorkerShape /\ Written /\ Custody /\ [Next]_vars => Custody'
<1> SUFFICES ASSUME TypeOK, WorkerShape, Written, Custody, [Next]_vars
             PROVE  Custody'
  OBVIOUS
<1> USE DEF db, caches, handler, worker, history
<1>1. CASE UNCHANGED <<queue, batch, website_event, lost, body, pc>>
  BY <1>1, CustodyFrame
<1>2. ASSUME NEW r \in Requests, HandlerStep(r)
      PROVE  Custody'
  <2>1. CASE ~Push(r)
    <3>1. /\ pc[r] \in {"idle", "lookup", "fill", "session", "mark"}
          /\ UNCHANGED <<queue, batch, website_event, lost, body>>
      BY <1>2, <2>1 DEF HandlerStep, Refuse, CheckSite, LookupSite, FillSite,
                        ReadSession, MarkSession
    <3>2. \E l \in {"rejected", "lookup", "fill", "session", "mark", "push"} :
            pc' = [pc EXCEPT ![r] = l]
      BY <1>2, <2>1 DEF HandlerStep, Refuse, CheckSite, LookupSite, FillSite,
                        ReadSession, MarkSession, Admit, Reject, GoTo
    <3>3. \A x \in Requests :
            \/ pc'[x] = pc[x]
            \/ pc[x] \notin {"done", "gone"} /\ pc'[x] \notin {"done", "gone"}
      BY <3>1, <3>2 DEF TypeOK
    <3> QED
      BY <3>1, <3>3, CustodyFrame
  <2> QED
    BY <2>1, CustodyPush
<1>3. ASSUME NEW s \in Shards, WorkerStep(s)
      PROVE  Custody'
  <2>1. CASE WorkerRecv(s) \/ WorkerDrain(s)
    BY <2>1, CustodyTake DEF WorkerRecv, WorkerDrain
  <2>2. CASE WorkerDrained(s) \/ WorkerInsert(s)
    BY <1>1, <2>2 DEF WorkerDrained, WorkerInsert
  <2>3. CASE WorkerBegin(s)
    <3>1. CASE UNCHANGED <<batch, tx, lost>>
      BY <1>1, <2>3, <3>1 DEF WorkerBegin
    <3>2. CASE FinishBatch(s) /\ lost' = lost \cup Range(batch[s])
      BY <2>3, <3>2, CustodySettle DEF WorkerBegin, FinishBatch, Stored
    <3> QED
      BY <2>3, <3>1, <3>2 DEF WorkerBegin
  <2>4. CASE WorkerCommit(s)
    <3>1. batch' = [batch EXCEPT ![s] = <<>>] /\ UNCHANGED <<pc, body, queue>>
      BY <2>4 DEF WorkerCommit, FinishBatch
    <3>2. CASE ~tx[s].aborted /\ website_event' = website_event \o tx[s].event
               /\ lost' = lost
      <4>1. tx[s].event = batch[s]
        BY <2>4, <3>2, CommittedBatch DEF WorkerCommit
      <4>2. Stored' = Stored \cup Range(batch[s])
        BY <3>2, <4>1, RangeConcat DEF Stored, TypeOK
      <4> QED
        BY <3>1, <3>2, <4>2, CustodySettle
    <3>3. CASE lost' = lost \cup Range(batch[s]) /\ UNCHANGED rows
      <4>1. Stored' = Stored
        BY <3>3 DEF Stored, rows
      <4> QED
        BY <3>1, <3>3, <4>1, CustodySettle
    <3> QED
      BY <2>4, <3>2, <3>3 DEF WorkerCommit
  <2> QED
    BY <1>3, <2>1, <2>2, <2>3, <2>4 DEF WorkerStep
<1>4. ASSUME NEW w \in Sites, AdminStep(w) \/ EvictWebsite(w)
      PROVE  Custody'
  <2>1. UNCHANGED <<queue, batch, website_event, lost, body, pc>>
    BY <1>4 DEF AdminStep, CreateWebsite, DeleteWebsite, EvictWebsite, rows
  <2> QED
    BY <1>1, <2>1
<1>5. ASSUME NEW x \in Sessions, EvictSession(x)
      PROVE  Custody'
  BY <1>1, <1>5 DEF EvictSession
<1>6. CASE UNCHANGED vars
  BY <1>1, <1>6 DEF vars
<1> QED
  BY <1>2, <1>3, <1>4, <1>5, <1>6, CustodyRestart DEF Next

\* An answered request is in one place only: in its shard, stored or lost.  No
\* path of the worker forgets an item or writes one twice (queue.rs:69-316).
THEOREM EveryRequestAccounted == Spec => []Accounted
<1>1. /\ TypeOK /\ WorkerShape /\ Written /\ Custody /\ [Next]_vars
         => TypeOK' /\ WorkerShape' /\ Written' /\ Custody'
  BY TypeStep, ShapeStep, WrittenStep, CustodyStep
<1>2. Init => TypeOK /\ WorkerShape /\ Written /\ Custody
  BY TypeInit, ShapeInit, WrittenInit, CustodyInit
<1>3. Custody => Accounted
  BY DEF Custody
<1> QED
  BY <1>1, <1>2, <1>3, PTL DEF Spec

-----------------------------------------------------------------------------
(* Sessions that are claimed to exist *)

Explained(x) == x \in session \/ CreatorInFlight(x) \/ CreatorLost(x)

\* An item that is not known writes the session row of its event, in the same
\* transaction: wherever the event is, the row is.
Creates ==
  /\ \A r \in Requests : pc[r] = "mark" => ~known[r]
  /\ \A s \in Shards : ~tx[s].aborted =>
       \A r \in Range(tx[s].event) :
         ~known[r] => body[r].session \in session \cup tx[s].session
  /\ \A r \in Stored : ~known[r] => body[r].session \in session

\* What Custody, Written and Creates say of one request.
LEMMA HeldDone ==
  ASSUME TypeOK, Custody, NEW r \in Requests, r \in InFlight
  PROVE  pc[r] \in {"push", "done"} /\ r \notin Stored
  BY DEF Custody, Accounted, Held, InFlight

LEMMA TransactionDone ==
  ASSUME TypeOK, Written, Custody, NEW s \in Shards, ~tx[s].aborted
  PROVE  \A r \in Range(tx[s].event) : r \in Requests /\ pc[r] = "done"
<1>1. /\ batch[s] \in Seq(Requests) /\ tx[s].next \in Nat \ {0}
      /\ tx[s].event = SubSeq(batch[s], 1, tx[s].next - 1)
      /\ tx[s].next - 1 <= Len(batch[s])
  BY DEF TypeOK, Transactions, Written
<1>2. ASSUME NEW r \in Range(tx[s].event)
      PROVE  r \in Range(batch[s])
  <2> DEFINE n == tx[s].next - 1
  <2>1. n \in 0..Len(batch[s])
    BY <1>1
  <2>2. /\ Len(SubSeq(batch[s], 1, n)) = n
        /\ \A i \in 1..n : SubSeq(batch[s], 1, n)[i] = batch[s][i]
    BY <1>1, <2>1
  <2>3. DOMAIN SubSeq(batch[s], 1, n) = 1..n
    BY <1>1, <2>1, <2>2
  <2>4. PICK i \in 1..n : r = batch[s][i]
    BY <1>1, <1>2, <2>2, <2>3 DEF Range
  <2>5. i \in DOMAIN batch[s]
    BY <1>1, <2>1
  <2> QED
    BY <2>4, <2>5 DEF Range
<1> QED
  BY <1>1, <1>2, RangeType DEF Custody, Accounted, Held

LEMMA CreatesInit == Init => Creates
<1> SUFFICES ASSUME Init PROVE Creates
  OBVIOUS
<1>1. /\ Stored = {} /\ \A s \in Shards : Range(tx[s].event) = {}
  BY RangeEmpty DEF Init, Stored, NoTransaction
<1> QED
  BY <1>1 DEF Init, Creates

\* A request keeps its claim from the moment it is queued, and the table keeps
\* its rows, so only a step of the worker can disturb Creates.
LEMMA CreatesFrame ==
  ASSUME TypeOK, Written, Custody, Creates, UNCHANGED <<body, website_event, tx>>,
         session \subseteq session',
         \A r \in Requests :
           /\ pc[r] = "done" => known'[r] = known[r]
           /\ pc'[r] = "mark" => ~known'[r]
  PROVE  Creates'
<1>1. Stored' = Stored /\ \A r \in Stored : r \in Requests /\ pc[r] = "done"
  BY RangeType DEF TypeOK, Stored, Custody
<1>2. ASSUME NEW s \in Shards, ~tx[s].aborted, NEW r \in Range(tx[s].event), ~known'[r]
      PROVE  body[r].session \in session' \cup tx[s].session
  <2>1. r \in Requests /\ pc[r] = "done"
    BY <1>2, TransactionDone
  <2>2. ~known[r]
    BY <1>2, <2>1
  <2> QED
    BY <1>2, <2>2 DEF Creates
<1>3. \A r \in Stored' : ~known'[r] => body'[r].session \in session'
  BY <1>1 DEF Creates
<1> QED
  BY <1>2, <1>3 DEF Creates

LEMMA CreatesWorker ==
  ASSUME TypeOK, Written, Custody, Creates, NEW s \in Shards, WorkerStep(s)
  PROVE  Creates'
<1> USE DEF handler, worker, db, rows, caches
<1>0. UNCHANGED <<body, known, pc>>
  BY DEF WorkerStep, WorkerRecv, WorkerDrain, WorkerDrained, WorkerBegin,
         WorkerInsert, WorkerCommit
<1>1. CASE UNCHANGED <<tx, website_event, session>>
  BY <1>0, <1>1, CreatesFrame DEF Creates
<1>2. CASE UNCHANGED <<website_event, session>> /\ FinishBatch(s)
  <2>1. \A z \in Shards : tx'[z] = tx[z] \/ tx'[z] = NoTransaction
    BY <1>2 DEF FinishBatch, TypeOK
  <2>2. Range(NoTransaction.event) = {}
    BY RangeEmpty DEF NoTransaction
  <2>3. Stored' = Stored
    BY <1>2 DEF Stored
  <2> QED
    BY <1>0, <1>2, <2>1, <2>2, <2>3 DEF Creates
<1>3. CASE WorkerInsert(s)
  <2> DEFINE r == batch[s][tx[s].next]
  <2>1. tx[s] \in Transactions /\ tx[s].next \in 1..Len(batch[s])
    BY <1>3 DEF TypeOK, WorkerInsert, Transactions
  <2>2. r \in Requests
    BY <2>1, ElementOfSeq DEF TypeOK
  <2>3. UNCHANGED <<session, website_event>> /\ Stored' = Stored
    BY <1>3 DEF WorkerInsert, Stored
  <2>4. \A z \in Shards \ {s} : tx'[z] = tx[z]
    BY <1>3 DEF WorkerInsert, TypeOK
  <2>5. \/ ~tx[s].aborted /\ tx'[s] = WriteItem(tx[s], r)
        \/ tx'[s] = AbortItem(tx[s])
    BY <1>3 DEF WorkerInsert, TypeOK
  <2>6. ASSUME ~tx'[s].aborted, NEW x \in Range(tx'[s].event), ~known[x]
        PROVE  body[x].session \in session \cup tx'[s].session
    <3>1. AbortItem(tx[s]).aborted
      BY DEF AbortItem
    <3>2. ~tx[s].aborted /\ tx'[s] = WriteItem(tx[s], r)
      BY <2>5, <2>6, <3>1
    <3>3. /\ tx'[s].event = Append(tx[s].event, r)
          /\ tx'[s].session =
               tx[s].session \cup (IF known[r] THEN {} ELSE {body[r].session} \ session)
      BY <3>2, WriteItemAdds
    <3>4. Range(tx'[s].event) = Range(tx[s].event) \cup {r}
      BY <2>1, <2>2, <3>3, RangeAppend DEF Transactions
    <3>5. CASE x \in Range(tx[s].event)
      BY <2>6, <3>2, <3>3, <3>5 DEF Creates
    <3>6. CASE x = r
      BY <2>6, <3>3, <3>6
    <3> HIDE DEF r
    <3> QED
      BY <2>6, <3>4, <3>5, <3>6
  <2> HIDE DEF r
  <2> QED
    BY <1>0, <2>3, <2>4, <2>6 DEF Creates
<1>4. CASE WorkerCommit(s)
  <2>1. FinishBatch(s)
    BY <1>4 DEF WorkerCommit
  <2>2. CASE /\ ~tx[s].aborted /\ session' = session \cup tx[s].session
             /\ website_event' = website_event \o tx[s].event
    <3>1. Stored' = Stored \cup Range(tx[s].event)
      BY <2>2, RangeConcat DEF Stored, TypeOK, Transactions
    <3>2. \A z \in Shards : tx'[z] = tx[z] \/ tx'[z] = NoTransaction
      BY <2>1 DEF FinishBatch, TypeOK
    <3>3. Range(NoTransaction.event) = {}
      BY RangeEmpty DEF NoTransaction
    <3> QED
      BY <1>0, <2>2, <3>1, <3>2, <3>3 DEF Creates
  <2> QED
    BY <1>2, <1>4, <2>1, <2>2 DEF WorkerCommit
<1> QED
  BY <1>1, <1>2, <1>3, <1>4 DEF WorkerStep, WorkerRecv, WorkerDrain,
     WorkerDrained, WorkerBegin

\* What a handler does before it queues its item.
LEMMA HandlerEffect ==
  ASSUME TypeOK, Creates, NEW r \in Requests, HandlerStep(r)
  PROVE  /\ UNCHANGED <<body, website_event, session, tx>>
         /\ pc[r] \notin {"done", "gone"}
         /\ \A x \in Requests :
              /\ x # r => pc'[x] = pc[x] /\ known'[x] = known[x]
              /\ pc[x] = "done" => known'[x] = known[x]
              /\ pc'[x] = "mark" => ~known'[x]
<1> USE DEF db, rows, caches, handler, worker, GoTo, Admit, Reject, TypeOK, Creates
<1>1. CASE Refuse(r)
  BY <1>1 DEF Refuse
<1>2. CASE CheckSite(r)
  BY <1>2 DEF CheckSite
<1>3. CASE LookupSite(r)
  BY <1>3 DEF LookupSite
<1>4. CASE FillSite(r)
  BY <1>4 DEF FillSite
<1>5. CASE ReadSession(r)
  BY <1>5 DEF ReadSession
<1>6. CASE MarkSession(r)
  BY <1>6 DEF MarkSession
<1>7. CASE Push(r)
  BY <1>7 DEF Push
<1> QED
  BY <1>1, <1>2, <1>3, <1>4, <1>5, <1>6, <1>7 DEF HandlerStep

LEMMA CreatesStep ==
  TypeOK /\ Written /\ Custody /\ Creates /\ [Next]_vars => Creates'
<1> SUFFICES ASSUME TypeOK, Written, Custody, Creates, [Next]_vars
             PROVE  Creates'
  OBVIOUS
<1> USE DEF db, rows, caches, handler, worker
<1>1. CASE UNCHANGED <<body, website_event, session, tx, pc, known>>
  BY <1>1, CreatesFrame DEF Creates
<1>2. ASSUME NEW r \in Requests, HandlerStep(r)
      PROVE  Creates'
  BY <1>2, HandlerEffect, CreatesFrame
<1>3. ASSUME NEW w \in Sites, AdminStep(w) \/ EvictWebsite(w)
      PROVE  UNCHANGED <<body, website_event, session, tx, pc, known>>
  BY <1>3 DEF AdminStep, CreateWebsite, DeleteWebsite, EvictWebsite
<1>4. ASSUME NEW x \in Sessions, EvictSession(x)
      PROVE  UNCHANGED <<body, website_event, session, tx, pc, known>>
  BY <1>4 DEF EvictSession
<1>5. CASE Restart
  <2>1. /\ UNCHANGED <<body, website_event, session, known>>
        /\ \A s \in Shards : tx'[s] = NoTransaction
        /\ \A r \in Requests : pc'[r] # "mark"
    BY <1>5 DEF Restart
  <2>2. Range(NoTransaction.event) = {} /\ Stored' = Stored
    BY <2>1, RangeEmpty DEF NoTransaction, Stored
  <2> QED
    BY <2>1, <2>2 DEF Creates
<1>6. CASE UNCHANGED vars
  BY <1>1, <1>6 DEF vars
<1> QED
  BY <1>1, <1>2, <1>3, <1>4, <1>5, <1>6, CreatesWorker DEF Next

\* A session stays explained as long as its creator is neither forgotten nor
\* stored without its row.
LEMMA ExplainedKept ==
  ASSUME TypeOK, body' = body, session \subseteq session',
         \A r \in InFlight \cup lost : ~known[r] =>
           \/ r \in InFlight' \cup lost' /\ ~known'[r]
           \/ body[r].session \in session',
         NEW x \in Sessions, Explained(x)
  PROVE  Explained(x)'
  BY DEF Explained, CreatorInFlight, CreatorLost

LEMMA ExplainedHandler ==
  ASSUME TypeOK, Custody, Creates, NEW r \in Requests, HandlerStep(r),
         NEW x \in Sessions, Explained(x)
  PROVE  Explained(x)'
<1> USE DEF caches, worker
<1>1. /\ UNCHANGED <<body, session>>
      /\ \A q \in Requests : q # r => pc'[q] = pc[q] /\ known'[q] = known[q]
      /\ pc[r] \notin {"done", "gone"}
  BY HandlerEffect
<1>2. r \notin lost
  BY <1>1 DEF Custody
<1>3. InFlight \subseteq Requests /\ lost \subseteq Requests
  BY RangeType DEF InFlight, TypeOK
<1>4. CASE Push(r)
  <2>1. /\ \A q \in Requests : q # r => pc'[q] = pc[q]
        /\ UNCHANGED <<known, batch>>
    BY <1>1, <1>4 DEF Push
  <2>2. Shard(r) \in Shards /\ queue[Shard(r)] \in Seq(Requests)
    BY BodyType DEF TypeOK
  <2>3. CASE /\ queue' = [queue EXCEPT ![Shard(r)] = Append(@, r)] /\ lost' = lost
    <3>1. Range(queue'[Shard(r)]) = Range(queue[Shard(r)]) \cup {r}
      BY <2>2, <2>3, RangeAppend DEF TypeOK
    <3>2. \A s \in Shards : Range(queue[s]) \subseteq Range(queue'[s])
      BY <2>3, <3>1 DEF TypeOK
    <3>3. InFlight \subseteq InFlight'
      <4>1. r \in InFlight'
        BY <2>2, <3>1 DEF InFlight
      <4>2. \A q \in InFlight : q # r => q \in InFlight'
        BY <1>3, <2>1, <3>2 DEF InFlight
      <4> QED
        BY <4>1, <4>2
    <3> QED
      BY <1>1, <2>1, <2>3, <3>3, ExplainedKept
  <2>4. CASE queue' = queue /\ lost' = lost \cup {r}
    <3>1. \A q \in InFlight : q # r => q \in InFlight'
      BY <1>3, <2>1, <2>4 DEF InFlight
    <3> QED
      BY <1>1, <2>1, <2>4, <3>1, ExplainedKept
  <2> QED
    BY <1>4, <2>3, <2>4 DEF Push
<1>5. CASE ~Push(r)
  <2>1. UNCHANGED <<queue, batch, lost>> /\ pc[r] # "push"
    BY <1>5 DEF HandlerStep, Refuse, CheckSite, LookupSite, FillSite, ReadSession,
                MarkSession, history
  <2>2. r \notin InFlight
    BY <1>1, <2>1, HeldDone
  <2>3. InFlight \subseteq InFlight'
    BY <1>1, <1>3, <2>1, <2>2 DEF InFlight
  <2> QED
    BY <1>1, <1>2, <1>3, <2>1, <2>2, <2>3, ExplainedKept
<1> QED
  BY <1>4, <1>5

LEMMA ExplainedWorker ==
  ASSUME TypeOK, Written, Custody, Creates, NEW s \in Shards, WorkerStep(s),
         NEW x \in Sessions, Explained(x)
  PROVE  Explained(x)'
<1> USE DEF handler, worker, db, rows, caches, history
<1>0. UNCHANGED <<body, known, pc>>
  BY DEF WorkerStep, WorkerRecv, WorkerDrain, WorkerDrained, WorkerBegin,
         WorkerInsert, WorkerCommit
<1>1. CASE UNCHANGED <<queue, batch, lost, session>>
  BY <1>0, <1>1, ExplainedKept DEF InFlight
<1>2. CASE /\ queue[s] # <<>> /\ UNCHANGED <<lost, session>>
           /\ batch' = [batch EXCEPT ![s] = Append(@, Head(queue[s]))]
           /\ queue' = [queue EXCEPT ![s] = Tail(@)]
  <2>1. /\ Range(queue[s]) = {Head(queue[s])} \cup Range(Tail(queue[s]))
        /\ Head(queue[s]) \in Requests
    BY <1>2, RangeHeadTail DEF TypeOK
  <2>2. Range(batch'[s]) = Range(batch[s]) \cup {Head(queue[s])}
    BY <1>2, <2>1, RangeAppend DEF TypeOK
  <2>3. \A z \in Shards : Range(queue[z]) \cup Range(batch[z])
                            \subseteq Range(queue'[z]) \cup Range(batch'[z])
    BY <1>2, <2>1, <2>2 DEF TypeOK
  <2>4. InFlight \subseteq InFlight'
    BY <1>0, <2>3 DEF InFlight
  <2> QED
    BY <1>0, <1>2, <2>4, ExplainedKept
<1>3. CASE /\ FinishBatch(s) /\ queue' = queue /\ session \subseteq session'
           /\ lost \subseteq lost'
           /\ \A r \in Range(batch[s]) : ~known[r] =>
                r \in lost' \/ body[r].session \in session'
  <2>1. \A z \in Shards \ {s} : batch'[z] = batch[z]
    BY <1>3 DEF FinishBatch, TypeOK
  <2>2. \A r \in InFlight : r \in InFlight' \/ r \in Range(batch[s])
    BY <1>0, <1>3, <2>1 DEF InFlight
  <2> QED
    BY <1>0, <1>3, <2>2, ExplainedKept
<1>4. CASE WorkerBegin(s)
  BY <1>1, <1>3, <1>4 DEF WorkerBegin
<1>5. CASE WorkerCommit(s)
  <2>1. FinishBatch(s) /\ queue' = queue
    BY <1>5 DEF WorkerCommit
  <2>2. CASE ~tx[s].aborted /\ session' = session \cup tx[s].session /\ lost' = lost
    <3>1. tx[s].event = batch[s]
      BY <1>5, <2>2, CommittedBatch DEF WorkerCommit
    <3> QED
      BY <1>3, <2>1, <2>2, <3>1 DEF Creates
  <2>3. CASE lost' = lost \cup Range(batch[s]) /\ session' = session
    BY <1>3, <2>1, <2>3
  <2> QED
    BY <1>5, <2>2, <2>3 DEF WorkerCommit
<1> QED
  BY <1>1, <1>2, <1>4, <1>5 DEF WorkerStep, WorkerRecv, WorkerDrain,
     WorkerDrained, WorkerInsert

\* A claim is only made for a session that is in the cache already or whose
\* creator is about to be queued.
LEMMA ClaimHandler ==
  ASSUME TypeOK, Creates, NEW r \in Requests, HandlerStep(r),
         NEW x \in Sessions, Claimed(x)', ~Claimed(x)
  PROVE  Explained(x)'
<1> USE DEF db, rows, caches, handler, worker
<1>1. UNCHANGED body /\ \A q \in Requests : q # r => pc'[q] = pc[q] /\ known'[q] = known[q]
  BY HandlerEffect
<1>2. CASE MarkSession(r)
  <2>1. /\ session_cache' = session_cache \cup {body[r].session}
        /\ pc'[r] = "push" /\ known' = known /\ ~known[r]
    BY <1>2 DEF MarkSession, GoTo, TypeOK, Creates
  <2>2. x = body[r].session
    BY <1>1, <2>1 DEF Claimed
  <2>3. r \in InFlight'
    BY <2>1 DEF InFlight
  <2> QED
    BY <1>1, <2>1, <2>2, <2>3 DEF Explained, CreatorInFlight
<1>3. CASE ~MarkSession(r)
  <2>1. session_cache' = session_cache
    BY <1>3 DEF HandlerStep, Refuse, CheckSite, LookupSite, FillSite, ReadSession, Push
  <2>2. PICK q \in Requests :
          /\ body[q].kind = "send" /\ body[q].session = x
          /\ known'[q] /\ pc'[q] \in {"push", "done"}
    BY <1>1, <2>1 DEF Claimed
  <2>3. q = r
    BY <1>1, <2>2 DEF Claimed
  <2>4. CASE ReadSession(r)
    BY <2>1, <2>2, <2>3, <2>4 DEF ReadSession, TypeOK, Claimed
  <2>5. CASE Push(r)
    BY <2>2, <2>3, <2>5 DEF Push, TypeOK, Claimed
  <2>6. CASE Refuse(r) \/ CheckSite(r) \/ LookupSite(r) \/ FillSite(r)
    <3>1. pc'[r] \notin {"push", "done"}
      BY <2>2, <2>3, <2>6 DEF Refuse, CheckSite, LookupSite, FillSite, Admit,
                              Reject, GoTo, TypeOK
    <3> QED
      BY <2>2, <2>3, <3>1
  <2> QED
    BY <1>3, <2>4, <2>5, <2>6 DEF HandlerStep
<1> QED
  BY <1>2, <1>3

LEMMA ClaimStep ==
  TypeOK /\ Written /\ Custody /\ Creates /\ ClaimExplained /\ [Next]_vars
    => ClaimExplained'
<1> SUFFICES ASSUME TypeOK, Written, Custody, Creates, ClaimExplained, [Next]_vars,
                    NEW x \in Sessions, Claimed(x)'
             PROVE  Explained(x)'
  BY DEF ClaimExplained, Explained
<1> USE DEF db, rows, caches, handler, worker, history
<1>1. Claimed(x) => Explained(x)
  BY DEF ClaimExplained, Explained
<1>2. ASSUME NEW r \in Requests, HandlerStep(r)
      PROVE  Explained(x)'
  BY <1>1, <1>2, ClaimHandler, ExplainedHandler
<1>3. ASSUME NEW s \in Shards, WorkerStep(s)
      PROVE  Explained(x)'
  <2>1. UNCHANGED <<session_cache, body, known, pc>>
    BY <1>3 DEF WorkerStep, WorkerRecv, WorkerDrain, WorkerDrained, WorkerBegin,
                WorkerInsert, WorkerCommit
  <2>2. Claimed(x)
    BY <2>1 DEF Claimed
  <2> QED
    BY <1>1, <1>3, <2>2, ExplainedWorker
<1>4. CASE /\ UNCHANGED <<session, queue, batch, body, pc, known, lost>>
           /\ session_cache' \subseteq session_cache
  <2>1. Claimed(x)
    BY <1>4 DEF Claimed
  <2>2. InFlight' = InFlight
    BY <1>4 DEF InFlight
  <2> QED
    BY <1>1, <1>4, <2>1, <2>2, ExplainedKept
<1>5. ASSUME NEW w \in Sites, AdminStep(w) \/ EvictWebsite(w)
      PROVE  Explained(x)'
  <2>1. UNCHANGED <<session, queue, batch, body, pc, known, lost, session_cache>>
    BY <1>5 DEF AdminStep, CreateWebsite, DeleteWebsite, EvictWebsite
  <2> QED
    BY <1>4, <2>1
<1>6. ASSUME NEW y \in Sessions, EvictSession(y)
      PROVE  Explained(x)'
  BY <1>4, <1>6 DEF EvictSession
<1>7. CASE Restart
  <2>1. /\ UNCHANGED <<session, body, known>> /\ lost' = lost \cup InFlight
        /\ session_cache' = {}
        /\ \A r \in Requests : pc'[r] \in {"push", "done"} => pc[r] = "done"
    BY <1>7 DEF Restart, TypeOK
  <2>2. Claimed(x)
    BY <2>1 DEF Claimed
  <2> QED
    BY <1>1, <2>1, <2>2, ExplainedKept
<1>8. CASE UNCHANGED vars
  BY <1>4, <1>8 DEF vars
<1> QED
  BY <1>2, <1>3, <1>5, <1>6, <1>7, <1>8 DEF Next

\* The invariant behind the theorems on sessions.
SessionInv ==
  TypeOK /\ WorkerShape /\ Written /\ Custody /\ Creates /\ ClaimExplained

LEMMA SessionInit == Init => SessionInv
<1> SUFFICES ASSUME Init PROVE ClaimExplained
  BY TypeInit, ShapeInit, WrittenInit, CustodyInit, CreatesInit DEF SessionInv
<1> QED
  BY DEF Init, ClaimExplained, Claimed

LEMMA SessionStep == SessionInv /\ [Next]_vars => SessionInv'
  BY TypeStep, ShapeStep, WrittenStep, CustodyStep, CreatesStep, ClaimStep
  DEF SessionInv

LEMMA SessionAlways == Spec => []SessionInv
  BY SessionInit, SessionStep, PTL DEF Spec

\* The session cache runs ahead of the session table (ingest.rs:193 caches
\* before queue.rs:87 inserts): a session the service takes for written is
\* written, or its creator is on its way, or its creator was lost.
THEOREM ClaimsAreExplained == Spec => []ClaimExplained
<1>1. SessionInv => ClaimExplained
  BY DEF SessionInv
<1> QED
  BY <1>1, SessionAlways, PTL

\* The session row of a stored event is missing only while its creator is on
\* its way or because it was lost: with nothing lost, no lasting orphan.
THEOREM OrphansAreExplained == Spec => []OrphanExplained
<1>1. SessionInv => OrphanExplained
  <2> SUFFICES ASSUME SessionInv, NEW r \in Stored, body[r].kind = "send"
               PROVE  Explained(body[r].session)
    BY DEF OrphanExplained, Explained
  <2>1. r \in Requests /\ pc[r] = "done" /\ body[r].session \in Sessions
    BY RangeType, BodyType DEF SessionInv, TypeOK, Stored, Custody
  <2>2. CASE known[r]
    <3>1. Claimed(body[r].session)
      BY <2>1, <2>2 DEF Claimed
    <3> QED
      BY <2>1, <3>1 DEF SessionInv, ClaimExplained, Explained
  <2>3. CASE ~known[r]
    BY <2>3 DEF SessionInv, Creates, Explained
  <2> QED
    BY <2>2, <2>3
<1> QED
  BY <1>1, SessionAlways, PTL

-----------------------------------------------------------------------------
(* Deleted sites *)

\* A handler's step keeps a deleted site forgotten: only a query answers for a
\* site, and only with what the table says.
LEMMA HandlerForgets ==
  ASSUME TypeOK, NEW w \in Sites, Forgotten(w), NEW r \in Requests, HandlerStep(r)
  PROVE  Forgotten(w)'
<1>1. UNCHANGED <<website, body>>
  BY DEF HandlerStep, Refuse, CheckSite, LookupSite, FillSite, ReadSession,
         MarkSession, Push, db, handler
<1>2. website_cache'[w] # "yes"
  <2>1. CASE FillSite(r)
    <3>1. CASE body[r].site = w
      <4>1. ~found[r]
        BY <2>1, <3>1 DEF FillSite, Forgotten
      <4> QED
        BY <2>1, <3>1, <4>1 DEF FillSite, TypeOK
    <3>2. CASE body[r].site # w
      BY <2>1, <3>2 DEF FillSite, Forgotten, TypeOK
    <3> QED
      BY <3>1, <3>2
  <2>2. CASE ~FillSite(r)
    BY <2>2 DEF HandlerStep, Refuse, CheckSite, LookupSite, ReadSession,
                MarkSession, Push, caches, Forgotten
  <2> QED
    BY <2>1, <2>2
<1>3. ASSUME NEW q \in Requests, pc'[q] = "fill", body[q].site = w
      PROVE  ~found'[q]
  <2>1. CASE LookupSite(r)
    <3>1. CASE q = r
      BY <1>3, <2>1, <3>1 DEF LookupSite, Forgotten, TypeOK
    <3>2. CASE q # r
      BY <1>3, <2>1, <3>2 DEF LookupSite, GoTo, Forgotten, TypeOK
    <3> QED
      BY <3>1, <3>2
  <2>2. CASE ~LookupSite(r)
    <3>1. found' = found
      BY <2>2 DEF HandlerStep, Refuse, CheckSite, FillSite, ReadSession,
                  MarkSession, Push, handler
    <3>2. pc[q] = "fill"
      BY <1>3, <2>2 DEF HandlerStep, Refuse, CheckSite, FillSite, ReadSession,
                        MarkSession, Push, Admit, Reject, GoTo, TypeOK
    <3> QED
      BY <1>3, <3>1, <3>2 DEF Forgotten
  <2> QED
    BY <2>1, <2>2
<1> QED
  BY <1>1, <1>2, <1>3 DEF Forgotten

\* A deleted site that left the cache (ingest.rs:82-95 fills it, websites.rs
\* 329-359 does not clear it) is never said to exist again.
THEOREM ForgottenStays == Spec => NoRevival
<1>1. TypeOK /\ [Next]_vars => [\A w \in Sites : Forgotten(w) => Forgotten(w)']_vars
  <2> SUFFICES ASSUME TypeOK, Next, NEW w \in Sites, Forgotten(w)
               PROVE  Forgotten(w)'
    OBVIOUS
  <2>1. ASSUME NEW r \in Requests, HandlerStep(r)
        PROVE  Forgotten(w)'
    BY <2>1, HandlerForgets
  <2>2. ASSUME NEW s \in Shards, WorkerStep(s)
        PROVE  Forgotten(w)'
    <3>1. UNCHANGED <<website, website_cache, body, pc, found>>
      BY <2>2 DEF WorkerStep, WorkerRecv, WorkerDrain, WorkerDrained, WorkerBegin,
                  WorkerInsert, WorkerCommit, db, caches, handler
    <3> QED
      BY <3>1 DEF Forgotten
  <2>3. ASSUME NEW v \in Sites, AdminStep(v)
        PROVE  Forgotten(w)'
    <3>1. UNCHANGED <<website_cache, body, pc, found>>
      BY <2>3 DEF AdminStep, CreateWebsite, DeleteWebsite, caches, handler
    <3>2. website'[w] = "deleted"
      BY <2>3 DEF AdminStep, CreateWebsite, DeleteWebsite, Forgotten, TypeOK
    <3> QED
      BY <3>1, <3>2 DEF Forgotten
  <2>4. ASSUME NEW v \in Sites, EvictWebsite(v)
        PROVE  Forgotten(w)'
    <3>1. UNCHANGED <<website, body, pc, found>> /\ website_cache'[w] # "yes"
      BY <2>4 DEF EvictWebsite, db, handler, Forgotten, TypeOK
    <3> QED
      BY <3>1 DEF Forgotten
  <2>5. ASSUME NEW x \in Sessions, EvictSession(x)
        PROVE  Forgotten(w)'
    BY <2>5 DEF EvictSession, db, handler, Forgotten
  <2>6. CASE Restart
    <3>1. website' = website /\ website_cache'[w] = "miss"
      BY <2>6 DEF Restart, db
    <3>2. \A r \in Requests : pc'[r] # "fill"
      BY <2>6 DEF Restart
    <3> QED
      BY <3>1, <3>2 DEF Forgotten
  <2> QED
    BY <2>1, <2>2, <2>3, <2>4, <2>5, <2>6 DEF Next
<1> QED
  BY <1>1, TypeCorrect, PTL DEF Spec, NoRevival

-----------------------------------------------------------------------------
(* Lanes: what the worker of a shard has in its batch, then its channel *)

Lane(s) == batch[s] \o queue[s]

\* Two sequences one after the other, and what is left of them.
LEMMA ConcatParts ==
  ASSUME NEW S, NEW p \in Seq(S), NEW q \in Seq(S)
  PROVE  /\ SubSeq(p \o q, 1, Len(p)) = p
         /\ SubSeq(p \o q, Len(p) + 1, Len(p \o q)) = q
         /\ \A i \in 1..Len(p) : (p \o q)[i] = p[i]
         /\ Len(p) \in Nat /\ Len(p \o q) = Len(p) + Len(q)
<1>1. /\ p \o q \in Seq(S) /\ Len(p) \in Nat /\ Len(q) \in Nat
      /\ Len(p \o q) = Len(p) + Len(q)
      /\ \A i \in 1..(Len(p) + Len(q)) :
           (p \o q)[i] = IF i <= Len(p) THEN p[i] ELSE q[i - Len(p)]
  BY ConcatProperties
<1>2. SubSeq(p \o q, 1, Len(p)) = p
  <2> DEFINE u == SubSeq(p \o q, 1, Len(p))
  <2>1. u \in Seq(S) /\ Len(u) = Len(p) /\ \A i \in 1..Len(p) : u[i] = (p \o q)[i]
    <3>1. \A i \in 1..Len(p) : (p \o q)[i] \in S
      BY <1>1, ElementOfSeq
    <3>2. u = [i \in 1..Len(p) |-> (p \o q)[i]]
      BY <1>1 DEF SubSeq
    <3> QED
      BY <1>1, <3>1, <3>2
  <2> HIDE DEF u
  <2>2. \A i \in 1..Len(p) : u[i] = p[i]
    BY <1>1, <2>1
  <2>3. u = p
    BY <2>1, <2>2, SeqEqual
  <2> QED
    BY <2>3 DEF u
<1>3. SubSeq(p \o q, Len(p) + 1, Len(p \o q)) = q
  <2> DEFINE u == SubSeq(p \o q, Len(p) + 1, Len(p \o q))
  <2>1. u = [i \in 1..Len(q) |-> (p \o q)[i + Len(p)]]
    BY <1>1 DEF SubSeq
  <2>2. \A i \in 1..Len(q) : (p \o q)[i + Len(p)] = q[i]
    BY <1>1
  <2>3. u \in Seq(S) /\ Len(u) = Len(q) /\ \A i \in 1..Len(q) : u[i] = q[i]
    <3>1. \A i \in 1..Len(q) : q[i] \in S
      BY ElementOfSeq
    <3> QED
      BY <1>1, <2>1, <2>2, <3>1
  <2> HIDE DEF u
  <2>4. u = q
    BY <2>3, SeqEqual
  <2> QED
    BY <2>4 DEF u
<1> QED
  BY <1>1, <1>2, <1>3

\* An item that moves from the channel to the batch stays in its place.
LEMMA ConcatTake ==
  ASSUME NEW S, NEW p \in Seq(S), NEW q \in Seq(S), q # <<>>
  PROVE  Append(p, Head(q)) \o Tail(q) = p \o q
<1> DEFINE p1 == Append(p, Head(q))
           t == Tail(q)
<1>1. /\ Head(q) \in S /\ t \in Seq(S) /\ Len(t) = Len(q) - 1
      /\ Len(p) \in Nat /\ Len(q) \in Nat \ {0} /\ Head(q) = q[1]
      /\ \A i \in 1..(Len(q) - 1) : t[i] = q[i + 1]
  BY HeadTailProperties
<1>2. p1 \in Seq(S) /\ Len(p1) = Len(p) + 1 /\ p1[Len(p) + 1] = q[1]
      /\ \A i \in 1..Len(p) : p1[i] = p[i]
  BY <1>1
<1> HIDE DEF p1, t
<1>3. /\ p1 \o t \in Seq(S) /\ Len(p1 \o t) = Len(p1) + Len(t)
      /\ \A i \in 1..(Len(p1) + Len(t)) :
           (p1 \o t)[i] = IF i <= Len(p1) THEN p1[i] ELSE t[i - Len(p1)]
  BY <1>1, <1>2, ConcatProperties
<1>4. /\ p \o q \in Seq(S) /\ Len(p \o q) = Len(p) + Len(q)
      /\ \A i \in 1..(Len(p) + Len(q)) :
           (p \o q)[i] = IF i <= Len(p) THEN p[i] ELSE q[i - Len(p)]
  BY ConcatProperties
<1>5. Len(p1) + Len(t) = Len(p) + Len(q)
  BY <1>1, <1>2
<1>6. ASSUME NEW i \in 1..(Len(p) + Len(q))
      PROVE  (p1 \o t)[i] = (p \o q)[i]
  <2>1. CASE i <= Len(p)
    BY <1>1, <1>2, <1>3, <1>4, <1>5, <2>1
  <2>2. CASE i = Len(p) + 1
    <3>1. (p1 \o t)[i] = q[1]
      BY <1>1, <1>2, <1>3, <1>5, <2>2
    <3>2. (p \o q)[i] = q[1]
      BY <1>1, <1>4, <2>2
    <3> QED
      BY <3>1, <3>2
  <2>3. CASE i > Len(p) + 1
    <3> DEFINE j == i - Len(p1)
               k == i - Len(p)
    <3>1. j \in 1..(Len(q) - 1) /\ j + 1 = k
      BY <1>1, <1>2, <2>3
    <3>2. (p1 \o t)[i] = t[j]
      BY <1>1, <1>2, <1>3, <1>5, <2>3
    <3>3. (p \o q)[i] = q[k]
      BY <1>1, <1>4, <2>3
    <3> HIDE DEF j, k
    <3> QED
      BY <1>1, <3>1, <3>2, <3>3
  <2>4. i <= Len(p) \/ i = Len(p) + 1 \/ i > Len(p) + 1
    BY <1>1
  <2> QED
    BY <2>1, <2>2, <2>3, <2>4, Zenon
<1>7. p1 \o t = p \o q
  BY <1>3, <1>4, <1>5, <1>6, SeqEqual
<1> QED
  BY <1>7 DEF p1, t

LEMMA ConcatAppend ==
  ASSUME NEW S, NEW p \in Seq(S), NEW q \in Seq(S), NEW e \in S
  PROVE  p \o Append(q, e) = Append(p \o q, e)
<1>1. <<e>> \in Seq(S) /\ p \o q \in Seq(S)
  BY ConcatProperties
<1> QED
  BY <1>1, AppendIsConcat, ConcatAssociative

LEMMA LaneType ==
  ASSUME TypeOK, NEW s \in Shards
  PROVE  /\ batch[s] \in Seq(Requests) /\ queue[s] \in Seq(Requests)
         /\ Lane(s) \in Seq(Requests) /\ Range(Lane(s)) = Held(s)
  BY ConcatProperties, RangeConcat DEF TypeOK, Lane, Held

\* What a step does to the lanes: nothing, or an item is pushed, or the batch of a
\* worker is stored or lost.
LEMMA LaneSteps ==
  ASSUME TypeOK, WorkerShape, Written, Next
  PROVE  /\ UNCHANGED body
         /\ \/ /\ UNCHANGED <<website_event, lost, pushed>>
               /\ \A s \in Shards : Lane(s)' = Lane(s)
            \/ \E r \in Requests : Push(r)
            \/ \E s \in Shards :
                 /\ batch' = [batch EXCEPT ![s] = <<>>] /\ UNCHANGED <<queue, pushed>>
                 /\ \/ website_event' = website_event \o batch[s] /\ lost' = lost
                    \/ UNCHANGED website_event /\ lost' = lost \cup Range(batch[s])
            \/ Restart
<1> USE DEF db, rows, caches, handler, worker, history
<1>1. UNCHANGED body
  BY DEF Next, HandlerStep, Refuse, CheckSite, LookupSite, FillSite, ReadSession, MarkSession,
         Push, WorkerStep, WorkerRecv, WorkerDrain, WorkerDrained, WorkerBegin, WorkerInsert,
         WorkerCommit, AdminStep, CreateWebsite, DeleteWebsite, EvictWebsite, EvictSession, Restart
<1> DEFINE Still == /\ UNCHANGED <<website_event, lost, pushed>>
                    /\ \A s \in Shards : Lane(s)' = Lane(s)
<1>2. UNCHANGED <<website_event, lost, pushed, queue, batch>> => Still
  BY DEF Lane
<1>3. ASSUME NEW r \in Requests, HandlerStep(r), ~Push(r)
      PROVE  Still
  <2>1. UNCHANGED <<website_event, lost, pushed, queue, batch>>
    BY <1>3 DEF HandlerStep, Refuse, CheckSite, LookupSite, FillSite, ReadSession, MarkSession
  <2> QED
    BY <1>2, <2>1
<1>4. ASSUME NEW w \in Sites, AdminStep(w) \/ EvictWebsite(w)
      PROVE  Still
  <2>1. UNCHANGED <<website_event, lost, pushed, queue, batch>>
    BY <1>4 DEF AdminStep, CreateWebsite, DeleteWebsite, EvictWebsite
  <2> QED
    BY <1>2, <2>1
<1>5. ASSUME NEW x \in Sessions, EvictSession(x)
      PROVE  Still
  <2>1. UNCHANGED <<website_event, lost, pushed, queue, batch>>
    BY <1>5 DEF EvictSession
  <2> QED
    BY <1>2, <2>1
<1>6. ASSUME NEW s \in Shards, WorkerRecv(s) \/ WorkerDrain(s)
      PROVE  Still
  <2>1. /\ queue[s] # <<>> /\ UNCHANGED <<website_event, lost, pushed>>
        /\ batch' = [batch EXCEPT ![s] = Append(@, Head(queue[s]))]
        /\ queue' = [queue EXCEPT ![s] = Tail(@)]
    BY <1>6 DEF WorkerRecv, WorkerDrain
  <2>2. Append(batch[s], Head(queue[s])) \o Tail(queue[s]) = batch[s] \o queue[s]
    BY <2>1, LaneType, ConcatTake
  <2>3. \A z \in Shards : Lane(z)' = Lane(z)
    BY <2>1, <2>2 DEF Lane, TypeOK
  <2> QED
    BY <2>1, <2>3
<1>7. ASSUME NEW s \in Shards, WorkerDrained(s) \/ WorkerInsert(s)
      PROVE  Still
  <2>1. UNCHANGED <<website_event, lost, pushed, queue, batch>>
    BY <1>7 DEF WorkerDrained, WorkerInsert
  <2> QED
    BY <1>2, <2>1
<1>8. ASSUME NEW s \in Shards, WorkerBegin(s)
      PROVE  \/ Still
             \/ /\ batch' = [batch EXCEPT ![s] = <<>>] /\ UNCHANGED <<queue, pushed>>
                /\ UNCHANGED website_event /\ lost' = lost \cup Range(batch[s])
  <2>1. UNCHANGED <<batch, lost>> => UNCHANGED <<website_event, lost, pushed, queue, batch>>
    BY <1>8 DEF WorkerBegin
  <2> QED
    BY <1>2, <1>8, <2>1 DEF WorkerBegin, FinishBatch
<1>9. ASSUME NEW s \in Shards, WorkerCommit(s)
      PROVE  /\ batch' = [batch EXCEPT ![s] = <<>>] /\ UNCHANGED <<queue, pushed>>
             /\ \/ website_event' = website_event \o batch[s] /\ lost' = lost
                \/ UNCHANGED website_event /\ lost' = lost \cup Range(batch[s])
  <2>1. batch' = [batch EXCEPT ![s] = <<>>] /\ UNCHANGED <<queue, pushed>>
    BY <1>9 DEF WorkerCommit, FinishBatch
  <2>2. ~tx[s].aborted => tx[s].event = batch[s]
    BY <1>9, CommittedBatch DEF WorkerCommit
  <2> QED
    BY <1>9, <2>1, <2>2 DEF WorkerCommit
<1> QED
  BY <1>1, <1>3, <1>4, <1>5, <1>6, <1>7, <1>8, <1>9 DEF Next, WorkerStep

-----------------------------------------------------------------------------
(* The refinement *)

Pending == [s \in Shards |-> batch[s] \o queue[s]]

LEMMA TakenIs ==
  ASSUME TypeOK
  PROVE  Delivery!Taken = lost \cup Stored \cup UNION {Held(s) : s \in Shards}
<1>1. \A s \in Shards : Delivery!Range(Pending[s]) = Held(s)
  BY LaneType DEF Pending, Lane, Range, Delivery!Range
<1>2. Delivery!Range(website_event) = Stored
  BY DEF Stored, Range, Delivery!Range
<1>3. UNION {Delivery!Range(Pending[s]) : s \in Shards} = UNION {Held(s) : s \in Shards}
  BY <1>1
<1> QED
  BY <1>2, <1>3 DEF Delivery!Taken, Pending

LEMMA DeliveryInit == Init => Delivery!Init
<1> SUFFICES ASSUME Init PROVE Delivery!Init
  OBVIOUS
<1>1. [r \in Requests |-> Shard(r)] \in [Requests -> Shards]
  BY TypeInit, BodyType
<1>2. \A s \in Shards : batch[s] \o queue[s] = <<>>
  BY DEF Init
<1> QED
  BY <1>1, <1>2 DEF Init, Delivery!Init

\* A push is accepted by the lane of its session, or refused.
LEMMA DeliveryPush ==
  ASSUME TypeOK, Custody, NEW r \in Requests, Push(r)
  PROVE  Delivery!Next
<1>1. /\ Shard(r) \in Shards /\ pc[r] = "push"
      /\ UNCHANGED <<website_event, batch, body>>
  BY BodyType DEF Push, db, worker
<1>2. r \notin Delivery!Taken
  <2>1. r \notin Stored \cup lost /\ \A z \in Shards : r \notin Held(z)
    BY <1>1 DEF Custody, Accounted
  <2> QED
    BY <2>1, TakenIs
<1>3. [x \in Requests |-> Shard(x)]' = [x \in Requests |-> Shard(x)]
  BY <1>1 DEF Shard
<1>4. CASE Len(queue[Shard(r)]) < ShardCap
  <2>1. /\ queue' = [queue EXCEPT ![Shard(r)] = Append(@, r)] /\ lost' = lost
    BY <1>4 DEF Push
  <2>2. batch[Shard(r)] \o Append(queue[Shard(r)], r)
          = Append(batch[Shard(r)] \o queue[Shard(r)], r)
    <3>1. \A p, q \in Seq(Requests) : p \o Append(q, r) = Append(p \o q, r)
      BY ConcatAppend
    <3> QED
      BY <1>1, <3>1, LaneType
  <2>3. Pending' = [Pending EXCEPT ![Shard(r)] = Append(@, r)]
    BY <1>1, <2>1, <2>2 DEF Pending, TypeOK
  <2>4. Delivery!Accept(r)
    BY <1>1, <1>2, <1>3, <2>1, <2>3 DEF Delivery!Accept, Pending
  <2> QED
    BY <2>4 DEF Delivery!Next
<1>5. CASE ~(Len(queue[Shard(r)]) < ShardCap)
  <2>1. queue' = queue /\ lost' = lost \cup {r}
    BY <1>5 DEF Push
  <2>2. Delivery!Refuse(r)
    BY <1>1, <1>2, <1>3, <2>1 DEF Delivery!Refuse
  <2> QED
    BY <2>2 DEF Delivery!Next
<1> QED
  BY <1>4, <1>5

\* The first items of a lane, and what they are in the batch.
LEMMA LanePrefix ==
  ASSUME NEW S, NEW p \in Seq(S), NEW q \in Seq(S), NEW n, n = Len(p)
  PROVE  /\ SubSeq(p \o q, 1, n) = p /\ SubSeq(p \o q, n + 1, Len(p \o q)) = q
         /\ Range(p) = {(p \o q)[i] : i \in 1..n}
         /\ n = 0 => p = <<>>
         /\ n # 0 => n \in 1..Len(p \o q)
<1>1. /\ SubSeq(p \o q, 1, Len(p)) = p
      /\ SubSeq(p \o q, Len(p) + 1, Len(p \o q)) = q
      /\ \A i \in 1..Len(p) : (p \o q)[i] = p[i]
      /\ Len(p) \in Nat /\ Len(p \o q) = Len(p) + Len(q)
  BY ConcatParts
<1>2. Len(q) \in Nat /\ DOMAIN p = 1..Len(p)
  BY LenProperties
<1>3. Range(p) = {p[i] : i \in 1..n}
  BY <1>2 DEF Range
<1>4. Range(p) = {(p \o q)[i] : i \in 1..n}
  BY <1>1, <1>3
<1>5. n = 0 => p = <<>>
  BY EmptySeq
<1> QED
  BY <1>1, <1>2, <1>4, <1>5

\* The batch of a worker is the prefix of its lane that is flushed or dropped.
LEMMA DeliverySettle ==
  ASSUME TypeOK, NEW s \in Shards,
         batch' = [batch EXCEPT ![s] = <<>>], UNCHANGED <<queue, body>>,
         \/ website_event' = website_event \o batch[s] /\ lost' = lost
         \/ UNCHANGED website_event /\ lost' = lost \cup Range(batch[s])
  PROVE  Delivery!Next \/ UNCHANGED Delivery!vars
<1>0. PICK p, q, n : p = batch[s] /\ q = queue[s] /\ n = Len(p)
  OBVIOUS
<1>1. /\ SubSeq(p \o q, 1, n) = p /\ SubSeq(p \o q, n + 1, Len(p \o q)) = q
      /\ Range(p) = {(p \o q)[i] : i \in 1..n}
      /\ n = 0 => p = <<>>
      /\ n # 0 => n \in 1..Len(p \o q)
  <2>1. p \in Seq(Requests) /\ q \in Seq(Requests)
    BY <1>0, LaneType
  <2>2. n = Len(p)
    BY <1>0
  <2> QED
    BY <2>1, <2>2, LanePrefix
<1>2. [x \in Requests |-> Shard(x)]' = [x \in Requests |-> Shard(x)]
  BY DEF Shard
<1>3. Pending' = [Pending EXCEPT ![s] = SubSeq(p \o q, n + 1, Len(p \o q))]
  <2>1. <<>> \o q = q
    BY <1>0, LaneType, ConcatEmptySeq
  <2>2. \A z \in Shards : batch'[z] \o queue'[z] = IF z = s THEN q ELSE batch[z] \o queue[z]
    BY <1>0, <2>1 DEF TypeOK
  <2> QED
    BY <1>0, <1>1, <2>2 DEF Pending
<1>4. Pending[s] = p \o q
  BY <1>0 DEF Pending
<1>5. CASE n = 0
  <2>1. website_event' = website_event /\ lost' = lost
    BY <1>0, <1>1, <1>5, RangeEmpty, ConcatEmptySeq DEF TypeOK
  <2>2. batch' = batch
    BY <1>0, <1>1, <1>5 DEF TypeOK
  <2> QED
    BY <1>2, <2>1, <2>2 DEF Delivery!vars
<1>6. CASE n # 0
  <2>1. n \in 1..Len(Pending[s])
    BY <1>1, <1>4, <1>6, Zenon
  <2>2. Pending' = [Pending EXCEPT ![s] = SubSeq(@, n + 1, Len(@))]
    BY <1>3, <1>4
  <2>3. CASE website_event' = website_event \o p /\ lost' = lost
    <3>1. Delivery!Flush(s, n)
      BY <1>1, <1>2, <1>4, <2>2, <2>3 DEF Delivery!Flush, Pending
    <3>2. \E l \in Shards : \E k \in 1..Len(Pending[l]) : Delivery!Flush(l, k)
      BY <2>1, <3>1
    <3> QED
      BY <3>2, Zenon DEF Delivery!Next, Pending
  <2>4. CASE UNCHANGED website_event /\ lost' = lost \cup Range(p)
    <3>1. lost' = lost \cup {Pending[s][i] : i \in 1..n}
      BY <1>1, <1>4, <2>4, Zenon
    <3>2. Delivery!Drop(s, n)
      BY <1>2, <2>2, <2>4, <3>1 DEF Delivery!Drop, Pending
    <3>3. \E l \in Shards : \E k \in 1..Len(Pending[l]) : Delivery!Drop(l, k)
      BY <2>1, <3>2
    <3> QED
      BY <3>3, Zenon DEF Delivery!Next, Pending
  <2> QED
    BY <1>0, <2>3, <2>4
<1> QED
  BY <1>5, <1>6

\* A restart loses what is pending, with the requests about to be pushed.
LEMMA DeliveryRestart ==
  ASSUME TypeOK, Custody, Restart
  PROVE  Delivery!Next
<1> PICK served \in SUBSET Requests : served = {r \in Requests : pc[r] = "push"}
  OBVIOUS
<1>1. served \cap Delivery!Taken = {}
  <2>1. \A r \in served : r \notin Stored \cup lost /\ \A z \in Shards : r \notin Held(z)
    BY DEF Custody, Accounted
  <2> QED
    BY <2>1, TakenIs
<1>2. lost' = lost \cup served \cup UNION {Delivery!Range(Pending[l]) : l \in Shards}
  <2>1. \A s \in Shards : Delivery!Range(Pending[s]) = Range(queue[s]) \cup Range(batch[s])
    BY LaneType DEF Pending, Lane, Held, Range, Delivery!Range
  <2>2. UNION {Delivery!Range(Pending[l]) : l \in Shards}
          = UNION {Range(queue[s]) \cup Range(batch[s]) : s \in Shards}
    BY <2>1
  <2> QED
    BY <2>2 DEF Restart, InFlight
<1>3. Pending' = [l \in Shards |-> <<>>]
  <2>1. \A s \in Shards : batch'[s] \o queue'[s] = <<>>
    BY DEF Restart
  <2> QED
    BY <2>1 DEF Pending
<1>4. UNCHANGED <<body, website_event>> /\ UNCHANGED [r \in Requests |-> Shard(r)]
  BY DEF Restart, db, Shard
<1>5. Delivery!LoseAll(served)
  BY <1>1, <1>2, <1>3, <1>4 DEF Delivery!LoseAll, Pending
<1> QED
  BY <1>5 DEF Delivery!Next

LEMMA DeliveryStep ==
  TypeOK /\ WorkerShape /\ Written /\ Custody /\ [Next]_vars
    => [Delivery!Next]_(Delivery!vars)
<1> SUFFICES ASSUME TypeOK, WorkerShape, Written, Custody, [Next]_vars
             PROVE  Delivery!Next \/ UNCHANGED Delivery!vars
  OBVIOUS
<1>1. ASSUME UNCHANGED <<body, website_event, lost>>, \A s \in Shards : Lane(s)' = Lane(s)
      PROVE  UNCHANGED Delivery!vars
  BY <1>1 DEF Delivery!vars, Lane, Shard
<1>2. CASE UNCHANGED vars
  <2>1. UNCHANGED <<body, website_event, lost, batch, queue>>
    BY <1>2 DEF vars, db, handler, worker, history
  <2> QED
    BY <1>1, <2>1 DEF Lane
<1>3. CASE Next
  BY <1>1, <1>3, LaneSteps, DeliveryPush, DeliverySettle, DeliveryRestart
<1> QED
  BY <1>2, <1>3

\* The ingest path keeps the promises of EventDelivery, step by step: whatever
\* workers, batches, transactions and restarts do, the events of a lane are
\* stored or dropped from its front, and nothing that was dropped comes back.
THEOREM DeliveryIsRefined == Spec => DeliveryRefined
<1>1. /\ TypeOK /\ WorkerShape /\ Written /\ Custody /\ [Next]_vars
         => TypeOK' /\ WorkerShape' /\ Written' /\ Custody'
  BY TypeStep, ShapeStep, WrittenStep, CustodyStep
<1>2. Init => TypeOK /\ WorkerShape /\ Written /\ Custody
  BY TypeInit, ShapeInit, WrittenInit, CustodyInit
<1> QED
  BY <1>1, <1>2, DeliveryInit, DeliveryStep, PTL DEF Spec, DeliveryRefined, Delivery!Spec

-----------------------------------------------------------------------------
(* The order of the events of a session *)

Precedes(a, b) ==
  body[a].session = body[b].session =>
    LET x == body[a].session
    IN \E q \in DOMAIN pushed[x] : \E p \in 1..(q - 1) : pushed[x][p] = a /\ pushed[x][q] = b

Ordered(seq) == \A j \in DOMAIN seq : \A i \in 1..(j - 1) : Precedes(seq[i], seq[j])

Precede(A, B) == \A a \in A : \A b \in B : Precedes(a, b)

Recorded(A) == \A a \in A : a \in Range(pushed[body[a].session])

\* Along every lane, and from the table to the lanes, the events of a session are
\* in the order of their pushes.
OrderInv ==
  /\ Ordered(website_event) /\ Recorded(Stored)
  /\ \A s \in Shards : /\ Ordered(Lane(s)) /\ Recorded(Range(Lane(s)))
                       /\ Precede(Stored, Range(Lane(s)))

LEMMA OrderedConcat ==
  ASSUME NEW p \in Seq(Requests), NEW q \in Seq(Requests)
  PROVE  Ordered(p \o q) <=> Ordered(p) /\ Ordered(q) /\ Precede(Range(p), Range(q))
<1>1. /\ Len(p) \in Nat /\ Len(q) \in Nat
      /\ DOMAIN p = 1..Len(p) /\ DOMAIN q = 1..Len(q)
      /\ DOMAIN (p \o q) = 1..(Len(p) + Len(q))
      /\ \A i \in 1..(Len(p) + Len(q)) :
           (p \o q)[i] = IF i <= Len(p) THEN p[i] ELSE q[i - Len(p)]
  BY ConcatProperties
<1> DEFINE c == p \o q
           m == Len(p)
           n == Len(q)
<1>2. (\A i \in 1..m : c[i] = p[i]) /\ (\A i \in 1..n : c[m + i] = q[i])
  <2>1. \A i \in 1..n : (m + i) - m = i /\ m + i \in 1..(m + n) /\ ~(m + i <= m)
    BY <1>1
  <2> QED
    BY <1>1, <2>1
<1>3. m \in Nat /\ n \in Nat /\ DOMAIN c = 1..(m + n) /\ DOMAIN p = 1..m /\ DOMAIN q = 1..n
  BY <1>1
<1> HIDE DEF c, m, n
<1>4. ASSUME Ordered(c)
      PROVE  Ordered(p) /\ Ordered(q) /\ Precede(Range(p), Range(q))
  <2>1. Ordered(p)
    <3>1. \A j \in 1..m : \A i \in 1..(j - 1) : j \in 1..(m + n) /\ i \in 1..m
      BY <1>3
    <3> QED
      BY <1>2, <1>3, <1>4, <3>1 DEF Ordered
  <2>2. Ordered(q)
    <3> SUFFICES ASSUME NEW j \in 1..n, NEW i \in 1..(j - 1)
                 PROVE  Precedes(q[i], q[j])
      BY <1>3 DEF Ordered
    <3>1. m + j \in 1..(m + n) /\ m + i \in 1..(m + j - 1) /\ i \in 1..n
      BY <1>3
    <3>2. Precedes(c[m + i], c[m + j])
      BY <1>3, <1>4, <3>1 DEF Ordered
    <3> QED
      BY <1>2, <3>1, <3>2
  <2>3. Precede(Range(p), Range(q))
    <3> SUFFICES ASSUME NEW i \in 1..m, NEW j \in 1..n
                 PROVE  Precedes(p[i], q[j])
      BY <1>3 DEF Precede, Range
    <3>1. m + j \in 1..(m + n) /\ i \in 1..(m + j - 1)
      BY <1>3
    <3>2. Precedes(c[i], c[m + j])
      BY <1>3, <1>4, <3>1 DEF Ordered
    <3> QED
      BY <1>2, <3>2
  <2> QED
    BY <2>1, <2>2, <2>3
<1>5. ASSUME Ordered(p), Ordered(q), Precede(Range(p), Range(q))
      PROVE  Ordered(c)
  <2> SUFFICES ASSUME NEW j \in 1..(m + n), NEW i \in 1..(j - 1)
               PROVE  Precedes(c[i], c[j])
    BY <1>3 DEF Ordered
  <2>1. CASE j <= m
    <3>1. j \in 1..m /\ i \in 1..m /\ i \in 1..(j - 1)
      BY <1>3, <2>1
    <3> QED
      BY <1>2, <1>3, <1>5, <3>1 DEF Ordered
  <2>2. CASE i <= m /\ j > m
    <3>1. i \in 1..m /\ j - m \in 1..n /\ m + (j - m) = j
      BY <1>3, <2>2
    <3>2. c[i] = p[i] /\ c[j] = q[j - m]
      BY <1>2, <3>1
    <3>3. p[i] \in Range(p) /\ q[j - m] \in Range(q)
      BY <1>3, <3>1 DEF Range
    <3> QED
      BY <1>5, <3>2, <3>3 DEF Precede
  <2>3. CASE i > m
    <3>1. j - m \in 1..n /\ i - m \in 1..((j - m) - 1) /\ i - m \in 1..n
          /\ m + (j - m) = j /\ m + (i - m) = i
      BY <1>3, <2>3
    <3>2. c[i] = q[i - m] /\ c[j] = q[j - m]
      BY <1>2, <3>1
    <3>3. Precedes(q[i - m], q[j - m])
      BY <1>3, <1>5, <3>1 DEF Ordered
    <3> QED
      BY <3>2, <3>3
  <2>4. i <= m \/ i > m
    BY <1>3
  <2>5. j <= m \/ j > m
    BY <1>3
  <2> QED
    BY <2>1, <2>2, <2>3, <2>4, <2>5, Zenon
<1> QED
  BY <1>4, <1>5 DEF c

\* A push does not change what precedes what, and what it pushes comes last.
LEMMA PushOrders ==
  ASSUME TypeOK, NEW r \in Requests, UNCHANGED body,
         pushed' = [pushed EXCEPT ![body[r].session] = Append(@, r)]
  PROVE  /\ \A a, b \in Requests : Precedes(a, b) => Precedes(a, b)'
         /\ \A a \in Requests : Recorded({a}) => Recorded({a})' /\ Precedes(a, r)'
         /\ Recorded({r})'
<1> DEFINE x == body[r].session
           w == Append(pushed[x], r)
<1>1. x \in Sessions /\ pushed[x] \in Seq(Requests)
  BY BodyType DEF TypeOK
<1>2. \A y \in Sessions : pushed'[y] = IF y = x THEN w ELSE pushed[y]
  BY DEF TypeOK
<1>3. /\ Len(pushed[x]) \in Nat /\ DOMAIN pushed[x] = 1..Len(pushed[x])
      /\ DOMAIN w = 1..(Len(pushed[x]) + 1)
      /\ \A i \in 1..Len(pushed[x]) : w[i] = pushed[x][i]
      /\ w[Len(pushed[x]) + 1] = r
  BY <1>1
<1> HIDE DEF w
<1>4. \A a \in Requests : body[a].session \in Sessions
  BY BodyType
<1>5. \A a, b \in Requests : Precedes(a, b) => Precedes(a, b)'
  <2> SUFFICES ASSUME NEW a \in Requests, NEW b \in Requests, Precedes(a, b),
                      body[a].session = body[b].session, body[a].session = x
               PROVE  \E q \in DOMAIN w : \E p \in 1..(q - 1) : w[p] = a /\ w[q] = b
    BY <1>2, <1>4 DEF Precedes
  <2>1. PICK q \in DOMAIN pushed[x] : \E p \in 1..(q - 1) : pushed[x][p] = a /\ pushed[x][q] = b
    BY DEF Precedes
  <2>2. PICK p \in 1..(q - 1) : pushed[x][p] = a /\ pushed[x][q] = b
    BY <2>1
  <2>3. q \in DOMAIN w /\ p \in 1..Len(pushed[x]) /\ q \in 1..Len(pushed[x])
    BY <1>3, <2>1, <2>2
  <2> QED
    BY <1>3, <2>2, <2>3
<1>6. ASSUME NEW a \in Requests, Recorded({a})
      PROVE  Recorded({a})' /\ Precedes(a, r)'
  <2>1. CASE body[a].session # x
    BY <1>2, <1>4, <1>6, <2>1 DEF Recorded, Precedes
  <2>2. CASE body[a].session = x
    <3>1. PICK p \in 1..Len(pushed[x]) : pushed[x][p] = a
      BY <1>3, <1>6, <2>2 DEF Recorded, Range
    <3>2. p \in DOMAIN w /\ w[p] = a
      BY <1>3, <3>1
    <3>3. /\ Len(pushed[x]) + 1 \in DOMAIN w /\ w[Len(pushed[x]) + 1] = r
          /\ p \in 1..((Len(pushed[x]) + 1) - 1)
      BY <1>3, <3>1
    <3>4. pushed'[x] = w
      BY <1>1, <1>2
    <3>5. Recorded({a})'
      BY <2>2, <3>2, <3>4 DEF Recorded, Range
    <3>6. \E q \in DOMAIN w : \E i \in 1..(q - 1) : w[i] = a /\ w[q] = r
      BY <3>2, <3>3
    <3> QED
      BY <2>2, <3>4, <3>5, <3>6 DEF Precedes
  <2> QED
    BY <2>1, <2>2
<1>7. Recorded({r})'
  <2>1. Len(pushed[x]) + 1 \in DOMAIN w
    BY <1>3
  <2> QED
    BY <1>1, <1>2, <1>3, <2>1 DEF Recorded, Range
<1> QED
  BY <1>5, <1>6, <1>7

LEMMA OrderInit == Init => OrderInv
<1> SUFFICES ASSUME Init PROVE OrderInv
  OBVIOUS
<1>1. website_event = <<>> /\ \A s \in Shards : Lane(s) = <<>>
  BY DEF Init, Lane
<1>2. Ordered(<<>>) /\ Range(<<>>) = {} /\ Stored = {}
  BY <1>1, RangeEmpty DEF Ordered, Stored
<1> QED
  BY <1>1, <1>2 DEF OrderInv, Recorded, Precede

\* Who is in the table or in a lane is a request.
LEMMA OrderTypes ==
  ASSUME TypeOK
  PROVE  /\ Stored \subseteq Requests /\ website_event \in Seq(Requests)
         /\ \A i \in DOMAIN website_event : website_event[i] \in Requests
         /\ \A s \in Shards : /\ Range(Lane(s)) \subseteq Requests
                              /\ \A i \in DOMAIN Lane(s) : Lane(s)[i] \in Requests
<1>1. website_event \in Seq(Requests) /\ \A s \in Shards : Lane(s) \in Seq(Requests)
  BY LaneType DEF TypeOK
<1>2. ASSUME NEW q \in Seq(Requests)
      PROVE  Range(q) \subseteq Requests /\ \A i \in DOMAIN q : q[i] \in Requests
  BY DEF Range
<1> QED
  BY <1>1, <1>2 DEF Stored

LEMMA OrderPush ==
  ASSUME TypeOK, OrderInv, NEW r \in Requests, Push(r)
  PROVE  OrderInv'
<1>1. /\ Shard(r) \in Shards /\ UNCHANGED <<website_event, batch, body>>
  BY BodyType DEF Push, db, worker
<1>2. CASE ~(Len(queue[Shard(r)]) < ShardCap)
  <2>1. UNCHANGED <<queue, pushed>>
    BY <1>2 DEF Push
  <2>2. \A s \in Shards : Lane(s)' = Lane(s)
    BY <1>1, <2>1 DEF Lane
  <2> QED
    BY <1>1, <2>1, <2>2 DEF OrderInv, Ordered, Precede, Precedes, Recorded, Stored
<1>3. CASE Len(queue[Shard(r)]) < ShardCap
  <2>1. /\ queue' = [queue EXCEPT ![Shard(r)] = Append(@, r)]
        /\ pushed' = [pushed EXCEPT ![body[r].session] = Append(@, r)]
    BY <1>3 DEF Push
  <2>2. /\ \A a, b \in Requests : Precedes(a, b) => Precedes(a, b)'
        /\ \A a \in Requests : Recorded({a}) => Recorded({a})' /\ Precedes(a, r)'
        /\ Recorded({r})'
    BY <1>1, <2>1, PushOrders
  <2>3. \A s \in Shards : Lane(s)' = IF s = Shard(r) THEN Lane(s) \o <<r>> ELSE Lane(s)
    <3>1. batch[Shard(r)] \o Append(queue[Shard(r)], r) = Append(Lane(Shard(r)), r)
      <4>1. \A p, q \in Seq(Requests) : p \o Append(q, r) = Append(p \o q, r)
        BY ConcatAppend
      <4> QED
        BY <1>1, <4>1, LaneType DEF Lane
    <3>2. Append(Lane(Shard(r)), r) = Lane(Shard(r)) \o <<r>>
      BY <1>1, LaneType, AppendIsConcat
    <3> QED
      BY <1>1, <2>1, <3>1, <3>2 DEF Lane, TypeOK
  <2>4. Ordered(website_event)' /\ Stored' = Stored
    <3>1. \A j \in DOMAIN website_event : \A i \in 1..(j - 1) : i \in DOMAIN website_event
      <4>1. DOMAIN website_event = 1..Len(website_event) /\ Len(website_event) \in Nat
        BY OrderTypes, LenProperties
      <4> QED
        BY <4>1
    <3> QED
      BY <1>1, <2>2, <3>1, OrderTypes DEF OrderInv, Ordered, Stored
  <2>5. Recorded(Stored)'
    BY <2>2, <2>4, OrderTypes DEF OrderInv, Recorded
  <2>6. ASSUME NEW s \in Shards
        PROVE  /\ Ordered(Lane(s))' /\ Recorded(Range(Lane(s)))'
               /\ Precede(Stored, Range(Lane(s)))'
    <3> PICK q \in Seq(Requests) : q = Lane(s)
      BY LaneType
    <3>1. q \in Seq(Requests) /\ Len(q) \in Nat /\ DOMAIN q = 1..Len(q)
          /\ Ordered(q) /\ Recorded(Range(q)) /\ Precede(Stored, Range(q))
      BY LaneType, LenProperties DEF OrderInv
    <3>2. Range(q) \subseteq Requests /\ \A i \in DOMAIN q : q[i] \in Requests
      BY OrderTypes
    <3>3. /\ \A j \in DOMAIN q : \A i \in 1..(j - 1) : Precedes(q[i], q[j])'
          /\ \A a \in Range(q) : Recorded({a})' /\ Precedes(a, r)'
          /\ \A a \in Stored, b \in Range(q) : Precedes(a, b)'
          /\ \A a \in Stored : Precedes(a, r)'
      <4>1. \A j \in DOMAIN q : \A i \in 1..(j - 1) : i \in DOMAIN q
        BY <3>1
      <4>2. \A a \in Range(q) : Recorded({a})
        BY <3>1 DEF Recorded
      <4>3. \A a \in Stored : Recorded({a}) /\ a \in Requests
        BY OrderTypes DEF OrderInv, Recorded
      <4> QED
        BY <2>2, <3>1, <3>2, <4>1, <4>2, <4>3 DEF Ordered, Precede
    <3>4. CASE s # Shard(r)
      <4>1. Lane(s)' = q
        BY <2>3, <3>4
      <4> QED
        BY <2>4, <3>3, <4>1 DEF Ordered, Recorded, Precede
    <3>5. CASE s = Shard(r)
      <4>1. Lane(s)' = q \o <<r>>
        BY <2>3, <3>5
      <4>2. /\ Range(q \o <<r>>) = Range(q) \cup {r}
        <5>1. <<r>> \in Seq(Requests) /\ Range(<<r>>) = {r}
          BY DEF Range
        <5>2. \A p, u \in Seq(Requests) : Range(p \o u) = Range(p) \cup Range(u)
          BY RangeConcat
        <5> QED
          BY <3>1, <5>1, <5>2
      <4>3. DOMAIN (q \o <<r>>) = 1..(Len(q) + 1) /\ (q \o <<r>>)[Len(q) + 1] = r
            /\ \A i \in 1..Len(q) : (q \o <<r>>)[i] = q[i]
        BY <3>1
      <4>4. Ordered(Lane(s))'
        <5> SUFFICES ASSUME NEW j \in 1..(Len(q) + 1), NEW i \in 1..(j - 1)
                     PROVE  Precedes((q \o <<r>>)[i], (q \o <<r>>)[j])'
          BY <4>1, <4>3 DEF Ordered
        <5>1. i \in 1..Len(q) /\ q[i] \in Range(q)
          BY <3>1 DEF Range
        <5>2. CASE j = Len(q) + 1
          BY <3>3, <4>3, <5>1, <5>2
        <5>3. CASE j # Len(q) + 1
          <6>1. j \in 1..Len(q)
            BY <3>1, <5>3
          <6> QED
            BY <3>1, <3>3, <4>3, <5>1, <6>1
        <5> QED
          BY <5>2, <5>3
      <4>5. Recorded(Range(Lane(s)))'
        BY <2>2, <3>3, <4>1, <4>2 DEF Recorded
      <4>6. Precede(Stored, Range(Lane(s)))'
        BY <2>4, <3>3, <4>1, <4>2 DEF Precede
      <4> QED
        BY <4>4, <4>5, <4>6
    <3> QED
      BY <3>4, <3>5
  <2> QED
    BY <2>4, <2>5, <2>6 DEF OrderInv
<1> QED
  BY <1>2, <1>3

\* Nothing is pushed: what precedes what stays so.
LEMMA OrderSettle ==
  ASSUME TypeOK, Custody, OrderInv, NEW s \in Shards,
         batch' = [batch EXCEPT ![s] = <<>>], UNCHANGED <<queue, body, pushed>>,
         website_event' = website_event \o batch[s] \/ UNCHANGED website_event
  PROVE  OrderInv'
<1>1. /\ \A a, b : Precedes(a, b)' <=> Precedes(a, b)
      /\ \A A : Recorded(A)' <=> Recorded(A)
      /\ \A q : Ordered(q)' <=> Ordered(q)
      /\ \A A, B : Precede(A, B)' <=> Precede(A, B)
  BY DEF Precedes, Recorded, Ordered, Precede
<1>2. /\ batch[s] \in Seq(Requests) /\ queue[s] \in Seq(Requests)
      /\ website_event \in Seq(Requests)
  BY LaneType DEF TypeOK
<1>3. \A z \in Shards : Lane(z)' = IF z = s THEN queue[s] ELSE Lane(z)
  <2>1. <<>> \o queue[s] = queue[s]
    BY <1>2
  <2> QED
    BY <2>1 DEF Lane, TypeOK
<1>4. /\ Ordered(batch[s]) /\ Ordered(queue[s]) /\ Precede(Range(batch[s]), Range(queue[s]))
      /\ Range(Lane(s)) = Range(batch[s]) \cup Range(queue[s])
  BY <1>2, OrderedConcat, RangeConcat DEF OrderInv, Lane
<1>5. \A z \in Shards : Ordered(Lane(z))' /\ Recorded(Range(Lane(z)))'
  <2> TAKE z \in Shards
  <2>1. CASE z = s
    BY <1>1, <1>3, <1>4, <2>1 DEF OrderInv, Recorded
  <2>2. CASE z # s
    BY <1>1, <1>3, <2>2 DEF OrderInv
  <2> QED
    BY <2>1, <2>2
<1>6. CASE UNCHANGED website_event
  <2>1. Stored' = Stored
    BY <1>6 DEF Stored
  <2>2. \A z \in Shards : Precede(Stored, Range(Lane(z)))'
    <3>1. \A z \in Shards : Range(Lane(z)') \subseteq Range(Lane(z))
      BY <1>3, <1>4
    <3> QED
      BY <1>1, <2>1, <3>1 DEF OrderInv, Precede
  <2> QED
    BY <1>1, <1>5, <1>6, <2>1, <2>2 DEF OrderInv
<1>7. CASE website_event' = website_event \o batch[s]
  <2>1. Stored' = Stored \cup Range(batch[s])
    BY <1>2, <1>7, RangeConcat DEF Stored
  <2>2. Ordered(website_event)'
    <3>1. Precede(Range(website_event), Range(batch[s]))
      BY <1>4 DEF OrderInv, Precede, Stored
    <3> QED
      BY <1>1, <1>2, <1>4, <1>7, <3>1, OrderedConcat DEF OrderInv
  <2>3. Recorded(Stored)'
    BY <1>1, <1>4, <2>1 DEF OrderInv, Recorded
  <2>4. ASSUME NEW z \in Shards
        PROVE  Precede(Stored, Range(Lane(z)))'
    <3>1. CASE z = s
      BY <1>1, <1>3, <1>4, <2>1, <3>1 DEF OrderInv, Precede
    <3>2. CASE z # s
      <4>1. \A a \in Range(batch[s]), b \in Range(Lane(z)) :
              body[a].session # body[b].session
        <5>1. \A a \in Range(batch[s]), b \in Range(Lane(z)) : Shard(a) = s /\ Shard(b) = z
          BY LaneType DEF Custody, Accounted, Held
        <5> QED
          BY <3>2, <5>1 DEF Shard
      <4> QED
        BY <1>1, <1>3, <2>1, <3>2, <4>1 DEF OrderInv, Precede, Precedes
    <3> QED
      BY <3>1, <3>2
  <2> QED
    BY <1>5, <2>2, <2>3, <2>4 DEF OrderInv
<1> QED
  BY <1>6, <1>7

LEMMA OrderStep ==
  TypeOK /\ WorkerShape /\ Written /\ Custody /\ OrderInv /\ [Next]_vars => OrderInv'
<1> SUFFICES ASSUME TypeOK, WorkerShape, Written, Custody, OrderInv, [Next]_vars
             PROVE  OrderInv'
  OBVIOUS
<1>1. ASSUME UNCHANGED <<body, website_event, pushed>>, \A s \in Shards : Lane(s)' = Lane(s)
      PROVE  OrderInv'
  BY <1>1 DEF OrderInv, Ordered, Precede, Precedes, Recorded, Stored
<1>2. CASE UNCHANGED vars
  <2>1. UNCHANGED <<body, website_event, pushed, batch, queue>>
    BY <1>2 DEF vars, db, handler, worker, history
  <2> QED
    BY <1>1, <2>1 DEF Lane
<1>3. CASE Restart
  <2>1. UNCHANGED <<body, website_event, pushed>>
    BY <1>3 DEF Restart, db
  <2>2. \A s \in Shards : Lane(s)' = <<>>
    BY <1>3 DEF Restart, Lane
  <2> QED
    BY <2>1, <2>2, RangeEmpty DEF OrderInv, Ordered, Precede, Precedes, Recorded, Stored
<1>4. CASE Next
  BY <1>1, <1>3, <1>4, LaneSteps, OrderPush, OrderSettle
<1> QED
  BY <1>2, <1>4

\* The events of a session are stored in the order of their pushes: batches
\* and concurrent workers never put one before another (queue.rs, shard_index).
THEOREM SessionsInOrder == Spec => []SessionOrder
<1>1. /\ TypeOK /\ WorkerShape /\ Written /\ Custody /\ OrderInv /\ [Next]_vars
         => TypeOK' /\ WorkerShape' /\ Written' /\ Custody' /\ OrderInv'
  BY TypeStep, ShapeStep, WrittenStep, CustodyStep, OrderStep
<1>2. Init => TypeOK /\ WorkerShape /\ Written /\ Custody /\ OrderInv
  BY TypeInit, ShapeInit, WrittenInit, CustodyInit, OrderInit
<1>3. OrderInv => SessionOrder
  BY DEF OrderInv, Ordered, Precedes, SessionOrder
<1> QED
  BY <1>1, <1>2, <1>3, PTL DEF Spec
=============================================================================
