--------------------------- MODULE IngestPipeline ---------------------------
(***************************************************************************)
(* The collect path of the Kombu service: the handlers of POST /api/send   *)
(* and POST /api/heartbeat, the two caches they share, the sharded queue   *)
(* behind them, and the worker of each shard that writes a batch of events *)
(* to PostgreSQL in one transaction.                                       *)
(*                                                                         *)
(* Handlers run on a multi-threaded runtime, so a step of one may come     *)
(* between any cache read, await or push of another.  The service answers  *)
(* a request before its event is written; every error after that point is  *)
(* swallowed by the code, and the model keeps what the error does.         *)
(***************************************************************************)
EXTENDS Naturals, Sequences, FiniteSets, Functions

CONSTANTS
  Requests,   \* identities of the collect requests
  Sessions,   \* session ids (a hash of site, address, agent and month)
  Sites,      \* website ids
  SiteOf,     \* the site that was hashed into a session id
  Payloads,   \* the payload classes the clients of this instance send
  Shards,     \* the shards of the queue
  ShardOf,    \* shard_index: the low bits of the session id
  ShardCap,   \* capacity of one shard's channel
  MaxBatch,   \* MAX_BATCH_SIZE of a worker
  Faults      \* the environment faults of this instance

\* What a payload makes the worker write:
\*   plain         a website_event row
\*   data          event_data rows as well
\*   sale          event_data rows and a revenue row
\*   wide_session  a value its column of the session table does not hold
\*   wide_event    a value its column of the event tables does not hold
PayloadClasses == {"plain", "data", "sale", "wide_session", "wide_event"}

\*   begin, statement, commit  PostgreSQL refuses that call of a worker
\*   lookup                    the website query of a handler fails
\*   evict                     a bounded cache drops an entry
\*   restart                   the process ends and is started again
FaultClasses == {"begin", "statement", "commit", "lookup", "evict", "restart"}

ASSUME SessionAssumption == SiteOf \in [Sessions -> Sites]
ASSUME ShardAssumption == ShardOf \in [Sessions -> Shards]
ASSUME PayloadAssumption == "plain" \in Payloads /\ Payloads \subseteq PayloadClasses
ASSUME FaultAssumption == Faults \subseteq FaultClasses
ASSUME CapacityAssumption == ShardCap \in Nat \ {0} /\ MaxBatch \in Nat \ {0}

\* A session id carries its site, except in a heartbeat, which names both.
Bodies ==
  {b \in [kind : {"send", "heartbeat"}, session : Sessions, site : Sites,
          payload : Payloads] :
     /\ b.kind = "send" => b.site = SiteOf[b.session]
     /\ b.kind = "heartbeat" => b.payload = "plain"}

VARIABLES
  \* PostgreSQL
  website,        \* whether a site has no row, a live row or a deleted one
  session,        \* the ids that have a session row
  website_event,  \* the event rows, in the order they became visible
  event_data,     \* the requests whose event has event_data rows
  revenue,        \* the requests whose event has a revenue row
  \* memory of the process
  website_cache,
  session_cache,  \* the ids cached as known; no other value is ever cached
  queue,          \* the channel of each shard
  \* one handler per request
  body, pc,
  found,          \* what the website query of the handler returned
  known,          \* session_known_exists of the handler's item
  \* one worker per shard
  wpc, batch, tx,
  \* history
  pushed,         \* per session, the requests in the order they were queued
  lost            \* requests past every check whose event was dropped

db == <<website, session, website_event, event_data, revenue>>
rows == <<session, website_event, event_data, revenue>>
caches == <<website_cache, session_cache>>
handler == <<body, pc, found, known>>
worker == <<wpc, batch, tx>>
history == <<pushed, lost>>
vars == <<db, caches, queue, handler, worker, history>>

\* A transaction as the worker sees it: the index of the item it writes next,
\* whether PostgreSQL has put it in the aborted state, and its own rows.
Transactions ==
  [next : Nat \ {0}, aborted : BOOLEAN, session : SUBSET Sessions,
   event : Seq(Requests), data : SUBSET Requests, revenue : SUBSET Requests]

NoTransaction ==
  [next |-> 1, aborted |-> FALSE, session |-> {}, event |-> <<>>,
   data |-> {}, revenue |-> {}]

HandlerStates ==
  {"idle", "lookup", "fill", "session", "mark", "push", "done", "rejected", "gone"}
WorkerStates == {"idle", "drain", "begin", "insert"}

TypeOK ==
  /\ website \in [Sites -> {"absent", "live", "deleted"}]
  /\ session \in SUBSET Sessions
  /\ website_event \in Seq(Requests)
  /\ event_data \in SUBSET Requests
  /\ revenue \in SUBSET Requests
  /\ website_cache \in [Sites -> {"miss", "yes", "no"}]
  /\ session_cache \in SUBSET Sessions
  /\ queue \in [Shards -> Seq(Requests)]
  /\ body \in [Requests -> Bodies]
  /\ pc \in [Requests -> HandlerStates]
  /\ found \in [Requests -> BOOLEAN]
  /\ known \in [Requests -> BOOLEAN]
  /\ wpc \in [Shards -> WorkerStates]
  /\ batch \in [Shards -> Seq(Requests)]
  /\ tx \in [Shards -> Transactions]
  /\ pushed \in [Sessions -> Seq(Requests)]
  /\ lost \in SUBSET Requests

Init ==
  /\ website \in [Sites -> {"absent", "live"}]
  /\ session = {}
  /\ website_event = <<>>
  /\ event_data = {}
  /\ revenue = {}
  /\ website_cache = [w \in Sites |-> "miss"]
  /\ session_cache = {}
  /\ queue = [s \in Shards |-> <<>>]
  /\ body \in [Requests -> Bodies]
  /\ pc = [r \in Requests |-> "idle"]
  /\ found = [r \in Requests |-> FALSE]
  /\ known = [r \in Requests |-> FALSE]
  /\ wpc = [s \in Shards |-> "idle"]
  /\ batch = [s \in Shards |-> <<>>]
  /\ tx = [s \in Shards |-> NoTransaction]
  /\ pushed = [x \in Sessions |-> <<>>]
  /\ lost = {}

-----------------------------------------------------------------------------
(* The handlers *)

Shard(r) == ShardOf[body[r].session]

GoTo(r, label) == pc' = [pc EXCEPT ![r] = label]

\* The handler leaves the website check: a send reads the session cache next,
\* a heartbeat always claims that its session exists.
Admit(r) ==
  IF body[r].kind = "send"
    THEN GoTo(r, "session") /\ UNCHANGED known
    ELSE GoTo(r, "push") /\ known' = [known EXCEPT ![r] = TRUE]

Reject(r) == GoTo(r, "rejected") /\ UNCHANGED known

\* The rate limiter or the validation of the payload turns the request away.
Refuse(r) ==
  /\ pc[r] = "idle"
  /\ GoTo(r, "rejected")
  /\ UNCHANGED <<db, caches, queue, body, found, known, worker, history>>

\* The website cache is read; an address on the ignore list is turned away
\* even when the site exists.
CheckSite(r) ==
  LET site == body[r].site
  IN /\ pc[r] = "idle"
     /\ \/ website_cache[site] = "miss" /\ GoTo(r, "lookup") /\ UNCHANGED known
        \/ website_cache[site] = "yes" /\ Admit(r)
        \/ website_cache[site] # "miss" /\ Reject(r)
     /\ UNCHANGED <<db, caches, queue, body, found, worker, history>>

\* Mutation: the query forgets its condition on deleted_at.
LookupDeletedToo(r) ==
  /\ pc[r] = "lookup"
  /\ found' = [found EXCEPT ![r] = website[body[r].site] # "absent"]
  /\ GoTo(r, "fill")
  /\ UNCHANGED <<db, caches, queue, body, known, worker, history>>

\* The query answers; an error counts as "does not exist".
LookupSite(r) ==
  /\ pc[r] = "lookup"
  /\ \/ found' = [found EXCEPT ![r] = website[body[r].site] = "live"]
     \/ "lookup" \in Faults /\ found' = [found EXCEPT ![r] = FALSE]
  /\ GoTo(r, "fill")
  /\ UNCHANGED <<db, caches, queue, body, known, worker, history>>

\* The answer is cached, whichever it is, and then acted on.
FillSite(r) ==
  /\ pc[r] = "fill"
  /\ website_cache' =
       [website_cache EXCEPT ![body[r].site] = IF found[r] THEN "yes" ELSE "no"]
  /\ \/ found[r] /\ Admit(r)
     \/ Reject(r)
  /\ UNCHANGED <<db, session_cache, queue, body, found, worker, history>>

\* Mutation: the session is cached before the cache is read.
MarkBeforeRead(r) ==
  /\ pc[r] = "session"
  /\ session_cache' = session_cache \cup {body[r].session}
  /\ known' = [known EXCEPT ![r] = TRUE]
  /\ GoTo(r, "push")
  /\ UNCHANGED <<db, website_cache, queue, body, found, worker, history>>

ReadSession(r) ==
  /\ pc[r] = "session"
  /\ known' = [known EXCEPT ![r] = body[r].session \in session_cache]
  /\ GoTo(r, IF body[r].session \in session_cache THEN "push" ELSE "mark")
  /\ UNCHANGED <<db, caches, queue, body, found, worker, history>>

\* The session is cached as known before its item is queued.
MarkSession(r) ==
  /\ pc[r] = "mark"
  /\ session_cache' = session_cache \cup {body[r].session}
  /\ GoTo(r, "push")
  /\ UNCHANGED <<db, website_cache, queue, body, found, known, worker, history>>

\* Mutation: a full channel is not reported, and the item vanishes.
PushForgetful(r) ==
  /\ pc[r] = "push"
  /\ IF Len(queue[Shard(r)]) < ShardCap
       THEN /\ queue' = [queue EXCEPT ![Shard(r)] = Append(@, r)]
            /\ pushed' = [pushed EXCEPT ![body[r].session] = Append(@, r)]
       ELSE UNCHANGED <<queue, pushed>>
  /\ GoTo(r, "done")
  /\ UNCHANGED <<db, caches, body, found, known, worker, lost>>

\* try_push, whose error is ignored: the client is answered either way.
Push(r) ==
  /\ pc[r] = "push"
  /\ IF Len(queue[Shard(r)]) < ShardCap
       THEN /\ queue' = [queue EXCEPT ![Shard(r)] = Append(@, r)]
            /\ pushed' = [pushed EXCEPT ![body[r].session] = Append(@, r)]
            /\ UNCHANGED lost
       ELSE /\ lost' = lost \cup {r}
            /\ UNCHANGED <<queue, pushed>>
  /\ GoTo(r, "done")
  /\ UNCHANGED <<db, caches, body, found, known, worker>>

-----------------------------------------------------------------------------
(* The worker of a shard *)

\* recv: the worker sleeps until the channel has an item.
WorkerRecv(s) ==
  /\ wpc[s] = "idle"
  /\ queue[s] # <<>>
  /\ batch' = [batch EXCEPT ![s] = Append(@, Head(queue[s]))]
  /\ queue' = [queue EXCEPT ![s] = Tail(@)]
  /\ wpc' = [wpc EXCEPT ![s] = "drain"]
  /\ UNCHANGED <<db, caches, handler, tx, history>>

\* Mutation: the newest items are added to the front of the batch.
DrainReversed(s) ==
  /\ wpc[s] = "drain"
  /\ Len(batch[s]) < MaxBatch
  /\ queue[s] # <<>>
  /\ batch' = [batch EXCEPT ![s] = <<Head(queue[s])>> \o @]
  /\ queue' = [queue EXCEPT ![s] = Tail(@)]
  /\ UNCHANGED <<db, caches, handler, wpc, tx, history>>

\* try_recv, while the batch has room.
WorkerDrain(s) ==
  /\ wpc[s] = "drain"
  /\ Len(batch[s]) < MaxBatch
  /\ queue[s] # <<>>
  /\ batch' = [batch EXCEPT ![s] = Append(@, Head(queue[s]))]
  /\ queue' = [queue EXCEPT ![s] = Tail(@)]
  /\ UNCHANGED <<db, caches, handler, wpc, tx, history>>

\* Mutation: the worker waits for a full batch.
DrainedWhenFull(s) ==
  /\ wpc[s] = "drain"
  /\ Len(batch[s]) >= MaxBatch
  /\ wpc' = [wpc EXCEPT ![s] = "begin"]
  /\ UNCHANGED <<db, caches, queue, handler, batch, tx, history>>

\* The batch is full or the channel was found empty.
WorkerDrained(s) ==
  /\ wpc[s] = "drain"
  /\ Len(batch[s]) >= MaxBatch \/ queue[s] = <<>>
  /\ wpc' = [wpc EXCEPT ![s] = "begin"]
  /\ UNCHANGED <<db, caches, queue, handler, batch, tx, history>>

\* Mutation: the batch is not cleared at the top of the loop.
KeepBatch(s) ==
  /\ wpc' = [wpc EXCEPT ![s] = "idle"]
  /\ UNCHANGED batch
  /\ tx' = [tx EXCEPT ![s] = NoTransaction]

\* The worker returns to the top of its loop, where it clears the batch.
FinishBatch(s) ==
  /\ wpc' = [wpc EXCEPT ![s] = "idle"]
  /\ batch' = [batch EXCEPT ![s] = <<>>]
  /\ tx' = [tx EXCEPT ![s] = NoTransaction]

\* A transaction is opened; if that fails the batch is given up.
WorkerBegin(s) ==
  /\ wpc[s] = "begin"
  /\ \/ /\ wpc' = [wpc EXCEPT ![s] = "insert"]
        /\ UNCHANGED <<batch, tx, lost>>
     \/ /\ "begin" \in Faults
        /\ FinishBatch(s)
        /\ lost' = lost \cup Range(batch[s])
  /\ UNCHANGED <<db, caches, queue, handler, pushed>>

\* The statements of an item that PostgreSQL rejects for their values.
RowRejected(r) ==
  \/ body[r].payload = "wide_event"
  \/ body[r].payload = "wide_session" /\ ~known[r]

\* Mutation: the session row is inserted for the items that are known.
WriteKnownOnly(t, r) ==
  [next |-> t.next + 1,
   aborted |-> t.aborted,
   session |-> t.session \cup (IF known[r] THEN {body[r].session} ELSE {}),
   event |-> Append(t.event, r),
   data |-> t.data \cup
     (IF body[r].payload \in {"data", "sale"} THEN {r} ELSE {}),
   revenue |-> t.revenue \cup (IF body[r].payload = "sale" THEN {r} ELSE {})]

\* The rows an item adds to its transaction.  The session row is inserted
\* only for an item that is not known, and ON CONFLICT DO NOTHING.
WriteItem(t, r) ==
  [next |-> t.next + 1,
   aborted |-> t.aborted,
   session |-> t.session \cup
     (IF known[r] THEN {} ELSE {body[r].session} \ session),
   event |-> Append(t.event, r),
   data |-> t.data \cup
     (IF body[r].payload \in {"data", "sale"} THEN {r} ELSE {}),
   revenue |-> t.revenue \cup (IF body[r].payload = "sale" THEN {r} ELSE {})]

\* The item's statement failed: the rows written so far will not be committed.
AbortItem(t) ==
  [next |-> t.next + 1, aborted |-> TRUE, session |-> t.session,
   event |-> t.event, data |-> t.data, revenue |-> t.revenue]

\* The next item's statements.  One that fails aborts the transaction, and
\* PostgreSQL then refuses the others until its end; the worker goes on.
WorkerInsert(s) ==
  LET r == batch[s][tx[s].next]
  IN /\ wpc[s] = "insert"
     /\ tx[s].next <= Len(batch[s])
     /\ \/ /\ ~tx[s].aborted /\ ~RowRejected(r)
           /\ tx' = [tx EXCEPT ![s] = WriteItem(@, r)]
        \/ /\ tx[s].aborted \/ RowRejected(r) \/ "statement" \in Faults
           /\ tx' = [tx EXCEPT ![s] = AbortItem(@)]
     /\ UNCHANGED <<db, caches, queue, handler, wpc, batch, history>>

\* Mutation: the revenue rows are written outside the transaction.
CommitRevenueAlways(s) ==
  /\ wpc[s] = "insert"
  /\ tx[s].next > Len(batch[s])
  /\ revenue' = revenue \cup tx[s].revenue
  /\ \/ /\ ~tx[s].aborted
        /\ session' = session \cup tx[s].session
        /\ website_event' = website_event \o tx[s].event
        /\ event_data' = event_data \cup tx[s].data
        /\ UNCHANGED lost
     \/ /\ tx[s].aborted \/ "commit" \in Faults
        /\ lost' = lost \cup Range(batch[s])
        /\ UNCHANGED <<session, website_event, event_data>>
  /\ FinishBatch(s)
  /\ UNCHANGED <<website, caches, queue, handler, pushed>>

\* The transaction becomes visible at once, or leaves nothing behind; the
\* worker does not look at the result.
WorkerCommit(s) ==
  /\ wpc[s] = "insert"
  /\ tx[s].next > Len(batch[s])
  /\ \/ /\ ~tx[s].aborted
        /\ session' = session \cup tx[s].session
        /\ website_event' = website_event \o tx[s].event
        /\ event_data' = event_data \cup tx[s].data
        /\ revenue' = revenue \cup tx[s].revenue
        /\ UNCHANGED lost
     \/ /\ tx[s].aborted \/ "commit" \in Faults
        /\ lost' = lost \cup Range(batch[s])
        /\ UNCHANGED rows
  /\ FinishBatch(s)
  /\ UNCHANGED <<website, caches, queue, handler, pushed>>

-----------------------------------------------------------------------------
(* The environment *)

\* An administrator adds a site, possibly under an id clients already use.
CreateWebsite(w) ==
  /\ website[w] = "absent"
  /\ website' = [website EXCEPT ![w] = "live"]
  /\ UNCHANGED <<rows, caches, queue, handler, worker, history>>

\* A site is deleted by setting deleted_at; the cache is not told.
DeleteWebsite(w) ==
  /\ website[w] = "live"
  /\ website' = [website EXCEPT ![w] = "deleted"]
  /\ UNCHANGED <<rows, caches, queue, handler, worker, history>>

EvictWebsite(w) ==
  /\ "evict" \in Faults
  /\ website_cache[w] # "miss"
  /\ website_cache' = [website_cache EXCEPT ![w] = "miss"]
  /\ UNCHANGED <<db, session_cache, queue, handler, worker, history>>

EvictSession(x) ==
  /\ "evict" \in Faults
  /\ x \in session_cache
  /\ session_cache' = session_cache \ {x}
  /\ UNCHANGED <<db, website_cache, queue, handler, worker, history>>

\* Requests the process still holds: an item about to be queued, a queued one
\* or one of a batch that is not committed.
InFlight ==
  {r \in Requests : pc[r] = "push"}
    \cup UNION {Range(queue[s]) \cup Range(batch[s]) : s \in Shards}

\* The process ends, by a crash or by the end of serve, which does not wait
\* for the workers, and starts again: PostgreSQL keeps what was committed.
Restart ==
  /\ "restart" \in Faults
  /\ lost' = lost \cup InFlight
  /\ pc' = [r \in Requests |->
              IF pc[r] \in {"idle", "done", "rejected"} THEN pc[r] ELSE "gone"]
  /\ website_cache' = [w \in Sites |-> "miss"]
  /\ session_cache' = {}
  /\ queue' = [s \in Shards |-> <<>>]
  /\ wpc' = [s \in Shards |-> "idle"]
  /\ batch' = [s \in Shards |-> <<>>]
  /\ tx' = [s \in Shards |-> NoTransaction]
  /\ UNCHANGED <<db, body, found, known, pushed>>

-----------------------------------------------------------------------------
(* The specification *)

HandlerStep(r) ==
  \/ Refuse(r) \/ CheckSite(r) \/ LookupSite(r) \/ FillSite(r)
  \/ ReadSession(r) \/ MarkSession(r) \/ Push(r)

WorkerStep(s) ==
  \/ WorkerRecv(s) \/ WorkerDrain(s) \/ WorkerDrained(s)
  \/ WorkerBegin(s) \/ WorkerInsert(s) \/ WorkerCommit(s)

AdminStep(w) == CreateWebsite(w) \/ DeleteWebsite(w)

Next ==
  \/ \E r \in Requests : HandlerStep(r)
  \/ \E s \in Shards : WorkerStep(s)
  \/ \E w \in Sites : AdminStep(w) \/ EvictWebsite(w)
  \/ \E x \in Sessions : EvictSession(x)
  \/ Restart

Spec == Init /\ [][Next]_vars

\* The runtime polls a task that is ready, so a handler that has started and a
\* worker that has work both take their next step.  Nothing makes a client
\* send a request, or a cache evict, or the process end.
Fairness ==
  /\ \A r \in Requests : WF_vars(pc[r] # "idle" /\ HandlerStep(r))
  /\ \A s \in Shards : WF_vars(WorkerStep(s))

FairSpec == Spec /\ Fairness

-----------------------------------------------------------------------------
(* Properties *)

Stored == Range(website_event)

Held(s) == Range(queue[s]) \cup Range(batch[s])

\* The request whose item inserts the session row of x: it found the session
\* unknown and has not been settled yet.
CreatorInFlight(x) ==
  \E r \in InFlight : body[r].session = x /\ ~known[r]

CreatorLost(x) ==
  \E r \in lost : body[r].session = x /\ ~known[r]

\* A session the process treats as written: it is cached, or the item of some
\* send request carries session_known_exists.
Claimed(x) ==
  \/ x \in session_cache
  \/ \E r \in Requests :
       /\ body[r].kind = "send" /\ body[r].session = x
       /\ known[r] /\ pc[r] \in {"push", "done"}

\* send caches a session before its row exists, so the cache may only run
\* ahead of the table while the item that writes the row is on its way; if
\* that item was lost, the cache is wrong and stays wrong.
ClaimExplained ==
  \A x \in Sessions :
    Claimed(x) => x \in session \/ CreatorInFlight(x) \/ CreatorLost(x)

\* The event of a send request has its session row, except while the item
\* that writes the row is still behind it or when that item was lost.
\* A dropped item is the only cause of a lasting orphan.
OrphanExplained ==
  \A r \in Stored :
    body[r].kind = "send" =>
      LET x == body[r].session
      IN x \in session \/ CreatorInFlight(x) \/ CreatorLost(x)

\* The event_data and revenue rows of an event become visible with it, all or
\* none: a report never sums revenue of an event that is not there, nor misses
\* the revenue of one that is.
EventComplete ==
  \A r \in Requests :
    /\ r \in event_data <=> r \in Stored /\ body[r].payload \in {"data", "sale"}
    /\ r \in revenue <=> r \in Stored /\ body[r].payload = "sale"

\* Events of one session are stored in the order in which they were queued,
\* and each of them once, whatever batches they were drained into.
SessionOrder ==
  \A j \in DOMAIN website_event : \A i \in 1..(j - 1) :
    LET a == website_event[i]
        b == website_event[j]
        x == body[a].session
    IN x = body[b].session =>
         \E q \in DOMAIN pushed[x] : \E p \in 1..(q - 1) :
           pushed[x][p] = a /\ pushed[x][q] = b

\* An answered request is held by the shard of its session, stored or lost,
\* and never two of these: no batch forgets an item and none writes it twice.
Accounted ==
  /\ \A r \in Requests :
       pc[r] = "done" => r \in Held(Shard(r)) \cup Stored \cup lost
  /\ \A s \in Shards : \A r \in Held(s) :
       Shard(r) = s /\ pc[r] = "done" /\ r \notin Stored \cup lost
  /\ \A s \in Shards : Range(queue[s]) \cap Range(batch[s]) = {}
  /\ Stored \cap lost = {}

\* A shard holds at most its capacity in memory, and a worker at most one
\* batch, however far PostgreSQL falls behind.
MemoryBound ==
  \A s \in Shards : Len(queue[s]) <= ShardCap /\ Len(batch[s]) <= MaxBatch

\* A deleted site is forgotten: it is out of the cache, and no handler that saw
\* it live is about to cache it.
Forgotten(w) ==
  /\ website[w] = "deleted"
  /\ website_cache[w] # "yes"
  /\ \A r \in Requests : pc[r] = "fill" /\ body[r].site = w => ~found[r]

\* A forgotten site stays so: whatever is evicted, looked up or restarted later,
\* no handler is told again that it exists.
NoRevival == [][\A w \in Sites : Forgotten(w) => Forgotten(w)']_vars

\* Every answered request is settled in the end, whatever fails: it is lost, or
\* it is stored and the row of its session exists as well, unless the item
\* that was to write that row is lost.
AnsweredSettles ==
  \A r \in Requests :
    LET x == body[r].session
    IN pc[r] = "done" ~>
         \/ r \in lost
         \/ /\ r \in Stored
            /\ body[r].kind = "send" => x \in session \/ CreatorLost(x)

\* docs/migration-from-umami.md:10 promises "zero dropped events": an answered
\* event that fits its columns is not dropped by the service.
ZeroDroppedEvents ==
  \A r \in Requests :
    pc[r] = "done" /\ body[r].payload = "plain" => r \notin lost

-----------------------------------------------------------------------------
(* Refinement: the shards are the lanes, and what a lane has pending is the *)
(* batch of its worker followed by its channel.                             *)

Delivery ==
  INSTANCE EventDelivery WITH
    Events <- Requests,
    Lanes <- Shards,
    lane <- [r \in Requests |-> Shard(r)],
    pending <- [s \in Shards |-> batch[s] \o queue[s]],
    stored <- website_event,
    lost <- lost

\* Batches, transactions and restarts only ever flush or drop a prefix of one
\* lane, or lose everything that is pending, in one visible step.
DeliveryRefined == Delivery!Spec
=============================================================================
