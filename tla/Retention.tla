------------------------------ MODULE Retention ------------------------------
(***************************************************************************)
(* Data retention in Kombu: the policy of each site, the hourly purge of   *)
(* the background task, the purges a user or an administrator asks for,    *)
(* the reset of a site, and the ingest path that keeps writing meanwhile.  *)
(*                                                                         *)
(* A purge is a list of statements, each in a transaction of its own, and  *)
(* swallows their errors.  The ingest path is the one of IngestPipeline    *)
(* for send requests of an existing site, with one lane for each session   *)
(* and one item in each batch: a larger batch only makes commits coincide, *)
(* and the other sessions of its shard can fail it or fill the channel.    *)
(***************************************************************************)
EXTENDS Integers, Sequences, FiniteSets

CONSTANTS
  Sites, Sessions, Events,
  SiteOf,       \* the site of a session
  SessionOf,    \* the session of an event
  Born,         \* its created_at, which a client may send: an event may arrive old
  DataEvents,   \* the events that have event_data rows
  OnPath,       \* the events whose path matches the filter of a purge
  Jobs,         \* the background task and the purge and reset requests
  KindOf,       \* what each of them is
  Days,         \* the numbers of days users send
  DefaultDays,  \* DEFAULT_RETENTION_DAYS
  LastDay,      \* the end of the clock; bounds the model
  Faults,       \* the environment faults of this instance
  MaxTrouble    \* how many requests and faults a behaviour has; bounds the model

JobKinds == {"auto", "admin", "manual", "reset"}

\*   fetch, data, events, sessions, log   PostgreSQL refuses that statement
\*   begin, statement, commit             it refuses that of a batch
\*   full                                 the channel of a shard is full
\*   evict                                the session cache drops an entry
\*   restart                              the process ends and is started again
FaultClasses ==
  {"fetch", "data", "events", "sessions", "log", "begin", "statement", "commit",
   "full", "evict", "restart"}

ASSUME SiteAssumption == Sites # {} /\ SiteOf \in [Sessions -> Sites]
ASSUME SessionAssumption == SessionOf \in [Events -> Sessions]
ASSUME EventAssumption == IsFiniteSet(Events) /\ DataEvents \cup OnPath \subseteq Events
                          /\ Born \in [Events -> Nat]
ASSUME JobAssumption == IsFiniteSet(Jobs) /\ KindOf \in [Jobs -> JobKinds]
ASSUME DaysAssumption == Days \subseteq Int /\ DefaultDays \in Nat /\ LastDay \in Nat
                         /\ MaxTrouble \in Nat
ASSUME FaultAssumption == Faults \subseteq FaultClasses

VARIABLES
  clock,           \* days
  policy,          \* website_retention_policy; a site without a row never purges
  last_purged_at,  \* its column; -1 where it is NULL
  \* the tables, and created_at of the session rows
  website_event, event_data, session, session_born,
  \* the ingest path
  handler,         \* where the send request of an event is
  session_cache, queue,
  known,           \* session_known_exists of its item
  tx,              \* per session, the open transaction of its worker
  \* the purges
  job,
  \* history
  lost,            \* items the service dropped
  removed,         \* what last removed the row of a session
  late,            \* events that became visible without their session row
  torn,            \* events whose purge failed half-way, or that it just missed
  gone,            \* what removed an event
  logged, unlogged, \* events counted in, and missed by, retention_purge_log
  in_force,        \* per job, the enabled policies seen since its round began
  trouble          \* how many requests and faults there were

tables == <<website_event, event_data, session, session_born>>
ingest == <<handler, session_cache, queue, known, tx, lost>>
counts == <<logged, unlogged>>
history == <<removed, late, torn, gone, counts, in_force>>
vars == <<clock, policy, last_purged_at, tables, ingest, job, history, trouble>>

Policies == [row : BOOLEAN, days : Nat, auto : BOOLEAN]

\* A site without a row is read like one without retention.
NoPolicy == [row |-> FALSE, days |-> 0, auto |-> FALSE]

\* The background task is at "alerts" while its loop runs alert rounds.
JobStates ==
  {"idle", "now", "site", "data", "events", "sessions", "log", "stamp", "alerts", "done"}

JobRecords ==
  [pc : JobStates, todo : SUBSET (Sites \X Nat), now : Nat, site : Sites,
   cutoff : Int, path : BOOLEAN, events : Nat]

\* A job between two sites holds nothing of the last one.
AnySite == CHOOSE w \in Sites : TRUE

TypeOK ==
  /\ clock \in Nat
  /\ policy \in [Sites -> Policies]
  /\ last_purged_at \in [Sites -> Nat \cup {-1}]
  /\ website_event \in SUBSET Events
  /\ event_data \in SUBSET Events
  /\ session \in SUBSET Sessions
  /\ session_born \in [Sessions -> Nat]
  /\ handler \in [Events -> {"idle", "mark", "push", "done", "gone"}]
  /\ session_cache \in SUBSET Sessions
  /\ queue \in [Sessions -> Seq(Events)]
  /\ known \in [Events -> BOOLEAN]
  /\ tx \in [Sessions -> {"none", "insert", "plain", "aborted"}]
  /\ job \in [Jobs -> JobRecords]
  /\ lost \in SUBSET Events
  /\ removed \in [Sessions -> {"never", "purge", "reset"}]
  /\ late \in SUBSET Events
  /\ torn \in SUBSET Events
  /\ gone \in [Events -> {"no", "auto", "admin", "manual", "path", "reset"}]
  /\ logged \in [Sites -> Nat]
  /\ unlogged \in [Sites -> Nat]
  /\ in_force \in [Jobs -> SUBSET (Sites \X Nat)]
  /\ trouble \in 0..MaxTrouble

Init ==
  /\ clock = 0
  /\ policy = [w \in Sites |-> NoPolicy]
  /\ last_purged_at = [w \in Sites |-> -1]
  /\ website_event = {}
  /\ event_data = {}
  /\ session = {}
  /\ session_born = [x \in Sessions |-> 0]
  /\ handler = [e \in Events |-> "idle"]
  /\ session_cache = {}
  /\ queue = [x \in Sessions |-> <<>>]
  /\ known = [e \in Events |-> FALSE]
  /\ tx = [x \in Sessions |-> "none"]
  /\ job = [j \in Jobs |->
              [pc |-> "idle", todo |-> {}, now |-> 0, site |-> AnySite,
               cutoff |-> 0, path |-> FALSE, events |-> 0]]
  /\ lost = {}
  /\ removed = [x \in Sessions |-> "never"]
  /\ late = {}
  /\ torn = {}
  /\ gone = [e \in Events |-> "no"]
  /\ logged = [w \in Sites |-> 0]
  /\ unlogged = [w \in Sites |-> 0]
  /\ in_force = [j \in Jobs |-> {}]
  /\ trouble = 0

Trouble == trouble < MaxTrouble /\ trouble' = trouble + 1
Fault(f) == f \in Faults /\ Trouble
Calm == UNCHANGED trouble

-----------------------------------------------------------------------------
(* The ingest path *)

Site(e) == SiteOf[SessionOf[e]]

Move(e, label) == handler' = [handler EXCEPT ![e] = label]

\* Mutation: the session is cached before the cache is read.
MarkBeforeRead(e) ==
  /\ handler[e] = "idle"
  /\ session_cache' = session_cache \cup {SessionOf[e]}
  /\ known' = [known EXCEPT ![e] = TRUE]
  /\ Move(e, "push")
  /\ UNCHANGED <<clock, policy, last_purged_at, tables, queue, tx, lost, job, history,
                 trouble>>

ReadSession(e) ==
  LET cached == SessionOf[e] \in session_cache
  IN /\ handler[e] = "idle"
     /\ known' = [known EXCEPT ![e] = cached]
     /\ Move(e, IF cached THEN "push" ELSE "mark")
     /\ UNCHANGED <<clock, policy, last_purged_at, tables, session_cache, queue, tx,
                    lost, job, history, trouble>>

\* The session is cached as known before its item is queued.
MarkSession(e) ==
  /\ handler[e] = "mark"
  /\ session_cache' = session_cache \cup {SessionOf[e]}
  /\ Move(e, "push")
  /\ UNCHANGED <<clock, policy, last_purged_at, tables, queue, known, tx, lost,
                 job, history, trouble>>

\* try_push, whose error is ignored.
Push(e) ==
  /\ handler[e] = "push"
  /\ \/ /\ queue' = [queue EXCEPT ![SessionOf[e]] = Append(@, e)]
        /\ UNCHANGED <<lost, trouble>>
     \/ /\ Fault("full")
        /\ lost' = lost \cup {e}
        /\ UNCHANGED queue
  /\ Move(e, "done")
  /\ UNCHANGED <<clock, policy, last_purged_at, tables, session_cache, known, tx,
                 job, history>>

\* The item at the head of its lane leaves it.
TakeItem(x) == queue' = [queue EXCEPT ![x] = Tail(@)]

\* The worker of x begins a transaction and runs the statements of its item.
\* INSERT INTO session ... ON CONFLICT DO NOTHING: whether a row is inserted
\* is decided here, and seen by others at the commit.  A refused begin gives
\* the item up, and a refused statement aborts the transaction.
WriteItem(x) ==
  LET e == Head(queue[x])
  IN /\ queue[x] # <<>>
     /\ tx[x] = "none"
     /\ \/ /\ tx' = [tx EXCEPT ![x] =
                       IF ~known[e] /\ x \notin session THEN "insert" ELSE "plain"]
           /\ UNCHANGED <<queue, lost, trouble>>
        \/ /\ Fault("begin")
           /\ TakeItem(x)
           /\ lost' = lost \cup {e}
           /\ UNCHANGED tx
        \/ /\ Fault("statement")
           /\ tx' = [tx EXCEPT ![x] = "aborted"]
           /\ UNCHANGED <<queue, lost>>
     /\ UNCHANGED <<clock, policy, last_purged_at, tables, handler, session_cache,
                    known, job, history>>

Expired(e, j) == Site(e) = job[j].site /\ Born[e] < job[j].cutoff

\* A purge that has deleted the event_data of e, but not yet e itself.
PurgesData(j, e) ==
  /\ KindOf[j] = "manual" /\ ~job[j].path
  /\ job[j].pc = "events" /\ Expired(e, j)

\* The rows of e become visible, with its session row if the worker wrote one.
StoreItem(x, e) ==
  /\ website_event' = website_event \cup {e}
  /\ event_data' = event_data \cup ({e} \cap DataEvents)
  /\ IF tx[x] = "insert"
       THEN /\ session' = session \cup {x}
            /\ session_born' = [session_born EXCEPT ![x] = Born[e]]
       ELSE UNCHANGED <<session, session_born>>
  /\ late' = IF x \in session' THEN late ELSE late \cup {e}
  /\ torn' = IF \E j \in Jobs : PurgesData(j, e) THEN torn \cup {e} ELSE torn

\* The worker does not look at the result: COMMIT of an aborted transaction is
\* a rollback, and a failed one leaves nothing either.
CommitItem(x) ==
  LET e == Head(queue[x])
  IN /\ tx[x] # "none"
     /\ \/ /\ tx[x] # "aborted"
           /\ StoreItem(x, e)
           /\ UNCHANGED <<lost, trouble>>
        \/ /\ \/ tx[x] = "aborted" /\ Calm
              \/ tx[x] # "aborted" /\ Fault("commit")
           /\ lost' = lost \cup {e}
           /\ UNCHANGED <<website_event, event_data, session, session_born, late, torn>>
     /\ tx' = [tx EXCEPT ![x] = "none"]
     /\ TakeItem(x)
     /\ UNCHANGED <<clock, policy, last_purged_at, handler, session_cache, known,
                    job, removed, gone, counts, in_force>>

EvictSession(x) ==
  /\ x \in session_cache
  /\ Fault("evict")
  /\ session_cache' = session_cache \ {x}
  /\ UNCHANGED <<clock, policy, last_purged_at, tables, handler, queue, known, tx, lost,
                 job, history>>

-----------------------------------------------------------------------------
(* The purges *)

Goto(j, label) == job' = [job EXCEPT ![j].pc = label]

\* The job is done with its site.
Leave(j, label) ==
  job' = [job EXCEPT ![j].pc = label, ![j].site = AnySite, ![j].cutoff = 0,
                     ![j].path = FALSE, ![j].events = 0]

\* Mutation: the query forgets auto_purge_enabled = true.
DueAnyway == {<<w, policy[w].days>> : w \in {v \in Sites : policy[v].days > 0}}

\* Mutation: a site that was purged once is not due again.
DueOnce ==
  {<<w, policy[w].days>> :
     w \in {v \in Sites : policy[v].auto /\ policy[v].days > 0
                          /\ last_purged_at[v] = -1}}

\* The policies that are due, stated apart from the query.
Enabled(policies) ==
  {<<w, policies[w].days>> :
     w \in {v \in Sites : policies[v].auto /\ policies[v].days > 0}}

\* The policies a round works on: they are read once, at its start.
Due ==
  {<<w, policy[w].days>> :
     w \in {v \in Sites : policy[v].auto /\ policy[v].days > 0}}

\* The loop of the background task goes on to its alert rounds.
AfterRound(j) == IF KindOf[j] = "auto" THEN "alerts" ELSE "done"

\* run_retention_purge_once and admin_purge_all begin; an administrator whose
\* query fails goes on with no policies, the background task gives the round
\* up.  A round without policies is over at once.
Fetch(j) ==
  /\ KindOf[j] \in {"auto", "admin"}
  /\ job[j].pc = "idle"
  /\ \/ /\ Due # {}
        /\ job' = [job EXCEPT ![j].pc = "now", ![j].todo = Due]
        /\ in_force' = [in_force EXCEPT ![j] = Enabled(policy)]
        /\ IF KindOf[j] = "auto" THEN Calm ELSE Trouble
     \/ /\ Goto(j, AfterRound(j))
        /\ UNCHANGED in_force
        /\ \/ Due = {} /\ (IF KindOf[j] = "auto" THEN Calm ELSE Trouble)
           \/ Fault("fetch")
  /\ UNCHANGED <<clock, policy, last_purged_at, tables, ingest,
                 removed, late, torn, gone, counts>>

\* The alert rounds between two retention ticks are over, and the loop, which
\* prefers the retention tick, takes it.  A receiver of a webhook that does not
\* answer keeps it from coming here.
AlertsReturn(j) ==
  /\ job[j].pc = "alerts"
  /\ Goto(j, "idle")
  /\ UNCHANGED <<clock, policy, last_purged_at, tables, ingest, history, trouble>>

TakeNow(j) ==
  /\ job[j].pc = "now"
  /\ job' = [job EXCEPT ![j].pc = "site", ![j].now = clock]
  /\ UNCHANGED <<clock, policy, last_purged_at, tables, ingest, history, trouble>>

\* Nothing is older than the first day: a cutoff before it is as good as it.
Ago(day, n) == IF n < day THEN day - n ELSE 0

NextSite(j) ==
  /\ job[j].pc = "site"
  /\ \E d \in job[j].todo :
       job' = [job EXCEPT ![j].pc = "events", ![j].todo = @ \ {d},
                          ![j].site = d[1], ![j].cutoff = Ago(job[j].now, d[2])]
  /\ UNCHANGED <<clock, policy, last_purged_at, tables, ingest, history, trouble>>

EndRound(j) ==
  /\ job[j].pc = "site"
  /\ job[j].todo = {}
  /\ job' = [job EXCEPT ![j].pc = AfterRound(j), ![j].now = 0]
  /\ in_force' = [in_force EXCEPT ![j] = {}]
  /\ UNCHANGED <<clock, policy, last_purged_at, tables, ingest,
                 removed, late, torn, gone, counts, trouble>>

\* purge: the body names a date, a number of days, or leaves it to the policy,
\* whose query may fail.
Cutoffs(w) ==
  0..LastDay
    \cup {Ago(clock, IF d > 1 THEN d ELSE 1) : d \in Days}
    \cup {Ago(clock, IF policy[w].days > 0 THEN policy[w].days ELSE DefaultDays)}
    \cup {Ago(clock, DefaultDays) : fault \in Faults \cap {"fetch"}}

\* A filter on the path leaves event_data alone.
StartPurge(j) ==
  /\ KindOf[j] = "manual"
  /\ job[j].pc = "idle"
  /\ Trouble
  /\ \E w \in Sites, path \in BOOLEAN : \E cutoff \in Cutoffs(w) :
       job' = [job EXCEPT ![j].pc = IF path THEN "events" ELSE "data",
                          ![j].site = w, ![j].path = path, ![j].cutoff = cutoff]
  /\ UNCHANGED <<clock, policy, last_purged_at, tables, ingest, history>>

\* Mutation: the event_data is deleted up to the day before the cutoff.
DeleteOlderData(j) ==
  /\ job[j].pc = "data"
  /\ event_data' = {e \in event_data : ~(Expired(e, j) /\ Born[e] + 1 < job[j].cutoff)}
  /\ Goto(j, "events")
  /\ UNCHANGED <<clock, policy, last_purged_at, website_event, session,
                 session_born, ingest, history, trouble>>

\* Mutation: the event_data of the whole site is deleted.
DeleteAllData(j) ==
  /\ job[j].pc = "data"
  /\ event_data' = {e \in event_data : Site(e) # job[j].site}
  /\ Goto(j, "events")
  /\ UNCHANGED <<clock, policy, last_purged_at, website_event, session,
                 session_born, ingest, history, trouble>>

DeleteData(j) ==
  /\ job[j].pc = "data"
  /\ \/ /\ event_data' = {e \in event_data : ~Expired(e, j)}
        /\ UNCHANGED <<torn, trouble>>
     \/ /\ Fault("data")
        /\ torn' = torn \cup {e \in event_data : Expired(e, j)}
        /\ UNCHANGED event_data
  /\ Goto(j, "events")
  /\ UNCHANGED <<clock, policy, last_purged_at, website_event, session,
                 session_born, ingest, removed, late, gone, counts, in_force>>

\* Mutation: the rows are counted by a query without the cutoff.
CountSite(j, doomed) == Cardinality({e \in website_event : Site(e) = job[j].site})

\* rows_affected of the statement.
Affected(j, doomed) == Cardinality(doomed)

DeleteEvents(j) ==
  LET doomed == {e \in website_event : Expired(e, j) /\ (job[j].path => e \in OnPath)}
  IN /\ KindOf[j] # "reset"
     /\ job[j].pc = "events"
     /\ \/ /\ website_event' = website_event \ doomed
           /\ gone' = [e \in Events |->
                         IF e \in doomed
                           THEN IF job[j].path THEN "path" ELSE KindOf[j]
                           ELSE gone[e]]
           /\ job' = [job EXCEPT ![j].pc = "sessions", ![j].events = Affected(j, doomed)]
           /\ UNCHANGED <<torn, trouble>>
        \/ /\ Fault("events")
           /\ job' = [job EXCEPT ![j].pc = "sessions", ![j].events = 0]
           /\ torn' = torn \cup {e \in website_event : PurgesData(j, e)}
           /\ UNCHANGED <<website_event, gone>>
     /\ UNCHANGED <<clock, policy, last_purged_at, event_data, session,
                    session_born, ingest, removed, late, counts, in_force>>

\* Mutation: the statement forgets its NOT EXISTS.
Childless(x) == TRUE

Eventless(x) == \A e \in website_event : SessionOf[e] # x

\* The background task writes no log entry of a purge that found nothing.
DeleteSessions(j) ==
  LET doomed == {x \in session : /\ SiteOf[x] = job[j].site
                                 /\ session_born[x] < job[j].cutoff
                                 /\ Eventless(x)}
      After(n) ==
        IF KindOf[j] = "auto" /\ job[j].events = 0 /\ n = 0
          THEN Leave(j, "site")
          ELSE job' = [job EXCEPT ![j].pc = "log",
                                  ![j].now = IF KindOf[j] = "manual" THEN clock ELSE @]
  IN /\ KindOf[j] # "reset"
     /\ job[j].pc = "sessions"
     /\ \/ /\ session' = session \ doomed
           /\ removed' = [x \in Sessions |-> IF x \in doomed THEN "purge" ELSE removed[x]]
           /\ After(Cardinality(doomed))
           /\ Calm
        \/ /\ Fault("sessions")
           /\ After(0)
           /\ UNCHANGED <<session, removed>>
     /\ UNCHANGED <<clock, policy, last_purged_at, website_event, event_data,
                    session_born, ingest, late, torn, gone, counts, in_force>>

WriteLog(j) ==
  /\ job[j].pc = "log"
  /\ \/ /\ logged' = [logged EXCEPT ![job[j].site] = @ + job[j].events]
        /\ UNCHANGED <<unlogged, trouble>>
     \/ /\ Fault("log")
        /\ unlogged' = [unlogged EXCEPT ![job[j].site] = @ + job[j].events]
        /\ UNCHANGED logged
  /\ Goto(j, "stamp")
  /\ UNCHANGED <<clock, policy, last_purged_at, tables, ingest,
                 removed, late, torn, gone, in_force>>

\* The UPDATE finds no row where the site has no policy.
Stamp(j) ==
  /\ job[j].pc = "stamp"
  /\ last_purged_at' =
       IF policy[job[j].site].row
         THEN [last_purged_at EXCEPT ![job[j].site] = job[j].now]
         ELSE last_purged_at
  /\ Leave(j, IF KindOf[j] = "manual" THEN "done" ELSE "site")
  /\ UNCHANGED <<clock, policy, tables, ingest, history, trouble>>

-----------------------------------------------------------------------------
(* The reset of a site *)

StartReset(j) ==
  /\ KindOf[j] = "reset"
  /\ job[j].pc = "idle"
  /\ Trouble
  /\ \E w \in Sites : job' = [job EXCEPT ![j].pc = "events", ![j].site = w]
  /\ UNCHANGED <<clock, policy, last_purged_at, tables, ingest, history>>

\* An error of the first statement ends the request.
ResetEvents(j) ==
  LET doomed == {e \in website_event : Site(e) = job[j].site}
  IN /\ KindOf[j] = "reset"
     /\ job[j].pc = "events"
     /\ \/ /\ website_event' = website_event \ doomed
           /\ gone' = [e \in Events |-> IF e \in doomed THEN "reset" ELSE gone[e]]
           /\ Goto(j, "sessions")
           /\ Calm
        \/ /\ Fault("events")
           /\ Leave(j, "done")
           /\ UNCHANGED <<website_event, gone>>
     /\ UNCHANGED <<clock, policy, last_purged_at, event_data, session,
                    session_born, ingest, removed, late, torn, counts, in_force>>

\* The session cache is not told.
ResetSessions(j) ==
  LET doomed == {x \in session : SiteOf[x] = job[j].site}
  IN /\ KindOf[j] = "reset"
     /\ job[j].pc = "sessions"
     /\ \/ /\ session' = session \ doomed
           /\ removed' = [x \in Sessions |-> IF x \in doomed THEN "reset" ELSE removed[x]]
           /\ Calm
        \/ Fault("sessions") /\ UNCHANGED <<session, removed>>
     /\ Leave(j, "done")
     /\ UNCHANGED <<clock, policy, last_purged_at, website_event, event_data,
                    session_born, ingest, late, torn, gone, counts, in_force>>

-----------------------------------------------------------------------------
(* The environment *)

Clamped(d) == IF d > 0 THEN d ELSE 0

InRound(j) ==
  KindOf[j] \in {"auto", "admin"} /\ job[j].pc \notin {"idle", "alerts", "done"}

\* The upsert keeps last_purged_at.
SavePolicy(w) ==
  /\ \E d \in Days, auto \in BOOLEAN :
       policy' = [policy EXCEPT ![w] = [row |-> TRUE, days |-> Clamped(d), auto |-> auto]]
  /\ Trouble
  /\ in_force' = [j \in Jobs |->
                    IF InRound(j) THEN in_force[j] \cup Enabled(policy') ELSE in_force[j]]
  /\ UNCHANGED <<clock, last_purged_at, tables, ingest, job,
                 removed, late, torn, gone, counts>>

Tick ==
  /\ clock < LastDay
  /\ clock' = clock + 1
  /\ UNCHANGED <<policy, last_purged_at, tables, ingest, job, history, trouble>>

\* Events a job has deleted and not yet written to the log.
Unwritten(j) == IF job[j].pc \in {"sessions", "log"} THEN job[j].events ELSE 0

\* The sum over the jobs on site w, counted as pairs of a job and a number.
UnwrittenOf(w) ==
  Cardinality({d \in Jobs \X (1..Cardinality(Events)) :
                 /\ KindOf[d[1]] # "reset" /\ job[d[1]].site = w
                 /\ d[2] <= Unwritten(d[1])})

\* Items the process still holds: about to be queued, or queued.
InFlight ==
  {e \in Events : handler[e] = "push"}
    \cup UNION {{queue[x][i] : i \in DOMAIN queue[x]} : x \in Sessions}

\* The jobs, the handlers, the queue, the open transactions and the cache go
\* with the process.
Restart ==
  /\ Fault("restart")
  /\ unlogged' = [w \in Sites |-> unlogged[w] + UnwrittenOf(w)]
  /\ job' = [j \in Jobs |->
               [pc |-> IF KindOf[j] = "auto" \/ job[j].pc = "idle" THEN "idle" ELSE "done",
                todo |-> {}, now |-> 0, site |-> AnySite,
                cutoff |-> 0, path |-> FALSE, events |-> 0]]
  /\ lost' = lost \cup InFlight
  /\ handler' = [e \in Events |->
                   IF handler[e] \in {"mark", "push"} THEN "gone" ELSE handler[e]]
  /\ session_cache' = {}
  /\ queue' = [x \in Sessions |-> <<>>]
  /\ tx' = [x \in Sessions |-> "none"]
  /\ torn' = torn \cup {e \in website_event : \E j \in Jobs : PurgesData(j, e)}
  /\ in_force' = [j \in Jobs |-> {}]
  /\ UNCHANGED <<clock, policy, last_purged_at, tables, known,
                 removed, late, gone, logged>>

-----------------------------------------------------------------------------
(* The specification *)

HandlerStep(e) == ReadSession(e) \/ MarkSession(e) \/ Push(e)

IngestStep ==
  \/ \E e \in Events : HandlerStep(e)
  \/ \E x \in Sessions : WriteItem(x) \/ CommitItem(x) \/ EvictSession(x)

RoundStep(j) == Fetch(j) \/ TakeNow(j) \/ NextSite(j) \/ EndRound(j)

PurgeStep(j) ==
  \/ StartPurge(j) \/ DeleteData(j) \/ DeleteEvents(j) \/ DeleteSessions(j)
  \/ WriteLog(j) \/ Stamp(j)

ResetStep(j) == StartReset(j) \/ ResetEvents(j) \/ ResetSessions(j)

Next ==
  \/ IngestStep
  \/ \E j \in Jobs : RoundStep(j) \/ PurgeStep(j) \/ ResetStep(j) \/ AlertsReturn(j)
  \/ \E w \in Sites : SavePolicy(w)
  \/ Tick
  \/ Restart

Spec == Init /\ [][Next]_vars

\* A retention tick that is due is taken, and a purge waits for nothing but
\* PostgreSQL.  Nothing is assumed of the alert rounds in the same loop, which
\* wait for the receivers of their webhooks without a timeout.
FairSpec ==
  Spec /\ \A j \in Jobs :
            KindOf[j] = "auto" => WF_vars(RoundStep(j) \/ PurgeStep(j))

-----------------------------------------------------------------------------
(* Properties *)

\* An automatic purge removes an event only if some policy of its site, in
\* force at some time since the round began, has both been enabled and expired
\* the event: the round works on the policies it read first.
PurgeJustified ==
  [][\A e \in website_event \ website_event' :
       gone'[e] \in {"auto", "admin"} =>
         \E j \in Jobs : \E f \in in_force[j] :
           /\ KindOf[j] = gone'[e]
           /\ f[1] = Site(e)
           /\ Born[e] + f[2] < clock]_vars

\* The item that writes the session row of x is on its way.
CreatorInFlight(x) == \E e \in InFlight : SessionOf[e] = x /\ ~known[e]

\* It was dropped, and the cache goes on claiming that the row exists.
CreatorLost(x) == \E e \in lost : SessionOf[e] = x /\ ~known[e]

\* A purge takes the session row of no event that is stored; only a reset does.
\* Any other event without its session row was committed without it, because
\* its handler or its worker had found the session: the row was then purged, or
\* it had not been written yet, and its item is still to come or was dropped.
OrphanExplained ==
  \A e \in website_event :
    LET x == SessionOf[e]
    IN x \notin session =>
         \/ removed[x] = "reset"
         \/ /\ e \in late
            /\ removed[x] = "purge" \/ CreatorInFlight(x) \/ CreatorLost(x)

\* The purge of a user, which names no path, deletes event_data and event in
\* two statements.  No event_data outlives an event it removed, and no event
\* its event_data, unless one of the two statements failed, the event was
\* committed between them, or the second is still to come.
\* The other purges and a reset do not delete event_data at all.
DataExplained ==
  /\ \A e \in event_data \ website_event : gone[e] # "manual" \/ e \in torn
  /\ \A e \in (website_event \cap DataEvents) \ event_data :
       e \in torn \/ \E j \in Jobs : PurgesData(j, e)

PurgedOf(w) ==
  {e \in Events : Site(e) = w /\ gone[e] \in {"auto", "admin", "manual", "path"}}

\* However purges overlap, the log of a site counts every purged event once,
\* but for those whose entry is still to be written or could not be.
LogConserves ==
  \A w \in Sites :
    logged[w] + unlogged[w] + UnwrittenOf(w) = Cardinality(PurgedOf(w))

\* The policy of its site has expired e.
Overdue(e) ==
  /\ e \in website_event
  /\ policy[Site(e)].auto /\ policy[Site(e)].days > 0
  /\ Born[e] + policy[Site(e)].days < clock

\* An event that its policy has expired is purged, unless the policy changes or
\* an alert round keeps the background task for ever.
OverduePurged ==
  \/ \E j \in Jobs : KindOf[j] = "auto" /\ <>[](job[j].pc = "alerts")
  \/ \A e \in Events : Overdue(e) ~> ~Overdue(e)
=============================================================================
