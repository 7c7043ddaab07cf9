-------------------------- MODULE Retention_proofs --------------------------
(***************************************************************************)
(* Theorems about Retention, for any sites, sessions, events, jobs,        *)
(* policies and faults, and a clock and a number of faults without bound.  *)
(***************************************************************************)
EXTENDS Retention, FiniteSetTheorems, SequenceTheorems, TLAPS

-----------------------------------------------------------------------------
(* The inductive invariants *)

\* A purge counts what it deleted, only a user's purge deletes event_data, and
\* only rounds go from site to site.
JobShape ==
  \A j \in Jobs :
    /\ job[j].events <= Cardinality(Events)
    /\ job[j].pc = "data" => KindOf[j] = "manual" /\ ~job[j].path
    /\ job[j].pc \in {"now", "site"} => KindOf[j] \in {"auto", "admin"}
    /\ job[j].pc \in {"log", "stamp"} => KindOf[j] # "reset"

\* An event waits once, in the lane of its session, before it is stored, and
\* its handler is done with it by then.
QueueShape ==
  /\ \A x \in Sessions :
       /\ tx[x] # "none" => queue[x] # <<>>
       /\ \A i \in DOMAIN queue[x] :
            /\ SessionOf[queue[x][i]] = x
            /\ handler[queue[x][i]] = "done"
            /\ gone[queue[x][i]] = "no" /\ queue[x][i] \notin website_event
            /\ \A k \in DOMAIN queue[x] : queue[x][k] = queue[x][i] => k = i
  /\ \A e \in Events :
       handler[e] # "done" => e \notin website_event /\ gone[e] = "no"

StoredShape == \A e \in website_event : gone[e] = "no"

\* A session that is about to be cached was not found in the cache, and no
\* item is dropped before its handler has read the cache.
HandlerShape ==
  \A e \in Events :
    /\ handler[e] = "mark" => ~known[e]
    /\ e \in lost => handler[e] # "idle"

\* The row of x is there, or was there until it was removed.
HadRow(x) == x \in session \/ removed[x] # "never"

\* What stands behind a claim that the row of x exists.
Backed(x) == HadRow(x) \/ CreatorInFlight(x) \/ CreatorLost(x)

\* The cache, the items and the workers claim that the row of a session exists
\* only with such a backing.
Claims ==
  /\ \A x \in session_cache : Backed(x)
  /\ \A e \in InFlight : known[e] => Backed(SessionOf[e])
  /\ \A x \in Sessions : tx[x] = "plain" /\ ~known[Head(queue[x])] => HadRow(x)

\* The event_data of an event go before it.
DataBeforeEvent ==
  \A j \in Jobs : \A e \in website_event \cap event_data :
    PurgesData(j, e) => e \in torn

\* A round works on policies that were in force since it began.
RoundInForce ==
  \A j \in Jobs :
    /\ job[j].now <= clock
    /\ InRound(j) => job[j].todo \subseteq in_force[j]
    /\ InRound(j) /\ job[j].pc = "events" =>
         \E f \in in_force[j] :
           f[1] = job[j].site /\ job[j].cutoff = Ago(job[j].now, f[2])

-----------------------------------------------------------------------------
(* Types *)

LEMMA TypeInit == Init => TypeOK
<1>1. AnySite \in Sites
  BY SiteAssumption DEF AnySite
<1> QED
  BY <1>1, DaysAssumption DEF Init, TypeOK, NoPolicy, Policies, JobRecords, JobStates

LEMMA DueType ==
  ASSUME TypeOK
  PROVE  Due \in SUBSET (Sites \X Nat) /\ Enabled(policy) = Due
  BY DEF TypeOK, Policies, Due, Enabled

LEMMA AgoType ==
  ASSUME NEW d \in Int, NEW n \in Int
  PROVE  Ago(d, n) \in Int
  BY DEF Ago

\* The job of a step is the only one whose record changes.
LEMMA JobEdit ==
  ASSUME TypeOK, NEW j \in Jobs, NEW rec \in JobRecords, job' = [job EXCEPT ![j] = rec]
  PROVE  job' \in [Jobs -> JobRecords]
  BY DEF TypeOK

LEMMA TroubleType ==
  ASSUME TypeOK
  PROVE  /\ Trouble => trouble' \in 0..MaxTrouble
         /\ \A f : Fault(f) => trouble' \in 0..MaxTrouble
         /\ Calm => trouble' \in 0..MaxTrouble
  BY DaysAssumption DEF TypeOK, Trouble, Fault, Calm

\* What the ingest path writes has the types of its tables.
LEMMA TypeIngest ==
  ASSUME TypeOK, QueueShape, IngestStep
  PROVE  TypeOK'
<1> USE DEF tables, history, counts
<1>1. ASSUME NEW e \in Events, HandlerStep(e)
      PROVE  TypeOK'
  <2>1. SessionOf[e] \in Sessions
    BY SessionAssumption
  <2>2. CASE ReadSession(e)
    BY <2>2 DEF ReadSession, Move, TypeOK
  <2>3. CASE MarkSession(e)
    BY <2>1, <2>3 DEF MarkSession, Move, TypeOK
  <2>4. CASE Push(e)
    <3>1. trouble' \in 0..MaxTrouble
      BY <2>4, TroubleType DEF Push, TypeOK
    <3>2. queue' \in [Sessions -> Seq(Events)]
      <4>1. Append(queue[SessionOf[e]], e) \in Seq(Events)
        BY <2>1 DEF TypeOK
      <4>2. PICK x, q : x = SessionOf[e] /\ q = Append(queue[x], e)
        OBVIOUS
      <4>3. queue' = queue \/ queue' = [queue EXCEPT ![x] = q]
        BY <2>4, <4>2 DEF Push
      <4> QED
        BY <2>1, <4>1, <4>2, <4>3 DEF TypeOK
    <3>3. lost' \in SUBSET Events
      BY <2>4 DEF Push, TypeOK
    <3> QED
      BY <2>4, <3>1, <3>2, <3>3 DEF Push, Move, TypeOK
  <2> QED
    BY <1>1, <2>2, <2>3, <2>4 DEF HandlerStep
<1>2. ASSUME NEW x \in Sessions, WriteItem(x)
      PROVE  TypeOK'
  <2>1. queue[x] \in Seq(Events) /\ queue[x] # <<>>
    BY <1>2 DEF WriteItem, TypeOK
  <2>2. Head(queue[x]) \in Events /\ Tail(queue[x]) \in Seq(Events)
    BY <2>1
  <2>3. trouble' \in 0..MaxTrouble
    BY <1>2, TroubleType DEF WriteItem, TypeOK
  <2>4. /\ tx' \in [Sessions -> {"none", "insert", "plain", "aborted"}]
        /\ queue' \in [Sessions -> Seq(Events)] /\ lost' \in SUBSET Events
    BY <1>2, <2>2 DEF WriteItem, TakeItem, TypeOK
  <2> QED
    BY <1>2, <2>3, <2>4 DEF WriteItem, TypeOK
<1>3. ASSUME NEW x \in Sessions, CommitItem(x)
      PROVE  TypeOK'
  <2>1. queue[x] \in Seq(Events) /\ queue[x] # <<>>
    BY <1>3 DEF CommitItem, QueueShape, TypeOK
  <2>2. Head(queue[x]) \in Events /\ Tail(queue[x]) \in Seq(Events)
    BY <2>1
  <2>3. trouble' \in 0..MaxTrouble
    BY <1>3, TroubleType DEF CommitItem, TypeOK
  <2>4. /\ website_event' \in SUBSET Events /\ event_data' \in SUBSET Events
        /\ late' \in SUBSET Events /\ torn' \in SUBSET Events
    BY <1>3, <2>2 DEF CommitItem, StoreItem, TypeOK
  <2>5. Born[Head(queue[x])] \in Nat
    BY <2>2, EventAssumption
  <2>6. session' \in SUBSET Sessions /\ session_born' \in [Sessions -> Nat]
    BY <1>3, <2>5 DEF CommitItem, StoreItem, TypeOK
  <2>7. /\ tx' \in [Sessions -> {"none", "insert", "plain", "aborted"}]
        /\ queue' \in [Sessions -> Seq(Events)] /\ lost' \in SUBSET Events
    BY <1>3, <2>2 DEF CommitItem, TakeItem, TypeOK
  <2> QED
    BY <1>3, <2>3, <2>4, <2>6, <2>7 DEF CommitItem, TypeOK
<1>4. ASSUME NEW x \in Sessions, EvictSession(x)
      PROVE  TypeOK'
  <2>1. trouble' \in 0..MaxTrouble
    BY <1>4, TroubleType DEF EvictSession
  <2> QED
    BY <1>4, <2>1 DEF EvictSession, TypeOK
<1> QED
  BY <1>1, <1>2, <1>3, <1>4 DEF IngestStep

LEMMA GotoType ==
  ASSUME TypeOK, NEW j \in Jobs, NEW label \in JobStates, Goto(j, label)
  PROVE  job' \in [Jobs -> JobRecords]
<1>1. job[j] \in JobRecords
  BY DEF TypeOK
<1>2. [job[j] EXCEPT !.pc = label] \in JobRecords
  BY <1>1 DEF JobRecords
<1> QED
  BY <1>2, JobEdit DEF Goto

LEMMA TypeAlerts ==
  ASSUME TypeOK, NEW j \in Jobs, AlertsReturn(j)
  PROVE  TypeOK'
<1>1. job' \in [Jobs -> JobRecords]
  <2>1. "idle" \in JobStates
    BY DEF JobStates
  <2> QED
    BY <2>1, GotoType DEF AlertsReturn
<1> QED
  BY <1>1 DEF AlertsReturn, TypeOK, tables, ingest, history, counts

LEMMA TypeRound ==
  ASSUME TypeOK, NEW j \in Jobs, RoundStep(j)
  PROVE  TypeOK'
<1> USE DEF tables, ingest, history, counts
<1>0. job[j] \in JobRecords
  BY DEF TypeOK
<1>5. AfterRound(j) \in JobStates
  BY DEF AfterRound, JobStates
<1>1. CASE Fetch(j)
  <2>1. trouble' \in 0..MaxTrouble
    BY <1>1, TroubleType DEF Fetch, Calm, TypeOK
  <2>2. in_force' \in [Jobs -> SUBSET (Sites \X Nat)]
    BY <1>1, DueType DEF Fetch, TypeOK
  <2>3. job' \in [Jobs -> JobRecords]
    <3>1. [job[j] EXCEPT !.pc = "now", !.todo = Due] \in JobRecords
      BY <1>0, DueType DEF JobRecords, JobStates
    <3>2. CASE job' = [job EXCEPT ![j].pc = "now", ![j].todo = Due]
      BY <3>1, <3>2, JobEdit
    <3>3. CASE Goto(j, AfterRound(j))
      BY <1>5, <3>3, GotoType
    <3> QED
      BY <1>1, <3>2, <3>3 DEF Fetch
  <2> QED
    BY <1>1, <2>1, <2>2, <2>3 DEF Fetch, TypeOK
<1>2. CASE TakeNow(j)
  BY <1>0, <1>2 DEF TakeNow, TypeOK, JobRecords, JobStates
<1>3. CASE NextSite(j)
  <2>1. PICK d \in job[j].todo :
          job' = [job EXCEPT ![j].pc = "events", ![j].todo = @ \ {d},
                             ![j].site = d[1], ![j].cutoff = Ago(job[j].now, d[2])]
    BY <1>3 DEF NextSite
  <2>2. job[j].todo \in SUBSET (Sites \X Nat) /\ job[j].now \in Nat
    BY <1>0 DEF JobRecords
  <2>3. d[1] \in Sites /\ d[2] \in Nat
    BY <2>1, <2>2
  <2>4. Ago(job[j].now, d[2]) \in Int
    BY <2>2, <2>3 DEF Ago
  <2>5. PICK todo, w, c : todo = job[j].todo \ {d} /\ w = d[1] /\ c = Ago(job[j].now, d[2])
    OBVIOUS
  <2>6. [job[j] EXCEPT !.pc = "events", !.todo = todo, !.site = w, !.cutoff = c] \in JobRecords
    <3>1. todo \in SUBSET (Sites \X Nat) /\ w \in Sites /\ c \in Int
      BY <2>2, <2>3, <2>4, <2>5
    <3> QED
      BY <1>0, <3>1 DEF JobRecords, JobStates
  <2>7. job' = [job EXCEPT ![j] = [job[j] EXCEPT !.pc = "events", !.todo = todo, !.site = w,
                                                 !.cutoff = c]]
    BY <2>1, <2>5
  <2>8. job' \in [Jobs -> JobRecords]
    BY <2>6, <2>7, JobEdit
  <2> QED
    BY <1>3, <2>8 DEF NextSite, TypeOK
<1>4. CASE EndRound(j)
  <2>1. PICK label \in JobStates : label = AfterRound(j)
    BY <1>5
  <2>2. [job[j] EXCEPT !.pc = label, !.now = 0] \in JobRecords
    BY <1>0 DEF JobRecords
  <2>3. job' \in [Jobs -> JobRecords]
    BY <1>4, <2>1, <2>2, JobEdit DEF EndRound
  <2> QED
    BY <1>4, <2>3 DEF EndRound, TypeOK
<1> QED
  BY <1>1, <1>2, <1>3, <1>4 DEF RoundStep

\* SMT loses a constant among the Booleans of a record; a variable it keeps.
LEMMA LeaveRecord ==
  ASSUME NEW r \in JobRecords, NEW label \in JobStates, NEW w \in Sites, NEW c \in Int,
         NEW p \in BOOLEAN, NEW n \in Nat
  PROVE  [r EXCEPT !.pc = label, !.site = w, !.cutoff = c, !.path = p, !.events = n]
           \in JobRecords
  BY DEF JobRecords

LEMMA LeaveType ==
  ASSUME TypeOK, NEW j \in Jobs, NEW label \in JobStates, Leave(j, label)
  PROVE  job' \in [Jobs -> JobRecords]
<1>1. AnySite \in Sites
  BY SiteAssumption DEF AnySite
<1>2. job[j] \in JobRecords
  BY DEF TypeOK
<1>3. PICK p \in BOOLEAN : p = FALSE
  OBVIOUS
<1>4. [job[j] EXCEPT !.pc = label, !.site = AnySite, !.cutoff = 0, !.path = p,
                     !.events = 0] \in JobRecords
  <2>1. p \in BOOLEAN /\ 0 \in Nat /\ 0 \in Int
    BY <1>3
  <2> QED
    BY <1>1, <1>2, <2>1, LeaveRecord
<1>5. job' = [job EXCEPT ![j] = [job[j] EXCEPT !.pc = label, !.site = AnySite, !.cutoff = 0,
                                               !.path = p, !.events = 0]]
  BY <1>3 DEF Leave
<1> QED
  BY <1>4, <1>5, JobEdit

\* What is counted of the events is a number of them.
LEMMA Counted ==
  ASSUME NEW D \in SUBSET Events
  PROVE  /\ IsFiniteSet(D) /\ Cardinality(D) \in Nat
         /\ Cardinality(D) <= Cardinality(Events) /\ Cardinality(Events) \in Nat
  BY EventAssumption, FS_Subset, FS_CardinalityType

LEMMA TypePurge ==
  ASSUME TypeOK, NEW j \in Jobs, PurgeStep(j)
  PROVE  TypeOK'
<1> USE DEF tables, ingest, history, counts
<1>0. job[j] \in JobRecords /\ {"data", "events", "sessions", "log", "stamp", "site", "done"} \subseteq JobStates
  BY DEF TypeOK, JobStates
<1>1. CASE StartPurge(j)
  <2>1. trouble' \in 0..MaxTrouble
    BY <1>1, TroubleType DEF StartPurge
  <2>2. PICK w \in Sites, path \in BOOLEAN : \E cutoff \in Cutoffs(w) :
          job' = [job EXCEPT ![j].pc = IF path THEN "events" ELSE "data",
                             ![j].site = w, ![j].path = path, ![j].cutoff = cutoff]
    BY <1>1 DEF StartPurge
  <2>3. Cutoffs(w) \subseteq Int
    <3>1. policy[w].days \in Nat /\ clock \in Nat
      BY <2>2 DEF TypeOK, Policies
    <3>2. \A n \in Int : Ago(clock, n) \in Int
      BY <3>1, AgoType
    <3>3. \A d \in Days : Ago(clock, IF d > 1 THEN d ELSE 1) \in Int
      BY <3>2, DaysAssumption
    <3>4. Ago(clock, IF policy[w].days > 0 THEN policy[w].days ELSE DefaultDays) \in Int
      BY <3>1, <3>2, DaysAssumption
    <3>5. Ago(clock, DefaultDays) \in Int /\ 0..LastDay \subseteq Int
      BY <3>2, DaysAssumption
    <3> QED
      BY <3>3, <3>4, <3>5 DEF Cutoffs
  <2>4. PICK cutoff \in Cutoffs(w) :
          job' = [job EXCEPT ![j].pc = IF path THEN "events" ELSE "data",
                             ![j].site = w, ![j].path = path, ![j].cutoff = cutoff]
    BY <2>2
  <2>5. PICK label \in {"events", "data"} : label = IF path THEN "events" ELSE "data"
    OBVIOUS
  <2>6. [job[j] EXCEPT !.pc = label, !.site = w, !.path = path, !.cutoff = cutoff]
          \in JobRecords
    BY <1>0, <2>2, <2>3, <2>4, <2>5 DEF JobRecords
  <2>7. job' = [job EXCEPT ![j] = [job[j] EXCEPT !.pc = label, !.site = w, !.path = path,
                                                 !.cutoff = cutoff]]
    BY <2>4, <2>5
  <2>8. job' \in [Jobs -> JobRecords]
    BY <2>6, <2>7, JobEdit
  <2> QED
    BY <1>1, <2>1, <2>8 DEF StartPurge, TypeOK
<1>2. CASE DeleteData(j)
  <2>1. trouble' \in 0..MaxTrouble
    BY <1>2, TroubleType DEF DeleteData, Calm, TypeOK
  <2>2. job' \in [Jobs -> JobRecords]
    BY <1>0, <1>2, GotoType DEF DeleteData
  <2> QED
    BY <1>2, <2>1, <2>2 DEF DeleteData, TypeOK
<1>3. CASE DeleteEvents(j)
  <2> DEFINE doomed == {e \in website_event : Expired(e, j) /\ (job[j].path => e \in OnPath)}
  <2>1. trouble' \in 0..MaxTrouble
    BY <1>3, TroubleType DEF DeleteEvents, Calm, TypeOK
  <2>2. doomed \in SUBSET Events /\ KindOf[j] \in JobKinds
    BY JobAssumption DEF TypeOK
  <2>3. Cardinality(doomed) \in Nat
    BY <2>2, Counted
  <2>4. job' \in [Jobs -> JobRecords]
    <3>0. PICK n : n = Cardinality(doomed)
      OBVIOUS
    <3>1. \A k \in Nat : [job[j] EXCEPT !.pc = "sessions", !.events = k] \in JobRecords
      BY <1>0 DEF JobRecords
    <3>2. PICK k \in {n, 0} : job' = [job EXCEPT ![j] = [job[j] EXCEPT !.pc = "sessions", !.events = k]]
      BY <1>3, <3>0 DEF DeleteEvents, Affected
    <3>3. [job[j] EXCEPT !.pc = "sessions", !.events = k] \in JobRecords
      BY <2>3, <3>0, <3>1, <3>2
    <3> QED
      BY <3>2, <3>3, JobEdit
  <2>5. gone' \in [Events -> {"no", "auto", "admin", "manual", "path", "reset"}]
    <3>1. KindOf[j] \in {"auto", "admin", "manual"}
      BY <1>3, <2>2 DEF DeleteEvents, JobKinds
    <3>2. \/ gone' = gone
          \/ gone' = [e \in Events |->
                         IF e \in doomed
                           THEN IF job[j].path THEN "path" ELSE KindOf[j]
                           ELSE gone[e]]
      BY <1>3 DEF DeleteEvents
    <3> HIDE DEF doomed
    <3> QED
      BY <3>1, <3>2 DEF TypeOK
  <2> QED
    BY <1>3, <2>1, <2>2, <2>4, <2>5 DEF DeleteEvents, TypeOK
<1>4. CASE DeleteSessions(j)
  <2>1. trouble' \in 0..MaxTrouble
    BY <1>4, TroubleType DEF DeleteSessions
  <2>2. \/ Leave(j, "site")
        \/ job' = [job EXCEPT ![j].pc = "log",
                              ![j].now = IF KindOf[j] = "manual" THEN clock ELSE @]
    BY <1>4 DEF DeleteSessions
  <2>3. job' \in [Jobs -> JobRecords]
    <3>1. CASE Leave(j, "site")
      BY <1>0, <3>1, LeaveType
    <3>2. CASE job' = [job EXCEPT ![j].pc = "log",
                                  ![j].now = IF KindOf[j] = "manual" THEN clock ELSE @]
      BY <1>0, <3>2 DEF TypeOK, JobRecords
    <3> QED
      BY <2>2, <3>1, <3>2
  <2>4. session' \in SUBSET Sessions /\ removed' \in [Sessions -> {"never", "purge", "reset"}]
    BY <1>4 DEF DeleteSessions, TypeOK
  <2> QED
    BY <1>4, <2>1, <2>3, <2>4 DEF DeleteSessions, TypeOK
<1>5. CASE WriteLog(j)
  <2>1. trouble' \in 0..MaxTrouble
    BY <1>5, TroubleType DEF WriteLog, Calm, TypeOK
  <2>2. job' \in [Jobs -> JobRecords]
    BY <1>0, <1>5, GotoType DEF WriteLog
  <2>3. job[j].site \in Sites /\ job[j].events \in Nat
    BY <1>0 DEF JobRecords
  <2>4. logged' \in [Sites -> Nat] /\ unlogged' \in [Sites -> Nat]
    <3>1. \A w \in Sites : logged[w] + job[j].events \in Nat /\ unlogged[w] + job[j].events \in Nat
      BY <2>3 DEF TypeOK
    <3> QED
      BY <1>5, <2>3, <3>1 DEF WriteLog, TypeOK
  <2> QED
    BY <1>5, <2>1, <2>2, <2>4 DEF WriteLog, TypeOK
<1>6. CASE Stamp(j)
  <2>1. job' \in [Jobs -> JobRecords]
    BY <1>0, <1>6, LeaveType DEF Stamp
  <2>2. last_purged_at' \in [Sites -> Nat \cup {-1}]
    BY <1>0, <1>6 DEF Stamp, TypeOK, JobRecords
  <2> QED
    BY <1>6, <2>1, <2>2 DEF Stamp, TypeOK
<1> QED
  BY <1>1, <1>2, <1>3, <1>4, <1>5, <1>6 DEF PurgeStep

LEMMA TypeReset ==
  ASSUME TypeOK, NEW j \in Jobs, ResetStep(j)
  PROVE  TypeOK'
<1> USE DEF tables, ingest, history, counts
<1>0. job[j] \in JobRecords /\ {"events", "sessions", "done"} \subseteq JobStates
  BY DEF TypeOK, JobStates
<1>1. CASE StartReset(j)
  <2>1. trouble' \in 0..MaxTrouble
    BY <1>1, TroubleType DEF StartReset
  <2>2. job' \in [Jobs -> JobRecords]
    <3>1. PICK w \in Sites : job' = [job EXCEPT ![j] = [job[j] EXCEPT !.pc = "events", !.site = w]]
      BY <1>1 DEF StartReset
    <3>2. [job[j] EXCEPT !.pc = "events", !.site = w] \in JobRecords
      BY <1>0, <3>1 DEF JobRecords
    <3> QED
      BY <3>1, <3>2, JobEdit
  <2> QED
    BY <1>1, <2>1, <2>2 DEF StartReset, TypeOK
<1>2. CASE ResetEvents(j)
  <2>1. trouble' \in 0..MaxTrouble
    BY <1>2, TroubleType DEF ResetEvents
  <2>2. job' \in [Jobs -> JobRecords]
    BY <1>0, <1>2, GotoType, LeaveType DEF ResetEvents
  <2> QED
    BY <1>2, <2>1, <2>2 DEF ResetEvents, TypeOK
<1>3. CASE ResetSessions(j)
  <2>1. trouble' \in 0..MaxTrouble
    BY <1>3, TroubleType DEF ResetSessions
  <2>2. job' \in [Jobs -> JobRecords]
    BY <1>0, <1>3, LeaveType DEF ResetSessions
  <2> QED
    BY <1>3, <2>1, <2>2 DEF ResetSessions, TypeOK
<1> QED
  BY <1>1, <1>2, <1>3 DEF ResetStep

\* The entries that are still to be written are finitely many.
LEMMA UnwrittenType ==
  ASSUME NEW w \in Sites
  PROVE  UnwrittenOf(w) \in Nat
<1> DEFINE All == Jobs \X (1..Cardinality(Events))
           S == {d \in All : /\ KindOf[d[1]] # "reset" /\ job[d[1]].site = w
                             /\ d[2] <= Unwritten(d[1])}
<1>1. Cardinality(Events) \in Nat
  BY EventAssumption, FS_CardinalityType
<1>2. IsFiniteSet(1..Cardinality(Events))
  BY <1>1, FS_Interval
<1>3. IsFiniteSet(All)
  BY <1>2, JobAssumption, FS_Product
<1>4. IsFiniteSet(S)
  BY <1>3, FS_Subset
<1>5. Cardinality(S) \in Nat
  BY <1>4, FS_CardinalityType
<1> QED
  BY <1>5 DEF UnwrittenOf

LEMMA TypeEnvironment ==
  ASSUME TypeOK, (\E w \in Sites : SavePolicy(w)) \/ Tick \/ Restart
  PROVE  TypeOK'
<1> USE DEF tables, ingest, history, counts
<1>1. ASSUME NEW w \in Sites, SavePolicy(w)
      PROVE  TypeOK'
  <2>1. trouble' \in 0..MaxTrouble
    BY <1>1, TroubleType DEF SavePolicy
  <2>2. policy' \in [Sites -> Policies]
    BY <1>1, DaysAssumption DEF SavePolicy, Clamped, TypeOK, Policies
  <2>3. Enabled(policy') \in SUBSET (Sites \X Nat)
    BY <2>2 DEF Enabled, Policies
  <2>4. in_force' \in [Jobs -> SUBSET (Sites \X Nat)]
    BY <1>1, <2>3 DEF SavePolicy, TypeOK
  <2> QED
    BY <1>1, <2>1, <2>2, <2>4 DEF SavePolicy, TypeOK
<1>2. CASE Tick
  BY <1>2 DEF Tick, TypeOK
<1>3. CASE Restart
  <2>1. trouble' \in 0..MaxTrouble
    BY <1>3, TroubleType DEF Restart
  <2>2. job' \in [Jobs -> JobRecords]
    <3>1. AnySite \in Sites
      BY SiteAssumption DEF AnySite
    <3>2. PICK p \in BOOLEAN : p = FALSE
      OBVIOUS
    <3>3. \A label \in {"idle", "done"} :
            [pc |-> label, todo |-> {}, now |-> 0, site |-> AnySite,
             cutoff |-> 0, path |-> p, events |-> 0] \in JobRecords
      BY <3>1, <3>2 DEF JobRecords, JobStates
    <3>4. job' = [i \in Jobs |->
                   [pc |-> IF KindOf[i] = "auto" \/ job[i].pc = "idle" THEN "idle" ELSE "done",
                    todo |-> {}, now |-> 0, site |-> AnySite,
                    cutoff |-> 0, path |-> p, events |-> 0]]
      BY <1>3, <3>2, Zenon DEF Restart
    <3>5. ASSUME NEW i \in Jobs
          PROVE  job'[i] \in JobRecords
      <4>1. PICK label \in {"idle", "done"} :
              job'[i] = [pc |-> label, todo |-> {}, now |-> 0, site |-> AnySite,
                         cutoff |-> 0, path |-> p, events |-> 0]
        BY <3>4
      <4> QED
        BY <3>3, <4>1
    <3> QED
      BY <3>4, <3>5
  <2>3. unlogged' \in [Sites -> Nat]
    <3>1. \A w \in Sites : UnwrittenOf(w) \in Nat
      BY UnwrittenType
    <3> QED
      BY <1>3, <3>1 DEF Restart, TypeOK
  <2>4. /\ lost' \in SUBSET Events
        /\ handler' \in [Events -> {"idle", "mark", "push", "done", "gone"}]
    <3>1. InFlight \in SUBSET Events
      BY DEF InFlight, TypeOK
    <3> QED
      BY <1>3, <3>1 DEF Restart, TypeOK
  <2> QED
    BY <1>3, <2>1, <2>2, <2>3, <2>4 DEF Restart, TypeOK
<1> QED
  BY <1>1, <1>2, <1>3

LEMMA TypeStep == TypeOK /\ QueueShape /\ [Next]_vars => TypeOK'
<1> SUFFICES ASSUME TypeOK, QueueShape, [Next]_vars PROVE TypeOK'
  OBVIOUS
<1>1. CASE UNCHANGED vars
  BY <1>1 DEF vars, TypeOK, tables, ingest, history, counts
<1>2. CASE Next
  BY <1>2, TypeIngest, TypeRound, TypeAlerts, TypePurge, TypeReset, TypeEnvironment DEF Next
<1> QED
  BY <1>1, <1>2

-----------------------------------------------------------------------------
(* The jobs *)

\* A step is of one job, whose record changes, or leaves the jobs alone, or is
\* a restart.
JobStep(j) == RoundStep(j) \/ PurgeStep(j) \/ ResetStep(j) \/ AlertsReturn(j)

LEMMA JobSteps ==
  ASSUME [Next]_vars
  PROVE  (\E j \in Jobs : JobStep(j)) \/ UNCHANGED job \/ Restart
<1>1. ASSUME UNCHANGED vars
      PROVE  UNCHANGED job
  BY <1>1 DEF vars
<1>2. ASSUME IngestStep
      PROVE  UNCHANGED job
  BY <1>2 DEF IngestStep, HandlerStep, ReadSession, MarkSession, Push, WriteItem, CommitItem,
       EvictSession
<1>3. ASSUME (\E w \in Sites : SavePolicy(w)) \/ Tick
      PROVE  UNCHANGED job
  BY <1>3 DEF SavePolicy, Tick
<1> QED
  BY <1>1, <1>2, <1>3 DEF Next, JobStep

LEMMA Left ==
  ASSUME TypeOK, NEW j \in Jobs, NEW label, Leave(j, label)
  PROVE  /\ job'[j].pc = label /\ job'[j].events = 0 /\ job'[j].site = AnySite
         /\ job'[j].todo = job[j].todo /\ job'[j].now = job[j].now
         /\ \A i \in Jobs \ {j} : job'[i] = job[i]
<1>1. job[j] \in JobRecords
  BY DEF TypeOK
<1> QED
  BY <1>1 DEF Leave, TypeOK, JobRecords

LEMMA JobInit == Init => JobShape
<1>1. Cardinality(Events) \in Nat
  BY EventAssumption, FS_CardinalityType
<1> QED
  BY <1>1 DEF Init, JobShape

LEMMA JobShapeStep == TypeOK /\ JobShape /\ [Next]_vars => JobShape'
<1> SUFFICES ASSUME TypeOK, JobShape, [Next]_vars PROVE JobShape'
  OBVIOUS
<1>0. Cardinality(Events) \in Nat
  BY EventAssumption, FS_CardinalityType
<1>1. ASSUME NEW j \in Jobs, JobStep(j)
      PROVE  JobShape'
  <2> DEFINE Fine == /\ job'[j].events <= Cardinality(Events)
                     /\ job'[j].pc = "data" => KindOf[j] = "manual" /\ ~job'[j].path
                     /\ job'[j].pc \in {"now", "site"} => KindOf[j] \in {"auto", "admin"}
                     /\ job'[j].pc \in {"log", "stamp"} => KindOf[j] # "reset"
  <2>1. job[j] \in JobRecords /\ KindOf[j] \in JobKinds
    BY JobAssumption DEF TypeOK
  <2>2. \A i \in Jobs \ {j} : job'[i] = job[i]
    BY <1>1 DEF JobStep, RoundStep, PurgeStep, ResetStep, Fetch, TakeNow, NextSite, EndRound,
         StartPurge, DeleteData, DeleteEvents, DeleteSessions, WriteLog, Stamp,
         AlertsReturn, StartReset, ResetEvents, ResetSessions, Goto, Leave, TypeOK
  <2>3. ASSUME RoundStep(j)
        PROVE  Fine
    <3>1. ASSUME Fetch(j)
          PROVE  Fine
      <4>1. \/ job' = [job EXCEPT ![j].pc = "now", ![j].todo = Due]
            \/ job' = [job EXCEPT ![j].pc = AfterRound(j)]
        BY <3>1 DEF Fetch, Goto
      <4>2. job'[j].pc \in {"now", "alerts", "done"} /\ job'[j].events = job[j].events
        BY <2>1, <4>1 DEF AfterRound, TypeOK, JobRecords
      <4>3. KindOf[j] \in {"auto", "admin"}
        BY <3>1 DEF Fetch
      <4> QED
        BY <1>0, <4>2, <4>3 DEF JobShape
    <3>2. ASSUME TakeNow(j)
          PROVE  Fine
      BY <1>0, <2>1, <3>2 DEF TakeNow, JobShape, TypeOK, JobRecords
    <3>3. ASSUME NextSite(j)
          PROVE  Fine
      <4>1. PICK d : job' = [job EXCEPT ![j].pc = "events", ![j].todo = @ \ {d},
                               ![j].site = d[1], ![j].cutoff = Ago(job[j].now, d[2])]
        BY <3>3 DEF NextSite
      <4>2. job'[j].pc = "events" /\ job'[j].events = job[j].events
        BY <2>1, <4>1 DEF TypeOK, JobRecords
      <4> QED
        BY <1>0, <4>2 DEF JobShape
    <3>4. ASSUME EndRound(j)
          PROVE  Fine
      BY <1>0, <2>1, <3>4 DEF EndRound, AfterRound, JobShape, TypeOK, JobRecords
    <3> QED
      BY <2>3, <3>1, <3>2, <3>3, <3>4 DEF RoundStep
  <2>4. ASSUME StartPurge(j)
        PROVE  Fine
    BY <1>0, <2>1, <2>4 DEF StartPurge, JobShape, TypeOK, JobRecords
  <2>5. ASSUME DeleteData(j)
        PROVE  Fine
    BY <1>0, <2>1, <2>5 DEF DeleteData, Goto, JobShape, TypeOK, JobRecords
  <2>6. ASSUME DeleteEvents(j)
        PROVE  Fine
    <3>1. PICK D \in SUBSET Events :
            \/ job' = [job EXCEPT ![j].pc = "sessions", ![j].events = Cardinality(D)]
            \/ job' = [job EXCEPT ![j].pc = "sessions", ![j].events = 0]
      BY <2>6 DEF DeleteEvents, Affected, TypeOK
    <3>2. Cardinality(D) <= Cardinality(Events)
      BY <3>1, Counted
    <3> QED
      BY <1>0, <2>1, <3>1, <3>2 DEF JobShape, TypeOK, JobRecords
  <2>7. ASSUME DeleteSessions(j)
        PROVE  Fine
    <3>1. \/ Leave(j, "site") /\ KindOf[j] = "auto"
          \/ job' = [job EXCEPT ![j].pc = "log",
                                ![j].now = IF KindOf[j] = "manual" THEN clock ELSE @]
      BY <2>7 DEF DeleteSessions
    <3>2. CASE Leave(j, "site") /\ KindOf[j] = "auto"
      BY <1>0, <3>2, Left
    <3>3. CASE job' = [job EXCEPT ![j].pc = "log",
                                  ![j].now = IF KindOf[j] = "manual" THEN clock ELSE @]
      BY <1>0, <2>1, <2>7, <3>3 DEF DeleteSessions, JobShape, TypeOK, JobRecords
    <3> QED
      BY <3>1, <3>2, <3>3
  <2>8. ASSUME WriteLog(j)
        PROVE  Fine
    BY <1>0, <2>1, <2>8 DEF WriteLog, Goto, JobShape, TypeOK, JobRecords
  <2>9. ASSUME Stamp(j)
        PROVE  Fine
    BY <1>0, <2>1, <2>9, Left DEF Stamp, JobShape, JobKinds
  <2>10. ASSUME ResetStep(j)
        PROVE  Fine
    <3>1. ASSUME StartReset(j)
          PROVE  Fine
      BY <1>0, <2>1, <3>1 DEF StartReset, JobShape, TypeOK, JobRecords
    <3>2. ASSUME ResetEvents(j)
          PROVE  Fine
      <4>1. CASE Goto(j, "sessions")
        BY <1>0, <2>1, <3>2, <4>1 DEF Goto, JobShape, TypeOK, JobRecords
      <4>2. CASE Leave(j, "done")
        BY <1>0, <4>2, Left
      <4> QED
        BY <3>2, <4>1, <4>2 DEF ResetEvents
    <3>3. ASSUME ResetSessions(j)
          PROVE  Fine
      BY <1>0, <3>3, Left DEF ResetSessions
    <3> QED
      BY <2>10, <3>1, <3>2, <3>3 DEF ResetStep
  <2>11. ASSUME AlertsReturn(j)
        PROVE  Fine
    BY <1>0, <2>1, <2>11 DEF AlertsReturn, Goto, JobShape, TypeOK, JobRecords
  <2>12. Fine
    BY <1>1, <2>3, <2>4, <2>5, <2>6, <2>7, <2>8, <2>9, <2>10, <2>11 DEF JobStep, PurgeStep
  <2> QED
    BY <2>2, <2>12 DEF JobShape
<1>2. CASE UNCHANGED job
  BY <1>2 DEF JobShape
<1>3. CASE Restart
  BY <1>0, <1>3 DEF Restart, JobShape
<1> QED
  BY <1>1, <1>2, <1>3, JobSteps

-----------------------------------------------------------------------------
(* The lanes *)

\* A purge or a reset removes stored events and nothing that waits.
LEMMA RemovalSteps ==
  ASSUME NEW j \in Jobs, DeleteEvents(j) \/ ResetEvents(j)
  PROVE  /\ UNCHANGED <<handler, queue, tx, known, session_cache, lost, session, removed,
                         late>>
         /\ website_event' \subseteq website_event
         /\ gone' = gone \/ \E D \in SUBSET website_event :
              /\ website_event' = website_event \ D
              /\ \E how : gone' = [e \in Events |-> IF e \in D THEN how ELSE gone[e]]
<1> USE DEF ingest
<1>1. CASE DeleteEvents(j)
  <2>1. CASE UNCHANGED <<website_event, gone>>
    BY <1>1, <2>1 DEF DeleteEvents
  <2>2. CASE ~UNCHANGED <<website_event, gone>>
    <3> DEFINE D == {e \in website_event : Expired(e, j) /\ (job[j].path => e \in OnPath)}
               how == IF job[j].path THEN "path" ELSE KindOf[j]
    <3>1. /\ website_event' = website_event \ D
          /\ gone' = [e \in Events |-> IF e \in D THEN how ELSE gone[e]]
      BY <1>1, <2>2 DEF DeleteEvents
    <3>2. D \in SUBSET website_event
      OBVIOUS
    <3> HIDE DEF D, how
    <3> QED
      BY <1>1, <3>1, <3>2 DEF DeleteEvents
  <2> QED
    BY <2>1, <2>2
<1>2. CASE ResetEvents(j)
  <2> DEFINE D == {e \in website_event : Site(e) = job[j].site}
  <2>1. \/ UNCHANGED <<website_event, gone>>
        \/ /\ website_event' = website_event \ D
           /\ gone' = [e \in Events |-> IF e \in D THEN "reset" ELSE gone[e]]
    BY <1>2 DEF ResetEvents
  <2>2. D \in SUBSET website_event
    OBVIOUS
  <2> HIDE DEF D
  <2> QED
    BY <1>2, <2>1, <2>2 DEF ResetEvents
<1> QED
  BY <1>1, <1>2

\* What the other steps leave alone.
LEMMA LaneSteps ==
  ASSUME [Next]_vars
  PROVE  \/ \E e \in Events : HandlerStep(e)
         \/ \E x \in Sessions : WriteItem(x) \/ CommitItem(x)
         \/ \E x \in Sessions : EvictSession(x)
         \/ \E j \in Jobs : DeleteEvents(j) \/ ResetEvents(j)
         \/ \E j \in Jobs : DeleteSessions(j) \/ ResetSessions(j)
         \/ Restart
         \/ UNCHANGED <<handler, queue, tx, known, session_cache, lost, website_event, gone,
                        session, removed, late>>
<1> USE DEF tables, ingest, history, counts
<1> DEFINE Still == UNCHANGED <<handler, queue, tx, known, session_cache, lost, website_event,
                                gone, session, removed, late>>
<1>1. UNCHANGED vars => Still
  BY DEF vars
<1>2. ASSUME NEW j \in Jobs, RoundStep(j) \/ StartPurge(j) \/ DeleteData(j) \/ WriteLog(j)
                             \/ Stamp(j) \/ StartReset(j) \/ AlertsReturn(j)
      PROVE  Still
  BY <1>2 DEF RoundStep, Fetch, TakeNow, NextSite, EndRound, StartPurge, DeleteData, WriteLog,
       Stamp, StartReset, AlertsReturn
<1>3. ASSUME (\E w \in Sites : SavePolicy(w)) \/ Tick
      PROVE  Still
  BY <1>3 DEF SavePolicy, Tick
<1> HIDE DEF Still
<1> QED
  BY <1>1, <1>2, <1>3 DEF Next, IngestStep, PurgeStep, ResetStep, Still

\* Adding to a lane, and taking its first item.
LEMMA LaneItems ==
  ASSUME NEW q \in Seq(Events)
  PROVE  /\ \A e \in Events :
              /\ DOMAIN Append(q, e) = 1..(Len(q) + 1) /\ DOMAIN q = 1..Len(q)
              /\ Len(q) \in Nat
              /\ \A i \in 1..Len(q) : Append(q, e)[i] = q[i]
              /\ Append(q, e)[Len(q) + 1] = e
         /\ q # <<>> =>
              /\ DOMAIN Tail(q) = 1..(Len(q) - 1) /\ DOMAIN q = 1..Len(q)
              /\ Len(q) \in Nat \ {0} /\ Head(q) = q[1] /\ 1 \in DOMAIN q
              /\ \A i \in 1..(Len(q) - 1) : Tail(q)[i] = q[i + 1] /\ i + 1 \in DOMAIN q
  OBVIOUS

\* The item of a worker.
LEMMA HeadItem ==
  ASSUME TypeOK, QueueShape, NEW x \in Sessions, queue[x] # <<>>
  PROVE  LET e == Head(queue[x])
         IN /\ e \in Events /\ SessionOf[e] = x /\ handler[e] = "done" /\ gone[e] = "no"
            /\ e \notin website_event /\ e \in InFlight
<1>1. queue[x] \in Seq(Events)
  BY DEF TypeOK
<1>2. Head(queue[x]) = queue[x][1] /\ 1 \in DOMAIN queue[x] /\ queue[x][1] \in Events
  BY <1>1, LaneItems
<1> QED
  BY <1>2 DEF QueueShape, InFlight

LEMMA LaneInit == Init => QueueShape /\ StoredShape /\ HandlerShape /\ Claims
  BY DEF Init, QueueShape, StoredShape, HandlerShape, Claims, InFlight

\* An item is added to its lane once.
LEMMA PushedOnce ==
  ASSUME TypeOK, QueueShape, NEW e \in Events, Push(e)
  PROVE  QueueShape'
<1>1. PICK x \in Sessions : x = SessionOf[e]
  BY SessionAssumption
<1>2. /\ handler[e] = "push" /\ handler' = [handler EXCEPT ![e] = "done"]
      /\ UNCHANGED <<tx, gone, website_event>>
  BY DEF Push, Move, history, tables
<1>3. \A f \in Events \ {e} : handler'[f] = handler[f]
  BY <1>2 DEF TypeOK
<1>4. \A f \in Events : handler'[f] # "done" => f \notin website_event' /\ gone'[f] = "no"
  BY <1>2, <1>3 DEF QueueShape, TypeOK
<1>5. \A z \in Sessions : queue[z] \in Seq(Events)
  BY DEF TypeOK
<1>6. \A z \in Sessions : \A i \in DOMAIN queue[z] :
        queue[z][i] \in Events \ {e} /\ handler'[queue[z][i]] = "done"
  <2>1. ASSUME NEW z \in Sessions, NEW i \in DOMAIN queue[z]
        PROVE  queue[z][i] \in Events \ {e} /\ handler[queue[z][i]] = "done"
    BY <1>2, <1>5 DEF QueueShape
  <2> QED
    BY <1>3, <2>1
<1>7. CASE queue' = queue
  BY <1>2, <1>4, <1>6, <1>7 DEF QueueShape
<1>8. CASE queue' = [queue EXCEPT ![x] = Append(@, e)]
  <2> DEFINE q == queue[x]
             r == Append(q, e)
  <2>1. /\ DOMAIN r = 1..(Len(q) + 1) /\ DOMAIN q = 1..Len(q) /\ Len(q) \in Nat
        /\ \A i \in 1..Len(q) : r[i] = q[i]
        /\ r[Len(q) + 1] = e
    BY <1>5, LaneItems
  <2>2. \A z \in Sessions : queue'[z] = IF z = x THEN r ELSE queue[z]
    BY <1>8 DEF TypeOK
  <2>3. r # <<>>
    BY <1>5
  <2>4. gone[e] = "no" /\ e \notin website_event /\ handler'[e] = "done"
    BY <1>2 DEF QueueShape, TypeOK
  <2>5. ASSUME NEW i \in DOMAIN r
        PROVE  /\ SessionOf[r[i]] = x /\ handler'[r[i]] = "done"
               /\ gone[r[i]] = "no" /\ r[i] \notin website_event
               /\ \A k \in DOMAIN r : r[k] = r[i] => k = i
    <3> HIDE DEF r
    <3>1. CASE i = Len(q) + 1
      BY <1>1, <1>6, <2>1, <2>4, <3>1
    <3>2. CASE i \in 1..Len(q)
      BY <1>6, <2>1, <3>2 DEF QueueShape
    <3> QED
      BY <2>1, <3>1, <3>2
  <2> HIDE DEF r
  <2>6. ASSUME NEW z \in Sessions
        PROVE  /\ tx'[z] # "none" => queue'[z] # <<>>
               /\ \A i \in DOMAIN queue'[z] :
                    /\ SessionOf[queue'[z][i]] = z
                    /\ handler'[queue'[z][i]] = "done"
                    /\ gone'[queue'[z][i]] = "no" /\ queue'[z][i] \notin website_event'
                    /\ \A k \in DOMAIN queue'[z] : queue'[z][k] = queue'[z][i] => k = i
    <3>1. CASE z = x
      <4>1. queue'[z] = r /\ gone' = gone /\ website_event' = website_event
        BY <1>2, <2>2, <3>1
      <4>2. ASSUME NEW i \in DOMAIN r
            PROVE  /\ SessionOf[r[i]] = z /\ handler'[r[i]] = "done"
                   /\ gone'[r[i]] = "no" /\ r[i] \notin website_event'
                   /\ \A k \in DOMAIN r : r[k] = r[i] => k = i
        BY <2>5, <3>1, <4>1
      <4> QED
        BY <2>3, <4>1, <4>2
    <3>2. CASE z # x
      BY <1>2, <1>6, <2>2, <3>2 DEF QueueShape
    <3> QED
      BY <3>1, <3>2
  <2> QED
    BY <1>4, <2>6 DEF QueueShape
<1> QED
  BY <1>1, <1>7, <1>8 DEF Push

\* An item leaves its lane, stored or dropped.
LEMMA ItemTaken ==
  ASSUME TypeOK, QueueShape, NEW x \in Sessions, queue[x] # <<>>, TakeItem(x),
         website_event' \subseteq website_event \cup {Head(queue[x])},
         UNCHANGED <<gone, handler>>,
         tx'[x] = "none", \A z \in Sessions \ {x} : tx'[z] = tx[z]
  PROVE  QueueShape'
<1> DEFINE q == queue[x]
           r == Tail(q)
<1>1. q \in Seq(Events)
  BY DEF TypeOK
<1>2. /\ DOMAIN r = 1..(Len(q) - 1) /\ DOMAIN q = 1..Len(q)
      /\ Len(q) \in Nat \ {0} /\ Head(q) = q[1] /\ 1 \in DOMAIN q
      /\ \A i \in 1..(Len(q) - 1) : r[i] = q[i + 1] /\ i + 1 \in DOMAIN q
  BY <1>1, LaneItems
<1>3. \A z \in Sessions : queue'[z] = (IF z = x THEN r ELSE queue[z])
  BY DEF TakeItem, TypeOK
<1>4. gone[Head(q)] = "no" /\ SessionOf[Head(q)] = x /\ handler[Head(q)] = "done"
  BY HeadItem
<1> HIDE DEF r
<1>5. ASSUME NEW i \in DOMAIN r
      PROVE  /\ SessionOf[r[i]] = x /\ handler[r[i]] = "done" /\ gone[r[i]] = "no"
             /\ r[i] \notin website_event'
             /\ \A k \in DOMAIN r : r[k] = r[i] => k = i
  <2>1. r[i] = q[i + 1] /\ i + 1 \in DOMAIN q /\ i + 1 # 1
    BY <1>2
  <2>2. /\ SessionOf[q[i + 1]] = x /\ handler[q[i + 1]] = "done"
        /\ gone[q[i + 1]] = "no" /\ q[i + 1] \notin website_event
        /\ \A k \in DOMAIN q : q[k] = q[i + 1] => k = i + 1
    BY <2>1 DEF QueueShape
  <2>3. q[i + 1] # Head(q)
    BY <1>2, <2>1, <2>2
  <2>4. ASSUME NEW k \in DOMAIN r, r[k] = r[i]
        PROVE  k = i
    <3>1. k \in Int /\ i \in Int /\ r[k] = q[k + 1] /\ k + 1 \in DOMAIN q
      BY <1>2
    <3>2. k + 1 = i + 1
      BY <2>1, <2>2, <2>4, <3>1
    <3> QED
      BY <3>1, <3>2
  <2> QED
    BY <2>1, <2>2, <2>3, <2>4
<1>6. ASSUME NEW z \in Sessions, z # x, NEW i \in DOMAIN queue[z]
      PROVE  queue[z][i] # Head(q)
  BY <1>4, <1>6 DEF QueueShape
<1>7. ASSUME NEW z \in Sessions
      PROVE  /\ tx'[z] # "none" => queue'[z] # <<>>
             /\ \A i \in DOMAIN queue'[z] :
                  /\ SessionOf[queue'[z][i]] = z
                  /\ handler'[queue'[z][i]] = "done"
                  /\ gone'[queue'[z][i]] = "no" /\ queue'[z][i] \notin website_event'
                  /\ \A k \in DOMAIN queue'[z] : queue'[z][k] = queue'[z][i] => k = i
  <2>1. CASE z = x
    <3>1. queue'[z] = r /\ tx'[z] = "none"
      BY <1>3, <2>1
    <3>2. ASSUME NEW i \in DOMAIN r
          PROVE  /\ SessionOf[r[i]] = z /\ handler'[r[i]] = "done" /\ gone'[r[i]] = "no"
                 /\ r[i] \notin website_event'
                 /\ \A k \in DOMAIN r : r[k] = r[i] => k = i
      BY <1>5, <2>1
    <3> QED
      BY <3>1, <3>2
  <2>2. CASE z # x
    <3>1. queue'[z] = queue[z] /\ tx'[z] = tx[z]
      BY <1>3, <2>2
    <3> QED
      BY <1>6, <2>2, <3>1 DEF QueueShape
  <2> QED
    BY <2>1, <2>2
<1>8. \A f \in Events : handler'[f] # "done" => f \notin website_event' /\ gone'[f] = "no"
  BY <1>4 DEF QueueShape
<1> QED
  BY <1>7, <1>8 DEF QueueShape

LEMMA QueueStep ==
  TypeOK /\ QueueShape /\ StoredShape /\ [Next]_vars => QueueShape' /\ StoredShape'
<1> SUFFICES ASSUME TypeOK, QueueShape, StoredShape, [Next]_vars
             PROVE  QueueShape' /\ StoredShape'
  OBVIOUS
<1>0. \A x \in Sessions : queue[x] \in Seq(Events)
  BY DEF TypeOK
<1>1. ASSUME NEW e \in Events, HandlerStep(e)
      PROVE  QueueShape' /\ StoredShape'
  <2>1. UNCHANGED <<website_event, gone>>
    BY <1>1 DEF HandlerStep, ReadSession, MarkSession, Push, tables, history
  <2>2. CASE Push(e)
    BY <2>1, <2>2, PushedOnce DEF StoredShape
  <2>3. CASE ReadSession(e) \/ MarkSession(e)
    <3>1. PICK label \in {"mark", "push"} : handler' = [handler EXCEPT ![e] = label]
      BY <2>3 DEF ReadSession, MarkSession, Move
    <3>2. UNCHANGED <<queue, tx>> /\ handler[e] # "done"
      BY <2>3 DEF ReadSession, MarkSession
    <3>3. \A f \in Events : handler'[f] = IF f = e THEN label ELSE handler[f]
      BY <3>1 DEF TypeOK
    <3>4. \A x \in Sessions : \A i \in DOMAIN queue[x] : queue[x][i] \in Events
      BY <1>0
    <3> QED
      BY <2>1, <3>2, <3>3, <3>4 DEF QueueShape, StoredShape
  <2> QED
    BY <1>1, <2>2, <2>3 DEF HandlerStep
<1>2. ASSUME NEW x \in Sessions, WriteItem(x)
      PROVE  QueueShape' /\ StoredShape'
  <2>1. UNCHANGED <<website_event, gone, handler>> /\ queue[x] # <<>> /\ tx[x] = "none"
    BY <1>2 DEF WriteItem, tables, history
  <2>2. CASE UNCHANGED queue
    <3>1. \A z \in Sessions \ {x} : tx'[z] = tx[z]
      BY <1>2 DEF WriteItem, TypeOK
    <3> QED
      BY <2>1, <2>2, <3>1 DEF QueueShape, StoredShape
  <2>3. CASE TakeItem(x) /\ UNCHANGED tx
    BY <2>1, <2>3, ItemTaken DEF StoredShape
  <2> QED
    BY <1>2, <2>2, <2>3 DEF WriteItem
<1>3. ASSUME NEW x \in Sessions, CommitItem(x)
      PROVE  QueueShape' /\ StoredShape'
  <2>1. /\ queue[x] # <<>> /\ website_event' \subseteq website_event \cup {Head(queue[x])}
        /\ UNCHANGED <<gone, handler>> /\ TakeItem(x)
        /\ tx'[x] = "none" /\ \A z \in Sessions \ {x} : tx'[z] = tx[z]
    BY <1>3 DEF CommitItem, StoreItem, QueueShape, TypeOK
  <2> QED
    BY <2>1, ItemTaken, HeadItem DEF StoredShape
<1>4. ASSUME NEW j \in Jobs, DeleteEvents(j) \/ ResetEvents(j)
      PROVE  QueueShape' /\ StoredShape'
  <2>1. CASE gone' = gone
    BY <1>4, <2>1, RemovalSteps DEF QueueShape, StoredShape
  <2>2. CASE gone' # gone
    <3>1. PICK D \in SUBSET website_event :
            /\ website_event' = website_event \ D
            /\ \E how : gone' = [e \in Events |-> IF e \in D THEN how ELSE gone[e]]
      BY <1>4, <2>2, RemovalSteps
    <3>2. \A e \in Events \ D : gone'[e] = gone[e]
      BY <3>1
    <3>3. \A x \in Sessions : \A i \in DOMAIN queue[x] : queue[x][i] \in Events
      BY <1>0
    <3>4. UNCHANGED <<queue, tx, handler>>
      BY <1>4, RemovalSteps
    <3> QED
      BY <3>1, <3>2, <3>3, <3>4 DEF QueueShape, StoredShape, TypeOK
  <2> QED
    BY <2>1, <2>2
<1>5. ASSUME (\E j \in Jobs : DeleteSessions(j) \/ ResetSessions(j))
             \/ (\E x \in Sessions : EvictSession(x))
      PROVE  QueueShape' /\ StoredShape'
  <2>1. UNCHANGED <<handler, queue, tx, website_event, gone>>
    BY <1>5 DEF DeleteSessions, ResetSessions, EvictSession, ingest, tables, history
  <2> QED
    BY <2>1 DEF QueueShape, StoredShape
<1>6. CASE Restart
  <2>1. /\ UNCHANGED <<website_event, gone>>
        /\ \A x \in Sessions : queue'[x] = <<>> /\ tx'[x] = "none"
        /\ \A e \in Events : handler'[e] # "done" => handler[e] # "done"
    BY <1>6 DEF Restart, tables
  <2> QED
    BY <2>1 DEF QueueShape, StoredShape
<1>7. CASE UNCHANGED <<handler, queue, tx, known, session_cache, lost, website_event, gone,
                        session, removed, late>>
  BY <1>7 DEF QueueShape, StoredShape
<1> QED
  BY <1>1, <1>2, <1>3, <1>4, <1>5, <1>6, <1>7, LaneSteps

-----------------------------------------------------------------------------
(* What the ingest path claims of the sessions *)

\* What an item carries is settled once its handler has read the cache.
LEMMA KnownStays ==
  ASSUME TypeOK, [Next]_vars
  PROVE  \A e \in Events : handler[e] # "idle" => known'[e] = known[e]
<1>1. ASSUME NEW f \in Events, HandlerStep(f)
      PROVE  \A e \in Events : handler[e] # "idle" => known'[e] = known[e]
  BY <1>1 DEF HandlerStep, ReadSession, MarkSession, Push, TypeOK
<1>2. ASSUME (\E x \in Sessions : WriteItem(x) \/ CommitItem(x) \/ EvictSession(x))
             \/ (\E j \in Jobs : DeleteEvents(j) \/ ResetEvents(j) \/ DeleteSessions(j)
                                 \/ ResetSessions(j))
             \/ Restart
      PROVE  known' = known
  BY <1>2, RemovalSteps DEF WriteItem, CommitItem, EvictSession, DeleteSessions, ResetSessions,
     Restart, ingest
<1> QED
  BY <1>1, <1>2, LaneSteps

\* An item in flight stays so, is dropped, or is stored by its worker.
LEMMA FlightStep ==
  ASSUME TypeOK, QueueShape, [Next]_vars, NEW e \in InFlight
  PROVE  \/ e \in InFlight' \/ e \in lost'
         \/ \E x \in Sessions : /\ CommitItem(x) /\ tx[x] # "aborted" /\ StoreItem(x, e)
                                /\ e = Head(queue[x])
<1>0. e \in Events /\ \A z \in Sessions : queue[z] \in Seq(Events)
  BY DEF InFlight, TypeOK
<1>1. ASSUME NEW f \in Events, HandlerStep(f)
      PROVE  e \in InFlight' \cup lost'
  <2>1. CASE handler[e] = "push"
    <3>1. CASE f # e
      <4>1. handler'[e] = handler[e]
        BY <1>0, <1>1, <3>1 DEF HandlerStep, ReadSession, MarkSession, Push, Move, TypeOK
      <4> QED
        BY <1>0, <2>1, <4>1 DEF InFlight
    <3>2. CASE f = e
      <4>1. Push(e)
        BY <1>1, <2>1, <3>2 DEF HandlerStep, ReadSession, MarkSession
      <4>2. CASE e \in lost'
        BY <4>2
      <4>3. CASE queue' = [queue EXCEPT ![SessionOf[e]] = Append(@, e)]
        <5>1. PICK x \in Sessions : x = SessionOf[e]
          BY <1>0, SessionAssumption
        <5>2. queue'[x] = Append(queue[x], e)
          BY <4>3, <5>1 DEF TypeOK
        <5>3. Len(queue[x]) + 1 \in DOMAIN queue'[x] /\ queue'[x][Len(queue[x]) + 1] = e
          BY <1>0, <5>2
        <5> QED
          BY <5>3 DEF InFlight
      <4> QED
        BY <4>1, <4>2, <4>3 DEF Push
    <3> QED
      BY <3>1, <3>2
  <2>2. ASSUME NEW x \in Sessions, NEW i \in DOMAIN queue[x], queue[x][i] = e
        PROVE  e \in InFlight'
    <3>1. i \in DOMAIN queue'[x] /\ queue'[x][i] = e
      <4>1. CASE queue' = queue
        BY <2>2, <4>1
      <4>2. CASE queue' # queue
        <5>1. queue' = [queue EXCEPT ![SessionOf[f]] = Append(@, f)]
          BY <1>1, <4>2 DEF HandlerStep, ReadSession, MarkSession, Push
        <5>2. queue'[x] \in {queue[x], Append(queue[x], f)}
          BY <5>1 DEF TypeOK
        <5> QED
          BY <1>0, <2>2, <5>2
      <4> QED
        BY <4>1, <4>2
    <3> QED
      BY <3>1 DEF InFlight
  <2> QED
    BY <2>1, <2>2 DEF InFlight
\* The first item of a lane leaves it, and the others stay.
<1>2. ASSUME NEW x \in Sessions, TakeItem(x), queue[x] # <<>>, e # Head(queue[x]), handler' = handler
      PROVE  e \in InFlight'
  <2>1. CASE handler[e] = "push"
    BY <1>0, <1>2, <2>1 DEF InFlight
  <2>2. ASSUME NEW z \in Sessions, NEW i \in DOMAIN queue[z], queue[z][i] = e
        PROVE  \E k \in DOMAIN queue'[z] : queue'[z][k] = e
    <3>1. CASE z # x
      BY <1>2, <2>2, <3>1 DEF TakeItem, TypeOK
    <3>2. CASE z = x
      <4>1. queue'[x] = Tail(queue[x])
        BY <1>2 DEF TakeItem, TypeOK
      <4>2. i # 1 /\ i \in 1..Len(queue[x]) /\ Len(queue[x]) \in Nat
        BY <1>0, <1>2, <2>2, <3>2, LaneItems
      <4>3. i - 1 \in 1..(Len(queue[x]) - 1)
        BY <4>2
      <4>4. i - 1 \in DOMAIN Tail(queue[x]) /\ Tail(queue[x])[i - 1] = queue[x][(i - 1) + 1]
        BY <1>0, <1>2, <4>3, LaneItems
      <4> QED
        BY <2>2, <3>2, <4>1, <4>2, <4>4
    <3> QED
      BY <3>1, <3>2
  <2> QED
    BY <2>1, <2>2 DEF InFlight
<1>3. ASSUME NEW x \in Sessions, WriteItem(x)
      PROVE  e \in InFlight' \cup lost'
  <2>1. handler' = handler /\ queue[x] # <<>>
    BY <1>3 DEF WriteItem
  <2>2. CASE queue' = queue
    BY <2>1, <2>2 DEF InFlight
  <2>3. CASE TakeItem(x) /\ lost' = lost \cup {Head(queue[x])}
    BY <1>2, <2>1, <2>3
  <2> QED
    BY <1>3, <2>2, <2>3 DEF WriteItem
<1>4. ASSUME NEW x \in Sessions, CommitItem(x)
      PROVE  \/ e \in InFlight' \/ e \in lost'
             \/ /\ tx[x] # "aborted" /\ StoreItem(x, e) /\ e = Head(queue[x])
  <2>1. handler' = handler /\ queue[x] # <<>> /\ TakeItem(x)
    BY <1>4 DEF CommitItem, QueueShape
  <2>2. CASE e # Head(queue[x])
    BY <1>2, <2>1, <2>2
  <2>3. CASE e = Head(queue[x])
    BY <1>4, <2>3 DEF CommitItem
  <2> QED
    BY <2>2, <2>3
<1>5. ASSUME UNCHANGED <<handler, queue>>
      PROVE  e \in InFlight'
  BY <1>5 DEF InFlight
<1>6. ASSUME (\E x \in Sessions : EvictSession(x))
             \/ (\E j \in Jobs : DeleteEvents(j) \/ ResetEvents(j) \/ DeleteSessions(j)
                                 \/ ResetSessions(j))
      PROVE  UNCHANGED <<handler, queue>>
  BY <1>6, RemovalSteps DEF EvictSession, DeleteSessions, ResetSessions, ingest
<1>7. ASSUME Restart
      PROVE  e \in lost'
  BY <1>7 DEF Restart
<1> QED
  BY <1>1, <1>3, <1>4, <1>5, <1>6, <1>7, LaneSteps

LEMMA LostStays ==
  ASSUME [Next]_vars
  PROVE  lost \subseteq lost'
<1>1. ASSUME NEW e \in Events, HandlerStep(e)
      PROVE  lost \subseteq lost'
  BY <1>1 DEF HandlerStep, ReadSession, MarkSession, Push
<1>2. ASSUME NEW x \in Sessions, WriteItem(x) \/ CommitItem(x) \/ EvictSession(x)
      PROVE  lost \subseteq lost'
  BY <1>2 DEF WriteItem, CommitItem, EvictSession
<1>3. ASSUME NEW j \in Jobs, DeleteEvents(j) \/ ResetEvents(j) \/ DeleteSessions(j)
                             \/ ResetSessions(j)
      PROVE  lost' = lost
  BY <1>3, RemovalSteps DEF DeleteSessions, ResetSessions, ingest
<1>4. ASSUME Restart
      PROVE  lost \subseteq lost'
  BY <1>4 DEF Restart
<1> QED
  BY <1>1, <1>2, <1>3, <1>4, LaneSteps

\* A row that was there is there, or has been removed.
LEMMA RowStays ==
  ASSUME TypeOK, [Next]_vars, NEW x \in Sessions, HadRow(x)
  PROVE  HadRow(x)'
<1>1. ASSUME NEW e \in Events, HandlerStep(e)
      PROVE  HadRow(x)'
  BY <1>1 DEF HandlerStep, ReadSession, MarkSession, Push, tables, history, HadRow
<1>2. ASSUME NEW z \in Sessions, WriteItem(z) \/ CommitItem(z) \/ EvictSession(z)
      PROVE  HadRow(x)'
  BY <1>2 DEF WriteItem, CommitItem, StoreItem, EvictSession, tables, history, HadRow
<1>3. ASSUME NEW j \in Jobs, DeleteEvents(j) \/ ResetEvents(j)
      PROVE  HadRow(x)'
  BY <1>3, RemovalSteps DEF HadRow
<1>4. ASSUME NEW j \in Jobs, DeleteSessions(j) \/ ResetSessions(j)
      PROVE  HadRow(x)'
  <2>1. \/ UNCHANGED <<session, removed>>
        \/ \E D, how : /\ session' = session \ D /\ how # "never"
                       /\ removed' = [z \in Sessions |-> IF z \in D THEN how ELSE removed[z]]
    <3>1. CASE DeleteSessions(j)
      <4>1. PICK D : D = {z \in session : /\ SiteOf[z] = job[j].site
                                          /\ session_born[z] < job[j].cutoff
                                          /\ Eventless(z)}
        OBVIOUS
      <4>2. \/ UNCHANGED <<session, removed>>
            \/ /\ session' = session \ D
               /\ removed' = [z \in Sessions |-> IF z \in D THEN "purge" ELSE removed[z]]
        BY <3>1, <4>1 DEF DeleteSessions
      <4> QED
        BY <4>2
    <3>2. CASE ResetSessions(j)
      <4>1. PICK D : D = {z \in session : SiteOf[z] = job[j].site}
        OBVIOUS
      <4>2. \/ UNCHANGED <<session, removed>>
            \/ /\ session' = session \ D
               /\ removed' = [z \in Sessions |-> IF z \in D THEN "reset" ELSE removed[z]]
        BY <3>2, <4>1 DEF ResetSessions
      <4> QED
        BY <4>2
    <3> QED
      BY <1>4, <3>1, <3>2
  <2> QED
    BY <2>1 DEF HadRow
<1>5. ASSUME Restart
      PROVE  HadRow(x)'
  BY <1>5 DEF Restart, tables, HadRow
<1>6. ASSUME UNCHANGED <<session, removed>>
      PROVE  HadRow(x)'
  BY <1>6 DEF HadRow
<1> QED
  BY <1>1, <1>2, <1>3, <1>4, <1>5, <1>6, LaneSteps

\* What backs a claim goes on to, until the row is written.
LEMMA BackingStays ==
  ASSUME TypeOK, QueueShape, HandlerShape, Claims, [Next]_vars, NEW x \in Sessions, Backed(x)
  PROVE  Backed(x)'
<1>1. CASE HadRow(x)
  BY <1>1, RowStays DEF Backed
<1>2. CASE CreatorLost(x)
  <2>1. PICK e \in lost : SessionOf[e] = x /\ ~known[e]
    BY <1>2 DEF CreatorLost
  <2>2. e \in Events /\ handler[e] # "idle"
    BY <2>1 DEF TypeOK, HandlerShape
  <2>3. e \in lost' /\ ~known'[e]
    BY <2>1, <2>2, LostStays, KnownStays
  <2> QED
    BY <2>1, <2>3 DEF Backed, CreatorLost
<1>3. CASE CreatorInFlight(x)
  <2>1. PICK e \in InFlight : SessionOf[e] = x /\ ~known[e]
    BY <1>3 DEF CreatorInFlight
  <2>2. e \in Events /\ handler[e] # "idle"
    BY <2>1 DEF InFlight, QueueShape, TypeOK
  <2>3. ~known'[e]
    BY <2>1, <2>2, KnownStays
  <2>4. CASE e \in InFlight'
    BY <2>1, <2>3, <2>4 DEF Backed, CreatorInFlight
  <2>5. CASE e \in lost'
    BY <2>1, <2>3, <2>5 DEF Backed, CreatorLost
  <2>6. ASSUME NEW z \in Sessions, CommitItem(z), tx[z] # "aborted", StoreItem(z, e),
               e = Head(queue[z])
        PROVE  Backed(x)'
    <3>1. tx[z] \in {"insert", "plain"}
      BY <2>6 DEF CommitItem, TypeOK
    <3>2. z = x
      <4>1. queue[z] # <<>>
        BY <2>6 DEF CommitItem, QueueShape
      <4> QED
        BY <2>1, <2>6, <4>1, HeadItem
    <3>3. CASE tx[z] = "insert"
      BY <2>6, <3>2, <3>3 DEF StoreItem, Backed, HadRow
    <3>4. CASE tx[z] = "plain"
      BY <2>1, <2>6, <3>2, <3>4, RowStays DEF Claims, Backed
    <3> QED
      BY <3>1, <3>3, <3>4
  <2> QED
    BY <2>4, <2>5, <2>6, FlightStep
<1> QED
  BY <1>1, <1>2, <1>3 DEF Backed

LEMMA HandlerStays ==
  TypeOK /\ QueueShape /\ HandlerShape /\ [Next]_vars => HandlerShape'
<1> SUFFICES ASSUME TypeOK, QueueShape, HandlerShape, [Next]_vars, NEW e \in Events
             PROVE  /\ handler'[e] = "mark" => ~known'[e]
                    /\ e \in lost' => handler'[e] # "idle"
  BY DEF HandlerShape
<1> DEFINE Good == /\ handler'[e] = "mark" => ~known'[e]
                   /\ e \in lost' => handler'[e] # "idle"
<1>0. /\ handler[e] = "mark" => ~known[e]
      /\ e \in lost => handler[e] # "idle"
      /\ handler[e] # "idle" => known'[e] = known[e]
  BY KnownStays DEF HandlerShape
<1>1. ASSUME NEW f \in Events, HandlerStep(f)
      PROVE  Good
  <2>1. CASE ReadSession(f)
    BY <1>0, <2>1 DEF ReadSession, Move, TypeOK
  <2>2. CASE MarkSession(f)
    BY <1>0, <2>2 DEF MarkSession, Move, TypeOK
  <2>3. CASE Push(f)
    BY <1>0, <2>3 DEF Push, Move, TypeOK
  <2> QED
    BY <1>1, <2>1, <2>2, <2>3 DEF HandlerStep
<1>2. ASSUME NEW x \in Sessions, WriteItem(x) \/ CommitItem(x)
      PROVE  Good
  <2>1. UNCHANGED <<handler, known>> /\ lost' \subseteq lost \cup {Head(queue[x])}
        /\ queue[x] # <<>>
    BY <1>2 DEF WriteItem, CommitItem, QueueShape
  <2> QED
    BY <1>0, <2>1, HeadItem
<1>3. ASSUME (\E x \in Sessions : EvictSession(x))
             \/ (\E j \in Jobs : DeleteEvents(j) \/ ResetEvents(j) \/ DeleteSessions(j)
                                 \/ ResetSessions(j))
      PROVE  UNCHANGED <<handler, known, lost>>
  BY <1>3, RemovalSteps DEF EvictSession, DeleteSessions, ResetSessions, ingest
<1>4. ASSUME Restart
      PROVE  Good
  <2>1. /\ lost' = lost \cup InFlight /\ known' = known
        /\ handler'[e] = IF handler[e] \in {"mark", "push"} THEN "gone" ELSE handler[e]
    BY <1>4 DEF Restart
  <2>2. e \in InFlight => handler[e] # "idle"
    BY DEF InFlight, QueueShape
  <2> QED
    BY <1>0, <2>1, <2>2
<1>5. ASSUME UNCHANGED <<handler, known, lost>>
      PROVE  Good
  BY <1>0, <1>5
<1> HIDE DEF Good
<1>6. Good
  BY <1>1, <1>2, <1>3, <1>4, <1>5, LaneSteps
<1> QED
  BY <1>6 DEF Good

LEMMA ClaimsStep ==
  TypeOK /\ QueueShape /\ HandlerShape /\ Claims /\ [Next]_vars => Claims'
<1> SUFFICES ASSUME TypeOK, QueueShape, HandlerShape, Claims, [Next]_vars PROVE Claims'
  OBVIOUS
<1>0. \A x \in Sessions : Backed(x) => Backed(x)'
  BY BackingStays
<1>1. ASSUME NEW x \in session_cache'
      PROVE  Backed(x)'
  <2>1. CASE x \in session_cache
    BY <1>0, <2>1 DEF Claims, TypeOK
  <2>2. CASE x \notin session_cache
    <3>1. PICK e \in Events : MarkSession(e) /\ x = SessionOf[e]
      <4>1. PICK e \in Events : HandlerStep(e)
        <5>1. ASSUME (\E z \in Sessions : WriteItem(z) \/ CommitItem(z) \/ EvictSession(z))
                     \/ (\E j \in Jobs : DeleteEvents(j) \/ ResetEvents(j) \/ DeleteSessions(j)
                                         \/ ResetSessions(j))
                     \/ Restart
              PROVE  session_cache' \subseteq session_cache
          BY <5>1, RemovalSteps DEF WriteItem, CommitItem, EvictSession, DeleteSessions,
             ResetSessions, Restart, ingest
        <5> QED
          BY <1>1, <2>2, <5>1, LaneSteps
      <4> QED
        BY <1>1, <2>2, <4>1 DEF HandlerStep, ReadSession, MarkSession, Push
    <3>2. handler'[e] = "push" /\ ~known'[e]
      BY <3>1 DEF MarkSession, Move, HandlerShape, TypeOK
    <3> QED
      BY <3>1, <3>2 DEF Backed, CreatorInFlight, InFlight
  <2> QED
    BY <2>1, <2>2
<1>2. ASSUME NEW e \in InFlight', known'[e]
      PROVE  Backed(SessionOf[e])'
  <2>1. e \in Events
    <3>1. TypeOK'
      BY TypeStep
    <3> QED
      BY <1>2, <3>1 DEF InFlight, TypeOK
  <2>2. SessionOf[e] \in Sessions
    BY <2>1, SessionAssumption
  <2>3. CASE e \in InFlight
    <3>1. handler[e] # "idle"
      BY <2>3 DEF InFlight, QueueShape
    <3>2. known[e]
      BY <1>2, <2>1, <3>1, KnownStays
    <3> QED
      BY <1>0, <2>2, <2>3, <3>2 DEF Claims
  <2>4. CASE e \notin InFlight
    <3>1. SessionOf[e] \in session_cache
      <4>1. ASSUME NEW f \in Events, HandlerStep(f)
            PROVE  SessionOf[e] \in session_cache
        <5>1. handler'[e] = "push" \/ \E x \in Sessions : \E i \in DOMAIN queue'[x] : queue'[x][i] = e
          BY <1>2 DEF InFlight
        <5>2. handler[e] # "push" /\ \A x \in Sessions : \A i \in DOMAIN queue[x] : queue[x][i] # e
          BY <2>1, <2>4 DEF InFlight
        <5>3. CASE handler'[e] = "push"
          <6>1. f = e /\ (ReadSession(e) \/ MarkSession(e))
            BY <2>1, <4>1, <5>2, <5>3
               DEF HandlerStep, ReadSession, MarkSession, Push, Move, TypeOK
          <6>2. ~MarkSession(e)
            BY <1>2, <2>1, <6>1 DEF MarkSession, HandlerShape
          <6> QED
            BY <2>1, <5>3, <6>1, <6>2 DEF ReadSession, Move, TypeOK
        <5>4. ASSUME NEW x \in Sessions, NEW i \in DOMAIN queue'[x], queue'[x][i] = e
              PROVE  FALSE
          <6>1. queue' # queue
            BY <5>2, <5>4
          <6>2. queue' = [queue EXCEPT ![SessionOf[f]] = Append(@, f)] /\ Push(f)
            BY <4>1, <6>1 DEF HandlerStep, ReadSession, MarkSession, Push
          <6>3. queue'[x] \in {queue[x], Append(queue[x], f)} /\ queue[x] \in Seq(Events)
            BY <6>2 DEF TypeOK
          <6>4. f = e
            <7>1. queue'[x] = Append(queue[x], f)
              BY <5>2, <5>4, <6>3
            <7>2. /\ DOMAIN Append(queue[x], f) = 1..(Len(queue[x]) + 1)
                  /\ DOMAIN queue[x] = 1..Len(queue[x]) /\ Len(queue[x]) \in Nat
                  /\ \A k \in 1..Len(queue[x]) : Append(queue[x], f)[k] = queue[x][k]
                  /\ Append(queue[x], f)[Len(queue[x]) + 1] = f
              BY <4>1, <6>3, LaneItems
            <7>3. i \in 1..Len(queue[x]) \/ i = Len(queue[x]) + 1
              BY <5>4, <7>1, <7>2
            <7> QED
              BY <5>2, <5>4, <7>1, <7>2, <7>3
          <6> QED
            BY <5>2, <6>2, <6>4 DEF Push
        <5> QED
          BY <5>1, <5>3, <5>4
      <4>2. ASSUME NEW x \in Sessions, queue[x] # <<>>, TakeItem(x), handler' = handler
            PROVE  FALSE
        <5>1. queue'[x] = Tail(queue[x]) /\ \A z \in Sessions \ {x} : queue'[z] = queue[z]
          BY <4>2 DEF TakeItem, TypeOK
        <5>2. queue[x] \in Seq(Events)
          BY DEF TypeOK
        <5>3. \A i \in DOMAIN queue'[x] : \E k \in DOMAIN queue[x] : queue[x][k] = queue'[x][i]
          <6>1. /\ DOMAIN Tail(queue[x]) = 1..(Len(queue[x]) - 1)
                /\ \A i \in 1..(Len(queue[x]) - 1) :
                     Tail(queue[x])[i] = queue[x][i + 1] /\ i + 1 \in DOMAIN queue[x]
            BY <4>2, <5>2, LaneItems
          <6> QED
            BY <5>1, <6>1
        <5>4. handler[e] # "push" /\ \A z \in Sessions : \A i \in DOMAIN queue[z] : queue[z][i] # e
          BY <2>1, <2>4 DEF InFlight
        <5>5. ASSUME NEW z \in Sessions, NEW i \in DOMAIN queue'[z]
              PROVE  queue'[z][i] # e
          <6>1. CASE z = x
            <7>1. PICK k \in DOMAIN queue[x] : queue[x][k] = queue'[x][i]
              BY <5>3, <6>1
            <7> QED
              BY <4>2, <5>4, <6>1, <7>1
          <6>2. CASE z # x
            BY <5>1, <5>4, <6>2
          <6> QED
            BY <6>1, <6>2
        <5>6. handler'[e] = "push" \/ \E z \in Sessions : \E i \in DOMAIN queue'[z] : queue'[z][i] = e
          BY <1>2 DEF InFlight
        <5> QED
          BY <4>2, <5>4, <5>5, <5>6
      <4>3. ASSUME UNCHANGED <<handler, queue>>
            PROVE  FALSE
        BY <1>2, <2>4, <4>3 DEF InFlight
      <4>4. ASSUME NEW x \in Sessions, WriteItem(x) \/ CommitItem(x)
            PROVE  FALSE
        <5>1. /\ queue[x] # <<>> /\ handler' = handler
              /\ TakeItem(x) \/ UNCHANGED queue
          BY <4>4 DEF WriteItem, CommitItem, QueueShape
        <5> QED
          BY <4>2, <4>3, <5>1
      <4>5. ASSUME (\E x \in Sessions : EvictSession(x))
                   \/ (\E j \in Jobs : DeleteEvents(j) \/ ResetEvents(j) \/ DeleteSessions(j)
                                       \/ ResetSessions(j))
            PROVE  UNCHANGED <<handler, queue>>
        BY <4>5, RemovalSteps DEF EvictSession, DeleteSessions, ResetSessions, ingest
      <4>6. ASSUME Restart
            PROVE  FALSE
        <5>1. handler'[e] # "push" /\ \A x \in Sessions : queue'[x] = <<>>
          BY <2>1, <4>6 DEF Restart
        <5> QED
          BY <1>2, <5>1 DEF InFlight
      <4> QED
        BY <4>1, <4>3, <4>4, <4>5, <4>6, LaneSteps
    <3> QED
      BY <1>0, <2>2, <3>1 DEF Claims
  <2> QED
    BY <2>3, <2>4
<1>3. ASSUME NEW x \in Sessions, tx'[x] = "plain", ~known'[Head(queue'[x])]
      PROVE  HadRow(x)'
  <2>1. CASE tx[x] = "plain" /\ Head(queue'[x]) = Head(queue[x])
    <3>1. queue[x] # <<>>
      BY <2>1 DEF QueueShape
    <3>2. ~known[Head(queue[x])]
      BY <1>3, <2>1, <3>1, HeadItem, KnownStays
    <3> QED
      BY <2>1, <3>2, RowStays DEF Claims
  <2>2. CASE ~(tx[x] = "plain" /\ Head(queue'[x]) = Head(queue[x]))
    <3>1. ASSUME NEW e \in Events, HandlerStep(e)
          PROVE  FALSE
      <4>1. tx[x] = "plain" /\ queue[x] \in Seq(Events) /\ queue[x] # <<>>
        BY <1>3, <3>1 DEF HandlerStep, ReadSession, MarkSession, Push, QueueShape, TypeOK
      <4>2. queue'[x] \in {queue[x], Append(queue[x], e)}
        BY <3>1 DEF HandlerStep, ReadSession, MarkSession, Push, TypeOK
      <4>3. Head(Append(queue[x], e)) = Head(queue[x])
        BY <4>1
      <4> QED
        BY <2>2, <4>1, <4>2, <4>3
    <3>2. ASSUME NEW z \in Sessions, z # x, WriteItem(z) \/ CommitItem(z)
          PROVE  FALSE
      <4>1. tx'[x] = tx[x] /\ queue'[x] = queue[x]
        BY <3>2 DEF WriteItem, CommitItem, TakeItem, TypeOK
      <4> QED
        BY <1>3, <2>2, <4>1
    <3>3. ASSUME WriteItem(x)
          PROVE  HadRow(x)'
      <4>1. UNCHANGED <<known, queue, session, removed>> /\ (known[Head(queue[x])] \/ x \in session)
        BY <1>3, <3>3 DEF WriteItem, tables, history, TypeOK
      <4> QED
        BY <1>3, <4>1 DEF HadRow
    <3>4. ASSUME CommitItem(x) \/ Restart
          PROVE  FALSE
      BY <1>3, <3>4 DEF CommitItem, Restart, TypeOK
    <3>5. ASSUME UNCHANGED <<tx, queue>>
          PROVE  FALSE
      BY <1>3, <2>2, <3>5
    <3>6. ASSUME (\E z \in Sessions : EvictSession(z))
                 \/ (\E j \in Jobs : DeleteEvents(j) \/ ResetEvents(j) \/ DeleteSessions(j)
                                     \/ ResetSessions(j))
          PROVE  UNCHANGED <<tx, queue>>
      BY <3>6, RemovalSteps DEF EvictSession, DeleteSessions, ResetSessions, ingest
    <3> QED
      BY <3>1, <3>2, <3>3, <3>4, <3>5, <3>6, LaneSteps
  <2> QED
    BY <2>1, <2>2
<1> QED
  BY <1>1, <1>2, <1>3 DEF Claims

LEMMA OrphanStep ==
  TypeOK /\ QueueShape /\ HandlerShape /\ Claims /\ OrphanExplained /\ [Next]_vars
    => OrphanExplained'
<1> SUFFICES ASSUME TypeOK, QueueShape, HandlerShape, Claims, OrphanExplained, [Next]_vars,
                    NEW e \in website_event', SessionOf[e] \notin session'
             PROVE  \/ removed'[SessionOf[e]] = "reset"
                    \/ /\ e \in late'
                       /\ \/ removed'[SessionOf[e]] = "purge"
                          \/ CreatorInFlight(SessionOf[e])' \/ CreatorLost(SessionOf[e])'
  BY DEF OrphanExplained
<1> DEFINE z == SessionOf[e]
           Backing == removed'[z] = "purge" \/ CreatorInFlight(z)' \/ CreatorLost(z)'
           Good == removed'[z] = "reset" \/ (e \in late' /\ Backing)
<1>0. TypeOK' /\ z \in Sessions
  <2>1. TypeOK'
    BY TypeStep
  <2> QED
    BY <2>1, SessionAssumption DEF TypeOK
\* Without its row, a session has one of the other backings.
<1>1. Backed(z) => removed'[z] = "reset" \/ Backing
  <2>1. Backed(z) => Backed(z)'
    BY <1>0, BackingStays
  <2> QED
    BY <1>0, <2>1 DEF Backed, HadRow, TypeOK
\* An event that lacked its row before the step.
<1>2. ASSUME e \in website_event, z \notin session, late \subseteq late', removed'[z] = removed[z]
      PROVE  Good
  <2>1. removed[z] = "reset" \/ (e \in late /\ Backed(z))
    BY <1>2 DEF OrphanExplained, Backed, HadRow
  <2> QED
    BY <1>1, <1>2, <2>1
<1>3. ASSUME NEW x \in Sessions, CommitItem(x)
      PROVE  Good
  <2>1. CASE e \in website_event
    BY <1>2, <1>3, <2>1 DEF CommitItem, StoreItem
  <2>2. CASE e \notin website_event
    <3>1. StoreItem(x, e) /\ e = Head(queue[x]) /\ tx[x] # "none" /\ tx[x] # "aborted"
          /\ queue[x] # <<>>
      BY <1>3, <2>2 DEF CommitItem, StoreItem, QueueShape
    <3>2. z = x /\ e \in InFlight
      BY <3>1, HeadItem
    <3>3. tx[x] = "plain" /\ e \in late'
      BY <3>1, <3>2 DEF StoreItem, TypeOK
    <3>4. Backed(z)
      BY <3>1, <3>2, <3>3 DEF Claims, Backed
    <3> QED
      BY <1>1, <3>3, <3>4
  <2> QED
    BY <2>1, <2>2
<1>4. ASSUME NEW j \in Jobs, DeleteEvents(j) \/ ResetEvents(j)
      PROVE  Good
  BY <1>2, <1>4, RemovalSteps
<1>5. ASSUME NEW j \in Jobs, DeleteSessions(j) \/ ResetSessions(j)
      PROVE  Good
  <2>1. UNCHANGED <<website_event, late>>
    BY <1>5 DEF DeleteSessions, ResetSessions
  <2>2. CASE z \notin session
    <3>1. removed'[z] = removed[z]
      BY <1>0, <1>5, <2>2 DEF DeleteSessions, ResetSessions, TypeOK
    <3> QED
      BY <1>2, <2>1, <2>2, <3>1
  <2>3. CASE z \in session
    <3>1. CASE ResetSessions(j)
      BY <1>0, <2>3, <3>1 DEF ResetSessions
    <3>2. CASE DeleteSessions(j)
      BY <1>0, <2>1, <2>3, <3>2 DEF DeleteSessions, Eventless
    <3> QED
      BY <1>5, <3>1, <3>2
  <2> QED
    BY <2>2, <2>3
<1>6. ASSUME UNCHANGED <<website_event, session, removed, late>>
      PROVE  Good
  BY <1>2, <1>6
<1>7. ASSUME NEW f \in Events, HandlerStep(f)
      PROVE  UNCHANGED <<website_event, session, removed, late>>
  BY <1>7 DEF HandlerStep, ReadSession, MarkSession, Push, tables, history
<1>8. ASSUME NEW x \in Sessions, WriteItem(x) \/ EvictSession(x)
      PROVE  UNCHANGED <<website_event, session, removed, late>>
  BY <1>8 DEF WriteItem, EvictSession, tables, history
<1>9. ASSUME Restart
      PROVE  UNCHANGED <<website_event, session, removed, late>>
  BY <1>9 DEF Restart, tables
<1> HIDE DEF Good
<1>10. Good
  BY <1>3, <1>4, <1>5, <1>6, <1>7, <1>8, <1>9, LaneSteps
<1> QED
  BY <1>10 DEF Good

-----------------------------------------------------------------------------
(* Events and their event_data *)

LEMMA JobOthers ==
  ASSUME TypeOK, NEW j \in Jobs, JobStep(j)
  PROVE  \A i \in Jobs \ {j} : job'[i] = job[i]
  BY DEF JobStep, RoundStep, PurgeStep, ResetStep, Fetch, TakeNow, NextSite, EndRound,
     StartPurge, DeleteData, DeleteEvents, DeleteSessions, WriteLog, Stamp,
     AlertsReturn, StartReset, ResetEvents, ResetSessions, Goto, Leave, TypeOK

\* Only the two statements of a user's purge begin or end the time between them.
LEMMA PurgesFrame ==
  ASSUME TypeOK, JobShape, NEW j \in Jobs, JobStep(j), ~DeleteData(j), ~DeleteEvents(j),
         NEW e
  PROVE  ~PurgesData(j, e) /\ ~PurgesData(j, e)'
<1>0. job[j] \in JobRecords /\ KindOf[j] \in JobKinds
  BY JobAssumption DEF TypeOK
<1>1. CASE KindOf[j] # "manual"
  BY <1>1 DEF PurgesData
<1>2. CASE KindOf[j] = "manual"
  <2>1. StartPurge(j) \/ DeleteSessions(j) \/ WriteLog(j) \/ Stamp(j) \/ AlertsReturn(j)
    BY <1>2 DEF JobStep, RoundStep, PurgeStep, ResetStep, Fetch, TakeNow, NextSite, EndRound,
       JobShape, AlertsReturn, StartReset, ResetEvents, ResetSessions
  <2>2. job[j].pc # "events"
    BY <2>1 DEF StartPurge, DeleteSessions, WriteLog, Stamp, AlertsReturn
  <2>3. job'[j].pc # "events" \/ job'[j].path
    <3>1. CASE StartPurge(j)
      <4>1. PICK w \in Sites, path \in BOOLEAN :
              \E c \in Cutoffs(w) :
                job' = [job EXCEPT ![j].pc = IF path THEN "events" ELSE "data",
                                   ![j].site = w, ![j].path = path, ![j].cutoff = c]
        BY <3>1 DEF StartPurge
      <4> QED
        BY <1>0, <4>1 DEF TypeOK, JobRecords
    <3>2. CASE DeleteSessions(j)
      BY <1>0, <1>2, <3>2 DEF DeleteSessions, TypeOK, JobRecords
    <3>3. CASE WriteLog(j)
      BY <1>0, <3>3 DEF WriteLog, Goto, TypeOK, JobRecords
    <3>4. CASE Stamp(j)
      BY <3>4, Left DEF Stamp
    <3>5. CASE AlertsReturn(j)
      BY <1>0, <3>5 DEF AlertsReturn, Goto, TypeOK, JobRecords
    <3> QED
      BY <2>1, <3>1, <3>2, <3>3, <3>4, <3>5
  <2> QED
    BY <2>2, <2>3 DEF PurgesData
<1> QED
  BY <1>1, <1>2

\* The steps that touch events, their data or a purge between its statements.
LEMMA DataSteps ==
  ASSUME TypeOK, JobShape, [Next]_vars
  PROVE  \/ \E x \in Sessions : CommitItem(x)
         \/ \E j \in Jobs : DeleteData(j) \/ DeleteEvents(j) \/ ResetEvents(j)
         \/ Restart
         \/ /\ UNCHANGED <<website_event, event_data, torn, gone>>
            /\ \A i \in Jobs : \A e : PurgesData(i, e)' <=> PurgesData(i, e)
<1> DEFINE Still == UNCHANGED <<website_event, event_data, torn, gone>>
           Same == \A i \in Jobs : \A e : PurgesData(i, e)' <=> PurgesData(i, e)
<1>1. ASSUME UNCHANGED job
      PROVE  Same
  BY <1>1 DEF PurgesData, Expired
<1>2. ASSUME NEW j \in Jobs, JobStep(j), ~DeleteData(j), ~DeleteEvents(j)
      PROVE  Same
  <2>2. \A i \in Jobs \ {j} : job'[i] = job[i]
    BY <1>2, JobOthers
  <2>3. ASSUME NEW i \in Jobs \ {j}, NEW e
        PROVE  PurgesData(i, e)' <=> PurgesData(i, e)
    BY <2>2 DEF PurgesData, Expired
  <2>4. ASSUME NEW e
        PROVE  PurgesData(j, e)' <=> PurgesData(j, e)
    BY <1>2, PurgesFrame
  <2> QED
    BY <2>3, <2>4
<1>3. ASSUME NEW j \in Jobs, JobStep(j), ~DeleteData(j), ~DeleteEvents(j), ~ResetEvents(j)
      PROVE  Still
  BY <1>3 DEF JobStep, RoundStep, PurgeStep, ResetStep, Fetch, TakeNow, NextSite, EndRound,
     StartPurge, DeleteSessions, WriteLog, Stamp, AlertsReturn, StartReset, ResetSessions, tables, history,
     counts
<1>4. ASSUME UNCHANGED vars \/ (\E e \in Events : HandlerStep(e))
             \/ (\E x \in Sessions : WriteItem(x) \/ EvictSession(x))
             \/ (\E w \in Sites : SavePolicy(w)) \/ Tick
      PROVE  Still /\ UNCHANGED job
  BY <1>4 DEF HandlerStep, ReadSession, MarkSession, Push, WriteItem, EvictSession, SavePolicy,
     Tick, vars, tables, history
<1> HIDE DEF Still, Same
<1>5. Next => \/ \E j \in Jobs : JobStep(j)
              \/ \E x \in Sessions : CommitItem(x)
              \/ Restart
              \/ (\E e \in Events : HandlerStep(e))
              \/ (\E x \in Sessions : WriteItem(x) \/ EvictSession(x))
              \/ (\E w \in Sites : SavePolicy(w)) \/ Tick
  BY DEF Next, IngestStep, JobStep
<1> QED
  BY <1>1, <1>2, <1>3, <1>4, <1>5 DEF Still, Same

LEMMA DataInit == Init => DataBeforeEvent /\ DataExplained
  BY DEF Init, DataBeforeEvent, DataExplained, PurgesData

LEMMA DataStep ==
  TypeOK /\ JobShape /\ DataBeforeEvent /\ DataExplained /\ [Next]_vars
    => DataBeforeEvent' /\ DataExplained'
<1> SUFFICES ASSUME TypeOK, JobShape, DataBeforeEvent, DataExplained, [Next]_vars
             PROVE  DataBeforeEvent' /\ DataExplained'
  OBVIOUS
<1>1. ASSUME NEW x \in Sessions, CommitItem(x)
      PROVE  DataBeforeEvent' /\ DataExplained'
  <2>1. PICK e0 : e0 = Head(queue[x])
    OBVIOUS
  <2>2. /\ \/ /\ website_event' = website_event \cup {e0}
              /\ event_data' = event_data \cup ({e0} \cap DataEvents)
              /\ torn' = IF \E j \in Jobs : PurgesData(j, e0) THEN torn \cup {e0} ELSE torn
           \/ UNCHANGED <<website_event, event_data, torn>>
        /\ job' = job /\ gone' = gone
    BY <1>1, <2>1 DEF CommitItem, StoreItem
  <2>3. \A i \in Jobs : \A e : PurgesData(i, e)' <=> PurgesData(i, e)
    BY <2>2 DEF PurgesData, Expired
  <2> QED
    BY <2>2, <2>3 DEF DataBeforeEvent, DataExplained
<1>2. ASSUME NEW j \in Jobs, DeleteData(j)
      PROVE  DataBeforeEvent' /\ DataExplained'
  <2>1. job[j] \in JobRecords /\ job[j].pc = "data" /\ KindOf[j] = "manual" /\ ~job[j].path
    BY <1>2 DEF DeleteData, JobShape, TypeOK
  <2>2. job' = [job EXCEPT ![j] = [job[j] EXCEPT !.pc = "events"]]
    BY <1>2 DEF DeleteData, Goto
  <2>3. /\ job'[j].pc = "events" /\ ~job'[j].path /\ job'[j].site = job[j].site
        /\ job'[j].cutoff = job[j].cutoff
    BY <2>1, <2>2 DEF TypeOK, JobRecords
  <2>4. \A e : (PurgesData(j, e)' <=> Expired(e, j)) /\ ~PurgesData(j, e)
    BY <2>1, <2>3 DEF PurgesData, Expired
  <2>5. \A i \in Jobs \ {j} : \A e : PurgesData(i, e)' <=> PurgesData(i, e)
    BY <2>2 DEF PurgesData, Expired, TypeOK
  <2>6. \/ event_data' = {e \in event_data : ~Expired(e, j)} /\ torn' = torn
        \/ /\ torn' = torn \cup {e \in event_data : Expired(e, j)}
           /\ event_data' = event_data
    BY <1>2 DEF DeleteData
  <2>7. UNCHANGED <<website_event, gone>>
    BY <1>2 DEF DeleteData
  <2>8. \A i \in Jobs : \A e : PurgesData(i, e)' => PurgesData(i, e) \/ (i = j /\ Expired(e, j))
    BY <2>4, <2>5
  <2>9. \A i \in Jobs : \A e : PurgesData(i, e) => PurgesData(i, e)'
    BY <2>4, <2>5
  <2>10. DataBeforeEvent'
    BY <2>6, <2>7, <2>8 DEF DataBeforeEvent
  <2>11. DataExplained'
    <3>1. \A e \in event_data' \ website_event' : gone'[e] # "manual" \/ e \in torn'
      BY <2>6, <2>7 DEF DataExplained
    <3>2. ASSUME NEW e \in (website_event' \cap DataEvents) \ event_data'
          PROVE  e \in torn' \/ \E i \in Jobs : PurgesData(i, e)'
      <4>1. CASE e \in event_data
        BY <2>4, <2>6, <4>1
      <4>2. CASE e \notin event_data
        BY <2>6, <2>7, <2>9, <4>2 DEF DataExplained
      <4> QED
        BY <4>1, <4>2
    <3> QED
      BY <3>1, <3>2 DEF DataExplained
  <2> QED
    BY <2>10, <2>11
<1>3. ASSUME NEW j \in Jobs, DeleteEvents(j)
      PROVE  DataBeforeEvent' /\ DataExplained'
  <2> DEFINE doomed == {e \in website_event : Expired(e, j) /\ (job[j].path => e \in OnPath)}
  <2>1. job[j] \in JobRecords /\ job[j].pc = "events" /\ KindOf[j] \in JobKinds
    BY <1>3, JobAssumption DEF DeleteEvents, TypeOK
  <2>2. PICK n : job' = [job EXCEPT ![j].pc = "sessions", ![j].events = n]
    BY <1>3 DEF DeleteEvents
  <2>3. job'[j].pc = "sessions" /\ \A i \in Jobs \ {j} : job'[i] = job[i]
    BY <2>1, <2>2 DEF TypeOK, JobRecords
  <2>4. \A e : ~PurgesData(j, e)'
    BY <2>3 DEF PurgesData
  <2>5. \A i \in Jobs \ {j} : \A e : PurgesData(i, e)' <=> PurgesData(i, e)
    BY <2>3 DEF PurgesData, Expired
  <2>6. event_data' = event_data
    BY <1>3 DEF DeleteEvents
  <2>7. CASE /\ website_event' = website_event \ doomed /\ torn' = torn
             /\ gone' = [e \in Events |->
                           IF e \in doomed
                             THEN IF job[j].path THEN "path" ELSE KindOf[j]
                             ELSE gone[e]]
    <3>1. ASSUME NEW e \in event_data \ website_event'
          PROVE  gone'[e] # "manual" \/ e \in torn
      <4>1. e \in Events
        BY DEF TypeOK
      <4>2. CASE e \in website_event
        <5>1. e \in doomed
          BY <2>7, <4>2, <3>1
        <5>2. gone'[e] = IF job[j].path THEN "path" ELSE KindOf[j]
          BY <2>7, <4>1, <5>1
        <5>3. gone'[e] = "manual" => PurgesData(j, e)
          BY <2>1, <5>1, <5>2 DEF PurgesData
        <5> QED
          BY <4>2, <5>3 DEF DataBeforeEvent
      <4>3. CASE e \notin website_event
        <5>1. gone'[e] = gone[e]
          BY <2>7, <4>1, <4>3
        <5> QED
          BY <4>3, <5>1 DEF DataExplained
      <4> QED
        BY <4>2, <4>3
    <3>2. ASSUME NEW e \in (website_event' \cap DataEvents) \ event_data
          PROVE  e \in torn \/ \E i \in Jobs : PurgesData(i, e)'
      <4>1. e \in website_event /\ ~PurgesData(j, e)
        BY <2>7 DEF PurgesData
      <4> QED
        BY <2>5, <4>1 DEF DataExplained
    <3>3. DataBeforeEvent'
      BY <2>4, <2>5, <2>6, <2>7 DEF DataBeforeEvent
    <3> HIDE DEF doomed
    <3> QED
      BY <2>6, <2>7, <3>1, <3>2, <3>3 DEF DataExplained
  <2>8. CASE /\ torn' = torn \cup {e \in website_event : PurgesData(j, e)}
             /\ UNCHANGED <<website_event, gone>>
    BY <2>4, <2>5, <2>6, <2>8 DEF DataBeforeEvent, DataExplained
  <2> QED
    BY <1>3, <2>7, <2>8 DEF DeleteEvents
<1>4. ASSUME NEW j \in Jobs, ResetEvents(j)
      PROVE  DataBeforeEvent' /\ DataExplained'
  <2> DEFINE doomed == {e \in website_event : Site(e) = job[j].site}
  <2>1. \A i \in Jobs : \A e : PurgesData(i, e)' <=> PurgesData(i, e)
    <3>1. JobStep(j) /\ ~DeleteData(j) /\ ~DeleteEvents(j) /\ KindOf[j] = "reset"
      BY <1>4 DEF JobStep, ResetStep, ResetEvents, DeleteData, DeleteEvents, JobShape
    <3>2. \A i \in Jobs \ {j} : job'[i] = job[i]
      BY <3>1, JobOthers
    <3> QED
      BY <3>1, <3>2 DEF PurgesData, Expired
  <2>2. UNCHANGED <<event_data, torn>>
    BY <1>4 DEF ResetEvents
  <2>3. CASE UNCHANGED <<website_event, gone>>
    BY <2>1, <2>2, <2>3 DEF DataBeforeEvent, DataExplained
  <2>4. CASE /\ website_event' = website_event \ doomed
             /\ gone' = [e \in Events |-> IF e \in doomed THEN "reset" ELSE gone[e]]
    <3>1. \A e \in event_data \ website_event' : gone'[e] # "manual" \/ e \in torn
      BY <2>4 DEF DataExplained, TypeOK
    <3> HIDE DEF doomed
    <3> QED
      BY <2>1, <2>2, <2>4, <3>1 DEF DataBeforeEvent, DataExplained
  <2> QED
    BY <1>4, <2>3, <2>4 DEF ResetEvents
<1>5. ASSUME Restart
      PROVE  DataBeforeEvent' /\ DataExplained'
  <2>1. /\ UNCHANGED <<website_event, event_data, gone>>
        /\ torn' = torn \cup {e \in website_event : \E j \in Jobs : PurgesData(j, e)}
    BY <1>5 DEF Restart, tables
  <2>2. \A i \in Jobs : \A e : ~PurgesData(i, e)'
    BY <1>5 DEF Restart, PurgesData
  <2> QED
    BY <2>1, <2>2 DEF DataBeforeEvent, DataExplained
<1>6. ASSUME UNCHANGED <<website_event, event_data, torn, gone>>,
             \A i \in Jobs : \A e : PurgesData(i, e)' <=> PurgesData(i, e)
      PROVE  DataBeforeEvent' /\ DataExplained'
  BY <1>6 DEF DataBeforeEvent, DataExplained
<1> QED
  BY <1>1, <1>2, <1>3, <1>4, <1>5, <1>6, DataSteps

-----------------------------------------------------------------------------
(* The rounds *)

LEMMA RoundInit == Init => RoundInForce
  BY DEF Init, RoundInForce, InRound

\* A step of one job leaves the clock and the policies of the other rounds.
LEMMA RoundOthers ==
  ASSUME TypeOK, NEW j \in Jobs, JobStep(j)
  PROVE  clock' = clock /\ \A i \in Jobs \ {j} : job'[i] = job[i] /\ in_force'[i] = in_force[i]
<1>1. clock' = clock
  BY DEF JobStep, RoundStep, PurgeStep, ResetStep, Fetch, TakeNow, NextSite, EndRound,
     StartPurge, DeleteData, DeleteEvents, DeleteSessions, WriteLog, Stamp,
     AlertsReturn, StartReset, ResetEvents, ResetSessions
<1>2. \/ in_force' = in_force
      \/ \E F : in_force' = [in_force EXCEPT ![j] = F]
  <2>1. ASSUME Fetch(j) \/ EndRound(j)
        PROVE  in_force' = in_force \/ \E F : in_force' = [in_force EXCEPT ![j] = F]
    BY <2>1 DEF Fetch, EndRound
  <2>2. ASSUME ~Fetch(j), ~EndRound(j)
        PROVE  in_force' = in_force
    BY <2>2 DEF JobStep, RoundStep, PurgeStep, ResetStep, TakeNow, NextSite,
       StartPurge, DeleteData, DeleteEvents, DeleteSessions, WriteLog, Stamp,
       AlertsReturn, StartReset, ResetEvents, ResetSessions, history
  <2> QED
    BY <2>1, <2>2
<1>3. \A i \in Jobs \ {j} : in_force'[i] = in_force[i]
  BY <1>2 DEF TypeOK
<1> QED
  BY <1>1, <1>3, JobOthers

\* What a round does once it is at a site, and all that a request does.
LEMMA RoundAtSite ==
  ASSUME TypeOK, JobShape, NEW j \in Jobs, JobStep(j), ~Fetch(j), ~TakeNow(j), ~NextSite(j),
         ~EndRound(j)
  PROVE  /\ job'[j].now \in {job[j].now, clock}
         /\ InRound(j)' => /\ InRound(j) /\ job'[j].pc # "events"
                           /\ job'[j].todo = job[j].todo /\ in_force'[j] = in_force[j]
<1>0. job[j] \in JobRecords
  BY DEF TypeOK
<1>1. CASE StartPurge(j)
  BY <1>0, <1>1 DEF StartPurge, InRound, TypeOK, JobRecords
<1>2. CASE DeleteData(j)
  BY <1>0, <1>2 DEF DeleteData, Goto, InRound, JobShape, TypeOK, JobRecords
<1>3. CASE DeleteEvents(j)
  <2>1. PICK n : job' = [job EXCEPT ![j].pc = "sessions", ![j].events = n]
    BY <1>3 DEF DeleteEvents
  <2>2. /\ job'[j].pc = "sessions" /\ job'[j].todo = job[j].todo
        /\ job'[j].now = job[j].now
    BY <1>0, <2>1 DEF TypeOK, JobRecords
  <2>3. in_force' = in_force /\ job[j].pc = "events"
    BY <1>3 DEF DeleteEvents
  <2> QED
    BY <2>2, <2>3 DEF InRound
<1>4. CASE DeleteSessions(j)
  <2>1. in_force' = in_force /\ job[j].pc = "sessions"
    BY <1>4 DEF DeleteSessions
  <2>2. CASE Leave(j, "site")
    BY <2>1, <2>2, Left DEF InRound
  <2>3. CASE job' = [job EXCEPT ![j].pc = "log",
                                ![j].now = IF KindOf[j] = "manual" THEN clock ELSE @]
    BY <1>0, <2>1, <2>3 DEF InRound, TypeOK, JobRecords
  <2> QED
    BY <1>4, <2>2, <2>3 DEF DeleteSessions
<1>5. CASE WriteLog(j)
  BY <1>0, <1>5 DEF WriteLog, Goto, InRound, TypeOK, JobRecords
<1>6. CASE Stamp(j)
  BY <1>6, Left DEF Stamp, InRound, history
<1>7. CASE StartReset(j)
  BY <1>0, <1>7 DEF StartReset, InRound, TypeOK, JobRecords
<1>8. CASE ResetEvents(j)
  <2>1. KindOf[j] = "reset"
    BY <1>8 DEF ResetEvents
  <2>2. job'[j].now = job[j].now
    <3>1. CASE Goto(j, "sessions")
      BY <1>0, <3>1 DEF Goto, TypeOK, JobRecords
    <3>2. CASE Leave(j, "done")
      BY <3>2, Left
    <3> QED
      BY <1>8, <3>1, <3>2 DEF ResetEvents
  <2> QED
    BY <2>1, <2>2 DEF InRound
<1>9. CASE ResetSessions(j)
  BY <1>9, Left DEF ResetSessions, InRound
<1>10. CASE AlertsReturn(j)
  BY <1>0, <1>10 DEF AlertsReturn, Goto, InRound, TypeOK, JobRecords
<1> QED
  BY <1>1, <1>2, <1>3, <1>4, <1>5, <1>6, <1>7, <1>8, <1>9, <1>10
     DEF JobStep, RoundStep, PurgeStep, ResetStep

LEMMA RoundInForceStep ==
  TypeOK /\ JobShape /\ RoundInForce /\ [Next]_vars => RoundInForce'
<1> SUFFICES ASSUME TypeOK, JobShape, RoundInForce, [Next]_vars PROVE RoundInForce'
  OBVIOUS
<1>0. clock \in Nat
  BY DEF TypeOK
<1>1. ASSUME NEW j \in Jobs, JobStep(j)
      PROVE  RoundInForce'
  <2> DEFINE Fine == /\ job'[j].now <= clock
                     /\ InRound(j)' => job'[j].todo \subseteq in_force'[j]
                     /\ InRound(j)' /\ job'[j].pc = "events" =>
                          \E f \in in_force'[j] :
                            f[1] = job'[j].site /\ job'[j].cutoff = Ago(job'[j].now, f[2])
  <2>0. job[j] \in JobRecords /\ job[j].now <= clock
    BY DEF TypeOK, RoundInForce
  <2>1. ASSUME Fetch(j)
        PROVE  Fine
    <3>1. CASE job' = [job EXCEPT ![j].pc = "now", ![j].todo = Due]
               /\ in_force' = [in_force EXCEPT ![j] = Enabled(policy)]
      BY <2>0, <3>1, DueType DEF TypeOK, JobRecords
    <3>2. CASE Goto(j, AfterRound(j))
      BY <2>0, <3>2 DEF Goto, AfterRound, InRound, TypeOK, JobRecords
    <3> QED
      BY <2>1, <3>1, <3>2 DEF Fetch
  <2>2. ASSUME TakeNow(j)
        PROVE  Fine
    <3>1. /\ job'[j].pc = "site" /\ job'[j].now = clock /\ job'[j].todo = job[j].todo
          /\ job[j].pc = "now" /\ in_force' = in_force
      BY <2>0, <2>2 DEF TakeNow, TypeOK, JobRecords, history
    <3> QED
      BY <1>0, <3>1 DEF InRound, RoundInForce
  <2>3. ASSUME NextSite(j)
        PROVE  Fine
    <3>1. PICK d \in job[j].todo :
            job' = [job EXCEPT ![j].pc = "events", ![j].todo = @ \ {d},
                               ![j].site = d[1], ![j].cutoff = Ago(job[j].now, d[2])]
      BY <2>3 DEF NextSite
    <3>2. PICK w, c : w = d[1] /\ c = Ago(job[j].now, d[2])
      OBVIOUS
    <3>3. /\ job'[j].pc = "events" /\ job'[j].todo = job[j].todo \ {d} /\ job'[j].site = w
          /\ job'[j].cutoff = c /\ job'[j].now = job[j].now
      BY <2>0, <3>1, <3>2 DEF TypeOK, JobRecords
    <3>4. in_force' = in_force /\ InRound(j)
      BY <2>3 DEF NextSite, InRound, JobShape, history
    <3>5. job[j].todo \subseteq in_force[j]
      BY <3>4 DEF RoundInForce
    <3>6. d \in in_force'[j] /\ d[1] = job'[j].site /\ job'[j].cutoff = Ago(job'[j].now, d[2])
      BY <3>1, <3>2, <3>3, <3>4, <3>5
    <3> QED
      BY <2>0, <3>3, <3>4, <3>5, <3>6
  <2>4. ASSUME EndRound(j)
        PROVE  Fine
    BY <1>0, <2>0, <2>4 DEF EndRound, AfterRound, InRound, TypeOK, JobRecords
  <2>5. ASSUME ~(Fetch(j) \/ TakeNow(j) \/ NextSite(j) \/ EndRound(j))
        PROVE  Fine
    <3>1. /\ job'[j].now \in {job[j].now, clock}
          /\ InRound(j)' => /\ InRound(j) /\ job'[j].pc # "events"
                            /\ job'[j].todo = job[j].todo /\ in_force'[j] = in_force[j]
      BY <1>1, <2>5, RoundAtSite
    <3>2. job'[j].now <= clock
      BY <1>0, <2>0, <3>1
    <3>3. InRound(j) => job[j].todo \subseteq in_force[j]
      BY DEF RoundInForce
    <3> QED
      BY <3>1, <3>2, <3>3
  <2>6. Fine
    BY <2>1, <2>2, <2>3, <2>4, <2>5
  <2>7. clock' = clock /\ \A i \in Jobs \ {j} : job'[i] = job[i] /\ in_force'[i] = in_force[i]
    BY <1>1, RoundOthers
  <2>8. ASSUME NEW i \in Jobs \ {j}
        PROVE  /\ job'[i].now <= clock'
               /\ InRound(i)' => job'[i].todo \subseteq in_force'[i]
               /\ InRound(i)' /\ job'[i].pc = "events" =>
                    \E f \in in_force'[i] :
                      f[1] = job'[i].site /\ job'[i].cutoff = Ago(job'[i].now, f[2])
    BY <2>7 DEF RoundInForce, InRound
  <2> HIDE DEF Fine
  <2> QED
    BY <2>6, <2>7, <2>8 DEF RoundInForce, Fine
<1>2. ASSUME NEW w \in Sites, SavePolicy(w)
      PROVE  RoundInForce'
  <2>1. PICK added : in_force' = [j \in Jobs |->
                       IF InRound(j) THEN in_force[j] \cup added ELSE in_force[j]]
    BY <1>2 DEF SavePolicy, InRound
  <2>2. job' = job /\ clock' = clock /\ \A j \in Jobs : in_force[j] \subseteq in_force'[j]
    BY <1>2, <2>1 DEF SavePolicy
  <2> QED
    BY <2>2 DEF RoundInForce, InRound
<1>3. ASSUME Tick
      PROVE  RoundInForce'
  <2>1. job' = job /\ in_force' = in_force /\ clock' = clock + 1
    BY <1>3 DEF Tick, history
  <2>2. \A j \in Jobs : job[j].now \in Nat
    BY DEF TypeOK, JobRecords
  <2>3. \A j \in Jobs : job'[j].now <= clock'
    BY <1>0, <2>1, <2>2 DEF RoundInForce
  <2> QED
    BY <2>1, <2>3 DEF RoundInForce, InRound
<1>4. ASSUME Restart
      PROVE  RoundInForce'
  <2>1. \A j \in Jobs : job'[j].pc \in {"idle", "done"} /\ job'[j].now = 0
    BY <1>4 DEF Restart
  <2>2. clock' = clock
    BY <1>4 DEF Restart
  <2> QED
    BY <1>0, <2>1, <2>2 DEF RoundInForce, InRound
<1>5. ASSUME UNCHANGED <<clock, job, in_force>>
      PROVE  RoundInForce'
  BY <1>5 DEF RoundInForce, InRound
<1>6. ASSUME UNCHANGED vars \/ IngestStep
      PROVE  UNCHANGED <<clock, job, in_force>>
  BY <1>6 DEF vars, IngestStep, HandlerStep, ReadSession, MarkSession, Push, WriteItem,
     CommitItem, EvictSession, history
<1> QED
  BY <1>1, <1>2, <1>3, <1>4, <1>5, <1>6 DEF Next, JobStep

\* A step that removes events is of a purge or of a reset.
LEMMA PurgeJustifiedStep ==
  ASSUME TypeOK, RoundInForce, [Next]_vars, NEW e \in website_event \ website_event',
         gone'[e] \in {"auto", "admin"}
  PROVE  \E j \in Jobs : \E f \in in_force[j] :
           /\ KindOf[j] = gone'[e]
           /\ f[1] = Site(e)
           /\ Born[e] + f[2] < clock
<1>1. PICK j \in Jobs : DeleteEvents(j) \/ ResetEvents(j)
  <2>1. ASSUME NEW x \in Sessions, WriteItem(x) \/ CommitItem(x)
        PROVE  website_event \subseteq website_event'
    BY <2>1 DEF WriteItem, CommitItem, StoreItem, tables
  <2>2. ASSUME NEW i \in Jobs, DeleteSessions(i) \/ ResetSessions(i)
        PROVE  website_event' = website_event
    BY <2>2 DEF DeleteSessions, ResetSessions
  <2>3. ASSUME \/ \E f \in Events : HandlerStep(f)
               \/ \E x \in Sessions : EvictSession(x)
               \/ Restart
        PROVE  website_event' = website_event
    BY <2>3 DEF HandlerStep, ReadSession, MarkSession, Push, EvictSession, Restart, tables
  <2> QED
    BY <2>1, <2>2, <2>3, LaneSteps
<1>2. e \in Events /\ Born[e] \in Nat /\ clock \in Nat
  BY EventAssumption DEF TypeOK
<1>3. ~ResetEvents(j)
  BY <1>2 DEF ResetEvents
<1>4. PICK doomed : /\ \A d \in doomed : Expired(d, j)
                    /\ website_event' = website_event \ doomed
                    /\ gone' = [d \in Events |->
                                  IF d \in doomed
                                    THEN IF job[j].path THEN "path" ELSE KindOf[j]
                                    ELSE gone[d]]
  BY <1>1, <1>3 DEF DeleteEvents
<1>5. gone'[e] = KindOf[j] /\ Expired(e, j) /\ job[j].pc = "events"
  BY <1>1, <1>2, <1>3, <1>4 DEF DeleteEvents
<1>6. InRound(j)
  BY <1>5 DEF InRound
<1>7. PICK f \in in_force[j] : f[1] = job[j].site /\ job[j].cutoff = Ago(job[j].now, f[2])
  BY <1>5, <1>6 DEF RoundInForce
<1>8. job[j].now <= clock /\ job[j].now \in Nat /\ f[2] \in Nat
  BY <1>7 DEF RoundInForce, TypeOK, JobRecords
<1>9. Born[e] + f[2] < clock
  BY <1>2, <1>5, <1>7, <1>8 DEF Ago, Expired
<1> QED
  BY <1>5, <1>7, <1>9 DEF Expired

-----------------------------------------------------------------------------
(* The log of the purges *)

\* What job j still owes the log of site w.
Owes(j, w) == IF KindOf[j] # "reset" /\ job[j].site = w THEN Unwritten(j) ELSE 0

Most == Cardinality(Events)

\* A sum over the jobs, as a set to be counted.
Pairs(f) == {d \in Jobs \X (1..Most) : d[2] <= f[d[1]]}

LEMMA MostType == Most \in Nat
  BY EventAssumption, FS_CardinalityType DEF Most

LEMMA RowCounted ==
  ASSUME NEW j, NEW n \in Nat
  PROVE  IsFiniteSet({j} \X (1..n)) /\ Cardinality({j} \X (1..n)) = n
<1>1. IsFiniteSet({j}) /\ Cardinality({j}) = 1
  BY FS_Singleton
<1>2. IsFiniteSet(1..n) /\ Cardinality(1..n) = n
  BY FS_Interval
<1>3. /\ IsFiniteSet({j} \X (1..n))
      /\ Cardinality({j} \X (1..n)) = Cardinality({j}) * Cardinality(1..n)
  BY <1>1, <1>2, FS_Product
<1> QED
  BY <1>1, <1>2, <1>3

LEMMA PairsType ==
  ASSUME NEW f
  PROVE  IsFiniteSet(Pairs(f)) /\ Cardinality(Pairs(f)) \in Nat
<1>1. IsFiniteSet(1..Most)
  BY MostType, FS_Interval
<1>2. IsFiniteSet(Jobs \X (1..Most))
  BY <1>1, JobAssumption, FS_Product
<1>3. IsFiniteSet(Pairs(f))
  BY <1>2, FS_Subset DEF Pairs
<1> QED
  BY <1>3, FS_CardinalityType

\* The sum without the addend of one job.
LEMMA PairsWithout ==
  ASSUME NEW f \in [Jobs -> 0..Most], NEW j \in Jobs, NEW R,
         R = {d \in Jobs \X (1..Most) : d[1] # j /\ d[2] <= f[d[1]]}
  PROVE  Cardinality(R) \in Nat /\ Cardinality(Pairs(f)) = Cardinality(R) + f[j]
<1>1. PICK n \in Nat : n = f[j]
  BY MostType
<1>2. PICK M : M = {j} \X (1..n)
  OBVIOUS
<1>3. IsFiniteSet(M) /\ Cardinality(M) = n
  BY <1>2, RowCounted
<1>4. R \subseteq Pairs(f)
  BY DEF Pairs
<1>5. IsFiniteSet(R) /\ Cardinality(R) \in Nat
  BY <1>4, PairsType, FS_Subset, FS_CardinalityType
<1>6. Pairs(f) = R \cup M
  <2>1. n <= Most
    BY <1>1
  <2>2. ASSUME NEW d \in M
        PROVE  d \in Pairs(f)
    BY <1>1, <1>2, <2>1, MostType DEF Pairs
  <2>3. ASSUME NEW d \in Pairs(f), d \notin R
        PROVE  d \in M
    <3>1. d \in Jobs \X (1..Most) /\ d[2] <= f[d[1]] /\ d[1] = j
      BY <2>3 DEF Pairs
    <3>2. d[2] \in 1..n /\ d[1] \in {j}
      BY <1>1, <3>1, MostType
    <3>3. d = <<d[1], d[2]>>
      BY <3>1
    <3> QED
      BY <1>2, <3>2, <3>3
  <2> QED
    BY <1>4, <2>2, <2>3
<1>7. R \cap M = {}
  BY <1>2
<1>8. Cardinality(R \cup M) = Cardinality(R) + Cardinality(M) - Cardinality(R \cap M)
  BY <1>3, <1>5, FS_Union
<1>9. Cardinality(R \cap M) = 0
  BY <1>7, FS_EmptySet
<1> QED
  BY <1>1, <1>3, <1>5, <1>6, <1>8, <1>9

\* Sums that differ in one addend differ by it.
LEMMA PairsOne ==
  ASSUME NEW f \in [Jobs -> 0..Most], NEW g \in [Jobs -> 0..Most], NEW j \in Jobs,
         \A i \in Jobs \ {j} : f[i] = g[i]
  PROVE  /\ Cardinality(Pairs(f)) \in Nat /\ Cardinality(Pairs(g)) \in Nat
         /\ Cardinality(Pairs(f)) + g[j] = Cardinality(Pairs(g)) + f[j]
<1>1. PICK R : R = {d \in Jobs \X (1..Most) : d[1] # j /\ d[2] <= f[d[1]]}
  OBVIOUS
<1>2. R = {d \in Jobs \X (1..Most) : d[1] # j /\ d[2] <= g[d[1]]}
  BY <1>1
<1>3. Cardinality(R) \in Nat /\ Cardinality(Pairs(f)) = Cardinality(R) + f[j]
  BY <1>1, PairsWithout
<1>4. Cardinality(Pairs(g)) = Cardinality(R) + g[j]
  BY <1>2, PairsWithout
<1>5. f[j] \in Nat /\ g[j] \in Nat
  BY MostType
<1> QED
  BY <1>3, <1>4, <1>5

LEMMA OwesType ==
  ASSUME TypeOK, JobShape, NEW w
  PROVE  /\ \A j \in Jobs : Owes(j, w) \in 0..Most
         /\ UnwrittenOf(w) = Cardinality(Pairs([j \in Jobs |-> Owes(j, w)]))
<1>1. ASSUME NEW j \in Jobs
      PROVE  Owes(j, w) \in 0..Most
  <2>1. job[j].events \in Nat /\ job[j].events <= Most
    BY DEF TypeOK, JobRecords, JobShape, Most
  <2> QED
    BY <2>1, MostType DEF Owes, Unwritten
<1>2. ASSUME NEW d \in Jobs \X (1..Most)
      PROVE  (KindOf[d[1]] # "reset" /\ job[d[1]].site = w /\ d[2] <= Unwritten(d[1]))
               <=> d[2] <= [j \in Jobs |-> Owes(j, w)][d[1]]
  <2>1. d[1] \in Jobs /\ d[2] \in 1..Most
    OBVIOUS
  <2>2. d[2] > 0 /\ d[2] \in Int
    BY <2>1, MostType
  <2>3. [j \in Jobs |-> Owes(j, w)][d[1]] = Owes(d[1], w)
    BY <2>1
  <2>4. CASE KindOf[d[1]] # "reset" /\ job[d[1]].site = w
    BY <2>3, <2>4 DEF Owes
  <2>5. CASE ~(KindOf[d[1]] # "reset" /\ job[d[1]].site = w)
    BY <2>2, <2>3, <2>5 DEF Owes
  <2> QED
    BY <2>4, <2>5
<1>3. {d \in Jobs \X (1..Most) :
         KindOf[d[1]] # "reset" /\ job[d[1]].site = w /\ d[2] <= Unwritten(d[1])}
        = Pairs([j \in Jobs |-> Owes(j, w)])
  BY <1>2 DEF Pairs
<1> QED
  BY <1>1, <1>3 DEF UnwrittenOf, Most

\* The same of the state after a step.
LEMMA OwesNext ==
  ASSUME NEW w
  PROVE  TypeOK' /\ JobShape' =>
           /\ \A j \in Jobs : Owes(j, w)' \in 0..Most
           /\ UnwrittenOf(w)' = Cardinality(Pairs([j \in Jobs |-> Owes(j, w)]))'
<1>1. TypeOK /\ JobShape =>
        /\ \A j \in Jobs : Owes(j, w) \in 0..Most
        /\ UnwrittenOf(w) = Cardinality(Pairs([j \in Jobs |-> Owes(j, w)]))
  BY OwesType
<1>2. (TypeOK /\ JobShape)' =>
        (/\ \A j \in Jobs : Owes(j, w) \in 0..Most
         /\ UnwrittenOf(w) = Cardinality(Pairs([j \in Jobs |-> Owes(j, w)])))'
  BY <1>1, PTL
<1> QED
  BY <1>2 DEF Most

\* What a step of one job does to what is owed.
LEMMA OwesOne ==
  ASSUME TypeOK, JobShape, TypeOK', JobShape', NEW j \in Jobs, NEW w \in Sites,
         \A i \in Jobs \ {j} : job'[i] = job[i]
  PROVE  /\ UnwrittenOf(w) \in Nat /\ UnwrittenOf(w)' \in Nat
         /\ UnwrittenOf(w) + Owes(j, w)' = UnwrittenOf(w)' + Owes(j, w)
<1>1. PICK f : f = [i \in Jobs |-> Owes(i, w)]
  OBVIOUS
<1>2. PICK g : g = [i \in Jobs |-> Owes(i, w)']
  OBVIOUS
<1>3. f \in [Jobs -> 0..Most] /\ UnwrittenOf(w) = Cardinality(Pairs(f))
  BY <1>1, OwesType
<1>4. g \in [Jobs -> 0..Most] /\ UnwrittenOf(w)' = Cardinality(Pairs(g))
  <2>1. \A i \in Jobs : Owes(i, w)' \in 0..Most
    BY OwesNext
  <2>2. UnwrittenOf(w)' = Cardinality(Pairs([i \in Jobs |-> Owes(i, w)]))'
    BY OwesNext
  <2> QED
    BY <1>2, <2>1, <2>2 DEF Pairs, Most
<1>5. \A i \in Jobs \ {j} : f[i] = g[i]
  BY <1>1, <1>2 DEF Owes, Unwritten
<1>6. f[j] = Owes(j, w) /\ g[j] = Owes(j, w)'
  BY <1>1, <1>2
<1> QED
  BY <1>3, <1>4, <1>5, <1>6, PairsOne

\* The log is told of nothing by the steps of a job but these two.
LEMMA OwesFrame ==
  ASSUME TypeOK, JobShape, NEW j \in Jobs, JobStep(j), ~DeleteEvents(j), ~WriteLog(j), NEW w
  PROVE  Owes(j, w)' = Owes(j, w)
<1>0. job[j] \in JobRecords
  BY DEF TypeOK
<1>1. CASE KindOf[j] = "reset"
  BY <1>1 DEF Owes
<1>2. CASE KindOf[j] # "reset"
  <2>1. ASSUME Fetch(j)
        PROVE  job[j].pc = "idle" /\ job'[j].pc \in {"now", "alerts", "done"}
    <3>1. \/ job' = [job EXCEPT ![j].pc = "now", ![j].todo = Due]
          \/ job' = [job EXCEPT ![j].pc = AfterRound(j)]
      BY <2>1 DEF Fetch, Goto
    <3> QED
      BY <1>0, <2>1, <3>1 DEF Fetch, AfterRound, TypeOK, JobRecords
  <2>2. ASSUME TakeNow(j)
        PROVE  job[j].pc = "now" /\ job'[j].pc = "site"
    BY <1>0, <2>2 DEF TakeNow, TypeOK, JobRecords
  <2>3. ASSUME NextSite(j)
        PROVE  job[j].pc = "site" /\ job'[j].pc = "events"
    <3>1. PICK d : job' = [job EXCEPT ![j].pc = "events", ![j].todo = @ \ {d},
                             ![j].site = d[1], ![j].cutoff = Ago(job[j].now, d[2])]
      BY <2>3 DEF NextSite
    <3> QED
      BY <1>0, <2>3, <3>1 DEF NextSite, TypeOK, JobRecords
  <2>4. ASSUME EndRound(j)
        PROVE  job[j].pc = "site" /\ job'[j].pc \in {"alerts", "done"}
    BY <1>0, <2>4 DEF EndRound, AfterRound, TypeOK, JobRecords
  <2>5. ASSUME StartPurge(j)
        PROVE  job[j].pc = "idle" /\ job'[j].pc \in {"events", "data"}
    BY <1>0, <2>5 DEF StartPurge, TypeOK, JobRecords
  <2>6. ASSUME DeleteData(j)
        PROVE  job[j].pc = "data" /\ job'[j].pc = "events"
    BY <1>0, <2>6 DEF DeleteData, Goto, TypeOK, JobRecords
  <2>7. ASSUME Stamp(j)
        PROVE  job[j].pc = "stamp" /\ job'[j].pc \in {"site", "done"}
    BY <2>7, Left DEF Stamp
  <2>8. ASSUME AlertsReturn(j)
        PROVE  job[j].pc = "alerts" /\ job'[j].pc = "idle"
    BY <1>0, <2>8 DEF AlertsReturn, Goto, TypeOK, JobRecords
  <2>9. CASE DeleteSessions(j)
    <3>1. CASE Leave(j, "site") /\ job[j].events = 0
      BY <2>9, <3>1, Left DEF DeleteSessions, Owes, Unwritten
    <3>2. CASE job' = [job EXCEPT ![j].pc = "log",
                                  ![j].now = IF KindOf[j] = "manual" THEN clock ELSE @]
      <4>1. /\ job[j].pc = "sessions" /\ job'[j].pc = "log" /\ job'[j].site = job[j].site
            /\ job'[j].events = job[j].events
        BY <1>0, <2>9, <3>2 DEF DeleteSessions, TypeOK, JobRecords
      <4> QED
        BY <4>1 DEF Owes, Unwritten
    <3> QED
      BY <2>9, <3>1, <3>2 DEF DeleteSessions
  <2>10. CASE ~DeleteSessions(j)
    <3>1. /\ job[j].pc \notin {"sessions", "log"} /\ job'[j].pc \notin {"sessions", "log"}
      BY <1>2, <2>1, <2>2, <2>3, <2>4, <2>5, <2>6, <2>7, <2>10, <2>8
         DEF JobStep, RoundStep, PurgeStep, ResetStep, StartReset, ResetEvents, ResetSessions
    <3> QED
      BY <3>1 DEF Owes, Unwritten
  <2> QED
    BY <2>9, <2>10
<1> QED
  BY <1>1, <1>2

LEMMA LogInit == Init => LogConserves
<1> SUFFICES ASSUME Init, NEW w \in Sites
             PROVE  logged[w] + unlogged[w] + UnwrittenOf(w) = Cardinality(PurgedOf(w))
  BY DEF LogConserves
<1>1. PurgedOf(w) = {}
  BY DEF Init, PurgedOf
<1>2. ASSUME NEW d \in Jobs \X (1..Cardinality(Events))
      PROVE  ~(d[2] <= Unwritten(d[1]))
  BY MostType DEF Init, Unwritten, Most
<1>3. UnwrittenOf(w) = Cardinality({})
  BY <1>2 DEF UnwrittenOf
<1>4. logged[w] = 0 /\ unlogged[w] = 0
  BY DEF Init
<1> QED
  BY <1>1, <1>3, <1>4, FS_EmptySet

LEMMA LogStep ==
  /\ TypeOK /\ JobShape /\ TypeOK' /\ JobShape' /\ StoredShape /\ LogConserves
  /\ [Next]_vars
  => LogConserves'
<1> SUFFICES ASSUME TypeOK, JobShape, TypeOK', JobShape', StoredShape, LogConserves,
                    [Next]_vars, NEW w \in Sites
             PROVE  logged'[w] + unlogged'[w] + UnwrittenOf(w)' = Cardinality(PurgedOf(w)')
  BY DEF LogConserves
<1> DEFINE Fine == logged'[w] + unlogged'[w] + UnwrittenOf(w)' = Cardinality(PurgedOf(w)')
<1>0. /\ logged[w] \in Nat /\ unlogged[w] \in Nat /\ UnwrittenOf(w) \in Nat
      /\ logged[w] + unlogged[w] + UnwrittenOf(w) = Cardinality(PurgedOf(w))
  BY UnwrittenType DEF TypeOK, LogConserves
<1>1. ASSUME NEW j \in Jobs, JobStep(j)
      PROVE  Fine
  <2>1. /\ UnwrittenOf(w)' \in Nat
        /\ UnwrittenOf(w) + Owes(j, w)' = UnwrittenOf(w)' + Owes(j, w)
    BY <1>1, JobOthers, OwesOne
  <2>2. Owes(j, w) \in Nat
    <3>1. Owes(j, w) \in 0..Most
      BY OwesType
    <3> QED
      BY <3>1, MostType
  <2>3. ASSUME DeleteEvents(j)
        PROVE  Fine
    <3> DEFINE doomed == {e \in website_event :
                            Expired(e, j) /\ (job[j].path => e \in OnPath)}
    <3>0. job[j] \in JobRecords /\ job[j].pc = "events"
          /\ KindOf[j] \in {"auto", "admin", "manual"}
      BY <2>3, JobAssumption DEF DeleteEvents, TypeOK, JobKinds
    <3>1. UNCHANGED <<logged, unlogged>> /\ Owes(j, w) = 0
      BY <2>3, <3>0 DEF DeleteEvents, Owes, Unwritten, counts
    <3>2. CASE UNCHANGED gone /\ job' = [job EXCEPT ![j].pc = "sessions", ![j].events = 0]
      <4>1. job'[j].events = 0
        BY <3>0, <3>2 DEF TypeOK, JobRecords
      <4>2. Owes(j, w)' = 0
        BY <4>1 DEF Owes, Unwritten
      <4>3. PurgedOf(w)' = PurgedOf(w)
        BY <3>2 DEF PurgedOf
      <4> QED
        BY <1>0, <2>1, <3>1, <4>2, <4>3
    <3>3. CASE /\ gone' = [e \in Events |->
                             IF e \in doomed
                               THEN IF job[j].path THEN "path" ELSE KindOf[j]
                               ELSE gone[e]]
               /\ job' = [job EXCEPT ![j].pc = "sessions", ![j].events = Affected(j, doomed)]
      <4>1. PICK n : n = Cardinality(doomed)
        OBVIOUS
      <4>2. job' = [job EXCEPT ![j].pc = "sessions", ![j].events = n]
        BY <3>3, <4>1 DEF Affected
      <4>3. job'[j].pc = "sessions" /\ job'[j].events = n /\ job'[j].site = job[j].site
        BY <3>0, <4>2 DEF TypeOK, JobRecords
      <4>4. doomed \in SUBSET Events /\ \A e \in doomed : Site(e) = job[j].site
        BY DEF Expired, TypeOK
      <4>5. IsFiniteSet(doomed) /\ n \in Nat
        BY <4>1, <4>4, Counted
      <4>6. \A e \in doomed : gone[e] = "no"
        BY DEF StoredShape
      <4> HIDE DEF doomed
      <4>7. CASE job[j].site = w
        <5>1. Owes(j, w)' = n
          BY <3>0, <4>3, <4>7 DEF Owes, Unwritten
        <5>2. PurgedOf(w)' = PurgedOf(w) \cup doomed
          BY <3>0, <3>3, <4>4, <4>7 DEF PurgedOf, Site
        <5>3. PurgedOf(w) \cap doomed = {}
          BY <4>6 DEF PurgedOf
        <5>4. IsFiniteSet(PurgedOf(w)) /\ Cardinality(PurgedOf(w)) \in Nat
          <6>1. PurgedOf(w) \in SUBSET Events
            BY DEF PurgedOf
          <6> QED
            BY <6>1, Counted
        <5>5. Cardinality(PurgedOf(w) \cup doomed)
                = Cardinality(PurgedOf(w)) + Cardinality(doomed)
                    - Cardinality(PurgedOf(w) \cap doomed)
          BY <4>5, <5>4, FS_Union
        <5>6. Cardinality(PurgedOf(w)') = Cardinality(PurgedOf(w)) + n
          <6>1. Cardinality(PurgedOf(w) \cap doomed) = 0
            BY <5>3, FS_EmptySet
          <6>2. PICK m \in Nat : m = Cardinality(PurgedOf(w))
            BY <5>4
          <6>3. Cardinality(PurgedOf(w)') = m + n - 0
            BY <4>1, <5>2, <5>5, <6>1, <6>2
          <6> QED
            BY <4>5, <6>2, <6>3
        <5>7. UnwrittenOf(w)' = UnwrittenOf(w) + n
          BY <1>0, <2>1, <3>1, <4>5, <5>1
        <5> QED
          BY <1>0, <3>1, <4>5, <5>4, <5>6, <5>7
      <4>8. CASE job[j].site # w
        <5>1. Owes(j, w)' = 0
          BY <4>3, <4>8 DEF Owes
        <5>2. PurgedOf(w)' = PurgedOf(w)
          BY <3>3, <4>4, <4>8 DEF PurgedOf, Site
        <5> QED
          BY <1>0, <2>1, <3>1, <5>1, <5>2
      <4> QED
        BY <4>7, <4>8
    <3> QED
      BY <2>3, <3>2, <3>3 DEF DeleteEvents
  <2>4. ASSUME WriteLog(j)
        PROVE  Fine
    <3>0. job[j] \in JobRecords /\ job[j].pc = "log" /\ KindOf[j] # "reset"
      BY <2>4 DEF WriteLog, JobShape, TypeOK
    <3>1. job'[j].pc = "stamp"
      BY <2>4, <3>0 DEF WriteLog, Goto, TypeOK, JobRecords
    <3>2. Owes(j, w)' = 0
      BY <3>1 DEF Owes, Unwritten
    <3>3. PurgedOf(w)' = PurgedOf(w)
      BY <2>4 DEF WriteLog, PurgedOf
    <3>4. logged'[w] + unlogged'[w] = logged[w] + unlogged[w] + Owes(j, w)
      <4>1. job[j].site \in Sites /\ job[j].events \in Nat
        BY <3>0 DEF JobRecords
      <4>2. CASE job[j].site = w
        <5>1. Owes(j, w) = job[j].events
          BY <3>0, <4>2 DEF Owes, Unwritten
        <5>2. \/ logged'[w] = logged[w] + job[j].events /\ unlogged'[w] = unlogged[w]
              \/ unlogged'[w] = unlogged[w] + job[j].events /\ logged'[w] = logged[w]
          BY <2>4, <4>2 DEF WriteLog, TypeOK
        <5> QED
          BY <1>0, <4>1, <5>1, <5>2
      <4>3. CASE job[j].site # w
        <5>1. Owes(j, w) = 0
          BY <4>3 DEF Owes
        <5>2. logged'[w] = logged[w] /\ unlogged'[w] = unlogged[w]
          BY <2>4, <4>3 DEF WriteLog, TypeOK
        <5> QED
          BY <1>0, <5>1, <5>2
      <4> QED
        BY <4>2, <4>3
    <3>5. logged'[w] \in Nat /\ unlogged'[w] \in Nat
      BY DEF TypeOK
    <3> QED
      BY <1>0, <2>1, <2>2, <3>2, <3>3, <3>4, <3>5
  <2>5. ASSUME ~DeleteEvents(j), ~WriteLog(j)
        PROVE  Fine
    <3>1. Owes(j, w)' = Owes(j, w)
      BY <1>1, <2>5, OwesFrame
    <3>2. UNCHANGED <<logged, unlogged>>
      BY <1>1, <2>5 DEF JobStep, RoundStep, PurgeStep, ResetStep, Fetch, TakeNow, NextSite,
         EndRound, StartPurge, DeleteData, DeleteSessions, Stamp, AlertsReturn, StartReset, ResetEvents,
         ResetSessions, history, counts
    <3>3. PurgedOf(w)' = PurgedOf(w)
      <4>1. CASE gone' = gone
        BY <4>1 DEF PurgedOf
      <4>2. CASE gone' # gone
        <5>1. ResetEvents(j)
          BY <1>1, <2>5, <4>2 DEF JobStep, RoundStep, PurgeStep, ResetStep, Fetch, TakeNow,
             NextSite, EndRound, StartPurge, DeleteData, DeleteSessions, Stamp, AlertsReturn, StartReset,
             ResetSessions, history
        <5>2. PICK D \in SUBSET website_event :
                gone' = [e \in Events |-> IF e \in D THEN "reset" ELSE gone[e]]
          <6>1. gone' = [e \in Events |->
                          IF e \in {d \in website_event : Site(d) = job[j].site}
                            THEN "reset" ELSE gone[e]]
            BY <4>2, <5>1 DEF ResetEvents
          <6> QED
            BY <6>1
        <5>3. \A e \in D : gone[e] = "no"
          BY <5>2 DEF StoredShape
        <5>4. \A e \in Events : gone'[e] \in {"auto", "admin", "manual", "path"}
                                  <=> gone[e] \in {"auto", "admin", "manual", "path"}
          BY <5>2, <5>3
        <5> QED
          BY <5>4 DEF PurgedOf, Site
      <4> QED
        BY <4>1, <4>2
    <3> QED
      BY <1>0, <2>1, <2>2, <3>1, <3>2, <3>3
  <2> QED
    BY <2>3, <2>4, <2>5
<1>2. ASSUME Restart
      PROVE  Fine
  <2>1. ASSUME NEW d \in Jobs \X (1..Cardinality(Events))
        PROVE  ~(d[2] <= Unwritten(d[1])')
    <3>1. d[1] \in Jobs /\ d[2] \in 1..Most /\ d[2] > 0
      BY MostType DEF Most
    <3>2. Unwritten(d[1])' = 0
      BY <1>2, <3>1 DEF Restart, Unwritten
    <3> QED
      BY <3>1, <3>2, MostType
  <2>2. UnwrittenOf(w)' = Cardinality({})
    BY <2>1 DEF UnwrittenOf
  <2>3. UnwrittenOf(w)' = 0
    BY <2>2, FS_EmptySet
  <2>4. logged'[w] = logged[w] /\ unlogged'[w] = unlogged[w] + UnwrittenOf(w)
    BY <1>2 DEF Restart
  <2>5. PurgedOf(w)' = PurgedOf(w)
    BY <1>2 DEF Restart, PurgedOf
  <2> QED
    BY <1>0, <2>3, <2>4, <2>5
<1>3. ASSUME UNCHANGED <<job, gone, logged, unlogged>>
      PROVE  Fine
  <2>1. UnwrittenOf(w)' = UnwrittenOf(w) /\ PurgedOf(w)' = PurgedOf(w)
    BY <1>3 DEF UnwrittenOf, Unwritten, PurgedOf
  <2> QED
    BY <1>0, <1>3, <2>1
<1>4. ASSUME UNCHANGED vars \/ IngestStep \/ (\E v \in Sites : SavePolicy(v)) \/ Tick
      PROVE  UNCHANGED <<job, gone, logged, unlogged>>
  BY <1>4 DEF vars, IngestStep, HandlerStep, ReadSession, MarkSession, Push, WriteItem,
     CommitItem, EvictSession, SavePolicy, Tick, history, counts
<1> HIDE DEF Fine
<1> QED
  BY <1>1, <1>2, <1>3, <1>4 DEF Next, JobStep, Fine

-----------------------------------------------------------------------------
(* The theorems *)

Inv == /\ TypeOK /\ JobShape
       /\ QueueShape /\ StoredShape /\ HandlerShape /\ Claims /\ OrphanExplained
       /\ DataBeforeEvent /\ DataExplained
       /\ RoundInForce
       /\ LogConserves

LEMMA InvHolds == Spec => []Inv
<1>1. Init => Inv
  <2>1. Init => OrphanExplained
    BY DEF Init, OrphanExplained
  <2> QED
    BY <2>1, TypeInit, JobInit, LaneInit, DataInit, RoundInit, LogInit DEF Inv
<1>2. Inv /\ [Next]_vars => Inv'
  <2> SUFFICES ASSUME Inv, [Next]_vars PROVE Inv'
    OBVIOUS
  <2>1. TypeOK' /\ JobShape'
    BY TypeStep, JobShapeStep DEF Inv
  <2>2. QueueShape' /\ StoredShape' /\ HandlerShape' /\ Claims' /\ OrphanExplained'
    BY QueueStep, HandlerStays, ClaimsStep, OrphanStep DEF Inv
  <2>3. DataBeforeEvent' /\ DataExplained' /\ RoundInForce'
    BY DataStep, RoundInForceStep DEF Inv
  <2>4. LogConserves'
    BY <2>1, LogStep DEF Inv
  <2> QED
    BY <2>1, <2>2, <2>3, <2>4 DEF Inv
<1> QED
  BY <1>1, <1>2, PTL DEF Spec

\* The tables, the jobs and the history of retention keep their types.
THEOREM TypeCorrect == Spec => []TypeOK
  BY InvHolds, PTL DEF Inv

\* A stored event lacks its session row only after a reset, or if it was
\* committed without it: after a purge had taken the row, or before the item
\* that writes it, which is on its way or was dropped after the session had
\* been cached.
THEOREM OrphansAreExplained == Spec => []OrphanExplained
  BY InvHolds, PTL DEF Inv

\* The two statements of a user's purge leave no half of an event behind,
\* unless one of them failed or the event came between them.
THEOREM DataIsExplained == Spec => []DataExplained
  BY InvHolds, PTL DEF Inv

\* However purges overlap, fail or are cut short, retention_purge_log counts
\* every event that was purged once, but for the entries that were lost.
THEOREM LogIsConserved == Spec => []LogConserves
  BY InvHolds, PTL DEF Inv

\* The background task and the administrator purge an event only by a policy of
\* its site that was in force during the round.
THEOREM PurgesAreJustified == Spec => PurgeJustified
<1>1. Inv /\ [Next]_vars =>
        [\A e \in website_event \ website_event' :
           gone'[e] \in {"auto", "admin"} =>
             \E j \in Jobs : \E f \in in_force[j] :
               /\ KindOf[j] = gone'[e]
               /\ f[1] = Site(e)
               /\ Born[e] + f[2] < clock]_vars
  BY PurgeJustifiedStep DEF Inv
<1> QED
  BY <1>1, InvHolds, PTL DEF Spec, PurgeJustified
=============================================================================
