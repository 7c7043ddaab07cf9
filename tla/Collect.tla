------------------------------- MODULE Collect -------------------------------
(***************************************************************************)
(* The collect handler of the web interface (app/api/send/route.ts), the   *)
(* functions it stores with, the website cache in Redis, and the reset and *)
(* the deletion of the site: one transaction of many statements, which run *)
(* between those of the requests.  One site; PostgreSQL (no ClickHouse, no *)
(* foreign keys) at READ COMMITTED, Redis enabled.                         *)
(***************************************************************************)
EXTENDS Wire

CONSTANTS
  CloudMode,    \* CLOUD_MODE: a reset or deletion updates the website cache
  CollectFaults \* what may fail: a "statement" of a request, its "link", the "wipe"

ASSUME ModeAssumption ==
  CloudMode \in BOOLEAN /\ CollectFaults \subseteq {"statement", "link", "wipe"}

VARIABLES
  site,           \* whether the website row is live or deleted
  website_cache,  \* the website as Redis has it
  session,        \* the distinct id of each session row
  session_link,   \* the rows that tie a session to a distinct id
  traits,         \* the sessions with session_data rows
  transaction,    \* the open transaction of a reset or a deletion
  admin,          \* what a committed reset or deletion has still to tell Redis
  wipes,          \* history: resets and deletions so far
  raced,          \* history: requests under way while the last wipe was open
  late            \* history: Redis was given a live website after its deletion was told

dbVars == <<site, session, session_link, traits, transaction, wipes, raced>>
cacheVars == <<website_cache, admin, late>>
collectVars == <<dbVars, cacheVars>>

\* A transaction has a purpose, the statement it is at, the rows its statements
\* have deleted, which stay for everyone else until it commits, and (history)
\* the requests that were over when it began.
NoTransaction == [purpose |-> "none", statement |-> "none", doomed |-> {}, over |-> {}]

CollectInit ==
  /\ site = "live"
  /\ website_cache = "none"
  /\ session = [s \in SessionIds |-> NoRow]
  /\ session_link = {}
  /\ traits = {}
  /\ transaction = NoTransaction
  /\ admin = {}
  /\ wipes = 0
  /\ raced = {}
  /\ late = FALSE

At(r, pc) == r \in DOMAIN wire /\ wire[r].pc = pc
SetPc(r, pc) == wire' = [wire EXCEPT ![r].pc = pc]

\* An insert that meets a deleted row, and an update of one, wait for the end of
\* the transaction that deleted it.
Waits(table, row) == <<table, row>> \in transaction.doomed

-----------------------------------------------------------------------------
(* Finding the website *)

\* The schema knows the types event, identify and performance, and no other.
RefuseType(r) ==
  /\ At(r, "sent")
  /\ wire[r].kind = "error"
  /\ SetPc(r, "refused")
  /\ UNCHANGED <<collectVars, around>>

\* A token names a website: it is not looked up again.
TrustToken(r) ==
  /\ At(r, "sent")
  /\ wire[r].kind # "error"
  /\ wire[r].tok # {}
  /\ wire' = [wire EXCEPT ![r].pc = "checked", ![r].via = "token"]
  /\ UNCHANGED <<collectVars, around>>

\* A deleted website is in Redis although the deletion removes it: either that
\* is yet to happen, or a read from before the deletion was written after it.
ToldTooEarly == site = "gone" /\ ("del" \in admin \/ late)

\* fetchWebsite with the website in Redis
FetchCached(r) ==
  /\ At(r, "sent")
  /\ wire[r].kind # "error"
  /\ wire[r].tok = {}
  /\ website_cache # "none"
  /\ wire' = [wire EXCEPT ![r].pc = IF website_cache = "live" THEN "checked" ELSE "refused",
                          ![r].via = IF ToldTooEarly THEN "late" ELSE "cache"]
  /\ UNCHANGED <<collectVars, around>>

\* Mutation: the query of cloud mode overlooks that the row is marked.
RowFoundUnmarked == IF site = "live" \/ CloudMode THEN "live" ELSE "none"

\* Outside cloud mode a deletion removes the row; in cloud mode it marks it.
RowFound == IF site = "live" \/ CloudMode THEN site ELSE "none"

\* fetchWebsite past a miss: the query, and in a later step the cache write.
FetchRow(r) ==
  /\ At(r, "sent")
  /\ wire[r].kind # "error"
  /\ wire[r].tok = {}
  /\ website_cache = "none"
  /\ wire' = [wire EXCEPT ![r].pc = IF RowFound = "none" THEN "refused" ELSE "fill",
                          ![r].found = RowFound, ![r].via = "row"]
  /\ UNCHANGED <<collectVars, around>>

WriteCache(value) ==
  /\ website_cache' = value
  /\ late' = (value = "live" /\ (late \/ (site = "gone" /\ CloudMode)))

Fill(r) ==
  /\ At(r, "fill")
  /\ WriteCache(wire[r].found)
  /\ wire' = [wire EXCEPT ![r].pc = IF wire[r].found = "live" THEN "checked" ELSE "refused",
                          ![r].found = "none"]
  /\ UNCHANGED <<dbVars, admin, around>>

-----------------------------------------------------------------------------
(* Session and visit *)

\* Mutation: the visit lasts for an hour.
ExpiredLate(t) == clock - t.iat > 2

\* The visit of a token lasts for 1800 seconds from the moment it began.
Expired(t) == clock - t.iat > 1

\* The token the answer will carry, by the time and address of this request.
TokenFor(r, sid) ==
  LET fresh == [session |-> sid, hour |-> Hour(clock)]
      kept == {t \in wire[r].tok : ~Expired(t)}
  IN [session |-> sid,
      visit |-> IF kept = {} THEN fresh ELSE (CHOOSE t \in kept : TRUE).visit,
      iat |-> IF kept = {} THEN clock ELSE (CHOOSE t \in kept : TRUE).iat,
      link |-> UNION {t.link : t \in wire[r].tok},
      root |-> IF wire[r].tok = {} THEN [session |-> sid, era |-> wipes]
               ELSE (CHOOSE t \in wire[r].tok : TRUE).root]

\* Mutation: only a visitor with an identity gets a session row.
InsertSessionIdentified(sid, identity) ==
  IF session[sid] = NoRow /\ identity # Anonymous
    THEN [session EXCEPT ![sid] = identity] ELSE session

\* on conflict (session_id) do nothing
InsertSession(sid, identity) ==
  IF session[sid] = NoRow THEN [session EXCEPT ![sid] = identity] ELSE session

\* The stage after the session: the link is written unless the token names it.
AfterSession(r, sid) ==
  IF wire[r].kind # "identify" THEN "save"
  ELSE IF \E t \in wire[r].tok : <<sid, wire[r].identity>> \in t.link THEN "traits"
  ELSE "link"

\* A request without a token creates the session row; the others rely on it.
Begin(r) ==
  /\ At(r, "checked")
  /\ LET sid == <<wire[r].addr, Month(clock)>>
         next == AfterSession(r, sid)
     IN /\ wire[r].tok # {} \/ ~Waits("session", sid)
        /\ session' = IF wire[r].tok = {} THEN InsertSession(sid, wire[r].identity)
                      ELSE session
        /\ wire' = [wire EXCEPT ![r].pc = next, ![r].at = clock, ![r].tok = {},
                                ![r].reply = {TokenFor(r, sid)},
                                ![r].todo = IF next = "link" THEN {"link", "update"} ELSE {}]
  /\ UNCHANGED <<site, session_link, traits, transaction, wipes, raced, cacheVars, around>>

\* A request has the one token it will be answered with.
Reply(r) == CHOOSE t \in wire[r].reply : TRUE

-----------------------------------------------------------------------------
(* Storing *)

Answer(q) == [q EXCEPT !.pc = "answered", !.ok = TRUE]

\* saveEvent, one statement at a time
SaveEvent(r) ==
  /\ At(r, "save")
  /\ LET q == [wire[r] EXCEPT !.stored = @ \cup {"event"}]
     IN wire' = [wire EXCEPT ![r] = IF q.kind = "view" THEN Answer(q)
                                    ELSE [q EXCEPT !.pc = "data"]]
  /\ UNCHANGED <<collectVars, around>>

SaveEventData(r) ==
  /\ At(r, "data")
  /\ LET q == [wire[r] EXCEPT !.stored = @ \cup {"data"}]
     IN wire' = [wire EXCEPT ![r] = IF q.kind = "sale" THEN [q EXCEPT !.pc = "revenue"]
                                    ELSE Answer(q)]
  /\ UNCHANGED <<collectVars, around>>

SaveRevenue(r) ==
  /\ At(r, "revenue")
  /\ LET q == [wire[r] EXCEPT !.stored = @ \cup {"revenue"}]
     IN wire' = [wire EXCEPT ![r] = Answer(q)]
  /\ UNCHANGED <<collectVars, around>>

\* Mutation: the first statement to finish counts for both.
FinishFirst(r, write) ==
  LET q == [wire[r] EXCEPT !.todo = @ \ {write}]
      claim == <<Reply(r).session, q.identity>>
  IN wire' = [wire EXCEPT ![r] =
       IF q.pc = "link"
       THEN [q EXCEPT !.pc = "traits", !.reply = {[Reply(r) EXCEPT !.link = {claim}]}]
       ELSE q]

\* Promise.all of the two statements; each may finish first, and the one that
\* is left when the other fails finishes whenever it does.
Finish(r, write) ==
  LET q == [wire[r] EXCEPT !.todo = @ \ {write}]
      claim == <<Reply(r).session, q.identity>>
  IN wire' = [wire EXCEPT ![r] =
       IF q.pc = "link" /\ q.todo = {}
       THEN [q EXCEPT !.pc = "traits", !.reply = {[Reply(r) EXCEPT !.link = {claim}]}]
       ELSE q]

SaveSessionLink(r) ==
  /\ r \in DOMAIN wire /\ "link" \in wire[r].todo
  /\ LET row == <<Reply(r).session, wire[r].identity>>
     IN ~Waits("link", row) /\ session_link' = session_link \cup {row}
  /\ Finish(r, "link")
  /\ UNCHANGED <<site, session, traits, transaction, wipes, raced, cacheVars, around>>

\* Only a row with another distinct id is updated.
UpdateSession(r) ==
  /\ r \in DOMAIN wire /\ "update" \in wire[r].todo
  /\ LET sid == Reply(r).session
     IN /\ session[sid] = wire[r].identity \/ ~Waits("session", sid)
        /\ session' = IF session[sid] = NoRow THEN session
                      ELSE [session EXCEPT ![sid] = wire[r].identity]
  /\ Finish(r, "update")
  /\ UNCHANGED <<site, session_link, traits, transaction, wipes, raced, cacheVars, around>>

\* Either statement fails: the error is logged and the request goes on.
LinkFails(r) ==
  /\ "link" \in CollectFaults
  /\ r \in DOMAIN wire
  /\ \E write \in wire[r].todo :
       wire' = [wire EXCEPT ![r].todo = @ \ {write}, ![r].skipped = TRUE,
                            ![r].pc = IF @ = "link" THEN "traits" ELSE @]
  /\ UNCHANGED <<collectVars, address>>
  /\ Mishap

\* Every identify call of the visitor carries the same keys.
SaveSessionData(r) ==
  /\ At(r, "traits")
  /\ ~Waits("traits", Reply(r).session)
  /\ traits' = traits \cup {Reply(r).session}
  /\ wire' = [wire EXCEPT ![r] = Answer(wire[r])]
  /\ UNCHANGED <<site, session, session_link, transaction, wipes, raced, cacheVars, around>>

\* Any other statement fails: the handler answers 500, without a token.
Fails(r) ==
  /\ "statement" \in CollectFaults
  /\ r \in DOMAIN wire
  /\ \/ wire[r].pc \in {"save", "data", "revenue", "traits"}
     \/ wire[r].pc = "checked" /\ wire[r].tok = {}
  /\ SetPc(r, "refused")
  /\ UNCHANGED <<collectVars, address>>
  /\ Mishap

-----------------------------------------------------------------------------
(* The owner's side *)

Settled(r) == wire[r].pc \in {"answered", "refused", "done"} /\ wire[r].todo = {}

\* The owner starts a reset or a deletion when none is open: a limit of the model.
Open(purpose) ==
  /\ site = "live" /\ transaction = NoTransaction
  /\ transaction' = [purpose |-> purpose, statement |-> "revenue", doomed |-> {},
                     over |-> {r \in DOMAIN wire : Settled(r)}]
  /\ UNCHANGED <<site, session, session_link, traits, wipes, raced, cacheVars, wire, address>>
  /\ Mishap

ResetWebsite == Open("reset")
DeleteWebsite == Open("delete")

\* A statement of deleteWebsiteDependentData deletes the rows it finds.
Statement(table, next, rows) ==
  /\ transaction.statement = table
  /\ transaction' = [transaction EXCEPT !.statement = next, !.doomed = @ \cup rows]
  /\ UNCHANGED <<site, session, session_link, traits, wipes, raced, cacheVars, wire, around>>

\* The rows of a table of events, named by the request that stored them.
EventRows(table) == {table} \X {r \in DOMAIN wire : table \in wire[r].stored}

\* Children before parents; event_data by its website, then by its event's.
DeleteRevenue == Statement("revenue", "data", EventRows("revenue"))
DeleteEventData == Statement("data", "drifted", EventRows("data"))
DeleteDriftedData ==
  Statement("drifted", "traits",
            {"data"} \X {r \in DOMAIN wire : {"event", "data"} \subseteq wire[r].stored})
DeleteSessionData == Statement("traits", "link", {"traits"} \X traits)
DeleteSessionLink == Statement("link", "event", {"link"} \X session_link)
DeleteWebsiteEvent == Statement("event", "session", EventRows("event"))
DeleteSession ==
  Statement("session", "website", {"session"} \X {s \in SessionIds : session[s] # NoRow})

DependentData ==
  DeleteRevenue \/ DeleteEventData \/ DeleteDriftedData \/ DeleteSessionData
    \/ DeleteSessionLink \/ DeleteWebsiteEvent \/ DeleteSession

\* The commit: the deleted rows are gone, and those stored behind the statement
\* for their table stay.
Wipe ==
  /\ session' = [s \in SessionIds |-> IF Waits("session", s) THEN NoRow ELSE session[s]]
  /\ session_link' = {l \in session_link : ~Waits("link", l)}
  /\ traits' = {s \in traits : ~Waits("traits", s)}
  /\ wire' = [r \in DOMAIN wire |->
                [wire[r] EXCEPT !.stored = {table \in @ : ~Waits(table, r)}]]
  /\ wipes' = wipes + 1
  /\ raced' = {r \in DOMAIN wire \ transaction.over : wire[r].pc \notin {"hooked", "sent"}}
  /\ transaction' = NoTransaction

\* The update of the website row, which nothing here waits for, and the commit.
CommitReset ==
  /\ transaction.purpose = "reset" /\ transaction.statement = "website"
  /\ Wipe
  /\ admin' = IF CloudMode THEN admin \cup {"set"} ELSE admin
  /\ UNCHANGED <<site, website_cache, late, around>>

\* Likewise; outside cloud mode the row is deleted.
CommitDelete ==
  /\ transaction.purpose = "delete" /\ transaction.statement = "website"
  /\ site' = "gone"
  /\ Wipe
  /\ admin' = IF CloudMode THEN admin \cup {"del"} ELSE admin
  /\ UNCHANGED <<website_cache, late, around>>

\* A statement fails, or the 30 seconds of the transaction are over.
RollBack ==
  /\ "wipe" \in CollectFaults
  /\ transaction # NoTransaction
  /\ transaction' = NoTransaction
  /\ UNCHANGED <<site, session, session_link, traits, wipes, raced, cacheVars, wire, address>>
  /\ Mishap

\* What follows the commit of a reset (the row as it was then) or a deletion.
TellCache ==
  /\ \E a \in admin :
       /\ WriteCache(IF a = "set" THEN "live" ELSE "none")
       /\ admin' = admin \ {a}
  /\ UNCHANGED <<dbVars, wire, around>>

\* The time to live of a day passes.
ExpireCache ==
  /\ website_cache # "none"
  /\ WriteCache("none")
  /\ UNCHANGED <<dbVars, admin, wire, address>>
  /\ Mishap

CollectStep ==
  \/ \E r \in DOMAIN wire :
       \/ RefuseType(r) \/ TrustToken(r) \/ FetchCached(r) \/ FetchRow(r) \/ Fill(r)
       \/ Begin(r)
       \/ SaveEvent(r) \/ SaveEventData(r) \/ SaveRevenue(r)
       \/ SaveSessionLink(r) \/ UpdateSession(r) \/ LinkFails(r)
       \/ SaveSessionData(r) \/ Fails(r)
  \/ ResetWebsite \/ DeleteWebsite \/ DependentData
  \/ CommitReset \/ CommitDelete \/ RollBack
  \/ TellCache \/ ExpireCache
=============================================================================
