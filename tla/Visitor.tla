------------------------------- MODULE Visitor -------------------------------
(***************************************************************************)
(* A visitor of a tracked site: the tracker in the browser and the collect *)
(* handler it sends to, with a network in between that delays and loses,   *)
(* and an owner who resets or deletes the site meanwhile.                  *)
(***************************************************************************)
EXTENDS Tracker, Collect

CONSTANT MaxEffort   \* bound, see Effort

ASSUME EffortAssumption == MaxEffort \in Nat

vars == <<wire, around, trackerVars, collectVars>>

Init == TrackerInit /\ CollectInit

\* The one bound on a behaviour: a request that reaches the network and a mishap
\* cost two, a tick, a page after the first and a report of a page one.
PageEffort ==
  Len(segments) - 1
    + FoldSeq(LAMBDA s, n : n + Len(s.scroll) + Len(s.performance), 0, segments)
Effort == 2 * (Len(wire) - 1 + mishaps) + (clock - FirstTick) + PageEffort

Next ==
  /\ \/ TrackerStep /\ UNCHANGED collectVars
     \/ CollectStep /\ UNCHANGED trackerVars
     \/ (Move \/ Tick) /\ UNCHANGED <<trackerVars, collectVars>>
  /\ Effort' <= MaxEffort

Spec == Init /\ [][Next]_vars

-----------------------------------------------------------------------------
(* Properties *)

Began(r) == wire[r].reply # {}
Stored(r) == "event" \in wire[r].stored

Transactions ==
  [purpose : {"none", "reset", "delete"},
   statement : {"none", "revenue", "data", "drifted", "traits", "link", "event", "session",
                "website"},
   doomed : SUBSET (({"event", "data", "revenue"} \X Nat)
                      \cup ({"traits", "session"} \X SessionIds)
                      \cup ({"link"} \X (SessionIds \X (Identities \cup {Anonymous})))),
   over : SUBSET Nat]

\* What the two sides keep has the shape the code gives it.
TypeOK ==
  /\ wire \in Seq(Requests)
  /\ clock \in FirstTick..LastTick /\ address \in Addresses /\ mishaps \in Nat
  /\ visible \in {"open", "hidden", "closed"}
  /\ currentUrl \in Pages /\ pending \in Nat
  /\ {scrolled, scrollEngagedSent, performanceSent, late} \subseteq BOOLEAN
  /\ cache \subseteq Tokens /\ identity \in Identities \cup {Anonymous}
  /\ site \in {"live", "gone"} /\ website_cache \in {"none", "live", "gone"}
  /\ session \in [SessionIds -> Identities \cup {Anonymous, NoRow}]
  /\ session_link \subseteq SessionIds \X (Identities \cup {Anonymous})
  /\ traits \subseteq SessionIds /\ admin \subseteq {"set", "del"}
  /\ transaction \in Transactions
  /\ wipes \in Nat /\ raced \subseteq DOMAIN wire

\* A visit never spans more than an hour and a half: whichever tokens the
\* tracker still holds or gets late, the handler stores an event under a visit
\* only within the hour that named the visit, or within 30 minutes of the token
\* that began in that hour (send/route.ts, "Expire visit after 30 minutes").
VisitBounded ==
  \A r \in DOMAIN wire : Began(r) =>
    LET hour == Reply(r).visit.hour
    IN 2 * hour <= wire[r].at /\ wire[r].at <= 2 * hour + 2

\* An event without a session row: the session is created by the first request
\* of a chain of tokens only, so its row is there unless a wipe committed since,
\* or the transaction of the last wipe was open during the request, or the address
\* or the month has changed under the chain (send/route.ts, "Create a session if
\* not found"; website.ts, deleteWebsiteDependentData).
SessionExplained ==
  \A r \in DOMAIN wire : Stored(r) =>
    LET sid == Reply(r).session
        root == Reply(r).root
    IN \/ session[sid] # NoRow
       \/ r \in raced
       \/ wire[r].via = "token" /\ (root.session # sid \/ root.era < wipes)

\* An event stored for a deleted site comes from a request under way while the
\* deletion's transaction was open, from one that carried a token, or from one
\* that found the site in Redis: in cloud mode only when the deletion had not
\* told Redis yet or an older read was written after it (lib/load.ts and
\* lib/redis.ts, fetch; website.ts, deleteWebsite).
DeletedExplained ==
  \A r \in DOMAIN wire : site = "gone" /\ Stored(r) =>
    \/ r \in raced
    \/ wire[r].via \in {"token", "late"}
    \/ wire[r].via = "cache" /\ ~CloudMode

\* An answer with a token means that everything the request carried is stored,
\* and nothing else, unless the site was wiped since the first token of its
\* chain; the link of an identity may only be missing after a logged failure.
AnswerHonest ==
  \A r \in DOMAIN wire : wire[r].ok =>
    \/ wipes > Reply(r).root.era
    \/ wire[r].kind = "sale" /\ wire[r].stored = {"event", "data", "revenue"}
    \/ wire[r].kind = "scroll" /\ wire[r].stored = {"event", "data"}
    \/ wire[r].kind = "view" /\ Stored(r)
    \/ /\ wire[r].kind = "identify"
       /\ Reply(r).session \in traits
       /\ wire[r].skipped \/ <<Reply(r).session, wire[r].identity>> \in session_link

\* Every page is reported exactly once, under its own URL: its engagement when
\* there was any, and its performance, however it is hidden, shown, left,
\* closed or timed out (tracker/index.ts, flushEngagement and flushPerformance
\* before currentUrl changes, and the flags they keep).
ReportExact ==
  \A i \in DOMAIN segments :
    LET s == segments[i]
        ended == i < Len(segments) \/ visible = "closed"
    IN /\ s.scroll \in {<<>>, <<s.page>>} /\ s.performance \in {<<>>, <<s.page>>}
       /\ ended => s.performance # <<>> /\ (s.scroll # <<>> <=> s.worth)
=============================================================================
