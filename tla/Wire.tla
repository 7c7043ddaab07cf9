-------------------------------- MODULE Wire --------------------------------
(***************************************************************************)
(* What the browser tracker and the collect handler of the web interface   *)
(* exchange: the requests of one visitor, and the cache token that an      *)
(* answer gives to the tracker and that later requests carry.              *)
(*                                                                         *)
(* Time is counted in ticks of half an hour: the handler tells times apart *)
(* by the age of a token (1800 seconds), the hour, and the month.          *)
(***************************************************************************)
EXTENDS Naturals, Sequences, FiniteSets

CONSTANTS
  Addresses,    \* the network addresses the visitor's device has in turn
  Identities,   \* the distinct ids the page passes to identify
  Calls,        \* what the page itself makes the tracker send
  FirstTick,    \* when the page is loaded
  LastTick,     \* bound: the clock
  MonthEnd      \* the tick at which a month ends

\*   sale      a custom event whose data carries revenue and currency
\*   error     an error the tracker caught
\*   identify  an identify call with data
CallKinds == {"sale", "error", "identify"}

ASSUME CallAssumption == Calls \subseteq CallKinds
ASSUME TimeAssumption == FirstTick \in Nat /\ LastTick \in Nat /\ MonthEnd \in Nat
                         /\ FirstTick <= LastTick

\* What the handler does with a request: a page view and a performance report
\* are an event, an engagement report (scroll) is an event with data.
Kinds == {"view", "scroll"} \cup CallKinds

Anonymous == "anonymous"
NoRow == "none"
ASSUME IdentityAssumption == Anonymous \notin Identities /\ NoRow \notin Identities

\* getSalt with the default rotation, and startOfHour.
Month(t) == IF t < MonthEnd THEN 0 ELSE 1
Hour(t) == t \div 2

\* uuid(sourceId, ip, userAgent, sessionSalt): one site and one agent.
SessionIds == Addresses \X {0, 1}

\* uuid(sessionId, visitSalt)
Visits == [session : SessionIds, hour : Nat]

\* hash(sessionId, id)
Links == SessionIds \X Identities

\* The payload of the signed token.  root is history: the session whose row was
\* looked after when the first token of this chain was issued, and how many
\* times the site had been wiped by then.  Who has no token has the empty set,
\* who has one a singleton: an absent and an empty token are the same to both.
Tokens ==
  [session : SessionIds, visit : Visits, iat : FirstTick..LastTick,
   link : SUBSET Links, root : [session : SessionIds, era : Nat]]

(***************************************************************************)
(* pc: hooked (waiting for the before-send callback), sent, then the       *)
(* handler's own stages, then answered or refused (on the way back), done. *)
(***************************************************************************)
Stages == {"hooked", "sent", "fill", "checked", "save", "data", "revenue", "link",
           "traits", "answered", "refused", "done"}

Requests ==
  [pc : Stages, kind : Kinds, identity : Identities \cup {Anonymous},
   awaited : BOOLEAN, addr : Addresses, tok : SUBSET Tokens,
   found : {"none", "live", "gone"}, via : {"none", "token", "cache", "late", "row"},
   at : FirstTick..LastTick, reply : SUBSET Tokens,
   stored : SUBSET {"event", "data", "revenue"}, todo : SUBSET {"link", "update"},
   skipped : BOOLEAN, ok : BOOLEAN]

VARIABLES
  wire,     \* the requests of the visitor, in the order they were sent
  clock,
  address,  \* the address the visitor's device has now
  mishaps   \* moves, losses, failures, expiries and wipes so far

around == <<clock, address, mishaps>>

\* Mishaps are counted, for the bound on a behaviour.
Mishap == mishaps' = mishaps + 1 /\ UNCHANGED clock

\* A request as the tracker hands it to the network; a beacon awaits no answer.
NewRequest(kind, identity, beacon, tok, pc) ==
  [pc |-> pc, kind |-> kind, identity |-> identity, awaited |-> ~beacon,
   addr |-> address, tok |-> tok, found |-> "none", via |-> "none", at |-> clock,
   reply |-> {}, stored |-> {}, todo |-> {}, skipped |-> FALSE, ok |-> FALSE]

\* The device moves to another network; time passes.
Move ==
  /\ \E a \in Addresses \ {address} : address' = a
  /\ Mishap
  /\ UNCHANGED wire

Tick ==
  /\ clock < LastTick
  /\ clock' = clock + 1
  /\ UNCHANGED <<wire, address, mishaps>>
=============================================================================
