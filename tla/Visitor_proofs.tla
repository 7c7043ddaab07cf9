--------------------------- MODULE Visitor_proofs ---------------------------
(***************************************************************************)
(* Theorems about Visitor, for every set of addresses, identities, pages   *)
(* and calls, every clock and month, with and without a before-send        *)
(* callback, in and out of cloud mode, whichever statements may fail: how  *)
(* long a visit lasts, how the pages are reported, which events lack their *)
(* session row, which are stored for a deleted site, and what an answer    *)
(* promises.                                                               *)
(***************************************************************************)
EXTENDS Visitor, SequenceTheorems, TLAPS

-----------------------------------------------------------------------------
(* The inductive invariant *)

\* The tokens the handler may have issued by now.
FreshTokens(now) ==
  {t \in Tokens : t.visit.hour = Hour(t.iat) /\ t.iat <= now}

\* The stages that follow Begin, where the answer's token is known.
AfterBegin == {"save", "data", "revenue", "link", "traits", "answered"}

InTime(m) ==
  \A t \in m.reply : 2 * t.visit.hour <= m.at /\ m.at <= 2 * t.visit.hour + 2

Sound(m, now) ==
  /\ m.tok \cup m.reply \subseteq FreshTokens(now)
  /\ InTime(m)
  /\ m.kind = "identify" => m.identity \in Identities
  /\ m.pc = "link" => m.kind = "identify"
  /\ m.pc \in AfterBegin \/ m.todo # {} => m.reply # {}

SoundRequests(now) == {m \in Requests : Sound(m, now)}

\* Every token, wherever it is, was issued in the hour its visit is named for.
IInv ==
  /\ TypeOK
  /\ wire \in Seq(SoundRequests(clock))
  /\ cache \subseteq FreshTokens(clock)

-----------------------------------------------------------------------------
(* Requests *)

\* A request that is replaced by a sound one leaves a sound wire.
LEMMA Replaced ==
  ASSUME NEW S, NEW w \in Seq(S), NEW r \in DOMAIN w, NEW q \in S
  PROVE  [w EXCEPT ![r] = q] \in Seq(S) /\ DOMAIN [w EXCEPT ![r] = q] = DOMAIN w
BY ExceptSeq

\* A new request carries what the tracker knows.
LEMMA NewSound ==
  ASSUME TypeOK,
         NEW kind \in Kinds, NEW id \in Identities \cup {Anonymous},
         NEW beacon \in BOOLEAN, NEW tok \in SUBSET FreshTokens(clock),
         NEW pc \in {"hooked", "sent"},
         kind = "identify" => id \in Identities
  PROVE  NewRequest(kind, id, beacon, tok, pc) \in SoundRequests(clock)
<1> DEFINE m == NewRequest(kind, id, beacon, tok, pc)
<1>1. m \in Requests
  BY DEF TypeOK, NewRequest, Requests, Stages, FreshTokens
<1>2. Sound(m, clock)
  BY DEF NewRequest, Sound, InTime, AfterBegin
<1> QED
  BY <1>1, <1>2 DEF SoundRequests

LEMMA MessageSound ==
  ASSUME TypeOK, BeforeSend \in BOOLEAN,
         NEW kind \in Kinds, NEW id \in Identities \cup {Anonymous},
         NEW beacon \in BOOLEAN, NEW tok \in SUBSET FreshTokens(clock),
         kind = "identify" => id \in Identities
  PROVE  Message(kind, tok, id, beacon) \in SoundRequests(clock)
<1>1. (IF BeforeSend \/ beacon THEN {} ELSE tok) \in SUBSET FreshTokens(clock)
  OBVIOUS
<1>2. (IF BeforeSend THEN "hooked" ELSE "sent") \in {"hooked", "sent"}
  OBVIOUS
<1> QED
  BY <1>1, <1>2, NewSound DEF Message

\* A request stays sound as long as what it carries stays the same.
LEMMA SameSound ==
  ASSUME NEW now, NEW m \in SoundRequests(now), NEW q \in Requests,
         q.tok = m.tok, q.reply = m.reply, q.at = m.at,
         q.kind = m.kind, q.identity = m.identity, q.todo \subseteq m.todo,
         q.pc \in AfterBegin => m.reply # {},
         q.pc = "link" => m.kind = "identify"
  PROVE  q \in SoundRequests(now)
BY DEF SoundRequests, Sound, InTime

\* A request moves to another stage.
LEMMA StageSound ==
  ASSUME NEW now, NEW m \in SoundRequests(now), NEW pc \in Stages,
         pc \in AfterBegin => m.reply # {},
         pc = "link" => m.kind = "identify"
  PROVE  [m EXCEPT !.pc = pc] \in SoundRequests(now)
BY DEF SoundRequests, Sound, InTime, Requests

\* A request is found a website, or none.
LEMMA PathSound ==
  ASSUME NEW now, NEW m \in SoundRequests(now), NEW pc \in {"checked", "fill", "refused"},
         NEW found \in {"none", "live", "gone"},
         NEW via \in {"none", "token", "cache", "late", "row"}
  PROVE  /\ [m EXCEPT !.pc = pc, !.via = via] \in SoundRequests(now)
         /\ [m EXCEPT !.pc = pc, !.found = found] \in SoundRequests(now)
         /\ [m EXCEPT !.pc = pc, !.found = found, !.via = via] \in SoundRequests(now)
<1>1. m \in Requests /\ pc \in Stages /\ pc \notin AfterBegin /\ pc # "link"
  BY DEF SoundRequests, Stages, AfterBegin
<1>2. [m EXCEPT !.pc = pc, !.via = via] \in SoundRequests(now)
  <2> DEFINE q == [m EXCEPT !.pc = pc, !.via = via]
  <2>1. q \in Requests
    BY <1>1 DEF Requests
  <2>2. /\ q.pc = pc /\ q.tok = m.tok /\ q.reply = m.reply /\ q.at = m.at
        /\ q.kind = m.kind /\ q.identity = m.identity /\ q.todo = m.todo
    BY <1>1 DEF Requests
  <2> HIDE DEF q
  <2>3. q \in SoundRequests(now)
    BY <1>1, <2>1, <2>2, SameSound
  <2> QED
    BY <2>3 DEF q
<1>3. [m EXCEPT !.pc = pc, !.found = found] \in SoundRequests(now)
  <2> DEFINE q == [m EXCEPT !.pc = pc, !.found = found]
  <2>1. q \in Requests
    BY <1>1 DEF Requests
  <2>2. /\ q.pc = pc /\ q.tok = m.tok /\ q.reply = m.reply /\ q.at = m.at
        /\ q.kind = m.kind /\ q.identity = m.identity /\ q.todo = m.todo
    BY <1>1 DEF Requests
  <2> HIDE DEF q
  <2>3. q \in SoundRequests(now)
    BY <1>1, <2>1, <2>2, SameSound
  <2> QED
    BY <2>3 DEF q
<1>4. [m EXCEPT !.pc = pc, !.found = found, !.via = via] \in SoundRequests(now)
  <2> DEFINE q == [m EXCEPT !.pc = pc, !.found = found, !.via = via]
  <2>1. q \in Requests
    BY <1>1 DEF Requests
  <2>2. /\ q.pc = pc /\ q.tok = m.tok /\ q.reply = m.reply /\ q.at = m.at
        /\ q.kind = m.kind /\ q.identity = m.identity /\ q.todo = m.todo
    BY <1>1 DEF Requests
  <2> HIDE DEF q
  <2>3. q \in SoundRequests(now)
    BY <1>1, <2>1, <2>2, SameSound
  <2> QED
    BY <2>3 DEF q
<1> QED
  BY <1>2, <1>3, <1>4

\* What a step does to one request, and leaves the others, keeps the wire sound.
LEMMA OneRequest ==
  ASSUME IInv, clock' = clock,
         NEW r \in DOMAIN wire, NEW q \in SoundRequests(clock),
         wire' = [wire EXCEPT ![r] = q]
  PROVE  wire' \in Seq(SoundRequests(clock')) /\ DOMAIN wire' = DOMAIN wire
BY Replaced DEF IInv

\* A request on the wire is sound.
LEMMA OnWire ==
  ASSUME IInv, NEW r \in DOMAIN wire
  PROVE  wire[r] \in SoundRequests(clock) /\ wire[r] \in Requests /\ Sound(wire[r], clock)
<1>1. r \in 1..Len(wire)
  BY DEF IInv
<1> QED
  BY <1>1, ElementOfSeq DEF IInv, SoundRequests

\* A step that does nothing but replace a request by a sound one.
LEMMA WireOnly ==
  ASSUME IInv, UNCHANGED <<trackerVars, collectVars, around>>,
         NEW r \in DOMAIN wire, NEW q \in SoundRequests(clock),
         wire' = [wire EXCEPT ![r] = q]
  PROVE  IInv'
<1>1. clock' = clock
  BY DEF around
<1>2. wire' \in Seq(SoundRequests(clock')) /\ DOMAIN wire' = DOMAIN wire
  BY <1>1, OneRequest
<1>3. wire' \in Seq(Requests)
  BY <1>2, SeqMonotonic DEF SoundRequests
<1> QED
  BY <1>2, <1>3 DEF IInv, TypeOK, trackerVars, collectVars, dbVars, cacheVars, around

\* The same, as a mishap.
LEMMA WireMishap ==
  ASSUME IInv, UNCHANGED <<trackerVars, collectVars, address>>, Mishap,
         NEW r \in DOMAIN wire, NEW q \in SoundRequests(clock),
         wire' = [wire EXCEPT ![r] = q]
  PROVE  IInv'
<1>1. clock' = clock /\ mishaps' \in Nat
  BY DEF Mishap, IInv, TypeOK
<1>2. wire' \in Seq(SoundRequests(clock')) /\ DOMAIN wire' = DOMAIN wire
  BY <1>1, OneRequest
<1>3. wire' \in Seq(Requests)
  BY <1>2, SeqMonotonic DEF SoundRequests
<1> QED
  BY <1>1, <1>2, <1>3 DEF IInv, TypeOK, trackerVars, collectVars, dbVars, cacheVars

-----------------------------------------------------------------------------
(* The handler *)

\* The steps that find the website, or refuse to.
LEMMA FindInv ==
  ASSUME IInv, UNCHANGED trackerVars, NEW r \in DOMAIN wire,
         RefuseType(r) \/ TrustToken(r) \/ FetchCached(r) \/ FetchRow(r) \/ Fill(r)
  PROVE  IInv'
<1> DEFINE m == wire[r]
<1>0. m \in SoundRequests(clock) /\ m \in Requests /\ Sound(m, clock)
  BY OnWire
<1>1. CASE RefuseType(r)
  <2>1. wire' = [wire EXCEPT ![r] = [m EXCEPT !.pc = "refused"]]
    BY <1>1 DEF RefuseType, SetPc
  <2>2. [m EXCEPT !.pc = "refused"] \in SoundRequests(clock)
    BY <1>0, StageSound DEF Stages, AfterBegin
  <2> QED
    BY <1>1, <2>1, <2>2, WireOnly DEF RefuseType
<1>2. CASE TrustToken(r)
  <2> DEFINE q == [m EXCEPT !.pc = "checked", !.via = "token"]
  <2>1. wire' = [wire EXCEPT ![r] = q]
    BY <1>2 DEF TrustToken
  <2>2. q \in SoundRequests(clock)
    BY <1>0, PathSound
  <2> QED
    BY <1>2, <2>1, <2>2, WireOnly DEF TrustToken
<1>3. CASE FetchCached(r)
  <2> DEFINE q == [m EXCEPT !.pc = IF website_cache = "live" THEN "checked" ELSE "refused",
                            !.via = IF ToldTooEarly THEN "late" ELSE "cache"]
  <2>1. wire' = [wire EXCEPT ![r] = q]
    BY <1>3 DEF FetchCached
  <2>2. q \in SoundRequests(clock)
    BY <1>0, PathSound
  <2> QED
    BY <1>3, <2>1, <2>2, WireOnly DEF FetchCached
<1>4. CASE FetchRow(r)
  <2> DEFINE q == [m EXCEPT !.pc = IF RowFound = "none" THEN "refused" ELSE "fill",
                            !.found = RowFound, !.via = "row"]
  <2>1. wire' = [wire EXCEPT ![r] = q]
    BY <1>4 DEF FetchRow
  <2>2. RowFound \in {"none", "live", "gone"}
    BY DEF IInv, TypeOK, RowFound
  <2>3. q \in SoundRequests(clock)
    BY <1>0, <2>2, PathSound
  <2> QED
    BY <1>4, <2>1, <2>3, WireOnly DEF FetchRow
<1>5. CASE Fill(r)
  <2> DEFINE q == [m EXCEPT !.pc = IF m.found = "live" THEN "checked" ELSE "refused",
                            !.found = "none"]
  <2>1. wire' = [wire EXCEPT ![r] = q]
    BY <1>5 DEF Fill
  <2>2. q \in SoundRequests(clock)
    BY <1>0, PathSound
  <2>3. clock' = clock
    BY <1>5 DEF Fill, around
  <2>4. wire' \in Seq(SoundRequests(clock')) /\ DOMAIN wire' = DOMAIN wire
    BY <2>1, <2>2, <2>3, OneRequest
  <2>5. wire' \in Seq(Requests)
    BY <2>4, SeqMonotonic DEF SoundRequests
  <2>6. website_cache' \in {"none", "live", "gone"} /\ late' \in BOOLEAN
    BY <1>0, <1>5 DEF Fill, WriteCache, At, Requests, IInv, TypeOK
  <2> QED
    BY <1>5, <2>4, <2>5, <2>6 DEF Fill, IInv, TypeOK, trackerVars, dbVars, around
<1> QED
  BY <1>1, <1>2, <1>3, <1>4, <1>5

\* The token of an answer: issued now, or within the last tick.
LEMMA TokenSound ==
  ASSUME IInv, NEW r \in DOMAIN wire, NEW sid \in SessionIds
  PROVE  /\ TokenFor(r, sid) \in FreshTokens(clock)
         /\ 2 * TokenFor(r, sid).visit.hour <= clock
         /\ clock <= 2 * TokenFor(r, sid).visit.hour + 2
<1> DEFINE tok == wire[r].tok
           kept == {t \in tok : ~Expired(t)}
           old == CHOOSE t \in kept : TRUE
           visit == IF kept = {} THEN [session |-> sid, hour |-> Hour(clock)] ELSE old.visit
           iat == IF kept = {} THEN clock ELSE old.iat
           link == UNION {t.link : t \in tok}
           root == IF tok = {} THEN [session |-> sid, era |-> wipes]
                   ELSE (CHOOSE t \in tok : TRUE).root
           token == [session |-> sid, visit |-> visit, iat |-> iat, link |-> link, root |-> root]
<1>1. TokenFor(r, sid) = token
  BY DEF TokenFor
<1>2. tok \subseteq FreshTokens(clock) /\ tok \subseteq Tokens
  BY OnWire DEF Sound, FreshTokens
<1>3. clock \in FirstTick..LastTick /\ clock \in Nat /\ wipes \in Nat
  BY TimeAssumption DEF IInv, TypeOK
<1>4. /\ visit \in Visits /\ iat \in FirstTick..LastTick
      /\ visit.hour = Hour(iat) /\ iat <= clock /\ clock - iat <= 1
  <2>1. CASE kept = {}
    BY <1>3, <2>1 DEF Visits, Hour
  <2>2. CASE kept # {}
    <3>1. old \in kept
      BY <2>2
    <3>2. old \in FreshTokens(clock) /\ old \in Tokens /\ ~Expired(old)
      BY <1>2, <3>1
    <3>3. old.visit \in Visits /\ old.iat \in FirstTick..LastTick
          /\ old.visit.hour = Hour(old.iat) /\ old.iat <= clock
      BY <3>2 DEF FreshTokens, Tokens
    <3>4. clock - old.iat <= 1
      BY <1>3, <3>2, <3>3, TimeAssumption DEF Expired
    <3> QED
      BY <2>2, <3>3, <3>4
  <2> QED
    BY <2>1, <2>2
<1>5. link \in SUBSET Links
  BY <1>2 DEF Tokens
<1>6. root \in [session : SessionIds, era : Nat]
  <2>1. CASE tok = {}
    BY <1>3, <2>1
  <2>2. CASE tok # {}
    <3>1. (CHOOSE t \in tok : TRUE) \in Tokens
      BY <1>2, <2>2
    <3> QED
      BY <2>2, <3>1 DEF Tokens
  <2> QED
    BY <2>1, <2>2
<1> HIDE DEF visit, iat, link, root
<1>7. token \in Tokens
  BY <1>4, <1>5, <1>6 DEF Tokens
<1>8. token.visit.hour = Hour(token.iat) /\ token.iat <= clock
  BY <1>4
<1>9. 2 * visit.hour <= clock /\ clock <= 2 * visit.hour + 2
  BY <1>3, <1>4, TimeAssumption DEF Hour
<1> QED
  BY <1>1, <1>7, <1>8, <1>9 DEF FreshTokens

LEMMA BeginInv ==
  ASSUME IInv, UNCHANGED trackerVars, NEW r \in DOMAIN wire, Begin(r)
  PROVE  IInv'
<1> DEFINE m == wire[r]
           sid == <<m.addr, Month(clock)>>
           next == AfterSession(r, sid)
           token == TokenFor(r, sid)
           todo == IF next = "link" THEN {"link", "update"} ELSE {}
           q == [m EXCEPT !.pc = next, !.at = clock, !.tok = {}, !.reply = {token},
                          !.todo = todo]
<1>0. m \in SoundRequests(clock) /\ m \in Requests /\ Sound(m, clock)
  BY OnWire
<1>1. wire' = [wire EXCEPT ![r] = q]
  BY DEF Begin
<1>2. sid \in SessionIds
  BY <1>0 DEF Requests, SessionIds, Month
<1>3. /\ token \in FreshTokens(clock) /\ token \in Tokens
      /\ 2 * token.visit.hour <= clock /\ clock <= 2 * token.visit.hour + 2
  BY <1>2, TokenSound DEF FreshTokens
<1>4. next \in {"save", "link", "traits"} /\ (next = "link" => m.kind = "identify")
  BY DEF AfterSession
<1>5. clock' = clock /\ clock \in FirstTick..LastTick
  BY DEF Begin, around, IInv, TypeOK
<1> HIDE DEF token, next
<1>6. q \in Requests
  BY <1>0, <1>3, <1>4, <1>5 DEF Requests, Stages
<1>7. /\ q.tok = {} /\ q.reply = {token} /\ q.at = clock
      /\ q.kind = m.kind /\ q.identity = m.identity /\ q.pc = next
  BY <1>0 DEF Requests
<1> HIDE DEF q
<1>8. q \in SoundRequests(clock)
  BY <1>0, <1>3, <1>4, <1>6, <1>7 DEF SoundRequests, Sound, InTime
<1>9. wire' \in Seq(SoundRequests(clock')) /\ DOMAIN wire' = DOMAIN wire
  BY <1>1, <1>5, <1>8, OneRequest
<1>10. wire' \in Seq(Requests)
  BY <1>9, SeqMonotonic DEF SoundRequests
<1>11. session' \in [SessionIds -> Identities \cup {Anonymous, NoRow}]
  BY <1>0 DEF Begin, InsertSession, IInv, TypeOK, Requests
<1> QED
  BY <1>9, <1>10, <1>11 DEF Begin, IInv, TypeOK, trackerVars, cacheVars, around

\* A request stores a part of what it carries, and goes on or is answered.
LEMMA SavedSound ==
  ASSUME NEW now, NEW m \in SoundRequests(now), m.reply # {},
         NEW part \in {"event", "data", "revenue"}, NEW pc \in {"data", "revenue"}
  PROVE  LET q == [m EXCEPT !.stored = @ \cup {part}]
         IN Answer(q) \in SoundRequests(now) /\ [q EXCEPT !.pc = pc] \in SoundRequests(now)
<1> DEFINE q == [m EXCEPT !.stored = @ \cup {part}]
<1>1. m \in Requests
  BY DEF SoundRequests
<1>2. q \in Requests
  BY <1>1 DEF Requests
<1>3. /\ q.tok = m.tok /\ q.reply = m.reply /\ q.at = m.at /\ q.kind = m.kind
      /\ q.identity = m.identity /\ q.todo = m.todo /\ q.pc = m.pc
  BY <1>1 DEF Requests
<1> HIDE DEF q
<1>4. q \in SoundRequests(now)
  BY <1>2, <1>3, SameSound DEF SoundRequests, Sound
<1>5. [q EXCEPT !.pc = pc] \in SoundRequests(now)
  BY <1>3, <1>4, StageSound DEF Stages
<1>6. Answer(q) \in SoundRequests(now)
  <2> DEFINE a == [q EXCEPT !.pc = "answered", !.ok = TRUE]
  <2>1. a \in Requests
    BY <1>2 DEF Requests, Stages
  <2>2. /\ a.tok = q.tok /\ a.reply = q.reply /\ a.at = q.at /\ a.kind = q.kind
        /\ a.identity = q.identity /\ a.todo = q.todo /\ a.pc = "answered"
    BY <1>2 DEF Requests
  <2> HIDE DEF a
  <2>3. a \in SoundRequests(now)
    BY <1>3, <1>4, <2>1, <2>2, SameSound
  <2> QED
    BY <2>3 DEF a, Answer
<1> QED
  BY <1>5, <1>6 DEF q

LEMMA SaveInv ==
  ASSUME IInv, UNCHANGED trackerVars, NEW r \in DOMAIN wire,
         SaveEvent(r) \/ SaveEventData(r) \/ SaveRevenue(r)
  PROVE  IInv'
<1> DEFINE m == wire[r]
           Part(part) == [m EXCEPT !.stored = @ \cup {part}]
<1>0. m \in SoundRequests(clock) /\ m \in Requests /\ Sound(m, clock)
  BY OnWire
<1>1. m.reply # {}
  BY <1>0 DEF Sound, AfterBegin, SaveEvent, SaveEventData, SaveRevenue, At
<1>2. \A part \in {"event", "data", "revenue"} :
        /\ Answer(Part(part)) \in SoundRequests(clock)
        /\ [Part(part) EXCEPT !.pc = "data"] \in SoundRequests(clock)
        /\ [Part(part) EXCEPT !.pc = "revenue"] \in SoundRequests(clock)
  BY <1>0, <1>1, SavedSound
<1>3. UNCHANGED <<trackerVars, collectVars, around>>
  BY DEF SaveEvent, SaveEventData, SaveRevenue
<1>4. CASE SaveEvent(r)
  <2>1. PICK q \in SoundRequests(clock) : wire' = [wire EXCEPT ![r] = q]
    <3>1. CASE Part("event").kind = "view"
      BY <1>2, <1>4, <3>1 DEF SaveEvent
    <3>2. CASE Part("event").kind # "view"
      BY <1>2, <1>4, <3>2 DEF SaveEvent
    <3> QED
      BY <3>1, <3>2
  <2> QED
    BY <1>3, <2>1, WireOnly
<1>5. CASE SaveEventData(r)
  <2>1. PICK q \in SoundRequests(clock) : wire' = [wire EXCEPT ![r] = q]
    <3>1. CASE Part("data").kind = "sale"
      BY <1>2, <1>5, <3>1 DEF SaveEventData
    <3>2. CASE Part("data").kind # "sale"
      BY <1>2, <1>5, <3>2 DEF SaveEventData
    <3> QED
      BY <3>1, <3>2
  <2> QED
    BY <1>3, <2>1, WireOnly
<1>6. CASE SaveRevenue(r)
  <2>1. PICK q \in SoundRequests(clock) : wire' = [wire EXCEPT ![r] = q]
    BY <1>2, <1>6 DEF SaveRevenue
  <2> QED
    BY <1>3, <2>1, WireOnly
<1> QED
  BY <1>4, <1>5, <1>6

-----------------------------------------------------------------------------
(* The identity of a session *)

\* One of the two statements of saveSessionLink is through.
LEMMA FinishSound ==
  ASSUME IInv, clock' = clock, NEW r \in DOMAIN wire,
         NEW write \in {"link", "update"}, write \in wire[r].todo, Finish(r, write)
  PROVE  /\ wire' \in Seq(SoundRequests(clock')) /\ DOMAIN wire' = DOMAIN wire
         /\ wire' \in Seq(Requests)
         /\ Reply(r).session \in SessionIds
<1> DEFINE m == wire[r]
           q == [m EXCEPT !.todo = @ \ {write}]
           claim == <<Reply(r).session, q.identity>>
           token == [Reply(r) EXCEPT !.link = {claim}]
           answer == [q EXCEPT !.pc = "traits", !.reply = {token}]
<1>0. m \in SoundRequests(clock) /\ m \in Requests /\ Sound(m, clock)
  BY OnWire
<1>1. m.reply # {}
  BY <1>0 DEF Sound
<1>2. Reply(r) \in m.reply
  BY <1>1 DEF Reply
<1>3. Reply(r) \in FreshTokens(clock) /\ Reply(r) \in Tokens
  BY <1>0, <1>2 DEF Sound, FreshTokens
<1>4. Reply(r).session \in SessionIds
  BY <1>3 DEF Tokens
<1>5. q \in Requests
  BY <1>0 DEF Requests
<1>6. /\ q.tok = m.tok /\ q.reply = m.reply /\ q.at = m.at /\ q.kind = m.kind
      /\ q.identity = m.identity /\ q.todo \subseteq m.todo /\ q.pc = m.pc
  BY <1>0 DEF Requests
<1>7. wire' = [wire EXCEPT ![r] = IF q.pc = "link" /\ q.todo = {} THEN answer ELSE q]
  BY DEF Finish
<1> HIDE DEF q
<1>8. q \in SoundRequests(clock)
  BY <1>0, <1>1, <1>5, <1>6, SameSound DEF Sound
<1>9. ASSUME q.pc = "link"
      PROVE  answer \in SoundRequests(clock)
  <2>1. q.identity \in Identities
    BY <1>0, <1>6, <1>9 DEF Sound
  <2>2. claim \in Links
    BY <1>4, <2>1 DEF Links
  <2>3. /\ token \in Tokens /\ token.visit = Reply(r).visit /\ token.iat = Reply(r).iat
    BY <1>3, <2>2 DEF Tokens
  <2> HIDE DEF token
  <2>4. token \in FreshTokens(clock)
    BY <1>3, <2>3 DEF FreshTokens
  <2>5. answer \in Requests
    BY <1>5, <2>3 DEF Requests, Stages
  <2>6. /\ answer.tok = q.tok /\ answer.reply = {token} /\ answer.at = q.at
        /\ answer.kind = q.kind /\ answer.identity = q.identity /\ answer.pc = "traits"
    BY <1>5 DEF Requests
  <2>7. 2 * token.visit.hour <= q.at /\ q.at <= 2 * token.visit.hour + 2
    BY <1>0, <1>2, <1>6, <2>3 DEF Sound, InTime
  <2> HIDE DEF answer
  <2> QED
    BY <1>8, <2>4, <2>5, <2>6, <2>7 DEF SoundRequests, Sound, InTime
<1> HIDE DEF answer
<1>10. PICK e \in SoundRequests(clock) : wire' = [wire EXCEPT ![r] = e]
  <2>1. CASE q.pc = "link" /\ q.todo = {}
    BY <1>7, <1>9, <2>1
  <2>2. CASE ~(q.pc = "link" /\ q.todo = {})
    BY <1>7, <1>8, <2>2
  <2> QED
    BY <2>1, <2>2
<1>11. wire' \in Seq(SoundRequests(clock')) /\ DOMAIN wire' = DOMAIN wire
  BY <1>10, OneRequest
<1>12. wire' \in Seq(Requests)
  BY <1>11, SeqMonotonic DEF SoundRequests
<1> QED
  BY <1>4, <1>11, <1>12

LEMMA LinkInv ==
  ASSUME IInv, UNCHANGED trackerVars, NEW r \in DOMAIN wire,
         SaveSessionLink(r) \/ UpdateSession(r)
  PROVE  IInv'
<1>0. wire[r].identity \in Identities \cup {Anonymous}
  BY OnWire DEF Requests
<1>1. clock' = clock
  BY DEF SaveSessionLink, UpdateSession, around
<1>2. CASE SaveSessionLink(r)
  <2>1. /\ wire' \in Seq(SoundRequests(clock')) /\ DOMAIN wire' = DOMAIN wire
        /\ wire' \in Seq(Requests) /\ Reply(r).session \in SessionIds
    BY <1>1, <1>2, FinishSound DEF SaveSessionLink
  <2>2. session_link' \subseteq SessionIds \X (Identities \cup {Anonymous})
    BY <1>0, <1>2, <2>1 DEF SaveSessionLink, IInv, TypeOK
  <2> QED
    BY <1>2, <2>1, <2>2 DEF SaveSessionLink, IInv, TypeOK, trackerVars, cacheVars, around
<1>3. CASE UpdateSession(r)
  <2>1. /\ wire' \in Seq(SoundRequests(clock')) /\ DOMAIN wire' = DOMAIN wire
        /\ wire' \in Seq(Requests) /\ Reply(r).session \in SessionIds
    BY <1>1, <1>3, FinishSound DEF UpdateSession
  <2>2. session' \in [SessionIds -> Identities \cup {Anonymous, NoRow}]
    BY <1>0, <1>3, <2>1 DEF UpdateSession, IInv, TypeOK
  <2> QED
    BY <1>3, <2>1, <2>2 DEF UpdateSession, IInv, TypeOK, trackerVars, cacheVars, around
<1> QED
  BY <1>2, <1>3

LEMMA FailInv ==
  ASSUME IInv, UNCHANGED trackerVars, NEW r \in DOMAIN wire, LinkFails(r) \/ Fails(r)
  PROVE  IInv'
<1> DEFINE m == wire[r]
<1>0. m \in SoundRequests(clock) /\ m \in Requests /\ Sound(m, clock)
  BY OnWire
<1>1. CASE LinkFails(r)
  <2>1. PICK write \in m.todo :
          wire' = [wire EXCEPT ![r].todo = @ \ {write}, ![r].skipped = TRUE,
                               ![r].pc = IF @ = "link" THEN "traits" ELSE @]
    BY <1>1 DEF LinkFails
  <2> DEFINE pc == IF m.pc = "link" THEN "traits" ELSE m.pc
             q == [m EXCEPT !.todo = @ \ {write}, !.skipped = TRUE, !.pc = pc]
  <2>2. pc \in Stages /\ m.reply # {} /\ (pc = "link" => m.kind = "identify")
    BY <1>0, <2>1 DEF Sound, Stages, Requests
  <2>3. wire' = [wire EXCEPT ![r] = q]
    BY <1>0, <2>1 DEF Requests
  <2> HIDE DEF pc
  <2>4. q \in Requests
    BY <1>0, <2>2 DEF Requests
  <2>5. /\ q.tok = m.tok /\ q.reply = m.reply /\ q.at = m.at /\ q.kind = m.kind
        /\ q.identity = m.identity /\ q.todo \subseteq m.todo /\ q.pc = pc
    BY <1>0 DEF Requests
  <2> HIDE DEF q
  <2>6. q \in SoundRequests(clock)
    BY <1>0, <2>2, <2>4, <2>5, SameSound
  <2> QED
    BY <1>1, <2>3, <2>6, WireMishap DEF LinkFails
<1>2. CASE Fails(r)
  <2>1. wire' = [wire EXCEPT ![r] = [m EXCEPT !.pc = "refused"]]
    BY <1>2 DEF Fails, SetPc
  <2>2. [m EXCEPT !.pc = "refused"] \in SoundRequests(clock)
    BY <1>0, StageSound DEF Stages, AfterBegin
  <2> QED
    BY <1>2, <2>1, <2>2, WireMishap DEF Fails
<1> QED
  BY <1>1, <1>2

LEMMA TraitsInv ==
  ASSUME IInv, UNCHANGED trackerVars, NEW r \in DOMAIN wire, SaveSessionData(r)
  PROVE  IInv'
<1> DEFINE m == wire[r]
           q == [m EXCEPT !.pc = "answered", !.ok = TRUE]
<1>0. m \in SoundRequests(clock) /\ m \in Requests /\ Sound(m, clock)
  BY OnWire
<1>1. wire' = [wire EXCEPT ![r] = q] /\ m.pc = "traits"
  BY DEF SaveSessionData, Answer, At
<1>2. m.reply # {}
  BY <1>0, <1>1 DEF Sound, AfterBegin
<1>3. Reply(r).session \in SessionIds
  <2>1. Reply(r) \in m.reply
    BY <1>2 DEF Reply
  <2> QED
    BY <1>0, <2>1 DEF Requests, Tokens
<1>4. q \in Requests
  BY <1>0 DEF Requests, Stages
<1>5. /\ q.tok = m.tok /\ q.reply = m.reply /\ q.at = m.at /\ q.kind = m.kind
      /\ q.identity = m.identity /\ q.todo = m.todo /\ q.pc = "answered"
  BY <1>0 DEF Requests
<1> HIDE DEF q
<1>6. q \in SoundRequests(clock)
  BY <1>0, <1>2, <1>4, <1>5, SameSound
<1>7. clock' = clock
  BY DEF SaveSessionData, around
<1>8. wire' \in Seq(SoundRequests(clock')) /\ DOMAIN wire' = DOMAIN wire
  BY <1>1, <1>6, <1>7, OneRequest
<1>9. wire' \in Seq(Requests)
  BY <1>8, SeqMonotonic DEF SoundRequests
<1>10. traits' \subseteq SessionIds
  BY <1>3 DEF SaveSessionData, IInv, TypeOK
<1> QED
  BY <1>8, <1>9, <1>10 DEF SaveSessionData, IInv, TypeOK, trackerVars, cacheVars, around

-----------------------------------------------------------------------------
(* The owner *)

\* The events, the links and the sessions that a statement finds have rows.
LEMMA StatementInv ==
  ASSUME IInv, UNCHANGED trackerVars, DependentData
  PROVE  IInv'
<1> DEFINE Rows == ({"event", "data", "revenue"} \X Nat)
                     \cup ({"traits", "session"} \X SessionIds)
                     \cup ({"link"} \X (SessionIds \X (Identities \cup {Anonymous})))
           After == {"data", "drifted", "traits", "link", "event", "session", "website"}
<1>1. DOMAIN wire \subseteq Nat
  BY DEF IInv
<1>2. /\ \A table \in {"event", "data", "revenue"} : EventRows(table) \subseteq Rows
      /\ {"data"} \X {r \in DOMAIN wire : {"event", "data"} \subseteq wire[r].stored}
           \subseteq Rows
      /\ {"traits"} \X traits \subseteq Rows
      /\ {"link"} \X session_link \subseteq Rows
      /\ {"session"} \X {s \in SessionIds : session[s] # NoRow} \subseteq Rows
  BY <1>1 DEF EventRows, IInv, TypeOK
<1> HIDE DEF Rows
<1>3. ASSUME NEW table, NEW next \in After, NEW rows \in SUBSET Rows,
             Statement(table, next, rows)
      PROVE  IInv'
  <2>1. transaction' \in Transactions
    BY <1>3 DEF Statement, Transactions, IInv, TypeOK, Rows
  <2> QED
    BY <1>3, <2>1 DEF Statement, IInv, TypeOK, trackerVars, cacheVars, around
<1> QED
  BY <1>2, <1>3 DEF DependentData, DeleteRevenue, DeleteEventData, DeleteDriftedData,
     DeleteSessionData, DeleteSessionLink, DeleteWebsiteEvent, DeleteSession

\* A transaction that begins or is rolled back leaves the rows as they are.
LEMMA OpenInv ==
  ASSUME IInv, UNCHANGED trackerVars, ResetWebsite \/ DeleteWebsite \/ RollBack
  PROVE  IInv'
<1>1. DOMAIN wire \subseteq Nat
  BY DEF IInv
<1>2. transaction' \in Transactions
  BY <1>1 DEF ResetWebsite, DeleteWebsite, Open, RollBack, NoTransaction, Transactions
<1>3. /\ UNCHANGED <<site, session, session_link, traits, wipes, raced, cacheVars, wire,
                    address, clock>>
      /\ mishaps' \in Nat
  BY DEF ResetWebsite, DeleteWebsite, Open, RollBack, Mishap, IInv, TypeOK
<1> QED
  BY <1>2, <1>3 DEF IInv, TypeOK, trackerVars, cacheVars

\* What is left of a request when a wipe commits.
Bare(m, r) == [m EXCEPT !.stored = {table \in @ : ~Waits(table, r)}]

LEMMA BareRequest ==
  ASSUME NEW m \in Requests, NEW r
  PROVE  /\ Bare(m, r) \in Requests
         /\ Bare(m, r).stored = {table \in m.stored : ~Waits(table, r)}
         /\ Bare(m, r).tok = m.tok /\ Bare(m, r).reply = m.reply /\ Bare(m, r).at = m.at
         /\ Bare(m, r).kind = m.kind /\ Bare(m, r).identity = m.identity
         /\ Bare(m, r).todo = m.todo /\ Bare(m, r).pc = m.pc /\ Bare(m, r).via = m.via
         /\ Bare(m, r).ok = m.ok
BY DEF Bare, Requests

LEMMA WipeWire ==
  ASSUME IInv, Wipe
  PROVE  DOMAIN wire' = DOMAIN wire /\ \A r \in DOMAIN wire : wire'[r] = Bare(wire[r], r)
BY DEF Wipe, Bare

LEMMA CommitInv ==
  ASSUME IInv, UNCHANGED trackerVars, CommitReset \/ CommitDelete
  PROVE  IInv'
<1>1. Wipe /\ UNCHANGED around
  BY DEF CommitReset, CommitDelete
<1>2. Len(wire) \in Nat /\ DOMAIN wire = 1..Len(wire)
  BY DEF IInv
<1>3. wire' = [r \in 1..Len(wire) |-> Bare(wire[r], r)]
  BY <1>1, <1>2 DEF Wipe, Bare
<1>4. ASSUME NEW r \in 1..Len(wire)
      PROVE  Bare(wire[r], r) \in SoundRequests(clock)
  <2> DEFINE q == Bare(wire[r], r)
  <2>1. wire[r] \in SoundRequests(clock) /\ wire[r] \in Requests /\ Sound(wire[r], clock)
    BY <1>2, OnWire
  <2>2. /\ q \in Requests /\ q.tok = wire[r].tok /\ q.reply = wire[r].reply
        /\ q.at = wire[r].at /\ q.kind = wire[r].kind /\ q.identity = wire[r].identity
        /\ q.todo = wire[r].todo /\ q.pc = wire[r].pc
    BY <2>1, BareRequest
  <2> HIDE DEF q
  <2>3. q \in SoundRequests(clock)
    BY <2>1, <2>2, SameSound DEF Sound
  <2> QED
    BY <2>3 DEF q
<1>5. wire' \in Seq(SoundRequests(clock)) /\ DOMAIN wire' = DOMAIN wire
  BY <1>2, <1>3, <1>4
<1>6. wire' \in Seq(Requests)
  BY <1>5, SeqMonotonic DEF SoundRequests
<1>7. raced' \subseteq DOMAIN wire'
  BY <1>1, <1>5 DEF Wipe
<1>8. /\ session' \in [SessionIds -> Identities \cup {Anonymous, NoRow}]
      /\ session_link' \subseteq SessionIds \X (Identities \cup {Anonymous})
      /\ traits' \subseteq SessionIds /\ wipes' \in Nat
  BY <1>1 DEF Wipe, IInv, TypeOK
<1>9. transaction' \in Transactions
  BY <1>1 DEF Wipe, NoTransaction, Transactions
<1>10. /\ site' \in {"live", "gone"} /\ admin' \subseteq {"set", "del"}
       /\ UNCHANGED <<website_cache, late>>
  BY DEF CommitReset, CommitDelete, IInv, TypeOK
<1> QED
  BY <1>1, <1>5, <1>6, <1>7, <1>8, <1>9, <1>10 DEF IInv, TypeOK, trackerVars, around

LEMMA RedisInv ==
  ASSUME IInv, UNCHANGED trackerVars, TellCache \/ ExpireCache
  PROVE  IInv'
<1>1. /\ UNCHANGED <<dbVars, wire, clock, address>> /\ mishaps' \in Nat
      /\ admin' \subseteq {"set", "del"}
  <2>1. CASE TellCache
    BY <2>1 DEF TellCache, around, dbVars, IInv, TypeOK
  <2>2. CASE ExpireCache
    BY <2>2 DEF ExpireCache, Mishap, dbVars, IInv, TypeOK
  <2> QED
    BY <2>1, <2>2
<1>2. website_cache' \in {"none", "live", "gone"} /\ late' \in BOOLEAN
  BY DEF TellCache, ExpireCache, WriteCache, IInv, TypeOK
<1> QED
  BY <1>1, <1>2 DEF IInv, TypeOK, trackerVars, dbVars

LEMMA CollectInv ==
  ASSUME IInv, UNCHANGED trackerVars, CollectStep
  PROVE  IInv'
BY FindInv, BeginInv, SaveInv, LinkInv, FailInv, TraitsInv, StatementInv, OpenInv,
   CommitInv, RedisInv DEF CollectStep

-----------------------------------------------------------------------------
(* The tracker *)

\* A report of the page that is shown.
LEMMA ReportSound ==
  ASSUME IInv, NEW kind \in Kinds \ {"identify"}, NEW beacon \in BOOLEAN
  PROVE  Report(kind, beacon) \in SoundRequests(clock)
BY MessageSound, TrackerAssumption DEF Report, IInv, TypeOK

LEMMA ReportsSound ==
  ASSUME IInv, NEW beacon \in BOOLEAN
  PROVE  /\ Performance(beacon) \in Seq(SoundRequests(clock))
         /\ Reports(beacon) \in Seq(SoundRequests(clock))
<1> DEFINE S == SoundRequests(clock)
<1>1. Report("view", beacon) \in S /\ Report("scroll", beacon) \in S
  BY ReportSound DEF Kinds, CallKinds
<1> HIDE DEF S
<1>2. Performance(beacon) \in Seq(S)
  BY <1>1 DEF Performance
<1>3. Engagement(beacon) \in Seq(S)
  BY <1>1 DEF Engagement
<1>4. Reports(beacon) \in Seq(S)
  BY <1>2, <1>3, ConcatProperties DEF Reports
<1> QED
  BY <1>2, <1>4 DEF S

\* What is sent is added to the wire, as far as it gets there.
LEMMA TransmitSound ==
  ASSUME NEW S, wire \in Seq(S), NEW ms \in Seq(S), NEW w \in Transmitted(ms)
  PROVE  w \in Seq(S) /\ DOMAIN wire \subseteq DOMAIN w
<1>1. CASE w = wire
  BY <1>1
<1>2. CASE w = wire \o ms
  BY <1>2, ConcatProperties
<1>3. CASE \E m \in Range(ms) : w = Append(wire, m)
  <2>1. PICK i \in DOMAIN ms : w = Append(wire, ms[i])
    BY <1>3 DEF Range
  <2>2. ms[i] \in S
    BY ElementOfSeq
  <2> QED
    BY <2>1, <2>2, AppendProperties
<1> QED
  BY <1>1, <1>2, <1>3 DEF Transmitted

\* Who goes with the page leaves the requests as they are.
LEMMA AbandonedSound ==
  ASSUME NEW now, NEW w \in Seq(SoundRequests(now))
  PROVE  Abandoned(w) \in Seq(SoundRequests(now)) /\ DOMAIN Abandoned(w) = DOMAIN w
<1> DEFINE pc(m) == IF m.pc = "hooked" /\ m.awaited THEN "done" ELSE m.pc
           Left(m) == [m EXCEPT !.awaited = FALSE, !.pc = pc(m)]
<1>1. ASSUME NEW r \in 1..Len(w)
      PROVE  Left(w[r]) \in SoundRequests(now)
  <2> DEFINE m == w[r]
             q == Left(m)
  <2>1. m \in SoundRequests(now) /\ m \in Requests /\ Sound(m, now)
    BY ElementOfSeq DEF SoundRequests
  <2>2. pc(m) \in Stages /\ pc(m) \in {m.pc, "done"}
    BY <2>1 DEF Requests, Stages
  <2>3. q \in Requests
    BY <2>1, <2>2 DEF Requests
  <2>4. /\ q.tok = m.tok /\ q.reply = m.reply /\ q.at = m.at /\ q.kind = m.kind
        /\ q.identity = m.identity /\ q.todo = m.todo /\ q.pc \in {m.pc, "done"}
    BY <2>1, <2>2 DEF Requests
  <2> HIDE DEF q
  <2>5. q \in SoundRequests(now)
    BY <2>1, <2>3, <2>4, SameSound DEF Sound, AfterBegin
  <2> QED
    BY <2>5 DEF q
<1>2. Abandoned(w) = [r \in DOMAIN w |-> Left(w[r])]
  BY DEF Abandoned
<1> HIDE DEF Left
<1>3. Abandoned(w) = [r \in 1..Len(w) |-> Left(w[r])]
  BY <1>2
<1> QED
  BY <1>1, <1>3

\* What a step of the tracker has to keep.
LEMMA TrackerTypes ==
  ASSUME IInv, UNCHANGED <<collectVars, clock, address>>,
         wire' \in Seq(SoundRequests(clock)), DOMAIN wire \subseteq DOMAIN wire',
         mishaps' \in Nat, visible' \in {"open", "hidden", "closed"},
         currentUrl' \in Pages, pending' \in Nat,
         {scrolled', scrollEngagedSent', performanceSent'} \subseteq BOOLEAN,
         cache' \subseteq FreshTokens(clock), identity' \in Identities \cup {Anonymous}
  PROVE  IInv'
<1>1. wire' \in Seq(Requests)
  BY SeqMonotonic DEF SoundRequests
<1>2. cache' \subseteq Tokens
  BY DEF FreshTokens
<1> QED
  BY <1>1, <1>2 DEF IInv, TypeOK, collectVars, dbVars, cacheVars

\* Steps that add to the wire, or leave it.
LEMMA SendInv ==
  ASSUME IInv, UNCHANGED collectVars,
         \/ HandlePush \/ Leave("hidden") \/ Leave("closed") \/ Show \/ Scroll
         \/ PerformanceTimeout \/ DelayedTrack
  PROVE  IInv'
<1> DEFINE S == SoundRequests(clock)
<1>0. /\ wire \in Seq(S) /\ cache \subseteq FreshTokens(clock)
      /\ currentUrl \in Pages /\ pending \in Nat /\ mishaps \in Nat
      /\ visible \in {"open", "hidden", "closed"}
      /\ {scrolled, scrollEngagedSent, performanceSent} \subseteq BOOLEAN
      /\ identity \in Identities \cup {Anonymous}
  BY DEF IInv, TypeOK
<1>1. UNCHANGED <<around, cache, identity>>
  BY DEF HandlePush, Leave, Show, Scroll, PerformanceTimeout, DelayedTrack
<1>2. UNCHANGED <<clock, address, mishaps, cache, identity>>
  BY <1>1 DEF around
<1> HIDE DEF S
<1>3. CASE HandlePush
  <2>1. PICK ms \in Seq(S) : wire' \in Transmitted(ms)
    BY <1>3, ReportsSound DEF HandlePush, Transmit, S
  <2>2. wire' \in Seq(S) /\ DOMAIN wire \subseteq DOMAIN wire'
    BY <1>0, <2>1, TransmitSound
  <2>3. currentUrl' \in Pages /\ pending' \in Nat
    BY <1>0, <1>3 DEF HandlePush
  <2> QED
    BY <1>0, <1>2, <1>3, <2>2, <2>3, TrackerTypes DEF HandlePush, S
<1>4. CASE Leave("hidden")
  <2>0. Reports(TRUE) \in Seq(S)
    BY ReportsSound DEF S
  <2>1. wire' \in Transmitted(Reports(TRUE))
    BY <1>4 DEF Leave
  <2>2. wire' \in Seq(S) /\ DOMAIN wire \subseteq DOMAIN wire'
    BY <1>0, <2>0, <2>1, TransmitSound
  <2>3. /\ visible' = "hidden" /\ pending' \in Nat /\ UNCHANGED <<currentUrl, scrolled>>
        /\ {scrollEngagedSent', performanceSent'} \subseteq BOOLEAN
    BY <1>0, <1>4 DEF Leave
  <2> QED
    BY <1>0, <1>2, <2>2, <2>3, TrackerTypes DEF S
<1>5. CASE Leave("closed")
  <2>0. Reports(TRUE) \in Seq(S)
    BY ReportsSound DEF S
  <2>1. PICK w \in Transmitted(Reports(TRUE)) : wire' = Abandoned(w)
    BY <1>5 DEF Leave
  <2>2. w \in Seq(S) /\ DOMAIN wire \subseteq DOMAIN w
    BY <1>0, <2>0, <2>1, TransmitSound
  <2>3. wire' \in Seq(S) /\ DOMAIN wire \subseteq DOMAIN wire'
    BY <2>1, <2>2, AbandonedSound DEF S
  <2>4. /\ visible' = "closed" /\ pending' \in Nat /\ UNCHANGED <<currentUrl, scrolled>>
        /\ {scrollEngagedSent', performanceSent'} \subseteq BOOLEAN
    BY <1>0, <1>5 DEF Leave
  <2> QED
    BY <1>0, <1>2, <2>3, <2>4, TrackerTypes DEF S
<1>6. CASE Show \/ Scroll
  <2>1. /\ wire' = wire /\ visible' \in {"open", "hidden", "closed"}
        /\ UNCHANGED <<currentUrl, pending, scrollEngagedSent, performanceSent>>
        /\ scrolled' \in BOOLEAN
    BY <1>0, <1>6 DEF Show, Scroll
  <2> QED
    BY <1>0, <1>2, <2>1, TrackerTypes DEF S
<1>7. CASE PerformanceTimeout
  <2>1. PICK ms \in Seq(S) : wire' \in Transmitted(ms)
    BY <1>7, ReportsSound DEF PerformanceTimeout, Transmit, S
  <2>2. wire' \in Seq(S) /\ DOMAIN wire \subseteq DOMAIN wire'
    BY <1>0, <2>1, TransmitSound
  <2> QED
    BY <1>0, <1>2, <1>7, <2>2, TrackerTypes DEF PerformanceTimeout, S
<1>8. CASE DelayedTrack
  <2>1. PICK m \in S : m = Report("view", FALSE)
    BY ReportSound DEF Kinds, CallKinds, S
  <2>2. <<m>> \in Seq(S)
    OBVIOUS
  <2>3. wire' \in Seq(S) /\ DOMAIN wire \subseteq DOMAIN wire'
    <3>1. wire' \in Transmitted(<<m>>)
      BY <1>8, <2>1 DEF DelayedTrack, Transmit
    <3> QED
      BY <1>0, <2>2, <3>1, TransmitSound
  <2>4. pending' \in Nat
    BY <1>0, <1>8 DEF DelayedTrack
  <2> QED
    BY <1>0, <1>2, <1>8, <2>3, <2>4, TrackerTypes DEF DelayedTrack, S
<1> QED
  BY <1>3, <1>4, <1>5, <1>6, <1>7, <1>8

\* Steps that send one more request.
LEMMA CallInv ==
  ASSUME IInv, UNCHANGED collectVars,
         (\E kind \in Calls : Track(kind)) \/ (\E id \in Identities : Identify(id)) \/ Load
  PROVE  IInv'
<1> DEFINE S == SoundRequests(clock)
<1>0. /\ wire \in Seq(S) /\ cache \subseteq FreshTokens(clock)
      /\ currentUrl \in Pages /\ pending \in Nat /\ mishaps \in Nat
      /\ visible \in {"open", "hidden", "closed"}
      /\ {scrolled, scrollEngagedSent, performanceSent} \subseteq BOOLEAN
      /\ identity \in Identities \cup {Anonymous} /\ TypeOK
  BY DEF IInv, TypeOK
<1>1. UNCHANGED <<clock, address, mishaps>>
  BY DEF Track, Identify, Load, around
<1> HIDE DEF S
<1>2. ASSUME NEW m \in S, wire' = Append(wire, m)
      PROVE  wire' \in Seq(S) /\ DOMAIN wire \subseteq DOMAIN wire'
  BY <1>0, <1>2, AppendProperties
<1>3. ASSUME NEW kind \in Calls, Track(kind)
      PROVE  IInv'
  <2>1. Report(kind, FALSE) \in S
    BY <1>3, CallAssumption, ReportSound DEF Track, Kinds, S
  <2>2. wire' \in Seq(S) /\ DOMAIN wire \subseteq DOMAIN wire'
    BY <1>2, <1>3, <2>1 DEF Track
  <2> QED
    BY <1>0, <1>1, <1>3, <2>2, TrackerTypes DEF Track, trackerVars, S
<1>4. ASSUME NEW id \in Identities, Identify(id)
      PROVE  IInv'
  <2>1. Message("identify", {}, id, FALSE) \in S
    BY <1>0, MessageSound, TrackerAssumption DEF Kinds, CallKinds, S
  <2>2. wire' \in Seq(S) /\ DOMAIN wire \subseteq DOMAIN wire'
    BY <1>2, <1>4, <2>1 DEF Identify
  <2> QED
    BY <1>0, <1>1, <1>4, <2>2, TrackerTypes DEF Identify, S
<1>5. CASE Load
  <2>1. FirstView \in S
    BY <1>0, MessageSound, TrackerAssumption DEF FirstView, Kinds, S
  <2>2. wire' \in Seq(S) /\ DOMAIN wire \subseteq DOMAIN wire'
    BY <1>2, <1>5, <2>1 DEF Load
  <2>3. currentUrl' \in Pages
    BY <1>5 DEF Load
  <2> QED
    BY <1>0, <1>1, <1>5, <2>2, <2>3, TrackerTypes DEF Load, S
<1> QED
  BY <1>3, <1>4, <1>5

\* Steps of a request on its way.
LEMMA AnswerInv ==
  ASSUME IInv, UNCHANGED collectVars, NEW r \in DOMAIN wire,
         CallbackReturns(r) \/ Arrive(r) \/ Lost(r)
  PROVE  IInv'
<1> DEFINE m == wire[r]
<1>0. m \in SoundRequests(clock) /\ m \in Requests /\ Sound(m, clock)
  BY OnWire
<1>1. clock' = clock /\ address' = address /\ mishaps' \in Nat
  BY DEF CallbackReturns, Arrive, Lost, Mishap, around, IInv, TypeOK
<1>2. CASE CallbackReturns(r)
  <2> DEFINE tok == IF m.awaited THEN cache ELSE {}
             q == [m EXCEPT !.pc = "sent", !.addr = address, !.tok = tok]
  <2>1. wire' = [wire EXCEPT ![r] = q]
    BY <1>2 DEF CallbackReturns
  <2>2. tok \subseteq FreshTokens(clock) /\ tok \subseteq Tokens
    BY DEF IInv, FreshTokens
  <2> HIDE DEF tok
  <2>3. q \in Requests
    BY <1>0, <2>2 DEF Requests, Stages, IInv, TypeOK
  <2>4. /\ q.tok = tok /\ q.reply = m.reply /\ q.at = m.at /\ q.kind = m.kind
        /\ q.identity = m.identity /\ q.todo = m.todo /\ q.pc = "sent"
    BY <1>0 DEF Requests
  <2> HIDE DEF q
  <2>5. q \in SoundRequests(clock)
    BY <1>0, <2>2, <2>3, <2>4 DEF SoundRequests, Sound, InTime, AfterBegin
  <2>6. wire' \in Seq(SoundRequests(clock)) /\ DOMAIN wire' = DOMAIN wire
    BY <1>1, <2>1, <2>5, OneRequest
  <2> QED
    BY <1>1, <1>2, <2>6, TrackerTypes DEF CallbackReturns, trackerVars, around, IInv, TypeOK
<1>3. CASE Arrive(r) \/ Lost(r)
  <2> DEFINE q == [m EXCEPT !.pc = "done", !.awaited = FALSE]
  <2>1. wire' = [wire EXCEPT ![r] = q]
    BY <1>3 DEF Arrive, Lost
  <2>2. q \in Requests
    BY <1>0 DEF Requests, Stages
  <2>3. /\ q.tok = m.tok /\ q.reply = m.reply /\ q.at = m.at /\ q.kind = m.kind
        /\ q.identity = m.identity /\ q.todo = m.todo /\ q.pc = "done"
    BY <1>0 DEF Requests
  <2> HIDE DEF q
  <2>4. q \in SoundRequests(clock)
    BY <1>0, <2>2, <2>3, SameSound DEF AfterBegin
  <2>5. wire' \in Seq(SoundRequests(clock)) /\ DOMAIN wire' = DOMAIN wire
    BY <1>1, <2>1, <2>4, OneRequest
  <2>6. cache' \subseteq FreshTokens(clock)
    BY <1>0, <1>3 DEF Arrive, Lost, trackerVars, Sound, IInv
  <2>7. UNCHANGED <<visible, currentUrl, pending, scrolled, scrollEngagedSent,
                    performanceSent, identity>>
    BY <1>3 DEF Arrive, Lost, trackerVars
  <2> QED
    BY <1>1, <2>5, <2>6, <2>7, TrackerTypes DEF IInv, TypeOK
<1> QED
  BY <1>2, <1>3

LEMMA TrackerInv ==
  ASSUME IInv, UNCHANGED collectVars, TrackerStep
  PROVE  IInv'
BY SendInv, CallInv, AnswerInv DEF TrackerStep

-----------------------------------------------------------------------------
(* The visitor *)

\* A token that was fresh stays fresh.
LEMMA MoveInv ==
  ASSUME IInv, UNCHANGED <<trackerVars, collectVars>>, Move \/ Tick
  PROVE  IInv'
<1>1. CASE Move
  <2>1. UNCHANGED <<wire, clock>> /\ address' \in Addresses /\ mishaps' \in Nat
    BY <1>1 DEF Move, Mishap, IInv, TypeOK
  <2> QED
    BY <2>1 DEF IInv, TypeOK, trackerVars, collectVars, dbVars, cacheVars
<1>2. CASE Tick
  <2>1. /\ clock' \in FirstTick..LastTick /\ clock \in FirstTick..LastTick /\ clock <= clock'
        /\ UNCHANGED <<wire, address, mishaps>>
    BY <1>2, TimeAssumption DEF Tick, IInv, TypeOK
  <2>2. FreshTokens(clock) \subseteq FreshTokens(clock')
    BY <2>1, TimeAssumption DEF FreshTokens, Tokens
  <2>3. SoundRequests(clock) \subseteq SoundRequests(clock')
    BY <2>2 DEF SoundRequests, Sound
  <2>4. wire' \in Seq(SoundRequests(clock'))
    BY <2>1, <2>3, SeqMonotonic DEF IInv
  <2> QED
    BY <2>1, <2>2, <2>4 DEF IInv, TypeOK, trackerVars, collectVars, dbVars, cacheVars
<1> QED
  BY <1>1, <1>2

LEMMA InitInv == Init => IInv
<1> SUFFICES ASSUME Init PROVE IInv
  OBVIOUS
<1>1. clock \in FirstTick..LastTick /\ address \in Addresses /\ mishaps \in Nat
  BY TimeAssumption DEF Init, TrackerInit
<1>2. FirstView \in Requests
  BY <1>1, TrackerAssumption
     DEF FirstView, Message, NewRequest, Requests, Stages, Kinds
<1>3. Sound(FirstView, clock)
  BY DEF FirstView, Message, NewRequest, Sound, InTime, AfterBegin
<1>4. wire \in Seq(SoundRequests(clock)) /\ wire \in Seq(Requests) /\ DOMAIN wire = {1}
  BY <1>2, <1>3 DEF Init, TrackerInit, SoundRequests
<1>5. Init => transaction \in Transactions
  BY DEF Init, CollectInit, NoTransaction, Transactions
<1> QED
  BY <1>1, <1>4, <1>5 DEF IInv, TypeOK, Init, TrackerInit, CollectInit

LEMMA NextInv == IInv /\ [Next]_vars => IInv'
<1> SUFFICES ASSUME IInv, [Next]_vars PROVE IInv'
  OBVIOUS
<1>1. CASE TrackerStep /\ UNCHANGED collectVars
  BY <1>1, TrackerInv
<1>2. CASE CollectStep /\ UNCHANGED trackerVars
  BY <1>2, CollectInv
<1>3. CASE (Move \/ Tick) /\ UNCHANGED <<trackerVars, collectVars>>
  BY <1>3, MoveInv
<1>4. CASE UNCHANGED vars
  BY <1>4 DEF vars, IInv, TypeOK, around, trackerVars, collectVars, dbVars, cacheVars
<1> QED
  BY <1>1, <1>2, <1>3, <1>4 DEF Next

-----------------------------------------------------------------------------
(* The reports of the pages *)

\* A page with the reports it has been given.
Shown(url, worth, reported, performed) ==
  [page |-> url, worth |-> worth,
   scroll |-> IF reported THEN <<url>> ELSE <<>>,
   performance |-> IF performed THEN <<url>> ELSE <<>>]

PageRecords == {Shown(u, w, e, p) : u \in Pages, w, e, p \in BOOLEAN}

\* A page that is over: its performance was reported, and what was worth it.
Over(s) == \E u \in Pages, w \in BOOLEAN : s = Shown(u, w, w, TRUE)

\* The flags of the tracker tell what was reported of the page that is shown,
\* and the pages before it are over.
PagesInv ==
  /\ segments \in Seq(PageRecords)
  /\ segments # <<>>
  /\ segments[Len(segments)] = Shown(currentUrl, scrolled, scrollEngagedSent, performanceSent)
  /\ currentUrl \in Pages
  /\ {scrolled, scrollEngagedSent, performanceSent} \subseteq BOOLEAN
  /\ scrollEngagedSent => scrolled
  /\ visible = "closed" => performanceSent /\ scrollEngagedSent = scrolled
  /\ \A i \in 1..(Len(segments) - 1) : Over(segments[i])

LEMMA ShownRecord ==
  ASSUME NEW u \in Pages, NEW w \in BOOLEAN, NEW e \in BOOLEAN, NEW p \in BOOLEAN
  PROVE  Shown(u, w, e, p) \in PageRecords
BY DEF PageRecords

LEMMA FreshSegment ==
  ASSUME NEW url
  PROVE  Segment(url) = Shown(url, FALSE, FALSE, FALSE)
BY DEF Segment, Shown

\* The last page gets another record.
LEMMA LastReplaced ==
  ASSUME PagesInv, NEW s \in PageRecords
  PROVE  LET t == [segments EXCEPT ![Len(segments)] = s]
         IN /\ t \in Seq(PageRecords) /\ t # <<>>
            /\ Len(t) = Len(segments) /\ Len(segments) \in Nat \ {0}
            /\ t[Len(t)] = s
            /\ \A i \in 1..(Len(t) - 1) : Over(t[i])
<1> DEFINE n == Len(segments)
           t == [segments EXCEPT ![n] = s]
<1>1. segments \in Seq(PageRecords) /\ n \in 1..Len(segments) /\ n \in Nat
  BY EmptySeq DEF PagesInv
<1>2. /\ t \in Seq(PageRecords) /\ Len(t) = Len(segments)
      /\ \A j \in 1..Len(segments) : t[j] = IF j = n THEN s ELSE segments[j]
  BY <1>1, ExceptSeq
<1> HIDE DEF t
<1>3. t # <<>>
  BY <1>1, <1>2, EmptySeq
<1>4. \A i \in 1..(n - 1) : t[i] = segments[i]
  BY <1>1, <1>2
<1>5. \A i \in 1..(n - 1) : Over(t[i])
  BY <1>4 DEF PagesInv
<1>6. t[Len(t)] = s /\ n \in Nat \ {0}
  BY <1>1, <1>2
<1>7. \A i \in 1..(Len(t) - 1) : Over(t[i])
  BY <1>2, <1>5
<1> QED
  BY <1>2, <1>3, <1>6, <1>7 DEF t

\* Another page follows one that is over.
LEMMA PageAdded ==
  ASSUME NEW t \in Seq(PageRecords), NEW s \in PageRecords,
         t # <<>>, \A i \in 1..Len(t) : Over(t[i])
  PROVE  LET z == Append(t, s)
         IN /\ z \in Seq(PageRecords) /\ z # <<>> /\ z[Len(z)] = s
            /\ \A i \in 1..(Len(z) - 1) : Over(z[i])
<1>1. Len(t) \in Nat
  BY LenProperties
<1> DEFINE z == Append(t, s)
<1>2. /\ z \in Seq(PageRecords) /\ z # <<>> /\ Len(z) = Len(t) + 1
      /\ \A i \in 1..Len(t) : z[i] = t[i]
      /\ z[Len(t) + 1] = s
  BY AppendProperties
<1> HIDE DEF z
<1>3. \A i \in 1..(Len(z) - 1) : Over(z[i])
  BY <1>1, <1>2
<1> QED
  BY <1>2, <1>3 DEF z

\* What a report adds to the pages: that of the page shown, unless the flag says
\* that it was sent.
LEMMA NotedEffect ==
  ASSUME PagesInv, NEW beacon \in BOOLEAN
  PROVE  /\ Noted(Performance(beacon), Engagement(beacon)) =
              [segments EXCEPT ![Len(segments)] =
                 Shown(currentUrl, scrolled, scrolled, TRUE)]
         /\ Noted(Performance(beacon), <<>>) =
              [segments EXCEPT ![Len(segments)] =
                 Shown(currentUrl, scrolled, scrollEngagedSent, TRUE)]
<1> DEFINE n == Len(segments)
           url == currentUrl
           s == segments[n]
           Tags(ms) == [i \in DOMAIN ms |-> url]
           With(performance, engagement) ==
             [s EXCEPT !.performance = @ \o Tags(performance), !.scroll = @ \o Tags(engagement)]
<1>1. s = Shown(url, scrolled, scrollEngagedSent, performanceSent)
  BY DEF PagesInv
<1>2. n \in DOMAIN segments /\ segments \in Seq(PageRecords)
  BY EmptySeq DEF PagesInv
<1>3. ASSUME NEW ms, NEW ks
      PROVE  Noted(ms, ks) = [segments EXCEPT ![n] = With(ms, ks)]
  BY <1>1, <1>2 DEF Noted, Shown
<1>4. Tags(<<>>) = <<>>
  OBVIOUS
<1>5. ASSUME NEW m
      PROVE  Tags(<<m>>) = <<url>>
  OBVIOUS
<1>6. <<>> \o <<>> = <<>> /\ <<>> \o <<url>> = <<url>> /\ <<url>> \o <<>> = <<url>>
  OBVIOUS
<1>7. s.performance \o Tags(Performance(beacon)) = <<url>>
  <2>1. CASE performanceSent
    <3>1. Performance(beacon) = <<>> /\ s.performance = <<url>>
      BY <1>1, <2>1 DEF Performance, Shown
    <3> QED
      BY <1>4, <1>6, <3>1
  <2>2. CASE ~performanceSent
    <3>1. Performance(beacon) = <<Report("view", beacon)>> /\ s.performance = <<>>
      BY <1>1, <2>2 DEF Performance, Shown
    <3> QED
      BY <1>5, <1>6, <3>1
  <2> QED
    BY <2>1, <2>2
<1>8. s.scroll \o Tags(Engagement(beacon)) = IF scrolled THEN <<url>> ELSE <<>>
  <2>1. CASE scrollEngagedSent
    <3>1. Engagement(beacon) = <<>> /\ s.scroll = <<url>> /\ scrolled
      BY <1>1, <2>1 DEF Engagement, Shown, PagesInv
    <3> QED
      BY <1>4, <1>6, <3>1
  <2>2. CASE ~scrollEngagedSent /\ scrolled
    <3>1. Engagement(beacon) = <<Report("scroll", beacon)>> /\ s.scroll = <<>>
      BY <1>1, <2>2 DEF Engagement, Shown
    <3> QED
      BY <1>5, <1>6, <2>2, <3>1
  <2>3. CASE ~scrollEngagedSent /\ ~scrolled
    <3>1. Engagement(beacon) = <<>> /\ s.scroll = <<>>
      BY <1>1, <2>3 DEF Engagement, Shown
    <3> QED
      BY <1>4, <1>6, <2>3, <3>1
  <2> QED
    BY <2>1, <2>2, <2>3
<1>9. s.scroll \o Tags(<<>>) = s.scroll
  <2>1. s.scroll \in {<<>>, <<url>>}
    BY <1>1 DEF Shown
  <2> QED
    BY <1>4, <1>6, <2>1
<1>10. ASSUME NEW ms, NEW ks
       PROVE  With(ms, ks) =
                [page |-> url, worth |-> scrolled, scroll |-> s.scroll \o Tags(ks),
                 performance |-> s.performance \o Tags(ms)]
  <2> DEFINE x == s.scroll \o Tags(ks)
             y == s.performance \o Tags(ms)
  <2>1. With(ms, ks) = [s EXCEPT !.performance = y, !.scroll = x]
    BY <1>1 DEF Shown
  <2> HIDE DEF x, y
  <2>2. [s EXCEPT !.performance = y, !.scroll = x] =
          [page |-> url, worth |-> scrolled, scroll |-> x, performance |-> y]
    <3>1. PICK a, b : s = [page |-> url, worth |-> scrolled, scroll |-> a, performance |-> b]
      BY <1>1 DEF Shown
    <3> DEFINE t == [page |-> url, worth |-> scrolled, scroll |-> a, performance |-> y]
    <3>2. [s EXCEPT !.performance = y] = t
      BY <3>1
    <3>3. [t EXCEPT !.scroll = x] =
            [page |-> url, worth |-> scrolled, scroll |-> x, performance |-> y]
      OBVIOUS
    <3>4. [s EXCEPT !.performance = y, !.scroll = x] =
            [[s EXCEPT !.performance = y] EXCEPT !.scroll = x]
      BY <3>1
    <3> HIDE DEF t
    <3> QED
      BY <3>2, <3>3, <3>4
  <2> QED
    BY <2>1, <2>2 DEF x, y
<1> HIDE DEF With, s
<1>11. With(Performance(beacon), Engagement(beacon)) = Shown(url, scrolled, scrolled, TRUE)
  BY <1>7, <1>8, <1>10 DEF Shown
<1>12. With(Performance(beacon), <<>>) = Shown(url, scrolled, scrollEngagedSent, TRUE)
  <2>1. s.scroll = IF scrollEngagedSent THEN <<url>> ELSE <<>>
    BY <1>1 DEF Shown
  <2> QED
    BY <1>7, <1>9, <1>10, <2>1 DEF Shown
<1> QED
  BY <1>3, <1>11, <1>12

LEMMA InitPages == Init => PagesInv
<1> SUFFICES ASSUME Init PROVE PagesInv
  OBVIOUS
<1>1. currentUrl \in Pages /\ segments = <<Segment(currentUrl)>> /\ visible = "open"
      /\ scrolled = FALSE /\ scrollEngagedSent = FALSE /\ performanceSent = FALSE
  BY DEF Init, TrackerInit
<1>2. Segment(currentUrl) = Shown(currentUrl, FALSE, FALSE, FALSE)
      /\ Segment(currentUrl) \in PageRecords
  BY <1>1, FreshSegment, ShownRecord
<1> DEFINE s == Segment(currentUrl)
<1> HIDE DEF s
<1>3. segments = <<s>> /\ s \in PageRecords
  BY <1>1, <1>2 DEF s
<1>4. <<s>> \in Seq(PageRecords) /\ Len(<<s>>) = 1 /\ <<s>>[1] = s /\ <<s>> # <<>>
  BY <1>3
<1>5. /\ segments \in Seq(PageRecords) /\ segments # <<>>
      /\ Len(segments) = 1 /\ segments[1] = s
  BY <1>3, <1>4
<1>6. s = Shown(currentUrl, scrolled, scrollEngagedSent, performanceSent)
  BY <1>1, <1>2 DEF s
<1>7. segments[Len(segments)] = s /\ \A i \in 1..(Len(segments) - 1) : Over(segments[i])
  BY <1>5
<1> QED
  BY <1>1, <1>5, <1>6, <1>7 DEF PagesInv

\* Steps that give the page shown another record.
LEMMA RecordPages ==
  ASSUME PagesInv,
         {scrolled', scrollEngagedSent', performanceSent'} \subseteq BOOLEAN,
         currentUrl' = currentUrl,
         segments' = [segments EXCEPT ![Len(segments)] =
           Shown(currentUrl, scrolled', scrollEngagedSent', performanceSent')],
         scrollEngagedSent' => scrolled',
         visible' = "closed" => performanceSent' /\ scrollEngagedSent' = scrolled'
  PROVE  PagesInv'
<1> DEFINE s == Shown(currentUrl, scrolled', scrollEngagedSent', performanceSent')
<1>1. s \in PageRecords /\ currentUrl \in Pages
  BY ShownRecord DEF PagesInv
<1> HIDE DEF s
<1>2. /\ segments' \in Seq(PageRecords) /\ segments' # <<>>
      /\ segments'[Len(segments')] = s
      /\ \A i \in 1..(Len(segments') - 1) : Over(segments'[i])
  BY <1>1, LastReplaced DEF s
<1> QED
  BY <1>1, <1>2 DEF PagesInv, s

\* Steps that show another page, after one that is over.
LEMMA NextPages ==
  ASSUME NEW t \in Seq(PageRecords), t # <<>>, \A i \in 1..Len(t) : Over(t[i]),
         NEW url \in Pages, currentUrl' = url, segments' = Append(t, Segment(url)),
         scrolled' = FALSE, scrollEngagedSent' = FALSE, performanceSent' = FALSE,
         visible' # "closed"
  PROVE  PagesInv'
<1> DEFINE s == Segment(url)
<1>1. s = Shown(url, FALSE, FALSE, FALSE) /\ s \in PageRecords
  BY FreshSegment, ShownRecord
<1> HIDE DEF s
<1>2. /\ segments' \in Seq(PageRecords) /\ segments' # <<>>
      /\ segments'[Len(segments')] = s
      /\ \A i \in 1..(Len(segments') - 1) : Over(segments'[i])
  BY <1>1, PageAdded DEF s
<1> QED
  BY <1>1, <1>2 DEF PagesInv

\* The pages before the last one, and a last one that is over, are over.
LEMMA AllOver ==
  ASSUME NEW t \in Seq(PageRecords), t # <<>>, Over(t[Len(t)]),
         \A i \in 1..(Len(t) - 1) : Over(t[i])
  PROVE  \A i \in 1..Len(t) : Over(t[i])
<1>1. Len(t) \in Nat
  BY LenProperties
<1> QED
  BY <1>1

LEMMA PushPages ==
  ASSUME PagesInv, HandlePush
  PROVE  PagesInv'
<1> DEFINE s == Shown(currentUrl, scrolled, scrolled, TRUE)
           t == [segments EXCEPT ![Len(segments)] = s]
<1>1. PICK url \in Pages :
        /\ currentUrl' = url
        /\ segments' = Append(Noted(Performance(FALSE), Engagement(FALSE)), Segment(url))
  BY DEF HandlePush
<1>2. segments' = Append(t, Segment(url))
  BY <1>1, NotedEffect
<1>3. s \in PageRecords /\ Over(s)
  BY ShownRecord DEF PagesInv, Over
<1> HIDE DEF s
<1>4. /\ t \in Seq(PageRecords) /\ t # <<>> /\ t[Len(t)] = s
      /\ \A i \in 1..(Len(t) - 1) : Over(t[i])
  BY <1>3, LastReplaced
<1> HIDE DEF t
<1>5. \A i \in 1..Len(t) : Over(t[i])
  BY <1>3, <1>4, AllOver
<1> QED
  BY <1>1, <1>2, <1>4, <1>5, NextPages DEF HandlePush

LEMMA LeavePages ==
  ASSUME PagesInv, NEW how \in {"hidden", "closed"}, Leave(how)
  PROVE  PagesInv'
<1>1. segments' = [segments EXCEPT ![Len(segments)] =
                     Shown(currentUrl, scrolled, scrolled, TRUE)]
  BY NotedEffect DEF Leave
<1>2. /\ scrolled' = scrolled /\ scrollEngagedSent' = scrolled /\ performanceSent' = TRUE
      /\ currentUrl' = currentUrl
  BY DEF Leave, PagesInv
<1> QED
  BY <1>1, <1>2, RecordPages DEF PagesInv

LEMMA TimeoutPages ==
  ASSUME PagesInv, PerformanceTimeout
  PROVE  PagesInv'
<1>1. segments' = [segments EXCEPT ![Len(segments)] =
                     Shown(currentUrl, scrolled, scrollEngagedSent, TRUE)]
  BY NotedEffect DEF PerformanceTimeout
<1> QED
  BY <1>1, RecordPages DEF PerformanceTimeout, PagesInv

LEMMA ScrollPages ==
  ASSUME PagesInv, Scroll
  PROVE  PagesInv'
<1> DEFINE n == Len(segments)
<1>1. segments[n] = Shown(currentUrl, scrolled, scrollEngagedSent, performanceSent)
  BY DEF PagesInv
<1>2. [segments[n] EXCEPT !.worth = TRUE]
        = Shown(currentUrl, TRUE, scrollEngagedSent, performanceSent)
  <2> DEFINE s == segments[n]
             x == IF scrollEngagedSent THEN <<currentUrl>> ELSE <<>>
             y == IF performanceSent THEN <<currentUrl>> ELSE <<>>
  <2>1. s = [page |-> currentUrl, worth |-> scrolled, scroll |-> x, performance |-> y]
    BY <1>1 DEF Shown
  <2>2. PICK yes : yes = TRUE
    OBVIOUS
  <2> HIDE DEF s, x, y
  <2>3. [s EXCEPT !.worth = yes] =
          [page |-> currentUrl, worth |-> yes, scroll |-> x, performance |-> y]
    BY <2>1
  <2> QED
    BY <2>2, <2>3 DEF s, x, y, Shown
<1>3. segments' = [segments EXCEPT ![n] = [segments[n] EXCEPT !.worth = TRUE]]
  BY DEF Scroll
<1>4. /\ scrolled' = TRUE /\ visible' = "open"
      /\ UNCHANGED <<currentUrl, scrollEngagedSent, performanceSent>>
  BY DEF Scroll
<1> QED
  BY <1>2, <1>3, <1>4, RecordPages DEF PagesInv

LEMMA LoadPages ==
  ASSUME PagesInv, Load
  PROVE  PagesInv'
<1>1. PICK url \in Pages : currentUrl' = url /\ segments' = Append(segments, Segment(url))
  BY DEF Load
<1>2. Over(segments[Len(segments)])
  BY DEF Load, PagesInv, Over
<1>3. \A i \in 1..Len(segments) : Over(segments[i])
  BY <1>2, AllOver DEF PagesInv
<1> QED
  BY <1>1, <1>3, NextPages DEF Load, PagesInv

LEMMA NextPagesInv == PagesInv /\ [Next]_vars => PagesInv'
<1> SUFFICES ASSUME PagesInv, [Next]_vars PROVE PagesInv'
  OBVIOUS
<1>1. CASE \/ UNCHANGED trackerVars \/ Show \/ DelayedTrack
           \/ (\E id \in Identities : Identify(id))
           \/ (\E r \in DOMAIN wire : Arrive(r))
  <2>1. /\ UNCHANGED <<segments, currentUrl, scrolled, scrollEngagedSent, performanceSent>>
        /\ visible' = visible \/ visible' = "open"
    BY <1>1 DEF trackerVars, Show, DelayedTrack, Identify, Arrive
  <2> QED
    BY <2>1 DEF PagesInv
<1>2. CASE TrackerStep
  <2>1. CASE \/ (\E kind \in Calls : Track(kind))
             \/ (\E r \in DOMAIN wire : CallbackReturns(r) \/ Lost(r))
    <3>1. UNCHANGED trackerVars
      BY <2>1 DEF Track, CallbackReturns, Lost
    <3> QED
      BY <1>1, <3>1
  <2> QED
    BY <1>1, <1>2, <2>1, PushPages, LeavePages, TimeoutPages, ScrollPages, LoadPages
       DEF TrackerStep
<1>3. CASE UNCHANGED vars
  BY <1>1, <1>3 DEF vars
<1> QED
  BY <1>1, <1>2, <1>3 DEF Next

LEMMA PagesExact == PagesInv => ReportExact
<1> SUFFICES ASSUME PagesInv, NEW i \in DOMAIN segments
             PROVE  LET s == segments[i]
                        ended == i < Len(segments) \/ visible = "closed"
                    IN /\ s.scroll \in {<<>>, <<s.page>>} /\ s.performance \in {<<>>, <<s.page>>}
                       /\ ended => s.performance # <<>> /\ (s.scroll # <<>> <=> s.worth)
  BY DEF ReportExact
<1>1. i \in 1..Len(segments) /\ Len(segments) \in Nat
  BY LenProperties DEF PagesInv
<1>2. ASSUME NEW u, NEW w, NEW e, NEW p, segments[i] = Shown(u, w, e, p)
      PROVE  /\ segments[i].page = u /\ segments[i].worth = w
             /\ segments[i].scroll = IF e THEN <<u>> ELSE <<>>
             /\ segments[i].performance = IF p THEN <<u>> ELSE <<>>
  BY <1>2 DEF Shown
<1>3. \A x : <<x>> # <<>>
  OBVIOUS
<1>4. CASE i = Len(segments)
  <2>1. segments[i] = Shown(currentUrl, scrolled, scrollEngagedSent, performanceSent)
    BY <1>4 DEF PagesInv
  <2>2. /\ segments[i].page = currentUrl /\ segments[i].worth = scrolled
        /\ segments[i].scroll = IF scrollEngagedSent THEN <<currentUrl>> ELSE <<>>
        /\ segments[i].performance = IF performanceSent THEN <<currentUrl>> ELSE <<>>
    BY <1>2, <2>1
  <2>3. visible = "closed" => performanceSent /\ scrollEngagedSent = scrolled
    BY DEF PagesInv
  <2> QED
    BY <1>1, <1>3, <1>4, <2>2, <2>3
<1>5. CASE i # Len(segments)
  <2>1. Over(segments[i])
    BY <1>1, <1>5 DEF PagesInv
  <2>2. PICK u \in Pages, w \in BOOLEAN : segments[i] = Shown(u, w, w, TRUE)
    BY <2>1 DEF Over
  <2>3. /\ segments[i].page = u /\ segments[i].worth = w
        /\ segments[i].scroll = (IF w THEN <<u>> ELSE <<>>)
        /\ segments[i].performance = <<u>>
    BY <2>2 DEF Shown
  <2> QED
    BY <1>3, <2>3
<1> QED
  BY <1>4, <1>5

-----------------------------------------------------------------------------
(* Types, visits and reports: theorems *)

\* The invariant implies the bound on visits.
LEMMA InvBounded == IInv => VisitBounded
<1> SUFFICES ASSUME IInv, NEW r \in DOMAIN wire, Began(r)
             PROVE  LET hour == Reply(r).visit.hour
                    IN 2 * hour <= wire[r].at /\ wire[r].at <= 2 * hour + 2
  BY DEF VisitBounded
<1>1. Reply(r) \in wire[r].reply
  BY DEF Began, Reply
<1> QED
  BY <1>1, OnWire DEF Sound, InTime

\* What tracker, network, handler, tables and cache keep has the types the code
\* gives it (tracker/index.ts, api/send/route.ts).
THEOREM TypeCorrect == Spec => []TypeOK
<1>1. IInv => TypeOK
  BY DEF IInv
<1> QED
  BY <1>1, InitInv, NextInv, PTL DEF Spec

\* An event is stored under a visit only within the hour that named the visit,
\* or within 30 minutes of a token that was issued in that hour, whichever
\* tokens the trackers of a visitor still hold, send late or get late
\* (api/send/route.ts, "Expire visit after 30 minutes").
THEOREM VisitsBounded == Spec => []VisitBounded
BY InitInv, NextInv, InvBounded, PTL DEF Spec

\* Every page is reported exactly once and under its own URL: its performance,
\* and its engagement when there was any, for any number of pages, however they
\* are hidden, shown, left, closed, loaded again or timed out (tracker/index.ts,
\* flushEngagement and flushPerformance, and the flags they keep).
THEOREM ReportsAreExact == Spec => []ReportExact
BY InitPages, NextPagesInv, PagesExact, PTL DEF Spec

-----------------------------------------------------------------------------
(* The session of an event *)

\* The chain of a token began with a session row, which is there until a wipe.
Rooted(t, rows, n) == t.root.era <= n /\ (t.root.era = n => rows[t.root.session] # NoRow)

\* The stages before Begin, and those of a request whose answer is decided.
Unbegun == {"hooked", "sent", "fill", "checked"}
Ended == {"answered", "refused", "done"}

\* The session that a request answers with has its row, or it is clear why not;
\* of a request that was over when a wipe began, the wipe has taken the event.
Explained(m, t, r, rows, n, rc) ==
  \/ rows[t.session] # NoRow
  \/ r \in rc
  \/ m.via = "token" /\ (t.root.session # t.session \/ t.root.era < n)
  \/ m.pc \in Ended /\ "event" \notin m.stored

Chained(m, r, rows, n, rc) ==
  /\ \A t \in m.tok \cup m.reply : Rooted(t, rows, n)
  /\ m.pc \in Unbegun => m.reply = {}
  /\ m.pc \in {"fill", "checked"} /\ m.via # "token" => m.tok = {}
  /\ m.reply = {} => m.stored = {}
  /\ \A t \in m.reply : Explained(m, t, r, rows, n, rc)

\* Every token, wherever it is, has its root, and every request its reason.
SInv ==
  /\ \A t \in cache : Rooted(t, session, wipes)
  /\ \A r \in DOMAIN wire : Chained(wire[r], r, session, wipes, raced)

-----------------------------------------------------------------------------
(* Who was over when a wipe began *)

Finished(m) == m.pc \in Ended /\ m.todo = {}

\* A wipe is only open on a site that is there; who was over when it began still
\* is, and has its event deleted once the statement for the events has run.
WInv ==
  /\ transaction.purpose # "none" => site = "live"
  /\ \A r \in transaction.over : r \in DOMAIN wire /\ Finished(wire[r])
  /\ transaction.statement \in {"session", "website"} =>
       \A r \in transaction.over : "event" \in wire[r].stored => Waits("event", r)

\* Nothing happens to a request that is over, but that its answer arrives.
OverStays ==
  \A r \in DOMAIN wire :
    Finished(wire[r]) => /\ r \in DOMAIN wire' /\ Finished(wire'[r])
                         /\ wire'[r].stored = wire[r].stored

LEMMA OverKept ==
  ASSUME WInv, OverStays, UNCHANGED <<site, transaction>>
  PROVE  WInv'
BY DEF WInv, OverStays, Waits

LEMMA OneOver ==
  ASSUME IInv, NEW r \in DOMAIN wire, ~Finished(wire[r]),
         DOMAIN wire' = DOMAIN wire, \A p \in DOMAIN wire : p # r => wire'[p] = wire[p]
  PROVE  OverStays
BY DEF OverStays

\* The statements of a request come before it is over.
LEMMA RequestOver ==
  ASSUME IInv, WInv, NEW r \in DOMAIN wire,
         \/ RefuseType(r) \/ TrustToken(r) \/ FetchCached(r) \/ FetchRow(r) \/ Fill(r)
         \/ Begin(r) \/ SaveEvent(r) \/ SaveEventData(r) \/ SaveRevenue(r)
         \/ SaveSessionLink(r) \/ UpdateSession(r) \/ LinkFails(r)
         \/ SaveSessionData(r) \/ Fails(r)
  PROVE  WInv'
<1>1. ~Finished(wire[r])
  BY DEF Finished, Ended, At, RefuseType, TrustToken, FetchCached, FetchRow, Fill, Begin,
     SaveEvent, SaveEventData, SaveRevenue, SaveSessionLink, UpdateSession, LinkFails,
     SaveSessionData, Fails
<1>2. DOMAIN wire' = DOMAIN wire /\ \A p \in DOMAIN wire : p # r => wire'[p] = wire[p]
  BY DEF RefuseType, TrustToken, FetchCached, FetchRow, Fill, Begin,
     SaveEvent, SaveEventData, SaveRevenue, SaveSessionLink, UpdateSession, LinkFails,
     SaveSessionData, Fails, SetPc, Finish
<1>3. UNCHANGED <<site, transaction>>
  BY DEF RefuseType, TrustToken, FetchCached, FetchRow, Fill, Begin,
     SaveEvent, SaveEventData, SaveRevenue, SaveSessionLink, UpdateSession, LinkFails,
     SaveSessionData, Fails, collectVars, dbVars
<1> QED
  BY <1>1, <1>2, <1>3, OneOver, OverKept

\* What the steps of the owner and of Redis leave alone.
LEMMA OwnerSteps ==
  /\ DependentData \/ ResetWebsite \/ DeleteWebsite \/ RollBack =>
       UNCHANGED <<site, session, session_link, traits, wipes, raced, cacheVars, wire>>
  /\ TellCache \/ ExpireCache => UNCHANGED <<dbVars, wire>>
BY DEF DependentData, DeleteRevenue, DeleteEventData, DeleteDriftedData, DeleteSessionData,
   DeleteSessionLink, DeleteWebsiteEvent, DeleteSession, Statement, ResetWebsite,
   DeleteWebsite, Open, RollBack, TellCache, ExpireCache

\* The statement for the events finds those of everyone who was over.
LEMMA StatementOver ==
  ASSUME IInv, WInv, DependentData
  PROVE  WInv'
<1>0. UNCHANGED <<site, wire>>
  BY OwnerSteps
<1>1. PICK table, next, rows :
        /\ table \in {"revenue", "data", "drifted", "traits", "link", "event", "session"}
        /\ Statement(table, next, rows)
        /\ table = "event" => rows = EventRows("event")
        /\ next \in {"session", "website"} => table \in {"event", "session"}
  BY DEF DependentData, DeleteRevenue, DeleteEventData, DeleteDriftedData,
     DeleteSessionData, DeleteSessionLink, DeleteWebsiteEvent, DeleteSession
<1>2. /\ transaction'.purpose = transaction.purpose
      /\ transaction'.statement = next /\ transaction'.over = transaction.over
      /\ transaction'.doomed = transaction.doomed \cup rows
      /\ transaction.statement = table
  BY <1>1 DEF Statement, Transactions, IInv, TypeOK
<1>3. ASSUME next \in {"session", "website"}, NEW r \in transaction.over,
             "event" \in wire[r].stored
      PROVE  <<"event", r>> \in transaction.doomed \cup rows
  <2>1. CASE table = "event"
    BY <1>1, <1>3, <2>1 DEF EventRows, WInv
  <2>2. CASE table = "session"
    BY <1>2, <1>3, <2>2 DEF WInv, Waits
  <2> QED
    BY <1>1, <1>3, <2>1, <2>2
<1> QED
  BY <1>0, <1>2, <1>3 DEF WInv, Waits

LEMMA CollectOver ==
  ASSUME IInv, WInv, CollectStep
  PROVE  WInv'
<1>1. CASE ResetWebsite \/ DeleteWebsite
  <2>1. /\ site = "live" /\ UNCHANGED <<site, wire>>
        /\ transaction'.over = {r \in DOMAIN wire : Settled(r)}
        /\ transaction'.statement = "revenue"
    BY <1>1 DEF ResetWebsite, DeleteWebsite, Open
  <2> QED
    BY <2>1 DEF WInv, Settled, Finished, Ended
<1>2. CASE RollBack \/ CommitReset \/ CommitDelete
  BY <1>2 DEF RollBack, CommitReset, CommitDelete, Wipe, NoTransaction, WInv
<1>3. CASE TellCache \/ ExpireCache
  BY <1>3, OwnerSteps, OverKept DEF OverStays, dbVars
<1> QED
  BY <1>1, <1>2, <1>3, RequestOver, StatementOver DEF CollectStep

-----------------------------------------------------------------------------
(* Sessions: requests *)

\* Session rows are only added or renamed.
RowsKept == \A s \in SessionIds : session[s] # NoRow => session'[s] # NoRow

\* A request keeps its reason as long as no row is removed.
LEMMA ChainKept ==
  ASSUME IInv, NEW r \in DOMAIN wire, Chained(wire[r], r, session, wipes, raced),
         RowsKept, wipes' = wipes, raced' = raced
  PROVE  Chained(wire[r], r, session', wipes', raced')
<1> DEFINE m == wire[r]
<1>1. m \in Requests /\ m.tok \subseteq Tokens /\ m.reply \subseteq Tokens
  BY OnWire DEF Requests
<1>2. \A t \in Tokens : t.root.session \in SessionIds /\ t.session \in SessionIds
  BY DEF Tokens
<1>3. \A t \in m.tok \cup m.reply : Rooted(t, session', wipes')
  BY <1>1, <1>2 DEF RowsKept, Rooted, Chained
<1>4. \A t \in m.reply : Explained(m, t, r, session', wipes', raced')
  BY <1>1, <1>2 DEF RowsKept, Explained, Chained
<1> QED
  BY <1>3, <1>4 DEF Chained

\* A step of one request, which adds rows or none.
LEMMA OneChained ==
  ASSUME IInv, SInv, NEW r \in DOMAIN wire, NEW q,
         wire' = [wire EXCEPT ![r] = q],
         RowsKept, wipes' = wipes, raced' = raced,
         Chained(q, r, session', wipes', raced'),
         \A t \in cache' : t \in cache \/ t \in wire[r].reply
  PROVE  SInv'
<1>1. DOMAIN wire' = DOMAIN wire /\ wire'[r] = q
      /\ \A p \in DOMAIN wire : p # r => wire'[p] = wire[p]
  BY DEF IInv
<1>2. ASSUME NEW p \in DOMAIN wire
      PROVE  Chained(wire'[p], p, session', wipes', raced')
  <2>1. Chained(wire[p], p, session', wipes', raced')
    BY ChainKept DEF SInv
  <2> QED
    BY <1>1, <2>1
<1>3. ASSUME NEW t \in cache'
      PROVE  Rooted(t, session', wipes')
  <2>1. t \in Tokens /\ t.root.session \in SessionIds
    BY OnWire DEF IInv, TypeOK, Requests, Tokens
  <2>2. Rooted(t, session, wipes)
    BY DEF SInv, Chained
  <2> QED
    BY <2>1, <2>2 DEF Rooted, RowsKept
<1> QED
  BY <1>1, <1>2, <1>3 DEF SInv

\* A request that carries and answers the same, and has not stored more than a
\* request with an answer may, keeps its reason.
LEMMA SameChained ==
  ASSUME NEW m, NEW q, NEW r, NEW rows, NEW n, NEW rc, Chained(m, r, rows, n, rc),
         q.tok = m.tok, q.reply = m.reply, q.via = m.via,
         q.stored = m.stored \/ (m.reply # {} /\ m.pc \notin Ended),
         q.pc \in Unbegun => m.pc \in Unbegun,
         q.pc \in {"fill", "checked"} => m.pc = q.pc \/ m.via = "token" \/ m.tok = {},
         m.pc \in Ended => q.pc \in Ended
  PROVE  Chained(q, r, rows, n, rc)
<1>1. \A t \in q.tok \cup q.reply : Rooted(t, rows, n)
  BY DEF Chained
<1>2. \A t \in q.reply : Explained(q, t, r, rows, n, rc)
  BY DEF Chained, Explained
<1> QED
  BY <1>1, <1>2 DEF Chained

\* A request that has no answer yet.
LEMMA FreshChained ==
  ASSUME NEW q, NEW r, NEW rows, NEW n, NEW rc,
         \A t \in q.tok : Rooted(t, rows, n), q.reply = {}, q.stored = {},
         q.pc \in {"fill", "checked"} /\ q.via # "token" => q.tok = {}
  PROVE  Chained(q, r, rows, n, rc)
BY DEF Chained

\* Steps that leave rows, wipes and the tracker as they are.
LEMMA StillRows ==
  ASSUME UNCHANGED <<session, wipes, raced, cache>>
  PROVE  /\ RowsKept /\ wipes' = wipes /\ raced' = raced /\ session' = session
         /\ cache' = cache
BY DEF RowsKept

-----------------------------------------------------------------------------
(* Sessions: the handler *)

LEMMA FindChained ==
  ASSUME IInv, SInv, UNCHANGED trackerVars, NEW r \in DOMAIN wire,
         RefuseType(r) \/ TrustToken(r) \/ FetchCached(r) \/ FetchRow(r) \/ Fill(r)
  PROVE  SInv'
<1> DEFINE m == wire[r]
<1>0. m \in Requests /\ Chained(m, r, session, wipes, raced)
  BY OnWire DEF SInv
<1>1. UNCHANGED <<session, wipes, raced, cache>>
  BY DEF RefuseType, TrustToken, FetchCached, FetchRow, Fill, trackerVars, collectVars, dbVars
<1>2. /\ m.pc \in {"sent", "fill"} /\ m.reply = {} /\ m.stored = {}
      /\ \A t \in m.tok : Rooted(t, session, wipes)
  BY <1>0 DEF Chained, Unbegun, RefuseType, TrustToken, FetchCached, FetchRow, Fill, At
<1>3. ASSUME NEW pc \in Stages, NEW found, NEW via,
             pc \in {"fill", "checked"} => via = "token" \/ m.tok = {}
      PROVE  /\ Chained([m EXCEPT !.pc = pc, !.via = via], r, session', wipes', raced')
             /\ Chained([m EXCEPT !.pc = pc, !.found = found, !.via = via],
                        r, session', wipes', raced')
  <2> DEFINE q == [m EXCEPT !.pc = pc, !.via = via]
             p == [m EXCEPT !.pc = pc, !.found = found, !.via = via]
  <2>1. /\ q.tok = m.tok /\ q.reply = {} /\ q.stored = {} /\ q.pc = pc /\ q.via = via
        /\ p.tok = m.tok /\ p.reply = {} /\ p.stored = {} /\ p.pc = pc /\ p.via = via
    BY <1>0, <1>2 DEF Requests
  <2> HIDE DEF p, q
  <2>2. Chained(q, r, session, wipes, raced) /\ Chained(p, r, session, wipes, raced)
    BY <1>2, <1>3, <2>1, FreshChained
  <2>3. Chained(q, r, session', wipes', raced') /\ Chained(p, r, session', wipes', raced')
    BY <1>1, <2>2
  <2> QED
    BY <2>3 DEF p, q
<1>4. ASSUME NEW q, wire' = [wire EXCEPT ![r] = q],
             Chained(q, r, session', wipes', raced')
      PROVE  SInv'
  BY <1>1, <1>4, OneChained, StillRows
<1>5. CASE RefuseType(r)
  <2> DEFINE q == [m EXCEPT !.pc = "refused"]
  <2>1. wire' = [wire EXCEPT ![r] = q]
    BY <1>5 DEF RefuseType, SetPc
  <2>2. /\ q.tok = m.tok /\ q.reply = {} /\ q.stored = {} /\ q.pc = "refused"
    BY <1>0, <1>2 DEF Requests
  <2> HIDE DEF q
  <2>3. Chained(q, r, session', wipes', raced')
    BY <1>1, <1>2, <2>2, FreshChained
  <2> QED
    BY <1>4, <2>1, <2>3
<1>6. CASE TrustToken(r)
  <2>1. Chained([m EXCEPT !.pc = "checked", !.via = "token"], r, session', wipes', raced')
    BY <1>3 DEF Stages
  <2> QED
    BY <1>4, <1>6, <2>1 DEF TrustToken
<1>7. CASE FetchCached(r)
  <2> DEFINE pc == IF website_cache = "live" THEN "checked" ELSE "refused"
             via == IF ToldTooEarly THEN "late" ELSE "cache"
  <2>1. pc \in Stages /\ m.tok = {}
    BY <1>7 DEF FetchCached, Stages
  <2>2. Chained([m EXCEPT !.pc = pc, !.via = via], r, session', wipes', raced')
    BY <1>3, <2>1
  <2> QED
    BY <1>4, <1>7, <2>2 DEF FetchCached
<1>8. CASE FetchRow(r)
  <2> DEFINE pc == IF RowFound = "none" THEN "refused" ELSE "fill"
  <2>1. pc \in Stages /\ m.tok = {}
    BY <1>8 DEF FetchRow, Stages
  <2>2. Chained([m EXCEPT !.pc = pc, !.found = RowFound, !.via = "row"],
                r, session', wipes', raced')
    BY <1>3, <2>1
  <2> QED
    BY <1>4, <1>8, <2>2 DEF FetchRow
<1>9. CASE Fill(r)
  <2> DEFINE pc == IF m.found = "live" THEN "checked" ELSE "refused"
             q == [m EXCEPT !.pc = pc, !.found = "none"]
  <2>1. wire' = [wire EXCEPT ![r] = q] /\ m.pc = "fill"
    BY <1>9 DEF Fill, At
  <2>2. m.via = "token" \/ m.tok = {}
    BY <1>0, <2>1 DEF Chained
  <2>3. /\ q.tok = m.tok /\ q.reply = {} /\ q.stored = {} /\ q.via = m.via
    BY <1>0, <1>2 DEF Requests
  <2> HIDE DEF q
  <2>4. Chained(q, r, session', wipes', raced')
    BY <1>1, <1>2, <2>2, <2>3, FreshChained
  <2> QED
    BY <1>4, <2>1, <2>4
<1> QED
  BY <1>5, <1>6, <1>7, <1>8, <1>9

\* The row is inserted for a request without a token; a token has its root.
LEMMA BeginChained ==
  ASSUME IInv, SInv, UNCHANGED trackerVars, NEW r \in DOMAIN wire, Begin(r)
  PROVE  SInv'
<1> DEFINE m == wire[r]
           sid == <<m.addr, Month(clock)>>
           next == AfterSession(r, sid)
           token == TokenFor(r, sid)
           todo == IF next = "link" THEN {"link", "update"} ELSE {}
           q == [m EXCEPT !.pc = next, !.at = clock, !.tok = {}, !.reply = {token},
                          !.todo = todo]
<1>0. m \in Requests /\ Chained(m, r, session, wipes, raced) /\ wipes \in Nat
  BY OnWire DEF SInv, IInv, TypeOK
<1>1. wire' = [wire EXCEPT ![r] = q] /\ m.pc = "checked"
  BY DEF Begin, At
<1>2. sid \in SessionIds /\ m.identity # NoRow
  BY <1>0, IdentityAssumption DEF Requests, SessionIds, Month, Anonymous, NoRow
<1>3. /\ UNCHANGED <<wipes, raced, cache>>
      /\ session' = IF m.tok = {} THEN InsertSession(sid, m.identity) ELSE session
  BY DEF Begin, trackerVars
<1>4. RowsKept /\ (m.tok = {} => session'[sid] # NoRow)
  BY <1>2, <1>3 DEF RowsKept, InsertSession, IInv, TypeOK
<1>5. /\ token.session = sid
      /\ token.root = IF m.tok = {} THEN [session |-> sid, era |-> wipes]
                      ELSE (CHOOSE t \in m.tok : TRUE).root
  BY DEF TokenFor
<1>6. m.stored = {} /\ (m.tok # {} => m.via = "token")
  BY <1>0, <1>1 DEF Chained, Unbegun
<1>7. Rooted(token, session', wipes') /\ token.root.era <= wipes
  <2>1. CASE m.tok = {}
    BY <1>0, <1>3, <1>4, <1>5, <2>1 DEF Rooted
  <2>2. CASE m.tok # {}
    <3>1. PICK t \in m.tok : token.root = t.root
      BY <1>5, <2>2
    <3>2. Rooted(t, session, wipes) /\ t \in Tokens
      BY <1>0, <3>1 DEF Chained, Requests
    <3> QED
      BY <1>3, <1>5, <2>2, <3>1, <3>2 DEF Rooted
  <2> QED
    BY <2>1, <2>2
<1>8. \/ session'[sid] # NoRow
      \/ m.via = "token" /\ (token.root.session # sid \/ token.root.era < wipes')
  <2>1. CASE m.tok = {}
    BY <1>4, <2>1
  <2>2. CASE m.tok # {}
    <3>1. token.root.era \in Nat
      BY <1>2, TokenSound DEF FreshTokens, Tokens
    <3> QED
      BY <1>0, <1>3, <1>6, <1>7, <2>2, <3>1 DEF Rooted
  <2> QED
    BY <2>1, <2>2
<1>9. next \notin Unbegun \cup {"fill", "checked"}
  BY DEF AfterSession, Unbegun
<1> HIDE DEF token, next, sid
<1>10. /\ q.tok = {} /\ q.reply = {token} /\ q.pc = next /\ q.via = m.via /\ q.stored = {}
  BY <1>0, <1>6 DEF Requests
<1> HIDE DEF q
<1>11. Chained(q, r, session', wipes', raced')
  BY <1>5, <1>7, <1>8, <1>9, <1>10 DEF Chained, Explained
<1> QED
  BY <1>1, <1>3, <1>4, <1>11, OneChained

\* Steps of the handler that neither add a row nor carry another token.
LEMMA SaveChained ==
  ASSUME IInv, SInv, UNCHANGED trackerVars, NEW r \in DOMAIN wire,
         \/ SaveEvent(r) \/ SaveEventData(r) \/ SaveRevenue(r) \/ SaveSessionData(r)
         \/ LinkFails(r) \/ Fails(r)
  PROVE  SInv'
<1> DEFINE m == wire[r]
<1>0. m \in Requests /\ Sound(m, clock) /\ Chained(m, r, session, wipes, raced)
  BY OnWire DEF SInv
<1>1. UNCHANGED <<session, wipes, raced, cache>>
  BY DEF SaveEvent, SaveEventData, SaveRevenue, SaveSessionData, LinkFails, Fails,
         trackerVars, collectVars, dbVars
<1>2. ASSUME NEW q, wire' = [wire EXCEPT ![r] = q],
             q.tok = m.tok, q.reply = m.reply, q.via = m.via,
             q.stored = m.stored \/ (m.reply # {} /\ m.pc \notin Ended),
             q.pc \in Unbegun => q.pc = m.pc,
             m.pc \in Ended => q.pc \in Ended
      PROVE  SInv'
  <2>1. q.pc \in {"fill", "checked"} => m.pc = q.pc
    BY <1>2 DEF Unbegun
  <2>2. Chained(q, r, session, wipes, raced)
    BY <1>0, <1>2, <2>1, SameChained DEF Unbegun
  <2>3. Chained(q, r, session', wipes', raced')
    BY <1>1, <2>2
  <2> QED
    BY <1>1, <1>2, <2>3, OneChained, StillRows
<1>3. CASE SaveEvent(r) \/ SaveEventData(r) \/ SaveRevenue(r)
  <2> DEFINE Part(part) == [m EXCEPT !.stored = @ \cup {part}]
  <2>1. m.pc \in {"save", "data", "revenue"} /\ m.reply # {}
    BY <1>0, <1>3 DEF SaveEvent, SaveEventData, SaveRevenue, At, Sound, AfterBegin
  <2>2. ASSUME NEW part \in {"event", "data", "revenue"}
        PROVE  LET p == Part(part)
               IN /\ p.tok = m.tok /\ p.reply = m.reply /\ p.via = m.via /\ p.pc = m.pc
                  /\ p \in Requests
    BY <1>0, <2>2 DEF Requests
  <2> HIDE DEF Part
  <2>3. ASSUME NEW part \in {"event", "data", "revenue"},
               NEW pc \in {"data", "revenue"},
               \/ wire' = [wire EXCEPT ![r] = Answer(Part(part))]
               \/ wire' = [wire EXCEPT ![r] = [Part(part) EXCEPT !.pc = pc]]
        PROVE  SInv'
    <3>1. CASE wire' = [wire EXCEPT ![r] = Answer(Part(part))]
      <4> DEFINE q == [Part(part) EXCEPT !.pc = "answered", !.ok = TRUE]
      <4>1. /\ q.tok = m.tok /\ q.reply = m.reply /\ q.via = m.via /\ q.pc = "answered"
        BY <2>2 DEF Requests
      <4>2. wire' = [wire EXCEPT ![r] = q]
        BY <3>1 DEF Answer
      <4> HIDE DEF q
      <4> QED
        BY <1>2, <2>1, <4>1, <4>2 DEF Unbegun, Ended
    <3>2. CASE wire' = [wire EXCEPT ![r] = [Part(part) EXCEPT !.pc = pc]]
      <4> DEFINE q == [Part(part) EXCEPT !.pc = pc]
      <4>1. /\ q.tok = m.tok /\ q.reply = m.reply /\ q.via = m.via /\ q.pc = pc
        BY <2>2 DEF Requests
      <4>2. wire' = [wire EXCEPT ![r] = q]
        BY <3>2
      <4> HIDE DEF q
      <4> QED
        BY <1>2, <2>1, <4>1, <4>2 DEF Unbegun, Ended
    <3> QED
      BY <2>3, <3>1, <3>2
  <2>4. CASE SaveEvent(r)
    <3>1. wire' = [wire EXCEPT ![r] = IF Part("event").kind = "view" THEN Answer(Part("event"))
                                      ELSE [Part("event") EXCEPT !.pc = "data"]]
      BY <2>4 DEF SaveEvent, Part
    <3> QED
      BY <2>3, <3>1
  <2>5. CASE SaveEventData(r)
    <3>1. wire' = [wire EXCEPT ![r] = IF Part("data").kind = "sale"
                                      THEN [Part("data") EXCEPT !.pc = "revenue"]
                                      ELSE Answer(Part("data"))]
      BY <2>5 DEF SaveEventData, Part
    <3> QED
      BY <2>3, <3>1
  <2>6. CASE SaveRevenue(r)
    <3>1. wire' = [wire EXCEPT ![r] = Answer(Part("revenue"))]
      BY <2>6 DEF SaveRevenue, Part
    <3> QED
      BY <2>3, <3>1
  <2> QED
    BY <1>3, <2>4, <2>5, <2>6
<1>4. CASE SaveSessionData(r)
  <2> DEFINE q == [m EXCEPT !.pc = "answered", !.ok = TRUE]
  <2>1. wire' = [wire EXCEPT ![r] = q]
    BY <1>4 DEF SaveSessionData, Answer
  <2>2. /\ q.tok = m.tok /\ q.reply = m.reply /\ q.via = m.via /\ q.stored = m.stored
        /\ q.pc = "answered"
    BY <1>0 DEF Requests
  <2> HIDE DEF q
  <2> QED
    BY <1>2, <2>1, <2>2 DEF Unbegun, Ended
<1>5. CASE LinkFails(r)
  <2>1. PICK write \in m.todo :
          wire' = [wire EXCEPT ![r].todo = @ \ {write}, ![r].skipped = TRUE,
                               ![r].pc = IF @ = "link" THEN "traits" ELSE @]
    BY <1>5 DEF LinkFails
  <2> DEFINE pc == IF m.pc = "link" THEN "traits" ELSE m.pc
             q == [m EXCEPT !.todo = @ \ {write}, !.skipped = TRUE, !.pc = pc]
  <2>2. wire' = [wire EXCEPT ![r] = q]
    BY <1>0, <2>1 DEF Requests
  <2>3. /\ q.tok = m.tok /\ q.reply = m.reply /\ q.via = m.via /\ q.stored = m.stored
        /\ q.pc = pc
    BY <1>0 DEF Requests
  <2> HIDE DEF q
  <2> QED
    BY <1>2, <2>2, <2>3 DEF Unbegun, Ended
<1>6. CASE Fails(r)
  <2> DEFINE q == [m EXCEPT !.pc = "refused"]
  <2>1. wire' = [wire EXCEPT ![r] = q]
    BY <1>6 DEF Fails, SetPc
  <2>2. /\ q.tok = m.tok /\ q.reply = m.reply /\ q.via = m.via /\ q.stored = m.stored
        /\ q.pc = "refused"
    BY <1>0 DEF Requests
  <2> HIDE DEF q
  <2> QED
    BY <1>2, <2>1, <2>2 DEF Unbegun, Ended
<1> QED
  BY <1>3, <1>4, <1>5, <1>6

\* The link of an identity: the answer keeps its session and its root.
LEMMA LinkChained ==
  ASSUME IInv, SInv, UNCHANGED trackerVars, NEW r \in DOMAIN wire,
         NEW write \in {"link", "update"}, write \in wire[r].todo, Finish(r, write),
         RowsKept, UNCHANGED <<wipes, raced>>
  PROVE  SInv'
<1> DEFINE m == wire[r]
           q == [m EXCEPT !.todo = @ \ {write}]
           claim == <<Reply(r).session, q.identity>>
           token == [Reply(r) EXCEPT !.link = {claim}]
           answer == [q EXCEPT !.pc = "traits", !.reply = {token}]
<1>0. m \in Requests /\ Sound(m, clock)
  BY OnWire
<1>1. Chained(m, r, session', wipes', raced')
  BY ChainKept DEF SInv
<1>2. Reply(r) \in m.reply /\ Reply(r) \in Tokens
  BY <1>0 DEF Sound, Reply, FreshTokens
<1>3. wire' = [wire EXCEPT ![r] = IF q.pc = "link" /\ q.todo = {} THEN answer ELSE q]
  BY DEF Finish
<1>4. /\ q.tok = m.tok /\ q.reply = m.reply /\ q.via = m.via /\ q.stored = m.stored
      /\ q.pc = m.pc /\ q \in Requests
  BY <1>0 DEF Requests
<1>5. token.session = Reply(r).session /\ token.root = Reply(r).root
  BY <1>2 DEF Tokens
<1> HIDE DEF token, q
<1>6. /\ answer.tok = m.tok /\ answer.reply = {token} /\ answer.via = m.via
      /\ answer.stored = m.stored /\ answer.pc = "traits"
  BY <1>4 DEF Requests
<1> HIDE DEF answer
<1>7. Chained(q, r, session', wipes', raced')
  BY <1>1, <1>4, SameChained
<1>8. CASE q.pc = "link" /\ q.todo = {}
  <2>1. Rooted(Reply(r), session', wipes')
    BY <1>1, <1>2 DEF Chained
  <2>2. Explained(m, Reply(r), r, session', wipes', raced') /\ m.pc \notin Ended
    BY <1>1, <1>2, <1>4, <1>8 DEF Chained, Ended
  <2>3. Rooted(token, session', wipes')
    BY <1>5, <2>1 DEF Rooted
  <2>4. Explained(answer, token, r, session', wipes', raced')
    BY <1>5, <1>6, <2>2 DEF Explained
  <2>5. Chained(answer, r, session', wipes', raced')
    BY <1>1, <1>6, <2>3, <2>4 DEF Chained, Unbegun
  <2> QED
    BY <1>3, <1>8, <2>5, OneChained DEF trackerVars
<1>9. CASE ~(q.pc = "link" /\ q.todo = {})
  BY <1>3, <1>7, <1>9, OneChained DEF trackerVars
<1> QED
  BY <1>8, <1>9

LEMMA IdentityChained ==
  ASSUME IInv, SInv, UNCHANGED trackerVars, NEW r \in DOMAIN wire,
         SaveSessionLink(r) \/ UpdateSession(r)
  PROVE  SInv'
<1>1. CASE SaveSessionLink(r)
  <2>1. RowsKept /\ UNCHANGED <<wipes, raced>> /\ "link" \in wire[r].todo /\ Finish(r, "link")
    BY <1>1 DEF SaveSessionLink, RowsKept
  <2> QED
    BY <2>1, LinkChained
<1>2. CASE UpdateSession(r)
  <2>1. wire[r].identity # NoRow
    BY OnWire, IdentityAssumption DEF Requests, Anonymous, NoRow
  <2>2. RowsKept
    BY <1>2, <2>1 DEF UpdateSession, RowsKept, IInv, TypeOK
  <2>3. UNCHANGED <<wipes, raced>> /\ "update" \in wire[r].todo /\ Finish(r, "update")
    BY <1>2 DEF UpdateSession
  <2> QED
    BY <2>2, <2>3, LinkChained
<1> QED
  BY <1>1, <1>2

-----------------------------------------------------------------------------
(* Sessions: the owner *)

\* Who was over when the wipe began has lost the event, the others are noted.
LEMMA CommitReason ==
  ASSUME IInv, SInv, WInv, Wipe, NEW r \in DOMAIN wire,
         transaction.statement = "website"
  PROVE  \/ r \in raced'
         \/ wire[r].pc \in {"hooked", "sent"}
         \/ wire[r].pc \in Ended /\ "event" \notin Bare(wire[r], r).stored
<1>1. wire[r] \in Requests
  BY OnWire
<1>2. CASE r \in transaction.over
  <2>1. wire[r].pc \in Ended /\ ("event" \in wire[r].stored => Waits("event", r))
    BY <1>2 DEF WInv, Finished
  <2> QED
    BY <1>1, <2>1, BareRequest
<1>3. CASE r \notin transaction.over
  BY <1>3 DEF Wipe
<1> QED
  BY <1>2, <1>3

LEMMA CommitChained ==
  ASSUME IInv, SInv, WInv, UNCHANGED trackerVars, CommitReset \/ CommitDelete
  PROVE  SInv'
<1>1. /\ Wipe /\ cache' = cache /\ wipes \in Nat /\ wipes' = wipes + 1
      /\ transaction.statement = "website"
  BY DEF CommitReset, CommitDelete, Wipe, trackerVars, IInv, TypeOK
<1>2. ASSUME NEW t \in Tokens, Rooted(t, session, wipes)
      PROVE  Rooted(t, session', wipes') /\ t.root.era < wipes'
  <2>1. t.root.era \in Nat
    BY DEF Tokens
  <2> QED
    BY <1>1, <1>2, <2>1 DEF Rooted
<1>3. ASSUME NEW r \in DOMAIN wire
      PROVE  r \in DOMAIN wire' /\ Chained(wire'[r], r, session', wipes', raced')
  <2> DEFINE m == wire[r]
             q == Bare(m, r)
  <2>1. r \in DOMAIN wire' /\ wire'[r] = q
    BY <1>1, WipeWire
  <2>2. m \in Requests /\ m.tok \subseteq Tokens /\ m.reply \subseteq Tokens
        /\ Chained(m, r, session, wipes, raced)
    BY OnWire DEF Requests, SInv
  <2>3. /\ q.tok = m.tok /\ q.reply = m.reply /\ q.via = m.via /\ q.pc = m.pc
        /\ q.stored \subseteq m.stored
    BY <2>2, BareRequest
  <2>4. \/ r \in raced'
        \/ m.pc \in {"hooked", "sent"}
        \/ m.pc \in Ended /\ "event" \notin q.stored
    BY <1>1, CommitReason
  <2> HIDE DEF q
  <2>5. \A t \in q.tok \cup q.reply : Rooted(t, session', wipes')
    BY <1>2, <2>2, <2>3 DEF Chained
  <2>6. \A t \in q.reply : Explained(q, t, r, session', wipes', raced')
    BY <2>2, <2>3, <2>4 DEF Explained, Chained, Unbegun
  <2> QED
    BY <2>1, <2>2, <2>3, <2>5, <2>6 DEF Chained
<1>4. DOMAIN wire' = DOMAIN wire
  BY <1>1, WipeWire
<1>5. \A t \in cache' : Rooted(t, session', wipes')
  BY <1>1, <1>2 DEF SInv, IInv, TypeOK
<1> QED
  BY <1>3, <1>4, <1>5 DEF SInv

LEMMA CollectChained ==
  ASSUME IInv, SInv, WInv, UNCHANGED trackerVars, CollectStep
  PROVE  SInv'
<1>1. CASE DependentData \/ ResetWebsite \/ DeleteWebsite \/ RollBack
           \/ TellCache \/ ExpireCache
  <2>1. UNCHANGED <<cache, wire, session, wipes, raced>>
    BY <1>1, OwnerSteps DEF dbVars, trackerVars
  <2> QED
    BY <2>1 DEF SInv
<1> QED
  BY <1>1, FindChained, BeginChained, SaveChained, IdentityChained, CommitChained
     DEF CollectStep

-----------------------------------------------------------------------------
(* Sessions: the tracker *)

\* What the tracker sends has no answer, and no token but the one it holds.
FreshRequests ==
  {m \in Requests : /\ m.pc \in {"hooked", "sent"} /\ m.reply = {} /\ m.stored = {}
                    /\ m.tok \subseteq cache /\ ~m.ok}

LEMMA MessageFresh ==
  ASSUME IInv, NEW kind \in Kinds, NEW id \in Identities \cup {Anonymous},
         NEW beacon \in BOOLEAN, NEW tok \in SUBSET cache,
         kind = "identify" => id \in Identities
  PROVE  Message(kind, tok, id, beacon) \in FreshRequests
<1> DEFINE m == Message(kind, tok, id, beacon)
<1>1. m \in Requests
  BY MessageSound, TrackerAssumption DEF SoundRequests, IInv
<1>2. /\ m.pc \in {"hooked", "sent"} /\ m.reply = {} /\ m.stored = {}
      /\ m.tok \subseteq cache /\ ~m.ok
  BY DEF Message, NewRequest
<1> QED
  BY <1>1, <1>2 DEF FreshRequests

LEMMA ReportFresh ==
  ASSUME IInv, NEW kind \in Kinds \ {"identify"}, NEW beacon \in BOOLEAN
  PROVE  Report(kind, beacon) \in FreshRequests
BY MessageFresh DEF Report, IInv, TypeOK

LEMMA ReportsFresh ==
  ASSUME IInv, NEW beacon \in BOOLEAN
  PROVE  Performance(beacon) \in Seq(FreshRequests) /\ Reports(beacon) \in Seq(FreshRequests)
<1> DEFINE S == FreshRequests
<1>1. Report("view", beacon) \in S /\ Report("scroll", beacon) \in S
  BY ReportFresh DEF Kinds, CallKinds
<1> HIDE DEF S
<1>2. Performance(beacon) \in Seq(S) /\ Engagement(beacon) \in Seq(S)
  BY <1>1 DEF Performance, Engagement
<1>3. Reports(beacon) \in Seq(S)
  BY <1>2, ConcatProperties DEF Reports
<1> QED
  BY <1>2, <1>3 DEF S

\* The requests that were there, and the new ones, have their reasons.
LEMMA GrownChained ==
  ASSUME IInv, SInv, NEW ms \in Seq(FreshRequests), NEW w \in Transmitted(ms)
  PROVE  /\ w \in Seq(Requests)
         /\ \A r \in DOMAIN w : Chained(w[r], r, session, wipes, raced)
<1>0. /\ wire \in Seq(Requests) /\ ms \in Seq(Requests)
      /\ \A r \in DOMAIN wire : Chained(wire[r], r, session, wipes, raced)
  BY SeqMonotonic DEF FreshRequests, IInv, TypeOK, SInv
<1>1. ASSUME NEW m \in FreshRequests, NEW r
      PROVE  Chained(m, r, session, wipes, raced)
  BY FreshChained DEF FreshRequests, SInv
<1>2. \A i \in DOMAIN ms : ms[i] \in FreshRequests
  BY ElementOfSeq
<1>3. CASE w = wire
  BY <1>0, <1>3
<1>4. CASE w = wire \o ms
  <2>1. /\ w \in Seq(Requests) /\ Len(w) = Len(wire) + Len(ms)
        /\ \A r \in 1..Len(w) :
             w[r] = IF r <= Len(wire) THEN wire[r] ELSE ms[r - Len(wire)]
    BY <1>0, <1>4, ConcatProperties
  <2>2. ASSUME NEW r \in 1..Len(w)
        PROVE  Chained(w[r], r, session, wipes, raced)
    <3>1. CASE r <= Len(wire)
      BY <1>0, <2>1, <3>1
    <3>2. CASE ~(r <= Len(wire))
      <4>1. r - Len(wire) \in DOMAIN ms /\ w[r] = ms[r - Len(wire)]
        BY <1>0, <2>1, <3>2
      <4> QED
        BY <1>1, <1>2, <4>1
    <3> QED
      BY <3>1, <3>2
  <2> QED
    BY <2>1, <2>2
<1>5. CASE \E m \in Range(ms) : w = Append(wire, m)
  <2>1. PICK m \in FreshRequests : w = Append(wire, m)
    BY <1>2, <1>5 DEF Range
  <2>2. /\ w \in Seq(Requests) /\ Len(w) = Len(wire) + 1 /\ w[Len(w)] = m
        /\ \A r \in 1..Len(wire) : w[r] = wire[r]
    BY <1>0, <2>1, AppendProperties DEF FreshRequests
  <2>3. ASSUME NEW r \in 1..Len(w)
        PROVE  Chained(w[r], r, session, wipes, raced)
    <3>1. CASE r \in 1..Len(wire)
      BY <1>0, <2>2, <3>1
    <3>2. CASE r = Len(w)
      BY <1>1, <2>2, <3>2
    <3> QED
      BY <1>0, <2>2, <3>1, <3>2
  <2> QED
    BY <2>2, <2>3
<1> QED
  BY <1>3, <1>4, <1>5 DEF Transmitted

\* Whose page is gone keeps its reason.
LEMMA AbandonedChained ==
  ASSUME NEW w \in Seq(Requests), NEW r \in DOMAIN w,
         Chained(w[r], r, session, wipes, raced)
  PROVE  Chained(Abandoned(w)[r], r, session, wipes, raced)
<1> DEFINE m == w[r]
           pc == IF m.pc = "hooked" /\ m.awaited THEN "done" ELSE m.pc
           q == [m EXCEPT !.awaited = FALSE, !.pc = pc]
<1>1. m \in Requests
  BY ElementOfSeq
<1>2. Abandoned(w)[r] = q
  BY <1>1 DEF Abandoned, Requests
<1>3. /\ q.tok = m.tok /\ q.reply = m.reply /\ q.via = m.via /\ q.stored = m.stored
      /\ q.pc \in {m.pc, "done"}
  BY <1>1 DEF Requests
<1> HIDE DEF q
<1>4. Chained(q, r, session, wipes, raced)
  BY <1>3, SameChained DEF Unbegun, Ended
<1> QED
  BY <1>2, <1>4

\* What a step of the tracker sends.
LEMMA TrackerSends ==
  ASSUME IInv,
         \/ HandlePush \/ Leave("hidden") \/ Leave("closed") \/ Show \/ Scroll
         \/ PerformanceTimeout \/ DelayedTrack \/ Load
         \/ (\E kind \in Calls : Track(kind)) \/ (\E id \in Identities : Identify(id))
  PROVE  /\ \E ms \in Seq(FreshRequests) : \E w \in Transmitted(ms) :
              wire' = w \/ wire' = Abandoned(w)
         /\ cache' \subseteq cache
<1>1. cache' \subseteq cache
  BY DEF HandlePush, Leave, Show, Scroll, PerformanceTimeout, DelayedTrack, Load, Track,
         Identify, trackerVars
<1>2. ASSUME NEW m \in FreshRequests, wire' = Append(wire, m)
      PROVE  \E ms \in Seq(FreshRequests) : wire' \in Transmitted(ms)
  <2>1. <<m>> \in Seq(FreshRequests) /\ m \in Range(<<m>>)
    BY DEF Range
  <2> QED
    BY <1>2, <2>1 DEF Transmitted
<1>3. CASE HandlePush \/ PerformanceTimeout
  BY <1>1, <1>3, ReportsFresh DEF HandlePush, PerformanceTimeout, Transmit
<1>4. CASE Leave("hidden") \/ Leave("closed")
  <2>1. PICK w \in Transmitted(Reports(TRUE)) : wire' = w \/ wire' = Abandoned(w)
    BY <1>4 DEF Leave
  <2> QED
    BY <1>1, <2>1, ReportsFresh
<1>5. CASE Show \/ Scroll
  <2>1. wire' \in Transmitted(<<>>) /\ <<>> \in Seq(FreshRequests)
    BY <1>5 DEF Show, Scroll, Transmitted
  <2> QED
    BY <1>1, <2>1
<1>6. CASE DelayedTrack
  <2>1. PICK m \in FreshRequests : m = Report("view", FALSE)
    BY ReportFresh DEF Kinds, CallKinds
  <2>2. wire' \in Transmitted(<<m>>)
    BY <1>6, <2>1 DEF DelayedTrack, Transmit
  <2> HIDE DEF FreshRequests
  <2>3. <<m>> \in Seq(FreshRequests)
    OBVIOUS
  <2> QED
    BY <1>1, <2>2, <2>3
<1>7. CASE Load
  <2>1. FirstView \in FreshRequests
    BY MessageFresh DEF FirstView, Kinds
  <2> QED
    BY <1>1, <1>2, <1>7, <2>1 DEF Load
<1>8. ASSUME NEW kind \in Calls, Track(kind)
      PROVE  \E ms \in Seq(FreshRequests) : wire' \in Transmitted(ms)
  <2>1. Report(kind, FALSE) \in FreshRequests
    BY <1>8, CallAssumption, ReportFresh DEF Track, Kinds
  <2> QED
    BY <1>2, <1>8, <2>1 DEF Track
<1>9. ASSUME NEW id \in Identities, Identify(id)
      PROVE  \E ms \in Seq(FreshRequests) : wire' \in Transmitted(ms)
  <2>1. Message("identify", {}, id, FALSE) \in FreshRequests
    BY MessageFresh DEF Kinds, CallKinds
  <2> QED
    BY <1>2, <1>9, <2>1 DEF Identify
<1> QED
  BY <1>1, <1>3, <1>4, <1>5, <1>6, <1>7, <1>8, <1>9

\* Steps of a request outside the handler.
LEMMA AnswerChained ==
  ASSUME IInv, SInv, UNCHANGED collectVars, NEW r \in DOMAIN wire,
         CallbackReturns(r) \/ Arrive(r) \/ Lost(r)
  PROVE  SInv'
<1> DEFINE m == wire[r]
<1>0. m \in Requests /\ Chained(m, r, session, wipes, raced)
  BY OnWire DEF SInv
<1>1. UNCHANGED <<session, wipes, raced>> /\ RowsKept
  BY DEF collectVars, dbVars, RowsKept
<1>2. CASE CallbackReturns(r)
  <2> DEFINE tok == IF m.awaited THEN cache ELSE {}
             q == [m EXCEPT !.pc = "sent", !.addr = address, !.tok = tok]
  <2>1. wire' = [wire EXCEPT ![r] = q] /\ cache' = cache /\ m.pc = "hooked"
    BY <1>2 DEF CallbackReturns, trackerVars
  <2>2. m.reply = {} /\ m.stored = {} /\ \A t \in tok : Rooted(t, session, wipes)
    BY <1>0, <2>1 DEF Chained, Unbegun, SInv
  <2> HIDE DEF tok
  <2>3. q.tok = tok /\ q.reply = {} /\ q.stored = {} /\ q.pc = "sent"
    BY <1>0, <2>2 DEF Requests
  <2> HIDE DEF q
  <2>4. Chained(q, r, session', wipes', raced')
    BY <1>1, <2>2, <2>3, FreshChained
  <2> QED
    BY <1>1, <2>1, <2>4, OneChained
<1>3. CASE Arrive(r) \/ Lost(r)
  <2> DEFINE q == [m EXCEPT !.pc = "done", !.awaited = FALSE]
  <2>1. wire' = [wire EXCEPT ![r] = q] /\ \A t \in cache' : t \in cache \/ t \in m.reply
    BY <1>3 DEF Arrive, Lost, trackerVars
  <2>2. /\ q.tok = m.tok /\ q.reply = m.reply /\ q.via = m.via /\ q.stored = m.stored
        /\ q.pc = "done"
    BY <1>0 DEF Requests
  <2> HIDE DEF q
  <2>3. Chained(q, r, session, wipes, raced)
    BY <1>0, <2>2, SameChained DEF Unbegun, Ended
  <2>4. Chained(q, r, session', wipes', raced')
    BY <1>1, <2>3
  <2> QED
    BY <1>1, <2>1, <2>4, OneChained
<1> QED
  BY <1>2, <1>3

LEMMA TrackerChained ==
  ASSUME IInv, SInv, UNCHANGED collectVars, TrackerStep
  PROVE  SInv'
<1>1. CASE \E r \in DOMAIN wire : CallbackReturns(r) \/ Arrive(r) \/ Lost(r)
  BY <1>1, AnswerChained
<1>2. CASE \/ HandlePush \/ Leave("hidden") \/ Leave("closed") \/ Show \/ Scroll
           \/ PerformanceTimeout \/ DelayedTrack \/ Load
           \/ (\E kind \in Calls : Track(kind)) \/ (\E id \in Identities : Identify(id))
  <2>1. UNCHANGED <<session, wipes, raced>>
    BY DEF collectVars, dbVars
  <2>2. cache' \subseteq cache
    BY <1>2, TrackerSends
  <2>3. PICK ms \in Seq(FreshRequests) :
          \E w \in Transmitted(ms) : wire' = w \/ wire' = Abandoned(w)
    BY <1>2, TrackerSends
  <2>4. PICK w \in Transmitted(ms) : wire' = w \/ wire' = Abandoned(w)
    BY <2>3
  <2>5. /\ w \in Seq(Requests)
        /\ \A r \in DOMAIN w : Chained(w[r], r, session, wipes, raced)
    BY GrownChained
  <2>6. DOMAIN Abandoned(w) = DOMAIN w
    BY DEF Abandoned
  <2>7. \A r \in DOMAIN wire' : Chained(wire'[r], r, session, wipes, raced)
    BY <2>4, <2>5, <2>6, AbandonedChained
  <2> QED
    BY <2>1, <2>2, <2>7 DEF SInv
<1> QED
  BY <1>1, <1>2 DEF TrackerStep

\* What the tracker sends comes behind what was there.
LEMMA GrownOver ==
  ASSUME IInv, NEW ms \in Seq(FreshRequests), NEW w \in Transmitted(ms)
  PROVE  w \in Seq(Requests) /\ \A r \in DOMAIN wire : r \in DOMAIN w /\ w[r] = wire[r]
<1>0. wire \in Seq(Requests) /\ ms \in Seq(Requests)
  BY SeqMonotonic DEF FreshRequests, IInv, TypeOK
<1>1. CASE w = wire
  BY <1>0, <1>1
<1>2. CASE w = wire \o ms
  BY <1>0, <1>2, ConcatProperties
<1>3. CASE \E m \in Range(ms) : w = Append(wire, m)
  <2>1. PICK m \in FreshRequests : w = Append(wire, m)
    BY <1>3, ElementOfSeq DEF Range
  <2> QED
    BY <1>0, <2>1, AppendProperties DEF FreshRequests
<1> QED
  BY <1>1, <1>2, <1>3 DEF Transmitted

LEMMA TrackerOver ==
  ASSUME IInv, WInv, UNCHANGED collectVars, TrackerStep
  PROVE  WInv'
<1>1. UNCHANGED <<site, transaction>>
  BY DEF collectVars, dbVars
<1>2. ASSUME NEW r \in DOMAIN wire, CallbackReturns(r) \/ Arrive(r) \/ Lost(r)
      PROVE  OverStays
  <2>1. wire[r] \in Requests
    BY <1>2, OnWire
  <2>2. CASE CallbackReturns(r)
    BY <1>2, <2>2, OneOver DEF CallbackReturns, Finished, Ended
  <2>3. CASE Arrive(r) \/ Lost(r)
    <3> DEFINE q == [wire[r] EXCEPT !.pc = "done", !.awaited = FALSE]
    <3>1. wire' = [wire EXCEPT ![r] = q]
      BY <2>3 DEF Arrive, Lost
    <3>2. q.pc = "done" /\ q.todo = wire[r].todo /\ q.stored = wire[r].stored
      BY <2>1 DEF Requests
    <3> HIDE DEF q
    <3>3. /\ DOMAIN wire' = DOMAIN wire /\ wire'[r] = q
          /\ \A p \in DOMAIN wire : p # r => wire'[p] = wire[p]
      BY <3>1 DEF IInv
    <3> QED
      BY <3>2, <3>3 DEF OverStays, Finished, Ended
  <2> QED
    BY <1>2, <2>2, <2>3
<1>3. CASE \/ HandlePush \/ Leave("hidden") \/ Leave("closed") \/ Show \/ Scroll
           \/ PerformanceTimeout \/ DelayedTrack \/ Load
           \/ (\E kind \in Calls : Track(kind)) \/ (\E id \in Identities : Identify(id))
  <2>1. PICK ms \in Seq(FreshRequests) :
          \E w \in Transmitted(ms) : wire' = w \/ wire' = Abandoned(w)
    BY <1>3, TrackerSends
  <2>2. PICK w \in Transmitted(ms) : wire' = w \/ wire' = Abandoned(w)
    BY <2>1
  <2>3. ASSUME NEW r \in DOMAIN wire, Finished(wire[r])
        PROVE  /\ r \in DOMAIN wire' /\ Finished(wire'[r])
               /\ wire'[r].stored = wire[r].stored
    <3>1. r \in DOMAIN w /\ w[r] = wire[r] /\ w[r] \in Requests
      BY GrownOver, OnWire
    <3>2. /\ r \in DOMAIN Abandoned(w) /\ Abandoned(w)[r].pc = w[r].pc
          /\ Abandoned(w)[r].todo = w[r].todo /\ Abandoned(w)[r].stored = w[r].stored
      BY <2>3, <3>1 DEF Abandoned, Finished, Ended, Requests
    <3> QED
      BY <2>2, <2>3, <3>1, <3>2 DEF Finished
  <2> QED
    BY <1>1, <2>3, OverKept DEF OverStays
<1> QED
  BY <1>1, <1>2, <1>3, OverKept DEF TrackerStep

LEMMA InitOver == Init => WInv
BY DEF Init, CollectInit, NoTransaction, WInv

LEMMA NextOver == IInv /\ WInv /\ [Next]_vars => WInv'
<1> SUFFICES ASSUME IInv, WInv, [Next]_vars PROVE WInv'
  OBVIOUS
<1>1. CASE TrackerStep /\ UNCHANGED collectVars
  BY <1>1, TrackerOver
<1>2. CASE CollectStep
  BY <1>2, CollectOver
<1>3. CASE (Move \/ Tick) /\ UNCHANGED <<trackerVars, collectVars>>
  BY <1>3, OverKept DEF Move, Tick, OverStays, collectVars, dbVars
<1>4. CASE UNCHANGED vars
  BY <1>4, OverKept DEF vars, OverStays, collectVars, dbVars
<1> QED
  BY <1>1, <1>2, <1>3, <1>4 DEF Next

-----------------------------------------------------------------------------
(* Sessions: theorem *)

LEMMA InitChained == Init => SInv
<1> SUFFICES ASSUME Init PROVE SInv
  OBVIOUS
<1>1. cache = {} /\ wire = <<FirstView>>
  BY DEF Init, TrackerInit
<1>2. /\ FirstView.tok = {} /\ FirstView.reply = {} /\ FirstView.stored = {}
      /\ FirstView.pc \in {"hooked", "sent"}
  BY DEF FirstView, Message, NewRequest
<1>3. Chained(FirstView, 1, session, wipes, raced)
  BY <1>2, FreshChained
<1> QED
  BY <1>1, <1>3 DEF SInv

LEMMA NextChained == IInv /\ SInv /\ WInv /\ [Next]_vars => SInv'
<1> SUFFICES ASSUME IInv, SInv, WInv, [Next]_vars PROVE SInv'
  OBVIOUS
<1>1. CASE TrackerStep /\ UNCHANGED collectVars
  BY <1>1, TrackerChained
<1>2. CASE CollectStep /\ UNCHANGED trackerVars
  BY <1>2, CollectChained
<1>3. CASE (Move \/ Tick) /\ UNCHANGED <<trackerVars, collectVars>>
  BY <1>3 DEF Move, Tick, SInv, trackerVars, collectVars, dbVars
<1>4. CASE UNCHANGED vars
  BY <1>4 DEF vars, SInv, trackerVars, collectVars, dbVars
<1> QED
  BY <1>1, <1>2, <1>3, <1>4 DEF Next

LEMMA ReasonsExplain == IInv /\ SInv => SessionExplained
<1> SUFFICES ASSUME IInv, SInv, NEW r \in DOMAIN wire, Stored(r)
             PROVE  \/ session[Reply(r).session] # NoRow
                    \/ r \in raced
                    \/ /\ wire[r].via = "token"
                       /\ \/ Reply(r).root.session # Reply(r).session
                          \/ Reply(r).root.era < wipes
  BY DEF SessionExplained
<1>1. Chained(wire[r], r, session, wipes, raced)
  BY DEF SInv
<1>2. wire[r].stored # {}
  BY DEF Stored
<1>3. Reply(r) \in wire[r].reply
  BY <1>1, <1>2 DEF Chained, Reply
<1>4. Explained(wire[r], Reply(r), r, session, wipes, raced)
  BY <1>1, <1>3 DEF Chained
<1> QED
  BY <1>4 DEF Explained, Stored

\* An event is stored without its session row only if a wipe committed, or the
\* address or the month changed, under the chain of tokens it was sent with, or if
\* the transaction of the last wipe was open during its request (api/send/route.ts,
\* "Create a session if not found"; website.ts, deleteWebsiteDependentData).
THEOREM SessionsExplained == Spec => []SessionExplained
BY InitInv, NextInv, InitOver, NextOver, InitChained, NextChained, ReasonsExplain,
   PTL DEF Spec

-----------------------------------------------------------------------------
(* What an answer promises *)

Single(S) == \A t, u \in S : t = u

\* The site was wiped since the first token of the chain.
Wiped(t, n) == t.root.era < n

\* The links a token claims are there.
Vouched(t, links, n) == Wiped(t, n) \/ t.link \subseteq links

Linked(m, t, links) == <<t.session, m.identity>> \in links

\* Everything that the request m carried is stored; t is the token it got.
Delivered(m, t, links, known) ==
  \/ m.kind = "sale" /\ m.stored = {"event", "data", "revenue"}
  \/ m.kind = "scroll" /\ m.stored = {"event", "data"}
  \/ m.kind = "view" /\ m.stored = {"event"}
  \/ m.kind = "identify" /\ t.session \in known /\ (m.skipped \/ Linked(m, t, links))

\* How far the handler has come tells what it has stored.
Underway(m, t, links, known) ==
  /\ m.pc = "save" => m.kind \in {"view", "scroll", "sale"} /\ m.stored = {}
  /\ m.pc = "data" => m.kind \in {"scroll", "sale"} /\ m.stored = {"event"}
  /\ m.pc = "revenue" => m.kind = "sale" /\ m.stored = {"event", "data"}
  /\ m.pc = "link" => m.kind = "identify" /\ ("link" \in m.todo \/ Linked(m, t, links))
  /\ m.pc = "traits" => m.kind = "identify" /\ (m.skipped \/ Linked(m, t, links))
  /\ m.ok => Delivered(m, t, links, known)

Honest(m, links, known, n) ==
  /\ Single(m.tok) /\ Single(m.reply)
  /\ \A t \in m.tok \cup m.reply : Vouched(t, links, n)
  /\ m.ok => m.reply # {} /\ m.pc \in {"answered", "done"}
  /\ m.kind = "error" => m.pc \in {"hooked", "sent", "refused", "done"}
  /\ \A t \in m.reply : Wiped(t, n) \/ Underway(m, t, links, known)

AInv ==
  /\ Single(cache) /\ \A t \in cache : Vouched(t, session_link, wipes)
  /\ \A r \in DOMAIN wire : Honest(wire[r], session_link, traits, wipes)

-----------------------------------------------------------------------------
(* Answers: requests *)

\* What is added to the tables breaks no promise.
LEMMA HonestKept ==
  ASSUME NEW m, NEW n, NEW links, NEW known, NEW more, NEW wider,
         Honest(m, links, known, n), links \subseteq more, known \subseteq wider
  PROVE  Honest(m, more, wider, n)
<1>1. \A t \in m.tok \cup m.reply : Vouched(t, more, n)
  BY DEF Honest, Vouched
<1>2. ASSUME NEW t \in m.reply, ~Wiped(t, n)
      PROVE  Underway(m, t, more, wider)
  <2>1. Underway(m, t, links, known)
    BY <1>2 DEF Honest
  <2>2. Linked(m, t, links) => Linked(m, t, more)
    BY DEF Linked
  <2>3. Delivered(m, t, links, known) => Delivered(m, t, more, wider)
    BY <2>2 DEF Delivered
  <2> QED
    BY <2>1, <2>2, <2>3 DEF Underway
<1> QED
  BY <1>1, <1>2 DEF Honest

\* A step of one request, which adds to the tables or leaves them.
LEMMA OneHonest ==
  ASSUME IInv, AInv, NEW r \in DOMAIN wire, NEW q,
         wire' = [wire EXCEPT ![r] = q],
         session_link \subseteq session_link', traits \subseteq traits', wipes' = wipes,
         Honest(q, session_link', traits', wipes'),
         cache' = cache \/ cache' = {} \/ cache' = wire[r].reply
  PROVE  AInv'
<1>1. DOMAIN wire' = DOMAIN wire /\ wire'[r] = q
      /\ \A p \in DOMAIN wire : p # r => wire'[p] = wire[p]
  BY DEF IInv
<1>2. ASSUME NEW p \in DOMAIN wire
      PROVE  Honest(wire'[p], session_link', traits', wipes')
  <2>1. Honest(wire[p], session_link', traits', wipes')
    BY HonestKept DEF AInv
  <2> QED
    BY <1>1, <2>1
<1>3. Single(cache')
  BY DEF AInv, Honest, Single
<1>4. \A t \in cache' : Vouched(t, session_link', wipes')
  BY DEF AInv, Honest, Vouched
<1> QED
  BY <1>1, <1>2, <1>3, <1>4 DEF AInv

\* A request without an answer.
LEMMA FreshHonest ==
  ASSUME NEW q, NEW links, NEW known, NEW n,
         q.reply = {}, ~q.ok, Single(q.tok), \A t \in q.tok : Vouched(t, links, n),
         q.kind = "error" => q.pc \in {"hooked", "sent", "refused", "done"}
  PROVE  Honest(q, links, known, n)
BY DEF Honest, Single

\* A request that ends otherwise than with its answer.
LEMMA EndHonest ==
  ASSUME NEW m, NEW q, NEW links, NEW known, NEW n, Honest(m, links, known, n),
         q.tok = m.tok, q.reply = m.reply, q.kind = m.kind, q.identity = m.identity,
         q.ok = m.ok, q.stored = m.stored, q.skipped = m.skipped,
         q.pc \in {"refused", "done"}, q.pc = "refused" => ~m.ok
  PROVE  Honest(q, links, known, n)
<1>1. \A t \in q.reply : Wiped(t, n) \/ Underway(q, t, links, known)
  BY DEF Honest, Underway, Delivered, Linked
<1> QED
  BY <1>1 DEF Honest

-----------------------------------------------------------------------------
(* Answers: the handler *)

LEMMA FindHonest ==
  ASSUME IInv, SInv, AInv, UNCHANGED trackerVars, NEW r \in DOMAIN wire,
         RefuseType(r) \/ TrustToken(r) \/ FetchCached(r) \/ FetchRow(r) \/ Fill(r)
  PROVE  AInv'
<1> DEFINE m == wire[r]
<1>0. m \in Requests /\ Honest(m, session_link, traits, wipes)
      /\ Chained(m, r, session, wipes, raced)
  BY OnWire DEF AInv, SInv
<1>1. UNCHANGED <<session_link, traits, wipes, cache>>
  BY DEF RefuseType, TrustToken, FetchCached, FetchRow, Fill, trackerVars, collectVars, dbVars
<1>2. /\ m.reply = {} /\ ~m.ok /\ Single(m.tok) /\ m.pc \in {"sent", "fill"}
      /\ \A t \in m.tok : Vouched(t, session_link, wipes)
  BY <1>0 DEF Honest, Chained, Unbegun, RefuseType, TrustToken, FetchCached, FetchRow,
              Fill, At
<1>3. ~RefuseType(r) => m.kind # "error"
  BY <1>0 DEF Honest, TrustToken, FetchCached, FetchRow, Fill, At
<1>4. ASSUME NEW q, wire' = [wire EXCEPT ![r] = q],
             q.tok = m.tok, q.reply = m.reply, q.ok = m.ok, q.kind = m.kind,
             q.pc = "refused" \/ m.kind # "error"
      PROVE  AInv'
  <2>1. Honest(q, session_link, traits, wipes)
    BY <1>2, <1>4, FreshHonest
  <2> QED
    BY <1>1, <1>4, <2>1, OneHonest
<1>5. CASE RefuseType(r)
  <2> DEFINE q == [m EXCEPT !.pc = "refused"]
  <2>1. wire' = [wire EXCEPT ![r] = q]
    BY <1>5 DEF RefuseType, SetPc
  <2>2. /\ q.tok = m.tok /\ q.reply = m.reply /\ q.ok = m.ok /\ q.kind = m.kind
        /\ q.pc = "refused"
    BY <1>0 DEF Requests
  <2> HIDE DEF q
  <2> QED
    BY <1>4, <2>1, <2>2
<1>6. CASE TrustToken(r)
  <2> DEFINE q == [m EXCEPT !.pc = "checked", !.via = "token"]
  <2>1. wire' = [wire EXCEPT ![r] = q] /\ m.kind # "error"
    BY <1>6 DEF TrustToken
  <2>2. q.tok = m.tok /\ q.reply = m.reply /\ q.ok = m.ok /\ q.kind = m.kind
    BY <1>0 DEF Requests
  <2> HIDE DEF q
  <2> QED
    BY <1>4, <2>1, <2>2
<1>7. CASE FetchCached(r)
  <2> DEFINE q == [m EXCEPT !.pc = IF website_cache = "live" THEN "checked" ELSE "refused",
                            !.via = IF ToldTooEarly THEN "late" ELSE "cache"]
  <2>1. wire' = [wire EXCEPT ![r] = q] /\ m.kind # "error"
    BY <1>7 DEF FetchCached
  <2>2. q.tok = m.tok /\ q.reply = m.reply /\ q.ok = m.ok /\ q.kind = m.kind
    BY <1>0 DEF Requests
  <2> HIDE DEF q
  <2> QED
    BY <1>4, <2>1, <2>2
<1>8. CASE FetchRow(r)
  <2> DEFINE q == [m EXCEPT !.pc = IF RowFound = "none" THEN "refused" ELSE "fill",
                            !.found = RowFound, !.via = "row"]
  <2>1. wire' = [wire EXCEPT ![r] = q] /\ m.kind # "error"
    BY <1>8 DEF FetchRow
  <2>2. q.tok = m.tok /\ q.reply = m.reply /\ q.ok = m.ok /\ q.kind = m.kind
    BY <1>0 DEF Requests
  <2> HIDE DEF q
  <2> QED
    BY <1>4, <2>1, <2>2
<1>9. CASE Fill(r)
  <2> DEFINE q == [m EXCEPT !.pc = IF m.found = "live" THEN "checked" ELSE "refused",
                            !.found = "none"]
  <2>1. wire' = [wire EXCEPT ![r] = q] /\ m.pc = "fill"
    BY <1>9 DEF Fill, At
  <2>2. q.tok = m.tok /\ q.reply = m.reply /\ q.ok = m.ok /\ q.kind = m.kind
    BY <1>0 DEF Requests
  <2>3. m.kind # "error"
    BY <1>0, <2>1 DEF Honest
  <2> HIDE DEF q
  <2> QED
    BY <1>4, <2>1, <2>2, <2>3
<1> QED
  BY <1>5, <1>6, <1>7, <1>8, <1>9

\* An identity that is not written anew is claimed by the token, and written.
LEMMA BeginHonest ==
  ASSUME IInv, SInv, AInv, UNCHANGED trackerVars, NEW r \in DOMAIN wire, Begin(r)
  PROVE  AInv'
<1> DEFINE m == wire[r]
           sid == <<m.addr, Month(clock)>>
           next == AfterSession(r, sid)
           token == TokenFor(r, sid)
           todo == IF next = "link" THEN {"link", "update"} ELSE {}
           q == [m EXCEPT !.pc = next, !.at = clock, !.tok = {}, !.reply = {token},
                          !.todo = todo]
<1>0. m \in Requests /\ Honest(m, session_link, traits, wipes)
      /\ Chained(m, r, session, wipes, raced)
  BY OnWire DEF AInv, SInv
<1>1. wire' = [wire EXCEPT ![r] = q] /\ m.pc = "checked"
  BY DEF Begin, At
<1>2. UNCHANGED <<session_link, traits, wipes, cache>>
  BY DEF Begin, trackerVars
<1>3. ~m.ok /\ m.stored = {} /\ m.kind \in Kinds \ {"error"}
  BY <1>0, <1>1 DEF Honest, Chained, Unbegun, Requests
<1>4. /\ token.session = sid
      /\ token.link = UNION {t.link : t \in m.tok}
      /\ m.tok # {} => token.root = (CHOOSE t \in m.tok : TRUE).root
  BY DEF TokenFor
<1>5. Vouched(token, session_link, wipes)
  <2>1. CASE m.tok = {}
    BY <1>4, <2>1 DEF Vouched
  <2>2. CASE m.tok # {}
    <3>1. PICK t \in m.tok : token.root = t.root
      BY <1>4, <2>2
    <3>2. m.tok = {t}
      BY <1>0 DEF Honest, Single
    <3>3. token.link = t.link
      BY <1>4, <3>2
    <3>4. Vouched(t, session_link, wipes)
      BY <1>0 DEF Honest
    <3> QED
      BY <3>1, <3>3, <3>4 DEF Vouched, Wiped
  <2> QED
    BY <2>1, <2>2
<1>6. /\ next = "save" => m.kind # "identify"
      /\ next = "link" => m.kind = "identify"
      /\ next = "traits" => m.kind = "identify" /\ <<sid, m.identity>> \in token.link
      /\ next \in {"save", "link", "traits"}
  BY <1>4 DEF AfterSession
<1> HIDE DEF token, next, sid
<1>7. /\ q.tok = {} /\ q.reply = {token} /\ q.pc = next /\ q.todo = todo /\ q.kind = m.kind
      /\ q.identity = m.identity /\ ~q.ok /\ q.stored = {}
  BY <1>0, <1>3 DEF Requests
<1> HIDE DEF q
<1>8. Wiped(token, wipes) \/ Underway(q, token, session_link, traits)
  BY <1>3, <1>4, <1>5, <1>6, <1>7 DEF Underway, Vouched, Linked, Kinds, CallKinds
<1>9. Honest(q, session_link, traits, wipes)
  BY <1>3, <1>5, <1>7, <1>8 DEF Honest, Single
<1> QED
  BY <1>1, <1>2, <1>9, OneHonest

\* The statements of an event, in their order.
LEMMA SaveHonest ==
  ASSUME IInv, SInv, AInv, UNCHANGED trackerVars, NEW r \in DOMAIN wire,
         SaveEvent(r) \/ SaveEventData(r) \/ SaveRevenue(r)
  PROVE  AInv'
<1> DEFINE m == wire[r]
           Part(part) == [m EXCEPT !.stored = @ \cup {part}]
<1>0. m \in Requests /\ Sound(m, clock) /\ Honest(m, session_link, traits, wipes)
  BY OnWire DEF AInv
<1>1. UNCHANGED <<session_link, traits, wipes, cache>>
  BY DEF SaveEvent, SaveEventData, SaveRevenue, trackerVars, collectVars, dbVars
<1>2. m.pc \in {"save", "data", "revenue"}
  BY DEF SaveEvent, SaveEventData, SaveRevenue, At
<1>3. m.reply # {} /\ ~m.ok
  BY <1>0, <1>2 DEF Sound, AfterBegin, Honest
<1>4. ASSUME NEW q, wire' = [wire EXCEPT ![r] = q],
             q.tok = m.tok, q.reply = m.reply, q.kind = m.kind, q.identity = m.identity,
             q.ok => q.pc = "answered",
             \A t \in m.reply : Underway(m, t, session_link, traits)
                                  => Underway(q, t, session_link, traits)
      PROVE  AInv'
  <2>1. m.kind # "error"
    BY <1>0, <1>2 DEF Honest
  <2>2. \A t \in q.reply : Wiped(t, wipes) \/ Underway(q, t, session_link, traits)
    BY <1>0, <1>4 DEF Honest
  <2>3. Honest(q, session_link, traits, wipes)
    BY <1>0, <1>3, <1>4, <2>1, <2>2 DEF Honest
  <2> QED
    BY <1>1, <1>4, <2>3, OneHonest
<1>5. ASSUME NEW part \in {"event", "data", "revenue"}
      PROVE  /\ Part(part).tok = m.tok /\ Part(part).reply = m.reply
             /\ Part(part).kind = m.kind /\ Part(part).identity = m.identity
             /\ Part(part).stored = m.stored \cup {part}
             /\ Part(part).ok = m.ok /\ Part(part).pc = m.pc
             /\ Part(part) \in Requests
  BY <1>0, <1>5 DEF Requests
<1> HIDE DEF Part
<1>6. ASSUME NEW part \in {"event", "data", "revenue"}, NEW pc \in {"data", "revenue"},
             \/ /\ wire' = [wire EXCEPT ![r] = Answer(Part(part))]
                /\ \/ m.pc = "save" /\ part = "event" /\ m.kind = "view"
                   \/ m.pc = "data" /\ part = "data" /\ m.kind # "sale"
                   \/ m.pc = "revenue" /\ part = "revenue"
             \/ /\ wire' = [wire EXCEPT ![r] = [Part(part) EXCEPT !.pc = pc]]
                /\ \/ m.pc = "save" /\ part = "event" /\ m.kind # "view" /\ pc = "data"
                   \/ m.pc = "data" /\ part = "data" /\ m.kind = "sale" /\ pc = "revenue"
      PROVE  AInv'
  <2> DEFINE a == [Part(part) EXCEPT !.pc = "answered", !.ok = TRUE]
             b == [Part(part) EXCEPT !.pc = pc]
  <2>1. /\ a.tok = m.tok /\ a.reply = m.reply /\ a.kind = m.kind /\ a.identity = m.identity
        /\ a.stored = m.stored \cup {part} /\ a.ok /\ a.pc = "answered"
    BY <1>5 DEF Requests
  <2>2. /\ b.tok = m.tok /\ b.reply = m.reply /\ b.kind = m.kind /\ b.identity = m.identity
        /\ b.stored = m.stored \cup {part} /\ ~b.ok /\ b.pc = pc
    BY <1>3, <1>5 DEF Requests
  <2>3. \/ wire' = [wire EXCEPT ![r] = a]
        \/ wire' = [wire EXCEPT ![r] = b]
    BY <1>6 DEF Answer
  <2> HIDE DEF a, b
  <2>4. CASE wire' = [wire EXCEPT ![r] = Answer(Part(part))]
             /\ \/ m.pc = "save" /\ part = "event" /\ m.kind = "view"
                \/ m.pc = "data" /\ part = "data" /\ m.kind # "sale"
                \/ m.pc = "revenue" /\ part = "revenue"
    <3>1. \A t \in m.reply : Underway(m, t, session_link, traits)
                               => Underway(a, t, session_link, traits)
      BY <2>1, <2>4 DEF Underway, Delivered
    <3>2. wire' = [wire EXCEPT ![r] = a]
      BY <2>4 DEF a, Answer
    <3> QED
      BY <1>4, <2>1, <3>1, <3>2
  <2>5. CASE wire' = [wire EXCEPT ![r] = [Part(part) EXCEPT !.pc = pc]]
             /\ \/ m.pc = "save" /\ part = "event" /\ m.kind # "view" /\ pc = "data"
                \/ m.pc = "data" /\ part = "data" /\ m.kind = "sale" /\ pc = "revenue"
    <3>1. \A t \in m.reply : Underway(m, t, session_link, traits)
                               => Underway(b, t, session_link, traits)
      BY <2>2, <2>5 DEF Underway
    <3>2. wire' = [wire EXCEPT ![r] = b]
      BY <2>5 DEF b
    <3> QED
      BY <1>4, <2>2, <3>1, <3>2
  <2> QED
    BY <1>6, <2>4, <2>5
<1>7. CASE SaveEvent(r)
  <2>1. /\ m.pc = "save"
        /\ wire' = [wire EXCEPT ![r] = IF Part("event").kind = "view"
                                       THEN Answer(Part("event"))
                                       ELSE [Part("event") EXCEPT !.pc = "data"]]
    BY <1>7 DEF SaveEvent, At, Part
  <2> QED
    BY <1>5, <1>6, <2>1
<1>8. CASE SaveEventData(r)
  <2>1. /\ m.pc = "data"
        /\ wire' = [wire EXCEPT ![r] = IF Part("data").kind = "sale"
                                       THEN [Part("data") EXCEPT !.pc = "revenue"]
                                       ELSE Answer(Part("data"))]
    BY <1>8 DEF SaveEventData, At, Part
  <2> QED
    BY <1>5, <1>6, <2>1
<1>9. CASE SaveRevenue(r)
  <2>1. m.pc = "revenue" /\ wire' = [wire EXCEPT ![r] = Answer(Part("revenue"))]
    BY <1>9 DEF SaveRevenue, At, Part
  <2> QED
    BY <1>6, <2>1
<1> QED
  BY <1>7, <1>8, <1>9

\* The traits come last.
LEMMA TraitsHonest ==
  ASSUME IInv, AInv, UNCHANGED trackerVars, NEW r \in DOMAIN wire, SaveSessionData(r)
  PROVE  AInv'
<1> DEFINE m == wire[r]
           q == [m EXCEPT !.pc = "answered", !.ok = TRUE]
<1>0. m \in Requests /\ Sound(m, clock) /\ Honest(m, session_link, traits, wipes)
  BY OnWire DEF AInv
<1>1. /\ wire' = [wire EXCEPT ![r] = q] /\ m.pc = "traits"
      /\ traits' = traits \cup {Reply(r).session}
      /\ UNCHANGED <<session_link, wipes, cache>>
  BY DEF SaveSessionData, Answer, At, trackerVars
<1>2. m.reply # {} /\ m.kind # "error"
  BY <1>0, <1>1 DEF Sound, AfterBegin, Honest
<1>3. /\ q.tok = m.tok /\ q.reply = m.reply /\ q.kind = m.kind /\ q.identity = m.identity
      /\ q.skipped = m.skipped /\ q.ok /\ q.pc = "answered"
  BY <1>0 DEF Requests
<1> HIDE DEF q
<1>4. ASSUME NEW t \in m.reply, ~Wiped(t, wipes)
      PROVE  Underway(q, t, session_link, traits')
  <2>1. t = Reply(r)
    BY <1>0 DEF Honest, Single, Reply
  <2>2. m.kind = "identify" /\ (m.skipped \/ Linked(m, t, session_link))
    BY <1>0, <1>1, <1>4 DEF Honest, Underway
  <2>3. Linked(m, t, session_link) => Linked(q, t, session_link)
    BY <1>3 DEF Linked
  <2>4. Delivered(q, t, session_link, traits')
    BY <1>1, <1>3, <2>1, <2>2, <2>3 DEF Delivered
  <2> QED
    BY <1>3, <2>4 DEF Underway
<1>5. Honest(q, session_link', traits', wipes')
  BY <1>0, <1>1, <1>2, <1>3, <1>4 DEF Honest
<1>6. traits \subseteq traits'
  BY <1>1
<1> QED
  BY <1>1, <1>5, <1>6, OneHonest

\* The second of the two statements of an identity to finish puts the link into
\* the token: by then it is written.
LEMMA FinishHonest ==
  ASSUME IInv, AInv, UNCHANGED <<trackerVars, traits, wipes>>, NEW r \in DOMAIN wire,
         NEW write \in {"link", "update"}, write \in wire[r].todo, Finish(r, write),
         session_link \subseteq session_link',
         write = "link" => <<Reply(r).session, wire[r].identity>> \in session_link'
  PROVE  AInv'
<1> DEFINE m == wire[r]
           q == [m EXCEPT !.todo = @ \ {write}]
           claim == <<Reply(r).session, q.identity>>
           token == [Reply(r) EXCEPT !.link = {claim}]
           answer == [q EXCEPT !.pc = "traits", !.reply = {token}]
<1>0. m \in Requests /\ Sound(m, clock) /\ Honest(m, session_link', traits, wipes)
  BY OnWire, HonestKept DEF AInv
<1>1. Reply(r) \in m.reply /\ Reply(r) \in Tokens
  BY <1>0 DEF Sound, Reply, FreshTokens
<1>2. wire' = [wire EXCEPT ![r] = IF q.pc = "link" /\ q.todo = {} THEN answer ELSE q]
  BY DEF Finish
<1>3. /\ q.tok = m.tok /\ q.reply = m.reply /\ q.kind = m.kind /\ q.identity = m.identity
      /\ q.stored = m.stored /\ q.pc = m.pc /\ q.ok = m.ok /\ q.skipped = m.skipped
      /\ q.todo = m.todo \ {write} /\ q \in Requests
  BY <1>0 DEF Requests
<1>4. token.session = Reply(r).session /\ token.root = Reply(r).root /\ token.link = {claim}
  BY <1>1 DEF Tokens
<1>5. claim = <<Reply(r).session, m.identity>>
  BY <1>3
<1> HIDE DEF token, q, claim
<1>6. /\ answer.tok = m.tok /\ answer.reply = {token} /\ answer.kind = m.kind
      /\ answer.identity = m.identity /\ answer.pc = "traits" /\ answer.ok = m.ok
  BY <1>3 DEF Requests
<1> HIDE DEF answer
<1>7. ASSUME NEW t \in m.reply, ~Wiped(t, wipes)
      PROVE  Underway(q, t, session_link', traits)
  <2>1. t = Reply(r)
    BY <1>0, <1>1 DEF Honest, Single
  <2>2. Underway(m, t, session_link', traits)
    BY <1>0, <1>7 DEF Honest
  <2>3. write = "link" => Linked(m, t, session_link')
    BY <2>1 DEF Linked
  <2>4. Linked(q, t, session_link') <=> Linked(m, t, session_link')
    BY <1>3 DEF Linked
  <2>5. q.pc = "link" => "link" \in q.todo \/ Linked(q, t, session_link')
    BY <1>3, <2>2, <2>3, <2>4 DEF Underway
  <2>6. Delivered(m, t, session_link', traits) => Delivered(q, t, session_link', traits)
    BY <1>3, <2>4 DEF Delivered
  <2> QED
    BY <1>3, <2>2, <2>4, <2>5, <2>6 DEF Underway
<1>8. Honest(q, session_link', traits, wipes)
  BY <1>0, <1>3, <1>7 DEF Honest
<1>9. CASE q.pc = "link" /\ q.todo = {}
  <2>1. Wiped(token, wipes) \/ claim \in session_link'
    <3>1. Wiped(Reply(r), wipes) \/ Underway(q, Reply(r), session_link', traits)
      BY <1>1, <1>7
    <3> QED
      BY <1>3, <1>4, <1>5, <1>9, <3>1 DEF Wiped, Underway, Linked
  <2>2. Vouched(token, session_link', wipes)
    BY <1>4, <2>1 DEF Vouched
  <2>3. m.kind = "identify" \/ Wiped(token, wipes)
    BY <1>1, <1>3, <1>4, <1>7, <1>9 DEF Underway, Wiped
  <2>4. ~answer.ok /\ m.kind # "error"
    BY <1>0, <1>3, <1>6, <1>9 DEF Honest
  <2>5. Wiped(token, wipes) \/ Linked(answer, token, session_link')
    BY <1>4, <1>5, <1>6, <2>1 DEF Linked
  <2>6. Wiped(token, wipes) \/ Underway(answer, token, session_link', traits)
    BY <1>6, <2>3, <2>4, <2>5 DEF Underway
  <2>7. Honest(answer, session_link', traits, wipes)
    BY <1>0, <1>6, <2>2, <2>4, <2>6 DEF Honest, Single
  <2> QED
    BY <1>2, <1>9, <2>7, OneHonest DEF trackerVars
<1>10. CASE ~(q.pc = "link" /\ q.todo = {})
  BY <1>2, <1>8, <1>10, OneHonest DEF trackerVars
<1> QED
  BY <1>9, <1>10

LEMMA IdentityHonest ==
  ASSUME IInv, AInv, UNCHANGED trackerVars, NEW r \in DOMAIN wire,
         SaveSessionLink(r) \/ UpdateSession(r)
  PROVE  AInv'
<1>1. CASE SaveSessionLink(r)
  <2>1. /\ UNCHANGED <<traits, wipes>> /\ "link" \in wire[r].todo /\ Finish(r, "link")
        /\ session_link' = session_link \cup {<<Reply(r).session, wire[r].identity>>}
    BY <1>1 DEF SaveSessionLink
  <2> QED
    BY <2>1, FinishHonest
<1>2. CASE UpdateSession(r)
  <2>1. /\ UNCHANGED <<traits, wipes, session_link>> /\ "update" \in wire[r].todo
        /\ Finish(r, "update")
    BY <1>2 DEF UpdateSession
  <2> QED
    BY <2>1, FinishHonest
<1> QED
  BY <1>1, <1>2

\* A failure of either is noted, any other ends the request.
LEMMA FailHonest ==
  ASSUME IInv, AInv, UNCHANGED trackerVars, NEW r \in DOMAIN wire, LinkFails(r) \/ Fails(r)
  PROVE  AInv'
<1> DEFINE m == wire[r]
<1>0. m \in Requests /\ Sound(m, clock) /\ Honest(m, session_link, traits, wipes)
  BY OnWire DEF AInv
<1>1. UNCHANGED <<session_link, traits, wipes, cache>>
  BY DEF LinkFails, Fails, trackerVars, collectVars, dbVars
<1>2. CASE LinkFails(r)
  <2>1. PICK write \in m.todo :
          wire' = [wire EXCEPT ![r].todo = @ \ {write}, ![r].skipped = TRUE,
                               ![r].pc = IF @ = "link" THEN "traits" ELSE @]
    BY <1>2 DEF LinkFails
  <2> DEFINE pc == IF m.pc = "link" THEN "traits" ELSE m.pc
             q == [m EXCEPT !.todo = @ \ {write}, !.skipped = TRUE, !.pc = pc]
  <2>2. wire' = [wire EXCEPT ![r] = q]
    BY <1>0, <2>1 DEF Requests
  <2>3. /\ q.tok = m.tok /\ q.reply = m.reply /\ q.kind = m.kind
        /\ q.identity = m.identity /\ q.stored = m.stored /\ q.ok = m.ok
        /\ q.skipped /\ q.pc = pc
    BY <1>0 DEF Requests
  <2> HIDE DEF q
  <2>4. \A t \in q.reply : Underway(m, t, session_link, traits)
                             => Underway(q, t, session_link, traits)
    BY <2>3 DEF Underway, Delivered
  <2>5. Honest(q, session_link, traits, wipes)
    BY <1>0, <2>3, <2>4 DEF Honest
  <2> QED
    BY <1>1, <2>2, <2>5, OneHonest
<1>3. CASE Fails(r)
  <2> DEFINE q == [m EXCEPT !.pc = "refused"]
  <2>1. /\ wire' = [wire EXCEPT ![r] = q]
        /\ m.pc \in {"save", "data", "revenue", "traits", "checked"}
    BY <1>3 DEF Fails, SetPc
  <2>2. /\ q.tok = m.tok /\ q.reply = m.reply /\ q.kind = m.kind
        /\ q.identity = m.identity /\ q.ok = m.ok /\ q.stored = m.stored
        /\ q.skipped = m.skipped /\ q.pc = "refused"
    BY <1>0 DEF Requests
  <2> HIDE DEF q
  <2>3. ~m.ok
    BY <1>0, <2>1 DEF Honest
  <2>4. Honest(q, session_link, traits, wipes)
    BY <1>0, <2>2, <2>3, EndHonest
  <2> QED
    BY <1>1, <2>1, <2>4, OneHonest
<1> QED
  BY <1>2, <1>3

\* The commit of a wipe breaks every chain.
LEMMA CommitHonest ==
  ASSUME IInv, SInv, AInv, UNCHANGED trackerVars, CommitReset \/ CommitDelete
  PROVE  AInv'
<1>1. Wipe /\ cache' = cache /\ wipes \in Nat /\ wipes' = wipes + 1
  BY DEF CommitReset, CommitDelete, Wipe, trackerVars, IInv, TypeOK
<1>2. ASSUME NEW t \in Tokens, Rooted(t, session, wipes)
      PROVE  Wiped(t, wipes') /\ Vouched(t, session_link', wipes')
  <2>1. t.root.era \in Nat
    BY DEF Tokens
  <2> QED
    BY <1>1, <1>2, <2>1 DEF Rooted, Wiped, Vouched
<1>3. ASSUME NEW r \in DOMAIN wire
      PROVE  r \in DOMAIN wire' /\ Honest(wire'[r], session_link', traits', wipes')
  <2> DEFINE m == wire[r]
             q == Bare(m, r)
  <2>1. r \in DOMAIN wire' /\ wire'[r] = q
    BY <1>1, WipeWire
  <2>2. m \in Requests /\ m.tok \subseteq Tokens /\ m.reply \subseteq Tokens
        /\ Chained(m, r, session, wipes, raced) /\ Honest(m, session_link, traits, wipes)
    BY OnWire DEF Requests, SInv, AInv
  <2>3. /\ q.tok = m.tok /\ q.reply = m.reply /\ q.kind = m.kind /\ q.pc = m.pc
        /\ q.ok = m.ok
    BY <2>2, BareRequest
  <2> HIDE DEF q
  <2>4. \A t \in m.tok \cup m.reply : Wiped(t, wipes') /\ Vouched(t, session_link', wipes')
    BY <1>2, <2>2 DEF Chained
  <2> QED
    BY <2>1, <2>2, <2>3, <2>4 DEF Honest
<1>4. DOMAIN wire' = DOMAIN wire
  BY <1>1, WipeWire
<1>5. \A t \in cache' : Vouched(t, session_link', wipes')
  BY <1>1, <1>2 DEF SInv, IInv, TypeOK
<1> QED
  BY <1>1, <1>3, <1>4, <1>5 DEF AInv

LEMMA CollectHonest ==
  ASSUME IInv, SInv, AInv, UNCHANGED trackerVars, CollectStep
  PROVE  AInv'
<1>1. CASE DependentData \/ ResetWebsite \/ DeleteWebsite \/ RollBack
           \/ TellCache \/ ExpireCache
  <2>1. UNCHANGED <<cache, wire, session_link, traits, wipes>>
    BY <1>1, OwnerSteps DEF dbVars, trackerVars
  <2> QED
    BY <2>1 DEF AInv
<1> QED
  BY <1>1, FindHonest, BeginHonest, SaveHonest, TraitsHonest, IdentityHonest, FailHonest,
     CommitHonest DEF CollectStep

-----------------------------------------------------------------------------
(* Answers: the tracker *)

\* What the tracker sends has no answer yet, and carries the token it holds.
LEMMA GrownHonest ==
  ASSUME IInv, AInv, NEW ms \in Seq(FreshRequests), NEW w \in Transmitted(ms)
  PROVE  /\ w \in Seq(Requests)
         /\ \A r \in DOMAIN w : Honest(w[r], session_link, traits, wipes)
<1> DEFINE P(m) == Honest(m, session_link, traits, wipes)
<1>0. /\ wire \in Seq(Requests) /\ ms \in Seq(Requests)
      /\ \A r \in DOMAIN wire : P(wire[r])
  BY SeqMonotonic DEF FreshRequests, IInv, TypeOK, AInv
<1>1. ASSUME NEW m \in FreshRequests
      PROVE  P(m) /\ m \in Requests
  <2>1. Single(m.tok) /\ \A t \in m.tok : Vouched(t, session_link, wipes)
    BY DEF FreshRequests, AInv, Single
  <2> QED
    BY <2>1, FreshHonest DEF FreshRequests
<1>2. \A i \in DOMAIN ms : ms[i] \in FreshRequests
  BY ElementOfSeq
<1> HIDE DEF FreshRequests, P
<1>3. CASE w = wire
  BY <1>0, <1>3 DEF P
<1>4. CASE w = wire \o ms
  <2>1. /\ w \in Seq(Requests) /\ Len(w) = Len(wire) + Len(ms)
        /\ \A r \in 1..Len(w) :
             w[r] = IF r <= Len(wire) THEN wire[r] ELSE ms[r - Len(wire)]
    BY <1>0, <1>4, ConcatProperties
  <2>2. ASSUME NEW r \in 1..Len(w)
        PROVE  P(w[r])
    <3>1. CASE r <= Len(wire)
      BY <1>0, <2>1, <3>1
    <3>2. CASE ~(r <= Len(wire))
      <4>1. r - Len(wire) \in DOMAIN ms /\ w[r] = ms[r - Len(wire)]
        BY <1>0, <2>1, <3>2
      <4> QED
        BY <1>1, <1>2, <4>1
    <3> QED
      BY <3>1, <3>2
  <2> QED
    BY <2>1, <2>2 DEF P
<1>5. CASE \E m \in Range(ms) : w = Append(wire, m)
  <2>1. PICK m \in FreshRequests : w = Append(wire, m)
    BY <1>2, <1>5 DEF Range
  <2>2. /\ w \in Seq(Requests) /\ Len(w) = Len(wire) + 1 /\ w[Len(w)] = m
        /\ \A r \in 1..Len(wire) : w[r] = wire[r]
    BY <1>0, <1>1, <2>1, AppendProperties
  <2>3. ASSUME NEW r \in 1..Len(w)
        PROVE  P(w[r])
    <3>1. CASE r \in 1..Len(wire)
      BY <1>0, <2>2, <3>1
    <3>2. CASE r = Len(w)
      BY <1>1, <2>2, <3>2
    <3> QED
      BY <1>0, <2>2, <3>1, <3>2
  <2> QED
    BY <2>2, <2>3 DEF P
<1> QED
  BY <1>3, <1>4, <1>5 DEF Transmitted

LEMMA AbandonedHonest ==
  ASSUME NEW w \in Seq(Requests), NEW r \in DOMAIN w,
         Honest(w[r], session_link, traits, wipes)
  PROVE  Honest(Abandoned(w)[r], session_link, traits, wipes)
<1> DEFINE m == w[r]
           pc == IF m.pc = "hooked" /\ m.awaited THEN "done" ELSE m.pc
           q == [m EXCEPT !.awaited = FALSE, !.pc = pc]
<1>1. m \in Requests
  BY ElementOfSeq
<1>2. Abandoned(w)[r] = q
  BY <1>1 DEF Abandoned, Requests
<1>3. /\ q.tok = m.tok /\ q.reply = m.reply /\ q.kind = m.kind /\ q.identity = m.identity
      /\ q.ok = m.ok /\ q.stored = m.stored /\ q.skipped = m.skipped /\ q.todo = m.todo
      /\ q.pc \in {m.pc, "done"}
  BY <1>1 DEF Requests
<1> HIDE DEF q
<1>4. \A t \in q.reply : Underway(m, t, session_link, traits)
                           => Underway(q, t, session_link, traits)
  BY <1>3 DEF Underway, Delivered, Linked
<1>5. Honest(q, session_link, traits, wipes)
  BY <1>3, <1>4 DEF Honest
<1> QED
  BY <1>2, <1>5

\* Steps of a request outside the handler: an answer that arrives brings its token.
LEMMA AnswerKeeps ==
  ASSUME IInv, SInv, AInv, UNCHANGED collectVars, NEW r \in DOMAIN wire,
         CallbackReturns(r) \/ Arrive(r) \/ Lost(r)
  PROVE  AInv'
<1> DEFINE m == wire[r]
<1>0. m \in Requests /\ Honest(m, session_link, traits, wipes)
      /\ Chained(m, r, session, wipes, raced)
  BY OnWire DEF SInv, AInv
<1>1. UNCHANGED <<session_link, traits, wipes>>
  BY DEF collectVars, dbVars
<1>2. CASE CallbackReturns(r)
  <2> DEFINE tok == IF m.awaited THEN cache ELSE {}
             q == [m EXCEPT !.pc = "sent", !.addr = address, !.tok = tok]
  <2>1. wire' = [wire EXCEPT ![r] = q] /\ cache' = cache /\ m.pc = "hooked"
    BY <1>2 DEF CallbackReturns, trackerVars
  <2>2. /\ m.reply = {} /\ ~m.ok /\ Single(tok)
        /\ \A t \in tok : Vouched(t, session_link, wipes)
    BY <1>0, <2>1 DEF Chained, Unbegun, Honest, AInv, Single
  <2> HIDE DEF tok
  <2>3. q.tok = tok /\ q.reply = {} /\ ~q.ok /\ q.pc = "sent"
    BY <1>0, <2>2 DEF Requests
  <2> HIDE DEF q
  <2>4. Honest(q, session_link, traits, wipes)
    BY <2>2, <2>3, FreshHonest
  <2> QED
    BY <1>1, <2>1, <2>4, OneHonest
<1>3. CASE Arrive(r) \/ Lost(r)
  <2> DEFINE q == [m EXCEPT !.pc = "done", !.awaited = FALSE]
  <2>1. /\ wire' = [wire EXCEPT ![r] = q]
        /\ cache' = cache \/ cache' = {} \/ cache' = m.reply
    BY <1>3 DEF Arrive, Lost, trackerVars
  <2>2. /\ q.tok = m.tok /\ q.reply = m.reply /\ q.kind = m.kind
        /\ q.identity = m.identity /\ q.ok = m.ok /\ q.stored = m.stored
        /\ q.skipped = m.skipped /\ q.pc = "done"
    BY <1>0 DEF Requests
  <2> HIDE DEF q
  <2>3. Honest(q, session_link, traits, wipes)
    BY <1>0, <2>2, EndHonest
  <2> QED
    BY <1>1, <2>1, <2>3, OneHonest
<1> QED
  BY <1>2, <1>3

LEMMA TrackerHonest ==
  ASSUME IInv, SInv, AInv, UNCHANGED collectVars, TrackerStep
  PROVE  AInv'
<1>1. CASE \E r \in DOMAIN wire : CallbackReturns(r) \/ Arrive(r) \/ Lost(r)
  BY <1>1, AnswerKeeps
<1>2. CASE \/ HandlePush \/ Leave("hidden") \/ Leave("closed") \/ Show \/ Scroll
           \/ PerformanceTimeout \/ DelayedTrack \/ Load
           \/ (\E kind \in Calls : Track(kind)) \/ (\E id \in Identities : Identify(id))
  <2>1. UNCHANGED <<session_link, traits, wipes>>
    BY DEF collectVars, dbVars
  <2>2. cache' \subseteq cache
    BY <1>2, TrackerSends
  <2>3. PICK ms \in Seq(FreshRequests) :
          \E w \in Transmitted(ms) : wire' = w \/ wire' = Abandoned(w)
    BY <1>2, TrackerSends
  <2>4. PICK w \in Transmitted(ms) : wire' = w \/ wire' = Abandoned(w)
    BY <2>3
  <2>5. /\ w \in Seq(Requests)
        /\ \A r \in DOMAIN w : Honest(w[r], session_link, traits, wipes)
    BY GrownHonest
  <2>6. DOMAIN Abandoned(w) = DOMAIN w
    BY DEF Abandoned
  <2>7. \A r \in DOMAIN wire' : Honest(wire'[r], session_link, traits, wipes)
    BY <2>4, <2>5, <2>6, AbandonedHonest
  <2>8. Single(cache') /\ \A t \in cache' : Vouched(t, session_link, wipes)
    BY <2>2 DEF AInv, Single
  <2> QED
    BY <2>1, <2>7, <2>8 DEF AInv
<1> QED
  BY <1>1, <1>2 DEF TrackerStep

-----------------------------------------------------------------------------
(* Answers: theorem *)

LEMMA InitHonest == Init => AInv
<1> SUFFICES ASSUME Init PROVE AInv
  OBVIOUS
<1>1. cache = {} /\ wire = <<FirstView>>
  BY DEF Init, TrackerInit
<1>2. /\ FirstView.tok = {} /\ FirstView.reply = {} /\ ~FirstView.ok
      /\ FirstView.pc \in {"hooked", "sent"}
  BY DEF FirstView, Message, NewRequest
<1>3. Honest(FirstView, session_link, traits, wipes)
  BY <1>2, FreshHonest DEF Single
<1> QED
  BY <1>1, <1>3 DEF AInv, Single

LEMMA NextHonest == IInv /\ SInv /\ AInv /\ [Next]_vars => AInv'
<1> SUFFICES ASSUME IInv, SInv, AInv, [Next]_vars PROVE AInv'
  OBVIOUS
<1>1. CASE TrackerStep /\ UNCHANGED collectVars
  BY <1>1, TrackerHonest
<1>2. CASE CollectStep /\ UNCHANGED trackerVars
  BY <1>2, CollectHonest
<1>3. CASE (Move \/ Tick) /\ UNCHANGED <<trackerVars, collectVars>>
  BY <1>3 DEF Move, Tick, AInv, trackerVars, collectVars, dbVars
<1>4. CASE UNCHANGED vars
  BY <1>4 DEF vars, AInv, trackerVars, collectVars, dbVars
<1> QED
  BY <1>1, <1>2, <1>3, <1>4 DEF Next

LEMMA DeliveredAnswers == AInv => AnswerHonest
<1>1. ASSUME AInv, NEW r \in DOMAIN wire, wire[r].ok, ~Wiped(Reply(r), wipes)
      PROVE  Delivered(wire[r], Reply(r), session_link, traits)
  <2>1. Reply(r) \in wire[r].reply /\ Honest(wire[r], session_link, traits, wipes)
    BY <1>1 DEF AInv, Honest, Reply
  <2> QED
    BY <1>1, <2>1 DEF Honest, Underway
<1> QED
  BY <1>1 DEF AnswerHonest, Wiped, Delivered, Linked, Stored

\* An answer with a token means that everything its request carried is stored,
\* in whichever order the statements of an identify finish, unless the site was
\* wiped since the chain of tokens began; only the link of an identity may be
\* missing, after a failure that was logged (api/send/route.ts, POST).
THEOREM AnswersHonest == Spec => []AnswerHonest
BY InitInv, NextInv, InitOver, NextOver, InitChained, NextChained, InitHonest, NextHonest,
   DeliveredAnswers, PTL DEF Spec

-----------------------------------------------------------------------------
(* What is stored for a deleted site *)

\* How a request may have come past the check of the website.
Passed(m, r, rc) ==
  \/ r \in rc
  \/ m.via \in {"token", "late"}
  \/ m.via = "cache" /\ ~CloudMode

\* A request for a deleted site has not been checked, has found the deletion,
\* was over and lost its event, or came past the check.
Placed(m, r, rc) ==
  \/ Passed(m, r, rc)
  \/ m.pc \in {"hooked", "sent"}
  \/ m.pc = "fill" /\ m.found # "live"
  \/ m.pc \in Ended /\ "event" \notin m.stored

\* In cloud mode Redis has a deleted site only if the deletion is still to tell
\* it, or a read from before the deletion was written after it.
DInv ==
  /\ CloudMode /\ site = "gone" /\ website_cache = "live" => "del" \in admin \/ late
  /\ site = "gone" => \A r \in DOMAIN wire : Placed(wire[r], r, raced)

-----------------------------------------------------------------------------
(* Deletions: requests *)

\* A step of one request that leaves site and Redis as they are.
LEMMA OnePlaced ==
  ASSUME IInv, DInv, UNCHANGED <<site, cacheVars, raced>>, NEW r \in DOMAIN wire, NEW q,
         wire' = [wire EXCEPT ![r] = q], site = "gone" => Placed(q, r, raced)
  PROVE  DInv'
<1>1. DOMAIN wire' = DOMAIN wire /\ wire'[r] = q
      /\ \A p \in DOMAIN wire : p # r => wire'[p] = wire[p]
  BY DEF IInv
<1>2. \A p \in DOMAIN wire' : site = "gone" => Placed(wire'[p], p, raced')
  BY <1>1 DEF DInv
<1> QED
  BY <1>1, <1>2 DEF DInv, cacheVars

\* A request that has begun goes on, or ends.
LEMMA SamePlaced ==
  ASSUME NEW m, NEW q, NEW r, NEW rc, Placed(m, r, rc), q.via = m.via,
         m.pc \notin {"hooked", "sent", "fill"},
         m.pc \in Ended => q.pc \in Ended /\ q.stored = m.stored
  PROVE  Placed(q, r, rc)
BY DEF Placed, Passed

-----------------------------------------------------------------------------
(* Deletions: the handler *)

\* Who is checked after the deletion finds it, holds a token or meets Redis.
LEMMA FindPlaced ==
  ASSUME IInv, SInv, DInv, NEW r \in DOMAIN wire,
         RefuseType(r) \/ TrustToken(r) \/ FetchCached(r) \/ FetchRow(r)
  PROVE  DInv'
<1> DEFINE m == wire[r]
<1>0. m \in Requests /\ m.stored = {}
  BY OnWire DEF SInv, Chained, Unbegun, RefuseType, TrustToken, FetchCached, FetchRow, At
<1>1. UNCHANGED <<site, cacheVars, raced>>
  BY DEF RefuseType, TrustToken, FetchCached, FetchRow, collectVars, dbVars
<1>2. CASE RefuseType(r)
  <2> DEFINE q == [m EXCEPT !.pc = "refused"]
  <2>1. wire' = [wire EXCEPT ![r] = q]
    BY <1>2 DEF RefuseType, SetPc
  <2>2. q.pc = "refused" /\ q.stored = {}
    BY <1>0 DEF Requests
  <2> HIDE DEF q
  <2> QED
    BY <1>1, <2>1, <2>2, OnePlaced DEF Placed, Ended
<1>3. CASE TrustToken(r)
  <2> DEFINE q == [m EXCEPT !.pc = "checked", !.via = "token"]
  <2>1. wire' = [wire EXCEPT ![r] = q]
    BY <1>3 DEF TrustToken
  <2>2. q.via = "token"
    BY <1>0 DEF Requests
  <2> HIDE DEF q
  <2> QED
    BY <1>1, <2>1, <2>2, OnePlaced DEF Placed, Passed
<1>4. CASE FetchCached(r)
  <2> DEFINE pc == IF website_cache = "live" THEN "checked" ELSE "refused"
             via == IF ToldTooEarly THEN "late" ELSE "cache"
             q == [m EXCEPT !.pc = pc, !.via = via]
  <2>1. wire' = [wire EXCEPT ![r] = q]
    BY <1>4 DEF FetchCached
  <2>2. q.pc = pc /\ q.via = via /\ q.stored = {}
    BY <1>0 DEF Requests
  <2> HIDE DEF q
  <2>3. ASSUME site = "gone"
        PROVE  Placed(q, r, raced)
    <3>1. CASE website_cache = "live" /\ CloudMode
      BY <2>2, <2>3, <3>1 DEF DInv, ToldTooEarly, Placed, Passed
    <3>2. CASE website_cache # "live"
      BY <2>2, <3>2 DEF Placed, Ended
    <3>3. CASE ~CloudMode
      BY <2>2, <3>3 DEF Placed, Passed
    <3> QED
      BY <3>1, <3>2, <3>3
  <2> QED
    BY <1>1, <2>1, <2>3, OnePlaced
<1>5. CASE FetchRow(r)
  <2> DEFINE pc == IF RowFound = "none" THEN "refused" ELSE "fill"
             q == [m EXCEPT !.pc = pc, !.found = RowFound, !.via = "row"]
  <2>1. wire' = [wire EXCEPT ![r] = q]
    BY <1>5 DEF FetchRow
  <2>2. q.pc = pc /\ q.found = RowFound /\ q.stored = {}
    BY <1>0 DEF Requests
  <2> HIDE DEF q
  <2>3. site = "gone" => RowFound # "live"
    BY DEF RowFound
  <2> QED
    BY <1>1, <2>1, <2>2, <2>3, OnePlaced DEF Placed, Ended
<1> QED
  BY <1>2, <1>3, <1>4, <1>5

\* Redis is given what the query found; a live site after its deletion is late.
LEMMA FillPlaced ==
  ASSUME IInv, SInv, DInv, NEW r \in DOMAIN wire, Fill(r)
  PROVE  DInv'
<1> DEFINE m == wire[r]
           pc == IF m.found = "live" THEN "checked" ELSE "refused"
           q == [m EXCEPT !.pc = pc, !.found = "none"]
<1>0. m \in Requests /\ m.stored = {} /\ m.pc = "fill"
  BY OnWire DEF SInv, Chained, Unbegun, Fill, At
<1>1. wire' = [wire EXCEPT ![r] = q] /\ UNCHANGED <<site, raced, admin>>
  BY DEF Fill, dbVars
<1>2. q.pc = pc /\ q.via = m.via /\ q.stored = {}
  BY <1>0 DEF Requests
<1> HIDE DEF q
<1>3. site = "gone" => Placed(q, r, raced)
  BY <1>0, <1>2 DEF DInv, Placed, Passed, Ended
<1>4. DOMAIN wire' = DOMAIN wire /\ wire'[r] = q
      /\ \A p \in DOMAIN wire : p # r => wire'[p] = wire[p]
  BY <1>1 DEF IInv
<1>5. \A p \in DOMAIN wire' : site = "gone" => Placed(wire'[p], p, raced')
  BY <1>1, <1>3, <1>4 DEF DInv
<1>6. CloudMode /\ site' = "gone" /\ website_cache' = "live" => late'
  BY <1>1 DEF Fill, WriteCache
<1> QED
  BY <1>1, <1>5, <1>6 DEF DInv

\* The steps after the check keep the way a request came.
LEMMA StoredPlaced ==
  ASSUME IInv, SInv, DInv, NEW r \in DOMAIN wire,
         \/ Begin(r) \/ SaveEvent(r) \/ SaveEventData(r) \/ SaveRevenue(r)
         \/ SaveSessionLink(r) \/ UpdateSession(r) \/ LinkFails(r)
         \/ SaveSessionData(r) \/ Fails(r)
  PROVE  DInv'
<1> DEFINE m == wire[r]
<1>0. m \in Requests /\ Sound(m, clock) /\ Chained(m, r, session, wipes, raced)
      /\ (site = "gone" => Placed(m, r, raced))
  BY OnWire DEF SInv, DInv
<1>1. UNCHANGED <<site, cacheVars, raced>>
  BY DEF Begin, SaveEvent, SaveEventData, SaveRevenue, SaveSessionLink, UpdateSession,
         LinkFails, SaveSessionData, Fails, collectVars, dbVars
<1>2. m.pc \notin {"hooked", "sent", "fill"}
  <2>1. m.todo # {} => m.reply # {}
    BY <1>0 DEF Sound
  <2> QED
    BY <1>0, <2>1 DEF Chained, Unbegun, Begin, SaveEvent, SaveEventData, SaveRevenue,
       SaveSessionLink, UpdateSession, LinkFails, SaveSessionData, Fails, At
<1>3. ASSUME NEW q, wire' = [wire EXCEPT ![r] = q], q.via = m.via,
             m.pc \in Ended => q.pc \in Ended /\ q.stored = m.stored
      PROVE  DInv'
  <2>1. site = "gone" => Placed(q, r, raced)
    BY <1>0, <1>2, <1>3, SamePlaced
  <2> QED
    BY <1>1, <1>3, <2>1, OnePlaced
<1>4. CASE Begin(r)
  <2> DEFINE sid == <<m.addr, Month(clock)>>
             next == AfterSession(r, sid)
             token == TokenFor(r, sid)
             todo == IF next = "link" THEN {"link", "update"} ELSE {}
             q == [m EXCEPT !.pc = next, !.at = clock, !.tok = {}, !.reply = {token},
                            !.todo = todo]
  <2>1. wire' = [wire EXCEPT ![r] = q] /\ m.pc = "checked"
    BY <1>4 DEF Begin, At
  <2> HIDE DEF sid, next, token, todo
  <2>2. q.via = m.via
    BY <1>0 DEF Requests
  <2> HIDE DEF q
  <2> QED
    BY <1>3, <2>1, <2>2 DEF Ended
<1>5. CASE SaveEvent(r) \/ SaveEventData(r) \/ SaveRevenue(r)
  <2> DEFINE Part(part) == [m EXCEPT !.stored = @ \cup {part}]
  <2>0. m.pc \notin Ended
    BY <1>5 DEF SaveEvent, SaveEventData, SaveRevenue, At, Ended
  <2>1. ASSUME NEW part \in {"event", "data", "revenue"}
        PROVE  Part(part).via = m.via /\ Part(part) \in Requests
    BY <1>0, <2>1 DEF Requests
  <2> HIDE DEF Part
  <2>2. ASSUME NEW part \in {"event", "data", "revenue"},
               NEW pc \in {"data", "revenue"},
               \/ wire' = [wire EXCEPT ![r] = Answer(Part(part))]
               \/ wire' = [wire EXCEPT ![r] = [Part(part) EXCEPT !.pc = pc]]
        PROVE  DInv'
    <3> DEFINE a == [Part(part) EXCEPT !.pc = "answered", !.ok = TRUE]
               b == [Part(part) EXCEPT !.pc = pc]
    <3>1. a.via = m.via /\ b.via = m.via
      BY <2>1 DEF Requests
    <3>2. wire' = [wire EXCEPT ![r] = a] \/ wire' = [wire EXCEPT ![r] = b]
      BY <2>2 DEF Answer
    <3> HIDE DEF a, b
    <3> QED
      BY <1>3, <2>0, <3>1, <3>2
  <2>3. CASE SaveEvent(r)
    <3>1. wire' = [wire EXCEPT ![r] = IF Part("event").kind = "view" THEN Answer(Part("event"))
                                      ELSE [Part("event") EXCEPT !.pc = "data"]]
      BY <2>3 DEF SaveEvent, Part
    <3> QED
      BY <2>2, <3>1
  <2>4. CASE SaveEventData(r)
    <3>1. wire' = [wire EXCEPT ![r] = IF Part("data").kind = "sale"
                                      THEN [Part("data") EXCEPT !.pc = "revenue"]
                                      ELSE Answer(Part("data"))]
      BY <2>4 DEF SaveEventData, Part
    <3> QED
      BY <2>2, <3>1
  <2>5. CASE SaveRevenue(r)
    <3>1. wire' = [wire EXCEPT ![r] = Answer(Part("revenue"))]
      BY <2>5 DEF SaveRevenue, Part
    <3> QED
      BY <2>2, <3>1
  <2> QED
    BY <1>5, <2>3, <2>4, <2>5
<1>6. CASE SaveSessionData(r)
  <2> DEFINE q == [m EXCEPT !.pc = "answered", !.ok = TRUE]
  <2>1. wire' = [wire EXCEPT ![r] = q] /\ m.pc \notin Ended
    BY <1>6 DEF SaveSessionData, Answer, At, Ended
  <2>2. q.via = m.via
    BY <1>0 DEF Requests
  <2> HIDE DEF q
  <2> QED
    BY <1>3, <2>1, <2>2
<1>7. ASSUME NEW write \in m.todo, Finish(r, write)
      PROVE  DInv'
  <2> DEFINE q == [m EXCEPT !.todo = @ \ {write}]
             claim == <<Reply(r).session, q.identity>>
             token == [Reply(r) EXCEPT !.link = {claim}]
             answer == [q EXCEPT !.pc = "traits", !.reply = {token}]
  <2>1. wire' = [wire EXCEPT ![r] = IF q.pc = "link" /\ q.todo = {} THEN answer ELSE q]
    BY <1>7 DEF Finish
  <2>2. q.via = m.via /\ q.pc = m.pc /\ q.stored = m.stored /\ q \in Requests
    BY <1>0 DEF Requests
  <2> HIDE DEF q, token
  <2>3. answer.via = m.via
    BY <2>2 DEF Requests
  <2> HIDE DEF answer
  <2> QED
    BY <1>3, <2>1, <2>2, <2>3 DEF Ended
<1>8. CASE LinkFails(r)
  <2>1. PICK write \in m.todo :
          wire' = [wire EXCEPT ![r].todo = @ \ {write}, ![r].skipped = TRUE,
                               ![r].pc = IF @ = "link" THEN "traits" ELSE @]
    BY <1>8 DEF LinkFails
  <2> DEFINE pc == IF m.pc = "link" THEN "traits" ELSE m.pc
             q == [m EXCEPT !.todo = @ \ {write}, !.skipped = TRUE, !.pc = pc]
  <2>2. wire' = [wire EXCEPT ![r] = q]
    BY <1>0, <2>1 DEF Requests
  <2>3. q.via = m.via /\ q.stored = m.stored /\ q.pc = pc
    BY <1>0 DEF Requests
  <2> HIDE DEF q
  <2> QED
    BY <1>3, <2>2, <2>3 DEF Ended
<1>9. CASE Fails(r)
  <2> DEFINE q == [m EXCEPT !.pc = "refused"]
  <2>1. wire' = [wire EXCEPT ![r] = q]
    BY <1>9 DEF Fails, SetPc
  <2>2. q.via = m.via /\ q.stored = m.stored /\ q.pc = "refused"
    BY <1>0 DEF Requests
  <2> HIDE DEF q
  <2> QED
    BY <1>3, <2>1, <2>2 DEF Ended
<1> QED
  BY <1>4, <1>5, <1>6, <1>7, <1>8, <1>9 DEF SaveSessionLink, UpdateSession

-----------------------------------------------------------------------------
(* Deletions: the owner and Redis *)

\* Only a site that is there is wiped, and the wipe takes note of who was under way.
LEMMA CommitPlaced ==
  ASSUME IInv, SInv, WInv, DInv, CommitReset \/ CommitDelete
  PROVE  DInv'
<1>1. Wipe /\ transaction.statement = "website" /\ site = "live"
  BY DEF CommitReset, CommitDelete, WInv
<1>2. ASSUME NEW r \in DOMAIN wire
      PROVE  Placed(wire'[r], r, raced')
  <2> DEFINE q == Bare(wire[r], r)
  <2>1. wire'[r] = q /\ q.pc = wire[r].pc
    BY <1>1, OnWire, BareRequest, WipeWire
  <2>2. \/ r \in raced'
        \/ wire[r].pc \in {"hooked", "sent"}
        \/ wire[r].pc \in Ended /\ "event" \notin q.stored
    BY <1>1, CommitReason
  <2> HIDE DEF q
  <2> QED
    BY <2>1, <2>2 DEF Placed, Passed
<1>3. DOMAIN wire' = DOMAIN wire
  BY <1>1, WipeWire
<1>4. CloudMode /\ site' = "gone" => "del" \in admin'
  BY <1>1 DEF CommitReset, CommitDelete
<1> QED
  BY <1>2, <1>3, <1>4 DEF DInv

\* Redis forgets the site, or is told of a reset that came before the deletion.
LEMMA RedisPlaced ==
  ASSUME IInv, DInv, TellCache \/ ExpireCache
  PROVE  DInv'
<1>1. UNCHANGED <<site, raced, wire>>
  BY DEF TellCache, ExpireCache, dbVars
<1>2. CloudMode /\ site' = "gone" /\ website_cache' = "live" => late'
  BY <1>1 DEF TellCache, ExpireCache, WriteCache
<1> QED
  BY <1>1, <1>2 DEF DInv

LEMMA CollectPlaced ==
  ASSUME IInv, SInv, WInv, DInv, CollectStep
  PROVE  DInv'
<1>1. CASE DependentData \/ ResetWebsite \/ DeleteWebsite \/ RollBack
  <2>1. UNCHANGED <<site, website_cache, admin, late, wire, raced>>
    BY <1>1, OwnerSteps DEF cacheVars
  <2> QED
    BY <2>1 DEF DInv
<1> QED
  BY <1>1, FindPlaced, FillPlaced, StoredPlaced, CommitPlaced, RedisPlaced DEF CollectStep

-----------------------------------------------------------------------------
(* Deletions: the tracker *)

\* What the tracker adds has not been checked.
LEMMA GrownPlaced ==
  ASSUME IInv, DInv, site = "gone", NEW ms \in Seq(FreshRequests), NEW w \in Transmitted(ms)
  PROVE  w \in Seq(Requests) /\ \A r \in DOMAIN w : Placed(w[r], r, raced)
<1>0. /\ wire \in Seq(Requests) /\ ms \in Seq(Requests)
      /\ \A r \in DOMAIN wire : Placed(wire[r], r, raced)
  BY SeqMonotonic DEF FreshRequests, IInv, TypeOK, DInv
<1>1. ASSUME NEW m \in FreshRequests, NEW r
      PROVE  Placed(m, r, raced) /\ m \in Requests
  BY DEF FreshRequests, Placed
<1>2. \A i \in DOMAIN ms : ms[i] \in FreshRequests
  BY ElementOfSeq
<1> HIDE DEF FreshRequests
<1>3. CASE w = wire
  BY <1>0, <1>3
<1>4. CASE w = wire \o ms
  <2>1. /\ w \in Seq(Requests) /\ Len(w) = Len(wire) + Len(ms)
        /\ \A r \in 1..Len(w) :
             w[r] = IF r <= Len(wire) THEN wire[r] ELSE ms[r - Len(wire)]
    BY <1>0, <1>4, ConcatProperties
  <2>2. ASSUME NEW r \in 1..Len(w)
        PROVE  Placed(w[r], r, raced)
    <3>1. CASE r <= Len(wire)
      BY <1>0, <2>1, <3>1
    <3>2. CASE ~(r <= Len(wire))
      <4>1. r - Len(wire) \in DOMAIN ms /\ w[r] = ms[r - Len(wire)]
        BY <1>0, <2>1, <3>2
      <4> QED
        BY <1>1, <1>2, <4>1
    <3> QED
      BY <3>1, <3>2
  <2> QED
    BY <2>1, <2>2
<1>5. CASE \E m \in Range(ms) : w = Append(wire, m)
  <2>1. PICK m \in FreshRequests : w = Append(wire, m)
    BY <1>2, <1>5 DEF Range
  <2>2. /\ w \in Seq(Requests) /\ Len(w) = Len(wire) + 1 /\ w[Len(w)] = m
        /\ \A r \in 1..Len(wire) : w[r] = wire[r]
    BY <1>0, <1>1, <2>1, AppendProperties
  <2>3. ASSUME NEW r \in 1..Len(w)
        PROVE  Placed(w[r], r, raced)
    <3>1. CASE r \in 1..Len(wire)
      BY <1>0, <2>2, <3>1
    <3>2. CASE r = Len(w)
      BY <1>1, <2>2, <3>2
    <3> QED
      BY <1>0, <2>2, <3>1, <3>2
  <2> QED
    BY <2>2, <2>3
<1> QED
  BY <1>3, <1>4, <1>5 DEF Transmitted

\* Who is lost, answered or left alone has ended, and stores no more.
LEMMA LeftPlaced ==
  ASSUME IInv, SInv, DInv, UNCHANGED collectVars, NEW r \in DOMAIN wire,
         CallbackReturns(r) \/ Arrive(r) \/ Lost(r)
  PROVE  DInv'
<1> DEFINE m == wire[r]
<1>0. m \in Requests /\ Chained(m, r, session, wipes, raced)
      /\ (site = "gone" => Placed(m, r, raced))
  BY OnWire DEF SInv, DInv
<1>1. UNCHANGED <<site, cacheVars, raced>>
  BY DEF collectVars, dbVars
<1>2. CASE CallbackReturns(r)
  <2> DEFINE tok == IF m.awaited THEN cache ELSE {}
             q == [m EXCEPT !.pc = "sent", !.addr = address, !.tok = tok]
  <2>1. wire' = [wire EXCEPT ![r] = q]
    BY <1>2 DEF CallbackReturns
  <2> HIDE DEF tok
  <2>2. q.pc = "sent"
    BY <1>0 DEF Requests
  <2> HIDE DEF q
  <2> QED
    BY <1>1, <2>1, <2>2, OnePlaced DEF Placed
<1>3. CASE Arrive(r) \/ Lost(r)
  <2> DEFINE q == [m EXCEPT !.pc = "done", !.awaited = FALSE]
  <2>1. wire' = [wire EXCEPT ![r] = q] /\ m.pc \in {"hooked", "sent"} \cup Ended
    BY <1>3 DEF Arrive, Lost, Ended
  <2>2. q.via = m.via /\ q.stored = m.stored /\ q.pc = "done"
    BY <1>0 DEF Requests
  <2> HIDE DEF q
  <2>3. CASE m.pc \in {"hooked", "sent"}
    <3>1. m.stored = {}
      BY <1>0, <2>3 DEF Chained, Unbegun
    <3> QED
      BY <1>1, <2>1, <2>2, <3>1, OnePlaced DEF Placed, Ended
  <2>4. CASE m.pc \in Ended
    <3>1. site = "gone" => Placed(q, r, raced)
      BY <1>0, <2>2, <2>4, SamePlaced DEF Ended
    <3> QED
      BY <1>1, <2>1, <3>1, OnePlaced
  <2> QED
    BY <2>1, <2>3, <2>4
<1> QED
  BY <1>2, <1>3

\* The page goes, and with it what waits for a callback.
LEMMA AbandonedPlaced ==
  ASSUME NEW w \in Seq(Requests), NEW r \in DOMAIN w, Placed(w[r], r, raced),
         Chained(w[r], r, session, wipes, raced)
  PROVE  Placed(Abandoned(w)[r], r, raced)
<1> DEFINE m == w[r]
           pc == IF m.pc = "hooked" /\ m.awaited THEN "done" ELSE m.pc
           q == [m EXCEPT !.awaited = FALSE, !.pc = pc]
<1>1. m \in Requests
  BY ElementOfSeq
<1>2. Abandoned(w)[r] = q
  BY <1>1 DEF Abandoned, Requests
<1>3. /\ q.via = m.via /\ q.stored = m.stored /\ q.found = m.found
      /\ q.pc = m.pc \/ (q.pc = "done" /\ m.pc = "hooked")
  BY <1>1 DEF Requests
<1>4. m.pc = "hooked" => m.stored = {}
  BY DEF Chained, Unbegun
<1> HIDE DEF q
<1>5. Placed(q, r, raced)
  BY <1>3, <1>4 DEF Placed, Passed, Ended
<1> QED
  BY <1>2, <1>5

LEMMA TrackerPlaced ==
  ASSUME IInv, SInv, DInv, UNCHANGED collectVars, TrackerStep
  PROVE  DInv'
<1>1. CASE \E r \in DOMAIN wire : CallbackReturns(r) \/ Arrive(r) \/ Lost(r)
  BY <1>1, LeftPlaced
<1>2. CASE \/ HandlePush \/ Leave("hidden") \/ Leave("closed") \/ Show \/ Scroll
           \/ PerformanceTimeout \/ DelayedTrack \/ Load
           \/ (\E kind \in Calls : Track(kind)) \/ (\E id \in Identities : Identify(id))
  <2>1. UNCHANGED <<site, raced, website_cache, admin, late>>
    BY DEF collectVars, dbVars, cacheVars
  <2>2. PICK ms \in Seq(FreshRequests) :
          \E w \in Transmitted(ms) : wire' = w \/ wire' = Abandoned(w)
    BY <1>2, TrackerSends
  <2>3. PICK w \in Transmitted(ms) : wire' = w \/ wire' = Abandoned(w)
    BY <2>2
  <2>4. ASSUME site = "gone", NEW r \in DOMAIN wire'
        PROVE  Placed(wire'[r], r, raced)
    <3>1. w \in Seq(Requests) /\ \A p \in DOMAIN w : Placed(w[p], p, raced)
      BY <2>4, GrownPlaced
    <3>2. \A p \in DOMAIN w : Chained(w[p], p, session, wipes, raced)
      BY GrownChained
    <3>3. DOMAIN Abandoned(w) = DOMAIN w
      BY DEF Abandoned
    <3> QED
      BY <2>3, <2>4, <3>1, <3>2, <3>3, AbandonedPlaced
  <2> QED
    BY <2>1, <2>4 DEF DInv
<1> QED
  BY <1>1, <1>2 DEF TrackerStep

-----------------------------------------------------------------------------
(* Deletions: theorem *)

LEMMA InitPlaced == Init => DInv
BY DEF Init, CollectInit, DInv

LEMMA NextPlaced == IInv /\ SInv /\ WInv /\ DInv /\ [Next]_vars => DInv'
<1> SUFFICES ASSUME IInv, SInv, WInv, DInv, [Next]_vars PROVE DInv'
  OBVIOUS
<1>1. CASE TrackerStep /\ UNCHANGED collectVars
  BY <1>1, TrackerPlaced
<1>2. CASE CollectStep /\ UNCHANGED trackerVars
  BY <1>2, CollectPlaced
<1>3. CASE (Move \/ Tick) /\ UNCHANGED <<trackerVars, collectVars>>
  BY <1>3 DEF Move, Tick, DInv, collectVars, dbVars, cacheVars
<1>4. CASE UNCHANGED vars
  BY <1>4 DEF vars, DInv, collectVars, dbVars, cacheVars
<1> QED
  BY <1>1, <1>2, <1>3, <1>4 DEF Next

LEMMA PlacesExplain == SInv /\ DInv => DeletedExplained
<1> SUFFICES ASSUME SInv, DInv, NEW r \in DOMAIN wire, site = "gone", Stored(r)
             PROVE  Passed(wire[r], r, raced)
  BY DEF DeletedExplained, Passed
<1>1. Placed(wire[r], r, raced) /\ Chained(wire[r], r, session, wipes, raced)
  BY DEF DInv, SInv
<1>2. wire[r].stored # {}
  BY DEF Stored
<1> QED
  BY <1>1, <1>2 DEF Placed, Chained, Unbegun, Stored

\* An event is stored for a deleted site only if its request was under way while the
\* deletion was, carried a token, or met Redis before it knew: in cloud
\* mode only by the race of a read with the deletion (lib/load.ts, fetchWebsite;
\* lib/redis.ts, fetch; queries/prisma/website.ts, deleteWebsite).
THEOREM DeletionsExplained == Spec => []DeletedExplained
BY InitInv, NextInv, InitOver, NextOver, InitChained, NextChained, InitPlaced, NextPlaced,
   PlacesExplain, PTL DEF Spec
=============================================================================
