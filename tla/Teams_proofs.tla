---------------------------- MODULE Teams_proofs ----------------------------
(***************************************************************************)
(* Theorems about Teams, for any users, teams, entities and requests.      *)
(***************************************************************************)
EXTENDS Teams, FiniteSetTheorems, TLAPS

-----------------------------------------------------------------------------
(* The inductive invariants *)

Open(q) == request[q].pc \notin {"idle", "done"}

MemberKinds == {"join", "add", "role", "remove"}

\* What a request names, by its kind.
Proper(r) ==
  /\ r.kind \in Kinds /\ r.actor \in Users
  /\ r.kind \in MemberKinds =>
       r.team \in Teams /\ team[r.team] # "unborn" /\ r.target \in Users
  /\ r.kind \in {"join", "add", "role"} => r.role \in TeamRoles \ {"owner"}
  /\ r.kind \in {"found", "erase"} => r.target \in Users
  /\ r.kind = "dissolve" => r.team \in Teams
  /\ r.kind = "create" => r.team \in Teams \/ (r.team = None /\ r.target \in Users)
  /\ r.kind = "toUser" => r.target \in Users /\ r.entity \in Entities
  /\ r.kind = "toTeam" => r.team \in Teams /\ r.entity \in Entities
  /\ r.pc = "permit" => r.kind \notin {"join", "found", "erase"}

CallShape == \A q \in Requests : Open(q) => Proper(request[q])

\* Only requests that have ended are in the past of another, have left rows, or
\* have deleted anything.
PastShape ==
  /\ \A p, q \in Requests : p \in before[q] => request[p].pc = "done"
  /\ \A row \in team_user : row.id # Start => request[row.id].pc = "done"
  /\ \A x \in Users \cup Teams : \A q \in ended[x] : request[q].pc = "done"

\* A team has rows once it is founded, and its owner has no other.
TeamShape ==
  /\ \A row \in team_user : team[row.team] # "unborn"
  /\ \A x, y \in team_user :
       x.team = y.team /\ x.user = y.user /\ x.role = "owner" => x = y

\* Who is about to become a member was none, but for rows that were inserted
\* since his request began.
NewcomerRead ==
  \A q \in Requests : At(q, {"join", "add"}, "act") =>
    \A row \in RowsOf(request[q].team, request[q].target) :
      ~EndedBefore(row.id, q) /\ row.role # "owner"

\* Of a member whose row was read.
MemberRead ==
  \A q \in Requests :
    LET r == request[q]
    IN r.kind \in {"role", "remove"} /\ r.pc \in {"rank", "act"} =>
         /\ r.row \in Rows /\ r.row.team = r.team /\ r.row.user = r.target
         /\ r.row.role = "owner" => IsAdmin(q) \/ (r.kind = "role" /\ r.pc = "rank")
         /\ r.row.role # "owner" => \A x \in RowsOf(r.team, r.target) : x.role # "owner"

\* A team of a user that his deletion did not read was founded meanwhile.
TeamsRead ==
  \A q \in Requests : At(q, {"erase"}, "act") =>
    \A row \in team_user :
      row.user = request[q].target /\ row.role = "owner" /\ team[row.team] = "live" =>
        row.team \in request[q].owned \/ ~EndedBefore(made[row.team], q)

\* A website of a user that his deletion did not read was given to him meanwhile.
WebsitesRead ==
  \A q \in Requests : At(q, {"erase"}, "teams") \/ At(q, {"erase"}, "act") =>
    \A e \in There \cap Websites :
      entity[e].owner = request[q].target =>
        e \in request[q].read \/ ~EndedBefore(made[e], q)

\* What is there has an owner.
EntityShape == \A e \in There : entity[e].owner # None

\* The history of the roles is not behind the rows.
RolesSeen ==
  \A q \in Requests :
    LET r == request[q]
    IN Open(q) /\ r.kind \in {"role", "remove"} =>
         /\ \A row \in RowsOf(r.team, r.actor) : Rank[row.role] <= seen[q].high
         /\ \A row \in RowsOf(r.team, r.target) : seen[q].low <= Rank[row.role]
         /\ r.pc \in {"rank", "act"} => seen[q].low <= Rank[r.row.role]
         /\ r.pc = "act" /\ ~IsAdmin(q) /\ ~Self(q) => seen[q].high > seen[q].low

\* The history of a deletion is not behind the tables, and has all it read.
HoldingsSeen ==
  \A q \in Requests :
    LET r == request[q]
    IN Open(q) /\ r.kind \in {"erase", "dissolve"} =>
         /\ {r.target, r.team} \ {None} \subseteq seen[q].owners
         /\ \A row \in team_user :
              row.user = r.target /\ row.role = "owner" => row.team \in seen[q].owners
         /\ \A e \in Entities : entity[e].owner \in seen[q].owners => e \in seen[q].held
         /\ r.read \subseteq seen[q].held /\ r.owned \subseteq seen[q].owners

-----------------------------------------------------------------------------
(* Records *)

LEMMA RankType ==
  /\ TeamRoles = {"owner", "manager", "member", "viewer"}
  /\ \A r \in TeamRoles : Rank[r] \in 0..3 /\ (Rank[r] = 3 <=> r = "owner")
<1>1. TeamRoles = {"owner", "manager", "member", "viewer"}
  BY DEF TeamRoles, Rank
<1>2. /\ Rank["owner"] = 3 /\ Rank["manager"] = 2 /\ Rank["member"] = 1
      /\ Rank["viewer"] = 0
  BY DEF Rank
<1> QED
  BY <1>1, <1>2

LEMMA RecordTypes ==
  /\ NoRequest \in RequestRecords /\ Done \in RequestRecords
  /\ Done.pc = "done" /\ NoRequest.pc = "idle"
  /\ NoRequest.row = NoRow /\ NoRequest.read = {} /\ NoRequest.owned = {}
  /\ NoRequest.team = None /\ NoRequest.target = None
  BY DEF NoRequest, Done, RequestRecords, Stages

\* A request that begins is what was called, with its kind and its first stage.
LEMMA Begun ==
  ASSUME TypeOK, NEW q \in Requests, NEW kind \in Kinds, NEW pc \in Stages,
         NEW call \in RequestRecords, Begin(q, kind, pc, call)
  PROVE  /\ request' \in [Requests -> RequestRecords]
         /\ \A p \in Requests \ {q} : request'[p] = request[p]
         /\ request'[q].kind = kind /\ request'[q].pc = pc
         /\ request'[q].actor = call.actor /\ request'[q].target = call.target
         /\ request'[q].team = call.team /\ request'[q].role = call.role
         /\ request'[q].entity = call.entity /\ request'[q].row = call.row
         /\ request'[q].read = call.read /\ request'[q].owned = call.owned
<1>1. PICK r : r = [call EXCEPT !.kind = kind, !.pc = pc]
  OBVIOUS
<1>2. /\ r \in RequestRecords
      /\ r.kind = kind /\ r.pc = pc
      /\ r.actor = call.actor /\ r.target = call.target
      /\ r.team = call.team /\ r.role = call.role
      /\ r.entity = call.entity /\ r.row = call.row
      /\ r.read = call.read /\ r.owned = call.owned
  BY <1>1 DEF RequestRecords
<1>3. request' = [request EXCEPT ![q] = r]
  BY <1>1 DEF Begin
<1> QED
  BY <1>2, <1>3 DEF TypeOK

LEMMA Gone ==
  ASSUME TypeOK, NEW q \in Requests, End(q)
  PROVE  /\ request' \in [Requests -> RequestRecords]
         /\ \A p \in Requests \ {q} : request'[p] = request[p]
         /\ request'[q] = Done /\ request'[q].pc = "done"
  BY RecordTypes DEF End, TypeOK

LEMMA Went ==
  ASSUME TypeOK, NEW q \in Requests, NEW pc \in Stages, Goto(q, pc)
  PROVE  /\ request' \in [Requests -> RequestRecords]
         /\ \A p \in Requests \ {q} : request'[p] = request[p]
         /\ request'[q].pc = pc /\ request'[q].kind = request[q].kind
         /\ request'[q].actor = request[q].actor /\ request'[q].target = request[q].target
         /\ request'[q].team = request[q].team /\ request'[q].role = request[q].role
         /\ request'[q].entity = request[q].entity /\ request'[q].row = request[q].row
         /\ request'[q].read = request[q].read /\ request'[q].owned = request[q].owned
<1>1. request[q] \in RequestRecords
  BY DEF TypeOK
<1> QED
  BY <1>1 DEF Goto, TypeOK, RequestRecords

-----------------------------------------------------------------------------
(* What a step of a request does to it *)

\* Where a request starts.
First(r) ==
  /\ r.pc \notin {"idle", "done", "rank", "teams"}
  /\ r.pc = "act" => r.kind \notin {"join", "add", "role", "remove", "erase"}
  /\ r.row = NoRow /\ r.read = {} /\ r.owned = {}

LEMMA Called ==
  ASSUME TypeOK, NEW u \in user, NEW v \in Users \cup {None}, NEW t \in Teams \cup {None},
         NEW r \in TeamRoles \cup {None}, NEW e \in Entities \cup {None}
  PROVE  /\ Call(u, v, t, r, e) \in RequestRecords
         /\ Call(u, v, t, r, e).actor = u /\ Call(u, v, t, r, e).target = v
         /\ Call(u, v, t, r, e).team = t /\ Call(u, v, t, r, e).role = r
         /\ Call(u, v, t, r, e).entity = e /\ Call(u, v, t, r, e).row = NoRow
         /\ Call(u, v, t, r, e).read = {} /\ Call(u, v, t, r, e).owned = {}
<1>1. u \in Users
  BY DEF TypeOK
<1>2. PICK n : n = NoRequest
  OBVIOUS
<1>3. n \in RequestRecords /\ n.row = NoRow /\ n.read = {} /\ n.owned = {}
  BY <1>2, RecordTypes
<1>4. PICK c : c = [n EXCEPT !.actor = u, !.target = v, !.team = t, !.role = r, !.entity = e]
  OBVIOUS
<1>5. /\ c \in RequestRecords
      /\ c.actor = u /\ c.target = v /\ c.team = t /\ c.role = r /\ c.entity = e
      /\ c.row = NoRow /\ c.read = {} /\ c.owned = {}
  BY <1>1, <1>3, <1>4 DEF RequestRecords
<1>6. Call(u, v, t, r, e) = c
  BY <1>2, <1>4 DEF Call
<1> QED
  BY <1>5, <1>6

\* A call: the request was idle, and the tables stay as they are.
Arrival(q) ==
  /\ request[q].pc = "idle"
  /\ request' \in [Requests -> RequestRecords]
  /\ \A p \in Requests \ {q} : request'[p] = request[p]
  /\ Proper(request'[q]) /\ First(request'[q])
  /\ before' = [before EXCEPT ![q] = {p \in Requests : request[p].pc = "done"}]
  /\ UNCHANGED <<cloud, tables, past>>

\* What a handler has to start with.
Sound(kind, pc, v, t, r, e) ==
  /\ kind \in Kinds /\ pc \in Stages \ {"idle", "done", "rank", "teams"}
  /\ v \in Users \cup {None} /\ t \in Teams \cup {None} /\ r \in TeamRoles \cup {None}
  /\ e \in Entities \cup {None}
  /\ pc = "act" => kind \notin {"join", "add", "role", "remove", "erase"}
  /\ pc = "permit" => kind \notin {"join", "found", "erase"}
  /\ kind \in MemberKinds => t \in KnownTeams /\ v \in Users
  /\ kind \in {"join", "add", "role"} => r \in TeamRoles \ {"owner"}
  /\ kind \in {"found", "erase"} => v \in Users
  /\ kind = "dissolve" => t \in Teams
  /\ kind = "create" => t \in Teams \/ (t = None /\ v \in Users)
  /\ kind = "toUser" => v \in Users /\ e \in Entities
  /\ kind = "toTeam" => t \in Teams /\ e \in Entities

LEMMA BegunSound ==
  ASSUME TypeOK, NEW q \in Requests, NEW u \in user, NEW kind, NEW pc, NEW v, NEW t, NEW r, NEW e,
         Sound(kind, pc, v, t, r, e), Begin(q, kind, pc, Call(u, v, t, r, e))
  PROVE  Arrival(q)
<1>1. PICK c : c = Call(u, v, t, r, e)
  OBVIOUS
<1>2. /\ c \in RequestRecords
      /\ c.actor = u /\ c.target = v /\ c.team = t /\ c.role = r /\ c.entity = e
      /\ c.row = NoRow /\ c.read = {} /\ c.owned = {}
  <2>1. /\ v \in Users \cup {None} /\ t \in Teams \cup {None}
        /\ r \in TeamRoles \cup {None} /\ e \in Entities \cup {None}
    BY DEF Sound
  <2> QED
    BY <1>1, <2>1, Called
<1>3. Begin(q, kind, pc, c) /\ kind \in Kinds /\ pc \in Stages
  BY <1>1 DEF Sound
<1>4. /\ request' \in [Requests -> RequestRecords]
      /\ \A p \in Requests \ {q} : request'[p] = request[p]
      /\ request'[q].kind = kind /\ request'[q].pc = pc
      /\ request'[q].actor = u /\ request'[q].target = v
      /\ request'[q].team = t /\ request'[q].role = r
      /\ request'[q].entity = e /\ request'[q].row = NoRow
      /\ request'[q].read = {} /\ request'[q].owned = {}
  BY <1>2, <1>3, Begun
<1>5. u \in Users
  BY DEF TypeOK
<1>6. Proper(request'[q]) /\ First(request'[q])
  BY <1>4, <1>5 DEF Sound, Proper, First, KnownTeams
<1> QED
  BY <1>3, <1>4, <1>6 DEF Begin, Arrival

LEMMA Arrived ==
  ASSUME TypeOK, NEW q \in Requests, Arrive(q)
  PROVE  Arrival(q)
<1>0. /\ user \subseteq Users /\ KnownTeams \subseteq Teams /\ KnownWebsites \subseteq Entities
      /\ Roles \subseteq TeamRoles \ {"owner"} /\ "member" \in TeamRoles \ {"owner"}
  BY TeamsAssumption, RankType DEF TypeOK, KnownTeams, KnownWebsites
<1> USE DEF Kinds, Stages, MemberKinds
<1>1. ASSUME Join(q) PROVE Arrival(q)
  <2>1. PICK u \in user, t \in KnownTeams :
          Begin(q, "join", "find", Call(u, u, t, "member", None))
    BY <1>1 DEF Join
  <2>2. Sound("join", "find", u, t, "member", None)
    BY <1>0, <2>1 DEF Sound
  <2> QED
    BY <2>1, <2>2, BegunSound
<1>2. ASSUME AddMember(q) PROVE Arrival(q)
  <2>1. PICK u \in user, v \in Users, t \in KnownTeams, r \in Roles, pc \in {"target", "permit"} :
          Begin(q, "add", pc, Call(u, v, t, r, None))
    BY <1>2 DEF AddMember
  <2>2. Sound("add", pc, v, t, r, None)
    BY <1>0, <2>1 DEF Sound
  <2> QED
    BY <2>1, <2>2, BegunSound
<1>3. ASSUME ChangeRole(q) PROVE Arrival(q)
  <2>1. PICK u \in user, v \in Users, t \in KnownTeams, r \in Roles, pc \in {"target", "permit"} :
          Begin(q, "role", pc, Call(u, v, t, r, None))
    BY <1>3 DEF ChangeRole
  <2>2. Sound("role", pc, v, t, r, None)
    BY <1>0, <2>1 DEF Sound
  <2> QED
    BY <2>1, <2>2, BegunSound
<1>4. ASSUME RemoveMember(q) PROVE Arrival(q)
  <2>1. PICK u \in user, v \in Users, t \in KnownTeams, pc \in {"target", "permit"} :
          Begin(q, "remove", pc, Call(u, v, t, None, None))
    BY <1>4 DEF RemoveMember
  <2>2. Sound("remove", pc, v, t, None, None)
    BY <1>0, <2>1 DEF Sound
  <2> QED
    BY <2>1, <2>2, BegunSound
<1>5. ASSUME FoundTeam(q) PROVE Arrival(q)
  <2>1. PICK u \in user, v \in Users : Begin(q, "found", "act", Call(u, v, None, None, None))
    BY <1>5 DEF FoundTeam
  <2>2. Sound("found", "act", v, None, None, None)
    BY <1>0, <2>1 DEF Sound
  <2> QED
    BY <2>1, <2>2, BegunSound
<1>6. ASSUME DissolveTeam(q) PROVE Arrival(q)
  <2>1. PICK u \in user, t \in KnownTeams, pc \in {"act", "permit"} :
          Begin(q, "dissolve", pc, Call(u, None, t, None, None))
    BY <1>6 DEF DissolveTeam
  <2>2. Sound("dissolve", pc, None, t, None, None)
    BY <1>0, <2>1 DEF Sound
  <2> QED
    BY <2>1, <2>2, BegunSound
<1>7. ASSUME EraseUser(q) PROVE Arrival(q)
  <2>1. PICK u \in user, v \in Users : Begin(q, "erase", "websites", Call(u, v, None, None, None))
    BY <1>7 DEF EraseUser
  <2>2. Sound("erase", "websites", v, None, None, None)
    BY <1>0, <2>1 DEF Sound
  <2> QED
    BY <2>1, <2>2, BegunSound
<1>8. ASSUME Create(q) PROVE Arrival(q)
  <2>1. PICK u \in user :
          \/ Begin(q, "create", "act", Call(u, u, None, None, None))
          \/ \E t \in KnownTeams, pc \in {"act", "permit"} :
               Begin(q, "create", pc, Call(u, None, t, None, None))
    BY <1>8 DEF Create
  <2>2. CASE Begin(q, "create", "act", Call(u, u, None, None, None))
    <3>1. Sound("create", "act", u, None, None, None)
      BY <1>0, <2>1 DEF Sound
    <3> QED
      BY <2>1, <2>2, <3>1, BegunSound
  <2>3. ASSUME NEW t \in KnownTeams, NEW pc \in {"act", "permit"},
               Begin(q, "create", pc, Call(u, None, t, None, None))
        PROVE  Arrival(q)
    <3>1. Sound("create", pc, None, t, None, None)
      BY <1>0, <2>1 DEF Sound
    <3> QED
      BY <2>1, <2>3, <3>1, BegunSound
  <2> QED
    BY <2>1, <2>2, <2>3
<1>9. ASSUME TransferToUser(q) PROVE Arrival(q)
  <2>1. PICK u \in user, v \in Users, e \in KnownWebsites, pc \in {"act", "website"} :
          Begin(q, "toUser", pc, Call(u, v, None, None, e))
    BY <1>9 DEF TransferToUser
  <2>2. Sound("toUser", pc, v, None, None, e)
    BY <1>0, <2>1 DEF Sound
  <2> QED
    BY <2>1, <2>2, BegunSound
<1>10. ASSUME TransferToTeam(q) PROVE Arrival(q)
  <2>1. PICK u \in user, t \in KnownTeams, e \in KnownWebsites, pc \in {"act", "website"} :
          Begin(q, "toTeam", pc, Call(u, None, t, None, e))
    BY <1>10 DEF TransferToTeam
  <2>2. Sound("toTeam", pc, None, t, None, e)
    BY <1>0, <2>1 DEF Sound
  <2> QED
    BY <2>1, <2>2, BegunSound
<1> QED
  BY <1>1, <1>2, <1>3, <1>4, <1>5, <1>6, <1>7, <1>8, <1>9, <1>10 DEF Arrive

\* A check: it ends the request or goes on, and the tables stay as they are.
Checking(q) ==
  /\ Open(q)
  /\ request' \in [Requests -> RequestRecords]
  /\ \A p \in Requests \ {q} : request'[p] = request[p]
  /\ UNCHANGED <<cloud, tables, before, past>>
  /\ \/ request'[q] = Done
     \/ /\ request'[q].pc \notin {"idle", "done"}
        /\ request'[q].kind = request[q].kind
        /\ request'[q].actor = request[q].actor /\ request'[q].target = request[q].target
        /\ request'[q].role = request[q].role /\ request'[q].entity = request[q].entity
        /\ \/ request'[q].team = request[q].team
           \/ request[q].kind = "toUser" /\ request'[q].team \in Teams
        /\ request'[q].row = request[q].row \/ ReadMember(q)
        /\ request'[q].read = request[q].read \/ ReadWebsites(q)
        /\ request'[q].owned = request[q].owned \/ ReadTeams(q)
        /\ request'[q].pc = "permit" => request[q].kind \in {"toUser", "toTeam"}
        /\ request'[q].pc = "rank" => ReadMember(q)
        /\ request'[q].pc = "teams" => ReadWebsites(q)
        /\ request'[q].pc = "act" =>
             \/ ReadNewMember(q) \/ ReadMember(q) \/ CheckRank(q) \/ ReadTeams(q)
             \/ request[q].kind \notin {"join", "add", "role", "remove", "erase"}

LEMMA WentOn ==
  ASSUME TypeOK, NEW q \in Requests, NEW pc \in Stages \ {"idle", "done", "permit", "rank", "teams"},
         Open(q), Goto(q, pc) \/ End(q), UNCHANGED <<cloud, tables, before, past>>,
         pc = "act" => \/ ReadNewMember(q) \/ CheckRank(q)
                       \/ request[q].kind \notin {"join", "add", "role", "remove", "erase"}
  PROVE  Checking(q)
<1>1. CASE End(q)
  BY <1>1, Gone DEF Checking
<1>2. CASE Goto(q, pc)
  BY <1>2, Went DEF Checking
<1> QED
  BY <1>1, <1>2

LEMMA Checked ==
  ASSUME TypeOK, CallShape, NEW q \in Requests, Check(q)
  PROVE  Checking(q)
<1>0. request[q] \in RequestRecords
  BY DEF TypeOK
<1>1. CASE FindTeam(q)
  <2>1. /\ Goto(q, "target") \/ End(q)
        /\ UNCHANGED <<cloud, tables, before, past>> /\ Open(q)
    BY <1>1 DEF FindTeam, At, Open
  <2> QED
    BY <2>1, WentOn DEF Stages
<1>2. CASE ReadWebsite(q)
  <2>1. PICK o : o = entity[request[q].entity].owner
    OBVIOUS
  <2>2. \/ o \in Teams /\ request[q].kind = "toUser"
           /\ request' = [request EXCEPT ![q].pc = "permit", ![q].team = o]
        \/ Goto(q, "permit")
        \/ End(q)
    BY <1>2, <2>1 DEF ReadWebsite
  <2>3. /\ UNCHANGED <<cloud, tables, before, past>> /\ Open(q)
        /\ request[q].kind \in {"toUser", "toTeam"}
    BY <1>2 DEF ReadWebsite, At, Open
  <2>4. CASE /\ o \in Teams /\ request[q].kind = "toUser"
             /\ request' = [request EXCEPT ![q].pc = "permit", ![q].team = o]
    <3>1. PICK r : r = [request[q] EXCEPT !.pc = "permit", !.team = o]
      OBVIOUS
    <3>2. /\ r \in RequestRecords
          /\ r.kind = request[q].kind /\ r.pc = "permit"
          /\ r.actor = request[q].actor /\ r.target = request[q].target
          /\ r.team = o /\ r.role = request[q].role
          /\ r.entity = request[q].entity /\ r.row = request[q].row
          /\ r.read = request[q].read /\ r.owned = request[q].owned
      BY <1>0, <2>4, <3>1 DEF RequestRecords, Stages
    <3>3. request' = [request EXCEPT ![q] = r]
      BY <2>4, <3>1
    <3>4. /\ request' \in [Requests -> RequestRecords] /\ request'[q] = r
          /\ \A p \in Requests \ {q} : request'[p] = request[p]
      BY <3>2, <3>3 DEF TypeOK
    <3> QED
      BY <2>3, <2>4, <3>2, <3>4 DEF Checking
  <2>5. CASE Goto(q, "permit")
    BY <2>3, <2>5, Went DEF Checking, Stages
  <2>6. CASE End(q)
    BY <2>3, <2>6, Gone DEF Checking
  <2> QED
    BY <2>2, <2>4, <2>5, <2>6
<1>3. CASE Permit(q)
  <2>1. PICK pc \in {"target", "act"} :
          /\ pc = IF request[q].kind \in {"add", "role", "remove"} THEN "target" ELSE "act"
          /\ Goto(q, pc) \/ End(q)
    BY <1>3 DEF Permit
  <2>2. UNCHANGED <<cloud, tables, before, past>> /\ Open(q) /\ request[q].pc = "permit"
    BY <1>3 DEF Permit, Open
  <2>3. request[q].kind \notin {"join", "erase"}
    BY <2>2 DEF CallShape, Proper
  <2> QED
    BY <2>1, <2>2, <2>3, WentOn DEF Stages
<1>4. CASE ReadNewMember(q)
  <2>1. /\ Goto(q, "act") \/ End(q)
        /\ UNCHANGED <<cloud, tables, before, past>> /\ Open(q)
    BY <1>4 DEF ReadNewMember, At, Open
  <2> QED
    BY <1>4, <2>1, WentOn DEF Stages
<1>5. CASE ReadMember(q)
  <2>1. PICK row \in Found(request[q].team, request[q].target), pc \in {"act", "rank"} :
          \/ End(q)
          \/ row # NoRow /\ request' = [request EXCEPT ![q].row = row, ![q].pc = pc]
    BY <1>5 DEF ReadMember
  <2>2. UNCHANGED <<cloud, tables, before, past>> /\ Open(q)
    BY <1>5 DEF ReadMember, At, Open
  <2>3. CASE row # NoRow /\ request' = [request EXCEPT ![q].row = row, ![q].pc = pc]
    <3>0. row \in Rows
      BY <2>1, <2>3 DEF Found, RowsOf, TypeOK
    <3>1. PICK r : r = [request[q] EXCEPT !.row = row, !.pc = pc]
      OBVIOUS
    <3>2. /\ r \in RequestRecords
          /\ r.kind = request[q].kind /\ r.pc = pc
          /\ r.actor = request[q].actor /\ r.target = request[q].target
          /\ r.team = request[q].team /\ r.role = request[q].role
          /\ r.entity = request[q].entity
          /\ r.read = request[q].read /\ r.owned = request[q].owned
      BY <1>0, <3>0, <3>1 DEF RequestRecords, Stages
    <3>3. request' = [request EXCEPT ![q] = r]
      BY <2>3, <3>1
    <3>4. /\ request' \in [Requests -> RequestRecords] /\ request'[q] = r
          /\ \A p \in Requests \ {q} : request'[p] = request[p]
      BY <3>2, <3>3 DEF TypeOK
    <3> QED
      BY <1>5, <2>2, <3>2, <3>4 DEF Checking
  <2>4. CASE End(q)
    BY <2>2, <2>4, Gone DEF Checking
  <2> QED
    BY <2>1, <2>3, <2>4
<1>6. CASE CheckRank(q)
  <2>1. /\ Goto(q, "act") \/ End(q)
        /\ UNCHANGED <<cloud, tables, before, past>> /\ Open(q)
    BY <1>6 DEF CheckRank, At, Open
  <2> QED
    BY <1>6, <2>1, WentOn DEF Stages
<1>7. CASE ReadWebsites(q)
  <2>1. PICK es \in SUBSET Entities :
          request' = [request EXCEPT ![q].pc = "teams", ![q].read = es]
    BY <1>7, TeamsAssumption DEF ReadWebsites
  <2>2. UNCHANGED <<cloud, tables, before, past>> /\ Open(q)
    BY <1>7 DEF ReadWebsites, At, Open
  <2>3. PICK r : r = [request[q] EXCEPT !.pc = "teams", !.read = es]
    OBVIOUS
  <2>4. /\ r \in RequestRecords
        /\ r.kind = request[q].kind /\ r.pc = "teams"
        /\ r.actor = request[q].actor /\ r.target = request[q].target
        /\ r.team = request[q].team /\ r.role = request[q].role
        /\ r.entity = request[q].entity /\ r.row = request[q].row
        /\ r.owned = request[q].owned
    BY <1>0, <2>1, <2>3 DEF RequestRecords, Stages
  <2>5. request' = [request EXCEPT ![q] = r]
    BY <2>1, <2>3
  <2>6. /\ request' \in [Requests -> RequestRecords] /\ request'[q] = r
        /\ \A p \in Requests \ {q} : request'[p] = request[p]
    BY <2>4, <2>5 DEF TypeOK
  <2> QED
    BY <1>7, <2>2, <2>4, <2>6 DEF Checking
<1>8. CASE ReadTeams(q)
  <2>1. PICK ts \in SUBSET Teams :
          request' = [request EXCEPT ![q].pc = "act", ![q].owned = ts]
    BY <1>8 DEF ReadTeams, TeamsOwnedBy
  <2>2. UNCHANGED <<cloud, tables, before, past>> /\ Open(q)
    BY <1>8 DEF ReadTeams, At, Open
  <2>3. PICK r : r = [request[q] EXCEPT !.pc = "act", !.owned = ts]
    OBVIOUS
  <2>4. /\ r \in RequestRecords
        /\ r.kind = request[q].kind /\ r.pc = "act"
        /\ r.actor = request[q].actor /\ r.target = request[q].target
        /\ r.team = request[q].team /\ r.role = request[q].role
        /\ r.entity = request[q].entity /\ r.row = request[q].row
        /\ r.read = request[q].read
    BY <1>0, <2>1, <2>3 DEF RequestRecords, Stages
  <2>5. request' = [request EXCEPT ![q] = r]
    BY <2>1, <2>3
  <2>6. /\ request' \in [Requests -> RequestRecords] /\ request'[q] = r
        /\ \A p \in Requests \ {q} : request'[p] = request[p]
    BY <2>4, <2>5 DEF TypeOK
  <2> QED
    BY <1>8, <2>2, <2>4, <2>6 DEF Checking
<1> QED
  BY <1>1, <1>2, <1>3, <1>4, <1>5, <1>6, <1>7, <1>8 DEF Check

\* An act ends its request.
Acting(q) ==
  /\ request[q].pc = "act"
  /\ request' \in [Requests -> RequestRecords]
  /\ \A p \in Requests \ {q} : request'[p] = request[p]
  /\ request'[q] = Done /\ request'[q].pc = "done"
  /\ UNCHANGED <<cloud, before>>

LEMMA Acted ==
  ASSUME TypeOK, NEW q \in Requests, Act(q)
  PROVE  Acting(q)
<1>1. request[q].pc = "act" /\ End(q) /\ UNCHANGED <<cloud, before>>
  BY DEF Act, InsertMember, UpdateMember, DeleteMember, CreateTeam, DeleteTeam, DeleteUser,
     CreateEntity, Transfer, At
<1> QED
  BY <1>1, Gone DEF Acting

-----------------------------------------------------------------------------
(* Types *)

LEMMA MaxOf ==
  ASSUME NEW h \in -1..3, NEW R \in SUBSET (0..3)
  PROVE  /\ Max({h} \cup R) \in -1..3 /\ h <= Max({h} \cup R)
         /\ \A x \in R : x <= Max({h} \cup R)
<1>1. PICK S : S = {h} \cup R
  OBVIOUS
<1>2. S \subseteq -1..3
  BY <1>1
<1>3. \E x \in S : \A y \in S : x >= y
  <2>1. CASE 3 \in S
    BY <1>2, <2>1
  <2>2. CASE 3 \notin S /\ 2 \in S
    BY <1>2, <2>2
  <2>3. CASE 3 \notin S /\ 2 \notin S /\ 1 \in S
    BY <1>2, <2>3
  <2>4. CASE 3 \notin S /\ 2 \notin S /\ 1 \notin S /\ 0 \in S
    BY <1>2, <2>4
  <2>5. CASE 3 \notin S /\ 2 \notin S /\ 1 \notin S /\ 0 \notin S
    BY <1>1, <1>2, <2>5
  <2> QED
    BY <2>1, <2>2, <2>3, <2>4, <2>5
<1>4. Max(S) \in S /\ \A y \in S : Max(S) >= y
  BY <1>3 DEF Max
<1> QED
  BY <1>1, <1>2, <1>4

LEMMA MinOf ==
  ASSUME NEW h \in 0..4, NEW R \in SUBSET (0..3)
  PROVE  /\ Min({h} \cup R) \in 0..4 /\ Min({h} \cup R) <= h
         /\ \A x \in R : Min({h} \cup R) <= x
<1>1. PICK S : S = {h} \cup R
  OBVIOUS
<1>2. S \subseteq 0..4
  BY <1>1
<1>3. \E x \in S : \A y \in S : x =< y
  <2>1. CASE 0 \in S
    BY <1>2, <2>1
  <2>2. CASE 0 \notin S /\ 1 \in S
    BY <1>2, <2>2
  <2>3. CASE 0 \notin S /\ 1 \notin S /\ 2 \in S
    BY <1>2, <2>3
  <2>4. CASE 0 \notin S /\ 1 \notin S /\ 2 \notin S /\ 3 \in S
    BY <1>2, <2>4
  <2>5. CASE 0 \notin S /\ 1 \notin S /\ 2 \notin S /\ 3 \notin S
    BY <1>1, <1>2, <2>5
  <2> QED
    BY <2>1, <2>2, <2>3, <2>4, <2>5
<1>4. Min(S) \in S /\ \A y \in S : Min(S) =< y
  BY <1>3 DEF Min
<1> QED
  BY <1>1, <1>2, <1>4

EntityRecords == [is : {"unborn", "there", "gone"}, owner : Users \cup Teams \cup {None}]

LEMMA RemovedType ==
  ASSUME TypeOK, NEW es
  PROVE  /\ Removed(es) \in [Entities -> EntityRecords]
         /\ \A e \in Entities :
              /\ Removed(es)[e].owner = entity[e].owner
              /\ Removed(es)[e].is = IF e \in es THEN "gone" ELSE entity[e].is
<1>1. ASSUME NEW e \in Entities
      PROVE  /\ [entity[e] EXCEPT !.is = "gone"] \in EntityRecords
             /\ [entity[e] EXCEPT !.is = "gone"].owner = entity[e].owner
             /\ [entity[e] EXCEPT !.is = "gone"].is = "gone"
             /\ entity[e] \in EntityRecords
  <2>1. entity[e] \in EntityRecords
    BY DEF TypeOK, EntityRecords
  <2> QED
    BY <2>1 DEF EntityRecords
<1> QED
  BY <1>1 DEF Removed

LEMMA GivenType ==
  ASSUME TypeOK, NEW q \in Requests, NEW e \in Entities, NEW owner \in Users \cup Teams,
         Give(q, e, owner)
  PROVE  /\ entity' \in [Entities -> EntityRecords]
         /\ entity'[e].owner = owner /\ entity'[e].is # "unborn"
         /\ entity'[e].is = "there" => entity[e].is # "gone"
         /\ \A x \in Entities \ {e} : entity'[x] = entity[x]
         /\ made' = [made EXCEPT ![e] = q]
         /\ made' \in [Teams \cup Entities -> Requests \cup {Start}]
<1>1. PICK b \in {"there", "gone"} : b = IF entity[e].is = "gone" THEN "gone" ELSE "there"
  OBVIOUS
<1>2. PICK r : r = [is |-> b, owner |-> owner]
  OBVIOUS
<1>3. r \in EntityRecords /\ r.owner = owner /\ r.is = b
  BY <1>2 DEF EntityRecords
<1>4. entity' = [entity EXCEPT ![e] = r]
  BY <1>1, <1>2 DEF Give
<1>5. entity \in [Entities -> EntityRecords]
  BY DEF TypeOK, EntityRecords
<1>6. made' = [made EXCEPT ![e] = q]
  BY DEF Give
<1> QED
  BY <1>1, <1>3, <1>4, <1>5, <1>6 DEF TypeOK

\* The tables and the history that acts write.
Written ==
  /\ user \subseteq Users
  /\ team \in [Teams -> {"unborn", "live", "gone"}]
  /\ team_user \subseteq Rows
  /\ entity \in [Entities -> EntityRecords]
  /\ made \in [Teams \cup Entities -> Requests \cup {Start}]
  /\ ended \in [Users \cup Teams -> SUBSET Requests]
  /\ deposed \subseteq Teams

LEMMA RowType ==
  ASSUME NEW id \in Requests \cup {Start}, NEW t \in Teams, NEW u \in Users, NEW r \in TeamRoles
  PROVE  /\ [id |-> id, team |-> t, user |-> u, role |-> r] \in Rows
         /\ \A row \in Rows : /\ [row EXCEPT !.role = r] \in Rows
                              /\ [row EXCEPT !.role = r].id = row.id
                              /\ [row EXCEPT !.role = r].team = row.team
                              /\ [row EXCEPT !.role = r].user = row.user
                              /\ [row EXCEPT !.role = r].role = r
  BY DEF Rows

LEMMA WrittenStep ==
  ASSUME TypeOK, CallShape, MemberRead, NEW q \in Requests, Act(q)
  PROVE  Written'
<1>0. Written /\ request[q] \in RequestRecords
  BY DEF Written, TypeOK, EntityRecords
<1>1. CASE InsertMember(q)
  <2>1. PICK r : r = request[q]
    OBVIOUS
  <2>2. r.team \in Teams /\ r.target \in Users /\ r.role \in TeamRoles
    BY <1>1, <2>1 DEF InsertMember, At, CallShape, Proper, Open, MemberKinds
  <2>3. [id |-> q, team |-> r.team, user |-> r.target, role |-> r.role] \in Rows
    BY <2>2, RowType
  <2>4. team_user' = team_user \cup
          {[id |-> q, team |-> r.team, user |-> r.target, role |-> r.role]}
    BY <1>1, <2>1 DEF InsertMember
  <2>5. team_user' \subseteq Rows
    BY <1>0, <2>3, <2>4 DEF Written
  <2> QED
    BY <1>0, <1>1, <2>5 DEF InsertMember, Written, past
<1>2. ASSUME NEW row, Deposes(q, row), row \in Rows
      PROVE  deposed' \subseteq Teams
  BY <1>0, <1>2 DEF Deposes, Rows, Written
<1>3. CASE UpdateMember(q)
  <2>1. /\ request[q].kind = "role" /\ request[q].pc = "act"
        /\ Deposes(q, request[q].row)
        /\ UNCHANGED <<user, team, entity, made, ended>>
    BY <1>3 DEF UpdateMember, At
  <2>2. request[q].row \in Rows /\ request[q].role \in TeamRoles
    BY <2>1 DEF MemberRead, CallShape, Proper, Open
  <2>3. PICK S \in SUBSET team_user :
          team_user' = (team_user \ S) \cup {[row EXCEPT !.role = request[q].role] : row \in S}
    BY <1>3 DEF UpdateMember
  <2>4. team_user' \subseteq Rows
    <3>1. \A row \in Rows : [row EXCEPT !.role = request[q].role] \in Rows
      BY <2>2 DEF Rows
    <3> QED
      BY <1>0, <2>3, <3>1 DEF Written
  <2> QED
    BY <1>0, <1>2, <2>1, <2>2, <2>4 DEF Written
<1>4. CASE DeleteMember(q)
  <2>1. /\ request[q].kind = "remove" /\ request[q].pc = "act"
        /\ Deposes(q, request[q].row)
        /\ UNCHANGED <<user, team, entity, made, ended>>
        /\ team_user' \subseteq team_user
    BY <1>4 DEF DeleteMember, At
  <2>2. request[q].row \in Rows
    BY <2>1 DEF MemberRead
  <2> QED
    BY <1>0, <1>2, <2>1, <2>2 DEF Written
<1>5. CASE CreateTeam(q)
  <2>1. PICK t \in Teams :
          /\ team' = [team EXCEPT ![t] = "live"]
          /\ team_user' = team_user \cup
               {[id |-> q, team |-> t, user |-> request[q].target, role |-> "owner"]}
          /\ made' = [made EXCEPT ![t] = q]
          /\ UNCHANGED <<user, entity, ended, deposed>>
          /\ request[q].kind = "found" /\ request[q].pc = "act"
    BY <1>5 DEF CreateTeam, At
  <2>2. request[q].target \in Users /\ "owner" \in TeamRoles
    BY <2>1, RankType DEF CallShape, Proper, Open
  <2>3. [id |-> q, team |-> t, user |-> request[q].target, role |-> "owner"] \in Rows
    BY <2>2, RowType
  <2>4. team_user' \subseteq Rows
    BY <1>0, <2>1, <2>3 DEF Written
  <2> QED
    BY <1>0, <2>1, <2>4 DEF Written
<1>6. CASE DeleteTeam(q)
  <2> DEFINE t == request[q].team
  <2>1. t \in Teams
    BY <1>6 DEF DeleteTeam, At, CallShape, Proper, Open
  <2>2. /\ team' \in {team, [team EXCEPT ![t] = "gone"]} /\ team_user' \subseteq team_user
        /\ ended' \in {ended, [ended EXCEPT ![t] = @ \cup {q}]}
        /\ UNCHANGED <<user, made, deposed>>
    BY <1>6 DEF DeleteTeam
  <2>3. PICK es : entity' \in {entity, Removed(es)}
    BY <1>6 DEF DeleteTeam
  <2>4. entity' \in [Entities -> EntityRecords]
    BY <1>0, <2>3, RemovedType DEF Written
  <2>5. team' \in [Teams -> {"unborn", "live", "gone"}]
    BY <1>0, <2>1, <2>2 DEF Written
  <2>6. ended' \in [Users \cup Teams -> SUBSET Requests]
    BY <1>0, <2>1, <2>2 DEF Written
  <2> QED
    BY <1>0, <2>2, <2>4, <2>5, <2>6 DEF Written
<1>7. CASE DeleteUser(q)
  <2>1. PICK X, gone, es :
          \/ /\ user' \subseteq user /\ team_user' \subseteq team_user
             /\ team' = [t \in Teams |-> IF t \in gone THEN "gone" ELSE team[t]]
             /\ ended' = [x \in DOMAIN ended |-> IF x \in X THEN ended[x] \cup {q} ELSE ended[x]]
             /\ entity' = Removed(es)
          \/ UNCHANGED <<tables, ended>>
    <3> DEFINE u == request[q].target
               teams == IF cloud THEN {} ELSE {t \in request[q].owned : team[t] = "live"}
               out == {e \in There : IF e \in Websites THEN e \in request[q].read
                                     ELSE GoesWith(q, e)}
               X == teams \cup ({u} \cap user)
    <3>1. CASE u \in user \/ cloud
      <4>1. /\ user' \subseteq user /\ team_user' \subseteq team_user
            /\ team' = [t \in Teams |-> IF t \in teams THEN "gone" ELSE team[t]]
            /\ entity' = Removed(out)
        BY <1>7, <3>1 DEF DeleteUser
      <4>2. ended' = [x \in DOMAIN ended |-> IF x \in X THEN ended[x] \cup {q} ELSE ended[x]]
        BY <1>7, <3>1 DEF DeleteUser
      <4> QED
        BY <4>1, <4>2
    <3>2. CASE ~(u \in user \/ cloud)
      BY <1>7, <3>2 DEF DeleteUser
    <3> QED
      BY <3>1, <3>2
  <2>2. UNCHANGED <<made, deposed>>
    BY <1>7 DEF DeleteUser
  <2>3. CASE UNCHANGED <<tables, ended>>
    BY <1>0, <2>2, <2>3 DEF Written, tables
  <2>4. CASE /\ user' \subseteq user /\ team_user' \subseteq team_user
             /\ team' = [t \in Teams |-> IF t \in gone THEN "gone" ELSE team[t]]
             /\ ended' = [x \in DOMAIN ended |-> IF x \in X THEN ended[x] \cup {q} ELSE ended[x]]
             /\ entity' = Removed(es)
    <3>1. entity' \in [Entities -> EntityRecords]
      BY <2>4, RemovedType
    <3>2. team' \in [Teams -> {"unborn", "live", "gone"}]
      BY <1>0, <2>4 DEF Written
    <3>3. ended' \in [Users \cup Teams -> SUBSET Requests]
      BY <1>0, <2>4 DEF Written
    <3> QED
      BY <1>0, <2>2, <2>4, <3>1, <3>2, <3>3 DEF Written
  <2> QED
    BY <2>1, <2>3, <2>4
<1>8. CASE CreateEntity(q)
  <2>1. PICK e \in Entities, o \in Users \cup Teams : Give(q, e, o)
    <3>1. PICK e \in Entities :
            Give(q, e, IF request[q].team = None THEN request[q].target ELSE request[q].team)
      BY <1>8 DEF CreateEntity
    <3>2. request[q].team \in Teams \/ (request[q].team = None /\ request[q].target \in Users)
      BY <1>8 DEF CreateEntity, At, CallShape, Proper, Open
    <3>3. (IF request[q].team = None THEN request[q].target ELSE request[q].team)
            \in Users \cup Teams
      <4>1. None \notin Teams
        BY TeamsAssumption
      <4> QED
        BY <3>2, <4>1
    <3> QED
      BY <3>1, <3>3
  <2>2. UNCHANGED <<user, team, team_user, ended, deposed>>
    BY <1>8 DEF CreateEntity
  <2> QED
    BY <1>0, <2>1, <2>2, GivenType DEF Written
<1>9. CASE Transfer(q)
  <2>1. UNCHANGED <<user, team, team_user, ended, deposed>>
    BY <1>9 DEF Transfer
  <2>2. CASE UNCHANGED <<entity, made>>
    BY <1>0, <2>1, <2>2 DEF Written
  <2>3. CASE ~UNCHANGED <<entity, made>>
    <3>1. PICK e, o : Give(q, e, o) /\ e = request[q].entity
                      /\ o = (IF request[q].kind = "toUser" THEN request[q].target
                              ELSE request[q].team)
      BY <1>9, <2>3 DEF Transfer
    <3>2. e \in Entities /\ o \in Users \cup Teams
      BY <1>9, <3>1 DEF Transfer, At, CallShape, Proper, Open
    <3> QED
      BY <1>0, <2>1, <3>1, <3>2, GivenType DEF Written
  <2> QED
    BY <2>2, <2>3
<1> QED
  BY <1>1, <1>3, <1>4, <1>5, <1>6, <1>7, <1>8, <1>9 DEF Act

SeenRecords == [high : -1..3, low : 0..4, owners : SUBSET (Users \cup Teams),
                held : SUBSET Entities]

\* The rows of a user in a team after a step.
RowsNext(t, u) == {row \in team_user' : row.team = t /\ row.user = u}

LEMMA RanksType ==
  ASSUME Written', NEW t, NEW u
  PROVE  /\ Ranks(t, u) \in SUBSET (0..3)
         /\ \A row \in RowsNext(t, u) : Rank[row.role] \in Ranks(t, u)
         /\ 3 \in Ranks(t, u) <=> \E row \in RowsNext(t, u) : row.role = "owner"
<1>1. \A row \in team_user' : row.role \in TeamRoles
  BY DEF Written, Rows
<1>2. \A row \in team_user' : Rank[row.role] \in 0..3 /\ (Rank[row.role] = 3 <=> row.role = "owner")
  BY <1>1, RankType
<1>3. Ranks(t, u) = {Rank[row.role] : row \in RowsNext(t, u)}
  BY DEF Ranks, RowsNext
<1>4. RowsNext(t, u) \subseteq team_user'
  BY DEF RowsNext
<1> QED
  BY <1>2, <1>3, <1>4

\* What the history of a request becomes.
LEMMA Witnessed ==
  ASSUME TypeOK, Written', request' \in [Requests -> RequestRecords], Witness,
         NEW q \in Requests
  PROVE  /\ seen' \in [Requests -> SeenRecords]
         /\ Pending(q) /\ request'[q].kind \in {"role", "remove"} =>
              LET r == request'[q]
              IN /\ seen[q].high <= seen'[q].high /\ seen'[q].low <= seen[q].low
                 /\ \A row \in RowsNext(r.team, r.actor) : Rank[row.role] <= seen'[q].high
                 /\ \A row \in RowsNext(r.team, r.target) : seen'[q].low <= Rank[row.role]
         /\ Pending(q) /\ request'[q].kind \in {"erase", "dissolve"} =>
              LET r == request'[q]
              IN /\ seen[q].owners \subseteq seen'[q].owners
                 /\ seen[q].held \subseteq seen'[q].held
                 /\ {r.target, r.team} \ {None} \subseteq seen'[q].owners
                 /\ \A t \in Teams : \A row \in RowsNext(t, r.target) :
                      row.role = "owner" => t \in seen'[q].owners
                 /\ \A e \in Entities :
                      entity'[e].owner \in seen'[q].owners => e \in seen'[q].held
<1> DEFINE Roles2(p) == Pending(p) /\ request'[p].kind \in {"role", "remove"}
           Goes(p) == Pending(p) /\ request'[p].kind \in {"erase", "dissolve"}
           hi(p) == Max({seen[p].high} \cup Ranks(request'[p].team, request'[p].actor))
           lo(p) == Min({seen[p].low} \cup Ranks(request'[p].team, request'[p].target))
           ow(p) == seen[p].owners \cup ({request'[p].target, request'[p].team} \ {None})
                      \cup {t \in Teams : 3 \in Ranks(t, request'[p].target)}
           he(p) == seen[p].held \cup {e \in Entities : entity'[e].owner \in ow(p)}
<1>1. NothingSeen \in SeenRecords
  BY DEF NothingSeen, SeenRecords
<1>2. ASSUME NEW p \in Requests
      PROVE  /\ hi(p) \in -1..3 /\ lo(p) \in 0..4
             /\ ow(p) \in SUBSET (Users \cup Teams) /\ he(p) \in SUBSET Entities
             /\ seen[p] \in SeenRecords
  <2>1. seen[p] \in SeenRecords
    BY DEF TypeOK, SeenRecords
  <2>2. /\ Ranks(request'[p].team, request'[p].actor) \in SUBSET (0..3)
        /\ Ranks(request'[p].team, request'[p].target) \in SUBSET (0..3)
    BY RanksType
  <2>3. seen[p].high \in -1..3 /\ seen[p].low \in 0..4
        /\ seen[p].owners \subseteq Users \cup Teams /\ seen[p].held \subseteq Entities
    BY <2>1 DEF SeenRecords
  <2>4. hi(p) \in -1..3
    BY <2>2, <2>3, MaxOf
  <2>5. lo(p) \in 0..4
    BY <2>2, <2>3, MinOf
  <2>6. request'[p].target \in Users \cup {None} /\ request'[p].team \in Teams \cup {None}
    BY DEF RequestRecords
  <2> QED
    BY <2>1, <2>3, <2>4, <2>5, <2>6
<1>3. ASSUME NEW p \in Requests, Roles2(p)
      PROVE  seen'[p] = [seen[p] EXCEPT !.high = hi(p), !.low = lo(p)]
  BY <1>3 DEF Witness
<1>4. ASSUME NEW p \in Requests, Goes(p)
      PROVE  seen'[p] = [seen[p] EXCEPT !.owners = ow(p), !.held = he(p)]
  BY <1>4 DEF Witness
<1>5. ASSUME NEW p \in Requests, ~Roles2(p), ~Goes(p)
      PROVE  seen'[p] = NothingSeen
  BY <1>5 DEF Witness
<1> HIDE DEF Roles2, Goes, hi, lo, ow, he
<1>6. ASSUME NEW p \in Requests, Roles2(p)
      PROVE  seen'[p] \in SeenRecords /\ seen'[p].high = hi(p) /\ seen'[p].low = lo(p)
  BY <1>2, <1>3, <1>6 DEF SeenRecords
<1>7. ASSUME NEW p \in Requests, Goes(p)
      PROVE  seen'[p] \in SeenRecords /\ seen'[p].owners = ow(p) /\ seen'[p].held = he(p)
  BY <1>2, <1>4, <1>7 DEF SeenRecords
<1>8. seen' \in [Requests -> SeenRecords]
  <2>1. \A p \in Requests : seen'[p] \in SeenRecords
    BY <1>1, <1>5, <1>6, <1>7
  <2>2. seen' = [p \in Requests |-> seen'[p]]
    BY DEF Witness
  <2> QED
    BY <2>1, <2>2
<1>9. ASSUME Roles2(q)
      PROVE  LET r == request'[q]
             IN /\ seen[q].high <= seen'[q].high /\ seen'[q].low <= seen[q].low
                /\ \A row \in RowsNext(r.team, r.actor) : Rank[row.role] <= seen'[q].high
                /\ \A row \in RowsNext(r.team, r.target) : seen'[q].low <= Rank[row.role]
  <2>1. PICK t, a, u : t = request'[q].team /\ a = request'[q].actor /\ u = request'[q].target
    OBVIOUS
  <2>2. /\ hi(q) = Max({seen[q].high} \cup Ranks(t, a))
        /\ lo(q) = Min({seen[q].low} \cup Ranks(t, u))
    BY <2>1 DEF hi, lo
  <2>3. Ranks(t, a) \in SUBSET (0..3) /\ Ranks(t, u) \in SUBSET (0..3)
    BY RanksType
  <2>4. seen[q].high \in -1..3 /\ seen[q].low \in 0..4
    BY <1>2 DEF SeenRecords
  <2>5. seen[q].high <= hi(q) /\ \A x \in Ranks(t, a) : x <= hi(q)
    BY <2>2, <2>3, <2>4, MaxOf
  <2>6. lo(q) <= seen[q].low /\ \A x \in Ranks(t, u) : lo(q) <= x
    BY <2>2, <2>3, <2>4, MinOf
  <2>7. /\ \A row \in RowsNext(t, a) : Rank[row.role] \in Ranks(t, a)
        /\ \A row \in RowsNext(t, u) : Rank[row.role] \in Ranks(t, u)
    BY RanksType
  <2>8. seen'[q].high = hi(q) /\ seen'[q].low = lo(q)
    BY <1>6, <1>9
  <2> QED
    BY <2>1, <2>5, <2>6, <2>7, <2>8
<1>10. ASSUME Goes(q)
       PROVE  LET r == request'[q]
              IN /\ seen[q].owners \subseteq seen'[q].owners
                 /\ seen[q].held \subseteq seen'[q].held
                 /\ {r.target, r.team} \ {None} \subseteq seen'[q].owners
                 /\ \A t \in Teams : \A row \in RowsNext(t, r.target) :
                      row.role = "owner" => t \in seen'[q].owners
                 /\ \A e \in Entities :
                      entity'[e].owner \in seen'[q].owners => e \in seen'[q].held
  <2>1. PICK u : u = request'[q].target
    OBVIOUS
  <2>2. \A t \in Teams : 3 \in Ranks(t, u) <=> \E row \in RowsNext(t, u) : row.role = "owner"
    BY RanksType
  <2>3. \A t \in Teams : 3 \in Ranks(t, u) => t \in ow(q)
    BY <2>1 DEF ow
  <2>4. /\ seen[q].owners \subseteq ow(q) /\ seen[q].held \subseteq he(q)
        /\ {request'[q].target, request'[q].team} \ {None} \subseteq ow(q)
        /\ \A e \in Entities : entity'[e].owner \in ow(q) => e \in he(q)
    BY DEF ow, he
  <2>5. seen'[q].owners = ow(q) /\ seen'[q].held = he(q)
    BY <1>7, <1>10
  <2> QED
    BY <2>1, <2>2, <2>3, <2>4, <2>5
<1> QED
  BY <1>8, <1>9, <1>10 DEF Roles2, Goes

LEMMA TypeInit == Init => TypeOK
<1> SUFFICES ASSUME Init PROVE TypeOK
  OBVIOUS
<1>1. request \in [Requests -> RequestRecords]
  BY RecordTypes DEF Init
<1>2. seen \in [Requests -> SeenRecords]
  <2>1. NothingSeen \in SeenRecords
    BY DEF NothingSeen, SeenRecords
  <2> QED
    BY <2>1 DEF Init
<1>3. team_user \subseteq Rows
  <2>1. PICK role \in [Teams -> [Users -> Roles \cup {"owner", None}]] :
          team_user =
            UNION {{[id |-> Start, team |-> t, user |-> u, role |-> role[t][u]] :
                     u \in {v \in Users : role[t][v] # None}} :
                   t \in {t \in Teams : team[t] = "live"}}
    BY DEF Init
  <2>2. ASSUME NEW row \in team_user
        PROVE  row \in Rows
    <3>1. PICK t \in Teams, u \in Users :
            role[t][u] # None
            /\ row = [id |-> Start, team |-> t, user |-> u, role |-> role[t][u]]
      BY <2>1
    <3>2. role[t][u] \in TeamRoles
      <4>1. role[t][u] \in Roles \cup {"owner"}
        BY <3>1
      <4> QED
        BY <4>1, TeamsAssumption, RankType
    <3> QED
      BY <3>1, <3>2, RowType
  <2> QED
    BY <2>2
<1>4. entity \in [Entities -> EntityRecords]
  BY DEF Init, Unborn, EntityRecords
<1> QED
  BY <1>1, <1>2, <1>3, <1>4 DEF Init, TypeOK, SeenRecords, EntityRecords

LEMMA RequestStep ==
  ASSUME TypeOK, CallShape, NEW q \in Requests, Arrive(q) \/ Check(q) \/ Act(q)
  PROVE  Arrival(q) \/ Checking(q) \/ (Act(q) /\ Acting(q))
  BY Arrived, Checked, Acted

LEMMA TypeStep == TypeOK /\ CallShape /\ MemberRead /\ [Next]_vars => TypeOK'
<1> SUFFICES ASSUME TypeOK, CallShape, MemberRead, [Next]_vars PROVE TypeOK'
  OBVIOUS
<1>1. CASE UNCHANGED vars
  BY <1>1 DEF vars, tables, past, TypeOK
<1>2. ASSUME NEW q \in Requests, Arrive(q) \/ Check(q) \/ Act(q), Witness
      PROVE  TypeOK'
  <2>1. request' \in [Requests -> RequestRecords] /\ cloud' = cloud
    BY <1>2, RequestStep DEF Arrival, Checking, Acting
  <2>2. before' \in [Requests -> SUBSET Requests]
    BY <1>2, RequestStep DEF Arrival, Checking, Acting, TypeOK
  <2>3. Written'
    <3>1. CASE Act(q)
      BY <3>1, WrittenStep
    <3>2. CASE Arrival(q) \/ Checking(q)
      BY <3>2 DEF Arrival, Checking, tables, past, Written, TypeOK, EntityRecords
    <3> QED
      BY <1>2, <3>1, <3>2, RequestStep
  <2>4. seen' \in [Requests -> SeenRecords]
    BY <1>2, <2>1, <2>3, Witnessed
  <2> QED
    BY <2>1, <2>2, <2>3, <2>4 DEF TypeOK, Written, SeenRecords, EntityRecords
<1> QED
  BY <1>1, <1>2 DEF Next

-----------------------------------------------------------------------------
(* What a step does to the tables *)

Step(q) == Arrive(q) \/ Check(q) \/ Act(q)

LEMMA StepCases ==
  ASSUME TypeOK, CallShape, NEW q \in Requests, Step(q)
  PROVE  /\ Arrival(q) \/ Checking(q) \/ (Act(q) /\ Acting(q))
         /\ \A p \in Requests \ {q} : request'[p] = request[p] /\ before'[p] = before[p]
         /\ request[q].pc # "done" /\ cloud' = cloud
         /\ ~Act(q) => UNCHANGED <<tables, past>>
<1>1. Arrival(q) \/ Checking(q) \/ (Act(q) /\ Acting(q))
  BY RequestStep DEF Step
<1>2. \A p \in Requests \ {q} : before'[p] = before[p]
  BY <1>1 DEF Arrival, Checking, Acting, TypeOK
<1> QED
  BY <1>1, <1>2 DEF Arrival, Checking, Acting, Open

\* A row after a step was there before it, as far as its team and user go, or
\* the step inserted it; owners' rows come with their teams.
LEMMA RowsAfter ==
  ASSUME TypeOK, CallShape, MemberRead, NEW q \in Requests, Step(q), NEW y \in team_user'
  PROVE  \/ \E x \in team_user : /\ x.id = y.id /\ x.team = y.team /\ x.user = y.user
                                 /\ y.role = "owner" => x = y
         \/ /\ InsertMember(q) /\ y.id = q /\ y.role # "owner"
            /\ y.team = request[q].team /\ y.user = request[q].target
         \/ /\ CreateTeam(q) /\ y.id = q /\ y.role = "owner" /\ y.team \in Teams
            /\ team[y.team] = "unborn" /\ made'[y.team] = q
<1> DEFINE Old == \E x \in team_user : /\ x.id = y.id /\ x.team = y.team /\ x.user = y.user
                                       /\ y.role = "owner" => x = y
<1>1. CASE y \in team_user
  BY <1>1
<1>2. CASE y \notin team_user
  <2>1. \/ InsertMember(q) \/ UpdateMember(q) \/ DeleteMember(q) \/ CreateTeam(q)
        \/ DeleteTeam(q) \/ DeleteUser(q)
    BY <1>2, StepCases DEF tables, Act, CreateEntity, Transfer
  <2>2. CASE InsertMember(q)
    <3>1. PICK r : r = request[q]
      OBVIOUS
    <3>2. r.role # "owner"
      BY <2>2, <3>1 DEF InsertMember, At, CallShape, Proper, Open
    <3>3. y = [id |-> q, team |-> r.team, user |-> r.target, role |-> r.role]
      BY <1>2, <2>2, <3>1 DEF InsertMember
    <3> QED
      BY <2>2, <3>1, <3>2, <3>3
  <2>3. CASE UpdateMember(q)
    <3>1. PICK x \in team_user : y = [x EXCEPT !.role = request[q].role]
      BY <1>2, <2>3 DEF UpdateMember
    <3>2. request[q].role # "owner" /\ request[q].role \in TeamRoles
      BY <2>3 DEF UpdateMember, At, CallShape, Proper, Open
    <3>3. x \in Rows
      BY DEF TypeOK
    <3>4. y.id = x.id /\ y.team = x.team /\ y.user = x.user /\ y.role = request[q].role
      BY <3>1, <3>3 DEF Rows
    <3> QED
      BY <3>2, <3>4
  <2>4. CASE CreateTeam(q)
    <3>1. PICK t \in Teams :
            /\ team[t] = "unborn" /\ made' = [made EXCEPT ![t] = q]
            /\ team_user' = team_user \cup
                 {[id |-> q, team |-> t, user |-> request[q].target, role |-> "owner"]}
      BY <2>4 DEF CreateTeam
    <3>2. y = [id |-> q, team |-> t, user |-> request[q].target, role |-> "owner"]
      BY <1>2, <3>1
    <3>3. made'[t] = q
      BY <3>1 DEF TypeOK
    <3> QED
      BY <2>4, <3>1, <3>2, <3>3
  <2>5. CASE DeleteMember(q) \/ DeleteTeam(q) \/ DeleteUser(q)
    BY <1>2, <2>5 DEF DeleteMember, DeleteTeam, DeleteUser, tables
  <2> QED
    BY <2>1, <2>2, <2>3, <2>4, <2>5
<1> QED
  BY <1>1, <1>2

\* A team is founded once, and what founded it stays known.
LEMMA TeamsAfter ==
  ASSUME TypeOK, CallShape, NEW q \in Requests, Step(q), NEW t \in Teams
  PROVE  /\ team[t] # "unborn" => team'[t] # "unborn" /\ made'[t] = made[t]
         /\ team'[t] = "live" =>
              \/ team[t] = "live"
              \/ /\ CreateTeam(q) /\ team[t] = "unborn" /\ made'[t] = q
                 /\ \E y \in team_user' : y.team = t /\ y.role = "owner"
<1>1. CASE UNCHANGED <<team, made>>
  BY <1>1
<1>2. CASE CreateTeam(q)
  <2>1. PICK s \in Teams :
          /\ team[s] = "unborn" /\ made' = [made EXCEPT ![s] = q]
          /\ team' = [team EXCEPT ![s] = "live"]
          /\ team_user' = team_user \cup
               {[id |-> q, team |-> s, user |-> request[q].target, role |-> "owner"]}
    BY <1>2 DEF CreateTeam
  <2>2. CASE s = t
    <3>1. made'[t] = q
      BY <2>1, <2>2 DEF TypeOK
    <3>2. PICK y : y = [id |-> q, team |-> s, user |-> request[q].target, role |-> "owner"]
      OBVIOUS
    <3>3. y \in team_user' /\ y.team = t /\ y.role = "owner"
      BY <2>1, <2>2, <3>2
    <3> QED
      BY <1>2, <2>1, <2>2, <3>1, <3>3
  <2>3. CASE s # t
    BY <2>1, <2>3 DEF TypeOK
  <2> QED
    BY <2>2, <2>3
<1>3. CASE DeleteTeam(q)
  BY <1>3 DEF DeleteTeam, TypeOK
<1>4. CASE DeleteUser(q)
  <2>1. made' = made
    BY <1>4 DEF DeleteUser
  <2>2. \/ UNCHANGED team
        \/ \E gone : team' = [s \in Teams |-> IF s \in gone THEN "gone" ELSE team[s]]
    <3> DEFINE gone == IF cloud THEN {} ELSE {s \in request[q].owned : team[s] = "live"}
    <3>1. UNCHANGED team \/ team' = [s \in Teams |-> IF s \in gone THEN "gone" ELSE team[s]]
      BY <1>4 DEF DeleteUser, tables
    <3> HIDE DEF gone
    <3> QED
      BY <3>1
  <2> QED
    BY <2>1, <2>2
<1>5. CASE CreateEntity(q) \/ Transfer(q)
  <2>1. team' = team
    BY <1>5 DEF CreateEntity, Transfer
  <2>2. made' = made \/ \E e \in Entities : made' = [made EXCEPT ![e] = q]
    <3>1. CASE CreateEntity(q)
      BY <3>1 DEF CreateEntity, Give
    <3>2. CASE Transfer(q)
      BY <3>2 DEF Transfer, Give, At, CallShape, Proper, Open
    <3> QED
      BY <1>5, <3>1, <3>2
  <2>3. t \notin Entities
    BY TeamsAssumption
  <2> QED
    BY <2>1, <2>2, <2>3 DEF TypeOK
<1> QED
  BY <1>1, <1>2, <1>3, <1>4, <1>5, StepCases
     DEF Act, InsertMember, UpdateMember, DeleteMember, tables, past

\* What is there after a step was there, or the step gave it to its owner.
LEMMA EntitiesAfter ==
  ASSUME TypeOK, CallShape, NEW q \in Requests, Step(q), NEW e \in Entities,
         entity'[e].is = "there"
  PROVE  \/ /\ entity[e].is = "there" /\ entity'[e].owner = entity[e].owner
            /\ made'[e] = made[e]
         \/ /\ CreateEntity(q) \/ Transfer(q)
            /\ made'[e] = q /\ entity'[e].owner \in Users \cup Teams
<1>0. e \notin Teams
  BY TeamsAssumption
<1>1. CASE UNCHANGED <<entity, made>>
  BY <1>1
<1>2. CASE CreateTeam(q)
  BY <1>0, <1>2 DEF CreateTeam, TypeOK
<1>3. CASE DeleteTeam(q) \/ DeleteUser(q)
  <2>1. made' = made /\ (entity' = entity \/ \E es : entity' = Removed(es))
    BY <1>3 DEF DeleteTeam, DeleteUser, tables
  <2> QED
    BY <2>1, RemovedType
<1>4. ASSUME NEW x \in Entities, NEW o \in Users \cup Teams, Give(q, x, o)
      PROVE  \/ /\ entity[e].is = "there" /\ entity'[e].owner = entity[e].owner
                /\ made'[e] = made[e]
             \/ made'[e] = q /\ entity'[e].owner \in Users \cup Teams
  <2>1. /\ entity'[x].owner = o
        /\ \A z \in Entities \ {x} : entity'[z] = entity[z]
        /\ made' = [made EXCEPT ![x] = q]
    BY <1>4, GivenType
  <2>2. CASE e = x
    BY <2>1, <2>2 DEF TypeOK
  <2>3. CASE e # x
    BY <2>1, <2>3 DEF TypeOK
  <2> QED
    BY <2>2, <2>3
<1>5. CASE CreateEntity(q)
  <2>1. PICK x, o : x \in Entities /\ Give(q, x, o)
          /\ o = (IF request[q].team = None THEN request[q].target ELSE request[q].team)
    BY <1>5 DEF CreateEntity
  <2>2. o \in Users \cup Teams
    <3>1. request[q].team \in Teams \/ (request[q].team = None /\ request[q].target \in Users)
      BY <1>5 DEF CreateEntity, At, CallShape, Proper, Open
    <3>2. None \notin Teams
      BY TeamsAssumption
    <3> QED
      BY <2>1, <3>1, <3>2
  <2> QED
    BY <1>4, <1>5, <2>1, <2>2
<1>6. CASE Transfer(q) /\ ~UNCHANGED <<entity, made>>
  <2>1. PICK x, o : Give(q, x, o) /\ x = request[q].entity
          /\ o = (IF request[q].kind = "toUser" THEN request[q].target ELSE request[q].team)
    BY <1>6 DEF Transfer
  <2>2. x \in Entities /\ o \in Users \cup Teams
    BY <1>6, <2>1 DEF Transfer, At, CallShape, Proper, Open
  <2> QED
    BY <1>4, <1>6, <2>1, <2>2
<1> QED
  BY <1>1, <1>2, <1>3, <1>5, <1>6, StepCases
     DEF Act, InsertMember, UpdateMember, DeleteMember, tables, past

\* Who ends now is in the past of no other request.
LEMMA NotBefore ==
  ASSUME TypeOK, PastShape, CallShape, NEW q \in Requests, Step(q), NEW p \in Requests \ {q}
  PROVE  ~EndedBefore(q, p) /\ ~EndedBefore(q, p)'
<1>1. q \notin before[p] /\ before'[p] = before[p]
  BY StepCases DEF PastShape
<1>2. q # Start
  BY TeamsAssumption
<1> QED
  BY <1>1, <1>2 DEF EndedBefore

-----------------------------------------------------------------------------
(* Requests and the past *)

LEMMA CallStep ==
  ASSUME TypeOK, CallShape, NEW q \in Requests, Step(q)
  PROVE  CallShape'
<1>1. \A t \in Teams : team[t] # "unborn" => team'[t] # "unborn"
  BY TeamsAfter
<1>2. ASSUME NEW p \in Requests \ {q}, Open(p)'
      PROVE  Proper(request[p])'
  <2>1. request'[p] = request[p] /\ Proper(request[p])
    BY <1>2, StepCases DEF CallShape, Open
  <2> QED
    BY <1>1, <2>1 DEF Proper
<1>3. ASSUME Open(q)'
      PROVE  Proper(request[q])'
  <2>1. CASE Arrival(q)
    <3>1. Proper(request'[q]) /\ team' = team
      BY <2>1 DEF Arrival, tables
    <3> QED
      BY <3>1 DEF Proper
  <2>2. CASE Checking(q)
    <3>1. Proper(request[q]) /\ team' = team
      BY <2>2 DEF Checking, CallShape, tables
    <3>2. request'[q].pc # "done"
      BY <1>3 DEF Open
    <3>3. /\ request'[q].kind = request[q].kind
          /\ request'[q].actor = request[q].actor /\ request'[q].target = request[q].target
          /\ request'[q].role = request[q].role /\ request'[q].entity = request[q].entity
          /\ \/ request'[q].team = request[q].team
             \/ request[q].kind = "toUser"
          /\ request'[q].pc = "permit" => request[q].kind \in {"toUser", "toTeam"}
      BY <2>2, <3>2, RecordTypes DEF Checking
    <3> QED
      BY <3>1, <3>3 DEF Proper, MemberKinds
  <2>3. CASE Acting(q)
    BY <1>3, <2>3 DEF Acting, Open
  <2> QED
    BY <2>1, <2>2, <2>3, StepCases
<1> QED
  BY <1>2, <1>3 DEF CallShape

LEMMA PastStep ==
  ASSUME TypeOK, CallShape, PastShape, MemberRead, NEW q \in Requests, Step(q)
  PROVE  PastShape'
<1>1. \A p \in Requests : request[p].pc = "done" => request'[p].pc = "done"
  BY StepCases
<1>2. ASSUME NEW p \in Requests, NEW r \in Requests, p \in before'[r]
      PROVE  request'[p].pc = "done"
  <2>1. p \in before[r] \/ request[p].pc = "done"
    <3>1. CASE Arrival(q)
      BY <1>2, <3>1 DEF Arrival, TypeOK
    <3>2. CASE Checking(q) \/ Acting(q)
      BY <1>2, <3>2 DEF Checking, Acting
    <3> QED
      BY <3>1, <3>2, StepCases
  <2> QED
    BY <1>1, <2>1 DEF PastShape
<1>3. ASSUME NEW y \in team_user', y.id # Start
      PROVE  request'[y.id].pc = "done"
  <2>1. CASE \E x \in team_user : x.id = y.id
    <3>1. y.id \in Requests
      BY <1>3, <2>1 DEF TypeOK, Rows
    <3> QED
      BY <1>1, <1>3, <2>1, <3>1 DEF PastShape
  <2>2. CASE y.id = q /\ (InsertMember(q) \/ CreateTeam(q))
    BY <2>2, Acted DEF Act, Acting
  <2> QED
    BY <1>3, <2>1, <2>2, RowsAfter
<1>4. ASSUME NEW x \in Users \cup Teams, NEW p \in ended'[x]
      PROVE  request'[p].pc = "done"
  <2>1. p \in ended[x] \/ (p = q /\ Act(q))
    <3>1. CASE ended' = ended
      BY <1>4, <3>1
    <3>2. CASE DeleteTeam(q)
      BY <1>4, <3>2 DEF DeleteTeam, Act, TypeOK
    <3>3. CASE DeleteUser(q)
      <4>1. \/ ended' = ended
            \/ \E X : ended' = [z \in DOMAIN ended |-> IF z \in X THEN ended[z] \cup {q}
                                                    ELSE ended[z]]
        <5> DEFINE X == (IF cloud THEN {} ELSE {t \in request[q].owned : team[t] = "live"})
                          \cup ({request[q].target} \cap user)
        <5>1. \/ ended' = ended
              \/ ended' = [z \in DOMAIN ended |-> IF z \in X THEN ended[z] \cup {q}
                                                   ELSE ended[z]]
          BY <3>3 DEF DeleteUser
        <5> HIDE DEF X
        <5> QED
          BY <5>1
      <4> QED
        BY <1>4, <3>3, <4>1 DEF Act, TypeOK
    <3> QED
      BY <3>1, <3>2, <3>3, StepCases DEF Act, InsertMember, UpdateMember, DeleteMember,
         CreateTeam, CreateEntity, Transfer, past
  <2> QED
    BY <1>1, <1>4, <2>1, Acted DEF PastShape, Acting, TypeOK
<1> QED
  BY <1>2, <1>3, <1>4 DEF PastShape

\* A request other than the one of the step is where it was.
LEMMA Unmoved ==
  ASSUME TypeOK, CallShape, NEW q \in Requests, Step(q), NEW p \in Requests \ {q}
  PROVE  /\ request'[p] = request[p] /\ before'[p] = before[p]
         /\ \A kinds, pc : At(p, kinds, pc)' <=> At(p, kinds, pc)
         /\ \A id \in Requests \cup {Start} : EndedBefore(id, p)' <=> EndedBefore(id, p)
  BY StepCases DEF At, EndedBefore

-----------------------------------------------------------------------------
(* Members *)

\* A row that a step changed is its only version after the step.
LEMMA UpdatedOnly ==
  ASSUME TypeOK, CallShape, PastShape, MemberRead, NEW q \in Requests, Step(q),
         NEW x \in team_user', NEW y \in team_user', y \notin team_user,
         NEW z \in team_user, z.id = y.id,
         x.id = y.id, x.team = y.team, x.user = y.user
  PROVE  x = y
<1>1. q # Start /\ z.id # q
  <2>1. q # Start
    BY TeamsAssumption
  <2>2. request[q].pc # "done"
    BY StepCases
  <2> QED
    BY <2>1, <2>2 DEF PastShape
<1>2. UpdateMember(q)
  <2>1. \/ InsertMember(q) \/ UpdateMember(q) \/ DeleteMember(q) \/ CreateTeam(q)
        \/ DeleteTeam(q) \/ DeleteUser(q)
    BY StepCases DEF tables, Act, CreateEntity, Transfer
  <2>2. ~InsertMember(q)
    BY <1>1 DEF InsertMember
  <2>3. ~CreateTeam(q)
    BY <1>1 DEF CreateTeam
  <2> QED
    BY <2>1, <2>2, <2>3 DEF DeleteMember, DeleteTeam, DeleteUser, tables
<1>3. PICK r : r = request[q]
  OBVIOUS
<1>4. PICK S : S = {row \in team_user : row.id = r.row.id /\ row.team = r.row.team
                                        /\ row.user = r.row.user}
  OBVIOUS
<1>5. team_user' = (team_user \ S) \cup {[row EXCEPT !.role = r.role] : row \in S}
  BY <1>2, <1>3, <1>4 DEF UpdateMember
<1>6. r.role \in TeamRoles
  BY <1>2, <1>3 DEF UpdateMember, At, CallShape, Proper, Open
<1> DEFINE new(row) == [row EXCEPT !.role = r.role]
<1>7. \A row \in Rows :
        /\ new(row) \in Rows /\ new(row).id = row.id /\ new(row).team = row.team
        /\ new(row).user = row.user /\ new(row).role = r.role
  BY <1>6 DEF Rows
<1>8. team_user' = (team_user \ S) \cup {new(row) : row \in S} /\ S \subseteq Rows
  BY <1>4, <1>5 DEF TypeOK
<1> HIDE DEF new
<1>9. /\ y \in Rows /\ y.role = r.role
      /\ y.id = r.row.id /\ y.team = r.row.team /\ y.user = r.row.user
  <2>1. PICK row \in S : y = new(row)
    BY <1>8
  <2> QED
    BY <1>4, <1>7, <1>8, <2>1
<1>10. x \in Rows /\ x.role = r.role
  <2>1. x \notin team_user \ S
    BY <1>4, <1>9
  <2>2. PICK row \in S : x = new(row)
    BY <1>8, <2>1
  <2> QED
    BY <1>7, <1>8, <2>2
<1> QED
  BY <1>9, <1>10 DEF Rows

LEMMA TeamShapeStep ==
  ASSUME TypeOK, CallShape, PastShape, MemberRead, NewcomerRead, TeamShape,
         NEW q \in Requests, Step(q)
  PROVE  TeamShape'
<1>1. ASSUME NEW y \in team_user'
      PROVE  team'[y.team] # "unborn"
  <2>1. CASE \E x \in team_user : x.team = y.team
    BY <2>1, TeamsAfter DEF TeamShape, TypeOK, Rows
  <2>2. CASE InsertMember(q) /\ y.team = request[q].team
    BY <2>2, TeamsAfter DEF InsertMember, At, CallShape, Proper, Open, MemberKinds
  <2>3. CASE CreateTeam(q) /\ y.team \in Teams /\ team[y.team] = "unborn" /\ made'[y.team] = q
    <3>1. PICK t \in Teams : team' = [team EXCEPT ![t] = "live"]
                             /\ team_user' = team_user \cup
                                  {[id |-> q, team |-> t, user |-> request[q].target,
                                    role |-> "owner"]}
      BY <2>3 DEF CreateTeam
    <3>2. y \notin team_user
      BY <2>3 DEF TeamShape
    <3>3. y = [id |-> q, team |-> t, user |-> request[q].target, role |-> "owner"]
      BY <3>1, <3>2
    <3>4. y.team = t
      BY <3>3
    <3> QED
      BY <3>1, <3>4 DEF TypeOK
  <2> QED
    BY <2>1, <2>2, <2>3, RowsAfter
<1>2. ASSUME NEW x \in team_user', NEW y \in team_user', x.team = y.team, x.user = y.user,
             x.role = "owner"
      PROVE  x = y
  <2>1. CASE x \in team_user
    <3>1. CASE \E z \in team_user : /\ z.id = y.id /\ z.team = y.team /\ z.user = y.user
                                    /\ y.role = "owner" => z = y
      <4>1. PICK z \in team_user : /\ z.id = y.id /\ z.team = y.team /\ z.user = y.user
                                   /\ y.role = "owner" => z = y
        BY <3>1
      <4>2. x = z
        BY <1>2, <2>1, <4>1 DEF TeamShape
      <4>3. CASE y.role = "owner"
        BY <4>1, <4>2, <4>3
      <4>4. CASE y \in team_user
        BY <1>2, <2>1, <4>4 DEF TeamShape
      <4>5. CASE y \notin team_user
        BY <1>2, <4>1, <4>2, <4>5, UpdatedOnly
      <4> QED
        BY <4>3, <4>4, <4>5
    <3>2. CASE InsertMember(q) /\ y.team = request[q].team /\ y.user = request[q].target
      <4>1. At(q, {"join", "add"}, "act")
        BY <3>2 DEF InsertMember
      <4>2. x \in RowsOf(request[q].team, request[q].target)
        BY <1>2, <2>1, <3>2 DEF RowsOf
      <4> QED
        BY <1>2, <4>1, <4>2 DEF NewcomerRead
    <3>3. CASE y.team \in Teams /\ team[y.team] = "unborn"
      BY <1>2, <2>1, <3>3 DEF TeamShape
    <3> QED
      BY <3>1, <3>2, <3>3, RowsAfter
  <2>2. CASE x \notin team_user
    <3>1. CreateTeam(q) /\ x.team \in Teams /\ team[x.team] = "unborn"
      BY <1>2, <2>2, RowsAfter
    <3>2. y \notin team_user
      BY <1>2, <3>1 DEF TeamShape
    <3>3. PICK t \in Teams :
            team_user' = team_user \cup
              {[id |-> q, team |-> t, user |-> request[q].target, role |-> "owner"]}
      BY <3>1 DEF CreateTeam
    <3> QED
      BY <2>2, <3>2, <3>3
  <2> QED
    BY <2>1, <2>2
<1> QED
  BY <1>1, <1>2 DEF TeamShape

LEMMA NewcomerStep ==
  ASSUME TypeOK, CallShape, PastShape, MemberRead, NewcomerRead, NEW q \in Requests, Step(q)
  PROVE  NewcomerRead'
<1>1. ASSUME NEW p \in Requests, At(p, {"join", "add"}, "act")',
             NEW y \in team_user', y.team = request'[p].team, y.user = request'[p].target
      PROVE  ~EndedBefore(y.id, p)' /\ y.role # "owner"
  <2>1. CASE p = q
    <3>1. request'[q].pc = "act" /\ request'[q].kind \in {"join", "add"}
      BY <1>1, <2>1 DEF At
    <3>2. Checking(q) /\ request'[q] # Done
      BY <3>1, StepCases, RecordTypes DEF Arrival, First, Acting
    <3>3. ReadNewMember(q) /\ request'[q].team = request[q].team
          /\ request'[q].target = request[q].target /\ team_user' = team_user
      BY <3>1, <3>2 DEF Checking, ReadMember, CheckRank, ReadTeams, At, tables
    <3>4. RowsOf(request[q].team, request[q].target) = {}
      BY <3>1, <3>3, Gone DEF ReadNewMember
    <3> QED
      BY <1>1, <2>1, <3>3, <3>4 DEF RowsOf
  <2>2. CASE p # q
    <3>1. request'[p] = request[p] /\ At(p, {"join", "add"}, "act")
      BY <1>1, <2>2, Unmoved
    <3>2. CASE \E x \in team_user : /\ x.id = y.id /\ x.team = y.team /\ x.user = y.user
                                    /\ y.role = "owner" => x = y
      <4>1. PICK x \in team_user : /\ x.id = y.id /\ x.team = y.team /\ x.user = y.user
                                   /\ y.role = "owner" => x = y
        BY <3>2
      <4>2. ~EndedBefore(x.id, p) /\ x.role # "owner"
        BY <1>1, <3>1, <4>1 DEF NewcomerRead, RowsOf
      <4>3. x.id \in Requests \cup {Start}
        BY DEF TypeOK, Rows
      <4> QED
        BY <2>2, <4>1, <4>2, <4>3, Unmoved
    <3>3. CASE InsertMember(q) /\ y.id = q /\ y.role # "owner"
      BY <2>2, <3>3, NotBefore
    <3>4. CASE y.team \in Teams /\ team[y.team] = "unborn"
      BY <1>1, <3>1, <3>4 DEF At, CallShape, Proper, Open, MemberKinds
    <3> QED
      BY <3>2, <3>3, <3>4, RowsAfter
  <2> QED
    BY <2>1, <2>2
<1> QED
  BY <1>1 DEF NewcomerRead, RowsOf

\* What ReadMember found.
LEMMA MemberFound ==
  ASSUME TypeOK, NEW q \in Requests, ReadMember(q), request'[q].pc # "done"
  PROVE  /\ request'[q].row \in RowsOf(request[q].team, request[q].target)
         /\ request[q].kind = "remove" /\ request'[q].row.role = "owner" => IsAdmin(q)
         /\ request'[q].pc = "act" => IsAdmin(q) \/ (request[q].kind = "remove" /\ Self(q))
<1>1. PICK row \in Found(request[q].team, request[q].target), pc \in {"act", "rank"} :
        /\ pc = IF IsAdmin(q) \/ (request[q].kind = "remove" /\ Self(q)) THEN "act" ELSE "rank"
        /\ IF row = NoRow \/ (request[q].kind = "remove" /\ ~IsAdmin(q) /\ row.role = "owner")
           THEN End(q)
           ELSE request' = [request EXCEPT ![q].row = row, ![q].pc = pc]
  BY DEF ReadMember
<1>2. ~End(q)
  BY Gone
<1>3. request' = [request EXCEPT ![q].row = row, ![q].pc = pc]
  BY <1>1, <1>2
<1>4. PICK r : r = [request[q] EXCEPT !.row = row, !.pc = pc]
  OBVIOUS
<1>5. request' = [request EXCEPT ![q] = r]
  BY <1>3, <1>4
<1>6. r.row = row /\ r.pc = pc
  BY <1>4 DEF TypeOK, RequestRecords
<1>7. request'[q].row = row /\ request'[q].pc = pc
  BY <1>5, <1>6 DEF TypeOK
<1>8. row \in RowsOf(request[q].team, request[q].target)
  BY <1>1, <1>2 DEF Found
<1> QED
  BY <1>1, <1>2, <1>7, <1>8

\* What CheckRank found.
LEMMA RankFound ==
  ASSUME TypeOK, NEW q \in Requests, CheckRank(q), request'[q].pc # "done"
  PROVE  /\ request'[q].row = request[q].row /\ request[q].pc = "rank"
         /\ \E row \in RowsOf(request[q].team, request[q].actor) :
              Rank[row.role] > Rank[request[q].row.role]
<1>1. PICK row \in Found(request[q].team, request[q].actor) :
        IF Outranks(row, request[q].row) THEN Goto(q, "act") ELSE End(q)
  BY DEF CheckRank
<1>2. ~End(q)
  BY Gone
<1>3. Outranks(row, request[q].row) /\ Goto(q, "act")
  BY <1>1, <1>2
<1>4. request'[q].row = request[q].row
  BY <1>3, Went DEF Stages
<1> QED
  BY <1>1, <1>3, <1>4 DEF Outranks, Found, CheckRank, At

LEMMA MemberStep ==
  ASSUME TypeOK, CallShape, PastShape, TeamShape, MemberRead, NEW q \in Requests, Step(q)
  PROVE  MemberRead'
<1>1. ASSUME NEW p \in Requests, request'[p].kind \in {"role", "remove"},
             request'[p].pc \in {"rank", "act"}
      PROVE  LET r == request'[p]
             IN /\ r.row \in Rows /\ r.row.team = r.team /\ r.row.user = r.target
                /\ r.row.role = "owner" =>
                     r.actor \in Admins \/ (r.kind = "role" /\ r.pc = "rank")
                /\ r.row.role # "owner" =>
                     \A y \in team_user' : y.team = r.team /\ y.user = r.target =>
                       y.role # "owner"
  <2>1. CASE p = q
    <3>1. Checking(q) /\ request'[q].pc # "done"
      BY <1>1, <2>1, StepCases, RecordTypes DEF Arrival, First, Acting
    <3>2. /\ team_user' = team_user /\ request'[q].kind = request[q].kind
          /\ request'[q].team = request[q].team /\ request'[q].target = request[q].target
          /\ request'[q].actor = request[q].actor
      BY <1>1, <2>1, <3>1, RecordTypes DEF Checking, tables
    <3>3. ReadMember(q) \/ CheckRank(q)
      BY <1>1, <2>1, <3>1, <3>2, RecordTypes DEF Checking, ReadNewMember, ReadTeams, At
    <3>4. CASE ReadMember(q)
      <4>1. PICK row : row = request'[q].row
        OBVIOUS
      <4>2. /\ row \in team_user /\ row.team = request[q].team /\ row.user = request[q].target
            /\ request[q].kind = "remove" /\ row.role = "owner" => IsAdmin(q)
            /\ request'[q].pc = "act" => IsAdmin(q) \/ request[q].kind = "remove"
        BY <3>1, <3>4, <4>1, MemberFound DEF RowsOf
      <4>3. row \in Rows
        BY <4>2 DEF TypeOK
      <4>4. row.role # "owner" => \A y \in team_user : y.team = row.team /\ y.user = row.user
              => y.role # "owner"
        BY <4>2 DEF TeamShape
      <4> QED
        BY <1>1, <2>1, <3>2, <4>1, <4>2, <4>3, <4>4 DEF IsAdmin
    <3>5. CASE CheckRank(q)
      <4>1. PICK row \in RowsOf(request[q].team, request[q].actor) :
              Rank[row.role] > Rank[request[q].row.role]
        BY <3>1, <3>5, RankFound
      <4>2. request'[q].row = request[q].row /\ request[q].pc = "rank"
        BY <3>1, <3>5, RankFound
      <4>3. row.role \in TeamRoles
        BY <4>1 DEF RowsOf, TypeOK, Rows
      <4>4. request[q].row.role # "owner"
        BY <4>1, <4>3, RankType
      <4> QED
        BY <1>1, <2>1, <3>2, <4>2, <4>4 DEF MemberRead, RowsOf
    <3> QED
      BY <3>3, <3>4, <3>5
  <2>2. CASE p # q
    <3>1. request'[p] = request[p]
      BY <2>2, Unmoved
    <3>2. PICK r : r = request[p]
      OBVIOUS
    <3>3. /\ r.row \in Rows /\ r.row.team = r.team /\ r.row.user = r.target
          /\ r.row.role = "owner" => r.actor \in Admins \/ (r.kind = "role" /\ r.pc = "rank")
          /\ r.row.role # "owner" => \A x \in RowsOf(r.team, r.target) : x.role # "owner"
      BY <1>1, <3>1, <3>2 DEF MemberRead, IsAdmin
    <3>4. r.team \in Teams /\ team[r.team] # "unborn"
      BY <1>1, <3>1, <3>2 DEF CallShape, Proper, Open, MemberKinds
    <3>5. ASSUME r.row.role # "owner", NEW y \in team_user', y.team = r.team, y.user = r.target
          PROVE  y.role # "owner"
      <4>1. SUFFICES ASSUME y.role = "owner" PROVE FALSE
        OBVIOUS
      <4>2. y \in team_user \/ team[y.team] = "unborn"
        BY <4>1, RowsAfter
      <4> QED
        BY <3>3, <3>4, <3>5, <4>1, <4>2 DEF RowsOf
    <3> QED
      BY <3>1, <3>2, <3>3, <3>5
  <2> QED
    BY <2>1, <2>2
<1> QED
  BY <1>1 DEF MemberRead, RowsOf, IsAdmin

\* A request inserts one row.
LEMMA InsertedOnce ==
  ASSUME TypeOK, CallShape, PastShape, NEW q \in Requests, Step(q),
         InsertMember(q) \/ CreateTeam(q),
         NEW x \in team_user', NEW y \in team_user', x.id = q, y.id = q
  PROVE  x = y
<1>1. x \notin team_user /\ y \notin team_user
  <2>1. q # Start /\ request[q].pc # "done"
    BY StepCases, TeamsAssumption
  <2> QED
    BY <2>1 DEF PastShape
<1>2. PICK new : team_user' = team_user \cup {new}
  BY DEF InsertMember, CreateTeam
<1> QED
  BY <1>1, <1>2

LEMMA UniqueStep ==
  ASSUME TypeOK, CallShape, PastShape, TeamShape, MemberRead, NewcomerRead, MembershipUnique,
         NEW q \in Requests, Step(q)
  PROVE  MembershipUnique'
<1> DEFINE Version(z, y) == z.id = y.id /\ z.team = y.team /\ z.user = y.user
           Kept(y) == \E z \in team_user : Version(z, y)
<1>1. ASSUME NEW x \in team_user, NEW y \in team_user, x # y, x.team = y.team, x.user = y.user
      PROVE  ~EndedBefore(x.id, y.id)' /\ x.id \in Requests /\ y.id \in Requests \ {q}
  <2>1. ~EndedBefore(x.id, y.id) /\ ~EndedBefore(y.id, x.id)
    BY <1>1 DEF MembershipUnique
  <2>2. x.id \in Requests /\ y.id \in Requests
    BY <2>1 DEF EndedBefore, TypeOK, Rows
  <2>3. y.id # q
    BY <2>1, StepCases DEF EndedBefore, PastShape
  <2> QED
    BY <2>1, <2>2, <2>3, Unmoved
<1>2. ASSUME NEW x \in team_user', NEW y \in team_user', x # y, x.team = y.team, x.user = y.user,
             Kept(x), Kept(y)
      PROVE  ~EndedBefore(x.id, y.id)'
  <2>1. PICK z \in team_user, w \in team_user : Version(z, x) /\ Version(w, y)
    BY <1>2
  <2>2. CASE x \in team_user /\ y \in team_user
    BY <1>1, <1>2, <2>2
  <2>3. CASE z # w
    BY <1>1, <1>2, <2>1, <2>3
  <2>4. CASE z = w /\ y \notin team_user
    BY <1>2, <2>1, <2>4, UpdatedOnly
  <2>5. CASE z = w /\ x \notin team_user
    BY <1>2, <2>1, <2>5, UpdatedOnly
  <2> QED
    BY <2>2, <2>3, <2>4, <2>5
<1>3. ASSUME NEW x \in team_user', NEW y \in team_user', x.team = y.team, x.user = y.user,
             x.id = q, InsertMember(q) \/ CreateTeam(q), Kept(y),
             InsertMember(q) => x.team = request[q].team /\ x.user = request[q].target,
             CreateTeam(q) => team[x.team] = "unborn"
      PROVE  ~EndedBefore(x.id, y.id)' /\ ~EndedBefore(y.id, x.id)'
  <2>1. PICK w \in team_user : Version(w, y)
    BY <1>3
  <2>2. CASE CreateTeam(q)
    BY <1>3, <2>1, <2>2 DEF TeamShape
  <2>3. CASE InsertMember(q)
    <3>1. At(q, {"join", "add"}, "act") /\ before' = before
      BY <2>3 DEF InsertMember
    <3>2. ~EndedBefore(w.id, q)
      BY <1>3, <2>1, <2>3, <3>1 DEF NewcomerRead, RowsOf
    <3>3. w.id \in Requests /\ request[w.id].pc = "done"
      BY <3>2 DEF EndedBefore, TypeOK, Rows, PastShape
    <3>4. w.id # q
      BY <3>3, StepCases
    <3> QED
      BY <1>3, <2>1, <3>1, <3>2, <3>3, <3>4, NotBefore DEF EndedBefore
  <2> QED
    BY <1>3, <2>2, <2>3
<1>4. ASSUME NEW y \in team_user'
      PROVE  \/ Kept(y)
             \/ /\ y.id = q /\ (InsertMember(q) \/ CreateTeam(q))
                /\ InsertMember(q) => y.team = request[q].team /\ y.user = request[q].target
                /\ CreateTeam(q) => team[y.team] = "unborn"
  <2>1. ~(InsertMember(q) /\ CreateTeam(q))
    BY DEF InsertMember, CreateTeam, At
  <2> QED
    BY <2>1, RowsAfter
<1> HIDE DEF Kept, Version
<1>5. ASSUME NEW x \in team_user', NEW y \in team_user', x # y, x.team = y.team, x.user = y.user
      PROVE  ~EndedBefore(x.id, y.id)' /\ ~EndedBefore(y.id, x.id)'
  <2>1. CASE Kept(x) /\ Kept(y)
    BY <1>2, <1>5, <2>1
  <2>2. CASE Kept(x) /\ ~Kept(y)
    BY <1>3, <1>4, <1>5, <2>2
  <2>3. CASE ~Kept(x) /\ Kept(y)
    BY <1>3, <1>4, <1>5, <2>3
  <2>4. CASE ~Kept(x) /\ ~Kept(y)
    BY <1>4, <1>5, <2>4, InsertedOnce
  <2> QED
    BY <2>1, <2>2, <2>3, <2>4
<1> QED
  BY <1>5 DEF MembershipUnique

-----------------------------------------------------------------------------
(* Owners *)

\* What ReadTeams found.
LEMMA TeamsFound ==
  ASSUME TypeOK, NEW q \in Requests, ReadTeams(q)
  PROVE  request'[q].owned = TeamsOwnedBy(request[q].target) /\ request'[q].read = request[q].read
<1>1. PICK ts : ts = TeamsOwnedBy(request[q].target)
  OBVIOUS
<1>2. request' = [request EXCEPT ![q].pc = "act", ![q].owned = ts]
  BY <1>1 DEF ReadTeams
<1>3. PICK r : r = [request[q] EXCEPT !.pc = "act", !.owned = ts]
  OBVIOUS
<1>4. request' = [request EXCEPT ![q] = r]
  BY <1>2, <1>3
<1>5. r.owned = ts /\ r.read = request[q].read
  BY <1>3 DEF TypeOK, RequestRecords
<1> QED
  BY <1>1, <1>4, <1>5 DEF TypeOK

LEMMA TeamsStep ==
  ASSUME TypeOK, CallShape, PastShape, TeamShape, MemberRead, TeamsRead, NEW q \in Requests, Step(q)
  PROVE  TeamsRead'
<1>1. ASSUME NEW p \in Requests, At(p, {"erase"}, "act")',
             NEW y \in team_user', y.user = request'[p].target, y.role = "owner",
             team'[y.team] = "live"
      PROVE  y.team \in request'[p].owned \/ ~EndedBefore(made[y.team], p)'
  <2>1. CASE p = q
    <3>1. request'[q].pc = "act" /\ request'[q].kind = "erase"
      BY <1>1, <2>1 DEF At
    <3>2. Checking(q) /\ request'[q] # Done
      BY <3>1, StepCases, RecordTypes DEF Arrival, First, Acting
    <3>3. ReadTeams(q) /\ request'[q].target = request[q].target /\ team_user' = team_user
      BY <3>1, <3>2 DEF Checking, ReadMember, CheckRank, ReadNewMember, At, tables
    <3>4. y.team \in Teams
      BY <3>3 DEF TypeOK, Rows
    <3> QED
      BY <1>1, <2>1, <3>3, <3>4, TeamsFound DEF TeamsOwnedBy, RowsOf
  <2>2. CASE p # q
    <3>1. request'[p] = request[p] /\ At(p, {"erase"}, "act")
      BY <1>1, <2>2, Unmoved
    <3>2. CASE y \in team_user
      <4>1. y.team \in Teams /\ team[y.team] # "unborn"
        BY <3>2 DEF TypeOK, Rows, TeamShape
      <4>2. team[y.team] = "live" /\ made'[y.team] = made[y.team]
        BY <1>1, <4>1, TeamsAfter
      <4>3. y.team \in request[p].owned \/ ~EndedBefore(made[y.team], p)
        BY <1>1, <3>1, <3>2, <4>2 DEF TeamsRead
      <4>4. made[y.team] \in Requests \cup {Start}
        BY <4>1 DEF TypeOK
      <4> QED
        BY <2>2, <3>1, <4>2, <4>3, <4>4, Unmoved DEF EndedBefore
    <3>3. CASE made'[y.team] = q
      <4>1. ~EndedBefore(q, p)'
        BY <2>2, NotBefore
      <4> QED
        BY <3>3, <4>1 DEF EndedBefore
    <3> QED
      BY <1>1, <3>2, <3>3, RowsAfter
  <2> QED
    BY <2>1, <2>2
<1> QED
  BY <1>1 DEF TeamsRead

\* Neither a deposition nor a deletion is forgotten.
LEMMA HistoryGrows ==
  ASSUME TypeOK, CallShape, MemberRead, NEW q \in Requests, Step(q)
  PROVE  /\ deposed \subseteq deposed'
         /\ \A x \in Users \cup Teams : ended[x] \subseteq ended'[x]
<1>1. deposed \subseteq deposed'
  BY StepCases DEF Act, InsertMember, UpdateMember, DeleteMember, CreateTeam, DeleteTeam,
     DeleteUser, CreateEntity, Transfer, Deposes, past
<1>2. CASE ended' = ended
  BY <1>1, <1>2
<1>3. CASE DeleteTeam(q)
  BY <1>1, <1>3 DEF DeleteTeam, TypeOK
<1>4. CASE DeleteUser(q)
  <2> DEFINE X == (IF cloud THEN {} ELSE {t \in request[q].owned : team[t] = "live"})
                    \cup ({request[q].target} \cap user)
  <2>1. \/ ended' = ended
        \/ ended' = [z \in DOMAIN ended |-> IF z \in X THEN ended[z] \cup {q} ELSE ended[z]]
    BY <1>4 DEF DeleteUser
  <2> HIDE DEF X
  <2> QED
    BY <1>1, <2>1 DEF TypeOK
<1> QED
  BY <1>2, <1>3, <1>4, StepCases DEF Act, InsertMember, UpdateMember, DeleteMember,
     CreateTeam, CreateEntity, Transfer, past

\* What a deletion of a user does, when it does anything.
LEMMA UserDeleted ==
  ASSUME TypeOK, NEW q \in Requests, DeleteUser(q), ~UNCHANGED <<tables, ended>>
  PROVE  /\ request[q].target \in user \/ cloud
         /\ user' = user \ {request[q].target}
         /\ \A t \in Teams : team'[t] = IF ~cloud /\ t \in request[q].owned /\ team[t] = "live"
                                       THEN "gone" ELSE team[t]
         /\ cloud => team_user' = team_user
         /\ ~cloud => team_user' = {row \in team_user : row.team \notin request[q].owned
                                                        /\ row.user # request[q].target}
         /\ entity' = Removed({e \in There : IF e \in Websites THEN e \in request[q].read
                                             ELSE GoesWith(q, e)})
         /\ \A x \in Users \cup Teams :
              ended'[x] = IF \/ ~cloud /\ x \in request[q].owned /\ team[x] = "live"
                             \/ x = request[q].target /\ x \in user
                          THEN ended[x] \cup {q} ELSE ended[x]
<1> DEFINE u == request[q].target
           teams == IF cloud THEN {} ELSE {t \in request[q].owned : team[t] = "live"}
<1>1. u \in user \/ cloud
  BY DEF DeleteUser
<1>2. /\ team' = [t \in Teams |-> IF t \in teams THEN "gone" ELSE team[t]]
      /\ ended' = [x \in DOMAIN ended |->
                     IF x \in teams \/ x \in {u} \cap user THEN ended[x] \cup {q} ELSE ended[x]]
  BY <1>1 DEF DeleteUser
<1>3. /\ \A t \in Teams : team'[t] = IF t \in teams THEN "gone" ELSE team[t]
      /\ \A x \in Users \cup Teams :
           ended'[x] = IF x \in teams \/ x \in {u} \cap user THEN ended[x] \cup {q} ELSE ended[x]
  <2> HIDE DEF teams, u
  <2> QED
    BY <1>2 DEF TypeOK
<1>4. \A x : x \in teams <=> ~cloud /\ x \in request[q].owned /\ team[x] = "live"
  OBVIOUS
<1>5. /\ user' = user \ {request[q].target}
      /\ cloud => team_user' = team_user
      /\ ~cloud => team_user' = {row \in team_user : row.team \notin request[q].owned
                                                     /\ row.user # request[q].target}
      /\ entity' = Removed({e \in There : IF e \in Websites THEN e \in request[q].read
                                          ELSE GoesWith(q, e)})
  BY <1>1 DEF DeleteUser
<1> HIDE DEF teams
<1> QED
  BY <1>1, <1>3, <1>4, <1>5

LEMMA OwnerStep ==
  ASSUME TypeOK, CallShape, PastShape, MemberRead, TeamsRead, OwnerKept, NEW q \in Requests, Step(q)
  PROVE  OwnerKept'
<1> DEFINE Fine(t) == \/ \E row \in team_user' : row.team = t /\ row.role = "owner"
                      \/ t \in deposed'
                      \/ \E u \in Users : \E p \in ended'[u] : ~EndedBefore(made[t], p)'
<1>1. ASSUME NEW t \in Teams, team'[t] = "live", team[t] = "live",
             NEW row \in team_user, row.team = t, row.role = "owner", row \notin team_user'
      PROVE  Fine(t)
  <2>1. UpdateMember(q) \/ DeleteMember(q) \/ DeleteTeam(q) \/ DeleteUser(q)
    BY <1>1, StepCases DEF tables, Act, InsertMember, CreateTeam, CreateEntity, Transfer
  <2>2. CASE UpdateMember(q) \/ DeleteMember(q)
    <3>1. request[q].kind \in {"role", "remove"} /\ request[q].pc = "act"
          /\ Deposes(q, request[q].row)
      BY <2>2 DEF UpdateMember, DeleteMember, At
    <3>2. PICK r : r = request[q]
      OBVIOUS
    <3>3. r.row.team = r.team /\ r.row.user = r.target
      BY <3>1, <3>2 DEF MemberRead
    <3>4. row.team = r.team /\ row.user = r.target
      <4>1. CASE UpdateMember(q)
        BY <1>1, <3>2, <3>3, <4>1 DEF UpdateMember
      <4>2. CASE DeleteMember(q)
        BY <1>1, <3>2, <4>2 DEF DeleteMember, RowsOf
      <4> QED
        BY <2>2, <4>1, <4>2
    <3>5. r.row.role = "owner"
      BY <1>1, <3>1, <3>2, <3>4 DEF MemberRead, RowsOf
    <3>6. IsAdmin(q)
      BY <3>1, <3>2, <3>5 DEF MemberRead
    <3> QED
      BY <1>1, <3>1, <3>2, <3>3, <3>4, <3>5, <3>6 DEF Deposes
  <2>3. CASE DeleteTeam(q)
    BY <1>1, <2>3 DEF DeleteTeam, TypeOK
  <2>4. CASE DeleteUser(q)
    <3>1. ~UNCHANGED <<tables, ended>>
      BY <1>1 DEF tables
    <3>2. PICK r : r = request[q]
      OBVIOUS
    <3>3. ~cloud /\ r.target \in user /\ (row.team \in r.owned \/ row.user = r.target)
      BY <1>1, <2>4, <3>1, <3>2, UserDeleted
    <3>4. t \notin r.owned
      BY <1>1, <2>4, <3>1, <3>2, <3>3, UserDeleted
    <3>5. At(q, {"erase"}, "act") /\ before' = before /\ made' = made
      BY <2>4 DEF DeleteUser
    <3>6. ~EndedBefore(made[t], q)
      BY <1>1, <3>2, <3>3, <3>4, <3>5 DEF TeamsRead
    <3>7. r.target \in Users
      BY <3>3 DEF TypeOK
    <3>8. q \in ended'[r.target]
      BY <2>4, <3>1, <3>2, <3>3, <3>7, UserDeleted
    <3>9. ~EndedBefore(made[t], q)'
      BY <3>5, <3>6 DEF EndedBefore
    <3> QED
      BY <3>7, <3>8, <3>9
  <2> QED
    BY <2>1, <2>2, <2>3, <2>4
<1>2. ASSUME NEW t \in Teams, team'[t] = "live", team[t] = "live"
      PROVE  Fine(t)
  <2>1. CASE \E row \in team_user : row.team = t /\ row.role = "owner"
    BY <1>1, <1>2, <2>1
  <2>2. CASE t \in deposed
    BY <2>2, HistoryGrows
  <2>3. ASSUME NEW u \in Users, NEW p \in ended[u], ~EndedBefore(made[t], p)
        PROVE  Fine(t)
    <3>1. p \in ended'[u] /\ p \in Requests \ {q}
      BY <2>3, HistoryGrows, StepCases DEF TypeOK, PastShape
    <3>2. made'[t] = made[t] /\ made[t] \in Requests \cup {Start}
      BY <1>2, TeamsAfter DEF TypeOK
    <3>3. ~EndedBefore(made[t], p)'
      BY <2>3, <3>1, <3>2, Unmoved DEF EndedBefore
    <3> QED
      BY <3>1, <3>3
  <2> QED
    BY <1>2, <2>1, <2>2, <2>3 DEF OwnerKept
<1>3. ASSUME NEW t \in Teams, team'[t] = "live", team[t] # "live"
      PROVE  Fine(t)
  BY <1>3, TeamsAfter
<1> QED
  BY <1>2, <1>3 DEF OwnerKept

-----------------------------------------------------------------------------
(* Deletions *)

\* What ReadWebsites found.
LEMMA WebsitesFound ==
  ASSUME TypeOK, NEW q \in Requests, ReadWebsites(q)
  PROVE  /\ request'[q].read = {e \in Websites : entity[e].owner = request[q].target}
         /\ request'[q].owned = request[q].owned
<1>1. PICK es : es = {e \in Websites : entity[e].owner = request[q].target}
  OBVIOUS
<1>2. request' = [request EXCEPT ![q].pc = "teams", ![q].read = es]
  BY <1>1 DEF ReadWebsites
<1>3. PICK r : r = [request[q] EXCEPT !.pc = "teams", !.read = es]
  OBVIOUS
<1>4. request' = [request EXCEPT ![q] = r]
  BY <1>2, <1>3
<1>5. r.read = es /\ r.owned = request[q].owned
  BY <1>3 DEF TypeOK, RequestRecords
<1> QED
  BY <1>1, <1>4, <1>5 DEF TypeOK

LEMMA WebsitesStep ==
  ASSUME TypeOK, CallShape, PastShape, WebsitesRead, NEW q \in Requests, Step(q)
  PROVE  WebsitesRead'
<1>1. ASSUME NEW p \in Requests, request'[p].kind = "erase", request'[p].pc \in {"teams", "act"},
             NEW e \in Entities, entity'[e].is = "there", e \in Websites,
             entity'[e].owner = request'[p].target
      PROVE  e \in request'[p].read \/ ~EndedBefore(made[e], p)'
  <2>1. CASE p = q
    <3>1. Checking(q) /\ request'[q] # Done
      BY <1>1, <2>1, StepCases, RecordTypes DEF Arrival, First, Acting
    <3>2. /\ request'[q].target = request[q].target /\ request[q].kind = "erase"
          /\ entity' = entity /\ made' = made /\ before' = before
      BY <1>1, <2>1, <3>1 DEF Checking, tables, past
    <3>3. ReadWebsites(q) \/ ReadTeams(q)
      BY <1>1, <2>1, <3>1, <3>2 DEF Checking, ReadMember, CheckRank, ReadNewMember, At
    <3>4. CASE ReadWebsites(q)
      BY <1>1, <2>1, <3>2, <3>4, WebsitesFound
    <3>5. CASE ReadTeams(q)
      <4>1. At(q, {"erase"}, "teams") /\ request'[q].read = request[q].read
        BY <3>5, TeamsFound DEF ReadTeams
      <4>2. e \in request[q].read \/ ~EndedBefore(made[e], q)
        BY <1>1, <2>1, <3>2, <4>1 DEF WebsitesRead, There
      <4> QED
        BY <2>1, <3>2, <4>1, <4>2 DEF EndedBefore
    <3> QED
      BY <3>3, <3>4, <3>5
  <2>2. CASE p # q
    <3>1. request'[p] = request[p]
      BY <2>2, Unmoved
    <3>2. CASE entity[e].is = "there" /\ entity'[e].owner = entity[e].owner /\ made'[e] = made[e]
      <4>1. e \in request[p].read \/ ~EndedBefore(made[e], p)
        BY <1>1, <3>1, <3>2 DEF WebsitesRead, There, At
      <4>2. made[e] \in Requests \cup {Start}
        BY DEF TypeOK
      <4> QED
        BY <2>2, <3>1, <3>2, <4>1, <4>2, Unmoved DEF EndedBefore
    <3>3. CASE made'[e] = q
      <4>1. ~EndedBefore(q, p)'
        BY <2>2, NotBefore
      <4> QED
        BY <3>3, <4>1 DEF EndedBefore
    <3> QED
      BY <1>1, <3>2, <3>3, EntitiesAfter
  <2> QED
    BY <2>1, <2>2
<1> QED
  BY <1>1 DEF WebsitesRead, At, There

LEMMA EntityStep ==
  ASSUME TypeOK, CallShape, EntityShape, NEW q \in Requests, Step(q)
  PROVE  EntityShape'
<1>1. None \notin Users \cup Teams
  BY TeamsAssumption
<1>2. ASSUME NEW e \in Entities, entity'[e].is = "there"
      PROVE  entity'[e].owner # None
  BY <1>1, <1>2, EntitiesAfter DEF EntityShape, There
<1> QED
  BY <1>2 DEF EntityShape, There

LEMMA CompleteStep ==
  ASSUME TypeOK, CallShape, PastShape, EntityShape, WebsitesRead, DeletionComplete,
         NEW q \in Requests, Step(q)
  PROVE  DeletionComplete'
<1>1. ASSUME NEW e \in Entities, entity'[e].is = "there",
             ~(entity'[e].owner \in Teams /\ e \in Websites),
             NEW p \in ended'[entity'[e].owner]
      PROVE  ~EndedBefore(made[e], p)'
  <2>1. PICK o : o = entity'[e].owner
    OBVIOUS
  <2>2. CASE (CreateEntity(q) \/ Transfer(q)) /\ made'[e] = q /\ o \in Users \cup Teams
    <3>1. p \in ended[o]
      BY <1>1, <2>1, <2>2 DEF CreateEntity, Transfer
    <3>2. p \in Requests \ {q}
      BY <2>2, <3>1, StepCases DEF PastShape, TypeOK
    <3>3. ~EndedBefore(q, p)'
      BY <3>2, NotBefore
    <3> QED
      BY <2>2, <3>3 DEF EndedBefore
  <2>3. CASE entity[e].is = "there" /\ o = entity[e].owner /\ made'[e] = made[e]
    <3>1. o \in Users \cup Teams
      BY <2>3 DEF EntityShape, There, TypeOK
    <3>2. CASE p \in ended[o]
      <4>1. ~EndedBefore(made[e], p)
        BY <1>1, <2>1, <2>3, <3>2 DEF DeletionComplete, There
      <4>2. p \in Requests \ {q} /\ made[e] \in Requests \cup {Start}
        BY <3>1, <3>2, StepCases DEF PastShape, TypeOK
      <4> QED
        BY <2>3, <4>1, <4>2, Unmoved DEF EndedBefore
    <3>3. CASE p \notin ended[o]
      <4>1. DeleteTeam(q) \/ DeleteUser(q)
        BY <1>1, <2>1, <3>3, StepCases DEF Act, InsertMember, UpdateMember, DeleteMember,
           CreateTeam, CreateEntity, Transfer, past
      <4>2. CASE DeleteTeam(q)
        <5>1. team[o] = "live" /\ o = request[q].team
          BY <1>1, <2>1, <3>1, <3>3, <4>2 DEF DeleteTeam, TypeOK
        <5>2. o \in Teams
          BY <4>2, <5>1 DEF DeleteTeam, At, CallShape, Proper, Open
        <5>3. entity' = Removed({x \in There \ Websites : entity[x].owner = o})
          BY <4>2, <5>1 DEF DeleteTeam
        <5>4. entity'[e].is = "gone"
          BY <1>1, <2>1, <2>3, <5>2, <5>3, RemovedType DEF There
        <5> QED
          BY <1>1, <5>4
      <4>3. CASE DeleteUser(q)
        <5>1. ~UNCHANGED <<tables, ended>>
          BY <1>1, <2>1, <3>3
        <5>2. PICK r : r = request[q]
          OBVIOUS
        <5>3. /\ p = q
              /\ (~cloud /\ o \in r.owned) \/ o = r.target
          <6>1. p \in ended'[o]
            BY <1>1, <2>1
          <6>2. ended'[o] = IF \/ ~cloud /\ o \in r.owned /\ team[o] = "live"
                               \/ o = r.target /\ o \in user
                            THEN ended[o] \cup {q} ELSE ended[o]
            BY <3>1, <4>3, <5>1, <5>2, UserDeleted
          <6> QED
            BY <3>3, <6>1, <6>2
        <5>4. PICK out : /\ entity' = Removed(out)
                         /\ out = {x \in There : IF x \in Websites THEN x \in r.read
                                                 ELSE GoesWith(q, x)}
          BY <4>3, <5>1, <5>2, UserDeleted
        <5>5. e \notin out
          BY <1>1, <5>4, RemovedType
        <5>6. e \in Websites /\ e \notin r.read
          BY <2>3, <5>2, <5>3, <5>4, <5>5 DEF There, GoesWith
        <5>7. o \notin Teams
          BY <1>1, <2>1, <5>6
        <5>8. At(q, {"erase"}, "act") /\ before' = before
          BY <4>3 DEF DeleteUser
        <5>9. o = r.target
          BY <5>2, <5>3, <5>7 DEF TypeOK, RequestRecords
        <5>10. ~EndedBefore(made[e], q)
          BY <2>3, <5>2, <5>6, <5>8, <5>9 DEF WebsitesRead, There
        <5> QED
          BY <2>3, <5>3, <5>8, <5>10 DEF EndedBefore
      <4> QED
        BY <4>1, <4>2, <4>3
    <3> QED
      BY <3>2, <3>3
  <2> QED
    BY <1>1, <2>1, <2>2, <2>3, EntitiesAfter
<1> QED
  BY <1>1 DEF DeletionComplete, There

-----------------------------------------------------------------------------
(* What requests have seen *)

LEMMA RolesStep ==
  ASSUME TypeOK, CallShape, MemberRead, RolesSeen, TypeOK',
         NEW q \in Requests, Step(q), Witness
  PROVE  RolesSeen'
<1>0. Written' /\ request' \in [Requests -> RequestRecords]
  BY DEF TypeOK, Written, EntityRecords
<1>1. ASSUME NEW p \in Requests, Pending(p), request'[p].kind \in {"role", "remove"}
      PROVE  LET r == request'[p]
             IN /\ \A row \in RowsNext(r.team, r.actor) : Rank[row.role] <= seen'[p].high
                /\ \A row \in RowsNext(r.team, r.target) : seen'[p].low <= Rank[row.role]
                /\ r.pc \in {"rank", "act"} => seen'[p].low <= Rank[r.row.role]
                /\ r.pc = "act" /\ r.actor \notin Admins /\ r.actor # r.target
                     => seen'[p].high > seen'[p].low
  <2>1. /\ seen[p].high <= seen'[p].high /\ seen'[p].low <= seen[p].low
        /\ \A row \in RowsNext(request'[p].team, request'[p].actor) :
             Rank[row.role] <= seen'[p].high
        /\ \A row \in RowsNext(request'[p].team, request'[p].target) :
             seen'[p].low <= Rank[row.role]
    BY <1>0, <1>1, Witnessed
  <2>2. /\ seen[p].high \in Int /\ seen[p].low \in Int
        /\ seen'[p].high \in Int /\ seen'[p].low \in Int
    <3>1. seen[p] \in SeenRecords /\ seen'[p] \in SeenRecords
      BY DEF TypeOK, SeenRecords
    <3> QED
      BY <3>1 DEF SeenRecords
  <2>3. CASE p # q
    <3>1. request'[p] = request[p] /\ Open(p)
      BY <1>1, <2>3, Unmoved DEF Open, Pending
    <3>2. PICK r : r = request[p]
      OBVIOUS
    <3>3. /\ r.pc \in {"rank", "act"} => seen[p].low <= Rank[r.row.role]
          /\ r.pc = "act" /\ r.actor \notin Admins /\ r.actor # r.target
               => seen[p].high > seen[p].low
      BY <1>1, <3>1, <3>2 DEF RolesSeen, IsAdmin, Self
    <3>4. r.pc \in {"rank", "act"} => Rank[r.row.role] \in Int
      <4>1. r.pc \in {"rank", "act"} => r.row.role \in TeamRoles
        BY <1>1, <3>1, <3>2 DEF MemberRead, Rows
      <4> QED
        BY <4>1, RankType
    <3> QED
      BY <2>1, <2>2, <3>1, <3>2, <3>3, <3>4
  <2>4. CASE p = q /\ request'[q].pc \in {"rank", "act"}
    <3>1. Checking(q) /\ request'[q] # Done /\ request'[q].pc # "done"
      BY <1>1, <2>4, StepCases, RecordTypes DEF Arrival, First, Acting
    <3>2. /\ team_user' = team_user /\ request'[q].kind = request[q].kind
          /\ request'[q].team = request[q].team /\ request'[q].target = request[q].target
          /\ request'[q].actor = request[q].actor /\ Open(q)
      BY <1>1, <2>4, <3>1 DEF Checking, tables
    <3>3. ReadMember(q) \/ CheckRank(q)
      BY <1>1, <2>4, <3>1, <3>2 DEF Checking, ReadNewMember, ReadTeams, At
    <3>4. CASE ReadMember(q)
      <4>1. request'[q].row \in RowsNext(request'[q].team, request'[q].target)
        BY <3>1, <3>2, <3>4, MemberFound DEF RowsOf, RowsNext
      <4>2. seen'[q].low <= Rank[request'[q].row.role]
        BY <2>1, <2>4, <4>1
      <4>3. request'[q].pc = "act" => IsAdmin(q) \/ Self(q)
        BY <3>1, <3>4, MemberFound
      <4> QED
        BY <2>1, <2>4, <3>2, <4>2, <4>3 DEF IsAdmin, Self
    <3>5. CASE CheckRank(q)
      <4>1. PICK row \in RowsOf(request[q].team, request[q].actor) :
              Rank[row.role] > Rank[request[q].row.role]
        BY <3>1, <3>5, RankFound
      <4>2. request'[q].row = request[q].row /\ request[q].pc = "rank"
        BY <3>1, <3>5, RankFound
      <4>3. row \in RowsNext(request'[q].team, request'[q].actor)
        BY <3>2, <4>1 DEF RowsOf, RowsNext
      <4>4. PICK high, low : high = Rank[row.role] /\ low = Rank[request[q].row.role]
        OBVIOUS
      <4>5. high <= seen'[q].high
        BY <2>1, <2>4, <4>3, <4>4
      <4>6. seen[q].low <= low
        BY <1>1, <2>4, <3>2, <4>2, <4>4 DEF RolesSeen
      <4>7. high \in Int /\ low \in Int
        <5>1. row.role \in TeamRoles
          BY <4>1 DEF RowsOf, TypeOK, Rows
        <5>2. request[q].row.role \in TeamRoles
          BY <1>1, <2>4, <3>2, <4>2 DEF MemberRead, Rows
        <5> QED
          BY <4>4, <5>1, <5>2, RankType
      <4>8. seen'[q].low <= low /\ seen'[q].high > seen'[q].low
        BY <2>1, <2>2, <2>4, <4>1, <4>4, <4>5, <4>6, <4>7
      <4> QED
        BY <2>1, <2>4, <4>2, <4>4, <4>8
    <3> QED
      BY <3>3, <3>4, <3>5
  <2> QED
    BY <2>1, <2>3, <2>4
<1> QED
  BY <1>1 DEF RolesSeen, Open, Pending, RowsOf, RowsNext, IsAdmin, Self

LEMMA HoldingsStep ==
  ASSUME TypeOK, CallShape, HoldingsSeen, TypeOK', NEW q \in Requests, Step(q), Witness
  PROVE  HoldingsSeen'
<1>0. Written' /\ request' \in [Requests -> RequestRecords]
  BY DEF TypeOK, Written, EntityRecords
<1>1. ASSUME NEW p \in Requests, Pending(p), request'[p].kind \in {"erase", "dissolve"}
      PROVE  LET r == request'[p]
             IN /\ {r.target, r.team} \ {None} \subseteq seen'[p].owners
                /\ \A row \in team_user' :
                     row.user = r.target /\ row.role = "owner" => row.team \in seen'[p].owners
                /\ \A e \in Entities :
                     entity'[e].owner \in seen'[p].owners => e \in seen'[p].held
                /\ r.read \subseteq seen'[p].held /\ r.owned \subseteq seen'[p].owners
  <2>1. /\ seen[p].owners \subseteq seen'[p].owners /\ seen[p].held \subseteq seen'[p].held
        /\ {request'[p].target, request'[p].team} \ {None} \subseteq seen'[p].owners
        /\ \A t \in Teams : \A row \in RowsNext(t, request'[p].target) :
             row.role = "owner" => t \in seen'[p].owners
        /\ \A e \in Entities : entity'[e].owner \in seen'[p].owners => e \in seen'[p].held
    BY <1>0, <1>1, Witnessed
  <2>2. \A row \in team_user' :
          row.user = request'[p].target /\ row.role = "owner" => row.team \in seen'[p].owners
    <3>1. \A row \in team_user' : row.team \in Teams
      BY <1>0 DEF Written, Rows
    <3> QED
      BY <2>1, <3>1 DEF RowsNext
  <2>3. request'[p].read \subseteq seen'[p].held /\ request'[p].owned \subseteq seen'[p].owners
    <3>1. CASE p # q
      <4>1. request'[p] = request[p] /\ Open(p)
        BY <1>1, <3>1, Unmoved DEF Open, Pending
      <4>2. request[p].read \subseteq seen[p].held /\ request[p].owned \subseteq seen[p].owners
        BY <1>1, <4>1 DEF HoldingsSeen
      <4> QED
        BY <2>1, <4>1, <4>2
    <3>2. CASE p = q /\ Arrival(q)
      BY <3>2 DEF Arrival, First
    <3>3. CASE p = q /\ ~Arrival(q)
      <4>1. Checking(q) /\ request'[q] # Done
        BY <1>1, <3>3, StepCases, RecordTypes DEF Acting, Pending
      <4>2. /\ team_user' = team_user /\ entity' = entity /\ request'[q].kind = request[q].kind
            /\ request'[q].target = request[q].target /\ Open(q)
            /\ request'[q].read = request[q].read \/ ReadWebsites(q)
            /\ request'[q].owned = request[q].owned \/ ReadTeams(q)
        BY <4>1 DEF Checking, tables
      <4>3. request[q].read \subseteq seen[q].held /\ request[q].owned \subseteq seen[q].owners
        BY <1>1, <3>3, <4>2 DEF HoldingsSeen
      <4>4. ASSUME ReadWebsites(q)
            PROVE  request'[q].read \subseteq seen'[q].held
        <5>1. request[q].target \in Users
          BY <4>2, <4>4 DEF ReadWebsites, At, CallShape, Proper
        <5>2. request[q].target \in seen'[q].owners
          BY <2>1, <3>3, <4>2, <5>1, TeamsAssumption
        <5>3. Websites \subseteq Entities
          BY TeamsAssumption
        <5> QED
          BY <2>1, <3>3, <4>2, <4>4, <5>2, <5>3, WebsitesFound
      <4>5. ASSUME ReadTeams(q)
            PROVE  request'[q].owned \subseteq seen'[q].owners
        BY <2>1, <3>3, <4>2, <4>5, TeamsFound DEF TeamsOwnedBy, RowsOf, RowsNext
      <4> QED
        BY <2>1, <3>3, <4>2, <4>3, <4>4, <4>5
    <3> QED
      BY <3>1, <3>2, <3>3
  <2> QED
    BY <2>1, <2>2, <2>3
<1> QED
  BY <1>1 DEF HoldingsSeen, Open, Pending

-----------------------------------------------------------------------------
(* What deletions take *)

LEMMA JustifiedStep ==
  ASSUME TypeOK, CallShape, HoldingsSeen, NEW q \in Requests, Step(q),
         NEW p \in Requests, At(p, {"erase", "dissolve"}, "act"), request'[p].pc = "done"
  PROVE  /\ \A e \in There : entity'[e].is = "gone" => e \in seen[p].held
         /\ \A t \in Teams : team[t] = "live" /\ team'[t] = "gone" => t \in seen[p].owners
<1>1. p = q
  BY Unmoved DEF At
<1>2. PICK r : r = request[q]
  OBVIOUS
<1>3. r.kind \in {"erase", "dissolve"} /\ r.pc = "act"
  BY <1>1, <1>2 DEF At
<1>4. /\ {r.target, r.team} \ {None} \subseteq seen[q].owners
      /\ \A e \in Entities : entity[e].owner \in seen[q].owners => e \in seen[q].held
      /\ r.read \subseteq seen[q].held /\ r.owned \subseteq seen[q].owners
  BY <1>2, <1>3 DEF HoldingsSeen, Open
<1>5. None \notin Teams /\ None \notin Users
  BY TeamsAssumption
<1>6. CASE UNCHANGED <<entity, team>>
  BY <1>6 DEF There
<1>7. CASE DeleteTeam(q)
  <2>1. r.team \in Teams /\ r.team \in seen[q].owners
    BY <1>2, <1>4, <1>5, <1>7 DEF DeleteTeam, At, CallShape, Proper, Open
  <2>2. \A t \in Teams : team[t] = "live" /\ team'[t] = "gone" => t = r.team
    BY <1>2, <1>7 DEF DeleteTeam, TypeOK
  <2>3. PICK out : /\ entity' \in {entity, Removed(out)}
                   /\ \A e \in out : entity[e].owner = r.team
    <3> DEFINE out == {e \in There \ Websites : entity[e].owner = r.team}
    <3>1. entity' \in {entity, Removed(out)}
      BY <1>2, <1>7 DEF DeleteTeam
    <3> QED
      BY <3>1
  <2>4. \A e \in There : entity'[e].is = "gone" => e \in out
    BY <2>3, RemovedType DEF There
  <2> QED
    BY <1>1, <1>4, <2>1, <2>2, <2>3, <2>4 DEF There
<1>8. CASE DeleteUser(q) /\ ~UNCHANGED <<tables, ended>>
  <2>1. r.target \in seen[q].owners
    BY <1>2, <1>4, <1>5, <1>8 DEF DeleteUser, At, CallShape, Proper, Open
  <2>2. \A t \in Teams : team[t] = "live" /\ team'[t] = "gone" => t \in r.owned
    BY <1>2, <1>8, UserDeleted
  <2>3. PICK out : /\ entity' = Removed(out)
                   /\ out = {e \in There : IF e \in Websites THEN e \in r.read ELSE GoesWith(q, e)}
    BY <1>2, <1>8, UserDeleted
  <2>4. \A e \in There : entity'[e].is = "gone" => e \in out
    BY <2>3, RemovedType DEF There
  <2>5. \A e \in out : e \in seen[q].held
    BY <1>2, <1>4, <2>1, <2>3 DEF GoesWith, There
  <2> QED
    BY <1>1, <1>4, <2>2, <2>4, <2>5
<1>9. CASE Arrive(q) \/ Check(q)
  <2>1. UNCHANGED <<entity, team>>
    BY <1>9, Arrived, Checked DEF Arrival, Checking, tables
  <2> QED
    BY <1>6, <2>1
<1>10. CASE DeleteUser(q) /\ UNCHANGED tables
  BY <1>6, <1>10 DEF tables
<1>11. CASE InsertMember(q) \/ UpdateMember(q) \/ DeleteMember(q) \/ CreateTeam(q)
            \/ CreateEntity(q) \/ Transfer(q)
  BY <1>2, <1>3, <1>11
     DEF InsertMember, UpdateMember, DeleteMember, CreateTeam, CreateEntity, Transfer, At
<1> QED
  BY <1>7, <1>8, <1>9, <1>10, <1>11 DEF Step, Act

-----------------------------------------------------------------------------
(* The theorems *)

Inv ==
  /\ TypeOK /\ CallShape /\ PastShape
  /\ TeamShape /\ NewcomerRead /\ MemberRead /\ MembershipUnique
  /\ TeamsRead /\ OwnerKept
  /\ EntityShape /\ WebsitesRead /\ DeletionComplete
  /\ RolesSeen /\ HoldingsSeen

\* At the start a user has one row in a team at most, and a live team its owner.
LEMMA RowsInit ==
  ASSUME Init
  PROVE  /\ \A x \in team_user : x.id = Start /\ x.team \in Teams /\ team[x.team] = "live"
         /\ \A x, y \in team_user : x.team = y.team /\ x.user = y.user => x = y
         /\ \A t \in Teams : team[t] = "live" =>
              \E x \in team_user : x.team = t /\ x.role = "owner"
<1>1. PICK role \in [Teams -> [Users -> Roles \cup {"owner", None}]] :
        /\ \A t \in Teams : Cardinality({u \in Users : role[t][u] = "owner"}) = 1
        /\ team_user =
             UNION {{[id |-> Start, team |-> t, user |-> u, role |-> role[t][u]] :
                      u \in {v \in Users : role[t][v] # None}} :
                    t \in {t \in Teams : team[t] = "live"}}
  BY DEF Init
<1> DEFINE Row(t, u) == [id |-> Start, team |-> t, user |-> u, role |-> role[t][u]]
<1>2. \A x : x \in team_user <=> \E t \in Teams, u \in Users :
                                   team[t] = "live" /\ role[t][u] # None /\ x = Row(t, u)
  BY <1>1
<1>3. \A t \in Teams, u \in Users :
        /\ Row(t, u).id = Start /\ Row(t, u).team = t /\ Row(t, u).user = u
        /\ Row(t, u).role = role[t][u]
  OBVIOUS
<1> HIDE DEF Row
<1>4. ASSUME NEW t \in Teams, team[t] = "live"
      PROVE  \E x \in team_user : x.team = t /\ x.role = "owner"
  <2>1. {u \in Users : role[t][u] = "owner"} # {}
    BY <1>1, FS_EmptySet
  <2>2. PICK u \in Users : role[t][u] = "owner"
    BY <2>1
  <2>3. Row(t, u) \in team_user
    BY <1>2, <1>4, <2>2 DEF None
  <2> QED
    BY <1>3, <2>2, <2>3
<1> QED
  BY <1>2, <1>3, <1>4

LEMMA InvInit == Init => Inv
<1> SUFFICES ASSUME Init PROVE Inv
  OBVIOUS
<1>1. TypeOK
  BY TypeInit
<1>2. \A q \in Requests : request[q].pc = "idle" /\ request[q].kind = None
  BY DEF Init, NoRequest
<1>3. CallShape /\ NewcomerRead /\ MemberRead /\ TeamsRead /\ WebsitesRead /\ RolesSeen
      /\ HoldingsSeen
  BY <1>2 DEF CallShape, NewcomerRead, MemberRead, TeamsRead, WebsitesRead, RolesSeen,
     HoldingsSeen, Open, At
<1>4. PastShape
  BY RowsInit DEF PastShape, Init
<1>5. TeamShape
  BY RowsInit DEF TeamShape
<1>6. MembershipUnique
  BY RowsInit DEF MembershipUnique
<1>7. OwnerKept
  BY RowsInit DEF OwnerKept
<1>8. EntityShape
  <2>1. None \notin Users \cup Teams
    BY TeamsAssumption
  <2> QED
    BY <2>1 DEF EntityShape, There, Init, Unborn
<1>9. DeletionComplete
  <2>1. \A e \in There : entity[e].owner \in Users \cup Teams
    BY <1>1, <1>8 DEF EntityShape, There, TypeOK
  <2> QED
    BY <2>1 DEF DeletionComplete, Init
<1> QED
  BY <1>1, <1>3, <1>4, <1>5, <1>6, <1>7, <1>8, <1>9 DEF Inv

LEMMA InvNext == Inv /\ [Next]_vars => Inv'
<1> SUFFICES ASSUME Inv, [Next]_vars PROVE Inv'
  OBVIOUS
<1>0. TypeOK'
  BY TypeStep DEF Inv
<1>1. CASE UNCHANGED vars
  <2> USE <1>1 DEF vars, tables, past, Inv
  <2>1. CallShape' /\ PastShape'
    BY DEF CallShape, PastShape, Proper, Open
  <2>2. TeamShape' /\ NewcomerRead' /\ MemberRead' /\ MembershipUnique'
    BY DEF TeamShape, NewcomerRead, MemberRead, MembershipUnique, RowsOf, EndedBefore, IsAdmin, At
  <2>3. TeamsRead' /\ OwnerKept'
    BY DEF TeamsRead, OwnerKept, EndedBefore, At
  <2>4. EntityShape' /\ WebsitesRead' /\ DeletionComplete'
    BY DEF EntityShape, WebsitesRead, DeletionComplete, There, EndedBefore, At
  <2>5. RolesSeen' /\ HoldingsSeen'
    BY DEF RolesSeen, HoldingsSeen, Open, RowsOf, IsAdmin, Self
  <2> QED
    BY <1>0, <2>1, <2>2, <2>3, <2>4, <2>5
<1>2. ASSUME NEW q \in Requests, Step(q), Witness
      PROVE  Inv'
  <2> USE <1>2 DEF Inv
  <2>1. CallShape' /\ PastShape'
    BY CallStep, PastStep
  <2>2. TeamShape' /\ NewcomerRead' /\ MemberRead' /\ MembershipUnique'
    BY TeamShapeStep, NewcomerStep, MemberStep, UniqueStep
  <2>3. TeamsRead' /\ OwnerKept'
    BY TeamsStep, OwnerStep
  <2>4. EntityShape' /\ WebsitesRead' /\ DeletionComplete'
    BY EntityStep, WebsitesStep, CompleteStep
  <2>5. RolesSeen' /\ HoldingsSeen'
    BY <1>0, RolesStep, HoldingsStep
  <2> QED
    BY <1>0, <2>1, <2>2, <2>3, <2>4, <2>5
<1> QED
  BY <1>1, <1>2 DEF Next, Step

LEMMA Invariance == Spec => []Inv
  BY InvInit, InvNext, PTL DEF Spec

\* Rows, requests and what they have read and seen keep their types
\* (app/api/teams, app/api/users).
THEOREM TypeCorrect == Spec => []TypeOK
<1>1. Inv => TypeOK
  BY DEF Inv
<1> QED
  BY <1>1, Invariance, PTL

\* Two rows of a user in a team come from requests that overlapped
\* (teams/join/route.ts and teams/[teamId]/users/route.ts).
THEOREM MembershipIsUnique == Spec => []MembershipUnique
<1>1. Inv => MembershipUnique
  BY DEF Inv
<1> QED
  BY <1>1, Invariance, PTL

\* Only an administrator, or a deletion of the owner's account that began before
\* the team was founded, leaves a live team without its owner
\* (teams/[teamId]/users/[userId]/route.ts; queries/prisma/user.ts, deleteUser).
THEOREM OwnersAreKept == Spec => []OwnerKept
<1>1. Inv => OwnerKept
  BY DEF Inv
<1> QED
  BY <1>1, Invariance, PTL

\* What a user or a team had when its deletion began goes with it, but for a
\* team's websites (queries/prisma/team.ts, deleteTeam; user.ts, deleteUser).
THEOREM DeletionsAreComplete == Spec => []DeletionComplete
<1>1. Inv => DeletionComplete
  BY DEF Inv
<1> QED
  BY <1>1, Invariance, PTL

\* A member is changed by who has outranked him since he asked for it, however
\* requests overlap (teams/[teamId]/users/[userId]/route.ts).
THEOREM RanksAreKept == Spec => RankKept
<1>1. Inv /\ [Next]_vars =>
        [\A q \in Requests :
           /\ At(q, {"role", "remove"}, "act") /\ request'[q].pc = "done"
           /\ ~IsAdmin(q) /\ ~Self(q) /\ team_user' # team_user
           => seen[q].high > seen[q].low]_vars
  BY DEF Inv, RolesSeen, At, Open
<1> QED
  BY <1>1, Invariance, PTL DEF Spec, RankKept

\* A deletion takes only what was the user's, his teams' or the team's at some
\* moment since it began (queries/prisma/user.ts, deleteUser).
THEOREM DeletionsAreJustified == Spec => DeletionJustified
<1>1. Inv /\ [Next]_vars =>
        [\A q \in Requests :
           At(q, {"erase", "dissolve"}, "act") /\ request'[q].pc = "done" =>
             /\ \A e \in There : entity'[e].is = "gone" => e \in seen[q].held
             /\ \A t \in Teams : team[t] = "live" /\ team'[t] = "gone" => t \in seen[q].owners]_vars
  <2> SUFFICES ASSUME Inv, Next, NEW p \in Requests, At(p, {"erase", "dissolve"}, "act"),
                      request'[p].pc = "done"
               PROVE  /\ \A e \in There : entity'[e].is = "gone" => e \in seen[p].held
                      /\ \A t \in Teams : team[t] = "live" /\ team'[t] = "gone"
                           => t \in seen[p].owners
    OBVIOUS
  <2>1. PICK q \in Requests : Step(q)
    BY DEF Next, Step
  <2> QED
    BY <2>1, JustifiedStep DEF Inv
<1> QED
  BY <1>1, Invariance, PTL DEF Spec, DeletionJustified
=============================================================================
