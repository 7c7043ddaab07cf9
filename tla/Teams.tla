-------------------------------- MODULE Teams --------------------------------
(***************************************************************************)
(* Teams of the web interface (app/api/teams, app/api/users, the transfer  *)
(* of a website): who is a member with which role, what belongs to whom,   *)
(* and what the deletion of a team or of a user takes with it.             *)
(*                                                                         *)
(* A handler is a chain of queries, each of which is a step here, so that  *)
(* requests overlap between what one of them checks and what it does.      *)
(* Only createTeam, deleteTeam and deleteUser write in a transaction.  The *)
(* tables have no foreign keys, and team_user no key but its own id.       *)
(***************************************************************************)
EXTENDS Integers, FiniteSets, FiniteSetsExt

CONSTANTS
  Users,
  Admins,      \* the users with the role admin
  Teams,
  Entities,    \* websites, and links, pixels and boards, which all work alike
  Websites,    \* the entities that are websites
  Requests,    \* bound: the requests
  Roles,       \* the team roles that requests grant (teamRoleParam)
  CloudModes   \* the values of CLOUD_MODE

\* TEAM_ROLE_RANK
Rank == [owner |-> 3, manager |-> 2, member |-> 1, viewer |-> 0]
TeamRoles == DOMAIN Rank

\* What was there before the first request; what is not there.
Start == "start"
None == "none"
NoRow == [id |-> None, team |-> None, user |-> None, role |-> None]

ASSUME TeamsAssumption ==
  /\ Admins \subseteq Users /\ Websites \subseteq Entities
  /\ Roles \subseteq TeamRoles \ {"owner"} /\ CloudModes \subseteq BOOLEAN
  /\ {Start, None} \cap (Requests \cup Users \cup Teams \cup Entities) = {}
  /\ Users \cap Teams = {} /\ Teams \cap Entities = {}  \* ids are random

VARIABLES
  cloud,      \* CLOUD_MODE: what is deleted is only marked
  user,       \* the users that are there
  team,       \* unborn, live or gone
  team_user,  \* the rows: [id, team, user, role]; the id is the request's
  entity,     \* what is there of each entity, and its owner
  request,
  before,     \* history: the requests that had ended when a request began
  seen,       \* history: what was true at some moment of a request, see Witness
  made,       \* history: the request that founded a team or gave away an entity
  ended,      \* history: the requests that deleted a user or a team
  deposed     \* history: the teams whose owner an admin demoted or removed

tables == <<user, team, team_user, entity>>
past == <<made, ended, deposed>>
vars == <<cloud, tables, request, before, seen, past>>

Kinds == {"join", "add", "role", "remove", "found", "dissolve", "erase",
          "toUser", "toTeam", "create"}

Stages == {"idle", "find", "permit", "target", "rank", "websites", "teams",
           "website", "act", "done"}

\* Idle and ended requests carry nothing.
NoRequest ==
  [pc |-> "idle", kind |-> None, actor |-> None, target |-> None, team |-> None,
   role |-> None, entity |-> None, row |-> NoRow, read |-> {}, owned |-> {}]

Done == [NoRequest EXCEPT !.pc = "done"]
Unborn == [is |-> "unborn", owner |-> None]

NothingSeen == [high |-> -1, low |-> 4, owners |-> {}, held |-> {}]

Rows == [id : Requests \cup {Start}, team : Teams, user : Users, role : TeamRoles]

RequestRecords ==
  [pc : Stages, kind : Kinds \cup {None}, actor : Users \cup {None},
   target : Users \cup {None}, team : Teams \cup {None}, role : TeamRoles \cup {None},
   entity : Entities \cup {None}, row : Rows \cup {NoRow},
   read : SUBSET Entities, owned : SUBSET Teams]

TypeOK ==
  /\ cloud \in CloudModes
  /\ user \subseteq Users
  /\ team \in [Teams -> {"unborn", "live", "gone"}]
  /\ team_user \subseteq Rows
  /\ entity \in [Entities -> [is : {"unborn", "there", "gone"},
                              owner : Users \cup Teams \cup {None}]]
  /\ request \in [Requests -> RequestRecords]
  /\ before \in [Requests -> SUBSET Requests]
  /\ seen \in [Requests -> [high : -1..3, low : 0..4, owners : SUBSET (Users \cup Teams),
                            held : SUBSET Entities]]
  /\ made \in [Teams \cup Entities -> Requests \cup {Start}]
  /\ ended \in [Users \cup Teams -> SUBSET Requests]
  /\ deposed \subseteq Teams

\* A live team has its owner's row, and what is there belongs to a user or to a
\* live team.  Administrators are in no team and own nothing yet.
Init ==
  /\ cloud \in CloudModes
  /\ user = Users
  /\ team \in [Teams -> {"unborn", "live"}]
  /\ \E role \in [Teams -> [Users -> Roles \cup {"owner", None}]] :
       /\ \A t \in Teams :
            /\ Cardinality({u \in Users : role[t][u] = "owner"}) = 1
            /\ \A u \in Admins : role[t][u] = None
       /\ team_user =
            UNION {{[id |-> Start, team |-> t, user |-> u, role |-> role[t][u]] :
                     u \in {v \in Users : role[t][v] # None}} :
                   t \in {t \in Teams : team[t] = "live"}}
  /\ entity \in [Entities ->
       {Unborn} \cup [is : {"there"}, owner : (Users \ Admins) \cup {t \in Teams : team[t] = "live"}]]
  /\ request = [q \in Requests |-> NoRequest]
  /\ before = [q \in Requests |-> {}]
  /\ seen = [q \in Requests |-> NothingSeen]
  /\ made = [x \in Teams \cup Entities |-> Start]
  /\ ended = [x \in Users \cup Teams |-> {}]
  /\ deposed = {}

-----------------------------------------------------------------------------
(* Requests *)

At(q, kinds, pc) == request[q].pc = pc /\ request[q].kind \in kinds
Goto(q, pc) == request' = [request EXCEPT ![q].pc = pc]
End(q) == request' = [request EXCEPT ![q] = Done]

IsAdmin(q) == request[q].actor \in Admins
Self(q) == request[q].actor = request[q].target

\* getTeamUser: findFirst, in no order.
RowsOf(t, u) == {row \in team_user : row.team = t /\ row.user = u}
Found(t, u) == IF RowsOf(t, u) = {} THEN {NoRow} ELSE RowsOf(t, u)

\* Ids are random: a request can only name what has been made.
KnownTeams == {t \in Teams : team[t] # "unborn"}
KnownWebsites == {e \in Websites : entity[e].is # "unborn"}

\* A user with a session calls one of the handlers.
Call(u, v, t, r, e) ==
  [NoRequest EXCEPT !.actor = u, !.target = v, !.team = t, !.role = r, !.entity = e]

Begin(q, kind, pc, call) ==
  /\ request[q].pc = "idle"
  /\ request' = [request EXCEPT ![q] = [call EXCEPT !.kind = kind, !.pc = pc]]
  /\ before' = [before EXCEPT ![q] = {p \in Requests : request[p].pc = "done"}]
  /\ UNCHANGED <<cloud, tables, past>>

\* An administrator is not asked for a role, and neither is who removes himself.
Join(q) ==
  \E u \in user, t \in KnownTeams :
    Begin(q, "join", "find", Call(u, u, t, "member", None))

AddMember(q) ==
  \E u \in user, v \in Users, t \in KnownTeams, r \in Roles :
    Begin(q, "add", IF u \in Admins THEN "target" ELSE "permit",
          Call(u, v, t, r, None))

ChangeRole(q) ==
  \E u \in user, v \in Users, t \in KnownTeams, r \in Roles :
    Begin(q, "role", IF u \in Admins THEN "target" ELSE "permit",
          Call(u, v, t, r, None))

RemoveMember(q) ==
  \E u \in user, v \in Users, t \in KnownTeams :
    Begin(q, "remove", IF u \in Admins \cup {v} THEN "target" ELSE "permit",
          Call(u, v, t, None, None))

\* An administrator may found a team for someone else.
FoundTeam(q) ==
  \E u \in user, v \in Users :
    /\ u = v \/ u \in Admins
    /\ Begin(q, "found", "act", Call(u, v, None, None, None))

DissolveTeam(q) ==
  \E u \in user, t \in KnownTeams :
    Begin(q, "dissolve", IF u \in Admins THEN "act" ELSE "permit",
          Call(u, None, t, None, None))

\* You cannot delete yourself.
EraseUser(q) ==
  \E u \in user \cap Admins : \E v \in Users \ {u} :
    Begin(q, "erase", "websites", Call(u, v, None, None, None))

\* A new website, link, pixel or board for its creator, or for a team.
Create(q) ==
  \E u \in user :
    \/ Begin(q, "create", "act", Call(u, u, None, None, None))
    \/ \E t \in KnownTeams :
         Begin(q, "create", IF u \in Admins THEN "act" ELSE "permit",
               Call(u, None, t, None, None))

\* An administrator transfers any website to anyone.
TransferToUser(q) ==
  \E u \in user, v \in Users, e \in KnownWebsites :
    Begin(q, "toUser", IF u \in Admins THEN "act" ELSE "website",
          Call(u, v, None, None, e))

TransferToTeam(q) ==
  \E u \in user, t \in KnownTeams, e \in KnownWebsites :
    Begin(q, "toTeam", IF u \in Admins THEN "act" ELSE "website",
          Call(u, None, t, None, e))

-----------------------------------------------------------------------------
(* What a request checks *)

\* findTeam by its access code, which overlooks that a team is marked.
FindTeam(q) ==
  /\ At(q, {"join"}, "find")
  /\ IF \/ team[request[q].team] = "live"
        \/ team[request[q].team] = "gone" /\ cloud
       THEN Goto(q, "target") ELSE End(q)
  /\ UNCHANGED <<cloud, tables, before, past>>

\* getWebsite, of the two transfers; a team's website may only go to oneself.
ReadWebsite(q) ==
  /\ At(q, {"toUser", "toTeam"}, "website")
  /\ LET e == entity[request[q].entity]
         known == e.is = "there" \/ (e.is = "gone" /\ cloud)
     IN CASE known /\ request[q].kind = "toUser" /\ e.owner \in Teams /\ Self(q) ->
               request' = [request EXCEPT ![q].pc = "permit", ![q].team = e.owner]
          [] known /\ request[q].kind = "toTeam" /\ e.owner = request[q].actor ->
               Goto(q, "permit")
          [] OTHER -> End(q)
  /\ UNCHANGED <<cloud, tables, before, past>>

\* ROLE_PERMISSIONS: the team roles that have the permission of a request.
Permitted ==
  [add |-> {"owner", "manager"}, role |-> {"owner", "manager"},
   remove |-> {"owner", "manager"}, dissolve |-> {"owner"},
   create |-> {"owner", "manager", "member"},
   toTeam |-> {"owner", "manager"}, toUser |-> {"owner"}]

\* canUpdateTeam, canDeleteTeam, canDeleteTeamUser, canCreateTeamWebsite, and
\* the second half of canTransferWebsiteToUser and canTransferWebsiteToTeam.
Permit(q) ==
  /\ request[q].pc = "permit"
  /\ \E row \in Found(request[q].team, request[q].actor) :
       IF row # NoRow /\ row.role \in Permitted[request[q].kind]
       THEN Goto(q, IF request[q].kind \in {"add", "role", "remove"} THEN "target" ELSE "act")
       ELSE End(q)
  /\ UNCHANGED <<cloud, tables, before, past>>

\* Mutation: a member of another role passes for new.
ReadNewMemberOfRole(q) ==
  /\ At(q, {"join", "add"}, "target")
  /\ IF \A row \in RowsOf(request[q].team, request[q].target) : row.role # request[q].role
     THEN Goto(q, "act") ELSE End(q)
  /\ UNCHANGED <<cloud, tables, before, past>>

\* A new member is none yet.
ReadNewMember(q) ==
  /\ At(q, {"join", "add"}, "target")
  /\ IF RowsOf(request[q].team, request[q].target) = {} THEN Goto(q, "act") ELSE End(q)
  /\ UNCHANGED <<cloud, tables, before, past>>

\* Mutation: the owner may remove himself.
ReadAnyMember(q) ==
  /\ At(q, {"role", "remove"}, "target")
  /\ \E row \in Found(request[q].team, request[q].target) :
       IF row = NoRow THEN End(q)
       ELSE request' = [request EXCEPT ![q].row = row,
              ![q].pc = IF IsAdmin(q) \/ (request[q].kind = "remove" /\ Self(q))
                        THEN "act" ELSE "rank"]
  /\ UNCHANGED <<cloud, tables, before, past>>

\* Mutation: only a removal asks for the rank.
ReadMemberUnranked(q) ==
  /\ At(q, {"role", "remove"}, "target")
  /\ \E row \in Found(request[q].team, request[q].target) :
       IF row = NoRow \/ (request[q].kind = "remove" /\ ~IsAdmin(q) /\ row.role = "owner")
       THEN End(q)
       ELSE request' = [request EXCEPT ![q].row = row,
              ![q].pc = IF IsAdmin(q) \/ request[q].kind = "role" \/ Self(q)
                        THEN "act" ELSE "rank"]
  /\ UNCHANGED <<cloud, tables, before, past>>

\* The row of the member to change; the owner is not to be removed.
ReadMember(q) ==
  /\ At(q, {"role", "remove"}, "target")
  /\ \E row \in Found(request[q].team, request[q].target) :
       IF row = NoRow \/ (request[q].kind = "remove" /\ ~IsAdmin(q) /\ row.role = "owner")
       THEN End(q)
       ELSE request' = [request EXCEPT ![q].row = row,
              ![q].pc = IF IsAdmin(q) \/ (request[q].kind = "remove" /\ Self(q))
                        THEN "act" ELSE "rank"]
  /\ UNCHANGED <<cloud, tables, before, past>>

Outranks(row, target) == row # NoRow /\ Rank[row.role] > Rank[target.role]

CheckRank(q) ==
  /\ At(q, {"role", "remove"}, "rank")
  /\ \E row \in Found(request[q].team, request[q].actor) :
       IF Outranks(row, request[q].row) THEN Goto(q, "act") ELSE End(q)
  /\ UNCHANGED <<cloud, tables, before, past>>

\* deleteUser reads first what it will delete by id: the user's websites,
ReadWebsites(q) ==
  /\ At(q, {"erase"}, "websites")
  /\ request' = [request EXCEPT ![q].pc = "teams",
       ![q].read = {e \in Websites : entity[e].owner = request[q].target}]
  /\ UNCHANGED <<cloud, tables, before, past>>

\* Mutation: the teams where the user is a member are taken for his own.
TeamsWith(u) == {t \in Teams : RowsOf(t, u) # {}}

TeamsOwnedBy(u) == {t \in Teams : \E row \in RowsOf(t, u) : row.role = "owner"}

\* and the teams that are his.
ReadTeams(q) ==
  /\ At(q, {"erase"}, "teams")
  /\ request' = [request EXCEPT ![q].pc = "act", ![q].owned = TeamsOwnedBy(request[q].target)]
  /\ UNCHANGED <<cloud, tables, before, past>>

-----------------------------------------------------------------------------
(* What a request does *)

InsertMember(q) ==
  /\ At(q, {"join", "add"}, "act")
  /\ team_user' = team_user \cup
       {[id |-> q, team |-> request[q].team, user |-> request[q].target,
         role |-> request[q].role]}
  /\ End(q)
  /\ UNCHANGED <<cloud, user, team, entity, before, past>>

Deposes(q, row) ==
  deposed' = IF IsAdmin(q) /\ row.role = "owner" THEN deposed \cup {row.team} ELSE deposed

\* updateTeamUser by the id of the row, which may be gone by now.
UpdateMember(q) ==
  LET rows == {row \in team_user : row.id = request[q].row.id
                                   /\ row.team = request[q].row.team
                                   /\ row.user = request[q].row.user}
  IN /\ At(q, {"role"}, "act")
     /\ team_user' = (team_user \ rows) \cup
                     {[row EXCEPT !.role = request[q].role] : row \in rows}
     /\ Deposes(q, request[q].row)
     /\ End(q)
     /\ UNCHANGED <<cloud, user, team, entity, before, made, ended>>

\* deleteTeamUser: all rows of the user, not the one that was read.
DeleteMember(q) ==
  /\ At(q, {"remove"}, "act")
  /\ team_user' = team_user \ RowsOf(request[q].team, request[q].target)
  /\ Deposes(q, request[q].row)
  /\ End(q)
  /\ UNCHANGED <<cloud, user, team, entity, before, made, ended>>

\* createTeam, with its owner's row.
CreateTeam(q) ==
  \E t \in Teams :
    /\ At(q, {"found"}, "act") /\ team[t] = "unborn"
    /\ team' = [team EXCEPT ![t] = "live"]
    /\ team_user' = team_user \cup
                     {[id |-> q, team |-> t, user |-> request[q].target, role |-> "owner"]}
    /\ made' = [made EXCEPT ![t] = q]
    /\ End(q)
    /\ UNCHANGED <<cloud, user, entity, before, ended, deposed>>

Removed(es) == [e \in Entities |-> IF e \in es THEN [entity[e] EXCEPT !.is = "gone"]
                                                ELSE entity[e]]
There == {e \in Entities : entity[e].is = "there"}

\* deleteTeam: the links, pixels and boards of the team go with it, its websites
\* do not.  A second deletion fails, or marks what is marked.
DeleteTeam(q) ==
  LET t == request[q].team
  IN /\ At(q, {"dissolve"}, "act")
     /\ IF team[t] = "live"
        THEN /\ team' = [team EXCEPT ![t] = "gone"]
             /\ team_user' = IF cloud THEN team_user
                             ELSE {row \in team_user : row.team # t}
             /\ ended' = [ended EXCEPT ![t] = @ \cup {q}]
        ELSE UNCHANGED <<team, team_user, ended>>
     /\ entity' = IF team[t] = "live" \/ cloud
                  THEN Removed({e \in There \ Websites : entity[e].owner = t})
                  ELSE entity
     /\ End(q)
     /\ UNCHANGED <<cloud, user, before, made, deposed>>

\* Mutation: the links of the teams that go are forgotten.
GoesWithUserOnly(q, e) == entity[e].owner = request[q].target

\* ownedFilter
GoesWith(q, e) ==
  \/ entity[e].owner = request[q].target
  \/ ~cloud /\ entity[e].owner \in request[q].owned

\* deleteUser: by what was read of websites and teams, by what is there of the
\* rest.  A second deletion fails.  In cloud mode it leaves the teams alone.
DeleteUser(q) ==
  LET u == request[q].target
      teams == IF cloud THEN {} ELSE {t \in request[q].owned : team[t] = "live"}
  IN /\ At(q, {"erase"}, "act")
     /\ IF u \in user \/ cloud
        THEN /\ user' = user \ {u}
             /\ team' = [t \in Teams |-> IF t \in teams THEN "gone" ELSE team[t]]
             /\ team_user' = IF cloud THEN team_user
                             ELSE {row \in team_user : row.team \notin request[q].owned
                                                       /\ row.user # u}
             /\ entity' = Removed({e \in There : IF e \in Websites THEN e \in request[q].read
                                                 ELSE GoesWith(q, e)})
             /\ ended' = [x \in DOMAIN ended |->
                            IF x \in teams \/ x \in {u} \cap user THEN ended[x] \cup {q}
                            ELSE ended[x]]
        ELSE UNCHANGED <<tables, ended>>
     /\ End(q)
     /\ UNCHANGED <<cloud, before, made, deposed>>

Give(q, e, owner) ==
  /\ entity' = [entity EXCEPT ![e] = [is |-> IF @.is = "gone" THEN "gone" ELSE "there",
                                      owner |-> owner]]
  /\ made' = [made EXCEPT ![e] = q]

\* createWebsite, createLink, createPixel, createBoard
CreateEntity(q) ==
  \E e \in Entities :
    /\ At(q, {"create"}, "act") /\ entity[e].is = "unborn"
    /\ Give(q, e, IF request[q].team = None THEN request[q].target ELSE request[q].team)
    /\ End(q)
    /\ UNCHANGED <<cloud, user, team, team_user, before, ended, deposed>>

\* updateWebsite, of whatever the website has become since it was checked; a row
\* that was removed is not updated, one that was marked is.
Transfer(q) ==
  LET e == request[q].entity
  IN /\ At(q, {"toUser", "toTeam"}, "act")
     /\ IF entity[e].is = "there" \/ cloud
        THEN Give(q, e, IF request[q].kind = "toUser" THEN request[q].target ELSE request[q].team)
        ELSE UNCHANGED <<entity, made>>
     /\ End(q)
     /\ UNCHANGED <<cloud, user, team, team_user, before, ended, deposed>>

-----------------------------------------------------------------------------
(* The specification *)

Pending(q) == request'[q].pc \notin {"idle", "done"}
Ranks(t, u) == {Rank[row.role] : row \in {r \in team_user' : r.team = t /\ r.user = u}}

\* What was true since a request began: the highest role its actor had and the
\* lowest its target had, for a request that changes a member; for a deletion,
\* the user or team with the teams the user owned, and what belonged to them.
Witness ==
  seen' = [q \in Requests |->
    IF ~Pending(q) THEN NothingSeen
    ELSE CASE request'[q].kind \in {"role", "remove"} ->
                LET r == request'[q]
                IN [seen[q] EXCEPT !.high = Max({@} \cup Ranks(r.team, r.actor)),
                                   !.low = Min({@} \cup Ranks(r.team, r.target))]
           [] request'[q].kind \in {"erase", "dissolve"} ->
                LET owners == seen[q].owners \cup ({request'[q].target, request'[q].team} \ {None})
                      \cup {t \in Teams : 3 \in Ranks(t, request'[q].target)}
                IN [seen[q] EXCEPT !.owners = owners,
                      !.held = @ \cup {e \in Entities : entity'[e].owner \in owners}]
           [] OTHER -> NothingSeen]

Arrive(q) ==
  \/ Join(q) \/ AddMember(q) \/ ChangeRole(q) \/ RemoveMember(q)
  \/ FoundTeam(q) \/ DissolveTeam(q) \/ EraseUser(q)
  \/ Create(q) \/ TransferToUser(q) \/ TransferToTeam(q)

Check(q) ==
  \/ FindTeam(q) \/ ReadWebsite(q) \/ Permit(q) \/ ReadNewMember(q) \/ ReadMember(q)
  \/ CheckRank(q) \/ ReadWebsites(q) \/ ReadTeams(q)

Act(q) ==
  \/ InsertMember(q) \/ UpdateMember(q) \/ DeleteMember(q)
  \/ CreateTeam(q) \/ DeleteTeam(q) \/ DeleteUser(q)
  \/ CreateEntity(q) \/ Transfer(q)

Next == (\E q \in Requests : Arrive(q) \/ Check(q) \/ Act(q)) /\ Witness

Spec == Init /\ [][Next]_vars

-----------------------------------------------------------------------------
(* Properties *)

EndedBefore(p, q) == p = Start \/ p \in before[q]

\* A user has two rows in a team only if the requests that inserted them
\* overlapped: each looks for a row before it inserts one, and the table has no
\* key that would refuse the second (teams/join/route.ts and
\* teams/[teamId]/users/route.ts, getTeamUser before createTeamUser).
MembershipUnique ==
  \A x, y \in team_user :
    x # y /\ x.team = y.team /\ x.user = y.user
      => ~EndedBefore(x.id, y.id) /\ ~EndedBefore(y.id, x.id)

\* A live team has its owner: no overlap of requests lets anyone but an
\* administrator demote or remove him, unless his account was deleted by a
\* request that began before the team was founded
\* (teams/[teamId]/users/[userId]/route.ts; queries/prisma/user.ts, deleteUser).
OwnerKept ==
  \A t \in Teams : team[t] = "live" =>
    \/ \E row \in team_user : row.team = t /\ row.role = "owner"
    \/ t \in deposed
    \/ \E u \in Users : \E q \in ended[u] : ~EndedBefore(made[t], q)

\* Whoever is no administrator changes or removes another member only if, since
\* he asked for it, he has had a higher role than the member has had: the checks
\* read the two roles one after the other, and neither again before the write
\* (teams/[teamId]/users/[userId]/route.ts, "actor must outrank target").
RankKept ==
  [][\A q \in Requests :
       /\ At(q, {"role", "remove"}, "act") /\ request'[q].pc = "done"
       /\ ~IsAdmin(q) /\ ~Self(q) /\ team_user' # team_user
       => seen[q].high > seen[q].low]_vars

\* What a user or a team had when its deletion began goes with it, unless it is
\* given away meanwhile; but a team's websites stay behind, and nobody is left
\* who may see them (queries/prisma/team.ts, deleteTeam; user.ts, deleteUser).
DeletionComplete ==
  \A e \in There :
    LET o == entity[e].owner
    IN \/ o \in Teams /\ e \in Websites
       \/ \A q \in ended[o] : ~EndedBefore(made[e], q)

\* A deletion takes only what belonged, at some moment since it began, to the
\* user or the team that is deleted, or to a team that the user owned
\* (queries/prisma/user.ts, deleteUser, which reads before it deletes).
DeletionJustified ==
  [][\A q \in Requests :
       At(q, {"erase", "dissolve"}, "act") /\ request'[q].pc = "done" =>
         /\ \A e \in There : entity'[e].is = "gone" => e \in seen[q].held
         /\ \A t \in Teams : team[t] = "live" /\ team'[t] = "gone" => t \in seen[q].owners]_vars
=============================================================================
