------------------------------- MODULE Roles --------------------------------
(***************************************************************************)
(* Users, roles and what the middleware knows of them: the handlers of      *)
(* user.service.ts, role.service.ts and confirmDeactivation, which several  *)
(* administrators run at once in several processes, and the cache of        *)
(* authorization-cache.helper.ts in each process, which invalidations reach *)
(* through Redis.  A step is what happens from one await to the next.       *)
(*                                                                         *)
(* The maps of roles and of permissions in the cache are filled and cleared *)
(* alike and are one here: an entry shows the active roles of a user and    *)
(* what each of them grants.                                                *)
(***************************************************************************)
EXTENDS Naturals, FiniteSets

CONSTANTS
    Users,
    Handlers,   \* the handler executions
    Nodes,      \* the Node processes
    Cases       \* what goes on in a behaviour: the users and the custom role it
                \* begins with, what is asked for, by whom and where, whether there is
                \* a cache, and what may fail

SystemRoles == {"super_admin", "admin", "crawler_user", "viewer"}
Slugs == SystemRoles \cup {"custom"}
LegacyRoles == {"ADMIN", "CRAWLER_USER", "VIEWER"}

\* What a role grants: the permission that these handlers ask for, others, none.
Grants == {"manage", "other", "nothing"}

TargetOps == {"create", "update", "delete", "replace", "assign", "revoke", "leave"}
RoleOps == {"role create", "role switch", "role delete", "role grant", "ensure"}

\* A request's parameters; those an operation has no use for are not looked at.
Wants == [op : TargetOps \cup RoleOps, target : Users, roles : SUBSET Slugs,
          legacy : LegacyRoles \cup {"same"}, active : {"same", "on", "off"},
          grants : Grants]

UserType == [state : {"none", "live", "deleted"}, active : BOOLEAN,
             legacy : LegacyRoles, roles : SUBSET Slugs]
RoleType == [state : {"none", "on", "off", "gone"}, grants : Grants]

ASSUME RolesConstants ==
    /\ Users # {} /\ Nodes # {}
    /\ \A c \in Cases :
          /\ c.wants \subseteq Wants /\ c.actors \subseteq Users /\ c.nodes \subseteq Nodes
          /\ \A w \in c.wants :
                /\ w.op = "create" => w.legacy # "same"
                /\ w.op = "assign" => w.roles # {}
                /\ w.op = "role switch" => w.active # "same"
          /\ c.users \in [Users -> UserType]
          /\ c.custom \in RoleType
          /\ \A u \in Users : "custom" \in c.users[u].roles => c.custom.state = "on"
          /\ c.caching \in BOOLEAN
          /\ c.faults \subseteq {"redis", "restart"}

VARIABLES
    case,    \* one of Cases, for good
    user,    \* users and user_roles
    role,    \* roles and role_permissions
    cache,   \* in each process, what it has of each user
    inbox,   \* the users whose invalidation is on its way to a process
    act,     \* the handler executions
    tx,      \* the transactions in which handlers replace and revoke roles
    missed   \* history: why an invalidation is not complete

roleVars == <<case, user, role, cache, inbox, act, tx, missed>>

-----------------------------------------------------------------------------
(* The tables *)

Exists(r) == role[r].state \in {"on", "off"}

Live(u) == user[u].state = "live"
LiveActive(u) == Live(u) /\ user[u].active

\* isUserSuperAdmin and countActiveSuperAdmins, countActiveAdmins
IsSuper(u) == "super_admin" \in user[u].roles
ActiveSupers == {u \in Users : IsSuper(u) /\ LiveActive(u)}
ActiveAdmins == {u \in Users : user[u].legacy = "ADMIN" /\ LiveActive(u)}

\* findUserRoleSlugs and findUserPermissions
Shown == SUBSET [slug : Slugs, grants : Grants]
Truth(u) == {[slug |-> r, grants |-> role[r].grants] :
                r \in {s \in user[u].roles : role[s].state = "on"}}

\* The legacy role that follows from the roles, and the role that goes with a
\* legacy role.
LegacyFor(roles) ==
    CASE roles \cap {"super_admin", "admin"} # {} -> "ADMIN"
      [] "crawler_user" \in roles /\ roles \cap {"super_admin", "admin"} = {} -> "CRAWLER_USER"
      [] OTHER -> "VIEWER"

RoleFor(legacy) ==
    CASE legacy = "ADMIN" -> "admin"
      [] legacy = "VIEWER" -> "viewer"
      [] OTHER -> "crawler_user"

\* SYSTEM_ROLE_DEFAULT_PERMISSIONS, and what is left to grant when
\* ensureSystemPermissions has added them to what a role grants already.
DefaultGrants(r) == IF r \in {"super_admin", "admin"} THEN "manage" ELSE "other"

Ensured(r) == [state |-> "on",
               grants |-> IF role[r].grants = "manage" THEN "manage" ELSE DefaultGrants(r)]

-----------------------------------------------------------------------------
(* Handler executions *)

ActPCs == {"idle", "fetch", "fill", "look", "target", "count", "change", "assign", "clear"}

\* actor is who asks and as what the middleware found of him, mark his legacy
\* role; super, was and seen are what the handler has read of the target and of
\* the super administrators; got is what a query of the cache has answered,
\* stale whether the entry it makes was invalidated meanwhile.
ActType == [pc : ActPCs, home : Nodes, actor : Users, want : Wants, as : Shown,
            mark : LegacyRoles, super : BOOLEAN, was : LegacyRoles,
            seen : SUBSET Users, got : Shown, stale : BOOLEAN]

Free == [pc |-> "idle", home |-> CHOOSE n \in Nodes : TRUE,
         actor |-> CHOOSE u \in Users : TRUE,
         want |-> CHOOSE w \in Wants : w.op = "leave",
         as |-> {}, mark |-> "VIEWER", super |-> FALSE, was |-> "VIEWER",
         seen |-> {}, got |-> {}, stale |-> FALSE]

EmptyEntry == [on |-> FALSE, shown |-> {}, stale |-> FALSE]
EntryType == [on : BOOLEAN, shown : Shown, stale : BOOLEAN]

\* A transaction that has issued its deleteMany, and then has its rows: gone are
\* the rows deleted, left those inserted (replace) or found to remain (revoke).
TxType == [at : {"none", "deleting", "ready"}, gone : SUBSET Slugs, left : SUBSET Slugs]
NoTx == [at |-> "none", gone |-> {}, left |-> {}]

ActBecomes(h, new) == act' = [act EXCEPT ![h] = new]
Proceed(h, pc) == ActBecomes(h, [act[h] EXCEPT !.pc = pc])
Stop(h) == ActBecomes(h, Free)

SlugsOf(shown) == {s.slug : s \in shown}

\* req.user.roles; the controller of update adds the legacy role.
ActorRoles(h) ==
    SlugsOf(act[h].as) \cup
    (IF act[h].want.op = "update"
     THEN {act[h].mark} \cup (IF act[h].mark = "ADMIN" THEN {"admin"} ELSE {})
     ELSE {})

ByASuper(h) == "super_admin" \in ActorRoles(h)

\* resolveUserPermissions: without any permission the defaults of the legacy
\* role hold.
Allowed(shown, mark) ==
    \/ "super_admin" \in SlugsOf(shown)
    \/ \E s \in shown : s.grants = "manage"
    \/ mark = "ADMIN" /\ \A s \in shown : s.grants = "nothing"

\* The users a handler invalidates: all of them for a role.
Covered(w) == IF w.op \in RoleOps THEN Users ELSE {w.target}

\* Entries that process n drops, and queries whose answers are out of date by
\* the time they come back.
Forget(entries, gone) == [u \in Users |-> IF u \in gone THEN EmptyEntry ELSE entries[u]]
Outdate(n, gone) ==
    [h \in Handlers |->
        IF act[h].pc = "fill" /\ act[h].home = n /\ act[h].actor \in gone
        THEN [act[h] EXCEPT !.stale = TRUE] ELSE act[h]]

-----------------------------------------------------------------------------
(* Who asks, and what the middleware finds of him *)

Refused(a, w) == w.op \in {"delete", "replace", "assign", "revoke"} /\ a = w.target

\* authMiddleware has read the user and looks into the cache of the process;
\* requirePermission comes after it.
Enter(h, n, a, w) ==
    LET entry == cache[n][a]
        asked == [Free EXCEPT !.home = n, !.actor = a, !.want = w, !.mark = user[a].legacy]
    IN  /\ act[h].pc = "idle"
        /\ w \in case.wants /\ w.op \notin {"leave", "ensure"} /\ ~Refused(a, w)
        /\ LiveActive(a)
        /\ IF case.caching /\ entry.on
           THEN /\ Allowed(entry.shown, user[a].legacy)
                /\ ActBecomes(h, [asked EXCEPT !.pc = "look", !.as = entry.shown])
           ELSE ActBecomes(h, [asked EXCEPT !.pc = "fetch"])
        /\ UNCHANGED <<user, role, cache, inbox, tx, missed>>

\* confirmDeactivation acts for who has the token, ensureSystemPermissions for
\* a process that starts.
EnterAlone(h, n, w) ==
    /\ act[h].pc = "idle" /\ w \in case.wants /\ w.op \in {"leave", "ensure"}
    /\ ActBecomes(h, [Free EXCEPT !.home = n, !.actor = w.target, !.want = w,
                                  !.pc = IF w.op = "leave" THEN "look" ELSE "change"])
    /\ UNCHANGED <<user, role, cache, inbox, tx, missed>>

\* getUserRoles and getUserPermissions: the query, and its answer put in the
\* cache.
Fetch(h) ==
    /\ act[h].pc = "fetch"
    /\ ActBecomes(h, [act[h] EXCEPT !.pc = "fill", !.got = Truth(act[h].actor)])
    /\ UNCHANGED <<user, role, cache, inbox, tx, missed>>

Fill(h) ==
    LET a == act[h] IN
    /\ a.pc = "fill"
    /\ IF case.caching
       THEN cache' = [cache EXCEPT ![a.home][a.actor] = [on |-> TRUE, shown |-> a.got, stale |-> a.stale]]
       ELSE UNCHANGED cache
    /\ IF Allowed(a.got, a.mark)
       THEN ActBecomes(h, [a EXCEPT !.pc = "look", !.as = a.got, !.got = {}, !.stale = FALSE])
       ELSE Stop(h)
    /\ UNCHANGED <<user, role, inbox, tx, missed>>

-----------------------------------------------------------------------------
(* What a handler reads before it writes *)

\* May the roles that are asked for be given or taken by this actor.
MayName(h) == "super_admin" \in act[h].want.roles => ByASuper(h)
AllExist(w) == \A r \in w.roles : Exists(r)

\* create of a role, update, delete (the users with the role it counts may be
\* deleted ones) and setRolePermissions.
RoleIsNew(w) == \A r \in w.roles : role[r].state = "none"
RoleMaySwitch(w) == AllExist(w) /\ (w.active = "off" => w.roles \cap SystemRoles = {})
RoleMayGo(w) ==
    /\ AllExist(w) /\ w.roles \cap SystemRoles = {}
    /\ \A u \in Users : user[u].roles \cap w.roles = {}
RoleMayGrant(h) == AllExist(act[h].want) /\ MayName(h)

\* findById, and the roles that the request names.
LookPasses(h) ==
    LET w == act[h].want IN
    CASE w.op = "create" -> user[w.target].state = "none"
      [] w.op = "leave" -> LiveActive(w.target)
      [] w.op \in {"update", "delete"} -> Live(w.target)
      [] w.op \in {"replace", "assign", "revoke"} -> Live(w.target) /\ AllExist(w) /\ MayName(h)
      [] w.op = "role create" -> RoleIsNew(w)
      [] w.op = "role switch" -> RoleMaySwitch(w)
      [] w.op = "role delete" -> RoleMayGo(w)
      [] OTHER -> RoleMayGrant(h)

AfterLook(w) ==
    CASE w.op = "leave" -> IF user[w.target].legacy = "ADMIN" THEN "count" ELSE "change"
      [] w.op = "revoke" -> IF "super_admin" \in w.roles THEN "count" ELSE "target"
      [] w.op \in {"update", "delete", "replace", "assign"} -> "target"
      [] OTHER -> "change"

Look(h) ==
    LET w == act[h].want IN
    /\ act[h].pc = "look"
    /\ IF LookPasses(h)
       THEN ActBecomes(h, [act[h] EXCEPT !.pc = AfterLook(w), !.was = user[w.target].legacy])
       ELSE Stop(h)
    /\ UNCHANGED <<user, role, cache, inbox, tx, missed>>

\* Only a super administrator may touch one; delete checks that only of an
\* actor who has roles.
Protected(h) ==
    /\ IsSuper(act[h].want.target) /\ ~ByASuper(h)
    /\ act[h].want.op = "delete" => act[h].as # {}

ChangesLegacy(h) == act[h].want.legacy \notin {"same", act[h].was}

\* update: who changes the legacy role of whom.
MayChangeLegacy(h) ==
    ChangesLegacy(h) =>
        /\ act[h].actor # act[h].want.target
        /\ ActorRoles(h) \cap {"admin", "super_admin", "ADMIN"} # {}
        /\ act[h].was # "ADMIN"

\* Seeded fault: who touches a super administrator is not looked at.
CheckTargetOpen(h) ==
    LET w == act[h].want IN
    /\ act[h].pc = "target"
    /\ IF w.op = "update" /\ ~MayChangeLegacy(h)
       THEN Stop(h)
       ELSE ActBecomes(h, [act[h] EXCEPT !.super = IsSuper(w.target),
                                         !.pc = IF w.op = "delete" THEN "count" ELSE "change"])
    /\ UNCHANGED <<user, role, cache, inbox, tx, missed>>

\* isUserSuperAdmin and the checks that follow from it.
CheckTarget(h) ==
    LET w == act[h].want
        super == IsSuper(w.target)
        demotes == super /\ (\/ w.op = "update" /\ w.active = "off"
                             \/ w.op = "delete"
                             \/ w.op = "replace" /\ "super_admin" \notin w.roles)
    IN  /\ act[h].pc = "target"
        /\ IF Protected(h) \/ (w.op = "update" /\ ~MayChangeLegacy(h))
           THEN Stop(h)
           ELSE ActBecomes(h, [act[h] EXCEPT !.super = super,
                                             !.pc = IF demotes THEN "count" ELSE "change"])
        /\ UNCHANGED <<user, role, cache, inbox, tx, missed>>

\* Seeded fault: one super administrator is enough to go on.
CountAny(h) ==
    /\ act[h].pc = "count"
    /\ ActBecomes(h, [act[h] EXCEPT !.pc = "change", !.seen = ActiveSupers])
    /\ UNCHANGED <<user, role, cache, inbox, tx, missed>>

\* countActiveSuperAdmins, or for confirmDeactivation countActiveAdmins.
CountOthers(h) ==
    LET w == act[h].want
        counted == IF w.op = "leave" THEN ActiveAdmins ELSE ActiveSupers
    IN  /\ act[h].pc = "count"
        /\ IF Cardinality(counted) > 1
           THEN ActBecomes(h, [act[h] EXCEPT !.pc = IF w.op = "revoke" THEN "target" ELSE "change",
                                             !.seen = counted])
           ELSE Stop(h)
        /\ UNCHANGED <<user, role, cache, inbox, tx, missed>>

-----------------------------------------------------------------------------
(* What a handler writes *)

\* Foreign keys: an assignment to a role that is gone fails.
WriteFails(w) ==
    \/ w.op = "assign" /\ ~AllExist(w)
    \/ w.op = "create" /\ user[w.target].state # "none"
    \/ w.op = "role create" /\ \E r \in w.roles : role[r].state # "none"
    \/ w.op \in {"role switch", "role delete", "role grant"} /\ ~AllExist(w)

\* assignSingleRole of the repository.
WithRole(u, r) ==
    [u EXCEPT !.roles = @ \cup {r},
              !.legacy = IF r \in {"super_admin", "admin"} THEN "ADMIN" ELSE @]

\* create, update, delete and deactivateUser, assignUserRoles, revokeSingleRole of
\* the repositories, as values: what is there when transaction t commits.
Created(w) == [state |-> "live", active |-> TRUE, legacy |-> w.legacy, roles |-> {}]
Updated(w, u) ==
    [u EXCEPT !.active = IF w.active = "same" THEN @ ELSE w.active = "on",
              !.legacy = IF w.legacy = "same" THEN @ ELSE w.legacy]
Removed(u) == [u EXCEPT !.state = "deleted", !.active = FALSE]

\* Seeded fault: the legacy role stays when the roles are replaced.
ReplacedAlone(w, t, u) == [u EXCEPT !.roles = (@ \ t.gone) \cup t.left]

Replaced(w, t, u) ==
    [u EXCEPT !.roles = (@ \ t.gone) \cup t.left, !.legacy = LegacyFor(w.roles)]
Revoked(t, u) == [u EXCEPT !.roles = @ \ t.gone, !.legacy = LegacyFor(t.left)]

Written(w, t, u) ==
    CASE w.op = "create" -> Created(w)
      [] w.op = "update" -> Updated(w, u)
      [] w.op \in {"delete", "leave"} -> Removed(u)
      [] w.op = "replace" -> Replaced(w, t, u)
      [] w.op = "assign" -> WithRole(u, CHOOSE r \in w.roles : TRUE)
      [] w.op = "revoke" -> Revoked(t, u)

\* The statement on the role, as a value.
WrittenRole(w, r) ==
    CASE w.op = "role create" -> [state |-> "on", grants |-> w.grants]
      [] w.op = "role switch" -> [role[r] EXCEPT !.state = w.active]
      [] w.op = "role delete" -> [role[r] EXCEPT !.state = "gone"]
      [] w.op = "role grant" -> [role[r] EXCEPT !.grants = w.grants]

\* Seeded fault: the assignments of a deleted role stay.
KeepAssigned(w) == user

\* onDelete: Cascade of user_roles.
Cascaded(w) ==
    IF w.op = "role delete"
    THEN [u \in Users |-> [user[u] EXCEPT !.roles = @ \ w.roles]] ELSE user

\* assignUserRoles and revokeSingleRole are transactions of several statements, in
\* PostgreSQL's READ COMMITTED: each statement sees what others have committed by
\* then, and what is written is seen once the transaction commits.
Transacts(w) == w.op \in {"replace", "revoke"}

\* The rows of these users that the transactions of others keep locked.
Locked(h, users) ==
    UNION {tx[q].gone \cup (IF act[q].want.op = "replace" THEN tx[q].left ELSE {}) :
              q \in {q \in Handlers \ {h} : act[q].want.target \in users /\ tx[q].at = "ready"}}

\* deleteMany: the rows in its snapshot, whether it has to wait for them or not.
DeleteRows(h) ==
    LET w == act[h].want
        rows == user[w.target].roles
    IN  /\ act[h].pc = "change" /\ Transacts(w) /\ tx[h].at = "none"
        /\ tx' = [tx EXCEPT ![h].at = "deleting",
                            ![h].gone = IF w.op = "replace" THEN rows ELSE rows \cap w.roles]
        /\ UNCHANGED <<user, role, cache, inbox, act, missed>>

\* It is through.  createMany inserts what is not there (skipDuplicates), or
\* findMany reads what remains.
SeeRows(h) ==
    LET w == act[h].want
        others == user[w.target].roles \ tx[h].gone
    IN  /\ tx[h].at = "deleting"
        /\ tx[h].gone \cap Locked(h, {w.target}) = {}
        /\ w.op = "replace" => AllExist(w) /\ w.roles \cap Locked(h, {w.target}) = {}
        /\ tx' = [tx EXCEPT ![h].at = "ready",
                            ![h].left = IF w.op = "replace" THEN w.roles \ others ELSE others]
        /\ UNCHANGED <<user, role, cache, inbox, act, missed>>

\* A transaction on assignments fails: a deadlock with another, a role that is
\* gone, an upsert whose row another has inserted or deleted since it looked.
Abort(h) ==
    /\ \/ tx[h].at = "deleting"
       \/ act[h].pc = "change" /\ act[h].want.op = "assign"
       \/ act[h].pc = "assign"
    /\ Stop(h) /\ tx' = [tx EXCEPT ![h] = NoTx]
    /\ UNCHANGED <<user, role, cache, inbox, missed>>

\* The commit of h's transaction: rows it has deleted are not there to delete for
\* those who wait, and rows of the same name that it has inserted are others.
Close(h) ==
    tx' = [q \in Handlers |->
              IF q = h THEN NoTx
              ELSE IF act[q].want.target = act[h].want.target
                   THEN [tx[q] EXCEPT !.gone = @ \ tx[h].gone] ELSE tx[q]]

\* No statement of h has to wait for another transaction's rows.
MayWrite(h) ==
    LET w == act[h].want IN
    /\ Transacts(w) => tx[h].at = "ready"
    /\ w.op = "assign" => w.roles \cap Locked(h, {w.target}) = {}
    /\ w.op = "role delete" => w.roles \cap Locked(h, Users) = {}

AfterChange(h) ==
    LET w == act[h].want IN
    CASE w.op = "create" -> "assign"
      [] w.op = "update" -> IF ChangesLegacy(h) THEN "assign" ELSE "clear"
      [] OTHER -> "clear"

Change(h) ==
    LET w == act[h].want IN
    /\ act[h].pc = "change" /\ MayWrite(h)
    /\ IF WriteFails(w)
       THEN Stop(h) /\ UNCHANGED <<user, role>>
       ELSE /\ CASE w.op \in TargetOps ->
                       /\ user' = [user EXCEPT ![w.target] = Written(w, tx[h], @)]
                       /\ UNCHANGED role
                 [] w.op = "ensure" ->
                       /\ role' = [r \in Slugs |-> IF r \in SystemRoles THEN Ensured(r) ELSE role[r]]
                       /\ UNCHANGED user
                 [] OTHER ->
                       /\ role' = [r \in Slugs |-> IF r \in w.roles THEN WrittenRole(w, r) ELSE role[r]]
                       /\ user' = Cascaded(w)
            /\ IF w.op = "leave" THEN Stop(h) ELSE Proceed(h, AfterChange(h))
    /\ Close(h)
    /\ UNCHANGED <<cache, inbox, missed>>

\* create and update: the role that goes with the legacy role, in a transaction
\* of its own.  create invalidates nothing, though who was created may have
\* come in meanwhile.
AssignMatching(h) ==
    LET w == act[h].want
        known == \/ \E n \in Nodes : cache[n][w.target].on
                 \/ \E q \in Handlers : act[q].pc = "fill" /\ act[q].actor = w.target
    IN  /\ act[h].pc = "assign" /\ RoleFor(w.legacy) \notin Locked(h, {w.target})
        /\ user' = [user EXCEPT ![w.target] = WithRole(@, RoleFor(w.legacy))]
        /\ IF w.op = "create" THEN Stop(h) ELSE Proceed(h, "clear")
        /\ missed' = IF w.op = "create" /\ known THEN missed \cup {"create"} ELSE missed
        /\ UNCHANGED <<role, cache, inbox, tx>>

\* Seeded fault: other processes are not told.
InvalidateHere(h) ==
    LET gone == Covered(act[h].want)
        home == act[h].home
    IN  /\ act[h].pc = "clear"
        /\ cache' = [cache EXCEPT ![home] = Forget(@, gone)]
        /\ act' = [Outdate(home, gone) EXCEPT ![h] = Free]
        /\ UNCHANGED <<user, role, inbox, tx, missed>>

\* The audit log is written, and then invalidateUser or invalidateAll: the
\* entries of the own process, and a message to all; that it may be lost
\* nobody hears.  Without Redis there is neither.
Invalidate(h) ==
    LET gone == Covered(act[h].want)
        home == act[h].home
    IN  /\ act[h].pc = "clear"
        /\ cache' = [cache EXCEPT ![home] = Forget(@, gone)]
        /\ act' = [Outdate(home, gone) EXCEPT ![h] = Free]
        /\ \/ /\ inbox' = [n \in Nodes |-> inbox[n] \cup
                                (IF case.caching /\ n \in case.nodes THEN gone ELSE {})]
              /\ UNCHANGED missed
           \/ /\ "redis" \in case.faults
              /\ missed' = missed \cup {"redis"}
              /\ UNCHANGED inbox
        /\ UNCHANGED <<user, role, tx>>

HandlerStep(h) ==
    \/ Fetch(h) \/ Fill(h) \/ Look(h) \/ CheckTarget(h) \/ CountOthers(h)
    \/ DeleteRows(h) \/ SeeRows(h) \/ Abort(h)
    \/ Change(h) \/ AssignMatching(h) \/ Invalidate(h)

-----------------------------------------------------------------------------
(* The cache by itself *)

\* A message of the channel; one to all users arrives one user at a time.
Deliver(n, u) ==
    /\ u \in inbox[n]
    /\ inbox' = [inbox EXCEPT ![n] = @ \ {u}]
    /\ cache' = [cache EXCEPT ![n] = Forget(@, {u})]
    /\ act' = Outdate(n, {u})
    /\ UNCHANGED <<user, role, tx, missed>>

\* The entry is older than thirty seconds.
Expire(n, u) ==
    /\ cache[n][u].on
    /\ cache' = [cache EXCEPT ![n][u] = EmptyEntry]
    /\ UNCHANGED <<user, role, inbox, act, tx, missed>>

\* A process dies: what it has not invalidated stays in the others.
Die(n) ==
    /\ "restart" \in case.faults
    /\ cache' = [cache EXCEPT ![n] = [u \in Users |-> EmptyEntry]]
    /\ inbox' = [inbox EXCEPT ![n] = {}]
    /\ act' = [h \in Handlers |-> IF act[h].home = n THEN Free ELSE act[h]]
    /\ missed' = IF \E h \in Handlers : act[h].home = n /\ act[h].pc = "clear"
                 THEN missed \cup {"crash"} ELSE missed
    /\ tx' = [h \in Handlers |-> IF act[h].home = n THEN NoTx ELSE tx[h]]
    /\ UNCHANGED <<user, role>>

-----------------------------------------------------------------------------
RolesInit ==
    /\ case \in Cases
    /\ user = case.users
    /\ role = [r \in Slugs |-> IF r = "custom" THEN case.custom
                               ELSE [state |-> "on", grants |-> DefaultGrants(r)]]
    /\ cache = [n \in Nodes |-> [u \in Users |-> EmptyEntry]]
    /\ inbox = [n \in Nodes |-> {}]
    /\ act = [h \in Handlers |-> Free]
    /\ tx = [h \in Handlers |-> NoTx]
    /\ missed = {}

RolesStep ==
    \/ \E h \in Handlers :
          \/ HandlerStep(h)
          \/ \E n \in case.nodes, w \in case.wants :
                EnterAlone(h, n, w) \/ \E a \in case.actors : Enter(h, n, a, w)
    \/ \E n \in Nodes : Die(n) \/ \E u \in Users : Deliver(n, u) \/ Expire(n, u)

RolesNext == RolesStep /\ UNCHANGED case

RolesSpec == RolesInit /\ [][RolesNext]_roleVars

-----------------------------------------------------------------------------
(* Properties *)

\* Types, and the foreign key of user_roles: nobody has a role that is gone.
RolesTypeOK ==
    /\ case \in Cases
    /\ user \in [Users -> UserType] /\ role \in [Slugs -> RoleType]
    /\ cache \in [Nodes -> [Users -> EntryType]]
    /\ inbox \in [Nodes -> SUBSET Users]
    /\ act \in [Handlers -> ActType] /\ tx \in [Handlers -> TxType]
    /\ missed \subseteq {"redis", "crash", "create"}
    /\ \A u \in Users : \A r \in user[u].roles : Exists(r)

\* Handlers at the step that writes to u, which takes them on.
Writes(h, u) ==
    act[h].pc = "change" /\ act[h].want.target = u /\ act'[h].pc # "change"

\* There stays an active super administrator (user.service.ts:193, 373, 481,
\* 651) unless one leaves by himself, or another has gone or become one since
\* the handler looked.
LastSuperAdminStays ==
    ActiveSupers # {} /\ ActiveSupers' = {} =>
        \E h \in Handlers : \E u \in Users :
            /\ Writes(h, u)
            /\ \/ act[h].want.op = "leave"
               \/ act[h].seen \ ActiveSupers # {}
               \/ ~act[h].super

\* Only a super administrator makes another, takes that from one, or deletes
\* one, in whatever order requests of others have come in; but a user who has
\* become one since the handler looked is not known to be, and delete asks only
\* actors who have roles.
SuperAdminsAreGuarded ==
    \A u \in Users :
        \/ IsSuper(u)' = IsSuper(u) /\ Live(u)' = Live(u)
        \/ ~IsSuper(u) /\ ~IsSuper(u)'
        \/ \E h \in Handlers :
              /\ Writes(h, u)
              /\ \/ ByASuper(h)
                 \/ IsSuper(u) /\ (~act[h].super \/ act[h].as = {})
                 \/ act[h].want.op = "leave"

\* However the handlers of administrators who look first and write later come
\* between each other: a super administrator stays, and others make none.
SuperAdminsAreSafe == [][LastSuperAdminStays /\ SuperAdminsAreGuarded]_roleVars

\* Who has the role of an administrator has the legacy role as well, by which
\* confirmDeactivation counts.  Two ways take that from him: an update that looked
\* at the legacy role before it was written over, and a replacement or revocation
\* that has not seen a role he has got since.
AdminsAreMarked ==
    [][\A u \in Users :
        LET marked == user[u].roles \cap {"super_admin", "admin"} # {} => user[u].legacy = "ADMIN"
        IN  marked /\ ~marked' =>
               \E h \in Handlers :
                  /\ Writes(h, u)
                  /\ \/ act[h].want.op = "update" /\ act[h].was # user[u].legacy
                     \/ /\ act[h].want.op = "replace"
                        /\ ~(user[u].roles \subseteq tx[h].gone \cup act[h].want.roles)
                     \/ /\ act[h].want.op = "revoke"
                        /\ ~(user[u].roles \subseteq tx[h].gone \cup tx[h].left)]_roleVars

\* What a process believes of a user is what the tables say, or an invalidation
\* is still to come, or the entry was made from a query that an invalidation
\* overtook, or an invalidation was lost.
CacheIsCurrent ==
    \A n \in Nodes, u \in Users :
        LET entry == cache[n][u] IN
        entry.on /\ ~entry.stale /\ missed = {} /\ entry.shown # Truth(u) =>
            \/ u \in inbox[n]
            \/ \E h \in Handlers : act[h].pc = "clear" /\ u \in Covered(act[h].want)

=============================================================================
