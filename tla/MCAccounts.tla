----------------------------- MODULE MCAccounts -----------------------------
(***************************************************************************)
(* Sessions, Roles, Registration and UserQuotas for TLC.  They share no     *)
(* state here: a behaviour is of one of them, as part says, and the others  *)
(* stay as they began.                                                      *)
(***************************************************************************)
EXTENDS Sessions, Roles, Registration, UserQuotas, TLC

VARIABLE part

\* The handlers of the four modules are the same model values; one caller and the one
\* creator are not among those that can be exchanged.
Permutable == Permutations(Handlers)

-----------------------------------------------------------------------------
(* What goes on in Sessions *)

Load(ops, faults, until) == [ops |-> ops, faults |-> faults, until |-> until]

AccountLoads ==
    {Load({"login", "refresh", "change"}, {}, 2),
     Load({"login", "refresh", "reset"}, {}, 2),
     Load({"login", "refresh", "logout"}, {}, 1),
     Load({"login", "use", "logout"}, {}, 2),
     Load({"login", "use", "change"}, {}, 3),
     Load({"login", "use", "reset"}, {"redis"}, 2),
     Load({"login", "use", "reset"}, {"restart"}, 2),
     Load({"login", "refresh", "confirm", "remove"}, {}, 2),
     Load({"login", "use", "lock"}, {}, 3)}

-----------------------------------------------------------------------------
(* What goes on in Roles *)

CONSTANTS u1, u2, u3, n1, n2

Person(state, legacy, roles) ==
    [state |-> state, active |-> state = "live", legacy |-> legacy, roles |-> roles]
Super == Person("live", "ADMIN", {"super_admin"})
Admin == Person("live", "ADMIN", {"admin"})
Crawler == Person("live", "CRAWLER_USER", {"crawler_user"})
Customer == Person("live", "CRAWLER_USER", {"custom"})
Nobody == Person("none", "VIEWER", {})
People(a, b, c) == (u1 :> a) @@ (u2 :> b) @@ (u3 :> c)

Want(op, target, roles) ==
    [op |-> op, target |-> target, roles |-> roles, legacy |-> "same",
     active |-> "same", grants |-> "nothing"]
Update(target, legacy, active) ==
    [Want("update", target, {}) EXCEPT !.legacy = legacy, !.active = active]
Create(target, legacy) == [Want("create", target, {}) EXCEPT !.legacy = legacy]
Grant(r, grants) == [Want("role grant", u1, {r}) EXCEPT !.grants = grants]

\* Cases without a cache, in one process, and cases with a cache in two.
Plain(users, custom, wants, actors) ==
    [users |-> users, custom |-> [state |-> custom, grants |-> "manage"], wants |-> wants,
     actors |-> actors, nodes |-> {n1}, faults |-> {}, caching |-> FALSE]
Cached(users, custom, wants, actors, faults) ==
    [Plain(users, custom, wants, actors) EXCEPT !.nodes = {n1, n2}, !.faults = faults,
                                                !.caching = TRUE]

RoleCases ==
    {Plain(People(Super, Super, Admin), "none",
           {Want("delete", u1, {}), Want("revoke", u2, {"super_admin"}),
            Want("leave", u2, {}), Want("assign", u3, {"super_admin"})}, Users),
     Plain(People(Super, Super, Admin), "none",
           {Want("replace", u1, {"viewer"}), Update(u1, "same", "off"),
            Want("delete", u2, {})}, Users),
     Plain(People(Super, Crawler, Admin), "none",
           {Want("replace", u2, {"admin"}), Want("replace", u2, {"viewer"}),
            Want("assign", u2, {"admin"}), Update(u2, "VIEWER", "same"),
            Update(u2, "ADMIN", "same"), Want("revoke", u2, {"admin"})}, {u1, u2}),
     Plain(People(Super, Crawler, Nobody), "none",
           {[Want("role create", u1, {"custom"}) EXCEPT !.grants = "manage"],
            Want("role delete", u1, {"custom"}), Want("assign", u2, {"custom"}),
            Want("replace", u2, {"custom"})}, {u1}),
     [Cached(People(Super, Crawler, Nobody), "on",
             {Create(u3, "ADMIN"), Want("assign", u3, {"custom"})}, {u1, u3}, {"redis"})
      EXCEPT !.nodes = {n1}],
     [Cached(People(Super, Customer, Crawler), "on",
             {Want("ensure", u1, {}), Grant("custom", "other")}, {u2}, {})
      EXCEPT !.nodes = {n1}],
     Cached(People(Super, Customer, Crawler), "on", {Grant("custom", "other")}, {u2},
            {"restart"}),
     Cached(People(Super, Customer, Crawler), "on",
            {[Want("role switch", u1, {"custom"}) EXCEPT !.active = "off"],
             Update(u2, "ADMIN", "same")}, {u2}, {})}

-----------------------------------------------------------------------------
(* What goes on in UserQuotas: limits alone, and limits with jobs *)

Administration(ops, until) == [ops |-> ops, jobs |-> 0, changes |-> 2, until |-> until]
Customers(ops) == [ops |-> ops, jobs |-> 2, changes |-> 0, until |-> 2]

SomeQuotaLoads ==
    {Administration({"update role", "reset role"}, 1),
     Administration({"update role", "reset user", "assign", "switch"}, 1),
     Administration({"update role", "reset user", "update user"}, 0),
     Customers({"reset role", "reset user"}),
     Customers({"update user"})}

-----------------------------------------------------------------------------
AccountsInit ==
    /\ part \in {"sessions", "roles", "registration", "quotas"}
    /\ Init /\ RolesInit /\ RegistrationInit /\ QuotasInit
    /\ part # "sessions" => load = CHOOSE l \in Loads : TRUE
    /\ part # "roles" => case = CHOOSE c \in Cases : TRUE
    /\ part # "quotas" => quotaLoad = CHOOSE l \in QuotaLoads : TRUE
AccountsNext ==
    \/ part = "sessions" /\ Next /\ UNCHANGED <<roleVars, registrationVars, quotaVars>>
    \/ part = "roles" /\ RolesNext /\ UNCHANGED <<vars, registrationVars, quotaVars>>
    \/ part = "registration" /\ RegistrationNext /\ UNCHANGED <<vars, roleVars, quotaVars>>
    \/ part = "quotas" /\ QuotasNext /\ UNCHANGED <<vars, roleVars, registrationVars>>
AccountsSpec ==
    AccountsInit /\ [][AccountsNext /\ UNCHANGED part]_<<part, vars, roleVars,
                                                         registrationVars, quotaVars>>

-----------------------------------------------------------------------------
\* Every variable of the part that moves keeps its type.
AccountsTypeOK ==
    CASE part = "sessions" -> TypeOK
      [] part = "roles" -> RolesTypeOK
      [] part = "registration" -> RegistrationTypeOK
      [] OTHER -> QuotasTypeOK
=============================================================================
