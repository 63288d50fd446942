---------------------------- MODULE ConfigCaches ----------------------------
(***************************************************************************)
(* What each process keeps in memory of two tables that any process may     *)
(* change: the settings of system-config.service.ts, one by one and as the  *)
(* list of the public ones, and the templates of extraction-runner.ts.  A   *)
(* writer clears its own memory and tells the other processes by Redis.  A  *)
(* step is what happens from one await to the next.                         *)
(***************************************************************************)
EXTENDS FiniteSets, Naturals

CONSTANTS
    Settings,      \* keys of system_configs
    Templates,     \* one user's template of a domain each
    Defaults,      \* the settings that the environment gives, written at a start
    Servers,       \* processes that run server.ts
    Workers,       \* processes that only run crawl.worker.ts
    MaxTemplates,  \* MAX_CACHE_SIZE
    CacheActs,     \* the handler executions
    CacheLoads     \* in a behaviour: the rows it begins with, what is done to which
                   \* of them, in which processes, and what may fail

Keys == Settings \cup Templates
Nodes == Servers \cup Workers

CacheOps == {"get", "list", "create", "update", "toggle", "delete", "sync", "forget"}
CacheFaults == {"redis", "crash", "boot"}

\* A value is a flag: templates have two versions.
RowType == [there : BOOLEAN, value : BOOLEAN, public : BOOLEAN]
NoRow == [there |-> FALSE, value |-> FALSE, public |-> FALSE]
FromEnv == [there |-> TRUE, value |-> TRUE, public |-> TRUE]

ASSUME CacheConstants ==
    /\ Settings \cap Templates = {} /\ Defaults \subseteq Settings
    /\ Servers \cap Workers = {} /\ Nodes # {} /\ Keys # {}
    /\ MaxTemplates \in Nat \ {0}
    /\ \A l \in CacheLoads :
          /\ l.rows \in [Keys -> RowType]
          /\ \A k \in Keys : ~l.rows[k].there => l.rows[k] = NoRow
          /\ \A t \in Templates : ~l.rows[t].public
          /\ l.ops \subseteq CacheOps /\ l.keys \subseteq Keys /\ l.nodes \subseteq Nodes
          /\ l.faults \subseteq CacheFaults

VARIABLES
    cacheLoad,   \* one of CacheLoads, for good
    row,         \* the two tables
    kept,        \* in each process, the entries of its maps
    shown,       \* in each process, the list of public settings
    news,        \* the keys whose change is on its way to a process
    ask,         \* the handler executions
    untold       \* history: the keys a change of which was not told to everyone

cacheVars == <<cacheLoad, row, kept, shown, news, ask, untold>>

EntryType == [on : BOOLEAN, row : RowType, late : BOOLEAN]
NoEntry == [on |-> FALSE, row |-> NoRow, late |-> FALSE]
PublicType == SUBSET [key : Settings, value : BOOLEAN]
ListType == [on : BOOLEAN, public : PublicType, late : BOOLEAN]
NoList == [on |-> FALSE, public |-> {}, late |-> FALSE]

\* got and public are what a query has answered, late whether this was out of
\* date when its entry was cleared; rest is what syncFromEnv has yet to write.
AskType == [pc : {"idle", "fetch", "fill", "find", "write", "tell"}, op : CacheOps,
            home : Nodes, key : Keys, got : RowType, public : PublicType,
            late : BOOLEAN, rest : SUBSET Defaults]
NoAsk == [pc |-> "idle", op |-> "get", home |-> CHOOSE n \in Nodes : TRUE,
          key |-> CHOOSE k \in Keys : TRUE, got |-> NoRow, public |-> {}, late |-> FALSE,
          rest |-> {}]

CachesTypeOK ==
    /\ cacheLoad \in CacheLoads
    /\ row \in [Keys -> RowType]
    /\ kept \in [Nodes -> [Keys -> EntryType]]
    /\ shown \in [Nodes -> ListType]
    /\ news \in [Nodes -> SUBSET Keys]
    /\ ask \in [CacheActs -> AskType]
    /\ untold \subseteq Keys

CachesInit ==
    /\ cacheLoad \in CacheLoads
    /\ row = cacheLoad.rows
    /\ kept = [n \in Nodes |-> [k \in Keys |-> NoEntry]]
    /\ shown = [n \in Nodes |-> NoList]
    /\ news = [n \in Nodes |-> {}]
    /\ ask = [a \in CacheActs |-> NoAsk]
    /\ untold = {}

-----------------------------------------------------------------------------
Asks(a, pc) == ask' = [ask EXCEPT ![a].pc = pc]
Answered(a) == ask' = [ask EXCEPT ![a] = NoAsk]
Public(r) == {[key |-> k, value |-> r[k].value] : k \in {s \in Settings : r[s].public}}

\* A worker of its own subscribes to the templates' channel only.
Hears(n, k) == n \in Servers \/ k \in Templates

\* The keys an operation changes, and clears: syncFromEnv all settings, the end
\* of a crawl (which changes nothing) all templates.
Changed(a) == IF ask[a].op = "sync" THEN Defaults ELSE {ask[a].key}
Cleared(a) ==
    CASE ask[a].op = "sync" -> Settings
      [] ask[a].op = "forget" -> Templates
      [] OTHER -> {ask[a].key}

\* clearLocalCache and clearTemplateCache in process n: the list of public
\* settings goes with any setting.  What a query has answered by now, if it is out
\* of date, comes too late.
Forgotten(n, keys) ==
    [k \in Keys |-> IF k \in keys THEN NoEntry ELSE kept[n][k]]

\* Seeded fault: the list of public settings waits for its time to live.
ListAfterNothing(n, keys) == shown[n]

ListAfter(n, keys) == IF keys \cap Settings # {} THEN NoList ELSE shown[n]

TooLate(n, keys) ==
    [a \in CacheActs |->
        IF /\ ask[a].pc = "fill" /\ ask[a].home = n
           /\ \/ /\ ask[a].op = "get" /\ ask[a].key \in keys
                 /\ ask[a].got # row[ask[a].key]
              \/ /\ ask[a].op = "list" /\ keys \cap Settings # {}
                 /\ ask[a].public # Public(row)
        THEN [ask[a] EXCEPT !.late = TRUE] ELSE ask[a]]

-----------------------------------------------------------------------------
(* Readers *)

\* get, isFeatureEnabled and findByKey; getCachedTemplate; getPublicConfigs:
\* what is in memory needs no query.
Read(a, n, k) ==
    /\ "get" \in cacheLoad.ops /\ n \in cacheLoad.nodes /\ k \in cacheLoad.keys
    /\ ask[a].pc = "idle" /\ ~kept[n][k].on
    /\ ask' = [ask EXCEPT ![a] = [NoAsk EXCEPT !.pc = "fetch", !.home = n, !.key = k]]
    /\ UNCHANGED <<cacheLoad, row, kept, shown, news, untold>>

ReadList(a, n) ==
    /\ "list" \in cacheLoad.ops /\ n \in cacheLoad.nodes \cap Servers
    /\ ask[a].pc = "idle" /\ ~shown[n].on
    /\ ask' = [ask EXCEPT ![a] = [NoAsk EXCEPT !.pc = "fetch", !.op = "list", !.home = n]]
    /\ UNCHANGED <<cacheLoad, row, kept, shown, news, untold>>

\* The database answers the query.
Fetch(a) ==
    /\ ask[a].pc = "fetch"
    /\ ask' = [ask EXCEPT ![a].pc = "fill", ![a].got = row[ask[a].key],
                          ![a].public = IF ask[a].op = "list" THEN Public(row) ELSE {}]
    /\ UNCHANGED <<cacheLoad, row, kept, shown, news, untold>>

\* The answer is kept: a setting that is missing is not, a template that is
\* missing is.  The oldest template makes room; any of them may be the oldest.
Fill(a) ==
    LET n == ask[a].home
        k == ask[a].key
        full == Cardinality({t \in Templates : kept[n][t].on}) >= MaxTemplates
        entry == [on |-> TRUE, row |-> ask[a].got, late |-> ask[a].late]
    IN  /\ ask[a].pc = "fill" /\ ask[a].op = "get"
        /\ IF k \in Settings
           THEN kept' = IF ask[a].got.there THEN [kept EXCEPT ![n][k] = entry] ELSE kept
           ELSE \E t \in Templates :
                   /\ full => kept[n][t].on
                   /\ kept' = [kept EXCEPT ![n] = [IF full THEN Forgotten(n, {t}) ELSE @
                                                   EXCEPT ![k] = entry]]
        /\ Answered(a)
        /\ UNCHANGED <<cacheLoad, row, shown, news, untold>>

FillList(a) ==
    /\ ask[a].pc = "fill" /\ ask[a].op = "list"
    /\ shown' = [shown EXCEPT ![ask[a].home] =
                    [on |-> TRUE, public |-> ask[a].public, late |-> ask[a].late]]
    /\ Answered(a)
    /\ UNCHANGED <<cacheLoad, row, kept, news, untold>>

\* The time to live of an entry, or of the list, is over.
Lapse(n, k) ==
    /\ kept[n][k].on
    /\ kept' = [kept EXCEPT ![n][k] = NoEntry]
    /\ UNCHANGED <<cacheLoad, row, shown, news, ask, untold>>
LapseList(n) ==
    /\ shown[n].on
    /\ shown' = [shown EXCEPT ![n] = NoList]
    /\ UNCHANGED <<cacheLoad, row, kept, news, ask, untold>>

-----------------------------------------------------------------------------
(* Writers *)

\* A request of a server, or the end of a crawl.
Change(a, op, n, k) ==
    /\ op \in cacheLoad.ops \ {"get", "list"} /\ k \in cacheLoad.keys
    /\ ask[a].pc = "idle"
    /\ n \in cacheLoad.nodes /\ (n \in Servers \/ op = "forget")
    /\ op = "toggle" => k \in Settings
    /\ op \in {"sync", "forget"} => k = NoAsk.key
    /\ ask' = [ask EXCEPT ![a] = [NoAsk EXCEPT
          !.pc = CASE op = "forget" -> "tell"
                   [] op = "sync" \/ (op = "create" /\ k \in Templates) -> "write"
                   [] OTHER -> "find",
          !.op = op, !.home = n, !.key = k,
          !.rest = IF op = "sync" THEN Defaults ELSE {}]]
    /\ UNCHANGED <<cacheLoad, row, kept, shown, news, untold>>

\* The row must be there, or must not for a creation.
Find(a) ==
    /\ ask[a].pc = "find"
    /\ IF row[ask[a].key].there = (ask[a].op # "create")
       THEN ask' = [ask EXCEPT ![a].pc = "write", ![a].got = row[ask[a].key]]
       ELSE Answered(a)
    /\ UNCHANGED <<cacheLoad, row, kept, shown, news, untold>>

\* What the statement makes of the row: toggleFeature writes the negation of the
\* value it has read.
NewRows(a) ==
    LET k == ask[a].key
    IN  CASE ask[a].op = "delete" -> {NoRow}
          [] ask[a].op = "toggle" -> {[row[k] EXCEPT !.value = ~ask[a].got.value]}
          [] OTHER -> {r \in RowType : r.there /\ (k \in Templates => ~r.public)}

\* The statement, which fails when the row went or came meanwhile.
Write(a) ==
    /\ ask[a].pc = "write" /\ ask[a].op # "sync"
    /\ IF row[ask[a].key].there = (ask[a].op # "create")
       THEN \E r \in NewRows(a) :
               row' = [row EXCEPT ![ask[a].key] = r] /\ Asks(a, "tell")
       ELSE UNCHANGED row /\ Answered(a)
    /\ UNCHANGED <<cacheLoad, kept, shown, news, untold>>

\* syncFromEnv, one setting after the other; a statement may fail.
Sync(a) ==
    /\ ask[a].pc = "write" /\ ask[a].op = "sync"
    /\ IF ask[a].rest = {}
       THEN UNCHANGED row /\ Asks(a, "tell")
       ELSE \E k \in ask[a].rest :
               /\ ask' = [ask EXCEPT ![a].rest = @ \ {k}]
               /\ row' \in {row, [row EXCEPT ![k] = FromEnv]}
    /\ UNCHANGED <<cacheLoad, kept, shown, news, untold>>

\* publishInvalidation and clearTemplateCache: the process clears its own memory
\* and publishes, or fails to.
Tell(a) ==
    LET n == ask[a].home
        keys == Cleared(a)
    IN  /\ ask[a].pc = "tell"
        /\ kept' = [kept EXCEPT ![n] = Forgotten(n, keys)]
        /\ shown' = [shown EXCEPT ![n] = ListAfter(n, keys)]
        /\ ask' = [TooLate(n, keys) EXCEPT ![a] = NoAsk]
        /\ \/ /\ news' = [m \in Nodes |-> IF m \in cacheLoad.nodes
                                         THEN news[m] \cup {k \in keys : Hears(m, k)} ELSE {}]
              /\ untold' = untold \ keys
           \/ /\ "redis" \in cacheLoad.faults /\ UNCHANGED news
              /\ untold' = untold \cup IF ask[a].op = "forget" THEN {} ELSE keys
        /\ UNCHANGED <<cacheLoad, row>>

\* The message comes.
Hear(n, k) ==
    /\ k \in news[n]
    /\ news' = [news EXCEPT ![n] = @ \ {k}]
    /\ kept' = [kept EXCEPT ![n] = Forgotten(n, {k})]
    /\ shown' = [shown EXCEPT ![n] = ListAfter(n, {k})]
    /\ ask' = TooLate(n, {k})
    /\ UNCHANGED <<cacheLoad, row, untold>>

-----------------------------------------------------------------------------
(* A process dies with what it has in memory. *)
Die(n) ==
    /\ "crash" \in cacheLoad.faults /\ n \in cacheLoad.nodes
    /\ LET gone == {a \in CacheActs : ask[a].home = n /\ ask[a].pc # "idle"}
       IN  /\ ask' = [a \in CacheActs |-> IF a \in gone THEN NoAsk ELSE ask[a]]
           /\ untold' = untold \cup UNION {Changed(a) : a \in {b \in gone :
                            ask[b].pc = "tell" \/ ask[b].op = "sync"}}
    /\ kept' = [kept EXCEPT ![n] = [k \in Keys |-> NoEntry]]
    /\ shown' = [shown EXCEPT ![n] = NoList]
    /\ news' = [news EXCEPT ![n] = {}]
    /\ UNCHANGED <<cacheLoad, row>>

\* A server starts: ensureDefaultConfigs writes what the environment gives over
\* what was set, and clears this process's memory only.
Boot(n, k) ==
    /\ "boot" \in cacheLoad.faults /\ n \in cacheLoad.nodes \cap Servers /\ k \in Defaults
    /\ \A a \in CacheActs : ask[a].home = n => ask[a].pc = "idle"
    /\ row' = [row EXCEPT ![k] = FromEnv]
    /\ kept' = [kept EXCEPT ![n] = [x \in Keys |-> NoEntry]]
    /\ shown' = [shown EXCEPT ![n] = NoList]
    /\ untold' = untold \cup {k}
    /\ UNCHANGED <<cacheLoad, news, ask>>

CachesNext ==
    \/ \E a \in CacheActs :
          \/ \E n \in Nodes :
                \/ ReadList(a, n)
                \/ \E k \in Keys :
                      Read(a, n, k) \/ \E op \in CacheOps : Change(a, op, n, k)
          \/ Fetch(a) \/ Fill(a) \/ FillList(a)
          \/ Find(a) \/ Write(a) \/ Sync(a) \/ Tell(a)
    \/ \E n \in Nodes :
          \/ Die(n) \/ LapseList(n)
          \/ \E k \in Keys : Hear(n, k) \/ Lapse(n, k) \/ Boot(n, k)

CachesSpec == CachesInit /\ [][CachesNext]_cacheVars

-----------------------------------------------------------------------------
\* Somebody has changed k and has yet to tell process n.
OnItsWay(n, k) ==
    \/ k \in news[n] /\ Hears(n, k)
    \/ \E a \in CacheActs : k \in Changed(a) /\ ask[a].op # "forget" /\
          (ask[a].pc = "tell" \/ (ask[a].op = "sync" /\ ask[a].pc = "write"))

\* What a process keeps of a table is what the table says, unless the news of the
\* change is on its way, the answer of a query was kept after the news that made
\* it out of date, or the news was lost: publishInvalidation, clearTemplateCache
\* and the subscribers against get, getPublicConfigs and getCachedTemplate.
CachesAreCurrent ==
    \A n \in Nodes :
       /\ \A k \in Keys :
             (kept[n][k].on /\ kept[n][k].row # row[k]) =>
                 kept[n][k].late \/ OnItsWay(n, k) \/ k \in untold \/ ~Hears(n, k)
       /\ (shown[n].on /\ shown[n].public # Public(row)) =>
             \/ shown[n].late
             \/ \E k \in Settings : OnItsWay(n, k) \/ k \in untold
=============================================================================
