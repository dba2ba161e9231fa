---------------------------- MODULE RoutingConfig ----------------------------
(***************************************************************************)
(* The configuration requests are routed by: models, upstreams, groups and *)
(* their members, routes, and the other tables that name models.  The      *)
(* administrators edit the rows; the process keeps two copies of them in   *)
(* memory, the model catalog and the maps of the router, which a ticker    *)
(* loads again every 30 seconds.                                           *)
(*                                                                         *)
(* A handler checks the names it is given against the catalog in memory    *)
(* and writes later.  The triggers of the database check them once more,   *)
(* each in a transaction that does not see what another one has checked    *)
(* and not committed.  The ticker reads table after table.  A step is one  *)
(* statement or one visit of a copy.  Request kinds and aliases, which are *)
(* matched and resolved as clients and names are, are left out.            *)
(***************************************************************************)
EXTENDS Integers, FiniteSets

CONSTANTS
  Model, Upstream, Group,   \* what there may be rows of
  Route,                    \* ids of routes, which are ordered
  RouteRow,                 \* the rows an administrator gives a route
  Admin,                    \* handlers of the admin API that run together
  Budget                    \* bound on the handlers and on the queries that fail

ASSUME RouteAssumption  == Route \subseteq Nat /\ IsFiniteSet(Route)
ASSUME BudgetAssumption == Budget \in Nat

VARIABLES
  db,           \* the rows
  catalog,      \* the model catalog in memory
  router,       \* the maps of the router
  tick,         \* the reload of the ticker
  op,           \* the handlers of the admin API
  left          \* what is left of Budget

vars == <<db, catalog, router, tick, op, left>>

----------------------------------------------------------------------------
(* State.                                                                  *)

Status == {"none", "active", "disabled"}

NoGroup == "null"

\* models: supported_models, which the triggers guard.
UpstreamRow == [status : Status, models : SUBSET Model]
NoUpstream  == [status |-> "none", models |-> {}]

Client == {"cli", "other"}

\* project: the route is for that project only.  No clients: for all of them.
AnyRoute == [status : Status, models : SUBSET Model, group : Group \cup {NoGroup},
             project : BOOLEAN, clients : SUBSET Client, priority : Int]
NoRoute  == [status |-> "none", models |-> {}, group |-> NoGroup, project |-> FALSE,
             clients |-> {}, priority |-> 0]

\* A group has an id, and a route is created with a group.
ASSUME GroupAssumption    == Group # {} /\ NoGroup \notin Group
ASSUME RouteRowAssumption == RouteRow \subseteq {r \in AnyRoute : r.status # "none" /\ r.group \in Group}

\* names: the models a plan, a policy or an API key names.
Named == {"plan", "policy", "key"}
Db    == [model : [Model -> Status], upstream : [Upstream -> UpstreamRow], group : SUBSET Group,
          member : SUBSET (Group \X Upstream), route : [Route -> AnyRoute],
          names : [Named -> SUBSET Model]]

\* What the router keeps.
Maps == [upstream : [Upstream -> UpstreamRow], group : SUBSET Group,
         member : SUBSET (Group \X Upstream), route : [Route -> AnyRoute]]

\* The reload, named for the query it makes next, and what it has read.
Ticks == {"upstreams", "groups", "members", "routes", "models", "swap", "install"}
Tick  == [at : Ticks, maps : Maps, model : [Model -> Status]]
NoTick == [at |-> "upstreams", model |-> [m \in Model |-> "none"],
           maps |-> [upstream |-> [u \in Upstream |-> NoUpstream], group |-> {}, member |-> {},
                     route |-> [r \in Route |-> NoRoute]]]

\* A write that a handler has decided on: row is the new row, or the field that
\* is set in the old one.
Edit(table, id, how, row) == [table |-> table, id |-> id, how |-> how, row |-> row]
Set(field, value) == [field |-> field, value |-> value]
NoEdit == Edit("none", "none", "none", "none")
\* A handler: the write it has decided on, and what it has read, the models
\* and those of them that are named.
NoOp   == [at |-> "idle", edit |-> NoEdit, model |-> [m \in Model |-> "none"], named |-> {}]

\* buildMaps: the members are those whose upstream and group are known.
BuildMaps(maps) ==
  [maps EXCEPT !.member = {gu \in @ : gu[1] \in maps.group /\ maps.upstream[gu[2]] # NoUpstream}]

MapsOf(d) == [upstream |-> d.upstream, group |-> d.group, member |-> d.member, route |-> d.route]

\* A configuration that has been loaded: routes and upstreams that support
\* what they ask for, or a model that nothing uses yet.
Init ==
  /\ \E row \in RouteRow \cup {NoRoute} :
       LET g == IF row = NoRoute THEN CHOOSE x \in Group : TRUE ELSE row.group
       IN db = [model |-> [m \in Model |-> "active"],
                upstream |-> [u \in Upstream |-> [status |-> "active", models |-> row.models]],
                group |-> {g}, member |-> {g} \X Upstream,
                route |-> [r \in Route |-> row],
                names |-> [n \in Named |-> {}]]
  /\ catalog = db.model
  /\ router = BuildMaps(MapsOf(db))
  /\ tick = NoTick
  /\ op = [a \in Admin |-> NoOp]
  /\ left = Budget

----------------------------------------------------------------------------
(* The rows: what a statement makes of them.                               *)

Registered == {m \in Model : db.model[m] # "none"}

InsertModel(e) == [db EXCEPT !.model[e.id] = e.row]

\* A row that is gone is not updated, here and below.
SetModel(e)    == [db EXCEPT !.model[e.id] = IF @ # "none" THEN e.row ELSE @]
RemoveModel(e) == [db EXCEPT !.model[e.id] = "none"]

InsertUpstream(e) == [db EXCEPT !.upstream[e.id] = e.row]

SetUpstream(e) ==
  [db EXCEPT !.upstream[e.id] = IF @ # NoUpstream THEN [@ EXCEPT ![e.row.field] = e.row.value] ELSE @]

\* ON DELETE CASCADE takes the memberships.
RemoveUpstream(e) ==
  [db EXCEPT !.upstream[e.id] = NoUpstream, !.member = @ \ (Group \X {e.id})]

InsertGroup(e) == [db EXCEPT !.group = @ \cup {e.id}]

\* Name, policy and status of a group are not modelled.
SetGroup(e) == db

\* ON DELETE CASCADE, and ON DELETE SET NULL for the routes.
RemoveGroup(e) ==
  [db EXCEPT !.group = @ \ {e.id},
             !.member = @ \ ({e.id} \X Upstream),
             !.route = [r \in Route |-> IF @[r].group = e.id THEN [@[r] EXCEPT !.group = NoGroup]
                                        ELSE @[r]]]

\* A member whose group or upstream is not there violates its foreign keys.
InsertMember(e) ==
  IF e.id[1] \in db.group /\ db.upstream[e.id[2]] # NoUpstream
  THEN [db EXCEPT !.member = @ \cup {e.id}]
  ELSE db

DeleteMember(e) == [db EXCEPT !.member = @ \ {e.id}]

\* ... and so does a route whose group is not.
InsertRoute(e) == IF e.row.group \in db.group THEN [db EXCEPT !.route[e.id] = e.row] ELSE db

SetRoute(e) ==
  LET new == [db.route[e.id] EXCEPT ![e.row.field] = e.row.value]
  IN  IF db.route[e.id] # NoRoute /\ new.group \in db.group \cup {NoGroup}
      THEN [db EXCEPT !.route[e.id] = new]
      ELSE db

RemoveRoute(e) == [db EXCEPT !.route[e.id] = NoRoute]

\* A plan or a policy has its rates per name, a key the names it allows.
SetNames(e) == [db EXCEPT !.names[e.id] = e.row]

Apply(e) ==
  LET Of(insert, update, delete) ==
        CASE e.how = "insert" -> insert [] e.how = "update" -> update [] OTHER -> delete
  IN  CASE e.table = "model"    -> Of(InsertModel(e), SetModel(e), RemoveModel(e))
        [] e.table = "upstream" -> Of(InsertUpstream(e), SetUpstream(e), RemoveUpstream(e))
        [] e.table = "group"    -> Of(InsertGroup(e), SetGroup(e), RemoveGroup(e))
        [] e.table = "member"   -> Of(InsertMember(e), db, DeleteMember(e))
        [] e.table = "route"    -> Of(InsertRoute(e), SetRoute(e), RemoveRoute(e))
        [] OTHER                -> SetNames(e)

\* The models a table's rows name.
NamedBy(d, table) ==
  CASE table = "upstream" -> UNION {d.upstream[u].models : u \in Upstream}
    [] table = "route"    -> UNION {d.route[r].models : r \in Route}
    [] OTHER              -> d.names[table]

\* The tables whose names are guarded, and what they name.
Guarded == {"upstream", "route", "key"}
Names(d) == UNION {NamedBy(d, table) : table \in Guarded}

\* The names in the rows a statement writes, whether or not a foreign key then
\* refuses them; the deletion of a group writes to its routes.
RowNames(e, old, none) ==
  IF e.how = "insert" THEN e.row.models
  ELSE IF old # none /\ e.row.field = "models" THEN e.row.value ELSE old.models

WrittenNames(e) ==
  IF e.how = "delete"
  THEN UNION {db.route[r].models : r \in {x \in Route : e.table = "group" /\ db.route[x].group = e.id}}
  ELSE CASE e.table = "upstream" -> RowNames(e, db.upstream[e.id], NoUpstream)
         [] e.table = "route"    -> RowNames(e, db.route[e.id], NoRoute)
         [] e.table = "key"      -> e.row
         [] OTHER                -> {}

\* Fault: the trigger on the writers looks at the routes only.
WriterTriggerRoutes(e) == e.table \in {"route", "group"} => WrittenNames(e) \subseteq Registered

\* The triggers on upstreams, routes and api_keys: the row as it will be.
WriterTrigger(e) == WrittenNames(e) \subseteq Registered

\* The trigger on the deletion of a model.
DeleteTrigger(e) ==
  e.table = "model" /\ e.how = "delete" => e.id \notin Names(db)

\* The primary keys: no row is inserted over another.
Unique(e) ==
  e.how = "insert" =>
    CASE e.table = "model"    -> db.model[e.id] = "none"
      [] e.table = "upstream" -> db.upstream[e.id] = NoUpstream
      [] e.table = "group"    -> e.id \notin db.group
      [] e.table = "member"   -> e.id \notin db.member
      [] e.table = "route"    -> db.route[e.id] = NoRoute
      [] OTHER                -> TRUE

----------------------------------------------------------------------------
(* The handlers.  Whoever gives names has them looked up in the catalog.   *)

NormalizeNames(names) == \A m \in names : catalog[m] # "none"

Start(a, edit) ==
  /\ op[a] = NoOp /\ left > 0
  /\ left' = left - 1
  /\ op' = [op EXCEPT ![a] = [NoOp EXCEPT !.at = "write", !.edit = edit]]
  /\ UNCHANGED <<db, catalog, router, tick>>

Done(a) == op' = [op EXCEPT ![a] = NoOp]

CreateModel(a, m) == Start(a, Edit("model", m, "insert", "active"))

\* The name is immutable, the rest is validated.
UpdateModel(a, m, status) == db.model[m] # "none" /\ Start(a, Edit("model", m, "update", status))

\* ModelReferenceCountsFor: five counts, taken together here.
ReferenceCounts(m) == {table \in {"upstream", "route"} \cup Named : m \in NamedBy(db, table)}

DeleteModel(a, m) ==
  /\ db.model[m] # "none" /\ ReferenceCounts(m) = {}
  /\ Start(a, Edit("model", m, "delete", "none"))

CreateUpstream(a, u, models) ==
  /\ db.upstream[u] = NoUpstream /\ NormalizeNames(models)
  /\ Start(a, Edit("upstream", u, "insert", [status |-> "active", models |-> models]))

UpdateUpstream(a, u) ==
  /\ db.upstream[u] # NoUpstream
  /\ \/ \E status \in {"active", "disabled"} :
          Start(a, Edit("upstream", u, "update", Set("status", status)))
     \/ \E models \in SUBSET Model :
          NormalizeNames(models) /\ Start(a, Edit("upstream", u, "update", Set("models", models)))

DeleteUpstream(a, u) == db.upstream[u] # NoUpstream /\ Start(a, Edit("upstream", u, "delete", NoUpstream))

CreateUpstreamGroup(a, g) == g \notin db.group /\ Start(a, Edit("group", g, "insert", g))

\* Whether the group exists is not asked, and its status is not looked at.
UpdateUpstreamGroup(a, g) == Start(a, Edit("group", g, "update", g))
DeleteUpstreamGroup(a, g) == g \in db.group /\ Start(a, Edit("group", g, "delete", g))

AddGroupMember(a, g, u)    == Start(a, Edit("member", <<g, u>>, "insert", u))
RemoveGroupMember(a, g, u) == <<g, u>> \in db.member /\ Start(a, Edit("member", <<g, u>>, "delete", u))

CreateRoute(a, r, row) ==
  /\ db.route[r] = NoRoute /\ NormalizeNames(row.models)
  /\ Start(a, Edit("route", r, "insert", row))

\* The fields of the body are taken as they are, the group with them.
UpdateRoute(a, r) ==
  /\ db.route[r] # NoRoute
  /\ \/ \E g \in Group : Start(a, Edit("route", r, "update", Set("group", g)))
     \/ \E status \in {"active", "disabled"} : Start(a, Edit("route", r, "update", Set("status", status)))
     \/ \E models \in SUBSET Model :
          NormalizeNames(models) /\ Start(a, Edit("route", r, "update", Set("models", models)))

DeleteRoute(a, r) == db.route[r] # NoRoute /\ Start(a, Edit("route", r, "delete", NoRoute))

\* A plan, a policy or a key that names nothing is as good as none.
Create(a, table, models) ==
  /\ db.names[table] = {} /\ NormalizeNames(models)
  /\ Start(a, Edit(table, table, "insert", models))
Update(a, table, models) ==
  /\ db.names[table] # {} /\ NormalizeNames(models)
  /\ Start(a, Edit(table, table, "update", models))
Delete(a, table) == db.names[table] # {} /\ Start(a, Edit(table, table, "delete", {}))

CreatePlan(a, models)   == Create(a, "plan", models)
UpdatePlan(a, models)   == Update(a, "plan", models)
DeletePlan(a)           == Delete(a, "plan")
CreatePolicy(a, models) == Create(a, "policy", models)
UpdatePolicy(a, models) == Update(a, "policy", models)
DeletePolicy(a)         == Delete(a, "policy")
NameForKey(a, models)   == Create(a, "key", models) \/ Update(a, "key", models)

----------------------------------------------------------------------------
(* The statement of a handler: triggers and row lock, and then the commit. *)

Locked(e) == \E b \in Admin : op[b].at = "commit" /\ op[b].edit.table = e.table /\ op[b].edit.id = e.id

Check(a) ==
  /\ op[a].at = "write" /\ ~Locked(op[a].edit)
  /\ IF Unique(op[a].edit) /\ WriterTrigger(op[a].edit) /\ DeleteTrigger(op[a].edit)
     THEN op' = [op EXCEPT ![a].at = "commit", ![a].model = db.model, ![a].named = Names(db)]
     ELSE Done(a)
  /\ UNCHANGED <<db, catalog, router, tick, left>>

Commit(a) ==
  /\ op[a].at = "commit"
  /\ db' = Apply(op[a].edit)
  /\ IF op[a].edit.table = "model" THEN op' = [op EXCEPT ![a] = [NoOp EXCEPT !.at = "list"]] ELSE Done(a)
  /\ UNCHANGED <<catalog, router, tick, left>>

\* refreshCatalog: a failure is logged and left to the ticker.
RefreshCatalog(a) ==
  /\ op[a].at = "list"
  /\ \/ op' = [op EXCEPT ![a] = [NoOp EXCEPT !.at = "swap", !.model = db.model]] /\ UNCHANGED left
     \/ Done(a) /\ left > 0 /\ left' = left - 1
  /\ UNCHANGED <<db, catalog, router, tick>>

Swap(models) == catalog' = models

RefreshSwap(a) ==
  /\ op[a].at = "swap"
  /\ Swap(op[a].model)
  /\ Done(a)
  /\ UNCHANGED <<db, router, tick, left>>

----------------------------------------------------------------------------
(* The ticker: upstreams, groups, members, routes and models.              *)

Read(at, next, maps) ==
  /\ tick.at = at
  /\ tick' = [tick EXCEPT !.at = next, !.maps = maps]
  /\ UNCHANGED <<db, catalog, router, op, left>>

ListUpstreams == Read("upstreams", "groups", [tick.maps EXCEPT !.upstream = db.upstream])
ListGroups    == Read("groups", "members", [tick.maps EXCEPT !.group = db.group])
ListMembers   == Read("members", "routes", [tick.maps EXCEPT !.member = db.member])

\* upstream_group_id is scanned into a string: it must not be NULL.
Scanable(route) == \A r \in Route : route[r] # NoRoute => route[r].group # NoGroup

ListRoutes == Scanable(db.route) /\ Read("routes", "models", [tick.maps EXCEPT !.route = db.route])

\* Fault: the goroutine returns.
SkipTickForGood ==
  /\ tick.at \in {"upstreams", "groups", "members", "routes"}
  /\ left > 0 /\ left' = left - 1
  /\ tick' = [tick EXCEPT !.at = "ended"]
  /\ UNCHANGED <<db, catalog, router, op>>

\* A query that fails ends the tick: the next one begins anew.
SkipTick ==
  /\ \/ tick.at \in {"upstreams", "groups", "members", "routes"} /\ left > 0 /\ left' = left - 1
     \/ tick.at = "routes" /\ ~Scanable(db.route) /\ UNCHANGED left
  /\ tick' = NoTick
  /\ UNCHANGED <<db, catalog, router, op>>

\* ... but for the models, without which the rest is installed.
ListModels ==
  /\ tick.at = "models"
  /\ \/ tick' = [tick EXCEPT !.at = "swap", !.model = db.model] /\ UNCHANGED left
     \/ tick' = [tick EXCEPT !.at = "install"] /\ left > 0 /\ left' = left - 1
  /\ UNCHANGED <<db, catalog, router, op>>

TickSwap ==
  /\ tick.at = "swap"
  /\ Swap(tick.model)
  /\ tick' = [tick EXCEPT !.at = "install", !.model = NoTick.model]
  /\ UNCHANGED <<db, router, op, left>>

Reload ==
  /\ tick.at = "install"
  /\ router' = BuildMaps(tick.maps)
  /\ tick' = NoTick
  /\ UNCHANGED <<db, catalog, op, left>>

----------------------------------------------------------------------------
(* What a request is routed by.                                            *)

MatchesGlobalRoute(row, project, m, c) ==
  /\ row.status = "active" /\ row.project = project
  /\ m \in row.models
  /\ row.clients = {} \/ c \in row.clients

\* The first of several: the more specific, then the priority, then the id.
Before(i, j, Specificity(_)) ==
  LET p == router.route[i]  q == router.route[j]
  IN  \/ Specificity(p) > Specificity(q)
      \/ Specificity(p) = Specificity(q) /\ p.priority > q.priority
      \/ Specificity(p) = Specificity(q) /\ p.priority = q.priority /\ i < j

Best(routes, Specificity(_)) ==
  IF routes = {} THEN NoGroup
  ELSE router.route[CHOOSE i \in routes : \A j \in routes \ {i} : Before(i, j, Specificity)].group

ForClient(row) == IF row.clients = {} THEN 0 ELSE 1

\* Match: the routes of the project, if it has some, and the global ones.
Match(project, m, c) ==
  Best({r \in Route : /\ router.route[r].group \in router.group
                      /\ \E p \in {FALSE, project} : MatchesGlobalRoute(router.route[r], p, m, c)},
       LAMBDA row : ForClient(row) + IF row.project THEN 10 ELSE 0)

\* Fault: a route whose group is not known is shown.
MatrixGlobalAll(m, c) ==
  Best({r \in Route : MatchesGlobalRoute(router.route[r], FALSE, m, c)}, ForClient)

MatrixGlobal(m, c) ==
  Best({r \in Route : /\ router.route[r].group \in router.group
                      /\ MatchesGlobalRoute(router.route[r], FALSE, m, c)}, ForClient)

\* ActiveModels: those a request can be routed by and an upstream supports.
ActiveModels ==
  {m \in Model : /\ catalog[m] = "active"
                 /\ \E r \in Route, u \in Upstream :
                      /\ router.route[r].status = "active" /\ m \in router.route[r].models
                      /\ <<router.route[r].group, u>> \in router.member
                      /\ router.upstream[u].status = "active" /\ m \in router.upstream[u].models}

----------------------------------------------------------------------------
Edits(a) ==
  \/ \E m \in Model : \/ CreateModel(a, m) \/ DeleteModel(a, m)
                      \/ \E status \in {"active", "disabled"} : UpdateModel(a, m, status)
  \/ \E u \in Upstream : \/ UpdateUpstream(a, u) \/ DeleteUpstream(a, u)
                         \/ \E models \in SUBSET Model : CreateUpstream(a, u, models)
  \/ \E g \in Group : \/ CreateUpstreamGroup(a, g) \/ UpdateUpstreamGroup(a, g)
                      \/ DeleteUpstreamGroup(a, g)
                      \/ \E u \in Upstream : AddGroupMember(a, g, u) \/ RemoveGroupMember(a, g, u)
  \/ \E r \in Route : \/ UpdateRoute(a, r) \/ DeleteRoute(a, r)
                      \/ \E row \in RouteRow : CreateRoute(a, r, row)
  \/ \E models \in SUBSET Model :
       \/ CreatePlan(a, models) \/ UpdatePlan(a, models)
       \/ CreatePolicy(a, models) \/ UpdatePolicy(a, models)
       \/ NameForKey(a, models)
  \/ DeletePlan(a) \/ DeletePolicy(a)

Continues(a) == Check(a) \/ Commit(a) \/ RefreshCatalog(a) \/ RefreshSwap(a)

Ticker ==
  \/ ListUpstreams \/ ListGroups \/ ListMembers \/ ListRoutes \/ SkipTick
  \/ ListModels \/ TickSwap \/ Reload

Next == Ticker \/ \E a \in Admin : Edits(a) \/ Continues(a)

Spec == Init /\ [][Next]_vars

\* The ticker ticks, and a handler runs to its end.
Fairness == WF_vars(Ticker) /\ \A a \in Admin : WF_vars(Continues(a))

FairSpec == Spec /\ Fairness

----------------------------------------------------------------------------
(* Properties.                                                             *)

\* What a handler has decided on: a row, or a field of one.
FieldOf(e, fields) == e.row.field \in fields /\ e.row.value \in
  CASE e.row.field = "status" -> Status [] e.row.field = "models" -> SUBSET Model [] OTHER -> Group

WellFormed(e) ==
  /\ e.how \in {"insert", "update", "delete", "none"}
  /\ e.table \in {"model", "upstream", "group", "member", "route", "none"} \cup Named
  /\ e.how = "none" <=> e.table = "none"
  /\ e.table = "model"    => e.id \in Model /\ e.row \in Status /\ (e.how = "delete" <=> e.row = "none")
  /\ e.table = "upstream" => /\ e.id \in Upstream
                             /\ IF e.how = "update" THEN FieldOf(e, {"status", "models"})
                                ELSE e.row \in UpstreamRow
  /\ e.table = "group"    => e.id \in Group
  /\ e.table = "member"   => e.id \in Group \X Upstream
  /\ e.table = "route"    => /\ e.id \in Route
                             /\ IF e.how = "update" THEN FieldOf(e, {"status", "models", "group"})
                                ELSE e.row \in AnyRoute
  /\ e.table \in Named    => /\ e.id = e.table /\ e.row \in SUBSET Model
                             /\ e.how = "delete" => e.row = {}

Handlers ==
  /\ op = [a \in Admin |-> [at |-> op[a].at, edit |-> op[a].edit, model |-> op[a].model,
                            named |-> op[a].named]]
  /\ \A a \in Admin : /\ op[a].at \in {"idle", "write", "commit", "list", "swap"}
                      /\ WellFormed(op[a].edit)
                      /\ op[a].at \in {"write", "commit"} => op[a].edit.table # "none"
                      /\ op[a].model \in [Model -> Status] /\ op[a].named \subseteq Model

\* The types of the variables.
TypeOK ==
  /\ db \in Db
  /\ catalog \in [Model -> Status]
  /\ router \in Maps
  /\ tick \in Tick
  /\ Handlers
  /\ left \in 0..Budget

Dangling(d) == {m \in Names(d) : d.model[m] = "none"}

\* An upstream, a route or a key comes to name a model that is not registered
\* only in a race: when the statement commits, the model has been deleted, or
\* named, since its triggers looked.  They hold against a catalog in memory
\* that is out of date, and against counts taken before a name was written.
DanglesOnlyByRace ==
  [][\A m \in Dangling(db') \ Dangling(db) :
       \E a \in Admin : /\ op[a].at = "commit" /\ op'[a].at # "commit"
                       /\ \/ op[a].model[m] # db.model[m]
                          \/ (m \in op[a].named) # (m \in Names(db))]_vars

\* Whatever mixture of old and new tables a reload has read, the views agree
\* with Match: the matrix an administrator is shown routes as Match does for a
\* project without routes of its own, and a model that the clients are offered
\* has a group for some request.
ViewsMirrorMatch ==
  \A m \in Model :
    /\ \A c \in Client : MatrixGlobal(m, c) = Match(FALSE, m, c)
    /\ m \in ActiveModels => \E project \in BOOLEAN, c \in Client : Match(project, m, c) # NoGroup

\* Once the rows change no more, the two copies come to agree with them,
\* however many queries have failed and in whatever order old lists were put
\* into the catalog - unless a route has lost its group: the list of routes cannot
\* be read from then on, and every tick is given up before the catalog is loaded.
Recovers ==
  <>[][UNCHANGED db]_vars /\ <>[]Scanable(db.route) =>
    <>[](catalog = db.model /\ router = MapsOf(db))

----------------------------------------------------------------------------
(* Why they hold: the inductive invariant.                                 *)

\* The router knows the groups of its members.
GroupsKnown == \A gu \in router.member : gu[1] \in router.group

\* The names that a statement brings to a row.
Brought(e, old, none) ==
  IF e.how = "insert" THEN e.row.models
  ELSE IF e.how = "update" /\ old # none /\ e.row.field = "models" THEN e.row.value ELSE {}

NamesBrought(e) ==
  CASE e.table = "upstream" -> Brought(e, db.upstream[e.id], NoUpstream)
    [] e.table = "route"    -> Brought(e, db.route[e.id], NoRoute)
    [] e.table = "key"      -> e.row
    [] OTHER                -> {}

\* A statement that waits for its commit holds the row alone, so that nobody
\* else brings it into being: what its triggers have found is true of what
\* they have read.
Alone ==
  \A a, b \in Admin :
    /\ op[a].at = "commit" /\ op[b].at = "commit"
    /\ op[a].edit.table = op[b].edit.table /\ op[a].edit.id = op[b].edit.id
    => a = b

Checked ==
  \A a \in Admin : op[a].at = "commit" =>
    /\ op[a].edit.table = "model" /\ op[a].edit.how = "delete" => op[a].edit.id \notin op[a].named
    /\ \A m \in NamesBrought(op[a].edit) : op[a].model[m] # "none"

IInv == TypeOK /\ GroupsKnown /\ Alone /\ Checked
============================================================================
