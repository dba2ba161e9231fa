------------------------- MODULE RoutingConfig_proofs -------------------------
(***************************************************************************)
(* Theorems about RoutingConfig, for any models, upstreams, groups, routes *)
(* and administrators: a row comes to name an unregistered model only in a *)
(* race, and what the administrators and the clients are shown of the      *)
(* routing is what a request is routed by.                                 *)
(***************************************************************************)
EXTENDS RoutingConfig, FiniteSetTheorems, WellFoundedInduction, TLAPS

----------------------------------------------------------------------------
(* The first of several.                                                   *)

\* In a finite set that is ordered totally by R, something comes first.
LEMMA FirstExists ==
  ASSUME NEW S, IsFiniteSet(S), S # {}, NEW R,
         \A i, j \in S : i # j => <<i, j>> \in R \/ <<j, i>> \in R,
         \A i, j, k \in S : <<i, j>> \in R /\ <<j, k>> \in R => <<i, k>> \in R
  PROVE  \E i \in S : \A j \in S \ {i} : <<i, j>> \in R
<1> DEFINE First(U) == \E i \in U : \A j \in U \ {i} : <<i, j>> \in R
           T == {U \in FiniteSubsetsOf(S) : U # {} /\ ~First(U)}
<1>1. SUFFICES ASSUME T # {} PROVE FALSE
  <2>1. S \in FiniteSubsetsOf(S)
    BY DEF FiniteSubsetsOf
  <2>2. QED
    BY <1>1, <2>1
<1>2. PICK U \in T : \A V \in T : <<V, U>> \notin StrictSubsetOrdering(S)
  <2>1. T \subseteq FiniteSubsetsOf(S)
    OBVIOUS
  <2>2. IsWellFoundedOn(StrictSubsetOrdering(S), FiniteSubsetsOf(S))
    BY FS_StrictSubsetOrderingWellFounded
  <2> HIDE DEF T
  <2>3. QED
    BY <1>1, <2>1, <2>2, WFMin
<1>3. PICK x \in U : TRUE
  BY <1>2
<1>4. U \subseteq S /\ IsFiniteSet(U) /\ x \in S
  BY <1>2, <1>3 DEF FiniteSubsetsOf
<1> DEFINE V == U \ {x}
<1>5. V \in FiniteSubsetsOf(S) /\ <<V, U>> \in StrictSubsetOrdering(S)
  <2>1. IsFiniteSet(V)
    BY <1>4, FS_RemoveElement
  <2>2. V \in FiniteSubsetsOf(S) /\ U \in FiniteSubsetsOf(S)
    BY <1>2, <1>4, <2>1 DEF FiniteSubsetsOf
  <2>3. V \subseteq U /\ V # U
    BY <1>3
  <2>4. V \in SUBSET S /\ U \in SUBSET S
    BY <1>4
  <2> HIDE DEF V
  <2>5. <<V, U>> \in (SUBSET S) \X (SUBSET S) /\ <<V, U>>[1] = V /\ <<V, U>>[2] = U
    BY <2>4
  <2>6. <<V, U>> \in StrictSubsetOrdering(S)
    BY <2>3, <2>5, Zenon DEF StrictSubsetOrdering
  <2>7. QED
    BY <2>2, <2>6
<1>6. V # {} => First(V)
  BY <1>2, <1>5
<1>7. First(U)
  <2>1. CASE V = {}
    BY <1>3, <2>1
  <2>2. CASE V # {}
    <3>1. PICK y \in V : \A j \in V \ {y} : <<y, j>> \in R
      BY <1>6, <2>2
    <3>2. y \in U /\ y # x /\ y \in S
      BY <1>4, <3>1
    <3>3. CASE <<y, x>> \in R
      BY <3>1, <3>2, <3>3
    <3>4. CASE <<x, y>> \in R
      <4>1. ASSUME NEW j \in U \ {x} PROVE <<x, j>> \in R
        <5>1. j = y \/ j \in V \ {y}
          OBVIOUS
        <5>2. j \in S
          BY <1>4
        <5>3. QED
          BY <1>4, <3>1, <3>2, <3>4, <5>1, <5>2
      <4>2. QED
        BY <1>3, <4>1
    <3>5. QED
      BY <1>4, <3>2, <3>3, <3>4
  <2>3. QED
    BY <2>1, <2>2
<1>8. QED
  BY <1>2, <1>7

----------------------------------------------------------------------------
(* What a request is routed by.                                            *)

\* Of several routes one comes first: the more specific, then the priority, then
\* the id.
LEMMA OneIsBefore ==
  ASSUME NEW S \in SUBSET Route, S # {}, NEW s \in [Route -> Int], NEW p \in [Route -> Int]
  PROVE  \E i \in S : \A j \in S \ {i} :
           \/ s[i] > s[j]
           \/ s[i] = s[j] /\ p[i] > p[j]
           \/ s[i] = s[j] /\ p[i] = p[j] /\ i < j
<1> DEFINE Precedes(i, j) == \/ s[i] > s[j]
                             \/ s[i] = s[j] /\ p[i] > p[j]
                             \/ s[i] = s[j] /\ p[i] = p[j] /\ i < j
           R == {ij \in S \X S : Precedes(ij[1], ij[2])}
<1>1. \A i \in S : i \in Nat /\ s[i] \in Int /\ p[i] \in Int
  BY RouteAssumption
<1>2. \A i, j \in S : <<i, j>> \in R <=> Precedes(i, j)
  OBVIOUS
<1>3. \A i, j \in S : i # j => Precedes(i, j) \/ Precedes(j, i)
  BY <1>1
<1>4. \A i, j, k \in S : Precedes(i, j) /\ Precedes(j, k) => Precedes(i, k)
  BY <1>1
<1>5. IsFiniteSet(S)
  BY RouteAssumption, FS_Subset
<1> HIDE DEF R, Precedes
<1>6. \E i \in S : \A j \in S \ {i} : <<i, j>> \in R
  <2>1. \A i, j \in S : i # j => <<i, j>> \in R \/ <<j, i>> \in R
    BY <1>2, <1>3
  <2>2. \A i, j, k \in S : <<i, j>> \in R /\ <<j, k>> \in R => <<i, k>> \in R
    BY <1>2, <1>4
  <2>3. QED
    BY <1>5, <2>1, <2>2, FirstExists
<1>7. \E i \in S : \A j \in S \ {i} : Precedes(i, j)
  BY <1>2, <1>6
<1>8. QED
  BY <1>7 DEF Precedes

\* For a project without routes of its own the two look at the same routes, and
\* order them in the same way.
LEMMA MatrixIsMatch ==
  ASSUME TypeOK, NEW m, NEW c
  PROVE  MatrixGlobal(m, c) = Match(FALSE, m, c)
<1> DEFINE Known == {r \in Route : /\ router.route[r].group \in router.group
                                   /\ MatchesGlobalRoute(router.route[r], FALSE, m, c)}
           Either == {r \in Route : /\ router.route[r].group \in router.group
                                    /\ \E p \in {FALSE, FALSE} :
                                         MatchesGlobalRoute(router.route[r], p, m, c)}
           Specific(row) == ForClient(row) + IF row.project THEN 10 ELSE 0
<1>1. Known = Either
  OBVIOUS
<1>2. \A r \in Known : Specific(router.route[r]) = ForClient(router.route[r])
  BY DEF MatchesGlobalRoute, ForClient
<1>3. \A i, j \in Known : Before(i, j, ForClient) <=> Before(i, j, Specific)
  BY <1>2, ZenonT(30) DEF Before
<1>4. MatrixGlobal(m, c) = Best(Known, ForClient)
  BY DEF MatrixGlobal
<1>5. Match(FALSE, m, c) = Best(Either, Specific)
  BY DEF Match
<1> HIDE DEF Known, Either, Specific
<1>6. (CHOOSE i \in Known : \A j \in Known \ {i} : Before(i, j, ForClient))
        = CHOOSE i \in Known : \A j \in Known \ {i} : Before(i, j, Specific)
  BY <1>3, Zenon
<1>7. QED
  BY <1>1, <1>4, <1>5, <1>6 DEF Best

\* A request that some route is for is routed to a group the router knows.
LEMMA MatchFinds ==
  ASSUME TypeOK, NEW project \in BOOLEAN, NEW m, NEW c, NEW r \in Route,
         router.route[r].group \in router.group,
         MatchesGlobalRoute(router.route[r], project, m, c)
  PROVE  Match(project, m, c) \in router.group
<1> DEFINE Some == {i \in Route : /\ router.route[i].group \in router.group
                                  /\ \E p \in {FALSE, project} :
                                       MatchesGlobalRoute(router.route[i], p, m, c)}
           Specific(row) == ForClient(row) + IF row.project THEN 10 ELSE 0
           s == [i \in Route |-> Specific(router.route[i])]
           q == [i \in Route |-> router.route[i].priority]
<1>1. Match(project, m, c) = Best(Some, Specific)
  BY DEF Match
<1>2. r \in Some /\ Some \in SUBSET Route
  OBVIOUS
<1>3. \A i \in Some : router.route[i].group \in router.group
  OBVIOUS
<1>4. s \in [Route -> Int] /\ q \in [Route -> Int]
  <2>1. router.route \in [Route -> AnyRoute]
    BY DEF TypeOK, Maps
  <2>2. ASSUME NEW i \in Route PROVE Specific(router.route[i]) \in Int /\ router.route[i].priority \in Int
    <3>1. router.route[i] \in AnyRoute
      BY <2>1
    <3>2. ForClient(router.route[i]) \in Int
      BY DEF ForClient
    <3>3. router.route[i].priority \in Int
      BY <3>1 DEF AnyRoute
    <3>4. QED
      BY <3>2, <3>3
  <2> HIDE DEF Specific
  <2>3. QED
    BY <2>2
<1> DEFINE Precedes(i, j) == \/ s[i] > s[j]
                             \/ s[i] = s[j] /\ q[i] > q[j]
                             \/ s[i] = s[j] /\ q[i] = q[j] /\ i < j
<1>5. \A i, j \in Some : Before(i, j, Specific) <=> Precedes(i, j)
  <2>1. \A i \in Some : i \in Route /\ s[i] = Specific(router.route[i]) /\ q[i] = router.route[i].priority
    OBVIOUS
  <2> HIDE DEF Some, Specific, s, q
  <2>2. QED
    BY <2>1 DEF Before
<1> HIDE DEF Some, Specific, s, q
<1>6. \E i \in Some : \A j \in Some \ {i} : Precedes(i, j)
  <2>1. Some # {}
    BY <1>2
  <2>2. QED
    BY <1>2, <1>4, <2>1, OneIsBefore
<1> HIDE DEF Precedes
<1>7. \E i \in Some : \A j \in Some \ {i} : Before(i, j, Specific)
  BY <1>5, <1>6
<1>8. (CHOOSE i \in Some : \A j \in Some \ {i} : Before(i, j, Specific)) \in Some
  BY <1>7, Zenon
<1>9. QED
  BY <1>1, <1>2, <1>3, <1>8 DEF Best

\* A model that the clients are offered has a group for some request.
LEMMA OfferedIsRouted ==
  ASSUME TypeOK, GroupsKnown, NEW m \in ActiveModels
  PROVE  \E project \in BOOLEAN, c \in Client : Match(project, m, c) # NoGroup
<1>1. PICK r \in Route, u \in Upstream :
        /\ router.route[r].status = "active" /\ m \in router.route[r].models
        /\ <<router.route[r].group, u>> \in router.member
  BY DEF ActiveModels
<1>2. router.route[r] \in AnyRoute /\ router.group \subseteq Group
  BY DEF TypeOK, Maps
<1>3. router.route[r].group \in router.group
  BY <1>1 DEF GroupsKnown
<1>4. PICK project \in BOOLEAN : project = router.route[r].project
  BY <1>2 DEF AnyRoute
<1>5. PICK c \in Client : router.route[r].clients = {} \/ c \in router.route[r].clients
  BY <1>2 DEF AnyRoute, Client
<1>6. MatchesGlobalRoute(router.route[r], project, m, c)
  BY <1>1, <1>4, <1>5 DEF MatchesGlobalRoute
<1>7. Match(project, m, c) \in router.group
  BY <1>3, <1>6, MatchFinds
<1>8. QED
  BY <1>2, <1>7, GroupAssumption

----------------------------------------------------------------------------
(* What a statement makes of the rows.                                     *)

\* Who names a model: an upstream, a route or a key.
LEMMA NamedIn ==
  ASSUME NEW d, NEW m
  PROVE  m \in Names(d) <=>
           \/ \E u \in Upstream : m \in d.upstream[u].models
           \/ \E r \in Route : m \in d.route[r].models
           \/ m \in d.names["key"]
<1>1. Names(d) = NamedBy(d, "upstream") \cup NamedBy(d, "route") \cup NamedBy(d, "key")
  BY DEF Names, Guarded
<1>2. /\ NamedBy(d, "upstream") = UNION {d.upstream[u].models : u \in Upstream}
      /\ NamedBy(d, "route") = UNION {d.route[r].models : r \in Route}
      /\ NamedBy(d, "key") = d.names["key"]
  BY DEF NamedBy
<1>3. m \in NamedBy(d, "upstream") <=> \E u \in Upstream : m \in d.upstream[u].models
  BY <1>2
<1>4. m \in NamedBy(d, "route") <=> \E r \in Route : m \in d.route[r].models
  BY <1>2
<1>5. m \in Names(d) <=>
        m \in NamedBy(d, "upstream") \/ m \in NamedBy(d, "route") \/ m \in NamedBy(d, "key")
  BY <1>1
<1>6. QED
  BY <1>2, <1>3, <1>4, <1>5

\* The database after a statement: it is one, it names no more than before but
\* what the statement brings, a model is gone only if it was deleted, and a row
\* comes into being only if it was inserted.
Follows(d, e) ==
  /\ d \in Db
  /\ \A m : m \in Names(d) => m \in Names(db) \/ m \in NamesBrought(e)
  /\ \A m \in Model : d.model[m] = "none" /\ db.model[m] # "none" =>
       e.table = "model" /\ e.how = "delete" /\ e.id = m
  /\ e.table = "model" => d.names = db.names /\ d.upstream = db.upstream /\ d.route = db.route
  /\ e.table # "model" => d.model = db.model
  /\ \A u \in Upstream : db.upstream[u] = NoUpstream /\ d.upstream[u] # NoUpstream =>
       e.table = "upstream" /\ e.id = u
  /\ \A r \in Route : db.route[r] = NoRoute /\ d.route[r] # NoRoute => e.table = "route" /\ e.id = r

\* The fields of the database.
LEMMA Rows ==
  ASSUME db \in Db
  PROVE  /\ db.model \in [Model -> Status] /\ db.upstream \in [Upstream -> UpstreamRow]
         /\ db.group \subseteq Group /\ db.member \subseteq Group \X Upstream
         /\ db.route \in [Route -> AnyRoute] /\ db.names \in [Named -> SUBSET Model]
         /\ db = [model |-> db.model, upstream |-> db.upstream, group |-> db.group,
                  member |-> db.member, route |-> db.route, names |-> db.names]
BY DEF Db

\* Statements on the models.
LEMMA ModelFollows ==
  ASSUME db \in Db, NEW e, WellFormed(e), e.table = "model"
  PROVE  Follows(Apply(e), e)
<1>1. e.id \in Model /\ e.row \in Status /\ (e.how = "delete" <=> e.row = "none")
  BY DEF WellFormed
<1>2. PICK f \in [Model -> Status] :
        /\ Apply(e) = [db EXCEPT !.model = f]
        /\ \A m \in Model : f[m] = "none" /\ db.model[m] # "none" => e.how = "delete" /\ e.id = m
  <2>1. Apply(e) = IF e.how = "insert" THEN InsertModel(e)
                   ELSE IF e.how = "update" THEN SetModel(e) ELSE RemoveModel(e)
    BY DEF Apply
  <2>2. e.how \in {"insert", "update", "delete"}
    BY DEF WellFormed, Named
  <2> DEFINE f == [db.model EXCEPT ![e.id] =
                     IF e.how = "update" /\ db.model[e.id] = "none" THEN "none" ELSE e.row]
  <2>3. f \in [Model -> Status]
    BY <1>1, Rows DEF Status
  <2>4. \A m \in Model : f[m] = "none" /\ db.model[m] # "none" => e.how = "delete" /\ e.id = m
    BY <1>1, Rows
  <2>5. Apply(e) = [db EXCEPT !.model = f]
    BY <1>1, <2>1, <2>2, Rows DEF InsertModel, SetModel, RemoveModel
  <2>6. QED
    BY <2>3, <2>4, <2>5
<1>3. QED
  <2>1. /\ Apply(e) \in Db /\ Apply(e).model = f /\ Apply(e).upstream = db.upstream
        /\ Apply(e).route = db.route /\ Apply(e).names = db.names
    BY <1>2, Rows DEF Db
  <2>2. \A m : m \in Names(Apply(e)) => m \in Names(db)
    BY <2>1, NamedIn
  <2>3. QED
    BY <1>2, <2>1, <2>2 DEF Follows

\* Statements on the upstreams.
LEMMA UpstreamFollows ==
  ASSUME db \in Db, NEW e, WellFormed(e), e.table = "upstream"
  PROVE  Follows(Apply(e), e)
<1>1. /\ e.id \in Upstream /\ e.how \in {"insert", "update", "delete"}
      /\ e.how # "update" => e.row \in UpstreamRow
      /\ e.how = "update" => \/ e.row.field = "status" /\ e.row.value \in Status
                             \/ e.row.field = "models" /\ e.row.value \in SUBSET Model
  BY DEF WellFormed, FieldOf, Named
<1> DEFINE old == db.upstream[e.id]
<1>2. old \in UpstreamRow /\ NoUpstream \in UpstreamRow
  BY <1>1, Rows DEF UpstreamRow, NoUpstream, Status
<1>3. /\ NamesBrought(e) = Brought(e, old, NoUpstream)
      /\ Apply(e) = IF e.how = "insert" THEN InsertUpstream(e)
                    ELSE IF e.how = "update" THEN SetUpstream(e) ELSE RemoveUpstream(e)
  BY <1>1 DEF NamesBrought, Apply
<1>4. PICK row \in UpstreamRow, members \in SUBSET (Group \X Upstream) :
        /\ Apply(e) = [db EXCEPT !.upstream = [db.upstream EXCEPT ![e.id] = row], !.member = members]
        /\ \A m \in row.models : m \in old.models \/ m \in NamesBrought(e)
  <2>1. CASE e.how = "insert"
    <3>1. Apply(e) = [db EXCEPT !.upstream = [db.upstream EXCEPT ![e.id] = e.row], !.member = db.member]
      BY <1>3, <2>1, Rows DEF InsertUpstream
    <3>2. NamesBrought(e) = e.row.models /\ e.row \in UpstreamRow
      BY <1>1, <1>3, <2>1 DEF Brought
    <3>3. QED
      BY <3>1, <3>2, Rows, ZenonT(30)
  <2>2. CASE e.how = "update"
    <3> DEFINE row == IF old # NoUpstream THEN [old EXCEPT ![e.row.field] = e.row.value] ELSE old
    <3>1. Apply(e) = [db EXCEPT !.upstream = [db.upstream EXCEPT ![e.id] = row], !.member = db.member]
      BY <1>1, <1>3, <2>2, Rows DEF SetUpstream
    <3>2. row \in UpstreamRow /\ \A m \in row.models : m \in old.models \/ m \in NamesBrought(e)
      <4>1. CASE old = NoUpstream
        BY <1>2, <4>1
      <4>2. CASE old # NoUpstream /\ e.row.field = "status"
        <5>1. row = [old EXCEPT !.status = e.row.value] /\ e.row.value \in Status
          BY <1>1, <2>2, <4>2
        <5>2. QED
          BY <1>2, <5>1 DEF UpstreamRow
      <4>3. CASE old # NoUpstream /\ e.row.field = "models"
        <5>1. row = [old EXCEPT !.models = e.row.value] /\ e.row.value \in SUBSET Model
          BY <1>1, <2>2, <4>3
        <5>2. NamesBrought(e) = e.row.value
          BY <1>3, <2>2, <4>3 DEF Brought
        <5>3. QED
          BY <1>2, <5>1, <5>2 DEF UpstreamRow
      <4>4. QED
        BY <1>1, <2>2, <4>1, <4>2, <4>3
    <3> HIDE DEF row
    <3>3. QED
      BY <3>1, <3>2, Rows
  <2>3. CASE e.how = "delete"
    <3>1. /\ db.member \ (Group \X {e.id}) \in SUBSET (Group \X Upstream)
          /\ Apply(e) = [db EXCEPT !.upstream = [db.upstream EXCEPT ![e.id] = NoUpstream],
                                   !.member = db.member \ (Group \X {e.id})]
      BY <1>3, <2>3, Rows DEF RemoveUpstream
    <3>2. NoUpstream.models = {}
      BY DEF NoUpstream
    <3>3. QED
      BY <1>2, <3>1, <3>2
  <2>4. QED
    BY <1>1, <2>1, <2>2, <2>3
<1>5. /\ Apply(e) \in Db /\ Apply(e).model = db.model /\ Apply(e).route = db.route
      /\ Apply(e).names = db.names /\ Apply(e).upstream = [db.upstream EXCEPT ![e.id] = row]
  <2>1. PICK f \in [Upstream -> UpstreamRow] : f = [db.upstream EXCEPT ![e.id] = row]
    BY <1>1, Rows
  <2>2. Apply(e) = [db EXCEPT !.upstream = f, !.member = members]
    BY <1>4, <2>1
  <2>3. QED
    BY <2>1, <2>2, Rows DEF Db
<1>6. ASSUME NEW m, m \in Names(Apply(e)) PROVE m \in Names(db) \/ m \in NamesBrought(e)
  <2>1. CASE \E u \in Upstream : m \in Apply(e).upstream[u].models
    <3>1. PICK u \in Upstream : m \in Apply(e).upstream[u].models
      BY <2>1
    <3>2. CASE u = e.id
      <4>1. m \in row.models
        BY <1>1, <1>5, <3>1, <3>2, Rows
      <4>2. m \in db.upstream[e.id].models \/ m \in NamesBrought(e)
        BY <1>4, <4>1
      <4>3. QED
        BY <1>1, <4>2, NamedIn
    <3>3. CASE u # e.id
      BY <1>5, <3>1, <3>3, Rows, NamedIn
    <3>4. QED
      BY <3>2, <3>3
  <2>2. QED
    BY <1>5, <1>6, <2>1, NamedIn
<1>7. \A u \in Upstream : u # e.id => Apply(e).upstream[u] = db.upstream[u]
  BY <1>5, Rows
<1>8. QED
  BY <1>5, <1>6, <1>7 DEF Follows

\* Statements that leave the names alone.
LEMMA OthersFollow ==
  ASSUME db \in Db, NEW e, e.table # "model", NEW d \in Db,
         d.model = db.model, d.upstream = db.upstream, d.names["key"] = db.names["key"],
         \A r \in Route : /\ d.route[r].models = db.route[r].models
                          /\ db.route[r] = NoRoute => d.route[r] = NoRoute
  PROVE  Follows(d, e)
<1>1. \A m : m \in Names(d) => m \in Names(db)
  BY NamedIn
<1>2. QED
  BY <1>1 DEF Follows

\* Statements on the groups.
LEMMA GroupFollows ==
  ASSUME db \in Db, NEW e, WellFormed(e), e.table = "group"
  PROVE  Follows(Apply(e), e)
<1>1. e.id \in Group /\ e.how \in {"insert", "update", "delete"}
  BY DEF WellFormed, Named
<1>2. Apply(e) = IF e.how = "insert" THEN InsertGroup(e)
                 ELSE IF e.how = "update" THEN SetGroup(e) ELSE RemoveGroup(e)
  BY <1>1 DEF Apply
<1> DEFINE f == [r \in Route |-> IF db.route[r].group = e.id
                                 THEN [db.route[r] EXCEPT !.group = NoGroup] ELSE db.route[r]]
<1>3. PICK groups \in SUBSET Group, members \in SUBSET (Group \X Upstream), routes \in {f, db.route} :
        Apply(e) = [db EXCEPT !.group = groups, !.member = members, !.route = routes]
  <2>1. CASE e.how = "insert"
    <3>1. db.group \cup {e.id} \in SUBSET Group
      BY <1>1, Rows
    <3>2. Apply(e) = [db EXCEPT !.group = db.group \cup {e.id}, !.member = db.member, !.route = db.route]
      BY <1>2, <2>1, Rows DEF InsertGroup
    <3>3. QED
      BY <3>1, <3>2, Rows
  <2>2. CASE e.how = "update"
    <3>1. Apply(e) = [db EXCEPT !.group = db.group, !.member = db.member, !.route = db.route]
      BY <1>2, <2>2, Rows DEF SetGroup
    <3>2. QED
      BY <3>1, Rows
  <2>3. CASE e.how = "delete"
    <3>1. db.group \ {e.id} \in SUBSET Group /\ db.member \ ({e.id} \X Upstream) \in SUBSET (Group \X Upstream)
      BY <1>1, Rows
    <3>2. Apply(e) = [db EXCEPT !.group = db.group \ {e.id}, !.member = db.member \ ({e.id} \X Upstream),
                                !.route = f]
      BY <1>2, <2>3, Rows DEF RemoveGroup
    <3> HIDE DEF f
    <3>3. QED
      BY <3>1, <3>2
  <2>4. QED
    BY <1>1, <2>1, <2>2, <2>3
<1>4. \A r \in Route : /\ routes[r] \in AnyRoute /\ routes[r].models = db.route[r].models
                       /\ db.route[r] = NoRoute => routes[r] = NoRoute
  <2>1. ASSUME NEW r \in Route
        PROVE  /\ f[r] \in AnyRoute /\ f[r].models = db.route[r].models
               /\ db.route[r] = NoRoute => f[r] = NoRoute
    <3>1. PICK row \in AnyRoute : row = db.route[r]
      BY Rows
    <3>2. f[r] = IF row.group = e.id THEN [row EXCEPT !.group = NoGroup] ELSE row
      BY <3>1
    <3>3. row = NoRoute => row.group = NoGroup
      BY DEF NoRoute
    <3>4. NoGroup # e.id
      BY <1>1, GroupAssumption
    <3>5. QED
      BY <3>1, <3>2, <3>3, <3>4 DEF AnyRoute
  <2> HIDE DEF f
  <2>2. QED
    BY <1>3, <2>1, Rows
<1>5. routes \in [Route -> AnyRoute]
  <2>1. routes = [r \in Route |-> routes[r]]
    <3>1. f = [r \in Route |-> f[r]]
      OBVIOUS
    <3> HIDE DEF f
    <3>2. QED
      BY <1>3, <3>1, Rows
  <2> HIDE DEF f
  <2>2. QED
    BY <1>4, <2>1
<1> HIDE DEF f
<1>6. /\ Apply(e) \in Db /\ Apply(e).model = db.model /\ Apply(e).upstream = db.upstream
      /\ Apply(e).names = db.names /\ Apply(e).route = routes
  BY <1>3, <1>5, Rows DEF Db
<1>7. QED
  BY <1>4, <1>6, OthersFollow

\* Statements on the members.
LEMMA MemberFollows ==
  ASSUME db \in Db, NEW e, WellFormed(e), e.table = "member"
  PROVE  Follows(Apply(e), e)
<1>1. e.id \in Group \X Upstream /\ e.how \in {"insert", "update", "delete"}
  BY DEF WellFormed, Named
<1>2. Apply(e) = IF e.how = "insert" THEN InsertMember(e) ELSE IF e.how = "update" THEN db ELSE DeleteMember(e)
  BY <1>1 DEF Apply
<1>3. PICK members \in SUBSET (Group \X Upstream) : Apply(e) = [db EXCEPT !.member = members]
  <2>1. Apply(e) \in {db, [db EXCEPT !.member = db.member \cup {e.id}],
                      [db EXCEPT !.member = db.member \ {e.id}]}
    BY <1>1, <1>2 DEF InsertMember, DeleteMember
  <2>2. db = [db EXCEPT !.member = db.member]
    BY Rows
  <2>3. /\ db.member \in SUBSET (Group \X Upstream)
        /\ db.member \cup {e.id} \in SUBSET (Group \X Upstream)
        /\ db.member \ {e.id} \in SUBSET (Group \X Upstream)
    BY <1>1, Rows
  <2>4. QED
    BY <2>1, <2>2, <2>3
<1>4. /\ Apply(e) \in Db /\ Apply(e).model = db.model /\ Apply(e).upstream = db.upstream
      /\ Apply(e).names = db.names /\ Apply(e).route = db.route
  BY <1>3, Rows DEF Db
<1>5. QED
  BY <1>4, OthersFollow

\* Statements on the plans, the policies and the keys.
LEMMA NamesFollow ==
  ASSUME db \in Db, NEW e, WellFormed(e), e.table \in Named
  PROVE  Follows(Apply(e), e)
<1>1. e.id = e.table /\ e.id \in Named /\ e.row \in SUBSET Model
  BY DEF WellFormed
<1>2. Apply(e) = [db EXCEPT !.names[e.id] = e.row]
  BY <1>1 DEF Apply, Named, SetNames
<1>3. PICK f \in [Named -> SUBSET Model] : f = [db.names EXCEPT ![e.id] = e.row]
  BY <1>1, Rows
<1>4. /\ Apply(e) \in Db /\ Apply(e).model = db.model /\ Apply(e).upstream = db.upstream
      /\ Apply(e).names = f /\ Apply(e).route = db.route
  BY <1>2, <1>3, Rows DEF Db
<1>5. f["key"] = IF e.table = "key" THEN e.row ELSE db.names["key"]
  BY <1>1, <1>3, Rows DEF Named
<1>6. e.table = "key" => NamesBrought(e) = e.row
  BY DEF NamesBrought
<1>7. \A m : m \in Names(Apply(e)) => m \in Names(db) \/ m \in NamesBrought(e)
  BY <1>4, <1>5, <1>6, NamedIn
<1>8. e.table # "model"
  BY DEF Named
<1>9. QED
  BY <1>4, <1>7, <1>8 DEF Follows

\* Statements on the routes.
LEMMA RouteFollows ==
  ASSUME db \in Db, NEW e, WellFormed(e), e.table = "route"
  PROVE  Follows(Apply(e), e)
<1>1. /\ e.id \in Route /\ e.how \in {"insert", "update", "delete"}
      /\ e.how # "update" => e.row \in AnyRoute
      /\ e.how = "update" => \/ e.row.field = "status" /\ e.row.value \in Status
                             \/ e.row.field = "models" /\ e.row.value \in SUBSET Model
                             \/ e.row.field = "group" /\ e.row.value \in Group
  BY DEF WellFormed, FieldOf, Named
<1> DEFINE old == db.route[e.id]
<1>2. old \in AnyRoute /\ NoRoute \in AnyRoute
  BY <1>1, Rows DEF AnyRoute, NoRoute, Status
<1>3. /\ NamesBrought(e) = Brought(e, old, NoRoute)
      /\ Apply(e) = IF e.how = "insert" THEN InsertRoute(e)
                    ELSE IF e.how = "update" THEN SetRoute(e) ELSE RemoveRoute(e)
  BY <1>1 DEF NamesBrought, Apply
<1>4. db = [db EXCEPT !.route = [db.route EXCEPT ![e.id] = old]]
  BY <1>1, Rows
<1>5. PICK row \in AnyRoute :
        /\ Apply(e) = [db EXCEPT !.route = [db.route EXCEPT ![e.id] = row]]
        /\ \A m \in row.models : m \in old.models \/ m \in NamesBrought(e)
  <2>1. CASE e.how = "insert"
    <3>1. \/ Apply(e) = [db EXCEPT !.route = [db.route EXCEPT ![e.id] = e.row]]
          \/ Apply(e) = db
      BY <1>3, <2>1, Rows DEF InsertRoute
    <3>2. NamesBrought(e) = e.row.models /\ e.row \in AnyRoute
      BY <1>1, <1>3, <2>1 DEF Brought
    <3>3. QED
      BY <1>2, <1>4, <3>1, <3>2
  <2>2. CASE e.how = "update"
    <3> DEFINE row == [old EXCEPT ![e.row.field] = e.row.value]
    <3>1. \/ old # NoRoute /\ Apply(e) = [db EXCEPT !.route = [db.route EXCEPT ![e.id] = row]]
          \/ Apply(e) = db
      BY <1>3, <2>2, Rows DEF SetRoute
    <3>2. old # NoRoute =>
            row \in AnyRoute /\ \A m \in row.models : m \in old.models \/ m \in NamesBrought(e)
      <4>1. CASE e.row.field = "status"
        <5>1. row = [old EXCEPT !.status = e.row.value] /\ e.row.value \in Status
          BY <1>1, <2>2, <4>1
        <5>2. QED
          BY <1>2, <5>1 DEF AnyRoute
      <4>2. CASE e.row.field = "group"
        <5>1. row = [old EXCEPT !.group = e.row.value] /\ e.row.value \in Group
          BY <1>1, <2>2, <4>2
        <5>2. QED
          BY <1>2, <5>1 DEF AnyRoute
      <4>3. CASE e.row.field = "models"
        <5>1. row = [old EXCEPT !.models = e.row.value] /\ e.row.value \in SUBSET Model
          BY <1>1, <2>2, <4>3
        <5>2. old # NoRoute => NamesBrought(e) = e.row.value
          BY <1>3, <2>2, <4>3 DEF Brought
        <5>3. QED
          BY <1>2, <5>1, <5>2 DEF AnyRoute
      <4>4. QED
        BY <1>1, <2>2, <4>1, <4>2, <4>3
    <3> HIDE DEF row
    <3>3. QED
      BY <1>2, <1>4, <3>1, <3>2
  <2>3. CASE e.how = "delete"
    <3>1. Apply(e) = [db EXCEPT !.route = [db.route EXCEPT ![e.id] = NoRoute]]
      BY <1>3, <2>3, Rows DEF RemoveRoute
    <3>2. NoRoute.models = {}
      BY DEF NoRoute
    <3>3. QED
      BY <1>2, <3>1, <3>2
  <2>4. QED
    BY <1>1, <2>1, <2>2, <2>3
<1>6. PICK f \in [Route -> AnyRoute] : f = [db.route EXCEPT ![e.id] = row]
  BY <1>1, Rows
<1>7. /\ Apply(e) \in Db /\ Apply(e).model = db.model /\ Apply(e).upstream = db.upstream
      /\ Apply(e).names = db.names /\ Apply(e).route = f
  BY <1>5, <1>6, Rows DEF Db
<1>8. f[e.id] = row /\ \A r \in Route : r # e.id => f[r] = db.route[r]
  BY <1>1, <1>6, Rows
<1>9. ASSUME NEW m, m \in Names(Apply(e)) PROVE m \in Names(db) \/ m \in NamesBrought(e)
  <2>1. CASE \E r \in Route : m \in Apply(e).route[r].models
    <3>1. PICK r \in Route : m \in f[r].models
      BY <1>7, <2>1
    <3>2. CASE r = e.id
      <4>1. m \in db.route[e.id].models \/ m \in NamesBrought(e)
        BY <1>5, <1>8, <3>1, <3>2
      <4>2. QED
        BY <1>1, <4>1, NamedIn
    <3>3. CASE r # e.id
      BY <1>8, <3>1, <3>3, NamedIn
    <3>4. QED
      BY <3>2, <3>3
  <2>2. QED
    BY <1>7, <1>9, <2>1, NamedIn
<1>10. QED
  BY <1>1, <1>7, <1>8, <1>9 DEF Follows

\* Every statement that has been decided on.
LEMMA Applied ==
  ASSUME db \in Db, NEW e, WellFormed(e), e.table # "none"
  PROVE  Follows(Apply(e), e)
<1>1. e.table \in {"model", "upstream", "group", "member", "route"} \cup Named
  BY DEF WellFormed
<1>2. QED
  BY <1>1, ModelFollows, UpstreamFollows, GroupFollows, MemberFollows, RouteFollows, NamesFollow

----------------------------------------------------------------------------
(* The steps.                                                              *)

\* What a handler may be.
Handler(o) ==
  /\ o = [at |-> o.at, edit |-> o.edit, model |-> o.model, named |-> o.named]
  /\ o.at \in {"idle", "write", "commit", "list", "swap"}
  /\ WellFormed(o.edit)
  /\ o.at \in {"write", "commit"} => o.edit.table # "none"
  /\ o.model \in [Model -> Status] /\ o.named \subseteq Model

\* One handler goes on.
LEMMA HandlersStep ==
  ASSUME Handlers, NEW a \in Admin, NEW o, Handler(o), op' = [op EXCEPT ![a] = o]
  PROVE  Handlers' /\ op'[a] = o /\ \A b \in Admin : b # a => op'[b] = op[b]
<1>1. op = [b \in Admin |-> op[b]]
  BY DEF Handlers
<1>2. op' = [b \in Admin |-> op'[b]] /\ op'[a] = o /\ \A b \in Admin : b # a => op'[b] = op[b]
  BY <1>1
<1>3. ASSUME NEW b \in Admin PROVE Handler(op'[b])
  <2>1. b # a => Handler(op[b])
    <3>1. op[b] = [at |-> op[b].at, edit |-> op[b].edit, model |-> op[b].model, named |-> op[b].named]
      BY DEF Handlers
    <3>2. QED
      BY <3>1 DEF Handlers, Handler
  <2>2. QED
    BY <1>2, <2>1
<1>4. \A b \in Admin : WellFormed(op[b].edit)' <=> WellFormed(op'[b].edit)
  BY DEF WellFormed, FieldOf
<1>5. op' = [b \in Admin |-> [at |-> op'[b].at, edit |-> op'[b].edit, model |-> op'[b].model,
                              named |-> op'[b].named]]
  BY <1>2, <1>3 DEF Handler
<1>6. QED
  BY <1>2, <1>3, <1>4, <1>5 DEF Handlers, Handler

\* A handler that has nothing to do, or has decided on a statement.
LEMMA NewHandlers ==
  /\ Handler(NoOp) /\ NoOp.at = "idle"
  /\ Handler([NoOp EXCEPT !.at = "list"])
  /\ \A model \in [Model -> Status] : Handler([NoOp EXCEPT !.at = "swap", !.model = model])
  /\ \A edit : WellFormed(edit) /\ edit.table # "none" =>
       Handler([NoOp EXCEPT !.at = "write", !.edit = edit])
<1>1. WellFormed(NoEdit)
  BY DEF WellFormed, NoEdit, Edit, Named
<1>2. [m \in Model |-> "none"] \in [Model -> Status]
  BY DEF Status
<1> DEFINE none == [m \in Model |-> "none"]
<1>3. NoOp = [at |-> "idle", edit |-> NoEdit, model |-> none, named |-> {}]
  BY DEF NoOp
<1>4. NoEdit.table = "none"
  BY DEF NoEdit, Edit
<1> HIDE DEF none
<1>5. [NoOp EXCEPT !.at = "list"] = [at |-> "list", edit |-> NoEdit, model |-> none, named |-> {}]
  BY <1>3
<1>6. none \in [Model -> Status]
  BY <1>2 DEF none
<1>7. Handler(NoOp) /\ NoOp.at = "idle" /\ Handler([NoOp EXCEPT !.at = "list"])
  BY <1>1, <1>3, <1>5, <1>6 DEF Handler
<1>8. ASSUME NEW model \in [Model -> Status] PROVE Handler([NoOp EXCEPT !.at = "swap", !.model = model])
  <2>1. PICK o : o = [NoOp EXCEPT !.at = "swap", !.model = model]
    OBVIOUS
  <2>2. /\ o = [at |-> o.at, edit |-> o.edit, model |-> o.model, named |-> o.named]
        /\ o.at = "swap" /\ o.edit = NoEdit /\ o.model = model /\ o.named = {}
    BY <1>3, <2>1
  <2>3. Handler(o)
    BY <1>1, <1>4, <2>2 DEF Handler
  <2>4. QED
    BY <2>1, <2>3
<1>9. ASSUME NEW edit, WellFormed(edit), edit.table # "none"
      PROVE  Handler([NoOp EXCEPT !.at = "write", !.edit = edit])
  <2>1. PICK o : o = [NoOp EXCEPT !.at = "write", !.edit = edit]
    OBVIOUS
  <2>2. /\ o = [at |-> o.at, edit |-> o.edit, model |-> o.model, named |-> o.named]
        /\ o.at = "write" /\ o.edit = edit /\ o.model = none /\ o.named = {}
    BY <1>3, <2>1
  <2>3. Handler(o)
    BY <1>6, <1>9, <2>2 DEF Handler
  <2>4. QED
    BY <2>1, <2>3
<1>10. QED
  BY <1>7, <1>8, <1>9

\* A handler goes on without a statement that waits for its commit.
LEMMA GoesOn ==
  ASSUME IInv, NEW a \in Admin, NEW o, Handler(o), o.at # "commit", op' = [op EXCEPT ![a] = o],
         UNCHANGED <<db, router, tick>>, catalog' \in [Model -> Status], left' \in 0..Budget
  PROVE  IInv'
<1>1. Handlers' /\ op'[a] = o /\ \A b \in Admin : b # a => op'[b] = op[b]
  BY HandlersStep DEF IInv, TypeOK
<1>2. TypeOK'
  BY <1>1 DEF IInv, TypeOK
<1>3. GroupsKnown'
  BY DEF IInv, GroupsKnown
<1>4. \A b \in Admin : op'[b].at = "commit" => op'[b] = op[b]
  BY <1>1
<1>5. Alone'
  BY <1>4 DEF IInv, Alone
<1>6. \A b \in Admin : op'[b].at = "commit" => NamesBrought(op[b].edit)' = NamesBrought(op[b].edit)
  BY <1>4 DEF NamesBrought, Brought
<1>7. Checked'
  BY <1>4, <1>6 DEF IInv, Checked
<1>8. QED
  BY <1>2, <1>3, <1>5, <1>7 DEF IInv

\* What an administrator asks for is a statement that can be decided on.
LEMMA EditIsWellFormed ==
  ASSUME NEW a \in Admin, Edits(a)
  PROVE  \E edit : WellFormed(edit) /\ edit.table # "none" /\ Start(a, edit)
<1>1. ASSUME NEW m \in Model, \/ CreateModel(a, m) \/ DeleteModel(a, m)
                              \/ \E status \in {"active", "disabled"} : UpdateModel(a, m, status)
      PROVE  \E edit : WellFormed(edit) /\ edit.table # "none" /\ Start(a, edit)
  <2>1. PICK how \in {"insert", "update", "delete"}, row \in Status :
          Start(a, Edit("model", m, how, row)) /\ (how = "delete" <=> row = "none")
    BY <1>1 DEF CreateModel, DeleteModel, UpdateModel, Status
  <2>2. WellFormed(Edit("model", m, how, row))
    BY <2>1 DEF WellFormed, Edit, Named
  <2>3. QED
    BY <2>1, <2>2 DEF Edit
<1>2. ASSUME NEW u \in Upstream, \/ UpdateUpstream(a, u) \/ DeleteUpstream(a, u)
                                 \/ \E models \in SUBSET Model : CreateUpstream(a, u, models)
      PROVE  \E edit : WellFormed(edit) /\ edit.table # "none" /\ Start(a, edit)
  <2>1. CASE DeleteUpstream(a, u) \/ \E models \in SUBSET Model : CreateUpstream(a, u, models)
    <3>1. PICK how \in {"insert", "delete"}, row \in UpstreamRow : Start(a, Edit("upstream", u, how, row))
      BY <2>1 DEF DeleteUpstream, CreateUpstream, UpstreamRow, NoUpstream, Status
    <3>2. WellFormed(Edit("upstream", u, how, row))
      BY <3>1 DEF WellFormed, Edit, Named
    <3>3. QED
      BY <3>1, <3>2 DEF Edit
  <2>2. CASE UpdateUpstream(a, u)
    <3>1. PICK field, value : /\ Start(a, Edit("upstream", u, "update", Set(field, value)))
                              /\ \/ field = "status" /\ value \in {"active", "disabled"}
                                 \/ field = "models" /\ value \in SUBSET Model
      BY <2>2, Zenon DEF UpdateUpstream
    <3>2. WellFormed(Edit("upstream", u, "update", Set(field, value)))
      BY <3>1 DEF WellFormed, Edit, Named, Set, FieldOf, Status
    <3>3. QED
      BY <3>1, <3>2 DEF Edit
  <2>3. QED
    BY <1>2, <2>1, <2>2
<1>3. ASSUME NEW g \in Group,
             \/ CreateUpstreamGroup(a, g) \/ UpdateUpstreamGroup(a, g) \/ DeleteUpstreamGroup(a, g)
      PROVE  \E edit : WellFormed(edit) /\ edit.table # "none" /\ Start(a, edit)
  <2>1. PICK how \in {"insert", "update", "delete"} : Start(a, Edit("group", g, how, g))
    BY <1>3 DEF CreateUpstreamGroup, UpdateUpstreamGroup, DeleteUpstreamGroup
  <2>2. WellFormed(Edit("group", g, how, g))
    BY DEF WellFormed, Edit, Named
  <2>3. QED
    BY <2>1, <2>2 DEF Edit
<1>4. ASSUME NEW g \in Group, NEW u \in Upstream, AddGroupMember(a, g, u) \/ RemoveGroupMember(a, g, u)
      PROVE  \E edit : WellFormed(edit) /\ edit.table # "none" /\ Start(a, edit)
  <2>1. PICK how \in {"insert", "delete"} : Start(a, Edit("member", <<g, u>>, how, u))
    BY <1>4 DEF AddGroupMember, RemoveGroupMember
  <2>2. WellFormed(Edit("member", <<g, u>>, how, u))
    BY DEF WellFormed, Edit, Named
  <2>3. QED
    BY <2>1, <2>2 DEF Edit
<1>5. ASSUME NEW r \in Route, \/ UpdateRoute(a, r) \/ DeleteRoute(a, r)
                              \/ \E row \in RouteRow : CreateRoute(a, r, row)
      PROVE  \E edit : WellFormed(edit) /\ edit.table # "none" /\ Start(a, edit)
  <2>1. CASE DeleteRoute(a, r) \/ \E row \in RouteRow : CreateRoute(a, r, row)
    <3>1. NoRoute \in AnyRoute /\ RouteRow \subseteq AnyRoute
      BY RouteRowAssumption DEF AnyRoute, NoRoute, Status
    <3>2. PICK how \in {"insert", "delete"}, row \in AnyRoute : Start(a, Edit("route", r, how, row))
      BY <2>1, <3>1 DEF DeleteRoute, CreateRoute
    <3>3. WellFormed(Edit("route", r, how, row))
      BY <3>2 DEF WellFormed, Edit, Named
    <3>4. QED
      BY <3>2, <3>3 DEF Edit
  <2>2. CASE UpdateRoute(a, r)
    <3>1. PICK field, value : /\ Start(a, Edit("route", r, "update", Set(field, value)))
                              /\ \/ field = "status" /\ value \in {"active", "disabled"}
                                 \/ field = "models" /\ value \in SUBSET Model
                                 \/ field = "group" /\ value \in Group
      BY <2>2, Zenon DEF UpdateRoute
    <3>2. WellFormed(Edit("route", r, "update", Set(field, value)))
      BY <3>1 DEF WellFormed, Edit, Named, Set, FieldOf, Status
    <3>3. QED
      BY <3>1, <3>2 DEF Edit
  <2>3. QED
    BY <1>5, <2>1, <2>2
<1>6. ASSUME NEW models \in SUBSET Model,
             \/ CreatePlan(a, models) \/ UpdatePlan(a, models) \/ CreatePolicy(a, models)
             \/ UpdatePolicy(a, models) \/ NameForKey(a, models) \/ DeletePlan(a) \/ DeletePolicy(a)
      PROVE  \E edit : WellFormed(edit) /\ edit.table # "none" /\ Start(a, edit)
  <2>1. PICK n \in Named, how \in {"insert", "update", "delete"}, row \in SUBSET Model :
          Start(a, Edit(n, n, how, row)) /\ (how = "delete" => row = {})
    BY <1>6 DEF CreatePlan, UpdatePlan, CreatePolicy, UpdatePolicy, NameForKey, DeletePlan, DeletePolicy,
                Create, Update, Delete, Named
  <2>2. WellFormed(Edit(n, n, how, row))
    BY <2>1 DEF WellFormed, Edit, Named
  <2>3. n # "none"
    BY DEF Named
  <2>4. QED
    BY <2>1, <2>2, <2>3 DEF Edit
<1>7. {} \in SUBSET Model
  OBVIOUS
<1>8. QED
  BY <1>1, <1>2, <1>3, <1>4, <1>5, <1>6, <1>7 DEF Edits

\* An administrator asks for something.
LEMMA EditsStep ==
  ASSUME IInv, NEW a \in Admin, Edits(a)
  PROVE  IInv'
<1>1. PICK edit : WellFormed(edit) /\ edit.table # "none" /\ Start(a, edit)
  BY EditIsWellFormed
<1>2. PICK o : o = [NoOp EXCEPT !.at = "write", !.edit = edit]
  OBVIOUS
<1>3. Handler(o) /\ o.at = "write"
  BY <1>1, <1>2, NewHandlers DEF NoOp
<1>4. op' = [op EXCEPT ![a] = o] /\ left > 0 /\ left' = left - 1 /\ UNCHANGED <<db, catalog, router, tick>>
  BY <1>1, <1>2 DEF Start
<1>5. left' \in 0..Budget /\ catalog' \in [Model -> Status]
  BY <1>4, BudgetAssumption DEF IInv, TypeOK
<1>6. QED
  BY <1>3, <1>4, <1>5, GoesOn

\* The triggers of a statement are run.
LEMMA CheckStep ==
  ASSUME IInv, NEW a \in Admin, Check(a)
  PROVE  IInv'
<1>1. /\ TypeOK /\ GroupsKnown /\ Alone /\ Checked /\ Handlers /\ db \in Db
      /\ catalog \in [Model -> Status] /\ left \in 0..Budget
      /\ UNCHANGED <<db, catalog, router, tick, left>>
  BY DEF IInv, TypeOK, Check
<1> DEFINE e == op[a].edit
<1>2. CASE Done(a)
  <2>1. op' = [op EXCEPT ![a] = NoOp]
    BY <1>2 DEF Done
  <2>2. QED
    BY <1>1, <2>1, NewHandlers, GoesOn
<1>3. CASE /\ WriterTrigger(e) /\ DeleteTrigger(e)
           /\ op' = [op EXCEPT ![a].at = "commit", ![a].model = db.model, ![a].named = Names(db)]
  <2>1. /\ op[a] = [at |-> op[a].at, edit |-> e, model |-> op[a].model, named |-> op[a].named]
        /\ WellFormed(e) /\ e.table # "none" /\ op[a].at = "write"
    BY <1>1 DEF Handlers, Check
  <2>2. PICK o : o = [op[a] EXCEPT !.at = "commit", !.model = db.model, !.named = Names(db)]
    OBVIOUS
  <2> HIDE DEF e
  <2>3. /\ o = [at |-> o.at, edit |-> o.edit, model |-> o.model, named |-> o.named]
        /\ o.at = "commit" /\ o.edit = e /\ o.model = db.model /\ o.named = Names(db)
    <3>1. PICK n, x, y, z, w : /\ n = op[a] /\ x = op[a].model /\ y = op[a].named
                               /\ z = db.model /\ w = Names(db)
      OBVIOUS
    <3>2. n = [at |-> "write", edit |-> e, model |-> x, named |-> y]
      BY <2>1, <3>1
    <3>3. o = [n EXCEPT !.at = "commit", !.model = z, !.named = w]
      BY <2>2, <3>1
    <3>4. /\ o = [at |-> o.at, edit |-> o.edit, model |-> o.model, named |-> o.named]
          /\ o.at = "commit" /\ o.edit = e /\ o.model = z /\ o.named = w
      BY <3>2, <3>3
    <3>5. QED
      BY <3>1, <3>4
  <2>4. Names(db) \subseteq Model
    BY <1>1, Rows, NamedIn DEF UpstreamRow, AnyRoute, Named
  <2>5. Handler(o)
    BY <1>1, <2>1, <2>3, <2>4, Rows DEF Handler
  <2>6. op' = [op EXCEPT ![a] = o]
    BY <1>1, <1>3, <2>2 DEF Handlers
  <2>7. Handlers' /\ op'[a] = o /\ \A b \in Admin : b # a => op'[b] = op[b]
    BY <1>1, <2>5, <2>6, HandlersStep
  <2>8. TypeOK' /\ GroupsKnown'
    BY <1>1, <2>7 DEF TypeOK, GroupsKnown
  <2>9. Alone'
    <3>1. ~Locked(e)
      BY DEF Check, e
    <3>2. QED
      BY <1>1, <2>3, <2>7, <3>1 DEF Alone, Locked
  <2>10. e.table = "model" /\ e.how = "delete" => e.id \notin Names(db)
    BY <1>3 DEF DeleteTrigger
  <2>11. ASSUME NEW m \in NamesBrought(e) PROVE db.model[m] # "none"
    <3>1. NamesBrought(e) \subseteq WrittenNames(e)
      BY <2>1 DEF NamesBrought, WrittenNames, Brought, RowNames, WellFormed, Named
    <3>2. QED
      BY <1>3, <2>11, <3>1 DEF WriterTrigger, Registered
  <2>12. \A f : NamesBrought(f)' = NamesBrought(f)
    BY <1>1 DEF NamesBrought, Brought
  <2>13. ASSUME NEW b \in Admin, op'[b].at = "commit"
         PROVE  /\ op'[b].edit.table = "model" /\ op'[b].edit.how = "delete" => op'[b].edit.id \notin op'[b].named
                /\ \A m \in NamesBrought(op'[b].edit) : op'[b].model[m] # "none"
    <3>1. CASE b = a
      BY <2>3, <2>7, <2>10, <2>11, <3>1
    <3>2. CASE b # a
      BY <1>1, <2>7, <2>13, <3>2 DEF Checked
    <3>3. QED
      BY <3>1, <3>2
  <2>14. \A b \in Admin : NamesBrought(op[b].edit)' = NamesBrought(op'[b].edit)
    BY <1>1 DEF NamesBrought, Brought
  <2>15. Checked'
    BY <2>13, <2>14 DEF Checked
  <2>16. QED
    BY <2>8, <2>9, <2>15 DEF IInv
<1>4. QED
  BY <1>2, <1>3 DEF Check

\* A statement is committed.
LEMMA CommitStep ==
  ASSUME IInv, NEW a \in Admin, Commit(a)
  PROVE  IInv'
<1>1. /\ TypeOK /\ GroupsKnown /\ Alone /\ Checked /\ Handlers /\ db \in Db
      /\ UNCHANGED <<catalog, router, tick, left>>
  BY DEF IInv, TypeOK, Commit
<1>2. PICK e : e = op[a].edit
  OBVIOUS
<1>3. op[a].at = "commit" /\ db' = Apply(e) /\ WellFormed(e) /\ e.table # "none"
  BY <1>1, <1>2 DEF Commit, Handlers
<1>4. Follows(db', e)
  BY <1>1, <1>3, Applied
<1>5. PICK o : Handler(o) /\ o.at # "commit" /\ op' = [op EXCEPT ![a] = o]
  BY NewHandlers DEF Commit, Done, NoOp
<1>6. Handlers' /\ op'[a] = o /\ \A b \in Admin : b # a => op'[b] = op[b]
  BY <1>1, <1>5, HandlersStep
<1>7. TypeOK' /\ GroupsKnown'
  BY <1>1, <1>4, <1>6 DEF TypeOK, GroupsKnown, Follows
<1>8. \A b \in Admin : op'[b].at = "commit" => op'[b] = op[b] /\ b # a
  BY <1>5, <1>6
<1>9. Alone'
  BY <1>1, <1>8 DEF Alone
<1>10. ASSUME NEW b \in Admin, op'[b].at = "commit"
       PROVE  NamesBrought(op[b].edit)' \subseteq NamesBrought(op[b].edit)
  <2>1. PICK f : f = op[b].edit
    OBVIOUS
  <2>2. op'[b].edit = f /\ WellFormed(f) /\ ~(f.table = e.table /\ f.id = e.id)
    BY <1>1, <1>2, <1>3, <1>8, <1>10, <2>1 DEF Handlers, Alone
  <2>3. CASE f.table = "upstream"
    <3>1. f.id \in Upstream
      BY <2>2, <2>3 DEF WellFormed
    <3>2. db.upstream[f.id] = NoUpstream => db'.upstream[f.id] = NoUpstream
      BY <1>4, <2>2, <2>3, <3>1 DEF Follows
    <3>3. /\ NamesBrought(op[b].edit) = Brought(f, db.upstream[f.id], NoUpstream)
          /\ NamesBrought(op[b].edit)' = Brought(f, db'.upstream[f.id], NoUpstream)
      BY <2>1, <2>2, <2>3 DEF NamesBrought, Brought
    <3>4. QED
      BY <3>2, <3>3 DEF Brought
  <2>4. CASE f.table = "route"
    <3>1. f.id \in Route
      BY <2>2, <2>4 DEF WellFormed
    <3>2. db.route[f.id] = NoRoute => db'.route[f.id] = NoRoute
      BY <1>4, <2>2, <2>4, <3>1 DEF Follows
    <3>3. /\ NamesBrought(op[b].edit) = Brought(f, db.route[f.id], NoRoute)
          /\ NamesBrought(op[b].edit)' = Brought(f, db'.route[f.id], NoRoute)
      BY <2>1, <2>2, <2>4 DEF NamesBrought, Brought
    <3>4. QED
      BY <3>2, <3>3 DEF Brought
  <2>5. CASE f.table \notin {"upstream", "route"}
    BY <2>1, <2>2, <2>5 DEF NamesBrought
  <2>6. QED
    BY <2>3, <2>4, <2>5
<1>11. Checked'
  BY <1>1, <1>8, <1>10 DEF Checked
<1>12. QED
  BY <1>7, <1>9, <1>11 DEF IInv

\* The catalog is loaded after a write.
LEMMA RefreshStep ==
  ASSUME IInv, NEW a \in Admin, RefreshCatalog(a) \/ RefreshSwap(a)
  PROVE  IInv'
<1>1. /\ Handlers /\ db.model \in [Model -> Status] /\ catalog \in [Model -> Status] /\ left \in 0..Budget
      /\ op[a].model \in [Model -> Status] /\ UNCHANGED <<db, router, tick>>
  BY Rows DEF IInv, TypeOK, Handlers, RefreshCatalog, RefreshSwap
<1>2. PICK o : Handler(o) /\ o.at # "commit" /\ op' = [op EXCEPT ![a] = o]
  <2>1. CASE Done(a)
    BY <2>1, NewHandlers DEF Done
  <2>2. CASE op' = [op EXCEPT ![a] = [NoOp EXCEPT !.at = "swap", !.model = db.model]]
    BY <1>1, <2>2, NewHandlers DEF NoOp
  <2>3. QED
    BY <2>1, <2>2 DEF RefreshCatalog, RefreshSwap
<1>3. catalog' \in [Model -> Status] /\ left' \in 0..Budget
  BY <1>1, BudgetAssumption DEF RefreshCatalog, RefreshSwap, Swap
<1>4. QED
  BY <1>1, <1>2, <1>3, GoesOn

\* The ticker reads, and installs what it has read.
LEMMA TickerStep ==
  ASSUME IInv, Ticker
  PROVE  IInv'
<1>1. /\ db \in Db /\ catalog \in [Model -> Status] /\ router \in Maps /\ tick \in Tick /\ Handlers
      /\ left \in 0..Budget /\ GroupsKnown /\ Alone /\ Checked /\ UNCHANGED <<db, op>>
  BY DEF IInv, TypeOK, Ticker, ListUpstreams, ListGroups, ListMembers, ListRoutes, SkipTick, ListModels,
         TickSwap, Reload, Read
<1>2. tick.at \in Ticks /\ tick.maps \in Maps /\ tick.model \in [Model -> Status]
  BY <1>1 DEF Tick
<1>3. NoTick \in Tick
  <2>1. NoTick.model \in [Model -> Status] /\ NoTick.at \in Ticks
    BY DEF NoTick, Status, Ticks
  <2>2. NoTick.maps \in Maps
    <3>1. NoUpstream \in UpstreamRow /\ NoRoute \in AnyRoute
      BY DEF NoUpstream, UpstreamRow, NoRoute, AnyRoute, Status
    <3>2. [u \in Upstream |-> NoUpstream] \in [Upstream -> UpstreamRow]
      BY <3>1
    <3>3. [r \in Route |-> NoRoute] \in [Route -> AnyRoute]
      BY <3>1
    <3>4. QED
      BY <3>2, <3>3 DEF NoTick, Maps
  <2>3. QED
    BY <2>1, <2>2 DEF NoTick, Tick
<1>4. left' \in 0..Budget
  BY <1>1, BudgetAssumption
     DEF Ticker, ListUpstreams, ListGroups, ListMembers, ListRoutes, SkipTick, ListModels, TickSwap, Reload, Read
<1>5. /\ tick' \in Tick /\ catalog' \in [Model -> Status]
      /\ router' = router \/ (tick.at = "install" /\ router' = BuildMaps(tick.maps))
  <2>1. CASE \E at, next \in Ticks, maps \in Maps : Read(at, next, maps)
    BY <1>1, <1>2, <2>1 DEF Read, Tick
  <2>2. CASE ListUpstreams \/ ListGroups \/ ListMembers \/ ListRoutes
    <3>1. /\ [tick.maps EXCEPT !.upstream = db.upstream] \in Maps
          /\ [tick.maps EXCEPT !.group = db.group] \in Maps
          /\ [tick.maps EXCEPT !.member = db.member] \in Maps
          /\ [tick.maps EXCEPT !.route = db.route] \in Maps
      BY <1>1, <1>2, Rows DEF Maps
    <3>2. QED
      BY <2>1, <2>2, <3>1 DEF ListUpstreams, ListGroups, ListMembers, ListRoutes, Ticks
  <2>3. CASE SkipTick
    BY <1>1, <1>3, <2>3 DEF SkipTick
  <2>4. CASE ListModels
    BY <1>1, <1>2, <2>4, Rows DEF ListModels, Tick, Ticks
  <2>5. CASE TickSwap
    BY <1>1, <1>2, <1>3, <2>5 DEF TickSwap, Swap, Tick, Ticks
  <2>6. CASE Reload
    BY <1>1, <1>3, <2>6 DEF Reload
  <2>7. QED
    BY <2>2, <2>3, <2>4, <2>5, <2>6 DEF Ticker
<1>6. router' \in Maps /\ GroupsKnown'
  <2>1. PICK maps \in Maps : maps = tick.maps
    BY <1>2
  <2>2. PICK known : known = {gu \in maps.member : gu[1] \in maps.group /\ maps.upstream[gu[2]] # NoUpstream}
    OBVIOUS
  <2>3. BuildMaps(maps) = [maps EXCEPT !.member = known]
    BY <2>2 DEF BuildMaps
  <2>4. known \subseteq maps.member /\ \A gu \in known : gu[1] \in maps.group
    BY <2>2
  <2>5. /\ BuildMaps(maps) \in Maps /\ BuildMaps(maps).member = known
        /\ BuildMaps(maps).group = maps.group
    BY <2>3, <2>4 DEF Maps
  <2>6. QED
    BY <1>1, <1>5, <2>1, <2>4, <2>5 DEF GroupsKnown
<1>7. TypeOK'
  <2>1. op' = op
    BY <1>1
  <2>2. Handlers' <=> Handlers
    BY <2>1 DEF Handlers, WellFormed, FieldOf
  <2>3. QED
    BY <1>1, <1>4, <1>5, <1>6, <2>2 DEF TypeOK
<1>8. Alone' /\ Checked'
  <2>1. \A a \in Admin : NamesBrought(op[a].edit)' = NamesBrought(op[a].edit)
    BY <1>1 DEF NamesBrought, Brought
  <2>2. QED
    BY <1>1, <2>1 DEF Alone, Checked
<1>9. QED
  BY <1>6, <1>7, <1>8 DEF IInv

----------------------------------------------------------------------------
(* The theorems.                                                           *)

\* The configuration has been loaded, and nobody does anything.
LEMMA Initially ==
  ASSUME Init
  PROVE  IInv
<1>1. PICK row \in RouteRow \cup {NoRoute}, g \in Group :
        db = [model |-> [m \in Model |-> "active"],
              upstream |-> [u \in Upstream |-> [status |-> "active", models |-> row.models]],
              group |-> {g}, member |-> {g} \X Upstream,
              route |-> [r \in Route |-> row], names |-> [n \in Named |-> {}]]
  <2>1. PICK row \in RouteRow \cup {NoRoute} :
          LET g == IF row = NoRoute THEN CHOOSE x \in Group : TRUE ELSE row.group
          IN  db = [model |-> [m \in Model |-> "active"],
                    upstream |-> [u \in Upstream |-> [status |-> "active", models |-> row.models]],
                    group |-> {g}, member |-> {g} \X Upstream,
                    route |-> [r \in Route |-> row], names |-> [n \in Named |-> {}]]
    BY Zenon DEF Init
  <2>2. (IF row = NoRoute THEN CHOOSE x \in Group : TRUE ELSE row.group) \in Group
    <3>1. (CHOOSE x \in Group : TRUE) \in Group
      BY GroupAssumption
    <3>2. row # NoRoute => row.group \in Group
      BY RouteRowAssumption
    <3>3. QED
      BY <3>1, <3>2
  <2>3. QED
    BY <2>1, <2>2
<1>2. row \in AnyRoute /\ row.models \subseteq Model
  <2>1. NoRoute \in AnyRoute
    BY DEF AnyRoute, NoRoute, Status
  <2>2. row \in AnyRoute
    BY <2>1, RouteRowAssumption
  <2>3. QED
    BY <2>2 DEF AnyRoute
<1>3. db \in Db
  <2>1. [m \in Model |-> "active"] \in [Model -> Status] /\ [n \in Named |-> {}] \in [Named -> SUBSET Model]
    BY DEF Status
  <2>2. [u \in Upstream |-> [status |-> "active", models |-> row.models]] \in [Upstream -> UpstreamRow]
    BY <1>2 DEF UpstreamRow, Status
  <2>3. [r \in Route |-> row] \in [Route -> AnyRoute]
    BY <1>2
  <2>4. {g} \subseteq Group /\ {g} \X Upstream \subseteq Group \X Upstream
    OBVIOUS
  <2>5. QED
    BY <1>1, <2>1, <2>2, <2>3, <2>4 DEF Db
<1>4. catalog \in [Model -> Status]
  BY <1>3, Rows DEF Init
<1>5. router \in Maps /\ GroupsKnown
  <2>1. PICK maps : maps = MapsOf(db)
    OBVIOUS
  <2>2. maps \in Maps
    BY <1>3, <2>1, Rows DEF MapsOf, Maps
  <2>3. PICK known : known = {gu \in maps.member : gu[1] \in maps.group /\ maps.upstream[gu[2]] # NoUpstream}
    OBVIOUS
  <2>4. router = [maps EXCEPT !.member = known]
    BY <2>1, <2>3 DEF BuildMaps, Init
  <2>5. known \subseteq maps.member /\ \A gu \in known : gu[1] \in maps.group
    BY <2>3
  <2>6. QED
    BY <2>2, <2>4, <2>5 DEF Maps, GroupsKnown
<1>6. tick \in Tick
  <2>1. NoTick.model \in [Model -> Status] /\ NoTick.at \in Ticks
    BY DEF NoTick, Status, Ticks
  <2>2. NoTick.maps \in Maps
    <3>1. NoUpstream \in UpstreamRow /\ NoRoute \in AnyRoute
      BY DEF NoUpstream, UpstreamRow, NoRoute, AnyRoute, Status
    <3>2. [u \in Upstream |-> NoUpstream] \in [Upstream -> UpstreamRow]
      BY <3>1
    <3>3. [r \in Route |-> NoRoute] \in [Route -> AnyRoute]
      BY <3>1
    <3>4. QED
      BY <3>2, <3>3 DEF NoTick, Maps
  <2>3. QED
    BY <2>1, <2>2 DEF NoTick, Tick, Init
<1>7. \A a \in Admin : op[a] = NoOp
  BY DEF Init
<1>8. Handlers /\ Alone /\ Checked
  <2>1. Handler(NoOp) /\ NoOp.at = "idle"
    BY NewHandlers
  <2>2. op = [a \in Admin |-> [at |-> op[a].at, edit |-> op[a].edit, model |-> op[a].model,
                               named |-> op[a].named]]
    BY <1>7, <2>1 DEF Handler, Init
  <2>3. QED
    BY <1>7, <2>1, <2>2 DEF Handler, Handlers, Alone, Checked
<1>9. left \in 0..Budget
  BY BudgetAssumption DEF Init
<1>10. QED
  BY <1>3, <1>4, <1>5, <1>6, <1>8, <1>9 DEF IInv, TypeOK

\* Every step keeps the invariant.
LEMMA Step ==
  ASSUME IInv, [Next]_vars
  PROVE  IInv'
<1>1. CASE Ticker
  BY <1>1, TickerStep
<1>2. CASE \E a \in Admin : Edits(a) \/ Continues(a)
  BY <1>2, EditsStep, CheckStep, CommitStep, RefreshStep DEF Continues
<1>3. CASE UNCHANGED vars
  <2>1. \A a \in Admin : NamesBrought(op[a].edit)' = NamesBrought(op[a].edit)
    BY <1>3 DEF vars, NamesBrought, Brought
  <2>2. TypeOK'
    <3>1. UNCHANGED <<db, catalog, router, op, tick, left>> /\ TypeOK
      BY <1>3 DEF vars, IInv
    <3>2. Handlers' <=> Handlers
      BY <3>1 DEF Handlers, WellFormed, FieldOf
    <3>3. QED
      BY <3>1, <3>2 DEF TypeOK
  <2>3. GroupsKnown' /\ Alone' /\ Checked'
    BY <1>3, <2>1 DEF IInv, GroupsKnown, Alone, Checked, vars
  <2>4. QED
    BY <2>2, <2>3 DEF IInv
<1>4. QED
  BY <1>1, <1>2, <1>3 DEF Next

\* The invariant holds in every reachable state.
LEMMA Inductive == Spec => []IInv
<1>1. Init => IInv
  BY Initially
<1>2. IInv /\ [Next]_vars => IInv'
  BY Step
<1>3. QED
  BY <1>1, <1>2, PTL DEF Spec

\* Type correctness of every reachable state: the tables, the catalog, the maps
\* of the router and the handlers in progress have their types.
THEOREM TypeCorrect == Spec => []TypeOK
<1>1. IInv => TypeOK
  BY DEF IInv
<1>2. QED
  BY <1>1, Inductive, PTL

\* What an administrator is shown of the routing, and what the clients are
\* offered, is what Match does, whatever mixture of tables a reload has read.
THEOREM ViewsAgree == Spec => []ViewsMirrorMatch
<1>1. IInv => ViewsMirrorMatch
  BY MatrixIsMatch, OfferedIsRouted DEF IInv, ViewsMirrorMatch
<1>2. QED
  BY <1>1, Inductive, PTL

\* A row comes to name a model that is not registered only if, when the statement
\* commits, the model has been deleted, or named, since its triggers looked.
THEOREM OnlyByRace == Spec => DanglesOnlyByRace
<1>1. ASSUME IInv, [Next]_vars, NEW m \in Dangling(db') \ Dangling(db)
      PROVE  \E a \in Admin : /\ op[a].at = "commit" /\ op'[a].at # "commit"
                             /\ \/ op[a].model[m] # db.model[m]
                                \/ (m \in op[a].named) # (m \in Names(db))
  <2>1. PICK a \in Admin : Commit(a)
    <3>1. db' # db
      BY <1>1
    <3>2. Next
      BY <1>1, <3>1 DEF vars
    <3>3. ~Ticker
      BY <3>1 DEF Ticker, ListUpstreams, ListGroups, ListMembers, ListRoutes, SkipTick, ListModels,
                  TickSwap, Reload, Read
    <3>4. PICK a \in Admin : Edits(a) \/ Continues(a)
      BY <3>2, <3>3 DEF Next
    <3>5. ~Edits(a)
      BY <3>1, EditIsWellFormed DEF Start
    <3>6. ~Check(a) /\ ~RefreshCatalog(a) /\ ~RefreshSwap(a)
      BY <3>1 DEF Check, RefreshCatalog, RefreshSwap
    <3>7. QED
      BY <3>4, <3>5, <3>6 DEF Continues
  <2>2. PICK e : e = op[a].edit
    OBVIOUS
  <2>3. /\ db \in Db /\ Handlers /\ op[a].at = "commit" /\ db' = Apply(e)
        /\ WellFormed(e) /\ e.table # "none"
        /\ e.table = "model" /\ e.how = "delete" => e.id \notin op[a].named
        /\ \A n \in NamesBrought(e) : op[a].model[n] # "none"
    BY <1>1, <2>1, <2>2 DEF IInv, TypeOK, Handlers, Checked, Commit
  <2>4. Follows(db', e)
    BY <2>3, Applied
  <2>5. op'[a].at # "commit"
    <3>1. PICK o : o.at # "commit" /\ op' = [op EXCEPT ![a] = o] /\ Handler(o)
      BY <2>1, NewHandlers DEF Commit, Done, NoOp
    <3>2. QED
      BY <2>3, <3>1, HandlersStep
  <2>6. m \in Names(db') /\ db'.model[m] = "none" /\ (m \in Names(db) => db.model[m] # "none")
    BY <1>1 DEF Dangling
  <2>7. m \in Model
    BY <2>4, <2>6, NamedIn DEF Follows, Db, UpstreamRow, AnyRoute, Named
  <2>8. CASE m \in Names(db)
    <3>1. m \notin op[a].named
      BY <2>3, <2>4, <2>6, <2>7, <2>8 DEF Follows
    <3>2. QED
      BY <2>3, <2>5, <2>8, <3>1
  <2>9. CASE m \notin Names(db)
    <3>1. m \in NamesBrought(e) /\ e.table # "model"
      <4>1. m \in NamesBrought(e)
        BY <2>4, <2>6, <2>9 DEF Follows
      <4>2. QED
        BY <4>1 DEF NamesBrought
    <3>2. db.model[m] = "none"
      BY <2>4, <2>6, <3>1 DEF Follows
    <3>3. QED
      BY <2>3, <2>5, <3>1, <3>2
  <2>10. QED
    BY <2>8, <2>9
<1>2. IInv /\ [Next]_vars => \A m \in Dangling(db') \ Dangling(db) :
        \E a \in Admin : /\ op[a].at = "commit" /\ op'[a].at # "commit"
                        /\ \/ op[a].model[m] # db.model[m]
                           \/ (m \in op[a].named) # (m \in Names(db))
  BY <1>1
<1>3. QED
  BY <1>2, Inductive, PTL DEF Spec, DanglesOnlyByRace
=============================================================================
