--------------------------- MODULE MCRoutingConfig ---------------------------
(* Bounded instances of RoutingConfig for TLC. *)
EXTENDS RoutingConfig

Routes == 1..2

\* A global route for every client, and one of the project for a client.
RouteRows ==
  {[NoRoute EXCEPT !.status = "active", !.models = Model, !.group = g,
                   !.clients = IF p THEN {"cli"} ELSE {}, !.project = p,
                   !.priority = IF p THEN 1 ELSE 0] :
     g \in Group, p \in BOOLEAN}
============================================================================
