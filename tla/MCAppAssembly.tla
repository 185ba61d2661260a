----------------------------- MODULE MCAppAssembly -----------------------------
(***************************************************************************)
(* AppAssembly for TLC: the core module and what a client may splice in.   *)
(***************************************************************************)
EXTENDS AppAssembly

Spec0 == [name |-> "none", entries |-> <<>>, provides |-> <<>>, populates |-> {},
          routes |-> <<>>, middleware |-> <<>>, drains |-> FALSE]
Route(keys, overrides) == [keys |-> keys, overrides |-> overrides]
Layer(cls, n, requires) == [cls |-> cls, layer |-> n, requires |-> requires]

Core == [Spec0 EXCEPT !.name = "core", !.entries = <<"services">>, !.provides = <<"draining">>,
                      !.populates = {"draining"}, !.drains = TRUE,
                      !.routes = <<Route({"teams", "ready"}, {}), Route({"catalog"}, {})>>,
                      !.middleware = <<Layer("cors", 100, {}), Layer("auth", 600, {"services"})>>]
\* A client's module: its own route and slot, and a middleware that needs it.
Added == [Spec0 EXCEPT !.name = "added", !.provides = <<"limits">>, !.populates = {"limits"},
                       !.routes = <<Route({"acme"}, {})>>,
                       !.middleware = <<Layer("limit", 100, {"limits"})>>]
\* One that needs a slot it declares and does not populate.
Unwired == [Added EXCEPT !.name = "unwired", !.populates = {}]
\* One that takes a route of the core's over and says so; one that does not say.
Override == [Spec0 EXCEPT !.name = "override", !.routes = <<Route({"teams"}, {"teams"})>>,
                          !.middleware = <<Layer("quota", 700, {"limits"})>>]
Thief == [Spec0 EXCEPT !.name = "thief", !.routes = <<Route({"ready"}, {})>>]
\* One with a second middleware of a class of the core's, inside all others.
Again == [Spec0 EXCEPT !.name = "again", !.middleware = <<Layer("cors", 700, {})>>]
\* One that claims a slot of the core's.
Twin == [Spec0 EXCEPT !.name = "twin", !.entries = <<"draining">>]

MCModules == {Core, Added, Unwired, Override, Thief, Again, Twin}
MCCompositions == UNION {[1 .. n -> MCModules] : n \in 1 .. 3}
MCStock == <<Core>>
MCAllFails == <<TRUE, FALSE>>
===============================================================================
