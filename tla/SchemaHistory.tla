--------------------------- MODULE SchemaHistory ----------------------------
(***************************************************************************)
(* What those who start servers count on, however many migrate at once and *)
(* whatever fails: the schema only grows, by one migration at a time, whose *)
(* statements take effect when it is recorded and never again; it belongs  *)
(* to a build all of whose earlier files are in the schema as the build    *)
(* has them; and a server serves only a schema that agrees with its build. *)
(***************************************************************************)
EXTENDS Naturals

CONSTANTS Servers, Versions, None, Builds

VARIABLES rows,       \* the migrations in the schema: version -> body or None
          effects,    \* how often the statements of each took effect
          serving     \* the servers at work, each with its build

Init ==
    /\ rows = [v \in Versions |-> None]
    /\ effects = [v \in Versions |-> 0]
    /\ serving = {}

Files(build) == {v \in Versions : build[v] # None}

Agrees(build, versions) == \A v \in versions : rows[v] = build[v]

Grow(build, v) ==
    /\ v \in Files(build) /\ rows[v] = None
    /\ Agrees(build, {u \in Files(build) : u < v})
    /\ rows' = [rows EXCEPT ![v] = build[v]]
    /\ effects' = [effects EXCEPT ![v] = @ + 1]
    /\ UNCHANGED serving

Serve(s, build) ==
    /\ Agrees(build, Files(build))
    /\ serving' = serving \cup {[server |-> s, build |-> build]}
    /\ UNCHANGED <<rows, effects>>

Stop(s) ==
    /\ serving' = {x \in serving : x.server # s}
    /\ UNCHANGED <<rows, effects>>

Next ==
    \/ \E build \in Builds, v \in Versions : Grow(build, v)
    \/ \E s \in Servers : Stop(s) \/ \E build \in Builds : Serve(s, build)

Spec == Init /\ [][Next]_<<rows, effects, serving>>

(* What follows for a deploy: no migration takes effect twice, nor without being
   recorded, and a build that is served is in the schema, as it was when its
   server started, whichever other builds have come since. *)
Promise ==
    /\ \A v \in Versions : effects[v] = IF rows[v] = None THEN 0 ELSE 1
    /\ \A x \in serving : Agrees(x.build, Files(x.build))
=============================================================================
