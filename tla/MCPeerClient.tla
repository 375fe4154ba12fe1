---------------------------- MODULE MCPeerClient ----------------------------
(***************************************************************************)
(* Small overlays for TLC: their peers, connections, files and commands.   *)
(***************************************************************************)
EXTENDS PeerClientInvariants, TLC

Both(edges) == [p \in Peers |-> {q \in Peers : {p, q} \in edges}]
On(p, set) == [q \in Peers |-> IF q = p THEN set ELSE {}]
Typed(type, file) == [type |-> type, file |-> file]

\* top_test.config: peer 0 in the middle of 1 and 2.
Star == {0, 1, 2}
StarNeighbors == Both({{0, 1}, {0, 2}})

\* Two cells of top_mesh_2d.config, which has longer and shorter ways between any
\* two of its corners.
Mesh == 0 .. 5
MeshNeighbors == Both({{0, 1}, {1, 2}, {3, 4}, {4, 5}, {0, 3}, {1, 4}, {2, 5}})

\* Both leaves share a file. One of them obtains it, the other one may start a load
\* test in which the hub does.
StarFiles == [p \in Peers |-> IF p = 0 THEN {} ELSE {"f"}]
StarCommands ==
  (1 :> {Typed("obtain", "f")}) @@ (2 :> {Typed("test_obtain2", "f")})
  @@ (0 :> {})

\* Short load tests: a query or an obtain of the one file.
OneCall == [type \in TestTypes |-> [file \in Files |-> <<file>>]]
\* No user of the run starts one.
NoTests == [type \in TestTypes |-> [file \in Files |-> <<>>]]

\* A file that a corner asks for or obtains from the next one, two hops away or, where
\* the copies race, four.
MeshFiles == On(2, {"f"})
MeshCommands ==
  On(0, {Typed(type, "f") : type \in {"obtain", "query", "test_query", "test_query2"}})

\* A query and inverse queries with up to two responders each. Both leaves share one file,
\* which their replicate threads replicate, one of them on command once more. That one
\* replicates another file, which the hub and the other leaf lack, while the other leaf
\* obtains it through the hub, and the hub asks who lacks it.
LookupFiles == (0 :> {}) @@ (1 :> {"f", "g"}) @@ (2 :> {"f"})
LookupCommands ==
  (0 :> {Typed("inv_query", "g")}) @@ (1 :> {Typed("replicate", "f")})
  @@ (2 :> {Typed("obtain", "g")})

\* BOUND: two queries in a behaviour, a query and an inverse query or two inverse queries
\* for the same file.
Interfering(a, b) == a.type # b.type \/ (a.type = "inv_query" /\ a.file = b.file)
TwoQueries ==
  Cardinality(asked) <= 2 /\ \A a, b \in asked : a = b \/ Interfering(a, b)

\* Downloads through peer 0 while MantainQueryMapSize empties the caches.
EvictionFiles == On(2, {"f"})
EvictionCommands == On(1, {Typed("obtain", "f"), Typed("test_query2", "f")})

\* The hub downloads a file that both leaves share, and replicates one of its own.
AgainFiles == [p \in Peers |-> IF p = 0 THEN {"g"} ELSE {"f"}]
AgainCommands == On(0, {Typed("obtain", "f"), Typed("replicate", "g")})

\* The hub has a file that both leaves lack.
HubFiles == On(0, {"f"})
NoCommands == [p \in Peers |-> {}]
=============================================================================
