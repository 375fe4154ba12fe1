----------------------------- MODULE FileLookup -----------------------------
(***************************************************************************)
(* What the overlay promises the user of a peer, without its messages: a   *)
(* query is asked once, and every peer that can answer it answers once at  *)
(* most, in any order; no answer is ever taken back or changed. A query    *)
(* starts transfers once, from or to the first of those who answered. When *)
(* a query is forgotten by some peer of the overlay, peers may answer      *)
(* again, and its answers may be dropped, but no answer gets wrong.        *)
(***************************************************************************)
EXTENDS Naturals, Sequences

CONSTANTS
  Peers,    \* the peers
  Ids,      \* the names of queries; id.peer is the peer that asks
  Files,    \* the files
  Shares,   \* the files each peer shares
  Replicas  \* the most peers a file is pushed to on one inverse query

VARIABLES
  asked,     \* the queries asked so far
  answers,   \* answers[id]: who has answered, in order of arrival
  transfers, \* transfers[p]: what p has asked its file client to do, in order
  forgotten  \* ids that some peer has forgotten

vars == <<asked, answers, transfers, forgotten>>

Types == {"query", "inv_query"}

Init ==
  /\ asked = {}
  /\ answers = [id \in Ids |-> <<>>]
  /\ transfers = [p \in Peers |-> <<>>]
  /\ forgotten = {}

Ask(id, type, file) ==
  /\ \A query \in asked : query.id # id
  /\ asked' = asked \cup {[id |-> id, type |-> type, file |-> file]}
  /\ UNCHANGED <<answers, transfers, forgotten>>

\* A query is answered by peers that share the file, an inverse query by the others.
Answer(query, p) ==
  /\ IF query.type = "query" THEN query.file \in Shares[p] ELSE query.file \notin Shares[p]
  /\ query.id \in forgotten \/ \A i \in DOMAIN answers[query.id] : answers[query.id][i] # p
  /\ answers' = [answers EXCEPT ![query.id] = Append(@, p)]
  /\ UNCHANGED <<asked, transfers, forgotten>>

\* A download from the first peer that answered, or pushes to the first ones.
Transfer(query, n) ==
  LET p == query.id.peer IN
  /\ \A i \in DOMAIN transfers[p] : transfers[p][i].id # query.id
  /\ n \in 1 .. (IF query.type = "query" THEN 1 ELSE Replicas)
  /\ transfers' = [transfers EXCEPT ![p] = @ \o
       [i \in 1 .. n |-> [type |-> IF query.type = "query" THEN "download" ELSE "push",
                          file |-> query.file, server |-> answers[query.id][i],
                          id |-> query.id]]]
  /\ UNCHANGED <<asked, answers, forgotten>>

Forget(ids) ==
  /\ forgotten' = forgotten \cup ids
  /\ UNCHANGED <<asked, answers, transfers>>

DropAnswers(ids) ==
  /\ ids \subseteq forgotten
  /\ answers' = [id \in Ids |-> IF id \in ids THEN <<>> ELSE answers[id]]
  /\ UNCHANGED <<asked, transfers, forgotten>>

Next ==
  \/ \E id \in Ids, type \in Types, file \in Files : Ask(id, type, file)
  \/ \E query \in asked, p \in Peers : Answer(query, p)
  \/ \E query \in asked : \E n \in DOMAIN answers[query.id] : Transfer(query, n)
  \/ \E ids \in SUBSET Ids : Forget(ids) \/ DropAnswers(ids)

Spec == Init /\ [][Next]_vars
=============================================================================
