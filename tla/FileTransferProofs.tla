-------------------------- MODULE FileTransferProofs --------------------------
(***************************************************************************)
(* Proofs about the transfer of files, for every set of peers, files,      *)
(* requests and threads and every limit of module FileTransfer: that the   *)
(* counter of connections is exact and bounded (CountExact), and that a    *)
(* descriptor has one user (DescriptorsOwned).                             *)
(***************************************************************************)
EXTENDS FileTransferInvariants, FiniteSetTheorems, SequenceTheorems, WellFoundedInduction, TLAPS

-----------------------------------------------------------------------------
(* Numbers.                                                                *)

\* A set of numbers has a lowest one.
LEMMA LowestIs ==
  ASSUME NEW S \in SUBSET Nat, S # {}
  PROVE  Lowest(S) \in S
<1>1. PICK R : R = OpToRel(<, Nat)
  OBVIOUS
<1>2. IsWellFoundedOn(R, Nat)
  BY <1>1, NatLessThanWellFounded
<1>3. PICK n \in S : \A m \in S : ~(<<m, n>> \in R)
  BY <1>2, WFMin
<1>4. \A m \in S : n <= m
  <2> TAKE m \in S
  <2>1. <<m, n>> \in Nat \X Nat /\ ~(<<m, n>> \in R)
    BY <1>3
  <2>2. ~(m < n)
    BY <1>1, <2>1 DEF OpToRel
  <2> QED  BY <2>2
<1> QED  BY <1>4 DEF Lowest

-----------------------------------------------------------------------------
(* Descriptors and connections.                                            *)

NetType ==
  /\ fds \in [Peers -> [FdNums -> End \cup {Free}]]
  /\ conns \in [ConnIds -> Connection \cup {Unused}]
  /\ backlog \in [Peers -> Seq(ConnIds)]

LEMMA ConnIdsAre == 0 \notin ConnIds /\ 0 \notin FdNums /\ ConnIds \subseteq Nat /\ FdNums \subseteq Nat
BY NumbersAssumption

\* The other side.
LEMMA OtherIs ==
  ASSUME NEW side \in Sides
  PROVE  Other(side) \in Sides /\ Other(side) # side /\ Sides = {side, Other(side)}
BY DEF Sides, Other

\* A connection has its fields.
LEMMA FieldsOf ==
  ASSUME NEW conn \in Connection, NEW side \in Sides
  PROVE  /\ conn.from \in Peers /\ conn.req \in Requests
         /\ conn.in \in [Sides -> Seq(Items)] /\ conn.open \in [Sides -> BOOLEAN]
         /\ conn.shut \in [Sides -> BOOLEAN] /\ conn.reset \in BOOLEAN /\ conn.hurt \in BOOLEAN
         /\ conn.in[side] \in Seq(Items) /\ conn.open[side] \in BOOLEAN
         /\ conn.shut[side] \in BOOLEAN
         /\ conn.req.server \in Peers /\ conn.req.file \in Files
         /\ conn.req.type \in {"download", "push"}
BY DEF Connection, Requests

LEMMA UnusedIs ==
  /\ \A side \in Sides : ~Unused.open[side] /\ Unused.shut[side]
  /\ Unused.from = 0 /\ Unused.req = NoRequest
BY DEF Unused, Established, Both

\* A connection that is still the same two processes' with the same open ends.
SameEnds(conn, old) ==
  /\ conn \in Connection
  /\ conn.from = old.from /\ conn.req = old.req /\ conn.open = old.open

\* close() of one side leaves the other one as it is.
LEMMA ClosedIs ==
  ASSUME NEW conn \in Connection, NEW side \in Sides
  PROVE  /\ ~conn.open[Other(side)] => Closed(conn, side) = Unused
         /\ conn.open[Other(side)] =>
              /\ Closed(conn, side) \in Connection
              /\ Closed(conn, side).from = conn.from
              /\ Closed(conn, side).req = conn.req
              /\ Closed(conn, side).open = [conn.open EXCEPT ![side] = FALSE]
<1>1. ASSUME conn.open[Other(side)]
      PROVE  /\ Closed(conn, side) \in Connection
             /\ Closed(conn, side).from = conn.from
             /\ Closed(conn, side).req = conn.req
             /\ Closed(conn, side).open = [conn.open EXCEPT ![side] = FALSE]
  <2>1. Closed(conn, side) =
          [from |-> conn.from, req |-> conn.req, in |-> [conn.in EXCEPT ![side] = <<>>],
           open |-> [conn.open EXCEPT ![side] = FALSE], shut |-> [conn.shut EXCEPT ![side] = TRUE],
           reset |-> conn.reset \/ conn.in[side] # <<>>, hurt |-> conn.hurt]
    BY <1>1 DEF Closed, Connection
  <2>2. /\ [conn.in EXCEPT ![side] = <<>>] \in [Sides -> Seq(Items)]
        /\ [conn.open EXCEPT ![side] = FALSE] \in [Sides -> BOOLEAN]
        /\ [conn.shut EXCEPT ![side] = TRUE] \in [Sides -> BOOLEAN]
    BY FieldsOf
  <2>3. conn.from \in Peers /\ conn.req \in Requests /\ conn.hurt \in BOOLEAN
    BY FieldsOf
  <2> QED  BY <2>1, <2>2, <2>3 DEF Connection
<1> QED  BY <1>1 DEF Closed

\* A connected descriptor stands for an end of a connection in use.
LEMMA ConnIs ==
  ASSUME NetType, ConnsInv, NEW p \in Peers, NEW fd \in FdNums, Connected(p, fd)
  PROVE  /\ fds[p][fd] \in End /\ fds[p][fd].conn \in ConnIds /\ Side(p, fd) \in Sides
         /\ fds[p][fd] = [conn |-> fds[p][fd].conn, side |-> Side(p, fd)]
         /\ Conn(p, fd) \in Connection /\ Conn(p, fd) # Unused
         /\ Conn(p, fd).open[Side(p, fd)]
         /\ Owner(Conn(p, fd), Side(p, fd)) = p
         /\ Conn(p, fd).from # Conn(p, fd).req.server
<1>1. fds[p][fd] \in End
  <2>1. fds[p][fd] \in End \cup {Free}
    BY DEF NetType
  <2> QED  BY <2>1, ConnIdsAre DEF Connected, Free
<1>2. Conn(p, fd).open[Side(p, fd)] /\ Owner(Conn(p, fd), Side(p, fd)) = p
  BY DEF ConnsInv, FdsOpen
<1>3. Side(p, fd) \in Sides /\ fds[p][fd] = [conn |-> fds[p][fd].conn, side |-> Side(p, fd)]
  BY <1>1 DEF End, Side
<1>4. Conn(p, fd) \in Connection /\ Conn(p, fd) # Unused
  BY <1>2, <1>3, UnusedIs DEF NetType, Connected, Conn
<1>5. Conn(p, fd).from # Conn(p, fd).req.server
  BY <1>4 DEF ConnsInv, NoSelf, Connected, Conn
<1> QED  BY <1>1, <1>2, <1>3, <1>4, <1>5 DEF Connected

\* A step that closes descriptors at most: what stays open stays what it was.
Kept(c, side) == conns[c].open[side] =>
  /\ conns'[c].from = conns[c].from
  /\ conns'[c].req = conns[c].req
  /\ conns'[c].open[side]
LessHeld ==
  /\ fds' \in [Peers -> [FdNums -> End \cup {Free}]]
  /\ conns' \in [ConnIds -> Connection \cup {Unused}]
  /\ backlog' \in [Peers -> Seq(ConnIds)]
  /\ \A c \in ConnIds : \/ conns'[c] = Unused
                        \/ /\ conns[c] # Unused
                           /\ conns'[c].from = conns[c].from
                           /\ conns'[c].req = conns[c].req
  /\ \A p \in Peers, fd \in FdNums :
       \/ fds'[p][fd] = Free
       \/ /\ fds'[p][fd] = fds[p][fd]
          /\ Connected(p, fd) => Kept(fds[p][fd].conn, Side(p, fd))
  /\ \A p \in Peers : backlog'[p] = backlog[p] \/ backlog'[p] = <<>>
  /\ \A p \in Peers : \A c \in Range(backlog'[p]) : Kept(c, "server")

\* The connections waiting for accept() are connections.
LEMMA BacklogIs ==
  ASSUME NetType, ConnsInv, NEW p \in Peers, NEW c \in Range(backlog[p])
  PROVE  /\ c \in ConnIds /\ conns[c] \in Connection /\ conns[c].open["server"]
         /\ conns[c].req.server = p /\ conns[c].from # p
         /\ \A fd \in FdNums : fds[p][fd] # [conn |-> c, side |-> "server"]
<1>1. c \in ConnIds
  BY DEF NetType, Range
<1>2. conns[c].open["server"] /\ conns[c].req.server = p
      /\ \A fd \in FdNums : fds[p][fd] # [conn |-> c, side |-> "server"]
  BY DEF ConnsInv, BacklogOpen
<1>3. "server" \in Sides
  BY DEF Sides
<1>4. conns[c] # Unused
  BY <1>2, <1>3, UnusedIs
<1> QED  BY <1>1, <1>2, <1>4 DEF NetType, ConnsInv, NoSelf

LEMMA LessHeldKeeps ==
  ASSUME NetType, ConnsInv, LessHeld
  PROVE  NetType' /\ ConnsInv'
<1>1. NetType'
  BY DEF NetType, LessHeld
<1>2. NoSelf'
  BY DEF ConnsInv, NoSelf, LessHeld
<1>3. FdsOpen'
  <2> SUFFICES ASSUME NEW p \in Peers, NEW fd \in FdNums, fds'[p][fd].conn \in ConnIds
               PROVE  LET end == fds'[p][fd] IN
                      /\ conns'[end.conn].open[end.side]
                      /\ Owner(conns'[end.conn], end.side) = p
                      /\ \A other \in FdNums : end = fds'[p][other] => fd = other
    BY DEF FdsOpen, Connected, Conn, Side
  <2>1. fds'[p][fd] # Free
    BY ConnIdsAre DEF Free
  <2>2. fds'[p][fd] = fds[p][fd] /\ Connected(p, fd) /\ Kept(fds[p][fd].conn, Side(p, fd))
    BY <2>1 DEF LessHeld, Connected
  <2>3. ASSUME NEW other \in FdNums, fds'[p][fd] = fds'[p][other]
        PROVE  fd = other
    <3>1. fds'[p][other] = fds[p][other]
      BY <2>1, <2>3 DEF LessHeld
    <3> QED  BY <2>2, <2>3, <3>1 DEF ConnsInv, FdsOpen
  <2> QED  BY <2>2, <2>3 DEF Kept, ConnsInv, FdsOpen, Conn, Side, Owner
<1>4. BacklogOpen'
  <2> SUFFICES ASSUME NEW p \in Peers
               PROVE  /\ IsInjective(backlog'[p])
                      /\ \A c \in Range(backlog'[p]) :
                           /\ conns'[c].open["server"]
                           /\ conns'[c].req.server = p
                           /\ \A fd \in FdNums : fds'[p][fd] # [conn |-> c, side |-> "server"]
    BY DEF BacklogOpen
  <2>1. CASE backlog'[p] = <<>>
    BY <2>1 DEF Range, IsInjective
  <2>2. CASE backlog'[p] = backlog[p]
    <3>1. IsInjective(backlog'[p])
      BY <2>2 DEF ConnsInv, BacklogOpen
    <3>2. ASSUME NEW c \in Range(backlog'[p])
          PROVE  /\ conns'[c].open["server"] /\ conns'[c].req.server = p
                 /\ \A fd \in FdNums : fds'[p][fd] # [conn |-> c, side |-> "server"]
      <4>1. Kept(c, "server")
        BY DEF LessHeld
      <4>2. /\ c \in ConnIds /\ conns[c].open["server"] /\ conns[c].req.server = p
            /\ \A fd \in FdNums : fds[p][fd] # [conn |-> c, side |-> "server"]
        BY <2>2, <3>2, BacklogIs
      <4>3. \A fd \in FdNums : fds'[p][fd] # [conn |-> c, side |-> "server"]
        <5> TAKE fd \in FdNums
        <5>1. Free # [conn |-> c, side |-> "server"]
          BY <4>2, ConnIdsAre DEF Free
        <5> QED  BY <4>2, <5>1 DEF LessHeld
      <4> QED  BY <4>1, <4>2, <4>3 DEF Kept
    <3> QED  BY <3>1, <3>2
  <2> QED  BY <2>1, <2>2 DEF LessHeld
<1> QED  BY <1>1, <1>2, <1>3, <1>4 DEF ConnsInv

\* What is sent, received or shut down leaves the ends open.
LEMMA TouchedLess ==
  ASSUME NetType, ConnsInv, NEW p \in Peers, NEW fd \in FdNums, Connected(p, fd),
         NEW conn, SameEnds(conn, Conn(p, fd)), Changes(p, fd, conn), UNCHANGED <<fds, backlog>>
  PROVE  LessHeld
<1>1. Conn(p, fd) # Unused /\ fds[p][fd].conn \in ConnIds
  BY ConnIs
<1>2. conns' = [conns EXCEPT ![fds[p][fd].conn] = conn]
  BY DEF Changes
<1>3. conns' \in [ConnIds -> Connection \cup {Unused}]
  BY <1>2 DEF NetType, SameEnds
<1>4. \A c \in ConnIds : \/ conns'[c] = conns[c]
                         \/ c = fds[p][fd].conn /\ SameEnds(conns'[c], conns[c])
  BY <1>1, <1>2 DEF NetType, Conn
<1>5. \A c \in ConnIds, side \in Sides : Kept(c, side)
  BY <1>4 DEF Kept, SameEnds
<1>6. \A c \in ConnIds : \/ conns'[c] = Unused
                         \/ /\ conns[c] # Unused
                            /\ conns'[c].from = conns[c].from
                            /\ conns'[c].req = conns[c].req
  BY <1>1, <1>4 DEF SameEnds, Conn
<1>7. \A q \in Peers, g \in FdNums : Connected(q, g) => Kept(fds[q][g].conn, Side(q, g))
  BY <1>5, ConnIs DEF Connected
<1>8. \A q \in Peers : \A c \in Range(backlog'[q]) : Kept(c, "server")
  BY <1>5, BacklogIs DEF Sides
<1> QED  BY <1>3, <1>6, <1>7, <1>8 DEF LessHeld, NetType

\* No two descriptors stand for the same end, and none for one that waits.
LEMMA OneHolder ==
  ASSUME NetType, ConnsInv, NEW p \in Peers, NEW fd \in FdNums, Connected(p, fd)
  PROVE  /\ \A q \in Peers, g \in FdNums :
              fds[q][g].conn = fds[p][fd].conn /\ Side(q, g) = Side(p, fd) => q = p /\ g = fd
         /\ \A q \in Peers : \A c \in Range(backlog[q]) :
              c = fds[p][fd].conn => Side(p, fd) = "client"
<1>1. ASSUME NEW q \in Peers, NEW g \in FdNums,
             fds[q][g].conn = fds[p][fd].conn, Side(q, g) = Side(p, fd)
      PROVE  q = p /\ g = fd
  <2>1. Connected(q, g)
    BY <1>1, ConnIs DEF Connected
  <2>2. q = p
    <3>1. Owner(Conn(p, fd), Side(p, fd)) = p
      BY ConnIs
    <3>2. Owner(Conn(q, g), Side(q, g)) = q
      BY <2>1, ConnIs
    <3> QED  BY <1>1, <3>1, <3>2 DEF Conn
  <2>3. fds[q][g] = fds[p][fd]
    <3>1. fds[p][fd] = [conn |-> fds[p][fd].conn, side |-> Side(p, fd)]
      BY ConnIs
    <3>2. fds[q][g] = [conn |-> fds[q][g].conn, side |-> Side(q, g)]
      BY <2>1, ConnIs
    <3> QED  BY <1>1, <3>1, <3>2
  <2> QED  BY <2>2, <2>3 DEF ConnsInv, FdsOpen
<1>2. ASSUME NEW q \in Peers, NEW c \in Range(backlog[q]), c = fds[p][fd].conn,
             Side(p, fd) # "client"
      PROVE  FALSE
  <2>1. Side(p, fd) = "server"
    BY <1>2, ConnIs DEF Sides
  <2>2. q = p
    <3>1. conns[c].req.server = q
      BY BacklogIs
    <3>2. Owner(Conn(p, fd), Side(p, fd)) = p
      BY ConnIs
    <3> QED  BY <1>2, <2>1, <3>1, <3>2 DEF Conn, Owner
  <2>3. fds[p][fd] = [conn |-> c, side |-> "server"]
    <3>1. fds[p][fd] = [conn |-> fds[p][fd].conn, side |-> Side(p, fd)]
      BY ConnIs
    <3> QED  BY <1>2, <2>1, <3>1
  <2>4. \A g \in FdNums : fds[q][g] # [conn |-> c, side |-> "server"]
    BY BacklogIs
  <2> QED  BY <2>2, <2>3, <2>4
<1> QED  BY <1>1, <1>2

\* close().
LEMMA CloseLess ==
  ASSUME NetType, ConnsInv, NEW p \in Peers, NEW fd \in FdNums, NEW h \in BOOLEAN,
         CloseConn(p, fd, h), UNCHANGED backlog
  PROVE  LessHeld
<1>1. fds' = [fds EXCEPT ![p][fd] = Free]
  BY DEF CloseConn
<1>2. /\ fds' \in [Peers -> [FdNums -> End \cup {Free}]]
      /\ \A q \in Peers, g \in FdNums : fds'[q][g] = IF q = p /\ g = fd THEN Free ELSE fds[q][g]
  BY <1>1 DEF NetType
<1>3. CASE ~Connected(p, fd)
  <2>1. conns' = conns
    BY <1>3 DEF CloseConn
  <2>2. \A q \in Peers : \A c \in Range(backlog'[q]) : Kept(c, "server")
    BY <2>1 DEF Kept
  <2> QED  BY <1>2, <2>1, <2>2 DEF LessHeld, NetType, Kept
<1>4. CASE Connected(p, fd)
  <2>1. PICK c \in ConnIds, side \in Sides, conn \in Connection :
          /\ c = fds[p][fd].conn /\ side = Side(p, fd) /\ conn = Conn(p, fd)
          /\ conn = conns[c] /\ conn # Unused
    <3>1. /\ fds[p][fd].conn \in ConnIds /\ Side(p, fd) \in Sides
          /\ Conn(p, fd) \in Connection /\ Conn(p, fd) # Unused
      BY <1>4, ConnIs
    <3>2. Conn(p, fd) = conns[fds[p][fd].conn]
      BY DEF Conn
    <3> QED  BY <3>1, <3>2
  <2>2. PICK mid \in Connection :
          /\ mid = [conn EXCEPT !.hurt = conn.hurt \/ h]
          /\ mid.from = conn.from /\ mid.req = conn.req /\ mid.open = conn.open
    <3>1. conn.hurt \/ h \in BOOLEAN
      OBVIOUS
    <3>2. [conn EXCEPT !.hurt = conn.hurt \/ h] \in Connection
      BY DEF Connection
    <3>3. /\ [conn EXCEPT !.hurt = conn.hurt \/ h].from = conn.from
          /\ [conn EXCEPT !.hurt = conn.hurt \/ h].req = conn.req
          /\ [conn EXCEPT !.hurt = conn.hurt \/ h].open = conn.open
      BY DEF Connection
    <3> QED  BY <3>2, <3>3
  <2>3. conns' = [conns EXCEPT ![c] = Closed(mid, side)]
    BY <1>4, <2>1, <2>2 DEF CloseConn, Changes
  <2>4. PICK left : left = Closed(mid, side)
    OBVIOUS
  <2>5. \/ left = Unused /\ ~mid.open[Other(side)]
        \/ /\ left \in Connection /\ left.from = conn.from /\ left.req = conn.req
           /\ left.open = [conn.open EXCEPT ![side] = FALSE]
    <3>1. CASE ~mid.open[Other(side)]
      BY <2>2, <2>4, <3>1, ClosedIs
    <3>2. CASE mid.open[Other(side)]
      <4>1. /\ Closed(mid, side) \in Connection
            /\ Closed(mid, side).from = mid.from
            /\ Closed(mid, side).req = mid.req
            /\ Closed(mid, side).open = [mid.open EXCEPT ![side] = FALSE]
        BY <3>2, ClosedIs
      <4> QED  BY <2>2, <2>4, <4>1
    <3> QED  BY <3>1, <3>2
  <2>6. conns' \in [ConnIds -> Connection \cup {Unused}]
        /\ \A d \in ConnIds : conns'[d] = IF d = c THEN left ELSE conns[d]
    BY <2>3, <2>4, <2>5 DEF NetType
  <2>7. Kept(c, Other(side))
    <3>1. Other(side) \in Sides /\ Other(side) # side
      BY OtherIs
    <3>2. CASE left = Unused /\ ~mid.open[Other(side)]
      BY <2>1, <2>2, <3>2 DEF Kept
    <3>3. CASE left \in Connection /\ left.from = conn.from /\ left.req = conn.req
               /\ left.open = [conn.open EXCEPT ![side] = FALSE]
      BY <2>1, <2>6, <3>1, <3>3, FieldsOf DEF Kept
    <3> QED  BY <2>5, <3>2, <3>3
  <2>8. \A d \in ConnIds : d # c => conns'[d] = conns[d]
    BY <2>6
  <2>9. \A d \in ConnIds : \/ conns'[d] = Unused
                          \/ /\ conns[d] # Unused
                             /\ conns'[d].from = conns[d].from
                             /\ conns'[d].req = conns[d].req
    BY <2>1, <2>5, <2>6, <2>8
  <2>10. ASSUME NEW q \in Peers, NEW g \in FdNums, fds'[q][g] # Free, Connected(q, g)
         PROVE  Kept(fds[q][g].conn, Side(q, g))
    <3>1. fds[q][g].conn \in ConnIds /\ Side(q, g) \in Sides
      BY <2>10, ConnIs
    <3>2. CASE fds[q][g].conn # c
      BY <2>8, <3>1, <3>2 DEF Kept
    <3>3. CASE fds[q][g].conn = c
      <4>1. ~(q = p /\ g = fd)
        BY <1>2, <2>10
      <4>2. Side(q, g) # side
        BY <1>4, <2>1, <3>3, <4>1, OneHolder
      <4>3. Side(q, g) = Other(side)
        BY <3>1, <4>2, OtherIs
      <4> QED  BY <2>7, <3>3, <4>3
    <3> QED  BY <3>2, <3>3
  <2>11. ASSUME NEW q \in Peers, NEW d \in Range(backlog[q])
         PROVE  Kept(d, "server")
    <3>1. d \in ConnIds
      BY BacklogIs
    <3>2. CASE d # c
      BY <2>8, <3>1, <3>2 DEF Kept
    <3>3. CASE d = c
      <4>1. side = "client"
        BY <1>4, <2>1, <3>3, OneHolder
      <4> QED  BY <2>7, <3>3, <4>1 DEF Other
    <3> QED  BY <3>2, <3>3
  <2> QED  BY <1>2, <2>6, <2>9, <2>10, <2>11 DEF LessHeld, NetType
<1> QED  BY <1>3, <1>4

\* The end of a process.
LEMMA EndsLess ==
  ASSUME NetType, ConnsInv, NEW p \in Peers, Ends(p)
  PROVE  LessHeld
<1>1. /\ fds' = [fds EXCEPT ![p] = [n \in FdNums |-> Free]]
      /\ conns' = WithoutPeer(p)
      /\ backlog' = [backlog EXCEPT ![p] = <<>>]
  BY DEF Ends
<1>2. /\ fds' \in [Peers -> [FdNums -> End \cup {Free}]]
      /\ backlog' \in [Peers -> Seq(ConnIds)]
      /\ \A g \in FdNums : fds'[p][g] = Free
      /\ \A q \in Peers : q # p => fds'[q] = fds[q] /\ backlog'[q] = backlog[q]
      /\ backlog'[p] = <<>>
  BY <1>1 DEF NetType
<1>3. ASSUME NEW c \in ConnIds
      PROVE  \/ conns'[c] = conns[c]
             \/ /\ conns[c] \in Connection /\ conns[c] # Unused
                /\ conns'[c] \in Connection \cup {Unused}
                /\ \/ conns'[c] = Unused
                   \/ conns'[c].from = conns[c].from /\ conns'[c].req = conns[c].req
                /\ \A side \in Sides : Owner(conns[c], side) # p => Kept(c, side)
  <2>1. PICK side \in Sides : side = IF conns[c].from = p THEN "client" ELSE "server"
    BY DEF Sides
  <2>2. CASE ~(p \in {conns[c].from, conns[c].req.server} /\ conns[c].open[side])
    BY <1>1, <2>1, <2>2 DEF WithoutPeer
  <2>3. CASE p \in {conns[c].from, conns[c].req.server} /\ conns[c].open[side]
    <3>1. PICK conn \in Connection : conn = conns[c] /\ conn # Unused
      BY <2>3, UnusedIs DEF NetType
    <3>2. PICK mid \in Connection :
            /\ mid = [conn EXCEPT !.hurt = TRUE, !.reset = conn.reset \/ c \in Range(backlog[p])]
            /\ mid.from = conn.from /\ mid.req = conn.req /\ mid.open = conn.open
      <4>1. [conn EXCEPT !.hurt = TRUE, !.reset = conn.reset \/ c \in Range(backlog[p])] \in Connection
        BY DEF Connection
      <4>2. PICK mid : mid = [conn EXCEPT !.hurt = TRUE, !.reset = conn.reset \/ c \in Range(backlog[p])]
        OBVIOUS
      <4>3. mid.from = conn.from /\ mid.req = conn.req /\ mid.open = conn.open
        BY <4>2 DEF Connection
      <4> QED  BY <4>1, <4>2, <4>3
    <3>3. conns'[c] = Closed(mid, side)
      BY <1>1, <2>1, <2>3, <3>1, <3>2 DEF WithoutPeer
    <3>4. \/ conns'[c] = Unused /\ ~mid.open[Other(side)]
          \/ /\ conns'[c] \in Connection /\ conns'[c].from = conn.from /\ conns'[c].req = conn.req
             /\ conns'[c].open = [conn.open EXCEPT ![side] = FALSE]
      <4>1. CASE ~mid.open[Other(side)]
        BY <3>3, <4>1, ClosedIs
      <4>2. CASE mid.open[Other(side)]
        <5>1. /\ Closed(mid, side) \in Connection
              /\ Closed(mid, side).from = mid.from
              /\ Closed(mid, side).req = mid.req
              /\ Closed(mid, side).open = [mid.open EXCEPT ![side] = FALSE]
          BY <4>2, ClosedIs
        <5> QED  BY <3>2, <3>3, <5>1
      <4> QED  BY <4>1, <4>2
    <3>5. ASSUME NEW s \in Sides, Owner(conns[c], s) # p  PROVE Kept(c, s)
      <4>1. conn.from # conn.req.server
        BY <3>1 DEF ConnsInv, NoSelf
      <4>2. s = Other(side) /\ s # side
        <5>1. CASE side = "client"
          BY <2>1, <3>1, <3>5, <5>1 DEF Owner, Other, Sides
        <5>2. CASE side = "server"
          BY <2>1, <2>3, <3>1, <3>5, <5>2 DEF Owner, Other, Sides
        <5> QED  BY <5>1, <5>2 DEF Sides
      <4>3. CASE conns'[c] = Unused /\ ~mid.open[Other(side)]
        BY <3>1, <3>2, <4>2, <4>3 DEF Kept
      <4>4. CASE /\ conns'[c] \in Connection /\ conns'[c].from = conn.from /\ conns'[c].req = conn.req
                 /\ conns'[c].open = [conn.open EXCEPT ![side] = FALSE]
        BY <3>1, <4>2, <4>4, FieldsOf DEF Kept
      <4> QED  BY <3>4, <4>3, <4>4
    <3> QED  BY <3>1, <3>4, <3>5
  <2> QED  BY <2>2, <2>3
<1>4. conns' \in [ConnIds -> Connection \cup {Unused}]
  <2>1. \A c \in ConnIds : conns'[c] \in Connection \cup {Unused}
    BY <1>3 DEF NetType
  <2>2. conns' = [c \in ConnIds |-> conns'[c]]
    BY <1>1 DEF WithoutPeer
  <2> QED  BY <2>1, <2>2
<1>5. \A c \in ConnIds : \/ conns'[c] = Unused
                         \/ /\ conns[c] # Unused
                            /\ conns'[c].from = conns[c].from
                            /\ conns'[c].req = conns[c].req
  BY <1>3
<1>6. ASSUME NEW c \in ConnIds, NEW side \in Sides, Owner(conns[c], side) # p
      PROVE  Kept(c, side)
  BY <1>3, <1>6 DEF Kept
<1>7. ASSUME NEW q \in Peers, NEW g \in FdNums, fds'[q][g] # Free, Connected(q, g)
      PROVE  Kept(fds[q][g].conn, Side(q, g))
  <2>1. q # p
    BY <1>2, <1>7
  <2>2. Owner(Conn(q, g), Side(q, g)) = q /\ fds[q][g].conn \in ConnIds /\ Side(q, g) \in Sides
    BY <1>7, ConnIs
  <2> QED  BY <1>6, <2>1, <2>2 DEF Conn
<1>8. ASSUME NEW q \in Peers, NEW c \in Range(backlog'[q])
      PROVE  Kept(c, "server")
  <2>1. q # p
    BY <1>2, <1>8 DEF Range
  <2>2. c \in ConnIds /\ conns[c].req.server = q
    BY <1>2, <1>8, <2>1, BacklogIs
  <2> QED  BY <1>6, <2>1, <2>2 DEF Owner, Sides
<1> QED  BY <1>2, <1>4, <1>5, <1>7, <1>8 DEF LessHeld

\* The lowest free descriptor is free.
LEMMA OpensFree ==
  ASSUME NetType, NEW p \in Peers, NEW fd \in FdNums, NEW end \in End, Opens(p, fd, end)
  PROVE  /\ fds[p][fd] = Free
         /\ fds' = [fds EXCEPT ![p][fd] = end]
         /\ fds' \in [Peers -> [FdNums -> End \cup {Free}]]
         /\ \A q \in Peers, g \in FdNums : fds'[q][g] = IF q = p /\ g = fd THEN end ELSE fds[q][g]
<1>1. fds' = [fds EXCEPT ![p][fd] = end]
  BY DEF Opens
<1>2. FreeFds(p) \in SUBSET Nat
  BY ConnIdsAre DEF FreeFds
<1>3. fd \in FreeFds(p)
  BY <1>2, LowestIs DEF Opens
<1> QED  BY <1>1, <1>3 DEF FreeFds, NetType

\* socket().
LEMMA SocketKeeps ==
  ASSUME NetType, ConnsInv, NEW p \in Peers, NEW fd \in FdNums, Opens(p, fd, Unconnected),
         UNCHANGED <<conns, backlog>>
  PROVE  NetType' /\ ConnsInv'
<1>1. Unconnected \in End /\ Unconnected.conn \notin ConnIds
  BY ConnIdsAre DEF Unconnected, End, Sides
<1>2. /\ fds' \in [Peers -> [FdNums -> End \cup {Free}]]
      /\ \A q \in Peers, g \in FdNums :
           fds'[q][g] = IF q = p /\ g = fd THEN Unconnected ELSE fds[q][g]
  BY <1>1, OpensFree
<1>3. NetType' /\ NoSelf'
  BY <1>2 DEF NetType, ConnsInv, NoSelf
<1>4. FdsOpen'
  <2> SUFFICES ASSUME NEW q \in Peers, NEW g \in FdNums, fds'[q][g].conn \in ConnIds
               PROVE  LET e == fds'[q][g] IN
                      /\ conns'[e.conn].open[e.side]
                      /\ Owner(conns'[e.conn], e.side) = q
                      /\ \A other \in FdNums : e = fds'[q][other] => g = other
    BY DEF FdsOpen, Connected, Conn, Side
  <2>1. fds'[q][g] = fds[q][g] /\ Connected(q, g)
    BY <1>1, <1>2 DEF Connected
  <2>2. /\ Conn(q, g).open[Side(q, g)] /\ Owner(Conn(q, g), Side(q, g)) = q
        /\ \A other \in FdNums : fds[q][g] = fds[q][other] => g = other
    BY <2>1 DEF ConnsInv, FdsOpen
  <2>3. \A other \in FdNums : fds'[q][g] = fds'[q][other] => g = other
    BY <1>1, <1>2, <2>1, <2>2 DEF Connected
  <2> QED  BY <2>1, <2>2, <2>3 DEF Conn, Side
<1>5. BacklogOpen'
  <2> SUFFICES ASSUME NEW q \in Peers, NEW c \in Range(backlog[q]), NEW g \in FdNums
               PROVE  fds'[q][g] # [conn |-> c, side |-> "server"]
    BY DEF ConnsInv, BacklogOpen
  <2>1. fds[q][g] # [conn |-> c, side |-> "server"] /\ c \in ConnIds
    BY BacklogIs
  <2> QED  BY <1>1, <1>2, <2>1
<1> QED  BY <1>3, <1>4, <1>5 DEF ConnsInv

\* A connection that is free belongs to nobody.
LEMMA FreeConnIs ==
  ASSUME NetType, ConnsInv, FreeConns # {}
  PROVE  LET c == Lowest(FreeConns) IN
         /\ c \in ConnIds /\ conns[c] = Unused
         /\ \A q \in Peers, g \in FdNums : fds[q][g].conn # c
         /\ \A q \in Peers : c \notin Range(backlog[q])
<1>1. PICK c : c = Lowest(FreeConns)
  OBVIOUS
<1>2. c \in ConnIds /\ conns[c] = Unused
  <2>1. FreeConns \in SUBSET Nat
    BY ConnIdsAre DEF FreeConns
  <2> QED  BY <1>1, <2>1, LowestIs DEF FreeConns
<1>3. ASSUME NEW q \in Peers, NEW g \in FdNums, fds[q][g].conn = c  PROVE FALSE
  <2>1. Connected(q, g)
    BY <1>2, <1>3 DEF Connected
  <2>2. Conn(q, g) # Unused
    BY <2>1, ConnIs
  <2> QED  BY <1>2, <1>3, <2>2 DEF Conn
<1>4. ASSUME NEW q \in Peers, c \in Range(backlog[q])  PROVE FALSE
  <2>1. conns[c].open["server"]
    BY <1>4, BacklogIs
  <2> QED  BY <1>2, <2>1, UnusedIs DEF Sides
<1> QED  BY <1>1, <1>2, <1>3, <1>4

\* A sequence that gets one element more, which it did not have, or loses its first one.
LEMMA AppendNew ==
  ASSUME NEW S, NEW s \in Seq(S), IsInjective(s), NEW x \in S, x \notin Range(s)
  PROVE  /\ Append(s, x) \in Seq(S) /\ IsInjective(Append(s, x))
         /\ Range(Append(s, x)) = Range(s) \cup {x}
<1>1. /\ Append(s, x) \in Seq(S) /\ Len(Append(s, x)) = Len(s) + 1 /\ Len(s) \in Nat
      /\ \A i \in 1 .. Len(s) : Append(s, x)[i] = s[i]
      /\ Append(s, x)[Len(s) + 1] = x
  BY AppendProperties, LenProperties
<1>2. DOMAIN s = 1 .. Len(s) /\ DOMAIN Append(s, x) = 1 .. Len(s) + 1
  BY <1>1, LenProperties
<1>3. \A i \in 1 .. Len(s) : s[i] # x
  BY <1>2 DEF Range
<1>4. IsInjective(Append(s, x))
  <2> SUFFICES ASSUME NEW i \in 1 .. Len(s) + 1, NEW j \in 1 .. Len(s) + 1,
                      Append(s, x)[i] = Append(s, x)[j]
               PROVE  i = j
    BY <1>2 DEF IsInjective
  <2>1. CASE i = Len(s) + 1 \/ j = Len(s) + 1
    BY <1>1, <1>3, <2>1
  <2>2. CASE i \in 1 .. Len(s) /\ j \in 1 .. Len(s)
    BY <1>1, <1>2, <2>2 DEF IsInjective
  <2> QED  BY <1>1, <2>1, <2>2
<1>5. Range(Append(s, x)) = Range(s) \cup {x}
  <2>1. \A i \in 1 .. Len(s) + 1 : i \in 1 .. Len(s) \/ i = Len(s) + 1
    BY <1>1
  <2>2. 1 .. Len(s) \subseteq 1 .. Len(s) + 1 /\ Len(s) + 1 \in 1 .. Len(s) + 1
    BY <1>1
  <2> QED  BY <1>1, <1>2, <2>1, <2>2 DEF Range
<1> QED  BY <1>1, <1>4, <1>5

LEMMA TailInjective ==
  ASSUME NEW S, NEW s \in Seq(S), s # <<>>
  PROVE  /\ Tail(s) \in Seq(S) /\ Head(s) \in S /\ Head(s) \in Range(s)
         /\ Len(s) = Len(Tail(s)) + 1 /\ Len(Tail(s)) \in Nat
         /\ \A i \in 1 .. Len(Tail(s)) : Tail(s)[i] = s[i + 1] /\ i + 1 \in 1 .. Len(s)
         /\ Range(s) = Range(Tail(s)) \cup {Head(s)}
         /\ IsInjective(s) => IsInjective(Tail(s)) /\ Head(s) \notin Range(Tail(s))
<1>1. /\ Tail(s) \in Seq(S) /\ Head(s) = s[1] /\ Len(Tail(s)) = Len(s) - 1 /\ Len(s) \in Nat
      /\ Len(s) # 0 /\ Head(s) \in S
      /\ \A i \in 1 .. Len(Tail(s)) : Tail(s)[i] = s[i + 1]
      /\ DOMAIN s = 1 .. Len(s) /\ DOMAIN Tail(s) = 1 .. Len(s) - 1
  OBVIOUS
<1>2. \A i \in 1 .. Len(s) : i = 1 \/ (i - 1 \in 1 .. Len(Tail(s)) /\ s[i] = Tail(s)[i - 1])
  BY <1>1
<1>3. \A i \in 1 .. Len(Tail(s)) : i + 1 \in 1 .. Len(s)
  BY <1>1
<1>4. 1 \in 1 .. Len(s)
  BY <1>1
<1>5. Range(s) = Range(Tail(s)) \cup {Head(s)}
  <2>1. ASSUME NEW x \in Range(s)  PROVE x \in Range(Tail(s)) \cup {Head(s)}
    <3>1. PICK i \in 1 .. Len(s) : x = s[i]
      BY <1>1 DEF Range
    <3> QED  BY <1>1, <1>2, <3>1 DEF Range
  <2>2. ASSUME NEW x \in Range(Tail(s))  PROVE x \in Range(s)
    <3>1. PICK i \in 1 .. Len(Tail(s)) : x = Tail(s)[i]
      BY <1>1 DEF Range
    <3> QED  BY <1>1, <1>3, <3>1 DEF Range
  <2>3. Head(s) \in Range(s)
    BY <1>1, <1>4 DEF Range
  <2> QED  BY <2>1, <2>2, <2>3
<1>6. ASSUME IsInjective(s)  PROVE IsInjective(Tail(s)) /\ Head(s) \notin Range(Tail(s))
  <2>1. ASSUME NEW i \in 1 .. Len(Tail(s)), NEW j \in 1 .. Len(Tail(s)), Tail(s)[i] = Tail(s)[j]
        PROVE  i = j
    <3>1. s[i + 1] = s[j + 1] /\ i + 1 \in 1 .. Len(s) /\ j + 1 \in 1 .. Len(s)
      BY <1>1, <1>3, <2>1
    <3>2. i + 1 = j + 1
      BY <1>1, <1>6, <3>1 DEF IsInjective
    <3> QED  BY <1>1, <3>2
  <2>2. ASSUME NEW i \in 1 .. Len(Tail(s)), Tail(s)[i] = Head(s)  PROVE FALSE
    <3>1. s[i + 1] = s[1] /\ i + 1 \in 1 .. Len(s)
      BY <1>1, <1>3, <2>2
    <3>2. i + 1 = 1
      BY <1>1, <1>4, <1>6, <3>1 DEF IsInjective
    <3> QED  BY <1>1, <3>2
  <2> QED  BY <1>1, <2>1, <2>2 DEF IsInjective, Range
<1> QED  BY <1>1, <1>3, <1>4, <1>5, <1>6 DEF Range

\* connect() and accept().
LEMMA ConnectKeeps ==
  ASSUME NetType, ConnsInv, NEW p \in Peers, NEW fd \in FdNums, fds[p][fd] = Unconnected,
         NEW req \in Requests, req.server # p, FreeConns # {}, NEW c, c = Lowest(FreeConns),
         conns' = [conns EXCEPT ![c] = Established(p, req)],
         fds' = [fds EXCEPT ![p][fd].conn = c],
         backlog' = [backlog EXCEPT ![req.server] = Append(backlog[req.server], c)]
  PROVE  NetType' /\ ConnsInv' /\ fds'[p][fd] = [conn |-> c, side |-> "client"]
<1>1. /\ c \in ConnIds /\ conns[c] = Unused
      /\ \A q \in Peers, g \in FdNums : fds[q][g].conn # c
      /\ \A q \in Peers : c \notin Range(backlog[q])
  BY FreeConnIs
<1>2. PICK conn : conn = Established(p, req)
  OBVIOUS
<1>3. /\ conn \in Connection /\ conn.from = p /\ conn.req = req
      /\ conn.open["client"] /\ conn.open["server"]
  BY <1>2 DEF Established, Connection, Both, Sides
<1>4. PICK s \in Peers : s = req.server /\ s # p
  BY DEF Requests
<1>5. PICK end \in End : end = [conn |-> c, side |-> "client"]
  BY <1>1 DEF End, Sides
<1>6. \A q \in Peers, g \in FdNums : fds'[q][g] = IF q = p /\ g = fd THEN end ELSE fds[q][g]
  <2>1. [fds[p][fd] EXCEPT !.conn = c] = end
    BY <1>5 DEF Unconnected
  <2> QED  BY <2>1 DEF NetType
<1>7. fds' \in [Peers -> [FdNums -> End \cup {Free}]]
  <2>1. fds' = [q \in Peers |-> IF q = p THEN [g \in FdNums |-> fds'[q][g]] ELSE fds[q]]
    BY DEF NetType
  <2>2. ASSUME NEW q \in Peers, NEW g \in FdNums  PROVE fds'[q][g] \in End \cup {Free}
    <3>1. fds[q][g] \in End \cup {Free}
      BY DEF NetType
    <3> QED  BY <1>6, <3>1
  <2> QED  BY <2>1, <2>2 DEF NetType
<1>8. \A d \in ConnIds : conns'[d] = IF d = c THEN conn ELSE conns[d]
  BY <1>1, <1>2 DEF NetType
<1>9. conns' \in [ConnIds -> Connection \cup {Unused}]
  BY <1>1, <1>2, <1>3 DEF NetType
<1>10. /\ Append(backlog[s], c) \in Seq(ConnIds) /\ IsInjective(Append(backlog[s], c))
       /\ Range(Append(backlog[s], c)) = Range(backlog[s]) \cup {c}
  <2>1. backlog[s] \in Seq(ConnIds) /\ IsInjective(backlog[s])
    BY DEF NetType, ConnsInv, BacklogOpen
  <2> QED  BY <1>1, <2>1, AppendNew
<1>11. /\ backlog' \in [Peers -> Seq(ConnIds)]
       /\ \A q \in Peers : backlog'[q] = IF q = s THEN Append(backlog[s], c) ELSE backlog[q]
  BY <1>4, <1>10 DEF NetType
<1>12. NetType'
  BY <1>7, <1>9, <1>11 DEF NetType
<1>13. NoSelf'
  BY <1>3, <1>4, <1>8 DEF ConnsInv, NoSelf
<1>14. FdsOpen'
  <2> SUFFICES ASSUME NEW q \in Peers, NEW g \in FdNums, fds'[q][g].conn \in ConnIds
               PROVE  LET e == fds'[q][g] IN
                      /\ conns'[e.conn].open[e.side]
                      /\ Owner(conns'[e.conn], e.side) = q
                      /\ \A other \in FdNums : e = fds'[q][other] => g = other
    BY DEF FdsOpen, Connected, Conn, Side
  <2>1. CASE q = p /\ g = fd
    <3>1. fds'[q][g] = end /\ end.conn = c /\ end.side = "client"
      BY <1>5, <1>6, <2>1
    <3>2. \A other \in FdNums : end = fds'[q][other] => g = other
      BY <1>1, <1>6, <2>1, <3>1
    <3>3. conns'[c].open["client"] /\ Owner(conns'[c], "client") = q
      BY <1>1, <1>3, <1>8, <2>1 DEF Owner
    <3> QED  BY <3>1, <3>2, <3>3
  <2>2. CASE ~(q = p /\ g = fd)
    <3>1. fds'[q][g] = fds[q][g] /\ Connected(q, g) /\ fds[q][g].conn # c
      BY <1>1, <1>6, <2>2 DEF Connected
    <3>2. /\ Conn(q, g).open[Side(q, g)] /\ Owner(Conn(q, g), Side(q, g)) = q
          /\ \A other \in FdNums : fds[q][g] = fds[q][other] => g = other
      BY <3>1 DEF ConnsInv, FdsOpen
    <3>3. conns'[fds[q][g].conn] = conns[fds[q][g].conn]
      BY <1>8, <3>1 DEF Connected
    <3>4. \A other \in FdNums : fds'[q][g] = fds'[q][other] => g = other
      BY <1>5, <1>6, <3>1, <3>2
    <3> QED  BY <3>1, <3>2, <3>3, <3>4 DEF Conn, Side
  <2> QED  BY <2>1, <2>2
<1>15. BacklogOpen'
  <2>1. ASSUME NEW q \in Peers  PROVE IsInjective(backlog'[q])
    BY <1>10, <1>11 DEF ConnsInv, BacklogOpen
  <2>2. ASSUME NEW q \in Peers, NEW d \in Range(backlog'[q])
        PROVE  /\ conns'[d].open["server"] /\ conns'[d].req.server = q
               /\ \A g \in FdNums : fds'[q][g] # [conn |-> d, side |-> "server"]
    <3>1. CASE q = s /\ d = c
      <4>1. \A g \in FdNums : fds'[q][g] # [conn |-> d, side |-> "server"]
        <5>1. \A g \in FdNums : fds'[q][g] = fds[q][g]
          BY <1>4, <1>6, <3>1
        <5> QED  BY <1>1, <3>1, <5>1
      <4> QED  BY <1>1, <1>3, <1>4, <1>8, <3>1, <4>1
    <3>2. CASE ~(q = s /\ d = c)
      <4>1. d \in Range(backlog[q])
        BY <1>10, <1>11, <2>2, <3>2
      <4>2. d # c
        BY <1>1, <4>1
      <4>3. /\ d \in ConnIds /\ conns[d].open["server"] /\ conns[d].req.server = q
            /\ \A g \in FdNums : fds[q][g] # [conn |-> d, side |-> "server"]
        BY <4>1, BacklogIs
      <4>4. \A g \in FdNums : fds'[q][g] # [conn |-> d, side |-> "server"]
        <5>1. end # [conn |-> d, side |-> "server"]
          BY <1>5
        <5> QED  BY <1>6, <4>3, <5>1
      <4> QED  BY <1>8, <4>2, <4>3, <4>4
    <3> QED  BY <3>1, <3>2
  <2> QED  BY <2>1, <2>2 DEF BacklogOpen
<1> QED  BY <1>5, <1>6, <1>12, <1>13, <1>14, <1>15 DEF ConnsInv

LEMMA AcceptKeeps ==
  ASSUME NetType, ConnsInv, NEW p \in Peers, backlog[p] # <<>>, NEW fd \in FdNums,
         Opens(p, fd, [conn |-> Head(backlog[p]), side |-> "server"]),
         UNCHANGED conns, backlog' = [backlog EXCEPT ![p] = Tail(backlog[p])]
  PROVE  NetType' /\ ConnsInv'
<1>1. /\ Tail(backlog[p]) \in Seq(ConnIds) /\ Head(backlog[p]) \in ConnIds
      /\ Head(backlog[p]) \in Range(backlog[p])
      /\ Range(backlog[p]) = Range(Tail(backlog[p])) \cup {Head(backlog[p])}
      /\ IsInjective(Tail(backlog[p])) /\ Head(backlog[p]) \notin Range(Tail(backlog[p]))
  <2>1. backlog[p] \in Seq(ConnIds) /\ IsInjective(backlog[p])
    BY DEF NetType, ConnsInv, BacklogOpen
  <2> QED  BY <2>1, TailInjective
<1>2. PICK c \in ConnIds : c = Head(backlog[p])
  BY <1>1
<1>3. PICK end \in End : end = [conn |-> c, side |-> "server"]
  BY DEF End, Sides
<1>4. /\ fds[p][fd] = Free
      /\ fds' \in [Peers -> [FdNums -> End \cup {Free}]]
      /\ \A q \in Peers, g \in FdNums : fds'[q][g] = IF q = p /\ g = fd THEN end ELSE fds[q][g]
  BY <1>2, <1>3, OpensFree
<1>5. /\ backlog' \in [Peers -> Seq(ConnIds)]
      /\ \A q \in Peers : backlog'[q] = IF q = p THEN Tail(backlog[p]) ELSE backlog[q]
  BY <1>1 DEF NetType
<1>6. NetType' /\ NoSelf'
  BY <1>4, <1>5 DEF NetType, ConnsInv, NoSelf
<1>7. /\ conns[c].open["server"] /\ conns[c].req.server = p
      /\ \A g \in FdNums : fds[p][g] # end
  BY <1>1, <1>2, <1>3, BacklogIs
<1>8. FdsOpen'
  <2> SUFFICES ASSUME NEW q \in Peers, NEW g \in FdNums, fds'[q][g].conn \in ConnIds
               PROVE  LET e == fds'[q][g] IN
                      /\ conns'[e.conn].open[e.side]
                      /\ Owner(conns'[e.conn], e.side) = q
                      /\ \A other \in FdNums : e = fds'[q][other] => g = other
    BY DEF FdsOpen, Connected, Conn, Side
  <2>1. CASE q = p /\ g = fd
    <3>1. fds'[q][g] = end /\ end.conn = c /\ end.side = "server"
      BY <1>3, <1>4, <2>1
    <3>2. \A other \in FdNums : end = fds'[q][other] => g = other
      BY <1>4, <1>7, <2>1
    <3>3. conns'[c].open["server"] /\ Owner(conns'[c], "server") = q
      BY <1>7, <2>1 DEF Owner
    <3> QED  BY <3>1, <3>2, <3>3
  <2>2. CASE ~(q = p /\ g = fd)
    <3>1. fds'[q][g] = fds[q][g] /\ Connected(q, g)
      BY <1>4, <2>2 DEF Connected
    <3>2. /\ Conn(q, g).open[Side(q, g)] /\ Owner(Conn(q, g), Side(q, g)) = q
          /\ \A other \in FdNums : fds[q][g] = fds[q][other] => g = other
      BY <3>1 DEF ConnsInv, FdsOpen
    <3>3. \A other \in FdNums : fds'[q][g] = fds'[q][other] => g = other
      BY <1>4, <1>7, <3>1, <3>2
    <3> QED  BY <3>1, <3>2, <3>3 DEF Conn, Side
  <2> QED  BY <2>1, <2>2
<1>9. BacklogOpen'
  <2>1. ASSUME NEW q \in Peers  PROVE IsInjective(backlog'[q])
    BY <1>1, <1>5 DEF ConnsInv, BacklogOpen
  <2>2. ASSUME NEW q \in Peers, NEW d \in Range(backlog'[q])
        PROVE  /\ conns'[d].open["server"] /\ conns'[d].req.server = q
               /\ \A g \in FdNums : fds'[q][g] # [conn |-> d, side |-> "server"]
    <3>1. d \in Range(backlog[q]) /\ (q = p => d # c)
      BY <1>1, <1>2, <1>5, <2>2
    <3>2. /\ conns[d].open["server"] /\ conns[d].req.server = q
          /\ \A g \in FdNums : fds[q][g] # [conn |-> d, side |-> "server"]
      BY <3>1, BacklogIs
    <3>3. q = p => end # [conn |-> d, side |-> "server"]
      BY <1>3, <3>1
    <3> QED  BY <1>4, <3>2, <3>3
  <2> QED  BY <2>1, <2>2 DEF BacklogOpen
<1> QED  BY <1>6, <1>8, <1>9 DEF ConnsInv

\* Steps that leave the ends of all connections as they are.
LEMMA NetRests ==
  ASSUME NetType, ConnsInv, UNCHANGED netVars
  PROVE  LessHeld
<1>1. \A p \in Peers : \A c \in Range(backlog[p]) : c \in ConnIds
  BY BacklogIs
<1> QED  BY <1>1 DEF LessHeld, NetType, Kept, netVars

LEMMA ReceivesLess ==
  ASSUME NetType, ConnsInv, NEW p \in Peers, NEW fd \in FdNums, Receives(p, fd),
         UNCHANGED <<fds, backlog>>
  PROVE  LessHeld /\ Head(Incoming(p, fd)) \in Items
<1>1. Connected(p, fd) /\ Incoming(p, fd) # <<>>
  BY DEF Receives
<1>2. PICK conn \in Connection, side \in Sides : conn = Conn(p, fd) /\ side = Side(p, fd)
  BY <1>1, ConnIs
<1>3. conn.in[side] \in Seq(Items) /\ conn.in[side] # <<>>
  BY <1>1, <1>2, FieldsOf DEF Incoming
<1>4. Tail(conn.in[side]) \in Seq(Items) /\ Head(conn.in[side]) \in Items
  BY <1>3
<1>5. PICK new : new = [conn EXCEPT !.in = [conn.in EXCEPT ![side] = Tail(conn.in[side])]]
  OBVIOUS
<1>6. SameEnds(new, conn)
  <2>1. [conn.in EXCEPT ![side] = Tail(conn.in[side])] \in [Sides -> Seq(Items)]
    BY <1>4, FieldsOf
  <2> QED  BY <1>5, <2>1 DEF SameEnds, Connection
<1>7. Changes(p, fd, new)
  BY <1>2, <1>5 DEF Receives
<1> QED  BY <1>1, <1>2, <1>4, <1>6, <1>7, TouchedLess DEF Incoming

LEMMA SendsLess ==
  ASSUME NetType, ConnsInv, NEW p \in Peers, NEW fd \in FdNums, NEW item \in Items,
         SendsOrNot(p, fd, item), UNCHANGED <<fds, backlog>>
  PROVE  LessHeld
<1>1. CASE UNCHANGED conns
  BY <1>1, NetRests DEF netVars
<1>2. CASE Sends(p, fd, item)
  <2>1. Connected(p, fd)
    BY <1>2 DEF Sends
  <2>2. PICK conn \in Connection, side \in Sides : conn = Conn(p, fd) /\ side = Other(Side(p, fd))
    BY <2>1, ConnIs, OtherIs
  <2>3. CASE OtherOpen(p, fd)
    <3>1. PICK new : new = [conn EXCEPT !.in = [conn.in EXCEPT ![side] = Append(conn.in[side], item)]]
      OBVIOUS
    <3>2. SameEnds(new, conn)
      <4>1. conn.in[side] \in Seq(Items)
        BY FieldsOf
      <4>2. [conn.in EXCEPT ![side] = Append(conn.in[side], item)] \in [Sides -> Seq(Items)]
        BY <4>1, FieldsOf
      <4> QED  BY <3>1, <4>2 DEF SameEnds, Connection
    <3>3. Changes(p, fd, new)
      BY <1>2, <2>2, <2>3, <3>1 DEF Sends
    <3> QED  BY <2>1, <2>2, <3>2, <3>3, TouchedLess
  <2>4. CASE ~OtherOpen(p, fd)
    <3>1. PICK new : new = [conn EXCEPT !.reset = TRUE]
      OBVIOUS
    <3>2. SameEnds(new, conn)
      BY <3>1 DEF SameEnds, Connection
    <3>3. Changes(p, fd, new)
      BY <1>2, <2>2, <2>4, <3>1 DEF Sends
    <3> QED  BY <2>1, <2>2, <3>2, <3>3, TouchedLess
  <2> QED  BY <2>3, <2>4
<1> QED  BY <1>1, <1>2 DEF SendsOrNot

LEMMA ShutsLess ==
  ASSUME NetType, ConnsInv, NEW p \in Peers, NEW fd \in FdNums, Connected(p, fd),
         Changes(p, fd, [Conn(p, fd) EXCEPT !.shut[Side(p, fd)] = TRUE]),
         UNCHANGED <<fds, backlog>>
  PROVE  LessHeld
<1>1. PICK conn \in Connection, side \in Sides : conn = Conn(p, fd) /\ side = Side(p, fd)
  BY ConnIs
<1>2. PICK new : new = [conn EXCEPT !.shut = [conn.shut EXCEPT ![side] = TRUE]]
  OBVIOUS
<1>3. SameEnds(new, conn)
  <2>1. [conn.shut EXCEPT ![side] = TRUE] \in [Sides -> BOOLEAN]
    BY FieldsOf
  <2> QED  BY <1>2, <2>1 DEF SameEnds, Connection
<1>4. Changes(p, fd, new)
  BY <1>1, <1>2
<1> QED  BY <1>1, <1>3, <1>4, TouchedLess

\* The items that are sent.
LEMMA ItemsAre ==
  /\ Request \in Items /\ Start \in Items
  /\ \A f \in Files, n \in Nat : Block(f, n) \in Items
BY DEF Request, Start, Block, Items

-----------------------------------------------------------------------------
(* The client's workers.                                                   *)

ClientType ==
  /\ wanted \in [Peers -> Seq(Requests)]
  /\ m_request_queue \in [Peers -> Seq(Requests)]
  /\ client \in [Peers -> [ClientThreads -> Worker]]
  /\ m_obtain_num \in [Peers -> Nat]

LEMMA IdleIs == Idle \in Worker /\ Idle.pc = "idle"
BY DEF Idle, Worker

\* A worker that is not idle.
LEMMA ClientIs ==
  ASSUME ClientType, ClientWorkers, NEW p \in Peers, NEW t \in ClientThreads,
         client[p][t].pc # "idle"
  PROVE  /\ client[p][t] \in Worker /\ client[p][t] # Idle
         /\ client[p][t].pc \in ClientPcs /\ client[p][t].fd \in FdNums
         /\ client[p][t].req \in Requests /\ client[p][t].req.server # p
         /\ client[p][t].req.server \in Peers /\ client[p][t].req.file \in Files
         /\ client[p][t].n \in Nat
<1>1. client[p][t] \in Worker /\ client[p][t] # Idle
  BY IdleIs DEF ClientType
<1>2. GoodClient(p, client[p][t])
  BY DEF ClientWorkers
<1>3. client[p][t].n \in Nat
  BY <1>1 DEF Worker
<1> QED  BY <1>1, <1>2, <1>3 DEF GoodClient, Requests

\* One worker changes.
LEMMA ClientSet ==
  ASSUME ClientType, ClientWorkers, NEW p \in Peers, NEW t \in ClientThreads,
         NEW me \in Worker, GoodClient(p, me), client' = [client EXCEPT ![p][t] = me]
  PROVE  /\ client' \in [Peers -> [ClientThreads -> Worker]]
         /\ \A q \in Peers, u \in ClientThreads :
              /\ client'[q][u] = IF q = p /\ u = t THEN me ELSE client[q][u]
              /\ GoodClient(q, client'[q][u])
<1>1. client' \in [Peers -> [ClientThreads -> Worker]]
  BY DEF ClientType
<1>2. \A q \in Peers, u \in ClientThreads :
        client'[q][u] = IF q = p /\ u = t THEN me ELSE client[q][u]
  BY DEF ClientType
<1>3. \A q \in Peers, u \in ClientThreads : GoodClient(q, client[q][u])
  BY DEF ClientWorkers
<1> QED  BY <1>1, <1>2, <1>3

\* What a step of a worker does to it: it goes on, with its descriptor and its request, or
\* it is done.
GoesTo(p, t, pcs) == \E me \in Worker :
  /\ client' = [client EXCEPT ![p][t] = me]
  /\ me.fd = client[p][t].fd /\ me.req = client[p][t].req /\ me.pc \in pcs
LEMMA Going ==
  ASSUME ClientType, ClientWorkers, NEW p \in Peers, NEW t \in ClientThreads,
         client[p][t].pc # "idle", NEW pc \in ClientPcs, NEW n \in Nat,
         \/ client' = [client EXCEPT ![p][t].pc = pc] /\ n = client[p][t].n
         \/ client' = [client EXCEPT ![p][t].n = n] /\ pc = client[p][t].pc
         \/ client' = [client EXCEPT ![p][t].pc = pc, ![p][t].n = n]
  PROVE  GoesTo(p, t, {pc})
<1>1. client[p][t] \in Worker
  BY ClientIs
<1>2. PICK me \in Worker : /\ me = [client[p][t] EXCEPT !.pc = pc, !.n = n]
                           /\ me.fd = client[p][t].fd /\ me.req = client[p][t].req /\ me.pc = pc
  <2>1. PICK w \in Worker : w = client[p][t]
    BY <1>1
  <2>2. [w EXCEPT !.pc = pc, !.n = n] \in Worker
    BY <2>1 DEF Worker, ClientPcs
  <2>3. PICK me : me = [w EXCEPT !.pc = pc, !.n = n]
    OBVIOUS
  <2>4. me.fd = w.fd /\ me.req = w.req /\ me.pc = pc
    BY <2>1, <2>3 DEF Worker
  <2> QED  BY <2>1, <2>2, <2>3, <2>4
<1>3. client' = [client EXCEPT ![p][t] = me]
  <2>1. me = [client[p][t] EXCEPT !.pc = pc, !.n = n]
    BY <1>2
  <2>2. CASE client' = [client EXCEPT ![p][t].pc = pc] /\ n = client[p][t].n
    <3>1. me = [client[p][t] EXCEPT !.pc = pc]
      BY <1>1, <2>1, <2>2 DEF Worker
    <3> QED  BY <2>2, <3>1
  <2>3. CASE client' = [client EXCEPT ![p][t].n = n] /\ pc = client[p][t].pc
    <3>1. me = [client[p][t] EXCEPT !.n = n]
      BY <1>1, <2>1, <2>3 DEF Worker
    <3> QED  BY <2>3, <3>1
  <2>4. CASE client' = [client EXCEPT ![p][t].pc = pc, ![p][t].n = n]
    BY <2>1, <2>4 DEF ClientType
  <2> QED  BY <2>2, <2>3, <2>4
<1> QED  BY <1>2, <1>3 DEF GoesTo

\* The kinds of steps of a worker: it tries to connect, connects, keeps its connection,
\* closes its socket, takes a request, enqueues its own again, or leaves its socket open.
ConnectedPcs == {"sending", "opening", "downloading", "waiting", "pushing"}
ClientTries(p, t) ==
  /\ client[p][t].pc = "connecting" /\ GoesTo(p, t, {"connecting"})
  /\ UNCHANGED <<m_request_queue, netVars>>
ClientConnects(p, t) ==
  LET me == client[p][t]
      c == Lowest(FreeConns) IN
  /\ me.pc = "connecting" /\ GoesTo(p, t, {"sending"})
  /\ fds[p][me.fd] = Unconnected /\ FreeConns # {}
  /\ conns' = [conns EXCEPT ![c] = Established(p, me.req)]
  /\ fds' = [fds EXCEPT ![p][me.fd].conn = c]
  /\ backlog' = [backlog EXCEPT ![me.req.server] = Append(backlog[me.req.server], c)]
  /\ UNCHANGED m_request_queue
ClientKeeps(p, t) ==
  /\ client[p][t].pc \in ConnectedPcs /\ GoesTo(p, t, ConnectedPcs)
  /\ LessHeld
  /\ UNCHANGED <<m_request_queue, fds>>
ClientCloses(p, t) ==
  /\ ClientUses(p, t)
  /\ CloseConn(p, client[p][t].fd, FALSE)
  /\ GoesTo(p, t, {"requeue"}) \/ client' = [client EXCEPT ![p][t] = Idle]
  /\ UNCHANGED <<m_request_queue, backlog>>
ClientRequeues(p, t) ==
  /\ client[p][t].pc = "requeue"
  /\ m_request_queue' = [m_request_queue EXCEPT ![p] = Append(m_request_queue[p], client[p][t].req)]
  /\ client' = [client EXCEPT ![p][t] = Idle]
  /\ UNCHANGED netVars
ClientLeaks(p, t) ==
  /\ client[p][t].pc = "opening" /\ client[p][t].req.type = "push"
  /\ client[p][t].req.file \notin shared[p]
  /\ client' = [client EXCEPT ![p][t] = Idle]
  /\ UNCHANGED <<m_request_queue, netVars>>
ClientKind(p, t) ==
  \/ ClientTries(p, t) \/ ClientConnects(p, t) \/ ClientKeeps(p, t) \/ ClientCloses(p, t)
  \/ TakeRequest(p, t) \/ ClientRequeues(p, t) \/ ClientLeaks(p, t)

LEMMA ClientKinds ==
  ASSUME NetType, ConnsInv, ClientType, ClientWorkers, NEW p \in Peers, NEW t \in ClientThreads,
         ClientStep(p, t)
  PROVE  \/ Crash(p)
         \/ /\ ClientKind(p, t)
            /\ UNCHANGED <<wanted, serverVars, shared, received, lifeVars, stolen>>
<1> DEFINE Rest == UNCHANGED <<wanted, serverVars, shared, received, lifeVars, stolen>>
<1>0. ASSUME client[p][t].pc # "idle"
      PROVE  /\ client[p][t].fd \in FdNums /\ client[p][t].n \in Nat
             /\ client[p][t].req \in Requests /\ client[p][t].req.file \in Files
             /\ client[p][t] \in Worker
  BY <1>0, ClientIs
<1>1. CASE TakeRequest(p, t)
  BY <1>1 DEF TakeRequest, ClientKind, diskVars
<1>2. CASE Connect(p, t)
  <2>0. client[p][t].pc = "connecting" /\ client[p][t].pc # "idle" /\ Rest
    BY <1>2 DEF Connect, diskVars
  <2>1. PICK me \in Worker : me = client[p][t] /\ me.n \in Nat
    BY <1>0, <2>0
  <2>2. CASE /\ fds[p][me.fd] = Unconnected
             /\ FreeConns # {}
             /\ LET c == Lowest(FreeConns) IN
                /\ conns' = [conns EXCEPT ![c] = Established(p, me.req)]
                /\ fds' = [fds EXCEPT ![p][me.fd].conn = c]
                /\ backlog' = [backlog EXCEPT ![me.req.server] = Append(@, c)]
             /\ ClientGoes(p, t, "sending")
    <3>1. GoesTo(p, t, {"sending"})
      BY <2>0, <2>1, <2>2, Going DEF ClientGoes, ClientPcs
    <3>2. UNCHANGED m_request_queue
      BY <1>2 DEF Connect
    <3>3. ClientConnects(p, t)
      BY <2>0, <2>1, <2>2, <3>1, <3>2 DEF ClientConnects
    <3> QED  BY <2>0, <3>3 DEF ClientKind
  <2>3. CASE client' = [client EXCEPT ![p][t].n = me.n + 1] /\ UNCHANGED netVars
    <3>1. me.n + 1 \in Nat /\ "connecting" \in ClientPcs
      BY <2>1 DEF ClientPcs
    <3>2. GoesTo(p, t, {"connecting"})
      BY <2>0, <2>3, <3>1, Going
    <3>3. UNCHANGED m_request_queue
      BY <1>2 DEF Connect
    <3> QED  BY <2>0, <2>3, <3>2, <3>3 DEF ClientKind, ClientTries
  <2>4. CASE Close(p, me.fd) /\ ClientGoes(p, t, "requeue") /\ UNCHANGED backlog
    <3>1. GoesTo(p, t, {"requeue"})
      BY <2>0, <2>1, <2>4, Going DEF ClientGoes, ClientPcs
    <3>2. UNCHANGED m_request_queue
      BY <1>2 DEF Connect
    <3> QED  BY <2>0, <2>1, <2>4, <3>1, <3>2 DEF ClientKind, ClientCloses, ClientUses, Close
  <2> QED  BY <1>2, <2>1, <2>2, <2>3, <2>4 DEF Connect
<1>3. CASE SendRequest(p, t)
  <2>0. client[p][t].pc = "sending" /\ client[p][t].pc # "idle" /\ Rest
        /\ UNCHANGED <<m_request_queue, backlog>>
    BY <1>3 DEF SendRequest, diskVars
  <2>1. CASE /\ Sends(p, client[p][t].fd, Request)
             /\ client' = [client EXCEPT ![p][t].pc = "opening", ![p][t].n = 0]
             /\ UNCHANGED fds
    <3>1. GoesTo(p, t, {"opening"})
      BY <2>0, <2>1, Going DEF ClientPcs
    <3>2. LessHeld
      BY <1>0, <2>0, <2>1, SendsLess, ItemsAre DEF SendsOrNot
    <3> QED  BY <2>0, <2>1, <3>1, <3>2 DEF ClientKind, ClientKeeps, ConnectedPcs, GoesTo
  <2>2. CASE Close(p, client[p][t].fd) /\ ClientGoes(p, t, "requeue")
    <3>1. GoesTo(p, t, {"requeue"})
      BY <1>0, <2>0, <2>2, Going DEF ClientGoes, ClientPcs
    <3> QED  BY <2>0, <2>2, <3>1 DEF ClientKind, ClientCloses, ClientUses, Close
  <2> QED  BY <1>3, <2>1, <2>2 DEF SendRequest
<1>4. CASE Requeue(p, t)
  BY <1>4 DEF Requeue, PushFile, ObtainFile, ClientDone, ClientKind, ClientRequeues, diskVars
<1>5. CASE OpenDownload(p, t)
  <2>0. client[p][t].pc = "opening" /\ client[p][t].pc # "idle" /\ Rest
        /\ UNCHANGED <<m_request_queue, netVars>>
    BY <1>5 DEF OpenDownload, diskVars
  <2>1. GoesTo(p, t, {"downloading"})
    BY <1>5, <2>0, Going DEF OpenDownload, ClientPcs, ClientType
  <2>2. LessHeld
    BY <2>0, NetRests
  <2> QED  BY <2>0, <2>1, <2>2 DEF ClientKind, ClientKeeps, ConnectedPcs, GoesTo, netVars
<1>6. CASE DownloadBlock(p, t)
  <2>0. client[p][t].pc = "downloading" /\ client[p][t].pc # "idle" /\ Rest
        /\ UNCHANGED <<client, m_request_queue, fds, backlog>>
    BY <1>6 DEF DownloadBlock, clientVars
  <2>1. GoesTo(p, t, {"downloading"})
    <3>1. client' = [client EXCEPT ![p][t] = client[p][t]]
      BY <2>0 DEF ClientType
    <3> QED  BY <1>0, <2>0, <3>1 DEF GoesTo
  <2>2. LessHeld
    BY <1>0, <1>6, <2>0, ReceivesLess DEF DownloadBlock
  <2> QED  BY <2>0, <2>1, <2>2 DEF ClientKind, ClientKeeps, ConnectedPcs, GoesTo
<1>7. CASE EndDownload(p, t) \/ EndPush(p, t)
  BY <1>7 DEF EndDownload, EndPush, ClientDone, ClientKind, ClientCloses, ClientUses, Close, diskVars
<1>8. CASE OpenPush(p, t)
  <2>0. /\ client[p][t].pc = "opening" /\ client[p][t].pc # "idle" /\ Rest
        /\ client[p][t].req.type = "push" /\ UNCHANGED <<m_request_queue, netVars>>
    BY <1>8 DEF OpenPush, diskVars
  <2>1. CASE ClientGoes(p, t, "waiting")
    <3>1. GoesTo(p, t, {"waiting"})
      BY <1>0, <2>0, <2>1, Going DEF ClientGoes, ClientPcs
    <3>2. LessHeld
      BY <2>0, NetRests
    <3> QED  BY <2>0, <3>1, <3>2 DEF ClientKind, ClientKeeps, ConnectedPcs, GoesTo, netVars
  <2>2. CASE client[p][t].req.file \notin shared[p] /\ ClientDone(p, t)
    BY <2>0, <2>2 DEF ClientKind, ClientLeaks, ClientDone
  <2> QED  BY <1>8, <2>1, <2>2 DEF OpenPush
<1>9. CASE AwaitStart(p, t)
  <2>0. client[p][t].pc = "waiting" /\ client[p][t].pc # "idle" /\ Rest
        /\ UNCHANGED <<m_request_queue, fds, backlog>>
    BY <1>9 DEF AwaitStart, diskVars
  <2>1. GoesTo(p, t, {"pushing"})
    BY <1>0, <1>9, <2>0, Going DEF AwaitStart, ClientGoes, ClientPcs
  <2>2. LessHeld
    <3>1. CASE Receives(p, client[p][t].fd)
      BY <1>0, <2>0, <3>1, ReceivesLess
    <3>2. CASE UNCHANGED conns
      BY <2>0, <3>2, NetRests DEF netVars
    <3> QED  BY <1>9, <3>1, <3>2 DEF AwaitStart
  <2> QED  BY <2>0, <2>1, <2>2 DEF ClientKind, ClientKeeps, ConnectedPcs, GoesTo
<1>10. CASE PushBlock(p, t)
  <2>0. client[p][t].pc = "pushing" /\ client[p][t].pc # "idle" /\ Rest
        /\ UNCHANGED <<m_request_queue, fds, backlog>>
    BY <1>10 DEF PushBlock, diskVars
  <2>1. PICK me \in Worker : me = client[p][t] /\ me.n \in Nat /\ me.req.file \in Files /\ me.fd \in FdNums
    BY <1>0, <2>0
  <2>2. client' = [client EXCEPT ![p][t].n = me.n + 1]
        /\ SendsOrNot(p, me.fd, Block(me.req.file, me.n + 1))
    BY <1>10, <2>1 DEF PushBlock
  <2>3. me.n + 1 \in Nat /\ "pushing" \in ClientPcs
    BY <2>1 DEF ClientPcs
  <2>4. GoesTo(p, t, {"pushing"})
    BY <2>0, <2>2, <2>3, Going
  <2>5. LessHeld
    BY <2>0, <2>1, <2>2, <2>3, ItemsAre, SendsLess
  <2> QED  BY <2>0, <2>4, <2>5 DEF ClientKind, ClientKeeps, ConnectedPcs, GoesTo
<1>11. CASE ClientBreaksPipe(p, t)
  BY <1>11 DEF ClientBreaksPipe
<1> QED
  BY <1>1, <1>2, <1>3, <1>4, <1>5, <1>6, <1>7, <1>8, <1>9, <1>10, <1>11 DEF ClientStep

\* The requests stay what they are.
LEMMA ClientSteps ==
  ASSUME NetType, ConnsInv, ClientType, ClientWorkers, NEW p \in Peers, NEW t \in ClientThreads,
         ClientKind(p, t)
  PROVE  /\ m_request_queue' \in [Peers -> Seq(Requests)]
         /\ client' \in [Peers -> [ClientThreads -> Worker]]
         /\ \A q \in Peers : \A req \in Range(m_request_queue'[q]) : req.server # q
         /\ \A q \in Peers, u \in ClientThreads : GoodClient(q, client'[q][u])
<1>0. /\ m_request_queue \in [Peers -> Seq(Requests)]
      /\ \A q \in Peers : \A req \in Range(m_request_queue[q]) : req.server # q
  BY DEF ClientType, ClientWorkers
<1>1. ASSUME NEW pcs \in SUBSET ClientPcs, GoesTo(p, t, pcs), client[p][t].pc # "idle"
      PROVE  /\ client' \in [Peers -> [ClientThreads -> Worker]]
             /\ \A q \in Peers, u \in ClientThreads : GoodClient(q, client'[q][u])
  <2>1. PICK me \in Worker :
          /\ client' = [client EXCEPT ![p][t] = me]
          /\ me.fd = client[p][t].fd /\ me.req = client[p][t].req /\ me.pc \in pcs
    BY <1>1 DEF GoesTo
  <2>2. GoodClient(p, me)
    BY <1>1, <2>1, ClientIs DEF GoodClient
  <2> QED  BY <2>1, <2>2, ClientSet
<1>2. ASSUME client' = [client EXCEPT ![p][t] = Idle]
      PROVE  /\ client' \in [Peers -> [ClientThreads -> Worker]]
             /\ \A q \in Peers, u \in ClientThreads : GoodClient(q, client'[q][u])
  <2>1. GoodClient(p, Idle) /\ Idle \in Worker
    BY IdleIs DEF GoodClient
  <2> QED  BY <1>2, <2>1, ClientSet
<1>3. CASE ClientTries(p, t) \/ ClientConnects(p, t)
  <2>1. "connecting" \in ClientPcs /\ "sending" \in ClientPcs
    BY DEF ClientPcs
  <2>2. {"connecting"} \in SUBSET ClientPcs /\ {"sending"} \in SUBSET ClientPcs
    BY <2>1
  <2> QED  BY <1>0, <1>1, <1>3, <2>2 DEF ClientTries, ClientConnects
<1>4. CASE ClientKeeps(p, t)
  <2>1. ConnectedPcs \in SUBSET ClientPcs /\ client[p][t].pc # "idle"
    BY <1>4 DEF ClientKeeps, ClientPcs, ConnectedPcs
  <2> QED  BY <1>0, <1>1, <1>4, <2>1 DEF ClientKeeps
<1>5. CASE ClientCloses(p, t)
  <2>1. {"requeue"} \in SUBSET ClientPcs /\ client[p][t].pc # "idle"
    BY <1>5 DEF ClientCloses, ClientPcs, ClientUses
  <2> QED  BY <1>0, <1>1, <1>2, <1>5, <2>1 DEF ClientCloses
<1>6. CASE TakeRequest(p, t)
  <2>1. /\ m_request_queue[p] # <<>>
        /\ m_request_queue' = [m_request_queue EXCEPT ![p] = Tail(m_request_queue[p])]
    BY <1>6 DEF TakeRequest
  <2>2. PICK fd \in FdNums :
          client' = [client EXCEPT ![p][t] =
                       [pc |-> "connecting", req |-> Head(m_request_queue[p]), fd |-> fd, n |-> 0]]
    BY <1>6 DEF TakeRequest
  <2>3. /\ Tail(m_request_queue[p]) \in Seq(Requests) /\ Head(m_request_queue[p]) \in Requests
        /\ Head(m_request_queue[p]) \in Range(m_request_queue[p])
        /\ Range(m_request_queue[p]) = Range(Tail(m_request_queue[p])) \cup {Head(m_request_queue[p])}
    BY <1>0, <2>1, TailInjective
  <2>4. PICK me : me = [pc |-> "connecting", req |-> Head(m_request_queue[p]), fd |-> fd, n |-> 0]
    OBVIOUS
  <2>5. me \in Worker /\ GoodClient(p, me)
    BY <1>0, <2>3, <2>4 DEF Worker, GoodClient, ClientPcs
  <2>6. /\ client' \in [Peers -> [ClientThreads -> Worker]]
        /\ \A q \in Peers, u \in ClientThreads : GoodClient(q, client'[q][u])
    BY <2>2, <2>4, <2>5, ClientSet
  <2>7. m_request_queue' \in [Peers -> Seq(Requests)]
    BY <1>0, <2>1, <2>3
  <2>8. \A q \in Peers : Range(m_request_queue'[q]) \subseteq Range(m_request_queue[q])
    BY <1>0, <2>1, <2>3
  <2> QED  BY <1>0, <2>6, <2>7, <2>8
<1>7. CASE ClientRequeues(p, t)
  <2>1. PICK req \in Requests : req = client[p][t].req /\ req.server # p
    BY <1>7, ClientIs DEF ClientRequeues
  <2>2. m_request_queue' = [m_request_queue EXCEPT ![p] = Append(m_request_queue[p], req)]
    BY <1>7, <2>1 DEF ClientRequeues
  <2>3. /\ Append(m_request_queue[p], req) \in Seq(Requests)
        /\ \A i \in DOMAIN Append(m_request_queue[p], req) :
             Append(m_request_queue[p], req)[i] \in Range(m_request_queue[p]) \cup {req}
    BY <1>0, <2>1, AppendProperties, LenProperties DEF Range
  <2>4. Range(Append(m_request_queue[p], req)) \subseteq Range(m_request_queue[p]) \cup {req}
    BY <2>3 DEF Range
  <2>5. m_request_queue' \in [Peers -> Seq(Requests)]
    BY <1>0, <2>2, <2>3
  <2>6. \A q \in Peers : \A r \in Range(m_request_queue'[q]) : r.server # q
    BY <1>0, <2>1, <2>2, <2>4
  <2> QED  BY <1>2, <1>7, <2>5, <2>6 DEF ClientRequeues
<1>8. CASE ClientLeaks(p, t)
  BY <1>0, <1>2, <1>8 DEF ClientLeaks
<1> QED  BY <1>3, <1>4, <1>5, <1>6, <1>7, <1>8 DEF ClientKind

\* The number of the next download.
LEMMA ObtainNumNext ==
  ASSUME ClientType, [Next]_vars
  PROVE  m_obtain_num' \in [Peers -> Nat]
<1>0. m_obtain_num \in [Peers -> Nat]
  BY DEF ClientType
<1>1. ASSUME NEW p \in Peers, Ends(p)  PROVE m_obtain_num' \in [Peers -> Nat]
  BY <1>0, <1>1 DEF Ends
<1>2. ASSUME NEW p \in Peers, NEW t \in ClientThreads, OpenDownload(p, t)
      PROVE  m_obtain_num' \in [Peers -> Nat]
  BY <1>0, <1>2 DEF OpenDownload
<1>3. CASE UNCHANGED m_obtain_num
  BY <1>0, <1>3
<1>4. ASSUME NEW p \in Peers, Want(p) \/ Run(p) \/ AcceptStep(p) \/ \E f \in Files : RemoveFile(p, f)
      PROVE  UNCHANGED m_obtain_num
  BY <1>4 DEF Want, Run, AcceptStep, Accept, TestLimit, EnqueueSocket, RemoveFile, clientVars
<1>5. ASSUME NEW p \in Peers, NEW t \in ClientThreads, ClientStep(p, t)
      PROVE  m_obtain_num' \in [Peers -> Nat]
  <2>1. CASE OpenDownload(p, t) \/ ClientBreaksPipe(p, t)
    BY <1>1, <1>2, <2>1 DEF ClientBreaksPipe, Crash
  <2>2. CASE ~(OpenDownload(p, t) \/ ClientBreaksPipe(p, t))
    BY <1>3, <1>5, <2>2 DEF ClientStep, TakeRequest, Connect, SendRequest, Requeue, DownloadBlock,
       EndDownload, OpenPush, AwaitStart, PushBlock, EndPush, clientVars
  <2> QED  BY <2>1, <2>2
<1>6. ASSUME NEW p \in Peers, NEW w \in ServerThreads, ServerStep(p, w)
      PROVE  m_obtain_num' \in [Peers -> Nat]
  <2>1. CASE StoiThrows(p, w) \/ ServerBreaksPipe(p, w)
    BY <1>1, <2>1 DEF StoiThrows, ServerBreaksPipe, Crash
  <2>2. CASE ~(StoiThrows(p, w) \/ ServerBreaksPipe(p, w))
    BY <1>3, <1>6, <2>2 DEF ServerStep, TakeSocket, ReadRequest, ReadFails, SendBlock, SendStart,
       ReceiveBlock, EndReceive, CloseClient, CountDown, clientVars
  <2> QED  BY <2>1, <2>2
<1>7. CASE UNCHANGED vars
  BY <1>3, <1>7 DEF vars, clientVars
<1> QED  BY <1>1, <1>3, <1>4, <1>5, <1>6, <1>7 DEF Next, Kill

-----------------------------------------------------------------------------
(* The server's workers.                                                   *)

ServerType ==
  /\ acceptor \in [Peers -> Worker]
  /\ m_socket_fd_counts \in [Peers -> Nat]
  /\ m_socket_fd_queue \in [Peers -> Seq(FdNums)]
  /\ server \in [Peers -> [ServerThreads -> Worker]]

\* A worker that is not idle.
LEMMA ServerIs ==
  ASSUME ServerType, ServerWorkers, NEW p \in Peers, NEW w \in ServerThreads,
         server[p][w].pc # "idle"
  PROVE  /\ server[p][w] \in Worker /\ server[p][w] # Idle
         /\ server[p][w].pc \in ServerPcs /\ server[p][w].fd \in FdNums /\ server[p][w].n \in Nat
         /\ server[p][w].pc \in {"starting", "pushing", "receiving"} =>
              server[p][w].req \in Requests /\ server[p][w].req.file \in Files
<1>1. server[p][w] \in Worker /\ server[p][w] # Idle
  BY IdleIs DEF ServerType
<1>2. GoodServer(server[p][w])
  BY DEF ServerWorkers
<1>3. server[p][w].n \in Nat
  BY <1>1 DEF Worker
<1> QED  BY <1>1, <1>2, <1>3 DEF GoodServer, Requests

\* What a step of a worker does to it: it goes on with its descriptor.
ServerGoesTo(p, w, pcs) == \E me \in Worker :
  /\ server' = [server EXCEPT ![p][w] = me]
  /\ me.fd = server[p][w].fd /\ me.pc \in pcs
  /\ me.pc \in {"starting", "pushing", "receiving"} => me.req \in Requests
LEMMA ServerGoing ==
  ASSUME ServerType, ServerWorkers, NEW p \in Peers, NEW w \in ServerThreads,
         server[p][w].pc # "idle", NEW pc \in ServerPcs, NEW n \in Nat, NEW req \in Requests \cup {NoRequest},
         pc \in {"starting", "pushing", "receiving"} => req \in Requests,
         \/ server' = [server EXCEPT ![p][w].pc = pc] /\ req = server[p][w].req /\ n = server[p][w].n
         \/ server' = [server EXCEPT ![p][w].pc = pc, ![p][w].req = req] /\ n = server[p][w].n
         \/ server' = [server EXCEPT ![p][w].n = n] /\ req = server[p][w].req /\ pc = server[p][w].pc
  PROVE  ServerGoesTo(p, w, {pc})
<1>1. PICK me \in Worker : me = server[p][w]
  BY ServerIs
<1>2. CASE server' = [server EXCEPT ![p][w].pc = pc] /\ req = server[p][w].req
  <2>1. [me EXCEPT !.pc = pc] \in Worker
    BY <1>1 DEF Worker, ServerPcs
  <2>2. PICK then : then = [me EXCEPT !.pc = pc]
    OBVIOUS
  <2>3. then.fd = me.fd /\ then.req = me.req /\ then.pc = pc
    BY <1>1, <2>2 DEF Worker
  <2>4. server' = [server EXCEPT ![p][w] = then]
    BY <1>1, <1>2, <2>2
  <2> QED  BY <1>1, <1>2, <2>1, <2>2, <2>3, <2>4 DEF ServerGoesTo
<1>3. CASE server' = [server EXCEPT ![p][w].pc = pc, ![p][w].req = req]
  <2>1. [me EXCEPT !.pc = pc, !.req = req] \in Worker
    BY <1>1 DEF Worker, ServerPcs
  <2>2. PICK then : then = [me EXCEPT !.pc = pc, !.req = req]
    OBVIOUS
  <2>3. then.fd = me.fd /\ then.req = req /\ then.pc = pc
    BY <1>1, <2>2 DEF Worker
  <2>4. server' = [server EXCEPT ![p][w] = then]
    BY <1>1, <1>3, <2>2 DEF ServerType
  <2> QED  BY <1>1, <2>1, <2>2, <2>3, <2>4 DEF ServerGoesTo
<1>4. CASE server' = [server EXCEPT ![p][w].n = n] /\ req = server[p][w].req /\ pc = server[p][w].pc
  <2>1. [me EXCEPT !.n = n] \in Worker
    BY <1>1 DEF Worker
  <2>2. PICK then : then = [me EXCEPT !.n = n]
    OBVIOUS
  <2>3. then.fd = me.fd /\ then.req = me.req /\ then.pc = me.pc
    BY <1>1, <2>2 DEF Worker
  <2>4. server' = [server EXCEPT ![p][w] = then]
    BY <1>1, <1>4, <2>2
  <2> QED  BY <1>1, <1>4, <2>1, <2>2, <2>3, <2>4 DEF ServerGoesTo
<1> QED  BY <1>2, <1>3, <1>4

\* The kinds of steps of a worker: it uses its connection, closes it, closes it once more,
\* takes a descriptor, or counts down.
UsingPcs == {"reading", "starting", "pushing", "receiving", "missing", "closing"}
ServerKeeps(p, w) ==
  /\ server[p][w].pc \in UsingPcs /\ ServerGoesTo(p, w, UsingPcs)
  /\ LessHeld
  /\ UNCHANGED <<acceptor, m_socket_fd_counts, m_socket_fd_queue, fds, stolen>>
ServerCloses(p, w) ==
  /\ server[p][w].pc \in UsingPcs /\ ServerGoesTo(p, w, {"closing again", "counting"})
  /\ \E h \in BOOLEAN : CloseConn(p, server[p][w].fd, h)
  /\ UNCHANGED <<acceptor, m_socket_fd_counts, m_socket_fd_queue, backlog, stolen>>
ServerClosesAgain(p, w) ==
  /\ server[p][w].pc = "closing again" /\ ServerGoesTo(p, w, {"counting"})
  /\ CloseConn(p, server[p][w].fd, FALSE)
  /\ stolen' = IF fds[p][server[p][w].fd] # Free THEN stolen \cup {p} ELSE stolen
  /\ UNCHANGED <<acceptor, m_socket_fd_counts, m_socket_fd_queue, backlog>>
ServerKind(p, w) ==
  \/ ServerKeeps(p, w) \/ ServerCloses(p, w) \/ ServerClosesAgain(p, w)
  \/ TakeSocket(p, w) \/ CountDown(p, w)

LEMMA ServerKinds ==
  ASSUME NetType, ConnsInv, ServerType, ServerWorkers, NEW p \in Peers, NEW w \in ServerThreads,
         ServerStep(p, w)
  PROVE  \/ Crash(p)
         \/ ServerKind(p, w) /\ UNCHANGED <<wanted, clientVars, shared, stored, lifeVars>>
<1> DEFINE Rest == UNCHANGED <<wanted, clientVars, shared, stored, lifeVars>>
           Still == UNCHANGED <<acceptor, m_socket_fd_counts, m_socket_fd_queue, backlog>>
<1>0. ASSUME server[p][w].pc # "idle"
      PROVE  /\ server[p][w].fd \in FdNums /\ server[p][w].n \in Nat
             /\ server[p][w].req \in Requests \cup {NoRequest}
             /\ server[p][w].pc \in {"starting", "pushing", "receiving"} =>
                  server[p][w].req \in Requests /\ server[p][w].req.file \in Files
  BY <1>0, ServerIs DEF Worker
<1>1. CASE TakeSocket(p, w)
  BY <1>1 DEF TakeSocket, ServerKind, diskVars
<1>2. CASE ReadRequest(p, w)
  <2>0. /\ server[p][w].pc = "reading" /\ server[p][w].pc # "idle" /\ Rest /\ Still
        /\ UNCHANGED <<fds, stolen>> /\ Receives(p, server[p][w].fd)
    BY <1>2 DEF ReadRequest
  <2>1. PICK req \in Requests : req = Conn(p, server[p][w].fd).req
    <3>1. Connected(p, server[p][w].fd)
      BY <2>0 DEF Receives
    <3>2. Conn(p, server[p][w].fd) \in Connection
      BY <1>0, <2>0, <3>1, ConnIs
    <3> QED  BY <3>2 DEF Connection
  <2>2. \/ server' = [server EXCEPT ![p][w].pc = "starting", ![p][w].req = req]
        \/ server' = [server EXCEPT ![p][w].pc = "pushing", ![p][w].req = req]
        \/ server' = [server EXCEPT ![p][w].pc = "missing"]
    BY <1>2, <2>1 DEF ReadRequest
  <2>3. ServerGoesTo(p, w, {"starting"}) \/ ServerGoesTo(p, w, {"pushing"}) \/ ServerGoesTo(p, w, {"missing"})
    <3>1. CASE server' = [server EXCEPT ![p][w].pc = "starting", ![p][w].req = req]
      BY <1>0, <2>0, <3>1, ServerGoing DEF ServerPcs
    <3>2. CASE server' = [server EXCEPT ![p][w].pc = "pushing", ![p][w].req = req]
      BY <1>0, <2>0, <3>2, ServerGoing DEF ServerPcs
    <3>3. CASE server' = [server EXCEPT ![p][w].pc = "missing"]
      BY <1>0, <2>0, <3>3, ServerGoing DEF ServerPcs
    <3> QED  BY <2>2, <3>1, <3>2, <3>3
  <2>4. LessHeld
    BY <1>0, <2>0, ReceivesLess
  <2> QED  BY <2>0, <2>3, <2>4 DEF ServerKind, ServerKeeps, ServerGoesTo, UsingPcs
<1>3. CASE ReadFails(p, w)
  <2>0. /\ server[p][w].pc = "reading" /\ server[p][w].pc # "idle" /\ Rest /\ Still
        /\ UNCHANGED stolen /\ Close(p, server[p][w].fd)
    BY <1>3 DEF ReadFails, diskVars
  <2>1. ServerGoesTo(p, w, {"counting"})
    BY <1>0, <1>3, <2>0, ServerGoing DEF ReadFails, ServerGoes, ServerPcs
  <2> QED  BY <2>0, <2>1 DEF ServerKind, ServerCloses, ServerGoesTo, UsingPcs, Close
<1>4. CASE SendBlock(p, w)
  <2>0. /\ server[p][w].pc = "pushing" /\ server[p][w].pc # "idle" /\ Rest /\ Still
        /\ UNCHANGED <<fds, stolen>>
    BY <1>4 DEF SendBlock, diskVars
  <2>1. PICK me : me = server[p][w]
    OBVIOUS
  <2>2. me.n \in Nat /\ me.fd \in FdNums /\ me.req \in Requests /\ me.req.file \in Files
    BY <1>0, <2>0, <2>1
  <2>3. CASE /\ SendsOrNot(p, me.fd, Block(me.req.file, me.n + 1))
             /\ server' = [server EXCEPT ![p][w].n = me.n + 1]
    <3>1. me.n + 1 \in Nat /\ "pushing" \in ServerPcs
      BY <2>2 DEF ServerPcs
    <3>2. ServerGoesTo(p, w, {"pushing"})
      BY <2>0, <2>1, <2>2, <2>3, <3>1, ServerGoing
    <3>3. LessHeld
      BY <2>0, <2>2, <2>3, <3>1, ItemsAre, SendsLess
    <3> QED  BY <2>0, <3>2, <3>3 DEF ServerKind, ServerKeeps, ServerGoesTo, UsingPcs
  <2>4. CASE /\ ServerGoes(p, w, "closing")
             /\ IF Connected(p, me.fd)
                THEN Changes(p, me.fd, [Conn(p, me.fd) EXCEPT !.shut[Side(p, me.fd)] = TRUE])
                ELSE UNCHANGED conns
    <3>1. ServerGoesTo(p, w, {"closing"})
      BY <1>0, <2>0, <2>4, ServerGoing DEF ServerGoes, ServerPcs
    <3>2. LessHeld
      <4>1. CASE Connected(p, me.fd)
        BY <2>0, <2>2, <2>4, <4>1, ShutsLess
      <4>2. CASE ~Connected(p, me.fd)
        BY <2>0, <2>4, <4>2, NetRests DEF netVars
      <4> QED  BY <4>1, <4>2
    <3> QED  BY <2>0, <3>1, <3>2 DEF ServerKind, ServerKeeps, ServerGoesTo, UsingPcs
  <2> QED  BY <1>4, <2>1, <2>3, <2>4 DEF SendBlock
<1>5. CASE SendStart(p, w)
  <2>0. /\ server[p][w].pc = "starting" /\ server[p][w].pc # "idle" /\ Rest /\ Still
        /\ UNCHANGED <<fds, stolen>> /\ SendsOrNot(p, server[p][w].fd, Start)
    BY <1>5 DEF SendStart, diskVars
  <2>1. ServerGoesTo(p, w, {"receiving"})
    BY <1>0, <1>5, <2>0, ServerGoing DEF SendStart, ServerGoes, ServerPcs
  <2>2. LessHeld
    BY <1>0, <2>0, ItemsAre, SendsLess
  <2> QED  BY <2>0, <2>1, <2>2 DEF ServerKind, ServerKeeps, ServerGoesTo, UsingPcs
<1>6. CASE ReceiveBlock(p, w)
  <2>0. /\ server[p][w].pc = "receiving" /\ server[p][w].pc # "idle" /\ Rest /\ Still
        /\ UNCHANGED <<server, fds, stolen>> /\ Receives(p, server[p][w].fd)
    BY <1>6 DEF ReceiveBlock, serverVars
  <2>1. ServerGoesTo(p, w, {"receiving"})
    <3>1. server' = [server EXCEPT ![p][w] = server[p][w]]
      BY <2>0 DEF ServerType
    <3>2. server[p][w] \in Worker /\ server[p][w].req \in Requests
      BY <2>0, ServerIs
    <3> QED  BY <2>0, <3>1, <3>2 DEF ServerGoesTo
  <2>2. LessHeld
    BY <1>0, <2>0, ReceivesLess
  <2> QED  BY <2>0, <2>1, <2>2 DEF ServerKind, ServerKeeps, ServerGoesTo, UsingPcs
<1>7. CASE EndReceive(p, w)
  <2>0. /\ server[p][w].pc = "receiving" /\ server[p][w].pc # "idle" /\ Rest /\ Still
        /\ UNCHANGED stolen /\ Close(p, server[p][w].fd)
    BY <1>7 DEF EndReceive, diskVars
  <2>1. ServerGoesTo(p, w, {"closing again"})
    BY <1>0, <1>7, <2>0, ServerGoing DEF EndReceive, ServerGoes, ServerPcs
  <2> QED  BY <2>0, <2>1 DEF ServerKind, ServerCloses, ServerGoesTo, UsingPcs, Close
<1>8. CASE CloseClient(p, w)
  <2>0. /\ server[p][w].pc \in {"missing", "closing", "closing again"} /\ server[p][w].pc # "idle"
        /\ Rest /\ Still
        /\ CloseConn(p, server[p][w].fd, server[p][w].pc = "missing")
        /\ stolen' = IF server[p][w].pc = "closing again" /\ fds[p][server[p][w].fd] # Free
                     THEN stolen \cup {p} ELSE stolen
    BY <1>8 DEF CloseClient, diskVars
  <2>1. ServerGoesTo(p, w, {"counting"})
    BY <1>0, <1>8, <2>0, ServerGoing DEF CloseClient, ServerGoes, ServerPcs
  <2>2. CASE server[p][w].pc = "closing again"
    <3>1. (server[p][w].pc = "missing") = FALSE
      BY <2>2
    <3> QED  BY <2>0, <2>1, <2>2, <3>1 DEF ServerKind, ServerClosesAgain
  <2>3. CASE server[p][w].pc # "closing again"
    <3>1. (server[p][w].pc = "missing") \in BOOLEAN
      OBVIOUS
    <3>2. stolen' = stolen /\ server[p][w].pc \in UsingPcs
      BY <2>0, <2>3 DEF UsingPcs
    <3>3. ServerGoesTo(p, w, {"closing again", "counting"})
      BY <2>1 DEF ServerGoesTo
    <3> QED  BY <2>0, <3>1, <3>2, <3>3 DEF ServerKind, ServerCloses
  <2> QED  BY <2>2, <2>3
<1>9. CASE CountDown(p, w)
  BY <1>9 DEF CountDown, ServerKind, diskVars
<1>10. CASE StoiThrows(p, w) \/ ServerBreaksPipe(p, w)
  BY <1>10 DEF StoiThrows, ServerBreaksPipe
<1> QED
  BY <1>1, <1>2, <1>3, <1>4, <1>5, <1>6, <1>7, <1>8, <1>9, <1>10 DEF ServerStep

\* One worker changes.
LEMMA ServerSet ==
  ASSUME ServerType, ServerWorkers, NEW p \in Peers, NEW w \in ServerThreads,
         NEW me \in Worker, GoodServer(me), server' = [server EXCEPT ![p][w] = me]
  PROVE  /\ server' \in [Peers -> [ServerThreads -> Worker]]
         /\ \A q \in Peers, u \in ServerThreads :
              /\ server'[q][u] = IF q = p /\ u = w THEN me ELSE server[q][u]
              /\ GoodServer(server'[q][u])
<1>1. server' \in [Peers -> [ServerThreads -> Worker]]
  BY DEF ServerType
<1>2. \A q \in Peers, u \in ServerThreads :
        server'[q][u] = IF q = p /\ u = w THEN me ELSE server[q][u]
  BY DEF ServerType
<1>3. \A q \in Peers, u \in ServerThreads : GoodServer(server[q][u])
  BY DEF ServerWorkers
<1> QED  BY <1>1, <1>2, <1>3

\* The workers that have a descriptor.
Busy(p) == {w \in ServerThreads : server[p][w] # Idle}
LEMMA BusyIs ==
  ASSUME NEW p \in Peers
  PROVE  IsFiniteSet(Busy(p)) /\ Cardinality(Busy(p)) \in Nat
<1>1. Busy(p) \subseteq ServerThreads
  BY DEF Busy
<1>2. IsFiniteSet(Busy(p))
  BY <1>1, ThreadsAssumption, FS_Subset
<1> QED  BY <1>2, FS_CardinalityType

\* What CountExact says of a peer.
CountOf(p) == Len(m_socket_fd_queue[p]) + Cardinality(Busy(p))
              + IF acceptor[p].pc = "enqueuing" THEN 1 ELSE 0
LEMMA CountIs ==
  CountExact <=> \A p \in Peers : /\ m_socket_fd_counts[p] = CountOf(p)
                                  /\ m_socket_fd_counts[p] <= Limit + 1
BY DEF CountExact, CountOf, Busy

\* A worker goes from descriptor to descriptor, takes one or counts down.
LEMMA ServerSteps ==
  ASSUME ServerType, ServerWorkers, CountExact, NEW p \in Peers, NEW w \in ServerThreads,
         ServerKind(p, w)
  PROVE  ServerType' /\ ServerWorkers' /\ CountExact'
<1>0. \A q \in Peers : /\ m_socket_fd_counts[q] = CountOf(q) /\ m_socket_fd_counts[q] <= Limit + 1
                       /\ m_socket_fd_counts[q] \in Nat /\ Cardinality(Busy(q)) \in Nat
  BY CountIs, BusyIs DEF ServerType
<1>1. ASSUME NEW pcs \in SUBSET ServerPcs, ServerGoesTo(p, w, pcs), server[p][w].pc # "idle",
             UNCHANGED <<acceptor, m_socket_fd_counts, m_socket_fd_queue>>
      PROVE  ServerType' /\ ServerWorkers' /\ CountExact'
  <2>1. PICK me \in Worker :
          /\ server' = [server EXCEPT ![p][w] = me]
          /\ me.fd = server[p][w].fd /\ me.pc \in pcs
          /\ me.pc \in {"starting", "pushing", "receiving"} => me.req \in Requests
    BY <1>1 DEF ServerGoesTo
  <2>2. GoodServer(me) /\ me # Idle
    <3>1. me.pc # "idle"
      BY <1>1, <2>1 DEF ServerPcs
    <3> QED  BY <1>1, <2>1, <3>1, ServerIs, IdleIs DEF GoodServer
  <2>3. /\ server' \in [Peers -> [ServerThreads -> Worker]]
        /\ \A q \in Peers, u \in ServerThreads :
             /\ server'[q][u] = IF q = p /\ u = w THEN me ELSE server[q][u]
             /\ GoodServer(server'[q][u])
    BY <2>1, <2>2, ServerSet
  <2>4. ServerType' /\ ServerWorkers'
    BY <1>1, <2>3 DEF ServerType, ServerWorkers
  <2>5. ASSUME NEW q \in Peers  PROVE Busy(q)' = Busy(q)
    <3>1. server[p][w] # Idle
      BY <1>1, ServerIs
    <3> QED  BY <2>2, <2>3, <3>1 DEF Busy
  <2>6. CountExact'
    BY <1>1, <2>5 DEF CountExact, Busy
  <2> QED  BY <2>4, <2>6
<1>2. CASE ServerKeeps(p, w)
  <2>1. UsingPcs \in SUBSET ServerPcs /\ server[p][w].pc # "idle"
    BY <1>2 DEF UsingPcs, ServerPcs, ServerKeeps
  <2> QED  BY <1>1, <1>2, <2>1 DEF ServerKeeps
<1>3. CASE ServerCloses(p, w) \/ ServerClosesAgain(p, w)
  <2>1. {"closing again", "counting"} \in SUBSET ServerPcs /\ server[p][w].pc # "idle"
    BY <1>3 DEF UsingPcs, ServerPcs, ServerCloses, ServerClosesAgain
  <2>2. ServerGoesTo(p, w, {"closing again", "counting"})
    BY <1>3 DEF ServerGoesTo, ServerCloses, ServerClosesAgain
  <2> QED  BY <1>1, <1>3, <2>1, <2>2 DEF ServerCloses, ServerClosesAgain
<1>4. CASE TakeSocket(p, w)
  <2>0. m_socket_fd_queue[p] \in Seq(FdNums) /\ m_socket_fd_queue[p] # <<>> /\ server[p][w] = Idle
        /\ m_socket_fd_queue' = [m_socket_fd_queue EXCEPT ![p] = Tail(m_socket_fd_queue[p])]
        /\ UNCHANGED <<acceptor, m_socket_fd_counts>>
    BY <1>4 DEF TakeSocket, ServerType
  <2>1. PICK fd \in FdNums : fd = Head(m_socket_fd_queue[p])
    BY <2>0, TailInjective
  <2>2. PICK me : me = [Idle EXCEPT !.pc = "reading", !.fd = fd]
    OBVIOUS
  <2>3. me \in Worker /\ GoodServer(me) /\ me # Idle /\ me.fd = fd /\ me.pc = "reading"
    <3>1. me \in Worker /\ me.fd = fd /\ me.pc = "reading"
      BY <2>2, IdleIs DEF Worker
    <3> QED  BY <3>1, IdleIs DEF GoodServer, ServerPcs
  <2>4. server' = [server EXCEPT ![p][w] = me]
    <3>1. server' = [server EXCEPT ![p][w].pc = "reading", ![p][w].fd = fd]
      BY <1>4, <2>1 DEF TakeSocket
    <3>2. me = [server[p][w] EXCEPT !.pc = "reading", !.fd = fd]
      BY <2>0, <2>2
    <3> QED  BY <3>1, <3>2 DEF ServerType
  <2>5. /\ server' \in [Peers -> [ServerThreads -> Worker]]
        /\ \A q \in Peers, u \in ServerThreads :
             /\ server'[q][u] = IF q = p /\ u = w THEN me ELSE server[q][u]
             /\ GoodServer(server'[q][u])
    BY <2>3, <2>4, ServerSet
  <2>6. /\ Tail(m_socket_fd_queue[p]) \in Seq(FdNums)
        /\ Len(m_socket_fd_queue[p]) = Len(Tail(m_socket_fd_queue[p])) + 1
        /\ Len(Tail(m_socket_fd_queue[p])) \in Nat
    BY <2>0, TailInjective
  <2>7. ServerType' /\ ServerWorkers'
    <3>1. m_socket_fd_queue' \in [Peers -> Seq(FdNums)]
      BY <2>0, <2>6 DEF ServerType
    <3> QED  BY <2>0, <2>5, <3>1 DEF ServerType, ServerWorkers
  <2>8. ASSUME NEW q \in Peers  PROVE CountOf(q)' = CountOf(q)
    <3>1. CASE q # p
      <4>1. Busy(q)' = Busy(q)
        BY <2>5, <3>1 DEF Busy
      <4>2. m_socket_fd_queue'[q] = m_socket_fd_queue[q] /\ acceptor'[q] = acceptor[q]
        BY <2>0, <3>1 DEF ServerType
      <4> QED  BY <4>1, <4>2 DEF CountOf
    <3>2. CASE q = p
      <4>1. Busy(p)' = Busy(p) \cup {w} /\ w \notin Busy(p)
        BY <2>0, <2>3, <2>5 DEF Busy
      <4>2. Cardinality(Busy(p)') = Cardinality(Busy(p)) + 1
        BY <4>1, BusyIs, FS_AddElement
      <4>3. m_socket_fd_queue'[p] = Tail(m_socket_fd_queue[p]) /\ acceptor'[p] = acceptor[p]
        BY <2>0 DEF ServerType
      <4> QED  BY <1>0, <2>6, <3>2, <4>2, <4>3 DEF CountOf
    <3> QED  BY <3>1, <3>2
  <2>9. CountExact'
    <3>1. \A q \in Peers : m_socket_fd_counts'[q] = CountOf(q)' /\ m_socket_fd_counts'[q] <= Limit + 1
      BY <1>0, <2>0, <2>8
    <3> QED  BY <3>1 DEF CountExact, CountOf, Busy
  <2> QED  BY <2>7, <2>9
<1>5. CASE CountDown(p, w)
  <2>0. server[p][w].pc = "counting" /\ server' = [server EXCEPT ![p][w] = Idle]
        /\ m_socket_fd_counts' = [m_socket_fd_counts EXCEPT ![p] = m_socket_fd_counts[p] - 1]
        /\ UNCHANGED <<acceptor, m_socket_fd_queue>>
    BY <1>5 DEF CountDown
  <2>1. server[p][w] # Idle
    BY <2>0, IdleIs
  <2>2. /\ server' \in [Peers -> [ServerThreads -> Worker]]
        /\ \A q \in Peers, u \in ServerThreads :
             /\ server'[q][u] = IF q = p /\ u = w THEN Idle ELSE server[q][u]
             /\ GoodServer(server'[q][u])
    BY <2>0, IdleIs, ServerSet DEF GoodServer
  <2>3. ASSUME NEW q \in Peers
        PROVE  /\ m_socket_fd_counts'[q] = CountOf(q)' /\ m_socket_fd_counts'[q] <= Limit + 1
               /\ m_socket_fd_counts'[q] \in Nat
    <3>1. CASE q # p
      <4>1. Busy(q)' = Busy(q)
        BY <2>2, <3>1 DEF Busy
      <4>2. m_socket_fd_counts'[q] = m_socket_fd_counts[q]
        BY <2>0, <3>1 DEF ServerType
      <4> QED  BY <1>0, <2>0, <4>1, <4>2 DEF CountOf
    <3>2. CASE q = p
      <4>1. Busy(p)' = Busy(p) \ {w} /\ w \in Busy(p)
        BY <2>1, <2>2 DEF Busy
      <4>2. Cardinality(Busy(p)') = Cardinality(Busy(p)) - 1
        BY <4>1, BusyIs, FS_RemoveElement
      <4>3. Cardinality(Busy(p)) > 0
        <5>1. Cardinality(Busy(p)) # 0
          BY <4>1, BusyIs, FS_EmptySet
        <5> QED  BY <1>0, <5>1
      <4>4. Len(m_socket_fd_queue[p]) \in Nat
        BY LenProperties DEF ServerType
      <4>5. m_socket_fd_counts'[p] = m_socket_fd_counts[p] - 1
        BY <2>0 DEF ServerType
      <4>6. m_socket_fd_counts[p] = CountOf(p) /\ m_socket_fd_counts[p] \in Nat
            /\ m_socket_fd_counts[p] <= Limit + 1 /\ Limit \in Nat
        BY <1>0, NumbersAssumption
      <4>7. CountOf(p)' = CountOf(p) - 1 /\ CountOf(p) > 0
        BY <1>0, <2>0, <4>2, <4>3, <4>4 DEF CountOf
      <4> QED  BY <3>2, <4>5, <4>6, <4>7
    <3> QED  BY <3>1, <3>2
  <2>4. ServerType' /\ ServerWorkers'
    <3>1. m_socket_fd_counts' \in [Peers -> Nat]
      <4>1. m_socket_fd_counts' = [q \in Peers |-> m_socket_fd_counts'[q]]
        BY <2>0 DEF ServerType
      <4> QED  BY <2>3, <4>1
    <3> QED  BY <2>0, <2>2, <3>1 DEF ServerType, ServerWorkers
  <2>5. CountExact'
    BY <2>3 DEF CountExact, CountOf, Busy
  <2> QED  BY <2>4, <2>5
<1> QED  BY <1>2, <1>3, <1>4, <1>5 DEF ServerKind

\* The accept loop.
LEMMA AcceptSteps ==
  ASSUME ServerType, ServerWorkers, CountExact, NEW p \in Peers, AcceptStep(p)
  PROVE  ServerType' /\ ServerWorkers' /\ CountExact'
<1>0. \A q \in Peers : /\ m_socket_fd_counts[q] = CountOf(q) /\ m_socket_fd_counts[q] <= Limit + 1
                       /\ m_socket_fd_counts[q] \in Nat /\ Cardinality(Busy(q)) \in Nat
                       /\ m_socket_fd_queue[q] \in Seq(FdNums) /\ Len(m_socket_fd_queue[q]) \in Nat
                       /\ acceptor[q] \in Worker
  BY CountIs, BusyIs, LenProperties DEF ServerType
<1>1. UNCHANGED server /\ \A q \in Peers : Busy(q)' = Busy(q)
  BY DEF AcceptStep, Accept, TestLimit, EnqueueSocket, Busy
<1>2. \E me \in Worker : GoodAcceptor(me) /\ acceptor' = [acceptor EXCEPT ![p] = me]
        /\ \/ /\ Accept(p) \/ (TestLimit(p) /\ UNCHANGED m_socket_fd_counts)
              /\ acceptor[p].pc # "enqueuing" /\ me.pc # "enqueuing"
              /\ UNCHANGED <<m_socket_fd_counts, m_socket_fd_queue>>
           \/ /\ acceptor[p].pc = "testing" /\ me.pc = "enqueuing"
              /\ m_socket_fd_counts[p] <= Limit
              /\ m_socket_fd_counts' = [m_socket_fd_counts EXCEPT ![p] = m_socket_fd_counts[p] + 1]
              /\ UNCHANGED m_socket_fd_queue
           \/ /\ acceptor[p].pc = "enqueuing" /\ me.pc = "idle" /\ acceptor[p].fd \in FdNums
              /\ m_socket_fd_queue' = [m_socket_fd_queue EXCEPT
                                         ![p] = Append(m_socket_fd_queue[p], acceptor[p].fd)]
              /\ UNCHANGED m_socket_fd_counts
  <2>0. GoodAcceptor(acceptor[p]) /\ Idle \in Worker /\ GoodAcceptor(Idle)
    BY IdleIs DEF ServerWorkers, GoodAcceptor
  <2>1. CASE Accept(p)
    <3>1. PICK fd \in FdNums : acceptor' = [acceptor EXCEPT ![p].pc = "testing", ![p].fd = fd]
      BY <2>1 DEF Accept
    <3>2. acceptor[p] = Idle /\ UNCHANGED <<m_socket_fd_counts, m_socket_fd_queue>>
      BY <2>1 DEF Accept
    <3>3. PICK me : me = [Idle EXCEPT !.pc = "testing", !.fd = fd]
      OBVIOUS
    <3>4. me \in Worker /\ GoodAcceptor(me) /\ me.pc = "testing"
      <4>1. me \in Worker /\ me.fd = fd /\ me.pc = "testing"
        BY <3>3, IdleIs DEF Worker
      <4> QED  BY <4>1 DEF GoodAcceptor
    <3>5. me = [acceptor[p] EXCEPT !.pc = "testing", !.fd = fd]
      BY <3>2, <3>3
    <3>6. acceptor' = [acceptor EXCEPT ![p] = me]
      BY <3>1, <3>5 DEF ServerType
    <3> QED  BY <2>1, <3>2, <3>4, <3>6, IdleIs
  <2>2. CASE TestLimit(p)
    <3>0. acceptor[p].pc = "testing" /\ UNCHANGED m_socket_fd_queue
      BY <2>2 DEF TestLimit
    <3>1. CASE acceptor' = [acceptor EXCEPT ![p] = Idle] /\ UNCHANGED m_socket_fd_counts
      BY <2>0, <2>2, <3>0, <3>1, IdleIs
    <3>2. CASE /\ m_socket_fd_counts[p] <= Limit
               /\ m_socket_fd_counts' = [m_socket_fd_counts EXCEPT ![p] = @ + 1]
               /\ acceptor' = [acceptor EXCEPT ![p].pc = "enqueuing"]
      <4>1. PICK me : me = [acceptor[p] EXCEPT !.pc = "enqueuing"]
        OBVIOUS
      <4>2. acceptor[p] # Idle /\ acceptor[p].fd \in FdNums
        BY <2>0, <3>0, IdleIs DEF GoodAcceptor
      <4>3. me \in Worker /\ me.pc = "enqueuing" /\ me.fd = acceptor[p].fd
        BY <1>0, <4>1 DEF Worker
      <4>4. GoodAcceptor(me) /\ acceptor' = [acceptor EXCEPT ![p] = me]
        BY <3>2, <4>1, <4>2, <4>3 DEF GoodAcceptor
      <4> QED  BY <3>0, <3>2, <4>3, <4>4
    <3> QED  BY <2>2, <3>1, <3>2 DEF TestLimit
  <2>3. CASE EnqueueSocket(p)
    <3>1. acceptor[p].fd \in FdNums
      BY <2>0, <2>3, IdleIs DEF EnqueueSocket, GoodAcceptor
    <3> QED  BY <2>0, <2>3, <3>1, IdleIs DEF EnqueueSocket
  <2> QED  BY <2>1, <2>2, <2>3 DEF AcceptStep
<1>3. PICK me \in Worker : GoodAcceptor(me) /\ acceptor' = [acceptor EXCEPT ![p] = me]
        /\ \/ /\ acceptor[p].pc # "enqueuing" /\ me.pc # "enqueuing"
              /\ UNCHANGED <<m_socket_fd_counts, m_socket_fd_queue>>
           \/ /\ acceptor[p].pc = "testing" /\ me.pc = "enqueuing"
              /\ m_socket_fd_counts[p] <= Limit
              /\ m_socket_fd_counts' = [m_socket_fd_counts EXCEPT ![p] = m_socket_fd_counts[p] + 1]
              /\ UNCHANGED m_socket_fd_queue
           \/ /\ acceptor[p].pc = "enqueuing" /\ me.pc = "idle" /\ acceptor[p].fd \in FdNums
              /\ m_socket_fd_queue' = [m_socket_fd_queue EXCEPT
                                         ![p] = Append(m_socket_fd_queue[p], acceptor[p].fd)]
              /\ UNCHANGED m_socket_fd_counts
  BY <1>2
<1>4. /\ acceptor' \in [Peers -> Worker]
      /\ \A q \in Peers : acceptor'[q] = IF q = p THEN me ELSE acceptor[q]
  BY <1>3 DEF ServerType
<1>5. m_socket_fd_counts' \in [Peers -> Nat]
  BY <1>0, <1>3 DEF ServerType
<1>6. /\ Append(m_socket_fd_queue[p], acceptor[p].fd) \in Seq(FdNums)
      /\ Len(Append(m_socket_fd_queue[p], acceptor[p].fd)) = Len(m_socket_fd_queue[p]) + 1
      \/ acceptor[p].fd \notin FdNums
  BY <1>0, AppendProperties
<1>7. m_socket_fd_queue' \in [Peers -> Seq(FdNums)]
  BY <1>3, <1>6 DEF ServerType
<1>8. ServerType'
  BY <1>1, <1>4, <1>5, <1>7 DEF ServerType
<1>9. ServerWorkers'
  BY <1>1, <1>3, <1>4 DEF ServerWorkers
<1>10. ASSUME NEW q \in Peers
       PROVE  m_socket_fd_counts'[q] = CountOf(q)' /\ m_socket_fd_counts'[q] <= Limit + 1
  <2>1. CASE q # p
    <3>1. /\ m_socket_fd_counts'[q] = m_socket_fd_counts[q] /\ acceptor'[q] = acceptor[q]
          /\ m_socket_fd_queue'[q] = m_socket_fd_queue[q]
      BY <1>3, <1>4, <2>1 DEF ServerType
    <3> QED  BY <1>0, <1>1, <3>1 DEF CountOf
  <2>2. CASE q = p
    <3>1. CASE /\ acceptor[p].pc # "enqueuing" /\ me.pc # "enqueuing"
               /\ UNCHANGED <<m_socket_fd_counts, m_socket_fd_queue>>
      BY <1>0, <1>1, <1>4, <2>2, <3>1 DEF CountOf
    <3>2. CASE /\ acceptor[p].pc = "testing" /\ me.pc = "enqueuing"
               /\ m_socket_fd_counts[p] <= Limit
               /\ m_socket_fd_counts' = [m_socket_fd_counts EXCEPT ![p] = m_socket_fd_counts[p] + 1]
               /\ UNCHANGED m_socket_fd_queue
      <4>1. m_socket_fd_counts'[p] = m_socket_fd_counts[p] + 1 /\ Limit \in Nat
        BY <3>2, NumbersAssumption DEF ServerType
      <4> QED  BY <1>0, <1>1, <1>4, <2>2, <3>2, <4>1 DEF CountOf
    <3>3. CASE /\ acceptor[p].pc = "enqueuing" /\ me.pc = "idle" /\ acceptor[p].fd \in FdNums
               /\ m_socket_fd_queue' = [m_socket_fd_queue EXCEPT
                                          ![p] = Append(m_socket_fd_queue[p], acceptor[p].fd)]
               /\ UNCHANGED m_socket_fd_counts
      <4>1. Len(m_socket_fd_queue'[p]) = Len(m_socket_fd_queue[p]) + 1
        BY <1>6, <3>3 DEF ServerType
      <4> QED  BY <1>0, <1>1, <1>4, <2>2, <3>3, <4>1 DEF CountOf
    <3> QED  BY <1>3, <3>1, <3>2, <3>3
  <2> QED  BY <2>1, <2>2
<1>11. CountExact'
  BY <1>10 DEF CountExact, CountOf, Busy
<1> QED  BY <1>8, <1>9, <1>11

-----------------------------------------------------------------------------
(* The steps together.                                                     *)

\* What a step may be, for the proofs.
StepOf(p) ==
  \/ Ends(p) \/ Want(p) \/ AcceptStep(p)
  \/ \E t \in ClientThreads :
       ClientKind(p, t) /\ UNCHANGED <<wanted, serverVars, shared, received, lifeVars, stolen>>
  \/ \E w \in ServerThreads :
       ServerKind(p, w) /\ UNCHANGED <<wanted, clientVars, shared, stored, lifeVars>>
  \/ \E f \in Files : RemoveFile(p, f)
StepKind ==
  \/ \E p \in Peers : StepOf(p)
  \/ UNCHANGED <<wanted, clientVars, serverVars, netVars, diskVars, stolen>>
LEMMA StepKinds ==
  ASSUME NetType, ConnsInv, ClientType, ClientWorkers, ServerType, ServerWorkers, [Next]_vars
  PROVE  StepKind
<1>1. CASE UNCHANGED vars
  BY <1>1 DEF StepKind, StepOf, vars
<1>2. ASSUME NEW p \in Peers, Want(p) \/ Kill(p) \/ Run(p) \/ AcceptStep(p)
      PROVE  StepKind
  BY <1>2 DEF StepKind, StepOf, Kill, Run
<1>3. ASSUME NEW p \in Peers, NEW f \in Files, RemoveFile(p, f)
      PROVE  StepKind
  BY <1>3 DEF StepKind, StepOf
<1>4. ASSUME NEW p \in Peers, NEW t \in ClientThreads, ClientStep(p, t)
      PROVE  StepKind
  BY <1>4, ClientKinds DEF StepKind, StepOf, Crash
<1>5. ASSUME NEW p \in Peers, NEW w \in ServerThreads, ServerStep(p, w)
      PROVE  StepKind
  BY <1>5, ServerKinds DEF StepKind, StepOf, Crash
<1> QED  BY <1>1, <1>2, <1>3, <1>4, <1>5 DEF Next

\* Descriptors and connections: their types, and ConnsInv.
LEMMA NetNext ==
  ASSUME NetType, ConnsInv, ClientType, ClientWorkers, ServerType, ServerWorkers, StepKind
  PROVE  NetType' /\ ConnsInv'
<1>1. ASSUME NEW p \in Peers, Ends(p)
      PROVE  NetType' /\ ConnsInv'
  BY <1>1, EndsLess, LessHeldKeeps
<1>2. ASSUME NEW p \in Peers, AcceptStep(p)
      PROVE  NetType' /\ ConnsInv'
  <2>1. CASE Accept(p)
    <3>1. PICK fd \in FdNums : Opens(p, fd, [conn |-> Head(backlog[p]), side |-> "server"])
      BY <2>1 DEF Accept
    <3>2. backlog[p] # <<>> /\ UNCHANGED conns /\ backlog' = [backlog EXCEPT ![p] = Tail(backlog[p])]
      BY <2>1 DEF Accept
    <3> QED  BY <3>1, <3>2, AcceptKeeps
  <2>2. CASE TestLimit(p)
    <3>1. acceptor[p].fd \in FdNums
      BY <2>2, IdleIs DEF TestLimit, ServerWorkers, GoodAcceptor
    <3>2. UNCHANGED backlog /\ (CloseConn(p, acceptor[p].fd, TRUE) \/ UNCHANGED <<fds, conns>>)
      BY <2>2 DEF TestLimit
    <3> QED  BY <3>1, <3>2, CloseLess, NetRests, LessHeldKeeps DEF netVars
  <2>3. CASE EnqueueSocket(p)
    BY <2>3, NetRests, LessHeldKeeps DEF EnqueueSocket
  <2> QED  BY <1>2, <2>1, <2>2, <2>3 DEF AcceptStep
<1>3. ASSUME NEW p \in Peers, NEW t \in ClientThreads, ClientKind(p, t)
      PROVE  NetType' /\ ConnsInv'
  <2>1. CASE ClientTries(p, t) \/ ClientRequeues(p, t) \/ ClientLeaks(p, t)
    BY <2>1, NetRests, LessHeldKeeps DEF ClientTries, ClientRequeues, ClientLeaks
  <2>2. CASE ClientKeeps(p, t)
    BY <2>2, LessHeldKeeps DEF ClientKeeps
  <2>3. CASE ClientCloses(p, t)
    <3>1. client[p][t].fd \in FdNums
      BY <2>3, ClientIs DEF ClientCloses, ClientUses
    <3> QED  BY <2>3, <3>1, CloseLess, LessHeldKeeps DEF ClientCloses
  <2>4. CASE TakeRequest(p, t)
    <3>1. PICK fd \in FdNums : Opens(p, fd, Unconnected)
      BY <2>4 DEF TakeRequest
    <3> QED  BY <2>4, <3>1, SocketKeeps DEF TakeRequest
  <2>5. CASE ClientConnects(p, t)
    <3>1. client[p][t].fd \in FdNums /\ client[p][t].req \in Requests /\ client[p][t].req.server # p
      BY <2>5, ClientIs DEF ClientConnects
    <3> QED  BY <2>5, <3>1, ConnectKeeps DEF ClientConnects
  <2> QED  BY <1>3, <2>1, <2>2, <2>3, <2>4, <2>5 DEF ClientKind
<1>4. ASSUME NEW p \in Peers, NEW w \in ServerThreads, ServerKind(p, w)
      PROVE  NetType' /\ ConnsInv'
  <2>1. CASE ServerKeeps(p, w)
    BY <2>1, LessHeldKeeps DEF ServerKeeps
  <2>2. CASE ServerCloses(p, w) \/ ServerClosesAgain(p, w)
    <3>1. server[p][w].fd \in FdNums
      BY <2>2, ServerIs DEF ServerCloses, ServerClosesAgain, UsingPcs
    <3>2. UNCHANGED backlog /\ \E h \in BOOLEAN : CloseConn(p, server[p][w].fd, h)
      BY <2>2 DEF ServerCloses, ServerClosesAgain
    <3> QED  BY <3>1, <3>2, CloseLess, LessHeldKeeps
  <2>3. CASE TakeSocket(p, w) \/ CountDown(p, w)
    BY <2>3, NetRests, LessHeldKeeps DEF TakeSocket, CountDown
  <2> QED  BY <1>4, <2>1, <2>2, <2>3 DEF ServerKind
<1>5. CASE UNCHANGED netVars
  BY <1>5, NetRests, LessHeldKeeps
<1>6. ASSUME NEW p \in Peers, Want(p)
      PROVE  UNCHANGED netVars
  BY <1>6 DEF Want
<1>7. ASSUME NEW p \in Peers, NEW f \in Files, RemoveFile(p, f)
      PROVE  UNCHANGED netVars
  BY <1>7 DEF RemoveFile
<1> QED  BY <1>1, <1>2, <1>3, <1>4, <1>5, <1>6, <1>7 DEF StepKind, StepOf

\* The client: its types, and ClientWorkers.
LEMMA ClientNext ==
  ASSUME NetType, ConnsInv, ClientType, ClientWorkers, ServerType, ServerWorkers, [Next]_vars, StepKind
  PROVE  ClientType' /\ ClientWorkers'
<1>0. /\ wanted \in [Peers -> Seq(Requests)] /\ m_request_queue \in [Peers -> Seq(Requests)]
      /\ client \in [Peers -> [ClientThreads -> Worker]]
      /\ \A q \in Peers : \A req \in Range(wanted[q]) \cup Range(m_request_queue[q]) : req.server # q
      /\ \A q \in Peers, t \in ClientThreads : GoodClient(q, client[q][t])
  BY DEF ClientType, ClientWorkers
<1>1. m_obtain_num' \in [Peers -> Nat]
  BY ObtainNumNext
<1>2. ASSUME NEW p \in Peers, Ends(p)
      PROVE  ClientType' /\ ClientWorkers'
  <2>1. /\ m_request_queue' = [m_request_queue EXCEPT ![p] = <<>>] /\ UNCHANGED wanted
        /\ client' = [client EXCEPT ![p] = [t \in ClientThreads |-> Idle]]
    BY <1>2 DEF Ends
  <2>2. m_request_queue' \in [Peers -> Seq(Requests)]
    BY <1>0, <2>1
  <2>3. \A q \in Peers : \A req \in Range(wanted'[q]) \cup Range(m_request_queue'[q]) : req.server # q
    <3>1. Range(<< >>) = {}
      BY DEF Range
    <3> QED  BY <1>0, <2>1, <3>1
  <2>4. client' \in [Peers -> [ClientThreads -> Worker]]
    BY <1>0, <2>1, IdleIs
  <2>5. \A q \in Peers, t \in ClientThreads : GoodClient(q, client'[q][t])
    <3>1. \A q \in Peers, t \in ClientThreads : client'[q][t] = Idle \/ client'[q][t] = client[q][t]
      BY <1>0, <2>1
    <3> QED  BY <1>0, <3>1 DEF GoodClient
  <2> QED  BY <1>1, <2>1, <2>2, <2>3, <2>4, <2>5 DEF ClientType, ClientWorkers
<1>3. ASSUME NEW p \in Peers, Want(p)
      PROVE  ClientType' /\ ClientWorkers'
  <2>1. /\ wanted[p] # <<>> /\ wanted' = [wanted EXCEPT ![p] = Tail(wanted[p])] /\ UNCHANGED client
        /\ m_request_queue' = [m_request_queue EXCEPT ![p] = Append(m_request_queue[p], Head(wanted[p]))]
    BY <1>3 DEF Want, PushFile, ObtainFile
  <2>2. /\ Tail(wanted[p]) \in Seq(Requests) /\ Head(wanted[p]) \in Requests
        /\ Head(wanted[p]) \in Range(wanted[p])
        /\ Range(wanted[p]) = Range(Tail(wanted[p])) \cup {Head(wanted[p])}
    BY <1>0, <2>1, TailInjective
  <2>3. PICK req \in Requests : req = Head(wanted[p])
    BY <2>2
  <2>4. /\ Append(m_request_queue[p], req) \in Seq(Requests)
        /\ \A i \in DOMAIN Append(m_request_queue[p], req) :
             Append(m_request_queue[p], req)[i] \in Range(m_request_queue[p]) \cup {req}
    BY <1>0, AppendProperties, LenProperties DEF Range
  <2>5. Range(Append(m_request_queue[p], req)) \subseteq Range(m_request_queue[p]) \cup {req}
    BY <2>4 DEF Range
  <2>6. m_request_queue' = [m_request_queue EXCEPT ![p] = Append(m_request_queue[p], req)]
    BY <2>1, <2>3
  <2>7. wanted' \in [Peers -> Seq(Requests)] /\ m_request_queue' \in [Peers -> Seq(Requests)]
    BY <1>0, <2>1, <2>2, <2>4, <2>6
  <2>8. \A q \in Peers : /\ Range(wanted'[q]) \subseteq Range(wanted[q])
                         /\ Range(m_request_queue'[q]) \subseteq Range(m_request_queue[q]) \cup Range(wanted[q])
    BY <1>0, <2>1, <2>2, <2>3, <2>5, <2>6
  <2> QED  BY <1>0, <1>1, <2>1, <2>7, <2>8 DEF ClientType, ClientWorkers
<1>4. ASSUME NEW p \in Peers, NEW t \in ClientThreads, ClientKind(p, t), UNCHANGED wanted
      PROVE  ClientType' /\ ClientWorkers'
  BY <1>0, <1>1, <1>4, ClientSteps DEF ClientType, ClientWorkers
<1>5. CASE UNCHANGED <<wanted, clientVars>>
  BY <1>0, <1>1, <1>5 DEF ClientType, ClientWorkers, clientVars
<1>6. ASSUME NEW p \in Peers, AcceptStep(p)
      PROVE  UNCHANGED <<wanted, clientVars>>
  BY <1>6 DEF AcceptStep, Accept, TestLimit, EnqueueSocket
<1>7. ASSUME NEW p \in Peers, NEW f \in Files, RemoveFile(p, f)
      PROVE  UNCHANGED <<wanted, clientVars>>
  BY <1>7 DEF RemoveFile
<1> QED  BY <1>2, <1>3, <1>4, <1>5, <1>6, <1>7 DEF StepKind, StepOf

\* The server: its types, ServerWorkers and the counter.
LEMMA ServerNext ==
  ASSUME ServerType, ServerWorkers, CountExact, StepKind
  PROVE  ServerType' /\ ServerWorkers' /\ CountExact'
<1>1. ASSUME NEW p \in Peers, Ends(p)
      PROVE  ServerType' /\ ServerWorkers' /\ CountExact'
  <2>1. /\ acceptor' = [acceptor EXCEPT ![p] = Idle]
        /\ m_socket_fd_counts' = [m_socket_fd_counts EXCEPT ![p] = 0]
        /\ m_socket_fd_queue' = [m_socket_fd_queue EXCEPT ![p] = <<>>]
        /\ server' = [server EXCEPT ![p] = [w \in ServerThreads |-> Idle]]
    BY <1>1 DEF Ends
  <2>2. acceptor' \in [Peers -> Worker] /\ m_socket_fd_counts' \in [Peers -> Nat]
        /\ m_socket_fd_queue' \in [Peers -> Seq(FdNums)]
    BY <2>1, IdleIs DEF ServerType
  <2>3. server' \in [Peers -> [ServerThreads -> Worker]]
    BY <2>1, IdleIs DEF ServerType
  <2>4. \A q \in Peers : /\ acceptor'[q] = IF q = p THEN Idle ELSE acceptor[q]
                         /\ \A w \in ServerThreads : server'[q][w] = IF q = p THEN Idle ELSE server[q][w]
    BY <2>1 DEF ServerType
  <2>5. ServerWorkers'
    <3>1. GoodAcceptor(Idle) /\ GoodServer(Idle)
      BY DEF GoodAcceptor, GoodServer
    <3>2. \A q \in Peers : /\ GoodAcceptor(acceptor'[q])
                           /\ \A w \in ServerThreads : GoodServer(server'[q][w])
      BY <2>4, <3>1 DEF ServerWorkers
    <3> QED  BY <3>2 DEF ServerWorkers
  <2>6. ASSUME NEW q \in Peers
        PROVE  m_socket_fd_counts'[q] = CountOf(q)' /\ m_socket_fd_counts'[q] <= Limit + 1
    <3>1. CASE q # p
      <4>1. Busy(q)' = Busy(q)
        BY <2>4, <3>1 DEF Busy
      <4>2. /\ acceptor'[q] = acceptor[q] /\ m_socket_fd_counts'[q] = m_socket_fd_counts[q]
            /\ m_socket_fd_queue'[q] = m_socket_fd_queue[q]
        BY <2>1, <3>1 DEF ServerType
      <4> QED  BY <4>1, <4>2, CountIs DEF CountOf
    <3>2. CASE q = p
      <4>1. Busy(p)' = {}
        BY <2>4 DEF Busy
      <4>2. Cardinality(Busy(p)') = 0
        BY <4>1, FS_EmptySet
      <4>3. acceptor'[p].pc = "idle" /\ m_socket_fd_counts'[p] = 0 /\ m_socket_fd_queue'[p] = <<>>
        BY <2>1, IdleIs DEF ServerType
      <4>4. Len(m_socket_fd_queue'[p]) = 0
        BY <4>3
      <4> QED  BY <3>2, <4>2, <4>3, <4>4, NumbersAssumption DEF CountOf
    <3> QED  BY <3>1, <3>2
  <2>7. CountExact'
    BY <2>6 DEF CountExact, CountOf, Busy
  <2> QED  BY <2>2, <2>3, <2>5, <2>7 DEF ServerType
<1>2. CASE UNCHANGED serverVars
  <2>1. UNCHANGED acceptor /\ UNCHANGED m_socket_fd_counts /\ UNCHANGED m_socket_fd_queue /\ UNCHANGED server
    BY <1>2 DEF serverVars
  <2>2. ServerType' /\ ServerWorkers'
    BY <2>1 DEF ServerType, ServerWorkers
  <2>3. CountExact'
    BY <2>1 DEF CountExact
  <2> QED  BY <2>2, <2>3
<1>3. ASSUME NEW p \in Peers, Want(p)
      PROVE  UNCHANGED serverVars
  BY <1>3 DEF Want
<1>4. ASSUME NEW p \in Peers, NEW f \in Files, RemoveFile(p, f)
      PROVE  UNCHANGED serverVars
  BY <1>4 DEF RemoveFile
<1> QED  BY <1>1, <1>2, <1>3, <1>4, ServerSteps, AcceptSteps DEF StepKind, StepOf

\* The disks.
DiskType ==
  /\ shared \in [Peers -> SUBSET Files]
  /\ DOMAIN stored = Peers
  /\ \A p \in Peers : stored[p] \in [(0 .. Len(Wanted[p])) \X Files -> Seq(Items)]
  /\ received \in [Peers -> [Files -> Seq(Items)]]
LEMMA DiskNext ==
  ASSUME NetType, ConnsInv, ClientType, ClientWorkers, ServerType, ServerWorkers, DiskType, [Next]_vars
  PROVE  DiskType'
<1>1. ASSUME NEW p \in Peers, NEW t \in ClientThreads, DownloadBlock(p, t)
      PROVE  DiskType'
  <2>1. client[p][t].fd \in FdNums
    BY <1>1, ClientIs DEF DownloadBlock
  <2>2. PICK item \in Items : item = Head(Incoming(p, client[p][t].fd))
    BY <1>1, <2>1, ReceivesLess DEF DownloadBlock
  <2>3. PICK at : at = <<client[p][t].n, client[p][t].req.file>>
    OBVIOUS
  <2>4. /\ stored' = [stored EXCEPT ![p][at] = Append(stored[p][at], item)]
        /\ UNCHANGED shared /\ UNCHANGED received
    BY <1>1, <2>2, <2>3 DEF DownloadBlock
  <2>5. PICK S : S = (0 .. Len(Wanted[p])) \X Files
    OBVIOUS
  <2>6. stored[p] \in [S -> Seq(Items)]
    BY <2>5 DEF DiskType
  <2>7. at \in S => Append(stored[p][at], item) \in Seq(Items)
    BY <2>6, AppendProperties
  <2>8. [stored[p] EXCEPT ![at] = Append(stored[p][at], item)] \in [S -> Seq(Items)]
    BY <2>6, <2>7
  <2>9. /\ DOMAIN stored' = Peers
        /\ stored'[p] = [stored[p] EXCEPT ![at] = Append(stored[p][at], item)]
        /\ \A q \in Peers : q # p => stored'[q] = stored[q]
    BY <2>4 DEF DiskType
  <2>10. \A q \in Peers : stored'[q] \in [(0 .. Len(Wanted[q])) \X Files -> Seq(Items)]
    BY <2>5, <2>8, <2>9 DEF DiskType
  <2> QED  BY <2>4, <2>9, <2>10 DEF DiskType
<1>2. ASSUME NEW p \in Peers, NEW w \in ServerThreads, ReadRequest(p, w) \/ ReceiveBlock(p, w)
      PROVE  DiskType'
  <2>1. server[p][w].fd \in FdNums
    BY <1>2, ServerIs DEF ReadRequest, ReceiveBlock
  <2>2. PICK item \in Items : item = Head(Incoming(p, server[p][w].fd))
    BY <1>2, <2>1, ReceivesLess DEF ReadRequest, ReceiveBlock
  <2>3. UNCHANGED shared /\ UNCHANGED stored /\ received \in [Peers -> [Files -> Seq(Items)]]
    BY <1>2 DEF ReadRequest, ReceiveBlock, DiskType
  <2>4. received' \in [Peers -> [Files -> Seq(Items)]]
    <3>1. \A f \in Files : Append(received[p][f], item) \in Seq(Items) /\ <<>> \in Seq(Items)
      BY <2>3, AppendProperties
    <3>2. CASE ReceiveBlock(p, w)
      <4>1. PICK f \in Files : f = server[p][w].req.file
        BY <3>2, ServerIs DEF ReceiveBlock
      <4>2. received' = [received EXCEPT ![p][f] = Append(received[p][f], item)]
        BY <2>2, <3>2, <4>1 DEF ReceiveBlock
      <4> QED  BY <2>3, <3>1, <4>2
    <3>3. CASE ReadRequest(p, w)
      <4>1. UNCHANGED received \/ \E f : received' = [received EXCEPT ![p][f] = <<>>]
        BY <3>3 DEF ReadRequest
      <4>2. ASSUME NEW f, received' = [received EXCEPT ![p][f] = <<>>]
            PROVE  received' \in [Peers -> [Files -> Seq(Items)]]
        <5>1. PICK new : new = [received[p] EXCEPT ![f] = <<>>]
          OBVIOUS
        <5>2. new \in [Files -> Seq(Items)]
          <6>1. <<>> \in Seq(Items) /\ received[p] \in [Files -> Seq(Items)]
            BY <2>3
          <6>2. PICK old \in [Files -> Seq(Items)] : old = received[p]
            BY <6>1
          <6>3. PICK none \in Seq(Items) : none = <<>>
            BY <6>1
          <6>4. new = [old EXCEPT ![f] = none]
            BY <5>1, <6>2, <6>3
          <6> QED  BY <6>4
        <5>3. received' = [received EXCEPT ![p] = new]
          BY <4>2, <5>1
        <5> QED  BY <2>3, <5>2, <5>3
      <4> QED  BY <2>3, <4>1, <4>2
    <3> QED  BY <1>2, <3>2, <3>3
  <2> QED  BY <2>3, <2>4 DEF DiskType
<1>3. ASSUME NEW p \in Peers, NEW f \in Files, RemoveFile(p, f)
      PROVE  DiskType'
  <2>1. UNCHANGED stored /\ UNCHANGED received /\ shared' = [shared EXCEPT ![p] = shared[p] \ {f}]
    BY <1>3 DEF RemoveFile
  <2>2. shared' \in [Peers -> SUBSET Files]
    BY <2>1 DEF DiskType
  <2> QED  BY <2>1, <2>2 DEF DiskType
<1>4. CASE UNCHANGED diskVars
  BY <1>4 DEF diskVars, DiskType
<1>5. ASSUME NEW p \in Peers, Ends(p) \/ Want(p) \/ Run(p) \/ AcceptStep(p)
      PROVE  UNCHANGED diskVars
  BY <1>5 DEF Ends, Want, Run, AcceptStep, Accept, TestLimit, EnqueueSocket
<1>6. ASSUME NEW p \in Peers, NEW t \in ClientThreads, ClientStep(p, t)
      PROVE  DiskType'
  <2>1. CASE DownloadBlock(p, t) \/ ClientBreaksPipe(p, t)
    BY <1>1, <1>4, <1>5, <2>1 DEF ClientBreaksPipe, Crash
  <2>2. CASE ~(DownloadBlock(p, t) \/ ClientBreaksPipe(p, t))
    BY <1>4, <1>6, <2>2 DEF ClientStep, TakeRequest, Connect, SendRequest, Requeue, OpenDownload,
       EndDownload, OpenPush, AwaitStart, PushBlock, EndPush
  <2> QED  BY <2>1, <2>2
<1>7. ASSUME NEW p \in Peers, NEW w \in ServerThreads, ServerStep(p, w)
      PROVE  DiskType'
  <2>1. CASE ReadRequest(p, w) \/ ReceiveBlock(p, w) \/ StoiThrows(p, w) \/ ServerBreaksPipe(p, w)
    BY <1>2, <1>4, <1>5, <2>1 DEF StoiThrows, ServerBreaksPipe, Crash
  <2>2. CASE ~(ReadRequest(p, w) \/ ReceiveBlock(p, w) \/ StoiThrows(p, w) \/ ServerBreaksPipe(p, w))
    BY <1>4, <1>7, <2>2 DEF ServerStep, TakeSocket, ReadFails, SendBlock, SendStart,
       EndReceive, CloseClient, CountDown
  <2> QED  BY <2>1, <2>2
<1>8. CASE UNCHANGED vars
  BY <1>4, <1>8 DEF vars
<1> QED  BY <1>3, <1>4, <1>5, <1>6, <1>7, <1>8 DEF Next, Kill

\* The processes.
LifeType ==
  /\ up \subseteq Peers
  /\ kills \in [Peers -> Nat]
  /\ crashed \subseteq Peers
  /\ stolen \subseteq Peers
LEMMA LifeNext ==
  ASSUME NetType, ConnsInv, ClientType, ClientWorkers, ServerType, ServerWorkers, LifeType, [Next]_vars
  PROVE  LifeType'
<1>1. ASSUME NEW p \in Peers, Crash(p) \/ Kill(p) \/ Run(p)
      PROVE  LifeType'
  BY <1>1 DEF Crash, Kill, Run, Ends, LifeType
<1>2. ASSUME NEW p \in Peers, UNCHANGED lifeVars, stolen' = stolen \/ stolen' = stolen \cup {p}
      PROVE  LifeType'
  BY <1>2 DEF lifeVars, LifeType
<1>3. ASSUME NEW p \in Peers, Want(p) \/ AcceptStep(p) \/ \E f \in Files : RemoveFile(p, f)
      PROVE  LifeType'
  BY <1>2, <1>3 DEF Want, AcceptStep, Accept, TestLimit, EnqueueSocket, RemoveFile
<1>4. ASSUME NEW p \in Peers, NEW t \in ClientThreads, ClientStep(p, t)
      PROVE  LifeType'
  BY <1>1, <1>2, <1>4, ClientKinds
<1>5. ASSUME NEW p \in Peers, NEW w \in ServerThreads, ServerStep(p, w)
      PROVE  LifeType'
  <2>1. CASE Crash(p)
    BY <1>1, <2>1
  <2>2. CASE ServerKind(p, w) /\ UNCHANGED lifeVars
    <3>1. stolen' = stolen \/ stolen' = stolen \cup {p}
      BY <2>2 DEF ServerKind, ServerKeeps, ServerCloses, ServerClosesAgain, TakeSocket, CountDown
    <3> QED  BY <1>2, <2>2, <3>1
  <2> QED  BY <1>5, <2>1, <2>2, ServerKinds
<1>6. CASE UNCHANGED vars
  BY <1>6 DEF vars, lifeVars, LifeType
<1> QED  BY <1>1, <1>3, <1>4, <1>5, <1>6 DEF Next
-----------------------------------------------------------------------------
(* Who owns the descriptors.                                               *)

\* A descriptor stands for what it stood for.
Stays(p, fd) ==
  /\ fds'[p][fd] = fds[p][fd]
  /\ Connected(p, fd) => conns'[fds[p][fd].conn].req = Conn(p, fd).req
LEMMA LessHeldStays ==
  ASSUME NetType, ConnsInv, LessHeld, NEW p \in Peers, NEW fd \in FdNums, fds'[p][fd] = fds[p][fd]
  PROVE  Stays(p, fd)
<1>1. ASSUME Connected(p, fd)
      PROVE  conns'[fds[p][fd].conn].req = Conn(p, fd).req
  <2>1. fds[p][fd] # Free
    BY <1>1, ConnIdsAre DEF Connected, Free
  <2>2. Kept(fds[p][fd].conn, Side(p, fd))
    BY <1>1, <2>1 DEF LessHeld
  <2>3. Conn(p, fd).open[Side(p, fd)]
    BY <1>1, ConnIs
  <2> QED  BY <2>2, <2>3 DEF Kept, Conn
<1> QED  BY <1>1 DEF Stays
LEMMA ConnectStays ==
  ASSUME NetType, ConnsInv, FreeConns # {}, NEW conn,
         conns' = [conns EXCEPT ![Lowest(FreeConns)] = conn],
         NEW p \in Peers, NEW fd \in FdNums, fds'[p][fd] = fds[p][fd]
  PROVE  Stays(p, fd)
<1>1. PICK c : c = Lowest(FreeConns)
  OBVIOUS
<1>2. fds[p][fd].conn # c
  BY <1>1, FreeConnIs
<1>3. fds[p][fd].conn \in ConnIds => conns'[fds[p][fd].conn] = conns[fds[p][fd].conn]
  BY <1>1, <1>2 DEF NetType
<1> QED  BY <1>3 DEF Stays, Connected, Conn
LEMMA SameStays ==
  ASSUME UNCHANGED conns, NEW p \in Peers, NEW fd \in FdNums, fds'[p][fd] = fds[p][fd]
  PROVE  Stays(p, fd)
BY DEF Stays, Conn

\* The sides of the descriptors that are used.
LEMMA UsersAre ==
  ASSUME NetType, ClientType, ServerType, ClientWorkers, ServerWorkers, NEW p \in Peers,
         ClientOwns(p), ServerOwns(p)
  PROVE  /\ \A t \in ClientThreads : ClientUses(p, t) =>
              client[p][t].fd \in FdNums /\ fds[p][client[p][t].fd].side = "client"
         /\ \A w \in ServerThreads : ServerUses(p, w) =>
              server[p][w].fd \in FdNums /\ fds[p][server[p][w].fd].side = "server"
         /\ \A fd \in Range(m_socket_fd_queue[p]) : fd \in FdNums /\ fds[p][fd].side = "server"
         /\ acceptor[p] # Idle => acceptor[p].fd \in FdNums /\ fds[p][acceptor[p].fd].side = "server"
         /\ Free.side = "none"
<1>1. \A t \in ClientThreads : ClientUses(p, t) => client[p][t].fd \in FdNums
  BY ClientIs DEF ClientUses
<1>2. \A t \in ClientThreads : ClientUses(p, t) => fds[p][client[p][t].fd].side = "client"
  BY DEF ClientOwns, Unconnected, Side
<1>3. \A w \in ServerThreads : ServerUses(p, w) => server[p][w].fd \in FdNums
  BY ServerIs DEF ServerUses
<1>4. \A fd \in Range(m_socket_fd_queue[p]) : fd \in FdNums
  BY DEF ServerType, Range
<1> QED  BY <1>1, <1>2, <1>3, <1>4 DEF ServerOwns, Side, ServerWorkers, GoodAcceptor, Free

\* When nothing of the client's changes.
LEMMA ClientFrame ==
  ASSUME NEW p \in Peers, ClientOwns(p), client'[p] = client[p],
         \A t \in ClientThreads : ClientUses(p, t) => Stays(p, client[p][t].fd)
  PROVE  ClientOwns(p)'
<1>1. ASSUME NEW t \in ClientThreads, ClientUses(p, t)
      PROVE  LET me == client[p][t] IN
             \/ me.pc = "connecting" /\ fds'[p][me.fd] = Unconnected
             \/ /\ me.pc # "connecting"
                /\ fds'[p][me.fd].conn \in ConnIds /\ fds'[p][me.fd].side = "client"
                /\ conns'[fds'[p][me.fd].conn].req = me.req
  BY <1>1 DEF ClientOwns, Stays, Connected, Conn, Side
<1>2. \A t \in ClientThreads : ClientUses(p, t)' = ClientUses(p, t)
  BY DEF ClientUses
<1> QED  BY <1>1, <1>2 DEF ClientOwns, Connected, Conn, Side

\* When one worker of the client changes.
LEMMA ClientOwnsNext ==
  ASSUME ClientType, NEW p \in Peers, NEW t \in ClientThreads, NEW me \in Worker, ClientOwns(p),
         client' = [client EXCEPT ![p][t] = me],
         \A u \in ClientThreads \ {t} : ClientUses(p, u) => Stays(p, client[p][u].fd),
         me.pc \notin {"idle", "requeue"} =>
           /\ \/ me.pc = "connecting" /\ fds'[p][me.fd] = Unconnected
              \/ /\ me.pc # "connecting"
                 /\ fds'[p][me.fd].conn \in ConnIds /\ fds'[p][me.fd].side = "client"
                 /\ conns'[fds'[p][me.fd].conn].req = me.req
           /\ \A u \in ClientThreads \ {t} : ClientUses(p, u) => client[p][u].fd # me.fd
  PROVE  ClientOwns(p)'
<1>1. \A u \in ClientThreads : client'[p][u] = IF u = t THEN me ELSE client[p][u]
  BY DEF ClientType
<1>2. ClientUses(p, t)' <=> me.pc \notin {"idle", "requeue"}
  BY <1>1 DEF ClientUses
<1>3. \A u \in ClientThreads \ {t} : ClientUses(p, u)' <=> ClientUses(p, u)
  BY <1>1 DEF ClientUses
<1>4. ASSUME NEW u \in ClientThreads, ClientUses(p, u)'
      PROVE  LET it == client'[p][u] IN
             /\ \/ it.pc = "connecting" /\ fds'[p][it.fd] = Unconnected
                \/ /\ it.pc # "connecting"
                   /\ fds'[p][it.fd].conn \in ConnIds /\ fds'[p][it.fd].side = "client"
                   /\ conns'[fds'[p][it.fd].conn].req = it.req
             /\ \A v \in ClientThreads : ClientUses(p, v)' /\ client'[p][v].fd = it.fd => v = u
  <2>1. CASE u = t
    BY <1>1, <1>2, <1>3, <1>4, <2>1
  <2>2. CASE u # t
    <3>1. client'[p][u] = client[p][u] /\ ClientUses(p, u) /\ Stays(p, client[p][u].fd)
      BY <1>1, <1>3, <1>4, <2>2
    <3>2. \/ client[p][u].pc = "connecting" /\ fds'[p][client[p][u].fd] = Unconnected
          \/ /\ client[p][u].pc # "connecting"
             /\ fds'[p][client[p][u].fd].conn \in ConnIds /\ fds'[p][client[p][u].fd].side = "client"
             /\ conns'[fds'[p][client[p][u].fd].conn].req = client[p][u].req
      BY <3>1 DEF ClientOwns, Stays, Connected, Conn, Side
    <3>3. \A v \in ClientThreads : ClientUses(p, v) /\ client[p][v].fd = client[p][u].fd => v = u
      BY <3>1 DEF ClientOwns
    <3>4. ASSUME NEW v \in ClientThreads, ClientUses(p, v)', client'[p][v].fd = client[p][u].fd
          PROVE  v = u
      <4>1. CASE v = t
        BY <1>1, <1>2, <2>2, <3>1, <3>4, <4>1
      <4>2. CASE v # t
        BY <1>1, <1>3, <3>3, <3>4, <4>2
      <4> QED  BY <4>1, <4>2
    <3> QED  BY <3>1, <3>2, <3>4
  <2> QED  BY <2>1, <2>2
<1> QED  BY <1>4 DEF ClientOwns, Connected, Conn, Side

\* When one worker of the server changes, and the queue may lose descriptors.
LEMMA ServerOwnsNext ==
  ASSUME ServerType, NEW p \in Peers, NEW w \in ServerThreads, NEW me \in Worker, ServerOwns(p),
         server' = [server EXCEPT ![p][w] = me], acceptor'[p] = acceptor[p],
         Range(m_socket_fd_queue'[p]) \subseteq Range(m_socket_fd_queue[p]),
         IsInjective(m_socket_fd_queue'[p]),
         \A fd \in Range(m_socket_fd_queue'[p]) : fds'[p][fd].side = "server",
         acceptor[p] # Idle => fds'[p][acceptor[p].fd].side = "server",
         \A v \in ServerThreads \ {w} : ServerUses(p, v) => fds'[p][server[p][v].fd].side = "server",
         me.pc \notin {"idle", "closing again", "counting"} =>
           /\ fds'[p][me.fd].side = "server"
           /\ me.fd \notin Range(m_socket_fd_queue'[p])
           /\ acceptor[p] # Idle => acceptor[p].fd # me.fd
           /\ \A v \in ServerThreads \ {w} : ServerUses(p, v) => server[p][v].fd # me.fd
  PROVE  ServerOwns(p)'
<1>1. \A v \in ServerThreads : server'[p][v] = IF v = w THEN me ELSE server[p][v]
  BY DEF ServerType
<1>2. ServerUses(p, w)' <=> me.pc \notin {"idle", "closing again", "counting"}
  BY <1>1 DEF ServerUses
<1>3. \A v \in ServerThreads \ {w} : ServerUses(p, v)' <=> ServerUses(p, v)
  BY <1>1 DEF ServerUses
<1>4. ASSUME NEW v \in ServerThreads, ServerUses(p, v)'
      PROVE  LET it == server'[p][v] IN
             /\ fds'[p][it.fd].side = "server"
             /\ it.fd \notin Range(m_socket_fd_queue'[p])
             /\ acceptor'[p] # Idle => acceptor'[p].fd # it.fd
             /\ \A u \in ServerThreads : ServerUses(p, u)' /\ server'[p][u].fd = it.fd => u = v
  <2>1. CASE v = w
    BY <1>1, <1>2, <1>3, <1>4, <2>1
  <2>2. CASE v # w
    <3>1. server'[p][v] = server[p][v] /\ ServerUses(p, v)
      BY <1>1, <1>3, <1>4, <2>2
    <3>2. /\ fds'[p][server[p][v].fd].side = "server"
          /\ server[p][v].fd \notin Range(m_socket_fd_queue'[p])
          /\ acceptor[p] # Idle => acceptor[p].fd # server[p][v].fd
          /\ \A u \in ServerThreads : ServerUses(p, u) /\ server[p][u].fd = server[p][v].fd => u = v
      BY <2>2, <3>1 DEF ServerOwns
    <3>3. ASSUME NEW u \in ServerThreads, ServerUses(p, u)', server'[p][u].fd = server[p][v].fd
          PROVE  u = v
      <4>1. CASE u = w
        BY <1>1, <1>2, <2>2, <3>1, <3>3, <4>1
      <4>2. CASE u # w
        BY <1>1, <1>3, <3>2, <3>3, <4>2
      <4> QED  BY <4>1, <4>2
    <3> QED  BY <3>1, <3>2, <3>3
  <2> QED  BY <2>1, <2>2
<1>5. acceptor[p] # Idle => acceptor[p].fd \notin Range(m_socket_fd_queue'[p])
  BY DEF ServerOwns
<1> QED  BY <1>4, <1>5 DEF ServerOwns, Side

\* When no worker of the server changes.
LEMMA AcceptorOwnsNext ==
  ASSUME NEW p \in Peers, ServerOwns(p), server'[p] = server[p],
         \A w \in ServerThreads : ServerUses(p, w) =>
           /\ fds'[p][server[p][w].fd].side = "server"
           /\ server[p][w].fd \notin Range(m_socket_fd_queue'[p])
           /\ acceptor'[p] # Idle => acceptor'[p].fd # server[p][w].fd,
         \A fd \in Range(m_socket_fd_queue'[p]) : fds'[p][fd].side = "server",
         IsInjective(m_socket_fd_queue'[p]),
         acceptor'[p] # Idle => /\ fds'[p][acceptor'[p].fd].side = "server"
                                /\ acceptor'[p].fd \notin Range(m_socket_fd_queue'[p])
  PROVE  ServerOwns(p)'
<1>1. \A w \in ServerThreads : ServerUses(p, w)' <=> ServerUses(p, w)
  BY DEF ServerUses
<1>2. ASSUME NEW w \in ServerThreads, ServerUses(p, w)
      PROVE  \A v \in ServerThreads : ServerUses(p, v) /\ server[p][v].fd = server[p][w].fd => v = w
  BY <1>2 DEF ServerOwns
<1> QED  BY <1>1, <1>2 DEF ServerOwns, Side
LEMMA ServerFrame ==
  ASSUME NetType, ClientType, ServerType, ClientWorkers, ServerWorkers, NEW p \in Peers,
         ClientOwns(p), ServerOwns(p), server'[p] = server[p], acceptor'[p] = acceptor[p],
         m_socket_fd_queue'[p] = m_socket_fd_queue[p],
         \A fd \in FdNums : fds[p][fd].side = "server" => fds'[p][fd].side = "server"
  PROVE  ServerOwns(p)'
<1>1. \A w \in ServerThreads : ServerUses(p, w) =>
        /\ fds'[p][server[p][w].fd].side = "server"
        /\ server[p][w].fd \notin Range(m_socket_fd_queue[p])
        /\ acceptor[p] # Idle => acceptor[p].fd # server[p][w].fd
  BY UsersAre DEF ServerOwns
<1>2. IsInjective(m_socket_fd_queue[p])
  BY DEF ServerOwns
<1>3. acceptor[p] # Idle => acceptor[p].fd \notin Range(m_socket_fd_queue[p])
  BY DEF ServerOwns
<1> QED  BY <1>1, <1>2, <1>3, UsersAre, AcceptorOwnsNext

\* No descriptor is left behind.
LEMMA NoneLeftNext ==
  ASSUME NEW p \in Peers, NoneLeft(p), shared'[p] \subseteq shared[p],
         \A fd \in FdNums :
           \/ fds'[p][fd] = Free
           \/ Used(p, fd)'
           \/ /\ Stays(p, fd)
              /\ Used(p, fd) => Leaked(p, fd)'
  PROVE  NoneLeft(p)'
<1>1. ASSUME NEW fd \in FdNums, Stays(p, fd), Leaked(p, fd)
      PROVE  Leaked(p, fd)'
  BY <1>1 DEF Stays, Leaked, Connected, Conn
<1>2. ASSUME NEW fd \in FdNums
      PROVE  fds'[p][fd] = Free \/ Used(p, fd)' \/ Leaked(p, fd)'
  BY <1>1, <1>2 DEF NoneLeft, Stays
<1> QED  BY <1>2 DEF NoneLeft

\* In any step, a descriptor that is left alone stands for what it stood for.
LEMMA StepStays ==
  ASSUME NetType, ConnsInv, ClientType, ClientWorkers, ServerType, ServerWorkers,
         NEW q \in Peers, StepOf(q), NEW p \in Peers, NEW fd \in FdNums, fds'[p][fd] = fds[p][fd]
  PROVE  Stays(p, fd)
<1>1. CASE LessHeld
  BY <1>1, LessHeldStays
<1>2. CASE UNCHANGED conns
  BY <1>2, SameStays
<1>3. CASE Ends(q)
  BY <1>1, <1>3, EndsLess
<1>4. CASE Want(q) \/ \E f \in Files : RemoveFile(q, f)
  BY <1>2, <1>4 DEF Want, RemoveFile, netVars
<1>5. CASE AcceptStep(q)
  <2>1. CASE TestLimit(q)
    <3>1. acceptor[q].fd \in FdNums
      BY <2>1, IdleIs DEF TestLimit, ServerWorkers, GoodAcceptor
    <3>2. UNCHANGED backlog /\ (CloseConn(q, acceptor[q].fd, TRUE) \/ UNCHANGED conns)
      BY <2>1 DEF TestLimit
    <3> QED  BY <1>1, <1>2, <3>1, <3>2, CloseLess
  <2> QED  BY <1>2, <1>5, <2>1 DEF AcceptStep, Accept, EnqueueSocket, netVars
<1>6. ASSUME NEW t \in ClientThreads, ClientKind(q, t)
      PROVE  Stays(p, fd)
  <2>1. CASE ClientTries(q, t) \/ ClientRequeues(q, t) \/ ClientLeaks(q, t) \/ TakeRequest(q, t)
    BY <1>2, <2>1 DEF ClientTries, ClientRequeues, ClientLeaks, TakeRequest, netVars
  <2>2. CASE ClientKeeps(q, t)
    BY <1>1, <2>2 DEF ClientKeeps
  <2>3. CASE ClientCloses(q, t)
    <3>1. client[q][t].fd \in FdNums
      BY <2>3, ClientIs DEF ClientCloses, ClientUses
    <3> QED  BY <1>1, <2>3, <3>1, CloseLess DEF ClientCloses
  <2>4. CASE ClientConnects(q, t)
    BY <2>4, ConnectStays DEF ClientConnects
  <2> QED  BY <1>6, <2>1, <2>2, <2>3, <2>4 DEF ClientKind
<1>7. ASSUME NEW w \in ServerThreads, ServerKind(q, w)
      PROVE  Stays(p, fd)
  <2>1. CASE ServerKeeps(q, w)
    BY <1>1, <2>1 DEF ServerKeeps
  <2>2. CASE ServerCloses(q, w) \/ ServerClosesAgain(q, w)
    <3>1. server[q][w].fd \in FdNums
      BY <2>2, ServerIs DEF ServerCloses, ServerClosesAgain, UsingPcs
    <3>2. UNCHANGED backlog /\ \E h \in BOOLEAN : CloseConn(q, server[q][w].fd, h)
      BY <2>2 DEF ServerCloses, ServerClosesAgain
    <3> QED  BY <1>1, <3>1, <3>2, CloseLess
  <2>3. CASE TakeSocket(q, w) \/ CountDown(q, w)
    BY <1>2, <2>3 DEF TakeSocket, CountDown, netVars
  <2> QED  BY <1>7, <2>1, <2>2, <2>3 DEF ServerKind
<1> QED  BY <1>3, <1>4, <1>5, <1>6, <1>7 DEF StepOf

\* A step of another peer.
LEMMA OthersStay ==
  ASSUME NetType, ConnsInv, ClientType, ClientWorkers, ServerType, ServerWorkers, DiskType,
         NEW p \in Peers, NEW q \in Peers, StepOf(q), p # q
  PROVE  /\ client'[p] = client[p] /\ server'[p] = server[p] /\ acceptor'[p] = acceptor[p]
         /\ m_socket_fd_queue'[p] = m_socket_fd_queue[p] /\ shared'[p] = shared[p]
         /\ fds'[p] = fds[p]
<1>0. /\ client \in [Peers -> [ClientThreads -> Worker]]
      /\ server \in [Peers -> [ServerThreads -> Worker]]
      /\ acceptor \in [Peers -> Worker] /\ m_socket_fd_queue \in [Peers -> Seq(FdNums)]
      /\ fds \in [Peers -> [FdNums -> End \cup {Free}]] /\ shared \in [Peers -> SUBSET Files]
  BY DEF NetType, ClientType, ServerType, DiskType
<1>1. CASE Ends(q)
  BY <1>0, <1>1 DEF Ends, diskVars
<1>2. CASE Want(q) \/ \E f \in Files : RemoveFile(q, f)
  BY <1>0, <1>2 DEF Want, RemoveFile, netVars, serverVars, diskVars, clientVars
<1>3. CASE AcceptStep(q)
  <2>1. UNCHANGED client /\ UNCHANGED server /\ UNCHANGED shared
    BY <1>3 DEF AcceptStep, Accept, TestLimit, EnqueueSocket, clientVars, diskVars
  <2>2. CASE Accept(q)
    BY <1>0, <2>1, <2>2 DEF Accept, Opens
  <2>3. CASE TestLimit(q)
    BY <1>0, <2>1, <2>3 DEF TestLimit, CloseConn
  <2>4. CASE EnqueueSocket(q)
    BY <1>0, <2>1, <2>4 DEF EnqueueSocket, netVars
  <2> QED  BY <1>3, <2>2, <2>3, <2>4 DEF AcceptStep
<1>4. ASSUME NEW t \in ClientThreads, ClientKind(q, t), UNCHANGED <<serverVars, shared>>
      PROVE  /\ client'[p] = client[p] /\ server'[p] = server[p] /\ acceptor'[p] = acceptor[p]
             /\ m_socket_fd_queue'[p] = m_socket_fd_queue[p] /\ shared'[p] = shared[p]
             /\ fds'[p] = fds[p]
  <2>1. UNCHANGED server /\ UNCHANGED acceptor /\ UNCHANGED m_socket_fd_queue /\ UNCHANGED shared
    BY <1>4 DEF serverVars
  <2>2. client'[p] = client[p]
    BY <1>0, <1>4 DEF ClientKind, ClientTries, ClientConnects, ClientKeeps, ClientCloses, TakeRequest,
       ClientRequeues, ClientLeaks, GoesTo
  <2>3. fds'[p] = fds[p]
    BY <1>0, <1>4 DEF ClientKind, ClientTries, ClientConnects, ClientKeeps, ClientCloses, TakeRequest,
       ClientRequeues, ClientLeaks, CloseConn, Opens, netVars
  <2> QED  BY <2>1, <2>2, <2>3
<1>5. ASSUME NEW w \in ServerThreads, ServerKind(q, w), UNCHANGED <<clientVars, shared>>
      PROVE  /\ client'[p] = client[p] /\ server'[p] = server[p] /\ acceptor'[p] = acceptor[p]
             /\ m_socket_fd_queue'[p] = m_socket_fd_queue[p] /\ shared'[p] = shared[p]
             /\ fds'[p] = fds[p]
  <2>1. UNCHANGED client /\ UNCHANGED acceptor /\ UNCHANGED shared
    BY <1>5 DEF clientVars, ServerKind, ServerKeeps, ServerCloses, ServerClosesAgain, TakeSocket, CountDown
  <2>2. server'[p] = server[p] /\ m_socket_fd_queue'[p] = m_socket_fd_queue[p]
    BY <1>0, <1>5 DEF ServerKind, ServerKeeps, ServerCloses, ServerClosesAgain, TakeSocket, CountDown, ServerGoesTo
  <2>3. fds'[p] = fds[p]
    BY <1>0, <1>5 DEF ServerKind, ServerKeeps, ServerCloses, ServerClosesAgain, TakeSocket, CountDown,
       CloseConn, netVars
  <2> QED  BY <2>1, <2>2, <2>3
<1> QED  BY <1>1, <1>2, <1>3, <1>4, <1>5 DEF StepOf

\* When nothing of p's changes.
LEMMA OwnersFrame ==
  ASSUME NetType, ClientType, ServerType, ClientWorkers, ServerWorkers, NEW p \in Peers,
         ClientOwns(p), ServerOwns(p), NoneLeft(p),
         client'[p] = client[p], server'[p] = server[p], acceptor'[p] = acceptor[p],
         m_socket_fd_queue'[p] = m_socket_fd_queue[p], shared'[p] \subseteq shared[p],
         \A fd \in FdNums : Stays(p, fd)
  PROVE  ClientOwns(p)' /\ ServerOwns(p)' /\ NoneLeft(p)'
<1>1. ClientOwns(p)'
  BY UsersAre, ClientFrame
<1>2. \A fd \in FdNums : fds'[p][fd] = fds[p][fd]
  BY DEF Stays
<1>3. ServerOwns(p)'
  BY <1>2, ServerFrame
<1>4. \A fd \in FdNums : Used(p, fd)' <=> Used(p, fd)
  BY DEF Used, ClientUses, ServerUses
<1>5. NoneLeft(p)'
  BY <1>4, NoneLeftNext
<1> QED  BY <1>1, <1>3, <1>5

\* What the client's workers use when one of them changes.
LEMMA ClientUsed ==
  ASSUME ClientType, NEW p \in Peers, NEW t \in ClientThreads, NEW me \in Worker,
         client' = [client EXCEPT ![p][t] = me],
         server'[p] = server[p], acceptor'[p] = acceptor[p],
         m_socket_fd_queue'[p] = m_socket_fd_queue[p]
  PROVE  /\ me.pc \notin {"idle", "requeue"} => Used(p, me.fd)'
         /\ \A fd \in FdNums : Used(p, fd) /\ ~(ClientUses(p, t) /\ client[p][t].fd = fd) => Used(p, fd)'
<1>1. \A u \in ClientThreads : client'[p][u] = IF u = t THEN me ELSE client[p][u]
  BY DEF ClientType
<1>2. me.pc \notin {"idle", "requeue"} => Used(p, me.fd)'
  BY <1>1 DEF Used, ClientUses
<1>3. ASSUME NEW fd \in FdNums, Used(p, fd), ~(ClientUses(p, t) /\ client[p][t].fd = fd)
      PROVE  Used(p, fd)'
  <2>1. CASE \E u \in ClientThreads : ClientUses(p, u) /\ client[p][u].fd = fd
    <3>1. PICK u \in ClientThreads : ClientUses(p, u) /\ client[p][u].fd = fd /\ u # t
      BY <1>3, <2>1
    <3>2. client'[p][u] = client[p][u]
      BY <1>1, <3>1
    <3>3. ClientUses(p, u)' /\ client'[p][u].fd = fd
      BY <3>1, <3>2 DEF ClientUses
    <3> QED  BY <3>3 DEF Used
  <2>2. CASE ~\E u \in ClientThreads : ClientUses(p, u) /\ client[p][u].fd = fd
    BY <1>3, <2>2 DEF Used, ServerUses
  <2> QED  BY <2>1, <2>2
<1> QED  BY <1>2, <1>3

\* A step of the client's workers.
LEMMA ClientOwners ==
  ASSUME NetType, ConnsInv, ClientType, ServerType, ClientWorkers, ServerWorkers, DiskType,
         NEW p \in Peers, ClientOwns(p), ServerOwns(p), NoneLeft(p),
         NEW t \in ClientThreads, ClientKind(p, t), UNCHANGED <<serverVars, shared>>,
         \A fd \in FdNums : fds'[p][fd] = fds[p][fd] => Stays(p, fd)
  PROVE  ClientOwns(p)' /\ ServerOwns(p)' /\ NoneLeft(p)'
<1>0. /\ UNCHANGED server /\ UNCHANGED acceptor /\ UNCHANGED m_socket_fd_queue /\ UNCHANGED shared
      /\ fds \in [Peers -> [FdNums -> End \cup {Free}]]
  BY DEF serverVars, NetType
<1>1. \A u \in ClientThreads : ClientUses(p, u) =>
        /\ client[p][u].fd \in FdNums /\ fds[p][client[p][u].fd].side = "client"
        /\ u # t /\ ClientUses(p, t) => client[p][u].fd # client[p][t].fd
  BY UsersAre DEF ClientOwns
\* The worker goes on with its descriptor.
<1>2. ASSUME NEW me \in Worker, client' = [client EXCEPT ![p][t] = me], ClientUses(p, t),
             me.fd = client[p][t].fd, me.pc \notin {"idle", "requeue"},
             \A fd \in FdNums \ {me.fd} : fds'[p][fd] = fds[p][fd],
             fds'[p][me.fd].side # "server",
             \/ me.pc = "connecting" /\ fds'[p][me.fd] = Unconnected
             \/ /\ me.pc # "connecting"
                /\ fds'[p][me.fd].conn \in ConnIds /\ fds'[p][me.fd].side = "client"
                /\ conns'[fds'[p][me.fd].conn].req = me.req
      PROVE  ClientOwns(p)' /\ ServerOwns(p)' /\ NoneLeft(p)'
  <2>1. \A fd \in FdNums \ {me.fd} : Stays(p, fd)
    BY <1>2
  <2>2. ClientOwns(p)'
    <3>1. \A u \in ClientThreads \ {t} : ClientUses(p, u) => Stays(p, client[p][u].fd)
      BY <1>1, <1>2, <2>1
    <3>2. \A u \in ClientThreads \ {t} : ClientUses(p, u) => client[p][u].fd # me.fd
      BY <1>1, <1>2
    <3> QED  BY <1>2, <3>1, <3>2, ClientOwnsNext
  <2>3. \A fd \in FdNums : fds[p][fd].side = "server" => fds'[p][fd].side = "server"
    BY <1>1, <1>2
  <2>4. ServerOwns(p)'
    BY <1>0, <2>3, ServerFrame
  <2>5. Used(p, me.fd)' /\ \A fd \in FdNums \ {me.fd} : Used(p, fd) => Used(p, fd)'
    BY <1>0, <1>2, ClientUsed
  <2>6. NoneLeft(p)'
    BY <1>0, <2>1, <2>5, NoneLeftNext
  <2> QED  BY <2>2, <2>4, <2>6
\* The worker has no descriptor any more.
<1>3. ASSUME NEW me \in Worker, client' = [client EXCEPT ![p][t] = me], me.pc \in {"idle", "requeue"},
             \A fd \in FdNums : \/ fds'[p][fd] = fds[p][fd]
                                \/ fds'[p][fd] = Free /\ ClientUses(p, t) /\ fd = client[p][t].fd,
             \A fd \in FdNums : ClientUses(p, t) /\ fd = client[p][t].fd =>
               fds'[p][fd] = Free \/ Leaked(p, fd)'
      PROVE  ClientOwns(p)' /\ ServerOwns(p)' /\ NoneLeft(p)'
  <2>1. \A fd \in FdNums : Stays(p, fd) \/ (fds'[p][fd] = Free /\ ClientUses(p, t) /\ fd = client[p][t].fd)
    BY <1>3
  <2>2. \A u \in ClientThreads \ {t} : ClientUses(p, u) => Stays(p, client[p][u].fd)
    BY <1>1, <2>1
  <2>3. ClientOwns(p)'
    BY <1>3, <2>2, ClientOwnsNext
  <2>4. \A fd \in FdNums : fds[p][fd].side = "server" => fds'[p][fd].side = "server"
    BY <1>1, <1>3
  <2>5. ServerOwns(p)'
    BY <1>0, <2>4, ServerFrame
  <2>6. \A fd \in FdNums : Used(p, fd) /\ ~(ClientUses(p, t) /\ client[p][t].fd = fd) => Used(p, fd)'
    BY <1>0, <1>3, ClientUsed
  <2>7. NoneLeft(p)'
    <3>1. \A fd \in FdNums : \/ fds'[p][fd] = Free
                             \/ Used(p, fd)'
                             \/ Stays(p, fd) /\ (Used(p, fd) => Leaked(p, fd)')
      BY <1>3, <2>1, <2>6
    <3> QED  BY <1>0, <3>1, NoneLeftNext
  <2> QED  BY <2>3, <2>5, <2>7
<1>4. CASE ClientTries(p, t)
  <2>1. client[p][t].pc = "connecting" /\ UNCHANGED fds
    BY <1>4 DEF ClientTries, netVars
  <2>2. ClientUses(p, t) /\ fds[p][client[p][t].fd] = Unconnected
    BY <2>1 DEF ClientUses, ClientOwns
  <2>3. PICK me \in Worker : /\ client' = [client EXCEPT ![p][t] = me]
                             /\ me.fd = client[p][t].fd /\ me.pc = "connecting"
    BY <1>4 DEF ClientTries, GoesTo
  <2>4. fds'[p][me.fd].side # "server"
    BY <2>1, <2>2, <2>3 DEF Unconnected
  <2> QED  BY <1>2, <2>1, <2>2, <2>3, <2>4
<1>5. CASE ClientConnects(p, t)
  <2>1. PICK c : c = Lowest(FreeConns)
    OBVIOUS
  <2>2. PICK fd : fd = client[p][t].fd
    OBVIOUS
  <2>3. PICK me \in Worker : /\ client' = [client EXCEPT ![p][t] = me]
                             /\ me.fd = fd /\ me.req = client[p][t].req /\ me.pc = "sending"
    BY <1>5, <2>2 DEF ClientConnects, GoesTo
  <2>4. /\ ClientUses(p, t) /\ fds[p][fd] = Unconnected /\ c \in ConnIds
        /\ conns' = [conns EXCEPT ![c] = Established(p, me.req)]
        /\ fds' = [fds EXCEPT ![p][fd].conn = c]
    BY <1>5, <2>1, <2>2, <2>3, FreeConnIs DEF ClientConnects, ClientUses
  <2>5. fd \in FdNums
    BY <1>1, <2>2, <2>4
  <2>6. /\ \A g \in FdNums \ {fd} : fds'[p][g] = fds[p][g]
        /\ fds'[p][fd] = [fds[p][fd] EXCEPT !.conn = c]
    BY <1>0, <2>4, <2>5
  <2>7. fds'[p][fd].conn = c /\ fds'[p][fd].side = "client"
    BY <2>4, <2>6 DEF Unconnected
  <2>8. conns'[c].req = me.req
    BY <2>4 DEF NetType, Established
  <2>9. \A g \in FdNums \ {me.fd} : fds'[p][g] = fds[p][g]
    BY <2>3, <2>6
  <2>10. /\ fds'[p][me.fd].conn \in ConnIds /\ fds'[p][me.fd].side = "client"
         /\ conns'[fds'[p][me.fd].conn].req = me.req
    BY <2>3, <2>4, <2>7, <2>8
  <2> QED  BY <1>2, <2>2, <2>3, <2>4, <2>9, <2>10
<1>6. CASE ClientKeeps(p, t)
  <2>1. PICK me \in Worker : /\ client' = [client EXCEPT ![p][t] = me] /\ me.pc \in ConnectedPcs
                             /\ me.fd = client[p][t].fd /\ me.req = client[p][t].req
    BY <1>6 DEF ClientKeeps, GoesTo
  <2>2. ClientUses(p, t) /\ UNCHANGED fds /\ client[p][t].pc # "connecting"
    BY <1>6 DEF ClientKeeps, ClientUses, ConnectedPcs
  <2>3. /\ fds[p][me.fd].conn \in ConnIds /\ fds[p][me.fd].side = "client"
        /\ conns[fds[p][me.fd].conn].req = me.req /\ me.fd \in FdNums
    BY <1>1, <2>1, <2>2 DEF ClientOwns, Connected, Conn, Side
  <2>4. conns'[fds'[p][me.fd].conn].req = me.req
    BY <2>2, <2>3 DEF Stays, Connected, Conn
  <2> QED  BY <1>2, <2>1, <2>2, <2>3, <2>4 DEF ConnectedPcs
<1>7. CASE ClientCloses(p, t)
  <2>1. PICK me \in Worker : client' = [client EXCEPT ![p][t] = me] /\ me.pc \in {"idle", "requeue"}
    BY <1>7, IdleIs DEF ClientCloses, GoesTo
  <2>2. ClientUses(p, t) /\ fds' = [fds EXCEPT ![p][client[p][t].fd] = Free]
    BY <1>7 DEF ClientCloses, CloseConn
  <2>3. \A fd \in FdNums : fds'[p][fd] = IF fd = client[p][t].fd THEN Free ELSE fds[p][fd]
    BY <1>0, <2>2
  <2> QED  BY <1>1, <1>3, <2>1, <2>2, <2>3
<1>8. CASE TakeRequest(p, t)
  <2>1. PICK fd \in FdNums :
          /\ Opens(p, fd, Unconnected)
          /\ client' = [client EXCEPT ![p][t] =
                         [pc |-> "connecting", req |-> Head(m_request_queue[p]), fd |-> fd, n |-> 0]]
    BY <1>8 DEF TakeRequest
  <2>2. Unconnected \in End
    BY DEF Unconnected, End, Sides
  <2>3. fds[p][fd] = Free /\ \A g \in FdNums : fds'[p][g] = IF g = fd THEN Unconnected ELSE fds[p][g]
    BY <2>1, <2>2, OpensFree
  <2>4. m_request_queue[p] # <<>> /\ ~ClientUses(p, t)
    BY <1>8, IdleIs DEF TakeRequest, ClientUses
  <2>5. Head(m_request_queue[p]) \in Requests
    BY <2>4, TailInjective DEF ClientType
  <2>6. PICK me : me = [pc |-> "connecting", req |-> Head(m_request_queue[p]), fd |-> fd, n |-> 0]
    OBVIOUS
  <2>7. me \in Worker /\ me.pc = "connecting" /\ me.fd = fd
    BY <2>5, <2>6 DEF Worker
  <2>8. client' = [client EXCEPT ![p][t] = me]
    BY <2>1, <2>6
  <2>9. \A g \in FdNums \ {fd} : Stays(p, g)
    BY <2>3
  <2>10. \A u \in ClientThreads : ClientUses(p, u) => client[p][u].fd # fd
    BY <1>1, <2>3 DEF Free
  <2>11. ClientOwns(p)'
    <3>1. \A u \in ClientThreads \ {t} : ClientUses(p, u) => Stays(p, client[p][u].fd)
      BY <1>1, <2>9, <2>10
    <3>2. fds'[p][me.fd] = Unconnected
      BY <2>3, <2>7
    <3> QED  BY <2>7, <2>8, <2>10, <3>1, <3>2, ClientOwnsNext
  <2>12. \A g \in FdNums : fds[p][g].side = "server" => fds'[p][g].side = "server"
    BY <2>3 DEF Free
  <2>13. ServerOwns(p)'
    BY <1>0, <2>12, ServerFrame
  <2>14. Used(p, fd)' /\ \A g \in FdNums : Used(p, g) => Used(p, g)'
    BY <1>0, <2>4, <2>7, <2>8, ClientUsed
  <2>15. NoneLeft(p)'
    BY <1>0, <2>9, <2>14, NoneLeftNext
  <2> QED  BY <2>11, <2>13, <2>15
<1>9. CASE ClientRequeues(p, t)
  <2>1. client' = [client EXCEPT ![p][t] = Idle] /\ UNCHANGED fds /\ ~ClientUses(p, t)
    BY <1>9 DEF ClientRequeues, netVars, ClientUses
  <2> QED  BY <1>3, <2>1, IdleIs
<1>10. CASE ClientLeaks(p, t)
  <2>1. /\ client' = [client EXCEPT ![p][t] = Idle] /\ UNCHANGED fds /\ ClientUses(p, t)
        /\ client[p][t].pc = "opening" /\ client[p][t].req.type = "push"
        /\ client[p][t].req.file \notin shared[p]
    BY <1>10 DEF ClientLeaks, netVars, ClientUses
  <2>2. PICK fd \in FdNums : fd = client[p][t].fd
    BY <1>1, <2>1
  <2>3. Connected(p, fd) /\ Conn(p, fd).req = client[p][t].req
    BY <2>1, <2>2 DEF ClientOwns
  <2>4. Leaked(p, fd)
    BY <2>1, <2>3 DEF Leaked
  <2>5. Leaked(p, fd)'
    BY <1>0, <2>1, <2>4 DEF Leaked, Stays, Connected, Conn
  <2> QED  BY <1>3, <2>1, <2>2, <2>5, IdleIs
<1> QED  BY <1>4, <1>5, <1>6, <1>7, <1>8, <1>9, <1>10 DEF ClientKind

\* What the server's workers use when one of them changes.
LEMMA ServerUsed ==
  ASSUME ServerType, NEW p \in Peers, NEW w \in ServerThreads, NEW me \in Worker,
         server' = [server EXCEPT ![p][w] = me],
         client'[p] = client[p], acceptor'[p] = acceptor[p]
  PROVE  /\ me.pc \notin {"idle", "closing again", "counting"} => Used(p, me.fd)'
         /\ \A fd \in FdNums :
              /\ Used(p, fd)
              /\ ~(ServerUses(p, w) /\ server[p][w].fd = fd)
              /\ fd \in Range(m_socket_fd_queue[p]) => fd \in Range(m_socket_fd_queue'[p])
              => Used(p, fd)'
<1>1. \A v \in ServerThreads : server'[p][v] = IF v = w THEN me ELSE server[p][v]
  BY DEF ServerType
<1>2. me.pc \notin {"idle", "closing again", "counting"} => Used(p, me.fd)'
  BY <1>1 DEF Used, ServerUses
<1>3. ASSUME NEW fd \in FdNums, Used(p, fd), ~(ServerUses(p, w) /\ server[p][w].fd = fd),
             fd \in Range(m_socket_fd_queue[p]) => fd \in Range(m_socket_fd_queue'[p])
      PROVE  Used(p, fd)'
  <2>1. CASE \E v \in ServerThreads : ServerUses(p, v) /\ server[p][v].fd = fd
    <3>1. PICK v \in ServerThreads : ServerUses(p, v) /\ server[p][v].fd = fd /\ v # w
      BY <1>3, <2>1
    <3>2. server'[p][v] = server[p][v]
      BY <1>1, <3>1
    <3>3. ServerUses(p, v)' /\ server'[p][v].fd = fd
      BY <3>1, <3>2 DEF ServerUses
    <3> QED  BY <3>3 DEF Used
  <2>2. CASE ~\E v \in ServerThreads : ServerUses(p, v) /\ server[p][v].fd = fd
    BY <1>3, <2>2 DEF Used, ClientUses
  <2> QED  BY <2>1, <2>2
<1> QED  BY <1>2, <1>3

\* A step of the server's workers.
LEMMA ServerOwners ==
  ASSUME NetType, ConnsInv, ClientType, ServerType, ClientWorkers, ServerWorkers, DiskType,
         NEW p \in Peers, ClientOwns(p), ServerOwns(p), NoneLeft(p), p \notin stolen',
         NEW w \in ServerThreads, ServerKind(p, w), UNCHANGED <<clientVars, shared>>,
         \A fd \in FdNums : fds'[p][fd] = fds[p][fd] => Stays(p, fd)
  PROVE  ClientOwns(p)' /\ ServerOwns(p)' /\ NoneLeft(p)'
<1>0. /\ UNCHANGED client /\ UNCHANGED acceptor /\ UNCHANGED shared
      /\ fds \in [Peers -> [FdNums -> End \cup {Free}]]
  BY DEF clientVars, NetType, ServerKind, ServerKeeps, ServerCloses, ServerClosesAgain, TakeSocket, CountDown
<1>1. \A v \in ServerThreads : ServerUses(p, v) =>
        /\ server[p][v].fd \in FdNums /\ fds[p][server[p][v].fd].side = "server"
        /\ server[p][v].fd \notin Range(m_socket_fd_queue[p])
        /\ acceptor[p] # Idle => acceptor[p].fd # server[p][v].fd
        /\ v # w /\ ServerUses(p, w) => server[p][v].fd # server[p][w].fd
  BY UsersAre DEF ServerOwns
<1>2. /\ \A fd \in Range(m_socket_fd_queue[p]) : fd \in FdNums /\ fds[p][fd].side = "server"
      /\ acceptor[p] # Idle => /\ acceptor[p].fd \in FdNums /\ fds[p][acceptor[p].fd].side = "server"
                               /\ acceptor[p].fd \notin Range(m_socket_fd_queue[p])
      /\ IsInjective(m_socket_fd_queue[p])
      /\ \A t \in ClientThreads : ClientUses(p, t) =>
           client[p][t].fd \in FdNums /\ fds[p][client[p][t].fd].side = "client"
      /\ Free.side = "none"
  BY UsersAre DEF ServerOwns
\* The worker goes on with its descriptor.
<1>3. ASSUME NEW me \in Worker, server' = [server EXCEPT ![p][w] = me], ServerUses(p, w),
             me.fd = server[p][w].fd, me.pc \notin {"idle", "closing again", "counting"},
             UNCHANGED <<fds, m_socket_fd_queue>>
      PROVE  ClientOwns(p)' /\ ServerOwns(p)' /\ NoneLeft(p)'
  <2>1. \A fd \in FdNums : Stays(p, fd)
    BY <1>3
  <2>2. ClientOwns(p)'
    BY <1>0, <1>2, <2>1, ClientFrame
  <2>3. ServerOwns(p)'
    <3>1. /\ me.fd \in FdNums /\ fds'[p][me.fd].side = "server"
          /\ me.fd \notin Range(m_socket_fd_queue'[p])
          /\ acceptor[p] # Idle => acceptor[p].fd # me.fd
          /\ \A v \in ServerThreads \ {w} : ServerUses(p, v) => server[p][v].fd # me.fd
      BY <1>1, <1>3
    <3>2. /\ \A v \in ServerThreads \ {w} : ServerUses(p, v) => fds'[p][server[p][v].fd].side = "server"
          /\ \A fd \in Range(m_socket_fd_queue'[p]) : fds'[p][fd].side = "server"
          /\ acceptor[p] # Idle => fds'[p][acceptor[p].fd].side = "server"
      BY <1>1, <1>2, <1>3
    <3>3. /\ Range(m_socket_fd_queue'[p]) \subseteq Range(m_socket_fd_queue[p])
          /\ IsInjective(m_socket_fd_queue'[p]) /\ acceptor'[p] = acceptor[p]
      BY <1>0, <1>2, <1>3
    <3> QED  BY <1>3, <3>1, <3>2, <3>3, ServerOwnsNext
  <2>4. Used(p, me.fd)' /\ \A fd \in FdNums \ {me.fd} : Used(p, fd) => Used(p, fd)'
    BY <1>0, <1>3, ServerUsed
  <2>5. NoneLeft(p)'
    BY <1>0, <2>1, <2>4, NoneLeftNext
  <2> QED  BY <2>2, <2>3, <2>5
\* The worker has no descriptor any more.
<1>4. ASSUME NEW me \in Worker, server' = [server EXCEPT ![p][w] = me],
             me.pc \in {"idle", "closing again", "counting"}, UNCHANGED m_socket_fd_queue,
             \A fd \in FdNums : \/ fds'[p][fd] = fds[p][fd]
                                \/ fds'[p][fd] = Free /\ ServerUses(p, w) /\ fd = server[p][w].fd,
             \A fd \in FdNums : ServerUses(p, w) /\ fd = server[p][w].fd => fds'[p][fd] = Free
      PROVE  ClientOwns(p)' /\ ServerOwns(p)' /\ NoneLeft(p)'
  <2>1. \A fd \in FdNums : Stays(p, fd) \/ (fds'[p][fd] = Free /\ ServerUses(p, w) /\ fd = server[p][w].fd)
    BY <1>4
  <2>2. ClientOwns(p)'
    <3>1. \A t \in ClientThreads : ClientUses(p, t) => Stays(p, client[p][t].fd)
      BY <1>1, <1>2, <2>1
    <3> QED  BY <1>0, <3>1, ClientFrame
  <2>3. ServerOwns(p)'
    <3>1. /\ \A v \in ServerThreads \ {w} : ServerUses(p, v) => fds'[p][server[p][v].fd].side = "server"
          /\ \A fd \in Range(m_socket_fd_queue'[p]) : fds'[p][fd].side = "server"
          /\ acceptor[p] # Idle => fds'[p][acceptor[p].fd].side = "server"
      BY <1>1, <1>2, <1>4
    <3>2. /\ Range(m_socket_fd_queue'[p]) \subseteq Range(m_socket_fd_queue[p])
          /\ IsInjective(m_socket_fd_queue'[p]) /\ acceptor'[p] = acceptor[p]
      BY <1>0, <1>2, <1>4
    <3> QED  BY <1>4, <3>1, <3>2, ServerOwnsNext
  <2>4. \A fd \in FdNums : Used(p, fd) /\ ~(ServerUses(p, w) /\ server[p][w].fd = fd) => Used(p, fd)'
    BY <1>0, <1>4, ServerUsed
  <2>5. NoneLeft(p)'
    <3>1. \A fd \in FdNums : \/ fds'[p][fd] = Free
                             \/ Used(p, fd)'
                             \/ Stays(p, fd) /\ (Used(p, fd) => Leaked(p, fd)')
      BY <1>4, <2>1, <2>4
    <3> QED  BY <1>0, <3>1, NoneLeftNext
  <2> QED  BY <2>2, <2>3, <2>5
<1>5. CASE ServerKeeps(p, w)
  <2>1. PICK me \in Worker : /\ server' = [server EXCEPT ![p][w] = me]
                             /\ me.fd = server[p][w].fd /\ me.pc \in UsingPcs
    BY <1>5 DEF ServerKeeps, ServerGoesTo
  <2>2. ServerUses(p, w) /\ UNCHANGED <<fds, m_socket_fd_queue>>
    BY <1>5 DEF ServerKeeps, ServerUses, UsingPcs
  <2>3. me.pc \notin {"idle", "closing again", "counting"}
    BY <2>1 DEF UsingPcs
  <2> QED  BY <1>3, <2>1, <2>2, <2>3
<1>6. CASE ServerCloses(p, w)
  <2>1. PICK me \in Worker : server' = [server EXCEPT ![p][w] = me] /\ me.pc \in {"closing again", "counting"}
    BY <1>6 DEF ServerCloses, ServerGoesTo
  <2>2. ServerUses(p, w) /\ UNCHANGED m_socket_fd_queue
    BY <1>6 DEF ServerCloses, ServerUses, UsingPcs
  <2>3. fds' = [fds EXCEPT ![p][server[p][w].fd] = Free]
    BY <1>6 DEF ServerCloses, CloseConn
  <2>4. \A fd \in FdNums : fds'[p][fd] = IF fd = server[p][w].fd THEN Free ELSE fds[p][fd]
    BY <1>0, <2>3
  <2> QED  BY <1>4, <2>1, <2>2, <2>4
<1>7. CASE ServerClosesAgain(p, w)
  <2>1. PICK me \in Worker : server' = [server EXCEPT ![p][w] = me] /\ me.pc = "counting"
    BY <1>7 DEF ServerClosesAgain, ServerGoesTo
  <2>2. ~ServerUses(p, w) /\ UNCHANGED m_socket_fd_queue
    BY <1>7 DEF ServerClosesAgain, ServerUses
  <2>3. fds[p][server[p][w].fd] = Free /\ fds' = [fds EXCEPT ![p][server[p][w].fd] = Free]
    BY <1>7 DEF ServerClosesAgain, CloseConn
  <2>4. \A fd \in FdNums : fds'[p][fd] = fds[p][fd]
    BY <1>0, <2>3
  <2> QED  BY <1>4, <2>1, <2>2, <2>4
<1>8. CASE CountDown(p, w)
  <2>1. server' = [server EXCEPT ![p][w] = Idle] /\ UNCHANGED m_socket_fd_queue /\ UNCHANGED fds
        /\ ~ServerUses(p, w)
    BY <1>8 DEF CountDown, netVars, ServerUses
  <2> QED  BY <1>4, <2>1, IdleIs
<1>9. CASE TakeSocket(p, w)
  <2>1. /\ m_socket_fd_queue[p] \in Seq(FdNums) /\ m_socket_fd_queue[p] # <<>> /\ server[p][w] = Idle
        /\ m_socket_fd_queue' = [m_socket_fd_queue EXCEPT ![p] = Tail(m_socket_fd_queue[p])]
        /\ UNCHANGED fds
    BY <1>9 DEF TakeSocket, ServerType, netVars
  <2>2. PICK fd \in FdNums : fd = Head(m_socket_fd_queue[p])
    BY <2>1, TailInjective
  <2>3. PICK me : me = [Idle EXCEPT !.pc = "reading", !.fd = fd]
    OBVIOUS
  <2>4. me \in Worker /\ me.fd = fd /\ me.pc = "reading"
    BY <2>3, IdleIs DEF Worker
  <2>5. server' = [server EXCEPT ![p][w] = me]
    <3>1. server' = [server EXCEPT ![p][w].pc = "reading", ![p][w].fd = fd]
      BY <1>9, <2>2 DEF TakeSocket
    <3>2. me = [server[p][w] EXCEPT !.pc = "reading", !.fd = fd]
      BY <2>1, <2>3
    <3> QED  BY <3>1, <3>2 DEF ServerType
  <2>6. ~ServerUses(p, w)
    BY <2>1, IdleIs DEF ServerUses
  <2>7. m_socket_fd_queue'[p] = Tail(m_socket_fd_queue[p])
    BY <2>1 DEF ServerType
  <2>8. /\ Range(m_socket_fd_queue[p]) = Range(m_socket_fd_queue'[p]) \cup {fd}
        /\ fd \in Range(m_socket_fd_queue[p]) /\ fd \notin Range(m_socket_fd_queue'[p])
        /\ IsInjective(m_socket_fd_queue'[p])
    BY <1>2, <2>1, <2>2, <2>7, TailInjective
  <2>9. \A g \in FdNums : Stays(p, g)
    BY <2>1
  <2>10. ClientOwns(p)'
    BY <1>0, <1>2, <2>9, ClientFrame
  <2>11. ServerOwns(p)'
    <3>1. /\ fds'[p][me.fd].side = "server" /\ me.fd \notin Range(m_socket_fd_queue'[p])
          /\ acceptor[p] # Idle => acceptor[p].fd # me.fd
          /\ \A v \in ServerThreads \ {w} : ServerUses(p, v) => server[p][v].fd # me.fd
      BY <1>1, <1>2, <2>1, <2>4, <2>8
    <3>2. /\ \A v \in ServerThreads \ {w} : ServerUses(p, v) => fds'[p][server[p][v].fd].side = "server"
          /\ \A g \in Range(m_socket_fd_queue'[p]) : fds'[p][g].side = "server"
          /\ acceptor[p] # Idle => fds'[p][acceptor[p].fd].side = "server"
      BY <1>1, <1>2, <2>1, <2>8
    <3> QED  BY <1>0, <2>4, <2>5, <2>8, <3>1, <3>2, ServerOwnsNext
  <2>12. Used(p, fd)' /\ \A g \in FdNums \ {fd} : Used(p, g) => Used(p, g)'
    BY <1>0, <2>4, <2>5, <2>6, <2>8, ServerUsed
  <2>13. NoneLeft(p)'
    BY <1>0, <2>9, <2>12, NoneLeftNext
  <2> QED  BY <2>10, <2>11, <2>13
<1> QED  BY <1>5, <1>6, <1>7, <1>8, <1>9 DEF ServerKind

\* A step of the accept loop.
LEMMA AcceptOwners ==
  ASSUME NetType, ConnsInv, ClientType, ServerType, ClientWorkers, ServerWorkers, DiskType,
         NEW p \in Peers, ClientOwns(p), ServerOwns(p), NoneLeft(p), AcceptStep(p),
         \A fd \in FdNums : fds'[p][fd] = fds[p][fd] => Stays(p, fd)
  PROVE  ClientOwns(p)' /\ ServerOwns(p)' /\ NoneLeft(p)'
<1>0. /\ UNCHANGED client /\ UNCHANGED server /\ UNCHANGED shared
      /\ fds \in [Peers -> [FdNums -> End \cup {Free}]] /\ acceptor \in [Peers -> Worker]
      /\ m_socket_fd_queue \in [Peers -> Seq(FdNums)] /\ Idle \in Worker
  BY IdleIs DEF AcceptStep, Accept, TestLimit, EnqueueSocket, clientVars, diskVars, NetType, ServerType
<1>1. \A v \in ServerThreads : ServerUses(p, v) =>
        /\ server[p][v].fd \in FdNums /\ fds[p][server[p][v].fd].side = "server"
        /\ server[p][v].fd \notin Range(m_socket_fd_queue[p])
        /\ acceptor[p] # Idle => acceptor[p].fd # server[p][v].fd
  BY UsersAre DEF ServerOwns
<1>2. /\ \A fd \in Range(m_socket_fd_queue[p]) : fd \in FdNums /\ fds[p][fd].side = "server"
      /\ acceptor[p] # Idle => /\ acceptor[p].fd \in FdNums /\ fds[p][acceptor[p].fd].side = "server"
                               /\ acceptor[p].fd \notin Range(m_socket_fd_queue[p])
      /\ IsInjective(m_socket_fd_queue[p])
      /\ \A t \in ClientThreads : ClientUses(p, t) =>
           client[p][t].fd \in FdNums /\ fds[p][client[p][t].fd].side = "client"
      /\ Free.side = "none"
  BY UsersAre DEF ServerOwns
<1>3. ASSUME NEW fd \in FdNums, Used(p, fd), fd \in Range(m_socket_fd_queue[p]) => fd \in Range(m_socket_fd_queue'[p]),
             acceptor[p] # Idle /\ acceptor[p].fd = fd =>
               \/ acceptor'[p] # Idle /\ acceptor'[p].fd = fd
               \/ fd \in Range(m_socket_fd_queue'[p])
      PROVE  Used(p, fd)'
  BY <1>0, <1>3 DEF Used, ClientUses, ServerUses
<1>4. CASE Accept(p)
  <2>1. PICK c : c = Head(backlog[p])
    OBVIOUS
  <2>2. PICK fd \in FdNums : /\ Opens(p, fd, [conn |-> c, side |-> "server"])
                             /\ acceptor' = [acceptor EXCEPT ![p].pc = "testing", ![p].fd = fd]
    BY <1>4, <2>1 DEF Accept
  <2>3. backlog[p] # <<>> /\ acceptor[p] = Idle /\ UNCHANGED m_socket_fd_queue
    BY <1>4 DEF Accept
  <2>4. c \in ConnIds
    BY <2>1, <2>3, TailInjective DEF NetType
  <2>5. PICK end : end = [conn |-> c, side |-> "server"]
    OBVIOUS
  <2>6. end \in End /\ end.side = "server"
    BY <2>4, <2>5 DEF End, Sides
  <2>7. fds[p][fd] = Free /\ \A g \in FdNums : fds'[p][g] = IF g = fd THEN end ELSE fds[p][g]
    BY <2>2, <2>5, <2>6, OpensFree
  <2>8. acceptor'[p].fd = fd /\ acceptor'[p].pc = "testing" /\ acceptor'[p] # Idle
    <3>1. PICK me : me = [Idle EXCEPT !.pc = "testing", !.fd = fd]
      OBVIOUS
    <3>2. me.pc = "testing" /\ me.fd = fd
      BY <1>0, <3>1 DEF Worker
    <3>3. me = [acceptor[p] EXCEPT !.pc = "testing", !.fd = fd]
      BY <2>3, <3>1
    <3>4. acceptor'[p] = me
      BY <1>0, <2>2, <3>3
    <3> QED  BY <3>2, <3>4, IdleIs
  <2>9. \A g \in FdNums \ {fd} : Stays(p, g)
    BY <2>7
  <2>10. ClientOwns(p)'
    <3>1. \A t \in ClientThreads : ClientUses(p, t) => Stays(p, client[p][t].fd)
      BY <1>2, <2>7, <2>9
    <3> QED  BY <1>0, <3>1, ClientFrame
  <2>11. ServerOwns(p)'
    <3>1. \A g \in Range(m_socket_fd_queue'[p]) : g # fd /\ fds'[p][g].side = "server"
      BY <1>2, <2>3, <2>7
    <3>2. \A v \in ServerThreads : ServerUses(p, v) =>
            server[p][v].fd # fd /\ fds'[p][server[p][v].fd].side = "server"
      BY <1>1, <1>2, <2>7
    <3>3. fds'[p][fd].side = "server"
      BY <2>6, <2>7
    <3> QED  BY <1>0, <1>1, <1>2, <2>3, <2>8, <3>1, <3>2, <3>3, AcceptorOwnsNext
  <2>12. Used(p, fd)' /\ \A g \in FdNums : Used(p, g) => Used(p, g)'
    BY <1>3, <2>3, <2>8 DEF Used
  <2>13. NoneLeft(p)'
    BY <1>0, <2>9, <2>12, NoneLeftNext
  <2> QED  BY <2>10, <2>11, <2>13
<1>5. CASE TestLimit(p) /\ CloseConn(p, acceptor[p].fd, TRUE) /\ acceptor' = [acceptor EXCEPT ![p] = Idle]
  <2>1. PICK fd \in FdNums : fd = acceptor[p].fd
    BY <1>2, <1>5, IdleIs DEF TestLimit
  <2>2. acceptor[p] # Idle /\ acceptor'[p] = Idle /\ UNCHANGED m_socket_fd_queue
    BY <1>0, <1>5, IdleIs DEF TestLimit
  <2>3. \A g \in FdNums : fds'[p][g] = IF g = fd THEN Free ELSE fds[p][g]
    BY <1>0, <1>5, <2>1 DEF CloseConn
  <2>4. \A g \in FdNums \ {fd} : Stays(p, g)
    BY <2>3
  <2>5. ClientOwns(p)'
    <3>1. \A t \in ClientThreads : ClientUses(p, t) => Stays(p, client[p][t].fd)
      BY <1>2, <2>1, <2>2, <2>4
    <3> QED  BY <1>0, <3>1, ClientFrame
  <2>6. ServerOwns(p)'
    <3>1. \A g \in Range(m_socket_fd_queue'[p]) : fds'[p][g].side = "server"
      BY <1>2, <2>1, <2>2, <2>3
    <3>2. \A v \in ServerThreads : ServerUses(p, v) => fds'[p][server[p][v].fd].side = "server"
      BY <1>1, <2>1, <2>2, <2>3
    <3> QED  BY <1>0, <1>1, <1>2, <2>2, <3>1, <3>2, AcceptorOwnsNext
  <2>7. \A g \in FdNums \ {fd} : Used(p, g) => Used(p, g)'
    BY <1>3, <2>1, <2>2
  <2>8. NoneLeft(p)'
    BY <1>0, <2>3, <2>4, <2>7, NoneLeftNext
  <2> QED  BY <2>5, <2>6, <2>8
<1>6. CASE TestLimit(p) /\ UNCHANGED fds /\ acceptor' = [acceptor EXCEPT ![p].pc = "enqueuing"]
  <2>1. acceptor[p] # Idle /\ UNCHANGED m_socket_fd_queue
    BY <1>6, IdleIs DEF TestLimit
  <2>2. acceptor'[p].fd = acceptor[p].fd
    BY <1>0, <1>6 DEF Worker
  <2>3. \A fd \in FdNums : Stays(p, fd)
    BY <1>6
  <2>4. ClientOwns(p)'
    BY <1>0, <1>2, <2>3, ClientFrame
  <2>5. ServerOwns(p)'
    <3>1. /\ \A g \in Range(m_socket_fd_queue'[p]) : fds'[p][g].side = "server"
          /\ \A v \in ServerThreads : ServerUses(p, v) => fds'[p][server[p][v].fd].side = "server"
          /\ fds'[p][acceptor'[p].fd].side = "server"
      BY <1>1, <1>2, <1>6, <2>1, <2>2
    <3> QED  BY <1>0, <1>1, <1>2, <2>1, <2>2, <3>1, AcceptorOwnsNext
  <2>6. acceptor'[p] # Idle
    <3>1. acceptor'[p].pc = "enqueuing"
      BY <1>0, <1>6 DEF Worker
    <3> QED  BY <3>1, IdleIs
  <2>7. \A fd \in FdNums : Used(p, fd) => Used(p, fd)'
    BY <1>3, <2>1, <2>2, <2>6
  <2>8. NoneLeft(p)'
    BY <1>0, <2>3, <2>7, NoneLeftNext
  <2> QED  BY <2>4, <2>5, <2>8
<1>7. CASE EnqueueSocket(p)
  <2>1. PICK fd \in FdNums : fd = acceptor[p].fd
    BY <1>2, <1>7, IdleIs DEF EnqueueSocket
  <2>2. /\ acceptor[p] # Idle /\ acceptor'[p] = Idle /\ UNCHANGED fds
        /\ m_socket_fd_queue'[p] = Append(m_socket_fd_queue[p], fd)
    BY <1>0, <1>7, <2>1, IdleIs DEF EnqueueSocket, netVars
  <2>3. IsInjective(m_socket_fd_queue'[p]) /\ Range(m_socket_fd_queue'[p]) = Range(m_socket_fd_queue[p]) \cup {fd}
    BY <1>0, <1>2, <2>1, <2>2, AppendNew
  <2>4. \A g \in FdNums : Stays(p, g)
    BY <2>2
  <2>5. ClientOwns(p)'
    BY <1>0, <1>2, <2>4, ClientFrame
  <2>6. ServerOwns(p)'
    <3>1. \A g \in Range(m_socket_fd_queue'[p]) : fds'[p][g].side = "server"
      BY <1>2, <2>1, <2>2, <2>3
    <3>2. \A v \in ServerThreads : ServerUses(p, v) =>
            /\ fds'[p][server[p][v].fd].side = "server"
            /\ server[p][v].fd \notin Range(m_socket_fd_queue'[p])
      BY <1>1, <2>1, <2>2, <2>3
    <3> QED  BY <1>0, <2>2, <2>3, <3>1, <3>2, AcceptorOwnsNext
  <2>7. \A g \in FdNums : Used(p, g) => Used(p, g)'
    BY <1>3, <2>1, <2>3
  <2>8. NoneLeft(p)'
    BY <1>0, <2>4, <2>7, NoneLeftNext
  <2> QED  BY <2>5, <2>6, <2>8
<1>8. TestLimit(p) => \/ CloseConn(p, acceptor[p].fd, TRUE) /\ acceptor' = [acceptor EXCEPT ![p] = Idle]
                      \/ UNCHANGED fds /\ acceptor' = [acceptor EXCEPT ![p].pc = "enqueuing"]
  BY DEF TestLimit
<1> QED  BY <1>4, <1>5, <1>6, <1>7, <1>8 DEF AcceptStep

\* The end of the process.
LEMMA EndsOwners ==
  ASSUME NetType, ClientType, ServerType, NEW p \in Peers, Ends(p)
  PROVE  ClientOwns(p)' /\ ServerOwns(p)' /\ NoneLeft(p)'
<1>1. /\ \A t \in ClientThreads : client'[p][t] = Idle
      /\ \A w \in ServerThreads : server'[p][w] = Idle
      /\ acceptor'[p] = Idle /\ m_socket_fd_queue'[p] = <<>>
      /\ \A fd \in FdNums : fds'[p][fd] = Free
  BY DEF Ends, NetType, ClientType, ServerType
<1>2. /\ \A t \in ClientThreads : ~ClientUses(p, t)'
      /\ \A w \in ServerThreads : ~ServerUses(p, w)'
  BY <1>1, IdleIs DEF ClientUses, ServerUses
<1>3. Range(<< >>) = {} /\ IsInjective(<< >>)
  BY DEF Range, IsInjective
<1>4. ClientOwns(p)'
  BY <1>2 DEF ClientOwns
<1>5. ServerOwns(p)'
  BY <1>1, <1>2, <1>3 DEF ServerOwns
<1>6. NoneLeft(p)'
  BY <1>1 DEF NoneLeft
<1> QED  BY <1>4, <1>5, <1>6

LEMMA OwnersNext ==
  ASSUME NetType, ConnsInv, ClientType, ServerType, ClientWorkers, ServerWorkers, DiskType, OwnersInv,
         StepKind
  PROVE  OwnersInv'
<1>1. ASSUME NEW p \in Peers, p \notin stolen'
      PROVE  ClientOwns(p)' /\ ServerOwns(p)' /\ NoneLeft(p)'
  <2>1. p \notin stolen
    <3>1. ASSUME NEW q \in Peers, Ends(q) \/ Want(q) \/ AcceptStep(q) \/ \E f \in Files : RemoveFile(q, f)
          PROVE  UNCHANGED stolen
      BY <3>1 DEF Ends, Want, AcceptStep, Accept, TestLimit, EnqueueSocket, RemoveFile
    <3>2. ASSUME NEW q \in Peers, NEW w \in ServerThreads, ServerKind(q, w)
          PROVE  stolen \subseteq stolen'
      BY <3>2 DEF ServerKind, ServerKeeps, ServerCloses, ServerClosesAgain, TakeSocket, CountDown
    <3> QED  BY <1>1, <3>1, <3>2 DEF StepKind, StepOf
  <2>2. ClientOwns(p) /\ ServerOwns(p) /\ NoneLeft(p)
    BY <2>1 DEF OwnersInv
  <2>3. ASSUME NEW q \in Peers, StepOf(q), p # q
        PROVE  ClientOwns(p)' /\ ServerOwns(p)' /\ NoneLeft(p)'
    BY <2>2, <2>3, OthersStay, StepStays, OwnersFrame
  <2>4. CASE UNCHANGED <<wanted, clientVars, serverVars, netVars, diskVars, stolen>>
    <3>1. /\ UNCHANGED client /\ UNCHANGED server /\ UNCHANGED acceptor /\ UNCHANGED m_socket_fd_queue
          /\ UNCHANGED shared /\ UNCHANGED fds /\ UNCHANGED conns
      BY <2>4 DEF clientVars, serverVars, netVars, diskVars
    <3> QED  BY <2>2, <3>1, SameStays, OwnersFrame
  <2>5. ASSUME StepOf(p)
        PROVE  ClientOwns(p)' /\ ServerOwns(p)' /\ NoneLeft(p)'
    <3>0. \A fd \in FdNums : fds'[p][fd] = fds[p][fd] => Stays(p, fd)
      BY <2>5, StepStays
    <3>1. CASE Ends(p)
      BY <3>1, EndsOwners
    <3>2. CASE AcceptStep(p)
      BY <2>2, <3>0, <3>2, AcceptOwners
    <3>3. ASSUME NEW t \in ClientThreads, ClientKind(p, t), UNCHANGED <<serverVars, shared>>
          PROVE  ClientOwns(p)' /\ ServerOwns(p)' /\ NoneLeft(p)'
      BY <2>2, <3>0, <3>3, ClientOwners
    <3>4. ASSUME NEW w \in ServerThreads, ServerKind(p, w), UNCHANGED <<clientVars, shared>>
          PROVE  ClientOwns(p)' /\ ServerOwns(p)' /\ NoneLeft(p)'
      BY <1>1, <2>2, <3>0, <3>4, ServerOwners
    <3>5. CASE Want(p) \/ \E f \in Files : RemoveFile(p, f)
      <4>1. /\ UNCHANGED client /\ UNCHANGED server /\ UNCHANGED acceptor /\ UNCHANGED m_socket_fd_queue
            /\ UNCHANGED fds
        BY <3>5 DEF Want, RemoveFile, clientVars, serverVars, netVars
      <4>2. shared'[p] \subseteq shared[p]
        BY <3>5 DEF Want, RemoveFile, diskVars, DiskType
      <4> QED  BY <2>2, <3>0, <4>1, <4>2, OwnersFrame
    <3> QED  BY <2>5, <3>1, <3>2, <3>3, <3>4, <3>5 DEF StepOf
  <2> QED  BY <2>3, <2>4, <2>5 DEF StepKind
<1> QED  BY <1>1 DEF OwnersInv

-----------------------------------------------------------------------------
(* The theorems.                                                           *)

LEMMA TypesTogether == TypeOK <=> NetType /\ ClientType /\ ServerType /\ DiskType /\ LifeType
BY DEF TypeOK, NetType, ClientType, ServerType, DiskType, LifeType

LEMMA InitTypes ==
  ASSUME Init
  PROVE  TypeOK
<1>1. NetType
  <2>1. fds \in [Peers -> [FdNums -> End \cup {Free}]]
    BY DEF Init
  <2> QED  BY <2>1 DEF Init, NetType
<1>2. ClientType
  BY IdleIs, RequestsAssumption DEF Init, ClientType
<1>3. ServerType
  BY IdleIs DEF Init, ServerType
<1>4. DiskType
  BY FilesAssumption DEF Init, DiskType
<1>5. LifeType
  BY NumbersAssumption DEF Init, LifeType
<1> QED  BY <1>1, <1>2, <1>3, <1>4, <1>5, TypesTogether

LEMMA InitInvariants ==
  ASSUME Init
  PROVE  CountExact /\ TransferInv
<1>0. Range(<< >>) = {} /\ IsInjective(<< >>)
  BY DEF Range, IsInjective
<1>1. CountExact
  <2>1. ASSUME NEW p \in Peers
        PROVE  m_socket_fd_counts[p] = CountOf(p) /\ m_socket_fd_counts[p] <= Limit + 1
    <3>1. Busy(p) = {}
      BY DEF Init, Busy
    <3>2. Cardinality(Busy(p)) = 0
      BY <3>1, FS_EmptySet
    <3>3. acceptor[p].pc = "idle" /\ m_socket_fd_queue[p] = <<>> /\ m_socket_fd_counts[p] = 0
      BY IdleIs DEF Init
    <3> QED  BY <3>2, <3>3, NumbersAssumption DEF CountOf
  <2> QED  BY <2>1, CountIs
<1>2. WorkersInv
  <2>1. ClientWorkers
    <3>1. ASSUME NEW p \in Peers
          PROVE  \A req \in Range(wanted[p]) \cup Range(m_request_queue[p]) : req.server # p
      BY <1>0, RequestsAssumption DEF Init, Range
    <3>2. \A p \in Peers, t \in ClientThreads : GoodClient(p, client[p][t])
      BY DEF Init, GoodClient
    <3> QED  BY <3>1, <3>2 DEF ClientWorkers
  <2>2. ServerWorkers
    BY DEF Init, ServerWorkers, GoodAcceptor, GoodServer
  <2> QED  BY <2>1, <2>2 DEF WorkersInv
<1>3. ConnsInv
  <2>1. NoSelf
    BY DEF Init, NoSelf
  <2>2. FdsOpen
    BY ConnIdsAre DEF Init, FdsOpen, Connected, Free
  <2>3. BacklogOpen
    BY <1>0 DEF Init, BacklogOpen
  <2> QED  BY <2>1, <2>2, <2>3 DEF ConnsInv
<1>4. OwnersInv
  <2>1. ASSUME NEW p \in Peers
        PROVE  ClientOwns(p) /\ ServerOwns(p) /\ NoneLeft(p)
    <3>1. /\ \A t \in ClientThreads : ~ClientUses(p, t)
          /\ \A w \in ServerThreads : ~ServerUses(p, w)
      BY IdleIs DEF Init, ClientUses, ServerUses
    <3>2. ClientOwns(p)
      BY <3>1 DEF ClientOwns
    <3>3. acceptor[p] = Idle /\ m_socket_fd_queue[p] = <<>>
      BY DEF Init
    <3>4. ServerOwns(p)
      BY <1>0, <3>1, <3>3 DEF ServerOwns
    <3>5. NoneLeft(p)
      BY DEF Init, NoneLeft
    <3> QED  BY <3>2, <3>4, <3>5
  <2> QED  BY <2>1 DEF OwnersInv
<1> QED  BY <1>1, <1>2, <1>3, <1>4 DEF TransferInv

LEMMA TransferNext ==
  ASSUME TypeOK, CountExact, TransferInv, [Next]_vars
  PROVE  TypeOK' /\ CountExact' /\ TransferInv'
<1>0. NetType /\ ClientType /\ ServerType /\ DiskType /\ LifeType /\ ClientWorkers /\ ServerWorkers
      /\ ConnsInv /\ OwnersInv
  BY TypesTogether DEF TransferInv, WorkersInv
<1>1. StepKind
  BY <1>0, StepKinds
<1>2. NetType' /\ ConnsInv'
  BY <1>0, <1>1, NetNext
<1>3. ClientType' /\ ClientWorkers'
  BY <1>0, <1>1, ClientNext
<1>4. ServerType' /\ ServerWorkers' /\ CountExact'
  BY <1>0, <1>1, ServerNext
<1>5. DiskType' /\ LifeType'
  BY <1>0, DiskNext, LifeNext
<1>6. OwnersInv'
  BY <1>0, <1>1, OwnersNext
<1>7. TypeOK'
  BY <1>2, <1>3, <1>4, <1>5 DEF TypeOK, NetType, ClientType, ServerType, DiskType, LifeType
<1> QED  BY <1>2, <1>3, <1>4, <1>6, <1>7 DEF TransferInv, WorkersInv

\* The holders of descriptors, by what they are.
LEMMA HoldersAre ==
  ASSUME NEW p \in Peers, NEW h \in Holders(p)
  PROVE  \/ \E t \in ClientThreads : h = <<"client", t>> /\ ClientUses(p, t) /\ FdOf(p, h) = client[p][t].fd
         \/ \E w \in ServerThreads : h = <<"server", w>> /\ ServerUses(p, w) /\ FdOf(p, h) = server[p][w].fd
         \/ \E i \in DOMAIN m_socket_fd_queue[p] : h = <<"queue", i>> /\ FdOf(p, h) = m_socket_fd_queue[p][i]
         \/ h = <<"acceptor", 0>> /\ acceptor[p] # Idle /\ FdOf(p, h) = acceptor[p].fd
<1>1. CASE \E t \in ClientThreads : h = <<"client", t>> /\ ClientUses(p, t)
  BY <1>1 DEF FdOf
<1>2. CASE \E w \in ServerThreads : h = <<"server", w>> /\ ServerUses(p, w)
  BY <1>2 DEF FdOf
<1>3. CASE \E i \in DOMAIN m_socket_fd_queue[p] : h = <<"queue", i>>
  BY <1>3 DEF FdOf
<1>4. CASE h = <<"acceptor", 0>> /\ acceptor[p] # Idle
  BY <1>4 DEF FdOf
<1> QED  BY <1>1, <1>2, <1>3, <1>4 DEF Holders, ClientFds, ServerFds, ClientUses, ServerUses
LEMMA UsersHold ==
  ASSUME NEW p \in Peers, NEW fd, Used(p, fd)
  PROVE  \E h \in Holders(p) : FdOf(p, h) = fd
<1>1. ASSUME NEW t \in ClientThreads, ClientUses(p, t), client[p][t].fd = fd
      PROVE  \E h \in Holders(p) : FdOf(p, h) = fd
  <2>1. PICK h : h = <<"client", t>>
    OBVIOUS
  <2>2. h \in Holders(p)
    BY <1>1, <2>1 DEF Holders, ClientFds, ClientUses
  <2>3. FdOf(p, h) = fd
    BY <1>1, <2>1 DEF FdOf
  <2> QED  BY <2>2, <2>3
<1>2. ASSUME NEW w \in ServerThreads, ServerUses(p, w), server[p][w].fd = fd
      PROVE  \E h \in Holders(p) : FdOf(p, h) = fd
  <2>1. PICK h : h = <<"server", w>>
    OBVIOUS
  <2>2. h \in Holders(p)
    BY <1>2, <2>1 DEF Holders, ServerFds, ServerUses
  <2>3. FdOf(p, h) = fd
    BY <1>2, <2>1 DEF FdOf
  <2> QED  BY <2>2, <2>3
<1>3. ASSUME NEW i \in DOMAIN m_socket_fd_queue[p], m_socket_fd_queue[p][i] = fd
      PROVE  \E h \in Holders(p) : FdOf(p, h) = fd
  <2>1. PICK h : h = <<"queue", i>>
    OBVIOUS
  <2>2. h \in Holders(p)
    BY <2>1 DEF Holders
  <2>3. FdOf(p, h) = fd
    BY <1>3, <2>1 DEF FdOf
  <2> QED  BY <2>2, <2>3
<1>4. ASSUME acceptor[p] # Idle, acceptor[p].fd = fd
      PROVE  \E h \in Holders(p) : FdOf(p, h) = fd
  <2>1. PICK h : h = <<"acceptor", 0>>
    OBVIOUS
  <2>2. h \in Holders(p)
    BY <1>4, <2>1 DEF Holders
  <2>3. FdOf(p, h) = fd
    BY <1>4, <2>1 DEF FdOf
  <2> QED  BY <2>2, <2>3
<1> QED  BY <1>1, <1>2, <1>3, <1>4 DEF Used, Range

LEMMA OwnersThen ==
  ASSUME TypeOK, TransferInv
  PROVE  DescriptorsOwned
<1>0. NetType /\ ClientType /\ ServerType /\ ClientWorkers /\ ServerWorkers
  BY TypesTogether DEF TransferInv, WorkersInv
<1>1. SUFFICES ASSUME NEW p \in Peers \ stolen
               PROVE  /\ \A h \in Holders(p) :
                           /\ fds[p][FdOf(p, h)].side = IF h[1] = "client" THEN "client" ELSE "server"
                           /\ \A k \in Holders(p) : FdOf(p, h) = FdOf(p, k) => h = k
                      /\ \A fd \in FdNums : \/ fds[p][fd] = Free
                                            \/ \E h \in Holders(p) : FdOf(p, h) = fd
                                            \/ Leaked(p, fd)
  BY DEF DescriptorsOwned, Leaked
<1>2. p \in Peers /\ ClientOwns(p) /\ ServerOwns(p) /\ NoneLeft(p)
  BY DEF TransferInv, OwnersInv
<1>3. /\ \A t \in ClientThreads : ClientUses(p, t) => fds[p][client[p][t].fd].side = "client"
      /\ \A w \in ServerThreads : ServerUses(p, w) => fds[p][server[p][w].fd].side = "server"
      /\ \A i \in DOMAIN m_socket_fd_queue[p] : fds[p][m_socket_fd_queue[p][i]].side = "server"
      /\ acceptor[p] # Idle => fds[p][acceptor[p].fd].side = "server"
  BY <1>0, <1>2, UsersAre DEF Range
<1>4. ASSUME NEW h \in Holders(p)
      PROVE  /\ fds[p][FdOf(p, h)].side = IF h[1] = "client" THEN "client" ELSE "server"
             /\ \A k \in Holders(p) : FdOf(p, h) = FdOf(p, k) => h = k
  <2>1. fds[p][FdOf(p, h)].side = IF h[1] = "client" THEN "client" ELSE "server"
    BY <1>2, <1>3, HoldersAre
  <2>2. ASSUME NEW k \in Holders(p), FdOf(p, h) = FdOf(p, k)
        PROVE  h = k
    <3>1. CASE \E t \in ClientThreads : h = <<"client", t>> /\ ClientUses(p, t) /\ FdOf(p, h) = client[p][t].fd
      BY <1>2, <1>3, <2>2, <3>1, HoldersAre DEF ClientOwns
    <3>2. CASE \E w \in ServerThreads : h = <<"server", w>> /\ ServerUses(p, w) /\ FdOf(p, h) = server[p][w].fd
      BY <1>2, <1>3, <2>2, <3>2, HoldersAre DEF ServerOwns, Range
    <3>3. CASE \E i \in DOMAIN m_socket_fd_queue[p] : h = <<"queue", i>> /\ FdOf(p, h) = m_socket_fd_queue[p][i]
      BY <1>2, <1>3, <2>2, <3>3, HoldersAre DEF ServerOwns, Range, IsInjective
    <3>4. CASE h = <<"acceptor", 0>> /\ acceptor[p] # Idle /\ FdOf(p, h) = acceptor[p].fd
      BY <1>2, <1>3, <2>2, <3>4, HoldersAre DEF ServerOwns, Range
    <3> QED  BY <1>2, <3>1, <3>2, <3>3, <3>4, HoldersAre
  <2> QED  BY <2>1, <2>2
<1>5. ASSUME NEW fd \in FdNums
      PROVE  fds[p][fd] = Free \/ (\E h \in Holders(p) : FdOf(p, h) = fd) \/ Leaked(p, fd)
  BY <1>2, UsersHold DEF NoneLeft
<1> QED  BY <1>4, <1>5

\* The invariant that the other theorems rest on: every worker that is not idle has a
\* descriptor and a request for another peer; whoever closes what, a descriptor of a
\* connection is the only one of an open end that belongs to its process; and where nobody
\* closed a descriptor of somebody else, every descriptor has one user, at the right end.
THEOREM TransferInvariant == Spec => [](TypeOK /\ CountExact /\ TransferInv)
<1>1. Init => TypeOK /\ CountExact /\ TransferInv
  BY InitTypes, InitInvariants
<1>2. TypeOK /\ CountExact /\ TransferInv /\ [Next]_vars => TypeOK' /\ CountExact' /\ TransferInv'
  BY TransferNext
<1> QED  BY <1>1, <1>2, PTL DEF Spec

\* Types: among others, every descriptor in the queues and workers is one of the process's
\* table, and every descriptor stands for a connection that exists.
THEOREM TransferTypes == Spec => []TypeOK
BY TransferInvariant, PTL

\* m_socket_fd_counts counts the descriptors between the accept loop and the end of
\* HandleClient exactly, in every early return, and never passes the limit by two.
THEOREM CountCorrect == Spec => []CountExact
BY TransferInvariant, PTL

\* Unless the second close() after a received file hit a descriptor of somebody else, every
\* descriptor in use has one user, at the right end of a connection, and every open one is
\* in use, but for those of pushes whose file was missing.
THEOREM OwnedDescriptors == Spec => []DescriptorsOwned
<1>1. TypeOK /\ TransferInv => DescriptorsOwned
  BY OwnersThen
<1> QED  BY <1>1, TransferInvariant, PTL
=============================================================================
