------------------------------ MODULE WireProofs ------------------------------
(***************************************************************************)
(* Proofs about the sending of messages, for every set of threads, jobs    *)
(* and neighbours and every size of blocks and sockets of module Wire:     *)
(* that blocks stay whole (StreamFramed), and that the threads of a peer   *)
(* and its neighbours together keep the promise of module Links            *)
(* (KeepsPromise), which module PeerClient takes for granted.              *)
(***************************************************************************)
EXTENDS Wire, SequenceTheorems, TLAPS

-----------------------------------------------------------------------------
(* Blocks and the units of a stream.                                       *)

\* A block takes Size units.
LEMMA NextBlock ==
  ASSUME NEW a \in Nat, NEW b \in Nat, a < b
  PROVE  a * Size + Size <= b * Size
<1>1. PICK d \in Nat : b = a + 1 + d
  <2>1. b - a - 1 \in Nat /\ b = a + 1 + (b - a - 1)
    OBVIOUS
  <2> QED  BY <2>1
<1>2. b * Size = a * Size + Size + d * Size
  BY <1>1, NumbersAssumption
<1>3. a * Size \in Nat /\ d * Size \in Nat
  BY NumbersAssumption
<1> QED  BY <1>2, <1>3, NumbersAssumption

\* A number of units is a number of blocks and a rest.
LEMMA BlocksAndRest ==
  ASSUME NEW n \in Nat
  PROVE  /\ n \div Size \in Nat /\ n % Size \in 0 .. Size - 1
         /\ n = (n \div Size) * Size + (n % Size)
         /\ n \div Size <= n
<1>1. n \div Size \in Nat /\ n % Size \in 0 .. Size - 1 /\ n = (n \div Size) * Size + (n % Size)
  BY NumbersAssumption
<1>2. PICK b \in Nat : b = n \div Size
  BY <1>1
<1>3. b <= b * Size
  BY NumbersAssumption
<1>4. b * Size \in Nat
  BY NumbersAssumption
<1> QED  BY <1>1, <1>2, <1>3, <1>4

\* There is only one such pair of numbers.
LEMMA BlocksOf ==
  ASSUME NEW b \in Nat, NEW r \in 0 .. Size - 1
  PROVE  /\ b * Size + r \in Nat
         /\ (b * Size + r) \div Size = b
         /\ (b * Size + r) % Size = r
<1>1. PICK n \in Nat : n = b * Size + r
  BY NumbersAssumption
<1>2. PICK d \in Nat, m \in 0 .. Size - 1 : d = n \div Size /\ m = n % Size /\ n = d * Size + m
  BY BlocksAndRest
<1>3. d * Size \in Nat /\ b * Size \in Nat
  BY NumbersAssumption
<1>4. CASE d < b
  BY <1>1, <1>2, <1>3, <1>4, NextBlock, NumbersAssumption
<1>5. CASE b < d
  BY <1>1, <1>2, <1>3, <1>5, NextBlock, NumbersAssumption
<1>6. CASE d = b
  BY <1>1, <1>2, <1>3, <1>6
<1> QED  BY <1>4, <1>5, <1>6

\* The blocks of a number of units, without a division.
LEMMA BlockOfUnit ==
  ASSUME NEW b \in Nat, NEW r \in Nat, r <= Size, NEW k \in Nat, NEW j \in 1 .. Size,
         k * Size + j <= b * Size + r
  PROVE  k <= b /\ (k = b => j <= r)
<1>1. k * Size \in Nat /\ b * Size \in Nat
  BY NumbersAssumption
<1>2. ASSUME b < k  PROVE FALSE
  BY <1>1, <1>2, NextBlock, NumbersAssumption
<1>3. k = b => j <= r
  BY <1>1
<1> QED  BY <1>2, <1>3

\* Whole blocks before another one.
LEMMA EarlierBlock ==
  ASSUME NEW b \in Nat, NEW k \in Nat, k < b, NEW j \in 1 .. Size
  PROVE  k * Size + j <= b * Size /\ k * Size + j \in Nat \ {0}
<1>1. k * Size \in Nat /\ b * Size \in Nat
  BY NumbersAssumption
<1> QED  BY <1>1, NextBlock, NumbersAssumption

\* Every unit is in a block.
LEMMA UnitInBlock ==
  ASSUME NEW n \in Nat, NEW i \in 1 .. n
  PROVE  \E k \in 0 .. n, j \in 1 .. Size : i = k * Size + j
<1>1. i - 1 \in Nat
  OBVIOUS
<1>2. PICK k \in Nat, r \in 0 .. Size - 1 : i - 1 = k * Size + r /\ k <= i - 1
  BY <1>1, BlocksAndRest
<1>3. k * Size \in Nat
  BY NumbersAssumption
<1>4. i = k * Size + (r + 1) /\ r + 1 \in 1 .. Size /\ k \in 0 .. n
  BY <1>2, <1>3, NumbersAssumption
<1> QED  BY <1>4

\* Framed says it of all blocks.
LEMMA FramedIs ==
  ASSUME NEW s \in Seq(Unit), Framed(s), NEW k \in Nat, NEW j \in 1 .. Size,
         k * Size + j <= Len(s)
  PROVE  s[k * Size + j] = <<s[k * Size + 1][1], j>>
<1>1. k <= k * Size /\ k * Size \in Nat
  BY NumbersAssumption
<1>2. k \in 0 .. Len(s)
  BY <1>1
<1> QED  BY <1>2 DEF Framed

\* The whole blocks of a stream.
LEMMA WholeIs ==
  ASSUME NEW s \in Seq(Unit), NEW b \in Nat, NEW r \in 0 .. Size - 1, Len(s) = b * Size + r
  PROVE  /\ Whole(s) = [k \in 1 .. b |-> s[k * Size][1]]
         /\ \A k \in 1 .. b : k * Size \in 1 .. Len(s)
         /\ Whole(s) \in Seq(Messages)
         /\ Len(Whole(s)) = b
<1>1. Len(s) \div Size = b
  BY BlocksOf
<1>2. ASSUME NEW k \in 1 .. b  PROVE k * Size \in 1 .. Len(s)
  <2>1. PICK a \in Nat : k = a + 1
    <3>1. k - 1 \in Nat /\ k = (k - 1) + 1
      OBVIOUS
    <3> QED  BY <3>1
  <2>2. a * Size + Size <= b * Size
    BY <2>1, NextBlock
  <2>3. k * Size = a * Size + Size /\ a * Size \in Nat /\ b * Size \in Nat
    BY <2>1, NumbersAssumption
  <2> QED  BY <2>2, <2>3, NumbersAssumption
<1>3. \A k \in 1 .. b : s[k * Size][1] \in Messages
  BY <1>2 DEF Unit
<1> QED  BY <1>1, <1>2, <1>3 DEF Whole

\* The units of two streams, one after the other.
LEMMA UnitsOf ==
  ASSUME NEW s \in Seq(Unit), NEW t \in Seq(Unit)
  PROVE  /\ s \o t \in Seq(Unit)
         /\ Len(s \o t) = Len(s) + Len(t)
         /\ Len(s) \in Nat /\ Len(t) \in Nat
         /\ \A i \in 1 .. Len(s) : (s \o t)[i] = s[i]
         /\ \A i \in 1 .. Len(t) : (s \o t)[Len(s) + i] = t[i]
OBVIOUS

\* Where a stream is cut does not matter.
LEMMA UnitsJoined ==
  ASSUME NEW s \in Seq(Unit), NEW t \in Seq(Unit), NEW u \in Seq(Unit)
  PROVE  (s \o t) \o u = s \o (t \o u)
BY ConcatAssociative

\* A piece of the block that is being sent: r of its units were sent before.
LEMMA PieceAdded ==
  ASSUME NEW s \in Seq(Unit), Framed(s), NEW m \in Messages,
         NEW r \in 0 .. Size - 1, Len(s) % Size = r,
         r > 0 => s[Len(s)][1] = m,
         NEW n \in 1 .. Size - r
  PROVE  LET t == s \o [i \in 1 .. n |-> <<m, r + i>>] IN
         /\ Framed(t)
         /\ Len(t) % Size = IF r + n = Size THEN 0 ELSE r + n
         /\ t[Len(t)][1] = m
         /\ Whole(t) = IF r + n = Size THEN Append(Whole(s), m) ELSE Whole(s)
<1> DEFINE piece == [i \in 1 .. n |-> <<m, r + i>>]
           t == s \o piece
<1>b. PICK b \in Nat : Len(s) = b * Size + r
  <2>1. Len(s) \in Nat /\ r = Len(s) % Size
    BY LenProperties
  <2> QED  BY <2>1, BlocksAndRest
<1> USE <1>b
<1>0. r \in Nat /\ n \in Nat /\ n > 0 /\ r + n <= Size /\ Size \in Nat /\ Size > 0 /\ b * Size \in Nat
  BY NumbersAssumption
<1>1. /\ piece \in Seq(Unit) /\ Len(piece) = n
      /\ \A i \in 1 .. n : piece[i] = <<m, r + i>>
  <2>1. \A i \in 1 .. n : r + i \in 1 .. Size
    BY <1>0
  <2>2. \A i \in 1 .. n : <<m, r + i>> \in Unit
    BY <2>1 DEF Unit
  <2>3. piece \in [1 .. n -> Unit]
    BY <2>2
  <2>4. piece \in Seq(Unit)
    <3> HIDE DEF piece
    <3> QED  BY <1>0, <2>3, SeqDef
  <2>5. Len(piece) = n
    BY <1>0, <2>3, <2>4, LenProperties
  <2> QED  BY <2>4, <2>5
<1> HIDE DEF piece
<1>2. /\ t \in Seq(Unit) /\ Len(t) = b * Size + (r + n)
      /\ \A i \in 1 .. Len(s) : t[i] = s[i]
      /\ \A i \in 1 .. n : t[Len(s) + i] = <<m, r + i>>
  <2>1. /\ t \in Seq(Unit) /\ Len(t) = Len(s) + n
        /\ \A i \in 1 .. Len(s) : t[i] = s[i]
        /\ \A i \in 1 .. n : t[Len(s) + i] = piece[i]
    BY <1>1, UnitsOf
  <2>2. Len(t) = b * Size + (r + n)
    BY <1>0, <2>1
  <2> QED  BY <1>1, <2>1, <2>2
<1> HIDE DEF t
\* The units of the block that is being sent.
<1>3. ASSUME NEW j \in 1 .. r + n  PROVE t[b * Size + j] = <<m, j>>
  <2>1. CASE j <= r
    <3>1. r \in 1 .. Size /\ j \in 1 .. Size /\ b * Size + r <= Len(s) /\ b * Size + j <= Len(s)
          /\ b * Size + j \in 1 .. Len(s)
      BY <1>0, <2>1
    <3>2. s[b * Size + r] = <<s[b * Size + 1][1], r>> /\ s[b * Size + j] = <<s[b * Size + 1][1], j>>
      BY <3>1, FramedIs
    <3>3. s[b * Size + r][1] = m
      BY <2>1
    <3> QED  BY <1>2, <3>1, <3>2, <3>3
  <2>2. CASE j > r
    <3>1. j - r \in 1 .. n /\ b * Size + j = Len(s) + (j - r) /\ r + (j - r) = j
      BY <1>0, <2>2
    <3> QED  BY <1>2, <3>1
  <2> QED  BY <2>1, <2>2, <1>0
<1>4. Framed(t)
  <2> SUFFICES ASSUME NEW k \in 0 .. Len(t), NEW j \in 1 .. Size, k * Size + j <= Len(t)
               PROVE  t[k * Size + j] = <<t[k * Size + 1][1], j>>
    BY DEF Framed
  <2>0. k \in Nat
    BY <1>0, <1>2
  <2>1. k <= b /\ (k = b => j <= r + n)
    BY <1>0, <1>2, <2>0, BlockOfUnit
  <2>2. CASE k = b
    <3>1. j \in 1 .. r + n /\ 1 \in 1 .. r + n
      BY <1>0, <2>1, <2>2
    <3> QED  BY <1>3, <2>2, <3>1
  <2>3. CASE k < b
    <3>1. /\ k * Size + j <= b * Size /\ k * Size + j \in Nat \ {0}
          /\ k * Size + 1 <= b * Size /\ k * Size + 1 \in Nat \ {0}
      BY <1>0, <2>0, <2>3, EarlierBlock
    <3>2. k * Size + j \in 1 .. Len(s) /\ k * Size + 1 \in 1 .. Len(s) /\ k * Size + j <= Len(s)
      <4>1. PICK first \in Nat, unit \in Nat, end \in Nat :
              first = k * Size + 1 /\ unit = k * Size + j /\ end = b * Size
        BY <1>0, <3>1
      <4>2. first > 0 /\ unit > 0 /\ first <= end /\ unit <= end /\ Len(s) = end + r
        BY <3>1, <4>1
      <4>3. first \in 1 .. Len(s) /\ unit \in 1 .. Len(s) /\ unit <= Len(s)
        BY <1>0, <4>2
      <4> QED  BY <4>1, <4>3
    <3>3. s[k * Size + j] = <<s[k * Size + 1][1], j>>
      BY <2>0, <3>2, FramedIs
    <3> QED  BY <1>2, <3>2, <3>3
  <2> QED  BY <2>0, <2>1, <2>2, <2>3
<1>5. t[Len(t)][1] = m
  <2>1. r + n \in 1 .. r + n
    BY <1>0
  <2>2. t[b * Size + (r + n)] = <<m, r + n>>
    BY <1>3, <2>1
  <2> QED  BY <1>2, <2>2
<1>6. /\ Whole(s) = [k \in 1 .. b |-> s[k * Size][1]] /\ \A k \in 1 .. b : k * Size \in 1 .. Len(s)
      /\ Whole(s) \in Seq(Messages) /\ Len(Whole(s)) = b
  BY WholeIs
<1>7. ASSUME r + n = Size
      PROVE  Len(t) % Size = 0 /\ Whole(t) = Append(Whole(s), m)
  <2>1. Len(t) = (b + 1) * Size + 0 /\ (b + 1) * Size = b * Size + Size /\ 0 \in 0 .. Size - 1
    BY <1>0, <1>2, <1>7
  <2>2. Whole(t) = [k \in 1 .. b + 1 |-> t[k * Size][1]] /\ Whole(t) \in Seq(Messages) /\ Len(Whole(t)) = b + 1
    BY <1>2, <2>1, WholeIs
  <2>3. t[(b + 1) * Size][1] = m
    BY <1>0, <1>2, <1>5, <1>7, <2>1
  <2>4. \A k \in 1 .. b : Whole(t)[k] = Whole(s)[k]
    BY <1>2, <1>6, <2>2
  <2>5. Append(Whole(s), m) \in Seq(Messages) /\ Len(Append(Whole(s), m)) = b + 1
        /\ Append(Whole(s), m)[b + 1] = m /\ \A k \in 1 .. b : Append(Whole(s), m)[k] = Whole(s)[k]
    BY <1>6
  <2>6. Whole(t)[b + 1] = m
    BY <2>2, <2>3
  <2>7. \A k \in 1 .. b + 1 : Whole(t)[k] = Append(Whole(s), m)[k]
    BY <2>4, <2>5, <2>6
  <2>8. Whole(t) = Append(Whole(s), m)
    BY <2>2, <2>5, <2>7, SeqEqual
  <2>9. b + 1 \in Nat /\ Len(t) % Size = 0
    BY <1>0, <2>1, BlocksOf
  <2> QED  BY <2>8, <2>9
<1>8. ASSUME r + n # Size
      PROVE  Len(t) % Size = r + n /\ Whole(t) = Whole(s)
  <2>1. r + n \in 0 .. Size - 1
    BY <1>0, <1>8
  <2>2. Whole(t) = [k \in 1 .. b |-> t[k * Size][1]]
    BY <1>2, <2>1, WholeIs
  <2>3. Whole(t) = Whole(s)
    BY <1>2, <1>6, <2>2
  <2>4. Len(t) % Size = r + n
    BY <1>2, <2>1, BlocksOf
  <2> QED  BY <2>3, <2>4
<1>9. /\ Framed(t)
      /\ Len(t) % Size = IF r + n = Size THEN 0 ELSE r + n
      /\ t[Len(t)][1] = m
      /\ Whole(t) = IF r + n = Size THEN Append(Whole(s), m) ELSE Whole(s)
  BY <1>4, <1>5, <1>7, <1>8
<1> QED  BY <1>9 DEF t, piece

\* The first block is taken off the stream.
LEMMA BlockTaken ==
  ASSUME NEW block \in Seq(Unit), NEW rest \in Seq(Unit), Len(block) = Size, Framed(block \o rest)
  PROVE  LET s == block \o rest IN
         /\ Framed(rest)
         /\ Len(rest) % Size = Len(s) % Size
         /\ rest # <<>> => rest[Len(rest)] = s[Len(s)]
         /\ \E m \in Messages :
              /\ block = Block(m)
              /\ Whole(s) # <<>> /\ Head(Whole(s)) = m
         /\ Tail(Whole(s)) = Whole(rest)
<1> DEFINE s == block \o rest
<1>0. Size \in Nat /\ Size > 0 /\ 1 \in 1 .. Size /\ Size \in 1 .. Size
  BY NumbersAssumption
<1>1. /\ s \in Seq(Unit) /\ Len(s) = Size + Len(rest) /\ Len(rest) \in Nat
      /\ \A i \in 1 .. Size : s[i] = block[i]
      /\ \A i \in 1 .. Len(rest) : s[Size + i] = rest[i]
  <2>1. /\ s \in Seq(Unit) /\ Len(s) = Len(block) + Len(rest) /\ Len(rest) \in Nat
        /\ \A i \in 1 .. Len(block) : s[i] = block[i]
        /\ \A i \in 1 .. Len(rest) : s[Len(block) + i] = rest[i]
    BY UnitsOf
  <2> QED  BY <2>1
<1> HIDE DEF s
<1>2. Framed(s)
  BY DEF s
<1>3. Framed(rest)
  <2> SUFFICES ASSUME NEW k \in 0 .. Len(rest), NEW j \in 1 .. Size, k * Size + j <= Len(rest)
               PROVE  rest[k * Size + j] = <<rest[k * Size + 1][1], j>>
    BY DEF Framed
  <2>1. k \in Nat /\ k + 1 \in Nat /\ k * Size \in Nat /\ (k + 1) * Size = Size + k * Size
    BY <1>0, <1>1
  <2>2. (k + 1) * Size + j <= Len(s) /\ (k + 1) * Size + j = Size + (k * Size + j)
        /\ (k + 1) * Size + 1 = Size + (k * Size + 1)
    BY <1>0, <1>1, <2>1
  <2>3. s[(k + 1) * Size + j] = <<s[(k + 1) * Size + 1][1], j>>
    BY <1>1, <1>2, <2>1, <2>2, FramedIs
  <2>4. k * Size + j \in 1 .. Len(rest) /\ k * Size + 1 \in 1 .. Len(rest)
    BY <1>0, <1>1, <2>1
  <2> QED  BY <1>1, <2>2, <2>3, <2>4
<1>4. PICK b \in Nat, r \in 0 .. Size - 1 : Len(rest) = b * Size + r
  BY <1>1, BlocksAndRest
<1>5. Len(s) = (b + 1) * Size + r
  BY <1>0, <1>1, <1>4
<1>6. Len(rest) % Size = Len(s) % Size
  BY <1>4, <1>5, BlocksOf
<1>7. rest # <<>> => rest[Len(rest)] = s[Len(s)]
  BY <1>0, <1>1
<1>8. /\ Whole(s) = [k \in 1 .. b + 1 |-> s[k * Size][1]] /\ Whole(s) \in Seq(Messages)
      /\ Len(Whole(s)) = b + 1
  BY <1>1, <1>5, WholeIs
<1>9. /\ Whole(rest) = [k \in 1 .. b |-> rest[k * Size][1]] /\ Whole(rest) \in Seq(Messages)
      /\ Len(Whole(rest)) = b /\ \A k \in 1 .. b : k * Size \in 1 .. Len(rest)
  BY <1>4, WholeIs
<1>10. Tail(Whole(s)) = Whole(rest)
  <2>1. Tail(Whole(s)) \in Seq(Messages) /\ Len(Tail(Whole(s))) = b
        /\ \A k \in 1 .. b : Tail(Whole(s))[k] = Whole(s)[k + 1]
    BY <1>8
  <2>2. ASSUME NEW k \in 1 .. b  PROVE Whole(s)[k + 1] = Whole(rest)[k]
    <3>1. (k + 1) * Size = Size + k * Size
      BY <1>0
    <3>2. k + 1 \in 1 .. b + 1
      OBVIOUS
    <3>3. Whole(s)[k + 1] = s[(k + 1) * Size][1]
      BY <1>8, <3>2
    <3>4. s[Size + k * Size] = rest[k * Size]
      BY <1>1, <1>9
    <3> QED  BY <1>9, <3>1, <3>3, <3>4
  <2> QED  BY <1>9, <2>1, <2>2, SeqEqual
<1>11. ASSUME NEW j \in 1 .. Size  PROVE block[j] = <<s[1][1], j>>
  <2>1. PICK zero \in Nat : zero = 0
    OBVIOUS
  <2>2. zero * Size + j = j /\ zero * Size + 1 = 1 /\ zero * Size + j <= Len(s)
    BY <1>0, <1>1, <2>1
  <2>3. s[zero * Size + j] = <<s[zero * Size + 1][1], j>>
    BY <1>1, <1>2, <2>2, FramedIs
  <2> QED  BY <1>1, <2>2, <2>3
<1>12. s[1][1] \in Messages
  BY <1>0, <1>1 DEF Unit
<1>13. block = Block(s[1][1])
  <2>1. block = [j \in 1 .. Size |-> block[j]]
    BY <1>0
  <2> QED  BY <1>11, <2>1 DEF Block
<1>14. Whole(s) # <<>> /\ Head(Whole(s)) = s[1][1]
  <2>1. Whole(s)[1] = s[Size][1]
    <3>1. 1 \in 1 .. b + 1 /\ 1 * Size = Size
      BY <1>0
    <3> QED  BY <1>8, <3>1
  <2>2. s[Size] = <<s[1][1], Size>>
    BY <1>0, <1>1, <1>11
  <2>3. Whole(s) # <<>> /\ Head(Whole(s)) = Whole(s)[1]
    BY <1>8
  <2> QED  BY <2>1, <2>2, <2>3
<1> QED  BY <1>3, <1>6, <1>7, <1>10, <1>12, <1>13, <1>14 DEF s

-----------------------------------------------------------------------------
(* The sender's threads.                                                   *)

\* What the holder of the mutex is sending.
LEMMA SendingIs ==
  ASSUME TypeOK, MutexInv, NEW t \in Threads, m_send_buffer_mutex = t
  PROVE  /\ todo[t] \in Seq(Job) /\ todo[t] # <<>>
         /\ Head(todo[t]) \in Job /\ Head(todo[t]) = todo[t][1]
         /\ Head(todo[t]).to \in Seq(Receivers) /\ Head(todo[t]).to # <<>>
         /\ IsInjective(Head(todo[t]).to)
         /\ Message(t) \in Messages
         /\ Receiver(t) \in Receivers
         /\ sentBytes[t] \in 0 .. Size - 1
<1>1. todo[t] \in Seq(Job) /\ todo[t] # <<>>
  BY DEF TypeOK, MutexInv
<1>2. 1 \in 1 .. Len(todo[t]) /\ Head(todo[t]) = todo[t][1] /\ todo[t][1] \in Job
  BY <1>1
<1>3. todo[t][1].to # <<>> /\ IsInjective(todo[t][1].to)
  BY <1>2 DEF MutexInv
<1>4. todo[t][1].msg \in Messages /\ todo[t][1].to \in Seq(Receivers)
  BY <1>2 DEF Job
<1>5. Head(todo[t][1].to) \in Receivers
  BY <1>3, <1>4
<1> QED  BY <1>1, <1>2, <1>3, <1>4, <1>5 DEF Message, Receiver, TypeOK

\* The receivers after the first one.
LEMMA TailInjective ==
  ASSUME NEW S, NEW s \in Seq(S), s # <<>>, IsInjective(s)
  PROVE  /\ Tail(s) \in Seq(S)
         /\ IsInjective(Tail(s))
         /\ Range(s) = {Head(s)} \cup Range(Tail(s))
         /\ Head(s) \notin Range(Tail(s))
         /\ Len(s) <= 1 <=> Tail(s) = <<>>
<1>1. PICK n \in Nat : n = Len(s) /\ n > 0
  OBVIOUS
<1>2. DOMAIN s = 1 .. n /\ Head(s) = s[1] /\ Tail(s) \in Seq(S)
      /\ DOMAIN Tail(s) = 1 .. n - 1 /\ Len(Tail(s)) = n - 1
  BY <1>1
<1>3. \A i \in 1 .. n - 1 : Tail(s)[i] = s[i + 1]
  BY <1>1, HeadTailProperties
<1>4. \A i, j \in 1 .. n : s[i] = s[j] => i = j
  BY <1>2 DEF IsInjective
<1>5. \A i, j \in 1 .. n - 1 : i + 1 \in 1 .. n /\ j + 1 \in 1 .. n /\ i + 1 # 1
  BY <1>1
<1>6. IsInjective(Tail(s))
  BY <1>2, <1>3, <1>4, <1>5 DEF IsInjective
<1>7. 1 \in 1 .. n /\ \A i \in 1 .. n : i = 1 \/ (i - 1 \in 1 .. n - 1 /\ i = (i - 1) + 1)
  BY <1>1
<1>8. Head(s) \notin Range(Tail(s))
  BY <1>2, <1>3, <1>4, <1>5, <1>7 DEF Range
<1>9. Range(s) = {Head(s)} \cup Range(Tail(s))
  <2>1. ASSUME NEW i \in 1 .. n  PROVE s[i] \in {Head(s)} \cup Range(Tail(s))
    <3>1. CASE i = 1
      BY <1>2, <3>1
    <3>2. CASE i # 1
      <4>1. i - 1 \in 1 .. n - 1 /\ Tail(s)[i - 1] = s[(i - 1) + 1] /\ (i - 1) + 1 = i
        BY <1>3, <1>7, <3>2
      <4> QED  BY <1>2, <4>1 DEF Range
    <3> QED  BY <3>1, <3>2
  <2>2. ASSUME NEW i \in 1 .. n - 1  PROVE Tail(s)[i] \in Range(s)
    BY <1>2, <1>3, <1>5 DEF Range
  <2>3. Head(s) \in Range(s)
    BY <1>2, <1>7 DEF Range
  <2> QED  BY <1>2, <2>1, <2>2, <2>3 DEF Range
<1>10. Len(s) <= 1 <=> Tail(s) = <<>>
  BY <1>1, <1>2
<1> QED  BY <1>2, <1>6, <1>8, <1>9, <1>10

\* NextReceiver: the thread goes on with the receivers that are left, or gives up the mutex
\* and its job.
LEMMA NextReceiverIs ==
  ASSUME TypeOK, MutexInv, NEW t \in Threads, m_send_buffer_mutex = t, NextReceiver(t)
  PROVE  /\ sentBytes' = [sentBytes EXCEPT ![t] = 0]
         /\ \A u \in Threads : u # t => todo'[u] = todo[u]
         /\ \/ /\ m_send_buffer_mutex' = t
               /\ todo'[t] \in Seq(Job) /\ todo'[t] # <<>>
               /\ Tail(todo'[t]) = Tail(todo[t])
               /\ Head(todo'[t]).msg = Head(todo[t]).msg
               /\ Head(todo'[t]).to = Tail(Head(todo[t]).to)
               /\ Tail(Head(todo[t]).to) # <<>>
               /\ \A i \in 1 .. Len(todo'[t]) :
                    todo'[t][i].to # <<>> /\ IsInjective(todo'[t][i].to)
            \/ /\ m_send_buffer_mutex' = None
               /\ todo'[t] = Tail(todo[t])
               /\ Tail(Head(todo[t]).to) = <<>>
<1>1. /\ todo[t] \in Seq(Job) /\ todo[t] # <<>> /\ Head(todo[t]) \in Job
      /\ Head(todo[t]).to \in Seq(Receivers) /\ Head(todo[t]).to # <<>>
      /\ IsInjective(Head(todo[t]).to)
  BY SendingIs
<1>2. sentBytes' = [sentBytes EXCEPT ![t] = 0] /\ DOMAIN todo = Threads
  BY DEF NextReceiver, TypeOK
<1>3. PICK job \in Job : job = Head(todo[t])
  BY <1>1
<1>4. /\ Tail(job.to) \in Seq(Receivers) /\ IsInjective(Tail(job.to))
      /\ Len(job.to) <= 1 <=> Tail(job.to) = <<>>
  BY <1>1, <1>3, TailInjective
<1>5. Len(job.to) \in Nat
  BY <1>1, <1>3
<1>6. CASE Len(job.to) > 1
  <2>0. Tail(todo[t]) \in Seq(Job)
    BY <1>1
  <2>1. PICK rest \in Job : rest = Rest(t)
    <3>1. Rest(t) \in Job
      BY <1>1, <1>3, <1>4 DEF Job, Rest
    <3> QED  BY <3>1
  <2>2. rest.msg = job.msg /\ rest.to = Tail(job.to)
    BY <1>3, <2>1 DEF Job, Rest
  <2>3. /\ todo' = [todo EXCEPT ![t] = <<rest>> \o Tail(todo[t])]
        /\ m_send_buffer_mutex' = m_send_buffer_mutex
    BY <1>3, <1>6, <2>1 DEF NextReceiver
  <2>4. PICK tail \in Seq(Job) : tail = Tail(todo[t])
    BY <2>0
  <2>5. PICK new \in Seq(Job) : new = <<rest>> \o tail
    <3>1. <<rest>> \o tail \in Seq(Job)
      OBVIOUS
    <3> QED  BY <3>1
  <2>6. new # <<>> /\ Head(new) = rest /\ Tail(new) = tail /\ Len(new) = Len(tail) + 1
        /\ \A i \in 1 .. Len(new) : i = 1 \/ (i - 1 \in 1 .. Len(tail) /\ new[i] = tail[i - 1])
    BY <2>5
  <2>7. new[1] = rest
    BY <2>5
  <2>8. ASSUME NEW i \in 1 .. Len(tail)
        PROVE  tail[i].to # <<>> /\ IsInjective(tail[i].to)
    <3>1. tail[i] = todo[t][i + 1] /\ i + 1 \in 1 .. Len(todo[t])
      BY <1>1, <2>4
    <3> QED  BY <3>1 DEF MutexInv
  <2>9. ASSUME NEW i \in 1 .. Len(new)
        PROVE  new[i].to # <<>> /\ IsInjective(new[i].to)
    <3>1. Tail(job.to) # <<>>
      BY <1>4, <1>5, <1>6
    <3>2. CASE i = 1
      BY <1>4, <2>2, <2>7, <3>1, <3>2
    <3>3. CASE i # 1
      BY <2>6, <2>8, <3>3
    <3> QED  BY <3>2, <3>3
  <2>10. todo'[t] = new /\ \A u \in Threads : u # t => todo'[u] = todo[u]
    BY <1>2, <2>3, <2>4, <2>5
  <2>11. Tail(job.to) # <<>>
    BY <1>4, <1>5, <1>6
  <2> QED  BY <1>2, <1>3, <2>2, <2>3, <2>4, <2>6, <2>9, <2>10, <2>11
<1>7. CASE ~(Len(job.to) > 1)
  <2>1. todo' = [todo EXCEPT ![t] = Tail(todo[t])] /\ m_send_buffer_mutex' = None
    BY <1>3, <1>7 DEF NextReceiver
  <2>2. Tail(job.to) = <<>>
    BY <1>4, <1>5, <1>7
  <2> QED  BY <1>2, <1>3, <2>1, <2>2
<1> QED  BY <1>6, <1>7

\* A later job.
LEMMA JobsLeft ==
  ASSUME TypeOK, MutexInv, NEW t \in Threads, todo[t] # <<>>, NEW i \in 1 .. Len(Tail(todo[t]))
  PROVE  Tail(todo[t])[i].to # <<>> /\ IsInjective(Tail(todo[t])[i].to)
<1>1. Tail(todo[t])[i] = todo[t][i + 1] /\ i + 1 \in 1 .. Len(todo[t])
  BY DEF TypeOK
<1> QED  BY <1>1 DEF MutexInv

\* It keeps the mutex and the jobs in order.
LEMMA NextReceiverKeeps ==
  ASSUME TypeOK, MutexInv, NEW t \in Threads, m_send_buffer_mutex = t, NextReceiver(t)
  PROVE  /\ todo' \in [Threads -> Seq(Job)]
         /\ m_send_buffer_mutex' \in Threads \cup {None}
         /\ sentBytes' \in [Threads -> 0 .. Size - 1]
         /\ \A u \in Threads :
              /\ m_send_buffer_mutex' = u => todo'[u] # <<>>
              /\ m_send_buffer_mutex' # u => sentBytes'[u] = 0
         /\ \A u \in Threads : \A i \in 1 .. Len(todo'[u]) :
              todo'[u][i].to # <<>> /\ IsInjective(todo'[u][i].to)
         /\ Unsent' = Unsent
<1>1. todo[t] \in Seq(Job) /\ todo[t] # <<>> /\ Tail(todo[t]) \in Seq(Job)
  BY SendingIs
<1>2. DOMAIN todo' = Threads /\ todo' = [u \in Threads |-> todo'[u]]
  BY DEF NextReceiver, TypeOK
<1>3. todo'[t] \in Seq(Job) /\ \A u \in Threads : u # t => todo'[u] \in Seq(Job)
  BY <1>1, NextReceiverIs DEF TypeOK
<1>4. todo' \in [Threads -> Seq(Job)]
  BY <1>2, <1>3
<1>5. sentBytes' = [sentBytes EXCEPT ![t] = 0] /\ 0 \in 0 .. Size - 1
  BY NextReceiverIs, NumbersAssumption
<1>6. m_send_buffer_mutex' \in {t, None}
  BY NextReceiverIs
<1>7. ASSUME NEW u \in Threads
      PROVE  /\ m_send_buffer_mutex' = u => todo'[u] # <<>>
             /\ m_send_buffer_mutex' # u => sentBytes'[u] = 0
  <2>1. sentBytes'[u] = IF u = t THEN 0 ELSE sentBytes[u]
    BY <1>5 DEF TypeOK
  <2> QED  BY <1>6, <2>1, NextReceiverIs, ThreadsAssumption DEF MutexInv
<1>8. ASSUME NEW u \in Threads, NEW i \in 1 .. Len(todo'[u])
      PROVE  todo'[u][i].to # <<>> /\ IsInjective(todo'[u][i].to)
  <2>1. CASE u # t
    <3>1. todo'[u] = todo[u]
      BY <2>1, NextReceiverIs
    <3> QED  BY <3>1 DEF MutexInv
  <2>2. CASE u = t
    <3>1. CASE todo'[t] = Tail(todo[t])
      BY <1>1, <2>2, <3>1, JobsLeft
    <3>2. CASE todo'[t] # Tail(todo[t])
      BY <2>2, <3>2, NextReceiverIs
    <3> QED  BY <3>1, <3>2
  <2> QED  BY <2>1, <2>2
<1>9. Unsent' = Unsent
  <2>1. ASSUME NEW u \in Threads
        PROVE  (IF m_send_buffer_mutex' = u THEN Tail(todo'[u]) ELSE todo'[u])
               = (IF m_send_buffer_mutex = u THEN Tail(todo[u]) ELSE todo[u])
    BY <1>6, NextReceiverIs, ThreadsAssumption
  <2> QED  BY <2>1 DEF Unsent
<1> QED  BY <1>4, <1>5, <1>6, <1>7, <1>8, <1>9 DEF TypeOK

-----------------------------------------------------------------------------
(* Types.                                                                  *)

\* A piece of a block.
LEMMA PieceIs ==
  ASSUME TypeOK, MutexInv, NEW t \in Threads, m_send_buffer_mutex = t,
         NEW n \in 1 .. Size - sentBytes[t]
  PROVE  /\ Piece(t, n) = [i \in 1 .. n |-> <<Message(t), sentBytes[t] + i>>]
         /\ Piece(t, n) \in Seq(Unit)
         /\ Len(Piece(t, n)) = n
<1>1. sentBytes[t] \in 0 .. Size - 1 /\ Message(t) \in Messages /\ Size \in Nat
  BY SendingIs, NumbersAssumption
<1>2. PICK r \in Nat : r = sentBytes[t] /\ n \in Nat /\ r + n <= Size
  BY <1>1
<1>3. \A i \in 1 .. n : <<Message(t), r + i>> \in Unit
  BY <1>1, <1>2 DEF Unit
<1>4. Piece(t, n) = [i \in 1 .. n |-> <<Message(t), r + i>>]
  BY <1>2 DEF Piece
<1>5. PICK f \in [1 .. n -> Unit] : f = [i \in 1 .. n |-> <<Message(t), r + i>>]
  BY <1>3
<1>6. f \in Seq(Unit) /\ Len(f) = n
  <2>1. f \in Seq(Unit)
    BY <1>2, SeqDef
  <2> QED  BY <1>2, <2>1, LenProperties
<1> QED  BY <1>2, <1>4, <1>5, <1>6

\* What recv() takes, and what it leaves.
LEMMA RecvIs ==
  ASSUME TypeOK, NEW q \in Receivers, Recv(q)
  PROVE  /\ buffer' = [buffer EXCEPT ![q] = buffer'[q]] /\ buffer'[q] \in Seq(Unit)
         /\ Len(buffer'[q]) <= Size
         /\ sock' = [sock EXCEPT ![q] = sock'[q]] /\ sock'[q] \in Seq(Unit)
         /\ Len(sock'[q]) <= Room
         /\ Stream(q)' = Stream(q)
<1>1. PICK n \in 1 .. Len(sock[q]) :
        /\ Len(buffer[q]) + n <= Size
        /\ buffer' = [buffer EXCEPT ![q] = @ \o SubSeq(sock[q], 1, n)]
        /\ sock' = [sock EXCEPT ![q] = SubSeq(@, n + 1, Len(@))]
  BY DEF Recv
<1>2. PICK s \in Seq(Unit), b \in Seq(Unit) :
        s = sock[q] /\ b = buffer[q] /\ Len(s) <= Room /\ DOMAIN sock = Receivers /\ DOMAIN buffer = Receivers
  BY DEF TypeOK
<1>3. PICK len \in Nat : len = Len(s) /\ n \in 1 .. len
  BY <1>1, <1>2
<1>4. PICK taken \in Seq(Unit), left \in Seq(Unit) :
        /\ taken = SubSeq(s, 1, n) /\ left = SubSeq(s, n + 1, len)
        /\ Len(taken) = n /\ Len(left) = len - n
        /\ taken \o left = s
  <2>1. SubSeq(s, 1, n) \in Seq(Unit) /\ Len(SubSeq(s, 1, n)) = n
    BY <1>3
  <2>2. SubSeq(s, n + 1, len) \in Seq(Unit) /\ Len(SubSeq(s, n + 1, len)) = len - n
    BY <1>3
  <2>3. SubSeq(s, 1, n) \o SubSeq(s, n + 1, len) = SubSeq(s, 1, len)
    <3>1. 1 \in 1 .. Len(s) + 1 /\ n \in 1 - 1 .. Len(s) /\ len \in n .. Len(s)
      BY <1>3
    <3> QED  BY <3>1, ConcatAdjacentSubSeq
  <2>4. SubSeq(s, 1, len) = s
    BY <1>3, SubSeqFull
  <2> QED  BY <2>1, <2>2, <2>3, <2>4
<1>5. buffer' = [buffer EXCEPT ![q] = b \o taken] /\ sock' = [sock EXCEPT ![q] = left]
  BY <1>1, <1>2, <1>3, <1>4
<1>6. buffer'[q] = b \o taken /\ sock'[q] = left
  BY <1>2, <1>5
<1>7. b \o taken \in Seq(Unit) /\ Len(b \o taken) = Len(b) + n
  BY <1>4
<1>8. Len(left) <= Room
  BY <1>2, <1>3, <1>4, NumbersAssumption
<1>9. (b \o taken) \o left = b \o (taken \o left)
  BY UnitsJoined
<1>10. Stream(q)' = Stream(q)
  BY <1>2, <1>4, <1>6, <1>9 DEF Stream
<1> QED  BY <1>1, <1>2, <1>4, <1>5, <1>6, <1>7, <1>8, <1>10

\* What HandleMessage is passed.
LEMMA HandledType ==
  ASSUME NEW units \in Seq(Unit)
  PROVE  /\ Handled(units) \in Messages \cup {Torn}
         /\ \A m \in Messages : units = Block(m) => Handled(units) = m
         /\ Len(units) # Size => Handled(units) = Torn
<1>1. Size \in Nat /\ 1 \in 1 .. Size
  BY NumbersAssumption
<1>2. ASSUME NEW m \in Messages, units = Block(m)
      PROVE  units[1][1] = m /\ Handled(units) = m /\ Len(units) = Size
  <2>1. units[1] = <<m, 1>>
    BY <1>1, <1>2 DEF Block
  <2>2. Len(units) = Size
    <3>1. DOMAIN units = 1 .. Size
      BY <1>2 DEF Block
    <3>2. DOMAIN units = 1 .. Len(units) /\ Len(units) \in Nat
      BY LenProperties
    <3> QED  BY <1>1, <3>1, <3>2
  <2> QED  BY <1>2, <2>1, <2>2 DEF Handled
<1> QED  BY <1>2 DEF Handled

\* One send(): the units that went to the receiver, and how the thread goes on.
LEMMA SendPieceIs ==
  ASSUME TypeOK, MutexInv, NEW t \in Threads, SendPiece(t)
  PROVE  /\ m_send_buffer_mutex = t /\ ~ended /\ Receiver(t) \in Receivers
         /\ UNCHANGED <<buffer, handled, ended, reset, broken, gone>>
         /\ \E n \in 1 .. Size - sentBytes[t] :
              /\ \/ Receiver(t) \in gone /\ UNCHANGED sock
                 \/ /\ Receiver(t) \notin gone
                    /\ Len(sock[Receiver(t)]) + n <= Room
                    /\ sock' = [sock EXCEPT ![Receiver(t)] = sock[Receiver(t)] \o Piece(t, n)]
              /\ \/ sentBytes[t] + n = Size /\ NextReceiver(t)
                 \/ /\ sentBytes[t] + n < Size
                    /\ sentBytes' = [sentBytes EXCEPT ![t] = sentBytes[t] + n]
                    /\ UNCHANGED <<todo, m_send_buffer_mutex>>
<1>1. m_send_buffer_mutex = t /\ ~ended
      /\ UNCHANGED <<buffer, handled, ended, reset, broken, gone>>
  BY DEF SendPiece, Sending
<1>2. Receiver(t) \in Receivers /\ sentBytes[t] \in 0 .. Size - 1 /\ Size \in Nat
  BY <1>1, SendingIs, NumbersAssumption
<1>3. PICK n \in 1 .. Size - sentBytes[t] :
        /\ IF Receiver(t) \in gone THEN UNCHANGED sock
           ELSE /\ Len(sock[Receiver(t)]) + n <= Room
                /\ sock' = [sock EXCEPT ![Receiver(t)] = @ \o Piece(t, n)]
        /\ IF sentBytes[t] + n = Size THEN NextReceiver(t)
           ELSE /\ sentBytes' = [sentBytes EXCEPT ![t] = @ + n]
                /\ UNCHANGED <<todo, m_send_buffer_mutex>>
  BY DEF SendPiece
<1>4. sentBytes[t] + n = Size \/ sentBytes[t] + n < Size
  BY <1>2
<1> QED  BY <1>1, <1>2, <1>3, <1>4

\* Types and MutexInv are kept by the sender's threads.
LEMMA SenderNext ==
  ASSUME TypeOK, MutexInv, NEW t \in Threads, Lock(t) \/ SendPiece(t) \/ SendFails(t)
  PROVE  TypeOK' /\ MutexInv'
<1>1. CASE Lock(t)
  <2>1. /\ m_send_buffer_mutex' = t /\ todo[t] # <<>>
        /\ UNCHANGED <<todo, sentBytes, sock, buffer, handled, ended, reset, broken, gone>>
        /\ m_send_buffer_mutex = None
    BY <1>1 DEF Lock
  <2> QED  BY <2>1, ThreadsAssumption DEF TypeOK, MutexInv
<1>2. CASE SendPiece(t)
  <2>1. /\ m_send_buffer_mutex = t /\ ~ended /\ Receiver(t) \in Receivers
        /\ UNCHANGED <<buffer, handled, ended, reset, broken, gone>>
    BY <1>2, SendPieceIs
  <2>2. PICK n \in 1 .. Size - sentBytes[t] :
          /\ \/ Receiver(t) \in gone /\ UNCHANGED sock
             \/ /\ Receiver(t) \notin gone
                /\ Len(sock[Receiver(t)]) + n <= Room
                /\ sock' = [sock EXCEPT ![Receiver(t)] = sock[Receiver(t)] \o Piece(t, n)]
          /\ \/ sentBytes[t] + n = Size /\ NextReceiver(t)
             \/ /\ sentBytes[t] + n < Size
                /\ sentBytes' = [sentBytes EXCEPT ![t] = sentBytes[t] + n]
                /\ UNCHANGED <<todo, m_send_buffer_mutex>>
    BY <1>2, SendPieceIs
  <2>3. /\ sock' \in [Receivers -> Seq(Unit)]
        /\ \A q \in Receivers : Len(sock'[q]) <= Room
    <3>1. CASE UNCHANGED sock
      BY <3>1 DEF TypeOK
    <3>2. CASE sock' # sock
      <4>1. Piece(t, n) \in Seq(Unit) /\ Len(Piece(t, n)) = n /\ sock[Receiver(t)] \in Seq(Unit)
        BY <2>1, PieceIs DEF TypeOK
      <4>2. PICK new \in Seq(Unit) : new = sock[Receiver(t)] \o Piece(t, n)
                                     /\ Len(new) = Len(sock[Receiver(t)]) + n
        <5>1. /\ sock[Receiver(t)] \o Piece(t, n) \in Seq(Unit)
              /\ Len(sock[Receiver(t)] \o Piece(t, n)) = Len(sock[Receiver(t)]) + n
          BY <4>1, UnitsOf
        <5> QED  BY <5>1
      <4>3. sock' = [sock EXCEPT ![Receiver(t)] = new] /\ Len(new) <= Room
        BY <2>2, <3>2, <4>2
      <4> QED  BY <2>1, <4>3 DEF TypeOK
    <3> QED  BY <3>1, <3>2
  <2>4. /\ todo' \in [Threads -> Seq(Job)]
        /\ m_send_buffer_mutex' \in Threads \cup {None}
        /\ sentBytes' \in [Threads -> 0 .. Size - 1]
        /\ \A u \in Threads :
             /\ m_send_buffer_mutex' = u => todo'[u] # <<>>
             /\ m_send_buffer_mutex' # u => sentBytes'[u] = 0
        /\ \A u \in Threads : \A i \in 1 .. Len(todo'[u]) :
             todo'[u][i].to # <<>> /\ IsInjective(todo'[u][i].to)
    <3>1. CASE NextReceiver(t)
      BY <2>1, <3>1, NextReceiverKeeps
    <3>2. CASE ~NextReceiver(t)
      <4>1. PICK sum \in 0 .. Size - 1 : sum = sentBytes[t] + n
        BY <2>2, <3>2, <2>1, SendingIs, NumbersAssumption
      <4>2. sentBytes' = [sentBytes EXCEPT ![t] = sum] /\ UNCHANGED <<todo, m_send_buffer_mutex>>
        BY <2>2, <3>2, <4>1
      <4> QED  BY <2>1, <4>2 DEF TypeOK, MutexInv
    <3> QED  BY <3>1, <3>2
  <2> QED  BY <2>1, <2>3, <2>4 DEF TypeOK, MutexInv
<1>3. CASE SendFails(t)
  <2>1. /\ m_send_buffer_mutex = t /\ ~ended /\ NextReceiver(t)
        /\ UNCHANGED <<sock, buffer, handled, ended, reset, gone>>
        /\ broken' = broken \cup {Receiver(t)} /\ Receiver(t) \in gone
    BY <1>3 DEF SendFails, Sending
  <2>2. broken' \subseteq gone'
    BY <2>1 DEF TypeOK
  <2>3. /\ todo' \in [Threads -> Seq(Job)]
        /\ m_send_buffer_mutex' \in Threads \cup {None}
        /\ sentBytes' \in [Threads -> 0 .. Size - 1]
        /\ \A u \in Threads :
             /\ m_send_buffer_mutex' = u => todo'[u] # <<>>
             /\ m_send_buffer_mutex' # u => sentBytes'[u] = 0
        /\ \A u \in Threads : \A i \in 1 .. Len(todo'[u]) :
             todo'[u][i].to # <<>> /\ IsInjective(todo'[u][i].to)
    BY <2>1, NextReceiverKeeps
  <2> QED  BY <2>1, <2>2, <2>3 DEF TypeOK, MutexInv
<1> QED  BY <1>1, <1>2, <1>3

\* Types and MutexInv are kept by the receivers, by the ends of processes and by stuttering.
LEMMA OthersNext ==
  ASSUME TypeOK, MutexInv,
         \/ \E q \in Receivers : Recv(q) \/ DealWithRequest(q) \/ RecvFails(q) \/ EndReceiver(q)
         \/ End \/ UNCHANGED vars
  PROVE  TypeOK' /\ MutexInv'
<1>1. UNCHANGED senderVars
  BY DEF Recv, DealWithRequest, RecvFails, EndReceiver, End, vars, senderVars
<1>2. reset' # {} => ended'
  BY DEF Recv, DealWithRequest, RecvFails, EndReceiver, End, vars, MutexInv
<1>3. MutexInv'
  BY <1>1, <1>2 DEF MutexInv, senderVars
<1>4. CASE End \/ UNCHANGED vars
  <2>1. UNCHANGED <<sock, buffer, handled, broken, gone>> /\ ended' \in BOOLEAN
        /\ reset' \subseteq Receivers
    BY <1>4 DEF End, vars, TypeOK
  <2> QED  BY <1>1, <1>3, <2>1 DEF senderVars, TypeOK
<1>5. ASSUME NEW q \in Receivers, Recv(q) \/ DealWithRequest(q) \/ RecvFails(q) \/ EndReceiver(q)
      PROVE  TypeOK'
  <2>0. Size \in Nat /\ Room \in Nat /\ <<>> \in Seq(Unit) /\ Len(<<>>) = 0
    BY NumbersAssumption
  <2>1. CASE Recv(q)
    <3>1. UNCHANGED <<handled, ended, reset, broken, gone>>
      BY <2>1 DEF Recv
    <3>2. PICK b \in Seq(Unit), s \in Seq(Unit) :
            /\ buffer' = [buffer EXCEPT ![q] = b] /\ Len(b) <= Size
            /\ sock' = [sock EXCEPT ![q] = s] /\ Len(s) <= Room
      BY <2>1, RecvIs
    <3> QED  BY <1>1, <3>1, <3>2 DEF TypeOK, senderVars
  <2>2. CASE DealWithRequest(q)
    <3>1. buffer[q] \in Seq(Unit) /\ handled[q] \in Seq(Messages \cup {Torn})
      BY DEF TypeOK
    <3>2. PICK new \in Seq(Messages \cup {Torn}) : new = Append(handled[q], Handled(buffer[q]))
      <4>1. Handled(buffer[q]) \in Messages \cup {Torn}
        BY <3>1, HandledType
      <4>2. Append(handled[q], Handled(buffer[q])) \in Seq(Messages \cup {Torn})
        BY <3>1, <4>1
      <4> QED  BY <4>2
    <3>3. /\ handled' = [handled EXCEPT ![q] = new] /\ buffer' = [buffer EXCEPT ![q] = <<>>]
          /\ UNCHANGED <<sock, ended, reset, broken, gone>>
      BY <2>2, <3>2 DEF DealWithRequest
    <3>4. /\ buffer' \in [Receivers -> Seq(Unit)] /\ \A r \in Receivers : Len(buffer'[r]) <= Size
          /\ handled' \in [Receivers -> Seq(Messages \cup {Torn})]
      BY <2>0, <3>3 DEF TypeOK
    <3> QED  BY <1>1, <3>3, <3>4 DEF TypeOK, senderVars
  <2>3. CASE RecvFails(q)
    <3>1. buffer[q] \in Seq(Unit) /\ handled[q] \in Seq(Messages \cup {Torn})
      BY DEF TypeOK
    <3>2. PICK new \in Seq(Messages \cup {Torn}) : new = Append(handled[q], Handled(buffer[q]))
      <4>1. Handled(buffer[q]) \in Messages \cup {Torn}
        BY <3>1, HandledType
      <4>2. Append(handled[q], Handled(buffer[q])) \in Seq(Messages \cup {Torn})
        BY <3>1, <4>1
      <4> QED  BY <4>2
    <3>3. /\ handled' = handled \/ handled' = [handled EXCEPT ![q] = new]
          /\ gone' = gone \cup {q}
          /\ sock' = [sock EXCEPT ![q] = <<>>] /\ buffer' = [buffer EXCEPT ![q] = <<>>]
          /\ UNCHANGED <<ended, reset, broken>>
      BY <2>3, <3>2 DEF RecvFails
    <3>4. /\ buffer' \in [Receivers -> Seq(Unit)]
          /\ \A r \in Receivers : Len(buffer'[r]) <= Size
      BY <2>0, <3>3 DEF TypeOK
    <3>5. /\ sock' \in [Receivers -> Seq(Unit)]
          /\ \A r \in Receivers : Len(sock'[r]) <= Room
      BY <2>0, <3>3 DEF TypeOK
    <3>6. handled' \in [Receivers -> Seq(Messages \cup {Torn})]
      BY <3>3 DEF TypeOK
    <3> QED  BY <1>1, <3>3, <3>4, <3>5, <3>6 DEF TypeOK, senderVars
  <2>4. CASE EndReceiver(q)
    BY <1>1, <2>0, <2>4 DEF EndReceiver, TypeOK, senderVars
  <2> QED  BY <1>5, <2>1, <2>2, <2>3, <2>4
<1> QED  BY <1>3, <1>4, <1>5

-----------------------------------------------------------------------------
(* The streams.                                                            *)

LEMMA StreamIs ==
  ASSUME TypeOK, NEW q \in Receivers
  PROVE  /\ Stream(q) \in Seq(Unit) /\ Len(Stream(q)) \in Nat
         /\ buffer[q] \in Seq(Unit) /\ sock[q] \in Seq(Unit)
<1>1. buffer[q] \in Seq(Unit) /\ sock[q] \in Seq(Unit)
  BY DEF TypeOK
<1> QED  BY <1>1, UnitsOf DEF Stream

LEMMA BegunIs ==
  ASSUME TypeOK, MutexInv, NEW q \in Receivers
  PROVE  /\ Begun(q) \in 0 .. Size - 1
         /\ m_send_buffer_mutex = None => Begun(q) = 0
         /\ \A t \in Threads : m_send_buffer_mutex = t =>
              Begun(q) = IF Receiver(t) = q THEN sentBytes[t] ELSE 0
BY NumbersAssumption, ThreadsAssumption DEF TypeOK, Begun

\* A thread that takes its next receiver has not begun a block.
LEMMA NoneBegun ==
  ASSUME TypeOK, MutexInv, NEW t \in Threads, m_send_buffer_mutex = t, NextReceiver(t),
         NEW q \in Receivers
  PROVE  Begun(q)' = 0
<1>1. m_send_buffer_mutex' \in {t, None} /\ sentBytes' = [sentBytes EXCEPT ![t] = 0]
  BY NextReceiverIs
<1>2. sentBytes'[t] = 0
  BY <1>1 DEF TypeOK
<1> QED  BY <1>1, <1>2 DEF Begun

\* A stream that nobody adds to or takes from.
LEMMA StreamRests ==
  ASSUME NEW q \in Receivers, StreamInv(q),
         Stream(q)' = Stream(q), ended => ended',
         ~ended' => /\ Begun(q)' = Begun(q)
                    /\ Begun(q) > 0 => /\ m_send_buffer_mutex' = m_send_buffer_mutex
                                       /\ todo' = todo
  PROVE  StreamInv(q)'
BY DEF StreamInv, Framed, Message

\* A piece arrives at the end of the receiver's stream.
LEMMA StreamGrows ==
  ASSUME TypeOK, MutexInv, NEW t \in Threads, m_send_buffer_mutex = t, ~ended,
         StreamInv(Receiver(t)), buffer' = buffer,
         NEW n \in 1 .. Size - sentBytes[t],
         sock' = [sock EXCEPT ![Receiver(t)] = sock[Receiver(t)] \o Piece(t, n)]
  PROVE  LET q == Receiver(t)
             s == Stream(q)
             then == buffer'[q] \o sock'[q] IN
         /\ then \in Seq(Unit) /\ Framed(then)
         /\ Len(then) % Size = IF sentBytes[t] + n = Size THEN 0 ELSE sentBytes[t] + n
         /\ then[Len(then)][1] = Message(t)
         /\ Whole(then) = IF sentBytes[t] + n = Size THEN Append(Whole(s), Message(t)) ELSE Whole(s)
<1>1. PICK q \in Receivers, m \in Messages, r \in 0 .. Size - 1 :
        q = Receiver(t) /\ m = Message(t) /\ r = sentBytes[t]
  BY SendingIs
<1>2. PICK b0 \in Seq(Unit), s0 \in Seq(Unit), s \in Seq(Unit) :
        b0 = buffer[q] /\ s0 = sock[q] /\ s = Stream(q) /\ s = b0 \o s0 /\ Len(s) \in Nat
  BY StreamIs DEF Stream
<1>3. Begun(q) = r
  BY <1>1, BegunIs
<1>4. Framed(s) /\ Len(s) % Size = r /\ (r > 0 => s[Len(s)][1] = m)
  BY <1>1, <1>2, <1>3 DEF StreamInv
<1>6. PICK piece \in Seq(Unit) : piece = Piece(t, n) /\ piece = [i \in 1 .. n |-> <<m, r + i>>]
  BY <1>1, PieceIs
<1>7. PICK then \in Seq(Unit) : then = s \o piece
  <2>1. s \o piece \in Seq(Unit)
    BY UnitsOf
  <2> QED  BY <2>1
<1>8. n \in 1 .. Size - r
  BY <1>1
<1>9. /\ Framed(then)
      /\ Len(then) % Size = IF r + n = Size THEN 0 ELSE r + n
      /\ then[Len(then)][1] = m
      /\ Whole(then) = IF r + n = Size THEN Append(Whole(s), m) ELSE Whole(s)
  <2>1. then = s \o [i \in 1 .. n |-> <<m, r + i>>]
    BY <1>6, <1>7
  <2>2. LET t1 == s \o [i \in 1 .. n |-> <<m, r + i>>] IN
          /\ Framed(t1)
          /\ Len(t1) % Size = IF r + n = Size THEN 0 ELSE r + n
          /\ t1[Len(t1)][1] = m
          /\ Whole(t1) = IF r + n = Size THEN Append(Whole(s), m) ELSE Whole(s)
    BY <1>4, <1>8, PieceAdded
  <2> QED  BY <2>1, <2>2
<1>11. buffer'[q] \o sock'[q] = then
  <2>1. sock'[q] = s0 \o piece /\ buffer'[q] = b0
    BY <1>1, <1>2, <1>6 DEF TypeOK
  <2>2. (b0 \o s0) \o piece = b0 \o (s0 \o piece)
    BY UnitsJoined
  <2> QED  BY <1>2, <1>7, <2>1, <2>2
<1> QED  BY <1>1, <1>2, <1>9, <1>11

\* StreamInv is kept by the sender's threads.
LEMMA SenderStreams ==
  ASSUME TypeOK, WireInv, NEW t \in Threads, Lock(t) \/ SendPiece(t) \/ SendFails(t),
         NEW q \in Receivers \ gone'
  PROVE  StreamInv(q)'
<1>0. MutexInv /\ q \in Receivers /\ q \notin gone /\ StreamInv(q)
  BY DEF WireInv, Lock, SendPiece, SendFails
<1>1. CASE Lock(t)
  <2>1. UNCHANGED <<todo, sentBytes, sock, buffer, ended>> /\ m_send_buffer_mutex = None
        /\ m_send_buffer_mutex' = t
    BY <1>1 DEF Lock
  <2>2. sentBytes[t] = 0
    BY <1>0, <2>1, ThreadsAssumption DEF MutexInv
  <2>3. Begun(q)' = 0 /\ Begun(q) = 0
    BY <2>1, <2>2 DEF Begun
  <2> QED  BY <1>0, <2>1, <2>3, StreamRests DEF Stream
<1>2. CASE SendFails(t)
  <2>1. /\ m_send_buffer_mutex = t /\ NextReceiver(t) /\ Receiver(t) \in gone
        /\ UNCHANGED <<sock, buffer, ended>>
    BY <1>2 DEF SendFails, Sending
  <2>2. Begun(q)' = 0 /\ Begun(q) = 0
    BY <1>0, <2>1, NoneBegun, BegunIs
  <2>3. Stream(q)' = Stream(q)
    BY <2>1 DEF Stream
  <2> QED  BY <1>0, <2>1, <2>2, <2>3, StreamRests
<1>3. CASE SendPiece(t)
  <2>1. /\ m_send_buffer_mutex = t /\ ~ended /\ Receiver(t) \in Receivers
        /\ UNCHANGED <<buffer, handled, ended, reset, broken, gone>>
    BY <1>0, <1>3, SendPieceIs
  <2>2. PICK n \in 1 .. Size - sentBytes[t] :
          /\ \/ Receiver(t) \in gone /\ UNCHANGED sock
             \/ /\ Receiver(t) \notin gone
                /\ Len(sock[Receiver(t)]) + n <= Room
                /\ sock' = [sock EXCEPT ![Receiver(t)] = sock[Receiver(t)] \o Piece(t, n)]
          /\ \/ sentBytes[t] + n = Size /\ NextReceiver(t)
             \/ /\ sentBytes[t] + n < Size
                /\ sentBytes' = [sentBytes EXCEPT ![t] = sentBytes[t] + n]
                /\ UNCHANGED <<todo, m_send_buffer_mutex>>
    BY <1>0, <1>3, SendPieceIs
  <2>3. CASE q # Receiver(t)
    <3>1. Begun(q) = 0
      BY <1>0, <2>1, <2>3, BegunIs
    <3>2. Begun(q)' = 0
      <4>1. CASE NextReceiver(t)
        BY <1>0, <2>1, <4>1, NoneBegun
      <4>2. CASE ~NextReceiver(t)
        BY <2>1, <2>2, <2>3, <4>2 DEF Begun, Receiver
      <4> QED  BY <4>1, <4>2
    <3>3. sock'[q] = sock[q]
      BY <2>2, <2>3 DEF TypeOK
    <3>4. Stream(q)' = Stream(q)
      BY <2>1, <3>3 DEF Stream
    <3> QED  BY <1>0, <2>1, <3>1, <3>2, <3>4, StreamRests
  <2>4. CASE q = Receiver(t)
    <3>1. sock' = [sock EXCEPT ![Receiver(t)] = sock[Receiver(t)] \o Piece(t, n)]
      BY <1>0, <2>2, <2>4
    <3>2. PICK then : then = buffer'[q] \o sock'[q]
      OBVIOUS
    <3>3. /\ Framed(then)
          /\ Len(then) % Size = IF sentBytes[t] + n = Size THEN 0 ELSE sentBytes[t] + n
          /\ then[Len(then)][1] = Message(t)
      BY <1>0, <2>1, <2>4, <3>1, <3>2, StreamGrows
    <3>4. Stream(q)' = then
      BY <3>2 DEF Stream
    <3>5. CASE NextReceiver(t) /\ sentBytes[t] + n = Size
      <4>1. Begun(q)' = 0
        BY <1>0, <2>1, <3>5, NoneBegun
      <4> QED  BY <3>3, <3>4, <3>5, <4>1 DEF StreamInv, Framed
    <3>6. CASE ~(NextReceiver(t) /\ sentBytes[t] + n = Size)
      <4>1. /\ sentBytes[t] + n < Size /\ UNCHANGED <<todo, m_send_buffer_mutex>>
            /\ sentBytes' = [sentBytes EXCEPT ![t] = sentBytes[t] + n]
        BY <2>2, <3>6
      <4>2. sentBytes'[t] = sentBytes[t] + n /\ sentBytes[t] + n # Size
        <5>1. sentBytes[t] \in 0 .. Size - 1 /\ Size \in Nat
          BY NumbersAssumption DEF TypeOK
        <5> QED  BY <4>1, <5>1 DEF TypeOK
      <4>3. Begun(q)' = sentBytes[t] + n /\ Message(m_send_buffer_mutex)' = Message(t)
        BY <2>1, <2>4, <4>1, <4>2, ThreadsAssumption DEF Begun, Receiver, Message
      <4> QED  BY <3>3, <3>4, <4>2, <4>3 DEF StreamInv, Framed
    <3> QED  BY <3>5, <3>6
  <2> QED  BY <2>3, <2>4
<1> QED  BY <1>1, <1>2, <1>3

\* StreamInv is kept by the receivers, by the ends of processes and by stuttering.
LEMMA OthersStreams ==
  ASSUME TypeOK, WireInv,
         \/ \E q \in Receivers : Recv(q) \/ DealWithRequest(q) \/ RecvFails(q) \/ EndReceiver(q)
         \/ End \/ UNCHANGED vars,
         NEW q \in Receivers \ gone'
  PROVE  StreamInv(q)'
<1>0. MutexInv /\ q \in Receivers /\ q \notin gone /\ StreamInv(q)
  BY DEF WireInv, Recv, DealWithRequest, RecvFails, EndReceiver, End, vars
<1>1. UNCHANGED senderVars /\ (ended => ended')
  BY DEF Recv, DealWithRequest, RecvFails, EndReceiver, End, vars, senderVars
<1>2. ASSUME Stream(q)' = Stream(q)  PROVE StreamInv(q)'
  BY <1>0, <1>1, <1>2, StreamRests DEF senderVars, Begun, Receiver
<1>3. CASE End \/ UNCHANGED vars
  BY <1>2, <1>3 DEF End, vars, Stream
<1>4. ASSUME NEW p \in Receivers, Recv(p) \/ DealWithRequest(p) \/ RecvFails(p) \/ EndReceiver(p)
      PROVE  StreamInv(q)'
  <2>1. CASE RecvFails(p) \/ EndReceiver(p)
    <3>1. p # q /\ sock'[q] = sock[q] /\ buffer'[q] = buffer[q]
      BY <1>0, <2>1 DEF RecvFails, EndReceiver, TypeOK
    <3> QED  BY <1>2, <3>1 DEF Stream
  <2>2. CASE Recv(p)
    <3>1. CASE p = q
      BY <1>2, <2>2, <3>1, RecvIs
    <3>2. CASE p # q
      <4>1. sock'[q] = sock[q] /\ buffer'[q] = buffer[q]
        BY <2>2, <3>2, RecvIs DEF TypeOK
      <4> QED  BY <1>2, <4>1 DEF Stream
    <3> QED  BY <3>1, <3>2
  <2>3. CASE DealWithRequest(p)
    <3>1. CASE p # q
      <4>1. sock'[q] = sock[q] /\ buffer'[q] = buffer[q]
        BY <2>3, <3>1 DEF DealWithRequest, TypeOK
      <4> QED  BY <1>2, <4>1 DEF Stream
    <3>2. CASE p = q
      <4>1. PICK block \in Seq(Unit), rest \in Seq(Unit) :
              block = buffer[q] /\ rest = sock[q] /\ Len(block) = Size
        BY <2>3, <3>2, <1>0, StreamIs DEF DealWithRequest
      <4>2. Stream(q) = block \o rest
        BY <4>1 DEF Stream
      <4>3. buffer'[q] = <<>> /\ sock'[q] = rest /\ ended' = ended
        BY <2>3, <3>2, <4>1 DEF DealWithRequest, TypeOK
      <4>4. Stream(q)' = rest
        BY <4>3, ConcatEmptySeq DEF Stream
      <4>5. Framed(block \o rest)
        BY <1>0, <4>2 DEF StreamInv
      <4>51. PICK s : s = block \o rest
        OBVIOUS
      <4>52. /\ Framed(rest) /\ Len(rest) % Size = Len(s) % Size
             /\ rest # <<>> => rest[Len(rest)] = s[Len(s)]
        BY <4>1, <4>5, <4>51, BlockTaken
      <4>6. /\ Framed(rest) /\ Len(rest) % Size = Len(Stream(q)) % Size
            /\ rest # <<>> => rest[Len(rest)] = Stream(q)[Len(Stream(q))]
        BY <4>2, <4>51, <4>52
      <4>7. Begun(q)' = Begun(q) /\ Message(m_send_buffer_mutex)' = Message(m_send_buffer_mutex)
        BY <1>1 DEF senderVars, Begun, Receiver, Message
      <4>8. rest = <<>> => Len(rest) % Size = 0
        BY NumbersAssumption
      <4>9. ~ended => /\ Len(rest) % Size = Begun(q)
                      /\ Begun(q) > 0 => rest[Len(rest)][1] = Message(m_send_buffer_mutex)
        BY <1>0, <4>6, <4>8 DEF StreamInv
      <4> QED  BY <4>3, <4>4, <4>6, <4>7, <4>9 DEF StreamInv, Framed
    <3> QED  BY <3>1, <3>2
  <2> QED  BY <1>4, <2>1, <2>2, <2>3
<1> QED  BY <1>3, <1>4

-----------------------------------------------------------------------------
(* The invariant.                                                          *)

\* Nothing has been sent in the beginning.
LEMMA WireStarts ==
  ASSUME Init
  PROVE  TypeOK /\ WireInv
<1>1. Size \in Nat /\ Size > 0 /\ Room \in Nat
  BY NumbersAssumption
<1>2. Jobs \in [Threads -> Seq(Job)]
      /\ \A t \in Threads : \A i \in DOMAIN Jobs[t] :
           Jobs[t][i].to # <<>> /\ IsInjective(Jobs[t][i].to)
  BY JobsAssumption
<1>3. TypeOK
  <2>1. sentBytes \in [Threads -> 0 .. Size - 1]
    BY <1>1 DEF Init
  <2>2. \A q \in Receivers : sock[q] = <<>> /\ buffer[q] = <<>> /\ Len(<<>>) = 0
    BY DEF Init
  <2>3. <<>> \in Seq(Unit) /\ <<>> \in Seq(Messages \cup {Torn})
    OBVIOUS
  <2>4. /\ sock \in [Receivers -> Seq(Unit)] /\ buffer \in [Receivers -> Seq(Unit)]
        /\ handled \in [Receivers -> Seq(Messages \cup {Torn})]
    BY <2>3 DEF Init
  <2>5. \A q \in Receivers : Len(sock[q]) <= Room /\ Len(buffer[q]) <= Size
    BY <1>1, <2>2
  <2>6. /\ todo \in [Threads -> Seq(Job)] /\ m_send_buffer_mutex \in Threads \cup {None}
        /\ ended \in BOOLEAN /\ reset \subseteq Receivers /\ broken \subseteq gone
        /\ gone \subseteq Receivers
    BY <1>2 DEF Init
  <2> QED  BY <2>1, <2>4, <2>5, <2>6 DEF TypeOK
<1>4. MutexInv
  <2>1. \A t \in Threads : m_send_buffer_mutex # t /\ sentBytes[t] = 0
    BY ThreadsAssumption DEF Init
  <2>2. \A t \in Threads : \A i \in 1 .. Len(todo[t]) :
          todo[t][i].to # <<>> /\ IsInjective(todo[t][i].to)
    <3>1. \A t \in Threads : DOMAIN Jobs[t] = 1 .. Len(Jobs[t])
      BY <1>2
    <3> QED  BY <1>2, <3>1 DEF Init
  <2> QED  BY <2>1, <2>2 DEF Init, MutexInv
<1>5. ASSUME NEW q \in Receivers  PROVE StreamInv(q)
  <2>1. PICK s : s = Stream(q)
    OBVIOUS
  <2>2. s = <<>> /\ Len(s) = 0
    BY <2>1, ConcatEmptySeq DEF Init, Stream
  <2>3. Framed(s)
    <3> SUFFICES ASSUME NEW k \in 0 .. Len(s), NEW j \in 1 .. Size, k * Size + j <= Len(s)
                 PROVE  FALSE
      BY DEF Framed
    <3>1. k = 0
      BY <2>2
    <3>2. k * Size = 0
      BY <1>1, <3>1
    <3> QED  BY <1>1, <2>2, <3>2
  <2>4. Begun(q) = 0
    BY DEF Init, Begun
  <2>5. Len(s) % Size = 0
    BY <1>1, <2>2
  <2> QED  BY <2>1, <2>3, <2>4, <2>5 DEF StreamInv
<1> QED  BY <1>3, <1>4, <1>5 DEF WireInv

\* Every step keeps it.
LEMMA WireNext ==
  ASSUME TypeOK, WireInv, [Next]_vars
  PROVE  TypeOK' /\ WireInv'
<1>0. MutexInv
  BY DEF WireInv
<1>1. CASE \E t \in Threads : Lock(t) \/ SendPiece(t) \/ SendFails(t)
  <2>1. PICK t \in Threads : Lock(t) \/ SendPiece(t) \/ SendFails(t)
    BY <1>1
  <2>2. TypeOK' /\ MutexInv'
    BY <1>0, <2>1, SenderNext
  <2>3. \A q \in Receivers \ gone' : StreamInv(q)'
    BY <2>1, SenderStreams
  <2> QED  BY <2>2, <2>3 DEF WireInv
<1>2. CASE \/ \E q \in Receivers : Recv(q) \/ DealWithRequest(q) \/ RecvFails(q) \/ EndReceiver(q)
           \/ End \/ UNCHANGED vars
  <2>1. TypeOK' /\ MutexInv'
    BY <1>0, <1>2, OthersNext
  <2>2. \A q \in Receivers \ gone' : StreamInv(q)'
    BY <1>2, OthersStreams
  <2> QED  BY <2>1, <2>2 DEF WireInv
<1> QED  BY <1>1, <1>2 DEF Next, SenderStep, ReceiverStep, SigPipe

\* On each connection the units make whole blocks, and only the holder of
\* m_send_buffer_mutex has begun one (BroadcastProcessThread, RelayQueryHit,
\* HandleRequest).
THEOREM WireInvariant == Spec => [](TypeOK /\ WireInv)
<1>1. Init => TypeOK /\ WireInv
  BY WireStarts
<1>2. TypeOK /\ WireInv /\ [Next]_vars => (TypeOK /\ WireInv)'
  BY WireNext
<1> QED  BY <1>1, <1>2, PTL DEF Spec

\* Every variable has its type: no socket holds more than its room, no buffer more than
\* m_buffer_size.
THEOREM WireTypes == Spec => []TypeOK
BY WireInvariant, PTL

\* Framed streams are what StreamFramed says, one unit after the other.
LEMMA FramedStreams ==
  ASSUME TypeOK, WireInv
  PROVE  StreamFramed
<1> SUFFICES ASSUME NEW q \in Receivers \ gone
             PROVE  LET s == Stream(q) IN
               /\ s # <<>> => s[1][2] = 1
               /\ \A i \in 1 .. Len(s) - 1 :
                    \/ s[i][2] = Size /\ s[i + 1][2] = 1
                    \/ s[i + 1] = <<s[i][1], s[i][2] + 1>>
               /\ ~ended => (IF s = <<>> THEN 0 ELSE s[Len(s)][2] % Size) = Begun(q)
  BY DEF StreamFramed
<1>1. PICK s \in Seq(Unit) : s = Stream(q) /\ Len(s) \in Nat
  BY StreamIs
<1>2. Framed(s) /\ (~ended => Len(s) % Size = Begun(q))
  BY <1>1 DEF WireInv, StreamInv
<1>3. Size \in Nat /\ Size > 0
  BY NumbersAssumption
<1>4. ASSUME NEW k \in Nat, NEW j \in 1 .. Size, k * Size + j <= Len(s)
      PROVE  s[k * Size + j] = <<s[k * Size + 1][1], j>>
  BY <1>2, <1>4, FramedIs
<1>5. s # <<>> => s[1][2] = 1
  <2> HAVE s # <<>>
  <2>1. 0 * Size = 0 /\ 1 \in 1 .. Size /\ 1 <= Len(s)
    BY <1>1, <1>3
  <2>2. s[0 * Size + 1] = <<s[0 * Size + 1][1], 1>>
    BY <1>4, <2>1
  <2> QED  BY <2>1, <2>2
<1>6. ASSUME NEW i \in 1 .. Len(s) - 1
      PROVE  \/ s[i][2] = Size /\ s[i + 1][2] = 1
             \/ s[i + 1] = <<s[i][1], s[i][2] + 1>>
  <2>1. i \in 1 .. Len(s) /\ i + 1 <= Len(s)
    BY <1>1
  <2>2. PICK k \in Nat, j \in 1 .. Size : i = k * Size + j
    BY <1>1, <2>1, UnitInBlock
  <2>3. s[i] = <<s[k * Size + 1][1], j>>
    BY <1>1, <1>4, <2>1, <2>2
  <2>4. CASE j = Size
    <3>1. (k + 1) * Size = k * Size + Size /\ k * Size \in Nat
      BY <1>3
    <3>2. i + 1 = (k + 1) * Size + 1 /\ k + 1 \in Nat /\ 1 \in 1 .. Size
      BY <1>3, <2>2, <2>4, <3>1
    <3>3. s[i + 1] = <<s[(k + 1) * Size + 1][1], 1>>
      BY <1>4, <2>1, <3>2
    <3> QED  BY <2>3, <2>4, <3>3
  <2>5. CASE j # Size
    <3>1. k * Size \in Nat
      BY <1>3
    <3>2. i + 1 = k * Size + (j + 1) /\ j + 1 \in 1 .. Size
      BY <1>3, <2>2, <2>5, <3>1
    <3>3. s[i + 1] = <<s[k * Size + 1][1], j + 1>>
      BY <1>4, <2>1, <3>2
    <3> QED  BY <2>3, <3>3
  <2> QED  BY <2>4, <2>5
<1>7. ASSUME ~ended
      PROVE  (IF s = <<>> THEN 0 ELSE s[Len(s)][2] % Size) = Begun(q)
  <2>1. CASE s = <<>>
    <3>1. Len(s) % Size = 0
      BY <1>3, <2>1
    <3> QED  BY <1>2, <1>7, <2>1, <3>1
  <2>2. CASE s # <<>>
    <3>1. Len(s) \in 1 .. Len(s)
      BY <1>1, <2>2
    <3>2. PICK k \in Nat, j \in 1 .. Size : Len(s) = k * Size + j
      <4>1. PICK n \in Nat : n = Len(s)
        BY <1>1
      <4>2. \E k \in 0 .. n, j \in 1 .. Size : n = k * Size + j
        BY <3>1, <4>1, UnitInBlock
      <4> QED  BY <4>1, <4>2
    <3>3. s[Len(s)] = <<s[k * Size + 1][1], j>>
      BY <1>1, <1>4, <3>1, <3>2
    <3>4. j % Size = Len(s) % Size
      <4>1. CASE j = Size
        <5>1. (k + 1) * Size = k * Size + Size /\ k * Size \in Nat
          BY <1>3
        <5>2. Len(s) = (k + 1) * Size + 0 /\ k + 1 \in Nat /\ 0 \in 0 .. Size - 1
          BY <1>3, <3>2, <4>1, <5>1
        <5>3. Len(s) % Size = 0
          BY <5>2, BlocksOf
        <5>4. 1 * Size + 0 = Size
          BY <1>3
        <5>5. Size % Size = 0
          BY <5>2, <5>4, BlocksOf
        <5> QED  BY <4>1, <5>3, <5>5
      <4>2. CASE j # Size
        <5>1. j \in 0 .. Size - 1
          BY <1>3, <4>2
        <5>2. Len(s) % Size = j
          BY <3>2, <5>1, BlocksOf
        <5>3. 0 * Size + j = j
          BY <1>3
        <5>4. j % Size = j
          BY <5>1, <5>3, BlocksOf
        <5> QED  BY <5>2, <5>4
      <4> QED  BY <4>1, <4>2
    <3> QED  BY <1>2, <1>7, <2>2, <3>3, <3>4
  <2> QED  BY <2>1, <2>2
<1> QED  BY <1>1, <1>5, <1>6, <1>7

\* A receiver never sees units of two messages mixed, nor a block without its beginning,
\* whatever pieces send() takes and recv() gives.
THEOREM BlocksWhole == Spec => []StreamFramed
<1>1. TypeOK /\ WireInv => StreamFramed
  BY FramedStreams
<1> QED  BY <1>1, WireInvariant, PTL

-----------------------------------------------------------------------------
(* The promise of module Links.                                            *)

\* What Links sees of a connection: the whole blocks, and the message being sent.
LEMMA SentIs ==
  ASSUME TypeOK, MutexInv, NEW q \in Receivers
  PROVE  /\ Sent[q] = IF q \in gone THEN <<>> ELSE Whole(Stream(q)) \o InSending(q)
         /\ Whole(Stream(q)) \in Seq(Messages) /\ InSending(q) \in Seq(Messages)
<1>1. PICK s \in Seq(Unit) : s = Stream(q) /\ Len(s) \in Nat
  BY StreamIs
<1>2. Whole(s) \in Seq(Messages)
  <2>1. PICK b \in Nat, r \in 0 .. Size - 1 : Len(s) = b * Size + r
    BY <1>1, BlocksAndRest
  <2> QED  BY <2>1, WholeIs
<1>3. InSending(q) \in Seq(Messages)
  <2>1. CASE ~ended /\ m_send_buffer_mutex # None
    <3>1. PICK t \in Threads : t = m_send_buffer_mutex
      BY <2>1 DEF TypeOK
    <3>2. Message(t) \in Messages
      BY <3>1, SendingIs
    <3> QED  BY <3>1, <3>2 DEF InSending
  <2>2. CASE ~(~ended /\ m_send_buffer_mutex # None)
    BY <2>2 DEF InSending
  <2> QED  BY <2>1, <2>2
<1> QED  BY <1>1, <1>2, <1>3 DEF Sent

\* The receiver that the holder of the mutex sends to is one of those left.
LEMMA InSendingIs ==
  ASSUME TypeOK, MutexInv, NEW t \in Threads, m_send_buffer_mutex = t, ~ended,
         NEW q \in Receivers
  PROVE  InSending(q) = IF q \in Range(Head(todo[t]).to) THEN <<Message(t)>> ELSE <<>>
BY ThreadsAssumption DEF InSending

\* After the whole block the message is still being sent to the other receivers, and to
\* none of them twice.
LEMMA InSendingNext ==
  ASSUME TypeOK, MutexInv, NEW t \in Threads, m_send_buffer_mutex = t, ~ended, ended' = ended,
         NextReceiver(t), NEW q \in Receivers
  PROVE  /\ q # Receiver(t) => InSending(q)' = InSending(q)
         /\ q = Receiver(t) => InSending(q) = <<Message(t)>> /\ InSending(q)' = <<>>
<1>1. PICK to \in Seq(Receivers) :
        /\ to = Head(todo[t]).to /\ to # <<>> /\ IsInjective(to) /\ Receiver(t) = Head(to)
  BY SendingIs DEF Receiver
<1>2. /\ Range(to) = {Head(to)} \cup Range(Tail(to))
      /\ Head(to) \notin Range(Tail(to))
  BY <1>1, TailInjective
<1>3. InSending(q) = IF q \in Range(to) THEN <<Message(t)>> ELSE <<>>
  BY <1>1, InSendingIs
<1>4. InSending(q)' = IF q \in Range(Tail(to)) THEN <<Message(t)>> ELSE <<>>
  <2>1. CASE m_send_buffer_mutex' = t
    <3>1. Head(todo'[t]).msg = Head(todo[t]).msg /\ Head(todo'[t]).to = Tail(to)
      BY <1>1, <2>1, NextReceiverIs, ThreadsAssumption
    <3> QED  BY <2>1, <3>1, ThreadsAssumption DEF InSending, Message
  <2>2. CASE m_send_buffer_mutex' # t
    <3>1. m_send_buffer_mutex' = None /\ Tail(to) = <<>>
      BY <1>1, <2>2, NextReceiverIs
    <3>2. Range(Tail(to)) = {}
      BY <3>1 DEF Range
    <3> QED  BY <3>1, <3>2 DEF InSending
  <2> QED  BY <2>1, <2>2
<1> QED  BY <1>1, <1>2, <1>3, <1>4

\* Nothing that Links sees of the connections changes.
LEMMA SentRests ==
  ASSUME gone' = gone,
         \A q \in Receivers \ gone :
           Whole(Stream(q))' \o InSending(q)' = Whole(Stream(q)) \o InSending(q)
  PROVE  Sent' = Sent
BY DEF Sent

\* Links' Send: a thread gets the mutex, and nothing can come before its message now.
LEMMA LockSends ==
  ASSUME TypeOK, WireInv, NEW t \in Threads, Lock(t)
  PROVE  Promise!Send(t)
<1>0. MutexInv
  BY DEF WireInv
<1>1. /\ ~ended /\ todo[t] # <<>> /\ m_send_buffer_mutex = None /\ m_send_buffer_mutex' = t
      /\ UNCHANGED <<todo, sentBytes, sock, buffer, handled, ended, reset, broken, gone>>
      /\ \A u \in Threads : u # None
  BY ThreadsAssumption DEF Lock
<1>2. Unsent[t] = todo[t] /\ Unsent' = [Unsent EXCEPT ![t] = Tail(Unsent[t])]
  <2>1. \A u \in Threads : Unsent[u] = todo[u]
    BY <1>1 DEF Unsent
  <2>2. Unsent' = [u \in Threads |-> IF t = u THEN Tail(todo[u]) ELSE todo[u]]
    BY <1>1 DEF Unsent
  <2>3. Unsent = [u \in Threads |-> Unsent[u]]
    BY DEF Unsent
  <2> QED  BY <2>1, <2>2, <2>3
<1>3. PICK to \in Seq(Receivers), m \in Messages : to = Head(todo[t]).to /\ m = Head(todo[t]).msg
  <2>1. todo[t] \in Seq(Job) /\ todo[t] # <<>>
    BY <1>1 DEF TypeOK
  <2>2. Head(todo[t]) \in Job
    BY <2>1, HeadTailProperties
  <2> QED  BY <2>2 DEF Job
<1>4. ASSUME NEW q \in Receivers
      PROVE  Sent'[q] = IF \E i \in DOMAIN to : q = to[i] /\ q \notin gone
                        THEN Append(Sent[q], m) ELSE Sent[q]
  <2>1. CASE q \in gone
    BY <1>1, <2>1 DEF Sent
  <2>2. CASE q \notin gone
    <3>1. PICK w \in Seq(Messages) : w = Whole(Stream(q))
      BY <1>0, SentIs
    <3>2. InSending(q) = <<>> /\ Sent[q] = w
      <4>1. InSending(q) = <<>>
        BY <1>1 DEF InSending
      <4> QED  BY <1>0, <2>2, <3>1, <4>1, SentIs, ConcatEmptySeq
    <3>3. InSending(q)' = IF q \in Range(to) THEN <<m>> ELSE <<>>
      BY <1>1, <1>3 DEF InSending, Message
    <3>4. Sent'[q] = w \o InSending(q)'
      BY <1>1, <2>2, <3>1 DEF Sent, Stream, Whole
    <3>5. q \in Range(to) <=> \E i \in DOMAIN to : q = to[i]
      BY DEF Range
    <3>6. w \o <<m>> = Append(w, m) /\ w \o <<>> = w
      BY AppendIsConcat, ConcatEmptySeq
    <3> QED  BY <2>2, <3>2, <3>3, <3>4, <3>5, <3>6
  <2> QED  BY <2>1, <2>2
<1>5. Sent' = [q \in Receivers |-> IF \E i \in DOMAIN to : q = to[i] /\ q \notin gone
                                   THEN Append(Sent[q], m) ELSE Sent[q]]
  <2>1. Sent' = [q \in Receivers |-> Sent'[q]]
    BY DEF Sent
  <2> QED  BY <1>4, <2>1
<1> QED  BY <1>1, <1>2, <1>3, <1>5 DEF Promise!Send

\* A piece that send() takes, and a send() that fails, change nothing for Links.
LEMMA PiecesUnseen ==
  ASSUME TypeOK, WireInv, NEW t \in Threads, SendPiece(t) \/ SendFails(t)
  PROVE  UNCHANGED <<Unsent, Sent, handled, ended, gone>>
<1>0. MutexInv
  BY DEF WireInv
<1>1. m_send_buffer_mutex = t /\ ~ended /\ UNCHANGED <<buffer, handled, ended, gone>>
  BY DEF SendPiece, SendFails, Sending
<1>2. CASE SendFails(t)
  <2>1. NextReceiver(t) /\ Receiver(t) \in gone /\ UNCHANGED <<sock, buffer>>
    BY <1>2 DEF SendFails
  <2>2. \A q \in Receivers \ gone : UNCHANGED <<Whole(Stream(q)), InSending(q)>>
    BY <1>0, <1>1, <2>1, InSendingNext DEF Stream, Whole
  <2> QED  BY <1>0, <1>1, <2>1, <2>2, NextReceiverKeeps, SentRests
<1>3. CASE SendPiece(t)
  <2>1. Receiver(t) \in Receivers
    BY <1>0, SendingIs, <1>1
  <2>2. PICK n \in 1 .. Size - sentBytes[t] :
          /\ \/ Receiver(t) \in gone /\ UNCHANGED sock
             \/ /\ Receiver(t) \notin gone
                /\ Len(sock[Receiver(t)]) + n <= Room
                /\ sock' = [sock EXCEPT ![Receiver(t)] = sock[Receiver(t)] \o Piece(t, n)]
          /\ \/ sentBytes[t] + n = Size /\ NextReceiver(t)
             \/ /\ sentBytes[t] + n < Size
                /\ sentBytes' = [sentBytes EXCEPT ![t] = sentBytes[t] + n]
                /\ UNCHANGED <<todo, m_send_buffer_mutex>>
    BY <1>0, <1>3, SendPieceIs
  <2>3. ASSUME NEW q \in Receivers \ gone
        PROVE  Whole(Stream(q))' \o InSending(q)' = Whole(Stream(q)) \o InSending(q)
    <3>1. CASE q # Receiver(t)
      <4>1. sock'[q] = sock[q]
        BY <2>2, <3>1 DEF TypeOK
      <4>2. Whole(Stream(q))' = Whole(Stream(q))
        BY <1>1, <4>1 DEF Stream, Whole
      <4>3. InSending(q)' = InSending(q)
        <5>1. CASE NextReceiver(t)
          BY <1>0, <1>1, <3>1, <5>1, InSendingNext
        <5>2. CASE UNCHANGED <<todo, m_send_buffer_mutex>>
          BY <1>1, <5>2 DEF InSending, Message
        <5> QED  BY <2>2, <5>1, <5>2
      <4> QED  BY <4>2, <4>3
    <3>2. CASE q = Receiver(t)
      <4>1. sock' = [sock EXCEPT ![Receiver(t)] = sock[Receiver(t)] \o Piece(t, n)]
        BY <2>2, <3>2
      <4>2. PICK then : then = buffer'[Receiver(t)] \o sock'[Receiver(t)]
        OBVIOUS
      <4>3. StreamInv(Receiver(t))
        BY <3>2 DEF WireInv
      <4>4. Whole(then) = IF sentBytes[t] + n = Size
                          THEN Append(Whole(Stream(q)), Message(t)) ELSE Whole(Stream(q))
        BY <1>0, <1>1, <3>2, <4>1, <4>2, <4>3, StreamGrows
      <4>5. Whole(Stream(q))' = Whole(then)
        BY <3>2, <4>2 DEF Stream, Whole
      <4>6. PICK w \in Seq(Messages) : w = Whole(Stream(q))
        BY <1>0, SentIs
      <4>7. Message(t) \in Messages
        BY <1>0, <1>1, SendingIs
      <4>8. CASE sentBytes[t] + n = Size /\ NextReceiver(t)
        <5>1. InSending(q) = <<Message(t)>> /\ InSending(q)' = <<>>
          BY <1>0, <1>1, <3>2, <4>8, InSendingNext
        <5>2. Append(w, Message(t)) \o <<>> = w \o <<Message(t)>>
          BY <4>7, AppendIsConcat, AppendProperties, ConcatEmptySeq
        <5> QED  BY <4>4, <4>5, <4>6, <4>8, <5>1, <5>2
      <4>9. CASE sentBytes[t] + n < Size /\ UNCHANGED <<todo, m_send_buffer_mutex>>
        <5>1. InSending(q)' = InSending(q)
          BY <1>1, <4>9 DEF InSending, Message
        <5>2. sentBytes[t] + n # Size
          BY <1>0, <1>1, <4>9, SendingIs, NumbersAssumption
        <5> QED  BY <4>4, <4>5, <5>1, <5>2
      <4> QED  BY <2>2, <4>8, <4>9
    <3> QED  BY <3>1, <3>2
  <2>4. Unsent' = Unsent
    <3>1. CASE NextReceiver(t)
      BY <1>0, <1>1, <3>1, NextReceiverKeeps
    <3>2. CASE UNCHANGED <<todo, m_send_buffer_mutex>>
      BY <3>2 DEF Unsent
    <3> QED  BY <2>2, <3>1, <3>2
  <2> QED  BY <1>1, <2>3, <2>4, SentRests
<1> QED  BY <1>2, <1>3

\* What a process sends leaves the other processes' ends as they are: what Links sees of
\* the connections to the receivers other than p.
LEMMA OthersSent ==
  ASSUME UNCHANGED <<senderVars, ended>>, NEW q \in Receivers, Stream(q)' = Stream(q),
         q \in gone' <=> q \in gone
  PROVE  Sent'[q] = Sent[q]
BY DEF Sent, InSending, Message, Whole, senderVars

\* Links' Handle: a receiver's buffer holds a whole block, the first message of those sent.
LEMMA DealHandles ==
  ASSUME TypeOK, WireInv, NEW p \in Receivers, DealWithRequest(p)
  PROVE  Promise!Handle(p)
<1>0. MutexInv
  BY DEF WireInv
<1>1. /\ p \notin gone /\ Len(buffer[p]) = Size
      /\ handled' = [handled EXCEPT ![p] = Append(handled[p], Handled(buffer[p]))]
      /\ buffer' = [buffer EXCEPT ![p] = <<>>]
      /\ UNCHANGED <<senderVars, sock, ended, reset, broken, gone>>
  BY DEF DealWithRequest
<1>2. PICK block \in Seq(Unit), rest \in Seq(Unit) : block = buffer[p] /\ rest = sock[p]
  BY StreamIs
<1>3. PICK s : s = block \o rest
  OBVIOUS
<1>4. s = Stream(p) /\ Framed(s)
  BY <1>1, <1>2, <1>3 DEF WireInv, StreamInv, Stream
<1>5. PICK m \in Messages :
        /\ block = Block(m)
        /\ Whole(s) # <<>> /\ Head(Whole(s)) = m
        /\ Tail(Whole(s)) = Whole(rest)
  <2>1. Len(block) = Size /\ Framed(block \o rest)
    BY <1>1, <1>2, <1>3, <1>4
  <2>2. \E m \in Messages : block = Block(m) /\ Whole(block \o rest) # <<>>
                           /\ Head(Whole(block \o rest)) = m
    BY <2>1, BlockTaken
  <2>3. Tail(Whole(block \o rest)) = Whole(rest)
    BY <2>1, BlockTaken
  <2> QED  BY <1>3, <2>2, <2>3
<1>6. Handled(block) = m
  BY <1>5, HandledType
<1>7. PICK w \in Seq(Messages), i \in Seq(Messages) :
        w = Whole(s) /\ i = InSending(p) /\ Sent[p] = w \o i
  BY <1>0, <1>1, <1>4, SentIs
<1>8. w \o i # <<>> /\ Head(w \o i) = m /\ Tail(w \o i) = Tail(w) \o i
  BY <1>5, <1>7, ConcatSimplifications, HeadTailProperties
<1>9. Sent'[p] = Whole(rest) \o i
  <2>1. Stream(p)' = rest
    <3>1. buffer'[p] = <<>> /\ sock'[p] = rest
      BY <1>1, <1>2 DEF TypeOK
    <3> QED  BY <3>1, ConcatEmptySeq DEF Stream
  <2>2. InSending(p)' = i
    BY <1>1, <1>7 DEF senderVars, InSending, Message
  <2>3. p \notin gone'
    BY <1>1
  <2> QED  BY <2>1, <2>2, <2>3 DEF Sent, Whole
<1>10. ASSUME NEW q \in Receivers, q # p  PROVE Sent'[q] = Sent[q]
  <2>1. buffer'[q] = buffer[q] /\ sock'[q] = sock[q]
    BY <1>1, <1>10 DEF TypeOK
  <2>2. Stream(q)' = Stream(q)
    BY <2>1 DEF Stream
  <2> QED  BY <1>1, <2>2, OthersSent
<1>11. Sent' = [Sent EXCEPT ![p] = Tail(Sent[p])]
  <2>1. Sent'[p] = Tail(Sent[p])
    BY <1>5, <1>7, <1>8, <1>9
  <2>2. Sent' = [q \in Receivers |-> Sent'[q]] /\ Sent = [q \in Receivers |-> Sent[q]]
    BY DEF Sent
  <2> QED  BY <1>10, <2>1, <2>2
<1>12. Unsent' = Unsent
  BY <1>1 DEF senderVars, Unsent
<1> QED  BY <1>1, <1>2, <1>6, <1>7, <1>8, <1>11, <1>12 DEF Promise!Handle

\* Links' GiveUp and EndReceiver: what the receiver has not handled is lost; of a connection
\* that was reset the torn rest of a block may be handled.
LEMMA GoneIsGone ==
  ASSUME TypeOK, WireInv, NEW p \in Receivers, RecvFails(p) \/ EndReceiver(p)
  PROVE  Promise!GiveUp(p) \/ Promise!EndReceiver(p)
<1>1. /\ UNCHANGED <<senderVars, ended, reset, broken>>
      /\ p \notin gone /\ gone' = gone \cup {p}
      /\ sock' = [sock EXCEPT ![p] = <<>>] /\ buffer' = [buffer EXCEPT ![p] = <<>>]
  BY DEF RecvFails, EndReceiver
<1>2. ASSUME NEW q \in Receivers, q # p  PROVE Sent'[q] = Sent[q]
  <2>1. buffer'[q] = buffer[q] /\ sock'[q] = sock[q]
    BY <1>1, <1>2 DEF TypeOK
  <2>2. Stream(q)' = Stream(q)
    BY <2>1 DEF Stream
  <2> QED  BY <1>1, <1>2, <2>2, OthersSent
<1>3. Sent' = [Sent EXCEPT ![p] = <<>>]
  <2>1. Sent'[p] = <<>>
    BY <1>1 DEF Sent
  <2>2. Sent' = [q \in Receivers |-> Sent'[q]] /\ Sent = [q \in Receivers |-> Sent[q]]
    BY DEF Sent
  <2> QED  BY <1>2, <2>1, <2>2
<1>4. Unsent' = Unsent
  BY <1>1 DEF senderVars, Unsent
<1>5. CASE EndReceiver(p)
  BY <1>1, <1>3, <1>4, <1>5 DEF EndReceiver, Promise!EndReceiver
<1>6. CASE RecvFails(p)
  <2>1. ended
    BY <1>6 DEF RecvFails, WireInv, MutexInv
  <2>2. handled' = handled \/ handled' = [handled EXCEPT ![p] = Append(handled[p], Torn)]
    <3>1. Len(buffer[p]) # Size
      <4>1. Len(buffer[p]) \in Nat /\ Size \in Nat /\ Len(buffer[p]) < Size
        BY <1>6, StreamIs, NumbersAssumption DEF RecvFails
      <4> QED  BY <4>1
    <3>2. Handled(buffer[p]) = Torn
      BY <3>1, StreamIs, HandledType
    <3> QED  BY <1>6, <3>2 DEF RecvFails
  <2> QED  BY <1>1, <1>3, <1>4, <2>1, <2>2 DEF Promise!GiveUp
<1> QED  BY <1>5, <1>6

\* Links' End: a message that was not sent as a whole to a receiver is lost there.
LEMMA EndEnds ==
  ASSUME TypeOK, WireInv, End
  PROVE  Promise!End
<1>0. MutexInv
  BY DEF WireInv
<1>1. ~ended /\ ended' = TRUE /\ UNCHANGED <<senderVars, sock, buffer, handled, broken, gone>>
  BY DEF End
<1>2. ASSUME NEW q \in Receivers
      PROVE  \E n \in 0 .. Len(Sent[q]) : Sent'[q] = SubSeq(Sent[q], 1, n)
  <2>1. CASE q \in gone
    <3>1. Sent[q] = <<>> /\ Sent'[q] = <<>>
      BY <1>1, <2>1 DEF Sent
    <3>2. SubSeq(<<>>, 1, 0) = <<>> /\ 0 \in 0 .. Len(<<>>)
      OBVIOUS
    <3> QED  BY <3>1, <3>2
  <2>2. CASE q \notin gone
    <3>1. PICK w \in Seq(Messages), i \in Seq(Messages) :
            w = Whole(Stream(q)) /\ i = InSending(q) /\ Sent[q] = w \o i
      BY <1>0, <2>2, SentIs
    <3>2. Sent'[q] = w \o <<>>
      <4>1. InSending(q)' = <<>>
        BY <1>1 DEF InSending
      <4>2. Whole(Stream(q))' = w
        BY <1>1, <3>1 DEF Whole, Stream
      <4> QED  BY <1>1, <2>2, <4>1, <4>2 DEF Sent
    <3>3. SubSeq(w \o i, 1, Len(w)) = w /\ w \o <<>> = w /\ Len(w) \in 0 .. Len(w \o i)
      BY SubSeqOfConcat1, SubSeqFull, ConcatEmptySeq, ConcatProperties
    <3> QED  BY <3>1, <3>2, <3>3
  <2> QED  BY <2>1, <2>2
<1>3. DOMAIN Sent' = Receivers
  BY DEF Sent
<1>4. Unsent' = Unsent
  BY <1>1 DEF senderVars, Unsent
<1> QED  BY <1>1, <1>2, <1>3, <1>4 DEF Promise!End

\* Every step is one of Links, or changes nothing that it sees.
LEMMA PromiseNext ==
  ASSUME TypeOK, WireInv, [Next]_vars
  PROVE  [Promise!Next]_Promise!vars
<1>1. ASSUME NEW t \in Threads, Lock(t) PROVE Promise!Next
  BY <1>1, LockSends DEF Promise!Next
<1>2. ASSUME NEW t \in Threads, SendPiece(t) \/ SendFails(t) PROVE UNCHANGED Promise!vars
  BY <1>2, PiecesUnseen DEF Promise!vars
<1>3. ASSUME NEW q \in Receivers, Recv(q) PROVE UNCHANGED Promise!vars
  <2>1. UNCHANGED <<senderVars, handled, ended, gone>>
    BY <1>3 DEF Recv
  <2>2. \A p \in Receivers : Stream(p)' = Stream(p)
    <3>1. ASSUME NEW p \in Receivers, p # q PROVE Stream(p)' = Stream(p)
      <4>1. buffer'[p] = buffer[p] /\ sock'[p] = sock[p]
        BY <1>3, <3>1, RecvIs DEF TypeOK
      <4> QED  BY <4>1 DEF Stream
    <3>2. Stream(q)' = Stream(q)
      BY <1>3, RecvIs
    <3> QED  BY <3>1, <3>2
  <2>3. Sent' = Sent
    <3>1. \A p \in Receivers : Sent'[p] = Sent[p]
      BY <2>1, <2>2, OthersSent
    <3>2. Sent' = [p \in Receivers |-> Sent'[p]] /\ Sent = [p \in Receivers |-> Sent[p]]
      BY DEF Sent
    <3> QED  BY <3>1, <3>2
  <2>4. Unsent' = Unsent
    BY <2>1 DEF senderVars, Unsent
  <2> QED  BY <2>1, <2>3, <2>4 DEF Promise!vars
<1>4. ASSUME NEW q \in Receivers, DealWithRequest(q) PROVE Promise!Next
  BY <1>4, DealHandles DEF Promise!Next
<1>5. ASSUME NEW q \in Receivers, RecvFails(q) \/ EndReceiver(q) PROVE Promise!Next
  BY <1>5, GoneIsGone DEF Promise!Next
<1>6. CASE End
  BY <1>6, EndEnds DEF Promise!Next
<1>7. CASE UNCHANGED vars
  BY <1>7 DEF vars, Unsent, Sent, Stream, Whole, InSending, Message, Promise!vars
<1> QED
  BY <1>1, <1>2, <1>3, <1>4, <1>5, <1>6, <1>7 DEF Next, SenderStep, ReceiverStep, SigPipe

\* The threads start where Links does.
LEMMA PromiseInit ==
  ASSUME Init
  PROVE  Promise!Init
<1>0. TypeOK /\ MutexInv
  BY WireStarts DEF WireInv
<1>1. Unsent = Jobs
  <2>1. \A t \in Threads : m_send_buffer_mutex # t
    BY ThreadsAssumption DEF Init
  <2>2. Unsent = [t \in Threads |-> Jobs[t]]
    BY <2>1 DEF Init, Unsent
  <2> QED  BY <2>2, JobsAssumption
<1>2. ASSUME NEW q \in Receivers  PROVE Sent[q] = <<>>
  <2>1. PICK s \in Seq(Unit) : s = <<>> /\ s = Stream(q)
    <3>1. <<>> \o <<>> = <<>> /\ <<>> \in Seq(Unit)
      BY ConcatEmptySeq
    <3> QED  BY <3>1 DEF Init, Stream
  <2>2. Whole(s) \in Seq(Messages) /\ Len(Whole(s)) = 0
    <3>1. 0 \in Nat /\ 0 \in 0 .. Size - 1 /\ Len(s) = 0 * Size + 0
      BY <2>1, NumbersAssumption
    <3> QED  BY <3>1, WholeIs
  <2>3. Whole(s) = <<>>
    BY <2>2, EmptySeq
  <2>4. InSending(q) = <<>>
    BY DEF Init, InSending
  <2> QED  BY <1>0, <2>1, <2>3, <2>4, SentIs, ConcatEmptySeq
<1>3. Sent = [q \in Receivers |-> <<>>]
  <2>1. Sent = [q \in Receivers |-> Sent[q]]
    BY DEF Sent
  <2> QED  BY <1>2, <2>1
<1> QED  BY <1>1, <1>3 DEF Init, Promise!Init

\* The threads of a peer and of its neighbours implement Links: whatever pieces the sockets
\* take and give, every neighbour handles whole messages, each once and in the order of
\* the mutex, and one torn one at most when the sender's process has ended.
THEOREM PromiseKept == Spec => KeepsPromise
<1>1. Init => TypeOK /\ WireInv /\ Promise!Init
  BY WireStarts, PromiseInit
<1>2. TypeOK /\ WireInv /\ [Next]_vars => TypeOK' /\ WireInv'
  BY WireNext
<1>3. TypeOK /\ WireInv /\ [Next]_vars => [Promise!Next]_Promise!vars
  BY PromiseNext
<1> QED  BY <1>1, <1>2, <1>3, PTL DEF Spec, KeepsPromise, Promise!Spec
-----------------------------------------------------------------------------
(* Torn blocks.                                                            *)

\* A full buffer is a whole block: DealWithRequest is passed a message.
LEMMA DealtIsWhole ==
  ASSUME TypeOK, WireInv, NEW p \in Receivers, DealWithRequest(p)
  PROVE  \E m \in Messages : handled' = [handled EXCEPT ![p] = Append(handled[p], m)]
<1>1. /\ p \notin gone /\ Len(buffer[p]) = Size
      /\ handled' = [handled EXCEPT ![p] = Append(handled[p], Handled(buffer[p]))]
  BY DEF DealWithRequest
<1>2. PICK block \in Seq(Unit), rest \in Seq(Unit) : block = buffer[p] /\ rest = sock[p]
  BY StreamIs
<1>3. Framed(block \o rest) /\ Len(block) = Size
  BY <1>1, <1>2 DEF WireInv, StreamInv, Stream
<1>4. \E m \in Messages : block = Block(m)
  BY <1>3, BlockTaken
<1>5. Handled(block) \in Messages
  BY <1>4, HandledType
<1> QED  BY <1>1, <1>2, <1>5

\* What is appended to the messages that were handled is the last of them.
LEMMA LastHandled ==
  ASSUME TypeOK, TornLast, NEW p \in Receivers \ gone, NEW m \in Messages \cup {Torn},
         handled' = [handled EXCEPT ![p] = Append(handled[p], m)],
         gone \subseteq gone', ended => ended',
         m = Torn => ended' /\ p \in gone'
  PROVE  TornLast'
<1>1. SUFFICES ASSUME NEW q \in Receivers, NEW i \in DOMAIN handled'[q], handled'[q][i] = Torn
               PROVE  ended' /\ q \in gone' /\ i = Len(handled'[q])
  BY DEF TornLast
<1>2. CASE q # p
  BY <1>1, <1>2 DEF TypeOK, TornLast
<1>3. CASE q = p
  <2>1. PICK old \in Seq(Messages \cup {Torn}) : old = handled[p]
    BY DEF TypeOK
  <2>2. handled'[p] = Append(old, m)
    BY <2>1 DEF TypeOK
  <2>3. \A k \in 1 .. Len(old) : old[k] # Torn
    BY <2>1 DEF TornLast
  <2>4. /\ Len(Append(old, m)) = Len(old) + 1
        /\ \A k \in 1 .. Len(old) : Append(old, m)[k] = old[k]
        /\ Append(old, m)[Len(old) + 1] = m
        /\ Len(old) \in Nat /\ DOMAIN Append(old, m) = 1 .. Len(old) + 1
    OBVIOUS
  <2>5. i = Len(old) + 1
    BY <1>1, <1>3, <2>2, <2>3, <2>4
  <2> QED  BY <1>1, <1>3, <2>2, <2>4, <2>5
<1> QED  BY <1>2, <1>3

\* recv() fails when the sender has ended, and HandleRequest ends with it.
LEMMA TornNext ==
  ASSUME TypeOK, WireInv, TornLast, [Next]_vars
  PROVE  TornLast'
<1>1. ASSUME NEW t \in Threads, SenderStep(t)  PROVE TornLast'
  <2>1. UNCHANGED <<handled, gone>> /\ (ended => ended')
    BY <1>1 DEF SenderStep, Lock, SendPiece, SendFails, SigPipe, End
  <2> QED  BY <2>1 DEF TornLast
<1>2. ASSUME NEW q \in Receivers, Recv(q) \/ EndReceiver(q)  PROVE TornLast'
  <2>1. UNCHANGED <<handled, ended>> /\ gone \subseteq gone'
    BY <1>2 DEF Recv, EndReceiver
  <2> QED  BY <2>1 DEF TornLast
<1>3. ASSUME NEW q \in Receivers, DealWithRequest(q)  PROVE TornLast'
  <2>1. PICK m \in Messages : handled' = [handled EXCEPT ![q] = Append(handled[q], m)]
    BY <1>3, DealtIsWhole
  <2>2. q \notin gone /\ UNCHANGED <<ended, gone>>
    BY <1>3 DEF DealWithRequest
  <2>3. m # Torn
    BY JobsAssumption
  <2> QED  BY <2>1, <2>2, <2>3, LastHandled
<1>4. ASSUME NEW q \in Receivers, RecvFails(q)  PROVE TornLast'
  <2>1. q \notin gone /\ gone' = gone \cup {q} /\ UNCHANGED ended
    BY <1>4 DEF RecvFails
  <2>2. ended
    BY <1>4 DEF RecvFails, WireInv, MutexInv
  <2>3. CASE handled' = handled
    BY <2>1, <2>3 DEF TornLast
  <2>4. CASE handled' = [handled EXCEPT ![q] = Append(handled[q], Handled(buffer[q]))]
    <3>1. Handled(buffer[q]) \in Messages \cup {Torn}
      BY StreamIs, HandledType
    <3> QED  BY <2>1, <2>2, <2>4, <3>1, LastHandled
  <2> QED  BY <1>4, <2>3, <2>4 DEF RecvFails
<1>5. CASE End
  <2>1. UNCHANGED <<handled, gone>> /\ ended'
    BY <1>5 DEF End
  <2> QED  BY <2>1 DEF TornLast
<1>6. CASE UNCHANGED vars
  BY <1>6 DEF vars, TornLast
<1> QED
  BY <1>1, <1>2, <1>3, <1>4, <1>5, <1>6 DEF Next, ReceiverStep

\* However the pieces of the blocks arrive, and whenever a connection is reset, a receiver
\* handles one torn block at most, and nothing after it.
THEOREM OneTornAtMost == Spec => []TornLast
<1>1. Init => TypeOK /\ WireInv /\ TornLast
  <2>1. Init => TornLast
    BY DEF Init, TornLast
  <2> QED  BY <2>1, WireStarts
<1>2. TypeOK /\ WireInv /\ TornLast /\ [Next]_vars => TypeOK' /\ WireInv' /\ TornLast'
  BY WireNext, TornNext
<1> QED  BY <1>1, <1>2, PTL DEF Spec
=============================================================================
