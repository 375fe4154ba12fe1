------------------------- MODULE PeerClientNoDuplicates -------------------------
(***************************************************************************)
(* Proof that no peer is recorded twice among the answers to a query that  *)
(* nobody has forgotten (NoDuplicateAnswers), for every overlay, every set *)
(* of files and every bound of PeerClient. An answer is in one place of    *)
(* the overlay at a time, and whoever has given it does not give it again. *)
(***************************************************************************)
EXTENDS PeerClientAnswers

-----------------------------------------------------------------------------
(* Sequences in several places: what Distinct and Present make of moving one  *)
(* element, adding one, taking one away.                                   *)

\* The elements of the places are single already when the set of those that must be
\* gets no new ones.
LEMMA DistinctSubset ==
  ASSUME NEW C, NEW S, NEW T, Distinct(C, S), \A a \in Present(C) : a \in T => a \in S,
         NoAnswer \notin T
  PROVE  Distinct(C, T)
BY DEF Distinct, Present, Range

\* Appending to a sequence.
LEMMA AppendIs ==
  ASSUME NEW V, NEW s \in Seq(V), NEW e \in V
  PROVE  /\ DOMAIN s = 1 .. Len(s) /\ Len(s) \in Nat
         /\ DOMAIN Append(s, e) = 1 .. (Len(s) + 1)
         /\ \A i \in 1 .. Len(s) : Append(s, e)[i] = s[i]
         /\ Append(s, e)[Len(s) + 1] = e
BY AppendProperties, LenProperties

\* Taking the head of a sequence.
LEMMA TailIs ==
  ASSUME NEW V, NEW s \in Seq(V), s # <<>>
  PROVE  /\ DOMAIN s = 1 .. Len(s) /\ Len(s) \in Nat \ {0}
         /\ DOMAIN Tail(s) = 1 .. (Len(s) - 1)
         /\ \A i \in 1 .. (Len(s) - 1) : Tail(s)[i] = s[i + 1]
         /\ Head(s) = s[1]
<1>1. Len(s) \in Nat \ {0} /\ DOMAIN s = 1 .. Len(s)
  BY EmptySeq, LenProperties
<1>2. /\ Tail(s) \in Seq(V) /\ Len(Tail(s)) = Len(s) - 1
      /\ \A i \in 1 .. Len(Tail(s)) : Tail(s)[i] = s[i + 1]
  BY HeadTailProperties
<1> QED BY <1>1, <1>2, LenProperties

\* Where the elements come from that are present after a step: e is the only new one.
LEMMA PresentFrom ==
  ASSUME NEW C, NEW D, DOMAIN D = DOMAIN C, NEW e,
         \A m \in DOMAIN C : \A i \in DOMAIN D[m] :
           D[m][i] = e \/ \E n \in DOMAIN C : \E j \in DOMAIN C[n] : D[m][i] = C[n][j]
  PROVE  Present(D) \subseteq Present(C) \cup {e}
<1> SUFFICES ASSUME NEW a \in Present(D), a # e PROVE a \in Present(C)
  OBVIOUS
<1>1. PICK m \in DOMAIN C : a \in Range(D[m])
  BY DEF Present
<1>2. PICK i \in DOMAIN D[m] : a = D[m][i]
  BY <1>1 DEF Range
<1>3. a # NoAnswer
  BY DEF Present
<1>4. PICK n \in DOMAIN C : \E j \in DOMAIN C[n] : a = C[n][j]
  BY <1>2, <1>3
<1>5. a \in Range(C[n])
  BY <1>4 DEF Range
<1> QED BY <1>3, <1>5 DEF Present

\* The same where none is new.
LEMMA PresentOnly ==
  ASSUME NEW C, NEW D, DOMAIN D = DOMAIN C,
         \A m \in DOMAIN C : \A i \in DOMAIN D[m] :
           D[m][i] = NoAnswer \/ \E n \in DOMAIN C : \E j \in DOMAIN C[n] : D[m][i] = C[n][j]
  PROVE  Present(D) \subseteq Present(C)
<1>1. Present(D) \subseteq Present(C) \cup {NoAnswer}
  BY PresentFrom
<1> QED BY <1>1 DEF Present

\* Every sequence is as it was, or is empty now.
LEMMA DistinctClear ==
  ASSUME NEW K, NEW V, NEW C \in [K -> Seq(V)], NEW D \in [K -> Seq(V)], NEW S,
         Distinct(C, S), \A k \in K : D[k] \in {C[k], <<>>}
  PROVE  Distinct(D, S) /\ Present(D) \subseteq Present(C)
<1>1. \A k \in K : \A i \in DOMAIN D[k] : i \in DOMAIN C[k] /\ D[k][i] = C[k][i]
  OBVIOUS
<1> QED BY <1>1 DEF Distinct, Present, Range

\* One sequence has lost its head.
LEMMA DistinctDrop ==
  ASSUME NEW K, NEW V, NEW C \in [K -> Seq(V)], NEW D \in [K -> Seq(V)], NEW S,
         Distinct(C, S), NEW k \in K, C[k] # <<>>,
         D[k] = Tail(C[k]), \A m \in K \ {k} : D[m] = C[m]
  PROVE  Distinct(D, S) /\ Present(D) \subseteq Present(C)
<1>1. \A i \in DOMAIN D[k] : i + 1 \in DOMAIN C[k] /\ D[k][i] = C[k][i + 1] /\ i \in Nat
  BY TailIs
<1>2. Present(D) \subseteq Present(C)
  <2>1. \A m \in K : \A i \in DOMAIN D[m] :
          D[m][i] = NoAnswer \/ \E n \in K : \E j \in DOMAIN C[n] : D[m][i] = C[n][j]
    BY <1>1
  <2>2. DOMAIN C = K /\ DOMAIN D = K
    OBVIOUS
  <2> QED BY <2>1, <2>2, PresentOnly
<1>3. ASSUME NEW m \in K, NEW n \in K, NEW i \in DOMAIN D[m], NEW j \in DOMAIN D[n],
             D[m][i] \in S, D[m][i] = D[n][j]
      PROVE  m = n /\ i = j
  <2>1. CASE m = k /\ n = k
    BY <1>1, <1>3, <2>1 DEF Distinct
  <2>2. CASE m = k /\ n # k
    BY <1>1, <1>3, <2>2 DEF Distinct
  <2>3. CASE m # k /\ n = k
    BY <1>1, <1>3, <2>3 DEF Distinct
  <2>4. CASE m # k /\ n # k
    BY <1>3, <2>4 DEF Distinct
  <2> QED BY <2>1, <2>2, <2>3, <2>4
<1> QED BY <1>2, <1>3 DEF Distinct

\* An element is added to one sequence.
LEMMA DistinctAdd ==
  ASSUME NEW C, NEW D, DOMAIN D = DOMAIN C, NEW S, Distinct(C, S), NoAnswer \notin S,
         NEW l \in DOMAIN C, NEW e, e \notin S \/ e \notin Present(C),
         \A i \in DOMAIN D[l] : \/ i \in DOMAIN C[l] /\ D[l][i] = C[l][i]
                                \/ i = Len(C[l]) + 1 /\ D[l][i] = e,
         \A m \in DOMAIN C \ {l} : D[m] = C[m]
  PROVE  Distinct(D, S) /\ Present(D) \subseteq Present(C) \cup {e}
<1>1. Present(D) \subseteq Present(C) \cup {e}
  <2>1. \A m \in DOMAIN C : \A i \in DOMAIN D[m] :
          D[m][i] = e \/ \E o \in DOMAIN C : \E j \in DOMAIN C[o] : D[m][i] = C[o][j]
    OBVIOUS
  <2> QED BY <2>1, PresentFrom, Zenon
<1>2. \A m \in DOMAIN C : \A i \in DOMAIN C[m] : C[m][i] \in S => C[m][i] # e
  BY DEF Present, Range
<1>3. ASSUME NEW m \in DOMAIN C, NEW o \in DOMAIN C, NEW i \in DOMAIN D[m], NEW j \in DOMAIN D[o],
             D[m][i] \in S, D[m][i] = D[o][j]
      PROVE  m = o /\ i = j
  <2>1. CASE m = l /\ o = l
    BY <1>2, <1>3, <2>1 DEF Distinct
  <2>2. CASE m = l /\ o # l
    BY <1>2, <1>3, <2>2 DEF Distinct
  <2>3. CASE m # l /\ o = l
    BY <1>2, <1>3, <2>3 DEF Distinct
  <2>4. CASE m # l /\ o # l
    BY <1>3, <2>4 DEF Distinct
  <2> QED BY <2>1, <2>2, <2>3, <2>4
<1> QED BY <1>1, <1>3 DEF Distinct

\* An element that need not be single is added to some of the sequences.
LEMMA DistinctSpread ==
  ASSUME NEW K, NEW V, NEW C \in [K -> Seq(V)], NEW D \in [K -> Seq(V)], NEW S,
         Distinct(C, S), NoAnswer \in V, NoAnswer \notin S,
         \A m \in K : D[m] = C[m] \/ D[m] = Append(C[m], NoAnswer)
  PROVE  Distinct(D, S) /\ Present(D) \subseteq Present(C)
<1>1. ASSUME NEW m \in K, NEW i \in DOMAIN D[m], D[m][i] # NoAnswer
      PROVE  i \in DOMAIN C[m] /\ D[m][i] = C[m][i]
  <2>1. C[m] \in Seq(V)
    OBVIOUS
  <2>2. CASE D[m] = Append(C[m], NoAnswer)
    BY <1>1, <2>1, <2>2, AppendIs
  <2> QED BY <1>1, <2>2
<1>2. Present(D) \subseteq Present(C)
  <2>1. \A m \in K : \A i \in DOMAIN D[m] :
          D[m][i] = NoAnswer \/ \E n \in K : \E j \in DOMAIN C[n] : D[m][i] = C[n][j]
    BY <1>1
  <2>2. DOMAIN C = K /\ DOMAIN D = K
    OBVIOUS
  <2> QED BY <2>1, <2>2, PresentOnly
<1> QED BY <1>1, <1>2 DEF Distinct

\* The head of one sequence has become the last of another.
LEMMA DistinctMove ==
  ASSUME NEW K, NEW V, NEW C \in [K -> Seq(V)], NEW D \in [K -> Seq(V)], NEW S,
         Distinct(C, S), NEW k \in K, NEW l \in K \ {k}, C[k] # <<>>,
         D[k] = Tail(C[k]), D[l] = Append(C[l], Head(C[k])), \A m \in K \ {k, l} : D[m] = C[m]
  PROVE  Distinct(D, S) /\ Present(D) \subseteq Present(C)
<1>1. /\ \A i \in DOMAIN D[k] : i + 1 \in DOMAIN C[k] /\ D[k][i] = C[k][i + 1] /\ i \in Nat \ {0}
      /\ 1 \in DOMAIN C[k] /\ Head(C[k]) = C[k][1] /\ Head(C[k]) \in V
  <2>1. C[k] \in Seq(V)
    OBVIOUS
  <2> QED BY <2>1, TailIs, HeadTailProperties
<1>2. \A i \in DOMAIN D[l] : \/ i \in DOMAIN C[l] /\ D[l][i] = C[l][i]
                             \/ i = Len(C[l]) + 1 /\ D[l][i] = C[k][1]
  <2>1. C[l] \in Seq(V)
    OBVIOUS
  <2> QED BY <1>1, <2>1, AppendIs
<1>3. Present(D) \subseteq Present(C)
  <2>1. \A m \in K : \A i \in DOMAIN D[m] :
          D[m][i] = NoAnswer \/ \E n \in K : \E j \in DOMAIN C[n] : D[m][i] = C[n][j]
    <3> SUFFICES ASSUME NEW m \in K, NEW i \in DOMAIN D[m]
                 PROVE  \E n \in K : \E j \in DOMAIN C[n] : D[m][i] = C[n][j]
      OBVIOUS
    <3>1. CASE m = k
      BY <1>1, <3>1
    <3>2. CASE m = l
      BY <1>1, <1>2, <3>2
    <3>3. CASE m \notin {k, l}
      BY <3>3
    <3> QED BY <3>1, <3>2, <3>3
  <2>2. DOMAIN C = K /\ DOMAIN D = K
    OBVIOUS
  <2> QED BY <2>1, <2>2, PresentOnly
<1>4. ASSUME NEW m \in K, NEW n \in K, NEW i \in DOMAIN D[m], NEW j \in DOMAIN D[n],
             D[m][i] \in S, D[m][i] = D[n][j]
      PROVE  m = n /\ i = j
  <2>1. \A x, y \in K : \A u \in DOMAIN C[x], v \in DOMAIN C[y] :
          C[x][u] \in S /\ C[x][u] = C[y][v] => x = y /\ u = v
    BY DEF Distinct
  <2>2. CASE m = k /\ n = k
    BY <1>1, <1>4, <2>1, <2>2
  <2>3. CASE m = k /\ n = l
    BY <1>1, <1>2, <1>4, <2>1, <2>3
  <2>4. CASE m = k /\ n \notin {k, l}
    BY <1>1, <1>4, <2>1, <2>4
  <2>5. CASE m = l /\ n = k
    BY <1>1, <1>2, <1>4, <2>1, <2>5
  <2>6. CASE m = l /\ n = l
    BY <1>1, <1>2, <1>4, <2>1, <2>6
  <2>7. CASE m = l /\ n \notin {k, l}
    BY <1>1, <1>2, <1>4, <2>1, <2>7
  <2>8. CASE m \notin {k, l} /\ n = k
    BY <1>1, <1>4, <2>1, <2>8
  <2>9. CASE m \notin {k, l} /\ n = l
    BY <1>1, <1>2, <1>4, <2>1, <2>9
  <2>10. CASE m \notin {k, l} /\ n \notin {k, l}
    BY <1>4, <2>1, <2>10
  <2> QED BY <2>2, <2>3, <2>4, <2>5, <2>6, <2>7, <2>8, <2>9, <2>10
<1> QED BY <1>3, <1>4 DEF Distinct
-----------------------------------------------------------------------------
(* The contents of the places.                                             *)

Values == Answer \cup {NoAnswer}
SockAt(p, q) == <<"sock", p, q>>
QueueAt(p) == <<"queue", p, NoPeer>>
HandlerAt(p) == <<"handler", p, NoPeer>>
ResultsAt(p, id) == <<"results", p, id>>

\* Every message gives an answer or NoAnswer, a query none.
LEMMA AnswerOfType ==
  ASSUME NEW msg \in Message
  PROVE  AnswerOf(msg) \in Values /\ (msg \in Queries => AnswerOf(msg) = NoAnswer)
BY DEF AnswerOf, Values, Answer, Message, Hits, Queries, TestTypes

\* NoAnswer is no answer.
LEMMA NoAnswerIsNone == NoAnswer \notin Answer
BY PeersAssumption DEF NoAnswer, Answer, Unset, NoPeer

\* The answers of a queue of messages.
LEMMA AnswersOfType ==
  ASSUME NEW s \in Seq(Message)
  PROVE  /\ AnswersOf(s) \in Seq(Values) /\ Len(AnswersOf(s)) = Len(s)
         /\ \A i \in 1 .. Len(s) : AnswersOf(s)[i] = AnswerOf(s[i])
         /\ Len(s) \in Nat
<1>1. /\ DOMAIN s = 1 .. Len(s) /\ Len(s) \in Nat
      /\ \A i \in 1 .. Len(s) : s[i] \in Message
  BY LenProperties, ElementOfSeq
<1>2. AnswersOf(s) \in [1 .. Len(s) -> Values]
  BY <1>1, AnswerOfType DEF AnswersOf
<1>3. AnswersOf(s) \in Seq(Values)
  BY <1>1, <1>2, SeqDef
<1>4. Len(AnswersOf(s)) = Len(s)
  BY <1>1, <1>2, <1>3, LenProperties
<1> QED BY <1>1, <1>3, <1>4 DEF AnswersOf

\* A message is put into a queue.
LEMMA AnswersOfAppend ==
  ASSUME NEW s \in Seq(Message), NEW msg \in Message
  PROVE  AnswersOf(Append(s, msg)) = Append(AnswersOf(s), AnswerOf(msg))
<1> DEFINE t == Append(s, msg)
           a == AnswersOf(s)
           b == AnswersOf(t)
           c == Append(a, AnswerOf(msg))
<1>1. /\ t \in Seq(Message) /\ Len(t) = Len(s) + 1 /\ Len(s) \in Nat
      /\ \A i \in 1 .. Len(s) : t[i] = s[i]
      /\ t[Len(s) + 1] = msg
  BY AppendProperties, LenProperties
<1>2. /\ a \in Seq(Values) /\ Len(a) = Len(s)
      /\ \A i \in 1 .. Len(s) : a[i] = AnswerOf(s[i])
  BY AnswersOfType
<1>3. /\ b \in Seq(Values) /\ Len(b) = Len(s) + 1
      /\ \A i \in 1 .. Len(s) + 1 : b[i] = AnswerOf(t[i])
  <2> HIDE DEF t
  <2> QED BY <1>1, AnswersOfType
<1>4. /\ c \in Seq(Values) /\ Len(c) = Len(s) + 1
      /\ \A i \in 1 .. Len(s) : c[i] = a[i]
      /\ c[Len(s) + 1] = AnswerOf(msg)
  <2> AnswerOf(msg) \in Values
    BY AnswerOfType
  <2> HIDE DEF a
  <2> QED BY <1>2, AppendProperties
<1>5. \A i \in 1 .. Len(b) : b[i] = c[i]
  <2> HIDE DEF a, b, c, t
  <2> QED BY <1>1, <1>2, <1>3, <1>4
<1>6. b = c
  <2> HIDE DEF b, c
  <2> QED BY <1>3, <1>4, <1>5, SeqEqual
<1> QED BY <1>6

\* A message is taken from a queue.
LEMMA AnswersOfTail ==
  ASSUME NEW s \in Seq(Message), s # <<>>
  PROVE  /\ AnswersOf(s) # <<>>
         /\ AnswersOf(Tail(s)) = Tail(AnswersOf(s))
         /\ Head(AnswersOf(s)) = AnswerOf(Head(s))
<1> DEFINE t == Tail(s)
           a == AnswersOf(s)
           b == AnswersOf(t)
           c == Tail(a)
<1>1. /\ t \in Seq(Message) /\ Len(t) = Len(s) - 1 /\ Len(s) \in Nat \ {0}
      /\ \A i \in 1 .. Len(s) - 1 : t[i] = s[i + 1]
      /\ Head(s) = s[1]
  BY HeadTailProperties, LenProperties, EmptySeq
<1>2. /\ a \in Seq(Values) /\ Len(a) = Len(s)
      /\ \A i \in 1 .. Len(s) : a[i] = AnswerOf(s[i])
  BY AnswersOfType
<1>3. /\ b \in Seq(Values) /\ Len(b) = Len(s) - 1
      /\ \A i \in 1 .. Len(s) - 1 : b[i] = AnswerOf(t[i])
  <2> HIDE DEF t
  <2> QED BY <1>1, AnswersOfType
<1>4. a # <<>>
  <2> HIDE DEF a
  <2> QED BY <1>1, <1>2, EmptySeq
<1>5. /\ c \in Seq(Values) /\ Len(c) = Len(s) - 1
      /\ \A i \in 1 .. Len(s) - 1 : c[i] = a[i + 1]
      /\ Head(a) = a[1]
  <2> HIDE DEF a
  <2> QED BY <1>1, <1>2, <1>4, HeadTailProperties
<1>6. \A i \in 1 .. Len(b) : b[i] = c[i]
  <2> HIDE DEF a, b, c, t
  <2> SUFFICES ASSUME NEW i \in 1 .. Len(s) - 1 PROVE b[i] = c[i]
    BY <1>3
  <2>1. i + 1 \in 1 .. Len(s)
    BY <1>1
  <2> QED BY <1>1, <1>2, <1>3, <1>5, <2>1
<1>7. Head(a) = AnswerOf(Head(s))
  BY <1>1, <1>2, <1>5
<1>8. b = c
  <2> HIDE DEF b, c
  <2> QED BY <1>3, <1>5, <1>6, SeqEqual
<1> QED BY <1>4, <1>7, <1>8

\* What is where.
ContentsAre ==
  /\ \A p, q \in Peers : Contents[SockAt(p, q)] = AnswersOf(sock[p][q])
  /\ \A p \in Peers : Contents[QueueAt(p)] = AnswersOf(m_messages_queue[p])
  /\ \A p \in Peers : Contents[HandlerAt(p)] = HandlerAnswers(p)
  /\ \A p \in Peers, id \in MsgIds : Contents[ResultsAt(p, id)] = RecordedAnswers(p, id)

\* The places, and that they are different.
LEMMA PlacesAre ==
  /\ \A p, q \in Peers : SockAt(p, q) \in Places
  /\ \A p \in Peers : QueueAt(p) \in Places /\ HandlerAt(p) \in Places
  /\ \A p \in Peers, id \in MsgIds : ResultsAt(p, id) \in Places
  /\ \A k \in Places : \/ \E p, q \in Peers : k = SockAt(p, q)
                       \/ \E p \in Peers : k = QueueAt(p)
                       \/ \E p \in Peers : k = HandlerAt(p)
                       \/ \E p \in Peers, id \in MsgIds : k = ResultsAt(p, id)
BY DEF Places, Sockets, Queues, HandlersAt, Results, SockAt, QueueAt, HandlerAt, ResultsAt

LEMMA ContentsHere == ContentsAre
BY PlacesAre DEF ContentsAre, Contents, SockAt, QueueAt, HandlerAt, ResultsAt

LEMMA ContentsThere == ContentsAre'
BY ContentsHere, PTL

\* An answer of a handler, and those that were recorded.
LEMMA HandlerAnswersType ==
  ASSUME TypeOK, NEW p \in Peers
  PROVE  HandlerAnswers(p) \in Seq(Values)
<1>1. CASE handler[p].pc \in {"relay", "record"}
  <2>1. AnswerOf(handler[p].msg) \in Values
    BY <1>1, HandlerType, AnswerOfType DEF Message
  <2> QED BY <1>1, <2>1 DEF HandlerAnswers
<1>2. CASE handler[p].pc \notin {"relay", "record"}
  BY <1>2, EmptySeq DEF HandlerAnswers
<1> QED BY <1>1, <1>2

LEMMA RecordedAnswersType ==
  ASSUME TypeOK, NEW p \in Peers, NEW id \in MsgIds
  PROVE  RecordedAnswers(p, id) \in Seq(Values)
<1>1. PICK n \in Nat : m_query_hit_result[p][id] \in [1 .. n -> Peers]
  BY ResultsType, SeqDef
<1>2. RecordedAnswers(p, id) \in [1 .. n -> Values]
  BY <1>1 DEF RecordedAnswers, Values, Answer
<1> QED BY <1>2, SeqDef

\* The places hold sequences.
ContentsTyped == Contents \in [Places -> Seq(Values)]

LEMMA ContentsType == TypeOK => ContentsTyped
<1> SUFFICES ASSUME TypeOK, NEW k \in Places PROVE Contents[k] \in Seq(Values)
  BY DEF Contents, ContentsTyped
<1>1. CASE \E p, q \in Peers : k = SockAt(p, q)
  BY <1>1, ContentsHere, AnswersOfType DEF ContentsAre, TypeOK
<1>2. CASE \E p \in Peers : k = QueueAt(p)
  BY <1>2, ContentsHere, AnswersOfType DEF ContentsAre, TypeOK
<1>3. CASE \E p \in Peers : k = HandlerAt(p)
  BY <1>3, ContentsHere, HandlerAnswersType DEF ContentsAre
<1>4. CASE \E p \in Peers, id \in MsgIds : k = ResultsAt(p, id)
  BY <1>4, ContentsHere, RecordedAnswersType DEF ContentsAre
<1> QED BY <1>1, <1>2, <1>3, <1>4, PlacesAre

LEMMA ContentsTypeNext == TypeOK' => ContentsTyped'
BY ContentsType, PTL
-----------------------------------------------------------------------------
(* What the steps do to the places.                                        *)

\* The places of a step that touches sockets only, queues only, and so on, are the same
\* elsewhere.
Elsewhere(places) == \A k \in Places \ places : Contents'[k] = Contents[k]

LEMMA ElsewhereIs ==
  ASSUME NEW places,
         \A p, q \in Peers : SockAt(p, q) \notin places => sock'[p][q] = sock[p][q],
         \A p \in Peers : QueueAt(p) \notin places => m_messages_queue'[p] = m_messages_queue[p],
         \A p \in Peers : HandlerAt(p) \notin places => HandlerAnswers(p)' = HandlerAnswers(p),
         \A p \in Peers, id \in MsgIds : ResultsAt(p, id) \notin places =>
           m_query_hit_result'[p][id] = m_query_hit_result[p][id]
  PROVE  Elsewhere(places)
<1> SUFFICES ASSUME NEW k \in Places \ places PROVE Contents'[k] = Contents[k]
  BY DEF Elsewhere
<1>1. CASE \E p, q \in Peers : k = SockAt(p, q)
  BY <1>1, ContentsHere, ContentsThere DEF ContentsAre
<1>2. CASE \E p \in Peers : k = QueueAt(p)
  BY <1>2, ContentsHere, ContentsThere DEF ContentsAre
<1>3. CASE \E p \in Peers : k = HandlerAt(p)
  BY <1>3, ContentsHere, ContentsThere DEF ContentsAre
<1>4. CASE \E p \in Peers, id \in MsgIds : k = ResultsAt(p, id)
  <2>1. PICK p \in Peers, id \in MsgIds : k = ResultsAt(p, id)
    BY <1>4
  <2>2. RecordedAnswers(p, id)' = RecordedAnswers(p, id)
    BY <2>1 DEF RecordedAnswers
  <2> QED BY <2>1, <2>2, ContentsHere, ContentsThere DEF ContentsAre
<1> QED BY <1>1, <1>2, <1>3, <1>4, PlacesAre

\* The four kinds of places have different names.
LEMMA PlacesDiffer ==
  /\ \A p, q, r, s : SockAt(p, q) = SockAt(r, s) => p = r /\ q = s
  /\ \A p, q : QueueAt(p) = QueueAt(q) => p = q
  /\ \A p, q : HandlerAt(p) = HandlerAt(q) => p = q
  /\ \A p, q, i, j : ResultsAt(p, i) = ResultsAt(q, j) => p = q /\ i = j
  /\ \A p, q, r : SockAt(p, q) # QueueAt(r) /\ SockAt(p, q) # HandlerAt(r)
  /\ \A p, q, r, i : SockAt(p, q) # ResultsAt(r, i)
  /\ \A p, q : QueueAt(p) # HandlerAt(q)
  /\ \A p, q, i : QueueAt(p) # ResultsAt(q, i) /\ HandlerAt(p) # ResultsAt(q, i)
BY DEF SockAt, QueueAt, HandlerAt, ResultsAt

\* What a step must do for AnswersInv: the answers it puts somewhere are there already, or
\* are new ones of a peer that will not give them again.
SameAnswers ==
  /\ \A S : NoAnswer \notin S /\ Distinct(Contents, S) => Distinct(Contents', S)
  /\ Present(Contents') \subseteq Present(Contents)

\* Nothing moves.
LEMMA SameContents ==
  ASSUME TypeOK, TypeOK', UNCHANGED <<sock, m_messages_queue, m_query_hit_result>>,
         \A p \in Peers : HandlerAnswers(p)' = HandlerAnswers(p)
  PROVE  SameAnswers
<1>1. Elsewhere({})
  BY ElsewhereIs
<1>2. ContentsTyped /\ ContentsTyped'
  BY ContentsType, ContentsTypeNext
<1>3. \A k \in Places : Contents'[k] = Contents[k]
  BY <1>1 DEF Elsewhere
<1> QED BY <1>2, <1>3, DistinctClear DEF SameAnswers, ContentsTyped

\* A handler that keeps its task keeps its answer.
LEMMA SameHandlers ==
  ASSUME TypeOK, NEW p \in Peers, handler'[p].pc = handler[p].pc,
         handler[p].pc # "idle" => handler'[p].msg = handler[p].msg
  PROVE  HandlerAnswers(p)' = HandlerAnswers(p)
BY DEF HandlerAnswers, AnswerOf

\* An answer goes from one place to another.
LEMMA MovesAnswer ==
  ASSUME TypeOK, TypeOK', NEW k \in Places, NEW l \in Places \ {k}, Contents[k] # <<>>,
         Contents'[k] = Tail(Contents[k]), Contents'[l] = Append(Contents[l], Head(Contents[k])),
         Elsewhere({k, l})
  PROVE  SameAnswers
<1>1. ContentsTyped /\ ContentsTyped'
  BY ContentsType, ContentsTypeNext
<1>2. ASSUME NEW S, Distinct(Contents, S)
      PROVE  Distinct(Contents', S) /\ Present(Contents') \subseteq Present(Contents)
  BY <1>1, <1>2, DistinctMove DEF ContentsTyped, Elsewhere
<1>3. Distinct(Contents, {})
  BY DEF Distinct
<1> QED BY <1>2, <1>3 DEF SameAnswers

\* What is taken from a place goes nowhere.
LEMMA DropsAnswer ==
  ASSUME TypeOK, TypeOK', NEW k \in Places, Contents[k] # <<>>,
         Contents'[k] = Tail(Contents[k]), Elsewhere({k})
  PROVE  SameAnswers
<1>1. ContentsTyped /\ ContentsTyped'
  BY ContentsType, ContentsTypeNext
<1>2. ASSUME NEW S, Distinct(Contents, S)
      PROVE  Distinct(Contents', S) /\ Present(Contents') \subseteq Present(Contents)
  BY <1>1, <1>2, DistinctDrop DEF ContentsTyped, Elsewhere
<1>3. Distinct(Contents, {})
  BY DEF Distinct
<1> QED BY <1>2, <1>3 DEF SameAnswers

\* HandleRequest and HandleMessage take a message from the network to the queue.
LEMMA ReceiveMoves ==
  ASSUME TypeOK, TypeOK', NEW p \in Peers, NEW q \in Peers, DealWithRequest(p, q)
  PROVE  SameAnswers
<1>1. sock[p][q] \in Seq(Message) /\ m_messages_queue[q] \in Seq(Message) /\ sock[p][q] # <<>>
  BY DEF TypeOK, DealWithRequest
<1>2. PICK msg \in Message : msg = Head(sock[p][q])
  BY <1>1, HeadTailProperties
<1>3. sock'[p][q] = Tail(sock[p][q]) /\ m_messages_queue'[q] = Append(m_messages_queue[q], msg)
  BY <1>2 DEF DealWithRequest, TypeOK
<1>4. PICK k \in Places, l \in Places : k = SockAt(p, q) /\ l = QueueAt(q) /\ k # l
  BY PlacesAre, PlacesDiffer
<1>5. Contents[k] = AnswersOf(sock[p][q]) /\ Contents[l] = AnswersOf(m_messages_queue[q])
  BY <1>4, ContentsHere DEF ContentsAre
<1>6. Contents'[k] = AnswersOf(Tail(sock[p][q])) /\ Contents'[l] = AnswersOf(Append(m_messages_queue[q], msg))
  <2>1. Contents'[k] = AnswersOf(sock[p][q])' /\ Contents'[l] = AnswersOf(m_messages_queue[q])'
    BY <1>4, ContentsThere DEF ContentsAre
  <2> QED BY <1>3, <2>1 DEF AnswersOf, AnswerOf
<1>7. Contents[k] # <<>> /\ Contents'[k] = Tail(Contents[k]) /\ Head(Contents[k]) = AnswerOf(msg)
  BY <1>1, <1>2, <1>5, <1>6, AnswersOfTail
<1>8. Contents'[l] = Append(Contents[l], AnswerOf(msg))
  BY <1>1, <1>5, <1>6, AnswersOfAppend
<1>9. Elsewhere({k, l})
  <2>1. \A r, s \in Peers : SockAt(r, s) \notin {k, l} => sock'[r][s] = sock[r][s]
    BY <1>4 DEF DealWithRequest, TypeOK
  <2>2. \A r \in Peers : QueueAt(r) \notin {k, l} => m_messages_queue'[r] = m_messages_queue[r]
    BY <1>4 DEF DealWithRequest, TypeOK
  <2>3. UNCHANGED <<handler, m_query_hit_result>>
    BY DEF DealWithRequest, hitVars
  <2>4. \A r \in Peers : HandlerAnswers(r)' = HandlerAnswers(r)
    BY <2>3, SameHandlers
  <2> QED BY <2>1, <2>2, <2>3, <2>4, ElsewhereIs
<1> QED BY <1>4, <1>7, <1>8, <1>9, MovesAnswer

\* What a message in the queue's head does to the places when its handler takes it.
LEMMA TakesContents ==
  ASSUME TypeOK, NEW p \in Peers, NEW type, Takes(p, type)
  PROVE  /\ Contents[QueueAt(p)] # <<>>
         /\ Contents'[QueueAt(p)] = Tail(Contents[QueueAt(p)])
         /\ Head(Contents[QueueAt(p)]) = AnswerOf(Head(m_messages_queue[p]))
<1>1. m_messages_queue[p] \in Seq(Message) /\ m_messages_queue[p] # <<>>
  BY DEF Takes, TypeOK
<1>2. Contents[QueueAt(p)] = AnswersOf(m_messages_queue[p])
  BY ContentsHere DEF ContentsAre
<1>3. Contents'[QueueAt(p)] = AnswersOf(Tail(m_messages_queue[p]))
  <2>1. Contents'[QueueAt(p)] = AnswersOf(m_messages_queue[p])'
    BY ContentsThere DEF ContentsAre
  <2>2. m_messages_queue'[p] = Tail(m_messages_queue[p])
    BY DEF Takes, TypeOK
  <2> QED BY <2>1, <2>2 DEF AnswersOf, AnswerOf
<1> QED BY <1>1, <1>2, <1>3, AnswersOfTail

\* It touches no places but the queue and the handler.
LEMMA TakesElsewhere ==
  ASSUME TypeOK, NEW p \in Peers, NEW type, Takes(p, type), NEW places,
         QueueAt(p) \in places,
         \A q \in Peers : HandlerAt(q) \notin places => HandlerAnswers(q)' = HandlerAnswers(q)
  PROVE  Elsewhere(places)
<1>1. UNCHANGED <<sock, m_query_hit_result>>
  BY DEF Takes, hitVars
<1>2. \A q \in Peers : QueueAt(q) \notin places => m_messages_queue'[q] = m_messages_queue[q]
  BY DEF Takes, TypeOK
<1> QED BY <1>1, <1>2, ElsewhereIs

\* The handler of p changes, and no other.
LEMMA HandlerChanges ==
  ASSUME TypeOK, NEW p \in Peers, NEW h, handler' = [handler EXCEPT ![p] = h]
  PROVE  /\ \A q \in Peers \ {p} : HandlerAnswers(q)' = HandlerAnswers(q)
         /\ HandlerAnswers(p)' =
              IF h.pc \in {"relay", "record"} THEN <<AnswerOf(h.msg)>> ELSE <<>>
BY DEF HandlerAnswers, AnswerOf, TypeOK

\* A handler takes a message and gives no answer.
LEMMA TakesDrops ==
  ASSUME TypeOK, TypeOK', NEW p \in Peers, NEW type, Takes(p, type),
         HandlerAnswers(p)' = HandlerAnswers(p),
         UNCHANGED handler \/ \E h : handler' = [handler EXCEPT ![p] = h]
  PROVE  SameAnswers
<1>1. \A q \in Peers : HandlerAnswers(q)' = HandlerAnswers(q)
  BY HandlerChanges, SameHandlers
<1>2. QueueAt(p) \in Places
  BY PlacesAre
<1>3. Elsewhere({QueueAt(p)})
  BY <1>1, TakesElsewhere
<1> QED BY <1>2, <1>3, TakesContents, DropsAnswer

\* A handler takes a hit and goes on with it.
LEMMA TakesMoves ==
  ASSUME TypeOK, TypeOK', NEW p \in Peers, NEW type, Takes(p, type),
         NEW h, handler' = [handler EXCEPT ![p] = h],
         h.pc \in {"relay", "record"}, h.msg = Head(m_messages_queue[p])
  PROVE  SameAnswers
<1>1. PICK k \in Places, l \in Places : k = QueueAt(p) /\ l = HandlerAt(p) /\ k # l
  BY PlacesAre, PlacesDiffer
<1>2. Elsewhere({k, l})
  BY <1>1, HandlerChanges, TakesElsewhere
<1>3. Contents[l] = <<>>
  BY <1>1, ContentsHere DEF ContentsAre, HandlerAnswers, Takes
<1>4. Contents'[l] = HandlerAnswers(p)'
  BY <1>1, ContentsThere DEF ContentsAre
<1>5. HandlerAnswers(p)' = <<AnswerOf(Head(m_messages_queue[p]))>>
  BY HandlerChanges
<1>6. Contents'[l] = Append(Contents[l], Head(Contents[k]))
  <2>1. Head(Contents[k]) = AnswerOf(Head(m_messages_queue[p]))
    BY <1>1, TakesContents
  <2>2. \A x : <<x>> = Append(<<>>, x)
    OBVIOUS
  <2> QED BY <1>3, <1>4, <1>5, <2>1, <2>2
<1>7. Contents[k] # <<>> /\ Contents'[k] = Tail(Contents[k])
  BY <1>1, TakesContents
<1> QED BY <1>1, <1>2, <1>6, <1>7, MovesAnswer

\* A step that gives the answer e anew.
AddsAnswer(e) ==
  /\ \A S : NoAnswer \notin S /\ Distinct(Contents, S) /\ (e \in S => e \notin Present(Contents))
              => Distinct(Contents', S)
  /\ Present(Contents') \subseteq Present(Contents) \cup {e}

\* An answer is added to a place.
LEMMA PlacesAdd ==
  ASSUME NEW C \in [Places -> Seq(Values)], NEW D \in [Places -> Seq(Values)], NEW S,
         NEW l \in Places, NEW v \in Values, Distinct(C, S), NoAnswer \notin S,
         v \notin S \/ v \notin Present(C),
         D[l] = Append(C[l], v), \A m \in Places \ {l} : D[m] = C[m]
  PROVE  Distinct(D, S) /\ Present(D) \subseteq Present(C) \cup {v}
<1>1. DOMAIN D = DOMAIN C /\ l \in DOMAIN C /\ \A m \in DOMAIN C \ {l} : D[m] = C[m]
  OBVIOUS
<1>2. \A i \in DOMAIN D[l] : \/ i \in DOMAIN C[l] /\ D[l][i] = C[l][i]
                             \/ i = Len(C[l]) + 1 /\ D[l][i] = v
  <2>1. C[l] \in Seq(Values)
    OBVIOUS
  <2> QED BY <2>1, AppendIs
<1> QED BY <1>1, <1>2, DistinctAdd

\* A handler takes a query and answers it.
LEMMA TakesAnswers ==
  ASSUME TypeOK, TypeOK', NEW p \in Peers, NEW type, Takes(p, type),
         NEW hit \in Hits, hit.peer = p, NEW after,
         handler' = [handler EXCEPT ![p] = Relaying(hit, after)]
  PROVE  AddsAnswer([id |-> hit.id, peer |-> p])
<1>1. PICK k \in Places, l \in Places : k = QueueAt(p) /\ l = HandlerAt(p) /\ k # l
  BY PlacesAre, PlacesDiffer
<1>2. PICK e \in Values : e = [id |-> hit.id, peer |-> p] /\ e = AnswerOf(hit) /\ e # NoAnswer
  <2>1. AnswerOf(hit) = [id |-> hit.id, peer |-> p] /\ hit.id \in MsgIds
    BY DEF AnswerOf, Hits
  <2> QED BY <2>1, NoAnswerIsNone DEF Values, Answer
<1>3. ContentsTyped /\ ContentsTyped'
  BY ContentsType, ContentsTypeNext
<1>4. Elsewhere({k, l})
  BY <1>1, HandlerChanges, TakesElsewhere
<1>5. Contents[k] # <<>> /\ Contents'[k] = Tail(Contents[k])
  BY <1>1, TakesContents
<1>6. Contents[l] = <<>>
  BY <1>1, ContentsHere DEF ContentsAre, HandlerAnswers, Takes
<1>7. Contents'[l] = Append(Contents[l], e)
  <2>1. Contents'[l] = HandlerAnswers(p)'
    BY <1>1, ContentsThere DEF ContentsAre
  <2>2. HandlerAnswers(p)' = <<AnswerOf(hit)>>
    BY HandlerChanges DEF Relaying
  <2>3. \A x : <<x>> = Append(<<>>, x)
    OBVIOUS
  <2> QED BY <1>2, <1>6, <2>1, <2>2, <2>3
<1>8. PICK D \in [Places -> Seq(Values)] : D = [Contents EXCEPT ![k] = Tail(@)]
  <2>1. Tail(Contents[k]) \in Seq(Values)
    BY <1>3, <1>5 DEF ContentsTyped
  <2> QED BY <1>3, <2>1 DEF ContentsTyped
<1>9. D[k] = Tail(Contents[k]) /\ \A m \in Places \ {k} : D[m] = Contents[m]
  BY <1>3, <1>8 DEF ContentsTyped
<1>10. Contents'[l] = Append(D[l], e) /\ \A m \in Places \ {l} : Contents'[m] = D[m]
  <2>1. Contents'[k] = D[k]
    BY <1>5, <1>9
  <2>2. \A m \in Places \ {k, l} : Contents'[m] = D[m]
    BY <1>4, <1>9 DEF Elsewhere
  <2>3. D[l] = Contents[l]
    BY <1>1, <1>9
  <2> QED BY <1>7, <2>1, <2>2, <2>3
<1>11. ASSUME NEW S, NoAnswer \notin S, Distinct(Contents, S), e \in S => e \notin Present(Contents)
       PROVE  Distinct(Contents', S) /\ Present(Contents') \subseteq Present(Contents) \cup {e}
  <2>1. Distinct(D, S) /\ Present(D) \subseteq Present(Contents)
    BY <1>3, <1>5, <1>9, <1>11, DistinctDrop DEF ContentsTyped
  <2>2. e \notin S \/ e \notin Present(D)
    BY <1>11, <2>1
  <2>3. Distinct(Contents', S) /\ Present(Contents') \subseteq Present(D) \cup {e}
    <3>1. Contents' \in [Places -> Seq(Values)]
      BY <1>3 DEF ContentsTyped
    <3>2. NoAnswer \notin S /\ Distinct(D, S)
      BY <1>11, <2>1
    <3> QED BY <1>10, <2>2, <3>1, <3>2, PlacesAdd
  <2> QED BY <2>1, <2>3
<1>12. Distinct(Contents, {})
  BY DEF Distinct
<1> QED BY <1>2, <1>11, <1>12 DEF AddsAnswer

\* Sending a query spreads no answer.
LEMMA SendsQuery ==
  ASSUME TypeOK, TypeOK', NEW p \in Peers, NEW msg \in Queries, NEW targets, Send(p, targets, msg),
         UNCHANGED <<m_messages_queue, m_query_hit_result, handler>>
  PROVE  SameAnswers
<1>1. ContentsTyped /\ ContentsTyped'
  BY ContentsType, ContentsTypeNext
<1>2. Elsewhere(Sockets)
  <2>1. \A r \in Peers : HandlerAnswers(r)' = HandlerAnswers(r)
    BY SameHandlers
  <2>2. \A r, q \in Peers : SockAt(r, q) \in Sockets
    BY DEF SockAt, Sockets
  <2> QED BY <2>1, <2>2, ElsewhereIs
<1>3. ASSUME NEW r \in Peers, NEW q \in Peers
      PROVE  LET k == SockAt(r, q) IN
             Contents'[k] = Contents[k] \/ Contents'[k] = Append(Contents[k], NoAnswer)
  <2>1. sock'[r][q] = sock[r][q] \/ sock'[r][q] = Append(sock[r][q], msg)
    BY DEF Send, TypeOK
  <2>2. msg \in Message /\ sock[r][q] \in Seq(Message) /\ AnswerOf(msg) = NoAnswer
    BY AnswerOfType DEF TypeOK, Message
  <2>3. AnswersOf(Append(sock[r][q], msg)) = Append(AnswersOf(sock[r][q]), NoAnswer)
    BY <2>2, AnswersOfAppend
  <2>4. Contents[SockAt(r, q)] = AnswersOf(sock[r][q])
    BY ContentsHere DEF ContentsAre
  <2>5. Contents'[SockAt(r, q)] = AnswersOf(sock'[r][q])
    BY ContentsThere DEF ContentsAre, AnswersOf, AnswerOf
  <2> QED BY <2>1, <2>3, <2>4, <2>5
<1>4. \A k \in Places : Contents'[k] = Contents[k] \/ Contents'[k] = Append(Contents[k], NoAnswer)
  <2>1. \A k \in Sockets : \E r, q \in Peers : k = SockAt(r, q)
    BY DEF SockAt, Sockets
  <2> QED BY <1>2, <1>3, <2>1 DEF Elsewhere
<1>5. NoAnswer \in Values
  BY DEF Values
<1>6. ASSUME NEW S, NoAnswer \notin S, Distinct(Contents, S)
      PROVE  Distinct(Contents', S) /\ Present(Contents') \subseteq Present(Contents)
  BY <1>1, <1>4, <1>5, <1>6, DistinctSpread DEF ContentsTyped
<1>7. Distinct(Contents, {})
  BY DEF Distinct
<1> QED BY <1>6, <1>7 DEF SameAnswers

\* The broadcast thread and one that SIGPIPE ends send queries.
LEMMA BroadcastAnswers ==
  ASSUME TypeOK, TypeOK', NEW p \in Peers, BroadcastProcessThread(p) \/ SigPipe(p)
  PROVE  SameAnswers
<1>1. UNCHANGED <<m_messages_queue, m_query_hit_result, handler>>
  BY DEF BroadcastProcessThread, SigPipe, hitVars
<1>2. CASE UNCHANGED sock
  <2>1. \A q \in Peers : HandlerAnswers(q)' = HandlerAnswers(q)
    BY <1>1, SameHandlers
  <2> QED BY <1>1, <1>2, <2>1, SameContents
<1>3. ASSUME NEW targets, m_broadcast_queue[p] # <<>>, Send(p, targets, Head(m_broadcast_queue[p]).msg)
      PROVE  SameAnswers
  <2>1. Head(m_broadcast_queue[p]) \in BroadcastItem
    BY <1>3, HeadTailProperties DEF TypeOK
  <2>2. Head(m_broadcast_queue[p]).msg \in Queries
    BY <2>1 DEF BroadcastItem
  <2> QED BY <1>1, <1>3, <2>2, SendsQuery
<1> QED BY <1>2, <1>3 DEF BroadcastProcessThread, SigPipe

\* RelayQueryHit sends the hit on, or ends the process.
LEMMA RelayMoves ==
  ASSUME TypeOK, TypeOK', NEW p \in Peers, RelayQueryHit(p)
  PROVE  SameAnswers
<1>1. UNCHANGED <<m_messages_queue, m_query_hit_result>>
  BY DEF RelayQueryHit, hitVars
<1>2. PICK hit \in Hits : hit = handler[p].msg /\ handler[p].pc = "relay"
  BY HandlerType DEF RelayQueryHit
<1>3. CASE UNCHANGED <<sock, handler>>
  <2>1. \A q \in Peers : HandlerAnswers(q)' = HandlerAnswers(q)
    BY <1>3, SameHandlers
  <2> QED BY <1>1, <1>3, <2>1, SameContents
<1>4. ASSUME NEW upstream \in Neighbors[p], Send(p, {upstream}, hit),
             handler' = [handler EXCEPT ![p] = Idle]
      PROVE  SameAnswers
  <2>1. upstream \in Peers
    BY NeighborsAssumption
  <2>2. PICK k \in Places, l \in Places : k = HandlerAt(p) /\ l = SockAt(p, upstream) /\ k # l
    BY <2>1, PlacesAre, PlacesDiffer
  <2>3. Contents[k] = <<AnswerOf(hit)>> /\ Contents[l] = AnswersOf(sock[p][upstream])
    BY <1>2, <2>1, <2>2, ContentsHere DEF ContentsAre, HandlerAnswers
  <2>4. Contents'[k] = <<>>
    <3>1. Contents'[k] = HandlerAnswers(p)'
      BY <2>2, ContentsThere DEF ContentsAre
    <3>2. Idle.pc = "idle"
      BY DEF Idle
    <3> QED BY <1>4, <3>1, <3>2, HandlerChanges
  <2>5. Contents'[l] = Append(Contents[l], AnswerOf(hit))
    <3>1. Contents'[l] = AnswersOf(sock'[p][upstream])
      BY <2>1, <2>2, ContentsThere DEF ContentsAre, AnswersOf, AnswerOf
    <3>2. sock'[p][upstream] = Append(sock[p][upstream], hit)
      BY <1>4, <2>1 DEF Send, TypeOK
    <3>3. hit \in Message /\ sock[p][upstream] \in Seq(Message)
      BY <2>1 DEF TypeOK, Message
    <3> QED BY <2>3, <3>1, <3>2, <3>3, AnswersOfAppend
  <2>6. \A x : Tail(<<x>>) = <<>> /\ Head(<<x>>) = x /\ <<x>> # <<>>
    OBVIOUS
  <2>7. Elsewhere({k, l})
    <3>1. \A r, q \in Peers : SockAt(r, q) \notin {k, l} => sock'[r][q] = sock[r][q]
      BY <1>4, <2>2 DEF Send, TypeOK
    <3>2. \A q \in Peers : HandlerAt(q) \notin {k, l} => HandlerAnswers(q)' = HandlerAnswers(q)
      BY <1>4, <2>2, HandlerChanges
    <3> QED BY <1>1, <3>1, <3>2, ElsewhereIs
  <2> QED BY <2>2, <2>3, <2>4, <2>5, <2>6, <2>7, MovesAnswer
<1> QED BY <1>2, <1>3, <1>4 DEF RelayQueryHit

\* A responder is recorded.
LEMMA RecordedAppend ==
  ASSUME TypeOK, NEW p \in Peers, NEW id \in MsgIds, NEW server \in Peers,
         m_query_hit_result'[p][id] = Append(m_query_hit_result[p][id], server)
  PROVE  RecordedAnswers(p, id)' = Append(RecordedAnswers(p, id), [id |-> id, peer |-> server])
<1> DEFINE a(s) == [i \in DOMAIN s |-> [id |-> id, peer |-> s[i]]]
           e == [id |-> id, peer |-> server]
<1>1. PICK s \in Seq(Peers) : s = m_query_hit_result[p][id]
  BY ResultsType
<1>2. PICK t : t = Append(s, server)
  OBVIOUS
<1>3. /\ DOMAIN s = 1 .. Len(s) /\ Len(s) \in Nat /\ DOMAIN t = 1 .. (Len(s) + 1)
      /\ \A i \in 1 .. Len(s) : t[i] = s[i] /\ s[i] \in Peers
      /\ t[Len(s) + 1] = server
  BY <1>2, AppendIs, ElementOfSeq
<1>4. PICK f : f = a(s)
  OBVIOUS
<1>5. f \in [1 .. Len(s) -> Answer]
  BY <1>3, <1>4 DEF Answer
<1>6. PICK g : g = a(t)
  OBVIOUS
<1>7. g \in [1 .. (Len(s) + 1) -> Answer]
  <2>1. ASSUME NEW i \in 1 .. (Len(s) + 1) PROVE t[i] \in Peers
    <3>1. i \in 1 .. Len(s) \/ i = Len(s) + 1
      BY <1>3
    <3> QED BY <1>3, <3>1
  <2> QED BY <1>3, <1>6, <2>1 DEF Answer
<1>8. f \in Seq(Answer) /\ g \in Seq(Answer) /\ Len(f) = Len(s) /\ Len(g) = Len(s) + 1
  <2>1. \A n \in Nat : \A v \in [1 .. n -> Answer] : v \in Seq(Answer) /\ Len(v) = n
    BY SeqDef, LenProperties
  <2>2. Len(s) + 1 \in Nat
    BY <1>3
  <2> QED BY <1>3, <1>5, <1>7, <2>1, <2>2
<1>9. e \in Answer
  BY DEF Answer
<1>10. /\ Append(f, e) \in Seq(Answer) /\ Len(Append(f, e)) = Len(s) + 1
       /\ \A i \in 1 .. Len(s) : Append(f, e)[i] = f[i]
       /\ Append(f, e)[Len(s) + 1] = e
  <2> HIDE DEF e
  <2> QED BY <1>3, <1>8, <1>9, AppendProperties
<1>11. \A i \in 1 .. Len(g) : g[i] = Append(f, e)[i]
  <2> SUFFICES ASSUME NEW i \in 1 .. (Len(s) + 1) PROVE g[i] = Append(f, e)[i]
    BY <1>8
  <2>1. g[i] = [id |-> id, peer |-> t[i]]
    BY <1>3, <1>6
  <2>2. CASE i \in 1 .. Len(s)
    <3>1. f[i] = [id |-> id, peer |-> s[i]]
      BY <1>3, <1>4, <2>2
    <3>2. t[i] = s[i] /\ Append(f, e)[i] = f[i]
      BY <1>3, <1>10, <2>2
    <3> QED BY <2>1, <3>1, <3>2
  <2>3. CASE i = Len(s) + 1
    BY <1>3, <1>10, <2>1, <2>3
  <2>4. i \in 1 .. Len(s) \/ i = Len(s) + 1
    BY <1>3
  <2> QED BY <2>2, <2>3, <2>4
<1>12. g = Append(f, e)
  <2> HIDE DEF e
  <2> QED BY <1>8, <1>10, <1>11, SeqEqual
<1> QED BY <1>1, <1>2, <1>4, <1>6, <1>12 DEF RecordedAnswers

\* The originator records who answered.
LEMMA RecordMoves ==
  ASSUME TypeOK, TypeOK', NEW p \in Peers, RecordQueryHit(p)
  PROVE  SameAnswers
<1>1. UNCHANGED <<m_messages_queue, sock>>
  BY DEF RecordQueryHit
<1>2. PICK hit \in Hits : hit = handler[p].msg /\ handler[p].pc = "record"
  BY HandlerType DEF RecordQueryHit
<1>3. hit.id \in MsgIds /\ hit.peer \in Peers /\ AnswerOf(hit) = [id |-> hit.id, peer |-> hit.peer]
  BY DEF Hits, AnswerOf
<1>4. m_query_hit_result' = [m_query_hit_result EXCEPT ![p][hit.id] = Append(@, hit.peer)]
  BY <1>2 DEF RecordQueryHit
<1>5. PICK h : handler' = [handler EXCEPT ![p] = h] /\ h.pc \in {"idle", "start"}
  <2>1. CASE handler' = [handler EXCEPT ![p] = Idle]
    <3>1. Idle.pc = "idle"
      BY DEF Idle
    <3> QED BY <2>1, <3>1
  <2>2. ASSUME NEW file, handler' = [handler EXCEPT ![p] = [pc |-> "start", msg |-> hit, file |-> file]]
        PROVE  \E h : handler' = [handler EXCEPT ![p] = h] /\ h.pc \in {"idle", "start"}
    <3>1. [pc |-> "start", msg |-> hit, file |-> file].pc = "start"
      OBVIOUS
    <3> QED BY <2>2, <3>1
  <2> QED BY <1>2, <2>1, <2>2 DEF RecordQueryHit
<1>6. PICK k \in Places, l \in Places : k = HandlerAt(p) /\ l = ResultsAt(p, hit.id) /\ k # l
  BY <1>3, PlacesAre, PlacesDiffer
<1>7. Contents[k] = <<AnswerOf(hit)>> /\ Contents[l] = RecordedAnswers(p, hit.id)
  BY <1>2, <1>3, <1>6, ContentsHere DEF ContentsAre, HandlerAnswers
<1>8. Contents'[k] = <<>>
  <2>1. Contents'[k] = HandlerAnswers(p)'
    BY <1>6, ContentsThere DEF ContentsAre
  <2> QED BY <1>5, <2>1, HandlerChanges
<1>9. Contents'[l] = Append(Contents[l], AnswerOf(hit))
  <2>0. m_query_hit_result \in [Peers -> [MsgIds -> Seq(Peers)]]
    BY DEF TypeOK
  <2>1. m_query_hit_result'[p][hit.id] = Append(m_query_hit_result[p][hit.id], hit.peer)
    BY <1>3, <1>4, <2>0
  <2>2. RecordedAnswers(p, hit.id)' = Append(RecordedAnswers(p, hit.id), AnswerOf(hit))
    BY <1>3, <2>1, RecordedAppend
  <2>3. Contents'[l] = RecordedAnswers(p, hit.id)'
    BY <1>3, <1>6, ContentsThere DEF ContentsAre, RecordedAnswers
  <2> QED BY <1>7, <2>2, <2>3
<1>10. \A x : Tail(<<x>>) = <<>> /\ Head(<<x>>) = x /\ <<x>> # <<>>
  OBVIOUS
<1>11. Elsewhere({k, l})
  <2>1. \A q \in Peers, id \in MsgIds : ResultsAt(q, id) \notin {k, l} =>
          m_query_hit_result'[q][id] = m_query_hit_result[q][id]
    BY <1>4, <1>6 DEF TypeOK
  <2>2. \A q \in Peers : HandlerAt(q) \notin {k, l} => HandlerAnswers(q)' = HandlerAnswers(q)
    BY <1>5, <1>6, HandlerChanges
  <2> QED BY <1>1, <2>1, <2>2, ElsewhereIs
<1> QED BY <1>6, <1>7, <1>8, <1>9, <1>10, <1>11, MovesAnswer

\* MantainQueryMapSize drops what was recorded.
LEMMA EvictDrops ==
  ASSUME TypeOK, TypeOK', NEW p \in Peers, EvictQueryHitResults(p)
  PROVE  SameAnswers
<1>1. ContentsTyped /\ ContentsTyped'
  BY ContentsType, ContentsTypeNext
<1>2. Elsewhere(Results)
  <2>1. UNCHANGED <<sock, m_messages_queue, handler>>
    BY DEF EvictQueryHitResults
  <2>2. \A q \in Peers : HandlerAnswers(q)' = HandlerAnswers(q)
    BY <2>1, SameHandlers
  <2>3. \A q \in Peers, id \in MsgIds : ResultsAt(q, id) \in Results
    BY DEF ResultsAt, Results
  <2> QED BY <2>1, <2>2, <2>3, ElsewhereIs
<1>3. ASSUME NEW q \in Peers, NEW id \in MsgIds
      PROVE  Contents'[ResultsAt(q, id)] \in {Contents[ResultsAt(q, id)], <<>>}
  <2>1. m_query_hit_result'[q][id] \in {m_query_hit_result[q][id], <<>>}
    BY DEF EvictQueryHitResults, Without, TypeOK
  <2>2. RecordedAnswers(q, id)' \in {RecordedAnswers(q, id), <<>>}
    BY <2>1 DEF RecordedAnswers
  <2>3. Contents[ResultsAt(q, id)] = RecordedAnswers(q, id)
    BY ContentsHere DEF ContentsAre
  <2>4. Contents'[ResultsAt(q, id)] = RecordedAnswers(q, id)'
    BY ContentsThere DEF ContentsAre
  <2> QED BY <2>2, <2>3, <2>4
<1>4. \A k \in Results : \E q \in Peers, id \in MsgIds : k = ResultsAt(q, id)
  BY DEF ResultsAt, Results
<1>5. \A k \in Places : Contents'[k] \in {Contents[k], <<>>}
  BY <1>2, <1>3, <1>4 DEF Elsewhere
<1>6. ASSUME NEW S, Distinct(Contents, S)
      PROVE  Distinct(Contents', S) /\ Present(Contents') \subseteq Present(Contents)
  BY <1>1, <1>5, <1>6, DistinctClear DEF ContentsTyped
<1>7. Distinct(Contents, {})
  BY DEF Distinct
<1> QED BY <1>6, <1>7 DEF SameAnswers

-----------------------------------------------------------------------------
(* Which steps give answers.                                               *)

\* p answers the query msg, which it has not seen before; an inverse query, if it has
\* answered none for the file.
Answering(p, msg) ==
  /\ msg \in Range(m_messages_queue[p])
  /\ ~IsQueryCached(p, msg.id) /\ IsQueryCached(p, msg.id)'
  /\ msg.type = "inv_query" => /\ msg.file \notin m_replicate_query_filename[p]
                               /\ msg.file \in m_replicate_query_filename'[p]
  /\ AddsAnswer([id |-> msg.id, peer |-> p])

\* A step gives an answer, or moves or drops the ones there are.
AnswerStep == SameAnswers \/ \E p \in Peers, msg \in Queries : Answering(p, msg)

\* Raced keeps the answer.
LEMMA RacedAnswers ==
  ASSUME TypeOK, NEW p \in Peers, handler' = Raced(p)
  PROVE  \A q \in Peers : HandlerAnswers(q)' = HandlerAnswers(q)
<1>1. handler[p] \in Handlers
  BY DEF TypeOK
<1>2. ASSUME NEW q \in Peers
      PROVE  handler'[q].pc = handler[q].pc /\ (handler[q].pc # "idle" => handler'[q].msg = handler[q].msg)
  BY <1>1 DEF Raced, Handlers, TypeOK
<1> QED BY <1>2, SameHandlers

\* HandleQuery and HandleInvQuery cache what they had not.
LEMMA QueryLearned ==
  ASSUME TypeOK, NEW p \in Peers, NEW type \in {"query", "inv_query"} \cup TestTypes, Takes(p, type),
         ~IsQueryCached(p, Head(m_messages_queue[p]).id),
         CacheQuery(p, Head(m_messages_queue[p]).id, Head(m_messages_queue[p]).peer)
  PROVE  \E msg \in Queries :
           /\ msg = Head(m_messages_queue[p]) /\ msg.type = type
           /\ msg \in Range(m_messages_queue[p])
           /\ ~IsQueryCached(p, msg.id) /\ IsQueryCached(p, msg.id)'
<1>1. PICK msg \in Queries : msg = Head(m_messages_queue[p])
  BY TakesType
<1>2. msg.id \in MsgIds /\ msg.peer \in Peers
  BY DEF Queries
<1>3. msg.peer # Absent
  BY <1>2, PeersAssumption DEF Absent
<1>4. IsQueryCached(p, msg.id)'
  BY <1>1, <1>2, <1>3 DEF CacheQuery, IsQueryCached, TypeOK
<1> QED BY <1>1, <1>4, TakesRange DEF Takes

\* HandleQuery.
LEMMA HandleQueryAnswers ==
  ASSUME TypeOK, TypeOK', NEW p \in Peers, HandleQuery(p)
  PROVE  AnswerStep
<1>1. Takes(p, "query")
  BY DEF HandleQuery
<1>2. PICK msg \in Queries :
        /\ msg = Head(m_messages_queue[p]) /\ msg.type = "query"
        /\ msg \in Range(m_messages_queue[p])
        /\ ~IsQueryCached(p, msg.id) /\ IsQueryCached(p, msg.id)'
  BY <1>1, QueryLearned DEF HandleQuery
<1>3. CASE UNCHANGED handler
  <2>1. HandlerAnswers(p)' = HandlerAnswers(p)
    BY <1>3, SameHandlers
  <2> QED BY <1>1, <1>3, <2>1, TakesDrops DEF AnswerStep
<1>4. CASE handler' = [handler EXCEPT ![p] = Relaying(HitMessage(p, "query_hit", msg.id), <<>>)]
  <2>1. PICK hit \in Hits : /\ hit = HitMessage(p, "query_hit", msg.id)
                            /\ hit.peer = p /\ hit.id = msg.id
    BY HitMessageType DEF Queries, HitMessage
  <2>2. AddsAnswer([id |-> hit.id, peer |-> p])
    BY <1>1, <1>4, <2>1, TakesAnswers
  <2> QED BY <1>2, <2>1, <2>2 DEF AnswerStep, Answering
<1> QED BY <1>2, <1>3, <1>4 DEF HandleQuery

\* HandleInvQuery.
LEMMA HandleInvQueryAnswers ==
  ASSUME TypeOK, TypeOK', NEW p \in Peers, HandleInvQuery(p)
  PROVE  AnswerStep
<1>1. Takes(p, "inv_query")
  BY DEF HandleInvQuery
<1>2. PICK msg \in Queries :
        /\ msg = Head(m_messages_queue[p])
        /\ msg \in Range(m_messages_queue[p])
        /\ ~IsQueryCached(p, msg.id) /\ IsQueryCached(p, msg.id)'
  BY <1>1, QueryLearned DEF HandleInvQuery
<1>3. CASE UNCHANGED handler
  <2>1. HandlerAnswers(p)' = HandlerAnswers(p)
    BY <1>3, SameHandlers
  <2> QED BY <1>1, <1>3, <2>1, TakesDrops DEF AnswerStep
<1>4. ASSUME NEW after, msg.file \notin m_replicate_query_filename[p],
             handler' = [handler EXCEPT ![p] = Relaying(HitMessage(p, "inv_query_hit", msg.id), after)]
      PROVE  AnswerStep
  <2>1. PICK hit \in Hits : /\ hit = HitMessage(p, "inv_query_hit", msg.id)
                            /\ hit.peer = p /\ hit.id = msg.id
    BY HitMessageType DEF Queries, HitMessage
  <2>2. AddsAnswer([id |-> hit.id, peer |-> p])
    BY <1>1, <1>4, <2>1, TakesAnswers
  <2>3. msg.file \in m_replicate_query_filename'[p]
    BY <1>2 DEF HandleInvQuery, RecordReplicated, TypeOK
  <2> QED BY <1>2, <1>4, <2>1, <2>2, <2>3 DEF AnswerStep, Answering
<1> QED BY <1>2, <1>3, <1>4 DEF HandleInvQuery

\* The handlers that answer nothing.
LEMMA OtherHandlersAnswers ==
  ASSUME TypeOK, TypeOK', NEW p \in Peers,
         DropQuery(p) \/ HandleLoadTest(p) \/ RelayLoadTest(p) \/ HandleQueryHit(p) \/ StartTransfers(p)
  PROVE  SameAnswers
<1>1. CASE DropQuery(p)
  <2>1. PICK type : Takes(p, type)
    BY <1>1 DEF DropQuery
  <2>2. UNCHANGED handler
    BY <1>1 DEF DropQuery
  <2>3. HandlerAnswers(p)' = HandlerAnswers(p)
    BY <2>2, SameHandlers
  <2> QED BY <2>1, <2>2, <2>3, TakesDrops
<1>2. CASE HandleLoadTest(p)
  <2>1. PICK type : Takes(p, type)
    BY <1>2 DEF HandleLoadTest
  <2>2. PICK h : h = [pc |-> "test", msg |-> Head(m_messages_queue[p])]
    OBVIOUS
  <2>5. handler' = [handler EXCEPT ![p] = h] /\ h.pc = "test"
    BY <1>2, <2>2 DEF HandleLoadTest
  <2>3. HandlerAnswers(p)' = <<>>
    BY <2>5, HandlerChanges
  <2>4. HandlerAnswers(p) = <<>>
    BY <2>1 DEF HandlerAnswers, Takes
  <2> QED BY <2>1, <2>3, <2>4, <2>5, TakesDrops
<1>3. CASE RelayLoadTest(p) \/ StartTransfers(p)
  <2>1. /\ UNCHANGED <<sock, m_messages_queue, m_query_hit_result>>
        /\ handler' = [handler EXCEPT ![p] = Idle] /\ handler[p].pc \in {"test", "start"}
    BY <1>3 DEF RelayLoadTest, StartTransfers, hitVars
  <2>2. HandlerAnswers(p)' = <<>> /\ HandlerAnswers(p) = <<>>
    BY <2>1, HandlerChanges DEF HandlerAnswers, Idle
  <2>3. \A q \in Peers : HandlerAnswers(q)' = HandlerAnswers(q)
    BY <2>1, <2>2, HandlerChanges
  <2> QED BY <2>1, <2>3, SameContents
<1>4. CASE HandleQueryHit(p)
  <2>1. PICK type : Takes(p, type)
    BY <1>4 DEF HandleQueryHit
  <2>2. CASE UNCHANGED handler
    <3>1. HandlerAnswers(p)' = HandlerAnswers(p)
      BY <2>2, SameHandlers
    <3> QED BY <2>1, <2>2, <3>1, TakesDrops
  <2>3. CASE handler' = [handler EXCEPT ![p] = [pc |-> "record", msg |-> Head(m_messages_queue[p])]]
    BY <2>1, <2>3, TakesMoves
  <2>4. CASE handler' = [handler EXCEPT ![p] = Relaying(Head(m_messages_queue[p]), <<>>)]
    <3>1. PICK h : h = Relaying(Head(m_messages_queue[p]), <<>>)
      OBVIOUS
    <3>2. h.pc = "relay" /\ h.msg = Head(m_messages_queue[p])
      BY <3>1 DEF Relaying
    <3> QED BY <2>1, <2>4, <3>1, <3>2, TakesMoves
  <2> QED BY <1>4, <2>2, <2>3, <2>4 DEF HandleQueryHit
<1> QED BY <1>1, <1>2, <1>3, <1>4

\* Every step.
LEMMA NextAnswers ==
  ASSUME TypeOK, TypeOK', [Next]_vars
  PROVE  AnswerStep
<1>1. ASSUME UNCHANGED <<sock, m_messages_queue, m_query_hit_result>>,
             UNCHANGED handler \/ \E p \in Peers : handler' = Raced(p)
      PROVE  AnswerStep
  <2>1. \A q \in Peers : HandlerAnswers(q)' = HandlerAnswers(q)
    BY <1>1, RacedAnswers, SameHandlers
  <2> QED BY <1>1, <2>1, SameContents DEF AnswerStep
<1>2. ASSUME NEW p \in Peers, \/ Command(p) \/ StartReplicateAllFiles(p)
                              \/ \E thread \in Testers : LoadTestCall(p, thread)
      PROVE  AnswerStep
  <2>1. \/ UNCHANGED <<sock, m_messages_queue, m_query_hit_result, handler>>
        \/ \E file, type : Issue(p, type, file)
    BY <1>2 DEF Command, QueryCommand, ObtainFile, InvQueryCommand, ReplicateCommand,
                LoadTestCommand, StartReplicateAllFiles, SelectFilesToReplicate,
                ReplicateNextFile, LoadTestCall, hitVars
  <2> QED BY <1>1, <2>1 DEF Issue, hitVars
<1>3. ASSUME NEW p \in Peers, \/ \E thread \in Callers : SetWaitQueryHit(p, thread)
                              \/ \E q \in Neighbors[p] : TornMessage(q, p)
                              \/ CrashInRelay(p) \/ EvictQueries(p) \/ EvictWaits(p)
      PROVE  AnswerStep
  BY <1>1, <1>3 DEF SetWaitQueryHit, TornMessage, CrashInRelay, EvictQueries, EvictWaits, hitVars
<1>4. CASE UNCHANGED vars
  BY <1>1, <1>4 DEF vars, hitVars
<1>5. ASSUME NEW p \in Peers, NEW q \in Neighbors[p], DealWithRequest(q, p)
      PROVE  AnswerStep
  BY <1>5, NeighborsAssumption, ReceiveMoves DEF AnswerStep
<1>6. ASSUME NEW p \in Peers, \/ BroadcastProcessThread(p) \/ SigPipe(p) \/ EvictQueryHitResults(p)
      PROVE  AnswerStep
  BY <1>6, BroadcastAnswers, EvictDrops DEF AnswerStep
<1>7. ASSUME NEW p \in Peers, HandleMessageThread(p) PROVE AnswerStep
  BY <1>7, HandleQueryAnswers, HandleInvQueryAnswers, OtherHandlersAnswers, RelayMoves, RecordMoves
     DEF HandleMessageThread, AnswerStep
<1> QED BY <1>2, <1>3, <1>4, <1>5, <1>6, <1>7 DEF Next, MantainQueryMapSize
-----------------------------------------------------------------------------
(* AnswersInv.                                                             *)

\* Whatever is in some place.
LEMMA PresentIs ==
  ASSUME NEW a \in Present(Contents)
  PROVE  a # NoAnswer /\ \E k \in Places : \E i \in DOMAIN Contents[k] : a = Contents[k][i]
<1>1. DOMAIN Contents = Places
  BY DEF Contents
<1> QED BY <1>1 DEF Present, Range

\* The answer of a genuine message is one to a query that was asked, and the message is
\* no query.
LEMMA GenuineAnswer ==
  ASSUME NEW msg \in Message, Genuine(msg), AnswerOf(msg) # NoAnswer
  PROVE  AnswerOf(msg) \in Answer /\ \E query \in asked : query.id = AnswerOf(msg).id
<1>1. msg \in Hits /\ AnswerOf(msg) = [id |-> msg.id, peer |-> msg.peer]
  BY DEF AnswerOf
<1> QED BY <1>1 DEF Genuine, Traces, Answer, Hits

\* The same of a queue.
LEMMA GenuineAnswers ==
  ASSUME NEW s \in Seq(Message), \A msg \in Range(s) : Genuine(msg),
         NEW i \in DOMAIN AnswersOf(s), AnswersOf(s)[i] # NoAnswer
  PROVE  AnswersOf(s)[i] \in Answer /\ \E query \in asked : query.id = AnswersOf(s)[i].id
<1>1. AnswersOf(s)[i] = AnswerOf(s[i]) /\ i \in DOMAIN s
  BY DEF AnswersOf
<1>2. s[i] \in Range(s) /\ s[i] \in Message
  BY <1>1, RangeTyped DEF Range
<1> QED BY <1>1, <1>2, GenuineAnswer

\* Nobody answers what was not asked.
LEMMA PresentAsked ==
  ASSUME TypeOK, GenuineInv, NEW a \in Present(Contents)
  PROVE  a \in Answer /\ \E query \in asked : query.id = a.id
<1>1. PICK k \in Places : \E i \in DOMAIN Contents[k] : a = Contents[k][i]
  BY PresentIs
<1>2. PICK i \in DOMAIN Contents[k] : a = Contents[k][i]
  BY <1>1
<1>3. a # NoAnswer
  BY PresentIs
<1>4. CASE \E p, q \in Peers : k = SockAt(p, q)
  <2>1. PICK p \in Peers, q \in Peers : k = SockAt(p, q)
    BY <1>4
  <2>2. Contents[k] = AnswersOf(sock[p][q])
    BY <2>1, ContentsHere DEF ContentsAre
  <2>3. sock[p][q] \in Seq(Message) /\ \A msg \in Range(sock[p][q]) : Genuine(msg)
    BY DEF TypeOK, GenuineInv
  <2> QED BY <1>2, <1>3, <2>2, <2>3, GenuineAnswers
<1>5. CASE \E p \in Peers : k = QueueAt(p)
  <2>1. PICK p \in Peers : k = QueueAt(p)
    BY <1>5
  <2>2. Contents[k] = AnswersOf(m_messages_queue[p])
    BY <2>1, ContentsHere DEF ContentsAre
  <2>3. m_messages_queue[p] \in Seq(Message) /\ \A msg \in Range(m_messages_queue[p]) : Genuine(msg)
    BY DEF TypeOK, GenuineInv
  <2> QED BY <1>2, <1>3, <2>2, <2>3, GenuineAnswers
<1>6. CASE \E p \in Peers : k = HandlerAt(p)
  <2>1. PICK p \in Peers : k = HandlerAt(p)
    BY <1>6
  <2>2. Contents[k] = HandlerAnswers(p)
    BY <2>1, ContentsHere DEF ContentsAre
  <2>3. handler[p].pc \in {"relay", "record"} /\ a = AnswerOf(handler[p].msg)
    BY <1>2, <2>2 DEF HandlerAnswers
  <2>4. handler[p].msg \in Message /\ Genuine(handler[p].msg)
    BY <2>3, HandlerType DEF GenuineInv, HandlerGenuine, Message
  <2> QED BY <1>3, <2>3, <2>4, GenuineAnswer
<1>7. CASE \E p \in Peers, id \in MsgIds : k = ResultsAt(p, id)
  <2>1. PICK p \in Peers, id \in MsgIds : k = ResultsAt(p, id)
    BY <1>7
  <2>2. Contents[k] = RecordedAnswers(p, id)
    BY <2>1, ContentsHere DEF ContentsAre
  <2>3. /\ i \in DOMAIN m_query_hit_result[p][id]
        /\ a = [id |-> id, peer |-> m_query_hit_result[p][id][i]]
    BY <1>2, <2>2 DEF RecordedAnswers
  <2>4. m_query_hit_result[p][id][i] \in Range(m_query_hit_result[p][id])
    BY <2>3 DEF Range
  <2>5. m_query_hit_result[p][id][i] \in Peers
    BY <2>4, ResultsType, RangeTyped
  <2>6. Recorded(p, id, m_query_hit_result[p][id][i])
    BY <2>4 DEF GenuineInv
  <2> QED BY <2>3, <2>5, <2>6 DEF Recorded, Answer
<1> QED BY <1>1, <1>4, <1>5, <1>6, <1>7, PlacesAre

\* A query that was asked is the only one with its id.
LEMMA InverseStays ==
  ASSUME IdsInv', asked \subseteq asked', NEW id, NEW file, \E query \in asked : query.id = id
  PROVE  InverseOf(id, file)' <=> InverseOf(id, file)
<1>1. PICK query \in asked : query.id = id
  OBVIOUS
<1>2. \A other \in asked' : other.id = id => other = query
  BY <1>1 DEF IdsInv
<1> QED BY <1>1, <1>2 DEF InverseOf, Asked

\* Only HandleInvQuery changes m_replicate_query_filename, and it only adds to it.
LEMMA ReplicatedGrows ==
  ASSUME TypeOK, [Next]_vars, NEW p \in Peers
  PROVE  m_replicate_query_filename[p] \subseteq m_replicate_query_filename'[p]
<1>1. UNCHANGED m_replicate_query_filename \/ \E q \in Peers : \E file : RecordReplicated(q, file)
  <2>1. CASE UNCHANGED vars
    BY <2>1 DEF vars
  <2>2. ASSUME NEW q \in Peers, \/ Command(q) \/ StartReplicateAllFiles(q)
                                \/ \E thread \in Testers : LoadTestCall(q, thread)
        PROVE  UNCHANGED m_replicate_query_filename
    BY <2>2 DEF Command, QueryCommand, ObtainFile, InvQueryCommand, ReplicateCommand,
                LoadTestCommand, StartReplicateAllFiles, SelectFilesToReplicate,
                ReplicateNextFile, LoadTestCall, Issue
  <2>3. ASSUME NEW q \in Peers, \/ \E thread \in Callers : SetWaitQueryHit(q, thread)
                                \/ BroadcastProcessThread(q)
                                \/ \E r \in Neighbors[q] : DealWithRequest(r, q) \/ TornMessage(r, q)
                                \/ CrashInRelay(q) \/ SigPipe(q) \/ MantainQueryMapSize(q)
        PROVE  UNCHANGED m_replicate_query_filename
    BY <2>3 DEF SetWaitQueryHit, BroadcastProcessThread, DealWithRequest, TornMessage, CrashInRelay, SigPipe,
                MantainQueryMapSize, EvictQueries, EvictQueryHitResults, EvictWaits
  <2>4. ASSUME NEW q \in Peers, HandleMessageThread(q)
        PROVE  UNCHANGED m_replicate_query_filename \/ \E file : RecordReplicated(q, file)
    BY <2>4 DEF HandleMessageThread, DropQuery, HandleQuery, HandleInvQuery, HandleLoadTest,
                RelayLoadTest, HandleQueryHit, RelayQueryHit, RecordQueryHit, StartTransfers, Takes
  <2> QED BY <2>1, <2>2, <2>3, <2>4 DEF Next
<1> QED BY <1>1 DEF RecordReplicated, TypeOK

\* Answers of a query that was asked must be single after the step only if before.
LEMMA SingleStays ==
  ASSUME IdsInv', asked \subseteq asked', lost \subseteq lost',
         \A a \in Present(Contents') : \E query \in asked : query.id = a.id,
         Distinct(Contents', Single)
  PROVE  Distinct(Contents, Single)'
<1>1. ASSUME NEW a \in Present(Contents'), a \in Single' PROVE a \in Single
  <2>1. \A file \in Files : InverseOf(a.id, file)' => InverseOf(a.id, file)
    BY InverseStays
  <2> QED BY <1>1, <2>1 DEF Single
<1>2. NoAnswer \notin Single'
  BY NoAnswerIsNone DEF Single
<1>3. PICK S : S = Single
  OBVIOUS
<1>4. PICK T : T = Single'
  OBVIOUS
<1>5. Distinct(Contents', T)
  BY <1>1, <1>2, <1>3, <1>4, DistinctSubset
<1> QED BY <1>4, <1>5 DEF Distinct

\* A step that gives no answer.
LEMMA SameAnswersInv ==
  ASSUME TypeOK, GenuineInv, IdsInv', asked \subseteq asked', Remembers, AnswersInv, SameAnswers,
         \A p \in Peers : m_replicate_query_filename[p] \subseteq m_replicate_query_filename'[p]
  PROVE  AnswersInv'
<1>1. Present(Contents') \subseteq Present(Contents) /\ Distinct(Contents', Single)
  <2>1. NoAnswer \notin Single
    BY NoAnswerIsNone DEF Single
  <2> QED BY <2>1 DEF SameAnswers, AnswersInv
<1>2. ASSUME NEW a \in Present(Contents')
      PROVE  /\ a \in Present(Contents) /\ a.peer \in Peers /\ a.id \in MsgIds
             /\ \E query \in asked : query.id = a.id
  BY <1>1, PresentAsked DEF Answer
<1>3. Distinct(Contents, Single)'
  BY <1>1, <1>2, SingleStays DEF Remembers
<1>4. ASSUME NEW a \in Present(Contents') PROVE a.id \in lost' \/ IsQueryCached(a.peer, a.id)'
  BY <1>2 DEF AnswersInv, Remembers
<1>5. ASSUME NEW a \in Present(Contents'), NEW file \in Files, InverseOf(a.id, file)'
      PROVE  /\ file \in m_replicate_query_filename'[a.peer]
             /\ \A b \in Present(Contents') : InverseOf(b.id, file)' /\ a.peer = b.peer => a = b
  <2>1. \A b \in Present(Contents') : InverseOf(b.id, file)' => InverseOf(b.id, file)
    BY <1>2, InverseStays
  <2> QED BY <1>2, <1>5, <2>1 DEF AnswersInv
<1> QED BY <1>3, <1>4, <1>5 DEF AnswersInv, Present

\* Who gives an answer has not recorded the file of the inverse query yet.
LEMMA AnsweringIs ==
  ASSUME GenuineInv, NEW p \in Peers, NEW msg \in Queries, Answering(p, msg)
  PROVE  /\ \E query \in asked : query.id = msg.id
         /\ \A file \in Files : InverseOf(msg.id, file) =>
              /\ file \notin m_replicate_query_filename[p]
              /\ file \in m_replicate_query_filename'[p]
<1>1. PICK query \in asked : query.id = msg.id /\ query.type = msg.type /\ query.file = msg.file
  BY DEF Answering, GenuineInv, Genuine, Traces
<1>2. ASSUME NEW file \in Files, InverseOf(msg.id, file)
      PROVE  msg.type = "inv_query" /\ msg.file = file
  <2>1. PICK other \in asked : other.id = msg.id /\ other.type = "inv_query" /\ other.file = file
    BY <1>2 DEF InverseOf, Asked
  <2>2. other = query
    BY <1>1, <2>1 DEF GenuineInv, IdsInv
  <2> QED BY <1>1, <2>1, <2>2
<1> QED BY <1>1, <1>2 DEF Answering

\* A step that gives one.
LEMMA AnsweringInv ==
  ASSUME TypeOK, GenuineInv, IdsInv', asked \subseteq asked', Remembers, AnswersInv,
         \A q \in Peers : m_replicate_query_filename[q] \subseteq m_replicate_query_filename'[q],
         NEW p \in Peers, NEW msg \in Queries, Answering(p, msg)
  PROVE  AnswersInv'
<1>1. PICK e \in Answer : e = [id |-> msg.id, peer |-> p]
  BY DEF Answer, Queries
<1>2. PICK query \in asked : query.id = msg.id
  BY AnsweringIs
<1>3. \A file \in Files : InverseOf(e.id, file) =>
        /\ file \notin m_replicate_query_filename[p] /\ file \in m_replicate_query_filename'[p]
  BY <1>1, AnsweringIs
<1>4. e \notin Single \/ e \notin Present(Contents)
  <2> SUFFICES ASSUME e \in Present(Contents), e \in Single PROVE FALSE
    OBVIOUS
  <2>1. e.id \in lost
    BY <1>1 DEF AnswersInv, Answering
  <2>2. PICK file \in Files : InverseOf(e.id, file)
    BY <2>1 DEF Single
  <2> QED BY <1>1, <1>3, <2>2 DEF AnswersInv
<1>5. Distinct(Contents', Single) /\ Present(Contents') \subseteq Present(Contents) \cup {e}
  <2>1. NoAnswer \notin Single
    BY NoAnswerIsNone DEF Single
  <2> QED BY <1>1, <1>4, <2>1 DEF Answering, AddsAnswer, AnswersInv
<1>6. ASSUME NEW a \in Present(Contents')
      PROVE  /\ a \in Present(Contents) \/ a = e
             /\ a.peer \in Peers /\ a.id \in MsgIds
             /\ \E q \in asked : q.id = a.id
  BY <1>1, <1>2, <1>5, PresentAsked DEF Answer
<1>7. Distinct(Contents, Single)'
  BY <1>5, <1>6, SingleStays DEF Remembers
<1>8. ASSUME NEW a \in Present(Contents') PROVE a.id \in lost' \/ IsQueryCached(a.peer, a.id)'
  <2>1. CASE a \in Present(Contents)
    BY <1>6, <2>1 DEF AnswersInv, Remembers
  <2>2. CASE a = e
    BY <1>1, <2>2 DEF Answering
  <2> QED BY <1>6, <2>1, <2>2
<1>9. ASSUME NEW a \in Present(Contents'), NEW file \in Files, InverseOf(a.id, file)'
      PROVE  /\ file \in m_replicate_query_filename'[a.peer]
             /\ \A b \in Present(Contents') : InverseOf(b.id, file)' /\ a.peer = b.peer => a = b
  <2>1. \A b \in Present(Contents') : InverseOf(b.id, file)' => InverseOf(b.id, file)
    BY <1>6, InverseStays
  <2>2. \A b \in Present(Contents) : InverseOf(b.id, file) => file \in m_replicate_query_filename[b.peer]
    BY DEF AnswersInv
  <2>3. file \in m_replicate_query_filename'[a.peer]
    BY <1>1, <1>3, <1>6, <1>9, <2>1, <2>2
  <2>4. ASSUME NEW b \in Present(Contents'), InverseOf(b.id, file)', a.peer = b.peer
        PROVE  a = b
    <3>1. InverseOf(a.id, file) /\ InverseOf(b.id, file)
      BY <1>9, <2>1, <2>4
    <3>2. CASE a = e \/ b = e
      BY <1>1, <1>3, <1>6, <2>2, <2>4, <3>1, <3>2
    <3>3. CASE a \in Present(Contents) /\ b \in Present(Contents)
      BY <2>4, <3>1, <3>3 DEF AnswersInv
    <3> QED BY <1>6, <3>2, <3>3
  <2> QED BY <2>3, <2>4
<1> QED BY <1>7, <1>8, <1>9 DEF AnswersInv, Present

\* Every step keeps AnswersInv.
LEMMA AnswersNext ==
  ASSUME TypeOK, TypeOK', UpstreamInv, GenuineInv, GenuineInv', AnswersInv, [Next]_vars
  PROVE  AnswersInv'
<1>1. IdsInv' /\ asked \subseteq asked' /\ Remembers
  BY AskedGrows, StepRemembers DEF GenuineInv
<1> QED BY <1>1, NextAnswers, ReplicatedGrows, SameAnswersInv, AnsweringInv DEF AnswerStep

\* There are no answers at the start.
LEMMA InitAnswers == Init => AnswersInv
<1> SUFFICES ASSUME Init PROVE AnswersInv
  OBVIOUS
<1>1. TypeOK
  BY InitType
<1>2. ASSUME NEW k \in Places PROVE Contents[k] = <<>>
  <2>1. CASE \E p, q \in Peers : k = SockAt(p, q)
    BY <2>1, ContentsHere DEF ContentsAre, Init, AnswersOf
  <2>2. CASE \E p \in Peers : k = QueueAt(p)
    BY <2>2, ContentsHere DEF ContentsAre, Init, AnswersOf
  <2>3. CASE \E p \in Peers : k = HandlerAt(p)
    BY <2>3, ContentsHere DEF ContentsAre, Init, HandlerAnswers, Idle
  <2>4. CASE \E p \in Peers, id \in MsgIds : k = ResultsAt(p, id)
    BY <2>4, ContentsHere DEF ContentsAre, Init, RecordedAnswers
  <2> QED BY <2>1, <2>2, <2>3, <2>4, PlacesAre
<1>3. DOMAIN Contents = Places
  BY DEF Contents
<1>4. Distinct(Contents, Single)
  BY <1>2, <1>3 DEF Distinct
<1>5. Present(Contents) = {}
  BY <1>2, PresentIs
<1> QED BY <1>4, <1>5 DEF AnswersInv

\* The answers that an originator has recorded are in one place.
LEMMA AnswersNoDuplicates ==
  ASSUME TypeOK, AnswersInv
  PROVE  NoDuplicateAnswers
<1> SUFFICES ASSUME NEW id \in MsgIds \ lost, NEW i \in DOMAIN QueryResults(id),
                    NEW j \in DOMAIN QueryResults(id), QueryResults(id)[i] = QueryResults(id)[j]
             PROVE  i = j
  BY DEF NoDuplicateAnswers
<1>1. PICK p \in Peers : p = id.peer
  BY DEF MsgIds
<1>2. PICK k \in Places : k = ResultsAt(p, id)
  BY PlacesAre
<1>3. Contents[k] = RecordedAnswers(p, id) /\ DOMAIN Contents = Places
  BY <1>2, ContentsHere DEF ContentsAre, Contents
<1>4. i \in DOMAIN Contents[k] /\ j \in DOMAIN Contents[k] /\ Contents[k][i] = Contents[k][j]
  BY <1>1, <1>3 DEF RecordedAnswers, QueryResults
<1>5. Contents[k][i] \in Single
  <2>1. m_query_hit_result[p][id][i] \in Range(m_query_hit_result[p][id])
    BY <1>1 DEF QueryResults, Range
  <2>2. m_query_hit_result[p][id][i] \in Peers
    BY <2>1, ResultsType, RangeTyped
  <2>3. Contents[k][i] = [id |-> id, peer |-> m_query_hit_result[p][id][i]]
    BY <1>3, <1>4 DEF RecordedAnswers
  <2> QED BY <2>2, <2>3 DEF Single, Answer
<1> QED BY <1>3, <1>4, <1>5 DEF AnswersInv, Distinct
-----------------------------------------------------------------------------
\* An answer that matters is in one place of the overlay at a time, and who gave it will
\* not give it again.
THEOREM AnswersInvariant == Spec => []AnswersInv
<1>1. Init => TypeOK /\ UpstreamInv /\ GenuineInv /\ AnswersInv
  BY InitType, InitUpstream, InitGenuine, InitAnswers
<1>2. TypeOK /\ UpstreamInv /\ GenuineInv /\ AnswersInv /\ [Next]_vars
        => TypeOK' /\ UpstreamInv' /\ GenuineInv' /\ AnswersInv'
  BY NextType, NextStep, GenuineNext, AnswersNext
<1> QED BY <1>1, <1>2, PTL DEF Spec

\* No peer is recorded twice as a responder to a query that nobody has forgotten, over
\* however many paths the query reached it.
THEOREM AnswersOnce == Spec => []NoDuplicateAnswers
<1>1. TypeOK /\ AnswersInv => NoDuplicateAnswers
  BY AnswersNoDuplicates
<1> QED BY <1>1, TypeCorrect, AnswersInvariant, PTL
=============================================================================
