----------------------------- MODULE LinkProofs -----------------------------
(***************************************************************************)
(* Theorem about Link, for any number of starts, breaks and commands: while*)
(* libmosquitto's window is not full, a router shown as online listens to  *)
(* its commands.                                                           *)
(***************************************************************************)
EXTENDS Link, SequenceTheorems, FiniteSetTheorems, WellFoundedInduction, TLAPS

Packets == {"connect", "subscribe", "online", "offline", "data", "disconnect"}

\* The packets of a connection, in their order: CONNECT comes first, DISCONNECT
\* last and behind offline, online behind the subscription.
\*   mine:   the connection is that of the broker's session
\*   heard:  the broker has read its subscription, or on_connect gave up on it
\*   open:   the daemon has it
\*   hushed: no online is retained
Queue(q, mine, heard, open, hushed) ==
    /\ q \in Seq(Packets)
    /\ \A i \in 1..Len(q) : q[i] = "connect" => i = 1 /\ ~mine
    /\ \A i \in 1..Len(q) : q[i] = "disconnect" =>
          /\ i = Len(q) /\ ~open
          /\ i = 1 /\ mine => hushed
          /\ i > 1 => q[i - 1] = "offline"
    /\ \A i \in 1..Len(q) : q[i] = "online" =>
          heard \/ \E j \in 1..i - 1 : q[j] = "subscribe"

\* What the daemon has sent on the connection it has: behind a subscription there
\* is an online, until the broker retains it.
\*   listens: the broker has read the subscription
\*   shown:   online is retained
Opened(q, listens, shown) ==
    /\ \A i \in 1..Len(q) : q[i] # "offline"
    /\ \A i \in 1..Len(q) : q[i] = "subscribe" => \E j \in i + 1..Len(q) : q[j] = "online"
    /\ listens /\ ~shown => \E j \in 1..Len(q) : q[j] = "online"

Messages == {"online", "data"}
Heard(c) == c \in deaf \/ (session = c /\ subscribed)
Shown == retained = "online"

LinkTypeOK ==
    /\ out \in Seq(Messages)
    /\ conns \in 0..Cardinality(Conns) /\ conn \in 0..conns /\ session \in 0..conns
    /\ toBroker \in [Conns -> Seq(Packets)]
    /\ subscribed \in BOOLEAN

QueuesOK ==
    /\ \A c \in Conns : Queue(toBroker[c], session = c, Heard(c), conn = c, ~Shown)
    /\ \A c \in Conns : c > conns => toBroker[c] = <<>>
    /\ conn # 0 => Opened(toBroker[conn], session = conn /\ subscribed, Shown)

LinkInv ==
    /\ LinkTypeOK
    /\ QueuesOK
    /\ Shown => session # 0 /\ (subscribed \/ session \in deaf)

\* The premise: what is not acknowledged fits the window.
Roomy == Len(out) < Window

----------------------------------------------------------------------------
(* Sequences.                                                              *)

LEMMA Least ==
    ASSUME NEW I, I \subseteq Nat, I # {}
    PROVE  Min(I) \in I
<1>1. \E x \in I : \A y \in I : ~(<<y, x>> \in OpToRel(<, Nat))
  BY WFMin, NatLessThanWellFounded
<1>2. PICK x \in I : \A y \in I : ~(<<y, x>> \in OpToRel(<, Nat))
  BY <1>1
<1>3. OpToRel(<, Nat) = {ss \in Nat \X Nat : ss[1] < ss[2]}
  BY DEF OpToRel
<1>4. ASSUME NEW y \in I PROVE x <= y
  <2>1. ~(<<y, x>> \in {ss \in Nat \X Nat : ss[1] < ss[2]})
    BY <1>2, <1>3
  <2>2. ~(y < x) /\ x \in Nat /\ y \in Nat
    BY <2>1
  <2> QED BY <2>2
<1> QED BY <1>4 DEF Min

LEMMA ClosingUp ==
    ASSUME NEW S, NEW s \in Seq(S), NEW i \in 1..Len(s)
    PROVE  RemoveAt(s, i) \in Seq(S)
<1>1. Len(s) \in Nat /\ \A n \in 1..Len(s) : s[n] \in S
  BY ElementOfSeq, LenProperties
<1>2. SubSeq(s, 1, i - 1) \in Seq(S) /\ SubSeq(s, i + 1, Len(s)) \in Seq(S)
  BY <1>1, SubSeqProperties
<1> QED BY <1>2, ConcatProperties DEF RemoveAt

\* The acknowledged message leaves the queue of the library.
LEMMA RemoveFirstType ==
    ASSUME NEW S, NEW s \in Seq(S), NEW e
    PROVE  RemoveFirst(s, e) \in Seq(S)
<1> DEFINE I == {i \in 1..Len(s) : s[i] = e}
<1>1. CASE I = {}
  <2>1. ~\E i \in 1..Len(s) : s[i] = e
    BY <1>1
  <2> QED BY <2>1 DEF RemoveFirst
<1>2. CASE I # {}
  <2>1. Min(I) \in I
    <3>1. I \subseteq Nat
      OBVIOUS
    <3> HIDE DEF I
    <3> QED BY <1>2, <3>1, Least
  <2>2. RemoveFirst(s, e) = RemoveAt(s, Min(I))
    BY <1>2 DEF RemoveFirst, SelectInSeq
  <2> QED BY <2>1, <2>2, ClosingUp
<1> QED BY <1>1, <1>2

----------------------------------------------------------------------------
(* What may be done to a queue.                                            *)

LEMMA EmptyQueue ==
    ASSUME NEW mine, NEW heard, NEW open, NEW hushed
    PROVE  Queue(<<>>, mine, heard, open, hushed)
BY EmptySeq DEF Queue

LEMMA QueueStands ==
    ASSUME NEW mine, NEW heard, NEW open,
           NEW hushed, NEW mine2, NEW heard2,
           NEW open2, NEW hushed2, NEW q,
           Queue(q, mine, heard, open, hushed),
           mine2 => mine, heard => heard2, open2 => open, mine2 /\ hushed => hushed2
    PROVE  Queue(q, mine2, heard2, open2, hushed2)
BY DEF Queue

\* The broker takes the first packet.
LEMMA QueueTaken ==
    ASSUME NEW mine, NEW heard, NEW open,
           NEW hushed, NEW mine2, NEW heard2,
           NEW hushed2, NEW q,
           Queue(q, mine, heard, open, hushed), q # <<>>,
           heard \/ Head(q) = "subscribe" => heard2,
           Head(q) = "offline" => hushed2
    PROVE  Queue(Tail(q), mine2, heard2, open, hushed2)
<1>1. q \in Seq(Packets)
  BY DEF Queue
<1>2. /\ Tail(q) \in Seq(Packets) /\ Len(Tail(q)) = Len(q) - 1 /\ Len(q) \in Nat \ {0}
      /\ \A i \in 1..Len(q) - 1 : Tail(q)[i] = q[i + 1]
      /\ Head(q) = q[1]
  BY <1>1, HeadTailProperties, EmptySeq
<1> DEFINE t == Tail(q)
<1>3. \A i \in 1..Len(t) : t[i] = q[i + 1] /\ i + 1 \in 1..Len(q)
  BY <1>2
<1> HIDE DEF t
<1>4. ASSUME NEW i \in 1..Len(t)
      PROVE  t[i] # "connect"
  <2>1. t[i] = q[i + 1] /\ i + 1 \in 1..Len(q) /\ i + 1 # 1
    BY <1>3
  <2> QED BY <2>1 DEF Queue
<1>5. ASSUME NEW i \in 1..Len(t), t[i] = "disconnect"
      PROVE  i = Len(t) /\ ~open /\ (i = 1 => hushed2) /\ (i > 1 => t[i - 1] = "offline")
  <2>1. q[i + 1] = "disconnect" /\ i + 1 \in 1..Len(q) /\ i + 1 > 1 /\ (i + 1) - 1 = i
    BY <1>3, <1>5
  <2>2. i + 1 = Len(q) /\ ~open /\ q[i] = "offline"
    BY <2>1 DEF Queue
  <2>3. i = 1 => hushed2
    BY <1>2, <2>2
  <2>4. i > 1 => t[i - 1] = q[i]
    BY <1>2 DEF t
  <2>5. i = Len(t)
    <3>1. i + 1 = Len(q)
      BY <2>2
    <3>2. Len(t) = Len(q) - 1 /\ Len(q) \in Nat \ {0}
      BY <1>2 DEF t
    <3>3. i \in Nat
      BY <3>2
    <3> QED BY ONLY <3>1, <3>2, <3>3
  <2>6. ~open
    BY <2>2
  <2>7. i > 1 => t[i - 1] = "offline"
    BY <2>2, <2>4
  <2> QED BY <2>3, <2>5, <2>6, <2>7
<1>6. ASSUME NEW i \in 1..Len(t), t[i] = "online"
      PROVE  heard2 \/ \E j \in 1..i - 1 : t[j] = "subscribe"
  <2>1. heard \/ \E j \in 1..i : q[j] = "subscribe"
    BY <1>3, <1>6 DEF Queue
  <2>2. CASE heard
    BY <2>2
  <2>3. CASE \E j \in 1..i : q[j] = "subscribe"
    <3>1. PICK j \in 1..i : q[j] = "subscribe"
      BY <2>3
    <3>2. CASE j = 1
      BY <1>2, <3>1, <3>2
    <3>3. CASE j > 1
      <4>1. j - 1 \in 1..i - 1 /\ t[j - 1] = q[j]
        BY <1>2, <3>3 DEF t
      <4> QED BY <3>1, <4>1
    <3> QED BY <3>2, <3>3
  <2> QED BY <2>1, <2>2, <2>3
<1> QED BY <1>2, <1>4, <1>5, <1>6 DEF Queue, t

\* The daemon sends on its connection.
LEMMA QueueSent ==
    ASSUME NEW mine, NEW heard, NEW heard2,
           NEW hushed, NEW q, NEW ps \in Seq({"subscribe", "online", "data"}),
           Queue(q, mine, heard, TRUE, hushed), heard => heard2,
           \A i \in 1..Len(ps) : ps[i] = "online" =>
              heard2 \/ \E j \in 1..i - 1 : ps[j] = "subscribe"
    PROVE  Queue(q \o ps, mine, heard2, TRUE, hushed)
<1>1. q \in Seq(Packets) /\ ps \in Seq(Packets)
  BY SeqMonotonic DEF Queue, Packets
<1> DEFINE a == q \o ps
<1>2. /\ a \in Seq(Packets) /\ Len(a) = Len(q) + Len(ps) /\ Len(q) \in Nat /\ Len(ps) \in Nat
      /\ \A i \in 1..Len(q) : a[i] = q[i]
      /\ \A i \in 1..Len(ps) : a[Len(q) + i] = ps[i]
  BY <1>1, ConcatProperties, LenProperties
<1>3. \A i \in 1..Len(ps) : ps[i] \in {"subscribe", "online", "data"}
  BY ElementOfSeq
<1> HIDE DEF a
<1>4. ASSUME NEW i \in 1..Len(a)
      PROVE  \/ i \in 1..Len(q) /\ a[i] = q[i]
             \/ \E k \in 1..Len(ps) : i = Len(q) + k /\ a[i] = ps[k]
  <2>1. CASE i <= Len(q)
    BY <1>2, <2>1
  <2>2. CASE i > Len(q)
    <3>1. i - Len(q) \in 1..Len(ps) /\ i = Len(q) + (i - Len(q))
      BY <1>2, <2>2
    <3> QED BY <1>2, <3>1
  <2> QED BY <1>2, <2>1, <2>2
<1>5. \A i \in 1..Len(a) : a[i] = "connect" => i = 1 /\ ~mine
  BY <1>3, <1>4 DEF Queue
<1>6. \A i \in 1..Len(a) : a[i] # "disconnect"
  BY <1>3, <1>4 DEF Queue
<1>7. ASSUME NEW i \in 1..Len(a), a[i] = "online"
      PROVE  heard2 \/ \E j \in 1..i - 1 : a[j] = "subscribe"
  <2>1. CASE i \in 1..Len(q) /\ a[i] = q[i]
    <3>1. heard \/ \E j \in 1..i - 1 : q[j] = "subscribe"
      BY <1>7, <2>1 DEF Queue
    <3>2. \A j \in 1..i - 1 : a[j] = q[j]
      BY <1>2, <2>1
    <3> QED BY <3>1, <3>2
  <2>2. CASE \E k \in 1..Len(ps) : i = Len(q) + k /\ a[i] = ps[k]
    <3>1. PICK k \in 1..Len(ps) : i = Len(q) + k /\ a[i] = ps[k]
      BY <2>2
    <3>2. heard2 \/ \E j \in 1..k - 1 : ps[j] = "subscribe"
      BY <1>7, <3>1
    <3>3. \A j \in 1..k - 1 : Len(q) + j \in 1..i - 1 /\ a[Len(q) + j] = ps[j]
      BY <1>2, <3>1
    <3> QED BY <3>2, <3>3
  <2> QED BY <1>4, <2>1, <2>2
<1> QED BY <1>2, <1>5, <1>6, <1>7 DEF Queue, a

\* Stop: offline and DISCONNECT.
LEMMA QueueClosed ==
    ASSUME NEW mine, NEW heard, NEW hushed, NEW q,
           Queue(q, mine, heard, TRUE, hushed)
    PROVE  Queue(q \o <<"offline">> \o <<"disconnect">>, mine, heard, FALSE, hushed)
<1>1. q \in Seq(Packets)
  BY DEF Queue
<1> DEFINE a == q \o <<"offline">> \o <<"disconnect">>
<1>2. /\ a \in Seq(Packets) /\ Len(a) = Len(q) + 2 /\ Len(q) \in Nat
      /\ \A i \in 1..Len(q) : a[i] = q[i]
      /\ a[Len(q) + 1] = "offline" /\ a[Len(q) + 2] = "disconnect"
  <2>1. <<"offline">> \in Seq(Packets) /\ <<"disconnect">> \in Seq(Packets)
    BY DEF Packets
  <2>2. Len(<<"offline">>) = 1 /\ Len(<<"disconnect">>) = 1 /\ Len(q) \in Nat
    BY <1>1, LenProperties
  <2> DEFINE b == q \o <<"offline">>
  <2>3. /\ b \in Seq(Packets) /\ Len(b) = Len(q) + 1
        /\ \A i \in 1..Len(q) : b[i] = q[i]
        /\ b[Len(q) + 1] = "offline"
    BY <1>1, <2>1, <2>2, ConcatProperties
  <2> HIDE DEF b
  <2>4. /\ b \o <<"disconnect">> \in Seq(Packets)
        /\ Len(b \o <<"disconnect">>) = Len(q) + 2
        /\ \A i \in 1..Len(q) + 1 : (b \o <<"disconnect">>)[i] = b[i]
        /\ (b \o <<"disconnect">>)[Len(q) + 2] = "disconnect"
    BY <2>1, <2>2, <2>3, ConcatProperties
  <2> QED BY <2>2, <2>3, <2>4 DEF b
<1> HIDE DEF a
<1>3. \A i \in 1..Len(a) : i \in 1..Len(q) \/ i = Len(q) + 1 \/ i = Len(q) + 2
  BY <1>2
<1>4. \A i \in 1..Len(a) : a[i] = "connect" => i = 1 /\ ~mine
  BY <1>2, <1>3 DEF Queue
<1>5. \A i \in 1..Len(a) : a[i] = "disconnect" => i = Len(q) + 2
  BY <1>2, <1>3 DEF Queue
<1>6. \A i \in 1..Len(a) : a[i] = "disconnect" =>
        i = Len(a) /\ i # 1 /\ a[i - 1] = "offline"
  BY <1>2, <1>5
<1>7. ASSUME NEW i \in 1..Len(a), a[i] = "online"
      PROVE  heard \/ \E j \in 1..i - 1 : a[j] = "subscribe"
  <2>1. i \in 1..Len(q) /\ q[i] = "online"
    BY <1>2, <1>3, <1>7
  <2>2. heard \/ \E j \in 1..i - 1 : q[j] = "subscribe"
    BY <2>1 DEF Queue
  <2>3. \A j \in 1..i - 1 : a[j] = q[j]
    BY <1>2, <2>1
  <2> QED BY <2>2, <2>3
<1> QED BY <1>2, <1>4, <1>6, <1>7 DEF Queue, a

LEMMA OpenedStands ==
    ASSUME NEW listens, NEW shown,
           NEW listens2, NEW shown2, NEW q,
           Opened(q, listens, shown), listens2 => listens, listens2 /\ shown => shown2
    PROVE  Opened(q, listens2, shown2)
BY DEF Opened

LEMMA OpenedTaken ==
    ASSUME NEW listens, NEW shown,
           NEW listens2, NEW shown2,
           NEW q \in Seq(Packets), q # <<>>, Opened(q, listens, shown),
           listens2 => listens \/ Head(q) = "subscribe",
           shown => shown2, Head(q) = "online" => shown2
    PROVE  Opened(Tail(q), listens2, shown2)
<1> DEFINE t == Tail(q)
<1>1. /\ Len(t) = Len(q) - 1 /\ Len(q) \in Nat \ {0} /\ Head(q) = q[1]
      /\ \A i \in 1..Len(t) : t[i] = q[i + 1] /\ i + 1 \in 1..Len(q)
      /\ \A i \in 2..Len(q) : i - 1 \in 1..Len(t) /\ t[i - 1] = q[i]
  BY HeadTailProperties, EmptySeq
<1> HIDE DEF t
<1>2. \A i \in 1..Len(t) : t[i] # "offline"
  BY <1>1 DEF Opened
<1>3. ASSUME NEW i \in 1..Len(t), t[i] = "subscribe"
      PROVE  \E j \in i + 1..Len(t) : t[j] = "online"
  <2>1. q[i + 1] = "subscribe" /\ i + 1 \in 1..Len(q)
    BY <1>1, <1>3
  <2>2. PICK j \in (i + 1) + 1..Len(q) : q[j] = "online"
    BY <2>1 DEF Opened
  <2>3. j - 1 \in i + 1..Len(t) /\ t[j - 1] = "online"
    BY <1>1, <2>2
  <2> QED BY <2>3
<1>4. ASSUME listens2, ~shown2
      PROVE  \E j \in 1..Len(t) : t[j] = "online"
  <2>1. \E j \in 2..Len(q) : q[j] = "online"
    <3>1. CASE listens
      BY <1>1, <1>4, <3>1 DEF Opened
    <3>2. CASE q[1] = "subscribe"
      BY <1>1, <3>2 DEF Opened
    <3> QED BY <1>1, <1>4, <3>1, <3>2
  <2> QED BY <1>1, <2>1
<1> QED BY <1>2, <1>3, <1>4 DEF Opened, t

LEMMA OpenedSent ==
    ASSUME NEW listens, NEW shown,
           NEW q \in Seq(Packets), NEW ps \in Seq({"subscribe", "online", "data"}),
           Opened(q, listens, shown),
           \A i \in 1..Len(ps) : ps[i] = "subscribe" =>
              \E j \in i + 1..Len(ps) : ps[j] = "online"
    PROVE  Opened(q \o ps, listens, shown)
<1> DEFINE a == q \o ps
<1>1. ps \in Seq(Packets)
  BY SeqMonotonic DEF Packets
<1>2. /\ Len(a) = Len(q) + Len(ps) /\ Len(q) \in Nat /\ Len(ps) \in Nat
      /\ \A i \in 1..Len(q) : a[i] = q[i]
      /\ \A i \in 1..Len(ps) : a[Len(q) + i] = ps[i]
  BY <1>1, ConcatProperties, LenProperties
<1>3. \A i \in 1..Len(ps) : ps[i] \in {"subscribe", "online", "data"}
  BY ElementOfSeq
<1> HIDE DEF a
<1>4. ASSUME NEW i \in 1..Len(a)
      PROVE  \/ i \in 1..Len(q) /\ a[i] = q[i]
             \/ \E k \in 1..Len(ps) : i = Len(q) + k /\ a[i] = ps[k]
  <2>1. CASE i <= Len(q)
    BY <1>2, <2>1
  <2>2. CASE i > Len(q)
    <3>1. i - Len(q) \in 1..Len(ps) /\ i = Len(q) + (i - Len(q))
      BY <1>2, <2>2
    <3> QED BY <1>2, <3>1
  <2> QED BY <1>2, <2>1, <2>2
<1>5. \A i \in 1..Len(a) : a[i] # "offline"
  BY <1>3, <1>4 DEF Opened
<1>6. ASSUME NEW i \in 1..Len(a), a[i] = "subscribe"
      PROVE  \E j \in i + 1..Len(a) : a[j] = "online"
  <2>1. CASE i \in 1..Len(q) /\ a[i] = q[i]
    <3>1. PICK j \in i + 1..Len(q) : q[j] = "online"
      BY <1>6, <2>1 DEF Opened
    <3>2. j \in i + 1..Len(a) /\ a[j] = "online"
      BY <1>2, <2>1, <3>1
    <3> QED BY <3>2
  <2>2. CASE \E k \in 1..Len(ps) : i = Len(q) + k /\ a[i] = ps[k]
    <3>1. PICK k \in 1..Len(ps) : i = Len(q) + k /\ a[i] = ps[k]
      BY <2>2
    <3>2. PICK j \in k + 1..Len(ps) : ps[j] = "online"
      BY <1>6, <3>1
    <3>3. Len(q) + j \in i + 1..Len(a) /\ a[Len(q) + j] = "online"
      BY <1>2, <3>1, <3>2
    <3> QED BY <3>3
  <2> QED BY <1>4, <2>1, <2>2
<1>7. ASSUME listens, ~shown
      PROVE  \E j \in 1..Len(a) : a[j] = "online"
  <2>1. PICK j \in 1..Len(q) : q[j] = "online"
    BY <1>7 DEF Opened
  <2>2. j \in 1..Len(a) /\ a[j] = "online"
    BY <1>2, <2>1
  <2> QED BY <2>2
<1> QED BY <1>5, <1>6, <1>7 DEF Opened, a

\* What on_connect sends when the subscription succeeds.
LEMMA Greeting ==
    ASSUME NEW f \in Seq(Messages)
    PROVE  LET ps == <<"subscribe">> \o <<"online">> \o f
           IN  /\ ps \in Seq({"subscribe", "online", "data"})
               /\ \A i \in 1..Len(ps) : ps[i] = "online" =>
                     \E j \in 1..i - 1 : ps[j] = "subscribe"
               /\ \A i \in 1..Len(ps) : ps[i] = "subscribe" =>
                     \E j \in i + 1..Len(ps) : ps[j] = "online"
<1> DEFINE T == {"subscribe", "online", "data"}
           s1 == <<"subscribe">>
           s2 == <<"online">>
           ps == s1 \o s2 \o f
<1>1. /\ s1 \in Seq(T) /\ Len(s1) = 1 /\ s1[1] = "subscribe"
      /\ s2 \in Seq(T) /\ Len(s2) = 1 /\ s2[1] = "online"
  OBVIOUS
<1>2. f \in Seq(T) /\ Len(f) \in Nat /\ \A i \in 1..Len(f) : f[i] \in Messages
  <2>1. f \in Seq(T)
    BY SeqMonotonic DEF Messages
  <2> QED BY <2>1, ElementOfSeq, LenProperties
<1> HIDE DEF s1, s2
<1>3. /\ s1 \o s2 \in Seq(T) /\ Len(s1 \o s2) = 2
      /\ (s1 \o s2)[1] = "subscribe" /\ (s1 \o s2)[2] = "online"
  <2>1. /\ s1 \o s2 \in Seq(T) /\ Len(s1 \o s2) = Len(s1) + Len(s2)
        /\ \A i \in 1..Len(s1) + Len(s2) :
              (s1 \o s2)[i] = IF i <= Len(s1) THEN s1[i] ELSE s2[i - Len(s1)]
    BY <1>1, ConcatProperties
  <2> QED BY <1>1, <2>1
<1> DEFINE g == s1 \o s2
<1> HIDE DEF g
<1>4. /\ g \o f \in Seq(T) /\ Len(g \o f) = 2 + Len(f)
      /\ \A i \in 1..2 + Len(f) : (g \o f)[i] = IF i <= 2 THEN g[i] ELSE f[i - 2]
  BY <1>2, <1>3, ConcatProperties DEF g
<1> DEFINE h == g \o f
<1>5. /\ h \in Seq(T) /\ Len(h) = 2 + Len(f) /\ h[1] = "subscribe" /\ h[2] = "online"
      /\ \A i \in 3..Len(h) : h[i] = f[i - 2] /\ i - 2 \in 1..Len(f)
  BY <1>2, <1>3, <1>4 DEF g
<1> HIDE DEF h
<1>6. \A i \in 1..Len(h) : i = 1 \/ i = 2 \/ i \in 3..Len(h)
  BY <1>2, <1>5
<1>7. \A i \in 2..Len(h) : h[i] # "subscribe"
  BY <1>2, <1>5, <1>6 DEF Messages
<1>8. 1 \in 1..Len(h) /\ 2 \in 2..Len(h)
  BY <1>2, <1>5
<1>9. \A i \in 1..Len(h) : h[i] = "online" => \E j \in 1..i - 1 : h[j] = "subscribe"
  BY <1>5, <1>6, <1>8
<1>10. \A i \in 1..Len(h) : h[i] = "subscribe" => \E j \in i + 1..Len(h) : h[j] = "online"
  BY <1>5, <1>6, <1>7, <1>8
<1> QED BY <1>5, <1>9, <1>10 DEF h, g, s1, s2

----------------------------------------------------------------------------
(* The steps.                                                              *)

LEMMA ConnsAre == Cardinality(Conns) \in Nat /\ Conns = 1..Cardinality(Conns)
<1>1. 2 * (MaxStarts + MaxBreaks) \in Nat
  BY LinkAssumption
<1>2. Cardinality(1..2 * (MaxStarts + MaxBreaks)) = 2 * (MaxStarts + MaxBreaks)
  BY <1>1, FS_Interval
<1> QED BY <1>1, <1>2 DEF Conns

\* What a packet that mosquitto_loop reads makes the daemon send.
LEMMA Answers ==
    ASSUME LinkTypeOK, LoopRead, Roomy
    PROVE  \E ps \in Seq({"subscribe", "online", "data"}) :
              /\ toBroker' = [toBroker EXCEPT ![conn] = @ \o ps]
              /\ \A i \in 1..Len(ps) : ps[i] = "online" =>
                    conn \in deaf' \/ \E j \in 1..i - 1 : ps[j] = "subscribe"
              /\ \A i \in 1..Len(ps) : ps[i] = "subscribe" =>
                    \E j \in i + 1..Len(ps) : ps[j] = "online"
              /\ out' \in Seq(Messages) /\ deaf \subseteq deaf'
<1> DEFINE T == {"subscribe", "online", "data"}
           Good(ps) ==
              /\ ps \in Seq(T)
              /\ toBroker' = [toBroker EXCEPT ![conn] = @ \o ps]
              /\ \A i \in 1..Len(ps) : ps[i] = "online" =>
                    conn \in deaf' \/ \E j \in 1..i - 1 : ps[j] = "subscribe"
              /\ \A i \in 1..Len(ps) : ps[i] = "subscribe" =>
                    \E j \in i + 1..Len(ps) : ps[j] = "online"
              /\ out' \in Seq(Messages) /\ deaf \subseteq deaf'
<1> SUFFICES \E ps : Good(ps)
  OBVIOUS
<1>1. out \in Seq(Messages) /\ Len(out) \in Nat /\ Len(out) < Window /\ Window \in Nat
  BY LinkAssumption, LenProperties DEF LinkTypeOK, Roomy
<1>2. InFlight(out) \in Seq(Messages) /\ \A msg : Now(msg, out) = <<msg>>
  <2>1. \A i \in 1..Len(out) : out[i] \in Messages
    BY <1>1, ElementOfSeq
  <2>2. SubSeq(out, 1, Len(out)) \in Seq(Messages)
    BY <1>1, <2>1, SubSeqProperties
  <2> QED BY <1>1, <2>2 DEF InFlight, Now
<1>3. \A msg \in Messages : Append(out, msg) \in Seq(Messages)
  BY <1>1, AppendProperties
<1>4. CASE on_connect
  <2>1. CASE /\ Send(<<"subscribe">> \o Now("online", out) \o InFlight(out))
             /\ out' = Append(out, "online") /\ UNCHANGED deaf
    <3> DEFINE ps == <<"subscribe">> \o <<"online">> \o InFlight(out)
    <3>1. toBroker' = [toBroker EXCEPT ![conn] = @ \o ps]
      BY <1>2, <2>1 DEF Send
    <3>2. /\ ps \in Seq(T)
          /\ \A i \in 1..Len(ps) : ps[i] = "online" => \E j \in 1..i - 1 : ps[j] = "subscribe"
          /\ \A i \in 1..Len(ps) : ps[i] = "subscribe" =>
                \E j \in i + 1..Len(ps) : ps[j] = "online"
      BY <1>2, Greeting
    <3> HIDE DEF ps
    <3>3. out' \in Seq(Messages) /\ deaf \subseteq deaf'
      BY <1>3, <2>1 DEF Messages
    <3>4. Good(ps)
      BY <3>1, <3>2, <3>3
    <3> QED BY <3>4
  <2>2. CASE /\ Send(InFlight(out))
             /\ deaf' = deaf \cup {conn} /\ UNCHANGED out
    <3>1. InFlight(out) \in Seq(T)
      BY <1>2, SeqMonotonic DEF Messages
    <3>2. \A i \in 1..Len(InFlight(out)) : InFlight(out)[i] # "subscribe"
      BY <1>2, ElementOfSeq DEF Messages
    <3>3. Good(InFlight(out))
      BY <1>1, <2>2, <3>1, <3>2 DEF Send
    <3> QED BY <3>3
  <2> QED BY <1>4, <2>1, <2>2 DEF on_connect
<1>5. ASSUME NEW msg, on_ack(msg), UNCHANGED deaf
      PROVE  \E ps : Good(ps)
  <2>1. toBroker' = [toBroker EXCEPT ![conn] = @ \o <<>>]
    <3>1. (IF Len(out) > Window THEN <<out[Window + 1]>> ELSE <<>>) = <<>>
      BY <1>1
    <3>2. Send(<<>>)
      BY <1>5, <3>1 DEF on_ack
    <3> QED BY <3>2 DEF Send
  <2>2. out' \in Seq(Messages)
    BY <1>1, <1>5, RemoveFirstType DEF on_ack
  <2>3. <<>> \in Seq(T) /\ 1..Len(<<>>) = {}
    BY EmptySeq
  <2>4. Good(<<>>)
    BY <1>5, <2>1, <2>2, <2>3
  <2> QED BY <2>4
<1>6. ASSUME on_message, UNCHANGED deaf
      PROVE  \E ps : Good(ps)
  <2>1. toBroker' = [toBroker EXCEPT ![conn] = @ \o <<"data">>]
    BY <1>2, <1>6 DEF on_message, Send
  <2>2. out' \in Seq(Messages)
    BY <1>3, <1>6 DEF on_message, Messages
  <2>3. <<"data">> \in Seq(T) /\ \A i \in 1..Len(<<"data">>) : <<"data">>[i] = "data"
    OBVIOUS
  <2>4. Good(<<"data">>)
    BY <1>6, <2>1, <2>2, <2>3
  <2> QED BY <2>4
<1> QED BY <1>4, <1>5, <1>6 DEF LoopRead

LEMMA StepLoopRead ==
    ASSUME LinkInv, LoopRead, Roomy
    PROVE  LinkInv'
<1>1. PICK ps \in Seq({"subscribe", "online", "data"}) :
        /\ toBroker' = [toBroker EXCEPT ![conn] = @ \o ps]
        /\ \A i \in 1..Len(ps) : ps[i] = "online" =>
              conn \in deaf' \/ \E j \in 1..i - 1 : ps[j] = "subscribe"
        /\ \A i \in 1..Len(ps) : ps[i] = "subscribe" =>
              \E j \in i + 1..Len(ps) : ps[j] = "online"
        /\ out' \in Seq(Messages) /\ deaf \subseteq deaf'
  BY Answers DEF LinkInv
<1>2. UNCHANGED <<conn, session, subscribed, retained, conns>> /\ conn # 0
  BY DEF LoopRead, brokerSide, linkCounters
<1>3. conn \in Conns /\ conns \in Nat /\ conn <= conns
  BY <1>2, ConnsAre DEF LinkInv, LinkTypeOK
<1>4. toBroker \in [Conns -> Seq(Packets)]
  BY DEF LinkInv, LinkTypeOK
<1>5. \A c \in Conns : toBroker'[c] = IF c = conn THEN toBroker[conn] \o ps ELSE toBroker[c]
  BY <1>1, <1>3, <1>4
<1>6. toBroker[conn] \in Seq(Packets) /\ toBroker[conn] \o ps \in Seq(Packets)
  <2>1. ps \in Seq(Packets)
    BY SeqMonotonic DEF Packets
  <2> QED BY <1>3, <1>4, <2>1, ConcatProperties
<1>7. LinkTypeOK'
  BY <1>1, <1>2, <1>3, <1>4, <1>6 DEF LinkInv, LinkTypeOK
<1>8. ASSUME NEW c \in Conns
      PROVE  Queue(toBroker[c], session = c, Heard(c), conn = c, ~Shown)'
  <2>1. Queue(toBroker[c], session = c, Heard(c), conn = c, ~Shown)
    BY DEF LinkInv, QueuesOK
  <2>2. Heard(c) => Heard(c)'
    BY <1>1, <1>2 DEF Heard
  <2>3. Heard(c) \in BOOLEAN /\ Heard(c)' \in BOOLEAN /\ (~Shown) \in BOOLEAN
    BY DEF Heard, Shown
  <2>4. CASE c = conn
    <3>1. Queue(toBroker[c], session = c, Heard(c), TRUE, ~Shown)
      BY <2>1, <2>4
    <3>2. \A i \in 1..Len(ps) : ps[i] = "online" =>
             Heard(c)' \/ \E j \in 1..i - 1 : ps[j] = "subscribe"
      BY <1>1, <2>4 DEF Heard
    <3>3. Queue(toBroker[c] \o ps, session = c, Heard(c)', TRUE, ~Shown)
      BY <2>2, <2>3, <3>1, <3>2, QueueSent
    <3> QED BY <1>2, <1>5, <2>4, <3>3 DEF Shown
  <2>5. CASE c # conn
    <3>1. Queue(toBroker[c], session = c, Heard(c)', conn = c, ~Shown)
      BY <2>1, <2>2, <2>3, QueueStands
    <3> QED BY <1>2, <1>5, <2>5, <3>1 DEF Shown
  <2> QED BY <2>4, <2>5
<1>9. \A c \in Conns : c > conns' => toBroker'[c] = <<>>
  <2> SUFFICES ASSUME NEW c \in Conns, c > conns PROVE toBroker'[c] = <<>>
    BY <1>2
  <2>1. c # conn
    BY <1>3, ConnsAre
  <2> QED BY <1>5, <2>1 DEF LinkInv, QueuesOK
<1>10. Opened(toBroker[conn], session = conn /\ subscribed, Shown)'
  <2>1. Opened(toBroker[conn], session = conn /\ subscribed, Shown)
    BY <1>2 DEF LinkInv, QueuesOK
  <2>2. (session = conn /\ subscribed) \in BOOLEAN /\ Shown \in BOOLEAN
    BY DEF Shown
  <2>3. Opened(toBroker[conn] \o ps, session = conn /\ subscribed, Shown)
    BY <1>1, <1>6, <2>1, <2>2, OpenedSent
  <2> QED BY <1>2, <1>3, <1>5, <2>3 DEF Shown
<1>11. Shown' => session' # 0 /\ (subscribed' \/ session' \in deaf')
  BY <1>1, <1>2 DEF LinkInv, Shown
<1> QED BY <1>7, <1>8, <1>9, <1>10, <1>11 DEF LinkInv, QueuesOK

\* The connection ends on the daemon's side, with a word or without.
LEMMA StepGone ==
    ASSUME LinkInv, conn' = 0, out' \in Seq(Messages),
           UNCHANGED <<session, subscribed, retained, conns, deaf>>,
           \/ UNCHANGED toBroker
           \/ /\ toBroker' = [c \in Conns |->
                    IF c = conn THEN toBroker[c] \o <<"offline">> \o <<"disconnect">>
                    ELSE toBroker[c]]
    PROVE  LinkInv'
<1>1. toBroker \in [Conns -> Seq(Packets)] /\ conns \in Nat /\ conn \in 0..conns
  BY ConnsAre DEF LinkInv, LinkTypeOK
<1>2. ASSUME NEW c \in Conns
      PROVE  Queue(toBroker[c], session = c, Heard(c), conn = c, ~Shown)'
  <2>1. Queue(toBroker[c], session = c, Heard(c), conn = c, ~Shown)
    BY DEF LinkInv, QueuesOK
  <2>2. /\ Heard(c)' = Heard(c) /\ Shown' = Shown /\ session' = session
        /\ Heard(c) \in BOOLEAN /\ (~Shown) \in BOOLEAN /\ (session = c) \in BOOLEAN
    BY DEF Heard, Shown
  <2>3. (conn' = c) = FALSE
    BY ConnsAre
  <2>4. CASE toBroker'[c] = toBroker[c]
    <3> DEFINE m == session = c
               h == Heard(c)
               o == conn = c
               s == ~Shown
               o2 == conn' = c
    <3>1. Queue(toBroker[c], m, h, o, s) /\ ~o2
      BY <2>1, <2>3
    <3> HIDE DEF m, h, o, s, o2
    <3>2. Queue(toBroker[c], m, h, o2, s)
      BY ONLY <3>1, QueueStands
    <3> QED BY <2>2, <2>4, <3>2 DEF m, h, s, o2
  <2>5. CASE /\ c = conn
             /\ toBroker'[c] = toBroker[c] \o <<"offline">> \o <<"disconnect">>
    <3>1. Queue(toBroker[c], session = c, Heard(c), TRUE, ~Shown)
      BY <2>1, <2>5
    <3>2. Queue(toBroker[c] \o <<"offline">> \o <<"disconnect">>,
                session = c, Heard(c), FALSE, ~Shown)
      BY <2>2, <3>1, QueueClosed
    <3> QED BY <2>2, <2>3, <2>5, <3>2
  <2> QED BY <2>4, <2>5
<1>3. toBroker' \in [Conns -> Seq(Packets)]
  <2>1. \A c \in Conns : toBroker'[c] \in Seq(Packets)
    BY <1>2 DEF Queue
  <2> QED BY <1>1, <2>1
<1>4. \A c \in Conns : c > conns' => toBroker'[c] = <<>>
  <2> SUFFICES ASSUME NEW c \in Conns, c > conns PROVE toBroker'[c] = <<>>
    OBVIOUS
  <2>1. c # conn
    BY <1>1, ConnsAre
  <2> QED BY <1>1, <2>1 DEF LinkInv, QueuesOK
<1>5. LinkTypeOK'
  BY <1>1, <1>3 DEF LinkInv, LinkTypeOK
<1> QED BY <1>2, <1>4, <1>5 DEF LinkInv, QueuesOK, Shown

LEMMA StepReconnect ==
    ASSUME LinkInv, Reconnect
    PROVE  LinkInv'
<1>1. /\ conn = 0 /\ conns < Cardinality(Conns) /\ conns' = conns + 1 /\ conn' = conns + 1
      /\ toBroker' = [toBroker EXCEPT ![conns + 1] = <<"connect">>]
      /\ UNCHANGED <<out, deaf, session, subscribed, retained>>
  BY DEF Reconnect, brokerSide
<1>2. /\ conns \in Nat /\ conns + 1 \in Conns /\ session \in 0..conns
      /\ toBroker \in [Conns -> Seq(Packets)]
  BY <1>1, ConnsAre DEF LinkInv, LinkTypeOK
<1>3. \A c \in Conns : toBroker'[c] = IF c = conns + 1 THEN <<"connect">> ELSE toBroker[c]
  BY <1>1, <1>2
<1>4. /\ <<"connect">> \in Seq(Packets) /\ Len(<<"connect">>) = 1
      /\ \A i \in 1..1 : <<"connect">>[i] = "connect"
  BY DEF Packets
<1>5. ASSUME NEW c \in Conns
      PROVE  Queue(toBroker[c], session = c, Heard(c), conn = c, ~Shown)'
  <2>1. /\ Heard(c)' = Heard(c) /\ Shown' = Shown /\ session' = session
        /\ Heard(c) \in BOOLEAN /\ (~Shown) \in BOOLEAN /\ (session = c) \in BOOLEAN
    BY <1>1 DEF Heard, Shown
  <2>2. CASE c = conns + 1
    <3>1. session # c
      BY <1>2, <2>2
    <3>2. Queue(<<"connect">>, FALSE, Heard(c), TRUE, ~Shown)
      BY <1>4 DEF Queue
    <3> QED BY <1>1, <1>3, <2>1, <2>2, <3>1, <3>2
  <2>3. CASE c # conns + 1
    <3>1. Queue(toBroker[c], session = c, Heard(c), conn = c, ~Shown)
      BY DEF LinkInv, QueuesOK
    <3>2. (conn = c) = FALSE /\ (conn' = c) = FALSE
      BY <1>1, <2>3, ConnsAre
    <3> QED BY <1>3, <2>1, <2>3, <3>1, <3>2
  <2> QED BY <2>2, <2>3
<1>6. LinkTypeOK'
  BY <1>1, <1>2, <1>4, ConnsAre DEF LinkInv, LinkTypeOK
<1>7. \A c \in Conns : c > conns' => toBroker'[c] = <<>>
  <2> SUFFICES ASSUME NEW c \in Conns, c > conns + 1 PROVE toBroker'[c] = <<>>
    BY <1>1
  <2>1. c # conns + 1 /\ c > conns
    BY <1>2, ConnsAre
  <2> QED BY <1>3, <2>1 DEF LinkInv, QueuesOK
<1>8. Opened(toBroker[conn], session = conn /\ subscribed, Shown)'
  <2>1. Opened(<<"connect">>, FALSE, Shown)
    BY <1>4 DEF Opened
  <2>2. (session' = conn' /\ subscribed') = FALSE /\ Shown' = Shown
    BY <1>1, <1>2 DEF Shown
  <2> QED BY <1>1, <1>2, <1>3, <2>1, <2>2
<1> QED BY <1>1, <1>5, <1>6, <1>7, <1>8 DEF LinkInv, QueuesOK, Shown

\* CONNECT: the new session has heard nothing yet.
LEMMA StepBrokerConnect ==
    ASSUME LinkInv, NEW c \in Conns, toBroker[c] # <<>>, Head(toBroker[c]) = "connect",
           BrokerConnect(c), UNCHANGED <<conn, out, deaf, conns>>
    PROVE  LinkInv'
<1>1. /\ toBroker' = [d \in Conns |-> IF d = c THEN Tail(toBroker[c])
                                      ELSE IF d = session THEN <<>> ELSE toBroker[d]]
      /\ session' = c /\ subscribed' = FALSE
      /\ retained' = IF session = 0 THEN retained ELSE "offline"
  BY DEF BrokerConnect, Will
<1>2. ~Shown'
  BY <1>1 DEF LinkInv, Shown
<1>3. /\ toBroker \in [Conns -> Seq(Packets)] /\ toBroker[c] \in Seq(Packets)
      /\ conns \in Nat /\ conn \in 0..conns /\ c \in 1..conns
  <2>1. /\ toBroker \in [Conns -> Seq(Packets)] /\ conns \in Nat /\ conn \in 0..conns
    BY ConnsAre DEF LinkInv, LinkTypeOK
  <2>2. c <= conns
    <3>1. ~(c > conns)
      BY DEF LinkInv, QueuesOK
    <3> QED BY <2>1, <3>1, ConnsAre
  <2> QED BY <2>1, <2>2, ConnsAre
<1>4. toBroker[c][1] = "connect" /\ 1 \in 1..Len(toBroker[c]) /\ Tail(toBroker[c]) \in Seq(Packets)
  BY <1>3, HeadTailProperties, EmptySeq
<1>5. Queue(toBroker[c], session = c, Heard(c), conn = c, ~Shown)
  BY DEF LinkInv, QueuesOK
<1>6. session # c
  BY <1>4, <1>5 DEF Queue
<1>7. ASSUME NEW d \in Conns
      PROVE  Queue(toBroker[d], session = d, Heard(d), conn = d, ~Shown)'
  <2>1. /\ (session' = d) \in BOOLEAN /\ Heard(d)' \in BOOLEAN /\ (conn' = d) \in BOOLEAN
        /\ (session = d) \in BOOLEAN /\ Heard(d) \in BOOLEAN
        /\ (~Shown) \in BOOLEAN /\ (~Shown)' \in BOOLEAN /\ (~Shown)'
    BY <1>2 DEF Heard, Shown
  <2>2. CASE d = c
    <3>1. Heard(c) => Heard(d)'
      BY <1>6, <2>2 DEF Heard
    <3>2. Head(toBroker[c]) # "subscribe" /\ Head(toBroker[c]) # "offline"
      OBVIOUS
    <3>3. Queue(Tail(toBroker[c]), session' = c, Heard(c)', conn = c, (~Shown)')
      <4> DEFINE q == toBroker[c]
                 m == session = c
                 h == Heard(c)
                 o == conn = c
                 s == ~Shown
                 m2 == session' = c
                 h2 == Heard(c)'
                 s2 == (~Shown)'
      <4>1. h \/ Head(q) = "subscribe" => h2
        BY <2>2, <3>1, <3>2
      <4>2. Head(q) = "offline" => s2
        BY <3>2
      <4>3. Queue(q, m, h, o, s) /\ q # <<>>
        BY <1>5
      <4> HIDE DEF q, m, h, o, s, m2, h2, s2
      <4>4. Queue(Tail(q), m2, h2, o, s2)
        BY ONLY <4>1, <4>2, <4>3, QueueTaken
      <4> QED BY <4>4 DEF q, o, m2, h2, s2
    <3> QED BY <1>1, <2>2, <3>3
  <2>3. CASE d # c /\ d = session
    BY <1>1, <2>3, EmptyQueue
  <2>4. CASE d # c /\ d # session
    <3>1. Queue(toBroker[d], session = d, Heard(d), conn = d, ~Shown)
      BY DEF LinkInv, QueuesOK
    <3>2. (session' = d) = FALSE /\ (Heard(d) => Heard(d)')
      BY <1>1, <2>4 DEF Heard
    <3>3. Queue(toBroker[d], session' = d, Heard(d)', conn = d, (~Shown)')
      <4> DEFINE m == session = d
                 h == Heard(d)
                 o == conn = d
                 s == ~Shown
                 m2 == session' = d
                 h2 == Heard(d)'
                 s2 == (~Shown)'
      <4>1. (h => h2) /\ ~m2
        BY <3>2
      <4>2. Queue(toBroker[d], m, h, o, s)
        BY <3>1
      <4> HIDE DEF m, h, o, s, m2, h2, s2
      <4>3. Queue(toBroker[d], m2, h2, o, s2)
        BY ONLY <4>1, <4>2, QueueStands
      <4> QED BY <4>3 DEF o, m2, h2, s2
    <3> QED BY <1>1, <2>4, <3>3
  <2> QED BY <2>2, <2>3, <2>4
<1>8. LinkTypeOK'
  <2>1. toBroker' \in [Conns -> Seq(Packets)]
    BY <1>1, <1>3, <1>4, EmptySeq
  <2>2. session' \in 0..conns
    BY <1>1, <1>3
  <2>3. subscribed' \in BOOLEAN
    BY <1>1
  <2> QED BY <2>1, <2>2, <2>3 DEF LinkInv, LinkTypeOK
<1>9. \A d \in Conns : d > conns' => toBroker'[d] = <<>>
  <2> SUFFICES ASSUME NEW d \in Conns, d > conns PROVE toBroker'[d] = <<>>
    OBVIOUS
  <2>1. d # c
    BY <1>3, ConnsAre
  <2> QED BY <1>1, <2>1 DEF LinkInv, QueuesOK
<1>10. ASSUME conn # 0
       PROVE  Opened(toBroker[conn], session = conn /\ subscribed, Shown)'
  <2>1. Opened(toBroker[conn], session = conn /\ subscribed, Shown)
    BY <1>10 DEF LinkInv, QueuesOK
  <2>2. (session' = conn' /\ subscribed') = FALSE /\ Shown' = FALSE
    BY <1>1, <1>2
  <2>3. conn \in Conns
    BY <1>3, <1>10, ConnsAre DEF LinkInv, LinkTypeOK
  <2>4. Shown \in BOOLEAN /\ (session = conn /\ subscribed) \in BOOLEAN
    BY DEF Shown
  <2>5. CASE conn = c
    <3>1. Opened(toBroker[c], FALSE, FALSE)
      BY <2>1, <2>4, <2>5, OpenedStands
    <3>2. Head(toBroker[c]) # "online"
      OBVIOUS
    <3>3. Opened(Tail(toBroker[c]), FALSE, FALSE)
      BY <1>3, <3>1, <3>2, OpenedTaken
    <3> QED BY <1>1, <2>2, <2>5, <3>3
  <2>6. CASE conn # c /\ conn = session
    <3>1. toBroker'[conn] = <<>>
      BY <1>1, <2>3, <2>6
    <3>2. Opened(<<>>, FALSE, FALSE)
      BY EmptySeq DEF Opened
    <3> QED BY <2>2, <3>1, <3>2
  <2>7. CASE conn # c /\ conn # session
    <3>1. toBroker'[conn] = toBroker[conn]
      BY <1>1, <2>3, <2>7
    <3>2. Opened(toBroker[conn], FALSE, FALSE)
      BY <2>1, <2>4, OpenedStands
    <3> QED BY <2>2, <3>1, <3>2
  <2> QED BY <2>5, <2>6, <2>7
<1> QED BY <1>2, <1>7, <1>8, <1>9, <1>10 DEF LinkInv, QueuesOK

\* The broker takes a packet of its session.
LEMMA StepTaken ==
    ASSUME LinkInv, NEW c \in Conns, toBroker[c] # <<>>, c = session,
           BrokerTakes(c), UNCHANGED <<conn, out, deaf, conns>>,
           LET p == Head(toBroker[c])
           IN  \/ p = "subscribe" /\ subscribed' = TRUE /\ UNCHANGED <<session, retained>>
               \/ /\ p \in {"online", "offline", "data"}
                  /\ retained' = IF p = "data" THEN retained ELSE p
                  /\ UNCHANGED <<session, subscribed>>
               \/ p = "disconnect" /\ session' = 0 /\ subscribed' = FALSE /\ UNCHANGED retained
    PROVE  LinkInv'
<1> DEFINE q == toBroker[c]
           p == Head(q)
<1>1. /\ toBroker \in [Conns -> Seq(Packets)] /\ q \in Seq(Packets)
      /\ conns \in Nat /\ conn \in 0..conns /\ session \in 0..conns /\ c # 0
      /\ subscribed \in BOOLEAN
  BY ConnsAre DEF LinkInv, LinkTypeOK
<1>2. /\ p = q[1] /\ 1 \in 1..Len(q) /\ Tail(q) \in Seq(Packets)
      /\ Len(q) = 1 => Tail(q) = <<>>
  <2>1. /\ p = q[1] /\ Len(q) \in Nat \ {0} /\ Tail(q) \in Seq(Packets)
        /\ Len(Tail(q)) = Len(q) - 1
    BY <1>1, HeadTailProperties, EmptySeq
  <2>2. Tail(q) # <<>> => Len(Tail(q)) \in Nat \ {0}
    BY <2>1, EmptySeq
  <2> QED BY <2>1, <2>2
<1>3. \A d \in Conns : toBroker'[d] = IF d = c THEN Tail(q) ELSE toBroker[d]
  BY <1>1 DEF BrokerTakes
<1>4. Queue(q, TRUE, Heard(c), conn = c, ~Shown)
  BY DEF LinkInv, QueuesOK
<1>5. LinkTypeOK'
  <2>1. toBroker' \in [Conns -> Seq(Packets)]
    BY <1>1, <1>2 DEF BrokerTakes
  <2>2. subscribed' \in BOOLEAN
    BY <1>1, Zenon
  <2>3. session' \in 0..conns
    <3>1. session' = session \/ session' = 0
      OBVIOUS
    <3> QED BY <1>1, <3>1
  <2> QED BY <1>1, <2>1, <2>2, <2>3 DEF LinkInv, LinkTypeOK
<1>6. \A d \in Conns : d > conns' => toBroker'[d] = <<>>
  <2> SUFFICES ASSUME NEW d \in Conns, d > conns PROVE toBroker'[d] = <<>>
    OBVIOUS
  <2>1. d # c
    BY <1>1, ConnsAre
  <2> QED BY <1>3, <2>1 DEF LinkInv, QueuesOK
<1>7. ASSUME NEW d \in Conns, d # c
      PROVE  Queue(toBroker[d], session = d, Heard(d), conn = d, ~Shown)'
  <2>1. Queue(toBroker[d], session = d, Heard(d), conn = d, ~Shown)
    BY DEF LinkInv, QueuesOK
  <2>2. (session' = d) = FALSE /\ (Heard(d) => Heard(d)')
    BY <1>7, ConnsAre DEF Heard
  <2>3. /\ Heard(d)' \in BOOLEAN /\ (conn = d) \in BOOLEAN /\ (session = d) \in BOOLEAN
        /\ Heard(d) \in BOOLEAN /\ (~Shown) \in BOOLEAN /\ (~Shown)' \in BOOLEAN
    BY DEF Heard, Shown
  <2> DEFINE m == session = d
             h == Heard(d)
             o == conn = d
             s == ~Shown
             m2 == session' = d
             h2 == Heard(d)'
             s2 == (~Shown)'
  <2>4. (h => h2) /\ ~m2
    BY <2>2
  <2>5. Queue(toBroker[d], m, h, o, s)
    BY <2>1
  <2> HIDE DEF m, h, o, s, m2, h2, s2
  <2>6. Queue(toBroker[d], m2, h2, o, s2)
    BY ONLY <2>4, <2>5, QueueStands
  <2> QED BY <1>3, <1>7, <2>6 DEF m2, h2, s2, o
<1>8. CASE p = "disconnect" /\ session' = 0 /\ subscribed' = FALSE /\ UNCHANGED retained
  <2>1. Len(q) = 1 /\ conn # c /\ ~Shown
    BY <1>2, <1>4, <1>8 DEF Queue
  <2>2. toBroker'[c] = <<>>
    BY <1>2, <1>3, <2>1
  <2>3. Queue(toBroker[c], session = c, Heard(c), conn = c, ~Shown)'
    BY <2>2, EmptyQueue
  <2>4. ASSUME conn # 0
        PROVE  Opened(toBroker[conn], session = conn /\ subscribed, Shown)'
    <3>1. Opened(toBroker[conn], session = conn /\ subscribed, Shown)
      BY <2>4 DEF LinkInv, QueuesOK
    <3>2. /\ (session' = conn' /\ subscribed') = FALSE /\ Shown' = Shown
          /\ Shown \in BOOLEAN /\ (session = conn /\ subscribed) \in BOOLEAN
      BY <1>8 DEF Shown
    <3>3. Opened(toBroker[conn], FALSE, Shown)
      BY <3>1, <3>2, OpenedStands
    <3>4. toBroker'[conn] = toBroker[conn]
      BY <1>1, <1>3, <2>1, <2>4, ConnsAre DEF LinkInv, LinkTypeOK
    <3> QED BY <3>2, <3>3, <3>4
  <2> QED BY <1>5, <1>6, <1>7, <1>8, <2>1, <2>3, <2>4 DEF LinkInv, QueuesOK, Shown
<1>9. CASE /\ session' = session
           /\ \/ p = "subscribe" /\ subscribed' = TRUE /\ UNCHANGED retained
              \/ /\ p \in {"online", "offline", "data"}
                 /\ retained' = IF p = "data" THEN retained ELSE p
                 /\ UNCHANGED subscribed
  <2>1. /\ Heard(c) \/ p = "subscribe" => Heard(c)'
        /\ p = "offline" => (~Shown)'
        /\ Heard(c) \in BOOLEAN /\ Heard(c)' \in BOOLEAN /\ (conn = c) \in BOOLEAN
        /\ (~Shown) \in BOOLEAN /\ (~Shown)' \in BOOLEAN /\ (session' = c) \in BOOLEAN
    BY <1>1, <1>9 DEF Heard, Shown
  <2>2. Queue(Tail(q), TRUE, Heard(c)', conn = c, (~Shown)')
    <3> DEFINE h == Heard(c)
               o == conn = c
               s == ~Shown
               h2 == Heard(c)'
               s2 == (~Shown)'
    <3>1. /\ h \/ Head(q) = "subscribe" => h2
          /\ Head(q) = "offline" => s2
          /\ h \in BOOLEAN /\ o \in BOOLEAN /\ s \in BOOLEAN
          /\ h2 \in BOOLEAN /\ s2 \in BOOLEAN
      BY <2>1
    <3>2. Queue(q, TRUE, h, o, s) /\ q # <<>>
      BY <1>4
    <3> HIDE DEF h, o, s, h2, s2, q, p
    <3>3. Queue(Tail(q), TRUE, h2, o, s2)
      BY ONLY <3>1, <3>2, QueueTaken
    <3> QED BY <3>3 DEF h2, s2, o
  <2>3. Queue(toBroker[c], session = c, Heard(c), conn = c, ~Shown)'
    BY <1>3, <1>9, <2>2
  <2>4. Shown' => session' # 0 /\ (subscribed' \/ session' \in deaf')
    <3>1. CASE Shown
      BY <1>9, <3>1 DEF LinkInv
    <3>2. CASE p = "online"
      <4>1. Heard(c)
        BY <1>2, <1>4, <3>2 DEF Queue
      <4> QED BY <1>1, <1>9, <3>2, <4>1 DEF Heard
    <3> QED BY <1>9, <3>1, <3>2 DEF Shown
  <2>5. ASSUME conn # 0
        PROVE  Opened(toBroker[conn], session = conn /\ subscribed, Shown)'
    <3>1. Opened(toBroker[conn], session = conn /\ subscribed, Shown)
      BY <2>5 DEF LinkInv, QueuesOK
    <3>2. /\ (session' = conn' /\ subscribed') \in BOOLEAN /\ Shown' \in BOOLEAN
          /\ Shown \in BOOLEAN /\ (session = conn /\ subscribed) \in BOOLEAN
      BY DEF Shown
    <3>3. conn \in Conns
      BY <1>1, <2>5, ConnsAre DEF LinkInv, LinkTypeOK
    <3>4. CASE conn = c
      <4>1. p # "offline"
        BY <1>2, <3>1, <3>4 DEF Opened
      <4>2. /\ (session' = conn' /\ subscribed') => (session = conn /\ subscribed) \/ p = "subscribe"
            /\ Shown => Shown'
            /\ p = "online" => Shown'
        BY <1>9, <4>1 DEF Shown
      <4>3. Opened(Tail(q), (session' = conn' /\ subscribed'), Shown')
        BY <1>1, <3>1, <3>2, <3>4, <4>2, OpenedTaken
      <4> QED BY <1>3, <3>4, <4>3
    <3>5. CASE conn # c
      <4>1. (session' = conn' /\ subscribed') = FALSE
        BY <1>9, <3>5
      <4>2. Opened(toBroker[conn], FALSE, Shown')
        BY <3>1, <3>2, OpenedStands
      <4> QED BY <1>3, <3>3, <3>5, <4>1, <4>2
    <3> QED BY <3>4, <3>5
  <2> QED BY <1>5, <1>6, <1>7, <2>3, <2>4, <2>5 DEF LinkInv, QueuesOK
<1> QED BY <1>8, <1>9

\* The broker gives a connection up, and with it what was on its way.
LEMMA StepBrokerLost ==
    ASSUME LinkInv, BrokerLost
    PROVE  LinkInv'
<1>1. PICK c \in broken :
        /\ toBroker' = [toBroker EXCEPT ![c] = <<>>]
        /\ IF c = session THEN session' = 0 /\ subscribed' = FALSE /\ retained' = "offline"
           ELSE UNCHANGED brokerSide
  BY DEF BrokerLost, Will
<1>2. UNCHANGED <<conn, out, deaf, conns>>
  BY DEF BrokerLost, routerSide, linkCounters
<1>3. /\ toBroker \in [Conns -> Seq(Packets)] /\ conns \in Nat /\ conn \in 0..conns
      /\ session \in 0..conns /\ subscribed \in BOOLEAN /\ out \in Seq(Messages)
      /\ conns \in 0..Cardinality(Conns)
  BY ConnsAre DEF LinkInv, LinkTypeOK
<1>4. \A d \in Conns : toBroker'[d] = IF d = c THEN <<>> ELSE toBroker[d]
  BY <1>1, <1>3
<1>5. LinkTypeOK'
  <2>1. toBroker' \in [Conns -> Seq(Packets)]
    BY <1>1, <1>3, EmptySeq
  <2>2. session' \in 0..conns
    BY <1>1, <1>3 DEF brokerSide
  <2>3. subscribed' \in BOOLEAN
    BY <1>1, <1>3 DEF brokerSide
  <2> QED BY <1>2, <1>3, <2>1, <2>2, <2>3 DEF LinkTypeOK
<1>6. \A d \in Conns : d > conns' => toBroker'[d] = <<>>
  BY <1>2, <1>4 DEF LinkInv, QueuesOK
<1>7. \/ UNCHANGED <<session, subscribed, retained>> /\ c # session
      \/ session' = 0 /\ subscribed' = FALSE /\ ~Shown' /\ c = session
  BY <1>1 DEF brokerSide, Shown
<1>8. ASSUME NEW d \in Conns
      PROVE  Queue(toBroker[d], session = d, Heard(d), conn = d, ~Shown)'
  <2>1. CASE d = c
    BY <1>4, <2>1, EmptyQueue
  <2>2. CASE d # c
    <3> DEFINE m == session = d
               h == Heard(d)
               o == conn = d
               s == ~Shown
               m2 == session' = d
               h2 == Heard(d)'
               s2 == (~Shown)'
    <3>1. (h => h2) /\ (m2 => m) /\ (m2 /\ s => s2)
      <4>1. CASE UNCHANGED <<session, subscribed, retained>>
        BY <1>2, <4>1 DEF Heard, Shown
      <4>2. CASE session' = 0 /\ c = session
        BY <1>2, <2>2, <4>2, ConnsAre DEF Heard
      <4> QED BY <1>7, <4>1, <4>2
    <3>2. Queue(toBroker[d], m, h, o, s)
      BY DEF LinkInv, QueuesOK
    <3> HIDE DEF m, h, o, s, m2, h2, s2
    <3>3. Queue(toBroker[d], m2, h2, o, s2)
      BY ONLY <3>1, <3>2, QueueStands
    <3> QED BY <1>2, <1>4, <2>2, <3>3 DEF m2, h2, o, s2
  <2> QED BY <2>1, <2>2
<1>9. ASSUME conn # 0
      PROVE  Opened(toBroker[conn], session = conn /\ subscribed, Shown)'
  <2>1. Opened(toBroker[conn], session = conn /\ subscribed, Shown)
    BY <1>9 DEF LinkInv, QueuesOK
  <2>2. conn \in Conns
    BY <1>3, <1>9, ConnsAre
  <2> DEFINE l == session = conn /\ subscribed
             n == Shown
             l2 == session' = conn' /\ subscribed'
             n2 == Shown'
  <2>3. CASE conn = c
    <3>1. ~l2 /\ toBroker'[conn'] = <<>>
      BY <1>2, <1>4, <1>7, <2>2, <2>3
    <3> HIDE DEF l2, n2
    <3>2. Opened(<<>>, l2, n2)
      BY <3>1, EmptySeq DEF Opened
    <3> QED BY <3>1, <3>2 DEF l2, n2
  <2>4. CASE conn # c
    <3>1. (l2 => l) /\ (l2 /\ n => n2)
      <4>1. CASE UNCHANGED <<session, subscribed, retained>>
        BY <1>2, <4>1 DEF Shown
      <4>2. CASE session' = 0 /\ subscribed' = FALSE
        BY <4>2
      <4> QED BY <1>7, <4>1, <4>2
    <3>2. Opened(toBroker[conn], l, n)
      BY <2>1
    <3> HIDE DEF l, n, l2, n2
    <3>3. Opened(toBroker[conn], l2, n2)
      BY ONLY <3>1, <3>2, OpenedStands
    <3> QED BY <1>2, <1>4, <2>2, <2>4, <3>3 DEF l2, n2
  <2> QED BY <2>3, <2>4
<1>10. Shown' => session' # 0 /\ (subscribed' \/ session' \in deaf')
  BY <1>2, <1>7 DEF LinkInv, Shown
<1> QED BY <1>2, <1>5, <1>6, <1>8, <1>9, <1>10 DEF LinkInv, QueuesOK

LEMMA LinkInductive ==
    ASSUME LinkInv, [LinkNext]_linkVars, Roomy
    PROVE  LinkInv'
<1> DEFINE kept == <<conn, out, deaf, toBroker, session, subscribed, retained, conns>>
<1>1. CASE UNCHANGED kept
  BY <1>1 DEF LinkInv, LinkTypeOK, QueuesOK, Heard, Shown
<1>2. CASE Daemon \/ Break \/ publishCmd \/ UNCHANGED linkVars
  <2>1. UNCHANGED kept
    BY <1>2 DEF Daemon, Break, publishCmd, linkVars, routerSide, network, brokerSide, linkCounters
  <2> QED BY <1>1, <2>1
<1>3. CASE LoopLost
  <2>1. out \in Seq(Messages)
    BY DEF LinkInv, LinkTypeOK
  <2> QED BY <1>3, <2>1, StepGone DEF LoopLost, brokerSide, linkCounters
<1>4. CASE Crash
  <2>1. <<>> \in Seq(Messages)
    BY EmptySeq
  <2> QED BY <1>4, <2>1, StepGone DEF Crash, Gone, brokerSide, linkCounters
<1>5. CASE Stop
  <2>1. <<>> \in Seq(Messages)
    BY EmptySeq
  <2>2. Now("offline", out) = <<"offline">>
    BY DEF Roomy, Now
  <2> QED BY <1>5, <2>1, <2>2, StepGone DEF Stop, Gone, brokerSide, linkCounters
<1>6. CASE BrokerRead
  <2>1. UNCHANGED <<conn, out, deaf, conns>>
    BY <1>6 DEF BrokerRead, routerSide, linkCounters
  <2>2. PICK c \in Conns :
          /\ toBroker[c] # <<>>
          /\ LET p == Head(toBroker[c])
             IN  \/ p = "connect" /\ BrokerConnect(c)
                 \/ /\ c = session /\ p = "subscribe"
                    /\ subscribed' = TRUE
                    /\ BrokerTakes(c)
                    /\ UNCHANGED <<session, retained>>
                 \/ /\ c = session /\ p \in {"online", "offline", "data"}
                    /\ BrokerPublish(c, p)
                    /\ BrokerTakes(c)
                 \/ /\ c = session /\ p = "disconnect"
                    /\ session' = 0
                    /\ subscribed' = FALSE
                    /\ BrokerTakes(c)
                    /\ UNCHANGED retained
    BY <1>6 DEF BrokerRead
  <2>3. CASE Head(toBroker[c]) = "connect" /\ BrokerConnect(c)
    BY <2>1, <2>2, <2>3, StepBrokerConnect
  <2>4. CASE ~(Head(toBroker[c]) = "connect" /\ BrokerConnect(c))
    <3>1. c = session /\ BrokerTakes(c)
      BY <2>2, <2>4
    <3> QED BY <2>1, <2>2, <2>4, <3>1, StepTaken DEF BrokerPublish
  <2> QED BY <2>3, <2>4
<1> QED BY <1>2, <1>3, <1>4, <1>5, <1>6, StepReconnect, StepLoopRead, StepBrokerLost
        DEF LinkNext

LEMMA LinkStart == LinkInit => LinkInv
<1> SUFFICES ASSUME LinkInit PROVE LinkInv
  OBVIOUS
<1>1. /\ out = <<>> /\ conns = 0 /\ conn = 0 /\ session = 0 /\ subscribed = FALSE
      /\ retained = "none" /\ toBroker = [c \in Conns |-> <<>>]
  BY DEF LinkInit
<1>2. LinkTypeOK
  <2>1. <<>> \in Seq(Packets) /\ <<>> \in Seq(Messages)
    BY EmptySeq
  <2>2. toBroker \in [Conns -> Seq(Packets)]
    BY <1>1, <2>1
  <2>3. 0 \in 0..Cardinality(Conns)
    BY ConnsAre
  <2>4. out \in Seq(Messages)
    BY <1>1, <2>1
  <2>5. conns \in 0..Cardinality(Conns)
    BY <1>1, <2>3
  <2>6. 0 \in 0..0
    OBVIOUS
  <2>7. conn \in 0..conns /\ session \in 0..conns
    BY <1>1, <2>6
  <2>8. subscribed \in BOOLEAN
    BY <1>1
  <2> QED BY <2>2, <2>4, <2>5, <2>7, <2>8 DEF LinkTypeOK
<1>3. QueuesOK
  BY <1>1, EmptyQueue DEF QueuesOK
<1> QED BY <1>1, <1>2, <1>3 DEF LinkInv, Shown

----------------------------------------------------------------------------
(* The results.                                                            *)

\* As long as the window is not full, a router shown as online listens: what
\* was sent over one connection cannot speak for another.
THEOREM OnlineMeansListening == LinkSpec /\ []Roomy => []OnlineListens
<1>1. LinkInv => OnlineListens
  BY DEF LinkInv, Shown, OnlineListens
<1> QED BY <1>1, LinkStart, LinkInductive, PTL DEF LinkSpec

\* As long as the window is not full, nothing but a router that is there stays
\* online when things have calmed down, and one that takes commands is.
THEOREM StatusIsRight == LinkSpec /\ []Roomy => []StatusRight
<1>1. LinkInv => StatusRight
  <2> SUFFICES ASSUME LinkInv, LinkQuiet
               PROVE  /\ Shown => conn # 0
                      /\ conn # 0 /\ subscribed => Shown
    BY DEF StatusRight, Shown
  <2>1. conn = session
    BY DEF LinkQuiet
  <2>2. ASSUME conn # 0, subscribed PROVE Shown
    <3>1. conn \in Conns
      BY <2>2, ConnsAre DEF LinkInv, LinkTypeOK
    <3>2. Len(toBroker[conn]) = 0
      BY <3>1, EmptySeq DEF LinkQuiet
    <3>3. Opened(toBroker[conn], session = conn /\ subscribed, Shown)
      BY <2>2 DEF LinkInv, QueuesOK
    <3>4. ~(\E j \in 1..Len(toBroker[conn]) : toBroker[conn][j] = "online")
      BY <3>2
    <3> QED BY <2>1, <2>2, <3>3, <3>4 DEF Opened
  <2> QED BY <2>1, <2>2 DEF LinkInv
<1> QED BY <1>1, LinkStart, LinkInductive, PTL DEF LinkSpec
=============================================================================
