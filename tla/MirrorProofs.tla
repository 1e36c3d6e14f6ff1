---------------------------- MODULE MirrorProofs ----------------------------
(***************************************************************************)
(* Theorems about Mirror, for all device lists and any number of rounds,   *)
(* status messages, connections, restarts and handlers that run at a time: *)
(* unless a handler has overtaken one it has to follow, an application     *)
(* that has nothing left to do has what the broker retains.                *)
(***************************************************************************)
EXTENDS Mirror, SequenceTheorems, TLAPS

AllEvents == UNION {Events(s, t) : s, t \in Table}

Message ==
    {StatusMsg(b) : b \in BOOLEAN} \cup {DevicesMsg(t) : t \in Table}
        \cup {EventMsg(e) : e \in AllEvents}

MirrorTypeOK ==
    /\ list \in Table
    /\ toTell \subseteq AllEvents
    /\ DOMAIN retained = Topics
    /\ retained["event"] = <<>>
    /\ \A t \in Topics : \/ retained[t] = <<>>
                       \/ \E msg \in Message : retained[t] = <<msg>> /\ msg.topic = t
    /\ subscribed \subseteq Topics /\ toSubscribe \subseteq Topics
    /\ wire \in Seq(Message)
    /\ handlers \in Seq(Message)
    /\ store = [known |-> store.known, online |-> store.online, devices |-> store.devices]

\* The last message of the topics T in the queue q is msg; there is none.
LastIn(q, T, msg) ==
    \E n \in DOMAIN q : q[n] = msg /\ \A m \in DOMAIN q : n < m => q[m].topic \notin T
NoneIn(q, T) == \A n \in DOMAIN q : q[n].topic \notin T

\* Once the wire w and the handlers h are empty, msg is the last message of the
\* topics T that was handled; `shown` says that it is the last one already.  With
\* `late`, only that there is no later one to come.
Arrives(w, h, T, msg, shown, late) ==
    \/ LastIn(w, T, msg)
    \/ NoneIn(w, T) /\ (late \/ LastIn(h, T, msg))
    \/ NoneIn(w, T) /\ NoneIn(h, T) /\ shown

StatusComes(w, h, msg, s, o) ==
    Arrives(w, h, {"status"}, msg, s.online = msg.body, "status" \in o)

\* A snapshot that follows its events replaces what they did.
DevicesCome(w, h, msg, s, o) ==
    Arrives(w, h, {"devices", "event"}, msg, s.devices = msg.body, "devices" \in o)

StatusArrives ==
    "status" \in subscribed =>
        \A n \in DOMAIN retained["status"] :
            StatusComes(wire, handlers, retained["status"][n], store, overtaken)

DevicesArrive ==
    "devices" \in subscribed /\ ~midRound =>
        \A n \in DOMAIN retained["devices"] :
            DevicesCome(wire, handlers, retained["devices"][n], store, overtaken)

MirrorInv == MirrorTypeOK /\ StatusArrives /\ DevicesArrive

----------------------------------------------------------------------------
(* Queues.                                                                 *)

LEMMA Appended ==
    ASSUME NEW q \in Seq(Message), NEW msg \in Message
    PROVE  /\ Append(q, msg) \in Seq(Message)
           /\ DOMAIN Append(q, msg) = 1..Len(q) + 1 /\ DOMAIN q = 1..Len(q) /\ Len(q) \in Nat
           /\ \A n \in 1..Len(q) : Append(q, msg)[n] = q[n]
           /\ Append(q, msg)[Len(q) + 1] = msg
  OBVIOUS

LEMMA AppendedLast ==
    ASSUME NEW q \in Seq(Message), NEW msg \in Message, NEW T
    PROVE  LastIn(Append(q, msg), T, msg)
<1> DEFINE r == Append(q, msg)
<1>1. DOMAIN r = 1..Len(q) + 1 /\ Len(q) \in Nat /\ r[Len(q) + 1] = msg
  BY Appended
<1> HIDE DEF r
<1>2. \A m \in DOMAIN r : ~(Len(q) + 1 < m)
  BY <1>1
<1>3. LastIn(r, T, msg)
  BY <1>1, <1>2 DEF LastIn
<1> QED BY <1>3 DEF r

LEMMA AppendedOther ==
    ASSUME NEW q \in Seq(Message), NEW msg \in Message, NEW T, msg.topic \notin T, NEW x
    PROVE  /\ LastIn(q, T, x) => LastIn(Append(q, msg), T, x)
           /\ NoneIn(q, T) => NoneIn(Append(q, msg), T)
<1> DEFINE r == Append(q, msg)
<1>1. /\ DOMAIN r = 1..Len(q) + 1 /\ DOMAIN q = 1..Len(q) /\ Len(q) \in Nat
      /\ \A n \in 1..Len(q) : r[n] = q[n]
      /\ r[Len(q) + 1] = msg
  BY Appended
<1> HIDE DEF r
<1>2. \A n \in DOMAIN r : n \in DOMAIN q \/ r[n] = msg
  BY <1>1
<1>3. NoneIn(q, T) => NoneIn(r, T)
  BY <1>1, <1>2 DEF NoneIn
<1>4. ASSUME LastIn(q, T, x) PROVE LastIn(r, T, x)
  <2>1. PICK n \in DOMAIN q : q[n] = x /\ \A m \in DOMAIN q : n < m => q[m].topic \notin T
    BY <1>4 DEF LastIn
  <2>2. n \in DOMAIN r /\ r[n] = x
    BY <1>1, <2>1
  <2>3. \A m \in DOMAIN r : n < m => r[m].topic \notin T
    BY <1>1, <1>2, <2>1
  <2> QED BY <2>2, <2>3 DEF LastIn
<1> QED BY <1>3, <1>4 DEF r

LEMMA TakenOff ==
    ASSUME NEW q \in Seq(Message), q # <<>>, NEW T, NEW x
    PROVE  /\ Head(q) \in Message /\ Tail(q) \in Seq(Message)
           /\ LastIn(q, T, x) => LastIn(Tail(q), T, x) \/ (Head(q) = x /\ NoneIn(Tail(q), T))
           /\ NoneIn(q, T) => NoneIn(Tail(q), T) /\ Head(q).topic \notin T
<1> DEFINE r == Tail(q)
<1>1. /\ r \in Seq(Message) /\ DOMAIN r = 1..Len(q) - 1 /\ DOMAIN q = 1..Len(q)
      /\ Len(q) \in Nat \ {0}
      /\ \A n \in 1..Len(q) - 1 : r[n] = q[n + 1]
      /\ Head(q) = q[1] /\ q[1] \in Message
  OBVIOUS
<1> HIDE DEF r
<1>2. NoneIn(q, T) => NoneIn(r, T) /\ Head(q).topic \notin T
  <2>1. \A n \in DOMAIN r : n + 1 \in DOMAIN q /\ r[n] = q[n + 1]
    BY <1>1
  <2> QED BY <1>1, <2>1 DEF NoneIn
<1>3. ASSUME LastIn(q, T, x) PROVE LastIn(r, T, x) \/ (Head(q) = x /\ NoneIn(r, T))
  <2>1. PICK n \in DOMAIN q : q[n] = x /\ \A m \in DOMAIN q : n < m => q[m].topic \notin T
    BY <1>3 DEF LastIn
  <2>2. \A m \in DOMAIN r : n - 1 < m => r[m].topic \notin T
    <3>1. \A m \in DOMAIN r : m + 1 \in DOMAIN q /\ r[m] = q[m + 1] /\ (n - 1 < m => n < m + 1)
      BY <1>1
    <3> QED BY <2>1, <3>1
  <2>3. CASE n = 1
    <3>1. \A m \in DOMAIN r : n - 1 < m
      BY <1>1, <2>3
    <3> QED BY <1>1, <2>1, <2>2, <2>3, <3>1 DEF NoneIn
  <2>4. CASE n # 1
    <3>1. n - 1 \in DOMAIN r /\ r[n - 1] = x
      BY <1>1, <2>1, <2>4
    <3> QED BY <2>2, <3>1 DEF LastIn
  <2> QED BY <2>3, <2>4
<1> QED BY <1>1, <1>2, <1>3 DEF r

\* One leaves, the others close up.
LEMMA ClosingUp ==
    ASSUME NEW S, NEW s \in Seq(S), NEW i \in 1..Len(s)
    PROVE  /\ RemoveAt(s, i) \in Seq(S)
           /\ Len(RemoveAt(s, i)) = Len(s) - 1
           /\ \A n \in 1..Len(s) - 1 : RemoveAt(s, i)[n] = s[IF n < i THEN n ELSE n + 1]
<1> DEFINE a == SubSeq(s, 1, i - 1)
           b == SubSeq(s, i + 1, Len(s))
<1>1. Len(s) \in Nat /\ \A n \in 1..Len(s) : s[n] \in S
  BY ElementOfSeq, LenProperties
<1>2. /\ a \in Seq(S) /\ Len(a) = i - 1
      /\ \A n \in 1..i - 1 : a[n] = s[n]
  BY <1>1, SubSeqProperties
<1>3. /\ b \in Seq(S) /\ Len(b) = Len(s) - i
      /\ \A n \in 1..Len(s) - i : b[n] = s[i + n]
  BY <1>1, SubSeqProperties
<1> HIDE DEF a, b
<1>4. /\ a \o b \in Seq(S) /\ Len(a \o b) = Len(a) + Len(b)
      /\ \A n \in 1..Len(a) + Len(b) : (a \o b)[n] = IF n <= Len(a) THEN a[n] ELSE b[n - Len(a)]
  BY <1>2, <1>3, ConcatProperties
<1>5. RemoveAt(s, i) = a \o b
  BY DEF RemoveAt, a, b
<1>6. ASSUME NEW n \in 1..Len(s) - 1
      PROVE  (a \o b)[n] = s[IF n < i THEN n ELSE n + 1]
  <2>1. CASE n < i
    BY <1>1, <1>2, <1>3, <1>4, <2>1
  <2>2. CASE ~(n < i)
    <3>1. n - (i - 1) \in 1..Len(s) - i /\ i + (n - (i - 1)) = n + 1
      BY <1>1, <2>2
    <3>2. (a \o b)[n] = b[n - (i - 1)]
      BY <1>1, <1>2, <1>3, <1>4, <2>2
    <3> QED BY <1>3, <2>2, <3>1, <3>2
  <2> QED BY <2>1, <2>2
<1>7. Len(a \o b) = Len(s) - 1
  BY <1>1, <1>2, <1>3, <1>4
<1> QED BY <1>4, <1>5, <1>6, <1>7

LEMMA TakenOut ==
    ASSUME NEW q \in Seq(Message), NEW n \in 1..Len(q), NEW T, NEW x, x.topic \in T
    PROVE  /\ NoneIn(q, T) => NoneIn(RemoveAt(q, n), T) /\ q[n].topic \notin T
           /\ q[n].topic \notin T /\ LastIn(q, T, x) => LastIn(RemoveAt(q, n), T, x)
           /\ (q[n] = x => \A k \in 1..n - 1 : q[k].topic \notin T) =>
                 (q[n].topic \in T /\ LastIn(q, T, x) =>
                     LastIn(RemoveAt(q, n), T, x) \/ (q[n] = x /\ NoneIn(RemoveAt(q, n), T)))
<1> DEFINE r == RemoveAt(q, n)
<1>1. r \in Seq(Message) /\ Len(r) = Len(q) - 1 /\ Len(q) \in Nat
      /\ \A k \in 1..Len(q) - 1 : r[k] = q[IF k < n THEN k ELSE k + 1]
  BY ClosingUp, LenProperties
<1>2. DOMAIN r = 1..Len(q) - 1 /\ DOMAIN q = 1..Len(q)
  BY <1>1, LenProperties
<1> HIDE DEF r
<1>3. \A k \in DOMAIN r : \E m \in DOMAIN q : m # n /\ r[k] = q[m]
  BY <1>1, <1>2
<1>4. NoneIn(q, T) => NoneIn(r, T) /\ q[n].topic \notin T
  BY <1>2, <1>3 DEF NoneIn
<1>5. ASSUME NEW p \in DOMAIN q, q[p] = x, \A m \in DOMAIN q : p < m => q[m].topic \notin T,
             p # n
      PROVE  LastIn(r, T, x)
  <2> DEFINE k == IF p < n THEN p ELSE p - 1
  <2>2. p \in 1..Len(q) /\ n \in 1..Len(q)
    BY <1>2
  <2>3. k \in DOMAIN r /\ r[k] = x
    <3>1. k \in 1..Len(q) - 1 /\ (IF k < n THEN k ELSE k + 1) = p
      BY <1>1, <1>5, <2>2
    <3> HIDE DEF k
    <3> QED BY <1>1, <1>2, <1>5, <3>1
  <2>4. ASSUME NEW m \in DOMAIN r, k < m
        PROVE  r[m].topic \notin T
    <3> DEFINE l == IF m < n THEN m ELSE m + 1
    <3>1. m \in 1..Len(q) - 1
      BY <1>2
    <3>2. l \in 1..Len(q) /\ p < l
      BY <1>1, <1>5, <2>2, <2>4, <3>1
    <3>3. r[m] = q[l]
      BY <1>1, <3>1
    <3> HIDE DEF l
    <3> QED BY <1>2, <1>5, <3>2, <3>3
  <2> HIDE DEF k
  <2> QED BY <2>3, <2>4 DEF LastIn
<1>6. ASSUME q[n].topic \notin T, LastIn(q, T, x)
      PROVE  LastIn(r, T, x)
  BY <1>5, <1>6 DEF LastIn
<1>7. ASSUME q[n].topic \in T, LastIn(q, T, x), q[n] = x => \A k \in 1..n - 1 : q[k].topic \notin T
      PROVE  LastIn(r, T, x) \/ (q[n] = x /\ NoneIn(r, T))
  <2>1. PICK p \in DOMAIN q : q[p] = x /\ \A m \in DOMAIN q : p < m => q[m].topic \notin T
    BY <1>7 DEF LastIn
  <2>2. CASE p # n
    BY <1>5, <2>1, <2>2
  <2>3. CASE p = n
    <3>1. \A m \in DOMAIN q : m # n => q[m].topic \notin T
      <4>1. \A m \in DOMAIN q : m \in 1..n - 1 \/ m = n \/ n < m
        BY <1>1, <1>2
      <4> QED BY <1>7, <2>1, <2>3, <4>1
    <3>2. NoneIn(r, T)
      BY <1>3, <3>1 DEF NoneIn
    <3> QED BY <2>1, <2>3, <3>2
  <2> QED BY <2>2, <2>3
<1> QED BY <1>4, <1>6, <1>7 DEF r

LEMMA Nothing == \A T, x : ~LastIn(<<>>, T, x) /\ NoneIn(<<>>, T)
  BY DEF LastIn, NoneIn

LEMMA Typed ==
    /\ \A b \in BOOLEAN : StatusMsg(b) \in Message /\ StatusMsg(b).topic = "status"
    /\ \A t \in Table : DevicesMsg(t) \in Message /\ DevicesMsg(t).topic = "devices"
    /\ \A e \in AllEvents : EventMsg(e) \in Message /\ EventMsg(e).topic = "event"
    /\ \A msg \in Message : msg.topic \in Topics
<1>1. \A b : StatusMsg(b).topic = "status"
  BY DEF StatusMsg
<1>2. \A t : DevicesMsg(t).topic = "devices"
  BY DEF DevicesMsg
<1>3. \A e : EventMsg(e).topic = "event"
  BY DEF EventMsg
<1>4. \A msg \in Message : \/ \E b \in BOOLEAN : msg = StatusMsg(b)
                           \/ \E t \in Table : msg = DevicesMsg(t)
                           \/ \E e \in AllEvents : msg = EventMsg(e)
  BY Zenon DEF Message
<1>5. /\ \A b \in BOOLEAN : StatusMsg(b) \in Message
      /\ \A t \in Table : DevicesMsg(t) \in Message
      /\ \A e \in AllEvents : EventMsg(e) \in Message
  BY Zenon DEF Message
<1>6. \A msg \in Message : msg.topic \in Topics
  BY <1>1, <1>2, <1>3, <1>4, Zenon DEF Topics
<1> QED BY <1>1, <1>2, <1>3, <1>5, <1>6

----------------------------------------------------------------------------
(* What happens to Arrives.                                                *)

\* The broker passes a message on.
LEMMA ArrivesAppended ==
    ASSUME NEW w \in Seq(Message), NEW h, NEW msg \in Message, NEW T, NEW x,
           NEW shown \in BOOLEAN, NEW late \in BOOLEAN,
           \/ msg.topic \in T /\ msg = x
           \/ msg.topic \notin T /\ Arrives(w, h, T, x, shown, late)
    PROVE  Arrives(Append(w, msg), h, T, x, shown, late)
  BY AppendedLast, AppendedOther DEF Arrives

\* The client takes a message off the wire and starts its handler: one of the
\* topics T makes good what came to the store late.
LEMMA ArrivesReceived ==
    ASSUME NEW w \in Seq(Message), w # <<>>, NEW q \in Seq(Message),
           NEW T, NEW x, NEW shown \in BOOLEAN, NEW late \in BOOLEAN, NEW later \in BOOLEAN,
           Arrives(w, q, T, x, shown, late),
           late /\ Head(w).topic \notin T => later
    PROVE  Arrives(Tail(w), Append(q, Head(w)), T, x, shown, later)
<1> DEFINE h == Append(q, Head(w))
<1>1. /\ Head(w) \in Message
      /\ LastIn(w, T, x) => LastIn(Tail(w), T, x) \/ (Head(w) = x /\ NoneIn(Tail(w), T))
      /\ NoneIn(w, T) => NoneIn(Tail(w), T) /\ Head(w).topic \notin T
  BY TakenOff
<1>2. Head(w) = x => LastIn(h, T, x)
  BY <1>1, AppendedLast
<1>3. Head(w).topic \notin T => /\ LastIn(q, T, x) => LastIn(h, T, x)
                                /\ NoneIn(q, T) => NoneIn(h, T)
  BY <1>1, AppendedOther
<1> HIDE DEF h
<1>4. Arrives(Tail(w), h, T, x, shown, later)
  BY <1>1, <1>2, <1>3 DEF Arrives
<1> QED BY <1>4 DEF h

\* A handler comes to the store: it has none before it that x has to follow, or
\* it is known to be late.
LEMMA ArrivesHandled ==
    ASSUME NEW w, NEW q \in Seq(Message), NEW n \in 1..Len(q), NEW T, NEW x, x.topic \in T,
           NEW shown \in BOOLEAN, NEW after \in BOOLEAN,
           NEW late \in BOOLEAN, NEW later \in BOOLEAN,
           Arrives(w, q, T, x, shown, late),
           late => later,
           later \/ (q[n] = x => \A k \in 1..n - 1 : q[k].topic \notin T),
           q[n] = x => after,
           q[n].topic \notin T /\ shown => after
    PROVE  Arrives(w, RemoveAt(q, n), T, x, after, later)
<1> DEFINE r == RemoveAt(q, n)
<1>1. /\ NoneIn(q, T) => NoneIn(r, T) /\ q[n].topic \notin T
      /\ q[n].topic \notin T /\ LastIn(q, T, x) => LastIn(r, T, x)
      /\ (q[n] = x => \A k \in 1..n - 1 : q[k].topic \notin T) =>
            (q[n].topic \in T /\ LastIn(q, T, x) =>
                LastIn(r, T, x) \/ (q[n] = x /\ NoneIn(r, T)))
  BY TakenOut
<1> HIDE DEF r
<1>2. Arrives(w, r, T, x, after, later)
  <2>1. CASE later
    BY <2>1 DEF Arrives
  <2>2. CASE ~later
    BY <1>1, <2>2 DEF Arrives
  <2> QED BY <2>1, <2>2
<1> QED BY <1>2 DEF r

\* The same, of the two topics that are retained.
LEMMA ComesAppended ==
    ASSUME NEW w \in Seq(Message), NEW h, NEW msg \in Message, NEW x, NEW s, NEW o
    PROVE  /\ (IF msg.topic = "status" THEN msg = x ELSE StatusComes(w, h, x, s, o))
                => StatusComes(Append(w, msg), h, x, s, o)
           /\ (IF msg.topic = "status" THEN DevicesCome(w, h, x, s, o)
               ELSE msg.topic = "devices" /\ msg = x)
                => DevicesCome(Append(w, msg), h, x, s, o)
<1>1. (IF msg.topic = "status" THEN msg = x ELSE StatusComes(w, h, x, s, o))
        => StatusComes(Append(w, msg), h, x, s, o)
  <2> DEFINE shown == s.online = x.body
             late == "status" \in o
  <2>1. shown \in BOOLEAN /\ late \in BOOLEAN
    OBVIOUS
  <2> HIDE DEF shown, late
  <2>2. (msg.topic \in {"status"} /\ msg = x)
            \/ (msg.topic \notin {"status"} /\ Arrives(w, h, {"status"}, x, shown, late))
          => Arrives(Append(w, msg), h, {"status"}, x, shown, late)
    BY <2>1, ArrivesAppended
  <2> QED BY <2>2 DEF StatusComes, shown, late
<1>2. (IF msg.topic = "status" THEN DevicesCome(w, h, x, s, o)
       ELSE msg.topic = "devices" /\ msg = x)
        => DevicesCome(Append(w, msg), h, x, s, o)
  <2> DEFINE shown == s.devices = x.body
             late == "devices" \in o
             T == {"devices", "event"}
  <2>1. shown \in BOOLEAN /\ late \in BOOLEAN
    OBVIOUS
  <2>2. "devices" \in T /\ "status" \notin T
    OBVIOUS
  <2> HIDE DEF shown, late
  <2>3. (msg.topic \in T /\ msg = x) \/ (msg.topic \notin T /\ Arrives(w, h, T, x, shown, late))
          => Arrives(Append(w, msg), h, T, x, shown, late)
    <3> HIDE DEF T
    <3> QED BY <2>1, ArrivesAppended
  <2> QED BY <2>2, <2>3 DEF DevicesCome, shown, late
<1> QED BY <1>1, <1>2

----------------------------------------------------------------------------
(* The actions.                                                            *)

LEMMA Retained ==
    ASSUME MirrorTypeOK, NEW t \in Topics
    PROVE  /\ retained[t] = <<>> \/ \E msg \in Message : retained[t] = <<msg>> /\ msg.topic = t
           /\ \A n \in DOMAIN retained[t] : /\ retained[t] = <<retained[t][n]>>
                                            /\ retained[t][n] \in Message
                                            /\ retained[t][n].topic = t
<1>1. retained[t] = <<>> \/ \E msg \in Message : retained[t] = <<msg>> /\ msg.topic = t
  BY DEF MirrorTypeOK
<1>2. CASE retained[t] = <<>>
  BY <1>2
<1>3. ASSUME NEW msg \in Message, retained[t] = <<msg>> /\ msg.topic = t
      PROVE  \A n \in DOMAIN retained[t] : /\ retained[t] = <<retained[t][n]>>
                                           /\ retained[t][n] \in Message
                                           /\ retained[t][n].topic = t
  <2>1. DOMAIN retained[t] = {1} /\ retained[t][1] = msg
    BY <1>3
  <2> QED BY <1>3, <2>1
<1> QED BY <1>1, <1>2, <1>3

\* The router's own steps do not touch what the broker and the application have.
LEMMA StepOfRouter ==
    ASSUME MirrorInv, list' \in Table, toTell' \subseteq AllEvents,
           UNCHANGED <<retained, midRound, appSide>>
    PROVE  MirrorInv'
  BY DEF MirrorInv, MirrorTypeOK, StatusArrives, DevicesArrive, appSide

LEMMA StepNewRound ==
    ASSUME MirrorInv, NewRound, Tables \subseteq Table
    PROVE  MirrorInv'
<1>1. PICK table \in Tables : /\ list' = table
                              /\ toTell' = IF firstRun THEN {} ELSE Events(list, table)
  BY DEF NewRound
<1>2. list \in Table /\ table \in Table
  BY DEF MirrorInv, MirrorTypeOK
<1>3. toTell' \subseteq AllEvents
  BY <1>1, <1>2 DEF AllEvents
<1>4. UNCHANGED <<retained, midRound, appSide>>
  BY DEF NewRound
<1> QED BY <1>1, <1>2, <1>3, <1>4, StepOfRouter

LEMMA StepRouterDies ==
    ASSUME MirrorInv, RouterDies
    PROVE  MirrorInv'
<1>1. list' \in Table /\ toTell' \subseteq AllEvents
  BY DEF RouterDies, EmptyTable, Table
<1>2. UNCHANGED <<retained, midRound, appSide>>
  BY DEF RouterDies
<1> QED BY <1>1, <1>2, StepOfRouter

\* A message comes in: what it takes the place of is no longer the last.
LEMMA StepIncoming ==
    ASSUME MirrorInv, NEW msg \in Message, Incoming(msg),
           list' \in Table, toTell' \subseteq AllEvents,
           msg.topic = "status" => midRound' = midRound,
           msg.topic = "event" => midRound'
    PROVE  MirrorInv'
<1>1. /\ retained' = IF msg.topic = "event" THEN retained
                     ELSE [retained EXCEPT ![msg.topic] = <<msg>>]
      /\ wire' = IF msg.topic \in subscribed THEN Append(wire, msg) ELSE wire
      /\ UNCHANGED <<connected, toSubscribe, subscribed, refused, handlers, store, overtaken>>
  BY DEF Incoming
<1>2. /\ wire \in Seq(Message) /\ DOMAIN retained = Topics
      /\ subscribed \subseteq Topics
      /\ msg.topic \in Topics
  BY Typed DEF MirrorInv, MirrorTypeOK
<1>3. Append(wire, msg) \in Seq(Message)
  BY <1>2, Appended
<1>4. /\ DOMAIN retained' = Topics
      /\ \A t \in Topics : retained'[t] = IF t = msg.topic /\ t # "event" THEN <<msg>> ELSE retained[t]
  BY <1>1, <1>2
<1>5. MirrorTypeOK'
  <2>1. \A t \in Topics : \/ retained'[t] = <<>>
                          \/ \E m \in Message : retained'[t] = <<m>> /\ m.topic = t
    BY <1>4, Retained DEF MirrorInv
  <2>2. retained'["event"] = <<>>
    BY <1>4 DEF MirrorInv, MirrorTypeOK, Topics
  <2> QED BY <1>1, <1>2, <1>3, <1>4, <2>1, <2>2 DEF MirrorInv, MirrorTypeOK
<1>6. StatusArrives'
  <2> SUFFICES ASSUME "status" \in subscribed, NEW n \in DOMAIN retained'["status"]
               PROVE  StatusComes(wire', handlers, retained'["status"][n], store, overtaken)
    BY <1>1 DEF StatusArrives
  <2>1. CASE msg.topic = "status"
    <3>1. retained'["status"] = <<msg>>
      BY <1>2, <1>4, <2>1
    <3>2. retained'["status"][n] = msg
      BY <3>1
    <3>3. wire' = Append(wire, msg)
      BY <1>1, <2>1
    <3> QED BY <1>2, <2>1, <3>2, <3>3, ComesAppended
  <2>2. CASE msg.topic # "status"
    <3>1. retained'["status"] = retained["status"]
      BY <1>4, <2>2 DEF Topics
    <3>2. StatusComes(wire, handlers, retained["status"][n], store, overtaken)
      BY <3>1 DEF MirrorInv, StatusArrives
    <3> QED BY <1>1, <1>2, <2>2, <3>1, <3>2, ComesAppended
  <2> QED BY <2>1, <2>2
<1>7. DevicesArrive'
  <2> SUFFICES ASSUME "devices" \in subscribed, ~midRound', NEW n \in DOMAIN retained'["devices"]
               PROVE  DevicesCome(wire', handlers, retained'["devices"][n], store, overtaken)
    BY <1>1 DEF DevicesArrive
  <2>1. CASE msg.topic = "devices"
    <3>1. retained'["devices"] = <<msg>>
      BY <1>2, <1>4, <2>1
    <3>2. retained'["devices"][n] = msg
      BY <3>1
    <3>3. wire' = Append(wire, msg)
      BY <1>1, <2>1
    <3> QED BY <1>2, <2>1, <3>2, <3>3, ComesAppended
  <2>2. CASE msg.topic = "status"
    <3>1. retained'["devices"] = retained["devices"] /\ ~midRound
      BY <1>4, <2>2 DEF Topics
    <3>2. DevicesCome(wire, handlers, retained["devices"][n], store, overtaken)
      BY <3>1 DEF MirrorInv, DevicesArrive
    <3> QED BY <1>1, <1>2, <2>2, <3>1, <3>2, ComesAppended
  <2> QED BY <1>2, <2>1, <2>2 DEF Topics
<1> QED BY <1>5, <1>6, <1>7 DEF MirrorInv

LEMMA StepPublishes ==
    ASSUME MirrorInv, PublishEvent \/ PublishSnapshot \/ PublishStatus
    PROVE  MirrorInv'
<1>1. list \in Table /\ toTell \subseteq AllEvents
  BY DEF MirrorInv, MirrorTypeOK
<1>2. CASE PublishEvent
  <2>1. PICK e \in toTell : Incoming(EventMsg(e)) /\ toTell' = toTell \ {e}
    BY <1>2 DEF PublishEvent
  <2>2. EventMsg(e) \in Message /\ EventMsg(e).topic = "event"
    BY <1>1, Typed
  <2>3. list' \in Table /\ toTell' \subseteq AllEvents /\ midRound'
    BY <1>1, <1>2, <2>1 DEF PublishEvent
  <2> QED BY <2>1, <2>2, <2>3, StepIncoming
<1>3. CASE PublishSnapshot
  <2>1. DevicesMsg(list) \in Message /\ DevicesMsg(list).topic = "devices"
    BY <1>1, Typed
  <2>2. list' \in Table /\ toTell' \subseteq AllEvents /\ Incoming(DevicesMsg(list))
    BY <1>1, <1>3 DEF PublishSnapshot
  <2> QED BY <2>1, <2>2, StepIncoming
<1>4. CASE PublishStatus
  <2>1. PICK b \in BOOLEAN : Incoming(StatusMsg(b))
    BY <1>4 DEF PublishStatus
  <2>2. StatusMsg(b) \in Message /\ StatusMsg(b).topic = "status"
    BY Typed
  <2>3. list' \in Table /\ toTell' \subseteq AllEvents /\ midRound' = midRound
    BY <1>1, <1>4 DEF PublishStatus, routerSide
  <2> QED BY <2>1, <2>2, <2>3, StepIncoming
<1> QED BY <1>2, <1>3, <1>4

\* A session that is not there has no subscription to make good.
LEMMA StepSessions ==
    ASSUME MirrorInv, Connect \/ ConnectionLost \/ AppRestart
    PROVE  MirrorInv'
<1>1. CASE Connect
  <2>1. UNCHANGED <<routerSide, retained, midRound, subscribed, wire, handlers, store,
                  overtaken>>
    BY <1>1 DEF Connect
  <2>2. toSubscribe' \subseteq Topics
    BY <1>1 DEF Connect
  <2> QED BY <2>1, <2>2 DEF MirrorInv, MirrorTypeOK, StatusArrives, DevicesArrive, routerSide
<1>2. CASE ConnectionLost
  <2>1. /\ UNCHANGED <<routerSide, retained, midRound, handlers, store, overtaken>>
        /\ subscribed' = {} /\ toSubscribe' = {} /\ wire' = <<>>
    BY <1>2 DEF ConnectionLost
  <2>2. MirrorTypeOK'
    BY <2>1 DEF MirrorInv, MirrorTypeOK, routerSide
  <2> QED BY <2>1, <2>2 DEF MirrorInv, StatusArrives, DevicesArrive
<1>3. CASE AppRestart
  <2>1. /\ UNCHANGED <<routerSide, retained, midRound>>
        /\ subscribed' = {} /\ toSubscribe' = {} /\ wire' = <<>> /\ handlers' = <<>>
        /\ store' = NoRouter
    BY <1>3 DEF AppRestart
  <2>2. MirrorTypeOK'
    BY <2>1 DEF MirrorInv, MirrorTypeOK, routerSide, NoRouter
  <2> QED BY <2>1, <2>2 DEF MirrorInv, StatusArrives, DevicesArrive
<1> QED BY <1>1, <1>2, <1>3

\* A new subscription gets what is retained, behind all that is on its way.
LEMMA StepSubscribe ==
    ASSUME MirrorInv, Subscribe
    PROVE  MirrorInv'
<1>1. PICK t \in toSubscribe :
        /\ toSubscribe' = toSubscribe \ {t}
        /\ \/ subscribed' = subscribed \cup {t} /\ wire' = wire \o retained[t]
           \/ UNCHANGED <<subscribed, wire>>
  BY DEF Subscribe
<1>2. UNCHANGED <<routerSide, retained, midRound, handlers, store, overtaken>>
  BY DEF Subscribe
<1>3. /\ t \in Topics /\ toSubscribe' \subseteq Topics /\ wire \in Seq(Message)
      /\ subscribed \subseteq Topics
  BY <1>1 DEF MirrorInv, MirrorTypeOK
<1>4. CASE UNCHANGED <<subscribed, wire>>
  BY <1>2, <1>3, <1>4 DEF MirrorInv, MirrorTypeOK, StatusArrives, DevicesArrive, routerSide
<1>5. CASE subscribed' = subscribed \cup {t} /\ wire' = wire \o retained[t]
  <2>1. CASE retained[t] = <<>>
    <3>1. wire' = wire
      BY <1>3, <1>5, <2>1
    <3>2. DOMAIN retained[t] = {}
      BY <2>1
    <3>3. MirrorTypeOK'
      BY <1>2, <1>3, <1>5, <3>1 DEF MirrorInv, MirrorTypeOK, routerSide
    <3>4. StatusArrives'
      BY <1>2, <1>5, <3>1, <3>2 DEF MirrorInv, StatusArrives
    <3>5. DevicesArrive'
      BY <1>2, <1>5, <3>1, <3>2 DEF MirrorInv, DevicesArrive
    <3> QED BY <3>3, <3>4, <3>5 DEF MirrorInv
  <2>2. ASSUME NEW msg \in Message, retained[t] = <<msg>> /\ msg.topic = t
        PROVE  MirrorInv'
    <3>1. wire' = Append(wire, msg)
      <4>1. wire \o <<msg>> = Append(wire, msg)
        BY <1>3
      <4> QED BY <1>5, <2>2, <4>1
    <3>2. wire' \in Seq(Message)
      BY <1>3, <3>1, Appended
    <3>3. t # "event"
      <4>1. <<msg>> # <<>>
        OBVIOUS
      <4>2. retained["event"] = <<>>
        BY DEF MirrorInv, MirrorTypeOK
      <4> QED BY <2>2, <4>1, <4>2
    <3>4. \A n \in DOMAIN retained[t] : retained[t][n] = msg
      BY <2>2
    <3>5. MirrorTypeOK'
      BY <1>2, <1>3, <1>5, <3>2 DEF MirrorInv, MirrorTypeOK, routerSide
    <3>6. StatusArrives'
      <4> SUFFICES ASSUME "status" \in subscribed', NEW n \in DOMAIN retained["status"]
                   PROVE  StatusComes(wire', handlers, retained["status"][n], store, overtaken)
        BY <1>2 DEF StatusArrives
      <4>1. CASE t = "status"
        BY <1>3, <2>2, <3>1, <3>4, <4>1, ComesAppended
      <4>2. CASE t # "status"
        <5>1. StatusComes(wire, handlers, retained["status"][n], store, overtaken)
          BY <1>5, <4>2 DEF MirrorInv, StatusArrives
        <5> QED BY <1>3, <2>2, <3>1, <4>2, <5>1, ComesAppended
      <4> QED BY <4>1, <4>2
    <3>7. DevicesArrive'
      <4> SUFFICES ASSUME "devices" \in subscribed', ~midRound, NEW n \in DOMAIN retained["devices"]
                   PROVE  DevicesCome(wire', handlers, retained["devices"][n], store, overtaken)
        BY <1>2 DEF DevicesArrive
      <4>1. CASE t = "devices"
        BY <1>3, <2>2, <3>1, <3>4, <4>1, ComesAppended
      <4>2. CASE t = "status"
        <5>1. DevicesCome(wire, handlers, retained["devices"][n], store, overtaken)
          BY <1>5, <4>2 DEF MirrorInv, DevicesArrive
        <5> QED BY <1>3, <2>2, <3>1, <4>2, <5>1, ComesAppended
      <4> QED BY <1>3, <3>3, <4>1, <4>2 DEF Topics
    <3> QED BY <3>5, <3>6, <3>7 DEF MirrorInv
  <2> QED BY <1>3, <2>1, <2>2, Retained DEF MirrorInv
<1> QED BY <1>1, <1>4, <1>5

LEMMA StepReceive ==
    ASSUME MirrorInv, Receive
    PROVE  MirrorInv'
<1>1. /\ wire # <<>> /\ handlers' = Append(handlers, Head(wire)) /\ wire' = Tail(wire)
      /\ UNCHANGED <<routerSide, retained, midRound, toSubscribe, subscribed, store>>
  BY DEF Receive
<1>2. wire \in Seq(Message) /\ handlers \in Seq(Message)
  BY DEF MirrorInv, MirrorTypeOK
<1>3. Append(handlers, Head(wire)) \in Seq(Message)
  BY <1>1, <1>2, TakenOff, Appended
<1>4. Head(wire) \in Message /\ Tail(wire) \in Seq(Message)
  BY <1>1, <1>2, TakenOff
<1>5. MirrorTypeOK'
  BY <1>1, <1>3, <1>4 DEF MirrorInv, MirrorTypeOK, routerSide
<1>6. /\ "status" \in overtaken /\ Head(wire).topic # "status" => "status" \in overtaken'
      /\ "devices" \in overtaken /\ Head(wire).topic = "status" => "devices" \in overtaken'
  BY DEF Receive, Part
<1>7. StatusArrives'
  <2> SUFFICES ASSUME "status" \in subscribed, NEW n \in DOMAIN retained["status"]
               PROVE  StatusComes(wire', handlers', retained["status"][n], store, overtaken')
    BY <1>1 DEF StatusArrives
  <2> DEFINE x == retained["status"][n]
             shown == store.online = x.body
             T == {"status"}
             late == "status" \in overtaken
             later == "status" \in overtaken'
  <2>1. /\ Arrives(wire, handlers, T, x, shown, late)
        /\ shown \in BOOLEAN /\ late \in BOOLEAN /\ later \in BOOLEAN
        /\ late /\ Head(wire).topic \notin T => later
    BY <1>1, <1>4, <1>6, Typed DEF MirrorInv, StatusArrives, StatusComes, Topics
  <2>2. Arrives(wire', handlers', T, x, shown, later)
    <3> HIDE DEF x, T, shown, late, later
    <3> QED BY <1>1, <1>2, <2>1, ArrivesReceived
  <2> QED BY <2>2 DEF StatusComes
<1>8. DevicesArrive'
  <2> SUFFICES ASSUME "devices" \in subscribed, ~midRound, NEW n \in DOMAIN retained["devices"]
               PROVE  DevicesCome(wire', handlers', retained["devices"][n], store, overtaken')
    BY <1>1 DEF DevicesArrive
  <2> DEFINE x == retained["devices"][n]
             shown == store.devices = x.body
             T == {"devices", "event"}
             late == "devices" \in overtaken
             later == "devices" \in overtaken'
  <2>1. /\ Arrives(wire, handlers, T, x, shown, late)
        /\ shown \in BOOLEAN /\ late \in BOOLEAN /\ later \in BOOLEAN
        /\ late /\ Head(wire).topic \notin T => later
    BY <1>1, <1>4, <1>6, Typed DEF MirrorInv, DevicesArrive, DevicesCome, Topics
  <2>2. Arrives(wire', handlers', T, x, shown, later)
    <3> HIDE DEF x, T, shown, late, later
    <3> QED BY <1>1, <1>2, <2>1, ArrivesReceived
  <2> QED BY <2>2 DEF DevicesCome
<1> QED BY <1>5, <1>7, <1>8 DEF MirrorInv

\* The handler writes what its message says and leaves the rest of the store.
LEMMA StepHandle ==
    ASSUME MirrorInv, Handle
    PROVE  MirrorInv'
<1> DEFINE Written(msg) == CASE msg.topic = "status"  -> SetOnline(msg.body)
                             [] msg.topic = "devices" -> ReplaceDevices(msg.body)
                             [] msg.topic = "event"   -> ApplyEvent(msg.body)
<1>1. PICK n \in DOMAIN handlers :
        /\ store' = Written(handlers[n]) /\ handlers' = RemoveAt(handlers, n)
        /\ overtaken' = IF \E k \in 1..n - 1 : Follows(handlers[n], handlers[k])
                        THEN overtaken \cup {Part(handlers[n])} ELSE overtaken
  BY DEF Handle
<1> HIDE DEF Written
<1> DEFINE h == handlers[n]
<1>2. /\ handlers \in Seq(Message)
      /\ store = [known |-> store.known, online |-> store.online, devices |-> store.devices]
  BY DEF MirrorInv, MirrorTypeOK
<1>3. n \in 1..Len(handlers) /\ h \in Message
  BY <1>1, <1>2, LenProperties, ElementOfSeq
<1>4. RemoveAt(handlers, n) \in Seq(Message)
  BY <1>2, <1>3, ClosingUp
<1>5. UNCHANGED <<routerSide, retained, midRound, toSubscribe, subscribed, wire>>
  BY DEF Handle
<1>6. h.topic \in Topics
  BY <1>3, Typed
<1>7. /\ h.topic = "status" => store' = SetOnline(h.body)
      /\ h.topic = "devices" => store' = ReplaceDevices(h.body)
      /\ h.topic = "event" => store' = ApplyEvent(h.body)
  <2>1. store' = Written(h)
    BY <1>1
  <2> HIDE DEF h
  <2>2. "status" # "devices" /\ "status" # "event" /\ "devices" # "event"
    OBVIOUS
  <2> QED BY <2>1, <2>2, Zenon DEF Written
<1> HIDE DEF h
<1>8. /\ store' = [known |-> store'.known, online |-> store'.online, devices |-> store'.devices]
      /\ h.topic = "status" => store'.online = h.body /\ store'.devices = store.devices
      /\ h.topic = "devices" => store'.devices = h.body
      /\ h.topic # "status" => store'.online = store.online
  <2>1. CASE h.topic = "status"
    <3>1. store' = [known |-> TRUE, online |-> h.body, devices |-> store.devices]
      BY <1>2, <1>7, <2>1 DEF SetOnline
    <3> QED BY <2>1, <3>1
  <2>2. CASE h.topic = "devices"
    <3>1. store' = [known |-> TRUE, online |-> store.online, devices |-> h.body]
      BY <1>2, <1>7, <2>2 DEF ReplaceDevices
    <3> QED BY <2>2, <3>1
  <2>3. CASE h.topic = "event"
    <3>1. \/ store' = store
          \/ \E d : store' = [known |-> TRUE, online |-> store.online, devices |-> d]
      <4>1. store' = ApplyEvent(h.body)
        BY <1>7, <2>3
      <4>2. store' \in {store, [store EXCEPT !.known = TRUE,
                                           !.devices = ApplyEvents(store.devices, {h.body})]}
        BY <4>1 DEF ApplyEvent
      <4>3. ASSUME NEW d, store' = [store EXCEPT !.known = TRUE, !.devices = d]
            PROVE  store' = [known |-> TRUE, online |-> store.online, devices |-> d]
        BY <1>2, <4>3
      <4> QED BY <4>2, <4>3
    <3> QED BY <1>2, <2>3, <3>1
  <2> QED BY <1>6, <2>1, <2>2, <2>3 DEF Topics
<1>9. MirrorTypeOK'
  BY <1>1, <1>4, <1>5, <1>8 DEF MirrorInv, MirrorTypeOK, routerSide
<1>10. StatusArrives'
  <2> SUFFICES ASSUME "status" \in subscribed, NEW m \in DOMAIN retained["status"]
               PROVE  StatusComes(wire, RemoveAt(handlers, n), retained["status"][m], store', overtaken')
    BY <1>1, <1>5 DEF StatusArrives
  <2> DEFINE x == retained["status"][m]
             shown == store.online = x.body
             after == store'.online = x.body
             T == {"status"}
             late == "status" \in overtaken
             later == "status" \in overtaken'
  <2>1. /\ Arrives(wire, handlers, T, x, shown, late)
        /\ shown \in BOOLEAN /\ after \in BOOLEAN /\ late \in BOOLEAN /\ later \in BOOLEAN
    BY DEF MirrorInv, StatusArrives, StatusComes
  <2>2. x.topic = "status"
    BY Retained DEF MirrorInv, Topics
  <2>3. x.topic \in T /\ (h = x => after) /\ (h.topic \notin T /\ shown => after)
    BY <1>6, <1>8, <2>2 DEF Topics
  <2>4. /\ late => later
        /\ later \/ (handlers[n] = x => \A k \in 1..n - 1 : handlers[k].topic \notin T)
    BY <1>1, <2>2 DEF Follows, Part
  <2>5. Arrives(wire, RemoveAt(handlers, n), T, x, after, later)
    <3>1. (handlers[n] = x => after) /\ (handlers[n].topic \notin T /\ shown => after)
      BY <2>3 DEF h
    <3> HIDE DEF x, T, shown, after, late, later
    <3> QED BY <1>2, <1>3, <2>1, <2>3, <2>4, <3>1, ArrivesHandled
  <2> QED BY <2>5 DEF StatusComes
<1>11. DevicesArrive'
  <2> SUFFICES ASSUME "devices" \in subscribed, ~midRound, NEW m \in DOMAIN retained["devices"]
               PROVE  DevicesCome(wire, RemoveAt(handlers, n), retained["devices"][m], store', overtaken')
    BY <1>1, <1>5 DEF DevicesArrive
  <2> DEFINE x == retained["devices"][m]
             shown == store.devices = x.body
             after == store'.devices = x.body
             T == {"devices", "event"}
             late == "devices" \in overtaken
             later == "devices" \in overtaken'
  <2>1. /\ Arrives(wire, handlers, T, x, shown, late)
        /\ shown \in BOOLEAN /\ after \in BOOLEAN /\ late \in BOOLEAN /\ later \in BOOLEAN
    BY DEF MirrorInv, DevicesArrive, DevicesCome
  <2>2. x.topic = "devices"
    BY Retained DEF MirrorInv, Topics
  <2>3. x.topic \in T /\ (h = x => after) /\ (h.topic \notin T /\ shown => after)
    BY <1>6, <1>8, <2>2 DEF Topics
  <2>4. /\ late => later
        /\ later \/ (handlers[n] = x => \A k \in 1..n - 1 : handlers[k].topic \notin T)
    BY <1>1, <2>2 DEF Follows, Part
  <2>5. Arrives(wire, RemoveAt(handlers, n), T, x, after, later)
    <3>1. (handlers[n] = x => after) /\ (handlers[n].topic \notin T /\ shown => after)
      BY <2>3 DEF h
    <3> HIDE DEF x, T, shown, after, late, later
    <3> QED BY <1>2, <1>3, <2>1, <2>3, <2>4, <3>1, ArrivesHandled
  <2> QED BY <2>5 DEF DevicesCome
<1> QED BY <1>9, <1>10, <1>11 DEF MirrorInv

----------------------------------------------------------------------------

LEMMA MirrorBegins == MirrorInit => MirrorInv
<1> SUFFICES ASSUME MirrorInit PROVE MirrorInv
  OBVIOUS
<1>1. /\ list \in Table /\ toTell \subseteq AllEvents
      /\ DOMAIN retained = Topics /\ \A t \in Topics : retained[t] = <<>>
      /\ subscribed = {} /\ toSubscribe = {} /\ wire = <<>> /\ handlers = <<>>
  BY DEF MirrorInit, EmptyTable, Table
<1>2. store = [known |-> store.known, online |-> store.online, devices |-> store.devices]
  BY DEF MirrorInit, NoRouter
<1>3. wire \in Seq(Message) /\ handlers \in Seq(Message)
  BY <1>1
<1>4. retained["event"] = <<>>
  BY <1>1 DEF Topics
<1> QED BY <1>1, <1>2, <1>3, <1>4 DEF MirrorInv, MirrorTypeOK, StatusArrives, DevicesArrive

LEMMA MirrorIdles == MirrorInv => MirrorAccurate
<1> SUFFICES ASSUME MirrorInv, Idle PROVE
        /\ "status" \in subscribed \ overtaken =>
              \A n \in DOMAIN retained["status"] : store.online = retained["status"][n].body
        /\ "devices" \in subscribed \ overtaken /\ ~midRound =>
              \A n \in DOMAIN retained["devices"] : store.devices = retained["devices"][n].body
  BY DEF MirrorAccurate
<1>1. wire = <<>> /\ handlers = <<>>
  BY DEF Idle
<1> QED BY <1>1, Nothing
        DEF MirrorInv, StatusArrives, DevicesArrive, StatusComes, DevicesCome, Arrives

LEMMA MirrorKept == MirrorInv /\ [MirrorNext]_mirrorVars => MirrorInv'
<1> SUFFICES ASSUME MirrorInv, [MirrorNext]_mirrorVars PROVE MirrorInv'
  OBVIOUS
<1>1. Tables \subseteq Table
  BY MirrorAssumption
<1>2. CASE UNCHANGED mirrorVars
  BY <1>2 DEF mirrorVars, routerSide, appSide,
              MirrorInv, MirrorTypeOK, StatusArrives, DevicesArrive
<1>3. CASE NewRound \/ RouterDies \/ PublishEvent \/ PublishSnapshot \/ PublishStatus
  BY <1>1, <1>3, StepNewRound, StepRouterDies, StepPublishes
<1>4. CASE Connect \/ ConnectionLost \/ AppRestart \/ Subscribe \/ Receive \/ Handle
  BY <1>4, StepSessions, StepSubscribe, StepReceive, StepHandle
<1> QED BY <1>2, <1>3, <1>4 DEF MirrorNext

\* An application that has nothing left to do shows the status and the device
\* list that the broker retains, except a part that a handler came to before one
\* it has to follow, until a message finds no other for this part running.
\* (handleStatus, handleDevices and handleDeviceEvent of bus.go run in goroutines
\* of their own: nothing in the code keeps them in turn.)
THEOREM MirrorIsAccurate == MirrorSpec => []MirrorAccurate
  BY MirrorBegins, MirrorKept, MirrorIdles, PTL DEF MirrorSpec
=============================================================================
