---------------------------- MODULE SystemProofs ----------------------------
(***************************************************************************)
(* Theorems about System, for any number of commands, outages, reconnects, *)
(* reboots, failures of nft and handlers that run at a time: while no      *)
(* command was lost, repeated, overtaken or refused, the kernel ends up as *)
(* the administrator said last; and the page, once the daemon's list is    *)
(* out and read in turn, shows what the kernel does.                       *)
(***************************************************************************)
EXTENDS System, MirrorProofs

Command == [block : BOOLEAN, sent : BOOLEAN, stored : BOOLEAN]

CommandTypeOK ==
    /\ pending \in Seq(Command)
    /\ toRouter \in Seq(BOOLEAN)
    /\ blocked \in BOOLEAN
    /\ disturbed \in BOOLEAN
    /\ lastWord \in {<<>>, <<TRUE>>, <<FALSE>>}

\* Without a connection all there is is in the client's store.
AllInStore == \A n \in 1..Len(pending) : pending[n].stored /\ ~pending[n].sent
StoredWhenAway == ~connected => AllInStore

\* The client sends its messages in the order of their Publish, and what it sends
\* out of its store is alone.
SentInOrder ==
    /\ \A n \in 1..Len(pending) : pending[n].stored /\ ~pending[n].sent => Len(pending) = 1
    /\ \A k, n \in 1..Len(pending) : k <= n /\ pending[n].sent => pending[k].sent

\* Where the last command is: with the client, then with the broker, then in
\* the kernel.
Unsent == pending # <<>> /\ ~pending[Len(pending)].sent
LastIs(b) ==
    /\ Unsent => pending[Len(pending)].block = b
    /\ ~Unsent /\ toRouter # <<>> => toRouter[Len(toRouter)] = b
    /\ ~Unsent /\ toRouter = <<>> => blocked = b

Undisturbed == SentInOrder /\ \A b \in BOOLEAN : lastWord = <<b>> => LastIs(b)

SystemInv == CommandTypeOK /\ StoredWhenAway /\ (disturbed \/ Undisturbed)

----------------------------------------------------------------------------

LEMMA CommandsKept ==
    ASSUME [SystemNext]_systemVars
    PROVE  \/ /\ UNCHANGED <<blocked, toRouter, pending, lastWord, disturbed>>
              /\ connected' \/ connected' = connected
           \/ ServeCommand \/ Outage \/ RouterReboots \/ Client
<1>1. CASE UNCHANGED systemVars
  BY <1>1 DEF systemVars, commandVars, commands, mirrorVars, appSide
<1>2. CASE FirstRound \/ LeaseRound
  BY <1>2 DEF FirstRound, LeaseRound, Round, appSide, commands
<1>3. CASE PublishRound
  BY <1>3 DEF PublishRound, PublishEvent, PublishSnapshot, Incoming, commandVars, commands
<1>4. CASE Serve
  BY <1>4 DEF Serve, mirrorVars, appSide, commands
<1>5. CASE MirrorStep
  BY <1>5 DEF MirrorStep, Connect, Subscribe, Receive, Handle, commandVars, commands
<1> QED BY <1>1, <1>2, <1>3, <1>4, <1>5 DEF SystemNext, Daemon

\* What the daemon does to the connection of the application: nothing.
LEMMA DaemonApart ==
    ASSUME ServeCommand \/ Outage \/ RouterReboots
    PROVE  UNCHANGED <<connected, pending, lastWord>>
<1>1. UNCHANGED mirrorVars \/ RouterDies \/ (\E b : Round(b))
  BY DEF ServeCommand, Outage, RouterReboots
<1>2. UNCHANGED connected
  BY <1>1 DEF mirrorVars, appSide, RouterDies, Round
<1>3. UNCHANGED <<pending, lastWord>>
  BY DEF ServeCommand, Outage, RouterReboots, commands
<1> QED BY <1>2, <1>3

\* ServeCommand: what was first in the queue is in the kernel, or nft failed and
\* that is remembered.
LEMMA StepServe ==
    ASSUME SystemInv, ServeCommand
    PROVE  SystemInv'
<1>1. /\ toRouter' = Tail(toRouter) /\ toRouter # <<>>
      /\ disturbed' = (disturbed \/ blocked' # Head(toRouter))
      /\ blocked' \in {Head(toRouter), blocked}
      /\ UNCHANGED <<connected, pending, lastWord>>
  BY DaemonApart DEF ServeCommand, NftRun
<1>2. toRouter \in Seq(BOOLEAN)
  BY DEF SystemInv, CommandTypeOK
<1>3. /\ Len(toRouter) \in Nat \ {0} /\ Tail(toRouter) \in Seq(BOOLEAN)
      /\ Head(toRouter) = toRouter[1] /\ Head(toRouter) \in BOOLEAN
      /\ Len(Tail(toRouter)) = Len(toRouter) - 1
      /\ \A n \in 1..Len(toRouter) - 1 : Tail(toRouter)[n] = toRouter[n + 1]
  BY <1>1, <1>2, HeadTailProperties, EmptySeq, ElementOfSeq
<1>4. CommandTypeOK' /\ StoredWhenAway'
  BY <1>1, <1>3 DEF SystemInv, CommandTypeOK, StoredWhenAway, AllInStore
<1>5. CASE blocked' # Head(toRouter) \/ disturbed
  BY <1>1, <1>4, <1>5 DEF SystemInv
<1>6. CASE blocked' = Head(toRouter) /\ ~disturbed
  <2>1. /\ Tail(toRouter) # <<>> => Tail(toRouter)[Len(Tail(toRouter))] = toRouter[Len(toRouter)]
        /\ Tail(toRouter) = <<>> => Head(toRouter) = toRouter[Len(toRouter)]
    BY <1>3, EmptySeq
  <2>2. \A b \in BOOLEAN : LastIs(b) => LastIs(b)'
    BY <1>1, <1>6, <2>1 DEF LastIs, Unsent
  <2> QED BY <1>1, <1>4, <1>6, <2>2 DEF SystemInv, Undisturbed, SentInOrder
<1> QED BY <1>5, <1>6

\* Outage and RouterReboots: what they take away is remembered.
LEMMA StepOutage ==
    ASSUME SystemInv, Outage \/ RouterReboots
    PROVE  SystemInv'
<1>1. /\ toRouter' = <<>>
      /\ disturbed' = (disturbed \/ toRouter # <<>> \/ blocked' # blocked)
      /\ blocked' \in {blocked, FALSE}
      /\ UNCHANGED <<connected, pending, lastWord>>
  <2>1. CASE Outage
    BY <2>1, DaemonApart DEF Outage
  <2>2. CASE RouterReboots
    BY <2>2, DaemonApart DEF RouterReboots, SystemInv, CommandTypeOK
  <2> QED BY <2>1, <2>2
<1>2. CommandTypeOK' /\ StoredWhenAway'
  <2>1. toRouter' \in Seq(BOOLEAN)
    BY <1>1, EmptySeq
  <2>2. disturbed' \in BOOLEAN /\ blocked' \in BOOLEAN
    BY <1>1 DEF SystemInv, CommandTypeOK
  <2> QED BY <1>1, <2>1, <2>2 DEF SystemInv, CommandTypeOK, StoredWhenAway, AllInStore
<1>3. CASE ~disturbed'
  <2>1. toRouter = <<>> /\ blocked' = blocked /\ Undisturbed
    BY <1>1, <1>3 DEF SystemInv
  <2> QED BY <1>1, <1>2, <2>1 DEF SystemInv, Undisturbed, SentInOrder, LastIs, Unsent
<1>4. CASE disturbed'
  BY <1>2, <1>4 DEF SystemInv
<1> QED BY <1>3, <1>4

\* publishCmd: the last command is behind all others, or that is remembered.
LEMMA StepPublish ==
    ASSUME SystemInv, publishCmd
    PROVE  SystemInv'
<1>1. PICK b \in BOOLEAN :
        /\ pending' = Append(pending, [block |-> b, sent |-> FALSE, stored |-> ~connected])
        /\ lastWord' = <<b>>
        /\ disturbed' = (InStore \/ (disturbed /\ (pending # <<>> \/ toRouter # <<>>)))
        /\ UNCHANGED <<connected, blocked, toRouter>>
  BY DEF publishCmd, mirrorVars, appSide
<1> DEFINE m == [block |-> b, sent |-> FALSE, stored |-> ~connected]
<1>2. m \in Command /\ m.block = b /\ ~m.sent /\ (m.stored <=> ~connected)
  BY DEF Command
<1> HIDE DEF m
<1>3. pending \in Seq(Command) /\ DOMAIN pending = 1..Len(pending)
  BY LenProperties DEF SystemInv, CommandTypeOK
<1>4. /\ pending' \in Seq(Command) /\ Len(pending') = Len(pending) + 1
      /\ pending'[Len(pending) + 1] = m
      /\ \A n \in 1..Len(pending) : pending'[n] = pending[n]
      /\ Len(pending) \in Nat /\ pending' # <<>>
  <2>1. pending' = Append(pending, m)
    BY <1>1 DEF m
  <2> QED BY <1>2, <1>3, <2>1, AppendProperties, LenProperties
<1>5. CommandTypeOK'
  BY <1>1, <1>4 DEF SystemInv, CommandTypeOK
<1>6. \A n \in 1..Len(pending') : n \in 1..Len(pending) \/ n = Len(pending) + 1
  BY <1>4
<1>7. StoredWhenAway'
  BY <1>1, <1>2, <1>4, <1>6 DEF SystemInv, StoredWhenAway, AllInStore
<1>8. \A c \in BOOLEAN : lastWord' = <<c>> => LastIs(c)'
  <2>1. \A c \in BOOLEAN : lastWord' = <<c>> => c = b
    BY <1>1
  <2>2. Unsent' /\ pending'[Len(pending')].block = b
    BY <1>2, <1>4 DEF Unsent
  <2> QED BY <2>1, <2>2 DEF LastIs
<1>9. CASE disturbed'
  BY <1>5, <1>7, <1>9 DEF SystemInv
<1>10. CASE ~disturbed'
  <2>1. ~InStore /\ (SentInOrder \/ Len(pending) = 0)
    BY <1>1, <1>10, EmptySeq DEF SystemInv, Undisturbed
  <2>2. ~connected => Len(pending) = 0
    <3>1. ~connected => \A n \in 1..Len(pending) : FALSE
      BY <1>3, <2>1 DEF SystemInv, StoredWhenAway, AllInStore, InStore
    <3>2. Len(pending) # 0 => 1 \in 1..Len(pending)
      BY <1>4
    <3> QED BY <3>1, <3>2
  <2>3. SentInOrder'
    <3>1. ASSUME NEW n \in 1..Len(pending'), pending'[n].stored, ~pending'[n].sent
          PROVE  Len(pending') = 1
      <4>1. n \notin 1..Len(pending)
        BY <1>3, <1>4, <2>1, <3>1 DEF InStore
      <4> QED BY <1>2, <1>4, <1>6, <2>2, <3>1, <4>1
    <3>2. ASSUME NEW k \in 1..Len(pending'), NEW n \in 1..Len(pending'), k <= n, pending'[n].sent
          PROVE  pending'[k].sent
      <4>1. n \in 1..Len(pending) /\ k \in 1..Len(pending)
        BY <1>2, <1>4, <1>6, <3>2
      <4> QED BY <1>4, <2>1, <3>2, <4>1 DEF SentInOrder
    <3> QED BY <3>1, <3>2 DEF SentInOrder
  <2> QED BY <1>5, <1>7, <1>8, <2>3 DEF SystemInv, Undisturbed
<1> QED BY <1>9, <1>10

\* SendCommand: the first unsent message goes, behind all that were sent.
LEMMA StepSend ==
    ASSUME SystemInv, SendCommand
    PROVE  SystemInv'
<1>1. PICK n \in DOMAIN pending :
        /\ ~pending[n].sent
        /\ pending[n].stored \/ \A k \in 1..n - 1 : pending[k].sent \/ pending[k].stored
        /\ pending' = [pending EXCEPT ![n].sent = TRUE]
        /\ toRouter' = IF serving THEN Append(toRouter, pending[n].block) ELSE toRouter
        /\ disturbed' = (disturbed \/ ~serving)
        /\ connected /\ UNCHANGED <<connected, blocked, lastWord>>
  BY DEF SendCommand, mirrorVars, appSide
<1> DEFINE m == [pending[n] EXCEPT !.sent = TRUE]
<1>2. /\ pending \in Seq(Command) /\ n \in 1..Len(pending) /\ pending[n] \in Command
      /\ toRouter \in Seq(BOOLEAN)
  BY <1>1, ElementOfSeq, LenProperties DEF SystemInv, CommandTypeOK
<1>3. m \in Command /\ m.block = pending[n].block /\ m.sent /\ m.stored = pending[n].stored
  BY <1>2 DEF Command
<1>4. pending' = [pending EXCEPT ![n] = m]
  BY <1>1
<1> HIDE DEF m
<1>5. /\ pending' \in Seq(Command) /\ Len(pending') = Len(pending)
      /\ \A k \in 1..Len(pending) : pending'[k] = IF k = n THEN m ELSE pending[k]
      /\ Len(pending) \in Nat \ {0}
  BY <1>2, <1>3, <1>4, ExceptSeq, LenProperties
<1>6. /\ Append(toRouter, pending[n].block) \in Seq(BOOLEAN)
      /\ Append(toRouter, pending[n].block) # <<>>
      /\ Len(Append(toRouter, pending[n].block)) = Len(toRouter) + 1
      /\ Append(toRouter, pending[n].block)[Len(toRouter) + 1] = pending[n].block
  <2>1. pending[n].block \in BOOLEAN
    BY <1>2 DEF Command
  <2> QED BY <1>2, <2>1, AppendProperties
<1>7. CommandTypeOK' /\ StoredWhenAway'
  BY <1>1, <1>5, <1>6 DEF SystemInv, CommandTypeOK, StoredWhenAway
<1>8. CASE disturbed \/ ~serving
  BY <1>1, <1>7, <1>8 DEF SystemInv
<1>9. CASE ~disturbed /\ serving
  <2>1. SentInOrder /\ \A b \in BOOLEAN : lastWord = <<b>> => LastIs(b)
    BY <1>9 DEF SystemInv, Undisturbed
  <2>2. \A k \in 1..Len(pending) : k < n => pending[k].sent
    <3>1. CASE pending[n].stored
      <4>1. Len(pending) = 1
        BY <1>1, <1>2, <2>1, <3>1 DEF SentInOrder
      <4> QED BY <1>2, <4>1
    <3>2. CASE ~pending[n].stored
      <4>1. ASSUME NEW k \in 1..Len(pending), k < n, ~pending[k].sent
            PROVE  FALSE
        <5>1. pending[k].stored
          BY <1>1, <1>2, <3>2, <4>1
        <5>2. Len(pending) = 1
          BY <2>1, <4>1, <5>1 DEF SentInOrder
        <5> QED BY <1>2, <4>1, <5>2
      <4> QED BY <4>1
    <3> QED BY <3>1, <3>2
  <2>3. \A k \in 1..Len(pending) : pending'[k].sent <=> k <= n
    <3>1. \A k \in 1..Len(pending) : n <= k => ~pending[k].sent
      BY <1>1, <1>2, <2>1 DEF SentInOrder
    <3> QED BY <1>2, <1>3, <1>5, <2>2, <3>1
  <2>4. SentInOrder'
    <3>1. \A k \in 1..Len(pending) : ~pending'[k].sent => pending'[k] = pending[k]
      BY <1>3, <1>5
    <3>2. \A k \in 1..Len(pending') : pending'[k].stored /\ ~pending'[k].sent => Len(pending') = 1
      BY <1>5, <2>1, <3>1 DEF SentInOrder
    <3>3. \A k, j \in 1..Len(pending') : k <= j /\ pending'[j].sent => pending'[k].sent
      BY <1>2, <1>5, <2>3
    <3> QED BY <3>2, <3>3 DEF SentInOrder
  <2>5. ASSUME NEW b \in BOOLEAN, lastWord = <<b>>
        PROVE  LastIs(b)'
    <3>1. pending # <<>> /\ pending' # <<>> /\ Len(pending) \in 1..Len(pending)
      BY <1>2, <1>5, EmptySeq
    <3>2. ~pending[Len(pending)].sent
      BY <1>1, <1>2, <1>5, <2>1 DEF SentInOrder
    <3>3. pending[Len(pending)].block = b
      BY <2>1, <2>5, <3>1, <3>2 DEF LastIs, Unsent
    <3>4. CASE n = Len(pending)
      <4>1. ~Unsent'
        BY <1>5, <2>3, <3>1, <3>4 DEF Unsent
      <4>2. toRouter' = Append(toRouter, pending[n].block)
        BY <1>1, <1>9
      <4>3. toRouter' # <<>> /\ toRouter'[Len(toRouter')] = b
        BY <1>6, <3>3, <3>4, <4>2
      <4> QED BY <4>1, <4>3 DEF LastIs
    <3>5. CASE n # Len(pending)
      <4>1. pending'[Len(pending')] = pending[Len(pending)]
        BY <1>5, <3>1, <3>5
      <4> QED BY <3>1, <3>2, <3>3, <4>1 DEF LastIs, Unsent
    <3> QED BY <3>4, <3>5
  <2> QED BY <1>1, <1>7, <2>4, <2>5 DEF SystemInv, Undisturbed
<1> QED BY <1>8, <1>9

\* Acknowledge: what leaves was sent, so what is unsent stays last.
LEMMA StepAcknowledge ==
    ASSUME SystemInv, Acknowledge
    PROVE  SystemInv'
<1>1. PICK n \in DOMAIN pending :
        /\ pending[n].sent /\ pending' = RemoveAt(pending, n)
        /\ connected /\ UNCHANGED <<connected, blocked, toRouter, lastWord, disturbed>>
  BY DEF Acknowledge, mirrorVars, appSide
<1>2. pending \in Seq(Command) /\ n \in 1..Len(pending) /\ Len(pending) \in Nat
  BY <1>1, LenProperties DEF SystemInv, CommandTypeOK
<1>3. /\ pending' \in Seq(Command) /\ Len(pending') = Len(pending) - 1
      /\ \A k \in 1..Len(pending') : pending'[k] = pending[IF k < n THEN k ELSE k + 1]
  BY <1>1, <1>2, ClosingUp
<1>4. CommandTypeOK' /\ StoredWhenAway'
  BY <1>1, <1>3 DEF SystemInv, CommandTypeOK, StoredWhenAway
<1>5. CASE disturbed
  BY <1>1, <1>4, <1>5 DEF SystemInv
<1>6. CASE ~disturbed
  <2>1. SentInOrder /\ \A b \in BOOLEAN : lastWord = <<b>> => LastIs(b)
    BY <1>6 DEF SystemInv, Undisturbed
  <2>2. SentInOrder'
    <3>1. \A k \in 1..Len(pending) : ~(pending[k].stored /\ ~pending[k].sent)
      <4>1. ASSUME NEW k \in 1..Len(pending), pending[k].stored, ~pending[k].sent
            PROVE  FALSE
        <5>1. Len(pending) = 1
          BY <2>1, <4>1 DEF SentInOrder
        <5> QED BY <1>1, <1>2, <4>1, <5>1
      <4> QED BY <4>1
    <3>2. \A k \in 1..Len(pending') : (IF k < n THEN k ELSE k + 1) \in 1..Len(pending)
      BY <1>2, <1>3
    <3>3. \A k \in 1..Len(pending') : ~(pending'[k].stored /\ ~pending'[k].sent)
      BY <1>3, <3>1, <3>2
    <3>4. \A k, j \in 1..Len(pending') : k <= j /\ pending'[j].sent => pending'[k].sent
      BY <1>2, <1>3, <2>1, <3>2 DEF SentInOrder
    <3> QED BY <3>3, <3>4 DEF SentInOrder
  <2>3. Unsent' <=> Unsent
    <3>1. CASE n = Len(pending)
      <4>1. ~Unsent
        BY <1>1, <3>1 DEF Unsent
      <4>2. \A k \in 1..Len(pending) : pending[k].sent
        BY <1>1, <1>2, <2>1, <3>1 DEF SentInOrder
      <4>3. pending' # <<>> => Len(pending') \in 1..Len(pending')
        BY <1>3, EmptySeq
      <4>4. ~Unsent'
        BY <1>2, <1>3, <3>1, <4>2, <4>3 DEF Unsent
      <4> QED BY <4>1, <4>4
    <3>2. CASE n # Len(pending)
      <4>1. pending # <<>> /\ pending' # <<>> /\ Len(pending') \in 1..Len(pending')
        BY <1>2, <1>3, <3>2, EmptySeq
      <4>2. pending'[Len(pending')] = pending[Len(pending)]
        BY <1>2, <1>3, <3>2, <4>1
      <4> QED BY <4>1, <4>2 DEF Unsent
    <3> QED BY <3>1, <3>2
  <2>4. Unsent => pending'[Len(pending')] = pending[Len(pending)]
    <3>1. Unsent => n # Len(pending)
      BY <1>1 DEF Unsent
    <3>2. Unsent => Len(pending') \in 1..Len(pending')
      BY <1>2, <1>3, <3>1
    <3> QED BY <1>2, <1>3, <3>1, <3>2
  <2> QED BY <1>1, <1>4, <2>1, <2>2, <2>3, <2>4 DEF SystemInv, Undisturbed, LastIs
<1> QED BY <1>5, <1>6

\* LoseConnection: what may be sent again or swap is remembered.
LEMMA StepLose ==
    ASSUME SystemInv, LoseConnection
    PROVE  SystemInv'
<1>1. /\ pending' = [n \in DOMAIN pending |->
                        [pending[n] EXCEPT !.sent = FALSE, !.stored = TRUE]]
      /\ disturbed' = (disturbed \/ Len(pending) > 1
                         \/ \E n \in DOMAIN pending : pending[n].sent)
      /\ UNCHANGED <<blocked, toRouter, lastWord>>
  BY DEF LoseConnection
<1>2. pending \in Seq(Command) /\ Len(pending) \in Nat /\ DOMAIN pending = 1..Len(pending)
  BY LenProperties DEF SystemInv, CommandTypeOK
<1>3. /\ \A n \in 1..Len(pending) : /\ pending'[n] \in Command
                                    /\ pending'[n].block = pending[n].block
                                    /\ ~pending'[n].sent /\ pending'[n].stored
      /\ pending' \in Seq(Command) /\ Len(pending') = Len(pending)
  <2>1. ASSUME NEW n \in 1..Len(pending)
        PROVE  /\ pending'[n] \in Command
               /\ pending'[n].block = pending[n].block
               /\ ~pending'[n].sent /\ pending'[n].stored
    <3>1. pending[n] \in Command
      BY <1>2, ElementOfSeq
    <3>2. pending'[n] = [pending[n] EXCEPT !.sent = FALSE, !.stored = TRUE]
      BY <1>1, <1>2
    <3> QED BY <3>1, <3>2 DEF Command
  <2>2. pending' \in [1..Len(pending) -> Command]
    BY <1>1, <1>2, <2>1
  <2>3. pending' \in Seq(Command)
    BY <1>2, <2>2, SeqDef
  <2>4. Len(pending') = Len(pending)
    BY <1>2, <2>2, <2>3, LenProperties
  <2> QED BY <2>1, <2>3, <2>4
<1>4. CommandTypeOK' /\ StoredWhenAway'
  <2>1. disturbed' \in BOOLEAN
    BY <1>1 DEF SystemInv, CommandTypeOK
  <2> QED BY <1>1, <1>3, <2>1 DEF SystemInv, CommandTypeOK, StoredWhenAway, AllInStore
<1>5. CASE disturbed'
  BY <1>4, <1>5 DEF SystemInv
<1>6. CASE ~disturbed'
  <2>1. /\ ~disturbed /\ Len(pending) <= 1
        /\ \A n \in 1..Len(pending) : ~pending[n].sent
    <3>1. ~disturbed /\ ~(Len(pending) > 1) /\ \A n \in DOMAIN pending : ~pending[n].sent
      BY <1>1, <1>6, Zenon
    <3> QED BY <1>2, <3>1
  <2>2. SentInOrder'
    BY <1>2, <1>3, <2>1 DEF SentInOrder
  <2>3. /\ pending # <<>> => Len(pending) \in 1..Len(pending)
        /\ pending' = <<>> <=> pending = <<>>
    BY <1>2, <1>3, EmptySeq
  <2>4. (Unsent' <=> Unsent) /\ (Unsent => pending'[Len(pending')].block
                                             = pending[Len(pending)].block)
    BY <1>3, <2>1, <2>3 DEF Unsent
  <2>5. \A b \in BOOLEAN : LastIs(b) => LastIs(b)'
    BY <1>1, <2>4 DEF LastIs
  <2> QED BY <1>1, <1>4, <2>1, <2>2, <2>5 DEF SystemInv, Undisturbed
<1> QED BY <1>5, <1>6

LEMMA SystemBegins == SystemInit => SystemInv
<1> SUFFICES ASSUME SystemInit PROVE SystemInv
  OBVIOUS
<1>1. /\ pending = <<>> /\ toRouter = <<>> /\ lastWord = <<>>
      /\ blocked = FALSE /\ disturbed = FALSE
  BY DEF SystemInit
<1>2. CommandTypeOK
  BY <1>1, EmptySeq DEF CommandTypeOK
<1>3. SentInOrder /\ AllInStore
  BY <1>1, EmptySeq DEF SentInOrder, AllInStore
<1>4. \A b \in BOOLEAN : lastWord # <<b>>
  BY <1>1
<1> QED BY <1>2, <1>3, <1>4 DEF SystemInv, StoredWhenAway, Undisturbed

LEMMA SystemKept == SystemInv /\ [SystemNext]_systemVars => SystemInv'
<1> SUFFICES ASSUME SystemInv, [SystemNext]_systemVars PROVE SystemInv'
  OBVIOUS
<1>1. CASE /\ UNCHANGED <<blocked, toRouter, pending, lastWord, disturbed>>
           /\ connected' \/ connected' = connected
  BY <1>1 DEF SystemInv, CommandTypeOK, StoredWhenAway, AllInStore, Undisturbed,
              SentInOrder, LastIs, Unsent
<1>2. CASE ServeCommand \/ Outage \/ RouterReboots
  BY <1>2, StepServe, StepOutage
<1>3. CASE Client
  BY <1>3, StepPublish, StepSend, StepAcknowledge, StepLose DEF Client
<1> QED BY <1>1, <1>2, <1>3, CommandsKept

\* When no command is on its way the kernel is as the administrator said last,
\* however often both sides lost their sessions before, the client had to store a
\* command, nft failed or the router rebooted, unless the last commands
\* themselves were disturbed by it.
THEOREM LastWordCounts == SystemSpec => []LastWordHolds
<1>1. SystemInv => LastWordHolds
  <2> SUFFICES ASSUME SystemInv, NoneOnTheWay, ~disturbed
               PROVE  \A n \in DOMAIN lastWord : blocked = lastWord[n]
    BY DEF LastWordHolds
  <2>1. \A b \in BOOLEAN : lastWord = <<b>> => blocked = b
    BY DEF SystemInv, Undisturbed, LastIs, Unsent, NoneOnTheWay
  <2>2. lastWord \in {<<>>, <<TRUE>>, <<FALSE>>}
    BY DEF SystemInv, CommandTypeOK
  <2>3. CASE lastWord = <<>>
    BY <2>3
  <2>4. ASSUME NEW b \in BOOLEAN, lastWord = <<b>>
        PROVE  \A n \in DOMAIN lastWord : blocked = lastWord[n]
    <3>1. DOMAIN lastWord = {1} /\ lastWord[1] = b
      BY <2>4
    <3> QED BY <2>1, <2>4, <3>1
  <2> QED BY <2>2, <2>3, <2>4
<1> QED BY <1>1, SystemBegins, SystemKept, PTL DEF SystemSpec

----------------------------------------------------------------------------
(* What the page shows.                                                    *)

\* The list of the last round is the kernel's but for what nft hid from it; once
\* published it is retained, with nothing of the round left to come.
ListIsKernels ==
    /\ ~firstRun => (Target \in BlockedIn(list) <=> blocked /\ ~blind)
    /\ toTell # {} => toShow
    /\ ~firstRun /\ ~toShow => ~midRound /\ retained["devices"] = <<DevicesMsg(list)>>

PageInv == MirrorInv /\ ListIsKernels

LEMMA RoundListsKernel ==
    ASSUME PageInv, NEW b, Round(b), blocked' = b
    PROVE  PageInv'
<1>1. /\ list' \in Tables /\ (Target \in BlockedIn(list') <=> b /\ ~blind')
      /\ toTell' = IF firstRun THEN {} ELSE Events(list, list')
      /\ toShow' = TRUE
      /\ UNCHANGED <<retained, midRound, appSide>>
  BY DEF Round, TablesOf
<1>2. list \in Table /\ list' \in Table
  BY <1>1, MirrorAssumption DEF PageInv, MirrorInv, MirrorTypeOK
<1>3. toTell' \subseteq AllEvents
  BY <1>1, <1>2 DEF AllEvents
<1>4. MirrorInv'
  BY <1>1, <1>2, <1>3, StepOfRouter DEF PageInv
<1>5. ListIsKernels'
  BY <1>1 DEF ListIsKernels
<1> QED BY <1>4, <1>5 DEF PageInv

LEMMA PublishKeepsPage ==
    ASSUME PageInv, PublishRound
    PROVE  PageInv'
<1>1. MirrorInv'
  BY StepPublishes DEF PageInv, PublishRound
<1>2. UNCHANGED <<blocked, blind, list, firstRun>>
  BY DEF PublishRound, PublishEvent, PublishSnapshot, commandVars
<1>3. CASE PublishEvent
  <2>1. toTell # {} /\ toTell' \subseteq toTell /\ UNCHANGED toShow
    BY <1>3 DEF PublishEvent
  <2>2. toShow /\ toShow'
    BY <2>1 DEF PageInv, ListIsKernels
  <2>3. ListIsKernels'
    BY <1>2, <2>2 DEF PageInv, ListIsKernels
  <2> QED BY <1>1, <2>3 DEF PageInv
<1>4. CASE PublishSnapshot
  <2>1. /\ toTell' = {} /\ midRound' = FALSE
        /\ Incoming(DevicesMsg(list))
    BY <1>4 DEF PublishSnapshot
  <2>2. retained'["devices"] = <<DevicesMsg(list)>>
    <3>1. DevicesMsg(list).topic = "devices"
      BY DEF DevicesMsg
    <3>2. retained' = [retained EXCEPT !["devices"] = <<DevicesMsg(list)>>]
      BY <2>1, <3>1 DEF Incoming
    <3>3. "devices" \in DOMAIN retained
      BY DEF PageInv, MirrorInv, MirrorTypeOK, Topics
    <3> QED BY <3>2, <3>3
  <2>3. ListIsKernels'
    BY <1>2, <2>1, <2>2 DEF PageInv, ListIsKernels
  <2> QED BY <1>1, <2>3 DEF PageInv
<1> QED BY <1>3, <1>4 DEF PublishRound

\* A router that died has a list to make first, whatever its kernel has then.
LEMMA DeathKeepsPage ==
    ASSUME PageInv, RouterDies
    PROVE  PageInv'
<1>1. MirrorInv'
  BY StepRouterDies DEF PageInv
<1>2. firstRun' /\ toTell' = {}
  BY DEF RouterDies
<1>3. ListIsKernels'
  BY <1>2 DEF ListIsKernels
<1> QED BY <1>1, <1>3 DEF PageInv

LEMMA SameMirror ==
    ASSUME MirrorInv, UNCHANGED mirrorVars
    PROVE  MirrorInv'
  BY DEF mirrorVars, routerSide, appSide, MirrorInv, MirrorTypeOK, StatusArrives, DevicesArrive

\* All other steps leave the router and what is retained alone.
LEMMA OthersKeepPage ==
    ASSUME PageInv, MirrorInv',
           UNCHANGED <<blocked, blind>> \/ firstRun,
           UNCHANGED <<routerSide, retained, midRound>>
    PROVE  PageInv'
  BY DEF PageInv, ListIsKernels, routerSide

LEMMA PageStep ==
    ASSUME PageInv, [SystemNext]_systemVars
    PROVE  PageInv'
<1>1. CASE UNCHANGED mirrorVars /\ (UNCHANGED <<blocked, blind>> \/ firstRun)
  BY <1>1, SameMirror, OthersKeepPage DEF PageInv, mirrorVars
<1>2. CASE ServeCommand
  <2>1. PICK ret \in {0, -1} :
          /\ NftRun(Head(toRouter), ret)
          /\ IF ret = 0 THEN Round(blocked') ELSE UNCHANGED <<mirrorVars, blind>>
    BY <1>2 DEF ServeCommand
  <2>2. CASE ret = 0
    BY <2>1, <2>2, RoundListsKernel
  <2>3. CASE ret = -1
    <3>1. ret # 0
      BY <2>3
    <3>2. UNCHANGED <<mirrorVars, blocked, blind>>
      BY <2>1, <3>1 DEF NftRun
    <3> QED BY <1>1, <3>2
  <2> QED BY <2>2, <2>3
<1>3. CASE FirstRound \/ LeaseRound
  BY <1>3, RoundListsKernel DEF FirstRound, LeaseRound
<1>4. CASE PublishRound
  BY <1>4, PublishKeepsPage
<1>5. CASE Outage \/ RouterReboots
  BY <1>1, <1>5, DeathKeepsPage DEF Outage, RouterReboots
<1>6. CASE LoseConnection
  <2>1. ConnectionLost /\ UNCHANGED <<blocked, blind>>
    BY <1>6 DEF LoseConnection
  <2>2. MirrorInv'
    BY <2>1, StepSessions DEF PageInv
  <2>3. UNCHANGED <<routerSide, retained, midRound>>
    BY <2>1 DEF ConnectionLost
  <2> QED BY <2>1, <2>2, <2>3, OthersKeepPage
<1>7. CASE MirrorStep
  <2>1. UNCHANGED <<blocked, blind>> /\ (Connect \/ Subscribe \/ Receive \/ Handle)
    BY <1>7 DEF MirrorStep, commandVars
  <2>2. MirrorInv'
    BY <2>1, StepSessions, StepSubscribe, StepReceive, StepHandle DEF PageInv
  <2>3. UNCHANGED <<routerSide, retained, midRound>>
    BY <2>1 DEF Connect, Subscribe, Receive, Handle
  <2> QED BY <2>1, <2>2, <2>3, OthersKeepPage
<1>8. CASE Serve \/ publishCmd \/ SendCommand \/ Acknowledge \/ UNCHANGED systemVars
  BY <1>1, <1>8 DEF Serve, publishCmd, SendCommand, Acknowledge, systemVars, commandVars
<1> QED BY <1>2, <1>3, <1>4, <1>5, <1>6, <1>7, <1>8 DEF SystemNext, Daemon, Client

LEMMA PageBegins == SystemInit => PageInv
  BY MirrorBegins DEF SystemInit, MirrorInit, PageInv, ListIsKernels

LEMMA PageSettles == PageInv => PageTruthful
<1> SUFFICES ASSUME PageInv, Settled PROVE ShownRight
  BY DEF PageTruthful
<1>1. ~midRound /\ retained["devices"] = <<DevicesMsg(list)>>
  BY DEF PageInv, ListIsKernels, Settled
<1>2. 1 \in DOMAIN retained["devices"] /\ retained["devices"][1] = DevicesMsg(list)
  BY <1>1
<1>3. store.devices = DevicesMsg(list).body
  <2>1. \A n \in DOMAIN retained["devices"] : store.devices = retained["devices"][n].body
    BY <1>1, MirrorIdles DEF PageInv, MirrorAccurate, Settled
  <2> QED BY <1>2, <2>1
<1>4. store.devices = list
  BY <1>3 DEF DevicesMsg
<1> QED BY <1>4 DEF PageInv, ListIsKernels, Settled, ShownBlocked, ShownRight

\* Once the daemon's list is out and read, the page shows what the kernel does,
\* after any number of commands, failures of nft, outages, reboots and reconnects.
THEOREM PageIsTruthful == SystemSpec => []PageTruthful
<1>1. PageInv /\ [SystemNext]_systemVars => PageInv'
  BY PageStep
<1> QED BY <1>1, PageBegins, PageSettles, PTL DEF SystemSpec

\* From the administrator's click to what the administrator sees: with nothing on
\* the way and none of the last commands disturbed, the page shows the last one;
\* but it may not show a block that the daemon failed to see when it made the list.
THEOREM LastWordIsShown ==
    SystemSpec => [](Settled /\ NoneOnTheWay /\ ~disturbed =>
                        \A n \in DOMAIN lastWord :
                            /\ ShownBlocked => lastWord[n]
                            /\ lastWord[n] => ShownBlocked \/ blind)
<1>1. PageTruthful /\ LastWordHolds =>
        (Settled /\ NoneOnTheWay /\ ~disturbed =>
            \A n \in DOMAIN lastWord :
                /\ ShownBlocked => lastWord[n]
                /\ lastWord[n] => ShownBlocked \/ blind)
  BY DEF PageTruthful, LastWordHolds, ShownRight
<1> QED BY <1>1, PageIsTruthful, LastWordCounts, PTL
=============================================================================
