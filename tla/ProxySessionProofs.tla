------------------------- MODULE ProxySessionProofs -------------------------
(***************************************************************************)
(* The proxy's sessions, for any number of sockets and messages: a socket  *)
(* never opens a second ENet connection, and the process-wide ENet stays   *)
(* initialized for every connection that is in use.                        *)
(***************************************************************************)
EXTENDS ProxySession, FiniteSetTheorems, SequenceTheorems, TLAPS

\* The disconnect event of s, from its service until the handler deinitializes.
Ending(s) == event = [type |-> "DISCONNECT", peer |-> s]

\* The sockets that opened a connection, and those of them whose connection
\* still counts on an initialization of its own.
Clients == {s \in Sockets : client[s]}
Serving == {s \in Sockets : client[s] /\ (life[s] # "free" \/ Ending(s))}

\* One message at most opened the connection of a socket.
OneOpened == \A s \in Sockets : \A i, j \in Opened(s) : i = j

\* Before the first INIT was handled, a socket has no connection and no event.
ClientFirst ==
    \A s \in Sockets :
        ~client[s] => Opened(s) = {} /\ life[s] = "free" /\ ~Ending(s)

\* When its disconnection is reported, the connection is over.
EndedIsFree == \A s \in Sockets : Ending(s) => life[s] = "free"

\* ENet is initialized once for each connection that counts on it, and at most
\* once for each that was ever opened.
Counted ==
    /\ enet \in Int
    /\ Cardinality(Serving) <= enet
    /\ enet <= Cardinality(Clients)

\* The invariant, by induction, of the steps of the worker.
IInv == TypeOK /\ OneOpened /\ ClientFirst /\ EndedIsFree /\ Counted

-----------------------------------------------------------------------------
(***************************************************************************)
(* The messages.                                                           *)
(***************************************************************************)

Message == [kind : MessageKinds, fate : MessageFates]

\* A message gets another fate: the lists keep their type, and only the list of
\* its socket changes, at its place.
LEMMA FateChanges ==
    ASSUME TypeOK, NEW s \in Sockets, NEW i, i \in DOMAIN messages[s],
           NEW fate \in MessageFates, Fate(s, i, fate)
    PROVE  /\ messages' \in [Sockets -> Seq(Message)]
           /\ \A q \in Sockets : DOMAIN messages'[q] = DOMAIN messages[q]
           /\ \A q \in Sockets : \A j \in DOMAIN messages[q] :
                 messages'[q][j].fate = IF q = s /\ j = i THEN fate
                                                         ELSE messages[q][j].fate
  <1> DEFINE m == messages[s]
             e == [m[i] EXCEPT !.fate = fate]
             n == [m EXCEPT ![i] = e]
  <1>1. messages \in [Sockets -> Seq(Message)]
    BY DEF TypeOK, Message
  <1>2. messages' = [messages EXCEPT ![s] = n]
    BY DEF Fate
  <1>3. m \in Seq(Message) /\ i \in DOMAIN m
    BY <1>1
  <1>4. m[i] \in Message
    BY <1>3, ElementOfSeq
  <1>5. e \in Message /\ e.fate = fate
    BY <1>4 DEF Message
  <1> HIDE DEF m, e
  <1>6. n \in Seq(Message) /\ DOMAIN n = DOMAIN m
    BY <1>3, <1>5
  <1>7. \A j \in DOMAIN m : n[j].fate = IF j = i THEN fate ELSE m[j].fate
    BY <1>3, <1>5
  <1> HIDE DEF n
  <1>8. /\ messages'[s] = n
        /\ \A q \in Sockets \ {s} : messages'[q] = messages[q]
        /\ messages' \in [Sockets -> Seq(Message)]
    BY <1>1, <1>2, <1>6
  <1> QED
    BY <1>6, <1>7, <1>8 DEF m

\* A message that did not open the connection, and gets another fate than that,
\* leaves the set of those that did as it is.
LEMMA OtherFate ==
    ASSUME TypeOK, NEW s \in Sockets, NEW i, NEW old, old # "opened",
           Met(s, i, old), NEW fate \in MessageFates \ {"opened"},
           Fate(s, i, fate)
    PROVE  \A q \in Sockets : Opened(q)' = Opened(q)
  <1>1. i \in DOMAIN messages[s] /\ messages[s][i].fate = old
    BY DEF Met
  <1> QED
    BY <1>1, FateChanges DEF Opened, Met

\* The message that opens the connection is added to that set.
LEMMA OpeningFate ==
    ASSUME TypeOK, NEW s \in Sockets, NEW i, Met(s, i, "inflating"),
           Fate(s, i, "opened")
    PROVE  /\ Opened(s)' = Opened(s) \cup {i}
           /\ \A q \in Sockets \ {s} : Opened(q)' = Opened(q)
  <1>1. i \in DOMAIN messages[s]
    BY DEF Met
  <1>2. "opened" \in MessageFates
    BY DEF MessageFates
  <1> QED
    BY <1>1, <1>2, FateChanges DEF Opened, Met

\* So is none by the arrival of a message.
LEMMA ArrivalOpensNone ==
    ASSUME TypeOK, NEW s \in Sockets, NEW kind \in MessageKinds, Arrive(s, kind)
    PROVE  /\ messages' \in [Sockets -> Seq(Message)]
           /\ \A q \in Sockets : Opened(q)' = Opened(q)
  <1> DEFINE m == messages[s]
             n == Append(m, [kind |-> kind, fate |-> "inflating"])
  <1>1. m \in Seq(Message) /\ messages \in [Sockets -> Seq(Message)]
    BY DEF TypeOK, Message
  <1>2. [kind |-> kind, fate |-> "inflating"] \in Message
    BY DEF Message, MessageFates
  <1>3. /\ n \in Seq(Message)
        /\ DOMAIN n = DOMAIN m \cup {Len(m) + 1}
        /\ \A j \in DOMAIN m : n[j] = m[j]
        /\ Len(m) + 1 \notin DOMAIN m
        /\ n[Len(m) + 1].fate = "inflating"
    BY <1>1, <1>2
  <1>4. messages' = [messages EXCEPT ![s] = n]
    BY DEF Arrive
  <1> HIDE DEF n, m
  <1>5. /\ messages'[s] = n
        /\ \A q \in Sockets \ {s} : messages'[q] = messages[q]
        /\ messages' \in [Sockets -> Seq(Message)]
    BY <1>1, <1>3, <1>4
  <1>6. Opened(s)' = Opened(s)
    BY <1>3, <1>5 DEF Opened, Met, m
  <1>7. \A q \in Sockets \ {s} : Opened(q)' = Opened(q)
    BY <1>5 DEF Opened, Met
  <1> QED
    BY <1>5, <1>6, <1>7

-----------------------------------------------------------------------------
(***************************************************************************)
(* The steps.                                                              *)
(***************************************************************************)

\* The two counts are of finite sets.
LEMMA CountsAreFinite ==
    /\ IsFiniteSet(Clients) /\ IsFiniteSet(Serving)
    /\ Cardinality(Clients) \in Nat /\ Cardinality(Serving) \in Nat
    /\ Cardinality(Clients) <= Cardinality(Sockets)
    /\ Cardinality(Sockets) \in Nat
  <1>1. Clients \in SUBSET Sockets /\ Serving \in SUBSET Sockets
    BY DEF Clients, Serving
  <1> QED
    BY <1>1, SocketsAssumption, FS_Subset, FS_CardinalityType

\* The names of the lives and of the events.
LEMMA LivesAndNone ==
    /\ Enet!Lives = {"free", "opening", "open", "closing", "lost"}
    /\ Enet!None = [type |-> "NONE", peer |-> -1]
    /\ \A s : Enet!None # [type |-> "CONNECT", peer |-> s]
    /\ \A s : Enet!None # [type |-> "RECEIVE", peer |-> s]
    /\ \A s : Enet!None # [type |-> "DISCONNECT", peer |-> s]
    /\ \A s : Enet!None.type # "DISCONNECT"
  <1>1. \A e, f : e = f => e.type = f.type
    OBVIOUS
  <1>2. /\ \A s : [type |-> "CONNECT", peer |-> s].type = "CONNECT"
        /\ \A s : [type |-> "RECEIVE", peer |-> s].type = "RECEIVE"
        /\ \A s : [type |-> "DISCONNECT", peer |-> s].type = "DISCONNECT"
        /\ [type |-> "NONE", peer |-> -1].type = "NONE"
    OBVIOUS
  <1> QED
    BY <1>1, <1>2, Zenon DEF Enet!Lives, Enet!None

\* Before the first message.
LEMMA Initially == Init => IInv
  <1> SUFFICES ASSUME Init PROVE IInv
    OBVIOUS
  <1> USE DEF Init, Enet!Init
  <1>1. TypeOK
    <2>1. enet \in 0 .. Cardinality(Sockets)
      BY CountsAreFinite
    <2> QED
      BY <2>1, LivesAndNone DEF TypeOK
  <1>2. \A s \in Sockets : Opened(s) = {} /\ ~Ending(s)
    <2>1. \A s \in Sockets : messages[s] = <<>> /\ event = Enet!None
      OBVIOUS
    <2>2. \A s \in Sockets : Opened(s) = {}
      BY <2>1 DEF Opened, Met
    <2>3. \A s \in Sockets : ~Ending(s)
      BY <2>1, LivesAndNone, Zenon DEF Ending
    <2> QED
      BY <2>2, <2>3
  <1>3. Clients = {} /\ Serving = {}
    BY DEF Clients, Serving
  <1>4. Counted
    BY <1>3, FS_EmptySet DEF Counted
  <1> QED
    BY <1>1, <1>2, <1>4 DEF IInv, OneOpened, ClientFirst, EndedIsFree

\* A step that neither opens a connection nor touches one keeps all that is
\* said about connections.
LEMMA Untouched ==
    ASSUME IInv, TypeOK', UNCHANGED <<client, enet, life, event>>,
           \A q \in Sockets : Opened(q)' = Opened(q)
    PROVE  IInv'
  <1>1. \A q \in Sockets : Ending(q)' = Ending(q)
    BY DEF Ending
  <1>2. Clients' = Clients /\ Serving' = Serving
    BY <1>1 DEF Clients, Serving
  <1>3. OneOpened' /\ ClientFirst' /\ EndedIsFree'
    BY <1>1 DEF IInv, OneOpened, ClientFirst, EndedIsFree
  <1> QED
    BY <1>2, <1>3 DEF IInv, Counted

\* What a step of the ENet side does to the connection of a client s: its life
\* goes on, or ends without a word, or with the event that says so.
Proceeds(s) ==
    \E to \in Enet!Lives :
        /\ event = Enet!None
        /\ life[s] # "free"
        /\ life' = [life EXCEPT ![s] = to]
        /\ \/ \A q : ~Ending(q)'
           \/ to = "free" /\ event' = [type |-> "DISCONNECT", peer |-> s]

\* Such a step keeps what is said about connections: the count of those that
\* rely on ENet does not grow.
LEMMA ProceedsKeeps ==
    ASSUME IInv, TypeOK', NEW s \in Sockets, client[s], Proceeds(s),
           UNCHANGED <<messages, client, enet>>
    PROVE  IInv'
  <1>1. PICK to \in Enet!Lives :
           /\ event = Enet!None
           /\ life[s] # "free"
           /\ life' = [life EXCEPT ![s] = to]
           /\ \/ \A q : ~Ending(q)'
              \/ to = "free" /\ event' = [type |-> "DISCONNECT", peer |-> s]
    BY DEF Proceeds
  <1>2. life \in [Sockets -> Enet!Lives]
    BY DEF IInv, TypeOK
  <1>3. /\ life'[s] = to
        /\ \A q \in Sockets \ {s} : life'[q] = life[q]
    BY <1>1, <1>2
  <1>4. \A q \in Sockets : Ending(q)' => q = s /\ to = "free"
    <2> SUFFICES ASSUME NEW q \in Sockets, Ending(q)'
                 PROVE  q = s /\ to = "free"
      OBVIOUS
    <2>1. event' = [type |-> "DISCONNECT", peer |-> q] /\ to = "free"
          /\ event' = [type |-> "DISCONNECT", peer |-> s]
      BY <1>1 DEF Ending
    <2> QED
      BY <2>1
  <1>5. \A q \in Sockets : Opened(q)' = Opened(q)
    BY DEF Opened, Met
  <1>6. OneOpened' /\ EndedIsFree'
    BY <1>3, <1>4, <1>5 DEF IInv, OneOpened, EndedIsFree
  <1>7. ClientFirst'
    BY <1>3, <1>4, <1>5 DEF IInv, ClientFirst
  <1>8. Serving' \in SUBSET Serving /\ Clients' = Clients
    BY <1>1, <1>3, <1>4 DEF Serving, Clients
  <1>9. /\ Cardinality(Serving') \in Nat
        /\ Cardinality(Serving') <= Cardinality(Serving)
        /\ Cardinality(Serving) \in Nat
    BY <1>8, CountsAreFinite, FS_Subset, FS_CardinalityType
  <1>10. Counted'
    BY <1>8, <1>9 DEF IInv, Counted
  <1> QED
    BY <1>6, <1>7, <1>10 DEF IInv

\* Each action of EnetPeerLife that a session takes part in is such a step.
LEMMA LifeProceeds ==
    ASSUME TypeOK, NEW s \in Sockets, Callback,
           \/ Enet!Establish(s) \/ Enet!Receive(s) \/ Enet!Close(s)
           \/ Enet!Lose(s) \/ Enet!End(s) \/ Enet!Abandon(s)
    PROVE  /\ Proceeds(s)
           /\ life' \in [Sockets -> Enet!Lives]
           /\ event' \in {Enet!None} \cup
                 [type : {"CONNECT", "RECEIVE", "DISCONNECT"}, peer : Sockets]
  <1> DEFINE Quiet == \A q : ~Ending(q)'
             Told == event' = [type |-> "DISCONNECT", peer |-> s]
             Typed == event' \in {Enet!None} \cup
                         [type : {"CONNECT", "RECEIVE", "DISCONNECT"},
                          peer : Sockets]
  <1>1. event = Enet!None /\ life \in [Sockets -> Enet!Lives]
    BY DEF Callback, TypeOK
  <1>2. ASSUME UNCHANGED event
        PROVE  Quiet /\ Typed
    BY <1>1, <1>2, LivesAndNone, Zenon DEF Ending
  <1>3. ASSUME NEW k \in {"CONNECT", "RECEIVE"},
               event' = [type |-> k, peer |-> s]
        PROVE  Quiet /\ Typed
    <2>1. event'.type = k /\ k # "DISCONNECT"
      BY <1>3
    <2> SUFFICES ASSUME NEW q, Ending(q)' PROVE FALSE
      BY <1>3
    <2>2. event'.type = "DISCONNECT"
      BY DEF Ending
    <2> QED
      BY <2>1, <2>2
  <1>4. ASSUME Told
        PROVE  Typed
    BY <1>4
  <1> HIDE DEF Quiet, Told, Typed
  <1> USE DEF Enet!Reports
  <1>5. \E to \in Enet!Lives :
           /\ life[s] # "free"
           /\ life' = [life EXCEPT ![s] = to]
           /\ Quiet \/ (to = "free" /\ Told)
    <2>1. Enet!Lives = {"free", "opening", "open", "closing", "lost"}
      BY LivesAndNone
    <2>2. CASE Enet!Establish(s)
      <3>1. life[s] \in {"opening"} /\ life' = [life EXCEPT ![s] = "open"]
        BY <2>2 DEF Enet!Establish, Enet!Becomes
      <3>2. Quiet
        BY <2>2, <1>3 DEF Enet!Establish
      <3>3. "open" \in Enet!Lives /\ life[s] # "free"
        BY <2>1, <3>1
      <3> QED
        BY <3>1, <3>2, <3>3
    <2>3. CASE Enet!Receive(s)
      <3>1. life[s] = "open" /\ life' = life /\ Quiet
        BY <2>3, <1>3 DEF Enet!Receive
      <3>2. life' = [life EXCEPT ![s] = "open"]
        BY <3>1, <1>1
      <3>3. "open" \in Enet!Lives /\ life[s] # "free"
        BY <2>1, <3>1
      <3> QED
        BY <3>1, <3>2, <3>3
    <2>4. CASE Enet!Close(s)
      <3>1. life[s] \in {"open"} /\ life' = [life EXCEPT ![s] = "closing"]
        BY <2>4 DEF Enet!Close, Enet!Becomes
      <3>2. Quiet
        BY <2>4, <1>2 DEF Enet!Close
      <3>3. "closing" \in Enet!Lives /\ life[s] # "free"
        BY <2>1, <3>1
      <3> QED
        BY <3>1, <3>2, <3>3
    <2>5. CASE Enet!Lose(s)
      <3>1. /\ life[s] \in {"opening", "open", "closing"}
            /\ life' = [life EXCEPT ![s] = "lost"]
        BY <2>5 DEF Enet!Lose, Enet!Becomes
      <3>2. Quiet
        BY <2>5, <1>2 DEF Enet!Lose
      <3>3. "lost" \in Enet!Lives /\ life[s] # "free"
        BY <2>1, <3>1
      <3> QED
        BY <3>1, <3>2, <3>3
    <2>6. CASE Enet!End(s)
      <3>1. life[s] \in Enet!Lives \ {"free"} /\ life' = [life EXCEPT ![s] = "free"]
        BY <2>6 DEF Enet!End, Enet!Becomes
      <3>2. Told
        BY <2>6 DEF Enet!End, Told
      <3>3. "free" \in Enet!Lives /\ life[s] # "free"
        BY <2>1, <3>1
      <3> QED
        BY <3>1, <3>2, <3>3
    <2>7. CASE Enet!Abandon(s)
      <3>1. life[s] \in {"opening"} /\ life' = [life EXCEPT ![s] = "free"]
        BY <2>7 DEF Enet!Abandon, Enet!Becomes
      <3>2. Quiet
        BY <2>7, <1>2 DEF Enet!Abandon
      <3>3. "free" \in Enet!Lives /\ life[s] # "free"
        BY <2>1, <3>1
      <3> QED
        BY <3>1, <3>2, <3>3
    <2> QED
      BY <2>2, <2>3, <2>4, <2>5, <2>6, <2>7
  <1>6. Typed
    BY <1>2, <1>3, <1>4
       DEF Enet!Establish, Enet!Receive, Enet!Close, Enet!Lose, Enet!End,
           Enet!Abandon, Told
  <1>7. life' \in [Sockets -> Enet!Lives]
    BY <1>1, <1>5
  <1>8. Proceeds(s)
    BY <1>1, <1>5 DEF Proceeds, Quiet, Told
  <1> QED
    BY <1>6, <1>7, <1>8 DEF Typed

\* The first INIT of a socket: one more client, and one more initialization.
LEMMA OpenClientKeeps ==
    ASSUME IInv, NEW s \in Sockets, NEW i, OpenClient(s, i)
    PROVE  IInv'
  <1>1. /\ Callback /\ Inflating(s, i) /\ ~client[s]
        /\ Fate(s, i, "opened")
        /\ client' = [client EXCEPT ![s] = TRUE]
        /\ enet' = enet + 1
        /\ Enet!Open(s)
        /\ UNCHANGED <<ws, packets>>
    BY DEF OpenClient
  <1>2. /\ TypeOK /\ client \in [Sockets -> BOOLEAN]
        /\ life \in [Sockets -> Enet!Lives] /\ enet \in Int
    BY DEF IInv, TypeOK, Counted
  <1>3. /\ life[s] = "free" /\ life' = [life EXCEPT ![s] = "opening"]
        /\ event = Enet!None /\ event' = event
    BY <1>1 DEF Enet!Open, Enet!Becomes, Callback
  <1>4. \A q : ~Ending(q) /\ ~Ending(q)'
    BY <1>3, LivesAndNone, Zenon DEF Ending
  <1>5. /\ Opened(s)' = Opened(s) \cup {i}
        /\ \A q \in Sockets \ {s} : Opened(q)' = Opened(q)
    BY <1>1, <1>2, OpeningFate DEF Inflating
  <1>6. Opened(s) = {}
    BY <1>1 DEF IInv, ClientFirst
  <1>7. /\ client'[s] /\ life'[s] = "opening"
        /\ \A q \in Sockets \ {s} : client'[q] = client[q] /\ life'[q] = life[q]
    BY <1>1, <1>2, <1>3
  <1>8. OneOpened'
    BY <1>5, <1>6 DEF IInv, OneOpened
  <1>9. ClientFirst'
    BY <1>4, <1>5, <1>7 DEF IInv, ClientFirst
  <1>10. EndedIsFree'
    BY <1>4 DEF EndedIsFree
  <1>11. /\ Clients' = Clients \cup {s} /\ s \notin Clients
         /\ Serving' = Serving \cup {s} /\ s \notin Serving
    BY <1>1, <1>4, <1>7 DEF Clients, Serving
  <1>12. /\ Cardinality(Clients') = Cardinality(Clients) + 1
         /\ Cardinality(Serving') = Cardinality(Serving) + 1
    BY <1>11, CountsAreFinite, FS_AddElement
  <1>13. Counted'
    BY <1>1, <1>2, <1>12, CountsAreFinite DEF IInv, Counted
  <1>14. TypeOK'
    <2>1. i \in DOMAIN messages[s] /\ "opened" \in MessageFates
      BY <1>1 DEF Inflating, Met, MessageFates
    <2>2. messages' \in [Sockets -> Seq(Message)]
      BY <1>1, <1>2, <2>1, FateChanges
    <2>3. client' \in [Sockets -> BOOLEAN] /\ life' \in [Sockets -> Enet!Lives]
      BY <1>1, <1>2, <1>3, LivesAndNone
    <2>4. Clients' \in SUBSET Sockets /\ Serving' \in SUBSET Sockets
      BY DEF Clients, Serving
    <2>5. /\ Cardinality(Clients') <= Cardinality(Sockets)
          /\ Cardinality(Clients') \in Nat /\ Cardinality(Serving') \in Nat
      BY <2>4, SocketsAssumption, FS_Subset, FS_CardinalityType
    <2>6. enet' \in 0 .. Cardinality(Sockets)
      BY <1>13, <2>5, CountsAreFinite DEF Counted
    <2> QED
      BY <1>1, <1>2, <1>3, <2>2, <2>3, <2>6 DEF TypeOK, Message
  <1> QED
    BY <1>8, <1>9, <1>10, <1>13, <1>14 DEF IInv

\* The disconnect handler: its connection is over, so one initialization less
\* is needed.
LEMMA EmitDisconnectKeeps ==
    ASSUME IInv, NEW s \in Sockets, EmitDisconnect(s)
    PROVE  IInv'
  <1>1. /\ Ending(s)
        /\ ws' = [ws EXCEPT ![s] = IF @ = "open" THEN "closing" ELSE @]
        /\ enet' = enet - 1
        /\ event' = Enet!None
        /\ UNCHANGED <<life, messages, packets, client>>
    BY DEF EmitDisconnect, Ending, Enet!Deliver
  <1>2. TypeOK /\ enet \in Int /\ life[s] = "free" /\ client[s]
    BY <1>1 DEF IInv, TypeOK, Counted, EndedIsFree, ClientFirst
  <1>3. \A q : ~Ending(q)'
    BY <1>1, LivesAndNone, Zenon DEF Ending
  <1>4. \A q \in Sockets : Opened(q)' = Opened(q)
    BY <1>1 DEF Opened, Met
  <1>5. OneOpened' /\ ClientFirst' /\ EndedIsFree'
    BY <1>1, <1>3, <1>4 DEF IInv, OneOpened, ClientFirst, EndedIsFree
  <1>6. \A q \in Sockets : Ending(q) => q = s
    BY <1>1 DEF Ending
  <1>7. /\ Clients' = Clients
        /\ Serving' = Serving \ {s} /\ s \in Serving
    BY <1>1, <1>2, <1>3, <1>6 DEF Clients, Serving
  <1>8. Cardinality(Serving') = Cardinality(Serving) - 1
    BY <1>7, CountsAreFinite, FS_RemoveElement
  <1>9. Counted'
    BY <1>1, <1>2, <1>7, <1>8, CountsAreFinite DEF IInv, Counted
  <1>10. TypeOK'
    <2>1. Cardinality(Serving') \in Nat
      BY <1>7, CountsAreFinite, FS_RemoveElement, FS_CardinalityType
    <2>2. enet' \in 0 .. Cardinality(Sockets)
      BY <1>7, <1>9, <2>1, CountsAreFinite DEF Counted
    <2>3. ws' \in [Sockets -> {"open", "closing", "closed"}]
      BY <1>1, <1>2 DEF TypeOK
    <2> QED
      BY <1>1, <1>2, <2>2, <2>3 DEF TypeOK
  <1> QED
    BY <1>5, <1>9, <1>10 DEF IInv

\* The other handlers: the event is taken, and was no disconnection.
LEMMA EmitOtherKeeps ==
    ASSUME IInv, TypeOK', NEW s \in Sockets, EmitConnect(s) \/ EmitReceive(s)
    PROVE  IInv'
  <1>1. PICK k \in {"CONNECT", "RECEIVE"} : event = [type |-> k, peer |-> s]
    BY DEF EmitConnect, EmitReceive
  <1>2. event' = Enet!None /\ UNCHANGED <<life, messages, client, enet>>
    BY DEF EmitConnect, EmitReceive, Enet!Deliver
  <1>3. \A q : ~Ending(q)
    <2> SUFFICES ASSUME NEW q, Ending(q) PROVE FALSE
      OBVIOUS
    <2>1. event.type = "DISCONNECT" /\ event.type = k
      BY <1>1 DEF Ending
    <2> QED
      BY <2>1
  <1>4. \A q : ~Ending(q)'
    BY <1>2, LivesAndNone, Zenon DEF Ending
  <1>5. \A q \in Sockets : Opened(q)' = Opened(q)
    BY <1>2 DEF Opened, Met
  <1>6. Clients' = Clients /\ Serving' = Serving
    BY <1>2, <1>3, <1>4 DEF Clients, Serving
  <1>7. OneOpened' /\ ClientFirst' /\ EndedIsFree'
    BY <1>2, <1>4, <1>5 DEF IInv, OneOpened, ClientFirst, EndedIsFree
  <1> QED
    BY <1>2, <1>6, <1>7 DEF IInv, Counted

\* A packet is appended, or gets another fate.
LEMMA PacketsType ==
    ASSUME TypeOK, NEW s \in Sockets, NEW fate \in {"deflating", "delivered", "lost"},
           \/ packets' = [packets EXCEPT ![s] = Append(@, fate)]
           \/ \E j \in DOMAIN packets[s] : packets' = [packets EXCEPT ![s][j] = fate]
    PROVE  packets' \in [Sockets -> Seq({"deflating", "delivered", "lost"})]
  <1> DEFINE Fates == {"deflating", "delivered", "lost"}
  <1>1. packets \in [Sockets -> Seq(Fates)] /\ fate \in Fates
    BY DEF TypeOK
  <1>2. packets[s] \in Seq(Fates)
    BY <1>1
  <1> HIDE DEF Fates
  <1>3. Append(packets[s], fate) \in Seq(Fates)
    BY <1>1, <1>2
  <1>4. \A j \in DOMAIN packets[s] : [packets[s] EXCEPT ![j] = fate] \in Seq(Fates)
    BY <1>1, <1>2
  <1>5. \E p \in Seq(Fates) : packets' = [packets EXCEPT ![s] = p]
    <2>1. CASE packets' = [packets EXCEPT ![s] = Append(@, fate)]
      BY <2>1, <1>3
    <2>2. CASE \E j \in DOMAIN packets[s] : packets' = [packets EXCEPT ![s][j] = fate]
      <3>1. PICK j \in DOMAIN packets[s] :
               packets' = [packets EXCEPT ![s] = [packets[s] EXCEPT ![j] = fate]]
        BY <2>2
      <3> QED
        BY <3>1, <1>4
    <2> QED
      BY <2>1, <2>2
  <1>6. packets' \in [Sockets -> Seq(Fates)]
    BY <1>1, <1>5
  <1> QED
    BY <1>6 DEF Fates

\* Messages of which the handlers make something else than a connection: they
\* arrive, are sent, refused, rejected, answered or lost.
LEMMA MessageStepKeeps ==
    ASSUME IInv, NEW s \in Sockets,
           \/ \E kind \in MessageKinds : Arrive(s, kind)
           \/ \E i : InflateFailed(s, i) \/ SendPacket(s, i) \/ AnswerDeflated(s, i)
    PROVE  IInv'
  <1>1. TypeOK
    BY DEF IInv
  <1>2. UNCHANGED <<ws, packets, client, enet, life, event>>
    BY DEF Arrive, InflateFailed, SendPacket, AnswerDeflated
  <1>3. /\ messages' \in [Sockets -> Seq(Message)]
        /\ \A q \in Sockets : Opened(q)' = Opened(q)
    <2>1. CASE \E kind \in MessageKinds : Arrive(s, kind)
      BY <1>1, <2>1, ArrivalOpensNone
    <2>2. CASE \E i : InflateFailed(s, i) \/ SendPacket(s, i) \/ AnswerDeflated(s, i)
      <3>1. PICK i : InflateFailed(s, i) \/ SendPacket(s, i) \/ AnswerDeflated(s, i)
        BY <2>2
      <3>2. \E old \in {"inflating", "answering"},
               fate \in MessageFates \ {"opened"} :
                  Met(s, i, old) /\ Fate(s, i, fate)
        <4>1. CASE InflateFailed(s, i)
          <5>1. Met(s, i, "inflating") /\ Fate(s, i, "answering")
            BY <4>1 DEF InflateFailed, Inflating
          <5> QED
            BY <5>1 DEF MessageFates
        <4>2. CASE SendPacket(s, i)
          <5>1. Met(s, i, "inflating")
            BY <4>2 DEF SendPacket, Inflating
          <5>2. client[s] \in BOOLEAN
            BY <1>1 DEF TypeOK
          <5>3. \/ Fate(s, i, "rejected") \/ Fate(s, i, "sent")
                \/ Fate(s, i, "refused")
            <6>1. CASE ~client[s]
              BY <4>2, <6>1 DEF SendPacket
            <6>2. CASE client[s] /\ life[s] = "open"
              BY <4>2, <6>2 DEF SendPacket
            <6>3. CASE client[s] /\ life[s] # "open"
              BY <4>2, <6>3 DEF SendPacket
            <6> QED
              BY <5>2, <6>1, <6>2, <6>3
          <5> QED
            BY <5>1, <5>3 DEF MessageFates
        <4>3. CASE AnswerDeflated(s, i)
          <5>1. /\ Met(s, i, "answering")
                /\ Fate(s, i, "answered") \/ Fate(s, i, "lost")
            BY <4>3 DEF AnswerDeflated, Arrives
          <5> QED
            BY <5>1 DEF MessageFates
        <4> QED
          BY <3>1, <4>1, <4>2, <4>3
      <3>3. PICK old \in {"inflating", "answering"},
                 fate \in MessageFates \ {"opened"} :
                    Met(s, i, old) /\ Fate(s, i, fate)
        BY <3>2
      <3>4. i \in DOMAIN messages[s]
        BY <3>3 DEF Met
      <3>5. messages' \in [Sockets -> Seq(Message)]
        BY <1>1, <3>3, <3>4, FateChanges
      <3>6. \A q \in Sockets : Opened(q)' = Opened(q)
        BY <1>1, <3>3, OtherFate
      <3> QED
        BY <3>5, <3>6
    <2> QED
      BY <2>1, <2>2
  <1>4. TypeOK'
    BY <1>1, <1>2, <1>3 DEF TypeOK, Message
  <1> QED
    BY <1>2, <1>3, <1>4, Untouched

\* Steps of the sockets and of the packets to the browser, which the ENet side
\* has no part in.
LEMMA SocketStepKeeps ==
    ASSUME IInv, NEW s \in Sockets,
           \/ BrowserCloses(s)
           \/ \E j : PacketDeflated(s, j)
    PROVE  IInv'
  <1>1. TypeOK /\ UNCHANGED <<messages, client, enet, life, event>>
    BY DEF IInv, BrowserCloses, PacketDeflated
  <1>2. \A q \in Sockets : Opened(q)' = Opened(q)
    BY <1>1 DEF Opened, Met
  <1>3. TypeOK'
    <2>1. CASE BrowserCloses(s)
      BY <1>1, <2>1 DEF BrowserCloses, TypeOK
    <2>2. CASE \E j : PacketDeflated(s, j)
      <3>1. PICK j : PacketDeflated(s, j)
        BY <2>2
      <3>2. \E fate \in {"delivered", "lost"} :
               /\ j \in DOMAIN packets[s]
               /\ packets' = [packets EXCEPT ![s][j] = fate]
        BY <3>1 DEF PacketDeflated, Arrives
      <3>3. packets' \in [Sockets -> Seq({"deflating", "delivered", "lost"})]
        BY <1>1, <3>2, PacketsType
      <3>4. ws' = ws
        BY <3>1 DEF PacketDeflated
      <3> QED
        BY <1>1, <3>3, <3>4 DEF TypeOK
    <2> QED
      BY <2>1, <2>2
  <1> QED
    BY <1>1, <1>2, <1>3, Untouched

\* The loop's call of enet_host_service, and the close of a socket.
LEMMA EnetStepKeeps ==
    ASSUME IInv, NEW s \in Sockets, Service(s) \/ SocketClosed(s)
    PROVE  IInv'
  <1>1. /\ TypeOK /\ Callback
        /\ UNCHANGED <<messages, packets, client, enet>>
    BY DEF IInv, Service, SocketClosed
  <1>2. ws' \in [Sockets -> {"open", "closing", "closed"}]
    BY <1>1 DEF Service, SocketClosed, TypeOK
  <1>3. CASE UNCHANGED <<life, event>>
    <2>1. TypeOK' /\ \A q \in Sockets : Opened(q)' = Opened(q)
      BY <1>1, <1>2, <1>3 DEF TypeOK, Opened, Met
    <2> QED
      BY <1>1, <1>3, <2>1, Untouched
  <1>4. CASE \/ Enet!Establish(s) \/ Enet!Receive(s) \/ Enet!Close(s)
             \/ Enet!Lose(s) \/ Enet!End(s) \/ Enet!Abandon(s)
    <2>1. /\ Proceeds(s)
          /\ life' \in [Sockets -> Enet!Lives]
          /\ event' \in {Enet!None} \cup
                [type : {"CONNECT", "RECEIVE", "DISCONNECT"}, peer : Sockets]
      BY <1>1, <1>4, LifeProceeds
    <2>2. TypeOK'
      BY <1>1, <1>2, <2>1 DEF TypeOK
    <2>3. client[s]
      BY <2>1 DEF Proceeds, IInv, ClientFirst
    <2> QED
      BY <1>1, <2>1, <2>2, <2>3, ProceedsKeeps
  <1> QED
    BY <1>3, <1>4 DEF Service, SocketClosed

-----------------------------------------------------------------------------
(***************************************************************************)
(* The theorems.                                                           *)
(***************************************************************************)

\* No step of the worker breaks the invariant.
LEMMA Inductive ==
    ASSUME IInv, [Next]_vars
    PROVE  IInv'
  <1>1. CASE UNCHANGED vars
    <2>1. TypeOK' /\ UNCHANGED <<client, enet, life, event>>
      BY <1>1 DEF vars, IInv, TypeOK
    <2>2. \A q \in Sockets : Opened(q)' = Opened(q)
      BY <1>1 DEF vars, Opened, Met
    <2> QED
      BY <2>1, <2>2, Untouched
  <1>2. CASE Next
    <2>1. PICK s \in Sockets :
             \/ \E kind \in MessageKinds : Arrive(s, kind)
             \/ BrowserCloses(s) \/ SocketClosed(s)
             \/ Service(s) \/ Emit(s)
             \/ \E i \in 1 .. MaxMessages : Inflated(s, i) \/ AnswerDeflated(s, i)
             \/ \E j \in 1 .. MaxPackets : PacketDeflated(s, j)
      BY <1>2 DEF Next
    <2>2. CASE \/ \E kind \in MessageKinds : Arrive(s, kind)
               \/ \E i : InflateFailed(s, i) \/ SendPacket(s, i)
                            \/ AnswerDeflated(s, i)
      BY <2>2, MessageStepKeeps
    <2>3. CASE \E i : OpenClient(s, i)
      BY <2>3, OpenClientKeeps
    <2>4. CASE BrowserCloses(s) \/ \E j : PacketDeflated(s, j)
      BY <2>4, SocketStepKeeps
    <2>5. CASE Service(s) \/ SocketClosed(s)
      BY <2>5, EnetStepKeeps
    <2>6. CASE EmitDisconnect(s)
      BY <2>6, EmitDisconnectKeeps
    <2>7. CASE EmitConnect(s) \/ EmitReceive(s)
      <3>1. /\ TypeOK
            /\ event' = Enet!None /\ UNCHANGED <<ws, messages, client, enet, life>>
        BY <2>7 DEF IInv, EmitConnect, EmitReceive, Enet!Deliver
      <3>2. packets' \in [Sockets -> Seq({"deflating", "delivered", "lost"})]
        <4>1. CASE EmitConnect(s)
          BY <3>1, <4>1 DEF EmitConnect, TypeOK
        <4>2. CASE EmitReceive(s)
          BY <3>1, <4>2, PacketsType DEF EmitReceive
        <4> QED
          BY <2>7, <4>1, <4>2
      <3>3. TypeOK'
        BY <3>1, <3>2 DEF TypeOK
      <3> QED
        BY <2>7, <3>3, EmitOtherKeeps
    <2> QED
      BY <2>1, <2>2, <2>3, <2>4, <2>5, <2>6, <2>7 DEF Inflated, Emit
  <1> QED
    BY <1>1, <1>2

\* The invariant holds in every state the worker reaches.
THEOREM Invariance == Spec => []IInv
  <1>1. Init => IInv
    BY Initially
  <1>2. IInv /\ [Next]_vars => IInv'
    BY Inductive
  <1> QED
    BY <1>1, <1>2, PTL DEF Spec

\* The types, and with them the bounds of the process-wide count: it is never
\* negative, however connections end.
THEOREM TypeCorrect == Spec => []TypeOK
  <1>1. IInv => TypeOK
    BY DEF IInv
  <1> QED
    BY <1>1, Invariance, PTL

\* However many INITs a socket sends, and whenever they are inflated, one of
\* them at most opens a connection.
THEOREM OneClientPerSocket == Spec => []OneClient
  <1>1. IInv => OneClient
    <2> SUFFICES ASSUME IInv, NEW s \in Sockets
                 PROVE  Cardinality(Opened(s)) <= 1
      BY DEF OneClient
    <2>1. \A i, j \in Opened(s) : i = j
      BY DEF IInv, OneOpened
    <2>2. CASE Opened(s) = {}
      BY <2>2, FS_EmptySet
    <2>3. CASE Opened(s) # {}
      <3>1. PICK i \in Opened(s) : TRUE
        BY <2>3
      <3>2. Opened(s) = {i}
        BY <2>1, <3>1
      <3>3. Cardinality({i}) = 1
        BY FS_Singleton
      <3> QED
        BY <3>2, <3>3
    <2> QED
      BY <2>2, <2>3
  <1> QED
    BY <1>1, Invariance, PTL

\* The process-wide ENet stays initialized for every connection in use, though
\* each disconnection deinitializes it.
THEOREM InitStaysBalanced == Spec => []InitBalanced
  <1>1. IInv => InitBalanced
    <2> SUFFICES ASSUME IInv PROVE InitBalanced
      OBVIOUS
    <2> DEFINE InUse == {s \in Sockets : client[s] /\ life[s] # "free"}
    <2>1. InUse \in SUBSET Serving
      BY DEF Serving
    <2>2. Cardinality(InUse) <= Cardinality(Serving) /\ Cardinality(InUse) \in Nat
      BY <2>1, CountsAreFinite, FS_Subset, FS_CardinalityType
    <2>3. enet \in Int /\ Cardinality(Serving) <= enet
      BY DEF IInv, Counted
    <2> HIDE DEF InUse
    <2>4. enet >= Cardinality(InUse)
      BY <2>2, <2>3, CountsAreFinite
    <2> QED
      BY <2>4 DEF InUse, InitBalanced
  <1> QED
    BY <1>1, Invariance, PTL
=============================================================================
