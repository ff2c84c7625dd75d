--------------------------- MODULE XmlAgentProofs ---------------------------
(***************************************************************************)
(* Proofs about XmlAgent, for any finite set of descriptors and any bounds  *)
(* on connections and messages: the table and the open sockets agree, so    *)
(* that every message goes out on its own connection, and the connections   *)
(* are destroyed only when the two threads that use them have ended.        *)
(***************************************************************************)
EXTENDS XmlAgent, SequenceTheorems, TLAPS

AgentTypeOK ==
    /\ table \in [Ids -> Descriptors \cup {0}] /\ owner \in [Descriptors -> Nat]
    /\ accepted \in Descriptors \cup {0} /\ nextId \in Nat \ {0}
    /\ server \in {"accept", "add", "stop receiver", "stop sender", "off"}
    /\ receiver \in {"fill", "select", "lock", "scan", "done"} /\ scan \subseteq Ids
    /\ sender \in {"get", "find", "select", "send", "fail", "done"}
    /\ message \in Ids \cup {0} /\ queue \in Seq(Ids \cup {0})
    /\ stopping \in BOOLEAN

\* The two directions of the agreement.
TableOwned == \A n \in Ids : table[n] # 0 => owner[table[n]] = n
OwnersKnown == \A d \in Descriptors :
                  owner[d] # 0 => d = accepted \/ (owner[d] \in Ids /\ table[owner[d]] = d)

\* The socket between accept and add is open for the id that add will take ...
AcceptedInv ==
    /\ accepted # 0 <=> server = "add"
    /\ accepted # 0 => owner[accepted] = nextId + 1

\* ... which nobody has had before and which the bounds leave room for.
NumberInv ==
    /\ \A n \in Ids : n > nextId => table[n] = 0
    /\ server \in {"accept", "add"} => nextId <= MaxConnections + 1
    /\ server = "add" /\ ~stopping => nextId <= MaxConnections

\* What the sender has taken is the id of a connection.
MessageInv == sender \in {"find", "select", "send", "fail"} => message \in Ids

\* stop waits for the receiver, then for the sender, then clears.
StopOrder ==
    /\ server \in {"stop sender", "off"} => receiver = "done"
    /\ server = "off" => sender = "done" /\ Connected = {}

AgentInv == /\ AgentTypeOK /\ TableOwned /\ OwnersKnown /\ AcceptedInv /\ NumberInv
            /\ MessageInv /\ StopOrder /\ SentToOwner

LEMMA IdsAreNumbers == Ids \subseteq Nat \ {0} /\ Descriptors \subseteq Nat \ {0}
BY AgentAssumption DEF Ids

LEMMA AgentInitInv == AgentInit => AgentInv
<1> SUFFICES ASSUME AgentInit PROVE AgentInv
  OBVIOUS
<1> USE AgentAssumption, IdsAreNumbers DEF AgentInit
<1>1. queue \in Seq(Ids \cup {0})
  BY EmptySeq
<1>2. AgentTypeOK
  <2>1. /\ table \in [Ids -> Descriptors \cup {0}] /\ owner \in [Descriptors -> Nat]
        /\ accepted \in Descriptors \cup {0} /\ nextId \in Nat \ {0}
    OBVIOUS
  <2>2. scan \subseteq Ids /\ message \in Ids \cup {0} /\ stopping \in BOOLEAN
    BY DEF NothingScanned
  <2> QED
    BY <1>1, <2>1, <2>2 DEF AgentTypeOK
<1>3. TableOwned /\ OwnersKnown /\ AcceptedInv /\ NumberInv
  BY DEF TableOwned, OwnersKnown, AcceptedInv, NumberInv
<1>4. MessageInv /\ StopOrder /\ SentToOwner
  BY DEF MessageInv, StopOrder, SentToOwner
<1> QED
  BY <1>2, <1>3, <1>4 DEF AgentInv

\* The two parts of the invariant that speak of the table ...
ConnInv == TableOwned /\ OwnersKnown

\* ... survive the removal of one, whether it is in the table or not.
LEMMA RemoveConn ==
  ASSUME AgentInv, NEW n \in Ids, RemoveConnection(n), accepted' = accepted,
         table[n] # 0 => table[n] # accepted
  PROVE  /\ table' \in [Ids -> Descriptors \cup {0}] /\ owner' \in [Descriptors -> Nat]
         /\ ConnInv'
         /\ \A m \in Ids : table[m] = 0 => table'[m] = 0
         /\ accepted # 0 => owner'[accepted] = owner[accepted]
<1> USE AgentAssumption, IdsAreNumbers DEF AgentInv, AgentTypeOK, RemoveConnection
<1>1. table' \in [Ids -> Descriptors \cup {0}] /\ owner' \in [Descriptors -> Nat]
  OBVIOUS
<1>2. TableOwned'
  <2> SUFFICES ASSUME NEW m \in Ids, table'[m] # 0 PROVE owner'[table'[m]] = m
    BY DEF TableOwned
  <2>1. m # n /\ table'[m] = table[m] /\ owner[table[m]] = m
    BY DEF TableOwned
  <2>2. table[n] # table[m]
    BY <2>1 DEF TableOwned
  <2> QED
    BY <2>1, <2>2
<1>3. OwnersKnown'
  <2> SUFFICES ASSUME NEW d \in Descriptors, owner'[d] # 0, d # accepted
               PROVE  owner'[d] \in Ids /\ table'[owner'[d]] = d
    BY DEF OwnersKnown
  <2>1. d # table[n] /\ owner'[d] = owner[d]
    OBVIOUS
  <2>2. owner[d] \in Ids /\ table[owner[d]] = d
    BY <2>1 DEF OwnersKnown
  <2> QED
    BY <2>1, <2>2
<1>4. \A m \in Ids : table[m] = 0 => table'[m] = 0
  OBVIOUS
<1>5. accepted # 0 => owner'[accepted] = owner[accepted]
  OBVIOUS
<1> QED
  BY <1>1, <1>2, <1>3, <1>4, <1>5 DEF ConnInv

\* A connection in the table is not the one that is still to be added.
LEMMA AcceptedIsNew ==
  ASSUME AgentInv, NEW n \in Ids, table[n] # 0
  PROVE  table[n] # accepted
<1> SUFFICES ASSUME table[n] = accepted PROVE FALSE
  OBVIOUS
<1>1. n = nextId + 1
  BY DEF AgentInv, AcceptedInv, TableOwned
<1>2. nextId \in Nat
  BY DEF AgentInv, AgentTypeOK
<1>3. n > nextId
  BY <1>1, <1>2
<1> QED
  BY <1>3 DEF AgentInv, NumberInv

-----------------------------------------------------------------------------
LEMMA AcceptInv ==
  ASSUME AgentInv, Accept
  PROVE  AgentInv'
<1> USE AgentAssumption, IdsAreNumbers DEF AgentInv, ReceiverKeeps, SenderKeeps
<1>1. PICK d \in Descriptors : /\ owner[d] = 0 /\ accepted' = d
                               /\ owner' = [owner EXCEPT ![d] = nextId + 1]
  BY DEF Accept
<1>2. AgentTypeOK'
  BY <1>1 DEF Accept, AgentTypeOK
<1>3. TableOwned'
  <2> SUFFICES ASSUME NEW n \in Ids, table[n] # 0 PROVE owner'[table[n]] = n
    BY DEF Accept, TableOwned
  <2>1. owner[table[n]] = n /\ n # 0
    BY DEF TableOwned
  <2> QED
    BY <1>1, <2>1 DEF AgentTypeOK
<1>4. OwnersKnown'
  BY <1>1 DEF Accept, AgentTypeOK, OwnersKnown, AcceptedInv
<1>5. AcceptedInv'
  BY <1>1 DEF Accept, AgentTypeOK, AcceptedInv
<1>6. NumberInv'
  BY DEF Accept, AgentTypeOK, NumberInv
<1>7. MessageInv' /\ StopOrder' /\ SentToOwner'
  BY DEF Accept, MessageInv, StopOrder, SentToOwner, Connected
<1> QED
  BY <1>2, <1>3, <1>4, <1>5, <1>6, <1>7

LEMMA AddInv ==
  ASSUME AgentInv, AddConnection
  PROVE  AgentInv'
<1> USE AgentAssumption, IdsAreNumbers DEF AgentInv
<1>1. /\ server = "add" /\ nextId' = nextId + 1
      /\ table' = [table EXCEPT ![nextId + 1] = accepted]
      /\ accepted' = 0 /\ owner' = owner
      /\ server' \in {"accept", "stop receiver"}
      /\ server' = "accept" => ~stopping
      /\ UNCHANGED <<receiver, scan, sender, message, queue, delivered, stopping>>
  BY DEF AddConnection, ReceiverKeeps, SenderKeeps
<1>2. nextId \in Nat \ {0} /\ nextId <= MaxConnections + 1
  BY <1>1 DEF NumberInv, AgentTypeOK
<1>3. nextId + 1 \in Ids /\ nextId + 1 \in Nat \ {0}
  BY <1>2 DEF Ids
<1>4. /\ accepted \in Descriptors /\ owner[accepted] = nextId + 1
      /\ table \in [Ids -> Descriptors \cup {0}]
  BY <1>1 DEF AcceptedInv, AgentTypeOK
<1>5. AgentTypeOK'
  <2>1. table' \in [Ids -> Descriptors \cup {0}]
    BY <1>1, <1>3, <1>4
  <2> QED
    BY <1>1, <1>3, <2>1 DEF AgentTypeOK
<1>6. TableOwned'
  BY <1>1, <1>4 DEF TableOwned
<1>7. OwnersKnown'
  <2> SUFFICES ASSUME NEW d \in Descriptors, owner[d] # 0
               PROVE  owner[d] \in Ids /\ table'[owner[d]] = d
    BY <1>1 DEF OwnersKnown
  <2>1. CASE d = accepted
    BY <1>1, <1>3, <1>4, <2>1
  <2>2. CASE d # accepted
    <3>1. owner[d] \in Ids /\ table[owner[d]] = d
      BY <2>2 DEF OwnersKnown
    <3>2. nextId + 1 > nextId
      BY <1>2
    <3>3. table[nextId + 1] = 0
      BY <1>3, <3>2 DEF NumberInv
    <3>4. owner[d] # nextId + 1
      BY <3>1, <3>3
    <3> QED
      BY <1>1, <1>4, <3>1, <3>4
  <2> QED
    BY <2>1, <2>2
<1>8. AcceptedInv'
  BY <1>1 DEF AcceptedInv
<1>9. NumberInv'
  <2>1. ASSUME NEW n \in Ids, n > nextId + 1 PROVE table'[n] = 0
    <3>1. n > nextId /\ n # nextId + 1
      BY <2>1, <1>2
    <3> QED
      BY <1>1, <1>4, <3>1 DEF NumberInv
  <2>2. server' = "accept" => nextId + 1 <= MaxConnections + 1
    BY <1>1, <1>2 DEF NumberInv
  <2> QED
    BY <1>1, <2>1, <2>2 DEF NumberInv
<1>10. MessageInv' /\ StopOrder' /\ SentToOwner'
  BY <1>1 DEF MessageInv, StopOrder, SentToOwner
<1> QED
  BY <1>5, <1>6, <1>7, <1>8, <1>9, <1>10

\* Steps that leave the table and the sockets alone.
LEMMA ConnectionsKept ==
  ASSUME AgentInv, UNCHANGED <<connVars, server>>, stopping => stopping'
  PROVE  TableOwned' /\ OwnersKnown' /\ AcceptedInv' /\ NumberInv' /\ Connected' = Connected
BY DEF AgentInv, connVars, TableOwned, OwnersKnown, AcceptedInv, NumberInv, Connected

LEMMA StopReceiverInv ==
  ASSUME AgentInv, StopReceiver
  PROVE  AgentInv'
<1> USE DEF AgentInv, StopReceiver, ReceiverKeeps, SenderKeeps, connVars
<1>1. queue' \in Seq(Ids \cup {0})
  BY AppendProperties DEF AgentTypeOK
<1>2. AgentTypeOK'
  BY <1>1 DEF AgentTypeOK
<1>3. TableOwned' /\ OwnersKnown' /\ AcceptedInv' /\ NumberInv'
  BY DEF TableOwned, OwnersKnown, AcceptedInv, NumberInv
<1>4. MessageInv' /\ StopOrder' /\ SentToOwner'
  BY DEF MessageInv, StopOrder, SentToOwner
<1> QED
  BY <1>2, <1>3, <1>4

LEMMA ClearInv ==
  ASSUME AgentInv, ClearConnections
  PROVE  AgentInv'
<1> USE AgentAssumption, IdsAreNumbers
    DEF AgentInv, ClearConnections, ReceiverKeeps, SenderKeeps
<1>1. AgentTypeOK'
  BY DEF AgentTypeOK
<1>2. TableOwned' /\ OwnersKnown' /\ AcceptedInv' /\ NumberInv'
  BY DEF TableOwned, OwnersKnown, AcceptedInv, NumberInv, AgentTypeOK
<1>3. MessageInv' /\ StopOrder' /\ SentToOwner'
  BY DEF MessageInv, StopOrder, SentToOwner, Connected, AgentTypeOK
<1> QED
  BY <1>1, <1>2, <1>3

\* The receiver only ever removes connections, and only while server runs.
LEMMA ReceiverInv ==
  ASSUME AgentInv, Receiver
  PROVE  AgentInv'
<1> USE AgentAssumption, IdsAreNumbers DEF AgentInv
<1>1. ReceiverOnly /\ SenderKeeps
  BY DEF Receiver, Fill, ReceiverSelect, ReceiverSelectsNone, ScanBegins, Receive,
         ScanEnds, ReceiverOnly
<1>2. /\ receiver' \in {"fill", "select", "lock", "scan", "done"}
      /\ scan' \subseteq Ids
      /\ receiver # "done"
  BY DEF Receiver, Fill, ReceiverSelect, ReceiverSelectsNone, ScanBegins, Receive,
         ScanEnds, AgentTypeOK, Connected
<1>3. \/ UNCHANGED <<table, owner>>
      \/ \E n \in Ids : RemoveConnection(n)
  BY DEF Receiver, Fill, ReceiverSelect, ReceiverSelectsNone, ScanBegins, Receive,
         ScanEnds, AgentTypeOK
<1>4. /\ table' \in [Ids -> Descriptors \cup {0}] /\ owner' \in [Descriptors -> Nat]
      /\ ConnInv'
      /\ \A m \in Ids : table[m] = 0 => table'[m] = 0
      /\ accepted # 0 => owner'[accepted] = owner[accepted]
  <2>1. CASE UNCHANGED <<table, owner>>
    BY <1>1, <2>1 DEF AgentTypeOK, ConnInv, TableOwned, OwnersKnown, ReceiverOnly
  <2>2. CASE \E n \in Ids : RemoveConnection(n)
    BY <1>1, <2>2, RemoveConn, AcceptedIsNew DEF ReceiverOnly
  <2> QED
    BY <1>3, <2>1, <2>2
<1>5. AgentTypeOK'
  BY <1>1, <1>2, <1>4 DEF AgentTypeOK, ReceiverOnly, SenderKeeps
<1>6. AcceptedInv' /\ NumberInv'
  BY <1>1, <1>4 DEF AcceptedInv, NumberInv, ReceiverOnly
<1>7. MessageInv' /\ StopOrder' /\ SentToOwner'
  BY <1>1, <1>2 DEF MessageInv, StopOrder, SentToOwner, ReceiverOnly, SenderKeeps
<1> QED
  BY <1>4, <1>5, <1>6, <1>7 DEF ConnInv

\* The sender removes the connection of its message, or sends on it: then it is
\* in the table, and the socket is its own.
LEMMA SenderInv ==
  ASSUME AgentInv, Sender
  PROVE  AgentInv'
<1> USE AgentAssumption, IdsAreNumbers DEF AgentInv
<1>1. SenderOnly /\ ReceiverKeeps
  BY DEF Sender, TakeMessage, FindConnection, SenderSelect, SendMessage, SendFails, SenderOnly
<1>2. /\ sender # "done" /\ sender' \in {"get", "find", "select", "send", "fail", "done"}
      /\ message' \in Ids \cup {0} /\ queue' \in Seq(Ids \cup {0})
      /\ MessageInv'
  <2>1. CASE TakeMessage
    <3>1. Head(queue) \in Ids \cup {0} /\ Tail(queue) \in Seq(Ids \cup {0})
      BY <2>1, HeadTailProperties DEF TakeMessage, AgentTypeOK
    <3> QED
      BY <2>1, <3>1 DEF TakeMessage, MessageInv
  <2>2. CASE FindConnection \/ SenderSelect \/ SendMessage \/ SendFails
    BY <2>2 DEF FindConnection, SenderSelect, SendMessage, SendFails, AgentTypeOK, MessageInv
  <2> QED
    BY <2>1, <2>2 DEF Sender
<1>3. \/ UNCHANGED <<table, owner>>
      \/ \E n \in Ids : RemoveConnection(n)
  BY DEF Sender, TakeMessage, FindConnection, SenderSelect, SendMessage, SendFails, MessageInv
<1>4. /\ table' \in [Ids -> Descriptors \cup {0}] /\ owner' \in [Descriptors -> Nat]
      /\ ConnInv'
      /\ \A m \in Ids : table[m] = 0 => table'[m] = 0
      /\ accepted # 0 => owner'[accepted] = owner[accepted]
  <2>1. CASE UNCHANGED <<table, owner>>
    BY <1>1, <2>1 DEF AgentTypeOK, ConnInv, TableOwned, OwnersKnown, SenderOnly
  <2>2. CASE \E n \in Ids : RemoveConnection(n)
    BY <1>1, <2>2, RemoveConn, AcceptedIsNew DEF SenderOnly
  <2> QED
    BY <1>3, <2>1, <2>2
<1>5. AgentTypeOK'
  BY <1>1, <1>2, <1>4 DEF AgentTypeOK, SenderOnly, ReceiverKeeps
<1>6. AcceptedInv' /\ NumberInv'
  BY <1>1, <1>4 DEF AcceptedInv, NumberInv, SenderOnly
<1>7. StopOrder'
  BY <1>1, <1>2, <1>4 DEF StopOrder, SenderOnly, ReceiverKeeps, Connected
<1>8. SentToOwner'
  <2>1. CASE SendMessage
    <3>1. delivered' = delivered \/ delivered' = delivered \cup {<<message, message>>}
      BY <2>1 DEF SendMessage, MessageInv, TableOwned
    <3> QED
      BY <3>1 DEF SentToOwner
  <2>2. CASE delivered' = delivered
    BY <2>2 DEF SentToOwner
  <2> QED
    BY <2>1, <2>2 DEF Sender, TakeMessage, FindConnection, SenderSelect, SendFails
<1> QED
  BY <1>2, <1>4, <1>5, <1>6, <1>7, <1>8 DEF ConnInv

\* Messages are given, peers close, stop is called.
LEMMA EnvironmentInv ==
  ASSUME AgentInv,
         StopServer \/ \E n \in Ids : Enqueue(n) \/ PeerCloses(n)
  PROVE  AgentInv'
<1> USE DEF AgentInv
<1>1. /\ EnvironmentOnly /\ ReceiverKeeps /\ SenderKeeps
      /\ UNCHANGED <<connVars, server>> /\ UNCHANGED delivered
      /\ stopping => stopping'
      /\ stopping' \in BOOLEAN
  BY DEF StopServer, Enqueue, PeerCloses, EnvironmentOnly, AgentTypeOK
<1>2. queue' \in Seq(Ids \cup {0})
  <2>1. ASSUME NEW n \in Ids, Enqueue(n) PROVE queue' \in Seq(Ids \cup {0})
    BY <2>1, AppendProperties DEF Enqueue, AgentTypeOK
  <2>2. CASE queue' = queue
    BY <2>2 DEF AgentTypeOK
  <2> QED
    BY <2>1, <2>2 DEF StopServer, PeerCloses
<1>3. AgentTypeOK'
  <2>1. UNCHANGED <<table, owner, accepted, nextId, server, receiver, scan, sender, message>>
    BY <1>1 DEF ReceiverKeeps, SenderKeeps, connVars
  <2> QED
    BY <1>1, <1>2, <2>1 DEF AgentTypeOK
<1>4. TableOwned' /\ OwnersKnown' /\ AcceptedInv' /\ NumberInv' /\ Connected' = Connected
  BY <1>1, ConnectionsKept
<1>5. MessageInv' /\ StopOrder' /\ SentToOwner'
  BY <1>1, <1>4 DEF MessageInv, StopOrder, SentToOwner, ReceiverKeeps, SenderKeeps
<1> QED
  BY <1>3, <1>4, <1>5

LEMMA AgentInductive == AgentInv /\ [AgentNext]_agentVars => AgentInv'
<1> SUFFICES ASSUME AgentInv, [AgentNext]_agentVars PROVE AgentInv'
  OBVIOUS
<1>1. CASE Server
  BY <1>1, AcceptInv, AddInv, StopReceiverInv, ClearInv DEF Server
<1>2. CASE Receiver \/ Sender
  BY <1>2, ReceiverInv, SenderInv
<1>3. CASE StopServer \/ \E n \in Ids : Enqueue(n) \/ PeerCloses(n)
  BY <1>3, EnvironmentInv
<1>4. CASE UNCHANGED agentVars
  BY <1>4 DEF agentVars, connVars, AgentInv, AgentTypeOK, TableOwned, OwnersKnown,
              AcceptedInv, NumberInv, MessageInv, StopOrder, SentToOwner, Connected
<1> QED
  BY <1>1, <1>2, <1>3, <1>4 DEF AgentNext

LEMMA AgentInvariant == AgentSpec => []AgentInv
BY AgentInitInv, AgentInductive, PTL DEF AgentSpec
-----------------------------------------------------------------------------
\* No two connections share a socket, none has one that is closed or that accept
\* has just returned, and no socket is open that neither the table nor accept knows.
THEOREM SocketsKnown == AgentSpec => []TableMatchesSockets
<1>1. AgentInv => TableMatchesSockets
  <2> SUFFICES ASSUME AgentInv PROVE TableMatchesSockets
    OBVIOUS
  <2>1. \A n \in Connected : owner[table[n]] = n /\ table[n] # accepted
    BY AcceptedIsNew DEF AgentInv, TableOwned, Connected
  <2>2. accepted # 0 => owner[accepted] = nextId + 1
    BY DEF AgentInv, AcceptedInv
  <2>3. ASSUME NEW d \in Descriptors, owner[d] # 0, d # accepted
        PROVE  \E n \in Connected : table[n] = d
    BY <2>3, IdsAreNumbers DEF AgentInv, OwnersKnown, Connected
  <2> QED
    BY <2>1, <2>2, <2>3 DEF TableMatchesSockets
<1> QED
  BY <1>1, AgentInvariant, PTL

\* The check that onMessage makes after select is enough: no message goes out on
\* a descriptor that was used again for another connection.
THEOREM OwnConnection == AgentSpec => []SentToOwner
<1>1. AgentInv => SentToOwner
  BY DEF AgentInv
<1> QED
  BY <1>1, AgentInvariant, PTL

\* onUninitialize destroys the connections when the receiver and the sender, in
\* whatever state stop has found them, have ended.
THEOREM NobodyUsesCleared == AgentSpec => []QuietWhenCleared
<1>1. AgentInv => QuietWhenCleared
  BY DEF AgentInv, StopOrder, QuietWhenCleared
<1> QED
  BY <1>1, AgentInvariant, PTL
=============================================================================
