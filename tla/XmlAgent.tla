------------------------------ MODULE XmlAgent ------------------------------
(***************************************************************************)
(* The server of xmlnet (xmlnet_lib/xml_agent.cpp, the build for WIN32): the*)
(* thread xml_server accepts connections, the receiver selects on all of    *)
(* them and removes those that have ended, the sender takes messages from a *)
(* queue and sends each on its connection.  The three share connections_t,  *)
(* whose critical section each takes for a moment and lets go of while it   *)
(* waits in select; recv and send are called with it held.  recv waits for  *)
(* its peer there; send is one step, as the socket has room for a message   *)
(* when select finds it writable.  What a peer sends is not modelled (the   *)
(* parsing of requests is unfinished): a peer connects and closes.  The     *)
(* operating system gives the lowest free descriptor.                       *)
(***************************************************************************)
EXTENDS Naturals, Sequences, FiniteSets

CONSTANTS
    Descriptors,    \* numbers of sockets
    MaxConnections, \* bound on the connections before stop is called
    MaxMessages     \* bound on the messages given to send

ASSUME AgentAssumption == /\ Descriptors \subseteq Nat \ {0}
                          /\ IsFiniteSet(Descriptors)
                          /\ MaxConnections \in Nat /\ MaxMessages \in Nat

VARIABLES
    table,      \* _connections_map: id -> descriptor, 0 for an id that is not there
    owner,      \* owner[d]: the connection an open socket belongs to, 0 if closed
    closed,     \* the connections whose peer has closed
    accepted,   \* the descriptor accept has returned, not in the table yet, or 0
    nextId,     \* id of generateConnectionUniqueId
    server,     \* where the server thread is
    receiver,   \* where the receiver thread is
    ready,      \* its fdSet
    scan,       \* the ids it has still to look at, the critical section held
    sender,     \* where the sender thread is
    message,    \* the id of the message the sender has
    target,     \* the descriptor it selects on
    queue,      \* _queue: ids of messages, 0 for the NULL of terminate
    pushed,     \* messages given to send
    delivered,  \* pairs of the id of a message and the connection it was sent on
    stopping    \* stop was called

connVars == <<table, owner, accepted, nextId>>
agentVars == <<connVars, closed, server, receiver, ready, scan, sender, message,
               target, queue, pushed, delivered, stopping>>

Ids == 2 .. MaxConnections + 2
Connected == {n \in Ids : table[n] # 0}
NothingScanned == {}

AgentInit ==
    /\ table = [n \in Ids |-> 0] /\ owner = [d \in Descriptors |-> 0]
    /\ closed = {} /\ accepted = 0 /\ nextId = 1
    /\ server = "accept"
    /\ receiver = "fill" /\ ready = {} /\ scan = NothingScanned
    /\ sender = "get" /\ message = 0 /\ target = 0
    /\ queue = <<>> /\ pushed = 0 /\ delivered = {} /\ stopping = FALSE

\* The critical section is free: the receiver holds it while it scans.
CsFree == receiver # "scan"

ReceiverKeeps == UNCHANGED <<receiver, ready, scan>>
SenderKeeps == UNCHANGED <<sender, message, target>>

\* Mistake: the socket of a removed connection stays open.
RemoveOpen(n) == table' = [table EXCEPT ![n] = 0] /\ UNCHANGED owner

\* connections_t::remove: the destructor of the connection closes its socket.
RemoveConnection(n) ==
    /\ table' = [table EXCEPT ![n] = 0]
    /\ owner' = [owner EXCEPT ![table[n]] = 0]

-----------------------------------------------------------------------------
\* accept blocks until a peer connects; when stop was called it still does.
Accept ==
    /\ server = "accept"
    /\ nextId <= MaxConnections \/ stopping
    /\ \E d \in Descriptors :
          /\ owner[d] = 0 /\ \A e \in Descriptors : owner[e] = 0 => d <= e
          /\ accepted' = d
          /\ owner' = [owner EXCEPT ![d] = nextId + 1]
    /\ server' = "add"
    /\ UNCHANGED <<table, nextId, closed, queue, pushed, delivered, stopping>>
    /\ ReceiverKeeps /\ SenderKeeps

\* connections_t::add, then isTerminating
AddConnection ==
    /\ server = "add" /\ CsFree
    /\ nextId' = nextId + 1
    /\ table' = [table EXCEPT ![nextId'] = accepted]
    /\ accepted' = 0
    /\ server' = IF stopping THEN "stop receiver" ELSE "accept"
    /\ UNCHANGED <<owner, closed, queue, pushed, delivered, stopping>>
    /\ ReceiverKeeps /\ SenderKeeps

\* Mistake: stop of the sender sets a flag, which get does not look at.
StopReceiverNoPill ==
    /\ server = "stop receiver" /\ receiver = "done"
    /\ server' = "stop sender"
    /\ UNCHANGED <<connVars, closed, queue, pushed, delivered, stopping>>
    /\ ReceiverKeeps /\ SenderKeeps

\* onUninitialize: _receiver.stop() ...
StopReceiver ==
    /\ server = "stop receiver" /\ receiver = "done"
    /\ server' = "stop sender"
    /\ queue' = Append(queue, 0)
    /\ UNCHANGED <<connVars, closed, pushed, delivered, stopping>>
    /\ ReceiverKeeps /\ SenderKeeps

\* ... _sender.stop(), whose terminate has pushed NULL, close and clear.
ClearConnections ==
    /\ server = "stop sender" /\ sender = "done" /\ CsFree
    /\ server' = "off"
    /\ table' = [n \in Ids |-> 0]
    /\ owner' = [d \in Descriptors |-> 0]
    /\ UNCHANGED <<accepted, nextId, closed, queue, pushed, delivered, stopping>>
    /\ ReceiverKeeps /\ SenderKeeps

Server == Accept \/ AddConnection \/ StopReceiver \/ ClearConnections
-----------------------------------------------------------------------------
ReceiverOnly == /\ UNCHANGED <<accepted, nextId, closed, server, queue, pushed, delivered, stopping>>
                /\ SenderKeeps

\* isTerminating, then the set of the descriptors, under the critical section
Fill ==
    /\ receiver = "fill"
    /\ IF server = "stop receiver" THEN receiver' = "done" /\ ready' = {}
       ELSE /\ Connected # {}
            /\ receiver' = "select" /\ ready' = {table[n] : n \in Connected}
    /\ UNCHANGED <<table, owner, scan>> /\ ReceiverOnly

\* select returns the sockets that are readable, those whose peer has closed; ...
ReceiverSelect ==
    /\ receiver = "select"
    /\ ready' = {d \in ready : owner[d] \in closed}
    /\ ready' # {}
    /\ receiver' = "lock"
    /\ UNCHANGED <<table, owner, scan>> /\ ReceiverOnly

\* ... none in time; or an error, for a socket that was closed meanwhile.
ReceiverSelectsNone ==
    /\ receiver = "select"
    /\ (\A d \in ready : owner[d] \notin closed) \/ (\E d \in ready : owner[d] = 0)
    /\ receiver' = "fill" /\ ready' = {}
    /\ UNCHANGED <<table, owner, scan>> /\ ReceiverOnly

\* The loop over the map, by id, with the critical section held: recv where
\* FD_ISSET.  It returns 0 if the peer has closed; else it waits until it has.
ScanBegins ==
    /\ receiver = "lock"
    /\ receiver' = "scan"
    /\ scan' = {n \in Connected : table[n] \in ready}
    /\ UNCHANGED <<table, owner, ready>> /\ ReceiverOnly

Receive ==
    /\ receiver = "scan"
    /\ \E n \in scan :
          /\ \A m \in scan : n <= m
          /\ n \in closed
          /\ RemoveConnection(n)
          /\ scan' = scan \ {n}
    /\ UNCHANGED <<receiver, ready>> /\ ReceiverOnly

ScanEnds ==
    /\ receiver = "scan" /\ scan = NothingScanned
    /\ receiver' = "fill" /\ ready' = {}
    /\ UNCHANGED <<table, owner, scan>> /\ ReceiverOnly

Receiver == Fill \/ ReceiverSelect \/ ReceiverSelectsNone \/ ScanBegins \/ Receive \/ ScanEnds
-----------------------------------------------------------------------------
SenderOnly == /\ UNCHANGED <<accepted, nextId, closed, server, pushed, stopping>>
              /\ ReceiverKeeps

\* _queue.get(); NULL ends the loop.
TakeMessage ==
    /\ sender = "get" /\ queue # <<>>
    /\ queue' = Tail(queue)
    /\ message' = Head(queue)
    /\ sender' = IF message' = 0 THEN "done" ELSE "find"
    /\ UNCHANGED <<table, owner, target, delivered>> /\ SenderOnly

\* onMessage: connections_t::get throws if the connection has gone, and the message
\* with it.
FindConnection ==
    /\ sender = "find" /\ CsFree
    /\ target' = table[message]
    /\ sender' = IF target' = 0 THEN "get" ELSE "select"
    /\ UNCHANGED <<table, owner, message, queue, delivered>> /\ SenderOnly

\* select on the descriptor, without the critical section: writable, or not in
\* time, or an error.
SenderSelect ==
    /\ sender = "select"
    /\ sender' \in {"send", "fail"}
    /\ sender' = "send" => owner[target] # 0
    /\ UNCHANGED <<table, owner, message, target, queue, delivered>> /\ SenderOnly

\* Mistake: the message goes out on the descriptor that was selected.
SendUnchecked ==
    /\ sender = "send" /\ CsFree
    /\ delivered' = delivered \cup {<<message, owner[target]>>}
    /\ sender' = "get"
    /\ UNCHANGED <<table, owner, message, target, queue>> /\ SenderOnly

\* "now lock connections and re-check if the connection is still alive"
SendMessage ==
    /\ sender = "send" /\ CsFree
    /\ IF table[message] # 0
         THEN delivered' = delivered \cup {<<message, owner[table[message]]>>}
         ELSE UNCHANGED delivered
    /\ sender' = "get"
    /\ UNCHANGED <<table, owner, message, target, queue>> /\ SenderOnly

\* onConnectionFailure; remove throws if the connection has gone already.
SendFails ==
    /\ sender = "fail" /\ CsFree
    /\ IF table[message] # 0 THEN RemoveConnection(message) ELSE UNCHANGED <<table, owner>>
    /\ sender' = "get"
    /\ UNCHANGED <<message, target, queue, delivered>> /\ SenderOnly

Sender == TakeMessage \/ FindConnection \/ SenderSelect \/ SendMessage \/ SendFails
-----------------------------------------------------------------------------
EnvironmentOnly == /\ UNCHANGED <<connVars, server, delivered>>
                   /\ ReceiverKeeps /\ SenderKeeps

\* xml_server::send, for a connection there is or has been
Enqueue(n) ==
    /\ pushed < MaxMessages /\ n <= nextId /\ server # "off"
    /\ queue' = Append(queue, n) /\ pushed' = pushed + 1
    /\ UNCHANGED <<closed, stopping>> /\ EnvironmentOnly

StopServer == /\ ~stopping /\ stopping' = TRUE
        /\ UNCHANGED <<closed, queue, pushed>> /\ EnvironmentOnly

PeerCloses(n) ==
    /\ n \in {owner[d] : d \in Descriptors} \ closed
    /\ closed' = closed \cup {n}
    /\ UNCHANGED <<queue, pushed, stopping>> /\ EnvironmentOnly

AgentNext == \/ Server \/ Receiver \/ Sender \/ StopServer
             \/ \E n \in Ids : Enqueue(n) \/ PeerCloses(n)

\* Threads run, somebody connects while accept waits, and peers close in the end.
AgentFairness ==
    /\ WF_agentVars(Server) /\ WF_agentVars(Fill \/ ScanBegins \/ Receive \/ ScanEnds)
    /\ WF_agentVars(ReceiverSelect \/ ReceiverSelectsNone)
    /\ WF_agentVars(Sender) /\ \A n \in Ids : WF_agentVars(PeerCloses(n))

AgentSpec == AgentInit /\ [][AgentNext]_agentVars /\ AgentFairness
-----------------------------------------------------------------------------
\* The table and the open sockets agree: each connection of the table has a socket
\* of its own, which is open; each open socket is one of the table's, or the one
\* that accept has just returned, which is nobody else's; none stays open that
\* nobody knows, not even after stop.
TableMatchesSockets ==
    /\ \A n \in Connected : owner[table[n]] = n /\ table[n] # accepted
    /\ accepted # 0 => owner[accepted] = nextId + 1
    /\ \A d \in Descriptors :
          owner[d] # 0 => d = accepted \/ \E n \in Connected : table[n] = d

\* A message goes out on the connection it is for, also if that one is removed
\* and its descriptor used again while the sender waits in select.
SentToOwner == \A p \in delivered : p[1] = p[2]

\* The connections are destroyed when no thread uses them any more.
QuietWhenCleared ==
    server = "off" => receiver = "done" /\ sender = "done" /\ Connected = {}

\* stop returns, although accept, recv and select block, once somebody connects
\* and peers close.
StopReturns == stopping ~> server = "off"
=============================================================================
