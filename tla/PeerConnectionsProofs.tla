------------------------ MODULE PeerConnectionsProofs ------------------------
(***************************************************************************)
(* Proofs about PeerConnections, for any number of storage nodes and of    *)
(* connections.                                                            *)
(***************************************************************************)
EXTENDS PeerConnections, TLAPS

Places == {"asleep", "ranging", "picked", "checking", "lost", "copying", "replacing",
           "nil connection", "bad capacity"}
WatchType == [at : Places, todo : SUBSET Peers, seen : SUBSET Peers,
              name : Peers \cup {NoName}, kept : SUBSET Peers]

\* The watchdog drops only what has a name.
LostIsNamed == watch.at = "lost" => watch.name \in Peers

\* Every step of a node and of its connections' goroutines keeps the types.
LEMMA ConnStepType ==
  ASSUME TypeOK, NEW c \in Conns, NodeStep(c) \/ ServeStep(c) \/ GreetStep(c)
  PROVE  TypeOK'
<1> USE ConnAssumption
<1>1. CASE Dial(c)
  <2>1. link' \in [Conns -> {"unused", "open", "broken"}] BY <1>1 DEF Dial, TypeOK
  <2>2. inbox' \in [Conns -> SUBSET Messages] BY <1>1 DEF Dial, Messages, TypeOK
  <2>3. UNCHANGED <<hand, greeting, tables, request, watch, history>> BY <1>1 DEF Dial
  <2> QED BY <1>1, <2>1, <2>2, <2>3 DEF Dial, TypeOK, tables, history
<1>2. CASE Break(c) BY <1>2 DEF Break, TypeOK, serving, tables, history
<1>3. CASE ReadMessage(c)
  <2>1. PICK m \in inbox[c] :
          /\ inbox' = [inbox EXCEPT ![c] = @ \ {m}]
          /\ \/ HandleNow(c, m)
             \/ /\ server' = [server EXCEPT ![c] = "unknown"]
                /\ hand' = [hand EXCEPT ![c] = m]
                /\ UNCHANGED greeting
    BY <1>3 DEF ReadMessage
  <2>2. m \in Messages BY DEF TypeOK
  <2>3. UNCHANGED <<link, tables, request, watch, history>> BY <1>3 DEF ReadMessage
  <2>4. inbox' \in [Conns -> SUBSET Messages] BY <2>1 DEF TypeOK
  <2>5. CASE HandleNow(c, m)
    BY <2>3, <2>4, <2>5 DEF HandleNow, TypeOK, tables, history
  <2>6. CASE /\ server' = [server EXCEPT ![c] = "unknown"]
             /\ hand' = [hand EXCEPT ![c] = m]
             /\ UNCHANGED greeting
    BY <2>2, <2>3, <2>4, <2>6 DEF TypeOK, tables, history
  <2> QED BY <2>1, <2>5, <2>6
<1>4. CASE EnterClient(c) BY <1>4 DEF EnterClient, TypeOK, history
<1>5. CASE EnterName(c)
  <2>1. /\ DOMAIN WsPeers' = DOMAIN WsPeers \cup {Owner[c]}
        /\ WsPeers' \in [DOMAIN WsPeers' -> Peers \cup {NoName}]
    BY <1>5 DEF EnterName, TypeOK
  <2>2. /\ server' \in [Conns -> {"none", "reading", "unknown", "entering", "ended"}]
        /\ hand' \in [Conns -> Messages \cup {NoMessage}]
        /\ greeting' \in [Conns -> {"none", "received", "syncing", "listed", "over"}]
    BY <1>5 DEF EnterName, HandleNow, TypeOK
  <2>3. UNCHANGED <<link, inbox, WsClients, NodesStatus, Nodes, PeerNames,
                    request, watch, history>>
    BY <1>5 DEF EnterName
  <2>4. DOMAIN WsPeers' \subseteq Peers
    <3>1. DOMAIN WsPeers \subseteq Peers /\ Owner[c] \in Peers BY DEF TypeOK
    <3> QED BY <2>1, <3>1
  <2> QED BY <2>1, <2>2, <2>3, <2>4 DEF TypeOK, history
<1>6. CASE EndServing(c) BY <1>6 DEF EndServing, TypeOK, tables, history
<1>7. CASE ReadStatus(c) BY <1>7 DEF ReadStatus, TypeOK, serving, tables, history
<1>8. CASE ListPeer(c)
  <2>1. UNCHANGED <<link, serving, WsPeers, WsClients, request, watch, dropped, panicked>>
    BY <1>8 DEF ListPeer
  <2>2. late' \subseteq Peers
    <3>1. late' = late \cup {Owner[c]} \/ late' = late \ {Owner[c]}
      BY <1>8 DEF ListPeer, KeepListing
    <3>2. late \subseteq Peers /\ Owner[c] \in Peers BY DEF TypeOK
    <3> QED BY <3>1, <3>2
  <2>3. /\ greeting' \in [Conns -> {"none", "received", "syncing", "listed", "over"}]
        /\ NodesStatus' \in [Peers -> {"", "Synced", "Disconnected"}]
        /\ Nodes' \in [Peers -> BOOLEAN]
        /\ PeerNames' \subseteq Peers
    BY <1>8 DEF ListPeer, TypeOK
  <2> QED BY <2>1, <2>2, <2>3 DEF TypeOK, serving
<1>9. CASE EndSync(c) BY <1>9 DEF EndSync, TypeOK, serving, history
<1> QED
  BY <1>1, <1>2, <1>3, <1>4, <1>5, <1>6, <1>7, <1>8, <1>9 DEF NodeStep, ServeStep, GreetStep

\* Every step of a request keeps the types.
LEMMA RequestStepType == ASSUME TypeOK, RequestStep PROVE TypeOK'
<1>1. ASSUME NEW p \in Peers, FindPeer(p) PROVE TypeOK'
  BY <1>1 DEF FindPeer, TypeOK, serving, tables, history
<1>2. CASE WriteRequest
  <2>1. request \in Peers /\ panicked' \subseteq Peers BY <1>2 DEF WriteRequest, TypeOK
  <2>2. \/ UNCHANGED inbox
        \/ inbox' = [inbox EXCEPT ![ClientUnder(request)] =
                       inbox[ClientUnder(request)] \cup {"proof"}]
    BY <1>2 DEF WriteRequest
  <2>3. "proof" \in Messages BY DEF Messages
  <2>4. inbox' \in [Conns -> SUBSET Messages] BY <2>2, <2>3 DEF TypeOK
  <2> QED BY <1>2, <2>1, <2>4 DEF WriteRequest, TypeOK, tables
<1> QED BY <1>1, <1>2 DEF RequestStep

\* Every step of the watchdog keeps the types.
LEMMA WatchStepType == ASSUME TypeOK, LostIsNamed, WatchStep PROVE TypeOK'
<1>0. watch \in WatchType BY DEF WatchType, Places, TypeOK
<1>1. watch' \in WatchType
  <2>1. CASE BeginRound BY <1>0, <2>1 DEF BeginRound, TypeOK, WatchType, Places
  <2>2. CASE NextPeer
    <3>1. PICK k \in DOMAIN WsPeers :
            watch' = [watch EXCEPT !.at = "picked", !.name = WsPeers[k], !.seen = @ \cup {k}]
      BY <2>2 DEF NextPeer
    <3>2. k \in Peers /\ WsPeers[k] \in Peers \cup {NoName} BY DEF TypeOK
    <3> QED BY <1>0, <3>1, <3>2 DEF WatchType, Places
  <2>3. CASE EndRound BY <2>3 DEF EndRound, Asleep, WatchType, Places
  <2>4. CASE CheckName \/ DropPeer
    BY <1>0, <2>4 DEF CheckName, DropPeer, Goto, WatchType, Places
  <2>5. CASE CheckConnection BY <1>0, <2>5 DEF CheckConnection, Goto, Resume, WatchType, Places
  <2>6. CASE CopyPeerNames
    <3>1. CASE Goto("bad capacity") BY <1>0, <3>1 DEF Goto, WatchType, Places
    <3>2. CASE watch' = [watch EXCEPT !.at = "replacing", !.kept = PeerNames \ {watch.name}]
      <4>1. PeerNames \ {watch.name} \in SUBSET Peers BY DEF TypeOK
      <4> QED BY <1>0, <3>2, <4>1 DEF WatchType, Places
    <3> QED BY <2>6, <3>1, <3>2 DEF CopyPeerNames
  <2>7. CASE ReplacePeerNames BY <1>0, <2>7 DEF ReplacePeerNames, Resume, WatchType, Places
  <2> QED BY <2>1, <2>2, <2>3, <2>4, <2>5, <2>6, <2>7 DEF WatchStep
<1>2. CASE DropPeer
  <2>1. dropped' \subseteq Peers BY <1>2 DEF DropPeer, LostIsNamed, TypeOK
  <2>2. /\ DOMAIN WsPeers' = DOMAIN WsPeers
        /\ WsPeers' \in [DOMAIN WsPeers -> Peers \cup {NoName}]
    BY <1>2 DEF DropPeer, TypeOK
  <2>3. /\ WsClients' \in [Peers -> Conns \cup {NoConn}]
        /\ NodesStatus' \in [Peers -> {"", "Synced", "Disconnected"}]
    BY <1>2 DEF DropPeer, TypeOK
  <2> QED BY <1>1, <1>2, <2>1, <2>2, <2>3 DEF DropPeer, TypeOK, serving, WatchType, Places
<1>3. CASE ReplacePeerNames
  BY <1>1, <1>3 DEF ReplacePeerNames, TypeOK, serving, history, WatchType, Places
<1>4. CASE BeginRound \/ NextPeer \/ EndRound \/ CheckName \/ CheckConnection \/ CopyPeerNames
  <2>1. UNCHANGED <<link, serving, greeting, tables, request, history>>
    BY <1>4 DEF BeginRound, NextPeer, EndRound, CheckName, CheckConnection, CopyPeerNames
  <2> QED BY <1>1, <2>1 DEF TypeOK, serving, tables, history, WatchType, Places
<1> QED BY <1>2, <1>3, <1>4 DEF WatchStep

\* In the step to "lost" the watchdog held a connection, and so a name.
LEMMA NamedStep == ASSUME TypeOK, LostIsNamed, [Next]_vars PROVE LostIsNamed'
<1>1. CASE UNCHANGED watch BY <1>1 DEF LostIsNamed
<1>2. CASE WatchStep
  <2>1. CASE CheckConnection
    BY <2>1 DEF CheckConnection, ClientUnder, Goto, Resume, LostIsNamed, TypeOK
  <2>2. CASE ~CheckConnection
    <3>0. watch \in WatchType BY DEF WatchType, Places, TypeOK
    <3>1. CASE BeginRound BY <3>0, <3>1 DEF BeginRound, WatchType, LostIsNamed
    <3>2. CASE NextPeer BY <3>0, <3>2 DEF NextPeer, WatchType, LostIsNamed
    <3>3. CASE EndRound BY <3>3 DEF EndRound, Asleep, LostIsNamed
    <3>4. CASE CheckName BY <3>0, <3>4 DEF CheckName, Goto, WatchType, LostIsNamed
    <3>5. CASE DropPeer BY <3>0, <3>5 DEF DropPeer, Goto, WatchType, LostIsNamed
    <3>6. CASE CopyPeerNames BY <3>0, <3>6 DEF CopyPeerNames, Goto, WatchType, LostIsNamed
    <3>7. CASE ReplacePeerNames
      BY <3>0, <3>7 DEF ReplacePeerNames, Resume, WatchType, LostIsNamed
    <3> QED BY <1>2, <2>2, <3>1, <3>2, <3>3, <3>4, <3>5, <3>6, <3>7 DEF WatchStep
  <2> QED BY <2>1, <2>2
<1>3. WatchStep \/ UNCHANGED watch
  BY DEF Next, vars, NodeStep, ServeStep, GreetStep, RequestStep, Dial, Break, ReadMessage,
         EnterClient, EnterName, EndServing, ReadStatus, ListPeer, EndSync, FindPeer,
         WriteRequest
<1> QED BY <1>1, <1>2, <1>3

\* Every variable always has its type.
THEOREM TypeCorrect == Spec => [](TypeOK /\ LostIsNamed)
<1>1. Init => TypeOK /\ LostIsNamed
  <2> SUFFICES ASSUME Init PROVE TypeOK /\ LostIsNamed
    OBVIOUS
  <2>1. DOMAIN WsPeers \subseteq Peers /\ WsPeers \in [DOMAIN WsPeers -> Peers \cup {NoName}]
    BY DEF Init
  <2>2. /\ link \in [Conns -> {"unused", "open", "broken"}]
        /\ inbox \in [Conns -> SUBSET Messages]
        /\ server \in [Conns -> {"none", "reading", "unknown", "entering", "ended"}]
        /\ hand \in [Conns -> Messages \cup {NoMessage}]
        /\ greeting \in [Conns -> {"none", "received", "syncing", "listed", "over"}]
    BY DEF Init
  <2>3. /\ WsClients \in [Peers -> Conns \cup {NoConn}]
        /\ NodesStatus \in [Peers -> {"", "Synced", "Disconnected"}]
        /\ Nodes \in [Peers -> BOOLEAN]
        /\ PeerNames \subseteq Peers
        /\ request \in Peers \cup {NoName}
        /\ dropped \subseteq Peers
        /\ late \subseteq Peers
        /\ panicked \subseteq Peers
    BY DEF Init
  <2>4. watch = Asleep BY DEF Init
  <2>5. watch \in WatchType /\ LostIsNamed BY <2>4 DEF Asleep, WatchType, Places, LostIsNamed
  <2> QED BY <2>1, <2>2, <2>3, <2>5 DEF TypeOK, WatchType, Places
<1>2. TypeOK /\ LostIsNamed /\ [Next]_vars => (TypeOK /\ LostIsNamed)'
  <2> SUFFICES ASSUME TypeOK, LostIsNamed, [Next]_vars PROVE TypeOK'
    BY NamedStep
  <2>1. CASE UNCHANGED vars
    BY <2>1 DEF vars, serving, tables, history, TypeOK
  <2> QED BY <2>1, ConnStepType, RequestStepType, WatchStepType DEF Next
<1> QED BY <1>1, <1>2, PTL DEF Spec

-----------------------------------------------------------------------------
(* What the tables, which are read without the lock, can be relied on for. *)

\* A name that was entered stands until the watchdog takes it out.
NamesStand ==
  \A k \in DOMAIN WsPeers : WsPeers[k] = k \/ (WsPeers[k] = NoName /\ k \in dropped)

\* Whoever finds a node entered that was never dropped finds its connection.
NamedIsConnected ==
  \A p \in Peers \ dropped : PeerUnder(p) = p => WsClients[p] # NoConn

\* In the middle of entering a node its connection is there already.
EnteringIsConnected ==
  \A c \in Conns : server[c] = "entering" => WsClients[Owner[c]] # NoConn

\* The watchdog meets an empty name, an empty list or a nil connection only
\* after it dropped a node, and its copy of a name agrees with the table.
WatchSound ==
  /\ watch.at \in {"picked", "checking"} /\ watch.name = NoName => dropped # {}
  /\ watch.at \in {"picked", "checking"} /\ watch.name # NoName =>
       PeerUnder(watch.name) = watch.name
  /\ watch.at \in {"copying", "replacing", "nil connection", "bad capacity"} => dropped # {}

\* A request is on its way to a node that is entered, or that was dropped since.
RequestSound ==
  request # NoName => PeerUnder(request) = request \/ request \in dropped

TableInv ==
  /\ NamesStand
  /\ NamedIsConnected
  /\ EnteringIsConnected
  /\ WatchSound
  /\ RequestSound
  /\ panicked \subseteq dropped

\* TableInv speaks of the tables, the watchdog and requests, and of who is
\* entering a node: a step that leaves these alone keeps it.
LEMMA TableFrame ==
  ASSUME TableInv,
         UNCHANGED <<WsPeers, WsClients, request, watch, dropped, panicked>>,
         \A d \in Conns : server'[d] = "entering" => server[d] = "entering"
  PROVE  TableInv'
<1>1. NamesStand' /\ NamedIsConnected' BY DEF TableInv, NamesStand, NamedIsConnected, PeerUnder
<1>2. EnteringIsConnected' BY DEF TableInv, EnteringIsConnected
<1>3. WatchSound' /\ RequestSound' BY DEF TableInv, WatchSound, RequestSound, PeerUnder
<1> QED BY <1>1, <1>2, <1>3 DEF TableInv

\* Entering the connection only adds to what NamedIsConnected asks for.
LEMMA EnterClientTable ==
  ASSUME TypeOK, TableInv, NEW c \in Conns, EnterClient(c)
  PROVE  TableInv'
<1> USE ConnAssumption
<1>0. /\ UNCHANGED <<WsPeers, request, watch, dropped, panicked>>
      /\ WsClients' = [WsClients EXCEPT ![Owner[c]] = c]
      /\ server' = [server EXCEPT ![c] = "entering"]
  BY DEF EnterClient, history
<1>1. \A p \in Peers : WsClients[p] # NoConn \/ p = Owner[c] => WsClients'[p] # NoConn
  BY <1>0 DEF TypeOK
<1>2. NamesStand' BY <1>0 DEF TableInv, NamesStand
<1>3. NamedIsConnected' BY <1>0, <1>1 DEF TableInv, NamedIsConnected, PeerUnder
<1>4. EnteringIsConnected'
  BY <1>0, <1>1 DEF TableInv, EnteringIsConnected, TypeOK
<1>5. WatchSound' /\ RequestSound' BY <1>0 DEF TableInv, WatchSound, RequestSound, PeerUnder
<1> QED BY <1>0, <1>2, <1>3, <1>4, <1>5 DEF TableInv

\* Entering the name relies on the connection having been entered.
LEMMA EnterNameTable ==
  ASSUME TypeOK, TableInv, NEW c \in Conns, EnterName(c)
  PROVE  TableInv'
<1> USE ConnAssumption, NameAssumption
<1> DEFINE p == Owner[c]
<1>0. /\ UNCHANGED <<WsClients, request, watch, dropped, panicked>>
      /\ server[c] = "entering"
      /\ server' = [server EXCEPT ![c] = "reading"]
      /\ WsPeers' = [q \in DOMAIN WsPeers \cup {p} |-> IF q = p THEN q ELSE WsPeers[q]]
  BY DEF EnterName, HandleNow, history
<1>1. p \in Peers OBVIOUS
<1> HIDE DEF p
<1>2. \A q : PeerUnder(q)' = IF q = p THEN p ELSE PeerUnder(q)
  BY <1>0 DEF PeerUnder
<1>3. NamesStand'
  <2>1. DOMAIN WsPeers' = DOMAIN WsPeers \cup {p} BY <1>0
  <2>2. \A q \in DOMAIN WsPeers \cup {p} : WsPeers'[q] = IF q = p THEN q ELSE WsPeers[q]
    BY <1>0
  <2> QED BY <1>0, <2>1, <2>2 DEF TableInv, NamesStand
<1>4. NamedIsConnected'
  <2>1. WsClients[p] # NoConn BY <1>0 DEF TableInv, EnteringIsConnected, p
  <2> QED BY <1>0, <1>2, <2>1 DEF TableInv, NamedIsConnected
<1>5. EnteringIsConnected'
  <2>1. \A d \in Conns : server'[d] = "entering" => server[d] = "entering"
    BY <1>0 DEF TypeOK
  <2> QED BY <1>0, <2>1 DEF TableInv, EnteringIsConnected
<1>6. WatchSound' BY <1>0, <1>2 DEF TableInv, WatchSound
<1>7. RequestSound' BY <1>0, <1>2 DEF TableInv, RequestSound
<1> QED BY <1>0, <1>3, <1>4, <1>5, <1>6, <1>7 DEF TableInv

\* The goroutines of the connections keep TableInv.
LEMMA ConnStepTable ==
  ASSUME TypeOK, TableInv, NEW c \in Conns, NodeStep(c) \/ ServeStep(c) \/ GreetStep(c)
  PROVE  TableInv'
<1>1. CASE Dial(c)
  <2>1. UNCHANGED <<WsPeers, WsClients, request, watch, dropped, panicked>>
    BY <1>1 DEF Dial, tables, history
  <2>2. \A d \in Conns : server'[d] = "entering" => server[d] = "entering"
    BY <1>1 DEF Dial, TypeOK
  <2> QED BY <2>1, <2>2, TableFrame
<1>2. CASE Break(c)
  BY <1>2, TableFrame DEF Break, serving, tables, history
<1>3. CASE ReadMessage(c)
  <2>1. UNCHANGED <<WsPeers, WsClients, request, watch, dropped, panicked>>
    BY <1>3 DEF ReadMessage, tables, history
  <2>2. \/ server' = [server EXCEPT ![c] = "reading"]
        \/ server' = [server EXCEPT ![c] = "unknown"]
    BY <1>3 DEF ReadMessage, HandleNow
  <2>3. \A d \in Conns : server'[d] = "entering" => server[d] = "entering"
    BY <2>2 DEF TypeOK
  <2> QED BY <2>1, <2>3, TableFrame
<1>4. CASE EnterClient(c) BY <1>4, EnterClientTable
<1>5. CASE EnterName(c) BY <1>5, EnterNameTable
<1>6. CASE EndServing(c)
  <2>1. UNCHANGED <<WsPeers, WsClients, request, watch, dropped, panicked>>
    BY <1>6 DEF EndServing, tables, history
  <2>2. \A d \in Conns : server'[d] = "entering" => server[d] = "entering"
    BY <1>6 DEF EndServing, TypeOK
  <2> QED BY <2>1, <2>2, TableFrame
<1>7. CASE ReadStatus(c)
  BY <1>7, TableFrame DEF ReadStatus, serving, tables, history
<1>8. CASE ListPeer(c)
  BY <1>8, TableFrame DEF ListPeer, serving
<1>9. CASE EndSync(c)
  BY <1>9, TableFrame DEF EndSync, serving, history
<1> QED
  BY <1>1, <1>2, <1>3, <1>4, <1>5, <1>6, <1>7, <1>8, <1>9 DEF NodeStep, ServeStep, GreetStep

\* A request panics only over a node that was dropped.
LEMMA RequestStepTable == ASSUME TypeOK, TableInv, RequestStep PROVE TableInv'
<1>1. ASSUME NEW p \in Peers, FindPeer(p) PROVE TableInv'
  <2>1. /\ UNCHANGED <<WsPeers, WsClients, server, watch, dropped, panicked>>
        /\ PeerUnder(p) = p
        /\ request' = p
    BY <1>1 DEF FindPeer, serving, tables, history
  <2>2. NamesStand' /\ NamedIsConnected' /\ EnteringIsConnected' /\ WatchSound'
    BY <2>1 DEF TableInv, NamesStand, NamedIsConnected, EnteringIsConnected, WatchSound,
                PeerUnder
  <2>3. RequestSound' BY <2>1 DEF RequestSound, PeerUnder
  <2> QED BY <2>1, <2>2, <2>3 DEF TableInv
<1>2. CASE WriteRequest
  <2>1. /\ UNCHANGED <<WsPeers, WsClients, server, watch, dropped>>
        /\ request # NoName
        /\ request' = NoName
        /\ panicked' = IF ClientUnder(request) = NoConn THEN panicked \cup {request}
                                                          ELSE panicked
    BY <1>2 DEF WriteRequest, tables
  <2>2. ClientUnder(request) = NoConn => request \in dropped
    BY <2>1 DEF TypeOK, TableInv, RequestSound, NamedIsConnected, ClientUnder
  <2>3. panicked' \subseteq dropped' BY <2>1, <2>2 DEF TableInv
  <2>4. NamesStand' /\ NamedIsConnected' /\ EnteringIsConnected' /\ WatchSound'
    BY <2>1 DEF TableInv, NamesStand, NamedIsConnected, EnteringIsConnected, WatchSound,
                PeerUnder
  <2>5. RequestSound' BY <2>1 DEF RequestSound
  <2> QED BY <2>3, <2>4, <2>5 DEF TableInv
<1> QED BY <1>1, <1>2 DEF RequestStep

\* Dropping a node enters it in the history that excuses what follows.
LEMMA DropPeerTable == ASSUME TypeOK, LostIsNamed, TableInv, DropPeer PROVE TableInv'
<1> DEFINE p == watch.name
<1>0. /\ p \in Peers
      /\ watch' = [watch EXCEPT !.at = "copying"]
      /\ WsPeers' = [WsPeers EXCEPT ![p] = NoName]
      /\ WsClients' = [WsClients EXCEPT ![p] = NoConn]
      /\ dropped' = dropped \cup {p}
      /\ UNCHANGED <<server, request, panicked>>
      /\ \A c \in Conns : server[c] # "entering"
  BY DEF DropPeer, Goto, LostIsNamed, LockHeld, serving
<1>1. NamesStand' BY <1>0 DEF TableInv, NamesStand
<1>2. \A q \in Peers : q # p => PeerUnder(q)' = PeerUnder(q) /\ WsClients'[q] = WsClients[q]
  BY <1>0 DEF PeerUnder, TypeOK
<1>3. NamedIsConnected' BY <1>0, <1>2 DEF TableInv, NamedIsConnected
<1>4. EnteringIsConnected' BY <1>0 DEF EnteringIsConnected
<1>5. WatchSound'
  <2>1. watch'.at = "copying" BY <1>0 DEF TypeOK
  <2> QED BY <1>0, <2>1 DEF WatchSound
<1>6. RequestSound' BY <1>0, <1>2 DEF TableInv, RequestSound, TypeOK
<1>7. panicked' \subseteq dropped' BY <1>0 DEF TableInv
<1> QED BY <1>1, <1>3, <1>4, <1>5, <1>6, <1>7 DEF TableInv

\* Every step of the watchdog keeps TableInv.
LEMMA WatchStepTable == ASSUME TypeOK, LostIsNamed, TableInv, WatchStep PROVE TableInv'
<1> USE NameAssumption
<1>0. watch \in WatchType BY DEF WatchType, Places, TypeOK
<1>1. ASSUME ~DropPeer PROVE TableInv'
  <2>1. UNCHANGED <<WsPeers, WsClients, server, request, dropped, panicked>>
    <3>1. CASE BeginRound BY <3>1 DEF BeginRound, serving, tables, history
    <3>2. CASE NextPeer BY <3>2 DEF NextPeer, serving, tables, history
    <3>3. CASE EndRound BY <3>3 DEF EndRound, serving, tables, history
    <3>4. CASE CheckName BY <3>4 DEF CheckName, serving, tables, history
    <3>5. CASE CheckConnection BY <3>5 DEF CheckConnection, serving, tables, history
    <3>6. CASE CopyPeerNames BY <3>6 DEF CopyPeerNames, serving, tables, history
    <3>7. CASE ReplacePeerNames BY <3>7 DEF ReplacePeerNames, serving, history
    <3> QED BY <1>1, <3>1, <3>2, <3>3, <3>4, <3>5, <3>6, <3>7 DEF WatchStep
  <2>2. WatchSound'
    <3>0. \A q : PeerUnder(q)' = PeerUnder(q) BY <2>1 DEF PeerUnder
    <3>1. CASE BeginRound BY <1>0, <3>1 DEF BeginRound, WatchType, WatchSound
    <3>2. CASE NextPeer
      <4>1. PICK k \in DOMAIN WsPeers :
              watch' = [watch EXCEPT !.at = "picked", !.name = WsPeers[k], !.seen = @ \cup {k}]
        BY <3>2 DEF NextPeer
      <4>2. watch'.at = "picked" /\ watch'.name = WsPeers[k] BY <1>0, <4>1 DEF WatchType
      <4>3. WsPeers[k] = k \/ (WsPeers[k] = NoName /\ k \in dropped)
        BY DEF TableInv, NamesStand
      <4>4. k # NoName BY DEF TypeOK
      <4>5. CASE WsPeers[k] = k
        <5>1. PeerUnder(k) = k BY <4>5 DEF PeerUnder
        <5> QED BY <3>0, <4>2, <4>4, <4>5, <5>1 DEF WatchSound
      <4>6. CASE WsPeers[k] = NoName /\ k \in dropped BY <2>1, <4>2, <4>6 DEF WatchSound
      <4> QED BY <4>3, <4>5, <4>6
    <3>3. CASE EndRound BY <3>3 DEF EndRound, Asleep, WatchSound
    <3>4. CASE CheckName
      <4>1. watch.at = "picked" /\ watch'.at = "checking" /\ watch'.name = watch.name
        BY <1>0, <3>4 DEF CheckName, Goto, WatchType
      <4> QED BY <2>1, <3>0, <4>1 DEF TableInv, WatchSound
    <3>5. CASE CheckConnection
      <4>1. CASE ClientUnder(watch.name) = NoConn /\ Goto("nil connection")
        <5>1. watch.at = "checking" /\ watch'.at = "nil connection"
          BY <1>0, <3>5, <4>1 DEF CheckConnection, Goto, WatchType
        <5>2. dropped # {}
          BY <1>0, <4>1, <5>1 DEF TableInv, WatchSound, NamedIsConnected, ClientUnder, WatchType
        <5> QED BY <2>1, <5>1, <5>2 DEF WatchSound
      <4>2. CASE Resume BY <1>0, <4>2 DEF Resume, WatchType, WatchSound
      <4>3. CASE Goto("lost") BY <1>0, <4>3 DEF Goto, WatchType, WatchSound
      <4> QED BY <3>5, <4>1, <4>2, <4>3 DEF CheckConnection
    <3>6. CASE CopyPeerNames
      <4>1. dropped # {} BY <3>6 DEF CopyPeerNames, TableInv, WatchSound
      <4>2. watch'.at \in {"bad capacity", "replacing"}
        BY <1>0, <3>6 DEF CopyPeerNames, Goto, WatchType
      <4> QED BY <2>1, <4>1, <4>2 DEF WatchSound
    <3>7. CASE ReplacePeerNames
      BY <1>0, <3>7 DEF ReplacePeerNames, Resume, WatchType, WatchSound
    <3> QED BY <1>1, <3>1, <3>2, <3>3, <3>4, <3>5, <3>6, <3>7 DEF WatchStep
  <2>3. NamesStand' /\ NamedIsConnected' /\ EnteringIsConnected' /\ RequestSound'
    BY <2>1 DEF TableInv, NamesStand, NamedIsConnected, EnteringIsConnected, RequestSound,
                PeerUnder
  <2> QED BY <2>1, <2>2, <2>3 DEF TableInv
<1> QED BY <1>1, DropPeerTable

\* The invariant that the two theorems below rest on.
THEOREM TablesSound == Spec => []TableInv
<1>1. Init => TableInv
  <2> SUFFICES ASSUME Init PROVE TableInv
    OBVIOUS
  <2>1. NamesStand BY DEF Init, NamesStand
  <2>2. NamedIsConnected
    <3>1. \A q : PeerUnder(q) = NoName BY DEF Init, PeerUnder
    <3> QED BY <3>1, NameAssumption DEF NamedIsConnected
  <2>3. EnteringIsConnected BY DEF Init, EnteringIsConnected
  <2>4. WatchSound BY DEF Init, Asleep, WatchSound
  <2>5. RequestSound /\ panicked \subseteq dropped BY DEF Init, RequestSound
  <2> QED BY <2>1, <2>2, <2>3, <2>4, <2>5 DEF TableInv
<1>2. TypeOK /\ LostIsNamed /\ TableInv /\ [Next]_vars => TableInv'
  <2> SUFFICES ASSUME TypeOK, LostIsNamed, TableInv, [Next]_vars PROVE TableInv'
    OBVIOUS
  <2>1. CASE UNCHANGED vars
    BY <2>1, TableFrame DEF vars, serving, tables, history
  <2> QED BY <2>1, ConnStepTable, RequestStepTable, WatchStepTable DEF Next
<1> QED BY <1>1, <1>2, TypeCorrect, PTL DEF Spec

\* The order in which a node is entered, its connection before its name, is
\* what keeps the unlocked reads of the watchdog and of requests from a nil
\* connection, until the watchdog itself takes a node out.
THEOREM NilAlwaysAfterDrop == Spec => []NilOnlyAfterDrop
<1>1. TableInv => NilOnlyAfterDrop BY DEF TableInv, WatchSound, Crashed, NilOnlyAfterDrop
<1> QED BY <1>1, TablesSound, PTL

\* The watchdog's second look at a name always agrees with its first.
THEOREM NameAlwaysStands == Spec => []NameStands
<1>1. TypeOK /\ TableInv => NameStands
  BY NameAssumption DEF TypeOK, TableInv, WatchSound, NameStands, PeerUnder
<1> QED BY <1>1, TypeCorrect, TablesSound, PTL

-----------------------------------------------------------------------------
(* Who is taken out, and who is listed.                                    *)

\* A connection is entered under the name of the node that dialled it.
ClientsOwned == \A p \in Peers : WsClients[p] # NoConn => Owner[WsClients[p]] = p

\* The watchdog is about to take out a node that has lost a connection.
LostSound == watch.at = "lost" => HasLost(watch.name)

LossInv == ClientsOwned /\ LostSound /\ OnlyLostDropped

\* A connection that broke stays broken.
LEMMA LossStays == ASSUME TypeOK, [Next]_vars, NEW p, HasLost(p) PROVE HasLost(p)'
<1>1. PICK c \in Conns : Owner[c] = p /\ link[c] = "broken" BY DEF HasLost
<1>2. \/ UNCHANGED link
      \/ \E d \in Conns : /\ link[d] # "broken"
                          /\ link' \in {[link EXCEPT ![d] = "open"], [link EXCEPT ![d] = "broken"]}
  BY DEF Next, vars, NodeStep, ServeStep, GreetStep, RequestStep, WatchStep, Dial, Break,
         ReadMessage, EnterClient, EnterName, EndServing, ReadStatus, ListPeer, EndSync,
         FindPeer, WriteRequest, BeginRound, NextPeer, EndRound, CheckName, CheckConnection,
         DropPeer, CopyPeerNames, ReplacePeerNames
<1>3. link'[c] = "broken" BY <1>1, <1>2 DEF TypeOK
<1> QED BY <1>1, <1>3 DEF HasLost

\* Every step keeps the three.
LEMMA LossStep == ASSUME TypeOK, LostIsNamed, LossInv, [Next]_vars PROVE LossInv'
<1> USE ConnAssumption
<1>0. watch \in WatchType BY DEF WatchType, Places, TypeOK
<1>1. ClientsOwned'
  <2>1. CASE UNCHANGED WsClients BY <2>1 DEF LossInv, ClientsOwned
  <2>2. ASSUME NEW c \in Conns, EnterClient(c) PROVE ClientsOwned'
    BY <2>2 DEF EnterClient, LossInv, ClientsOwned, TypeOK
  <2>3. CASE DropPeer BY <2>3 DEF DropPeer, LossInv, ClientsOwned, TypeOK
  <2>4. \/ UNCHANGED WsClients
        \/ DropPeer
        \/ \E c \in Conns : EnterClient(c)
    BY DEF Next, vars, tables, NodeStep, ServeStep, GreetStep, RequestStep, WatchStep, Dial,
           Break, ReadMessage, EnterName, EndServing, ReadStatus, ListPeer, EndSync,
           FindPeer, WriteRequest, BeginRound, NextPeer, EndRound, CheckName, CheckConnection,
           CopyPeerNames, ReplacePeerNames
  <2> QED BY <2>1, <2>2, <2>3, <2>4
<1>2. LostSound'
  <2>1. ASSUME watch'.at = "lost", watch'.name = watch.name, watch.at = "lost"
        PROVE  LostSound'
    <3>1. HasLost(watch.name)' BY <2>1, LossStays DEF LossInv, LostSound
    <3> QED BY <2>1, <3>1 DEF LostSound, HasLost
  <2>2. CASE watch'.at # "lost" BY <2>2 DEF LostSound
  <2>3. CASE CheckConnection
    <3>1. CASE Resume BY <1>0, <3>1 DEF Resume, WatchType, LostSound
    <3>2. CASE Goto("nil connection") BY <1>0, <3>2 DEF Goto, WatchType, LostSound
    <3>3. CASE /\ ClientUnder(watch.name) # NoConn /\ Goto("lost")
               /\ FALSE \in IsConnectionOpen(ClientUnder(watch.name))
      <4> DEFINE c == ClientUnder(watch.name)
      <4>1. /\ watch.name \in Peers /\ c = WsClients[watch.name] /\ c \in Conns
        BY <1>0, <3>3 DEF ClientUnder, TypeOK
      <4>2. Owner[c] = watch.name BY <3>3, <4>1 DEF LossInv, ClientsOwned
      <4>3. link[c] = "broken" BY <3>3, <4>1 DEF IsConnectionOpen
      <4>4. watch'.name = watch.name /\ link' = link
        BY <1>0, <2>3, <3>3 DEF Goto, CheckConnection, WatchType
      <4> QED BY <4>1, <4>2, <4>3, <4>4 DEF LostSound, HasLost
    <3>4. ASSUME NEW open \in IsConnectionOpen(ClientUnder(watch.name)),
                 ClientUnder(watch.name) # NoConn, IF open THEN Resume ELSE Goto("lost")
          PROVE  LostSound'
      <4>1. open \in BOOLEAN BY DEF IsConnectionOpen
      <4>2. CASE open = TRUE BY <3>1, <3>4, <4>2
      <4>3. CASE open = FALSE BY <3>3, <3>4, <4>3
      <4> QED BY <4>1, <4>2, <4>3
    <3> QED BY <2>3, <3>2, <3>4 DEF CheckConnection
  <2>4. CASE UNCHANGED watch BY <2>1, <2>2, <2>4
  <2>5. CASE WatchStep /\ ~CheckConnection
    <3>1. CASE BeginRound BY <1>0, <2>2, <3>1 DEF BeginRound, WatchType
    <3>2. CASE NextPeer BY <1>0, <2>2, <3>2 DEF NextPeer, WatchType
    <3>3. CASE EndRound BY <2>2, <3>3 DEF EndRound, Asleep
    <3>4. CASE CheckName BY <1>0, <2>2, <3>4 DEF CheckName, Goto, WatchType
    <3>5. CASE DropPeer BY <1>0, <2>2, <3>5 DEF DropPeer, Goto, WatchType
    <3>6. CASE CopyPeerNames BY <1>0, <2>2, <3>6 DEF CopyPeerNames, Goto, WatchType
    <3>7. CASE ReplacePeerNames BY <1>0, <2>2, <3>7 DEF ReplacePeerNames, Resume, WatchType
    <3> QED BY <2>5, <3>1, <3>2, <3>3, <3>4, <3>5, <3>6, <3>7 DEF WatchStep
  <2>6. WatchStep \/ UNCHANGED watch
    BY DEF Next, vars, NodeStep, ServeStep, GreetStep, RequestStep, Dial, Break, ReadMessage,
           EnterClient, EnterName, EndServing, ReadStatus, ListPeer, EndSync, FindPeer,
           WriteRequest
  <2> QED BY <2>3, <2>4, <2>5, <2>6
<1>3. OnlyLostDropped'
  <2>1. \/ UNCHANGED dropped
        \/ dropped' = dropped \cup {watch.name} /\ watch.at = "lost"
    BY DEF Next, vars, history, NodeStep, ServeStep, GreetStep, RequestStep, WatchStep, Dial,
           Break, ReadMessage, EnterClient, EnterName, EndServing, ReadStatus, ListPeer,
           EndSync, FindPeer, WriteRequest, BeginRound, NextPeer, EndRound, CheckName,
           CheckConnection, DropPeer, CopyPeerNames, ReplacePeerNames
  <2>2. \A p \in dropped' : HasLost(p)
    BY <2>1 DEF LossInv, LostSound, OnlyLostDropped
  <2>3. ASSUME NEW p \in dropped' PROVE HasLost(p)' BY <2>2, LossStays
  <2> QED BY <2>3 DEF OnlyLostDropped, HasLost
<1> QED BY <1>1, <1>2, <1>3 DEF LossInv

\* No node is taken out that has lost no connection.
THEOREM DroppedHasLost == Spec => []OnlyLostDropped
<1>1. Init => LossInv
  <2> SUFFICES ASSUME Init PROVE LossInv OBVIOUS
  <2>1. ClientsOwned BY DEF Init, ClientsOwned
  <2>2. LostSound BY DEF Init, Asleep, LostSound
  <2>3. OnlyLostDropped BY DEF Init, OnlyLostDropped
  <2> QED BY <2>1, <2>2, <2>3 DEF LossInv
<1>2. TypeOK /\ LostIsNamed /\ LossInv /\ [Next]_vars => LossInv' BY LossStep
<1>3. LossInv => OnlyLostDropped BY DEF LossInv
<1> QED BY <1>1, <1>2, <1>3, TypeCorrect, PTL DEF Spec

\* Why a synced node is listed.  Those dropped are not synced any more, unless
\* they were listed again since, and the watchdog's copy has the other ones.
ListedInv ==
  /\ SyncedIsListed
  /\ Copying => \A p \in Peers : p = watch.name /\ NodesStatus[p] = "Synced" => p \in late
  /\ watch.at = "replacing" =>
       \A p \in Peers : NodesStatus[p] = "Synced" => p \in watch.kept \cup late

\* A node that is listed meanwhile is late, another one is on the list.
LEMMA ListPeerListed ==
  ASSUME TypeOK, ListedInv, NEW c \in Conns, ListPeer(c) PROVE ListedInv'
<1> USE ConnAssumption
<1> DEFINE p == Owner[c]
<1>1. /\ PeerNames' = PeerNames \cup {p} /\ watch' = watch
      /\ NodesStatus' = [NodesStatus EXCEPT ![p] = "Synced"]
      /\ late' = IF MissedByCopy(p) THEN late \cup {p} ELSE late \ {p}
  BY DEF ListPeer, KeepListing
<1>2. p \in Peers OBVIOUS
<1> HIDE DEF p
<1>3. \A q \in Peers : NodesStatus'[q] = IF q = p THEN "Synced" ELSE NodesStatus[q]
  BY <1>1, <1>2 DEF TypeOK
<1>4. SyncedIsListed' BY <1>1, <1>3 DEF ListedInv, SyncedIsListed
<1>5. (Copying => \A q \in Peers : q = watch.name /\ NodesStatus[q] = "Synced" => q \in late)'
  <2> SUFFICES ASSUME Copying, NEW q \in Peers, q = watch.name, NodesStatus'[q] = "Synced"
               PROVE  q \in late'
    BY <1>1 DEF Copying
  <2>1. CASE q = p BY <1>1, <2>1 DEF Copying, MissedByCopy
  <2>2. CASE q # p
    <3>1. q \in late BY <1>3, <2>2 DEF ListedInv
    <3> QED BY <1>1, <2>2, <3>1
  <2> QED BY <2>1, <2>2
<1>6. (watch.at = "replacing" =>
         \A q \in Peers : NodesStatus[q] = "Synced" => q \in watch.kept \cup late)'
  BY <1>1, <1>3 DEF ListedInv, MissedByCopy
<1> QED BY <1>4, <1>5, <1>6 DEF ListedInv

\* Every step keeps ListedInv.
LEMMA ListedStep ==
  ASSUME TypeOK, LostIsNamed, ListedInv, [Next]_vars PROVE ListedInv'
<1>0. watch \in WatchType BY DEF WatchType, Places, TypeOK
<1>1. CASE UNCHANGED <<NodesStatus, PeerNames, watch, late>>
  BY <1>1 DEF ListedInv, SyncedIsListed, Copying
<1>2. ASSUME NEW c \in Conns, ListPeer(c) PROVE ListedInv' BY <1>2, ListPeerListed
<1>3. CASE DropPeer
  <2>1. /\ watch'.at = "copying" /\ watch'.name = watch.name /\ PeerNames' = PeerNames
        /\ NodesStatus' = [NodesStatus EXCEPT ![watch.name] = "Disconnected"]
        /\ late' = late \ {watch.name}
    BY <1>0, <1>3 DEF DropPeer, Goto, WatchType
  <2>2. /\ NodesStatus'[watch.name] # "Synced"
        /\ \A p \in Peers : NodesStatus'[p] = "Synced" =>
             p # watch.name /\ NodesStatus[p] = "Synced"
    BY <1>3, <2>1 DEF DropPeer, LostIsNamed, TypeOK
  <2> QED BY <2>1, <2>2 DEF ListedInv, SyncedIsListed, Copying
<1>4. CASE CopyPeerNames
  <2>1. /\ watch.at = "copying" /\ watch'.name = watch.name
        /\ UNCHANGED <<NodesStatus, PeerNames, late>>
        /\ \/ watch'.at = "bad capacity"
           \/ watch'.at = "replacing" /\ watch'.kept = PeerNames \ {watch.name}
    BY <1>0, <1>4 DEF CopyPeerNames, Goto, tables, history, WatchType
  <2> QED BY <2>1 DEF ListedInv, SyncedIsListed, Copying
<1>5. CASE ReplacePeerNames
  <2>1. /\ watch.at = "replacing" /\ watch'.at = "ranging" /\ PeerNames' = watch.kept
        /\ UNCHANGED <<NodesStatus, late>>
    BY <1>0, <1>5 DEF ReplacePeerNames, Resume, history, WatchType
  <2> QED BY <2>1 DEF ListedInv, SyncedIsListed, Copying
<1>6. ASSUME BeginRound \/ NextPeer \/ EndRound \/ CheckName \/ CheckConnection PROVE ListedInv'
  <2>1. UNCHANGED <<NodesStatus, PeerNames, late>>
    BY <1>6 DEF BeginRound, NextPeer, EndRound, CheckName, CheckConnection, tables, history
  <2>2. watch'.at \notin {"copying", "replacing"}
    <3>1. CASE BeginRound BY <1>0, <3>1 DEF BeginRound, WatchType
    <3>2. CASE NextPeer BY <1>0, <3>2 DEF NextPeer, WatchType
    <3>3. CASE EndRound BY <3>3 DEF EndRound, Asleep
    <3>4. CASE CheckName BY <1>0, <3>4 DEF CheckName, Goto, WatchType
    <3>5. CASE CheckConnection
      <4>1. Resume \/ Goto("lost") \/ Goto("nil connection") BY <3>5 DEF CheckConnection
      <4> QED BY <1>0, <4>1 DEF Resume, Goto, WatchType
    <3> QED BY <1>6, <3>1, <3>2, <3>3, <3>4, <3>5
  <2> QED BY <2>1, <2>2 DEF ListedInv, SyncedIsListed, Copying
<1>7. \/ UNCHANGED <<NodesStatus, PeerNames, watch, late>>
      \/ \E c \in Conns : ListPeer(c)
      \/ WatchStep
  BY DEF Next, vars, tables, history, NodeStep, ServeStep, GreetStep, RequestStep, Dial, Break,
         ReadMessage, EnterClient, EnterName, EndServing, ReadStatus, EndSync, FindPeer,
         WriteRequest
<1> QED BY <1>1, <1>2, <1>3, <1>4, <1>5, <1>6, <1>7 DEF WatchStep

\* Whatever was dropped before, a node with the status Synced is on the list,
\* or was listed between the watchdog's copy and the moment it put it back.
THEOREM SyncedStaysListed == Spec => []SyncedIsListed
<1>1. Init => ListedInv
  <2> SUFFICES ASSUME Init PROVE ListedInv OBVIOUS
  <2>1. watch.at = "asleep" BY DEF Init, Asleep
  <2>2. \A p \in Peers : NodesStatus[p] = "" BY DEF Init
  <2> QED BY <2>1, <2>2 DEF ListedInv, SyncedIsListed, Copying
<1>2. TypeOK /\ LostIsNamed /\ ListedInv /\ [Next]_vars => ListedInv' BY ListedStep
<1>3. ListedInv => SyncedIsListed BY DEF ListedInv
<1> QED BY <1>1, <1>2, <1>3, TypeCorrect, PTL DEF Spec

-----------------------------------------------------------------------------
(* What the watchdog does not lock out.                                    *)

\* No node comes back between the ping that found its connection lost and the
\* drop: what connection.go:43-45, with the lock taken only after the ping,
\* leaves to chance.
NoReturnMeanwhile ==
  watch.at = "lost" => \A c \in Conns : Owner[c] = watch.name => ~EnterClient(c)

\* The connection the watchdog is about to drop is the one it found lost.
LostIsBroken ==
  watch.at = "lost" => /\ WsClients[watch.name] # NoConn
                       /\ link[WsClients[watch.name]] = "broken"

\* A live connection is taken out for a lost one only when its node came back
\* in that moment.
DropsBroken == DropPeer => link[WsClients[watch.name]] = "broken"

\* A broken connection stays broken.
LEMMA BrokenStays ==
  ASSUME TypeOK, [Next]_vars, NEW c \in Conns, link[c] = "broken" PROVE link'[c] = "broken"
<1>1. \/ UNCHANGED link
      \/ \E d \in Conns : /\ link[d] # "broken"
                          /\ link' \in {[link EXCEPT ![d] = "open"], [link EXCEPT ![d] = "broken"]}
  BY DEF Next, vars, NodeStep, ServeStep, GreetStep, RequestStep, WatchStep, Dial, Break,
         ReadMessage, EnterClient, EnterName, EndServing, ReadStatus, ListPeer, EndSync,
         FindPeer, WriteRequest, BeginRound, NextPeer, EndRound, CheckName, CheckConnection,
         DropPeer, CopyPeerNames, ReplacePeerNames
<1> QED BY <1>1 DEF TypeOK

\* The step to "lost" is that of a ping that failed, and the steps out of it
\* are those of the drop.
LEMMA LostStep ==
  ASSUME TypeOK, [Next]_vars, watch'.at = "lost"
  PROVE  \/ watch' = watch /\ ~DropPeer
         \/ /\ watch'.name = watch.name /\ UNCHANGED <<WsClients, link>>
            /\ ClientUnder(watch.name) # NoConn
            /\ link[ClientUnder(watch.name)] = "broken"
<1>0. watch \in WatchType BY DEF WatchType, Places, TypeOK
<1>1. CASE CheckConnection
  <2>1. ~Resume /\ ~Goto("nil connection") BY <1>0 DEF Resume, Goto, WatchType
  <2>2. PICK open \in IsConnectionOpen(ClientUnder(watch.name)) :
          /\ ClientUnder(watch.name) # NoConn
          /\ IF open THEN Resume ELSE Goto("lost")
    BY <1>1, <2>1 DEF CheckConnection
  <2>3. open \in BOOLEAN BY DEF IsConnectionOpen
  <2>4. open = FALSE BY <2>1, <2>2, <2>3
  <2>5. link[ClientUnder(watch.name)] = "broken" BY <2>4 DEF IsConnectionOpen
  <2>6. watch'.name = watch.name BY <1>0, <2>2, <2>4 DEF Goto, WatchType
  <2> QED BY <1>1, <2>2, <2>5, <2>6 DEF CheckConnection, tables
<1>2. CASE ~CheckConnection
  <2>1. ~BeginRound BY <1>0 DEF BeginRound, WatchType
  <2>2. ~NextPeer BY <1>0 DEF NextPeer, WatchType
  <2>3. ~EndRound BY DEF EndRound, Asleep
  <2>4. ~CheckName BY <1>0 DEF CheckName, Goto, WatchType
  <2>5. ~DropPeer BY <1>0 DEF DropPeer, Goto, WatchType
  <2>6. ~CopyPeerNames BY <1>0 DEF CopyPeerNames, Goto, WatchType
  <2>7. ~ReplacePeerNames BY <1>0 DEF ReplacePeerNames, Resume, WatchType
  <2>8. ~WatchStep BY <1>2, <2>1, <2>2, <2>3, <2>4, <2>5, <2>6, <2>7 DEF WatchStep
  <2>9. watch' = watch
    BY <2>8 DEF Next, vars, NodeStep, ServeStep, GreetStep, RequestStep, Dial, Break,
       ReadMessage, EnterClient, EnterName, EndServing, ReadStatus, ListPeer, EndSync,
       FindPeer, WriteRequest
  <2> QED BY <2>5, <2>9
<1> QED BY <1>1, <1>2

\* Every step keeps LostIsBroken, if no node comes back meanwhile.
LEMMA LostStaysBroken ==
  ASSUME TypeOK, LostIsNamed, LostIsBroken, NoReturnMeanwhile, [Next]_vars
  PROVE  LostIsBroken'
<1> USE ConnAssumption
<1> SUFFICES ASSUME watch'.at = "lost"
             PROVE  /\ WsClients'[watch'.name] # NoConn
                    /\ link'[WsClients'[watch'.name]] = "broken"
  BY DEF LostIsBroken
<1>0. watch \in WatchType BY DEF WatchType, Places, TypeOK
<1>1. CASE watch' = watch /\ ~DropPeer
  <2>1. /\ watch.name \in Peers /\ WsClients[watch.name] \in Conns
        /\ link[WsClients[watch.name]] = "broken"
    BY <1>1 DEF LostIsNamed, LostIsBroken, TypeOK
  <2>2. \/ UNCHANGED WsClients
        \/ \E c \in Conns : EnterClient(c)
    BY <1>1 DEF Next, vars, tables, NodeStep, ServeStep, GreetStep, RequestStep, WatchStep,
       Dial, Break, ReadMessage, EnterName, EndServing, ReadStatus, ListPeer, EndSync,
       FindPeer, WriteRequest, BeginRound, NextPeer, EndRound, CheckName, CheckConnection,
       CopyPeerNames, ReplacePeerNames
  <2>3. WsClients'[watch.name] = WsClients[watch.name]
    <3>1. ASSUME NEW c \in Conns, EnterClient(c) PROVE WsClients'[watch.name] = WsClients[watch.name]
      BY <1>1, <2>1, <3>1 DEF NoReturnMeanwhile, EnterClient, TypeOK
    <3> QED BY <2>2, <3>1
  <2> QED BY <1>1, <2>1, <2>3, BrokenStays
<1>2. CASE /\ watch'.name = watch.name /\ UNCHANGED <<WsClients, link>>
           /\ ClientUnder(watch.name) # NoConn
           /\ link[ClientUnder(watch.name)] = "broken"
  BY <1>0, <1>2 DEF ClientUnder, WatchType
<1> QED BY <1>1, <1>2, LostStep

\* What the watchdog takes out is broken as long as its node does not come back
\* between the ping and the drop.
THEOREM DropsBrokenUnlessReturned ==
  Spec /\ [][NoReturnMeanwhile]_vars => [][DropsBroken]_vars
<1>1. Init => LostIsBroken
  <2> SUFFICES ASSUME Init PROVE LostIsBroken OBVIOUS
  <2>1. watch.at = "asleep" BY DEF Init, Asleep
  <2> QED BY <2>1 DEF LostIsBroken
<1>2. /\ TypeOK /\ LostIsNamed /\ LostIsBroken /\ [Next]_vars /\ [NoReturnMeanwhile]_vars
      => LostIsBroken'
  <2>1. ASSUME LostIsBroken, UNCHANGED vars PROVE LostIsBroken'
    BY <2>1 DEF vars, tables, LostIsBroken
  <2> QED BY <2>1, LostStaysBroken
<1>3. LostIsBroken => DropsBroken BY DEF LostIsBroken, DropsBroken, DropPeer
<1> QED BY <1>1, <1>2, <1>3, TypeCorrect, PTL DEF Spec

-----------------------------------------------------------------------------
\* SyncNode lists no node while the watchdog takes one out of the list: what
\* connection.go:50-58, a copy made and put back without the lock in between,
\* leaves to chance.
NoListingMeanwhile == Copying => \A c \in Conns : ~ListPeer(c)

\* A node with the status Synced is in the list, whatever was dropped before, as
\* long as none is listed while the watchdog takes another out.
THEOREM ListedUnlessMeanwhile ==
  Spec /\ [][NoListingMeanwhile]_vars
    => [](\A p \in Peers : NodesStatus[p] = "Synced" => p \in PeerNames)
<1>1. Init => late = {} BY DEF Init
<1>2. late = {} /\ [Next]_vars /\ [NoListingMeanwhile]_vars => (late = {})'
  <2> SUFFICES ASSUME late = {}, Next, NoListingMeanwhile PROVE late' = {}
    BY DEF vars, history
  <2>1. ASSUME NEW c \in Conns, ListPeer(c) PROVE late' = {}
    BY <2>1 DEF NoListingMeanwhile, Copying, MissedByCopy, ListPeer, KeepListing
  <2>2. CASE DropPeer BY <2>2 DEF DropPeer
  <2>3. \/ UNCHANGED late
        \/ \E c \in Conns : ListPeer(c)
        \/ DropPeer
    BY DEF Next, history, NodeStep, ServeStep, GreetStep, RequestStep, WatchStep, Dial, Break,
           ReadMessage, EnterClient, EnterName, EndServing, ReadStatus, EndSync, FindPeer,
           WriteRequest, BeginRound, NextPeer, EndRound, CheckName, CheckConnection,
           CopyPeerNames, ReplacePeerNames
  <2> QED BY <2>1, <2>2, <2>3
<1>3. late = {} /\ SyncedIsListed
      => \A p \in Peers : NodesStatus[p] = "Synced" => p \in PeerNames
  BY DEF SyncedIsListed
<1> QED BY <1>1, <1>2, <1>3, SyncedStaysListed, PTL DEF Spec
=============================================================================
