--------------------------- MODULE PeerConnections ---------------------------
(***************************************************************************)
(* The connections of storage nodes to a validator, and the tables it keeps *)
(* of them.  A storage node dials, says hello, and dials again when its    *)
(* connection breaks (StartWsClient, src/connection/connection.go).  At    *)
(* the validator a goroutine serves each connection and enters it under    *)
(* the name of its node (handleMessaging, src/api/handlers.go), another    *)
(* answers the hello and lists the node (messaging.go, syncing.go), and a  *)
(* watchdog pings every connection every ten seconds and takes the broken  *)
(* ones out (CheckSynced).  Writes to the tables are made under            *)
(* localdata.Lock, reads are not.                                          *)
(*                                                                         *)
(* Only nodes that use WebSockets are modelled: those on publish and       *)
(* subscribe never enter WsPeers.  The ends of the process that the Go     *)
(* runtime brings about when it notices two accesses to a map or two       *)
(* writes to a connection at once are left out: they only cut a behaviour  *)
(* short.                                                                  *)
(***************************************************************************)
EXTENDS FiniteSets

CONSTANTS
  Peers,        \* the names of the storage nodes
  NoName,       \* the empty name
  Conns,        \* BOUND: the connections that are ever dialled
  NoConn,       \* a nil connection
  Owner         \* the node that dials each connection

ASSUME NameAssumption == NoName \notin Peers
ASSUME ConnAssumption == NoConn \notin Conns /\ Owner \in [Conns -> Peers]

VARIABLES
  link,         \* conn -> "unused", "open" or "broken"
  inbox,        \* conn -> messages under way to the validator
  server,       \* conn -> the position of the goroutine that serves it
  hand,         \* conn -> the message that goroutine has in hand
  greeting,     \* conn -> the position of the goroutine of its hello
  WsPeers,      \* node -> its name, or the empty one; absent reads as empty
  WsClients,    \* node -> its connection
  NodesStatus,  \* node -> "", "Synced" or "Disconnected"
  Nodes,        \* node -> whether it is being synced
  PeerNames,    \* the list of nodes
  request,      \* the node a request is being sent to, BOUND: one at a time
  watch,        \* the watchdog
  \* History, read by properties only.
  dropped,      \* the nodes the watchdog ever took out
  late,         \* the nodes last listed too late for the watchdog's copy of the list
  panicked      \* the nodes a request to which met a nil connection

serving == <<inbox, server, hand>>
history == <<dropped, late, panicked>>
tables == <<WsPeers, WsClients, NodesStatus, Nodes, PeerNames>>
vars == <<link, serving, greeting, tables, request, watch, history>>

Messages == {"hello", "proof"}
NoMessage == "none"

Asleep == [at |-> "asleep", todo |-> {}, seen |-> {}, name |-> NoName, kept |-> {}]

Init ==
  /\ link = [c \in Conns |-> "unused"]
  /\ inbox = [c \in Conns |-> {}]
  /\ server = [c \in Conns |-> "none"]
  /\ hand = [c \in Conns |-> NoMessage]
  /\ greeting = [c \in Conns |-> "none"]
  /\ WsPeers = [p \in {} |-> NoName]
  /\ WsClients = [p \in Peers |-> NoConn]
  /\ NodesStatus = [p \in Peers |-> ""]
  /\ Nodes = [p \in Peers |-> FALSE]
  /\ PeerNames = {}
  /\ request = NoName
  /\ watch = Asleep
  /\ dropped = {}
  /\ late = {}
  /\ panicked = {}

\* Lookups in the two maps: what is absent reads as the zero value.
PeerUnder(name) == IF name \in DOMAIN WsPeers THEN WsPeers[name] ELSE NoName
ClientUnder(name) == IF name \in Peers THEN WsClients[name] ELSE NoConn

Crashed == watch.at \in {"nil connection", "bad capacity"}

\* localdata.Lock, over the one section that is more than one step.
LockHeld == \E c \in Conns : server[c] = "entering"

-----------------------------------------------------------------------------
(* The storage nodes and the network.                                      *)

\* A node dials when it has no connection left, and says hello (wsPing).
Dial(c) ==
  /\ link[c] = "unused"
  /\ \A o \in Conns : Owner[o] = Owner[c] => link[o] # "open"
  /\ link' = [link EXCEPT ![c] = "open"]
  /\ server' = [server EXCEPT ![c] = "reading"]
  /\ inbox' = [inbox EXCEPT ![c] = {"hello"}]
  /\ UNCHANGED <<hand, greeting, tables, request, watch, history>>

\* The connection closes, or stalls for longer than the second a ping is given
\* (connection.go:91).  What was under way may still arrive.
Break(c) ==
  /\ link[c] = "open"
  /\ link' = [link EXCEPT ![c] = "broken"]
  /\ UNCHANGED <<serving, greeting, tables, request, watch, history>>

-----------------------------------------------------------------------------
(* The goroutine that serves a connection (handlers.go:397-426).           *)

\* A node that is entered with this connection goes on to have its message
\* handled, another one is entered first.
HandleNow(c, m) ==
  /\ server' = [server EXCEPT ![c] = "reading"]
  /\ hand' = [hand EXCEPT ![c] = NoMessage]
  /\ greeting' = [greeting EXCEPT ![c] = IF m = "hello" THEN "received" ELSE @]

ReadMessage(c) ==
  LET p == Owner[c] IN
  /\ server[c] = "reading"
  /\ \E m \in inbox[c] :
       /\ m = "proof" => "hello" \notin inbox[c]
       /\ inbox' = [inbox EXCEPT ![c] = @ \ {m}]
       /\ IF PeerUnder(p) = p /\ ClientUnder(p) = c
            THEN HandleNow(c, m)
            ELSE /\ server' = [server EXCEPT ![c] = "unknown"]
                 /\ hand' = [hand EXCEPT ![c] = m]
                 /\ UNCHANGED greeting
  /\ UNCHANGED <<link, tables, request, watch, history>>

\* A wrong EnterClient, which enters the name alone.
EnterNoClient(c) ==
  /\ server[c] = "unknown"
  /\ ~LockHeld
  /\ server' = [server EXCEPT ![c] = "entering"]
  /\ UNCHANGED <<link, inbox, hand, greeting, tables, request, watch, history>>

\* Under the lock, first the connection ...
EnterClient(c) ==
  /\ server[c] = "unknown"
  /\ ~LockHeld
  /\ server' = [server EXCEPT ![c] = "entering"]
  /\ WsClients' = [WsClients EXCEPT ![Owner[c]] = c]
  /\ UNCHANGED <<link, inbox, hand, greeting, WsPeers, NodesStatus, Nodes, PeerNames,
                 request, watch, history>>

\* ... and then the name.
EnterName(c) ==
  /\ server[c] = "entering"
  /\ WsPeers' = [p \in DOMAIN WsPeers \cup {Owner[c]} |->
                   IF p = Owner[c] THEN p ELSE WsPeers[p]]
  /\ HandleNow(c, hand[c])
  /\ UNCHANGED <<link, inbox, WsClients, NodesStatus, Nodes, PeerNames,
                 request, watch, history>>

\* A wrong EndServing, which takes the node out as the watchdog does.
EndServingClears(c) ==
  /\ server[c] = "reading"
  /\ link[c] = "broken"
  /\ ~LockHeld
  /\ server' = [server EXCEPT ![c] = "ended"]
  /\ inbox' = [inbox EXCEPT ![c] = {}]
  /\ WsPeers' = [p \in DOMAIN WsPeers |-> IF p = Owner[c] THEN NoName ELSE WsPeers[p]]
  /\ UNCHANGED <<link, hand, greeting, WsClients, NodesStatus, Nodes, PeerNames,
                 request, watch, history>>

\* A read fails.  The message that was not read names no user, so that what
\* is deleted from WsClients is the entry of the empty name, which has none.
EndServing(c) ==
  /\ server[c] = "reading"
  /\ link[c] = "broken"
  /\ server' = [server EXCEPT ![c] = "ended"]
  /\ inbox' = [inbox EXCEPT ![c] = {}]
  /\ UNCHANGED <<link, hand, greeting, tables, request, watch, history>>

-----------------------------------------------------------------------------
(* The goroutine of a hello: PingPongPong, and SyncNode where it is needed. *)

\* Lines 98-103 of messaging.go, which read the status and then Nodes: the two
\* reads are one step, as what lies between them decides nothing.
ReadStatus(c) ==
  /\ greeting[c] = "received"
  /\ greeting' = [greeting EXCEPT ![c] =
       IF NodesStatus[Owner[c]] # "Synced" /\ ~Nodes[Owner[c]] THEN "syncing" ELSE "over"]
  /\ UNCHANGED <<link, serving, tables, request, watch, history>>

\* The watchdog has dropped a node and not put back its copy of the list yet.
Copying == watch.at \in {"copying", "replacing"}

\* The copy was made before p is listed, or leaves p out.
MissedByCopy(p) == watch.at = "replacing" \/ (watch.at = "copying" /\ watch.name = p)

\* Whether a listing comes too late for the watchdog's copy.
KeepListing(p) == late' = IF MissedByCopy(p) THEN late \cup {p} ELSE late \ {p}

\* A wrong ListPeer, which lists a node without a name.
ListPeerUnnamed(c) ==
  /\ greeting[c] = "syncing"
  /\ ~LockHeld
  /\ greeting' = [greeting EXCEPT ![c] = "listed"]
  /\ Nodes' = [Nodes EXCEPT ![Owner[c]] = TRUE]
  /\ PeerNames' = PeerNames \cup {NoName}
  /\ NodesStatus' = [NodesStatus EXCEPT ![Owner[c]] = "Synced"]
  /\ KeepListing(Owner[c])
  /\ UNCHANGED <<link, serving, WsPeers, WsClients, request, watch, dropped, panicked>>

\* syncing.go:76-80, under the lock.
ListPeer(c) ==
  /\ greeting[c] = "syncing"
  /\ ~LockHeld
  /\ greeting' = [greeting EXCEPT ![c] = "listed"]
  /\ Nodes' = [Nodes EXCEPT ![Owner[c]] = TRUE]
  /\ PeerNames' = PeerNames \cup {Owner[c]}
  /\ NodesStatus' = [NodesStatus EXCEPT ![Owner[c]] = "Synced"]
  /\ KeepListing(Owner[c])
  /\ UNCHANGED <<link, serving, WsPeers, WsClients, request, watch, dropped, panicked>>

\* syncing.go:83, without it.
EndSync(c) ==
  /\ greeting[c] = "listed"
  /\ greeting' = [greeting EXCEPT ![c] = "over"]
  /\ Nodes' = [Nodes EXCEPT ![Owner[c]] = FALSE]
  /\ UNCHANGED <<link, serving, WsPeers, WsClients, NodesStatus, PeerNames,
                 request, watch, history>>

-----------------------------------------------------------------------------
(* A request to a node: sendProofRequest (validation.go:117-123).          *)

\* The node is entered; for another, the request is published.
FindPeer(p) ==
  /\ request = NoName
  /\ PeerUnder(p) = p
  /\ request' = p
  /\ UNCHANGED <<link, serving, greeting, tables, watch, history>>

\* Its connection is written to, and it answers unless that is broken; with
\* no connection the goroutine panics, which gin recovers.
WriteRequest ==
  LET c == ClientUnder(request) IN
  /\ request # NoName
  /\ request' = NoName
  /\ panicked' = IF c = NoConn THEN panicked \cup {request} ELSE panicked
  /\ \/ /\ c # NoConn
        /\ link[c] = "open"
        /\ inbox' = [inbox EXCEPT ![c] = @ \cup {"proof"}]
     \/ UNCHANGED inbox
  /\ UNCHANGED <<link, server, hand, greeting, tables, watch, dropped, late>>

-----------------------------------------------------------------------------
(* The watchdog, CheckSynced.                                              *)

Goto(place) == watch' = [watch EXCEPT !.at = place]

\* The range goes on, and the locals of its body end.
Resume == watch' = [watch EXCEPT !.at = "ranging", !.name = NoName, !.kept = {}]

BeginRound ==
  /\ watch.at = "asleep"
  /\ watch' = [watch EXCEPT !.at = "ranging", !.todo = DOMAIN WsPeers, !.seen = {}]
  /\ UNCHANGED <<link, serving, greeting, tables, request, history>>

\* The range over WsPeers yields values, each entry once, and those that are
\* made meanwhile perhaps.
NextPeer ==
  /\ watch.at = "ranging"
  /\ \E key \in DOMAIN WsPeers \ watch.seen :
       watch' = [watch EXCEPT !.at = "picked", !.name = WsPeers[key], !.seen = @ \cup {key}]
  /\ UNCHANGED <<link, serving, greeting, tables, request, history>>

EndRound ==
  /\ watch.at = "ranging"
  /\ watch.todo \subseteq watch.seen
  /\ watch' = Asleep
  /\ UNCHANGED <<link, serving, greeting, tables, request, history>>

\* Line 41.  The other branch, of the 121 seconds, is never taken: see
\* NameStands.
CheckName ==
  /\ watch.at = "picked"
  /\ PeerUnder(watch.name) = watch.name
  /\ Goto("checking")
  /\ UNCHANGED <<link, serving, greeting, tables, request, history>>

\* A wrong IsConnectionOpen, which does not look at the error of the write.
AlwaysOpen(c) == {TRUE}

\* A wrong IsConnectionOpen, which may take an open connection for a broken one.
NeverSure(c) == BOOLEAN

\* A write to a broken connection may still succeed, until its end was seen.
IsConnectionOpen(c) ==
  IF link[c] # "broken" THEN {TRUE}
  ELSE IF server[c] = "ended" THEN {FALSE} ELSE BOOLEAN

\* Lines 42-43; a nil connection is dereferenced at line 93.
CheckConnection ==
  LET c == ClientUnder(watch.name) IN
  /\ watch.at = "checking"
  /\ \/ c = NoConn /\ Goto("nil connection")
     \/ /\ c # NoConn
        /\ \E open \in IsConnectionOpen(c) : IF open THEN Resume ELSE Goto("lost")
  /\ UNCHANGED <<link, serving, greeting, tables, request, history>>

\* A wrong DropPeer, which leaves the status of the node.
DropPeerKeepsStatus ==
  /\ watch.at = "lost"
  /\ ~LockHeld
  /\ Goto("copying")
  /\ WsPeers' = [WsPeers EXCEPT ![watch.name] = NoName]
  /\ WsClients' = [WsClients EXCEPT ![watch.name] = NoConn]
  /\ dropped' = dropped \cup {watch.name}
  /\ late' = late \ {watch.name}
  /\ UNCHANGED <<link, serving, greeting, NodesStatus, Nodes, PeerNames, request, panicked>>

\* Lines 45-49, under the lock: one step, since what a reader without the lock
\* sees between the three writes it also sees before or after them.
DropPeer ==
  /\ watch.at = "lost"
  /\ ~LockHeld
  /\ Goto("copying")
  /\ WsPeers' = [WsPeers EXCEPT ![watch.name] = NoName]
  /\ WsClients' = [WsClients EXCEPT ![watch.name] = NoConn]
  /\ NodesStatus' = [NodesStatus EXCEPT ![watch.name] = "Disconnected"]
  /\ dropped' = dropped \cup {watch.name}
  /\ late' = late \ {watch.name}
  /\ UNCHANGED <<link, serving, greeting, Nodes, PeerNames, request, panicked>>

\* Lines 50-56, without the lock; make panics on a negative capacity.
CopyPeerNames ==
  /\ watch.at = "copying"
  /\ IF PeerNames = {}
       THEN Goto("bad capacity")
       ELSE watch' = [watch EXCEPT !.at = "replacing", !.kept = PeerNames \ {watch.name}]
  /\ UNCHANGED <<link, serving, greeting, tables, request, history>>

\* Lines 57-59, under the lock.
ReplacePeerNames ==
  /\ watch.at = "replacing"
  /\ ~LockHeld
  /\ Resume
  /\ PeerNames' = watch.kept
  /\ UNCHANGED <<link, serving, greeting, WsPeers, WsClients, NodesStatus, Nodes, request,
                 history>>

-----------------------------------------------------------------------------
NodeStep(c) == Dial(c) \/ Break(c)
ServeStep(c) == ReadMessage(c) \/ EnterClient(c) \/ EnterName(c) \/ EndServing(c)
GreetStep(c) == ReadStatus(c) \/ ListPeer(c) \/ EndSync(c)
RequestStep == WriteRequest \/ \E p \in Peers : FindPeer(p)
WatchStep == \/ BeginRound \/ NextPeer \/ EndRound \/ CheckName \/ CheckConnection
             \/ DropPeer \/ CopyPeerNames \/ ReplacePeerNames

\* The validator takes no step after a panic of the watchdog.
Next == /\ ~Crashed
        /\ \/ \E c \in Conns : NodeStep(c) \/ ServeStep(c) \/ GreetStep(c)
           \/ RequestStep
           \/ WatchStep

\* The watchdog and the goroutines that serve connections run when they can,
\* and the end of a connection is noticed.  Nodes need not dial, clients of the
\* validator need not ask, and a node that said hello need not be listed.
Fairness == /\ \A c \in Conns : WF_vars(~Crashed /\ ServeStep(c))
            /\ WF_vars(~Crashed /\ WatchStep)

Spec == Init /\ [][Next]_vars /\ Fairness

-----------------------------------------------------------------------------
\* Every variable has its type.
TypeOK ==
  /\ link \in [Conns -> {"unused", "open", "broken"}]
  /\ inbox \in [Conns -> SUBSET Messages]
  /\ server \in [Conns -> {"none", "reading", "unknown", "entering", "ended"}]
  /\ hand \in [Conns -> Messages \cup {NoMessage}]
  /\ greeting \in [Conns -> {"none", "received", "syncing", "listed", "over"}]
  /\ DOMAIN WsPeers \subseteq Peers
  /\ WsPeers \in [DOMAIN WsPeers -> Peers \cup {NoName}]
  /\ WsClients \in [Peers -> Conns \cup {NoConn}]
  /\ NodesStatus \in [Peers -> {"", "Synced", "Disconnected"}]
  /\ Nodes \in [Peers -> BOOLEAN]
  /\ PeerNames \subseteq Peers
  /\ request \in Peers \cup {NoName}
  /\ watch \in [at : {"asleep", "ranging", "picked", "checking", "lost",
                      "copying", "replacing", "nil connection", "bad capacity"},
                todo : SUBSET Peers, seen : SUBSET Peers,
                name : Peers \cup {NoName}, kept : SUBSET Peers]
  /\ dropped \subseteq Peers
  /\ late \subseteq Peers
  /\ panicked \subseteq Peers

\* As long as the watchdog has found no connection broken, neither it nor a
\* request ever meets a nil one, or an empty list, although both read the
\* tables without the lock while nodes are being entered: a connection is
\* entered before its name (handlers.go:413-414) and looked for after it.
NilOnlyAfterDrop ==
  /\ Crashed => dropped # {}
  /\ panicked \subseteq dropped

\* The name the watchdog picks is still in the table when it looks again,
\* although it holds no lock: only the watchdog itself takes names out, since
\* a serving goroutine that ends (handlers.go:404) takes out none.  So the
\* branch of connection.go:62-81 is dead.
NameStands == watch.at = "picked" => PeerUnder(watch.name) = watch.name

\* The watchdog takes out only a node that has lost a connection of its own:
\* the one it pinged was entered under that node's name and was broken then,
\* whatever was entered under the name before the drop (connection.go:41-47).
HasLost(p) == \E c \in Conns : Owner[c] = p /\ link[c] = "broken"
OnlyLostDropped == \A p \in dropped : HasLost(p)

\* A node with the status Synced is in the list of nodes, which SyncNode would
\* not enter it in again (messaging.go:98).  Dropping it and taking it from
\* the list are three separate holds of the lock (connection.go:45-59), in
\* between which it may come back and others be listed.  Only a node whose last
\* listing came after the copy was made, or after the watchdog dropped that very
\* node, and before the copy was put back, can be lost.
SyncedIsListed ==
  \A p \in Peers : NodesStatus[p] = "Synced" => p \in PeerNames \cup late

\* A broken connection does not stay under its node's name: the watchdog
\* finds it, or the node comes back on another one, or the process ends.
BrokenConnectionGoes ==
  \A c \in Conns :
    (WsClients[Owner[c]] = c /\ link[c] = "broken")
      ~> (WsClients[Owner[c]] # c \/ Crashed)
=============================================================================
