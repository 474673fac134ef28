------------------------------- MODULE Startup -------------------------------
(***************************************************************************)
(* What a node does from its start on (initialize in src/main.go, lines    *)
(* 83-148): one after the other it adds up the payments made before, lists *)
(* and pins videos, lists the files of contracts, starts what its type     *)
(* asks for, and serves clients.  The goroutines it starts on the way run  *)
(* on beside it, and beside each other.  Publish and subscribe, and the    *)
(* watchdog of a validator, are not here (see ProofExchange and            *)
(* PeerConnections); a storage node is one that uses WebSockets.           *)
(***************************************************************************)
EXTENDS HiveHistory, VideoPins, BlockLists, ValidatorLinks

CONSTANTS
  Launches,     \* what a node may be started with, see LaunchType
  MaxRestarts,  \* BOUND: how often the process ends and is started again
  MaxUpdates    \* BOUND: how often Update fetches the videos

\* The flags -node, -getHive, -getVids and -pinVideos; what 3Speak and the
\* contracts list (nothing of the latter without -honeycomb); what was pinned,
\* and which files have a list, before.
LaunchType == [type : {1, 2}, hive : BOOLEAN, vids : BOOLEAN, pin : BOOLEAN,
               offered : SUBSET Cids, contracts : SUBSET Cids,
               pinned : SUBSET Cids, recorded : SUBSET Cids]

ASSUME LaunchAssumption == /\ Launches \subseteq LaunchType
                           /\ MaxRestarts \in Nat /\ MaxUpdates \in Nat

VARIABLES
  launch,       \* what this node was started with
  main,         \* how far initialize is
  updates,      \* the rounds of Update
  restarts

vars == <<entries, paging, counted, lister, pinner, refs, indexer, CIDRefStatus, fetch,
          notFound, tally, synced, dialled, WsValidators, pins, stuck,
          launch, main, updates, restarts>>
nodeVars == <<launch, restarts>>
storeVars == <<refs, indexer, CIDRefStatus, fetch, notFound, tally, synced>>

Init ==
  /\ launch \in Launches
  /\ HiveInit /\ (launch.hive \/ entries = 0)
  /\ VideoInit /\ BlockInit /\ LinkInit
  /\ \A c \in Cids : (refs[c] = NoList) = (c \notin launch.recorded)
  /\ pins = launch.pinned
  /\ stuck = FALSE
  /\ main = "paying" /\ updates = 0 /\ restarts = 0

-----------------------------------------------------------------------------
(* initialize, step by step.                                               *)

Pay ==
  /\ main = "paying"
  /\ launch.hive /\ paging.at = "off"
  /\ BeginPaging
  /\ UNCHANGED <<videoVars, storeVars, linkVars, nodeVars, main, updates>>

EndPaying ==
  /\ main = "paying"
  /\ ~launch.hive \/ paging.at = "done"
  /\ main' = "listing"
  /\ UNCHANGED <<hiveVars, videoVars, storeVars, linkVars, nodeVars, updates>>

List ==
  /\ main = "listing"
  /\ launch.vids /\ lister.at = "off"
  /\ FetchVideos(launch.offered)
  /\ UNCHANGED <<hiveVars, storeVars, linkVars, nodeVars, main, updates>>

\* A wrong Listed, which does not wait for the list.
ListedEarly == lister.at # "off"

Listed == lister.at = "whole"

\* Lines 98-103.
EndListing ==
  /\ main = "listing"
  /\ main' = "contracts"
  /\ \/ /\ launch.vids /\ Listed
        /\ pinner' = IF launch.pin THEN [pinner EXCEPT !.at = "started"] ELSE pinner
        /\ StartSaveRefs("videos", lister.list)
     \/ ~launch.vids /\ UNCHANGED <<pinner, storeVars>>
  /\ UNCHANGED <<hiveVars, lister, linkVars, pins, nodeVars, updates>>

\* Lines 104-121: when the request fails, the list is empty.
ListContracts ==
  /\ main = "contracts"
  /\ main' = "services"
  /\ \E files \in {launch.contracts, {}} : StartSaveRefs("contracts", files)
  /\ UNCHANGED <<hiveVars, videoVars, linkVars, nodeVars, updates>>

\* Lines 122-139 for a storage node: the validators are asked for once.
Serve ==
  /\ main = "services"
  /\ main' = "serving"
  /\ IF launch.type = 1
     THEN UNCHANGED <<fetch, linkVars>>
     ELSE /\ fetch' = [fetch EXCEPT !.at = "started"]
          /\ \E names \in {Validators, {}} : StartLinks(names)
  /\ UNCHANGED <<hiveVars, videoVars, refs, indexer, CIDRefStatus, notFound, tally, synced,
                 nodeVars, updates>>

\* Rewards.Update, with any time between two rounds.
Update ==
  /\ main = "serving"
  /\ launch.type = 1
  /\ updates < MaxUpdates
  /\ updates' = updates + 1
  /\ FetchVideos(launch.offered)
  /\ UNCHANGED <<hiveVars, storeVars, linkVars, nodeVars, main>>

Restart ==
  /\ restarts < MaxRestarts
  /\ restarts' = restarts + 1
  /\ main' = "paying"
  /\ updates' = 0
  /\ HiveReset /\ VideoReset /\ BlockReset /\ LinkReset
  /\ UNCHANGED <<pins, launch>>

-----------------------------------------------------------------------------
(* The goroutines, and the client.                                         *)

Main == Pay \/ EndPaying \/ List \/ EndListing \/ ListContracts \/ Serve

Page == /\ PageStep
        /\ UNCHANGED <<videoVars, storeVars, linkVars, nodeVars, main, updates>>

Payment == /\ NewEntry
           /\ UNCHANGED <<videoVars, storeVars, linkVars, nodeVars, main, updates>>

Lister == /\ EndList
          /\ UNCHANGED <<hiveVars, storeVars, linkVars, nodeVars, main, updates>>

Pinner == /\ PinStep
          /\ UNCHANGED <<hiveVars, storeVars, linkVars, nodeVars, main, updates>>

Indexer(s, c) == /\ IndexerStep(s, c)
                 /\ UNCHANGED <<hiveVars, videoVars, linkVars, nodeVars, main, updates>>

Fetcher == /\ FetchStep
           /\ UNCHANGED <<hiveVars, videoVars, linkVars, nodeVars, main, updates>>

Link(v) == /\ LinkStep(v)
           /\ UNCHANGED <<hiveVars, videoVars, storeVars, nodeVars, main, updates>>

Client == /\ main = "serving" /\ launch.type = 2
          /\ \E name \in Names : AskValidator(name)
          /\ UNCHANGED <<hiveVars, videoVars, storeVars, nodeVars, main, updates>>

Next == \/ Main \/ Update \/ Restart \/ Page \/ Payment \/ Lister \/ Pinner \/ Fetcher \/ Client
        \/ \E s \in Callers, c \in Cids : Indexer(s, c)
        \/ \E v \in Validators : Link(v)

Spec == Init /\ [][Next]_vars

Work == \/ Main \/ Page \/ Lister \/ Pinner \/ Fetcher
        \/ \E s \in Callers, c \in Cids : Indexer(s, c)

\* Requests and calls return, and Go runs something that can run: which of the
\* goroutines does not matter, as all but the loop over pages come to an end.
\* Nothing is assumed of validators, of clients, of the account, of Update or
\* of the process's staying up.
FairSpec == Spec /\ WF_vars(Work)

-----------------------------------------------------------------------------
StartupTypeOK ==
  /\ HiveTypeOK /\ LocalTypeOK /\ VideoTypeOK /\ BlockTypeOK /\ LinkTypeOK
  /\ launch \in Launches
  /\ main \in {"paying", "listing", "contracts", "services", "serving"}
  /\ updates \in 0 .. MaxUpdates
  /\ restarts \in 0 .. MaxRestarts

\* PinVideos unpins a video that the last fetch found only when Update builds
\* the list anew meanwhile, which a storage node never does: the list that
\* main hands over is whole (main.go:95-101, rewards.go:192).
FoundIsKept == pinner.dropped \cap pinner.sought # {} => updates > 0

\* A start always gets to the point where clients are served and a signal to
\* stop is obeyed (main.go:72-78), unless a full page of the history began
\* at its first entry: then GetHiveSent may go on for ever (hive.go:184).
StartupEnds == main # "serving" ~> main = "serving" \/ paging.wrapped

\* Every goroutine that looks for a file's blocks comes to its end, and so
\* does FetchPins, which waits for its own, whatever IPFS fails on, unless a
\* client has left localdata.Lock locked.
IndexingEnds ==
  /\ \A s \in Callers : Running(s) ~> stuck \/ ~Running(s)
  /\ fetch.at = "started" ~> stuck \/ fetch.at \in {"done", "off"}
=============================================================================
