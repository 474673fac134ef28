------------------------------ MODULE BlockLists ------------------------------
(***************************************************************************)
(* How a node comes by the block lists its proofs are hashed over: SaveRefs *)
(* of src/ipfs/ipfs.go, for the videos and for the files of the contracts, *)
(* and FetchPins of src/peers/peers.go, for everything a storage node has  *)
(* pinned.  Each runs one goroutine per file, which looks for a record of  *)
(* the file, asks IPFS for its blocks when there is none, and saves what   *)
(* it got.  SaveRefs gives a file up when IPFS fails; FetchPins drops the  *)
(* error and saves an empty list.  A list that breaks off in the middle is *)
(* saved like a whole one.                                                 *)
(*                                                                         *)
(* Each call of the store is one step (see Database).  SavedRefs, CidSize  *)
(* and the sizes of pins are left out: nothing that is called reads them   *)
(* but the statistics.  So is the branch of SaveRefs that reports progress *)
(* before a file is done, since the sizes it divides by stay 0.            *)
(***************************************************************************)
EXTENDS LocalNode, Integers, FiniteSets

CONSTANTS
  Lists,        \* the lists IPFS may yield, or break off with
  EmptyList,    \* what FetchPins saves after an error
  NoList        \* no record in the store

ASSUME BlockListAssumption == EmptyList \in Lists /\ NoList \notin Lists

VARIABLES
  refs,         \* file -> the record "refs"+CID, which outlives the node
  indexer,      \* caller -> file -> the position of its goroutine
  CIDRefStatus, \* file -> whether its list is reported as complete
  fetch,        \* FetchPins: its position and the pins it goes by
  notFound,     \* its counter keysNotFound
  tally,        \* file -> the value of it its goroutine read last
  synced        \* SyncedPercentage, as a fraction

blockVars == <<refs, indexer, CIDRefStatus, fetch, notFound, tally, synced>>

Callers == {"videos", "contracts", "pins"}
Savers == {"videos", "contracts"}
Places == {"off", "started", "absent", "known", "saved", "reported", "counting", "ended"}

NotSynced == [of |-> 1, done |-> 0]

BlockInit ==
  /\ refs \in [Cids -> Lists \cup {NoList}]
  /\ indexer = [s \in Callers |-> [c \in Cids |-> "off"]]
  /\ CIDRefStatus = [c \in Cids |-> FALSE]
  /\ fetch = [at |-> "off", want |-> {}]
  /\ notFound = 0
  /\ tally = [c \in Cids |-> 0]
  /\ synced = NotSynced

Move(s, c, place) == indexer' = [indexer EXCEPT ![s][c] = place]

Running(s) == \E c \in Cids : indexer[s][c] \notin {"off", "ended"}

\* A goroutine for every file of the list, or, when IPFS does not answer,
\* none (ipfs.go:398-401, 443-446).
StartSaveRefs(s, files) ==
  /\ \E answered \in {files, {}} :
       indexer' = [indexer EXCEPT ![s] =
                     [c \in Cids |-> IF c \in answered THEN "started" ELSE "off"]]
  /\ UNCHANGED <<refs, CIDRefStatus, fetch, notFound, tally, synced>>

\* Before it looks, a goroutine of FetchPins takes the lock to add up sizes.
MayLook(s, c) == indexer[s][c] = "started" /\ (s = "pins" => ~stuck)

\* A wrong FindRefs, which asks IPFS for a list it has.
FindRefsAlways(s, c) ==
  /\ MayLook(s, c)
  /\ Move(s, c, "absent")
  /\ UNCHANGED <<refs, CIDRefStatus, fetch, notFound, tally, synced>>

\* IsPinnedInDB.
FindRefs(s, c) ==
  /\ MayLook(s, c)
  /\ Move(s, c, IF refs[c] = NoList THEN "absent" ELSE "known")
  /\ UNCHANGED <<refs, CIDRefStatus, fetch, notFound, tally, synced>>

-----------------------------------------------------------------------------
(* SaveRefs, lines 447-478.                                                *)

\* A wrong GiveUp, which goes on to report the file.
GiveUpReports(s, c) ==
  /\ indexer[s][c] = "absent"
  /\ Move(s, c, "saved")
  /\ UNCHANGED <<refs, CIDRefStatus, fetch, notFound, tally, synced>>

\* A wrong GiveUp, which begins again.
GiveUpNever(s, c) ==
  /\ indexer[s][c] = "absent"
  /\ Move(s, c, "started")
  /\ UNCHANGED <<refs, CIDRefStatus, fetch, notFound, tally, synced>>

\* ObjectStat or Refs fails.
GiveUp(s, c) ==
  /\ indexer[s][c] = "absent"
  /\ Move(s, c, "ended")
  /\ UNCHANGED <<refs, CIDRefStatus, fetch, notFound, tally, synced>>

\* The list, as far as it came, is saved without looking again.  The lock is
\* released just before the save; that a client leaves it locked in between
\* is taken for the same a moment later, as nothing could tell the two apart.
SaveList(s, c) ==
  /\ indexer[s][c] = "absent"
  /\ ~stuck
  /\ \E l \in Lists : refs' = [refs EXCEPT ![c] = l]
  /\ Move(s, c, "saved")
  /\ UNCHANGED <<CIDRefStatus, fetch, notFound, tally, synced>>

Report(s, c) ==
  /\ indexer[s][c] \in {"saved", "known"}
  /\ ~stuck
  /\ CIDRefStatus' = [CIDRefStatus EXCEPT ![c] = TRUE]
  /\ Move(s, c, "ended")
  /\ UNCHANGED <<refs, fetch, notFound, tally, synced>>

-----------------------------------------------------------------------------
(* FetchPins.                                                              *)

\* Lines 22-57: the recursive pins, or none when IPFS fails.
BeginFetch ==
  /\ fetch.at = "started"
  /\ ~stuck
  /\ \E answer \in {pins, {}} :
       /\ fetch' = [at |-> "waiting", want |-> answer]
       /\ indexer' = [indexer EXCEPT !["pins"] =
                        [c \in Cids |-> IF c \in answer THEN "started" ELSE "off"]]
  /\ UNCHANGED <<refs, CIDRefStatus, notFound, tally, synced>>

EndKnown(c) ==
  /\ indexer["pins"][c] = "known"
  /\ Move("pins", c, "ended")
  /\ UNCHANGED <<refs, CIDRefStatus, fetch, notFound, tally, synced>>

\* Lines 69-77: an error of Refs leaves an empty list, and both are saved.
SavePinList(c) ==
  /\ indexer["pins"][c] = "absent"
  /\ ~stuck
  /\ \E l \in Lists \cup {EmptyList} : refs' = [refs EXCEPT ![c] = l]
  /\ Move("pins", c, "saved")
  /\ UNCHANGED <<CIDRefStatus, fetch, notFound, tally, synced>>

\* Lines 79-82.
ReportSynced(c) ==
  /\ indexer["pins"][c] = "saved"
  /\ ~stuck
  /\ synced' = [done |-> notFound, of |-> Cardinality(fetch.want)]
  /\ Move("pins", c, "reported")
  /\ UNCHANGED <<refs, CIDRefStatus, fetch, notFound, tally>>

\* Line 83, outside the lock: two goroutines may read the same value.
ReadCount(c) ==
  /\ indexer["pins"][c] = "reported"
  /\ tally' = [tally EXCEPT ![c] = notFound]
  /\ Move("pins", c, "counting")
  /\ UNCHANGED <<refs, CIDRefStatus, fetch, notFound, synced>>

WriteCount(c) ==
  /\ indexer["pins"][c] = "counting"
  /\ notFound' = tally[c] + 1
  /\ Move("pins", c, "ended")
  /\ UNCHANGED <<refs, CIDRefStatus, fetch, tally, synced>>

\* A wrong EndFetch, without the Wait.
EndFetchEarly ==
  /\ fetch.at = "waiting"
  /\ ~stuck
  /\ fetch' = [fetch EXCEPT !.at = "done"]
  /\ synced' = [done |-> 1, of |-> 1]
  /\ UNCHANGED <<refs, indexer, CIDRefStatus, notFound, tally>>

\* Lines 88-94.
EndFetch ==
  /\ fetch.at = "waiting"
  /\ ~Running("pins")
  /\ ~stuck
  /\ fetch' = [fetch EXCEPT !.at = "done"]
  /\ synced' = [done |-> 1, of |-> 1]
  /\ UNCHANGED <<refs, indexer, CIDRefStatus, notFound, tally>>

-----------------------------------------------------------------------------
SaverStep(s, c) == FindRefs(s, c) \/ GiveUp(s, c) \/ SaveList(s, c) \/ Report(s, c)
FetcherStep(c) == \/ FindRefs("pins", c) \/ EndKnown(c) \/ SavePinList(c)
                  \/ ReportSynced(c) \/ ReadCount(c) \/ WriteCount(c)
FetchStep == BeginFetch \/ EndFetch
IndexerStep(s, c) == IF s = "pins" THEN FetcherStep(c) ELSE SaverStep(s, c)
BlockStep == FetchStep \/ \E s \in Callers, c \in Cids : IndexerStep(s, c)

\* The process ends; the store stays.
BlockReset ==
  /\ indexer' = [s \in Callers |-> [c \in Cids |-> "off"]]
  /\ CIDRefStatus' = [c \in Cids |-> FALSE]
  /\ fetch' = [at |-> "off", want |-> {}]
  /\ notFound' = 0
  /\ tally' = [c \in Cids |-> 0]
  /\ synced' = NotSynced
  /\ UNCHANGED refs

-----------------------------------------------------------------------------
BlockTypeOK ==
  /\ refs \in [Cids -> Lists \cup {NoList}]
  /\ indexer \in [Callers -> [Cids -> Places]]
  /\ CIDRefStatus \in [Cids -> BOOLEAN]
  /\ fetch \in [at : {"off", "started", "waiting", "done"}, want : SUBSET Cids]
  /\ notFound \in Nat
  /\ tally \in [Cids -> Nat]
  /\ synced \in [of : Nat, done : Nat]

\* A file reported as complete (which /get-CID shows, and without which no
\* reward proof is run) has a list in the store: not the goroutine that gave
\* up on it, nor one that was overtaken, has reported it, in this life of the
\* node or over a restart.
StatusMeansStored == \A c \in Cids : CIDRefStatus[c] => refs[c] # NoList

\* The statistics show 100% of the pins as synced only when every pin that
\* was fetched has a list, although the counter is read by all goroutines
\* and written by them without a lock.
SyncedMeansListed ==
  synced.done >= synced.of => \A c \in fetch.want : refs[c] # NoList

\* The proof exchange takes the indexers of a node to be this.
Index == INSTANCE BlockIndex WITH
  Indexers <- Cardinality(Callers),
  indexing <- [c \in Cids |-> Cardinality({s \in Callers : indexer[s][c] = "absent"})]
ImplementsBlockIndex == Index!Spec
=============================================================================
