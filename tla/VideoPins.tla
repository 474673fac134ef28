------------------------------ MODULE VideoPins ------------------------------
(***************************************************************************)
(* src/Rewards/threespeak.go.  ThreeSpeak fetches the list of videos page  *)
(* by page, passing over the pages that fail, and builds it anew in a      *)
(* global without a lock.  PinVideos unpins what is not on that list and   *)
(* then pins what is, until a limit of storage is reached.  Whatever is    *)
(* asked of IPFS may fail.                                                 *)
(*                                                                         *)
(* The list is in the order of a Go map, which is any order, so it is a    *)
(* set here.  While it is built anew, a reader may find any part of it:    *)
(* what was appended so far or, since slice and length are not read        *)
(* together, what is appended later too.  (The empty names of such a torn  *)
(* read are left out: IPFS fails on them.)                                 *)
(***************************************************************************)
EXTENDS LocalNode, Integers, FiniteSetsExt

CONSTANTS
  Size,         \* file -> its size
  StorageLimit, \* -storageLimit
  Slack         \* 1,000,000 bytes (threespeak.go:119)

ASSUME VideoAssumption ==
  Size \in [Cids -> Nat] /\ StorageLimit \in Nat /\ Slack \in Nat

VARIABLES
  lister,       \* ThreeSpeak, and localdata.ThreeSpeakVideos
  pinner        \* the goroutine PinVideos

videoVars == <<lister, pinner, pins>>

NoVideos == [at |-> "off", list |-> {}]

\* The locals of PinVideos: wanted is videoMap and later the list it pins,
\* seen is allPins, todo what is to be looked at of the recursive pins, then of
\* the list.
\* The others are history: what the list should have had when it was first
\* read, whether anything was pinned, the pins whose size was not counted,
\* the videos IPFS failed on, and what was unpinned.
NotPinning == [at |-> "off", wanted |-> {}, seen |-> {}, todo |-> {}, total |-> 0,
               sought |-> {}, grown |-> FALSE, missed |-> {}, failed |-> {}, dropped |-> {}]

VideoInit == lister = NoVideos /\ pinner = NotPinning

-----------------------------------------------------------------------------
(* ThreeSpeak, lines 13-48.                                                *)

\* Of what 3Speak offers the pages that were had, and the list made empty.
FetchVideos(offered) ==
  /\ lister.at # "building"
  /\ \E found \in SUBSET offered : lister' = [at |-> "building", list |-> found]
  /\ UNCHANGED <<pinner, pins>>

\* The last video is appended.
EndList ==
  /\ lister.at = "building"
  /\ lister' = [lister EXCEPT !.at = "whole"]
  /\ UNCHANGED <<pinner, pins>>

ListsSeen == IF lister.at = "building" THEN SUBSET lister.list ELSE {lister.list}

-----------------------------------------------------------------------------
(* PinVideos, lines 50-136.                                                *)

\* Lines 57-61.
ReadWanted ==
  /\ pinner.at = "started"
  /\ \E list \in ListsSeen :
       pinner' = [pinner EXCEPT !.at = "wanting", !.wanted = list, !.sought = lister.list]
  /\ UNCHANGED <<lister, pins>>

\* Lines 65-75: pins of every kind are seen, and the recursive ones gone
\* through; the error is dropped, and then no pins are seen.
ReadPins ==
  /\ pinner.at = "wanting"
  /\ \/ pinner' = [pinner EXCEPT !.at = "dropping", !.seen = AllPins, !.todo = pins]
     \/ pinner' = [pinner EXCEPT !.at = "dropping", !.missed = pins]
  /\ UNCHANGED <<lister, pins>>

Passed(c) == [pinner EXCEPT !.todo = @ \ {c}]

\* Lines 76-85: the size of a wanted pin is counted, unless IPFS fails.
CountPin ==
  /\ pinner.at = "dropping"
  /\ \E c \in pinner.todo \cap pinner.wanted :
       pinner' \in { [Passed(c) EXCEPT !.total = @ + Size[c]],
                     [Passed(c) EXCEPT !.missed = @ \cup {c}] }
  /\ UNCHANGED <<lister, pins>>

\* Lines 86-94: every other pin goes, unless IPFS fails.
DropPin ==
  /\ pinner.at = "dropping"
  /\ \E c \in pinner.todo \ pinner.wanted :
       \/ /\ pins' = pins \ {c}
          /\ pinner' = [Passed(c) EXCEPT !.dropped = @ \cup {c}]
       \/ /\ pinner' = [Passed(c) EXCEPT !.missed = @ \cup {c}]
          /\ UNCHANGED pins
  /\ UNCHANGED lister

\* Line 101 reads the global again.
ReadList ==
  /\ pinner.at = "dropping"
  /\ pinner.todo = {}
  /\ \E list \in ListsSeen :
       pinner' = [pinner EXCEPT !.at = "pinning", !.todo = list, !.wanted = list]
  /\ UNCHANGED <<lister, pins>>

\* A wrong Fits, which does not count what is pinned already.
FitsAlone(c) == Size[c] - Slack <= StorageLimit

Fits(c) == pinner.total + Size[c] - Slack <= StorageLimit

More == pinner.at = "pinning" /\ pinner.todo # {} /\ pinner.total < StorageLimit

\* Lines 107-127: a video no pin was seen of is pinned when it fits.
PinNext ==
  /\ More
  /\ \E c \in pinner.todo \ pinner.seen :
       /\ Fits(c)
       /\ pins' = pins \cup {c}
       /\ pinner' = [Passed(c) EXCEPT !.total = @ + Size[c], !.seen = @ \cup {c},
                                      !.missed = @ \ {c}, !.grown = TRUE]
  /\ UNCHANGED lister

\* A wrong FailNext, which ends the round.
FailNextAndStop ==
  /\ More
  /\ \E c \in pinner.todo \ pinner.seen :
       pinner' = [pinner EXCEPT !.todo = {}, !.failed = @ \cup {c}]
  /\ UNCHANGED <<lister, pins>>

\* Lines 109-112 and 121-124: IPFS fails on a video.
FailNext ==
  /\ More
  /\ \E c \in pinner.todo \ pinner.seen :
       pinner' = [Passed(c) EXCEPT !.failed = @ \cup {c}]
  /\ UNCHANGED <<lister, pins>>

\* Lines 119 and 129-131: a video that does not fit, or is pinned, is passed.
PassNext ==
  /\ More
  /\ \E c \in pinner.todo :
       /\ c \in pinner.seen \/ ~Fits(c)
       /\ pinner' = Passed(c)
  /\ UNCHANGED <<lister, pins>>

\* Line 102, and the end of the list.
EndPinning ==
  /\ pinner.at = "pinning"
  /\ ~More
  /\ pinner' = [pinner EXCEPT !.at = "done", !.todo = {}]
  /\ UNCHANGED <<lister, pins>>

PinStep == \/ ReadWanted \/ ReadPins \/ CountPin \/ DropPin \/ ReadList
           \/ PinNext \/ FailNext \/ PassNext \/ EndPinning

\* The process ends; the daemon keeps its pins.
VideoReset == lister' = NoVideos /\ pinner' = NotPinning

-----------------------------------------------------------------------------
VideoTypeOK ==
  /\ lister \in [at : {"off", "building", "whole"}, list : SUBSET Cids]
  /\ pinner \in [at : {"off", "started", "wanting", "dropping", "pinning", "done"},
                 wanted : SUBSET Cids, seen : SUBSET Cids, todo : SUBSET Cids, total : Nat,
                 sought : SUBSET Cids, grown : BOOLEAN, missed : SUBSET Cids,
                 failed : SUBSET Cids, dropped : SUBSET Cids]

SizeOf(files) == MapThenSumSet(LAMBDA c : Size[c], files)

\* Once PinVideos has pinned anything, all pins together take no more than
\* the limit and its slack, except for those whose size it could not have or
\* that it could not unpin, whatever was pinned before it started and
\* wherever an earlier life of the node ended (threespeak.go:102, 119).
PinnedWithinLimit ==
  pinner.grown => SizeOf(pins \ pinner.missed) <= StorageLimit + Slack

\* A video on the list that is not pinned in any way in the end did not fit, or
\* IPFS failed on it, or its pin, or the pin it lay below, was taken off in this
\* round: the pins are read once, of every kind, and what goes with a pin that
\* is dropped still counts as pinned (threespeak.go:65-71, 90, 108).
LeftOutDidNotFit ==
  pinner.at = "done" =>
    \A c \in pinner.wanted \ (AllPins \cup pinner.failed \cup Trees(pinner.dropped)) :
      pinner.total >= StorageLimit \/ ~Fits(c)
=============================================================================
