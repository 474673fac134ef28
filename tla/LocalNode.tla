------------------------------ MODULE LocalNode ------------------------------
(***************************************************************************)
(* What the goroutines of one node share: the pins of the IPFS daemon      *)
(* beside it, and localdata.Lock (src/localdata/localdata.go:51).  Every   *)
(* section under that lock is one step of the goroutine that runs it, so   *)
(* that the lock need not be shown, except that a panic inside such a      *)
(* section leaves it locked for ever.                                      *)
(*                                                                         *)
(* The program pins and unpins recursively.  What lies below a recursive   *)
(* pin is pinned indirectly, and goes with it; direct pins are made by     *)
(* other users of the daemon, and stay.                                    *)
(***************************************************************************)
EXTENDS FiniteSets

CONSTANTS
  Cids,                 \* files
  Below,                \* file -> the files that are blocks below it
  Direct                \* the files with a direct pin

ASSUME CidsAssumption == IsFiniteSet(Cids)
ASSUME PinsAssumption == Below \in [Cids -> SUBSET Cids] /\ Direct \subseteq Cids

VARIABLES
  pins,                 \* the recursive pins of the daemon: they outlive the node
  stuck                 \* localdata.Lock was left locked

\* Files with what lies below them.
Trees(files) == files \cup UNION {Below[c] : c \in files}

\* Every pin the daemon reports: recursive, direct or indirect.
AllPins == Trees(pins) \cup Direct

LocalTypeOK == pins \subseteq Cids /\ stuck \in BOOLEAN
=============================================================================
