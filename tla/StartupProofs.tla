---------------------------- MODULE StartupProofs ----------------------------
(***************************************************************************)
(* Proofs about Startup, for any files, lists, validators and launches.    *)
(*                                                                         *)
(* Each part of a node (its payments, its videos, its block lists, its     *)
(* links) changes by the steps of that part and by nothing else; this is   *)
(* shown once, for each part, and its invariants are then shown of its own *)
(* steps.                                                                  *)
(***************************************************************************)
EXTENDS Startup, TLAPS, FiniteSetTheorems, WellFoundedInduction

-----------------------------------------------------------------------------
(* The payments.                                                           *)

HiveNext == BeginPaging \/ NewEntry \/ CountPage \/ PageFails \/ HiveReset

\* The payments are read by GetHiveSent alone.
LEMMA HiveAlone ==
  ASSUME [Next]_vars PROVE HiveNext \/ UNCHANGED hiveVars
<1>1. CASE Main
  BY <1>1 DEF Main, Pay, EndPaying, List, EndListing, ListContracts, Serve, HiveNext, hiveVars
<1>2. CASE Update BY <1>2 DEF Update, hiveVars
<1>3. CASE Restart BY <1>3 DEF Restart, HiveNext
<1>4. CASE Page BY <1>4 DEF Page, PageStep, HiveNext
<1>5. CASE Payment BY <1>5 DEF Payment, HiveNext
<1>6. CASE Lister \/ Pinner \/ Fetcher \/ Client BY <1>6 DEF Lister, Pinner, Fetcher, Client
<1>7. ASSUME NEW s \in Callers, NEW c \in Cids, Indexer(s, c) PROVE UNCHANGED hiveVars
  BY <1>7 DEF Indexer
<1>8. ASSUME NEW v \in Validators, Link(v) PROVE UNCHANGED hiveVars BY <1>8 DEF Link
<1>9. CASE UNCHANGED vars BY <1>9 DEF vars, hiveVars
<1> QED BY <1>1, <1>2, <1>3, <1>4, <1>5, <1>6, <1>7, <1>8, <1>9 DEF Next

\* Where the next page ends: within the history, and below the page before.
LEMMA PageBounds ==
  ASSUME HiveTypeOK, paging.start < entries
  PROVE  /\ LastEntry \in -1 .. entries - 1
         /\ OldestEntry \in 0 .. MaxEntries /\ OldestEntry <= LastEntry + 1
         /\ FullPage => OldestEntry <= LastEntry
         /\ ~FullPage => OldestEntry = 0
BY PageAssumption DEF HiveTypeOK, LastEntry, OldestEntry, FullPage, Newest

\* What a page asked for never ends above the newest entry there is.
StartInHistory == paging.start < entries

\* As long as no full page began at entry 0, what was counted are the entries
\* from the newest down to the start of the next page, each once; afterwards
\* every entry there was at the beginning is among them.
Between(first, last) == [e \in Entries |-> IF first <= e /\ e <= last THEN 1 ELSE 0]

HiveInv ==
  /\ HiveTypeOK
  /\ StartInHistory
  /\ paging.newest < entries
  /\ ~paging.wrapped =>
       \/ /\ paging.newest = -1 /\ paging.start = Newest
          /\ counted = [e \in Entries |-> 0]
       \/ /\ paging.at = "paging"
          /\ 0 <= paging.start /\ paging.start < paging.newest
          /\ counted = Between(paging.start + 1, paging.newest)
       \/ /\ paging.at = "done"
          /\ \E first \in 0 .. paging.newest :
               /\ counted = Between(first, paging.newest)
               /\ ~paging.failed => first = 0
  /\ paging.wrapped => /\ paging.newest >= 0
                       /\ \A e \in 0 .. paging.newest : counted[e] > 0

\* A page that is counted keeps it.
LEMMA CountPageKeeps == ASSUME HiveInv, CountPage PROVE HiveInv'
<1> USE PageAssumption
<1> DEFINE old == OldestEntry
           last == LastEntry
           top == IF paging.newest = -1 THEN last ELSE paging.newest
<1>1. /\ last \in -1 .. entries - 1 /\ old \in 0 .. MaxEntries /\ old <= last + 1
      /\ FullPage => old <= last
      /\ ~FullPage => old = 0
  BY PageBounds DEF HiveInv, StartInHistory
<1>2. /\ entries \in 0 .. MaxEntries /\ entries' = entries
      /\ paging \in [at : {"off", "paging", "done"}, start : -1 .. MaxEntries - 1,
                     newest : -1 .. MaxEntries - 1, wrapped : BOOLEAN, failed : BOOLEAN]
      /\ counted \in [Entries -> 0 .. 2]
  BY DEF HiveInv, HiveTypeOK, CountPage
<1>3. counted' = [e \in Entries |->
        IF e \in old .. last /\ counted[e] < 2 THEN counted[e] + 1 ELSE counted[e]]
  BY DEF CountPage
<1>4. counted' \in [Entries -> 0 .. 2] BY <1>2, <1>3
<1>5. /\ paging'.at = IF FullPage THEN "paging" ELSE "done"
      /\ paging'.start = IF FullPage THEN old - 1 ELSE paging.start
      /\ paging'.newest = top
      /\ paging'.wrapped = (paging.wrapped \/ (FullPage /\ old = 0))
      /\ paging'.failed = paging.failed
      /\ paging' \in [at : {"off", "paging", "done"}, start : -1 .. MaxEntries - 1,
                      newest : -1 .. MaxEntries - 1, wrapped : BOOLEAN, failed : BOOLEAN]
  <2>1. paging' = [paging EXCEPT
          !.at = IF FullPage THEN @ ELSE "done",
          !.start = IF FullPage THEN old - 1 ELSE @,
          !.newest = IF @ = -1 THEN last ELSE @,
          !.wrapped = @ \/ (FullPage /\ old = 0)]
    BY DEF CountPage, EndsPaging, NextStart
  <2>2. paging.at = "paging" BY DEF CountPage
  <2>3. FullPage => old - 1 \in -1 .. MaxEntries - 1 BY <1>1, <1>2
  <2>4. last \in -1 .. MaxEntries - 1 BY <1>1, <1>2
  <2>5. FullPage \in BOOLEAN BY DEF FullPage
  <2> HIDE DEF old, last
  <2> QED BY <1>2, <2>1, <2>2, <2>3, <2>4, <2>5
<1>6. HiveTypeOK' BY <1>2, <1>4, <1>5 DEF HiveTypeOK
<1>7. StartInHistory' /\ top < entries'
  BY <1>1, <1>2, <1>5 DEF HiveInv, StartInHistory
<1>8. CASE paging.wrapped
  <2>1. paging.newest >= 0 /\ top = paging.newest BY <1>2, <1>8 DEF HiveInv
  <2>2. \A e \in 0 .. paging.newest : e \in Entries /\ counted[e] > 0
    BY <1>2, <1>8 DEF HiveInv, Entries
  <2>3. \A e \in 0 .. paging.newest : counted'[e] > 0 BY <1>2, <1>3, <2>2
  <2> QED BY <1>5, <1>6, <1>7, <1>8, <2>1, <2>3 DEF HiveInv
<1>9. CASE ~paging.wrapped
  <2>1. \/ /\ paging.newest = -1 /\ paging.start = Newest
           /\ counted = [e \in Entries |-> 0]
        \/ /\ 0 <= paging.start /\ paging.start < paging.newest
           /\ counted = Between(paging.start + 1, paging.newest)
    BY <1>9 DEF HiveInv, CountPage
  <2>2. counted' = Between(old, top) /\ old <= top + 1 /\ top >= last
    <3>1. CASE paging.newest = -1 /\ paging.start = Newest
               /\ counted = [e \in Entries |-> 0]
      BY <1>1, <1>2, <1>3, <3>1 DEF Between, Entries
    <3>2. CASE 0 <= paging.start /\ paging.start < paging.newest
               /\ counted = Between(paging.start + 1, paging.newest)
      <4>1. last = paging.start /\ top = paging.newest BY <1>2, <3>2 DEF LastEntry, Newest
      <4>2. \A e \in Entries : counted[e] = IF last + 1 <= e /\ e <= top THEN 1 ELSE 0
        BY <3>2, <4>1 DEF Between
      <4> QED BY <1>1, <1>2, <1>3, <3>2, <4>1, <4>2 DEF Between, Entries
    <3> QED BY <2>1, <3>1, <3>2
  <2>3. CASE FullPage /\ old = 0
    <3>1. \A e \in 0 .. top : e \in Entries BY <1>1, <1>2, <1>7 DEF Entries
    <3>2. \A e \in 0 .. top : counted'[e] = 1 BY <2>2, <2>3, <3>1 DEF Between
    <3> QED BY <1>1, <1>2, <1>5, <1>6, <1>7, <2>2, <2>3, <3>2 DEF HiveInv
  <2>4. CASE FullPage /\ old # 0
    <3>1. /\ paging'.at = "paging"
          /\ 0 <= paging'.start /\ paging'.start < paging'.newest
          /\ paging'.start + 1 = old
      BY <1>1, <1>2, <1>5, <2>2, <2>4
    <3> QED BY <1>5, <1>6, <1>7, <1>9, <2>2, <2>4, <3>1 DEF HiveInv
  <2>5. CASE ~FullPage /\ top = -1
    <3>1. counted' = [e \in Entries |-> 0] BY <2>2, <2>5 DEF Between, Entries
    <3>2. paging.start = Newest BY <1>2, <2>1, <2>5
    <3> QED BY <1>5, <1>6, <1>7, <1>9, <2>5, <3>1, <3>2 DEF HiveInv
  <2>6. CASE ~FullPage /\ top # -1
    <3>1. 0 \in 0 .. paging'.newest /\ old = 0 BY <1>1, <1>2, <1>5, <2>6
    <3> QED BY <1>5, <1>6, <1>7, <1>9, <2>2, <2>6, <3>1 DEF HiveInv
  <2> QED BY <2>3, <2>4, <2>5, <2>6
<1> QED BY <1>8, <1>9

\* So does every other step of the payments.
LEMMA HiveKeeps == ASSUME HiveInv, HiveNext \/ UNCHANGED hiveVars PROVE HiveInv'
<1> USE PageAssumption
<1>1. CASE BeginPaging
  BY <1>1 DEF BeginPaging, HiveInv, HiveTypeOK, StartInHistory
<1>2. CASE NewEntry
  BY <1>2 DEF NewEntry, HiveInv, HiveTypeOK, StartInHistory
<1>3. CASE CountPage BY <1>3, CountPageKeeps
<1>4. CASE PageFails
  <2>1. HiveTypeOK' /\ StartInHistory' /\ paging'.newest < entries'
    BY <1>4 DEF PageFails, HiveInv, HiveTypeOK, StartInHistory
  <2>2. paging'.wrapped = paging.wrapped /\ paging'.newest = paging.newest
        /\ paging'.start = paging.start /\ paging'.at = "done" /\ paging'.failed
        /\ counted' = counted
    BY <1>4 DEF PageFails, HiveInv, HiveTypeOK
  <2>3. CASE paging.wrapped BY <2>1, <2>2, <2>3 DEF HiveInv
  <2>4. CASE ~paging.wrapped /\ 0 <= paging.start /\ paging.start < paging.newest
             /\ counted = Between(paging.start + 1, paging.newest)
    <3>1. paging.start + 1 \in 0 .. paging'.newest BY <2>2, <2>4 DEF HiveInv, HiveTypeOK
    <3> QED BY <2>1, <2>2, <2>4, <3>1 DEF HiveInv
  <2>5. CASE ~paging.wrapped /\ paging.newest = -1 /\ paging.start = Newest
             /\ counted = [e \in Entries |-> 0]
    BY <2>1, <2>2, <2>5 DEF HiveInv
  <2> QED BY <1>4, <2>3, <2>4, <2>5 DEF HiveInv, PageFails
<1>5. CASE HiveReset
  BY <1>5 DEF HiveReset, NotPaging, Newest, HiveInv, HiveTypeOK, StartInHistory
<1>6. CASE UNCHANGED hiveVars
  BY <1>6 DEF hiveVars, HiveInv, HiveTypeOK, StartInHistory, Between
<1> QED BY <1>1, <1>2, <1>3, <1>4, <1>5, <1>6 DEF HiveNext

\* What is counted, and where the next page ends, as long as the history is
\* read: hive.go:141-191.
THEOREM HiveInvariant == Spec => []HiveInv
<1>1. Init => HiveInv
  BY PageAssumption DEF Init, HiveInit, NotPaging, Newest, HiveInv, HiveTypeOK, StartInHistory
<1>2. HiveInv /\ [Next]_vars => HiveInv' BY HiveAlone, HiveKeeps
<1> QED BY <1>1, <1>2, PTL DEF Spec

\* No payment is added up twice before a full page began at entry 0, for
\* pages of any size and histories that grow while they are read.
THEOREM PaymentsCountedOnce == Spec => []CountedOnce
<1>1. HiveInv => CountedOnce
  BY DEF HiveInv, HiveTypeOK, CountedOnce, Between
<1> QED BY <1>1, HiveInvariant, PTL

\* And no payment is passed over.
THEOREM NoPaymentSkipped == Spec => []NoneSkipped
<1> USE PageAssumption
<1>1. ASSUME HiveInv PROVE NoneSkipped
  <2>1. 0 .. paging.newest \subseteq Entries BY <1>1 DEF HiveInv, HiveTypeOK, Entries
  <2>2. CASE paging.wrapped BY <1>1, <2>2 DEF HiveInv, HiveTypeOK, NoneSkipped
  <2>3. CASE ~paging.wrapped
    BY <1>1, <2>1, <2>3 DEF HiveInv, HiveTypeOK, NoneSkipped, Between
  <2> QED BY <2>2, <2>3
<1> QED BY <1>1, HiveInvariant, PTL

-----------------------------------------------------------------------------
(* The size of a set of files.                                             *)

(* SizeOf adds up the sizes file by file, in an order that CHOOSE takes.   *)
(* What is shown of it for all sets of files is shown by a smallest        *)
(* counterexample: files are finite in number, so if some sets of files    *)
(* are bad, one of them is bad and none of its proper subsets are.         *)

Smaller(files) == (SUBSET files) \ {files}

\* Of bad sets of files, one is the smallest.
LEMMA SmallestFiles ==
  ASSUME NEW Bad \in SUBSET SUBSET Cids, Bad # {}
  PROVE  \E files \in Bad : \A smaller \in Smaller(files) : smaller \notin Bad
<1> USE CidsAssumption
<1>1. FiniteSubsetsOf(Cids) = SUBSET Cids BY FS_FiniteSubsetsOfFinite
<1>2. IsWellFoundedOn(StrictSubsetOrdering(Cids), SUBSET Cids)
  BY <1>1, FS_StrictSubsetOrderingWellFounded
<1>3. Bad \subseteq SUBSET Cids OBVIOUS
<1>4. PICK files \in Bad : \A smaller \in Bad :
                             ~ (<<smaller, files>> \in StrictSubsetOrdering(Cids))
  BY <1>2, <1>3, WFMin
<1>5. ASSUME NEW smaller \in Smaller(files), smaller \in Bad PROVE FALSE
  BY <1>4, <1>5 DEF StrictSubsetOrdering, Smaller
<1> QED BY <1>5

\* The file that is taken first, the others, and what taking them one after the
\* other adds up to.
First(files) == CHOOSE c \in files : TRUE
Rest(files) == files \ {First(files)}
IsSum(sum, files) ==
  sum = [some \in SUBSET files |->
           IF some = {} THEN 0 ELSE Size[First(some)] + sum[Rest(some)]]
Sum(files) == CHOOSE sum : IsSum(sum, files)

\* This is what SizeOf is.
LEMMA SizeIsSum == ASSUME NEW files PROVE SizeOf(files) = Sum(files)[files]
BY DEF SizeOf, MapThenSumSet, MapThenFoldSet, IsSum, Sum, First, Rest

\* A file is taken as long as there is one.
LEMMA FirstAndRest ==
  ASSUME NEW files, files # {}
  PROVE  First(files) \in files /\ Rest(files) \in Smaller(files)
BY DEF Smaller, First, Rest

\* Two ways of adding up agree on the files that both add up.
LEMMA SumIsUnique ==
  ASSUME NEW large \in SUBSET Cids, NEW small \in SUBSET large,
         NEW f, IsSum(f, large), NEW g, IsSum(g, small)
  PROVE  \A some \in SUBSET small : f[some] = g[some]
<1> DEFINE Bad == {some \in SUBSET small : f[some] # g[some]}
<1> SUFFICES ASSUME Bad # {} PROVE FALSE OBVIOUS
<1>1. PICK some \in Bad : \A smaller \in Smaller(some) : smaller \notin Bad
  BY SmallestFiles
<1>2. /\ f[some] = IF some = {} THEN 0 ELSE Size[First(some)] + f[Rest(some)]
      /\ g[some] = IF some = {} THEN 0 ELSE Size[First(some)] + g[Rest(some)]
  BY DEF IsSum
<1>3. some # {} BY <1>2
<1>4. Rest(some) \in SUBSET small /\ Rest(some) \notin Bad BY <1>1, <1>3, FirstAndRest DEF Smaller
<1> QED BY <1>2, <1>3, <1>4

\* Every set of files can be added up.
LEMMA SumExists == \A files \in SUBSET Cids : IsSum(Sum(files), files)
<1> DEFINE Bad == {files \in SUBSET Cids : ~ \E sum : IsSum(sum, files)}
<1> SUFFICES Bad = {} BY DEF Sum
<1> SUFFICES ASSUME Bad # {} PROVE FALSE OBVIOUS
<1>1. PICK files \in Bad : \A smaller \in Smaller(files) : smaller \notin Bad
  BY SmallestFiles
<1>2. \A smaller \in Smaller(files) : IsSum(Sum(smaller), smaller)
  BY <1>1 DEF Smaller, Sum
<1> HIDE DEF Bad
<1> DEFINE sum == [some \in SUBSET files |->
             IF some = {} THEN 0
             ELSE Size[First(some)] + Sum(Rest(some))[Rest(some)]]
<1>3. ASSUME NEW some \in Smaller(files)
      PROVE  sum[some] = Sum(some)[some]
  <2>1. IsSum(Sum(some), some) BY <1>2, <1>3
  <2>2. CASE some = {} BY <2>1, <2>2 DEF IsSum
  <2>3. CASE some # {}
    <3>1. Rest(some) \in SUBSET some /\ Rest(some) \in Smaller(files)
      BY <2>3, FirstAndRest DEF Smaller
    <3>2. IsSum(Sum(Rest(some)), Rest(some)) BY <1>2, <3>1
    <3>3. some \in SUBSET Cids BY DEF Bad, Smaller
    <3>4. Sum(some)[Rest(some)] = Sum(Rest(some))[Rest(some)]
      BY <2>1, <3>1, <3>2, <3>3, SumIsUnique
    <3>5. Sum(some)[some] = Size[First(some)] + Sum(some)[Rest(some)]
      BY <2>1, <2>3 DEF IsSum
    <3> QED BY <2>3, <3>4, <3>5 DEF Smaller
  <2> QED BY <2>2, <2>3
<1>4. ASSUME NEW some \in SUBSET files, some # {}
      PROVE  Sum(Rest(some))[Rest(some)] = sum[Rest(some)]
  <2>1. Rest(some) \in Smaller(files) BY <1>4, FirstAndRest DEF Smaller
  <2> QED BY <1>3, <2>1
<1>5. IsSum(sum, files) BY <1>4 DEF IsSum
<1> QED BY <1>1, <1>5 DEF Bad

\* The equation SizeOf is meant to have.
LEMMA SizeOfFirst ==
  /\ SizeOf({}) = 0
  /\ \A files \in SUBSET Cids :
       files # {} => SizeOf(files) = Size[First(files)] + SizeOf(Rest(files))
<1>1. SizeOf({}) = 0 BY SumExists, SizeIsSum DEF IsSum
<1>2. ASSUME NEW files \in SUBSET Cids, files # {}
      PROVE  SizeOf(files) = Size[First(files)] + SizeOf(Rest(files))
  <2>1. Rest(files) \in SUBSET files /\ Rest(files) \in SUBSET Cids BY <1>2, FirstAndRest DEF Smaller
  <2>2. IsSum(Sum(files), files) /\ IsSum(Sum(Rest(files)), Rest(files)) BY <2>1, SumExists
  <2>3. Sum(files)[files] = Size[First(files)] + Sum(files)[Rest(files)]
    BY <1>2, <2>2 DEF IsSum
  <2>4. Sum(files)[Rest(files)] = Sum(Rest(files))[Rest(files)]
    BY <2>1, <2>2, SumIsUnique
  <2> QED BY <2>3, <2>4, SizeIsSum
<1> QED BY <1>1, <1>2

\* Sizes are natural numbers.
LEMMA SizeOfIsNat == \A files \in SUBSET Cids : SizeOf(files) \in Nat
<1> DEFINE Bad == {files \in SUBSET Cids : SizeOf(files) \notin Nat}
<1> SUFFICES ASSUME Bad # {} PROVE FALSE OBVIOUS
<1>1. PICK files \in Bad : \A smaller \in Smaller(files) : smaller \notin Bad
  BY SmallestFiles
<1>2. files # {} BY SizeOfFirst
<1>3. First(files) \in Cids /\ Rest(files) \in SUBSET Cids /\ Rest(files) \notin Bad
  BY <1>1, <1>2, FirstAndRest DEF Smaller
<1>4. Size[First(files)] \in Nat /\ SizeOf(Rest(files)) \in Nat BY <1>3, VideoAssumption
<1> QED BY <1>2, <1>4, SizeOfFirst

\* It does not matter which file is taken first.
LEMMA SizeOfAny ==
  \A files \in SUBSET Cids : \A c \in files : SizeOf(files) = Size[c] + SizeOf(files \ {c})
<1> DEFINE Bad == {files \in SUBSET Cids :
                     \E c \in files : SizeOf(files) # Size[c] + SizeOf(files \ {c})}
<1> SUFFICES ASSUME Bad # {} PROVE FALSE OBVIOUS
<1>1. PICK files \in Bad : \A smaller \in Smaller(files) : smaller \notin Bad
  BY SmallestFiles
<1>2. PICK c \in files : SizeOf(files) # Size[c] + SizeOf(files \ {c}) OBVIOUS
<1> DEFINE f == First(files)
<1>3. f \in files /\ Rest(files) = files \ {f} BY FirstAndRest DEF Rest
<1>4. SizeOf(files) = Size[f] + SizeOf(files \ {f}) BY <1>3, SizeOfFirst
<1>5. c # f BY <1>2, <1>4
<1>6. SizeOf(files \ {f}) = Size[c] + SizeOf((files \ {f}) \ {c})
  <2>1. files \ {f} \in Smaller(files) BY <1>3 DEF Smaller
  <2> QED BY <1>1, <1>5, <2>1
<1>7. SizeOf(files \ {c}) = Size[f] + SizeOf((files \ {c}) \ {f})
  <2>1. files \ {c} \in Smaller(files) BY DEF Smaller
  <2> QED BY <1>1, <1>3, <1>5, <2>1
<1>8. SizeOf((files \ {f}) \ {c}) = SizeOf((files \ {c}) \ {f})
  <2>1. (files \ {f}) \ {c} = (files \ {c}) \ {f} OBVIOUS
  <2> QED BY <2>1
<1>9. SizeOf((files \ {c}) \ {f}) \in Nat BY SizeOfIsNat
<1>10. Size[c] \in Nat /\ Size[f] \in Nat BY <1>3, VideoAssumption
<1> HIDE DEF Bad, f
<1> QED BY <1>2, <1>4, <1>6, <1>7, <1>8, <1>9, <1>10

\* Fewer files are no larger.
LEMMA SizeOfGrows ==
  \A files \in SUBSET Cids : \A some \in SUBSET files : SizeOf(some) <= SizeOf(files)
<1> DEFINE Bad == {files \in SUBSET Cids :
                     \E some \in SUBSET files : ~ (SizeOf(some) <= SizeOf(files))}
<1> SUFFICES ASSUME Bad # {} PROVE FALSE OBVIOUS
<1>1. PICK files \in Bad : \A smaller \in Smaller(files) : smaller \notin Bad
  BY SmallestFiles
<1>2. PICK some \in SUBSET files : ~ (SizeOf(some) <= SizeOf(files)) OBVIOUS
<1>3. SizeOf(files) \in Nat /\ SizeOf(some) \in Nat BY SizeOfIsNat
<1>4. PICK c \in files : c \notin some BY <1>2, <1>3
<1>5. SizeOf(files) = Size[c] + SizeOf(files \ {c}) BY SizeOfAny
<1>6. SizeOf(some) <= SizeOf(files \ {c})
  <2>1. files \ {c} \in Smaller(files) /\ some \in SUBSET (files \ {c}) BY <1>4 DEF Smaller
  <2> QED BY <1>1, <2>1
<1>7. SizeOf(files \ {c}) \in Nat /\ Size[c] \in Nat BY SizeOfIsNat, VideoAssumption
<1> HIDE DEF Bad
<1> QED BY <1>2, <1>3, <1>5, <1>6, <1>7

\* With one more file there is no more than its size to add.
LEMMA SizeOfOneMore ==
  ASSUME NEW files \in SUBSET Cids, NEW c \in Cids, NEW more \in SUBSET (files \cup {c})
  PROVE  SizeOf(more) <= SizeOf(files) + Size[c]
<1>1. SizeOf(more) \in Nat /\ SizeOf(files) \in Nat /\ Size[c] \in Nat
      /\ SizeOf(more \ {c}) \in Nat
  BY SizeOfIsNat, VideoAssumption
<1>2. SizeOf(more \ {c}) <= SizeOf(files) BY SizeOfGrows
<1>3. CASE c \in more
  <2>1. SizeOf(more) = Size[c] + SizeOf(more \ {c}) BY <1>3, SizeOfAny
  <2> QED BY <1>1, <1>2, <2>1
<1>4. CASE c \notin more
  <2>1. more \ {c} = more BY <1>4
  <2>2. SizeOf(more \ {c}) = SizeOf(more) BY <2>1
  <2> QED BY <1>1, <1>2, <2>2
<1> QED BY <1>3, <1>4
-----------------------------------------------------------------------------
(* The videos.                                                             *)

PinnerType ==
  [at : {"off", "started", "wanting", "dropping", "pinning", "done"},
   wanted : SUBSET Cids, seen : SUBSET Cids, todo : SUBSET Cids, total : Nat,
   sought : SUBSET Cids, grown : BOOLEAN, missed : SUBSET Cids,
   failed : SUBSET Cids, dropped : SUBSET Cids]

\* Before main hands the list over, PinVideos does not run, and its locals are
\* untouched until it has read the list.
NotYetPinning ==
  /\ main = "paying" => lister = NoVideos
  /\ main \in {"paying", "listing"} => pinner.at = "off"
  /\ pinner.at \in {"off", "started"} => pinner = [NotPinning EXCEPT !.at = pinner.at]
  /\ main # "serving" => updates = 0

\* Until Update runs, what PinVideos goes by is the whole list.
ListIsWhole ==
  updates = 0 =>
    /\ pinner.at # "off" => lister.at = "whole"
    /\ pinner.at \in {"wanting", "dropping", "pinning", "done"} =>
         /\ pinner.wanted = lister.list /\ pinner.sought = lister.list
         /\ pinner.dropped \cap pinner.wanted = {}

\* What PinVideos has not pinned of the part of the list it has looked at.
PassedOver ==
  /\ pinner.seen \subseteq AllPins \cup Trees(pinner.dropped)
  /\ pinner.at = "pinning" =>
       \A c \in pinner.wanted \ (AllPins \cup pinner.failed \cup Trees(pinner.dropped)) :
         c \in pinner.todo \/ ~Fits(c)
  /\ LeftOutDidNotFit

VideoInv ==
  /\ lister \in [at : {"off", "building", "whole"}, list : SUBSET Cids]
  /\ pinner \in PinnerType
  /\ pins \subseteq Cids
  /\ launch \in Launches /\ updates \in Nat
  /\ NotYetPinning /\ ListIsWhole /\ PassedOver

\* A step of the goroutine PinVideos.
LEMMA PinStepKeeps ==
  ASSUME VideoInv, PinStep, UNCHANGED <<main, updates, launch>> PROVE VideoInv'
<1> USE VideoAssumption, PinsAssumption DEF VideoInv
<1>0. /\ pins' = pins => AllPins' = AllPins
      /\ AllPins \in SUBSET Cids
  BY DEF AllPins, Trees
<1>1. lister' = lister /\ ListsSeen \subseteq SUBSET Cids
  BY DEF PinStep, ReadWanted, ReadPins, CountPin, DropPin, ReadList, PinNext, FailNext,
         PassNext, EndPinning, ListsSeen
<1>2. main \notin {"paying", "listing"} /\ pinner.at # "off"
  BY DEF PinStep, ReadWanted, ReadPins, CountPin, DropPin, ReadList, PinNext, FailNext,
         PassNext, EndPinning, More, NotYetPinning
<1>3. CASE ReadWanted
  <2>1. PICK list \in ListsSeen :
          pinner' = [pinner EXCEPT !.at = "wanting", !.wanted = list, !.sought = lister.list]
    BY <1>3 DEF ReadWanted
  <2>2. pinner' \in PinnerType /\ pins' = pins BY <1>1, <1>3, <2>1 DEF ReadWanted, PinnerType
  <2>3. NotYetPinning' BY <1>1, <1>2, <2>1 DEF NotYetPinning, PinnerType
  <2>4. ListIsWhole'
    BY <1>1, <1>3, <2>1 DEF ReadWanted, ListIsWhole, ListsSeen, NotYetPinning, NotPinning, PinnerType
  <2>5. PassedOver' BY <1>0, <2>1, <2>2 DEF PassedOver, LeftOutDidNotFit, PinnerType
  <2> QED BY <1>1, <2>2, <2>3, <2>4, <2>5
<1>4. CASE ReadPins
  <2>1. \/ pinner' = [pinner EXCEPT !.at = "dropping", !.seen = AllPins, !.todo = pins]
        \/ pinner' = [pinner EXCEPT !.at = "dropping", !.missed = pins]
    BY <1>4 DEF ReadPins
  <2>2. pinner' \in PinnerType /\ pins' = pins BY <1>0, <1>4, <2>1 DEF ReadPins, PinnerType
  <2>3. NotYetPinning' BY <1>1, <1>2, <2>1 DEF NotYetPinning, PinnerType
  <2>4. ListIsWhole' BY <1>1, <1>4, <2>1 DEF ReadPins, ListIsWhole, PinnerType
  <2>5. PassedOver' BY <1>0, <2>1, <2>2 DEF PassedOver, LeftOutDidNotFit, PinnerType
  <2> QED BY <1>1, <2>2, <2>3, <2>4, <2>5
<1>5. CASE CountPin
  <2>1. PICK c \in Cids :
          pinner' \in { [pinner EXCEPT !.todo = @ \ {c}, !.total = @ + Size[c]],
                        [pinner EXCEPT !.todo = @ \ {c}, !.missed = @ \cup {c}] }
    BY <1>5 DEF CountPin, Passed, PinnerType
  <2>2. pinner' \in PinnerType /\ pins' = pins
    <3>1. /\ pinner.todo \ {c} \in SUBSET Cids /\ pinner.missed \cup {c} \in SUBSET Cids
          /\ pinner.total + Size[c] \in Nat
      BY DEF PinnerType
    <3> QED BY <1>5, <2>1, <3>1 DEF CountPin, PinnerType
  <2>3. NotYetPinning' BY <1>1, <1>2, <1>5, <2>1 DEF CountPin, NotYetPinning, PinnerType
  <2>4. ListIsWhole' BY <1>1, <1>5, <2>1 DEF CountPin, ListIsWhole, PinnerType
  <2>5. PassedOver' BY <1>0, <1>5, <2>1, <2>2 DEF CountPin, PassedOver, LeftOutDidNotFit, PinnerType
  <2> QED BY <1>1, <2>2, <2>3, <2>4, <2>5
<1>6. CASE DropPin
  <2>1. PICK c \in pinner.todo \ pinner.wanted :
          \/ /\ pins' = pins \ {c}
             /\ pinner' = [pinner EXCEPT !.todo = @ \ {c}, !.dropped = @ \cup {c}]
          \/ /\ pinner' = [pinner EXCEPT !.todo = @ \ {c}, !.missed = @ \cup {c}]
             /\ pins' = pins
    BY <1>6 DEF DropPin, Passed, PinnerType
  <2>2. c \in Cids BY DEF PinnerType
  <2>3. /\ pinner' \in PinnerType
        /\ pinner'.at = pinner.at /\ pinner'.wanted = pinner.wanted
        /\ pinner'.sought = pinner.sought /\ pinner'.seen = pinner.seen
        /\ \/ /\ pins' = pins \ {c}
              /\ pinner'.dropped = pinner.dropped \cup {c}
           \/ /\ pins' = pins
              /\ pinner'.dropped = pinner.dropped
    <3>1. CASE /\ pins' = pins \ {c}
               /\ pinner' = [pinner EXCEPT !.todo = @ \ {c}, !.dropped = @ \cup {c}]
      BY <2>2, <3>1 DEF PinnerType
    <3>2. CASE /\ pinner' = [pinner EXCEPT !.todo = @ \ {c}, !.missed = @ \cup {c}]
               /\ pins' = pins
      BY <2>2, <3>2 DEF PinnerType
    <3> QED BY <2>1, <3>1, <3>2
  <2>4. pinner.at = "dropping" BY <1>6 DEF DropPin
  <2>5. NotYetPinning' BY <1>1, <1>2, <2>3, <2>4 DEF NotYetPinning
  <2>6. ListIsWhole' BY <1>1, <2>3, <2>4 DEF ListIsWhole
  <2>7. ASSUME pins' = pins, pinner'.dropped = pinner.dropped PROVE PassedOver'
    BY <1>0, <2>3, <2>4, <2>7 DEF PassedOver, LeftOutDidNotFit
  <2>8. ASSUME pins' = pins \ {c}, pinner'.dropped = pinner.dropped \cup {c}
        PROVE  PassedOver'
    <3>1. /\ Trees(pinner.dropped) \subseteq Trees(pinner'.dropped)
          /\ AllPins \subseteq AllPins' \cup Trees(pinner'.dropped)
      BY <2>8 DEF AllPins, Trees
    <3> QED BY <2>3, <2>4, <3>1 DEF PassedOver, LeftOutDidNotFit
  <2> QED BY <1>1, <2>3, <2>5, <2>6, <2>7, <2>8
<1>7. CASE ReadList
  <2>1. PICK list \in ListsSeen :
          pinner' = [pinner EXCEPT !.at = "pinning", !.todo = list, !.wanted = list]
    BY <1>7 DEF ReadList
  <2>2. pinner' \in PinnerType /\ pins' = pins BY <1>1, <1>7, <2>1 DEF ReadList, PinnerType
  <2>3. NotYetPinning' BY <1>1, <1>2, <2>1 DEF NotYetPinning, PinnerType
  <2>4. ListIsWhole' BY <1>1, <1>7, <2>1 DEF ReadList, ListIsWhole, ListsSeen, PinnerType
  <2>5. PassedOver' BY <1>0, <2>1, <2>2 DEF PassedOver, LeftOutDidNotFit, PinnerType
  <2> QED BY <1>1, <2>2, <2>3, <2>4, <2>5
<1>8. CASE PinNext
  <2>1. PICK c \in pinner.todo \ pinner.seen :
          /\ pins' = pins \cup {c}
          /\ pinner' = [pinner EXCEPT !.todo = @ \ {c}, !.total = @ + Size[c],
                                      !.seen = @ \cup {c}, !.missed = @ \ {c}, !.grown = TRUE]
    BY <1>8 DEF PinNext, Passed, PinnerType
  <2>2. c \in Cids /\ Size[c] \in Nat BY DEF PinnerType
  <2>3. pinner' \in PinnerType /\ pins' \subseteq Cids
    <3>1. /\ pinner.todo \ {c} \in SUBSET Cids /\ pinner.missed \ {c} \in SUBSET Cids
          /\ pinner.seen \cup {c} \in SUBSET Cids /\ pinner.total + Size[c] \in Nat
      BY <2>2 DEF PinnerType
    <3> QED BY <2>1, <2>2, <3>1 DEF PinnerType
  <2>4. NotYetPinning' BY <1>1, <1>2, <1>8, <2>1 DEF PinNext, More, NotYetPinning, PinnerType
  <2>5. ListIsWhole' BY <1>1, <1>8, <2>1 DEF PinNext, More, ListIsWhole, PinnerType
  <2>6. /\ pinner'.at = "pinning" /\ pinner'.wanted = pinner.wanted
        /\ pinner'.seen = pinner.seen \cup {c} /\ pinner'.todo = pinner.todo \ {c}
        /\ pinner'.failed = pinner.failed /\ pinner'.dropped = pinner.dropped
        /\ pinner'.total = pinner.total + Size[c]
    BY <1>8, <2>1 DEF PinNext, More, PinnerType
  <2>7. \A d \in Cids : ~Fits(d) => ~Fits(d)' BY <2>2, <2>6 DEF Fits, PinnerType
  <2>8. pinner.wanted \subseteq Cids BY DEF PinnerType
  <2>10. AllPins \subseteq AllPins' /\ c \in AllPins' BY <2>1 DEF AllPins, Trees
  <2>9. PassedOver'
    BY <1>0, <1>8, <2>1, <2>6, <2>7, <2>8, <2>10 DEF PinNext, More, PassedOver, LeftOutDidNotFit
  <2> QED BY <1>1, <2>3, <2>4, <2>5, <2>9
<1>9. CASE FailNext
  <2>1. PICK c \in pinner.todo :
          pinner' = [pinner EXCEPT !.todo = @ \ {c}, !.failed = @ \cup {c}]
    BY <1>9 DEF FailNext, Passed, PinnerType
  <2>2. pinner' \in PinnerType /\ pins' = pins BY <1>9, <2>1 DEF FailNext, PinnerType
  <2>3. NotYetPinning' BY <1>1, <1>2, <1>9, <2>1 DEF FailNext, More, NotYetPinning, PinnerType
  <2>4. ListIsWhole' BY <1>1, <1>9, <2>1 DEF FailNext, More, ListIsWhole, PinnerType
  <2>5. PassedOver'
    BY <1>0, <1>9, <2>1, <2>2 DEF FailNext, More, PassedOver, LeftOutDidNotFit, Fits, PinnerType
  <2> QED BY <1>1, <2>2, <2>3, <2>4, <2>5
<1>10. CASE PassNext
  <2>1. PICK c \in pinner.todo : /\ c \in pinner.seen \/ ~Fits(c)
                                 /\ pinner' = [pinner EXCEPT !.todo = @ \ {c}]
    BY <1>10 DEF PassNext, Passed
  <2>2. pinner' \in PinnerType /\ pins' = pins BY <1>10, <2>1 DEF PassNext, PinnerType
  <2>3. NotYetPinning' BY <1>1, <1>2, <1>10, <2>1 DEF PassNext, More, NotYetPinning, PinnerType
  <2>4. ListIsWhole' BY <1>1, <1>10, <2>1 DEF PassNext, More, ListIsWhole, PinnerType
  <2>5. PassedOver'
    BY <1>0, <1>10, <2>1, <2>2 DEF PassNext, More, PassedOver, LeftOutDidNotFit, Fits, PinnerType
  <2> QED BY <1>1, <2>2, <2>3, <2>4, <2>5
<1>11. CASE EndPinning
  <2>1. pinner' = [pinner EXCEPT !.at = "done", !.todo = {}] /\ pins' = pins
    BY <1>11 DEF EndPinning
  <2>2. pinner' \in PinnerType BY <2>1 DEF PinnerType
  <2>3. NotYetPinning' BY <1>1, <1>2, <2>1 DEF NotYetPinning, PinnerType
  <2>4. ListIsWhole' BY <1>1, <1>11, <2>1 DEF EndPinning, ListIsWhole, PinnerType
  <2>5. pinner.todo = {} \/ pinner.total >= StorageLimit
    BY <1>11 DEF EndPinning, More, PinnerType
  <2>6. PassedOver'
    BY <1>0, <1>11, <2>1, <2>5 DEF EndPinning, PassedOver, LeftOutDidNotFit, Fits, PinnerType
  <2> QED BY <1>1, <2>1, <2>2, <2>3, <2>4, <2>6
<1> QED BY <1>3, <1>4, <1>5, <1>6, <1>7, <1>8, <1>9, <1>10, <1>11 DEF PinStep

LEMMA OfferedInCids == ASSUME launch \in Launches PROVE launch.offered \subseteq Cids
BY LaunchAssumption DEF LaunchType

\* A step that leaves the videos alone.
LEMMA VideoStands ==
  ASSUME VideoInv, UNCHANGED <<videoVars, launch>>,
         \/ UNCHANGED <<main, updates>>
         \/ updates' = updates /\ main # "serving" /\ main' \notin {"paying", "listing"}
         \/ updates' = updates /\ main = "paying" /\ main' = "listing"
  PROVE  VideoInv'
<1>1. NotYetPinning' BY DEF VideoInv, NotYetPinning, videoVars
<1>2. ListIsWhole' BY DEF VideoInv, ListIsWhole, videoVars
<1>3. PassedOver' BY DEF VideoInv, PassedOver, LeftOutDidNotFit, Fits, AllPins, videoVars
<1> QED BY <1>1, <1>2, <1>3 DEF VideoInv, videoVars

\* A step that begins or ends the building of the list.
LEMMA ListerKeeps ==
  ASSUME VideoInv, UNCHANGED <<launch, pinner, pins, main>>,
         lister' \in [at : {"off", "building", "whole"}, list : SUBSET Cids],
         main # "paying",
         \/ updates' = updates /\ pinner.at = "off"
         \/ updates' = updates /\ lister.at = "building"
         \/ updates' = updates + 1 /\ main = "serving"
  PROVE  VideoInv'
<1>1. NotYetPinning' BY DEF VideoInv, NotYetPinning
<1>2. ListIsWhole' BY DEF VideoInv, ListIsWhole, NotYetPinning
<1>3. PassedOver' BY DEF VideoInv, PassedOver, LeftOutDidNotFit, Fits, AllPins
<1>4. updates' \in Nat BY DEF VideoInv
<1> QED BY <1>1, <1>2, <1>3, <1>4 DEF VideoInv

\* What main does keeps what is known of the videos.
LEMMA MainKeepsVideos == ASSUME VideoInv, Main PROVE VideoInv'
<1>1. CASE Pay BY <1>1, VideoStands DEF Pay, nodeVars
<1>2. CASE EndPaying BY <1>2, VideoStands DEF EndPaying, nodeVars
<1>3. CASE List
  <2>1. pinner.at = "off" /\ main = "listing" BY <1>3 DEF List, VideoInv, NotYetPinning
  <2>2. lister' \in [at : {"off", "building", "whole"}, list : SUBSET Cids]
    BY <1>3, OfferedInCids DEF List, FetchVideos, VideoInv
  <2>3. UNCHANGED <<launch, pinner, pins, main, updates>>
    BY <1>3 DEF List, FetchVideos, nodeVars
  <2> QED BY <2>1, <2>2, <2>3, ListerKeeps
<1>4. CASE EndListing
  <2>1. main = "listing" /\ main' = "contracts" /\ UNCHANGED <<launch, lister, pins, updates>>
    BY <1>4 DEF EndListing, nodeVars
  <2>2. CASE pinner' = pinner BY <2>1, <2>2, VideoStands DEF videoVars
  <2>3. CASE Listed /\ pinner' = [pinner EXCEPT !.at = "started"]
    <3>1. pinner = NotPinning BY <2>1 DEF VideoInv, NotYetPinning, NotPinning, PinnerType
    <3>2. pinner' = [NotPinning EXCEPT !.at = "started"] BY <2>3, <3>1
    <3>3. pinner' \in PinnerType BY <3>2 DEF NotPinning, PinnerType
    <3>4. NotYetPinning' BY <2>1, <3>2 DEF VideoInv, NotYetPinning, NotPinning
    <3>5. ListIsWhole' BY <2>1, <2>3, <3>2 DEF Listed, ListIsWhole, NotPinning
    <3>6. PassedOver' BY <2>1, <3>2 DEF PassedOver, LeftOutDidNotFit, NotPinning
    <3> QED BY <2>1, <3>3, <3>4, <3>5, <3>6 DEF VideoInv
  <2> QED BY <1>4, <2>2, <2>3 DEF EndListing
<1>5. CASE ListContracts BY <1>5, VideoStands DEF ListContracts, nodeVars
<1>6. CASE Serve
  <2>1. main = "services" /\ main' = "serving" /\ UNCHANGED <<videoVars, launch, updates>>
    BY <1>6 DEF Serve, nodeVars
  <2> QED BY <2>1, VideoStands
<1> QED BY <1>1, <1>2, <1>3, <1>4, <1>5, <1>6 DEF Main

\* So does every other step.
LEMMA VideoKeeps == ASSUME VideoInv, [Next]_vars PROVE VideoInv'
<1>1. CASE Main BY <1>1, MainKeepsVideos
<1>2. CASE Update
  <2>1. lister' \in [at : {"off", "building", "whole"}, list : SUBSET Cids]
    BY <1>2, OfferedInCids DEF Update, FetchVideos, VideoInv
  <2>2. /\ UNCHANGED <<launch, pinner, pins, main>>
        /\ updates' = updates + 1 /\ main = "serving"
    BY <1>2 DEF Update, FetchVideos, nodeVars
  <2> QED BY <2>1, <2>2, ListerKeeps
<1>3. CASE Restart
  <2>1. /\ lister' = NoVideos /\ pinner' = NotPinning /\ pins' = pins /\ launch' = launch
        /\ main' = "paying" /\ updates' = 0
    BY <1>3 DEF Restart, VideoReset
  <2>2. pinner' \in PinnerType BY <2>1 DEF NotPinning, PinnerType
  <2>3. NotYetPinning' BY <2>1 DEF NotYetPinning, NotPinning
  <2>4. ListIsWhole' BY <2>1 DEF ListIsWhole, NotPinning
  <2>5. PassedOver' BY <2>1 DEF PassedOver, LeftOutDidNotFit, NotPinning
  <2> QED BY <2>1, <2>2, <2>3, <2>4, <2>5 DEF VideoInv, NoVideos
<1>4. CASE Page \/ Payment \/ Fetcher \/ Client
  BY <1>4, VideoStands DEF Page, Payment, Fetcher, Client, nodeVars
<1>5. CASE Lister
  <2>1. lister.at = "building" /\ main # "paying"
    BY <1>5 DEF Lister, EndList, VideoInv, NotYetPinning, NoVideos
  <2>2. lister' \in [at : {"off", "building", "whole"}, list : SUBSET Cids]
    BY <1>5 DEF Lister, EndList, VideoInv
  <2>3. UNCHANGED <<launch, pinner, pins, main, updates>>
    BY <1>5 DEF Lister, EndList, nodeVars
  <2> QED BY <2>1, <2>2, <2>3, ListerKeeps
<1>6. CASE Pinner BY <1>6, PinStepKeeps DEF Pinner, nodeVars
<1>7. ASSUME NEW s \in Callers, NEW c \in Cids, Indexer(s, c) PROVE VideoInv'
  BY <1>7, VideoStands DEF Indexer, nodeVars
<1>8. ASSUME NEW v \in Validators, Link(v) PROVE VideoInv'
  BY <1>8, VideoStands DEF Link, nodeVars
<1>9. CASE UNCHANGED vars BY <1>9, VideoStands DEF vars, videoVars
<1> QED BY <1>1, <1>2, <1>3, <1>4, <1>5, <1>6, <1>7, <1>8, <1>9 DEF Next

\* What is known of the list and of PinVideos between their steps:
\* threespeak.go:13-136, main.go:94-103.
THEOREM VideoInvariant == Spec => []VideoInv
<1>1. ASSUME Init PROVE VideoInv
  <2>1. /\ launch \in Launches /\ pins \subseteq Cids
        /\ lister = NoVideos /\ pinner = NotPinning /\ main = "paying" /\ updates = 0
    BY <1>1, LaunchAssumption DEF Init, VideoInit, LaunchType
  <2>2. pinner \in PinnerType BY <2>1 DEF NotPinning, PinnerType
  <2>3. NotYetPinning /\ ListIsWhole /\ PassedOver
    BY <2>1 DEF NotYetPinning, ListIsWhole, PassedOver, LeftOutDidNotFit, NotPinning
  <2> QED BY <2>1, <2>2, <2>3 DEF VideoInv, NoVideos
<1>2. VideoInv /\ [Next]_vars => VideoInv' BY VideoKeeps
<1> QED BY <1>1, <1>2, PTL DEF Spec

\* Whatever was pinned before, whatever IPFS fails on and whatever Update does
\* meanwhile, a video left out did not fit, for any files, sizes and limit.
THEOREM LeftOutNeverFits == Spec => []LeftOutDidNotFit
<1>1. VideoInv => LeftOutDidNotFit BY DEF VideoInv, PassedOver
<1> QED BY <1>1, VideoInvariant, PTL

\* A video the fetch before it found is unpinned only after Update has begun.
THEOREM FoundAlwaysKept == Spec => []FoundIsKept
<1>1. ASSUME VideoInv PROVE FoundIsKept
  <2>1. CASE pinner.at \in {"off", "started"}
    BY <1>1, <2>1 DEF VideoInv, NotYetPinning, NotPinning, FoundIsKept
  <2>2. CASE pinner.at \notin {"off", "started"}
    BY <1>1, <2>2 DEF VideoInv, ListIsWhole, PinnerType, FoundIsKept
  <2> QED BY <2>1, <2>2
<1> QED BY <1>1, VideoInvariant, PTL

\* What PinVideos has added up covers every pin, but for those whose size it
\* could not have or that it could not unpin and, while it goes through the
\* pins, those it has not come to; and it pins nothing beyond the limit.
TotalCovers ==
  /\ pinner.at = "dropping" =>
       SizeOf(pins \ (pinner.missed \cup pinner.todo)) <= pinner.total
  /\ pinner.at \in {"pinning", "done"} => SizeOf(pins \ pinner.missed) <= pinner.total
  /\ pinner.grown => /\ pinner.at \in {"pinning", "done"}
                     /\ pinner.total <= StorageLimit + Slack

\* A step of the goroutine PinVideos keeps it.
LEMMA PinStepCovers == ASSUME VideoInv, TotalCovers, PinStep PROVE TotalCovers'
<1> USE VideoAssumption
<1>1. /\ pinner \in PinnerType /\ pins \in SUBSET Cids
      /\ pinner.total \in Nat /\ pinner.missed \in SUBSET Cids /\ pinner.todo \in SUBSET Cids
  BY DEF VideoInv, PinnerType
<1>2. CASE ReadWanted
  BY <1>1, <1>2 DEF ReadWanted, TotalCovers, PinnerType
<1>3. CASE ReadPins
  <2>1. \/ pinner' = [pinner EXCEPT !.at = "dropping", !.seen = AllPins, !.todo = pins]
        \/ pinner' = [pinner EXCEPT !.at = "dropping", !.missed = pins]
    BY <1>3 DEF ReadPins
  <2>2. /\ pinner'.at = "dropping" /\ pinner'.total = pinner.total /\ ~pinner'.grown
        /\ pins' \ (pinner'.missed \cup pinner'.todo) = {}
    BY <1>1, <1>3, <2>1 DEF ReadPins, TotalCovers, PinnerType
  <2>3. SizeOf(pins' \ (pinner'.missed \cup pinner'.todo)) = 0 BY <2>2, SizeOfFirst
  <2> QED BY <1>1, <2>2, <2>3 DEF TotalCovers
<1>4. CASE CountPin
  <2>1. PICK c \in pinner.todo \cap pinner.wanted :
          \/ pinner' = [pinner EXCEPT !.todo = @ \ {c}, !.total = @ + Size[c]]
          \/ pinner' = [pinner EXCEPT !.todo = @ \ {c}, !.missed = @ \cup {c}]
    BY <1>4 DEF CountPin, Passed
  <2>2. pinner.at = "dropping" /\ pins' = pins BY <1>4 DEF CountPin
  <2>3. c \in Cids /\ Size[c] \in Nat BY <1>1
  <2> DEFINE left == pins \ (pinner.missed \cup pinner.todo)
             next == pins' \ (pinner'.missed \cup pinner'.todo)
  <2>4. /\ pinner'.at = "dropping" /\ ~pinner'.grown
        /\ \/ next \subseteq left \cup {c} /\ pinner'.total = pinner.total + Size[c]
           \/ next \subseteq left /\ pinner'.total = pinner.total
    <3>1. CASE pinner' = [pinner EXCEPT !.todo = @ \ {c}, !.total = @ + Size[c]]
      BY <1>1, <2>2, <3>1 DEF TotalCovers, PinnerType
    <3>2. CASE pinner' = [pinner EXCEPT !.todo = @ \ {c}, !.missed = @ \cup {c}]
      BY <1>1, <2>2, <3>2 DEF TotalCovers, PinnerType
    <3> QED BY <2>1, <3>1, <3>2
  <2>5. left \in SUBSET Cids /\ SizeOf(left) <= pinner.total /\ SizeOf(left) \in Nat
    BY <1>1, <2>2, SizeOfIsNat DEF TotalCovers
  <2>6. SizeOf(next) <= pinner'.total
    <3> HIDE DEF left, next
    <3>1. CASE next \subseteq left \cup {c} /\ pinner'.total = pinner.total + Size[c]
      <4>1. next \in SUBSET (left \cup {c}) /\ next \in SUBSET Cids BY <2>3, <2>5, <3>1
      <4>2. SizeOf(next) <= SizeOf(left) + Size[c] BY <2>3, <2>5, <4>1, SizeOfOneMore
      <4>3. SizeOf(next) \in Nat BY <4>1, SizeOfIsNat
      <4> QED BY <1>1, <2>3, <2>5, <3>1, <4>2, <4>3
    <3>2. CASE next \subseteq left /\ pinner'.total = pinner.total
      <4>1. SizeOf(next) <= SizeOf(left) /\ SizeOf(next) \in Nat
        BY <2>5, <3>2, SizeOfGrows, SizeOfIsNat
      <4> QED BY <1>1, <2>5, <3>2, <4>1
    <3> QED BY <2>4, <3>1, <3>2
  <2> QED BY <2>4, <2>6 DEF TotalCovers
<1>5. CASE DropPin
  <2>1. PICK c \in pinner.todo \ pinner.wanted :
          \/ /\ pins' = pins \ {c}
             /\ pinner' = [pinner EXCEPT !.todo = @ \ {c}, !.dropped = @ \cup {c}]
          \/ /\ pinner' = [pinner EXCEPT !.todo = @ \ {c}, !.missed = @ \cup {c}]
             /\ pins' = pins
    BY <1>5 DEF DropPin, Passed
  <2>2. pinner.at = "dropping" BY <1>5 DEF DropPin
  <2> DEFINE left == pins \ (pinner.missed \cup pinner.todo)
             next == pins' \ (pinner'.missed \cup pinner'.todo)
  <2>3. /\ pinner'.at = "dropping" /\ ~pinner'.grown
        /\ next \subseteq left /\ pinner'.total = pinner.total
    <3>1. CASE /\ pins' = pins \ {c}
               /\ pinner' = [pinner EXCEPT !.todo = @ \ {c}, !.dropped = @ \cup {c}]
      BY <1>1, <2>2, <3>1 DEF TotalCovers, PinnerType
    <3>2. CASE /\ pinner' = [pinner EXCEPT !.todo = @ \ {c}, !.missed = @ \cup {c}]
               /\ pins' = pins
      BY <1>1, <2>2, <3>2 DEF TotalCovers, PinnerType
    <3> QED BY <2>1, <3>1, <3>2
  <2>4. left \in SUBSET Cids /\ SizeOf(left) <= pinner.total /\ SizeOf(left) \in Nat
    BY <1>1, <2>2, SizeOfIsNat DEF TotalCovers
  <2>5. SizeOf(next) <= pinner'.total
    <3> HIDE DEF left, next
    <3>1. SizeOf(next) <= SizeOf(left) /\ SizeOf(next) \in Nat
      BY <2>3, <2>4, SizeOfGrows, SizeOfIsNat
    <3> QED BY <1>1, <2>3, <2>4, <3>1
  <2> QED BY <2>3, <2>5 DEF TotalCovers
<1>6. CASE ReadList
  <2>1. PICK list \in ListsSeen :
          pinner' = [pinner EXCEPT !.at = "pinning", !.todo = list, !.wanted = list]
    BY <1>6 DEF ReadList
  <2>2. /\ pinner.at = "dropping" /\ pinner.todo = {} /\ pins' = pins
        /\ pinner'.at = "pinning" /\ ~pinner'.grown
        /\ pinner'.missed = pinner.missed /\ pinner'.total = pinner.total
    BY <1>1, <1>6, <2>1 DEF ReadList, TotalCovers, PinnerType
  <2>3. pins \ (pinner.missed \cup pinner.todo) = pins' \ pinner'.missed BY <2>2
  <2>4. SizeOf(pins \ (pinner.missed \cup pinner.todo)) = SizeOf(pins' \ pinner'.missed)
    BY <2>3
  <2> QED BY <2>2, <2>4 DEF TotalCovers
<1>7. CASE PinNext
  <2>1. PICK c \in pinner.todo \ pinner.seen :
          /\ Fits(c)
          /\ pins' = pins \cup {c}
          /\ pinner' = [pinner EXCEPT !.todo = @ \ {c}, !.total = @ + Size[c],
                                      !.seen = @ \cup {c}, !.missed = @ \ {c}, !.grown = TRUE]
    BY <1>1, <1>7 DEF PinNext, Passed, PinnerType
  <2>2. c \in Cids /\ Size[c] \in Nat BY <1>1
  <2> DEFINE left == pins \ pinner.missed
             next == pins' \ pinner'.missed
  <2>3. /\ pinner'.at = "pinning" /\ next \subseteq left \cup {c}
        /\ pinner'.total = pinner.total + Size[c]
    BY <1>1, <1>7, <2>1 DEF PinNext, More, PinnerType
  <2>4. left \in SUBSET Cids /\ SizeOf(left) <= pinner.total /\ SizeOf(left) \in Nat
    BY <1>1, <1>7, SizeOfIsNat DEF PinNext, More, TotalCovers
  <2>5. SizeOf(next) <= pinner'.total
    <3> HIDE DEF left, next
    <3>1. next \in SUBSET (left \cup {c}) /\ next \in SUBSET Cids BY <2>2, <2>3, <2>4
    <3>2. SizeOf(next) <= SizeOf(left) + Size[c] BY <2>2, <2>4, <3>1, SizeOfOneMore
    <3>3. SizeOf(next) \in Nat BY <3>1, SizeOfIsNat
    <3> QED BY <1>1, <2>2, <2>3, <2>4, <3>2, <3>3
  <2>6. pinner'.total <= StorageLimit + Slack BY <1>1, <2>1, <2>2, <2>3 DEF Fits
  <2> QED BY <2>3, <2>5, <2>6 DEF TotalCovers
<1>8. CASE FailNext \/ PassNext \/ EndPinning
  <2>1. /\ pinner.at = "pinning" /\ pinner'.at \in {"pinning", "done"} /\ pins' = pins
        /\ pinner'.missed = pinner.missed /\ pinner'.total = pinner.total
        /\ pinner'.grown = pinner.grown
    <3>1. CASE FailNext BY <1>1, <3>1 DEF FailNext, Passed, More, PinnerType
    <3>2. CASE PassNext BY <1>1, <3>2 DEF PassNext, Passed, More, PinnerType
    <3>3. CASE EndPinning BY <1>1, <3>3 DEF EndPinning, PinnerType
    <3> QED BY <1>8, <3>1, <3>2, <3>3
  <2>2. SizeOf(pins' \ pinner'.missed) = SizeOf(pins \ pinner.missed) BY <2>1
  <2> QED BY <2>1, <2>2 DEF TotalCovers
<1> QED BY <1>2, <1>3, <1>4, <1>5, <1>6, <1>7, <1>8 DEF PinStep

\* Nothing else a node does touches what PinVideos goes by, except that main
\* starts it and that the process ends.
LEMMA TotalCoversKeeps == ASSUME VideoInv, TotalCovers, [Next]_vars PROVE TotalCovers'
<1>1. ASSUME UNCHANGED <<pinner, pins>> PROVE TotalCovers' BY <1>1 DEF TotalCovers
<1>2. CASE Pinner BY <1>2, PinStepCovers DEF Pinner
<1>3. CASE Main
  <2>1. CASE EndListing
    <3>1. pinner.at = "off" BY <2>1 DEF EndListing, VideoInv, NotYetPinning
    <3>2. pinner' = pinner \/ pinner' = [pinner EXCEPT !.at = "started"]
      BY <2>1 DEF EndListing
    <3>3. pinner'.at \in {"off", "started"} /\ ~pinner'.grown
      BY <3>1, <3>2 DEF VideoInv, PinnerType, TotalCovers
    <3> QED BY <3>3 DEF TotalCovers
  <2>2. CASE Pay \/ EndPaying \/ List \/ ListContracts \/ Serve
    BY <1>1, <2>2 DEF Pay, EndPaying, List, FetchVideos, ListContracts, Serve, videoVars
  <2> QED BY <1>3, <2>1, <2>2 DEF Main
<1>4. CASE Restart
  BY <1>4 DEF Restart, VideoReset, NotPinning, TotalCovers
<1>5. CASE Update \/ Page \/ Payment \/ Lister \/ Fetcher \/ Client
  BY <1>1, <1>5 DEF Update, FetchVideos, Page, Payment, Lister, EndList, Fetcher, Client, videoVars
<1>6. ASSUME NEW s \in Callers, NEW c \in Cids, Indexer(s, c) PROVE TotalCovers'
  BY <1>1, <1>6 DEF Indexer, videoVars
<1>7. ASSUME NEW v \in Validators, Link(v) PROVE TotalCovers'
  BY <1>1, <1>7 DEF Link, videoVars
<1>8. CASE UNCHANGED vars BY <1>1, <1>8 DEF vars
<1> QED BY <1>2, <1>3, <1>4, <1>5, <1>6, <1>7, <1>8 DEF Next

\* The pins of a node that PinVideos has added to stay within the limit and
\* its slack, but for those it could not size or unpin, for any files, sizes,
\* lists and pins from before (threespeak.go:50-136).
THEOREM PinsStayWithinLimit == Spec => []PinnedWithinLimit
<1>1. Init => TotalCovers BY DEF Init, VideoInit, NotPinning, TotalCovers
<1>2. VideoInv /\ TotalCovers /\ [Next]_vars => TotalCovers' BY TotalCoversKeeps
<1>3. ASSUME VideoInv, TotalCovers PROVE PinnedWithinLimit
  <2>1. pins \ pinner.missed \in SUBSET Cids /\ pinner.total \in Nat
    BY <1>3 DEF VideoInv, PinnerType
  <2>2. SizeOf(pins \ pinner.missed) \in Nat BY <2>1, SizeOfIsNat
  <2> QED BY <1>3, <2>1, <2>2, VideoAssumption DEF TotalCovers, PinnedWithinLimit
<1> QED BY <1>1, <1>2, <1>3, VideoInvariant, PTL DEF Spec

-----------------------------------------------------------------------------
(* The block lists.                                                        *)

\* No goroutine runs before main has started it, and main starts each kind
\* once in a life of the node.
StartOrder ==
  /\ main \in {"paying", "listing"} => \A c \in Cids : indexer["videos"][c] = "off"
  /\ main \in {"paying", "listing", "contracts"} =>
       \A c \in Cids : indexer["contracts"][c] = "off"
  /\ main # "serving" => fetch.at = "off"

\* A goroutine past its check, but for one that found no record, and one of
\* FetchPins that has ended, leaves a record behind.
PassedMeansStored ==
  \A c \in Cids :
    /\ \A s \in Callers : indexer[s][c] \in {"known", "saved", "reported", "counting"} =>
         refs[c] # NoList
    /\ indexer["pins"][c] = "ended" => refs[c] # NoList

\* FetchPins runs a goroutine for every pin it goes by, and no other; what it
\* counts are goroutines that have ended.
EndedPins == {c \in Cids : indexer["pins"][c] = "ended"}

PinsCounted ==
  /\ \A c \in Cids : indexer["pins"][c] # "off" <=>
                       fetch.at \in {"waiting", "done"} /\ c \in fetch.want
  /\ fetch.at = "done" => ~Running("pins")
  /\ fetch.at # "done" => synced.done < synced.of
  /\ notFound <= Cardinality(EndedPins)
  /\ \A c \in Cids : indexer["pins"][c] = "counting" => tally[c] <= Cardinality(EndedPins)

BlockInv == /\ BlockTypeOK /\ StartOrder /\ StatusMeansStored
            /\ PassedMeansStored /\ PinsCounted

\* How many have ended.
LEMMA EndedIsFinite ==
  /\ IsFiniteSet(EndedPins) /\ Cardinality(EndedPins) \in Nat
  /\ \A files \in SUBSET Cids : IsFiniteSet(files) /\ Cardinality(files) \in Nat
BY CidsAssumption, FS_Subset, FS_CardinalityType DEF EndedPins

\* One goroutine moves on: only its own place changes.
LEMMA Moved ==
  ASSUME BlockTypeOK, NEW s \in Callers, NEW c \in Cids, NEW place \in Places,
         Move(s, c, place)
  PROVE  /\ indexer' \in [Callers -> [Cids -> Places]]
         /\ indexer'[s][c] = place
         /\ \A t \in Callers, d \in Cids :
              t # s \/ d # c => indexer'[t][d] = indexer[t][d]
BY DEF BlockTypeOK, Move

\* A goroutine of SaveRefs changes nothing of FetchPins.
LEMMA SaverLeavesPins ==
  ASSUME BlockInv, NEW s \in Savers, NEW c \in Cids, NEW place \in Places \ {"off"},
         Move(s, c, place), indexer[s][c] # "off", UNCHANGED <<fetch, notFound, tally, synced, main>>
  PROVE  StartOrder' /\ PinsCounted'
<1>1. s \in Callers BY DEF Savers, Callers
<1>2. \A t \in Callers, d \in Cids : t # s \/ d # c => indexer'[t][d] = indexer[t][d]
  BY <1>1, Moved DEF BlockInv
<1>3. \A d \in Cids : indexer'["pins"][d] = indexer["pins"][d]
  BY <1>2 DEF Savers, Callers
<1>4. StartOrder' BY <1>1, <1>2 DEF BlockInv, StartOrder, Savers, Callers
<1>5. EndedPins' = EndedPins BY <1>3 DEF EndedPins
<1> QED BY <1>3, <1>4, <1>5 DEF BlockInv, PinsCounted, Running

\* The steps of a goroutine of SaveRefs.
LEMMA SaverKeeps ==
  ASSUME BlockInv, NEW s \in Savers, NEW c \in Cids, SaverStep(s, c), main' = main
  PROVE  BlockInv'
<1>1. s \in Callers BY DEF Savers, Callers
<1>2. CASE FindRefs(s, c)
  <2> DEFINE place == IF refs[c] = NoList THEN "absent" ELSE "known"
  <2>1. place \in Places \ {"off"} BY DEF Places
  <2>2. /\ Move(s, c, place) /\ indexer[s][c] # "off"
        /\ UNCHANGED <<refs, CIDRefStatus, fetch, notFound, tally, synced>>
    BY <1>2 DEF FindRefs, MayLook
  <2>3. StartOrder' /\ PinsCounted' BY <2>1, <2>2, SaverLeavesPins
  <2>4. indexer' \in [Callers -> [Cids -> Places]] BY <1>1, <2>1, <2>2, Moved DEF BlockInv
  <2>5. BlockTypeOK' BY <2>2, <2>4 DEF BlockInv, BlockTypeOK
  <2>6. PassedMeansStored'
    BY <1>1, <2>1, <2>2, Moved DEF BlockInv, PassedMeansStored, Savers, Callers
  <2>7. StatusMeansStored' BY <2>2 DEF BlockInv, StatusMeansStored
  <2> QED BY <2>3, <2>5, <2>6, <2>7 DEF BlockInv
<1>3. CASE GiveUp(s, c)
  <2>1. /\ Move(s, c, "ended") /\ indexer[s][c] # "off"
        /\ UNCHANGED <<refs, CIDRefStatus, fetch, notFound, tally, synced>>
    BY <1>3 DEF GiveUp
  <2>2. StartOrder' /\ PinsCounted' BY <2>1, SaverLeavesPins DEF Places
  <2>3. indexer' \in [Callers -> [Cids -> Places]] BY <1>1, <2>1, Moved DEF BlockInv, Places
  <2>4. BlockTypeOK' BY <2>1, <2>3 DEF BlockInv, BlockTypeOK
  <2>5. \A t \in Callers, d \in Cids : t # s \/ d # c => indexer'[t][d] = indexer[t][d]
    BY <1>1, <2>1, Moved DEF BlockInv, Places
  <2>6. indexer'[s][c] = "ended" BY <1>1, <2>1, Moved DEF BlockInv, Places
  <2>7. PassedMeansStored'
    BY <1>1, <2>1, <2>5, <2>6 DEF BlockInv, PassedMeansStored, Savers, Callers
  <2>8. StatusMeansStored' BY <2>1 DEF BlockInv, StatusMeansStored
  <2> QED BY <2>2, <2>4, <2>7, <2>8 DEF BlockInv
<1>4. CASE SaveList(s, c)
  <2>1. PICK l \in Lists : refs' = [refs EXCEPT ![c] = l] BY <1>4 DEF SaveList
  <2>2. /\ Move(s, c, "saved") /\ indexer[s][c] # "off"
        /\ UNCHANGED <<CIDRefStatus, fetch, notFound, tally, synced>>
    BY <1>4 DEF SaveList
  <2>3. StartOrder' /\ PinsCounted' BY <2>2, SaverLeavesPins DEF Places
  <2>4. indexer' \in [Callers -> [Cids -> Places]] BY <1>1, <2>2, Moved DEF BlockInv, Places
  <2>5. /\ refs' \in [Cids -> Lists \cup {NoList}] /\ refs'[c] # NoList
        /\ \A d \in Cids : refs[d] # NoList => refs'[d] # NoList
    BY <2>1, BlockListAssumption DEF BlockInv, BlockTypeOK
  <2>6. BlockTypeOK' BY <2>2, <2>4, <2>5 DEF BlockInv, BlockTypeOK
  <2>7. \A t \in Callers, d \in Cids : t # s \/ d # c => indexer'[t][d] = indexer[t][d]
    BY <1>1, <2>2, Moved DEF BlockInv, Places
  <2>8. PassedMeansStored' BY <2>5, <2>7 DEF BlockInv, PassedMeansStored, Savers, Callers
  <2>9. StatusMeansStored' BY <2>2, <2>5 DEF BlockInv, StatusMeansStored
  <2> QED BY <2>3, <2>6, <2>8, <2>9 DEF BlockInv
<1>5. CASE Report(s, c)
  <2>1. /\ Move(s, c, "ended") /\ indexer[s][c] # "off" /\ refs[c] # NoList
        /\ CIDRefStatus' = [CIDRefStatus EXCEPT ![c] = TRUE]
        /\ UNCHANGED <<refs, fetch, notFound, tally, synced>>
    BY <1>1, <1>5 DEF Report, BlockInv, PassedMeansStored
  <2>2. StartOrder' /\ PinsCounted' BY <2>1, SaverLeavesPins DEF Places
  <2>3. indexer' \in [Callers -> [Cids -> Places]] BY <1>1, <2>1, Moved DEF BlockInv, Places
  <2>4. BlockTypeOK' BY <2>1, <2>3 DEF BlockInv, BlockTypeOK
  <2>5. \A t \in Callers, d \in Cids : t # s \/ d # c => indexer'[t][d] = indexer[t][d]
    BY <1>1, <2>1, Moved DEF BlockInv, Places
  <2>6. PassedMeansStored' BY <2>1, <2>5 DEF BlockInv, PassedMeansStored, Savers, Callers
  <2>7. StatusMeansStored' BY <2>1 DEF BlockInv, StatusMeansStored, BlockTypeOK
  <2> QED BY <2>2, <2>4, <2>6, <2>7 DEF BlockInv
<1> QED BY <1>2, <1>3, <1>4, <1>5 DEF SaverStep

\* A goroutine of FetchPins moves on.
LEMMA FetcherMoves ==
  ASSUME BlockInv, NEW c \in Cids, NEW place \in Places \ {"off"},
         Move("pins", c, place), indexer["pins"][c] \notin {"off", "ended"},
         UNCHANGED <<fetch, main>>
  PROVE  /\ fetch.at = "waiting" /\ c \in fetch.want
         /\ indexer' \in [Callers -> [Cids -> Places]]
         /\ indexer'["pins"][c] = place
         /\ \A s \in Callers, d \in Cids : s # "pins" \/ d # c => indexer'[s][d] = indexer[s][d]
         /\ StartOrder'
         /\ \A d \in Cids : indexer'["pins"][d] # "off" <=>
                              fetch'.at \in {"waiting", "done"} /\ d \in fetch'.want
         /\ Cardinality(EndedPins') =
              IF place = "ended" THEN Cardinality(EndedPins) + 1 ELSE Cardinality(EndedPins)
         /\ Cardinality(EndedPins) < Cardinality(fetch.want)
<1>1. "pins" \in Callers BY DEF Callers
<1>2. fetch.at = "waiting" /\ c \in fetch.want
  BY <1>1 DEF BlockInv, PinsCounted, Running, BlockTypeOK
<1>3. /\ indexer' \in [Callers -> [Cids -> Places]]
      /\ indexer'["pins"][c] = place
      /\ \A s \in Callers, d \in Cids : s # "pins" \/ d # c => indexer'[s][d] = indexer[s][d]
  BY <1>1, Moved DEF BlockInv
<1>4. StartOrder' BY <1>3 DEF BlockInv, StartOrder, Callers
<1>5. \A d \in Cids : indexer'["pins"][d] # "off" <=>
                        fetch'.at \in {"waiting", "done"} /\ d \in fetch'.want
  BY <1>1, <1>2, <1>3 DEF BlockInv, PinsCounted
<1>6. c \notin EndedPins BY DEF EndedPins
<1>7. EndedPins' = IF place = "ended" THEN EndedPins \cup {c} ELSE EndedPins
  BY <1>1, <1>3, <1>6 DEF EndedPins
<1>8. Cardinality(EndedPins') =
        IF place = "ended" THEN Cardinality(EndedPins) + 1 ELSE Cardinality(EndedPins)
  BY <1>6, <1>7, EndedIsFinite, FS_AddElement
<1>9. Cardinality(EndedPins) < Cardinality(fetch.want)
  <2>1. fetch.want \in SUBSET Cids BY DEF BlockInv, BlockTypeOK
  <2>2. IsFiniteSet(fetch.want) BY <2>1, EndedIsFinite
  <2>3. EndedPins \subseteq fetch.want BY DEF BlockInv, PinsCounted, EndedPins
  <2>4. EndedPins # fetch.want BY <1>2, <1>6
  <2>5. Cardinality(EndedPins) \in Nat /\ Cardinality(fetch.want) \in Nat
    BY <2>1, EndedIsFinite
  <2> QED BY <2>2, <2>3, <2>4, <2>5, FS_Subset
<1> QED BY <1>2, <1>3, <1>4, <1>5, <1>8, <1>9

\* The steps of a goroutine of FetchPins.
LEMMA FetcherKeeps ==
  ASSUME BlockInv, NEW c \in Cids, FetcherStep(c), main' = main PROVE BlockInv'
<1>1. "pins" \in Callers /\ Callers = {"videos", "contracts", "pins"} BY DEF Callers
<1>2. Cardinality(EndedPins) \in Nat /\ \A d \in Cids : tally[d] \in Nat
  BY EndedIsFinite DEF BlockInv, BlockTypeOK
<1>3. CASE FindRefs("pins", c)
  <2> DEFINE place == IF refs[c] = NoList THEN "absent" ELSE "known"
  <2>1. place \in Places \ {"off"} BY DEF Places
  <2>2. /\ Move("pins", c, place) /\ indexer["pins"][c] \notin {"off", "ended"}
        /\ UNCHANGED <<refs, CIDRefStatus, fetch, notFound, tally, synced>>
    BY <1>3 DEF FindRefs, MayLook
  <2>3. place # "ended" /\ place # "counting" OBVIOUS
  <2> HIDE DEF place
  <2>4. BlockTypeOK' BY <2>1, <2>2, FetcherMoves DEF BlockInv, BlockTypeOK
  <2>5. PassedMeansStored'
    <3>1. refs[c] = NoList => place = "absent" BY DEF place
    <3> QED BY <1>1, <2>1, <2>2, <2>3, <3>1, FetcherMoves DEF BlockInv, PassedMeansStored
  <2>6. PinsCounted' BY <1>1, <2>1, <2>2, <2>3, FetcherMoves DEF BlockInv, PinsCounted
  <2> QED BY <2>1, <2>2, <2>4, <2>5, <2>6, FetcherMoves DEF BlockInv, StatusMeansStored
<1>4. CASE EndKnown(c)
  <2>1. /\ Move("pins", c, "ended") /\ indexer["pins"][c] = "known"
        /\ UNCHANGED <<refs, CIDRefStatus, fetch, notFound, tally, synced>>
    BY <1>4 DEF EndKnown
  <2>2. "ended" \in Places \ {"off"} BY DEF Places
  <2>3. BlockTypeOK' BY <2>1, <2>2, FetcherMoves DEF BlockInv, BlockTypeOK
  <2>4. PassedMeansStored'
    BY <1>1, <2>1, <2>2, FetcherMoves DEF BlockInv, PassedMeansStored
  <2>5. PinsCounted'
    BY <1>1, <1>2, <2>1, <2>2, FetcherMoves DEF BlockInv, PinsCounted, BlockTypeOK
  <2> QED BY <2>1, <2>2, <2>3, <2>4, <2>5, FetcherMoves DEF BlockInv, StatusMeansStored
<1>5. CASE SavePinList(c)
  <2>1. PICK l \in Lists : refs' = [refs EXCEPT ![c] = l]
    BY <1>5, BlockListAssumption DEF SavePinList
  <2>2. /\ Move("pins", c, "saved") /\ indexer["pins"][c] = "absent"
        /\ UNCHANGED <<CIDRefStatus, fetch, notFound, tally, synced>>
    BY <1>5 DEF SavePinList
  <2>3. "saved" \in Places \ {"off"} BY DEF Places
  <2>4. /\ refs' \in [Cids -> Lists \cup {NoList}] /\ refs'[c] # NoList
        /\ \A d \in Cids : refs[d] # NoList => refs'[d] # NoList
    BY <2>1, BlockListAssumption DEF BlockInv, BlockTypeOK
  <2>5. BlockTypeOK' BY <2>2, <2>3, <2>4, FetcherMoves DEF BlockInv, BlockTypeOK
  <2>6. PassedMeansStored'
    BY <1>1, <2>2, <2>3, <2>4, FetcherMoves DEF BlockInv, PassedMeansStored
  <2>7. PinsCounted' BY <1>1, <2>2, <2>3, FetcherMoves DEF BlockInv, PinsCounted
  <2> QED BY <2>2, <2>3, <2>4, <2>5, <2>6, <2>7, FetcherMoves DEF BlockInv, StatusMeansStored
<1>6. CASE ReportSynced(c)
  <2>1. /\ Move("pins", c, "reported") /\ indexer["pins"][c] = "saved"
        /\ synced' = [done |-> notFound, of |-> Cardinality(fetch.want)]
        /\ UNCHANGED <<refs, CIDRefStatus, fetch, notFound, tally>>
    BY <1>6 DEF ReportSynced
  <2>2. "reported" \in Places \ {"off"} BY DEF Places
  <2>3. notFound \in Nat /\ Cardinality(fetch.want) \in Nat
    BY EndedIsFinite DEF BlockInv, BlockTypeOK
  <2>4. BlockTypeOK' BY <2>1, <2>2, <2>3, FetcherMoves DEF BlockInv, BlockTypeOK
  <2>5. PassedMeansStored'
    BY <1>1, <2>1, <2>2, FetcherMoves DEF BlockInv, PassedMeansStored
  <2>6. synced'.done < synced'.of
    BY <1>2, <2>1, <2>2, <2>3, FetcherMoves DEF BlockInv, PinsCounted
  <2>7. PinsCounted'
    BY <1>1, <2>1, <2>2, <2>6, FetcherMoves DEF BlockInv, PinsCounted
  <2> QED BY <2>1, <2>2, <2>4, <2>5, <2>7, FetcherMoves DEF BlockInv, StatusMeansStored
<1>7. CASE ReadCount(c)
  <2>1. /\ Move("pins", c, "counting") /\ indexer["pins"][c] = "reported"
        /\ tally' = [tally EXCEPT ![c] = notFound]
        /\ UNCHANGED <<refs, CIDRefStatus, fetch, notFound, synced>>
    BY <1>7 DEF ReadCount
  <2>2. "counting" \in Places \ {"off"} BY DEF Places
  <2>3. BlockTypeOK' BY <2>1, <2>2, FetcherMoves DEF BlockInv, BlockTypeOK
  <2>4. PassedMeansStored'
    BY <1>1, <2>1, <2>2, FetcherMoves DEF BlockInv, PassedMeansStored
  <2>5. PinsCounted'
    <3>1. tally'[c] = notFound /\ \A d \in Cids \ {c} : tally'[d] = tally[d]
      BY <2>1 DEF BlockInv, BlockTypeOK
    <3> QED BY <1>1, <2>1, <2>2, <3>1, FetcherMoves DEF BlockInv, PinsCounted
  <2> QED BY <2>1, <2>2, <2>3, <2>4, <2>5, FetcherMoves DEF BlockInv, StatusMeansStored
<1>8. CASE WriteCount(c)
  <2>1. /\ Move("pins", c, "ended") /\ indexer["pins"][c] = "counting"
        /\ notFound' = tally[c] + 1
        /\ UNCHANGED <<refs, CIDRefStatus, fetch, tally, synced>>
    BY <1>8 DEF WriteCount
  <2>2. "ended" \in Places \ {"off"} BY DEF Places
  <2>3. BlockTypeOK' BY <1>2, <2>1, <2>2, FetcherMoves DEF BlockInv, BlockTypeOK
  <2>4. PassedMeansStored'
    BY <1>1, <2>1, <2>2, FetcherMoves DEF BlockInv, PassedMeansStored
  <2>5. PinsCounted'
    BY <1>1, <1>2, <2>1, <2>2, FetcherMoves DEF BlockInv, PinsCounted
  <2> QED BY <2>1, <2>2, <2>3, <2>4, <2>5, FetcherMoves DEF BlockInv, StatusMeansStored
<1> QED BY <1>3, <1>4, <1>5, <1>6, <1>7, <1>8 DEF FetcherStep

\* FetchPins begins, and ends.
LEMMA FetchKeeps ==
  ASSUME BlockInv, pins \subseteq Cids, FetchStep, main' = main PROVE BlockInv'
<1>1. "pins" \in Callers /\ Callers = {"videos", "contracts", "pins"} BY DEF Callers
<1>2. CASE BeginFetch
  <2>1. PICK answer \in SUBSET Cids :
          /\ fetch' = [at |-> "waiting", want |-> answer]
          /\ indexer' = [indexer EXCEPT !["pins"] =
                           [c \in Cids |-> IF c \in answer THEN "started" ELSE "off"]]
    BY <1>2 DEF BeginFetch
  <2>2. fetch.at = "started" /\ UNCHANGED <<refs, CIDRefStatus, notFound, tally, synced>>
    BY <1>2 DEF BeginFetch
  <2>3. /\ indexer' \in [Callers -> [Cids -> Places]]
        /\ \A c \in Cids : indexer'["pins"][c] = IF c \in answer THEN "started" ELSE "off"
        /\ \A s \in Savers, c \in Cids : indexer'[s][c] = indexer[s][c]
    BY <1>1, <2>1 DEF BlockInv, BlockTypeOK, Places, Savers
  <2>4. EndedPins = {} /\ EndedPins' = {}
    BY <2>2, <2>3 DEF BlockInv, PinsCounted, EndedPins
  <2>5. BlockTypeOK' BY <2>1, <2>2, <2>3 DEF BlockInv, BlockTypeOK
  <2>6. StartOrder' BY <2>1, <2>2, <2>3 DEF BlockInv, StartOrder, Savers
  <2>7. PassedMeansStored' BY <1>1, <2>2, <2>3 DEF BlockInv, PassedMeansStored, Savers
  <2>8. PinsCounted' BY <2>1, <2>2, <2>3, <2>4 DEF BlockInv, PinsCounted
  <2> QED BY <2>2, <2>5, <2>6, <2>7, <2>8 DEF BlockInv, StatusMeansStored
<1>3. CASE EndFetch
  <2>1. /\ fetch.at = "waiting" /\ ~Running("pins")
        /\ fetch' = [fetch EXCEPT !.at = "done"] /\ synced' = [done |-> 1, of |-> 1]
        /\ UNCHANGED <<refs, indexer, CIDRefStatus, notFound, tally>>
    BY <1>3 DEF EndFetch
  <2>2. fetch'.at = "done" /\ fetch'.want = fetch.want BY <2>1 DEF BlockInv, BlockTypeOK
  <2>3. BlockTypeOK' BY <2>1 DEF BlockInv, BlockTypeOK
  <2>4. StartOrder' BY <2>1 DEF BlockInv, StartOrder
  <2>5. PassedMeansStored' BY <2>1 DEF BlockInv, PassedMeansStored
  <2>6. EndedPins' = EndedPins BY <2>1 DEF EndedPins
  <2>7. PinsCounted' BY <2>1, <2>2, <2>6 DEF BlockInv, PinsCounted, Running
  <2> QED BY <2>1, <2>3, <2>4, <2>5, <2>7 DEF BlockInv, StatusMeansStored
<1> QED BY <1>2, <1>3 DEF FetchStep

\* SaveRefs begins.
LEMMA SaverStarts ==
  ASSUME BlockInv, NEW s \in Savers, NEW files, StartSaveRefs(s, files)
  PROVE  /\ BlockTypeOK' /\ StatusMeansStored' /\ PassedMeansStored' /\ PinsCounted'
         /\ \A t \in Callers \ {s} : indexer'[t] = indexer[t]
         /\ fetch' = fetch
<1>1. s \in Callers /\ s # "pins" /\ "pins" \in Callers BY DEF Savers, Callers
<1>2. PICK answered \in {files, {}} :
        indexer' = [indexer EXCEPT ![s] =
                      [c \in Cids |-> IF c \in answered THEN "started" ELSE "off"]]
  BY DEF StartSaveRefs
<1>3. UNCHANGED <<refs, CIDRefStatus, fetch, notFound, tally, synced>> BY DEF StartSaveRefs
<1>4. /\ indexer' \in [Callers -> [Cids -> Places]]
      /\ \A c \in Cids : indexer'[s][c] \in {"started", "off"}
      /\ \A t \in Callers \ {s} : indexer'[t] = indexer[t]
  BY <1>1, <1>2 DEF BlockInv, BlockTypeOK, Places
<1>5. BlockTypeOK' BY <1>3, <1>4 DEF BlockInv, BlockTypeOK
<1>6. StatusMeansStored' BY <1>3 DEF BlockInv, StatusMeansStored
<1>7. PassedMeansStored' BY <1>1, <1>3, <1>4 DEF BlockInv, PassedMeansStored
<1>8. EndedPins' = EndedPins BY <1>1, <1>4 DEF EndedPins
<1>9. PinsCounted' BY <1>1, <1>3, <1>4, <1>8 DEF BlockInv, PinsCounted, Running
<1> QED BY <1>3, <1>4, <1>5, <1>6, <1>7, <1>9

\* A step that leaves the block lists alone.
LEMMA BlocksStand == ASSUME BlockInv, UNCHANGED storeVars, StartOrder' PROVE BlockInv'
<1>1. EndedPins' = EndedPins BY DEF EndedPins, storeVars
<1>2. PinsCounted' BY <1>1 DEF BlockInv, PinsCounted, Running, storeVars
<1>3. BlockTypeOK' BY DEF BlockInv, BlockTypeOK, storeVars
<1>4. PassedMeansStored' BY DEF BlockInv, PassedMeansStored, storeVars
<1>5. StatusMeansStored' BY DEF BlockInv, StatusMeansStored, storeVars
<1> QED BY <1>2, <1>3, <1>4, <1>5 DEF BlockInv

\* What main does keeps what is known of the block lists.
LEMMA MainKeepsBlocks == ASSUME BlockInv, Main PROVE BlockInv'
<1>1. CASE Pay \/ EndPaying \/ List
  <2>1. UNCHANGED storeVars /\ main \in {"paying", "listing"}
        /\ main' \in {"paying", "listing"}
    BY <1>1 DEF Pay, EndPaying, List
  <2>2. StartOrder' BY <2>1 DEF BlockInv, StartOrder, storeVars
  <2> QED BY <2>1, <2>2, BlocksStand
<1>2. CASE EndListing
  <2>1. main = "listing" /\ main' = "contracts" BY <1>2 DEF EndListing
  <2>2. CASE UNCHANGED storeVars
    <3>1. StartOrder' BY <2>1, <2>2 DEF BlockInv, StartOrder, storeVars
    <3> QED BY <2>2, <3>1, BlocksStand
  <2>3. CASE StartSaveRefs("videos", lister.list)
    <3>1. "videos" \in Savers /\ "contracts" \in Callers \ {"videos"} BY DEF Savers, Callers
    <3>2. StartOrder' BY <2>1, <2>3, <3>1, SaverStarts DEF BlockInv, StartOrder
    <3> QED BY <2>3, <3>1, <3>2, SaverStarts DEF BlockInv
  <2> QED BY <1>2, <2>2, <2>3 DEF EndListing
<1>3. CASE ListContracts
  <2>1. main = "contracts" /\ main' = "services" BY <1>3 DEF ListContracts
  <2>2. PICK files \in {launch.contracts, {}} : StartSaveRefs("contracts", files)
    BY <1>3 DEF ListContracts
  <2>3. "contracts" \in Savers BY DEF Savers
  <2>4. StartOrder' BY <2>1, <2>2, <2>3, SaverStarts DEF BlockInv, StartOrder
  <2> QED BY <2>2, <2>3, <2>4, SaverStarts DEF BlockInv
<1>4. CASE Serve
  <2>1. /\ main = "services" /\ main' = "serving"
        /\ UNCHANGED <<refs, indexer, CIDRefStatus, notFound, tally, synced>>
    BY <1>4 DEF Serve
  <2>2. CASE fetch' = fetch
    <3>1. StartOrder' BY <2>1, <2>2 DEF StartOrder
    <3> QED BY <2>1, <2>2, <3>1, BlocksStand DEF storeVars
  <2>3. CASE fetch' = [fetch EXCEPT !.at = "started"]
    <3>1. fetch.at = "off" BY <2>1 DEF BlockInv, StartOrder
    <3>2. fetch'.at = "started" /\ BlockTypeOK' BY <2>1, <2>3 DEF BlockInv, BlockTypeOK
    <3>3. EndedPins' = EndedPins BY <2>1 DEF EndedPins
    <3>4. PinsCounted' BY <2>1, <3>1, <3>2, <3>3 DEF BlockInv, PinsCounted
    <3>5. PassedMeansStored' BY <2>1 DEF BlockInv, PassedMeansStored
    <3>6. StartOrder' BY <2>1 DEF StartOrder
    <3> QED BY <2>1, <3>2, <3>4, <3>5, <3>6 DEF BlockInv, StatusMeansStored
  <2> QED BY <1>4, <2>2, <2>3 DEF Serve
<1> QED BY <1>1, <1>2, <1>3, <1>4 DEF Main

\* Nothing of a life of the node is left when the next begins.
LEMMA ResetKeeps == ASSUME BlockInv, BlockReset, main' = "paying" PROVE BlockInv'
<1>1. "pins" \in Callers BY DEF Callers
<1>2. /\ indexer' = [s \in Callers |-> [c \in Cids |-> "off"]]
      /\ CIDRefStatus' = [c \in Cids |-> FALSE]
      /\ fetch' = [at |-> "off", want |-> {}] /\ notFound' = 0
      /\ tally' = [c \in Cids |-> 0] /\ synced' = [of |-> 1, done |-> 0] /\ refs' = refs
  BY DEF BlockReset, NotSynced
<1>3. BlockTypeOK' BY <1>2 DEF BlockInv, BlockTypeOK, Places
<1>4. StartOrder' BY <1>2 DEF StartOrder, Callers
<1>5. PassedMeansStored' BY <1>1, <1>2 DEF PassedMeansStored
<1>6. EndedPins' = {} BY <1>1, <1>2 DEF EndedPins
<1>7. Cardinality(EndedPins') = 0 BY <1>6, FS_EmptySet
<1>8. PinsCounted' BY <1>1, <1>2, <1>7 DEF PinsCounted, Running
<1>9. StatusMeansStored' BY <1>2 DEF StatusMeansStored
<1> QED BY <1>3, <1>4, <1>5, <1>8, <1>9 DEF BlockInv

\* Every step keeps what is known of the block lists.
LEMMA BlockKeeps == ASSUME VideoInv, BlockInv, [Next]_vars PROVE BlockInv'
<1>1. CASE Main BY <1>1, MainKeepsBlocks
<1>2. CASE Restart BY <1>2, ResetKeeps DEF Restart
<1>3. ASSUME UNCHANGED <<storeVars, main>> PROVE BlockInv'
  <2>1. StartOrder' BY <1>3 DEF BlockInv, StartOrder, storeVars
  <2> QED BY <1>3, <2>1, BlocksStand
<1>4. CASE Update \/ Page \/ Payment \/ Lister \/ Pinner \/ Client
  BY <1>3, <1>4 DEF Update, Page, Payment, Lister, Pinner, Client
<1>5. CASE Fetcher BY <1>5, FetchKeeps DEF Fetcher, VideoInv
<1>6. ASSUME NEW s \in Callers, NEW c \in Cids, Indexer(s, c) PROVE BlockInv'
  <2>1. CASE s = "pins" BY <1>6, <2>1, FetcherKeeps DEF Indexer, IndexerStep
  <2>2. CASE s # "pins"
    <3>1. s \in Savers BY <2>2 DEF Savers, Callers
    <3> QED BY <1>6, <2>2, <3>1, SaverKeeps DEF Indexer, IndexerStep
  <2> QED BY <2>1, <2>2
<1>7. ASSUME NEW v \in Validators, Link(v) PROVE BlockInv' BY <1>3, <1>7 DEF Link
<1>8. CASE UNCHANGED vars BY <1>3, <1>8 DEF vars, storeVars
<1> QED BY <1>1, <1>2, <1>4, <1>5, <1>6, <1>7, <1>8 DEF Next

\* What is known of the indexing goroutines between their steps:
\* ipfs.go:440-481, peers.go:22-94.
THEOREM BlockInvariant == Spec => []BlockInv
<1>1. ASSUME Init PROVE BlockInv
  <2>1. "pins" \in Callers BY DEF Callers
  <2>2. /\ indexer = [s \in Callers |-> [c \in Cids |-> "off"]]
        /\ CIDRefStatus = [c \in Cids |-> FALSE]
        /\ fetch = [at |-> "off", want |-> {}] /\ notFound = 0
        /\ tally = [c \in Cids |-> 0] /\ synced = [of |-> 1, done |-> 0]
        /\ refs \in [Cids -> Lists \cup {NoList}]
    BY <1>1 DEF Init, BlockInit, NotSynced
  <2>3. BlockTypeOK BY <2>2 DEF BlockTypeOK, Places
  <2>4. StartOrder BY <2>2 DEF StartOrder, Callers
  <2>5. PassedMeansStored BY <2>1, <2>2 DEF PassedMeansStored
  <2>6. EndedPins = {} BY <2>1, <2>2 DEF EndedPins
  <2>7. Cardinality(EndedPins) = 0 BY <2>6, FS_EmptySet
  <2>8. PinsCounted BY <2>1, <2>2, <2>7 DEF PinsCounted, Running
  <2>9. StatusMeansStored BY <2>2 DEF StatusMeansStored
  <2> QED BY <2>3, <2>4, <2>5, <2>8, <2>9 DEF BlockInv
<1>2. VideoInv /\ BlockInv /\ [Next]_vars => BlockInv' BY BlockKeeps
<1> QED BY <1>1, <1>2, VideoInvariant, PTL DEF Spec

\* No file is reported as complete without a list, for any number of files,
\* whatever IPFS fails on, and over a restart.
THEOREM StatusAlwaysStored == Spec => []StatusMeansStored
<1>1. BlockInv => StatusMeansStored BY DEF BlockInv
<1> QED BY <1>1, BlockInvariant, PTL

\* All pins count as synced only when each has a list: while one goroutine of
\* FetchPins runs, those that have ended are fewer than the pins, and the
\* counter, read and written without a lock, is at most the number of those.
THEOREM SyncedAlwaysListed == Spec => []SyncedMeansListed
<1>1. ASSUME BlockInv PROVE SyncedMeansListed
  <2>1. SUFFICES ASSUME synced.done >= synced.of, NEW c \in fetch.want PROVE refs[c] # NoList
    BY DEF SyncedMeansListed
  <2>2. "pins" \in Callers /\ c \in Cids BY <1>1, <2>1 DEF Callers, BlockInv, BlockTypeOK
  <2>3. synced.done \in Nat /\ synced.of \in Nat BY <1>1 DEF BlockInv, BlockTypeOK
  <2>4. fetch.at = "done" BY <1>1, <2>1, <2>3 DEF BlockInv, PinsCounted
  <2>5. indexer["pins"][c] = "ended"
    BY <1>1, <2>1, <2>2, <2>4 DEF BlockInv, PinsCounted, Running
  <2> QED BY <1>1, <2>2, <2>5 DEF BlockInv, PassedMeansStored
<1> QED BY <1>1, BlockInvariant, PTL

-----------------------------------------------------------------------------
(* What the proof exchange takes the indexers of a node to be.             *)

\* The goroutines that found no record of a file and have not saved one.
Absent(c) == {s \in Callers : indexer[s][c] = "absent"}
Looking == [c \in Cids |-> Cardinality(Absent(c))]

LEMMA AbsentIsFinite ==
  /\ Cardinality(Callers) \in Nat
  /\ \A some \in SUBSET Callers :
       /\ IsFiniteSet(some) /\ Cardinality(some) \in Nat
       /\ some # Callers => Cardinality(some) < Cardinality(Callers)
<1>1. IsFiniteSet({"pins"}) BY FS_EmptySet, FS_AddElement
<1>2. IsFiniteSet({"contracts", "pins"})
  <2>1. {"contracts", "pins"} = {"pins"} \cup {"contracts"} OBVIOUS
  <2> QED BY <1>1, <2>1, FS_AddElement
<1>3. IsFiniteSet(Callers)
  <2>1. Callers = {"contracts", "pins"} \cup {"videos"} BY DEF Callers
  <2> QED BY <1>2, <2>1, FS_AddElement
<1>4. Cardinality(Callers) \in Nat BY <1>3, FS_CardinalityType
<1>5. ASSUME NEW some \in SUBSET Callers
      PROVE  /\ IsFiniteSet(some) /\ Cardinality(some) \in Nat
             /\ some # Callers => Cardinality(some) < Cardinality(Callers)
  <2>1. /\ IsFiniteSet(some) /\ Cardinality(some) <= Cardinality(Callers)
        /\ Cardinality(some) = Cardinality(Callers) => some = Callers
    BY <1>3, FS_Subset
  <2>2. Cardinality(some) \in Nat BY <2>1, FS_CardinalityType
  <2> QED BY <1>4, <2>1, <2>2
<1> QED BY <1>4, <1>5

\* How many look, when one goroutine has moved on.
LEMMA LookingMoved ==
  ASSUME BlockTypeOK, NEW s \in Callers, NEW c \in Cids, NEW place \in Places,
         Move(s, c, place)
  PROVE  /\ Looking \in [Cids -> Nat]
         /\ indexer[s][c] = "absent" /\ place # "absent" =>
              Looking[c] > 0 /\ Looking' = [Looking EXCEPT ![c] = @ - 1]
         /\ indexer[s][c] # "absent" /\ place = "absent" =>
              /\ Looking[c] < Cardinality(Callers)
              /\ Looking' = [Looking EXCEPT ![c] = @ + 1]
         /\ indexer[s][c] # "absent" /\ place # "absent" => Looking' = Looking
<1>1. /\ indexer' \in [Callers -> [Cids -> Places]] /\ indexer'[s][c] = place
      /\ \A t \in Callers, d \in Cids : t # s \/ d # c => indexer'[t][d] = indexer[t][d]
  BY Moved
<1>2. \A d \in Cids : /\ Absent(d) \in SUBSET Callers /\ IsFiniteSet(Absent(d))
                      /\ Cardinality(Absent(d)) \in Nat
  BY AbsentIsFinite DEF Absent
<1>3. \A d \in Cids \ {c} : Absent(d)' = Absent(d) BY <1>1 DEF Absent
<1>4. Absent(c)' = IF place = "absent" THEN Absent(c) \cup {s} ELSE Absent(c) \ {s}
  BY <1>1 DEF Absent
<1>5. s \in Absent(c) <=> indexer[s][c] = "absent" BY DEF Absent
<1>6. /\ Looking = [d \in Cids |-> Cardinality(Absent(d))]
      /\ Looking' = [d \in Cids |-> Cardinality(Absent(d)')]
  BY DEF Looking
<1>7. CASE indexer[s][c] = "absent" /\ place # "absent"
  <2>1. Cardinality(Absent(c)') = Cardinality(Absent(c)) - 1 /\ Cardinality(Absent(c)) > 0
    <3>1. IsFiniteSet(Absent(c)') BY <1>2, <1>4, <1>7, FS_RemoveElement
    <3>2. Absent(c) = Absent(c)' \cup {s} /\ s \notin Absent(c)' BY <1>4, <1>5, <1>7
    <3>3. Cardinality(Absent(c)') \in Nat BY <3>1, FS_CardinalityType
    <3>4. Cardinality(Absent(c)) = Cardinality(Absent(c)') + 1
      BY <3>1, <3>2, FS_AddElement
    <3> QED BY <3>3, <3>4
  <2> QED BY <1>2, <1>3, <1>6, <1>7, <2>1
<1>8. CASE indexer[s][c] # "absent" /\ place = "absent"
  <2>1. Cardinality(Absent(c)') = Cardinality(Absent(c)) + 1
    BY <1>2, <1>4, <1>5, <1>8, FS_AddElement
  <2>2. Cardinality(Absent(c)) < Cardinality(Callers) BY <1>2, <1>5, <1>8, AbsentIsFinite
  <2> QED BY <1>2, <1>3, <1>6, <1>8, <2>1, <2>2
<1>9. CASE indexer[s][c] # "absent" /\ place # "absent"
  <2>1. Absent(c)' = Absent(c) BY <1>4, <1>5, <1>9
  <2> QED BY <1>2, <1>3, <1>6, <1>9, <2>1
<1>10. CASE indexer[s][c] = "absent" /\ place = "absent" BY <1>2, <1>6, <1>10
<1> QED BY <1>7, <1>8, <1>9, <1>10

\* The three things a step may be, and no step, in the words of BlockIndex.
LEMMA IndexSteps ==
  ASSUME NEW c \in Cids
  PROVE  /\ /\ refs[c] = NoList /\ Looking[c] < Cardinality(Callers)
            /\ Looking' = [Looking EXCEPT ![c] = @ + 1] /\ refs' = refs
            => Index!Next
         /\ /\ Looking[c] > 0 /\ Looking' = [Looking EXCEPT ![c] = @ - 1]
            /\ \E l \in Lists : refs' = [refs EXCEPT ![c] = l]
            => Index!Next
         /\ /\ Looking[c] > 0 /\ Looking' = [Looking EXCEPT ![c] = @ - 1] /\ refs' = refs
            => Index!Next
         /\ Looking' = Looking /\ refs' = refs => UNCHANGED Index!vars
BY DEF Index!Next, Index!BeginIndex, Index!SaveRefs, Index!AbandonIndex, Index!vars,
       Looking, Absent

\* A goroutine's step is one of them.
LEMMA IndexerStepIndexes ==
  ASSUME BlockInv, NEW s \in Callers, NEW c \in Cids, IndexerStep(s, c)
  PROVE  [Index!Next]_(Index!vars)
<1> USE DEF Places
<1>1. BlockTypeOK BY DEF BlockInv
<1>2. CASE FindRefs(s, c)
  <2>1. CASE refs[c] = NoList
    BY <1>1, <1>2, <2>1, LookingMoved, IndexSteps DEF FindRefs, MayLook
  <2>2. CASE refs[c] # NoList
    BY <1>1, <1>2, <2>2, LookingMoved, IndexSteps DEF FindRefs, MayLook
  <2> QED BY <2>1, <2>2
<1>3. CASE GiveUp(s, c) BY <1>1, <1>3, LookingMoved, IndexSteps DEF GiveUp
<1>4. CASE SaveList(s, c)
  BY <1>1, <1>4, LookingMoved, IndexSteps DEF SaveList
<1>5. CASE Report(s, c) BY <1>1, <1>5, LookingMoved, IndexSteps DEF Report
<1>6. CASE EndKnown(c) /\ s = "pins" BY <1>1, <1>6, LookingMoved, IndexSteps DEF EndKnown
<1>7. CASE SavePinList(c) /\ s = "pins"
  <2>1. \E l \in Lists : refs' = [refs EXCEPT ![c] = l]
    BY <1>7, BlockListAssumption DEF SavePinList
  <2> QED BY <1>1, <1>7, <2>1, LookingMoved, IndexSteps DEF SavePinList
<1>8. CASE ReportSynced(c) /\ s = "pins"
  BY <1>1, <1>8, LookingMoved, IndexSteps DEF ReportSynced
<1>9. CASE ReadCount(c) /\ s = "pins" BY <1>1, <1>9, LookingMoved, IndexSteps DEF ReadCount
<1>10. CASE WriteCount(c) /\ s = "pins"
  BY <1>1, <1>10, LookingMoved, IndexSteps DEF WriteCount
<1> QED BY <1>2, <1>3, <1>4, <1>5, <1>6, <1>7, <1>8, <1>9, <1>10
        DEF IndexerStep, SaverStep, FetcherStep

\* So is a step of a goroutine that starts others: nobody looks yet.
LEMMA StartsIndexNothing ==
  ASSUME BlockInv, refs' = refs, indexer' \in [Callers -> [Cids -> Places]],
         \A s \in Callers, c \in Cids : indexer'[s][c] = "absent" <=> indexer[s][c] = "absent"
  PROVE  UNCHANGED Index!vars
<1>1. \A c \in Cids : Absent(c)' = Absent(c) BY DEF Absent
<1>2. Looking' = Looking BY <1>1 DEF Looking
<1> QED BY <1>2 DEF Index!vars, Looking, Absent

LEMMA SaverStartsIndexNothing ==
  ASSUME BlockInv, NEW s \in Savers, NEW files, StartSaveRefs(s, files),
         \A c \in Cids : indexer[s][c] = "off"
  PROVE  UNCHANGED Index!vars
<1>1. s \in Callers BY DEF Savers, Callers
<1>2. PICK answered \in {files, {}} :
        indexer' = [indexer EXCEPT ![s] =
                      [c \in Cids |-> IF c \in answered THEN "started" ELSE "off"]]
  BY DEF StartSaveRefs
<1>3. /\ indexer' \in [Callers -> [Cids -> Places]]
      /\ \A t \in Callers, c \in Cids :
           indexer'[t][c] = "absent" <=> indexer[t][c] = "absent"
  BY <1>1, <1>2 DEF BlockInv, BlockTypeOK, Places
<1> QED BY <1>3, StartsIndexNothing DEF StartSaveRefs

\* Every step is one of BlockIndex, or none.
LEMMA NextIndexes == ASSUME VideoInv, BlockInv, [Next]_vars PROVE [Index!Next]_(Index!vars)
<1>1. ASSUME UNCHANGED <<refs, indexer>> PROVE UNCHANGED Index!vars
  BY <1>1, StartsIndexNothing DEF BlockInv, BlockTypeOK
<1>2. CASE Pay \/ EndPaying \/ List \/ Serve
  BY <1>1, <1>2 DEF Pay, EndPaying, List, Serve, storeVars
<1>3. CASE EndListing
  <2>1. CASE UNCHANGED storeVars BY <1>1, <2>1 DEF storeVars
  <2>2. CASE StartSaveRefs("videos", lister.list)
    <3>1. "videos" \in Savers /\ \A c \in Cids : indexer["videos"][c] = "off"
      BY <1>3 DEF EndListing, BlockInv, StartOrder, Savers
    <3> QED BY <2>2, <3>1, SaverStartsIndexNothing
  <2> QED BY <1>3, <2>1, <2>2 DEF EndListing
<1>4. CASE ListContracts
  <2>1. "contracts" \in Savers /\ \A c \in Cids : indexer["contracts"][c] = "off"
    BY <1>4 DEF ListContracts, BlockInv, StartOrder, Savers
  <2> QED BY <1>4, <2>1, SaverStartsIndexNothing DEF ListContracts
<1>5. CASE Restart
  <2>1. refs' = refs /\ indexer' = [s \in Callers |-> [c \in Cids |-> "off"]]
    BY <1>5 DEF Restart, BlockReset
  <2>2. \A c \in Cids : Absent(c)' = {} BY <2>1 DEF Absent
  <2>3. Looking' = [c \in Cids |-> 0] BY <2>2, FS_EmptySet DEF Looking
  <2> QED BY <2>1, <2>3 DEF Index!Next, Index!Restart, Looking, Absent
<1>6. CASE Update \/ Page \/ Payment \/ Lister \/ Pinner \/ Client
  BY <1>1, <1>6 DEF Update, Page, Payment, Lister, Pinner, Client, storeVars
<1>7. CASE Fetcher
  <2>1. CASE EndFetch BY <1>1, <2>1 DEF EndFetch
  <2>2. CASE BeginFetch
    <3>1. PICK answer \in SUBSET Cids :
            indexer' = [indexer EXCEPT !["pins"] =
                          [c \in Cids |-> IF c \in answer THEN "started" ELSE "off"]]
      BY <2>2 DEF BeginFetch, VideoInv
    <3>2. \A c \in Cids : indexer["pins"][c] = "off"
      BY <2>2 DEF BeginFetch, BlockInv, PinsCounted
    <3>3. /\ indexer' \in [Callers -> [Cids -> Places]]
          /\ \A s \in Callers, c \in Cids :
               indexer'[s][c] = "absent" <=> indexer[s][c] = "absent"
      BY <3>1, <3>2 DEF BlockInv, BlockTypeOK, Places
    <3> QED BY <2>2, <3>3, StartsIndexNothing DEF BeginFetch
  <2> QED BY <1>7, <2>1, <2>2 DEF Fetcher, FetchStep
<1>8. ASSUME NEW s \in Callers, NEW c \in Cids, Indexer(s, c)
      PROVE  [Index!Next]_(Index!vars)
  BY <1>8, IndexerStepIndexes DEF Indexer
<1>9. ASSUME NEW v \in Validators, Link(v) PROVE UNCHANGED Index!vars
  BY <1>1, <1>9 DEF Link, storeVars
<1>10. CASE UNCHANGED vars BY <1>1, <1>10 DEF vars
<1> QED BY <1>2, <1>3, <1>4, <1>5, <1>6, <1>7, <1>8, <1>9, <1>10 DEF Next, Main

\* The goroutines of a node, whatever it was started with, do no more than
\* BlockIndex lets them, which are the steps the proof exchange takes them to
\* make.
THEOREM BlockIndexImplemented == Spec => ImplementsBlockIndex
<1>1. Init => Index!Init
  <2>1. SUFFICES ASSUME Init PROVE Index!Init OBVIOUS
  <2>2. /\ refs \in [Cids -> Lists \cup {NoList}]
        /\ indexer = [s \in Callers |-> [c \in Cids |-> "off"]]
    BY <2>1 DEF Init, BlockInit
  <2>3. \A c \in Cids : Absent(c) = {} BY <2>2 DEF Absent
  <2>4. Looking = [c \in Cids |-> 0] BY <2>3, FS_EmptySet DEF Looking
  <2> QED BY <2>2, <2>4 DEF Index!Init, Looking, Absent
<1>2. VideoInv /\ BlockInv /\ [Next]_vars => [Index!Next]_(Index!vars) BY NextIndexes
<1> QED BY <1>1, <1>2, VideoInvariant, BlockInvariant, PTL
        DEF Spec, ImplementsBlockIndex, Index!Spec

-----------------------------------------------------------------------------
(* The types.                                                              *)

NodeTypeOK ==
  /\ LinkTypeOK
  /\ stuck \in BOOLEAN
  /\ main \in {"paying", "listing", "contracts", "services", "serving"}
  /\ updates \in 0 .. MaxUpdates
  /\ restarts \in 0 .. MaxRestarts

\* What is left of the types.
LEMMA NodeTypeKeeps == ASSUME NodeTypeOK, [Next]_vars PROVE NodeTypeOK'
<1> USE LaunchAssumption DEF NodeTypeOK, LinkTypeOK
<1>1. CASE Main
  <2>1. CASE Serve BY <2>1 DEF Serve, StartLinks, linkVars, nodeVars
  <2>2. CASE Pay \/ EndPaying \/ List \/ EndListing \/ ListContracts
    BY <2>2 DEF Pay, EndPaying, List, EndListing, ListContracts, linkVars, nodeVars
  <2> QED BY <1>1, <2>1, <2>2 DEF Main
<1>2. CASE Update BY <1>2 DEF Update, linkVars, nodeVars
<1>3. CASE Restart
  <2>1. /\ dialled' = [v \in Validators |-> "off"] /\ WsValidators' = {} /\ stuck' = FALSE
    BY <1>3 DEF Restart, LinkReset
  <2>2. restarts < MaxRestarts /\ restarts' = restarts + 1 /\ main' = "paying" /\ updates' = 0
    BY <1>3 DEF Restart
  <2>3. restarts' \in 0 .. MaxRestarts /\ updates' \in 0 .. MaxUpdates BY <2>2
  <2>4. LinkTypeOK' /\ (stuck \in BOOLEAN)' BY <2>1
  <2> QED BY <2>2, <2>3, <2>4
<1>4. CASE Page \/ Payment \/ Lister \/ Pinner \/ Fetcher
  BY <1>4 DEF Page, Payment, Lister, Pinner, Fetcher, linkVars, nodeVars
<1>5. CASE Client BY <1>5 DEF Client, AskValidator, nodeVars
<1>6. ASSUME NEW s \in Callers, NEW c \in Cids, Indexer(s, c) PROVE NodeTypeOK'
  BY <1>6 DEF Indexer, linkVars, nodeVars
<1>7. ASSUME NEW v \in Validators, Link(v) PROVE NodeTypeOK'
  BY <1>7 DEF Link, LinkStep, DialValidator, Greet, LinkBreaks, nodeVars
<1>8. CASE UNCHANGED vars BY <1>8 DEF vars
<1> QED BY <1>1, <1>2, <1>3, <1>4, <1>5, <1>6, <1>7, <1>8 DEF Next

\* Every variable keeps its type.
THEOREM TypeCorrect == Spec => []StartupTypeOK
<1>1. ASSUME Init PROVE NodeTypeOK
  <2>1. dialled = [v \in Validators |-> "off"] /\ WsValidators = {} /\ stuck = FALSE
    BY <1>1 DEF Init, LinkInit
  <2>2. main = "paying" /\ updates = 0 /\ restarts = 0 BY <1>1 DEF Init
  <2>3. LinkTypeOK /\ stuck \in BOOLEAN BY <2>1 DEF LinkTypeOK
  <2>4. updates \in 0 .. MaxUpdates /\ restarts \in 0 .. MaxRestarts
    BY <2>2, LaunchAssumption
  <2> QED BY <2>2, <2>3, <2>4 DEF NodeTypeOK
<1>2. NodeTypeOK /\ [Next]_vars => NodeTypeOK' BY NodeTypeKeeps
<1>3. ASSUME HiveInv, VideoInv, BlockInv, NodeTypeOK PROVE StartupTypeOK
  <2>1. HiveTypeOK BY <1>3 DEF HiveInv
  <2>2. VideoTypeOK BY <1>3 DEF VideoInv, VideoTypeOK, PinnerType
  <2>3. BlockTypeOK BY <1>3 DEF BlockInv
  <2>4. LocalTypeOK /\ launch \in Launches
    BY <1>3 DEF VideoInv, NodeTypeOK, LocalTypeOK
  <2> QED BY <1>3, <2>1, <2>2, <2>3, <2>4 DEF NodeTypeOK, StartupTypeOK
<1> QED BY <1>1, <1>2, <1>3, HiveInvariant, VideoInvariant, BlockInvariant, PTL DEF Spec

-----------------------------------------------------------------------------
(* Which accounts are read again.                                          *)

\* The start of the next page lies whole pages below the newest entry.
WholePages ==
  /\ paging.at = "paging" /\ paging.newest # -1 /\ ~paging.wrapped =>
       \E k \in Nat : paging.newest = paging.start + k * PageSize
  /\ paging.wrapped => \E k \in Nat : paging.newest + 1 = (k + 1) * PageSize

\* The newest page is asked for again only when what the account had at the
\* first request is a whole number of pages.
WrapsAtWholePages ==
  paging.wrapped => \E k \in Nat \ {0} : paging.newest + 1 = k * PageSize

\* Every step of the payments keeps that.
LEMMA WholePagesStep ==
  ASSUME HiveInv, WholePages, HiveNext \/ UNCHANGED hiveVars PROVE WholePages'
<1> USE PageAssumption
<1>1. CASE BeginPaging
  <2>1. paging.at = "off" /\ paging' = [paging EXCEPT !.at = "paging"]
    BY <1>1 DEF BeginPaging
  <2>2. ~paging.wrapped => paging.newest = -1 BY <2>1 DEF HiveInv
  <2> QED BY <2>1, <2>2 DEF HiveInv, HiveTypeOK, WholePages
<1>2. CASE NewEntry \/ UNCHANGED hiveVars BY <1>2 DEF NewEntry, hiveVars, WholePages
<1>3. CASE CountPage
  <2> DEFINE old == OldestEntry
             last == LastEntry
             top == IF paging.newest = -1 THEN last ELSE paging.newest
  <2>1. /\ last \in -1 .. entries - 1 /\ old \in 0 .. MaxEntries
        /\ FullPage => old <= last
    BY PageBounds DEF HiveInv, StartInHistory
  <2>2. /\ paging'.at = IF FullPage THEN "paging" ELSE "done"
        /\ paging'.start = IF FullPage THEN old - 1 ELSE paging.start
        /\ paging'.newest = top
        /\ paging'.wrapped = (paging.wrapped \/ (FullPage /\ old = 0))
    <3>1. FullPage \in BOOLEAN BY DEF FullPage
    <3> HIDE DEF old, last
    <3> QED BY <1>3, <3>1 DEF CountPage, EndsPaging, NextStart, HiveInv, HiveTypeOK, old, last
  <2>3. FullPage => old = last + 1 - PageSize
    BY <2>1 DEF FullPage, OldestEntry
  <2>4. CASE paging.wrapped
    <3>1. paging.newest # -1 BY <2>4 DEF HiveInv, HiveTypeOK
    <3> QED BY <2>2, <2>4, <3>1 DEF WholePages
  <2>5. CASE ~paging.wrapped
    <3>1. \E k \in Nat : top = last + k * PageSize
      <4>1. CASE paging.newest = -1
        <5>1. top = last + 0 * PageSize BY <2>1, <4>1
        <5> QED BY <5>1
      <4>2. CASE paging.newest # -1
        <5>1. paging.at = "paging" BY <1>3 DEF CountPage
        <5>2. 0 <= paging.start BY <2>5, <4>2, <5>1 DEF HiveInv
        <5>3. last = paging.start /\ top = paging.newest
          BY <4>2, <5>2 DEF LastEntry, Newest, HiveInv, HiveTypeOK
        <5> QED BY <2>5, <4>2, <5>1, <5>3 DEF WholePages
      <4> QED BY <4>1, <4>2
    <3>2. PICK k \in Nat : top = last + k * PageSize BY <3>1
    <3>3. (k + 1) * PageSize = k * PageSize + PageSize /\ k * PageSize \in Nat OBVIOUS
    <3>4. FullPage => top + 1 = old + (k + 1) * PageSize
      BY <2>1, <2>3, <3>2, <3>3
    <3>5. FullPage /\ old = 0 => top + 1 = (k + 1) * PageSize
      BY <2>1, <3>3, <3>4
    <3>6. FullPage => top = (old - 1) + (k + 1) * PageSize
      BY <2>1, <3>2, <3>3, <3>4
    <3> HIDE DEF old, last, top
    <3>7. CASE ~FullPage BY <2>2, <2>5, <3>7 DEF WholePages
    <3>8. CASE FullPage /\ old = 0
      <4>1. \E m \in Nat : top + 1 = (m + 1) * PageSize BY <3>5, <3>8
      <4> QED BY <2>2, <3>8, <4>1 DEF WholePages
    <3>9. CASE FullPage /\ old # 0
      <4>1. k + 1 \in Nat OBVIOUS
      <4>2. \E m \in Nat : top = (old - 1) + m * PageSize BY <3>6, <3>9, <4>1
      <4> QED BY <2>2, <2>5, <3>9, <4>2 DEF WholePages
    <3> QED BY <3>7, <3>8, <3>9
  <2> QED BY <2>4, <2>5
<1>4. CASE PageFails
  <2>1. /\ paging'.at = "done" /\ paging'.newest = paging.newest
        /\ paging'.wrapped = paging.wrapped
    BY <1>4 DEF PageFails, HiveInv, HiveTypeOK
  <2> QED BY <2>1 DEF WholePages
<1>5. CASE HiveReset
  BY <1>5 DEF HiveReset, NotPaging, WholePages
<1> QED BY <1>1, <1>2, <1>3, <1>4, <1>5 DEF HiveNext

\* Payments are added up again (hive.go:184) only for accounts whose history
\* was a whole number of pages when the reading began: any other account is
\* read once, for pages of any size and histories that grow meanwhile.
THEOREM OnlyWholePagesWrap == Spec => []WrapsAtWholePages
<1>1. Init => WholePages
  <2> SUFFICES ASSUME Init PROVE WholePages OBVIOUS
  <2>1. paging = NotPaging BY DEF Init, HiveInit
  <2> QED BY <2>1 DEF NotPaging, WholePages
<1>2. HiveInv /\ WholePages /\ [Next]_vars => WholePages' BY HiveAlone, WholePagesStep
<1>3. WholePages => WrapsAtWholePages
  <2> SUFFICES ASSUME WholePages, paging.wrapped
               PROVE  \E k \in Nat \ {0} : paging.newest + 1 = k * PageSize
    BY DEF WrapsAtWholePages
  <2>1. PICK k \in Nat : paging.newest + 1 = (k + 1) * PageSize BY DEF WholePages
  <2>2. k + 1 \in Nat \ {0} OBVIOUS
  <2> QED BY <2>1, <2>2
<1> QED BY <1>1, <1>2, <1>3, HiveInvariant, PTL DEF Spec

-----------------------------------------------------------------------------
(* How much work is left.                                                  *)

\* The steps main has left until it serves.
MainLeft == CASE main = "paying" -> 4 [] main = "listing" -> 3 [] main = "contracts" -> 2
              [] main = "services" -> 1 [] OTHER -> 0

\* The pages GetHiveSent may still ask for: each begins below the one before.
PagesLeft == CASE paging.at = "off" -> MaxEntries + 2
               [] paging.at = "paging" /\ paging.start = Newest -> MaxEntries + 1
               [] paging.at = "paging" /\ paging.start # Newest -> paging.start + 1
               [] OTHER -> 0

ListLeft == CASE lister.at = "off" -> 2 [] lister.at = "building" -> 1 [] OTHER -> 0

\* PinVideos goes over the pins once and over the list once.
PinLeft ==
  LET todo == Cardinality(pinner.todo)  all == Cardinality(Cids)
  IN  CASE pinner.at = "off" -> 2 * all + 5
        [] pinner.at = "started" -> 2 * all + 4
        [] pinner.at = "wanting" -> 2 * all + 3
        [] pinner.at = "dropping" -> todo + all + 2
        [] pinner.at = "pinning" -> todo + 1
        [] OTHER -> 0

FetchLeft == CASE fetch.at = "off" -> 3 [] fetch.at = "started" -> 2
               [] fetch.at = "waiting" -> 1 [] OTHER -> 0

\* A goroutine that indexes a file has at most five steps, and one to be
\* started by.
PlaceLeft(place) ==
  CASE place = "off" -> 6 [] place = "started" -> 5 [] place = "absent" -> 4
    [] place \in {"known", "saved"} -> 3 [] place = "reported" -> 2
    [] place = "counting" -> 1 [] OTHER -> 0

AllTasks == (Callers \X Cids) \X (1 .. 6)
Tasks == {t \in AllTasks : t[2] <= PlaceLeft(indexer[t[1][1]][t[1][2]])}
IndexLeft == Cardinality(Tasks)

WorkLeft == MainLeft + PagesLeft + ListLeft + PinLeft + FetchLeft + IndexLeft

\* The work of one life of a node.
WorkMost == MaxEntries + 20 * Cardinality(Cids) + 16

\* The newest page is asked for again.
ReadsAgain == CountPage /\ FullPage /\ OldestEntry = 0

\* What the counts are taken of is finite.
LEMMA AllTasksFinite ==
  /\ IsFiniteSet(AllTasks) /\ Cardinality(AllTasks) = 18 * Cardinality(Cids)
  /\ Cardinality(Cids) \in Nat
<1>1. IsFiniteSet(Callers) /\ Cardinality(Callers) = 3
  <2>1. IsFiniteSet({}) /\ Cardinality({}) = 0 BY FS_EmptySet
  <2>2. IsFiniteSet({"videos"}) /\ Cardinality({"videos"}) = 1
    BY <2>1, FS_AddElement, {} \cup {"videos"} = {"videos"}
  <2>3. IsFiniteSet({"videos", "contracts"}) /\ Cardinality({"videos", "contracts"}) = 2
    BY <2>2, FS_AddElement, {"videos"} \cup {"contracts"} = {"videos", "contracts"}
  <2>4. Callers = {"videos", "contracts"} \cup {"pins"} BY DEF Callers
  <2> QED BY <2>3, <2>4, FS_AddElement
<1>2. IsFiniteSet(Cids) BY CidsAssumption
<1>3. IsFiniteSet(1 .. 6) /\ Cardinality(1 .. 6) = 6
  <2>1. \A m, n \in Int :
          IsFiniteSet(m .. n) /\ Cardinality(m .. n) = IF m > n THEN 0 ELSE n - m + 1
    BY FS_Interval
  <2>2. IsFiniteSet(1 .. 6) /\ Cardinality(1 .. 6) = IF 1 > 6 THEN 0 ELSE 6 - 1 + 1
    <3>1. 1 \in Int /\ 6 \in Int OBVIOUS
    <3> QED BY <2>1, <3>1, Zenon
  <2> QED BY <2>2
<1>4. IsFiniteSet(Callers \X Cids) /\ Cardinality(Callers \X Cids) = 3 * Cardinality(Cids)
  BY <1>1, <1>2, FS_Product
<1>5. IsFiniteSet(AllTasks) /\ Cardinality(AllTasks) = (3 * Cardinality(Cids)) * 6
  BY <1>3, <1>4, FS_Product DEF AllTasks
<1>6. Cardinality(Cids) \in Nat BY <1>2, FS_CardinalityType
<1> QED BY <1>5, <1>6

\* Each count is a number, and no more than a life of the node begins with.
LEMMA LeftTypes ==
  ASSUME HiveInv, VideoInv, BlockInv
  PROVE  /\ MainLeft \in 0 .. 4 /\ PagesLeft \in 0 .. MaxEntries + 2 /\ ListLeft \in 0 .. 2
         /\ PinLeft \in 0 .. 2 * Cardinality(Cids) + 5 /\ FetchLeft \in 0 .. 3
         /\ IndexLeft \in 0 .. 18 * Cardinality(Cids)
<1>1. MainLeft \in 0 .. 4 /\ ListLeft \in 0 .. 2 /\ FetchLeft \in 0 .. 3
  BY DEF MainLeft, ListLeft, FetchLeft
<1>2. PagesLeft \in 0 .. MaxEntries + 2
  BY PageAssumption DEF HiveInv, HiveTypeOK, PagesLeft, Newest
<1>3. PinLeft \in 0 .. 2 * Cardinality(Cids) + 5
  <2>1. pinner.todo \in SUBSET Cids BY DEF VideoInv, PinnerType
  <2>2. /\ Cardinality(pinner.todo) \in Nat /\ Cardinality(Cids) \in Nat
        /\ Cardinality(pinner.todo) <= Cardinality(Cids)
    BY <2>1, CidsAssumption, FS_Subset, FS_CardinalityType
  <2> QED BY <2>2 DEF PinLeft
<1>4. IndexLeft \in 0 .. 18 * Cardinality(Cids)
  <2>1. Tasks \in SUBSET AllTasks BY DEF Tasks
  <2>2. IsFiniteSet(Tasks) /\ Cardinality(Tasks) <= 18 * Cardinality(Cids)
    BY <2>1, AllTasksFinite, FS_Subset
  <2> QED BY <2>2, AllTasksFinite, FS_CardinalityType DEF IndexLeft
<1> QED BY <1>1, <1>2, <1>3, <1>4

\* Numbers, that is.
AllNumbers ==
  /\ MainLeft \in Nat /\ PagesLeft \in Nat /\ ListLeft \in Nat
  /\ PinLeft \in Nat /\ FetchLeft \in Nat /\ IndexLeft \in Nat

LEMMA LeftAreNumbers == ASSUME HiveInv, VideoInv, BlockInv PROVE AllNumbers
BY LeftTypes DEF AllNumbers

\* When one count falls and none rises, the sum falls.
LEMMA SumShortens ==
  ASSUME AllNumbers, AllNumbers',
         MainLeft' <= MainLeft, PagesLeft' <= PagesLeft, ListLeft' <= ListLeft,
         PinLeft' <= PinLeft, FetchLeft' <= FetchLeft, IndexLeft' <= IndexLeft,
         \/ MainLeft' < MainLeft \/ PagesLeft' < PagesLeft \/ ListLeft' < ListLeft
         \/ PinLeft' < PinLeft \/ FetchLeft' < FetchLeft \/ IndexLeft' < IndexLeft
  PROVE  WorkLeft' < WorkLeft
<1>1. \A a, b, c, d, e, f, a1, b1, c1, d1, e1, f1 \in Nat :
        /\ a1 <= a /\ b1 <= b /\ c1 <= c /\ d1 <= d /\ e1 <= e /\ f1 <= f
        /\ a1 < a \/ b1 < b \/ c1 < c \/ d1 < d \/ e1 < e \/ f1 < f
        => a1 + b1 + c1 + d1 + e1 + f1 < a + b + c + d + e + f
  OBVIOUS
<1>2. MainLeft' + PagesLeft' + ListLeft' + PinLeft' + FetchLeft' + IndexLeft'
        < MainLeft + PagesLeft + ListLeft + PinLeft + FetchLeft + IndexLeft
  BY <1>1, ZenonT(60) DEF AllNumbers
<1> QED BY <1>2 DEF WorkLeft

\* A count that falls does not rise.
LEMMA FallsOrStays ==
  ASSUME AllNumbers, AllNumbers'
  PROVE  /\ MainLeft' < MainLeft => MainLeft' <= MainLeft
         /\ PagesLeft' < PagesLeft => PagesLeft' <= PagesLeft
         /\ ListLeft' < ListLeft => ListLeft' <= ListLeft
         /\ PinLeft' < PinLeft => PinLeft' <= PinLeft
         /\ FetchLeft' < FetchLeft => FetchLeft' <= FetchLeft
         /\ IndexLeft' < IndexLeft => IndexLeft' <= IndexLeft
<1>1. \A m, n \in Nat : m < n => m <= n OBVIOUS
<1> QED BY <1>1, Zenon DEF AllNumbers

\* Each count is of one variable.
LEMMA OthersStand ==
  ASSUME AllNumbers
  PROVE  /\ main' = main => MainLeft' <= MainLeft
         /\ paging' = paging => PagesLeft' <= PagesLeft
         /\ lister' = lister => ListLeft' <= ListLeft
         /\ pinner' = pinner => PinLeft' <= PinLeft
         /\ fetch' = fetch => FetchLeft' <= FetchLeft
         /\ indexer' = indexer => IndexLeft' <= IndexLeft
<1>1. /\ main' = main => MainLeft' = MainLeft
      /\ paging' = paging => PagesLeft' = PagesLeft
      /\ lister' = lister => ListLeft' = ListLeft
      /\ pinner' = pinner => PinLeft' = PinLeft
      /\ fetch' = fetch => FetchLeft' = FetchLeft
      /\ indexer' = indexer => IndexLeft' = IndexLeft
  BY DEF MainLeft, PagesLeft, ListLeft, PinLeft, FetchLeft, IndexLeft, Tasks
<1> QED BY <1>1 DEF AllNumbers

\* No goroutine that indexes has more left than before.
NotSetBack ==
  \A s \in Callers, c \in Cids : PlaceLeft(indexer'[s][c]) <= PlaceLeft(indexer[s][c])

\* Then there is no more of that work in all, and less if one moved on.
LEMMA TasksShrink ==
  ASSUME BlockInv, BlockInv', NotSetBack
  PROVE  /\ IndexLeft' <= IndexLeft
         /\ (\E s \in Callers, c \in Cids :
               PlaceLeft(indexer'[s][c]) < PlaceLeft(indexer[s][c])) => IndexLeft' < IndexLeft
<1>1. \A place : PlaceLeft(place) \in 0 .. 6 BY DEF PlaceLeft
<1>2. Tasks' \in SUBSET Tasks
  <2> SUFFICES ASSUME NEW t \in AllTasks, t[2] <= PlaceLeft(indexer'[t[1][1]][t[1][2]])
               PROVE  t[2] <= PlaceLeft(indexer[t[1][1]][t[1][2]])
    BY DEF Tasks
  <2>1. t[1][1] \in Callers /\ t[1][2] \in Cids /\ t[2] \in 1 .. 6 BY DEF AllTasks
  <2>2. PlaceLeft(indexer'[t[1][1]][t[1][2]]) <= PlaceLeft(indexer[t[1][1]][t[1][2]])
    BY <2>1 DEF NotSetBack
  <2> QED BY <1>1, <2>1, <2>2
<1>3. IsFiniteSet(Tasks) BY AllTasksFinite, FS_Subset, Tasks \in SUBSET AllTasks DEF Tasks
<1>4. Cardinality(Tasks) \in Nat /\ Cardinality(Tasks') \in Nat
  BY <1>2, <1>3, FS_Subset, FS_CardinalityType
<1>5. IndexLeft' <= IndexLeft BY <1>2, <1>3, FS_Subset DEF IndexLeft
<1>6. ASSUME NEW s \in Callers, NEW c \in Cids,
             PlaceLeft(indexer'[s][c]) < PlaceLeft(indexer[s][c])
      PROVE  IndexLeft' < IndexLeft
  <2> DEFINE t == <<<<s, c>>, PlaceLeft(indexer[s][c])>>
  <2>1. PlaceLeft(indexer[s][c]) \in 1 .. 6 BY <1>1, <1>6
  <2>2. t \in AllTasks BY <2>1 DEF AllTasks
  <2>3. t \in Tasks /\ t \notin Tasks' BY <1>1, <1>6, <2>1, <2>2 DEF Tasks
  <2>4. Tasks' # Tasks BY <2>3
  <2>5. Cardinality(Tasks) # Cardinality(Tasks') BY <1>2, <1>3, <2>4, FS_Subset
  <2> QED BY <1>4, <1>5, <2>5 DEF IndexLeft
<1> QED BY <1>5, <1>6

\* An indexing goroutine moves to a place it has less left from.
LEMMA MoveShortens ==
  ASSUME BlockInv, BlockInv', NEW s \in Callers, NEW c \in Cids, NEW place \in Places,
         Move(s, c, place), PlaceLeft(place) < PlaceLeft(indexer[s][c])
  PROVE  IndexLeft' < IndexLeft
<1>1. indexer'[s][c] = place
      /\ \A t \in Callers, d \in Cids : t # s \/ d # c => indexer'[t][d] = indexer[t][d]
  BY Moved DEF BlockInv
<1>2. \A other : PlaceLeft(other) \in 0 .. 6 BY DEF PlaceLeft
<1>3. NotSetBack
  <2> SUFFICES ASSUME NEW t \in Callers, NEW d \in Cids
               PROVE  PlaceLeft(indexer'[t][d]) <= PlaceLeft(indexer[t][d])
    BY DEF NotSetBack
  <2>1. CASE t = s /\ d = c BY <1>1, <1>2, <2>1
  <2>2. CASE t # s \/ d # c BY <1>1, <1>2, <2>2
  <2> QED BY <2>1, <2>2
<1> QED BY <1>1, <1>3, TasksShrink

\* Every step of an indexing goroutine is such a move.
LEMMA IndexerShortens ==
  ASSUME BlockInv, BlockInv', NEW s \in Callers, NEW c \in Cids, IndexerStep(s, c)
  PROVE  IndexLeft' < IndexLeft /\ fetch' = fetch
<1>1. /\ PlaceLeft("started") = 5 /\ PlaceLeft("absent") = 4 /\ PlaceLeft("known") = 3
      /\ PlaceLeft("saved") = 3 /\ PlaceLeft("reported") = 2 /\ PlaceLeft("counting") = 1
      /\ PlaceLeft("ended") = 0
  BY DEF PlaceLeft
<1>2. {"started", "absent", "known", "saved", "reported", "counting", "ended"} \subseteq Places
  BY DEF Places
<1>3. CASE FindRefs(s, c)
  <2>1. indexer[s][c] = "started" /\ fetch' = fetch BY <1>3 DEF FindRefs, MayLook
  <2>2. CASE refs[c] = NoList
    <3>1. Move(s, c, "absent") BY <1>3, <2>2 DEF FindRefs
    <3> QED BY <1>1, <1>2, <2>1, <3>1, MoveShortens
  <2>3. CASE refs[c] # NoList
    <3>1. Move(s, c, "known") BY <1>3, <2>3 DEF FindRefs
    <3> QED BY <1>1, <1>2, <2>1, <3>1, MoveShortens
  <2> QED BY <2>2, <2>3
<1>4. CASE s # "pins" /\ ~FindRefs(s, c)
  <2>1. \/ GiveUp(s, c) \/ SaveList(s, c) \/ Report(s, c) BY <1>4 DEF IndexerStep, SaverStep
  <2>2. CASE GiveUp(s, c)
    <3>1. Move(s, c, "ended") /\ indexer[s][c] = "absent" /\ fetch' = fetch BY <2>2 DEF GiveUp
    <3> QED BY <1>1, <1>2, <3>1, MoveShortens
  <2>3. CASE SaveList(s, c)
    <3>1. Move(s, c, "saved") /\ indexer[s][c] = "absent" /\ fetch' = fetch BY <2>3 DEF SaveList
    <3> QED BY <1>1, <1>2, <3>1, MoveShortens
  <2>4. CASE Report(s, c)
    <3>1. Move(s, c, "ended") /\ indexer[s][c] \in {"saved", "known"} /\ fetch' = fetch
      BY <2>4 DEF Report
    <3> QED BY <1>1, <1>2, <3>1, MoveShortens
  <2> QED BY <2>1, <2>2, <2>3, <2>4
<1>5. CASE s = "pins" /\ ~FindRefs(s, c)
  <2>1. \/ EndKnown(c) \/ SavePinList(c) \/ ReportSynced(c) \/ ReadCount(c) \/ WriteCount(c)
    BY <1>5 DEF IndexerStep, FetcherStep
  <2>2. CASE EndKnown(c)
    <3>1. Move(s, c, "ended") /\ indexer[s][c] = "known" /\ fetch' = fetch
      BY <1>5, <2>2 DEF EndKnown
    <3> QED BY <1>1, <1>2, <3>1, MoveShortens
  <2>3. CASE SavePinList(c)
    <3>1. Move(s, c, "saved") /\ indexer[s][c] = "absent" /\ fetch' = fetch
      BY <1>5, <2>3 DEF SavePinList
    <3> QED BY <1>1, <1>2, <3>1, MoveShortens
  <2>4. CASE ReportSynced(c)
    <3>1. Move(s, c, "reported") /\ indexer[s][c] = "saved" /\ fetch' = fetch
      BY <1>5, <2>4 DEF ReportSynced
    <3> QED BY <1>1, <1>2, <3>1, MoveShortens
  <2>5. CASE ReadCount(c)
    <3>1. Move(s, c, "counting") /\ indexer[s][c] = "reported" /\ fetch' = fetch
      BY <1>5, <2>5 DEF ReadCount
    <3> QED BY <1>1, <1>2, <3>1, MoveShortens
  <2>6. CASE WriteCount(c)
    <3>1. Move(s, c, "ended") /\ indexer[s][c] = "counting" /\ fetch' = fetch
      BY <1>5, <2>6 DEF WriteCount
    <3> QED BY <1>1, <1>2, <3>1, MoveShortens
  <2> QED BY <2>1, <2>2, <2>3, <2>4, <2>5, <2>6
<1> QED BY <1>3, <1>4, <1>5

\* Nor is one set back by being started.
LEMMA StartShortens ==
  ASSUME BlockInv, BlockInv', NEW s \in Callers, NEW files,
         \A c \in Cids : indexer[s][c] = "off",
         indexer' = [indexer EXCEPT ![s] =
                       [c \in Cids |-> IF c \in files THEN "started" ELSE "off"]]
  PROVE  IndexLeft' <= IndexLeft
<1>1. /\ \A c \in Cids : indexer'[s][c] \in {"started", "off"}
      /\ \A t \in Callers \ {s} : indexer'[t] = indexer[t]
  BY DEF BlockInv, BlockTypeOK
<1>2. \A place : PlaceLeft(place) \in 0 .. 6 BY DEF PlaceLeft
<1>3. PlaceLeft("started") = 5 /\ PlaceLeft("off") = 6 BY DEF PlaceLeft
<1>4. NotSetBack
  <2> SUFFICES ASSUME NEW t \in Callers, NEW d \in Cids
               PROVE  PlaceLeft(indexer'[t][d]) <= PlaceLeft(indexer[t][d])
    BY DEF NotSetBack
  <2>1. CASE t = s BY <1>1, <1>3, <2>1
  <2>2. CASE t # s BY <1>1, <1>2, <2>2
  <2> QED BY <2>1, <2>2
<1> QED BY <1>4, TasksShrink

\* A call of SaveRefs begins when none of its goroutines runs.
LEMMA SaverStartShortens ==
  ASSUME BlockInv, BlockInv', NEW s \in Savers, NEW files, StartSaveRefs(s, files),
         \A c \in Cids : indexer[s][c] = "off"
  PROVE  IndexLeft' <= IndexLeft /\ fetch' = fetch
<1>1. PICK answered \in {files, {}} :
        indexer' = [indexer EXCEPT ![s] =
                      [c \in Cids |-> IF c \in answered THEN "started" ELSE "off"]]
  BY DEF StartSaveRefs
<1>2. s \in Callers BY DEF Savers, Callers
<1> QED BY <1>1, <1>2, StartShortens DEF StartSaveRefs

\* So does FetchPins, and it comes closer to its own end.
LEMMA FetchShortens ==
  ASSUME BlockInv, BlockInv', FetchStep
  PROVE  FetchLeft' < FetchLeft /\ IndexLeft' <= IndexLeft
<1>1. CASE BeginFetch
  <2>1. PICK answer \in {pins, {}} :
          /\ fetch' = [at |-> "waiting", want |-> answer]
          /\ indexer' = [indexer EXCEPT !["pins"] =
                           [c \in Cids |-> IF c \in answer THEN "started" ELSE "off"]]
    BY <1>1 DEF BeginFetch
  <2>2. fetch.at = "started" BY <1>1 DEF BeginFetch
  <2>3. \A c \in Cids : indexer["pins"][c] = "off" BY <2>2 DEF BlockInv, PinsCounted
  <2>4. "pins" \in Callers BY DEF Callers
  <2>5. IndexLeft' <= IndexLeft BY <2>1, <2>3, <2>4, StartShortens
  <2> QED BY <2>1, <2>2, <2>5 DEF FetchLeft
<1>2. CASE EndFetch
  <2>1. fetch.at = "waiting" /\ fetch' = [fetch EXCEPT !.at = "done"] /\ indexer' = indexer
    BY <1>2 DEF EndFetch
  <2>2. fetch'.at = "done" BY <2>1 DEF BlockInv, BlockTypeOK
  <2>3. NotSetBack
    <3>1. \A place : PlaceLeft(place) \in 0 .. 6 BY DEF PlaceLeft
    <3> QED BY <2>1, <3>1 DEF NotSetBack
  <2> QED BY <2>1, <2>2, <2>3, TasksShrink DEF FetchLeft
<1> QED BY <1>1, <1>2 DEF FetchStep

\* Every step of PinVideos looks at one more file or begins its next part.
LEMMA PinShortens == ASSUME VideoInv, VideoInv', PinStep PROVE PinLeft' < PinLeft
<1> DEFINE all == Cardinality(Cids)
<1>1. /\ pinner \in PinnerType /\ pinner' \in PinnerType BY DEF VideoInv
<1>2. /\ pinner.todo \in SUBSET Cids /\ pinner'.todo \in SUBSET Cids BY <1>1 DEF PinnerType
<1>3. /\ all \in Nat
      /\ Cardinality(pinner.todo) \in 0 .. all /\ Cardinality(pinner'.todo) \in 0 .. all
      /\ IsFiniteSet(pinner.todo)
  BY <1>2, CidsAssumption, FS_Subset, FS_CardinalityType
<1>4. ASSUME NEW c \in pinner.todo, pinner'.todo = pinner.todo \ {c}, pinner'.at = pinner.at,
             pinner.at \in {"dropping", "pinning"}
      PROVE  PinLeft' < PinLeft
  <2>1. Cardinality(pinner'.todo) = Cardinality(pinner.todo) - 1
    BY <1>3, <1>4, FS_RemoveElement
  <2> QED BY <1>3, <1>4, <2>1 DEF PinLeft
<1>5. CASE ReadWanted
  <2>1. pinner.at = "started" /\ pinner'.at = "wanting" BY <1>1, <1>5 DEF ReadWanted, PinnerType
  <2> QED BY <1>3, <2>1 DEF PinLeft
<1>6. CASE ReadPins
  <2>1. pinner.at = "wanting" /\ pinner'.at = "dropping" BY <1>1, <1>6 DEF ReadPins, PinnerType
  <2> QED BY <1>3, <2>1 DEF PinLeft
<1>7. CASE CountPin
  <2>1. PICK c \in pinner.todo \cap pinner.wanted :
          pinner' \in { [Passed(c) EXCEPT !.total = @ + Size[c]],
                        [Passed(c) EXCEPT !.missed = @ \cup {c}] }
    BY <1>7 DEF CountPin
  <2>2. pinner'.todo = pinner.todo \ {c} /\ pinner'.at = pinner.at
    BY <1>1, <2>1 DEF Passed, PinnerType
  <2> QED BY <1>4, <1>7, <2>2 DEF CountPin
<1>8. CASE DropPin
  <2>1. PICK c \in pinner.todo \ pinner.wanted :
          \/ pinner' = [Passed(c) EXCEPT !.dropped = @ \cup {c}]
          \/ pinner' = [Passed(c) EXCEPT !.missed = @ \cup {c}]
    BY <1>8 DEF DropPin
  <2>2. pinner'.todo = pinner.todo \ {c} /\ pinner'.at = pinner.at
    BY <1>1, <2>1 DEF Passed, PinnerType
  <2> QED BY <1>4, <1>8, <2>2 DEF DropPin
<1>9. CASE ReadList
  <2>1. pinner.at = "dropping" /\ pinner.todo = {} /\ pinner'.at = "pinning"
    BY <1>1, <1>9 DEF ReadList, PinnerType
  <2>2. Cardinality(pinner.todo) = 0 BY <2>1, FS_EmptySet
  <2> QED BY <1>3, <2>1, <2>2 DEF PinLeft
<1>10. CASE PinNext \/ FailNext \/ PassNext
  <2>1. pinner.at = "pinning" BY <1>10 DEF PinNext, FailNext, PassNext, More
  <2>2. PICK c \in pinner.todo :
          \/ pinner' = [Passed(c) EXCEPT !.total = @ + Size[c], !.seen = @ \cup {c},
                                         !.missed = @ \ {c}, !.grown = TRUE]
          \/ pinner' = [Passed(c) EXCEPT !.failed = @ \cup {c}]
          \/ pinner' = Passed(c)
    BY <1>10 DEF PinNext, FailNext, PassNext
  <2>3. pinner'.todo = pinner.todo \ {c} /\ pinner'.at = pinner.at
    BY <1>1, <2>2 DEF Passed, PinnerType
  <2> QED BY <1>4, <2>1, <2>3
<1>11. CASE EndPinning
  <2>1. pinner.at = "pinning" /\ pinner'.at = "done" BY <1>1, <1>11 DEF EndPinning, PinnerType
  <2> QED BY <1>3, <2>1 DEF PinLeft
<1> QED BY <1>5, <1>6, <1>7, <1>8, <1>9, <1>10, <1>11 DEF PinStep

\* Every page begins below the one before, unless the newest is read again.
LEMMA PageShortens ==
  ASSUME HiveInv, PageStep, ~ReadsAgain PROVE PagesLeft' < PagesLeft
<1> USE PageAssumption
<1>1. CASE CountPage
  <2> DEFINE old == OldestEntry
  <2>1. /\ LastEntry \in -1 .. entries - 1 /\ old \in 0 .. MaxEntries
        /\ FullPage => old <= LastEntry
    BY PageBounds DEF HiveInv, StartInHistory
  <2>2. /\ paging.at = "paging"
        /\ paging'.at = IF FullPage THEN "paging" ELSE "done"
        /\ paging'.start = IF FullPage THEN old - 1 ELSE paging.start
    <3>1. FullPage \in BOOLEAN BY DEF FullPage
    <3> HIDE DEF old
    <3> QED BY <1>1, <3>1 DEF CountPage, EndsPaging, NextStart, HiveInv, HiveTypeOK, old
  <2>3. FullPage => old # 0 BY <1>1 DEF ReadsAgain
  <2>4. paging.start # Newest => LastEntry = paging.start BY DEF LastEntry
  <2>5. paging.start \in -1 .. MaxEntries - 1 BY DEF HiveInv, HiveTypeOK
  <2> HIDE DEF old
  <2>6. CASE FullPage
    <3>1. paging'.at = "paging" /\ paging'.start = old - 1 BY <2>2, <2>6
    <3>2. PagesLeft' = old BY <2>1, <2>3, <2>6, <3>1 DEF PagesLeft, Newest
    <3>3. CASE paging.start = Newest BY <2>1, <2>2, <3>2, <3>3 DEF PagesLeft
    <3>4. CASE paging.start # Newest BY <2>1, <2>2, <2>4, <2>5, <2>6, <3>2, <3>4 DEF PagesLeft
    <3> QED BY <3>3, <3>4
  <2>7. CASE ~FullPage BY <2>2, <2>5, <2>7 DEF PagesLeft, Newest
  <2> QED BY <2>6, <2>7
<1>2. CASE PageFails
  <2>1. paging.at = "paging" /\ paging'.at = "done" BY <1>2 DEF PageFails, HiveInv, HiveTypeOK
  <2>2. paging.start \in -1 .. MaxEntries - 1 BY DEF HiveInv, HiveTypeOK
  <2> QED BY <2>1, <2>2 DEF PagesLeft, Newest
<1> QED BY <1>1, <1>2 DEF PageStep

\* What main does brings it closer to serving, or begins something.
LEMMA MainShortens ==
  ASSUME AllNumbers, AllNumbers', HiveInv, VideoInv, VideoInv', BlockInv, BlockInv', Main
  PROVE  WorkLeft' < WorkLeft
<1>1. CASE Pay
  <2>1. /\ paging.at = "off" /\ paging' = [paging EXCEPT !.at = "paging"]
        /\ UNCHANGED <<main, lister, pinner, fetch, indexer>>
    BY <1>1 DEF Pay, BeginPaging, videoVars, storeVars
  <2>2. /\ paging'.at = "paging" /\ paging'.start = paging.start
        /\ paging.start \in -1 .. MaxEntries - 1
    BY <2>1 DEF HiveInv, HiveTypeOK
  <2>3. PagesLeft' < PagesLeft BY <2>1, <2>2, PageAssumption DEF PagesLeft, Newest
  <2> QED BY <2>1, <2>3, OthersStand, FallsOrStays, SumShortens
<1>2. CASE EndPaying
  <2>1. /\ main = "paying" /\ main' = "listing"
        /\ UNCHANGED <<paging, lister, pinner, fetch, indexer>>
    BY <1>2 DEF EndPaying, hiveVars, videoVars, storeVars
  <2>2. MainLeft' < MainLeft BY <2>1 DEF MainLeft
  <2> QED BY <2>1, <2>2, OthersStand, FallsOrStays, SumShortens
<1>3. CASE List
  <2>1. /\ lister.at = "off" /\ lister'.at = "building"
        /\ UNCHANGED <<main, paging, pinner, fetch, indexer>>
    BY <1>3 DEF List, FetchVideos, hiveVars, storeVars
  <2>2. ListLeft' < ListLeft BY <2>1 DEF ListLeft
  <2> QED BY <2>1, <2>2, OthersStand, FallsOrStays, SumShortens
<1>4. CASE EndListing
  <2>1. main = "listing" /\ main' = "contracts" /\ UNCHANGED <<paging, lister>>
    BY <1>4 DEF EndListing, hiveVars
  <2>2. MainLeft' < MainLeft BY <2>1 DEF MainLeft
  <2>3. PinLeft' <= PinLeft
    <3>1. CASE pinner' = pinner BY <3>1, OthersStand
    <3>2. CASE pinner' = [pinner EXCEPT !.at = "started"]
      <4>1. pinner.at = "off" /\ pinner'.at = "started"
        BY <2>1, <3>2 DEF VideoInv, NotYetPinning, PinnerType
      <4>2. Cardinality(Cids) \in Nat BY AllTasksFinite
      <4> QED BY <4>1, <4>2 DEF PinLeft
    <3> QED BY <1>4, <3>1, <3>2 DEF EndListing
  <2>4. IndexLeft' <= IndexLeft /\ FetchLeft' <= FetchLeft
    <3>1. CASE UNCHANGED storeVars BY <3>1, OthersStand DEF storeVars
    <3>2. CASE StartSaveRefs("videos", lister.list)
      <4>1. "videos" \in Savers /\ \A c \in Cids : indexer["videos"][c] = "off"
        BY <2>1 DEF Savers, BlockInv, StartOrder
      <4> QED BY <3>2, <4>1, SaverStartShortens, OthersStand
    <3> QED BY <1>4, <3>1, <3>2 DEF EndListing
  <2> QED BY <2>1, <2>2, <2>3, <2>4, OthersStand, FallsOrStays, SumShortens
<1>5. CASE ListContracts
  <2>1. main = "contracts" /\ main' = "services" /\ UNCHANGED <<paging, lister, pinner>>
    BY <1>5 DEF ListContracts, hiveVars, videoVars
  <2>2. MainLeft' < MainLeft BY <2>1 DEF MainLeft
  <2>3. IndexLeft' <= IndexLeft /\ FetchLeft' <= FetchLeft
    <3>1. PICK files \in {launch.contracts, {}} : StartSaveRefs("contracts", files)
      BY <1>5 DEF ListContracts
    <3>2. "contracts" \in Savers /\ \A c \in Cids : indexer["contracts"][c] = "off"
      BY <2>1 DEF Savers, BlockInv, StartOrder
    <3> QED BY <3>1, <3>2, SaverStartShortens, OthersStand
  <2> QED BY <2>1, <2>2, <2>3, OthersStand, FallsOrStays, SumShortens
<1>6. CASE Serve
  <2>1. main = "services" /\ main' = "serving" /\ UNCHANGED <<paging, lister, pinner, indexer>>
    BY <1>6 DEF Serve, hiveVars, videoVars
  <2>2. MainLeft' < MainLeft BY <2>1 DEF MainLeft
  <2>3. FetchLeft' <= FetchLeft
    <3>1. CASE fetch' = fetch BY <3>1, OthersStand
    <3>2. CASE fetch' = [fetch EXCEPT !.at = "started"]
      <4>1. fetch.at = "off" /\ fetch'.at = "started"
        BY <2>1, <3>2 DEF BlockInv, StartOrder, BlockTypeOK
      <4> QED BY <4>1 DEF FetchLeft
    <3> QED BY <1>6, <3>1, <3>2 DEF Serve
  <2> QED BY <2>1, <2>2, <2>3, OthersStand, FallsOrStays, SumShortens
<1> QED BY <1>1, <1>2, <1>3, <1>4, <1>5, <1>6 DEF Main

\* So does every step of a goroutine, and sets back no other.
LEMMA WorkStepShortens ==
  ASSUME AllNumbers, AllNumbers', HiveInv, VideoInv, VideoInv', BlockInv, BlockInv', Work, ~ReadsAgain
  PROVE  WorkLeft' < WorkLeft
<1>1. CASE Main BY <1>1, MainShortens
<1>2. CASE Page
  <2>1. PageStep /\ UNCHANGED <<main, lister, pinner, fetch, indexer>>
    BY <1>2 DEF Page, videoVars, storeVars
  <2> QED BY <2>1, PageShortens, OthersStand, FallsOrStays, SumShortens
<1>3. CASE Lister
  <2>1. /\ lister.at = "building" /\ lister' = [lister EXCEPT !.at = "whole"]
        /\ UNCHANGED <<main, paging, pinner, fetch, indexer>>
    BY <1>3 DEF Lister, EndList, hiveVars, storeVars
  <2>2. lister'.at = "whole" BY <2>1 DEF VideoInv
  <2>3. ListLeft' < ListLeft BY <2>1, <2>2 DEF ListLeft
  <2> QED BY <2>1, <2>3, OthersStand, FallsOrStays, SumShortens
<1>4. CASE Pinner
  <2>1. PinStep /\ UNCHANGED <<main, paging, fetch, indexer>>
    BY <1>4 DEF Pinner, hiveVars, storeVars
  <2>2. lister' = lister
    BY <2>1 DEF PinStep, ReadWanted, ReadPins, CountPin, DropPin, ReadList, PinNext, FailNext,
                PassNext, EndPinning
  <2> QED BY <2>1, <2>2, PinShortens, OthersStand, FallsOrStays, SumShortens
<1>5. CASE Fetcher
  <2>1. FetchStep /\ UNCHANGED <<main, paging, lister, pinner>>
    BY <1>5 DEF Fetcher, hiveVars, videoVars
  <2> QED BY <2>1, FetchShortens, OthersStand, FallsOrStays, SumShortens
<1>6. ASSUME NEW s \in Callers, NEW c \in Cids, Indexer(s, c) PROVE WorkLeft' < WorkLeft
  <2>1. IndexerStep(s, c) /\ UNCHANGED <<main, paging, lister, pinner>>
    BY <1>6 DEF Indexer, hiveVars, videoVars
  <2> QED BY <2>1, IndexerShortens, OthersStand, FallsOrStays, SumShortens
<1> QED BY <1>1, <1>2, <1>3, <1>4, <1>5, <1>6 DEF Work

\* Every step of main and of the goroutines it starts lowers the work that is
\* left, but for the one that has the newest page read again (hive.go:184):
\* main.go:83-148 and all it starts but the links come to rest.
WorkShortens == [][Work /\ ~ReadsAgain => WorkLeft' < WorkLeft]_vars

\* What StartupEnds and IndexingEnds rest on beside fairness: in whatever order
\* the goroutines run, a life of a node has at most WorkMost such steps, and one
\* more for each round of Update, until the newest page is read again.
THEOREM WorkAlwaysShortens == Spec => [](WorkLeft \in 0 .. WorkMost) /\ WorkShortens
<1>1. HiveInv /\ VideoInv /\ BlockInv => AllNumbers /\ WorkLeft \in 0 .. WorkMost
  <2> SUFFICES ASSUME HiveInv, VideoInv, BlockInv PROVE AllNumbers /\ WorkLeft \in 0 .. WorkMost
    OBVIOUS
  <2>1. Cardinality(Cids) \in Nat BY AllTasksFinite
  <2> QED BY <2>1, LeftTypes, LeftAreNumbers, PageAssumption DEF WorkLeft, WorkMost
<1>2. /\ AllNumbers /\ AllNumbers' /\ HiveInv /\ VideoInv /\ VideoInv' /\ BlockInv /\ BlockInv'
      /\ [Next]_vars
      => [Work /\ ~ReadsAgain => WorkLeft' < WorkLeft]_vars
  BY WorkStepShortens
<1> QED BY <1>1, <1>2, HiveInvariant, VideoInvariant, BlockInvariant, PTL DEF Spec, WorkShortens
=============================================================================
