----------------------------- MODULE HiveHistory -----------------------------
(***************************************************************************)
(* GetHiveSent of src/hive/hive.go: the payments an account has made,      *)
(* added up over the pages of its history.  The entries are numbered from  *)
(* 0.  The first page asked for is -1, which means the newest PageSize     *)
(* entries; each next page ends one below the oldest entry of the page     *)
(* before, and a page that is not full is the last.  When a full page      *)
(* begins at entry 0, one below it is -1, the newest page again.           *)
(***************************************************************************)
EXTENDS Integers

CONSTANTS
  PageSize,     \* entries of a full page, 1000 in the code
  MaxEntries    \* BOUND: entries the account ever has

ASSUME PageAssumption == PageSize \in Nat \ {0} /\ MaxEntries \in Nat

VARIABLES
  entries,      \* how many entries the account has
  paging,       \* the loop of GetHiveSent
  counted       \* entry -> how often it was added up, BOUND: 2 for "again"

hiveVars == <<entries, paging, counted>>

Entries == 0 .. MaxEntries - 1
Newest == -1            \* the start that asks for the newest page

\* history of the loop: the newest entry when it began, whether it came to
\* its first entry with a full page, and whether a page could not be had.
NotPaging == [at |-> "off", start |-> Newest, newest |-> -1,
              wrapped |-> FALSE, failed |-> FALSE]

HiveInit == /\ entries \in 0 .. MaxEntries
            /\ paging = NotPaging
            /\ counted = [e \in Entries |-> 0]

\* sentAmounts and startIndex are locals of the call.
BeginPaging == /\ paging.at = "off"
               /\ paging' = [paging EXCEPT !.at = "paging"]
               /\ UNCHANGED <<entries, counted>>

\* The account pays, or is paid, while its history is read.
NewEntry == /\ paging.at = "paging"
            /\ entries < MaxEntries
            /\ entries' = entries + 1
            /\ UNCHANGED <<paging, counted>>

LastEntry == IF paging.start = Newest THEN entries - 1 ELSE paging.start
OldestEntry == IF LastEntry >= PageSize THEN LastEntry + 1 - PageSize ELSE 0
FullPage == LastEntry + 1 >= PageSize

\* A wrong NextStart, which asks for the oldest entry again.
NextStartOverlapping == OldestEntry

\* A wrong NextStart, which leaves an entry out.
NextStartSkipping == IF OldestEntry >= 2 THEN OldestEntry - 2 ELSE OldestEntry - 1

\* A wrong NextStart, which takes the size of a page off its oldest entry.
NextStartPageLower == OldestEntry - PageSize

NextStart == OldestEntry - 1

\* A wrong EndsPaging, which asks on after a page that is not full.
NeverEndsPaging == entries = 0

EndsPaging == ~FullPage

\* Lines 148-187 for a page that was had: it is added up, and is the last
\* when it is short or empty.
CountPage ==
  /\ paging.at = "paging"
  /\ counted' = [e \in Entries |->
       IF e \in OldestEntry .. LastEntry /\ counted[e] < 2 THEN counted[e] + 1 ELSE counted[e]]
  /\ paging' = [paging EXCEPT
       !.at = IF EndsPaging THEN "done" ELSE @,
       !.start = IF EndsPaging THEN @ ELSE NextStart,
       !.newest = IF @ = -1 THEN LastEntry ELSE @,
       !.wrapped = @ \/ (FullPage /\ OldestEntry = 0)]
  /\ UNCHANGED entries

\* An error of the request, or an answer without a history, ends the loop
\* with what was added up so far.
PageFails ==
  /\ paging.at = "paging"
  /\ paging' = [paging EXCEPT !.at = "done", !.failed = TRUE]
  /\ UNCHANGED <<entries, counted>>

PageStep == CountPage \/ PageFails
HiveStep == NewEntry \/ PageStep

\* The process ends: what was counted is lost.
HiveReset == /\ paging' = NotPaging
             /\ counted' = [e \in Entries |-> 0]
             /\ UNCHANGED entries

-----------------------------------------------------------------------------
HiveTypeOK ==
  /\ entries \in 0 .. MaxEntries
  /\ paging \in [at : {"off", "paging", "done"}, start : -1 .. MaxEntries - 1,
                 newest : -1 .. MaxEntries - 1, wrapped : BOOLEAN, failed : BOOLEAN]
  /\ counted \in [Entries -> 0 .. 2]

\* No payment is added up twice, although the history grows while it is read
\* and pages are asked for by the number of their newest entry, as long as no
\* full page begins at the account's first entry.
CountedOnce == ~paging.wrapped => \A e \in Entries : counted[e] <= 1

\* No payment between two pages is left out: what was added up reaches without
\* a gap from the newest entry there was down to some older one, and, when no
\* page failed, down to the first.
NoneSkipped ==
  /\ \A e, f \in 0 .. paging.newest : e < f /\ counted[e] > 0 => counted[f] > 0
  /\ paging.at = "done" /\ ~paging.failed => \A e \in 0 .. paging.newest : counted[e] > 0
=============================================================================
