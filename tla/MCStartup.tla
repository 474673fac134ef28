------------------------------ MODULE MCStartup ------------------------------
\* A validator that reads its account's history, one that pins videos, and
\* storage nodes with pins that videos or contracts name as well.
EXTENDS Startup, TLC

CONSTANTS a, b, o

Base == [type |-> 2, hive |-> FALSE, vids |-> FALSE, pin |-> FALSE, offered |-> {},
         contracts |-> {}, pinned |-> {}, recorded |-> {}]

MCLaunches ==
  { [Base EXCEPT !.hive = TRUE],
    [Base EXCEPT !.type = 1, !.vids = TRUE, !.pin = TRUE, !.offered = {a, o},
                 !.pinned = {a}, !.recorded = {a}],
    [Base EXCEPT !.type = 1, !.vids = TRUE, !.pin = TRUE, !.offered = {b}, !.recorded = {b}],
    [Base EXCEPT !.contracts = {a}, !.pinned = {a, o}],
    [Base EXCEPT !.vids = TRUE, !.pin = TRUE, !.offered = {a}, !.pinned = {o},
                 !.recorded = {a, o}] }

\* a lies below o; b has a direct pin.  Beside a, o does not fit; on its own it
\* does, by the slack.
MCSize == (a :> 1) @@ (b :> 1) @@ (o :> 3)
MCBelow == [c \in {a, b, o} |-> IF c = o THEN {a} ELSE {}]
=============================================================================
