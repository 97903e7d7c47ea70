------------------------- MODULE MCArrayRegistry -------------------------
(***************************************************************************)
(* Small instances of ArrayRegistry for TLC.  Two GlobalIDs and two hosts; *)
(* the array entries below are the ones the configs are made of.           *)
(***************************************************************************)
EXTENDS ArrayRegistry

CONSTANTS g1, g2, h1, h2

MCGIDs == {g1, g2}
MCHosts == {h1, h2}

\* An array on h1, one flagged default on h2, the second array moved to
\* h1, and an entry without GlobalID.
E1 == [gid |-> g1, host |-> h1, isDefault |-> FALSE, clientOK |-> TRUE]
E2 == [gid |-> g2, host |-> h2, isDefault |-> TRUE, clientOK |-> TRUE]
E2Moved == [gid |-> g2, host |-> h1, isDefault |-> FALSE, clientOK |-> TRUE]
ENoID == [gid |-> NoGID, host |-> h2, isDefault |-> FALSE, clientOK |-> TRUE]
ENoClient == [gid |-> g2, host |-> h2, isDefault |-> FALSE, clientOK |-> FALSE]

\* Well-formed configs and configs that must be refused.
MCConfigsGood == {<<E1>>, <<E1, E2>>, <<E2Moved>>, <<>>,
                  <<E1, ENoID>>, <<ENoClient, E1>>}

\* Two configs that move GlobalID g2 onto host h1.
MCConfigsMove == {<<E1, E2>>, <<E2Moved>>}

\* A config whose YAML list has a null element in the middle.
MCConfigsNil == {<<E1>>, <<E1, NilEntry, E2>>}

=============================================================================
