--------------------------- MODULE MCCacheManager ---------------------------
(***************************************************************************)
(* Constants of CacheManager for TLC.                                      *)
(***************************************************************************)
EXTENDS CacheManager

\* Three packages, of which the largest may exceed the limit on file sizes.
Files3   == {"a", "b", "c"}
Size3    == [f \in Files3 |-> IF f = "a" THEN 1 ELSE IF f = "b" THEN 2 ELSE 3]
Part3    == [f \in Files3 |-> f \o ".tmp"]
Parts3   == {Part3[f] : f \in Files3}

\* Four of one byte: two downloads may fail, one succeed, and one is left when the phase stops.
Files4   == {"a", "b", "c", "d"}
Size4    == [f \in Files4 |-> 1]
Part4    == [f \in Files4 |-> f \o ".tmp"]
Parts4   == {Part4[f] : f \in Files4}

\* Two packages of one and two bytes.
Files2   == {"a", "b"}
Size2    == [f \in Files2 |-> Size3[f]]
Part2    == [f \in Files2 |-> Part3[f]]
Parts2   == {Part2[f] : f \in Files2}

OneTemp  == {".tmp-1"}
TwoDirs  == {"ssd", "hdd"}
TwoTiers == {<<"ssd", "hdd">>}
\* The operator may take the ssd away, or put it back.
TierRemoved == {<<"ssd", "hdd">>, <<"hdd", "ssd">>, <<"hdd">>}

Capacity3 == [d \in TwoDirs |-> IF d = "ssd" THEN 2 ELSE 3]
Roomy     == [d \in TwoDirs |-> 4]
Capacity2 == [d \in TwoDirs |-> IF d = "ssd" THEN 1 ELSE 2]
=============================================================================
