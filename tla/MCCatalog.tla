------------------------------ MODULE MCCatalog ------------------------------
(* Two cities, two versions of the first one's extract (a way goes and one  *)
(* comes), a run of the first city, and two layers that share a crash, the  *)
(* first of two pages.                                                      *)
EXTENDS Catalog

CONSTANTS here, there, r1

MCWays ==
  [c \in City |-> IF c = here THEN <<{"a"}, {"b"}>> ELSE <<{"x"}>>]
MCLastVersion == [c \in City |-> IF c = here THEN 2 ELSE 1]
MCCityOf == [r \in Run |-> here]
MCLayer == <<<<"k1", "k2", "k3">>, <<"k1">>>>
MCLocated == {"k1", "k3"}
MCAt == [k \in Crash |-> CASE k = "k1" -> 2 [] k = "k2" -> 9 [] k = "k3" -> 5]
=============================================================================
