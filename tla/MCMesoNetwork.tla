------------------------------ MODULE MCMesoNetwork ------------------------------
(***************************************************************************)
(* Two mesoscopic links, one from the entry o and one that a microscopic   *)
(* street feeds at node p, meet at node m, from where a mesoscopic link    *)
(* leads to the exit x and a microscopic street leaves.                    *)
(***************************************************************************)
EXTENDS MesoNetwork

CONSTANTS o, m, p, x, city, linkA, linkB, linkC, streetU, streetD

MCNodes == {o, m, p, x}
MCMeso == {linkA, linkB, linkC}
MCLinks == MCMeso \cup {streetU, streetD}
MCFrom == (linkA :> o) @@ (linkB :> p) @@ (linkC :> m) @@ (streetD :> m) @@ (streetU :> city)
MCTo == (linkA :> m) @@ (linkB :> m) @@ (linkC :> x) @@ (streetD :> city) @@ (streetU :> p)
MCVehicles == 1..6
MCRoute ==
    [v \in MCVehicles |-> CASE v = 1 -> <<streetU, linkB, linkC>>
                            [] v = 6 -> <<linkA, streetD>>
                            [] OTHER -> <<linkA, linkC>>]
MCDepartures == [v \in MCVehicles |-> IF v \in {2, 3, 4} THEN {2 * v, 2 * v + 2} ELSE {2 * v}]
MCCross == [l \in MCMeso |-> CASE l = linkA -> 7 [] l = linkB -> 1 [] l = linkC -> 4]
MCWave == [l \in MCMeso |-> 1]
MCRoom == [l \in MCMeso |-> IF l = linkC THEN 2 ELSE 1]

\* Short links, and as many vehicles from the street as from the entry.
MCShort == [l \in MCMeso |-> 1]
MCShortRoute ==
    [v \in MCVehicles |-> IF v % 2 = 1 THEN <<streetU, linkB, linkC>> ELSE <<linkA, linkC>>]
================================================================================
