------------------------------ MODULE MCUserEngine ------------------------------
(***************************************************************************)
(* UserEngine on four trips of two populations, which depart in different  *)
(* steps; one cannot be carried.  A walk is shorter than the step, and the *)
(* paths chain walks and simulators.                                       *)
(***************************************************************************)
EXTENDS UserEngine

MCPopulation == [t \in Trips |-> IF t >= 3 THEN "buses" ELSE "cars"]
MCDeparture == [t \in Trips |-> IF t = 1 THEN 1 ELSE IF t = 2 THEN 2 ELSE IF t = 3 THEN 0 ELSE 3]
MCPlans == {<<"ext">>, <<"walk", "ext">>, <<"walk", "walk", "ext">>}
================================================================================
