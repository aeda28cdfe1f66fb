----------------------------- MODULE MCTrafficLights -----------------------------
(***************************************************************************)
(* TrafficLights on a cycle of three sequences of four, five and three     *)
(* seconds: the main road, which the buses follow, a turn from it and the  *)
(* side road.  There are 504 ticks to a second, a multiple of the lengths  *)
(* of two sequences, by which those of a return plan are divided.          *)
(***************************************************************************)
EXTENDS TrafficLights

Seconds(n) == 504 * n

Signal(mv, green, orange, delay) ==
    [mv |-> mv, green |-> Seconds(green), orange |-> Seconds(orange), delay |-> Seconds(delay)]

MCPlan ==
    <<[len |-> Seconds(4), signals |-> <<Signal("main", 3, 0, 0)>>],
      [len |-> Seconds(5), signals |-> <<Signal("turn", 3, 1, 0), Signal("main", 2, 0, 0)>>],
      [len |-> Seconds(3), signals |-> <<Signal("side", 2, 0, 0)>>]>>

MCCrossing == {{"main", "side"}, {"turn", "side"}}
MCMovement == [b \in Buses |-> "main"]
MCTotalPriority == [b \in Buses |-> 0]
MCSharedPriority == [b \in Buses |-> 1]

MCEstimates == {Seconds(0), Seconds(7), Seconds(12)}
MCLongEstimates == {Seconds(7), Seconds(12)}
MCVertMin == Seconds(2)
MCDegagement == Seconds(1)
MCDuration == Seconds(40)
MCPeriod == Seconds(5)
MCLastInstant == Seconds(15)
================================================================================
