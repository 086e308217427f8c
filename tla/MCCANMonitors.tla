---------------------------- MODULE MCCANMonitors ----------------------------
(***************************************************************************)
(* The CAN side for TLC: a frame on its way, the timing monitor and the    *)
(* traffic monitor. Nothing in the program connects the three, and every   *)
(* property is about one of them: they are explored side by side, one      *)
(* moving while the others are in their initial states.                    *)
(***************************************************************************)
EXTENDS TimingMonitor, TrafficMonitor, CANCodec

\* A message with a short timeout and one with a longer one.
MCGaps == [id \in PeriodicIds |-> IF id = "soc" THEN 1 ELSE 2]

Measured(soc, voltage, current, temperature) ==
  [soc |-> soc, voltage |-> voltage, current |-> current, temperature |-> temperature]

\* The ends of every range, one half way between two units, and one out of range.
MCSentReadings ==
  {Measured(0, 0, -100000, -4000), Measured(10000, 100000, 100000, 8500),
   Measured(5005, 38493, -1, 2550), Measured(10001, 38490, 0, 2500)}

Plain(id, length) ==
  [id |-> id, data |-> [i \in 1..length |-> {}], dlc |-> length, fd |-> FALSE,
   extended |-> FALSE, crcValid |-> "unset", mac |-> "none"]

\* Other senders' frames, and what the fuzzer mixes in: wrong identifiers and lengths.
MCForeignFrames ==
  {Plain(384, 8), Plain(384, 7), Plain(385, 8), Plain(2048, 8), Plain(-1, 8),
   [Plain(384, 8) EXCEPT !.dlc = 7], [Plain(384, 12) EXCEPT !.fd = TRUE, !.dlc = 9],
   [Plain(384, 8) EXCEPT !.fd = TRUE], [Plain(2048, 8) EXCEPT !.extended = TRUE],
   [Plain(384, 8) EXCEPT !.crcValid = "invalid"]}

MonitorsInit == TimingInit /\ TrafficInit /\ CodecInit

MonitorsNext ==
  \/ TrafficInit /\ CodecInit /\ TimingNext /\ UNCHANGED <<trafficVars, codecVars>>
  \/ TimingInit /\ CodecInit /\ TrafficNext /\ UNCHANGED <<timingVars, codecVars>>
  \/ TimingInit /\ TrafficInit /\ CodecNext /\ UNCHANGED <<timingVars, trafficVars>>

MonitorsSpec == MonitorsInit /\ [][MonitorsNext]_<<timingVars, trafficVars, codecVars>>
=============================================================================
