---------------------------- MODULE MCSensorTrust ----------------------------
(* SensorTrust for TLC: the main sensor, a redundant one and a stranger. *)
EXTENDS SensorTrust

MCReading(source, counter, soc, current) ==
  [source |-> source, counter |-> counter, authenticated |-> TRUE, soc |-> soc,
   voltage |-> 700, current |-> current, temperature |-> 30]

\* Counters in and out of the range; a SOC that rises by the limit and by twice the limit
\* while the battery charges, and falls while it discharges; one reading that fails each
\* other check.
MCReadings ==
  {MCReading("bms", 0, 50, 0), MCReading("bms", 1, 55, 10), MCReading("bms", 1, 60, 10),
   MCReading("bms", 2, 50, -10), MCReading("bms", 3, 50, 0)}
  \cup {MCReading("spare", 0, 52, 0), MCReading("spare", 2, 58, -10)}
  \cup {MCReading("stranger", 0, 50, 0), MCReading("bms", 0, 101, 0),
        [MCReading("bms", 0, 50, 0) EXCEPT !.voltage = 1001],
        [MCReading("bms", 1, 50, 0) EXCEPT !.temperature = 86],
        [MCReading("bms", 1, 50, 0) EXCEPT !.temperature = 33],
        [MCReading("bms", 1, 50, 0) EXCEPT !.voltage = 780],
        [MCReading("bms", 1, 50, 0) EXCEPT !.authenticated = FALSE],
        [MCReading("bms", 0, 15, 0) EXCEPT !.voltage = 760]}

MCTolerance == [f \in Fields |-> IF f = "voltage" THEN 10 ELSE IF f = "current" THEN 15 ELSE 3]
MCMaxAccepted == [s \in Sources |-> IF s = "bms" THEN 3 ELSE 1]

Serves(first, second) == [c \in Callers |-> IF c = "k1" THEN first ELSE second]

\* Every check, and all but plausibility, which lets readings pass without a stamp: by two
\* callers for the main sensor, by one for it and one for the others, and every check by one
\* for all; the demo.
MCSetups ==
  {[required |-> q, serves |-> Serves({"bms"}, s)] :
     q \in {Checks, Checks \ {"plausibility"}}, s \in {{"bms"}, Sources \ {"bms"}}}
  \cup {[required |-> q, serves |-> Serves(Sources, {})] : q \in {Checks, {"range"}}}
=============================================================================
