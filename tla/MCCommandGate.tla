---------------------------- MODULE MCCommandGate ----------------------------
(* CommandGate for TLC: a controller with every permission and a sensor. *)
EXTENDS CommandGate

MCPermissions == [s \in {"control", "sensor"} |->
                    IF s = "control" THEN CommandType ELSE {"OPEN_CONTACTOR"}]

Request(type, source, counter, timestamp) ==
  [type |-> type, source |-> source, counter |-> counter, authenticated |-> TRUE,
   timestamp |-> timestamp, inRange |-> TRUE]

\* Commands of both sources in and out of order, of every kind of state precondition, and
\* one that is refused for each other reason.
MCRequests ==
  {Request("OPEN_CONTACTOR", s, c, 0) : s \in {"control", "sensor", "unknown"}, c \in 0..1}
  \cup {Request("CLOSE_CONTACTOR", "control", 2, 0), Request("CLOSE_CONTACTOR", "sensor", 1, 0),
        Request("ENABLE_CHARGE", "control", 1, 1), Request("CLEAR_FAULT", "control", 2, 1),
        Request("ENTER_SERVICE", "control", 2, 1)}
  \cup {[Request("SET_POWER_LIMIT", "control", 1, 1) EXCEPT !.inRange = FALSE],
        [Request("RESET", "control", 1, 1) EXCEPT !.authenticated = FALSE]}
=============================================================================
