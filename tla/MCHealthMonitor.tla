--------------------------- MODULE MCHealthMonitor ---------------------------
(***************************************************************************)
(* HealthMonitor on one capture of any kind, and on the two captures of    *)
(* one alert.                                                              *)
(***************************************************************************)
EXTENDS HealthMonitor

EachItsAlert == [c \in Captures |-> c]
NoHeartbeat ==
  {[Healthy EXCEPT !.heartbeat = "missing", !.browser = "stale", !.channels = "degraded"]}
OneChannel == [c \in Captures |-> "#options"]

=============================================================================
