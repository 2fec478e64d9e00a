----------------------------- MODULE MCTakAlerts ------------------------------
(* A regional alert, a sensor and an event, each of a subscriber of its own.   *)
EXTENDS TakAlerts

MCCaller == [u \in {"region", "sensor", "event"} |-> u]
MCRises == [u \in Alarms \cup Events |-> IF u = "region" THEN 2 ELSE 1]
MCOnce == [u \in Alarms \cup Events |-> 1]
=============================================================================
