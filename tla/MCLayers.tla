------------------------------ MODULE MCLayers -------------------------------
(* The output side of a pod: the markers of the TAK and the SitaWare layer, and *)
(* the popups of the TAK alert layer.  Each is looked at on its own, the other  *)
(* being idle.                                                                  *)
EXTENDS MCMarkers, MCTakAlerts

VARIABLE part       \* which of the two

layersVars == <<part, vars, takVars>>

LayersInit ==
    /\ part \in {"markers", "popups"} /\ Init /\ TakInit
    /\ \A h \in Candidates : up[h]
    /\ part = "popups" => layer = "tak" /\ active = {} /\ cast = {"k", "m"}

LayersNext ==
    \/ part = "markers" /\ Next /\ UNCHANGED <<part, takVars>>
    \/ part = "popups" /\ TakNext /\ UNCHANGED <<part, vars>>

\* The fairness of Markers and of TakAlerts, each for its part.
LayersSpec ==
    /\ LayersInit /\ [][LayersNext]_layersVars
    /\ WF_vars(part = "markers" /\ \E t \in Tracks : Report(t) \/ on_any_track(t) \/ handler(t))
    /\ WF_vars(part = "markers" /\ \E t \in Tracks : SendExtrapolated(t))
    /\ SF_vars(part = "markers" /\ Tick)
    /\ \A c \in Callers : WF_takVars(part = "popups" /\ Calling(c))
    /\ \A w \in Writers : WF_takVars(part = "popups" /\ Writing(w))
    /\ \A u \in Alarms : WF_takVars(part = "popups" /\ alert_handler(u))
    /\ \A u \in Events : WF_takVars(part = "popups" /\ event_handler(u))
=============================================================================
