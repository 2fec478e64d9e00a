---------------------------- MODULE FeedsProofs ----------------------------
(***************************************************************************)
(* Theorems about Feeds for any items, any lifetimes and cache ages, and   *)
(* any number of changes of the services.                                  *)
(*                                                                         *)
(* The action properties of Feeds compare what a poll decides with what    *)
(* the polls before it did, so they need an invariant that remembers it:   *)
(*   SoundInv    only sound items were ever put or found online;           *)
(*   FromMemory  DeepState and GeoConfirmed have the document in memory    *)
(*               that lists what they drew, and GeoConfirmed's placemarks  *)
(*               stay among the newest of it as others grow old;           *)
(*   LifeInv     after a poll without an outage every marker outlives the  *)
(*               next tick, the refresh interval of the zones included;    *)
(*   TellInv     what was announced is still drawn, and known unless the   *)
(*               last poll was in an outage.                               *)
(* Around it, SoundDecision says what any of the thirteen bridges decides, *)
(* and ListedIsDrawn that the decision has every item still listed.        *)
(***************************************************************************)
EXTENDS Feeds, FiniteSetTheorems, TLAPS

\* The items that a builder lets through.
SoundItems == {i \in Items : i[2] \notin Unsound[bridge]}

\* Only sound items are on record, and only dronuradaras has a second thread.
SoundInv ==
    /\ published \subseteq SoundItems /\ ready \subseteq SoundItems
    /\ ready # {} => bridge = "devices"

\* The bridges that build from the document in memory drew what it lists, or the
\* newest of what it lists.
FromMemory ==
    /\ bridge = "deepstate" =>
         \A i \in published : held["map"] # None /\ i[2] \in held["map"].ids
    /\ bridge = "geoconfirmed" =>
         \A i \in published :
            /\ held["world"] # None
            /\ i \in aged \/ i[2] \in Newest(Fresh("world", held["world"].ids))

\* A dead process has nothing on record; a good poll leaves a tick to spare.
LifeInv ==
    /\ ~alive => published = {}
    /\ polled /\ calm /\ bridge \notin Sparse => \A i \in published : drawn[i] >= 2

\* Announced items are drawn, and known after a poll that fetched everything.
TellInv ==
    /\ \A i \in Items : told[i] > 0 => bridge = "community" /\ i \in published
    /\ bridge = "community" /\ calm => seen = [set |-> published]

\* The inductive invariant.
FeedInv == FeedsTypeOK /\ SoundInv /\ FromMemory /\ LifeInv /\ TellInv

-----------------------------------------------------------------------------
(* What a poll decides.                                                      *)

\* A document, a decision and a set of known items are not None.
LEMMA Records ==
    /\ \A S : [ids |-> S] # None /\ [ids |-> S].ids = S
    /\ \A S : [put |-> S] # None /\ [put |-> S].put = S
    /\ \A S : [set |-> S] # None /\ [set |-> S].set = S
<1>1. DOMAIN None = {"none"}
    BY DEF None
<1>2. \A S : DOMAIN [ids |-> S] = {"ids"} /\ DOMAIN [put |-> S] = {"put"} /\ DOMAIN [set |-> S] = {"set"}
    OBVIOUS
<1>3. "none" # "ids" /\ "none" # "put" /\ "none" # "set"
    OBVIOUS
<1> QED
    BY <1>1, <1>2, <1>3

\* The documents of each bridge.
LEMMA DocsOf ==
    /\ bridge = "mapa" => Docs = {"objects"}
    /\ bridge = "deepstate" => Docs = {"map"}
    /\ bridge = "geoconfirmed" => Docs = {"world"}
    /\ bridge = "dronestrikemap" => Docs = {"day", "alerts"}
    /\ bridge = "community" => Docs = {"reports", "incidents"}
    /\ bridge \in {"alerts", "zones"} => Docs = {"site", "direct", "added"}
    /\ bridge = "threats" => Docs = {"threats"}
    /\ bridge = "aircraft" => Docs = {"aircraft"}
    /\ bridge = "devices" => Docs = {"devices"}
    /\ bridge = "sitaware" => Docs = {"units"}
    /\ bridge = "clients" => Docs = {"events"}
    /\ bridge = "forecast" => Docs = {"forecast"}
    BY DEF Docs, Documents

\* The bridges there are.
LEMMA Bridges ==
    ASSUME FeedsTypeOK
    PROVE bridge \in {"mapa", "deepstate", "geoconfirmed", "dronestrikemap", "community",
      "alerts", "zones", "threats", "aircraft", "devices", "sitaware", "clients", "forecast"}
    BY DEF FeedsTypeOK, Documents

\* A builder that leaves out unsound records returns sound items.
LEMMA Products ==
    ASSUME NEW d \in Docs, NEW S \in SUBSET Ids
    PROVE /\ Of(d, Sound(S)) \subseteq SoundItems
          /\ Current(d, S) \subseteq SoundItems
          /\ Of(d, Newest(Fresh(d, S))) \subseteq SoundItems
    BY DEF Of, Sound, Current, Fresh, Newest, SoundItems, Items

\* What is among the newest of more items is among the newest of fewer.
LEMMA StaysNewest ==
    ASSUME NEW T \in SUBSET Ids, NEW S \in SUBSET T, NEW k \in S, k \in Newest(T)
    PROVE  k \in Newest(S)
<1> DEFINE above(X) == {n \in X : n > k}
<1>1. IsFiniteSet(above(T)) /\ above(S) \subseteq above(T)
    <2>1. IsFiniteSet(Ids) /\ above(T) \subseteq Ids
        BY FeedBounds
    <2>2. IsFiniteSet(above(T))
        BY <2>1, FS_Subset
    <2> QED
        BY <2>2
<1>2. /\ Cardinality(above(S)) \in Nat /\ Cardinality(above(T)) \in Nat
      /\ Cardinality(above(S)) <= Cardinality(above(T))
    <2>1. IsFiniteSet(above(S))
        BY <1>1, FS_Subset
    <2> QED
        BY <1>1, <2>1, FS_Subset, FS_CardinalityType
<1>3. Cardinality(above(T)) < MaxMarkers
    BY DEF Newest
<1>4. Cardinality(above(S)) < MaxMarkers
    <2> HIDE DEF above
    <2> QED
        BY <1>2, <1>3, FeedBounds
<1> QED
    BY <1>4 DEF Newest

\* Each bridge decides by its own main loop.
LEMMA DecisionOf ==
    /\ bridge = "mapa" => Decision = mapa_main
    /\ bridge = "deepstate" => Decision = deepstate_main
    /\ bridge = "geoconfirmed" => Decision = geoconfirmed_main
    /\ bridge = "dronestrikemap" => Decision = dronestrikemap_main
    /\ bridge = "community" => Decision = publish_community
    /\ bridge \in {"alerts", "zones"} => Decision = compose_alerts
    /\ bridge = "threats" => Decision = IfFetched("threats", threat_tracks(up["threats"]))
    /\ bridge = "aircraft" => Decision = IfFetched("aircraft", aircraft_tracks(up["aircraft"]))
    /\ bridge = "devices" => Decision = IfFetched("devices", online_ids(up["devices"]))
    /\ bridge = "sitaware" => Decision = IfFetched("units", normalise_unit(up["units"]))
    /\ bridge = "clients" => Decision = due_republish
    /\ bridge = "forecast" => Decision = IfFetched("forecast", nearest_future(up["forecast"]))
    BY DEF Decision

\* The poll wants exactly the items S on the map.
Decides(S) == Decision = [put |-> S]

\* A bridge of one document that does nothing when it cannot fetch it.
LEMMA OneDocument ==
    ASSUME FeedsTypeOK,
           bridge \in {"threats", "aircraft", "devices", "sitaware", "forecast"}
    PROVE  \/ Decision = None /\ down # {}
           \/ \E S \in SUBSET SoundItems : Decides(S)
<1> USE DecisionOf, DocsOf, Products DEF IfFetched, Decides, FeedsTypeOK
<1>1. CASE bridge = "threats"
    BY <1>1 DEF threat_tracks
<1>2. CASE bridge = "aircraft"
    BY <1>2 DEF aircraft_tracks
<1>3. CASE bridge = "devices"
    BY <1>3 DEF online_ids
<1>4. CASE bridge = "sitaware"
    BY <1>4 DEF normalise_unit
<1>5. CASE bridge = "forecast"
    BY <1>5 DEF nearest_future
<1> QED
    BY <1>1, <1>2, <1>3, <1>4, <1>5

\* MAPA, and the bridges that build from a document or events in memory.
LEMMA FromMaps ==
    ASSUME FeedsTypeOK, bridge \in {"mapa", "deepstate", "geoconfirmed", "clients"}
    PROVE  \/ Decision = None /\ down # {}
           \/ \E S \in SUBSET SoundItems : Decides(S)
<1>1. CASE bridge = "mapa"
    <2>1. "objects" \in Docs /\ up["objects"] \in SUBSET Ids
        BY <1>1, DocsOf DEF FeedsTypeOK
    <2>2. Current("objects", up["objects"]) \ merged \in SUBSET SoundItems
        BY <2>1, Products
    <2> QED
        BY <1>1, <2>2, DecisionOf DEF mapa_main, object_tracks, Decides
<1>2. CASE bridge = "deepstate"
    <2> DEFINE S == IF cached = None THEN {} ELSE map_tracks(cached.ids)
    <2>1. "map" \in Docs /\ up["map"] \in SUBSET Ids
        BY <1>2, DocsOf DEF FeedsTypeOK
    <2>2. cached # None => cached.ids \in SUBSET Ids
        BY <2>1, Records DEF cached, FeedsTypeOK
    <2>3. S \in SUBSET SoundItems
        BY <2>1, <2>2, Products DEF map_tracks
    <2>4. Decision = [put |-> S]
        BY <1>2, DecisionOf DEF deepstate_main
    <2> QED
        BY <2>3, <2>4 DEF Decides
<1>3. CASE bridge = "geoconfirmed"
    <2> DEFINE doc == IF down = {} THEN Fetched("world") ELSE held["world"]
    <2>1. "world" \in Docs /\ up["world"] \in SUBSET Ids
        BY <1>3, DocsOf DEF FeedsTypeOK
    <2>2. /\ doc # None => doc.ids \in SUBSET Ids
          /\ down = {} => doc # None
        <3>1. CASE down = {}
            BY <2>1, <3>1, Records DEF Fetched
        <3>2. CASE down # {}
            BY <2>1, <3>2 DEF FeedsTypeOK
        <3> QED
            BY <3>1, <3>2
    <2>3. Decision = IF doc = None THEN None ELSE [put |-> event_tracks(doc.ids)]
        BY <1>3, DecisionOf DEF geoconfirmed_main
    <2> HIDE DEF doc
    <2>4. doc # None => event_tracks(doc.ids) \in SUBSET SoundItems
        BY <2>1, <2>2, Products DEF event_tracks
    <2> QED
        BY <2>2, <2>3, <2>4 DEF Decides
<1>4. CASE bridge = "clients"
    <2> DEFINE before == IF held["events"] = None THEN {} ELSE held["events"].ids
               heard == before \cup (IF down = {} THEN up["events"] ELSE {})
    <2>1. "events" \in Docs /\ up["events"] \in SUBSET Ids /\ before \in SUBSET Ids
        BY <1>4, DocsOf DEF FeedsTypeOK
    <2>2. heard \in SUBSET Ids
        BY <2>1
    <2>3. Decision = [put |-> _normalize_event(heard)]
        BY <1>4, DecisionOf DEF due_republish
    <2> HIDE DEF heard
    <2>4. _normalize_event(heard) \in SUBSET SoundItems
        BY <2>1, <2>2, Products DEF _normalize_event
    <2> QED
        BY <2>3, <2>4 DEF Decides
<1> QED
    BY <1>1, <1>2, <1>3, <1>4

\* The bridges that put several documents together.
LEMMA FromSeveral ==
    ASSUME FeedsTypeOK, SoundInv, bridge \in {"dronestrikemap", "community", "alerts", "zones"}
    PROVE  \/ Decision = None /\ down # {}
           \/ \E S \in SUBSET SoundItems : Decides(S)
<1>1. CASE bridge = "dronestrikemap"
    <2> DEFINE strikes == IF "day" \in down THEN {i \in published : i[1] = "day"} \ aged
                                            ELSE strike_tracks(up["day"])
               alerts == IF "alerts" \in down THEN {} ELSE up["alerts"]
               S == strikes \cup region_zone_tracks(alerts, strikes)
    <2>1. /\ "day" \in Docs /\ up["day"] \in SUBSET Ids
          /\ "alerts" \in Docs /\ up["alerts"] \in SUBSET Ids
        BY <1>1, DocsOf DEF FeedsTypeOK
    <2>2. S \in SUBSET SoundItems
        <3>1. strikes \in SUBSET SoundItems /\ alerts \in SUBSET Ids
            BY <2>1, Products DEF SoundInv, strike_tracks
        <3> HIDE DEF strikes, alerts
        <3>2. Sound(alerts) \cup {i[2] : i \in strikes} \subseteq Ids \ Unsound[bridge]
            BY <3>1 DEF Sound, SoundItems, Items
        <3>3. region_zone_tracks(alerts, strikes) \subseteq SoundItems
            BY <2>1, <3>2 DEF region_zone_tracks, Of, SoundItems, Items
        <3> QED
            BY <3>1, <3>3
    <2>3. Decision = [put |-> published] \/ Decision = [put |-> S]
        BY <1>1, DecisionOf DEF dronestrikemap_main
    <2> HIDE DEF S
    <2> QED
        BY <2>2, <2>3 DEF Decides, SoundInv
<1>2. CASE bridge = "community"
    <2> DEFINE part(d) == IF d \in down THEN {i \in published : i[1] = d}
                          ELSE IF d = "reports" THEN drone_report_tracks(up[d])
                          ELSE incident_marker_tracks(up[d])
    <2>1. \A d \in Docs : part(d) \in SUBSET SoundItems
        BY <1>2, DocsOf, Products DEF SoundInv, FeedsTypeOK, drone_report_tracks, incident_marker_tracks
    <2>2. Decision = [put |-> UNION {part(d) : d \in Docs}]
        BY <1>2, DecisionOf DEF publish_community
    <2> HIDE DEF part
    <2>3. UNION {part(d) : d \in Docs} \in SUBSET SoundItems
        BY <2>1
    <2> QED
        BY <2>2, <2>3 DEF Decides
<1>3. CASE bridge \in {"alerts", "zones"}
    <2> DEFINE all == UNION {Built(d, SourceCache(d)) : d \in Docs}
               S == {i \in all : ~Covered(i)}
    <2>1. ASSUME NEW d \in Docs
          PROVE  Built(d, SourceCache(d)) \in SUBSET SoundItems
        <3>1. SourceCache(d) # None => SourceCache(d).ids \in SUBSET Ids
            BY Records DEF SourceCache, Fetched, FeedsTypeOK
        <3>2. d \in {"site", "direct", "added"}
            BY <1>3, DocsOf
        <3> QED
            BY <3>1, <3>2, Products DEF Built, active_alerts, neptun_alerts, rso_alerts
    <2>2. S \in SUBSET SoundItems
        BY <2>1
    <2>3. \A d \in Docs : d \notin down => SourceCache(d) # None
        BY Records DEF SourceCache, Fetched
    <2>4. down = {} => ~(\A d \in Docs : SourceCache(d) = None)
        BY <1>3, <2>3, DocsOf
    <2>5. Decision = IF \A d \in Docs : SourceCache(d) = None THEN None ELSE [put |-> S]
        BY <1>3, DecisionOf DEF compose_alerts
    <2> HIDE DEF S
    <2> QED
        BY <2>2, <2>4, <2>5 DEF Decides
<1> QED
    BY <1>1, <1>2, <1>3

\* What a poll decides to draw are sound items; without an outage it decides.
LEMMA SoundDecision ==
    ASSUME FeedsTypeOK, SoundInv
    PROVE  \/ Decision = None /\ down # {}
           \/ Decision # None /\ Decision.put \in SUBSET SoundItems /\ Decides(Decision.put)
<1>1. \/ Decision = None /\ down # {}
      \/ \E S \in SUBSET SoundItems : Decides(S)
    BY Bridges, OneDocument, FromMaps, FromSeveral
<1> QED
    BY <1>1, Records DEF Decides

-----------------------------------------------------------------------------
(* The invariant.                                                            *)

\* The numbers a behaviour depends on.
LEMMA Numbers ==
    /\ StaleAfter \in Nat /\ RefreshEvery \in Nat /\ CacheLife \in Nat /\ MaxTold \in Nat
    /\ 2 <= StaleAfter /\ 1 <= RefreshEvery /\ RefreshEvery < StaleAfter
    BY FeedBounds

\* A bridge that has just started.
LEMMA InitInv == Init => FeedInv
<1> SUFFICES ASSUME Init PROVE FeedInv
    OBVIOUS
<1>1. FeedsTypeOK
    <2>1. \A n \in Nat : 0 \in 0 .. n
        OBVIOUS
    <2>2. /\ kept \in [Docs -> 0 .. CacheLife + 1]
          /\ told \in [Items -> 0 .. MaxTold] /\ drawn \in [Items -> 0 .. StaleAfter]
        BY <2>1, Numbers DEF Init
    <2>3. up \in [Docs -> SUBSET Ids] /\ \A d \in Docs : held[d] = None
        BY DEF Init
    <2> QED
        BY <2>2, <2>3, ObservedBridges DEF Init, FeedsTypeOK
<1>2. SoundInv /\ FromMemory /\ LifeInv
    BY DEF Init, SoundInv, FromMemory, LifeInv
<1>3. TellInv
    BY DEF Init, TellInv
<1> QED
    BY <1>1, <1>2, <1>3 DEF FeedInv

\* Docs and Items depend on the bridge only, which never changes.
LEMMA SameBridge ==
    ASSUME bridge' = bridge
    PROVE  Docs' = Docs /\ Items' = Items /\ SoundItems' = SoundItems
    BY DEF Docs, Items, SoundItems

\* FromMemory is about these variables only.
LEMMA SameMemory ==
    ASSUME FromMemory, UNCHANGED <<bridge, published, held, aged>>
    PROVE  FromMemory'
    BY DEF FromMemory, Newest, Fresh, Sound

\* A step that leaves the bridge's memory and the map alone.
LEMMA ServiceStep ==
    ASSUME FeedInv,
           UNCHANGED <<bridge, memory, drawn, polled, calm, alive, ready>>,
           up' \in [Docs -> SUBSET Ids], aged' \subseteq Items, aged \subseteq aged',
           merged' \subseteq Items, down' \subseteq Docs
    PROVE  FeedInv'
<1> USE SameBridge DEF memory
<1>1. FeedsTypeOK'
    BY DEF FeedInv, FeedsTypeOK
<1>2. SoundInv' /\ LifeInv' /\ TellInv'
    BY DEF FeedInv, SoundInv, LifeInv, TellInv
<1>3. FromMemory'
    <2>1. CASE bridge # "geoconfirmed"
        BY <2>1 DEF FeedInv, FromMemory
    <2>2. CASE bridge = "geoconfirmed"
        <3> DEFINE T == Fresh("world", held["world"].ids)
                   S == {k \in Sound(held["world"].ids) : <<"world", k>> \notin aged'}
        <3>1. ASSUME NEW i \in published, i \notin aged'
              PROVE  held["world"] # None /\ i[2] \in Newest(S)
            <4>1. held["world"] # None /\ i[2] \in Newest(T)
                BY <2>2, <3>1 DEF FeedInv, FromMemory
            <4>2. i = <<"world", i[2]>>
                BY <2>2, DocsOf DEF FeedInv, SoundInv, SoundItems, Items
            <4>3. T \in SUBSET Ids /\ S \in SUBSET T
                BY <2>2, <4>1, DocsOf DEF FeedInv, FeedsTypeOK, Fresh, Sound
            <4>4. i[2] \in S
                BY <3>1, <4>1, <4>2 DEF Newest, Fresh
            <4> HIDE DEF S, T
            <4> QED
                BY <4>1, <4>3, <4>4, StaysNewest
        <3>2. \A i \in published : held["world"] # None
            BY <2>2 DEF FeedInv, FromMemory
        <3>3. held' = held /\ published' = published /\ bridge' = bridge
            OBVIOUS
        <3>4. Fresh("world", held["world"].ids)' = S
            BY <3>3 DEF Fresh, Sound
        <3>5. Newest(Fresh("world", held["world"].ids))' = Newest(S)
            BY <3>4 DEF Newest
        <3> HIDE DEF S, T
        <3> QED
            BY <2>2, <3>1, <3>2, <3>3, <3>5 DEF FromMemory
    <2> QED
        BY <2>1, <2>2
<1> QED
    BY <1>1, <1>2, <1>3 DEF FeedInv

\* The services list, age, match and fail.
LEMMA ServiceActions ==
    ASSUME FeedInv,
           \/ \E d \in Docs : Outage(d) \/ \E k \in Ids : List(d, k)
           \/ \E k \in Ids : Match(k)
           \/ \E i \in Items : Age(i)
    PROVE  FeedInv'
<1>0. /\ up \in [Docs -> SUBSET Ids] /\ aged \subseteq Items
      /\ merged \subseteq Items /\ down \subseteq Docs
    BY DEF FeedInv, FeedsTypeOK
<1>1. ASSUME NEW d \in Docs, Outage(d) PROVE FeedInv'
    BY <1>0, <1>1, ServiceStep DEF Outage
<1>2. ASSUME NEW d \in Docs, NEW k \in Ids, List(d, k) PROVE FeedInv'
    <2>1. up' \in [Docs -> SUBSET Ids]
        BY <1>0, <1>2 DEF List
    <2> QED
        BY <1>0, <1>2, <2>1, ServiceStep DEF List
<1>3. ASSUME NEW k \in Ids, Match(k) PROVE FeedInv'
    <2>1. <<"objects", k>> \in Items
        BY <1>3, DocsOf DEF Match, Items
    <2> QED
        BY <1>0, <1>3, <2>1, ServiceStep DEF Match
<1>4. ASSUME NEW i \in Items, Age(i) PROVE FeedInv'
    BY <1>0, <1>4, ServiceStep DEF Age
<1> QED
    BY <1>1, <1>2, <1>3, <1>4

\* run_detections of dronuradaras.
LEMMA SecondThread ==
    ASSUME FeedInv, NEW i \in Items, FindOnline(i) \/ PutAlert(i)
    PROVE  FeedInv'
<1> USE SameBridge, Numbers DEF memory, service
<1>1. CASE FindOnline(i)
    <2>1. FeedsTypeOK'
        BY <1>1 DEF FeedInv, FeedsTypeOK, FindOnline
    <2>2. SoundInv'
        BY <1>1 DEF FeedInv, SoundInv, FindOnline
    <2>3. FromMemory' /\ LifeInv' /\ TellInv'
        BY <1>1, SameMemory DEF FeedInv, LifeInv, TellInv, FindOnline
    <2> QED
        BY <2>1, <2>2, <2>3 DEF FeedInv
<1>2. CASE PutAlert(i)
    <2>1. drawn' \in [Items -> 0 .. StaleAfter] /\ drawn'[i] = StaleAfter /\ \A j \in Items : j # i => drawn'[j] = drawn[j]
        BY <1>2 DEF FeedInv, FeedsTypeOK, PutAlert
    <2>2. FeedsTypeOK'
        BY <1>2, <2>1 DEF FeedInv, FeedsTypeOK, PutAlert
    <2>3. SoundInv'
        BY <1>2 DEF FeedInv, SoundInv, PutAlert
    <2>4. FromMemory' /\ TellInv'
        BY <1>2, SameMemory DEF FeedInv, TellInv, PutAlert
    <2>5. LifeInv'
        BY <1>2, <2>1 DEF FeedInv, FeedsTypeOK, LifeInv, PutAlert
    <2> QED
        BY <2>2, <2>3, <2>4, <2>5 DEF FeedInv
<1> QED
    BY <1>1, <1>2

\* Time, a kill and a restart.
LEMMA ClockAndProcess ==
    ASSUME FeedInv, Tick \/ Crash \/ Restart
    PROVE  FeedInv'
<1> USE SameBridge, Numbers DEF memory, service
<1>1. CASE Tick
    <2>1. drawn' \in [Items -> 0 .. StaleAfter]
        BY <1>1 DEF FeedInv, FeedsTypeOK, Tick
    <2>2. kept' \in [Docs -> 0 .. CacheLife + 1]
        BY <1>1 DEF FeedInv, FeedsTypeOK, Tick, Older
    <2>3. FeedsTypeOK'
        BY <1>1, <2>1, <2>2 DEF FeedInv, FeedsTypeOK, Tick
    <2>4. FromMemory'
        BY <1>1, SameMemory DEF FeedInv, Tick
    <2>5. SoundInv' /\ LifeInv' /\ TellInv'
        BY <1>1 DEF FeedInv, SoundInv, LifeInv, TellInv, Tick
    <2> QED
        BY <2>3, <2>4, <2>5 DEF FeedInv
<1>2. CASE Crash
    <2>1. FeedsTypeOK'
        <3>1. \A n \in Nat : 0 \in 0 .. n
            OBVIOUS
        <3>2. kept' \in [Docs -> 0 .. CacheLife + 1] /\ told' \in [Items -> 0 .. MaxTold]
            BY <1>2, <3>1 DEF Crash
        <3>3. \A d \in Docs : held'[d] = None
            BY <1>2 DEF Crash
        <3> QED
            BY <1>2, <3>2, <3>3 DEF FeedInv, FeedsTypeOK, Crash
    <2>2. SoundInv' /\ FromMemory' /\ LifeInv'
        BY <1>2 DEF FeedInv, SoundInv, FromMemory, LifeInv, Crash
    <2>3. TellInv'
        BY <1>2 DEF FeedInv, TellInv, Crash
    <2> QED
        BY <2>1, <2>2, <2>3 DEF FeedInv
<1>3. CASE Restart
    <2>1. FeedsTypeOK'
        BY <1>3 DEF FeedInv, FeedsTypeOK, Restart
    <2>2. SoundInv' /\ FromMemory' /\ LifeInv' /\ TellInv'
        BY <1>3, SameMemory DEF FeedInv, SoundInv, LifeInv, TellInv, Restart
    <2> QED
        BY <2>1, <2>2 DEF FeedInv
<1> QED
    BY <1>1, <1>2, <1>3

\* What a poll that decides does to the bridge's record and to the map.
Drops(now) == IF Retracts THEN published \ now ELSE {}
Announces(now) == IF bridge = "community" /\ seen # None THEN now \ seen.set ELSE {}

\* The effect of a poll, given what it decides.
LEMMA PollEffect ==
    ASSUME Poll, NEW now, Decides(now)
    PROVE  /\ published' = now /\ seen' = known(now)
           /\ told' = [i \in Items |-> IF i \in Announces(now) /\ told[i] < MaxTold THEN told[i] + 1
                                       ELSE IF i \in Drops(now) THEN 0 ELSE told[i]]
           /\ drawn' = [i \in Items |-> IF i \in Due(now) THEN Lifetime
                                        ELSE IF i \in Drops(now) THEN 0 ELSE drawn[i]]
<1>1. Decision # None /\ Decision.put = now
    BY Records DEF Decides
<1> QED
    BY <1>1 DEF Poll, Drops, Announces

\* A poll keeps types, and puts sound items only.
LEMMA PollTypes ==
    ASSUME FeedInv, Poll
    PROVE  FeedsTypeOK' /\ SoundInv'
<1> USE SameBridge, Numbers DEF service
<1>0. FeedsTypeOK /\ SoundInv /\ bridge' = bridge
    BY DEF FeedInv, Poll
<1>1. kept' \in [Docs -> 0 .. CacheLife + 1]
    BY <1>0 DEF FeedsTypeOK, Poll
<1>2. \A d \in Docs : held'[d] = None \/ held'[d].ids \subseteq Ids
    <2> SUFFICES ASSUME NEW d \in Docs PROVE held'[d] = None \/ held'[d].ids \subseteq Ids
        OBVIOUS
    <2>1. CASE bridge = "clients"
        <3>1. Decision = due_republish /\ due_republish # None
            BY <2>1, DecisionOf, Records DEF due_republish
        <3>2. due_republish.put \in SUBSET SoundItems
            BY <1>0, <3>1, SoundDecision
        <3>3. {i[2] : i \in due_republish.put} \subseteq Ids
            BY <3>2 DEF SoundItems, Items
        <3>4. held'[d] = [ids |-> {i[2] : i \in due_republish.put}]
            BY <2>1 DEF Poll, Remembers
        <3> QED
            BY <3>3, <3>4, Records
    <2>2. CASE bridge = "deepstate"
        <3>1. held'[d] = cached /\ d = "map"
            BY <2>2, DocsOf DEF Poll, Remembers
        <3>2. CASE d \in down
            BY <1>0, <3>1, <3>2 DEF FeedsTypeOK, cached
        <3>3. CASE d \notin down
            <4>1. held'[d] = [ids |-> IF TooOld THEN {} ELSE up[d]]
                BY <3>1, <3>3 DEF cached
            <4> QED
                BY <1>0, <4>1, Records DEF FeedsTypeOK
        <3> QED
            BY <3>2, <3>3
    <2>3. CASE bridge \notin {"clients", "deepstate"}
        <3>1. held'[d] = IF d \in down THEN held[d] ELSE [ids |-> up[d]]
            BY <2>3 DEF Poll, Remembers, Fetched
        <3> QED
            BY <1>0, <3>1, Records DEF FeedsTypeOK
    <2> QED
        BY <2>1, <2>2, <2>3
<1>3. /\ published' \subseteq SoundItems
      /\ told' \in [Items -> 0 .. MaxTold] /\ drawn' \in [Items -> 0 .. StaleAfter]
    <2>1. CASE Decision = None
        BY <1>0, <2>1 DEF Poll, FeedsTypeOK, SoundInv
    <2>2. CASE Decision # None
        <3> DEFINE now == Decision.put
        <3>1. Decides(now) /\ now \subseteq SoundItems
            BY <1>0, <2>2, SoundDecision
        <3> HIDE DEF now
        <3>2. told' \in [Items -> 0 .. MaxTold]
            BY <1>0, <3>1, PollEffect DEF FeedsTypeOK
        <3>3. drawn' \in [Items -> 0 .. StaleAfter]
            BY <1>0, <3>1, PollEffect DEF FeedsTypeOK, Lifetime
        <3> QED
            BY <3>1, <3>2, <3>3, PollEffect
    <2> QED
        BY <2>1, <2>2
<1>4. FeedsTypeOK'
    <2>1. SoundItems \subseteq Items
        BY DEF SoundItems
    <2>2. polled' \in BOOLEAN /\ calm' \in BOOLEAN
        BY DEF Poll
    <2> QED
        BY <1>0, <1>1, <1>2, <1>3, <2>1, <2>2 DEF FeedsTypeOK, Poll
<1>5. SoundInv'
    BY <1>0, <1>3 DEF SoundInv, Poll
<1> QED
    BY <1>4, <1>5

\* A poll in an outage draws from the document it keeps.
LEMMA PollMemory ==
    ASSUME FeedInv, Poll
    PROVE  FromMemory'
<1>1. FeedsTypeOK /\ SoundInv /\ FromMemory /\ bridge' = bridge
    BY DEF FeedInv, Poll
<1>3. CASE bridge = "deepstate"
    <2> DEFINE S == IF cached = None THEN {} ELSE map_tracks(cached.ids)
    <2>1. Decides(S)
        BY <1>3, DecisionOf DEF deepstate_main, Decides
    <2>2. published' = S
        <3> HIDE DEF S
        <3> QED
            BY <2>1, PollEffect
    <2>3. held'["map"] = cached
        BY <1>3, DocsOf DEF Poll, Remembers
    <2>4. \A i \in S : cached # None /\ i[2] \in cached.ids
        BY DEF map_tracks, Of, Sound
    <2> QED
        BY <1>1, <1>3, <2>2, <2>3, <2>4 DEF FromMemory
<1>4. CASE bridge = "geoconfirmed"
    <2>1. Docs = {"world"} /\ \A i \in SoundItems : i[1] = "world"
        BY <1>4, DocsOf DEF SoundItems, Items
    <2> DEFINE doc == IF down = {} THEN Fetched("world") ELSE held["world"]
    <2>2. held'["world"] = doc
        <3>1. held'["world"] = IF "world" \in down THEN held["world"] ELSE Fetched("world")
            BY <1>4, <2>1 DEF Poll, Remembers
        <3>2. "world" \in down <=> down # {}
            BY <1>1, <2>1 DEF FeedsTypeOK
        <3> QED
            BY <3>1, <3>2
    <2>3. Decision = IF doc = None THEN None ELSE [put |-> event_tracks(doc.ids)]
        BY <1>4, DecisionOf DEF geoconfirmed_main
    <2>4. CASE doc = None
        <3>1. published' = published /\ down # {} /\ held["world"] = None
            BY <2>3, <2>4, Records DEF Poll, Fetched
        <3>2. published = {}
            BY <1>1, <1>4, <2>1, <3>1 DEF FromMemory, SoundInv
        <3> QED
            BY <3>1, <3>2 DEF FromMemory
    <2>5. CASE doc # None
        <3> HIDE DEF doc
        <3>1. published' = event_tracks(doc.ids)
            BY <2>3, <2>5, PollEffect DEF Decides
        <3>2. \A i \in event_tracks(doc.ids) : i[2] \in Newest(Fresh("world", doc.ids))
            BY DEF event_tracks, Of
        <3>3. Newest(Fresh("world", held["world"].ids))' = Newest(Fresh("world", doc.ids))
            BY <2>2 DEF Newest, Fresh, Sound, Poll, service
        <3> QED
            BY <1>1, <1>4, <2>2, <2>5, <3>1, <3>2, <3>3 DEF FromMemory
    <2> QED
        BY <2>4, <2>5
<1> QED
    BY <1>1, <1>3, <1>4 DEF FromMemory

\* A zone that is not put again has more than a tick to live.
LEMMA PollLife ==
    ASSUME FeedInv, Poll
    PROVE  LifeInv'
<1>1. FeedsTypeOK /\ SoundInv /\ bridge' = bridge /\ alive' = TRUE /\ calm' = (down = {})
    BY DEF FeedInv, FeedsTypeOK, Poll
<1>2. SUFFICES ASSUME down = {}, bridge \notin Sparse, NEW i \in published'
               PROVE  drawn'[i] >= 2
    BY <1>1 DEF LifeInv
<1> DEFINE now == Decision.put
<1>3. Decides(now) /\ now \subseteq SoundItems
    BY <1>1, <1>2, SoundDecision
<1> HIDE DEF now
<1>4. /\ i \in now /\ i \in Items /\ i \notin Drops(now)
      /\ drawn'[i] = IF i \in Due(now) THEN Lifetime ELSE IF i \in Drops(now) THEN 0 ELSE drawn[i]
    BY <1>2, <1>3, PollEffect DEF SoundItems, Drops
<1>5. CASE i \in Due(now)
    BY <1>2, <1>4, <1>5, Numbers DEF Lifetime
<1>6. CASE i \notin Due(now)
    <2>1. ~(StaleAfter - drawn[i] >= RefreshEvery)
        BY <1>4, <1>6 DEF Due
    <2>2. drawn[i] \in 0 .. StaleAfter
        BY <1>1, <1>4 DEF FeedsTypeOK
    <2> QED
        BY <1>4, <1>6, <2>1, <2>2, Numbers
<1> QED
    BY <1>5, <1>6

\* A poll announces what it draws, and resets what it retracts.
LEMMA PollTells ==
    ASSUME FeedInv, Poll
    PROVE  TellInv'
<1>1. FeedsTypeOK /\ SoundInv /\ TellInv /\ bridge' = bridge /\ calm' = (down = {}) /\ Items' = Items
    BY SameBridge DEF FeedInv, Poll
<1>2. CASE Decision = None
    <2>1. UNCHANGED <<published, seen, told>> /\ down # {}
        BY <1>1, <1>2, SoundDecision, Records DEF Poll, Decides
    <2> QED
        BY <1>1, <2>1 DEF TellInv
<1>3. CASE Decision # None
    <2> DEFINE now == Decision.put
    <2>1. Decides(now) /\ now \subseteq SoundItems
        BY <1>1, <1>3, SoundDecision
    <2> HIDE DEF now
    <2>2. ASSUME NEW i \in Items, told'[i] > 0
          PROVE  bridge = "community" /\ i \in published'
        <3>1. /\ published' = now
              /\ told'[i] = IF i \in Announces(now) /\ told[i] < MaxTold THEN told[i] + 1
                            ELSE IF i \in Drops(now) THEN 0 ELSE told[i]
            BY <2>1, PollEffect
        <3>2. CASE i \in Announces(now)
            BY <3>1, <3>2 DEF Announces
        <3>3. CASE i \notin Announces(now)
            <4>1. told[i] > 0 /\ i \notin Drops(now)
                BY <2>2, <3>1, <3>3
            <4>2. bridge = "community" /\ i \in published
                BY <1>1, <4>1 DEF TellInv
            <4> QED
                BY <3>1, <4>1, <4>2 DEF Drops, Retracts
        <3> QED
            BY <3>2, <3>3
    <2>3. bridge = "community" /\ down = {} => seen' = [set |-> published']
        BY <2>1, PollEffect DEF known
    <2> QED
        BY <1>1, <2>2, <2>3 DEF TellInv
<1> QED
    BY <1>2, <1>3

-----------------------------------------------------------------------------
(* The theorems.                                                             *)

\* Every step keeps the invariant.
LEMMA NextInv ==
    ASSUME FeedInv, [Next]_vars
    PROVE  FeedInv'
<1>1. CASE Poll
    BY <1>1, PollTypes, PollMemory, PollLife, PollTells DEF FeedInv
<1>2. CASE UNCHANGED vars
    BY <1>2, ServiceStep DEF vars, memory, FeedInv, FeedsTypeOK
<1> QED
    BY <1>1, <1>2, ServiceActions, SecondThread, ClockAndProcess DEF Next

\* The inductive invariant holds for every bridge, any services and any kills.
THEOREM FeedInvariant == Spec => []FeedInv
<1> QED
    BY InitInv, NextInv, PTL DEF Spec

\* Every variable keeps its type; ages, lifetimes and announcements stay within
\* their bounds.
THEOREM FeedTypes == Spec => []FeedsTypeOK
<1>1. FeedInv => FeedsTypeOK
    BY DEF FeedInv
<1> QED
    BY <1>1, FeedInvariant, PTL

\* What the poll, the second thread and the clock do to one marker.
LEMMA DrawnBy ==
    ASSUME FeedInv, [Next]_vars, NEW i \in Items, drawn'[i] # drawn[i]
    PROVE  Poll \/ Tick \/ PutAlert(i)
<1>1. ASSUME NEW j \in Items, PutAlert(j) PROVE PutAlert(i)
    <2>1. j = i
        BY <1>1 DEF PutAlert, FeedInv, FeedsTypeOK
    <2> QED
        BY <1>1, <2>1
<1>2. CASE UNCHANGED vars
    BY <1>2 DEF vars
<1>3. ASSUME NEW d \in Docs, Outage(d) \/ \E k \in Ids : List(d, k) PROVE FALSE
    BY <1>3 DEF Outage, List
<1>4. ASSUME NEW k \in Ids, Match(k) PROVE FALSE
    BY <1>4 DEF Match
<1>5. ASSUME NEW j \in Items, Age(j) \/ FindOnline(j) PROVE FALSE
    BY <1>5 DEF Age, FindOnline
<1>6. CASE Crash \/ Restart
    BY <1>6 DEF Crash, Restart
<1> QED
    BY <1>1, <1>2, <1>3, <1>4, <1>5, <1>6 DEF Next

\* A community report is announced again only by the poll that follows one in an
\* outage (publish_community keeps known up only when both fetches succeed).
THEOREM AnnouncementsAreNew == Spec => AnnouncedOnce
<1>1. ASSUME FeedInv, [Next]_vars
      PROVE  \A i \in Items : told[i] > 0 /\ told'[i] > told[i] => ~calm
    <2> SUFFICES ASSUME NEW i \in Items, told[i] > 0, told'[i] > told[i], calm
                 PROVE  FALSE
        OBVIOUS
    <2>0. /\ FeedsTypeOK /\ SoundInv /\ bridge = "community" /\ i \in published
          /\ seen = [set |-> published]
        BY <1>1 DEF FeedInv, TellInv
    <2>1. told[i] \in Nat
        BY <2>0 DEF FeedsTypeOK
    <2>2. CASE Poll
        <3> DEFINE now == Decision.put
        <3>1. Decides(now)
            <4>1. Decision # None
                BY <2>1, <2>2 DEF Poll
            <4> QED
                BY <2>0, <4>1, SoundDecision
        <3> HIDE DEF now
        <3>2. i \in Announces(now)
            BY <2>1, <2>2, <3>1, PollEffect
        <3> QED
            BY <2>0, <3>2, Records DEF Announces
    <2>3. CASE Crash
        BY <2>1, <2>3 DEF Crash
    <2>4. ASSUME ~Poll, ~Crash PROVE told' = told
        BY <1>1, <2>4 DEF Next, vars, Outage, List, Match, Age, FindOnline, PutAlert, Tick, Restart, memory
    <2> QED
        BY <2>1, <2>2, <2>3, <2>4
<1> QED
    BY <1>1, FeedInvariant, PTL DEF Spec, AnnouncedOnce

\* An item that is listed, and that no exception is about, is still drawn by
\* the poll, for the bridges that retract.
LEMMA ListedIsDrawn ==
    ASSUME FeedInv, {"dronestrikemap", "alerts", "zones"} \subseteq Hasty,
           Retracts, NEW now, Decides(now), NEW i \in published, Live(i), i \notin merged,
           ~(bridge \in {"alerts", "zones"} /\ Covered(i)), ~(bridge \in Hasty /\ down # {})
    PROVE  i \in now
<1>0. FeedsTypeOK /\ SoundInv /\ FromMemory
    BY DEF FeedInv
<1>1. i \in Items /\ i = <<i[1], i[2]>> /\ i[1] \in Docs /\ i[2] \in Ids
    BY <1>0 DEF SoundInv, SoundItems, Items
<1>2. i \notin aged /\ i[2] \notin Unsound[bridge]
    BY DEF Live
<1>3. \A d, S : i[1] = d /\ i[2] \in S => i \in Of(d, Sound(S)) /\ i \in Current(d, S)
    BY <1>1, <1>2 DEF Of, Sound, Current, Fresh
<1>4. CASE bridge = "mapa"
    <2>1. i[1] = "objects" /\ i[2] \in up["objects"]
        BY <1>1, <1>4, DocsOf DEF Live
    <2>2. now = object_tracks(up["objects"]) \ merged
        BY <1>4, DecisionOf, Records DEF Decides, mapa_main
    <2> QED
        BY <1>3, <2>1, <2>2 DEF object_tracks
<1>5. CASE bridge = "deepstate"
    <2>1. i[1] = "map" /\ i[2] \in up["map"]
        BY <1>1, <1>5, DocsOf DEF Live
    <2>2. cached # None /\ i[2] \in cached.ids
        <3>1. CASE "map" \in down
            BY <1>0, <1>5, <3>1 DEF FromMemory, cached
        <3>2. CASE "map" \notin down
            <4>1. ~TooOld
                BY <1>1, <1>2, <2>1 DEF TooOld, Of, Sound
            <4> QED
                BY <2>1, <3>2, <4>1, Records DEF cached
        <3> QED
            BY <3>1, <3>2
    <2>3. now = map_tracks(cached.ids)
        BY <1>5, <2>2, DecisionOf, Records DEF Decides, deepstate_main
    <2> QED
        BY <1>3, <2>1, <2>2, <2>3 DEF map_tracks
<1>6. CASE bridge = "geoconfirmed"
    <2>1. i[1] = "world" /\ i[2] \in Newest(Fresh("world", up["world"]))
        BY <1>1, <1>6, DocsOf DEF Live
    <2>2. CASE down = {}
        <3>1. now = event_tracks(up["world"])
            BY <1>6, <2>2, DecisionOf, Records DEF Decides, geoconfirmed_main, Fetched
        <3> QED
            BY <1>1, <2>1, <3>1 DEF event_tracks, Of
    <2>3. CASE down # {}
        <3>1. held["world"] # None /\ i[2] \in Newest(Fresh("world", held["world"].ids))
            BY <1>0, <1>2, <1>6, <2>1 DEF FromMemory
        <3>2. now = event_tracks(held["world"].ids)
            BY <1>6, <2>3, <3>1, DecisionOf, Records DEF Decides, geoconfirmed_main
        <3> QED
            BY <1>1, <2>1, <3>1, <3>2 DEF event_tracks, Of
    <2> QED
        BY <2>2, <2>3
<1>7. CASE bridge = "dronestrikemap"
    <2>1. /\ down = {} /\ i[1] \in {"day", "alerts"} /\ Docs # {}
          /\ \/ i[2] \in up[i[1]]
             \/ i[1] = "alerts" /\ i[2] \in Fresh("day", up["day"])
        BY <1>1, <1>7, DocsOf DEF Live
    <2> DEFINE strikes == strike_tracks(up["day"])
    <2>2. now = strikes \cup region_zone_tracks(up["alerts"], strikes)
        BY <1>7, <2>1, DecisionOf, Records DEF Decides, dronestrikemap_main
    <2>3. CASE i[1] = "day"
        BY <1>3, <2>1, <2>2, <2>3 DEF strike_tracks
    <2>4. CASE i[1] = "alerts"
        <3>1. CASE i[2] \in up["alerts"]
            BY <1>1, <1>2, <2>2, <2>4, <3>1 DEF region_zone_tracks, Of, Sound
        <3>2. CASE i[2] \in Fresh("day", up["day"])
            <4>1. <<"day", i[2]>> \in strikes /\ i[2] = <<"day", i[2]>>[2]
                BY <3>2 DEF strike_tracks, Current, Of
            <4>2. i[2] \in {j[2] : j \in strikes}
                BY <4>1
            <4> HIDE DEF strikes
            <4> QED
                BY <1>1, <2>2, <2>4, <4>2 DEF region_zone_tracks, Of
        <3> QED
            BY <2>1, <2>4, <3>1, <3>2
    <2> QED
        BY <2>1, <2>3, <2>4
<1>8. CASE bridge = "community"
    <2> DEFINE part(d) == IF d \in down THEN {j \in published : j[1] = d}
                          ELSE IF d = "reports" THEN drone_report_tracks(up[d])
                          ELSE incident_marker_tracks(up[d])
    <2>1. i[2] \in up[i[1]] /\ i[1] \in {"reports", "incidents"}
        BY <1>1, <1>8, DocsOf DEF Live
    <2>2. i \in part(i[1])
        BY <1>3, <2>1 DEF drone_report_tracks, incident_marker_tracks
    <2>3. now = UNION {part(d) : d \in Docs}
        BY <1>8, DecisionOf, Records DEF Decides, publish_community
    <2> HIDE DEF part
    <2> QED
        BY <1>1, <2>2, <2>3
<1>9. CASE bridge \in {"alerts", "zones"}
    <2>1. down = {} /\ i[2] \in up[i[1]] /\ i[1] \in {"site", "direct", "added"} /\ ~Covered(i)
        BY <1>1, <1>9, DocsOf DEF Live
    <2>2. \A d \in Docs : SourceCache(d) = [ids |-> up[d]]
        BY <2>1 DEF SourceCache, Fetched
    <2>3. i \in Built(i[1], SourceCache(i[1]))
        BY <1>1, <1>3, <2>1, <2>2, Records DEF Built, active_alerts, neptun_alerts, rso_alerts
    <2>4. now = {j \in UNION {Built(d, SourceCache(d)) : d \in Docs} : ~Covered(j)}
        BY <1>1, <1>9, <2>2, DecisionOf, Records DEF Decides, compose_alerts
    <2> QED
        BY <1>1, <2>1, <2>3, <2>4
<1>10. CASE bridge = "devices"
    <2>1. i[1] = "devices" /\ i[2] \in up["devices"]
        BY <1>1, <1>10, DocsOf DEF Live
    <2>2. now = online_ids(up["devices"])
        BY <1>10, DecisionOf, Records DEF Decides, IfFetched
    <2> QED
        BY <1>3, <2>1, <2>2 DEF online_ids
<1> QED
    BY <1>0, <1>4, <1>5, <1>6, <1>7, <1>8, <1>9, <1>10, Bridges DEF Retracts

\* A marker of an item the service still lists (and that newer placemarks do not
\* push out) stays, provided that the bridges
\* that take a failed fetch for an empty one are among the exceptions: fetch_alerts
\* of dronestrikemap, and compose_alerts once its cache has run out.
THEOREM ListedStays ==
    ASSUME {"dronestrikemap", "alerts", "zones"} \subseteq Hasty
    PROVE  Spec => KeepsListed
<1> DEFINE Excused(i) ==
        \/ i \in merged \/ (bridge \in {"alerts", "zones"} /\ Covered(i))
        \/ bridge \in Hasty /\ down # {}
        \/ bridge \in Sparse
        \/ ~calm /\ polled
<1>1. ASSUME FeedInv, [Next]_vars
      PROVE  \A i \in published : drawn[i] > 0 /\ drawn'[i] = 0 /\ Live(i) => Excused(i)
    <2> SUFFICES ASSUME NEW i \in published, drawn[i] > 0, drawn'[i] = 0, Live(i), ~Excused(i)
                 PROVE  FALSE
        OBVIOUS
    <2>0. FeedsTypeOK /\ SoundInv /\ LifeInv /\ i \in Items /\ drawn[i] \in 0 .. StaleAfter
        BY <1>1 DEF FeedInv, FeedsTypeOK
    <2>1. CASE Poll
        <3> DEFINE now == Decision.put
        <3>1. Decides(now)
            <4>1. Decision # None
                BY <2>0, <2>1 DEF Poll
            <4> QED
                BY <2>0, <4>1, SoundDecision
        <3> HIDE DEF now
        <3>2. drawn'[i] = IF i \in Due(now) THEN Lifetime ELSE IF i \in Drops(now) THEN 0 ELSE drawn[i]
            BY <2>0, <2>1, <3>1, PollEffect
        <3>3. i \in Drops(now)
            BY <2>0, <3>2, Numbers DEF Lifetime
        <3>4. Retracts /\ i \notin now
            BY <3>3 DEF Drops
        <3> QED
            BY <1>1, <3>1, <3>4, ListedIsDrawn
    <2>2. CASE Tick
        <3>1. polled /\ calm
            BY <2>0, <2>2 DEF Tick, LifeInv
        <3>2. drawn[i] >= 2
            BY <2>0, <3>1 DEF LifeInv
        <3> QED
            BY <2>0, <2>2, <3>2 DEF Tick
    <2>3. CASE PutAlert(i)
        BY <2>0, <2>3, Numbers DEF PutAlert, FeedsTypeOK
    <2> QED
        BY <1>1, <2>0, <2>1, <2>2, <2>3, DrawnBy
<1> QED
    BY <1>1, FeedInvariant, PTL DEF Spec, KeepsListed
===============================================================================
