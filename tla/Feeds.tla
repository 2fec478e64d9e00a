-------------------------------- MODULE Feeds --------------------------------
(* The bridges that poll a map service and put its items on the fabric: which *)
(* items a poll puts, which it retracts with a tombstone, what it does when a *)
(* document cannot be fetched, and how long a marker lives on the map.  One   *)
(* behaviour is about one bridge.  A tick is one poll interval.               *)
EXTENDS Integers, FiniteSets

CONSTANTS
    Observed,       \* the bridges that the behaviours are about
    Ids,            \* items of a document, numbered from the oldest to the newest
    Unsound,        \* bridge -> items whose record lacks an id, a position or a known type
    StaleAfter,     \* ticks a marker lives when it is not put again (stale_s)
    RefreshEvery,   \* ticks after which an unchanged zone is put again
    CacheLife,      \* ticks SourceCache keeps a document (SOURCE_MAX_AGE_S)
    MaxMarkers,     \* placemarks that GeoConfirmed draws at most (GC_MAX)
    MaxChanges,     \* bound on the changes of the service's data and health
    MaxTold,        \* bound on the count of an item's announcements
    Sticky,         \* bridges that repeat old items as long as a source is down
    Hasty,          \* bridges that take a failed fetch for an empty one
    Sparse          \* bridges that put no more often than a marker lives

ASSUME FeedBounds ==
    /\ StaleAfter \in Nat \ {0} /\ RefreshEvery \in 1 .. StaleAfter - 1
    /\ CacheLife \in Nat /\ MaxChanges \in Nat /\ MaxTold \in Nat /\ MaxMarkers \in Nat
    /\ Ids \subseteq Nat /\ IsFiniteSet(Ids)

\* The documents a bridge fetches in a poll.
Documents ==
    [ mapa |-> {"objects"}, deepstate |-> {"map"}, geoconfirmed |-> {"world"},
      dronestrikemap |-> {"day", "alerts"}, community |-> {"reports", "incidents"},
      alerts |-> {"site", "direct", "added"}, zones |-> {"site", "direct", "added"},
      threats |-> {"threats"}, aircraft |-> {"aircraft"}, devices |-> {"devices"},
      sitaware |-> {"units"}, clients |-> {"events"}, forecast |-> {"forecast"} ]

ASSUME ObservedBridges == Observed \subseteq DOMAIN Documents

VARIABLES
    bridge,         \* the bridge this behaviour is about
    up,             \* the items the service lists, by document
    aged,           \* items past their own end (expiry, date, age limit)
    merged,         \* MAPA objects that match a NEPTUN threat one to one
    down,           \* documents that cannot be fetched
    held,           \* the documents the bridge keeps in memory, by document
    kept,           \* ticks since each was fetched
    published,      \* what the bridge has on the fabric, by its own record
    seen, told,     \* community: items known, and how often each was announced
    drawn,          \* on the map: ticks each marker has left, 0 when not drawn
    ready,          \* detection thread: sensors found online, not yet put
    alive, polled, calm, changes

vars == <<bridge, up, aged, merged, down, held, kept, published, seen, told,
          drawn, ready, alive, polled, calm, changes>>
service == <<up, aged, merged, down>>
memory == <<held, kept, published, seen, told>>

Docs == Documents[bridge]
None == [none |-> TRUE]
Items == Docs \X Ids
Of(d, ids) == {d} \X ids
Sound(ids) == ids \ Unsound[bridge]
Fetched(d) == IF d \in down THEN None ELSE [ids |-> up[d]]

\* The newest of some items.
Newest(ids) == {k \in ids : Cardinality({n \in ids : n > k}) < MaxMarkers}
\* The sound items of a document that are not over.
Fresh(d, ids) == {k \in Sound(ids) : <<d, k>> \notin aged}

\* An item that belongs on the map: it is sound, listed and not over.  A TAK
\* client's position counts until it is stale, a placemark while it is among the
\* newest, a Russian region's zone also while a place in the region was hit.
Live(i) ==
    /\ i \notin aged /\ i[2] \notin Unsound[bridge]
    /\ \/ i[2] \in up[i[1]] \/ bridge = "clients"
       \/ bridge = "dronestrikemap" /\ i[1] = "alerts" /\ i[2] \in Fresh("day", up["day"])
    /\ bridge = "geoconfirmed" => i[2] \in Newest(Fresh("world", up["world"]))

------------------------------------------------------------------------------
(* What each bridge makes of its documents.  A builder is given the ids that  *)
(* a document lists and returns the items to draw.                            *)

Current(d, ids) == Of(d, Fresh(d, ids))

object_tracks(ids) == Current("objects", ids)
threat_tracks(ids) == Current("threats", ids)
aircraft_tracks(ids) == Current("aircraft", ids)
\* Mutant: an event of the last map is drawn whatever its age.
event_tracksAll(ids) == Of("world", Sound(ids))

\* Mutant: the limit keeps the oldest.
event_tracksOldest(ids) ==
    LET fresh == Fresh("world", ids)
    IN  Of("world", {k \in fresh : Cardinality({n \in fresh : n < k}) < MaxMarkers})

\* Of the placemarks of the last days, the newest GC_MAX.
event_tracks(ids) == Of("world", Newest(Fresh("world", ids)))
strike_tracks(ids) == Current("day", ids)
drone_report_tracks(ids) == Current("reports", ids)
incident_marker_tracks(ids) == Current("incidents", ids)
active_alerts(ids) == Current("site", ids)
\* Everything NEPTUN lists is active; a notice of RSO has its validity.
neptun_alerts(ids) == Of("direct", Sound(ids))
rso_alerts(ids) == Current("added", ids)
\* No age of their own: the map as a whole has one, the others none.  An arrow or
\* unit of the map has no name but its position in the list (DS-ARROW-<index>).
map_tracks(ids) == Of("map", Sound(ids))
\* A region has a zone for its alert (red) or for a place hit in it (yellow); the
\* place k is in the region k.
region_zone_tracks(alerts, strikes) == Of("alerts", Sound(alerts) \cup {i[2] : i \in strikes})
online_ids(ids) == Of("devices", Sound(ids))
normalise_unit(ids) == Of("units", Sound(ids))
\* meteo.lt: a place without a future timestamp is passed over.
nearest_future(ids) == Current("forecast", ids)
\* A TAK event ends at its own stale time.
_normalize_event(ids) == Current("events", ids)

\* SourceCache.update: the last good document, for a while.
SourceCache(d) ==
    IF d \notin down THEN Fetched(d) ELSE IF kept[d] <= CacheLife THEN held[d] ELSE None

Built(d, doc) ==
    IF doc = None THEN {}
    ELSE CASE d = "site" -> active_alerts(doc.ids)
           [] d = "direct" -> neptun_alerts(doc.ids)
           [] OTHER -> rso_alerts(doc.ids)

\* compose_alerts and merge: a direct source replaces the site's data for its
\* own country (id 1), and is added to it for the others.
Covered(i) == i[1] = "site" /\ i[2] = 1 /\ SourceCache("direct") # None
compose_alerts ==
    IF \A d \in Docs : SourceCache(d) = None THEN None
    ELSE [put |-> {i \in UNION {Built(d, SourceCache(d)) : d \in Docs} : ~Covered(i)}]

\* publish_community: a failed fetch keeps that kind's previous entries.
publish_community ==
    [put |-> UNION {IF d \in down THEN {i \in published : i[1] = d}
                    ELSE IF d = "reports" THEN drone_report_tracks(up[d])
                    ELSE incident_marker_tracks(up[d]) : d \in Docs}]

\* A day that cannot be fetched keeps its markers until the day is over; alerts
\* that cannot be fetched are none; with nothing fetched everything is repeated.
dronestrikemap_main ==
    IF down = Docs THEN [put |-> published]
    ELSE LET strikes == IF "day" \in down THEN {i \in published : i[1] = "day"} \ aged
                                         ELSE strike_tracks(up["day"])
             alerts == IF "alerts" \in down THEN {} ELSE up["alerts"]
         IN  [put |-> strikes \cup region_zone_tracks(alerts, strikes)]

\* MAPA: an object that matches a NEPTUN threat is left to NEPTUN's marker.
mapa_main == IF down # {} THEN None ELSE [put |-> object_tracks(up["objects"]) \ merged]

\* The DeepState map is older than DEEPSTATE_MAX_AGE_S.
TooOld == Of("map", Sound(Ids)) \subseteq aged

\* DeepState: the tracks last built (cached) are repeated; a map that is fetched
\* and too old gives none, and leaves none to repeat.
cached ==
    IF "map" \in down THEN held["map"] ELSE [ids |-> IF TooOld THEN {} ELSE up["map"]]
deepstate_main == [put |-> IF cached = None THEN {} ELSE map_tracks(cached.ids)]

\* GeoConfirmed: the tracks are built anew from the last map in every poll.
geoconfirmed_main ==
    LET doc == IF down = {} THEN Fetched("world") ELSE held["world"]
    IN  IF doc = None THEN None ELSE [put |-> event_tracks(doc.ids)]

\* TAK clients: what was heard is repeated until its own stale time.
due_republish ==
    LET before == IF held["events"] = None THEN {} ELSE held["events"].ids
        heard == before \cup (IF down = {} THEN up["events"] ELSE {})
    IN  [put |-> _normalize_event(heard)]

\* One document, and a poll that fails does nothing.
IfFetched(d, tracks) == IF d \in down THEN None ELSE [put |-> tracks]

\* What the poll decides to have on the map, None to leave all as it is.
Decision ==
    CASE bridge = "mapa" -> mapa_main
      [] bridge = "deepstate" -> deepstate_main
      [] bridge = "geoconfirmed" -> geoconfirmed_main
      [] bridge = "dronestrikemap" -> dronestrikemap_main
      [] bridge = "community" -> publish_community
      [] bridge \in {"alerts", "zones"} -> compose_alerts
      [] bridge = "threats" -> IfFetched("threats", threat_tracks(up["threats"]))
      [] bridge = "aircraft" -> IfFetched("aircraft", aircraft_tracks(up["aircraft"]))
      [] bridge = "devices" -> IfFetched("devices", online_ids(up["devices"]))
      [] bridge = "sitaware" -> IfFetched("units", normalise_unit(up["units"]))
      [] bridge = "forecast" -> IfFetched("forecast", nearest_future(up["forecast"]))
      [] OTHER -> due_republish

\* These never send a tombstone: their markers go stale.
Retracts == bridge \notin {"threats", "aircraft", "sitaware", "clients", "forecast"}

\* Ticks a marker lives (the layers' stale time, in the bridge's poll intervals).
Lifetime == IF bridge \in Sparse THEN 1 ELSE StaleAfter

\* An unchanged zone is put again every ZONE_REFRESH_S only.
Due(put) ==
    IF bridge # "zones" THEN put
    ELSE {i \in put : i \notin published \/ StaleAfter - drawn[i] >= RefreshEvery}

------------------------------------------------------------------------------

Init ==
    /\ bridge \in Observed
    /\ up \in [Docs -> {{}, Ids}]
    /\ aged = {} /\ merged = {} /\ down = {}
    /\ held = [d \in Docs |-> None] /\ kept = [d \in Docs |-> 0]
    /\ published = {} /\ seen = None
    /\ told = [i \in Items |-> 0] /\ drawn = [i \in Items |-> 0]
    /\ ready = {} /\ alive = TRUE /\ polled = FALSE /\ calm = FALSE /\ changes = 0

Change == changes < MaxChanges /\ changes' = changes + 1

\* The service lists a sound item or drops it; the others come with its first answer.
List(d, k) ==
    /\ Change /\ k \notin Unsound[bridge]
    /\ up' = [up EXCEPT ![d] = IF k \in @ THEN @ \ {k} ELSE @ \cup {k}]
    /\ UNCHANGED <<bridge, aged, merged, down, memory, drawn, ready, alive, polled, calm>>

Outage(d) ==
    /\ Change
    /\ down' = IF d \in down THEN down \ {d} ELSE down \cup {d}
    /\ UNCHANGED <<bridge, up, aged, merged, memory, drawn, ready, alive, polled, calm>>

Match(k) ==
    /\ Change /\ bridge = "mapa"
    /\ merged' = IF <<"objects", k>> \in merged THEN merged \ {<<"objects", k>>}
                                               ELSE merged \cup {<<"objects", k>>}
    /\ UNCHANGED <<bridge, up, aged, down, memory, drawn, ready, alive, polled, calm>>

\* Time takes an item past its end, where the document gives it one.
Age(i) ==
    /\ i \notin aged /\ i[2] \notin Unsound[bridge] /\ i[1] \notin {"devices", "units", "direct", "alerts"}
    /\ aged' = aged \cup {i}
    /\ UNCHANGED <<bridge, up, merged, down, memory, drawn, ready, alive, polled, calm, changes>>

\* Mutant: what was known at the first poll stays all that is known.
knownFirst(now) == IF bridge = "community" /\ down = {} /\ seen = None THEN [set |-> now] ELSE seen

\* What the community feed has announced, or found when it started.
known(now) == IF bridge = "community" /\ down = {} THEN [set |-> now] ELSE seen

\* What the bridge keeps of a document for its next polls.
Remembers(d) ==
    CASE bridge = "clients" -> [ids |-> {i[2] : i \in due_republish.put}]
      [] bridge = "deepstate" -> cached
      [] OTHER -> IF d \in down THEN held[d] ELSE Fetched(d)

\* One turn of the bridge's loop.
Poll ==
    /\ alive /\ ~polled
    /\ polled' = TRUE /\ calm' = (down = {})
    /\ kept' = [d \in Docs |-> IF d \notin down THEN 0 ELSE kept[d]]
    /\ held' = [d \in Docs |-> Remembers(d)]
    /\ IF Decision = None
         THEN UNCHANGED <<published, seen, told, drawn>>
         ELSE LET now == Decision.put
                  gone == IF Retracts THEN published \ now ELSE {}
                  new == IF bridge = "community" /\ seen # None THEN now \ seen.set ELSE {}
              IN  /\ published' = now
                  /\ seen' = known(now)
                  /\ told' = [i \in Items |-> IF i \in new /\ told[i] < MaxTold THEN told[i] + 1
                                              ELSE IF i \in gone THEN 0 ELSE told[i]]
                  /\ drawn' = [i \in Items |-> IF i \in Due(now) THEN Lifetime
                                               ELSE IF i \in gone THEN 0 ELSE drawn[i]]
    /\ UNCHANGED <<bridge, service, ready, alive, changes>>

\* run_detections: the reporting sensor is looked up under the lock, and put
\* after it; a report lights its sensor for a bounded time.
FindOnline(i) ==
    /\ bridge = "devices" /\ alive /\ i \in published \ ready /\ Change
    /\ ready' = ready \cup {i}
    /\ UNCHANGED <<bridge, service, memory, drawn, alive, polled, calm>>

PutAlert(i) ==
    /\ alive /\ i \in ready
    /\ ready' = ready \ {i}
    /\ drawn' = [drawn EXCEPT ![i] = StaleAfter]
    /\ UNCHANGED <<bridge, service, memory, alive, polled, calm, changes>>

\* Mutant: the age of a document is not capped.
OlderUncapped(n) == n + 1

Older(n) == IF n <= CacheLife THEN n + 1 ELSE n

Tick ==
    /\ polled \/ ~alive
    /\ drawn' = [i \in Items |-> IF drawn[i] > 0 THEN drawn[i] - 1 ELSE 0]
    /\ kept' = [d \in Docs |-> Older(kept[d])]
    /\ polled' = FALSE
    /\ UNCHANGED <<bridge, service, held, published, seen, told, ready, alive, calm, changes>>

\* The process ends, with everything it remembered; the supervisor starts it again.
Crash ==
    /\ alive /\ Change
    /\ alive' = FALSE /\ polled' = FALSE /\ calm' = FALSE /\ ready' = {}
    /\ held' = [d \in Docs |-> None] /\ kept' = [d \in Docs |-> 0]
    /\ published' = {} /\ seen' = None /\ told' = [i \in Items |-> 0]
    /\ UNCHANGED <<bridge, service, drawn>>

Restart ==
    /\ ~alive
    /\ alive' = TRUE
    /\ UNCHANGED <<bridge, service, memory, drawn, ready, polled, calm, changes>>

Next ==
    \/ \E d \in Docs : Outage(d) \/ \E k \in Ids : List(d, k)
    \/ \E k \in Ids : Match(k)
    \/ \E i \in Items : Age(i) \/ FindOnline(i) \/ PutAlert(i)
    \/ Poll \/ Tick \/ Crash \/ Restart

\* The loop goes on, time passes, and the supervisor restarts what ended.
Fairness ==
    /\ WF_vars(Poll) /\ WF_vars(Tick) /\ WF_vars(Restart)
    /\ WF_vars(\E i \in Items : Age(i)) /\ WF_vars(\E i \in Items : PutAlert(i))

Spec == Init /\ [][Next]_vars /\ Fairness

------------------------------------------------------------------------------

\* Every variable of the service, the bridge and the map has its type: ages,
\* lifetimes and announcements stay within their bounds.
FeedsTypeOK ==
    /\ bridge \in DOMAIN Documents /\ up \in [Docs -> SUBSET Ids]
    /\ aged \subseteq Items /\ merged \subseteq Items /\ down \subseteq Docs
    /\ \A d \in Docs : held[d] = None \/ held[d].ids \subseteq Ids
    /\ kept \in [Docs -> 0 .. CacheLife + 1] /\ published \subseteq Items
    /\ told \in [Items -> 0 .. MaxTold] /\ drawn \in [Items -> 0 .. StaleAfter]
    /\ ready \subseteq Items /\ alive \in BOOLEAN /\ polled \in BOOLEAN /\ calm \in BOOLEAN

\* A marker of an item the service still lists does not leave the map while the
\* bridge runs: a failed fetch is not an empty answer (but for the hasty
\* bridges, in an outage), and what is repeated is repeated before it is stale
\* (but for the sparse bridges).
KeepsListed ==
    [][\A i \in published :
         drawn[i] > 0 /\ drawn'[i] = 0 /\ Live(i) =>
            \/ i \in merged \/ (bridge \in {"alerts", "zones"} /\ Covered(i))
            \/ bridge \in Hasty /\ down # {}
            \/ bridge \in Sparse
            \/ ~calm /\ polled]_vars

\* Once an item is over its marker leaves the map and stays away, whatever the
\* service, its documents and the bridge's process do; but for the bridges that
\* repeat from memory.
LeavesTheMap ==
    \A i \in UNION {Documents[b] \X (Ids \ Unsound[b]) : b \in Observed} :
        <>[](bridge \notin Sticky /\ i \in Items /\ ~Live(i)) => <>[](i \in Items /\ drawn[i] = 0)

\* What dronuradaras_bridge.py:230 says of its detection thread: it never revives
\* a device that the latest poll has marked offline.
NeverRevived ==
    [][\A i \in Items : bridge = "devices" /\ drawn[i] = 0 /\ drawn'[i] > 0 => i \in published']_vars

\* What deepstate_bridge.py:20 says of the map: nothing is published once it is
\* older than DEEPSTATE_MAX_AGE_S.
NothingTooOld ==
    [][bridge = "deepstate" /\ TooOld => \A i \in Items : drawn'[i] <= drawn[i]]_vars

\* A community report is announced again only by the poll that follows one in an
\* outage (the set of known reports is kept up only by a poll that fetched both
\* documents).
AnnouncedOnce ==
    [][\A i \in Items : told[i] > 0 /\ told'[i] > told[i] => ~calm]_vars
=============================================================================
