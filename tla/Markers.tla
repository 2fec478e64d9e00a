------------------------------- MODULE Markers -------------------------------
(* One marker for one object: the fuser's TwinIndex announces the copies of an  *)
(* object that another feed reports better, and an output layer (TAK or         *)
(* SitaWare) holds them back, retracts them, and extrapolates what it has drawn *)
(* (TAK).  A report reaches the fuser and the layer in any order; an            *)
(* announcement arrives at once.                                                *)
EXTENDS Integers, FiniteSets

CONSTANTS
    Tracks,         \* copies of objects, as feeds report them
    Desc,           \* track -> [icao, address, call, name]: the address it is keyed
                    \* by, the one read from its id or callsign, its callsign (of 4
                    \* characters or more), its distinctive name
    Near,           \* pairs of tracks reported within TWIN_NEAR_KM of one another
    None,
    Slow,           \* tracks that may let a tick pass without a report
    Ranks,          \* what a report may declare (affiliation, movement), 0 least
    Order,          \* track -> position of its uid in the order of the uids
    TTL, Fresh,     \* TWIN_TTL_S and TWIN_FRESH_S in ticks
    Stale, DrLife,  \* life of a marker, and of an extrapolated one
    MaxItems,       \* SitaWare: size of the NVG cache, for every set of tracks
    MaxChanges,     \* bound on tracks that come, go or declare something else
    Casts           \* the sets of tracks of a behaviour

ASSUME MarkerBounds ==
    /\ {TTL, Fresh, Stale, DrLife} \subseteq Nat \ {0} /\ MaxChanges \in Nat
    /\ MaxItems \in [Casts -> Nat \ {0}]
    /\ DrLife < Stale /\ Stale <= Fresh
    /\ \A t, u \in Tracks : Order[t] = Order[u] => t = u
    /\ IsFiniteSet(Tracks) /\ 0 \in Ranks /\ Casts \subseteq SUBSET Tracks

VARIABLES
    layer, cast,
    active, due,    \* tracks that are reported, and those not yet in this tick
    rank,           \* what the reports of a track declare now
    seen,           \* TwinIndex._keyed and _loose: ticks since a track was seen
    called,         \* TwinIndex._by_call: the keyed track last seen with a callsign
    group,          \* TwinIndex._named: [age, rank] of the members
    hold,           \* TwinSuppressions: ticks a track is still held back
    drawn,          \* ticks its marker has left, 0 when it is not drawn
    store,          \* _dr_store: age of the report to extrapolate
    plan,           \* the dead-reckoning thread: copied, not yet sent
    fuserQ, layerQ, \* reports on their way
    changes

feeds == <<active, due, rank, changes>>
fuser == <<seen, called, group>>
map == <<drawn, store, plan>>
vars == <<layer, cast, feeds, fuser, hold, map, fuserQ, layerQ>>

Never == Fresh + TTL + 1                            \* longer ago than anything asks
Keyed(t) == Desc[t].icao # None
Older(a) == IF a < Never THEN a + 1 ELSE a

------------------------------------------------------------------------------
(* The feeds.                                                                   *)

Change == changes < MaxChanges /\ changes' = changes + 1
Idle(t) == fuserQ[t] = None /\ layerQ[t] = None

Report(t) ==
    /\ t \in due \cap active /\ Idle(t)
    /\ due' = due \ {t}
    /\ fuserQ' = [fuserQ EXCEPT ![t] = "track"] /\ layerQ' = [layerQ EXCEPT ![t] = "track"]
    /\ UNCHANGED <<layer, cast, active, rank, changes, fuser, hold, map>>

\* The source withdraws the object with a tombstone.
Withdraw(t) ==
    /\ t \in active /\ Idle(t) /\ Change
    /\ active' = active \ {t}
    /\ fuserQ' = [fuserQ EXCEPT ![t] = "delete"] /\ layerQ' = [layerQ EXCEPT ![t] = "delete"]
    /\ UNCHANGED <<layer, cast, due, rank, fuser, hold, map>>

\* A feed goes quiet without a word, or comes back.
Switch(t) ==
    /\ t \in cast /\ Change
    /\ active' = IF t \in active THEN active \ {t} ELSE active \cup {t}
    /\ UNCHANGED <<layer, cast, due, rank, fuser, hold, map, fuserQ, layerQ>>

Redeclare(t, r) ==
    /\ t \in active /\ r # rank[t] /\ Desc[t].name # None /\ Change
    /\ rank' = [rank EXCEPT ![t] = r]
    /\ UNCHANGED <<layer, cast, active, due, fuser, hold, map, fuserQ, layerQ>>

------------------------------------------------------------------------------
(* The fuser: TwinIndex.observe and the announcements of on_any_track.          *)

\* The keyed tracks a loose one may be a copy of: those of its address, and the one
\* last seen with its callsign when that was close by.
Originals(t, by) ==
    {k \in Tracks : Keyed(k) /\ Desc[k].icao = Desc[t].address}
      \cup {k \in by : Desc[k].call = Desc[t].call /\ {k, t} \in Near}

\* Mutant: a keyed track counts for ever.
TwinOfAny(t, at, by) == at[t] <= Fresh /\ \E k \in Originals(t, by) : at[k] < Never

\* A loose track is a twin while its keyed track is fresh.
_is_twin(t, at, by) == at[t] <= Fresh /\ \E k \in Originals(t, by) : at[k] <= Fresh

\* Mutant: copies that declare as much as one another are not told apart.
BetterByRank(g, t, u) == g[t].rank > g[u].rank

\* Of a group the copy that declares most is kept, then the smaller uid.
Better(g, t, u) == g[t].rank > g[u].rank \/ (g[t].rank = g[u].rank /\ Order[t] < Order[u])
Members(g, t) == {u \in Tracks : g[u] # None /\ Desc[u].name = Desc[t].name}

entered(t) ==
    LET g == [group EXCEPT ![t] = [age |-> 0, rank |-> rank[t]]]
    IN  [u \in Tracks |-> IF u \in Members(g, t) /\ g[u].age > Fresh THEN None ELSE g[u]]

Best(g, t) == {b \in Members(g, t) : \A u \in Members(g, t) \ {b} : Better(g, b, u)}

_named_twins(g, t) ==
    {u \in Members(g, t) : \E b \in Best(g, t) : b # u /\ {b, u} \in Near}

Announce(ts) == hold' = [u \in Tracks |-> IF u \in ts THEN TTL ELSE hold[u]]

heard(t) ==
    IF Keyed(t) /\ Desc[t].call # None
      THEN {k \in called : Desc[k].call # Desc[t].call} \cup {t}
      ELSE called

observe(t) ==
    LET at == [seen EXCEPT ![t] = 0]
        by == heard(t)
    IN  /\ seen' = at /\ called' = by
        /\ IF Keyed(t)
             THEN group' = group /\ Announce({u \in Tracks : ~Keyed(u) /\ _is_twin(u, at, by)})
           ELSE IF _is_twin(t, at, by)
             THEN group' = group /\ Announce({t})
           ELSE IF Desc[t].name = None
             THEN UNCHANGED <<group, hold>>
           ELSE group' = entered(t) /\ Announce(_named_twins(entered(t), t))

on_any_track(t) ==
    /\ fuserQ[t] # None
    /\ fuserQ' = [fuserQ EXCEPT ![t] = None]
    /\ IF fuserQ[t] = "delete" THEN UNCHANGED <<fuser, hold>> ELSE observe(t)
    /\ UNCHANGED <<layer, cast, feeds, map, layerQ>>

------------------------------------------------------------------------------
(* The layer's handler, and the dead reckoning of the TAK layer.                *)

is_suppressed(t) == ~Keyed(t) /\ hold[t] > 0

\* Mutant: the cache grows without a bound.
EvictedNone(t) == {{}}

\* NVGFeedCache.upsert: a full cache gives up the item seen longest ago.
Evicted(t) ==
    LET items == {u \in Tracks : drawn[u] > 0}
    IN  IF layer = "sitaware" /\ t \notin items /\ Cardinality(items) >= MaxItems[cast]
          THEN {{u} : u \in {v \in items : \A w \in items : drawn[v] <= drawn[w]}}
          ELSE {{}}

Erase(t) ==
    /\ drawn' = [drawn EXCEPT ![t] = 0]
    /\ store' = [store EXCEPT ![t] = None]

Draw(t) ==
    /\ \E out \in Evicted(t) :
         drawn' = [u \in Tracks |-> IF u = t THEN Stale ELSE IF u \in out THEN 0 ELSE drawn[u]]
    /\ store' = IF layer = "tak" THEN [store EXCEPT ![t] = 0] ELSE store

handler(t) ==
    /\ layerQ[t] # None
    /\ layerQ' = [layerQ EXCEPT ![t] = None]
    /\ IF layerQ[t] = "delete" \/ is_suppressed(t) THEN Erase(t) ELSE Draw(t)
    /\ UNCHANGED <<layer, cast, feeds, fuser, hold, plan, fuserQ>>

\* Mutant: a report is extrapolated without end.
ExtrapolatedAlways == {t \in Tracks : store[t] # None /\ store[t] > 0}

\* The reports to extrapolate are copied under the lock, and sent after it.
Extrapolated == {t \in Tracks : store[t] # None /\ store[t] \in 1 .. Stale - 1}

DeadReckoning ==
    /\ layer = "tak" /\ plan = {} /\ Extrapolated # {}
    /\ plan' = Extrapolated
    /\ UNCHANGED <<layer, cast, feeds, fuser, hold, drawn, store, fuserQ, layerQ>>

SendExtrapolated(t) ==
    /\ t \in plan
    /\ plan' = plan \ {t}
    /\ drawn' = [drawn EXCEPT ![t] = DrLife]
    /\ UNCHANGED <<layer, cast, feeds, fuser, hold, store, fuserQ, layerQ>>

------------------------------------------------------------------------------

\* Reports, callbacks and a round of dead reckoning take less than a tick.
Tick ==
    /\ due \cap active \subseteq Slow /\ plan = {} /\ \A t \in Tracks : Idle(t)
    /\ due' = cast
    /\ seen' = [t \in Tracks |-> Older(seen[t])]
    /\ group' = [t \in Tracks |-> IF group[t] = None THEN None ELSE [group[t] EXCEPT !.age = Older(@)]]
    /\ hold' = [t \in Tracks |-> IF hold[t] > 0 THEN hold[t] - 1 ELSE 0]
    /\ drawn' = [t \in Tracks |-> IF drawn[t] > 0 THEN drawn[t] - 1 ELSE 0]
    /\ store' = [t \in Tracks |-> IF store[t] = None THEN None ELSE Older(store[t])]
    /\ UNCHANGED <<layer, cast, active, rank, changes, called, plan, fuserQ, layerQ>>

Init ==
    /\ layer \in {"tak", "sitaware"} /\ cast \in Casts
    /\ active \in SUBSET cast /\ due = cast
    /\ rank = [t \in Tracks |-> 0]
    /\ seen = [t \in Tracks |-> Never] /\ called = {} /\ group = [t \in Tracks |-> None]
    /\ hold = [t \in Tracks |-> 0] /\ drawn = [t \in Tracks |-> 0]
    /\ store = [t \in Tracks |-> None] /\ plan = {}
    /\ fuserQ = [t \in Tracks |-> None] /\ layerQ = [t \in Tracks |-> None]
    /\ changes = 0

Next ==
    \/ \E t \in Tracks : \/ Report(t) \/ Withdraw(t) \/ Switch(t)
                         \/ \E r \in Ranks : Redeclare(t, r)
                         \/ on_any_track(t) \/ handler(t) \/ SendExtrapolated(t)
    \/ DeadReckoning \/ Tick

\* Feeds report, callbacks run, the dead-reckoning thread loops, time passes.
Fairness ==
    /\ WF_vars(\E t \in Tracks : Report(t) \/ on_any_track(t) \/ handler(t))
    /\ WF_vars(\E t \in Tracks : SendExtrapolated(t)) /\ SF_vars(Tick)

Spec == Init /\ [][Next]_vars /\ Fairness

------------------------------------------------------------------------------

\* Every variable of the twin filter and of the layer has its type, and the NVG
\* feed of SitaWare never holds more items than its limit.
MarkersTypeOK ==
    /\ active \subseteq cast /\ due \subseteq cast /\ rank \in [Tracks -> Ranks]
    /\ seen \in [Tracks -> 0 .. Never] /\ called \subseteq Tracks /\ hold \in [Tracks -> 0 .. TTL]
    /\ \A t \in Tracks : group[t] = None \/ group[t] \in [age : 0 .. Never, rank : Ranks]
    /\ drawn \in [Tracks -> 0 .. Stale] /\ plan \subseteq Tracks
    /\ layer = "sitaware" => Cardinality({t \in Tracks : drawn[t] > 0}) <= MaxItems[cast]

\* Two tracks that are copies of one object: one is keyed by the other's address, or
\* has its callsign close by, or both lack an address and have one name close by.
KeyOf(k, t) ==
    /\ Keyed(k) /\ ~Keyed(t)
    /\ \/ Desc[k].icao = Desc[t].address
       \/ Desc[k].call # None /\ Desc[k].call = Desc[t].call /\ {k, t} \in Near

SameObject(t, u) ==
    \/ t = u \/ KeyOf(t, u) \/ KeyOf(u, t)
    \/ /\ ~Keyed(t) /\ ~Keyed(u) /\ {t, u} \in Near
       /\ Desc[t].name # None /\ Desc[t].name = Desc[u].name

\* A track is held back only for another copy of its object, which was itself
\* seen no longer ago than TWIN_FRESH_S and the age of the hold: an object whose
\* better copy has gone is never hidden for longer.
HeldForAnother ==
    \A t \in Tracks : hold[t] > 0 =>
        ~Keyed(t) /\ \E u \in Tracks \ {t} : SameObject(t, u) /\ seen[u] <= Fresh + TTL - hold[t]

\* When feeds have settled, an object that some feed keeps reporting has exactly
\* one marker, for good, whichever copies come, go and declare; with a copy that
\* is reported rarely, again and again.  The NVG cache must hold what is reported.
Markers(t) == {u \in cast : SameObject(t, u) /\ drawn[u] > 0}
OneMarker(t) == Cardinality(Markers(t)) = 1
Steady(t) == \E u \in active \ Slow : SameObject(t, u)
Room == layer = "sitaware" => Cardinality(cast) <= MaxItems[cast]
Rare(t) == \E u \in cast \cap Slow : SameObject(t, u)

OneMarkerSettles ==
    \A t \in Tracks :
        <>[](t \in cast /\ Steady(t) /\ Room) => IF t \in Slow THEN []<>OneMarker(t) ELSE <>[](Rare(t) \/ OneMarker(t))

\* A track that is not reported any more leaves the map, though dead reckoning
\* may send a marker it copied before the tombstone.
GoneLeaves == \A t \in Tracks : <>[](t \notin active) => <>[](drawn[t] = 0)
=============================================================================
