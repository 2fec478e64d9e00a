---------------------------- MODULE MarkersProofs ----------------------------
(***************************************************************************)
(* Theorems about Markers for any finite set of tracks, whatever they are  *)
(* keyed by and called, and any lives of holds and markers.                *)
(*                                                                         *)
(* HeldForAnother is not inductive: what the fuser announces of a named    *)
(* group rests on the ages the group keeps.  GroupInv adds that they are   *)
(* never younger than what has been seen, and that only tracks without an  *)
(* address are in a group; CalledInv, that the table of callsigns holds    *)
(* keyed tracks.  The bound on SitaWare's cache needs that only  *)
(* the TAK layer extrapolates.                                             *)
(***************************************************************************)
EXTENDS Markers, TLAPS, FiniteSetTheorems

GroupEntry == [age : 0 .. Never, rank : Ranks]

\* The items of the layer's map.
Items == {t \in Tracks : drawn[t] > 0}

LayerInv ==
    /\ layer \in {"tak", "sitaware"} /\ cast \in Casts /\ cast \subseteq Tracks
    /\ group \in [Tracks -> GroupEntry \cup {None}]
    /\ layer = "sitaware" => plan = {}

GroupInv == \A u \in Tracks : group[u] # None => ~Keyed(u) /\ seen[u] <= group[u].age

\* TwinIndex._by_call holds keyed tracks under the callsigns they have.
CalledInv == \A k \in called : Keyed(k) /\ Desc[k].call # None

MarkersInv == MarkersTypeOK /\ LayerInv /\ GroupInv /\ CalledInv /\ HeldForAnother

------------------------------------------------------------------------------
(* The constants, and one tick more.                                          *)

\* The bounds are natural numbers.
LEMMA Numbers ==
    /\ TTL \in Nat /\ Fresh \in Nat /\ Stale \in Nat /\ DrLife \in Nat
    /\ \A c \in Casts : MaxItems[c] \in Nat /\ 1 <= MaxItems[c]
    /\ Never \in Nat /\ DrLife < Stale /\ Fresh + TTL < Never
    BY MarkerBounds DEF Never

\* An age grows by at most one, and keeps the order of ages.
LEMMA Ageing ==
    ASSUME NEW a \in 0 .. Never
    PROVE  Older(a) \in 0 .. Never /\ Older(a) <= a + 1 /\ \A b \in 0 .. Never : b <= a => Older(b) <= Older(a)
    BY Numbers DEF Older

\* The map is a finite set of items.
LEMMA ItemsFinite == IsFiniteSet(Items) /\ Cardinality(Items) \in Nat
<1>1. IsFiniteSet(Items)
    BY MarkerBounds, FS_Subset DEF Items
<1> QED
    BY <1>1, FS_CardinalityType

------------------------------------------------------------------------------
(* The cache.                                                                  *)

\* Items of which none is new are no more than before.
LEMMA FewerItems ==
    ASSUME Items' \subseteq Items
    PROVE  Cardinality(Items') <= Cardinality(Items)
    BY ItemsFinite, FS_Subset

\* Drawing a track gives up another one when the cache is full.
LEMMA EvictionBounds ==
    ASSUME MarkersTypeOK, cast \in Casts, NEW t \in Tracks, layer = "sitaware", Draw(t)
    PROVE  Cardinality(Items') <= MaxItems[cast]
<1> USE Numbers, ItemsFinite
<1>1. Cardinality(Items) <= MaxItems[cast]
    BY DEF MarkersTypeOK, Items
<1>2. PICK out \in Evicted(t) :
        drawn' = [u \in Tracks |-> IF u = t THEN Stale ELSE IF u \in out THEN 0 ELSE drawn[u]]
    BY DEF Draw
<1>3. Items' = (Items \ out) \cup {t}
    <2>1. Stale > 0
        BY MarkerBounds
    <2> QED
        BY <1>2, <2>1 DEF Items
<1>4. CASE t \in Items
    <2>1. Items' \subseteq Items
        BY <1>3, <1>4
    <2>2. Cardinality(Items') \in Nat
        BY <2>1, FS_Subset, FS_CardinalityType
    <2> QED
        BY <1>1, <2>1, <2>2, FewerItems
<1>5. CASE t \notin Items /\ Cardinality(Items) >= MaxItems[cast]
    <2>1. PICK v \in Items : out = {v}
        BY <1>2, <1>5 DEF Evicted, Items
    <2>2. IsFiniteSet(Items \ {v}) /\ Cardinality(Items \ {v}) = Cardinality(Items) - 1
        BY <2>1, FS_RemoveElement
    <2>3. t \notin Items \ {v}
        BY <1>5
    <2>4. Cardinality((Items \ {v}) \cup {t}) = Cardinality(Items \ {v}) + 1
        BY <2>2, <2>3, FS_AddElement
    <2> QED
        BY <1>1, <1>3, <2>1, <2>2, <2>4
<1>6. CASE t \notin Items /\ ~(Cardinality(Items) >= MaxItems[cast])
    <2>1. out = {}
        BY <1>2, <1>6 DEF Evicted, Items
    <2>2. Cardinality(Items \cup {t}) = Cardinality(Items) + 1
        BY <1>6, FS_AddElement
    <2> QED
        BY <1>3, <1>6, <2>1, <2>2
<1> QED
    BY <1>4, <1>5, <1>6

------------------------------------------------------------------------------
(* The fuser.                                                                  *)

\* Whoever leaves TwinIndex and the holds alone keeps what they promise.
LEMMA FuserQuiet ==
    ASSUME GroupInv, CalledInv, HeldForAnother, UNCHANGED <<seen, called, group, hold>>
    PROVE  GroupInv' /\ CalledInv' /\ HeldForAnother'
    BY DEF GroupInv, CalledInv, HeldForAnother, SameObject, KeyOf, Keyed

\* A loose track's twin is another copy of its object.
LEMMA TwinIsAnother ==
    ASSUME NEW t \in Tracks, ~Keyed(t), NEW at \in [Tracks -> 0 .. Never],
           NEW by \in SUBSET Tracks, \A k \in by : Keyed(k) /\ Desc[k].call # None,
           _is_twin(t, at, by)
    PROVE  \E u \in Tracks \ {t} : SameObject(t, u) /\ at[u] <= Fresh
<1>1. PICK k \in Originals(t, by) : at[k] <= Fresh
    BY DEF _is_twin
<1>2. k \in Tracks /\ KeyOf(k, t)
    BY <1>1 DEF Originals, KeyOf
<1>3. k # t /\ SameObject(t, k)
    BY <1>2 DEF SameObject, KeyOf
<1> QED
    BY <1>1, <1>2, <1>3

\* The table of callsigns after a report.
LEMMA HeardCalled ==
    ASSUME MarkersTypeOK, CalledInv, NEW t \in Tracks
    PROVE  heard(t) \in SUBSET Tracks /\ \A k \in heard(t) : Keyed(k) /\ Desc[k].call # None
    BY DEF heard, MarkersTypeOK, CalledInv

\* The group after a report has typed members, all of them without an address, and
\* the members of the track's name are no older than TWIN_FRESH_S.
LEMMA EnteredGroup ==
    ASSUME MarkersTypeOK, LayerInv, GroupInv, NEW t \in Tracks, ~Keyed(t)
    PROVE  /\ entered(t) \in [Tracks -> GroupEntry \cup {None}]
           /\ \A u \in Tracks : entered(t)[u] # None =>
                ~Keyed(u) /\ [seen EXCEPT ![t] = 0][u] <= entered(t)[u].age
           /\ \A u \in Members(entered(t), t) : entered(t)[u].age <= Fresh
<1> DEFINE g == [group EXCEPT ![t] = [age |-> 0, rank |-> rank[t]]]
<1>1. [age |-> 0, rank |-> rank[t]] \in GroupEntry
    BY Numbers DEF GroupEntry, MarkersTypeOK
<1>2. g \in [Tracks -> GroupEntry \cup {None}]
    BY <1>1 DEF LayerInv
<1>3. \A u \in Tracks : g[u] # None => ~Keyed(u) /\ [seen EXCEPT ![t] = 0][u] <= g[u].age
    BY <1>1 DEF GroupInv, LayerInv, MarkersTypeOK
<1>4. entered(t) = [u \in Tracks |-> IF u \in Members(g, t) /\ g[u].age > Fresh THEN None ELSE g[u]]
    BY DEF entered
<1> HIDE DEF g
<1>5. \A u \in Members(entered(t), t) : u \in Members(g, t) /\ entered(t)[u] = g[u] /\ ~(g[u].age > Fresh)
    BY <1>4 DEF Members
<1>6. \A u \in Members(g, t) : g[u].age \in Nat
    BY <1>2, Numbers DEF Members, GroupEntry
<1> QED
    BY <1>2, <1>3, <1>4, <1>5, <1>6, Numbers

\* A report that the fuser takes keeps what groups and holds promise.
LEMMA ObserveKeeps ==
    ASSUME MarkersInv, NEW t \in Tracks, observe(t)
    PROVE  /\ seen' \in [Tracks -> 0 .. Never] /\ hold' \in [Tracks -> 0 .. TTL]
           /\ group' \in [Tracks -> GroupEntry \cup {None}]
           /\ called' \subseteq Tracks /\ GroupInv' /\ CalledInv' /\ HeldForAnother'
<1> DEFINE at == [seen EXCEPT ![t] = 0]
           by == heard(t)
<1> USE Numbers
<1>1. seen' = at /\ at \in [Tracks -> 0 .. Never] /\ \A u \in Tracks : at[u] <= seen[u]
    BY DEF observe, MarkersInv, MarkersTypeOK
<1>0. /\ called' = by /\ by \in SUBSET Tracks
      /\ \A k \in by : Keyed(k) /\ Desc[k].call # None
    BY HeardCalled DEF observe, MarkersInv
<1>8. called' \subseteq Tracks /\ CalledInv'
    BY <1>0 DEF CalledInv, Keyed
<1> HIDE DEF by
<1>2. ASSUME NEW ts \in SUBSET Tracks, Announce(ts),
             \A u \in ts : ~Keyed(u) /\ \E b \in Tracks \ {u} : SameObject(u, b) /\ at[b] <= Fresh
      PROVE  hold' \in [Tracks -> 0 .. TTL] /\ HeldForAnother'
    <2>1. hold \in [Tracks -> 0 .. TTL] /\ HeldForAnother
        BY DEF MarkersInv, MarkersTypeOK
    <2>2. hold' \in [Tracks -> 0 .. TTL]
        BY <1>2, <2>1 DEF Announce
    <2>3. ASSUME NEW u \in Tracks, hold'[u] > 0
          PROVE  ~Keyed(u) /\ \E b \in Tracks \ {u} : SameObject(u, b) /\ seen'[b] <= Fresh + TTL - hold'[u]
        <3>1. CASE u \in ts
            BY <1>1, <1>2, <2>3, <3>1 DEF Announce
        <3>2. CASE u \notin ts
            <4>1. hold'[u] = hold[u]
                BY <1>2, <3>2 DEF Announce
            <4>2. PICK b \in Tracks \ {u} : SameObject(u, b) /\ seen[b] <= Fresh + TTL - hold[u]
                BY <2>1, <2>3, <4>1 DEF HeldForAnother
            <4>3. at[b] <= Fresh + TTL - hold[u]
                BY <1>1, <2>1, <4>2 DEF MarkersInv, MarkersTypeOK
            <4> QED
                BY <1>1, <2>1, <2>3, <4>1, <4>2, <4>3 DEF HeldForAnother
        <3> QED
            BY <3>1, <3>2
    <2> QED
        BY <2>2, <2>3 DEF HeldForAnother, SameObject, KeyOf, Keyed
<1>3. group' = group => GroupInv' /\ group' \in [Tracks -> GroupEntry \cup {None}]
    BY <1>1 DEF MarkersInv, MarkersTypeOK, GroupInv, LayerInv, Keyed, GroupEntry
<1>4. CASE Keyed(t)
    <2> DEFINE ts == {u \in Tracks : ~Keyed(u) /\ _is_twin(u, at, by)}
    <2>1. Announce(ts) /\ group' = group
        BY <1>4 DEF observe, by
    <2>2. \A u \in ts : \E b \in Tracks \ {u} : SameObject(u, b) /\ at[b] <= Fresh
        BY <1>0, <1>1, TwinIsAnother
    <2>3. hold' \in [Tracks -> 0 .. TTL] /\ HeldForAnother'
        BY <1>2, <2>1, <2>2
    <2> QED
        BY <1>1, <1>3, <1>8, <2>1, <2>3
<1>5. CASE ~Keyed(t) /\ _is_twin(t, at, by)
    <2>1. Announce({t}) /\ group' = group
        BY <1>5 DEF observe, by
    <2>2. \E b \in Tracks \ {t} : SameObject(t, b) /\ at[b] <= Fresh
        BY <1>0, <1>1, <1>5, TwinIsAnother
    <2>3. hold' \in [Tracks -> 0 .. TTL] /\ HeldForAnother'
        BY <1>2, <1>5, <2>1, <2>2
    <2> QED
        BY <1>1, <1>3, <1>8, <2>1, <2>3
<1>6. CASE ~Keyed(t) /\ ~_is_twin(t, at, by) /\ Desc[t].name = None
    <2>1. group' = group /\ hold' = hold
        BY <1>6 DEF observe, by
    <2>2. Announce({})
        BY <2>1 DEF Announce, MarkersInv, MarkersTypeOK
    <2> QED
        BY <1>1, <1>2, <1>3, <1>8, <2>1, <2>2
<1>7. CASE ~Keyed(t) /\ ~_is_twin(t, at, by) /\ Desc[t].name # None
    <2> DEFINE g == entered(t)
               ts == _named_twins(g, t)
    <2>1. group' = g /\ Announce(ts)
        BY <1>7 DEF observe, by
    <2>2. /\ g \in [Tracks -> GroupEntry \cup {None}]
          /\ \A u \in Tracks : g[u] # None => ~Keyed(u) /\ at[u] <= g[u].age
          /\ \A u \in Members(g, t) : g[u].age <= Fresh
        BY <1>7, EnteredGroup DEF MarkersInv
    <2> HIDE DEF g
    <2>3. ASSUME NEW u \in ts
          PROVE  ~Keyed(u) /\ \E b \in Tracks \ {u} : SameObject(u, b) /\ at[b] <= Fresh
        <3>1. PICK b \in Members(g, t) : b # u /\ {b, u} \in Near
            BY DEF _named_twins, Best
        <3>2. u \in Members(g, t)
            BY DEF _named_twins
        <3>3. b \in Tracks /\ g[b] \in GroupEntry
            BY <2>2, <3>1 DEF Members
        <3>4. at[b] <= Fresh
            <4> HIDE DEF at
            <4>1. g[b].age \in 0 .. Never /\ at[b] \in 0 .. Never
                BY <1>1, <3>3 DEF GroupEntry
            <4>2. at[b] <= g[b].age /\ g[b].age <= Fresh
                BY <2>2, <3>1, <3>3 DEF Members
            <4> QED
                BY <4>1, <4>2
        <3>5. SameObject(u, b)
            <4>1. ~Keyed(u) /\ ~Keyed(b) /\ Desc[u].name = Desc[b].name /\ Desc[u].name # None
                BY <1>7, <2>2, <3>1, <3>2 DEF Members
            <4>2. {u, b} = {b, u}
                OBVIOUS
            <4> QED
                BY <3>1, <4>1, <4>2 DEF SameObject
        <3> QED
            BY <2>2, <3>1, <3>2, <3>4, <3>5 DEF Members
    <2>4. ts \subseteq Tracks
        BY DEF _named_twins, Members
    <2>5. hold' \in [Tracks -> 0 .. TTL] /\ HeldForAnother'
        BY <1>2, <2>1, <2>3, <2>4
    <2>6. GroupInv'
        BY <1>1, <2>1, <2>2 DEF GroupInv, Keyed
    <2> QED
        BY <1>1, <1>8, <2>1, <2>2, <2>5, <2>6
<1> QED
    BY <1>4, <1>5, <1>6, <1>7

------------------------------------------------------------------------------
(* Every step keeps the invariant.                                             *)

\* The feeds change nothing of the fuser's or the layer's.
LEMMA FeedsKeep ==
    ASSUME MarkersInv, NEW t \in Tracks,
           Report(t) \/ Withdraw(t) \/ Switch(t) \/ \E r \in Ranks : Redeclare(t, r)
    PROVE  MarkersInv'
<1>1. UNCHANGED <<layer, cast, seen, called, group, hold, drawn, plan>>
    BY DEF Report, Withdraw, Switch, Redeclare, fuser, map
<1>2. active' \subseteq cast /\ due' \subseteq cast
    BY DEF Report, Withdraw, Switch, Redeclare, MarkersInv, MarkersTypeOK
<1>3. rank' \in [Tracks -> Ranks]
    BY DEF Report, Withdraw, Switch, Redeclare, MarkersInv, MarkersTypeOK
<1>4. MarkersTypeOK'
    BY <1>1, <1>2, <1>3 DEF MarkersInv, MarkersTypeOK
<1>5. LayerInv'
    BY <1>1 DEF MarkersInv, LayerInv
<1> QED
    BY <1>1, <1>4, <1>5, FuserQuiet DEF MarkersInv

\* The fuser's callback.
LEMMA FuserKeeps ==
    ASSUME MarkersInv, NEW t \in Tracks, on_any_track(t)
    PROVE  MarkersInv'
<1>1. UNCHANGED <<layer, cast, active, due, rank, drawn, plan>>
    BY DEF on_any_track, feeds, map
<1>2. CASE UNCHANGED <<seen, called, group, hold>>
    <2>1. MarkersTypeOK' /\ LayerInv'
        BY <1>1, <1>2 DEF MarkersInv, MarkersTypeOK, LayerInv
    <2> QED
        BY <1>2, <2>1, FuserQuiet DEF MarkersInv
<1>3. CASE observe(t)
    <2>1. LayerInv'
        BY <1>1, <1>3, ObserveKeeps DEF MarkersInv, LayerInv
    <2>2. \A u \in Tracks : group'[u] = None \/ group'[u] \in GroupEntry
        BY <1>3, ObserveKeeps
    <2>3. MarkersTypeOK'
        BY <1>1, <1>3, <2>2, ObserveKeeps DEF MarkersInv, MarkersTypeOK, GroupEntry
    <2> QED
        BY <1>3, <2>1, <2>3, ObserveKeeps DEF MarkersInv
<1> QED
    BY <1>2, <1>3 DEF on_any_track, fuser

\* The layer's handler, and the dead reckoning of the TAK layer.
LEMMA LayerKeeps ==
    ASSUME MarkersInv,
           DeadReckoning \/ \E t \in Tracks : handler(t) \/ SendExtrapolated(t)
    PROVE  MarkersInv'
<1>1. UNCHANGED <<layer, cast, active, due, rank, seen, called, group, hold>>
    BY DEF DeadReckoning, handler, SendExtrapolated, feeds, fuser
<1>2. GroupInv' /\ CalledInv' /\ HeldForAnother'
    BY <1>1, FuserQuiet DEF MarkersInv
<1>3. /\ drawn' \in [Tracks -> 0 .. Stale] /\ plan' \subseteq Tracks
      /\ layer = "sitaware" => plan' = {} /\ Cardinality(Items') <= MaxItems[cast]
    <2> USE Numbers DEF MarkersInv, MarkersTypeOK, LayerInv
    <2>1. CASE DeadReckoning
        BY <2>1 DEF DeadReckoning, Extrapolated, Items
    <2>2. ASSUME NEW t \in Tracks, SendExtrapolated(t)
          PROVE  drawn' \in [Tracks -> 0 .. Stale] /\ plan' \subseteq Tracks /\ layer # "sitaware"
        BY <2>2 DEF SendExtrapolated
    <2>3. ASSUME NEW t \in Tracks, handler(t), Erase(t)
          PROVE  /\ drawn' \in [Tracks -> 0 .. Stale] /\ plan' \subseteq Tracks
                 /\ layer = "sitaware" => plan' = {} /\ Cardinality(Items') <= MaxItems[cast]
        <3>1. drawn' \in [Tracks -> 0 .. Stale] /\ plan' = plan /\ Items' \subseteq Items
            BY <2>3 DEF handler, Erase, Items
        <3>2. Cardinality(Items') \in Nat
            BY <3>1, ItemsFinite, FS_Subset, FS_CardinalityType
        <3>3. layer = "sitaware" => Cardinality(Items') <= MaxItems[cast]
            BY <3>1, <3>2, ItemsFinite, FewerItems DEF Items
        <3> QED
            BY <3>1, <3>3
    <2>4. ASSUME NEW t \in Tracks, handler(t), Draw(t)
          PROVE  /\ drawn' \in [Tracks -> 0 .. Stale] /\ plan' \subseteq Tracks
                 /\ layer = "sitaware" => plan' = {} /\ Cardinality(Items') <= MaxItems[cast]
        <3>1. drawn' \in [Tracks -> 0 .. Stale] /\ plan' = plan
            BY <2>4 DEF handler, Draw
        <3> QED
            BY <2>4, <3>1, EvictionBounds
    <2> QED
        BY <2>1, <2>2, <2>3, <2>4 DEF handler
<1>4. MarkersTypeOK'
    BY <1>1, <1>3 DEF MarkersInv, MarkersTypeOK, Items
<1>5. LayerInv'
    BY <1>1, <1>3 DEF MarkersInv, LayerInv
<1> QED
    BY <1>2, <1>4, <1>5 DEF MarkersInv

\* A tick: a hold loses as much as the copy it rests on grows older.
LEMMA TickKeeps ==
    ASSUME MarkersInv, Tick
    PROVE  MarkersInv'
<1> USE Numbers, Ageing
<1>1. seen \in [Tracks -> 0 .. Never] /\ hold \in [Tracks -> 0 .. TTL] /\ drawn \in [Tracks -> 0 .. Stale]
    BY DEF MarkersInv, MarkersTypeOK
<1>2. seen' \in [Tracks -> 0 .. Never] /\ \A t \in Tracks : seen'[t] = Older(seen[t])
    BY <1>1 DEF Tick
<1>3. hold' \in [Tracks -> 0 .. TTL] /\ \A t \in Tracks : hold'[t] > 0 => hold[t] = hold'[t] + 1
    BY <1>1 DEF Tick
<1>4. drawn' \in [Tracks -> 0 .. Stale] /\ Items' \subseteq Items
    BY <1>1 DEF Tick, Items
<1>5. ASSUME NEW t \in Tracks, group[t] # None
      PROVE  group'[t] = [age |-> Older(group[t].age), rank |-> group[t].rank] /\ group'[t] \in GroupEntry
    BY <1>5 DEF Tick, MarkersInv, LayerInv, GroupEntry
<1>6. \A t \in Tracks : group[t] = None => group'[t] = None
    BY DEF Tick
<1>7. group' \in [Tracks -> GroupEntry \cup {None}]
    BY <1>5, <1>6 DEF Tick
<1>8. layer = "sitaware" => Cardinality(Items') <= MaxItems[cast]
    <2>1. Cardinality(Items') \in Nat
        BY <1>4, ItemsFinite, FS_Subset, FS_CardinalityType
    <2>2. MaxItems[cast] \in Nat
        BY DEF MarkersInv, LayerInv
    <2>3. layer = "sitaware" => Cardinality(Items) <= MaxItems[cast]
        BY DEF MarkersInv, MarkersTypeOK, Items
    <2>4. Cardinality(Items') <= Cardinality(Items)
        BY <1>4, FewerItems
    <2> QED
        BY <2>1, <2>2, <2>3, <2>4, ItemsFinite
<1>9. MarkersTypeOK'
    <2>1. \A t \in Tracks : group'[t] = None \/ group'[t] \in GroupEntry
        BY <1>7
    <2> QED
        BY <1>2, <1>3, <1>4, <1>8, <2>1 DEF Tick, MarkersInv, MarkersTypeOK, Items, GroupEntry
<1>10. LayerInv'
    BY <1>7 DEF Tick, MarkersInv, LayerInv
<1>11. GroupInv'
    <2> SUFFICES ASSUME NEW u \in Tracks, group'[u] # None
                 PROVE  ~Keyed(u) /\ seen'[u] <= group'[u].age
        BY DEF GroupInv, Keyed
    <2>1. group[u] # None /\ group[u].age \in 0 .. Never
        BY <1>6 DEF MarkersInv, LayerInv, GroupEntry
    <2>2. ~Keyed(u) /\ seen[u] <= group[u].age
        BY <2>1 DEF MarkersInv, GroupInv
    <2>3. Older(seen[u]) <= Older(group[u].age)
        BY <1>1, <2>1, <2>2
    <2>4. group'[u] = [age |-> Older(group[u].age), rank |-> group[u].rank]
        BY <1>5, <2>1
    <2>5. group'[u].age = Older(group[u].age) /\ seen'[u] = Older(seen[u])
        BY <1>2, <2>4
    <2> QED
        BY <2>2, <2>3, <2>5
<1>12. HeldForAnother'
    <2> SUFFICES ASSUME NEW t \in Tracks, hold'[t] > 0
                 PROVE  ~Keyed(t) /\ \E u \in Tracks \ {t} :
                          SameObject(t, u) /\ seen'[u] <= Fresh + TTL - hold'[t]
        BY DEF HeldForAnother, SameObject, KeyOf, Keyed
    <2>1. hold[t] = hold'[t] + 1
        BY <1>3
    <2>2. PICK u \in Tracks \ {t} : SameObject(t, u) /\ seen[u] <= Fresh + TTL - hold[t]
        BY <1>1, <1>3, <2>1 DEF MarkersInv, HeldForAnother
    <2>3. seen'[u] <= Fresh + TTL - hold'[t]
        BY <1>1, <1>2, <1>3, <2>1, <2>2
    <2> QED
        BY <1>1, <1>3, <2>1, <2>2, <2>3 DEF MarkersInv, HeldForAnother
<1>13. CalledInv'
    BY DEF Tick, MarkersInv, CalledInv, Keyed
<1> QED
    BY <1>9, <1>10, <1>11, <1>12, <1>13 DEF MarkersInv

\* The inductive invariant holds throughout.
THEOREM MarkersInvariant == Spec => []MarkersInv
<1>1. Init => MarkersInv
    <2> SUFFICES ASSUME Init PROVE MarkersInv
        OBVIOUS
    <2> USE Numbers
    <2>1. Cardinality(Items) <= MaxItems[cast]
        <3>1. Items = {}
            BY DEF Init, Items
        <3> QED
            BY <3>1, FS_EmptySet DEF Init
    <2>2. MarkersTypeOK
        BY <2>1, MarkerBounds DEF Init, MarkersTypeOK, Items
    <2>3. LayerInv
        BY MarkerBounds DEF Init, LayerInv
    <2>4. GroupInv /\ CalledInv /\ HeldForAnother
        BY DEF Init, GroupInv, CalledInv, HeldForAnother
    <2> QED
        BY <2>2, <2>3, <2>4 DEF MarkersInv
<1>2. MarkersInv /\ [Next]_vars => MarkersInv'
    <2> SUFFICES ASSUME MarkersInv, [Next]_vars PROVE MarkersInv'
        OBVIOUS
    <2>1. CASE UNCHANGED vars
        <3>1. UNCHANGED <<layer, cast, active, due, rank, seen, called, group, hold, drawn, plan>>
            BY <2>1 DEF vars, feeds, fuser, map
        <3>2. MarkersTypeOK' /\ LayerInv'
            BY <3>1 DEF MarkersInv, MarkersTypeOK, LayerInv
        <3> QED
            BY <3>1, <3>2, FuserQuiet DEF MarkersInv
    <2>2. CASE Next
        BY <2>2, FeedsKeep, FuserKeeps, LayerKeeps, TickKeeps DEF Next
    <2> QED
        BY <2>1, <2>2
<1> QED
    BY <1>1, <1>2, PTL DEF Spec

\* Every variable of the twin filter and of the layer keeps its type, and the NVG
\* feed of SitaWare never holds more items than its limit.
THEOREM MarkersTypes == Spec => []MarkersTypeOK
<1>1. MarkersInv => MarkersTypeOK
    BY DEF MarkersInv
<1> QED
    BY <1>1, MarkersInvariant, PTL

\* A track is held back only for another copy of its object that was seen recently
\* enough, however reports, announcements and ticks interleave.
THEOREM HoldsAreJustified == Spec => []HeldForAnother
<1>1. MarkersInv => HeldForAnother
    BY DEF MarkersInv
<1> QED
    BY <1>1, MarkersInvariant, PTL
==============================================================================
