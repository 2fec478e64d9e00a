---------------------------- MODULE FusionProofs ----------------------------
(***************************************************************************)
(* Theorems about Fusion for any contacts, aircraft, threats and places,   *)
(* any association by number or address, and any ages and holds.           *)
(*                                                                         *)
(* HoldHasReport is not inductive: the hold is set when the track is       *)
(* published, a step after its report was taken in.  FusingInv adds that   *)
(* the report being fused is of this tick.  MarkerNotSplit needs types,    *)
(* and what _age_out does to a primary and its secondaries.                *)
(***************************************************************************)
EXTENDS Fusion, TLAPS

AdsbEntry == [at : Places, squawk : Squawks, age : 0 .. Old]

FusingInv ==
    /\ adsb \in [Aircraft -> AdsbEntry \cup {None}]
    /\ falling = None \/ falling \in [icao : Aircraft, covered : BOOLEAN]
    /\ fusing # None => last[fusing].age = 0

FusionInv == FusionTypeOK /\ FusingInv /\ HoldHasReport

-----------------------------------------------------------------------------
(* The constants.                                                            *)

\* Ages and holds are natural numbers.
LEMMA Numbers == MaxAge \in Nat /\ TTL \in Nat /\ Old \in Nat /\ 0 < TTL /\ MaxAge < Old
    BY FusionBounds DEF Old

\* Every contact is known under a uid.
LEMMA UidOfContact == \A c \in Contacts : _uid_of(c) \in Uids
    BY DEF Uids

\* An age grows by at most one, and a hold that is left has lost one.
LEMMA Ageing ==
    /\ \A a \in 0 .. Old : Older(a) \in 0 .. Old /\ Older(a) <= a + 1
    /\ \A n \in 0 .. TTL : Remaining(n) \in 0 .. TTL /\ (Remaining(n) > 0 => n = Remaining(n) + 1)
    BY Numbers DEF Older, Remaining

-----------------------------------------------------------------------------
(* Ageing out.                                                               *)

\* The caches after _age_out have the types they had before.
LEMMA FreshTypes ==
    ASSUME FusionTypeOK, FusingInv, NEW f \in Promotions
    PROVE  /\ freshRadar \in [Uids -> Contacts \cup {None}]
           /\ promoted(f) \in [Uids -> Uids \cup {None}]
           /\ freshAdsb \in [Aircraft -> AdsbEntry \cup {None}]
           /\ freshSquawks \in [Squawks -> SUBSET Aircraft]
<1>1. freshRadar \in [Uids -> Contacts \cup {None}]
    BY DEF freshRadar, FusionTypeOK
<1>2. promoted(f) \in [Uids -> Uids \cup {None}]
    <2>1. f \in [Leaving -> Uids]
        BY DEF Promotions
    <2> QED
        BY <2>1 DEF promoted, FusionTypeOK
<1>3. freshAdsb \in [Aircraft -> AdsbEntry \cup {None}]
    BY DEF freshAdsb, FusingInv
<1>4. freshSquawks \in [Squawks -> SUBSET Aircraft]
    BY DEF freshSquawks, FusionTypeOK
<1> QED
    BY <1>1, <1>2, <1>3, <1>4

\* Two tracks that stay and had one primary have one after it, and it stays too.
LEMMA SurvivorsShare ==
    ASSUME FusionTypeOK, NEW f \in Promotions, NEW u \in Held \ StaleRadar, NEW v \in Held \ StaleRadar,
           primary[u] = primary[v]
    PROVE  /\ promoted(f)[u] = promoted(f)[v]
           /\ Rooted(u) => promoted(f)[u] \in Held \ StaleRadar
<1>1. u \in Uids /\ v \in Uids
    BY DEF Held
<1>2. promoted(f)[u] = promoted(f)[v]
    BY <1>1 DEF promoted
<1>3. DOMAIN f = Leaving /\ \A k \in Leaving : f[k] \in Secondaries(k)
    BY DEF Promotions
<1>0. SUFFICES ASSUME Rooted(u) PROVE promoted(f)[u] \in Held \ StaleRadar
    BY <1>2
<1>4. CASE primary[u] \in Leaving
    <2>1. promoted(f)[u] = f[primary[u]]
        BY <1>1, <1>3, <1>4 DEF promoted
    <2> QED
        BY <1>3, <1>4, <2>1 DEF Secondaries
<1>5. CASE primary[u] \notin Leaving
    <2>1. u \in Secondaries(primary[u])
        BY DEF Secondaries
    <2>2. primary[u] \notin StaleRadar
        BY <1>0, <1>5, <2>1 DEF Leaving, Rooted
    <2>3. promoted(f)[u] = primary[u]
        BY <1>1, <1>3, <1>5 DEF promoted
    <2> QED
        BY <1>0, <2>2, <2>3 DEF Rooted
<1> QED
    BY <1>4, <1>5

-----------------------------------------------------------------------------
(* Types.                                                                    *)

\* The association of a report is a uid, or what it was.
LEMMA AssociateType ==
    ASSUME NEW c \in Contacts, NEW at, NEW held, NEW prim \in [Uids -> Uids \cup {None}],
           NEW p \in _cross_radar_associate(c, at, held, prim)
    PROVE  p \in Uids \cup {None}
    BY UidOfContact DEF _cross_radar_associate, Consistent

\* A radar report keeps the types.
LEMMA RadarTypes ==
    ASSUME FusionTypeOK, FusingInv, NEW c \in Contacts, NEW at \in Places, on_radar(c, at)
    PROVE  FusionTypeOK' /\ FusingInv'
<1> USE Numbers, UidOfContact
<1>1. PICK f \in Promotions : \E p \in _cross_radar_associate(c, at, freshRadar, promoted(f)) :
            primary' = [promoted(f) EXCEPT ![_uid_of(c)] = p]
    BY DEF on_radar
<1>2. primary' \in [Uids -> Uids \cup {None}]
    BY <1>1, FreshTypes, AssociateType
<1>3. owner' \in [Uids -> Contacts \cup {None}]
    BY <1>1, FreshTypes DEF on_radar
<1>4. adsb' \in [Aircraft -> AdsbEntry \cup {None}] /\ squawks' \in [Squawks -> SUBSET Aircraft]
    BY <1>1, FreshTypes DEF on_radar
<1>5. last' \in [Contacts -> [at : Places, age : 0 .. Old]] /\ last'[c].age = 0
    BY DEF on_radar, FusionTypeOK
<1>6. fusing' = c /\ UNCHANGED <<cast, lost, neptun, falling, shown, listed, until, retracted>>
    BY DEF on_radar, bridge
<1>7. FusingInv'
    BY <1>4, <1>5, <1>6 DEF FusingInv
<1>8. \A i \in Aircraft : adsb'[i] = None \/ adsb'[i] \in AdsbEntry
    BY <1>4
<1> QED
    BY <1>2, <1>3, <1>4, <1>5, <1>6, <1>7, <1>8 DEF FusionTypeOK, AdsbEntry

\* An ADS-B report keeps the types.
LEMMA AdsbTypes ==
    ASSUME FusionTypeOK, FusingInv,
           NEW i \in Aircraft, NEW at \in Places, NEW q \in Squawks, on_adsb(i, at, q)
    PROVE  FusionTypeOK' /\ FusingInv'
<1> USE Numbers
<1>1. PICK f \in Promotions : primary' = promoted(f)
    BY DEF on_adsb
<1>2. [at |-> at, squawk |-> q, age |-> 0] \in AdsbEntry
    BY DEF AdsbEntry
<1>3. primary' \in [Uids -> Uids \cup {None}] /\ owner' \in [Uids -> Contacts \cup {None}]
    BY <1>1, FreshTypes DEF on_adsb
<1>4. adsb' \in [Aircraft -> AdsbEntry \cup {None}]
    BY <1>1, <1>2, FreshTypes DEF on_adsb
<1>5. squawks' \in [Squawks -> SUBSET Aircraft]
    BY <1>1, FreshTypes DEF on_adsb
<1>6. falling' \in [icao : Aircraft, covered : BOOLEAN]
    BY DEF on_adsb, radar_covers
<1>7. UNCHANGED <<cast, lost, last, neptun, fusing, shown, listed, until, retracted>>
    BY DEF on_adsb, bridge
<1>8. FusingInv'
    BY <1>4, <1>6, <1>7 DEF FusingInv
<1>9. \A j \in Aircraft : adsb'[j] = None \/ adsb'[j] \in AdsbEntry
    BY <1>4
<1> QED
    BY <1>3, <1>5, <1>7, <1>8, <1>9 DEF FusionTypeOK, AdsbEntry

\* The timer's _age_out keeps the types.
LEMMA AgeOutTypes ==
    ASSUME FusionTypeOK, FusingInv, _age_out
    PROVE  FusionTypeOK' /\ FusingInv'
<1>1. PICK f \in Promotions : primary' = promoted(f)
    BY DEF _age_out
<1>2. /\ primary' \in [Uids -> Uids \cup {None}] /\ owner' \in [Uids -> Contacts \cup {None}]
      /\ adsb' \in [Aircraft -> AdsbEntry \cup {None}] /\ squawks' \in [Squawks -> SUBSET Aircraft]
    BY <1>1, FreshTypes DEF _age_out
<1>3. UNCHANGED <<cast, lost, last, neptun, fusing, falling, shown, listed, until, retracted>>
    BY DEF _age_out, bridge
<1>4. \A j \in Aircraft : adsb'[j] = None \/ adsb'[j] \in AdsbEntry
    BY <1>2
<1> QED
    BY <1>2, <1>3, <1>4 DEF FusionTypeOK, FusingInv, AdsbEntry

\* Publishing keeps the types: of a fused track, of a fallback, and of the bridge.
LEMMA PublishTypes ==
    ASSUME FusionTypeOK, FusingInv,
           \/ _fuse_and_publish \/ PublishFallback \/ publish_threats
           \/ \E t \in Threats : Unlist(t)
    PROVE  FusionTypeOK' /\ FusingInv'
<1> USE Numbers DEF FusionTypeOK, FusingInv, cache, bridge
<1>1. CASE _fuse_and_publish
    <2>1. shown' \in [Aircraft -> {None, "fused", "fallback"}]
        BY <1>1 DEF _fuse_and_publish
    <2>2. neptun' \in [Threats -> {None} \cup 0 .. Old] /\ until' \in [Threats -> 0 .. TTL]
        BY <1>1 DEF _fuse_and_publish, _corroborate_with_neptun
    <2> QED
        BY <1>1, <2>1, <2>2 DEF _fuse_and_publish
<1>2. CASE PublishFallback
    BY <1>2 DEF PublishFallback
<1>3. CASE publish_threats
    <2>1. neptun' \in [Threats -> {None} \cup 0 .. Old]
        BY <1>3 DEF publish_threats, on_neptun
    <2>2. retracted' \subseteq Threats
        BY <1>3 DEF publish_threats
    <2> QED
        BY <1>3, <2>1, <2>2 DEF publish_threats
<1>4. ASSUME NEW t \in Threats, Unlist(t) PROVE FusionTypeOK' /\ FusingInv'
    BY <1>4 DEF Unlist
<1> QED
    BY <1>1, <1>2, <1>3, <1>4

\* Losses, the passing of time and a crash of the fuser keep the types.
LEMMA WorldTypes ==
    ASSUME FusionTypeOK, FusingInv,
           Tick \/ FuserCrash \/ \E x \in Contacts \cup Aircraft : Lose(x)
    PROVE  FusionTypeOK' /\ FusingInv'
<1> USE DEF FusionTypeOK, FusingInv, cache, bridge
<1>1. CASE Tick
    <2>1. last' \in [Contacts -> [at : Places, age : 0 .. Old]]
        BY <1>1, Ageing DEF Tick
    <2>2. adsb' \in [Aircraft -> AdsbEntry \cup {None}]
        BY <1>1, Ageing DEF Tick, AdsbEntry
    <2>3. \A i \in Aircraft : adsb'[i] = None \/ adsb'[i] \in AdsbEntry
        BY <2>2
    <2>4. neptun' \in [Threats -> {None} \cup 0 .. Old] /\ until' \in [Threats -> 0 .. TTL]
        BY <1>1, Ageing DEF Tick
    <2> QED
        BY <1>1, <2>1, <2>2, <2>3, <2>4 DEF Tick, AdsbEntry
<1>2. CASE FuserCrash
    BY <1>2 DEF FuserCrash, NoRadar, NoAdsb, NoThreat
<1>3. ASSUME NEW x \in Contacts \cup Aircraft, Lose(x) PROVE FusionTypeOK' /\ FusingInv'
    BY <1>3 DEF Lose
<1> QED
    BY <1>1, <1>2, <1>3

\* Every step keeps the types.
LEMMA NextTypes ==
    ASSUME FusionTypeOK, FusingInv, [Next]_vars
    PROVE  FusionTypeOK' /\ FusingInv'
<1>1. CASE UNCHANGED vars
    BY <1>1 DEF vars, cache, bridge, FusionTypeOK, FusingInv
<1>2. CASE Next
    BY <1>2, RadarTypes, AdsbTypes, AgeOutTypes, PublishTypes, WorldTypes DEF Next
<1> QED
    BY <1>1, <1>2

\* The types hold initially.
LEMMA InitTypes == Init => FusionTypeOK /\ FusingInv
<1> SUFFICES ASSUME Init PROVE FusionTypeOK /\ FusingInv
    OBVIOUS
<1> USE Numbers
<1>1. (CHOOSE p \in Places : TRUE) \in Places
    BY FusionBounds
<1>2. last \in [Contacts -> [at : Places, age : 0 .. Old]]
    BY <1>1 DEF Init
<1> QED
    BY <1>2 DEF Init, FusionTypeOK, FusingInv, NoRadar, NoAdsb, NoThreat

\* Every variable of the fuser and of the bridge keeps its type.
THEOREM FusionTypes == Spec => []FusionTypeOK
<1>1. Init => FusionTypeOK /\ FusingInv
    BY InitTypes
<1>2. FusionTypeOK /\ FusingInv /\ [Next]_vars => FusionTypeOK' /\ FusingInv'
    BY NextTypes
<1> QED
    BY <1>1, <1>2, PTL DEF Spec

-----------------------------------------------------------------------------
(* Holds.                                                                    *)

\* A hold grows only where a fused track is published, and for a threat it matches.
LEMMA OnlyMatchesHold ==
    ASSUME FusionTypeOK, [Next]_vars, NEW t \in Threats, until'[t] > until[t]
    PROVE  _fuse_and_publish /\ t \in match_neptun(fusing)
<1>1. CASE _fuse_and_publish
    BY <1>1, Numbers DEF _fuse_and_publish, _corroborate_with_neptun, FusionTypeOK
<1>2. CASE Tick
    <2>1. until'[t] = Remaining(until[t]) /\ until[t] \in 0 .. TTL
        BY <1>2 DEF Tick, FusionTypeOK
    <2> QED
        BY <2>1, Numbers DEF Remaining
<1>3. CASE UNCHANGED until
    BY <1>3, Numbers DEF FusionTypeOK
<1>4. _fuse_and_publish \/ Tick \/ UNCHANGED until
    BY DEF Next, vars, bridge, on_radar, on_adsb, PublishFallback, _age_out, publish_threats,
           Unlist, Lose, FuserCrash
<1> QED
    BY <1>1, <1>2, <1>3, <1>4

\* What a fused track matches, it is compatible with.
LEMMA MatchesArePairs ==
    ASSUME NEW c, NEW t \in match_neptun(c)
    PROVE  _neptun_pair_ok(c, t)
    BY DEF match_neptun

\* Every step keeps a recent report behind each hold.
LEMMA NextHolds ==
    ASSUME FusionInv, [Next]_vars
    PROVE  HoldHasReport'
<1> USE Numbers, FusionBounds DEF FusionInv
<1>1. FusionTypeOK'
    BY NextTypes
<1> SUFFICES ASSUME NEW t \in Threats, until'[t] > 0
             PROVE  \E c \in Contacts : Plot[c].icao = None /\ last'[c].age <= TTL - until'[t]
    BY DEF HoldHasReport
<1>2. until[t] \in 0 .. TTL /\ until'[t] \in 0 .. TTL
    BY <1>1 DEF FusionTypeOK
<1>3. \A c \in Contacts : last[c].age \in 0 .. Old /\ last'[c].age \in 0 .. Old
    BY <1>1 DEF FusionTypeOK
<1>4. CASE until'[t] > until[t]
    <2>1. fusing \in Contacts /\ last' = last /\ t \in match_neptun(fusing)
        BY <1>4, OnlyMatchesHold DEF _fuse_and_publish, FusionTypeOK
    <2>2. Plot[fusing].icao = None /\ last[fusing].age = 0
        BY <2>1, MatchesArePairs DEF _neptun_pair_ok, FusingInv
    <2> QED
        BY <1>2, <2>1, <2>2
<1>5. CASE ~(until'[t] > until[t])
    <2>1. PICK c \in Contacts : Plot[c].icao = None /\ last[c].age <= TTL - until[t]
        BY <1>2, <1>5 DEF HoldHasReport
    <2>2. CASE Tick
        <3>1. until'[t] = Remaining(until[t]) /\ last'[c].age = Older(last[c].age)
            BY <2>2 DEF Tick, FusionTypeOK
        <3>2. until[t] = until'[t] + 1 /\ last'[c].age <= last[c].age + 1
            BY <1>2, <1>3, <3>1, Ageing
        <3> QED
            BY <1>2, <1>3, <2>1, <3>2
    <2>3. CASE \E d \in Contacts, at \in Places : on_radar(d, at)
        <3>1. PICK d \in Contacts, at \in Places : on_radar(d, at)
            BY <2>3
        <3>2. last' = [last EXCEPT ![d] = [at |-> at, age |-> 0]] /\ until' = until
            BY <3>1 DEF on_radar, bridge
        <3>3. last'[c].age <= last[c].age
            BY <1>3, <3>2 DEF FusionTypeOK
        <3> QED
            BY <1>2, <1>3, <2>1, <3>2, <3>3
    <2>4. CASE UNCHANGED last
        BY <1>2, <1>3, <1>5, <2>1, <2>4
    <2>5. \/ Tick \/ UNCHANGED last \/ \E d \in Contacts, at \in Places : on_radar(d, at)
        BY DEF Next, vars, on_adsb, _fuse_and_publish, PublishFallback, _age_out, publish_threats,
               Unlist, Lose, FuserCrash
    <2> QED
        BY <2>2, <2>3, <2>4, <2>5
<1> QED
    BY <1>4, <1>5

\* The inductive invariant holds throughout.
THEOREM FusionInvariant == Spec => []FusionInv
<1>1. Init => FusionInv
    BY InitTypes DEF Init, FusionInv, HoldHasReport
<1>2. FusionInv /\ [Next]_vars => FusionInv'
    BY NextTypes, NextHolds DEF FusionInv
<1> QED
    BY <1>1, <1>2, PTL DEF Spec

\* No hold outlives the report of the track that earned it by more than its TTL,
\* through crashes of the fuser and any order of reports, matches and ticks.
THEOREM HoldsAreEarned == Spec => []HoldHasReport
<1>1. FusionInv => HoldHasReport
    BY DEF FusionInv
<1> QED
    BY <1>1, FusionInvariant, PTL

\* Tracks that share a marker go on sharing one when the timer or any callback ages
\* the caches, until one of them is reported again.
THEOREM MarkersStayWhole == Spec => MarkerNotSplit
<1>1. FusionInv /\ [Next]_vars =>
        [\A u, v \in Held :
           (/\ owner'[u] = owner[u] /\ owner'[v] = owner[v] /\ fusing' \notin {owner[u], owner[v]}
            /\ primary[u] # None /\ primary[u] = primary[v])
           => /\ primary'[u] = primary'[v]
              /\ Rooted(u) => owner'[primary'[u]] # None]_vars
    <2> SUFFICES ASSUME FusionInv, [Next]_vars, NEW u \in Held, NEW v \in Held,
                        owner'[u] = owner[u], owner'[v] = owner[v],
                        fusing' \notin {owner[u], owner[v]},
                        primary[u] # None, primary[u] = primary[v]
                 PROVE  primary'[u] = primary'[v] /\ (Rooted(u) => owner'[primary'[u]] # None)
        OBVIOUS
    <2> DEFINE Whole == primary'[u] = primary'[v] /\ (Rooted(u) => owner'[primary'[u]] # None)
    <2>1. u \in Uids /\ v \in Uids /\ owner[u] # None /\ owner[v] # None
        BY DEF Held
    <2>0. \A w \in Held \ StaleRadar : w \in Uids /\ freshRadar[w] # None
        BY DEF freshRadar, Held
    <2>2. \A w \in Uids : w \in StaleRadar => freshRadar[w] = None
        BY DEF freshRadar
    <2>3. ASSUME NEW f \in Promotions, owner' = freshRadar, primary' = promoted(f)
          PROVE  Whole
        <3>1. u \in Held \ StaleRadar /\ v \in Held \ StaleRadar
            BY <2>1, <2>2, <2>3
        <3> QED
            BY <2>0, <2>3, <3>1, SurvivorsShare DEF FusionInv
    <2>4. ASSUME NEW c \in Contacts, NEW at \in Places, on_radar(c, at)
          PROVE  Whole
        <3>1. PICK f \in Promotions, p \in Uids \cup {None} :
                     primary' = [promoted(f) EXCEPT ![_uid_of(c)] = p]
            <4>1. PICK f \in Promotions : \E p \in _cross_radar_associate(c, at, freshRadar, promoted(f)) :
                     primary' = [promoted(f) EXCEPT ![_uid_of(c)] = p]
                BY <2>4 DEF on_radar
            <4> QED
                BY <4>1, AssociateType, FreshTypes DEF FusionInv
        <3>2. /\ freshRadar \in [Uids -> Contacts \cup {None}]
              /\ promoted(f) \in [Uids -> Uids \cup {None}]
            BY FreshTypes DEF FusionInv
        <3>3. owner' = [freshRadar EXCEPT ![_uid_of(c)] = c] /\ fusing' = c
            BY <2>4 DEF on_radar
        <3>4. u # _uid_of(c) /\ v # _uid_of(c)
            BY <2>1, <3>2, <3>3
        <3>5. u \in Held \ StaleRadar /\ v \in Held \ StaleRadar
            BY <2>1, <2>2, <3>2, <3>3, <3>4
        <3>6. promoted(f)[u] = promoted(f)[v] /\ (Rooted(u) => promoted(f)[u] \in Held \ StaleRadar)
            BY <3>5, SurvivorsShare DEF FusionInv
        <3>7. primary'[u] = promoted(f)[u] /\ primary'[v] = promoted(f)[v]
            BY <2>1, <3>1, <3>2, <3>4
        <3>8. Rooted(u) => owner'[promoted(f)[u]] # None
            BY <2>0, <3>2, <3>3, <3>6, FusionBounds
        <3> QED
            BY <3>6, <3>7, <3>8
    <2>5. CASE FuserCrash
        BY <2>1, <2>5 DEF FuserCrash, NoRadar
    <2>6. CASE UNCHANGED <<owner, primary>>
        BY <2>6 DEF Held, Rooted
    <2>7. ASSUME NEW i \in Aircraft, NEW at \in Places, NEW q \in Squawks, on_adsb(i, at, q)
          PROVE  Whole
        BY <2>3, <2>7 DEF on_adsb
    <2>8. CASE _age_out
        BY <2>3, <2>8 DEF _age_out
    <2>9. \/ \E c \in Contacts, at \in Places : on_radar(c, at)
          \/ \E i \in Aircraft, at \in Places, q \in Squawks : on_adsb(i, at, q)
          \/ _age_out \/ FuserCrash \/ UNCHANGED <<owner, primary>>
        BY DEF Next, vars, cache, _fuse_and_publish, PublishFallback, publish_threats, Unlist, Lose, Tick
    <2> QED
        BY <2>4, <2>5, <2>6, <2>7, <2>8, <2>9
<1> QED
    BY <1>1, FusionInvariant, PTL DEF Spec, MarkerNotSplit
=============================================================================
