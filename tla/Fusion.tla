------------------------------- MODULE Fusion -------------------------------
(* The track fuser (TrackFuser): its caches of radar, ADS-B and NEPTUN tracks, *)
(* the association of one target across radars, the identity a radar track     *)
(* takes from ADS-B, the ADS-B fallback, and the hold on a NEPTUN marker that  *)
(* a radar track corroborates, with the bridge that honours it.  What is put   *)
(* on the fabric arrives at once; a tick is 30 s.                              *)
EXTENDS Integers, FiniteSets

CONSTANTS
    Contacts,       \* what radars report,
    Plot,           \* and its identity: contact -> [radar, num, icao, squawk]
    None,
    Aircraft,       \* ICAO addresses that ADS-B reports
    Threats,        \* NEPTUN threats
    Places, Squawks,
    Fits,           \* place -> the threats a track there is compatible with
    AdsbTail,       \* last segment of the keys the ADS-B sources publish on
    MaxAge, TTL,    \* _MAX_AGE_S and SUPPRESS_TTL_S, in ticks
    MaxCrashes,
    Casts           \* the sets of contacts, aircraft and threats of a behaviour

ASSUME FusionBounds ==
    /\ MaxAge \in Nat \ {0} /\ TTL \in Nat \ {0} /\ MaxCrashes \in Nat
    /\ Fits \in [Places -> SUBSET Threats]
    /\ \A c \in Casts : c \subseteq Contacts \cup Aircraft \cup Threats
    /\ Places # {} /\ None \notin Contacts

VARIABLES
    cast,           \* who takes part in this behaviour
    lost,           \* contacts and aircraft that will not report again
    last,           \* contact -> its last report [at, age]
    owner,          \* _radar_tracks: uid -> the contact whose report it holds
    primary,        \* _radar_primary: uid -> uid
    adsb, squawks,  \* _adsb_tracks and _adsb_by_squawk
    neptun,         \* _neptun_tracks: threat -> age
    fusing, falling,\* reports taken in, not yet published (one per subscriber)
    shown,          \* aircraft -> what its marker was last put from
    listed,         \* threats NEPTUN lists
    until, retracted, \* the bridge: ticks a hold has left, markers withdrawn
    crashes

cache == <<owner, primary, adsb, squawks>>
bridge == <<listed, until, retracted>>
vars == <<cast, lost, last, cache, neptun, fusing, falling, shown, bridge, crashes>>

Old == MaxAge + 1                                   \* older than MaxAge, whatever the age
_uid_of(c) == IF Plot[c].icao # None THEN Plot[c].icao ELSE Plot[c].num
Uids == {_uid_of(c) : c \in Contacts}
Reporting == (cast \cap Contacts) \ lost
AgeOf(u) == last[owner[u]].age
Held == {u \in Uids : owner[u] # None}
PrimaryOf(u) == IF primary[u] = None THEN u ELSE primary[u]

------------------------------------------------------------------------------
(* _age_out: what is older than MaxAge leaves the caches; the secondaries of a *)
(* primary that leaves follow one of them that stays.                          *)

StaleRadar == {u \in Held : AgeOf(u) > MaxAge}
StaleAdsb == {i \in Aircraft : adsb[i] # None /\ adsb[i].age > MaxAge}

Secondaries(k) == {u \in Held \ StaleRadar : primary[u] = k}
Leaving == {k \in StaleRadar : primary[k] = k /\ Secondaries(k) # {}}
Promotions == {f \in [Leaving -> Uids] : \A k \in Leaving : f[k] \in Secondaries(k)}

\* Mutant: only the new primary is told.
promotedAlone(f) ==
    [u \in Uids |-> IF u \in StaleRadar THEN None
                    ELSE IF primary[u] \in DOMAIN f /\ f[primary[u]] = u THEN u ELSE primary[u]]

promoted(f) ==
    [u \in Uids |-> IF u \in StaleRadar THEN None
                    ELSE IF primary[u] \in DOMAIN f THEN f[primary[u]] ELSE primary[u]]

freshRadar == [u \in Uids |-> IF u \in StaleRadar THEN None ELSE owner[u]]

freshAdsb == [i \in Aircraft |-> IF i \in StaleAdsb THEN None ELSE adsb[i]]
freshSquawks ==
    [q \in Squawks |-> squawks[q] \ {i \in StaleAdsb : adsb[i].squawk = q}]

_age_out ==
    /\ StaleRadar \cup StaleAdsb # {}
    /\ owner' = freshRadar /\ adsb' = freshAdsb /\ squawks' = freshSquawks
    /\ \E f \in Promotions : primary' = promoted(f)
    /\ UNCHANGED <<cast, lost, last, neptun, fusing, falling, shown, bridge, crashes>>

------------------------------------------------------------------------------
(* Radar: the report is cached and associated under the lock, then fused.      *)

\* Tracks without an address, of other radars, where this one is.
Consistent(c, at, held) ==
    {u \in Uids : /\ held[u] # None /\ u # _uid_of(c)
                  /\ Plot[held[u]].radar # Plot[c].radar /\ Plot[held[u]].icao = None
                  /\ last[held[u]].at = at}

\* The nearest one's primary; without one the association stays as it was.
_cross_radar_associate(c, at, held, prim) ==
    LET u == _uid_of(c)
        near == Consistent(c, at, held)
    IN  IF Plot[c].icao # None THEN {prim[u]}
        ELSE IF near # {} THEN {IF prim[v] = None THEN v ELSE prim[v] : v \in near}
        ELSE {IF prim[u] = None THEN u ELSE prim[u]}

on_radar(c, at) ==
    /\ fusing = None /\ c \in Reporting
    /\ fusing' = c
    /\ last' = [last EXCEPT ![c] = [at |-> at, age |-> 0]]
    /\ owner' = [freshRadar EXCEPT ![_uid_of(c)] = c]
    /\ adsb' = freshAdsb /\ squawks' = freshSquawks
    /\ \E f \in Promotions :
         \E p \in _cross_radar_associate(c, at, freshRadar, promoted(f)) :
            primary' = [promoted(f) EXCEPT ![_uid_of(c)] = p]
    /\ UNCHANGED <<cast, lost, neptun, falling, shown, bridge, crashes>>

\* _find_match: by address; else by squawk, where the altitudes agree (abstracted:
\* those of any one report may, or of none); else by place; None without a match.
Heard == {i \in Aircraft : adsb[i] # None /\ adsb[i].age < MaxAge}
BySquawk(c) == IF Plot[c].squawk = None THEN {} ELSE squawks[Plot[c].squawk] \cap Heard
ByPlace(c) == {i \in Heard : adsb[i].at = last[c].at}
_find_match(c) ==
    IF Plot[c].icao \in Heard THEN {Plot[c].icao}
    ELSE BySquawk(c) \cup (IF ByPlace(c) # {} THEN ByPlace(c) ELSE {None})

\* _neptun_pair_ok
_neptun_pair_ok(c, t) == Plot[c].icao = None /\ t \in Fits[last[c].at]

\* match_neptun: one threat for the track, and no other object for the threat.
FreshThreats == {t \in Threats : neptun[t] # None /\ neptun[t] <= MaxAge}
match_neptun(c) ==
    {t \in FreshThreats :
       /\ {v \in FreshThreats : _neptun_pair_ok(c, v)} = {t}
       /\ \A u \in Held : \/ AgeOf(u) > MaxAge \/ PrimaryOf(u) = PrimaryOf(_uid_of(c))
                          \/ ~_neptun_pair_ok(owner[u], t)}

_corroborate_with_neptun(c) ==
    /\ neptun' = [t \in Threats |-> IF t \in FreshThreats THEN neptun[t] ELSE None]
    /\ until' = [t \in Threats |-> IF t \in match_neptun(c) THEN TTL ELSE until[t]]

\* The name of a fused track is the address of the match, or the radar's own.
_merge(c, i) == IF i # None THEN i ELSE Plot[c].icao

_fuse_and_publish ==
    /\ fusing # None
    /\ fusing' = None
    /\ \E i \in _find_match(fusing) :
         shown' = [a \in Aircraft |-> IF a = _merge(fusing, i) THEN "fused" ELSE shown[a]]
    /\ _corroborate_with_neptun(fusing)
    /\ UNCHANGED <<cast, lost, last, cache, falling, listed, retracted, crashes>>

------------------------------------------------------------------------------
(* ADS-B: cached under the lock; published as it is when no radar covers it.   *)

\* Mutant: the entry of an address stays when its radar track is dropped.
radar_covered(i) == shown[i] = "fused"

\* _radar_by_icao
radar_covers(i) == \E u \in Uids : freshRadar[u] # None /\ Plot[freshRadar[u]].icao = i

\* A sample whose key does not end in /json is ignored.
on_adsb(i, at, q) ==
    /\ falling = None /\ i \in (cast \cap Aircraft) \ lost
    /\ AdsbTail = "json"
    /\ owner' = freshRadar
    /\ \E f \in Promotions : primary' = promoted(f)
    /\ adsb' = [freshAdsb EXCEPT ![i] = [at |-> at, squawk |-> q, age |-> 0]]
    /\ squawks' = [freshSquawks EXCEPT ![q] = @ \cup {i}]
    /\ falling' = [icao |-> i, covered |-> radar_covers(i)]
    /\ UNCHANGED <<cast, lost, last, neptun, fusing, shown, bridge, crashes>>

PublishFallback ==
    /\ falling # None
    /\ shown' = IF falling.covered THEN shown ELSE [shown EXCEPT ![falling.icao] = "fallback"]
    /\ falling' = None
    /\ UNCHANGED <<cast, lost, last, cache, neptun, fusing, bridge, crashes>>

------------------------------------------------------------------------------
(* The NEPTUN bridge, and what it puts as the fuser takes it (on_neptun).      *)

Active(t) == until[t] > 0

\* What the bridge puts for a threat: its track, once a tombstone, or nothing.
Put(t) ==
    IF t \notin listed THEN "nothing"
    ELSE IF ~Active(t) THEN "track"
    ELSE IF t \in retracted THEN "nothing" ELSE "tombstone"

on_neptun(t, sample) ==
    CASE sample = "track" -> 0
      [] sample = "tombstone" -> None
      [] OTHER -> neptun[t]

\* Mutant: a marker once withdrawn is not put again.
publish_once ==
    /\ listed # {}
    /\ retracted' = {t \in listed : Active(t)} \cup retracted
    /\ neptun' = [t \in Threats |-> on_neptun(t, IF t \in retracted THEN "nothing" ELSE Put(t))]
    /\ UNCHANGED <<cast, lost, last, cache, fusing, falling, shown, listed, until, crashes>>

publish_threats ==
    /\ listed # {}
    /\ retracted' = {t \in listed : Active(t)} \cup (retracted \ listed)
    /\ neptun' = [t \in Threats |-> on_neptun(t, Put(t))]
    /\ UNCHANGED <<cast, lost, last, cache, fusing, falling, shown, listed, until, crashes>>

Unlist(t) ==
    /\ t \in listed
    /\ listed' = listed \ {t}
    /\ UNCHANGED <<cast, lost, last, cache, neptun, fusing, falling, shown, until, retracted, crashes>>

------------------------------------------------------------------------------

Lose(x) ==
    /\ x \in (cast \cap (Contacts \cup Aircraft)) \ lost
    /\ lost' = lost \cup {x}
    /\ UNCHANGED <<cast, last, cache, neptun, fusing, falling, shown, bridge, crashes>>

\* Mutant: the age is not capped.
OlderUncapped(a) == a + 1

Older(a) == IF a < Old THEN a + 1 ELSE a

\* Mutant: a hold does not lapse.
RemainingAlways(n) == n

Remaining(n) == IF n > 0 THEN n - 1 ELSE 0

\* A callback takes much less than a tick.
Tick ==
    /\ fusing = None /\ falling = None
    /\ last' = [c \in Contacts |-> [last[c] EXCEPT !.age = Older(@)]]
    /\ adsb' = [i \in Aircraft |-> IF adsb[i] = None THEN None ELSE [adsb[i] EXCEPT !.age = Older(@)]]
    /\ neptun' = [t \in Threats |-> IF neptun[t] = None THEN None ELSE Older(neptun[t])]
    /\ until' = [t \in Threats |-> Remaining(until[t])]
    /\ UNCHANGED <<cast, lost, owner, primary, squawks, fusing, falling, shown, listed, retracted, crashes>>

\* The fuser's process is killed and started again.
NoRadar == [u \in Uids |-> None]
NoAdsb == [i \in Aircraft |-> None]
NoThreat == [t \in Threats |-> None]

FuserCrash ==
    /\ crashes < MaxCrashes
    /\ crashes' = crashes + 1
    /\ owner' = NoRadar /\ primary' = NoRadar /\ adsb' = NoAdsb
    /\ squawks' = [q \in Squawks |-> {}] /\ neptun' = NoThreat
    /\ fusing' = None /\ falling' = None
    /\ UNCHANGED <<cast, lost, last, shown, bridge>>

Init ==
    /\ cast \in Casts /\ lost = {}
    /\ last = [c \in Contacts |-> [at |-> CHOOSE p \in Places : TRUE, age |-> Old]]
    /\ owner = NoRadar /\ primary = NoRadar /\ adsb = NoAdsb
    /\ squawks = [q \in Squawks |-> {}] /\ neptun = NoThreat
    /\ fusing = None /\ falling = None
    /\ shown = [i \in Aircraft |-> None]
    /\ listed = cast \cap Threats /\ retracted = {}
    /\ until = [t \in Threats |-> 0] /\ crashes = 0

Next ==
    \/ \E c \in Contacts, at \in Places : on_radar(c, at)
    \/ \E i \in Aircraft, at \in Places, q \in Squawks : on_adsb(i, at, q)
    \/ _fuse_and_publish \/ PublishFallback \/ _age_out
    \/ publish_threats \/ \E t \in Threats : Unlist(t)
    \/ \E x \in Contacts \cup Aircraft : Lose(x)
    \/ Tick \/ FuserCrash

\* Callbacks end, the timer and the bridge's loop go on, time passes, and ADS-B
\* keeps reporting what it has not lost.
Fairness ==
    /\ WF_vars(_fuse_and_publish) /\ WF_vars(PublishFallback)
    /\ WF_vars(publish_threats) /\ SF_vars(Tick)
    /\ \A i \in Aircraft : SF_vars(\E at \in Places, q \in Squawks : on_adsb(i, at, q))

Spec == Init /\ [][Next]_vars /\ Fairness

------------------------------------------------------------------------------

\* Every variable of the fuser and of the bridge has its type: the caches hold
\* one entry per track, and ages and holds stay within their bounds.
FusionTypeOK ==
    /\ cast \in Casts /\ lost \subseteq cast
    /\ last \in [Contacts -> [at : Places, age : 0 .. Old]]
    /\ owner \in [Uids -> Contacts \cup {None}] /\ primary \in [Uids -> Uids \cup {None}]
    /\ \A i \in Aircraft : adsb[i] = None \/ adsb[i] \in [at : Places, squawk : Squawks, age : 0 .. Old]
    /\ squawks \in [Squawks -> SUBSET Aircraft]
    /\ neptun \in [Threats -> {None} \cup 0 .. Old]
    /\ fusing \in Contacts \cup {None} /\ shown \in [Aircraft -> {None, "fused", "fallback"}]
    /\ listed \subseteq Threats /\ retracted \subseteq Threats /\ until \in [Threats -> 0 .. TTL]

\* The primary of a track is in the cache, and its own primary.
Rooted(u) == primary[u] \in Held /\ primary[primary[u]] = primary[u]

\* Tracks that share a marker go on sharing one, through any ageing of the caches
\* and whatever report brings it about, until one of them is reported again; and
\* where the marker had the name of a track that is its own primary, it has the name
\* of a track that is still there.  (For other primaries see PromotesSurvivor.)
MarkerNotSplit ==
    [][\A u, v \in Held :
         (/\ owner'[u] = owner[u] /\ owner'[v] = owner[v] /\ fusing' \notin {owner[u], owner[v]}
          /\ primary[u] # None /\ primary[u] = primary[v])
         => /\ primary'[u] = primary'[v]
            /\ Rooted(u) => owner'[primary'[u]] # None]_vars

\* What fusion.py:819 says of the handoff: "When the primary ages out, the surviving
\* secondary is promoted automatically", so no track that stays is left with a
\* primary that has gone.
PromotesSurvivor ==
    [][\A u \in Held :
         (owner'[u] # None /\ primary[u] \in Held /\ owner'[primary[u]] = None)
         => owner'[primary'[u]] # None]_vars

\* What fusion.py:30-32 says of the pairing: nothing is merged where the threat fits
\* more than one radar object.  Two contacts that two radars report in two places
\* are one object only if the handoff has given them one primary.
OneObject ==
    [][\A t \in Threats, c \in Contacts :
         (/\ until'[t] > until[t] /\ last[c].age <= MaxAge /\ last[c].at # last[fusing].at
          /\ _neptun_pair_ok(c, t))
         => /\ _uid_of(c) # _uid_of(fusing)
            /\ PrimaryOf(_uid_of(c)) = PrimaryOf(_uid_of(fusing))]_vars

\* A hold is never older than the newest report of a track that may have earned
\* it: no hold outlives the match by more than its TTL.
HoldHasReport ==
    \A t \in Threats : until[t] > 0 =>
        \E c \in Contacts : Plot[c].icao = None /\ last[c].age <= TTL - until[t]

\* When no radar reports any more, a threat that is listed comes back for good.
NeptunReturns ==
    \A t \in Threats :
        <>[](cast \cap Contacts \subseteq lost) => <>[](t \notin listed \/ t \notin retracted)

\* An aircraft that radar has lost, and whose ADS-B reports the fuser goes on taking
\* in, ends up shown from ADS-B and stays so, also when the radar fell silent
\* without another report, and after a restart.
FallbackFollows ==
    \A i \in Aircraft :
        /\ <>[](cast \cap Contacts \subseteq lost)
        /\ []<>(adsb[i] # None /\ adsb[i].age = 0)
        => <>[](shown[i] = "fallback")

\* What fusion.py:832-833 says of the age-out timer: when the radar goes silent the
\* ADS-B fallback "kicks in automatically" for what ADS-B still reports.
FallbackResumes ==
    \A i \in Aircraft :
        <>[](cast \cap Contacts \subseteq lost /\ i \in cast \ lost) => <>[](shown[i] = "fallback")

\* A radar track that fits two threats of the NEPTUN feed holds neither back
\* (fusion.py: "if the track fits more than one threat ... nothing is merged").
PairsOneToOne ==
    [][\A t \in Threats, v \in listed :
         t # v /\ until'[t] > until[t] /\ _neptun_pair_ok(fusing, v) => v \notin retracted /\ neptun[v] = None]_vars
=============================================================================
