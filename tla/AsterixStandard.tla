--------------------------- MODULE AsterixStandard ---------------------------
(* The user application profiles of the ASTERIX editions the repository keeps *)
(* under docs/references/asterix-specs.                                       *)
EXTENDS AsterixLayout, TLC

Std001Plot ==
    <<Fix(2), FxTo(2), Fix(4), Fix(2), Fix(2), Fx, Fix(2), Fix(2), Fix(1), Fix(1), Fix(2), Fix(4), Fix(2), Fx, Fix(1),
    Skip, Skip, Skip, Skip, Len1, Skip>>
Std001Track ==
    <<Fix(2), FxTo(2), Fix(2), Fix(4), Fix(4), Fix(4), Fix(2), Fix(2), Fix(2), Fx, Fix(1), Fix(1), FxTo(2), Fx,
    Fix(2), Fix(2), Fix(4), Fix(2), Fx, Len1, Skip, Fix(1)>>

Std002 == <<Fix(2), Fix(1), Fix(1), Fix(3), Fix(2), Fx, Fx, Rep(2), Fix(8), Fix(2), Fx, Skip, Len1, Skip>>

Std004 ==
    <<Fix(2), Fix(1), Rep(2), Fix(3), Fix(2), Fix(1), FxTo(8), Fix(2), Of(<<Fix(7), Fix(2), Fix(10), Fix(8), Fix(3),
    Fix(2), FxTo(2), Fix(6), Fix(4), Fix(2)>>), Of(<<FxTo(3), Fix(1), Fix(1), Fix(3)>>), Of(Each(<<3, 3, 3, 2, 2,
    2>>)), Fix(2), Fix(2), Fix(3), Of(Each(<<6, 7, 7, 7, 7, 7>>)), Fix(2), Of(<<Fix(7), Fix(2), Fix(10), Fix(8),
    Fix(3), Fix(2), FxTo(2), Fix(6), Fix(4), Fix(2)>>), Rep(2), Skip, Len1, Len1>>

Std007Downlink ==
    <<Fix(2), Fix(2), Fix(1), Fix(3), Fix(2), FxTo(6), Fix(4), Fix(2), Fix(2), Of([i \in 1 .. 7 |-> Fix(1)]), Fix(3),
    Fix(6), Rep(8), Fix(2), Fix(4), Fix(4), FxTo(2), Fix(4), Fx, Fix(2), Fix(4), Fix(2), Of(<<Fix(2), Rep(6)>>),
    Fix(2), Fix(7), Fix(1), Fix(2), Fix(1), Fix(2), Of(Each(<<1, 1, 1, 2, 1, 1>>)), Of(Each(<<1, 4, 6, 2, 2, 1, 1>>)),
    Skip, Skip, Len1, Len1>>
Std007Uplink ==
    <<Fix(2), Fix(2), Fix(1), Fix(3), Fix(2), Fix(4), Fix(3), Fix(2), Fix(4), Fix(4), Of(Each(<<0, 0, 0, 0, 0, 6,
    1>>)), Fix(8), Rep(1), Skip, Skip, Skip, Skip, Skip, Skip, Len1, Len1>>

Std008 ==
    <<Fix(2), Fix(1), FxTo(2), Rep(3), Rep(4), Fix(2), Rep(2), Fix(3), Ext(1, 2, 1), Fx, Fix(2), Rep(4), Len1, Skip>>

Std009 == <<Fix(2), Fix(1), FxTo(1), Rep(6), FxTo(1), Fix(3), Ext(1, 2, 1), Rep(3), Fix(2)>>

Std010 ==
    <<Fix(2), Fix(1), FxTo(3), Fix(3), Fix(8), Fix(4), Fix(4), Fix(4), Fix(4), Fix(2), FxTo(3), Fix(2), Fix(3),
    Fix(7), Rep(8), Fix(1), Fix(2), Fix(2), FxTo(3), Fix(1), Fix(1), Fix(4), Rep(2), Fix(1), Fix(2), Skip, Len1, Len1>>

Std011 ==
    <<Fix(2), Fix(1), Fix(1), Fix(3), Fix(8), Fix(4), Fix(4), Fix(2), Fix(2), Fix(7), Of(<<Rep(8), Fix(3), Skip,
    Fix(3), Skip, Skip, Skip, Fix(4), Fix(1), Skip, Fix(1)>>), Fix(2), FxTo(4), Of(Each(<<1, 1, 1, 1, 1, 2, 1, 1, 1,
    1, 1, 1>>)), Fix(1), Fix(2), Fix(2), Fix(2), Fix(2), FxTo(3), Of(<<Fix(2), Fix(7), Fix(4), Fix(1), Fix(4), Fix(1),
    Fix(4), Fix(4), Fix(3), Fix(2), Fix(2), Rep(4), Fix(6), Fix(1)>>), Fix(1), Fix(1), Of(Each(<<2, 4, 2, 2, 2, 2>>)),
    Fix(3), Rep(2), Rep(2), Len1, Len1>>

Std015 ==
    <<Fix(2), Fix(1), Fix(1), FxTo(1), Fx, Fix(3), Fix(2), FxTo(1), Fix(2), Of(Each(<<2, 2, 2, 2>>)), Rep(2), Fix(5),
    Of(Each(<<8, 5, 5>>)), Of(Each(<<3, 3, 3, 3, 3, 2, 2, 2>>)), Of(Each(<<5, 5, 5, 4>>)), Of(Each(<<3, 4, 4, 4>>)),
    Of(Each(<<3, 2, 3, 2, 2, 2>>)), Of(Each(<<2, 4, 2, 2, 2>>)), Rep(5), Of(Each(<<3, 3, 3, 3, 3, 4, 2, 4>>)),
    Of(Each(<<3, 2, 2, 3, 1, 1, 1, 1, 1, 1>>)), Of(Each(<<2, 2, 2, 2, 3, 4>>)), Of(Each(<<2, 2, 2, 2, 3, 4>>)),
    Of(Each(<<1, 1, 2, 1>>)), Rep(8), Len1>>

Std016 == <<Fix(2), Fix(1), Fix(1), Fix(3), Fix(1), Rep(6), Fix(8), Fix(2), Rep(21), Rep(12), Len1>>

Std017 ==
    <<Fix(2), Fix(2), Fix(1), Rep(2), Fix(3), Fix(2), Fix(3), Fix(6), Fix(2), Fix(2), Fix(4), Fix(1), Fix(1), Rep(3),
    Fix(1), Skip, Skip, Skip, Skip, Skip, Len1>>

Std018 ==
    <<Fix(2), Fix(2), Fix(1), Fix(1), Fix(3), Fix(4), Rep(4), Fix(1), Len1, Fix(2), Fix(2), Fix(4), Fix(1), Fix(7),
    Fix(3), Rep(3), Fix(1), FxTo(2), FxTo(2), Fix(1), Fix(7), Fix(4), Fix(4), Fix(4), Fix(6), Fix(4), Fix(7), Fix(1),
    Fix(6), Fix(2), Fix(2), Fix(2), Fix(2), Fix(1), Fix(1)>>

Std019 == <<Fix(2), Fix(1), Fix(3), Fix(1), Fix(1), Rep(2), FxTo(2), Fix(8), Fix(2), Fix(1), Skip, Skip, Len1, Len1>>

Std020 ==
    <<Fix(2), FxTo(3), Fix(3), Fix(8), Fix(6), Fix(2), FxTo(2), Fix(2), Fix(4), Fix(2), Fix(4), Fix(3), Fix(7),
    Fix(2), Fix(2), Fix(2), Fix(1), Fix(1), Of(Each(<<6, 6, 2>>)), Rep(1), Rep(8), Fix(2), Fix(7), Fx, Fix(1), Fix(2),
    Len1, Len1>>

Std021 ==
    <<Fix(2), FxTo(5), Fix(2), Fix(1), Fix(3), Fix(6), Fix(8), Fix(3), Fix(2), Fix(2), Fix(3), Fix(3), Fix(4), Fix(3),
    Fix(4), Fix(2), FxTo(9), Fix(1), Fix(2), Fix(2), Fix(2), Fix(2), Fix(1), Fix(2), Fix(2), Fix(4), Fix(2), Fix(3),
    Fix(6), Fix(1), Of(Each(<<2, 2, 2, 1>>)), Fix(2), Fix(2), Of(<<FxTo(1), Rep(15)>>), Fix(1), Fix(1), FxTo(2),
    Fix(1), Rep(8), Fix(7), Fix(1), Of([i \in 1 .. 23 |-> Fix(1)]), Skip, Skip, Skip, Skip, Skip, Len1, Len1>>

Std023 ==
    <<Fix(2), Fix(1), Fix(1), Fix(3), FxTo(2), Ext(1, 1, 2), Fix(1), FxTo(1), Rep(6), Skip, Skip, Skip, Len1, Len1>>

Std025 == <<Fix(2), Fix(1), Fix(3), Fix(1), Fix(6), Fix(3), FxTo(2), Rep(1), Rep(3), Rep(6), Len1, Fix(8), Fix(2)>>

Std032 ==
    <<Fix(2), Fix(2), Fix(2), Fix(1), Fix(3), Fix(2), Ext(0, 3, 1), Fix(2), Fix(7), Fix(2), Fix(1), Fix(4), Fix(4),
    Fix(2), Fix(2), Fix(4), Fix(1), Rep(2), Of(<<Fix(4), Fix(1), Fix(3), Rep(4), Fix(6), Fix(1), Fix(7), Fix(7)>>),
    Skip, Len1>>

Std034 ==
    <<Fix(2), Fix(1), Fix(3), Fix(1), Fix(2), Of(Each(<<1, 0, 0, 1, 1, 2>>)), Of(Each(<<1, 0, 0, 1, 1, 1>>)), Rep(2),
    Fix(8), Fix(1), Fix(8), Fix(2), Len1, Len1>>

Std048 ==
    <<Fix(2), Fix(3), FxTo(6), Fix(4), Fix(2), Fix(2), Of([i \in 1 .. 7 |-> Fix(1)]), Fix(3), Fix(6), Rep(8), Fix(2),
    Fix(4), Fix(4), FxTo(2), Fix(4), Fx, Fix(2), Fix(4), Fix(2), Of(<<Fix(2), Rep(6)>>), Fix(2), Fix(7), Fix(1),
    Fix(2), Fix(1), Fix(2), Len1, Len1>>

Std062 ==
    <<Fix(2), Skip, Fix(1), Fix(3), Fix(8), Fix(6), Fix(4), Fix(2), Fix(2), Fix(7), Of(<<Fix(3), Fix(6), Fix(2),
    Fix(2), Fix(2), Fix(2), Fix(2), FxTo(1), Rep(15), Fix(2), Fix(2), Fix(7), Fix(2), Fix(2), Fix(2), Fix(2), Fix(2),
    Fix(2), Fix(1), Fix(8), Fix(1), Fix(6), Fix(2), Fix(1), Rep(8), Fix(2), Fix(2), Fix(2)>>), Fix(2), FxTo(7),
    Of(Each(<<1, 1, 1, 1, 2, 1, 1, 1, 1, 1>>)), Fix(1), Of([i \in 1 .. 31 |-> Fix(1)]), Fix(2), Fix(2), Fix(2),
    Fix(2), Of(<<Fix(2), Fix(7), Fix(4), Fix(1), Fix(4), Fix(1), Fix(4), Fix(4), Fix(3), Fix(2), Fix(2), Rep(4),
    Fix(6), Fix(1), Fix(7), Fix(7), Fix(2), Fix(7)>>), FxTo(3), Fix(1), Of(Each(<<1, 4, 6, 2, 2, 1, 1>>)), Fix(2),
    FxBy(3), Of(Each(<<4, 2, 4, 1, 1, 2, 2, 1>>)), Of(Each(<<2, 4, 2, 2, 2, 1>>)), Skip, Skip, Skip, Skip,
    Skip, Len1, Len1>>

Std063 == <<Fix(2), Fix(1), Fix(3), Fix(2), FxTo(3), Fix(2), Fix(4), Fix(2), Fix(4), Fix(2), Fix(2), Skip, Len1, Len1>>

Std065 == <<Fix(2), Fix(1), Fix(1), Fix(3), Fix(1), Fix(1), Fix(1), Skip, Skip, Skip, Skip, Skip, Len1, Len1>>

Std150 ==
    <<Fix(2), Fix(2), Fix(1), Fix(2), Fix(7), Fix(4), Fix(4), Fix(4), Fix(4), Fix(1), Fix(1), Fix(7), Fix(3), Rep(12),
    Rep(4), Rep(4), Rep(3), Rep(4), Fix(2), Rep(1), Fix(2), Fix(2), Fix(2), Rep(4), Rep(2), Rep(4), Rep(3), Rep(6)>>

Std205 ==
    <<Fix(2), Fix(1), Fix(1), Fix(3), Fix(1), Fix(7), Fix(8), Fix(6), Fix(2), Fix(2), Fix(1), Fix(1), Rep(1), Fix(8),
    Fix(6), Fix(1), Fix(2), Fix(1), Fix(2), Fix(1), Fix(2), Len1>>

Std240 ==
    <<Fix(2), Fix(1), Fix(4), Rep(1), Fix(12), Fix(12), Fix(2), Fix(5), Rep(4), Rep(64), Rep(256), Fix(3), Len1, Len1>>

Std247 == <<Fix(2), Fix(1), Fix(3), Rep(3), Skip, Len1, Len1>>

Profiles ==
    1 :> <<Std001Plot, Std001Track>> @@ 2 :> <<Std002>> @@ 4 :> <<Std004>> @@ 7 :> <<Std007Downlink,
    Std007Uplink>> @@ 8 :> <<Std008>> @@ 9 :> <<Std009>> @@ 10 :> <<Std010>> @@ 11 :> <<Std011>> @@ 15 :>
    <<Std015>> @@ 16 :> <<Std016>> @@ 17 :> <<Std017>> @@ 18 :> <<Std018>> @@ 19 :> <<Std019>> @@ 20 :> <<Std020>>
    @@ 21 :> <<Std021>> @@ 23 :> <<Std023>> @@ 25 :> <<Std025>> @@ 32 :> <<Std032>> @@ 34 :> <<Std034>> @@ 48 :>
    <<Std048>> @@ 62 :> <<Std062>> @@ 63 :> <<Std063>> @@ 65 :> <<Std065>> @@ 150 :> <<Std150>> @@ 205 :>
    <<Std205>> @@ 240 :> <<Std240>> @@ 247 :> <<Std247>>
=============================================================================
