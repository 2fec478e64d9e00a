---------------------------- MODULE AsterixTables ----------------------------
(* The decoders of cat.py, one table per user application profile: the item   *)
(* an FRN stands for, as the code reads it.  The values an item carries and   *)
(* the names they are published under are left out.                           *)
EXTENDS AsterixLayout, TLC

\* A handler that decodes every record of a block, or its first one only.
\* closes: the inputs on which a frame with a bad length ends the connection
\* (NetNNN: nearly every category frames with a copy of its own);
\* needs: FRNs it goes no further without; rest: FRNs behind its table;
\* keep: "all" when whatever was decoded is published, "some" when only a record
\* with an item (CAT-020, 021, 048 and 062) or with a position is.
Loop(net, uaps) ==
    [closes |-> net, uaps |-> uaps, many |-> TRUE, needs |-> {}, rest |-> Stop, keep |-> "some"]
Once(net, uaps) == [Loop(net, uaps) EXCEPT !.many = FALSE, !.keep = "all"]

\* CAT-001
I001_020 == FxTo(3)
Cat001Plot ==
    <<Fix(2), I001_020, Fix(4), Fix(2), Fix(2), Fx, Fix(2), Fix(2), Fix(1), Fix(1), Fix(2), Fix(4), Fix(2), Fx,
    Fix(1), Len1, Len1, Len1, Len1, Len1, Len1>>
Cat001Track ==
    <<Fix(2), I001_020, Fix(2), Fix(4), Fix(4), Fix(4), Fix(2), Fix(2), Fix(2), Fx, Fix(1), Fix(1), FxTo(3), Fx,
    Fix(2), Fix(2), Fix(4), Fix(2), Fx, Len1, Len1, Len1>>
Net001 == {"tcp"}
Rx001 == [Once(Net001, <<Cat001Plot, Cat001Track>>) EXCEPT !.needs = {1, 2}, !.rest = Len1, !.keep = "some"]

\* CAT-002
Cat002 == <<Fix(2), Fix(1), Fix(1), Fix(3), Fix(2), Fx, Fx, Rep(2), Fix(8), Fix(2), Fx, Len1, Len1, Len1>>
Net002 == {"tcp"}
Rx002 == Once(Net002, <<Cat002>>)

\* CAT-004
I004_015 == Rep(2)
I004_060 == Fx
I004_170 == Fix(46)
I004_120 == Flat(5)
I004_070 == Sub("on", 1, Each(<<3, 3, 3, 2, 2, 2>>))
I004_100 == Sub("on", 1, Each(<<6, 7, 7, 7, 7, 7>>))
Cat004 ==
    <<Fix(2), Fix(1), I004_015, Fix(3), Fix(2), Fix(1), I004_060, Fix(2), I004_170, I004_120, I004_070, Fix(2),
    Fix(2), Fix(3), I004_100, Fix(2), I004_170, Rep(2), Len1, Len1, Stop>>
Net004 == {"tcp"}
Rx004 == [Once(Net004, <<Cat004>>) EXCEPT !.keep = "some"]

\* CAT-007
I007_020 == FxTo(6)
I007_130 == Sub("on", 1, [i \in 1 .. 7 |-> Fix(1)])
I007_170 == FxTo(2)
I007_080 == Bare(2)
I007_120 == Sub("on", 1, <<Fix(2), Rep(6)>>)
I007_450 == Sub("on", 1, Each(<<1, 1, 1, 2, 1, 1>>))
I007_085 == Sub("on", 1, Each(<<1, 4, 6, 2, 2, 1, 1>>))
I007_415 == Sub("on", 1, Each(<<4, 1>>))
Cat007Downlink ==
    <<Fix(2), Fix(2), Fix(1), Fix(3), Fix(2), I007_020, Fix(4), Fix(2), Fix(2), I007_130, Fix(3), Fix(6), Rep(8),
    Fix(2), Fix(4), Fix(4), I007_170, Fix(4), Fx, I007_080, Fix(4), Fix(2), I007_120, Fix(3), Fix(7), Fix(1), Fix(2),
    Fix(1), I007_080, I007_450, I007_085, Len1, Len1, Len1, Len1>>
Cat007Uplink ==
    <<Fix(2), Fix(2), Fix(1), Fix(3), Fix(2), Fix(4), Fix(3), Fix(2), Fix(4), Fix(4), I007_415, Fix(8), Rep(1), Len1,
    Len1, Len1, Len1, Len1, Len1, Len1, Len1>>
Net007 == {"tcp"}
Rx007 == [Once(Net007, <<Cat007Downlink, Cat007Uplink>>) EXCEPT !.rest = Len1, !.keep = "some"]

\* CAT-008
Cat008 ==
    <<Fix(2), Fix(1), FxTo(2), Rep(3), Rep(4), Fix(2), Rep(2), Fix(3), FxHead(1, 2), Fx, Fix(2), Rep(4), Len1, Len1>>
Net008 == {"tcp"}
Rx008 == Once(Net008, <<Cat008>>)

\* CAT-009
Cat009 == <<Fix(2), Fix(1), Fx, Rep(6), Fx, Fix(3), FxHead(1, 2), Rep(2), Fix(2), Len1, Len1, Len1, Len1, Len1>>
Net009 == {"tcp"}
Rx009 == Once(Net009, <<Cat009>>)

\* CAT-010
I010_250 == RepAll(8)
Cat010Target ==
    <<Fix(2), Fix(1), Fx, Fix(3), Fix(8), Fix(4), Fix(4), Fix(4), Fix(4), Fix(2), Fx, Fix(2), Fix(3), Fix(7)>>
Cat010Surface ==
    <<I010_250, Fix(1), Fix(2), Fix(2), Fx, Fix(1), Fix(1), Fix(4), RepAll(2), Fix(1), Fix(2), Skip, Len1, Len1>>
Net010 == {"tcp"}
Rx010 == Loop(Net010, <<Cat010Target \o Cat010Surface>>)

\* CAT-011
I011_380_MB == Rep(8)
I011_380 == Sub("skip", 1, <<I011_380_MB, Fix(3), Fix(3), Fix(4), Fix(1), Fix(1)>>)
I011_170 == FxTo(4)
I011_290 == Sub("skip", 2, Each(<<1, 1, 1, 1, 1, 2, 1, 1, 1, 1, 1, 1>>))
I011_270 == FxTo(3)
I011_390 ==
    Sub("skip", 2, <<Fix(2), Fix(7), Fix(4), Fix(1), Fix(4), Fix(1), Fix(4), Fix(4), Fix(3), Fix(2), Fix(2), Rep(4),
    Fix(6), Fix(1)>>)
I011_500 == Sub("skip", 1, Each(<<2, 4, 2, 2, 2, 2>>))
Cat011 ==
    <<Fix(2), Fix(1), Fix(1), Fix(3), Fix(8), Fix(4), Fix(4), Fix(2), Fix(2), Fix(7), I011_380, Fix(2), I011_170,
    I011_290, Fix(1), Fix(2), Fix(2), Fix(2), Fix(2), I011_270, I011_390, Fix(1), Fix(1), I011_500, Fix(3), Rep(2),
    Rep(2), Len1, Len1>>
Net011 == {"tcp"}
Rx011 == Loop(Net011, <<Cat011>>)

\* CAT-015
I015_270 == Sub("skip", 1, Each(<<2, 2, 2, 2>>))
I015_600 == Sub("skip", 1, Each(<<8, 5, 5>>))
I015_601 == Sub("skip", 2, Each(<<3, 3, 3, 3, 3, 2, 2, 2>>))
I015_602 == Sub("skip", 1, Each(<<5, 5, 5, 4>>))
I015_603 == Sub("skip", 1, Each(<<3, 4, 4, 4>>))
I015_604 == Sub("skip", 1, Each(<<3, 2, 3, 2, 2, 2>>))
I015_605 == Sub("skip", 1, Each(<<2, 4, 2, 2, 2>>))
I015_625 == Sub("skip", 2, Each(<<3, 3, 3, 3, 3, 4, 2, 4>>))
I015_626 == Sub("skip", 2, Each(<<3, 2, 2, 3, 1, 1, 1, 1, 1, 1>>))
I015_627 == Sub("skip", 1, Each(<<2, 2, 2, 2, 3, 4>>))
I015_628 == Sub("skip", 1, Each(<<2, 2, 2, 2, 3, 4>>))
I015_630 == Sub("skip", 1, Each(<<1, 1, 2, 1>>))
Cat015 ==
    <<Fix(2), Fix(1), Fix(1), Fx, Fx, Fix(3), Fix(2), Fx, Fix(2), I015_270, Rep(2), Fix(5), I015_600, I015_601,
    I015_602, I015_603, I015_604, I015_605, Rep(5), I015_625, I015_626, I015_627, I015_628, I015_630, Rep(8), Len1>>
Net015 == {"tcp"}
Rx015 == Loop(Net015, <<Cat015>>)

\* CAT-016
Cat016 == <<Fix(2), Fix(1), Fix(1), Fix(3), Fix(1), Rep(6), Fix(8), Fix(2), Rep(21), Rep(12), Len1>>
Net016 == {"tcp"}
Rx016 == Once(Net016, <<Cat016>>)

\* CAT-017
Cat017 ==
    <<Fix(2), Fix(2), Fix(1), Rep(2), Fix(3), Fix(2), Fix(3), Fix(6), Fix(2), Fix(2), Fix(4), Fix(1), Fix(1), Rep(3),
    Fix(1), Skip, Skip, Skip, Skip, Skip, Len1>>
Net017 == {"tcp"}
Rx017 == [Loop(Net017, <<Cat017>>) EXCEPT !.keep = "all"]

\* CAT-018
I018_029 == Fix(7)
Cat018Link ==
    <<Fix(2), Fix(2), Fix(1), Fix(1), Fix(3), Fix(4), Rep(4), Fix(1), Len1, Fix(2), Fix(2), Fix(4), Fix(1), I018_029,
    Fix(3), Rep(3), Fix(1), Fx>>
Cat018Aircraft ==
    <<Fx, Fix(1), Fix(7), Fix(4), Fix(4), Fix(4), Fix(6), Fix(4), Fix(7), Fix(1), Fix(6), Fix(2), Fix(2), Fix(2),
    Fix(2), Fix(1), Fix(1)>>
Net018 == {"tcp"}
Rx018 == [Loop(Net018, <<Cat018Link \o Cat018Aircraft>>) EXCEPT !.keep = "all"]

\* CAT-019
Cat019 == <<Fix(2), Fix(1), Fix(3), Fix(1), Fix(1), Rep(2), FxTo(2), Fix(8), Fix(2), Fix(1), Stop, Stop, Len1, Len1>>
Net019 == {"tcp"}
Rx019 == Once(Net019, <<Cat019>>)

\* CAT-020
I020_250 == Rep(8)
Cat020Target ==
    <<Fix(2), Fx, Fix(3), Fix(8), Fix(6), Fix(2), Fx, Fix(2), Fix(4), Fix(2), Fix(4), Fix(3), Fix(7), Fix(2)>>
Cat020Quality ==
    <<Fix(2), Fix(2), Fix(1), Fix(1), Sub("end", 1, Each(<<6, 6, 2>>)), RepAll(1), I020_250, Fix(2), Fix(7), Fx, Fix(1),
    Fix(2), Len1, Len1>>
Net020 == {"tcp"}
Rx020 == Loop(Net020, <<Cat020Target \o Cat020Quality>>)

\* CAT-021
I021_250 == RepAll(8)
Cat021Target ==
    <<Fix(2), Fx, Fix(2), Fix(1), Fix(3), Fix(6), Fix(8), Fix(3), Fix(2), Fix(2), Fix(3), Fix(3), Fix(4), Fix(3),
    Fix(4), Fix(2), Fx, Fix(1), Fix(2), Fix(2), Fix(2), Fix(2)>>
Cat021Aircraft ==
    <<Fix(1), Fix(2), Fix(2), Fix(4), Fix(2), Fix(3), Fix(6), Fix(1), Sub("end", 1, Each(<<2, 2, 2, 1>>)), Fix(2),
    Fix(2), Sub("end", 1, <<Fix(1), RepAll(15)>>), Fix(1), Fix(1), Fx, Fix(1), I021_250, Fix(7), Fix(1), Sub("end",
    4, [i \in 1 .. 23 |-> Fix(1)]), Skip, Skip, Skip, Skip, Skip, Len1, Len1>>
Net021 == {"tcp"}
Rx021 == Loop(Net021, <<Cat021Target \o Cat021Aircraft>>)

\* CAT-023
Cat023 ==
    <<Fix(2), Fix(1), Fix(1), Fix(3), FxTo(2), Ext(1, 1, 2), Fix(1), Fix(1), Rep(5), Stop, Stop, Stop, Len1, Len1, Len1>>
Net023 == {"tcp"}
Rx023 == Once(Net023, <<Cat023>>)

\* CAT-025
Cat025 == <<Fix(2), Fix(1), Fix(3), Fix(1), Fix(6), Fix(3), Fx, Rep(1), Rep(3), Rep(6), Len1, Fix(8), Fix(2)>>
Net025 == {"tcp"}
Rx025 == Once(Net025, <<Cat025>>)

\* CAT-032
I032_500 == Sub("skip", 2, <<Fix(4), Fix(1), Fix(3), Rep(4), Fix(6), Fix(1), Fix(7), Fix(7)>>)
Cat032 ==
    <<Fix(2), Fix(2), Fix(2), Fix(1), Fix(3), Fix(2), FxBy(3), Fix(2), Fix(7), Fix(2), Fix(1), Fix(4), Fix(4),
    Fix(2), Fix(2), Fix(4), Fix(1), Rep(2), I032_500, Skip, Len1>>
Net032 == {"tcp"}
Rx032 == Once(Net032, <<Cat032>>)

\* CAT-034
I034_050 == Sub("skip", NoLimit, Each(<<1, 0, 0, 1, 1, 2>>))
I034_060 == Sub("skip", NoLimit, Each(<<1, 0, 0, 1, 1, 1>>))
Cat034 ==
    <<Fix(2), Fix(1), Fix(3), Fix(1), Fix(2), I034_050, I034_060, Rep(2), Fix(8), Fix(1), Fix(8), Fix(2), Len1, Len1>>
Net034 == {"tcp"}
Rx034 == [Once(Net034, <<Cat034>>) EXCEPT !.keep = "some"]

\* CAT-048
I048_250 == Rep(8)
Cat048Track ==
    <<Fix(2), Fix(3), Fx, Fix(4), Fix(2), Fix(2), Sub("end", NoLimit, [i \in 1 .. 7 |-> Fix(1)]), Fix(3), Fix(6),
    I048_250, Fix(2), Fix(4), Fix(4), Fx>>
Cat048Plot ==
    <<Fix(4), Fx, Fix(2), Fix(4), Fix(2), Sub("end", NoLimit, <<Fix(2), RepAll(6)>>), Fix(2), Fix(7), Fix(1), Fix(2),
    Fix(1), Fix(2), Len1, Len1>>
Net048 == {"tcp"}
Rx048 == Loop(Net048, <<Cat048Track \o Cat048Plot>>)

\* CAT-062
I062_380_MB == Rep(8)
I062_380 ==
    Sub("skip", 4, <<Fix(3), Fix(6), Fix(2), Fix(2), Fix(2), Fix(2), Fix(2), Fix(1), RepAll(15), Fix(2), Fix(2),
    Fix(7), Fix(2), Fix(2), Fix(2), Fix(2), Fix(2), Fix(2), Fix(1), Sub("skip", 1, Each(<<2, 2, 2, 1>>)), Fix(1),
    Fix(6), Fix(2), Fix(1), I062_380_MB, Fix(2), Fix(2), Fix(2)>>)
I062_390 ==
    Sub("skip", 3, <<Fix(2), Fix(7), Fix(4), Fix(1), Fix(4), Fix(1), Fix(4), Fix(4), Fix(3), Fix(2), Fix(2),
    RepAll(4), Fix(6), Fix(1), Fix(7), Fix(7), Fix(2), Fix(7)>>)
I062_500 == Sub("skip", 2, Each(<<4, 2, 4, 1, 1, 2, 2, 1>>))
I062_340 == Sub("skip", 1, Each(<<2, 4, 2, 4, 2, 1>>))
Cat062Track ==
    <<Fix(2), Skip, Fix(1), Fix(3), Fix(8), Fix(6), Fix(4), Fix(2), Fix(2), Fix(7), I062_380, Fix(2), Fx, Sub("end",
    2, Each(<<1, 1, 1, 1, 2, 1, 1, 1, 1, 1>>))>>
Cat062Plan ==
    <<Fix(1), Sub("end", 5, [i \in 1 .. 31 |-> Fix(1)]), Fix(2), Fix(2), Fix(2), Fix(2), I062_390, Fx, Fix(1),
    Sub("end", 1, Each(<<1, 4, 6, 2, 2, 1, 1>>)), Fix(2), FxBy(3), I062_500, I062_340, Skip, Skip, Skip, Skip,
    Skip, Len1, Len1>>
Net062 == {"tcp"}
Rx062 == Loop(Net062, <<Cat062Track \o Cat062Plan>>)

\* CAT-063
I063_060 == Fx
Cat063 == <<Fix(2), Fix(1), Fix(3), Fix(2), I063_060, Fix(2), Fix(4), Fix(2), Fix(4), Fix(2), Fix(2), Len1, Len1, Stop>>
Net063 == {"tcp"}
Rx063 == Once(Net063, <<Cat063>>)

\* CAT-065
Cat065 == <<Fix(2), Fix(1), Fix(1), Fix(3), Fix(1), Fix(1), Fix(1), Skip, Skip, Skip, Skip, Skip, Len1, Len1>>
Net065 == {"tcp"}
Rx065 == Once(Net065, <<Cat065>>)

\* CAT-150
Cat150Plan ==
    <<Fix(2), Fix(2), Fix(1), Fix(2), Fix(7), Fix(4), Fix(4), Fix(4), Fix(4), Fix(1), Fix(1), Fix(7), Fix(3),
    Rep(12)>>
Cat150Route ==
    <<Rep(4), Rep(4), Rep(3), Rep(4), Fix(2), RepAll(1), Fix(2), Fix(2), Fix(2), Rep(4), Rep(2), Rep(4), Rep(3),
    Stop>>
Net150 == {"tcp"}
Rx150 == Once(Net150, <<Cat150Plan \o Cat150Route>>)

\* CAT-205
Cat205 ==
    <<Fix(2), Fix(1), Fix(1), Fix(3), Fix(1), Fix(7), Fix(8), Fix(6), Fix(2), Fix(2), Fix(1), Fix(1), Rep(1), Fix(8),
    Fix(6), Fix(1), Fix(2), Fix(1), Fix(2), Fix(1), Fix(2), Len1>>
Net205 == {"tcp"}
Rx205 == Loop(Net205, <<Cat205>>)

\* CAT-240
Cat240 ==
    <<Fix(2), Fix(1), Fix(4), RepAll(1), Fix(12), Fix(12), Fix(2), Fix(5), RepAll(4), RepAll(64), RepAll(256), Fix(3),
    Len1, Len1>>
Net240 == {"tcp"}
Rx240 == Once(Net240, <<Cat240>>)

\* CAT-247
Cat247 == <<Fix(2), Fix(1), Fix(3), Rep(3), Skip, Len1, Len1>>
Net247 == {"tcp"}
Rx247 == Once(Net247, <<Cat247>>)

\* _CATEGORY_MAINS: the receivers the bundle can start.
CategoryMains ==
    1 :> Rx001 @@ 2 :> Rx002 @@ 4 :> Rx004 @@ 7 :> Rx007 @@ 8 :> Rx008 @@ 9 :> Rx009 @@ 10 :> Rx010 @@ 11 :> Rx011
    @@ 15 :> Rx015 @@ 16 :> Rx016 @@ 17 :> Rx017 @@ 18 :> Rx018 @@ 19 :> Rx019 @@ 20 :> Rx020 @@ 21 :> Rx021 @@ 23
    :> Rx023 @@ 25 :> Rx025 @@ 32 :> Rx032 @@ 34 :> Rx034 @@ 48 :> Rx048 @@ 62 :> Rx062 @@ 63 :> Rx063 @@ 65 :>
    Rx065 @@ 150 :> Rx150 @@ 205 :> Rx205 @@ 240 :> Rx240 @@ 247 :> Rx247
=============================================================================
