---------------------------- MODULE AsterixProofs ----------------------------
(***************************************************************************)
(* Theorems about Asterix for any number of frames, records and octets.    *)
(*                                                                         *)
(* What the decoders do to a block follows from what their tables say of   *)
(* single items: TablesAgree, RaiseOnlyWhereListed and CutsLeaveNothing    *)
(* are conditions on the tables alone, which TLC evaluates on those of     *)
(* cat.py and the editions (MCAsterix), and from which the theorems        *)
(* conclude for whole blocks.                                              *)
(*                                                                         *)
(* The invariant adds to the types that a decoder in step stands at an     *)
(* item and a subfield that the standard has (StepInv), and how many       *)
(* records are counted at each stage of a block (CountInv).                *)
(***************************************************************************)
EXTENDS Asterix, TLAPS

\* In step, the subfields announced are subfields of the standard's item.
StepInv ==
    mode = "whole" => at.span <= IF at.frn <= Len(Law) THEN LawParts(cat, at.uap, at.frn) ELSE 0

AsterixInv == AsterixTypeOK /\ StepInv

\* The records counted in a block that is decoded in step, or cut short.
CountInv ==
    Rx.many /\ misread = {} =>
        /\ mode = "idle" => heard = sent \/ (heard > sent /\ cat \in Leaky)
        /\ mode = "next" => heard <= sent
        /\ mode = "whole" => heard < sent
        /\ mode = "tail" => \/ heard + 1 = sent /\ left = 0
                            \/ heard + 1 >= sent /\ cat \in Leaky

-----------------------------------------------------------------------------
(* Layouts.                                                                  *)

\* The smaller of two numbers, and a number that is limited.
LEMMA Limits ==
    ASSUME NEW a \in Nat, NEW b \in Nat
    PROVE  /\ Least(a, b) \in Nat /\ Least(a, b) <= a /\ Least(a, b) <= b
           /\ a > 0 /\ b > 0 => Least(a, b) > 0
           /\ Limited(a, b) \in Nat /\ Limited(a, b) <= a
    BY DEF Least, Limited, NoLimit

\* The octets of an item are a number.
LEMMA OctetsAreNumbers ==
    ASSUME NEW l, IsPlain(l), NEW k \in Nat
    PROVE  Octets(l, k) \in Nat
<1>1. CASE l.kind = "chain"
    <2>1. /\ l.head \in Nat /\ l.unit \in Nat /\ Limited(k, l.most) \in Nat
        BY <1>1, Limits DEF IsPlain
    <2>2. l.unit * Limited(k, l.most) \in Nat
        BY <2>1
    <2>3. Octets(l, k) = l.head + l.unit * Limited(k, l.most)
        BY <1>1 DEF Octets
    <2> QED
        BY <2>1, <2>2, <2>3
<1>2. CASE l.kind = "repeat"
    <2>1. l.unit * k \in Nat
        BY <1>2 DEF IsPlain
    <2>2. Octets(l, k) = 1 + l.unit * k
        BY <1>2 DEF Octets
    <2> QED
        BY <2>1, <2>2
<1>3. CASE l.kind \notin {"chain", "repeat"}
    BY <1>3 DEF Octets, IsPlain
<1> QED
    BY <1>1, <1>2, <1>3

\* An outcome of reading an item: what is left is a number of octets, and only
\* some layouts raise.
Outcome(o, l) ==
    /\ o.left \in Nat /\ o.next \in {"on", "end", "raise"}
    /\ ~CanRaise(l) => o.next # "raise"

\* On, End and Raise are outcomes.
LEMMA Outcomes ==
    ASSUME NEW l, NEW n \in Nat
    PROVE  Outcome(On(n), l) /\ Outcome(End(n), l) /\ On(n).left = n /\ End(n).left = n
    BY DEF Outcome, On, End

\* A fixed item of which only some octets are there.
LEMMA FixedOutcome ==
    ASSUME NEW l, IsPlain(l), l.kind = "fixed", NEW n \in Nat
    PROVE  Outcome([next |-> l.short, left |-> n], l)
<1>1. l.short \in {"end", "raise"} /\ (CanRaise(l) <=> l.short = "raise")
    BY DEF IsPlain, CanRaise
<1> DEFINE o == [next |-> l.short, left |-> n]
<1>2. o.next = l.short /\ o.left = n
    OBVIOUS
<1> HIDE DEF o
<1>3. Outcome(o, l)
    BY <1>1, <1>2 DEF Outcome
<1> QED
    BY <1>3 DEF o

\* An item that is cut short.
LEMMA CutOutcome ==
    ASSUME NEW l, IsPlain(l), NEW f, NEW a \in Nat, NEW many \in BOOLEAN
    PROVE  Outcome(Cut(l, f, a, many), l)
<1>0. 0 \in Nat
    OBVIOUS
<1>1. CASE l.kind = "fixed"
    <2>1. Cut(l, f, a, many) = [next |-> l.short, left |-> a]
        BY <1>1 DEF Cut
    <2> QED
        BY <1>1, <2>1, FixedOutcome
<1>2. CASE l.kind = "length"
    BY <1>0, <1>2, Outcomes DEF Cut
<1>4. CASE l.kind = "chain"
    <2>1. Cut(l, f, a, many) = IF many \/ a = 0 \/ a < l.head THEN End(0) ELSE On((a - l.head) % l.unit)
        BY <1>4 DEF Cut
    <2>2. ~(a < l.head) => (a - l.head) % l.unit \in Nat
        BY <1>4 DEF IsPlain
    <2> QED
        BY <1>0, <2>1, <2>2, Outcomes
<1>5. CASE l.kind = "repeat"
    <2>1. Cut(l, f, a, many) = IF l.all \/ a = 0 THEN End(0) ELSE On((a - 1) % l.unit)
        BY <1>5 DEF Cut
    <2>2. a # 0 => (a - 1) % l.unit \in Nat
        BY <1>5 DEF IsPlain
    <2> QED
        BY <1>0, <2>1, <2>2, Outcomes
<1>6. CASE l.kind \notin {"fixed", "length", "chain", "repeat"}
    BY <1>6, Outcomes DEF Cut
<1> QED
    BY <1>1, <1>2, <1>4, <1>5, <1>6

\* An item read from octets of anything.
LEMMA StrayOutcome ==
    ASSUME NEW l, IsPlain(l), NEW r \in Nat, NEW many \in BOOLEAN, NEW o \in Stray(l, r, many)
    PROVE  Outcome(o, l) /\ (r = 0 => o.left = 0)
<1>0. 0 \in Nat
    OBVIOUS
<1>1. CASE l.kind = "skip"
    BY <1>1, Outcomes DEF Stray
<1>2. CASE l.kind = "stop"
    BY <1>2, Outcomes DEF Stray
<1>3. CASE l.kind = "fixed"
    <2>1. o = IF r >= l.size THEN On(r - l.size) ELSE [next |-> l.short, left |-> r]
        BY <1>3 DEF Stray
    <2>2. CASE r >= l.size
        <3>1. r - l.size \in Nat /\ (r = 0 => r - l.size = 0)
            BY <1>3, <2>2 DEF IsPlain
        <3> QED
            BY <2>1, <2>2, <3>1, Outcomes
    <2>3. CASE ~(r >= l.size)
        BY <1>3, <2>1, <2>3, FixedOutcome
    <2> QED
        BY <2>2, <2>3
<1>4. CASE l.kind = "length"
    <2>1. o \in {On(0)} \cup {On(n) : n \in 0 .. r - 1}
        BY <1>4 DEF Stray
    <2>2. CASE o = On(0)
        BY <1>0, <2>2, Outcomes
    <2>3. CASE o # On(0)
        <3>1. PICK n \in 0 .. r - 1 : o = On(n)
            BY <2>1, <2>3
        <3> QED
            BY <3>1, Outcomes
    <2> QED
        BY <2>2, <2>3
<1>6. CASE l.kind = "chain"
    <2>1. \/ \E k \in 1 .. r : Octets(l, k) <= r /\ o = On(r - Octets(l, k))
          \/ \E k \in 1 .. r + 1 : o = Cut(l, k, r, many)
        BY <1>6 DEF Stray
    <2>2. ASSUME NEW k \in 1 .. r, Octets(l, k) <= r, o = On(r - Octets(l, k))
          PROVE  Outcome(o, l) /\ r # 0
        <3>1. r - Octets(l, k) \in Nat
            BY <2>2, OctetsAreNumbers
        <3> QED
            BY <2>2, <3>1, Outcomes
    <2>3. \A k : r = 0 => Cut(l, k, r, many) = End(0)
        BY <1>6 DEF Cut
    <2> QED
        BY <1>0, <1>6, <2>1, <2>2, <2>3, CutOutcome, Outcomes
<1>7. CASE l.kind = "repeat"
    <2>1. \/ \E k \in 0 .. r : Octets(l, k) <= r /\ o = On(r - Octets(l, k))
          \/ o = Cut(l, r, r, many)
        BY <1>7 DEF Stray
    <2>2. ASSUME NEW k \in 0 .. r, Octets(l, k) <= r, o = On(r - Octets(l, k))
          PROVE  Outcome(o, l) /\ (r = 0 => o.left = 0)
        <3>1. Octets(l, k) \in Nat /\ r - Octets(l, k) \in Nat /\ (r = 0 => r - Octets(l, k) = 0)
            BY <2>2, OctetsAreNumbers
        <3> QED
            BY <2>2, <3>1, Outcomes
    <2>3. r = 0 => Cut(l, r, r, many) = End(0)
        BY <1>7 DEF Cut
    <2> QED
        BY <1>0, <1>7, <2>1, <2>2, <2>3, CutOutcome, Outcomes
<1>8. CASE l.kind = "group"
    <2>1. o \in {On(n) : n \in 0 .. r - 1} \cup {End(0)}
        BY <1>8 DEF Stray
    <2> QED
        BY <1>0, <1>8, <2>1, Outcomes
<1>9. CASE l.kind = "flat"
    <2>1. o \in {On(r - k - l.size) : k \in {k \in 1 .. r : k + l.size <= r}} \cup {Unchecked(r)}
        BY <1>9 DEF Stray
    <2>2. CASE o = Unchecked(r)
        <3>1. CanRaise(l)
            BY <1>9 DEF CanRaise
        <3>2. Raise.left = 0 /\ Raise.next = "raise" /\ End(0).left = 0 /\ End(0).next = "end"
            BY DEF Raise, End
        <3> QED
            BY <2>2, <3>1, <3>2 DEF Unchecked, Outcome
    <2>3. CASE o # Unchecked(r)
        <3>1. PICK k \in 1 .. r : k + l.size <= r /\ o = On(r - k - l.size)
            BY <2>1, <2>3
        <3>2. r - k - l.size \in Nat /\ r # 0
            BY <1>9, <3>1 DEF IsPlain
        <3> QED
            BY <1>9, <3>1, <3>2, Outcomes
    <2> QED
        BY <2>2, <2>3
<1> QED
    BY <1>1, <1>2, <1>3, <1>4, <1>6, <1>7, <1>8, <1>9 DEF IsPlain

-----------------------------------------------------------------------------
(* Types, and the decoder's place in step.                                   *)

\* The types of a place.
Places(c) == [uap : DOMAIN Standard[c], wide : Nat, frn : Nat \ {0}, sub : Nat, span : Nat]

\* So is the end of a record.
LEMMA StopIsPlain == \A l : l.kind = "stop" => IsPlain(l)
<1> SUFFICES ASSUME NEW l, l.kind = "stop" PROVE IsPlain(l)
    OBVIOUS
<1>1. /\ l.kind # "fixed" /\ l.kind # "chain" /\ l.kind # "repeat" /\ l.kind # "flat"
      /\ l.kind # "group"
    OBVIOUS
<1> QED
    BY <1>1 DEF IsPlain

\* What the decoder expects anywhere is a layout.
LEMMA FieldIsPlain ==
    ASSUME AsterixTypeOK
    PROVE  IsPlain(Field) /\ IsLayout(Item)
<1>1. /\ cat \in DOMAIN Receivers /\ at.uap \in DOMAIN Standard[cat]
      /\ at.frn \in Nat \ {0} /\ at.sub \in Nat
    BY DEF AsterixTypeOK
<1>2. /\ IsLayout(Receivers[cat].rest) /\ Len(Receivers[cat].uaps[at.uap]) \in Nat
      /\ \A n \in 1 .. Len(Receivers[cat].uaps[at.uap]) : IsLayout(Receivers[cat].uaps[at.uap][n])
    BY <1>1, TablesAssumption
<1>3. IsLayout(Item)
    BY <1>1, <1>2 DEF Item, ItemAt
<1>4. CASE at.sub = 0
    BY <1>3, <1>4 DEF Field, FieldAt, Item, IsLayout
<1>5. CASE at.sub > 0 /\ Item.kind = "group" /\ at.sub <= Len(Item.subs)
    <2>1. Field = Item.subs[at.sub]
        BY <1>5 DEF Field, FieldAt, Item
    <2>2. at.sub \in 1 .. Len(Item.subs)
        BY <1>1, <1>3, <1>5 DEF IsLayout, IsPlain
    <2> QED
        BY <1>3, <1>5, <2>1, <2>2 DEF IsLayout
<1>6. CASE at.sub > 0 /\ ~(Item.kind = "group" /\ at.sub <= Len(Item.subs))
    <2>1. Field = Stop
        BY <1>6 DEF Field, FieldAt, Item
    <2>2. Stop.kind = "stop"
        BY DEF Stop
    <2> QED
        BY <1>3, <2>1, <2>2, StopIsPlain
<1> QED
    BY <1>1, <1>3, <1>4, <1>5, <1>6

\* Places a record can begin at, and go on to.
LEMMA PlacesAhead ==
    ASSUME AsterixTypeOK
    PROVE  /\ Nowhere \in Places(cat) /\ Nowhere.sub <= Nowhere.span
           /\ \A k \in Nat : \A u \in DOMAIN Standard[cat] :
                 Start(u, k) \in Places(cat) /\ Start(u, k).sub <= Start(u, k).span
           /\ NextItem \in Places(cat) /\ NextItem.sub = 0 /\ NextItem.span = 0
           /\ NextSub \in Places(cat) /\ NextSub.sub <= NextSub.span
<1>1. at \in Places(cat) /\ cat \in DOMAIN Receivers /\ at.sub <= at.span
    BY DEF AsterixTypeOK, Places
<1>2. 1 \in DOMAIN Standard[cat]
    BY <1>1, TablesAssumption
<1>3. \A k \in Nat : \A u \in DOMAIN Standard[cat] :
          Start(u, k) \in Places(cat) /\ Start(u, k).sub <= Start(u, k).span
    BY DEF Start, Places
<1>4. NextItem \in Places(cat) /\ NextItem.sub = 0 /\ NextItem.span = 0
    <2>1. at.frn + 1 \in Nat \ {0} /\ 0 \in Nat
        BY <1>1 DEF Places
    <2> DEFINE p == [at EXCEPT !.frn = at.frn + 1]
               q == [p EXCEPT !.sub = 0]
    <2>2. p \in Places(cat)
        BY <1>1, <2>1 DEF Places
    <2>3. q \in Places(cat) /\ q.sub = 0
        BY <2>1, <2>2 DEF Places
    <2>4. [q EXCEPT !.span = 0] \in Places(cat) /\ [q EXCEPT !.span = 0].sub = 0
          /\ [q EXCEPT !.span = 0].span = 0
        BY <2>1, <2>3 DEF Places
    <2>5. NextItem = [q EXCEPT !.span = 0]
        BY DEF NextItem
    <2> QED
        BY <2>4, <2>5
<1>5. NextSub \in Places(cat) /\ NextSub.sub <= NextSub.span
    BY <1>1, <1>4 DEF NextSub, Places
<1> QED
    BY <1>2, <1>3, <1>4, <1>5 DEF Nowhere

\* What was read and whether it was published are yes or no.
LEMMA FlagTypes ==
    ASSUME AsterixTypeOK, Next
    PROVE  got' \in BOOLEAN /\ dropped' \in BOOLEAN
<1>0. got \in BOOLEAN /\ dropped \in BOOLEAN
    BY DEF AsterixTypeOK
<1>1. ASSUME NEW read, Publish(read) PROVE dropped' \in BOOLEAN
    <2>1. dropped' \in {dropped, TRUE}
        BY <1>1 DEF Publish
    <2> QED
        BY <1>0, <2>1
<1>2. CASE Packet \/ OtherCategory \/ BadLength \/ Reconnect \/ Restart \/ Block
    BY <1>0, <1>2 DEF Packet, OtherCategory, BadLength, Reconnect, Restart, Block
<1>3. CASE Record \/ BlockDone \/ Absent \/ TailAbsent
    BY <1>0, <1>3 DEF Record, BlockDone, Absent, TailAbsent
<1>4. CASE Present \/ PresentGroup
    BY <1>0, <1>4 DEF Present, PresentGroup, LoseStep
<1>5. CASE RecordDone \/ TailDone
    BY <1>0, <1>1, <1>5 DEF RecordDone, TailDone
<1>6. ASSUME Abort \/ EndRecord \/ \E p, n : GoOn(p, n)
      PROVE  got' \in BOOLEAN /\ dropped' \in BOOLEAN
    BY <1>0, <1>1, <1>6 DEF Abort, EndRecord, GoOn
<1>7. CASE CutShort \/ TailPresent \/ TailGroup
    <2>1. Abort \/ EndRecord \/ \E p, n : GoOn(p, n)
        BY <1>7, Zenon DEF CutShort, TailPresent, TailGroup, Take
    <2> QED
        BY <1>6, <2>1
<1> QED
    BY <1>2, <1>3, <1>4, <1>5, <1>7 DEF Next, Decode

\* The types, from those of what a step of the decoder changes.
LEMMA DecoderTypes ==
    ASSUME AsterixTypeOK, UNCHANGED <<input, cat, sent, misread>>,
           link' \in {"open", "closed", "dead"}, more' \in {more, 0}, heard' \in Nat,
           mode' \in {"idle", "next", "whole", "tail"}, left' \in Nat,
           at' \in Places(cat), at'.sub <= at'.span, got' \in BOOLEAN, dropped' \in BOOLEAN
    PROVE  AsterixTypeOK'
<1>1. more' \in 0 .. MaxFrames
    BY BoundsAssumption DEF AsterixTypeOK
<1> QED
    BY <1>1 DEF AsterixTypeOK, Places

\* What the handler does with the outcome of an item.
LEMMA TakeTypes ==
    ASSUME AsterixTypeOK, NEW o, Outcome(o, Field), Take(o), UNCHANGED <<input, cat, sent, misread>>,
           got' \in BOOLEAN, dropped' \in BOOLEAN
    PROVE  AsterixTypeOK'
<1>0. /\ link \in {"open", "closed", "dead"} /\ heard \in Nat /\ heard + 1 \in Nat
      /\ o.left \in Nat /\ 0 \in Nat
    BY DEF AsterixTypeOK, Outcome
<1>1. CASE Abort
    BY <1>0, <1>1, PlacesAhead, DecoderTypes DEF Abort
<1>2. CASE EndRecord
    BY <1>0, <1>2, PlacesAhead, DecoderTypes DEF EndRecord
<1>3. ASSUME NEW p \in {NextSub, NextItem}, NEW n \in Nat, GoOn(p, n)
      PROVE  AsterixTypeOK'
    <2>1. p \in Places(cat) /\ p.sub <= p.span
        BY PlacesAhead
    <2> QED
        BY <1>0, <1>3, <2>1, DecoderTypes DEF GoOn
<1> QED
    BY <1>0, <1>1, <1>2, <1>3 DEF Take

\* Frames keep the types.
LEMMA FrameTypes ==
    ASSUME AsterixTypeOK,
           Packet \/ OtherCategory \/ BadLength \/ Reconnect \/ Restart \/ Block
    PROVE  AsterixTypeOK'
<1>0. /\ more \in 0 .. MaxFrames /\ MaxFrames \in Nat \ {0} /\ MaxRecords \in Nat
      /\ link \in {"open", "closed", "dead"}
    BY BoundsAssumption DEF AsterixTypeOK
<1>1. CASE Packet
    <2>1. more' \in 0 .. MaxFrames
        BY <1>0, <1>1 DEF Packet
    <2> QED
        BY <1>1, <2>1 DEF Packet, AsterixTypeOK
<1>2. CASE OtherCategory
    <2>1. more' \in 0 .. MaxFrames
        BY <1>0, <1>2 DEF OtherCategory
    <2> QED
        BY <1>2, <2>1 DEF OtherCategory, AsterixTypeOK
<1>3. CASE BadLength
    <2>1. more' \in 0 .. MaxFrames /\ link' \in {"open", "closed", "dead"}
        BY <1>0, <1>3 DEF BadLength
    <2> QED
        BY <1>3, <2>1 DEF BadLength, AsterixTypeOK
<1>4. CASE Reconnect
    BY <1>4 DEF Reconnect, AsterixTypeOK
<1>5. CASE Restart
    BY <1>5 DEF Restart, AsterixTypeOK
<1>6. CASE Block
    <2>1. more' \in 0 .. MaxFrames
        BY <1>0, <1>6 DEF Block
    <2>2. 0 \in Nat
        OBVIOUS
    <2> QED
        BY <1>6, <2>1, <2>2 DEF Block, AsterixTypeOK
<1> QED
    BY <1>1, <1>2, <1>3, <1>4, <1>5, <1>6

\* What a step out of LoseStep and the place it goes on at changes.
LEMMA LoseStepTypes ==
    ASSUME AsterixTypeOK, LoseStep, at' \in {NextSub, NextItem}, got' \in BOOLEAN, dropped' \in BOOLEAN
    PROVE  AsterixTypeOK'
<1>1. left' \in Nat
    BY BoundsAssumption DEF LoseStep
<1>2. at' \in Places(cat) /\ at'.sub <= at'.span
    BY PlacesAhead
<1>3. misread' \subseteq {cat} \X (DOMAIN Standard[cat]) \X Nat
    <2>1. <<cat, at.uap, at.frn>> \in {cat} \X (DOMAIN Standard[cat]) \X Nat
        BY DEF AsterixTypeOK
    <2>2. misread \subseteq {cat} \X (DOMAIN Standard[cat]) \X Nat
        BY DEF AsterixTypeOK
    <2> QED
        BY <2>1, <2>2 DEF LoseStep
<1> QED
    BY <1>1, <1>2, <1>3 DEF AsterixTypeOK, LoseStep, frame, Places

\* The place of a group's first subfield.
FirstSub(m, n) == [at EXCEPT !.sub = 1, !.span = Least(7 * m, n)]

\* It is a place in the same item, with as many subfields as there are.
LEMMA GroupPlace ==
    ASSUME AsterixTypeOK, NEW n \in Nat \ {0}, NEW m \in Nat \ {0}
    PROVE  /\ FirstSub(m, n) \in Places(cat) /\ FirstSub(m, n).sub <= FirstSub(m, n).span
           /\ FirstSub(m, n).span <= n
           /\ FirstSub(m, n).frn = at.frn /\ FirstSub(m, n).uap = at.uap
<1>1. Least(7 * m, n) \in Nat /\ Least(7 * m, n) >= 1 /\ Least(7 * m, n) <= n
    BY DEF Least
<1>2. at \in Places(cat)
    BY DEF AsterixTypeOK, Places
<1> QED
    BY <1>1, <1>2 DEF Places, FirstSub

\* The standard's groups have a number of subfields.
LEMMA PartsAreNumbers ==
    ASSUME NEW c \in DOMAIN Receivers, NEW u \in DOMAIN Standard[c]
    PROVE  /\ Len(Standard[c][u]) \in Nat
           /\ \A n \in 1 .. Len(Standard[c][u]) : LawParts(c, u, n) \in Nat
<1>1. Len(Standard[c][u]) \in Nat /\ \A n \in 1 .. Len(Standard[c][u]) : IsLayout(Standard[c][u][n])
    BY TablesAssumption
<1>2. ASSUME NEW l, IsLayout(l), l.kind = "group" PROVE Len(l.subs) \in Nat
    BY <1>2 DEF IsLayout, IsPlain
<1> QED
    BY <1>1, <1>2 DEF LawParts

\* In step, the decoder stands at an item or subfield that the standard has.
LEMMA LawIsPlain ==
    ASSUME AsterixInv, InStep
    PROVE  /\ cat \in DOMAIN Standard /\ at.uap \in DOMAIN Standard[cat]
           /\ at.frn \in 1 .. Len(Standard[cat][at.uap])
           /\ at.sub \in 0 .. LawParts(cat, at.uap, at.frn)
           /\ IsPlain(LawField)
           /\ LawField.kind = "group" =>
                 at.sub = 0 /\ LawParts(cat, at.uap, at.frn) = Len(LawField.subs)
<1>1. /\ cat \in DOMAIN Receivers /\ at.uap \in DOMAIN Standard[cat]
      /\ at.frn \in Nat \ {0} /\ at.sub \in Nat /\ at.span \in Nat /\ at.sub <= at.span
    BY DEF AsterixInv, AsterixTypeOK
<1>2. Len(Standard[cat][at.uap]) \in Nat /\ at.frn <= Len(Standard[cat][at.uap])
    BY <1>1, PartsAreNumbers DEF InStep, Law
<1>3. at.frn \in 1 .. Len(Standard[cat][at.uap])
    BY <1>1, <1>2
<1>4. LawParts(cat, at.uap, at.frn) \in Nat
    BY <1>1, <1>3, PartsAreNumbers
<1>5. at.sub \in 0 .. LawParts(cat, at.uap, at.frn)
    BY <1>1, <1>2, <1>4 DEF AsterixInv, StepInv, InStep, Law
<1>6. IsLayout(Standard[cat][at.uap][at.frn])
    BY <1>1, <1>3, TablesAssumption
<1>7. CASE at.sub = 0
    <2>1. LawField = Standard[cat][at.uap][at.frn]
        BY <1>7 DEF LawField, LawAt
    <2> QED
        BY <1>1, <1>3, <1>5, <1>6, <1>7, <2>1, TablesAssumption DEF IsLayout, LawParts
<1>8. CASE at.sub # 0
    <2>1. /\ LawField = Standard[cat][at.uap][at.frn].subs[at.sub]
          /\ LawField = LawAt(cat, at.uap, at.frn, at.sub)
        BY <1>8 DEF LawField, LawAt
    <2>2. at.sub \in 1 .. LawParts(cat, at.uap, at.frn)
        BY <1>4, <1>5, <1>8
    <2>3. /\ Standard[cat][at.uap][at.frn].kind = "group"
          /\ LawParts(cat, at.uap, at.frn) = Len(Standard[cat][at.uap][at.frn].subs)
        BY <2>2 DEF LawParts
    <2>4. IsPlain(LawField)
        BY <1>6, <2>1, <2>2, <2>3 DEF IsLayout
    <2>5. LawField.kind # "group"
        BY <1>1, <1>3, <2>1, <2>2, TablesAssumption
    <2> QED
        BY <1>1, <1>3, <1>5, <2>4, <2>5, TablesAssumption
<1> QED
    BY <1>7, <1>8

\* The decoder keeps the types.
LEMMA DecodeTypes ==
    ASSUME AsterixInv, Decode
    PROVE  AsterixTypeOK'
<1> USE DEF frame, AsterixInv
<1>f. got' \in BOOLEAN /\ dropped' \in BOOLEAN
    BY FlagTypes DEF Next
<1> USE <1>f
<1>0. /\ cat \in DOMAIN Receivers /\ at \in Places(cat) /\ at.uap \in DOMAIN Standard[cat]
      /\ link \in {"open", "closed", "dead"} /\ heard \in Nat /\ heard + 1 \in Nat /\ left \in Nat
      /\ mode \in {"idle", "next", "whole", "tail"} /\ at.sub <= at.span
    BY DEF AsterixTypeOK, Places
<1>1. CASE Record
    BY <1>0, <1>1, PlacesAhead, DecoderTypes DEF Record
<1>2. CASE BlockDone
    BY <1>0, <1>2, DecoderTypes DEF BlockDone
<1>3. CASE Absent
    BY <1>0, <1>3, PlacesAhead, DecoderTypes DEF Absent
<1>4. CASE Present
    BY <1>0, <1>4, PlacesAhead, DecoderTypes, LoseStepTypes DEF Present
<1>5. CASE PresentGroup
    <2>1. PICK m \in 1 .. Octets7(Len(LawField.subs)) :
              IF Field.kind = "group" /\ m = Limited(m, Field.maps)
                THEN /\ at' = [at EXCEPT !.sub = 1, !.span = Least(7 * m, Len(LawField.subs))]
                     /\ UNCHANGED <<frame, sent, heard, dropped, mode, got, left, misread>>
                ELSE at' = NextItem /\ LoseStep
        BY <1>5 DEF PresentGroup
    <2>2. CASE LoseStep /\ at' = NextItem
        BY <2>2, LoseStepTypes
    <2>3. CASE /\ at' = [at EXCEPT !.sub = 1, !.span = Least(7 * m, Len(LawField.subs))]
               /\ UNCHANGED <<frame, sent, heard, dropped, mode, got, left, misread>>
        <3>1. Len(LawField.subs) \in Nat \ {0}
            BY <1>0, <1>5, LawIsPlain DEF PresentGroup, IsPlain
        <3>2. at' = FirstSub(m, Len(LawField.subs)) /\ m \in Nat \ {0}
            BY <2>3 DEF FirstSub
        <3>3. at' \in Places(cat) /\ at'.sub <= at'.span
            BY <3>1, <3>2, GroupPlace
        <3> QED
            BY <1>0, <2>3, <3>3, DecoderTypes
    <2> QED
        BY <2>1, <2>2, <2>3
<1>6. CASE RecordDone
    BY <1>0, <1>6, PlacesAhead, DecoderTypes DEF RecordDone
<1>7. CASE CutShort
    <2>1. PICK f \in Forms(LawField) :
              \E a \in 0 .. Octets(LawField, f) - 1 : Take(Cut(Field, f, a, Rx.many))
        BY <1>7 DEF CutShort
    <2>2. PICK a \in 0 .. Octets(LawField, f) - 1 : Take(Cut(Field, f, a, Rx.many))
        BY <2>1
    <2>3. Outcome(Cut(Field, f, a, Rx.many), Field)
        BY <1>0, FieldIsPlain, CutOutcome, TablesAssumption DEF Rx
    <2> QED
        BY <1>7, <2>2, <2>3, TakeTypes DEF CutShort
<1>8. CASE TailAbsent
    BY <1>0, <1>8, PlacesAhead, DecoderTypes DEF TailAbsent
<1>9. CASE TailPresent
    <2>1. PICK o \in Stray(Field, left, Rx.many) : Take(o)
        BY <1>9 DEF TailPresent
    <2>2. Outcome(o, Field)
        BY <1>0, FieldIsPlain, StrayOutcome, TablesAssumption DEF Rx
    <2> QED
        BY <1>9, <2>1, <2>2, TakeTypes DEF TailPresent
<1>10. CASE TailGroup
    <2>1. Item.maps \in Nat /\ Len(Item.subs) \in Nat \ {0}
        BY <1>10, FieldIsPlain DEF TailGroup, IsLayout, IsPlain
    <2>2. CASE EndRecord
        BY <1>0, <1>10, <2>2, PlacesAhead, DecoderTypes DEF TailGroup, EndRecord
    <2>3. ASSUME NEW m \in 1 .. Limited(left, Item.maps),
                 GoOn([at EXCEPT !.sub = 1, !.span = Least(7 * m, Len(Item.subs))], left - m)
          PROVE  AsterixTypeOK'
        <3>1. Limited(left, Item.maps) \in Nat /\ Limited(left, Item.maps) <= left
            BY <1>0, <2>1, Limits
        <3>2. m \in Nat \ {0} /\ left - m \in Nat
            BY <1>0, <3>1
        <3>3. at' = FirstSub(m, Len(Item.subs)) /\ left' = left - m
            BY <2>3 DEF GoOn, FirstSub
        <3>4. at' \in Places(cat) /\ at'.sub <= at'.span
            BY <2>1, <3>2, <3>3, GroupPlace
        <3> QED
            BY <1>0, <1>10, <2>3, <3>2, <3>3, <3>4, DecoderTypes DEF TailGroup, GoOn
    <2> QED
        BY <1>10, <2>2, <2>3 DEF TailGroup
<1>11. CASE TailDone
    <2>1. CASE Rx.many /\ left > 0
        BY <1>0, <1>11, <2>1, PlacesAhead, DecoderTypes DEF TailDone
    <2>2. CASE ~(Rx.many /\ left > 0)
        BY <1>0, <1>11, <2>2, PlacesAhead, DecoderTypes DEF TailDone
    <2> QED
        BY <2>1, <2>2
<1> QED
    BY <1>1, <1>2, <1>3, <1>4, <1>5, <1>6, <1>7, <1>8, <1>9, <1>10, <1>11 DEF Decode

\* In step the decoder goes on to places of the standard.
LEMMA DecodeInStep ==
    ASSUME AsterixInv, Next
    PROVE  StepInv'
<1> SUFFICES ASSUME mode' = "whole"
             PROVE  (at.span <= IF at.frn <= Len(Law) THEN LawParts(cat, at.uap, at.frn) ELSE 0)'
    BY DEF StepInv
<1>0. /\ cat \in DOMAIN Receivers /\ at.uap \in DOMAIN Standard[cat] /\ at \in Places(cat)
      /\ at.frn \in Nat \ {0} /\ AsterixTypeOK
    BY DEF AsterixInv, AsterixTypeOK, Places
<1>1. ASSUME at'.span = 0, at'.uap \in DOMAIN Standard[cat], at'.frn \in Nat \ {0}, cat' = cat
      PROVE  (at.span <= IF at.frn <= Len(Law) THEN LawParts(cat, at.uap, at.frn) ELSE 0)'
    <2>1. /\ Len(Standard[cat][at'.uap]) \in Nat
          /\ \A n \in 1 .. Len(Standard[cat][at'.uap]) : LawParts(cat, at'.uap, n) \in Nat
        BY <1>0, <1>1, PartsAreNumbers
    <2>2. at'.frn <= Len(Standard[cat][at'.uap]) => LawParts(cat, at'.uap, at'.frn) \in Nat
        BY <1>1, <2>1
    <2>3. Law' = Standard[cat][at'.uap] /\ LawParts(cat, at.uap, at.frn)' = LawParts(cat, at'.uap, at'.frn)
        BY <1>1 DEF Law, LawParts
    <2> QED
        BY <1>1, <2>2, <2>3
<1>2. CASE Record
    BY <1>0, <1>1, <1>2 DEF Record, Start, frame
<1>3. ASSUME mode = "whole", at' = NextSub, cat' = cat
      PROVE  (at.span <= IF at.frn <= Len(Law) THEN LawParts(cat, at.uap, at.frn) ELSE 0)'
    <2>1. CASE at.sub < at.span
        <3>1. at'.span = at.span /\ at'.frn = at.frn /\ at'.uap = at.uap
            BY <1>0, <1>3, <2>1 DEF NextSub, Places
        <3> QED
            BY <1>3, <3>1 DEF AsterixInv, StepInv, Law, LawParts
    <2>2. CASE ~(at.sub < at.span)
        <3>1. at' = NextItem /\ at'.uap = at.uap
            BY <1>0, <1>3, <2>2 DEF NextSub, NextItem, Places
        <3>2. at'.span = 0 /\ at'.frn \in Nat \ {0}
            BY <1>0, <3>1, PlacesAhead DEF Places
        <3> QED
            BY <1>0, <1>1, <1>3, <3>1, <3>2
    <2> QED
        BY <2>1, <2>2
<1>4. CASE Absent
    BY <1>3, <1>4 DEF Absent, InStep, frame
<1>5. CASE Present
    BY <1>3, <1>5 DEF Present, InStep, LoseStep, frame
<1>6. CASE PresentGroup
    <2>1. PICK m \in 1 .. Octets7(Len(LawField.subs)) :
              /\ at' = [at EXCEPT !.sub = 1, !.span = Least(7 * m, Len(LawField.subs))]
              /\ cat' = cat
        BY <1>6 DEF PresentGroup, LoseStep, frame
    <2>2. /\ Len(LawField.subs) \in Nat \ {0} /\ at.frn \in 1 .. Len(Standard[cat][at.uap])
          /\ LawParts(cat, at.uap, at.frn) = Len(LawField.subs)
        BY <1>6, LawIsPlain DEF PresentGroup, IsPlain
    <2>3. at'.span <= Len(LawField.subs) /\ at'.frn = at.frn /\ at'.uap = at.uap
        <3>1. at' = FirstSub(m, Len(LawField.subs)) /\ m \in Nat \ {0}
            BY <2>1 DEF FirstSub
        <3> QED
            BY <1>0, <2>2, <3>1, GroupPlace
    <2>4. at.frn <= Len(Standard[cat][at.uap])
        BY <2>2
    <2> QED
        BY <2>1, <2>2, <2>3, <2>4 DEF Law, LawParts
<1>7. CASE \/ Packet \/ OtherCategory \/ BadLength \/ Reconnect \/ Restart
    <2>1. UNCHANGED <<at, cat, mode>>
        BY <1>7 DEF Packet, OtherCategory, BadLength, Reconnect, Restart
    <2> QED
        BY <2>1 DEF AsterixInv, StepInv, Law, LawParts
<1>8. CASE Block \/ BlockDone \/ RecordDone \/ CutShort \/ TailPresent \/ TailGroup
    BY <1>8 DEF Block, BlockDone, RecordDone, CutShort, TailPresent, TailGroup, Take, Abort, EndRecord, GoOn
<1>9. CASE TailAbsent \/ TailDone
    BY <1>9 DEF TailAbsent, TailDone
<1> QED
    BY <1>2, <1>4, <1>5, <1>6, <1>7, <1>8, <1>9 DEF Next, Decode

\* The types and the place of the decoder, throughout.
THEOREM AsterixInvariant == Spec => []AsterixInv
<1>1. Init => AsterixInv
    <2> SUFFICES ASSUME Init PROVE AsterixInv
        OBVIOUS
    <2>1. cat \in DOMAIN Receivers /\ at = Start(1, 0) /\ 1 \in DOMAIN Standard[cat]
        BY TablesAssumption DEF Init, Nowhere
    <2>2. at \in Places(cat) /\ at.sub <= at.span
        BY <2>1 DEF Start, Places
    <2>3. got \in BOOLEAN /\ dropped \in BOOLEAN
        BY DEF Init
    <2> QED
        BY <2>2, <2>3, BoundsAssumption DEF Init, AsterixInv, AsterixTypeOK, StepInv, Places
<1>2. AsterixInv /\ [Next]_vars => AsterixInv'
    <2>1. ASSUME AsterixInv, Next PROVE AsterixInv'
        BY <2>1, FrameTypes, DecodeTypes, DecodeInStep DEF Next, AsterixInv
    <2>2. ASSUME AsterixInv, UNCHANGED vars PROVE AsterixInv'
        BY <2>2 DEF vars, AsterixInv, AsterixTypeOK, StepInv, Law, LawParts
    <2> QED
        BY <2>1, <2>2
<1> QED
    BY <1>1, <1>2, PTL DEF Spec

\* The decoders never stand past the end of a block nor past what presence octets
\* announced, for any tables, numbers of records and octets (decode_catNNN).
THEOREM AsterixTypes == Spec => []AsterixTypeOK
<1>1. AsterixInv => AsterixTypeOK
    BY DEF AsterixInv
<1> QED
    BY <1>1, AsterixInvariant, PTL

-----------------------------------------------------------------------------
(* From the tables to the blocks.                                            *)

\* A block by the standard is misread at the divergent items only, for any number
\* of records and any items in them: the decoders agree with the editions about
\* every other item (decode_catNNN against the .ast files).
THEOREM MisreadsAreListed ==
    ASSUME TablesAgree
    PROVE  Spec => []KnownMisreads
<1>1. Init => KnownMisreads
    BY DEF Init, KnownMisreads
<1>2. AsterixInv /\ KnownMisreads /\ [Next]_vars => KnownMisreads'
    <2> SUFFICES ASSUME AsterixInv, KnownMisreads, [Next]_vars PROVE KnownMisreads'
        OBVIOUS
    <2>1. ASSUME InStep, LoseStep, <<cat, at.uap, at.frn>> \in Divergent
          PROVE  KnownMisreads'
        BY <2>1 DEF LoseStep, KnownMisreads
    <2>2. ASSUME InStep, <<cat, at.uap, at.frn>> \notin Divergent
          PROVE  IF LawField.kind = "group"
                   THEN /\ Field.kind = "group"
                        /\ \A m \in 1 .. Octets7(Len(LawField.subs)) : m = Limited(m, Field.maps)
                   ELSE LawField.kind # "skip" => \A f \in Forms(LawField) : Agree(Field, LawField, f)
        <3>1. /\ cat \in DOMAIN Standard /\ at.uap \in DOMAIN Standard[cat]
              /\ at.frn \in 1 .. Len(Standard[cat][at.uap])
              /\ at.sub \in 0 .. LawParts(cat, at.uap, at.frn)
            BY <2>2, LawIsPlain
        <3> QED
            BY <2>2, <3>1 DEF TablesAgree, LawField, Field
    <2>3. CASE Present
        <3>1. CASE misread' = misread
            BY <3>1 DEF KnownMisreads
        <3>2. CASE misread' # misread
            <4>1. InStep /\ LoseStep /\ LawField.kind \notin {"skip", "group"}
                BY <2>3, <3>2 DEF Present
            <4>2. \E f \in Forms(LawField) : ~Agree(Field, LawField, f)
                BY <2>3, <3>2 DEF Present
            <4> QED
                BY <2>1, <2>2, <4>1, <4>2
        <3> QED
            BY <3>1, <3>2
    <2>4. CASE PresentGroup
        <3>1. CASE misread' = misread
            BY <3>1 DEF KnownMisreads
        <3>2. CASE misread' # misread
            <4>1. InStep /\ LoseStep /\ LawField.kind = "group"
                BY <2>4, <3>2 DEF PresentGroup
            <4>2. \E m \in 1 .. Octets7(Len(LawField.subs)) :
                      ~(Field.kind = "group" /\ m = Limited(m, Field.maps))
                BY <2>4, <3>2 DEF PresentGroup
            <4> QED
                BY <2>1, <2>2, <4>1, <4>2
        <3> QED
            BY <3>1, <3>2
    <2>5. CASE Block
        BY <2>5 DEF Block, KnownMisreads
    <2>6. ASSUME ~Present, ~PresentGroup, ~Block PROVE misread' = misread
        BY <2>6 DEF Next, Decode, vars, Packet, OtherCategory, BadLength, Reconnect, Restart,
              Record, BlockDone, Absent, RecordDone, CutShort, TailAbsent, TailPresent, TailGroup, TailDone
    <2> QED
        BY <2>3, <2>4, <2>5, <2>6 DEF KnownMisreads
<1> QED
    BY <1>1, <1>2, AsterixInvariant, PTL DEF Spec

\* What the decoder expects anywhere does not raise, if nothing in its tables does.
LEMMA FieldUnraised ==
    ASSUME AsterixTypeOK, Unraised(cat)
    PROVE  ~CanRaise(Field)
<1>1. /\ cat \in DOMAIN Receivers /\ at.uap \in DOMAIN Standard[cat]
      /\ at.frn \in Nat \ {0} /\ at.sub \in Nat
    BY DEF AsterixTypeOK
<1>2. Len(Receivers[cat].uaps[at.uap]) \in Nat
    BY <1>1, TablesAssumption
<1>3. /\ ~CanRaise(Item)
      /\ Item.kind = "group" => \A s \in 1 .. Len(Item.subs) : ~CanRaise(Item.subs[s])
    <2>1. Harmless(Item)
        BY <1>1, <1>2 DEF Item, ItemAt, Unraised
    <2> QED
        BY <2>1 DEF Harmless
<1>4. CASE at.sub = 0
    BY <1>3, <1>4 DEF Field, FieldAt, Item
<1>5. CASE at.sub > 0 /\ Item.kind = "group" /\ at.sub <= Len(Item.subs)
    <2>1. Field = Item.subs[at.sub]
        BY <1>5 DEF Field, FieldAt, Item
    <2>2. at.sub \in 1 .. Len(Item.subs)
        BY <1>1, <1>5, FieldIsPlain DEF IsLayout, IsPlain
    <2> QED
        BY <1>3, <1>5, <2>1, <2>2
<1>6. CASE at.sub > 0 /\ ~(Item.kind = "group" /\ at.sub <= Len(Item.subs))
    <2>1. Field = Stop
        BY <1>6 DEF Field, FieldAt, Item
    <2>2. Stop.kind = "stop"
        BY DEF Stop
    <2> QED
        BY <2>1, <2>2 DEF CanRaise
<1> QED
    BY <1>1, <1>4, <1>5, <1>6

\* The outcome that a step of the decoder takes is one of its field's.
LEMMA TakesOutcome ==
    ASSUME AsterixInv, CutShort \/ TailPresent
    PROVE  \E o : /\ Take(o) /\ Outcome(o, Field)
                  /\ TailPresent /\ left = 0 => o.left = 0
<1>0. cat \in DOMAIN Receivers /\ Rx.many \in BOOLEAN /\ left \in Nat /\ IsPlain(Field)
    BY FieldIsPlain, TablesAssumption DEF AsterixInv, AsterixTypeOK, Rx
<1>1. CASE CutShort
    <2>1. PICK f \in Forms(LawField) :
              \E a \in 0 .. Octets(LawField, f) - 1 : Take(Cut(Field, f, a, Rx.many))
        BY <1>1 DEF CutShort
    <2>2. PICK a \in 0 .. Octets(LawField, f) - 1 : Take(Cut(Field, f, a, Rx.many))
        BY <2>1
    <2>3. ~TailPresent
        BY <1>1 DEF CutShort, InStep, TailPresent
    <2> QED
        BY <1>0, <2>2, <2>3, CutOutcome
<1>2. CASE TailPresent
    <2>1. PICK o \in Stray(Field, left, Rx.many) : Take(o)
        BY <1>2 DEF TailPresent
    <2> QED
        BY <1>0, <2>1, StrayOutcome
<1> QED
    BY <1>1, <1>2

\* No data ends the receiver process, and with it the bundle, but in the fatal
\* categories: an exception needs an item that is read without a length check
\* (decode_catNNN, run_bundle).
THEOREM DeathsAreListed ==
    ASSUME RaiseOnlyWhereListed
    PROVE  Spec => []DiesOnlyWhereListed
<1>1. Init => DiesOnlyWhereListed
    BY DEF Init, DiesOnlyWhereListed
<1>2. AsterixInv /\ DiesOnlyWhereListed /\ [Next]_vars => DiesOnlyWhereListed'
    <2> SUFFICES ASSUME AsterixInv, DiesOnlyWhereListed, [Next]_vars PROVE DiesOnlyWhereListed'
        OBVIOUS
    <2>1. cat' = cat
        BY DEF Next, Decode, vars, Packet, OtherCategory, BadLength, Reconnect, Restart, Block, frame,
               Record, BlockDone, Absent, Present, PresentGroup, LoseStep, RecordDone, CutShort,
               TailAbsent, TailPresent, TailGroup, TailDone
    <2>2. CASE CutShort \/ TailPresent
        <3>1. PICK o : Take(o) /\ Outcome(o, Field)
            BY <2>2, TakesOutcome
        <3>2. CASE o.next = "raise"
            <4>1. CanRaise(Field)
                BY <3>1, <3>2 DEF Outcome
            <4>2. cat \in Fatal
                BY <4>1, FieldUnraised DEF RaiseOnlyWhereListed, AsterixInv, AsterixTypeOK
            <4> QED
                BY <2>1, <4>2 DEF DiesOnlyWhereListed
        <3>3. CASE o.next # "raise"
            <4>1. link' = link
                BY <3>1, <3>3 DEF Take, GoOn, EndRecord
            <4> QED
                BY <2>1, <4>1 DEF DiesOnlyWhereListed
        <3> QED
            BY <3>2, <3>3
    <2>3. CASE TailGroup
        BY <2>1, <2>3 DEF TailGroup, GoOn, EndRecord, DiesOnlyWhereListed
    <2>4. CASE BadLength \/ Reconnect \/ Restart
        BY <2>1, <2>4 DEF BadLength, Reconnect, Restart, DiesOnlyWhereListed
    <2>5. ASSUME ~(CutShort \/ TailPresent), ~TailGroup, ~(BadLength \/ Reconnect \/ Restart)
          PROVE  link' = link
        BY <2>5 DEF Next, Decode, vars, Packet, OtherCategory, Block, frame, Record, BlockDone, Absent,
               Present, PresentGroup, LoseStep, RecordDone, TailAbsent, TailDone
    <2> QED
        BY <2>1, <2>2, <2>3, <2>4, <2>5 DEF DiesOnlyWhereListed
<1> QED
    BY <1>1, <1>2, AsterixInvariant, PTL DEF Spec

\* A record that is cut short leaves no octets to go on with, but in the leaky
\* categories.
LEMMA CutCounts ==
    ASSUME AsterixInv, CutsLeaveNothing, CutShort, Rx.many
    PROVE  \/ EndRecord
           \/ \E p, n : GoOn(p, n) /\ (cat \notin Leaky => n = 0)
<1>0. cat \in DOMAIN Receivers /\ Receivers[cat].many /\ Unraised(cat) /\ AsterixTypeOK
    BY DEF AsterixInv, AsterixTypeOK, Rx, CutsLeaveNothing
<1>1. PICK f \in Forms(LawField) :
          /\ Agree(Field, LawField, f)
          /\ \E a \in 0 .. Octets(LawField, f) - 1 : Take(Cut(Field, f, a, Rx.many))
    BY DEF CutShort
<1>2. PICK a \in 0 .. Octets(LawField, f) - 1 : Take(Cut(Field, f, a, Rx.many))
    BY <1>1
<1> DEFINE o == Cut(Field, f, a, Rx.many)
<1>3. o.next # "raise"
    <2>1. Rx.many \in BOOLEAN
        BY <1>0, TablesAssumption DEF Rx
    <2> QED
        <3>1. a \in Nat
            OBVIOUS
        <3>2. Outcome(o, Field)
            BY <1>0, <2>1, <3>1, FieldIsPlain, CutOutcome
        <3> QED
            BY <1>0, <3>2, FieldUnraised DEF Outcome
<1>4. cat \notin Leaky =>
          o.left = 0 \/ (o.next = "end" /\ ~(at.sub > 0 /\ Item.short = "on"))
    <2>1. /\ at.uap \in DOMAIN Standard[cat] /\ at.frn \in 1 .. Len(Standard[cat][at.uap])
          /\ at.sub \in 0 .. LawParts(cat, at.uap, at.frn)
          /\ LawField.kind \notin {"skip", "group"}
        BY LawIsPlain DEF CutShort
    <2>2. o = Cut(Field, f, a, TRUE)
        BY <1>0, TablesAssumption DEF Rx
    <2>3. LawField = LawAt(cat, at.uap, at.frn, at.sub) /\ Field = FieldAt(cat, at.uap, at.frn, at.sub)
          /\ Item = ItemAt(cat, at.uap, at.frn)
        BY DEF LawField, Field, Item
    <2> HIDE DEF o
    <2> SUFFICES ASSUME cat \notin Leaky
                 PROVE  o.left = 0 \/ (o.next = "end" /\ ~(at.sub > 0 /\ Item.short = "on"))
        OBVIOUS
    <2>4. \A s \in 0 .. LawParts(cat, at.uap, at.frn) :
              LawAt(cat, at.uap, at.frn, s).kind \notin {"skip", "group"} =>
              \A g \in Forms(LawAt(cat, at.uap, at.frn, s)) :
                  Agree(FieldAt(cat, at.uap, at.frn, s), LawAt(cat, at.uap, at.frn, s), g) =>
                  \A b \in 0 .. Octets(LawAt(cat, at.uap, at.frn, s), g) - 1 :
                      \/ Cut(FieldAt(cat, at.uap, at.frn, s), g, b, TRUE).left = 0
                      \/ /\ Cut(FieldAt(cat, at.uap, at.frn, s), g, b, TRUE).next = "end"
                         /\ ~(s > 0 /\ ItemAt(cat, at.uap, at.frn).short = "on")
        BY <1>0, <2>1 DEF CutsLeaveNothing
    <2> QED
        BY <1>1, <2>1, <2>2, <2>3, <2>4
<1>5. Take(o)
    BY <1>2
<1> HIDE DEF o
<1>6. CASE o.next = "on" /\ GoOn(NextSub, o.left)
    BY <1>4, <1>6
<1>7. CASE o.next = "end" /\ at.sub > 0 /\ Item.short \in {"on", "skip"}
    <2>1. GoOn(NextItem, IF Item.short = "on" THEN o.left ELSE 0)
        BY <1>5, <1>7 DEF Take
    <2>2. cat \notin Leaky => (IF Item.short = "on" THEN o.left ELSE 0) = 0
        BY <1>4, <1>7
    <2> QED
        BY <2>1, <2>2
<1>8. CASE o.next = "end" /\ ~(at.sub > 0 /\ Item.short \in {"on", "skip"})
    BY <1>5, <1>8 DEF Take
<1> QED
    BY <1>3, <1>5, <1>6, <1>7, <1>8 DEF Take

\* A tail without octets stays without.
LEMMA TailCounts ==
    ASSUME AsterixInv, CutsLeaveNothing, TailPresent, Rx.many
    PROVE  \/ EndRecord
           \/ \E p, n : GoOn(p, n) /\ (left = 0 => n = 0)
<1>0. Unraised(cat) /\ AsterixTypeOK
    BY DEF AsterixInv, AsterixTypeOK, Rx, CutsLeaveNothing
<1>1. PICK o : Take(o) /\ Outcome(o, Field) /\ (left = 0 => o.left = 0)
    BY TakesOutcome
<1>2. o.next # "raise"
    BY <1>0, <1>1, FieldUnraised DEF Outcome
<1>3. CASE o.next = "on" /\ GoOn(NextSub, o.left)
    BY <1>1, <1>3
<1>4. CASE o.next = "end" /\ at.sub > 0 /\ Item.short \in {"on", "skip"}
    <2>1. GoOn(NextItem, IF Item.short = "on" THEN o.left ELSE 0)
        BY <1>1, <1>4 DEF Take
    <2>2. left = 0 => (IF Item.short = "on" THEN o.left ELSE 0) = 0
        BY <1>1
    <2> QED
        BY <2>1, <2>2
<1>5. CASE o.next = "end" /\ ~(at.sub > 0 /\ Item.short \in {"on", "skip"})
    BY <1>1, <1>5 DEF Take
<1> QED
    BY <1>1, <1>2, <1>3, <1>4, <1>5 DEF Take

\* Every step keeps the count.
LEMMA CountStep ==
    ASSUME AsterixInv, CutsLeaveNothing, CountInv, Next
    PROVE  CountInv'
<1>0. /\ heard \in Nat /\ sent \in Nat /\ left \in Nat /\ cat \in DOMAIN Receivers
      /\ mode \in {"idle", "next", "whole", "tail"}
    BY BoundsAssumption DEF AsterixInv, AsterixTypeOK
<1>1. cat' = cat /\ Rx' = Rx
    BY DEF Next, Decode, Packet, OtherCategory, BadLength, Reconnect, Restart, Block, frame, Rx,
           Record, BlockDone, Absent, Present, PresentGroup, LoseStep, RecordDone, CutShort,
           TailAbsent, TailPresent, TailGroup, TailDone
<1> SUFFICES ASSUME Rx.many, misread' = {} PROVE CountInv'
    BY <1>1 DEF CountInv
<1>2. Rx.needs = {}
    BY <1>0 DEF CutsLeaveNothing, Rx
<1>3. CASE Block
    <2>1. sent' \in Nat /\ heard' = 0 /\ mode' = "next"
        BY <1>3 DEF Block
    <2> QED
        BY <2>1 DEF CountInv
<1>4. CASE misread' # misread /\ ~Block
    <2>1. misread' # {}
        BY <1>4 DEF Next, Decode, Packet, OtherCategory, BadLength, Reconnect, Restart,
           Record, BlockDone, Absent, Present, PresentGroup, LoseStep, RecordDone, CutShort,
           TailAbsent, TailPresent, TailGroup, TailDone
    <2> QED
        BY <2>1
<1>5. CASE misread' = misread
    <2> USE <1>0, <1>1, <1>5 DEF CountInv
    <2>1. CASE Packet \/ OtherCategory \/ BadLength \/ Reconnect \/ Restart
        BY <2>1 DEF Packet, OtherCategory, BadLength, Reconnect, Restart
    <2>2. CASE Record
        BY <2>2 DEF Record
    <2>3. CASE BlockDone
        BY <2>3 DEF BlockDone
    <2>4. CASE Absent
        BY <1>2, <2>4 DEF Absent
    <2>5. CASE Present
        BY <2>5 DEF Present, LoseStep
    <2>6. CASE PresentGroup
        BY <2>6 DEF PresentGroup, LoseStep
    <2>7. CASE RecordDone
        BY <2>7 DEF RecordDone
    <2>8. CASE CutShort
        <3>1. heard + 1 = sent /\ sent' = sent
            BY <2>8 DEF CutShort
        <3>2. CASE EndRecord
            BY <3>1, <3>2 DEF EndRecord
        <3>3. ASSUME NEW p, NEW n, GoOn(p, n), cat \notin Leaky => n = 0 PROVE CountInv'
            BY <3>1, <3>3 DEF GoOn
        <3> QED
            BY <2>8, <3>2, <3>3, CutCounts
    <2>9. CASE TailAbsent
        BY <1>2, <2>9 DEF TailAbsent
    <2>10. CASE TailPresent
        <3>1. mode = "tail" /\ sent' = sent
            BY <2>10 DEF TailPresent
        <3>2. CASE EndRecord
            BY <3>1, <3>2 DEF EndRecord
        <3>3. ASSUME NEW p, NEW n, GoOn(p, n), left = 0 => n = 0 PROVE CountInv'
            BY <3>1, <3>3 DEF GoOn
        <3> QED
            BY <2>10, <3>2, <3>3, TailCounts
    <2>11. CASE TailGroup
        <3>1. mode = "tail" /\ sent' = sent /\ heard + 1 >= sent /\ cat \in Leaky
            <4>1. mode = "tail" /\ left > 0
                BY <2>11 DEF TailGroup
            <4>2. sent' = sent
                BY <2>11 DEF TailGroup
            <4>3. misread = {} /\ left # 0
                BY <4>1
            <4> QED
                BY <4>1, <4>2, <4>3
        <3>2. CASE EndRecord
            BY <3>1, <3>2 DEF EndRecord
        <3>3. ASSUME NEW p, NEW n, GoOn(p, n) PROVE CountInv'
            BY <3>1, <3>3 DEF GoOn
        <3> QED
            BY <2>11, <3>2, <3>3 DEF TailGroup
    <2>12. CASE TailDone
        BY <2>12 DEF TailDone
    <2> QED
        BY <1>3, <2>1, <2>2, <2>3, <2>4, <2>5, <2>6, <2>7, <2>8, <2>9, <2>10, <2>11, <2>12 DEF Next, Decode
<1> QED
    BY <1>3, <1>4, <1>5

\* A record that was decoded goes unpublished only where the handler asks for more.
LEMMA KeepStep ==
    ASSUME AsterixInv, dropped => Rx.keep = "some", Next
    PROVE  dropped' => Rx'.keep = "some"
<1>0. cat' = cat /\ Rx' = Rx /\ Rx.keep \in {"all", "some"}
    <2>1. cat' = cat
        BY DEF Next, Decode, Packet, OtherCategory, BadLength, Reconnect, Restart, Block, frame,
               Record, BlockDone, Absent, Present, PresentGroup, LoseStep, RecordDone, CutShort,
               TailAbsent, TailPresent, TailGroup, TailDone
    <2> QED
        BY <2>1, TablesAssumption DEF Rx, AsterixInv, AsterixTypeOK
<1>1. ASSUME NEW read, Publish(read) PROVE dropped' => Rx.keep = "some"
    BY <1>0, <1>1 DEF Publish
<1>2. CASE Packet \/ OtherCategory \/ BadLength \/ Reconnect \/ Restart \/ Block
    BY <1>0, <1>2 DEF Packet, OtherCategory, BadLength, Reconnect, Restart, Block
<1>3. CASE Record \/ BlockDone \/ Absent \/ TailAbsent
    BY <1>0, <1>3 DEF Record, BlockDone, Absent, TailAbsent
<1>4. CASE Present \/ PresentGroup
    BY <1>0, <1>4 DEF Present, PresentGroup, LoseStep
<1>5. CASE RecordDone \/ TailDone
    BY <1>0, <1>1, <1>5 DEF RecordDone, TailDone
<1>6. ASSUME Abort \/ EndRecord \/ \E p, n : GoOn(p, n)
      PROVE  dropped' => Rx.keep = "some"
    BY <1>0, <1>1, <1>6 DEF Abort, EndRecord, GoOn
<1>7. CASE CutShort \/ TailPresent \/ TailGroup
    <2>1. Abort \/ EndRecord \/ \E p, n : GoOn(p, n)
        BY <1>7, Zenon DEF CutShort, TailPresent, TailGroup, Take
    <2> QED
        BY <1>0, <1>6, <2>1
<1> QED
    BY <1>0, <1>2, <1>3, <1>4, <1>5, <1>7 DEF Next, Decode

\* A handler that loops over a block decodes as many records as it holds, a last
\* one that is cut short included, and no more but in the leaky categories, and
\* publishes each unless it asks for an item or a position; for any number of
\* records, and any place of the cut (the while loops of cat.py).
THEOREM RecordsAreCounted ==
    ASSUME CutsLeaveNothing
    PROVE  Spec => []RecordForRecord
<1> DEFINE Inv == CountInv /\ (dropped => Rx.keep = "some")
<1>1. Init => Inv
    BY DEF Init, CountInv
<1>2. AsterixInv /\ Inv /\ [Next]_vars => Inv'
    <2>1. ASSUME Inv, UNCHANGED vars PROVE Inv'
        BY <2>1 DEF vars, CountInv, Rx
    <2>2. ASSUME AsterixInv, Inv, Next PROVE Inv'
        BY <2>2, CountStep, KeepStep
    <2> QED
        BY <2>1, <2>2
<1>3. Inv => RecordForRecord
    BY DEF CountInv, RecordForRecord
<1> HIDE DEF Inv
<1> QED
    BY <1>1, <1>2, <1>3, AsterixInvariant, PTL DEF Spec
===============================================================================
