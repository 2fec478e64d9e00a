------------------------------- MODULE Asterix -------------------------------
(* A receiver of cat.py: it takes data blocks of one ASTERIX category from    *)
(* UDP, TCP or a raw Zenoh topic, decodes the records of a block item by item *)
(* and publishes each.  The sender follows the standard; what reaches the     *)
(* receiver may be a frame with a bad length, a frame of another category, or *)
(* a block whose last record is cut short.                                    *)
EXTENDS AsterixLayout, FiniteSets

CONSTANTS
    Receivers,      \* category |-> what its part of cat.py does
    Standard,       \* category |-> its user application profiles (UAPs)
    Inputs,         \* the inputs modelled, of {"udp", "tcp", "raw"}
    Divergent,      \* <<category, UAP, FRN>> of the items known to be misread
    Fatal,          \* categories whose decoder raises on some data
    Leaky,          \* categories whose records can end before the data does
    MaxFrames, MaxRecords, MaxTail

\* What the tables have at an FRN of a UAP, and at a subfield of it (0: the item);
\* FRNs behind a decoder's table are handled alike.
ItemAt(c, u, n) ==
    IF n <= Len(Receivers[c].uaps[u]) THEN Receivers[c].uaps[u][n] ELSE Receivers[c].rest
FieldAt(c, u, n, s) ==
    CASE s = 0 -> ItemAt(c, u, n)
      [] s > 0 /\ ItemAt(c, u, n).kind = "group" /\ s <= Len(ItemAt(c, u, n).subs) -> ItemAt(c, u, n).subs[s]
      [] OTHER -> Stop
LawAt(c, u, n, s) == IF s = 0 THEN Standard[c][u][n] ELSE Standard[c][u][n].subs[s]
LawParts(c, u, n) == IF Standard[c][u][n].kind = "group" THEN Len(Standard[c][u][n].subs) ELSE 0

\* Both tables have the same categories and profiles; an entry is a layout; in
\* the standard a group has no groups within.
ASSUME TablesAssumption ==
    /\ DOMAIN Receivers = DOMAIN Standard
    /\ \A c \in DOMAIN Receivers :
         /\ 1 \in DOMAIN Standard[c] /\ IsLayout(Receivers[c].rest)
         /\ Receivers[c].many \in BOOLEAN /\ Receivers[c].keep \in {"all", "some"}
         /\ \A u \in DOMAIN Standard[c] :
              /\ Len(Standard[c][u]) \in Nat /\ Len(Receivers[c].uaps[u]) \in Nat
              /\ \A n \in 1 .. Len(Receivers[c].uaps[u]) : IsLayout(Receivers[c].uaps[u][n])
              /\ \A n \in 1 .. Len(Standard[c][u]) :
                   /\ IsLayout(Standard[c][u][n])
                   /\ \A s \in 1 .. LawParts(c, u, n) : LawAt(c, u, n, s).kind # "group"
ASSUME BoundsAssumption == MaxFrames \in Nat \ {0} /\ MaxRecords \in Nat /\ MaxTail \in Nat

VARIABLES
    input, cat,     \* what this receiver process listens to
    link,           \* "open", "closed" (TCP connection lost) or "dead" (process)
    more,           \* frames of the packet at hand that are still unread
    sent, heard,    \* records in the block, records decoded from it
    dropped,        \* one of these was not published
    mode,           \* "idle", "next" record, "whole", or "tail": out of step
    at,             \* the decoder's place in the record
    got,            \* an item of the record at hand has been read
    left,           \* in the tail, the octets of the block not yet read
    misread         \* items a block by the standard was misread at

vars == <<input, cat, link, more, sent, heard, dropped, mode, at, got, left, misread>>
frame == <<input, cat, link, more>>

Rx == Receivers[cat]
Law == Standard[cat][at.uap]

\* The record's first item: its UAP, and the FRNs its FSPEC has bits for.
Start(uap, wide) == [uap |-> uap, wide |-> wide, frn |-> 1, sub |-> 0, span |-> 0]
Nowhere == Start(1, 0)
NextItem == [at EXCEPT !.frn = @ + 1, !.sub = 0, !.span = 0]
NextSub == IF at.sub < at.span THEN [at EXCEPT !.sub = @ + 1] ELSE NextItem

\* What the decoder expects here, and what the standard puts here.
Item == ItemAt(cat, at.uap, at.frn)
Field == FieldAt(cat, at.uap, at.frn, at.sub)
LawField == LawAt(cat, at.uap, at.frn, at.sub)
InRecord == at.frn <= 7 * at.wide

Init ==
    /\ input \in Inputs /\ cat \in DOMAIN Receivers
    /\ link = "open" /\ more = 0 /\ sent = 0 /\ heard = 0 /\ dropped = FALSE
    /\ mode = "idle" /\ at = Nowhere /\ got = FALSE /\ left = 0 /\ misread = {}

------------------------------------------------------------------------------
(* Frames.                                                                    *)

\* A datagram, a run of frames on the connection, or a publication.
Packet ==
    /\ mode = "idle" /\ link = "open" /\ more = 0
    /\ more' \in 1 .. (IF input = "raw" THEN 1 ELSE MaxFrames)
    /\ UNCHANGED <<input, cat, link, sent, heard, dropped, mode, at, got, left, misread>>

\* process_stream, or _raw_frame_payload: not this receiver's category.
OtherCategory ==
    /\ mode = "idle" /\ more > 0
    /\ more' = more - 1
    /\ UNCHANGED <<input, cat, link, sent, heard, dropped, mode, at, got, left, misread>>

\* Mutant: the exception of a bad length is not caught.
BadLengthUncaught ==
    /\ mode = "idle" /\ more > 0
    /\ more' = 0
    /\ link' = IF input = "udp" THEN "dead" ELSE IF input \in Rx.closes THEN "closed" ELSE link
    /\ UNCHANGED <<input, cat, sent, heard, dropped, mode, at, got, left, misread>>

\* iter_frames: a length below 3 or past the packet gives up the packet; on a
\* TCP connection the ValueError or EOFError closes it.
BadLength ==
    /\ mode = "idle" /\ more > 0
    /\ more' = 0
    /\ link' = IF input \in Rx.closes THEN "closed" ELSE link
    /\ UNCHANGED <<input, cat, sent, heard, dropped, mode, at, got, left, misread>>

\* The sender connects again, and is accepted.
Reconnect ==
    /\ link = "closed"
    /\ link' = "open"
    /\ UNCHANGED <<input, cat, more, sent, heard, dropped, mode, at, got, left, misread>>

\* run_bundle stops every receiver when one has exited; the supervisor starts
\* the bundle again.
Restart ==
    /\ link = "dead"
    /\ link' = "open"
    /\ UNCHANGED <<input, cat, more, sent, heard, dropped, mode, at, got, left, misread>>

Block ==
    /\ mode = "idle" /\ more > 0
    /\ more' = more - 1
    /\ sent' \in 0 .. MaxRecords /\ heard' = 0 /\ dropped' = FALSE
    /\ mode' = "next" /\ misread' = {}
    /\ UNCHANGED <<input, cat, link, at, got, left>>

------------------------------------------------------------------------------
(* Records by the standard, in step.                                          *)

\* The handlers of some categories loop over the block, the others decode its
\* first record only.
Record ==
    /\ mode = "next" /\ heard < sent /\ (Rx.many \/ heard = 0)
    /\ \E u \in DOMAIN Standard[cat] :
         \E w \in 1 .. Octets7(Len(Standard[cat][u])) : at' = Start(u, w)
    /\ mode' = "whole"
    /\ UNCHANGED <<frame, sent, heard, dropped, got, left, misread>>

BlockDone ==
    /\ mode = "next" /\ ~(heard < sent /\ (Rx.many \/ heard = 0))
    /\ mode' = "idle"
    /\ UNCHANGED <<frame, sent, heard, dropped, at, got, left, misread>>

InStep == mode = "whole" /\ InRecord /\ at.frn <= Len(Law)

\* The item is not in the record; a few decoders go no further without it.
Absent ==
    /\ InStep
    /\ IF at.sub = 0 /\ at.frn \in Rx.needs
         THEN mode' = "idle" /\ at' = Nowhere /\ got' = FALSE
         ELSE UNCHANGED <<mode, got>> /\ at' = NextSub
    /\ UNCHANGED <<frame, sent, heard, dropped, left, misread>>

\* The decoder takes another number of octets than the item has: what follows
\* is anything.
LoseStep ==
    /\ mode' = "tail" /\ left' \in 0 .. MaxTail /\ got' = TRUE
    /\ misread' = misread \cup {<<cat, at.uap, at.frn>>}
    /\ UNCHANGED <<frame, sent, heard, dropped>>

Present ==
    /\ InStep /\ LawField.kind \notin {"skip", "group"}
    /\ at' = NextSub
    /\ \E f \in Forms(LawField) :
         IF Agree(Field, LawField, f)
           THEN got' = TRUE /\ UNCHANGED <<frame, sent, heard, dropped, mode, left, misread>>
           ELSE LoseStep

\* Mutant: the extension bit of the presence octets is not looked at.
PresentGroupOne ==
    /\ InStep /\ LawField.kind = "group"
    /\ \E m \in 1 .. Octets7(Len(LawField.subs)) :
         IF Field.kind = "group" /\ m = 1
           THEN /\ at' = [at EXCEPT !.sub = 1, !.span = Least(7 * m, Len(LawField.subs))]
                /\ UNCHANGED <<frame, sent, heard, dropped, mode, got, left, misread>>
           ELSE at' = NextItem /\ LoseStep

PresentGroup ==
    /\ InStep /\ LawField.kind = "group"
    /\ \E m \in 1 .. Octets7(Len(LawField.subs)) :
         IF Field.kind = "group" /\ m = Limited(m, Field.maps)
           THEN /\ at' = [at EXCEPT !.sub = 1, !.span = Least(7 * m, Len(LawField.subs))]
                /\ UNCHANGED <<frame, sent, heard, dropped, mode, got, left, misread>>
           ELSE at' = NextItem /\ LoseStep

\* The handlers of some categories publish whatever was decoded; the others ask
\* for an item (len(track) > 2) or a position, which what was read may not have
\* brought.
Publish(read) ==
    dropped' \in IF Rx.keep = "all" THEN {dropped} ELSE IF read THEN {dropped, TRUE} ELSE {TRUE}

\* Mutant: the handler returns after a record.
RecordDoneReturns ==
    /\ mode = "whole" /\ ~(InRecord /\ at.frn <= Len(Law))
    /\ heard' = heard + 1 /\ Publish(got) /\ mode' = "idle" /\ at' = Nowhere /\ got' = FALSE
    /\ UNCHANGED <<frame, sent, left, misread>>

RecordDone ==
    /\ mode = "whole" /\ ~(InRecord /\ at.frn <= Len(Law))
    /\ heard' = heard + 1 /\ Publish(got) /\ mode' = "next" /\ at' = Nowhere /\ got' = FALSE
    /\ UNCHANGED <<frame, sent, left, misread>>

------------------------------------------------------------------------------
(* Records that end too early, and what is then read from their octets.       *)

\* The handler's exception ends the UDP receiver's process or the connection's
\* thread; a subscriber's callback is called again for the next publication.
Abort ==
    /\ link' = CASE input = "udp" -> "dead" [] input = "tcp" -> "closed" [] OTHER -> link
    /\ more' = IF input = "raw" THEN more ELSE 0
    /\ mode' = "idle" /\ at' = Nowhere /\ got' = FALSE /\ left' = 0
    /\ UNCHANGED <<heard, dropped>>

\* The record is decoded up to here; a looping handler is told the block's end.
\* Of an item that is not of a fixed length, the octets there were may have counted.
EndRecord ==
    /\ heard' = heard + 1 /\ Publish(got \/ Field.kind \notin {"fixed", "stop"})
    /\ mode' = "idle" /\ at' = Nowhere /\ got' = FALSE /\ left' = 0
    /\ UNCHANGED <<link, more>>

GoOn(place, n) ==
    /\ mode' = "tail" /\ at' = place /\ got' = TRUE /\ left' = n
    /\ UNCHANGED <<link, more, heard, dropped>>

\* A subfield's end is the group's to judge.
Take(o) ==
    \/ o.next = "raise" /\ Abort
    \/ o.next = "on" /\ GoOn(NextSub, o.left)
    \/ o.next = "end" /\ IF at.sub > 0 /\ Item.short \in {"on", "skip"}
                           THEN GoOn(NextItem, IF Item.short = "on" THEN o.left ELSE 0)
                           ELSE EndRecord

\* The block ends inside this item of its last record.
CutShort ==
    /\ InStep /\ heard + 1 = sent /\ LawField.kind \notin {"skip", "group"}
    /\ \E f \in Forms(LawField) :
         /\ Agree(Field, LawField, f)
         /\ \E a \in 0 .. Octets(LawField, f) - 1 : Take(Cut(Field, f, a, Rx.many))
    /\ UNCHANGED <<input, cat, sent, misread>>

TailAbsent ==
    /\ mode = "tail" /\ InRecord
    /\ IF at.sub = 0 /\ at.frn \in Rx.needs
         THEN mode' = "idle" /\ left' = 0 /\ at' = Nowhere /\ got' = FALSE
         ELSE at' = NextSub /\ UNCHANGED <<mode, got, left>>
    /\ UNCHANGED <<frame, sent, heard, dropped, misread>>

TailPresent ==
    /\ mode = "tail" /\ InRecord /\ ~(at.sub = 0 /\ Item.kind = "group" /\ left > 0)
    /\ \E o \in Stray(Field, left, Rx.many) : Take(o)
    /\ UNCHANGED <<input, cat, sent, misread>>

\* Mutant: presence octets are counted past the end of the block.
TailGroupPast ==
    /\ mode = "tail" /\ InRecord /\ at.sub = 0 /\ Item.kind = "group" /\ left > 0
    /\ \/ \E m \in 1 .. Item.maps :
            GoOn([at EXCEPT !.sub = 1, !.span = Least(7 * m, Len(Item.subs))], left - m)
       \/ EndRecord
    /\ UNCHANGED <<input, cat, sent, misread>>

TailGroup ==
    /\ mode = "tail" /\ InRecord /\ at.sub = 0 /\ Item.kind = "group" /\ left > 0
    /\ \/ \E m \in 1 .. Limited(left, Item.maps) :
            GoOn([at EXCEPT !.sub = 1, !.span = Least(7 * m, Len(Item.subs))], left - m)
       \/ EndRecord
    /\ UNCHANGED <<input, cat, sent, misread>>

\* Mutant: a record without an item does not move on.
TailDoneStuck ==
    /\ mode = "tail" /\ ~InRecord
    /\ heard' = Least(heard + 1, MaxRecords) /\ Publish(got) /\ got' = FALSE
    /\ IF Rx.many /\ left > 0
         THEN \E k \in 1 .. left : at' = Start(at.uap, k) /\ UNCHANGED <<mode, left>>
         ELSE mode' = "idle" /\ left' = 0 /\ at' = Nowhere
    /\ UNCHANGED <<frame, sent, misread>>

\* The record is over.  A looping handler takes what is left for another one.
TailDone ==
    /\ mode = "tail" /\ ~InRecord
    /\ heard' = heard + 1 /\ Publish(got) /\ got' = FALSE
    /\ IF Rx.many /\ left > 0
         THEN \E k \in 1 .. left : at' = Start(at.uap, k) /\ left' = left - k /\ UNCHANGED mode
         ELSE mode' = "idle" /\ left' = 0 /\ at' = Nowhere
    /\ UNCHANGED <<frame, sent, misread>>

Decode ==
    \/ Record \/ BlockDone \/ Absent \/ Present \/ PresentGroup \/ RecordDone
    \/ CutShort \/ TailAbsent \/ TailPresent \/ TailGroup \/ TailDone

Next == Packet \/ OtherCategory \/ BadLength \/ Reconnect \/ Restart \/ Block \/ Decode

\* The receiver runs: a handler that has begun goes on.
Spec == Init /\ [][Next]_vars /\ WF_vars(Decode)

------------------------------------------------------------------------------

\* The decoder never stands past the end of the block (left is a number of
\* octets) nor past the item and subfield its presence octets announced.
AsterixTypeOK ==
    /\ input \in Inputs /\ cat \in DOMAIN Receivers
    /\ link \in {"open", "closed", "dead"} /\ more \in 0 .. MaxFrames
    /\ sent \in 0 .. MaxRecords /\ heard \in Nat /\ dropped \in BOOLEAN /\ got \in BOOLEAN
    /\ mode \in {"idle", "next", "whole", "tail"} /\ left \in Nat
    /\ at \in [uap : DOMAIN Standard[cat], wide : Nat, frn : Nat \ {0}, sub : Nat, span : Nat]
    /\ at.sub <= at.span
    /\ misread \subseteq {cat} \X (DOMAIN Standard[cat]) \X Nat

\* Whatever a sender puts in a block by the standard, every decoder finds each
\* item where the standard puts it, but for the items listed as divergent
\* (the decode_catNNN functions against the .ast editions).
KnownMisreads == misread \subseteq Divergent

\* The same without the exceptions, as ASTERIX.md rates the decoders.
AsTheStandard == misread = {}

\* A handler that loops over a block decodes as many records as the block holds,
\* a last record that is cut short included, and publishes each of them unless it
\* asks for an item or a position; the octets of a cut repetition turn into
\* records of their own only in the leaky categories.
RecordForRecord ==
    mode = "idle" /\ Rx.many /\ misread = {} =>
        /\ heard = sent \/ (heard > sent /\ cat \in Leaky)
        /\ dropped => Rx.keep = "some"

\* No data a sender can put in a datagram ends the receiver, and with it the
\* whole bundle (run_bundle), but in the categories listed as fatal.
DiesOnlyWhereListed == link = "dead" => cat \in Fatal

\* Every block the handler starts on is finished: the loop over its records
\* always moves on (while pos < len(data) ... if pos <= previous: break).
BlockEnds == mode # "idle" ~> mode = "idle"

------------------------------------------------------------------------------
(* What the tables themselves must have for that.                             *)

\* Outside the divergent items the decoder takes each form of an item for what
\* the standard means by it.
TablesAgree ==
    \A c \in DOMAIN Standard : \A u \in DOMAIN Standard[c] : \A n \in 1 .. Len(Standard[c][u]) :
        <<c, u, n>> \notin Divergent =>
            \A s \in 0 .. LawParts(c, u, n) :
                LET law == LawAt(c, u, n, s)
                    code == FieldAt(c, u, n, s)
                IN  IF law.kind = "group"
                      THEN /\ code.kind = "group"
                           /\ \A m \in 1 .. Octets7(Len(law.subs)) : m = Limited(m, code.maps)
                      ELSE law.kind # "skip" => \A f \in Forms(law) : Agree(code, law, f)

\* No item of the category raises.
Unraised(c) ==
    /\ Harmless(Receivers[c].rest)
    /\ \A u \in DOMAIN Standard[c] : \A n \in 1 .. Len(Receivers[c].uaps[u]) :
         Harmless(Receivers[c].uaps[u][n])

\* Only fatal categories have items that raise.
RaiseOnlyWhereListed == \A c \in DOMAIN Receivers : c \notin Fatal => Unraised(c)

\* In a category that loops, nothing keeps a record from being counted; and a cut
\* leaves no octets to go on with, but in the leaky ones.
CutsLeaveNothing ==
    \A c \in {c \in DOMAIN Receivers : Receivers[c].many} :
        /\ Receivers[c].needs = {} /\ Unraised(c)
        /\ c \notin Leaky =>
             \A u \in DOMAIN Standard[c] : \A n \in 1 .. Len(Standard[c][u]) :
                \A s \in 0 .. LawParts(c, u, n) :
                    LET law == LawAt(c, u, n, s)
                        code == FieldAt(c, u, n, s)
                    IN  law.kind \notin {"skip", "group"} =>
                        \A f \in Forms(law) : Agree(code, law, f) =>
                            \A a \in 0 .. Octets(law, f) - 1 :
                                LET o == Cut(code, f, a, TRUE)
                                IN  \/ o.left = 0
                                    \/ o.next = "end" /\ ~(s > 0 /\ ItemAt(c, u, n).short = "on")
=============================================================================
