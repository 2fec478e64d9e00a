---------------------------- MODULE AsterixLayout ----------------------------
(* The shapes an ASTERIX data item can have on the wire, and what a decoder   *)
(* of cat.py does with one.  A layout says how many octets the item occupies  *)
(* and, in a decoder's table, what happens when the data ends inside it.      *)
(* The octets themselves are abstracted to the one number that decides the    *)
(* item's length, its form: how many extents a chain has, how many elements a *)
(* repetition has, the value of a length octet.                               *)
EXTENDS Integers, Sequences

CONSTANT MaxExtent      \* bound on the extents and elements a message carries
ASSUME ExtentAssumption == MaxExtent \in Nat \ {0}

NoLimit == 0

\* n octets; a short one ends the record (Fix) or is not checked for (Bare).
Fix(n) == [kind |-> "fixed", size |-> n, short |-> "end"]
Bare(n) == [kind |-> "fixed", size |-> n, short |-> "raise"]

\* head octets, then units chained by the FX bit, at most so many.
Ext(head, unit, most) == [kind |-> "chain", head |-> head, unit |-> unit, most |-> most]
FxHead(head, unit) == Ext(head, unit, NoLimit)
FxBy(unit) == Ext(0, unit, NoLimit)
FxTo(most) == Ext(0, 1, most)
Fx == FxTo(NoLimit)

\* A count octet and that many elements of n octets.  When they do not all fit,
\* Rep keeps the ones that do and goes on behind them, RepAll ends the record.
Rep(n) == [kind |-> "repeat", unit |-> n, all |-> FALSE]
RepAll(n) == [kind |-> "repeat", unit |-> n, all |-> TRUE]

\* An octet with the item's length; nothing at all; the end of the record.
Len1 == [kind |-> "length"]
Skip == [kind |-> "skip"]
Stop == [kind |-> "stop"]

\* Presence octets, at most maps of them, and the subfields they announce.  A
\* short subfield makes the decoder go on behind the group's last whole subfield
\* ("on"), give up the rest of the data ("skip") or end the record ("end").
Sub(short, maps, subs) == [kind |-> "group", short |-> short, maps |-> maps, subs |-> subs]
Of(subs) == Sub("end", NoLimit, subs)
Each(sizes) == [i \in DOMAIN sizes |-> IF sizes[i] = 0 THEN Skip ELSE Fix(sizes[i])]

\* A chain of octets and then n more that are read without a check.
Flat(n) == [kind |-> "flat", size |-> n]

\* A decoder's or the standard's entry is one of these; the parts of a group are
\* plain as far as its own octets go.
IsPlain(l) ==
    /\ l.kind \in {"fixed", "chain", "repeat", "length", "skip", "stop", "flat", "group"}
    /\ l.kind = "fixed" => l.size \in Nat /\ l.short \in {"end", "raise"}
    /\ l.kind = "chain" => l.head \in Nat /\ l.unit \in Nat \ {0} /\ l.most \in Nat
    /\ l.kind = "repeat" => l.unit \in Nat \ {0} /\ l.all \in BOOLEAN
    /\ l.kind = "flat" => l.size \in Nat
    /\ l.kind = "group" =>
          l.short \in {"on", "skip", "end"} /\ l.maps \in Nat /\ Len(l.subs) \in Nat \ {0}
IsLayout(l) == IsPlain(l) /\ (l.kind = "group" => \A i \in 1 .. Len(l.subs) : IsPlain(l.subs[i]))

\* Data can be such that reading the item raises an exception.
CanRaise(l) == l.kind = "flat" \/ (l.kind = "fixed" /\ l.short = "raise")
Harmless(l) ==
    /\ ~CanRaise(l)
    /\ l.kind = "group" => \A s \in 1 .. Len(l.subs) : ~CanRaise(l.subs[s])

Least(a, b) == IF a < b THEN a ELSE b
Limited(k, most) == IF most = NoLimit THEN k ELSE Least(k, most)
Octets7(n) == (n + 6) \div 7     \* presence or FSPEC octets that hold n bits

------------------------------------------------------------------------------
(* A message that follows the standard.                                       *)

\* The forms in which a sender can put the item.
Forms(std) ==
    CASE std.kind = "chain" -> 1 .. (IF std.most = NoLimit THEN MaxExtent + 1 ELSE std.most)
      [] std.kind = "repeat" -> 0 .. MaxExtent
      [] std.kind = "length" -> 1 .. MaxExtent + 1
      [] OTHER -> {1}

\* The octets of the item in that form, as a table reads them.
Octets(l, f) ==
    CASE l.kind = "fixed" -> l.size
      [] l.kind = "chain" -> l.head + l.unit * Limited(f, l.most)
      [] l.kind = "repeat" -> 1 + l.unit * f
      [] l.kind = "length" -> f
      [] OTHER -> 0

\* The decoder's table takes as many octets for the item as the standard does.
Agree(code, std, f) ==
    /\ \/ code.kind = std.kind
       \/ code.kind = "fixed" /\ std.kind = "chain"
    /\ Octets(code, f) = Octets(std, f)

------------------------------------------------------------------------------
(* What a decoder does: go on with so many octets left, end the record, or    *)
(* raise an exception.                                                        *)

On(n) == [next |-> "on", left |-> n]
End(n) == [next |-> "end", left |-> n]
Raise == [next |-> "raise", left |-> 0]

\* Octets read without a check, after a check that there is one.
Unchecked(r) == IF r = 0 THEN End(0) ELSE Raise

\* The item was sent in form f, but the block holds only a octets of it.  The
\* decoders of several records end the record at a cut chain, the others go on.
Cut(l, f, a, many) ==
    CASE l.kind = "fixed" -> [next |-> l.short, left |-> a]
      [] l.kind = "length" -> On(0)
      [] l.kind = "chain" ->
            IF many \/ a = 0 \/ a < l.head THEN End(0) ELSE On((a - l.head) % l.unit)
      [] l.kind = "repeat" -> IF l.all \/ a = 0 THEN End(0) ELSE On((a - 1) % l.unit)
      [] OTHER -> End(a)

\* The decoder is out of step and reads the item from r octets of anything.
Stray(l, r, many) ==
    CASE l.kind = "skip" -> {On(r)}
      [] l.kind = "stop" -> {End(r)}
      [] l.kind = "fixed" ->
            {IF r >= l.size THEN On(r - l.size) ELSE [next |-> l.short, left |-> r]}
      [] l.kind = "length" -> {On(0)} \cup {On(n) : n \in 0 .. r - 1}
      [] l.kind = "chain" ->
            {On(r - Octets(l, k)) : k \in {k \in 1 .. r : Octets(l, k) <= r}}
                \cup {Cut(l, k, r, many) : k \in {k \in 1 .. r + 1 : Octets(l, k) > r}}
      [] l.kind = "repeat" ->
            {On(r - Octets(l, k)) : k \in {k \in 0 .. r : Octets(l, k) <= r}}
                \cup {Cut(l, r, r, many)}
      [] l.kind = "group" -> {On(n) : n \in 0 .. r - 1} \cup {End(0)}
      [] OTHER -> {On(r - k - l.size) : k \in {k \in 1 .. r : k + l.size <= r}} \cup {Unchecked(r)}
=============================================================================
