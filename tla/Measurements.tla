---------------------------- MODULE Measurements ----------------------------
(***************************************************************************)
(* Numbers and measured values, from the text of a source to the wire:     *)
(* parse_numeric, the NUMERIC of the database, DecimalString, Measurement  *)
(* and the published measurement; and the spelling of slugs and codes.     *)
(*                                                                         *)
(* A text is a sequence of characters told apart as the parsers do: a      *)
(* digit, a point, a sign, a comma, a dollar sign, a letter of either      *)
(* case, an underscore.                                                    *)
(***************************************************************************)
EXTENDS Arms

CONSTANTS MaxIntegerDigits, MaxFractionalDigits

ASSUME DigitsAssumption == MaxIntegerDigits \in Nat \ {0} /\ MaxFractionalDigits \in Nat \ {0}

-----------------------------------------------------------------------------
(* The write side.                                                         *)

LongestPrefix(s, Keeps(_, _)) ==
    SubSeq(s, 1, CHOOSE n \in 0..Len(s) : /\ \A i \in 1..n : Keeps(s, i)
                                          /\ n = Len(s) \/ ~Keeps(s, n + 1))

Blank(text) == text \in {<<>>, <<"-">>, <<"-", "-">>}
IsDollar(s, i) == s[i] = "$"
IsNumeral(s, i) == s[i] \in {"0", "."} \/ (i = 1 /\ s[i] = "-")

WithoutCommas(s) == Picked(s, {i \in DOMAIN s : s[i] # ","})

\* Without the leading dollar signs and the commas, the numerals it opens with.
Numerals(text) ==
    LET priced == Len(LongestPrefix(text, IsDollar))
    IN  LongestPrefix(WithoutCommas(SubSeq(text, priced + 1, Len(text))), IsNumeral)

Unsigned(s) == IF s # <<>> /\ s[1] = "-" THEN Tail(s) ELSE s
Points(s) == {i \in DOMAIN s : s[i] = "."}

\* Fault: a sign or a point needs no digit.
ValidNumber_bare(s) == Cardinality(Points(s)) <= 1 /\ s # <<>>

ValidNumber(s) == Cardinality(Points(s)) <= 1 /\ \E i \in DOMAIN Unsigned(s) : Unsigned(s)[i] = "0"

ParseNumeric(text) ==
    IF ~Blank(text) /\ ValidNumber(Numerals(text)) THEN Numerals(text) ELSE None

-----------------------------------------------------------------------------
(* The database: the shapes a cast to NUMERIC accepts, by their digits      *)
(* before and after the point, and how it prints them.                      *)

Digits(n) == [i \in 1..n |-> "0"]
Shape(sign, whole, point, part) == sign \o Digits(whole) \o (IF point THEN <<".">> ELSE <<>>) \o Digits(part)

Casts(s) ==
    {cast \in {<<>>, <<"-">>} \X (0..Len(s)) \X (0..Len(s)) :
        /\ cast[2] + cast[3] > 0
        /\ \E point \in BOOLEAN : (cast[3] > 0 => point) /\ s = Shape(cast[1], cast[2], point, cast[3])}

Rendered(cast) == Shape(cast[1], IF cast[2] = 0 THEN 1 ELSE cast[2], cast[3] > 0, cast[3])

-----------------------------------------------------------------------------
(* The read side.                                                          *)

DigitsWithin(part, max) ==
    FirstOf(<<<<part = <<>> \/ \E i \in DOMAIN part : part[i] # "0", "NotPlainDecimal">>,
              <<Len(part) > max, "TooManyDigits">>, <<TRUE, "ok">>>>)

\* The text is split at its first point.
DecimalString(text) ==
    LET body == Unsigned(text)
        cut == IF Points(body) = {} THEN Len(body) + 1 ELSE CHOOSE i \in Points(body) : \A j \in Points(body) : i <= j
        whole == DigitsWithin(SubSeq(body, 1, cut - 1), MaxIntegerDigits)
    IN  FirstOf(<<<<whole # "ok", whole>>,
                  <<Points(body) # {}, DigitsWithin(SubSeq(body, cut + 1, Len(body)), MaxFractionalDigits)>>,
                  <<TRUE, "ok">>>>)

\* The pattern the document publishes for a decimal.
PublishedDecimal(text) ==
    \E sign \in {<<>>, <<"-">>}, w \in 1..Len(text), p \in 0..Len(text) : text = Shape(sign, w, p > 0, p)

Slug(text) ==
    LET hyphens == {i \in DOMAIN text : text[i] = "-"}
    IN  /\ text # <<>> /\ \A i \in DOMAIN text : text[i] \in {"a", "0", "-"}
        /\ \A i \in hyphens : i \notin {1, Len(text)} /\ i + 1 \notin hyphens

\* LookupCode and UnitCode: one spelling, two vocabularies.
LookupCode(text) == text # <<>> /\ text[1] = "A" /\ \A i \in DOMAIN text : text[i] \in {"A", "0", "_"}

\* The domains of the database: one or more runs of letters and digits between
\* hyphens; a capital, then capitals, digits and underscores.
SlugText(text) ==
    \E runs \in SUBSET (0..(Len(text) + 1)) :
        /\ {0, Len(text) + 1} \subseteq runs
        /\ \A i \in DOMAIN text : text[i] = "-" <=> i \in runs
        /\ \A i \in runs \ {Len(text) + 1} : i + 1 \notin runs
        /\ \A i \in DOMAIN text : i \notin runs => text[i] \in {"a", "0"}
LookupText(text) == \E rest \in 0..Len(text) : /\ Len(text) = rest + 1 /\ text[1] = "A"
                                               /\ \A i \in 2..Len(text) : text[i] \in {"A", "0", "_"}

-----------------------------------------------------------------------------
(* Measurements. A value is a number and its unit, None when the metric is *)
(* dimensionless.                                                          *)

PowerSettings ==
    {"MAX_TAKEOFF", "MAX_CONTINUOUS", "MAX_CLIMB", "75_PCT", "65_PCT", "55_PCT", "BEST_POWER",
     "BEST_ECONOMY", "LONG_RANGE_CRUISE", "IDLE"}
SurfaceTypes == {"PAVED", "GRASS", "GRAVEL", "SOFT", "WATER", "CARRIER_DECK"}

\* chk_pm_power_setting and chk_pm_surface_type.
StoredPowerSettings ==
    {"MAX_TAKEOFF", "MAX_CONTINUOUS", "MAX_CLIMB", "75_PCT", "65_PCT", "55_PCT", "BEST_POWER",
     "BEST_ECONOMY", "LONG_RANGE_CRUISE", "IDLE"}
StoredSurfaceTypes == {"PAVED", "GRASS", "GRAVEL", "SOFT", "WATER", "CARRIER_DECK"}

\* A code of a condition, read back; None is one this service does not know.
ConditionCode(allowed, code) == IF code \in allowed THEN code ELSE None

NewMeasurement(raw, canonical, publication, conditions) ==
    FirstOf(<<<<raw = None /\ canonical = None, [refused |-> "NoValue"]>>,
              <<raw # None /\ canonical # None /\ (raw.unit = None) # (canonical.unit = None), [refused |-> "MixedDimensionality"]>>,
              <<TRUE, [raw |-> raw, canonical |-> canonical, publication |-> publication,
                       conditions |-> IF conditions = {} THEN None ELSE conditions]>>>>)

\* What the response has of it: a member that is absent is not in the domain.
UnitMember == [raw |-> "raw_unit", canonical |-> "canonical_unit"]
Split(name, value) ==
    (IF value = None THEN {} ELSE {<<name, value.number>>})
    \union (IF value = None \/ value.unit = None THEN {} ELSE {<<UnitMember[name], value.unit>>})

MeasurementResponse(m) ==
    Split("raw", m.raw) \union Split("canonical", m.canonical)
    \union (IF m.conditions = None THEN {} ELSE {<<"conditions", m.conditions>>})
    \union (IF m.publication = None THEN {} ELSE {<<"is_canonical", m.publication = "Published">>})
=============================================================================
