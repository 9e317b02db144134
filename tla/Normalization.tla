--------------------------- MODULE Normalization ----------------------------
(***************************************************************************)
(* What the PlanePHD adapter makes of one source record (normalize_record) *)
(* and what the import stores of its measurements. The rules are functions *)
(* of the record: this module has no state of its own.                     *)
(*                                                                         *)
(* A cell is a JSON value as the rules tell them apart: the number its     *)
(* text starts with (parse_numeric), whether that has a fraction, and the  *)
(* word it ends with (parse_unit). A sentinel ("N/A", "--", none...) is a  *)
(* string that says nothing. Dotted paths are tuples.                      *)
(***************************************************************************)
EXTENDS Arms, TLC

Cell(json, num, frac, unit) == [json |-> json, num |-> num, frac |-> frac, unit |-> unit]
Absent == Cell("absent", None, FALSE, None)
Scalars == {"string", "number", "bool"}

KnownFields ==
    {"source_link", "page_url", "title", "description", "papi_price_estimate", "for_sale_count",
     "start_year", "end_year", "in_production"}

(* An issue is its code and the path it is about.                          *)
Errors == {"RECORD_NOT_OBJECT", "MANUFACTURER_NAME_EMPTY", "AIRCRAFT_NAME_EMPTY",
           "INVALID_PRODUCTION_YEARS"}
Found(value, issues) == [value |-> value, issues |-> issues]

-----------------------------------------------------------------------------
(* Fields.                                                                 *)

\* A scalar's text; a null or a sentinel says nothing, an array or an object
\* is reported.
Scalar(c, path) ==
    Found(IF c.json \in Scalars THEN c ELSE None,
          IF c.json = "composite" THEN {<<"FIELD_NOT_SCALAR", path>>} ELSE {})

\* Fault: a field without a number is skipped.
Numeric_silent(c, path) ==
    LET s == Scalar(c, path)
    IN  IF s.value # None /\ s.value.num = None THEN Found(None, s.issues) ELSE s

Numeric(c, path) ==
    LET s == Scalar(c, path)
    IN  IF s.value # None /\ s.value.num = None
        THEN Found(None, {<<"INVALID_NUMERIC_FIELD", path>>}) ELSE s

I16 == -32768..32767
I32 == (-2147483647 - 1)..2147483647

\* A number that is whole and an i32, whatever follows it.
NumericInteger(c, path) ==
    LET n == Numeric(c, path)
    IN  IF n.value # None /\ (n.value.frac \/ n.value.num \notin I32)
        THEN Found(None, {<<"INVALID_INTEGER_FIELD", path>>}) ELSE n

\* The whole text is an i16.
IsI16(c) == c.num # None /\ ~c.frac /\ c.unit = None /\ c.num \in I16
Integer(c, path) ==
    LET s == Scalar(c, path)
    IN  IF s.value # None /\ ~IsI16(s.value)
        THEN Found(None, {<<"INVALID_INTEGER_FIELD", path>>}) ELSE s

\* A JSON boolean, or a string that spells one; a null is not one.
Truth(c) == c.num = 1 \/ c.unit \in {"TRUE", "YES"}
Boolean(c, path) ==
    IF c.json = "absent" THEN Found(None, {})
    ELSE IF c.json = "bool" \/ (c.json = "string" /\ ~c.frac
                 /\ \/ c.num = None /\ c.unit \in {"TRUE", "YES", "FALSE", "NO"}
                    \/ c.num \in {0, 1} /\ c.unit = None)
         THEN Found(c, {}) ELSE Found(None, {<<"INVALID_BOOLEAN_FIELD", path>>})

-----------------------------------------------------------------------------
(* Measurements.                                                           *)

UnitCode == [KIAS |-> "KIAS", KTAS |-> "KTAS", KCAS |-> "KNOTS", KT |-> "KNOTS", KTS |-> "KNOTS",
             KNOTS |-> "KNOTS", NM |-> "NM", FT |-> "FT", FPM |-> "FPM", GPH |-> "GPH",
             LBS |-> "LBS", LB |-> "LBS", KG |-> "KG", GAL |-> "US_GAL", HP |-> "HP", KW |-> "KW",
             N |-> "NEWTONS", LBF |-> "LBF", HRS |-> "HRS", HR |-> "HRS", PPH |-> "PPH"]

UnitDimension == [KIAS |-> "Speed", KNOTS |-> "Speed", KTAS |-> "Speed", NM |-> "Length",
                  FT |-> "Length", FPM |-> "ClimbRate", GPH |-> "FuelFlow", PPH |-> "FuelFlow",
                  LBS |-> "Mass", KG |-> "Mass", US_GAL |-> "Volume", HP |-> "Power", KW |-> "Power",
                  NEWTONS |-> "Thrust", LBF |-> "Thrust", HRS |-> "Time"]

MetricDimensions ==
    [SPEED_CRUISE_BEST |-> {"Speed"}, SPEED_STALL_CLEAN |-> {"Speed"}, RANGE_NORMAL |-> {"Length"},
     CEILING_SERVICE |-> {"Length"}, CEILING_OEI |-> {"Length"}, DIST_TO_GROUND_ROLL |-> {"Length"},
     DIST_TO_50FT |-> {"Length"}, DIST_LDG_GROUND_ROLL |-> {"Length"}, DIST_LDG_50FT |-> {"Length"},
     CLIMB_RATE_SL |-> {"ClimbRate"}, CLIMB_RATE_OEI |-> {"ClimbRate"}, FUEL_BURN_CRUISE |-> {"FuelFlow"},
     WEIGHT_EMPTY |-> {"Mass"}, WEIGHT_MTOW |-> {"Mass"}, WEIGHT_PAYLOAD |-> {"Mass"},
     WEIGHT_USEFUL_LOAD |-> {"Mass"}, FUEL_WEIGHT_MAX |-> {"Mass"}, WEIGHT_PAYLOAD_FULL_FUEL |-> {"Mass"},
     FUEL_CAPACITY_USABLE |-> {"Volume", "Mass"}]

PerfCode ==
    [best_cruise_speed |-> "SPEED_CRUISE_BEST", best_range_i |-> "RANGE_NORMAL",
     ceiling |-> "CEILING_SERVICE", fuel_burn |-> "FUEL_BURN_CRUISE",
     fuel_burn_75 |-> "FUEL_BURN_CRUISE", rate_of_climb |-> "CLIMB_RATE_SL",
     rate_of_climb_1_engine_out |-> "CLIMB_RATE_OEI", ceiling_1_engine_out |-> "CEILING_OEI",
     takeoff_distance |-> "DIST_TO_GROUND_ROLL",
     takeoff_distance_over_50ft_obstacle |-> "DIST_TO_50FT",
     landing_distance |-> "DIST_LDG_GROUND_ROLL",
     landing_distance_over_50ft_obstacle |-> "DIST_LDG_50FT",
     stall_speed |-> "SPEED_STALL_CLEAN"]

WeightCode ==
    [empty_weight |-> "WEIGHT_EMPTY", gross_weight |-> "WEIGHT_MTOW",
     fuel_capacity |-> "FUEL_CAPACITY_USABLE", maximum_payload |-> "WEIGHT_PAYLOAD",
     useful_load |-> "WEIGHT_USEFUL_LOAD", fuel_weight |-> "FUEL_WEIGHT_MAX",
     payload_full_fuel |-> "WEIGHT_PAYLOAD_FULL_FUEL"]

Mapped(table, key) == IF key # None /\ key \in DOMAIN table THEN table[key] ELSE None

\* Only a pairing that is positively understood is rejected.
UnitFitsMetric(metric, unit) ==
    \/ unit \notin DOMAIN UnitDimension \/ metric \notin DOMAIN MetricDimensions
    \/ UnitDimension[unit] \in MetricDimensions[metric]

\* One entry of performance or weights: what is kept of it, and what is said.
Measure(section, field, c, mapping) ==
    LET path == <<section, field>>
        s == Scalar(c, path)
        metric == Mapped(mapping, field)
        unit == Mapped(UnitCode, s.value.unit)
        fits == metric = None \/ unit = None \/ UnitFitsMetric(metric, unit)
        says(cond, code) == IF cond THEN {<<code, path>>} ELSE {}
    IN  IF section = "performance" /\ field \in {"horsepower", "thrust"} THEN Found(None, {})
        ELSE IF s.value = None THEN Found(None, s.issues)
        ELSE Found([field |-> path, metric |-> metric, unit |-> IF fits THEN unit ELSE None,
                    number |-> IF s.value.num # None /\ s.value.num < 0 THEN None ELSE s.value.num],
                   says(metric = None, "UNMAPPED_MEASUREMENT_FIELD")
                   \union says(s.value.num = None, "MEASUREMENT_PARSE_FAILURE")
                   \union says(s.value.unit # None /\ unit = None, "UNKNOWN_MEASUREMENT_UNIT")
                   \union says(metric # None /\ s.value.num # None /\ s.value.unit = None,
                               "MISSING_MEASUREMENT_UNIT")
                   \union says(~fits, "INCOMPATIBLE_MEASUREMENT_UNIT")
                   \union says(s.value.num # None /\ s.value.num < 0, "NEGATIVE_MEASUREMENT"))

(* The units of the database: the canonical unit of a unit, and of a metric *)
(* (seeds 001 and 002).                                                     *)
CanonicalUnit ==
    [u \in DOMAIN UnitDimension |->
        CASE u \in {"KIAS", "KTAS"} -> "KNOTS" [] u = "KG" -> "LBS" [] u = "KW" -> "HP"
          [] u = "NEWTONS" -> "LBF" [] OTHER -> u]
CanonicalOf ==
    [m \in DOMAIN MetricDimensions |->
        CASE MetricDimensions[m] = {"Speed"} -> "KNOTS" [] MetricDimensions[m] = {"ClimbRate"} -> "FPM"
          [] MetricDimensions[m] = {"FuelFlow"} -> "GPH" [] MetricDimensions[m] = {"Mass"} -> "LBS"
          [] m = "FUEL_CAPACITY_USABLE" -> "US_GAL" [] m = "RANGE_NORMAL" -> "NM" [] OTHER -> "FT"]

\* Fault: to_canonical alone, which keeps the value of a unit of its own.
Canonicalised_always(m) == CanonicalUnit[m.unit]

\* promote_measurements: the unit the canonical value is in, if one is stored.
Canonicalised(m) ==
    IF CanonicalUnit[m.unit] = CanonicalOf[m.metric] THEN CanonicalUnit[m.unit] ELSE None

\* What becomes a row of the metrics; the rest stays an assertion.
Promoted(m) == m # None /\ m.metric # None /\ m.unit # None /\ m.number # None
-----------------------------------------------------------------------------
(* Costs. A key is the set of the parts it contains, in lower case.        *)

CostParts ==
    <<<<"miscellaneous", "MISC_VARIABLE">>, <<"inspection", "ANNUAL_INSPECTION">>,
      <<"insurance", "INSURANCE">>, <<"hangar", "HANGAR_STORAGE">>, <<"storage", "HANGAR_STORAGE">>,
      <<"depreciation", "DEPRECIATION">>, <<"weather", "WEATHER_SERVICE">>,
      <<"training", "PILOT_TRAINING">>, <<"refurbish", "REFURBISHING">>,
      <<"registration", "REGISTRATION_TAXES">>, <<"financ", "FINANCING">>, <<"fuel", "FUEL">>,
      <<"oil", "OIL">>, <<"avionics", "AVIONICS_RESERVE">>, <<"landing", "LANDING_FEES">>,
      <<"unscheduled", "UNSCHEDULED_MAINT">>, <<"maint", "HOURLY_MAINTENANCE">>>>
Totals == {"TOTAL_FIXED_COST", "TOTAL_VARIABLE_COST", "TOTAL_COST_ANNUAL"}
Accrual == {"reserve", "overhaul"}
Some(parts, key) == parts \intersect key # {}

\* What a key may mean, in the order in which the meanings are tried.
SpecificArms(key) ==
    <<<<"total" \in key /\ "fixed" \in key, "TOTAL_FIXED_COST">>,
      <<"total" \in key /\ "variable" \in key, "TOTAL_VARIABLE_COST">>,
      <<"total" \in key /\ Some({"annual", "yearly", "cost_per_year", "ownership"}, key), "TOTAL_COST_ANNUAL">>,
      <<"pilot_salary" \in key, "PILOT_SALARY">>,
      <<"engine" \in key /\ Some(Accrual \union {"fund", "tbo"}, key), "ENGINE_RESERVE">>,
      <<"prop" \in key /\ Some(Accrual \union {"fund"}, key), "PROP_RESERVE">>>>
    \o [i \in DOMAIN CostParts |-> <<CostParts[i][1] \in key, CostParts[i][2]>>]
GenericArm(key) == <<Some(Accrual, key), "OVERHAUL_RESERVE">>

CostArms(key) == SpecificArms(key) \o <<GenericArm(key)>>

CostCode(key) == FirstOf(CostArms(key))

\* An unmapped key reports the key alone.
Cost(key, c) ==
    LET path == <<"ownership_costs", key>>
        s == Scalar(c, path)
        code == CostCode(key)
    IN  IF s.value = None THEN Found(None, s.issues)
        ELSE Found([field |-> path, code |-> code, number |-> s.value.num, aggregate |-> code \in Totals],
                   IF code = None THEN {<<"UNMAPPED_COST_KEY", path>>}
                   ELSE IF s.value.num = None THEN {<<"UNPARSEABLE_COST_VALUE", path>>} ELSE {})

-----------------------------------------------------------------------------
(* Images. An image is whether it is an object, its href and dimensions.   *)

\* A URL by its form; a relative one is joined to the site's.
NormalizedUrl(url, path) ==
    IF url \in {"http", "relative"} THEN Found(url, {}) ELSE Found(None, {<<"INVALID_URL", path>>})

\* The image at a position from zero.
Image(image, position) ==
    LET path == <<"images", position>>
        url == NormalizedUrl(image.href, path)
        refused(code) == Found(None, {<<code, path>>})
    IN  IF ~image.object THEN refused("IMAGE_NOT_OBJECT")
        ELSE IF image.href = None THEN refused("IMAGE_HREF_MISSING")
        ELSE IF position \notin I16 THEN refused("IMAGE_POSITION_OUT_OF_RANGE")
        ELSE Found([field |-> path, url |-> url.value, size |-> IF image.size = "WxH" THEN "WxH" ELSE None],
                   url.issues \union IF image.size \in {None, "WxH"} THEN {}
                                     ELSE {<<"INVALID_IMAGE_DIMENSIONS", path>>})

Images(items) == {Image(items[i], i - 1) : i \in DOMAIN items}

\* The primary image: the first that is kept.
Lead(images) == FirstOf([i \in DOMAIN images |-> <<Image(images[i], i - 1).value # None, i>>])

-----------------------------------------------------------------------------
(* The record. Its name may end in a range of two texts; its prose is the  *)
(* words and the two counts of its description.                            *)

NoRange == [start |-> None, end |-> None, open |-> None]
Value(f) == IF f.value = None THEN None ELSE f.value.num

\* Only a parenthetical that opens with a digit is read as a range.
ProductionRange(range) ==
    IF range = None \/ range.from.num = None THEN Found(NoRange, {})
    ELSE IF IsI16(range.from) /\ (range.present \/ IsI16(range.to))
    THEN Found([start |-> range.from.num, end |-> IF range.present THEN None ELSE range.to.num,
                open |-> range.present], {})
    ELSE Found(NoRange, {<<"UNPARSEABLE_PRODUCTION_RANGE", <<"name">>>>})

ProductionYears(start, end) ==
    /\ start # None /\ end # None => start <= end
    /\ {start, end} \ {None} \subseteq 1800..2200

ServiceStatus(open) ==
    IF open = None THEN None ELSE IF open THEN "IN_PRODUCTION" ELSE "DISCONTINUED"
VariantType(start) == IF start = None THEN None ELSE "PRODUCTION_STANDARD"

LandingGear(words) ==
    LET form == FirstOf(<<<<"tricycle" \in words, "TRICYCLE">>, <<"tailwheel" \in words, "TAILWHEEL">>,
                          <<TRUE, "UNSPECIFIED">>>>)
    IN  FirstOf(<<<<"retractable" \in words, <<"RETRACTABLE", form>>>>, <<"fixed" \in words, <<"FIXED", form>>>>>>)

PropulsionCategory(words) ==
    FirstOf(<<<<"piston" \in words, "PISTON_RECIPROCATING">>, <<"turboprop" \in words, "TURBOPROP">>,
              <<"turbojet" \in words, "TURBOJET">>>>)

\* "2 x 310 hp" counts two; a figure that counts nothing counts one.
EngineCount(c) ==
    IF c.json \notin Scalars THEN None
    ELSE IF c.unit # "x" THEN 1 ELSE IF c.num \in I16 /\ ~c.frac THEN c.num ELSE None

\* A nested object's entries; a null has none, any other value is reported.
Nested(n, path) ==
    IF n.json = "object" THEN Found(n.entries, {})
    ELSE Found(<<>>, IF n.json \in {"absent", "null"} THEN {} ELSE {<<"FIELD_NOT_OBJECT", path>>})

Entry(entries, field) == IF field \in DOMAIN entries THEN entries[field] ELSE Absent

NormalizeRecord(raw) ==
    LET top(f) == Entry(raw.top, f)
        says(cond, code, path) == IF cond THEN {<<code, path>>} ELSE {}
        description == Scalar(top("description"), <<"description">>)
        prose == IF description.value = None THEN [words |-> {}, seats |-> None, plus |-> None] ELSE raw.prose
        named == ProductionRange(raw.range)
        flag == Boolean(top("in_production"), <<"in_production">>)
        first == Integer(top("start_year"), <<"start_year">>)
        last == Integer(top("end_year"), <<"end_year">>)
        start == IF first.value # None THEN first.value.num ELSE named.value.start
        end == IF last.value # None THEN last.value.num ELSE named.value.end
        open == IF flag.value # None THEN Truth(flag.value) ELSE named.value.open
        nested(f) == Nested(raw.nested[f], <<f>>)
        engine(f) == Entry(nested("engine").value, f)
        perf == nested("performance").value
        power == IF "horsepower" \in DOMAIN perf THEN Entry(perf, "horsepower") ELSE Entry(perf, "thrust")
        measures == {Measure("performance", f, perf[f], PerfCode) : f \in DOMAIN perf}
            \union {Measure("weights", f, nested("weights").value[f], WeightCode) :
                        f \in DOMAIN nested("weights").value}
        costs == {Cost(k, nested("ownership_costs").value[k]) : k \in DOMAIN nested("ownership_costs").value}
        images == IF raw.images.json = "array" THEN raw.images.items ELSE <<>>
        numbers == [horsepower |-> Numeric(engine("horsepower"), <<"engine", "horsepower">>),
                    thrust |-> Numeric(engine("thrust"), <<"engine", "thrust">>),
                    tbo_hours |-> NumericInteger(engine("overhaul_ht"), <<"engine", "overhaul_ht">>),
                    tbo_years |-> NumericInteger(engine("years_before_overhaul"),
                                                 <<"engine", "years_before_overhaul">>),
                    price |-> Numeric(top("papi_price_estimate"), <<"papi_price_estimate">>),
                    for_sale |-> NumericInteger(top("for_sale_count"), <<"for_sale_count">>)]
        page == Scalar(top("page_url"), <<"page_url">>)
        url == IF page.value = None THEN page ELSE NormalizedUrl(raw.url, <<"page_url">>)
        texts == {Scalar(top(f), <<f>>) : f \in {"source_link", "title"}}
            \union {Scalar(engine(f), <<"engine", f>>) : f \in {"manufacturer", "model"}}
        kept(found) == {f.value : f \in {g \in found : g.value # None}}
        issuesOf(found) == UNION {f.issues : f \in found}
    IN  IF ~raw.object
        THEN [kept |-> {}, issues |-> {<<"RECORD_NOT_OBJECT", <<>>>>}]
        ELSE [kept |->
                [start |-> start, end |-> end, status |-> ServiceStatus(open), type |-> VariantType(start), url |-> url.value,
                 gear |-> LandingGear(prose.words), category |-> PropulsionCategory(prose.words),
                 passengers |-> prose.seats, crew |-> prose.plus, engines |-> EngineCount(power),
                 model |-> Scalar(engine("model"), <<>>).value # None,
                 numbers |-> [n \in DOMAIN numbers |-> Value(numbers[n])],
                 measures |-> kept(measures), costs |-> kept(costs),
                 images |-> kept(Images(images)), lead |-> Lead(images)],
              issues |->
                says(~raw.manufacturer, "MANUFACTURER_NAME_EMPTY", <<>>)
                \union says(~raw.aircraft, "AIRCRAFT_NAME_EMPTY", <<>>) \union named.issues
                \union {<<"UNSUPPORTED_RECORD_FIELD", <<f>>>> : f \in DOMAIN raw.top \ KnownFields}
                \union says(~ProductionYears(start, end), "INVALID_PRODUCTION_YEARS", <<"production_years">>)
                \union url.issues \union issuesOf({description, flag, first, last} \union texts \union measures \union costs)
                \union issuesOf({numbers[n] : n \in DOMAIN numbers})
                \union (UNION {nested(f).issues : f \in DOMAIN raw.nested})
                \union issuesOf(Images(images))
                \union says(raw.images.json \notin {"absent", "array"}, "IMAGES_NOT_ARRAY", <<"images">>)]

\* preflight: a record without an error is a candidate for promotion.
Accepted(record) == \A i \in record.issues : i[1] \notin Errors

\* The checks of the tables a promoted record is written to.
Insertable(kept) ==
    LET among(v, set) == v = None \/ v \in set
        nonneg(v) == v = None \/ v >= 0
        positive(v) == v = None \/ v > 0
        n == kept.numbers
    IN  /\ among(kept.start, 1900..2100) /\ among(kept.end, 1900..2100)
        /\ nonneg(kept.passengers) /\ nonneg(kept.crew) /\ positive(kept.engines)
        /\ kept.model => nonneg(n.horsepower) /\ nonneg(n.thrust) /\ positive(n.tbo_hours) /\ positive(n.tbo_years)
        /\ n.price # None => n.price >= 0 /\ nonneg(n.for_sale)
        /\ \A cost \in kept.costs : cost.code # None => nonneg(cost.number)
        /\ \A m \in kept.measures : nonneg(m.number)
=============================================================================
