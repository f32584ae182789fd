-------------------------------- MODULE Items --------------------------------
(***************************************************************************)
(* Item definitions and the conversion of items to CSV records (package    *)
(* items), with the part of the service around them that keeps one         *)
(* definition and answers an ingest request.                               *)
(*                                                                         *)
(* A text is a sequence of characters, of which only those that some check *)
(* or the CSV syntax looks at are told apart; "date", "ms", "span" and the *)
(* like stand for a part that a library parser takes as a whole.  A number *)
(* is an integer or, with frac, lies between two of them.                  *)
(***************************************************************************)
EXTENDS Integers, SequencesExt

CONSTANTS MinName, MaxName, \* length of a name; 3 and 63 in the code
          Exact,            \* even; integers from -Exact to here have a float64 of their own; 2^53
          Widest,           \* the largest int64; 2^63 - 1
          DefinitionInput,  \* definitions that are sent
          ItemInput,        \* bodies of ingest requests
          MaxTypes          \* bound: types registered at a time

ASSUME ItemsAssumption == {MinName, MaxName, Exact, Widest, MaxTypes} \subseteq Nat /\ MinName >= 1

Comma == ","
Quote == "\""
Newline == "\n"
Special == {Comma, Quote, Newline}

\* JSON values other than objects and arrays.
Null      == [kind |-> "null", text |-> <<>>, num |-> 0, frac |-> FALSE]
Str(t)    == [Null EXCEPT !.kind = "string", !.text = t]
Bool(t)   == [Null EXCEPT !.kind = "bool", !.text = t]
Num(n)    == [Null EXCEPT !.kind = "number", !.num = n]
Frac(n)   == [Num(n) EXCEPT !.frac = TRUE]

\* m[key] of a Go map: a missing key reads as nil, like a JSON null.
Get(m, key) == IF key \in DOMAIN m THEN m[key] ELSE Null

\* m[key] = v
Put(m, key, v) == [k \in DOMAIN m \cup {key} |-> IF k = key THEN v ELSE m[k]]

IngestTime == <<"ingest_time">>

\* Two of the parts of texts; the proofs need it, of which no rule says that a
\* string is in STRING.
ASSUME TextAssumption == {"ingest_time", ".5"} \subseteq STRING

\* What a definition/add request may hold: objects of such values, with those of
\* the keys that the code looks at.
Value == [kind : {"null", "bool", "number", "string"}, text : Seq(STRING), num : Int, frac : BOOLEAN]
IsObject(m) ==
  /\ DOMAIN m \subseteq {"name", "type", "defaultValue", "optional", "folder", "latencyMinutes", "documentation"}
  /\ \A key \in DOMAIN m : m[key] \in Value

ASSUME InputAssumption ==
  \A input \in DefinitionInput :
    /\ {input.object, input.hasColumns} \subseteq BOOLEAN /\ IsObject(input.keys)
    /\ input.columns \in Seq(Range(input.columns))
    /\ \A i \in DOMAIN input.columns : input.columns[i].object \in BOOLEAN /\ IsObject(input.columns[i].keys)

\* What the body of an ingest request may hold; a bool is written true or false.
ASSUME BodyAssumption ==
  \A body \in ItemInput :
    /\ body.elements \in Seq(Range(body.elements))
    /\ \A element \in Range(body.elements) : \A key \in DOMAIN element.data :
         LET v == element.data[key]
         IN  v \in Value /\ (v.kind = "bool" => v.text \in {<<"true">>, <<"false">>})

-----------------------------------------------------------------------------
(* Sequences.                                                              *)

\* The elements of s that are in S, in their order: a loop that appends them.
Keep(s, S) == FlattenSeq([i \in DOMAIN s |-> IF s[i] \in S THEN <<s[i]>> ELSE <<>>])

\* strings.Join with commas.
Join(first, rest) == first \o FlattenSeq([i \in DOMAIN rest |-> <<Comma>> \o rest[i]])

-----------------------------------------------------------------------------
(* Checks of texts (definition.go).                                        *)

Lower(c) == c = "a"     \* a letter or digit

\* Mutant: hyphens may follow each other.
CheckFileNameLoose(t) ==
  /\ t # <<>>
  /\ Len(t) >= MinName /\ Len(t) <= MaxName
  /\ Lower(t[1]) /\ Lower(Last(t))
  /\ \A i \in DOMAIN t : Lower(t[i]) \/ t[i] = "-"

CheckFileName(t) ==
  /\ t # <<>>
  /\ Len(t) >= MinName /\ Len(t) <= MaxName
  /\ Lower(t[1]) /\ Lower(Last(t))
  /\ \A i \in DOMAIN t : /\ Lower(t[i]) \/ t[i] = "-"
                         /\ t[i] = "-" /\ i > 1 => t[i - 1] # "-"

\* time.Parse takes a comma for the point before the milliseconds.
CheckDateTime(t) == t \in {<<"date">>, <<"date", ".", "ms">>, <<"date", Comma, "ms">>}

Digits == {"1", "."}
NumberText(t) ==
  /\ Range(t) \subseteq Digits /\ "1" \in Range(t)
  /\ Cardinality({i \in DOMAIN t : t[i] = "."}) <= 1

\* time.ParseDuration: numbers, each followed by a unit.
ParseDuration(t) ==
  LET units == {i \in DOMAIN t : t[i] = "h"}
      Run(i) == LET from == Max({0} \cup {u \in units : u < i}) IN SubSeq(t, from + 1, i - 1)
  IN  /\ t # <<>> /\ Last(t) = "h"
      /\ \A i \in units : NumberText(Run(i))

\* The digits of a days part are looked for, not parsed.
CheckTimeSpan(t) ==
  LET lead == Max({n \in 0..Len(t) : \A i \in 1..n : t[i] \in Digits})
      days == 0 < lead /\ lead < Len(t) /\ t[lead + 1] = "d"
      rest == IF days THEN SubSeq(t, lead + 2, Len(t)) ELSE t
  IN  /\ t # <<>>
      /\ days => \E i \in 1..lead : t[i] = "1"
      /\ rest = <<>> \/ ParseDuration(rest)

\* json.Unmarshal into a map, and json.Valid.
JsonObject(t) == t \in {<<"{", "}">>, <<"{", Quote, "a", Quote, ":", "1", Comma, Quote, "d", Quote, ":", "1", "}">>, <<"null">>}
JsonValid(t) == JsonObject(t) \/ t = <<"1">>

Float64(n) == IF n \in -Exact..Exact \/ n % 2 = 0 THEN n
              ELSE IF (n \div 2) % 2 = 0 THEN n - 1 ELSE n + 1

\* f == float64(int(f)) of a number f, where int is an int64.  For an f outside of
\* int64 Go leaves int(f) to the platform; here it is -Widest - 1, as on amd64, so
\* that every such f is refused.
IsInt64(v) == v.kind = "number" /\ ~v.frac /\ Float64(v.num) \in (-Widest - 1)..Widest

-----------------------------------------------------------------------------
(* Definitions.                                                            *)

ColumnTypes == {"bool", "datetime", "dynamic", "int", "real", "string", "timespan"}

Column == [name : Seq(STRING), type : ColumnTypes, default : Seq(STRING), hasDefault : BOOLEAN, optional : BOOLEAN]

\* Column{}, which is also what becomes of a column that is not an object.
ZeroColumn == [name |-> <<>>, type |-> "bool", default |-> <<>>, hasDefault |-> FALSE, optional |-> FALSE]

\* fmt's %v and %d of a number.
Formatted(n, frac) == IF frac THEN <<ToString(n), ".5">> ELSE <<ToString(n)>>
AsText(v) == IF v.kind = "number" THEN Formatted(Float64(v.num), v.frac) ELSE v.text

DefaultFits(type, v) ==
  CASE type = "bool"     -> v.kind = "bool"
    [] type = "int"      -> IsInt64(v)
    [] type = "real"     -> v.kind = "number"
    [] type = "datetime" -> v.kind = "string" /\ CheckDateTime(v.text)
    [] type = "dynamic"  -> v.kind = "string" /\ JsonObject(v.text)
    [] type = "string"   -> v.kind = "string"
    [] type = "timespan" -> v.kind = "string" /\ CheckTimeSpan(v.text)

\* The first check that fails, or "ok".
FirstError(checks) ==
  LET failed == {i \in DOMAIN checks : ~checks[i][1]}
  IN  IF failed = {} THEN "ok" ELSE checks[Min(failed)][2]

IsNamed(m) == Get(m, "name").kind = "string"
TypeOf(m) == IF Len(Get(m, "type").text) = 1 THEN Get(m, "type").text[1] ELSE "none"

GetColumnDefinition(input) ==
  LET m == input.keys
      err == FirstError(<<
        <<IsNamed(m), "ErrInvalidColumnName">>,
        <<Get(m, "name").text # IngestTime, "ErrReservedName">>,
        <<Get(m, "type").kind = "string", "ErrMissingColumnType">>,
        <<TypeOf(m) \in ColumnTypes, "ErrUnsupportedColumnType">>,
        <<TypeOf(m) \in ColumnTypes /\ "defaultValue" \in DOMAIN m
            => DefaultFits(TypeOf(m), m["defaultValue"]), "ErrInconsistentDefaultValue">>,
        <<Get(m, "optional").kind \in {"bool", "null"}, "ErrInconsistentDefaultValue">> >>)
  IN  IF ~input.object THEN [err |-> "ok", column |-> ZeroColumn]
      ELSE IF err # "ok" THEN [err |-> err, column |-> ZeroColumn]
      ELSE [err |-> "ok",
            column |-> [name |-> m["name"].text, type |-> TypeOf(m),
                        default |-> AsText(Get(m, "defaultValue")), hasDefault |-> "defaultValue" \in DOMAIN m,
                        optional |-> Get(m, "optional").text = <<"true">>]]

\* Mutant: a column is compared with the one before it only.
ColumnErrorsAdjacent(inputs) ==
  LET parsed == [i \in DOMAIN inputs |-> GetColumnDefinition(inputs[i])]
  IN  FirstError([i \in DOMAIN inputs |->
        IF parsed[i].err # "ok" THEN <<FALSE, parsed[i].err>>
        ELSE <<i > 1 => parsed[i - 1].column.name # parsed[i].column.name, "ErrDuplicateColumnName">>])

\* The first column that does not parse, or repeats a name, ends the loop.
ColumnErrors(inputs) ==
  LET parsed == [i \in DOMAIN inputs |-> GetColumnDefinition(inputs[i])]
  IN  FirstError([i \in DOMAIN inputs |->
        IF parsed[i].err # "ok" THEN <<FALSE, parsed[i].err>>
        ELSE <<\A j \in 1..(i - 1) : parsed[j].column.name # parsed[i].column.name, "ErrDuplicateColumnName">>])

LatencyError(v) ==
  CASE v.kind = "null" -> "ok"
    [] v.kind # "null" /\ ~IsInt64(v) -> "ErrInvalidLatency"
    [] IsInt64(v) -> IF v.num < 0 THEN "ErrNegativeLatency" ELSE "ok"

\* ItemDefinition{}
NoDefinition == [typeName |-> <<>>, folder |-> <<>>, latency |-> 0, columns |-> <<>>]

\* m has the columns, where they are an array, apart from its other keys.
CreateItemDefinition(input) ==
  LET m == input.keys
      latency == Get(m, "latencyMinutes")
      err == FirstError(<<
        <<input.object, "not a JSON object">>,
        <<IsNamed(m), "ErrMissingNameField">>,
        <<Get(m, "name").text # IngestTime, "ErrReservedName">>,
        <<CheckFileName(Get(m, "name").text), "ErrInvalidFileName">>,
        <<Get(m, "documentation").kind \in {"string", "null"}, "ErrInvalidDocumentation">>,
        <<Get(m, "folder").kind = "null" \/ (Get(m, "folder").kind = "string" /\ CheckFileName(Get(m, "folder").text)),
          "ErrInvalidFolderField">>,
        <<LatencyError(latency) = "ok", LatencyError(latency)>>,
        <<input.hasColumns, "ErrMissingColumns">>,
        <<input.columns # <<>>, "ErrEmptyColumns">>,
        <<ColumnErrors(input.columns) = "ok", ColumnErrors(input.columns)>> >>)
  IN  [err |-> err,
       definition |->
         IF err # "ok" THEN NoDefinition
         ELSE [typeName |-> m["name"].text,
               folder |-> IF Get(m, "folder").kind = "null" THEN m["name"].text ELSE m["folder"].text,
               latency |-> IF latency.kind = "null" THEN 1 ELSE Float64(latency.num),
               columns |-> [i \in DOMAIN input.columns |-> GetColumnDefinition(input.columns[i]).column]]]

StoredItemDefinition(def) ==
  << [name |-> IngestTime, type |-> "datetime"] >>
    \o [i \in DOMAIN def.columns |-> [name |-> def.columns[i].name, type |-> def.columns[i].type]]

-----------------------------------------------------------------------------
(* Conversion.                                                             *)

\* Mutant: quotes inside the text are not doubled.
EscapedOnce(t) == <<Quote>> \o t \o <<Quote>>

Escaped(t) == <<Quote>> \o FlattenSeq([i \in DOMAIN t |-> IF t[i] = Quote THEN <<Quote, Quote>> ELSE <<t[i]>>])
                \o <<Quote>>

NeedsQuotes(t) == \E i \in DOMAIN t : t[i] \in Special

Good(t) == [err |-> "ok", text |-> t]
Bad(err) == [err |-> err, text |-> <<>>]

StringField(v, ok, err, text) ==
  IF v.kind # "string" THEN Bad("ErrInvalidFieldType") ELSE IF ok THEN Good(text) ELSE Bad(err)

GivenField(type, v) ==
  CASE type = "bool"     -> IF v.kind = "bool" THEN Good(v.text) ELSE Bad("ErrInvalidFieldType")
    [] type = "int"      -> IF IsInt64(v) THEN Good(AsText(v)) ELSE Bad("ErrInvalidFieldType")
    [] type = "real"     -> IF v.kind = "number" THEN Good(AsText(v)) ELSE Bad("ErrInvalidFieldType")
    [] type = "datetime" -> StringField(v, CheckDateTime(v.text), "ErrInvalidDateTime", v.text)
    [] type = "dynamic"  -> StringField(v, JsonValid(v.text), "ErrInvalidJSON", Escaped(v.text))
    [] type = "string"   -> StringField(v, TRUE, "ok", IF NeedsQuotes(v.text) THEN Escaped(v.text) ELSE v.text)
    [] type = "timespan" -> StringField(v, CheckTimeSpan(v.text), "ErrInvalidTimespan", v.text)

\* Mutant: the default is forgotten.
MissingFieldEmpty(column) ==
  IF column.optional \/ column.hasDefault THEN Good(<<>>) ELSE Bad("ErrMissingRequiredField")

MissingField(column) ==
  IF column.optional THEN Good(<<>>)
  ELSE IF column.hasDefault THEN Good(column.default) ELSE Bad("ErrMissingRequiredField")

Field(column, data) ==
  IF column.name \in DOMAIN data THEN GivenField(column.type, data[column.name]) ELSE MissingField(column)

Stamp == <<"date", ".", "ms">>

ConvertItem(item, list) ==
  LET columns == list[item.typeName].columns
      fields == [i \in DOMAIN columns |-> Field(columns[i], item.data)]
      errs   == [i \in DOMAIN fields |-> fields[i].err]
      errors == Keep(errs, Range(errs) \ {"ok"})
  IN  IF item.typeName \notin DOMAIN list THEN [line |-> <<>>, errors |-> <<"ErrItemTypeNotDefined">>]
      ELSE IF errors # <<>> THEN [line |-> <<>>, errors |-> errors]
      ELSE [line |-> Join(Stamp, [i \in DOMAIN fields |-> fields[i].text]), errors |-> <<>>]

Rejects(element) == ~(element.keys = 1 /\ element.object)

\* Mutant: data that is no object is passed over without an error.
SplitInputSkips(body) ==
  IF ~body.array THEN [items |-> <<>>, errors |-> <<"ErrInvalidJSONArray">>]
  ELSE LET all == Range(body.elements)
           bad == Keep(body.elements, {e \in all : e.keys # 1})
       IN  [items  |-> Keep(body.elements, {e \in all : ~Rejects(e)}),
            errors |-> [i \in DOMAIN bad |-> "ErrInvalidItemStructure"]]

\* An element of the array: how many keys it has, and for one key its value,
\* which is an object (or null, an object without fields) or not.
SplitInput(body) ==
  IF ~body.array THEN [items |-> <<>>, errors |-> <<"ErrInvalidJSONArray">>]
  ELSE LET all == Range(body.elements)
           bad == Keep(body.elements, {e \in all : Rejects(e)})
       IN  [items  |-> Keep(body.elements, {e \in all : ~Rejects(e)}),
            errors |-> [i \in DOMAIN bad |-> IF bad[i].keys # 1 THEN "ErrInvalidItemStructure"
                                                               ELSE "ErrItemDataParsingFailed"]]

-----------------------------------------------------------------------------
(* The requests.  The pipeline runs, and its queues have room: modules     *)
(* Server and TypePipeline are about the rest.                             *)

VARIABLES definitions, \* s.definitions, a map from names, of which ConvertItem sees a copy
          added,       \* the answer to a definition/add request, with the request
          answered     \* the answer to an ingest request, with the request

vars == <<definitions, added, answered>>

Init == definitions = [name \in {} |-> NoDefinition] /\ added = <<>> /\ answered = <<>>

Ready == added = <<>> /\ answered = <<>>

Names == DOMAIN definitions

\* handleDefinitionAdd; a type that is there already is a conflict.
AddDefinition(input) ==
  LET made == CreateItemDefinition(input)
      err  == IF made.err # "ok" THEN made.err
              ELSE IF made.definition.typeName \in Names THEN "ErrDefinitionAlreadyExists" ELSE "ok"
  IN  /\ Ready /\ (err = "ok" => Cardinality(Names) < MaxTypes)
      /\ definitions' = IF err = "ok" THEN Put(definitions, made.definition.typeName, made.definition)
                                      ELSE definitions
      /\ added' = <<[input |-> input, err |-> err]>>
      /\ UNCHANGED answered

RemoveDefinition(name) ==
  /\ Ready /\ name \in Names
  /\ definitions' = Restrict(definitions, Names \ {name})
  /\ UNCHANGED <<added, answered>>

\* handleIngest: ingested are the items with the lines they became.
Ingest(body) ==
  LET split == SplitInput(body)
      converts == {item \in Range(split.items) : ConvertItem(item, definitions).errors = <<>>}
      good == Keep(split.items, converts)
      bad  == Keep(split.items, Range(split.items) \ converts)
  IN  /\ Ready
      /\ answered' = <<[body |-> body,
                        status |-> IF split.items = <<>> THEN 400 ELSE 200,
                        ingested |-> [i \in DOMAIN good |-> [item |-> good[i], line |-> ConvertItem(good[i], definitions).line]],
                        rejected |-> [i \in DOMAIN split.errors |-> [errors |-> <<split.errors[i]>>]]
                                       \o [i \in DOMAIN bad |-> [errors |-> ConvertItem(bad[i], definitions).errors]]]>>
      /\ UNCHANGED <<definitions, added>>

Receive == ~Ready /\ added' = <<>> /\ answered' = <<>> /\ UNCHANGED definitions

Next ==
  \/ \E input \in DefinitionInput : AddDefinition(input)
  \/ \E name \in Names : RemoveDefinition(name)
  \/ \E body \in ItemInput : Ingest(body)
  \/ Receive

Spec == Init /\ [][Next]_vars

-----------------------------------------------------------------------------
(* What the answers are measured by.                                       *)

\* The rule in CheckFileName's comment: runs of letters and digits, with one
\* hyphen between two of them.
ContainerName(t) ==
  /\ Len(t) \in MinName..MaxName
  /\ \A i \in DOMAIN t :
       Lower(t[i]) \/ (t[i] = "-" /\ i \in 2..(Len(t) - 1) /\ Lower(t[i - 1]) /\ Lower(t[i + 1]))

\* The rule in CheckTimeSpan's comments: a number of days and a Go duration,
\* or one of them.
Timespan(t) ==
  \/ ParseDuration(t)
  \/ \E i \in DOMAIN t : /\ t[i] = "d" /\ NumberText(SubSeq(t, 1, i - 1))
                         /\ i = Len(t) \/ ParseDuration(SubSeq(t, i + 1, Len(t)))

ManyDots(t) == Cardinality({i \in DOMAIN t : t[i] = "."}) > 1

\* A reader of CSV (RFC 4180), a character at a time; <<>> for a broken record.
Reading(fields, field, mode) == [fields |-> fields, field |-> field, mode |-> mode]
ReadChar(r, c) ==
  CASE r.mode = "quoted" /\ c # Quote -> [r EXCEPT !.field = Append(@, c)]
    [] r.mode = "quoted" /\ c = Quote -> [r EXCEPT !.mode = "closing"]
    [] r.mode = "closing" /\ c = Quote -> [r EXCEPT !.mode = "quoted", !.field = Append(@, c)]
    [] r.mode = "start" /\ c = Quote -> [r EXCEPT !.mode = "quoted"]
    [] r.mode \in {"start", "plain"} /\ c \notin Special -> [r EXCEPT !.mode = "plain", !.field = Append(@, c)]
    [] r.mode \in {"start", "plain", "closing"} /\ c = Comma -> Reading(Append(r.fields, r.field), <<>>, "start")
    [] OTHER -> [r EXCEPT !.mode = "broken"]

ReadFrom(start, t) ==
  LET reader[n \in 0..Len(t)] == IF n = 0 THEN start ELSE ReadChar(reader[n - 1], t[n])
  IN  reader[Len(t)]

Read(line) ==
  LET r == ReadFrom(Reading(<<>>, <<>>, "start"), line)
  IN  IF r.mode \in {"quoted", "broken"} THEN <<>> ELSE Append(r.fields, r.field)

\* What a reader should find in a column: the text or number that was sent.
Sent(column, data) ==
  IF column.name \notin DOMAIN data THEN (IF column.optional THEN <<>> ELSE column.default)
  ELSE LET v == data[column.name] IN IF v.kind = "number" THEN Formatted(v.num, v.frac) ELSE v.text

\* Columns that the code writes as they are although the text has a comma, quote
\* or newline: a datetime with a comma before its milliseconds, and a default.
Unquoted(column, data) ==
  /\ NeedsQuotes(Sent(column, data))
  /\ column.type = "datetime" \/ column.name \notin DOMAIN data

Inexact(column, data) == column.name \in DOMAIN data /\ data[column.name].num \notin -Exact..Exact

Definition(name) == definitions[name]

\* A field may have the values that its column may have as default; a dynamic
\* one also JSON that is not an object.
Fits(type, v) == DefaultFits(type, v) \/ (type = "dynamic" /\ v.kind = "string" /\ JsonValid(v.text))

BadColumns(item) ==
  LET columns == Definition(item.typeName).columns
  IN  {i \in DOMAIN columns : IF columns[i].name \in DOMAIN item.data
                              THEN ~Fits(columns[i].type, item.data[columns[i].name])
                              ELSE ~columns[i].optional /\ ~columns[i].hasDefault}

-----------------------------------------------------------------------------
(* Properties.                                                             *)

\* Registered definitions are of the types the code declares, and the schema that
\* is stored with the data has one column of each name, the reserved first one
\* among them: neither a repeated name, nor a column that is no object (which
\* becomes one without a name), hides another.
ItemsTypeOK ==
  /\ \A name \in Names :
       LET def == definitions[name]
           stored == StoredItemDefinition(def)
       IN  /\ def.typeName = name /\ def.latency \in Nat /\ def.columns \in Seq(Column) \ {<<>>}
           /\ \A p, q \in DOMAIN stored : stored[p].name = stored[q].name => p = q
  /\ Cardinality(Names) <= MaxTypes
  /\ Len(added) + Len(answered) <= 1

\* The comments of CheckFileName (Azure container names, for types and folders) and
\* of CheckTimeSpan (Go durations with days in front): the checks on length, ends,
\* characters and parts together let through exactly the texts of the rule, but
\* for a number of days with more than one point, and no definition is refused for
\* a name or a default that follows the rule.
TextChecksAgree ==
  /\ \A name \in Names : ContainerName(name) /\ ContainerName(definitions[name].folder)
  /\ \A i \in DOMAIN added :
       LET err == added[i].err
           columns == added[i].input.columns
       IN  /\ err = "ErrInvalidFileName" => ~ContainerName(Get(added[i].input.keys, "name").text)
           /\ \A c \in DOMAIN columns :
                LET m == columns[c].keys
                    text == Get(m, "defaultValue").text
                IN  columns[c].object /\ TypeOf(m) = "timespan" /\ Get(m, "defaultValue").kind = "string" =>
                      /\ err = "ok" => Timespan(text) \/ ManyDots(text)
                      /\ err = "ErrInconsistentDefaultValue" =>
                           \/ ~Timespan(text)
                           \/ Get(m, "optional").kind \notin {"bool", "null"}
                           \/ \E b \in DOMAIN columns \ {c} : GetColumnDefinition(columns[b]).err = err

\* README, "Storage": each accepted item is one CSV record of its definition.
\* Read back it has the columns of the stored schema with the values sent or
\* defaulted, whatever commas, quotes and newlines they hold, except those that the
\* code leaves unquoted and integers that a float64 cannot hold.
RecordReadsBack ==
  \A i \in DOMAIN answered : \A k \in DOMAIN answered[i].ingested :
    LET item == answered[i].ingested[k].item
        def  == Definition(item.typeName)
        sent == [c \in DOMAIN def.columns |-> Sent(def.columns[c], item.data)]
    IN  \/ \E c \in DOMAIN def.columns : Unquoted(def.columns[c], item.data) \/ Inexact(def.columns[c], item.data)
        \/ /\ Read(answered[i].ingested[k].line) = <<Stamp>> \o sent
           /\ Len(sent) + 1 = Len(StoredItemDefinition(def))

\* The answer accounts for every element of the array: the ones with no bad
\* field go in, in their order, each other one is rejected once, with one
\* error for each of its bad fields; 400 is for requests that got nothing in.
ItemsAccounted ==
  \A i \in DOMAIN answered :
    LET a == answered[i]
        Acceptable(e) == ~Rejects(e) /\ e.typeName \in Names /\ BadColumns(e) = {}
        Convertible(e) == ~Rejects(e) /\ e.typeName \in Names /\ BadColumns(e) # {}
        all == Range(a.body.elements)
        misfits == Keep(a.body.elements, {e \in all : Convertible(e)})
    IN  a.body.array =>
          /\ [k \in DOMAIN a.ingested |-> a.ingested[k].item] = Keep(a.body.elements, {e \in all : Acceptable(e)})
          /\ Len(a.ingested) + Len(a.rejected) = Len(a.body.elements)
          /\ \A n \in 1..4 : Cardinality({k \in DOMAIN misfits : Cardinality(BadColumns(misfits[k])) = n})
                               <= Cardinality({k \in DOMAIN a.rejected : Len(a.rejected[k].errors) = n})
          /\ a.status = 400 => a.ingested = <<>>

\* A field left out, if required, is written like one sent with the default value,
\* for every default that needs no quotes: what a definition accepts as default
\* never makes a record that the same value in the item would not make.
DefaultActsAsExplicit ==
  \A i \in DOMAIN added : added[i].err = "ok" =>
    \A c \in DOMAIN added[i].input.columns :
      LET m == added[i].input.columns[c].keys
          column == GetColumnDefinition(added[i].input.columns[c]).column
      IN  column.hasDefault /\ ~column.optional /\ ~NeedsQuotes(column.default) =>
            LET given == GivenField(column.type, m["defaultValue"])
            IN  given.err = "ok" /\ Read(MissingField(column).text) = Read(given.text)

=============================================================================
