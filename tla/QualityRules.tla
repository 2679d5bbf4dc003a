---------------------------- MODULE QualityRules ----------------------------
(***************************************************************************)
(* What an import template accepts: ingestion/template_contracts.py, and   *)
(* the evaluation of a file's rows by its quality rules, validation.py     *)
(* with the duplicate tracker of the worker.                               *)
(*                                                                         *)
(* Cells, texts and values are tuples that begin with what they are:       *)
(*   a cell   <<"none">>, <<"text", text>>, or what a workbook holds:      *)
(*            <<"integer", n>>, <<"float", n>>, <<"boolean", b>>,          *)
(*            <<"date", day>>, <<"datetime", <<day, minute>>>>;            *)
(*   a text   <<form, content, padded>>, padded by spaces or not: "space"  *)
(*            is nothing else; "digits", "zeros" and "point" spell n as n, *)
(*            0n and n.0; "nan", "day", "moment" and "word" as named;      *)
(*   a value  <<type, ...>>, of a decimal also how it was written.         *)
(***************************************************************************)
EXTENDS Integers, SequencesExt

CONSTANTS
  LengthOf(_),   \* the number of characters of a text
  NoBound,       \* a rule has no minimum or no maximum
  NoSheet, NoColumn

NoValue == <<"null">>
Invalid == <<"invalid">>

TrueWords == {"true", "True", "yes"}
FalseWords == {"false", "False", "no"}

-----------------------------------------------------------------------------
(* The contract of a template.                                             *)

BoundsAreOrdered(p) ==
  /\ p.minimum # NoBound \/ p.maximum # NoBound
  /\ p.minimum # NoBound /\ p.maximum # NoBound => p.minimum <= p.maximum

TargetNames(definition) == {definition.columns[i].target : i \in DOMAIN definition.columns}

RuleIsAccepted(rule, targets) ==
  /\ rule.type \in {"length", "range"} => BoundsAreOrdered(rule.parameters)
  /\ rule.type = "enum" =>
       rule.parameters.values # << >> /\ IsInjective(rule.parameters.values)
  /\ IF rule.type = "business_key"
       THEN /\ rule.column = NoColumn
            /\ rule.parameters.columns # << >>
            /\ ToSet(rule.parameters.columns) \subseteq targets
       ELSE rule.column \in targets

DefinitionIsAccepted(definition) ==
  LET columns == definition.columns
      rules == definition.quality_rules
  IN /\ definition.file_kind = "csv" => definition.sheet = NoSheet
     /\ columns # << >>
     /\ \A i, j \in DOMAIN columns :
          columns[i].source = columns[j].source \/ columns[i].target = columns[j].target => i = j
     /\ IsInjective(definition.business_key)
     /\ ToSet(definition.business_key) \subseteq TargetNames(definition)
     /\ \A i, j \in DOMAIN rules : rules[i].name = rules[j].name => i = j
     /\ \A i \in DOMAIN rules : RuleIsAccepted(rules[i], TargetNames(definition))

-----------------------------------------------------------------------------
(* A cell and its value.                                                   *)

(* _source_value: a short row has no cell there.                           *)
SourceValue(row, column) == IF column.source \in DOMAIN row THEN row[column.source] ELSE <<"none">>


IsBlank(cell) == cell[1] = "none" \/ (cell[1] = "text" /\ cell[2][1] = "space")

(* str(value)                                                              *)
Str(cell) ==
  CASE cell[1] = "text" -> cell[2]
    [] cell[1] = "integer" -> <<"digits", cell[2], FALSE>>
    [] cell[1] = "float" -> <<"point", cell[2], FALSE>>
    [] cell[1] = "boolean" -> <<"word", IF cell[2] THEN "True" ELSE "False", FALSE>>
    [] cell[1] = "date" -> <<"day", cell[2], FALSE>>
    [] cell[1] = "datetime" -> <<"moment", cell[2], FALSE>>

IntegerOf(cell) ==
  LET text == Str(cell)
  IN IF cell[1] # "boolean" /\ text[1] = "digits" THEN <<"integer", text[2]>> ELSE Invalid

DecimalOf(cell) ==
  LET text == Str(cell)
  IN IF cell[1] = "boolean" THEN Invalid
     ELSE CASE text[1] \in {"digits", "zeros"} -> <<"decimal", "plain", text[2]>>
            [] text[1] = "point" -> <<"decimal", "point", text[2]>>
            [] text[1] = "nan" -> <<"decimal", "nan", 0>>
            [] OTHER -> Invalid

BooleanOf(cell) ==
  LET text == Str(cell)
      Spells(words, digit) ==
        \/ text[1] = "word" /\ text[2] \in words
        \/ text[1] = "digits" /\ text[2] = digit
  IN IF Spells(TrueWords, 1) THEN <<"boolean", TRUE>>
     ELSE IF Spells(FalseWords, 0) THEN <<"boolean", FALSE>>
     ELSE Invalid

(* The text of a moment is no date; a cell with a moment has its day.      *)
DateOf(cell) ==
  LET text == Str(cell)
  IN IF cell[1] = "datetime" THEN <<"date", cell[2][1]>>
     ELSE IF text[1] = "day" THEN <<"date", text[2]>>
     ELSE Invalid

DatetimeOf(cell) ==
  LET text == Str(cell)
  IN CASE text[1] = "moment" -> <<"datetime", text[2]>>
       [] text[1] = "day" -> <<"datetime", <<text[2], 0>>>>
       [] OTHER -> Invalid

(* _convert_value                                                          *)
Convert(cell, type) ==
  CASE type = "string" -> <<"string", Str(cell)>>
    [] type = "integer" -> IntegerOf(cell)
    [] type = "decimal" -> DecimalOf(cell)
    [] type = "boolean" -> BooleanOf(cell)
    [] type = "date" -> DateOf(cell)
    [] type = "datetime" -> DatetimeOf(cell)

-----------------------------------------------------------------------------
(* A row, as the cells and the converted values of its target columns.     *)

ColumnOf(definition, target) ==
  definition.columns[CHOOSE i \in DOMAIN definition.columns :
                       definition.columns[i].target = target]

Cells(definition, row) ==
  [target \in TargetNames(definition) |-> SourceValue(row, ColumnOf(definition, target))]

(* What cannot be converted is null, as what is blank is.                  *)
ConvertedValues(definition, cells) ==
  [target \in TargetNames(definition) |->
     LET value == Convert(cells[target], ColumnOf(definition, target).type)
     IN IF IsBlank(cells[target]) \/ value = Invalid THEN NoValue ELSE value]

Issue(columns, severity, code) == [columns |-> columns, severity |-> severity, code |-> code]

ColumnIssues(definition, cells, values) ==
  {Issue(<<target>>, "error", "required") : target \in
     {t \in TargetNames(definition) : IsBlank(cells[t]) /\ ~ ColumnOf(definition, t).nullable}}
  \cup
  {Issue(<<target>>, "error", "invalid_type") : target \in
     {t \in TargetNames(definition) : ~ IsBlank(cells[t]) /\ values[t] = NoValue}}

-----------------------------------------------------------------------------
(* The quality rules.                                                      *)

Outside(n, p) ==
  \/ p.minimum # NoBound /\ n < p.minimum
  \/ p.maximum # NoBound /\ n > p.maximum

NumberOf(value) == IF value[1] = "decimal" THEN value[3] ELSE value[2]

IsNumber(value) == value[1] = "integer" \/ (value[1] = "decimal" /\ value[2] # "nan")

(* `in`, of Python: a boolean is the number 1 or 0, and no date is a text. *)
IsListed(value, values) ==
  LET number == IF value[1] = "boolean" THEN IF value[2] THEN 1 ELSE 0 ELSE NumberOf(value)
      OfLiteral(literal) ==
        IF literal[1] = "boolean" THEN IF literal[2] THEN 1 ELSE 0 ELSE literal[2]
  IN \E literal \in ToSet(values) :
       \/ value[1] = "string" /\ literal = value
       \/ /\ IsNumber(value) \/ value[1] = "boolean"
          /\ literal[1] \in {"number", "boolean"} /\ OfLiteral(literal) = number

(* _evaluate_rule for all but the duplicates: whether the rule fails.      *)
Fails(rule, cell, value) ==
  CASE rule.type = "required" -> IsBlank(cell)
    [] rule.type = "data_type" -> value # NoValue /\ value[1] # rule.parameters.expected
    [] rule.type = "length" -> ~ IsBlank(cell) /\ Outside(LengthOf(Str(cell)), rule.parameters)
    [] rule.type = "range" -> IsNumber(value) /\ Outside(NumberOf(value), rule.parameters)
    [] rule.type = "enum" -> value # NoValue /\ ~ IsListed(value, rule.parameters.values)
    [] rule.type = "regex" -> ~ IsBlank(cell) /\ Str(cell) \notin rule.parameters.pattern
    [] OTHER -> FALSE

(* The order of a NaN and a bound is an InvalidOperation, which nothing    *)
(* catches: the batch fails.                                               *)
Raises(rule, value) == rule.type = "range" /\ value[1] = "decimal" /\ value[2] = "nan"

(* A key the duplicate tracker is asked about: it compares decimals as     *)
(* they are written.                                                       *)
KeyOf(columns, values) == [i \in DOMAIN columns |-> values[columns[i]]]

Asks(rule) ==
  CASE rule.type = "unique" -> {[space |-> <<"unique", rule.name>>, columns |-> <<rule.column>>,
                                 severity |-> rule.severity, code |-> "unique"]}
    [] rule.type = "business_key" ->
         {[space |-> <<"business:rule", rule.name>>, columns |-> rule.parameters.columns,
           severity |-> rule.severity, code |-> "business_key_duplicate"]}
    [] OTHER -> {}

AsksOfKey(definition) ==
  IF definition.business_key = << >> THEN {}
  ELSE {[space |-> <<"business", "definition">>, columns |-> definition.business_key,
         severity |-> "error", code |-> "business_key_duplicate"]}

(* The keys of a row that are complete; each has a name space of its own.  *)
AskedKeys(definition, values) ==
  {ask \in AsksOfKey(definition)
             \cup UNION {Asks(rule) : rule \in ToSet(definition.quality_rules)} :
     NoValue \notin Range(KeyOf(ask.columns, values))}

TrackedInOneSpace(ask, values) == <<KeyOf(ask.columns, values)>>

Tracked(ask, values) == <<ask.space, KeyOf(ask.columns, values)>>

(* QualityEvaluator.evaluate: seen are the keys of the rows before, also   *)
(* of those that were not accepted.                                        *)
EvaluatedRow(definition, confirmed, seen, row) ==
  LET cells == Cells(definition, row)
      values == ConvertedValues(definition, cells)
      rules == {rule \in ToSet(definition.quality_rules) : rule.type # "business_key"}
      asked == AskedKeys(definition, values)
      duplicates == {ask \in asked : Tracked(ask, values) \in seen}
      issues ==
        ColumnIssues(definition, cells, values)
        \cup {Issue(<<rule.column>>, rule.severity, rule.type) : rule \in
                {r \in rules : Fails(r, cells[r.column], values[r.column])}}
        \cup {Issue(ask.columns, ask.severity, ask.code) : ask \in duplicates}
  IN [values |-> values,
      issues |-> issues,
      accepted |-> \A issue \in issues : issue.severity = "warning" /\ confirmed,
      raised |-> \E rule \in rules : Raises(rule, values[rule.column]),
      seen |-> seen \cup {Tracked(ask, values) : ask \in asked}]

(* The rows of a file, one after the other; after a restart, from the      *)
(* first again.                                                            *)
EvaluatedFile(definition, confirmed, rows) ==
  LET evaluated[n \in 1..Len(rows)] ==
        EvaluatedRow(definition, confirmed,
                     IF n = 1 THEN {} ELSE evaluated[n - 1].seen, rows[n])
  IN evaluated

-----------------------------------------------------------------------------
(* What a template and a file are, before anything of them is checked.     *)
ColumnTypes == {"string", "integer", "decimal", "boolean", "date", "datetime"}

IsTemplate(definition) ==
  /\ \A i \in DOMAIN definition.columns : definition.columns[i].type \in ColumnTypes
  /\ \A i \in DOMAIN definition.quality_rules :
       definition.quality_rules[i].severity \in {"error", "warning"}

IsFile(rows) == rows \in Seq(Range(rows))
=============================================================================
