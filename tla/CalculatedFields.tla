-------------------------- MODULE CalculatedFields --------------------------
(* The calculated fields of a dataset: each one is added by a new version  *)
(* of the dataset that copies the fields of an earlier one under new       *)
(* identifiers (datasets.py), its expression is typed and stored as JSON   *)
(* (calculated_field_contracts.py), and every query parses, checks and     *)
(* compiles all of them again (query_service.py, compiler.py).             *)
(*                                                                         *)
(* A value is the kind of Python object an expression holds: the service   *)
(* asks nothing else of it. "day" and "moment" are texts in ISO format,    *)
(* "numeral" the text of a decimal number, "word" any other text.          *)
EXTENDS ExpressionTrees, FiniteSets, Functions, Sequences

CONSTANTS
  SourceTypes,  \* the data types of the source fields, in their order
  Values,       \* kinds of values that requests hold
  MaxNodes,     \* nodes of an expression (fifty in the code)
  MaxDepth,     \* levels of an expression (eight in the code)
  MaxFields,    \* fields of a dataset (500 in the code)
  MaxVersions   \* bound: no plain copy of this version

Types == {"string", "integer", "decimal", "boolean", "date", "datetime"}
Texts == {"day", "moment", "numeral", "word"}
Numeric == {"integer", "decimal"}

ASSUME FieldsAssumption ==
  /\ SourceTypes \in Seq(Types) /\ SourceTypes # << >>
  /\ Values \subseteq {"none", "bool", "int", "decimal", "day", "moment", "numeral", "word"}
  /\ MaxNodes \in Nat /\ {MaxDepth, MaxFields, MaxVersions} \subseteq Nat

VARIABLE fields  \* the fields of the latest version, by identifier

Id(version, ordinal) == <<version, ordinal>>

SourceField(type) == [kind |-> "source", type |-> type]
CalculatedField(type, expression) ==
  [kind |-> "calculated", type |-> type, expression |-> expression]

Calculated(of) == {id \in DOMAIN of : of[id].kind = "calculated"}

-----------------------------------------------------------------------------
(* Expressions. Arithmetic is one operation: the three are typed alike.    *)
Field(id) == [op |-> "field", field |-> id]
Literal(value) == [op |-> "literal", value |-> value]
Arithmetic(left, right) == [op |-> "arithmetic", left |-> left, right |-> right]
SafeDivide(left, right, fallback) ==
  [op |-> "safe_divide", left |-> left, right |-> right, fallback |-> fallback]
Case(when, then, else) == [op |-> "case", left |-> then, right |-> else, when |-> when]

(* The condition of a CASE: one predicate. Its values are a set.           *)
Compares(id, values) == [kind |-> "values", field |-> id, values |-> values]
Matches(id) == [kind |-> "text", field |-> id, values |-> {}]
IsNull(id) == [kind |-> "null", field |-> id, values |-> {}]

ExpressionParts(e) == Parts(e, MaxDepth)

FieldIds(e) ==
  {part.field : part \in {p \in ExpressionParts(e) : p.op = "field"}}
  \cup {part.when.field : part \in {p \in ExpressionParts(e) : p.op = "case"}}

Nodes(e) ==
  LET nodes[part \in ExpressionParts(e)] ==
        IF IsLeaf(part) THEN 1
        ELSE (IF part.op = "case" THEN 2 ELSE 1) + nodes[part.left] + nodes[part.right]
  IN nodes[e]

RewrittenSwapped(e, new) ==
  LET to[part \in ExpressionParts(e)] ==
        CASE part.op = "field" -> Field(new[part.field])
          [] part.op = "literal" -> part
          [] part.op = "case" -> [part EXCEPT !.left = to[part.right], !.right = to[part.left],
                                              !.when.field = new[@]]
          [] OTHER -> [part EXCEPT !.left = to[@], !.right = to[@]]
  IN to[e]

(* rewrite_calculated_expression_fields: undefined where the map is.       *)
Rewritten(e, new) ==
  LET to[part \in ExpressionParts(e)] ==
        CASE part.op = "field" -> Field(new[part.field])
          [] part.op = "literal" -> part
          [] part.op = "case" ->
               [part EXCEPT !.left = to[@], !.right = to[@], !.when.field = new[@]]
          [] OTHER -> [part EXCEPT !.left = to[@], !.right = to[@]]
  IN to[e]

(* model_dump(mode="json") and parse_calculated_expression: a Decimal is   *)
(* written as a string, and the union the literal is parsed with takes a   *)
(* string as it is. The fallback of a division has no str in its union.    *)
Stored(e) ==
  LET stored[part \in ExpressionParts(e)] ==
        CASE part.op = "field" -> part
          [] part.op = "literal" -> [part EXCEPT !.value = IF @ = "decimal" THEN "numeral" ELSE @]
          [] OTHER -> [part EXCEPT !.left = stored[@], !.right = stored[@]]
  IN stored[e]

-----------------------------------------------------------------------------
(* _literal_data_type                                                      *)
LiteralType(value, expected) ==
  LET typeOf == [none |-> "null", bool |-> "boolean", int |-> "integer", decimal |-> "decimal"]
      formats == [date |-> {"day"}, datetime |-> {"day", "moment"}]
  IN IF value \in DOMAIN typeOf THEN typeOf[value]
     ELSE IF expected \notin DOMAIN formats THEN "string"
     ELSE IF value \in formats[expected] THEN expected ELSE "invalid"

Compatible(actual, expected) ==
  actual = expected \/ (actual = "integer" /\ expected = "decimal")

ConditionIsTypedByField(when, types) ==
  /\ when.field \in DOMAIN types
  /\ when.kind = "text" => types[when.field] = "string"

(* _validate_filter_types                                                  *)
ConditionIsTyped(when, types) ==
  /\ when.field \in DOMAIN types
  /\ when.kind = "text" => types[when.field] = "string"
  /\ \A value \in when.values :
       Compatible(LiteralType(value, types[when.field]), types[when.field])

(* _merge_case_types                                                       *)
MergedType(left, right) ==
  IF left = "null" THEN right
  ELSE IF right = "null" \/ left = right THEN left
  ELSE IF {left, right} = Numeric THEN "decimal" ELSE "invalid"

(* _infer_calculated_type                                                  *)
InferredType(e, types, expected) ==
  LET type[part \in ExpressionParts(e)] ==
        [hint \in {expected, "any"} |->
           CASE part.op = "field" -> types[part.field]
             [] part.op = "literal" -> LiteralType(part.value, hint)
             [] part.op = "case" ->
                  IF ConditionIsTyped(part.when, types)
                    THEN MergedType(type[part.left][hint], type[part.right][hint])
                    ELSE "invalid"
             [] OTHER ->
                  LET both == {type[part.left]["any"], type[part.right]["any"]}
                  IN IF ~ both \subseteq Numeric THEN "invalid"
                     ELSE IF part.op = "safe_divide" \/ "decimal" \in both THEN "decimal"
                     ELSE "integer"]
  IN type[e][expected]

(* _validate_calculated_expression                                         *)
IsTyped(e, types, declared) ==
  /\ FieldIds(e) \subseteq DOMAIN types
  /\ LET inferred == InferredType(e, types, declared)
     IN inferred = "null" \/ (inferred # "invalid" /\ Compatible(inferred, declared))

(* validate_calculated_field_graph: Kahn's order stands for its search.    *)
Dependencies(of, id) == FieldIds(of[id].expression) \cap Calculated(of)

CompileOrder(of) ==
  LET done[n \in Nat] ==
        IF n = 0 THEN {}
        ELSE done[n - 1] \cup
             {id \in Calculated(of) : Dependencies(of, id) \subseteq done[n - 1]}
  IN done[Cardinality(Calculated(of))]

GraphIsValid(of) ==
  /\ \A id \in Calculated(of) : FieldIds(of[id].expression) \subseteq DOMAIN of
  /\ CompileOrder(of) = Calculated(of)
  /\ \A id \in Calculated(of) :
       IsTyped(of[id].expression, [x \in DOMAIN of |-> of[x].type], of[id].type)

-----------------------------------------------------------------------------
(* _bind_value: which values a column takes.                               *)
Binds(type, value) ==
  value \in CASE type = "string" -> Texts
              [] type = "boolean" -> {"bool"}
              [] type = "integer" -> {"int"}
              [] type = "decimal" -> {"int", "decimal", "numeral"}
              [] type = "datetime" -> {"day", "moment"}
              [] type = "date" -> {"day"}

(* compile_filter and _calculated_expression: what may fail is a text      *)
(* predicate, a bound value, or a literal that is no ISO date.             *)
Compiles(e, types, expected) ==
  LET compiles[part \in ExpressionParts(e)] ==
        [hint \in {expected, "any"} |->
           CASE part.op = "field" -> TRUE
             [] part.op = "literal" ->
                  part.value \in Texts =>
                    /\ hint = "date" => part.value = "day"
                    /\ hint = "datetime" => part.value \in {"day", "moment"}
             [] part.op = "case" ->
                  /\ part.when.kind = "text" => types[part.when.field] = "string"
                  /\ \A value \in part.when.values : Binds(types[part.when.field], value)
                  /\ compiles[part.left][hint] /\ compiles[part.right][hint]
             [] OTHER -> compiles[part.left]["any"] /\ compiles[part.right]["any"]]
  IN compiles[e][expected]

(* _compile_calculated_fields                                              *)
FieldsCompile(of) ==
  /\ GraphIsValid(of)
  /\ \A id \in Calculated(of) :
       Compiles(of[id].expression, [x \in DOMAIN of |-> of[x].type], of[id].type)

-----------------------------------------------------------------------------
FieldsInit ==
  fields = [id \in {Id(1, n) : n \in DOMAIN SourceTypes} |-> SourceField(SourceTypes[id[2]])]

(* _copy_fields                                                            *)
Copied(of, new) ==
  [id \in Range(new) |->
     LET old == of[CHOOSE o \in DOMAIN new : new[o] = id]
     IN IF old.kind = "source" THEN old
        ELSE [old EXCEPT !.expression = Stored(Rewritten(@, new))]]

Renewed(of) == [id \in DOMAIN of |-> Id(id[1] + 1, id[2])]

Version(of) == (CHOOSE id \in DOMAIN of : TRUE)[1]

(* create_dataset_version with the fields of the version it starts from.   *)
CopyVersion ==
  /\ GraphIsValid(fields)
  /\ Version(fields) < MaxVersions
  /\ fields' = Copied(fields, Renewed(fields))

(* create_calculated_field_version: the new field is the last one.         *)
CreateCalculatedField(type, expression) ==
  LET new == Renewed(fields)
      last == Id(Version(fields) + 1, Cardinality(DOMAIN fields) + 1)
  IN /\ Cardinality(DOMAIN fields) < MaxFields
     /\ IsWithin(expression, MaxDepth) /\ Nodes(expression) <= MaxNodes
     /\ GraphIsValid(fields)
     /\ IsTyped(expression, [id \in DOMAIN fields |-> fields[id].type], type)
     /\ fields' = [id \in Range(new) \cup {last} |->
                     IF id = last
                       THEN CalculatedField(type, Stored(Rewritten(expression, new)))
                       ELSE Copied(fields, new)[id]]

-----------------------------------------------------------------------------
(* The meaning of a field: its expression down to the source fields.       *)
Expanded(e, of) ==
  LET parts == ExpressionParts(e) \cup {Field(id) : id \in DOMAIN of}
               \cup UNION {ExpressionParts(of[id].expression) : id \in Calculated(of)}
      expanded[part \in parts] ==
        CASE part.op = "literal" -> part
          [] part.op = "field" ->
               IF of[part.field].kind = "source" THEN Field(part.field[2])
               ELSE expanded[of[part.field].expression]
          [] part.op = "case" -> [part EXCEPT !.left = expanded[@], !.right = expanded[@],
                                              !.when.field = expanded[Field(@)]]
          [] OTHER -> [part EXCEPT !.left = expanded[@], !.right = expanded[@]]
  IN expanded[e]

-----------------------------------------------------------------------------
(* The expressions that are tried: one operator over any field and value,  *)
(* then over the newest calculated field, so that fields build on fields.  *)
Newest == {id \in Calculated(fields) : \A other \in DOMAIN fields : other[2] <= id[2]}
Bases == IF Newest = {} THEN DOMAIN fields ELSE Newest
BaseValues == IF Newest = {} THEN Values ELSE {"int"}

Leaves == {Field(id) : id \in Bases} \cup {Literal(value) : value \in BaseValues}

Conditions ==
  {Compares(id, {value}) : id \in Bases, value \in BaseValues \ {"none"}}
  \cup {Matches(id) : id \in Bases} \cup {IsNull(id) : id \in Bases}

Expressions ==
  Leaves
  \cup {Arithmetic(left, right) : left \in Leaves, right \in Leaves}
  \cup {SafeDivide(left, right, "none") : left \in Leaves, right \in Leaves}
  \cup {Case(when, then, else) : when \in Conditions, then \in Leaves, else \in Leaves}

FieldsNext ==
  \/ CopyVersion
  \/ \E type \in Types : \E e \in Expressions : CreateCalculatedField(type, e)

-----------------------------------------------------------------------------
(* What was accepted when it was created is accepted again whenever it is  *)
(* read: the fields of every version parse, have their types and compile.  *)
(* A query or a new version of a dataset with a field that does not fails. *)
StoredFieldsCompile == FieldsCompile(fields)

(* A new version means what the one it was copied from meant: every field  *)
(* keeps its kind, its type and, down to the source fields, its expression.*)
VersionsKeepMeaning ==
  [][fields' # fields =>
       \A id \in DOMAIN fields :
         LET old == fields[id]
             new == fields'[Renewed(fields)[id]]
         IN /\ <<new.kind, new.type>> = <<old.kind, old.type>>
            /\ old.kind = "calculated" =>
                 Expanded(new.expression, fields') = Expanded(old.expression, fields)]_fields
=============================================================================
