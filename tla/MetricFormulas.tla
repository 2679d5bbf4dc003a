--------------------------- MODULE MetricFormulas ---------------------------
(* The formulas of metrics: what the contract accepts (metric_contracts.py)*)
(* and the service checks (metrics.py), and the value of the SQL a query   *)
(* compiles them to (compiler.py).                                         *)
(*                                                                         *)
(* Numbers are exact: a value is Null or a fraction <<numerator,           *)
(* denominator>> in lowest terms. A column of a group is a function from   *)
(* its rows to values.                                                     *)
EXTENDS RowPredicates, ExpressionTrees, FiniteSetsExt

CONSTANTS MaxFormulaNodes, MaxFormulaDepth  \* 50 and 8 in the code

ASSUME FormulaAssumption == MaxFormulaNodes \in Nat /\ MaxFormulaDepth \in Nat

Functions == {"sum", "avg", "count", "count_distinct", "min", "max"}

Aggregate(function, field) == [op |-> "aggregate", function |-> function, field |-> field]
MetricLiteral(value) == [op |-> "literal", value |-> value]
MetricBinary(op, left, right) == [op |-> op, left |-> left, right |-> right]
MetricSafeDivide(numerator, denominator, fallback) ==
  [op |-> "safe_divide", left |-> numerator, right |-> denominator, fallback |-> fallback]

-----------------------------------------------------------------------------
(* _formula_statistics, validate_formula_complexity; metric_field_ids      *)
FormulaParts(f) == Parts(f, MaxFormulaDepth)

FormulaNodes(f) ==
  LET nodes[part \in FormulaParts(f)] ==
        IF IsLeaf(part) THEN 1 ELSE 1 + nodes[part.left] + nodes[part.right]
  IN nodes[f]

Aggregates(f) == {part \in FormulaParts(f) : part.op = "aggregate"}

FormulaFields(f) == {aggregate.field : aggregate \in Aggregates(f)}

FormulaIsAccepted(f) ==
  /\ IsWithin(f, MaxFormulaDepth)
  /\ FormulaNodes(f) <= MaxFormulaNodes
  /\ Aggregates(f) # {}

(* _validate_fields and _validate_aggregate_fields: fields maps the fields *)
(* of the dataset version to [type, role].                                 *)
IsNumeric(type) == type \in {"integer", "decimal"}

MetricIsValid(f, dimensions, fields) ==
  /\ FormulaFields(f) \cup dimensions \subseteq DOMAIN fields
  /\ \A dimension \in dimensions : fields[dimension].role = "dimension"
  /\ \A aggregate \in Aggregates(f) :
       /\ aggregate.function \in {"sum", "avg", "min", "max"} =>
            IsNumeric(fields[aggregate.field].type)
       /\ aggregate.function \in {"sum", "avg"} => fields[aggregate.field].role = "measure"

(* _result_type                                                            *)
ResultTypeOfField(f, fields) ==
  IF f.op = "aggregate" /\ f.function # "count" /\ fields[f.field].type # "integer"
    THEN "decimal" ELSE "integer"

ResultType(f, fields) ==
  IF /\ f.op = "aggregate"
     /\ \/ f.function \in {"count", "count_distinct"}
        \/ f.function # "avg" /\ fields[f.field].type = "integer"
    THEN "integer" ELSE "decimal"

-----------------------------------------------------------------------------
(* Fractions. Dividing by zero is an error of the database.                *)
Abs(n) == IF n < 0 THEN -n ELSE n

Fraction(n, d) ==
  LET common == Max({g \in 1..Abs(d) : n % g = 0 /\ Abs(d) % g = 0})
      sign == IF d < 0 THEN -1 ELSE 1
  IN <<(sign * n) \div common, Abs(d) \div common>>

Whole(n) == <<n, 1>>
Zero == Whole(0)
DivisionByZero == <<0, 0>>

Over(a, b) == IF b = Zero THEN DivisionByZero ELSE Fraction(a[1] * b[2], a[2] * b[1])

Combined(op, a, b) ==
  CASE op = "add" -> Fraction(a[1] * b[2] + b[1] * a[2], a[2] * b[2])
    [] op = "subtract" -> Fraction(a[1] * b[2] - b[1] * a[2], a[2] * b[2])
    [] op = "multiply" -> Fraction(a[1] * b[1], a[2] * b[2])
    [] op = "divide" -> Over(a, b)

(* Arithmetic of SQL: nothing of nothing, and an error stays one.          *)
Computed(op, a, b) ==
  IF DivisionByZero \in {a, b} THEN DivisionByZero
  ELSE IF Null \in {a, b} THEN Null ELSE Combined(op, a, b)

(* compile_aggregate. The aggregates of SQL pass over NULL.                *)
AggregateValue(function, column) ==
  LET present == {row \in DOMAIN column : column[row] # Null}
      values == {column[row] : row \in present}
      sum == MapThenSumSet(LAMBDA row : column[row], present)
  IN CASE function = "count" -> Whole(Cardinality(present))
       [] function = "count_distinct" -> Whole(Cardinality(values))
       [] OTHER ->
            IF present = {} THEN Null
            ELSE CASE function = "sum" -> Whole(sum)
                   [] function = "avg" -> Fraction(sum, Cardinality(present))
                   [] function = "min" -> Whole(Min(values))
                   [] function = "max" -> Whole(Max(values))

(* _metric_expression: group maps a field to its column.                   *)
MetricValue(f, group) ==
  LET value[part \in FormulaParts(f)] ==
        CASE part.op = "aggregate" -> AggregateValue(part.function, group[part.field])
          [] part.op = "literal" -> part.value
          [] part.op = "safe_divide" ->
               IF value[part.right] \in {Null, Zero} THEN part.fallback
               ELSE Computed("divide", value[part.left], value[part.right])
          [] OTHER -> Computed(part.op, value[part.left], value[part.right])
  IN value[f]

-----------------------------------------------------------------------------
(* What the contracts of metrics let a formula consist of: numbers are     *)
(* finite. Zero has one form, the others need not be in lowest terms.      *)
IsFraction(v) ==
  v \in Int \X (Nat \ {0}) /\ (v[1] = 0 => v[2] = 1)

IsFormula(f) ==
  \A part \in FormulaParts(f) :
    \/ /\ part.op = "aggregate"
       /\ part = Aggregate(part.function, part.field)
       /\ part.function \in Functions
    \/ /\ part.op = "literal"
       /\ part = MetricLiteral(part.value)
       /\ IsFraction(part.value)
    \/ /\ part.op \in {"add", "subtract", "multiply"}
       /\ part = MetricBinary(part.op, part.left, part.right)
    \/ /\ part.op = "safe_divide"
       /\ part = MetricSafeDivide(part.left, part.right, part.fallback)
       /\ (part.fallback # Null => IsFraction(part.fallback))

(* The columns of a group of rows: those of numbers hold numbers.          *)
IsGroup(group, fields) ==
  /\ DOMAIN fields \subseteq DOMAIN group
  /\ \A field \in DOMAIN fields :
       /\ IsFiniteSet(DOMAIN group[field])
       /\ IsNumeric(fields[field].type) =>
            \A row \in DOMAIN group[field] : group[field][row] # Null => group[field][row] \in Int
=============================================================================
