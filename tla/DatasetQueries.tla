--------------------------- MODULE DatasetQueries ---------------------------
(* A query of a dataset: the shape of the request (contracts.py), what     *)
(* validate_dataset_query resolves and refuses (query_service.py), the     *)
(* statement the compiler builds (compiler.py) and what the database and   *)
(* execute_dataset_query answer.                                           *)
(*                                                                         *)
(* A request is [selections, metrics, filter, group, order, limit], its    *)
(* lists sequences. A dataset is [workspace, status, model, fields,        *)
(* metrics, policies]: fields maps the fields of the version to [type,     *)
(* role, hidden], metrics is a set of [id, status, formula, dimensions].   *)
(*                                                                         *)
(* The data is [tables, fact, from, source]: the rows of each source, the  *)
(* joins of the FROM clause in order (JoinTopology), and the source of     *)
(* each field. A row is [active, batch, values]. Numbers an answer holds   *)
(* are fractions (MetricFormulas).                                         *)
EXTENDS MetricFormulas, Calendar, SequencesExt

CONSTANTS
  None,           \* no filter, no aggregate, no grain
  MaxSelections,  \* 100 in the code
  MaxGroupFields, \* 20
  MaxSorts,       \* 10
  MaxRows,        \* 10 000
  MaxBatches      \* 1000

ASSUME QueriesAssumption ==
  {MaxSelections, MaxGroupFields, MaxSorts, MaxRows, MaxBatches} \subseteq Nat

Selection(field, output, aggregate, grain) ==
  [field |-> field, output |-> output, aggregate |-> aggregate, grain |-> grain]
MetricSelection(metric, output) == [metric |-> metric, output |-> output]
FieldSort(field, aggregate, grain, direction) ==
  [kind |-> "field", field |-> field, aggregate |-> aggregate, grain |-> grain,
   direction |-> direction]
MetricSort(metric, direction) ==
  [kind |-> "metric", metric |-> metric, direction |-> direction]

Elements(sequence) == {sequence[i] : i \in DOMAIN sequence}
IsUnique(sequence) == \A i, j \in DOMAIN sequence : sequence[i] = sequence[j] => i = j
Map(sequence, Op(_)) == [i \in DOMAIN sequence |-> Op(sequence[i])]

Signature(item) == <<item.field, item.aggregate, item.grain>>
Signatures(request) == Map(request.selections, Signature)
OutputNames(request) ==
  Map(request.selections \o request.metrics, LAMBDA item : item.output)
MetricIds(request) == Map(request.metrics, LAMBDA item : item.metric)

Plain(request) == {s \in Elements(request.selections) : s.aggregate = None}
HasAggregate(request) ==
  \E s \in Elements(request.selections) : s.aggregate # None

Predicated(filter) == IF filter = None THEN 0 ELSE PredicateCount(filter)

-----------------------------------------------------------------------------
(* QueryRequest and DatasetQueryRequest.                                   *)
SortsAreSelected(request) ==
  \A sort \in Elements(request.order) :
    IF sort.kind = "field" THEN Signature(sort) \in Elements(Signatures(request))
    ELSE sort.metric \in Elements(MetricIds(request))

GroupsArePlain(request) ==
  {s.field : s \in Plain(request)} = Elements(request.group)

QueryIsWellFormed(request) ==
  /\ request.selections \o request.metrics # << >>
  /\ Len(request.selections) + Len(request.metrics) <= MaxSelections
  /\ Len(request.group) <= MaxGroupFields /\ Len(request.order) <= MaxSorts
  /\ request.limit \in 1..MaxRows
  /\ IsUnique(request.group) /\ IsUnique(OutputNames(request))
  /\ IsUnique(MetricIds(request)) /\ IsUnique(Signatures(request))
  /\ \A s \in Elements(request.selections) : s.aggregate = None \/ s.grain = None
  /\ SortsAreSelected(request)
  /\ IF request.metrics # << >> \/ HasAggregate(request)
       THEN GroupsArePlain(request) ELSE request.group = << >>
  /\ Predicated(request.filter) <= MaxPredicates

-----------------------------------------------------------------------------
(* validate_dataset_query: what it refuses. Of several reasons the first   *)
(* is the one the code names; no property tells them apart.                *)
HasPermission(principal, permission) ==
  principal.admin \/ permission \in principal.permissions

FieldsOf(filter) == IF filter = None THEN {} ELSE FilterFields(filter)

Referenced(request, scoped) ==
  {s.field : s \in Elements(request.selections)} \cup Elements(request.group)
  \cup {s.field : s \in {o \in Elements(request.order) : o.kind = "field"}}
  \cup FieldsOf(request.filter)
  \cup UNION {FilterFields(filter) : filter \in Elements(scoped)}

ActiveMetrics(dataset) == {metric \in dataset.metrics : metric.status = "active"}
MetricOf(dataset, id) == CHOOSE metric \in dataset.metrics : metric.id = id

(* _resolve_metrics                                                        *)
MetricRefusal(request, dataset) ==
  LET asked == Elements(MetricIds(request))
      AskedFormulas == {MetricOf(dataset, id).formula : id \in asked}
  IN CASE ~ asked \subseteq {metric.id : metric \in ActiveMetrics(dataset)} ->
            "metric_not_found"
       [] \E id \in asked :
            ~ Elements(request.group) \subseteq MetricOf(dataset, id).dimensions ->
            "metric_group_by_not_allowed"
       [] \E formula \in AskedFormulas : ~ FormulaFields(formula) \subseteq DOMAIN dataset.fields ->
            "metric_field_not_found"
       [] OTHER -> "none"

(* compile_filter and the checks of _validate_request: a min or a max of   *)
(* any type is taken unless the query has a metric.                        *)
TextIsString(filter, fields) ==
  \A atom \in Atoms(filter) : atom.kind = "text" => fields[atom.field].type = "string"

NumericOnly(request) ==
  IF request.metrics = << >> THEN {"sum", "avg"} ELSE {"sum", "avg", "min", "max"}

CompileRefusal(request, fields, scoped) ==
  LET filters == Elements(scoped) \cup ({request.filter} \ {None})
      counts[i \in 0..Len(scoped)] ==
        IF i = 0 THEN Predicated(request.filter)
        ELSE counts[i - 1] + PredicateCount(scoped[i])
  IN CASE counts[Len(scoped)] > MaxPredicates -> "too_many_filter_predicates"
       [] \E filter \in filters : ~ TextIsString(filter, fields) -> "invalid_text_filter_type"
       [] \E s \in Elements(request.selections) :
            s.aggregate \in NumericOnly(request) /\ ~ IsNumeric(fields[s.field].type) ->
            "invalid_aggregate_type"
       [] \E s \in Elements(request.selections) :
            s.grain # None /\ fields[s.field].type \notin {"date", "datetime"} ->
            "invalid_time_grain_type"
       [] OTHER -> "none"

QueryRefusal(request, principal, dataset, scoped) ==
  CASE dataset.workspace # principal.workspace \/ dataset.status = "deleted" ->
         "dataset_not_found"
    [] ~ HasPermission(principal, "datasets:query") -> "dataset_query_forbidden"
    [] dataset.model = "deleted" -> "dataset_model_not_found"
    [] MetricRefusal(request, dataset) # "none" -> MetricRefusal(request, dataset)
    [] ~ Referenced(request, scoped) \subseteq DOMAIN dataset.fields ->
         "dataset_field_not_found"
    [] ~ PoliciesCompile(dataset.policies, principal, DOMAIN dataset.fields) ->
         "row_policy_configuration_invalid"
    [] OTHER -> CompileRefusal(request, dataset.fields, scoped)

-----------------------------------------------------------------------------
(* The FROM clause: the combinations of rows it makes, as functions from   *)
(* sources to the numbers of rows, 0 where an outer join found none. The   *)
(* mark _active of a dimension is a condition of its join, that of the     *)
(* fact one of the WHERE clause.                                           *)
Cell(data, rows, field) ==
  LET alias == data.source[field]
  IN IF rows[alias] = 0 THEN Null ELSE data.tables[alias][rows[alias]].values[field]

Matching(data, rows, join) ==
  {n \in DOMAIN data.tables[join.right] :
     LET row == data.tables[join.right][n]
     IN /\ row.active
        /\ \A key \in Elements(join.keys) :
             Cell(data, rows, key[1]) # Null /\ row.values[key[2]] = Cell(data, rows, key[1])}

Widened(data, rows, join) ==
  LET found == Matching(data, rows, join)
      numbers == IF found = {} /\ join.outer THEN {0} ELSE found
  IN {[alias \in DOMAIN rows \cup {join.right} |->
         IF alias = join.right THEN n ELSE rows[alias]] : n \in numbers}

FromClause(data) ==
  LET clause[n \in 0..Len(data.from)] ==
        IF n = 0 THEN {[alias \in {data.fact} |-> row] : row \in DOMAIN data.tables[data.fact]}
        ELSE UNION {Widened(data, rows, data.from[n]) : rows \in clause[n - 1]}
  IN clause[Len(data.from)]

ValuesOf(data, rows) == [field \in DOMAIN data.source |-> Cell(data, rows, field)]

(* The WHERE clause.                                                       *)
VisibleUnscoped(request, principal, dataset, data, scoped) ==
  {rows \in FromClause(data) :
     /\ data.tables[data.fact][rows[data.fact]].active
     /\ PolicyTruth(dataset.policies, principal, ValuesOf(data, rows)) = "true"
     /\ request.filter # None => FilterTruth(request.filter, ValuesOf(data, rows)) = "true"}

Visible(request, principal, dataset, data, scoped) ==
  LET filters == Elements(scoped) \cup ({request.filter} \ {None})
  IN {rows \in FromClause(data) :
        /\ data.tables[data.fact][rows[data.fact]].active
        /\ PolicyTruth(dataset.policies, principal, ValuesOf(data, rows)) = "true"
        /\ \A filter \in filters : FilterTruth(filter, ValuesOf(data, rows)) = "true"}

BatchesOf(data, visible) ==
  {data.tables[source[2]][source[1][source[2]]].batch :
     source \in {pair \in visible \X DOMAIN data.tables : pair[1][pair[2]] # 0}}

-----------------------------------------------------------------------------
(* The value of a field at a grain; a moment is taken in UTC.              *)
Grained(type, grain, value) ==
  IF value = Null \/ grain = None THEN value
  ELSE Truncated(grain, IF type = "date" THEN value ELSE value \div 24)

SelectedValue(s, dataset, data, rows) ==
  Grained(dataset.fields[s.field].type, s.grain, Cell(data, rows, s.field))

(* compile: the GROUP BY clause has the last plain selection of a field.   *)
GroupedBy(request, field) ==
  SelectLastInSeq(request.selections, LAMBDA s : s.field = field /\ s.aggregate = None)

GroupSelections(request) ==
  {request.selections[GroupedBy(request, field)] : field \in Elements(request.group)}

(* What the database takes: whatever is not aggregated is grouped.         *)
GroupsWhatItSelects(request) ==
  request.group # << >> => Plain(request) \subseteq GroupSelections(request)

Groups(request, dataset, data, visible) ==
  LET Key(rows) == [s \in GroupSelections(request) |-> SelectedValue(s, dataset, data, rows)]
  IN IF request.metrics = << >> /\ ~ HasAggregate(request) THEN {{rows} : rows \in visible}
     ELSE IF request.group = << >> THEN {visible}
     ELSE {{other \in visible : Key(other) = Key(rows)} : rows \in visible}

Column(data, group, field) == [rows \in group |-> Cell(data, rows, field)]

FieldValue(s, dataset, data, group) ==
  LET value == SelectedValue(s, dataset, data, CHOOSE rows \in group : TRUE)
  IN IF s.aggregate # None THEN AggregateValue(s.aggregate, Column(data, group, s.field))
     ELSE IF value = Null THEN Null ELSE Whole(value)

MetricAnswer(item, dataset, data, group) ==
  MetricValue(MetricOf(dataset, item.metric).formula,
              [field \in DOMAIN data.source |-> Column(data, group, field)])

(* One row of the answer, from the signatures and metrics to their values. *)
MetricKey(id) == <<id>>

Line(request, dataset, data, group) ==
  [key \in Elements(Signatures(request)) \cup {MetricKey(id) : id \in Elements(MetricIds(request))} |->
     IF Len(key) = 1 THEN MetricAnswer([metric |-> key[1]], dataset, data, group)
     ELSE FieldValue([field |-> key[1], aggregate |-> key[2], grain |-> key[3]],
                     dataset, data, group)]

(* compile_sort_terms: what is NULL comes last in either direction.        *)
Less(a, b) == a[1] * b[2] < b[1] * a[2]

Precedes(a, b, direction) ==
  /\ a # Null
  /\ b = Null \/ (IF direction = "asc" THEN Less(a, b) ELSE Less(b, a))

SortKey(sort) == IF sort.kind = "field" THEN Signature(sort) ELSE MetricKey(sort.metric)

PrecedesBy(sort, line, other) ==
  Precedes(line[SortKey(sort)], other[SortKey(sort)], sort.direction)

Before(order, line, other) ==
  \E i \in DOMAIN order :
    PrecedesBy(order[i], line, other) /\ \A j \in 1..(i - 1) : ~ PrecedesBy(order[j], other, line)

(* execute_dataset_query asks for one row more than the limit and, by a    *)
(* later statement, for the batches. The answers are all those the database*)
(* may give: it orders ties as it likes.                                   *)
Orders(order, lines) ==
  {sequence \in SetToSeqs(DOMAIN lines) :
     \A i, j \in DOMAIN sequence :
       i < j => ~ Before(order, lines[sequence[j]], lines[sequence[i]])}

Answers(request, principal, dataset, data, later, scoped) ==
  LET visible == Visible(request, principal, dataset, data, scoped)
      groups == Groups(request, dataset, data, visible)
      lines == [group \in groups |-> Line(request, dataset, data, group)]
      batches == BatchesOf(later, Visible(request, principal, dataset, later, scoped))
      Shown(sequence) == SubSeq(sequence, 1, Min({request.limit, Len(sequence)}))
  IN CASE ~ GroupsWhatItSelects(request) -> {[error |-> "database_error"]}
       [] Cardinality(batches) > MaxBatches -> {[error |-> "source_batch_limit_exceeded"]}
       [] OTHER ->
           {[error |-> "none",
             rows |-> Map(Shown(sequence), LAMBDA group : lines[group]),
             truncated |-> Cardinality(groups) > request.limit,
             batches |-> batches] : sequence \in Orders(request.order, lines)}

-----------------------------------------------------------------------------
(* The reference: an answer counts every group of the rows the principal   *)
(* may read once, and its first rows are the first of them.                *)
Readable(request, principal, dataset, data, MayPass(_)) ==
  {rows \in FromClause(data) :
     /\ data.tables[data.fact][rows[data.fact]].active
     /\ MayRead(dataset.policies, principal, ValuesOf(data, rows))
     /\ request.filter # None => Meets(request.filter, ValuesOf(data, rows))
     /\ MayPass(ValuesOf(data, rows))}

-----------------------------------------------------------------------------
(* What the data and a request are, before anything of them is checked.    *)
IsData(data) ==
  /\ data.fact \in DOMAIN data.tables
  /\ \A alias \in DOMAIN data.tables :
       data.tables[alias] \in Seq(Elements(data.tables[alias]))
  /\ data.from \in Seq(Elements(data.from))
  /\ \A join \in Elements(data.from) : join.right \in DOMAIN data.tables

IsRequest(request) ==
  /\ request.selections \in Seq(Elements(request.selections))
  /\ request.metrics \in Seq(Elements(request.metrics))
  /\ request.order \in Seq(Elements(request.order))
=============================================================================
