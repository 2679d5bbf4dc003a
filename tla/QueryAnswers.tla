---------------------------- MODULE QueryAnswers ----------------------------
(* The questions that are put to the program, and what it answers: which   *)
(* rows of a file an import template accepts, whether a semantic model     *)
(* resolves to a FROM clause, which rows the row policies let through,     *)
(* which rows a date filter means, what a metric is worth, what a dataset  *)
(* query and a chart return. A behaviour is one question, out of the sets  *)
(* the constants give, and its answer; or the versions of a dataset that   *)
(* gets calculated fields.                                                 *)
EXTENDS ChartQueries, JoinTopology, CalculatedFields

CONSTANTS
  NoAnswer,
  Templates,       \* definitions of import templates, by name
  Files,           \* for each of them, sequences of rows to import
  LengthOf(_), NoBound, NoSheet, NoColumn,
  Models,          \* semantic models
  Targets,         \* the import targets that are active
  PolicySets,      \* sets of row policies
  PolicyRows,      \* rows they are asked about
  Principal,
  Moments,         \* when a query with filters starts
  ScopeSets,       \* sequences of filter scopes
  FilterRows,      \* rows they are asked about
  GroupColumns,    \* columns a metric is asked of
  Formulas,
  QueryDataset, QueryRequests, QueryScopes,
  Boards,          \* dashboards, and the requests for their components
  BoardRequests,
  SeriesBoards,    \* dashboards with a series, asked for while data change
  SeriesRequests,
  QueryMoment,     \* when a dataset query or a chart query starts
  History,         \* what the tables hold: one import after the other
  Today            \* the last of them for all other questions

ChartsAsked ==
  {asked \in (Boards \X BoardRequests) \cup (SeriesBoards \X SeriesRequests) :
     ComponentRefusal(asked[1], asked[2]) = "none"}

ASSUME ChartsAssumption ==
  /\ \A asked \in ChartsAsked : IsSpec(ComponentOf(asked[1], asked[2]).spec)
  /\ \A scopes \in {ChartScopes(asked[1], asked[2]) : asked \in ChartsAsked},
        data \in Range(History) :
       \A rows \in FromClause(data) : ScopesAreKnown(scopes, ValuesOf(data, rows), QueryMoment)

Quality == INSTANCE QualityRules

ASSUME AnswersAssumption ==
  /\ Principal.workspace = QueryDataset.workspace
  /\ Today \in DOMAIN History

ASSUME ModelsAssumption == \A model \in Models : IsModel(model)

ASSUME ScopesAssumption ==
  /\ ClocksKeepMidnight
  /\ \A scopes \in ScopeSets, row \in FilterRows, now \in Moments :
       ScopesAreKnown(scopes, row, now)

ASSUME MetricsAssumption ==
  /\ Null # DivisionByZero
  /\ \A f \in Formulas : IsFormula(f)
  /\ \A group \in GroupColumns : IsGroup(group, QueryDataset.fields)

ASSUME FilesAssumption ==
  \A t \in DOMAIN Templates :
    Quality!IsTemplate(Templates[t]) /\ \A rows \in Files[t] : Quality!IsFile(rows)

ASSUME RequestsAssumption ==
  /\ \A data \in Range(History) : IsData(data)
  /\ \A request \in QueryRequests : IsRequest(request)
  /\ \A scopes \in QueryScopes :
       /\ Refusal(scopes, QueryMoment) = "none"
       /\ \A data \in Range(History) : \A rows \in FromClause(data) :
            ScopesAreKnown(scopes, ValuesOf(data, rows), QueryMoment)

(* What is not NULL is a number, in the order the database has for its     *)
(* type, and the calendar has the periods of the days.                     *)
GrainsOf(type) == {None} \cup IF type \in {"date", "datetime"} THEN Grains ELSE {}

ASSUME ValuesAssumption ==
  \A data \in Range(History), field \in DOMAIN QueryDataset.fields :
    LET type == QueryDataset.fields[field].type
    IN \A rows \in FromClause(data), grain \in GrainsOf(type) :
         LET value == Grained(type, grain, Cell(data, rows, field))
         IN value = Null \/ (value \in Int /\ Whole(value) # Null)

VARIABLES question, answer

vars == <<question, answer, fields>>

QueryData == History[Today]

(* When the statements of a chart request are executed: the count of the   *)
(* primary values, that of the series, the rows and their batches.         *)
Statements == {"primary", "series", "rows", "batches"}
AllToday == [statement \in Statements |-> Today]
Schedules ==
  {at \in [Statements -> DOMAIN History] :
     at["primary"] <= at["series"] /\ at["series"] <= at["rows"] /\ at["rows"] <= at["batches"]}

Questions ==
  (UNION {[topic : {"file"}, template : {t}, rows : Files[t], confirmed : BOOLEAN] :
            t \in DOMAIN Templates})
  \cup [topic : {"model"}, model : Models]
  \cup [topic : {"row"}, policies : PolicySets, row : PolicyRows]
  \cup [topic : {"filter"}, scopes : ScopeSets, now : Moments, row : FilterRows]
  \cup [topic : {"metric"}, formula : Formulas, column : GroupColumns]
  \cup [topic : {"query"}, request : QueryRequests, scopes : QueryScopes]
  \cup [topic : {"chart"}, board : Boards, request : BoardRequests, at : {AllToday}]
  \cup [topic : {"chart"}, board : SeriesBoards, request : SeriesRequests, at : Schedules]
  \cup [topic : {"fields"}]

Init == question \in Questions /\ answer = NoAnswer /\ FieldsInit

-----------------------------------------------------------------------------
(* QualityEvaluator, for the rows the worker reads.                        *)
AnswerFile(q) ==
  LET definition == Templates[q.template]
      rows == Quality!EvaluatedFile(definition, q.confirmed, q.rows)
  IN IF ~ Quality!DefinitionIsAccepted(definition) THEN <<"refused">>
     ELSE IF \E i \in DOMAIN rows : rows[i].raised THEN <<"failed">>
     ELSE <<"evaluated", rows>>

AnswerModel(model) ==
  [created |-> Creates(model, Targets),
   resolved |-> ContractAccepts(model) /\ Resolves(model, Targets),
   from |-> IF ContractAccepts(model) THEN Attached(model).from ELSE << >>]

AnswerFilter(q) ==
  LET refusal == Refusal(q.scopes, q.now)
      filters == ScopedFilters(q.scopes, q.now)
  IN [refusal |-> refusal,
      passes |-> /\ refusal = "none"
                 /\ \A i \in DOMAIN filters : FilterTruth(filters[i], q.row) = "true"]

AnswerMetric(q) ==
  IF FormulaIsAccepted(q.formula) /\ MetricIsValid(q.formula, {}, QueryDataset.fields)
    THEN MetricValue(q.formula, q.column) ELSE NoAnswer

(* execute_dataset_query: the answers the database may give.               *)
AnswerDatasetQuery(request, scopes, data, later) ==
  LET filters == ScopedFilters(scopes, QueryMoment)
      refusal == QueryRefusal(request, Principal, QueryDataset, filters)
  IN IF ~ QueryIsWellFormed(request) \/ refusal # "none" THEN {}
     ELSE Answers(request, Principal, QueryDataset, data, later, filters)

AnswerQuery(request, scopes) == AnswerDatasetQuery(request, scopes, QueryData, QueryData)

(* execute_dashboard_chart_query                                           *)
AnswerChart(q) ==
  LET component == ComponentOf(q.board, q.request)
      spec == component.spec
      request == CompiledRequest(component.type, spec)
      scopes == ChartScopes(q.board, q.request)
      Counts(counted, statement) ==
        LET data == History[q.at[statement]]
        IN {Counted(one, counted.limit) :
              one \in {a \in AnswerDatasetQuery(counted, scopes, data, data) : a.error = "none"}}
      counts ==
        {pair \in Counts(PrimaryCardinality(component.type, spec), "primary")
                 \X Counts(SeriesCardinality(spec), "series") :
           SeriesRefusal(component.type, spec, pair[1], pair[2]) = "none"}
      answers == {one \in AnswerDatasetQuery(request, scopes, History[q.at["rows"]],
                                             History[q.at["batches"]]) : one.error = "none"}
  IN IF PrepareRefusal(q.board, q.request, Principal, QueryDataset, QueryMoment) # "none" THEN {}
     ELSE IF spec.series = None THEN answers
     ELSE {one \in answers :
             \E pair \in counts : ResultRefusal(spec, one, pair[1] * pair[2]) = "none"}

AnswerOf(q) ==
  CASE q.topic = "file" -> AnswerFile(q)
    [] q.topic = "model" -> AnswerModel(q.model)
    [] q.topic = "row" -> PolicyTruth(q.policies, Principal, q.row)
    [] q.topic = "filter" -> AnswerFilter(q)
    [] q.topic = "metric" -> <<AnswerMetric(q)>>
    [] q.topic = "query" -> AnswerQuery(q.request, q.scopes)
    [] q.topic = "chart" -> AnswerChart(q)

Answer ==
  /\ answer = NoAnswer
  /\ question.topic # "fields"
  /\ answer' = AnswerOf(question)
  /\ UNCHANGED <<question, fields>>

ChangeFields == question.topic = "fields" /\ FieldsNext /\ UNCHANGED <<question, answer>>

Next == Answer \/ ChangeFields
Spec == Init /\ [][Next]_vars

Answered(topic) == question.topic = topic /\ answer # NoAnswer
-----------------------------------------------------------------------------
(* A row is accepted exactly when every column has a value of its type, or *)
(* is empty and may be, no rule that counts fails on it, and no row before *)
(* it, accepted or not, has its business key or a value that is unique:    *)
(* warnings count until they are confirmed, rules share no keys, and the   *)
(* chunk or the attempt in which a row is read makes no difference.        *)
KeptRowsAreValid ==
  Answered("file") /\ answer[1] = "evaluated" =>
    LET definition == Templates[question.template]
        values(i) == answer[2][i].values
        cells(i) == Quality!Cells(definition, question.rows[i])
        Counts(rule) == rule.severity = "error" \/ ~ question.confirmed
        counted == {rule \in Elements(definition.quality_rules) : Counts(rule)}
        keys == ({definition.business_key} \ {<< >>})
                \cup {<<rule.column>> : rule \in {r \in counted : r.type = "unique"}}
                \cup {rule.parameters.columns :
                         rule \in {r \in counted : r.type = "business_key"}}
        IsFilled(i, column) ==
          IF Quality!IsBlank(cells(i)[column.target]) THEN column.nullable
          ELSE values(i)[column.target][1] = column.type
        IsBroken(rule, i) ==
          /\ rule.type # "business_key"
          /\ Quality!Fails(rule, cells(i)[rule.column], values(i)[rule.column])
        SameKey(key, i, j) ==
          \A c \in Elements(key) :
            values(i)[c] # Quality!NoValue /\ values(i)[c] = values(j)[c]
    IN \A i \in DOMAIN question.rows :
         answer[2][i].accepted <=>
           /\ \A column \in Elements(definition.columns) : IsFilled(i, column)
           /\ \A rule \in counted : ~ IsBroken(rule, i)
           /\ \A key \in keys, j \in 1..(i - 1) : ~ SameKey(key, i, j)

(* A model that was created resolves exactly when its joins point away     *)
(* from the fact, in whatever order they are stored, and each join of the  *)
(* clause then attaches a new source to an earlier one.                    *)
JoinsResolve ==
  Answered("model") =>
    LET model == question.model
        from == answer.from
        Earlier(i) == {Fact(model).alias} \cup {from[j].right : j \in 1..(i - 1)}
    IN /\ answer.created => (answer.resolved <=> IsDirectedTree(model))
       /\ answer.resolved =>
            \A i \in DOMAIN from : from[i].left \in Earlier(i) /\ from[i].right \notin Earlier(i)

(* The predicate of the row policies is true of exactly the rows that an   *)
(* allowing policy of the reader meets, if there is one, and every denying *)
(* one fails: a value that is not there neither allows nor is let past a   *)
(* denial, and a reader with no policy of an active set reads nothing.     *)
PoliciesFilterRows ==
  Answered("row") =>
    (answer = "true" <=> MayRead(question.policies, Principal, question.row))

(* The half-open ranges the date filters resolve to hold the dates and     *)
(* moments of the named days, weeks and months of the workspace, across    *)
(* the change of its clocks, and the scopes are conjoined.                 *)
WindowsAreLocalDays ==
  Answered("filter") /\ answer.refusal = "none" =>
    (answer.passes <=> PassesScopes(question.scopes, question.row, question.now))

(* An accepted metric has a value or none in every group: it never divides *)
(* by zero, and one declared an integer is whole.                          *)
MetricsAreDefined ==
  Answered("metric") /\ answer[1] # NoAnswer =>
    /\ answer[1] # DivisionByZero
    /\ ResultType(question.formula, QueryDataset.fields) = "integer" =>
         answer[1] = Null \/ answer[1][2] = 1

-----------------------------------------------------------------------------
(* The lines a query should have: one for each combination of plain values *)
(* among the rows that may be read, or one for each row.                   *)
ReadableRows(request, scopes) ==
  Readable(request, Principal, QueryDataset, QueryData,
           LAMBDA row : PassesScopes(scopes, row, QueryMoment))

PlainValues(request, rows) ==
  [s \in Plain(request) |-> SelectedValue(s, QueryDataset, QueryData, rows)]

Expected(request, readable) ==
  IF request.metrics = << >> /\ ~ HasAggregate(request) THEN {{rows} : rows \in readable}
  ELSE IF request.group = << >> THEN {readable}
  ELSE {{other \in readable : PlainValues(request, other) = PlainValues(request, rows)} :
          rows \in readable}

IsExact(request, readable, one) ==
  LET expected == Expected(request, readable)
      LineOf(group) == Line(request, QueryDataset, QueryData, group)
      Times(line) == Cardinality({group \in expected : LineOf(group) = line})
      Shown(line) == Cardinality({i \in DOMAIN one.rows : one.rows[i] = line})
  IN /\ one.truncated <=> Cardinality(expected) > request.limit
     /\ Len(one.rows) = Min({request.limit, Cardinality(expected)})
     /\ \A i \in DOMAIN one.rows :
          /\ Shown(one.rows[i]) <= Times(one.rows[i])
          /\ \A group \in expected :
               Shown(LineOf(group)) < Times(LineOf(group)) =>
                 ~ Before(request.order, LineOf(group), one.rows[i])
     /\ one.batches = BatchesOf(QueryData, readable)

(* An answer has the first lines, in the order asked for, of the groups of *)
(* the rows the reader may read and the filters pass; it says whether some *)
(* are left out, and which import batches all of them come from.           *)
AnswersAreExact ==
  Answered("query") =>
    \A one \in answer :
      one.error = "none" =>
        IsExact(question.request, ReadableRows(question.request, question.scopes), one)

-----------------------------------------------------------------------------
(* The component a chart was drawn for.                                    *)
Component == ComponentOf(question.board, question.request)
Drew == Answered("chart") /\ answer # {}

(* A chart with a series dimension, and one by value with one dimension,   *)
(* has one answer only: ties are broken by the dimensions.                 *)
ChartsAreStable ==
  Drew =>
    LET spec == Component.spec
    IN Len(spec.dimensions) <= 1 /\ (spec.series # None \/ ByValue(Component.type, spec)) =>
         Cardinality(answer) = 1

(* Every column of a chart names the output that holds its field or metric,*)
(* so that metrics between field measures do not shift, and all that is not*)
(* aggregated is grouped.                                                  *)
ChartsAreComplete ==
  Drew =>
    LET spec == Component.spec
        request == CompiledRequest(Component.type, spec)
        Names(column, item) ==
          IF column.kind = "metric" THEN "metric" \in DOMAIN item /\ item.metric = column.id
          ELSE /\ "field" \in DOMAIN item
               /\ item.field = column.id /\ item.aggregate = column.aggregate
    IN /\ \A column \in Elements(ChartColumns(spec)) :
            \E item \in Elements(request.selections \o request.metrics) :
              item.output = column.alias /\ Names(column, item)
       /\ Cardinality(Elements(ChartColumns(spec))) = Len(OutputNames(request))
       /\ GroupsWhatItSelects(request)

(* A series chart draws every pair of a primary and a series value there   *)
(* is when its rows are read, among the rows that its filters pass, never a*)
(* part of a group, even if imports are published between its counts and   *)
(* its rows; and no more series than it may if none is.                    *)
SeriesAreWhole ==
  Drew /\ Component.spec.series # None =>
    LET spec == Component.spec
        request == CompiledRequest(Component.type, spec)
        scopes == ChartScopes(question.board, question.request)
        data == History[question.at["rows"]]
        Pair(rows) == <<SelectedValue(request.selections[1], QueryDataset, data, rows),
                        Cell(data, rows, spec.series.field)>>
        pairs == {Pair(rows) : rows \in Readable(request, Principal, QueryDataset, data,
                                 LAMBDA row : PassesScopes(scopes, row, QueryMoment))}
    IN \A one \in answer :
         /\ Len(one.rows) = Cardinality(pairs)
         /\ question.at["series"] = question.at["rows"] =>
              Cardinality({pair[2] : pair \in pairs}) <= spec.series.max
=============================================================================
