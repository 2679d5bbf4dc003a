---------------------------- MODULE ChartQueries ----------------------------
(* The query behind a component of a dashboard: the specification its      *)
(* configuration holds (chart_contracts.py), the dataset query it compiles *)
(* to, the check of how many series it would draw, and the answer          *)
(* (chart_query.py).                                                       *)
(*                                                                         *)
(* A specification is [dimensions, series, measures, sort, top, limit]:    *)
(* dimensions are [field, slot, grain], the series is None or [field,      *)
(* slot, max], measures are [kind, id, aggregate, slot], and top is 0      *)
(* where no top_n is set.                                                  *)
EXTENDS DatasetQueries, DashboardFilters

Dimension(field, slot, grain) == [field |-> field, slot |-> slot, grain |-> grain]
Series(field, slot, max) == [field |-> field, slot |-> slot, max |-> max]
FieldMeasure(field, aggregate, slot) ==
  [kind |-> "field", id |-> field, aggregate |-> aggregate, slot |-> slot]
MetricMeasure(metric, slot) ==
  [kind |-> "metric", id |-> metric, aggregate |-> None, slot |-> slot]
ChartSort(kind, id, aggregate, direction) ==
  [kind |-> kind, id |-> id, aggregate |-> aggregate, direction |-> direction]

(* The elements of a sequence at these positions.                          *)
Chosen(sequence, positions) ==
  LET chosen[n \in 0..Len(sequence)] ==
        IF n = 0 THEN << >>
        ELSE IF n \in positions THEN Append(chosen[n - 1], sequence[n]) ELSE chosen[n - 1]
  IN chosen[Len(sequence)]

SeriesOf(spec) == IF spec.series = None THEN << >> ELSE <<spec.series>>
Drawn(spec) == spec.dimensions \o SeriesOf(spec)

-----------------------------------------------------------------------------
(* ChartQuerySpec                                                          *)
Slots(spec) == Map(Drawn(spec) \o spec.measures, LAMBDA item : item.slot)

ChartOutputs(spec) ==
  {<<"field", item.field, None>> : item \in Elements(Drawn(spec))}
  \cup {<<measure.kind, measure.id, measure.aggregate>> : measure \in Elements(spec.measures)}

SpecIsAccepted(spec) ==
  /\ Len(spec.dimensions) <= MaxGroupFields /\ Len(spec.sort) <= MaxSorts
  /\ spec.limit \in 1..MaxRows
  /\ IsUnique(Slots(spec))
  /\ Len(Slots(spec)) <= MaxSelections
  /\ spec.series # None =>
       /\ spec.series.field \notin {dimension.field : dimension \in Elements(spec.dimensions)}
       /\ spec.top = 0
  /\ \A sort \in Elements(spec.sort) :
       <<sort.kind, sort.id, sort.aggregate>> \in ChartOutputs(spec)

(* _validate_component_query                                               *)
SingleValue == {"kpi", "target_progress"}
WithSeries == {"bar", "horizontal_bar", "stacked_bar", "line", "area"}

SlotsFit(type, spec) ==
  LET dimensions == Len(spec.dimensions)
      measures == Len(spec.measures)
  IN /\ spec.series # None => type \in WithSeries
     /\ CASE type = "kpi" -> dimensions = 0 /\ measures = 1
          [] type = "target_progress" -> dimensions = 0 /\ measures \in 1..2
          [] type = "detail_table" -> dimensions + measures >= 1
          [] type = "trend_indicator" ->
               dimensions = 1 /\ measures = 1 /\ spec.dimensions[1].grain # None
          [] type \in {"pie", "donut"} -> dimensions = 1 /\ measures = 1
          [] type = "stacked_bar" ->
               /\ dimensions = 1
               /\ IF spec.series # None THEN measures = 1 ELSE measures >= 2
          [] OTHER -> dimensions = 1 /\ measures >= 1

-----------------------------------------------------------------------------
(* _resolve_resources: hidden fields and metrics that are not active do    *)
(* not exist for a chart.                                                  *)
ShownFields(dataset) == {field \in DOMAIN dataset.fields : ~ dataset.fields[field].hidden}

Asked(spec, kind) == {m.id : m \in {measure \in Elements(spec.measures) : measure.kind = kind}}

ResourceRefusal(spec, principal, dataset) ==
  CASE dataset.workspace # principal.workspace \/ dataset.status = "deleted" ->
         "dataset_not_found"
    [] ~ HasPermission(principal, "datasets:query") -> "dataset_query_forbidden"
    [] ~ ({item.field : item \in Elements(Drawn(spec))} \cup Asked(spec, "field"))
         \subseteq ShownFields(dataset) -> "dataset_field_not_found"
    [] ~ Asked(spec, "metric") \subseteq {metric.id : metric \in ActiveMetrics(dataset)} ->
         "metric_not_found"
    [] OTHER -> "none"

-----------------------------------------------------------------------------
(* The sorts: those of the specification or the default, what Top N asks   *)
(* of them, and the ones that break ties.                                  *)
GrainOf(spec, field) ==
  LET same == {i \in DOMAIN spec.dimensions : spec.dimensions[i].field = field}
  IN IF same = {} THEN None
     ELSE spec.dimensions[CHOOSE i \in same : \A j \in same : j <= i].grain

CompiledSort(spec, sort) ==
  IF sort.kind = "metric" THEN MetricSort(sort.id, sort.direction)
  ELSE FieldSort(sort.id, sort.aggregate,
                 IF sort.aggregate = None THEN GrainOf(spec, sort.id) ELSE None, sort.direction)

MeasureSort(measure, direction) ==
  IF measure.kind = "metric" THEN MetricSort(measure.id, direction)
  ELSE FieldSort(measure.id, measure.aggregate, None, direction)

DimensionSort(dimension) == FieldSort(dimension.field, None, dimension.grain, "asc")

ByValue(type, spec) == type = "ranking_table" \/ spec.top > 0

FirstSorts(type, spec) ==
  IF spec.sort # << >> THEN Map(spec.sort, LAMBDA sort : CompiledSort(spec, sort))
  ELSE IF ByValue(type, spec) THEN <<MeasureSort(spec.measures[1], "desc")>>
  ELSE IF spec.dimensions # << >> THEN <<DimensionSort(spec.dimensions[1])>> ELSE << >>

StableSortsAsGiven(type, spec, sorts) == sorts

StableSorts(type, spec, sorts) ==
  LET primary == spec.dimensions[1]
      last == <<DimensionSort(primary)>>
              \o Map(SeriesOf(spec), LAMBDA s : FieldSort(s.field, None, None, "asc"))
      fields == {sort.field : sort \in Elements(last)}
      retained == {i \in DOMAIN sorts : ~ (/\ sorts[i].kind = "field"
                                          /\ sorts[i].aggregate = None
                                          /\ sorts[i].field \in fields)}
  IN IF spec.dimensions = << >> \/ (spec.series = None /\ ~ ByValue(type, spec)) THEN sorts
     ELSE Chosen(sorts, retained) \o last

IsValueSort(spec, sort) ==
  \E measure \in Elements(spec.measures) : MeasureSort(measure, sort.direction) = sort

(* compile_dashboard_chart_query                                           *)
Alias(kind, i) == <<kind, i>>

Measures(spec, kind) ==
  Chosen([i \in DOMAIN spec.measures |-> <<spec.measures[i], Alias("value", i)>>],
         {i \in DOMAIN spec.measures : spec.measures[i].kind = kind})

CompiledRequest(type, spec) ==
  [selections |->
     [i \in DOMAIN spec.dimensions |->
        Selection(spec.dimensions[i].field, Alias("dimension", i), None, spec.dimensions[i].grain)]
     \o Map(SeriesOf(spec), LAMBDA s : Selection(s.field, Alias("series", 1), None, None))
     \o Map(Measures(spec, "field"),
            LAMBDA pair : Selection(pair[1].id, pair[2], pair[1].aggregate, None)),
   metrics |-> Map(Measures(spec, "metric"), LAMBDA pair : MetricSelection(pair[1].id, pair[2])),
   filter |-> None,
   group |-> IF spec.measures = << >> THEN << >> ELSE Map(Drawn(spec), LAMBDA d : d.field),
   order |-> StableSorts(type, spec, FirstSorts(type, spec)),
   limit |-> IF type \in SingleValue THEN 1 ELSE IF spec.top > 0 THEN spec.top ELSE spec.limit]

(* The columns of the answer, in the order of the slots.                   *)
ChartColumn(slot, alias, kind, id, aggregate) ==
  [slot |-> slot, alias |-> alias, kind |-> kind, id |-> id, aggregate |-> aggregate]

ChartColumnsByOutput(spec) ==
  LET outputs == CompiledRequest("bar", spec)
  IN [i \in DOMAIN Slots(spec) |->
        LET items == Drawn(spec) \o spec.measures
            kind == IF i <= Len(Drawn(spec)) THEN "field" ELSE items[i].kind
        IN ChartColumn(Slots(spec)[i], OutputNames(outputs)[i], kind,
                       IF i <= Len(Drawn(spec)) THEN items[i].field ELSE items[i].id,
                       IF i <= Len(Drawn(spec)) THEN None ELSE items[i].aggregate)]

ChartColumns(spec) ==
  [i \in DOMAIN spec.dimensions |->
     ChartColumn(spec.dimensions[i].slot, Alias("dimension", i), "field",
                 spec.dimensions[i].field, None)]
  \o Map(SeriesOf(spec), LAMBDA s : ChartColumn(s.slot, Alias("series", 1), "field", s.field, None))
  \o [i \in DOMAIN spec.measures |->
        LET measure == spec.measures[i]
        IN ChartColumn(measure.slot, Alias("value", i), measure.kind, measure.id,
                       measure.aggregate)]

RolesFit(spec, fields) ==
  /\ \A item \in Elements(Drawn(spec)) : fields[item.field].role = "dimension"
  /\ \A id \in Asked(spec, "field") : fields[id].role = "measure"

ChartRefusal(type, spec, dataset) ==
  CASE ~ RolesFit(spec, dataset.fields) -> "chart_slot_invalid"
    [] \E d \in Elements(spec.dimensions) :
         d.grain # None /\ dataset.fields[d.field].type \notin {"date", "datetime"} ->
         "invalid_time_grain_type"
    [] spec.sort = << >> /\ ByValue(type, spec) /\ spec.measures = << >> -> "chart_slot_invalid"
    [] spec.top > 0 /\ spec.dimensions = << >> -> "chart_slot_invalid"
    [] spec.top > 0 /\ ~ IsValueSort(spec, FirstSorts(type, spec)[1]) ->
         "top_n_requires_value_sort"
    [] spec.top > 0 /\ FirstSorts(type, spec)[1].direction # "desc" ->
         "top_n_requires_descending_sort"
    [] ~ QueryIsWellFormed(CompiledRequest(type, spec)) -> "chart_config_invalid"
    [] OTHER -> "none"

-----------------------------------------------------------------------------
(* prepare_dashboard_chart_query. The dashboard a reader gets is [version, *)
(* capabilities, filter, pages]; a page is [filter, components], a         *)
(* component [type, spec, filter]. The request is [version, page,          *)
(* component, preview, runtime].                                           *)
ComponentOf(dashboard, request) ==
  IF request.preview # None THEN request.preview
  ELSE dashboard.pages[request.page].components[request.component]

ComponentRefusal(dashboard, request) ==
  CASE "view" \notin dashboard.capabilities -> "dashboard_forbidden"
    [] dashboard.version # request.version -> "dashboard_version_conflict"
    [] request.page \notin DOMAIN dashboard.pages -> "dashboard_page_not_found"
    [] request.preview = None
       /\ request.component \notin DOMAIN dashboard.pages[request.page].components ->
         "dashboard_component_not_found"
    [] ComponentOf(dashboard, request).type = "text" -> "chart_component_not_queryable"
    [] ~ SpecIsAccepted(ComponentOf(dashboard, request).spec)
       \/ ~ SlotsFit(ComponentOf(dashboard, request).type, ComponentOf(dashboard, request).spec) ->
         "chart_config_invalid"
    [] request.preview # None /\ "edit" \notin dashboard.capabilities -> "dashboard_forbidden"
    [] OTHER -> "none"

ChartScopes(dashboard, request) ==
  EffectiveScopes(<<dashboard.filter, dashboard.pages[request.page].filter,
                    ComponentOf(dashboard, request).filter>>, request.runtime)

PrepareRefusal(dashboard, request, principal, dataset, now) ==
  LET component == ComponentOf(dashboard, request)
      scopes == ChartScopes(dashboard, request)
  IN CASE ComponentRefusal(dashboard, request) # "none" -> ComponentRefusal(dashboard, request)
       [] Refusal(scopes, now) # "none" -> Refusal(scopes, now)
       [] ResourceRefusal(component.spec, principal, dataset) # "none" ->
            ResourceRefusal(component.spec, principal, dataset)
       [] OTHER -> ChartRefusal(component.type, component.spec, dataset)

-----------------------------------------------------------------------------
(* _group_cardinality and _validate_series_cardinality                     *)
CardinalityRequest(field, grain, limit) ==
  [selections |-> <<Selection(field, Alias("key", 1), None, grain),
                    Selection(field, Alias("count", 1), "count", None)>>,
   metrics |-> << >>, filter |-> None, group |-> <<field>>, order |-> << >>, limit |-> limit]

PrimaryCardinality(type, spec) ==
  CardinalityRequest(spec.dimensions[1].field, spec.dimensions[1].grain,
                     CompiledRequest(type, spec).limit)

SeriesCardinality(spec) == CardinalityRequest(spec.series.field, None, spec.series.max)

Counted(answer, limit) == IF answer.truncated THEN limit + 1 ELSE Len(answer.rows)

SeriesRefusal(type, spec, primaries, series) ==
  CASE series > spec.series.max -> "series_cardinality_exceeded"
    [] primaries * series > CompiledRequest(type, spec).limit -> "series_result_limit_exceeded"
    [] OTHER -> "none"

(* What execute_dashboard_chart_query asks of the answer afterwards.       *)
ResultRefusalByCount(spec, answer, bound) ==
  IF spec.series # None /\ Len(answer.rows) > bound
    THEN "series_cardinality_evidence_stale" ELSE "none"

ResultRefusal(spec, answer, bound) ==
  CASE spec.series # None /\ answer.truncated -> "series_result_truncated"
    [] spec.series # None /\ Len(answer.rows) > bound -> "series_cardinality_evidence_stale"
    [] OTHER -> "none"

-----------------------------------------------------------------------------
(* What a specification is, before anything of it is checked.              *)
IsSpec(spec) ==
  /\ spec.dimensions \in Seq(Elements(spec.dimensions))
  /\ spec.measures \in Seq(Elements(spec.measures))
  /\ spec.sort \in Seq(Elements(spec.sort))
  /\ \A dimension \in Elements(spec.dimensions) : dimension.grain \in Grains \cup {None}
  /\ \A measure \in Elements(spec.measures) :
       \/ measure.kind = "field" /\ measure.aggregate # None
       \/ measure.kind = "metric"
  /\ spec.series # None => spec.series.max \in Nat
=============================================================================
