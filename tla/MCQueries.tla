----------------------------- MODULE MCQueries -----------------------------
(* The questions TLC asks of QueryAnswers.                                 *)
EXTENDS QueryAnswers

CONSTANTS total, share, idle  \* the metrics of the dataset

(* Templates, and files of up to three rows out of a few for each.         *)
MCText(form, content) == <<"text", <<form, content, FALSE>>>>
MCPadded(form, content) == <<"text", <<form, content, TRUE>>>>
MCBlank == <<"text", <<"space", 0, TRUE>>>>
MCLengthOf(text) == (IF text[1] = "word" THEN 3 ELSE 1) + (IF text[3] THEN 1 ELSE 0)

MCColumn(n, target, type, nullable) ==
  [source |-> n, target |-> target, type |-> type, nullable |-> nullable]
MCRule(name, type, severity, column, parameters) ==
  [name |-> name, type |-> type, severity |-> severity, column |-> column,
   parameters |-> parameters]
MCBounds(low, high) == [minimum |-> low, maximum |-> high]
MCDefinition(columns, key, rules) ==
  [file_kind |-> "csv", sheet |-> NoSheet, columns |-> columns, business_key |-> key,
   quality_rules |-> rules]

MCOrders ==
  MCDefinition(<<MCColumn(1, "number", "integer", FALSE), MCColumn(2, "amount", "decimal", TRUE)>>,
    <<"number">>,
    <<MCRule("some", "range", "error", "amount", MCBounds(1, NoBound)),
      MCRule("once", "unique", "warning", "amount", {}),
      MCRule("given", "required", "warning", "amount", {})>>)
MCSwapped == [MCOrders EXCEPT !.columns = <<[@[1] EXCEPT !.source = 2], [@[2] EXCEPT !.source = 1]>>]
MCOrderRows ==
  {<<n, a>> : n \in {MCText("digits", 1), <<"integer", 1>>, MCPadded("digits", 2)},
              a \in {MCText("digits", 2), MCText("point", 2)}}
  \cup {<<MCText("zeros", 1), MCText("digits", 3)>>, <<MCBlank, MCText("digits", 1)>>,
        <<<<"float", 1>>, MCText("zeros", 4)>>, <<MCText("digits", 3)>>,
        <<MCText("digits", 3), MCText("digits", 0)>>, <<MCText("digits", 4), MCText("nan", 0)>>,
        <<<<"boolean", TRUE>>, <<"boolean", TRUE>>>>}

MCFlags ==
  MCDefinition(<<MCColumn(1, "flag", "boolean", TRUE), MCColumn(2, "on", "date", TRUE)>>, << >>,
    <<MCRule("yes", "enum", "warning", "flag", [values |-> <<<<"number", 1>>>>]),
      MCRule("day", "data_type", "error", "on", [expected |-> "date"]),
      MCRule("pair", "business_key", "error", NoColumn, [columns |-> <<"flag", "on">>]),
      MCRule("any", "business_key", "warning", NoColumn, [columns |-> <<"flag">>])>>)
MCFlagRows ==
  {<<f, d>> : f \in {<<"boolean", TRUE>>, MCText("word", "no"), MCText("digits", 1)},
              d \in {MCText("day", 1), <<"datetime", <<1, 5>>>>, MCText("moment", <<1, 5>>)}}
  \cup {<<MCText("word", "abc"), <<"date", 1>>>>, <<MCBlank, <<"none">>>>}

MCNotes ==
  MCDefinition(<<MCColumn(1, "left", "string", FALSE), MCColumn(2, "right", "string", TRUE),
                 MCColumn(3, "at", "datetime", TRUE)>>, << >>,
    <<MCRule("l", "unique", "error", "left", {}), MCRule("r", "unique", "error", "right", {}),
      MCRule("short", "length", "warning", "left", MCBounds(NoBound, 3)),
      MCRule("form", "regex", "error", "right", [pattern |-> {<<"word", "abc", FALSE>>}]),
      MCRule("listed", "enum", "warning", "right",
             [values |-> <<<<"string", <<"word", "abc", FALSE>>>>, <<"number", 1>>>>])>>)
MCNoteRows ==
  {<<l, r, t>> : l \in {MCText("word", "abc"), MCPadded("word", "abc")},
                 r \in {<<"none">>, MCText("word", "abc"), MCText("digits", 1)},
                 t \in {MCText("day", 1)}}
  \cup {<<MCText("word", "xyz"), <<"none">>, <<"integer", 1>>>>,
        <<<<"boolean", TRUE>>, <<"none">>, <<"date", 2>>>>, << >>}

MCTemplates ==
  [orders |-> MCOrders, swapped |-> MCSwapped, flags |-> MCFlags, notes |-> MCNotes,
   sheet |-> [MCOrders EXCEPT !.sheet = "one"],
   doubled |-> [MCOrders EXCEPT !.quality_rules = <<@[1], [@[2] EXCEPT !.name = "some"]>>],
   unmapped |-> [MCOrders EXCEPT !.business_key = <<"flag">>],
   unordered |-> [MCOrders EXCEPT !.quality_rules =
                    <<[@[1] EXCEPT !.parameters = MCBounds(2, 1)]>>]]
MCNoTemplates == << >>
MCRowsOf(template) ==
  CASE template \in {"flags"} -> MCFlagRows
    [] template \in {"notes"} -> MCNoteRows
    [] OTHER -> MCOrderRows
MCFiles ==
  [t \in DOMAIN MCTemplates |->
     UNION {[1..n -> MCRowsOf(t)] : n \in IF t \in {"orders", "flags", "notes"} THEN 0..3 ELSE 1..1}]

-----------------------------------------------------------------------------
(* Models: a fact and up to three dimensions on targets of their own, one  *)
(* key for each pair of targets, and a key of another type for one pair.   *)
MCAliases == <<"fact", "shop", "area", "land">>
MCColumns == {"fact", "shop", "area", "land", "note"}
MCColumnTarget == [c \in MCColumns |-> IF c = "note" THEN "shop" ELSE c]
MCColumnType == [c \in MCColumns |-> IF c = "note" THEN "string" ELSE "integer"]

MCSource(alias) ==
  [alias |-> alias, target |-> alias, role |-> IF alias = "fact" THEN "fact" ELSE "dimension"]
MCJoin(left, right, column) == [left |-> left, right |-> right, keys |-> << <<column, right>> >>]
MCJoins(aliases) ==
  {MCJoin(l, r, l) : l \in aliases, r \in aliases} \cup {MCJoin("shop", "area", "note")}

MCModel(order, n, joins) ==
  [sources |-> [i \in 1..n |-> MCSource(MCAliases[order[i]])], joins |-> joins]
MCModels ==
  {MCModel(order, 3, joins) : order \in {<<1, 2, 3>>, <<2, 1, 3>>},
                              joins \in [1..2 -> MCJoins({"fact", "shop", "area"})]}
  \cup {MCModel(<<1, 2, 3, 4>>, 4, joins) :
          joins \in {js \in [1..3 -> MCJoins({"fact", "shop", "area", "land"})] :
                       \A i \in 1..3 : js[i].left # js[i].right}}

-----------------------------------------------------------------------------
(* Policies on the fields of the dataset below.                            *)
Of(user, status, effect, expression) ==
  [status |-> status, effect |-> effect, users |-> {user}, roles |-> {}, expression |-> expression]

MCExpressions ==
  {Comparison("region", "eq", 1), Comparison("region", "ne", 1), NullTest("kind", TRUE),
   Membership("region", "not_in", {1, 2}),
   Logical("or", {Comparison("region", "eq", 1), Comparison("kind", "gt", 1)}),
   Logical("and", {Comparison("region", "lte", 1), Pattern("kind", {2})})}
MCPolicies ==
  {Of("reader", "active", effect, e) : effect \in {"allow", "deny"}, e \in MCExpressions}
  \cup {Of("other", "active", "allow", Comparison("region", "eq", 1)),
        Of("reader", "retired", "allow", Comparison("region", "eq", 1))}
MCPolicySets == {{}} \cup {{p, r} : p \in MCPolicies, r \in MCPolicies}
MCPolicyRows == [{"region", "kind"} -> {Null, 1, 2}]
MCPrincipal ==
  [user |-> "reader", roles |-> {"viewer"}, workspace |-> "w", admin |-> FALSE,
   permissions |-> {"datasets:query"}]

-----------------------------------------------------------------------------
(* 2022 and 2023; day 0 is 26 December 2022. The clocks go back at one in  *)
(* the morning of day 7, so that its midnight comes twice.                 *)
MonthStarts == <<-359, -328, -300, -269, -239, -208, -178, -147, -116, -86, -55, -25,
                 6, 37, 65, 96, 126, 157, 187, 218, 249, 279, 310, 340, 371>>
MCFirstDay == [m \in -12..12 |-> MonthStarts[m + 13]]
MCClockChange == 24 * 7 - 1

MCMoments == {24 * d + h : d \in {5, 6, 7, 13}, h \in {-3, -2, 0, 12}}
MCDates == {Null, -25, -24, -1, 0, 1, 5, 6, 7, 8, 12, 13, 37}
MCInstants == {Null, -26, 24 * 6 - 3, 24 * 6 - 2, 24 * 7 - 3, 24 * 7 - 2, 24 * 7 - 1, 24 * 7,
               24 * 8 - 2, 24 * 8 - 1}
MCScope(operator, items) == [operator |-> operator, items |-> items]
MCFilterRows ==
  {[on |-> date, at |-> 24 * 6] : date \in MCDates} \cup {[on |-> 0, at |-> moment] : moment \in MCInstants}
MCScopeSets ==
  {<<MCScope("single", {RelativeDate(f[1], f[2], period)}), NoFilter>> :
     f \in {<<"on", "date">>, <<"at", "datetime">>}, period \in Periods}
  \cup {<<MCScope("single", {RelativeDate("at", "datetime", period)}),
          MCScope("and", {AbsoluteDate("on", "date", [day |-> 0], [moment |-> 24 * 7]),
                          Comparison("on", "ne", 1)})>> : period \in {"today", "this_week"}}
  \cup {<<MCScope("or", {Comparison("on", "ne", 1), Comparison("on", "ne", 2)})>>,
        <<MCScope("single", {AbsoluteDate("on", "date", [day |-> 7], [day |-> 7])})>>,
        <<MCScope("and", {Comparison("on", "ne", n) : n \in 1..(MaxPredicates - 1)}),
          MCScope("single", {RelativeDate("on", "date", "today")})>>}

-----------------------------------------------------------------------------
MCFields ==
  [region |-> [type |-> "string", role |-> "dimension", hidden |-> FALSE],
   kind |-> [type |-> "string", role |-> "dimension", hidden |-> FALSE],
   day |-> [type |-> "date", role |-> "dimension", hidden |-> FALSE],
   amount |-> [type |-> "integer", role |-> "measure", hidden |-> FALSE],
   secret |-> [type |-> "integer", role |-> "dimension", hidden |-> TRUE]]

Sum(field) == Aggregate("sum", field)
MCMetric(id, status, formula, dimensions) ==
  [id |-> id, status |-> status, formula |-> formula, dimensions |-> dimensions]
MCMetrics ==
  {MCMetric(total, "active", Sum("amount"), {"region", "kind"}),
   MCMetric(share, "active",
            MetricSafeDivide(Sum("amount"), Aggregate("count", "amount"), Null), {"region"}),
   MCMetric(idle, "draft", Aggregate("count", "amount"), {"region"})}

MCDataset ==
  [workspace |-> "w", status |-> "active", model |-> "active", fields |-> MCFields,
   metrics |-> MCMetrics,
   policies |-> {Of("reader", "active", "deny", Comparison("region", "eq", 9)),
                 Of("other", "active", "deny", Comparison("amount", "gt", 0))}]

FactRow(active, batch, shop, day, amount, secret) ==
  [active |-> active, batch |-> batch,
   values |-> [shop |-> shop, day |-> day, amount |-> amount, secret |-> secret]]
ShopRow(active, batch, shop, region, kind) ==
  [active |-> active, batch |-> batch, values |-> [shop |-> shop, region |-> region, kind |-> kind]]

MCHeld(facts) ==
  [fact |-> "fact",
   from |-> <<[left |-> "fact", right |-> "shop", keys |-> << <<"shop", "shop">> >>,
               outer |-> TRUE]>>,
   source |-> [shop |-> "fact", day |-> "fact", amount |-> "fact", secret |-> "fact",
               region |-> "shop", kind |-> "shop"],
   tables |->
     [fact |-> facts,
      shop |-> <<ShopRow(TRUE, "s1", 1, 1, 1), ShopRow(TRUE, "s2", 2, 2, 2),
                 ShopRow(FALSE, "s3", 3, 2, 2), ShopRow(TRUE, "s2", 4, 9, 2)>>]]

(* Three imports, the last of which replaces what the others brought.      *)
MCFirst == <<FactRow(TRUE, "b1", 1, 5, 2, 1)>>
MCSecond ==
  MCFirst \o <<FactRow(TRUE, "b2", 2, 6, 2, 2), FactRow(TRUE, "b2", 3, 7, Null, 1),
               FactRow(FALSE, "b3", 1, 5, 9, 1), FactRow(TRUE, "b4", 2, 8, 0, 2),
               FactRow(TRUE, "b5", 4, 8, 7, 2)>>
MCThird == <<FactRow(FALSE, "b1", 1, 5, 2, 1), FactRow(TRUE, "b6", 2, 6, 2, 2)>>
MCHistory == <<MCHeld(MCFirst), MCHeld(MCSecond), MCHeld(MCThird)>>

Plainly(field, output) == Selection(field, output, None, None)
Named(i) == <<"output", i>>
MCSelections ==
  {<< >>, <<Plainly("region", Named(1))>>, <<Selection("day", Named(1), None, "week")>>,
   <<Plainly("region", Named(1)), Selection("amount", Named(2), "sum", None)>>,
   <<Plainly("kind", Named(1)), Plainly("amount", Named(2))>>,
   <<Selection("day", Named(1), None, "month"), Selection("amount", Named(2), "count", None)>>,
   <<Selection("day", Named(1), None, "month"), Selection("day", Named(2), None, "week"),
     Selection("amount", Named(3), "max", None)>>,
   <<Selection("region", Named(2), "sum", None)>>, <<Plainly("shop", Named(1))>>}
MCRequests ==
  {[selections |-> selections, metrics |-> metrics, filter |-> filter, group |-> group,
    order |-> order, limit |-> limit] :
     selections \in MCSelections,
     metrics \in {<< >>, <<MetricSelection(total, Named(4))>>,
                  <<MetricSelection(share, Named(4)), MetricSelection(total, Named(5))>>,
                  <<MetricSelection(idle, Named(4))>>},
     filter \in {None, Comparison("amount", "gt", 0), Pattern("day", {1})},
     group \in {<< >>, <<"region">>, <<"day">>},
     order \in {<< >>, <<FieldSort("region", None, None, "desc")>>, <<MetricSort(total, "asc")>>,
                <<FieldSort("amount", "sum", None, "asc"), FieldSort("region", None, None, "asc")>>},
     limit \in {1, 2, 4}}
MCQueryScopes ==
  {<<NoFilter>>, <<MCScope("single", {Comparison("region", "ne", 1)}), NoFilter,
                   MCScope("and", {NullTest("amount", FALSE), Comparison("kind", "eq", 1)})>>}

-----------------------------------------------------------------------------
MCGroupColumns ==
  {[field \in DOMAIN MCFields |-> column] : column \in [1..2 -> {Null, 0, 1, 3}] \cup {<< >>}}
MCAggregates == {Aggregate(f, field) : f \in Functions, field \in {"amount", "region"}}
MCPairs ==
  {MetricBinary(op, l, r) : op \in {"add", "subtract", "multiply"}, l \in MCAggregates,
                            r \in {Sum("amount"), MetricLiteral(<<1, 2>>)}}
MCFormulas ==
  MCAggregates \cup MCPairs \cup {MetricLiteral(<<1, 2>>)}
  \cup {MetricSafeDivide(n, d, fallback) :
          n \in MCAggregates, d \in {MetricBinary("subtract", l, MetricLiteral(Whole(1))) : l \in MCAggregates},
          fallback \in {Null, Zero}}

-----------------------------------------------------------------------------
MCQueryMoment == 24 * 6

MCChartTypes ==
  {"kpi", "trend_indicator", "detail_table", "ranking_table", "bar", "stacked_bar", "pie"}
MCChartSpecs ==
  {[dimensions |-> dimensions, series |-> series, measures |-> measures, sort |-> sort,
    top |-> top, limit |-> limit] :
     dimensions \in {<< >>, <<Dimension("region", "d1", None)>>, <<Dimension("day", "d1", "month")>>,
                     <<Dimension("region", "d1", None), Dimension("kind", "d2", None)>>},
     series \in {None, Series("kind", "s", 2), Series("secret", "s", 2), Series("region", "s", 1)},
     measures \in {<< >>, <<FieldMeasure("amount", "sum", "v1")>>,
                   <<MetricMeasure(total, "v1"), FieldMeasure("amount", "count", "v2")>>,
                   <<FieldMeasure("amount", "max", "v1"), MetricMeasure(share, "v2")>>},
     sort \in {<< >>, <<ChartSort("field", "amount", "sum", "desc")>>,
               <<ChartSort("metric", total, None, "asc")>>,
               <<ChartSort("field", "region", None, "desc"), ChartSort("metric", share, None, "desc")>>},
     top \in {0, 2}, limit \in {1, 4, 9}}
MCSeriesSpecs ==
  {[dimensions |-> <<Dimension(primary[1], "d1", primary[2])>>,
    series |-> Series("kind", "s", max), measures |-> <<FieldMeasure("amount", "sum", "v1")>>,
    sort |-> << >>, top |-> 0, limit |-> limit] :
     primary \in {<<"region", None>>, <<"day", "month">>, <<"day", "day">>}, max \in 1..3,
     limit \in {1, 2, 4, 9}}

(* A dashboard of one page with one component.                             *)
MCBoard(component, capabilities, filter) ==
  [version |-> 2, capabilities |-> capabilities, filter |-> filter,
   pages |-> [p \in {"p1"} |-> [filter |-> NoFilter,
                                components |-> [c \in {"c1"} |-> component]]]]
MCComponent(type, spec) == [type |-> type, spec |-> spec, filter |-> NoFilter]
MCRequest(version, page, component, preview, runtime) ==
  [version |-> version, page |-> page, component |-> component, preview |-> preview,
   runtime |-> runtime]
MCThisWeek == MCScope("single", {RelativeDate("day", "date", "this_week")})
MCShops == MCScope("and", {NullTest("region", FALSE), Comparison("kind", "ne", 9)})

MCBoards ==
  {MCBoard(MCComponent(type, spec), {"view"}, NoFilter) :
     type \in MCChartTypes, spec \in MCChartSpecs}
MCBoardRequests == {MCRequest(2, "p1", "c1", None, NoFilter)}

MCSeriesBoards ==
  {MCBoard(MCComponent("bar", spec), {"view"}, MCThisWeek) : spec \in MCSeriesSpecs}
  \cup {MCBoard(MCComponent(type, CHOOSE spec \in MCSeriesSpecs : TRUE), capabilities, NoFilter) :
          type \in {"bar", "text"}, capabilities \in {{}, {"view"}, {"view", "edit"}}}
MCPreview ==
  MCComponent("bar", CHOOSE spec \in MCSeriesSpecs : spec.series.max = 3 /\ spec.limit = 9)
MCSeriesRequests ==
  {MCRequest(2, "p1", "c1", None, runtime) :
     runtime \in {NoFilter, <<NoFilter, NoFilter, MCShops>>}}
  \cup {MCRequest(1, "p1", "c1", None, NoFilter), MCRequest(2, "p2", "c1", None, NoFilter),
        MCRequest(2, "p1", "c2", None, NoFilter), MCRequest(2, "p1", "c2", MCPreview, NoFilter)}
-----------------------------------------------------------------------------
MCSourceTypes == <<"integer", "date">>
=============================================================================
