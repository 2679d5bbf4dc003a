-------------------------- MODULE DashboardFilters --------------------------
(* The filters a dashboard puts on the query of a component (filters.py):  *)
(* a global, a page and a component scope, each one an AND of predicates   *)
(* and date filters, resolved once, at the moment the query starts, to the *)
(* filter expressions of a dataset query.                                  *)
(*                                                                         *)
(* A date is the number of its day, where day 0 is a Monday; a moment is   *)
(* an hour of UTC. A scope is NoFilter or [operator, items]; an item is a  *)
(* predicate of RowPredicates or a date filter                             *)
(* [kind, field, type, period, start, end].                                *)
EXTENDS RowPredicates, Calendar, Sequences

CONSTANTS
  NoFilter,
  OffsetBefore,   \* the workspace's zone: hours ahead of UTC before and after
  OffsetAfter,    \* the one change of its clocks
  ClockChange     \* the moment of that change

ASSUME FiltersAssumption ==
  /\ OffsetBefore \in Int /\ OffsetAfter \in Int /\ ClockChange \in Int

Periods == {"today", "yesterday", "last_7_days", "last_30_days", "this_week", "last_week",
            "this_month", "last_month", "month_to_date", "year_to_date"}

RelativeDate(field, type, period) ==
  [kind |-> "relative_date", field |-> field, type |-> type, period |-> period]
AbsoluteDate(field, type, start, end) ==
  [kind |-> "absolute_date_range", field |-> field, type |-> type, start |-> start, end |-> end]

IsDateFilter(item) == item.kind \in {"relative_date", "absolute_date_range"}

-----------------------------------------------------------------------------
(* The zone of the workspace: datetime and zoneinfo.                       *)
LocalHour(moment) ==
  moment + (IF moment < ClockChange THEN OffsetBefore ELSE OffsetAfter)

LocalDay(moment) == LocalHour(moment) \div 24

ToUtcAsOfNow(hour) == hour - (LocalHour(hour) - hour)

(* A local time that the change skips or repeats is taken as of before.    *)
ToUtc(hour) ==
  IF \/ hour - OffsetBefore < ClockChange
     \/ hour - OffsetAfter < ClockChange
    THEN hour - OffsetBefore ELSE hour - OffsetAfter

(* A bound is [day |-> d] or [moment |-> m].                               *)
AsDate(bound) == IF "day" \in DOMAIN bound THEN bound.day ELSE LocalDay(bound.moment)
AsUtc(bound) == IF "day" \in DOMAIN bound THEN ToUtc(24 * bound.day) ELSE bound.moment

-----------------------------------------------------------------------------
(* _relative_date_boundaries, _shift_month                                 *)
ShiftMonth(day, offset) == FirstDay[MonthOf(day) + offset]

Boundaries(period, today) ==
  LET tomorrow == today + 1
      week == today - Weekday(today)
      month == FirstDay[MonthOf(today)]
      january == FirstDay[(MonthOf(today) \div 12) * 12]
  IN CASE period = "today" -> <<today, tomorrow>>
       [] period = "yesterday" -> <<today - 1, today>>
       [] period = "last_7_days" -> <<today - 6, tomorrow>>
       [] period = "last_30_days" -> <<today - 29, tomorrow>>
       [] period = "this_week" -> <<week, week + 7>>
       [] period = "last_week" -> <<week - 7, week>>
       [] period = "this_month" -> <<month, ShiftMonth(month, 1)>>
       [] period = "last_month" -> <<ShiftMonth(month, -1), month>>
       [] period = "month_to_date" -> <<month, tomorrow>>
       [] period = "year_to_date" -> <<january, tomorrow>>

(* _resolve_date_filter: the half-open range of one date filter, in the    *)
(* unit of its field.                                                      *)
ResolvedRange(item, now) ==
  LET days == Boundaries(item.period, LocalDay(now))
      start == IF item.kind = "relative_date" THEN [day |-> days[1]] ELSE item.start
      end == IF item.kind = "relative_date" THEN [day |-> days[2]] ELSE item.end
  IN IF item.type = "date" THEN <<AsDate(start), AsDate(end)>> ELSE <<AsUtc(start), AsUtc(end)>>

RangeIsValid(item, now) == ResolvedRange(item, now)[1] < ResolvedRange(item, now)[2]

ResolvedItem(item, now) ==
  IF IsDateFilter(item)
    THEN {Comparison(item.field, "gte", ResolvedRange(item, now)[1]),
          Comparison(item.field, "lt", ResolvedRange(item, now)[2])}
    ELSE {item}

(* _scope_atoms: one AND layer of atoms, or a single atom.                 *)
ScopeIsSupported(scope) ==
  /\ scope.operator \in {"and", "single"}
  /\ scope.operator = "and" => Cardinality(scope.items) >= 2
  /\ \A item \in scope.items : item.kind # "logical"

ResolvedScope(scope, now) ==
  UNION {ResolvedItem(item, now) : item \in scope.items}

(* The scopes that are set, in the order global, page, component.          *)
Present(scopes) == SelectSeq(scopes, LAMBDA scope : scope # NoFilter)

Predicates(scopes, now) ==
  LET counts[i \in 0..Len(scopes)] ==
        IF i = 0 THEN 0
        ELSE counts[i - 1] + Cardinality(ResolvedScope(scopes[i], now))
  IN counts[Len(scopes)]

(* resolve_scoped_filters: what it refuses, and the filters it returns.    *)
Refusal(scopes, now) ==
  LET set == Present(scopes)
      items == UNION {set[i].items : i \in DOMAIN set}
  IN CASE \E i \in DOMAIN set : ~ ScopeIsSupported(set[i]) -> "filter_expression_not_supported"
       [] \E item \in items : IsDateFilter(item) /\ ~ RangeIsValid(item, now) ->
            "filter_date_range_invalid"
       [] Predicates(set, now) > MaxPredicates -> "too_many_filter_predicates"
       [] OTHER -> "none"

FilterOf(atoms) ==
  IF Cardinality(atoms) = 1 THEN CHOOSE atom \in atoms : TRUE ELSE Logical("and", atoms)

ScopedFilters(scopes, now) ==
  LET set == Present(scopes)
  IN [i \in DOMAIN set |-> FilterOf(ResolvedScope(set[i], now))]

(* The date filters a result reports as resolved.                          *)
Evidence(scopes, now) ==
  LET set == Present(scopes)
  IN UNION {{<<i, item.field, ResolvedRange(item, now)>> :
               item \in {it \in set[i].items : IsDateFilter(it)}} : i \in DOMAIN set}

(* prepare_dashboard_chart_query: runtime scopes take the place of all     *)
(* the saved ones.                                                         *)
EffectiveScopes(saved, runtime) == IF runtime = NoFilter THEN saved ELSE runtime

-----------------------------------------------------------------------------
(* The reference: a row passes a date filter when its day, in the zone of  *)
(* the workspace, is in the period.                                        *)
DayOf(value, type) == IF type = "date" THEN value ELSE LocalDay(value)

SameWeek(day, other) == day - Weekday(day) = other - Weekday(other)
SameYear(day, other) == MonthOf(day) \div 12 = MonthOf(other) \div 12

DayInPeriod(period, day, today) ==
  CASE period = "today" -> day = today
    [] period = "yesterday" -> day + 1 = today
    [] period = "last_7_days" -> today - day \in 0..6
    [] period = "last_30_days" -> today - day \in 0..29
    [] period = "this_week" -> SameWeek(day, today)
    [] period = "last_week" -> SameWeek(day + 7, today)
    [] period = "this_month" -> MonthOf(day) = MonthOf(today)
    [] period = "last_month" -> MonthOf(day) + 1 = MonthOf(today)
    [] period = "month_to_date" -> MonthOf(day) = MonthOf(today) /\ day <= today
    [] period = "year_to_date" -> SameYear(day, today) /\ day <= today

InPeriod(item, row, now) ==
  LET value == row[item.field]
  IN value # Null /\ DayInPeriod(item.period, DayOf(value, item.type), LocalDay(now))

Passes(item, row, now) ==
  CASE item.kind = "relative_date" -> InPeriod(item, row, now)
    [] item.kind = "absolute_date_range" ->
         /\ row[item.field] # Null
         /\ ResolvedRange(item, now)[1] <= row[item.field] /\ row[item.field] < ResolvedRange(item, now)[2]
    [] OTHER -> Meets(item, row)

PassesScopes(scopes, row, now) ==
  LET set == Present(scopes)
  IN \A i \in DOMAIN set : \A item \in set[i].items : Passes(item, row, now)

-----------------------------------------------------------------------------
(* What is taken as given of the zone, of a row and of the scopes.         *)

(* No midnight is strictly inside the hours that the change of the clocks  *)
(* skips or repeats: clocks may be changed at midnight, or to midnight.    *)
ClocksKeepMidnight ==
  LET before == ClockChange + OffsetBefore
      after == ClockChange + OffsetAfter
  IN \A hour \in (before + 1)..(after - 1) \cup (after + 1)..(before - 1) : hour % 24 # 0

(* The months that the periods of a day name are in the calendar.          *)
CalendarSurrounds(today) ==
  LET month == MonthOf(today)
  IN {month - 1, month + 1, (month \div 12) * 12} \subseteq DOMAIN FirstDay

Bounds == [day : Int] \cup [moment : Int]

(* What the contracts make sure of a date filter; and the calendar knows   *)
(* the day of the row and the months around the moment of the query.       *)
DateIsKnown(item, row, now) ==
  /\ item.type \in {"date", "datetime"}
  /\ item.kind = "relative_date" =>
       /\ item.period \in Periods
       /\ InCalendar(LocalDay(now)) /\ CalendarSurrounds(LocalDay(now))
  /\ item.kind = "absolute_date_range" => item.start \in Bounds /\ item.end \in Bounds
  /\ row[item.field] # Null =>
       row[item.field] \in Int /\ InCalendar(DayOf(row[item.field], item.type))

ScopesAreKnown(scopes, row, now) ==
  /\ now \in Int
  /\ \A i \in DOMAIN Present(scopes) :
       /\ IsFiniteSet(Present(scopes)[i].items)
       /\ \A item \in Present(scopes)[i].items :
            IsDateFilter(item) => DateIsKnown(item, row, now)
=============================================================================
