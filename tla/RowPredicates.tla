--------------------------- MODULE RowPredicates ---------------------------
(* Which rows a dataset query may read: the predicates a filter expression *)
(* is compiled to (_filter_expression in compiler.py) in the three-valued  *)
(* logic of SQL, and the predicate that the active row policies of the     *)
(* dataset make for a principal (resolve_row_policy_predicates).           *)
(*                                                                         *)
(* A row maps fields to values or Null. Values are small integers; the     *)
(* text a LIKE pattern describes is the set of the values it matches.      *)
EXTENDS Integers, FiniteSets

CONSTANTS Null, MaxPredicates  \* fifty predicates in the code

ASSUME PredicatesAssumption == Null \notin Int /\ MaxPredicates \in Nat

(* The truth values of SQL.                                                *)
Truth(condition) == IF condition THEN "true" ELSE "false"

NotSql(truth) ==
  IF truth = "true" THEN "false" ELSE IF truth = "false" THEN "true" ELSE "unknown"

AndSql(truths) ==
  IF "false" \in truths THEN "false" ELSE IF "unknown" \in truths THEN "unknown" ELSE "true"

OrSql(truths) ==
  IF "true" \in truths THEN "true" ELSE IF "unknown" \in truths THEN "unknown" ELSE "false"

-----------------------------------------------------------------------------
(* Filter expressions: atoms, or several under one AND or OR.              *)
Comparison(field, operator, value) ==
  [kind |-> "comparison", field |-> field, operator |-> operator, values |-> {value}]
NullTest(field, isNull) ==
  [kind |-> "null", field |-> field, operator |-> IF isNull THEN "is" ELSE "is_not",
   values |-> {}]
Membership(field, operator, values) ==
  [kind |-> "set", field |-> field, operator |-> operator, values |-> values]
Pattern(field, values) ==
  [kind |-> "text", field |-> field, operator |-> "like", values |-> values]
Logical(operator, atoms) == [kind |-> "logical", operator |-> operator, atoms |-> atoms]

Atoms(expression) ==
  IF expression.kind = "logical" THEN expression.atoms ELSE {expression}

PredicateCount(expression) == Cardinality(Atoms(expression))

FilterFields(expression) == {atom.field : atom \in Atoms(expression)}

(* The shapes the contracts take: SetPredicate and LogicalPredicate.       *)
IsFilter(expression) ==
  /\ expression.kind = "logical" => PredicateCount(expression) \in 2..MaxPredicates
  /\ \A atom \in Atoms(expression) : atom.kind = "set" => atom.values # {}

(* Every operator but NOT IN, of a value that is there.                    *)
Satisfies(value, atom) ==
  LET than == CHOOSE v \in atom.values : TRUE
  IN CASE atom.kind \in {"set", "text"} -> value \in atom.values
       [] atom.operator = "eq" -> value = than
       [] atom.operator = "ne" -> value # than
       [] atom.operator = "gt" -> value > than
       [] atom.operator = "gte" -> value >= than
       [] atom.operator = "lt" -> value < than
       [] atom.operator = "lte" -> value <= than

AtomTruth(atom, row) ==
  LET value == row[atom.field]
  IN IF atom.kind = "null" THEN Truth(value = Null <=> atom.operator = "is")
     ELSE IF value = Null THEN "unknown"
     ELSE IF atom.operator = "not_in" THEN NotSql(Truth(Satisfies(value, atom)))
     ELSE Truth(Satisfies(value, atom))

FilterTruth(expression, row) ==
  LET truths == {AtomTruth(atom, row) : atom \in Atoms(expression)}
  IN IF expression.kind = "logical" /\ expression.operator = "or"
       THEN OrSql(truths) ELSE AndSql(truths)

-----------------------------------------------------------------------------
(* A policy is [status, effect, users, roles, expression], a principal     *)
(* [user, roles].                                                          *)
IsAssigned(policy, principal) ==
  principal.user \in policy.users \/ principal.roles \cap policy.roles # {}

Active(policies) == {policy \in policies : policy.status = "active"}

Matched(policies, principal) ==
  {policy \in Active(policies) : IsAssigned(policy, principal)}

Truths(policies, effect, row) ==
  {FilterTruth(policy.expression, row) :
     policy \in {p \in policies : p.effect = effect}}

PolicyTruthDeniesWhatIsTrue(policies, principal, row) ==
  LET matched == Matched(policies, principal)
      allowed == Truths(matched, "allow", row)
  IN IF /\ Active(policies) # {}
        /\ \/ matched = {}
           \/ allowed # {} /\ OrSql(allowed) # "true"
           \/ OrSql(Truths(matched, "deny", row)) = "true"
       THEN "false" ELSE "true"

PolicyTruth(policies, principal, row) ==
  LET matched == Matched(policies, principal)
      allowed == Truths(matched, "allow", row)
      denied == Truths(matched, "deny", row)
      allow == IF allowed = {} THEN "true" ELSE OrSql(allowed)
      deny == IF denied = {} THEN "true" ELSE NotSql(OrSql(denied))
  IN IF Active(policies) = {} THEN "true"
     ELSE IF matched = {} THEN "false" ELSE AndSql({allow, deny})

(* compile_filter: every field of a policy's expression is resolved, or    *)
(* the whole query fails (RowPolicyConfigurationError).                    *)
PoliciesCompile(policies, principal, columns) ==
  \A policy \in Matched(policies, principal) :
    FilterFields(policy.expression) \subseteq columns

-----------------------------------------------------------------------------
(* The reference: what a policy says of a row, without the logic of SQL.   *)
(* A comparison with a value that is not there decides nothing.            *)
Decides(atom, row) == atom.kind = "null" \/ row[atom.field] # Null

Meets(expression, row) ==
  LET Holds(atom) == Decides(atom, row) /\ AtomTruth(atom, row) = "true"
  IN IF expression.kind = "logical" /\ expression.operator = "or"
       THEN \E atom \in Atoms(expression) : Holds(atom)
       ELSE \A atom \in Atoms(expression) : Holds(atom)

Fails(expression, row) ==
  LET Misses(atom) == Decides(atom, row) /\ AtomTruth(atom, row) = "false"
  IN IF expression.kind = "logical" /\ expression.operator = "or"
       THEN \A atom \in Atoms(expression) : Misses(atom)
       ELSE \E atom \in Atoms(expression) : Misses(atom)

MayRead(policies, principal, row) ==
  LET mine == Matched(policies, principal)
      Of(effect) == {policy \in mine : policy.effect = effect}
  IN \/ Active(policies) = {}
     \/ /\ mine # {}
        /\ Of("allow") # {} => \E policy \in Of("allow") : Meets(policy.expression, row)
        /\ \A policy \in Of("deny") : Fails(policy.expression, row)
=============================================================================
