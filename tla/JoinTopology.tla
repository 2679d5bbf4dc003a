---------------------------- MODULE JoinTopology ----------------------------
(* The joins of a semantic model: what the contract accepts when a model   *)
(* is created (model_contracts.py), what is checked of its import columns  *)
(* (semantic_models.py), and the FROM clause a dataset query builds of the *)
(* stored joins (_resolve_joined_source in query_service.py).              *)
(*                                                                         *)
(* A model is [sources, joins]: a source is [alias, target, role], a join  *)
(* [left, right, keys] between aliases, a key a pair of import columns.    *)
EXTENDS Integers, FiniteSets, SequencesExt

CONSTANTS
  Columns,       \* import columns
  ColumnTarget,  \* the import target of a column
  ColumnType,    \* the data type of a column
  MaxSources,    \* sources of a model (eight in the code)
  MaxKeys        \* keys of a join (eight in the code)

ASSUME JoinAssumption ==
  /\ MaxSources \in Nat \ {0} /\ MaxKeys \in Nat \ {0}
  /\ DOMAIN ColumnTarget = Columns /\ DOMAIN ColumnType = Columns

Aliases(model) == {source.alias : source \in Range(model.sources)}

SourceOf(model, alias) ==
  CHOOSE source \in Range(model.sources) : source.alias = alias

Facts(model) == {source \in Range(model.sources) : source.role = "fact"}

Fact(model) == CHOOSE source \in Facts(model) : TRUE

Ends(join) == {join.left, join.right}

(* What a request or a stored model is, before anything of it is checked.  *)
IsModel(model) ==
  /\ model.sources \in Seq(Range(model.sources))
  /\ model.joins \in Seq(Range(model.joins))
  /\ \A source \in Range(model.sources) : source.role \in {"fact", "dimension"}

(* SemanticModelJoinInput.                                                 *)
JoinIsWellFormed(join) ==
  /\ join.left # join.right
  /\ Len(join.keys) \in 1..MaxKeys
  /\ IsInjective(join.keys)

(* CreateSemanticModel.validate_graph walks the joins as undirected edges  *)
(* from the first source.                                                  *)
Spread(model, from) ==
  LET reached[n \in Nat] ==
        IF n = 0 THEN {from}
        ELSE reached[n - 1] \cup
             UNION {Ends(join) : join \in {j \in Range(model.joins) :
                                             Ends(j) \cap reached[n - 1] # {}}}
  IN reached[Len(model.joins)]

ContractAccepts(model) ==
  /\ Len(model.sources) \in 1..MaxSources
  /\ Cardinality(Aliases(model)) = Len(model.sources)
  /\ Cardinality({i \in DOMAIN model.sources :
                    model.sources[i].role = "fact"}) = 1
  /\ Len(model.joins) = Len(model.sources) - 1
  /\ \A join \in Range(model.joins) :
       JoinIsWellFormed(join) /\ Ends(join) \subseteq Aliases(model)
  /\ \A i, j \in DOMAIN model.joins :
       i # j => Ends(model.joins[i]) # Ends(model.joins[j])
  /\ Spread(model, model.sources[1].alias) = Aliases(model)

(* The keys of a join belong to the targets of its sources and pair equal  *)
(* types, when the model is validated and again when it is queried.        *)
KeysMatch(model, join) ==
  \A key \in Range(join.keys) :
    /\ {key[1], key[2]} \subseteq Columns
    /\ ColumnTarget[key[1]] = SourceOf(model, join.left).target
    /\ ColumnTarget[key[2]] = SourceOf(model, join.right).target
    /\ ColumnType[key[1]] = ColumnType[key[2]]

(* _validate_model_resources: every target is active.                      *)
ResourcesAreValid(model, active) ==
  /\ \A source \in Range(model.sources) : source.target \in active
  /\ \A join \in Range(model.joins) : KeysMatch(model, join)

Creates(model, active) == ContractAccepts(model) /\ ResourcesAreValid(model, active)

-----------------------------------------------------------------------------
(* One turn of the loop over the pending joins: the first one with an end  *)
(* in the clause decides.                                                  *)
FirstTouching(state) ==
  {i \in DOMAIN state.pending :
     /\ Ends(state.pending[i]) \cap state.joined # {}
     /\ \A j \in 1..(i - 1) : Ends(state.pending[j]) \cap state.joined = {}}

AttachEitherWay(model, state) ==
  LET index == CHOOSE i \in FirstTouching(state) : TRUE
      join == state.pending[index]
      new == IF join.left \in state.joined THEN join.right ELSE join.left
  IN IF state.pending = << >> \/ FirstTouching(state) = {} THEN state
     ELSE [state EXCEPT !.joined = @ \cup {new}, !.pending = RemoveAt(@, index),
                        !.from = Append(@, join)]

Attach(model, state) ==
  LET first == FirstTouching(state)
      index == CHOOSE i \in first : TRUE
      join == state.pending[index]
      Failed(error) == [state EXCEPT !.error = error]
  IN IF state.error # "none" \/ state.pending = << >> THEN state
     ELSE IF first = {} THEN Failed("disconnected")
     ELSE IF Ends(join) \subseteq state.joined THEN Failed("cycle")
     ELSE IF join.left \notin state.joined THEN Failed("direction")
     ELSE IF SourceOf(model, join.right).role # "dimension" THEN Failed("role")
     ELSE [state EXCEPT !.joined = @ \cup {join.right},
                        !.pending = RemoveAt(@, index), !.from = Append(@, join)]

Attached(model) ==
  LET turn[n \in Nat] ==
        IF n = 0 THEN [joined |-> {Fact(model).alias}, pending |-> model.joins,
                       from |-> << >>, error |-> "none"]
        ELSE Attach(model, turn[n - 1])
  IN turn[Len(model.joins)]

(* What the query checks of the stored rows before the loop.               *)
StoredIsSound(model) ==
  /\ Len(model.sources) \in 1..MaxSources
  /\ Cardinality(Aliases(model)) = Len(model.sources)
  /\ Cardinality({i \in DOMAIN model.sources :
                    model.sources[i].role = "fact"}) = 1
  /\ Len(model.joins) = Len(model.sources) - 1
  /\ \A join \in Range(model.joins) :
       /\ JoinIsWellFormed(join)
       /\ Ends(join) \subseteq Aliases(model)
       /\ KeysMatch(model, join)
  /\ \A i, j \in DOMAIN model.joins :
       i # j => Ends(model.joins[i]) # Ends(model.joins[j])

Resolves(model, active) ==
  /\ \A source \in Range(model.sources) : source.target \in active
  /\ StoredIsSound(model)
  /\ Attached(model).error = "none"
  /\ Attached(model).joined = Aliases(model)

-----------------------------------------------------------------------------
(* The reference: the model is a tree whose joins all point away from the  *)
(* fact, so that there is no way to stop on the way to the last source.    *)
IsDirectedTree(model) ==
  \A closed \in SUBSET Aliases(model) :
    /\ Fact(model).alias \in closed
    /\ \A join \in Range(model.joins) : join.left \in closed => join.right \in closed
    => closed = Aliases(model)
=============================================================================
