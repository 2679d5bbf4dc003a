------------------------- MODULE QueryAnswers_proofs -------------------------
(* What the program answers, proved of QueryAnswers for every model, set   *)
(* of policies, filter and request its constants may give: that the joins  *)
(* the loop of resolve_semantic_join_topology finds are those of the trees *)
(* away from the fact; that the predicate of the row policies and those of *)
(* the filters are true of the rows they mean, NULLs and the change of the *)
(* clocks included; and, from these, that a dataset query returns the first*)
(* lines of the groups of the rows that may be read, whichever order the   *)
(* database chooses for ties. The last part is of calculated fields: typed *)
(* once, they compile and mean the same in every later version.            *)
EXTENDS QueryAnswers, FiniteSetTheorems, SequenceTheorems, WellFoundedInduction, TLAPS

(* A set of natural numbers that is not empty has a least element.         *)
LEMMA LeastNatural ==
  ASSUME NEW T \in SUBSET Nat, T # {}
  PROVE  \E m \in T : \A n \in T : m <= n
<1> DEFINE R == {ss \in Nat \X Nat : ss[1] < ss[2]}
<1>1. IsWellFoundedOn(R, Nat)
  BY NatLessThanWellFounded DEF OpToRel
<1> HIDE DEF R
<1>2. PICK x \in T : \A y \in T : ~ (<<y, x>> \in R)
  BY <1>1, WFMin, Zenon
<1>3. \A y \in T : ~ (y < x)
  BY <1>2 DEF R
<1> QED
  BY <1>3

(* What holds of 0 and of the next number after each it holds of, holds up *)
(* to n.                                                                   *)
LEMMA Reaches ==
  ASSUME NEW n \in Nat, NEW T, 0 \in T, \A k \in T \cap Nat : k < n => k + 1 \in T
  PROVE  \A k \in 0 .. n : k \in T
<1> DEFINE U == {k \in 0 .. n : k \notin T}
<1>1. SUFFICES ASSUME U # {} PROVE FALSE
  OBVIOUS
<1>2. PICK m \in U : \A k \in U : m <= k
  <2>1. U \in SUBSET Nat
    OBVIOUS
  <2> HIDE DEF U
  <2> QED
    BY <1>1, <2>1, LeastNatural
<1>3. m # 0 /\ m - 1 \in 0 .. n /\ m - 1 \notin U
  BY <1>2
<1>4. m \in T
  BY <1>3
<1> QED
  BY <1>2, <1>4

(* The numbers from 1 to n are n.                                          *)
LEMMA UpTo ==
  ASSUME NEW n \in Nat
  PROVE  IsFiniteSet(1..n) /\ Cardinality(1..n) = n
<1>1. 1 \in Int /\ n \in Int
  OBVIOUS
<1>2. IsFiniteSet(1..n) /\ Cardinality(1..n) = IF 1 > n THEN 0 ELSE n - 1 + 1
  BY <1>1, FS_Interval
<1> QED
  BY <1>2

(* A step after the other has a result after every number of steps.        *)
LEMMA StepByStep ==
  ASSUME NEW S, NEW start \in S, NEW step \in [Nat -> [S -> S]]
  PROVE  \E f \in [Nat -> S] :
           f = [n \in Nat |-> IF n = 0 THEN start ELSE step[n][f[n - 1]]]
<1> DEFINE Runs(f, n) == /\ f \in [0..n -> S] /\ f[0] = start
                         /\ \A k \in 1..n : f[k] = step[k][f[k - 1]]
<1>1. ASSUME NEW n \in Nat
      PROVE  \E f : Runs(f, n)
  <2> DEFINE T == {k \in Nat : \E f : Runs(f, k)}
  <2>1. 0 \in T
    <3>1. Runs([k \in 0..0 |-> start], 0)
      OBVIOUS
    <3> QED
      BY <3>1
  <2>2. ASSUME NEW k \in T \cap Nat
        PROVE  k + 1 \in T
    <3>1. PICK f : Runs(f, k)
      BY <2>2
    <3> DEFINE g == [j \in 0..(k + 1) |-> IF j = k + 1 THEN step[k + 1][f[k]] ELSE f[j]]
    <3>2. f[k] \in S /\ step[k + 1][f[k]] \in S
      BY <3>1
    <3>3. g \in [0..(k + 1) -> S] /\ g[0] = start
      BY <3>1, <3>2
    <3>4. ASSUME NEW j \in 1..(k + 1)
          PROVE  g[j] = step[j][g[j - 1]]
      <4>1. CASE j = k + 1
        <5>1. g[j] = step[j][f[k]] /\ g[j - 1] = f[k] /\ j - 1 = k
          BY <4>1
        <5> QED
          BY <5>1
      <4>2. CASE j # k + 1
        <5>1. j \in 1..k /\ g[j] = f[j] /\ g[j - 1] = f[j - 1]
          BY <4>2
        <5>2. f[j] = step[j][f[j - 1]]
          BY <5>1, <3>1
        <5> QED
          BY <5>1, <5>2
      <4> QED
        BY <4>1, <4>2
    <3> HIDE DEF g
    <3>5. Runs(g, k + 1)
      BY <3>3, <3>4
    <3> QED
      BY <3>5
  <2> HIDE DEF T
  <2>3. n \in T
    BY <2>1, <2>2, Reaches
  <2> QED
    BY <2>3 DEF T
<1>2. ASSUME NEW m \in Nat, NEW n \in Nat, m <= n, NEW f, NEW g, Runs(f, m), Runs(g, n)
      PROVE  f[m] = g[m]
  <2> DEFINE T == {k \in Nat : k <= m => f[k] = g[k]}
  <2>1. 0 \in T
    BY <1>2
  <2>2. ASSUME NEW k \in T \cap Nat, k < m
        PROVE  k + 1 \in T
    <3>1. k + 1 \in 1..m /\ k + 1 \in 1..n /\ (k + 1) - 1 = k
      BY <1>2, <2>2
    <3>2. f[k + 1] = step[k + 1][f[k]] /\ g[k + 1] = step[k + 1][g[k]]
      BY <1>2, <3>1
    <3>3. f[k] = g[k]
      BY <2>2
    <3> QED
      BY <3>2, <3>3
  <2> HIDE DEF T
  <2>3. m \in T
    BY <2>1, <2>2, Reaches
  <2> QED
    BY <2>3 DEF T
<1> DEFINE run(n) == CHOOSE f : Runs(f, n)
           F == [n \in Nat |-> run(n)[n]]
<1>3. \A n \in Nat : Runs(run(n), n)
  BY <1>1
<1> HIDE DEF run
<1>4. \A n \in Nat : F[n] \in S
  BY <1>3
<1>5. F[0] = start
  BY <1>3
<1>6. ASSUME NEW n \in Nat, n # 0
      PROVE  F[n] = step[n][F[n - 1]]
  <2>1. n - 1 \in Nat /\ n \in 1..n /\ n - 1 \in 0..n
    BY <1>6
  <2>2. run(n)[n] = step[n][run(n)[n - 1]]
    BY <1>3, <2>1
  <2>3. Runs(run(n), n) /\ Runs(run(n - 1), n - 1)
    BY <1>3, <2>1
  <2> HIDE DEF Runs, F
  <2>4. run(n - 1)[n - 1] = run(n)[n - 1]
    BY <1>2, <2>1, <2>3
  <2> QED
    BY <2>1, <2>2, <2>4 DEF F
<1>7. F = [n \in Nat |-> IF n = 0 THEN start ELSE step[n][F[n - 1]]]
  BY <1>5, <1>6
<1>8. F \in [Nat -> S]
  BY <1>4
<1> QED
  BY <1>7, <1>8
-----------------------------------------------------------------------------
(* A sequence without its i-th element.                                    *)
LEMMA RemovedAt ==
  ASSUME NEW S, NEW s \in Seq(S), NEW i \in 1..Len(s)
  PROVE  /\ RemoveAt(s, i) \in Seq(S)
         /\ Len(RemoveAt(s, i)) = Len(s) - 1
         /\ \A k \in 1..(Len(s) - 1) :
              RemoveAt(s, i)[k] = IF k < i THEN s[k] ELSE s[k + 1]
<1> DEFINE a == SubSeq(s, 1, i - 1)
           b == SubSeq(s, i + 1, Len(s))
<1>1. Len(s) \in Nat /\ \A k \in 1..Len(s) : s[k] \in S
  OBVIOUS
<1>2. a \in Seq(S) /\ Len(a) = i - 1 /\ \A k \in 1..(i - 1) : a[k] = s[k]
  <2>1. \A k \in 1..(i - 1) : s[k] \in S
    BY <1>1
  <2>2. 1 \in Int /\ i - 1 \in Int
    BY <1>1
  <2>3. /\ a \in Seq(S)
        /\ Len(a) = IF 1 <= i - 1 THEN i - 1 - 1 + 1 ELSE 0
        /\ \A k \in 1..(i - 1 - 1 + 1) : a[k] = s[1 + k - 1]
    BY <2>1, <2>2, SubSeqProperties
  <2> HIDE DEF a
  <2> QED
    BY <1>1, <2>3
<1>3. b \in Seq(S) /\ Len(b) = Len(s) - i /\ \A k \in 1..(Len(s) - i) : b[k] = s[i + k]
  <2>1. \A k \in (i + 1)..Len(s) : s[k] \in S
    BY <1>1
  <2>2. i + 1 \in Int /\ Len(s) \in Int
    BY <1>1
  <2>3. /\ b \in Seq(S)
        /\ Len(b) = IF i + 1 <= Len(s) THEN Len(s) - (i + 1) + 1 ELSE 0
        /\ \A k \in 1..(Len(s) - (i + 1) + 1) : b[k] = s[(i + 1) + k - 1]
    BY <2>1, <2>2, SubSeqProperties
  <2> HIDE DEF b
  <2> QED
    BY <1>1, <2>3
<1>4. RemoveAt(s, i) = a \o b
  BY DEF RemoveAt
<1> HIDE DEF a, b
<1>5. /\ a \o b \in Seq(S) /\ Len(a \o b) = Len(a) + Len(b)
      /\ \A k \in 1..(Len(a) + Len(b)) :
           (a \o b)[k] = IF k <= Len(a) THEN a[k] ELSE b[k - Len(a)]
  BY <1>2, <1>3, ConcatProperties
<1> DEFINE c == a \o b
<1> HIDE DEF c
<1>6. /\ c \in Seq(S) /\ Len(c) = Len(s) - 1
      /\ \A k \in 1..(Len(s) - 1) : c[k] = IF k <= i - 1 THEN a[k] ELSE b[k - (i - 1)]
  BY <1>1, <1>2, <1>3, <1>5 DEF c
<1>7. ASSUME NEW k \in 1..(Len(s) - 1)
      PROVE  c[k] = IF k < i THEN s[k] ELSE s[k + 1]
  <2>1. CASE k < i
    <3>1. c[k] = a[k] /\ k \in 1..(i - 1)
      BY <1>1, <1>6, <2>1
    <3> QED
      BY <1>2, <2>1, <3>1
  <2>2. CASE ~ (k < i)
    <3>1. /\ c[k] = b[k - (i - 1)] /\ k - (i - 1) \in 1..(Len(s) - i)
          /\ i + (k - (i - 1)) = k + 1
      BY <1>1, <1>6, <2>2
    <3> QED
      BY <1>3, <2>2, <3>1
  <2> QED
    BY <2>1, <2>2
<1> QED
  BY <1>4, <1>6, <1>7 DEF c

-----------------------------------------------------------------------------
(* The joins of a tree.                                                    *)

LEMMA FactIsASource ==
  ASSUME NEW model, IsModel(model), ContractAccepts(model)
  PROVE  /\ Fact(model) \in Range(model.sources) /\ Fact(model).role = "fact"
         /\ \A source \in Range(model.sources) : source.role = "fact" => source = Fact(model)
         /\ Fact(model).alias \in Aliases(model)
<1> DEFINE is == {i \in DOMAIN model.sources : model.sources[i].role = "fact"}
<1>1. DOMAIN model.sources = 1..Len(model.sources) /\ Len(model.sources) \in Nat
  BY DEF IsModel
<1>2. IsFiniteSet(is)
  <2>1. IsFiniteSet(DOMAIN model.sources) /\ is \in SUBSET DOMAIN model.sources
    BY <1>1, UpTo
  <2> HIDE DEF is
  <2> QED
    BY <2>1, FS_Subset
<1>3. Cardinality(is) = 1
  BY DEF ContractAccepts
<1> HIDE DEF is
<1>4. PICK i : is = {i}
  BY <1>2, <1>3, FS_Singleton
<1>5. i \in DOMAIN model.sources /\ model.sources[i].role = "fact"
  BY <1>4 DEF is
<1>6. model.sources[i] \in Facts(model)
  BY <1>5 DEF Facts, Range
<1>7. Fact(model) \in Facts(model)
  BY <1>6 DEF Fact
<1>8. ASSUME NEW source \in Facts(model)
      PROVE  source = model.sources[i]
  BY <1>4, <1>8 DEF Facts, Range, is
<1> QED
  BY <1>7, <1>8 DEF Facts, Aliases

(* Every source but the fact is the right end of one join, the fact of none.*)
LEMMA OneJoinForEachSource ==
  ASSUME NEW model, IsModel(model), ContractAccepts(model), IsDirectedTree(model)
  PROVE  /\ \A i \in DOMAIN model.joins : model.joins[i].right # Fact(model).alias
         /\ \A i, j \in DOMAIN model.joins :
              model.joins[i].right = model.joins[j].right => i = j
<1> DEFINE joins == model.joins
           fact == Fact(model).alias
           others == Aliases(model) \ {fact}
           right == [i \in DOMAIN joins |-> joins[i].right]
           rights == {right[i] : i \in DOMAIN joins}
<1>1. DOMAIN joins = 1..Len(joins) /\ Len(joins) \in Nat /\ Len(model.sources) \in Nat
  BY DEF IsModel
<1>2. IsFiniteSet(DOMAIN joins) /\ Cardinality(DOMAIN joins) = Len(joins)
  BY <1>1, UpTo
<1>3. others \subseteq rights
  <2> SUFFICES ASSUME NEW alias \in others
               PROVE  alias \in rights
    OBVIOUS
  <2> DEFINE closed == Aliases(model) \ {alias}
  <2>1. closed \in SUBSET Aliases(model) /\ closed # Aliases(model) /\ fact \in closed
    BY FactIsASource
  <2> HIDE DEF closed
  <2>2. PICK join \in Range(joins) : join.left \in closed /\ join.right \notin closed
    BY <2>1 DEF IsDirectedTree
  <2>3. join.right \in Aliases(model)
    BY DEF ContractAccepts, Ends
  <2>4. join.right = alias
    BY <2>2, <2>3 DEF closed
  <2> QED
    BY <2>4 DEF Range
<1>4. right \in Surjection(DOMAIN joins, rights)
  BY DEF Surjection
<1>5. Cardinality(others) = Len(joins) /\ IsFiniteSet(others)
  <2>1. Cardinality(Aliases(model)) = Len(joins) + 1 /\ fact \in Aliases(model)
    BY <1>1, FactIsASource DEF ContractAccepts
  <2>2. IsFiniteSet(Aliases(model))
    <3> DEFINE alias == [i \in 1..Len(model.sources) |-> model.sources[i].alias]
    <3>1. alias \in Surjection(1..Len(model.sources), Aliases(model))
      <4>1. DOMAIN model.sources = 1..Len(model.sources)
        BY DEF IsModel
      <4> QED
        BY <4>1 DEF Surjection, Aliases, Range
    <3>2. IsFiniteSet(1..Len(model.sources))
      BY <1>1, UpTo
    <3> HIDE DEF alias
    <3> QED
      BY <3>1, <3>2, FS_Surjection
  <2> HIDE DEF fact, joins
  <2>3. /\ IsFiniteSet(Aliases(model) \ {fact})
        /\ Cardinality(Aliases(model) \ {fact}) =
             IF fact \in Aliases(model) THEN Cardinality(Aliases(model)) - 1
             ELSE Cardinality(Aliases(model))
    BY <2>2, FS_RemoveElement
  <2> QED
    BY <1>1, <2>1, <2>3
<1> HIDE DEF right, others
<1>6. IsFiniteSet(rights) /\ Cardinality(rights) <= Len(joins)
  BY <1>2, <1>4, FS_Surjection
<1> HIDE DEF rights
<1>7. /\ Cardinality(others) <= Cardinality(rights)
      /\ Cardinality(rights) = Cardinality(others) => rights = others
  BY <1>3, <1>6, FS_Subset
<1>8. Cardinality(rights) = Len(joins) /\ rights = others
  <2>1. Cardinality(rights) \in Nat
    BY <1>6, FS_CardinalityType
  <2> HIDE DEF joins
  <2> QED
    BY <1>1, <1>5, <1>6, <1>7, <2>1
<1>9. right \in Injection(DOMAIN joins, rights)
  BY <1>2, <1>4, <1>8, FS_Surjection
<1> QED
  BY <1>8, <1>9 DEF Injection, IsInjective, right, rights, others

-----------------------------------------------------------------------------
(* The turns of the loop over the pending joins.                           *)

Errors == {"none", "disconnected", "cycle", "direction", "role"}

LoopStates(model) ==
  [joined : SUBSET Aliases(model), pending : Seq(Range(model.joins)),
   from : Seq(Range(model.joins)), error : Errors]

LoopStart(model) ==
  [joined |-> {Fact(model).alias}, pending |-> model.joins, from |-> << >>, error |-> "none"]

Turns(model) ==
  CHOOSE turn : turn = [n \in Nat |-> IF n = 0 THEN LoopStart(model)
                                      ELSE Attach(model, turn[n - 1])]

(* A join the contract accepts is between two of the sources.              *)
LEMMA JoinsEndInSources ==
  ASSUME NEW model, ContractAccepts(model), NEW join \in Range(model.joins)
  PROVE  join.left \in Aliases(model) /\ join.right \in Aliases(model)
BY DEF ContractAccepts, Ends

(* A turn of the loop attaches a join that it takes from the pending ones, *)
(* stops, or leaves everything as it is.                                   *)
TakesJoin(model, state, index, after) ==
  LET join == state.pending[index]
  IN /\ state.error = "none" /\ index \in DOMAIN state.pending
     /\ join.left \in state.joined /\ join.right \notin state.joined
     /\ SourceOf(model, join.right).role = "dimension"
     /\ after = [state EXCEPT !.joined = @ \cup {join.right},
                              !.pending = RemoveAt(@, index), !.from = Append(@, join)]

StopsLoop(model, state, after) ==
  /\ state.error = "none" /\ state.pending # << >>
  /\ \E error \in Errors \ {"none"} :
       /\ after = [state EXCEPT !.error = error]
       /\ \/ \A i \in DOMAIN state.pending : Ends(state.pending[i]) \cap state.joined = {}
          \/ \E i \in DOMAIN state.pending :
               LET join == state.pending[i]
               IN \/ join.right \in state.joined
                  \/ /\ join.left \in state.joined /\ join.right \notin state.joined
                     /\ SourceOf(model, join.right).role # "dimension"

(* A turn of the loop leaves the state alone once it ended, stops with an  *)
(* error, or takes one join.                                               *)
LEMMA TurnOfTheLoop ==
  ASSUME NEW model, NEW state \in LoopStates(model)
  PROVE  LET after == Attach(model, state)
         IN \/ (state.error # "none" \/ state.pending = << >>) /\ after = state
            \/ StopsLoop(model, state, after)
            \/ \E index : TakesJoin(model, state, index, after)
<1> DEFINE after == Attach(model, state)
           first == FirstTouching(state)
           index == CHOOSE i \in first : TRUE
           join == state.pending[index]
<1>1. CASE state.error # "none" \/ state.pending = << >>
  BY <1>1 DEF Attach
<1>2. CASE state.error = "none" /\ state.pending # << >> /\ first = {}
  <2>1. after = [state EXCEPT !.error = "disconnected"]
    BY <1>2 DEF Attach
  <2>2. \A i \in DOMAIN state.pending : Ends(state.pending[i]) \cap state.joined = {}
    <3> DEFINE T == {i \in DOMAIN state.pending : Ends(state.pending[i]) \cap state.joined # {}}
    <3>1. SUFFICES ASSUME T # {} PROVE FALSE
      OBVIOUS
    <3>2. DOMAIN state.pending = 1..Len(state.pending) /\ Len(state.pending) \in Nat
      BY DEF LoopStates
    <3>3. T \in SUBSET Nat
      BY <3>2
    <3> HIDE DEF T
    <3>4. PICK m \in T : \A i \in T : m <= i
      BY <3>1, <3>3, LeastNatural
    <3>5. m \in first
      BY <3>2, <3>4 DEF FirstTouching, T
    <3> QED
      BY <1>2, <3>5
  <2>3. "disconnected" \in Errors \ {"none"}
    BY DEF Errors
  <2> QED
    BY <1>2, <2>1, <2>2, <2>3 DEF StopsLoop
<1>3. CASE state.error = "none" /\ state.pending # << >> /\ first # {}
  <2>1. /\ index \in DOMAIN state.pending
        /\ join.left \in state.joined \/ join.right \in state.joined
    BY <1>3 DEF FirstTouching, Ends
  <2>2. after = IF Ends(join) \subseteq state.joined THEN [state EXCEPT !.error = "cycle"]
                ELSE IF join.left \notin state.joined
                  THEN [state EXCEPT !.error = "direction"]
                ELSE IF SourceOf(model, join.right).role # "dimension"
                  THEN [state EXCEPT !.error = "role"]
                ELSE [state EXCEPT !.joined = @ \cup {join.right},
                                   !.pending = RemoveAt(@, index), !.from = Append(@, join)]
    BY <1>3 DEF Attach
  <2> HIDE DEF after, index
  <2>3. CASE join.right \in state.joined
    <3>1. after = [state EXCEPT !.error = "cycle"] \/ after = [state EXCEPT !.error = "direction"]
      <4> HIDE DEF join
      <4>1. CASE join.left \in state.joined
        <5>1. Ends(join) \subseteq state.joined
          BY <2>3, <4>1 DEF Ends
        <5> QED
          BY <2>2, <5>1
      <4>2. CASE join.left \notin state.joined
        <5>1. ~ (Ends(join) \subseteq state.joined)
          BY <4>2 DEF Ends
        <5> QED
          BY <2>2, <4>2, <5>1
      <4> QED
        BY <4>1, <4>2
    <3>2. {"cycle", "direction"} \subseteq Errors \ {"none"}
      BY DEF Errors
    <3> QED
      BY <1>3, <2>1, <2>3, <3>1, <3>2 DEF StopsLoop, after
  <2>4. CASE /\ join.left \in state.joined /\ join.right \notin state.joined
             /\ SourceOf(model, join.right).role # "dimension"
    <3>1. after = [state EXCEPT !.error = "role"]
      BY <2>2, <2>4 DEF Ends
    <3>2. "role" \in Errors \ {"none"}
      BY DEF Errors
    <3> QED
      BY <1>3, <2>1, <2>4, <3>1, <3>2 DEF StopsLoop, after
  <2>5. CASE /\ join.left \in state.joined /\ join.right \notin state.joined
             /\ SourceOf(model, join.right).role = "dimension"
    <3>1. after = [state EXCEPT !.joined = @ \cup {join.right},
                                !.pending = RemoveAt(@, index), !.from = Append(@, join)]
      BY <2>2, <2>5 DEF Ends
    <3>2. TakesJoin(model, state, index, after)
      BY <1>3, <2>1, <2>5, <3>1 DEF TakesJoin
    <3> QED
      BY <3>2 DEF after
  <2> QED
    BY <2>1, <2>3, <2>4, <2>5
<1> QED
  BY <1>1, <1>2, <1>3

(* What the loop has attached after some turns, and what is left.          *)
AttachedInOrder(model, state) ==
  LET from == state.from
      Earlier(i) == {Fact(model).alias} \cup {from[j].right : j \in 1..(i - 1)}
  IN /\ state.joined = {Fact(model).alias} \cup {join.right : join \in Range(from)}
     /\ \A i \in DOMAIN from : from[i].left \in Earlier(i) /\ from[i].right \notin Earlier(i)

IsSplit(model, state) ==
  /\ Range(state.pending) \cup Range(state.from) = Range(model.joins)
  /\ Range(state.pending) \cap Range(state.from) = {}
  /\ \A i, j \in DOMAIN state.pending : state.pending[i] = state.pending[j] => i = j

LoopInv(model, state, n) ==
  /\ state \in LoopStates(model)
  /\ AttachedInOrder(model, state)
  /\ IsSplit(model, state)
  /\ state.error = "none" =>
       Len(state.pending) = IF n <= Len(model.joins) THEN Len(model.joins) - n ELSE 0
  /\ \A closed \in SUBSET Aliases(model) :
       /\ Fact(model).alias \in closed
       /\ \A join \in Range(model.joins) : join.left \in closed => join.right \in closed
       => state.joined \subseteq closed

(* What holds in every turn holds before the first.                        *)
LEMMA LoopStarts ==
  ASSUME NEW model, IsModel(model), ContractAccepts(model)
  PROVE  LoopInv(model, LoopStart(model), 0)
<1> DEFINE state == LoopStart(model)
<1>1. model.joins \in Seq(Range(model.joins)) /\ Len(model.joins) \in Nat
      /\ DOMAIN model.joins = 1..Len(model.joins)
  BY DEF IsModel
<1>2. /\ state.joined = {Fact(model).alias} /\ state.pending = model.joins
      /\ state.from = << >> /\ state.error = "none"
  BY DEF LoopStart
<1>3. state \in LoopStates(model)
  BY <1>1, FactIsASource DEF LoopStart, LoopStates, Errors
<1>4. DOMAIN << >> = {} /\ Range(<< >>) = {}
  BY DEF Range
<1> HIDE DEF state
<1>5. AttachedInOrder(model, state)
  BY <1>2, <1>4 DEF AttachedInOrder
<1>6. \A i, j \in DOMAIN model.joins : model.joins[i] = model.joins[j] => i = j
  BY DEF ContractAccepts
<1>7. IsSplit(model, state)
  BY <1>2, <1>4, <1>6 DEF IsSplit
<1> QED
  BY <1>1, <1>2, <1>3, <1>5, <1>7 DEF LoopInv, state

(* It holds when a turn ends in an error.                                  *)
LEMMA LoopStops ==
  ASSUME NEW model, NEW n \in Nat, NEW state, LoopInv(model, state, n),
         NEW after, StopsLoop(model, state, after)
  PROVE  LoopInv(model, after, n + 1) /\ after.error # "none"
<1>1. /\ after.joined = state.joined /\ after.pending = state.pending
      /\ after.from = state.from /\ after.error # "none" /\ after \in LoopStates(model)
  BY DEF StopsLoop, LoopInv, LoopStates
<1> QED
  BY <1>1 DEF LoopInv, AttachedInOrder, IsSplit

(* It holds when a turn takes a join: the join brings a new source to one  *)
(* that is there.                                                          *)
LEMMA LoopAttaches ==
  ASSUME NEW model, IsModel(model), ContractAccepts(model), NEW n \in Nat, NEW state,
         LoopInv(model, state, n), NEW index, NEW after, TakesJoin(model, state, index, after)
  PROVE  LoopInv(model, after, n + 1) /\ after.error = "none"
<1> DEFINE join == state.pending[index]
           fact == Fact(model).alias
<1>1. /\ state.joined \in SUBSET Aliases(model) /\ state.error = "none"
      /\ state.pending \in Seq(Range(model.joins)) /\ Len(state.pending) \in Nat
      /\ DOMAIN state.pending = 1..Len(state.pending)
      /\ state.from \in Seq(Range(model.joins)) /\ Len(state.from) \in Nat
      /\ DOMAIN state.from = 1..Len(state.from)
  BY DEF LoopInv, LoopStates, TakesJoin
<1>2. index \in 1..Len(state.pending) /\ join \in Range(state.pending)
      /\ join \in Range(model.joins)
  BY <1>1 DEF TakesJoin, Range
<1>3. join.left \in Aliases(model) /\ join.right \in Aliases(model)
  BY <1>2, JoinsEndInSources
<1>4. join.left \in state.joined /\ join.right \notin state.joined
  BY DEF TakesJoin
<1>5. /\ after.joined = state.joined \cup {join.right} /\ after.error = "none"
      /\ after.pending = RemoveAt(state.pending, index) /\ after.from = Append(state.from, join)
      /\ DOMAIN after = {"joined", "pending", "from", "error"}
  BY <1>1 DEF TakesJoin, LoopInv, LoopStates
<1>6. after = [joined |-> after.joined, pending |-> after.pending, from |-> after.from,
               error |-> after.error]
  BY DEF TakesJoin, LoopInv, LoopStates
<1>7. /\ RemoveAt(state.pending, index) \in Seq(Range(model.joins))
      /\ Len(RemoveAt(state.pending, index)) = Len(state.pending) - 1
      /\ \A k \in 1..(Len(state.pending) - 1) :
           RemoveAt(state.pending, index)[k] =
             IF k < index THEN state.pending[k] ELSE state.pending[k + 1]
  BY <1>1, <1>2, RemovedAt
<1>8. /\ Append(state.from, join) \in Seq(Range(model.joins))
      /\ DOMAIN Append(state.from, join) = 1..(Len(state.from) + 1)
      /\ Append(state.from, join)[Len(state.from) + 1] = join
      /\ \A i \in 1..Len(state.from) : Append(state.from, join)[i] = state.from[i]
  BY <1>1, <1>2
<1> DEFINE pending == after.pending
           from == after.from
           last == Len(state.from) + 1
<1> HIDE DEF join, fact
<1>9. /\ pending \in Seq(Range(model.joins)) /\ Len(pending) = Len(state.pending) - 1
      /\ DOMAIN pending = 1..Len(pending)
      /\ \A k \in DOMAIN pending :
           pending[k] = IF k < index THEN state.pending[k] ELSE state.pending[k + 1]
  <2>1. pending = RemoveAt(state.pending, index)
    BY <1>5
  <2> HIDE DEF pending
  <2>2. pending \in Seq(Range(model.joins)) /\ Len(pending) = Len(state.pending) - 1
    BY <1>7, <2>1
  <2>3. DOMAIN pending = 1..(Len(state.pending) - 1)
    BY <2>2
  <2> QED
    BY <1>7, <2>1, <2>2, <2>3
<1>10. /\ from \in Seq(Range(model.joins)) /\ DOMAIN from = 1..last
       /\ from[last] = join /\ \A i \in 1..Len(state.from) : from[i] = state.from[i]
  BY <1>5, <1>8
<1>11. after \in LoopStates(model)
  <2>1. after.joined \in SUBSET Aliases(model) /\ after.error \in Errors
    BY <1>1, <1>3, <1>5 DEF Errors
  <2> QED
    BY <1>6, <1>9, <1>10, <2>1 DEF LoopStates
<1> HIDE DEF pending, from
<1>12. Range(from) = Range(state.from) \cup {join}
  <2>1. ASSUME NEW i \in 1..last
        PROVE  from[i] \in Range(state.from) \cup {join}
    <3>1. CASE i = last
      BY <1>10, <3>1
    <3>2. CASE i # last
      <4>1. i \in 1..Len(state.from)
        BY <1>1, <3>2
      <4> QED
        BY <1>1, <1>10, <4>1 DEF Range
    <3> QED
      BY <3>1, <3>2
  <2>2. last \in 1..last /\ \A i \in 1..Len(state.from) : i \in 1..last
    BY <1>1
  <2> QED
    BY <1>1, <1>10, <2>1, <2>2 DEF Range
<1>13. \A i, j \in DOMAIN state.pending : state.pending[i] = state.pending[j] => i = j
  BY DEF LoopInv, IsSplit
<1>14. /\ \A i, j \in DOMAIN pending : pending[i] = pending[j] => i = j
       /\ Range(pending) = Range(state.pending) \ {join}
  <2> DEFINE old(k) == IF k < index THEN k ELSE k + 1
  <2>1. \A k \in DOMAIN pending : /\ old(k) \in DOMAIN state.pending /\ old(k) # index
                                  /\ pending[k] = state.pending[old(k)]
    BY <1>1, <1>2, <1>9
  <2>2. \A i, j \in DOMAIN pending : old(i) = old(j) => i = j
    BY <1>1, <1>2, <1>9
  <2>3. ASSUME NEW i \in DOMAIN state.pending, i # index
        PROVE  \E k \in DOMAIN pending : old(k) = i
    <3>1. CASE i < index
      <4>1. i \in DOMAIN pending /\ old(i) = i
        BY <1>1, <1>2, <1>9, <3>1
      <4> QED
        BY <4>1
    <3>2. CASE i > index
      <4>1. i - 1 \in DOMAIN pending /\ old(i - 1) = i
        BY <1>1, <1>2, <1>9, <3>2
      <4> QED
        BY <4>1
    <3> QED
      BY <1>1, <1>2, <2>3, <3>1, <3>2
  <2>4. index \in DOMAIN state.pending /\ join = state.pending[index]
    BY <1>1, <1>2 DEF join
  <2> HIDE DEF old
  <2>5. \A i, j \in DOMAIN pending : pending[i] = pending[j] => i = j
    BY <1>13, <2>1, <2>2
  <2>6. ASSUME NEW k \in DOMAIN pending
        PROVE  pending[k] \in Range(state.pending) \ {join}
    BY <1>13, <2>1, <2>4 DEF Range
  <2>7. ASSUME NEW other \in Range(state.pending) \ {join}
        PROVE  other \in Range(pending)
    <3>1. PICK i \in DOMAIN state.pending : other = state.pending[i]
      BY DEF Range
    <3>2. i # index
      BY <2>4, <3>1
    <3>3. PICK k \in DOMAIN pending : old(k) = i
      BY <2>3, <3>2
    <3> QED
      BY <2>1, <3>1, <3>3 DEF Range
  <2>8. Range(pending) = Range(state.pending) \ {join}
    BY <2>6, <2>7 DEF Range
  <2> QED
    BY <2>5, <2>8
<1>15. IsSplit(model, after)
  <2>1. /\ Range(state.pending) \cup Range(state.from) = Range(model.joins)
        /\ Range(state.pending) \cap Range(state.from) = {}
    BY DEF LoopInv, IsSplit
  <2>2. /\ Range(pending) \cup Range(from) = Range(model.joins)
        /\ Range(pending) \cap Range(from) = {}
    BY <1>2, <1>12, <1>14, <2>1
  <2> QED
    BY <1>14, <2>2 DEF IsSplit, pending, from
<1>16. AttachedInOrder(model, after)
  <2> DEFINE EarlierOf(s, i) == {fact} \cup {s[j].right : j \in 1..(i - 1)}
  <2>1. /\ state.joined = {fact} \cup {one.right : one \in Range(state.from)}
        /\ \A i \in DOMAIN state.from : /\ state.from[i].left \in EarlierOf(state.from, i)
                                        /\ state.from[i].right \notin EarlierOf(state.from, i)
    BY DEF LoopInv, AttachedInOrder, fact
  <2>2. after.joined = {fact} \cup {one.right : one \in Range(from)}
    BY <1>5, <1>12, <2>1
  <2>3. \A i \in 1..last : EarlierOf(from, i) = EarlierOf(state.from, i)
    <3> SUFFICES ASSUME NEW i \in 1..last
                 PROVE  \A j \in 1..(i - 1) : from[j].right = state.from[j].right
      OBVIOUS
    <3>1. \A j \in 1..(i - 1) : j \in 1..Len(state.from)
      BY <1>1
    <3> QED
      BY <1>10, <3>1
  <2>4. EarlierOf(state.from, last) = state.joined
    <3>1. last - 1 = Len(state.from)
      BY <1>1
    <3> QED
      BY <1>1, <2>1, <3>1 DEF Range
  <2> HIDE DEF EarlierOf
  <2>5. ASSUME NEW i \in 1..last
        PROVE  from[i].left \in EarlierOf(from, i) /\ from[i].right \notin EarlierOf(from, i)
    <3>1. CASE i = last
      BY <1>4, <1>10, <2>3, <2>4, <3>1
    <3>2. CASE i # last
      <4>1. i \in DOMAIN state.from /\ from[i] = state.from[i]
        BY <1>1, <1>10, <3>2
      <4> QED
        BY <2>1, <2>3, <4>1
    <3> QED
      BY <3>1, <3>2
  <2> QED
    BY <1>10, <2>2, <2>5 DEF AttachedInOrder, EarlierOf, from, fact
<1>17. ASSUME NEW closed \in SUBSET Aliases(model), fact \in closed,
              \A one \in Range(model.joins) : one.left \in closed => one.right \in closed
       PROVE  after.joined \subseteq closed
  <2>1. state.joined \subseteq closed
    BY <1>17 DEF LoopInv, fact
  <2> QED
    BY <1>2, <1>4, <1>5, <1>17, <2>1
<1>18. Len(after.pending) =
         IF n + 1 <= Len(model.joins) THEN Len(model.joins) - (n + 1) ELSE 0
  <2>1. Len(state.pending) = IF n <= Len(model.joins) THEN Len(model.joins) - n ELSE 0
    BY <1>1 DEF LoopInv
  <2>2. Len(model.joins) \in Nat
    BY DEF IsModel
  <2>3. Len(after.pending) = Len(state.pending) - 1 /\ Len(state.pending) >= 1
    BY <1>1, <1>2, <1>9 DEF pending
  <2> QED
    BY <1>1, <2>1, <2>2, <2>3
<1> QED
  BY <1>5, <1>11, <1>15, <1>16, <1>17, <1>18 DEF LoopInv, fact

(* It holds when the loop has ended.                                       *)
LEMMA LoopWaits ==
  ASSUME NEW model, IsModel(model), NEW n \in Nat, NEW state, LoopInv(model, state, n),
         state.error # "none" \/ state.pending = << >>
  PROVE  LoopInv(model, state, n + 1)
<1>1. /\ state \in LoopStates(model) /\ AttachedInOrder(model, state) /\ IsSplit(model, state)
      /\ \A closed \in SUBSET Aliases(model) :
           /\ Fact(model).alias \in closed
           /\ \A join \in Range(model.joins) : join.left \in closed => join.right \in closed
           => state.joined \subseteq closed
  BY DEF LoopInv
<1>2. ASSUME state.error = "none"
      PROVE  Len(state.pending) =
               IF n + 1 <= Len(model.joins) THEN Len(model.joins) - (n + 1) ELSE 0
  <2>1. Len(model.joins) \in Nat
    BY DEF IsModel
  <2>2. Len(state.pending) = 0
    BY <1>2
  <2>3. Len(state.pending) = IF n <= Len(model.joins) THEN Len(model.joins) - n ELSE 0
    BY <1>2 DEF LoopInv
  <2> QED
    BY <2>1, <2>2, <2>3
<1> QED
  BY <1>1, <1>2 DEF LoopInv

(* It holds after every turn.                                              *)
LEMMA LoopTurns ==
  ASSUME NEW model, IsModel(model), ContractAccepts(model), NEW n \in Nat, NEW state,
         LoopInv(model, state, n)
  PROVE  LoopInv(model, Attach(model, state), n + 1)
<1> DEFINE after == Attach(model, state)
<1>1. state \in LoopStates(model)
  BY DEF LoopInv
<1>2. \/ (state.error # "none" \/ state.pending = << >>) /\ after = state
      \/ StopsLoop(model, state, after)
      \/ \E index : TakesJoin(model, state, index, after)
  BY <1>1, TurnOfTheLoop
<1> HIDE DEF after
<1>3. LoopInv(model, after, n + 1)
  BY <1>2, LoopWaits, LoopStops, LoopAttaches
<1> QED
  BY <1>3 DEF after

(* The joins of a directed tree are never in the way of the loop.          *)
LEMMA TreesDoNotStop ==
  ASSUME NEW model, IsModel(model), ContractAccepts(model), IsDirectedTree(model),
         NEW n \in Nat, NEW state, LoopInv(model, state, n), NEW after,
         StopsLoop(model, state, after)
  PROVE  FALSE
<1> DEFINE fact == Fact(model).alias
<1>1. /\ state.joined \in SUBSET Aliases(model)
      /\ state.pending \in Seq(Range(model.joins)) /\ Len(state.pending) \in Nat
      /\ DOMAIN state.pending = 1..Len(state.pending)
  BY DEF LoopInv, LoopStates
<1>2. /\ Range(state.pending) \cup Range(state.from) = Range(model.joins)
      /\ Range(state.pending) \cap Range(state.from) = {}
  BY DEF LoopInv, IsSplit
<1>3. state.joined = {fact} \cup {join.right : join \in Range(state.from)}
  BY DEF LoopInv, AttachedInOrder
<1>4. /\ \A join \in Range(model.joins) : join.right # fact
      /\ \A join, other \in Range(model.joins) : join.right = other.right => join = other
  <2>1. /\ \A i \in DOMAIN model.joins : model.joins[i].right # fact
        /\ \A i, j \in DOMAIN model.joins :
             model.joins[i].right = model.joins[j].right => i = j
    BY OneJoinForEachSource
  <2> QED
    BY <2>1 DEF Range
<1>5. \A i \in DOMAIN state.pending : state.pending[i] \in Range(state.pending)
  BY DEF Range
<1> HIDE DEF fact
<1>6. ~ \A i \in DOMAIN state.pending : Ends(state.pending[i]) \cap state.joined = {}
  <2> SUFFICES ASSUME \A i \in DOMAIN state.pending :
                        Ends(state.pending[i]) \cap state.joined = {}
               PROVE  FALSE
    OBVIOUS
  <2>1. ASSUME NEW join \in Range(model.joins), join.left \in state.joined
        PROVE  join.right \in state.joined
    <3>1. join \notin Range(state.pending)
      BY <2>1 DEF Range, Ends
    <3> QED
      BY <1>2, <1>3, <3>1
  <2>2. fact \in state.joined
    BY <1>3
  <2>3. state.joined = Aliases(model)
    BY <1>1, <2>1, <2>2 DEF IsDirectedTree, fact
  <2>4. 1 \in DOMAIN state.pending
    BY <1>1 DEF StopsLoop
  <2>5. state.pending[1].left \in Aliases(model)
    BY <1>2, <1>5, <2>4, JoinsEndInSources
  <2> QED
    BY <2>3, <2>4, <2>5 DEF Ends
<1>7. ASSUME NEW i \in DOMAIN state.pending
      PROVE  state.pending[i].right \notin state.joined
  <2>1. state.pending[i] \in Range(state.pending)
    BY <1>5
  <2> QED
    BY <1>2, <1>3, <1>4, <2>1
<1>8. ASSUME NEW i \in DOMAIN state.pending
      PROVE  SourceOf(model, state.pending[i].right).role = "dimension"
  <2> DEFINE right == state.pending[i].right
             source == SourceOf(model, right)
  <2>1. right \in Aliases(model)
    BY <1>2, <1>5, JoinsEndInSources
  <2>2. source \in Range(model.sources) /\ source.alias = right
    BY <2>1 DEF Aliases, SourceOf
  <2>3. right # fact
    BY <1>2, <1>4, <1>5
  <2> HIDE DEF source, right
  <2>4. source.role # "fact"
    BY <2>2, <2>3, FactIsASource DEF fact
  <2>5. source.role = "dimension"
    BY <2>2, <2>4 DEF IsModel
  <2> QED
    BY <2>5 DEF source, right
<1> QED
  BY <1>6, <1>7, <1>8 DEF StopsLoop

(* On a tree no turn ends in an error: were no join left to take, the      *)
(* sources that are joined would be closed.                                *)
LEMMA TreesTurn ==
  ASSUME NEW model, IsModel(model), ContractAccepts(model), IsDirectedTree(model),
         NEW n \in Nat, NEW state, LoopInv(model, state, n), state.error = "none"
  PROVE  Attach(model, state).error = "none"
<1> DEFINE after == Attach(model, state)
<1>1. state \in LoopStates(model)
  BY DEF LoopInv
<1>2. \/ after = state
      \/ StopsLoop(model, state, after)
      \/ \E index : TakesJoin(model, state, index, after)
  BY <1>1, TurnOfTheLoop
<1> HIDE DEF after
<1>3. after.error = "none"
  BY <1>2, TreesDoNotStop, LoopAttaches
<1> QED
  BY <1>3 DEF after

(* The turns of the loop, as a function of their number.                   *)
LEMMA TurnsAre ==
  ASSUME NEW model, IsModel(model), ContractAccepts(model)
  PROVE  Turns(model) = [n \in Nat |-> IF n = 0 THEN LoopStart(model)
                                       ELSE Attach(model, Turns(model)[n - 1])]
<1> DEFINE S == {state \in LoopStates(model) : \E n \in Nat : LoopInv(model, state, n)}
           step == [n \in Nat |-> [state \in S |-> Attach(model, state)]]
<1>1. LoopStart(model) \in S
  <2>1. LoopInv(model, LoopStart(model), 0)
    BY LoopStarts
  <2> QED
    BY <2>1 DEF LoopInv
<1>2. ASSUME NEW state \in S
      PROVE  Attach(model, state) \in S
  <2>1. PICK n \in Nat : LoopInv(model, state, n)
    OBVIOUS
  <2> DEFINE after == Attach(model, state)
  <2>2. LoopInv(model, after, n + 1)
    BY <2>1, LoopTurns
  <2> HIDE DEF after
  <2>3. after \in S
    BY <2>2 DEF LoopInv
  <2> QED
    BY <2>3 DEF after
<1> HIDE DEF S
<1>3. step \in [Nat -> [S -> S]]
  BY <1>2
<1> HIDE DEF step
<1>4. PICK f \in [Nat -> S] :
        f = [n \in Nat |-> IF n = 0 THEN LoopStart(model) ELSE step[n][f[n - 1]]]
  BY <1>1, <1>3, StepByStep
<1>5. ASSUME NEW n \in Nat, n # 0
      PROVE  step[n][f[n - 1]] = Attach(model, f[n - 1])
  <2>1. f[n - 1] \in S
    BY <1>4, <1>5
  <2> QED
    BY <2>1 DEF step
<1>6. f = [n \in Nat |-> IF n = 0 THEN LoopStart(model) ELSE Attach(model, f[n - 1])]
  <2>1. \A n \in Nat : (IF n = 0 THEN LoopStart(model) ELSE step[n][f[n - 1]])
                       = IF n = 0 THEN LoopStart(model) ELSE Attach(model, f[n - 1])
    BY <1>5
  <2> QED
    BY <1>4, <2>1
<1> QED
  BY <1>6 DEF Turns

(* The state of the loop after as many turns as there are joins.           *)
LEMMA LoopEnds ==
  ASSUME NEW model, IsModel(model), ContractAccepts(model)
  PROVE  /\ LoopInv(model, Attached(model), Len(model.joins))
         /\ IsDirectedTree(model) => Attached(model).error = "none"
<1> DEFINE turn == Turns(model)
           Holds(n) == /\ LoopInv(model, turn[n], n)
                       /\ IsDirectedTree(model) => turn[n].error = "none"
           T == {n \in Nat : Holds(n)}
<1>1. turn[0] = LoopStart(model) /\ \A n \in Nat : turn[n + 1] = Attach(model, turn[n])
  <2> HIDE DEF turn
  <2>1. turn = [n \in Nat |-> IF n = 0 THEN LoopStart(model) ELSE Attach(model, turn[n - 1])]
    BY TurnsAre DEF turn
  <2>2. ASSUME NEW n \in Nat
        PROVE  turn[n + 1] = Attach(model, turn[n])
    <3>1. n + 1 \in Nat /\ n + 1 # 0 /\ (n + 1) - 1 = n
      OBVIOUS
    <3>2. turn[n + 1] = IF n + 1 = 0 THEN LoopStart(model) ELSE Attach(model, turn[(n + 1) - 1])
      BY <2>1, <3>1
    <3> QED
      BY <3>1, <3>2
  <2>3. turn[0] = LoopStart(model)
    BY <2>1
  <2> QED
    BY <2>2, <2>3
<1> HIDE DEF turn
<1>2. 0 \in T
  <2>1. LoopInv(model, turn[0], 0) /\ turn[0].error = "none"
    BY <1>1, LoopStarts DEF LoopStart
  <2> QED
    BY <2>1
<1>3. ASSUME NEW n \in T \cap Nat, n < Len(model.joins)
      PROVE  n + 1 \in T
  <2>1. turn[n + 1] = Attach(model, turn[n])
    BY <1>1
  <2>2. LoopInv(model, Attach(model, turn[n]), n + 1)
    BY LoopTurns
  <2>3. IsDirectedTree(model) => Attach(model, turn[n]).error = "none"
    BY TreesTurn
  <2> QED
    BY <2>1, <2>2, <2>3
<1> HIDE DEF T
<1>4. Len(model.joins) \in Nat
  BY DEF IsModel
<1>5. Len(model.joins) \in T
  BY <1>2, <1>3, <1>4, Reaches
<1>6. Attached(model) = turn[Len(model.joins)]
  BY DEF Attached, turn, Turns, LoopStart
<1> QED
  BY <1>5, <1>6 DEF T

(* resolve_semantic_join_topology: the loop attaches every source exactly  *)
(* when the joins form a tree away from the fact, and each join it         *)
(* attaches brings a new source.                                           *)
THEOREM TheLoopFindsTrees ==
  ASSUME NEW model, IsModel(model), ContractAccepts(model)
  PROVE  /\ (Attached(model).error = "none" /\ Attached(model).joined = Aliases(model))
              <=> IsDirectedTree(model)
         /\ AttachedInOrder(model, Attached(model))
<1> DEFINE end == Attached(model)
<1>1. LoopInv(model, end, Len(model.joins)) /\ (IsDirectedTree(model) => end.error = "none")
  BY LoopEnds
<1> HIDE DEF end
<1>2. ASSUME end.joined = Aliases(model)
      PROVE  IsDirectedTree(model)
  <2>1. \A closed \in SUBSET Aliases(model) :
          /\ Fact(model).alias \in closed
          /\ \A join \in Range(model.joins) : join.left \in closed => join.right \in closed
          => end.joined \subseteq closed
    BY <1>1 DEF LoopInv
  <2>2. ASSUME NEW closed \in SUBSET Aliases(model), Fact(model).alias \in closed,
               \A join \in Range(model.joins) : join.left \in closed => join.right \in closed
        PROVE  closed = Aliases(model)
    <3>1. end.joined \subseteq closed
      BY <2>1, <2>2
    <3> QED
      BY <1>2, <3>1
  <2> QED
    BY <2>2 DEF IsDirectedTree
<1>3. ASSUME IsDirectedTree(model)
      PROVE  end.joined = Aliases(model)
  <2>1. /\ end.joined \in SUBSET Aliases(model) /\ end.pending \in Seq(Range(model.joins))
        /\ Len(model.joins) \in Nat
    BY <1>1 DEF LoopInv, LoopStates, IsModel
  <2>2. Len(end.pending) = 0
    BY <1>1, <1>3, <2>1 DEF LoopInv
  <2>3. Range(end.pending) = {}
    BY <2>1, <2>2 DEF Range
  <2>4. Range(end.from) = Range(model.joins)
    BY <1>1, <2>3 DEF LoopInv, IsSplit
  <2>5. end.joined = {Fact(model).alias} \cup {join.right : join \in Range(end.from)}
    BY <1>1 DEF LoopInv, AttachedInOrder
  <2>6. Fact(model).alias \in end.joined /\ \A join \in Range(model.joins) : join.right \in end.joined
    BY <2>4, <2>5
  <2> QED
    BY <1>3, <2>1, <2>6 DEF IsDirectedTree
<1>4. AttachedInOrder(model, end)
  BY <1>1 DEF LoopInv
<1> QED
  BY <1>1, <1>2, <1>3, <1>4 DEF end

(* A model whose resources are valid resolves exactly when it is a tree.   *)
LEMMA ModelsResolve ==
  ASSUME NEW model, IsModel(model), NEW active, Creates(model, active)
  PROVE  Resolves(model, active) <=> IsDirectedTree(model)
<1>1. ContractAccepts(model) /\ ResourcesAreValid(model, active)
  BY DEF Creates
<1>2. StoredIsSound(model) /\ \A source \in Range(model.sources) : source.target \in active
  BY <1>1 DEF ContractAccepts, ResourcesAreValid, StoredIsSound
<1> QED
  BY <1>1, <1>2, TheLoopFindsTrees DEF Resolves

-----------------------------------------------------------------------------
(* The predicates in the three-valued logic of SQL.                        *)

TruthValues == {"true", "false", "unknown"}

(* An atom has one of the truth values of SQL, and an atom that decides    *)
(* nothing is unknown.                                                     *)
LEMMA AtomTruthIsSql ==
  ASSUME NEW atom, NEW row
  PROVE  /\ AtomTruth(atom, row) \in TruthValues
         /\ ~ Decides(atom, row) => AtomTruth(atom, row) = "unknown"
<1>1. \A condition : Truth(condition) \in TruthValues
  BY DEF Truth, TruthValues
<1>2. \A truth : NotSql(truth) \in TruthValues
  BY DEF NotSql, TruthValues
<1>3. AtomTruth(atom, row) \in TruthValues
  BY <1>1, <1>2 DEF AtomTruth, TruthValues
<1>4. ASSUME ~ Decides(atom, row) PROVE AtomTruth(atom, row) = "unknown"
  BY <1>4 DEF Decides, AtomTruth
<1> QED BY <1>3, <1>4

(* What OR and AND make of truth values.                                   *)
LEMMA OrOfTruths ==
  ASSUME NEW truths \in SUBSET TruthValues
  PROVE  /\ OrSql(truths) \in TruthValues
         /\ OrSql(truths) = "true" <=> "true" \in truths
         /\ OrSql(truths) = "false" <=> truths \subseteq {"false"}
BY DEF OrSql, TruthValues

(* AND is true when all are, false when one is.                            *)
LEMMA AndOfTruths ==
  ASSUME NEW truths \in SUBSET TruthValues
  PROVE  /\ AndSql(truths) \in TruthValues
         /\ AndSql(truths) = "true" <=> truths \subseteq {"true"}
         /\ AndSql(truths) = "false" <=> "false" \in truths
BY DEF AndSql, TruthValues

(* A filter expression is true of the rows that meet it, false of the rows *)
(* that fail it, and unknown of the rest.                                  *)
LEMMA FilterTruthIsSql ==
  ASSUME NEW expression, NEW row
  PROVE  /\ FilterTruth(expression, row) \in TruthValues
         /\ FilterTruth(expression, row) = "true" <=> Meets(expression, row)
         /\ FilterTruth(expression, row) = "false" <=> Fails(expression, row)
<1> DEFINE truths == {AtomTruth(atom, row) : atom \in Atoms(expression)}
           isOr == expression.kind = "logical" /\ expression.operator = "or"
<1>1. truths \in SUBSET TruthValues
  BY AtomTruthIsSql
<1>2. \A atom \in Atoms(expression) :
        /\ AtomTruth(atom, row) = "true" => Decides(atom, row)
        /\ AtomTruth(atom, row) = "false" => Decides(atom, row)
  BY AtomTruthIsSql
<1>3. CASE isOr
  <2>1. FilterTruth(expression, row) = OrSql(truths)
    BY <1>3 DEF FilterTruth
  <2>2. "true" \in truths <=> Meets(expression, row)
    BY <1>2, <1>3 DEF Meets
  <2>3. truths \subseteq {"false"} <=> Fails(expression, row)
    BY <1>2, <1>3 DEF Fails
  <2> QED BY <1>1, <2>1, <2>2, <2>3, OrOfTruths
<1>4. CASE ~ isOr
  <2>1. FilterTruth(expression, row) = AndSql(truths)
    BY <1>4 DEF FilterTruth
  <2>2. truths \subseteq {"true"} <=> Meets(expression, row)
    BY <1>2, <1>4 DEF Meets
  <2>3. "false" \in truths <=> Fails(expression, row)
    BY <1>2, <1>4 DEF Fails
  <2> QED BY <1>1, <2>1, <2>2, <2>3, AndOfTruths
<1> QED BY <1>3, <1>4

(* The truths of the policies of one effect: the allowing ones are true    *)
(* together when one is met, the denying ones false when all are failed.   *)
LEMMA PoliciesOfOneEffect ==
  ASSUME NEW policies, NEW effect, NEW row
  PROVE  /\ Truths(policies, effect, row) \in SUBSET TruthValues
         /\ Truths(policies, effect, row) = {} <=> {p \in policies : p.effect = effect} = {}
         /\ OrSql(Truths(policies, effect, row)) = "true"
              <=> \E policy \in {p \in policies : p.effect = effect} :
                    Meets(policy.expression, row)
         /\ OrSql(Truths(policies, effect, row)) = "false"
              <=> \A policy \in {p \in policies : p.effect = effect} :
                    Fails(policy.expression, row)
<1> DEFINE mine == {p \in policies : p.effect = effect}
           truths == {FilterTruth(policy.expression, row) : policy \in mine}
<1>1. Truths(policies, effect, row) = truths
  BY DEF Truths
<1> HIDE DEF mine
<1>2. truths \in SUBSET TruthValues
  BY FilterTruthIsSql
<1>3. truths = {} <=> mine = {}
  OBVIOUS
<1>4. "true" \in truths <=> \E policy \in mine : Meets(policy.expression, row)
  BY FilterTruthIsSql
<1>5. truths \subseteq {"false"} <=> \A policy \in mine : Fails(policy.expression, row)
  BY FilterTruthIsSql
<1>6. /\ OrSql(truths) = "true" <=> \E policy \in mine : Meets(policy.expression, row)
      /\ OrSql(truths) = "false" <=> \A policy \in mine : Fails(policy.expression, row)
  BY <1>2, <1>4, <1>5, OrOfTruths
<1> QED BY <1>1, <1>2, <1>3, <1>6 DEF mine

(* resolve_row_policy_predicates lets a row through exactly when the row   *)
(* may be read: an allowing policy of the reader is met, if the reader has *)
(* one, and every denying one fails, NULLs included.                       *)
THEOREM PoliciesLetThroughWhatMayBeRead ==
  ASSUME NEW policies, NEW principal, NEW row
  PROVE  PolicyTruth(policies, principal, row) = "true"
           <=> MayRead(policies, principal, row)
<1> DEFINE matched == Matched(policies, principal)
           allowed == Truths(matched, "allow", row)
           denied == Truths(matched, "deny", row)
           allow == IF allowed = {} THEN "true" ELSE OrSql(allowed)
           deny == IF denied = {} THEN "true" ELSE NotSql(OrSql(denied))
           Of(effect) == {policy \in matched : policy.effect = effect}
<1>1. CASE Active(policies) = {}
  BY <1>1 DEF PolicyTruth, MayRead
<1>2. CASE Active(policies) # {} /\ matched = {}
  BY <1>2 DEF PolicyTruth, MayRead
<1>3. CASE Active(policies) # {} /\ matched # {}
  <2>1. PolicyTruth(policies, principal, row) = AndSql({allow, deny})
    BY <1>3 DEF PolicyTruth
  <2>2. MayRead(policies, principal, row)
          <=> /\ Of("allow") # {} => \E policy \in Of("allow") : Meets(policy.expression, row)
              /\ \A policy \in Of("deny") : Fails(policy.expression, row)
    BY <1>3 DEF MayRead
  <2> HIDE DEF matched
  <2>3. /\ allow \in TruthValues
        /\ allow = "true" <=>
             (Of("allow") # {} => \E policy \in Of("allow") : Meets(policy.expression, row))
    BY PoliciesOfOneEffect, OrOfTruths DEF TruthValues
  <2>4. /\ deny \in TruthValues
        /\ deny = "true" <=> \A policy \in Of("deny") : Fails(policy.expression, row)
    BY PoliciesOfOneEffect, OrOfTruths DEF TruthValues, NotSql
  <2> HIDE DEF allow, deny, Of
  <2>5. AndSql({allow, deny}) = "true" <=> allow = "true" /\ deny = "true"
    BY <2>3, <2>4, AndOfTruths
  <2> QED BY <2>1, <2>2, <2>3, <2>4, <2>5
<1> QED BY <1>1, <1>2, <1>3

(* A row without a value that the denying policies of a reader ask about   *)
(* is not let past them, where every one of them is a comparison.          *)
THEOREM MissingValuesAreDenied ==
  ASSUME NEW policies, NEW principal, NEW row,
         NEW policy \in Matched(policies, principal),
         policy.effect = "deny",
         \A atom \in Atoms(policy.expression) : ~ Decides(atom, row)
  PROVE  PolicyTruth(policies, principal, row) = "true" => Atoms(policy.expression) = {}
<1>1. SUFFICES ASSUME PolicyTruth(policies, principal, row) = "true"
               PROVE  Atoms(policy.expression) = {}
  OBVIOUS
<1>2. MayRead(policies, principal, row)
  BY <1>1, PoliciesLetThroughWhatMayBeRead
<1>3. Fails(policy.expression, row)
  BY <1>2 DEF MayRead, Matched
<1> QED BY <1>3 DEF Fails

-----------------------------------------------------------------------------
(* The calendar.                                                           *)

LEMMA MonthOfDay ==
  ASSUME NEW day, InCalendar(day)
  PROVE  LET month == MonthOf(day) IN
         /\ month \in DOMAIN FirstDay /\ month \in Int /\ FirstDay[month] <= day
         /\ month + 1 \in DOMAIN FirstDay => day < FirstDay[month + 1]
BY CalendarAssumption DEF InCalendar, MonthOf

(* The months that have begun on a day are those up to its own.            *)
LEMMA MonthsBegun ==
  ASSUME NEW day \in Int, InCalendar(day), NEW n \in DOMAIN FirstDay
  PROVE  FirstDay[n] <= day <=> n <= MonthOf(day)
<1> DEFINE month == MonthOf(day)
<1>1. /\ month \in DOMAIN FirstDay /\ month \in Int /\ FirstDay[month] <= day
      /\ month + 1 \in DOMAIN FirstDay => day < FirstDay[month + 1]
  BY MonthOfDay
<1> HIDE DEF month
<1>2. n \in Int /\ FirstDay[n] \in Int /\ FirstDay[month] \in Int
  BY <1>1, CalendarAssumption
<1>3. CASE n <= month
  <2>1. n = month \/ n < month
    BY <1>1, <1>2, <1>3
  <2>2. FirstDay[n] <= FirstDay[month]
    BY <1>1, <1>2, <2>1, CalendarAssumption
  <2> QED
    BY <1>1, <1>2, <1>3, <2>2 DEF month
<1>4. CASE ~ (n <= month)
  <2>1. month < n
    BY <1>1, <1>2, <1>4
  <2>2. month + 1 \in DOMAIN FirstDay /\ FirstDay[month + 1] \in Int
    BY <1>1, <2>1, CalendarAssumption
  <2>3. month + 1 = n \/ month + 1 < n
    BY <1>1, <1>2, <2>1
  <2>4. FirstDay[month + 1] <= FirstDay[n]
    BY <1>2, <2>2, <2>3, CalendarAssumption
  <2>5. day < FirstDay[n]
    BY <1>1, <1>2, <2>2, <2>4
  <2> QED
    BY <1>2, <1>4, <2>5 DEF month
<1> QED
  BY <1>3, <1>4

(* A month holds its first day.                                            *)
LEMMA MonthOfItsFirstDay ==
  ASSUME NEW n \in DOMAIN FirstDay
  PROVE  MonthOf(FirstDay[n]) = n
<1> DEFINE day == FirstDay[n]
           month == MonthOf(day)
<1>1. n \in Int /\ day \in Int /\ (n + 1 \in DOMAIN FirstDay => day < FirstDay[n + 1])
  BY CalendarAssumption
<1>2. InCalendar(day)
  BY <1>1 DEF InCalendar
<1>3. month \in DOMAIN FirstDay /\ month \in Int /\ FirstDay[month] <= day
  BY <1>2, MonthOfDay
<1>4. n <= month
  BY <1>1, <1>2, MonthsBegun
<1> HIDE DEF month
<1>5. ~ (n < month)
  BY <1>1, <1>3, CalendarAssumption
<1>6. month = n
  BY <1>1, <1>3, <1>4, <1>5
<1> QED
  BY <1>6 DEF month

(* compile_time_grain: the expressions for SQLite and the date_trunc of    *)
(* PostgreSQL put every day into the same week, month, quarter and year,   *)
(* so that a chart has the same groups on both databases.                  *)
THEOREM GrainsAgree ==
  ASSUME NEW grain \in Grains, NEW day \in Int, InCalendar(day)
  PROVE  SqliteGrain(grain, day) = Truncated(grain, day)
<1> DEFINE month == MonthOf(day)
           number == (month % 12) + 1
           january == month - (number - 1)
           quarterMonth == ((number - 1) \div 3) * 3 + 1
<1>1. month \in Int
  BY MonthOfDay
<1>2. NextMonday(day - 6) = day - Weekday(day)
  BY DEF NextMonday, Weekday
<1>3. january + number - 1 = month /\ january = month - (month % 12)
  <2> HIDE DEF month
  <2> QED
    BY <1>1
<1>4. january + quarterMonth - 1 = month - (month % 3)
  <2> HIDE DEF month
  <2> QED
    BY <1>1
<1>5. SqliteGrain(grain, day) =
        CASE grain = "day" -> day
          [] grain = "week" -> NextMonday(day - 6)
          [] grain = "month" -> FirstDay[january + number - 1]
          [] grain = "quarter" -> FirstDay[january + quarterMonth - 1]
          [] grain = "year" -> FirstDay[january]
  BY DEF SqliteGrain
<1>6. Truncated(grain, day) =
        CASE grain = "day" -> day
          [] grain = "week" -> day - Weekday(day)
          [] grain = "month" -> FirstDay[month]
          [] grain = "quarter" -> FirstDay[month - (month % 3)]
          [] grain = "year" -> FirstDay[month - (month % 12)]
  BY DEF Truncated
<1> HIDE DEF month, number, january, quarterMonth
<1> QED
  BY <1>2, <1>3, <1>4, <1>5, <1>6 DEF Grains

-----------------------------------------------------------------------------
(* Periods.                                                                *)

LEMMA WeeksBegun ==
  ASSUME NEW day \in Int, NEW today \in Int
  PROVE  LET week == today - Weekday(today)
         IN /\ week <= day /\ day < week + 7 <=> SameWeek(day, today)
            /\ week - 7 <= day /\ day < week <=> SameWeek(day + 7, today)
BY DEF Weekday, SameWeek

(* _relative_date_boundaries: the half-open range of a period holds the    *)
(* days that the period names, to the day.                                 *)
LEMMA PeriodsAreDays ==
  ASSUME NEW period \in Periods, NEW day \in Int, NEW today \in Int,
         InCalendar(day), InCalendar(today), CalendarSurrounds(today)
  PROVE  Boundaries(period, today)[1] <= day /\ day < Boundaries(period, today)[2]
           <=> DayInPeriod(period, day, today)
<1> DEFINE month == MonthOf(today)
           january == (month \div 12) * 12
           mine == MonthOf(day)
<1>1. /\ month \in Int /\ mine \in Int
      /\ {month, month - 1, month + 1, january} \subseteq DOMAIN FirstDay
  BY MonthOfDay DEF CalendarSurrounds
<1>2. \A n \in DOMAIN FirstDay : FirstDay[n] <= day <=> n <= mine
  BY MonthsBegun
<1>3. \A n \in DOMAIN FirstDay : FirstDay[n] <= today <=> n <= month
  BY MonthsBegun
<1>4. \A n \in DOMAIN FirstDay : FirstDay[n] \in Int
  BY CalendarAssumption
<1>5. Boundaries(period, today) =
        CASE period = "today" -> <<today, today + 1>>
          [] period = "yesterday" -> <<today - 1, today>>
          [] period = "last_7_days" -> <<today - 6, today + 1>>
          [] period = "last_30_days" -> <<today - 29, today + 1>>
          [] period = "this_week" -> <<today - Weekday(today), today - Weekday(today) + 7>>
          [] period = "last_week" -> <<today - Weekday(today) - 7, today - Weekday(today)>>
          [] period = "this_month" -> <<FirstDay[month], FirstDay[month + 1]>>
          [] period = "last_month" -> <<FirstDay[month - 1], FirstDay[month]>>
          [] period = "month_to_date" -> <<FirstDay[month], today + 1>>
          [] period = "year_to_date" -> <<FirstDay[january], today + 1>>
  <2>1. MonthOf(FirstDay[month]) = month
    BY <1>1, MonthOfItsFirstDay
  <2>2. ShiftMonth(FirstDay[month], 1) = FirstDay[month + 1]
    BY <2>1 DEF ShiftMonth
  <2>3. month + (-1) = month - 1
    <3> HIDE DEF month
    <3> QED
      BY <1>1
  <2>4. ShiftMonth(FirstDay[month], -1) = FirstDay[month - 1]
    BY <2>1, <2>3 DEF ShiftMonth
  <2> QED
    BY <2>2, <2>4 DEF Boundaries
<1>6. DayInPeriod(period, day, today) <=>
        CASE period = "today" -> day = today
          [] period = "yesterday" -> day + 1 = today
          [] period = "last_7_days" -> today - day \in 0..6
          [] period = "last_30_days" -> today - day \in 0..29
          [] period = "this_week" -> SameWeek(day, today)
          [] period = "last_week" -> SameWeek(day + 7, today)
          [] period = "this_month" -> mine = month
          [] period = "last_month" -> mine + 1 = month
          [] period = "month_to_date" -> mine = month /\ day <= today
          [] period = "year_to_date" -> mine \div 12 = month \div 12 /\ day <= today
  BY DEF DayInPeriod, SameYear
<1>7. day <= today => mine <= month
  <2>1. mine \in DOMAIN FirstDay /\ FirstDay[mine] <= day
    BY MonthOfDay
  <2>2. FirstDay[mine] \in Int
    BY <2>1, CalendarAssumption
  <2>3. day <= today => FirstDay[mine] <= today
    BY <2>1, <2>2
  <2> QED
    BY <1>3, <2>1, <2>3
<1> HIDE DEF mine
<1>8. /\ january <= mine /\ mine <= month <=> mine \div 12 = month \div 12 /\ mine <= month
      /\ january \in Int
  <2> HIDE DEF month
  <2> QED
    BY <1>1
<1> HIDE DEF month, january
<1>9. CASE period \in {"today", "yesterday"}
  <2>1. today <= day /\ day < today + 1 <=> day = today
    OBVIOUS
  <2>2. today - 1 <= day /\ day < today <=> day + 1 = today
    OBVIOUS
  <2>3. CASE period = "today"
    BY <1>5, <1>6, <2>1, <2>3
  <2>4. CASE period = "yesterday"
    BY <1>5, <1>6, <2>2, <2>4
  <2> QED
    BY <1>9, <2>3, <2>4
<1>10. CASE period \in {"last_7_days", "last_30_days"}
  <2>1. today - 6 <= day /\ day < today + 1 <=> today - day \in 0..6
    OBVIOUS
  <2>2. today - 29 <= day /\ day < today + 1 <=> today - day \in 0..29
    OBVIOUS
  <2>3. CASE period = "last_7_days"
    BY <1>5, <1>6, <2>1, <2>3
  <2>4. CASE period = "last_30_days"
    BY <1>5, <1>6, <2>2, <2>4
  <2> QED
    BY <1>10, <2>3, <2>4
<1>11. CASE period = "this_week"
  BY <1>5, <1>6, <1>11, WeeksBegun
<1>12. CASE period = "last_week"
  BY <1>5, <1>6, <1>12, WeeksBegun
<1>13. CASE period = "this_month"
  <2>1. /\ FirstDay[month] <= day <=> month <= mine
        /\ FirstDay[month + 1] <= day <=> month + 1 <= mine
        /\ FirstDay[month + 1] \in Int
    BY <1>1, <1>2, <1>4
  <2>2. day < FirstDay[month + 1] <=> ~ (FirstDay[month + 1] <= day)
    BY <2>1
  <2>3. month <= mine /\ ~ (month + 1 <= mine) <=> mine = month
    BY <1>1
  <2> QED
    BY <1>5, <1>6, <1>13, <2>1, <2>2, <2>3
<1>14. CASE period = "last_month"
  <2>1. /\ FirstDay[month] <= day <=> month <= mine
        /\ FirstDay[month - 1] <= day <=> month - 1 <= mine
        /\ FirstDay[month] \in Int
    BY <1>1, <1>2, <1>4
  <2>2. day < FirstDay[month] <=> ~ (FirstDay[month] <= day)
    BY <2>1
  <2>3. month - 1 <= mine /\ ~ (month <= mine) <=> mine + 1 = month
    BY <1>1
  <2> QED
    BY <1>5, <1>6, <1>14, <2>1, <2>2, <2>3
<1>15. CASE period = "month_to_date"
  <2>1. FirstDay[month] <= day <=> month <= mine
    BY <1>1, <1>2
  <2>2. day < today + 1 <=> day <= today
    OBVIOUS
  <2>3. month <= mine /\ mine <= month <=> mine = month
    BY <1>1
  <2> QED
    BY <1>5, <1>6, <1>7, <1>15, <2>1, <2>2, <2>3
<1>16. CASE period = "year_to_date"
  <2>1. FirstDay[january] <= day <=> january <= mine
    BY <1>1, <1>2
  <2>2. day < today + 1 <=> day <= today
    OBVIOUS
  <2> QED
    BY <1>5, <1>6, <1>7, <1>8, <1>16, <2>1, <2>2
<1> QED
  BY <1>9, <1>10, <1>11, <1>12, <1>13, <1>14, <1>15, <1>16 DEF Periods

-----------------------------------------------------------------------------
(* The clocks of the workspace.                                            *)

(* A local day begins at the moment that _as_utc_datetime makes of its     *)
(* midnight: what is before it is of an earlier day.                       *)
LEMMA DaysBeginAtMidnight ==
  ASSUME ClocksKeepMidnight, NEW day \in Int, NEW moment \in Int
  PROVE  ToUtc(24 * day) <= moment <=> day <= LocalDay(moment)
<1>1. OffsetBefore \in Int /\ OffsetAfter \in Int /\ ClockChange \in Int
  BY FiltersAssumption
<1>2. LocalHour(moment) \in Int
  BY <1>1 DEF LocalHour
<1>3. day <= LocalDay(moment) <=> 24 * day <= LocalHour(moment)
  BY <1>2 DEF LocalDay
<1> DEFINE midnight == 24 * day
<1>4. midnight \in Int
  OBVIOUS
<1>5. /\ ~ (ClockChange + OffsetBefore < midnight /\ midnight < ClockChange + OffsetAfter)
      /\ ~ (ClockChange + OffsetAfter < midnight /\ midnight < ClockChange + OffsetBefore)
  <2>1. midnight % 24 = 0
    OBVIOUS
  <2> HIDE DEF midnight
  <2> QED
    BY <1>1, <1>4, <2>1 DEF ClocksKeepMidnight
<1> HIDE DEF midnight
<1>6. ToUtc(midnight) <= moment <=> midnight <= LocalHour(moment)
  BY <1>1, <1>4, <1>5 DEF ToUtc, LocalHour
<1> QED
  BY <1>3, <1>6 DEF midnight

-----------------------------------------------------------------------------
(* Filters.                                                                *)

LEMMA LocalDayType ==
  ASSUME NEW moment \in Int
  PROVE  LocalDay(moment) \in Int
<1>1. LocalHour(moment) \in Int
  BY FiltersAssumption DEF LocalHour
<1> QED
  BY <1>1 DEF LocalDay

(* Midnight is a moment.                                                   *)
LEMMA UtcType ==
  ASSUME NEW day \in Int
  PROVE  ToUtc(24 * day) \in Int
BY FiltersAssumption DEF ToUtc

(* A bound of a window, as a date or as a moment.                          *)
LEMMA BoundType ==
  ASSUME NEW bound \in Bounds
  PROVE  AsDate(bound) \in Int /\ AsUtc(bound) \in Int
<1>1. CASE bound \in [day : Int]
  <2>1. bound.day \in Int /\ "day" \in DOMAIN bound
    BY <1>1
  <2> QED
    BY <2>1, UtcType DEF AsDate, AsUtc
<1>2. CASE bound \in [moment : Int]
  <2>1. bound.moment \in Int /\ "day" \notin DOMAIN bound
    BY <1>2
  <2> QED
    BY <2>1, LocalDayType DEF AsDate, AsUtc
<1> QED
  BY <1>1, <1>2 DEF Bounds

(* The boundaries of a period are days.                                    *)
LEMMA BoundariesType ==
  ASSUME NEW period \in Periods, NEW today \in Int, InCalendar(today),
         CalendarSurrounds(today)
  PROVE  /\ Boundaries(period, today)[1] \in Int
         /\ Boundaries(period, today)[2] \in Int
<1> DEFINE month == MonthOf(today)
           january == (month \div 12) * 12
<1>1. {month, month - 1, month + 1, january} \subseteq DOMAIN FirstDay /\ month \in Int
  BY MonthOfDay DEF CalendarSurrounds
<1>2. \A n \in DOMAIN FirstDay : FirstDay[n] \in Int
  BY CalendarAssumption
<1>3. MonthOf(FirstDay[month]) = month
  BY <1>1, MonthOfItsFirstDay
<1>4. ShiftMonth(FirstDay[month], 1) \in Int
  BY <1>1, <1>2, <1>3 DEF ShiftMonth
<1>5. ShiftMonth(FirstDay[month], -1) \in Int
  <2> HIDE DEF month
  <2>1. month + (-1) = month - 1
    BY <1>1
  <2> QED
    BY <1>1, <1>2, <1>3, <2>1 DEF ShiftMonth
<1>6. FirstDay[month] \in Int /\ FirstDay[january] \in Int
  BY <1>1, <1>2
<1>7. Weekday(today) \in Int
  BY DEF Weekday
<1>8. /\ today + 1 \in Int /\ today - 1 \in Int /\ today - 6 \in Int /\ today - 29 \in Int
      /\ today - Weekday(today) \in Int /\ today - Weekday(today) + 7 \in Int
      /\ today - Weekday(today) - 7 \in Int
  BY <1>7
<1> QED
  BY <1>4, <1>5, <1>6, <1>8 DEF Boundaries, Periods

(* The range of a date filter is of integers.                              *)
LEMMA RangeType ==
  ASSUME NEW item, IsDateFilter(item), NEW row, NEW now \in Int, DateIsKnown(item, row, now)
  PROVE  /\ ResolvedRange(item, now)[1] \in Int
         /\ ResolvedRange(item, now)[2] \in Int
<1>1. LocalDay(now) \in Int
  BY LocalDayType
<1>2. CASE item.kind = "relative_date"
  <2> DEFINE days == Boundaries(item.period, LocalDay(now))
  <2>1. days[1] \in Int /\ days[2] \in Int
    BY <1>1, <1>2, BoundariesType DEF DateIsKnown
  <2>2. ResolvedRange(item, now) =
          IF item.type = "date" THEN <<AsDate([day |-> days[1]]), AsDate([day |-> days[2]])>>
          ELSE <<AsUtc([day |-> days[1]]), AsUtc([day |-> days[2]])>>
    BY <1>2 DEF ResolvedRange
  <2> HIDE DEF days
  <2>3. [day |-> days[1]] \in Bounds /\ [day |-> days[2]] \in Bounds
    BY <2>1 DEF Bounds
  <2> QED
    BY <2>2, <2>3, BoundType
<1>3. CASE item.kind = "absolute_date_range"
  <2>1. ResolvedRange(item, now) =
          IF item.type = "date" THEN <<AsDate(item.start), AsDate(item.end)>>
          ELSE <<AsUtc(item.start), AsUtc(item.end)>>
    BY <1>3 DEF ResolvedRange
  <2> QED
    BY <1>3, <2>1, BoundType DEF DateIsKnown
<1> QED
  BY <1>2, <1>3 DEF IsDateFilter

(* A value is in the range of a period when its day is.                    *)
LEMMA RangeIsPeriod ==
  ASSUME ClocksKeepMidnight, NEW item, item.kind = "relative_date", NEW row, NEW now \in Int,
         DateIsKnown(item, row, now), row[item.field] # Null
  PROVE  InPeriod(item, row, now)
           <=> /\ ResolvedRange(item, now)[1] <= row[item.field]
               /\ row[item.field] < ResolvedRange(item, now)[2]
<1> DEFINE value == row[item.field]
           today == LocalDay(now)
           day == DayOf(value, item.type)
           first == Boundaries(item.period, today)[1]
           last == Boundaries(item.period, today)[2]
<1>1. /\ value \in Int /\ InCalendar(day) /\ item.type \in {"date", "datetime"}
      /\ item.period \in Periods /\ InCalendar(today) /\ CalendarSurrounds(today)
  BY DEF DateIsKnown
<1>2. today \in Int /\ day \in Int
  BY <1>1, LocalDayType DEF DayOf
<1>3. first \in Int /\ last \in Int
  BY <1>1, <1>2, BoundariesType
<1>4. InPeriod(item, row, now) <=> first <= day /\ day < last
  BY <1>1, <1>2, PeriodsAreDays DEF InPeriod
<1>5. ResolvedRange(item, now) =
        IF item.type = "date" THEN <<AsDate([day |-> first]), AsDate([day |-> last])>>
        ELSE <<AsUtc([day |-> first]), AsUtc([day |-> last])>>
  BY DEF ResolvedRange
<1> HIDE DEF today, first, last
<1>6. ResolvedRange(item, now) =
        IF item.type = "date" THEN <<first, last>>
        ELSE <<ToUtc(24 * first), ToUtc(24 * last)>>
  <2>1. \A d : AsDate([day |-> d]) = d /\ AsUtc([day |-> d]) = ToUtc(24 * d)
    BY DEF AsDate, AsUtc
  <2> QED
    BY <1>5, <2>1
<1>7. CASE item.type = "date"
  <2>1. day = value
    BY <1>7 DEF DayOf
  <2> HIDE DEF day, value
  <2> QED
    BY <1>4, <1>6, <1>7, <2>1 DEF value
<1>8. CASE item.type = "datetime"
  <2>1. day = LocalDay(value)
    BY <1>8 DEF DayOf
  <2> HIDE DEF day, value
  <2>2. ToUtc(24 * first) <= value <=> first <= day
    BY <1>1, <1>3, <2>1, DaysBeginAtMidnight
  <2>3. ToUtc(24 * last) <= value <=> last <= day
    BY <1>1, <1>3, <2>1, DaysBeginAtMidnight
  <2>4. ToUtc(24 * last) \in Int
    BY <1>3, UtcType
  <2>5. value < ToUtc(24 * last) <=> day < last
    BY <1>1, <1>2, <1>3, <2>3, <2>4
  <2>6. ResolvedRange(item, now) = <<ToUtc(24 * first), ToUtc(24 * last)>>
    BY <1>6, <1>8
  <2>7. /\ ResolvedRange(item, now)[1] = ToUtc(24 * first)
        /\ ResolvedRange(item, now)[2] = ToUtc(24 * last)
    BY <2>6
  <2> QED
    BY <1>4, <2>2, <2>5, <2>7 DEF value
<1> QED
  BY <1>1, <1>7, <1>8

(* An item of a scope is resolved to atoms that are true together of the   *)
(* rows the item means.                                                    *)
LEMMA ItemsFilterDays ==
  ASSUME ClocksKeepMidnight, NEW item, NEW row, NEW now \in Int,
         item.kind # "logical", IsDateFilter(item) => DateIsKnown(item, row, now)
  PROVE  /\ (\A atom \in ResolvedItem(item, now) : AtomTruth(atom, row) = "true")
              <=> Passes(item, row, now)
         /\ \A atom \in ResolvedItem(item, now) : atom.kind # "logical"
<1> DEFINE from == ResolvedRange(item, now)[1]
           to == ResolvedRange(item, now)[2]
           value == row[item.field]
<1>1. CASE ~ IsDateFilter(item)
  <2>1. ResolvedItem(item, now) = {item}
    BY <1>1 DEF ResolvedItem
  <2>2. Passes(item, row, now) <=> Meets(item, row)
    BY <1>1 DEF Passes, IsDateFilter
  <2>3. FilterTruth(item, row) = "true" <=> Meets(item, row)
    BY FilterTruthIsSql
  <2>4. FilterTruth(item, row) = "true" <=> AtomTruth(item, row) = "true"
    <3>1. FilterTruth(item, row) = AndSql({AtomTruth(item, row)})
      BY DEF FilterTruth, Atoms
    <3>2. {AtomTruth(item, row)} \in SUBSET TruthValues
      BY AtomTruthIsSql
    <3> QED
      BY <3>1, <3>2, AndOfTruths
  <2> QED
    BY <2>1, <2>2, <2>3, <2>4
<1>2. CASE IsDateFilter(item)
  <2>1. from \in Int /\ to \in Int
    BY <1>2, RangeType
  <2>2. ResolvedItem(item, now) =
          {Comparison(item.field, "gte", from), Comparison(item.field, "lt", to)}
    BY <1>2 DEF ResolvedItem
  <2>3. Passes(item, row, now) <=> value # Null /\ from <= value /\ value < to
    <3>1. CASE item.kind = "relative_date"
      <4>1. Passes(item, row, now) <=> InPeriod(item, row, now)
        BY <3>1 DEF Passes
      <4>2. CASE value = Null
        BY <4>1, <4>2 DEF InPeriod
      <4>3. CASE value # Null
        BY <1>2, <3>1, <4>1, <4>3, RangeIsPeriod
      <4> QED
        BY <4>2, <4>3
    <3>2. CASE item.kind = "absolute_date_range"
      BY <3>2 DEF Passes
    <3> QED
      BY <1>2, <3>1, <3>2 DEF IsDateFilter
  <2>4. value # Null => value \in Int
    BY <1>2 DEF DateIsKnown
  <2> HIDE DEF from, to, value
  <2>5. AtomTruth(Comparison(item.field, "gte", from), row) = "true"
          <=> value # Null /\ value >= from
    BY DEF AtomTruth, Comparison, Satisfies, Truth, value
  <2>6. AtomTruth(Comparison(item.field, "lt", to), row) = "true"
          <=> value # Null /\ value < to
    BY DEF AtomTruth, Comparison, Satisfies, Truth, value
  <2>7. value # Null => (value >= from <=> from <= value)
    BY <2>1, <2>4
  <2>8. \A atom \in ResolvedItem(item, now) : atom.kind # "logical"
    BY <2>2 DEF Comparison
  <2> QED
    BY <2>2, <2>3, <2>5, <2>6, <2>7, <2>8
<1> QED
  BY <1>1, <1>2

(* One filter made of atoms is true when all of them are.                  *)
LEMMA FilterOfAtoms ==
  ASSUME NEW atoms, IsFiniteSet(atoms), NEW row,
         \A atom \in atoms : atom.kind # "logical"
  PROVE  FilterTruth(FilterOf(atoms), row) = "true"
           <=> \A atom \in atoms : AtomTruth(atom, row) = "true"
<1>1. {AtomTruth(atom, row) : atom \in atoms} \in SUBSET TruthValues
  BY AtomTruthIsSql
<1>2. CASE Cardinality(atoms) = 1
  <2>1. PICK atom : atoms = {atom}
    BY <1>2, FS_Singleton
  <2>2. FilterOf(atoms) = atom /\ atom.kind # "logical"
    BY <1>2, <2>1 DEF FilterOf
  <2>3. FilterTruth(atom, row) = AndSql({AtomTruth(atom, row)})
    BY <2>2 DEF FilterTruth, Atoms
  <2>4. {AtomTruth(atom, row)} \in SUBSET TruthValues
    BY AtomTruthIsSql
  <2> QED
    BY <2>1, <2>2, <2>3, <2>4, AndOfTruths
<1>3. CASE Cardinality(atoms) # 1
  <2>1. FilterOf(atoms) = Logical("and", atoms)
    BY <1>3 DEF FilterOf
  <2>2. FilterTruth(FilterOf(atoms), row) = AndSql({AtomTruth(atom, row) : atom \in atoms})
    BY <2>1 DEF FilterTruth, Atoms, Logical
  <2> QED
    BY <1>1, <2>2, AndOfTruths
<1> QED
  BY <1>2, <1>3

(* The filters of a dashboard, once resolve_scoped_filters accepts them,   *)
(* let a row through exactly when its day, in the zone of the workspace, is*)
(* in every period, its value in every range, and every predicate is met,  *)
(* at whatever moment the query starts.                                    *)
THEOREM FiltersMeanLocalDays ==
  ASSUME ClocksKeepMidnight, NEW scopes, NEW row, NEW now,
         ScopesAreKnown(scopes, row, now), Refusal(scopes, now) = "none"
  PROVE  (\A i \in DOMAIN ScopedFilters(scopes, now) :
            FilterTruth(ScopedFilters(scopes, now)[i], row) = "true")
           <=> PassesScopes(scopes, row, now)
<1> DEFINE set == Present(scopes)
           atoms(i) == ResolvedScope(set[i], now)
<1>1. \A i \in DOMAIN set : ScopeIsSupported(set[i])
  BY DEF Refusal
<1>2. ScopedFilters(scopes, now) = [i \in DOMAIN set |-> FilterOf(atoms(i))]
  BY DEF ScopedFilters
<1> HIDE DEF set
<1>3. ASSUME NEW i \in DOMAIN set
      PROVE  FilterTruth(FilterOf(atoms(i)), row) = "true"
               <=> \A item \in set[i].items : Passes(item, row, now)
  <2> DEFINE items == set[i].items
  <2>1. IsFiniteSet(items) /\ \A item \in items :
                                 IsDateFilter(item) => DateIsKnown(item, row, now)
    BY <1>3 DEF set, ScopesAreKnown
  <2>2. \A item \in items : item.kind # "logical"
    BY <1>1, <1>3 DEF ScopeIsSupported
  <2>3. atoms(i) = UNION {ResolvedItem(item, now) : item \in items}
    BY DEF ResolvedScope
  <2> HIDE DEF items, atoms
  <2>4. \A item \in items :
          /\ (\A atom \in ResolvedItem(item, now) : AtomTruth(atom, row) = "true")
               <=> Passes(item, row, now)
          /\ \A atom \in ResolvedItem(item, now) : atom.kind # "logical"
    <3>1. now \in Int
      BY DEF ScopesAreKnown
    <3> QED
      BY <2>1, <2>2, <3>1, ItemsFilterDays
  <2>5. IsFiniteSet(atoms(i))
    <3> DEFINE parts == {ResolvedItem(item, now) : item \in items}
    <3>1. IsFiniteSet(parts)
      <4> DEFINE resolved == [item \in items |-> ResolvedItem(item, now)]
      <4>1. resolved \in Surjection(items, parts)
        BY DEF Surjection
      <4>2. IsFiniteSet(items)
        BY <2>1
      <4> HIDE DEF resolved, parts
      <4> QED
        BY <4>1, <4>2, FS_Surjection
    <3>2. \A item \in items : IsFiniteSet(ResolvedItem(item, now))
      <4>1. \A x : IsFiniteSet({x})
        BY FS_Singleton
      <4>2. ASSUME NEW x, NEW y
            PROVE  IsFiniteSet({x, y})
        <5>1. IsFiniteSet({x} \cup {y})
          BY <4>1, FS_AddElement
        <5>2. {x, y} = {x} \cup {y}
          OBVIOUS
        <5> QED
          BY <5>1, <5>2
      <4>3. ASSUME NEW item \in items
            PROVE  IsFiniteSet(ResolvedItem(item, now))
        <5>1. CASE IsDateFilter(item)
          BY <4>2, <5>1 DEF ResolvedItem
        <5>2. CASE ~ IsDateFilter(item)
          BY <4>1, <5>2 DEF ResolvedItem
        <5> QED
          BY <5>1, <5>2
      <4> QED
        BY <4>3
    <3>3. \A part \in parts : IsFiniteSet(part)
      BY <3>2
    <3> HIDE DEF parts
    <3>4. IsFiniteSet(UNION parts)
      BY <3>1, <3>3, FS_UNION
    <3> QED
      BY <2>3, <3>4 DEF parts
  <2>6. \A atom \in atoms(i) : atom.kind # "logical"
    BY <2>3, <2>4
  <2>7. FilterTruth(FilterOf(atoms(i)), row) = "true"
          <=> \A atom \in atoms(i) : AtomTruth(atom, row) = "true"
    BY <2>5, <2>6, FilterOfAtoms
  <2> QED
    BY <2>3, <2>4, <2>7 DEF items
<1> HIDE DEF atoms
<1>4. PassesScopes(scopes, row, now)
        <=> \A i \in DOMAIN set : \A item \in set[i].items : Passes(item, row, now)
  BY DEF PassesScopes, set
<1> QED
  BY <1>2, <1>3, <1>4

-----------------------------------------------------------------------------
(* The state holds one question out of those the constants give, and its   *)
(* answer, once there is one.                                              *)
QInv ==
  /\ question \in Questions
  /\ answer # NoAnswer => question.topic # "fields" /\ answer = AnswerOf(question)

(* An answer is what the program computes for the question that was asked, *)
(* and the question stays what it was.                                     *)
THEOREM AnswersAreOfQuestions == Spec => []QInv
<1>1. Init => QInv
  BY DEF Init, QInv
<1>2. QInv /\ [Next]_vars => QInv'
  <2> SUFFICES ASSUME QInv, [Next]_vars
               PROVE  QInv'
    OBVIOUS
  <2>1. CASE Answer
    BY <2>1 DEF Answer, QInv
  <2>2. CASE ChangeFields
    BY <2>2 DEF ChangeFields, QInv
  <2>3. CASE UNCHANGED vars
    BY <2>3 DEF vars, QInv
  <2> QED
    BY <2>1, <2>2, <2>3 DEF Next
<1> QED
  BY <1>1, <1>2, PTL DEF Spec

(* What each question is about.                                            *)
IsAbout(q) ==
  /\ q.topic = "file" =>
       /\ q.template \in DOMAIN Templates /\ q.rows \in Files[q.template]
       /\ q.confirmed \in BOOLEAN
  /\ q.topic = "model" => q.model \in Models
  /\ q.topic = "row" => q.policies \in PolicySets /\ q.row \in PolicyRows
  /\ q.topic = "filter" =>
       q.scopes \in ScopeSets /\ q.now \in Moments /\ q.row \in FilterRows
  /\ q.topic = "metric" => q.formula \in Formulas /\ q.column \in GroupColumns
  /\ q.topic = "query" => q.request \in QueryRequests /\ q.scopes \in QueryScopes
  /\ q.topic = "chart" =>
       \/ q.board \in Boards /\ q.request \in BoardRequests /\ q.at = AllToday
       \/ q.board \in SeriesBoards /\ q.request \in SeriesRequests /\ q.at \in Schedules

(* Each question asks about what its topic says.                           *)
LEMMA QuestionsAsk ==
  ASSUME NEW q \in Questions
  PROVE  IsAbout(q)
<1> DEFINE files == UNION {[topic : {"file"}, template : {t}, rows : Files[t],
                            confirmed : BOOLEAN] : t \in DOMAIN Templates}
           models == [topic : {"model"}, model : Models]
           rows == [topic : {"row"}, policies : PolicySets, row : PolicyRows]
           filters == [topic : {"filter"}, scopes : ScopeSets, now : Moments, row : FilterRows]
           metrics == [topic : {"metric"}, formula : Formulas, column : GroupColumns]
           queries == [topic : {"query"}, request : QueryRequests, scopes : QueryScopes]
           charts == [topic : {"chart"}, board : Boards, request : BoardRequests, at : {AllToday}]
           series == [topic : {"chart"}, board : SeriesBoards, request : SeriesRequests, at : Schedules]
           changes == [topic : {"fields"}]
<1>1. CASE q \in files
  <2>1. PICK t \in DOMAIN Templates :
          q \in [topic : {"file"}, template : {t}, rows : Files[t], confirmed : BOOLEAN]
    BY <1>1
  <2> QED
    BY <2>1 DEF IsAbout
<1>2. CASE q \in models
  BY <1>2 DEF IsAbout
<1>3. CASE q \in rows
  BY <1>3 DEF IsAbout
<1>4. CASE q \in filters
  BY <1>4 DEF IsAbout
<1>5. CASE q \in metrics
  BY <1>5 DEF IsAbout
<1>6. CASE q \in queries
  BY <1>6 DEF IsAbout
<1>7. CASE q \in charts
  BY <1>7 DEF IsAbout
<1>8. CASE q \in series
  BY <1>8 DEF IsAbout
<1>9. CASE q \in changes
  BY <1>9 DEF IsAbout
<1>10. Questions = files \cup models \cup rows \cup filters \cup metrics \cup queries
                  \cup charts \cup series \cup changes
  BY DEF Questions
<1> HIDE DEF files, models, rows, filters, metrics, queries, charts, series, changes
<1> QED
  BY <1>1, <1>2, <1>3, <1>4, <1>5, <1>6, <1>7, <1>8, <1>9, <1>10

(* resolve_semantic_join_topology: a semantic model that was created       *)
(* resolves exactly when its joins form a tree away from the fact, in      *)
(* whatever order they are stored, and every join it attaches brings a new *)
(* source to one that is already there.                                    *)
THEOREM ModelsResolveWhenTheyAreTrees == Spec => []JoinsResolve
<1>1. QInv => JoinsResolve
  <2> SUFFICES ASSUME QInv, Answered("model")
               PROVE  JoinsResolve
    BY DEF JoinsResolve
  <2> DEFINE model == question.model
  <2>1. question.topic = "model" /\ answer = AnswerOf(question) /\ model \in Models
    BY QuestionsAsk DEF QInv, Answered, IsAbout
  <2>2. answer = AnswerModel(model)
    BY <2>1 DEF AnswerOf
  <2>3. IsModel(model)
    BY <2>1, ModelsAssumption
  <2> HIDE DEF model
  <2>4. /\ answer.created <=> Creates(model, Targets)
        /\ answer.resolved <=> ContractAccepts(model) /\ Resolves(model, Targets)
        /\ ContractAccepts(model) => answer.from = Attached(model).from
    BY <2>2 DEF AnswerModel
  <2>5. answer.created => (answer.resolved <=> IsDirectedTree(model))
    BY <2>3, <2>4, ModelsResolve DEF Creates
  <2>6. answer.resolved => AttachedInOrder(model, Attached(model))
    BY <2>3, <2>4, TheLoopFindsTrees
  <2> QED
    BY <2>4, <2>5, <2>6 DEF JoinsResolve, AttachedInOrder, model
<1> QED
  BY <1>1, AnswersAreOfQuestions, PTL

(* resolve_row_policy_predicates: the answer about a row is "true" exactly *)
(* for the rows that may be read, for every set of policies.               *)
THEOREM PoliciesLetThrough == Spec => []PoliciesFilterRows
<1>1. QInv => PoliciesFilterRows
  <2> SUFFICES ASSUME QInv, Answered("row")
               PROVE  PoliciesFilterRows
    BY DEF PoliciesFilterRows
  <2>1. answer = PolicyTruth(question.policies, Principal, question.row)
    BY DEF QInv, Answered, AnswerOf
  <2> QED
    BY <2>1, PoliciesLetThroughWhatMayBeRead DEF PoliciesFilterRows
<1> QED
  BY <1>1, AnswersAreOfQuestions, PTL

(* resolve_scoped_filters: the half-open ranges of instants the filters    *)
(* become let a row pass exactly when its local day is among those meant.  *)
THEOREM FiltersAnswerForLocalDays == Spec => []WindowsAreLocalDays
<1>1. QInv => WindowsAreLocalDays
  <2> SUFFICES ASSUME QInv, Answered("filter"), answer.refusal = "none"
               PROVE  answer.passes <=> PassesScopes(question.scopes, question.row, question.now)
    BY DEF WindowsAreLocalDays
  <2> DEFINE scopes == question.scopes
             row == question.row
             now == question.now
  <2>1. /\ question.topic = "filter" /\ answer = AnswerOf(question)
        /\ scopes \in ScopeSets /\ row \in FilterRows /\ now \in Moments
    BY QuestionsAsk DEF QInv, Answered, IsAbout
  <2>2. answer = AnswerFilter(question)
    BY <2>1 DEF AnswerOf
  <2>3. ClocksKeepMidnight /\ ScopesAreKnown(scopes, row, now)
    BY <2>1, ScopesAssumption
  <2>4. /\ answer.refusal = Refusal(scopes, now)
        /\ answer.passes <=>
             /\ Refusal(scopes, now) = "none"
             /\ \A i \in DOMAIN ScopedFilters(scopes, now) :
                  FilterTruth(ScopedFilters(scopes, now)[i], row) = "true"
    BY <2>2 DEF AnswerFilter
  <2> HIDE DEF scopes, row, now
  <2>5. answer.passes <=> PassesScopes(scopes, row, now)
    BY <2>3, <2>4, FiltersMeanLocalDays
  <2> QED
    BY <2>5 DEF scopes, row, now
<1> QED
  BY <1>1, AnswersAreOfQuestions, PTL

-----------------------------------------------------------------------------
(* The rows of a query.                                                    *)

LEMMA ImageIsFinite ==
  ASSUME NEW S, IsFiniteSet(S), NEW f, DOMAIN f = S
  PROVE  IsFiniteSet({f[x] : x \in S}) /\ Cardinality({f[x] : x \in S}) <= Cardinality(S)
<1> DEFINE T == {f[x] : x \in S}
           g == [x \in S |-> f[x]]
<1>1. g \in Surjection(S, T)
  BY DEF Surjection
<1> HIDE DEF T, g
<1>2. IsFiniteSet(T) /\ Cardinality(T) <= Cardinality(S)
  BY <1>1, FS_Surjection
<1> QED
  BY <1>2 DEF T

(* A row of the FROM clause numbers the rows of the sources it combines.   *)
RowSets(data) ==
  {rows \in SUBSET UNION {[sources -> Nat] : sources \in SUBSET DOMAIN data.tables} :
     IsFiniteSet(rows)}

(* A join widens a row of the FROM clause to finitely many.                *)
LEMMA WidenedIsFinite ==
  ASSUME NEW data, IsData(data), NEW join \in Elements(data.from),
         NEW sources \in SUBSET DOMAIN data.tables, NEW rows \in [sources -> Nat]
  PROVE  Widened(data, rows, join) \in RowSets(data)
<1> DEFINE table == data.tables[join.right]
           found == Matching(data, rows, join)
           numbers == IF found = {} /\ join.outer THEN {0} ELSE found
           wide == [n \in numbers |-> [alias \in sources \cup {join.right} |->
                                         IF alias = join.right THEN n ELSE rows[alias]]]
<1>1. join.right \in DOMAIN data.tables
  BY DEF IsData
<1>2. DOMAIN table = 1..Len(table) /\ Len(table) \in Nat
  BY <1>1 DEF IsData
<1>3. IsFiniteSet(found) /\ found \subseteq 1..Len(table)
  <2>1. found \in SUBSET (1..Len(table))
    BY <1>2 DEF Matching
  <2>2. IsFiniteSet(1..Len(table))
    BY <1>2, UpTo
  <2> HIDE DEF found, table
  <2> QED
    BY <2>1, <2>2, FS_Subset
<1> HIDE DEF found, table
<1>4. IsFiniteSet(numbers) /\ numbers \in SUBSET Nat
  <2>1. IsFiniteSet({0})
    BY FS_Singleton
  <2> QED
    BY <1>2, <1>3, <2>1
<1>5. Widened(data, rows, join) = {wide[n] : n \in numbers}
  <2>1. DOMAIN rows = sources
    OBVIOUS
  <2>2. Widened(data, rows, join) =
          {[alias \in DOMAIN rows \cup {join.right} |->
              IF alias = join.right THEN n ELSE rows[alias]] : n \in numbers}
    BY DEF Widened, found
  <2> HIDE DEF numbers
  <2> QED
    BY <2>1, <2>2
<1> HIDE DEF numbers
<1>6. DOMAIN wide = numbers /\ \A n \in numbers : wide[n] \in [sources \cup {join.right} -> Nat]
  BY <1>4
<1> HIDE DEF wide
<1>7. IsFiniteSet({wide[n] : n \in numbers})
  BY <1>4, <1>6, ImageIsFinite
<1>8. sources \cup {join.right} \in SUBSET DOMAIN data.tables
  BY <1>1
<1> QED
  BY <1>5, <1>6, <1>7, <1>8 DEF RowSets

Clause(data) ==
  CHOOSE clause : clause =
    [n \in 0..Len(data.from) |->
       IF n = 0 THEN {[alias \in {data.fact} |-> row] : row \in DOMAIN data.tables[data.fact]}
       ELSE UNION {Widened(data, rows, data.from[n]) : rows \in clause[n - 1]}]

(* The FROM clause starts with the rows of the fact.                       *)
LEMMA StartIsFinite ==
  ASSUME NEW data, IsData(data)
  PROVE  {[alias \in {data.fact} |-> row] : row \in DOMAIN data.tables[data.fact]}
           \in RowSets(data)
<1> DEFINE table == data.tables[data.fact]
           wide == [row \in DOMAIN table |-> [alias \in {data.fact} |-> row]]
<1>1. DOMAIN table = 1..Len(table) /\ Len(table) \in Nat /\ data.fact \in DOMAIN data.tables
  BY DEF IsData
<1>2. IsFiniteSet(DOMAIN table)
  BY <1>1, UpTo
<1>3. {data.fact} \in SUBSET DOMAIN data.tables
  BY <1>1
<1>4. DOMAIN wide = DOMAIN table /\ \A row \in DOMAIN table : wide[row] \in [{data.fact} -> Nat]
  BY <1>1
<1>5. {[alias \in {data.fact} |-> row] : row \in DOMAIN table} = {wide[row] : row \in DOMAIN table}
  OBVIOUS
<1> HIDE DEF wide, table
<1>6. IsFiniteSet({wide[row] : row \in DOMAIN table})
  BY <1>2, <1>4, ImageIsFinite
<1>7. {wide[row] : row \in DOMAIN table} \in RowSets(data)
  BY <1>3, <1>4, <1>6 DEF RowSets
<1> QED
  BY <1>5, <1>7 DEF table

(* Each of its joins leaves it finite.                                     *)
LEMMA StepIsFinite ==
  ASSUME NEW data, IsData(data), NEW join \in Elements(data.from), NEW before \in RowSets(data)
  PROVE  UNION {Widened(data, rows, join) : rows \in before} \in RowSets(data)
<1> DEFINE wide == [rows \in before |-> Widened(data, rows, join)]
           parts == {wide[rows] : rows \in before}
<1>1. \A rows \in before : Widened(data, rows, join) \in RowSets(data)
  BY WidenedIsFinite DEF RowSets
<1>2. UNION {Widened(data, rows, join) : rows \in before} = UNION parts
  OBVIOUS
<1>3. IsFiniteSet(before) /\ DOMAIN wide = before /\ \A rows \in before : wide[rows] \in RowSets(data)
  BY <1>1 DEF RowSets
<1> HIDE DEF wide
<1>4. IsFiniteSet(parts)
  BY <1>3, ImageIsFinite
<1>5. \A part \in parts : part \in RowSets(data)
  BY <1>3
<1> HIDE DEF parts
<1>6. IsFiniteSet(UNION parts)
  BY <1>4, <1>5, FS_UNION DEF RowSets
<1>7. UNION parts \in RowSets(data)
  BY <1>5, <1>6 DEF RowSets
<1> QED
  BY <1>2, <1>7

HasRun(S, start, step) ==
  \E f \in [Nat -> S] : f = [n \in Nat |-> IF n = 0 THEN start ELSE step[n][f[n - 1]]]

LEMMA StepsRun ==
  ASSUME NEW S, NEW start \in S, NEW step \in [Nat -> [S -> S]]
  PROVE  HasRun(S, start, step)
BY StepByStep DEF HasRun

(* As many steps as there are have a result too.                           *)
HasSteps(S, start, last, step) ==
  \E g \in [0..last -> S] : g = [n \in 0..last |-> IF n = 0 THEN start ELSE step[n][g[n - 1]]]

LEMMA StepsUpTo ==
  ASSUME NEW S, NEW start \in S, NEW last \in Nat, NEW step \in [1..last -> [S -> S]]
  PROVE  HasSteps(S, start, last, step)
<1> DEFINE more == [n \in Nat |-> IF n \in 1..last THEN step[n] ELSE [x \in S |-> x]]
<1>1. more \in [Nat -> [S -> S]]
  OBVIOUS
<1>2. \A n \in 1..last : more[n] = step[n]
  OBVIOUS
<1> HIDE DEF more
<1>3. PICK f \in [Nat -> S] : f = [n \in Nat |-> IF n = 0 THEN start ELSE more[n][f[n - 1]]]
  <2>1. HasRun(S, start, more)
    BY <1>1, StepsRun
  <2> QED
    BY <2>1 DEF HasRun
<1> DEFINE g == [n \in 0..last |-> f[n]]
<1>4. ASSUME NEW n \in 0..last
      PROVE  f[n] = IF n = 0 THEN start ELSE step[n][g[n - 1]]
  <2>1. n \in Nat /\ f[n] = IF n = 0 THEN start ELSE more[n][f[n - 1]]
    BY <1>3
  <2>2. n # 0 => n \in 1..last /\ g[n - 1] = f[n - 1]
    OBVIOUS
  <2> QED
    BY <1>2, <2>1, <2>2
<1>5. g \in [0..last -> S] /\ g = [n \in 0..last |-> IF n = 0 THEN start ELSE step[n][g[n - 1]]]
  BY <1>4
<1> QED
  BY <1>5 DEF HasSteps

(* The FROM clause combines finitely many rows.                            *)
LEMMA FromClauseIsFinite ==
  ASSUME NEW data, IsData(data)
  PROVE  IsFiniteSet(FromClause(data))
<1> DEFINE last == Len(data.from)
           start == {[alias \in {data.fact} |-> row] : row \in DOMAIN data.tables[data.fact]}
           Next1(n, before) == UNION {Widened(data, rows, data.from[n]) : rows \in before}
           S == RowSets(data)
           step == [n \in 1..last |-> [before \in S |-> Next1(n, before)]]
           clause == Clause(data)
<1>1. last \in Nat /\ \A n \in 1..last : data.from[n] \in Elements(data.from)
  BY DEF IsData, Elements
<1>2. start \in S
  BY StartIsFinite
<1>3. \A n \in 1..last : \A before \in S : Next1(n, before) \in S
  BY <1>1, StepIsFinite
<1> HIDE DEF S, Next1, start, last
<1>4. HasSteps(S, start, last, step)
  BY <1>1, <1>2, <1>3, StepsUpTo
<1>5. PICK g \in [0..last -> S] : g = [n \in 0..last |-> IF n = 0 THEN start ELSE step[n][g[n - 1]]]
  BY <1>4 DEF HasSteps
<1>6. g = [n \in 0..last |-> IF n = 0 THEN start ELSE Next1(n, g[n - 1])]
  <2>1. ASSUME NEW n \in 0..last, n # 0
        PROVE  step[n][g[n - 1]] = Next1(n, g[n - 1])
    <3>1. n \in 1..last /\ g[n - 1] \in S
      BY <1>1, <2>1
    <3> QED
      BY <3>1
  <2> QED
    BY <1>5, <2>1
<1>7. clause = [n \in 0..last |-> IF n = 0 THEN start ELSE Next1(n, clause[n - 1])]
  BY <1>6 DEF Clause, last, start, Next1
<1> HIDE DEF clause
<1> DEFINE T == {n \in Nat : n <= last => clause[n] \in S}
<1>8. 0 \in T
  BY <1>1, <1>2, <1>7
<1>9. ASSUME NEW n \in T \cap Nat, n < last
      PROVE  n + 1 \in T
  <2>1. n + 1 \in 1..last /\ (n + 1) - 1 = n /\ n \in 0..last /\ clause[n] \in S
    BY <1>1, <1>9
  <2>2. clause[n + 1] = Next1(n + 1, clause[n])
    BY <1>7, <2>1
  <2>3. clause[n + 1] \in S
    BY <1>3, <2>1, <2>2
  <2> QED
    BY <2>3
<1> HIDE DEF T
<1>10. last \in T
  BY <1>1, <1>8, <1>9, Reaches
<1>11. clause[last] \in S
  BY <1>1, <1>10 DEF T
<1>12. FromClause(data) = clause[last]
  BY DEF FromClause, Clause, clause, last
<1> QED
  BY <1>11, <1>12 DEF S, RowSets

(* The WHERE clause lets through what may be read and passes the filters.  *)
LEMMA WhatIsVisibleIsReadable ==
  ASSUME NEW request, NEW principal, NEW dataset, NEW data, NEW scopes, NEW now,
         ClocksKeepMidnight, Refusal(scopes, now) = "none",
         \A rows \in FromClause(data) : ScopesAreKnown(scopes, ValuesOf(data, rows), now)
  PROVE  Visible(request, principal, dataset, data, ScopedFilters(scopes, now))
           = {rows \in FromClause(data) :
                /\ data.tables[data.fact][rows[data.fact]].active
                /\ MayRead(dataset.policies, principal, ValuesOf(data, rows))
                /\ request.filter # None => Meets(request.filter, ValuesOf(data, rows))
                /\ PassesScopes(scopes, ValuesOf(data, rows), now)}
<1> DEFINE scoped == ScopedFilters(scopes, now)
           filters == Elements(scoped) \cup ({request.filter} \ {None})
           IsTaken(rows) ==
             /\ data.tables[data.fact][rows[data.fact]].active
             /\ PolicyTruth(dataset.policies, principal, ValuesOf(data, rows)) = "true"
             /\ \A filter \in filters : FilterTruth(filter, ValuesOf(data, rows)) = "true"
           MayBeTaken(rows) ==
             /\ data.tables[data.fact][rows[data.fact]].active
             /\ MayRead(dataset.policies, principal, ValuesOf(data, rows))
             /\ request.filter # None => Meets(request.filter, ValuesOf(data, rows))
             /\ PassesScopes(scopes, ValuesOf(data, rows), now)
<1>1. Visible(request, principal, dataset, data, scoped) = {rows \in FromClause(data) : IsTaken(rows)}
  BY DEF Visible
<1>3. ASSUME NEW rows \in FromClause(data)
      PROVE  IsTaken(rows) <=> MayBeTaken(rows)
  <2> DEFINE row == ValuesOf(data, rows)
  <2>1. ScopesAreKnown(scopes, row, now)
    OBVIOUS
  <2> HIDE DEF row
  <2>2. PolicyTruth(dataset.policies, principal, row) = "true"
          <=> MayRead(dataset.policies, principal, row)
    BY PoliciesLetThroughWhatMayBeRead
  <2>3. FilterTruth(request.filter, row) = "true" <=> Meets(request.filter, row)
    BY FilterTruthIsSql
  <2>4. (\A i \in DOMAIN scoped : FilterTruth(scoped[i], row) = "true")
          <=> PassesScopes(scopes, row, now)
    BY <2>1, FiltersMeanLocalDays
  <2> HIDE DEF scoped
  <2>5. (\A filter \in filters : FilterTruth(filter, row) = "true")
          <=> /\ request.filter # None => Meets(request.filter, row)
              /\ PassesScopes(scopes, row, now)
    BY <2>3, <2>4 DEF Elements
  <2> HIDE DEF filters
  <2> QED
    BY <2>2, <2>5 DEF row
<1> HIDE DEF IsTaken, MayBeTaken
<1>4. {rows \in FromClause(data) : IsTaken(rows)} = {rows \in FromClause(data) : MayBeTaken(rows)}
  BY <1>3
<1> QED
  BY <1>1, <1>4 DEF scoped, MayBeTaken

(* The last of the positions with a property has it.                       *)
LEMMA LastIsThere ==
  ASSUME NEW n \in Nat, NEW I \in SUBSET (1..n), I # {}
  PROVE  Max(I) \in I
<1> DEFINE T == {k \in Nat : n - k \in I}
<1>1. T # {}
  <2>1. PICK i \in I : TRUE
    OBVIOUS
  <2>2. n - i \in Nat /\ n - (n - i) = i
    BY <2>1
  <2> QED
    BY <2>1, <2>2
<1>2. T \in SUBSET Nat
  OBVIOUS
<1> HIDE DEF T
<1>3. PICK k \in T : \A m \in T : k <= m
  BY <1>1, <1>2, LeastNatural
<1>4. k \in Nat /\ n - k \in I
  BY <1>3 DEF T
<1>5. ASSUME NEW i \in I
      PROVE  n - k >= i
  <2>1. n - i \in Nat /\ n - (n - i) = i
    BY <1>5
  <2>2. n - i \in T
    BY <2>1 DEF T
  <2>3. k <= n - i
    BY <1>3, <2>2
  <2> QED
    BY <1>4, <2>1, <2>3
<1> QED
  BY <1>4, <1>5 DEF Max

(* A query that the database takes is grouped by what it selects plainly.  *)
LEMMA GroupedIsPlain ==
  ASSUME NEW request, request.selections \in Seq(Elements(request.selections)),
         GroupsArePlain(request), request.group # << >>, GroupsWhatItSelects(request)
  PROVE  GroupSelections(request) = Plain(request)
<1> DEFINE selections == request.selections
<1>1. Len(selections) \in Nat /\ DOMAIN selections = 1..Len(selections)
  BY DEF IsRequest
<1>2. ASSUME NEW field \in Elements(request.group)
      PROVE  selections[GroupedBy(request, field)] \in Plain(request)
  <2> DEFINE I == {i \in 1..Len(selections) :
                     selections[i].field = field /\ selections[i].aggregate = None}
  <2>1. GroupedBy(request, field) = IF I # {} THEN Max(I) ELSE 0
    BY DEF GroupedBy, SelectLastInSeq
  <2>2. field \in {s.field : s \in Plain(request)}
    BY <1>2 DEF GroupsArePlain
  <2>3. PICK s \in Plain(request) : s.field = field
    BY <2>2
  <2>4. PICK i \in DOMAIN selections : s = selections[i]
    BY <2>3 DEF Plain, Elements
  <2>5. I # {}
    BY <1>1, <2>3, <2>4 DEF Plain
  <2>6. I \in SUBSET (1..Len(selections))
    OBVIOUS
  <2> HIDE DEF I
  <2>7. Max(I) \in I
    BY <1>1, <2>5, <2>6, LastIsThere
  <2>8. GroupedBy(request, field) \in I
    BY <2>1, <2>5, <2>7
  <2> QED
    BY <1>1, <2>8 DEF I, Plain, Elements
<1> QED
  BY <1>2 DEF GroupSelections, GroupsWhatItSelects

(* The GROUP BY clause, with the last plain selection of each field, makes *)
(* the groups of rows that agree in every plain selection.                 *)
LEMMA GroupsAreExpected ==
  ASSUME NEW request, IsRequest(request), QueryIsWellFormed(request),
         GroupsWhatItSelects(request), NEW readable
  PROVE  Groups(request, QueryDataset, QueryData, readable) = Expected(request, readable)
<1> DEFINE Key(rows) == [s \in GroupSelections(request) |->
                           SelectedValue(s, QueryDataset, QueryData, rows)]
<1>1. CASE request.metrics = << >> /\ ~ HasAggregate(request)
  BY <1>1 DEF Groups, Expected
<1>2. CASE ~ (request.metrics = << >> /\ ~ HasAggregate(request)) /\ request.group = << >>
  BY <1>2 DEF Groups, Expected
<1>3. CASE ~ (request.metrics = << >> /\ ~ HasAggregate(request)) /\ request.group # << >>
  <2>1. GroupsArePlain(request)
    BY <1>3 DEF QueryIsWellFormed
  <2>2. GroupSelections(request) = Plain(request)
    BY <1>3, <2>1, GroupedIsPlain DEF IsRequest
  <2>3. \A rows : Key(rows) = PlainValues(request, rows)
    BY <2>2 DEF PlainValues
  <2>4. Groups(request, QueryDataset, QueryData, readable)
          = {{other \in readable : Key(other) = Key(rows)} : rows \in readable}
    BY <1>3 DEF Groups
  <2>5. Expected(request, readable)
          = {{other \in readable : PlainValues(request, other) = PlainValues(request, rows)} :
               rows \in readable}
    BY <1>3 DEF Expected
  <2> HIDE DEF Key
  <2> QED
    BY <2>3, <2>4, <2>5
<1> QED
  BY <1>1, <1>2, <1>3

(* Finitely many rows make finitely many groups.                           *)
LEMMA ExpectedIsFinite ==
  ASSUME NEW request, NEW readable, IsFiniteSet(readable)
  PROVE  IsFiniteSet(Expected(request, readable))
<1> DEFINE one == [rows \in readable |-> {rows}]
           same == [rows \in readable |->
                      {other \in readable :
                         PlainValues(request, other) = PlainValues(request, rows)}]
<1>1. IsFiniteSet({one[rows] : rows \in readable})
  BY ImageIsFinite
<1>2. IsFiniteSet({same[rows] : rows \in readable})
  BY ImageIsFinite
<1>3. IsFiniteSet({readable})
  BY FS_Singleton
<1>4. /\ {one[rows] : rows \in readable} = {{rows} : rows \in readable}
      /\ {same[rows] : rows \in readable}
           = {{other \in readable :
                 PlainValues(request, other) = PlainValues(request, rows)} : rows \in readable}
  OBVIOUS
<1> HIDE DEF one, same
<1> QED
  BY <1>1, <1>2, <1>3, <1>4 DEF Expected

(* The groups in an order that the database may choose, each one once.     *)
LEMMA OrdersAre ==
  ASSUME NEW order, NEW lines, IsFiniteSet(DOMAIN lines), NEW sequence \in Orders(order, lines)
  PROVE  /\ sequence \in [1..Cardinality(DOMAIN lines) -> DOMAIN lines]
         /\ Cardinality(DOMAIN lines) \in Nat
         /\ Len(sequence) = Cardinality(DOMAIN lines)
         /\ \A i, j \in DOMAIN sequence : sequence[i] = sequence[j] => i = j
         /\ \A group \in DOMAIN lines : \E i \in DOMAIN sequence : sequence[i] = group
         /\ \A i, j \in DOMAIN sequence :
              i < j => ~ Before(order, lines[sequence[j]], lines[sequence[i]])
<1> DEFINE groups == DOMAIN lines
           n == Cardinality(groups)
<1>1. sequence \in [1..n -> groups] /\ \A i, j \in 1..n : i # j => sequence[i] # sequence[j]
  BY DEF Orders, SetToSeqs
<1>2. \A i, j \in DOMAIN sequence :
        i < j => ~ Before(order, lines[sequence[j]], lines[sequence[i]])
  BY DEF Orders
<1> HIDE DEF groups
<1>3. n \in Nat
  BY FS_CardinalityType DEF groups
<1> HIDE DEF n
<1>4. IsFiniteSet(1..n) /\ Cardinality(1..n) = n
  BY <1>3, UpTo
<1>5. sequence \in Injection(1..n, groups)
  BY <1>1 DEF Injection, IsInjective
<1>6. IsFiniteSet(groups) /\ Cardinality(1..n) = Cardinality(groups)
  BY <1>4 DEF groups, n
<1>7. sequence \in Surjection(1..n, groups)
  BY <1>4, <1>5, <1>6, FS_Injection
<1>8. Len(sequence) = n /\ DOMAIN sequence = 1..n
  BY <1>1, <1>3
<1> QED
  BY <1>1, <1>2, <1>3, <1>7, <1>8 DEF groups, n, Surjection

(* A function on 1..n is a sequence of length n.                           *)
LEMMA LenOfFunction ==
  ASSUME NEW n \in Nat, NEW S, NEW f \in [1..n -> S]
  PROVE  f \in Seq(S) /\ Len(f) = n
OBVIOUS

(* How often a line is among those of a family; the first lines.          *)
Times(lines, line) == Cardinality({group \in DOMAIN lines : lines[group] = line})
LinesOf(request, dataset, data, groups) == [group \in groups |-> Line(request, dataset, data, group)]
FirstOf(sequence, limit) == SubSeq(sequence, 1, Min({limit, Len(sequence)}))
LinesShown(lines, shown) == [i \in DOMAIN shown |-> lines[shown[i]]]

(* The first lines of such an order: no line comes more often than there   *)
(* are groups with it, and what is left out comes before none of them.     *)
LEMMA FirstLines ==
  ASSUME NEW order, NEW lines, IsFiniteSet(DOMAIN lines), NEW sequence \in Orders(order, lines),
         NEW limit \in Nat, NEW rows, rows = LinesShown(lines, FirstOf(sequence, limit))
  PROVE  /\ Len(rows) = Min({limit, Cardinality(DOMAIN lines)})
         /\ \A i \in DOMAIN rows : Times(rows, rows[i]) <= Times(lines, rows[i])
         /\ \A i \in DOMAIN rows, group \in DOMAIN lines :
              Times(rows, lines[group]) < Times(lines, lines[group]) =>
                ~ Before(order, lines[group], rows[i])
<1> DEFINE shown == FirstOf(sequence, limit)
           groups == DOMAIN lines
           n == Cardinality(groups)
           k == Min({limit, n})
           with(line) == {group \in groups : lines[group] = line}
           at(line) == {i \in DOMAIN rows : rows[i] = line}
<1>1. /\ sequence \in [1..n -> groups] /\ n \in Nat /\ Len(sequence) = n
      /\ \A i, j \in DOMAIN sequence : sequence[i] = sequence[j] => i = j
      /\ \A group \in groups : \E i \in DOMAIN sequence : sequence[i] = group
      /\ \A i, j \in DOMAIN sequence :
           i < j => ~ Before(order, lines[sequence[j]], lines[sequence[i]])
  BY OrdersAre
<1>2. IsFiniteSet(groups)
  OBVIOUS
<1> HIDE DEF n, groups
<1>3. k \in 0..n
  <2>1. n \in Nat
    BY <1>1
  <2>2. \E x \in {limit, n} : \A y \in {limit, n} : x <= y
    BY <2>1
  <2>3. k \in {limit, n} /\ k <= limit /\ k <= n
    BY <2>2 DEF Min
  <2> QED
    BY <2>1, <2>3
<1>4. k = Min({limit, Len(sequence)})
  BY <1>1
<1> HIDE DEF k
<1>5. /\ SubSeq(sequence, 1, k) = [i \in 1..k |-> sequence[i]]
      /\ DOMAIN SubSeq(sequence, 1, k) = 1..k
  BY <1>1, <1>3
<1>6. rows = [i \in 1..k |-> lines[sequence[i]]]
  <2>1. DOMAIN shown = 1..k /\ \A i \in 1..k : shown[i] = sequence[i]
    BY <1>4, <1>5 DEF FirstOf
  <2> QED
    BY <2>1 DEF LinesShown
<1> HIDE DEF shown
<1>7. DOMAIN rows = 1..k /\ Len(rows) = k /\ \A i \in 1..k : rows[i] = lines[sequence[i]]
  <2> DEFINE all == {rows[i] : i \in 1..k}
  <2>1. DOMAIN rows = 1..k /\ \A i \in 1..k : rows[i] = lines[sequence[i]]
    BY <1>6
  <2>2. rows \in [1..k -> all]
    <3>1. rows = [i \in 1..k |-> rows[i]]
      BY <1>6
    <3> QED
      BY <3>1
  <2> HIDE DEF all
  <2>3. k \in Nat
    BY <1>1, <1>3
  <2>4. Len(rows) = k
    BY <2>2, <2>3, LenOfFunction
  <2> QED
    BY <2>1, <2>4
<1>8. \A i \in 1..k : i \in 1..n /\ i \in DOMAIN sequence /\ sequence[i] \in groups
  BY <1>1, <1>3
<1>9. ASSUME NEW line
      PROVE  /\ IsFiniteSet(with(line)) /\ IsFiniteSet(at(line))
             /\ Cardinality(with(line)) \in Nat /\ Cardinality(at(line)) \in Nat
             /\ Cardinality(at(line)) <= Cardinality(with(line))
             /\ Cardinality(at(line)) < Cardinality(with(line)) =>
                  \E i \in 1..n : i > k /\ lines[sequence[i]] = line
  <2> DEFINE place == [i \in at(line) |-> sequence[i]]
             W == with(line)
             A == at(line)
  <2>1. W \in SUBSET groups /\ A \in SUBSET (1..k) /\ IsFiniteSet(1..k)
    <3>1. W \in SUBSET groups /\ A \in SUBSET (1..k)
      BY <1>7
    <3>2. k \in Nat
      BY <1>1, <1>3
    <3> QED
      BY <3>1, <3>2, UpTo
  <2>2. IsFiniteSet(W) /\ IsFiniteSet(A)
    <3> HIDE DEF W, A
    <3> QED
      BY <1>2, <2>1, FS_Subset
  <2>3. place \in [A -> W]
    BY <1>7, <1>8
  <2>4. place \in Injection(A, W)
    <3>1. \A i \in A : i \in DOMAIN sequence /\ place[i] = sequence[i]
      BY <1>7, <1>8
    <3> HIDE DEF place, A, W
    <3>2. \A i, j \in A : place[i] = place[j] => i = j
      BY <1>1, <3>1
    <3> QED
      BY <2>3, <3>2 DEF Injection, IsInjective
  <2> HIDE DEF W, A, place
  <2>5. Cardinality(A) <= Cardinality(W)
    BY <2>2, <2>4, FS_Injection
  <2>6. Cardinality(W) \in Nat /\ Cardinality(A) \in Nat
    BY <2>2, FS_CardinalityType
  <2>7. ASSUME Cardinality(A) < Cardinality(W)
        PROVE  \E i \in 1..n : i > k /\ lines[sequence[i]] = line
    <3>1. place \notin Surjection(A, W)
      <4>1. SUFFICES ASSUME place \in Surjection(A, W) PROVE FALSE
        OBVIOUS
      <4>2. Cardinality(W) <= Cardinality(A)
        BY <2>2, <4>1, FS_Surjection
      <4> QED
        BY <2>6, <2>7, <4>2
    <3>2. PICK group \in W : \A i \in A : place[i] # group
      BY <2>3, <3>1 DEF Surjection
    <3>3. group \in groups /\ lines[group] = line
      BY DEF W
    <3>4. PICK i \in 1..n : sequence[i] = group
      BY <1>1, <3>3
    <3>5. i \notin 1..k
      <4>1. SUFFICES ASSUME i \in 1..k PROVE FALSE
        OBVIOUS
      <4>2. i \in A /\ place[i] = group
        BY <1>7, <3>3, <3>4, <4>1 DEF A, place
      <4> QED
        BY <3>2, <4>2
    <3>6. i > k
      BY <1>1, <1>3, <3>5
    <3> QED
      BY <3>3, <3>4, <3>6
  <2> QED
    BY <2>2, <2>5, <2>6, <2>7 DEF W, A
<1> HIDE DEF with, at
<1>10. ASSUME NEW i \in 1..k, NEW group \in groups,
              Cardinality(at(lines[group])) < Cardinality(with(lines[group]))
       PROVE  ~ Before(order, lines[group], rows[i])
  <2>1. PICK j \in 1..n : j > k /\ lines[sequence[j]] = lines[group]
    BY <1>9, <1>10
  <2>2. i < j /\ i \in DOMAIN sequence /\ j \in DOMAIN sequence
    BY <1>1, <1>3, <2>1
  <2>3. ~ Before(order, lines[sequence[j]], lines[sequence[i]])
    BY <1>1, <2>2
  <2> QED
    BY <1>7, <2>1, <2>3
<1> QED
  BY <1>7, <1>9, <1>10 DEF with, at, k, n, groups, Times

(* An answer is a record of what it shows.                                 *)
IsRecord(one) ==
  /\ one = [error |-> "none", rows |-> one.rows, truncated |-> one.truncated,
            batches |-> one.batches]
  /\ one.truncated \in BOOLEAN

(* An answer without an error, taken apart.                                *)
LEMMA AnswersAre ==
  ASSUME NEW request, NEW principal, NEW dataset, NEW data, NEW later, NEW scoped,
         NEW visible, visible = Visible(request, principal, dataset, data, scoped),
         NEW groups, groups = Groups(request, dataset, data, visible),
         NEW lines, lines = LinesOf(request, dataset, data, groups),
         NEW one \in Answers(request, principal, dataset, data, later, scoped),
         one.error = "none"
  PROVE  /\ GroupsWhatItSelects(request)
         /\ one.truncated <=> Cardinality(groups) > request.limit
         /\ one.batches = BatchesOf(later, Visible(request, principal, dataset, later, scoped))
         /\ \E sequence \in Orders(request.order, lines) :
              one.rows = LinesShown(lines, FirstOf(sequence, request.limit))
         /\ IsRecord(one)
<1> DEFINE batches == BatchesOf(later, Visible(request, principal, dataset, later, scoped))
           Rows(sequence) == LinesShown(lines, FirstOf(sequence, request.limit))
           good == {[error |-> "none", rows |-> Rows(sequence),
                     truncated |-> Cardinality(groups) > request.limit,
                     batches |-> batches] : sequence \in Orders(request.order, lines)}
<1>1. Answers(request, principal, dataset, data, later, scoped) =
        CASE ~ GroupsWhatItSelects(request) -> {[error |-> "database_error"]}
          [] Cardinality(batches) > MaxBatches -> {[error |-> "source_batch_limit_exceeded"]}
          [] OTHER -> good
  BY DEF Answers, Map, LinesOf, LinesShown, FirstOf
<1> HIDE DEF good, batches
<1>2. one \in good /\ GroupsWhatItSelects(request)
  <2>1. [error |-> "database_error"].error # "none"
        /\ [error |-> "source_batch_limit_exceeded"].error # "none"
    OBVIOUS
  <2> QED
    BY <1>1, <2>1
<1> HIDE DEF Rows
<1>3. PICK sequence \in Orders(request.order, lines) :
        one = [error |-> "none", rows |-> Rows(sequence),
               truncated |-> Cardinality(groups) > request.limit, batches |-> batches]
  BY <1>2 DEF good
<1> DEFINE more == Cardinality(groups) > request.limit
<1>4. more \in BOOLEAN
  OBVIOUS
<1> HIDE DEF more
<1>5. one.rows = Rows(sequence) /\ one.batches = batches /\ one.truncated = more
  BY <1>3 DEF more
<1>6. IsRecord(one)
  BY <1>3, <1>4, <1>5 DEF IsRecord, more
<1> QED
  BY <1>2, <1>5, <1>6 DEF Rows, batches, more

(* The clocks keep midnight, the filters of the dashboard are not refused, *)
(* and each of them is known of each row.                                  *)
AreUnderstood(scopes, data) ==
  /\ ClocksKeepMidnight /\ Refusal(scopes, QueryMoment) = "none" /\ IsData(data)
  /\ \A rows \in FromClause(data) : ScopesAreKnown(scopes, ValuesOf(data, rows), QueryMoment)

(* Whatever order the database chooses, an answer of a well-formed query   *)
(* has the first lines of the groups of the rows that may be read.         *)
LEMMA OneAnswerIsExact ==
  ASSUME NEW request, IsRequest(request), NEW scopes, AreUnderstood(scopes, QueryData),
         NEW one \in AnswerDatasetQuery(request, scopes, QueryData, QueryData),
         one.error = "none"
  PROVE  IsExact(request, ReadableRows(request, scopes), one)
<1> DEFINE data == QueryData
           scoped == ScopedFilters(scopes, QueryMoment)
           visible == Visible(request, Principal, QueryDataset, data, scoped)
           readable == ReadableRows(request, scopes)
           groups == Groups(request, QueryDataset, data, visible)
           lines == LinesOf(request, QueryDataset, data, groups)
           expected == Expected(request, readable)
           LineOf(group) == Line(request, QueryDataset, data, group)
           Expects(line) == Cardinality({group \in expected : LineOf(group) = line})
           Shown(line) == Cardinality({i \in DOMAIN one.rows : one.rows[i] = line})
<1>1. QueryIsWellFormed(request) /\ one \in Answers(request, Principal, QueryDataset, data, data, scoped)
  BY DEF AnswerDatasetQuery
<1>2. /\ GroupsWhatItSelects(request)
      /\ one.truncated <=> Cardinality(groups) > request.limit
      /\ one.batches = BatchesOf(data, visible)
      /\ \E sequence \in Orders(request.order, lines) :
           one.rows = LinesShown(lines, FirstOf(sequence, request.limit))
  <2> HIDE DEF data, scoped, Expects, Shown
  <2>1. one \in Answers(request, Principal, QueryDataset, data, data, scoped)
    BY <1>1
  <2> QED
    BY <2>1, AnswersAre
<1>3. visible = readable
  BY WhatIsVisibleIsReadable DEF ReadableRows, Readable, AreUnderstood
<1>4. groups = expected
  <2> HIDE DEF visible, readable
  <2>1. groups = Groups(request, QueryDataset, QueryData, readable)
    BY <1>3
  <2> QED
    BY <1>1, <1>2, <2>1, GroupsAreExpected
<1>5. IsFiniteSet(expected)
  BY FromClauseIsFinite, FS_Subset, ExpectedIsFinite, Zenon
  DEF ReadableRows, Readable, AreUnderstood
<1>6. request.limit \in Nat
  BY <1>1, QueriesAssumption DEF QueryIsWellFormed
<1>7. DOMAIN lines = expected /\ \A group \in expected : lines[group] = LineOf(group)
  BY <1>4 DEF LinesOf
<1> HIDE DEF lines, groups, expected, readable, visible, LineOf, data, scoped, Expects, Shown
<1>8. PICK sequence \in Orders(request.order, lines) :
        one.rows = LinesShown(lines, FirstOf(sequence, request.limit))
  BY <1>2
<1>9. /\ Len(one.rows) = Min({request.limit, Cardinality(DOMAIN lines)})
      /\ \A i \in DOMAIN one.rows : Times(one.rows, one.rows[i]) <= Times(lines, one.rows[i])
      /\ \A i \in DOMAIN one.rows, group \in DOMAIN lines :
           Times(one.rows, lines[group]) < Times(lines, lines[group]) =>
             ~ Before(request.order, lines[group], one.rows[i])
  <2>1. IsFiniteSet(DOMAIN lines)
    BY <1>5, <1>7
  <2> QED
    BY <1>6, <1>8, <2>1, FirstLines
<1>10. \A line : Times(one.rows, line) = Shown(line)
  BY DEF Times, Shown
<1>11. \A line : Times(lines, line) = Expects(line)
  <2>1. \A line : {group \in DOMAIN lines : lines[group] = line}
                  = {group \in expected : LineOf(group) = line}
    BY <1>7
  <2> QED
    BY <2>1 DEF Times, Expects
<1>12. one.truncated <=> Cardinality(expected) > request.limit
  BY <1>2, <1>4
<1>13. one.batches = BatchesOf(data, readable)
  BY <1>2, <1>3
<1>14. ASSUME NEW i \in DOMAIN one.rows
       PROVE  Shown(one.rows[i]) <= Expects(one.rows[i])
  BY <1>9, <1>10, <1>11
<1>15. ASSUME NEW i \in DOMAIN one.rows, NEW group \in expected,
              Shown(LineOf(group)) < Expects(LineOf(group))
       PROVE  ~ Before(request.order, LineOf(group), one.rows[i])
  BY <1>7, <1>9, <1>10, <1>11, <1>15
<1>16. Len(one.rows) = Min({request.limit, Cardinality(expected)})
  BY <1>7, <1>9
<1> QED
  BY <1>12, <1>13, <1>14, <1>15, <1>16
  DEF IsExact, Expects, Shown, LineOf, expected, readable, data

(* execute_dataset_query: every answer without an error has the first      *)
(* lines, in the order that was asked for, of the groups of exactly the    *)
(* rows the reader may read and the filters let through; it says whether   *)
(* lines are left out, and names the import batches of all these rows.     *)
THEOREM AnswersCountWhatMayBeRead == Spec => []AnswersAreExact
<1>1. QInv => AnswersAreExact
  <2> SUFFICES ASSUME QInv, Answered("query"), NEW one \in answer, one.error = "none"
               PROVE  IsExact(question.request, ReadableRows(question.request, question.scopes), one)
    BY DEF AnswersAreExact
  <2> DEFINE request == question.request
             scopes == question.scopes
  <2>1. /\ question.topic = "query" /\ answer = AnswerOf(question)
        /\ request \in QueryRequests /\ scopes \in QueryScopes
    BY QuestionsAsk DEF QInv, Answered, IsAbout
  <2>2. one \in AnswerQuery(request, scopes)
    BY <2>1 DEF AnswerOf
  <2>3. one \in AnswerDatasetQuery(request, scopes, QueryData, QueryData)
    BY <2>2 DEF AnswerQuery
  <2>4. QueryData \in Range(History)
    BY AnswersAssumption DEF QueryData, Range
  <2>5. IsRequest(request) /\ AreUnderstood(scopes, QueryData)
    BY <2>1, <2>4, RequestsAssumption, ScopesAssumption DEF AreUnderstood
  <2> HIDE DEF request, scopes
  <2>6. IsExact(request, ReadableRows(request, scopes), one)
    BY <2>3, <2>5, OneAnswerIsExact
  <2> QED
    BY <2>6 DEF request, scopes
<1> QED
  BY <1>1, AnswersAreOfQuestions, PTL

-----------------------------------------------------------------------------
(* The rows of a file.                                                     *)

(* The values of a row, and the keys the duplicate tracker keeps of it.    *)
ValuesIn(definition, row) ==
  Quality!ConvertedValues(definition, Quality!Cells(definition, row))
KeysOf(definition, row) ==
  {Quality!Tracked(ask, ValuesIn(definition, row)) :
     ask \in Quality!AskedKeys(definition, ValuesIn(definition, row))}
KeysBefore(definition, rows, n) == UNION {KeysOf(definition, rows[j]) : j \in 1..(n - 1)}

LEMMA RowIsEvaluated ==
  ASSUME NEW definition, NEW confirmed, NEW seen, NEW row
  PROVE  LET one == Quality!EvaluatedRow(definition, confirmed, seen, row)
         IN /\ one.values = ValuesIn(definition, row)
            /\ one.seen = seen \cup KeysOf(definition, row)
BY DEF Quality!EvaluatedRow, ValuesIn, KeysOf

(* A row is evaluated with the keys of all the rows before it, accepted or *)
(* not.                                                                    *)
LEMMA FileIsEvaluated ==
  ASSUME NEW definition, NEW confirmed, NEW rows, Quality!IsFile(rows)
  PROVE  Quality!EvaluatedFile(definition, confirmed, rows)
           = [n \in 1..Len(rows) |->
                Quality!EvaluatedRow(definition, confirmed, KeysBefore(definition, rows, n), rows[n])]
<1> DEFINE One(seen, n) == Quality!EvaluatedRow(definition, confirmed, seen, rows[n])
           Prior(n) == KeysBefore(definition, rows, n)
           N == Len(rows)
           Solves(f) == f = [n \in 1..N |-> One(IF n = 1 THEN {} ELSE f[n - 1].seen, n)]
           g == [n \in 1..N |-> One(Prior(n), n)]
           file == CHOOSE f : Solves(f)
<1>1. N \in Nat
  BY DEF Quality!IsFile
<1>2. Quality!EvaluatedFile(definition, confirmed, rows) = file
  BY DEF Quality!EvaluatedFile
<1>3. \A seen, n : One(seen, n).seen = seen \cup KeysOf(definition, rows[n])
  BY RowIsEvaluated
<1> HIDE DEF One, N
<1>4. Prior(1) = {} /\ \A n \in 1..N : Prior(n + 1) = Prior(n) \cup KeysOf(definition, rows[n])
  <2>1. ASSUME NEW n \in 1..N
        PROVE  Prior(n + 1) = Prior(n) \cup KeysOf(definition, rows[n])
    <3>1. 1..((n + 1) - 1) = 1..(n - 1) \cup {n}
      BY <1>1
    <3> QED
      BY <3>1 DEF KeysBefore
  <2> QED
    BY <2>1 DEF KeysBefore
<1> HIDE DEF Prior
<1>5. Solves(g)
  <2>1. ASSUME NEW n \in 1..N
        PROVE  Prior(n) = IF n = 1 THEN {} ELSE g[n - 1].seen
    <3>1. CASE n = 1
      BY <3>1, <1>4
    <3>2. CASE n # 1
      <4>1. n - 1 \in 1..N /\ (n - 1) + 1 = n
        BY <1>1, <3>2
      <4>2. g[n - 1].seen = Prior(n - 1) \cup KeysOf(definition, rows[n - 1])
        BY <4>1, <1>3
      <4> HIDE DEF g
      <4> QED
        BY <3>2, <4>1, <4>2, <1>4
    <3> QED
      BY <3>1, <3>2
  <2>2. \A n \in 1..N : g[n] = One(IF n = 1 THEN {} ELSE g[n - 1].seen, n)
    BY <2>1
  <2> QED
    BY <2>2
<1>6. Solves(file)
  BY <1>5
<1> HIDE DEF file
<1>7. DOMAIN file = 1..N /\ \A n \in 1..N : file[n] = One(IF n = 1 THEN {} ELSE file[n - 1].seen, n)
  <2>1. file = [n \in 1..N |-> One(IF n = 1 THEN {} ELSE file[n - 1].seen, n)]
    BY <1>6
  <2> QED
    BY <2>1
<1> DEFINE T == {n \in Nat : n \in 1..N => file[n] = One(Prior(n), n)}
<1>8. 0 \in T
  OBVIOUS
<1>9. ASSUME NEW n \in T \cap Nat, n < N
      PROVE  n + 1 \in T
  <2>1. CASE n = 0
    <3>1. 1 \in 1..N /\ n + 1 = 1
      BY <1>1, <1>9, <2>1
    <3>2. file[1] = One({}, 1)
      BY <1>7, <3>1
    <3> QED
      BY <1>4, <3>1, <3>2
  <2>2. CASE n # 0
    <3>1. n \in 1..N /\ n + 1 \in 1..N /\ n + 1 # 1 /\ (n + 1) - 1 = n
      BY <1>1, <1>9, <2>2
    <3>2. file[n] = One(Prior(n), n)
      BY <1>9, <3>1
    <3>3. file[n].seen = Prior(n + 1)
      <4>1. One(Prior(n), n).seen = Prior(n) \cup KeysOf(definition, rows[n])
        BY <1>3, Zenon
      <4>2. Prior(n + 1) = Prior(n) \cup KeysOf(definition, rows[n])
        BY <1>4, <3>1
      <4> QED
        BY <3>2, <4>1, <4>2, Zenon
    <3>4. file[n + 1] = One(file[n].seen, n + 1)
      <4> DEFINE m == n + 1
      <4>1. m \in 1..N /\ m # 1 /\ m - 1 = n
        BY <3>1
      <4> HIDE DEF m
      <4>2. file[m] = One(file[n].seen, m)
        BY <1>7, <4>1
      <4> QED
        BY <4>2 DEF m
    <3>5. file[n + 1] = One(Prior(n + 1), n + 1)
      BY <3>1, <3>3, <3>4
    <3> QED
      BY <3>1, <3>5
  <2> QED
    BY <2>1, <2>2
<1>10. \A n \in 0..N : n \in T
  <2> HIDE DEF T
  <2> QED
    BY <1>1, <1>8, <1>9, Reaches
<1>11. \A n \in 1..N : file[n] = One(Prior(n), n)
  BY <1>1, <1>10 DEF T
<1>12. file = g
  <2>1. file = [n \in 1..N |-> file[n]]
    <3>1. file = [n \in 1..N |-> One(IF n = 1 THEN {} ELSE file[n - 1].seen, n)]
      BY <1>6
    <3> QED
      BY <1>7, <3>1
  <2> QED
    BY <1>11, <2>1
<1> QED
  BY <1>2, <1>12 DEF One, Prior, N

(* A value that could be converted has the type of its column.             *)
LEMMA ConvertedHaveTheirType ==
  ASSUME NEW cell, NEW type \in Quality!ColumnTypes, Quality!Convert(cell, type) # Quality!Invalid
  PROVE  Quality!Convert(cell, type)[1] = type
<1> USE DEF Quality!Invalid, Quality!Convert
<1>1. CASE type = "string"
  BY <1>1
<1>2. CASE type = "integer"
  BY <1>2 DEF Quality!IntegerOf
<1>3. CASE type = "decimal"
  BY <1>3 DEF Quality!DecimalOf
<1>4. CASE type = "boolean"
  BY <1>4 DEF Quality!BooleanOf
<1>5. CASE type = "date"
  BY <1>5 DEF Quality!DateOf
<1>6. CASE type = "datetime"
  BY <1>6 DEF Quality!DatetimeOf
<1> QED
  BY <1>1, <1>2, <1>3, <1>4, <1>5, <1>6 DEF Quality!ColumnTypes

(* Rules and keys count unless they warn and the warnings are confirmed.   *)
CountsFor(rule, confirmed) == rule.severity = "error" \/ ~ confirmed
IsFilledWith(cell, value, column) ==
  IF Quality!IsBlank(cell) THEN column.nullable ELSE value[1] = column.type
IsBrokenBy(rule, cells, values) ==
  /\ rule.type # "business_key"
  /\ Quality!Fails(rule, cells[rule.column], values[rule.column])

(* The issues of the columns of a row are those of values that are missing *)
(* or of another type.                                                     *)
LEMMA ColumnsAreFilled ==
  ASSUME NEW definition, Quality!IsTemplate(definition), Quality!DefinitionIsAccepted(definition),
         NEW row, NEW cells, cells = Quality!Cells(definition, row),
         NEW values, values = Quality!ConvertedValues(definition, cells)
  PROVE  /\ Quality!ColumnIssues(definition, cells, values) = {}
              <=> \A column \in Elements(definition.columns) :
                    IsFilledWith(cells[column.target], values[column.target], column)
         /\ \A issue \in Quality!ColumnIssues(definition, cells, values) : issue.severity = "error"
<1> DEFINE targets == Quality!TargetNames(definition)
           Of(target) == Quality!ColumnOf(definition, target)
           Missing(target) == Quality!IsBlank(cells[target]) /\ ~ Of(target).nullable
           Invalid(target) == ~ Quality!IsBlank(cells[target]) /\ values[target] = Quality!NoValue
<1>1. ASSUME NEW column \in Elements(definition.columns)
      PROVE  /\ column.target \in targets /\ Of(column.target) = column
             /\ column.type \in Quality!ColumnTypes
  <2>1. PICK i \in DOMAIN definition.columns : definition.columns[i] = column
    BY DEF Elements
  <2>2. \A j \in DOMAIN definition.columns :
          definition.columns[j].target = column.target => j = i
    BY <2>1 DEF Quality!DefinitionIsAccepted
  <2>3. (CHOOSE j \in DOMAIN definition.columns :
           definition.columns[j].target = column.target) = i
    BY <2>1, <2>2
  <2> QED
    BY <2>1, <2>3 DEF Quality!ColumnOf, Quality!TargetNames, Quality!IsTemplate
<1>2. \A target \in targets : \E column \in Elements(definition.columns) : column.target = target
  BY DEF Quality!TargetNames, Elements
<1>3. ASSUME NEW column \in Elements(definition.columns)
      PROVE  IsFilledWith(cells[column.target], values[column.target], column)
               <=> ~ Missing(column.target) /\ ~ Invalid(column.target)
  <2> DEFINE t == column.target
             converted == Quality!Convert(cells[t], column.type)
  <2>1. Of(t) = column /\ column.type \in Quality!ColumnTypes /\ t \in targets
    BY <1>1
  <2>2. values[t] = IF Quality!IsBlank(cells[t]) \/ converted = Quality!Invalid
                      THEN Quality!NoValue ELSE converted
    BY <2>1 DEF Quality!ConvertedValues
  <2>3. converted # Quality!Invalid => converted[1] = column.type
    BY <2>1, ConvertedHaveTheirType
  <2>4. Quality!NoValue[1] # column.type
    BY <2>1 DEF Quality!NoValue, Quality!ColumnTypes
  <2> HIDE DEF converted
  <2>5. ~ Quality!IsBlank(cells[t]) => (values[t][1] = column.type <=> values[t] # Quality!NoValue)
    BY <2>2, <2>3, <2>4
  <2> QED
    BY <2>1, <2>5 DEF IsFilledWith
<1> HIDE DEF targets, Missing, Invalid
<1>4. Quality!ColumnIssues(definition, cells, values)
        = {Quality!Issue(<<t>>, "error", "required") : t \in {u \in targets : Missing(u)}}
          \cup {Quality!Issue(<<t>>, "error", "invalid_type") : t \in {u \in targets : Invalid(u)}}
  BY DEF Quality!ColumnIssues, targets, Missing, Invalid
<1>5. Quality!ColumnIssues(definition, cells, values) = {}
        <=> \A t \in targets : ~ Missing(t) /\ ~ Invalid(t)
  BY <1>4
<1>6. \A columns, code : Quality!Issue(columns, "error", code).severity = "error"
  BY DEF Quality!Issue
<1>7. \A issue \in Quality!ColumnIssues(definition, cells, values) : issue.severity = "error"
  BY <1>4, <1>6
<1>8. (\A t \in targets : ~ Missing(t) /\ ~ Invalid(t))
        <=> \A column \in Elements(definition.columns) :
              IsFilledWith(cells[column.target], values[column.target], column)
  BY <1>1, <1>2, <1>3
<1> QED
  BY <1>5, <1>7, <1>8

(* A row is accepted when its columns are filled, no rule that counts is   *)
(* broken and no key that counts is among those that were seen.            *)
IsAcceptable(definition, confirmed, seen, cells, values) ==
  /\ \A column \in Elements(definition.columns) :
       IsFilledWith(cells[column.target], values[column.target], column)
  /\ \A rule \in Elements(definition.quality_rules) :
       CountsFor(rule, confirmed) => ~ IsBrokenBy(rule, cells, values)
  /\ \A ask \in Quality!AskedKeys(definition, values) :
       CountsFor(ask, confirmed) => Quality!Tracked(ask, values) \notin seen

LEMMA RowIsAccepted ==
  ASSUME NEW definition, Quality!IsTemplate(definition), Quality!DefinitionIsAccepted(definition),
         NEW confirmed \in BOOLEAN, NEW seen, NEW row,
         NEW cells, cells = Quality!Cells(definition, row),
         NEW values, values = ValuesIn(definition, row)
  PROVE  Quality!EvaluatedRow(definition, confirmed, seen, row).accepted
           <=> IsAcceptable(definition, confirmed, seen, cells, values)
<1> DEFINE rules == {rule \in Elements(definition.quality_rules) : rule.type # "business_key"}
           asked == Quality!AskedKeys(definition, values)
           broken == {r \in rules : Quality!Fails(r, cells[r.column], values[r.column])}
           duplicates == {ask \in asked : Quality!Tracked(ask, values) \in seen}
           ofColumns == Quality!ColumnIssues(definition, cells, values)
           IssueOf(r) == Quality!Issue(<<r.column>>, r.severity, r.type)
           ofRules == {IssueOf(r) : r \in broken}
           ofKeys == {Quality!Issue(ask.columns, ask.severity, ask.code) : ask \in duplicates}
           IsWarning(issue) == issue.severity = "warning" /\ confirmed
<1>1. values = Quality!ConvertedValues(definition, cells)
  BY DEF ValuesIn
<1>2. Elements(definition.quality_rules) = Quality!ToSet(definition.quality_rules)
  BY DEF Elements, Quality!ToSet
<1>3. Quality!EvaluatedRow(definition, confirmed, seen, row).accepted
        <=> \A issue \in ofColumns \cup ofRules \cup ofKeys : IsWarning(issue)
  BY <1>1, <1>2 DEF Quality!EvaluatedRow
<1>4. /\ ofColumns = {} <=> \A column \in Elements(definition.columns) :
                              IsFilledWith(cells[column.target], values[column.target], column)
      /\ \A issue \in ofColumns : issue.severity = "error"
  <2> HIDE DEF ofRules, ofKeys, rules, asked, broken, duplicates
  <2> QED
    BY <1>1, ColumnsAreFilled
<1>5. \A columns, severity, code : Quality!Issue(columns, severity, code).severity = severity
  BY DEF Quality!Issue
<1>6. \A rule \in rules : rule.severity \in {"error", "warning"}
  BY DEF Quality!IsTemplate, Elements
<1>7. \A ask \in asked : ask.severity \in {"error", "warning"}
  <2>1. ASSUME NEW ask \in Quality!AsksOfKey(definition)
        PROVE  ask.severity \in {"error", "warning"}
    BY DEF Quality!AsksOfKey
  <2>2. ASSUME NEW rule \in Quality!ToSet(definition.quality_rules), NEW ask \in Quality!Asks(rule)
        PROVE  ask.severity \in {"error", "warning"}
    <3>1. rule.severity \in {"error", "warning"}
      BY DEF Quality!IsTemplate, Quality!ToSet
    <3>2. ask.severity = rule.severity
      BY DEF Quality!Asks
    <3> QED
      BY <3>1, <3>2
  <2> QED
    BY <2>1, <2>2 DEF Quality!AskedKeys
<1>8. (\A issue \in ofColumns : IsWarning(issue)) <=> ofColumns = {}
  BY <1>4
<1>9. (\A issue \in ofRules : IsWarning(issue))
        <=> \A rule \in Elements(definition.quality_rules) :
              CountsFor(rule, confirmed) => ~ IsBrokenBy(rule, cells, values)
  <2>1. (\A issue \in ofRules : IsWarning(issue))
          <=> \A rule \in broken : rule.severity = "warning" /\ confirmed
    <3>1. \A r \in broken : IssueOf(r).severity = r.severity
      BY <1>5
    <3> HIDE DEF broken, IssueOf
    <3> QED
      BY <3>1
  <2>2. \A rule \in rules : CountsFor(rule, confirmed) <=> ~ (rule.severity = "warning" /\ confirmed)
    BY <1>6 DEF CountsFor
  <2>3. \A rule \in Elements(definition.quality_rules) :
          IsBrokenBy(rule, cells, values) <=> rule \in broken
    BY DEF IsBrokenBy
  <2>4. broken \subseteq rules /\ rules \subseteq Elements(definition.quality_rules)
    OBVIOUS
  <2> HIDE DEF broken, rules, ofRules
  <2> QED
    BY <2>1, <2>2, <2>3, <2>4
<1>10. (\A issue \in ofKeys : IsWarning(issue))
         <=> \A ask \in asked : CountsFor(ask, confirmed) => Quality!Tracked(ask, values) \notin seen
  <2>1. (\A issue \in ofKeys : IsWarning(issue))
          <=> \A ask \in duplicates : ask.severity = "warning" /\ confirmed
    <3> HIDE DEF duplicates
    <3> QED
      BY <1>5
  <2>2. \A ask \in asked : CountsFor(ask, confirmed) <=> ~ (ask.severity = "warning" /\ confirmed)
    BY <1>7 DEF CountsFor
  <2> HIDE DEF asked, ofKeys
  <2> QED
    BY <2>1, <2>2
<1> HIDE DEF ofColumns, ofRules, ofKeys, IsWarning, rules, broken, duplicates
<1> QED
  BY <1>3, <1>4, <1>8, <1>9, <1>10 DEF IsAcceptable

(* The keys the tracker may be asked about, and those that count.          *)
AsksIn(definition) ==
  Quality!AsksOfKey(definition)
  \cup UNION {Quality!Asks(rule) : rule \in Quality!ToSet(definition.quality_rules)}

CountedKeys(definition, confirmed) ==
  LET counted == {rule \in Elements(definition.quality_rules) : CountsFor(rule, confirmed)}
  IN ({definition.business_key} \ {<< >>})
     \cup {<<rule.column>> : rule \in {r \in counted : r.type = "unique"}}
     \cup {rule.parameters.columns : rule \in {r \in counted : r.type = "business_key"}}

HaveSameKey(key, values, others) ==
  \A c \in Elements(key) : values[c] # Quality!NoValue /\ values[c] = others[c]

(* Each rule keeps its keys in a space of its own.                         *)
LEMMA SpacesAreTheirOwn ==
  ASSUME NEW definition, Quality!DefinitionIsAccepted(definition),
         NEW ask \in AsksIn(definition), NEW other \in AsksIn(definition),
         ask.space = other.space
  PROVE  ask.columns = other.columns
<1> DEFINE rules == definition.quality_rules
           OfRule(a, i) == i \in DOMAIN rules /\ a \in Quality!Asks(rules[i])
           OfKey(a) == a \in Quality!AsksOfKey(definition)
<1>1. \A a \in AsksIn(definition) : OfKey(a) \/ \E i : OfRule(a, i)
  BY DEF AsksIn, Quality!ToSet
<1>2. ASSUME NEW a, NEW i, OfRule(a, i)
      PROVE  \/ a.space = <<"unique", rules[i].name>> /\ a.columns = <<rules[i].column>>
                /\ rules[i].type = "unique"
             \/ a.space = <<"business:rule", rules[i].name>> /\ rules[i].type = "business_key"
                /\ a.columns = rules[i].parameters.columns
  BY <1>2 DEF Quality!Asks
<1>3. \A a : OfKey(a) => a.space = <<"business", "definition">>
                         /\ a.columns = definition.business_key
  BY DEF Quality!AsksOfKey
<1>4. \A i, j \in DOMAIN rules : rules[i].name = rules[j].name => i = j
  BY DEF Quality!DefinitionIsAccepted
<1>5. CASE OfKey(ask)
  <2>1. ask.space[1] = "business"
    BY <1>3, <1>5
  <2>2. \A i : OfRule(other, i) => other.space[1] \in {"unique", "business:rule"}
    BY <1>2
  <2> HIDE DEF OfKey, OfRule
  <2>3. OfKey(other)
    BY <1>1, <2>1, <2>2
  <2> QED
    BY <1>3, <1>5, <2>3
<1>6. CASE \E i : OfRule(ask, i)
  <2>1. PICK i : OfRule(ask, i)
    BY <1>6
  <2>2. ask.space[1] \in {"unique", "business:rule"} /\ ask.space[2] = rules[i].name
    BY <1>2, <2>1
  <2>3. OfKey(other) => other.space[1] = "business"
    BY <1>3
  <2>4. PICK j : OfRule(other, j)
    <3> HIDE DEF OfKey, OfRule
    <3> QED
      BY <1>1, <2>2, <2>3
  <2>5. other.space[2] = rules[j].name
    BY <1>2, <2>4
  <2>6. i = j
    BY <1>4, <2>1, <2>2, <2>4, <2>5
  <2> QED
    BY <1>2, <2>1, <2>4, <2>6
<1> HIDE DEF OfKey, OfRule
<1> QED
  BY <1>1, <1>5, <1>6

LEMMA AskedColumns ==
  ASSUME NEW definition, NEW confirmed \in BOOLEAN
  PROVE  {ask.columns : ask \in {a \in AsksIn(definition) : CountsFor(a, confirmed)}}
           = CountedKeys(definition, confirmed)
<1> DEFINE rules == Elements(definition.quality_rules)
           asked == {a \in AsksIn(definition) : CountsFor(a, confirmed)}
           keys == CountedKeys(definition, confirmed)
<1>1. rules = Quality!ToSet(definition.quality_rules)
  BY DEF Elements, Quality!ToSet
<1>2. ASSUME NEW ask \in AsksIn(definition), CountsFor(ask, confirmed)
      PROVE  ask.columns \in keys
  <2>1. CASE ask \in Quality!AsksOfKey(definition)
    BY <2>1 DEF Quality!AsksOfKey, CountedKeys
  <2>2. CASE \E rule \in rules : ask \in Quality!Asks(rule)
    <3>1. PICK rule \in rules : ask \in Quality!Asks(rule)
      BY <2>2
    <3>2. CountsFor(rule, confirmed)
      BY <1>2, <3>1 DEF Quality!Asks, CountsFor
    <3>3. \/ rule.type = "unique" /\ ask.columns = <<rule.column>>
          \/ rule.type = "business_key" /\ ask.columns = rule.parameters.columns
      BY <3>1 DEF Quality!Asks
    <3> QED
      BY <3>2, <3>3 DEF CountedKeys
  <2> QED
    BY <1>1, <2>1, <2>2 DEF AsksIn
<1>3. ASSUME NEW key \in keys
      PROVE  \E ask \in AsksIn(definition) : CountsFor(ask, confirmed) /\ ask.columns = key
  <2>1. CASE key = definition.business_key /\ key # << >>
    <3> DEFINE ask == [space |-> <<"business", "definition">>, columns |-> definition.business_key,
                       severity |-> "error", code |-> "business_key_duplicate"]
    <3>1. ask \in AsksIn(definition)
      BY <2>1 DEF AsksIn, Quality!AsksOfKey
    <3>2. CountsFor(ask, confirmed) /\ ask.columns = key
      BY <2>1 DEF CountsFor
    <3> QED
      BY <3>1, <3>2
  <2>2. CASE \E rule \in rules : /\ CountsFor(rule, confirmed) /\ rule.type = "unique"
                                 /\ key = <<rule.column>>
    <3>1. PICK rule \in rules : /\ CountsFor(rule, confirmed) /\ rule.type = "unique"
                                /\ key = <<rule.column>>
      BY <2>2
    <3> DEFINE ask == [space |-> <<"unique", rule.name>>, columns |-> <<rule.column>>,
                       severity |-> rule.severity, code |-> "unique"]
    <3>2. ask \in Quality!Asks(rule)
      BY <3>1 DEF Quality!Asks
    <3>3. CountsFor(ask, confirmed) /\ ask.columns = key
      BY <3>1 DEF CountsFor
    <3> HIDE DEF ask
    <3> QED
      BY <1>1, <3>2, <3>3 DEF AsksIn
  <2>3. CASE \E rule \in rules : /\ CountsFor(rule, confirmed) /\ rule.type = "business_key"
                                 /\ key = rule.parameters.columns
    <3>1. PICK rule \in rules : /\ CountsFor(rule, confirmed) /\ rule.type = "business_key"
                                /\ key = rule.parameters.columns
      BY <2>3
    <3> DEFINE ask == [space |-> <<"business:rule", rule.name>>,
                       columns |-> rule.parameters.columns,
                       severity |-> rule.severity, code |-> "business_key_duplicate"]
    <3>2. ask \in Quality!Asks(rule)
      BY <3>1 DEF Quality!Asks
    <3>3. CountsFor(ask, confirmed) /\ ask.columns = key
      BY <3>1 DEF CountsFor
    <3> HIDE DEF ask
    <3> QED
      BY <1>1, <3>2, <3>3 DEF AsksIn
  <2> QED
    BY <2>1, <2>2, <2>3 DEF CountedKeys
<1> QED
  BY <1>2, <1>3

(* Two rows have the same tuple of values exactly when they agree in each  *)
(* column of the key.                                                      *)
LEMMA TuplesAgree ==
  ASSUME NEW columns, NEW values, NEW others
  PROVE  /\ Quality!KeyOf(columns, values) = Quality!KeyOf(columns, others)
              <=> \A c \in Elements(columns) : values[c] = others[c]
         /\ Quality!NoValue \notin Quality!Range(Quality!KeyOf(columns, values))
              <=> \A c \in Elements(columns) : values[c] # Quality!NoValue
<1> DEFINE key == Quality!KeyOf(columns, values)
           other == Quality!KeyOf(columns, others)
<1>1. /\ DOMAIN key = DOMAIN columns /\ \A i \in DOMAIN columns : key[i] = values[columns[i]]
      /\ DOMAIN other = DOMAIN columns /\ \A i \in DOMAIN columns : other[i] = others[columns[i]]
  BY DEF Quality!KeyOf
<1>2. (\A i \in DOMAIN columns : values[columns[i]] = others[columns[i]]) => key = other
  BY DEF Quality!KeyOf
<1> HIDE DEF key, other
<1>3. key = other <=> \A c \in Elements(columns) : values[c] = others[c]
  BY <1>1, <1>2 DEF Elements
<1>4. Quality!NoValue \notin Quality!Range(key)
        <=> \A c \in Elements(columns) : values[c] # Quality!NoValue
  BY <1>1 DEF Elements, Quality!Range
<1> QED
  BY <1>3, <1>4 DEF key, other

(* No key that counts was seen before exactly when no row before has it.   *)
LEMMA KeysAreNew ==
  ASSUME NEW definition, Quality!DefinitionIsAccepted(definition), NEW confirmed \in BOOLEAN,
         NEW rows, NEW i \in Nat
  PROVE  (\A ask \in Quality!AskedKeys(definition, ValuesIn(definition, rows[i])) :
            CountsFor(ask, confirmed) =>
              Quality!Tracked(ask, ValuesIn(definition, rows[i])) \notin KeysBefore(definition, rows, i))
           <=> \A key \in CountedKeys(definition, confirmed), j \in 1..(i - 1) :
                 ~ HaveSameKey(key, ValuesIn(definition, rows[i]), ValuesIn(definition, rows[j]))
<1> DEFINE Held(j) == ValuesIn(definition, rows[j])
           Tuple(columns, j) == Quality!KeyOf(columns, Held(j))
           IsWhole(columns, j) == Quality!NoValue \notin Quality!Range(Tuple(columns, j))
           asks == AsksIn(definition)
<1>1. \A j : Quality!AskedKeys(definition, Held(j)) = {ask \in asks : IsWhole(ask.columns, j)}
  BY DEF Quality!AskedKeys, AsksIn
<1>2. \A ask, j : Quality!Tracked(ask, Held(j)) = <<ask.space, Tuple(ask.columns, j)>>
  BY DEF Quality!Tracked
<1>3. \A columns, j : HaveSameKey(columns, Held(i), Held(j))
                        <=> IsWhole(columns, i) /\ Tuple(columns, i) = Tuple(columns, j)
  BY TuplesAgree DEF HaveSameKey
<1>4. \A columns, j : IsWhole(columns, i) /\ Tuple(columns, i) = Tuple(columns, j) =>
                        IsWhole(columns, j)
  BY Zenon
<1>5. KeysBefore(definition, rows, i)
        = UNION {{<<ask.space, Tuple(ask.columns, j)>> :
                    ask \in {a \in asks : IsWhole(a.columns, j)}} : j \in 1..(i - 1)}
  <2>1. ASSUME NEW j
        PROVE  KeysOf(definition, rows[j])
                 = {<<ask.space, Tuple(ask.columns, j)>> :
                      ask \in {a \in asks : IsWhole(a.columns, j)}}
    BY <1>1, <1>2 DEF KeysOf
  <2> HIDE DEF Tuple, IsWhole, asks
  <2> QED
    BY <2>1 DEF KeysBefore
<1> HIDE DEF Tuple, IsWhole, asks
<1>6. ASSUME NEW ask \in asks, IsWhole(ask.columns, i)
      PROVE  <<ask.space, Tuple(ask.columns, i)>> \in KeysBefore(definition, rows, i)
               <=> \E j \in 1..(i - 1) : Tuple(ask.columns, i) = Tuple(ask.columns, j)
  <2>1. ASSUME <<ask.space, Tuple(ask.columns, i)>> \in KeysBefore(definition, rows, i)
        PROVE  \E j \in 1..(i - 1) : Tuple(ask.columns, i) = Tuple(ask.columns, j)
    <3>1. PICK j \in 1..(i - 1), other \in asks :
            <<ask.space, Tuple(ask.columns, i)>> = <<other.space, Tuple(other.columns, j)>>
      BY <1>5, <2>1
    <3>2. ask.columns = other.columns
      BY <3>1, SpacesAreTheirOwn DEF asks
    <3> QED
      BY <3>1, <3>2
  <2>2. ASSUME NEW j \in 1..(i - 1), Tuple(ask.columns, i) = Tuple(ask.columns, j)
        PROVE  <<ask.space, Tuple(ask.columns, i)>> \in KeysBefore(definition, rows, i)
    <3>1. IsWhole(ask.columns, j)
      BY <1>4, <1>6, <2>2
    <3> QED
      BY <1>5, <2>2, <3>1
  <2> QED
    BY <2>1, <2>2
<1>7. {ask.columns : ask \in {a \in asks : CountsFor(a, confirmed)}}
        = CountedKeys(definition, confirmed)
  BY AskedColumns DEF asks
<1> HIDE DEF Held
<1>8. (\A ask \in Quality!AskedKeys(definition, Held(i)) :
         CountsFor(ask, confirmed) =>
           Quality!Tracked(ask, Held(i)) \notin KeysBefore(definition, rows, i))
        <=> \A ask \in asks, j \in 1..(i - 1) :
              CountsFor(ask, confirmed) =>
                ~ (IsWhole(ask.columns, i) /\ Tuple(ask.columns, i) = Tuple(ask.columns, j))
  <2>1. Quality!AskedKeys(definition, Held(i)) = {ask \in asks : IsWhole(ask.columns, i)}
    BY <1>1
  <2>2. \A ask : Quality!Tracked(ask, Held(i)) = <<ask.space, Tuple(ask.columns, i)>>
    BY <1>2
  <2>3. \A ask \in asks :
          IsWhole(ask.columns, i) =>
            (Quality!Tracked(ask, Held(i)) \in KeysBefore(definition, rows, i)
               <=> \E j \in 1..(i - 1) : Tuple(ask.columns, i) = Tuple(ask.columns, j))
    BY <1>6, <2>2
  <2> QED
    BY <2>1, <2>3
<1>9. (\A ask \in asks, j \in 1..(i - 1) :
         CountsFor(ask, confirmed) =>
           ~ (IsWhole(ask.columns, i) /\ Tuple(ask.columns, i) = Tuple(ask.columns, j)))
        <=> \A key \in CountedKeys(definition, confirmed), j \in 1..(i - 1) :
              ~ HaveSameKey(key, Held(i), Held(j))
  BY <1>3, <1>7
<1> QED
  BY <1>8, <1>9 DEF Held

(* QualityEvaluator.evaluate: a row of an evaluated file is accepted       *)
(* exactly when every column is filled with a value of its type, or empty  *)
(* and nullable, no rule that counts is broken, and no row before it,      *)
(* accepted or not, has one of its keys that count.                        *)
THEOREM AcceptedRowsAreValid == Spec => []KeptRowsAreValid
<1>1. QInv => KeptRowsAreValid
  <2> SUFFICES ASSUME QInv, Answered("file"), answer[1] = "evaluated"
               PROVE  KeptRowsAreValid
    BY DEF KeptRowsAreValid
  <2> DEFINE definition == Templates[question.template]
             confirmed == question.confirmed
             rows == question.rows
             Held(i) == answer[2][i].values
             Cells(i) == Quality!Cells(definition, rows[i])
             counted == {rule \in Elements(definition.quality_rules) :
                           rule.severity = "error" \/ ~ question.confirmed}
             keys == ({definition.business_key} \ {<< >>})
                     \cup {<<rule.column>> : rule \in {r \in counted : r.type = "unique"}}
                     \cup {rule.parameters.columns :
                             rule \in {r \in counted : r.type = "business_key"}}
  <2>1. /\ question.template \in DOMAIN Templates /\ rows \in Files[question.template]
        /\ confirmed \in BOOLEAN /\ answer = AnswerFile(question)
    BY QuestionsAsk DEF QInv, Answered, IsAbout, AnswerOf
  <2>2. Quality!IsTemplate(definition) /\ Quality!IsFile(rows)
    BY <2>1, FilesAssumption
  <2>3. /\ Quality!DefinitionIsAccepted(definition)
        /\ answer[2] = Quality!EvaluatedFile(definition, confirmed, rows)
    BY <2>1 DEF AnswerFile
  <2>4. \A i \in DOMAIN rows : i \in 1..Len(rows) /\ i \in Nat
    BY <2>2 DEF Quality!IsFile
  <2> HIDE DEF definition, confirmed, rows
  <2>5. answer[2] = [n \in 1..Len(rows) |->
                       Quality!EvaluatedRow(definition, confirmed,
                                            KeysBefore(definition, rows, n), rows[n])]
    BY <2>2, <2>3, FileIsEvaluated
  <2>6. counted = {rule \in Elements(definition.quality_rules) : CountsFor(rule, confirmed)}
        /\ keys = CountedKeys(definition, confirmed)
    BY DEF CountedKeys, CountsFor, confirmed
  <2>7. ASSUME NEW i \in DOMAIN rows
        PROVE  /\ Held(i) = ValuesIn(definition, rows[i])
               /\ answer[2][i].accepted
                    <=> /\ \A column \in Elements(definition.columns) :
                             IsFilledWith(Cells(i)[column.target], Held(i)[column.target], column)
                        /\ \A rule \in counted : ~ IsBrokenBy(rule, Cells(i), Held(i))
                        /\ \A key \in keys, j \in 1..(i - 1) : ~ HaveSameKey(key, Held(i), Held(j))
    <3> DEFINE seen == KeysBefore(definition, rows, i)
               row == rows[i]
               one == Quality!EvaluatedRow(definition, confirmed, seen, row)
               cells == Quality!Cells(definition, row)
               values == ValuesIn(definition, row)
    <3>1. answer[2][i] = one
      BY <2>4, <2>5
    <3>2. \A j \in 1..i : Held(j) = ValuesIn(definition, rows[j])
      <4>1. ASSUME NEW j \in 1..i
            PROVE  Held(j) = ValuesIn(definition, rows[j])
        <5>1. j \in 1..Len(rows)
          BY <2>2, <2>4 DEF Quality!IsFile
        <5>2. answer[2][j] = Quality!EvaluatedRow(definition, confirmed,
                                                  KeysBefore(definition, rows, j), rows[j])
          BY <2>5, <5>1
        <5> QED
          BY <5>2, RowIsEvaluated
      <4> QED
        BY <4>1
    <3>3. i \in 1..i /\ \A j \in 1..(i - 1) : j \in 1..i
      BY <2>4
    <3>4. one.accepted <=> IsAcceptable(definition, confirmed, seen, cells, values)
      <4> HIDE DEF cells, values, seen, row, counted, keys
      <4>1. cells = Quality!Cells(definition, row) /\ values = ValuesIn(definition, row)
        BY DEF cells, values
      <4> QED
        BY <2>1, <2>2, <2>3, <4>1, RowIsAccepted DEF confirmed
    <3>5. (\A ask \in Quality!AskedKeys(definition, values) :
             CountsFor(ask, confirmed) => Quality!Tracked(ask, values) \notin seen)
            <=> \A key \in CountedKeys(definition, confirmed), j \in 1..(i - 1) :
                  ~ HaveSameKey(key, values, ValuesIn(definition, rows[j]))
      BY <2>1, <2>3, <2>4, KeysAreNew DEF confirmed
    <3> HIDE DEF one, cells, values, seen, counted, keys
    <3>6. \A key \in keys, j \in 1..(i - 1) :
            HaveSameKey(key, values, ValuesIn(definition, rows[j]))
              <=> HaveSameKey(key, Held(i), Held(j))
      BY <3>2, <3>3 DEF values
    <3> QED
      BY <2>6, <3>1, <3>2, <3>3, <3>4, <3>5, <3>6 DEF cells, values, IsAcceptable
  <2> QED
    BY <2>3, <2>7
    DEF KeptRowsAreValid, IsFilledWith, IsBrokenBy, HaveSameKey, definition, rows, confirmed
<1> QED
  BY <1>1, AnswersAreOfQuestions, PTL

-----------------------------------------------------------------------------
(* The columns of a chart.                                                 *)

(* The measures of one kind, with the alias each has by its number.        *)
NumberedMeasure(spec, i) == <<spec.measures[i], Alias("value", i)>>
OfKind(spec, kind, n) == {i \in 1..n : spec.measures[i].kind = kind}

LEMMA ElementsOfAppend ==
  ASSUME NEW S, NEW s \in Seq(S), NEW e \in S
  PROVE  /\ Append(s, e) \in Seq(S) /\ Len(Append(s, e)) = Len(s) + 1
         /\ Elements(Append(s, e)) = Elements(s) \cup {e}
<1>1. /\ Append(s, e) \in Seq(S) /\ Len(Append(s, e)) = Len(s) + 1
      /\ DOMAIN Append(s, e) = 1..(Len(s) + 1) /\ DOMAIN s = 1..Len(s) /\ Len(s) \in Nat
      /\ \A i \in 1..Len(s) : Append(s, e)[i] = s[i]
      /\ Append(s, e)[Len(s) + 1] = e
  OBVIOUS
<1>2. 1..(Len(s) + 1) = 1..Len(s) \cup {Len(s) + 1}
  BY <1>1
<1> QED
  BY <1>1, <1>2 DEF Elements

IsSequence(s) == s \in Seq(Elements(s))

(* A function on 1..n is a sequence of its values.                         *)
LEMMA FunctionIsSequence ==
  ASSUME NEW n \in Nat, NEW S, NEW f \in [1..n -> S]
  PROVE  IsSequence(f) /\ Len(f) = n
<1>1. f \in [1..n -> Elements(f)]
  BY DEF Elements
<1> QED
  BY <1>1, LenOfFunction DEF IsSequence

(* The elements at the positions chosen, up to the n-th.                   *)
IsChosen(sequence, positions, chosen, n) ==
  /\ chosen \in Seq(Elements(sequence))
  /\ Elements(chosen) = {sequence[i] : i \in positions \cap (1..n)}
  /\ Len(chosen) = Cardinality(positions \cap (1..n))
Choose(sequence, positions, chosen, n) ==
  IF n \in positions THEN Append(chosen, sequence[n]) ELSE chosen
Choosing(sequence, positions) ==
  CHOOSE chosen : chosen = [n \in 0..Len(sequence) |->
    IF n = 0 THEN << >> ELSE Choose(sequence, positions, chosen[n - 1], n)]

(* The next element is appended if its position is chosen.                 *)
LEMMA OneIsChosen ==
  ASSUME NEW sequence, NEW positions, NEW n \in Nat, NEW k, k = n + 1,
         sequence[k] \in Elements(sequence),
         NEW chosen, IsChosen(sequence, positions, chosen, n)
  PROVE  IsChosen(sequence, positions, Choose(sequence, positions, chosen, k), k)
<1> DEFINE old == positions \cap (1..n)
<1>1. k \notin 1..n /\ 1..k = 1..n \cup {k}
  OBVIOUS
<1>2. IsFiniteSet(old)
  <2>1. old \in SUBSET (1..n)
    OBVIOUS
  <2> HIDE DEF old
  <2> QED
    BY <2>1, UpTo, FS_Subset
<1>3. CASE k \in positions
  <2>1. positions \cap (1..k) = old \cup {k} /\ k \notin old
    BY <1>1, <1>3
  <2>2. Cardinality(positions \cap (1..k)) = Cardinality(old) + 1
    BY <1>2, <2>1, FS_AddElement
  <2>3. Choose(sequence, positions, chosen, k) = Append(chosen, sequence[k])
    BY <1>3 DEF Choose
  <2> DEFINE both == Append(chosen, sequence[k])
  <2>4. /\ both \in Seq(Elements(sequence)) /\ Len(both) = Len(chosen) + 1
        /\ Elements(both) = Elements(chosen) \cup {sequence[k]}
    BY ElementsOfAppend DEF IsChosen
  <2> HIDE DEF both
  <2>5. Elements(both) = {sequence[i] : i \in positions \cap (1..k)}
    BY <2>1, <2>4 DEF IsChosen
  <2>6. IsChosen(sequence, positions, both, k)
    BY <2>2, <2>4, <2>5 DEF IsChosen
  <2> QED
    BY <2>3, <2>6 DEF both
<1>4. CASE k \notin positions
  <2>1. positions \cap (1..k) = old
    BY <1>1, <1>4
  <2>2. Choose(sequence, positions, chosen, k) = chosen
    BY <1>4 DEF Choose
  <2> QED
    BY <2>1, <2>2 DEF IsChosen
<1> QED
  BY <1>3, <1>4

(* What is chosen is a sequence of the elements at the positions.          *)
LEMMA ChosenAre ==
  ASSUME NEW sequence, IsSequence(sequence), NEW positions
  PROVE  IsChosen(sequence, positions, Chosen(sequence, positions), Len(sequence))
<1> DEFINE last == Len(sequence)
           S == Seq(Elements(sequence))
           start == << >>
           Next1(n, chosen) == Choose(sequence, positions, chosen, n)
           step == [n \in 1..last |-> [chosen \in S |-> Next1(n, chosen)]]
           choosing == Choosing(sequence, positions)
<1>1. last \in Nat /\ \A n \in 1..last : sequence[n] \in Elements(sequence)
  BY DEF IsSequence, Elements
<1>2. start \in S
  OBVIOUS
<1> HIDE DEF last
<1>3. ASSUME NEW n \in 1..last, NEW chosen \in S
      PROVE  Next1(n, chosen) \in S
  <2>1. Append(chosen, sequence[n]) \in S
    BY <1>1
  <2> QED
    BY <2>1 DEF Choose
<1> HIDE DEF S, Next1, start
<1>4. HasSteps(S, start, last, step)
  BY <1>1, <1>2, <1>3, StepsUpTo
<1>5. PICK g \in [0..last -> S] : g = [n \in 0..last |-> IF n = 0 THEN start ELSE step[n][g[n - 1]]]
  BY <1>4 DEF HasSteps
<1>6. g = [n \in 0..last |-> IF n = 0 THEN start ELSE Next1(n, g[n - 1])]
  <2>1. ASSUME NEW n \in 0..last, n # 0
        PROVE  step[n][g[n - 1]] = Next1(n, g[n - 1])
    <3>1. n \in 1..last /\ g[n - 1] \in S
      BY <1>1, <2>1
    <3> QED
      BY <3>1
  <2> QED
    BY <1>5, <2>1
<1>7. choosing = [n \in 0..last |-> IF n = 0 THEN start ELSE Next1(n, choosing[n - 1])]
  BY <1>6 DEF Choosing, last, Next1, start
<1> HIDE DEF choosing
<1> DEFINE T == {n \in Nat : n <= last => IsChosen(sequence, positions, choosing[n], n)}
<1>8. 0 \in T
  <2>1. choosing[0] = << >>
    BY <1>1, <1>7 DEF start
  <2>2. positions \cap (1..0) = {} /\ Elements(<< >>) = {} /\ Cardinality({}) = 0
    BY FS_EmptySet DEF Elements
  <2>3. IsChosen(sequence, positions, << >>, 0)
    BY <2>2 DEF IsChosen
  <2> QED
    BY <2>1, <2>3
<1>9. ASSUME NEW n \in T \cap Nat, n < last
      PROVE  n + 1 \in T
  <2> DEFINE k == n + 1
  <2>1. /\ n \in Nat /\ k \in 1..last /\ k \in 0..last /\ k # 0 /\ k - 1 = n /\ k = n + 1
        /\ IsChosen(sequence, positions, choosing[n], n)
    BY <1>1, <1>9
  <2> HIDE DEF k
  <2>2. choosing[k] = Choose(sequence, positions, choosing[n], k)
    BY <1>7, <2>1 DEF Next1
  <2>3. IsChosen(sequence, positions, Choose(sequence, positions, choosing[n], k), k)
    BY <1>1, <2>1, OneIsChosen
  <2> QED
    BY <2>1, <2>2, <2>3 DEF k
<1> HIDE DEF T
<1>10. last \in T
  BY <1>1, <1>8, <1>9, Reaches
<1>11. IsChosen(sequence, positions, choosing[last], last)
  BY <1>1, <1>10 DEF T
<1>12. Chosen(sequence, positions) = choosing[last]
  BY DEF Chosen, Choosing, Choose, choosing, last
<1> QED
  BY <1>11, <1>12 DEF last

LEMMA ChosenIsSequence ==
  ASSUME NEW sequence, IsSequence(sequence), NEW positions
  PROVE  IsSequence(Chosen(sequence, positions))
<1> DEFINE chosen == Chosen(sequence, positions)
           S == Elements(sequence)
<1>1. chosen \in Seq(S)
  BY ChosenAre DEF IsChosen
<1> HIDE DEF chosen, S
<1>2. Len(chosen) \in Nat /\ chosen \in [1..Len(chosen) -> S]
  BY <1>1
<1> QED
  BY <1>2, FunctionIsSequence DEF chosen

(* The measures of one kind are those, each once.                          *)
Numbered(spec) == [i \in DOMAIN spec.measures |-> NumberedMeasure(spec, i)]
AreMeasures(spec, kind, taken) ==
  LET ofKind == OfKind(spec, kind, Len(spec.measures))
  IN /\ taken \in Seq(Elements(Numbered(spec)))
     /\ Elements(taken) = {NumberedMeasure(spec, i) : i \in ofKind}
     /\ Len(taken) = Cardinality(ofKind)

LEMMA MeasuresAre ==
  ASSUME NEW spec, IsSpec(spec), NEW kind
  PROVE  AreMeasures(spec, kind, Measures(spec, kind))
<1> DEFINE n == Len(spec.measures)
           numbered == Numbered(spec)
           positions == {i \in DOMAIN spec.measures : spec.measures[i].kind = kind}
           taken == Measures(spec, kind)
<1>1. n \in Nat /\ DOMAIN spec.measures = 1..n
  BY DEF IsSpec
<1>2. taken = Chosen(numbered, positions)
  BY DEF Measures, Numbered, NumberedMeasure
<1>3. numbered \in [1..n -> Elements(numbered)]
  BY <1>1 DEF Numbered, Elements
<1>4. /\ positions \cap (1..n) = OfKind(spec, kind, n)
      /\ \A i \in OfKind(spec, kind, n) : numbered[i] = NumberedMeasure(spec, i)
  BY <1>1 DEF OfKind, Numbered
<1> HIDE DEF n, numbered, positions, taken
<1>5. IsSequence(numbered) /\ Len(numbered) = n
  BY <1>1, <1>3, FunctionIsSequence
<1>6. IsChosen(numbered, positions, taken, n)
  BY <1>2, <1>5, ChosenAre
<1>7. Elements(taken) = {NumberedMeasure(spec, i) : i \in OfKind(spec, kind, n)}
  BY <1>4, <1>6 DEF IsChosen
<1> QED
  BY <1>4, <1>6, <1>7 DEF IsChosen, AreMeasures, n, numbered, taken

(* What CompiledRequest selects, and the columns of the answer, in parts.  *)
OfDimensions(spec) ==
  [i \in DOMAIN spec.dimensions |->
     Selection(spec.dimensions[i].field, Alias("dimension", i), None, spec.dimensions[i].grain)]
OfSeries(spec) ==
  [i \in DOMAIN SeriesOf(spec) |->
     Selection(SeriesOf(spec)[i].field, Alias("series", 1), None, None)]
OfFieldMeasures(spec) ==
  [i \in DOMAIN Measures(spec, "field") |->
     Selection(Measures(spec, "field")[i][1].id, Measures(spec, "field")[i][2],
               Measures(spec, "field")[i][1].aggregate, None)]
OfMetrics(spec) ==
  [i \in DOMAIN Measures(spec, "metric") |->
     MetricSelection(Measures(spec, "metric")[i][1].id, Measures(spec, "metric")[i][2])]

DimensionColumns(spec) ==
  [i \in DOMAIN spec.dimensions |->
     ChartColumn(spec.dimensions[i].slot, Alias("dimension", i), "field",
                 spec.dimensions[i].field, None)]
SeriesColumns(spec) ==
  [i \in DOMAIN SeriesOf(spec) |->
     ChartColumn(SeriesOf(spec)[i].slot, Alias("series", 1), "field", SeriesOf(spec)[i].field, None)]
MeasureColumns(spec) ==
  [i \in DOMAIN spec.measures |->
     ChartColumn(spec.measures[i].slot, Alias("value", i), spec.measures[i].kind,
                 spec.measures[i].id, spec.measures[i].aggregate)]

LEMMA RequestIs ==
  ASSUME NEW type, NEW spec
  PROVE  /\ CompiledRequest(type, spec).selections
              = OfDimensions(spec) \o OfSeries(spec) \o OfFieldMeasures(spec)
         /\ CompiledRequest(type, spec).metrics = OfMetrics(spec)
         /\ CompiledRequest(type, spec).group
              = IF spec.measures = << >> THEN << >> ELSE Map(Drawn(spec), LAMBDA d : d.field)
         /\ CompiledRequest(type, spec).filter = None
         /\ ChartColumns(spec)
              = DimensionColumns(spec) \o SeriesColumns(spec) \o MeasureColumns(spec)
<1>1. /\ OfSeries(spec) = Map(SeriesOf(spec), LAMBDA s : Selection(s.field, Alias("series", 1), None, None))
      /\ OfFieldMeasures(spec)
           = Map(Measures(spec, "field"),
                 LAMBDA pair : Selection(pair[1].id, pair[2], pair[1].aggregate, None))
      /\ OfMetrics(spec)
           = Map(Measures(spec, "metric"), LAMBDA pair : MetricSelection(pair[1].id, pair[2]))
      /\ SeriesColumns(spec)
           = Map(SeriesOf(spec), LAMBDA s : ChartColumn(s.slot, Alias("series", 1), "field", s.field, None))
  BY DEF OfSeries, OfFieldMeasures, OfMetrics, SeriesColumns, Map
<1>2. OfDimensions(spec)
        = [i \in DOMAIN spec.dimensions |->
             Selection(spec.dimensions[i].field, Alias("dimension", i), None, spec.dimensions[i].grain)]
  BY DEF OfDimensions
<1>3. CompiledRequest(type, spec)
        = [selections |-> OfDimensions(spec) \o OfSeries(spec) \o OfFieldMeasures(spec),
           metrics |-> OfMetrics(spec),
           filter |-> None,
           group |-> IF spec.measures = << >> THEN << >> ELSE Map(Drawn(spec), LAMBDA d : d.field),
           order |-> StableSorts(type, spec, FirstSorts(type, spec)),
           limit |-> IF type \in SingleValue THEN 1 ELSE IF spec.top > 0 THEN spec.top ELSE spec.limit]
  BY <1>1, <1>2, Zenon DEF CompiledRequest
<1>4. ChartColumns(spec) = DimensionColumns(spec) \o SeriesColumns(spec) \o MeasureColumns(spec)
  BY <1>1 DEF ChartColumns, DimensionColumns, MeasureColumns
<1> QED
  BY <1>3, <1>4

(* The lengths of the lists that make up a specification.                  *)
LEMMA SpecLengths ==
  ASSUME NEW spec, IsSpec(spec)
  PROVE  /\ Len(spec.dimensions) \in Nat /\ DOMAIN spec.dimensions = 1..Len(spec.dimensions)
         /\ Len(spec.measures) \in Nat /\ DOMAIN spec.measures = 1..Len(spec.measures)
         /\ Len(SeriesOf(spec)) \in {0, 1} /\ DOMAIN SeriesOf(spec) = 1..Len(SeriesOf(spec))
         /\ SeriesOf(spec) \in Seq({spec.series})
         /\ \A kind : /\ Len(Measures(spec, kind)) \in Nat
                      /\ DOMAIN Measures(spec, kind) = 1..Len(Measures(spec, kind))
         /\ Len(Measures(spec, "field")) + Len(Measures(spec, "metric")) = Len(spec.measures)
<1>1. /\ Len(spec.dimensions) \in Nat /\ DOMAIN spec.dimensions = 1..Len(spec.dimensions)
      /\ Len(spec.measures) \in Nat /\ DOMAIN spec.measures = 1..Len(spec.measures)
  BY DEF IsSpec
<1>2. /\ Len(SeriesOf(spec)) \in {0, 1} /\ DOMAIN SeriesOf(spec) = 1..Len(SeriesOf(spec))
      /\ SeriesOf(spec) \in Seq({spec.series})
  <2>1. CASE spec.series = None
    <3>1. SeriesOf(spec) = << >>
      BY <2>1 DEF SeriesOf
    <3> QED
      BY <3>1
  <2>2. CASE spec.series # None
    <3>1. SeriesOf(spec) = <<spec.series>>
      BY <2>2 DEF SeriesOf
    <3> QED
      BY <3>1
  <2> QED
    BY <2>1, <2>2
<1>3. ASSUME NEW kind
      PROVE  /\ Measures(spec, kind) \in Seq(Elements(Numbered(spec)))
             /\ Len(Measures(spec, kind)) = Cardinality(OfKind(spec, kind, Len(spec.measures)))
  BY MeasuresAre DEF AreMeasures
<1>4. \A kind : /\ Len(Measures(spec, kind)) \in Nat
                /\ DOMAIN Measures(spec, kind) = 1..Len(Measures(spec, kind))
  BY <1>3
<1> DEFINE n == Len(spec.measures)
           ofFields == OfKind(spec, "field", n)
           ofMetrics == OfKind(spec, "metric", n)
<1>5. ofFields \cup ofMetrics = 1..n /\ ofFields \cap ofMetrics = {}
  <2>1. \A i \in 1..n : spec.measures[i].kind \in {"field", "metric"}
    BY <1>1 DEF IsSpec, Elements
  <2> QED
    BY <2>1 DEF OfKind
<1>6. IsFiniteSet(1..n) /\ Cardinality(1..n) = n
  BY <1>1, UpTo
<1>7. ofFields \in SUBSET (1..n) /\ ofMetrics \in SUBSET (1..n)
  BY DEF OfKind
<1> HIDE DEF n, ofFields, ofMetrics
<1>8. IsFiniteSet(ofFields) /\ IsFiniteSet(ofMetrics)
  BY <1>6, <1>7, FS_Subset
<1>9. Cardinality(ofFields \cup ofMetrics) =
        Cardinality(ofFields) + Cardinality(ofMetrics) - Cardinality(ofFields \cap ofMetrics)
  BY <1>8, FS_Union
<1>10. Cardinality(ofFields) \in Nat /\ Cardinality(ofMetrics) \in Nat /\ Cardinality({}) = 0
  BY <1>8, FS_CardinalityType, FS_EmptySet
<1>11. Cardinality(ofFields) + Cardinality(ofMetrics) = n
  <2>1. Cardinality(ofFields \cup ofMetrics) = n /\ Cardinality(ofFields \cap ofMetrics) = 0
    BY <1>5, <1>6, <1>10
  <2> QED
    BY <1>9, <1>10, <2>1
<1> QED
  BY <1>1, <1>2, <1>3, <1>4, <1>11 DEF n, ofFields, ofMetrics

IsConcatenation(s, t, both) ==
  /\ IsSequence(both) /\ Len(both) = Len(s) + Len(t)
  /\ Elements(both) = Elements(s) \cup Elements(t)
  /\ \A i \in 1..Len(s) : both[i] = s[i]
  /\ \A i \in 1..Len(t) : both[Len(s) + i] = t[i]

LEMMA Concatenated ==
  ASSUME NEW s, IsSequence(s), NEW t, IsSequence(t)
  PROVE  IsConcatenation(s, t, s \o t)
<1> DEFINE S == Elements(s)
           T == Elements(t)
<1>0. s \in Seq(S) /\ t \in Seq(T)
  BY DEF IsSequence
<1> HIDE DEF S, T
<1>1. /\ s \in Seq(S \cup T) /\ t \in Seq(S \cup T)
      /\ Len(s) \in Nat /\ Len(t) \in Nat /\ DOMAIN s = 1..Len(s) /\ DOMAIN t = 1..Len(t)
  BY <1>0
<1>2. s \o t \in Seq(S \cup T)
  BY <1>1
<1>3. /\ Len(s \o t) = Len(s) + Len(t) /\ DOMAIN (s \o t) = 1..(Len(s) + Len(t))
      /\ \A i \in 1..(Len(s) + Len(t)) :
           (s \o t)[i] = IF i <= Len(s) THEN s[i] ELSE t[i - Len(s)]
  BY <1>1
<1>4. \A i \in 1..Len(s) : i \in 1..(Len(s) + Len(t)) /\ (s \o t)[i] = s[i]
  BY <1>1, <1>3
<1>5. ASSUME NEW i \in 1..Len(t)
      PROVE  Len(s) + i \in 1..(Len(s) + Len(t)) /\ (s \o t)[Len(s) + i] = t[i]
  <2>1. Len(s) + i \in 1..(Len(s) + Len(t)) /\ ~ (Len(s) + i <= Len(s)) /\ (Len(s) + i) - Len(s) = i
    BY <1>1
  <2> QED
    BY <1>3, <2>1
<1>6. \A i \in 1..(Len(s) + Len(t)) : i \in 1..Len(s) \/ i - Len(s) \in 1..Len(t)
  BY <1>1
<1>7. Elements(s \o t) = Elements(s) \cup Elements(t)
  <2>1. ASSUME NEW i \in 1..(Len(s) + Len(t))
        PROVE  (s \o t)[i] \in Elements(s) \cup Elements(t)
    <3>1. CASE i \in 1..Len(s)
      BY <1>1, <1>4, <3>1 DEF Elements
    <3>2. CASE i \notin 1..Len(s)
      <4>1. i - Len(s) \in 1..Len(t) /\ ~ (i <= Len(s))
        BY <1>1, <1>6, <3>2
      <4>2. (s \o t)[i] = t[i - Len(s)]
        BY <1>3, <4>1
      <4> QED
        BY <1>1, <4>1, <4>2 DEF Elements
    <3> QED
      BY <3>1, <3>2
  <2>2. \A i \in 1..Len(s) : s[i] \in Elements(s \o t)
    BY <1>3, <1>4 DEF Elements
  <2>3. \A i \in 1..Len(t) : t[i] \in Elements(s \o t)
    BY <1>3, <1>5 DEF Elements
  <2>4. Elements(s \o t) \subseteq Elements(s) \cup Elements(t)
    <3>1. \A e \in Elements(s \o t) : \E i \in 1..(Len(s) + Len(t)) : e = (s \o t)[i]
      BY <1>3 DEF Elements
    <3> QED
      BY <2>1, <3>1
  <2>5. Elements(s) = {s[i] : i \in 1..Len(s)} /\ Elements(t) = {t[i] : i \in 1..Len(t)}
    BY <1>1 DEF Elements
  <2> QED
    BY <2>2, <2>3, <2>4, <2>5
<1> QED
  BY <1>2, <1>3, <1>4, <1>5, <1>7 DEF IsConcatenation, IsSequence, S, T

(* The parts of a request are sequences, and so is what they make up.      *)
LEMMA PartsAreSequences ==
  ASSUME NEW spec, IsSpec(spec)
  PROVE  /\ IsSequence(OfDimensions(spec))
         /\ Len(OfDimensions(spec)) = Len(spec.dimensions)
         /\ IsSequence(OfSeries(spec))
         /\ Len(OfSeries(spec)) = Len(SeriesOf(spec))
         /\ IsSequence(OfFieldMeasures(spec))
         /\ Len(OfFieldMeasures(spec)) = Len(Measures(spec, "field"))
         /\ IsSequence(OfMetrics(spec))
         /\ Len(OfMetrics(spec)) = Len(Measures(spec, "metric"))
<1>1. \A n \in Nat : \A S : \A f \in [1..n -> S] : IsSequence(f) /\ Len(f) = n
  BY FunctionIsSequence
<1>2. \A f : f = [i \in DOMAIN f |-> f[i]] => f \in [DOMAIN f -> Elements(f)]
  BY DEF Elements
<1>3. ASSUME NEW n \in Nat, NEW f, f = [i \in DOMAIN f |-> f[i]], DOMAIN f = 1..n
      PROVE  IsSequence(f) /\ Len(f) = n
  <2>1. f \in [1..n -> Elements(f)]
    BY <1>2, <1>3
  <2> QED
    BY <2>1, <1>1
<1>4. /\ OfDimensions(spec) = [i \in DOMAIN OfDimensions(spec) |-> OfDimensions(spec)[i]]
      /\ DOMAIN OfDimensions(spec) = 1..Len(spec.dimensions)
      /\ OfSeries(spec) = [i \in DOMAIN OfSeries(spec) |-> OfSeries(spec)[i]]
      /\ DOMAIN OfSeries(spec) = 1..Len(SeriesOf(spec))
      /\ OfFieldMeasures(spec) = [i \in DOMAIN OfFieldMeasures(spec) |-> OfFieldMeasures(spec)[i]]
      /\ DOMAIN OfFieldMeasures(spec) = 1..Len(Measures(spec, "field"))
      /\ OfMetrics(spec) = [i \in DOMAIN OfMetrics(spec) |-> OfMetrics(spec)[i]]
      /\ DOMAIN OfMetrics(spec) = 1..Len(Measures(spec, "metric"))
  BY SpecLengths DEF OfDimensions, OfSeries, OfFieldMeasures, OfMetrics
<1>5. /\ Len(spec.dimensions) \in Nat /\ Len(SeriesOf(spec)) \in Nat
      /\ Len(Measures(spec, "field")) \in Nat /\ Len(Measures(spec, "metric")) \in Nat
  BY SpecLengths
<1> QED
  BY <1>3, <1>4, <1>5

(* What a chart asks a query for.                                          *)
IsRequestOf(request, spec) ==
  /\ IsSequence(request.selections) /\ IsSequence(request.metrics)
  /\ Elements(request.selections)
       = Elements(OfDimensions(spec)) \cup Elements(OfSeries(spec))
         \cup Elements(OfFieldMeasures(spec))
  /\ Elements(request.metrics) = Elements(OfMetrics(spec))
  /\ Elements(request.selections \o request.metrics)
       = Elements(request.selections) \cup Elements(request.metrics)
  /\ Len(OutputNames(request))
       = Len(spec.dimensions) + Len(SeriesOf(spec)) + Len(spec.measures)
  /\ Len(request.metrics) = Len(Measures(spec, "metric"))
  /\ \A i \in DOMAIN spec.dimensions : request.selections[i] = OfDimensions(spec)[i]

LEMMA ChartAsks ==
  ASSUME NEW type, NEW spec, IsSpec(spec), NEW request, request = CompiledRequest(type, spec)
  PROVE  IsRequestOf(request, spec)
<1> DEFINE D == OfDimensions(spec)
           S == OfSeries(spec)
           F == OfFieldMeasures(spec)
           M == OfMetrics(spec)
           nd == Len(spec.dimensions)
           ns == Len(SeriesOf(spec))
           nf == Len(Measures(spec, "field"))
           nm == Len(Measures(spec, "metric"))
<1>1. request.selections = (D \o S) \o F /\ request.metrics = M
  BY RequestIs
<1>2. /\ IsSequence(D) /\ Len(D) = nd /\ IsSequence(S) /\ Len(S) = ns
      /\ IsSequence(F) /\ Len(F) = nf /\ IsSequence(M) /\ Len(M) = nm
  BY PartsAreSequences
<1>3. /\ nd \in Nat /\ ns \in Nat /\ nf \in Nat /\ nm \in Nat
      /\ nf + nm = Len(spec.measures) /\ DOMAIN spec.dimensions = 1..nd
  <2>1. nd \in Nat /\ ns \in Nat /\ nf \in Nat /\ nm \in Nat
    BY SpecLengths
  <2>2. nf + nm = Len(spec.measures) /\ DOMAIN spec.dimensions = 1..nd
    BY SpecLengths
  <2> QED
    BY <2>1, <2>2
<1> HIDE DEF D, S, F, M, nd, ns, nf, nm
<1> DEFINE DS == D \o S
           SS == DS \o F
<1>4. /\ IsSequence(DS) /\ Len(DS) = nd + ns
      /\ Elements(DS) = Elements(D) \cup Elements(S)
      /\ \A i \in 1..nd : DS[i] = D[i]
  <2>1. IsConcatenation(D, S, DS)
    BY <1>2, Concatenated
  <2> QED
    BY <1>2, <2>1 DEF IsConcatenation
<1>5. request.selections = SS
  BY <1>1
<1> HIDE DEF DS
<1>6. /\ IsSequence(SS) /\ Len(SS) = (nd + ns) + nf
      /\ Elements(SS) = Elements(DS) \cup Elements(F)
      /\ \A i \in 1..(nd + ns) : SS[i] = DS[i]
  <2>1. IsConcatenation(DS, F, SS)
    BY <1>2, <1>4, Concatenated
  <2> QED
    BY <1>2, <1>4, <2>1 DEF IsConcatenation
<1> HIDE DEF SS
<1>9. /\ IsSequence(SS \o M) /\ Len(SS \o M) = ((nd + ns) + nf) + nm
      /\ Elements(SS \o M) = Elements(SS) \cup Elements(M)
  <2>1. IsConcatenation(SS, M, SS \o M)
    BY <1>2, <1>6, Concatenated
  <2> QED
    BY <1>2, <1>6, <2>1 DEF IsConcatenation
<1>10. Len(OutputNames(request)) = Len(SS \o M)
  <2>1. SS \o M = request.selections \o request.metrics
    BY <1>1, <1>5
  <2> DEFINE T == request.selections \o request.metrics
             names == [i \in DOMAIN T |-> T[i].output]
  <2>2. OutputNames(request) = names
    BY DEF OutputNames, Map
  <2>3. T \in Seq(Elements(T)) /\ T = SS \o M
    BY <1>9, <2>1 DEF IsSequence
  <2> HIDE DEF T
  <2>4. DOMAIN names = 1..Len(T) /\ Len(T) \in Nat
    BY <2>3
  <2>5. names \in [1..Len(T) -> {T[i].output : i \in DOMAIN T}]
    BY <2>4
  <2> HIDE DEF names
  <2>6. Len(names) = Len(T)
    BY <2>4, <2>5, LenOfFunction
  <2> QED
    BY <2>2, <2>3, <2>6
<1>11. \A i \in 1..nd : SS[i] = D[i]
  <2>1. ASSUME NEW i \in 1..nd
        PROVE  SS[i] = D[i]
    <3>1. i \in 1..(nd + ns)
      BY <1>3
    <3> QED
      BY <1>4, <1>6, <3>1
  <2> QED
    BY <2>1
<1>12. Len(OutputNames(request)) = nd + ns + Len(spec.measures)
  <2>1. ((nd + ns) + nf) + nm = nd + ns + (nf + nm)
    BY <1>3
  <2> QED
    BY <1>3, <1>9, <1>10, <2>1, Zenon
<1>13. /\ Elements(request.selections) = Elements(D) \cup Elements(S) \cup Elements(F)
       /\ Elements(request.metrics) = Elements(M)
       /\ Elements(request.selections \o request.metrics)
            = Elements(request.selections) \cup Elements(request.metrics)
  BY <1>1, <1>4, <1>5, <1>6, <1>9
<1>14. IsSequence(request.selections) /\ IsSequence(request.metrics) /\ Len(request.metrics) = nm
  BY <1>1, <1>2, <1>5, <1>6
<1>15. \A i \in DOMAIN spec.dimensions : request.selections[i] = D[i]
  BY <1>3, <1>5, <1>11
<1> QED
  BY <1>12, <1>13, <1>14, <1>15 DEF IsRequestOf, D, S, F, M, nd, ns, nf, nm

(* What a column and a selected item have in common.                       *)
Names(column, item) ==
  IF column.kind = "metric" THEN "metric" \in DOMAIN item /\ item.metric = column.id
  ELSE /\ "field" \in DOMAIN item
       /\ item.field = column.id /\ item.aggregate = column.aggregate
HasOutput(column, items) == \E item \in items : item.output = column.alias /\ Names(column, item)

(* The column of a field that is selected has the selection as its output. *)
LEMMA FieldsHaveOutputs ==
  ASSUME NEW slot, NEW alias, NEW id, NEW grain, NEW items, NEW i \in DOMAIN items,
         items[i] = Selection(id, alias, None, grain)
  PROVE  HasOutput(ChartColumn(slot, alias, "field", id, None), Elements(items))
<1> DEFINE column == ChartColumn(slot, alias, "field", id, None)
<1>1. items[i] \in Elements(items)
  BY DEF Elements
<1>2. /\ items[i].output = column.alias /\ column.kind = "field" /\ "field" \in DOMAIN items[i]
      /\ items[i].field = column.id /\ items[i].aggregate = column.aggregate
  BY DEF Selection, ChartColumn
<1> QED
  BY <1>1, <1>2 DEF HasOutput, Names

LEMMA ColumnsHaveOutputs ==
  ASSUME NEW spec, IsSpec(spec)
  PROVE  /\ \A i \in DOMAIN spec.dimensions :
              HasOutput(DimensionColumns(spec)[i], Elements(OfDimensions(spec)))
         /\ \A i \in DOMAIN SeriesOf(spec) :
              HasOutput(SeriesColumns(spec)[i], Elements(OfSeries(spec)))
         /\ \A i \in DOMAIN spec.measures :
              HasOutput(MeasureColumns(spec)[i],
                        Elements(OfFieldMeasures(spec)) \cup Elements(OfMetrics(spec)))
<1>1. ASSUME NEW i \in DOMAIN spec.dimensions
      PROVE  HasOutput(DimensionColumns(spec)[i], Elements(OfDimensions(spec)))
  BY FieldsHaveOutputs DEF OfDimensions, DimensionColumns
<1>2. ASSUME NEW i \in DOMAIN SeriesOf(spec)
      PROVE  HasOutput(SeriesColumns(spec)[i], Elements(OfSeries(spec)))
  BY FieldsHaveOutputs DEF OfSeries, SeriesColumns
<1>3. ASSUME NEW i \in DOMAIN spec.measures
      PROVE  HasOutput(MeasureColumns(spec)[i],
                       Elements(OfFieldMeasures(spec)) \cup Elements(OfMetrics(spec)))
  <2> DEFINE kind == spec.measures[i].kind
             column == MeasureColumns(spec)[i]
             taken == Measures(spec, kind)
  <2>1. column = ChartColumn(spec.measures[i].slot, Alias("value", i), kind,
                             spec.measures[i].id, spec.measures[i].aggregate)
    BY DEF MeasureColumns
  <2>2. kind \in {"field", "metric"}
    BY DEF IsSpec, Elements
  <2>3. i \in OfKind(spec, kind, Len(spec.measures))
    BY SpecLengths DEF OfKind
  <2>4. PICK j \in DOMAIN taken : taken[j] = NumberedMeasure(spec, i)
    <3>1. NumberedMeasure(spec, i) \in Elements(taken)
      BY <2>3, MeasuresAre DEF AreMeasures
    <3> QED
      BY <3>1 DEF Elements
  <2>5. taken[j][1] = spec.measures[i] /\ taken[j][2] = Alias("value", i)
    BY <2>4 DEF NumberedMeasure
  <2>6. CASE kind = "field"
    <3> DEFINE item == OfFieldMeasures(spec)[j]
    <3>1. item \in Elements(OfFieldMeasures(spec))
      BY <2>4, <2>6 DEF OfFieldMeasures, Elements
    <3>2. item = Selection(spec.measures[i].id, Alias("value", i), spec.measures[i].aggregate, None)
      BY <2>4, <2>5, <2>6 DEF OfFieldMeasures
    <3> HIDE DEF item, column, kind, taken
    <3>3. /\ item.output = column.alias /\ column.kind = "field" /\ "field" \in DOMAIN item
          /\ item.field = column.id /\ item.aggregate = column.aggregate
      BY <2>1, <2>6, <3>2 DEF Selection, ChartColumn
    <3> QED
      BY <3>1, <3>3 DEF HasOutput, Names, column
  <2>7. CASE kind = "metric"
    <3> DEFINE item == OfMetrics(spec)[j]
    <3>1. item \in Elements(OfMetrics(spec))
      BY <2>4, <2>7 DEF OfMetrics, Elements
    <3>2. item = MetricSelection(spec.measures[i].id, Alias("value", i))
      BY <2>4, <2>5, <2>7 DEF OfMetrics
    <3> HIDE DEF item, column, kind, taken
    <3>3. /\ item.output = column.alias /\ column.kind = "metric" /\ "metric" \in DOMAIN item
          /\ item.metric = column.id
      BY <2>1, <2>7, <3>2 DEF MetricSelection, ChartColumn
    <3> QED
      BY <3>1, <3>3 DEF HasOutput, Names, column
  <2> QED
    BY <2>2, <2>6, <2>7
<1> QED
  BY <1>1, <1>2, <1>3

(* A sequence without duplicates has as many elements as positions.        *)
LEMMA UniqueCount ==
  ASSUME NEW s, IsSequence(s), \A i, j \in 1..Len(s) : s[i] = s[j] => i = j
  PROVE  Cardinality(Elements(s)) = Len(s)
<1> DEFINE n == Len(s)
           E == Elements(s)
<1>1. n \in Nat /\ DOMAIN s = 1..n /\ s \in [1..n -> E]
  BY DEF IsSequence
<1>2. \A e \in E : \E i \in 1..n : s[i] = e
  BY <1>1 DEF Elements
<1> HIDE DEF E
<1>3. s \in Injection(1..n, E)
  BY <1>1 DEF Injection, IsInjective
<1>4. s \in Surjection(1..n, E)
  BY <1>1, <1>2 DEF Surjection
<1> HIDE DEF n
<1>5. IsFiniteSet(1..n) /\ Cardinality(1..n) = n
  BY <1>1, UpTo
<1>6. Cardinality(E) = Cardinality(1..n)
  BY <1>3, <1>4, <1>5, FS_Surjection
<1> QED
  BY <1>5, <1>6 DEF n, E

(* The columns of a chart, each with an alias of its own.                  *)
LEMMA ColumnsAre ==
  ASSUME NEW spec, IsSpec(spec)
  PROVE  /\ Elements(ChartColumns(spec))
              = Elements(DimensionColumns(spec)) \cup Elements(SeriesColumns(spec))
                \cup Elements(MeasureColumns(spec))
         /\ Cardinality(Elements(ChartColumns(spec)))
              = Len(spec.dimensions) + Len(SeriesOf(spec)) + Len(spec.measures)
<1> DEFINE D == DimensionColumns(spec)
           S == SeriesColumns(spec)
           M == MeasureColumns(spec)
           nd == Len(spec.dimensions)
           ns == Len(SeriesOf(spec))
           nm == Len(spec.measures)
<1>1. /\ nd \in Nat /\ ns \in {0, 1} /\ nm \in Nat
      /\ DOMAIN spec.dimensions = 1..nd /\ DOMAIN SeriesOf(spec) = 1..ns
      /\ DOMAIN spec.measures = 1..nm
  <2>1. nd \in Nat /\ ns \in {0, 1} /\ nm \in Nat
    BY SpecLengths
  <2>2. DOMAIN spec.dimensions = 1..nd /\ DOMAIN SeriesOf(spec) = 1..ns
    BY SpecLengths
  <2>3. DOMAIN spec.measures = 1..nm
    BY SpecLengths
  <2> QED
    BY <2>1, <2>2, <2>3
<1>2. /\ D = [i \in 1..nd |-> D[i]] /\ \A i \in 1..nd : D[i].alias = <<"dimension", i>>
      /\ S = [i \in 1..ns |-> S[i]] /\ \A i \in 1..ns : S[i].alias = <<"series", 1>>
      /\ M = [i \in 1..nm |-> M[i]] /\ \A i \in 1..nm : M[i].alias = <<"value", i>>
  <2>1. D = [i \in 1..nd |-> D[i]] /\ \A i \in 1..nd : D[i].alias = <<"dimension", i>>
    BY <1>1 DEF DimensionColumns, ChartColumn, Alias
  <2>2. S = [i \in 1..ns |-> S[i]] /\ \A i \in 1..ns : S[i].alias = <<"series", 1>>
    BY <1>1 DEF SeriesColumns, ChartColumn, Alias
  <2>3. M = [i \in 1..nm |-> M[i]] /\ \A i \in 1..nm : M[i].alias = <<"value", i>>
    BY <1>1 DEF MeasureColumns, ChartColumn, Alias
  <2> QED
    BY <2>1, <2>2, <2>3
<1>3. ChartColumns(spec) = (D \o S) \o M
  BY RequestIs
<1> HIDE DEF D, S, M, nd, ns, nm
<1>4. /\ IsSequence(D) /\ Len(D) = nd /\ IsSequence(S) /\ Len(S) = ns
      /\ IsSequence(M) /\ Len(M) = nm
  <2>1. ASSUME NEW n \in Nat, NEW f, f = [i \in 1..n |-> f[i]]
        PROVE  IsSequence(f) /\ Len(f) = n
    <3>1. f \in [1..n -> Elements(f)]
      BY <2>1 DEF Elements
    <3> QED
      BY <3>1, FunctionIsSequence
  <2>2. ns \in Nat
    BY <1>1
  <2> QED
    BY <1>1, <1>2, <2>1, <2>2
<1> DEFINE DS == D \o S
           C == DS \o M
<1>5. /\ IsSequence(DS) /\ Len(DS) = nd + ns
      /\ Elements(DS) = Elements(D) \cup Elements(S)
      /\ \A i \in 1..nd : DS[i] = D[i]
      /\ \A i \in 1..ns : DS[nd + i] = S[i]
  <2>1. IsConcatenation(D, S, DS)
    BY <1>4, Concatenated
  <2> QED
    BY <1>4, <2>1 DEF IsConcatenation
<1>6. ChartColumns(spec) = C
  BY <1>3
<1> HIDE DEF DS
<1>7. /\ IsSequence(C) /\ Len(C) = (nd + ns) + nm
      /\ Elements(C) = Elements(DS) \cup Elements(M)
      /\ \A i \in 1..(nd + ns) : C[i] = DS[i]
      /\ \A i \in 1..nm : C[(nd + ns) + i] = M[i]
  <2>1. IsConcatenation(DS, M, C)
    BY <1>4, <1>5, Concatenated
  <2> QED
    BY <1>4, <1>5, <2>1 DEF IsConcatenation
<1> HIDE DEF C
<1>8. ASSUME NEW i \in 1..Len(C)
      PROVE  C[i].alias = IF i <= nd THEN <<"dimension", i>>
                          ELSE IF i <= nd + ns THEN <<"series", 1>>
                          ELSE <<"value", i - (nd + ns)>>
  <2>1. CASE i <= nd
    <3>1. i \in 1..nd /\ i \in 1..(nd + ns)
      BY <1>1, <1>7, <2>1
    <3> QED
      BY <1>2, <1>5, <1>7, <2>1, <3>1
  <2>2. CASE ~ (i <= nd) /\ i <= nd + ns
    <3>1. i - nd \in 1..ns /\ nd + (i - nd) = i /\ i \in 1..(nd + ns)
      BY <1>1, <1>7, <2>2
    <3>2. DS[i] = S[i - nd] /\ C[i] = DS[i]
      BY <1>5, <1>7, <3>1
    <3> QED
      BY <1>2, <2>2, <3>1, <3>2
  <2>3. CASE ~ (i <= nd) /\ ~ (i <= nd + ns)
    <3>1. i - (nd + ns) \in 1..nm /\ (nd + ns) + (i - (nd + ns)) = i
      BY <1>1, <1>7, <2>3
    <3>2. C[i] = M[i - (nd + ns)]
      BY <1>7, <3>1
    <3> QED
      BY <1>2, <2>3, <3>1, <3>2
  <2> QED
    BY <2>1, <2>2, <2>3
<1>9. ASSUME NEW i \in 1..Len(C), NEW j \in 1..Len(C), C[i] = C[j]
      PROVE  i = j
  <2> DEFINE alias(k) == IF k <= nd THEN <<"dimension", k>>
                         ELSE IF k <= nd + ns THEN <<"series", 1>>
                         ELSE <<"value", k - (nd + ns)>>
  <2>1. alias(i) = alias(j)
    <3>1. C[i].alias = alias(i) /\ C[j].alias = alias(j)
      BY <1>8
    <3> QED
      BY <1>9, <3>1
  <2>2. i \in Nat /\ j \in Nat
    BY <1>1, <1>7
  <2>3. CASE i <= nd
    <3>1. alias(i) = <<"dimension", i>>
      BY <2>3
    <3>2. j <= nd
      BY <2>1, <3>1
    <3> QED
      BY <2>1, <3>1, <3>2
  <2>4. CASE ~ (i <= nd) /\ i <= nd + ns
    <3>1. alias(i) = <<"series", 1>>
      BY <2>4
    <3>2. ~ (j <= nd) /\ j <= nd + ns
      BY <2>1, <3>1
    <3> QED
      BY <1>1, <2>2, <2>4, <3>2
  <2>5. CASE ~ (i <= nd) /\ ~ (i <= nd + ns)
    <3>1. alias(i) = <<"value", i - (nd + ns)>>
      BY <2>5
    <3>2. ~ (j <= nd) /\ ~ (j <= nd + ns)
      BY <2>1, <3>1
    <3>3. alias(j) = <<"value", j - (nd + ns)>>
      BY <3>2
    <3>4. i - (nd + ns) = j - (nd + ns)
      BY <2>1, <3>1, <3>3
    <3> QED
      BY <1>1, <2>2, <3>4
  <2> QED
    BY <2>3, <2>4, <2>5
<1>10. Cardinality(Elements(C)) = Len(C)
  BY <1>7, <1>9, UniqueCount
<1> QED
  BY <1>5, <1>6, <1>7, <1>10 DEF D, S, M, nd, ns, nm

(* What execute_dashboard_chart_query answers comes from a query that was  *)
(* accepted, of a specification and of filters that are known.             *)
LEMMA DrawnCharts ==
  ASSUME QInv, Drew
  PROVE  /\ answer = AnswerChart(question) /\ answer # {}
         /\ PrepareRefusal(question.board, question.request, Principal, QueryDataset, QueryMoment)
              = "none"
         /\ ComponentRefusal(question.board, question.request) = "none"
         /\ <<question.board, question.request>> \in ChartsAsked
         /\ IsSpec(Component.spec)
<1> DEFINE board == question.board
           asked == question.request
<1>1. /\ question.topic = "chart" /\ answer = AnswerOf(question) /\ answer # {}
      /\ \/ board \in Boards /\ asked \in BoardRequests
         \/ board \in SeriesBoards /\ asked \in SeriesRequests
  BY QuestionsAsk DEF QInv, Drew, Answered, IsAbout
<1>2. answer = AnswerChart(question)
  BY <1>1 DEF AnswerOf
<1>3. PrepareRefusal(board, asked, Principal, QueryDataset, QueryMoment) = "none"
  BY <1>1, <1>2, Zenon DEF AnswerChart
<1>4. ComponentRefusal(board, asked) = "none"
  BY <1>3 DEF PrepareRefusal
<1>5. <<board, asked>> \in ChartsAsked
  BY <1>1, <1>4 DEF ChartsAsked
<1>6. IsSpec(Component.spec)
  BY <1>5, ChartsAssumption DEF Component
<1> QED
  BY <1>1, <1>2, <1>3, <1>4, <1>5, <1>6

(* Each answer about a chart is one to the query it was compiled to.       *)
ChartAnswers(q) ==
  {one \in AnswerDatasetQuery(CompiledRequest(ComponentOf(q.board, q.request).type,
                                              ComponentOf(q.board, q.request).spec),
                              ChartScopes(q.board, q.request),
                              History[q.at["rows"]], History[q.at["batches"]]) :
     one.error = "none"}

LEMMA ChartsAnswerQueries ==
  ASSUME NEW q
  PROVE  AnswerChart(q) \subseteq ChartAnswers(q)
BY DEF AnswerChart, ChartAnswers

(* execute_dashboard_chart_query: whatever it draws, each column names the *)
(* output with its field or metric, no two the same, and no output is left *)
(* out; and the query groups what it does not aggregate.                   *)
THEOREM ColumnsNameTheirOutputs == Spec => []ChartsAreComplete
<1>1. QInv => ChartsAreComplete
  <2> SUFFICES ASSUME QInv, Drew
               PROVE  ChartsAreComplete
    BY DEF ChartsAreComplete
  <2> DEFINE spec == Component.spec
             request == CompiledRequest(Component.type, spec)
             items == Elements(request.selections \o request.metrics)
  <2>1. IsSpec(spec) /\ answer = AnswerChart(question) /\ answer # {}
    BY DrawnCharts
  <2>2. PICK one \in ChartAnswers(question) : TRUE
    BY <2>1, ChartsAnswerQueries
  <2>3. GroupsWhatItSelects(request)
    <3> DEFINE scoped == ScopedFilters(ChartScopes(question.board, question.request), QueryMoment)
    <3>1. /\ one \in Answers(request, Principal, QueryDataset, History[question.at["rows"]],
                             History[question.at["batches"]], scoped)
          /\ one.error = "none"
      BY <2>2, Zenon DEF ChartAnswers, AnswerDatasetQuery, Component
    <3> HIDE DEF scoped, request
    <3> QED
      BY <3>1, AnswersAre
  <2>4. /\ items = Elements(OfDimensions(spec)) \cup Elements(OfSeries(spec))
                   \cup Elements(OfFieldMeasures(spec)) \cup Elements(OfMetrics(spec))
        /\ Len(OutputNames(request)) = Len(spec.dimensions) + Len(SeriesOf(spec)) + Len(spec.measures)
    <3>1. IsRequestOf(request, spec)
      BY <2>1, ChartAsks
    <3> HIDE DEF spec, request
    <3> QED
      BY <3>1 DEF IsRequestOf
  <2>5. /\ Elements(ChartColumns(spec))
             = Elements(DimensionColumns(spec)) \cup Elements(SeriesColumns(spec))
               \cup Elements(MeasureColumns(spec))
        /\ Cardinality(Elements(ChartColumns(spec)))
             = Len(spec.dimensions) + Len(SeriesOf(spec)) + Len(spec.measures)
    BY <2>1, ColumnsAre
  <2> HIDE DEF spec, request, items
  <2>6. ASSUME NEW column \in Elements(ChartColumns(spec))
        PROVE  HasOutput(column, items)
    <3>1. \A small : HasOutput(column, small) /\ small \subseteq items => HasOutput(column, items)
      BY DEF HasOutput
    <3>2. CASE column \in Elements(DimensionColumns(spec))
      <4>1. PICK i \in DOMAIN spec.dimensions : column = DimensionColumns(spec)[i]
        BY <3>2 DEF Elements, DimensionColumns
      <4>2. HasOutput(column, Elements(OfDimensions(spec)))
        BY <2>1, <4>1, ColumnsHaveOutputs
      <4> QED
        BY <2>4, <3>1, <4>2
    <3>3. CASE column \in Elements(SeriesColumns(spec))
      <4>1. PICK i \in DOMAIN SeriesOf(spec) : column = SeriesColumns(spec)[i]
        BY <3>3 DEF Elements, SeriesColumns
      <4>2. HasOutput(column, Elements(OfSeries(spec)))
        BY <2>1, <4>1, ColumnsHaveOutputs
      <4> QED
        BY <2>4, <3>1, <4>2
    <3>4. CASE column \in Elements(MeasureColumns(spec))
      <4>1. PICK i \in DOMAIN spec.measures : column = MeasureColumns(spec)[i]
        BY <3>4 DEF Elements, MeasureColumns
      <4>2. HasOutput(column, Elements(OfFieldMeasures(spec)) \cup Elements(OfMetrics(spec)))
        BY <2>1, <4>1, ColumnsHaveOutputs
      <4>3. Elements(OfFieldMeasures(spec)) \cup Elements(OfMetrics(spec)) \subseteq items
        BY <2>4
      <4> QED
        BY <3>1, <4>2, <4>3
    <3> QED
      BY <2>5, <3>2, <3>3, <3>4
  <2>7. \A column \in Elements(ChartColumns(spec)) :
          \E item \in items : item.output = column.alias /\ Names(column, item)
    BY <2>6 DEF HasOutput
  <2>8. Cardinality(Elements(ChartColumns(spec))) = Len(OutputNames(request))
    BY <2>4, <2>5
  <2> QED
    BY <2>3, <2>7, <2>8, Zenon DEF ChartsAreComplete, Names, spec, request, items
<1> QED
  BY <1>1, AnswersAreOfQuestions, PTL

-----------------------------------------------------------------------------
(* The pairs of a series chart.                                            *)

Classes(S, f) == {{y \in S : f[y] = f[x]} : x \in S}
Images(S, g) == {g[x] : x \in S}
TellApart(S, f, g) == \A x, y \in S : f[x] = f[y] <=> g[x] = g[y]

(* There are as many classes as there are values that tell them apart.     *)
LEMMA ClassesAreValues ==
  ASSUME NEW S, IsFiniteSet(S), NEW f, NEW g, TellApart(S, f, g)
  PROVE  Cardinality(Classes(S, f)) = Cardinality(Images(S, g))
<1> DEFINE class(x) == {y \in S : f[y] = f[x]}
           classes == {class(x) : x \in S}
           values == {g[x] : x \in S}
           of == [c \in classes |-> g[CHOOSE x \in c : TRUE]]
<1>1. \A x \in S : x \in class(x)
  OBVIOUS
<1>2. ASSUME NEW x \in S
      PROVE  of[class(x)] = g[x]
  <2> DEFINE c == class(x)
             y == CHOOSE z \in c : TRUE
  <2>1. y \in c
    BY <1>1
  <2>2. y \in S /\ f[y] = f[x]
    BY <2>1
  <2>3. g[y] = g[x]
    BY <1>2, <2>2 DEF TellApart
  <2>4. of[c] = g[y]
    OBVIOUS
  <2> QED
    BY <2>3, <2>4
<1>3. ASSUME NEW x \in S, NEW y \in S, of[class(x)] = of[class(y)]
      PROVE  class(x) = class(y)
  <2>1. g[x] = g[y]
    <3> HIDE DEF of, class
    <3> QED
      BY <1>2, <1>3
  <2>2. f[x] = f[y]
    BY <2>1 DEF TellApart
  <2> QED
    BY <2>2
<1>4. DOMAIN of = classes /\ of = [c \in classes |-> of[c]]
  OBVIOUS
<1>5. \A c \in classes : \E x \in S : c = class(x)
  OBVIOUS
<1>6. \A x \in S : class(x) \in classes
  OBVIOUS
<1> DEFINE make == [x \in S |-> class(x)]
<1>7. {make[x] : x \in S} = classes
  OBVIOUS
<1>8. IsFiniteSet({make[x] : x \in S})
  <2>1. DOMAIN make = S
    OBVIOUS
  <2> HIDE DEF make
  <2> QED
    BY <2>1, ImageIsFinite
<1> HIDE DEF make, class, of, classes
<1>9. \A c \in classes : of[c] \in values
  BY <1>2, <1>5
<1>10. of \in [classes -> values]
  BY <1>4, <1>9
<1>11. \A c, d \in classes : of[c] = of[d] => c = d
  BY <1>3, <1>5
<1>12. \A v \in values : \E c \in classes : of[c] = v
  BY <1>2, <1>6
<1> HIDE DEF values
<1>13. of \in Surjection(classes, values) /\ of \in Injection(classes, values)
  BY <1>10, <1>11, <1>12 DEF Surjection, Injection, IsInjective
<1>14. Cardinality(values) = Cardinality(classes)
  BY <1>7, <1>8, <1>13, FS_Surjection
<1> QED
  BY <1>14 DEF values, classes, class, Classes, Images

(* The rows a query reads of the data of one moment.                       *)
ReadableIn(request, scopes, data) ==
  {rows \in FromClause(data) :
     /\ data.tables[data.fact][rows[data.fact]].active
     /\ MayRead(QueryDataset.policies, Principal, ValuesOf(data, rows))
     /\ request.filter # None => Meets(request.filter, ValuesOf(data, rows))
     /\ PassesScopes(scopes, ValuesOf(data, rows), QueryMoment)}
PlainKey(request, data, rows) ==
  [s \in Plain(request) |-> SelectedValue(s, QueryDataset, data, rows)]
PlainGroups(request, data, readable) ==
  {{other \in readable : PlainKey(request, data, other) = PlainKey(request, data, rows)} :
     rows \in readable}

(* An answer shows lines of the combinations of plain values there are     *)
(* among the rows it may read, in an order the database chooses, and the   *)
(* batches that a later statement finds.                                   *)
LinesIn(request, data, readable) ==
  LinesOf(request, QueryDataset, data, PlainGroups(request, data, readable))
BatchesIn(request, scopes, data) ==
  BatchesOf(data, Visible(request, Principal, QueryDataset, data, ScopedFilters(scopes, QueryMoment)))
ShowsGroups(one, request, scopes, data, later, readable) ==
  /\ IsFiniteSet(readable)
  /\ IsFiniteSet(PlainGroups(request, data, readable))
  /\ request.limit \in Nat
  /\ one.truncated <=> Cardinality(PlainGroups(request, data, readable)) > request.limit
  /\ one.batches = BatchesIn(request, scopes, later)
  /\ \E sequence \in Orders(request.order, LinesIn(request, data, readable)) :
       one.rows = LinesShown(LinesIn(request, data, readable), FirstOf(sequence, request.limit))
  /\ IsRecord(one)

LEMMA AnswersShowGroups ==
  ASSUME NEW request, IsSequence(request.selections),
         request.metrics # << >> \/ HasAggregate(request), request.group # << >>,
         NEW scopes, NEW data, AreUnderstood(scopes, data), NEW later,
         NEW one \in AnswerDatasetQuery(request, scopes, data, later),
         one.error = "none",
         NEW readable, readable = ReadableIn(request, scopes, data)
  PROVE  ShowsGroups(one, request, scopes, data, later, readable)
<1> DEFINE scoped == ScopedFilters(scopes, QueryMoment)
           visible == Visible(request, Principal, QueryDataset, data, scoped)
           groups == Groups(request, QueryDataset, data, visible)
           lines == LinesOf(request, QueryDataset, data, groups)
           Key(rows) == [s \in GroupSelections(request) |->
                           SelectedValue(s, QueryDataset, data, rows)]
<1>1. QueryIsWellFormed(request) /\ one \in Answers(request, Principal, QueryDataset, data, later, scoped)
  BY DEF AnswerDatasetQuery
<1>2. /\ GroupsWhatItSelects(request)
      /\ one.truncated <=> Cardinality(groups) > request.limit
      /\ one.batches = BatchesOf(later, Visible(request, Principal, QueryDataset, later, scoped))
      /\ \E sequence \in Orders(request.order, lines) :
           one.rows = LinesShown(lines, FirstOf(sequence, request.limit))
      /\ IsRecord(one)
  <2> HIDE DEF scoped
  <2> QED
    BY <1>1, AnswersAre
<1>3. visible = readable
  BY WhatIsVisibleIsReadable DEF ReadableIn, AreUnderstood
<1>4. IsFiniteSet(readable)
  BY FromClauseIsFinite, FS_Subset, Zenon DEF ReadableIn, AreUnderstood
<1>5. groups = PlainGroups(request, data, readable)
  <2>1. GroupsArePlain(request)
    BY <1>1 DEF QueryIsWellFormed
  <2>2. GroupSelections(request) = Plain(request)
    BY <1>2, <2>1, GroupedIsPlain DEF IsSequence
  <2>3. \A rows : Key(rows) = PlainKey(request, data, rows)
    BY <2>2 DEF PlainKey
  <2>4. groups = {{other \in readable : Key(other) = Key(rows)} : rows \in readable}
    <3> HIDE DEF visible
    <3> QED
      BY <1>3 DEF Groups
  <2> HIDE DEF Key, groups
  <2> QED
    BY <2>3, <2>4 DEF PlainGroups
<1>6. IsFiniteSet(groups) /\ DOMAIN lines = groups
  <2> DEFINE make == [rows \in readable |->
                        {other \in readable : PlainKey(request, data, other) = PlainKey(request, data, rows)}]
  <2>1. IsFiniteSet({make[rows] : rows \in readable})
    <3>1. DOMAIN make = readable
      OBVIOUS
    <3> HIDE DEF make
    <3> QED
      BY <1>4, <3>1, ImageIsFinite
  <2>2. PlainGroups(request, data, readable) = {make[rows] : rows \in readable}
    BY DEF PlainGroups
  <2>3. DOMAIN lines = groups
    BY DEF LinesOf
  <2> HIDE DEF make, groups, lines
  <2> QED
    BY <1>5, <2>1, <2>2, <2>3
<1>7. request.limit \in Nat
  BY <1>1, QueriesAssumption DEF QueryIsWellFormed
<1>8. lines = LinesIn(request, data, readable)
  BY <1>5 DEF LinesIn
<1>9. one.batches = BatchesIn(request, scopes, later)
  BY <1>2 DEF BatchesIn
<1> HIDE DEF lines, groups, visible, scoped
<1> QED
  BY <1>2, <1>4, <1>5, <1>6, <1>7, <1>8, <1>9 DEF ShowsGroups

(* An answer that is not truncated has a line for each combination of      *)
(* plain values there is among the rows it may read.                       *)
LEMMA WholeAnswers ==
  ASSUME NEW request, IsSequence(request.selections),
         request.metrics # << >> \/ HasAggregate(request), request.group # << >>,
         NEW scopes, NEW data, AreUnderstood(scopes, data), NEW later,
         NEW one \in AnswerDatasetQuery(request, scopes, data, later),
         one.error = "none", ~ one.truncated,
         NEW readable, readable = ReadableIn(request, scopes, data)
  PROVE  /\ IsFiniteSet(readable)
         /\ Len(one.rows) = Cardinality(PlainGroups(request, data, readable))
<1> DEFINE groups == PlainGroups(request, data, readable)
           lines == LinesIn(request, data, readable)
<1>1. ShowsGroups(one, request, scopes, data, later, readable)
  BY AnswersShowGroups
<1>2. /\ one.truncated <=> Cardinality(groups) > request.limit
      /\ \E sequence \in Orders(request.order, lines) :
           one.rows = LinesShown(lines, FirstOf(sequence, request.limit))
  BY <1>1 DEF ShowsGroups
<1>3. IsFiniteSet(readable) /\ request.limit \in Nat
  BY <1>1 DEF ShowsGroups
<1>4. IsFiniteSet(groups) /\ DOMAIN lines = groups
  BY <1>1 DEF ShowsGroups, LinesIn, LinesOf
<1> HIDE DEF lines, groups
<1>5. Len(one.rows) = Min({request.limit, Cardinality(groups)})
  <2>1. PICK sequence \in Orders(request.order, lines) :
          one.rows = LinesShown(lines, FirstOf(sequence, request.limit))
    BY <1>2
  <2>2. IsFiniteSet(DOMAIN lines)
    BY <1>4
  <2>3. Len(one.rows) = Min({request.limit, Cardinality(DOMAIN lines)})
    BY <1>3, <2>1, <2>2, FirstLines
  <2> QED
    BY <1>4, <2>3
<1>6. Cardinality(groups) \in Nat /\ Cardinality(groups) <= request.limit
  <2>1. Cardinality(groups) \in Nat
    BY <1>4, FS_CardinalityType
  <2> QED
    BY <1>2, <1>3, <2>1
<1>7. Min({request.limit, Cardinality(groups)}) = Cardinality(groups)
  <2> DEFINE n == Cardinality(groups)
             T == {request.limit, n}
  <2>1. n \in T /\ (\A y \in T : n <= y) /\ \A x \in T : (\A y \in T : x <= y) => x = n
    BY <1>3, <1>6
  <2>2. Min(T) = CHOOSE x \in T : \A y \in T : x <= y
    BY DEF Min
  <2> HIDE DEF T, n
  <2>3. Min(T) = n
    BY <2>1, <2>2
  <2> QED
    BY <2>3 DEF T, n
<1> QED
  BY <1>3, <1>5, <1>7 DEF groups

(* The query groups, it has no filter of its own, and these are the columns*)
(* it groups by.                                                           *)
GroupsBy(request, selections) ==
  /\ request.metrics # << >> \/ HasAggregate(request)
  /\ request.group # << >>
  /\ request.filter = None
  /\ Plain(request) = selections
  /\ IsSequence(request.selections)

SeriesSelection(spec) == Selection(spec.series.field, Alias("series", 1), None, None)

(* A component with a series has one dimension and a measure.              *)
LEMMA SeriesHaveOneDimension ==
  ASSUME NEW board, NEW asked, ComponentRefusal(board, asked) = "none",
         NEW spec, spec = ComponentOf(board, asked).spec, IsSpec(spec), spec.series # None
  PROVE  Len(spec.dimensions) = 1 /\ Len(spec.measures) >= 1
<1> DEFINE type == ComponentOf(board, asked).type
           dimensions == Len(spec.dimensions)
           measures == Len(spec.measures)
<1>1. SlotsFit(type, spec)
  BY DEF ComponentRefusal
<1> HIDE DEF type
<1>2. type \in WithSeries
  BY <1>1 DEF SlotsFit
<1>3. measures \in Nat
  BY SpecLengths
<1>4. CASE type = "stacked_bar"
  <2>1. dimensions = 1 /\ measures = 1
    BY <1>1, <1>4 DEF SlotsFit
  <2> QED
    BY <2>1
<1>5. CASE type \in {"bar", "horizontal_bar", "line", "area"}
  <2>1. dimensions = 1 /\ measures >= 1
    BY <1>1, <1>5 DEF SlotsFit
  <2> QED
    BY <2>1
<1> QED
  BY <1>2, <1>4, <1>5 DEF WithSeries

(* The query of a chart with one dimension and a measure groups by the     *)
(* dimension and, if it has one, the series.                               *)
LEMMA ChartRequestGroups ==
  ASSUME NEW type, NEW spec, IsSpec(spec), Len(spec.dimensions) = 1, Len(spec.measures) >= 1,
         NEW request, request = CompiledRequest(type, spec)
  PROVE  GroupsBy(request, {request.selections[1]} \cup Elements(OfSeries(spec)))
<1>1. IsRequestOf(request, spec)
  BY ChartAsks
<1>2. /\ Len(spec.measures) \in Nat /\ DOMAIN spec.measures = 1..Len(spec.measures)
      /\ DOMAIN spec.dimensions = 1..Len(spec.dimensions)
  BY SpecLengths
<1>3. 1 \in DOMAIN spec.measures /\ 1 \in DOMAIN spec.dimensions /\ DOMAIN spec.dimensions = {1}
  BY <1>2
<1>4. IsSequence(SeriesOf(spec))
  <2> DEFINE series == SeriesOf(spec)
  <2>1. /\ Len(series) \in {0, 1} /\ DOMAIN series = 1..Len(series)
        /\ series \in Seq({spec.series})
    BY SpecLengths
  <2> HIDE DEF series
  <2>2. Len(series) \in Nat /\ series \in [1..Len(series) -> {spec.series}]
    BY <2>1
  <2>3. IsSequence(series)
    BY <2>2, FunctionIsSequence
  <2> QED
    BY <2>3 DEF series
<1>5. Elements(OfDimensions(spec)) = {request.selections[1]} /\ request.selections[1].aggregate = None
  <2>1. request.selections[1] = OfDimensions(spec)[1]
    BY <1>1, <1>3 DEF IsRequestOf
  <2>2. DOMAIN OfDimensions(spec) = {1} /\ OfDimensions(spec)[1].aggregate = None
    BY <1>3 DEF OfDimensions, Selection
  <2> QED
    BY <2>1, <2>2 DEF Elements
<1>6. \A s \in Elements(OfSeries(spec)) : s.aggregate = None
  BY DEF Elements, OfSeries, Selection
<1>7. \A s \in Elements(OfFieldMeasures(spec)) : s.aggregate # None
  <2>1. SUFFICES ASSUME NEW j \in DOMAIN Measures(spec, "field")
                 PROVE  OfFieldMeasures(spec)[j].aggregate # None
    BY DEF Elements, OfFieldMeasures
  <2>2. Measures(spec, "field")[j] \in Elements(Measures(spec, "field"))
    BY DEF Elements
  <2>3. PICK i \in OfKind(spec, "field", Len(spec.measures)) :
          Measures(spec, "field")[j] = NumberedMeasure(spec, i)
    BY <2>2, MeasuresAre DEF AreMeasures
  <2>4. i \in DOMAIN spec.measures /\ spec.measures[i].kind = "field"
    BY <1>2 DEF OfKind
  <2>5. spec.measures[i].aggregate # None
    BY <2>4 DEF IsSpec, Elements
  <2>6. Measures(spec, "field")[j][1] = spec.measures[i]
    BY <2>3 DEF NumberedMeasure
  <2>7. OfFieldMeasures(spec)[j].aggregate = Measures(spec, "field")[j][1].aggregate
    BY DEF OfFieldMeasures, Selection
  <2> QED
    BY <2>5, <2>6, <2>7
<1>8. Plain(request) = {request.selections[1]} \cup Elements(OfSeries(spec))
  <2>1. Elements(request.selections)
          = {request.selections[1]} \cup Elements(OfSeries(spec)) \cup Elements(OfFieldMeasures(spec))
    BY <1>1, <1>5 DEF IsRequestOf
  <2> QED
    BY <1>5, <1>6, <1>7, <2>1 DEF Plain
<1>9. request.metrics # << >> \/ HasAggregate(request)
  <2> DEFINE kind == spec.measures[1].kind
  <2>1. kind \in {"field", "metric"}
    BY <1>3 DEF IsSpec, Elements
  <2>2. NumberedMeasure(spec, 1) \in Elements(Measures(spec, kind))
    <3>1. 1 \in OfKind(spec, kind, Len(spec.measures))
      BY <1>2, <1>3 DEF OfKind
    <3> QED
      BY <3>1, MeasuresAre DEF AreMeasures
  <2>3. PICK j \in DOMAIN Measures(spec, kind) : TRUE
    BY <2>2 DEF Elements
  <2>4. CASE kind = "field"
    <3>1. OfFieldMeasures(spec)[j] \in Elements(OfFieldMeasures(spec))
      BY <2>3, <2>4 DEF OfFieldMeasures, Elements
    <3> QED
      BY <1>1, <1>7, <3>1 DEF HasAggregate, IsRequestOf
  <2>5. CASE kind = "metric"
    <3>1. OfMetrics(spec)[j] \in Elements(OfMetrics(spec))
      BY <2>3, <2>5 DEF OfMetrics, Elements
    <3>2. Elements(request.metrics) # {}
      BY <1>1, <3>1 DEF IsRequestOf
    <3>3. Elements(<< >>) = {}
      BY DEF Elements
    <3> QED
      BY <3>2, <3>3
  <2> QED
    BY <2>1, <2>4, <2>5
<1>10. request.group # << >>
  <2>1. spec.measures # << >>
    BY <1>3
  <2> DEFINE drawn == Drawn(spec)
             group == [i \in DOMAIN drawn |-> drawn[i].field]
  <2>2. request.group = group
    BY <2>1, RequestIs DEF Map
  <2>3. 1 \in DOMAIN drawn
    <3>1. IsSequence(spec.dimensions)
      BY DEF IsSpec, IsSequence
    <3>2. IsConcatenation(spec.dimensions, SeriesOf(spec), drawn)
      BY <1>4, <3>1, Concatenated DEF Drawn
    <3> HIDE DEF drawn
    <3>3. Len(drawn) = 1 + Len(SeriesOf(spec)) /\ DOMAIN drawn = 1..Len(drawn)
      BY <3>2 DEF IsConcatenation, IsSequence
    <3> QED
      BY <3>3, SpecLengths
  <2> QED
    BY <2>2, <2>3
<1>11. request.filter = None
  BY RequestIs
<1> QED
  BY <1>1, <1>8, <1>9, <1>10, <1>11 DEF IsRequestOf, GroupsBy

LEMMA SeriesRequest ==
  ASSUME NEW type, NEW spec, IsSpec(spec), Len(spec.dimensions) = 1, Len(spec.measures) >= 1,
         spec.series # None, NEW request, request = CompiledRequest(type, spec)
  PROVE  GroupsBy(request, {request.selections[1], SeriesSelection(spec)})
<1>1. GroupsBy(request, {request.selections[1]} \cup Elements(OfSeries(spec)))
  BY ChartRequestGroups
<1>2. Elements(OfSeries(spec)) = {SeriesSelection(spec)}
  <2>1. SeriesOf(spec) = <<spec.series>>
    BY DEF SeriesOf
  <2>2. DOMAIN OfSeries(spec) = {1} /\ OfSeries(spec)[1] = SeriesSelection(spec)
    BY <2>1 DEF OfSeries, SeriesSelection
  <2> QED
    BY <2>2 DEF Elements
<1>3. {request.selections[1]} \cup {SeriesSelection(spec)}
        = {request.selections[1], SeriesSelection(spec)}
  OBVIOUS
<1> QED
  BY <1>1, <1>2, <1>3

LEMMA RequestWithoutSeries ==
  ASSUME NEW type, NEW spec, IsSpec(spec), Len(spec.dimensions) = 1, Len(spec.measures) >= 1,
         spec.series = None, NEW request, request = CompiledRequest(type, spec)
  PROVE  GroupsBy(request, {request.selections[1]})
<1>1. GroupsBy(request, {request.selections[1]} \cup Elements(OfSeries(spec)))
  BY ChartRequestGroups
<1>2. Elements(OfSeries(spec)) = {}
  <2>1. SeriesOf(spec) = << >>
    BY DEF SeriesOf
  <2> QED
    BY <2>1 DEF OfSeries, Elements
<1> QED
  BY <1>1, <1>2

(* The query that counts the series of a chart groups by their field.      *)
LEMMA SeriesCounts ==
  ASSUME NEW spec, NEW request, request = SeriesCardinality(spec), QueryIsWellFormed(request)
  PROVE  GroupsBy(request, {Selection(spec.series.field, Alias("key", 1), None, None)})
<1> DEFINE key == Selection(spec.series.field, Alias("key", 1), None, None)
           count == Selection(spec.series.field, Alias("count", 1), "count", None)
<1>1. /\ request.selections = <<key, count>> /\ request.filter = None
      /\ request.group = <<spec.series.field>>
  BY DEF SeriesCardinality, CardinalityRequest
<1>2. key.aggregate = None /\ count.aggregate = "count"
  BY DEF Selection
<1>3. Signature(key) = <<spec.series.field, None, None>>
      /\ Signature(count) = <<spec.series.field, "count", None>>
  BY DEF Selection, Signature
<1> HIDE DEF key, count
<1>4. DOMAIN request.selections = {1, 2} /\ Elements(request.selections) = {key, count}
  BY <1>1 DEF Elements
<1>5. "count" # None
  <2>1. IsUnique(Signatures(request))
    BY DEF QueryIsWellFormed
  <2>2. DOMAIN Signatures(request) = {1, 2}
    BY <1>4 DEF Signatures, Map
  <2>3. Signatures(request)[1] = Signature(key) /\ Signatures(request)[2] = Signature(count)
    BY <1>1, <1>4 DEF Signatures, Map
  <2>4. Signature(key) # Signature(count)
    BY <2>1, <2>2, <2>3 DEF IsUnique
  <2> QED
    BY <1>3, <2>4
<1>6. HasAggregate(request)
  BY <1>2, <1>4, <1>5 DEF HasAggregate
<1>7. Plain(request) = {key}
  BY <1>2, <1>4, <1>5 DEF Plain
<1>8. IsSequence(request.selections)
  BY <1>1, <1>4 DEF IsSequence
<1> QED
  BY <1>1, <1>6, <1>7, <1>8 DEF key, GroupsBy

(* A chart with a series is drawn only of rows that are all there, and     *)
(* after a count of its series that did not end in an error and was not    *)
(* above what it may draw.                                                 *)
LEMMA SeriesAnswers ==
  ASSUME QInv, Drew, Component.spec.series # None, NEW one \in answer,
         NEW spec, spec = Component.spec,
         NEW scopes, scopes = ChartScopes(question.board, question.request),
         NEW data, data = History[question.at["series"]]
  PROVE  /\ one \in ChartAnswers(question) /\ ~ one.truncated
         /\ \E two \in AnswerDatasetQuery(SeriesCardinality(spec), scopes, data, data) :
              two.error = "none" /\ ~ two.truncated /\ ~ (Len(two.rows) > spec.series.max)
<1> DEFINE component == ComponentOf(question.board, question.request)
           Counts(counted, statement) ==
             {Counted(a, counted.limit) :
                a \in {b \in AnswerDatasetQuery(counted, scopes, History[question.at[statement]],
                                                History[question.at[statement]]) :
                         b.error = "none"}}
           counts ==
             {pair \in Counts(PrimaryCardinality(component.type, spec), "primary")
                      \X Counts(SeriesCardinality(spec), "series") :
                SeriesRefusal(component.type, spec, pair[1], pair[2]) = "none"}
<1>1. /\ answer = AnswerChart(question)
      /\ PrepareRefusal(question.board, question.request, Principal, QueryDataset, QueryMoment)
           = "none"
      /\ spec.series.max \in Nat
  BY DrawnCharts DEF IsSpec
<1>2. spec = component.spec
  BY DEF Component
<1>3. \E pair \in counts : ResultRefusal(spec, one, pair[1] * pair[2]) = "none"
  BY <1>1, <1>2 DEF AnswerChart
<1>4. PICK pair \in counts : ResultRefusal(spec, one, pair[1] * pair[2]) = "none"
  BY <1>3
<1>5. ~ one.truncated
  BY <1>4 DEF ResultRefusal
<1>6. /\ pair[2] \in Counts(SeriesCardinality(spec), "series")
      /\ ~ (pair[2] > spec.series.max)
  BY <1>4 DEF SeriesRefusal
<1>7. SeriesCardinality(spec).limit = spec.series.max
  BY DEF SeriesCardinality, CardinalityRequest
<1>8. PICK two \in AnswerDatasetQuery(SeriesCardinality(spec), scopes, data, data) :
        two.error = "none" /\ pair[2] = Counted(two, spec.series.max)
  BY <1>6, <1>7
<1>9. ~ two.truncated /\ ~ (Len(two.rows) > spec.series.max)
  BY <1>1, <1>6, <1>8 DEF Counted
<1>10. one \in ChartAnswers(question)
  BY <1>1, ChartsAnswerQueries
<1> QED
  BY <1>5, <1>8, <1>9, <1>10

(* The statements of a chart that is drawn read data of the history.       *)
LEMMA ChartsReadHistory ==
  ASSUME QInv, Drew, NEW statement \in Statements, NEW data, data = History[question.at[statement]]
  PROVE  data \in Range(History)
<1>1. question.at \in [Statements -> DOMAIN History]
  <2>1. question.at = AllToday \/ question.at \in Schedules
    BY QuestionsAsk DEF QInv, Drew, Answered, IsAbout
  <2>2. AllToday \in [Statements -> DOMAIN History]
    BY AnswersAssumption DEF AllToday
  <2> QED
    BY <2>1, <2>2 DEF Schedules
<1> QED
  BY <1>1 DEF Range

(* The filters of a chart that is drawn are known, and so are the data its *)
(* statements read.                                                        *)
LEMMA ChartsAreOfData ==
  ASSUME QInv, Drew, NEW scopes, scopes = ChartScopes(question.board, question.request),
         NEW statement \in Statements, NEW data, data = History[question.at[statement]]
  PROVE  AreUnderstood(scopes, data)
<1> DEFINE board == question.board
           asked == question.request
<1>1. /\ PrepareRefusal(board, asked, Principal, QueryDataset, QueryMoment) = "none"
      /\ <<board, asked>> \in ChartsAsked
  BY DrawnCharts
<1>2. ComponentRefusal(board, asked) = "none"
  BY DrawnCharts
<1>3. Refusal(scopes, QueryMoment) = "none"
  BY <1>1, <1>2 DEF PrepareRefusal
<1>4. data \in Range(History)
  BY ChartsReadHistory
<1>5. scopes \in {ChartScopes(pair[1], pair[2]) : pair \in ChartsAsked}
  <2>1. scopes = ChartScopes(<<board, asked>>[1], <<board, asked>>[2])
    OBVIOUS
  <2> QED
    BY <1>1, <2>1
<1>6. \A rows \in FromClause(data) : ScopesAreKnown(scopes, ValuesOf(data, rows), QueryMoment)
  BY <1>4, <1>5, ChartsAssumption
<1> QED
  BY <1>3, <1>4, <1>6, RequestsAssumption, ScopesAssumption DEF AreUnderstood

(* The pairs of values that the rows of a series chart are told apart by.  *)
PairOf(request, spec, data, rows) ==
  <<SelectedValue(request.selections[1], QueryDataset, data, rows),
    Cell(data, rows, spec.series.field)>>

(* As many lines answer a series chart as there are pairs.                 *)
LEMMA LinesArePairs ==
  ASSUME NEW request, NEW spec, NEW data, NEW readable, IsFiniteSet(readable),
         Plain(request) = {request.selections[1], SeriesSelection(spec)}
  PROVE  Cardinality(PlainGroups(request, data, readable))
           = Cardinality({PairOf(request, spec, data, rows) : rows \in readable})
<1> DEFINE f == [rows \in readable |-> PlainKey(request, data, rows)]
           g == [rows \in readable |-> PairOf(request, spec, data, rows)]
<1>1. ASSUME NEW x, NEW y
      PROVE  PlainKey(request, data, x) = PlainKey(request, data, y)
               <=> PairOf(request, spec, data, x) = PairOf(request, spec, data, y)
  <2> DEFINE first == request.selections[1]
             second == SeriesSelection(spec)
             Of(s, rows) == SelectedValue(s, QueryDataset, data, rows)
  <2>1. \A rows : Of(second, rows) = Cell(data, rows, spec.series.field)
    BY DEF SeriesSelection, Selection, SelectedValue, Grained
  <2>2. \A rows : PairOf(request, spec, data, rows) = <<Of(first, rows), Of(second, rows)>>
    BY <2>1 DEF PairOf
  <2>3. \A rows : PlainKey(request, data, rows) = [s \in {first, second} |-> Of(s, rows)]
    BY DEF PlainKey
  <2> HIDE DEF first, second, Of
  <2>4. PairOf(request, spec, data, x) = PairOf(request, spec, data, y)
          <=> Of(first, x) = Of(first, y) /\ Of(second, x) = Of(second, y)
    BY <2>2
  <2>5. PlainKey(request, data, x) = PlainKey(request, data, y)
          <=> Of(first, x) = Of(first, y) /\ Of(second, x) = Of(second, y)
    <3>1. \A rows : /\ PlainKey(request, data, rows)[first] = Of(first, rows)
                    /\ PlainKey(request, data, rows)[second] = Of(second, rows)
      BY <2>3
    <3>2. ASSUME Of(first, x) = Of(first, y), Of(second, x) = Of(second, y)
          PROVE  [s \in {first, second} |-> Of(s, x)] = [s \in {first, second} |-> Of(s, y)]
      <4>1. \A s \in {first, second} : Of(s, x) = Of(s, y)
        BY <3>2
      <4> QED
        BY <4>1
    <3> QED
      BY <2>3, <3>1, <3>2
  <2> QED
    BY <2>4, <2>5
<1>2. TellApart(readable, f, g)
  BY <1>1 DEF TellApart
<1>3. PlainGroups(request, data, readable) = Classes(readable, f)
  BY DEF PlainGroups, Classes
<1>4. {PairOf(request, spec, data, rows) : rows \in readable} = Images(readable, g)
  BY DEF Images
<1> HIDE DEF f, g
<1> QED
  BY <1>2, <1>3, <1>4, ClassesAreValues

(* As many lines answer the count of the series as there are series.       *)
LEMMA LinesAreSeries ==
  ASSUME NEW request, NEW field, NEW data, NEW readable, IsFiniteSet(readable),
         Plain(request) = {Selection(field, Alias("key", 1), None, None)}
  PROVE  Cardinality(PlainGroups(request, data, readable))
           = Cardinality({Cell(data, rows, field) : rows \in readable})
<1> DEFINE f == [rows \in readable |-> PlainKey(request, data, rows)]
           g == [rows \in readable |-> Cell(data, rows, field)]
           key == Selection(field, Alias("key", 1), None, None)
<1>1. \A rows : SelectedValue(key, QueryDataset, data, rows) = Cell(data, rows, field)
  BY DEF Selection, SelectedValue, Grained
<1>2. \A rows : PlainKey(request, data, rows)
                  = [s \in {key} |-> SelectedValue(s, QueryDataset, data, rows)]
  BY DEF PlainKey
<1>3. ASSUME NEW x, NEW y
      PROVE  PlainKey(request, data, x) = PlainKey(request, data, y)
               <=> Cell(data, x, field) = Cell(data, y, field)
  <2>1. \A rows : PlainKey(request, data, rows)[key] = Cell(data, rows, field)
    <3> HIDE DEF key
    <3> QED
      BY <1>1, <1>2
  <2>2. ASSUME Cell(data, x, field) = Cell(data, y, field)
        PROVE  [s \in {key} |-> SelectedValue(s, QueryDataset, data, x)]
                 = [s \in {key} |-> SelectedValue(s, QueryDataset, data, y)]
    <3>1. \A s \in {key} : SelectedValue(s, QueryDataset, data, x)
                             = SelectedValue(s, QueryDataset, data, y)
      <4> HIDE DEF key
      <4> QED
        BY <1>1, <2>2
    <3> QED
      BY <3>1
  <2> HIDE DEF key
  <2> QED
    BY <1>2, <2>1, <2>2
<1>4. TellApart(readable, f, g)
  BY <1>3 DEF TellApart
<1>5. PlainGroups(request, data, readable) = Classes(readable, f)
  BY DEF PlainGroups, Classes
<1>6. {Cell(data, rows, field) : rows \in readable} = Images(readable, g)
  BY DEF Images
<1> HIDE DEF f, g
<1> QED
  BY <1>4, <1>5, <1>6, ClassesAreValues

(* _validate_series_cardinality and execute_dashboard_chart_query: a chart *)
(* with a series has a line for every pair of a primary and a series value *)
(* among the rows it may read when it is executed, whatever was published  *)
(* since they were counted; and no more series than its maximum, if nothing*)
(* was.                                                                    *)
THEOREM SeriesAreDrawnWhole == Spec => []SeriesAreWhole
<1>1. QInv => SeriesAreWhole
  <2> SUFFICES ASSUME QInv, Drew, Component.spec.series # None
               PROVE  SeriesAreWhole
    BY DEF SeriesAreWhole
  <2> DEFINE spec == Component.spec
             request == CompiledRequest(Component.type, spec)
             scopes == ChartScopes(question.board, question.request)
             data == History[question.at["rows"]]
             readable == ReadableIn(request, scopes, data)
             pairs == {PairOf(request, spec, data, rows) : rows \in readable}
             count == SeriesCardinality(spec)
             counted == ReadableIn(count, scopes, data)
  <2>1. /\ IsSpec(spec) /\ spec.series # None
        /\ Len(spec.dimensions) = 1 /\ Len(spec.measures) >= 1
    BY DrawnCharts, SeriesHaveOneDimension DEF Component
  <2>2. GroupsBy(request, {request.selections[1], SeriesSelection(spec)})
    <3> HIDE DEF spec
    <3> QED
      BY <2>1, SeriesRequest
  <2>3. AreUnderstood(scopes, data)
    BY ChartsAreOfData DEF Statements
  <2>4. readable = Readable(request, Principal, QueryDataset, data,
                            LAMBDA row : PassesScopes(scopes, row, QueryMoment))
    BY Zenon DEF Readable, ReadableIn
  <2>5. ASSUME NEW one \in answer
        PROVE  /\ Len(one.rows) = Cardinality(pairs)
               /\ question.at["series"] = question.at["rows"] =>
                    Cardinality({pair[2] : pair \in pairs}) <= spec.series.max
    <3>1. /\ one \in ChartAnswers(question) /\ ~ one.truncated
          /\ \E two \in AnswerDatasetQuery(count, scopes, History[question.at["series"]],
                                           History[question.at["series"]]) :
               two.error = "none" /\ ~ two.truncated /\ ~ (Len(two.rows) > spec.series.max)
      BY SeriesAnswers
    <3>2. /\ one \in AnswerDatasetQuery(request, scopes, data, History[question.at["batches"]])
          /\ one.error = "none"
      BY <3>1 DEF ChartAnswers, Component
    <3> HIDE DEF request, scopes, data, spec, count
    <3>3. IsFiniteSet(readable)
          /\ Len(one.rows) = Cardinality(PlainGroups(request, data, readable))
      BY <2>2, <2>3, <3>1, <3>2, WholeAnswers DEF GroupsBy
    <3>4. Cardinality(PlainGroups(request, data, readable)) = Cardinality(pairs)
      <4> HIDE DEF readable
      <4> QED
        BY <2>2, <3>3, LinesArePairs DEF GroupsBy
    <3>5. ASSUME question.at["series"] = question.at["rows"]
          PROVE  Cardinality({pair[2] : pair \in pairs}) <= spec.series.max
      <4>1. PICK two \in AnswerDatasetQuery(count, scopes, data, data) :
              two.error = "none" /\ ~ two.truncated /\ ~ (Len(two.rows) > spec.series.max)
        BY <3>1, <3>5 DEF data
      <4>2. QueryIsWellFormed(count)
        BY <4>1 DEF AnswerDatasetQuery
      <4>3. GroupsBy(count, {Selection(spec.series.field, Alias("key", 1), None, None)})
        BY <4>2, SeriesCounts DEF count
      <4>4. IsFiniteSet(counted) /\ Len(two.rows) = Cardinality(PlainGroups(count, data, counted))
        BY <2>3, <4>1, <4>3, WholeAnswers DEF GroupsBy
      <4>5. counted = readable
        BY <2>2, <4>3 DEF ReadableIn, GroupsBy
      <4> HIDE DEF counted, readable
      <4>6. Len(two.rows) = Cardinality({Cell(data, rows, spec.series.field) : rows \in readable})
        <5>1. Cardinality(PlainGroups(count, data, counted))
                = Cardinality({Cell(data, rows, spec.series.field) : rows \in counted})
          BY <4>3, <4>4, LinesAreSeries DEF GroupsBy
        <5> QED
          BY <4>4, <4>5, <5>1
      <4>7. {pair[2] : pair \in pairs} = {Cell(data, rows, spec.series.field) : rows \in readable}
        <5>1. \A rows : PairOf(request, spec, data, rows)[2] = Cell(data, rows, spec.series.field)
          BY DEF PairOf
        <5> QED
          BY <5>1
      <4>8. Len(two.rows) \in Nat
        <5> DEFINE make == [rows \in readable |-> Cell(data, rows, spec.series.field)]
        <5>1. IsFiniteSet({make[rows] : rows \in readable})
          <6>1. DOMAIN make = readable
            OBVIOUS
          <6> HIDE DEF make
          <6> QED
            BY <4>4, <4>5, <6>1, ImageIsFinite
        <5>2. {make[rows] : rows \in readable} = {Cell(data, rows, spec.series.field) : rows \in readable}
          OBVIOUS
        <5> HIDE DEF make
        <5> QED
          BY <4>6, <5>1, <5>2, FS_CardinalityType
      <4>9. spec.series.max \in Nat
        BY <2>1 DEF IsSpec, spec
      <4> DEFINE cells == {Cell(data, rows, spec.series.field) : rows \in readable}
                 series == {pair[2] : pair \in pairs}
      <4>10. series = cells
        BY <4>7
      <4>11. Len(two.rows) = Cardinality(cells)
        BY <4>6
      <4> HIDE DEF pairs, cells, series
      <4>12. Cardinality(series) <= spec.series.max
        BY <4>1, <4>8, <4>9, <4>10, <4>11
      <4> QED
        BY <4>12 DEF series
    <3> HIDE DEF pairs, readable
    <3> QED
      BY <3>3, <3>4, <3>5
  <2>6. pairs = {<<SelectedValue(request.selections[1], QueryDataset, data, rows),
                   Cell(data, rows, spec.series.field)>> :
                   rows \in Readable(request, Principal, QueryDataset, data,
                                     LAMBDA row : PassesScopes(scopes, row, QueryMoment))}
    BY <2>4, Zenon DEF PairOf
  <2> QED
    BY <2>5, <2>6, Zenon DEF SeriesAreWhole
<1> QED
  BY <1>1, AnswersAreOfQuestions, PTL

-----------------------------------------------------------------------------
(* The order of a chart's lines.                                           *)

(* No two of the lines are alike in the order.                             *)
IsTotal(order, lines) ==
  \A a, b \in DOMAIN lines :
    a # b => Before(order, lines[a], lines[b]) \/ Before(order, lines[b], lines[a])

(* Then the database has no choice.                                        *)
LEMMA OneOrder ==
  ASSUME NEW order, NEW lines, IsFiniteSet(DOMAIN lines), IsTotal(order, lines),
         NEW s \in Orders(order, lines), NEW t \in Orders(order, lines)
  PROVE  s = t
<1> DEFINE groups == DOMAIN lines
           n == Cardinality(groups)
           comes(a, b) == Before(order, lines[a], lines[b])
<1>1. /\ s \in [1..n -> groups] /\ n \in Nat
      /\ \A i, j \in DOMAIN s : s[i] = s[j] => i = j
      /\ \A group \in groups : \E i \in DOMAIN s : s[i] = group
      /\ \A i, j \in DOMAIN s : i < j => ~ comes(s[j], s[i])
  BY OrdersAre
<1>2. /\ t \in [1..n -> groups]
      /\ \A i, j \in DOMAIN t : t[i] = t[j] => i = j
      /\ \A group \in groups : \E i \in DOMAIN t : t[i] = group
      /\ \A i, j \in DOMAIN t : i < j => ~ comes(t[j], t[i])
  BY OrdersAre
<1>3. \A a, b \in groups : a # b => comes(a, b) \/ comes(b, a)
  BY DEF IsTotal
<1> HIDE DEF groups, n, comes
<1> DEFINE T == {k \in Nat : \A i \in 1..n : i <= k => s[i] = t[i]}
<1>4. 0 \in T
  BY <1>1
<1>5. ASSUME NEW k \in T \cap Nat
      PROVE  k + 1 \in T
  <2> DEFINE m == k + 1
  <2>1. \A i \in 1..n : i < m => s[i] = t[i]
    BY <1>1, <1>5
  <2>2. ASSUME m \in 1..n
        PROVE  s[m] = t[m]
    <3>1. s[m] \in groups /\ t[m] \in groups
      BY <1>1, <1>2, <2>2
    <3>2. PICK j \in 1..n : t[j] = s[m]
      BY <1>2, <3>1
    <3>3. PICK i \in 1..n : s[i] = t[m]
      BY <1>1, <3>1
    <3> HIDE DEF m
    <3>4. m <= j
      <4>1. CASE j < m
        BY <1>1, <2>1, <2>2, <3>2, <4>1
      <4> QED
        BY <2>2, <4>1
    <3>5. m <= i
      <4>1. CASE i < m
        BY <1>1, <1>2, <2>1, <2>2, <3>3, <4>1
      <4> QED
        BY <2>2, <4>1
    <3>6. CASE m = j
      BY <3>2, <3>6
    <3>7. CASE m = i
      BY <3>3, <3>7
    <3>8. CASE m < j /\ m < i
      <4>1. ~ comes(t[j], t[m])
        BY <1>2, <2>2, <3>8
      <4>2. ~ comes(s[i], s[m])
        BY <1>1, <2>2, <3>8
      <4> QED
        BY <1>3, <3>1, <3>2, <3>3, <4>1, <4>2
    <3> QED
      BY <2>2, <3>4, <3>5, <3>6, <3>7, <3>8
  <2> QED
    BY <1>1, <2>1, <2>2
<1>6. n \in T
  <2>1. \A k \in 0..n : k \in T
    <3> HIDE DEF T
    <3> QED
      BY <1>1, <1>4, <1>5, Reaches
  <2> QED
    BY <1>1, <2>1
<1> QED
  BY <1>1, <1>2, <1>6

(* One of two keys that are not the same comes first.                      *)
LEMMA NumbersAreOrdered ==
  ASSUME NEW sort, sort.direction = "asc", NEW line, NEW other,
         NEW v, v = Null \/ (v \in Int /\ Whole(v) # Null),
         NEW w, w = Null \/ (w \in Int /\ Whole(w) # Null), v # w,
         line[SortKey(sort)] = IF v = Null THEN Null ELSE Whole(v),
         other[SortKey(sort)] = IF w = Null THEN Null ELSE Whole(w)
  PROVE  PrecedesBy(sort, line, other) \/ PrecedesBy(sort, other, line)
<1> DEFINE a == line[SortKey(sort)]
           b == other[SortKey(sort)]
<1>1. PrecedesBy(sort, line, other) <=> Precedes(a, b, "asc")
  BY DEF PrecedesBy
<1>2. PrecedesBy(sort, other, line) <=> Precedes(b, a, "asc")
  BY DEF PrecedesBy
<1>3. CASE v = Null
  BY <1>2, <1>3 DEF Precedes
<1>4. CASE w = Null
  BY <1>1, <1>4 DEF Precedes
<1>5. CASE v # Null /\ w # Null
  <2>1. v \in Int /\ w \in Int /\ a = <<v, 1>> /\ b = <<w, 1>> /\ a # Null /\ b # Null
    BY <1>5 DEF Whole
  <2> HIDE DEF a, b
  <2>2. v < w \/ w < v
    BY <2>1
  <2>3. v < w => Less(a, b)
    BY <2>1 DEF Less
  <2>4. w < v => Less(b, a)
    BY <2>1 DEF Less
  <2> QED
    BY <1>1, <1>2, <2>1, <2>2, <2>3, <2>4 DEF Precedes
<1> QED
  BY <1>3, <1>4, <1>5

(* The first sort that tells two lines apart decides.                      *)
LEMMA FirstDecides ==
  ASSUME NEW order, IsSequence(order), NEW line, NEW other,
         \E sort \in Elements(order) :
           PrecedesBy(sort, line, other) \/ PrecedesBy(sort, other, line)
  PROVE  Before(order, line, other) \/ Before(order, other, line)
<1> DEFINE apart(i) == PrecedesBy(order[i], line, other) \/ PrecedesBy(order[i], other, line)
           T == {i \in DOMAIN order : apart(i)}
<1>1. Len(order) \in Nat /\ DOMAIN order = 1..Len(order)
  BY DEF IsSequence
<1>2. T # {} /\ T \in SUBSET Nat
  BY <1>1 DEF Elements
<1>3. PICK i \in T : \A j \in T : i <= j
  <2> HIDE DEF T
  <2> QED
    BY <1>2, LeastNatural
<1>4. i \in DOMAIN order /\ i \in Nat
  BY <1>1, <1>3
<1>5. \A j \in 1..(i - 1) : ~ apart(j)
  <2>1. \A j \in 1..(i - 1) : j \in DOMAIN order /\ ~ (i <= j)
    BY <1>1, <1>4
  <2> QED
    BY <1>3, <2>1
<1>6. apart(i)
  BY <1>3
<1> QED
  BY <1>4, <1>5, <1>6 DEF Before

(* A list of one.                                                          *)
LEMMA OnlyOne ==
  ASSUME NEW e
  PROVE  IsSequence(<<e>>) /\ Elements(<<e>>) = {e}
<1>1. DOMAIN <<e>> = 1..1 /\ <<e>>[1] = e
  OBVIOUS
<1>2. Elements(<<e>>) = {e}
  BY <1>1 DEF Elements
<1>3. <<e>> \in Seq({e})
  OBVIOUS
<1> QED
  BY <1>2, <1>3 DEF IsSequence

(* _default_sorts: what a chart is sorted by at first.                     *)
LEMMA FirstSortsAreSequence ==
  ASSUME NEW type, NEW spec, IsSpec(spec)
  PROVE  IsSequence(FirstSorts(type, spec))
<1>1. CASE spec.sort # << >>
  <2> DEFINE sorts == [i \in DOMAIN spec.sort |-> CompiledSort(spec, spec.sort[i])]
             n == Len(spec.sort)
  <2>1. FirstSorts(type, spec) = sorts
    BY <1>1 DEF FirstSorts, Map
  <2>2. n \in Nat /\ DOMAIN spec.sort = 1..n
    BY DEF IsSpec
  <2>3. sorts \in [1..n -> {sorts[i] : i \in 1..n}]
    BY <2>2
  <2> HIDE DEF sorts, n
  <2> QED
    BY <2>1, <2>2, <2>3, FunctionIsSequence
<1>2. CASE spec.sort = << >>
  <2>1. \A e : IsSequence(<<e>>)
    BY OnlyOne
  <2>2. IsSequence(<< >>)
    BY DEF IsSequence
  <2> QED
    BY <1>2, <2>1, <2>2, Zenon DEF FirstSorts
<1> QED
  BY <1>1, <1>2

SeriesSort(spec) == FieldSort(spec.series.field, None, None, "asc")

(* _stable_sorts: the dimension and the series are among the sorts.        *)
LEMMA DimensionsBreakTies ==
  ASSUME NEW type, NEW spec, IsSpec(spec), Len(spec.dimensions) = 1,
         spec.series # None \/ ByValue(type, spec),
         NEW order, order = CompiledRequest(type, spec).order
  PROVE  /\ IsSequence(order)
         /\ DimensionSort(spec.dimensions[1]) \in Elements(order)
         /\ spec.series # None => SeriesSort(spec) \in Elements(order)
<1> DEFINE sorts == FirstSorts(type, spec)
           first == <<DimensionSort(spec.dimensions[1])>>
           rest == [i \in DOMAIN SeriesOf(spec) |->
                      FieldSort(SeriesOf(spec)[i].field, None, None, "asc")]
           last == first \o rest
           tied == {sort.field : sort \in Elements(last)}
           retained == Chosen(sorts, {i \in DOMAIN sorts :
                         ~ (/\ sorts[i].kind = "field"
                            /\ sorts[i].aggregate = None
                            /\ sorts[i].field \in tied)})
<1>1. spec.dimensions # << >>
  <2>1. CASE spec.dimensions = << >>
    <3>1. Len(<< >>) = 0
      OBVIOUS
    <3> QED
      BY <2>1, <3>1
  <2> QED
    BY <2>1
<1>2. order = retained \o last
  <2>1. Map(SeriesOf(spec), LAMBDA s : FieldSort(s.field, None, None, "asc")) = rest
    BY DEF Map
  <2>2. StableSorts(type, spec, sorts) = retained \o last
    <3>1. ~ (spec.dimensions = << >> \/ (spec.series = None /\ ~ ByValue(type, spec)))
      BY <1>1
    <3> HIDE DEF sorts
    <3> QED
      BY <2>1, <3>1, Zenon DEF StableSorts
  <2>3. order = StableSorts(type, spec, sorts)
    BY DEF CompiledRequest
  <2> HIDE DEF sorts, last, retained
  <2> QED
    BY <2>2, <2>3
<1>3. IsSequence(first) /\ Elements(first) = {DimensionSort(spec.dimensions[1])}
  BY OnlyOne
<1>4. IsSequence(rest) /\ (spec.series # None => SeriesSort(spec) \in Elements(rest))
  <2>1. CASE spec.series = None
    <3>1. SeriesOf(spec) = << >>
      BY <2>1 DEF SeriesOf
    <3>2. rest = << >>
      BY <3>1
    <3> QED
      BY <2>1, <3>2 DEF IsSequence
  <2>2. CASE spec.series # None
    <3>1. SeriesOf(spec) = <<spec.series>>
      BY <2>2 DEF SeriesOf
    <3>2. DOMAIN rest = 1..1 /\ rest[1] = SeriesSort(spec)
      BY <3>1 DEF SeriesSort
    <3>3. rest \in [1..1 -> {rest[1]}]
      BY <3>1
    <3> HIDE DEF rest
    <3>4. IsSequence(rest)
      BY <3>3, FunctionIsSequence
    <3>5. SeriesSort(spec) \in Elements(rest)
      BY <3>2 DEF Elements
    <3> QED
      BY <3>4, <3>5
  <2> QED
    BY <2>1, <2>2
<1> HIDE DEF first, rest, sorts
<1>5. IsSequence(last) /\ Elements(last) = Elements(first) \cup Elements(rest)
  <2>1. IsConcatenation(first, rest, last)
    BY <1>3, <1>4, Concatenated
  <2> QED
    BY <2>1 DEF IsConcatenation
<1>6. IsSequence(retained)
  <2>1. IsSequence(sorts)
    BY FirstSortsAreSequence DEF sorts
  <2> QED
    BY <2>1, ChosenIsSequence
<1> HIDE DEF last, retained
<1>7. IsSequence(order) /\ Elements(order) = Elements(retained) \cup Elements(last)
  <2>1. IsConcatenation(retained, last, order)
    BY <1>2, <1>5, <1>6, Concatenated
  <2> QED
    BY <2>1 DEF IsConcatenation
<1> QED
  BY <1>3, <1>4, <1>5, <1>7

(* prepare_dashboard_chart_query: a chart that is drawn was not refused.   *)
LEMMA NoneRefused ==
  ASSUME NEW a, NEW b, NEW c, NEW d,
         (CASE a # "none" -> a [] b # "none" -> b [] c # "none" -> c [] OTHER -> d) = "none"
  PROVE  a = "none" /\ b = "none" /\ c = "none" /\ d = "none"
OBVIOUS

LEMMA PreparedCharts ==
  ASSUME NEW board, NEW asked,
         PrepareRefusal(board, asked, Principal, QueryDataset, QueryMoment) = "none",
         NEW spec, spec = ComponentOf(board, asked).spec,
         NEW type, type = ComponentOf(board, asked).type
  PROVE  /\ ResourceRefusal(spec, Principal, QueryDataset) = "none"
         /\ ChartRefusal(type, spec, QueryDataset) = "none"
         /\ SlotsFit(type, spec)
<1> DEFINE a == ComponentRefusal(board, asked)
           b == Refusal(ChartScopes(board, asked), QueryMoment)
           c == ResourceRefusal(spec, Principal, QueryDataset)
           d == ChartRefusal(type, spec, QueryDataset)
<1>1. (CASE a # "none" -> a [] b # "none" -> b [] c # "none" -> c [] OTHER -> d) = "none"
  BY Zenon DEF PrepareRefusal
<1> HIDE DEF a, b, c, d
<1>2. a = "none" /\ c = "none" /\ d = "none"
  BY <1>1, NoneRefused
<1>3. SlotsFit(type, spec)
  BY <1>2 DEF a, ComponentRefusal
<1> QED
  BY <1>2, <1>3 DEF c, d

(* _validate_chart: what is not refused.                                   *)
LEMMA ChartsAreAllowed ==
  ASSUME NEW type, NEW spec, ChartRefusal(type, spec, QueryDataset) = "none"
  PROVE  /\ \A d \in Elements(spec.dimensions) :
              d.grain # None => QueryDataset.fields[d.field].type \in {"date", "datetime"}
         /\ spec.top > 0 =>
              spec.dimensions # << >> /\ IsValueSort(spec, FirstSorts(type, spec)[1])
<1> DEFINE grains == \E d \in Elements(spec.dimensions) :
                       d.grain # None /\ QueryDataset.fields[d.field].type \notin {"date", "datetime"}
           none == spec.top > 0 /\ spec.dimensions = << >>
           other == spec.top > 0 /\ ~ IsValueSort(spec, FirstSorts(type, spec)[1])
           roles == ~ RolesFit(spec, QueryDataset.fields)
           unmeasured == spec.sort = << >> /\ ByValue(type, spec) /\ spec.measures = << >>
           up == spec.top > 0 /\ FirstSorts(type, spec)[1].direction # "desc"
           odd == ~ QueryIsWellFormed(CompiledRequest(type, spec))
<1>1. ChartRefusal(type, spec, QueryDataset) =
        CASE roles -> "chart_slot_invalid"
          [] grains -> "invalid_time_grain_type"
          [] unmeasured -> "chart_slot_invalid"
          [] none -> "chart_slot_invalid"
          [] other -> "top_n_requires_value_sort"
          [] up -> "top_n_requires_descending_sort"
          [] odd -> "chart_config_invalid"
          [] OTHER -> "none"
  BY Zenon DEF ChartRefusal
<1> HIDE DEF grains, none, other, roles, unmeasured, up, odd
<1>2. ~ grains /\ ~ none /\ ~ other
  BY <1>1
<1>3. \A d \in Elements(spec.dimensions) :
        d.grain # None => QueryDataset.fields[d.field].type \in {"date", "datetime"}
  BY <1>2 DEF grains
<1>4. spec.top > 0 => spec.dimensions # << >> /\ IsValueSort(spec, FirstSorts(type, spec)[1])
  BY <1>2, Zenon DEF none, other
<1> QED
  BY <1>3, <1>4

(* A chart by value with one dimension at most has one, and a measure.     *)
LEMMA ValueChartsHaveOneDimension ==
  ASSUME NEW type, NEW spec, IsSpec(spec), SlotsFit(type, spec),
         ChartRefusal(type, spec, QueryDataset) = "none",
         Len(spec.dimensions) <= 1, ByValue(type, spec)
  PROVE  Len(spec.dimensions) = 1 /\ Len(spec.measures) >= 1
<1>1. /\ Len(spec.dimensions) \in Nat /\ DOMAIN spec.dimensions = 1..Len(spec.dimensions)
      /\ Len(spec.measures) \in Nat /\ DOMAIN spec.measures = 1..Len(spec.measures)
  BY SpecLengths
<1>2. CASE type = "ranking_table"
  BY <1>2 DEF SlotsFit
<1>3. CASE spec.top > 0
  <2>1. spec.dimensions # << >> /\ IsValueSort(spec, FirstSorts(type, spec)[1])
    BY <1>3, ChartsAreAllowed
  <2>2. PICK measure \in Elements(spec.measures) : TRUE
    BY <2>1 DEF IsValueSort
  <2>3. Len(spec.measures) >= 1
    BY <1>1, <2>2 DEF Elements
  <2> DEFINE n == Len(spec.dimensions)
  <2>4. n # 0
    BY <2>1 DEF IsSpec
  <2>5. n \in Nat /\ n <= 1
    BY <1>1
  <2> HIDE DEF n
  <2>6. n = 1
    BY <2>4, <2>5
  <2> QED
    BY <2>3, <2>6 DEF n
<1> QED
  BY <1>2, <1>3 DEF ByValue

(* The sorts of a query have all that it groups by, whose values are       *)
(* numbers or NULL.                                                        *)
OrdersBy(order, s) ==
  \E sort \in Elements(order) :
    sort.kind = "field" /\ sort.direction = "asc" /\ Signature(sort) = Signature(s)
IsSortable(s) ==
  /\ s.field \in DOMAIN QueryDataset.fields
  /\ s.grain \in GrainsOf(QueryDataset.fields[s.field].type)
OrdersGroups(request) ==
  /\ IsSequence(request.order)
  /\ \A s \in Plain(request) : IsSortable(s) /\ OrdersBy(request.order, s)

IsNumber(v) == v = Null \/ (v \in Int /\ Whole(v) # Null)
Shown(v) == IF v = Null THEN Null ELSE Whole(v)

(* The values of what is grouped by.                                       *)
LEMMA ValuesAreNumbers ==
  ASSUME NEW s, IsSortable(s), NEW data \in Range(History), NEW rows \in FromClause(data)
  PROVE  IsNumber(SelectedValue(s, QueryDataset, data, rows))
<1> DEFINE type == QueryDataset.fields[s.field].type
           value == Grained(type, s.grain, Cell(data, rows, s.field))
<1>1. s.field \in DOMAIN QueryDataset.fields /\ s.grain \in GrainsOf(type)
  BY DEF IsSortable
<1>2. value = Null \/ (value \in Int /\ Whole(value) # Null)
  BY <1>1, ValuesAssumption
<1>3. SelectedValue(s, QueryDataset, data, rows) = value
  BY DEF SelectedValue
<1> HIDE DEF value
<1> QED
  BY <1>2, <1>3 DEF IsNumber

(* The line of a group has the value of its rows.                          *)
LEMMA LineOfGroup ==
  ASSUME NEW request, NEW data, NEW group, NEW s \in Plain(request),
         NEW rows, rows = CHOOSE other \in group : TRUE
  PROVE  Line(request, QueryDataset, data, group)[Signature(s)]
           = Shown(SelectedValue(s, QueryDataset, data, rows))
<1> DEFINE key == Signature(s)
           item == [field |-> key[1], aggregate |-> key[2], grain |-> key[3]]
<1>1. s \in Elements(request.selections) /\ s.aggregate = None
  BY DEF Plain
<1>2. key \in Elements(Signatures(request))
  BY <1>1 DEF Elements, Signatures, Map
<1>3. Len(key) = 3 /\ key[1] = s.field /\ key[2] = s.aggregate /\ key[3] = s.grain
  BY DEF Signature
<1>4. item.field = s.field /\ item.aggregate = None /\ item.grain = s.grain
  BY <1>1, <1>3
<1> HIDE DEF key
<1>5. Line(request, QueryDataset, data, group)[key] = FieldValue(item, QueryDataset, data, group)
  BY <1>2, <1>3 DEF Line
<1> HIDE DEF item
<1>6. SelectedValue(item, QueryDataset, data, rows) = SelectedValue(s, QueryDataset, data, rows)
  BY <1>4, Zenon DEF SelectedValue
<1>7. FieldValue(item, QueryDataset, data, group)
        = Shown(SelectedValue(item, QueryDataset, data, rows))
  <2> DEFINE v == SelectedValue(item, QueryDataset, data, CHOOSE other \in group : TRUE)
             aggregated == AggregateValue(item.aggregate, Column(data, group, item.field))
  <2>1. FieldValue(item, QueryDataset, data, group)
          = IF item.aggregate # None THEN aggregated ELSE IF v = Null THEN Null ELSE Whole(v)
    BY Zenon DEF FieldValue
  <2>2. v = SelectedValue(item, QueryDataset, data, rows)
    OBVIOUS
  <2> HIDE DEF v, aggregated
  <2> QED
    BY <1>4, <2>1, <2>2 DEF Shown
<1> QED
  BY <1>5, <1>6, <1>7 DEF key

(* No two groups are alike in the order.                                   *)
LEMMA GroupsAreOrdered ==
  ASSUME NEW request, OrdersGroups(request), NEW data \in Range(History),
         NEW readable \in SUBSET FromClause(data)
  PROVE  IsTotal(request.order, LinesIn(request, data, readable))
<1> DEFINE lines == LinesIn(request, data, readable)
           groups == PlainGroups(request, data, readable)
           class(x) == {other \in readable :
                          PlainKey(request, data, other) = PlainKey(request, data, x)}
           Of(s, rows) == SelectedValue(s, QueryDataset, data, rows)
<1>1. DOMAIN lines = groups
      /\ \A group \in groups : lines[group] = Line(request, QueryDataset, data, group)
  BY DEF LinesIn, LinesOf
<1>2. SUFFICES ASSUME NEW a \in groups, NEW b \in groups, a # b
               PROVE  \/ Before(request.order, lines[a], lines[b])
                      \/ Before(request.order, lines[b], lines[a])
  <2> HIDE DEF lines, groups
  <2> QED
    BY <1>1, <1>2 DEF IsTotal, lines
<1>3. PICK x \in readable : a = class(x)
  BY DEF PlainGroups
<1>4. PICK y \in readable : b = class(y)
  BY DEF PlainGroups
<1> DEFINE r == CHOOSE other \in a : TRUE
           q == CHOOSE other \in b : TRUE
<1>5. r \in a /\ q \in b
  <2>1. x \in a /\ y \in b
    BY <1>3, <1>4
  <2> QED
    BY <2>1
<1>6. /\ r \in readable /\ PlainKey(request, data, r) = PlainKey(request, data, x)
      /\ q \in readable /\ PlainKey(request, data, q) = PlainKey(request, data, y)
  <2> HIDE DEF r, q
  <2> QED
    BY <1>3, <1>4, <1>5
<1> HIDE DEF r, q
<1>7. PlainKey(request, data, r) # PlainKey(request, data, q)
  <2>1. SUFFICES ASSUME PlainKey(request, data, r) = PlainKey(request, data, q)
                 PROVE  FALSE
    OBVIOUS
  <2>2. PlainKey(request, data, x) = PlainKey(request, data, y)
    BY <1>6, <2>1
  <2>3. class(x) = class(y)
    BY <2>2
  <2> QED
    BY <1>2, <1>3, <1>4, <2>3
<1>8. PICK s \in Plain(request) : Of(s, r) # Of(s, q)
  <2>1. SUFFICES ASSUME \A s \in Plain(request) : Of(s, r) = Of(s, q)
                 PROVE  FALSE
    OBVIOUS
  <2> HIDE DEF Of
  <2>2. [s \in Plain(request) |-> Of(s, r)] = [s \in Plain(request) |-> Of(s, q)]
    BY <2>1
  <2> QED
    BY <1>7, <2>2 DEF PlainKey, Of
<1>9. /\ lines[a][Signature(s)] = Shown(Of(s, r))
      /\ lines[b][Signature(s)] = Shown(Of(s, q))
  <2>1. /\ Line(request, QueryDataset, data, a)[Signature(s)] = Shown(Of(s, r))
        /\ Line(request, QueryDataset, data, b)[Signature(s)] = Shown(Of(s, q))
    <3> HIDE DEF groups
    <3> QED
      BY LineOfGroup DEF r, q
  <2> HIDE DEF lines, groups, Of
  <2> QED
    BY <1>1, <2>1
<1>10. IsNumber(Of(s, r)) /\ IsNumber(Of(s, q))
  <2>1. IsSortable(s) /\ r \in FromClause(data) /\ q \in FromClause(data)
    BY <1>6 DEF OrdersGroups
  <2> QED
    BY <2>1, ValuesAreNumbers
<1>11. PICK sort \in Elements(request.order) :
         sort.kind = "field" /\ sort.direction = "asc" /\ Signature(sort) = Signature(s)
  BY DEF OrdersGroups, OrdersBy
<1>12. SortKey(sort) = Signature(s)
  BY <1>11 DEF SortKey
<1> HIDE DEF lines, Of, groups
<1>13. PrecedesBy(sort, lines[a], lines[b]) \/ PrecedesBy(sort, lines[b], lines[a])
  <2>1. sort.direction = "asc"
    BY <1>11
  <2>2. /\ Of(s, r) = Null \/ (Of(s, r) \in Int /\ Whole(Of(s, r)) # Null)
        /\ Of(s, q) = Null \/ (Of(s, q) \in Int /\ Whole(Of(s, q)) # Null)
    BY <1>10 DEF IsNumber
  <2>3. /\ lines[a][SortKey(sort)] = IF Of(s, r) = Null THEN Null ELSE Whole(Of(s, r))
        /\ lines[b][SortKey(sort)] = IF Of(s, q) = Null THEN Null ELSE Whole(Of(s, q))
    BY <1>9, <1>12 DEF Shown
  <2> QED
    BY <1>8, <2>1, <2>2, <2>3, NumbersAreOrdered
<1>14. IsSequence(request.order)
  BY DEF OrdersGroups
<1> QED
  BY <1>13, <1>14, FirstDecides

(* _resolve_resources: the fields of a chart that is not refused exist.    *)
LEMMA DrawnFieldsExist ==
  ASSUME NEW spec, IsSpec(spec), ResourceRefusal(spec, Principal, QueryDataset) = "none"
  PROVE  /\ \A item \in Elements(spec.dimensions) : item.field \in DOMAIN QueryDataset.fields
         /\ spec.series # None => spec.series.field \in DOMAIN QueryDataset.fields
<1> DEFINE drawn == Drawn(spec)
           asked == {item.field : item \in Elements(drawn)}
           a == QueryDataset.workspace # Principal.workspace \/ QueryDataset.status = "deleted"
           b == ~ HasPermission(Principal, "datasets:query")
           c == ~ (asked \cup Asked(spec, "field")) \subseteq ShownFields(QueryDataset)
           d == ~ Asked(spec, "metric") \subseteq {metric.id : metric \in ActiveMetrics(QueryDataset)}
<1>1. ResourceRefusal(spec, Principal, QueryDataset) =
        CASE a -> "dataset_not_found"
          [] b -> "dataset_query_forbidden"
          [] c -> "dataset_field_not_found"
          [] d -> "metric_not_found"
          [] OTHER -> "none"
  BY Zenon DEF ResourceRefusal
<1>2. ~ c
  <2> HIDE DEF a, b, c, d
  <2> QED
    BY <1>1
<1>3. asked \subseteq DOMAIN QueryDataset.fields
  BY <1>2 DEF ShownFields
<1>4. IsSequence(spec.dimensions)
  BY DEF IsSpec, IsSequence
<1>5. IsSequence(SeriesOf(spec))
  <2>1. CASE spec.series = None
    BY <2>1 DEF SeriesOf, IsSequence
  <2>2. CASE spec.series # None
    BY <2>2, OnlyOne DEF SeriesOf
  <2> QED
    BY <2>1, <2>2
<1>6. Elements(drawn) = Elements(spec.dimensions) \cup Elements(SeriesOf(spec))
  BY <1>4, <1>5, Concatenated DEF IsConcatenation, Drawn
<1>7. spec.series # None => spec.series \in Elements(SeriesOf(spec))
  BY OnlyOne DEF SeriesOf
<1> HIDE DEF drawn
<1> QED
  BY <1>3, <1>6, <1>7

(* A chart with a series, or by value, with one dimension sorts by all that*)
(* it groups by.                                                           *)
LEMMA ChartsOrderTheirGroups ==
  ASSUME NEW type, NEW spec, IsSpec(spec), Len(spec.dimensions) = 1, Len(spec.measures) >= 1,
         spec.series # None \/ ByValue(type, spec),
         ResourceRefusal(spec, Principal, QueryDataset) = "none",
         ChartRefusal(type, spec, QueryDataset) = "none",
         NEW request, request = CompiledRequest(type, spec)
  PROVE  /\ OrdersGroups(request)
         /\ IsSequence(request.selections)
         /\ request.metrics # << >> \/ HasAggregate(request)
         /\ request.group # << >>
<1> DEFINE dimension == spec.dimensions[1]
           first == request.selections[1]
           second == SeriesSelection(spec)
<1>1. /\ IsSequence(request.order)
      /\ DimensionSort(dimension) \in Elements(request.order)
      /\ spec.series # None => SeriesSort(spec) \in Elements(request.order)
  BY DimensionsBreakTies
<1>2. IsRequestOf(request, spec)
  BY ChartAsks
<1>3. dimension \in Elements(spec.dimensions) /\ 1 \in DOMAIN spec.dimensions
  <2>1. DOMAIN spec.dimensions = 1..Len(spec.dimensions)
    BY SpecLengths
  <2>2. 1 \in DOMAIN spec.dimensions
    BY <2>1
  <2> QED
    BY <2>2 DEF Elements
<1>4. /\ first.field = dimension.field /\ first.aggregate = None /\ first.grain = dimension.grain
  <2>1. first = OfDimensions(spec)[1]
    BY <1>2, <1>3 DEF IsRequestOf
  <2> QED
    BY <1>3, <2>1 DEF OfDimensions, Selection
<1>5. IsSortable(first)
  <2>1. dimension.field \in DOMAIN QueryDataset.fields
    BY <1>3, DrawnFieldsExist
  <2>2. dimension.grain \in Grains \cup {None}
    BY <1>3 DEF IsSpec
  <2>3. dimension.grain # None => QueryDataset.fields[dimension.field].type \in {"date", "datetime"}
    BY <1>3, ChartsAreAllowed
  <2> HIDE DEF dimension, first
  <2> QED
    BY <1>4, <2>1, <2>2, <2>3 DEF IsSortable, GrainsOf
<1>6. OrdersBy(request.order, first)
  <2> DEFINE sort == DimensionSort(dimension)
  <2>1. sort.kind = "field" /\ sort.direction = "asc"
    BY DEF DimensionSort, FieldSort
  <2>2. Signature(sort) = <<dimension.field, None, dimension.grain>>
    BY DEF DimensionSort, FieldSort, Signature
  <2>3. Signature(first) = <<dimension.field, None, dimension.grain>>
    BY <1>4 DEF Signature
  <2> HIDE DEF sort, first
  <2> QED
    BY <1>1, <2>1, <2>2, <2>3 DEF OrdersBy, sort
<1>7. CASE spec.series = None
  <2>1. GroupsBy(request, {first})
    BY <1>7, RequestWithoutSeries
  <2> HIDE DEF first
  <2>2. Plain(request) = {first}
    BY <2>1 DEF GroupsBy
  <2>3. OrdersGroups(request)
    BY <1>1, <1>5, <1>6, <2>2 DEF OrdersGroups
  <2> QED
    BY <2>1, <2>3 DEF GroupsBy
<1>8. CASE spec.series # None
  <2>1. GroupsBy(request, {first, second})
    BY <1>8, SeriesRequest
  <2>2. /\ second.field = spec.series.field /\ second.aggregate = None /\ second.grain = None
    BY DEF SeriesSelection, Selection
  <2>3. IsSortable(second)
    <3>1. spec.series.field \in DOMAIN QueryDataset.fields
      BY <1>8, DrawnFieldsExist
    <3> HIDE DEF second
    <3> QED
      BY <2>2, <3>1 DEF IsSortable, GrainsOf
  <2>4. OrdersBy(request.order, second)
    <3> DEFINE sort == SeriesSort(spec)
    <3>1. sort.kind = "field" /\ sort.direction = "asc"
      BY DEF SeriesSort, FieldSort
    <3>2. Signature(sort) = <<spec.series.field, None, None>>
      BY DEF SeriesSort, FieldSort, Signature
    <3>3. Signature(second) = <<spec.series.field, None, None>>
      BY <2>2 DEF Signature
    <3> HIDE DEF sort, second
    <3> QED
      BY <1>1, <1>8, <3>1, <3>2, <3>3 DEF OrdersBy, sort
  <2> HIDE DEF first, second
  <2>5. Plain(request) = {first, second}
    BY <2>1 DEF GroupsBy
  <2>6. OrdersGroups(request)
    BY <1>1, <1>5, <1>6, <2>3, <2>4, <2>5 DEF OrdersGroups
  <2> QED
    BY <2>1, <2>6 DEF GroupsBy
<1> QED
  BY <1>7, <1>8

(* Where the order has no ties, the answers are the same.                  *)
LEMMA AnswersAreTheSame ==
  ASSUME NEW request, NEW scopes, NEW data, NEW later, NEW readable,
         NEW one, ShowsGroups(one, request, scopes, data, later, readable),
         NEW two, ShowsGroups(two, request, scopes, data, later, readable),
         IsTotal(request.order, LinesIn(request, data, readable))
  PROVE  one = two
<1> DEFINE lines == LinesIn(request, data, readable)
<1>1. IsFiniteSet(DOMAIN lines)
  BY DEF ShowsGroups, LinesIn, LinesOf
<1> HIDE DEF lines
<1>2. PICK s \in Orders(request.order, lines) :
        one.rows = LinesShown(lines, FirstOf(s, request.limit))
  BY DEF ShowsGroups, lines
<1>3. PICK t \in Orders(request.order, lines) :
        two.rows = LinesShown(lines, FirstOf(t, request.limit))
  BY DEF ShowsGroups, lines
<1>4. s = t
  BY <1>1, OneOrder DEF lines
<1>5. one.rows = two.rows
  BY <1>2, <1>3, <1>4
<1>6. one.batches = two.batches
  BY DEF ShowsGroups
<1>7. one.truncated = two.truncated
  <2>1. one.truncated <=> two.truncated
    BY Zenon DEF ShowsGroups
  <2>2. one.truncated \in BOOLEAN /\ two.truncated \in BOOLEAN
    BY DEF ShowsGroups, IsRecord
  <2> QED
    BY <2>1, <2>2
<1>8. IsRecord(one) /\ IsRecord(two)
  BY DEF ShowsGroups
<1> QED
  BY <1>5, <1>6, <1>7, <1>8 DEF IsRecord

(* _stable_sorts: a chart with a series, or sorted by value, with one      *)
(* dimension at most has one answer, whatever order the database gives the *)
(* rows that are alike: what the chart groups by breaks the ties.          *)
THEOREM StableChartsHaveOneAnswer == Spec => []ChartsAreStable
<1>1. QInv => ChartsAreStable
  <2> DEFINE spec == Component.spec
             type == Component.type
             request == CompiledRequest(type, spec)
             scopes == ChartScopes(question.board, question.request)
             data == History[question.at["rows"]]
             later == History[question.at["batches"]]
             readable == ReadableIn(request, scopes, data)
  <2> SUFFICES ASSUME QInv, Drew, Len(spec.dimensions) <= 1,
                      spec.series # None \/ ByValue(type, spec)
               PROVE  Cardinality(answer) = 1
    BY DEF ChartsAreStable
  <2>1. /\ answer = AnswerChart(question) /\ answer # {} /\ IsSpec(spec)
        /\ PrepareRefusal(question.board, question.request, Principal, QueryDataset, QueryMoment)
             = "none"
        /\ ComponentRefusal(question.board, question.request) = "none"
    BY DrawnCharts
  <2>2. /\ ResourceRefusal(spec, Principal, QueryDataset) = "none"
        /\ ChartRefusal(type, spec, QueryDataset) = "none"
        /\ SlotsFit(type, spec)
    BY <2>1, PreparedCharts DEF Component
  <2>3. Len(spec.dimensions) = 1 /\ Len(spec.measures) >= 1
    <3>1. CASE spec.series # None
      BY <2>1, <3>1, SeriesHaveOneDimension DEF Component
    <3>2. CASE ByValue(type, spec)
      <4> HIDE DEF spec, type
      <4> QED
        BY <2>1, <2>2, <3>2, ValueChartsHaveOneDimension
    <3> QED
      BY <3>1, <3>2
  <2>4. /\ OrdersGroups(request)
        /\ IsSequence(request.selections)
        /\ request.metrics # << >> \/ HasAggregate(request)
        /\ request.group # << >>
    <3> HIDE DEF spec, type
    <3> QED
      BY <2>1, <2>2, <2>3, ChartsOrderTheirGroups
  <2>5. AreUnderstood(scopes, data)
    BY ChartsAreOfData DEF Statements
  <2>6. data \in Range(History)
    BY ChartsReadHistory DEF Statements
  <2>7. IsTotal(request.order, LinesIn(request, data, readable))
    <3>1. readable \in SUBSET FromClause(data)
      BY DEF ReadableIn
    <3> HIDE DEF readable, request, data
    <3> QED
      BY <2>4, <2>6, <3>1, GroupsAreOrdered
  <2>8. ASSUME NEW one \in answer
        PROVE  ShowsGroups(one, request, scopes, data, later, readable)
    <3>1. one \in ChartAnswers(question)
      BY <2>1, ChartsAnswerQueries
    <3>2. one \in AnswerDatasetQuery(request, scopes, data, later) /\ one.error = "none"
      BY <3>1 DEF ChartAnswers, Component
    <3> HIDE DEF request, scopes, data, later
    <3> QED
      BY <2>4, <2>5, <3>2, AnswersShowGroups
  <2> HIDE DEF request, scopes, data, later, readable
  <2>9. \A one, two \in answer : one = two
    BY <2>7, <2>8, AnswersAreTheSame
  <2>10. PICK one \in answer : answer = {one}
    BY <2>1, <2>9
  <2> QED
    BY <2>10, FS_Singleton
<1> QED
  BY <1>1, AnswersAreOfQuestions, PTL

-----------------------------------------------------------------------------
(* Recursion by rank.                                                      *)

(* What holds of each element when it holds of those of lower rank, holds  *)
(* of all.                                                                 *)
LEMMA InductionByRank ==
  ASSUME NEW D, NEW rank \in [D -> Nat], NEW g, NEW V,
         \A d \in D : (\A e \in D : rank[e] < rank[d] => g[e] \in V) => g[d] \in V
  PROVE  \A d \in D : g[d] \in V
<1> DEFINE bad == {rank[d] : d \in {e \in D : g[e] \notin V}}
<1>1. SUFFICES ASSUME bad # {} PROVE FALSE
  OBVIOUS
<1>2. PICK m \in bad : \A n \in bad : m <= n
  <2>1. bad \in SUBSET Nat
    OBVIOUS
  <2> HIDE DEF bad
  <2> QED
    BY <1>1, <2>1, LeastNatural
<1>3. PICK d \in D : g[d] \notin V /\ rank[d] = m
  BY <1>2
<1>4. ASSUME NEW e \in D, rank[e] < rank[d]
      PROVE  g[e] \in V
  <2>1. rank[e] \in Nat /\ rank[d] \in Nat
    OBVIOUS
  <2>2. g[e] \notin V => m <= rank[e]
    BY <1>2
  <2> QED
    BY <1>3, <1>4, <2>1, <2>2
<1> QED
  BY <1>3, <1>4

(* What a function turns into, turned again and again.                     *)
LEMMA Iterates ==
  ASSUME NEW S, S # {}, NEW body, body \in [S -> S]
  PROVE  \E F \in [Nat -> S] : \A n \in Nat : F[n] \in S /\ F[n + 1] = body[F[n]]
<1> DEFINE step == [n \in Nat |-> body]
<1>1. PICK start \in S : TRUE
  OBVIOUS
<1>2. step \in [Nat -> [S -> S]]
  OBVIOUS
<1>3. PICK F \in [Nat -> S] :
        F = [n \in Nat |-> IF n = 0 THEN start ELSE step[n][F[n - 1]]]
  <2> HIDE DEF step
  <2>1. start \in S
    OBVIOUS
  <2>2. HasRun(S, start, step)
    BY <1>2, <2>1, StepsRun
  <2> QED
    BY <2>2 DEF HasRun
<1>4. ASSUME NEW n \in Nat
      PROVE  F[n] \in S /\ F[n + 1] = body[F[n]]
  <2>1. n + 1 \in Nat /\ n + 1 # 0 /\ (n + 1) - 1 = n
    OBVIOUS
  <2>2. F[n + 1] = step[n + 1][F[(n + 1) - 1]]
    BY <1>3, <2>1
  <2>3. step[n + 1] = body
    BY <2>1
  <2> QED
    BY <2>1, <2>2, <2>3
<1> QED
  BY <1>4

LooksBelow(D, V, rank, body) ==
  /\ body \in [[D -> V] -> [D -> V]]
  /\ \A f, g \in [D -> V] : \A d \in D :
       (\A e \in D : rank[e] < rank[d] => f[e] = g[e]) => body[f][d] = body[g][d]

(* A definition that looks at elements of lower rank only has a solution.  *)
LEMMA RecursionByRank ==
  ASSUME NEW D, NEW V, V # {}, NEW rank \in [D -> Nat], NEW limit \in Nat,
         \A d \in D : rank[d] <= limit,
         NEW body, LooksBelow(D, V, rank, body)
  PROVE  \E f \in [D -> V] : f = body[f]
<1> DEFINE S == [D -> V]
<1>1. body \in [S -> S] /\ S # {}
  <2>1. PICK v \in V : TRUE
    OBVIOUS
  <2>2. [d \in D |-> v] \in S
    BY <2>1
  <2> QED
    BY <2>2 DEF LooksBelow
<1>2. PICK F \in [Nat -> S] : \A n \in Nat : F[n] \in S /\ F[n + 1] = body[F[n]]
  <2> HIDE DEF S
  <2> QED
    BY <1>1, Iterates
<1> DEFINE T == {n \in Nat : \A d \in D : rank[d] < n => F[n][d] = F[n + 1][d]}
<1>6. 0 \in T
  OBVIOUS
<1>7. ASSUME NEW n \in T \cap Nat
      PROVE  n + 1 \in T
  <2> SUFFICES ASSUME NEW d \in D, rank[d] < n + 1
               PROVE  F[n + 1][d] = F[(n + 1) + 1][d]
    OBVIOUS
  <2>1. \A e \in D : rank[e] < rank[d] => F[n][e] = F[n + 1][e]
    BY <1>7
  <2>2. F[n] \in S /\ F[n + 1] \in S /\ F[n + 1] = body[F[n]] /\ F[(n + 1) + 1] = body[F[n + 1]]
    BY <1>2
  <2>3. body[F[n]][d] = body[F[n + 1]][d]
    BY <2>1, <2>2 DEF LooksBelow
  <2> QED
    BY <2>2, <2>3
<1>8. limit + 1 \in T
  <2> HIDE DEF T
  <2>1. limit + 1 \in Nat /\ limit + 1 \in 0..(limit + 1)
    OBVIOUS
  <2> QED
    BY <1>6, <1>7, <2>1, Reaches
<1>9. \A d \in D : F[limit + 1][d] = F[(limit + 1) + 1][d]
  BY <1>8
<1>10. F[limit + 1] \in S /\ F[(limit + 1) + 1] \in S /\ F[(limit + 1) + 1] = body[F[limit + 1]]
  BY <1>2
<1>11. F[limit + 1] = F[(limit + 1) + 1]
  BY <1>9, <1>10
<1> QED
  BY <1>10, <1>11

-----------------------------------------------------------------------------
(* The sums of a column.                                                   *)
SumOf(column, rows) == MapThenSumSet(LAMBDA row : column[row], rows)

LEMMA SumsAreIntegers ==
  ASSUME NEW present, IsFiniteSet(present), NEW column,
         \A row \in present : column[row] \in Int
  PROVE  SumOf(column, present) \in Int
<1> DEFINE D == SUBSET present
           one(s) == CHOOSE x \in s : TRUE
           rank == [s \in D |-> Cardinality(s)]
           IsSum(f) == f = [s \in D |-> IF s = {} THEN 0 ELSE column[one(s)] + f[s \ {one(s)}]]
           sum == CHOOSE f : IsSum(f)
<1>1. SumOf(column, present) = sum[present]
  BY DEF SumOf, MapThenSumSet, MapThenFoldSet
<1>2. /\ rank \in [D -> Nat] /\ Cardinality(present) \in Nat
      /\ \A s \in D : rank[s] <= Cardinality(present)
      /\ \A s \in D : s # {} =>
           one(s) \in s /\ s \ {one(s)} \in D /\ rank[s \ {one(s)}] < rank[s]
  <2>1. ASSUME NEW s \in D
        PROVE  IsFiniteSet(s) /\ Cardinality(s) \in Nat /\ Cardinality(s) <= Cardinality(present)
    BY FS_Subset, FS_CardinalityType
  <2>2. ASSUME NEW s \in D, s # {}
        PROVE  one(s) \in s /\ s \ {one(s)} \in D /\ rank[s \ {one(s)}] < rank[s]
    <3>1. one(s) \in s
      BY <2>2
    <3>2. s \ {one(s)} \in D
      OBVIOUS
    <3> HIDE DEF one
    <3>3. Cardinality(s \ {one(s)}) = Cardinality(s) - 1
      BY <2>1, <3>1, FS_RemoveElement
    <3> QED
      BY <2>1, <3>1, <3>2, <3>3
  <2> HIDE DEF one
  <2> QED
    BY <2>1, <2>2, FS_CardinalityType
<1> HIDE DEF rank, one
<1>3. \E f : IsSum(f)
  <2> DEFINE body == [f \in [D -> Int] |->
                        [s \in D |-> IF s = {} THEN 0 ELSE column[one(s)] + f[s \ {one(s)}]]]
  <2>1. body \in [[D -> Int] -> [D -> Int]]
    BY <1>2
  <2>2. LooksBelow(D, Int, rank, body)
    BY <1>2, <2>1 DEF LooksBelow
  <2>3. \A f \in [D -> Int] : body[f] = [s \in D |-> IF s = {} THEN 0 ELSE column[one(s)] + f[s \ {one(s)}]]
    OBVIOUS
  <2> HIDE DEF body, D
  <2>4. \E f \in [D -> Int] : f = body[f]
    <3> DEFINE V == Int
    <3>1. V # {}
      OBVIOUS
    <3> HIDE DEF V
    <3>3. \E f \in [D -> V] : f = body[f]
      <4> DEFINE limit == Cardinality(present)
      <4>1. LooksBelow(D, V, rank, body)
        BY <2>2 DEF V
      <4>2. limit \in Nat /\ \A d \in D : rank[d] <= limit
        BY <1>2
      <4>3. rank \in [D -> Nat]
        BY <1>2
      <4> HIDE DEF limit
      <4> QED
        BY <3>1, <4>1, <4>2, <4>3, RecursionByRank
    <3> QED
      BY <3>3 DEF V
  <2>5. PICK f \in [D -> Int] : f = body[f]
    BY <2>4
  <2>6. IsSum(f)
    BY <2>3, <2>5
  <2> HIDE DEF IsSum
  <2> QED
    BY <2>6
<1>4. IsSum(sum)
  BY <1>3
<1> HIDE DEF sum
<1>5. \A d \in D : (\A e \in D : rank[e] < rank[d] => sum[e] \in Int) => sum[d] \in Int
  <2> SUFFICES ASSUME NEW d \in D, \A e \in D : rank[e] < rank[d] => sum[e] \in Int
               PROVE  sum[d] \in Int
    OBVIOUS
  <2>1. sum[d] = IF d = {} THEN 0 ELSE column[one(d)] + sum[d \ {one(d)}]
    BY <1>4
  <2> QED
    BY <1>2, <2>1
<1> HIDE DEF D, IsSum
<1>6. \A d \in D : sum[d] \in Int
  <2> DEFINE V == Int
  <2>1. \A d \in D : (\A e \in D : rank[e] < rank[d] => sum[e] \in V) => sum[d] \in V
    BY <1>5
  <2> HIDE DEF V
  <2>2. \A d \in D : sum[d] \in V
    BY <1>2, <2>1, InductionByRank
  <2> QED
    BY <2>2 DEF V
<1>7. present \in D
  BY DEF D
<1> QED
  BY <1>1, <1>6, <1>7

-----------------------------------------------------------------------------
(* Trees.                                                                  *)
IsLevels(root, f, n) ==
  /\ f = [k \in 0..n |-> f[k]]
  /\ f[0] = {root}
  /\ \A k \in 1..n : f[k] = UNION {Operands(node) : node \in f[k - 1]}

(* The levels of a tree exist up to any depth,                             *)
LEMMA LevelsExist ==
  ASSUME NEW root, NEW n \in Nat
  PROVE  \E f : IsLevels(root, f, n)
<1> DEFINE T == {k \in Nat : \E f : IsLevels(root, f, k)}
<1>1. 0 \in T
  <2>1. IsLevels(root, [k \in 0..0 |-> {root}], 0)
    BY DEF IsLevels
  <2> QED
    BY <2>1
<1>2. ASSUME NEW k \in T \cap Nat
      PROVE  k + 1 \in T
  <2>1. PICK f : IsLevels(root, f, k)
    BY <1>2
  <2> DEFINE next == UNION {Operands(node) : node \in f[k]}
             g == [j \in 0..(k + 1) |-> IF j = k + 1 THEN next ELSE f[j]]
  <2>2. g = [j \in 0..(k + 1) |-> g[j]] /\ g[0] = {root}
    BY <2>1 DEF IsLevels
  <2>3. ASSUME NEW j \in 1..(k + 1)
        PROVE  g[j] = UNION {Operands(node) : node \in g[j - 1]}
    <3>1. CASE j = k + 1
      <4>1. g[j] = next /\ g[j - 1] = f[k]
        BY <3>1
      <4> QED
        BY <4>1
    <3>2. CASE j # k + 1
      <4>1. j \in 1..k /\ g[j] = f[j] /\ g[j - 1] = f[j - 1]
        BY <3>2
      <4>2. f[j] = UNION {Operands(node) : node \in f[j - 1]}
        BY <2>1, <4>1 DEF IsLevels
      <4> QED
        BY <4>1, <4>2
    <3> QED
      BY <3>1, <3>2
  <2> HIDE DEF g
  <2>4. IsLevels(root, g, k + 1)
    BY <2>2, <2>3 DEF IsLevels
  <2> QED
    BY <2>4
<1> HIDE DEF T
<1>3. n \in T
  BY <1>1, <1>2, Reaches
<1> QED
  BY <1>3 DEF T

(* and they are the same, however deep they are taken.                     *)
LEMMA LevelsAgree ==
  ASSUME NEW root, NEW m \in Nat, NEW n \in Nat, m <= n,
         NEW f, IsLevels(root, f, m), NEW g, IsLevels(root, g, n)
  PROVE  f[m] = g[m]
<1> DEFINE T == {k \in Nat : k <= m => f[k] = g[k]}
<1>1. 0 \in T
  BY DEF IsLevels
<1>2. ASSUME NEW k \in T \cap Nat, k < m
      PROVE  k + 1 \in T
  <2>1. k + 1 \in 1..m /\ k + 1 \in 1..n /\ (k + 1) - 1 = k
    BY <1>2
  <2>2. f[k + 1] = UNION {Operands(node) : node \in f[k]}
    BY <2>1, IsLevels(root, f, m) DEF IsLevels
  <2>3. g[k + 1] = UNION {Operands(node) : node \in g[k]}
    BY <2>1, IsLevels(root, g, n) DEF IsLevels
  <2>4. f[k] = g[k]
    BY <1>2
  <2>5. f[k + 1] = g[k + 1]
    BY <2>2, <2>3, <2>4
  <2> QED
    BY <2>5
<1> HIDE DEF T
<1>3. m \in T
  BY <1>1, <1>2, Reaches
<1> QED
  BY <1>3 DEF T

(* A level has the operands of the one above.                              *)
LEMMA LevelIs ==
  ASSUME NEW root
  PROVE  /\ Level(root, 0) = {root}
         /\ \A n \in Nat : Level(root, n + 1) = UNION {Operands(node) : node \in Level(root, n)}
<1> DEFINE run(n) == CHOOSE f : IsLevels(root, f, n)
           F == [n \in Nat |-> run(n)[n]]
           IsAll(f) == f = [i \in Nat |-> IF i = 0 THEN {root}
                                          ELSE UNION {Operands(node) : node \in f[i - 1]}]
           level == CHOOSE f : IsAll(f)
<1>1. \A n \in Nat : IsLevels(root, run(n), n)
  BY LevelsExist
<1> HIDE DEF run
<1>2. F[0] = {root}
  BY <1>1 DEF IsLevels
<1>3. ASSUME NEW n \in Nat, n # 0
      PROVE  F[n] = UNION {Operands(node) : node \in F[n - 1]}
  <2>1. n - 1 \in Nat /\ n \in 1..n /\ n - 1 \in 0..n /\ n - 1 <= n
    BY <1>3
  <2>2. run(n)[n] = UNION {Operands(node) : node \in run(n)[n - 1]}
    BY <1>1, <2>1 DEF IsLevels
  <2>3. IsLevels(root, run(n), n) /\ IsLevels(root, run(n - 1), n - 1)
    BY <1>1, <2>1
  <2> HIDE DEF F
  <2>6. run(n - 1)[n - 1] = run(n)[n - 1]
    BY <2>1, <2>3, LevelsAgree
  <2> QED
    BY <2>1, <2>2, <2>6 DEF F
<1>4. IsAll(F)
  BY <1>2, <1>3
<1>5. IsAll(level)
  <2> HIDE DEF F, IsAll
  <2> QED
    BY <1>4
<1>6. \A n : Level(root, n) = level[n]
  BY DEF Level
<1> HIDE DEF level
<1>7. level[0] = {root}
  BY <1>5
<1>8. ASSUME NEW n \in Nat
      PROVE  level[n + 1] = UNION {Operands(node) : node \in level[n]}
  <2>1. n + 1 \in Nat /\ n + 1 # 0 /\ (n + 1) - 1 = n
    OBVIOUS
  <2>2. level[n + 1] = UNION {Operands(node) : node \in level[(n + 1) - 1]}
    BY <1>5, <2>1
  <2> QED
    BY <2>1, <2>2
<1> QED
  BY <1>6, <1>7, <1>8

HasRank(D, limit, rank) ==
  /\ rank \in [D -> Nat]
  /\ \A d \in D : rank[d] <= limit
  /\ \A d \in D : Operands(d) \subseteq D /\ \A e \in Operands(d) : rank[e] < rank[d]

(* The parts of a tree that is not too deep are ranked by their levels.    *)
LEMMA PartsHaveRank ==
  ASSUME NEW root, NEW depth \in Nat, IsWithin(root, depth)
  PROVE  /\ root \in Parts(root, depth)
         /\ \E rank : HasRank(Parts(root, depth), depth, rank)
<1> DEFINE D == Parts(root, depth)
           In(d, k) == k \in 0..depth /\ d \in Level(root, depth - k)
           IsRank(d, k) == In(d, k) /\ \A j : In(d, j) => k <= j
           rank == [d \in D |-> CHOOSE k \in Nat : IsRank(d, k)]
<1>1. /\ Level(root, 0) = {root}
      /\ \A n \in Nat : Level(root, n + 1) = UNION {Operands(node) : node \in Level(root, n)}
  BY LevelIs
<1>2. Level(root, depth) = {}
  BY DEF IsWithin
<1>3. depth # 0
  BY <1>1, <1>2
<1>4. root \in D
  BY <1>1, <1>3 DEF Parts
<1>5. \A d : d \in D <=> \E k : In(d, k)
  <2>1. ASSUME NEW d \in D
        PROVE  \E k : In(d, k)
    <3>1. PICK n \in 0..(depth - 1) : d \in Level(root, n)
      BY DEF Parts
    <3>2. depth - n \in 0..depth /\ depth - (depth - n) = n
      BY <3>1
    <3> QED
      BY <3>1, <3>2
  <2>2. ASSUME NEW d, NEW k, In(d, k)
        PROVE  d \in D
    <3>1. k # 0
      BY <1>2, <2>2
    <3>2. depth - k \in 0..(depth - 1)
      BY <2>2, <3>1
    <3> QED
      BY <2>2, <3>2 DEF Parts
  <2> QED
    BY <2>1, <2>2
<1>6. ASSUME NEW d \in D
      PROVE  \E k \in Nat : IsRank(d, k)
  <2> DEFINE ks == {k \in Nat : In(d, k)}
  <2>1. ks # {} /\ ks \in SUBSET Nat
    BY <1>5
  <2> HIDE DEF ks
  <2>2. PICK m \in ks : \A n \in ks : m <= n
    BY <2>1, LeastNatural
  <2>3. IsRank(d, m) /\ m \in Nat
    BY <2>1, <2>2 DEF ks
  <2> QED
    BY <2>3
<1>7. \A d \in D : rank[d] \in Nat /\ IsRank(d, rank[d])
  <2> HIDE DEF IsRank
  <2> QED
    BY <1>6
<1>8. ASSUME NEW d \in D, NEW e \in Operands(d)
      PROVE  e \in D /\ rank[e] < rank[d]
  <2> DEFINE k == rank[d]
  <2>1. k \in Nat /\ In(d, k)
    BY <1>7
  <2> HIDE DEF k
  <2>2. k # 0
    BY <1>2, <2>1
  <2>3. depth - (k - 1) = (depth - k) + 1 /\ depth - k \in Nat /\ k - 1 \in 0..depth
    BY <2>1, <2>2
  <2>4. e \in Level(root, (depth - k) + 1)
    BY <1>1, <2>1, <2>3
  <2>5. In(e, k - 1)
    BY <2>3, <2>4
  <2>6. e \in D
    BY <1>5, <2>5
  <2>7. rank[e] <= k - 1 /\ rank[e] \in Nat
    BY <1>7, <2>5, <2>6
  <2> QED
    BY <2>1, <2>6, <2>7 DEF k
<1>9. rank = [d \in D |-> rank[d]]
  OBVIOUS
<1>10. HasRank(D, depth, rank)
  <2>1. \A d \in D : rank[d] <= depth
    BY <1>7
  <2> HIDE DEF D, rank
  <2> QED
    BY <1>7, <1>8, <1>9, <2>1 DEF HasRank
<1> QED
  BY <1>4, <1>10

-----------------------------------------------------------------------------
(* Fractions.                                                              *)

(* Numbers below a limit have a greatest.                                  *)
LEMMA GreatestNatural ==
  ASSUME NEW limit \in Nat, NEW T \in SUBSET (1..limit), T # {}
  PROVE  Max(T) \in T /\ \A n \in T : n <= Max(T)
<1> DEFINE U == {limit - n : n \in T}
<1>1. U # {} /\ U \in SUBSET Nat
  <2>1. \A n \in T : n \in 1..limit /\ limit - n \in Nat
    OBVIOUS
  <2>2. U # {}
    OBVIOUS
  <2> QED
    BY <2>1, <2>2
<1> HIDE DEF U
<1>2. PICK m \in U : \A n \in U : m <= n
  BY <1>1, LeastNatural
<1>3. limit - m \in T /\ \A n \in T : limit - m >= n
  BY <1>2 DEF U
<1> QED
  BY <1>3 DEF Max

(* What a number is divided by that divides it.                            *)
LEMMA Divides ==
  ASSUME NEW n \in Int, NEW d \in Nat, d # 0, n % d = 0
  PROVE  n \div d \in Int /\ n = d * (n \div d)
OBVIOUS

LEMMA DivideOf ==
  ASSUME NEW q \in Int, NEW d \in Nat, d # 0
  PROVE  (d * q) \div d = q
OBVIOUS

LEMMA FractionIsOne ==
  ASSUME NEW n \in Int, NEW d \in Int, d # 0
  PROVE  IsFraction(Fraction(n, d))
<1> DEFINE divisors == {g \in 1..Abs(d) : n % g = 0 /\ Abs(d) % g = 0}
           common == Max(divisors)
           sign == IF d < 0 THEN -1 ELSE 1
           top == (sign * n) \div common
           bottom == Abs(d) \div common
<1>1. Abs(d) \in Nat /\ Abs(d) # 0 /\ sign \in {-1, 1}
  BY DEF Abs
<1>2. 1 \in divisors /\ divisors \subseteq 1..Abs(d)
  BY <1>1
<1>3. common \in divisors /\ \A g \in divisors : g <= common
  <2> HIDE DEF divisors
  <2> QED
    BY <1>1, <1>2, GreatestNatural
<1>4. common \in Nat /\ common # 0 /\ n % common = 0 /\ Abs(d) % common = 0
  BY <1>1, <1>3
<1>5. Fraction(n, d) = <<top, bottom>>
  BY DEF Fraction
<1>6. n = 0 => common = Abs(d)
  <2> SUFFICES ASSUME n = 0 PROVE common = Abs(d)
    OBVIOUS
  <2>1. Abs(d) % Abs(d) = 0 /\ 0 % Abs(d) = 0
    BY <1>1
  <2>2. Abs(d) \in divisors
    BY <1>1, <2>1
  <2> HIDE DEF divisors
  <2>3. Abs(d) <= common
    BY <1>3, <2>2
  <2>4. common \in 1..Abs(d)
    BY <1>3 DEF divisors
  <2> HIDE DEF common
  <2> QED
    BY <1>1, <2>3, <2>4
<1> HIDE DEF common, divisors
<1> DEFINE q == n \div common
           r == Abs(d) \div common
<1>7. q \in Int /\ n = common * q
  BY <1>4, Divides
<1>8. r \in Int /\ Abs(d) = common * r
  BY <1>1, <1>4, Divides
<1> HIDE DEF q
<1>9. sign * n = common * (sign * q) /\ sign * q \in Int
  BY <1>1, <1>4, <1>7
<1>10. top = sign * q
  BY <1>4, <1>9, DivideOf
<1>11. bottom = r
  OBVIOUS
<1> HIDE DEF r, bottom, top, sign
<1>12. r \in Nat /\ r # 0
  BY <1>1, <1>4, <1>8
<1>13. top \in Int
  BY <1>9, <1>10
<1>14. top = 0 => bottom = 1
  <2> SUFFICES ASSUME top = 0 PROVE bottom = 1
    OBVIOUS
  <2>1. q = 0
    BY <1>1, <1>7, <1>10 DEF sign
  <2>2. n = 0
    BY <1>4, <1>7, <2>1
  <2>3. Abs(d) = Abs(d) * r
    BY <1>6, <1>8, <2>2
  <2>4. r = 1
    BY <1>1, <1>12, <2>3
  <2> QED
    BY <1>11, <2>4
<1> QED
  BY <1>5, <1>11, <1>12, <1>13, <1>14 DEF IsFraction

IsValue(v) == v = Null \/ IsFraction(v)

LEMMA ProductIsNotZero ==
  ASSUME NEW x \in Int, NEW y \in Int, x # 0, y # 0
  PROVE  x * y \in Int /\ x * y # 0
OBVIOUS

LEMMA WholeIsOne ==
  ASSUME NEW n \in Int
  PROVE  IsFraction(Whole(n))
BY DEF IsFraction, Whole

LEMMA CombinedIsOne ==
  ASSUME NEW op \in {"add", "subtract", "multiply"}, NEW a, NEW b,
         IsFraction(a), IsFraction(b)
  PROVE  IsFraction(Combined(op, a, b))
<1>1. a[1] \in Int /\ a[2] \in Int /\ a[2] # 0 /\ b[1] \in Int /\ b[2] \in Int /\ b[2] # 0
  BY DEF IsFraction
<1>2. a[2] * b[2] \in Int /\ a[2] * b[2] # 0
  BY <1>1, ProductIsNotZero
<1>3. /\ a[1] * b[2] + b[1] * a[2] \in Int
      /\ a[1] * b[2] - b[1] * a[2] \in Int
      /\ a[1] * b[1] \in Int
  BY <1>1
<1>4. /\ IsFraction(Fraction(a[1] * b[2] + b[1] * a[2], a[2] * b[2]))
      /\ IsFraction(Fraction(a[1] * b[2] - b[1] * a[2], a[2] * b[2]))
      /\ IsFraction(Fraction(a[1] * b[1], a[2] * b[2]))
  BY <1>2, <1>3, FractionIsOne
<1> QED
  BY <1>4 DEF Combined

(* Only zero has the numerator of zero, so that what is not Zero divides.  *)
LEMMA OverIsOne ==
  ASSUME NEW a, NEW b, IsFraction(a), IsFraction(b), b # Zero
  PROVE  IsFraction(Over(a, b))
<1>1. a[1] \in Int /\ a[2] \in Int /\ a[2] # 0 /\ b[1] \in Int /\ b[2] \in Int /\ b[2] # 0
  BY DEF IsFraction
<1>2. b[1] # 0
  BY DEF IsFraction, Zero, Whole
<1>3. a[1] * b[2] \in Int
  BY <1>1
<1>4. a[2] * b[1] \in Int /\ a[2] * b[1] # 0
  BY <1>1, <1>2, ProductIsNotZero
<1>5. IsFraction(Fraction(a[1] * b[2], a[2] * b[1]))
  BY <1>3, <1>4, FractionIsOne
<1> QED
  BY <1>5 DEF Over

LEMMA NoError ==
  ASSUME NEW v, IsValue(v)
  PROVE  v # DivisionByZero
BY MetricsAssumption DEF IsValue, IsFraction, DivisionByZero

LEMMA ComputedIsOne ==
  ASSUME NEW op, NEW a, NEW b, IsValue(a), IsValue(b),
         \/ op \in {"add", "subtract", "multiply"}
         \/ op = "divide" /\ b # Zero
  PROVE  IsValue(Computed(op, a, b))
<1>1. DivisionByZero \notin {a, b}
  BY NoError
<1>2. CASE Null \in {a, b}
  BY <1>1, <1>2 DEF Computed, IsValue
<1>3. CASE Null \notin {a, b}
  <2>1. IsFraction(a) /\ IsFraction(b) /\ Computed(op, a, b) = Combined(op, a, b)
    BY <1>1, <1>3 DEF IsValue, Computed
  <2>2. IsFraction(Combined(op, a, b))
    <3>1. CASE op \in {"add", "subtract", "multiply"}
      BY <2>1, <3>1, CombinedIsOne
    <3>2. CASE op = "divide" /\ b # Zero
      <4>1. Combined(op, a, b) = Over(a, b)
        BY <3>2 DEF Combined
      <4> QED
        BY <2>1, <3>2, <4>1, OverIsOne
    <3> QED
      BY <3>1, <3>2
  <2> QED
    BY <2>1, <2>2 DEF IsValue
<1> QED
  BY <1>2, <1>3

(* A finite set of integers that is not empty has bounds in it.            *)
HasBounds(S) ==
  \E low \in S, high \in S : \A x \in S : low <= x /\ x <= high

LEMMA IntegersHaveBounds ==
  ASSUME NEW S \in SUBSET Int, IsFiniteSet(S), S # {}
  PROVE  HasBounds(S)
<1> DEFINE D == SUBSET S
           V == {TRUE}
           g == [s \in D |-> s = {} \/ HasBounds(s)]
           rank == [s \in D |-> Cardinality(s)]
<1>1. ASSUME NEW s \in D
      PROVE  IsFiniteSet(s) /\ Cardinality(s) \in Nat
  BY FS_Subset, FS_CardinalityType
<1>2. rank \in [D -> Nat]
  BY <1>1
<1>3. ASSUME NEW s \in D, \A t \in D : rank[t] < rank[s] => g[t] \in V
      PROVE  g[s] \in V
  <2>1. SUFFICES ASSUME s # {} PROVE HasBounds(s)
    OBVIOUS
  <2>2. PICK x \in s : x \in Int
    BY <2>1
  <2> DEFINE t == s \ {x}
  <2>3. t \in D
    OBVIOUS
  <2>4. Cardinality(t) = Cardinality(s) - 1
    BY <1>1, <2>2, FS_RemoveElement
  <2>5. rank[t] < rank[s]
    BY <1>1, <2>3, <2>4
  <2>6. t = {} \/ HasBounds(t)
    BY <1>3, <2>3, <2>5
  <2>7. CASE t = {}
    <3>1. \A y \in s : y = x
      BY <2>7
    <3> QED
      BY <2>2, <3>1 DEF HasBounds
  <2>8. CASE HasBounds(t)
    <3>1. PICK low \in t, high \in t : \A y \in t : low <= y /\ y <= high
      BY <2>8 DEF HasBounds
    <3> DEFINE l == IF x < low THEN x ELSE low
               h == IF high < x THEN x ELSE high
    <3>2. l \in s /\ h \in s
      BY <2>2, <3>1
    <3>3. \A y \in s : y \in Int /\ (y = x \/ y \in t)
      OBVIOUS
    <3>4. low \in Int /\ high \in Int
      OBVIOUS
    <3>5. \A y \in s : l <= y /\ y <= h
      BY <2>2, <3>1, <3>3, <3>4
    <3> QED
      BY <3>2, <3>5 DEF HasBounds
  <2> QED
    BY <2>6, <2>7, <2>8
<1>4. S \in D
  OBVIOUS
<1> HIDE DEF D, V, g, rank
<1>5. g[S] \in V
  BY <1>2, <1>3, <1>4, InductionByRank
<1> QED
  BY <1>4, <1>5 DEF g, V

LEMMA AggregateIsOne ==
  ASSUME NEW function \in Functions, NEW column, IsFiniteSet(DOMAIN column),
         function \in {"sum", "avg", "min", "max"} =>
           \A row \in DOMAIN column : column[row] # Null => column[row] \in Int
  PROVE  LET value == AggregateValue(function, column)
         IN /\ IsValue(value)
            /\ function # "avg" => value = Null \/ value[2] = 1
<1> DEFINE present == {row \in DOMAIN column : column[row] # Null}
           values == {column[row] : row \in present}
           sum == SumOf(column, present)
           value == AggregateValue(function, column)
<1>1. IsFiniteSet(present) /\ Cardinality(present) \in Nat
  BY FS_Subset, FS_CardinalityType
<1>2. IsFiniteSet(values) /\ Cardinality(values) \in Nat
  <2> DEFINE f == [row \in present |-> column[row]]
  <2>1. values = {f[row] : row \in present}
    OBVIOUS
  <2>2. DOMAIN f = present
    OBVIOUS
  <2> HIDE DEF present, f
  <2>3. IsFiniteSet({f[row] : row \in present})
    BY <1>1, <2>2, ImageIsFinite
  <2>4. IsFiniteSet(values)
    BY <2>1, <2>3
  <2> QED
    BY <2>4, FS_CardinalityType
<1>3. \A n \in Int : IsValue(Whole(n)) /\ Whole(n)[2] = 1
  BY WholeIsOne DEF IsValue, Whole
<1>4. CASE function = "count"
  <2>1. value = Whole(Cardinality(present))
    BY <1>4 DEF AggregateValue
  <2> HIDE DEF value, present
  <2> QED
    BY <1>1, <1>3, <2>1 DEF value
<1>5. CASE function = "count_distinct"
  <2>1. value = Whole(Cardinality(values))
    BY <1>5 DEF AggregateValue
  <2> HIDE DEF value, values
  <2> QED
    BY <1>2, <1>3, <2>1 DEF value
<1>6. CASE function \notin {"count", "count_distinct"} /\ present = {}
  <2>1. value = Null
    BY <1>6 DEF AggregateValue
  <2> QED
    BY <2>1 DEF IsValue
<1>7. CASE function \in {"sum", "avg", "min", "max"} /\ present # {}
  <2>1. \A row \in present : column[row] \in Int
    BY <1>7
  <2>2. sum \in Int
    <3> HIDE DEF present
    <3> QED
      BY <1>1, <2>1, SumsAreIntegers
  <2>3. Cardinality(present) # 0
    <3> HIDE DEF present
    <3> QED
      BY <1>1, <1>7, FS_EmptySet
  <2>4. values \in SUBSET Int /\ values # {}
    BY <1>7, <2>1
  <2>5. Min(values) \in Int /\ Max(values) \in Int
    <3> HIDE DEF values
    <3>1. PICK low \in values, high \in values : \A x \in values : low <= x /\ x <= high
      BY <1>2, <2>4, IntegersHaveBounds DEF HasBounds
    <3>2. \A x \in values : x \in Int
      BY <2>4
    <3>3. Min(values) \in values
      BY <3>1, <3>2 DEF Min
    <3>4. Max(values) \in values
      BY <3>1, <3>2 DEF Max
    <3> QED
      BY <3>2, <3>3, <3>4
  <2>6. CASE function = "sum"
    <3>1. value = Whole(sum)
      BY <1>7, <2>6 DEF AggregateValue, SumOf
    <3> HIDE DEF value, sum
    <3> QED
      BY <1>3, <2>2, <3>1 DEF value
  <2>7. CASE function = "avg"
    <3>1. value = Fraction(sum, Cardinality(present))
      BY <1>7, <2>7 DEF AggregateValue, SumOf
    <3> HIDE DEF value, sum, present
    <3>2. IsFraction(value)
      BY <1>1, <2>2, <2>3, <3>1, FractionIsOne
    <3>3. IsValue(value)
      BY <3>2 DEF IsValue
    <3> QED
      BY <2>7, <3>3 DEF value
  <2>8. CASE function = "min"
    <3>1. value = Whole(Min(values))
      BY <1>7, <2>8 DEF AggregateValue
    <3> HIDE DEF value, values
    <3> QED
      BY <1>3, <2>5, <3>1 DEF value
  <2>9. CASE function = "max"
    <3>1. value = Whole(Max(values))
      BY <1>7, <2>9 DEF AggregateValue
    <3> HIDE DEF value, values
    <3> QED
      BY <1>3, <2>5, <3>1 DEF value
  <2> QED
    BY <1>7, <2>6, <2>7, <2>8, <2>9
<1> QED
  BY <1>4, <1>5, <1>6, <1>7 DEF Functions

-----------------------------------------------------------------------------
(* What a part of a formula is worth, given what the parts below it are.   *)
PartValue(part, value, group) ==
  CASE part.op = "aggregate" -> AggregateValue(part.function, group[part.field])
    [] part.op = "literal" -> part.value
    [] part.op = "safe_divide" ->
         IF value[part.right] \in {Null, Zero} THEN part.fallback
         ELSE Computed("divide", value[part.left], value[part.right])
    [] OTHER -> Computed(part.op, value[part.left], value[part.right])

AggregatesAre(f, group) ==
  \A part \in FormulaParts(f) :
    part.op = "aggregate" =>
      LET value == AggregateValue(part.function, group[part.field])
      IN IsValue(value) /\ (part.function # "avg" => value = Null \/ value[2] = 1)

LEMMA ValidAggregates ==
  ASSUME NEW f, IsFormula(f), NEW declared, MetricIsValid(f, {}, declared),
         NEW group, IsGroup(group, declared)
  PROVE  AggregatesAre(f, group)
<1> SUFFICES ASSUME NEW part \in FormulaParts(f), part.op = "aggregate"
             PROVE  LET value == AggregateValue(part.function, group[part.field])
                    IN IsValue(value) /\ (part.function # "avg" => value = Null \/ value[2] = 1)
  BY DEF AggregatesAre
<1> DEFINE column == group[part.field]
<1>1. part.function \in Functions
  BY DEF IsFormula
<1>2. part \in Aggregates(f)
  BY DEF Aggregates
<1>3. part.field \in DOMAIN declared
  BY <1>2 DEF MetricIsValid, FormulaFields
<1>4. part.function \in {"sum", "avg", "min", "max"} => IsNumeric(declared[part.field].type)
  BY <1>2 DEF MetricIsValid
<1>5. /\ IsFiniteSet(DOMAIN column)
      /\ IsNumeric(declared[part.field].type) =>
           \A row \in DOMAIN column : column[row] # Null => column[row] \in Int
  BY <1>3 DEF IsGroup
<1> HIDE DEF column
<1>6. part.function \in {"sum", "avg", "min", "max"} =>
        \A row \in DOMAIN column : column[row] # Null => column[row] \in Int
  BY <1>4, <1>5
<1>7. /\ IsValue(AggregateValue(part.function, column))
      /\ part.function # "avg" => \/ AggregateValue(part.function, column) = Null
                                  \/ AggregateValue(part.function, column)[2] = 1
  <2> DEFINE function == part.function
  <2>1. function \in Functions /\ (function \in {"sum", "avg", "min", "max"} =>
          \A row \in DOMAIN column : column[row] # Null => column[row] \in Int)
    BY <1>1, <1>6
  <2> HIDE DEF function
  <2>2. /\ IsValue(AggregateValue(function, column))
        /\ function # "avg" => \/ AggregateValue(function, column) = Null
                               \/ AggregateValue(function, column)[2] = 1
    BY <1>5, <2>1, AggregateIsOne
  <2> QED
    BY <2>2 DEF function
<1> QED
  BY <1>7 DEF column

(* A formula has operands where it computes, and no others.                *)
LEMMA PartsCompute ==
  ASSUME NEW f, IsFormula(f), NEW part \in FormulaParts(f),
         part.op \notin {"aggregate", "literal"}
  PROVE  Operands(part) = {part.left, part.right}
<1>1. CASE part.op = "safe_divide"
  <2>1. part = MetricSafeDivide(part.left, part.right, part.fallback)
    BY <1>1 DEF IsFormula
  <2>2. "left" \in DOMAIN MetricSafeDivide(part.left, part.right, part.fallback)
    BY DEF MetricSafeDivide
  <2>3. "left" \in DOMAIN part
    BY <2>1, <2>2, Zenon
  <2> QED
    BY <2>3 DEF Operands
<1>2. CASE part.op # "safe_divide"
  <2>1. part = MetricBinary(part.op, part.left, part.right)
    BY <1>2 DEF IsFormula
  <2>2. "left" \in DOMAIN MetricBinary(part.op, part.left, part.right)
    BY DEF MetricBinary
  <2>3. "left" \in DOMAIN part
    BY <2>1, <2>2, Zenon
  <2> QED
    BY <2>3 DEF Operands
<1> QED
  BY <1>1, <1>2

(* A part has a value when those below it have.                            *)
LEMMA PartHasValue ==
  ASSUME NEW f, IsFormula(f), NEW group, AggregatesAre(f, group),
         NEW part \in FormulaParts(f), NEW value,
         part.op \notin {"aggregate", "literal"} =>
           IsValue(value[part.left]) /\ IsValue(value[part.right])
  PROVE  IsValue(PartValue(part, value, group))
<1>1. CASE part.op = "aggregate"
  <2>1. PartValue(part, value, group) = AggregateValue(part.function, group[part.field])
    BY <1>1 DEF PartValue
  <2>2. IsValue(AggregateValue(part.function, group[part.field]))
    BY <1>1 DEF AggregatesAre
  <2> QED
    BY <2>1, <2>2
<1>2. CASE part.op = "literal"
  <2>1. PartValue(part, value, group) = part.value
    BY <1>2 DEF PartValue
  <2>2. IsFraction(part.value)
    BY <1>2 DEF IsFormula
  <2> QED
    BY <2>1, <2>2 DEF IsValue
<1>3. CASE part.op = "safe_divide"
  <2>1. CASE value[part.right] \in {Null, Zero}
    <3>1. PartValue(part, value, group) = part.fallback
      BY <1>3, <2>1 DEF PartValue
    <3>2. part.fallback # Null => IsFraction(part.fallback)
      BY <1>3 DEF IsFormula
    <3> QED
      BY <3>1, <3>2 DEF IsValue
  <2>2. CASE value[part.right] \notin {Null, Zero}
    <3>1. PartValue(part, value, group) = Computed("divide", value[part.left], value[part.right])
      BY <1>3, <2>2 DEF PartValue
    <3>2. IsValue(value[part.left]) /\ IsValue(value[part.right]) /\ value[part.right] # Zero
      BY <1>3, <2>2
    <3>3. IsValue(Computed("divide", value[part.left], value[part.right]))
      BY <3>2, ComputedIsOne
    <3> QED
      BY <3>1, <3>3
  <2> QED
    BY <2>1, <2>2
<1>4. CASE part.op \notin {"aggregate", "literal", "safe_divide"}
  <2>1. part.op \in {"add", "subtract", "multiply"}
    BY <1>4 DEF IsFormula
  <2>2. PartValue(part, value, group) = Computed(part.op, value[part.left], value[part.right])
    BY <1>4 DEF PartValue
  <2>3. IsValue(value[part.left]) /\ IsValue(value[part.right])
    BY <1>4
  <2>4. IsValue(Computed(part.op, value[part.left], value[part.right]))
    BY <2>1, <2>3, ComputedIsOne
  <2> QED
    BY <2>2, <2>4
<1> QED
  BY <1>1, <1>2, <1>3, <1>4

(* A valid formula has a value in a group, or is NULL.                     *)
LEMMA FormulaHasValue ==
  ASSUME NEW f, IsFormula(f), IsWithin(f, MaxFormulaDepth),
         NEW group, AggregatesAre(f, group)
  PROVE  /\ IsValue(MetricValue(f, group))
         /\ f \in FormulaParts(f)
         /\ f.op = "aggregate" =>
              MetricValue(f, group) = AggregateValue(f.function, group[f.field])
<1> DEFINE D == FormulaParts(f)
           V == {Null} \cup {v \in Int \X Nat : IsFraction(v)}
           IsSolution(g) == g = [part \in D |-> PartValue(part, g, group)]
           value == CHOOSE g : IsSolution(g)
<1>1. \A v : v \in V <=> IsValue(v)
  BY DEF IsValue, IsFraction
<1>2. f \in D /\ \E rank : HasRank(D, MaxFormulaDepth, rank)
  BY FormulaAssumption, PartsHaveRank DEF FormulaParts
<1>3. PICK rank : HasRank(D, MaxFormulaDepth, rank)
  BY <1>2
<1>4. MetricValue(f, group) = value[f]
  BY DEF MetricValue, PartValue
<1> HIDE DEF D
<1>5. \A part \in D : part.op \notin {"aggregate", "literal"} =>
        /\ part.left \in D /\ part.right \in D
        /\ rank[part.left] < rank[part] /\ rank[part.right] < rank[part]
  <2> SUFFICES ASSUME NEW part \in D, part.op \notin {"aggregate", "literal"}
               PROVE  /\ part.left \in D /\ part.right \in D
                      /\ rank[part.left] < rank[part] /\ rank[part.right] < rank[part]
    OBVIOUS
  <2>1. Operands(part) = {part.left, part.right}
    BY PartsCompute DEF D
  <2> QED
    BY <1>3, <2>1 DEF HasRank
<1>6. \A part \in D : \A g :
        (part.op \notin {"aggregate", "literal"} => g[part.left] \in V /\ g[part.right] \in V)
          => PartValue(part, g, group) \in V
  <2> SUFFICES ASSUME NEW part \in D, NEW g,
                      part.op \notin {"aggregate", "literal"} =>
                        g[part.left] \in V /\ g[part.right] \in V
               PROVE  PartValue(part, g, group) \in V
    OBVIOUS
  <2> HIDE DEF V
  <2>1. part.op \notin {"aggregate", "literal"} => IsValue(g[part.left]) /\ IsValue(g[part.right])
    BY <1>1
  <2>2. part \in FormulaParts(f)
    BY DEF D
  <2>3. IsValue(PartValue(part, g, group))
    BY <2>1, <2>2, PartHasValue
  <2> QED
    BY <1>1, <2>3
<1> DEFINE body == [g \in [D -> V] |-> [part \in D |-> PartValue(part, g, group)]]
<1>7. LooksBelow(D, V, rank, body)
  <2> HIDE DEF V
  <2>1. body \in [[D -> V] -> [D -> V]]
    <3>1. ASSUME NEW g \in [D -> V], NEW part \in D
          PROVE  PartValue(part, g, group) \in V
      BY <1>5, <1>6
    <3> QED
      BY <3>1
  <2>2. ASSUME NEW g \in [D -> V], NEW h \in [D -> V], NEW part \in D,
               \A e \in D : rank[e] < rank[part] => g[e] = h[e]
        PROVE  body[g][part] = body[h][part]
    <3>1. body[g][part] = PartValue(part, g, group) /\ body[h][part] = PartValue(part, h, group)
      OBVIOUS
    <3>2. part.op \notin {"aggregate", "literal"} =>
            g[part.left] = h[part.left] /\ g[part.right] = h[part.right]
      BY <1>5, <2>2
    <3>3. PartValue(part, g, group) = PartValue(part, h, group)
      BY <3>2 DEF PartValue
    <3> QED
      BY <3>1, <3>3
  <2> HIDE DEF body
  <2> QED
    BY <2>1, <2>2 DEF LooksBelow
<1>8. \A g \in [D -> V] : body[g] = [part \in D |-> PartValue(part, g, group)]
  OBVIOUS
<1>9. V # {}
  OBVIOUS
<1> HIDE DEF V, body
<1>10. \E g : IsSolution(g)
  <2>1. rank \in [D -> Nat] /\ \A part \in D : rank[part] <= MaxFormulaDepth
    BY <1>3 DEF HasRank
  <2>2. \E g \in [D -> V] : g = body[g]
    BY <1>7, <1>9, <2>1, FormulaAssumption, RecursionByRank
  <2>3. PICK g \in [D -> V] : g = body[g]
    BY <2>2
  <2>4. IsSolution(g)
    BY <1>8, <2>3
  <2> HIDE DEF IsSolution
  <2> QED
    BY <2>4
<1>11. IsSolution(value)
  <2> HIDE DEF IsSolution
  <2> QED
    BY <1>10
<1> HIDE DEF value
<1>12. \A part \in D : value[part] = PartValue(part, value, group)
  BY <1>11
<1> HIDE DEF IsSolution
<1>13. \A part \in D : (\A e \in D : rank[e] < rank[part] => value[e] \in V) => value[part] \in V
  BY <1>5, <1>6, <1>12
<1>14. \A part \in D : value[part] \in V
  <2>1. rank \in [D -> Nat]
    BY <1>3 DEF HasRank
  <2> QED
    BY <1>13, <2>1, InductionByRank
<1>15. IsValue(value[f])
  BY <1>1, <1>2, <1>14
<1>16. f.op = "aggregate" => value[f] = AggregateValue(f.function, group[f.field])
  BY <1>2, <1>12 DEF PartValue
<1> QED
  BY <1>2, <1>4, <1>15, <1>16 DEF D

(* _metric_expression: a metric that the contract and the service accept   *)
(* never divides by zero in any group of rows, however its formula is      *)
(* nested, and one whose result _result_type calls an integer is whole.    *)
THEOREM AcceptedMetricsAreDefined == Spec => []MetricsAreDefined
<1>1. QInv => MetricsAreDefined
  <2> SUFFICES ASSUME QInv, Answered("metric"), answer[1] # NoAnswer
               PROVE  /\ answer[1] # DivisionByZero
                      /\ ResultType(question.formula, QueryDataset.fields) = "integer" =>
                           answer[1] = Null \/ answer[1][2] = 1
    BY DEF MetricsAreDefined
  <2> DEFINE f == question.formula
             group == question.column
             declared == QueryDataset.fields
  <2>1. /\ question.topic = "metric" /\ answer = AnswerOf(question)
        /\ f \in Formulas /\ group \in GroupColumns
    BY QuestionsAsk DEF QInv, Answered, IsAbout
  <2>2. answer[1] = AnswerMetric(question)
    BY <2>1 DEF AnswerOf
  <2>3. /\ FormulaIsAccepted(f) /\ MetricIsValid(f, {}, declared)
        /\ answer[1] = MetricValue(f, group)
    BY <2>2 DEF AnswerMetric
  <2>4. IsFormula(f) /\ IsGroup(group, declared)
    BY <2>1, MetricsAssumption
  <2>5. IsWithin(f, MaxFormulaDepth)
    BY <2>3 DEF FormulaIsAccepted
  <2>6. ResultType(f, declared) = "integer" => f.op = "aggregate" /\ f.function # "avg"
    BY DEF ResultType
  <2> HIDE DEF f, group, declared
  <2>7. AggregatesAre(f, group)
    BY <2>3, <2>4, ValidAggregates
  <2>8. /\ IsValue(MetricValue(f, group)) /\ f \in FormulaParts(f)
        /\ f.op = "aggregate" =>
             MetricValue(f, group) = AggregateValue(f.function, group[f.field])
    BY <2>4, <2>5, <2>7, FormulaHasValue
  <2>9. answer[1] # DivisionByZero
    BY <2>3, <2>8, NoError
  <2>10. ASSUME ResultType(f, declared) = "integer"
         PROVE  answer[1] = Null \/ answer[1][2] = 1
    <3>1. f.op = "aggregate" /\ f.function # "avg"
      BY <2>6, <2>10
    <3>2. answer[1] = AggregateValue(f.function, group[f.field])
      BY <2>3, <2>8, <3>1
    <3>3. \/ AggregateValue(f.function, group[f.field]) = Null
          \/ AggregateValue(f.function, group[f.field])[2] = 1
      BY <2>7, <2>8, <3>1 DEF AggregatesAre
    <3> QED
      BY <3>2, <3>3
  <2> QED
    BY <2>9, <2>10 DEF f, declared
<1> QED
  BY <1>1, AnswersAreOfQuestions, PTL
-----------------------------------------------------------------------------
(* Expressions of calculated fields, down to their leaves, without decimal *)
(* literals, which are not stored as they are.                             *)
Kinds == {"none", "bool", "int", "decimal"} \cup Texts

IsCondition(when) ==
  /\ when = [kind |-> when.kind, field |-> when.field, values |-> when.values]
  /\ when.values \subseteq Kinds

IsNode(part) ==
  /\ part.op \in {"field", "literal", "arithmetic", "safe_divide", "case"}
  /\ part.op = "field" => part = Field(part.field)
  /\ part.op = "literal" => part = Literal(part.value) /\ part.value # "decimal"
  /\ part.op = "arithmetic" => part = Arithmetic(part.left, part.right)
  /\ part.op = "safe_divide" => part = SafeDivide(part.left, part.right, part.fallback)
  /\ part.op = "case" => part = Case(part.when, part.left, part.right) /\ IsCondition(part.when)

IsBelow(part) == part.op \in {"field", "literal"}

IsExpression(e) == IsWithin(e, MaxDepth) /\ \A part \in ExpressionParts(e) : IsNode(part)

(* A node has two operands or is a leaf.                                   *)
LEMMA NodesHaveOperands ==
  ASSUME NEW part, IsNode(part)
  PROVE  Operands(part) = IF IsBelow(part) THEN {} ELSE {part.left, part.right}
<1>1. CASE part.op = "field"
  <2>1. "left" \notin DOMAIN Field(part.field)
    BY DEF Field
  <2>2. "left" \notin DOMAIN part
    BY <1>1, <2>1, Zenon DEF IsNode
  <2> QED
    BY <1>1, <2>2 DEF Operands, IsBelow
<1>2. CASE part.op = "literal"
  <2>1. "left" \notin DOMAIN Literal(part.value)
    BY DEF Literal
  <2>2. "left" \notin DOMAIN part
    BY <1>2, <2>1, Zenon DEF IsNode
  <2> QED
    BY <1>2, <2>2 DEF Operands, IsBelow
<1>3. CASE ~ IsBelow(part)
  <2>1. /\ "left" \in DOMAIN Arithmetic(part.left, part.right)
        /\ "left" \in DOMAIN SafeDivide(part.left, part.right, part.fallback)
        /\ "left" \in DOMAIN Case(part.when, part.left, part.right)
    BY DEF Arithmetic, SafeDivide, Case
  <2>2. \/ part = Arithmetic(part.left, part.right)
        \/ part = SafeDivide(part.left, part.right, part.fallback)
        \/ part = Case(part.when, part.left, part.right)
    BY <1>3 DEF IsNode, IsBelow
  <2> HIDE DEF Arithmetic, SafeDivide, Case
  <2>3. "left" \in DOMAIN part
    BY <2>1, <2>2, Zenon
  <2> QED
    BY <1>3, <2>3 DEF Operands
<1> QED
  BY <1>1, <1>2, <1>3 DEF IsBelow

(* The parts of an expression have ranks, and their operands lower ones.   *)
PartsRanked(e, rank) ==
  /\ rank \in [ExpressionParts(e) -> Nat]
  /\ \A part \in ExpressionParts(e) : rank[part] <= MaxDepth
  /\ \A part \in ExpressionParts(e) : ~ IsBelow(part) =>
       /\ part.left \in ExpressionParts(e) /\ rank[part.left] < rank[part]
       /\ part.right \in ExpressionParts(e) /\ rank[part.right] < rank[part]

LEMMA ExpressionsHaveRank ==
  ASSUME NEW e, IsExpression(e)
  PROVE  e \in ExpressionParts(e) /\ \E rank : PartsRanked(e, rank)
<1>1. MaxDepth \in Nat
  BY FieldsAssumption
<1>2. IsWithin(e, MaxDepth)
  BY DEF IsExpression
<1>3. /\ e \in Parts(e, MaxDepth)
      /\ \E rank : HasRank(Parts(e, MaxDepth), MaxDepth, rank)
  BY <1>1, <1>2, PartsHaveRank
<1>4. PICK rank : HasRank(Parts(e, MaxDepth), MaxDepth, rank)
  BY <1>3
<1>5. HasRank(ExpressionParts(e), MaxDepth, rank)
  BY <1>4, Zenon DEF ExpressionParts
<1>6. ASSUME NEW part \in ExpressionParts(e), ~ IsBelow(part)
      PROVE  Operands(part) = {part.left, part.right}
  BY <1>6, NodesHaveOperands DEF IsExpression
<1>7. PartsRanked(e, rank)
  BY <1>5, <1>6 DEF HasRank, PartsRanked
<1> QED
  BY <1>3, <1>7 DEF ExpressionParts

(* Records with the same components are the same.                          *)
LEMMA SameFunctions ==
  ASSUME NEW S, NEW p, NEW q, p = [x \in S |-> p[x]], q = [x \in S |-> q[x]],
         \A x \in S : p[x] = q[x]
  PROVE  p = q
OBVIOUS

Mapped(part, to) == [part EXCEPT !.left = to[@], !.right = to[@]]
MappedCase(part, to, new) ==
  [part EXCEPT !.left = to[@], !.right = to[@], !.when.field = new[@]]
Renamed(when, new) == [when EXCEPT !.field = new[@]]

(* A node with other operands.                                             *)
LEMMA MappedArithmetic ==
  ASSUME NEW l, NEW r, NEW to
  PROVE  Mapped(Arithmetic(l, r), to)
           = Arithmetic(to[l], to[r])
<1> DEFINE S == {"op", "left", "right"}
           a == Mapped(Arithmetic(l, r), to)
           b == Arithmetic(to[l], to[r])
<1>1. a = [x \in S |-> a[x]] /\ b = [x \in S |-> b[x]]
  BY DEF Mapped, Arithmetic
<1>2. a.op = b.op
  BY DEF Mapped, Arithmetic
<1>3. a.left = b.left
  BY DEF Mapped, Arithmetic
<1>4. a.right = b.right
  BY DEF Mapped, Arithmetic
<1> HIDE DEF a, b
<1>5. \A x \in S : a[x] = b[x]
  BY <1>2, <1>3, <1>4
<1> HIDE DEF S
<1>6. a = b
  BY <1>1, <1>5, SameFunctions
<1> QED
  BY <1>6 DEF a, b

LEMMA MappedDivision ==
  ASSUME NEW l, NEW r, NEW to, NEW fallback
  PROVE  Mapped(SafeDivide(l, r, fallback), to)
           = SafeDivide(to[l], to[r], fallback)
<1> DEFINE S == {"op", "left", "right", "fallback"}
           a == Mapped(SafeDivide(l, r, fallback), to)
           b == SafeDivide(to[l], to[r], fallback)
<1>1. a = [x \in S |-> a[x]] /\ b = [x \in S |-> b[x]]
  BY DEF Mapped, SafeDivide
<1>2. a.op = b.op
  BY DEF Mapped, SafeDivide
<1>3. a.left = b.left
  BY DEF Mapped, SafeDivide
<1>4. a.right = b.right
  BY DEF Mapped, SafeDivide
<1>5. a.fallback = b.fallback
  BY DEF Mapped, SafeDivide
<1> HIDE DEF a, b
<1>6. \A x \in S : a[x] = b[x]
  BY <1>2, <1>3, <1>4, <1>5
<1> HIDE DEF S
<1>7. a = b
  BY <1>1, <1>6, SameFunctions
<1> QED
  BY <1>7 DEF a, b

LEMMA MappedCondition ==
  ASSUME NEW l, NEW r, NEW to, NEW when
  PROVE  Mapped(Case(when, l, r), to)
           = Case(when, to[l], to[r])
<1> DEFINE S == {"op", "left", "right", "when"}
           a == Mapped(Case(when, l, r), to)
           b == Case(when, to[l], to[r])
<1>1. a = [x \in S |-> a[x]] /\ b = [x \in S |-> b[x]]
  BY DEF Mapped, Case
<1>2. a.op = b.op
  BY DEF Mapped, Case
<1>3. a.left = b.left
  BY DEF Mapped, Case
<1>4. a.right = b.right
  BY DEF Mapped, Case
<1>5. a.when = b.when
  BY DEF Mapped, Case
<1> HIDE DEF a, b
<1>6. \A x \in S : a[x] = b[x]
  BY <1>2, <1>3, <1>4, <1>5
<1> HIDE DEF S
<1>7. a = b
  BY <1>1, <1>6, SameFunctions
<1> QED
  BY <1>7 DEF a, b

LEMMA RenamedCondition ==
  ASSUME NEW l, NEW r, NEW to, NEW when, IsCondition(when), NEW new
  PROVE  MappedCase(Case(when, l, r), to, new)
           = Case(Renamed(when, new), to[l], to[r])
<1> DEFINE S == {"op", "left", "right", "when"}
           a == MappedCase(Case(when, l, r), to, new)
           b == Case(Renamed(when, new), to[l], to[r])
<1>1. a = [x \in S |-> a[x]] /\ b = [x \in S |-> b[x]]
  BY DEF MappedCase, Case, Renamed, IsCondition
<1>2. a.op = b.op
  BY DEF MappedCase, Case, Renamed, IsCondition
<1>3. a.left = b.left
  BY DEF MappedCase, Case, Renamed, IsCondition
<1>4. a.right = b.right
  BY DEF MappedCase, Case, Renamed, IsCondition
<1>5. a.when = b.when
  BY DEF MappedCase, Case, Renamed, IsCondition
<1> HIDE DEF a, b
<1>6. \A x \in S : a[x] = b[x]
  BY <1>2, <1>3, <1>4, <1>5
<1> HIDE DEF S
<1>7. a = b
  BY <1>1, <1>6, SameFunctions
<1> QED
  BY <1>7 DEF a, b

StoredPart(part, stored) ==
  CASE part.op = "field" -> part
    [] part.op = "literal" -> [part EXCEPT !.value = IF @ = "decimal" THEN "numeral" ELSE @]
    [] OTHER -> Mapped(part, stored)

LEMMA NodeIsStored ==
  ASSUME NEW part, IsNode(part), NEW stored,
         ~ IsBelow(part) => stored[part.left] = part.left /\ stored[part.right] = part.right
  PROVE  StoredPart(part, stored) = part
<1>1. CASE part.op = "field"
  BY <1>1 DEF StoredPart
<1>2. CASE part.op = "literal"
  <2>1. part = Literal(part.value) /\ part.value # "decimal"
    BY <1>2 DEF IsNode
  <2>2. ASSUME NEW value, value # "decimal"
        PROVE  [Literal(value) EXCEPT !.value = IF @ = "decimal" THEN "numeral" ELSE @]
                 = Literal(value)
    BY <2>2 DEF Literal
  <2>3. [part EXCEPT !.value = IF @ = "decimal" THEN "numeral" ELSE @] = part
    BY <2>1, <2>2, Zenon
  <2> QED
    BY <1>2, <2>3 DEF StoredPart
<1>3. CASE ~ IsBelow(part)
  <2>1. part.op \in {"arithmetic", "safe_divide", "case"}
    BY <1>3 DEF IsNode, IsBelow
  <2>2. StoredPart(part, stored) = Mapped(part, stored)
    BY <2>1 DEF StoredPart
  <2>3. CASE part.op = "arithmetic"
    <3>1. part = Arithmetic(part.left, part.right)
      BY <2>3 DEF IsNode
    <3>2. Mapped(Arithmetic(part.left, part.right), stored)
            = Arithmetic(stored[part.left], stored[part.right])
      BY MappedArithmetic
    <3> QED
      BY <1>3, <2>2, <3>1, <3>2, Zenon
  <2>4. CASE part.op = "safe_divide"
    <3>1. part = SafeDivide(part.left, part.right, part.fallback)
      BY <2>4 DEF IsNode
    <3>2. Mapped(SafeDivide(part.left, part.right, part.fallback), stored)
            = SafeDivide(stored[part.left], stored[part.right], part.fallback)
      BY MappedDivision
    <3> QED
      BY <1>3, <2>2, <3>1, <3>2, Zenon
  <2>5. CASE part.op = "case"
    <3>1. part = Case(part.when, part.left, part.right)
      BY <2>5 DEF IsNode
    <3>2. Mapped(Case(part.when, part.left, part.right), stored)
            = Case(part.when, stored[part.left], stored[part.right])
      BY MappedCondition
    <3> QED
      BY <1>3, <2>2, <3>1, <3>2, Zenon
  <2> QED
    BY <2>1, <2>3, <2>4, <2>5
<1> QED
  BY <1>1, <1>2, <1>3 DEF IsBelow

(* An expression without decimals is read as it was stored.                *)
LEMMA StoredAsItIs ==
  ASSUME NEW e, IsExpression(e)
  PROVE  Stored(e) = e
<1> DEFINE D == ExpressionParts(e)
           IsSolution(g) == g = [part \in D |-> StoredPart(part, g)]
           stored == CHOOSE g : IsSolution(g)
<1>1. Stored(e) = stored[e]
  BY DEF Stored, StoredPart, Mapped
<1>2. PICK rank : PartsRanked(e, rank)
  BY ExpressionsHaveRank
<1>3. \A part \in D : IsNode(part)
  BY DEF IsExpression
<1>4. e \in D
  BY ExpressionsHaveRank
<1>5. /\ rank \in [D -> Nat]
      /\ \A part \in D : ~ IsBelow(part) =>
           /\ part.left \in D /\ rank[part.left] < rank[part]
           /\ part.right \in D /\ rank[part.right] < rank[part]
  BY <1>2 DEF PartsRanked
<1> HIDE DEF D
<1>6. \E g : IsSolution(g)
  <2> DEFINE same == [part \in D |-> part]
  <2>1. ASSUME NEW part \in D
        PROVE  StoredPart(part, same) = part
    <3>1. ~ IsBelow(part) => same[part.left] = part.left /\ same[part.right] = part.right
      BY <1>5
    <3> HIDE DEF same
    <3> QED
      BY <1>3, <3>1, NodeIsStored
  <2>2. same = [part \in D |-> StoredPart(part, same)]
    BY <2>1
  <2>3. IsSolution(same)
    BY <2>2
  <2> HIDE DEF IsSolution
  <2> QED
    BY <2>3
<1>7. IsSolution(stored)
  <2> HIDE DEF IsSolution
  <2> QED
    BY <1>6
<1> HIDE DEF stored
<1>8. \A part \in D : stored[part] = StoredPart(part, stored)
  BY <1>7
<1> HIDE DEF IsSolution
<1> DEFINE g == [part \in D |-> stored[part] = part]
           V == {TRUE}
<1>9. \A d \in D : (\A x \in D : rank[x] < rank[d] => g[x] \in V) => g[d] \in V
  <2> SUFFICES ASSUME NEW d \in D, \A x \in D : rank[x] < rank[d] => g[x] \in V
               PROVE  g[d] \in V
    OBVIOUS
  <2>1. ~ IsBelow(d) => stored[d.left] = d.left /\ stored[d.right] = d.right
    BY <1>5
  <2>2. StoredPart(d, stored) = d
    BY <1>3, <2>1, NodeIsStored
  <2> QED
    BY <1>8, <2>2
<1>10. \A d \in D : g[d] \in V
  <2> HIDE DEF g, V
  <2> QED
    BY <1>5, <1>9, InductionByRank
<1>11. stored[e] = e
  BY <1>4, <1>10
<1> QED
  BY <1>1, <1>11

(* A copy of a part, given the copies of its operands.                     *)
CopiedPart(part, to, new) ==
  CASE part.op = "field" -> Field(new[part.field])
    [] part.op = "literal" -> part
    [] part.op = "case" -> MappedCase(part, to, new)
    [] OTHER -> Mapped(part, to)

IsCopied(part, copy, to, new) ==
  /\ part.op = "field" => copy = Field(new[part.field])
  /\ part.op = "literal" => copy = part
  /\ part.op = "arithmetic" => copy = Arithmetic(to[part.left], to[part.right])
  /\ part.op = "safe_divide" => copy = SafeDivide(to[part.left], to[part.right], part.fallback)
  /\ part.op = "case" => copy = Case(Renamed(part.when, new), to[part.left], to[part.right])

LEMMA PartIsCopied ==
  ASSUME NEW part, IsNode(part), NEW to, NEW new
  PROVE  IsCopied(part, CopiedPart(part, to, new), to, new)
<1>1. part.op = "field" => CopiedPart(part, to, new) = Field(new[part.field])
  BY DEF CopiedPart
<1>2. part.op = "literal" => CopiedPart(part, to, new) = part
  BY DEF CopiedPart
<1>3. ASSUME part.op = "arithmetic"
      PROVE  CopiedPart(part, to, new) = Arithmetic(to[part.left], to[part.right])
  <2>1. CopiedPart(part, to, new) = Mapped(part, to)
    BY <1>3 DEF CopiedPart
  <2>2. part = Arithmetic(part.left, part.right)
    BY <1>3 DEF IsNode
  <2>3. Mapped(Arithmetic(part.left, part.right), to) = Arithmetic(to[part.left], to[part.right])
    BY MappedArithmetic
  <2> QED
    BY <2>1, <2>2, <2>3, Zenon
<1>4. ASSUME part.op = "safe_divide"
      PROVE  CopiedPart(part, to, new) = SafeDivide(to[part.left], to[part.right], part.fallback)
  <2>1. CopiedPart(part, to, new) = Mapped(part, to)
    BY <1>4 DEF CopiedPart
  <2>2. part = SafeDivide(part.left, part.right, part.fallback)
    BY <1>4 DEF IsNode
  <2>3. Mapped(SafeDivide(part.left, part.right, part.fallback), to)
          = SafeDivide(to[part.left], to[part.right], part.fallback)
    BY MappedDivision
  <2> QED
    BY <2>1, <2>2, <2>3, Zenon
<1>5. ASSUME part.op = "case"
      PROVE  CopiedPart(part, to, new)
               = Case(Renamed(part.when, new), to[part.left], to[part.right])
  <2>1. CopiedPart(part, to, new) = MappedCase(part, to, new)
    BY <1>5 DEF CopiedPart
  <2>2. part = Case(part.when, part.left, part.right)
    BY <1>5 DEF IsNode
  <2>3. IsCondition(part.when)
    BY <1>5 DEF IsNode
  <2>4. MappedCase(Case(part.when, part.left, part.right), to, new)
          = Case(Renamed(part.when, new), to[part.left], to[part.right])
    BY <2>3, RenamedCondition
  <2> QED
    BY <2>1, <2>2, <2>4, Zenon
<1> QED
  BY <1>1, <1>2, <1>3, <1>4, <1>5 DEF IsCopied

(* It depends on the copies of the operands only.                          *)
LEMMA CopiesOfOperands ==
  ASSUME NEW part, IsNode(part), NEW to, NEW other, NEW new,
         ~ IsBelow(part) =>
           to[part.left] = other[part.left] /\ to[part.right] = other[part.right]
  PROVE  CopiedPart(part, to, new) = CopiedPart(part, other, new)
<1>1. /\ IsCopied(part, CopiedPart(part, to, new), to, new)
      /\ IsCopied(part, CopiedPart(part, other, new), other, new)
  BY PartIsCopied
<1>2. part.op \in {"field", "literal", "arithmetic", "safe_divide", "case"}
  BY DEF IsNode
<1> QED
  BY <1>1, <1>2 DEF IsCopied, IsBelow

(* A condition of another field.                                           *)
LEMMA RenamedWhen ==
  ASSUME NEW when, IsCondition(when), NEW new
  PROVE  /\ IsCondition(Renamed(when, new))
         /\ Renamed(when, new).kind = when.kind
         /\ Renamed(when, new).field = new[when.field]
         /\ Renamed(when, new).values = when.values
<1> DEFINE S == {"kind", "field", "values"}
           a == Renamed(when, new)
           b == [kind |-> a.kind, field |-> a.field, values |-> a.values]
<1>1. a = [x \in S |-> a[x]]
  BY DEF IsCondition, Renamed
<1>2. b = [x \in S |-> b[x]]
  OBVIOUS
<1>3. a.kind = b.kind /\ a.field = b.field /\ a.values = b.values
  OBVIOUS
<1>4. a.kind = when.kind
  BY DEF IsCondition, Renamed
<1>5. a.field = new[when.field]
  BY DEF IsCondition, Renamed
<1>6. a.values = when.values
  BY DEF IsCondition, Renamed
<1> HIDE DEF a, b
<1>7. \A x \in S : a[x] = b[x]
  BY <1>3
<1> HIDE DEF S
<1>8. a = b
  BY <1>1, <1>2, <1>7, SameFunctions
<1>9. IsCondition(a)
  <2>1. a.values \subseteq Kinds
    BY <1>6 DEF IsCondition, a
  <2> QED
    BY <1>8, <2>1 DEF IsCondition, b
<1> QED
  BY <1>4, <1>5, <1>6, <1>9 DEF a

(* The copy of a node is a node.                                           *)
LEMMA CopiesAreNodes ==
  ASSUME NEW part, IsNode(part), NEW copy, NEW to, NEW new, IsCopied(part, copy, to, new)
  PROVE  /\ IsNode(copy) /\ copy.op = part.op
         /\ ~ IsBelow(part) => copy.left = to[part.left] /\ copy.right = to[part.right]
<1>1. part.op \in {"field", "literal", "arithmetic", "safe_divide", "case"}
  BY DEF IsNode
<1>2. CASE part.op = "field"
  <2>1. copy = Field(new[part.field])
    BY <1>2 DEF IsCopied
  <2> QED
    BY <1>2, <2>1 DEF IsNode, Field, IsBelow
<1>3. CASE part.op = "literal"
  <2>1. copy = part
    BY <1>3 DEF IsCopied
  <2> QED
    BY <1>3, <2>1 DEF IsBelow
<1>4. CASE part.op = "arithmetic"
  <2>1. copy = Arithmetic(to[part.left], to[part.right])
    BY <1>4 DEF IsCopied
  <2> QED
    BY <1>4, <2>1 DEF IsNode, Arithmetic, IsBelow
<1>5. CASE part.op = "safe_divide"
  <2>1. copy = SafeDivide(to[part.left], to[part.right], part.fallback)
    BY <1>5 DEF IsCopied
  <2> QED
    BY <1>5, <2>1 DEF IsNode, SafeDivide, IsBelow
<1>6. CASE part.op = "case"
  <2>1. copy = Case(Renamed(part.when, new), to[part.left], to[part.right])
    BY <1>6 DEF IsCopied
  <2>2. IsCondition(part.when)
    BY <1>6 DEF IsNode
  <2>3. IsCondition(Renamed(part.when, new))
    BY <2>2, RenamedWhen
  <2>4. /\ copy.op = "case" /\ copy.when = Renamed(part.when, new)
        /\ copy.left = to[part.left] /\ copy.right = to[part.right]
    BY <2>1 DEF Case
  <2>5. copy = Case(copy.when, copy.left, copy.right)
    BY <2>1, <2>4, Zenon
  <2> QED
    BY <1>6, <2>3, <2>4, <2>5 DEF IsNode, IsBelow
<1> QED
  BY <1>1, <1>2, <1>3, <1>4, <1>5, <1>6

(* The parts of a copy are the copies of the parts.                        *)
LEMMA PartsOfCopy ==
  ASSUME NEW e, IsExpression(e), NEW to, NEW new,
         \A part \in ExpressionParts(e) : IsCopied(part, to[part], to, new)
  PROVE  /\ IsExpression(to[e])
         /\ ExpressionParts(to[e]) = {to[part] : part \in ExpressionParts(e)}
<1> DEFINE D == ExpressionParts(e)
           Above(n) == Level(e, n)
           CopiesOf(n) == {to[part] : part \in Above(n)}
           T == {n \in Nat : n <= MaxDepth => Level(to[e], n) = CopiesOf(n)}
<1>1. MaxDepth \in Nat /\ IsWithin(e, MaxDepth)
  BY FieldsAssumption DEF IsExpression
<1>2. /\ Above(0) = {e} /\ Level(to[e], 0) = {to[e]}
      /\ \A n \in Nat : Above(n + 1) = UNION {Operands(node) : node \in Above(n)}
      /\ \A n \in Nat : Level(to[e], n + 1) = UNION {Operands(node) : node \in Level(to[e], n)}
  BY LevelIs
<1>3. \A n \in 0..(MaxDepth - 1) : Above(n) \subseteq D
  BY DEF ExpressionParts, Parts
<1>4. \A part \in D : IsNode(part)
  BY DEF IsExpression
<1>5. ASSUME NEW part \in D
      PROVE  Operands(to[part]) = {to[x] : x \in Operands(part)}
  <2>1. IsNode(part) /\ IsCopied(part, to[part], to, new)
    BY <1>4
  <2>2. /\ IsNode(to[part]) /\ to[part].op = part.op
        /\ ~ IsBelow(part) => to[part].left = to[part.left] /\ to[part].right = to[part.right]
    BY <2>1, CopiesAreNodes
  <2>3. Operands(to[part]) = IF IsBelow(to[part]) THEN {} ELSE {to[part].left, to[part].right}
    BY <2>2, NodesHaveOperands
  <2>4. Operands(part) = IF IsBelow(part) THEN {} ELSE {part.left, part.right}
    BY <2>1, NodesHaveOperands
  <2>5. IsBelow(to[part]) <=> IsBelow(part)
    BY <2>2 DEF IsBelow
  <2> QED
    BY <2>2, <2>3, <2>4, <2>5
<1> HIDE DEF D, Above
<1>6. 0 \in T
  BY <1>2
<1>7. ASSUME NEW n \in T \cap Nat, n < MaxDepth
      PROVE  n + 1 \in T
  <2>1. Level(to[e], n) = CopiesOf(n) /\ n \in 0..(MaxDepth - 1)
    BY <1>1, <1>7
  <2>2. Level(to[e], n + 1) = UNION {Operands(to[part]) : part \in Above(n)}
    BY <1>2, <2>1
  <2>3. Above(n) \subseteq D
    BY <1>3, <2>1
  <2>4. Level(to[e], n + 1) = UNION {{to[x] : x \in Operands(part)} : part \in Above(n)}
    BY <1>5, <2>2, <2>3
  <2>5. Above(n + 1) = UNION {Operands(part) : part \in Above(n)}
    BY <1>2
  <2>6. Level(to[e], n + 1) = CopiesOf(n + 1)
    BY <2>4, <2>5
  <2> QED
    BY <2>6
<1>8. \A n \in 0..MaxDepth : Level(to[e], n) = CopiesOf(n)
  <2> SUFFICES ASSUME NEW n \in 0..MaxDepth
               PROVE  Level(to[e], n) = CopiesOf(n)
    OBVIOUS
  <2>1. n \in Nat /\ n <= MaxDepth
    BY <1>1
  <2>2. n \in T
    <3> HIDE DEF T
    <3>1. \A k \in T \cap Nat : k < n => k + 1 \in T
      BY <1>1, <1>7, <2>1
    <3> QED
      BY <1>6, <2>1, <3>1, Reaches
  <2> QED
    BY <2>1, <2>2
<1>9. IsWithin(to[e], MaxDepth)
  BY <1>1, <1>8 DEF IsWithin, Above
<1>10. ExpressionParts(to[e]) = {to[part] : part \in D}
  <2>1. ExpressionParts(to[e]) = UNION {Level(to[e], n) : n \in 0..(MaxDepth - 1)}
    BY DEF ExpressionParts, Parts
  <2>2. D = UNION {Above(n) : n \in 0..(MaxDepth - 1)}
    BY DEF ExpressionParts, Parts, D, Above
  <2>3. \A n \in 0..(MaxDepth - 1) : Level(to[e], n) = {to[part] : part \in Above(n)}
    BY <1>1, <1>8
  <2> QED
    BY <2>1, <2>2, <2>3
<1>11. ASSUME NEW part \in D
       PROVE  IsNode(to[part])
  <2>1. IsNode(part) /\ IsCopied(part, to[part], to, new)
    BY <1>4 DEF D
  <2> QED
    BY <2>1, CopiesAreNodes
<1>12. IsExpression(to[e])
  BY <1>9, <1>10, <1>11 DEF IsExpression
<1> QED
  BY <1>10, <1>12 DEF D

(* The types of a part for each hint, and whether it compiles, given those *)
(* of its operands.                                                        *)
PartType(part, type, types, hint) ==
  CASE part.op = "field" -> types[part.field]
    [] part.op = "literal" -> LiteralType(part.value, hint)
    [] part.op = "case" ->
         IF ConditionIsTyped(part.when, types)
           THEN MergedType(type[part.left][hint], type[part.right][hint])
           ELSE "invalid"
    [] OTHER ->
         LET both == {type[part.left]["any"], type[part.right]["any"]}
         IN IF ~ both \subseteq Numeric THEN "invalid"
            ELSE IF part.op = "safe_divide" \/ "decimal" \in both THEN "decimal"
            ELSE "integer"

PartCompiles(part, compiles, types, hint) ==
  CASE part.op = "field" -> TRUE
    [] part.op = "literal" ->
         part.value \in Texts =>
           /\ hint = "date" => part.value = "day"
           /\ hint = "datetime" => part.value \in {"day", "moment"}
    [] part.op = "case" ->
         /\ part.when.kind = "text" => types[part.when.field] = "string"
         /\ \A value \in part.when.values : Binds(types[part.when.field], value)
         /\ compiles[part.left][hint] /\ compiles[part.right][hint]
    [] OTHER -> compiles[part.left]["any"] /\ compiles[part.right]["any"]

(* Copying, typing and compiling go through an expression alike.           *)
Turned(task, part, to, x, expected) ==
  CASE task = "copy" -> CopiedPart(part, to, x)
    [] task = "type" -> [hint \in {expected, "any"} |-> PartType(part, to, x, hint)]
    [] OTHER -> [hint \in {expected, "any"} |-> PartCompiles(part, to, x, hint)]

(* What a part is turned into depends on what its operands are turned into.*)
LEMMA TurnedWithOperands ==
  ASSUME NEW part, IsNode(part), NEW to, NEW other, NEW task, NEW x, NEW expected,
         ~ IsBelow(part) =>
           to[part.left] = other[part.left] /\ to[part.right] = other[part.right]
  PROVE  Turned(task, part, to, x, expected) = Turned(task, part, other, x, expected)
<1>1. CopiedPart(part, to, x) = CopiedPart(part, other, x)
  BY CopiesOfOperands
<1>2. ASSUME NEW hint
      PROVE  /\ PartType(part, to, x, hint) = PartType(part, other, x, hint)
             /\ PartCompiles(part, to, x, hint) = PartCompiles(part, other, x, hint)
  <2>1. CASE part.op = "field"
    BY <2>1 DEF PartType, PartCompiles
  <2>2. CASE part.op = "literal"
    BY <2>2 DEF PartType, PartCompiles
  <2>3. CASE ~ IsBelow(part)
    <3>1. /\ to[part.left] = other[part.left] /\ to[part.right] = other[part.right]
          /\ part.op # "field" /\ part.op # "literal"
      BY <2>3 DEF IsBelow
    <3>2. PartType(part, to, x, hint) = PartType(part, other, x, hint)
      BY <3>1, Zenon DEF PartType
    <3>3. PartCompiles(part, to, x, hint) = PartCompiles(part, other, x, hint)
      BY <3>1, Zenon DEF PartCompiles
    <3> QED
      BY <3>2, <3>3
  <2> QED
    BY <2>1, <2>2, <2>3 DEF IsBelow
<1> QED
  BY <1>1, <1>2, Zenon DEF Turned

IsTurned(e, task, to, x, expected) ==
  to = [part \in ExpressionParts(e) |-> Turned(task, part, to, x, expected)]

(* Each of the tasks can be done.                                          *)
LEMMA TurnedByPart ==
  ASSUME NEW e, IsExpression(e), NEW task, NEW x, NEW expected
  PROVE  \E to : IsTurned(e, task, to, x, expected)
<1> DEFINE D == ExpressionParts(e)
           IsSolution(g) == g = [part \in D |-> Turned(task, part, g, x, expected)]
<1>2. PICK rank : PartsRanked(e, rank)
  BY ExpressionsHaveRank
<1>3. \A part \in D : IsNode(part)
  BY DEF IsExpression
<1>4. /\ rank \in [D -> Nat]
      /\ \A part \in D : rank[part] <= MaxDepth
      /\ \A part \in D : ~ IsBelow(part) =>
           /\ part.left \in D /\ rank[part.left] < rank[part]
           /\ part.right \in D /\ rank[part.right] < rank[part]
  BY <1>2 DEF PartsRanked
<1>5. MaxDepth \in Nat
  BY FieldsAssumption
<1> HIDE DEF D
<1> DEFINE UpToRank(g, k) ==
             \A part \in D : rank[part] < k => g[part] = Turned(task, part, g, x, expected)
           T == {k \in Nat : \E g : UpToRank(g, k)}
<1>6. 0 \in T
  <2>1. UpToRank([part \in D |-> part], 0)
    BY <1>4
  <2> HIDE DEF UpToRank
  <2> QED
    BY <2>1
<1>7. ASSUME NEW k \in T \cap Nat
      PROVE  k + 1 \in T
  <2>1. PICK f : UpToRank(f, k)
    BY <1>7
  <2> DEFINE g == [part \in D |-> IF rank[part] < k THEN f[part] ELSE Turned(task, part, f, x, expected)]
  <2>2. ASSUME NEW part \in D, rank[part] < k + 1
        PROVE  g[part] = Turned(task, part, g, x, expected)
    <3>1. ASSUME ~ IsBelow(part)
          PROVE  f[part.left] = g[part.left] /\ f[part.right] = g[part.right]
      <4>1. rank[part.left] < k /\ rank[part.right] < k /\ part.left \in D /\ part.right \in D
        BY <1>4, <2>2, <3>1
      <4> QED
        BY <4>1
    <3>2. Turned(task, part, f, x, expected) = Turned(task, part, g, x, expected)
      <4> HIDE DEF g
      <4> QED
        BY <1>3, <3>1, TurnedWithOperands
    <3>3. g[part] = Turned(task, part, f, x, expected)
      BY <2>1
    <3> QED
      BY <3>2, <3>3
  <2>3. UpToRank(g, k + 1)
    BY <2>2
  <2> HIDE DEF UpToRank, g
  <2> QED
    BY <2>3
<1>8. MaxDepth + 1 \in T
  <2> HIDE DEF T
  <2>1. MaxDepth + 1 \in Nat
    BY <1>5
  <2> QED
    BY <1>6, <1>7, <2>1, Reaches
<1>9. \E g : IsSolution(g)
  <2>1. PICK f : UpToRank(f, MaxDepth + 1)
    BY <1>8
  <2>2. \A part \in D : f[part] = Turned(task, part, f, x, expected)
    BY <1>4, <1>5, <2>1
  <2> DEFINE g == [part \in D |-> f[part]]
  <2>3. ASSUME NEW part \in D
        PROVE  f[part] = Turned(task, part, g, x, expected)
    <3>1. ~ IsBelow(part) => f[part.left] = g[part.left] /\ f[part.right] = g[part.right]
      BY <1>4
    <3>2. Turned(task, part, f, x, expected) = Turned(task, part, g, x, expected)
      <4> HIDE DEF g
      <4> QED
        BY <1>3, <3>1, TurnedWithOperands
    <3> QED
      BY <2>2, <3>2
  <2>4. g = [part \in D |-> Turned(task, part, g, x, expected)]
    BY <2>3
  <2>5. IsSolution(g)
    BY <2>4
  <2> HIDE DEF IsSolution
  <2> QED
    BY <2>5
<1>10. PICK g : IsSolution(g)
  <2> HIDE DEF IsSolution
  <2> QED
    BY <1>9
<1> QED
  BY <1>10 DEF D, IsTurned

(* rewrite_calculated_expression_fields, _infer_calculated_type and        *)
(* _calculated_expression go part by part.                                 *)
LEMMA RewrittenByPart ==
  ASSUME NEW e, IsExpression(e), NEW new
  PROVE  \E to : /\ Rewritten(e, new) = to[e]
                 /\ \A part \in ExpressionParts(e) : IsCopied(part, to[part], to, new)
<1> DEFINE D == ExpressionParts(e)
           IsSolution(g) == g = [part \in D |-> CopiedPart(part, g, new)]
           to == CHOOSE g : IsSolution(g)
<1>1. Rewritten(e, new) = to[e]
  BY DEF Rewritten, CopiedPart, Mapped, MappedCase
<1>2. \A part \in D : IsNode(part)
  BY DEF IsExpression
<1>3. PICK g : IsTurned(e, "copy", g, new, "any")
  BY TurnedByPart
<1> HIDE DEF D
<1>4. \A part, f : Turned("copy", part, f, new, "any") = CopiedPart(part, f, new)
  BY DEF Turned
<1>5. IsSolution(g)
  BY <1>3, <1>4 DEF IsTurned, D
<1>6. IsSolution(to)
  <2> HIDE DEF IsSolution
  <2> QED
    BY <1>5
<1> HIDE DEF to
<1>7. \A part \in D : to[part] = CopiedPart(part, to, new)
  BY <1>6
<1> HIDE DEF IsSolution
<1>8. ASSUME NEW part \in D
      PROVE  IsCopied(part, to[part], to, new)
  <2>1. IsCopied(part, CopiedPart(part, to, new), to, new)
    BY <1>2, PartIsCopied
  <2> QED
    BY <1>7, <2>1
<1> QED
  BY <1>1, <1>8 DEF D

LEMMA InferredByPart ==
  ASSUME NEW e, IsExpression(e), NEW types, NEW expected
  PROVE  \E type :
           /\ InferredType(e, types, expected) = type[e][expected]
           /\ \A part \in ExpressionParts(e), hint \in {expected, "any"} :
                type[part][hint] = PartType(part, type, types, hint)
<1> DEFINE D == ExpressionParts(e)
           H == {expected, "any"}
           IsSolution(g) == g = [part \in D |-> [hint \in H |-> PartType(part, g, types, hint)]]
           type == CHOOSE g : IsSolution(g)
<1>1. InferredType(e, types, expected) = type[e][expected]
  BY DEF InferredType, PartType
<1>2. PICK g : IsTurned(e, "type", g, types, expected)
  BY TurnedByPart
<1> HIDE DEF D
<1>3. \A part, f : Turned("type", part, f, types, expected)
                     = [hint \in H |-> PartType(part, f, types, hint)]
  BY DEF Turned
<1> HIDE DEF H
<1>4. IsSolution(g)
  BY <1>2, <1>3 DEF IsTurned, D
<1>5. IsSolution(type)
  <2> HIDE DEF IsSolution
  <2> QED
    BY <1>4
<1> HIDE DEF type
<1>6. \A part \in D : type[part] = [hint \in H |-> PartType(part, type, types, hint)]
  BY <1>5
<1> HIDE DEF IsSolution
<1>7. \A part \in D, hint \in H : type[part][hint] = PartType(part, type, types, hint)
  BY <1>6
<1> QED
  BY <1>1, <1>7 DEF D, H

LEMMA CompiledByPart ==
  ASSUME NEW e, IsExpression(e), NEW types, NEW expected
  PROVE  \E compiles :
           /\ Compiles(e, types, expected) = compiles[e][expected]
           /\ \A part \in ExpressionParts(e), hint \in {expected, "any"} :
                compiles[part][hint] = PartCompiles(part, compiles, types, hint)
<1> DEFINE D == ExpressionParts(e)
           H == {expected, "any"}
           IsSolution(g) == g = [part \in D |-> [hint \in H |-> PartCompiles(part, g, types, hint)]]
           compiles == CHOOSE g : IsSolution(g)
<1>1. Compiles(e, types, expected) = compiles[e][expected]
  BY DEF Compiles, PartCompiles
<1>2. PICK g : IsTurned(e, "compile", g, types, expected)
  BY TurnedByPart
<1> HIDE DEF D
<1>3. \A part, f : Turned("compile", part, f, types, expected)
                     = [hint \in H |-> PartCompiles(part, f, types, hint)]
  BY DEF Turned
<1> HIDE DEF H
<1>4. IsSolution(g)
  BY <1>2, <1>3 DEF IsTurned, D
<1>5. IsSolution(compiles)
  <2> HIDE DEF IsSolution
  <2> QED
    BY <1>4
<1> HIDE DEF compiles
<1>6. \A part \in D : compiles[part] = [hint \in H |-> PartCompiles(part, compiles, types, hint)]
  BY <1>5
<1> HIDE DEF IsSolution
<1>7. \A part \in D, hint \in H : compiles[part][hint] = PartCompiles(part, compiles, types, hint)
  BY <1>6
<1> QED
  BY <1>1, <1>7 DEF D, H

(* _literal_data_type, case by case.                                       *)
LEMMA LiteralTypeIs ==
  ASSUME NEW value, NEW expected
  PROVE  LiteralType(value, expected) =
           IF value = "none" THEN "null"
           ELSE IF value = "bool" THEN "boolean"
           ELSE IF value = "int" THEN "integer"
           ELSE IF value = "decimal" THEN "decimal"
           ELSE IF expected = "date" THEN (IF value = "day" THEN "date" ELSE "invalid")
           ELSE IF expected = "datetime"
             THEN (IF value \in {"day", "moment"} THEN "datetime" ELSE "invalid")
           ELSE "string"
<1> DEFINE typeOf == [none |-> "null", bool |-> "boolean", int |-> "integer", decimal |-> "decimal"]
           formats == [date |-> {"day"}, datetime |-> {"day", "moment"}]
<1>1. /\ DOMAIN typeOf = {"none", "bool", "int", "decimal"}
      /\ DOMAIN formats = {"date", "datetime"}
  OBVIOUS
<1>2. /\ typeOf["none"] = "null" /\ typeOf["bool"] = "boolean"
      /\ typeOf["int"] = "integer" /\ typeOf["decimal"] = "decimal"
      /\ formats["date"] = {"day"} /\ formats["datetime"] = {"day", "moment"}
  OBVIOUS
<1>3. LiteralType(value, expected) =
        IF value \in DOMAIN typeOf THEN typeOf[value]
        ELSE IF expected \notin DOMAIN formats THEN "string"
        ELSE IF value \in formats[expected] THEN expected ELSE "invalid"
  BY DEF LiteralType
<1> HIDE DEF typeOf, formats
<1> QED
  BY <1>1, <1>2, <1>3

(* A value of a condition that has the type of the column is bound to it,  *)
LEMMA TypedValuesBind ==
  ASSUME NEW type \in Types, NEW value \in Kinds,
         Compatible(LiteralType(value, type), type)
  PROVE  Binds(type, value)
<1>1. LiteralType(value, type) = type \/ (LiteralType(value, type) = "integer" /\ type = "decimal")
  BY DEF Compatible
<1>2. CASE type = "string"
  <2>1. value \in Texts
    BY <1>1, <1>2, LiteralTypeIs DEF Kinds
  <2> QED
    BY <1>2, <2>1 DEF Binds
<1>3. CASE type # "string"
  BY <1>1, <1>3, LiteralTypeIs DEF Binds, Types
<1> QED
  BY <1>2, <1>3

(* and what merges to a type, or is added to one, has one.                 *)
LEMMA MergedOfTypes ==
  ASSUME NEW left, NEW right, MergedType(left, right) # "invalid"
  PROVE  left # "invalid" /\ right # "invalid"
BY DEF MergedType, Numeric

(* A typed expression compiles.                                            *)
LEMMA TypedCompiles ==
  ASSUME NEW e, IsExpression(e), NEW I, NEW types \in [I -> Types], NEW declared \in Types,
         IsTyped(e, types, declared)
  PROVE  Compiles(e, types, declared)
<1> DEFINE D == ExpressionParts(e)
           H == {declared, "any"}
<1>1. PICK type : /\ InferredType(e, types, declared) = type[e][declared]
                  /\ \A part \in ExpressionParts(e), hint \in {declared, "any"} :
                       type[part][hint] = PartType(part, type, types, hint)
  BY InferredByPart
<1>2. PICK compiles : /\ Compiles(e, types, declared) = compiles[e][declared]
                      /\ \A part \in ExpressionParts(e), hint \in {declared, "any"} :
                           compiles[part][hint] = PartCompiles(part, compiles, types, hint)
  BY CompiledByPart
<1>3. PICK rank : PartsRanked(e, rank)
  BY ExpressionsHaveRank
<1>4. e \in D /\ \A part \in D : IsNode(part)
  BY ExpressionsHaveRank DEF IsExpression
<1>5. /\ rank \in [D -> Nat]
      /\ \A part \in D : ~ IsBelow(part) =>
           /\ part.left \in D /\ rank[part.left] < rank[part]
           /\ part.right \in D /\ rank[part.right] < rank[part]
  BY <1>3 DEF PartsRanked
<1>6. type[e][declared] # "invalid"
  BY <1>1 DEF IsTyped
<1>7. \A part \in D, hint \in H :
        /\ type[part][hint] = PartType(part, type, types, hint)
        /\ compiles[part][hint] = PartCompiles(part, compiles, types, hint)
  BY <1>1, <1>2
<1> HIDE DEF D
<1> DEFINE g == [part \in D |->
                   \A hint \in H : type[part][hint] # "invalid" => compiles[part][hint] = TRUE]
           V == {TRUE}
<1>8. ASSUME NEW part \in D, NEW hint \in H, type[part][hint] # "invalid",
             ~ IsBelow(part) =>
               \A h \in H :
                 /\ type[part.left][h] # "invalid" => compiles[part.left][h] = TRUE
                 /\ type[part.right][h] # "invalid" => compiles[part.right][h] = TRUE
      PROVE  PartCompiles(part, compiles, types, hint)
  <2>1. PartType(part, type, types, hint) # "invalid"
    BY <1>7, <1>8
  <2>2. CASE part.op = "field"
    BY <2>2 DEF PartCompiles
  <2>3. CASE part.op = "literal"
    <3>1. LiteralType(part.value, hint) # "invalid"
      BY <2>1, <2>3 DEF PartType
    <3>2. part.value \in Texts =>
            /\ hint = "date" => part.value = "day"
            /\ hint = "datetime" => part.value \in {"day", "moment"}
      BY <3>1, LiteralTypeIs DEF Texts
    <3> QED
      BY <2>3, <3>2 DEF PartCompiles
  <2>4. CASE part.op = "case"
    <3> DEFINE when == part.when
    <3>1. /\ ConditionIsTyped(when, types)
          /\ MergedType(type[part.left][hint], type[part.right][hint]) # "invalid"
      BY <2>1, <2>4 DEF PartType
    <3>2. type[part.left][hint] # "invalid" /\ type[part.right][hint] # "invalid"
      BY <3>1, MergedOfTypes
    <3>3. compiles[part.left][hint] = TRUE /\ compiles[part.right][hint] = TRUE
      BY <1>8, <2>4, <3>2 DEF IsBelow
    <3>4. when.field \in I /\ types[when.field] \in Types
      BY <3>1 DEF ConditionIsTyped
    <3>5. when.kind = "text" => types[when.field] = "string"
      BY <3>1 DEF ConditionIsTyped
    <3>6. when.values \subseteq Kinds
      BY <1>4, <2>4 DEF IsNode, IsCondition
    <3>7. ASSUME NEW value \in when.values
          PROVE  Binds(types[when.field], value)
      <4>1. Compatible(LiteralType(value, types[when.field]), types[when.field])
        BY <3>1 DEF ConditionIsTyped
      <4>2. value \in Kinds
        BY <3>6
      <4> QED
        BY <3>4, <4>1, <4>2, TypedValuesBind
    <3> QED
      BY <2>4, <3>3, <3>5, <3>7 DEF PartCompiles
  <2>5. CASE part.op \notin {"field", "literal", "case"}
    <3>1. {type[part.left]["any"], type[part.right]["any"]} \subseteq Numeric
      BY <2>1, <2>5 DEF PartType
    <3>2. type[part.left]["any"] # "invalid" /\ type[part.right]["any"] # "invalid"
      BY <3>1 DEF Numeric
    <3>3. compiles[part.left]["any"] = TRUE /\ compiles[part.right]["any"] = TRUE
      BY <1>8, <2>5, <3>2 DEF IsBelow
    <3> QED
      BY <2>5, <3>3 DEF PartCompiles
  <2> QED
    BY <2>2, <2>3, <2>4, <2>5
<1>9. \A d \in D : (\A x \in D : rank[x] < rank[d] => g[x] \in V) => g[d] \in V
  <2> SUFFICES ASSUME NEW d \in D, \A x \in D : rank[x] < rank[d] => g[x] \in V
               PROVE  g[d] \in V
    OBVIOUS
  <2>1. ~ IsBelow(d) =>
          \A h \in H :
            /\ type[d.left][h] # "invalid" => compiles[d.left][h] = TRUE
            /\ type[d.right][h] # "invalid" => compiles[d.right][h] = TRUE
    BY <1>5
  <2>2. ASSUME NEW hint \in H, type[d][hint] # "invalid"
        PROVE  compiles[d][hint] = TRUE
    <3>1. PartCompiles(d, compiles, types, hint)
      BY <1>8, <2>1, <2>2
    <3>2. compiles[d][hint] = PartCompiles(d, compiles, types, hint)
      BY <1>7
    <3> QED
      BY <3>1, <3>2
  <2> QED
    BY <2>2
<1>10. \A d \in D : g[d] \in V
  <2> HIDE DEF g, V
  <2> QED
    BY <1>5, <1>9, InductionByRank
<1>11. compiles[e][declared] = TRUE
  BY <1>4, <1>6, <1>10
<1> QED
  BY <1>2, <1>11

(* The fields an expression is about.                                      *)
HasField(part, id) ==
  \/ part.op = "field" /\ id = part.field
  \/ part.op = "case" /\ id = part.when.field

LEMMA FieldIdsAre ==
  ASSUME NEW e, NEW id
  PROVE  id \in FieldIds(e) <=> \E part \in ExpressionParts(e) : HasField(part, id)
BY DEF FieldIds, HasField

LEMMA FieldOfCopy ==
  ASSUME NEW part, IsNode(part), NEW copy, NEW to, NEW new, IsCopied(part, copy, to, new)
  PROVE  /\ copy.op = part.op
         /\ part.op = "field" => copy.field = new[part.field]
         /\ part.op = "case" => copy.when = Renamed(part.when, new)
<1>1. copy.op = part.op
  BY CopiesAreNodes
<1>2. ASSUME part.op = "field"
      PROVE  copy.field = new[part.field]
  <2>1. copy = Field(new[part.field])
    BY <1>2 DEF IsCopied
  <2> QED
    BY <2>1 DEF Field
<1>3. ASSUME part.op = "case"
      PROVE  copy.when = Renamed(part.when, new)
  <2>1. copy = Case(Renamed(part.when, new), to[part.left], to[part.right])
    BY <1>3 DEF IsCopied
  <2> QED
    BY <2>1 DEF Case
<1> QED
  BY <1>1, <1>2, <1>3

LEMMA FieldsOfCopy ==
  ASSUME NEW part, IsNode(part), NEW copy, NEW to, NEW new, IsCopied(part, copy, to, new),
         NEW id
  PROVE  HasField(copy, id) <=> \E x : HasField(part, x) /\ id = new[x]
<1>1. /\ copy.op = part.op
      /\ part.op = "field" => copy.field = new[part.field]
      /\ part.op = "case" => copy.when = Renamed(part.when, new)
  BY FieldOfCopy
<1>2. part.op = "case" => Renamed(part.when, new).field = new[part.when.field]
  <2> SUFFICES ASSUME part.op = "case"
               PROVE  Renamed(part.when, new).field = new[part.when.field]
    OBVIOUS
  <2>1. IsCondition(part.when)
    BY DEF IsNode
  <2> QED
    BY <2>1, RenamedWhen
<1>3. part.op = "case" => copy.when.field = new[part.when.field]
  BY <1>1, <1>2
<1> QED
  BY <1>1, <1>3 DEF HasField

(* A copy is about the copies of the fields.                               *)
LEMMA FieldIdsOfCopy ==
  ASSUME NEW e, IsExpression(e), NEW new
  PROVE  /\ IsExpression(Rewritten(e, new))
         /\ FieldIds(Rewritten(e, new)) = {new[id] : id \in FieldIds(e)}
<1>1. PICK to : /\ Rewritten(e, new) = to[e]
                /\ \A part \in ExpressionParts(e) : IsCopied(part, to[part], to, new)
  BY RewrittenByPart
<1>2. /\ IsExpression(to[e])
      /\ ExpressionParts(to[e]) = {to[part] : part \in ExpressionParts(e)}
  BY <1>1, PartsOfCopy
<1>3. \A part \in ExpressionParts(e) : IsNode(part)
  BY DEF IsExpression
<1>4. ASSUME NEW id
      PROVE  id \in FieldIds(to[e]) <=> \E x \in FieldIds(e) : id = new[x]
  <2>1. id \in FieldIds(to[e]) <=> \E part \in ExpressionParts(e) : HasField(to[part], id)
    BY <1>2, FieldIdsAre
  <2>2. \A part \in ExpressionParts(e) :
          HasField(to[part], id) <=> \E x : HasField(part, x) /\ id = new[x]
    BY <1>1, <1>3, FieldsOfCopy
  <2>3. \A x : x \in FieldIds(e) <=> \E part \in ExpressionParts(e) : HasField(part, x)
    BY FieldIdsAre
  <2> QED
    BY <2>1, <2>2, <2>3
<1> QED
  BY <1>1, <1>2, <1>4

(* What a copy has the types of.                                           *)
KeepsTypes(e, new, types, others) ==
  \A id \in FieldIds(e) :
    /\ id \in DOMAIN types /\ new[id] \in DOMAIN others
    /\ others[new[id]] = types[id]

PartKeepsTypes(part, new, types, others) ==
  \A id : HasField(part, id) =>
    /\ id \in DOMAIN types /\ new[id] \in DOMAIN others
    /\ others[new[id]] = types[id]

OperandsAgree(part, type, other, to, H) ==
  ~ IsBelow(part) =>
    \A h \in H : /\ other[to[part.left]][h] = type[part.left][h]
                 /\ other[to[part.right]][h] = type[part.right][h]

(* A part of a copy has the type of the part.                              *)
LEMMA TypesOfCopiedPart ==
  ASSUME NEW part, IsNode(part), NEW copy, NEW to, NEW new, IsCopied(part, copy, to, new),
         NEW types, NEW others, PartKeepsTypes(part, new, types, others),
         NEW type, NEW other, NEW H, "any" \in H, NEW hint \in H,
         OperandsAgree(part, type, other, to, H)
  PROVE  PartType(copy, other, others, hint) = PartType(part, type, types, hint)
<1>1. /\ copy.op = part.op
      /\ part.op = "field" => copy.field = new[part.field]
      /\ part.op = "case" => copy.when = Renamed(part.when, new)
  BY FieldOfCopy
<1>2. ~ IsBelow(part) => copy.left = to[part.left] /\ copy.right = to[part.right]
  BY CopiesAreNodes
<1>3. CASE part.op = "field"
  <2>1. others[new[part.field]] = types[part.field]
    BY <1>3 DEF HasField, PartKeepsTypes
  <2> QED
    BY <1>1, <1>3, <2>1 DEF PartType
<1>4. CASE part.op = "literal"
  <2>1. copy = part
    BY <1>4 DEF IsCopied
  <2> QED
    BY <1>4, <2>1 DEF PartType
<1>5. CASE part.op = "case"
  <2> DEFINE when == part.when
             renamed == Renamed(when, new)
  <2>1. IsCondition(when)
    BY <1>5 DEF IsNode
  <2>2. renamed.kind = when.kind /\ renamed.field = new[when.field] /\ renamed.values = when.values
    BY <2>1, RenamedWhen
  <2>3. /\ when.field \in DOMAIN types /\ new[when.field] \in DOMAIN others
        /\ others[new[when.field]] = types[when.field]
    BY <1>5 DEF HasField, PartKeepsTypes
  <2>4. copy.when = renamed
    BY <1>1, <1>5
  <2> HIDE DEF when, renamed
  <2>5. ConditionIsTyped(renamed, others) <=> ConditionIsTyped(when, types)
    BY <2>2, <2>3 DEF ConditionIsTyped
  <2>6. MergedType(other[copy.left][hint], other[copy.right][hint])
          = MergedType(type[part.left][hint], type[part.right][hint])
    BY <1>2, <1>5 DEF IsBelow, OperandsAgree
  <2>7. PartType(copy, other, others, hint)
          = IF ConditionIsTyped(copy.when, others)
              THEN MergedType(other[copy.left][hint], other[copy.right][hint]) ELSE "invalid"
    BY <1>1, <1>5 DEF PartType
  <2>8. PartType(part, type, types, hint)
          = IF ConditionIsTyped(part.when, types)
              THEN MergedType(type[part.left][hint], type[part.right][hint]) ELSE "invalid"
    BY <1>5 DEF PartType
  <2> QED
    BY <2>4, <2>5, <2>6, <2>7, <2>8 DEF when
<1>6. CASE part.op \notin {"field", "literal", "case"}
  <2>1. other[copy.left]["any"] = type[part.left]["any"]
    BY <1>2, <1>6 DEF IsBelow, OperandsAgree
  <2>2. other[copy.right]["any"] = type[part.right]["any"]
    BY <1>2, <1>6 DEF IsBelow, OperandsAgree
  <2> QED
    BY <1>1, <1>6, <2>1, <2>2 DEF PartType
<1> QED
  BY <1>3, <1>4, <1>5, <1>6

(* A copy has the type of what it is a copy of.                            *)
LEMMA TypeOfCopy ==
  ASSUME NEW e, IsExpression(e), NEW new, NEW types, NEW others,
         KeepsTypes(e, new, types, others), NEW expected
  PROVE  InferredType(Rewritten(e, new), others, expected) = InferredType(e, types, expected)
<1> DEFINE D == ExpressionParts(e)
           H == {expected, "any"}
<1>1. PICK to : /\ Rewritten(e, new) = to[e]
                /\ \A part \in ExpressionParts(e) : IsCopied(part, to[part], to, new)
  BY RewrittenByPart
<1>2. /\ IsExpression(to[e])
      /\ ExpressionParts(to[e]) = {to[part] : part \in D}
  BY <1>1, PartsOfCopy
<1>3. PICK type : /\ InferredType(e, types, expected) = type[e][expected]
                  /\ \A part \in ExpressionParts(e), hint \in {expected, "any"} :
                       type[part][hint] = PartType(part, type, types, hint)
  BY InferredByPart
<1>4. PICK other : /\ InferredType(to[e], others, expected) = other[to[e]][expected]
                   /\ \A part \in ExpressionParts(to[e]), hint \in {expected, "any"} :
                        other[part][hint] = PartType(part, other, others, hint)
  <2>1. IsExpression(to[e])
    BY <1>2
  <2> QED
    BY <2>1, InferredByPart
<1>5. PICK rank : PartsRanked(e, rank)
  BY ExpressionsHaveRank
<1>6. e \in D /\ \A part \in D : IsNode(part)
  BY ExpressionsHaveRank DEF IsExpression
<1>7. /\ rank \in [D -> Nat]
      /\ \A part \in D : ~ IsBelow(part) =>
           /\ part.left \in D /\ rank[part.left] < rank[part]
           /\ part.right \in D /\ rank[part.right] < rank[part]
  BY <1>5 DEF PartsRanked
<1>8. \A part \in D, hint \in H :
        /\ type[part][hint] = PartType(part, type, types, hint)
        /\ other[to[part]][hint] = PartType(to[part], other, others, hint)
  BY <1>2, <1>3, <1>4
<1>9. \A part \in D : PartKeepsTypes(part, new, types, others)
  BY FieldIdsAre DEF KeepsTypes, PartKeepsTypes
<1>10. \A part \in D : IsCopied(part, to[part], to, new)
  BY <1>1
<1> HIDE DEF D
<1> DEFINE g == [part \in D |-> \A hint \in H : other[to[part]][hint] = type[part][hint]]
           V == {TRUE}
<1>11. \A d \in D : (\A x \in D : rank[x] < rank[d] => g[x] \in V) => g[d] \in V
  <2> SUFFICES ASSUME NEW d \in D, \A x \in D : rank[x] < rank[d] => g[x] \in V
               PROVE  g[d] \in V
    OBVIOUS
  <2>1. OperandsAgree(d, type, other, to, H)
    BY <1>7 DEF OperandsAgree
  <2>2. ASSUME NEW hint \in H
        PROVE  other[to[d]][hint] = type[d][hint]
    <3>1. IsNode(d)
      BY <1>6
    <3>2. IsCopied(d, to[d], to, new)
      BY <1>10
    <3>3. "any" \in H
      OBVIOUS
    <3>4. PartKeepsTypes(d, new, types, others)
      BY <1>9
    <3> HIDE DEF H
    <3>5. PartType(to[d], other, others, hint) = PartType(d, type, types, hint)
      BY <2>1, <3>1, <3>2, <3>3, <3>4, TypesOfCopiedPart
    <3> QED
      BY <1>8, <3>5
  <2> QED
    BY <2>2
<1>12. \A d \in D : g[d] \in V
  <2> HIDE DEF g, V
  <2> QED
    BY <1>7, <1>11, InductionByRank
<1>13. other[to[e]][expected] = type[e][expected]
  BY <1>6, <1>12
<1> QED
  BY <1>1, <1>3, <1>4, <1>13

LEMMA CopyIsTyped ==
  ASSUME NEW e, IsExpression(e), NEW new, NEW types, NEW others,
         KeepsTypes(e, new, types, others), NEW declared, IsTyped(e, types, declared)
  PROVE  IsTyped(Rewritten(e, new), others, declared)
<1>1. FieldIds(Rewritten(e, new)) = {new[id] : id \in FieldIds(e)}
  BY FieldIdsOfCopy
<1>2. FieldIds(Rewritten(e, new)) \subseteq DOMAIN others
  BY <1>1 DEF KeepsTypes
<1>3. InferredType(Rewritten(e, new), others, declared) = InferredType(e, types, declared)
  BY TypeOfCopy
<1> QED
  BY <1>2, <1>3 DEF IsTyped

(* The calculated fields are put in order level by level.                  *)
IsOrder(of, done) ==
  /\ done[0] = {}
  /\ \A n \in Nat :
       /\ done[n] \subseteq Calculated(of)
       /\ done[n + 1] = done[n] \cup
            {id \in Calculated(of) : Dependencies(of, id) \subseteq done[n]}

LEMMA CompileOrderIs ==
  ASSUME NEW of
  PROVE  \E done : IsOrder(of, done) /\ CompileOrder(of) = done[Cardinality(Calculated(of))]
<1> DEFINE C == Calculated(of)
           Ready(s) == {id \in C : Dependencies(of, id) \subseteq s}
           IsSolution(d) == d = [n \in Nat |-> IF n = 0 THEN {} ELSE d[n - 1] \cup Ready(d[n - 1])]
           done == CHOOSE d : IsSolution(d)
           step == [n \in Nat |-> [s \in SUBSET C |-> s \cup Ready(s)]]
<1>1. CompileOrder(of) = done[Cardinality(C)]
  BY DEF CompileOrder
<1> HIDE DEF C
<1>2. step \in [Nat -> [SUBSET C -> SUBSET C]] /\ {} \in SUBSET C
  OBVIOUS
<1>3. \A n \in Nat, s \in SUBSET C : step[n][s] = s \cup Ready(s)
  OBVIOUS
<1> HIDE DEF step, Ready
<1>4. \E d : IsSolution(d) /\ d \in [Nat -> SUBSET C]
  <2> DEFINE S == SUBSET C
             start == {}
  <2>1. start \in S /\ step \in [Nat -> [S -> S]]
    BY <1>2
  <2> HIDE DEF S, start
  <2>2. HasRun(S, start, step)
    BY <2>1, StepsRun
  <2>3. PICK f \in [Nat -> S] :
          f = [n \in Nat |-> IF n = 0 THEN start ELSE step[n][f[n - 1]]]
    BY <2>2 DEF HasRun
  <2>4. ASSUME NEW n \in Nat, n # 0
        PROVE  step[n][f[n - 1]] = f[n - 1] \cup Ready(f[n - 1])
    <3>1. n - 1 \in Nat
      BY <2>4
    <3>2. f[n - 1] \in SUBSET C
      BY <3>1 DEF S
    <3> QED
      BY <1>3, <3>2
  <2>5. f = [n \in Nat |-> IF n = 0 THEN {} ELSE f[n - 1] \cup Ready(f[n - 1])]
    BY <2>3, <2>4 DEF start
  <2>6. IsSolution(f)
    BY <2>5
  <2>7. f \in [Nat -> SUBSET C]
    BY DEF S
  <2> HIDE DEF IsSolution
  <2> QED
    BY <2>6, <2>7
<1>5. PICK d : IsSolution(d) /\ d \in [Nat -> SUBSET C]
  <2> HIDE DEF IsSolution
  <2> QED
    BY <1>4
<1>6. IsSolution(done)
  <2> HIDE DEF IsSolution
  <2> QED
    BY <1>5
<1> HIDE DEF done
<1>7. /\ done[0] = {}
      /\ \A n \in Nat : done[n + 1] = done[n] \cup Ready(done[n])
  <2>1. done[0] = {}
    BY <1>6
  <2>2. ASSUME NEW n \in Nat
        PROVE  done[n + 1] = done[n] \cup Ready(done[n])
    <3>1. n + 1 \in Nat /\ n + 1 # 0 /\ (n + 1) - 1 = n
      OBVIOUS
    <3>2. done[n + 1] = done[(n + 1) - 1] \cup Ready(done[(n + 1) - 1])
      BY <1>6, <3>1
    <3> QED
      BY <3>1, <3>2
  <2> QED
    BY <2>1, <2>2
<1> HIDE DEF IsSolution
<1>8. \A n \in Nat : done[n] \subseteq C
  <2> DEFINE T == {k \in Nat : done[k] \subseteq C}
  <2>1. 0 \in T
    BY <1>7
  <2>2. \A k \in T \cap Nat : k + 1 \in T
    BY <1>7 DEF Ready
  <2>3. ASSUME NEW n \in Nat
        PROVE  n \in T
    <3> HIDE DEF T
    <3> QED
      BY <2>1, <2>2, Reaches
  <2> QED
    BY <2>3
<1>9. IsOrder(of, done)
  BY <1>7, <1>8 DEF IsOrder, C, Ready
<1> QED
  BY <1>1, <1>9 DEF C

(* The fields of a version, and those of a version that copies them under  *)
(* new identifiers and may add one.                                        *)
TypesOf(of) == [id \in DOMAIN of |-> of[id].type]
Copies(of, new) == {new[id] : id \in DOMAIN of}

IsField(f) ==
  /\ f.type \in Types
  /\ f.kind \in {"source", "calculated"}
  /\ f.kind = "calculated" =>
       f = CalculatedField(f.type, f.expression) /\ IsExpression(f.expression)

AreFields(of) ==
  /\ \E v \in Nat, n \in Nat \ {0} : DOMAIN of = {Id(v, k) : k \in 1..n}
  /\ \A id \in DOMAIN of : IsField(of[id])

IsFieldCopy(copy, f, new) ==
  /\ copy.kind = f.kind /\ copy.type = f.type
  /\ f.kind = "calculated" => copy.expression = Rewritten(f.expression, new)

Adds(of, new, next, id) ==
  /\ id \notin Copies(of, new)
  /\ next[id].kind = "calculated"
  /\ FieldIds(next[id].expression) \subseteq Copies(of, new)
  /\ IsTyped(next[id].expression, TypesOf(next), next[id].type)

Succeeds(of, new, next, added) ==
  /\ \A a, b \in DOMAIN of : new[a] = new[b] => a = b
  /\ DOMAIN next = Copies(of, new) \cup added
  /\ \A id \in DOMAIN of : IsFieldCopy(next[new[id]], of[id], new)
  /\ \A id \in added : Adds(of, new, next, id)
  /\ \A a, b \in added : a = b

(* Fields keep their dependencies.                                         *)
LEMMA DependenciesOfCopy ==
  ASSUME NEW of, AreFields(of), GraphIsValid(of),
         NEW new, NEW next, NEW added, Succeeds(of, new, next, added),
         NEW id \in Calculated(of)
  PROVE  /\ new[id] \in Calculated(next)
         /\ FieldIds(next[new[id]].expression) = {new[x] : x \in FieldIds(of[id].expression)}
         /\ FieldIds(of[id].expression) \subseteq DOMAIN of
         /\ Dependencies(next, new[id]) = {new[x] : x \in Dependencies(of, id)}
<1> DEFINE e == of[id].expression
<1>1. id \in DOMAIN of /\ of[id].kind = "calculated"
  BY DEF Calculated
<1>2. IsExpression(e)
  BY <1>1 DEF AreFields, IsField
<1>3. new[id] \in DOMAIN next /\ IsFieldCopy(next[new[id]], of[id], new)
  BY <1>1 DEF Succeeds, Copies
<1>4. next[new[id]].expression = Rewritten(e, new)
  BY <1>1, <1>3 DEF IsFieldCopy
<1>5. FieldIds(e) \subseteq DOMAIN of
  BY DEF GraphIsValid
<1> HIDE DEF e
<1>6. FieldIds(Rewritten(e, new)) = {new[x] : x \in FieldIds(e)}
  BY <1>2, FieldIdsOfCopy
<1>7. \A x \in DOMAIN of : new[x] \in Calculated(next) <=> x \in Calculated(of)
  BY DEF Succeeds, Copies, IsFieldCopy, Calculated
<1>8. Dependencies(next, new[id]) = {new[x] : x \in Dependencies(of, id)}
  BY <1>4, <1>5, <1>6, <1>7 DEF Dependencies, e
<1> QED
  BY <1>1, <1>4, <1>5, <1>6, <1>7, <1>8 DEF e

LEMMA CalculatedAreFinite ==
  ASSUME NEW of, AreFields(of)
  PROVE  IsFiniteSet(DOMAIN of) /\ IsFiniteSet(Calculated(of))
<1>1. PICK v \in Nat, n \in Nat \ {0} : DOMAIN of = {Id(v, k) : k \in 1..n}
  BY DEF AreFields
<1> DEFINE ids == [k \in 1..n |-> Id(v, k)]
<1>2. IsFiniteSet(1..n)
  BY FS_Interval
<1>3. DOMAIN ids = 1..n /\ {ids[k] : k \in 1..n} = DOMAIN of
  BY <1>1
<1> HIDE DEF ids
<1>4. IsFiniteSet({ids[k] : k \in 1..n})
  BY <1>2, <1>3, ImageIsFinite
<1>5. Calculated(of) \subseteq DOMAIN of
  BY DEF Calculated
<1> QED
  BY <1>3, <1>4, <1>5, FS_Subset

(* They are ordered as the ones they are copied from, and the new field    *)
(* comes after those.                                                      *)
LEMMA CopiesAreOrdered ==
  ASSUME NEW of, AreFields(of), GraphIsValid(of),
         NEW new, NEW next, NEW added, Succeeds(of, new, next, added)
  PROVE  CompileOrder(next) = Calculated(next)
<1> DEFINE C == Calculated(of)
           N == Calculated(next)
           copies == {new[id] : id \in C}
           c == Cardinality(C)
<1>1. PICK done : IsOrder(of, done) /\ CompileOrder(of) = done[Cardinality(Calculated(of))]
  BY CompileOrderIs
<1>2. PICK later : IsOrder(next, later) /\ CompileOrder(next) = later[Cardinality(Calculated(next))]
  BY CompileOrderIs
<1>3. done[c] = C
  BY <1>1 DEF GraphIsValid
<1>4. IsFiniteSet(C) /\ c \in Nat
  BY CalculatedAreFinite, FS_CardinalityType
<1>5. N = copies \cup added /\ copies \cap added = {} /\ \A a, b \in added : a = b
  BY DEF Succeeds, Copies, IsFieldCopy, Adds, Calculated
<1>6. \A a, b \in C : new[a] = new[b] => a = b
  BY DEF Succeeds, Calculated
<1>7. IsFiniteSet(copies) /\ c <= Cardinality(copies) /\ Cardinality(copies) \in Nat
  <2> DEFINE f == [id \in C |-> new[id]]
  <2>1. DOMAIN f = C /\ copies = {f[id] : id \in C}
    OBVIOUS
  <2>2. f \in Injection(C, copies)
    BY <1>6 DEF Injection, IsInjective
  <2> HIDE DEF f, C, copies
  <2>3. IsFiniteSet(copies)
    BY <1>4, <2>1, ImageIsFinite
  <2>4. Cardinality(C) <= Cardinality(copies)
    BY <2>2, <2>3, FS_Injection
  <2> QED
    BY <2>3, <2>4, FS_CardinalityType
<1> DEFINE T == {n \in Nat : \A id \in done[n] : new[id] \in later[n]}
<1>8. 0 \in T
  BY <1>1 DEF IsOrder
<1>9. ASSUME NEW n \in T \cap Nat
      PROVE  n + 1 \in T
  <2> SUFFICES ASSUME NEW id \in done[n + 1]
               PROVE  new[id] \in later[n + 1]
    OBVIOUS
  <2>1. /\ done[n + 1] = done[n] \cup {x \in C : Dependencies(of, x) \subseteq done[n]}
        /\ later[n + 1] = later[n] \cup {x \in N : Dependencies(next, x) \subseteq later[n]}
    BY <1>1, <1>2 DEF IsOrder
  <2>2. CASE id \in done[n]
    BY <1>9, <2>1, <2>2
  <2>3. CASE id \in C /\ Dependencies(of, id) \subseteq done[n]
    <3>1. /\ new[id] \in Calculated(next)
          /\ Dependencies(next, new[id]) = {new[x] : x \in Dependencies(of, id)}
      BY <2>3, DependenciesOfCopy
    <3>2. Dependencies(next, new[id]) \subseteq later[n]
      BY <1>9, <2>3, <3>1
    <3> QED
      BY <2>1, <3>1, <3>2
  <2> QED
    BY <2>1, <2>2, <2>3
<1>10. \A n \in Nat : n \in T
  <2> SUFFICES ASSUME NEW n \in Nat PROVE n \in T
    OBVIOUS
  <2> HIDE DEF T
  <2> QED
    BY <1>8, <1>9, Reaches
<1>11. copies \subseteq later[c]
  BY <1>3, <1>4, <1>10
<1> DEFINE Stays == {n \in Nat : copies \subseteq later[c + n]}
<1>12. 0 \in Stays
  BY <1>4, <1>11
<1>13. ASSUME NEW n \in Stays \cap Nat
       PROVE  n + 1 \in Stays
  <2>1. c + n \in Nat /\ (c + n) + 1 = c + (n + 1)
    BY <1>4
  <2>2. later[c + n] \subseteq later[(c + n) + 1]
    BY <1>2, <2>1 DEF IsOrder
  <2> QED
    BY <1>13, <2>1, <2>2
<1>14. \A n \in Nat : copies \subseteq later[c + n]
  <2> SUFFICES ASSUME NEW n \in Nat PROVE n \in Stays
    OBVIOUS
  <2> HIDE DEF Stays
  <2> QED
    BY <1>12, <1>13, Reaches
<1>15. \A m \in Nat : c <= m => copies \subseteq later[m]
  <2> SUFFICES ASSUME NEW m \in Nat, c <= m PROVE copies \subseteq later[m]
    OBVIOUS
  <2>1. m - c \in Nat /\ c + (m - c) = m
    BY <1>4
  <2> QED
    BY <1>14, <2>1
<1>16. CASE added = {}
  <2>1. N = copies
    BY <1>5, <1>16
  <2>2. copies \subseteq later[Cardinality(N)] /\ Cardinality(N) \in Nat
    <3> HIDE DEF copies, N, c
    <3> QED
      BY <1>7, <1>15, <2>1
  <2>3. later[Cardinality(N)] \subseteq N
    BY <1>2, <2>2 DEF IsOrder
  <2> QED
    BY <1>2, <2>1, <2>2, <2>3
<1>17. ASSUME NEW last \in added
       PROVE  CompileOrder(next) = N
  <2>1. added = {last} /\ N = copies \cup {last} /\ last \notin copies
    BY <1>5, <1>17
  <2> DEFINE m == Cardinality(copies)
  <2>2. Cardinality(N) = m + 1
    <3> HIDE DEF copies, N
    <3> QED
      BY <1>7, <2>1, FS_AddElement
  <2>3. m \in Nat /\ copies \subseteq later[m]
    <3> HIDE DEF copies, N, c
    <3> QED
      BY <1>7, <1>15
  <2>4. /\ later[m + 1] = later[m] \cup {x \in N : Dependencies(next, x) \subseteq later[m]}
        /\ later[m + 1] \subseteq N
    <3>1. m + 1 \in Nat
      BY <2>3
    <3> HIDE DEF m
    <3> QED
      BY <1>2, <2>3, <3>1 DEF IsOrder
  <2>5. FieldIds(next[last].expression) \subseteq Copies(of, new)
    BY DEF Succeeds, Adds
  <2>6. Copies(of, new) \cap N \subseteq copies
    BY DEF Succeeds, Copies, IsFieldCopy, Calculated
  <2>7. Dependencies(next, last) \subseteq copies
    BY <2>5, <2>6 DEF Dependencies
  <2> HIDE DEF m, copies
  <2>8. N \subseteq later[m + 1]
    BY <2>1, <2>3, <2>4, <2>7
  <2> QED
    BY <1>2, <2>2, <2>4, <2>8
<1> QED
  BY <1>16, <1>17

(* The fields of the next version are valid.                               *)
LEMMA CopiesAreValid ==
  ASSUME NEW of, AreFields(of), GraphIsValid(of),
         NEW new, NEW next, NEW added, Succeeds(of, new, next, added)
  PROVE  GraphIsValid(next)
<1>1. CompileOrder(next) = Calculated(next)
  BY CopiesAreOrdered
<1>2. \A x \in Calculated(next) :
        (\E id \in Calculated(of) : x = new[id]) \/ x \in added
  BY DEF Succeeds, Copies, IsFieldCopy, Calculated
<1>3. Copies(of, new) \subseteq DOMAIN next
  BY DEF Succeeds
<1>4. ASSUME NEW x \in Calculated(next)
      PROVE  FieldIds(next[x].expression) \subseteq DOMAIN next
  <2>1. ASSUME NEW id \in Calculated(of), x = new[id]
        PROVE  FieldIds(next[x].expression) \subseteq DOMAIN next
    <3>1. /\ FieldIds(next[new[id]].expression) = {new[y] : y \in FieldIds(of[id].expression)}
          /\ FieldIds(of[id].expression) \subseteq DOMAIN of
      BY DependenciesOfCopy
    <3> QED
      BY <1>3, <2>1, <3>1 DEF Copies
  <2>2. ASSUME x \in added
        PROVE  FieldIds(next[x].expression) \subseteq DOMAIN next
    BY <1>3, <2>2 DEF Succeeds, Adds
  <2> QED
    BY <1>2, <2>1, <2>2
<1>5. ASSUME NEW x \in Calculated(next)
      PROVE  IsTyped(next[x].expression, TypesOf(next), next[x].type)
  <2>1. ASSUME NEW id \in Calculated(of), x = new[id]
        PROVE  IsTyped(next[x].expression, TypesOf(next), next[x].type)
    <3> DEFINE e == of[id].expression
    <3>1. /\ id \in DOMAIN of /\ of[id].kind = "calculated"
          /\ FieldIds(e) \subseteq DOMAIN of
      BY DependenciesOfCopy DEF Calculated
    <3>2. IsExpression(e)
      BY <3>1 DEF AreFields, IsField
    <3>3. IsTyped(e, TypesOf(of), of[id].type)
      BY DEF GraphIsValid, TypesOf
    <3>4. /\ next[x].type = of[id].type
          /\ next[x].expression = Rewritten(e, new)
      BY <2>1, <3>1 DEF Succeeds, IsFieldCopy
    <3>5. KeepsTypes(e, new, TypesOf(of), TypesOf(next))
      <4>1. ASSUME NEW y \in FieldIds(e)
            PROVE  /\ y \in DOMAIN of /\ new[y] \in DOMAIN next
                   /\ next[new[y]].type = of[y].type
        BY <1>3, <3>1 DEF Succeeds, IsFieldCopy, Copies
      <4> HIDE DEF e
      <4> QED
        BY <4>1 DEF KeepsTypes, TypesOf
    <3> HIDE DEF e
    <3>6. IsTyped(Rewritten(e, new), TypesOf(next), of[id].type)
      BY <3>2, <3>3, <3>5, CopyIsTyped
    <3> QED
      BY <3>4, <3>6
  <2>2. ASSUME x \in added
        PROVE  IsTyped(next[x].expression, TypesOf(next), next[x].type)
    BY <2>2 DEF Succeeds, Adds
  <2> QED
    BY <1>2, <2>1, <2>2
<1> QED
  BY <1>1, <1>4, <1>5 DEF GraphIsValid, TypesOf

(* _compile_calculated_fields: what is valid compiles.                     *)
LEMMA ValidFieldsCompile ==
  ASSUME NEW of, AreFields(of), GraphIsValid(of)
  PROVE  FieldsCompile(of)
<1>1. ASSUME NEW id \in Calculated(of)
      PROVE  Compiles(of[id].expression, TypesOf(of), of[id].type)
  <2>1. IsField(of[id]) /\ of[id].kind = "calculated"
    BY DEF AreFields, Calculated
  <2>2. IsExpression(of[id].expression)
    BY <2>1 DEF IsField
  <2>3. of[id].type \in Types
    BY <2>1 DEF IsField
  <2>4. TypesOf(of) \in [DOMAIN of -> Types]
    BY DEF AreFields, IsField, TypesOf
  <2>5. IsTyped(of[id].expression, TypesOf(of), of[id].type)
    BY DEF GraphIsValid, TypesOf
  <2> QED
    BY <2>2, <2>3, <2>4, <2>5, TypedCompiles
<1> QED
  BY <1>1 DEF FieldsCompile, TypesOf

-----------------------------------------------------------------------------
(* The identifiers of the next version.                                    *)
LEMMA IdsAreRenewed ==
  ASSUME NEW of, NEW v \in Nat, NEW n \in Nat \ {0},
         DOMAIN of = {Id(v, k) : k \in 1..n}
  PROVE  /\ \A a, b \in DOMAIN of : Renewed(of)[a] = Renewed(of)[b] => a = b
         /\ \A k \in 1..n : Renewed(of)[Id(v, k)] = Id(v + 1, k)
         /\ Range(Renewed(of)) = {Id(v + 1, k) : k \in 1..n}
         /\ Copies(of, Renewed(of)) = Range(Renewed(of))
         /\ Version(of) = v /\ Cardinality(DOMAIN of) = n
<1>1. \A k \in 1..n : Renewed(of)[Id(v, k)] = Id(v + 1, k)
  BY DEF Renewed, Id
<1>2. ASSUME NEW a \in DOMAIN of, NEW b \in DOMAIN of, Renewed(of)[a] = Renewed(of)[b]
      PROVE  a = b
  <2>1. PICK i \in 1..n, j \in 1..n : a = Id(v, i) /\ b = Id(v, j)
    OBVIOUS
  <2>2. Id(v + 1, i) = Id(v + 1, j)
    BY <1>1, <1>2, <2>1
  <2> QED
    BY <2>1, <2>2 DEF Id
<1>3. Range(Renewed(of)) = {Id(v + 1, k) : k \in 1..n}
  <2>1. DOMAIN Renewed(of) = DOMAIN of
    BY DEF Renewed
  <2> QED
    BY <1>1, <2>1 DEF Range
<1>4. Copies(of, Renewed(of)) = Range(Renewed(of))
  BY DEF Copies, Renewed, Range
<1>5. Version(of) = v
  <2>1. Id(v, 1) \in DOMAIN of
    OBVIOUS
  <2>2. (CHOOSE id \in DOMAIN of : TRUE) \in DOMAIN of
    BY <2>1
  <2>3. \A id \in DOMAIN of : id[1] = v
    BY DEF Id
  <2> QED
    BY <2>2, <2>3 DEF Version
<1>6. Cardinality(DOMAIN of) = n
  <2> DEFINE f == [k \in 1..n |-> Id(v, k)]
  <2>1. f \in Bijection(1..n, DOMAIN of)
    BY DEF Bijection, Injection, Surjection, IsInjective, Id
  <2>2. IsFiniteSet(1..n) /\ Cardinality(1..n) = n
    BY FS_Interval
  <2>3. ExistsBijection(1..n, DOMAIN of)
    BY <2>1 DEF ExistsBijection
  <2> QED
    BY <2>2, <2>3, FS_Bijection
<1> QED
  BY <1>1, <1>2, <1>3, <1>4, <1>5, <1>6

(* _copy_fields                                                            *)
LEMMA CopiedFields ==
  ASSUME NEW of, AreFields(of), NEW id \in DOMAIN of,
         \A a, b \in DOMAIN of : Renewed(of)[a] = Renewed(of)[b] => a = b
  PROVE  /\ IsFieldCopy(Copied(of, Renewed(of))[Renewed(of)[id]], of[id], Renewed(of))
         /\ IsField(Copied(of, Renewed(of))[Renewed(of)[id]])
         /\ DOMAIN Copied(of, Renewed(of)) = Range(Renewed(of))
<1> DEFINE new == Renewed(of)
           old == of[id]
           copy == Copied(of, new)[new[id]]
<1>1. DOMAIN new = DOMAIN of
  BY DEF Renewed
<1>2. new[id] \in Range(new)
  BY <1>1 DEF Range
<1>3. (CHOOSE o \in DOMAIN new : new[o] = new[id]) = id
  BY <1>1
<1>4. copy = IF old.kind = "source" THEN old
             ELSE [old EXCEPT !.expression = Stored(Rewritten(@, new))]
  <2> HIDE DEF new
  <2> DEFINE o == CHOOSE o \in DOMAIN new : new[o] = new[id]
  <2>1. Copied(of, new)[new[id]]
          = IF of[o].kind = "source" THEN of[o]
            ELSE [of[o] EXCEPT !.expression = Stored(Rewritten(@, new))]
    BY <1>2 DEF Copied
  <2>2. o = id
    BY <1>3
  <2> HIDE DEF o
  <2> QED
    BY <2>1, <2>2
<1>5. IsField(old)
  BY DEF AreFields
<1>6. CASE old.kind = "source"
  BY <1>4, <1>5, <1>6 DEF IsFieldCopy, Copied
<1>7. CASE old.kind = "calculated"
  <2> DEFINE e == old.expression
             type == old.type
  <2>1. old = CalculatedField(type, e) /\ IsExpression(e)
    BY <1>5, <1>7 DEF IsField
  <2>2. copy = [old EXCEPT !.expression = Stored(Rewritten(@, new))]
    BY <1>4, <1>7
  <2> HIDE DEF new, old, copy, e, type
  <2>3. [CalculatedField(type, e) EXCEPT !.expression = Stored(Rewritten(@, new))]
          = CalculatedField(type, Stored(Rewritten(e, new)))
    <3> DEFINE S == {"kind", "type", "expression"}
               a == [CalculatedField(type, e) EXCEPT !.expression = Stored(Rewritten(@, new))]
               b == CalculatedField(type, Stored(Rewritten(e, new)))
    <3>1. a = [x \in S |-> a[x]] /\ b = [x \in S |-> b[x]]
      BY DEF CalculatedField
    <3>2. a.kind = b.kind
      BY DEF CalculatedField
    <3>3. a.type = b.type
      BY DEF CalculatedField
    <3>4. a.expression = b.expression
      BY DEF CalculatedField
    <3> HIDE DEF a, b
    <3>5. \A x \in S : a[x] = b[x]
      BY <3>2, <3>3, <3>4
    <3> HIDE DEF S
    <3>6. a = b
      BY <3>1, <3>5, SameFunctions
    <3> QED
      BY <3>6 DEF a, b
  <2>4. IsExpression(Rewritten(e, new))
    BY <2>1, FieldIdsOfCopy
  <2>5. Stored(Rewritten(e, new)) = Rewritten(e, new)
    BY <2>4, StoredAsItIs
  <2>6. copy = CalculatedField(type, Rewritten(e, new))
    BY <2>1, <2>2, <2>3, <2>5, Zenon
  <2>7. copy.kind = "calculated" /\ copy.type = type /\ copy.expression = Rewritten(e, new)
    BY <2>6 DEF CalculatedField
  <2>8. copy = CalculatedField(copy.type, copy.expression)
    BY <2>6, <2>7, Zenon
  <2>9. old.kind = "calculated" /\ type \in Types
    BY <1>5, <1>7 DEF IsField, type
  <2>10. IsField(copy)
    BY <2>4, <2>7, <2>8, <2>9 DEF IsField
  <2>11. IsFieldCopy(copy, old, new)
    BY <2>7, <2>9 DEF IsFieldCopy, e, type
  <2>12. DOMAIN Copied(of, new) = Range(new)
    BY DEF Copied
  <2> QED
    BY <2>10, <2>11, <2>12 DEF copy, old, new
<1> QED
  BY <1>5, <1>6, <1>7 DEF IsField

(* What holds of a version is kept in the next one.                        *)
AreValid(of) == AreFields(of) /\ GraphIsValid(of)

LEMMA CopyIsValid ==
  ASSUME NEW of, AreValid(of)
  PROVE  /\ AreValid(Copied(of, Renewed(of)))
         /\ Succeeds(of, Renewed(of), Copied(of, Renewed(of)), {})
<1> DEFINE new == Renewed(of)
           next == Copied(of, new)
<1>1. PICK v \in Nat, n \in Nat \ {0} : DOMAIN of = {Id(v, k) : k \in 1..n}
  BY DEF AreValid, AreFields
<1>2. /\ \A a, b \in DOMAIN of : Renewed(of)[a] = Renewed(of)[b] => a = b
      /\ Range(Renewed(of)) = {Id(v + 1, k) : k \in 1..n}
      /\ Copies(of, Renewed(of)) = Range(Renewed(of))
  BY <1>1, IdsAreRenewed
<1>3. AreFields(of) /\ GraphIsValid(of)
  BY DEF AreValid
<1>4. ASSUME NEW id \in DOMAIN of
      PROVE  IsFieldCopy(next[new[id]], of[id], new) /\ IsField(next[new[id]])
  BY <1>2, <1>3, CopiedFields
<1>5. DOMAIN next = Range(new)
  BY DEF Copied
<1> HIDE DEF new, next
<1>6. Succeeds(of, new, next, {})
  BY <1>2, <1>4, <1>5 DEF Succeeds, new
<1>7. AreFields(next)
  <2>1. \A x \in DOMAIN next : \E id \in DOMAIN of : x = new[id]
    BY <1>2, <1>5 DEF Copies, new
  <2>2. \A x \in DOMAIN next : IsField(next[x])
    BY <1>4, <2>1
  <2>3. v + 1 \in Nat /\ n \in Nat \ {0} /\ DOMAIN next = {Id(v + 1, k) : k \in 1..n}
    BY <1>2, <1>5 DEF new
  <2> QED
    BY <2>2, <2>3 DEF AreFields
<1>8. GraphIsValid(next)
  BY <1>3, <1>6, CopiesAreValid
<1> QED
  BY <1>6, <1>7, <1>8 DEF AreValid, next, new

Created(of, type, e) ==
  LET new == Renewed(of)
      last == Id(Version(of) + 1, Cardinality(DOMAIN of) + 1)
  IN [id \in Range(new) \cup {last} |->
        IF id = last THEN CalculatedField(type, Stored(Rewritten(e, new)))
        ELSE Copied(of, new)[id]]

LEMMA CreatedIsValid ==
  ASSUME NEW of, AreValid(of), NEW type \in Types, NEW e, IsExpression(e),
         IsTyped(e, TypesOf(of), type)
  PROVE  /\ AreValid(Created(of, type, e))
         /\ \E added : Succeeds(of, Renewed(of), Created(of, type, e), added)
<1> DEFINE new == Renewed(of)
           next == Created(of, type, e)
<1>1. PICK v \in Nat, n \in Nat \ {0} : DOMAIN of = {Id(v, k) : k \in 1..n}
  BY DEF AreValid, AreFields
<1> DEFINE last == Id(v + 1, n + 1)
<1>2. /\ \A a, b \in DOMAIN of : new[a] = new[b] => a = b
      /\ Range(new) = {Id(v + 1, k) : k \in 1..n}
      /\ Copies(of, new) = Range(new)
      /\ Version(of) = v /\ Cardinality(DOMAIN of) = n
  BY <1>1, IdsAreRenewed
<1>3. AreFields(of) /\ GraphIsValid(of)
  BY DEF AreValid
<1>4. last \notin Range(new)
  BY <1>2 DEF Id
<1>5. IsExpression(Rewritten(e, new)) /\ FieldIds(Rewritten(e, new)) = {new[x] : x \in FieldIds(e)}
  BY FieldIdsOfCopy
<1>6. Stored(Rewritten(e, new)) = Rewritten(e, new)
  BY <1>5, StoredAsItIs
<1>7. /\ DOMAIN next = Range(new) \cup {last}
      /\ next[last] = CalculatedField(type, Rewritten(e, new))
      /\ \A id \in Range(new) : next[id] = Copied(of, new)[id]
  <2>1. next = [id \in Range(new) \cup {last} |->
                  IF id = last THEN CalculatedField(type, Stored(Rewritten(e, new)))
                  ELSE Copied(of, new)[id]]
    BY <1>2 DEF Created
  <2> HIDE DEF next, new, last
  <2> QED
    BY <1>4, <1>6, <2>1
<1>8. ASSUME NEW id \in DOMAIN of
      PROVE  new[id] \in Range(new)
  BY <1>2 DEF Copies
<1>9. ASSUME NEW id \in DOMAIN of
      PROVE  IsFieldCopy(next[new[id]], of[id], new) /\ IsField(next[new[id]])
  <2>1. IsFieldCopy(Copied(of, new)[new[id]], of[id], new) /\ IsField(Copied(of, new)[new[id]])
    BY <1>2, <1>3, CopiedFields
  <2>2. next[new[id]] = Copied(of, new)[new[id]]
    BY <1>7, <1>8
  <2> HIDE DEF next, new
  <2> QED
    BY <2>1, <2>2
<1> HIDE DEF new, next, last
<1>10. next[last].kind = "calculated" /\ next[last].type = type
         /\ next[last].expression = Rewritten(e, new)
  BY <1>7 DEF CalculatedField
<1>11. IsField(next[last])
  <2>1. next[last] = CalculatedField(next[last].type, next[last].expression)
    BY <1>7, <1>10
  <2> QED
    BY <1>5, <1>10, <2>1 DEF IsField
<1>12. FieldIds(e) \subseteq DOMAIN of
  BY DEF IsTyped, TypesOf
<1>13. KeepsTypes(e, new, TypesOf(of), TypesOf(next))
  <2>1. ASSUME NEW x \in FieldIds(e)
        PROVE  /\ x \in DOMAIN of /\ new[x] \in DOMAIN next
               /\ next[new[x]].type = of[x].type
    BY <1>7, <1>8, <1>9, <1>12 DEF IsFieldCopy
  <2> QED
    BY <2>1 DEF KeepsTypes, TypesOf
<1>14. IsTyped(Rewritten(e, new), TypesOf(next), type)
  BY <1>13, CopyIsTyped
<1>15. Adds(of, new, next, last)
  <2>1. FieldIds(Rewritten(e, new)) \subseteq Copies(of, new)
    BY <1>5, <1>12 DEF Copies
  <2> QED
    BY <1>2, <1>4, <1>10, <1>14, <2>1 DEF Adds
<1>16. Succeeds(of, new, next, {last})
  BY <1>2, <1>7, <1>9, <1>15 DEF Succeeds
<1>17. AreFields(next)
  <2>1. ASSUME NEW x \in DOMAIN next
        PROVE  IsField(next[x])
    <3>1. x = last \/ \E id \in DOMAIN of : x = new[id]
      BY <1>2, <1>7 DEF Copies
    <3> QED
      BY <1>9, <1>11, <3>1
  <2>2. {Id(v + 1, k) : k \in 1..n} \cup {last} = {Id(v + 1, k) : k \in 1..(n + 1)}
    <3>1. \A k : k \in 1..(n + 1) <=> k \in 1..n \/ k = n + 1
      OBVIOUS
    <3> QED
      BY <3>1 DEF last
  <2>3. v + 1 \in Nat /\ n + 1 \in Nat \ {0}
    OBVIOUS
  <2> QED
    BY <1>2, <1>7, <2>1, <2>2, <2>3 DEF AreFields
<1>18. GraphIsValid(next)
  BY <1>3, <1>16, CopiesAreValid
<1> QED
  BY <1>16, <1>17, <1>18 DEF AreValid, next, new

(* A leaf is a node,                                                       *)
LEMMA LeavesAreNodes ==
  ASSUME NEW part,
         (\E id : part = Field(id)) \/ (\E value : value # "decimal" /\ part = Literal(value))
  PROVE  IsNode(part) /\ IsBelow(part) /\ Operands(part) = {}
<1>1. ASSUME NEW id, part = Field(id)
      PROVE  IsNode(part) /\ IsBelow(part)
  BY <1>1 DEF Field, IsNode, IsBelow
<1>2. ASSUME NEW value, value # "decimal", part = Literal(value)
      PROVE  IsNode(part) /\ IsBelow(part)
  BY <1>2 DEF Literal, IsNode, IsBelow
<1>3. IsNode(part) /\ IsBelow(part)
  BY <1>1, <1>2
<1> QED
  BY <1>3, NodesHaveOperands

(* and so is what has leaves for its operands.                             *)
LEMMA ExpressionsAreOfNodes ==
  ASSUME NEW e, IsNode(e), IsWithin(e, MaxDepth),
         \A part \in Operands(e) : IsNode(part) /\ Operands(part) = {}
  PROVE  IsExpression(e)
<1> DEFINE D == {e} \cup Operands(e)
           T == {n \in Nat : Level(e, n) \subseteq D}
<1>1. 0 \in T
  BY LevelIs
<1>2. ASSUME NEW n \in T \cap Nat
      PROVE  n + 1 \in T
  <2>1. Level(e, n + 1) = UNION {Operands(node) : node \in Level(e, n)}
    BY LevelIs
  <2> QED
    BY <1>2, <2>1
<1>3. ASSUME NEW n \in Nat
      PROVE  Level(e, n) \subseteq D
  <2>1. n \in T
    <3> HIDE DEF T
    <3> QED
      BY <1>1, <1>2, Reaches
  <2> QED
    BY <2>1
<1>4. ExpressionParts(e) \subseteq D
  <2>1. \A n \in 0..(MaxDepth - 1) : n \in Nat
    BY FieldsAssumption
  <2> QED
    BY <1>3, <2>1 DEF ExpressionParts, Parts
<1> QED
  BY <1>4 DEF IsExpression

(* The expressions that are tried.                                         *)
LEMMA TriedAreExpressions ==
  ASSUME "decimal" \notin Values, NEW e \in Expressions, IsWithin(e, MaxDepth)
  PROVE  IsExpression(e)
<1>1. BaseValues \subseteq Kinds /\ "decimal" \notin BaseValues
  BY FieldsAssumption DEF BaseValues, Kinds, Texts
<1>2. ASSUME NEW part \in Leaves
      PROVE  IsNode(part) /\ Operands(part) = {}
  <2>1. (\E id : part = Field(id)) \/ (\E value : value # "decimal" /\ part = Literal(value))
    BY <1>1 DEF Leaves
  <2> QED
    BY <2>1, LeavesAreNodes
<1>3. ASSUME NEW when \in Conditions
      PROVE  IsCondition(when)
  <2>1. PICK kind, id, values : /\ when = [kind |-> kind, field |-> id, values |-> values]
                                /\ values \subseteq Kinds
    BY <1>1 DEF Conditions, Compares, Matches, IsNull
  <2> QED
    BY <2>1 DEF IsCondition
<1>4. CASE e \in Leaves
  BY <1>2, <1>4, ExpressionsAreOfNodes
<1>5. ASSUME NEW left \in Leaves, NEW right \in Leaves, IsNode(e), ~ IsBelow(e),
             e.left = left, e.right = right
      PROVE  IsExpression(e)
  <2>1. Operands(e) = {left, right}
    BY <1>5, NodesHaveOperands
  <2>2. \A part \in Operands(e) : IsNode(part) /\ Operands(part) = {}
    BY <1>2, <2>1
  <2> QED
    BY <1>5, <2>2, ExpressionsAreOfNodes
<1>6. ASSUME NEW left \in Leaves, NEW right \in Leaves, e = Arithmetic(left, right)
      PROVE  IsExpression(e)
  <2>1. IsNode(e) /\ ~ IsBelow(e) /\ e.left = left /\ e.right = right
    BY <1>6 DEF Arithmetic, IsNode, IsBelow
  <2> QED
    BY <1>5, <2>1
<1>7. ASSUME NEW left \in Leaves, NEW right \in Leaves, e = SafeDivide(left, right, "none")
      PROVE  IsExpression(e)
  <2>1. IsNode(e) /\ ~ IsBelow(e) /\ e.left = left /\ e.right = right
    BY <1>7 DEF SafeDivide, IsNode, IsBelow
  <2> QED
    BY <1>5, <2>1
<1>8. ASSUME NEW when \in Conditions, NEW left \in Leaves, NEW right \in Leaves,
             e = Case(when, left, right)
      PROVE  IsExpression(e)
  <2>1. e.op = "case" /\ e.when = when /\ e.left = left /\ e.right = right
    BY <1>8 DEF Case
  <2>2. e = Case(e.when, e.left, e.right) /\ IsCondition(e.when)
    BY <1>3, <1>8, <2>1
  <2>3. IsNode(e) /\ ~ IsBelow(e)
    BY <2>1, <2>2 DEF IsNode, IsBelow
  <2> QED
    BY <1>5, <2>1, <2>3
<1> QED
  BY <1>4, <1>6, <1>7, <1>8 DEF Expressions

(* The first version has source fields only.                               *)
LEMMA SourceFieldsAreValid ==
  ASSUME NEW of,
         of = [id \in {Id(1, n) : n \in DOMAIN SourceTypes} |-> SourceField(SourceTypes[id[2]])]
  PROVE  AreValid(of)
<1>1. SourceTypes \in Seq(Types) /\ Len(SourceTypes) \in Nat \ {0}
      /\ DOMAIN SourceTypes = 1..Len(SourceTypes)
  BY FieldsAssumption
<1>2. DOMAIN of = {Id(1, k) : k \in 1..Len(SourceTypes)}
  BY <1>1
<1>3. ASSUME NEW id \in DOMAIN of
      PROVE  of[id].kind = "source" /\ of[id].type \in Types
  <2>1. PICK k \in 1..Len(SourceTypes) : id = Id(1, k)
    BY <1>2
  <2>2. of[id] = SourceField(SourceTypes[k])
    BY <1>1, <2>1 DEF Id
  <2>3. SourceTypes[k] \in Types
    BY <1>1
  <2> QED
    BY <2>2, <2>3 DEF SourceField
<1>4. AreFields(of)
  <2>1. \A id \in DOMAIN of : IsField(of[id])
    BY <1>3 DEF IsField
  <2>2. 1 \in Nat /\ Len(SourceTypes) \in Nat \ {0}
    BY <1>1
  <2> QED
    BY <1>2, <2>1, <2>2 DEF AreFields
<1>5. Calculated(of) = {}
  BY <1>3 DEF Calculated
<1>6. CompileOrder(of) = {}
  <2>1. PICK done : IsOrder(of, done) /\ CompileOrder(of) = done[Cardinality(Calculated(of))]
    BY CompileOrderIs
  <2>2. Cardinality(Calculated(of)) = 0
    BY <1>5, FS_EmptySet
  <2> QED
    BY <2>1, <2>2 DEF IsOrder
<1>7. GraphIsValid(of)
  BY <1>5, <1>6 DEF GraphIsValid
<1> QED
  BY <1>4, <1>7 DEF AreValid

(* The fields of every version are valid, if no literal is a decimal.      *)
FieldsInv == "decimal" \notin Values => AreValid(fields)

LEMMA FieldsStayValid == FieldsInv /\ [Next]_vars => FieldsInv'
<1> SUFFICES ASSUME FieldsInv, [Next]_vars, "decimal" \notin Values
             PROVE  AreValid(fields')
  BY DEF FieldsInv, AreValid, AreFields, GraphIsValid
<1>1. AreValid(fields)
  BY DEF FieldsInv
<1>2. CASE UNCHANGED fields
  BY <1>1, <1>2
<1>3. CASE CopyVersion
  <2>1. fields' = Copied(fields, Renewed(fields))
    BY <1>3 DEF CopyVersion
  <2> QED
    BY <1>1, <2>1, CopyIsValid
<1>4. ASSUME NEW type \in Types, NEW e \in Expressions, CreateCalculatedField(type, e)
      PROVE  AreValid(fields')
  <2>1. fields' = Created(fields, type, e)
    BY <1>4, Zenon DEF CreateCalculatedField, Created
  <2>2. IsExpression(e)
    <3>1. IsWithin(e, MaxDepth)
      BY <1>4 DEF CreateCalculatedField
    <3> QED
      BY <3>1, TriedAreExpressions
  <2>3. IsTyped(e, TypesOf(fields), type)
    BY <1>4 DEF CreateCalculatedField, TypesOf
  <2>4. AreValid(Created(fields, type, e))
    BY <1>1, <2>2, <2>3, CreatedIsValid
  <2> QED
    BY <2>1, <2>4
<1> QED
  BY <1>2, <1>3, <1>4 DEF Next, Answer, ChangeFields, FieldsNext, vars

(* create_calculated_field_version, create_dataset_version and             *)
(* _compile_calculated_fields: what was typed when it was created is       *)
(* stored, copied under other identifiers any number of times, and still   *)
(* has its type and compiles, as long as no request holds a decimal.       *)
THEOREM FieldsAreReadAgain ==
  ASSUME "decimal" \notin Values
  PROVE  Spec => []StoredFieldsCompile
<1>1. Init => FieldsInv
  BY SourceFieldsAreValid DEF Init, FieldsInit, FieldsInv
<1>2. FieldsInv => StoredFieldsCompile
  BY ValidFieldsCompile DEF FieldsInv, AreValid, StoredFieldsCompile
<1> QED
  BY <1>1, <1>2, FieldsStayValid, PTL DEF Spec
-----------------------------------------------------------------------------
(* The meaning of fields.                                                  *)
MeantCase(part, expanded) ==
  [part EXCEPT !.left = expanded[@], !.right = expanded[@], !.when.field = expanded[Field(@)]]
Meant(when, expanded) == [when EXCEPT !.field = expanded[Field(@)]]

LEMMA MeantCondition ==
  ASSUME NEW l, NEW r, NEW expanded, NEW when, IsCondition(when)
  PROVE  MeantCase(Case(when, l, r), expanded)
           = Case(Meant(when, expanded), expanded[l], expanded[r])
<1> DEFINE S == {"op", "left", "right", "when"}
           a == MeantCase(Case(when, l, r), expanded)
           b == Case(Meant(when, expanded), expanded[l], expanded[r])
<1>1. a = [x \in S |-> a[x]] /\ b = [x \in S |-> b[x]]
  BY DEF MeantCase, Case, Meant, IsCondition
<1>2. a.op = b.op
  BY DEF MeantCase, Case, Meant, IsCondition
<1>3. a.left = b.left
  BY DEF MeantCase, Case, Meant, IsCondition
<1>4. a.right = b.right
  BY DEF MeantCase, Case, Meant, IsCondition
<1>5. a.when = b.when
  BY DEF MeantCase, Case, Meant, IsCondition
<1> HIDE DEF a, b
<1>6. \A x \in S : a[x] = b[x]
  BY <1>2, <1>3, <1>4, <1>5
<1> HIDE DEF S
<1>7. a = b
  BY <1>1, <1>6, SameFunctions
<1> QED
  BY <1>7 DEF a, b

LEMMA ConditionsMeanTheSame ==
  ASSUME NEW when, IsCondition(when), NEW other, IsCondition(other),
         when.kind = other.kind, when.values = other.values,
         NEW expanded, NEW others, expanded[Field(when.field)] = others[Field(other.field)]
  PROVE  Meant(when, expanded) = Meant(other, others)
<1> DEFINE S == {"kind", "field", "values"}
           a == Meant(when, expanded)
           b == Meant(other, others)
<1>1. a = [x \in S |-> a[x]]
  BY DEF Meant, IsCondition
<1>2. b = [x \in S |-> b[x]]
  BY DEF Meant, IsCondition
<1>3. a.kind = b.kind
  BY DEF Meant, IsCondition
<1>4. a.field = b.field
  <2>1. a.field = expanded[Field(when.field)]
    BY DEF Meant, IsCondition
  <2>2. b.field = others[Field(other.field)]
    BY DEF Meant, IsCondition
  <2> QED
    BY <2>1, <2>2
<1>5. a.values = b.values
  BY DEF Meant, IsCondition
<1> HIDE DEF a, b
<1>6. \A x \in S : a[x] = b[x]
  BY <1>3, <1>4, <1>5
<1> HIDE DEF S
<1>7. a = b
  BY <1>1, <1>2, <1>6, SameFunctions
<1> QED
  BY <1>7 DEF a, b

(* What a part means, given what the parts it needs mean.                  *)
ExpandedPart(part, expanded, of) ==
  CASE part.op = "literal" -> part
    [] part.op = "field" ->
         IF of[part.field].kind = "source" THEN Field(part.field[2])
         ELSE expanded[of[part.field].expression]
    [] part.op = "case" -> MeantCase(part, expanded)
    [] OTHER -> Mapped(part, expanded)

Needs(part, of) ==
  CASE part.op = "literal" -> {}
    [] part.op = "field" ->
         IF of[part.field].kind = "source" THEN {} ELSE {of[part.field].expression}
    [] part.op = "case" -> {part.left, part.right, Field(part.when.field)}
    [] OTHER -> {part.left, part.right}

IsMeant(part, value, expanded, of) ==
  /\ part.op = "literal" => value = part
  /\ part.op = "field" =>
       value = IF of[part.field].kind = "source" THEN Field(part.field[2])
               ELSE expanded[of[part.field].expression]
  /\ part.op = "arithmetic" => value = Arithmetic(expanded[part.left], expanded[part.right])
  /\ part.op = "safe_divide" =>
       value = SafeDivide(expanded[part.left], expanded[part.right], part.fallback)
  /\ part.op = "case" =>
       value = Case(Meant(part.when, expanded), expanded[part.left], expanded[part.right])

LEMMA PartIsMeant ==
  ASSUME NEW part, IsNode(part), NEW expanded, NEW of
  PROVE  IsMeant(part, ExpandedPart(part, expanded, of), expanded, of)
<1>1. part.op = "literal" => ExpandedPart(part, expanded, of) = part
  BY DEF ExpandedPart
<1>2. part.op = "field" =>
        ExpandedPart(part, expanded, of)
          = IF of[part.field].kind = "source" THEN Field(part.field[2])
            ELSE expanded[of[part.field].expression]
  BY DEF ExpandedPart
<1>3. ASSUME part.op = "arithmetic"
      PROVE  ExpandedPart(part, expanded, of)
               = Arithmetic(expanded[part.left], expanded[part.right])
  <2>1. ExpandedPart(part, expanded, of) = Mapped(part, expanded)
    BY <1>3 DEF ExpandedPart
  <2>2. part = Arithmetic(part.left, part.right)
    BY <1>3 DEF IsNode
  <2>3. Mapped(Arithmetic(part.left, part.right), expanded)
          = Arithmetic(expanded[part.left], expanded[part.right])
    BY MappedArithmetic
  <2> QED
    BY <2>1, <2>2, <2>3, Zenon
<1>4. ASSUME part.op = "safe_divide"
      PROVE  ExpandedPart(part, expanded, of)
               = SafeDivide(expanded[part.left], expanded[part.right], part.fallback)
  <2>1. ExpandedPart(part, expanded, of) = Mapped(part, expanded)
    BY <1>4 DEF ExpandedPart
  <2>2. part = SafeDivide(part.left, part.right, part.fallback)
    BY <1>4 DEF IsNode
  <2>3. Mapped(SafeDivide(part.left, part.right, part.fallback), expanded)
          = SafeDivide(expanded[part.left], expanded[part.right], part.fallback)
    BY MappedDivision
  <2> QED
    BY <2>1, <2>2, <2>3, Zenon
<1>5. ASSUME part.op = "case"
      PROVE  ExpandedPart(part, expanded, of)
               = Case(Meant(part.when, expanded), expanded[part.left], expanded[part.right])
  <2>1. ExpandedPart(part, expanded, of) = MeantCase(part, expanded)
    BY <1>5 DEF ExpandedPart
  <2>2. part = Case(part.when, part.left, part.right)
    BY <1>5 DEF IsNode
  <2>3. IsCondition(part.when)
    BY <1>5 DEF IsNode
  <2>4. MeantCase(Case(part.when, part.left, part.right), expanded)
          = Case(Meant(part.when, expanded), expanded[part.left], expanded[part.right])
    BY <2>3, MeantCondition
  <2> QED
    BY <2>1, <2>2, <2>4, Zenon
<1> QED
  BY <1>1, <1>2, <1>3, <1>4, <1>5 DEF IsMeant

LEMMA MeaningOfNeeded ==
  ASSUME NEW part, IsNode(part), NEW of, NEW expanded, NEW other,
         \A x \in Needs(part, of) : expanded[x] = other[x]
  PROVE  ExpandedPart(part, expanded, of) = ExpandedPart(part, other, of)
<1>1. /\ IsMeant(part, ExpandedPart(part, expanded, of), expanded, of)
      /\ IsMeant(part, ExpandedPart(part, other, of), other, of)
  BY PartIsMeant
<1>2. CASE part.op = "literal"
  BY <1>2 DEF ExpandedPart
<1>3. CASE part.op = "field"
  BY <1>3 DEF ExpandedPart, Needs
<1>4. CASE part.op = "case"
  <2>1. /\ expanded[part.left] = other[part.left] /\ expanded[part.right] = other[part.right]
        /\ expanded[Field(part.when.field)] = other[Field(part.when.field)]
    BY <1>4 DEF Needs
  <2>2. IsCondition(part.when)
    BY <1>4 DEF IsNode
  <2>3. Meant(part.when, expanded) = Meant(part.when, other)
    BY <2>1, <2>2, ConditionsMeanTheSame
  <2> QED
    BY <1>1, <1>4, <2>1, <2>3 DEF IsMeant
<1>5. CASE part.op \in {"arithmetic", "safe_divide"}
  <2>1. expanded[part.left] = other[part.left] /\ expanded[part.right] = other[part.right]
    BY <1>5 DEF Needs
  <2> QED
    BY <1>1, <1>5, <2>1 DEF IsMeant
<1> QED
  BY <1>2, <1>3, <1>4, <1>5 DEF IsNode

(* What needs nothing is in the first stage, and each further stage has    *)
(* what needs the ones before it only.                                     *)
IsStages(C, needs, R) ==
  /\ R[0] = {}
  /\ \A n \in Nat :
       /\ R[n] \subseteq C
       /\ R[n + 1] = R[n] \cup {p \in C : needs[p] \subseteq R[n]}

LEMMA StagesExist ==
  ASSUME NEW C, NEW needs
  PROVE  \E R : IsStages(C, needs, R)
<1> DEFINE S == SUBSET C
           start == {}
           Ready(s) == {p \in C : needs[p] \subseteq s}
           step == [n \in Nat |-> [s \in S |-> s \cup Ready(s)]]
<1>1. step \in [Nat -> [S -> S]] /\ start \in S
  OBVIOUS
<1>2. \A n \in Nat, s \in S : step[n][s] = s \cup Ready(s)
  OBVIOUS
<1>3. start = {} /\ \A s \in S : s \subseteq C
  OBVIOUS
<1> HIDE DEF S, start, step, Ready
<1>4. HasRun(S, start, step)
  BY <1>1, StepsRun
<1>5. PICK f \in [Nat -> S] : f = [n \in Nat |-> IF n = 0 THEN start ELSE step[n][f[n - 1]]]
  BY <1>4 DEF HasRun
<1>6. f[0] = {}
  BY <1>3, <1>5
<1>7. ASSUME NEW n \in Nat
      PROVE  f[n] \subseteq C /\ f[n + 1] = f[n] \cup Ready(f[n])
  <2>1. n + 1 \in Nat /\ n + 1 # 0 /\ (n + 1) - 1 = n
    OBVIOUS
  <2>2. f[n] \in S
    OBVIOUS
  <2>3. f[n + 1] = step[n + 1][f[(n + 1) - 1]]
    BY <1>5, <2>1
  <2>4. step[n + 1][f[n]] = f[n] \cup Ready(f[n])
    BY <1>2, <2>1, <2>2
  <2> QED
    BY <1>3, <2>1, <2>2, <2>3, <2>4
<1>8. IsStages(C, needs, f)
  BY <1>6, <1>7 DEF IsStages, Ready
<1> QED
  BY <1>8

LEMMA StagesGrow ==
  ASSUME NEW C, NEW needs, NEW R, IsStages(C, needs, R), NEW m \in Nat, NEW n \in Nat, m <= n
  PROVE  R[m] \subseteq R[n]
<1> DEFINE T == {k \in Nat : R[m] \subseteq R[m + k]}
<1>1. 0 \in T
  OBVIOUS
<1>2. ASSUME NEW k \in T \cap Nat
      PROVE  k + 1 \in T
  <2>1. m + k \in Nat /\ (m + k) + 1 = m + (k + 1)
    OBVIOUS
  <2>2. R[m + k] \subseteq R[(m + k) + 1]
    BY <2>1 DEF IsStages
  <2> QED
    BY <1>2, <2>1, <2>2
<1>3. n - m \in Nat /\ m + (n - m) = n
  OBVIOUS
<1>4. n - m \in T
  <2> HIDE DEF T
  <2> QED
    BY <1>1, <1>2, <1>3, Reaches
<1> QED
  BY <1>3, <1>4

(* All parts of the fields of a version.                                   *)
FieldParts(of) ==
  {Field(id) : id \in DOMAIN of}
  \cup UNION {ExpressionParts(of[id].expression) : id \in Calculated(of)}

NeedsOf(of) == [part \in FieldParts(of) |-> Needs(part, of)]

(* Every part is in some stage: fields do not need themselves.             *)
LEMMA PartsOfExpression ==
  ASSUME NEW of, AreValid(of), NEW R, IsStages(FieldParts(of), NeedsOf(of), R),
         NEW k \in Nat, NEW e, IsExpression(e), ExpressionParts(e) \subseteq FieldParts(of),
         \A id \in FieldIds(e) : Field(id) \in R[k]
  PROVE  ExpressionParts(e) \subseteq R[(k + MaxDepth) + 1]
<1> DEFINE D == ExpressionParts(e)
<1>1. PICK rank : PartsRanked(e, rank)
  BY ExpressionsHaveRank
<1>2. /\ rank \in [D -> Nat]
      /\ \A part \in D : rank[part] <= MaxDepth
      /\ \A part \in D : ~ IsBelow(part) =>
           /\ part.left \in D /\ rank[part.left] < rank[part]
           /\ part.right \in D /\ rank[part.right] < rank[part]
  BY <1>1 DEF PartsRanked
<1>3. \A part \in D : IsNode(part)
  BY DEF IsExpression
<1>4. \A part \in D : \A id : HasField(part, id) => Field(id) \in R[k]
  BY FieldIdsAre
<1>5. \A part \in D : part \in FieldParts(of)
  OBVIOUS
<1>6. MaxDepth \in Nat
  BY FieldsAssumption
<1> HIDE DEF D
<1>7. \A m, n \in Nat : m <= n => R[m] \subseteq R[n]
  BY StagesGrow
<1> DEFINE g == [part \in D |-> part \in R[(k + rank[part]) + 1]]
           V == {TRUE}
<1>8. \A d \in D : (\A x \in D : rank[x] < rank[d] => g[x] \in V) => g[d] \in V
  <2> SUFFICES ASSUME NEW d \in D, \A x \in D : rank[x] < rank[d] => g[x] \in V
               PROVE  d \in R[(k + rank[d]) + 1]
    OBVIOUS
  <2> DEFINE n == k + rank[d]
  <2>1. n \in Nat /\ k <= n
    BY <1>2
  <2>2. ASSUME NEW x \in D, rank[x] < rank[d]
        PROVE  x \in R[n]
    <3>1. x \in R[(k + rank[x]) + 1]
      BY <2>2
    <3>2. (k + rank[x]) + 1 \in Nat /\ (k + rank[x]) + 1 <= n
      BY <1>2, <2>2
    <3> HIDE DEF n
    <3> QED
      BY <1>7, <2>1, <3>1, <3>2
  <2>3. \A id : HasField(d, id) => Field(id) \in R[n]
    <3> HIDE DEF n
    <3> QED
      BY <1>4, <1>7, <2>1
  <2>4. ~ IsBelow(d) => d.left \in R[n] /\ d.right \in R[n]
    <3> HIDE DEF n, g
    <3> QED
      BY <1>2, <2>2
  <2> HIDE DEF n
  <2>5. \A m \in Nat : R[m + 1] = R[m] \cup {p \in FieldParts(of) : NeedsOf(of)[p] \subseteq R[m]}
    BY DEF IsStages
  <2>6. R[k] \subseteq R[n] /\ R[n] \subseteq R[n + 1]
    BY <1>7, <2>1
  <2>7. CASE d.op = "field"
    <3>1. d = Field(d.field) /\ HasField(d, d.field)
      BY <1>3, <2>7 DEF IsNode, HasField
    <3>2. Field(d.field) \in R[n]
      BY <2>3, <3>1
    <3>3. d \in R[n + 1]
      BY <2>6, <3>1, <3>2, Zenon
    <3> QED
      BY <3>3 DEF n
  <2>8. CASE d.op # "field"
    <3>1. Needs(d, of) \subseteq R[n]
      <4>1. CASE d.op = "literal"
        BY <4>1 DEF Needs
      <4>2. CASE d.op = "case"
        <5>1. ~ IsBelow(d) /\ HasField(d, d.when.field)
          BY <4>2 DEF IsBelow, HasField
        <5> QED
          BY <2>3, <2>4, <4>2, <5>1 DEF Needs
      <4>3. CASE d.op \notin {"literal", "case"}
        BY <2>4, <2>8, <4>3 DEF Needs, IsBelow
      <4> QED
        BY <4>1, <4>2, <4>3
    <3>2. NeedsOf(of)[d] = Needs(d, of)
      BY <1>5 DEF NeedsOf
    <3>3. d \in R[n + 1]
      BY <1>5, <2>1, <2>5, <3>1, <3>2
    <3> QED
      BY <3>3 DEF n
  <2> QED
    BY <2>7, <2>8
<1>9. \A d \in D : g[d] \in V
  <2> HIDE DEF g, V
  <2> QED
    BY <1>2, <1>8, InductionByRank
<1>10. ASSUME NEW d \in D
       PROVE  d \in R[(k + MaxDepth) + 1]
  <2>1. d \in R[(k + rank[d]) + 1]
    BY <1>9
  <2>2. (k + rank[d]) + 1 \in Nat /\ (k + MaxDepth) + 1 \in Nat
        /\ (k + rank[d]) + 1 <= (k + MaxDepth) + 1
    BY <1>2, <1>6
  <2> QED
    BY <1>7, <2>1, <2>2
<1> QED
  BY <1>10 DEF D

HasItsParts(of, id) ==
  /\ id \in DOMAIN of
  /\ IsExpression(of[id].expression)
  /\ of[id].expression \in ExpressionParts(of[id].expression)
  /\ ExpressionParts(of[id].expression) \subseteq FieldParts(of)
  /\ FieldIds(of[id].expression) \subseteq DOMAIN of

LEMMA FieldsHaveNodes ==
  ASSUME NEW of, AreValid(of)
  PROVE  /\ \A part \in FieldParts(of) : IsNode(part)
         /\ \A id \in Calculated(of) : HasItsParts(of, id)
         /\ \A id \in DOMAIN of : Field(id) \in FieldParts(of)
<1>1. ASSUME NEW id \in Calculated(of)
      PROVE  HasItsParts(of, id)
  <2>1. id \in DOMAIN of /\ IsExpression(of[id].expression)
    BY DEF Calculated, AreValid, AreFields, IsField
  <2>2. of[id].expression \in ExpressionParts(of[id].expression)
    BY <2>1, ExpressionsHaveRank
  <2>3. ExpressionParts(of[id].expression) \subseteq FieldParts(of)
    BY DEF FieldParts
  <2>4. FieldIds(of[id].expression) \subseteq DOMAIN of
    BY DEF AreValid, GraphIsValid
  <2> QED
    BY <2>1, <2>2, <2>3, <2>4 DEF HasItsParts
<1>2. \A id : IsNode(Field(id))
  BY LeavesAreNodes
<1>3. \A id \in Calculated(of) : \A part \in ExpressionParts(of[id].expression) : IsNode(part)
  BY <1>1 DEF IsExpression, HasItsParts
<1>4. \A part \in FieldParts(of) : IsNode(part)
  BY <1>2, <1>3 DEF FieldParts
<1>5. \A id \in DOMAIN of : Field(id) \in FieldParts(of)
  BY DEF FieldParts
<1> QED
  BY <1>1, <1>4, <1>5

LEMMA AllAreStaged ==
  ASSUME NEW of, AreValid(of), NEW R, IsStages(FieldParts(of), NeedsOf(of), R)
  PROVE  \E k \in Nat : R[k] = FieldParts(of)
<1> DEFINE Staged(id, k) == /\ Field(id) \in R[k]
                            /\ ExpressionParts(of[id].expression) \subseteq R[k]
<1>1. PICK done : IsOrder(of, done) /\ CompileOrder(of) = done[Cardinality(Calculated(of))]
  BY CompileOrderIs
<1>2. MaxDepth \in Nat
  BY FieldsAssumption
<1>3. \A m, n \in Nat : m <= n => R[m] \subseteq R[n]
  BY StagesGrow
<1>4. /\ R[0] = {}
      /\ \A n \in Nat : R[n + 1] = R[n] \cup {p \in FieldParts(of) : NeedsOf(of)[p] \subseteq R[n]}
      /\ \A n \in Nat : R[n] \subseteq FieldParts(of)
  BY DEF IsStages
<1>5. /\ \A id \in Calculated(of) :
           /\ id \in DOMAIN of
           /\ IsExpression(of[id].expression)
           /\ of[id].expression \in ExpressionParts(of[id].expression)
           /\ ExpressionParts(of[id].expression) \subseteq FieldParts(of)
           /\ FieldIds(of[id].expression) \subseteq DOMAIN of
      /\ \A id \in DOMAIN of : Field(id) \in FieldParts(of)
  BY FieldsHaveNodes DEF HasItsParts
<1>6. ASSUME NEW id \in DOMAIN of
      PROVE  NeedsOf(of)[Field(id)] = IF of[id].kind = "source" THEN {} ELSE {of[id].expression}
  <2>1. Field(id).op = "field" /\ Field(id).field = id
    BY DEF Field
  <2>2. NeedsOf(of)[Field(id)] = Needs(Field(id), of)
    BY <1>5 DEF NeedsOf
  <2> QED
    BY <2>1, <2>2 DEF Needs
<1>7. \A id \in DOMAIN of : of[id].kind = "source" => Field(id) \in R[1]
  <2>1. R[0 + 1] = R[0] \cup {p \in FieldParts(of) : NeedsOf(of)[p] \subseteq R[0]}
    BY <1>4
  <2>2. 0 + 1 = 1
    OBVIOUS
  <2> QED
    BY <1>5, <1>6, <2>1, <2>2
<1>8. \A id \in DOMAIN of : of[id].kind = "source" \/ id \in Calculated(of)
  BY DEF AreValid, AreFields, IsField, Calculated
<1> DEFINE T == {n \in Nat : \E k \in Nat : \A id \in done[n] : Staged(id, k)}
<1>9. 0 \in T
  BY <1>1 DEF IsOrder
<1>10. ASSUME NEW n \in T \cap Nat
       PROVE  n + 1 \in T
  <2>1. PICK j \in Nat : \A id \in done[n] : Staged(id, j)
    BY <1>10
  <2> DEFINE k == j + 1
             m == (k + MaxDepth) + 1
  <2>2. k \in Nat /\ j <= k /\ 1 <= k /\ m \in Nat /\ m + 1 \in Nat /\ j <= m + 1 /\ m <= m + 1
    BY <1>2
  <2>3. \A x \in DOMAIN of : of[x].kind = "source" \/ x \in done[n] => Field(x) \in R[k]
    <3> HIDE DEF k, m
    <3>1. R[1] \subseteq R[k] /\ R[j] \subseteq R[k]
      BY <1>3, <2>2
    <3> QED
      BY <1>7, <2>1, <3>1
  <2>4. done[n + 1] = done[n] \cup {x \in Calculated(of) : Dependencies(of, x) \subseteq done[n]}
    BY <1>1 DEF IsOrder
  <2>5. ASSUME NEW id \in done[n + 1]
        PROVE  Staged(id, m + 1)
    <3>1. CASE id \in done[n]
      <4>1. R[j] \subseteq R[m + 1]
        BY <1>3, <2>2
      <4> HIDE DEF m
      <4> QED
        BY <2>1, <3>1, <4>1
    <3>2. CASE id \in Calculated(of) /\ Dependencies(of, id) \subseteq done[n]
      <4> DEFINE e == of[id].expression
      <4>1. /\ IsExpression(e) /\ ExpressionParts(e) \subseteq FieldParts(of)
            /\ e \in ExpressionParts(e) /\ FieldIds(e) \subseteq DOMAIN of
        BY <1>5, <3>2
      <4>2. FieldIds(e) \cap Calculated(of) \subseteq done[n]
        BY <3>2 DEF Dependencies
      <4>3. \A x \in FieldIds(e) : Field(x) \in R[k]
        <5> HIDE DEF k, m, e
        <5> QED
          BY <1>8, <2>3, <4>1, <4>2
      <4>4. ExpressionParts(e) \subseteq R[(k + MaxDepth) + 1]
        <5> HIDE DEF k, m, e
        <5> QED
          BY <2>2, <4>1, <4>3, PartsOfExpression
      <4>5. e \in R[m]
        BY <4>1, <4>4
      <4>6. R[m] \subseteq R[m + 1]
        <5> HIDE DEF m
        <5> QED
          BY <1>3, <2>2
      <4>7. Field(id) \in R[m + 1]
        <5>1. NeedsOf(of)[Field(id)] \subseteq R[m]
          <6> HIDE DEF m
          <6> QED
            BY <1>5, <1>6, <3>2, <4>5
        <5> HIDE DEF m
        <5>2. R[m + 1] = R[m] \cup {p \in FieldParts(of) : NeedsOf(of)[p] \subseteq R[m]}
          BY <1>4, <2>2
        <5> QED
          BY <1>5, <3>2, <5>1, <5>2
      <4>8. ExpressionParts(e) \subseteq R[m + 1]
        BY <4>4, <4>6
      <4> QED
        BY <4>7, <4>8 DEF e
    <3> QED
      BY <2>4, <3>1, <3>2
  <2> HIDE DEF m, Staged
  <2> QED
    BY <2>2, <2>5
<1>11. Cardinality(Calculated(of)) \in Nat
  BY CalculatedAreFinite, FS_CardinalityType DEF AreValid
<1>12. Cardinality(Calculated(of)) \in T
  <2> HIDE DEF T
  <2> QED
    BY <1>9, <1>10, <1>11, Reaches
<1>13. done[Cardinality(Calculated(of))] = Calculated(of)
  BY <1>1 DEF AreValid, GraphIsValid
<1>14. PICK k \in Nat : \A id \in Calculated(of) : Staged(id, k)
  BY <1>12, <1>13
<1>15. R[k] \subseteq R[k + 1] /\ R[1] \subseteq R[k + 1] /\ k + 1 \in Nat
  <2>1. k + 1 \in Nat /\ k <= k + 1 /\ 1 <= k + 1
    OBVIOUS
  <2> QED
    BY <1>3, <2>1
<1>16. FieldParts(of) \subseteq R[k + 1]
  <2> SUFFICES ASSUME NEW part \in FieldParts(of)
               PROVE  part \in R[k + 1]
    OBVIOUS
  <2>1. CASE \E id \in DOMAIN of : part = Field(id)
    BY <1>7, <1>8, <1>14, <1>15, <2>1
  <2>2. CASE \E id \in Calculated(of) : part \in ExpressionParts(of[id].expression)
    BY <1>14, <1>15, <2>2
  <2> QED
    BY <2>1, <2>2 DEF FieldParts
<1> QED
  BY <1>4, <1>15, <1>16

(* So the meaning of every field is defined, part by part.                 *)
IsMeaning(of, expanded) ==
  /\ \A id \in Calculated(of) : Expanded(of[id].expression, of) = expanded[of[id].expression]
  /\ \A part \in FieldParts(of) : IsMeant(part, expanded[part], expanded, of)

LEMMA MeaningOfStage ==
  ASSUME NEW of, AreValid(of), NEW R, IsStages(FieldParts(of), NeedsOf(of), R), NEW k \in Nat
  PROVE  \E g : \A part \in R[k] : g[part] = ExpandedPart(part, g, of)
<1> DEFINE Solves(g, n) == \A part \in R[n] : g[part] = ExpandedPart(part, g, of)
           T == {n \in Nat : \E g : Solves(g, n)}
           D == FieldParts(of)
<1>1. \A part \in D : IsNode(part) /\ NeedsOf(of)[part] = Needs(part, of)
  BY FieldsHaveNodes DEF NeedsOf
<1>2. /\ R[0] = {}
      /\ \A n \in Nat : R[n + 1] = R[n] \cup {p \in D : NeedsOf(of)[p] \subseteq R[n]}
      /\ \A n \in Nat : R[n] \subseteq D
  BY DEF IsStages
<1> HIDE DEF D
<1>3. \A n \in Nat : \A part \in R[n] : Needs(part, of) \subseteq R[n]
  <2> DEFINE U == {n \in Nat : \A part \in R[n] : Needs(part, of) \subseteq R[n]}
  <2>1. 0 \in U
    BY <1>2
  <2>2. \A n \in U \cap Nat : n + 1 \in U
    BY <1>1, <1>2
  <2> SUFFICES ASSUME NEW n \in Nat PROVE n \in U
    OBVIOUS
  <2> HIDE DEF U
  <2> QED
    BY <2>1, <2>2, Reaches
<1>4. 0 \in T
  BY <1>2
<1>5. ASSUME NEW n \in T \cap Nat
      PROVE  n + 1 \in T
  <2>1. PICK f : Solves(f, n)
    BY <1>5
  <2> DEFINE g == [part \in D |-> IF part \in R[n] THEN f[part] ELSE ExpandedPart(part, f, of)]
  <2>2. \A part \in R[n] : f[part] = g[part]
    BY <1>2
  <2>3. ASSUME NEW part \in R[n + 1]
        PROVE  g[part] = ExpandedPart(part, g, of)
    <3>1. part \in D /\ Needs(part, of) \subseteq R[n]
      BY <1>1, <1>2, <1>3
    <3>2. g[part] = ExpandedPart(part, f, of)
      BY <2>1, <3>1
    <3> HIDE DEF g
    <3>3. IsNode(part) /\ \A x \in Needs(part, of) : f[x] = g[x]
      BY <1>1, <2>2, <3>1
    <3>4. ExpandedPart(part, f, of) = ExpandedPart(part, g, of)
      BY <3>3, MeaningOfNeeded
    <3> QED
      BY <3>2, <3>4
  <2>4. Solves(g, n + 1)
    BY <2>3
  <2> HIDE DEF Solves, g
  <2> QED
    BY <2>4
<1>6. k \in T
  <2> HIDE DEF T
  <2> QED
    BY <1>4, <1>5, Reaches
<1> QED
  BY <1>6

LEMMA MeaningsExist ==
  ASSUME NEW of, AreValid(of)
  PROVE  \E expanded : IsMeaning(of, expanded)
<1> DEFINE D == FieldParts(of)
           IsSolution(g) == g = [part \in D |-> ExpandedPart(part, g, of)]
           expanded == CHOOSE g : IsSolution(g)
<1>1. ASSUME NEW id \in Calculated(of)
      PROVE  Expanded(of[id].expression, of) = expanded[of[id].expression]
  <2> DEFINE e == of[id].expression
             parts == ExpressionParts(e) \cup {Field(x) : x \in DOMAIN of}
                      \cup UNION {ExpressionParts(of[x].expression) : x \in Calculated(of)}
  <2>1. parts = D
    BY DEF FieldParts
  <2> HIDE DEF e
  <2>2. Expanded(e, of) = (CHOOSE g : g = [part \in parts |-> ExpandedPart(part, g, of)])[e]
    BY DEF Expanded, ExpandedPart, MeantCase, Mapped
  <2> HIDE DEF parts, D
  <2> QED
    BY <2>1, <2>2 DEF e
<1>2. PICK R : IsStages(FieldParts(of), NeedsOf(of), R)
  BY StagesExist
<1>3. PICK k \in Nat : R[k] = FieldParts(of)
  BY <1>2, AllAreStaged
<1>4. PICK f : \A part \in R[k] : f[part] = ExpandedPart(part, f, of)
  BY <1>2, MeaningOfStage
<1>5. \A part \in D : IsNode(part) /\ Needs(part, of) \subseteq D
  <2>1. \A part \in D : IsNode(part) /\ NeedsOf(of)[part] = Needs(part, of)
    BY FieldsHaveNodes DEF NeedsOf
  <2>2. /\ R[0] = {}
        /\ \A n \in Nat : R[n + 1] = R[n] \cup {p \in D : NeedsOf(of)[p] \subseteq R[n]}
        /\ \A n \in Nat : R[n] \subseteq D
    BY <1>2 DEF IsStages
  <2> HIDE DEF D
  <2> DEFINE U == {n \in Nat : \A part \in R[n] : Needs(part, of) \subseteq D}
  <2>3. 0 \in U
    BY <2>2
  <2>4. \A n \in U \cap Nat : n + 1 \in U
    BY <2>1, <2>2
  <2>5. k \in U
    <3> HIDE DEF U
    <3> QED
      BY <2>3, <2>4, Reaches
  <2> QED
    BY <1>3, <2>1, <2>5 DEF D
<1>6. \A part \in D : f[part] = ExpandedPart(part, f, of)
  BY <1>3, <1>4
<1> HIDE DEF D
<1>7. \E g : IsSolution(g)
  <2> DEFINE g == [part \in D |-> f[part]]
  <2>1. ASSUME NEW part \in D
        PROVE  f[part] = ExpandedPart(part, g, of)
    <3>1. IsNode(part) /\ \A x \in Needs(part, of) : f[x] = g[x]
      BY <1>5
    <3> HIDE DEF g
    <3>2. ExpandedPart(part, f, of) = ExpandedPart(part, g, of)
      BY <3>1, MeaningOfNeeded
    <3> QED
      BY <1>6, <3>2
  <2>2. IsSolution(g)
    BY <2>1
  <2> HIDE DEF IsSolution
  <2> QED
    BY <2>2
<1>8. IsSolution(expanded)
  <2> HIDE DEF IsSolution
  <2> QED
    BY <1>7
<1> HIDE DEF expanded
<1>9. \A part \in D : expanded[part] = ExpandedPart(part, expanded, of)
  BY <1>8
<1> HIDE DEF IsSolution
<1>10. \A part \in D : IsMeant(part, expanded[part], expanded, of)
  <2> SUFFICES ASSUME NEW part \in D
               PROVE  IsMeant(part, expanded[part], expanded, of)
    OBVIOUS
  <2>1. IsNode(part)
    BY <1>5
  <2>2. IsMeant(part, ExpandedPart(part, expanded, of), expanded, of)
    BY <2>1, PartIsMeant
  <2> QED
    BY <1>9, <2>2
<1> QED
  BY <1>1, <1>10 DEF IsMeaning, D

(* A copy means what the original does, if the fields it is about do.      *)
FieldsMeanTheSame(part, new, expanded, others) ==
  \A id : HasField(part, id) => others[Field(new[id])] = expanded[Field(id)]
OperandsMeanTheSame(part, to, expanded, others) ==
  ~ IsBelow(part) => /\ others[to[part.left]] = expanded[part.left]
                     /\ others[to[part.right]] = expanded[part.right]

LEMMA PartMeansTheSame ==
  ASSUME NEW part, IsNode(part), NEW copy, NEW to, NEW new, IsCopied(part, copy, to, new),
         NEW of, NEW next, NEW expanded, NEW others,
         IsMeant(part, expanded[part], expanded, of), IsMeant(copy, others[copy], others, next),
         FieldsMeanTheSame(part, new, expanded, others),
         OperandsMeanTheSame(part, to, expanded, others)
  PROVE  others[copy] = expanded[part]
<1>1. CASE part.op = "field"
  <2>1. part = Field(part.field) /\ HasField(part, part.field)
    BY <1>1 DEF IsNode, HasField
  <2>2. copy = Field(new[part.field])
    BY <1>1 DEF IsCopied
  <2>3. others[Field(new[part.field])] = expanded[Field(part.field)]
    BY <2>1 DEF FieldsMeanTheSame
  <2> QED
    BY <2>1, <2>2, <2>3, Zenon
<1>2. CASE part.op = "literal"
  <2>1. copy = part
    BY <1>2 DEF IsCopied
  <2> QED
    BY <1>2, <2>1 DEF IsMeant
<1>3. CASE part.op = "arithmetic"
  <2>1. copy = Arithmetic(to[part.left], to[part.right])
    BY <1>3 DEF IsCopied
  <2>2. copy.op = "arithmetic" /\ copy.left = to[part.left] /\ copy.right = to[part.right]
    BY <2>1 DEF Arithmetic
  <2>3. others[copy] = Arithmetic(others[copy.left], others[copy.right])
    BY <2>2 DEF IsMeant
  <2>4. expanded[part] = Arithmetic(expanded[part.left], expanded[part.right])
    BY <1>3 DEF IsMeant
  <2>5. others[copy.left] = expanded[part.left] /\ others[copy.right] = expanded[part.right]
    BY <1>3, <2>2 DEF IsBelow, OperandsMeanTheSame
  <2> QED
    BY <2>3, <2>4, <2>5
<1>4. CASE part.op = "safe_divide"
  <2>1. copy = SafeDivide(to[part.left], to[part.right], part.fallback)
    BY <1>4 DEF IsCopied
  <2>2. copy.op = "safe_divide" /\ copy.left = to[part.left] /\ copy.right = to[part.right]
        /\ copy.fallback = part.fallback
    BY <2>1 DEF SafeDivide
  <2>3. others[copy] = SafeDivide(others[copy.left], others[copy.right], copy.fallback)
    BY <2>2 DEF IsMeant
  <2>4. expanded[part] = SafeDivide(expanded[part.left], expanded[part.right], part.fallback)
    BY <1>4 DEF IsMeant
  <2>5. others[copy.left] = expanded[part.left] /\ others[copy.right] = expanded[part.right]
    BY <1>4, <2>2 DEF IsBelow, OperandsMeanTheSame
  <2> QED
    BY <2>2, <2>3, <2>4, <2>5
<1>5. CASE part.op = "case"
  <2>1. copy = Case(Renamed(part.when, new), to[part.left], to[part.right])
    BY <1>5 DEF IsCopied
  <2>2. copy.op = "case" /\ copy.left = to[part.left] /\ copy.right = to[part.right]
        /\ copy.when = Renamed(part.when, new)
    BY <2>1 DEF Case
  <2>3. others[copy] = Case(Meant(copy.when, others), others[copy.left], others[copy.right])
    BY <2>2 DEF IsMeant
  <2>4. expanded[part] = Case(Meant(part.when, expanded), expanded[part.left], expanded[part.right])
    BY <1>5 DEF IsMeant
  <2>5. others[copy.left] = expanded[part.left] /\ others[copy.right] = expanded[part.right]
    BY <1>5, <2>2 DEF IsBelow, OperandsMeanTheSame
  <2>6. IsCondition(part.when)
    BY <1>5 DEF IsNode
  <2>7. /\ IsCondition(copy.when) /\ copy.when.kind = part.when.kind
        /\ copy.when.field = new[part.when.field] /\ copy.when.values = part.when.values
    BY <2>2, <2>6, RenamedWhen
  <2>8. HasField(part, part.when.field)
    BY <1>5 DEF HasField
  <2>9. expanded[Field(part.when.field)] = others[Field(copy.when.field)]
    BY <2>7, <2>8 DEF FieldsMeanTheSame
  <2>10. Meant(part.when, expanded) = Meant(copy.when, others)
    BY <2>6, <2>7, <2>9, ConditionsMeanTheSame
  <2> QED
    BY <2>3, <2>4, <2>5, <2>10
<1> QED
  BY <1>1, <1>2, <1>3, <1>4, <1>5 DEF IsNode

LEMMA ExpressionMeansTheSame ==
  ASSUME NEW of, NEW next, NEW expanded, IsMeaning(of, expanded),
         NEW others, IsMeaning(next, others), NEW new,
         NEW e, IsExpression(e), ExpressionParts(e) \subseteq FieldParts(of),
         ExpressionParts(Rewritten(e, new)) \subseteq FieldParts(next),
         \A id \in FieldIds(e) : others[Field(new[id])] = expanded[Field(id)]
  PROVE  others[Rewritten(e, new)] = expanded[e]
<1> DEFINE D == ExpressionParts(e)
<1>1. e \in D /\ \E rank : PartsRanked(e, rank)
  BY ExpressionsHaveRank
<1>2. PICK rank : PartsRanked(e, rank)
  BY <1>1
<1>3. /\ rank \in [D -> Nat]
      /\ \A part \in D : ~ IsBelow(part) =>
           /\ part.left \in D /\ rank[part.left] < rank[part]
           /\ part.right \in D /\ rank[part.right] < rank[part]
  BY <1>2 DEF PartsRanked
<1>4. PICK to : /\ Rewritten(e, new) = to[e]
                /\ \A part \in D : IsCopied(part, to[part], to, new)
  BY RewrittenByPart
<1>5. ExpressionParts(to[e]) = {to[part] : part \in D}
  BY <1>4, PartsOfCopy
<1>6. \A part \in D : IsNode(part)
  BY DEF IsExpression
<1>7. \A part \in D : IsMeant(part, expanded[part], expanded, of)
  BY DEF IsMeaning
<1>8. \A part \in D : IsMeant(to[part], others[to[part]], others, next)
  BY <1>4, <1>5 DEF IsMeaning
<1>9. \A part \in D : FieldsMeanTheSame(part, new, expanded, others)
  BY FieldIdsAre DEF FieldsMeanTheSame
<1> HIDE DEF D
<1> DEFINE same == [part \in D |-> others[to[part]] = expanded[part]]
           V == {TRUE}
<1>10. \A d \in D : (\A x \in D : rank[x] < rank[d] => same[x] \in V) => same[d] \in V
  <2> SUFFICES ASSUME NEW d \in D, \A x \in D : rank[x] < rank[d] => same[x] \in V
               PROVE  others[to[d]] = expanded[d]
    OBVIOUS
  <2>1. OperandsMeanTheSame(d, to, expanded, others)
    BY <1>3 DEF OperandsMeanTheSame
  <2>2. IsNode(d) /\ IsCopied(d, to[d], to, new)
    BY <1>4, <1>6
  <2>3. IsMeant(d, expanded[d], expanded, of)
    BY <1>7
  <2>4. IsMeant(to[d], others[to[d]], others, next)
    BY <1>8
  <2>5. FieldsMeanTheSame(d, new, expanded, others)
    BY <1>9
  <2> HIDE DEF same, V
  <2> QED
    BY <2>1, <2>2, <2>3, <2>4, <2>5, PartMeansTheSame
<1>11. \A d \in D : same[d] \in V
  <2> HIDE DEF same, V
  <2> QED
    BY <1>3, <1>10, InductionByRank
<1>12. others[to[e]] = expanded[e]
  BY <1>1, <1>11
<1> QED
  BY <1>4, <1>12

(* The fields of the next version mean what those they copy mean.          *)
LEMMA FieldMeansTheSame ==
  ASSUME NEW of, AreValid(of), NEW next, AreValid(next),
         NEW added, Succeeds(of, Renewed(of), next, added),
         NEW expanded, IsMeaning(of, expanded), NEW others, IsMeaning(next, others),
         NEW id \in Calculated(of),
         \A x \in FieldIds(of[id].expression) :
           others[Field(Renewed(of)[x])] = expanded[Field(x)]
  PROVE  /\ Expanded(next[Renewed(of)[id]].expression, next) = Expanded(of[id].expression, of)
         /\ others[Field(Renewed(of)[id])] = expanded[Field(id)]
<1> DEFINE new == Renewed(of)
           e == of[id].expression
<1>1. id \in DOMAIN of /\ of[id].kind = "calculated"
  BY DEF Calculated
<1>2. next[new[id]].expression = Rewritten(e, new)
  BY <1>1 DEF Succeeds, IsFieldCopy
<1>3. /\ IsExpression(e) /\ ExpressionParts(e) \subseteq FieldParts(of)
      /\ Field(id) \in FieldParts(of)
  BY <1>1, FieldsHaveNodes DEF HasItsParts
<1>4. AreFields(of) /\ GraphIsValid(of)
  BY DEF AreValid
<1>5. new[id] \in Calculated(next)
  BY <1>4, DependenciesOfCopy
<1>6. /\ new[id] \in DOMAIN next /\ next[new[id]].kind = "calculated"
      /\ ExpressionParts(next[new[id]].expression) \subseteq FieldParts(next)
      /\ Field(new[id]) \in FieldParts(next)
  BY <1>5, FieldsHaveNodes DEF HasItsParts, Calculated
<1>7. others[Rewritten(e, new)] = expanded[e]
  <2>1. ExpressionParts(Rewritten(e, new)) \subseteq FieldParts(next)
    BY <1>2, <1>6
  <2>2. \A x \in FieldIds(e) : others[Field(new[x])] = expanded[Field(x)]
    OBVIOUS
  <2> HIDE DEF new, e
  <2> QED
    BY <1>3, <2>1, <2>2, ExpressionMeansTheSame
<1>8. Expanded(next[new[id]].expression, next) = others[next[new[id]].expression]
  BY <1>5 DEF IsMeaning
<1>9. Expanded(e, of) = expanded[e]
  BY DEF IsMeaning
<1>10. expanded[Field(id)] = expanded[e]
  <2>1. Field(id).op = "field" /\ Field(id).field = id
    BY DEF Field
  <2>2. IsMeant(Field(id), expanded[Field(id)], expanded, of)
    BY <1>3 DEF IsMeaning
  <2> QED
    BY <1>1, <2>1, <2>2 DEF IsMeant
<1>11. others[Field(new[id])] = others[next[new[id]].expression]
  <2>1. Field(new[id]).op = "field" /\ Field(new[id]).field = new[id]
    BY DEF Field
  <2>2. IsMeant(Field(new[id]), others[Field(new[id])], others, next)
    BY <1>6 DEF IsMeaning
  <2> HIDE DEF new
  <2> QED
    BY <1>6, <2>1, <2>2 DEF IsMeant
<1> HIDE DEF new, e
<1>12. Expanded(next[new[id]].expression, next) = Expanded(e, of)
  BY <1>2, <1>7, <1>8, <1>9, Zenon
<1>13. others[Field(new[id])] = expanded[Field(id)]
  BY <1>2, <1>7, <1>10, <1>11, Zenon
<1> QED
  BY <1>12, <1>13 DEF new, e

LEMMA SourceMeansTheSame ==
  ASSUME NEW of, AreValid(of), NEW next, AreValid(next),
         NEW added, Succeeds(of, Renewed(of), next, added),
         NEW expanded, IsMeaning(of, expanded), NEW others, IsMeaning(next, others),
         NEW id \in DOMAIN of, of[id].kind = "source"
  PROVE  others[Field(Renewed(of)[id])] = expanded[Field(id)]
<1> DEFINE new == Renewed(of)
<1>1. new[id][2] = id[2]
  BY DEF Renewed, Id
<1>2. new[id] \in DOMAIN next /\ next[new[id]].kind = "source"
  BY DEF Succeeds, IsFieldCopy, Copies
<1>3. Field(id) \in FieldParts(of) /\ Field(new[id]) \in FieldParts(next)
  BY <1>2, FieldsHaveNodes
<1>4. expanded[Field(id)] = Field(id[2])
  <2>1. Field(id).op = "field" /\ Field(id).field = id
    BY DEF Field
  <2>2. IsMeant(Field(id), expanded[Field(id)], expanded, of)
    BY <1>3 DEF IsMeaning
  <2> QED
    BY <2>1, <2>2 DEF IsMeant
<1>5. others[Field(new[id])] = Field(new[id][2])
  <2>1. Field(new[id]).op = "field" /\ Field(new[id]).field = new[id]
    BY DEF Field
  <2>2. IsMeant(Field(new[id]), others[Field(new[id])], others, next)
    BY <1>3 DEF IsMeaning
  <2> HIDE DEF new
  <2> QED
    BY <1>2, <2>1, <2>2 DEF IsMeant
<1> QED
  BY <1>1, <1>4, <1>5

LEMMA VersionMeansTheSame ==
  ASSUME NEW of, AreValid(of), NEW next, AreValid(next),
         NEW added, Succeeds(of, Renewed(of), next, added), NEW id \in DOMAIN of
  PROVE  /\ next[Renewed(of)[id]].kind = of[id].kind
         /\ next[Renewed(of)[id]].type = of[id].type
         /\ of[id].kind = "calculated" =>
              Expanded(next[Renewed(of)[id]].expression, next) = Expanded(of[id].expression, of)
<1>1. PICK expanded : IsMeaning(of, expanded)
  BY MeaningsExist
<1>2. PICK others : IsMeaning(next, others)
  BY MeaningsExist
<1>3. PICK done : IsOrder(of, done) /\ CompileOrder(of) = done[Cardinality(Calculated(of))]
  BY CompileOrderIs
<1> DEFINE Same(x) == others[Field(Renewed(of)[x])] = expanded[Field(x)]
           T == {n \in Nat : \A x \in done[n] : Same(x)}
<1>4. \A x \in DOMAIN of : of[x].kind = "source" => Same(x)
  BY <1>1, <1>2, SourceMeansTheSame
<1>5. \A x \in Calculated(of) : FieldIds(of[x].expression) \subseteq DOMAIN of
  BY FieldsHaveNodes DEF HasItsParts
<1>6. \A x \in DOMAIN of : of[x].kind = "source" \/ x \in Calculated(of)
  BY DEF AreValid, AreFields, IsField, Calculated
<1>7. ASSUME NEW x \in Calculated(of), \A y \in FieldIds(of[x].expression) : Same(y)
      PROVE  /\ Expanded(next[Renewed(of)[x]].expression, next) = Expanded(of[x].expression, of)
             /\ Same(x)
  BY <1>1, <1>2, <1>7, FieldMeansTheSame
<1> HIDE DEF Same
<1>8. 0 \in T
  BY <1>3 DEF IsOrder
<1>9. ASSUME NEW n \in T \cap Nat
      PROVE  n + 1 \in T
  <2>1. done[n + 1] = done[n] \cup {x \in Calculated(of) : Dependencies(of, x) \subseteq done[n]}
    BY <1>3 DEF IsOrder
  <2>2. ASSUME NEW x \in Calculated(of), Dependencies(of, x) \subseteq done[n]
        PROVE  Same(x)
    <3>1. \A y \in FieldIds(of[x].expression) : Same(y)
      BY <1>4, <1>5, <1>6, <1>9, <2>2 DEF Dependencies
    <3> QED
      BY <1>7, <3>1
  <2> QED
    BY <1>9, <2>1, <2>2
<1>10. Cardinality(Calculated(of)) \in Nat
  BY CalculatedAreFinite, FS_CardinalityType DEF AreValid
<1>11. Cardinality(Calculated(of)) \in T
  <2> HIDE DEF T
  <2> QED
    BY <1>8, <1>9, <1>10, Reaches
<1>12. done[Cardinality(Calculated(of))] = Calculated(of)
  BY <1>3 DEF AreValid, GraphIsValid
<1>13. \A x \in DOMAIN of : Same(x)
  BY <1>4, <1>6, <1>11, <1>12
<1>14. next[Renewed(of)[id]].kind = of[id].kind /\ next[Renewed(of)[id]].type = of[id].type
  BY DEF Succeeds, IsFieldCopy
<1>15. ASSUME of[id].kind = "calculated"
       PROVE  Expanded(next[Renewed(of)[id]].expression, next) = Expanded(of[id].expression, of)
  <2>1. id \in Calculated(of)
    BY <1>15 DEF Calculated
  <2> QED
    BY <1>5, <1>7, <1>13, <2>1
<1> QED
  BY <1>14, <1>15

(* _copy_fields and rewrite_calculated_expression_fields: every field of   *)
(* the next version of a dataset has the kind, the type and, down to the   *)
(* source fields, the expression of the field it was copied from, as long  *)
(* as no request holds a decimal.                                          *)
THEOREM VersionsMeanTheSame ==
  ASSUME "decimal" \notin Values
  PROVE  Spec => VersionsKeepMeaning
<1> DEFINE Keeps == \A id \in DOMAIN fields :
             LET old == fields[id]
                 new == fields'[Renewed(fields)[id]]
             IN /\ <<new.kind, new.type>> = <<old.kind, old.type>>
                /\ old.kind = "calculated" =>
                     Expanded(new.expression, fields') = Expanded(old.expression, fields)
<1>1. Init => FieldsInv
  BY SourceFieldsAreValid DEF Init, FieldsInit, FieldsInv
<1>2. FieldsInv /\ FieldsInv' /\ [Next]_vars => [fields' # fields => Keeps]_fields
  <2> SUFFICES ASSUME FieldsInv, FieldsInv', [Next]_vars, fields' # fields
               PROVE  Keeps
    OBVIOUS
  <2>1. AreValid(fields)
    BY DEF FieldsInv
  <2>2. AreValid(fields')
    BY DEF FieldsInv, AreValid, AreFields, GraphIsValid
  <2>3. \E added : Succeeds(fields, Renewed(fields), fields', added)
    <3>1. CASE CopyVersion
      <4>1. fields' = Copied(fields, Renewed(fields))
        BY <3>1 DEF CopyVersion
      <4>2. Succeeds(fields, Renewed(fields), Copied(fields, Renewed(fields)), {})
        BY <2>1, CopyIsValid
      <4> QED
        BY <4>1, <4>2
    <3>2. ASSUME NEW type \in Types, NEW e \in Expressions, CreateCalculatedField(type, e)
          PROVE  \E added : Succeeds(fields, Renewed(fields), fields', added)
      <4>1. fields' = Created(fields, type, e)
        BY <3>2, Zenon DEF CreateCalculatedField, Created
      <4>2. IsExpression(e)
        <5>1. IsWithin(e, MaxDepth)
          BY <3>2 DEF CreateCalculatedField
        <5> QED
          BY <5>1, TriedAreExpressions
      <4>3. IsTyped(e, TypesOf(fields), type)
        BY <3>2 DEF CreateCalculatedField, TypesOf
      <4>4. \E added : Succeeds(fields, Renewed(fields), Created(fields, type, e), added)
        BY <2>1, <4>2, <4>3, CreatedIsValid
      <4> QED
        BY <4>1, <4>4
    <3> QED
      BY <3>1, <3>2 DEF Next, Answer, ChangeFields, FieldsNext, vars
  <2>4. ASSUME NEW id \in DOMAIN fields
        PROVE  /\ fields'[Renewed(fields)[id]].kind = fields[id].kind
               /\ fields'[Renewed(fields)[id]].type = fields[id].type
               /\ fields[id].kind = "calculated" =>
                    Expanded(fields'[Renewed(fields)[id]].expression, fields')
                      = Expanded(fields[id].expression, fields)
    BY <2>1, <2>2, <2>3, VersionMeansTheSame
  <2> QED
    BY <2>4
<1> QED
  BY <1>1, <1>2, FieldsStayValid, PTL DEF Spec, VersionsKeepMeaning
=============================================================================
