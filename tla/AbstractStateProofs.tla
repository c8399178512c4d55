------------------------- MODULE AbstractStateProofs -------------------------
(***************************************************************************)
(* The transfer functions of the path-sensitive analysis are sound, for    *)
(* any set of variables and one variable at a time: what the environment   *)
(* says of it before an assignment, a branch or a merge is right           *)
(* afterwards.  Where that needs the statement to be one the analysis      *)
(* understands, the theorem says so (Exact, Decides), and followed tracks  *)
(* it along every path of every program (PathSpec).                        *)
(***************************************************************************)
EXTENDS PathAnalysis, TLAPS

(* join_taint_state is a join: the order in which a merge takes its        *)
(* incoming edges does not matter, and taking one twice does no harm.      *)
THEOREM JoinOrderFree ==
    \A a, b, c \in TaintState :
        /\ join_taint_state(a, a) = a
        /\ join_taint_state(a, b) = join_taint_state(b, a)
        /\ join_taint_state(a, join_taint_state(b, c)) = join_taint_state(join_taint_state(a, b), c)
  BY DEF join_taint_state, TaintState, Suspect

(* A variable has an abstract value at every program point.                *)
LEMMA ValueType ==
    ASSUME NEW env, WellFormed(env), NEW v \in Vars
    PROVE  get_value(env, v) \in AbstractValue
  BY DEF WellFormed, get_value, Unassigned, AbstractValue, TaintState

(* What is read back after a value is stored for one variable.             *)
LEMMA ReadAfterSet ==
    ASSUME NEW env, WellFormed(env), NEW v \in Vars, NEW val, NEW w \in Vars
    PROVE  get_value(set_value(env, v, val), w) = IF w = v THEN val ELSE get_value(env, w)
  BY DEF get_value, set_value, Stored, get_version, Counter

(* What is read back after one variable is assigned a value.               *)
LEMMA ReadAfterKill ==
    ASSUME NEW env, WellFormed(env), NEW v \in Vars, NEW val, NEW w \in Vars
    PROVE  get_value(assignment_kill(env, v, val), w) = IF w = v THEN val ELSE get_value(env, w)
  <1> DEFINE new == assignment_kill(env, v, val)
  <1>1. new.count = [env.count EXCEPT ![v] = @ + 1] /\ new.values = Stored(env.values, <<v, env.count[v] + 1>>, val)
    BY DEF assignment_kill
  <1>2. env.count \in [Vars -> Nat]
    BY DEF WellFormed
  <1>3. CASE w = v
    <2>1. get_version(new, w) = <<v, env.count[v] + 1>>
      BY <1>1, <1>2, <1>3 DEF get_version, Counter
    <2> QED BY <2>1, <1>1, <1>3 DEF get_value, Stored
  <1>4. CASE w # v
    <2>1. get_version(new, w) = get_version(env, w) /\ get_version(env, w) # <<v, env.count[v] + 1>>
      BY <1>1, <1>2, <1>4 DEF get_version, Counter
    <2> QED BY <2>1, <1>1, <1>4 DEF get_value, Stored
  <1> QED BY <1>3, <1>4

(* What is read back after a join: the joined value of a variable either   *)
(* side counts, nothing of the others.                                     *)
LEMMA ReadAfterJoin ==
    ASSUME NEW e, WellFormed(e), NEW f, WellFormed(f), NEW v \in Vars
    PROVE  get_value(join(e, f), v) = IF e.count[v] # 0 \/ f.count[v] # 0 THEN JoinedValue(e, f, v) ELSE Unassigned
  <1> DEFINE all == {w \in Vars : e.count[w] # 0 \/ f.count[w] # 0}
             j == join(e, f)
             keys == {<<w, JoinedCounter(e, f, w)>> : w \in all}
  <1>1. /\ j.count = [w \in Vars |-> IF w \in all THEN JoinedCounter(e, f, w) ELSE 0]
        /\ j.values = [k \in keys |-> JoinedValue(e, f, k[1])]
    BY DEF join
  <1>2. e.count[v] \in Nat /\ f.count[v] \in Nat
    BY DEF WellFormed
  <1>3. CASE v \in all
    <2>1. JoinedCounter(e, f, v) # 0
      BY <1>2 DEF JoinedCounter, Counter
    <2>2. get_version(j, v) = <<v, JoinedCounter(e, f, v)>>
      BY <1>1, <1>3, <2>1 DEF get_version, Counter
    <2>3. <<v, JoinedCounter(e, f, v)>> \in keys
      BY <1>3
    <2>4. j.values[<<v, JoinedCounter(e, f, v)>>] = JoinedValue(e, f, v)
      BY <1>1, <2>3
    <2> QED BY <1>1, <1>3, <2>2, <2>3, <2>4 DEF get_value
  <1>4. CASE v \notin all
    <2>1. get_version(j, v) \notin keys
      BY <1>4 DEF get_version
    <2> QED BY <1>1, <1>4, <2>1 DEF get_value
  <1> QED BY <1>3, <1>4

(* Whichever of two paths was taken, what the merge of the two says of a   *)
(* variable is so: a fact survives only if both paths have it, taint if    *)
(* either has it.                                                          *)
THEOREM JoinIsSound ==
    ASSUME NEW e, WellFormed(e), NEW f, WellFormed(f), NEW st \in State, NEW v \in Vars,
           Describes(e, st, v) \/ Describes(f, st, v)
    PROVE  Describes(join(e, f), st, v)
  <1>1. get_value(e, v) \in AbstractValue /\ get_value(f, v) \in AbstractValue
    BY ValueType
  <1>2. \/ get_value(e, v).facts \subseteq st[v].has /\ (st[v].tainted => get_value(e, v).taint \in Suspect)
        \/ get_value(f, v).facts \subseteq st[v].has /\ (st[v].tainted => get_value(f, v).taint \in Suspect)
    BY DEF Describes
  <1>3. CASE e.count[v] # 0 \/ f.count[v] # 0
    <2>1. get_value(join(e, f), v) = JoinedValue(e, f, v)
      BY <1>3, ReadAfterJoin
    <2> QED BY <2>1, <1>1, <1>2 DEF Describes, JoinedValue, join_constraints, join_taint_state, Suspect
  <1>4. CASE ~(e.count[v] # 0 \/ f.count[v] # 0)
    <2>1. get_value(join(e, f), v) = Unassigned
      BY <1>4, ReadAfterJoin
    <2>2. get_value(e, v).taint \notin Suspect /\ get_value(f, v).taint \notin Suspect
      BY <1>4 DEF WellFormed
    <2> QED BY <2>1, <2>2, <1>2 DEF Describes, Unassigned
  <1> QED BY <1>3, <1>4

(* The joined environment is again one the analysis may build.             *)
LEMMA JoinIsWellFormed ==
    ASSUME NEW e, WellFormed(e), NEW f, WellFormed(f)
    PROVE  WellFormed(join(e, f))
  <1> DEFINE all == {w \in Vars : e.count[w] # 0 \/ f.count[w] # 0}
             j == join(e, f)
             keys == {<<w, JoinedCounter(e, f, w)>> : w \in all}
  <1>1. /\ j.count = [w \in Vars |-> IF w \in all THEN JoinedCounter(e, f, w) ELSE 0]
        /\ j.values = [k \in keys |-> JoinedValue(e, f, k[1])]
    BY DEF join
  <1>2. \A w \in Vars : JoinedCounter(e, f, w) \in Nat /\ JoinedCounter(e, f, w) # 0
    BY DEF WellFormed, JoinedCounter, Counter
  <1>3. j.count \in [Vars -> Nat]
    BY <1>1, <1>2
  <1>4. \A w \in Vars : JoinedValue(e, f, w) \in AbstractValue
    <2> SUFFICES ASSUME NEW w \in Vars PROVE JoinedValue(e, f, w) \in AbstractValue
      OBVIOUS
    <2>1. get_value(e, w) \in AbstractValue /\ get_value(f, w) \in AbstractValue
      BY ValueType
    <2> QED BY <2>1 DEF JoinedValue, join_constraints, join_taint_state, AbstractValue, TaintState
  <1>5. \A k \in DOMAIN j.values : j.values[k] \in AbstractValue
    BY <1>1, <1>4
  <1>6. \A v \in Vars : j.count[v] = 0 => get_value(j, v).taint \notin Suspect
    BY <1>1, <1>2, ReadAfterJoin DEF Unassigned, Suspect
  <1> QED BY <1>3, <1>5, <1>6 DEF WellFormed

(* The value a right-hand side gets is an abstract value.                  *)
LEMMA RhsValueType ==
    ASSUME NEW env, WellFormed(env), NEW rhs \in Rhs
    PROVE  RhsValue(env, rhs) \in AbstractValue
  <1>0. \A v \in Vars : get_value(env, v) \in AbstractValue
    BY ValueType
  <1>1. CASE rhs.form = "trans"
    <2>1. Transformations[rhs.fn] \subseteq SemanticConstraint
      BY <1>1 DEF Rhs, Transformations, SemanticConstraint, TypeConstraints
    <2>2. rhs.arg # Untrusted => rhs.arg \in Vars
      BY <1>1 DEF Rhs
    <2> QED BY <1>0, <1>1, <2>1, <2>2 DEF RhsValue, with_constraints, AbstractValue, TaintState
  <1>2. CASE rhs.form = "copy"
    <2>1. rhs.arg \in Vars
      BY <1>2 DEF Rhs
    <2> QED BY <1>0, <1>2, <2>1 DEF RhsValue, with_constraints, AbstractValue, TaintState
  <1>3. CASE rhs.form = "expr"
    <2>1. rhs.vars \subseteq Vars
      BY <1>3 DEF Rhs
    <2>2. UNION {get_value(env, v).facts : v \in rhs.vars} \subseteq SemanticConstraint
      BY <1>0, <2>1 DEF AbstractValue
    <2> QED BY <1>3, <2>2 DEF RhsValue, with_constraints, AbstractValue, TaintState
  <1> QED BY <1>1, <1>2, <1>3 DEF Rhs

(* The value an exact right-hand side gets is right about any value the    *)
(* program may compute for it, if the environment is right about its       *)
(* operands.                                                               *)
LEMMA RhsValueIsSound ==
    ASSUME NEW env, WellFormed(env), NEW st \in State,
           NEW rhs \in Rhs, Exact(rhs), \A w \in Operands(rhs) : Describes(env, st, w),
           NEW x \in Results(st, rhs)
    PROVE  /\ RhsValue(env, rhs).facts \subseteq x.has
           /\ x.tainted => RhsValue(env, rhs).taint \in Suspect
  <1>1. CASE rhs.form = "trans"
    <2>1. rhs.fn \in DOMAIN Transformations /\ rhs.arg \in Vars \cup {Untrusted} /\ rhs.rest = {}
      BY <1>1 DEF Rhs, Exact, Alone
    <2>2. Transformations[rhs.fn] = Converted[rhs.fn]
      BY <2>1 DEF Transformations, Converted
    <2>3. x = [tainted |-> Carries(st, rhs), has |-> Converted[rhs.fn]]
      BY <1>1, <2>1 DEF Results
    <2>4. RhsValue(env, rhs).facts = Transformations[rhs.fn]
      BY <1>1 DEF RhsValue, with_constraints
    <2>5. Carries(st, rhs) => rhs.arg = Untrusted \/ (rhs.arg \in Vars /\ st[rhs.arg].tainted)
      BY <1>1, <2>1 DEF Carries
    <2>6. rhs.arg \in Vars => (st[rhs.arg].tainted => get_value(env, rhs.arg).taint \in Suspect)
      BY <1>1 DEF Operands, Describes
    <2>7. x.tainted => RhsValue(env, rhs).taint \in Suspect
      BY <1>1, <2>3, <2>5, <2>6 DEF RhsValue, with_constraints, Suspect
    <2> QED BY <2>2, <2>3, <2>4, <2>7
  <1>2. CASE rhs.form = "copy"
    <2>1. rhs.arg \in Vars /\ x = st[rhs.arg]
      BY <1>2 DEF Rhs, Results
    <2>2. /\ get_value(env, rhs.arg).facts \subseteq st[rhs.arg].has
          /\ st[rhs.arg].tainted => get_value(env, rhs.arg).taint \in Suspect
      BY <1>2, <2>1 DEF Operands, Describes
    <2> QED BY <1>2, <2>1, <2>2 DEF RhsValue, with_constraints, Suspect
  <1>3. CASE rhs.form = "expr"
    <2>1. rhs.vars = {}
      BY <1>3 DEF Exact
    <2>2. UNION {get_value(env, v).facts : v \in rhs.vars} = {}
      BY <2>1
    <2>3. x \in Texts(Carries(st, rhs))
      BY <1>3 DEF Results
    <2>4. x.tainted => rhs.source
      <3>1. x.tainted = Carries(st, rhs)
        BY <2>3 DEF Texts
      <3>2. Carries(st, rhs) => rhs.source
        BY <1>3, <2>1 DEF Carries
      <3> QED BY <3>1, <3>2
    <2> QED BY <1>3, <2>2, <2>4 DEF RhsValue, with_constraints, Suspect
  <1> QED BY <1>1, <1>2, <1>3 DEF Rhs

(* Why the right-hand side must be exact: what a conversion is put         *)
(* together with is not looked at.  Untrusted input goes into the value,   *)
(* and the environment does not suspect it.                                *)
THEOREM ComposedConversionHidesTaint ==
    ASSUME NEW env, NEW st \in State, NEW rhs \in Rhs, rhs.form = "trans",
           Untrusted \in rhs.rest \/ \E w \in rhs.rest \cap Vars : st[w].tainted,
           rhs.arg \in Vars \ {Untrusted}, get_value(env, rhs.arg).taint \notin Suspect,
           NEW x \in Results(st, rhs)
    PROVE  x.tainted /\ RhsValue(env, rhs).taint \notin Suspect
  <1>1. rhs.rest # {} /\ x \in Texts(Carries(st, rhs))
    BY DEF Results
  <1>2. Carries(st, rhs)
    <2>1. PICK a \in rhs.rest : a = Untrusted \/ (a \in Vars /\ st[a].tainted)
      OBVIOUS
    <2> QED BY <2>1 DEF Carries
  <1>3. x.tainted
    <2>1. x.tainted = Carries(st, rhs)
      BY <1>1 DEF Texts
    <2> QED BY <1>2, <2>1
  <1>4. RhsValue(env, rhs).taint = get_value(env, rhs.arg).taint
    BY DEF RhsValue, with_constraints, Suspect
  <1> QED BY <1>3, <1>4

(* An assignment of an exact right-hand side: everything known of the old  *)
(* value is forgotten, and what is then said of the new one is so.  What   *)
(* any assignment says of the other variables stays as right as it was.    *)
THEOREM AssignIsSound ==
    ASSUME NEW env, WellFormed(env), NEW st \in State, NEW v \in Vars, NEW rhs \in Rhs,
           NEW x \in Results(st, rhs), NEW w \in Vars,
           \/ w = v /\ Exact(rhs) /\ \A u \in Operands(rhs) : Describes(env, st, u)
           \/ w # v /\ Describes(env, st, w)
    PROVE  Describes(Assign(env, v, rhs), [st EXCEPT ![v] = x], w)
  <1> DEFINE new == Assign(env, v, rhs)
             after == [st EXCEPT ![v] = x]
  <1>1. get_value(new, w) = IF w = v THEN RhsValue(env, rhs) ELSE get_value(env, w)
    BY ReadAfterKill DEF Assign
  <1>2. after[w] = IF w = v THEN x ELSE st[w]
    BY DEF State
  <1>3. CASE w = v
    <2>1. RhsValue(env, rhs).facts \subseteq x.has /\ (x.tainted => RhsValue(env, rhs).taint \in Suspect)
      BY <1>3, RhsValueIsSound
    <2> QED BY <1>1, <1>2, <1>3, <2>1 DEF Describes
  <1>4. CASE w # v
    BY <1>1, <1>2, <1>4 DEF Describes
  <1> QED BY <1>3, <1>4

(* Taking a branch: what the edge adds holds whenever the program takes    *)
(* it, on the true and on the false side, negated or not, as long as the   *)
(* condition's first test, if it is a known one, decides that side.        *)
THEOREM RefineIsSound ==
    ASSUME NEW env, WellFormed(env), NEW st \in State, NEW w \in Vars, Describes(env, st, w),
           NEW cond \in Cond, w = cond.var /\ cond.pred \in DOMAIN Predicates => Decides(cond),
           NEW b \in BOOLEAN, b \in Truth(st, cond)
    PROVE  Describes(RefineEdge(env, IF b THEN "TRUE_BRANCH" ELSE "FALSE_BRANCH", cond), st, w)
  <1> DEFINE kind == IF b THEN "TRUE_BRANCH" ELSE "FALSE_BRANCH"
             facts == Established(kind, cond)
             val == with_constraints(get_value(env, cond.var), facts)
  <1>1. CASE facts = {}
    BY <1>1 DEF RefineEdge
  <1>2. CASE facts # {} /\ w # cond.var
    <2>1. RefineEdge(env, kind, cond) = set_value(env, cond.var, val) /\ cond.var \in Vars
      BY <1>2 DEF RefineEdge, Cond
    <2>2. get_value(set_value(env, cond.var, val), w) = get_value(env, w)
      BY <1>2, <2>1, ReadAfterSet
    <2> QED BY <2>1, <2>2 DEF Describes
  <1>3. CASE facts # {} /\ w = cond.var
    <2>1. /\ cond.pred \in DOMAIN Predicates /\ b # cond.negated /\ facts = Predicates[cond.pred]
          /\ Decides(cond)
      BY <1>3 DEF Established, Cond
    <2>2. cond.pred \in {"is_numeric", "ctype_digit", "is_int"} /\ cond.var \in Vars /\ cond.negated \in BOOLEAN
      BY <2>1 DEF Predicates, Cond
    <2>3. Tests[cond.pred] \in st[cond.var].has
      <3>1. cond.pred \in DOMAIN Tests
        BY <2>2 DEF Tests
      <3>2. SUFFICES ASSUME Tests[cond.pred] \notin st[cond.var].has PROVE FALSE
        OBVIOUS
      <3>3. CASE cond.negated = FALSE
        <4>1. b = TRUE /\ cond.with \in {"none", "and"}
          BY <2>1, <3>3 DEF Decides
        <4>2. b \in {FALSE}
          BY <3>1, <3>2, <3>3, <4>1 DEF Truth
        <4> QED BY <4>1, <4>2
      <3>4. CASE cond.negated = TRUE
        <4>1. b = FALSE /\ cond.with \in {"none", "or"}
          BY <2>1, <3>4 DEF Decides
        <4>2. b \in {TRUE}
          BY <3>1, <3>2, <3>4, <4>1 DEF Truth
        <4> QED BY <4>1, <4>2
      <3> QED BY <2>2, <3>3, <3>4
    <2>4. st[cond.var] \in ConcreteValue
      BY <2>2 DEF State
    <2>5. facts \subseteq st[cond.var].has
      BY <2>1, <2>2, <2>3, <2>4 DEF Tests, Predicates, ConcreteValue
    <2>6. RefineEdge(env, kind, cond) = set_value(env, cond.var, val)
      BY <1>3 DEF RefineEdge
    <2>7. get_value(set_value(env, cond.var, val), w) = val
      BY <1>3, <2>2, ReadAfterSet
    <2>8. get_value(env, w).facts \subseteq st[w].has /\ (st[w].tainted => get_value(env, w).taint \in Suspect)
      BY DEF Describes
    <2>9. val.facts = get_value(env, w).facts \cup facts /\ (get_value(env, w).taint \in Suspect => val.taint \in Suspect)
      BY <1>3 DEF with_constraints, Suspect
    <2> QED BY <1>3, <2>5, <2>6, <2>7, <2>8, <2>9 DEF Describes
  <1> QED BY <1>1, <1>2, <1>3

(* A branch leaves an environment the analysis may build.                  *)
LEMMA RefineIsWellFormed ==
    ASSUME NEW env, WellFormed(env), NEW cond \in Cond, NEW kind
    PROVE  WellFormed(RefineEdge(env, kind, cond))
  <1> DEFINE facts == Established(kind, cond)
             val == with_constraints(get_value(env, cond.var), facts)
             new == set_value(env, cond.var, val)
  <1>1. CASE facts = {}
    BY <1>1 DEF RefineEdge
  <1>2. CASE facts # {}
    <2>0. RefineEdge(env, kind, cond) = new /\ cond.var \in Vars
      BY <1>2 DEF RefineEdge, Cond
    <2>1. facts \subseteq SemanticConstraint
      BY DEF Established, Predicates, SemanticConstraint, TypeConstraints
    <2>2. get_value(env, cond.var) \in AbstractValue
      BY <2>0, ValueType
    <2>3. val \in AbstractValue
      <3> HIDE DEF facts
      <3> QED BY <2>1, <2>2 DEF with_constraints, AbstractValue, TaintState
    <2>4. new.count = env.count /\ new.values = Stored(env.values, get_version(env, cond.var), val)
      BY DEF set_value
    <2>5. \A k \in DOMAIN new.values : new.values[k] \in AbstractValue
      <3> HIDE DEF val
      <3> QED BY <2>3, <2>4 DEF Stored, WellFormed
    <2>6. ASSUME NEW w \in Vars, env.count[w] = 0 PROVE get_value(new, w).taint \notin Suspect
      <3>1. get_value(env, w).taint \notin Suspect
        BY <2>6 DEF WellFormed
      <3>2. get_value(new, w) = IF w = cond.var THEN val ELSE get_value(env, w)
        BY <2>0, ReadAfterSet
      <3>3. w = cond.var => val.taint = get_value(env, w).taint
        BY <3>1 DEF with_constraints, Suspect
      <3> QED BY <3>1, <3>2, <3>3
    <2> HIDE DEF new
    <2> QED BY <2>0, <2>4, <2>5, <2>6 DEF WellFormed
  <1> QED BY <1>1, <1>2

(* So does an assignment, of any right-hand side.                          *)
LEMMA AssignIsWellFormed ==
    ASSUME NEW env, WellFormed(env), NEW v \in Vars, NEW rhs \in Rhs
    PROVE  WellFormed(Assign(env, v, rhs))
  <1> DEFINE val == RhsValue(env, rhs)
             new == Assign(env, v, rhs)
  <1>0. env.count \in [Vars -> Nat]
    BY DEF WellFormed
  <1>1. val \in AbstractValue
    BY RhsValueType
  <1>2. new.count = [env.count EXCEPT ![v] = @ + 1] /\ new.values = Stored(env.values, <<v, env.count[v] + 1>>, val)
    BY DEF Assign, assignment_kill
  <1>3. new.count \in [Vars -> Nat] /\ new.count[v] # 0 /\ \A w \in Vars : w # v => new.count[w] = env.count[w]
    BY <1>0, <1>2
  <1>4. \A k \in DOMAIN new.values : new.values[k] \in AbstractValue
    <2> HIDE DEF val
    <2> QED BY <1>1, <1>2 DEF Stored, WellFormed
  <1>5. ASSUME NEW w \in Vars, new.count[w] = 0 PROVE get_value(new, w).taint \notin Suspect
    <2>1. w # v /\ env.count[w] = 0
      BY <1>3, <1>5
    <2>2. get_value(new, w) = get_value(env, w)
      BY <2>1, ReadAfterKill DEF Assign
    <2> QED BY <2>1, <2>2 DEF WellFormed
  <1>6. WellFormed(new)
    <2> HIDE DEF new
    <2> QED BY <1>3, <1>4, <1>5 DEF WellFormed
  <1> QED BY <1>6

(* Text is a value, and so are the values a program computes.              *)
LEMMA TextsAreValues ==
    ASSUME NEW tainted \in BOOLEAN, NEW x \in Texts(tainted)
    PROVE  x \in ConcreteValue
  <1>1. PICK h \in {{}, {"NUMERIC"}, {"NUMERIC", "DIGITS_ONLY"}} : x = [tainted |-> tainted, has |-> h]
    BY DEF Texts
  <1>2. h \in SUBSET SemanticConstraint /\ ("INTEGER" \in h \/ "DIGITS_ONLY" \in h => "NUMERIC" \in h)
    BY DEF SemanticConstraint, TypeConstraints
  <1> QED BY <1>1, <1>2 DEF ConcreteValue

LEMMA CarriesIsBoolean ==
    ASSUME NEW st \in State, NEW rhs \in Rhs
    PROVE  Carries(st, rhs) \in BOOLEAN
  <1>1. \A v \in Vars : st[v].tainted \in BOOLEAN
    BY DEF State, ConcreteValue
  <1>2. CASE rhs.form = "trans"
    BY <1>2 DEF Carries
  <1>3. CASE rhs.form = "copy"
    BY <1>1, <1>3 DEF Carries, Rhs
  <1>4. CASE rhs.form = "expr"
    <2>1. rhs.source \in BOOLEAN
      BY <1>4 DEF Rhs
    <2> QED BY <1>4, <2>1 DEF Carries
  <1> QED BY <1>2, <1>3, <1>4 DEF Rhs

LEMMA ResultsAreValues ==
    ASSUME NEW st \in State, NEW rhs \in Rhs, NEW x \in Results(st, rhs)
    PROVE  x \in ConcreteValue
  <1>1. CASE rhs.form = "trans" /\ rhs.rest = {}
    <2>1. rhs.fn \in {"intval", "floatval", "escapeshellarg", "htmlspecialchars", "basename"}
      BY <1>1 DEF Rhs, Transformations
    <2>2. x = [tainted |-> Carries(st, rhs), has |-> Converted[rhs.fn]]
      BY <1>1 DEF Results
    <2>3. /\ Converted[rhs.fn] \subseteq SemanticConstraint
          /\ "INTEGER" \in Converted[rhs.fn] \/ "DIGITS_ONLY" \in Converted[rhs.fn] => "NUMERIC" \in Converted[rhs.fn]
      BY <2>1 DEF Converted, SemanticConstraint, TypeConstraints
    <2>4. x \in [tainted : BOOLEAN, has : SUBSET SemanticConstraint] /\ x.has = Converted[rhs.fn]
      BY <2>2, <2>3, CarriesIsBoolean
    <2> QED BY <2>3, <2>4 DEF ConcreteValue
  <1>2. CASE rhs.form = "copy"
    BY <1>2 DEF Rhs, Results, State
  <1>3. CASE rhs.form = "expr" \/ (rhs.form = "trans" /\ rhs.rest # {})
    <2>1. x \in Texts(Carries(st, rhs))
      BY <1>3 DEF Results
    <2> QED BY <2>1, CarriesIsBoolean, TextsAreValues
  <1> QED BY <1>1, <1>2, <1>3 DEF Rhs

(* So is what an update leaves in a variable.                              *)
LEMMA UpdatedAreValues ==
    ASSUME NEW st \in State, NEW v \in Vars, NEW rhs \in Rhs, NEW x \in Updated(st, v, rhs)
    PROVE  x \in ConcreteValue
  <1>1. (st[v].tainted \/ Carries(st, rhs)) \in BOOLEAN
    OBVIOUS
  <1> QED BY <1>1, TextsAreValues DEF Updated

(* Reading a condition as an assignment changes nothing but its variable.  *)
LEMMA ReadConditionKeeps ==
    ASSUME NEW env, WellFormed(env), NEW cond \in Cond
    PROVE  /\ WellFormed(ReadCondition(env, cond))
           /\ \A w \in Vars : w # cond.var \/ cond.pred # "equals" =>
                 get_value(ReadCondition(env, cond), w) = get_value(env, w)
  <1> DEFINE rhs == [form |-> "expr", vars |-> {}, source |-> FALSE]
  <1>1. cond.var \in Vars /\ rhs \in Rhs
    BY DEF Cond, Rhs
  <1>2. CASE cond.pred = "equals"
    <2>1. ReadCondition(env, cond) = Assign(env, cond.var, rhs)
      BY <1>2 DEF ReadCondition
    <2>2. \A w \in Vars : w # cond.var => get_value(Assign(env, cond.var, rhs), w) = get_value(env, w)
      BY <1>1, ReadAfterKill DEF Assign
    <2> QED BY <1>1, <1>2, <2>1, <2>2, AssignIsWellFormed
  <1>3. CASE cond.pred # "equals"
    BY <1>3 DEF ReadCondition
  <1> QED BY <1>2, <1>3

(* What the matrix answers is one of the constraints it was asked about.   *)
LEMMA MatrixIsSound ==
    ASSUME NEW constraints, NEW sink \in Sinks, evaluate(constraints, sink) # "NONE"
    PROVE  evaluate(constraints, sink) \in constraints
  <1> DEFINE typed == constraints \cap TypeConstraints # {}
             compatible(c, category) == IF sink.category = category THEN c ELSE "NONE"
  <1>1. typed => MatchedType(constraints) \in constraints
    BY DEF MatchedType, TypeConstraints
  <1>2. CASE typed /\ sink.category \in {"COMMAND", "XSS"}
    BY <1>1, <1>2 DEF evaluate
  <1>3. CASE typed /\ sink.category = "SQL"
    BY <1>1, <1>3 DEF evaluate
  <1>4. CASE ~(typed /\ sink.category # "FILE")
    <2>1. CASE "SHELL_ESCAPED" \in constraints
      <3>1. evaluate(constraints, sink) = compatible("SHELL_ESCAPED", "COMMAND")
        BY <1>4, <2>1 DEF evaluate
      <3> QED BY <2>1, <3>1
    <2>2. CASE "SHELL_ESCAPED" \notin constraints /\ "HTML_ESCAPED" \in constraints
      <3>1. evaluate(constraints, sink) = compatible("HTML_ESCAPED", "XSS")
        BY <1>4, <2>2 DEF evaluate
      <3> QED BY <2>2, <3>1
    <2>3. CASE "SHELL_ESCAPED" \notin constraints /\ "HTML_ESCAPED" \notin constraints
      BY <1>4, <2>3 DEF evaluate
    <2> QED BY <2>1, <2>2, <2>3
  <1> QED BY <1>2, <1>3, <1>4 DEF Sinks

(* On every path, of any length, with any statement of the language and    *)
(* through any number of merges with whatever comes from elsewhere, the    *)
(* environment is right about every variable that is followed.             *)
THEOREM PathIsSound == PathSpec => [](actual \in State /\ SoundAlongPath)
  <1> DEFINE Inv == actual \in State /\ followed \subseteq Vars /\ SoundAlongPath
  <1>1. PathInit => Inv
    <2> SUFFICES ASSUME PathInit PROVE Inv
      OBVIOUS
    <2>1. Literal \in ConcreteValue /\ Literal.tainted = FALSE
      BY DEF Literal, ConcreteValue
    <2>2. actual \in State /\ followed = Vars /\ \A v \in Vars : actual[v] = Literal
      BY <2>1 DEF PathInit, State
    <2>3. /\ known.count = [v \in Vars |-> 0] /\ DOMAIN known.values = {}
          /\ \A v \in Vars : get_value(known, v) = Unassigned
      BY DEF PathInit, EmptyEnvironment, get_value
    <2>4. Unassigned.taint \notin Suspect /\ Unassigned.facts = {}
      BY DEF Unassigned, Suspect
    <2>5. WellFormed(known)
      BY <2>3, <2>4 DEF WellFormed
    <2>6. \A v \in Vars : Describes(known, actual, v)
      BY <2>1, <2>2, <2>3, <2>4 DEF Describes
    <2> QED BY <2>2, <2>5, <2>6 DEF SoundAlongPath
  <1>2. Inv /\ [PathNext]_pathVars => Inv'
    <2> SUFFICES ASSUME Inv, [PathNext]_pathVars PROVE Inv'
      OBVIOUS
    <2>0. /\ actual \in State /\ followed \subseteq Vars /\ WellFormed(known)
          /\ \A v \in followed : Describes(known, actual, v)
      BY DEF SoundAlongPath
    <2> SUFFICES ASSUME TRUE
                 PROVE  /\ actual' \in State /\ followed' \subseteq Vars /\ WellFormed(known')
                        /\ \A w \in followed' : Describes(known', actual', w)
      BY DEF SoundAlongPath, WellFormed, Describes
    <2>1. ASSUME NEW v \in Vars, NEW rhs \in Rhs, AssignStep(v, rhs)
          PROVE  /\ actual' \in State /\ followed' \subseteq Vars /\ WellFormed(known')
                 /\ \A w \in followed' : Describes(known', actual', w)
      <3>1. PICK x \in Results(actual, rhs) : actual' = [actual EXCEPT ![v] = x]
        BY <2>1 DEF AssignStep
      <3>2. actual' \in State
        BY <2>0, <3>1, ResultsAreValues DEF State
      <3>3. known' = Assign(known, v, rhs) /\ followed' \subseteq Vars
        BY <2>0, <2>1 DEF AssignStep
      <3>4. WellFormed(known')
        BY <2>0, <3>3, AssignIsWellFormed
      <3>5. ASSUME NEW w \in followed' PROVE Describes(known', actual', w)
        <4>1. \/ w = v /\ Exact(rhs) /\ Operands(rhs) \subseteq followed
              \/ w # v /\ w \in followed
          BY <2>1, <3>5 DEF AssignStep
        <4>2. \/ w = v /\ Exact(rhs) /\ \A u \in Operands(rhs) : Describes(known, actual, u)
              \/ w # v /\ Describes(known, actual, w)
          BY <2>0, <4>1
        <4> QED BY <2>0, <3>1, <3>3, <3>5, <4>2, AssignIsSound
      <3> QED BY <3>2, <3>3, <3>4, <3>5
    <2>2. ASSUME NEW v \in Vars, NEW rhs \in Rhs, UpdateStep(v, rhs)
          PROVE  /\ actual' \in State /\ followed' \subseteq Vars /\ WellFormed(known')
                 /\ \A w \in followed' : Describes(known', actual', w)
      <3>1. PICK x \in Updated(actual, v, rhs) : actual' = [actual EXCEPT ![v] = x]
        BY <2>2 DEF UpdateStep
      <3>2. actual' \in State /\ \A w \in Vars : w # v => actual'[w] = actual[w]
        BY <2>0, <3>1, UpdatedAreValues DEF State
      <3>3. known' = known /\ followed' = followed \ {v}
        BY <2>2 DEF UpdateStep
      <3> QED BY <2>0, <3>2, <3>3 DEF Describes
    <2>3. ASSUME NEW cond \in Cond, NEW taken \in BOOLEAN, BranchStep(cond, taken)
          PROVE  /\ actual' \in State /\ followed' \subseteq Vars /\ WellFormed(known')
                 /\ \A w \in followed' : Describes(known', actual', w)
      <3> DEFINE read == ReadCondition(known, cond)
                 kind == IF taken THEN "TRUE_BRANCH" ELSE "FALSE_BRANCH"
      <3>1. /\ known' = RefineEdge(read, kind, cond) /\ actual' = actual /\ taken \in Truth(actual, cond)
            /\ followed' = IF Misread(cond) THEN followed \ {cond.var} ELSE followed
        BY <2>3 DEF BranchStep
      <3>2. WellFormed(read)
        BY <2>0, ReadConditionKeeps
      <3>3. WellFormed(known')
        BY <3>1, <3>2, RefineIsWellFormed
      <3>4. ASSUME NEW w \in followed' PROVE Describes(known', actual', w)
        <4>1. w \in Vars /\ w \in followed /\ (w = cond.var => ~Misread(cond))
          BY <2>0, <3>1, <3>4
        <4>2. get_value(read, w) = get_value(known, w)
          BY <2>0, <4>1, ReadConditionKeeps DEF Misread
        <4>3. Describes(read, actual, w)
          BY <2>0, <4>1, <4>2 DEF Describes
        <4>4. w = cond.var /\ cond.pred \in DOMAIN Predicates => Decides(cond)
          BY <4>1 DEF Misread
        <4> HIDE DEF read
        <4> QED BY <2>0, <3>1, <3>2, <4>1, <4>3, <4>4, RefineIsSound
      <3> QED BY <2>0, <3>1, <3>3, <3>4
    <2>4. ASSUME NEW other, MergeStep(other)
          PROVE  /\ actual' \in State /\ followed' \subseteq Vars /\ WellFormed(known')
                 /\ \A w \in followed' : Describes(known', actual', w)
      <3>1. /\ WellFormed(other) /\ actual' = actual /\ followed' = followed
            /\ known' = join(known, other) \/ known' = join(other, known)
        BY <2>4 DEF MergeStep
      <3>2. WellFormed(known')
        BY <2>0, <3>1, JoinIsWellFormed
      <3>3. \A w \in followed' : Describes(known', actual', w)
        BY <2>0, <3>1, JoinIsSound
      <3> QED BY <2>0, <3>1, <3>2, <3>3
    <2>5. CASE UNCHANGED pathVars
      BY <2>0, <2>5 DEF pathVars
    <2> QED BY <2>1, <2>2, <2>3, <2>4, <2>5 DEF PathNext
  <1>3. Inv => actual \in State /\ SoundAlongPath
    OBVIOUS
  <1> QED BY <1>1, <1>2, <1>3, PTL DEF PathSpec

(* So whenever a sink of one followed variable is called SAFE with the     *)
(* environment of a path, the constraint that is named really holds of the *)
(* value.                                                                  *)
THEOREM SafeVerdictIsProven == PathSpec => []SafeIsProven
  <1>1. SoundAlongPath => SafeIsProven
    <2> SUFFICES ASSUME SoundAlongPath, NEW sink \in Sinks, NEW v \in followed, sink.vars = {v},
                        Correlated(known, sink) # "NONE"
                 PROVE  Correlated(known, sink) \in actual[v].has
      BY DEF SafeIsProven
    <2>1. UNION {get_value(known, w).facts : w \in sink.vars} = get_value(known, v).facts
      OBVIOUS
    <2>2. Correlated(known, sink) = evaluate(get_value(known, v).facts, sink)
      BY <2>1 DEF Correlated
    <2>3. Correlated(known, sink) \in get_value(known, v).facts
      BY <2>2, MatrixIsSound
    <2>4. get_value(known, v).facts \subseteq actual[v].has
      BY DEF SoundAlongPath, Describes
    <2> QED BY <2>3, <2>4
  <1> QED BY <1>1, PathIsSound, PTL
=============================================================================
