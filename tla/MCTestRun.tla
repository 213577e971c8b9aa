----------------------------- MODULE MCTestRun -----------------------------
EXTENDS TestRun

LOCAL INSTANCE SequencesExt

-----------------------------------------------------------------------------
(* Three templates with a state of their own on a remote backend, each with *)
(* a unit and an integration test; a module whose test sits in `testing',   *)
(* and one in tests/unit that leaves the name of the workspace open.        *)

MCTest == {"c_u", "c_i", "s_u", "s_i", "d_u", "d_i", "m_t", "m_u"}
MCIntegration == {"c_i", "s_i", "d_i"}
MCNamed == {"c_u", "s_u", "d_u", "m_t"}
MCDir == {"central", "service", "data", "module1", "module2"}
MCDirOf == [t \in MCTest |->
  CASE t \in {"c_u", "c_i"} -> "central" [] t \in {"s_u", "s_i"} -> "service"
    [] t \in {"d_u", "d_i"} -> "data" [] t = "m_t" -> "module1" [] t = "m_u" -> "module2"]
MCBackendOf == [d \in MCDir |-> d]
MCLocal == {"module1", "module2"}

MCDefault == <<"default", 0>>
MCUnitTesting == <<"default-unit-testing", 0>>
MCRandomName == [t \in MCTest |-> [n \in 0..MaxRuns |-> <<t, n>>]]
MCName == {MCDefault, MCUnitTesting, <<"env", 0>>} \cup {<<t, n>> : t \in MCTest, n \in 0..MaxRuns}
MCHuman == [d \in MCDir |-> IF d = "central" THEN {<<"env", 0>>} ELSE {}]

\* The runner of the resources is started where the service tests are missing.
MCBelow ==
  [harness |-> {"central", "module2"}, unit |-> {"module2"}, modules |-> MCLocal,
   mvp |-> {"central", "service", "data"}, resources |-> {"central", "data"}]
MCMatching == [s \in Suffix |->
  CASE s = "unit" -> {"c_u", "s_u", "d_u", "m_u"}
    [] s = "integration" -> MCIntegration
    [] s = "testing" -> {"m_t"}
    [] s \in {"central_resources/tests/unit", "common_resources/tests/unit"} -> {"c_u"}
    [] s \in {"central_resources/tests/integration", "common_resources/tests/integration"} -> {"c_i"}
    [] s = "service_resources/tests/unit" -> {"s_u"}
    [] s = "service_resources/tests/integration" -> {"s_i"}
    [] s \in {"data_partition/tests/unit", "data_resources/tests/unit"} -> {"d_u"}
    [] s \in {"data_partition/tests/integration", "data_resources/tests/integration"} -> {"d_i"}]

-----------------------------------------------------------------------------
(* Values.  Numbers are written as strings: TLC compares them with others.  *)

Str(x) == [type |-> "string", is |-> x]
Nil == [type |-> "nil", is |-> "nil"]
Map(f) == [type |-> "map", is |-> f]
List(s) == [type |-> "list", is |-> s]

Leaf == {Str("a"), Str("b"), [type |-> "float64", is |-> "1"], [type |-> "int", is |-> "1"], Nil}
Flat == {Map(<<>>), Map([k |-> Str("a")]), Map([k |-> Str("b")]), Map([k |-> Str("a"), l |-> Str("b")]),
         Map([l |-> Str("b")])}
Lists == {List(<<>>), List(<<Str("a")>>), List(<<Str("b"), Str("a")>>), List(<<Str("a"), Str("b")>>),
          List(<<Str("a"), Str("a")>>),
          List(<<Map([k |-> Str("a")])>>), List(<<Map([k |-> Str("b")]), Map([k |-> Str("a"), l |-> Str("b")])>>),
          List(<<List(<<>>)>>), List(<<Nil>>)}
MCInner == Leaf \cup Flat \cup Lists
MCValue == MCInner \cup {Map([k |-> v]) : v \in MCInner}

Resource(actions, after) == [actions |-> actions, after |-> after]
NoAttributes == Map(<<>>)

\* The module in `testing' meets any plan and holds any fixture, the others two
\* plans and the fixture that goes with one of them.
MCFreshPlans == [d \in MCDir |->
  IF d = "module1"
  THEN {<<>>, [r |-> Resource({"read"}, Map([k |-> Str("a")])), q |-> Resource({"create"}, Map([k |-> Str("b")]))]}
       \cup {[r |-> Resource({"create"}, Map([k |-> v]))] : v \in MCInner}
  ELSE {[r |-> Resource({"create"}, Map([k |-> v]))] : v \in {Str("a"), Str("b")}}]
MCChangePlans == [d \in MCDir |->
  {[r |-> Resource({"no-op"}, Map([k |-> Str("a")]))],
   [r |-> Resource({"delete", "create"}, Map([k |-> Str("a")]))], [r |-> Resource({"delete"}, NoAttributes)]}]

Fixture(n, e) == [ExpectedResourceCount |-> n, ExpectedResourceAttributeValues |-> e]
MCFixtures == [t \in MCTest |->
  IF t = "m_t"
  THEN {Fixture(1, [r |-> Map([k |-> v])]) : v \in MCInner}
       \cup {Fixture(2, [r |-> Map([k |-> Str("a")])]), Fixture(2, [q |-> Map([k |-> Str("a")])]),
             Fixture(1, [q |-> NoAttributes])}
  ELSE {Fixture(1, [r |-> Map([k |-> Str("a")])])}]

MCOutputs == [d \in MCDir |->
  {[id |-> Str("a"), list |-> List(<<Str("b"), Str("a")>>)]}
  \cup IF d = "central" THEN {[id |-> [type |-> "float64", is |-> "1"]]} ELSE {}]
MCOutputFixtures == [t \in MCTest |->
  {[ExpectedTfOutputCount |-> 2, ExpectedTfOutput |-> [list |-> List(<<Str("b"), Str("a")>>)]]}
  \cup IF t = "c_i"
       THEN {[ExpectedTfOutputCount |-> 1, ExpectedTfOutput |-> [id |-> [type |-> "int", is |-> "1"]]],
             [ExpectedTfOutputCount |-> 2, ExpectedTfOutput |-> <<>>],
             [ExpectedTfOutputCount |-> 2, ExpectedTfOutput |-> [list |-> List(<<Str("a"), Str("b")>>)]]}
       ELSE {}]

-----------------------------------------------------------------------------
\* Shadows[c]: what a test may expect where the plan says c, built from c: a
\* scalar itself, a map by leaving out keys, a list by leaving out, repeating and
\* reordering elements, each replaced by a shadow of its own.  The lists of
\* the fixtures have at most two elements.
Shadows[c \in Value] ==
  CASE c.type \in Scalar -> {c}
    [] c.type = "map" ->
         {Map(f) : f \in UNION {{f \in [K -> UNION {Shadows[c.is[k]] : k \in K}] :
                                  \A k \in K : f[k] \in Shadows[c.is[k]]} : K \in SUBSET DOMAIN c.is}}
    [] c.type = "list" ->
         {List(s) : s \in BoundedSeq(UNION {Shadows[c.is[i]] : i \in
                            {i \in DOMAIN c.is : c.is[i].type \in Scalar \cup {"map"}}}, 2)}
    [] OTHER -> {}

\* The verdict on a plan: as many resources as expected, at least one, none of
\* which is in place already, and each with attributes of which the expected
\* ones are a shadow (the comment of verifyTargetsExistInMap).
VerdictIsSubset ==
  \A t \in Test : pc[t] = "checked" =>
    LET expected == checked[t].ExpectedResourceAttributeValues IN
    ~failed[t] <=>
      /\ Cardinality(DOMAIN plan[t]) = checked[t].ExpectedResourceCount /\ plan[t] # <<>>
      /\ \A a \in DOMAIN plan[t] : plan[t][a].actions \subseteq {"create", "read"}
      /\ \A a \in DOMAIN expected :
           a \in DOMAIN plan[t] /\ expected[a] \in Shadows[plan[t][a].after]
=============================================================================
