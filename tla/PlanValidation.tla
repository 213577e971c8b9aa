--------------------------- MODULE PlanValidation ---------------------------
(***************************************************************************)
(* What the Go test harness expects of a Terraform plan and of Terraform   *)
(* outputs: infratests/validate.go, and the checks of unit.go and          *)
(* integration.go that call it.                                            *)
(*                                                                         *)
(* A Go value of type interface{} is a record [type, is].  A map is a      *)
(* function on some of the keys, a list a sequence; any other type only    *)
(* has to differ from the types the code lists.                            *)
(***************************************************************************)
EXTENDS Naturals, Sequences, FiniteSets

CONSTANT Value   \* the values of a plan and those a test may expect

Scalar == {"bool", "float64", "int", "string"}

\* Inner values of a value are values.
ASSUME ValueAssumption ==
  \A v \in Value :
    /\ v.type = "map"  => \A k \in DOMAIN v.is : v.is[k] \in Value
    /\ v.type = "list" => \A i \in DOMAIN v.is : v.is[i] \in Value

-----------------------------------------------------------------------------
(* validate.go.                                                            *)

isSameType(a, b) == a.type = b.type

Equal(a, b) == isSameType(a, b) /\ a.is = b.is

\* Matches[c, t]: the candidate c satisfies the target t as the value of one
\* key of a map.  For a target in a list it is enough that one element of the
\* candidate list does; several targets may find the same element.  A target
\* of a type the code does not list is an error, and so is a list in a list.
Matches[c \in Value, t \in Value] ==
  /\ isSameType(c, t)
  /\ \/ t.type \in Scalar /\ c.is = t.is
     \/ t.type = "map" /\ \A k \in DOMAIN t.is :
          k \in DOMAIN c.is /\ Matches[c.is[k], t.is[k]]
     \/ t.type = "list" /\ \A i \in DOMAIN t.is :
          \/ t.is[i].type \in Scalar /\ \E j \in DOMAIN c.is : Equal(c.is[j], t.is[i])
          \/ t.is[i].type = "map"    /\ \E j \in DOMAIN c.is : Matches[c.is[j], t.is[i]]

verifyTargetsExistInMap(dataSource, searchTargets) ==
  \A k \in DOMAIN searchTargets :
    k \in DOMAIN dataSource /\ Matches[dataSource[k], searchTargets[k]]

-----------------------------------------------------------------------------
(* The checks of a plan: unit.go.  A plan maps the address of a resource   *)
(* to its actions and to its attributes after the plan; a resource that is *)
(* deleted has a nil map of attributes, which has no keys.                 *)

\* Fault: what is in place already is taken for what a plan creates.
allowedActions_NoOp == {"create", "read", "no-op"}

allowedActions == {"create", "read"}

validatePlanCreateProperties(fixture, plan) ==
  /\ DOMAIN plan # {}
  /\ Cardinality(DOMAIN plan) = fixture.ExpectedResourceCount
  /\ \A a \in DOMAIN plan : plan[a].actions \subseteq allowedActions

planToMap(plan) == [a \in DOMAIN plan |-> plan[a].after]

\* Fault: the attributes of any resource will do.
validatePlanResourceKeyValues_AnyKey(fixture, plan) ==
  \A a \in DOMAIN fixture.ExpectedResourceAttributeValues :
    \E b \in DOMAIN plan : Matches[plan[b].after, fixture.ExpectedResourceAttributeValues[a]]

validatePlanResourceKeyValues(fixture, plan) ==
  verifyTargetsExistInMap(planToMap(plan), fixture.ExpectedResourceAttributeValues)

\* PlanAssertions are functions of a test on the plan; no test of the
\* repository has one.
validateTerraformPlanFile(fixture, plan) ==
  /\ validatePlanCreateProperties(fixture, plan)
  /\ validatePlanResourceKeyValues(fixture, plan)

-----------------------------------------------------------------------------
(* The checks of outputs: integration.go.  Values are compared as JSON,    *)
(* where an int and a float64 are the same, and lists and maps are equal   *)
(* only as a whole.                                                        *)

Number == {"float64", "int"}

SameJSON[a \in Value, b \in Value] ==
  \/ a.type \in Number /\ b.type \in Number /\ a.is = b.is
  \/ a.type \notin {"list", "map"} /\ Equal(a, b)
  \/ /\ a.type \in {"list", "map"} /\ isSameType(a, b)
     /\ DOMAIN a.is = DOMAIN b.is
     /\ \A k \in DOMAIN a.is : SameJSON[a.is[k], b.is[k]]

\* Fault: the number expected is an upper bound.
validateTerraformOutputCount_AtMost(fixture, output) ==
  Cardinality(DOMAIN output) <= fixture.ExpectedTfOutputCount

validateTerraformOutputCount(fixture, output) ==
  Cardinality(DOMAIN output) = fixture.ExpectedTfOutputCount

validateTerraformOutputKeyValues(fixture, output) ==
  \A k \in DOMAIN fixture.ExpectedTfOutput :
    k \in DOMAIN output /\ SameJSON[fixture.ExpectedTfOutput[k], output[k]]

validateTerraformOutput(fixture, output) ==
  /\ validateTerraformOutputCount(fixture, output)
  /\ validateTerraformOutputKeyValues(fixture, output)
=============================================================================
