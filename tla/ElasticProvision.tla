------------------------- MODULE ElasticProvision -------------------------
(***************************************************************************)
(* The Elasticsearch modules: infra/modules/providers/elastic.  Terraform  *)
(* has no provider for Elasticsearch, so ese-deploy-create.sh creates the  *)
(* deployment in a local-exec provisioner, and local-exec-capture-stdout   *)
(* carries what the script prints into the Terraform state: through a file *)
(* on the host, a data source that reads it, and a null_resource that      *)
(* keeps the first value it was given.                                     *)
(*                                                                         *)
(* The state is stored remotely, and Terraform holds its lock throughout:  *)
(* there is one apply or destroy at a time, but each on any host.          *)
(***************************************************************************)
EXTENDS Naturals

CONSTANTS
  Host,        \* the machines Terraform is run on
  MaxApplies,  \* the bound on the applies, which number ids and deployments
  Faults       \* whether calls and hosts may fail

ASSUME ElasticAssumption == Host # {} /\ MaxApplies \in Nat /\ Faults \in BOOLEAN

VARIABLES
  cloud,    \* cloud[d]: what became of the d-th deployment
  posted,   \* how many deployments there have been
  file,     \* file[<<h, i>>]: the output file of resource id i on host h
  saved,    \* the stored Terraform state
  work,     \* the state in the memory of the running apply
  applies,  \* how many applies have started
  run       \* the running apply, or how the last one ended

vars == <<cloud, posted, file, saved, work, applies, run>>

Attempt == 1..MaxApplies

\* What files and the state hold: nothing, an empty text, a map without keys,
\* or what the script prints, which may lack the endpoint.
Text == [kind : {"missing", "blank", "{}", "printed"},
         deployment : 0..MaxApplies, endpoint : BOOLEAN]
Unprinted(k) == [kind |-> k, deployment |-> 0, endpoint |-> FALSE]
Missing == Unprinted("missing")
Printed(d, known) == [kind |-> "printed", deployment |-> d, endpoint |-> known]

State(n) == [id : 0..n, shell : {"absent", "tainted", "created"}, contents : Text]
NoState == [id |-> 0, shell |-> "absent", contents |-> Missing]
NoRun(pc) == [pc |-> pc, host |-> CHOOSE h \in Host : TRUE, meta |-> 0]
Ended == {"none", "green", "red", "killed"}
Idle == run.pc \in Ended
Apply(n) == [pc : Ended \cup {"start", "post", "wait", "lookup", "read", "outputs"},
             host : Host, meta : 0..n]

Init ==
  /\ cloud = [d \in Attempt |-> "none"]
  /\ posted = 0
  /\ file = [f \in Host \X Attempt |-> Missing]
  /\ saved = NoState /\ work = NoState
  /\ applies = 0
  /\ run = NoRun("none")

-----------------------------------------------------------------------------
Goes(pc) == run' = [run EXCEPT !.pc = pc]

\* Terraform stores the state at the end of an apply, a failed one too.
Ends(pc) == run' = NoRun(pc) /\ saved' = work

\* %s/%s.output: the path of the module and the id.
OutputFile(id) == <<run.host, id>>

\* Fault: no ignore_changes.
Kept_Updated(old, new) == new

\* ignore_changes: the triggers keep their first value.
Kept(old, new) == IF old = Missing THEN new ELSE old

\* Fault: without the delay the first answers count, and they are "healthy".
Healthy_AtOnce(d) == d # 0 /\ cloud[d] \in {"accepted", "healthy"}

\* isDeploymentHealthy, asked ten seconds after the deployment was accepted;
\* no deployment is called "null".
Healthy(d) == d # 0 /\ cloud[d] = "healthy"

-----------------------------------------------------------------------------
(* terraform apply.                                                        *)

StartApply(h) ==
  /\ Idle /\ applies < MaxApplies
  /\ applies' = applies + 1
  /\ work' = saved
  /\ run' = [pc |-> "start", host |-> h, meta |-> 0]
  /\ UNCHANGED <<cloud, posted, file, saved>>

\* null_resource.id and null_resource.shell: the redirection empties the file,
\* and until the script has succeeded the resource is tainted.
RunScript ==
  /\ run.pc = "start" /\ work.shell # "created"
  /\ work' = [work EXCEPT !.id = IF @ = 0 THEN applies ELSE @, !.shell = "tainted"]
  /\ file' = [file EXCEPT ![OutputFile(work'.id)] = Unprinted("blank")]
  /\ Goes("post")
  /\ UNCHANGED <<cloud, posted, saved, applies>>

SkipScript ==
  /\ run.pc = "start" /\ work.shell = "created"
  /\ Goes("read")
  /\ UNCHANGED <<cloud, posted, file, saved, work, applies>>

Accepted == cloud' = [cloud EXCEPT ![posted + 1] = "accepted"] /\ posted' = posted + 1

\* Fault: a POST without an answer is sent again.
Unanswered_Retried == Accepted /\ Goes("post")

\* The service accepts the deployment, and its answer is lost.
Unanswered == Accepted /\ Goes("wait")

\* createDeployment.  Command substitutions run without `set -e`: without an
\* answer the script goes on and waits for deployment "null".
Post ==
  /\ run.pc = "post"
  /\ \/ Accepted /\ run' = [run EXCEPT !.pc = "wait", !.meta = posted + 1]
     \/ Faults /\ Unanswered
     \/ Faults /\ Goes("wait") /\ UNCHANGED <<cloud, posted>>
  /\ UNCHANGED <<file, saved, work, applies>>

\* waitForHealthyDeployment.
Wait ==
  /\ run.pc = "wait" /\ Healthy(run.meta)
  /\ Goes("lookup")
  /\ UNCHANGED <<cloud, posted, file, saved, work, applies>>

\* Fault: the script waits as long as it takes.
TimesOut_Never == FALSE

\* timeout 8m.
TimesOut == run.pc = "wait"

\* lookupElasticsearchEndpoint and the last line of the script.  A lookup that
\* fails makes an endpoint all the same: "https://:" or "https://null:null".
Lookup ==
  /\ run.pc = "lookup"
  /\ \E known \in {TRUE} \cup {~Faults} :
       file' = [file EXCEPT ![OutputFile(work.id)] = Printed(run.meta, known)]
  /\ work' = [work EXCEPT !.shell = "created"]
  /\ Goes("read")
  /\ UNCHANGED <<cloud, posted, saved, applies>>

\* data.external.output and null_resource.contents: read.sh prints {} for a file
\* that is missing; an empty one is no JSON.
Capture ==
  /\ run.pc = "read" /\ file[OutputFile(work.id)].kind # "blank"
  /\ LET text == file[OutputFile(work.id)]
         read == IF text = Missing THEN Unprinted("{}") ELSE text
     IN  work' = [work EXCEPT !.contents = Kept(@, read)]
  /\ Goes("outputs")
  /\ UNCHANGED <<cloud, posted, file, saved, applies>>

\* output.tf: cluster_properties needs the keys that the script prints.
Outputs ==
  /\ run.pc = "outputs"
  /\ Ends(IF work.contents.kind = "printed" THEN "green" ELSE "red")
  /\ UNCHANGED <<cloud, posted, file, work, applies>>

\* An error ends the apply: the eight minutes are over, the file is empty, or the
\* service refuses, and says so (line 105).
Fail ==
  /\ \/ TimesOut
     \/ run.pc = "read" /\ file[OutputFile(work.id)].kind = "blank"
     \/ Faults /\ run.pc = "post"
  /\ Ends("red")
  /\ UNCHANGED <<cloud, posted, file, work, applies>>

\* A signal ends the apply, and the script with it.
Interrupt ==
  /\ Faults /\ ~Idle
  /\ Ends("red")
  /\ UNCHANGED <<cloud, posted, file, work, applies>>

\* The host is lost, and with it all that was not stored.
Crash ==
  /\ Faults /\ ~Idle
  /\ run' = NoRun("killed") /\ work' = saved
  /\ UNCHANGED <<cloud, posted, file, saved, applies>>

\* terraform destroy.  Nothing deletes the deployment; the enterprise module
\* removes the file, if it can.
Destroy(h) ==
  /\ Idle /\ saved # NoState
  /\ saved' = NoState /\ work' = NoState
  /\ \/ UNCHANGED file
     \/ saved.shell = "created" /\ file' = [file EXCEPT ![<<h, saved.id>>] = Missing]
  /\ run' = NoRun("none")
  /\ UNCHANGED <<cloud, posted, applies>>

\* The service: a deployment reports "healthy" before it starts.
Settle(d) ==
  /\ \/ cloud[d] = "accepted" /\ cloud' = [cloud EXCEPT ![d] = "starting"]
     \/ cloud[d] = "starting" /\ cloud' = [cloud EXCEPT ![d] = "healthy"]
  /\ UNCHANGED <<posted, file, saved, work, applies, run>>

ApplyStep ==
  RunScript \/ SkipScript \/ Post \/ Wait \/ Lookup \/ Capture \/ Outputs \/ Fail

Next ==
  \/ \E h \in Host : StartApply(h) \/ Destroy(h)
  \/ ApplyStep \/ Interrupt \/ Crash
  \/ \E d \in Attempt : Settle(d)

Spec == Init /\ [][Next]_vars

\* Terraform goes on with an apply it has begun; nobody need interrupt it.
FairSpec == Spec /\ WF_vars(ApplyStep)

-----------------------------------------------------------------------------
(* Properties.                                                             *)

\* Every variable stays in its range; the deployments are those of the applies,
\* and each apply posts one at most.
TypeOK ==
  /\ cloud \in [Attempt -> {"none", "accepted", "starting", "healthy"}]
  /\ posted \in 0..applies /\ applies \in 0..MaxApplies
  /\ file \in [Host \X Attempt -> Text]
  /\ saved \in State(applies) /\ work \in State(applies)
  /\ run \in Apply(posted)
  /\ \A d \in Attempt : cloud[d] = "none" <=> d > posted

Captured(s) == s.contents.kind = "printed"

\* The deployments in the output files that hosts keep of one life of the module.
PrintedBy(id) ==
  {file[<<h, id>>].deployment : h \in {g \in Host : file[<<g, id>>].kind = "printed"}}

\* The deployment that the state holds was printed in this life of the module,
\* after it was seen healthy: neither that of a script that failed nor the file of
\* an earlier life gets into the state, on whatever hosts it was applied.  The
\* newest deployment was printed as well, so that it is the one in the state
\* unless a host was lost after its script had succeeded.
CapturesOwn ==
  Captured(saved) =>
    /\ {saved.contents.deployment, posted} \subseteq PrintedBy(saved.id)
    /\ \A d \in PrintedBy(saved.id) : cloud[d] = "healthy"

\* What the state holds stays until the module is destroyed, also when it is
\* applied on a host that has no file, or that has another one.
CapturedForGood ==
  [][Captured(saved) => saved' = NoState \/ saved'.contents = saved.contents]_vars

\* Every apply ends: also the one that waits for a deployment that never gets
\* healthy, or that the script did not learn the name of.
ApplyEnds == ~Idle ~> Idle

\* An apply that ends green outputs the endpoint of its cluster.
EndpointKnown == run.pc = "green" => saved.contents.endpoint
=============================================================================
