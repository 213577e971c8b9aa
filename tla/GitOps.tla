------------------------------- MODULE GitOps -------------------------------
(***************************************************************************)
(* The GitOps deployment of services: devops/service-pipelines.  Builds of *)
(* several services write the manifests they render to one branch of the   *)
(* manifest repository for each environment, without a lock; Flux applies  *)
(* what it finds at the tip of the branch.                                 *)
(*                                                                         *)
(* Every push extends the tip it was made on, so a branch is a sequence of *)
(* trees, and the merge base of a clone and the branch is a position in    *)
(* it.  Position 0 is the commit the branch was forked from.               *)
(***************************************************************************)
EXTENDS Naturals, Sequences

CONSTANTS
  Build,         \* the runs of the service pipelines
  Service,
  ServiceOf,     \* ServiceOf[b]: the service of build b
  Number,        \* Number[b]: the builds of a service are numbered
  Environments,  \* how many environments a provider lists, deployed in turn
  Path,          \* the files of the manifest repository
  Registry,      \* those under HLD_REG_PATH, which Flux applies
  Writes,        \* Writes[b]: the files build b copies; with skipDeploy, none
                 \* of them are in the registry
  Rendering,     \* Rendering[b][p]: what it copies to p
  Original,      \* the tree branches are forked from
  InOrder,       \* the services whose builds run one after the other, by number
  Faults         \* whether steps may fail on their own

Env == 1..Environments

ASSUME GitOpsAssumption ==
  /\ ServiceOf \in [Build -> Service]
  /\ Number \in [Build -> Nat]
  /\ Environments \in Nat \ {0}
  /\ Registry \subseteq Path
  /\ Writes \in [Build -> SUBSET Path]
  /\ \A b \in Build : Writes[b] \subseteq DOMAIN Rendering[b]
  /\ Original = [p \in Path |-> Original[p]]
  /\ InOrder \subseteq Service /\ Faults \in BOOLEAN

\* The charts of two services have no template name in common: in the registry
\* they all lie in one directory.
ASSUME NamesApart ==
  \A b, c \in Build : ServiceOf[b] # ServiceOf[c] => Writes[b] \cap Writes[c] = {}

\* The number of a build is its place in the queue of its service.
ASSUME NumbersApart ==
  \A b, c \in Build : ServiceOf[b] = ServiceOf[c] /\ Number[b] = Number[c] => b = c

VARIABLES
  branch,   \* branch[e]: the trees of the environment's branch, oldest first
  stage,    \* stage[b]: the environment build b deploys to
  step,     \* step[b]: how far the job of that stage is
  clone,    \* clone[b]: the clone of the manifest repository on b's agent
  applied   \* applied[e]: the position Flux has applied

vars == <<branch, stage, step, clone, applied>>

Step == {"waiting", "cloned", "committed", "pulled", "deployed", "failed"}

Content == {Original[p] : p \in Path} \cup UNION {{Rendering[b][p] : p \in Writes[b]} : b \in Build}
Tree == [Path -> Content]

\* from: the position at the checkout; base: the last one merged since;
\* ahead: whether there is a commit the branch does not have.
NoClone == [from |-> 0, base |-> 0, tree |-> Original, ahead |-> FALSE]

Init ==
  /\ branch = [e \in Env |-> <<>>]
  /\ stage = [b \in Build |-> 1]
  /\ step = [b \in Build |-> "waiting"]
  /\ clone = [b \in Build |-> NoClone]
  /\ applied = [e \in Env |-> 0]

-----------------------------------------------------------------------------
At(e, i) == IF i = 0 THEN Original ELSE branch[e][i]
Tip(e) == Len(branch[e])
Exists(e) == Tip(e) > 0

Over(b) == step[b] = "failed" \/ (step[b] = "deployed" /\ stage[b] = Environments)
Newer(b, c) == ServiceOf[b] = ServiceOf[c] /\ Number[b] > Number[c]

\* cp -rf of the rendered manifests over the tree of the clone.
Copied(b, tree) == [p \in Path |-> IF p \in Writes[b] THEN Rendering[b][p] ELSE tree[p]]

Conflict(base, ours, theirs) ==
  \E p \in Path : ours[p] # base[p] /\ theirs[p] # base[p] /\ ours[p] # theirs[p]

\* Fault: git merge -s ours.
Merged_Ours(base, ours, theirs) == ours

Merged(base, ours, theirs) == [p \in Path |-> IF ours[p] = base[p] THEN theirs[p] ELSE ours[p]]

\* Fault: git pull -X ours.
MayPull_Always(b, e) == TRUE

\* git pull merges, unless both sides changed a file, each in its own way.
MayPull(b, e) == ~Conflict(At(e, clone[b].base), clone[b].tree, At(e, Tip(e)))

Pulled(b, e) ==
  [clone[b] EXCEPT !.base = Tip(e),
                   !.tree = Merged(At(e, clone[b].base), clone[b].tree, At(e, Tip(e)))]

\* Fault: git push --force.
MayPush_Force(b, e) == TRUE

\* The remote accepts what has its tip as an ancestor.
MayPush(b, e) == clone[b].base = Tip(e)

\* Fault: a conflict opens an editor and waits.
Rejected_PushOnly(b, e) == step[b] = "pulled" /\ ~MayPush(b, e)

\* What git refuses.
Rejected(b, e) ==
  \/ step[b] = "committed" /\ Exists(e) /\ ~MayPull(b, e)
  \/ step[b] = "pulled" /\ ~MayPush(b, e)

\* Fault: the push drops what came after the clone.
Extended_Reset(b, e) == Append(SubSeq(branch[e], 1, clone[b].from), clone[b].tree)

Extended(b, e) == Append(branch[e], clone[b].tree)

\* Fault: stages with the condition always().
MayProceed_Always(b) == step[b] \in {"deployed", "failed"}

MayProceed(b) == step[b] = "deployed"

Goes(b, s) == step' = [step EXCEPT ![b] = s]

-----------------------------------------------------------------------------
(* One build: aks-deployment-steps.yml and gitops.yml.                     *)

\* The next stage of the run, after the one before it succeeded, on an agent of
\* its own.
NextStage(b) ==
  /\ MayProceed(b) /\ stage[b] < Environments
  /\ stage' = [stage EXCEPT ![b] = @ + 1]
  /\ clone' = [clone EXCEPT ![b] = NoClone]
  /\ Goes(b, "waiting")
  /\ UNCHANGED <<branch, applied>>

\* checkout: K8ManifestsRepo on a fresh agent, and git_checkout: the branch as
\* it is now, or a new one.
Checkout(b) ==
  /\ step[b] = "waiting"
  /\ ServiceOf[b] \in InOrder /\ stage[b] = 1 => \A c \in Build : Newer(b, c) => Over(c)
  /\ LET e == stage[b] IN
     clone' = [clone EXCEPT ![b] = [from |-> Tip(e), base |-> Tip(e),
                                    tree |-> At(e, Tip(e)), ahead |-> FALSE]]
  /\ Goes(b, "cloned")
  /\ UNCHANGED <<branch, stage, applied>>

\* helm template and git_commit: copy, add, and commit if something changed.
Commit(b) ==
  LET tree == Copied(b, clone[b].tree) IN
  /\ step[b] = "cloned"
  /\ clone' = [clone EXCEPT ![b] = [clone[b] EXCEPT !.tree = tree, !.ahead = tree # clone[b].tree]]
  /\ Goes(b, "committed")
  /\ UNCHANGED <<branch, stage, applied>>

\* git_pull: only a branch that exists by now is pulled.
Pull(b) ==
  LET e == stage[b] IN
  /\ step[b] = "committed"
  /\ Exists(e) => MayPull(b, e)
  /\ clone' = IF Exists(e) THEN [clone EXCEPT ![b] = Pulled(b, e)] ELSE clone
  /\ Goes(b, "pulled")
  /\ UNCHANGED <<branch, stage, applied>>

\* git_push; a push of nothing succeeds, and a push of a new branch creates it.
Push(b) ==
  LET e == stage[b] IN
  /\ step[b] = "pulled"
  /\ MayPush(b, e)
  /\ branch' = IF clone[b].ahead \/ ~Exists(e)
               THEN [branch EXCEPT ![e] = Extended(b, e)] ELSE branch
  /\ Goes(b, "deployed")
  /\ UNCHANGED <<stage, clone, applied>>

\* set -e: a conflict, a rejected push, or any other error ends the job, and
\* with it the run.
Fail(b) ==
  /\ \/ Rejected(b, stage[b])
     \/ Faults /\ step[b] \in {"cloned", "committed", "pulled"}
  /\ Goes(b, "failed")
  /\ UNCHANGED <<branch, stage, clone, applied>>

\* Flux polls the branch and applies its tip.
Sync(e) ==
  /\ applied[e] # Tip(e)
  /\ applied' = [applied EXCEPT ![e] = Tip(e)]
  /\ UNCHANGED <<branch, stage, step, clone>>

BuildStep(b) == NextStage(b) \/ Checkout(b) \/ Commit(b) \/ Pull(b) \/ Push(b) \/ Fail(b)

Next == (\E b \in Build : BuildStep(b)) \/ (\E e \in Env : Sync(e))

Spec == Init /\ [][Next]_vars

\* Agents run the jobs they are given, and Flux polls every five minutes.
FairSpec ==
  /\ Spec
  /\ \A b \in Build : WF_vars(BuildStep(b))
  /\ \A e \in Env : WF_vars(Sync(e))

-----------------------------------------------------------------------------
(* Properties.                                                             *)

\* Every variable stays in its range, and no clone is ahead of its branch.
TypeOK ==
  /\ branch \in [Env -> Seq(Tree)]
  /\ stage \in [Build -> Env]
  /\ step \in [Build -> Step]
  /\ clone \in [Build -> [from : Nat, base : Nat, tree : Tree, ahead : BOOLEAN]]
  /\ applied \in [Env -> Nat]
  /\ \A b \in Build : clone[b].from <= clone[b].base /\ clone[b].base <= Tip(stage[b])
  /\ \A e \in Env : applied[e] <= Tip(e)

Deployed(e) == At(e, Tip(e))

\* A push changes no file but those of its build, and none that somebody else
\* changed since the build cloned the repository: no build's manifests are lost
\* to a build that has not seen them.
NoLostUpdate ==
  [][\A b \in Build, e \in Env, p \in Path :
       /\ step[b] = "pulled" /\ step'[b] = "deployed" /\ stage[b] = e
       /\ Deployed(e)'[p] # Deployed(e)[p]
       => /\ p \in Writes[b] /\ Deployed(e)'[p] = Rendering[b][p]
          /\ Deployed(e)[p] = At(e, clone[b].from)[p]]_vars

\* The builds of a service that deploy, and the manifests they keep for Flux.
Deploying(s) == {b \in Build : ServiceOf[b] = s /\ Writes[b] \cap Registry # {}}
Manifests(s) == UNION {Writes[b] \cap Registry : b \in Deploying(s)}

\* The image tag in aks-deployment-steps.yml is the commit of the build: one of
\* the manifests tells what the others are, and no build leaves one of them out.
Tagged ==
  \A s \in Service : \E tag \in Path : \A b \in Deploying(s) :
    /\ Writes[b] \cap Registry = Manifests(s)
    /\ tag \in Manifests(s) /\ Rendering[b][tag] # Original[tag]
    /\ \A c \in Deploying(s) : Rendering[b][tag] = Rendering[c][tag] =>
         \A p \in Manifests(s) : Rendering[b][p] = Rendering[c][p]

\* The manifests of a service that Flux applies were all rendered by the same
\* build, provided that they are tagged: merges never mix two builds.
OneBuild ==
  \A e \in Env, s \in Service :
    LET Holds(p, k) == At(e, applied[e])[p] = k
    IN  \/ \E b \in Deploying(s) : \A p \in Writes[b] \cap Registry : Holds(p, Rendering[b][p])
        \/ \A p \in Manifests(s) : Holds(p, Original[p])

DeployedTo(b, e) == stage[b] > e \/ (stage[b] = e /\ step[b] = "deployed")

\* Where the builds of a service run one after the other, every environment
\* holds what the newest build that got there rendered, whatever the builds of
\* other services pushed, pulled and merged meanwhile.
NewestDeployed ==
  \A e \in Env, b \in Build : ServiceOf[b] \in InOrder /\ DeployedTo(b, e) =>
    \A p \in Writes[b] :
      (\A c \in Build : Newer(c, b) /\ p \in Writes[c] => ~DeployedTo(c, e)) =>
        Deployed(e)[p] = Rendering[b][p]

\* An environment has received, all of them at once, the manifests for Flux that
\* every later environment has: a build that merged half of its own does not go on.
InTurn ==
  \A e \in Env \ {1}, b \in Build : DeployedTo(b, e) =>
    \E i \in 1..Tip(e - 1) :
      \A p \in Writes[b] \cap Registry : At(e - 1, i)[p] = Rendering[b][p]

\* Every build ends, and Flux ends up with what the branches hold.
Settles == <>[]((\A b \in Build : Over(b)) /\ \A e \in Env : applied[e] = Tip(e))
=============================================================================
