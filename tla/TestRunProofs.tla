---------------------------- MODULE TestRunProofs ----------------------------
(***************************************************************************)
(* Theorems about TestRun, for any tests, directories, backends, fixtures  *)
(* and plans, any number of runs, and all faults.                          *)
(***************************************************************************)
EXTENDS TestRun, FiniteSetTheorems, TLAPS

Unit == Test \ Integration

\* A process that has not selected a workspace yet.
Early(t) == pc[t] \in {"idle", "started", "initialized"}

\* A process whose deferred statements are registered.
Late(t) == pc[t] \in {"selected", "planned", "checked", "unwinding"}

\* Only the tests of the target that is due are running, and only in a run.
RunningInv ==
  /\ \A x \in Target(runner) :
       result[x] = "running" => x = Current /\ ~Between /\ Body(x) \in Suffix
  /\ \A t \in Test : Running(t) => result[Current] = "running" /\ t \in Packages(Body(Current))

\* A process was started by one target, and all those of a target that succeeded
\* have passed.
StartedInv ==
  /\ \A t \in Test : pc[t] # "idle" =>
       \E x \in Target(runner) : result[x] # "todo" /\ Body(x) \in Suffix /\ t \in Packages(Body(x))
  /\ \A x \in Target(runner) : result[x] = "ok" /\ Body(x) \in Suffix =>
       \A t \in Packages(Body(x)) : Passed(t)

\* Runners that clean do so before they test.
CleanFirst ==
  runner # "unit" =>
    \A x, y \in Target(runner) :
      Body(x) \in Suffix /\ result[x] # "todo" /\ Body(y) = "clean" => result[y] = "ok"

\* An integration test starts when the unit test of its directory has passed.
AfterUnit ==
  ~Between => \A t \in Integration, u \in Unit :
    DirOf[t] = DirOf[u] /\ pc[t] # "idle" => Passed(u)

\* The random names of a unit test appear in its directory only, that of a run
\* not before the test selects it, and nobody deploys it during the run.
NameInv ==
  /\ \A t \in Unit, n \in 0..MaxRuns :
       /\ \A b \in Backend : RandomName[t][n] \in exists[b] => b = Home(t) /\ n <= run
       /\ \A d \in Dir : RandomName[t][n] = selected[d] => d = DirOf[t]
       /\ \A u \in Test : RandomName[t][n] = start[u] => DirOf[u] = DirOf[t] /\ n <= run
  /\ \A t \in Unit, b \in Backend :
       /\ Early(t) => RandomName[t][run] \notin exists[b]
       /\ RandomName[t][run] # start[t]
       /\ ~Between => RandomName[t][run] \notin deployed[b]

\* What is selected in a directory is its basis until its unit test selects its own
\* workspace, and again when it has passed.
SelectInv ==
  /\ ~Between => \A d \in Dir :
       (\A t \in Unit : DirOf[t] = d => Early(t)) => selected[d] = Basis(d)
  /\ \A t \in Unit :
       /\ Running(t) /\ pc[t] # "started" => start[t] = Basis(DirOf[t])
       /\ Late(t) => selected[DirOf[t]] = workspaceName(t)
       /\ pc[t] = "restored" /\ ~failed[t] =>
            selected[DirOf[t]] = Basis(DirOf[t]) /\ workspaceName(t) \in exists[Home(t)]
  /\ \A t \in Integration : Early(t) \/ pc[t] \in {"over", "killed"}
  /\ PassedLeavesNoTrace

\* A plan over a deployed workspace changes something.
PlanInv ==
  /\ \A t \in Test : pc[t] = "planned" /\ workspaceName(t) \in deployed[Home(t)] =>
       plan[t] \in ChangePlans[DirOf[t]]
  /\ FreshPlan

\* What the removal of .terraform and of the local states leaves.
CleanedInv ==
  ~Between => \A y \in Target(runner) : Body(y) = "clean" /\ result[y] = "ok" =>
    \A d \in Scope : /\ Basis(d) = Default
                     /\ BackendOf[d] \in Local => deployed[BackendOf[d]] = {}

RewrittenInv == rewritten # {} => Aborted

IInv ==
  /\ TypeOK /\ RunningInv /\ StartedInv /\ CleanFirst /\ AfterUnit
  /\ NameInv /\ SelectInv /\ PlanInv /\ CleanedInv /\ RewrittenInv
  /\ IntegrationReadsFound

-----------------------------------------------------------------------------
(* The target that is due.  Down is a recursive function on the targets of *)
(* a runner; a target is at most four dependencies away from those that    *)
(* have none, so there is such a function.                                 *)

Rank(t) ==
  CASE t \in {"RunAllTargets", "Check"} -> 1
    [] t \in {"TestModules", "CentralUnitTest", "CentralIntegrationTest", "ServiceUnitTest",
              "ServiceIntegrationTest", "PartitionUnitTest", "PartitionIntegrationTest",
              "CommonUnitTest", "CommonIntegrationTest", "DataUnitTest",
              "DataIntegrationTest"} -> 2
    [] t \in {"CentralTests", "ServiceTests", "PartitionTests", "TestCommonResources",
              "TestDataResources", "TestServiceResources"} -> 3
    [] t = "All" -> 4
    [] OTHER -> 0

Ranked(f) ==
  \A t \in DOMAIN f :
    /\ DOMAIN f[t] \subseteq 1..6
    /\ \A i \in DOMAIN f[t] : f[t][i] \in DOMAIN f /\ Rank(f[t][i]) < Rank(t)

LEMMA HarnessGraph == Ranked(HarnessDeps)
BY DEF Ranked, Rank, HarnessDeps

LEMMA ModulesGraph == Ranked(ModulesDeps)
BY DEF Ranked, Rank, ModulesDeps

LEMMA MvpGraph == Ranked(MvpDeps)
BY DEF Ranked, Rank, MvpDeps

LEMMA ResourcesGraph == Ranked(ResourcesDeps)
BY DEF Ranked, Rank, ResourcesDeps

LEMMA Graph ==
  ASSUME NEW r \in Runner
  PROVE  /\ Main(r) \in Target(r) /\ Ranked(Deps(r))
         /\ \A t \in Target(r) : Rank(t) \in 0..4
<1>0. \A t \in Target(r) : Rank(t) \in 0..4
  BY DEF Rank
<1>1. CASE r \in {"harness", "unit"}
  <2>1. Main(r) \in DOMAIN HarnessDeps
    BY <1>1 DEF Main, HarnessDeps
  <2> QED BY <1>0, <1>1, <2>1, HarnessGraph DEF Target, Deps
<1>2. CASE r = "modules"
  <2>1. Main(r) \in DOMAIN ModulesDeps
    BY <1>2 DEF Main, ModulesDeps
  <2> QED BY <1>0, <1>2, <2>1, ModulesGraph DEF Target, Deps
<1>3. CASE r = "mvp"
  <2>1. Main(r) \in DOMAIN MvpDeps
    BY <1>3 DEF Main, MvpDeps
  <2> QED BY <1>0, <1>3, <2>1, MvpGraph DEF Target, Deps
<1>4. CASE r = "resources"
  <2>1. Main(r) \in DOMAIN ResourcesDeps
    BY <1>4 DEF Main, ResourcesDeps
  <2> QED BY <1>0, <1>4, <2>1, ResourcesGraph DEF Target, Deps
<1> QED BY <1>1, <1>2, <1>3, <1>4 DEF Runner

\* The first dependency of t that is not done.
First(t) == Deps(runner)[t][CHOOSE i \in Open(t) : \A j \in Open(t) : i <= j]

LEMMA FirstOpen ==
  ASSUME runner \in Runner, NEW t \in Target(runner), Open(t) # {}
  PROVE  \E i \in DOMAIN Deps(runner)[t] :
           /\ First(t) = Deps(runner)[t][i] /\ result[First(t)] # "ok"
           /\ \A j \in DOMAIN Deps(runner)[t] : j < i => result[Deps(runner)[t][j]] = "ok"
<1>1. Open(t) \subseteq 1..6
  BY Graph DEF Open, Ranked, Target
<1>2. \E i \in Open(t) : \A j \in Open(t) : i <= j
  BY <1>1
<1> DEFINE k == CHOOSE i \in Open(t) : \A j \in Open(t) : i <= j
<1>3. k \in Open(t) /\ \A j \in Open(t) : k <= j
  BY <1>2
<1>4. \A j \in DOMAIN Deps(runner)[t] : j < k => j \notin Open(t)
  <2> SUFFICES ASSUME NEW j \in Open(t), j < k
               PROVE  FALSE
    OBVIOUS
  <2> QED BY <1>1, <1>3
<1>5. k \in DOMAIN Deps(runner)[t] /\ First(t) = Deps(runner)[t][k]
  BY <1>3 DEF Open, First
<1> HIDE DEF k
<1> QED BY <1>3, <1>4, <1>5 DEF Open

Follow(f) == [t \in Target(runner) |-> IF Open(t) = {} THEN t ELSE f[First(t)]]

LEMMA FollowRanks ==
  ASSUME runner \in Runner, NEW f, NEW g, NEW n \in Nat,
         \A t \in Target(runner) : Rank(t) < n => f[t] = g[t]
  PROVE  \A t \in Target(runner) : Rank(t) < n + 1 => Follow(f)[t] = Follow(g)[t]
<1> SUFFICES ASSUME NEW t \in Target(runner), Rank(t) < n + 1, Open(t) # {}
             PROVE  f[First(t)] = g[First(t)]
  BY DEF Follow
<1>1. First(t) \in Target(runner) /\ Rank(First(t)) < Rank(t)
  BY FirstOpen, Graph DEF Ranked, Target
<1> QED BY <1>1, Graph

LEMMA DownIs ==
  ASSUME runner \in Runner
  PROVE  Down = Follow(Down)
<1> DEFINE f0 == [t \in Target(runner) |-> t]
           f == Follow(Follow(Follow(Follow(Follow(f0)))))
<1>1. \A t \in Target(runner) : Rank(t) < 5 => Follow(f)[t] = f[t]
  <2> DEFINE Same(a, b, n) == \A t \in Target(runner) : Rank(t) < n => a[t] = b[t]
  <2>1. ASSUME NEW a, NEW b, NEW n \in Nat, Same(a, b, n)
        PROVE  Same(Follow(a), Follow(b), n + 1)
    BY <2>1, FollowRanks
  <2>2. Same(f0, Follow(f0), 0)
    BY Graph
  <2> DEFINE f1 == Follow(f0) f2 == Follow(f1) f3 == Follow(f2) f4 == Follow(f3) f5 == Follow(f4)
  <2> HIDE DEF Same, f0
  <2>3. Same(f1, f2, 1)
    BY <2>1, <2>2
  <2> HIDE DEF f1
  <2>4. Same(f2, f3, 2)
    BY <2>1, <2>3
  <2> HIDE DEF f2
  <2>5. Same(f3, f4, 3)
    BY <2>1, <2>4
  <2> HIDE DEF f3
  <2>6. Same(f4, f5, 4)
    BY <2>1, <2>5
  <2> HIDE DEF f4
  <2>7. Same(f5, Follow(f5), 5)
    BY <2>1, <2>6
  <2> QED BY <2>7 DEF Same, f4, f3, f2, f1
<1>2. f = Follow(f)
  <2>1. \A t \in Target(runner) : Follow(f)[t] = f[t]
    BY <1>1, Graph
  <2> QED BY <2>1 DEF Follow
<1> HIDE DEF f
<1>3. Down = CHOOSE g : g = [t \in Target(runner) |-> IF Open(t) = {} THEN t ELSE g[First(t)]]
  BY DEF Down, First
<1>4. f = [t \in Target(runner) |-> IF Open(t) = {} THEN t ELSE f[First(t)]]
  BY <1>2 DEF Follow
<1>5. Down = [t \in Target(runner) |-> IF Open(t) = {} THEN t ELSE Down[First(t)]]
  BY <1>3, <1>4
<1> QED BY <1>5 DEF Follow

LEMMA ByRank ==
  ASSUME runner \in Runner, NEW S,
         \A n \in Nat : (\A t \in Target(runner) : Rank(t) < n => t \in S) =>
                          \A t \in Target(runner) : Rank(t) = n => t \in S
  PROVE  Target(runner) \subseteq S
<1> DEFINE Up(n) == \A t \in Target(runner) : Rank(t) < n => t \in S
<1>1. ASSUME NEW n \in Nat, Up(n) PROVE Up(n + 1)
  <2>1. \A t \in Target(runner) : Rank(t) = n => t \in S
    BY <1>1
  <2> QED BY <1>1, <2>1, Graph
<1>2. Up(0)
  BY Graph
<1> HIDE DEF Up
<1>3. Up(1)
  BY <1>1, <1>2
<1>4. Up(2)
  BY <1>1, <1>3
<1>5. Up(3)
  BY <1>1, <1>4
<1>6. Up(4)
  BY <1>1, <1>5
<1>7. Up(5)
  BY <1>1, <1>6
<1> QED BY <1>7, Graph DEF Up

\* Whatever runs next is a target all of whose dependencies are done, and which
\* is the main target or the first open dependency of some other one.
LEMMA DownFacts ==
  ASSUME runner \in Runner, NEW t \in Target(runner)
  PROVE  /\ Down[t] \in Target(runner) /\ Open(Down[t]) = {}
         /\ result[t] # "ok" => result[Down[t]] # "ok"
         /\ Down[t] = t \/ \E p \in Target(runner) : Open(p) # {} /\ First(p) = Down[t]
<1> DEFINE Good == {u \in Target(runner) :
              /\ Down[u] \in Target(runner) /\ Open(Down[u]) = {}
              /\ result[u] # "ok" => result[Down[u]] # "ok"
              /\ Down[u] = u \/ \E p \in Target(runner) : Open(p) # {} /\ First(p) = Down[u]}
<1>1. ASSUME NEW n \in Nat, \A u \in Target(runner) : Rank(u) < n => u \in Good,
             NEW u \in Target(runner), Rank(u) = n
      PROVE  u \in Good
  <2>1. Down[u] = IF Open(u) = {} THEN u ELSE Down[First(u)]
    BY DownIs DEF Follow
  <2>2. CASE Open(u) = {}
    BY <2>1, <2>2
  <2>3. CASE Open(u) # {}
    <3>1. First(u) \in Target(runner) /\ Rank(First(u)) < n /\ result[First(u)] # "ok"
      BY <1>1, <2>3, FirstOpen, Graph DEF Ranked, Target
    <3>2. First(u) \in Good
      BY <1>1, <3>1
    <3> QED BY <2>1, <2>3, <3>1, <3>2
  <2> QED BY <2>2, <2>3
<1> HIDE DEF Good
<1>2. Target(runner) \subseteq Good
  BY <1>1, ByRank
<1> QED BY <1>2 DEF Good

LEMMA CurrentFacts ==
  ASSUME runner \in Runner
  PROVE  /\ Current \in Target(runner) /\ Open(Current) = {}
         /\ ~Green => result[Current] # "ok"
         /\ Current = Main(runner) \/ \E p \in Target(runner) : Open(p) # {} /\ First(p) = Current
BY DownFacts, Graph DEF Current, Green

DownFixed == runner \in Runner => Down = Follow(Down)

LEMMA DownFixedNext == DownFixed'
<1>1. DownFixed
  BY DownIs DEF DownFixed
<1> QED BY <1>1, PTL

\* It stays the same until a target is done.
LEMMA CurrentStays ==
  ASSUME runner \in Runner, runner' = runner,
         \A t \in Target(runner) : result'[t] = "ok" <=> result[t] = "ok"
  PROVE  Current' = Current
<1>1. \A t \in Target(runner) : Open(t)' = Open(t)
  BY Graph DEF Open, Ranked, Target
<1>2. \A t \in Target(runner) : First(t)' = First(t)
  BY <1>1 DEF First
<1> DEFINE g == Down'
<1>3. g = Follow(g)
  <2>1. Down' = Follow(Down)'
    BY DownFixedNext DEF DownFixed
  <2> QED BY <1>1, <1>2, <2>1 DEF Follow
<1> HIDE DEF g
<1> DEFINE Same == {t \in Target(runner) : g[t] = Down[t]}
<1>4. ASSUME NEW n \in Nat, \A t \in Target(runner) : Rank(t) < n => t \in Same,
             NEW t \in Target(runner), Rank(t) = n
      PROVE  t \in Same
  <2>1. Down[t] = (IF Open(t) = {} THEN t ELSE Down[First(t)])
        /\ g[t] = (IF Open(t) = {} THEN t ELSE g[First(t)])
    BY <1>3, DownIs DEF Follow
  <2>2. Open(t) # {} => First(t) \in Target(runner) /\ Rank(First(t)) < n
    BY <1>4, FirstOpen, Graph DEF Ranked, Target
  <2> QED BY <1>4, <2>1, <2>2
<1> HIDE DEF Same
<1>5. Target(runner) \subseteq Same
  BY <1>4, ByRank
<1> QED BY <1>5, Graph DEF Same, g, Current

-----------------------------------------------------------------------------
(* The order of the targets.                                               *)

\* Integration tests are due when the unit tests beside them are done.
LEMMA UnitFirst ==
  ASSUME runner \in Runner, Body(Current) \in DOMAIN UnitOf
  PROVE  \E x \in Target(runner) : Body(x) = UnitOf[Body(Current)] /\ result[x] = "ok"
<1>0. Current \in {"RunIntegrationTests", "CentralIntegrationTest", "ServiceIntegrationTest",
                   "PartitionIntegrationTest", "CommonIntegrationTest", "DataIntegrationTest"}
  BY DEF Body, UnitOf
<1>1. PICK p \in Target(runner) : Open(p) # {} /\ First(p) = Current
  BY <1>0, CurrentFacts DEF Main
<1>2. PICK i \in DOMAIN Deps(runner)[p] :
        /\ Current = Deps(runner)[p][i]
        /\ \A j \in DOMAIN Deps(runner)[p] : j < i => result[Deps(runner)[p][j]] = "ok"
  BY <1>1, FirstOpen
<1> DEFINE Unit_(c) == CASE c = "RunIntegrationTests" -> "RunUnitTests"
                         [] c = "CentralIntegrationTest" -> "CentralUnitTest"
                         [] c = "ServiceIntegrationTest" -> "ServiceUnitTest"
                         [] c = "PartitionIntegrationTest" -> "PartitionUnitTest"
                         [] c = "CommonIntegrationTest" -> "CommonUnitTest"
                         [] c = "DataIntegrationTest" -> "DataUnitTest"
<1>3. Unit_(Current) \in Target(runner) /\ result[Unit_(Current)] = "ok"
  <2>1. CASE runner \in {"harness", "unit"}
    BY <1>0, <1>2, <2>1 DEF Target, Deps, HarnessDeps
  <2>2. CASE runner = "modules"
    BY <1>0, <1>2, <2>2 DEF Target, Deps, ModulesDeps
  <2>3. CASE runner = "mvp"
    BY <1>0, <1>2, <2>3 DEF Target, Deps, MvpDeps
  <2>4. CASE runner = "resources"
    BY <1>0, <1>2, <2>4 DEF Target, Deps, ResourcesDeps
  <2> QED BY <2>1, <2>2, <2>3, <2>4 DEF Runner
<1>4. Body(Unit_(Current)) = UnitOf[Body(Current)]
  BY <1>0 DEF Body, UnitOf
<1> QED BY <1>3, <1>4

\* Tests are due when cleaning is done.
LEMMA CleanBefore ==
  ASSUME runner \in Runner \ {"unit"}, Body(Current) \in Suffix,
         NEW y \in Target(runner), Body(y) = "clean"
  PROVE  result[y] = "ok"
<1>1. CASE runner = "harness"
  <2>1. y = "CleanAll"
    BY <1>1 DEF Body, Target, Deps, HarnessDeps
  <2>2. Current \in {"RunUnitTests", "RunIntegrationTests"}
    BY <1>1, CurrentFacts DEF Body, Suffix, Target, Deps, HarnessDeps
  <2>3. PICK p \in Target(runner) : Open(p) # {} /\ First(p) = Current
    BY <1>1, <2>2, CurrentFacts DEF Main
  <2>4. PICK i \in DOMAIN Deps(runner)[p] :
          /\ Current = Deps(runner)[p][i]
          /\ \A j \in DOMAIN Deps(runner)[p] : j < i => result[Deps(runner)[p][j]] = "ok"
    BY <2>3, FirstOpen
  <2> QED BY <1>1, <2>1, <2>2, <2>4 DEF Target, Deps, HarnessDeps
<1>2. CASE runner = "modules"
  <2>1. y = "Clean"
    BY <1>2 DEF Body, Target, Deps, ModulesDeps
  <2>2. Current = "TestModules"
    BY <1>2, CurrentFacts DEF Body, Suffix, Target, Deps, ModulesDeps
  <2> QED BY <1>2, <2>1, <2>2, CurrentFacts DEF Open, Target, Deps, ModulesDeps
<1>3. CASE runner = "mvp"
  BY <1>3 DEF Body, Target, Deps, MvpDeps
<1>4. CASE runner = "resources"
  BY <1>4 DEF Body, Target, Deps, ResourcesDeps
<1> QED BY <1>1, <1>2, <1>3, <1>4 DEF Runner

\* The runner that is started with RunUnitTests does nothing else.
LEMMA UnitOnly ==
  ASSUME runner = "unit"
  PROVE  Current = "RunUnitTests" /\ Body(Current) = "unit"
<1>1. Open("RunUnitTests") = {} /\ "RunUnitTests" \in Target(runner)
  BY DEF Open, Target, Deps, HarnessDeps
<1>2. Down["RunUnitTests"] = "RunUnitTests"
  BY <1>1, DownIs DEF Follow, Runner
<1> QED BY <1>2 DEF Current, Main, Body

\* No process is started by two targets.
LEMMA TargetsApart ==
  ASSUME runner \in Runner, NEW x \in Target(runner), NEW y \in Target(runner), x # y,
         Body(x) \in Suffix, Body(y) \in Suffix
  PROVE  Packages(Body(x)) \cap Packages(Body(y)) = {}
BY PathsAssumption DEF Packages

-----------------------------------------------------------------------------
(* The kinds of steps.                                                     *)

\* A test process moves, and changes nothing of any other one.
Moves(t) ==
  /\ TestStep(t) \/ Killed(t)
  /\ Running(t) /\ pc'[t] \in Step \ {"idle", "started"}
  /\ \A u \in Test \ {t} :
       /\ pc'[u] = pc[u] /\ start'[u] = start[u] /\ plan'[u] = plan[u]
       /\ checked'[u] = checked[u] /\ failed'[u] = failed[u]
  /\ UNCHANGED <<run, mageVars, found>>

\* The target that is due ends, and not by cleaning.
Quiet(outcome) ==
  /\ ~Between /\ Becomes(outcome) /\ Body(Current) # "clean"
  /\ outcome = "ok" /\ Body(Current) \in Suffix => \A t \in Packages(Body(Current)) : Passed(t)
  /\ rewritten' # rewritten => outcome = "failed"
  /\ \A t \in Test : ~Running(t)
  /\ UNCHANGED <<harnessVars, found, runner>>

\* Its tests start.
Launch ==
  /\ ~Between /\ Becomes("running")
  /\ result[Current] = "todo" /\ Body(Current) \in Suffix
  /\ GoTest(Packages(Body(Current)))
  /\ UNCHANGED <<runner, unformatted, rewritten, found>>

Wipe == ~Between /\ Clean

\* What a step of cleaning does.
LEMMA Wiping ==
  ASSUME Wipe
  PROVE  /\ Due("clean") /\ ~Between
         /\ UNCHANGED <<run, pc, start, plan, checked, failed, runner, unformatted, rewritten, found>>
         /\ \E o \in {"ok", "failed"}, part \in SUBSET Scope :
              /\ Becomes(o) /\ Cleaned(part, runner # "harness")
              /\ o = "ok" => part = Scope
BY DEF Wipe, Clean

LEMMA NoneRunning ==
  ASSUME RunningInv, result[Current] # "running"
  PROVE  \A t \in Test : ~Running(t)
BY DEF RunningInv

LEMMA ProcessMoves ==
  ASSUME TypeOK, NEW t \in Test, TestStep(t) \/ Killed(t), UNCHANGED <<mageVars, found>>
  PROVE  Moves(t)
<1>1. CASE Initialize(t)
  BY <1>1 DEF Initialize, Moves, TypeOK, Goes, Running, Step, TestStep, world
<1>2. CASE SelectOwn(t)
  BY <1>2 DEF SelectOwn, Moves, TypeOK, Goes, Running, Step, TestStep
<1>3. CASE MakePlan(t)
  BY <1>3 DEF MakePlan, Moves, TypeOK, Goes, Running, Step, TestStep, world
<1>4. CASE CheckPlan(t)
  BY <1>4 DEF CheckPlan, Moves, TypeOK, Goes, Running, Step, TestStep, world
<1>5. CASE Restore(t)
  BY <1>5 DEF Restore, Moves, TypeOK, Goes, Running, Step, TestStep
<1>6. CASE DeleteOwn(t)
  BY <1>6 DEF DeleteOwn, Moves, TypeOK, Goes, Running, Step, TestStep
<1>7. CASE CheckOutput(t)
  BY <1>7 DEF CheckOutput, Moves, TypeOK, Goes, Running, Step, TestStep, world
<1>8. CASE CommandFails(t)
  BY <1>8 DEF CommandFails, Moves, TypeOK, Goes, Fatal, Running, Step, TestStep
<1>9. CASE Killed(t)
  BY <1>9 DEF Killed, Moves, TypeOK, Goes, Running, Step, TestStep, world
<1> QED BY <1>1, <1>2, <1>3, <1>4, <1>5, <1>6, <1>7, <1>8, <1>9 DEF TestStep

LEMMA StepKinds ==
  ASSUME TypeOK, RunningInv, [Next]_vars
  PROVE  \/ \E t \in Test : Moves(t)
         \/ \E o \in {"ok", "failed"} : Quiet(o)
         \/ Launch \/ Wipe \/ StartRun
         \/ \E d \in Dir : Work(d)
         \/ UNCHANGED vars
<1>1. ASSUME NEW t \in Test, Tests(t) \/ Interrupt(t)
      PROVE  Moves(t)
  BY <1>1, ProcessMoves DEF Tests, Interrupt
<1>2. ASSUME ~Between, NEW body, Due(body)
      PROVE  \A t \in Test : ~Running(t)
  BY <1>2, NoneRunning DEF Due
<1>3. ASSUME ~Between, GroupDone
      PROVE  Quiet("ok")
  BY <1>2, <1>3 DEF GroupDone, Group, Quiet, Due, Suffix
<1>4. ASSUME ~Between, LintCheck
      PROVE  \E o \in {"ok", "failed"} : Quiet(o)
  <2>1. PICK cmd \in {"go fmt", "terraform fmt"} : Lint(cmd) /\ UNCHANGED <<harnessVars, found>>
    BY <1>4 DEF LintCheck
  <2>2. rewritten' # rewritten => ~RunsQuietly(cmd)
    BY <2>1 DEF Lint, RunsQuietly
  <2>3. ~Between /\ Body(Current) \notin Suffix \cup {"clean"} /\ \A t \in Test : ~Running(t)
    BY <1>2, <1>4, <2>1 DEF Lint, Due, Suffix
  <2> QED BY <2>1, <2>2, <2>3 DEF Lint, Quiet
<1>5. ASSUME ~Between, RunTestHarnessUnitTests
      PROVE  Quiet("ok")
  BY <1>2, <1>5 DEF RunTestHarnessUnitTests, Quiet, Due, Suffix
<1>6. ASSUME TargetFails
      PROVE  Quiet("failed")
  BY <1>2, <1>6 DEF TargetFails, Quiet, Suffix
<1>7. ASSUME ~Between, StartTests
      PROVE  Launch \/ Quiet("failed")
  BY <1>2, <1>7 DEF StartTests, Quiet, Launch, Due, Suffix
<1>8. ASSUME ~Between, EndTests
      PROVE  \E o \in {"ok", "failed"} : Quiet(o)
  <2>1. Body(Current) \in Suffix /\ \A t \in Packages(Body(Current)) : ~Running(t)
    BY <1>8, CurrentFacts DEF EndTests, RunningInv, TypeOK
  <2>2. \A t \in Test : ~Running(t)
    BY <2>1 DEF RunningInv
  <2>3. Body(Current) # "clean"
    BY <2>1 DEF Suffix
  <2> QED BY <1>8, <2>2, <2>3 DEF EndTests, Quiet
<1> QED BY <1>1, <1>3, <1>4, <1>5, <1>6, <1>7, <1>8 DEF Next, Proceed, Wipe

-----------------------------------------------------------------------------
(* Targets and the processes they start.                                   *)

\* What a step does to the targets.
LEMMA Outcome ==
  ASSUME TypeOK, NEW o, Becomes(o)
  PROVE  /\ Current \in Target(runner) /\ result'[Current] = o
         /\ \A x \in Target(runner) \ {Current} : result'[x] = result[x]
BY CurrentFacts DEF Becomes, TypeOK

LEMMA RunnerStays == [Next]_vars => runner' = runner
BY DEF Next, Proceed, Clean, GroupDone, Group, LintCheck, Lint, RunTestHarnessUnitTests,
       TargetFails, StartTests, EndTests, StartRun, Tests, Interrupt, Work, vars, mageVars

LEMMA SameTargets ==
  ASSUME TypeOK, UNCHANGED <<runner, result, run>>
  PROVE  /\ Current' = Current /\ (Between' <=> Between)
         /\ \A s \in Suffix : Packages(s)' = Packages(s)
<1>1. Current' = Current
  BY CurrentStays DEF TypeOK
<1> QED BY <1>1 DEF Between, Ended, Green, Aborted, Packages

\* A launch leaves the target where it is.
LEMMA LaunchStays ==
  ASSUME TypeOK, Launch
  PROVE  /\ Current' = Current /\ ~Between' /\ result'[Current] = "running"
         /\ \A t \in Packages(Body(Current)) : pc'[t] = "started" /\ failed'[t] = FALSE
         /\ \A t \in Test \ Packages(Body(Current)) : pc'[t] = pc[t] /\ failed'[t] = failed[t]
         /\ UNCHANGED <<world, run, start, plan, checked, found, runner, rewritten>>
<1>1. /\ Current \in Target(runner) /\ result[Current] = "todo" /\ result'[Current] = "running"
      /\ \A x \in Target(runner) \ {Current} : result'[x] = result[x]
      /\ runner' = runner /\ run' = run /\ ~Between
  BY Outcome DEF Launch, GoTest
<1>2. Current' = Current
  BY <1>1, CurrentStays DEF TypeOK
<1>3. DOMAIN result = Target(runner) /\ DOMAIN result' = Target(runner)
  BY DEF TypeOK, Launch, Becomes
<1>4. ~Between'
  BY <1>1, <1>3, Graph DEF Between, Ended, Green, Aborted, TypeOK
<1>5. Packages(Body(Current)) \subseteq Test
  BY RunAssumption DEF Packages, Launch
<1> QED BY <1>1, <1>2, <1>4, <1>5 DEF Launch, GoTest

\* The processes that a target is about to start have not been started before.
LEMMA NotStarted ==
  ASSUME TypeOK, StartedInv, result[Current] = "todo", Body(Current) \in Suffix
  PROVE  \A t \in Packages(Body(Current)) : pc[t] = "idle"
<1> SUFFICES ASSUME NEW t \in Packages(Body(Current)), pc[t] # "idle"
             PROVE  FALSE
  OBVIOUS
<1>1. t \in Test
  BY RunAssumption DEF Packages
<1>2. PICK x \in Target(runner) : result[x] # "todo" /\ Body(x) \in Suffix /\ t \in Packages(Body(x))
  BY <1>1 DEF StartedInv
<1> QED BY <1>2, CurrentFacts, TargetsApart DEF TypeOK

LEMMA RunningStep ==
  ASSUME TypeOK, RunningInv, [Next]_vars
  PROVE  RunningInv'
<1>0. \A s \in Suffix : Packages(s)' = Packages(s)
  BY RunnerStays DEF Packages
<1>1. ASSUME NEW t \in Test, Moves(t)
      PROVE  RunningInv'
  <2>1. Current' = Current /\ (Between' <=> Between) /\ UNCHANGED <<runner, result>>
    BY <1>1, SameTargets DEF Moves, mageVars
  <2>2. \A u \in Test : Running(u)' => Running(u)
    BY <1>1 DEF Moves, Running
  <2> QED BY <1>0, <2>1, <2>2, CurrentFacts DEF RunningInv, TypeOK
<1>2. ASSUME NEW o \in {"ok", "failed"}, Quiet(o)
      PROVE  RunningInv'
  <2>1. \A t \in Test : ~Running(t)'
    BY <1>2 DEF Quiet, Running, harnessVars
  <2>2. runner' = runner /\ \A x \in Target(runner) : result'[x] # "running"
    BY <1>2, Outcome DEF Quiet, RunningInv
  <2> QED BY <2>1, <2>2 DEF RunningInv
<1>3. CASE Launch
  <2>1. \A t \in Test : ~Running(t)
    BY <1>3, NoneRunning DEF Launch
  <2>2. \A t \in Test : Running(t)' => t \in Packages(Body(Current))
    BY <1>3, <2>1, LaunchStays DEF Running
  <2>3. \A x \in Target(runner) : result'[x] = "running" => x = Current
    BY <1>3, Outcome DEF Launch, RunningInv
  <2>4. Body(Current) \in Suffix
    BY <1>3 DEF Launch
  <2> QED BY <1>0, <1>3, <2>2, <2>3, <2>4, LaunchStays DEF RunningInv
<1>4. CASE Wipe
  <2>1. \A t \in Test : ~Running(t)'
    BY <1>4, Wiping, NoneRunning DEF Due, Running
  <2>2. runner' = runner /\ \A x \in Target(runner) : result'[x] # "running"
    BY <1>4, Wiping, Outcome DEF RunningInv
  <2> QED BY <2>1, <2>2 DEF RunningInv
<1>5. CASE StartRun
  <2>1. \A t \in Test : ~Running(t)'
    BY <1>5 DEF StartRun, Running
  <2>2. runner' = runner /\ \A x \in Target(runner) : result'[x] # "running"
    BY <1>5 DEF StartRun, Todo
  <2> QED BY <2>1, <2>2 DEF RunningInv
<1>6. CASE UNCHANGED <<runner, result, run, pc>>
  BY <1>0, <1>6, SameTargets, CurrentFacts DEF RunningInv, Running, TypeOK
<1> QED BY <1>1, <1>2, <1>3, <1>4, <1>5, <1>6, StepKinds DEF Work, mageVars, vars, harnessVars

LEMMA StartedStep ==
  ASSUME TypeOK, RunningInv, StartedInv, [Next]_vars
  PROVE  StartedInv'
<1>0. runner' = runner /\ \A s \in Suffix : Packages(s)' = Packages(s) /\ Packages(s) \subseteq Test
  BY RunnerStays, RunAssumption DEF Packages
<1>1. ASSUME NEW t \in Test, Moves(t)
      PROVE  StartedInv'
  <2>1. result' = result
    BY <1>1 DEF Moves, mageVars
  <2>2. \A u \in Test : pc'[u] # "idle" => pc[u] # "idle"
    BY <1>1 DEF Moves, Running
  <2>3. \A u \in Test : Passed(u) => Passed(u)'
    BY <1>1 DEF Moves, Running, Passed
  <2>4. \A u \in Test : pc'[u] # "idle" =>
          \E x \in Target(runner) : result'[x] # "todo" /\ Body(x) \in Suffix /\ u \in Packages(Body(x))
    BY <2>1, <2>2 DEF StartedInv
  <2>5. ASSUME NEW x \in Target(runner), result'[x] = "ok", Body(x) \in Suffix,
               NEW u \in Packages(Body(x))
        PROVE  Passed(u)'
    BY <1>0, <2>1, <2>3, <2>5 DEF StartedInv
  <2> QED BY <1>0, <2>4, <2>5 DEF StartedInv
<1>2. ASSUME NEW o \in {"ok", "failed"}, Quiet(o)
      PROVE  StartedInv'
  <2>1. /\ Current \in Target(runner) /\ result'[Current] = o
        /\ \A x \in Target(runner) \ {Current} : result'[x] = result[x]
    BY <1>2, Outcome DEF Quiet
  <2>2. UNCHANGED <<pc, failed>>
    BY <1>2 DEF Quiet, harnessVars
  <2>3. \A u \in Test : Passed(u)' = Passed(u)
    BY <2>2 DEF Passed
  <2>4. o = "ok" /\ Body(Current) \in Suffix => \A t \in Packages(Body(Current)) : Passed(t)
    BY <1>2 DEF Quiet
  <2>5. \A t \in Test : pc'[t] # "idle" =>
          \E x \in Target(runner) : result'[x] # "todo" /\ Body(x) \in Suffix /\ t \in Packages(Body(x))
    BY <2>1, <2>2 DEF StartedInv
  <2> QED BY <1>0, <2>1, <2>3, <2>4, <2>5 DEF StartedInv
<1>3. CASE Launch
  <2>1. /\ Current \in Target(runner) /\ result'[Current] = "running" /\ Body(Current) \in Suffix
        /\ \A x \in Target(runner) \ {Current} : result'[x] = result[x]
    BY <1>3, Outcome DEF Launch
  <2>2. \A t \in Test : pc'[t] # "idle" =>
          \E x \in Target(runner) : result'[x] # "todo" /\ Body(x) \in Suffix /\ t \in Packages(Body(x))
    BY <1>3, <2>1, LaunchStays DEF StartedInv
  <2>3. ASSUME NEW x \in Target(runner), result'[x] = "ok", Body(x) \in Suffix,
               NEW t \in Packages(Body(x))
        PROVE  Passed(t)'
    <3>1. x # Current /\ t \notin Packages(Body(Current)) /\ t \in Test
      BY <1>0, <2>1, <2>3, TargetsApart DEF TypeOK
    <3> QED BY <1>3, <2>1, <2>3, <3>1, LaunchStays DEF StartedInv, Passed
  <2> QED BY <1>0, <2>2, <2>3 DEF StartedInv
<1>4. CASE Wipe
  <2>1. /\ Current \in Target(runner) /\ result'[Current] # "todo" /\ Body(Current) \notin Suffix
        /\ \A x \in Target(runner) \ {Current} : result'[x] = result[x]
    BY <1>4, Wiping, Outcome DEF Due, Suffix
  <2>2. UNCHANGED <<pc, failed>>
    BY <1>4, Wiping
  <2> QED BY <1>0, <2>1, <2>2 DEF StartedInv, Passed
<1>5. CASE StartRun
  BY <1>0, <1>5 DEF StartedInv, StartRun, Todo
<1>6. CASE UNCHANGED <<runner, result, pc, failed>>
  BY <1>0, <1>6 DEF StartedInv, Passed
<1> QED BY <1>1, <1>2, <1>3, <1>4, <1>5, <1>6, StepKinds DEF Work, mageVars, vars, harnessVars

LEMMA CleanFirstStep ==
  ASSUME TypeOK, RunningInv, CleanFirst, [Next]_vars
  PROVE  CleanFirst'
<1> SUFFICES ASSUME runner # "unit", NEW x \in Target(runner), NEW y \in Target(runner),
                    Body(x) \in Suffix, result'[x] # "todo", Body(y) = "clean"
             PROVE  result'[y] = "ok"
  BY RunnerStays DEF CleanFirst
<1>0. runner \in Runner /\ Body(y) \notin Suffix /\ (result[x] # "todo" => result[y] = "ok")
  BY DEF TypeOK, Suffix, CleanFirst
<1>1. ASSUME NEW o, Becomes(o), Body(Current) # "clean"
      PROVE  result'[y] = "ok"
  <2>1. CASE x = Current
    BY <1>0, <1>1, <2>1, Outcome, CleanBefore
  <2>2. CASE x # Current
    BY <1>0, <1>1, <2>2, Outcome
  <2> QED BY <2>1, <2>2
<1>2. ASSUME NEW o \in {"ok", "failed"}, Quiet(o)
      PROVE  result'[y] = "ok"
  BY <1>1, <1>2 DEF Quiet
<1>3. CASE Launch
  BY <1>1, <1>3 DEF Launch, Suffix
<1>4. CASE Wipe
  BY <1>0, <1>4, Wiping, Outcome DEF Due
<1>5. CASE StartRun
  BY <1>5 DEF StartRun, Todo
<1>6. CASE UNCHANGED result
  BY <1>0, <1>6
<1> QED BY <1>2, <1>3, <1>4, <1>5, <1>6, StepKinds DEF Moves, Work, mageVars, vars

\* Nothing but a new run changes the answer from no to yes.
LEMMA BetweenStays ==
  ASSUME TypeOK, RunningInv, [Next]_vars, ~Between'
  PROVE  ~Between \/ StartRun
BY SameTargets, StepKinds DEF Moves, Quiet, Launch, Wipe, Work, mageVars, vars, harnessVars

LEMMA AfterUnitStep ==
  ASSUME TypeOK, RunningInv, StartedInv, AfterUnit, [Next]_vars
  PROVE  AfterUnit'
<1> SUFFICES ASSUME ~Between', NEW t \in Integration, NEW u \in Unit,
                    DirOf[t] = DirOf[u], pc'[t] # "idle"
             PROVE  Passed(u)'
  BY DEF AfterUnit
<1>0. t \in Test /\ u \in Test
  BY HarnessAssumption DEF Unit
<1>1. ~StartRun
  BY <1>0 DEF StartRun
<1>2. ~Between /\ (pc[t] # "idle" => Passed(u))
  BY <1>1, BetweenStays DEF AfterUnit
<1>3. CASE Launch
  <2>1. Body(Current) \in Suffix /\ \A p \in Packages(Body(Current)) : pc[p] = "idle"
    BY <1>3, NotStarted DEF Launch
  <2>2. CASE t \in Packages(Body(Current))
    <3>1. Body(Current) \in DOMAIN UnitOf /\ t \in Matching[Body(Current)] /\ DirOf[t] \in Below[runner]
      BY <2>1, <2>2, PathsAssumption DEF Packages
    <3>2. PICK x \in Target(runner) : Body(x) = UnitOf[Body(Current)] /\ result[x] = "ok"
      BY <3>1, UnitFirst DEF TypeOK
    <3>3. Body(x) \in Suffix /\ u \in Packages(Body(x))
      BY <3>1, <3>2, PathsAssumption DEF Packages, Unit, UnitOf, Suffix
    <3>4. Passed(u)
      BY <3>2, <3>3 DEF StartedInv
    <3>5. u \notin Packages(Body(Current))
      BY <2>1, <3>4 DEF Passed
    <3> QED BY <1>0, <1>3, <3>4, <3>5, LaunchStays DEF Passed
  <2>3. CASE t \notin Packages(Body(Current))
    <3>1. Passed(u)
      BY <1>0, <1>2, <1>3, <2>3, LaunchStays
    <3>2. u \notin Packages(Body(Current))
      BY <2>1, <3>1 DEF Passed
    <3> QED BY <1>0, <1>3, <3>1, <3>2, LaunchStays DEF Passed
  <2> QED BY <2>2, <2>3
<1>4. ASSUME NEW p \in Test, Moves(p)
      PROVE  Passed(u)'
  BY <1>0, <1>2, <1>4 DEF Moves, Running, Passed
<1>5. CASE UNCHANGED <<pc, failed>>
  BY <1>2, <1>5 DEF Passed
<1> QED BY <1>1, <1>3, <1>4, <1>5, StepKinds DEF Quiet, Wipe, Clean, Work, vars, harnessVars

LEMMA RewrittenStep ==
  ASSUME TypeOK, RunningInv, RewrittenInv, [Next]_vars
  PROVE  RewrittenInv'
<1>1. ASSUME NEW o, Becomes(o), ~Between, UNCHANGED runner
      PROVE  /\ o = "failed" => Aborted'
             /\ ~Aborted
  <2>1. run # 0 /\ ~Aborted
    BY <1>1 DEF Between, Ended
  <2>2. Current \in DOMAIN result'
    BY <1>1, CurrentFacts DEF TypeOK, Becomes
  <2> QED BY <1>1, <2>1, <2>2, Outcome DEF Aborted
<1>2. ASSUME NEW o \in {"ok", "failed"}, Quiet(o)
      PROVE  RewrittenInv'
  BY <1>1, <1>2 DEF Quiet, RewrittenInv
<1>3. CASE Launch \/ Wipe
  BY <1>1, <1>3 DEF Launch, Wipe, Clean, RewrittenInv
<1>4. CASE StartRun
  BY <1>4 DEF StartRun, RewrittenInv
<1>5. CASE UNCHANGED <<result, rewritten>>
  BY <1>5 DEF RewrittenInv, Aborted
<1> QED BY <1>2, <1>3, <1>4, <1>5, StepKinds DEF Moves, Work, mageVars, vars

-----------------------------------------------------------------------------
(* Workspaces.                                                             *)

\* What a process does to the directories and backends: it selects its own
\* workspace, selects again what it found, or deletes its own.
Selects(t) ==
  /\ t \in Unit /\ pc[t] = "initialized" /\ pc'[t] \in {"selected", "over"}
  /\ SelectOrNew(t, workspaceName(t)) /\ (pc'[t] = "over" => failed'[t])

Returns(t) ==
  /\ t \in Unit /\ pc[t] \in {"checked", "unwinding"} /\ pc'[t] = "restored" /\ PutBack(t)

Deletes(t) ==
  /\ t \in Unit /\ pc[t] = "restored" /\ pc'[t] = "over"
  /\ DeleteAccepted(t, workspaceName(t))
  /\ exists' = [exists EXCEPT ![Home(t)] = @ \ {workspaceName(t)}]
  /\ UNCHANGED <<selected, deployed>>

LEMMA Places ==
  ASSUME NEW t \in Test
  PROVE  /\ DirOf[t] \in Dir /\ Home(t) \in Backend
         /\ run \in 0..MaxRuns => workspaceName(t) \in Name \ {Default}
BY HarnessAssumption, NamesUnique DEF Home, workspaceName

\* Only the test of a directory uses its name there.
LEMMA OwnOnly ==
  ASSUME TypeOK, NameInv, NEW t \in Unit, NEW d \in Dir,
         BackendOf[d] = Home(t), selected[d] = workspaceName(t)
  PROVE  d = DirOf[t]
BY DirsApart, Places DEF NameInv, workspaceName, Home, Unit, TypeOK

LEMMA ProcessWorld ==
  ASSUME TypeOK, SelectInv, NEW t \in Test, Moves(t)
  PROVE  /\ UNCHANGED world \/ Selects(t) \/ Returns(t) \/ Deletes(t)
         /\ \/ start' = start
            \/ /\ pc[t] = "started" /\ pc'[t] = "initialized" /\ UNCHANGED world
               /\ start' = [start EXCEPT ![t] = selected[DirOf[t]]]
<1>0. t \in Unit \/ Early(t) \/ pc[t] \in {"over", "killed"}
  BY DEF SelectInv, Unit
<1>1. CASE Initialize(t)
  BY <1>1 DEF Initialize, Goes, TypeOK, world
<1>2. CASE SelectOwn(t)
  BY <1>2 DEF SelectOwn, Selects, Goes, TypeOK, Unit
<1>3. CASE MakePlan(t)
  BY <1>3 DEF MakePlan
<1>4. CASE CheckPlan(t)
  BY <1>4 DEF CheckPlan
<1>5. CASE Restore(t)
  BY <1>0, <1>5 DEF Restore, Returns, Goes, TypeOK, Early
<1>6. CASE DeleteOwn(t)
  <2>1. t \in Unit /\ pc'[t] = "over" /\ pc[t] = "restored" /\ UNCHANGED <<selected, start>>
    BY <1>0, <1>6 DEF DeleteOwn, Goes, TypeOK, Early
  <2>2. CASE DeleteAccepted(t, workspaceName(t))
    <3>1. exists' = [exists EXCEPT ![Home(t)] = @ \ {workspaceName(t)}]
      BY <1>6, <2>2 DEF DeleteOwn
    <3>2. exists'[Home(t)] = exists[Home(t)] \ {workspaceName(t)}
      BY <3>1, Places DEF TypeOK
    <3>3. deployed[Home(t)] \cap exists'[Home(t)] = deployed[Home(t)]
      BY <2>2, <3>2, Places DEF TypeOK, DeleteAccepted
    <3>4. deployed' = deployed
      BY <1>6, <3>3, Places DEF DeleteOwn, TypeOK
    <3> QED BY <2>1, <2>2, <3>1, <3>4 DEF Deletes
  <2>3. CASE ~DeleteAccepted(t, workspaceName(t))
    <3>1. exists' = exists
      BY <1>6, <2>3 DEF DeleteOwn
    <3>2. deployed[Home(t)] \cap exists'[Home(t)] = deployed[Home(t)]
      BY <3>1, Places DEF TypeOK
    <3>3. deployed' = deployed
      BY <1>6, <3>2, Places DEF DeleteOwn, TypeOK
    <3> QED BY <2>1, <3>1, <3>3 DEF world
  <2> QED BY <2>2, <2>3
<1>7. CASE CheckOutput(t)
  BY <1>7 DEF CheckOutput
<1>8. CASE CommandFails(t)
  BY <1>0, <1>8 DEF CommandFails, Selects, Returns, Goes, Fatal, TypeOK, Early, Unit
<1>9. CASE Killed(t)
  BY <1>9 DEF Killed
<1> QED BY <1>1, <1>2, <1>3, <1>4, <1>5, <1>6, <1>7, <1>8, <1>9 DEF Moves, TestStep

\* The rest of the types.
ProcessTypes ==
  /\ pc \in [Test -> Step] /\ failed \in [Test -> BOOLEAN]
  /\ DOMAIN plan = Test /\ DOMAIN checked = Test

LEMMA ProcessTyped ==
  ASSUME TypeOK, NEW t \in Test, Moves(t)
  PROVE  ProcessTypes'
<1>0. ProcessTypes
  BY DEF TypeOK, ProcessTypes
<1>1. CASE Initialize(t)
  BY <1>0, <1>1 DEF Initialize, Goes, ProcessTypes, Step
<1>2. CASE SelectOwn(t)
  BY <1>0, <1>2 DEF SelectOwn, Goes, ProcessTypes, Step
<1>3. CASE MakePlan(t)
  BY <1>0, <1>3 DEF MakePlan, Goes, ProcessTypes, Step
<1>4. CASE CheckPlan(t)
  <2>1. PICK f \in Fixtures[t] :
          /\ checked' = [checked EXCEPT ![t] = f]
          /\ failed' = [failed EXCEPT ![t] = ~validateTerraformPlanFile(f, plan[t])]
    BY <1>4 DEF CheckPlan
  <2>2. (~validateTerraformPlanFile(f, plan[t])) \in BOOLEAN
    OBVIOUS
  <2> QED BY <1>0, <1>4, <2>1, <2>2 DEF CheckPlan, Goes, ProcessTypes, Step
<1>5. CASE Restore(t)
  BY <1>0, <1>5 DEF Restore, Goes, ProcessTypes, Step
<1>6. CASE DeleteOwn(t)
  BY <1>0, <1>6 DEF DeleteOwn, Goes, ProcessTypes, Step
<1>7. CASE CheckOutput(t)
  <2>1. PICK f, o : failed' = [failed EXCEPT ![t] = ~validateTerraformOutput(f, o)]
    BY <1>7 DEF CheckOutput
  <2>2. (~validateTerraformOutput(f, o)) \in BOOLEAN
    OBVIOUS
  <2> QED BY <1>0, <1>7, <2>1, <2>2 DEF CheckOutput, Goes, ProcessTypes, Step
<1>8. CASE CommandFails(t)
  BY <1>0, <1>8 DEF CommandFails, Goes, Fatal, ProcessTypes, Step
<1>9. CASE Killed(t)
  BY <1>0, <1>9 DEF Killed, Goes, ProcessTypes, Step
<1> QED BY <1>1, <1>2, <1>3, <1>4, <1>5, <1>6, <1>7, <1>8, <1>9 DEF Moves, TestStep

\* The directories and backends.
WorldTypes ==
  /\ selected \in [Dir -> Name] /\ found \in [Dir -> Name]
  /\ exists \in [Backend -> SUBSET Name] /\ deployed \in [Backend -> SUBSET Name]
  /\ \A d \in Dir : selected[d] \in exists[BackendOf[d]]
  /\ \A b \in Backend : Default \in exists[b] /\ deployed[b] \subseteq exists[b]

LEMMA SelectTyped ==
  ASSUME TypeOK, NEW t \in Test, NEW w \in Name, SelectOrNew(t, w), UNCHANGED found
  PROVE  WorldTypes'
<1>1. /\ selected' = [selected EXCEPT ![DirOf[t]] = w]
      /\ exists' = [exists EXCEPT ![Home(t)] = @ \cup {w}]
      /\ deployed' = deployed
  BY DEF SelectOrNew
<1>2. /\ selected' \in [Dir -> Name] /\ found' \in [Dir -> Name]
      /\ exists' \in [Backend -> SUBSET Name] /\ deployed' \in [Backend -> SUBSET Name]
  BY <1>1, Places DEF TypeOK
<1>3. \A b \in Backend : exists[b] \subseteq exists'[b]
  BY <1>1, Places DEF TypeOK
<1>4. w \in exists'[Home(t)]
  BY <1>1, Places DEF TypeOK
<1>5. \A d \in Dir : selected'[d] \in exists'[BackendOf[d]]
  <2> SUFFICES ASSUME NEW d \in Dir
               PROVE  selected'[d] \in exists'[BackendOf[d]]
    OBVIOUS
  <2>1. CASE d = DirOf[t]
    BY <1>1, <1>4, <2>1 DEF TypeOK, Home
  <2>2. CASE d # DirOf[t]
    <3>1. selected'[d] = selected[d] /\ BackendOf[d] \in Backend
      BY <1>1, <2>2, HarnessAssumption DEF TypeOK
    <3> QED BY <1>3, <3>1 DEF TypeOK
  <2> QED BY <2>1, <2>2
<1>6. \A b \in Backend : Default \in exists'[b] /\ deployed'[b] \subseteq exists'[b]
  BY <1>1, <1>3 DEF TypeOK
<1> QED BY <1>2, <1>5, <1>6 DEF WorldTypes

LEMMA DeleteTyped ==
  ASSUME TypeOK, NameInv, NEW t \in Unit, Deletes(t), UNCHANGED found
  PROVE  WorldTypes'
<1> DEFINE w == workspaceName(t)
<1>0. t \in Test
  BY DEF Unit
<1>1. /\ exists' = [exists EXCEPT ![Home(t)] = @ \ {w}]
      /\ selected' = selected /\ deployed' = deployed
      /\ selected[DirOf[t]] # w /\ w \notin deployed[Home(t)] /\ w \in Name \ {Default}
  BY <1>0, Places DEF Deletes, DeleteAccepted, TypeOK
<1>2. exists' \in [Backend -> SUBSET Name]
  BY <1>0, <1>1, Places DEF TypeOK
<1>3. \A b \in Backend : exists'[b] = IF b = Home(t) THEN exists[b] \ {w} ELSE exists[b]
  BY <1>0, <1>1, Places DEF TypeOK
<1>4. ASSUME NEW d \in Dir
      PROVE  selected'[d] \in exists'[BackendOf[d]]
  <2>1. selected[d] \in exists[BackendOf[d]] /\ BackendOf[d] \in Backend
    BY HarnessAssumption DEF TypeOK
  <2>2. CASE BackendOf[d] = Home(t) /\ selected[d] = w
    BY <1>1, <2>2, OwnOnly
  <2>3. CASE ~(BackendOf[d] = Home(t) /\ selected[d] = w)
    BY <1>1, <1>3, <2>1, <2>3
  <2> QED BY <2>2, <2>3
<1>5. \A b \in Backend : Default \in exists'[b] /\ deployed'[b] \subseteq exists'[b]
  BY <1>1, <1>3 DEF TypeOK
<1> QED BY <1>1, <1>2, <1>4, <1>5 DEF WorldTypes, TypeOK

LEMMA CleanTyped ==
  ASSUME TypeOK, Clean
  PROVE  WorldTypes'
<1>0. PICK part \in SUBSET Scope : Cleaned(part, runner # "harness")
  BY DEF Clean
<1> DEFINE local == {BackendOf[d] : d \in part} \cap Local
           whole == runner # "harness"
<1>1. /\ exists' = [b \in Backend |-> IF whole /\ b \in local THEN {Default} ELSE exists[b]]
      /\ deployed' = [b \in Backend |-> IF b \in local THEN {} ELSE deployed[b]]
      /\ selected' = [d \in Dir |-> IF d \in part THEN Default ELSE selected[d]]
      /\ found' = found
  BY <1>0 DEF Clean, Cleaned
<1>2. part \subseteq Dir
  BY RunAssumption DEF Scope, TypeOK
<1>3. selected' \in [Dir -> Name] /\ found' \in [Dir -> Name]
  BY <1>1, HarnessAssumption DEF TypeOK
<1>4. exists' \in [Backend -> SUBSET Name] /\ deployed' \in [Backend -> SUBSET Name]
  BY <1>1, HarnessAssumption DEF TypeOK
<1>5. \A b \in Backend : Default \in exists'[b] /\ deployed'[b] \subseteq exists'[b]
  BY <1>1 DEF TypeOK
<1>6. ASSUME NEW d \in Dir
      PROVE  selected'[d] \in exists'[BackendOf[d]]
  <2>1. BackendOf[d] \in Backend /\ selected[d] \in exists[BackendOf[d]]
    BY HarnessAssumption DEF TypeOK
  <2>2. CASE d \in part
    BY <1>1, <1>5, <2>1, <2>2
  <2>3. CASE d \notin part
    <3>1. BackendOf[d] \notin local
      BY <1>2, <2>3, DirsApart
    <3> QED BY <1>1, <2>1, <2>3, <3>1
  <2> QED BY <2>2, <2>3
<1> QED BY <1>3, <1>4, <1>5, <1>6 DEF WorldTypes

LEMMA WorkTyped ==
  ASSUME TypeOK, NEW d \in Dir, Work(d)
  PROVE  WorldTypes'
<1> DEFINE b == BackendOf[d]
<1>1. PICK w \in Human[b] \cup {selected[d]} :
        /\ selected' = [selected EXCEPT ![d] = w]
        /\ exists' = [exists EXCEPT ![b] = @ \cup {w}]
        /\ deployed' = [deployed EXCEPT ![b] = @ \cup {w}] \/ UNCHANGED deployed
  BY DEF Work
<1>2. w \in Name /\ b \in Backend /\ found' = found
  <2>1. b \in Backend
    BY HarnessAssumption
  <2>2. Human[b] \subseteq Name
    BY <2>1, RunAssumption
  <2> QED BY <2>1, <2>2 DEF TypeOK, Work
<1>3. selected' \in [Dir -> Name] /\ exists' \in [Backend -> SUBSET Name]
  BY <1>1, <1>2 DEF TypeOK
<1>4. deployed' \in [Backend -> SUBSET Name]
  BY <1>1, <1>2 DEF TypeOK
<1>5. \A c \in Backend : exists'[c] = IF c = b THEN exists[c] \cup {w} ELSE exists[c]
  BY <1>1, <1>2 DEF TypeOK
<1>6. \A c \in Backend : deployed'[c] \subseteq IF c = b THEN deployed[c] \cup {w} ELSE deployed[c]
  BY <1>1, <1>2 DEF TypeOK
<1>7. \A c \in Backend : Default \in exists'[c] /\ deployed'[c] \subseteq exists'[c]
  BY <1>5, <1>6 DEF TypeOK
<1>8. ASSUME NEW e \in Dir
      PROVE  selected'[e] \in exists'[BackendOf[e]]
  <2>1. BackendOf[e] \in Backend /\ selected[e] \in exists[BackendOf[e]]
    BY HarnessAssumption DEF TypeOK
  <2>2. selected'[e] = IF e = d THEN w ELSE selected[e]
    BY <1>1, <1>2 DEF TypeOK
  <2> QED BY <1>5, <2>1, <2>2
<1> QED BY <1>2, <1>3, <1>4, <1>7, <1>8 DEF WorldTypes, TypeOK

LEMMA WorldStep ==
  ASSUME TypeOK, RunningInv, NameInv, SelectInv, [Next]_vars
  PROVE  WorldTypes'
<1>0. WorldTypes
  BY DEF TypeOK, WorldTypes
<1>1. ASSUME NEW t \in Test, Moves(t)
      PROVE  WorldTypes'
  <2>1. CASE UNCHANGED world
    BY <1>0, <1>1, <2>1 DEF WorldTypes, world, Moves
  <2>2. CASE Selects(t)
    BY <1>1, <2>2, SelectTyped, Places DEF Selects, Moves, TypeOK
  <2>3. CASE Returns(t)
    BY <1>1, <2>3, SelectTyped DEF Returns, PutBack, Moves, TypeOK
  <2>4. CASE Deletes(t)
    BY <1>1, <2>4, DeleteTyped DEF Deletes, Moves
  <2> QED BY <1>1, <2>1, <2>2, <2>3, <2>4, ProcessWorld
<1>2. CASE StartRun
  BY <1>0, <1>2 DEF WorldTypes, StartRun, world
<1>3. CASE UNCHANGED <<world, found>>
  BY <1>0, <1>3 DEF WorldTypes, world
<1> QED BY <1>1, <1>2, <1>3, CleanTyped, WorkTyped, StepKinds
        DEF Quiet, Launch, GoTest, Wipe, vars, harnessVars, world

LEMMA TypeStep ==
  ASSUME TypeOK, RunningInv, NameInv, SelectInv, [Next]_vars
  PROVE  TypeOK'
<1>1. WorldTypes'
  BY WorldStep
<1>2. ProcessTypes' /\ start' \in [Test -> Name]
  <2>0. ProcessTypes /\ start \in [Test -> Name]
    BY DEF TypeOK, ProcessTypes
  <2>1. ASSUME NEW t \in Test, Moves(t)
        PROVE  ProcessTypes' /\ start' \in [Test -> Name]
    <3>1. start' = start \/ start' = [start EXCEPT ![t] = selected[DirOf[t]]]
      BY <2>1, ProcessWorld
    <3> QED BY <2>0, <2>1, <3>1, ProcessTyped, Places DEF TypeOK
  <2>2. CASE Launch
    BY <2>0, <2>2 DEF Launch, GoTest, ProcessTypes, Step
  <2>3. CASE StartRun
    BY <2>0, <2>3, HarnessAssumption DEF StartRun, ProcessTypes, Step
  <2>4. CASE UNCHANGED <<pc, failed, plan, checked, start>>
    BY <2>0, <2>4 DEF ProcessTypes
  <2> QED BY <2>1, <2>2, <2>3, <2>4, StepKinds DEF Quiet, Wipe, Clean, Work, vars, harnessVars
<1>3. run' \in 0..MaxRuns /\ runner' \in Runner
  <2>1. run' = run \/ (run < MaxRuns /\ run' = run + 1)
    BY StepKinds DEF Moves, Quiet, Launch, GoTest, Wipe, Clean, StartRun, Work, vars, harnessVars
  <2>2. run \in 0..MaxRuns /\ MaxRuns \in Nat
    BY HarnessAssumption DEF TypeOK
  <2> QED BY <2>1, <2>2, RunnerStays DEF TypeOK
<1>4. result' \in [Target(runner) -> {"todo", "running", "ok", "failed"}]
  <2>1. ASSUME NEW o \in {"running", "ok", "failed"}, Becomes(o)
        PROVE  result' \in [Target(runner) -> {"todo", "running", "ok", "failed"}]
    BY <2>1 DEF Becomes, TypeOK
  <2>2. CASE StartRun
    BY <2>2 DEF StartRun, Todo
  <2>3. CASE UNCHANGED result
    BY <2>3 DEF TypeOK
  <2> QED BY <2>1, <2>2, <2>3, StepKinds DEF Moves, Quiet, Launch, Wipe, Clean, Work, mageVars, vars
<1>5. unformatted' \subseteq SourceKind /\ rewritten' \subseteq SourceKind
  <2>1. ASSUME NEW cmd \in {"go fmt", "terraform fmt"}, Lint(cmd)
        PROVE  unformatted' \subseteq SourceKind /\ rewritten' \subseteq SourceKind
    BY <2>1 DEF Lint, TypeOK
  <2>2. CASE StartRun
    BY <2>2 DEF StartRun, TypeOK
  <2>3. CASE UNCHANGED <<unformatted, rewritten>>
    BY <2>3 DEF TypeOK
  <2> QED BY <2>1, <2>2, <2>3
          DEF Next, Proceed, Clean, GroupDone, Group, LintCheck, RunTestHarnessUnitTests, TargetFails,
              StartTests, EndTests, Tests, Interrupt, Work, vars, mageVars
<1> QED BY <1>1, <1>2, <1>3, <1>4, <1>5, RunnerStays DEF WorldTypes, ProcessTypes, TypeOK

LEMMA NamesApart ==
  ASSUME run \in 0..MaxRuns, NEW t \in Test, NEW n \in 0..MaxRuns, NEW u \in Test,
         RandomName[t][n] = workspaceName(u)
  PROVE  u = t /\ n = run
BY NamesUnique DEF workspaceName

\* What a directory and a backend hold after a step of a process was there
\* before, but for what the process selects.
LEMMA WorldGrows ==
  ASSUME TypeOK, SelectInv, NEW t \in Test, Moves(t)
  PROVE  /\ \A b \in Backend : \A w \in exists'[b] :
              \/ w \in exists[b]
              \/ Returns(t) /\ b = Home(t) /\ w = start[t]
              \/ Selects(t) /\ b = Home(t) /\ w = workspaceName(t)
         /\ \A d \in Dir : \/ selected'[d] = selected[d]
                           \/ Returns(t) /\ d = DirOf[t] /\ selected'[d] = start[t]
                           \/ Selects(t) /\ d = DirOf[t] /\ selected'[d] = workspaceName(t)
         /\ deployed' = deployed
<1>1. CASE UNCHANGED world
  BY <1>1 DEF world
<1>2. CASE Selects(t)
  BY <1>2, Places DEF Selects, SelectOrNew, TypeOK
<1>3. CASE Returns(t)
  BY <1>3, Places DEF Returns, PutBack, SelectOrNew, TypeOK
<1>4. CASE Deletes(t)
  BY <1>4, Places DEF Deletes, TypeOK, Unit
<1> QED BY <1>1, <1>2, <1>3, <1>4, ProcessWorld

LEMMA OnlyInitialize ==
  ASSUME TypeOK, NEW t \in Test, Moves(t), pc'[t] = "initialized"
  PROVE  pc[t] = "started"
BY DEF Moves, TestStep, Initialize, SelectOwn, MakePlan, CheckPlan, Restore, DeleteOwn, CheckOutput,
       CommandFails, Killed, Goes, TypeOK

LEMMA NameMoves ==
  ASSUME TypeOK, NameInv, SelectInv, NEW t \in Test, Moves(t)
  PROVE  NameInv'
<1>0. run' = run /\ run \in 0..MaxRuns /\ (Between' <=> Between)
  BY SameTargets DEF Moves, mageVars, TypeOK
<1>1. ASSUME NEW u \in Unit, NEW n \in 0..MaxRuns
      PROVE  /\ \A b \in Backend : RandomName[u][n] \in exists'[b] => b = Home(u) /\ n <= run
             /\ \A d \in Dir : RandomName[u][n] = selected'[d] => d = DirOf[u]
  <2>1. u \in Test
    BY DEF Unit
  <2>2. RandomName[u][n] = start[t] => Home(t) = Home(u) /\ DirOf[t] = DirOf[u] /\ n <= run
    BY DEF NameInv, Home
  <2>3. RandomName[u][n] = workspaceName(t) => t = u /\ n <= run
    BY <1>0, <2>1, NamesApart
  <2> QED BY <2>2, <2>3, WorldGrows DEF NameInv
<1>2. ASSUME NEW u \in Unit, NEW n \in 0..MaxRuns, NEW v \in Test, RandomName[u][n] = start'[v]
      PROVE  DirOf[v] = DirOf[u] /\ n <= run
  <2>1. CASE start'[v] = start[v]
    BY <1>2, <2>1 DEF NameInv
  <2>2. CASE start'[v] # start[v]
    <3>1. v = t /\ start'[v] = selected[DirOf[v]]
      BY <2>2, ProcessWorld DEF TypeOK
    <3>2. RandomName[u][n] \in exists[Home(v)]
      BY <1>2, <3>1, Places DEF TypeOK, Home
    <3> QED BY <1>2, <3>1, <3>2, Places DEF NameInv
  <2> QED BY <2>1, <2>2
<1>3. ASSUME NEW u \in Unit, NEW b \in Backend, Early(u)', RandomName[u][run] \in exists'[b]
      PROVE  FALSE
  <2>1. u \in Test
    BY DEF Unit
  <2>2. CASE u = t
    <3>1. pc'[t] = "initialized"
      BY <1>3, <2>2 DEF Moves, Early
    <3>2. Early(t) /\ ~Returns(t) /\ ~Selects(t)
      BY <3>1, OnlyInitialize DEF Returns, Selects, Early
    <3> QED BY <1>3, <2>2, <3>2, WorldGrows DEF NameInv
  <2>3. CASE u # t
    <3>1. Early(u)
      BY <1>3, <2>1, <2>3 DEF Moves, Early
    <3>2. RandomName[u][run] \notin exists[b] /\ RandomName[u][run] # workspaceName(t)
      BY <1>0, <2>1, <2>3, <3>1, NamesApart DEF NameInv
    <3>3. Returns(t) /\ RandomName[u][run] = start[t]
      BY <1>3, <3>2, WorldGrows
    <3>4. t \in Unit /\ DirOf[t] = DirOf[u]
      BY <1>0, <3>3 DEF Returns, NameInv
    <3> QED BY <2>1, <2>3, <3>4, PathsAssumption DEF Unit
  <2> QED BY <2>2, <2>3
<1>4. ASSUME NEW u \in Unit
      PROVE  RandomName[u][run] # start'[u]
  <2>1. CASE start'[u] = start[u]
    BY <2>1, Places DEF NameInv, Unit
  <2>2. CASE start'[u] # start[u]
    <3>1. u = t /\ pc[t] = "started" /\ start'[u] = selected[DirOf[u]]
      BY <2>2, ProcessWorld DEF TypeOK, Unit
    <3>2. RandomName[u][run] \notin exists[Home(u)]
      BY <3>1, Places DEF NameInv, Early
    <3> QED BY <3>1, <3>2, Places DEF TypeOK, Home
  <2> QED BY <2>1, <2>2
<1>5. ASSUME NEW u \in Unit, NEW b \in Backend, ~Between'
      PROVE  RandomName[u][run] \notin deployed'[b]
  BY <1>0, <1>5, WorldGrows DEF NameInv
<1> QED BY <1>0, <1>1, <1>2, <1>3, <1>4, <1>5 DEF NameInv

\* Nothing new is selected or deployed.
LEMMA NameShrinks ==
  ASSUME TypeOK, NameInv, UNCHANGED <<run, start>>,
         \A b \in Backend : exists'[b] \subseteq exists[b] /\ deployed'[b] \subseteq deployed[b],
         \A d \in Dir : selected'[d] \in {selected[d], Default},
         \A t \in Test : Early(t)' => Early(t),
         ~Between' => ~Between
  PROVE  NameInv'
<1>1. ASSUME NEW u \in Unit, NEW n \in 0..MaxRuns
      PROVE  /\ \A b \in Backend : RandomName[u][n] \in exists'[b] => b = Home(u) /\ n <= run
             /\ \A d \in Dir : RandomName[u][n] = selected'[d] => d = DirOf[u]
             /\ \A v \in Test : RandomName[u][n] = start'[v] => DirOf[v] = DirOf[u] /\ n <= run
  BY NamesUnique DEF NameInv, Unit
<1>2. ASSUME NEW u \in Unit, NEW b \in Backend
      PROVE  /\ Early(u)' => RandomName[u][run] \notin exists'[b]
             /\ RandomName[u][run] # start'[u]
             /\ ~Between' => RandomName[u][run] \notin deployed'[b]
  BY DEF NameInv, Unit
<1> QED BY <1>1, <1>2 DEF NameInv

LEMMA CleanShrinks ==
  ASSUME TypeOK, Clean
  PROVE  /\ \A b \in Backend : exists'[b] \subseteq exists[b] /\ deployed'[b] \subseteq deployed[b]
         /\ \A d \in Dir : selected'[d] \in {selected[d], Default}
BY DEF Clean, Cleaned, TypeOK

LEMMA NameStartRun ==
  ASSUME TypeOK, NameInv, StartRun
  PROVE  NameInv'
<1>0. run \in Nat /\ run < MaxRuns /\ run' = run + 1 /\ run' \in 0..MaxRuns
  BY HarnessAssumption DEF StartRun, TypeOK
<1>1. UNCHANGED world /\ \A t \in Test : start'[t] = Default
  BY DEF StartRun
<1>2. ASSUME NEW u \in Unit, NEW n \in 0..MaxRuns
      PROVE  /\ \A b \in Backend : RandomName[u][n] \in exists'[b] => b = Home(u) /\ n <= run'
             /\ \A d \in Dir : RandomName[u][n] = selected'[d] => d = DirOf[u]
             /\ \A v \in Test : RandomName[u][n] = start'[v] => DirOf[v] = DirOf[u] /\ n <= run'
  <2>1. RandomName[u][n] # Default
    BY NamesUnique DEF Unit
  <2>2. n <= run => n <= run'
    BY <1>0
  <2> QED BY <1>1, <2>1, <2>2 DEF NameInv, world
<1>3. ASSUME NEW u \in Unit, NEW b \in Backend
      PROVE  RandomName[u][run'] \notin exists'[b] \cup deployed'[b] \cup {start'[u]}
  <2>1. RandomName[u][run'] # Default
    BY <1>0, NamesUnique DEF Unit
  <2>2. ~(run' <= run)
    BY <1>0
  <2>3. RandomName[u][run'] \notin exists[b]
    BY <1>0, <2>2 DEF NameInv
  <2> QED BY <1>1, <2>1, <2>3 DEF TypeOK, world, Unit
<1> QED BY <1>2, <1>3 DEF NameInv

LEMMA WorkAdds ==
  ASSUME TypeOK, NEW d \in Dir, Work(d)
  PROVE  /\ \A b \in Backend : \A w \in exists'[b] :
              w \in exists[b] \/ w \in Human[b]
         /\ \A e \in Dir \ {d} : selected'[e] = selected[e]
         /\ selected'[d] = selected[d] \/ selected'[d] \in Human[BackendOf[d]]
<1>1. PICK w \in Human[BackendOf[d]] \cup {selected[d]} :
        /\ selected' = [selected EXCEPT ![d] = w]
        /\ exists' = [exists EXCEPT ![BackendOf[d]] = @ \cup {w}]
  BY DEF Work
<1> QED BY <1>1, HarnessAssumption DEF TypeOK

LEMMA NameWork ==
  ASSUME TypeOK, NameInv, NEW d \in Dir, Work(d)
  PROVE  NameInv'
<1>0. run' = run /\ run \in 0..MaxRuns /\ start' = start /\ pc' = pc /\ BackendOf[d] \in Backend
  BY HarnessAssumption DEF Work, TypeOK
<1>1. Between'
  BY SameTargets DEF Work, mageVars
<1>2. ASSUME NEW u \in Unit, NEW n \in 0..MaxRuns
      PROVE  /\ \A b \in Backend : RandomName[u][n] \in exists'[b] => b = Home(u) /\ n <= run
             /\ \A e \in Dir : RandomName[u][n] = selected'[e] => e = DirOf[u]
             /\ \A v \in Test : RandomName[u][n] = start'[v] => DirOf[v] = DirOf[u] /\ n <= run
  <2>1. \A b \in Backend : RandomName[u][n] \notin Human[b]
    BY RunAssumption DEF Unit
  <2> QED BY <1>0, <2>1, WorkAdds DEF NameInv
<1>3. ASSUME NEW u \in Unit, NEW b \in Backend
      PROVE  /\ Early(u)' => RandomName[u][run] \notin exists'[b]
             /\ RandomName[u][run] # start'[u]
  <2>1. RandomName[u][run] \notin Human[b]
    BY <1>0, RunAssumption DEF Unit
  <2> QED BY <1>0, <2>1, WorkAdds DEF NameInv, Early
<1> QED BY <1>0, <1>1, <1>2, <1>3 DEF NameInv

LEMMA NameStep ==
  ASSUME TypeOK, RunningInv, StartedInv, NameInv, SelectInv, [Next]_vars
  PROVE  NameInv'
<1>1. ~Between' => ~Between \/ StartRun
  BY BetweenStays
<1>2. CASE Launch
  <2>1. \A t \in Test : Early(t)' => Early(t)
    BY <1>2, LaunchStays, NotStarted DEF Early, Launch
  <2> QED BY <1>2, <2>1, LaunchStays, NameShrinks DEF world, Launch
<1>3. CASE Wipe
  BY <1>3, CleanShrinks, NameShrinks DEF Wipe, Clean, Early
<1>4. CASE UNCHANGED <<world, run, start, pc>> /\ ~StartRun
  BY <1>1, <1>4, NameShrinks DEF world, Early
<1>5. ASSUME NEW o, Quiet(o)
      PROVE  UNCHANGED <<world, run, start, pc>> /\ ~StartRun
  BY <1>5 DEF Quiet, harnessVars, world, StartRun
<1>6. StartRun \/ ~StartRun
  OBVIOUS
<1> QED BY <1>2, <1>3, <1>4, <1>5, <1>6, NameMoves, NameStartRun, NameWork, StepKinds
        DEF vars, harnessVars, world

\* Two unit tests that share a backend use different names.
LEMMA OtherName ==
  ASSUME run \in 0..MaxRuns, NEW t \in Unit, NEW u \in Unit, t # u, Home(t) = Home(u)
  PROVE  /\ DirOf[t] # DirOf[u] /\ t \in Named /\ u \in Named
         /\ workspaceName(t) = RandomName[t][run] /\ workspaceName(u) = RandomName[u][run]
         /\ workspaceName(t) # workspaceName(u)
<1>1. DirOf[t] # DirOf[u] /\ t \in Test /\ u \in Test
  BY PathsAssumption DEF Unit
<1>2. Home(t) \notin Local
  BY <1>1, DirsApart, Places DEF Home
<1>3. t \in Named /\ u \in Named
  BY <1>2, DirsApart DEF Home, Unit
<1> QED BY <1>1, <1>3, NamesUnique DEF workspaceName

\* The steps of a unit test.
LEMMA Turns ==
  ASSUME TypeOK, SelectInv, NEW t \in Unit, Moves(t)
  PROVE  \/ /\ pc[t] = "started" /\ pc'[t] = "initialized" /\ UNCHANGED world
            /\ start' = [start EXCEPT ![t] = selected[DirOf[t]]]
         \/ /\ pc'[t] = "selected" /\ Selects(t) /\ start' = start
         \/ /\ pc'[t] \in {"planned", "checked", "unwinding"} /\ Late(t) /\ UNCHANGED <<world, start>>
         \/ /\ pc'[t] = "restored" /\ pc[t] \in {"checked", "unwinding"} /\ start' = start
            /\ Returns(t) \/ (UNCHANGED world /\ failed'[t])
         \/ /\ pc'[t] = "over" /\ start' = start
            /\ \/ Deletes(t) /\ (failed[t] => failed'[t])
               \/ failed'[t] /\ (UNCHANGED world \/ Selects(t))
         \/ pc'[t] = "killed" /\ UNCHANGED <<world, start>>
<1>0. t \in Test /\ t \notin Integration
  BY DEF Unit
<1>1. CASE Initialize(t)
  BY <1>0, <1>1 DEF Initialize, Goes, TypeOK, world
<1>2. CASE SelectOwn(t)
  BY <1>0, <1>2 DEF SelectOwn, Selects, Goes, TypeOK
<1>3. CASE MakePlan(t)
  BY <1>0, <1>3 DEF MakePlan, Goes, TypeOK, Late
<1>4. CASE CheckPlan(t)
  BY <1>0, <1>4 DEF CheckPlan, Goes, TypeOK, Late
<1>5. CASE Restore(t)
  BY <1>0, <1>5 DEF Restore, Returns, Goes, TypeOK
<1>6. CASE DeleteOwn(t)
  <2>1. pc'[t] = "over" /\ pc[t] = "restored" /\ UNCHANGED <<selected, start>>
    BY <1>0, <1>6 DEF DeleteOwn, Goes, TypeOK
  <2>2. failed'[t] = (failed[t] \/ ~DeleteAccepted(t, workspaceName(t)))
    BY <1>0, <1>6 DEF DeleteOwn, TypeOK
  <2>3. UNCHANGED world \/ Deletes(t)
    BY <1>0, <2>1, ProcessWorld DEF Selects, Returns
  <2>4. CASE DeleteAccepted(t, workspaceName(t))
    <3>1. exists' = [exists EXCEPT ![Home(t)] = @ \ {workspaceName(t)}]
      BY <1>6, <2>4 DEF DeleteOwn
    <3>2. exists'[Home(t)] # exists[Home(t)]
      BY <1>0, <2>4, <3>1, Places DEF TypeOK, DeleteAccepted
    <3> QED BY <2>1, <2>2, <2>3, <3>2 DEF world
  <2>5. CASE ~DeleteAccepted(t, workspaceName(t))
    BY <2>1, <2>2, <2>3, <2>5 DEF Deletes
  <2> QED BY <2>4, <2>5
<1>7. CASE CommandFails(t)
  BY <1>0, <1>7 DEF CommandFails, Selects, Returns, Goes, Fatal, TypeOK, Late
<1>8. CASE Killed(t)
  BY <1>0, <1>8 DEF Killed, Goes, TypeOK
<1> QED BY <1>0, <1>1, <1>2, <1>3, <1>4, <1>5, <1>6, <1>7, <1>8 DEF Moves, TestStep, CheckOutput

\* No process runs between runs.
LEMMA RunsInRun ==
  ASSUME TypeOK, RunningInv, NEW t \in Test, Running(t)
  PROVE  ~Between
BY CurrentFacts DEF RunningInv, TypeOK

\* SelectInv for one directory, for one unit test and for one integration test.
SelectDir(d) ==
  ~Between /\ (\A t \in Unit : DirOf[t] = d => Early(t)) => selected[d] = Basis(d)

SelectUnit(t) ==
  /\ Running(t) /\ pc[t] # "started" => start[t] = Basis(DirOf[t])
  /\ Late(t) => selected[DirOf[t]] = workspaceName(t)
  /\ pc[t] = "restored" /\ ~failed[t] =>
       selected[DirOf[t]] = Basis(DirOf[t]) /\ workspaceName(t) \in exists[Home(t)]
  /\ Passed(t) /\ ~Between =>
       selected[DirOf[t]] = Basis(DirOf[t]) /\ workspaceName(t) \notin exists[Home(t)]

LEMMA SelectParts ==
  SelectInv <=> /\ \A d \in Dir : SelectDir(d)
                /\ \A t \in Unit : SelectUnit(t)
                /\ \A t \in Integration : Early(t) \/ pc[t] \in {"over", "killed"}
BY DEF SelectInv, SelectDir, SelectUnit, PassedLeavesNoTrace, Unit

LEMMA SelectPartsNext ==
  SelectInv' <=> /\ \A d \in Dir : SelectDir(d)'
                 /\ \A t \in Unit : SelectUnit(t)'
                 /\ \A t \in Integration : (Early(t) \/ pc[t] \in {"over", "killed"})'
BY DEF SelectInv, SelectDir, SelectUnit, PassedLeavesNoTrace, Unit

\* Cleaning is over when the first test has been started.
LEMMA CleansNoMore ==
  ASSUME TypeOK, StartedInv, CleanFirst, Wipe
  PROVE  \A t \in Test : pc[t] = "idle"
<1>1. Current \in Target(runner) /\ Body(Current) = "clean" /\ result[Current] = "todo"
  BY Wiping, CurrentFacts DEF Due, TypeOK
<1>2. runner # "unit"
  BY <1>1, UnitOnly
<1> QED BY <1>1, <1>2 DEF StartedInv, CleanFirst

\* Only cleaning and a new run change where tests start from.
LEMMA BasisKept ==
  ASSUME TypeOK, UNCHANGED <<found, runner>>, DOMAIN result' = Target(runner),
         \A x \in Target(runner) : Body(x) = "clean" => (result'[x] = "ok" <=> result[x] = "ok")
  PROVE  \A d \in Dir : Basis(d)' = Basis(d)
<1>1. Scope' = Scope /\ DOMAIN result = Target(runner)
  BY DEF Scope, TypeOK
<1>2. Wiped' = Wiped
  BY <1>1 DEF Wiped
<1> QED BY <1>2 DEF Basis

LEMMA BasisStays ==
  ASSUME TypeOK,
         \/ \E t \in Test : Moves(t)
         \/ \E o \in {"ok", "failed"} : Quiet(o)
         \/ Launch
         \/ UNCHANGED vars
  PROVE  \A d \in Dir : Basis(d)' = Basis(d)
<1>1. ASSUME UNCHANGED <<found, runner, result>>
      PROVE  \A d \in Dir : Basis(d)' = Basis(d)
  BY <1>1, BasisKept DEF TypeOK
<1>2. ASSUME NEW o, Becomes(o), UNCHANGED <<found, runner>>, Body(Current) # "clean"
      PROVE  \A d \in Dir : Basis(d)' = Basis(d)
  <2>1. DOMAIN result' = Target(runner)
    BY <1>2 DEF Becomes, TypeOK
  <2> QED BY <1>2, <2>1, Outcome, BasisKept
<1>3. CASE Launch
  BY <1>2, <1>3 DEF Launch, Suffix
<1> QED BY <1>1, <1>2, <1>3 DEF Moves, Quiet, vars, mageVars

LEMMA BasisStarted ==
  ASSUME StartRun
  PROVE  \A d \in Dir : selected'[d] = Basis(d)'
<1>1. Wiped' = {}
  BY DEF StartRun, Todo, Wiped
<1> QED BY <1>1 DEF Basis, StartRun, world

LEMMA BasisWiped ==
  ASSUME TypeOK, StartedInv, CleanFirst, SelectInv, Wipe, ~Between'
  PROVE  \A d \in Dir : selected'[d] = Basis(d)'
<1>1. PICK o \in {"ok", "failed"}, part \in SUBSET Scope :
        /\ Becomes(o) /\ Cleaned(part, runner # "harness")
        /\ o = "ok" => part = Scope
  BY Wiping
<1>2. /\ Current \in DOMAIN result' /\ result'[Current] = o
      /\ Body(Current) = "clean" /\ UNCHANGED <<runner, found>> /\ Scope' = Scope
  BY <1>1, Wiping, Outcome DEF Becomes, TypeOK, Due, Scope
<1>3. o = "ok"
  BY <1>1, <1>2 DEF Between, Ended, Aborted
<1>4. Wiped' = Scope
  BY <1>2, <1>3 DEF Wiped
<1>5. \A d \in Dir : selected'[d] = IF d \in Scope THEN Default ELSE selected[d]
  BY <1>1, <1>3 DEF Cleaned
<1>6. \A d \in Dir : selected[d] = Basis(d)
  BY CleansNoMore, Wiping DEF SelectInv, Early, Unit
<1>7. \A d \in Dir \ Scope : Basis(d) = found[d]
  BY DEF Basis, Wiped
<1> QED BY <1>2, <1>4, <1>5, <1>6, <1>7 DEF Basis

LEMMA SelectMoves ==
  ASSUME TypeOK, RunningInv, NameInv, SelectInv, NEW t \in Test, Moves(t)
  PROVE  SelectInv'
<1>0. /\ run' = run /\ run \in 0..MaxRuns /\ (Between' <=> Between) /\ ~Between
      /\ \A d \in Dir : Basis(d)' = Basis(d)
      /\ \A u \in Test : workspaceName(u)' = workspaceName(u) /\ DirOf[u] \in Dir
  BY SameTargets, RunsInRun, BasisStays, Places DEF Moves, mageVars, TypeOK, workspaceName
<1>1. ASSUME NEW d \in Dir
      PROVE  SelectDir(d)'
  <2> SUFFICES ASSUME \A u \in Unit : DirOf[u] = d => Early(u)'
               PROVE  selected'[d] = Basis(d)
    BY <1>0 DEF SelectDir
  <2>1. selected'[d] = selected[d]
    <3>1. CASE t \in Unit /\ DirOf[t] = d
      <4>1. pc'[t] = "initialized"
        BY <3>1 DEF Moves, Early
      <4>2. pc[t] = "started"
        BY <4>1, OnlyInitialize
      <4> QED BY <4>1, <4>2, WorldGrows DEF Selects, Returns
    <3>2. CASE ~(t \in Unit /\ DirOf[t] = d)
      BY <3>2, WorldGrows DEF Selects, Returns
    <3> QED BY <3>1, <3>2
  <2>2. ASSUME NEW u \in Unit, DirOf[u] = d
        PROVE  Early(u)
    <3>1. CASE u = t
      <4>1. pc'[t] = "initialized"
        BY <2>2, <3>1 DEF Moves, Early
      <4> QED BY <3>1, <4>1, OnlyInitialize DEF Early
    <3>2. CASE u # t
      BY <2>2, <3>2 DEF Moves, Early, Unit
    <3> QED BY <3>1, <3>2
  <2> QED BY <1>0, <2>1, <2>2, SelectParts DEF SelectDir
<1>2. ASSUME NEW u \in Unit, u # t
      PROVE  SelectUnit(u)'
  <2>0. u \in Test /\ SelectUnit(u)
    BY SelectParts DEF Unit
  <2>1. UNCHANGED <<pc[u], failed[u], start[u]>>
    BY <1>2, <2>0 DEF Moves
  <2>2. selected'[DirOf[u]] = selected[DirOf[u]]
    <3>1. t \in Unit => DirOf[t] # DirOf[u]
      BY <1>2, PathsAssumption DEF Unit
    <3> QED BY <2>0, <3>1, WorldGrows, Places DEF Selects, Returns
  <2>3. workspaceName(u) \in exists'[Home(u)] <=> workspaceName(u) \in exists[Home(u)]
    <3>1. CASE UNCHANGED exists
      BY <3>1
    <3>2. ASSUME NEW w, w # workspaceName(u) \/ Home(t) # Home(u),
                 exists' = [exists EXCEPT ![Home(t)] = @ \cup {w}]
                 \/ exists' = [exists EXCEPT ![Home(t)] = @ \ {w}]
          PROVE  workspaceName(u) \in exists'[Home(u)] <=> workspaceName(u) \in exists[Home(u)]
      BY <2>0, <3>2, Places DEF TypeOK
    <3>3. CASE Selects(t)
      BY <1>0, <1>2, <3>2, <3>3, OtherName DEF Selects, SelectOrNew
    <3>4. CASE Deletes(t)
      BY <1>0, <1>2, <3>2, <3>4, OtherName DEF Deletes
    <3>5. CASE Returns(t)
      <4>1. start[t] # workspaceName(u) \/ Home(t) # Home(u)
        BY <1>0, <1>2, <3>5, OtherName DEF Returns, NameInv
      <4> QED BY <3>2, <3>5, <4>1 DEF Returns, PutBack, SelectOrNew
    <3> QED BY <3>1, <3>3, <3>4, <3>5, ProcessWorld DEF world
  <2> QED BY <1>0, <2>0, <2>1, <2>2, <2>3 DEF SelectUnit, Running, Late, Passed
<1>3. ASSUME t \in Unit
      PROVE  SelectUnit(t)'
  <2>0. SelectUnit(t) /\ Running(t) /\ DirOf[t] \in Dir /\ Home(t) \in Backend
        /\ workspaceName(t)' = workspaceName(t) /\ workspaceName(t) \in Name
    BY <1>0, <1>3, SelectParts, Places DEF Moves
  <2>1. CASE pc[t] = "started" /\ pc'[t] = "initialized" /\ start' = [start EXCEPT ![t] = selected[DirOf[t]]]
    <3>1. selected[DirOf[t]] = Basis(DirOf[t])
      <4>1. \A u \in Unit : DirOf[u] = DirOf[t] => Early(u)
        BY <1>3, <2>1, PathsAssumption DEF Unit, Early
      <4> QED BY <1>0, <2>0, <4>1, SelectParts DEF SelectDir
    <3> QED BY <1>0, <2>1, <3>1 DEF SelectUnit, Late, Passed, TypeOK
  <2>2. CASE pc'[t] = "selected" /\ Selects(t) /\ start' = start
    <3>1. selected'[DirOf[t]] = workspaceName(t)
      BY <2>0, <2>2 DEF Selects, SelectOrNew, TypeOK
    <3> QED BY <1>0, <2>0, <2>2, <3>1 DEF SelectUnit, Late, Passed, Selects
  <2>3. CASE pc'[t] \in {"planned", "checked", "unwinding"} /\ Late(t) /\ UNCHANGED <<world, start>>
    BY <1>0, <2>0, <2>3 DEF SelectUnit, Late, Passed, world
  <2>4. CASE /\ pc'[t] = "restored" /\ pc[t] \in {"checked", "unwinding"} /\ start' = start
             /\ Returns(t) \/ (UNCHANGED world /\ failed'[t])
    <3>1. start[t] = Basis(DirOf[t]) /\ selected[DirOf[t]] = workspaceName(t)
      BY <2>0, <2>4 DEF SelectUnit, Late
    <3>2. Returns(t) => selected'[DirOf[t]] = start[t] /\ workspaceName(t) \in exists'[Home(t)]
      <4>1. workspaceName(t) \in exists[Home(t)]
        BY <2>0, <3>1 DEF TypeOK, Home
      <4> QED BY <2>0, <4>1 DEF Returns, PutBack, SelectOrNew, TypeOK
    <3> QED BY <1>0, <2>0, <2>4, <3>1, <3>2 DEF SelectUnit, Late, Passed
  <2>5. CASE /\ pc'[t] = "over" /\ start' = start
             /\ \/ Deletes(t) /\ (failed[t] => failed'[t])
                \/ failed'[t] /\ (UNCHANGED world \/ Selects(t))
    <3>1. ASSUME Deletes(t), ~failed[t]
          PROVE  selected'[DirOf[t]] = Basis(DirOf[t]) /\ workspaceName(t) \notin exists'[Home(t)]
      BY <2>0, <3>1 DEF SelectUnit, Deletes, TypeOK
    <3> QED BY <1>0, <2>0, <2>5, <3>1 DEF SelectUnit, Late, Passed, Running
  <2>6. CASE pc'[t] = "killed" /\ UNCHANGED <<world, start>>
    BY <1>0, <2>6 DEF SelectUnit, Late, Passed, Running
  <2> QED BY <1>3, <2>1, <2>2, <2>3, <2>4, <2>5, <2>6, Turns
<1>4. ASSUME NEW u \in Integration
      PROVE  (Early(u) \/ pc[u] \in {"over", "killed"})'
  <2>0. u \in Test /\ (Early(u) \/ pc[u] \in {"over", "killed"})
    BY HarnessAssumption DEF SelectInv
  <2>1. CASE u # t
    BY <2>0, <2>1 DEF Moves, Early
  <2>2. CASE u = t
    <3>1. pc[t] \in {"started", "initialized"}
      BY <2>0, <2>2 DEF Moves, Running, Early
    <3> QED BY <1>4, <2>2, <3>1
            DEF Moves, TestStep, Initialize, SelectOwn, MakePlan, CheckPlan, Restore, DeleteOwn,
                CheckOutput, CommandFails, Killed, Goes, TypeOK, Early
  <2> QED BY <2>1, <2>2
<1> QED BY <1>1, <1>2, <1>3, <1>4, SelectPartsNext

LEMMA SelectStep ==
  ASSUME TypeOK, RunningInv, StartedInv, CleanFirst, NameInv, SelectInv, [Next]_vars
  PROVE  SelectInv'
<1>1. ~Between' => ~Between \/ StartRun
  BY BetweenStays
<1>2. CASE Launch
  <2>0. /\ UNCHANGED <<selected, exists, run, start>> /\ ~Between
        /\ \A d \in Dir : Basis(d)' = Basis(d)
        /\ \A t \in Test : workspaceName(t)' = workspaceName(t) /\ DirOf[t] \in Dir
    BY <1>2, LaunchStays, BasisStays, Places DEF world, Launch, workspaceName
  <2>1. \A t \in Test : Early(t)' => Early(t)
    BY <1>2, LaunchStays, NotStarted DEF Early, Launch
  <2>2. \A t \in Test : pc'[t] = "started" \/ (pc'[t] = pc[t] /\ failed'[t] = failed[t])
    BY <1>2, LaunchStays
  <2>3. ASSUME NEW d \in Dir
        PROVE  SelectDir(d)'
    BY <2>0, <2>1, SelectParts DEF SelectDir, Unit
  <2>4. ASSUME NEW t \in Unit
        PROVE  SelectUnit(t)'
    <3>1. t \in Test /\ SelectUnit(t)
      BY SelectParts DEF Unit
    <3> QED BY <2>0, <2>2, <3>1 DEF SelectUnit, Running, Late, Passed
  <2>5. ASSUME NEW t \in Integration
        PROVE  (Early(t) \/ pc[t] \in {"over", "killed"})'
    BY <2>2, HarnessAssumption DEF SelectInv, Early
  <2> QED BY <2>3, <2>4, <2>5, SelectPartsNext
<1>3. ASSUME UNCHANGED <<pc, failed, run>>, \A t \in Test : ~Running(t),
             ~Between' => /\ \A d \in Dir : selected'[d] = Basis(d)'
                          /\ ~Between /\ \A b \in Backend : exists'[b] \subseteq exists[b]
      PROVE  SelectInv'
  <2>0. \A t \in Test : workspaceName(t)' = workspaceName(t)
    BY <1>3 DEF workspaceName
  <2>1. ASSUME NEW d \in Dir
        PROVE  SelectDir(d)'
    BY <1>3 DEF SelectDir
  <2>2. ASSUME NEW t \in Unit
        PROVE  SelectUnit(t)'
    <3>1. t \in Test /\ SelectUnit(t) /\ ~Running(t)
      BY <1>3, SelectParts DEF Unit
    <3> QED BY <1>3, <2>0, <3>1, Places DEF SelectUnit, Running, Late, Passed
  <2>3. \A t \in Integration : (Early(t) \/ pc[t] \in {"over", "killed"})'
    BY <1>3 DEF SelectInv, Early
  <2> QED BY <2>1, <2>2, <2>3, SelectPartsNext
<1>4. CASE Wipe
  <2>1. \A t \in Test : ~Running(t)
    BY <1>4, Wiping, NoneRunning DEF Due
  <2> QED BY <1>3, <1>4, <2>1, Wiping, CleanShrinks, BasisWiped DEF Wipe
<1>5. ASSUME NEW d \in Dir, Work(d)
      PROVE  SelectInv'
  <2>1. \A t \in Test : ~Running(t)
    BY <1>5, RunsInRun DEF Work
  <2>2. Between'
    BY <1>5, SameTargets DEF Work, mageVars
  <2> QED BY <1>3, <1>5, <2>1, <2>2 DEF Work
<1>6. CASE StartRun
  BY <1>6, BasisStarted, HarnessAssumption
     DEF StartRun, world, SelectInv, PassedLeavesNoTrace, Running, Late, Passed, Early, Unit
<1>7. ASSUME UNCHANGED harnessVars, ~StartRun, \A d \in Dir : Basis(d)' = Basis(d)
      PROVE  SelectInv'
  <2>0. \A t \in Test : workspaceName(t)' = workspaceName(t) /\ DirOf[t] \in Dir
    BY <1>7, Places DEF workspaceName, harnessVars
  <2>1. \A d \in Dir : SelectDir(d)'
    BY <1>1, <1>7, SelectParts DEF SelectDir, Early, harnessVars
  <2>2. ASSUME NEW t \in Unit
        PROVE  SelectUnit(t)'
    <3>1. SelectUnit(t) /\ t \in Test
      BY SelectParts DEF Unit
    <3> QED BY <1>1, <1>7, <2>0, <3>1 DEF SelectUnit, Running, Late, Passed, harnessVars
  <2>3. \A t \in Integration : (Early(t) \/ pc[t] \in {"over", "killed"})'
    BY <1>7 DEF SelectInv, Early, harnessVars
  <2> QED BY <2>1, <2>2, <2>3, SelectPartsNext
<1>8. ASSUME NEW o \in {"ok", "failed"}, Quiet(o)
      PROVE  SelectInv'
  BY <1>6, <1>7, <1>8, BasisStays DEF Quiet
<1>9. CASE UNCHANGED vars
  BY <1>6, <1>7, <1>9, BasisStays DEF vars
<1> QED BY <1>2, <1>4, <1>5, <1>6, <1>8, <1>9, SelectMoves, StepKinds

-----------------------------------------------------------------------------
(* Plans, outputs and what cleaning leaves.                                *)

LEMMA PlanStep ==
  ASSUME TypeOK, RunningInv, SelectInv, PlanInv, [Next]_vars
  PROVE  PlanInv'
<1>1. ASSUME NEW t \in Test, Moves(t)
      PROVE  PlanInv'
  <2>0. /\ deployed' = deployed /\ \A u \in Test : workspaceName(u)' = workspaceName(u)
    BY <1>1, WorldGrows DEF Moves, workspaceName
  <2>1. ASSUME pc'[t] = "planned", workspaceName(t) \in deployed[Home(t)]
        PROVE  plan'[t] \in ChangePlans[DirOf[t]]
    <3>1. MakePlan(t)
      BY <1>1, <2>1
         DEF Moves, TestStep, Initialize, SelectOwn, CheckPlan, Restore, DeleteOwn, CheckOutput,
             CommandFails, Killed, Goes, TypeOK
    <3>2. t \in Unit
      BY <3>1 DEF MakePlan, SelectInv, Early, Unit
    <3>3. selected[DirOf[t]] = workspaceName(t)
      BY <3>1, <3>2 DEF MakePlan, SelectInv, Late
    <3> QED BY <2>1, <3>1, <3>3 DEF MakePlan, TypeOK
  <2>2. ASSUME pc'[t] = "checked", ~failed'[t]
        PROVE  workspaceName(t) \notin deployed[Home(t)]
    <3>1. CheckPlan(t)
      BY <1>1, <2>2
         DEF Moves, TestStep, Initialize, SelectOwn, MakePlan, Restore, DeleteOwn, CheckOutput,
             CommandFails, Killed, Goes, TypeOK
    <3>2. PICK f \in Fixtures[t] : failed' = [failed EXCEPT ![t] = ~validateTerraformPlanFile(f, plan[t])]
      BY <3>1 DEF CheckPlan
    <3>3. validateTerraformPlanFile(f, plan[t])
      BY <2>2, <3>2 DEF TypeOK
    <3>4. \A a \in DOMAIN plan[t] : plan[t][a].actions \subseteq {"create", "read"}
      BY <3>3 DEF validateTerraformPlanFile, validatePlanCreateProperties, allowedActions
    <3>5. plan[t] \notin ChangePlans[DirOf[t]]
      BY <3>4, PlansAssumption, Places
    <3> QED BY <3>1, <3>5 DEF CheckPlan, PlanInv
  <2>3. \A u \in Test : pc'[u] = "planned" /\ workspaceName(u) \in deployed[Home(u)] =>
          plan'[u] \in ChangePlans[DirOf[u]]
    BY <1>1, <2>1 DEF Moves, PlanInv
  <2>4. \A u \in Test : pc'[u] = "checked" /\ ~failed'[u] => workspaceName(u) \notin deployed[Home(u)]
    BY <1>1, <2>2 DEF Moves, PlanInv, FreshPlan
  <2> QED BY <2>0, <2>3, <2>4 DEF PlanInv, FreshPlan
<1>2. ASSUME \A t \in Test : pc'[t] \notin {"planned", "checked"}
      PROVE  PlanInv'
  BY <1>2 DEF PlanInv, FreshPlan
<1>3. CASE Launch
  <2>1. \A t \in Test : pc'[t] = pc[t] \/ pc'[t] = "started"
    BY <1>3, LaunchStays
  <2>2. \A t \in Test : ~Running(t)
    BY <1>3, NoneRunning DEF Launch
  <2> QED BY <1>2, <2>1, <2>2 DEF Running
<1>4. ASSUME pc' = pc, \A t \in Test : ~Running(t)
      PROVE  PlanInv'
  BY <1>2, <1>4 DEF Running
<1>5. CASE Wipe
  BY <1>4, <1>5, Wiping, NoneRunning DEF Due
<1>6. ASSUME NEW d \in Dir, Work(d)
      PROVE  PlanInv'
  BY <1>4, <1>6, RunsInRun DEF Work
<1>7. CASE StartRun
  BY <1>2, <1>7 DEF StartRun
<1>8. CASE UNCHANGED vars
  BY <1>8 DEF vars, harnessVars, PlanInv, FreshPlan, workspaceName
<1> QED BY <1>1, <1>3, <1>4, <1>5, <1>6, <1>7, <1>8, StepKinds DEF Quiet, harnessVars

LEMMA CleanedStep ==
  ASSUME TypeOK, RunningInv, StartedInv, CleanFirst, SelectInv, CleanedInv, [Next]_vars
  PROVE  CleanedInv'
<1>0. runner' = runner /\ Scope' = Scope /\ Scope \subseteq Dir
  BY RunnerStays, RunAssumption DEF Scope, TypeOK
<1>1. ASSUME \A d \in Dir : Basis(d)' = Basis(d), UNCHANGED deployed, ~Between' => ~Between,
             \A y \in Target(runner) : Body(y) = "clean" /\ result'[y] = "ok" => result[y] = "ok"
      PROVE  CleanedInv'
  BY <1>0, <1>1 DEF CleanedInv
<1>2. ASSUME NEW t \in Test, Moves(t)
      PROVE  CleanedInv'
  BY <1>1, <1>2, SameTargets, WorldGrows, BasisStays DEF Moves, mageVars
<1>3. ASSUME NEW o \in {"ok", "failed"}, Quiet(o)
      PROVE  CleanedInv'
  BY <1>1, <1>3, Outcome, BasisStays DEF Quiet, harnessVars
<1>4. CASE Launch
  BY <1>1, <1>4, Outcome, LaunchStays, BasisStays DEF Launch, world
<1>5. CASE Wipe
  <2> SUFFICES ASSUME ~Between', NEW d \in Scope
               PROVE  Basis(d)' = Default /\ (BackendOf[d] \in Local => deployed'[BackendOf[d]] = {})
    BY <1>0 DEF CleanedInv
  <2>1. PICK o \in {"ok", "failed"}, part \in SUBSET Scope :
          Becomes(o) /\ Cleaned(part, runner # "harness") /\ (o = "ok" => part = Scope)
    BY <1>5, Wiping
  <2>2. part = Scope
    BY <2>1, Outcome DEF Between, Ended, Aborted, Becomes, TypeOK
  <2>3. Basis(d)' = selected'[d]
    BY <1>0, <1>5, BasisWiped
  <2> QED BY <1>0, <2>1, <2>2, <2>3, HarnessAssumption DEF Cleaned
<1>6. CASE StartRun
  BY <1>6 DEF StartRun, Todo, CleanedInv
<1>7. ASSUME NEW d \in Dir, Work(d)
      PROVE  CleanedInv'
  BY <1>7, SameTargets DEF Work, CleanedInv, mageVars
<1>8. CASE UNCHANGED vars
  BY <1>1, <1>8, SameTargets, BasisStays DEF vars, harnessVars, mageVars
<1> QED BY <1>2, <1>3, <1>4, <1>5, <1>6, <1>7, <1>8, StepKinds

\* Whoever passed with expected outputs found some.
LEMMA SomeOutput ==
  ASSUME NEW t \in Integration, NEW f \in OutputFixtures[t], validateTerraformOutput(f, <<>>)
  PROVE  FALSE
<1>1. Cardinality(DOMAIN <<>>) = 0
  <2>1. DOMAIN <<>> = {}
    OBVIOUS
  <2> QED BY <2>1, FS_EmptySet
<1> QED BY <1>1, OutputsExpected DEF validateTerraformOutput, validateTerraformOutputCount

LEMMA ReadsFoundStep ==
  ASSUME IInv, [Next]_vars
  PROVE  IntegrationReadsFound'
<1> SUFFICES ASSUME NEW t \in Integration, Passed(t)', ~Between'
             PROVE  /\ selected'[DirOf[t]] = Basis(DirOf[t])'
                    /\ Basis(DirOf[t])' \in deployed'[Home(t)]
  BY DEF IntegrationReadsFound
<1> USE DEF IInv
<1>0. t \in Test /\ DirOf[t] \in Dir
  BY HarnessAssumption
<1>1. ~StartRun
  BY <1>0 DEF StartRun, Passed
<1>2. ~Between
  BY <1>1, BetweenStays
<1>3. ASSUME NEW p \in Test, Moves(p)
      PROVE  /\ selected'[DirOf[t]] = Basis(DirOf[t])'
             /\ Basis(DirOf[t])' \in deployed'[Home(t)]
  <2>1. Basis(DirOf[t])' = Basis(DirOf[t]) /\ deployed' = deployed
    BY <1>0, <1>3, WorldGrows, BasisStays DEF Moves
  <2>2. pc[t] # "idle"
    BY <1>0, <1>3 DEF Moves, Running, Passed
  <2>3. \A u \in Unit : DirOf[u] = DirOf[t] => Passed(u)
    BY <1>2, <2>2 DEF AfterUnit
  <2>4. selected'[DirOf[t]] = selected[DirOf[t]]
    BY <1>0, <1>3, <2>3, WorldGrows DEF Selects, Returns, Passed
  <2>5. CASE p # t
    BY <1>0, <1>2, <1>3, <2>1, <2>4, <2>5 DEF Moves, Passed, IntegrationReadsFound
  <2>6. CASE p = t
    <3>1. CheckOutput(t)
      <4>1. pc[t] \in {"started", "initialized"} /\ pc'[t] = "over" /\ ~failed'[t]
        BY <1>3, <2>6 DEF Moves, Running, SelectInv, Early, Passed
      <4> QED BY <1>0, <1>3, <2>6, <4>1
              DEF Moves, TestStep, Initialize, SelectOwn, MakePlan, CheckPlan, Restore, DeleteOwn,
                  CommandFails, Killed, Goes, Fatal, TypeOK
    <3>2. selected[DirOf[t]] \in deployed[Home(t)]
      <4>1. PICK f \in OutputFixtures[t],
                 o \in (IF selected[DirOf[t]] \in deployed[Home(t)] THEN Outputs[DirOf[t]] ELSE {<<>>}) :
              failed' = [failed EXCEPT ![t] = ~validateTerraformOutput(f, o)]
        BY <3>1 DEF CheckOutput
      <4>2. validateTerraformOutput(f, o)
        BY <1>0, <4>1 DEF Passed, TypeOK
      <4> QED BY <4>1, <4>2, SomeOutput
    <3>3. selected[DirOf[t]] = Basis(DirOf[t])
      <4>1. CASE \E u \in Unit : DirOf[u] = DirOf[t]
        BY <1>2, <2>3, <4>1 DEF SelectInv, PassedLeavesNoTrace, Unit
      <4>2. CASE ~\E u \in Unit : DirOf[u] = DirOf[t]
        BY <1>0, <1>2, <4>2 DEF SelectInv
      <4> QED BY <4>1, <4>2
    <3> QED BY <2>1, <2>4, <3>2, <3>3
  <2> QED BY <2>5, <2>6
<1>4. CASE Launch
  <2>1. Passed(t)
    BY <1>0, <1>4, LaunchStays DEF Passed
  <2> QED BY <1>0, <1>2, <1>4, <2>1, LaunchStays, BasisStays DEF IntegrationReadsFound, world, Launch
<1>5. CASE Wipe
  BY <1>0, <1>5, Wiping, CleansNoMore DEF Passed
<1>6. ASSUME NEW d \in Dir, Work(d)
      PROVE  FALSE
  BY <1>2, <1>6 DEF Work
<1>7. ASSUME UNCHANGED harnessVars, Basis(DirOf[t])' = Basis(DirOf[t])
      PROVE  /\ selected'[DirOf[t]] = Basis(DirOf[t])'
             /\ Basis(DirOf[t])' \in deployed'[Home(t)]
  BY <1>2, <1>7 DEF IntegrationReadsFound, Passed, harnessVars
<1>8. ASSUME NEW o \in {"ok", "failed"}, Quiet(o)
      PROVE  UNCHANGED harnessVars /\ Basis(DirOf[t])' = Basis(DirOf[t])
  BY <1>0, <1>8, BasisStays DEF Quiet
<1>9. CASE UNCHANGED vars
  BY <1>0, <1>7, <1>9, BasisStays DEF vars
<1> QED BY <1>1, <1>3, <1>4, <1>5, <1>6, <1>7, <1>8, <1>9, StepKinds

-----------------------------------------------------------------------------
(* The invariant, and what follows.                                        *)

LEMMA Initially == Init => IInv
<1> SUFFICES ASSUME Init
             PROVE  IInv
  OBVIOUS
<1>0. /\ runner \in Runner /\ run = 0 /\ MaxRuns \in Nat /\ 0 \in 0..MaxRuns /\ Between
      /\ \A x \in Target(runner) : result[x] = "todo"
      /\ \A t \in Test : pc[t] = "idle" /\ start[t] = Default
      /\ \A b \in Backend : exists[b] = Human[b] \cup {Default} /\ deployed[b] = {}
      /\ \A d \in Dir : selected[d] = Default
  BY HarnessAssumption DEF Init, Todo, Between
<1>1. TypeOK
  <2>1. \A b \in Backend : Human[b] \subseteq Name
    BY RunAssumption
  <2>2. WorldTypes
    BY <2>1, HarnessAssumption DEF Init, WorldTypes
  <2>3. ProcessTypes /\ start \in [Test -> Name]
    BY HarnessAssumption DEF Init, ProcessTypes, Step
  <2>4. result \in [Target(runner) -> {"todo", "running", "ok", "failed"}]
    BY DEF Init, Todo
  <2> QED BY <1>0, <2>2, <2>3, <2>4 DEF TypeOK, WorldTypes, ProcessTypes, Init
<1>2. RunningInv /\ StartedInv /\ CleanFirst
  BY <1>0 DEF RunningInv, StartedInv, CleanFirst, Running
<1>3. NameInv
  <2>1. ASSUME NEW t \in Unit, NEW n \in 0..MaxRuns
        PROVE  RandomName[t][n] # Default /\ \A b \in Backend : RandomName[t][n] \notin Human[b]
    BY NamesUnique, RunAssumption DEF Unit
  <2> QED BY <1>0, <2>1 DEF NameInv, Unit
<1>4. SelectInv /\ PlanInv
  BY <1>0, HarnessAssumption
     DEF SelectInv, PassedLeavesNoTrace, PlanInv, FreshPlan, Early, Late, Running, Passed, Unit
<1>5. AfterUnit /\ CleanedInv /\ RewrittenInv /\ IntegrationReadsFound
  BY <1>0 DEF AfterUnit, CleanedInv, RewrittenInv, IntegrationReadsFound, Init
<1> QED BY <1>1, <1>2, <1>3, <1>4, <1>5 DEF IInv

LEMMA Inductive == IInv /\ [Next]_vars => IInv'
<1> SUFFICES ASSUME IInv, [Next]_vars
             PROVE  IInv'
  OBVIOUS
<1>1. TypeOK' /\ RunningInv' /\ StartedInv' /\ CleanFirst' /\ AfterUnit'
  BY TypeStep, RunningStep, StartedStep, CleanFirstStep, AfterUnitStep DEF IInv
<1>2. NameInv' /\ SelectInv' /\ PlanInv'
  BY NameStep, SelectStep, PlanStep DEF IInv
<1>3. CleanedInv' /\ RewrittenInv' /\ IntegrationReadsFound'
  BY CleanedStep, RewrittenStep, ReadsFoundStep DEF IInv
<1> QED BY <1>1, <1>2, <1>3 DEF IInv

LEMMA Always == Spec => []IInv
BY Initially, Inductive, PTL DEF Spec

\* Types; what is selected in a directory exists on its backend, as does what is
\* deployed, whatever tests and targets delete: no test deletes a workspace that
\* another directory has selected or that holds resources.
THEOREM TypeCorrect == Spec => []TypeOK
<1>1. IInv => TypeOK
  BY DEF IInv
<1> QED BY <1>1, Always, PTL

\* RunUnitTests: a test that passed has put back the selection it found, and its own
\* workspace is gone, whatever tests run beside it or were killed before it.
THEOREM NoTraceLeft == Spec => []PassedLeavesNoTrace
<1>1. IInv => PassedLeavesNoTrace
  BY DEF IInv, SelectInv
<1> QED BY <1>1, Always, PTL

LEMMA CleanScope ==
  ASSUME IInv, NEW t \in Unit, t \notin Named, Running(t), runner # "unit"
  PROVE  Basis(DirOf[t]) = Default /\ deployed[Home(t)] = {}
<1> USE DEF IInv
<1>0. t \in Test /\ t \notin Integration /\ Home(t) \in Local /\ DirOf[t] \in Dir
  BY DirsApart, Places DEF Unit, Home
<1>1. /\ ~Between /\ result[Current] = "running" /\ t \in Packages(Body(Current))
      /\ Current \in Target(runner) /\ Body(Current) \in Suffix
  BY <1>0, RunsInRun, CurrentFacts DEF RunningInv, TypeOK
<1>2. t \in Matching[Body(Current)] /\ DirOf[t] \in Below[runner]
  BY <1>1 DEF Packages
<1>3. Body(Current) \in {"unit", "testing"}
  <2>1. Body(Current) \notin TemplateSuffix
    BY <1>0, <1>2, PathsAssumption
  <2>2. Body(Current) # "integration"
    BY <1>0, <1>1, <1>2, PathsAssumption DEF UnitOf
  <2> QED BY <1>1, <2>1, <2>2 DEF TemplateSuffix
<1>4. \A y \in Target(runner) : Body(y) = "clean" => result[y] = "ok"
  BY <1>1 DEF CleanFirst
<1>5. DirOf[t] \in Scope /\ \E y \in Target(runner) : Body(y) = "clean"
  <2>0. runner \in {"harness", "modules", "mvp", "resources"}
    BY DEF TypeOK, Runner
  <2>1. CASE runner = "harness"
    BY <1>2, <2>1 DEF Scope, Target, Deps, HarnessDeps, Body
  <2>2. CASE runner = "modules"
    <3>1. Body(Current) = "testing"
      BY <1>1, <1>3, <2>2 DEF Target, Deps, ModulesDeps, Body
    <3>2. DirOf[t] \in ModuleDir
      BY <1>2, <3>1, PathsAssumption
    <3> QED BY <2>2, <3>2 DEF Scope, Target, Deps, ModulesDeps, Body
  <2>3. CASE runner = "mvp"
    BY <1>1, <1>3, <2>3 DEF Target, Deps, MvpDeps, Body
  <2>4. CASE runner = "resources"
    BY <1>1, <1>3, <2>4 DEF Target, Deps, ResourcesDeps, Body
  <2> QED BY <2>0, <2>1, <2>2, <2>3, <2>4
<1> QED BY <1>0, <1>1, <1>4, <1>5 DEF CleanedInv, Home

\* The last deferred statement of RunUnitTests: unless a check or a command
\* failed before, the workspace can be deleted, also after earlier tests were
\* killed in it, if it has a name of its own or the runner cleans first.
THEOREM CleanUp == Spec => []CleanUpSucceeds
<1>1. IInv => CleanUpSucceeds
  <2> SUFFICES ASSUME IInv, NEW t \in Test, pc[t] = "restored", ~failed[t],
                      t \in Named \/ runner # "unit"
               PROVE  DeleteAccepted(t, workspaceName(t))
    BY DEF CleanUpSucceeds
  <2> USE DEF IInv
  <2>1. t \in Unit /\ Running(t) /\ ~Between
    BY RunsInRun DEF SelectInv, Early, Unit, Running
  <2>2. /\ selected[DirOf[t]] = Basis(DirOf[t]) /\ start[t] = Basis(DirOf[t])
        /\ workspaceName(t) \in exists[Home(t)]
    BY <2>1 DEF SelectInv
  <2>3. CASE t \in Named
    <3>1. workspaceName(t) = RandomName[t][run]
      BY <2>3 DEF workspaceName
    <3>2. RandomName[t][run] # start[t] /\ RandomName[t][run] \notin deployed[Home(t)]
      BY <2>1, Places DEF NameInv
    <3> QED BY <2>2, <3>1, <3>2 DEF DeleteAccepted
  <2>4. CASE t \notin Named
    BY <2>1, <2>2, <2>4, CleanScope, Places DEF DeleteAccepted, TypeOK
  <2> QED BY <2>3, <2>4
<1> QED BY <1>1, Always, PTL

\* RunUnitTests: a plan that passes the checks was made over an empty workspace,
\* although people deploy what killed tests have left selected.
THEOREM Fresh == Spec => []FreshPlan
<1>1. IInv => FreshPlan
  BY DEF IInv, PlanInv
<1> QED BY <1>1, Always, PTL

\* The magefiles: the integration test of a directory runs after its unit test
\* has passed in the same run, in every runner.
THEOREM AfterUnits == Spec => []IntegrationAfterUnit
<1>1. IInv => IntegrationAfterUnit
  <2> SUFFICES ASSUME IInv, NEW t \in Integration, NEW u \in Unit, Running(t), DirOf[u] = DirOf[t]
               PROVE  Passed(u)
    BY DEF IntegrationAfterUnit, Unit
  <2>1. ~Between
    BY RunsInRun, HarnessAssumption DEF IInv
  <2> QED BY <2>1 DEF IInv, AfterUnit, Running
<1> QED BY <1>1, Always, PTL

\* RunIntegrationTests: a test that passed has read the outputs of a deployed
\* workspace, which is the one that was selected when the run began, or the default
\* one where the run's own CleanAll or Clean has removed that selection.
THEOREM OutputsFound == Spec => []IntegrationReadsFound
<1>1. IInv => IntegrationReadsFound
  BY DEF IInv
<1> QED BY <1>1, Always, PTL

\* The lint targets: a run that has rewritten a source file tests nothing more.
THEOREM Formatted == Spec => []TestsOnFormattedSources
<1>1. IInv => TestsOnFormattedSources
  BY DEF IInv, RewrittenInv, TestsOnFormattedSources, Between, Ended
<1> QED BY <1>1, Always, PTL

=============================================================================
