---------------------------- MODULE GitOpsProofs ----------------------------
(***************************************************************************)
(* What holds of the manifest repository for any number of services,       *)
(* builds and environments.                                                *)
(***************************************************************************)
EXTENDS GitOps, TLAPS

\* What file p of b's clone is: as at the commit merged last, or rendered by b
\* and untouched by others since the checkout.
Explained(b, p) ==
  LET e == stage[b]
      c == clone[b]
  IN  \/ c.tree[p] = At(e, c.base)[p]
      \/ /\ p \in Writes[b] /\ c.tree[p] = Rendering[b][p]
         /\ At(e, c.base)[p] = At(e, c.from)[p]

CloneInv ==
  \A b \in Build :
    /\ step[b] = "cloned" => clone[b].from = clone[b].base
    /\ step[b] = "cloned" => clone[b].tree = At(stage[b], clone[b].base)
    /\ step[b] \in {"committed", "pulled"} => \A p \in Path : Explained(b, p)

IInv == TypeOK /\ CloneInv

-----------------------------------------------------------------------------
(* Trees and branches.                                                     *)

LEMMA Trees ==
  /\ Original \in Tree
  /\ \A b \in Build : \A p \in Writes[b] : Rendering[b][p] \in Content
<1>1. \A p \in Path : Original[p] \in Content
  BY DEF Content
<1>2. Original = [p \in Path |-> Original[p]]
  BY GitOpsAssumption
<1>3. Original \in Tree
  BY <1>1, <1>2 DEF Tree
<1>4. \A b \in Build : \A p \in Writes[b] : Rendering[b][p] \in Content
  BY DEF Content
<1> QED BY <1>3, <1>4

LEMMA Positions ==
  ASSUME TypeOK, NEW e \in Env
  PROVE  Tip(e) \in Nat /\ \A i \in 0..Tip(e) : At(e, i) \in Tree
<1>1. branch[e] \in Seq(Tree)
  BY DEF TypeOK
<1> QED BY <1>1, Trees DEF Tip, At

\* A push extends one branch and rewrites nothing.
LEMMA PushExtends ==
  ASSUME TypeOK, NEW b \in Build, Push(b)
  PROVE  /\ branch' \in [Env -> Seq(Tree)]
         /\ \A e \in Env : Tip(e) <= Tip(e)' /\ Tip(e)' \in Nat
         /\ \A e \in Env : \A i \in 0..Tip(e) : At(e, i)' = At(e, i)
         /\ \A e \in Env : \/ branch'[e] = branch[e]
                           \/ /\ e = stage[b] /\ At(e, Tip(e))' = clone[b].tree
                              /\ Tip(e)' = Tip(e) + 1
<1>1. /\ branch \in [Env -> Seq(Tree)] /\ stage[b] \in Env /\ clone[b].tree \in Tree
  BY DEF TypeOK
<1>2. CASE branch' = branch
  BY <1>1, <1>2, Positions DEF Tip, At
<1>3. CASE branch' = [branch EXCEPT ![stage[b]] = Extended(b, stage[b])]
  <2>1. /\ Append(branch[stage[b]], clone[b].tree) \in Seq(Tree)
        /\ branch' = [branch EXCEPT ![stage[b]] = Append(branch[stage[b]], clone[b].tree)]
    BY <1>1, <1>3 DEF Extended
  <2>2. branch' \in [Env -> Seq(Tree)]
    BY <1>1, <2>1
  <2>3. ASSUME NEW e \in Env
        PROVE  /\ Tip(e) <= Tip(e)' /\ Tip(e)' \in Nat
               /\ \A i \in 0..Tip(e) : At(e, i)' = At(e, i)
               /\ \/ branch'[e] = branch[e]
                  \/ /\ e = stage[b] /\ At(e, Tip(e))' = clone[b].tree
                     /\ Tip(e)' = Tip(e) + 1
    <3>1. CASE e # stage[b]
      <4>1. branch'[e] = branch[e] /\ branch[e] \in Seq(Tree)
        BY <1>1, <2>1, <3>1
      <4> QED BY <4>1 DEF Tip, At
    <3>2. CASE e = stage[b]
      <4> DEFINE s == branch[e]
                 t == clone[b].tree
      <4>1. branch'[e] = Append(s, t) /\ s \in Seq(Tree)
        BY <1>1, <2>1, <3>2
      <4>2. /\ Len(Append(s, t)) = Len(s) + 1 /\ Len(s) \in Nat
            /\ Append(s, t)[Len(s) + 1] = t
            /\ \A i \in 1..Len(s) : Append(s, t)[i] = s[i]
        BY <4>1
      <4> HIDE DEF t
      <4>3. Tip(e) = Len(s) /\ Tip(e)' = Len(s) + 1
        BY <4>1, <4>2 DEF Tip
      <4>4. \A i \in 0..Tip(e) : At(e, i)' = At(e, i)
        BY <4>1, <4>2, <4>3 DEF At
      <4>5. At(e, Tip(e))' = t
        BY <4>1, <4>2, <4>3 DEF At
      <4> QED BY <3>2, <4>2, <4>3, <4>4, <4>5 DEF t
    <3> QED BY <3>1, <3>2
  <2> QED BY <2>2, <2>3
<1> QED BY <1>2, <1>3 DEF Push

-----------------------------------------------------------------------------
(* The steps of a build.                                                   *)

LEMMA InitInvariant == Init => IInv
<1> SUFFICES ASSUME Init PROVE IInv
  OBVIOUS
<1>1. 1 \in Env /\ Original \in Tree
  BY GitOpsAssumption, Trees DEF Env
<1>2. NoClone \in [from : Nat, base : Nat, tree : Tree, ahead : BOOLEAN]
  BY <1>1 DEF NoClone
<1>3. \A e \in Env : Tip(e) = 0 /\ applied[e] = 0
  BY DEF Init, Tip
<1>4. /\ branch \in [Env -> Seq(Tree)] /\ stage \in [Build -> Env] /\ step \in [Build -> Step]
      /\ clone \in [Build -> [from : Nat, base : Nat, tree : Tree, ahead : BOOLEAN]]
      /\ applied \in [Env -> Nat]
  BY <1>1, <1>2 DEF Init, Step
<1>5. \A b \in Build : clone[b].from = 0 /\ clone[b].base = 0 /\ stage[b] \in Env
  BY <1>1 DEF Init, NoClone
<1>6. TypeOK
  BY <1>3, <1>4, <1>5 DEF TypeOK
<1>7. CloneInv
  BY DEF Init, CloneInv
<1> QED BY <1>6, <1>7 DEF IInv

\* A step of b that leaves the branches alone: what is said of b afterwards.
LEMMA OwnStep ==
  ASSUME IInv, NEW b \in Build, NEW c \in [from : Nat, base : Nat, tree : Tree, ahead : BOOLEAN],
         NEW s \in Step, NEW e \in Env,
         stage' = [stage EXCEPT ![b] = e], clone' = [clone EXCEPT ![b] = c],
         step' = [step EXCEPT ![b] = s], UNCHANGED <<branch, applied>>,
         c.from <= c.base, c.base <= Tip(e),
         s = "cloned" => c.from = c.base /\ c.tree = At(e, c.base),
         s \in {"committed", "pulled"} =>
           \A p \in Path : \/ c.tree[p] = At(e, c.base)[p]
                           \/ /\ p \in Writes[b] /\ c.tree[p] = Rendering[b][p]
                              /\ At(e, c.base)[p] = At(e, c.from)[p]
  PROVE  IInv'
<1>1. /\ stage \in [Build -> Env] /\ step \in [Build -> Step]
      /\ clone \in [Build -> [from : Nat, base : Nat, tree : Tree, ahead : BOOLEAN]]
  BY DEF IInv, TypeOK
<1>2. /\ stage'[b] = e /\ clone'[b] = c /\ step'[b] = s
      /\ \A a \in Build \ {b} : stage'[a] = stage[a] /\ clone'[a] = clone[a] /\ step'[a] = step[a]
  BY <1>1
<1>3. \A d \in Env : Tip(d)' = Tip(d) /\ \A i : At(d, i)' = At(d, i)
  BY DEF Tip, At
<1>4. TypeOK'
  <2>1. /\ stage' \in [Build -> Env] /\ step' \in [Build -> Step]
        /\ clone' \in [Build -> [from : Nat, base : Nat, tree : Tree, ahead : BOOLEAN]]
    BY <1>1
  <2>2. \A a \in Build : clone'[a].from <= clone'[a].base /\ clone'[a].base <= Tip(stage'[a])
    BY <1>2 DEF IInv, TypeOK
  <2>3. \A a \in Build : Tip(stage'[a]) = Tip(stage[a])'
    BY DEF Tip
  <2> QED BY <1>3, <2>1, <2>2, <2>3 DEF IInv, TypeOK
<1>5. CloneInv'
  <2> SUFFICES ASSUME NEW a \in Build
               PROVE  /\ step'[a] = "cloned" => clone'[a].from = clone'[a].base
                      /\ step'[a] = "cloned" => clone'[a].tree = At(stage[a], clone[a].base)'
                      /\ step'[a] \in {"committed", "pulled"} => \A p \in Path : Explained(a, p)'
    BY DEF CloneInv
  <2>1. CASE a = b
    <3>1. /\ At(stage[a], clone[a].base)' = At(e, c.base)
          /\ At(stage[a], clone[a].from)' = At(e, c.from)
      BY <1>2, <2>1 DEF At
    <3> QED BY <1>2, <2>1, <3>1 DEF Explained
  <2>2. CASE a # b
    <3>1. stage'[a] = stage[a] /\ clone'[a] = clone[a] /\ step'[a] = step[a]
      BY <1>2, <2>2
    <3>2. /\ At(stage[a], clone[a].base)' = At(stage[a], clone[a].base)
          /\ At(stage[a], clone[a].from)' = At(stage[a], clone[a].from)
      BY <3>1 DEF At
    <3> QED BY <3>1, <3>2 DEF IInv, CloneInv, Explained
  <2> QED BY <2>1, <2>2
<1> QED BY <1>4, <1>5 DEF IInv

LEMMA Own ==
  ASSUME IInv, NEW b \in Build
  PROVE  /\ stage[b] \in Env /\ step[b] \in Step
         /\ clone[b] \in [from : Nat, base : Nat, tree : Tree, ahead : BOOLEAN]
         /\ clone[b].from <= clone[b].base /\ clone[b].base <= Tip(stage[b])
         /\ Tip(stage[b]) \in Nat
         /\ clone = [clone EXCEPT ![b] = clone[b]] /\ stage = [stage EXCEPT ![b] = stage[b]]
BY Positions DEF IInv, TypeOK

LEMMA NextStageInvariant ==
  ASSUME IInv, NEW b \in Build, NextStage(b)
  PROVE  IInv'
<1>1. /\ stage' = [stage EXCEPT ![b] = stage[b] + 1] /\ clone' = [clone EXCEPT ![b] = NoClone]
      /\ step' = [step EXCEPT ![b] = "waiting"] /\ UNCHANGED <<branch, applied>>
      /\ stage[b] < Environments
  BY DEF NextStage, Goes
<1>2. stage[b] + 1 \in Env
  BY <1>1, Own, GitOpsAssumption DEF Env
<1>3. /\ NoClone \in [from : Nat, base : Nat, tree : Tree, ahead : BOOLEAN]
      /\ NoClone.from = 0 /\ NoClone.base = 0
  BY Trees DEF NoClone
<1>4. Tip(stage[b] + 1) \in Nat
  BY <1>2, Positions DEF IInv
<1>5. NoClone.from <= NoClone.base /\ NoClone.base <= Tip(stage[b] + 1)
  BY <1>3, <1>4
<1>6. "waiting" \in Step /\ "waiting" \notin {"cloned", "committed", "pulled"}
  BY DEF Step
<1> QED BY <1>1, <1>2, <1>3, <1>5, <1>6, OwnStep

LEMMA CheckoutInvariant ==
  ASSUME IInv, NEW b \in Build, Checkout(b)
  PROVE  IInv'
<1> DEFINE e == stage[b]
           c == [from |-> Tip(e), base |-> Tip(e), tree |-> At(e, Tip(e)), ahead |-> FALSE]
<1>1. /\ stage' = [stage EXCEPT ![b] = e] /\ clone' = [clone EXCEPT ![b] = c]
      /\ step' = [step EXCEPT ![b] = "cloned"] /\ UNCHANGED <<branch, applied>>
  BY Own DEF Checkout, Goes
<1>2. Tip(e) \in Nat /\ At(e, Tip(e)) \in Tree /\ e \in Env
  BY Own, Positions DEF IInv
<1>3. /\ c \in [from : Nat, base : Nat, tree : Tree, ahead : BOOLEAN]
      /\ c.from = Tip(e) /\ c.base = Tip(e) /\ c.tree = At(e, Tip(e))
  BY <1>2
<1> HIDE DEF c, e
<1>4. c.from <= c.base /\ c.base <= Tip(e) /\ c.from = c.base /\ c.tree = At(e, c.base)
  BY <1>2, <1>3
<1>5. "cloned" \in Step /\ "cloned" \notin {"committed", "pulled"}
  BY DEF Step
<1> QED BY <1>1, <1>2, <1>3, <1>4, <1>5, OwnStep

LEMMA CommitInvariant ==
  ASSUME IInv, NEW b \in Build, Commit(b)
  PROVE  IInv'
<1> DEFINE e == stage[b]
           tree == Copied(b, clone[b].tree)
           c == [clone[b] EXCEPT !.tree = tree, !.ahead = tree # clone[b].tree]
<1>0. /\ step[b] = "cloned" /\ clone[b].from = clone[b].base
      /\ clone[b].tree = At(e, clone[b].base)
  BY DEF Commit, IInv, CloneInv
<1>1. tree \in Tree /\ \A p \in Path : tree[p] = IF p \in Writes[b] THEN Rendering[b][p]
                                                ELSE clone[b].tree[p]
  BY Own, Trees DEF Copied, Tree
<1>2. clone[b] \in [from : Nat, base : Nat, tree : Tree, ahead : BOOLEAN]
  BY Own
<1>3. /\ c \in [from : Nat, base : Nat, tree : Tree, ahead : BOOLEAN]
      /\ c.from = clone[b].from /\ c.base = clone[b].base /\ c.tree = tree
  <2> DEFINE made == tree # clone[b].tree
  <2>1. made \in BOOLEAN /\ c = [clone[b] EXCEPT !.tree = tree, !.ahead = made]
    OBVIOUS
  <2> HIDE DEF tree, made, c
  <2> QED BY <1>1, <1>2, <2>1
<1>4. clone' = [clone EXCEPT ![b] = c]
  BY DEF Commit
<1>5. /\ stage' = [stage EXCEPT ![b] = e] /\ step' = [step EXCEPT ![b] = "committed"]
      /\ UNCHANGED <<branch, applied>>
  BY Own DEF Commit, Goes
<1>6. \A p \in Path : \/ c.tree[p] = At(e, c.base)[p]
                      \/ /\ p \in Writes[b] /\ c.tree[p] = Rendering[b][p]
                         /\ At(e, c.base)[p] = At(e, c.from)[p]
  BY <1>0, <1>1, <1>3
<1>7. e \in Env /\ c.from <= c.base /\ c.base <= Tip(e)
  BY <1>3, Own
<1> HIDE DEF c, e, tree
<1> QED BY <1>3, <1>4, <1>5, <1>6, <1>7, OwnStep DEF Step

LEMMA PullInvariant ==
  ASSUME IInv, NEW b \in Build, Pull(b)
  PROVE  IInv'
<1> DEFINE e == stage[b]
           tree == Merged(At(e, clone[b].base), clone[b].tree, At(e, Tip(e)))
<1>1. /\ e \in Env /\ Tip(e) \in Nat /\ step[b] = "committed"
      /\ clone[b] \in [from : Nat, base : Nat, tree : Tree, ahead : BOOLEAN]
      /\ clone[b].from <= clone[b].base /\ clone[b].base <= Tip(e)
  BY Own DEF Pull
<1>2. \A p \in Path : Explained(b, p)
  BY <1>1 DEF IInv, CloneInv
<1>3. /\ stage' = [stage EXCEPT ![b] = e] /\ step' = [step EXCEPT ![b] = "pulled"]
      /\ UNCHANGED <<branch, applied>>
  BY Own DEF Pull, Goes
<1>4. "pulled" \in Step /\ "pulled" # "cloned"
  BY DEF Step
<1>5. CASE ~Exists(e)
  <2>1. clone' = [clone EXCEPT ![b] = clone[b]]
    BY <1>5, Own DEF Pull
  <2>2. \A p \in Path :
          \/ clone[b].tree[p] = At(e, clone[b].base)[p]
          \/ /\ p \in Writes[b] /\ clone[b].tree[p] = Rendering[b][p]
             /\ At(e, clone[b].base)[p] = At(e, clone[b].from)[p]
    BY <1>2 DEF Explained
  <2> HIDE DEF e
  <2> QED BY <1>1, <1>3, <1>4, <2>1, <2>2, OwnStep
<1>6. CASE Exists(e)
  <2> DEFINE c == [clone[b] EXCEPT !.base = Tip(e), !.tree = tree]
  <2>1. clone' = [clone EXCEPT ![b] = c] /\ MayPull(b, e)
    BY <1>6 DEF Pull, Pulled
  <2>2. /\ At(e, Tip(e)) \in Tree /\ clone[b].tree \in Tree
    BY <1>1, Positions DEF IInv
  <2>3. tree \in Tree /\ \A p \in Path : tree[p] = IF clone[b].tree[p] = At(e, clone[b].base)[p]
                                                  THEN At(e, Tip(e))[p] ELSE clone[b].tree[p]
    BY <2>2 DEF Merged, Tree
  <2> HIDE DEF tree
  <2>4. /\ c \in [from : Nat, base : Nat, tree : Tree, ahead : BOOLEAN]
        /\ c.from = clone[b].from /\ c.base = Tip(e) /\ c.tree = tree
    BY <1>1, <2>3
  <2>5. c.from <= c.base /\ c.base <= Tip(e)
    BY <1>1, <2>4
  <2>6. ASSUME NEW p \in Path
        PROVE  \/ c.tree[p] = At(e, c.base)[p]
               \/ /\ p \in Writes[b] /\ c.tree[p] = Rendering[b][p]
                  /\ At(e, c.base)[p] = At(e, c.from)[p]
    <3>1. \/ clone[b].tree[p] = At(e, clone[b].base)[p]
          \/ /\ p \in Writes[b] /\ clone[b].tree[p] = Rendering[b][p]
             /\ At(e, clone[b].base)[p] = At(e, clone[b].from)[p]
      BY <1>2 DEF Explained
    <3>2. \/ clone[b].tree[p] = At(e, clone[b].base)[p]
          \/ At(e, Tip(e))[p] = At(e, clone[b].base)[p]
          \/ clone[b].tree[p] = At(e, Tip(e))[p]
      BY <2>1 DEF MayPull, Conflict
    <3> HIDE DEF c, e
    <3> QED BY <2>3, <2>4, <3>1, <3>2
  <2> HIDE DEF c, e
  <2> QED BY <1>1, <1>3, <1>4, <2>1, <2>4, <2>5, <2>6, OwnStep
<1> QED BY <1>5, <1>6

LEMMA PushInvariant ==
  ASSUME IInv, NEW b \in Build, Push(b)
  PROVE  IInv'
<1>1. /\ step' = [step EXCEPT ![b] = "deployed"] /\ UNCHANGED <<stage, clone, applied>>
      /\ TypeOK
  BY DEF Push, Goes, IInv
<1>2. /\ branch' \in [Env -> Seq(Tree)]
      /\ \A e \in Env : Tip(e) <= Tip(e)' /\ Tip(e)' \in Nat /\ Tip(e) \in Nat
      /\ \A e \in Env : \A i \in 0..Tip(e) : At(e, i)' = At(e, i)
  BY <1>1, PushExtends, Positions
<1>3. TypeOK'
  <2>1. step' \in [Build -> Step]
    BY <1>1 DEF TypeOK, Step
  <2>2. ASSUME NEW a \in Build
        PROVE  clone[a].base <= Tip(stage[a])'
    <3>1. /\ stage[a] \in Env /\ clone[a].base \in Nat /\ clone[a].base <= Tip(stage[a])
      BY Own
    <3>2. Tip(stage[a]) <= Tip(stage[a])' /\ Tip(stage[a])' \in Nat /\ Tip(stage[a]) \in Nat
          /\ stage'[a] = stage[a]
      BY <1>1, <1>2, <3>1 DEF Tip
    <3> QED BY <3>1, <3>2
  <2>3. \A e \in Env : applied[e] <= Tip(e)'
    BY <1>1, <1>2 DEF TypeOK
  <2> QED BY <1>1, <1>2, <2>1, <2>2, <2>3 DEF TypeOK
<1>4. ASSUME NEW a \in Build
      PROVE  /\ At(stage[a], clone[a].base)' = At(stage[a], clone[a].base)
             /\ At(stage[a], clone[a].from)' = At(stage[a], clone[a].from)
  <2>1. /\ stage[a] \in Env /\ clone[a].base \in Nat /\ clone[a].from \in Nat
        /\ clone[a].from <= clone[a].base /\ clone[a].base <= Tip(stage[a])
        /\ Tip(stage[a]) \in Nat
    BY Own
  <2>2. clone[a].base \in 0..Tip(stage[a]) /\ clone[a].from \in 0..Tip(stage[a])
    BY <2>1
  <2> QED BY <1>1, <1>2, <2>1, <2>2 DEF At
<1>5. CloneInv'
  <2> SUFFICES ASSUME NEW a \in Build
               PROVE  /\ step'[a] = "cloned" => clone'[a].from = clone'[a].base
                      /\ step'[a] = "cloned" => clone'[a].tree = At(stage[a], clone[a].base)'
                      /\ step'[a] \in {"committed", "pulled"} => \A p \in Path : Explained(a, p)'
    BY DEF CloneInv
  <2>1. step'[a] = step[a] \/ step'[a] = "deployed"
    BY <1>1 DEF TypeOK
  <2> QED BY <1>1, <1>4, <2>1 DEF IInv, CloneInv, Explained
<1> QED BY <1>3, <1>5 DEF IInv

LEMMA FailInvariant ==
  ASSUME IInv, NEW b \in Build, Fail(b)
  PROVE  IInv'
<1> DEFINE e == stage[b]
           c == clone[b]
<1>1. /\ e \in Env /\ c \in [from : Nat, base : Nat, tree : Tree, ahead : BOOLEAN]
      /\ c.from <= c.base /\ c.base <= Tip(e)
      /\ stage = [stage EXCEPT ![b] = e] /\ clone = [clone EXCEPT ![b] = c]
  BY Own
<1>2. /\ stage' = [stage EXCEPT ![b] = e] /\ clone' = [clone EXCEPT ![b] = c]
      /\ step' = [step EXCEPT ![b] = "failed"] /\ UNCHANGED <<branch, applied>>
  BY <1>1 DEF Fail, Goes
<1>3. "failed" \in Step /\ "failed" \notin {"cloned", "committed", "pulled"}
  BY DEF Step
<1> HIDE DEF c, e
<1> QED BY <1>1, <1>2, <1>3, OwnStep

LEMMA SyncInvariant ==
  ASSUME IInv, NEW e \in Env, Sync(e)
  PROVE  IInv'
<1>1. /\ applied' = [applied EXCEPT ![e] = Tip(e)] /\ UNCHANGED <<branch, stage, step, clone>>
      /\ TypeOK /\ Tip(e) \in Nat
  BY Positions DEF Sync, IInv
<1>2. /\ applied' \in [Env -> Nat]
      /\ \A d \in Env : applied'[d] <= Tip(d)
  BY <1>1 DEF TypeOK
<1>3. TypeOK'
  BY <1>1, <1>2 DEF TypeOK, Tip
<1>4. CloneInv'
  BY <1>1 DEF IInv, CloneInv, Explained, At
<1> QED BY <1>3, <1>4 DEF IInv

LEMMA StutterInvariant ==
  ASSUME IInv, UNCHANGED vars
  PROVE  IInv'
BY DEF vars, IInv, TypeOK, CloneInv, Explained, At, Tip

LEMMA NextInvariant == IInv /\ [Next]_vars => IInv'
<1> SUFFICES ASSUME IInv, [Next]_vars PROVE IInv'
  OBVIOUS
<1>1. CASE \E b \in Build : BuildStep(b)
  BY <1>1, NextStageInvariant, CheckoutInvariant, CommitInvariant, PullInvariant,
     PushInvariant, FailInvariant DEF BuildStep
<1>2. CASE \E e \in Env : Sync(e)
  BY <1>2, SyncInvariant
<1>3. CASE UNCHANGED vars
  BY <1>3, StutterInvariant
<1> QED BY <1>1, <1>2, <1>3 DEF Next

LEMMA Invariance == Spec => []IInv
BY InitInvariant, NextInvariant, PTL DEF Spec

-----------------------------------------------------------------------------
(* The theorems.                                                           *)

\* The range of every variable; in particular no clone is ahead of the branch it
\* was made of.
THEOREM TypeCorrect == Spec => []TypeOK
<1>1. IInv => TypeOK
  BY DEF IInv
<1> QED BY <1>1, Invariance, PTL

\* What the property says of one push.
LEMMA PushKeeps ==
  ASSUME IInv, [Next]_vars, NEW b \in Build, NEW e \in Env, NEW p \in Path,
         step[b] = "pulled", step'[b] = "deployed", stage[b] = e,
         Deployed(e)'[p] # Deployed(e)[p]
  PROVE  /\ p \in Writes[b] /\ Deployed(e)'[p] = Rendering[b][p]
         /\ Deployed(e)[p] = At(e, clone[b].from)[p]
<1>1. Push(b)
  <2>1. step \in [Build -> Step]
    BY DEF IInv, TypeOK
  <2>2. step' # step
    OBVIOUS
  <2>3. PICK a \in Build : BuildStep(a)
    BY <2>2 DEF Next, vars, Sync
  <2>4. \E s \in Step : step' = [step EXCEPT ![a] = s]
    BY <2>3 DEF BuildStep, NextStage, Checkout, Commit, Pull, Push, Fail, Goes, Step
  <2>5. a = b
    BY <2>1, <2>4
  <2> QED BY <2>1, <2>3, <2>5 DEF BuildStep, NextStage, Checkout, Commit, Pull, Push, Fail, Goes
<1>2. Deployed(e)' = clone[b].tree
  <2>1. branch'[e] # branch[e]
    BY DEF Deployed, At, Tip
  <2> QED BY <1>1, <2>1, PushExtends DEF IInv, Deployed
<1>3. clone[b].base = Tip(e)
  BY <1>1 DEF Push, MayPush
<1>4. Explained(b, p)
  BY DEF IInv, CloneInv
<1> QED BY <1>2, <1>3, <1>4 DEF Explained, Deployed

\* No build's manifests are lost to a build that has not seen them, whatever the
\* number of builds, services and environments.
THEOREM NoUpdateLost == Spec => NoLostUpdate
<1> DEFINE Step_NoLoss ==
      \A b \in Build, e \in Env, p \in Path :
        /\ step[b] = "pulled" /\ step'[b] = "deployed" /\ stage[b] = e
        /\ Deployed(e)'[p] # Deployed(e)[p]
        => /\ p \in Writes[b] /\ Deployed(e)'[p] = Rendering[b][p]
           /\ Deployed(e)[p] = At(e, clone[b].from)[p]
<1>1. IInv /\ [Next]_vars => Step_NoLoss
  BY PushKeeps
<1>2. IInv /\ [Next]_vars => [Step_NoLoss]_vars
  BY <1>1
<1> HIDE DEF Step_NoLoss
<1>3. Spec => [][Step_NoLoss]_vars
  BY <1>2, Invariance, PTL DEF Spec
<1> QED BY <1>3 DEF NoLostUpdate, Step_NoLoss
-----------------------------------------------------------------------------
(* What a step changes of the other builds, and what a push makes of a     *)
(* branch.                                                                 *)

LEMMA Others ==
  ASSUME IInv, NEW b \in Build, BuildStep(b)
  PROVE  /\ applied' = applied
         /\ \A a \in Build \ {b} :
              stage'[a] = stage[a] /\ clone'[a] = clone[a] /\ step'[a] = step[a]
         /\ Push(b) \/ branch' = branch
         /\ NextStage(b) \/ stage' = stage
<1>1. /\ applied' = applied
      /\ \E s : step' = [step EXCEPT ![b] = s]
      /\ stage' = stage \/ stage' = [stage EXCEPT ![b] = @ + 1]
      /\ clone' = clone \/ \E c : clone' = [clone EXCEPT ![b] = c]
      /\ Push(b) \/ branch' = branch
      /\ NextStage(b) \/ stage' = stage
  BY DEF BuildStep, NextStage, Checkout, Commit, Pull, Push, Fail, Goes
<1> QED BY <1>1 DEF IInv, TypeOK

\* The clone of a build after each of its steps.
LEMMA CheckoutClone ==
  ASSUME IInv, NEW b \in Build, Checkout(b)
  PROVE  /\ step'[b] = "cloned" /\ stage' = stage /\ branch' = branch
         /\ clone'[b].base = Tip(stage[b]) /\ clone'[b].tree = Deployed(stage[b])
  BY DEF Checkout, Goes, Deployed, IInv, TypeOK

LEMMA CommitClone ==
  ASSUME IInv, NEW b \in Build, Commit(b)
  PROVE  /\ step[b] = "cloned" /\ step'[b] = "committed" /\ stage' = stage /\ branch' = branch
         /\ clone'[b].base = clone[b].base /\ clone'[b].tree = Copied(b, clone[b].tree)
         /\ ~clone'[b].ahead => clone'[b].tree = clone[b].tree
<1> DEFINE tree == Copied(b, clone[b].tree)
           made == tree # clone[b].tree
<1>1. /\ step[b] = "cloned" /\ step'[b] = "committed" /\ stage' = stage /\ branch' = branch
      /\ clone' = [clone EXCEPT ![b] = [clone[b] EXCEPT !.tree = tree, !.ahead = made]]
  BY DEF Commit, Goes, IInv, TypeOK
<1>2. clone[b] \in [from : Nat, base : Nat, tree : Tree, ahead : BOOLEAN]
  BY Own
<1>3. made <=> tree # clone[b].tree
  OBVIOUS
<1> HIDE DEF tree, made
<1>4. /\ clone'[b].base = clone[b].base /\ clone'[b].tree = tree /\ clone'[b].ahead = made
  BY <1>1, <1>2 DEF IInv, TypeOK
<1> QED BY <1>1, <1>3, <1>4 DEF tree

LEMMA PullClone ==
  ASSUME IInv, NEW b \in Build, Pull(b)
  PROVE  LET e == stage[b]
         IN  /\ step[b] = "committed" /\ step'[b] = "pulled" /\ stage' = stage /\ branch' = branch
             /\ ~Exists(e) => clone'[b] = clone[b]
             /\ Exists(e) =>
                  /\ ~Conflict(At(e, clone[b].base), clone[b].tree, Deployed(e))
                  /\ clone'[b].tree = Merged(At(e, clone[b].base), clone[b].tree, Deployed(e))
                  /\ clone'[b].base = Tip(e) /\ clone'[b].ahead = clone[b].ahead
<1> DEFINE e == stage[b]
           tree == Merged(At(e, clone[b].base), clone[b].tree, At(e, Tip(e)))
<1>1. /\ step[b] = "committed" /\ step'[b] = "pulled" /\ stage' = stage /\ branch' = branch
  BY DEF Pull, Goes, IInv, TypeOK
<1>2. clone[b] \in [from : Nat, base : Nat, tree : Tree, ahead : BOOLEAN]
  BY Own
<1>3. CASE ~Exists(e)
  BY <1>1, <1>3 DEF Pull
<1>4. CASE Exists(e)
  <2>1. /\ ~Conflict(At(e, clone[b].base), clone[b].tree, Deployed(e))
        /\ clone' = [clone EXCEPT ![b] = [clone[b] EXCEPT !.base = Tip(e), !.tree = tree]]
    BY <1>4 DEF Pull, Pulled, MayPull, Deployed
  <2>2. tree = Merged(At(e, clone[b].base), clone[b].tree, Deployed(e))
    BY DEF Deployed
  <2> HIDE DEF tree, e
  <2>3. clone'[b].base = Tip(e) /\ clone'[b].tree = tree /\ clone'[b].ahead = clone[b].ahead
    BY <1>2, <2>1 DEF IInv, TypeOK
  <2> QED BY <1>1, <1>4, <2>1, <2>2, <2>3 DEF e
<1> QED BY <1>3, <1>4

\* A commit that is not made leaves the clone as it was merged.
AheadInv ==
  \A b \in Build : step[b] \in {"committed", "pulled"} /\ ~clone[b].ahead =>
    clone[b].tree = At(stage[b], clone[b].base)

\* Trees stay where they are on a branch.
LEMMA BranchStays ==
  ASSUME IInv, [Next]_vars, NEW e \in Env
  PROVE  /\ \A i \in 0..Tip(e) : At(e, i)' = At(e, i)
         /\ Tip(e) <= Tip(e)' /\ Tip(e) \in Nat /\ Tip(e)' \in Nat
<1>1. TypeOK /\ Tip(e) \in Nat
  BY Positions DEF IInv
<1>2. CASE \E b \in Build : Push(b)
  BY <1>1, <1>2, PushExtends
<1>3. CASE branch' = branch
  BY <1>1, <1>3 DEF At, Tip
<1>4. branch' = branch \/ \E b \in Build : Push(b)
  BY Others DEF Next, vars, Sync
<1> QED BY <1>2, <1>3, <1>4

\* A build that does not move keeps its clone, and what it was made of.
LEMMA OtherStays ==
  ASSUME IInv, [Next]_vars, NEW a \in Build, ~BuildStep(a) \/ UNCHANGED <<stage, step, clone>>
  PROVE  /\ stage'[a] = stage[a] /\ clone'[a] = clone[a] /\ step'[a] = step[a]
         /\ At(stage[a], clone[a].base)' = At(stage[a], clone[a].base)
<1>1. stage'[a] = stage[a] /\ clone'[a] = clone[a] /\ step'[a] = step[a]
  BY Others DEF Next, vars, Sync
<1>2. stage[a] \in Env /\ clone[a].base \in 0..Tip(stage[a])
  BY Own
<1>3. \A i \in 0..Tip(stage[a]) : (IF i = 0 THEN Original ELSE branch'[stage[a]][i])
                                   = At(stage[a], i)
  BY <1>2, BranchStays DEF At
<1> QED BY <1>1, <1>2, <1>3 DEF At

LEMMA AheadStep ==
  ASSUME IInv, AheadInv, [Next]_vars
  PROVE  AheadInv'
<1> SUFFICES ASSUME NEW a \in Build, step'[a] \in {"committed", "pulled"}, ~clone'[a].ahead
             PROVE  clone'[a].tree = At(stage[a], clone[a].base)'
  BY DEF AheadInv
<1>1. CASE ~BuildStep(a)
  BY <1>1, OtherStays DEF AheadInv
<1>2. CASE BuildStep(a)
  <2>1. \/ Commit(a) \/ Pull(a)
    BY <1>2 DEF BuildStep, NextStage, Checkout, Push, Fail, Goes, IInv, TypeOK
  <2>2. CASE Commit(a)
    <3>1. clone[a].tree = At(stage[a], clone[a].base)
      BY <2>2, CommitClone DEF IInv, CloneInv
    <3> QED BY <2>2, <3>1, CommitClone DEF At
  <2>3. CASE Pull(a)
    <3> DEFINE e == stage[a]
    <3>1. e \in Env /\ Tip(e) \in Nat /\ Deployed(e) \in Tree /\ clone[a].tree \in Tree
      BY Own, Positions DEF IInv, TypeOK, Deployed
    <3>2. clone[a].tree = At(e, clone[a].base) /\ step[a] = "committed"
      BY <2>3, PullClone DEF AheadInv
    <3>3. CASE ~Exists(e)
      BY <2>3, <3>2, <3>3, PullClone DEF At
    <3>4. CASE Exists(e)
      <4>1. clone'[a].tree = Deployed(e)
        BY <2>3, <3>1, <3>2, <3>4, PullClone DEF Merged, Tree
      <4> QED BY <2>3, <3>4, <4>1, PullClone DEF At, Deployed
    <3> QED BY <3>3, <3>4
  <2> QED BY <2>1, <2>2, <2>3
<1> QED BY <1>1, <1>2

\* A push leaves the branch with the tree of the clone at its tip.
LEMMA PushTip ==
  ASSUME IInv, AheadInv, NEW b \in Build, Push(b)
  PROVE  /\ step[b] = "pulled" /\ step'[b] = "deployed"
         /\ stage' = stage /\ clone' = clone
         /\ Exists(stage[b])' /\ clone[b].base = Tip(stage[b])
         /\ Deployed(stage[b])' = clone[b].tree
         /\ \A e \in Env \ {stage[b]} : Deployed(e)' = Deployed(e) /\ Tip(e)' = Tip(e)
<1> DEFINE e == stage[b]
<1>1. /\ e \in Env /\ step[b] = "pulled" /\ step'[b] = "deployed" /\ stage' = stage
      /\ clone' = clone /\ clone[b].base = Tip(e) /\ Tip(e) \in Nat
      /\ branch[e] \in Seq(Tree) /\ clone[b].tree \in Tree
  BY Own DEF Push, MayPush, Goes, IInv, TypeOK
<1>2. CASE clone[b].ahead \/ ~Exists(e)
  <2>1. branch' = [branch EXCEPT ![e] = Append(branch[e], clone[b].tree)]
    BY <1>2 DEF Push, Extended
  <2>2. /\ branch'[e] = Append(branch[e], clone[b].tree)
        /\ \A d \in Env \ {e} : branch'[d] = branch[d]
    BY <1>1, <2>1 DEF IInv, TypeOK
  <2>3. Len(branch'[e]) = Len(branch[e]) + 1 /\ branch'[e][Len(branch[e]) + 1] = clone[b].tree
    BY <1>1, <2>2
  <2>4. Len(branch[e]) \in Nat
    BY <1>1
  <2>5. Exists(e)' /\ Deployed(e)' = clone[b].tree
    <3>1. branch'[stage'[b]] = branch'[e] /\ Len(branch'[e]) > 0
      BY <1>1, <2>3, <2>4
    <3>2. branch'[e][Len(branch'[e])] = clone[b].tree
      BY <2>3
    <3> QED BY <3>1, <3>2 DEF Exists, Tip, Deployed, At
  <2> QED BY <1>1, <2>2, <2>5 DEF Deployed, Tip, At
<1>3. CASE ~clone[b].ahead /\ Exists(e)
  <2>1. branch' = branch
    BY <1>3 DEF Push
  <2>2. clone[b].tree = At(e, clone[b].base)
    BY <1>1, <1>3 DEF AheadInv
  <2> QED BY <1>1, <1>3, <2>1, <2>2 DEF Exists, Deployed, Tip, At
<1> QED BY <1>2, <1>3

-----------------------------------------------------------------------------
(* One build: the manifests of a service stay together.                    *)

\* The manifests of a service in one tree are all from the same build.
Pure(t, s) ==
  \/ \E b \in Deploying(s) : \A p \in Manifests(s) : t[p] = Rendering[b][p]
  \/ \A p \in Manifests(s) : t[p] = Original[p]

PureInv ==
  \A s \in Service :
    /\ \A e \in Env : \A i \in 0..Tip(e) : Pure(At(e, i), s)
    /\ \A b \in Build : Pure(clone[b].tree, s)

LEMMA ManifestPaths ==
  /\ \A s \in Service : Manifests(s) \subseteq Path
  /\ Tagged => \A s \in Service : \A b \in Deploying(s) : Writes[b] \cap Registry = Manifests(s)
  BY GitOpsAssumption DEF Manifests, Deploying, Tagged

\* In trees that are pure the tag tells the manifests.
LEMMA TagTells ==
  ASSUME Tagged, NEW s \in Service, Deploying(s) # {}
  PROVE  \E tag \in Manifests(s) :
           /\ \A t, u : Pure(t, s) /\ Pure(u, s) /\ t[tag] = u[tag] =>
                \A p \in Manifests(s) : t[p] = u[p]
           /\ \A b \in Deploying(s) : Rendering[b][tag] # Original[tag]
<1>1. PICK tag \in Path : \A b \in Deploying(s) :
        /\ tag \in Manifests(s) /\ Rendering[b][tag] # Original[tag]
        /\ \A c \in Deploying(s) : Rendering[b][tag] = Rendering[c][tag] =>
             \A p \in Manifests(s) : Rendering[b][p] = Rendering[c][p]
  BY DEF Tagged
<1>2. tag \in Manifests(s)
  BY <1>1
<1>3. ASSUME NEW t, NEW u, Pure(t, s), Pure(u, s), t[tag] = u[tag], NEW p \in Manifests(s)
      PROVE  t[p] = u[p]
  BY <1>1, <1>2, <1>3 DEF Pure
<1> QED BY <1>1, <1>2, <1>3

\* A merge without a conflict has the manifests of our side, or it has those of
\* the other and ours are those of the base.
LEMMA MergeSides ==
  ASSUME Tagged, NEW s \in Service, NEW base, NEW ours, NEW theirs,
         Pure(base, s), Pure(ours, s), Pure(theirs, s), ~Conflict(base, ours, theirs)
  PROVE  \/ \A p \in Manifests(s) : Merged(base, ours, theirs)[p] = ours[p]
         \/ \A p \in Manifests(s) : /\ Merged(base, ours, theirs)[p] = theirs[p]
                                    /\ ours[p] = base[p]
<1>1. \A p \in Manifests(s) :
        Merged(base, ours, theirs)[p] = IF ours[p] = base[p] THEN theirs[p] ELSE ours[p]
  BY ManifestPaths DEF Merged
<1>2. CASE Deploying(s) = {}
  BY <1>2 DEF Manifests
<1>3. CASE Deploying(s) # {}
  <2>1. PICK tag \in Manifests(s) :
          \A t, u : Pure(t, s) /\ Pure(u, s) /\ t[tag] = u[tag] =>
            \A p \in Manifests(s) : t[p] = u[p]
    BY <1>3, TagTells
  <2>2. ours[tag] = base[tag] \/ theirs[tag] = base[tag] \/ ours[tag] = theirs[tag]
    BY ManifestPaths DEF Conflict
  <2>3. CASE ours[tag] = base[tag]
    <3>1. \A p \in Manifests(s) : ours[p] = base[p]
      BY <2>1, <2>3
    <3> QED BY <1>1, <3>1
  <2>4. CASE theirs[tag] = base[tag]
    <3>1. \A p \in Manifests(s) : theirs[p] = base[p]
      BY <2>1, <2>4
    <3> QED BY <1>1, <3>1
  <2>5. CASE ours[tag] = theirs[tag]
    <3>1. \A p \in Manifests(s) : ours[p] = theirs[p]
      BY <2>1, <2>5
    <3> QED BY <1>1, <3>1
  <2> QED BY <2>2, <2>3, <2>4, <2>5
<1> QED BY <1>2, <1>3

\* Pure is a matter of the manifests.
LEMMA SamePure ==
  ASSUME NEW s \in Service, NEW t, NEW u, Pure(u, s), \A p \in Manifests(s) : t[p] = u[p]
  PROVE  Pure(t, s)
  BY DEF Pure

LEMMA MergePure ==
  ASSUME Tagged, NEW s \in Service, NEW base, NEW ours, NEW theirs,
         Pure(base, s), Pure(ours, s), Pure(theirs, s), ~Conflict(base, ours, theirs)
  PROVE  Pure(Merged(base, ours, theirs), s)
<1> DEFINE m == Merged(base, ours, theirs)
<1>1. \/ \A p \in Manifests(s) : m[p] = ours[p]
      \/ \A p \in Manifests(s) : m[p] = theirs[p] /\ ours[p] = base[p]
  BY MergeSides
<1> HIDE DEF m
<1>2. Pure(m, s)
  BY <1>1, SamePure
<1> QED BY <1>2 DEF m

\* A build writes all manifests of its service, and none of another.
LEMMA CopyPure ==
  ASSUME Tagged, NEW s \in Service, NEW b \in Build, NEW t, Pure(t, s)
  PROVE  Pure(Copied(b, t), s)
<1> DEFINE u == Copied(b, t)
<1>1. \A p \in Manifests(s) : u[p] = IF p \in Writes[b] THEN Rendering[b][p] ELSE t[p]
  BY ManifestPaths DEF Copied
<1> HIDE DEF u
<1>2. CASE b \in Deploying(s)
  <2>1. \A p \in Manifests(s) : u[p] = Rendering[b][p]
    BY <1>1, <1>2, ManifestPaths
  <2> QED BY <1>2, <2>1 DEF Pure, u
<1>3. CASE b \notin Deploying(s)
  <2>1. \A p \in Manifests(s) : p \notin Writes[b]
    BY <1>3, NamesApart DEF Manifests, Deploying
  <2> QED BY <1>1, <2>1, SamePure DEF u
<1> QED BY <1>2, <1>3

LEMMA PureStep ==
  ASSUME Tagged, IInv, IInv', PureInv, [Next]_vars
  PROVE  PureInv'
<1> SUFFICES ASSUME NEW s \in Service
             PROVE  /\ \A e \in Env : \A i \in 0..Tip(e)' : Pure(At(e, i)', s)
                    /\ \A b \in Build : Pure(clone'[b].tree, s)
  BY DEF PureInv, Pure, Manifests, Deploying
<1>1. ASSUME NEW e \in Env, NEW i \in 0..Tip(e)'
      PROVE  Pure(At(e, i)', s)
  <2>1. /\ \A j \in 0..Tip(e) : At(e, j)' = At(e, j)
        /\ Tip(e) \in Nat /\ Tip(e)' \in Nat
    BY BranchStays
  <2>2. CASE i <= Tip(e)
    <3>1. i \in 0..Tip(e)
      BY <2>1, <2>2
    <3>2. Pure(At(e, i), s) /\ At(e, i)' = At(e, i)
      BY <2>1, <3>1 DEF PureInv
    <3> QED BY <3>2, SamePure
  <2>3. CASE i > Tip(e)
    <3>1. branch'[e] # branch[e]
      BY <2>1, <2>3 DEF Tip
    <3>2. PICK b \in Build : Push(b)
      BY <3>1, Others DEF Next, vars, Sync
    <3>3. At(e, Tip(e))' = clone[b].tree /\ Tip(e)' = Tip(e) + 1
      BY <3>1, <3>2, PushExtends DEF IInv
    <3>4. i = Tip(e)'
      BY <2>1, <2>3, <3>3
    <3>5. At(e, i)' = clone[b].tree
      BY <3>3, <3>4 DEF At
    <3>6. Pure(clone[b].tree, s)
      BY DEF PureInv
    <3> QED BY <3>5, <3>6, SamePure
  <2> QED BY <2>1, <2>2, <2>3
<1>2. ASSUME NEW b \in Build
      PROVE  Pure(clone'[b].tree, s)
  <2>1. Pure(clone[b].tree, s)
    BY DEF PureInv
  <2>2. /\ Pure(Original, s)
        /\ clone[b].base \in 0..Tip(stage[b]) /\ stage[b] \in Env /\ Tip(stage[b]) \in 0..Tip(stage[b])
    BY Own DEF Pure
  <2>3. Pure(Deployed(stage[b]), s) /\ Pure(At(stage[b], clone[b].base), s)
    BY <2>2 DEF PureInv, Deployed
  <2>4. clone'[b] = clone[b] \/ NextStage(b) \/ Checkout(b) \/ Commit(b) \/ Pull(b)
    <3>1. CASE BuildStep(b)
      BY <3>1 DEF BuildStep, Push, Fail
    <3> QED BY <3>1, OtherStays
  <2>5. CASE NextStage(b)
    <3>1. clone'[b].tree = Original
      BY <2>5 DEF NextStage, NoClone, IInv, TypeOK
    <3> QED BY <2>2, <3>1
  <2>6. CASE Checkout(b)
    BY <2>3, <2>6, CheckoutClone
  <2>7. CASE Commit(b)
    BY <2>1, <2>7, CommitClone, CopyPure
  <2>8. CASE Pull(b)
    <3>1. CASE ~Exists(stage[b])
      BY <2>1, <2>8, <3>1, PullClone
    <3>2. CASE Exists(stage[b])
      BY <2>1, <2>3, <2>8, <3>2, PullClone, MergePure
    <3> QED BY <3>1, <3>2
  <2> QED BY <2>1, <2>4, <2>5, <2>6, <2>7, <2>8
<1> QED BY <1>1, <1>2

LEMMA PureInit == Init => PureInv
<1> SUFFICES ASSUME Init, NEW s \in Service PROVE
             /\ \A e \in Env : \A i \in 0..Tip(e) : Pure(At(e, i), s)
             /\ \A b \in Build : Pure(clone[b].tree, s)
  BY DEF PureInv
<1>1. Pure(Original, s)
  BY DEF Pure
<1>2. \A e \in Env : \A i \in 0..Tip(e) : At(e, i) = Original
  BY DEF Init, Tip, At
<1>3. \A b \in Build : clone[b].tree = Original
  BY DEF Init, NoClone
<1> QED BY <1>1, <1>2, <1>3

\* What Flux applies of a service was rendered by one build, however the pushes
\* and merges of its builds interleave.
THEOREM NeverMixed == Tagged => (Spec => []OneBuild)
<1> SUFFICES ASSUME Tagged PROVE Spec => []OneBuild
  OBVIOUS
<1>1. Init => PureInv
  BY PureInit
<1>2. IInv /\ IInv' /\ PureInv /\ [Next]_vars => PureInv'
  BY PureStep
<1>3. IInv /\ PureInv => OneBuild
  <2> SUFFICES ASSUME IInv, PureInv, NEW e \in Env, NEW s \in Service
               PROVE  \/ \E b \in Deploying(s) : \A p \in Writes[b] \cap Registry :
                            At(e, applied[e])[p] = Rendering[b][p]
                      \/ \A p \in Manifests(s) : At(e, applied[e])[p] = Original[p]
    BY DEF OneBuild
  <2>1. applied[e] \in 0..Tip(e)
    BY Positions DEF IInv, TypeOK
  <2>2. Pure(At(e, applied[e]), s)
    BY <2>1 DEF PureInv
  <2> QED BY <2>2, ManifestPaths DEF Pure
<1> QED BY <1>1, <1>2, <1>3, Invariance, PTL DEF Spec

-----------------------------------------------------------------------------
(* The environments in turn.                                               *)

Has(t, b) == \A p \in Writes[b] \cap Registry : t[p] = Rendering[b][p]

\* What b has rendered is in its clone, or it was in the branch already.
SeenInv ==
  \A b \in Build : step[b] \in {"committed", "pulled"} =>
    \/ Has(clone[b].tree, b)
    \/ \E i \in 1..clone[b].base : Has(At(stage[b], i), b)

ReceivedInv ==
  \A e \in Env, b \in Build : DeployedTo(b, e) => \E i \in 1..Tip(e) : Has(At(e, i), b)

\* A build has deployed to an environment once it has pushed there, for good.
LEMMA DeployedBy ==
  ASSUME IInv, [Next]_vars, NEW b \in Build, NEW e \in Env
  PROVE  DeployedTo(b, e)' <=> DeployedTo(b, e) \/ (Push(b) /\ stage[b] = e)
<1>1. stage[b] \in 1..Environments /\ e \in 1..Environments /\ Environments \in Nat
  BY Own, GitOpsAssumption DEF Env
<1>2. step \in [Build -> Step] /\ stage \in [Build -> Env]
  BY DEF IInv, TypeOK
<1>3. CASE BuildStep(b)
  <2>1. CASE NextStage(b)
    <3>1. stage'[b] = stage[b] + 1 /\ step'[b] = "waiting" /\ step[b] = "deployed"
      BY <1>2, <2>1 DEF NextStage, MayProceed, Goes
    <3> QED BY <1>1, <2>1, <3>1 DEF DeployedTo, Push
  <2>2. CASE Push(b)
    BY <1>2, <2>2 DEF Push, Goes, DeployedTo
  <2>3. CASE Checkout(b) \/ Commit(b) \/ Pull(b)
    BY <1>2, <2>3 DEF Checkout, Commit, Pull, Push, Goes, DeployedTo
  <2>4. CASE Fail(b)
    <3>1. step[b] # "deployed" /\ step'[b] = "failed" /\ stage' = stage
      BY <1>2, <2>4 DEF Fail, Rejected, Goes
    <3> QED BY <3>1, <1>2, <2>4 DEF Push, Goes, DeployedTo
  <2> QED BY <1>3, <2>1, <2>2, <2>3, <2>4 DEF BuildStep
<1>4. CASE ~BuildStep(b)
  <2>1. stage'[b] = stage[b] /\ step'[b] = step[b]
    BY <1>4, OtherStays
  <2> QED BY <1>4, <2>1 DEF DeployedTo, BuildStep
<1> QED BY <1>3, <1>4

LEMMA CopyHas ==
  ASSUME NEW b \in Build, NEW t
  PROVE  \A p \in Writes[b] : Copied(b, t)[p] = Rendering[b][p]
  BY GitOpsAssumption DEF Copied

LEMMA SeenStep ==
  ASSUME Tagged, IInv, PureInv, SeenInv, [Next]_vars
  PROVE  SeenInv'
<1> DEFINE Next_At(e, i) == IF i = 0 THEN Original ELSE branch'[e][i]
<1> SUFFICES ASSUME NEW b \in Build, step'[b] \in {"committed", "pulled"}
             PROVE  \/ Has(clone'[b].tree, b)
                    \/ \E i \in 1..clone'[b].base : Has(Next_At(stage'[b], i), b)
  BY DEF SeenInv, Has, At
<1>1. /\ stage[b] \in Env /\ clone[b].base \in 0..Tip(stage[b]) /\ Tip(stage[b]) \in Nat
      /\ ServiceOf[b] \in Service
  BY Own, GitOpsAssumption
<1>2. \A i \in 0..Tip(stage[b]) : Next_At(stage[b], i) = At(stage[b], i)
  BY <1>1, BranchStays DEF At
<1>3. CASE ~BuildStep(b)
  <2>1. stage'[b] = stage[b] /\ clone'[b] = clone[b] /\ step'[b] = step[b]
    BY <1>3, OtherStays
  <2>2. CASE Has(clone[b].tree, b)
    BY <2>1, <2>2
  <2>3. ASSUME NEW i \in 1..clone[b].base, Has(At(stage[b], i), b)
        PROVE  \E j \in 1..clone'[b].base : Has(Next_At(stage'[b], j), b)
    <3>1. i \in 1..clone'[b].base /\ Next_At(stage'[b], i) = At(stage[b], i)
      BY <1>1, <1>2, <2>1
    <3> HIDE DEF Next_At
    <3> QED BY <2>3, <3>1
  <2> QED BY <2>1, <2>2, <2>3 DEF SeenInv
<1>4. CASE Commit(b)
  BY <1>4, CommitClone, CopyHas DEF Has
<1>5. CASE Pull(b)
  <2> DEFINE e == stage[b]
  <2>1. /\ step[b] = "committed" /\ stage' = stage /\ branch' = branch
        /\ \A i : Next_At(stage'[b], i) = At(e, i)
    BY <1>5, PullClone DEF At
  <2>2. CASE ~Exists(e)
    <3>1. clone'[b] = clone[b]
      BY <1>5, <2>2, PullClone
    <3> QED BY <2>1, <3>1 DEF SeenInv, Has
  <2>3. CASE Exists(e)
    <3> DEFINE base == At(e, clone[b].base)
               ours == clone[b].tree
               merged == Merged(base, ours, Deployed(e))
    <3>1. clone'[b].tree = merged /\ clone'[b].base = Tip(e) /\ ~Conflict(base, ours, Deployed(e))
      BY <1>5, <2>3, PullClone
    <3>2. CASE \E i \in 1..clone[b].base : Has(At(e, i), b)
      <4>1. PICK i \in 1..clone[b].base : Has(At(e, i), b)
        BY <3>2
      <4>2. i \in 1..Tip(e) /\ Has(Next_At(stage'[b], i), b)
        BY <1>1, <2>1, <4>1
      <4> QED BY <3>1, <4>2
    <3>3. CASE Has(ours, b)
      <4> DEFINE s == ServiceOf[b]
      <4>1. CASE b \notin Deploying(s)
        BY <3>1, <4>1 DEF Deploying, Has
      <4>2. CASE b \in Deploying(s)
        <5>1. Pure(base, s) /\ Pure(ours, s) /\ Pure(Deployed(e), s)
          <6>1. Tip(e) \in 0..Tip(e)
            BY <1>1
          <6> QED BY <1>1, <6>1 DEF PureInv, Deployed
        <5>2. Writes[b] \cap Registry = Manifests(s)
          BY <1>1, <4>2, ManifestPaths
        <5> HIDE DEF base, ours
        <5>3. \/ \A p \in Manifests(s) : merged[p] = ours[p]
              \/ \A p \in Manifests(s) : ours[p] = base[p]
          BY <1>1, <3>1, <5>1, MergeSides
        <5> HIDE DEF merged
        <5>4. CASE \A p \in Manifests(s) : merged[p] = ours[p]
          BY <3>1, <3>3, <5>2, <5>4 DEF Has
        <5>5. CASE \A p \in Manifests(s) : ours[p] = base[p]
          <6>1. Has(base, b)
            BY <3>3, <5>2, <5>5 DEF Has
          <6>2. clone[b].base # 0
            <7>1. PICK tag \in Manifests(s) : Rendering[b][tag] # Original[tag]
              BY <1>1, <4>2, TagTells
            <7> QED BY <5>2, <6>1, <7>1 DEF base, At, Has
          <6>3. clone[b].base \in 1..clone'[b].base
            BY <1>1, <3>1, <6>2
          <6>4. Has(Next_At(stage'[b], clone[b].base), b)
            BY <2>1, <6>1 DEF base
          <6> HIDE DEF Next_At
          <6> QED BY <6>3, <6>4
        <5> QED BY <5>3, <5>4, <5>5
      <4> QED BY <4>1, <4>2
    <3> QED BY <2>1, <3>2, <3>3 DEF SeenInv
  <2> QED BY <2>2, <2>3
<1>6. CASE BuildStep(b) /\ ~Commit(b) /\ ~Pull(b)
  BY <1>6 DEF BuildStep, NextStage, Checkout, Push, Fail, Goes, IInv, TypeOK
<1> QED BY <1>3, <1>4, <1>5, <1>6

LEMMA ReceivedStep ==
  ASSUME IInv, AheadInv, SeenInv, ReceivedInv, [Next]_vars
  PROVE  ReceivedInv'
<1> SUFFICES ASSUME NEW e \in Env, NEW b \in Build, DeployedTo(b, e)'
             PROVE  \E i \in 1..Tip(e)' : Has(At(e, i)', b)
  BY DEF ReceivedInv, Has
<1>1. /\ \A i \in 0..Tip(e) : At(e, i)' = At(e, i)
      /\ Tip(e) <= Tip(e)' /\ Tip(e) \in Nat /\ Tip(e)' \in Nat
  BY BranchStays
<1>2. ASSUME NEW i \in 1..Tip(e), Has(At(e, i), b)
      PROVE  \E j \in 1..Tip(e)' : Has(At(e, j)', b)
  <2>1. i \in 1..Tip(e)' /\ At(e, i)' = At(e, i)
    BY <1>1
  <2> QED BY <1>2, <2>1 DEF Has
<1>3. CASE DeployedTo(b, e)
  BY <1>2, <1>3 DEF ReceivedInv
<1>4. CASE Push(b) /\ stage[b] = e
  <2>1. /\ step[b] = "pulled" /\ clone[b].base = Tip(e)
        /\ Deployed(e)' = clone[b].tree /\ Tip(e)' > 0
    <3>1. /\ step[b] = "pulled" /\ clone[b].base = Tip(e) /\ stage' = stage
          /\ Deployed(stage[b])' = clone[b].tree /\ Exists(stage[b])'
      BY <1>4, PushTip
    <3> QED BY <1>4, <3>1 DEF Deployed, At, Tip, Exists
  <2>2. CASE Has(clone[b].tree, b)
    <3>1. Tip(e)' \in 1..Tip(e)'
      BY <1>1, <2>1
    <3>2. \E j \in 1..Tip(e)' : j = Tip(e)'
      BY <3>1
    <3>3. PICK j \in 1..Tip(e)' : j = Tip(e)'
      BY <3>2
    <3>4. At(e, j)' = clone[b].tree
      BY <2>1, <3>3 DEF Deployed, At
    <3> QED BY <2>2, <3>4 DEF Has
  <2>3. CASE \E i \in 1..clone[b].base : Has(At(stage[b], i), b)
    BY <1>2, <1>4, <2>1, <2>3
  <2> QED BY <2>1, <2>2, <2>3 DEF SeenInv
<1> QED BY <1>3, <1>4, DeployedBy

\* No environment receives manifests for Flux that the one before it never had.
THEOREM DeployedInTurn == Tagged => (Spec => []InTurn)
<1> SUFFICES ASSUME Tagged PROVE Spec => []InTurn
  OBVIOUS
<1> DEFINE Inv == PureInv /\ AheadInv /\ SeenInv /\ ReceivedInv
<1>1. Init => Inv
  <2>1. Init => PureInv
    BY PureInit
  <2>2. Init => AheadInv /\ SeenInv
    BY DEF Init, AheadInv, SeenInv
  <2>3. Init => ReceivedInv
    BY GitOpsAssumption DEF Init, ReceivedInv, DeployedTo, Env
  <2> QED BY <2>1, <2>2, <2>3
<1>2. IInv /\ IInv' /\ Inv /\ [Next]_vars => Inv'
  BY PureStep, AheadStep, SeenStep, ReceivedStep
<1>3. IInv /\ Inv => InTurn
  <2> SUFFICES ASSUME IInv, Inv, NEW e \in Env \ {1}, NEW b \in Build, DeployedTo(b, e)
               PROVE  \E i \in 1..Tip(e - 1) :
                        \A p \in Writes[b] \cap Registry : At(e - 1, i)[p] = Rendering[b][p]
    BY DEF InTurn
  <2>1. e - 1 \in Env /\ DeployedTo(b, e - 1)
    <3>1. stage[b] \in 1..Environments /\ e \in 1..Environments /\ Environments \in Nat
      BY Own, GitOpsAssumption DEF Env
    <3>2. e - 1 \in Env /\ stage[b] > e - 1
      BY <3>1 DEF DeployedTo, Env
    <3> QED BY <3>2 DEF DeployedTo
  <2> QED BY <2>1 DEF ReceivedInv, Has
<1> HIDE DEF Inv
<1> QED BY <1>1, <1>2, <1>3, Invariance, PTL DEF Spec

-----------------------------------------------------------------------------
(* The builds of a service, one after the other.                           *)

Started(b) == stage[b] > 1 \/ step[b] # "waiting"
Working(b) == step[b] \in {"cloned", "committed", "pulled"}

\* A build begins when those before it are over.
OrderInv ==
  \A b, c \in Build : ServiceOf[b] \in InOrder /\ Started(b) /\ Newer(b, c) => Over(c)

\* Nobody touches the files of a service while one of its builds is at work, and
\* what it has written stays in its clone.
UntouchedInv ==
  \A b \in Build : ServiceOf[b] \in InOrder =>
    /\ Working(b) =>
         \A p \in Writes[b] : At(stage[b], clone[b].base)[p] = Deployed(stage[b])[p]
    /\ step[b] \in {"committed", "pulled"} =>
         \A p \in Writes[b] : clone[b].tree[p] = Rendering[b][p]

LEMMA OverStays ==
  ASSUME IInv, [Next]_vars, NEW c \in Build, Over(c)
  PROVE  Over(c)' /\ ~BuildStep(c)
<1>1. ~BuildStep(c)
  BY GitOpsAssumption
     DEF Over, BuildStep, NextStage, MayProceed, Checkout, Commit, Pull, Push, Fail, Rejected
<1>2. stage'[c] = stage[c] /\ step'[c] = step[c]
  BY <1>1, OtherStays
<1> QED BY <1>1, <1>2 DEF Over

LEMMA OrderStep ==
  ASSUME IInv, OrderInv, [Next]_vars
  PROVE  OrderInv'
<1> SUFFICES ASSUME NEW b \in Build, NEW c \in Build, ServiceOf[b] \in InOrder, Started(b)',
                    Newer(b, c)
             PROVE  Over(c)'
  BY DEF OrderInv, Newer
<1>1. CASE Over(c)
  BY <1>1, OverStays
<1>2. CASE ~Over(c)
  <2>1. ~Started(b)
    BY <1>2 DEF OrderInv
  <2>2. stage[b] \in 1..Environments
    BY Own DEF Env
  <2>3. stage[b] = 1 /\ step[b] = "waiting"
    BY <2>1, <2>2, GitOpsAssumption DEF Started
  <2>4. BuildStep(b)
    <3>1. ASSUME ~BuildStep(b) PROVE Started(b)
      BY <3>1, OtherStays DEF Started
    <3> QED BY <2>1, <3>1
  <2>5. Checkout(b)
    BY <2>3, <2>4 DEF BuildStep, NextStage, MayProceed, Commit, Pull, Push, Fail, Rejected
  <2> QED BY <1>2, <2>3, <2>5 DEF Checkout
<1> QED BY <1>1, <1>2

\* Two builds of a service are not at work at once.
LEMMA OneAtWork ==
  ASSUME OrderInv, NEW a \in Build, NEW b \in Build, a # b, ServiceOf[a] = ServiceOf[b],
         ServiceOf[a] \in InOrder, step[a] = "pulled"
  PROVE  ~Working(b) /\ (Started(b) => Number[a] > Number[b])
<1>1. Number[a] > Number[b] \/ Number[b] > Number[a]
  BY NumbersApart, GitOpsAssumption
<1>2. Started(a) /\ ~Over(a)
  BY DEF Started, Over
<1>3. ASSUME Number[a] > Number[b] PROVE ~Working(b)
  BY <1>2, <1>3 DEF OrderInv, Newer, Over, Working
<1>4. ASSUME Number[b] > Number[a] PROVE ~Started(b)
  BY <1>2, <1>4 DEF OrderInv, Newer
<1>5. Working(b) => Started(b)
  BY DEF Working, Started
<1> QED BY <1>1, <1>3, <1>4, <1>5

\* A push writes files of its own service only.
LEMMA PushWrites ==
  ASSUME IInv, AheadInv, NEW a \in Build, Push(a), NEW e \in Env, NEW p \in Path
  PROVE  \/ Deployed(e)'[p] = Deployed(e)[p]
         \/ /\ e = stage[a] /\ p \in Writes[a] /\ Deployed(e)'[p] = Rendering[a][p]
<1>1. CASE e # stage[a]
  BY <1>1, PushTip
<1>2. CASE e = stage[a]
  <2>1. /\ Deployed(e)' = clone[a].tree /\ step[a] = "pulled" /\ clone[a].base = Tip(e)
    <3>1. /\ Deployed(stage[a])' = clone[a].tree /\ step[a] = "pulled" /\ stage' = stage
          /\ clone[a].base = Tip(stage[a])
      BY PushTip
    <3> QED BY <1>2, <3>1 DEF Deployed, At, Tip
  <2>2. Explained(a, p)
    BY <2>1 DEF IInv, CloneInv
  <2> QED BY <1>2, <2>1, <2>2 DEF Explained, Deployed
<1> QED BY <1>1, <1>2

LEMMA UntouchedStep ==
  ASSUME IInv, AheadInv, OrderInv, UntouchedInv, [Next]_vars
  PROVE  UntouchedInv'
<1> SUFFICES ASSUME NEW b \in Build, ServiceOf[b] \in InOrder, NEW p \in Writes[b]
             PROVE  /\ Working(b)' =>
                         At(stage[b], clone[b].base)'[p] = Deployed(stage[b])'[p]
                    /\ step'[b] \in {"committed", "pulled"} => clone'[b].tree[p] = Rendering[b][p]
  BY DEF UntouchedInv
<1>1. p \in Path /\ stage[b] \in Env
  BY Own, GitOpsAssumption
<1>2. CASE ~BuildStep(b)
  <2>1. /\ stage'[b] = stage[b] /\ clone'[b] = clone[b] /\ step'[b] = step[b]
        /\ At(stage[b], clone[b].base)' = At(stage[b], clone[b].base)
    BY <1>2, OtherStays
  <2>2. ASSUME Working(b) PROVE Deployed(stage[b])'[p] = Deployed(stage[b])[p]
    <3> DEFINE e == stage[b]
    <3>1. Deployed(stage[b])' = IF Len(branch'[e]) = 0 THEN Original ELSE branch'[e][Len(branch'[e])]
      BY <2>1 DEF Deployed, At, Tip
    <3>2. CASE branch' = branch
      BY <3>1, <3>2 DEF Deployed, At, Tip
    <3>3. ASSUME NEW a \in Build, Push(a)
          PROVE  Deployed(stage[b])'[p] = Deployed(stage[b])[p]
      <4>1. a # b /\ step[a] = "pulled"
        BY <1>2, <3>3 DEF BuildStep, Push
      <4>2. p \notin Writes[a]
        <5>1. ASSUME p \in Writes[a] PROVE FALSE
          <6>1. ServiceOf[a] = ServiceOf[b]
            BY <5>1, NamesApart
          <6> QED BY <2>2, <4>1, <6>1, OneAtWork
        <5> QED BY <5>1
      <4>3. \A d \in Env : (IF Len(branch'[d]) = 0 THEN Original
                            ELSE branch'[d][Len(branch'[d])])[p] = Deployed(d)[p]
        BY <1>1, <3>3, <4>2, PushWrites DEF Deployed, At, Tip
      <4> QED BY <1>1, <3>1, <4>3
    <3>4. branch' = branch \/ \E a \in Build : Push(a)
      BY Others DEF Next, vars, Sync
    <3> QED BY <3>2, <3>3, <3>4
  <2> QED BY <2>1, <2>2 DEF UntouchedInv, Working
<1>3. CASE Checkout(b)
  <2>1. step'[b] = "cloned" /\ stage' = stage /\ branch' = branch /\ clone'[b].base = Tip(stage[b])
    BY <1>3, CheckoutClone
  <2> QED BY <2>1 DEF Deployed, At, Tip
<1>4. CASE Commit(b)
  <2>1. /\ step[b] = "cloned" /\ step'[b] = "committed" /\ stage' = stage /\ branch' = branch
        /\ clone'[b].base = clone[b].base /\ clone'[b].tree = Copied(b, clone[b].tree)
    BY <1>4, CommitClone
  <2>2. At(stage[b], clone[b].base)[p] = Deployed(stage[b])[p]
    BY <2>1 DEF UntouchedInv, Working
  <2> QED BY <2>1, <2>2, CopyHas DEF Deployed, At, Tip
<1>5. CASE Pull(b)
  <2> DEFINE e == stage[b]
  <2>1. /\ step[b] = "committed" /\ step'[b] = "pulled" /\ stage' = stage /\ branch' = branch
    BY <1>5, PullClone
  <2>2. /\ At(e, clone[b].base)[p] = Deployed(e)[p]
        /\ clone[b].tree[p] = Rendering[b][p]
    BY <2>1 DEF UntouchedInv, Working
  <2>3. CASE ~Exists(e)
    <3>1. clone'[b] = clone[b]
      BY <1>5, <2>3, PullClone
    <3> QED BY <2>1, <2>2, <3>1 DEF Deployed, At, Tip
  <2>4. CASE Exists(e)
    <3>1. /\ clone'[b].tree = Merged(At(e, clone[b].base), clone[b].tree, Deployed(e))
          /\ clone'[b].base = Tip(e)
      BY <1>5, <2>4, PullClone
    <3>2. clone'[b].tree[p] = Rendering[b][p]
      BY <1>1, <2>2, <3>1 DEF Merged
    <3> QED BY <2>1, <3>1, <3>2 DEF Deployed, At, Tip
  <2> QED BY <2>3, <2>4
<1>6. CASE NextStage(b) \/ Push(b) \/ Fail(b)
  BY <1>6 DEF NextStage, Push, Fail, Goes, IInv, TypeOK, Working
<1> QED BY <1>2, <1>3, <1>4, <1>5, <1>6 DEF BuildStep

LEMMA NewestStep ==
  ASSUME IInv, AheadInv, OrderInv, UntouchedInv, NewestDeployed, [Next]_vars
  PROVE  NewestDeployed'
<1> SUFFICES ASSUME NEW e \in Env, NEW b \in Build, ServiceOf[b] \in InOrder, DeployedTo(b, e)',
                    NEW p \in Writes[b],
                    \A c \in Build : Newer(c, b) /\ p \in Writes[c] => ~DeployedTo(c, e)'
             PROVE  Deployed(e)'[p] = Rendering[b][p]
  BY DEF NewestDeployed, Newer
<1>1. p \in Path
  BY GitOpsAssumption
<1>2. \A c \in Build : DeployedTo(c, e) => DeployedTo(c, e)'
  BY DeployedBy
<1>3. DeployedTo(b, e) => Deployed(e)[p] = Rendering[b][p]
  BY <1>2 DEF NewestDeployed
<1>4. ASSUME NEW a \in Build, Push(a)
      PROVE  Deployed(e)'[p] = Rendering[b][p]
  <2>1. step[a] = "pulled" /\ stage[a] \in Env
    BY <1>4, Own DEF Push
  <2>2. CASE a = b /\ stage[b] = e
    <3>1. /\ clone[b].tree[p] = Rendering[b][p]
          /\ Deployed(stage[b])' = clone[b].tree /\ stage' = stage
      BY <1>4, <2>1, <2>2, PushTip DEF UntouchedInv
    <3>2. Deployed(e)' = clone[b].tree
      BY <2>2, <3>1 DEF Deployed, At, Tip
    <3> QED BY <3>1, <3>2
  <2>3. CASE ~(a = b /\ stage[b] = e)
    <3>1. DeployedTo(b, e)
      <4>1. ASSUME Push(b), stage[b] = e PROVE FALSE
        <5>1. a # b
          BY <2>3, <4>1
        <5>2. step'[b] = step[b]
          BY <1>4, <5>1, Others DEF BuildStep
        <5> QED BY <4>1, <5>2, PushTip
      <4> QED BY <4>1, DeployedBy
    <3>2. Deployed(e)[p] = Rendering[b][p]
      BY <1>3, <3>1
    <3>3. ASSUME e = stage[a], p \in Writes[a] PROVE FALSE
      <4>1. a # b /\ ServiceOf[a] = ServiceOf[b]
        BY <2>3, <3>3, NamesApart
      <4>2. Started(b)
        <5>1. stage[b] \in 1..Environments /\ e \in 1..Environments /\ Environments \in Nat
          BY Own, GitOpsAssumption DEF Env
        <5> QED BY <3>1, <5>1 DEF DeployedTo, Started
      <4>3. Newer(a, b)
        BY <2>1, <4>1, <4>2, OneAtWork DEF Newer
      <4>4. DeployedTo(a, e)'
        BY <1>4, <3>3, DeployedBy
      <4> QED BY <3>3, <4>3, <4>4
    <3> QED BY <1>1, <1>4, <3>2, <3>3, PushWrites
  <2> QED BY <2>2, <2>3
<1>5. CASE \A a \in Build : ~Push(a)
  <2>1. branch' = branch
    BY <1>5, Others DEF Next, vars, Sync
  <2>2. DeployedTo(b, e)
    BY <1>5, DeployedBy
  <2> QED BY <1>3, <2>1, <2>2 DEF Deployed, At, Tip
<1> QED BY <1>4, <1>5

\* An environment holds what the newest build of each service rendered, where the
\* builds of a service run one after the other.
THEOREM NewestStays == Spec => []NewestDeployed
<1> DEFINE Inv == AheadInv /\ OrderInv /\ UntouchedInv /\ NewestDeployed
<1>1. Init => Inv
  <2>1. Init => AheadInv /\ OrderInv /\ UntouchedInv
    BY DEF Init, AheadInv, OrderInv, UntouchedInv, Started, Working
  <2>2. Init => NewestDeployed
    BY GitOpsAssumption DEF Init, NewestDeployed, DeployedTo, Env
  <2> QED BY <2>1, <2>2
<1>2. IInv /\ Inv /\ [Next]_vars => Inv'
  BY AheadStep, OrderStep, UntouchedStep, NewestStep
<1>3. Inv => NewestDeployed
  OBVIOUS
<1> HIDE DEF Inv
<1> QED BY <1>1, <1>2, <1>3, Invariance, PTL DEF Spec
=============================================================================
