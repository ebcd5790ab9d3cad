-------------------------- MODULE MigrationProofs --------------------------
(***************************************************************************)
(* Proofs about the checked migration protocol, for any number of          *)
(* migrators, any catalogs, policies and faults.                           *)
(***************************************************************************)
EXTENDS MigrationApply, CatalogProofs, TLAPS

Unlocked == {"idle", "planned", "authorized"}
AfterPolicy == {"authorized", "inspect", "step", "verify", "commit", "abort"}
AfterPrecondition == {"step", "verify", "commit"}

-----------------------------------------------------------------------------
(***************************************************************************)
(* The inductive invariant.  It says of a migrator, wherever it is, what   *)
(* the checks it has passed have established: its plan is the exact        *)
(* difference of two catalogs, the policy admitted it, the catalog is      *)
(* still its source, the working copy has reached its target.              *)
(***************************************************************************)
IsPlan(p) ==
  /\ IsSnapshot(p.source) /\ IsSnapshot(p.target)
  /\ p.steps = DiffCatalog(p.source.entities, p.target.entities)

Snapshots == IsSnapshot(current) /\ IsSnapshot(working)

Clients ==
  /\ DOMAIN plan = Migrators /\ DOMAIN approval = Migrators /\ DOMAIN policy = Migrators
  /\ \A m \in Migrators : pc[m] # "idle" => IsPlan(plan[m])

PolicyPassed ==
  \A m \in Migrators : pc[m] \in AfterPolicy => Authorized(policy[m], approval[m], plan[m])

PreconditionPassed ==
  \A m \in Migrators :
    /\ pc[m] = "inspect" => working = current /\ completed = 0
    /\ pc[m] \in AfterPrecondition =>
         current = plan[m].source /\ completed <= Len(plan[m].steps)
    /\ pc[m] = "abort" => working = current \/ current = plan[m].source

ConvergencePassed == \A m \in Migrators : pc[m] = "commit" => working = plan[m].target

MInv ==
  TypeOK /\ Snapshots /\ Clients /\ PolicyPassed /\ PreconditionPassed /\ ConvergencePassed

\* A migrator inside the locked part is alone there.
LEMMA LockIsExclusive ==
  ASSUME TypeOK, NEW m \in Migrators, lock = m, NEW n \in Migrators, n # m
  PROVE  pc[n] \in Unlocked
BY DEF TypeOK, Phases, Unlocked

\* The invariant holds initially.
LEMMA InitInv == Init => MInv
<1>. SUFFICES ASSUME Init PROVE MInv
  OBVIOUS
<1>1. TypeOK
  BY MigratorsAssumption, BoundsAssumption DEF Init, TypeOK, Phases, Results
<1>2. Snapshots
  BY SnapshotsAssumption DEF Init, Snapshots
<1>3. Clients /\ PolicyPassed /\ PreconditionPassed /\ ConvergencePassed
  BY DEF Init, Clients, PolicyPassed, PreconditionPassed, ConvergencePassed, AfterPolicy,
         AfterPrecondition
<1>. QED
  BY <1>1, <1>2, <1>3 DEF MInv

\* Planning, approving and authorizing keep the invariant: they touch no backend state, and
\* a migrator moves on only with a plan, or with the policy's consent to it.
LEMMA PrepareInv ==
  ASSUME MInv, NEW m \in Migrators, Prepare(m)
  PROVE  MInv'
<1>. USE DEF MInv
<1>1. ASSUME NEW target \in Targets, NEW limit, NEW declared, MakePlan(m, target, declared, limit)
      PROVE  MInv'
  <2>. DEFINE p == [source |-> current, target |-> target,
                    steps |-> DiffCatalog(current.entities, target.entities)]
  <2>1. IsPlan(p)
    BY SnapshotsAssumption DEF IsPlan, Snapshots
  <2>2. /\ pc[m] = "idle"
        /\ \/ pc' = [pc EXCEPT ![m] = "planned"] /\ plan' = [plan EXCEPT ![m] = p]
              /\ result' = [result EXCEPT ![m] = "planned"]
           \/ pc' = [pc EXCEPT ![m] = "idle"] /\ plan' = plan
              /\ result' = [result EXCEPT ![m] = "unplanned"]
        /\ plans[m] < MaxPlans /\ plans' = [plans EXCEPT ![m] = @ + 1]
        /\ UNCHANGED <<current, working, lock, completed, approval, policy, drifts>>
    BY <1>1 DEF MakePlan, Goto, Return, backendVars
  <2>. HIDE DEF p
  <2>3. TypeOK'
    BY <2>2, BoundsAssumption DEF TypeOK, Phases, Results
  <2>4. Snapshots'
    BY <2>2 DEF Snapshots
  <2>5. Clients'
    BY <2>1, <2>2 DEF Clients, TypeOK
  <2>6. \A n \in Migrators : pc'[n] \notin {"idle", "planned"} => pc'[n] = pc[n] /\ plan'[n] = plan[n]
    BY <2>2 DEF Clients, TypeOK
  <2>7. PolicyPassed'
    BY <2>2, <2>6 DEF PolicyPassed, AfterPolicy
  <2>8. PreconditionPassed' /\ ConvergencePassed'
    BY <2>2, <2>6 DEF PreconditionPassed, ConvergencePassed, AfterPrecondition
  <2>. QED
    BY <2>3, <2>4, <2>5, <2>7, <2>8
<1>2. ASSUME NEW steps, Approve(m, steps)
      PROVE  MInv'
  <2>1. /\ pc[m] = "planned"
        /\ approval' = [approval EXCEPT ![m] = [identity |-> Identity(plan[m]), steps |-> steps]]
        /\ UNCHANGED <<current, working, lock, completed, pc, plan, policy, result, plans, drifts>>
    BY <1>2 DEF Approve, backendVars
  <2>2. TypeOK' /\ Snapshots' /\ Clients' /\ PreconditionPassed' /\ ConvergencePassed'
    BY <2>1 DEF TypeOK, Snapshots, Clients, PreconditionPassed, ConvergencePassed
  <2>3. PolicyPassed'
    BY <2>1 DEF PolicyPassed, AfterPolicy, Clients
  <2>. QED
    BY <2>2, <2>3
<1>3. ASSUME NEW pol \in Policies, NEW limit \in StepLimits, Authorize(m, pol, limit)
      PROVE  MInv'
  <2>1. /\ pc[m] = "planned"
        /\ \/ /\ Authorized(pol, approval[m], plan[m])
              /\ pc' = [pc EXCEPT ![m] = "authorized"] /\ policy' = [policy EXCEPT ![m] = pol]
              /\ result' = result
           \/ /\ pc' = [pc EXCEPT ![m] = "idle"] /\ policy' = policy
              /\ result' = [result EXCEPT ![m] = "denied"]
        /\ UNCHANGED <<current, working, lock, completed, plan, approval, plans, drifts>>
    BY <1>3 DEF Authorize, Goto, Return, backendVars
  <2>2. TypeOK'
    BY <2>1 DEF TypeOK, Phases, Results
  <2>3. Snapshots' /\ Clients'
    BY <2>1 DEF Snapshots, Clients, TypeOK
  <2>4. PolicyPassed'
    BY <2>1 DEF PolicyPassed, AfterPolicy, Clients, TypeOK
  <2>5. PreconditionPassed' /\ ConvergencePassed'
    BY <2>1 DEF PreconditionPassed, ConvergencePassed, AfterPrecondition, TypeOK
  <2>. QED
    BY <2>2, <2>3, <2>4, <2>5
<1>. QED
  BY <1>1, <1>2, <1>3 DEF Prepare

\* Beginning keeps it: whoever takes the lock finds it free, so that nobody else is inside.
LEMMA BeginInv ==
  ASSUME MInv, NEW m \in Migrators, BeginMigration(m) \/ BeginFails(m)
  PROVE  MInv'
<1>. USE DEF MInv
<1>1. CASE BeginMigration(m)
  <2>1. /\ pc[m] = "authorized" /\ lock = NoOne
        /\ lock' = m /\ working' = current /\ completed' = 0
        /\ pc' = [pc EXCEPT ![m] = "inspect"]
        /\ UNCHANGED <<current, result, plan, approval, policy, plans, drifts>>
    BY <1>1 DEF BeginMigration, Goto, ClientUnchanged
  <2>2. \A n \in Migrators : pc[n] \in Unlocked
    BY <2>1, MigratorsAssumption DEF TypeOK, Phases, Unlocked
  <2>3. TypeOK'
    BY <2>1, <2>2 DEF TypeOK, Phases, Unlocked
  <2>4. Snapshots' /\ Clients'
    BY <2>1 DEF Snapshots, Clients, TypeOK
  <2>5. PolicyPassed'
    BY <2>1 DEF PolicyPassed, AfterPolicy, TypeOK
  <2>6. PreconditionPassed' /\ ConvergencePassed'
    BY <2>1, <2>2 DEF PreconditionPassed, ConvergencePassed, AfterPrecondition, TypeOK, Unlocked
  <2>. QED
    BY <2>3, <2>4, <2>5, <2>6
<1>2. CASE BeginFails(m)
  <2>1. /\ pc[m] = "authorized"
        /\ pc' = [pc EXCEPT ![m] = "idle"] /\ result' = [result EXCEPT ![m] = "busy"]
        /\ UNCHANGED <<current, working, lock, completed, plan, approval, policy, plans, drifts>>
    BY <1>2 DEF BeginFails, Return, Goto, ClientUnchanged, backendVars
  <2>2. TypeOK' /\ Snapshots' /\ Clients'
    BY <2>1 DEF TypeOK, Phases, Results, Snapshots, Clients
  <2>3. PolicyPassed' /\ PreconditionPassed' /\ ConvergencePassed'
    BY <2>1 DEF PolicyPassed, AfterPolicy, PreconditionPassed, ConvergencePassed, AfterPrecondition, TypeOK
  <2>. QED
    BY <2>2, <2>3
<1>. QED
  BY <1>1, <1>2

\* A step of the lock holder that moves only its program counter.
LEMMA MoveInv ==
  ASSUME MInv, NEW m \in Migrators, lock = m, NEW phase \in Phases,
         pc[m] \in {"inspect", "step", "verify"},
         pc' = [pc EXCEPT ![m] = phase],
         UNCHANGED <<current, working, lock, completed, result, plan, approval, policy, plans, drifts>>,
         phase \in AfterPolicy \ {"authorized", "inspect"},
         phase \in AfterPrecondition => current = plan[m].source /\ completed <= Len(plan[m].steps),
         phase = "abort" => working = current \/ current = plan[m].source,
         phase = "commit" => working = plan[m].target
  PROVE  MInv'
<1>. USE DEF MInv
<1>1. TypeOK' /\ Snapshots' /\ Clients'
  BY DEF TypeOK, Phases, Snapshots, Clients
<1>2. PolicyPassed'
  BY DEF PolicyPassed, AfterPolicy, TypeOK
<1>3. \A n \in Migrators : pc'[n] = IF n = m THEN phase ELSE pc[n]
  BY DEF TypeOK
<1>4. PreconditionPassed'
  BY <1>3 DEF PreconditionPassed, AfterPolicy, AfterPrecondition
<1>5. ConvergencePassed'
  BY <1>3 DEF ConvergencePassed
<1>. QED
  BY <1>1, <1>2, <1>4, <1>5

\* The precondition is what the exact source contents give; without it the attempt aborts.
LEMMA InspectSourceInv ==
  ASSUME MInv, NEW m \in Migrators, lock = m, InspectSource(m)
  PROVE  MInv'
<1>1. /\ pc[m] = "inspect" /\ working = current /\ completed = 0
      /\ IsPlan(plan[m]) /\ IsSnapshot(current)
  BY DEF InspectSource, MInv, PreconditionPassed, Clients, Snapshots
<1>2. PICK phase \in {"step", "abort"} :
        /\ pc' = [pc EXCEPT ![m] = phase]
        /\ phase = "step" => Precondition(m)
  BY DEF InspectSource, Goto
<1>3. phase = "step" => current = plan[m].source
  <2>1. plan[m].source = Snapshot(plan[m].source.revision, plan[m].source.entities)
    BY <1>1 DEF IsPlan, IsSnapshot
  <2>2. current = Snapshot(current.revision, current.entities)
    BY <1>1 DEF IsSnapshot
  <2>. QED
    BY <1>1, <1>2, <2>1, <2>2 DEF Precondition
<1>4. plan[m].steps \in Seq(AllOps(plan[m].source.entities, plan[m].target.entities))
  BY <1>1, DiffFacts DEF IsPlan, IsSnapshot
<1>5. completed <= Len(plan[m].steps)
  BY <1>1, <1>4, LenProperties
<1>6. UNCHANGED <<current, working, lock, completed, result, plan, approval, policy, plans, drifts>>
  BY DEF InspectSource, backendVars, ClientUnchanged
<1>. QED
  BY <1>1, <1>2, <1>3, <1>5, <1>6, MoveInv DEF AfterPolicy, AfterPrecondition, Phases

\* Steps change the working copy only; each is an operation of the plan.
LEMMA StepInv ==
  ASSUME MInv, NEW m \in Migrators, lock = m, ApplyStep(m) \/ StepFails(m) \/ StepsDone(m)
  PROVE  MInv'
<1>1. /\ pc[m] = "step" /\ current = plan[m].source /\ completed <= Len(plan[m].steps)
      /\ IsPlan(plan[m]) /\ IsSnapshot(current) /\ IsSnapshot(working) /\ completed \in Nat
  BY DEF ApplyStep, StepFails, StepsDone, MInv, PreconditionPassed, AfterPrecondition, Clients, Snapshots,
         TypeOK
<1>2. /\ plan[m].steps \in Seq(AllOps(plan[m].source.entities, plan[m].target.entities))
      /\ IsCatalog(plan[m].source.entities) /\ IsCatalog(plan[m].target.entities)
  BY <1>1, DiffFacts DEF IsPlan, IsSnapshot
<1>3. CASE ApplyStep(m)
  <2>. USE DEF MInv
  <2>1. completed + 1 \in 1 .. Len(plan[m].steps)
    BY <1>1, <1>2, <1>3, LenProperties DEF ApplyStep
  <2>2. NextStep(m) \in AllOps(plan[m].source.entities, plan[m].target.entities)
    BY <1>2, <2>1, ElementOfSeq DEF NextStep
  <2>3. IsOperation(NextStep(m))
    BY <1>2, <2>2, DiffOperations
  <2>4. IsCatalog(ApplyOperation(working.entities, NextStep(m)))
    BY <1>1, <1>3, <2>3, AppliedOperation DEF ApplyStep, IsSnapshot
  <2>5. /\ completed' = completed + 1
        /\ \E r : working' = Snapshot(r, ApplyOperation(working.entities, NextStep(m)))
        /\ UNCHANGED <<current, lock, pc, result, plan, approval, policy, plans, drifts>>
    BY <1>3 DEF ApplyStep, ClientUnchanged
  <2>6. IsSnapshot(working')
    BY <2>4, <2>5 DEF IsSnapshot, Snapshot
  <2>7. TypeOK' /\ Snapshots' /\ Clients' /\ PolicyPassed'
    BY <1>1, <2>5, <2>6 DEF TypeOK, Snapshots, Clients, PolicyPassed
  <2>8. \A n \in Migrators : n # m => pc'[n] \in Unlocked
    BY <2>5, LockIsExclusive
  <2>9. PreconditionPassed'
    BY <1>1, <2>1, <2>5, <2>8 DEF PreconditionPassed, AfterPrecondition, Unlocked
  <2>10. ConvergencePassed'
    BY <1>1, <2>5, <2>8 DEF ConvergencePassed, Unlocked
  <2>. QED
    BY <2>7, <2>9, <2>10
<1>4. CASE StepFails(m) \/ StepsDone(m)
  <2>1. PICK phase \in {"abort", "verify"} : pc' = [pc EXCEPT ![m] = phase]
    BY <1>4 DEF StepFails, StepsDone, Goto
  <2>2. UNCHANGED <<current, working, lock, completed, result, plan, approval, policy, plans, drifts>>
    BY <1>4 DEF StepFails, StepsDone, backendVars, ClientUnchanged
  <2>. QED
    BY <1>1, <2>1, <2>2, MoveInv DEF AfterPolicy, AfterPrecondition, Phases
<1>. QED
  BY <1>3, <1>4

\* An empty follow-up difference at the target's revision is the target: nothing else
\* passes the convergence check.
LEMMA InspectFinalInv ==
  ASSUME MInv, NEW m \in Migrators, lock = m, InspectFinal(m)
  PROVE  MInv'
<1>1. /\ pc[m] = "verify" /\ current = plan[m].source /\ completed <= Len(plan[m].steps)
      /\ IsPlan(plan[m]) /\ IsSnapshot(working)
  BY DEF InspectFinal, MInv, PreconditionPassed, AfterPrecondition, Clients, Snapshots
<1>2. PICK phase \in {"commit", "abort"} :
        /\ pc' = [pc EXCEPT ![m] = phase]
        /\ phase = "commit" => Converged(m)
  BY DEF InspectFinal, Goto
<1>3. ASSUME phase = "commit" PROVE working = plan[m].target
  <2>1. IsCatalog(working.entities) /\ IsCatalog(plan[m].target.entities)
    BY <1>1 DEF IsPlan, IsSnapshot
  <2>2. working.entities = plan[m].target.entities /\ working.revision = plan[m].target.revision
    BY <1>2, <1>3, <2>1, DiffIsExact DEF Converged
  <2>3. /\ working = Snapshot(working.revision, working.entities)
        /\ plan[m].target = Snapshot(plan[m].target.revision, plan[m].target.entities)
    BY <1>1 DEF IsPlan, IsSnapshot
  <2>. QED
    BY <2>2, <2>3
<1>4. UNCHANGED <<current, working, lock, completed, result, plan, approval, policy, plans, drifts>>
  BY DEF InspectFinal, backendVars, ClientUnchanged
<1>. QED
  BY <1>1, <1>2, <1>3, <1>4, MoveInv DEF AfterPolicy, AfterPrecondition, Phases

\* An attempt that ends leaves the catalog alone or makes the working copy visible.
LEMMA FinishInv ==
  ASSUME MInv, NEW m \in Migrators, lock = m,
         \/ CommitMigration(m) \/ CommitFails(m)
         \/ AbortMigration(m) \/ AbortFails(m)
  PROVE  MInv'
<1>. USE DEF MInv
<1>1. /\ pc' = [pc EXCEPT ![m] = "idle"]
      /\ \E r \in Results : result' = [result EXCEPT ![m] = r]
      /\ current' \in {current, working} /\ working' \in {working, current} /\ lock' \in {m, NoOne}
      /\ completed' = completed
      /\ UNCHANGED <<plan, approval, policy, plans, drifts>>
  BY DEF CommitMigration, CommitFails, AbortMigration, AbortFails, Return, Goto, ClientUnchanged, Results
<1>2. \A n \in Migrators : pc'[n] \in Unlocked /\ (pc'[n] # "idle" => pc'[n] = pc[n])
  BY <1>1, LockIsExclusive DEF TypeOK, Unlocked
<1>3. TypeOK'
  BY <1>1, <1>2 DEF TypeOK, Phases, Unlocked
<1>4. Snapshots' /\ Clients'
  BY <1>1, <1>2 DEF Snapshots, Clients
<1>5. PolicyPassed'
  BY <1>1, <1>2 DEF PolicyPassed, AfterPolicy
<1>6. PreconditionPassed' /\ ConvergencePassed'
  BY <1>2 DEF PreconditionPassed, ConvergencePassed, AfterPrecondition, Unlocked
<1>. QED
  BY <1>3, <1>4, <1>5, <1>6

\* A change from outside happens while the lock is free, when no precondition is relied on.
LEMMA DriftInv ==
  ASSUME MInv, NEW snapshot \in Drifts, Drift(snapshot)
  PROVE  MInv'
<1>. USE DEF MInv
<1>1. /\ lock = NoOne /\ drifts < MaxDrifts /\ current' = snapshot /\ drifts' = drifts + 1
      /\ UNCHANGED <<working, lock, completed, pc, plan, approval, policy, result, plans>>
  BY DEF Drift
<1>2. \A n \in Migrators : pc'[n] \in Unlocked
  BY <1>1, MigratorsAssumption DEF TypeOK, Phases, Unlocked
<1>3. TypeOK'
  BY <1>1, BoundsAssumption DEF TypeOK
<1>4. Snapshots' /\ Clients' /\ PolicyPassed'
  BY <1>1, SnapshotsAssumption DEF Snapshots, Clients, PolicyPassed
<1>5. PreconditionPassed' /\ ConvergencePassed'
  BY <1>2 DEF PreconditionPassed, ConvergencePassed, AfterPrecondition, Unlocked
<1>. QED
  BY <1>3, <1>4, <1>5

-----------------------------------------------------------------------------
(***************************************************************************)
(* The theorems.                                                           *)
(***************************************************************************)

\* The locked part is entered by the lock holder only.
LEMMA LockedHasLock ==
  ASSUME TypeOK, NEW m \in Migrators, Locked(m)
  PROVE  lock = m
BY DEF TypeOK, Locked, InspectSource, ApplyStep, StepFails, StepsDone, InspectFinal, CommitMigration,
       CommitFails, AbortMigration, AbortFails

\* MInv is an invariant of the protocol.
THEOREM MigrationInvariance == Spec => []MInv
<1>1. MInv /\ [Next]_vars => MInv'
  <2>. SUFFICES ASSUME MInv, [Next]_vars PROVE MInv'
    OBVIOUS
  <2>1. CASE UNCHANGED vars
    BY <2>1 DEF vars, backendVars, MInv, TypeOK, Snapshots, Clients, PolicyPassed,
                PreconditionPassed, ConvergencePassed
  <2>2. ASSUME NEW m \in Migrators, Prepare(m) PROVE MInv'
    BY <2>2, PrepareInv
  <2>3. ASSUME NEW m \in Migrators, BeginMigration(m) \/ BeginFails(m) PROVE MInv'
    BY <2>3, BeginInv
  <2>4. ASSUME NEW m \in Migrators, Locked(m) PROVE MInv'
    <3>1. lock = m
      BY <2>4, LockedHasLock DEF MInv
    <3>. QED
      BY <2>4, <3>1, InspectSourceInv, StepInv, InspectFinalInv, FinishInv DEF Locked
  <2>5. ASSUME NEW snapshot \in Drifts, Drift(snapshot) PROVE MInv'
    BY <2>5, DriftInv
  <2>. QED
    BY <2>1, <2>2, <2>3, <2>4, <2>5 DEF Next
<1>. QED
  BY <1>1, InitInv, PTL DEF Spec

\* Type correctness; at most one migrator is in the locked part, the holder of the lock.
THEOREM MigrationTypeCorrect == Spec => []TypeOK
<1>1. MInv => TypeOK
  BY DEF MInv
<1>. QED
  BY <1>1, MigrationInvariance, PTL

\* Whatever happens between planning and application, steps reach the backend only on the
\* catalog their plan was made from, and only those the policy and an approval of this very
\* plan admit (authorize, apply_while_locked).
THEOREM StepsAreJustified == Spec => []LockedStepsAreJustified
<1>1. MInv => LockedStepsAreJustified
  <2>. SUFFICES ASSUME MInv, lock # NoOne, pc[lock] \in {"step", "verify", "commit"}
                PROVE  /\ current = plan[lock].source
                       /\ \A i \in 1 .. completed :
                            /\ Consented(policy[lock], approval[lock], plan[lock], i)
                            /\ approval[lock] # NoApproval => approval[lock].identity = Identity(plan[lock])
    BY DEF LockedStepsAreJustified
  <2>1. lock \in Migrators /\ completed \in Nat
    BY DEF MInv, TypeOK
  <2>2. current = plan[lock].source /\ completed <= Len(plan[lock].steps)
    BY <2>1 DEF MInv, PreconditionPassed, AfterPrecondition
  <2>3. Authorized(policy[lock], approval[lock], plan[lock])
    BY <2>1 DEF MInv, PolicyPassed, AfterPolicy
  <2>4. IsPlan(plan[lock])
    BY <2>1 DEF MInv, Clients
  <2>5. plan[lock].steps \in Seq(AllOps(plan[lock].source.entities, plan[lock].target.entities))
    BY <2>4, DiffFacts DEF IsPlan, IsSnapshot
  <2>6. \A i \in 1 .. completed : i \in DOMAIN plan[lock].steps
    BY <2>1, <2>2, <2>5, LenProperties
  <2>. QED
    BY <2>2, <2>3, <2>6 DEF Authorized
<1>. QED
  BY <1>1, MigrationInvariance, PTL

\* A plan is empty exactly when the inspected catalog is the target (diff_catalog).
THEOREM PlansNoticeEverything == Spec => []PlansAreExact
<1>1. MInv => PlansAreExact
  BY DiffIsExact DEF MInv, Clients, IsPlan, IsSnapshot, PlansAreExact
<1>. QED
  BY <1>1, MigrationInvariance, PTL

\* Under the lock the catalog changes from exactly the plan's source, so that no stale plan
\* has an effect and no change is lost, and to exactly its target, unless the failed attempt
\* could not be aborted either and its caller is told so.
THEOREM MigrationsAreWhole == Spec => OnlyWholeMigrations
<1>1. MInv /\ [Next]_vars =>
        [current' # current /\ lock # NoOne
           => /\ current = plan[lock].source
              /\ current' = plan[lock].target \/ EndsUncertain(lock)]_vars
  <2>. SUFFICES ASSUME MInv, Next, current' # current, lock # NoOne
                PROVE  /\ current = plan[lock].source
                       /\ current' = plan[lock].target \/ EndsUncertain(lock)
    OBVIOUS
  <2>1. PICK m \in Migrators : CommitMigration(m) \/ CommitFails(m) \/ AbortFails(m)
    BY DEF Next, Prepare, MakePlan, Approve, Authorize, BeginMigration, BeginFails, Locked, InspectSource,
           ApplyStep, StepFails, StepsDone, InspectFinal, AbortMigration, Drift, backendVars
  <2>2. pc[m] \in {"commit", "abort"} /\ current' = working
    BY <2>1 DEF CommitMigration, CommitFails, AbortFails
  <2>3. lock = m /\ pc \in [Migrators -> Phases] /\ result \in [Migrators -> Results]
    BY <2>2 DEF MInv, TypeOK
  <2>4. CASE CommitMigration(m) \/ CommitFails(m)
    <3>1. pc[m] = "commit"
      BY <2>4 DEF CommitMigration, CommitFails
    <3>. QED
      BY <2>2, <2>3, <3>1 DEF MInv, PreconditionPassed, ConvergencePassed, AfterPrecondition
  <2>5. CASE AbortFails(m)
    <3>1. current = plan[m].source
      BY <2>2, <2>5 DEF MInv, PreconditionPassed, AbortFails
    <3>2. EndsUncertain(m)
      BY <2>3, <2>5 DEF AbortFails, EndsUncertain, Return, Goto
    <3>. QED
      BY <2>3, <3>1, <3>2
  <2>. QED
    BY <2>1, <2>4, <2>5
<1>. QED
  BY <1>1, MigrationInvariance, PTL DEF Spec, OnlyWholeMigrations

\* What apply_checked returns is true of the catalog: a report says that the target has been
\* reached, a refusal or an abort that nothing has changed.  Of an attempt that could neither
\* be finished nor aborted it says nothing.
THEOREM ReportsHold == Spec => ReportsAreTrue
<1>. DEFINE Told(m) == /\ result'[m] = "report" => current' = plan[m].target
                       /\ result'[m] \in {"denied", "busy", "failed"} => current' = current
<1>1. MInv /\ [Next]_vars =>
        [\A m \in Migrators : pc[m] # "idle" /\ pc'[m] = "idle" => Told(m)]_vars
  <2>. SUFFICES ASSUME MInv, Next, NEW m \in Migrators, pc[m] # "idle", pc'[m] = "idle"
                PROVE  Told(m)
    OBVIOUS
  <2>1. pc \in [Migrators -> Phases] /\ result \in [Migrators -> Results]
    BY DEF MInv, TypeOK
  <2>2. \A n \in Migrators : \A phase :
          pc' = [pc EXCEPT ![n] = phase] => n = m /\ phase = "idle"
    BY <2>1
  <2>3. \/ \E pol, limit : Authorize(m, pol, limit) /\ pc' = [pc EXCEPT ![m] = "idle"]
        \/ BeginFails(m) \/ CommitMigration(m) \/ CommitFails(m) \/ AbortMigration(m) \/ AbortFails(m)
    <3>1. ~ \E snapshot \in Drifts : Drift(snapshot)
      BY DEF Drift
    <3>2. PICK n \in Migrators : Prepare(n) \/ BeginMigration(n) \/ BeginFails(n) \/ Locked(n)
      BY <3>1 DEF Next
    <3>3. CASE Prepare(n)
      <4>1. ASSUME NEW target, NEW declared, NEW limit, MakePlan(n, target, declared, limit) PROVE FALSE
        BY <2>1, <2>2, <4>1 DEF MakePlan, Goto, Return
      <4>2. ASSUME NEW steps, Approve(n, steps) PROVE FALSE
        BY <4>2 DEF Approve
      <4>3. ASSUME NEW pol, NEW limit, Authorize(n, pol, limit)
            PROVE  n = m /\ pc' = [pc EXCEPT ![m] = "idle"]
        BY <2>2, <4>3 DEF Authorize, Goto, Return
      <4>. QED
        BY <3>3, <4>1, <4>2, <4>3 DEF Prepare
    <3>4. CASE BeginMigration(n)
      BY <2>2, <3>4 DEF BeginMigration, Goto
    <3>5. CASE BeginFails(n)
      BY <2>2, <3>5 DEF BeginFails, Return, Goto
    <3>6. CASE Locked(n)
      <4>1. ~ ApplyStep(n)
        BY DEF ApplyStep
      <4>2. ~ InspectSource(n)
        BY <2>2 DEF InspectSource, Goto
      <4>3. ~ StepFails(n) /\ ~ StepsDone(n) /\ ~ InspectFinal(n)
        BY <2>2 DEF StepFails, StepsDone, InspectFinal, Goto
      <4>4. CommitMigration(n) \/ CommitFails(n) \/ AbortMigration(n) \/ AbortFails(n)
        BY <3>6, <4>1, <4>2, <4>3 DEF Locked
      <4>5. n = m
        BY <2>2, <4>4 DEF CommitMigration, CommitFails, AbortMigration, AbortFails, Return, Goto
      <4>. QED
        BY <4>4, <4>5
    <3>. QED
      BY <3>2, <3>3, <3>4, <3>5, <3>6
  <2>4. ASSUME NEW pol, NEW limit, Authorize(m, pol, limit), pc' = [pc EXCEPT ![m] = "idle"] PROVE Told(m)
    <3>1. result' = [result EXCEPT ![m] = "denied"] /\ current' = current
      BY <2>1, <2>4 DEF Authorize, Goto, Return, backendVars
    <3>. QED
      BY <2>1, <3>1
  <2>5. CASE BeginFails(m)
    BY <2>1, <2>5 DEF BeginFails, Return, backendVars
  <2>6. CASE CommitMigration(m)
    <3>1. current' = working /\ working = plan[m].target /\ result' = [result EXCEPT ![m] = "report"]
      BY <2>6 DEF CommitMigration, Return, MInv, ConvergencePassed
    <3>. QED
      BY <2>1, <3>1
  <2>7. CASE CommitFails(m)
    BY <2>1, <2>7 DEF CommitFails, Return
  <2>8. CASE AbortMigration(m) \/ AbortFails(m)
    BY <2>1, <2>8 DEF AbortMigration, AbortFails, Return
  <2>. QED
    BY <2>3, <2>4, <2>5, <2>6, <2>7, <2>8
<1>. QED
  BY <1>1, MigrationInvariance, PTL DEF Spec, ReportsAreTrue

-----------------------------------------------------------------------------
(***************************************************************************)
(* Why a migration fails.  Under the lock the working copy is, step by     *)
(* step, the plan's source with the operations made so far and nothing     *)
(* else (CatalogBetween), so that the backend has nothing to refuse but a  *)
(* rename into a name still in use, and after the last step it is the      *)
(* target.                                                                 *)
(***************************************************************************)
OnlyValid ==
  /\ ValidCatalog(current.entities) /\ ValidCatalog(working.entities)
  /\ \A m \in Migrators :
       pc[m] # "idle" => ValidCatalog(plan[m].source.entities) /\ ValidCatalog(plan[m].target.entities)

\* How far m has taken its working copy.
OnTheWay(m) ==
  /\ CatalogBetween(plan[m].source.entities, plan[m].target.entities, working.entities,
                    Left(plan[m].steps, completed))
  /\ completed = Len(plan[m].steps) /\ plan[m].steps # <<>> => working.revision = plan[m].target.revision
  /\ pc[m] = "verify" => completed = Len(plan[m].steps)

CInv == MInv /\ OnlyValid /\ \A m \in Migrators : pc[m] \in {"step", "verify"} => OnTheWay(m)

\* A migrator that no action of its own moves keeps what is true of it, and outside the two
\* phases there is nothing to keep.
LEMMA StaysOnTheWay ==
  ASSUME \A m \in Migrators : pc[m] \in {"step", "verify"} => OnTheWay(m),
         \A m \in Migrators : pc'[m] \in {"step", "verify"} =>
           pc'[m] = pc[m] /\ plan'[m] = plan[m] /\ working' = working /\ completed' = completed
  PROVE  \A m \in Migrators : pc'[m] \in {"step", "verify"} => OnTheWay(m)'
BY DEF OnTheWay

\* What the plan of a migrator lists.
LEMMA PlanFacts ==
  ASSUME MInv, NEW m \in Migrators, pc[m] # "idle"
  PROVE  /\ IsCatalog(plan[m].source.entities) /\ IsCatalog(plan[m].target.entities)
         /\ plan[m].steps = DiffCatalog(plan[m].source.entities, plan[m].target.entities)
         /\ plan[m].steps \in Seq(AllOps(plan[m].source.entities, plan[m].target.entities))
         /\ Listing(plan[m].source.entities, plan[m].target.entities, plan[m].steps)
         /\ Len(plan[m].steps) \in Nat
         /\ DOMAIN plan[m].steps = 1 .. Len(plan[m].steps)
<1>1. /\ IsCatalog(plan[m].source.entities) /\ IsCatalog(plan[m].target.entities)
      /\ plan[m].steps = DiffCatalog(plan[m].source.entities, plan[m].target.entities)
  BY DEF MInv, Clients, IsPlan, IsSnapshot
<1>2. /\ plan[m].steps \in Seq(AllOps(plan[m].source.entities, plan[m].target.entities))
      /\ Listing(plan[m].source.entities, plan[m].target.entities, plan[m].steps)
  BY <1>1, DiffFacts, DiffLists
<1>. QED
  BY <1>1, <1>2, LenProperties

\* Planning and approving take nobody into the locked part.
LEMMA PrepareWay ==
  ASSUME CInv, NEW m \in Migrators, Prepare(m) \/ BeginMigration(m) \/ BeginFails(m)
  PROVE  /\ OnlyValid'
         /\ \A n \in Migrators : pc'[n] \in {"step", "verify"} => OnTheWay(n)'
<1>1. pc \in [Migrators -> Phases] /\ DOMAIN plan = Migrators /\ MInv
  BY DEF CInv, MInv, TypeOK, Clients
<1>2. current' = current /\ working' \in {working, current} /\ completed' \in {completed, 0}
  BY DEF Prepare, MakePlan, Approve, Authorize, BeginMigration, BeginFails, backendVars, ClientUnchanged
<1>3. PICK phase \in {"idle", "planned", "authorized", "inspect"} :
        pc' = [pc EXCEPT ![m] = phase] \/ (phase = "planned" /\ pc[m] = "planned" /\ pc' = pc)
  BY DEF Prepare, MakePlan, Approve, Authorize, BeginMigration, BeginFails, Goto, Return
<1>4. pc'[m] = phase /\ \A n \in Migrators : n # m => pc'[n] = pc[n]
  BY <1>1, <1>3
<1>5. \A n \in Migrators : pc'[n] \in {"step", "verify"} =>
        pc'[n] = pc[n] /\ plan'[n] = plan[n] /\ working' = working /\ completed' = completed
  <2>. SUFFICES ASSUME NEW n \in Migrators, pc'[n] \in {"step", "verify"}
                PROVE  plan'[n] = plan[n] /\ working' = working /\ completed' = completed
    BY <1>4
  <2>1. n # m /\ pc[n] \in {"step", "verify"}
    BY <1>4
  <2>2. lock # NoOne
    BY <1>1, <2>1, MigratorsAssumption DEF MInv, TypeOK
  <2>3. working' = working /\ completed' = completed
    BY <2>2 DEF Prepare, MakePlan, Approve, Authorize, BeginMigration, BeginFails, backendVars
  <2>4. plan'[n] = plan[n]
    BY <1>1, <2>1 DEF Prepare, MakePlan, Approve, Authorize, BeginMigration, BeginFails, ClientUnchanged
  <2>. QED
    BY <2>3, <2>4
<1>6. \A n \in Migrators : pc'[n] \in {"step", "verify"} => OnTheWay(n)'
  BY <1>5, StaysOnTheWay DEF CInv
<1>7. ASSUME NEW target \in Targets, NEW declared, NEW limit, MakePlan(m, target, declared, limit)
      PROVE  OnlyValid'
  <2>1. \/ pc' = [pc EXCEPT ![m] = "idle"] /\ plan' = plan
        \/ plan' = [plan EXCEPT ![m] = [source |-> current, target |-> target,
                                        steps |-> DiffCatalog(current.entities, target.entities)]]
    BY <1>7 DEF MakePlan, Return, Goto
  <2>2. ValidCatalog(current.entities) /\ ValidCatalog(target.entities)
    BY SnapshotsAssumption DEF CInv, OnlyValid
  <2>3. \A n \in Migrators : pc'[n] # "idle" =>
          ValidCatalog(plan'[n].source.entities) /\ ValidCatalog(plan'[n].target.entities)
    BY <1>1, <1>4, <2>1, <2>2 DEF CInv, OnlyValid
  <2>. QED
    BY <1>2, <2>2, <2>3 DEF CInv, OnlyValid
<1>8. ASSUME plan' = plan, pc[m] # "idle"
      PROVE  OnlyValid'
  BY <1>1, <1>2, <1>4, <1>8 DEF CInv, OnlyValid
<1>. QED
  BY <1>6, <1>7, <1>8 DEF Prepare, Approve, Authorize, BeginMigration, BeginFails, ClientUnchanged

\* The precondition starts the way with everything left to do.
LEMMA InspectSourceWay ==
  ASSUME CInv, NEW m \in Migrators, lock = m, InspectSource(m), pc'[m] = "step"
  PROVE  OnTheWay(m)'
<1>. DEFINE p == plan[m]
            s == p.source.entities
            t == p.target.entities
<1>1. /\ pc[m] = "inspect" /\ working = current /\ completed = 0 /\ pc \in [Migrators -> Phases]
      /\ UNCHANGED <<working, completed, plan>>
  BY DEF InspectSource, CInv, MInv, PreconditionPassed, TypeOK, backendVars, ClientUnchanged
<1>2. working.entities = s
  BY <1>1 DEF InspectSource, Precondition, Goto
<1>3. Listing(s, t, p.steps) /\ Len(p.steps) \in Nat /\ p.steps \in Seq(AllOps(s, t))
  BY <1>1, PlanFacts DEF CInv
<1>. HIDE DEF s, t
<1>4. CatalogBetween(s, t, s, Left(p.steps, 0))
  BY <1>3, LeftFacts, StartBetween
<1>5. Len(p.steps) = 0 => p.steps = <<>>
  BY <1>3, EmptySeq
<1>. QED
  BY <1>1, <1>2, <1>4, <1>5 DEF OnTheWay, s, t, p

\* A step goes one operation further; the last one brings the target's revision.
LEMMA ApplyStepWay ==
  ASSUME CInv, NEW m \in Migrators, lock = m, ApplyStep(m)
  PROVE  OnTheWay(m)'
<1>. DEFINE p == plan[m]
            s == p.source.entities
            t == p.target.entities
            q == p.steps
<1>1. /\ pc[m] = "step" /\ completed < Len(q) /\ completed' = completed + 1 /\ completed \in Nat
      /\ working' = Snapshot(IF completed' = Len(q) THEN p.target.revision ELSE "working",
                             ApplyOperation(working.entities, q[completed + 1]))
      /\ UNCHANGED <<pc, plan>>
      /\ IsCatalog(working.entities) /\ OnTheWay(m)
  BY DEF ApplyStep, NextStep, CInv, MInv, TypeOK, Snapshots, IsSnapshot, ClientUnchanged
<1>2. IsCatalog(s) /\ IsCatalog(t) /\ q = DiffCatalog(s, t) /\ Len(q) \in Nat
  BY <1>1, PlanFacts DEF CInv
<1>3. ValidCatalog(s) /\ ValidCatalog(t)
  BY <1>1 DEF CInv, OnlyValid
<1>4. completed \in 0 .. Len(q) - 1 /\ CatalogBetween(s, t, working.entities, Left(q, completed))
  BY <1>1, <1>2 DEF OnTheWay
<1>5. working'.entities = ApplyOperation(working.entities, q[completed + 1])
  BY <1>1 DEF Snapshot
<1>6. completed' = Len(q) => working'.revision = p.target.revision
  BY <1>1 DEF Snapshot
<1>. HIDE DEF s, t, q
<1>7. CatalogBetween(s, t, ApplyOperation(working.entities, q[completed + 1]), Left(q, completed + 1))
  BY <1>1, <1>2, <1>3, <1>4, PlanStep
<1>8. CatalogBetween(s, t, working'.entities, Left(q, completed'))
  BY <1>1, <1>5, <1>7
<1>. QED
  BY <1>1, <1>6, <1>8 DEF OnTheWay, s, t, q, p

\* A step the backend refuses renames into a name that is still in use.
LEMMA RefusalsCollide ==
  ASSUME CInv, NEW m \in Migrators, pc[m] = "step", completed < Len(plan[m].steps),
         ~ OperationAccepted(working.entities, NextStep(m))
  PROVE  RenamesCollide(plan[m])
<1>. DEFINE p == plan[m]
            s == p.source.entities
            t == p.target.entities
            q == p.steps
<1>1. /\ completed \in Nat /\ IsCatalog(working.entities) /\ OnTheWay(m)
  BY DEF CInv, MInv, TypeOK, Snapshots, IsSnapshot
<1>2. /\ IsCatalog(s) /\ IsCatalog(t) /\ q = DiffCatalog(s, t) /\ Len(q) \in Nat
      /\ DOMAIN q = 1 .. Len(q) /\ Listing(s, t, q)
  BY PlanFacts DEF CInv
<1>3. ValidCatalog(s) /\ ValidCatalog(t)
  BY DEF CInv, OnlyValid
<1>4. /\ completed \in 0 .. Len(q) - 1 /\ CatalogBetween(s, t, working.entities, Left(q, completed))
      /\ ~ OperationAccepted(working.entities, q[completed + 1])
  BY <1>1, <1>2 DEF OnTheWay, NextStep
<1>. HIDE DEF s, t, q
<1>5. \/ EntityClash(s, t, Left(q, completed + 1))
      \/ FieldClash(s, t, Left(q, completed + 1))
      \/ IndexClash(s, t, Left(q, completed + 1))
  BY <1>1, <1>2, <1>3, <1>4, PlanStep
<1>6. completed + 1 \in 0 .. Len(q)
  BY <1>2, <1>4
<1>7. PICK x \in 1 .. Len(q), y \in 1 .. Len(q) : x < y /\ TakesNameOf(s, q[x], q[y])
  BY <1>2, <1>5, <1>6, ClashesCollide
<1>8. x \in DOMAIN q /\ y \in DOMAIN q
  BY <1>2
<1>. QED
  BY <1>7, <1>8, Zenon DEF RenamesCollide, TakesNameOf, s, q, p

\* No name of a catalog has to change for it to become what it is.
LEMMA NothingToRename ==
  ASSUME NEW t
  PROVE  RequiredRenames(t, t) = {}
<1>1. {e \in Kept(t, t) : t[e].name # t[e].name} = {}
  OBVIOUS
<1>2. \A a : RenamedFields(a, a) = {} /\ RenamedIndexes(a, a) = {}
  BY DEF RenamedFields, RenamedIndexes
<1>3. InKept(t, t, RenamedFields) = {} /\ InKept(t, t, RenamedIndexes) = {}
  BY <1>2 DEF InKept
<1>. QED
  BY <1>1, <1>3 DEF RequiredRenames

\* Behind the last step stands the target; only a plan without steps may miss its revision.
LEMMA WholeWayConverges ==
  ASSUME CInv, NEW m \in Migrators, pc[m] = "verify", plan[m].steps # <<>>
  PROVE  Converged(m)
<1>. DEFINE p == plan[m]
            s == p.source.entities
            t == p.target.entities
            q == p.steps
<1>1. IsCatalog(working.entities) /\ OnTheWay(m)
  BY DEF CInv, MInv, Snapshots, IsSnapshot
<1>2. IsCatalog(s) /\ IsCatalog(t) /\ Listing(s, t, q)
  BY PlanFacts DEF CInv
<1>3. /\ CatalogBetween(s, t, working.entities, Left(q, Len(q)))
      /\ working.revision = p.target.revision
  BY <1>1 DEF OnTheWay
<1>. HIDE DEF s, t, q
<1>4. CatalogBetween(s, t, working.entities, {})
  BY <1>2, <1>3, LeftFacts
<1>5. working.entities = t
  BY <1>1, <1>2, <1>4, EndBetween
<1>6. DiffCatalog(t, t) = <<>> /\ RequiredRenames(t, t) = {}
  BY <1>2, DiffIsExact, NothingToRename
<1>. QED
  BY <1>3, <1>5, <1>6 DEF Converged, t, p

\* The lock holder's calls keep the invariant.
LEMMA LockedWay ==
  ASSUME CInv, MInv', NEW m \in Migrators, Locked(m)
  PROVE  CInv'
<1>1. /\ lock = m /\ pc \in [Migrators -> Phases] /\ plan' = plan
      /\ pc[m] \in {"inspect", "step", "verify", "commit", "abort"}
  <2>1. lock = m
    BY LockedHasLock DEF CInv, MInv
  <2>. QED
    BY <2>1 DEF CInv, MInv, TypeOK, Locked, InspectSource, ApplyStep, StepFails, StepsDone, InspectFinal,
                CommitMigration, CommitFails, AbortMigration, AbortFails, ClientUnchanged
<1>2. current' \in {current, working}
  BY DEF Locked, InspectSource, ApplyStep, StepFails, StepsDone,
         InspectFinal, CommitMigration, CommitFails, AbortMigration, AbortFails, backendVars
<1>3. \A n \in Migrators : n # m => pc[n] \in Unlocked /\ pc'[n] = pc[n]
  <2>1. \A n \in Migrators : n # m => pc[n] \in Unlocked
    BY <1>1, LockIsExclusive DEF CInv, MInv
  <2>2. pc' = pc \/ \E phase : pc' = [pc EXCEPT ![m] = phase]
    BY DEF Locked, InspectSource, ApplyStep, StepFails, StepsDone, InspectFinal, CommitMigration,
           CommitFails, AbortMigration, AbortFails, Goto, Return
  <2>. QED
    BY <1>1, <2>1, <2>2
<1>4. OnlyValid'
  <2>1. ValidCatalog(working'.entities)
    <3>1. CASE ApplyStep(m)
      BY <3>1 DEF ApplyStep, OperationAccepted, Snapshot
    <3>2. CASE ~ ApplyStep(m)
      <4>1. working' \in {working, current}
        BY <3>2 DEF Locked, InspectSource, StepFails, StepsDone, InspectFinal, CommitMigration, CommitFails,
                    AbortMigration, AbortFails, backendVars
      <4>. QED
        BY <4>1 DEF CInv, OnlyValid
    <3>. QED
      BY <3>1, <3>2
  <2>. QED
    BY <1>1, <1>2, <1>3, <2>1 DEF CInv, OnlyValid
<1>5. pc'[m] \in {"step", "verify"} => OnTheWay(m)'
  <2>1. CASE InspectSource(m)
    <3>1. pc'[m] # "verify"
      BY <1>1, <2>1 DEF InspectSource, Goto
    <3>. QED
      BY <1>1, <2>1, <3>1, InspectSourceWay
  <2>2. CASE ApplyStep(m)
    BY <1>1, <2>2, ApplyStepWay
  <2>3. CASE StepsDone(m)
    <3>1. /\ pc[m] = "step" /\ pc'[m] = "verify" /\ completed = Len(plan[m].steps)
          /\ working' = working /\ completed' = completed
      BY <1>1, <2>3 DEF StepsDone, Goto, backendVars
    <3>. QED
      BY <1>1, <3>1 DEF CInv, OnTheWay
  <2>4. CASE \/ StepFails(m) \/ InspectFinal(m)
             \/ CommitMigration(m) \/ CommitFails(m) \/ AbortMigration(m) \/ AbortFails(m)
    BY <1>1, <2>4 DEF StepFails, InspectFinal, CommitMigration, CommitFails, AbortMigration, AbortFails,
                      Goto, Return
  <2>. QED
    BY <2>1, <2>2, <2>3, <2>4 DEF Locked
<1>6. \A n \in Migrators : pc'[n] \in {"step", "verify"} => OnTheWay(n)'
  BY <1>3, <1>5 DEF Unlocked
<1>. QED
  BY <1>4, <1>6 DEF CInv

\* CInv is an invariant of the protocol.
THEOREM MigrationsStayOnTheWay == Spec => []CInv
<1>1. Init => CInv
  <2>. SUFFICES ASSUME Init PROVE CInv
    OBVIOUS
  <2>1. \A m \in Migrators : pc[m] = "idle"
    BY DEF Init
  <2>2. ValidCatalog(current.entities) /\ ValidCatalog(working.entities)
    BY SnapshotsAssumption DEF Init
  <2>. QED
    BY <2>1, <2>2, InitInv DEF CInv, OnlyValid
<1>2. CInv /\ MInv' /\ [Next]_vars => CInv'
  <2>. SUFFICES ASSUME CInv, MInv', [Next]_vars PROVE CInv'
    OBVIOUS
  <2>1. CASE UNCHANGED vars
    BY <2>1 DEF vars, backendVars, CInv, OnlyValid, OnTheWay
  <2>2. ASSUME NEW m \in Migrators, Prepare(m) \/ BeginMigration(m) \/ BeginFails(m) PROVE CInv'
    BY <2>2, PrepareWay DEF CInv
  <2>3. ASSUME NEW m \in Migrators, Locked(m) PROVE CInv'
    BY <2>3, LockedWay
  <2>4. ASSUME NEW snapshot \in Drifts, Drift(snapshot) PROVE CInv'
    <3>1. /\ current' = snapshot /\ UNCHANGED <<working, completed, pc, plan>>
      BY <2>4 DEF Drift
    <3>2. OnlyValid'
      BY <3>1, SnapshotsAssumption DEF CInv, OnlyValid
    <3>3. \A m \in Migrators : pc'[m] \in {"step", "verify"} => OnTheWay(m)'
      BY <3>1, StaysOnTheWay DEF CInv
    <3>. QED
      BY <3>2, <3>3 DEF CInv
  <2>. QED
    BY <2>1, <2>2, <2>3, <2>4 DEF Next
<1>. QED
  BY <1>1, <1>2, MigrationInvariance, PTL DEF Spec

\* Why m gives up when it does so with its plan under way.
HasReason(m) ==
  \/ pc[m] = "step" /\ ("step" \in Faults \/ RenamesCollide(plan[m]))
  \/ pc[m] = "verify" /\ ("inspect" \in Faults \/ plan[m].steps = <<>>)

\* A call under the lock that leads from a plan under way to the abort has one of these reasons.
LEMMA LockedFailures ==
  ASSUME CInv, NEW m \in Migrators, Locked(m), pc[m] # "inspect", pc'[m] = "abort"
  PROVE  HasReason(m)
<1>1. pc \in [Migrators -> Phases]
  BY DEF CInv, MInv, TypeOK
<1>2. CASE ApplyStep(m)
  BY <1>2 DEF ApplyStep
<1>3. CASE StepFails(m)
  BY <1>3, RefusalsCollide DEF StepFails, HasReason
<1>4. CASE InspectFinal(m)
  BY <1>1, <1>4, WholeWayConverges DEF InspectFinal, Goto, HasReason
<1>5. ~ StepsDone(m) /\ ~ InspectSource(m)
  BY <1>1 DEF StepsDone, InspectSource, Goto
<1>6. ~ (CommitMigration(m) \/ CommitFails(m) \/ AbortMigration(m) \/ AbortFails(m))
  BY <1>1 DEF CommitMigration, CommitFails, AbortMigration, AbortFails, Return, Goto
<1>. QED
  BY <1>2, <1>3, <1>4, <1>5, <1>6 DEF Locked

\* Only calls of its own, under the lock, make a migrator give up.
LEMMA AbortsAreLocked ==
  ASSUME CInv, Next, NEW m \in Migrators, pc[m] # "abort", pc'[m] = "abort"
  PROVE  Locked(m)
<1>1. pc \in [Migrators -> Phases]
  BY DEF CInv, MInv, TypeOK
<1>2. PICK n \in Migrators : Prepare(n) \/ BeginMigration(n) \/ BeginFails(n) \/ Locked(n)
  BY DEF Next, Drift
<1>3. pc' = pc \/ \E phase : pc' = [pc EXCEPT ![n] = phase]
  BY <1>2 DEF Prepare, MakePlan, Approve, Authorize, BeginMigration, BeginFails,
              Locked, InspectSource, ApplyStep, StepFails, StepsDone, InspectFinal, CommitMigration,
              CommitFails, AbortMigration, AbortFails, Goto, Return
<1>4. n = m
  BY <1>1, <1>3
<1>5. ~ (Prepare(m) \/ BeginMigration(m) \/ BeginFails(m))
  BY <1>1 DEF Prepare, MakePlan, Approve, Authorize, BeginMigration, BeginFails, Goto, Return
<1>. QED
  BY <1>2, <1>4, <1>5

\* However many migrators there are and whatever drifts and fails around it, a migration whose
\* precondition held is given up for one of four reasons: the backend failed to make a step or
\* to inspect the result, the plan renames into a name still in use, or it has no steps and
\* the revisions differ (apply_while_locked).  Never because its steps came in a wrong order
\* or because they led anywhere but to the target.
THEOREM FailuresHaveReasons ==
  Spec => [][\A m \in Migrators : pc[m] \in {"step", "verify"} /\ pc'[m] = "abort" => HasReason(m)]_vars
<1>1. CInv /\ [Next]_vars =>
        [\A m \in Migrators : pc[m] \in {"step", "verify"} /\ pc'[m] = "abort" => HasReason(m)]_vars
  <2>. SUFFICES ASSUME CInv, Next, NEW m \in Migrators, pc[m] \in {"step", "verify"}, pc'[m] = "abort"
                PROVE  HasReason(m)
    OBVIOUS
  <2>1. Locked(m)
    BY AbortsAreLocked
  <2>. QED
    BY <2>1, LockedFailures
<1>. QED
  BY <1>1, MigrationsStayOnTheWay, PTL DEF Spec

\* Planning and applying without interference: one migrator, no change from outside, no
\* failing calls.
Undisturbed == Faults = {} /\ MaxDrifts = 0 /\ \A m, n \in Migrators : m = n

\* Then the precondition holds as well, and only those two kinds of plans are given up.
Unchanged == \A m \in Migrators : pc[m] \in {"planned", "authorized", "inspect"} => current = plan[m].source

Excused == \A m \in Migrators : pc[m] = "abort" => RenamesCollide(plan[m]) \/ plan[m].steps = <<>>

\* Undisturbed, every step of the protocol keeps both.
LEMMA UndisturbedStep ==
  ASSUME Undisturbed, CInv, CInv', Unchanged, Excused, Next
  PROVE  Unchanged' /\ Excused'
<1>1. /\ pc \in [Migrators -> Phases] /\ DOMAIN plan = Migrators /\ drifts = 0
  BY DEF CInv, MInv, TypeOK, Clients, Undisturbed
<1>2. PICK m \in Migrators : Prepare(m) \/ BeginMigration(m) \/ BeginFails(m) \/ Locked(m)
  BY <1>1 DEF Next, Drift, Undisturbed
<1>3. \A n \in Migrators : n = m
  BY DEF Undisturbed
<1>4. pc'[m] \in {"planned", "authorized", "inspect"} => current' = plan'[m].source
  <2>1. ASSUME NEW target, NEW declared, NEW limit, MakePlan(m, target, declared, limit)
        PROVE  pc'[m] = "planned" => current' = plan'[m].source
    BY <1>1, <2>1 DEF MakePlan, Goto, Return, backendVars
  <2>2. ASSUME NEW target, NEW declared, NEW limit, MakePlan(m, target, declared, limit)
        PROVE  pc'[m] \in {"planned", "idle"}
    BY <1>1, <2>2 DEF MakePlan, Goto, Return
  <2>3. ASSUME plan' = plan, current' = current, pc[m] \in {"planned", "authorized", "inspect"}
        PROVE  current' = plan'[m].source
    BY <2>3 DEF Unchanged
  <2>4. CASE Prepare(m)
    BY <2>1, <2>2, <2>3, <2>4 DEF Prepare, Approve, Authorize, backendVars
  <2>5. CASE BeginMigration(m) \/ BeginFails(m)
    BY <2>3, <2>5 DEF BeginMigration, BeginFails, backendVars, ClientUnchanged
  <2>6. CASE Locked(m)
    BY <1>1, <2>6 DEF Locked, InspectSource, ApplyStep, StepFails, StepsDone, InspectFinal,
                      CommitMigration, CommitFails, AbortMigration, AbortFails, Goto, Return
  <2>. QED
    BY <1>2, <2>4, <2>5, <2>6
<1>5. pc'[m] = "abort" => RenamesCollide(plan'[m]) \/ plan'[m].steps = <<>>
  <2>. SUFFICES ASSUME pc'[m] = "abort" PROVE RenamesCollide(plan'[m]) \/ plan'[m].steps = <<>>
    OBVIOUS
  <2>1. CASE pc[m] = "abort"
    <3>1. plan' = plan
      <4>1. ~ Prepare(m)
        BY <2>1 DEF Prepare, MakePlan, Approve, Authorize
      <4>. QED
        BY <1>2, <4>1 DEF BeginMigration, BeginFails, Locked, InspectSource, ApplyStep, StepFails,
             StepsDone, InspectFinal, CommitMigration, CommitFails, AbortMigration, AbortFails,
             ClientUnchanged
    <3>. QED
      BY <2>1, <3>1 DEF Excused
  <2>2. CASE pc[m] # "abort"
    <3>1. Locked(m)
      BY <2>2, AbortsAreLocked
    <3>2. plan' = plan
      BY <3>1 DEF Locked, InspectSource, ApplyStep, StepFails, StepsDone, InspectFinal, CommitMigration,
                  CommitFails, AbortMigration, AbortFails, ClientUnchanged
    <3>3. pc[m] # "inspect"
      <4>. SUFFICES ASSUME pc[m] = "inspect" PROVE FALSE
        OBVIOUS
      <4>1. Precondition(m)
        BY DEF Unchanged, Precondition, CInv, MInv, PreconditionPassed
      <4>2. InspectSource(m)
        BY <3>1 DEF Locked, ApplyStep, StepFails, StepsDone, InspectFinal, CommitMigration, CommitFails,
                    AbortMigration, AbortFails
      <4>3. pc'[m] = "step"
        BY <1>1, <4>1, <4>2 DEF InspectSource, Goto, Undisturbed
      <4>. QED
        BY <4>3
    <3>4. HasReason(m)
      BY <2>2, <3>1, <3>3, LockedFailures
    <3>. QED
      BY <3>2, <3>4 DEF HasReason, Undisturbed
  <2>. QED
    BY <2>1, <2>2
<1>. QED
  BY <1>3, <1>4, <1>5 DEF Unchanged, Excused

\* Planning is exact, and a plan applied without interference takes the backend to its target
\* through valid catalogs, whatever the two catalogs are; the exceptions are renames that pass a
\* name on in key order and plans without steps (diff_catalog, apply_while_locked).
THEOREM UndisturbedPlansConverge ==
  ASSUME Undisturbed
  PROVE  Spec => []PlansConverge
<1>1. Init => Unchanged /\ Excused
  BY DEF Init, Unchanged, Excused
<1>2. CInv /\ CInv' /\ Unchanged /\ Excused /\ [Next]_vars => Unchanged' /\ Excused'
  <2>. SUFFICES ASSUME CInv, CInv', Unchanged, Excused, [Next]_vars
                PROVE  Unchanged' /\ Excused'
    OBVIOUS
  <2>1. CASE UNCHANGED vars
    BY <2>1 DEF vars, backendVars, Unchanged, Excused
  <2>2. CASE Next
    BY <2>2, UndisturbedStep
  <2>. QED
    BY <2>1, <2>2
<1>3. PlansAreExact /\ Excused => PlansConverge
  BY DEF Excused, PlansConverge
<1>. QED
  BY <1>1, <1>2, <1>3, MigrationsStayOnTheWay, PlansNoticeEverything, PTL DEF Spec
=============================================================================
