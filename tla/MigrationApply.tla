--------------------------- MODULE MigrationApply ---------------------------
(***************************************************************************)
(* The checked migration protocol (crates/dol-migrate: plan, policy,       *)
(* apply).  Several migrators work on one catalog: each inspects it, plans *)
(* a difference, has it approved and applies it under the backend's lock   *)
(* while nothing stops the catalog from changing between its planning and  *)
(* its application.  The backend is the reference backend of the applier's *)
(* tests: steps change a working snapshot that a commit makes current and  *)
(* an abort gives up.  A commit or an abort that fails may have done       *)
(* either.                                                                 *)
(***************************************************************************)
EXTENDS Catalog

CONSTANTS
  Migrators,     \* processes that plan and apply migrations
  NoOne,         \* the owner of the lock when it is free
  Initial,       \* the snapshots the catalog may start from
  Targets,       \* the snapshots a migrator may be asked to reach
  Drifts,        \* the snapshots an out-of-band change may leave behind
  MaxDrifts,     \* bound on out-of-band changes
  MaxPlans,      \* bound on the plans a migrator makes
  StepLimits,    \* values of ApplyLimits.max_steps
  Policies,      \* values of MigrationPolicy
  Faults         \* backend calls that may fail: "begin", "inspect", "step", "commit", "abort"

ASSUME MigratorsAssumption == NoOne \notin Migrators

ASSUME BoundsAssumption == MaxDrifts \in Nat /\ MaxPlans \in Nat /\ StepLimits \subseteq Nat

Snapshot(revision, entities) == [revision |-> revision, entities |-> entities]

IsSnapshot(s) == s = Snapshot(s.revision, s.entities) /\ IsCatalog(s.entities)

\* CatalogSnapshot::try_new lets no other snapshot come into being.
ASSUME SnapshotsAssumption ==
  \A s \in Initial \cup Targets \cup Drifts : IsSnapshot(s) /\ ValidCatalog(s.entities)

VARIABLES
  current,     \* the catalog every process sees
  working,     \* the snapshot the lock holder's steps change
  lock,        \* who holds the migration lock
  completed,   \* steps the backend has completed under the lock
  pc,          \* where each migrator is
  plan,        \* its plan
  approval,    \* the last approval it was given
  policy,      \* the policy it applies the plan under
  result,      \* what its last call returned
  plans,       \* plans it has made
  drifts       \* out-of-band changes so far

backendVars == <<current, working, lock, completed>>
vars == <<backendVars, pc, plan, approval, policy, result, plans, drifts>>

NoPlan == [source |-> "none"]
NoApproval == [steps |-> {}]
NoPolicy == [rewrite |-> FALSE, destructive |-> FALSE, locking |-> FALSE, rebuild |-> FALSE]

Phases == {"idle", "planned", "authorized", "inspect", "step", "verify", "commit", "abort"}

Results == {"none", "unplanned", "planned", "denied", "busy", "report",
            "failed", "commitError", "uncertain"}

\* MigrationPlanIdentity: the revisions and the exact steps.
Identity(p) == <<p.source.revision, p.target.revision, p.steps>>

Init ==
  /\ current \in Initial
  /\ working = current
  /\ lock = NoOne
  /\ completed = 0
  /\ pc = [m \in Migrators |-> "idle"]
  /\ plan = [m \in Migrators |-> NoPlan]
  /\ approval = [m \in Migrators |-> NoApproval]
  /\ policy = [m \in Migrators |-> NoPolicy]
  /\ result = [m \in Migrators |-> "none"]
  /\ plans = [m \in Migrators |-> 0]
  /\ drifts = 0

Goto(m, phase) == pc' = [pc EXCEPT ![m] = phase]

Return(m, value) == Goto(m, "idle") /\ result' = [result EXCEPT ![m] = value]

-----------------------------------------------------------------------------
(***************************************************************************)
(* Planning and approval, before any lock.                                 *)
(***************************************************************************)

\* CatalogInspector::inspect, then DefaultMigrationPlanner::plan.
MakePlan(m, target, declared, maxOperations) ==
  /\ pc[m] = "idle" /\ plans[m] < MaxPlans
  /\ plans' = [plans EXCEPT ![m] = @ + 1]
  /\ IF DiffSucceeds(current.entities, target.entities, declared, maxOperations)
     THEN /\ plan' = [plan EXCEPT ![m] =
                        [source |-> current, target |-> target,
                         steps |-> DiffCatalog(current.entities, target.entities)]]
          /\ Goto(m, "planned")
          /\ result' = [result EXCEPT ![m] = "planned"]
     ELSE Return(m, "unplanned") /\ UNCHANGED plan
  /\ UNCHANGED <<backendVars, approval, policy, drifts>>

\* MigrationApproval::try_new, bound to the identity of the plan at hand.
Approve(m, steps) ==
  /\ pc[m] = "planned"
  /\ approval' = [approval EXCEPT ![m] = [identity |-> Identity(plan[m]), steps |-> steps]]
  /\ approval' # approval
  /\ UNCHANGED <<backendVars, pc, plan, policy, result, plans, drifts>>

-----------------------------------------------------------------------------
(***************************************************************************)
(* MigrationPolicy::authorize.                                             *)
(***************************************************************************)
DataAllowed(pol, risk) ==
  CASE risk.data = "safe" -> TRUE
    [] risk.data = "rewrite" -> pol.rewrite
    [] risk.data = "destructive" -> pol.destructive

ImpactAllowed(pol, risk) ==
  CASE risk.operation = "metadata" -> TRUE
    [] risk.operation = "locking" -> pol.locking
    [] risk.operation = "rebuild" -> pol.rebuild
    [] risk.operation = "rewrite" -> pol.rewrite

Consented(pol, app, p, i) ==
  LET risk == Risk(p.steps[i])
  IN  /\ DataAllowed(pol, risk)
      /\ ImpactAllowed(pol, risk)
      /\ risk.automation = "approval" => app # NoApproval /\ i \in app.steps

\* Mutation: any approval will do, whatever plan it was given to.
Authorized_AnyPlan(pol, app, p) == \A i \in DOMAIN p.steps : Consented(pol, app, p, i)

Authorized(pol, app, p) ==
  /\ app # NoApproval => app.identity = Identity(p)
  /\ \A i \in DOMAIN p.steps : Consented(pol, app, p, i)

\* The start of apply_checked: limits and policy, before the lock.
Authorize(m, pol, maxSteps) ==
  /\ pc[m] = "planned"
  /\ IF maxSteps # 0 /\ Len(plan[m].steps) <= maxSteps /\ Authorized(pol, approval[m], plan[m])
     THEN /\ Goto(m, "authorized")
          /\ policy' = [policy EXCEPT ![m] = pol]
          /\ UNCHANGED result
     ELSE Return(m, "denied") /\ UNCHANGED policy
  /\ UNCHANGED <<backendVars, plan, approval, plans, drifts>>

-----------------------------------------------------------------------------
(***************************************************************************)
(* The locked part of apply_checked.                                       *)
(***************************************************************************)
ClientUnchanged == UNCHANGED <<plan, approval, policy, plans, drifts>>

\* Mutation: the lock is taken without looking.
BeginMigration_Unlocked(m) ==
  /\ pc[m] = "authorized"
  /\ lock' = m
  /\ working' = current
  /\ completed' = 0
  /\ Goto(m, "inspect")
  /\ UNCHANGED <<current, result>> /\ ClientUnchanged

BeginMigration(m) ==
  /\ pc[m] = "authorized"
  /\ lock = NoOne
  /\ lock' = m
  /\ working' = current
  /\ completed' = 0
  /\ Goto(m, "inspect")
  /\ UNCHANGED <<current, result>> /\ ClientUnchanged

\* begin_migration fails when the lock is taken, or for reasons of its own;
\* nothing was begun and nothing is finished.
BeginFails(m) ==
  /\ pc[m] = "authorized"
  /\ lock # NoOne \/ "begin" \in Faults
  /\ Return(m, "busy")
  /\ UNCHANGED backendVars /\ ClientUnchanged

\* The precondition: the revision and the exact contents the plan started from.
Precondition(m) ==
  working.revision = plan[m].source.revision /\ working.entities = plan[m].source.entities

InspectSource(m) ==
  /\ pc[m] = "inspect"
  /\ \/ Goto(m, IF Precondition(m) THEN "step" ELSE "abort")
     \/ "inspect" \in Faults /\ Goto(m, "abort")
  /\ UNCHANGED <<backendVars, result>> /\ ClientUnchanged

NextStep(m) == plan[m].steps[completed + 1]

\* The last step also gives the working snapshot the target's revision.
ApplyStep(m) ==
  /\ pc[m] = "step"
  /\ completed < Len(plan[m].steps)
  /\ OperationAccepted(working.entities, NextStep(m))
  /\ completed' = completed + 1
  /\ working' = Snapshot(IF completed' = Len(plan[m].steps)
                         THEN plan[m].target.revision ELSE "working",
                         ApplyOperation(working.entities, NextStep(m)))
  /\ UNCHANGED <<current, lock, pc, result>> /\ ClientUnchanged

StepFails(m) ==
  /\ pc[m] = "step"
  /\ completed < Len(plan[m].steps)
  /\ ~ OperationAccepted(working.entities, NextStep(m)) \/ "step" \in Faults
  /\ Goto(m, "abort")
  /\ UNCHANGED <<backendVars, result>> /\ ClientUnchanged

StepsDone(m) ==
  /\ pc[m] = "step"
  /\ completed = Len(plan[m].steps)
  /\ Goto(m, "verify")
  /\ UNCHANGED <<backendVars, result>> /\ ClientUnchanged

\* Convergence: the target's revision and an empty follow-up diff, which no
\* declared rename may help.
Converged(m) ==
  /\ working.revision = plan[m].target.revision
  /\ RequiredRenames(working.entities, plan[m].target.entities) = {}
  /\ DiffCatalog(working.entities, plan[m].target.entities) = <<>>

InspectFinal(m) ==
  /\ pc[m] = "verify"
  /\ \/ Goto(m, IF Converged(m) THEN "commit" ELSE "abort")
     \/ "inspect" \in Faults /\ Goto(m, "abort")
  /\ UNCHANGED <<backendVars, result>> /\ ClientUnchanged

CommitMigration(m) ==
  /\ pc[m] = "commit"
  /\ current' = working
  /\ lock' = NoOne
  /\ Return(m, "report")
  /\ UNCHANGED <<working, completed>> /\ ClientUnchanged

\* Mutation: the error of a failed commit is swallowed.
CommitFails_Reported(m) ==
  /\ pc[m] = "commit" /\ "commit" \in Faults
  /\ lock' \in {lock, NoOne}
  /\ Return(m, "report")
  /\ UNCHANGED <<current, working, completed>> /\ ClientUnchanged

\* A commit that fails is not followed by an abort: whether the catalog was made
\* visible, and whether the lock was released, depends on the backend.
CommitFails(m) ==
  /\ pc[m] = "commit" /\ "commit" \in Faults
  /\ current' \in {current, working}
  /\ lock' \in {lock, NoOne}
  /\ Return(m, "commitError")
  /\ UNCHANGED <<working, completed>> /\ ClientUnchanged

\* Mutation: the failure arm finishes with a commit.
AbortMigration_Publishes(m) ==
  /\ pc[m] = "abort"
  /\ current' = working
  /\ lock' = NoOne
  /\ Return(m, "failed")
  /\ UNCHANGED <<working, completed>> /\ ClientUnchanged

\* Mutation: the failure arm returns without finishing.
AbortMigration_KeepsLock(m) ==
  /\ pc[m] = "abort"
  /\ Return(m, "failed")
  /\ UNCHANGED backendVars /\ ClientUnchanged

AbortMigration(m) ==
  /\ pc[m] = "abort"
  /\ working' = current
  /\ lock' = NoOne
  /\ Return(m, "failed")
  /\ UNCHANGED <<current, completed>> /\ ClientUnchanged

\* An abort that fails as well: the steps so far may have become visible, the lock may be
\* kept.  The caller is told that the state of the backend is uncertain.
AbortFails(m) ==
  /\ pc[m] = "abort" /\ "abort" \in Faults
  /\ current' \in {current, working}
  /\ lock' \in {lock, NoOne}
  /\ Return(m, "uncertain")
  /\ UNCHANGED <<working, completed>> /\ ClientUnchanged

\* Somebody changes the catalog outside the protocol while the lock is free.  The
\* revision need not tell.
Drift(snapshot) ==
  /\ lock = NoOne /\ drifts < MaxDrifts
  /\ snapshot # current
  /\ current' = snapshot
  /\ drifts' = drifts + 1
  /\ UNCHANGED <<working, lock, completed, pc, plan, approval, policy, result, plans>>

-----------------------------------------------------------------------------
Prepare(m) ==
  \/ \E target \in Targets, limit \in StepLimits :
       \E declared \in {{}, RequiredRenames(current.entities, target.entities)} :
         MakePlan(m, target, declared, limit)
  \/ /\ pc[m] = "planned"
     /\ \E steps \in {DOMAIN plan[m].steps, {}} : Approve(m, steps)
  \/ \E pol \in Policies, limit \in StepLimits : Authorize(m, pol, limit)

Locked(m) ==
  \/ InspectSource(m)
  \/ ApplyStep(m) \/ StepFails(m) \/ StepsDone(m)
  \/ InspectFinal(m)
  \/ CommitMigration(m) \/ CommitFails(m)
  \/ AbortMigration(m) \/ AbortFails(m)

Next ==
  \/ \E m \in Migrators : Prepare(m) \/ BeginMigration(m) \/ BeginFails(m) \/ Locked(m)
  \/ \E snapshot \in Drifts : Drift(snapshot)

Spec == Init /\ [][Next]_vars

\* apply_while_locked is straight-line code: it runs to the call of
\* finish_migration.  Planning, approving and starting are the operator's choice.
FairSpec == Spec /\ \A m \in Migrators : WF_vars(Locked(m))

-----------------------------------------------------------------------------
(***************************************************************************)
(* Properties.                                                             *)
(***************************************************************************)

\* Type correctness of the protocol's control state; only the lock holder is
\* inside the locked part.
TypeOK ==
  /\ lock \in Migrators \cup {NoOne}
  /\ completed \in Nat
  /\ pc \in [Migrators -> Phases]
  /\ result \in [Migrators -> Results]
  /\ plans \in [Migrators -> 0 .. MaxPlans]
  /\ drifts \in 0 .. MaxDrifts
  /\ \A m \in Migrators :
       pc[m] \in {"inspect", "step", "verify", "commit", "abort"} => lock = m

\* The attempt of m ends in a failure whose abort fails too.
EndsUncertain(m) == pc[m] = "abort" /\ pc'[m] = "idle" /\ result'[m] = "uncertain"

\* A catalog that changes while the lock is held changes from exactly the plan's
\* source (apply_checked), so that no change made after planning is lost and no stale
\* plan has an effect.  It changes to exactly the plan's target: nothing partial or
\* diverged becomes visible, unless the abort failed as well and the caller is told so.
OnlyWholeMigrations ==
  [][current' # current /\ lock # NoOne
     => /\ current = plan[lock].source
        /\ current' = plan[lock].target \/ EndsUncertain(lock)]_vars

\* Migration is reported only when the catalog has reached the plan's target, and an
\* attempt that was refused, or that the backend has aborted, has left the catalog alone
\* (apply_checked's two arms).  Nothing is promised where the abort fails as well.
ReportsAreTrue ==
  [][\A m \in Migrators : pc[m] # "idle" /\ pc'[m] = "idle" =>
       /\ result'[m] = "report" => current' = plan[m].target
       /\ result'[m] \in {"denied", "busy", "failed"} => current' = current]_vars

\* What reaches the backend under the lock is justified when it does, whatever happened
\* since planning and approval.  A stale plan is rejected before the first mutation
\* (apply_while_locked): the visible catalog is still the one the plan was made from, in
\* contents and in revision.  And every step is admitted by the policy in force in each
\* risk dimension and, where approval is required, by an approval given to this very
\* plan: an approval of an earlier plan is never replayed (authorize).
LockedStepsAreJustified ==
  lock # NoOne /\ pc[lock] \in {"step", "verify", "commit"} =>
    /\ current = plan[lock].source
    /\ \A i \in 1 .. completed :
         /\ Consented(policy[lock], approval[lock], plan[lock], i)
         /\ approval[lock] # NoApproval => approval[lock].identity = Identity(plan[lock])

\* An attempt that got as far as holding the lock ends, and the lock does not stay
\* with a migrator that has given up: it is released, or the caller was told that the
\* backend failed to finish the attempt.
LockIsReleased ==
  \A m \in Migrators :
    pc[m] \in {"inspect", "step", "verify", "commit", "abort"} ~>
      (pc[m] = "idle" /\ (lock # m \/ result[m] \in {"commitError", "uncertain"}))

\* Two renames of one bucket where the first in key order takes a name the later
\* one has yet to give up.
RenamesCollide(p) ==
  \E i, j \in DOMAIN p.steps :
    /\ i < j
    /\ p.steps[i].op = p.steps[j].op
    /\ \/ /\ p.steps[i].op = "renameEntity"
          /\ p.steps[i].value = p.source.entities[p.steps[j].entity].name
       \/ /\ p.steps[i].op = "renameField" /\ p.steps[i].entity = p.steps[j].entity
          /\ p.steps[i].value
               = p.source.entities[p.steps[j].entity].fields[p.steps[j].key].name
       \/ /\ p.steps[i].op = "renameIndex" /\ p.steps[i].entity = p.steps[j].entity
          /\ p.steps[i].value
               = p.source.entities[p.steps[j].entity].indexes[p.steps[j].key].name

\* A plan (diff_catalog) is empty for equal catalogs and only for those: no difference
\* between the inspected catalog and the target goes unnoticed.
PlansAreExact ==
  \A m \in Migrators :
    pc[m] = "planned" =>
      ((plan[m].steps = <<>>) <=> (plan[m].source.entities = plan[m].target.entities))

\* Plans notice every difference, and in the absence of faults and drift the ordered steps
\* of a plan lead the backend to the target through valid catalogs only, with one exception:
\* renames that pass a name on in key order.  A plan without steps can only converge when
\* source and target carry one revision.
PlansConverge ==
  /\ PlansAreExact
  /\ \A m \in Migrators : pc[m] = "abort" => RenamesCollide(plan[m]) \/ plan[m].steps = <<>>

\* docs/design/migration.md states of planning and applying without interference:
\* "inspect -> diff -> apply -> inspect converges to an empty diff".
FreshPlansConverge == \A m \in Migrators : plan[m] # NoPlan /\ plan[m].steps # <<>> => pc[m] # "abort"
=============================================================================
