----------------------------- MODULE RestoreRun -----------------------------
(***************************************************************************)
(* Restores of portability bundles into one suspended target tenant.  A    *)
(* plan has a run with a step per component; workers claim a step under    *)
(* the fence of the run, execute its handler with no transaction open and  *)
(* settle it.  Each operation but the start is one transaction under the   *)
(* row lock of its run; the start reads and writes under the row lock of   *)
(* the tenant.  Workers may die and come back under the same id.           *)
(*                                                                         *)
(* Digests, acknowledgements and the operator's rights decide only whether *)
(* an operation is attempted.  A run is never given a second generation:   *)
(* an existing one is resumed or answered whatever its state.              *)
(***************************************************************************)
EXTENDS Naturals, FiniteSets

CONSTANTS
    Plans,           \* plans for the target
    BundleOf,        \* plan -> bundle
    RestoredParts,   \* components whose decision is "restore"
    Handled,         \* those with a registered handler
    RestoreWorkers,
    MaxStepClaims    \* bound: claims of one step

ASSUME RestoreAssumption ==
    /\ Handled \subseteq RestoredParts
    /\ MaxStepClaims \in Nat
    /\ "nobody" \notin RestoreWorkers

VARIABLES
    restore,    \* plan -> row of its run
    step,       \* plan -> component -> row of its step
    target,     \* the tenant row: suspended, and never in service
    tenantLock, \* worker whose open transaction locked the tenant row
    hand        \* worker -> what it is doing

restoreVars == <<restore, step, target, tenantLock, hand>>

NoRestore == [state |-> "absent", current |-> "none", by |-> "nobody"]
NewStep == [state |-> "pending", evidence |-> FALSE, claims |-> 0]
AtRest == [pc |-> "idle", plan |-> "none", part |-> "none"]
Unfinished == {"pending", "running", "quarantined"}

RestoreInit ==
    /\ restore = [p \in Plans |-> NoRestore]
    /\ step = [p \in Plans |-> [x \in RestoredParts |-> NewStep]]
    /\ target = [suspended |-> TRUE, new |-> TRUE]
    /\ tenantLock = "nobody"
    /\ hand = [w \in RestoreWorkers |-> AtRest]

Does(w, pc, p, x) == hand' = [hand EXCEPT ![w] = [pc |-> pc, plan |-> p, part |-> x]]
Rests(w) == hand' = [hand EXCEPT ![w] = AtRest]

\* fenced and fenced_by as one: a run is fenced by a worker or by nobody.
Fenced(p) == restore[p].by # "nobody"

-----------------------------------------------------------------------------
(* start_restore_run *)

\* Fault: the tenant row is read without a lock.
LockIgnored == TRUE

LockFree == tenantLock = "nobody"

Admits == target.suspended /\ target.new

\* Another bundle, or another plan that is not finished, is bound to it.
BoundElsewhere(p) ==
    \E q \in Plans \ {p} :
        /\ restore[q] # NoRestore
        /\ BundleOf[q] # BundleOf[p] \/ restore[q].state # "completed"

\* The tenant row is locked and the runs of the target are read.
BeginStart(w, p) ==
    /\ hand[w].pc = "idle"
    /\ LockFree /\ Admits /\ ~BoundElsewhere(p)
    /\ restore[p].state # "completed"
    /\ tenantLock' = w
    /\ Does(w, IF restore[p] = NoRestore THEN "insert" ELSE "resume", p, "none")
    /\ UNCHANGED <<restore, step, target>>

\* Commit of a new run with its steps.
InsertRestore(w) ==
    /\ hand[w].pc = "insert"
    /\ restore' = [restore EXCEPT ![hand[w].plan] = [@ EXCEPT !.state = "pending"]]
    /\ tenantLock' = "nobody"
    /\ Rests(w)
    /\ UNCHANGED <<step, target>>

\* Commit of a resumption: failed steps go back to pending, blocked ones stay.
ResumeRestore(w) ==
    /\ hand[w].pc = "resume"
    /\ step' = [step EXCEPT ![hand[w].plan] = [x \in RestoredParts |->
          IF @[x].state = "failed" THEN [@[x] EXCEPT !.state = "pending"] ELSE @[x]]]
    /\ tenantLock' = "nobody"
    /\ Rests(w)
    /\ UNCHANGED <<restore, target>>

-----------------------------------------------------------------------------
(* claim_step, complete_step, fail_step, block_unsupported_steps *)

\* Fault: whoever asks gets the fence.
FenceOpenToAll(w, p, x) == TRUE

\* Only the fencing worker may claim again, and only its interrupted step.
FenceAdmits(w, p, x) ==
    Fenced(p) => restore[p].current = x /\ restore[p].by = w

ClaimStep(w, p, x) ==
    /\ hand[w].pc = "idle"
    /\ restore[p].state \in Unfinished
    /\ FenceAdmits(w, p, x)
    /\ LockFree /\ Admits
    /\ step[p][x].state \notin {"completed", "blocked"}
    /\ step[p][x].claims < MaxStepClaims
    /\ restore' = [restore EXCEPT ![p] = [state |-> "running", current |-> x, by |-> w]]
    /\ step' = [step EXCEPT ![p][x].state = "in_progress", ![p][x].claims = @ + 1]
    /\ Does(w, "handling", p, x)
    /\ UNCHANGED <<target, tenantLock>>

\* The handler returns its evidence or raises.
HandlerEnds(w, pc) ==
    /\ hand[w].pc = "handling"
    /\ Does(w, pc, hand[w].plan, hand[w].part)
    /\ UNCHANGED <<restore, step, target, tenantLock>>

OwnsStep(w) ==
    LET p == hand[w].plan
        x == hand[w].part
    IN  step[p][x].state = "in_progress" /\ restore[p].current = x
            /\ restore[p].by = w

\* Fault: a step without a handler does not hold up the run.
OpenSteps(p) ==
    {x \in RestoredParts :
        step'[p][x].state \in {"pending", "in_progress", "failed"}}

\* The steps still in the way after the flush.
RemainingSteps(p) ==
    {x \in RestoredParts :
        step'[p][x].state \in {"pending", "in_progress", "failed", "blocked"}}

CompleteStep(w) ==
    /\ hand[w].pc = "handled"
    /\ LET p == hand[w].plan
       IN  IF OwnsStep(w)
           THEN /\ step' = [step EXCEPT ![p][hand[w].part] =
                      [@ EXCEPT !.state = "completed", !.evidence = TRUE]]
                /\ restore' = [restore EXCEPT ![p] =
                      [state |-> IF RemainingSteps(p) = {} THEN "completed"
                                                           ELSE @.state,
                       current |-> "none", by |-> "nobody"]]
           ELSE UNCHANGED <<restore, step>>
    /\ Rests(w)
    /\ UNCHANGED <<target, tenantLock>>

FailStep(w) ==
    /\ hand[w].pc = "raised"
    /\ LET p == hand[w].plan
       IN  IF OwnsStep(w)
           THEN /\ step' = [step EXCEPT ![p][hand[w].part].state = "failed"]
                /\ restore' = [restore EXCEPT ![p] =
                      [state |-> "quarantined", current |-> "none", by |-> "nobody"]]
           ELSE UNCHANGED <<restore, step>>
    /\ Rests(w)
    /\ UNCHANGED <<target, tenantLock>>

\* Pending steps without a handler are blocked and quarantine the run; so does
\* a registry with gaps once no step is left to execute, completed or not.
BlockUnsupported(p) ==
    /\ restore[p] # NoRestore
    /\ LET gaps == {x \in RestoredParts \ Handled : step[p][x].state = "pending"}
           over == /\ RestoredParts # Handled
                   /\ \A x \in RestoredParts : step'[p][x].state \in {"blocked", "completed"}
       IN  /\ step' = [step EXCEPT ![p] = [x \in RestoredParts |->
                 IF x \in gaps THEN [@[x] EXCEPT !.state = "blocked"] ELSE @[x]]]
           /\ restore' = IF gaps # {} \/ over
                         THEN [restore EXCEPT ![p].state = "quarantined"] ELSE restore
    /\ UNCHANGED <<target, tenantLock, hand>>

-----------------------------------------------------------------------------
\* reactivate_tenant: the target goes into service and is new no more.
Reactivate ==
    /\ LockFree /\ target.suspended
    /\ target' = [suspended |-> FALSE, new |-> FALSE]
    /\ UNCHANGED <<restore, step, tenantLock, hand>>

\* The worker dies; its open transaction is rolled back, its fence stays.
WorkerDies(w) ==
    /\ hand[w].pc # "idle"
    /\ tenantLock' = IF tenantLock = w THEN "nobody" ELSE tenantLock
    /\ Rests(w)
    /\ UNCHANGED <<restore, step, target>>

RestoreNext ==
    \/ \E w \in RestoreWorkers :
        \/ \E p \in Plans : BeginStart(w, p)
        \/ \E p \in Plans, x \in RestoredParts : ClaimStep(w, p, x)
        \/ \E pc \in {"handled", "raised"} : HandlerEnds(w, pc)
        \/ InsertRestore(w) \/ ResumeRestore(w)
        \/ CompleteStep(w) \/ FailStep(w) \/ WorkerDies(w)
    \/ \E p \in Plans : BlockUnsupported(p)
    \/ Reactivate

RestoreSpec == RestoreInit /\ [][RestoreNext]_restoreVars

-----------------------------------------------------------------------------
\* No two workers ever execute handlers on the target at the same time: the
\* fence keeps them apart within a run, and the lock on the tenant row keeps a
\* second unfinished run from being started beside it.
OneHandlerAtATime ==
    \A v, w \in RestoreWorkers :
        hand[v].pc = "handling" /\ hand[w].pc = "handling" => v = w

\* activation_blockers has nothing to report.
MayActivate(p) ==
    /\ restore[p].state = "completed"
    /\ \A x \in RestoredParts : step[p][x].state = "completed" /\ step[p][x].evidence

\* A run is reported completed only when every component was restored by its
\* handler, through failures, blocks, resumptions and deaths; a step is in
\* progress exactly while its run is fenced for it.
CompletedMeansRestored ==
    \A p \in Plans :
        /\ restore[p].state = "completed" => MayActivate(p)
        /\ {x \in RestoredParts : step[p][x].state = "in_progress"}
              = IF Fenced(p) THEN {restore[p].current} ELSE {}
=============================================================================
