-------------------------- MODULE Platform_proofs --------------------------
(***************************************************************************)
(* Proofs about four services of the platform for every value of their     *)
(* constants: the cache of the tenant's state (any number of lookups, any  *)
(* time to live, any number of changes), the restore of a bundle (any      *)
(* number of plans, components and workers), the metering of usage (any    *)
(* requests, charges, tries and projectors) and the live synchronisation   *)
(* of a connector run (any attempts, threads, source and plan).            *)
(***************************************************************************)
EXTENDS TenantStateCache, RestoreRun, UsageMetering, LiveSync, Induction_proofs, TLAPS

-----------------------------------------------------------------------------
(* The tenant cache *)

Lookup == [pc : {"idle", "look", "load", "store", "answer"}, at : Nat,
           state : 0 .. MaxTenantChanges]

CacheTypes ==
    /\ clock \in Nat
    /\ changes \in 0 .. MaxTenantChanges
    /\ until \in [0 .. MaxTenantChanges -> Nat]
    /\ notices \in Nat
    /\ cached \in [state : 0 .. MaxTenantChanges, expires : Nat]
    /\ lookup \in [Lookups -> Lookup]

\* An entry does not outlive the state it holds by more than the time to live.
EntryInv ==
    /\ cached.expires <= clock + Ttl
    /\ cached.state <= changes
    /\ cached.state < changes => cached.expires <= until[cached.state] + Ttl

\* A lookup was begun in the past, and what it has loaded was in force then or
\* later.
LookupInv ==
    \A l \in Lookups :
        /\ lookup[l].at <= clock
        /\ lookup[l].state <= changes
        /\ lookup[l].pc = "store" /\ lookup[l].state < changes
              => lookup[l].at <= until[lookup[l].state]

CacheInv == CacheTypes /\ EntryInv /\ LookupInv /\ StalenessIsBounded

\* What a step of one lookup must keep.
LEMMA LookupStep ==
    ASSUME CacheInv, NEW l \in Lookups, NEW w \in Lookup, Sets(l, w),
           UNCHANGED <<clock, changes, until, notices>>,
           cached' \in [state : 0 .. MaxTenantChanges, expires : Nat],
           EntryInv',
           w.at <= clock,
           w.state <= changes,
           w.pc = "store" /\ w.state < changes => w.at <= until[w.state],
           w.pc = "answer" /\ w.state < changes =>
               w.at <= until[w.state] \/ w.at < until[w.state] + Ttl
    PROVE  CacheInv'
  <1> USE DEF CacheInv
  <1>1. lookup' = [lookup EXCEPT ![l] = w] /\ lookup \in [Lookups -> Lookup]
    BY DEF Sets, CacheTypes
  <1>2. CacheTypes'
    BY <1>1 DEF CacheTypes
  <1>3. LookupInv'
    BY <1>1 DEF LookupInv
  <1>4. StalenessIsBounded'
    BY <1>1 DEF StalenessIsBounded
  <1> QED BY <1>2, <1>3, <1>4

LEMMA CacheStep == CacheInv /\ [CacheNext]_cacheVars => CacheInv'
  <1> SUFFICES ASSUME CacheInv, [CacheNext]_cacheVars PROVE CacheInv'
    OBVIOUS
  <1> USE CacheAssumption DEF CacheInv
  <1>0. \A l \in Lookups :
           /\ lookup[l] \in Lookup
           /\ lookup[l].at \in Nat
           /\ lookup[l].state \in 0 .. MaxTenantChanges
    BY DEF CacheTypes, Lookup
  <1>1. CASE Tick
    BY <1>0, <1>1 DEF Tick, CacheTypes, EntryInv, LookupInv, StalenessIsBounded
  <1>2. CASE Invalidate \/ Evict
    <2>1. /\ cached' = NoEntry
          /\ UNCHANGED <<clock, changes, until, lookup>>
          /\ notices' \in Nat
      BY <1>2 DEF Invalidate, Evict, CacheTypes
    <2>2. CacheTypes' /\ EntryInv'
      BY <2>1 DEF CacheTypes, EntryInv, NoEntry
    <2> QED BY <2>1, <2>2 DEF LookupInv, StalenessIsBounded
  <1>3. ASSUME NEW here \in BOOLEAN, ChangeTenant(here) PROVE CacheInv'
    <2> USE <1>3 DEF ChangeTenant, CacheTypes
    <2>1. CacheTypes'
      OBVIOUS
    <2>2. EntryInv'
      BY DEF EntryInv
    <2>3. /\ changes \in Nat /\ clock \in Nat /\ lookup' = lookup
          /\ changes' = changes + 1 /\ clock' = clock
      OBVIOUS
    <2>4. ASSUME NEW l \in Lookups
          PROVE  /\ lookup[l].state = changes => until'[lookup[l].state] = clock
                 /\ lookup[l].state < changes =>
                        until'[lookup[l].state] = until[lookup[l].state]
                 /\ until[lookup[l].state] \in Nat
      BY <1>0
    <2>5. LookupInv'
      BY ONLY <1>0, <2>3, <2>4, LookupInv DEF LookupInv
    <2>6. StalenessIsBounded'
      BY ONLY <1>0, <2>3, <2>4, LookupInv, StalenessIsBounded, CacheAssumption
         DEF LookupInv, StalenessIsBounded
    <2> QED BY <2>1, <2>2, <2>5, <2>6
  <1>4. ASSUME NEW l \in Lookups, ReadClock(l) PROVE CacheInv'
    <2> DEFINE w == [pc |-> "look", at |-> clock, state |-> 0]
    <2>1. w \in Lookup
      BY DEF Lookup, CacheTypes
    <2> QED BY <1>4, <2>1, LookupStep DEF ReadClock, CacheTypes, EntryInv
  <1>5. ASSUME NEW l \in Lookups, LookUp(l) PROVE CacheInv'
    <2>1. CASE EntryIsFresh(lookup[l].at)
      <3> DEFINE w == [lookup[l] EXCEPT !.pc = "answer", !.state = cached.state]
      <3>1. /\ w \in Lookup
            /\ w.at = lookup[l].at /\ w.state = cached.state /\ w.pc = "answer"
        BY <1>0 DEF Lookup, CacheTypes
      <3>2. w.state < changes => w.at < until[w.state] + Ttl
        BY <1>0, <2>1, <3>1 DEF EntryIsFresh, EntryInv, CacheTypes
      <3> HIDE DEF w
      <3>3. Sets(l, w) /\ UNCHANGED <<clock, changes, until, notices, cached>>
        BY <1>5, <2>1 DEF LookUp, w
      <3> QED BY <3>1, <3>2, <3>3, LookupStep DEF CacheTypes, EntryInv, LookupInv
    <2>2. CASE ~EntryIsFresh(lookup[l].at)
      <3> DEFINE w == [lookup[l] EXCEPT !.pc = "load"]
      <3>1. w \in Lookup /\ w.at = lookup[l].at /\ w.state = lookup[l].state
            /\ w.pc = "load"
        BY <1>0 DEF Lookup
      <3> HIDE DEF w
      <3>3. Sets(l, w) /\ UNCHANGED <<clock, changes, until, notices, cached>>
        BY <1>5, <2>2 DEF LookUp, w
      <3> QED BY <3>1, <3>3, LookupStep DEF CacheTypes, EntryInv, LookupInv
    <2> QED BY <2>1, <2>2
  <1>6. ASSUME NEW l \in Lookups, LoadState(l) PROVE CacheInv'
    <2> DEFINE w == [lookup[l] EXCEPT !.pc = "store", !.state = changes]
    <2>1. w \in Lookup /\ w.at = lookup[l].at /\ w.state = changes /\ w.pc = "store"
      BY <1>0 DEF Lookup, CacheTypes
    <2> HIDE DEF w
    <2>2. Sets(l, w) /\ UNCHANGED <<clock, changes, until, notices, cached>>
      BY <1>6 DEF LoadState, w
    <2> QED BY <2>1, <2>2, LookupStep DEF CacheTypes, EntryInv, LookupInv
  <1>7. ASSUME NEW l \in Lookups, StoreState(l) PROVE CacheInv'
    <2> DEFINE w == [lookup[l] EXCEPT !.pc = "answer"]
    <2>1. w \in Lookup /\ w.at = lookup[l].at /\ w.state = lookup[l].state
          /\ w.pc = "answer"
      BY <1>0 DEF Lookup
    <2> HIDE DEF w
    <2>2. Sets(l, w) /\ UNCHANGED <<clock, changes, until, notices>>
      BY <1>7 DEF StoreState, w
    <2>3. /\ cached' \in [state : 0 .. MaxTenantChanges, expires : Nat]
          /\ EntryInv'
      <3>1. CASE Ttl = 0
        BY <1>7, <2>2, <3>1 DEF StoreState, CacheTypes, EntryInv
      <3>2. CASE Ttl > 0
        <4>1. /\ cached'.state = lookup[l].state
              /\ cached'.expires = lookup[l].at + Ttl
              /\ cached' = [state |-> lookup[l].state, expires |-> lookup[l].at + Ttl]
          BY <1>7, <3>2 DEF StoreState, ExpiryOf
        <4>2. /\ lookup[l].at <= clock
              /\ lookup[l].state <= changes
              /\ lookup[l].state < changes => lookup[l].at <= until[lookup[l].state]
          BY <1>7 DEF StoreState, LookupInv
        <4>3. cached' \in [state : 0 .. MaxTenantChanges, expires : Nat]
          BY <1>0, <4>1
        <4>4. EntryInv'
          BY <1>0, <2>2, <4>1, <4>2 DEF EntryInv, CacheTypes
        <4> QED BY <4>3, <4>4
      <3> QED BY <3>1, <3>2
    <2> QED BY <1>0, <1>7, <2>1, <2>2, <2>3, LookupStep
            DEF StoreState, LookupInv, CacheTypes
  <1>8. ASSUME NEW l \in Lookups, EndLookup(l) PROVE CacheInv'
    <2>1. NoLookup \in Lookup
      BY DEF NoLookup, Lookup
    <2> QED BY <1>8, <2>1, LookupStep DEF EndLookup, NoLookup, CacheTypes, EntryInv
  <1>9. CASE UNCHANGED cacheVars
    BY <1>9 DEF cacheVars, CacheTypes, EntryInv, LookupInv, StalenessIsBounded
  <1> QED BY <1>1, <1>2, <1>3, <1>4, <1>5, <1>6, <1>7, <1>8, <1>9 DEF CacheNext

\* A request is judged by a state of its tenant that was in force less than
\* the time to live before it came: TenantStateCache.snapshot takes the expiry
\* of an entry from the clock it read before it loaded the row.
THEOREM StalenessBounded == CacheSpec => []StalenessIsBounded
  <1>1. CacheInit => CacheInv
    BY CacheAssumption DEF CacheInit, CacheInv, CacheTypes, EntryInv, LookupInv,
       StalenessIsBounded, Lookup, NoEntry, NoLookup
  <1>2. CacheInv => StalenessIsBounded
    BY DEF CacheInv
  <1> QED BY <1>1, <1>2, CacheStep, PTL DEF CacheSpec

-----------------------------------------------------------------------------
(* The restore of a bundle *)

RestoreRow == [state : {"absent", "completed"} \cup Unfinished,
               current : RestoredParts \cup {"none"},
               by : RestoreWorkers \cup {"nobody"}]
StepRow == [state : {"pending", "in_progress", "completed", "failed", "blocked"},
            evidence : BOOLEAN, claims : Nat]
Hand == [pc : {"idle", "insert", "resume", "handling", "handled", "raised"},
         plan : Plans \cup {"none"}, part : RestoredParts \cup {"none"}]

RestoreTypes ==
    /\ restore \in [Plans -> RestoreRow]
    /\ step \in [Plans -> [RestoredParts -> StepRow]]
    /\ hand \in [RestoreWorkers -> Hand]

\* A completed step has the evidence of its handler.
Honest(s) == s.state = "completed" => s.evidence

\* A run and its steps: the fence stands for the step in progress, evidence
\* for a completed step, and a completed run has only such steps.
RunInv ==
    \A p \in Plans :
        /\ restore[p].state = "absent" => restore[p] = NoRestore
        /\ Fenced(p) => restore[p].current \in RestoredParts
        /\ \A x \in RestoredParts :
              /\ step[p][x].state = "in_progress"
                    <=> Fenced(p) /\ restore[p].current = x
              /\ Honest(step[p][x])
              /\ restore[p].state = "completed" => step[p][x].state = "completed"

\* A run with steps that may still be executed.
OpenRun(p) ==
    /\ restore[p].state # "absent"
    /\ \E x \in RestoredParts : step[p][x].state \in {"pending", "in_progress", "failed"}

SoleOpenRun == \A p, q \in Plans : OpenRun(p) /\ OpenRun(q) => p = q

\* Who executes a step has its fence, through blocks of other steps and
\* starts of other plans; who starts a run has the tenant row, and until it
\* commits no other run becomes open.
HandInv ==
    \A w \in RestoreWorkers :
        /\ hand[w].pc \in {"handling", "handled", "raised"} =>
              /\ hand[w].plan \in Plans
              /\ restore[hand[w].plan].by = w
              /\ restore[hand[w].plan].current = hand[w].part
        /\ hand[w].pc \in {"insert", "resume"} =>
              tenantLock = w /\ hand[w].plan \in Plans
        /\ hand[w].pc = "insert" =>
              /\ restore[hand[w].plan] = NoRestore
              /\ \A q \in Plans : q # hand[w].plan => ~OpenRun(q)

RestoreInv == RestoreTypes /\ RunInv /\ SoleOpenRun /\ HandInv

LEMMA RestoreInitial == RestoreInit => RestoreInv
  <1> SUFFICES ASSUME RestoreInit PROVE RestoreInv
    OBVIOUS
  <1> USE RestoreAssumption DEF RestoreInit
  <1>1. RestoreTypes
    BY DEF RestoreTypes, RestoreRow, StepRow, Hand, NoRestore, NewStep, AtRest,
       Unfinished
  <1>2. RunInv
    BY DEF RunInv, Fenced, Honest, NoRestore, NewStep
  <1>3. SoleOpenRun
    BY DEF SoleOpenRun, OpenRun, NoRestore
  <1>4. HandInv
    BY DEF HandInv, AtRest
  <1> QED BY <1>1, <1>2, <1>3, <1>4 DEF RestoreInv

\* A step that writes r and s to an existing run and its steps, and opens none
\* of these again.
RunWrite(p, r, s) ==
    /\ restore[p].state # "absent"
    /\ r \in RestoreRow /\ s \in [RestoredParts -> StepRow]
    /\ restore' = [restore EXCEPT ![p] = r]
    /\ step' = [step EXCEPT ![p] = s]
    /\ r.state # "absent"
    /\ r.by # "nobody" => r.current \in RestoredParts
    /\ \A x \in RestoredParts :
          /\ s[x].state = "in_progress" <=> r.by # "nobody" /\ r.current = x
          /\ Honest(s[x])
          /\ r.state = "completed" => s[x].state = "completed"
          /\ s[x].state \in {"pending", "in_progress", "failed"} =>
                step[p][x].state \in {"pending", "in_progress", "failed"}

\* Such a step opens no run.
LEMMA RunStep ==
    ASSUME RestoreInv, NEW p \in Plans, NEW r, NEW s, RunWrite(p, r, s)
    PROVE  /\ restore' \in [Plans -> RestoreRow]
           /\ step' \in [Plans -> [RestoredParts -> StepRow]]
           /\ RunInv'
           /\ SoleOpenRun'
           /\ \A q \in Plans : OpenRun(q)' => OpenRun(q)
           /\ restore'[p] = r
           /\ \A q \in Plans : q # p => restore'[q] = restore[q]
  <1> USE DEF RestoreInv, RunWrite
  <1>1. /\ restore' \in [Plans -> RestoreRow]
        /\ step' \in [Plans -> [RestoredParts -> StepRow]]
    BY DEF RestoreTypes
  <1>2. /\ restore'[p] = r /\ step'[p] = s
        /\ \A q \in Plans : q # p => restore'[q] = restore[q] /\ step'[q] = step[q]
    BY DEF RestoreTypes
  <1>3. RunInv'
    BY <1>2 DEF RunInv, Fenced
  <1>4. \A q \in Plans : OpenRun(q)' => OpenRun(q)
    BY <1>2 DEF OpenRun
  <1>5. SoleOpenRun'
    BY <1>4 DEF SoleOpenRun
  <1> QED BY <1>1, <1>2, <1>3, <1>4, <1>5

\* A step after which worker w does h and every other worker what it did.
LEMMA HandStep ==
    ASSUME RestoreInv, NEW w \in RestoreWorkers, NEW h \in Hand,
           hand' = [hand EXCEPT ![w] = h],
           \A q \in Plans : OpenRun(q)' => OpenRun(q),
           \A q \in Plans : restore[q] = NoRestore => restore'[q] = NoRestore,
           \A v \in RestoreWorkers : v # w =>
              /\ tenantLock = v => tenantLock' = v
              /\ \A q \in Plans : restore[q].by = v =>
                    restore'[q].by = v /\ restore'[q].current = restore[q].current,
           h.pc \in {"handling", "handled", "raised"} =>
              /\ h.plan \in Plans
              /\ restore'[h.plan].by = w
              /\ restore'[h.plan].current = h.part,
           h.pc \in {"insert", "resume"} => tenantLock' = w /\ h.plan \in Plans,
           h.pc = "insert" => /\ restore'[h.plan] = NoRestore
                              /\ \A q \in Plans : q # h.plan => ~OpenRun(q)'
    PROVE  HandInv' /\ hand' \in [RestoreWorkers -> Hand]
  <1>1. /\ hand \in [RestoreWorkers -> Hand]
        /\ hand'[w] = h
        /\ \A v \in RestoreWorkers : v # w => hand'[v] = hand[v]
    BY DEF RestoreInv, RestoreTypes
  <1>2. hand' \in [RestoreWorkers -> Hand]
    BY <1>1
  <1>3. HandInv'
    <2> SUFFICES ASSUME NEW v \in RestoreWorkers
                 PROVE  /\ hand'[v].pc \in {"handling", "handled", "raised"} =>
                              /\ hand'[v].plan \in Plans
                              /\ restore'[hand'[v].plan].by = v
                              /\ restore'[hand'[v].plan].current = hand'[v].part
                        /\ hand'[v].pc \in {"insert", "resume"} =>
                              tenantLock' = v /\ hand'[v].plan \in Plans
                        /\ hand'[v].pc = "insert" =>
                              /\ restore'[hand'[v].plan] = NoRestore
                              /\ \A q \in Plans : q # hand'[v].plan => ~OpenRun(q)'
      BY DEF HandInv
    <2>1. CASE v = w
      BY <1>1, <2>1
    <2>2. CASE v # w
      BY <1>1, <2>2 DEF RestoreInv, HandInv
    <2> QED BY <2>1, <2>2
  <1> QED BY <1>2, <1>3

LEMMA StartSteps ==
    ASSUME RestoreInv, NEW w \in RestoreWorkers, NEW p \in Plans, BeginStart(w, p)
    PROVE  RestoreInv'
  <1> USE RestoreAssumption DEF RestoreInv
  <1> DEFINE h == [pc |-> IF restore[p] = NoRestore THEN "insert" ELSE "resume",
                   plan |-> p, part |-> "none"]
  <1>1. h \in Hand
    BY DEF Hand
  <1>2. /\ hand' = [hand EXCEPT ![w] = h]
        /\ UNCHANGED <<restore, step, target>>
        /\ tenantLock' = w /\ tenantLock = "nobody"
        /\ ~BoundElsewhere(p)
    BY DEF BeginStart, Does, LockFree
  <1>3. \A q \in Plans : q # p => ~OpenRun(q)
    BY <1>2 DEF BoundElsewhere, OpenRun, RunInv, NoRestore
  <1>4. HandInv' /\ hand' \in [RestoreWorkers -> Hand]
    <2>1. /\ \A q \in Plans : OpenRun(q)' <=> OpenRun(q)
          /\ h.pc = "insert" => restore[h.plan] = NoRestore
          /\ h.plan = p
      BY <1>2 DEF OpenRun
    <2> HIDE DEF h
    <2>2. h.pc \in {"insert", "resume"}
      BY DEF h
    <2> QED BY <1>1, <1>2, <1>3, <2>1, <2>2, HandStep
  <1> QED BY <1>2, <1>4 DEF RestoreTypes, RunInv, Fenced, SoleOpenRun, OpenRun

LEMMA InsertRestoreStep ==
    ASSUME RestoreInv, NEW w \in RestoreWorkers, InsertRestore(w)
    PROVE  RestoreInv'
  <1> USE RestoreAssumption DEF RestoreInv
  <1> DEFINE p == hand[w].plan
             r == [NoRestore EXCEPT !.state = "pending"]
  <1>1. /\ p \in Plans
        /\ restore[p] = NoRestore
        /\ \A q \in Plans : q # p => ~OpenRun(q)
        /\ tenantLock = w
    BY DEF InsertRestore, HandInv
  <1>2. /\ restore' = [restore EXCEPT ![p] = r]
        /\ step' = step
        /\ tenantLock' = "nobody"
        /\ hand' = [hand EXCEPT ![w] = AtRest]
    BY <1>1 DEF InsertRestore, Rests
  <1>3. r \in RestoreRow /\ AtRest \in Hand
    BY DEF RestoreRow, NoRestore, Unfinished, AtRest, Hand
  <1>4. /\ restore'[p] = r
        /\ \A q \in Plans : q # p => restore'[q] = restore[q]
    BY <1>1, <1>2 DEF RestoreTypes
  <1>5. RunInv'
    BY <1>1, <1>2, <1>4 DEF RunInv, Fenced, NoRestore
  <1>6. \A q \in Plans : q # p => ~OpenRun(q)'
    BY <1>1, <1>2, <1>4 DEF OpenRun
  <1>7. SoleOpenRun'
    BY <1>6 DEF SoleOpenRun
  <1>8. \A v \in RestoreWorkers : v # w => hand'[v] = hand[v] /\ hand[v].pc # "insert"
    BY <1>1, <1>2 DEF HandInv, RestoreTypes
  <1>9. hand'[w] = AtRest /\ hand' \in [RestoreWorkers -> Hand]
    BY <1>2, <1>3 DEF RestoreTypes
  <1>10. HandInv'
    BY <1>1, <1>2, <1>4, <1>8, <1>9 DEF HandInv, AtRest, NoRestore
  <1> QED BY <1>2, <1>3, <1>5, <1>7, <1>9, <1>10 DEF RestoreTypes

LEMMA ResumeRestoreStep ==
    ASSUME RestoreInv, NEW w \in RestoreWorkers, ResumeRestore(w)
    PROVE  RestoreInv'
  <1> USE RestoreAssumption DEF RestoreInv
  <1> DEFINE p == hand[w].plan
             s == [x \in RestoredParts |->
                      IF step[p][x].state = "failed"
                      THEN [step[p][x] EXCEPT !.state = "pending"] ELSE step[p][x]]
  <1>1. p \in Plans /\ tenantLock = w /\ step[p] \in [RestoredParts -> StepRow]
    BY DEF ResumeRestore, HandInv, RestoreTypes
  <1>2. /\ step' = [step EXCEPT ![p] = s]
        /\ restore' = restore
        /\ tenantLock' = "nobody"
        /\ hand' = [hand EXCEPT ![w] = AtRest]
    BY <1>1 DEF ResumeRestore, Rests, RestoreTypes
  <1>3. s \in [RestoredParts -> StepRow] /\ AtRest \in Hand
    BY <1>1 DEF StepRow, AtRest, Hand
  <1>4. \A x \in RestoredParts :
           /\ s[x].state = "in_progress" <=> step[p][x].state = "in_progress"
           /\ s[x].state = "completed" <=> step[p][x].state = "completed"
           /\ Honest(step[p][x]) => Honest(s[x])
           /\ s[x].state \in {"pending", "in_progress", "failed"} =>
                 step[p][x].state \in {"pending", "in_progress", "failed"}
    BY <1>1 DEF StepRow, Honest
  <1> HIDE DEF s
  <1>5. /\ step'[p] = s
        /\ \A q \in Plans : q # p => step'[q] = step[q]
        /\ step' \in [Plans -> [RestoredParts -> StepRow]]
    BY <1>1, <1>2, <1>3 DEF RestoreTypes
  <1>6. RunInv'
    BY <1>2, <1>4, <1>5 DEF RunInv, Fenced
  <1>7. \A q \in Plans : OpenRun(q)' => OpenRun(q)
    BY <1>2, <1>4, <1>5 DEF OpenRun
  <1>8. SoleOpenRun'
    BY <1>7 DEF SoleOpenRun
  <1>9. HandInv' /\ hand' \in [RestoreWorkers -> Hand]
    BY <1>1, <1>2, <1>3, <1>7, HandStep DEF AtRest
  <1> QED BY <1>2, <1>5, <1>6, <1>8, <1>9 DEF RestoreTypes

LEMMA ClaimStepStep ==
    ASSUME RestoreInv, NEW w \in RestoreWorkers, NEW p \in Plans,
           NEW x \in RestoredParts, ClaimStep(w, p, x)
    PROVE  RestoreInv'
  <1> USE RestoreAssumption DEF RestoreInv
  <1> DEFINE r == [state |-> "running", current |-> x, by |-> w]
             t == [step[p][x] EXCEPT !.state = "in_progress", !.claims = @ + 1]
             s == [step[p] EXCEPT ![x] = t]
             h == [pc |-> "handling", plan |-> p, part |-> x]
  <1>1. /\ restore' = [restore EXCEPT ![p] = r]
        /\ step' = [step EXCEPT ![p] = s]
        /\ hand' = [hand EXCEPT ![w] = h]
        /\ tenantLock' = tenantLock
        /\ restore[p].state \in Unfinished
        /\ Fenced(p) => restore[p].current = x /\ restore[p].by = w
        /\ step[p][x].state \notin {"completed", "blocked"}
        /\ hand[w].pc = "idle"
    <2>1. step' = [step EXCEPT ![p] = s]
      BY DEF ClaimStep, RestoreTypes, StepRow
    <2>2. restore' = [restore EXCEPT ![p] = r]
      BY DEF ClaimStep
    <2>3. hand' = [hand EXCEPT ![w] = h]
      BY DEF ClaimStep, Does
    <2> HIDE DEF s, r, h
    <2> QED BY <2>1, <2>2, <2>3 DEF ClaimStep, FenceAdmits
  <1>2. step[p] \in [RestoredParts -> StepRow] /\ step[p][x] \in StepRow
    BY DEF RestoreTypes
  <1>3. /\ t \in StepRow /\ t.state = "in_progress"
        /\ step[p][x].state \in {"pending", "in_progress", "failed"}
    <2>1. step[p][x].state \in {"pending", "in_progress", "failed"}
      BY <1>1, <1>2 DEF StepRow
    <2> DEFINE n == step[p][x].claims + 1
    <2>2. n \in Nat
      BY <1>2 DEF StepRow
    <2>3. t = [step[p][x] EXCEPT !.state = "in_progress", !.claims = n]
      BY <1>2 DEF StepRow
    <2> HIDE DEF n, t
    <2>4. t \in StepRow /\ t.state = "in_progress"
      BY <1>2, <2>2, <2>3 DEF StepRow
    <2> QED BY <2>1, <2>4
  <1> HIDE DEF t
  <1>4. /\ s \in [RestoredParts -> StepRow]
        /\ s[x] = t
        /\ \A y \in RestoredParts : y # x => s[y] = step[p][y]
    BY <1>2, <1>3
  <1> HIDE DEF s
  <1>5. r \in RestoreRow /\ h \in Hand
    BY ONLY w \in RestoreWorkers, p \in Plans, x \in RestoredParts
       DEF RestoreRow, Unfinished, Hand
  <1>6. /\ r.state = "running" /\ r.current = x /\ r.by = w /\ w # "nobody"
        /\ restore[p].state # "absent"
    BY <1>1 DEF Unfinished
  <1>7. \A y \in RestoredParts :
           y # x => step[p][y].state # "in_progress"
    BY <1>1 DEF RunInv
  <1>8. \A y \in RestoredParts :
           Honest(step[p][y])
    BY DEF RunInv
  <1> HIDE DEF r
  <1>9. /\ restore' \in [Plans -> RestoreRow]
        /\ step' \in [Plans -> [RestoredParts -> StepRow]]
        /\ RunInv' /\ SoleOpenRun'
        /\ \A q \in Plans : OpenRun(q)' => OpenRun(q)
        /\ restore'[p] = r
        /\ \A q \in Plans : q # p => restore'[q] = restore[q]
    <2>1. \A y \in RestoredParts :
              /\ s[y].state = "in_progress" <=> r.by # "nobody" /\ r.current = y
              /\ Honest(s[y])
              /\ r.state = "completed" => s[y].state = "completed"
              /\ s[y].state \in {"pending", "in_progress", "failed"} =>
                    step[p][y].state \in {"pending", "in_progress", "failed"}
      BY <1>3, <1>4, <1>6, <1>7, <1>8 DEF Honest
    <2>2. r.state # "absent" /\ (r.by # "nobody" => r.current \in RestoredParts)
      BY <1>6
    <2>3. RunWrite(p, r, s)
      BY <1>1, <1>4, <1>5, <1>6, <2>1, <2>2 DEF RunWrite
    <2> QED BY <2>3, RunStep
  <1>10. \A v \in RestoreWorkers : restore[p].by = v => v = w
    BY <1>1 DEF Fenced
  <1>11. HandInv' /\ hand' \in [RestoreWorkers -> Hand]
    <2>1. h.pc = "handling" /\ h.plan = p /\ h.part = x
      OBVIOUS
    <2> HIDE DEF h
    <2>2. restore[p] # NoRestore
      BY <1>6 DEF NoRestore
    <2>3. \A q \in Plans : restore[q] = NoRestore => restore'[q] = NoRestore
      BY <1>9, <2>2
    <2>4. \A v \in RestoreWorkers : v # w =>
              /\ tenantLock = v => tenantLock' = v
              /\ \A q \in Plans : restore[q].by = v =>
                    restore'[q].by = v /\ restore'[q].current = restore[q].current
      BY <1>1, <1>9, <1>10
    <2>5. /\ h.plan \in Plans
          /\ restore'[h.plan].by = w
          /\ restore'[h.plan].current = h.part
      BY <1>6, <1>9, <2>1
    <2> QED BY ONLY RestoreInv, w \in RestoreWorkers, <1>1, <1>5, <1>9,
               <2>1, <2>3, <2>4, <2>5, HandStep
  <1> QED BY <1>9, <1>11 DEF RestoreTypes

LEMMA HandlerEndsStep ==
    ASSUME RestoreInv, NEW w \in RestoreWorkers, NEW pc \in {"handled", "raised"},
           HandlerEnds(w, pc)
    PROVE  RestoreInv'
  <1> USE DEF RestoreInv
  <1> DEFINE h == [pc |-> pc, plan |-> hand[w].plan, part |-> hand[w].part]
  <1>0. hand[w] \in Hand
    BY DEF RestoreTypes
  <1>1. /\ h \in Hand
        /\ hand[w].plan \in Plans
        /\ restore[hand[w].plan].by = w
        /\ restore[hand[w].plan].current = hand[w].part
    <2>1. h \in Hand
      BY <1>0 DEF Hand
    <2> QED BY <2>1 DEF HandlerEnds, HandInv
  <1>2. hand' = [hand EXCEPT ![w] = h] /\ UNCHANGED <<restore, step, target, tenantLock>>
    BY DEF HandlerEnds, Does
  <1>3. /\ RunInv' /\ SoleOpenRun'
        /\ \A q \in Plans : OpenRun(q)' => OpenRun(q)
    BY <1>2 DEF RunInv, Fenced, SoleOpenRun, OpenRun
  <1>4. /\ h.plan = hand[w].plan /\ h.part = hand[w].part
        /\ h.pc \in {"handled", "raised"}
    OBVIOUS
  <1> HIDE DEF h
  <1>5. HandInv' /\ hand' \in [RestoreWorkers -> Hand]
    BY <1>1, <1>2, <1>3, <1>4, HandStep
  <1> QED BY <1>2, <1>3, <1>5 DEF RestoreTypes

\* A worker that lets go of what it did, with no row written.
LEMMA RestsStep ==
    ASSUME RestoreInv, NEW w \in RestoreWorkers, Rests(w),
           UNCHANGED <<restore, step>>,
           \A v \in RestoreWorkers : v # w /\ tenantLock = v => tenantLock' = v
    PROVE  RestoreInv'
  <1> USE DEF RestoreInv
  <1>1. AtRest \in Hand /\ AtRest.pc = "idle"
    BY DEF AtRest, Hand
  <1>2. RunInv' /\ SoleOpenRun' /\ \A q \in Plans : OpenRun(q)' => OpenRun(q)
    BY DEF RunInv, Fenced, SoleOpenRun, OpenRun
  <1>3. HandInv' /\ hand' \in [RestoreWorkers -> Hand]
    BY <1>1, <1>2, HandStep DEF Rests
  <1> QED BY <1>2, <1>3 DEF RestoreTypes

\* The settlement of an owned step as t lifts the fence of its run.
LEMMA SettleStep ==
    ASSUME RestoreInv, NEW w \in RestoreWorkers,
           hand[w].pc \in {"handled", "raised"}, OwnsStep(w),
           NEW t \in StepRow, NEW r \in RestoreRow,
           t.state \in {"completed", "failed"},
           Honest(t),
           r.state # "absent" /\ r.by = "nobody",
           r.state = "completed" => \A y \in RestoredParts :
              step'[hand[w].plan][y].state = "completed",
           step' = [step EXCEPT ![hand[w].plan][hand[w].part] = t],
           restore' = [restore EXCEPT ![hand[w].plan] = r],
           Rests(w), tenantLock' = tenantLock
    PROVE  RestoreInv'
  <1> USE RestoreAssumption DEF RestoreInv
  <1> DEFINE p == hand[w].plan
             x == hand[w].part
             s == [step[p] EXCEPT ![x] = t]
  <1>1. /\ p \in Plans /\ x \in RestoredParts
        /\ restore[p].by = w /\ restore[p].current = x
        /\ step[p][x].state = "in_progress"
        /\ restore[p].state # "absent"
    <2>1. p \in Plans /\ restore[p].by = w /\ restore[p].current = x
      BY DEF HandInv
    <2>2. step[p][x].state = "in_progress"
      BY DEF OwnsStep
    <2>3. Fenced(p)
      BY <2>1 DEF Fenced
    <2>4. x \in RestoredParts
      BY <2>1, <2>3 DEF RunInv
    <2>5. restore[p].state # "absent"
      BY <2>1, <2>3 DEF RunInv, NoRestore, Fenced
    <2> QED BY <2>1, <2>2, <2>4, <2>5
  <1>2. /\ AtRest \in Hand /\ AtRest.pc = "idle"
        /\ step[p] \in [RestoredParts -> StepRow]
    BY <1>1 DEF AtRest, Hand, RestoreTypes
  <1>3. /\ restore' = [restore EXCEPT ![p] = r]
        /\ step' = [step EXCEPT ![p] = s]
        /\ hand' = [hand EXCEPT ![w] = AtRest]
    BY DEF Rests
  <1>4. /\ s \in [RestoredParts -> StepRow]
        /\ s[x] = t
        /\ \A y \in RestoredParts : y # x => s[y] = step[p][y]
    BY <1>1, <1>2
  <1> HIDE DEF s
  <1>5. step'[p] = s
    BY <1>1, <1>3 DEF RestoreTypes
  <1> HIDE DEF p, x
  <1>6. \A y \in RestoredParts :
           /\ s[y].state = "in_progress" <=> r.by # "nobody" /\ r.current = y
           /\ Honest(s[y])
           /\ r.state = "completed" => s[y].state = "completed"
           /\ s[y].state \in {"pending", "in_progress", "failed"} =>
                 step[p][y].state \in {"pending", "in_progress", "failed"}
    <2>1. \A y \in RestoredParts : y # x => /\ step[p][y].state # "in_progress"
                                           /\ Honest(step[p][y])
      BY <1>1 DEF RunInv
    <2>2. r.state = "completed" => \A y \in RestoredParts : s[y].state = "completed"
      BY <1>5 DEF p
    <2>3. /\ s[x].state \in {"completed", "failed"}
          /\ Honest(s[x])
      BY <1>4
    <2> SUFFICES ASSUME NEW y \in RestoredParts
                 PROVE  /\ s[y].state # "in_progress"
                        /\ Honest(s[y])
                        /\ s[y].state \in {"pending", "in_progress", "failed"} =>
                              step[p][y].state \in {"pending", "in_progress", "failed"}
      BY <2>2
    <2>4. CASE y = x
      BY <1>1, <2>3, <2>4
    <2>5. CASE y # x
      BY <1>4, <2>1, <2>5
    <2> QED BY <2>4, <2>5
  <1>7. /\ restore' \in [Plans -> RestoreRow]
        /\ step' \in [Plans -> [RestoredParts -> StepRow]]
        /\ RunInv' /\ SoleOpenRun'
        /\ \A q \in Plans : OpenRun(q)' => OpenRun(q)
        /\ restore'[p] = r
        /\ \A q \in Plans : q # p => restore'[q] = restore[q]
    <2>1. r.state # "absent" /\ (r.by # "nobody" => r.current \in RestoredParts)
      OBVIOUS
    <2>2. RunWrite(p, r, s)
      BY <1>1, <1>3, <1>4, <1>6, <2>1 DEF RunWrite
    <2> QED BY <1>1, <2>2, RunStep
  <1>8. /\ \A q \in Plans : restore[q] = NoRestore => restore'[q] = NoRestore
        /\ \A v \in RestoreWorkers : v # w =>
              /\ tenantLock = v => tenantLock' = v
              /\ \A q \in Plans : restore[q].by = v =>
                    restore'[q].by = v /\ restore'[q].current = restore[q].current
    BY <1>1, <1>7 DEF NoRestore
  <1>9. HandInv' /\ hand' \in [RestoreWorkers -> Hand]
    BY ONLY RestoreInv, w \in RestoreWorkers, <1>2, <1>3, <1>7, <1>8, HandStep
  <1> QED BY <1>7, <1>9 DEF RestoreTypes

LEMMA CompleteStepStep ==
    ASSUME RestoreInv, NEW w \in RestoreWorkers, CompleteStep(w)
    PROVE  RestoreInv'
  <1> DEFINE p == hand[w].plan
             x == hand[w].part
             t == [step[p][x] EXCEPT !.state = "completed", !.evidence = TRUE]
             r == [state |-> IF RemainingSteps(p) = {} THEN "completed"
                                                       ELSE restore[p].state,
                   current |-> "none", by |-> "nobody"]
  <1>1. /\ hand[w].pc = "handled"
        /\ tenantLock' = tenantLock
        /\ Rests(w)
    BY DEF CompleteStep
  <1>2. CASE OwnsStep(w)
    <2>1. /\ p \in Plans /\ x \in RestoredParts
          /\ restore[p] \in RestoreRow /\ step[p][x] \in StepRow
          /\ restore[p].state # "absent"
      <3>1. p \in Plans /\ restore[p].by = w /\ restore[p].current = x
        BY <1>1 DEF RestoreInv, HandInv
      <3>2. Fenced(p)
        BY <3>1, RestoreAssumption DEF Fenced
      <3>3. x \in RestoredParts /\ restore[p].state # "absent"
        BY <3>1, <3>2 DEF RestoreInv, RunInv, NoRestore, Fenced
      <3> QED BY <3>1, <3>3 DEF RestoreInv, RestoreTypes
    <2>2. /\ step' = [step EXCEPT ![p][x] = t]
          /\ restore' = [restore EXCEPT ![p] = r]
      BY <1>2 DEF CompleteStep
    <2>3. t \in StepRow /\ t.state = "completed" /\ Honest(t)
      BY <2>1 DEF StepRow, Honest
    <2>4. r \in RestoreRow /\ r.state # "absent" /\ r.by = "nobody"
      BY <2>1 DEF RestoreRow
    <2>5. r.state = "completed" => \A y \in RestoredParts : step'[p][y].state = "completed"
      <3>1. step' \in [Plans -> [RestoredParts -> StepRow]]
        <4> HIDE DEF t, p, x
        <4> QED BY <2>1, <2>2, <2>3 DEF RestoreInv, RestoreTypes
      <3>2. ASSUME NEW y \in RestoredParts, RemainingSteps(p) = {}
            PROVE  step'[p][y].state = "completed"
        <4>1. step'[p][y] \in StepRow
          BY <2>1, <3>1
        <4>2. step'[p][y].state \notin {"pending", "in_progress", "failed", "blocked"}
          BY <3>2 DEF RemainingSteps
        <4> QED BY <4>1, <4>2 DEF StepRow
      <3>3. restore[p].state # "completed"
        BY <1>2, <2>1 DEF OwnsStep, RestoreInv, RunInv
      <3> QED BY <3>2, <3>3
    <2> HIDE DEF t, r, p, x
    <2> QED BY <1>1, <1>2, <2>2, <2>3, <2>4, <2>5, SettleStep DEF p, x
  <1>3. CASE ~OwnsStep(w)
    BY <1>1, <1>3, RestsStep DEF CompleteStep
  <1> QED BY <1>2, <1>3

LEMMA FailStepStep ==
    ASSUME RestoreInv, NEW w \in RestoreWorkers, FailStep(w)
    PROVE  RestoreInv'
  <1> DEFINE p == hand[w].plan
             x == hand[w].part
             t == [step[p][x] EXCEPT !.state = "failed"]
             r == [state |-> "quarantined", current |-> "none", by |-> "nobody"]
  <1>1. /\ hand[w].pc = "raised"
        /\ tenantLock' = tenantLock
        /\ Rests(w)
    BY DEF FailStep
  <1>2. CASE OwnsStep(w)
    <2>1. step[p][x] \in StepRow
      <3>1. p \in Plans /\ restore[p].by = w /\ restore[p].current = x
        BY <1>1 DEF RestoreInv, HandInv
      <3>2. Fenced(p)
        BY <3>1, RestoreAssumption DEF Fenced
      <3>3. x \in RestoredParts
        BY <3>1, <3>2 DEF RestoreInv, RunInv
      <3> QED BY <3>1, <3>3 DEF RestoreInv, RestoreTypes
    <2>2. /\ step' = [step EXCEPT ![p][x] = t]
          /\ restore' = [restore EXCEPT ![p] = r]
      BY <1>2 DEF FailStep
    <2>3. t \in StepRow /\ t.state = "failed" /\ Honest(t)
      BY <2>1 DEF StepRow, Honest
    <2>4. r \in RestoreRow /\ r.state = "quarantined" /\ r.by = "nobody"
      BY DEF RestoreRow, Unfinished
    <2> HIDE DEF t, r, p, x
    <2> QED BY <1>1, <1>2, <2>2, <2>3, <2>4, SettleStep DEF p, x
  <1>3. CASE ~OwnsStep(w)
    BY <1>1, <1>3, RestsStep DEF FailStep
  <1> QED BY <1>2, <1>3

LEMMA BlockStep ==
    ASSUME RestoreInv, NEW p \in Plans, BlockUnsupported(p)
    PROVE  RestoreInv'
  <1> USE RestoreAssumption DEF RestoreInv
  <1> DEFINE gaps == {x \in RestoredParts \ Handled : step[p][x].state = "pending"}
             over == /\ RestoredParts # Handled
                     /\ \A x \in RestoredParts :
                           step'[p][x].state \in {"blocked", "completed"}
             s == [x \in RestoredParts |->
                     IF x \in gaps THEN [step[p][x] EXCEPT !.state = "blocked"]
                                   ELSE step[p][x]]
             r == IF gaps # {} \/ over
                  THEN [restore[p] EXCEPT !.state = "quarantined"] ELSE restore[p]
  <1>1. /\ step[p] \in [RestoredParts -> StepRow]
        /\ restore[p] \in RestoreRow
        /\ restore[p].state # "absent"
    BY DEF BlockUnsupported, RestoreTypes, RunInv
  <1>2. /\ step' = [step EXCEPT ![p] = s]
        /\ restore' = [restore EXCEPT ![p] = r]
        /\ UNCHANGED <<tenantLock, hand>>
    <2>1. step' = [step EXCEPT ![p] = s]
      BY DEF BlockUnsupported
    <2>2. restore' = [restore EXCEPT ![p] = r]
      <3> HIDE DEF gaps, over
      <3>1. CASE gaps # {} \/ over
        BY <3>1 DEF BlockUnsupported, gaps, over
      <3>2. CASE ~(gaps # {} \/ over)
        <4>1. restore' = restore
          BY <3>2 DEF BlockUnsupported, gaps, over
        <4> QED BY <3>2, <4>1 DEF RestoreTypes
      <3> QED BY <3>1, <3>2
    <2> QED BY <2>1, <2>2 DEF BlockUnsupported
  <1>3. \A x \in RestoredParts :
           /\ s[x] \in StepRow
           /\ Honest(step[p][x]) => Honest(s[x])
           /\ s[x].state = step[p][x].state
                 \/ (x \in gaps /\ step[p][x].state = "pending" /\ s[x].state = "blocked")
    BY <1>1 DEF StepRow, Honest
  <1>4. s \in [RestoredParts -> StepRow]
    BY <1>3
  <1>5. /\ r \in RestoreRow /\ r.state # "absent"
        /\ r.by = restore[p].by /\ r.current = restore[p].current
        /\ r.state = "completed" => restore[p].state = "completed" /\ gaps = {}
    <2> HIDE DEF gaps, over
    <2> QED BY <1>1 DEF RestoreRow, Unfinished
  <1> HIDE DEF gaps, over, s, r
  <1>6. \A x \in RestoredParts :
           /\ s[x].state = "in_progress" <=> r.by # "nobody" /\ r.current = x
           /\ Honest(s[x])
           /\ r.state = "completed" => s[x].state = "completed"
           /\ s[x].state \in {"pending", "in_progress", "failed"} =>
                 step[p][x].state \in {"pending", "in_progress", "failed"}
    BY <1>3, <1>5 DEF RunInv, Fenced
  <1>7. /\ restore' \in [Plans -> RestoreRow]
        /\ step' \in [Plans -> [RestoredParts -> StepRow]]
        /\ RunInv' /\ SoleOpenRun'
        /\ \A q \in Plans : OpenRun(q)' => OpenRun(q)
        /\ restore'[p] = r
        /\ \A q \in Plans : q # p => restore'[q] = restore[q]
    <2>1. r.state # "absent" /\ (r.by # "nobody" => r.current \in RestoredParts)
      BY <1>5 DEF RunInv, Fenced
    <2>2. r \in RestoreRow
      BY <1>5
    <2>3. RunWrite(p, r, s)
      BY <1>1, <1>2, <1>4, <1>6, <2>1, <2>2 DEF RunWrite
    <2> QED BY <2>3, RunStep
  <1>8. HandInv'
    <2>1. \A q \in Plans : /\ restore'[q].by = restore[q].by
                           /\ restore'[q].current = restore[q].current
                           /\ restore[q] = NoRestore => restore'[q] = NoRestore
      BY <1>1, <1>5, <1>7 DEF NoRestore
    <2> QED BY <1>2, <1>7, <2>1 DEF HandInv
  <1> QED BY <1>2, <1>7, <1>8 DEF RestoreTypes

LEMMA RestoreStep == RestoreInv /\ [RestoreNext]_restoreVars => RestoreInv'
  <1> SUFFICES ASSUME RestoreInv, [RestoreNext]_restoreVars PROVE RestoreInv'
    OBVIOUS
  <1>1. ASSUME NEW w \in RestoreWorkers, WorkerDies(w) PROVE RestoreInv'
    BY <1>1, RestsStep, RestoreAssumption DEF WorkerDies
  <1>2. CASE Reactivate \/ UNCHANGED restoreVars
    <2>1. UNCHANGED <<restore, step, tenantLock, hand>>
      BY <1>2 DEF Reactivate, restoreVars
    <2> QED BY <2>1 DEF RestoreInv, RestoreTypes, RunInv, Fenced, SoleOpenRun, OpenRun,
               HandInv
  <1> QED BY <1>1, <1>2, StartSteps, ClaimStepStep, HandlerEndsStep, InsertRestoreStep,
             ResumeRestoreStep, CompleteStepStep, FailStepStep, BlockStep
          DEF RestoreNext

\* RestoreInv is inductive.
LEMMA RestoreInvariant == RestoreSpec => []RestoreInv
  BY RestoreInitial, RestoreStep, PTL DEF RestoreSpec

\* No two workers ever execute handlers on the target tenant at the same time:
\* claim_step fences a run for one worker, and start_restore_run, which reads
\* the runs of the target under the lock on the tenant row, starts no second
\* run beside one with steps left.
THEOREM HandlersAreExclusive == RestoreSpec => []OneHandlerAtATime
  <1>1. RestoreInv => OneHandlerAtATime
    <2> SUFFICES ASSUME RestoreInv, NEW v \in RestoreWorkers, NEW w \in RestoreWorkers,
                        hand[v].pc = "handling", hand[w].pc = "handling"
                 PROVE  v = w
      BY DEF OneHandlerAtATime
    <2> DEFINE Holds(u) == /\ hand[u].plan \in Plans
                           /\ restore[hand[u].plan].by = u
                           /\ OpenRun(hand[u].plan)
    <2>1. ASSUME NEW u \in RestoreWorkers, hand[u].pc = "handling" PROVE Holds(u)
      <3>1. /\ hand[u].plan \in Plans
            /\ restore[hand[u].plan].by = u
        BY <2>1 DEF RestoreInv, HandInv
      <3>2. Fenced(hand[u].plan)
        BY <3>1, RestoreAssumption DEF Fenced
      <3>3. /\ restore[hand[u].plan].state # "absent"
            /\ restore[hand[u].plan].current \in RestoredParts
        BY <3>1, <3>2 DEF RestoreInv, RunInv, NoRestore, Fenced
      <3>4. step[hand[u].plan][restore[hand[u].plan].current].state = "in_progress"
        BY <3>1, <3>2, <3>3 DEF RestoreInv, RunInv
      <3> QED BY <3>1, <3>3, <3>4 DEF OpenRun
    <2>2. Holds(v) /\ Holds(w)
      BY <2>1
    <2> QED BY <2>2 DEF RestoreInv, SoleOpenRun
  <1> QED BY <1>1, RestoreInvariant, PTL

\* A run is reported completed only when every component was restored by its
\* handler, and a step is in progress exactly while its run is fenced for it:
\* complete_step counts blocked steps among those that remain, and
\* block_unsupported_steps takes a completed state back.
THEOREM CompletionIsHonest == RestoreSpec => []CompletedMeansRestored
  <1>1. RestoreInv => CompletedMeansRestored
    <2> SUFFICES ASSUME RestoreInv, NEW p \in Plans
                 PROVE  /\ restore[p].state = "completed" => MayActivate(p)
                        /\ {x \in RestoredParts : step[p][x].state = "in_progress"}
                              = IF Fenced(p) THEN {restore[p].current} ELSE {}
      BY DEF CompletedMeansRestored
    <2>1. restore[p].state = "completed" => MayActivate(p)
      BY DEF RestoreInv, RunInv, MayActivate, Honest
    <2>2. \A x \in RestoredParts : step[p][x].state = "in_progress"
                                      <=> Fenced(p) /\ restore[p].current = x
      BY DEF RestoreInv, RunInv
    <2>3. Fenced(p) => restore[p].current \in RestoredParts
      BY DEF RestoreInv, RunInv
    <2> QED BY <2>1, <2>2, <2>3
  <1> QED BY <1>1, RestoreInvariant, PTL

-----------------------------------------------------------------------------
(* Usage metering *)

UsageTypes ==
    /\ journal \in [Journalled -> {"absent", "pending", "projected"}]
    /\ ledger \in [Buckets -> Nat]
    /\ failureMode \in {"open", "closed"}
    /\ request \in [Requests -> {"arrived", "reconcile", "served", "refused"}]
    /\ dangling \in SUBSET Requests
    /\ charging \in [Tries -> Charges \cup {"none"}]
    /\ projector \in [Projectors -> [pc : {"idle", "claim", "fold"},
                                     seen : SUBSET Journalled,
                                     took : SUBSET Journalled]]

\* A commit that is still under way has not landed, and nothing of a request
\* has landed before it is admitted; under "closed" the served are journalled.
AdmissionInv ==
    /\ \A r \in Requests :
          request[r] = "arrived" => journal[r] = "absent" /\ r \notin dangling
    /\ \A r \in dangling : journal[r] = "absent"
    /\ failureMode = "closed" =>
          \A r \in Requests : request[r] = "served" => journal[r] # "absent"

\* One try at a time has inserted a charge, and it is not in the journal.
ChargeInv ==
    \A t \in Tries : charging[t] # "none" =>
        /\ journal[charging[t]] = "absent"
        /\ \A u \in Tries : charging[u] = charging[t] => u = t

\* What a projector has locked is pending, and locked by it alone.
ProjectorInv ==
    \A p \in Projectors :
        /\ \A e \in projector[p].took : journal[e] = "pending"
        /\ projector[p].pc # "fold" => projector[p].took = {}
        /\ \A q \in Projectors : p # q => projector[p].took \cap projector[q].took = {}

\* The events of a bucket that count.
Counted(b) == {e \in Journalled : BucketOf[e] = b /\ journal[e] = "projected"}

LedgerInv == \A b \in Buckets : ledger[b] = SumOf(Quantity, Counted(b))

UsageInv == UsageTypes /\ AdmissionInv /\ ChargeInv /\ ProjectorInv /\ LedgerInv

LEMMA UsageBegins == UsageInit => UsageInv
  <1> SUFFICES ASSUME UsageInit PROVE UsageInv
    OBVIOUS
  <1> USE UsageAssumption
  <1>1. UsageTypes
    BY DEF UsageInit, UsageTypes, None, NoBatchYet
  <1>2. AdmissionInv /\ ChargeInv
    BY DEF UsageInit, AdmissionInv, ChargeInv, None, Journalled
  <1>3. ProjectorInv
    BY DEF UsageInit, ProjectorInv, NoBatchYet
  <1>4. LedgerInv
    <2>1. \A b \in Buckets : ledger[b] = 0 /\ Counted(b) = {}
      BY DEF UsageInit, Counted
    <2> QED BY <2>1, SumOfNothing DEF LedgerInv
  <1> QED BY <1>1, <1>2, <1>3, <1>4 DEF UsageInv

\* A step that projects nothing and charges nothing leaves the totals right.
LEMMA TotalsStay ==
    ASSUME LedgerInv, UNCHANGED ledger,
           \A e \in Journalled : journal'[e] = "projected" <=> journal[e] = "projected"
    PROVE  LedgerInv'
  <1>1. \A b : Counted(b)' = Counted(b)
    BY DEF Counted
  <1> QED BY <1>1 DEF LedgerInv

\* Events that did not count and now do, each added to the total of its bucket,
\* leave the totals right.
LEMMA TotalsGrow ==
    ASSUME UsageTypes, LedgerInv, NEW new \in SUBSET Journalled,
           \A e \in new : journal[e] # "projected",
           \A e \in Journalled : journal'[e] = "projected" <=>
                                    journal[e] = "projected" \/ e \in new,
           ledger' = Added(new)
    PROVE  LedgerInv' /\ ledger' \in [Buckets -> Nat]
  <1>0. IsFiniteSet(Journalled) /\ \A e \in Journalled : Quantity[e] \in Nat
    BY UsageAssumption DEF Journalled
  <1>1. ASSUME NEW b \in Buckets
        PROVE  /\ ledger'[b] = SumOf(Quantity, Counted(b)')
               /\ ledger'[b] \in Nat
    <2>1. PICK N : N = {e \in new : BucketOf[e] = b}
      OBVIOUS
    <2>2. PICK C : C = Counted(b)
      OBVIOUS
    <2>3. Counted(b)' = C \cup N
      BY <2>1, <2>2 DEF Counted
    <2>4. C \cap N = {} /\ C \in SUBSET Journalled /\ N \in SUBSET Journalled
      BY <2>1, <2>2 DEF Counted
    <2>5. IsFiniteSet(C) /\ IsFiniteSet(N)
      BY <1>0, <2>4, FS_Subset
    <2>6. SumOf(Quantity, C \cup N) = SumOf(Quantity, C) + SumOf(Quantity, N)
      BY <1>0, <2>4, <2>5, SumOfUnion
    <2>7. ledger'[b] = ledger[b] + SumOf(Quantity, N)
      BY <2>1 DEF Added, SumOf
    <2>8. ledger[b] = SumOf(Quantity, C)
      BY <2>2 DEF LedgerInv
    <2>9. ledger[b] \in Nat /\ SumOf(Quantity, N) \in Nat
      <3>1. \A e \in N : Quantity[e] \in Nat
        BY <1>0, <2>4
      <3> QED BY <2>5, <3>1, SumType DEF UsageTypes
    <2> QED BY <2>3, <2>6, <2>7, <2>8, <2>9
  <1>2. ledger' = [b \in Buckets |-> ledger'[b]]
    BY DEF Added
  <1> QED BY <1>1, <1>2 DEF LedgerInv

\* The admission of a request: only the row of that request changes, from
\* absent to pending.
LEMMA AdmissionSteps ==
    ASSUME UsageInv, NEW r \in Requests,
           \/ Admit(r) \/ LateCommit(r) \/ Reconcile(r)
           \/ \E late \in BOOLEAN : AppendBreaks(r, late)
    PROVE  UsageInv'
  <1> USE UsageAssumption
  <1>0. r \in Journalled /\ r \notin Charges
    BY DEF Journalled
  <1>1. /\ journal' = journal \/ journal' = [journal EXCEPT ![r] = "pending"]
        /\ UNCHANGED <<ledger, failureMode, charging, projector>>
        /\ dangling' \in SUBSET Requests
    BY DEF UsageInv, UsageTypes, Admit, LateCommit, Reconcile, AppendBreaks
  <1>2. journal' # journal => journal[r] = "absent"
    BY DEF UsageInv, AdmissionInv, Admit, LateCommit, Reconcile, AppendBreaks
  <1>3. request' \in [Requests -> {"arrived", "reconcile", "served", "refused"}]
    BY DEF UsageInv, UsageTypes, Admit, LateCommit, Reconcile, AppendBreaks, Advance
  <1>4. UsageTypes'
    BY <1>1, <1>3 DEF UsageInv, UsageTypes
  <1>5. AdmissionInv'
    <2>1. CASE Admit(r)
      BY <1>0, <2>1 DEF UsageInv, UsageTypes, AdmissionInv, Admit, Advance
    <2>2. CASE LateCommit(r)
      <3>1. /\ \A x \in Requests : x # r => journal'[x] = journal[x]
            /\ journal[r] = "absent"
        BY <1>1, <2>2 DEF UsageInv, UsageTypes, AdmissionInv, LateCommit, Journalled
      <3>2. \A x \in Requests : request[x] = "arrived" => x # r
        BY <2>2 DEF UsageInv, AdmissionInv, LateCommit
      <3>3. /\ dangling' = dangling \ {r} /\ UNCHANGED <<failureMode, request>>
            /\ dangling \in SUBSET Requests
        BY <2>2 DEF LateCommit, UsageInv, UsageTypes
      <3>4. failureMode = "closed" => request[r] # "served"
        BY <3>1 DEF UsageInv, AdmissionInv
      <3> QED BY <3>1, <3>2, <3>3, <3>4 DEF UsageInv, AdmissionInv
    <2>3. CASE Reconcile(r)
      <3>1. PICK found \in {FALSE, EventExists(r)} :
                request' = [request EXCEPT ![r] =
                   IF found \/ failureMode = "open" THEN "served" ELSE "refused"]
        BY <2>3 DEF Reconcile, Advance
      <3>2. found => journal[r] # "absent"
        BY <3>1 DEF EventExists
      <3> QED BY <2>3, <3>1, <3>2
           DEF UsageInv, UsageTypes, AdmissionInv, Reconcile
    <2>4. ASSUME NEW late \in BOOLEAN, AppendBreaks(r, late)
          PROVE  AdmissionInv'
      BY <2>4 DEF UsageInv, UsageTypes, AdmissionInv, AppendBreaks, Advance
    <2> QED BY <2>1, <2>2, <2>3, <2>4
  <1>6. ChargeInv'
    BY <1>0, <1>1, <1>2 DEF UsageInv, UsageTypes, ChargeInv, Journalled
  <1>7. ProjectorInv'
    BY <1>0, <1>1, <1>2 DEF UsageInv, UsageTypes, ProjectorInv
  <1>8. LedgerInv'
    <2>1. \A e \in Journalled : journal'[e] = "projected" <=> journal[e] = "projected"
      BY <1>0, <1>1, <1>2 DEF UsageInv, UsageTypes
    <2> QED BY <1>1, <2>1, TotalsStay DEF UsageInv
  <1> QED BY <1>4, <1>5, <1>6, <1>7, <1>8 DEF UsageInv

\* A charge: journalled and added in one commit.
LEMMA ChargeSteps ==
    ASSUME UsageInv, NEW t \in Tries,
           \/ \E e \in Charges : InsertCharge(t, e)
           \/ CommitCharge(t) \/ ChargeFails(t)
    PROVE  UsageInv'
  <1> USE UsageAssumption
  <1>1. ASSUME NEW e \in Charges, InsertCharge(t, e)
        PROVE  UsageInv'
    <2>1. UsageTypes' /\ AdmissionInv' /\ ProjectorInv'
      BY <1>1 DEF UsageInv, UsageTypes, AdmissionInv, ProjectorInv, InsertCharge
    <2>2. ChargeInv'
      BY <1>1 DEF UsageInv, UsageTypes, ChargeInv, InsertCharge, Uncharged, None
    <2>3. LedgerInv'
      BY <1>1, TotalsStay DEF UsageInv, InsertCharge
    <2> QED BY <2>1, <2>2, <2>3 DEF UsageInv
  <1>2. CASE ChargeFails(t)
    <2>1. UsageTypes' /\ AdmissionInv' /\ ProjectorInv'
      BY <1>2 DEF UsageInv, UsageTypes, AdmissionInv, ProjectorInv, ChargeFails, None
    <2>2. ChargeInv'
      BY <1>2 DEF UsageInv, UsageTypes, ChargeInv, ChargeFails, None
    <2>3. LedgerInv'
      BY <1>2, TotalsStay DEF UsageInv, ChargeFails
    <2> QED BY <2>1, <2>2, <2>3 DEF UsageInv
  <1>3. CASE CommitCharge(t)
    <2>1. PICK e : e = charging[t]
      OBVIOUS
    <2>2. e \in Charges /\ e \in Journalled /\ e \notin Requests /\ journal[e] = "absent"
      BY <1>3, <2>1 DEF UsageInv, UsageTypes, ChargeInv, CommitCharge, None, Journalled
    <2>3. /\ journal' = [journal EXCEPT ![e] = "projected"]
          /\ ledger' = Added({e})
          /\ charging' = [charging EXCEPT ![t] = "none"]
          /\ UNCHANGED <<failureMode, request, dangling, projector>>
      BY <1>3, <2>1 DEF CommitCharge, None
    <2>4. LedgerInv' /\ ledger' \in [Buckets -> Nat]
      <3>1. {e} \in SUBSET Journalled /\ \A x \in {e} : journal[x] # "projected"
        BY <2>2
      <3>2. \A x \in Journalled : journal'[x] = "projected" <=>
                                    journal[x] = "projected" \/ x \in {e}
        BY <2>2, <2>3 DEF UsageInv, UsageTypes
      <3> QED BY <2>3, <3>1, <3>2, TotalsGrow DEF UsageInv
    <2>5. UsageTypes'
      BY <2>2, <2>3, <2>4 DEF UsageInv, UsageTypes
    <2>6. AdmissionInv'
      BY <2>2, <2>3 DEF UsageInv, UsageTypes, AdmissionInv
    <2>7. ChargeInv'
      BY <2>1, <2>2, <2>3 DEF UsageInv, UsageTypes, ChargeInv
    <2>8. ProjectorInv'
      BY <2>2, <2>3 DEF UsageInv, UsageTypes, ProjectorInv
    <2> QED BY <2>4, <2>5, <2>6, <2>7, <2>8 DEF UsageInv
  <1> QED BY <1>1, <1>2, <1>3

\* A projection: what is locked stays pending until it is marked and added.
LEMMA ProjectionSteps ==
    ASSUME UsageInv, NEW p \in Projectors,
           \/ LookForPending(p) \/ ClaimEvents(p)
           \/ CommitProjection(p) \/ ProjectionFails(p)
    PROVE  UsageInv'
  <1> USE UsageAssumption
  <1>1. ASSUME UNCHANGED <<journal, ledger, failureMode, request, dangling, charging>>,
               NEW x \in [pc : {"idle", "claim", "fold"}, seen : SUBSET Journalled,
                          took : SUBSET Journalled],
               projector' = [projector EXCEPT ![p] = x],
               x.pc # "fold" => x.took = {},
               \A e \in x.took : /\ journal[e] = "pending"
                                 /\ \A q \in Projectors : e \notin projector[q].took
        PROVE  UsageInv'
    <2>1. UsageTypes' /\ AdmissionInv' /\ ChargeInv'
      BY <1>1 DEF UsageInv, UsageTypes, AdmissionInv, ChargeInv
    <2>2. ProjectorInv'
      BY <1>1 DEF UsageInv, UsageTypes, ProjectorInv
    <2>3. LedgerInv'
      BY <1>1, TotalsStay DEF UsageInv
    <2> QED BY <2>1, <2>2, <2>3 DEF UsageInv
  <1>2. CASE LookForPending(p)
    <2>1. PICK x : x = [pc |-> "claim", seen |-> {e \in Journalled : journal[e] = "pending"},
                        took |-> {}]
      OBVIOUS
    <2>2. projector' = [projector EXCEPT ![p] = x]
      BY <1>2, <2>1 DEF LookForPending
    <2>3. /\ x \in [pc : {"idle", "claim", "fold"}, seen : SUBSET Journalled,
                    took : SUBSET Journalled]
          /\ x.took = {}
      BY <2>1
    <2> QED BY <1>1, <1>2, <2>2, <2>3 DEF LookForPending
  <1>3. CASE ClaimEvents(p)
    <2>1. PICK took \in SUBSET {e \in Journalled : Claimable(p, e)} :
              projector' = [projector EXCEPT ![p] =
                               [pc |-> "fold", seen |-> {}, took |-> took]]
      BY <1>3 DEF ClaimEvents, kSubset
    <2>2. PICK x : x = [pc |-> "fold", seen |-> {}, took |-> took]
      OBVIOUS
    <2>3. /\ x \in [pc : {"idle", "claim", "fold"}, seen : SUBSET Journalled,
                    took : SUBSET Journalled]
          /\ x.took = took /\ x.pc = "fold"
      BY <2>1, <2>2
    <2>4. \A e \in x.took : /\ journal[e] = "pending"
                            /\ \A q \in Projectors : e \notin projector[q].took
      BY <2>1, <2>3 DEF Claimable
    <2> QED BY <1>1, <1>3, <2>1, <2>2, <2>3, <2>4 DEF ClaimEvents
  <1>4. CASE ProjectionFails(p)
    <2>1. /\ NoBatchYet \in [pc : {"idle", "claim", "fold"}, seen : SUBSET Journalled,
                             took : SUBSET Journalled]
          /\ NoBatchYet.took = {}
      BY DEF NoBatchYet
    <2> QED BY <1>1, <1>4, <2>1 DEF ProjectionFails
  <1>5. CASE CommitProjection(p)
    <2>1. PICK new : new = projector[p].took
      OBVIOUS
    <2>2. new \in SUBSET Journalled /\ \A e \in new : journal[e] = "pending"
      BY <2>1 DEF UsageInv, UsageTypes, ProjectorInv
    <2>3. /\ journal' = [e \in Journalled |->
                            IF e \in new THEN "projected" ELSE journal[e]]
          /\ ledger' = Added(new)
          /\ projector' = [projector EXCEPT ![p] = NoBatchYet]
          /\ UNCHANGED <<failureMode, request, dangling, charging>>
      BY <1>5, <2>1 DEF CommitProjection
    <2>4. LedgerInv' /\ ledger' \in [Buckets -> Nat]
      <3>1. \A e \in Journalled : journal'[e] = "projected" <=>
                                    journal[e] = "projected" \/ e \in new
        BY <2>3
      <3>2. \A e \in new : journal[e] # "projected"
        BY <2>2
      <3> QED BY <2>2, <2>3, <3>1, <3>2, TotalsGrow DEF UsageInv
    <2>5. NoBatchYet.took = {} /\ NoBatchYet.pc = "idle" /\ NoBatchYet.seen = {}
      BY DEF NoBatchYet
    <2>6. UsageTypes'
      <3>1. NoBatchYet \in [pc : {"idle", "claim", "fold"}, seen : SUBSET Journalled,
                             took : SUBSET Journalled]
        BY DEF NoBatchYet
      <3> QED BY <2>2, <2>3, <2>4, <3>1 DEF UsageInv, UsageTypes
    <2>7. AdmissionInv' /\ ChargeInv'
      <3>1. \A e \in Journalled : journal[e] = "absent" <=> journal'[e] = "absent"
        BY <2>2, <2>3 DEF UsageInv, UsageTypes
      <3>2. Requests \subseteq Journalled /\ Charges \subseteq Journalled
        BY DEF Journalled
      <3>3. AdmissionInv'
        BY <2>3, <3>1, <3>2 DEF UsageInv, UsageTypes, AdmissionInv
      <3>4. ChargeInv'
        BY <2>3, <3>1, <3>2 DEF UsageInv, UsageTypes, ChargeInv
      <3> QED BY <3>3, <3>4
    <2>8. ProjectorInv'
      <3>1. \A q \in Projectors : q # p => projector'[q] = projector[q]
        BY <2>3 DEF UsageInv, UsageTypes
      <3>2. projector'[p] = NoBatchYet
        BY <2>3 DEF UsageInv, UsageTypes
      <3>3. \A q \in Projectors : q # p =>
               \A e \in projector[q].took : e \in Journalled /\ e \notin new
        BY <2>1 DEF UsageInv, UsageTypes, ProjectorInv
      <3> QED BY <2>3, <2>5, <3>1, <3>2, <3>3 DEF UsageInv, ProjectorInv
    <2> QED BY <2>4, <2>6, <2>7, <2>8 DEF UsageInv
  <1> QED BY <1>2, <1>3, <1>4, <1>5

LEMMA UsageSteps == UsageInv /\ [UsageNext]_usageVars => UsageInv'
  <1> SUFFICES ASSUME UsageInv, [UsageNext]_usageVars PROVE UsageInv'
    OBVIOUS
  <1>1. CASE UNCHANGED usageVars
    <2>1. UsageTypes' /\ AdmissionInv' /\ ChargeInv' /\ ProjectorInv'
      BY <1>1 DEF UsageInv, UsageTypes, AdmissionInv, ChargeInv, ProjectorInv, usageVars
    <2>2. LedgerInv'
      BY <1>1, TotalsStay DEF UsageInv, usageVars
    <2> QED BY <2>1, <2>2 DEF UsageInv
  <1>2. ASSUME NEW r \in Requests,
               \/ Admit(r) \/ LateCommit(r) \/ Reconcile(r)
               \/ \E late \in BOOLEAN : AppendBreaks(r, late)
        PROVE  UsageInv'
    BY <1>2, AdmissionSteps
  <1>3. ASSUME NEW t \in Tries,
               \/ \E e \in Charges : InsertCharge(t, e)
               \/ CommitCharge(t) \/ ChargeFails(t)
        PROVE  UsageInv'
    BY <1>3, ChargeSteps
  <1>4. ASSUME NEW p \in Projectors,
               \/ LookForPending(p) \/ ClaimEvents(p)
               \/ CommitProjection(p) \/ ProjectionFails(p)
        PROVE  UsageInv'
    BY <1>4, ProjectionSteps
  <1> QED BY <1>1, <1>2, <1>3, <1>4 DEF UsageNext

\* However appends break, charges are retried and projectors meet or die, every
\* total is the sum of its projected events, each counted once, and a deployment
\* that fails closed serves nothing it does not bill: the marks and the totals of
\* project_pending_tenant_usage_events are one commit, of rows it has locked.
THEOREM UsageExact == UsageSpec => []UsageIsExact
  <1>1. UsageInv => UsageIsExact
    BY DEF UsageInv, LedgerInv, Counted, SumOf, AdmissionInv, UsageIsExact
  <1> QED BY <1>1, UsageBegins, UsageSteps, PTL DEF UsageSpec

-----------------------------------------------------------------------------
(* Live synchronisation *)

BatchRow == [index : Nat, to : 0 .. SourceRows, total : Nat, seq : Nat]
ClaimRow == [status : {"none", "claimed", "expired", "released"},
             on : Nat, lapsed : BOOLEAN]
Activity == [pc : {"idle", "claiming", "planned", "looping", "persist"},
             attempt : Attempts \cup {0}, seed : Nat, base : BatchRow, at : BatchRow,
             new : SUBSET BatchRow, limit : Nat, renewed : BOOLEAN,
             stale : Attempts \cup {0},
             outcome : {"none", "failed", "blocked", "completed"}]

SyncTypes ==
    /\ batches \in SUBSET BatchRow
    /\ executed \in SUBSET Attempts
    /\ metered \in [Attempts -> Nat]
    /\ claim \in [Attempts -> ClaimRow]
    /\ tick \in [Attempts -> {"waiting", "claim", "fresh", "claimed", "release", "done"}]
    /\ thread \in [Threads -> Activity]

\* The batch with the highest sequence, as get_latest_connector_sync_checkpoint
\* would find it in B.
Last(B) == IF B = {} THEN NoBatch
           ELSE CHOOSE b \in B : \A c \in B : c.seq <= b.seq

\* Batches without gap or overlap, in the order of their sequence numbers.
Follows(b, c) == b.index < c.index => b.seq < c.seq /\ b.to <= c.to
Chain(B) ==
    /\ B \in SUBSET BatchRow /\ IsFiniteSet(B)
    /\ \A b \in B : b.total = Accepted(0, b.to)
    /\ \A b, c \in B : Follows(b, c) /\ (b.index = c.index => b = c)
    /\ {b.index : b \in B} = 1 .. Cardinality(B)

\* The sequence numbers given out so far.
Sequences(B) == Cardinality(B) + Cardinality(executed)

Claimed(a) == claim[a].status # "none"
NoClaimer(a) == \A t \in Threads : thread[t].pc = "claiming" => thread[t].attempt # a

\* A claim, or a transaction that is to make one, is of a batch that exists.
ClaimInv ==
    /\ \A a \in Attempts :
          IF Claimed(a) THEN claim[a].on \in 1 .. Last(batches).index
          ELSE claim[a] = NoClaim
    /\ \A t \in Threads : thread[t].pc = "claiming" =>
          /\ thread[t].base.index \in 1 .. Last(batches).index
          /\ thread[t].stale # 0 => Claimed(thread[t].stale)

\* A workflow that found the run fresh never has a claim.
TickInv ==
    \A a \in Attempts :
        /\ tick[a] = "fresh" => ~Claimed(a) /\ NoClaimer(a)
        /\ tick[a] = "claimed" => Claimed(a)

\* The seed of an execution that has yet to resume is the total it will resume
\* from, or its claim is of an earlier batch than it will find.
Outrun(a) == batches # {} /\ (Claimed(a) => claim[a].on < Last(batches).index)
Planned(w) ==
    /\ w.new = {}
    /\ ~Claimed(w.attempt) => /\ NoClaimer(w.attempt)
                              /\ tick[w.attempt] \notin {"waiting", "claim"}
    /\ w.seed = Last(batches).total \/ Outrun(w.attempt)

\* An execution in its loop: what it has read goes on from the batch it found,
\* which is still the last one once it has inserted its first.
Based(w) ==
    /\ w.base = NoBatch \/ w.base \in batches
    /\ w.seed = w.base.total /\ w.base.seq <= w.at.seq
    /\ w.new = {} =>
          /\ w.at.index = w.base.index /\ w.at.to = w.base.to
          /\ w.at.total = w.base.total /\ w.at.seq <= Sequences(batches)
Ahead(w) ==
    /\ w.base = Last(batches) /\ w.seed = w.base.total
    /\ w.new \cap batches = {}
    /\ Chain(batches \cup w.new) /\ w.at = Last(batches \cup w.new)
    /\ \A c \in w.new : c.seq <= Sequences(batches \cup w.new)

\* What the committed batches say of an activity ...
Fine(w) ==
    /\ w.pc # "idle" => w.attempt \in Attempts
    /\ w.pc \in {"idle", "claiming"} => w.new = {}
    /\ w.pc = "looping" => Based(w)
    /\ w.pc = "persist" /\ w.new = {} => w.at.total <= w.seed
    /\ w.new # {} => Ahead(w)

\* ... and the claims and workflows of one that is to resume.
SeedInv(t) == thread[t].pc = "planned" => Planned(thread[t])

ThreadInv == \A t \in Threads : Fine(thread[t]) /\ SeedInv(t)

\* One execution at a time has batches that are not committed.
WriterInv == \A t, u \in Threads : thread[t].new # {} /\ thread[u].new # {} => t = u

BatchInv ==
    /\ Chain(batches)
    /\ \A b \in batches : b.seq <= Sequences(batches)

MeterInv ==
    /\ \A a \in Attempts \ executed : metered[a] = 0
    /\ SumOf(metered, Attempts) = Last(batches).total

SyncInv == SyncTypes /\ ClaimInv /\ TickInv /\ ThreadInv /\ WriterInv /\ BatchInv /\ MeterInv

\* Of two numbers Min takes the smaller.
LEMMA MinOfTwo ==
    ASSUME NEW x \in Int, NEW y \in Int
    PROVE  Min({x, y}) \in {x, y} /\ Min({x, y}) <= x /\ Min({x, y}) <= y
  <1>1. \E m \in {x, y} : \A k \in {x, y} : m =< k
    <2>1. CASE x <= y
      BY <2>1
    <2>2. CASE y <= x
      BY <2>2
    <2> QED BY <2>1, <2>2
  <1>2. Min({x, y}) \in {x, y} /\ \A k \in {x, y} : Min({x, y}) =< k
    BY <1>1 DEF Min
  <1> QED BY <1>2

\* The accepted rows of two stretches that meet add up.
LEMMA AcceptedAdds ==
    ASSUME NEW x \in Nat, NEW y \in Nat, x <= y
    PROVE  /\ Accepted(0, x) \in Nat /\ Accepted(x, y) \in Nat
           /\ Accepted(0, y) = Accepted(0, x) + Accepted(x, y)
  <1> DEFINE S == (1 .. x) \ RejectedRows
             T == ((x + 1) .. y) \ RejectedRows
  <1>1. IsFiniteSet(S) /\ IsFiniteSet(T)
    <2>1. IsFiniteSet(1 .. x) /\ IsFiniteSet((x + 1) .. y)
      BY FS_Interval
    <2> QED BY <2>1, FS_Difference
  <1>2. S \cap T = {} /\ S \cup T = (1 .. y) \ RejectedRows
    OBVIOUS
  <1>3. Cardinality(S) \in Nat /\ Cardinality(T) \in Nat
    BY <1>1, FS_CardinalityType
  <1>4. Cardinality(S \cap T) = 0
    BY <1>2, FS_EmptySet
  <1>5. Cardinality(S \cup T) = Cardinality(S) + Cardinality(T)
    <2> HIDE DEF S, T
    <2>1. Cardinality(S \cup T) = Cardinality(S) + Cardinality(T) - Cardinality(S \cap T)
      BY <1>1, FS_Union
    <2> QED BY <1>3, <1>4, <2>1
  <1>6. /\ Accepted(0, x) = Cardinality(S) /\ Accepted(x, y) = Cardinality(T)
        /\ Accepted(0, y) = Cardinality((1 .. y) \ RejectedRows)
    BY DEF Accepted
  <1> QED BY <1>2, <1>3, <1>5, <1>6

LEMMA AcceptedNothing == Accepted(0, 0) = 0
  <1>1. (0 + 1) .. 0 \ RejectedRows = {}
    OBVIOUS
  <1> QED BY <1>1, FS_EmptySet DEF Accepted

\* The last batch of a chain is its furthest.
LEMMA LastOfChain ==
    ASSUME NEW B, Chain(B)
    PROVE  /\ Last(B) \in BatchRow /\ Last(B).index = Cardinality(B)
           /\ Cardinality(B) \in Nat
           /\ B # {} => Last(B) \in B
           /\ B = {} => Last(B) = NoBatch
           /\ \A b \in B : /\ b.to <= Last(B).to /\ b.seq <= Last(B).seq
                           /\ b.index \in 1 .. Cardinality(B)
           /\ Last(B).total = Accepted(0, Last(B).to)
  <1>0. Cardinality(B) \in Nat /\ B \in SUBSET BatchRow
    BY FS_CardinalityType DEF Chain
  <1>1. CASE B = {}
    <2>1. Cardinality(B) = 0 /\ Last(B) = NoBatch
      BY <1>1, FS_EmptySet DEF Last
    <2>2. NoBatch \in BatchRow
      BY LiveSyncAssumption DEF NoBatch, BatchRow
    <2> QED BY <1>1, <2>1, <2>2, AcceptedNothing DEF NoBatch
  <1>2. CASE B # {}
    <2>1. Cardinality(B) # 0
      BY <1>2, FS_EmptySet DEF Chain
    <2>2. PICK m \in B : m.index = Cardinality(B)
      <3>1. Cardinality(B) \in 1 .. Cardinality(B)
        BY <1>0, <2>1
      <3> QED BY <3>1 DEF Chain
    <2>3. \A b \in B : b.index \in 1 .. Cardinality(B)
      BY DEF Chain
    <2>4. ASSUME NEW b \in B
          PROVE  b.to <= m.to /\ b.seq <= m.seq /\ (b # m => b.seq < m.seq)
      <3>0. /\ b.index \in Nat /\ b.to \in 0 .. SourceRows /\ b.seq \in Nat
            /\ m.index \in Nat /\ m.to \in 0 .. SourceRows /\ m.seq \in Nat
        BY <1>0 DEF BatchRow
      <3>1. CASE b = m
        BY <3>0, <3>1
      <3>2. CASE b # m
        <4>1. b.index < m.index
          BY <2>2, <2>3, <3>0, <3>2 DEF Chain
        <4> QED BY <3>0, <4>1 DEF Chain, Follows
      <3> QED BY <3>1, <3>2
    <2>5. Last(B) \in B /\ \A c \in B : c.seq <= Last(B).seq
      BY <1>2, <2>4 DEF Last
    <2>6. Last(B) = m
      <3>1. Last(B).seq \in Nat /\ m.seq \in Nat
        BY <1>0, <2>5 DEF BatchRow
      <3> QED BY <2>4, <2>5, <3>1
    <2> QED BY <1>0, <1>2, <2>2, <2>3, <2>4, <2>6 DEF Chain
  <1> QED BY <1>0, <1>1, <1>2

\* A batch that goes on from the last one lengthens the chain.
LEMMA ChainGrows ==
    ASSUME NEW B, Chain(B), NEW b \in BatchRow,
           b.index = Cardinality(B) + 1, b.total = Accepted(0, b.to),
           Last(B).seq < b.seq, Last(B).to <= b.to
    PROVE  /\ b \notin B /\ Chain(B \cup {b}) /\ Last(B \cup {b}) = b
           /\ Cardinality(B \cup {b}) = Cardinality(B) + 1
  <1>0. Cardinality(B) \in Nat /\ B \in SUBSET BatchRow /\ IsFiniteSet(B)
    BY FS_CardinalityType DEF Chain
  <1>1. \A c \in B : c.index \in 1 .. Cardinality(B)
    BY LastOfChain
  <1>2. b \notin B
    BY <1>0, <1>1
  <1>3. IsFiniteSet(B \cup {b}) /\ Cardinality(B \cup {b}) = Cardinality(B) + 1
    BY <1>0, <1>2, FS_AddElement
  <1>4. {c.index : c \in B \cup {b}} = 1 .. Cardinality(B) + 1
    <2>1. {c.index : c \in B \cup {b}} = {c.index : c \in B} \cup {b.index}
      OBVIOUS
    <2>2. {c.index : c \in B} = 1 .. Cardinality(B)
      BY DEF Chain
    <2>3. 1 .. Cardinality(B) + 1 = (1 .. Cardinality(B)) \cup {Cardinality(B) + 1}
      BY <1>0
    <2> QED BY <2>1, <2>2, <2>3
  <1>5. ASSUME NEW c \in B
        PROVE  c.index < b.index /\ c.seq < b.seq /\ c.to <= b.to /\ ~(b.index < c.index)
    <2>1. c.to <= Last(B).to /\ c.seq <= Last(B).seq /\ Last(B) \in BatchRow
      BY LastOfChain
    <2>2. /\ c.index \in Nat /\ c.to \in 0 .. SourceRows /\ c.seq \in Nat
          /\ b.index \in Nat /\ b.to \in 0 .. SourceRows /\ b.seq \in Nat
          /\ Last(B).to \in 0 .. SourceRows /\ Last(B).seq \in Nat
      BY <1>0, <2>1 DEF BatchRow
    <2>3. c.index < b.index
      BY <1>0, <1>1, <2>2
    <2>4. c.seq < b.seq
      BY <2>1, <2>2
    <2>5. c.to <= b.to
      BY <2>1, <2>2, LiveSyncAssumption
    <2> QED BY <2>2, <2>3, <2>4, <2>5
  <1>6. \A c, d \in B \cup {b} : Follows(c, d) /\ (c.index = d.index => c = d)
    <2>1. \A c, d \in B : Follows(c, d) /\ (c.index = d.index => c = d)
      BY DEF Chain
    <2>2. b.index \in Nat /\ \A c \in B : c.index \in Nat
      BY <1>0 DEF BatchRow
    <2>3. \A c \in B : c.index # b.index
      BY <1>5, <2>2
    <2> QED BY <1>5, <2>1, <2>2, <2>3 DEF Follows
  <1>7. Chain(B \cup {b})
    BY <1>0, <1>3, <1>4, <1>6 DEF Chain
  <1>8. Last(B \cup {b}) = b
    <2>1. PICK C : C = B \cup {b}
      OBVIOUS
    <2>2. Last(C) \in C /\ Last(C).index = Cardinality(C)
      BY <1>7, <2>1, LastOfChain
    <2>3. Last(C).index = b.index
      BY <1>3, <2>1, <2>2
    <2> QED BY <1>6, <2>1, <2>2, <2>3
  <1> QED BY <1>2, <1>3, <1>7, <1>8

LEMMA AttemptsAreFinite == IsFiniteSet(Attempts)
  <1>1. 1 \in Int /\ MaxSyncAttempts \in Int
    BY LiveSyncAssumption
  <1>2. IsFiniteSet(1 .. MaxSyncAttempts)
    BY <1>1, FS_Interval
  <1> QED BY <1>2 DEF Attempts

LEMMA LatestIsLast == LatestBatch = Last(batches)
  BY DEF LatestBatch, Last

LEMMA ActivityTypes ==
    /\ Unused \in Activity /\ Unused.pc = "idle" /\ Unused.new = {}
    /\ NoBatch \in BatchRow /\ NoBatch.index = 0 /\ NoBatch.to = 0
    /\ NoBatch.total = 0 /\ NoBatch.seq = 0
    /\ NoClaim \in ClaimRow /\ NoClaim.status = "none" /\ NoClaim.on = 0
  <1>1. /\ NoBatch \in BatchRow /\ NoBatch.index = 0 /\ NoBatch.to = 0
        /\ NoBatch.total = 0 /\ NoBatch.seq = 0
    BY LiveSyncAssumption DEF NoBatch, BatchRow
  <1>2. /\ Unused \in Activity /\ Unused.pc = "idle" /\ Unused.new = {}
    BY <1>1 DEF Unused, Activity, NoAttempt
  <1> QED BY <1>1, <1>2 DEF NoClaim, ClaimRow

\* The chain of committed batches and its last one.
LEMMA LastCommitted ==
    ASSUME SyncInv
    PROVE  /\ LatestBatch = Last(batches) /\ LatestBatch \in BatchRow
           /\ LatestBatch.index = Cardinality(batches)
           /\ LatestBatch.index \in Nat /\ LatestBatch.total \in Nat
           /\ LatestBatch.seq \in Nat /\ LatestBatch.to \in 0 .. SourceRows
           /\ LatestBatch.total = Accepted(0, LatestBatch.to)
           /\ batches = {} <=> LatestBatch.index = 0
           /\ batches # {} => LatestBatch \in batches
           /\ batches = {} => LatestBatch = NoBatch
  <1>1. Chain(batches) /\ IsFiniteSet(batches)
    BY DEF SyncInv, BatchInv, Chain
  <1>2. LatestBatch = Last(batches)
    BY LatestIsLast
  <1>3. batches = {} <=> Cardinality(batches) = 0
    BY <1>1, FS_EmptySet
  <1>4. /\ Last(batches) \in BatchRow /\ Last(batches).index = Cardinality(batches)
        /\ batches # {} => Last(batches) \in batches
        /\ batches = {} => Last(batches) = NoBatch
        /\ Last(batches).total = Accepted(0, Last(batches).to)
    BY <1>1, LastOfChain
  <1> QED BY <1>2, <1>3, <1>4 DEF BatchRow

\* What a step that commits no batch does to the claim of an attempt, ...
ClaimKept(a) ==
    /\ Claimed(a)' <=> Claimed(a)
    /\ claim'[a].on = claim[a].on
    /\ ~Claimed(a) => claim'[a] = NoClaim

\* ... to its workflow, ...
TickMoves(a) ==
    \/ tick'[a] = tick[a] \/ tick'[a] \in {"release", "done"}
    \/ tick[a] = "waiting" /\ tick'[a] = "claim"
    \/ tick[a] = "claim" /\ tick'[a] = "fresh" /\ ~Claimed(a) /\ NoClaimer(a)'
    \/ tick[a] = "claim" /\ tick'[a] = "claimed" /\ Claimed(a)

\* ... and to a thread.
ThreadMoves(t) ==
    \/ thread'[t] = thread[t]
    \/ /\ Fine(thread'[t]) /\ SeedInv(t)'
       /\ thread'[t].pc = "claiming" =>
             /\ thread'[t].base.index \in 1 .. Last(batches).index
             /\ thread'[t].stale # 0 => Claimed(thread'[t].stale)
             /\ tick[thread'[t].attempt] = "claim"
             /\ tick'[thread'[t].attempt] = "claim"

LEMMA QuietStep ==
    ASSUME SyncInv, SyncTypes', UNCHANGED <<batches, executed, metered>>,
           \A a \in Attempts : ClaimKept(a) /\ TickMoves(a),
           \A t \in Threads : ThreadMoves(t),
           WriterInv'
    PROVE  SyncInv'
  <1>1. BatchInv' /\ MeterInv'
    BY DEF SyncInv, BatchInv, MeterInv, Sequences
  <1>2. ClaimInv'
    <2>1. ASSUME NEW a \in Attempts
          PROVE  IF Claimed(a)' THEN claim'[a].on \in 1 .. Last(batches).index
                 ELSE claim'[a] = NoClaim
      BY DEF SyncInv, ClaimInv, ClaimKept
    <2>2. ASSUME NEW t \in Threads, thread'[t].pc = "claiming"
          PROVE  /\ thread'[t].base.index \in 1 .. Last(batches).index
                 /\ thread'[t].stale # 0 => Claimed(thread'[t].stale)
      BY <2>2 DEF SyncInv, ClaimInv, ThreadMoves
    <2>3. ASSUME NEW t \in Threads, thread'[t].stale # 0, Claimed(thread'[t].stale)
          PROVE  Claimed(thread[t].stale)'
      <3>1. thread'[t].stale \in Attempts
        BY <2>3 DEF SyncTypes, Activity
      <3> QED BY <2>3, <3>1 DEF ClaimKept, Claimed
    <2> QED BY <2>1, <2>2, <2>3 DEF ClaimInv, Claimed
  <1>3. ASSUME NEW a \in Attempts, NoClaimer(a), tick[a] # "claim"
        PROVE  NoClaimer(a)'
    BY <1>3 DEF NoClaimer, ThreadMoves
  <1>4. TickInv'
    <2>1. ASSUME NEW a \in Attempts, tick'[a] = "fresh"
          PROVE  ~Claimed(a)' /\ NoClaimer(a)'
      BY <1>3, <2>1 DEF SyncInv, TickInv, TickMoves, ClaimKept
    <2>2. ASSUME NEW a \in Attempts, tick'[a] = "claimed"
          PROVE  Claimed(a)'
      BY <2>2 DEF SyncInv, TickInv, TickMoves, ClaimKept
    <2> QED BY <2>1, <2>2 DEF TickInv
  <1>5. ASSUME NEW t \in Threads
        PROVE  Fine(thread[t])' /\ SeedInv(t)'
    <2>1. Fine(thread'[t])
      BY DEF SyncInv, ThreadInv, ThreadMoves
    <2>2. Fine(thread[t])'
      BY <2>1 DEF Fine, Based, Ahead, Sequences
    <2>3. CASE thread'[t] = thread[t]
      <3> SUFFICES ASSUME thread[t].pc = "planned"
                   PROVE  Planned(thread[t])'
        BY <2>2, <2>3 DEF SeedInv
      <3>1. PICK w : w = thread[t]
        OBVIOUS
      <3>2. w.attempt \in Attempts /\ Planned(w)
        BY <3>1 DEF SyncInv, ThreadInv, Fine, SeedInv
      <3>3. ~Claimed(w.attempt) =>
               NoClaimer(w.attempt)' /\ tick'[w.attempt] \notin {"waiting", "claim"}
        BY <1>3, <3>2 DEF Planned, TickMoves
      <3>4. (Claimed(w.attempt)' <=> Claimed(w.attempt)) /\ (Outrun(w.attempt) => Outrun(w.attempt)')
        BY <3>2 DEF ClaimKept, Outrun
      <3>5. Planned(w)'
        BY <3>2, <3>3, <3>4 DEF Planned
      <3> QED BY <2>3, <3>1, <3>5
    <2> QED BY <2>2, <2>3 DEF ThreadMoves
  <1> QED BY <1>1, <1>2, <1>4, <1>5 DEF SyncInv, ThreadInv

\* Steps of a workflow, of the clock and of the release leave the threads alone.
LEMMA WorkflowSteps ==
    ASSUME SyncInv, NEW a \in Attempts,
           ListCandidate(a) \/ LeaseLapses(a) \/ ReleaseClaim(a) \/ GiveUp(a)
    PROVE  SyncInv'
  <1>0. UNCHANGED <<batches, executed, metered, thread>>
    BY DEF ListCandidate, LeaseLapses, ReleaseClaim, GiveUp
  <1>1. claim[a] \in ClaimRow /\ claim \in [Attempts -> ClaimRow]
    BY DEF SyncInv, SyncTypes
  <1>2. /\ claim' = claim
        \/ /\ claim' = [claim EXCEPT ![a].lapsed = TRUE]
           /\ claim[a].status = "claimed"
        \/ /\ claim' = [claim EXCEPT ![a].status = "released"]
           /\ claim[a].status = "claimed"
    BY DEF ListCandidate, LeaseLapses, ReleaseClaim, GiveUp
  <1>3. ASSUME NEW b \in Attempts
        PROVE  claim'[b] \in ClaimRow /\ ClaimKept(b)
    <2>1. claim[b] \in ClaimRow /\ (~Claimed(b) => claim[b] = NoClaim)
      BY <1>1 DEF SyncInv, ClaimInv
    <2>2. CASE claim'[b] = claim[b]
      BY <2>1, <2>2 DEF ClaimKept, Claimed
    <2>3. CASE claim'[b] # claim[b]
      <3>1. b = a /\ claim[a].status = "claimed"
        BY <1>1, <1>2, <2>3
      <3>2. claim'[a] = [claim[a] EXCEPT !.lapsed = TRUE]
            \/ claim'[a] = [claim[a] EXCEPT !.status = "released"]
        BY <1>1, <1>2, <2>3, <3>1
      <3>3. /\ claim'[a] \in ClaimRow /\ claim'[a].on = claim[a].on
            /\ claim'[a].status # "none"
        BY <1>1, <3>1, <3>2 DEF ClaimRow
      <3> QED BY <3>1, <3>3 DEF ClaimKept, Claimed
    <2> QED BY <2>2, <2>3
  <1>4. claim' \in [Attempts -> ClaimRow]
    <2>1. claim' = [b \in Attempts |-> claim'[b]]
      BY <1>1, <1>2
    <2> QED BY <1>3, <2>1
  <1>5. /\ tick' \in [Attempts -> {"waiting", "claim", "fresh", "claimed", "release", "done"}]
        /\ \A b \in Attempts : TickMoves(b)
    BY DEF SyncInv, SyncTypes, TickMoves, ListCandidate, LeaseLapses, ReleaseClaim,
           GiveUp, Goes, AfterExecution
  <1>6. SyncTypes' /\ WriterInv' /\ \A t \in Threads : ThreadMoves(t)
    BY <1>0, <1>4, <1>5 DEF SyncInv, SyncTypes, WriterInv, ThreadMoves
  <1> QED BY <1>0, <1>3, <1>5, <1>6, QuietStep

\* A step in which one thread does something, nothing is committed and no claim
\* is made.
LEMMA ThreadStep ==
    ASSUME SyncInv, NEW t \in Threads, NEW w \in Activity,
           thread' = [thread EXCEPT ![t] = w],
           UNCHANGED <<batches, executed, metered>>,
           claim' \in [Attempts -> ClaimRow],
           tick' \in [Attempts -> {"waiting", "claim", "fresh", "claimed", "release", "done"}],
           \A a \in Attempts : ClaimKept(a) /\ TickMoves(a),
           Fine(w), SeedInv(t)',
           w.pc = "claiming" =>
             /\ w.base.index \in 1 .. Last(batches).index
             /\ w.stale # 0 => Claimed(w.stale)
             /\ tick[w.attempt] = "claim" /\ tick'[w.attempt] = "claim",
           w.new # {} => \A u \in Threads : u # t => thread[u].new = {}
    PROVE  SyncInv'
  <1>1. thread \in [Threads -> Activity]
    BY DEF SyncInv, SyncTypes
  <1>2. thread'[t] = w /\ \A u \in Threads : u # t => thread'[u] = thread[u]
    BY <1>1
  <1>3. SyncTypes'
    BY <1>1 DEF SyncInv, SyncTypes
  <1>4. WriterInv'
    BY <1>2 DEF SyncInv, WriterInv
  <1>5. \A u \in Threads : ThreadMoves(u)
    BY <1>2 DEF ThreadMoves
  <1> QED BY <1>3, <1>4, <1>5, QuietStep

\* The claims, when none of them changes but in its lapse.
LEMMA RenewalKeeps ==
    ASSUME SyncInv, NEW b \in Attempts,
           claim' = claim \/ claim' = [claim EXCEPT ![b].lapsed = FALSE]
    PROVE  /\ claim' \in [Attempts -> ClaimRow]
           /\ \A a \in Attempts : ClaimKept(a)
  <1>1. claim \in [Attempts -> ClaimRow] /\ claim[b] \in ClaimRow
    BY DEF SyncInv, SyncTypes
  <1>2. ASSUME NEW a \in Attempts
        PROVE  claim'[a] \in ClaimRow /\ ClaimKept(a)
    <2>1. claim[a] \in ClaimRow /\ (~Claimed(a) => claim[a] = NoClaim)
      BY <1>1 DEF SyncInv, ClaimInv
    <2>2. CASE claim'[a] = claim[a]
      BY <2>1, <2>2 DEF ClaimKept, Claimed
    <2>3. CASE claim'[a] # claim[a]
      <3>1. a = b /\ claim'[a] = [claim[a] EXCEPT !.lapsed = FALSE]
        BY <1>1, <2>3
      <3>2. /\ claim'[a] \in ClaimRow /\ claim'[a].on = claim[a].on
            /\ claim'[a].status = claim[a].status
        BY <2>1, <3>1 DEF ClaimRow
      <3>3. Claimed(a)
        <4> SUFFICES ASSUME claim[a] = NoClaim PROVE FALSE
          BY <2>1
        <4>1. [NoClaim EXCEPT !.lapsed = FALSE] = NoClaim
          <5>1. ASSUME NEW f, f = FALSE
                PROVE  [[status |-> "none", on |-> 0, lapsed |-> f] EXCEPT !.lapsed = f]
                          = [status |-> "none", on |-> 0, lapsed |-> f]
            BY <5>1
          <5> QED BY <5>1 DEF NoClaim
        <4> QED BY <2>3, <3>1, <4>1
      <3> QED BY <3>2, <3>3 DEF ClaimKept, Claimed
    <2> QED BY <2>2, <2>3
  <1>3. claim' = [a \in Attempts |-> claim'[a]]
    BY <1>1
  <1> QED BY <1>2, <1>3

\* A thread that comes to rest.
LEMMA RestStep ==
    ASSUME SyncInv, NEW t \in Threads, thread' = [thread EXCEPT ![t] = Unused],
           UNCHANGED <<batches, executed, metered>>,
           claim' \in [Attempts -> ClaimRow],
           tick' \in [Attempts -> {"waiting", "claim", "fresh", "claimed", "release", "done"}],
           \A a \in Attempts : ClaimKept(a) /\ TickMoves(a)
    PROVE  SyncInv'
  <1>1. Fine(Unused) /\ Unused \in Activity /\ Unused.pc = "idle" /\ Unused.new = {}
    BY ActivityTypes DEF Fine
  <1>2. SeedInv(t)'
    <2>1. thread'[t] = Unused
      BY DEF SyncInv, SyncTypes
    <2> QED BY <1>1, <2>1 DEF SeedInv
  <1> QED BY <1>1, <1>2, ThreadStep

LEMMA ClaimBegins ==
    ASSUME SyncInv, NEW a \in Attempts, NEW t \in Threads, BeginClaim(t, a)
    PROVE  SyncInv'
  <1>0. /\ tick[a] = "claim" /\ UNCHANGED <<batches, executed, metered, claim>>
        /\ claim \in [Attempts -> ClaimRow] /\ \A b \in Attempts : ClaimKept(b)
        /\ tick \in [Attempts -> {"waiting", "claim", "fresh", "claimed", "release", "done"}]
    BY RenewalKeeps DEF BeginClaim, SyncInv, SyncTypes
  <1>1. PICK k : k = LatestBatch.index
    OBVIOUS
  <1>2. k = Last(batches).index /\ k \in Nat /\ (batches = {} <=> k = 0)
    BY <1>1, LastCommitted
  <1>3. ASSUME NEW stage, Goes(a, stage), UNCHANGED thread, stage # "claim",
               stage \in {"fresh", "claimed", "done"},
               stage = "fresh" => ~Claimed(a) /\ NoClaimer(a),
               stage = "claimed" => Claimed(a)
        PROVE  SyncInv'
    <2>1. /\ tick' \in [Attempts -> {"waiting", "claim", "fresh", "claimed", "release", "done"}]
          /\ \A b \in Attempts : TickMoves(b)
      BY <1>0, <1>3 DEF Goes, TickMoves, NoClaimer
    <2>2. SyncTypes' /\ WriterInv' /\ \A u \in Threads : ThreadMoves(u)
      BY <1>0, <1>3, <2>1 DEF SyncInv, SyncTypes, WriterInv, ThreadMoves
    <2> QED BY <1>0, <2>1, <2>2, QuietStep
  <1>4. CASE batches = {}
    <2>1. Goes(a, "fresh") /\ UNCHANGED thread
      BY <1>4 DEF BeginClaim
    <2>2. ~Claimed(a) /\ NoClaimer(a)
      BY <1>2, <1>4 DEF SyncInv, ClaimInv, NoClaimer
    <2> QED BY <1>3, <2>1, <2>2
  <1>5. CASE batches # {} /\ claim[a].on = k
    <2>1. Goes(a, "claimed") /\ UNCHANGED thread
      BY <1>1, <1>5 DEF BeginClaim
    <2>2. Claimed(a)
      BY <1>2, <1>5, ActivityTypes DEF SyncInv, ClaimInv
    <2> QED BY <1>3, <2>1, <2>2
  <1>6. CASE batches # {} /\ claim[a].on # k /\ \E b \in ActiveOn(k) : ~claim[b].lapsed
    <2>1. Goes(a, "done") /\ UNCHANGED thread
      BY <1>1, <1>6 DEF BeginClaim
    <2> QED BY <1>3, <2>1
  <1>7. CASE batches # {} /\ claim[a].on # k /\ ~(\E b \in ActiveOn(k) : ~claim[b].lapsed)
    <2>1. PICK stale \in IF ActiveOn(k) = {} THEN {NoAttempt} ELSE ActiveOn(k) :
              /\ Runs(t, [Unused EXCEPT !.pc = "claiming", !.attempt = a,
                                        !.base = LatestBatch, !.stale = stale])
              /\ UNCHANGED tick
      BY <1>1, <1>7 DEF BeginClaim
    <2>2. stale \in Attempts \cup {0} /\ (stale # 0 => Claimed(stale))
      BY <2>1 DEF NoAttempt, ActiveOn, Claimed
    <2>3. PICK w : w = [Unused EXCEPT !.pc = "claiming", !.attempt = a,
                                      !.base = LatestBatch, !.stale = stale]
      OBVIOUS
    <2>4. /\ w \in Activity /\ w.pc = "claiming" /\ w.attempt = a /\ w.new = {}
          /\ w.base = LatestBatch /\ w.stale = stale
      BY <2>2, <2>3, ActivityTypes, LastCommitted DEF Activity
    <2>5. Fine(w)
      BY <2>4 DEF Fine
    <2>6. thread' = [thread EXCEPT ![t] = w]
      BY <2>1, <2>3 DEF Runs
    <2>7. SeedInv(t)'
      BY <2>4, <2>6 DEF SeedInv, SyncInv, SyncTypes
    <2>8. \A b \in Attempts : TickMoves(b)
      BY <2>1 DEF TickMoves
    <2>9. w.base.index \in 1 .. Last(batches).index
      <3>1. k # 0
        BY <1>2, <1>7
      <3>2. k \in 1 .. k
        BY <1>2, <3>1
      <3> QED BY <1>1, <1>2, <2>4, <3>2
    <2> QED BY <1>0, <2>1, <2>2, <2>4, <2>5, <2>6, <2>7, <2>8, <2>9, ThreadStep
  <1> QED BY <1>4, <1>5, <1>6, <1>7

LEMMA ExecutionBegins ==
    ASSUME SyncInv, NEW a \in Attempts, NEW t \in Threads, BeginExecution(t, a)
    PROVE  SyncInv'
  <1>0. /\ tick[a] \in {"fresh", "claimed"}
        /\ UNCHANGED <<batches, executed, metered>>
        /\ tick \in [Attempts -> {"waiting", "claim", "fresh", "claimed", "release", "done"}]
    BY DEF BeginExecution, SyncInv, SyncTypes
  <1>1. PICK renew \in MayRenew(a) :
          IF Replays(a) \/ ~Executable(a)
          THEN /\ Blocked(t, a)
               /\ claim' = IF renew THEN [claim EXCEPT ![a].lapsed = FALSE] ELSE claim
          ELSE \E outcome \in {"none", "failed", "blocked"}, limit \in RowLimits :
                 /\ Runs(t, [Unused EXCEPT
                        !.pc = IF outcome = "none" THEN "planned" ELSE "persist",
                        !.attempt = a, !.seed = ResumeSeed, !.limit = limit,
                        !.renewed = renew, !.outcome = outcome])
                 /\ UNCHANGED <<claim, tick>>
    BY DEF BeginExecution
  <1>2. CASE Replays(a) \/ ~Executable(a)
    <2>1. /\ thread' = [thread EXCEPT ![t] = Unused]
          /\ tick' = [tick EXCEPT ![a] = AfterExecution(a)]
      BY <1>1, <1>2 DEF Blocked, Answers, Runs
    <2>2. claim' = claim \/ claim' = [claim EXCEPT ![a].lapsed = FALSE]
      BY <1>1, <1>2
    <2>3. /\ tick' \in [Attempts -> {"waiting", "claim", "fresh", "claimed", "release", "done"}]
          /\ \A b \in Attempts : TickMoves(b)
      BY <1>0, <2>1 DEF TickMoves, AfterExecution
    <2>4. claim' \in [Attempts -> ClaimRow] /\ \A b \in Attempts : ClaimKept(b)
      BY <2>2, RenewalKeeps
    <2> QED BY <1>0, <2>1, <2>3, <2>4, RestStep
  <1>3. CASE ~(Replays(a) \/ ~Executable(a))
    <2>1. PICK outcome \in {"none", "failed", "blocked"}, limit \in RowLimits :
              /\ Runs(t, [Unused EXCEPT
                        !.pc = IF outcome = "none" THEN "planned" ELSE "persist",
                        !.attempt = a, !.seed = ResumeSeed, !.limit = limit,
                        !.renewed = renew, !.outcome = outcome])
              /\ UNCHANGED <<claim, tick>>
      BY <1>1, <1>3
    <2>2. renew \in BOOLEAN
      BY <1>1 DEF MayRenew
    <2>3. PICK w : w = [Unused EXCEPT
                        !.pc = IF outcome = "none" THEN "planned" ELSE "persist",
                        !.attempt = a, !.seed = ResumeSeed, !.limit = limit,
                        !.renewed = renew, !.outcome = outcome]
      OBVIOUS
    <2>4. ResumeSeed = Last(batches).total /\ ResumeSeed \in Nat
      BY LastCommitted DEF ResumeSeed
    <2>5. /\ w \in Activity /\ w.pc \in {"planned", "persist"} /\ w.attempt = a
          /\ w.new = {} /\ w.at = NoBatch /\ w.seed = ResumeSeed
      <3>1. limit \in Nat
        BY <2>1, LiveSyncAssumption
      <3>2. w \in Activity
        BY <2>1, <2>2, <2>3, <2>4, <3>1, ActivityTypes DEF Activity
      <3> QED BY <2>3, <3>2, ActivityTypes DEF Unused
    <2>6. Fine(w)
      BY <2>4, <2>5, ActivityTypes DEF Fine
    <2>7. thread' = [thread EXCEPT ![t] = w] /\ thread'[t] = w
      BY <2>1, <2>3 DEF Runs, SyncInv, SyncTypes
    <2>8. SeedInv(t)'
      <3>1. ~Claimed(a) => NoClaimer(a) /\ tick[a] \notin {"waiting", "claim"}
        BY <1>0 DEF SyncInv, TickInv
      <3>2. (Claimed(a)' <=> Claimed(a)) /\ UNCHANGED tick
        BY <2>1 DEF Claimed
      <3>3. NoClaimer(a) => NoClaimer(a)'
        BY <2>5, <2>7 DEF NoClaimer, SyncInv, SyncTypes
      <3>4. Planned(w)'
        BY <1>0, <2>4, <2>5, <3>1, <3>2, <3>3 DEF Planned
      <3> QED BY <2>7, <3>4 DEF SeedInv
    <2>9. /\ claim' \in [Attempts -> ClaimRow]
          /\ \A b \in Attempts : ClaimKept(b) /\ TickMoves(b)
      BY <2>1, RenewalKeeps DEF TickMoves
    <2> QED BY <1>0, <2>1, <2>5, <2>6, <2>7, <2>8, <2>9, ThreadStep
  <1> QED BY <1>2, <1>3

LEMMA ExecutionResumes ==
    ASSUME SyncInv, NEW t \in Threads, Resume(t)
    PROVE  SyncInv'
  <1>1. PICK v : v = thread[t]
    OBVIOUS
  <1>2. /\ v \in Activity /\ v.pc = "planned" /\ v.attempt \in Attempts /\ Planned(v)
        /\ UNCHANGED <<batches, executed, metered>>
        /\ tick \in [Attempts -> {"waiting", "claim", "fresh", "claimed", "release", "done"}]
    BY <1>1 DEF Resume, SyncInv, SyncTypes, ThreadInv, Fine, SeedInv
  <1>3. CASE batches # {} /\ ~HoldsClaim(t)
    <2>1. claim' = Renewed(t) /\ Blocked(t, v.attempt)
      BY <1>1, <1>3 DEF Resume
    <2>2. claim' = claim \/ claim' = [claim EXCEPT ![v.attempt].lapsed = FALSE]
      BY <1>1, <2>1 DEF Renewed
    <2>3. /\ thread' = [thread EXCEPT ![t] = Unused]
          /\ tick' = [tick EXCEPT ![v.attempt] = AfterExecution(v.attempt)]
      BY <2>1 DEF Blocked, Answers, Runs
    <2>4. /\ tick' \in [Attempts -> {"waiting", "claim", "fresh", "claimed", "release", "done"}]
          /\ \A b \in Attempts : TickMoves(b)
      BY <1>2, <2>3 DEF TickMoves, AfterExecution
    <2>5. claim' \in [Attempts -> ClaimRow] /\ \A b \in Attempts : ClaimKept(b)
      BY <1>2, <2>2, RenewalKeeps
    <2> QED BY <1>2, <2>3, <2>4, <2>5, RestStep
  <1>4. CASE batches = {} \/ HoldsClaim(t)
    <2>1. PICK n : n = Cardinality(batches) + Cardinality(executed)
      OBVIOUS
    <2>2. n \in Nat /\ n = Sequences(batches)
      <3>1. IsFiniteSet(Attempts)
        BY AttemptsAreFinite
      <3>2. IsFiniteSet(executed) /\ IsFiniteSet(batches)
        BY <3>1, FS_Subset DEF SyncInv, SyncTypes, BatchInv, Chain
      <3> QED BY <2>1, <3>2, FS_CardinalityType DEF Sequences
    <2>3. PICK b : b = LatestBatch
      OBVIOUS
    <2>4. /\ b \in BatchRow /\ b = Last(batches)
          /\ batches # {} => b \in batches
          /\ batches = {} => b = NoBatch
      BY <2>3, LastCommitted
    <2>5. PICK c : c = [b EXCEPT !.seq = n]
      OBVIOUS
    <2>6. /\ c \in BatchRow /\ c.index = b.index /\ c.to = b.to /\ c.total = b.total
          /\ c.seq = n
      BY <2>2, <2>4, <2>5 DEF BatchRow
    <2>7. PICK w : w = [v EXCEPT !.pc = "looping", !.base = b, !.at = c]
      OBVIOUS
    <2>8. thread' = [thread EXCEPT ![t] = w] /\ UNCHANGED <<claim, tick>>
      BY <1>1, <1>4, <2>1, <2>3, <2>5, <2>7 DEF Resume, Runs
    <2>9. /\ w \in Activity /\ w.pc = "looping" /\ w.base = b /\ w.at = c
          /\ w.attempt = v.attempt /\ w.new = v.new /\ w.seed = v.seed
      BY <1>2, <2>4, <2>6, <2>7 DEF Activity
    <2>10. b.seq <= n
      <3>1. CASE batches = {}
        BY <2>2, <2>4, <3>1, ActivityTypes
      <3>2. CASE batches # {}
        BY <2>2, <2>4, <3>2 DEF SyncInv, BatchInv
      <3> QED BY <3>1, <3>2
    <2>11. v.seed = b.total
      <3>1. CASE batches = {}
        BY <1>2, <2>4, <3>1 DEF Planned, Outrun
      <3>2. CASE batches # {}
        <4>1. claim[v.attempt].status = "claimed" /\ claim[v.attempt].on = b.index
          BY <1>1, <1>4, <2>3, <3>2 DEF HoldsClaim
        <4>2. b.index \in Nat
          BY <2>4 DEF BatchRow
        <4>3. ~Outrun(v.attempt)
          BY <2>4, <4>1, <4>2 DEF Outrun, Claimed
        <4> QED BY <1>2, <2>4, <4>3 DEF Planned
      <3> QED BY <3>1, <3>2
    <2>12. Based(w)
      <3>1. n <= Sequences(batches)
        BY <2>2
      <3> QED BY <2>4, <2>6, <2>9, <2>10, <2>11, <3>1 DEF Based
    <2>13. Fine(w) /\ w.new = {}
      BY <1>2, <2>9, <2>12 DEF Fine, Planned
    <2>14. SeedInv(t)'
      BY <2>8, <2>9 DEF SeedInv, SyncInv, SyncTypes
    <2>15. /\ claim' \in [Attempts -> ClaimRow]
           /\ \A a \in Attempts : ClaimKept(a) /\ TickMoves(a)
      BY <1>2, <2>8, RenewalKeeps DEF TickMoves
    <2> QED BY <1>2, <2>8, <2>9, <2>13, <2>14, <2>15, ThreadStep
  <1> QED BY <1>3, <1>4

\* Another batch: the first one finds the chain as it was, or its index taken.
LEMMA BatchIsRead ==
    ASSUME SyncInv, NEW t \in Threads, ReadBatch(t)
    PROVE  SyncInv'
  <1>0. PICK v : v = thread[t]
    OBVIOUS
  <1>1. /\ v \in Activity /\ v.pc = "looping" /\ v.attempt \in Attempts /\ Based(v)
        /\ v.new # {} => Ahead(v)
        /\ v.at.to < v.limit
        /\ UNCHANGED <<batches, executed, metered, claim, tick>>
        /\ tick \in [Attempts -> {"waiting", "claim", "fresh", "claimed", "release", "done"}]
        /\ Chain(batches)
    BY <1>0 DEF ReadBatch, SyncInv, SyncTypes, ThreadInv, Fine, BatchInv
  <1>2. /\ claim' \in [Attempts -> ClaimRow]
        /\ tick' \in [Attempts -> {"waiting", "claim", "fresh", "claimed", "release", "done"}]
        /\ \A a \in Attempts : ClaimKept(a) /\ TickMoves(a)
    BY <1>1, RenewalKeeps DEF TickMoves
  <1>3. /\ v.at \in BatchRow /\ v.at.index \in Nat /\ v.at.to \in 0 .. SourceRows
        /\ v.at.total \in Nat /\ v.at.seq \in Nat /\ v.limit \in Nat
        /\ v.base \in BatchRow /\ v.base.seq \in Nat /\ v.base.index \in Nat
        /\ v.new \in SUBSET BatchRow
    BY <1>1 DEF Activity, BatchRow
  <1>4. PICK size : size = Min({BatchRows, v.limit - v.at.to})
    OBVIOUS
  <1>5. size \in Nat
    <2>1. PICK m : m = v.limit - v.at.to
      OBVIOUS
    <2>2. m \in Nat /\ BatchRows \in Nat /\ m \in Int /\ BatchRows \in Int
      BY <1>1, <1>3, <2>1, LiveSyncAssumption
    <2>3. Min({BatchRows, m}) \in {BatchRows, m}
      BY <2>2, MinOfTwo
    <2> QED BY <1>4, <2>1, <2>2, <2>3
  <1>6. PICK to : to = Min({v.at.to + size, SourceRows})
    OBVIOUS
  <1>7. to \in 0 .. SourceRows /\ v.at.to <= to
    <2>1. PICK m : m = v.at.to + size
      OBVIOUS
    <2>2. m \in Nat /\ SourceRows \in Nat /\ m \in Int /\ SourceRows \in Int
      BY <1>3, <1>5, <2>1, LiveSyncAssumption
    <2>3. Min({m, SourceRows}) \in {m, SourceRows} /\ Min({m, SourceRows}) <= SourceRows
      BY <2>2, MinOfTwo
    <2> QED BY <1>3, <1>5, <1>6, <2>1, <2>2, <2>3
  <1>8. PICK b : b = [index |-> v.at.index + 1, to |-> to,
                      total |-> v.at.total + Accepted(v.at.to, to), seq |-> v.at.seq + 1]
    OBVIOUS
  <1>9. CASE BatchTaken(b.index)
    <2>1. thread' = [thread EXCEPT ![t] = Unused]
      BY <1>0, <1>4, <1>6, <1>8, <1>9 DEF ReadBatch, Runs
    <2> QED BY <1>1, <1>2, <2>1, RestStep
  <1>10. CASE ~BatchTaken(b.index)
    <2>1. /\ \A u \in Threads \ {t} : \A c \in thread[u].new : c.index # b.index
          /\ \E exhausted \in IF to - v.at.to < size THEN {TRUE}
                              ELSE {FALSE, to = SourceRows} :
               Runs(t, [v EXCEPT !.at = b, !.new = @ \cup {b},
                  !.pc = IF exhausted THEN "persist" ELSE "looping",
                  !.outcome = IF exhausted THEN "completed" ELSE "none"])
      BY <1>0, <1>4, <1>6, <1>8, <1>10 DEF ReadBatch
    <2>2. PICK pc \in {"persist", "looping"}, outcome \in {"completed", "none"} :
               thread' = [thread EXCEPT ![t] =
                  [v EXCEPT !.at = b, !.new = @ \cup {b}, !.pc = pc, !.outcome = outcome]]
      BY <2>1 DEF Runs
    <2>3. PICK w : w = [v EXCEPT !.at = b, !.new = @ \cup {b}, !.pc = pc, !.outcome = outcome]
      OBVIOUS
    <2>4. PICK B : B = batches \cup v.new
      OBVIOUS
    <2>5. /\ Chain(B) /\ v.at.index = Cardinality(B) /\ v.at.to = Last(B).to
          /\ Last(B).seq <= v.at.seq /\ v.at.total = Accepted(0, v.at.to)
          /\ v.base = Last(batches)
          /\ v.at.seq <= Sequences(B)
      <3>1. CASE v.new # {}
        <4>1. /\ Chain(B) /\ v.at = Last(B) /\ v.base = Last(batches)
              /\ \A c \in v.new : c.seq <= Sequences(B)
          BY <1>1, <2>4, <3>1 DEF Ahead
        <4>2. /\ Last(B).index = Cardinality(B) /\ Last(B).total = Accepted(0, Last(B).to)
              /\ Last(B) \in B /\ Cardinality(B) \in Nat
          BY <2>4, <3>1, <4>1, LastOfChain
        <4>3. v.at \in v.new
          <5> SUFFICES ASSUME v.at \in batches PROVE FALSE
            BY <2>4, <4>1, <4>2
          <5>1. v.at.index <= Cardinality(batches)
            BY <1>1, <1>3, LastOfChain
          <5>2. IsFiniteSet(B) /\ batches \in SUBSET B
            BY <2>4, <4>1 DEF Chain
          <5>3. Cardinality(batches) <= Cardinality(B) /\ batches # B
            BY <1>1, <2>4, <3>1, <5>2, FS_Subset DEF Ahead
          <5>4. Cardinality(B) # Cardinality(batches)
            BY <5>2, <5>3, FS_Subset
          <5>5. Cardinality(batches) \in Nat
            BY <1>1, LastOfChain
          <5> QED BY <4>1, <4>2, <5>1, <5>3, <5>4, <5>5
        <4> QED BY <1>3, <4>1, <4>2, <4>3
      <3>2. CASE v.new = {}
        <4>0. B = batches
          BY <2>4, <3>2
        <4>1. /\ v.base = NoBatch \/ v.base \in batches
              /\ v.at.index = v.base.index /\ v.at.to = v.base.to
              /\ v.at.total = v.base.total /\ v.base.seq <= v.at.seq
              /\ v.at.seq <= Sequences(batches)
          BY <1>1, <3>2 DEF Based
        <4>2. /\ Last(batches).index = Cardinality(batches)
              /\ Last(batches).total = Accepted(0, Last(batches).to)
              /\ Cardinality(batches) \in Nat
              /\ batches # {} => Last(batches) \in batches
              /\ batches = {} => Last(batches) = NoBatch
              /\ \A c \in batches : c.index \in 1 .. Cardinality(batches)
          BY <1>1, LastOfChain
        <4>3. b.index = v.base.index + 1
          BY <1>8, <4>1
        <4>4. ~(b.index \in 1 .. Cardinality(batches))
          BY <1>1, <1>10 DEF BatchTaken, Chain
        <4>5. v.base.index <= Cardinality(batches)
          BY <1>3, <4>1, <4>2, ActivityTypes
        <4>6. v.base.index = Cardinality(batches)
          BY <1>3, <4>2, <4>3, <4>4, <4>5
        <4>7. v.base = Last(batches)
          <5>1. CASE batches = {}
            BY <4>1, <4>2, <5>1
          <5>2. CASE batches # {}
            <6>1. Cardinality(batches) # 0
              BY <1>1, <5>2, FS_EmptySet DEF Chain
            <6>2. v.base \in batches
              BY <4>1, <4>6, <6>1, ActivityTypes
            <6> QED BY <1>1, <4>2, <4>6, <5>2, <6>2 DEF Chain
          <5> QED BY <5>1, <5>2
        <4> QED BY <1>1, <4>0, <4>1, <4>2, <4>6, <4>7
      <3> QED BY <3>1, <3>2
    <2>6. /\ Accepted(v.at.to, to) \in Nat
          /\ v.at.total + Accepted(v.at.to, to) = Accepted(0, to)
      <3>1. v.at.to \in Nat /\ to \in Nat
        BY <1>3, <1>7
      <3> QED BY <1>7, <2>5, <3>1, AcceptedAdds
    <2>7. /\ b \in BatchRow /\ b.index = Cardinality(B) + 1 /\ b.to = to
          /\ b.total = Accepted(0, b.to) /\ b.seq = v.at.seq + 1
      BY <1>3, <1>7, <1>8, <2>5, <2>6 DEF BatchRow
    <2>8. Last(B).seq < b.seq /\ Last(B).to <= b.to
      <3>1. Last(B).seq \in Nat
        BY <2>5, LastOfChain DEF BatchRow
      <3> QED BY <1>3, <1>7, <2>5, <2>7, <3>1
    <2>9. /\ b \notin B /\ Chain(B \cup {b}) /\ Last(B \cup {b}) = b
          /\ Cardinality(B \cup {b}) = Cardinality(B) + 1
      BY <2>5, <2>7, <2>8, ChainGrows
    <2>10. /\ w \in Activity /\ w.at = b /\ w.new = v.new \cup {b} /\ w.pc = pc
           /\ w.base = v.base /\ w.seed = v.seed /\ w.attempt = v.attempt
      BY <1>1, <1>3, <2>2, <2>3, <2>7 DEF Activity
    <2>11. batches \cup w.new = B \cup {b}
      BY <2>4, <2>10
    <2>12. Sequences(B \cup {b}) = Sequences(B) + 1 /\ Sequences(B) \in Nat
      <3>1. IsFiniteSet(Attempts)
        BY AttemptsAreFinite
      <3>2. Cardinality(executed) \in Nat
        BY <3>1, FS_Subset, FS_CardinalityType DEF SyncInv, SyncTypes
      <3>3. Cardinality(B) \in Nat
        BY <2>5, LastOfChain
      <3> QED BY <2>9, <3>2, <3>3 DEF Sequences
    <2>13. Ahead(w)
      <3>1. w.new \cap batches = {}
        BY <1>1, <2>4, <2>9, <2>10 DEF Ahead
      <3>2. \A c \in v.new : c.seq \in Nat /\ c.seq <= Sequences(B)
        BY <1>1, <1>3, <2>4 DEF Ahead, BatchRow
      <3>3. \A c \in w.new : c.seq <= Sequences(B \cup {b})
        BY <1>3, <2>5, <2>7, <2>10, <2>12, <3>2
      <3>4. w.seed = w.base.total
        BY <1>1, <2>10 DEF Based
      <3> QED BY <2>5, <2>9, <2>10, <2>11, <3>1, <3>3, <3>4 DEF Ahead
    <2>14. Fine(w) /\ w.new # {}
      <3>1. w.new # {}
        BY <2>10
      <3>2. w.base.seq <= w.at.seq
        BY <1>1, <1>3, <2>7, <2>10 DEF Based
      <3>3. Based(w)
        BY <1>1, <2>10, <3>1, <3>2 DEF Based
      <3> QED BY <1>1, <2>2, <2>10, <2>13, <3>1, <3>3 DEF Fine
    <2>15. ASSUME NEW u \in Threads, u # t, thread[u].new # {}
           PROVE  FALSE
      <3>1. PICK x : x = thread[u]
        OBVIOUS
      <3>2. Ahead(x) /\ x.new # {}
        BY <2>15, <3>1 DEF SyncInv, ThreadInv, Fine
      <3>3. v.new = {}
        BY <1>0, <2>15, <3>1, <3>2 DEF SyncInv, WriterInv
      <3>4. B = batches
        BY <2>4, <3>3
      <3>5. PICK C : C = batches \cup x.new
        OBVIOUS
      <3>6. Chain(C) /\ IsFiniteSet(C) /\ batches \in SUBSET C /\ C # batches
        BY <3>2, <3>5 DEF Ahead, Chain
      <3>7. Cardinality(batches) <= Cardinality(C) /\ Cardinality(batches) # Cardinality(C)
        BY <3>6, FS_Subset
      <3>8. Cardinality(batches) \in Nat /\ Cardinality(C) \in Nat
        BY <1>1, <3>6, LastOfChain
      <3>9. b.index \in 1 .. Cardinality(C)
        BY <2>7, <3>4, <3>7, <3>8
      <3>10. PICK c \in C : c.index = b.index
        BY <3>6, <3>9 DEF Chain
      <3>11. c \in x.new
        <4> SUFFICES ASSUME c \in batches PROVE FALSE
          BY <3>5
        <4> QED BY <1>10, <3>10 DEF BatchTaken
      <3> QED BY <2>1, <2>15, <3>1, <3>10, <3>11
    <2>16. thread' = [thread EXCEPT ![t] = w]
      BY <2>2, <2>3
    <2>17. SeedInv(t)'
      BY <2>2, <2>10, <2>16 DEF SeedInv, SyncInv, SyncTypes
    <2> QED BY <1>1, <1>2, <2>2, <2>10, <2>14, <2>15, <2>16, <2>17, ThreadStep
  <1> QED BY <1>9, <1>10

\* The loop ends, or the thread does.
LEMMA LoopEnds ==
    ASSUME SyncInv, NEW t \in Threads, EndLoop(t) \/ ThreadDies(t)
    PROVE  SyncInv'
  <1>1. /\ UNCHANGED <<batches, executed, metered, claim, tick>>
        /\ tick' \in [Attempts -> {"waiting", "claim", "fresh", "claimed", "release", "done"}]
    BY DEF EndLoop, ThreadDies, SyncInv, SyncTypes
  <1>2. /\ claim' \in [Attempts -> ClaimRow]
        /\ \A a \in Attempts : ClaimKept(a) /\ TickMoves(a)
    <2>1. \A a \in Attempts : TickMoves(a)
      BY <1>1 DEF TickMoves
    <2>2. \A a \in Attempts : ClaimKept(a)
      BY <1>1 DEF ClaimKept, Claimed, SyncInv, ClaimInv
    <2> QED BY <1>1, <2>1, <2>2 DEF SyncInv, SyncTypes
  <1>3. CASE ThreadDies(t)
    BY <1>1, <1>2, <1>3, RestStep DEF ThreadDies, Runs
  <1>4. CASE EndLoop(t)
    <2>1. PICK v : v = thread[t]
      OBVIOUS
    <2>2. v \in Activity /\ v.pc = "looping" /\ v.attempt \in Attempts /\ Fine(v) /\ Based(v)
      BY <1>4, <2>1 DEF EndLoop, SyncInv, SyncTypes, ThreadInv, Fine
    <2>3. PICK outcome \in {"completed", "failed"} :
              thread' = [thread EXCEPT ![t] = [v EXCEPT !.pc = "persist", !.outcome = outcome]]
      BY <1>4, <2>1 DEF EndLoop, Runs
    <2>4. PICK w : w = [v EXCEPT !.pc = "persist", !.outcome = outcome]
      OBVIOUS
    <2>5. /\ w \in Activity /\ w.pc = "persist" /\ w.at = v.at /\ w.new = v.new
          /\ w.base = v.base /\ w.seed = v.seed /\ w.attempt = v.attempt
      BY <2>2, <2>3, <2>4 DEF Activity
    <2>6. Fine(w)
      <3>1. w.new = {} => w.at.total = w.seed /\ w.seed \in Nat
        BY <2>2, <2>5 DEF Based, Activity
      <3>2. w.new # {} => Ahead(w)
        BY <2>2, <2>5 DEF Fine, Ahead
      <3> QED BY <2>2, <2>5, <3>1, <3>2 DEF Fine
    <2>7. SeedInv(t)'
      BY <2>3, <2>4, <2>5 DEF SeedInv, SyncInv, SyncTypes
    <2>8. w.new # {} => \A u \in Threads : u # t => thread[u].new = {}
      BY <2>1, <2>5 DEF SyncInv, WriterInv
    <2> QED BY <1>1, <1>2, <2>3, <2>4, <2>5, <2>6, <2>7, <2>8, ThreadStep
  <1> QED BY <1>3, <1>4

\* A claim is committed: of an attempt that is in no execution yet.
LEMMA ClaimCommits ==
    ASSUME SyncInv, NEW t \in Threads, CommitClaim(t)
    PROVE  SyncInv'
  <1>0. PICK v : v = thread[t]
    OBVIOUS
  <1>1. PICK a : a = v.attempt
    OBVIOUS
  <1>2. PICK stale : stale = v.stale
    OBVIOUS
  <1>3. PICK k : k = v.base.index
    OBVIOUS
  <1>4. /\ v \in Activity /\ v.pc = "claiming" /\ a \in Attempts
        /\ k \in 1 .. Last(batches).index
        /\ stale # 0 => Claimed(stale)
        /\ UNCHANGED <<batches, executed, metered>>
        /\ thread' = [thread EXCEPT ![t] = Unused]
        /\ tick \in [Attempts -> {"waiting", "claim", "fresh", "claimed", "release", "done"}]
        /\ claim \in [Attempts -> ClaimRow]
    BY <1>0, <1>1, <1>2, <1>3
       DEF CommitClaim, SyncInv, SyncTypes, ThreadInv, Fine, ClaimInv, Runs
  <1>5. CASE ~(ActiveOn(k) \ {stale} = {} /\ claim[a] = NoClaim)
    <2>1. UNCHANGED <<claim, tick>>
      BY <1>0, <1>1, <1>2, <1>3, <1>5 DEF CommitClaim
    <2>2. \A b \in Attempts : ClaimKept(b) /\ TickMoves(b)
      <3>1. \A b \in Attempts : TickMoves(b)
        BY <2>1 DEF TickMoves
      <3>2. \A b \in Attempts : ClaimKept(b)
        BY <2>1 DEF ClaimKept, Claimed, SyncInv, ClaimInv
      <3> QED BY <3>1, <3>2
    <2> QED BY <1>4, <2>1, <2>2, RestStep
  <1>6. CASE ActiveOn(k) \ {stale} = {} /\ claim[a] = NoClaim
    <2>1. /\ claim' = [b \in Attempts |->
                IF b = a THEN [status |-> "claimed", on |-> k, lapsed |-> FALSE]
                ELSE IF b = stale THEN [claim[b] EXCEPT !.status = "expired"]
                ELSE claim[b]]
          /\ tick' = IF tick[a] = "claim" THEN [tick EXCEPT ![a] = "claimed"] ELSE tick
      BY <1>0, <1>1, <1>2, <1>3, <1>6 DEF CommitClaim, Answers
    <2>2. k \in Nat
      BY <1>3, <1>4 DEF Activity, BatchRow
    <2>3. /\ claim'[a] \in ClaimRow /\ claim'[a].on = k /\ Claimed(a)' /\ ~Claimed(a)
      BY <1>4, <1>6, <2>1, <2>2, ActivityTypes DEF ClaimRow, Claimed
    <2>4. ASSUME NEW b \in Attempts, b # a
          PROVE  /\ claim'[b] \in ClaimRow /\ claim'[b].on = claim[b].on
                 /\ Claimed(b)' <=> Claimed(b)
                 /\ ~Claimed(b) => claim'[b] = claim[b]
      <3>1. claim[b] \in ClaimRow
        BY <1>4
      <3>2. CASE b = stale
        <4>1. claim'[b] = [claim[b] EXCEPT !.status = "expired"]
          BY <2>1, <2>4, <3>2
        <4>2. Claimed(b)
          BY <1>4, <3>2 DEF Attempts
        <4> QED BY <3>1, <4>1, <4>2 DEF ClaimRow, Claimed
      <3>3. CASE b # stale
        <4>1. claim'[b] = claim[b]
          BY <2>1, <2>4, <3>3
        <4> QED BY <3>1, <4>1 DEF Claimed
      <3> QED BY <3>2, <3>3
    <2>5. SyncTypes'
      <3>1. claim' \in [Attempts -> ClaimRow]
        <4>1. claim' = [b \in Attempts |-> claim'[b]]
          BY <2>1
        <4> QED BY <2>3, <2>4, <4>1
      <3>2. tick' \in [Attempts -> {"waiting", "claim", "fresh", "claimed", "release", "done"}]
        BY <1>4, <2>1
      <3> QED BY <1>4, <3>1, <3>2, ActivityTypes DEF SyncInv, SyncTypes
    <2>6. /\ thread'[t] = Unused
          /\ \A u \in Threads : u # t => thread'[u] = thread[u]
      BY <1>4 DEF SyncInv, SyncTypes
    <2>7. \A b : NoClaimer(b) => NoClaimer(b)' /\ b # a
      BY <1>0, <1>1, <1>4, <2>6, ActivityTypes DEF NoClaimer
    <2>8. BatchInv' /\ MeterInv' /\ WriterInv'
      BY <1>4, <2>6, ActivityTypes DEF SyncInv, BatchInv, MeterInv, WriterInv, Sequences
    <2>9. ClaimInv'
      <3>1. ASSUME NEW b \in Attempts
            PROVE  IF Claimed(b)' THEN claim'[b].on \in 1 .. Last(batches).index
                   ELSE claim'[b] = NoClaim
        BY <1>4, <2>3, <2>4 DEF SyncInv, ClaimInv
      <3>2. ASSUME NEW u \in Threads, thread'[u].pc = "claiming"
            PROVE  /\ thread'[u].base.index \in 1 .. Last(batches).index
                   /\ thread'[u].stale # 0 => Claimed(thread[u].stale)'
        <4>1. thread'[u] = thread[u]
          BY <2>6, <3>2, ActivityTypes
        <4>2. PICK c : c = thread[u].stale
          OBVIOUS
        <4>3. c # 0 => Claimed(c) /\ c \in Attempts
          BY <3>2, <4>1, <4>2 DEF SyncInv, ClaimInv, SyncTypes, Activity
        <4>4. c # 0 => Claimed(c)'
          BY <2>3, <2>4, <4>3
        <4> QED BY <3>2, <4>1, <4>2, <4>4 DEF SyncInv, ClaimInv
      <3> QED BY <1>4, <3>1, <3>2 DEF ClaimInv
    <2>10. TickInv'
      <3>1. ASSUME NEW b \in Attempts, tick'[b] = "fresh"
            PROVE  ~Claimed(b)' /\ NoClaimer(b)'
        <4>1. tick[b] = "fresh"
          BY <1>4, <2>1, <3>1
        <4>2. ~Claimed(b) /\ NoClaimer(b)
          BY <4>1 DEF SyncInv, TickInv
        <4> QED BY <2>4, <2>7, <4>2
      <3>2. ASSUME NEW b \in Attempts, tick'[b] = "claimed"
            PROVE  Claimed(b)'
        BY <1>4, <2>1, <2>3, <2>4, <3>2 DEF SyncInv, TickInv
      <3> QED BY <3>1, <3>2 DEF TickInv
    <2>11. ThreadInv'
      <3> SUFFICES ASSUME NEW u \in Threads
                   PROVE  Fine(thread[u])' /\ SeedInv(u)'
        BY DEF ThreadInv
      <3>1. CASE u = t
        BY <2>6, <3>1, ActivityTypes DEF Fine, SeedInv
      <3>2. CASE u # t
        <4>1. PICK w : w = thread[u]
          OBVIOUS
        <4>2. thread'[u] = w /\ Fine(w) /\ SeedInv(u)
          BY <2>6, <3>2, <4>1 DEF SyncInv, ThreadInv
        <4>3. Fine(w)'
          BY <1>4, <4>2 DEF Fine, Based, Ahead, Sequences
        <4>4. ASSUME w.pc = "planned"
              PROVE  Planned(w)'
          <5>1. PICK c : c = w.attempt
            OBVIOUS
          <5>2. Planned(w) /\ c \in Attempts
            BY <4>1, <4>2, <4>4, <5>1 DEF SeedInv, Fine
          <5>3. c # a \/ Claimed(c)
            BY <2>7, <5>1, <5>2 DEF Planned
          <5>4. c # a
            BY <2>3, <5>3
          <5>5. ~Claimed(c)' => NoClaimer(c)' /\ tick'[c] \notin {"waiting", "claim"}
            BY <1>4, <2>1, <2>4, <2>7, <5>1, <5>2, <5>4 DEF Planned
          <5>6. Outrun(c) => Outrun(c)'
            BY <1>4, <2>4, <5>2, <5>4 DEF Outrun
          <5> QED BY <1>4, <5>1, <5>2, <5>5, <5>6 DEF Planned
        <4> QED BY <4>2, <4>3, <4>4 DEF SeedInv
      <3> QED BY <3>1, <3>2
    <2> QED BY <2>5, <2>8, <2>9, <2>10, <2>11 DEF SyncInv
  <1> QED BY <1>5, <1>6

\* What an execution commits with its outcome: the batches it has read follow
\* those that stand, and it alone has any.
LEMMA CommittedBatches ==
    ASSUME SyncInv, NEW t \in Threads, thread[t].pc = "persist",
           thread[t].attempt \notin executed,
           executed' = executed \cup {thread[t].attempt},
           batches' = batches \cup thread[t].new
    PROVE  /\ BatchInv' /\ Last(batches)' \in BatchRow
           /\ Last(batches).index <= Last(batches)'.index
           /\ \A C : IsFiniteSet(C) => Sequences(C) <= Sequences(C)' /\ Sequences(C) \in Nat
                                      /\ Sequences(C)' \in Nat
           /\ Sequences(batches) <= Sequences(batches)' /\ Sequences(batches) \in Nat
           /\ Sequences(batches)' \in Nat
           /\ thread[t].new = {} => batches' = batches
           /\ thread[t].new # {} =>
                 /\ batches' # {} /\ Last(batches).index < Last(batches)'.index
                 /\ Last(batches)' = thread[t].at /\ thread[t].seed = Last(batches).total
                 /\ \A u \in Threads \ {t} : thread[u].new = {}
  <1>0. PICK v : v = thread[t]
    OBVIOUS
  <1>1. PICK B : B = batches \cup v.new
    OBVIOUS
  <1>2. /\ v \in Activity /\ v.attempt \in Attempts \ executed /\ Fine(v)
        /\ batches' = B /\ executed' = executed \cup {v.attempt}
        /\ Chain(batches)
    BY <1>0, <1>1 DEF SyncInv, SyncTypes, ThreadInv, Fine, BatchInv
  <1>3. /\ Cardinality(executed) \in Nat
        /\ Cardinality(executed') = Cardinality(executed) + 1
    <2>1. IsFiniteSet(Attempts)
      BY AttemptsAreFinite
    <2>2. IsFiniteSet(executed)
      BY <2>1, FS_Subset DEF SyncInv, SyncTypes
    <2> QED BY <1>2, <2>2, FS_AddElement, FS_CardinalityType
  <1>4. ASSUME NEW C, IsFiniteSet(C)
        PROVE  /\ Sequences(C) <= Sequences(C)' /\ Sequences(C) \in Nat
               /\ Sequences(C)' \in Nat /\ Sequences(C)' = Cardinality(C) + Cardinality(executed')
    <2>1. Cardinality(C) \in Nat
      BY <1>4, FS_CardinalityType
    <2> QED BY <1>3, <2>1 DEF Sequences
  <1>5. v.new # {} => Ahead(v)
    BY <1>2 DEF Fine
  <1>6. Chain(B)
    BY <1>1, <1>2, <1>5 DEF Ahead
  <1>7. IsFiniteSet(B) /\ IsFiniteSet(batches) /\ batches \in SUBSET B
        /\ B \in SUBSET BatchRow
    BY <1>1, <1>2, <1>6 DEF Chain
  <1>8. /\ Cardinality(batches) \in Nat /\ Cardinality(B) \in Nat
        /\ Cardinality(batches) <= Cardinality(B)
        /\ Cardinality(batches) = Cardinality(B) => batches = B
    BY <1>7, FS_CardinalityType, FS_Subset
  <1>9. /\ Last(batches).index = Cardinality(batches) /\ Last(B) \in BatchRow
        /\ Last(B).index = Cardinality(B)
    BY <1>2, <1>6, LastOfChain
  <1>10. ASSUME NEW c \in B
         PROVE  c.seq <= Cardinality(B) + Cardinality(executed')
    <2>0. c.seq \in Nat
      BY <1>7 DEF BatchRow
    <2>1. CASE c \in batches
      <3>1. c.seq <= Cardinality(batches) + Cardinality(executed)
        BY <2>1 DEF SyncInv, BatchInv, Sequences
      <3> QED BY <1>3, <1>8, <2>0, <3>1
    <2>2. CASE c \in v.new
      <3>1. c.seq <= Cardinality(B) + Cardinality(executed)
        BY <1>1, <1>5, <2>2 DEF Ahead, Sequences
      <3> QED BY <1>3, <1>8, <2>0, <3>1
    <2> QED BY <1>1, <2>1, <2>2
  <1>11. BatchInv'
    BY <1>2, <1>6, <1>10 DEF BatchInv, Sequences, Chain, Follows
  <1>12. Last(batches)' = Last(B)
    <2>1. batches' = B
      BY <1>2
    <2> QED BY <2>1
  <1>13. /\ Sequences(batches) <= Sequences(batches)' /\ Sequences(batches) \in Nat
         /\ Sequences(batches)' \in Nat
    <2>1. Sequences(batches)' = Cardinality(B) + Cardinality(executed')
      BY <1>2 DEF Sequences
    <2> QED BY <1>3, <1>8, <2>1 DEF Sequences
  <1>14. ASSUME v.new # {}
         PROVE  /\ B # {} /\ Last(batches).index < Last(B).index
                /\ Last(B) = v.at /\ v.seed = Last(batches).total
                /\ \A u \in Threads \ {t} : thread[u].new = {}
    <2>1. Ahead(v) /\ v.new \cap batches = {}
      BY <1>5, <1>14 DEF Ahead
    <2>2. B # batches
      BY <1>1, <1>14, <2>1
    <2>3. Last(batches).index < Last(B).index
      BY <1>8, <1>9, <2>2
    <2>4. Last(B) = v.at /\ v.seed = Last(batches).total
      BY <1>1, <2>1 DEF Ahead
    <2> QED BY <1>0, <1>1, <1>14, <2>3, <2>4 DEF SyncInv, WriterInv
  <1>15. v.new = {} => B = batches
    BY <1>1
  <1>16. Last(batches).index <= Last(B).index
    BY <1>8, <1>9
  <1> QED BY <1>0, <1>2, <1>4, <1>9, <1>11, <1>12, <1>13, <1>14, <1>15, <1>16

\* What an activity knows of the batches survives the commit of another one.
LEMMA FineSurvives ==
    ASSUME SyncInv, NEW w \in Activity, Fine(w),
           batches \subseteq batches',
           Sequences(batches) <= Sequences(batches)', Sequences(batches) \in Nat,
           Sequences(batches)' \in Nat,
           \A C : IsFiniteSet(C) => /\ Sequences(C) <= Sequences(C)' /\ Sequences(C) \in Nat
                                    /\ Sequences(C)' \in Nat,
           batches' = batches \/ w.new = {}
    PROVE  Fine(w)'
  <1>0. w.at \in BatchRow /\ w.at.seq \in Nat /\ w.new \in SUBSET BatchRow
    BY DEF Activity, BatchRow
  <1>1. w.pc = "looping" => Based(w)'
    <2> SUFFICES ASSUME w.pc = "looping" PROVE Based(w)'
      OBVIOUS
    <2>1. Based(w)
      BY DEF Fine
    <2>2. w.at.seq <= Sequences(batches) => w.at.seq <= Sequences(batches)'
      BY <1>0
    <2> QED BY <2>1, <2>2 DEF Based
  <1>2. w.new # {} => Ahead(w)'
    <2> SUFFICES ASSUME w.new # {} PROVE Ahead(w)'
      OBVIOUS
    <2>1. batches' = batches /\ Ahead(w)
      BY DEF Fine
    <2>2. PICK C : C = batches \cup w.new
      OBVIOUS
    <2>3. Chain(C) /\ IsFiniteSet(C) /\ w.at = Last(C) /\ \A c \in w.new : c.seq <= Sequences(C)
      BY <2>1, <2>2 DEF Ahead, Chain
    <2>4. /\ Sequences(C) <= Sequences(C)' /\ Sequences(C) \in Nat
          /\ Sequences(C)' \in Nat
      BY <2>3
    <2>5. \A c \in w.new : c.seq <= Sequences(C)'
      BY <1>0, <2>3, <2>4 DEF BatchRow
    <2>6. batches' \cup w.new = C
      BY <2>1, <2>2
    <2>7. w.base = Last(batches') /\ w.seed = w.base.total /\ w.new \cap batches' = {}
      BY <2>1 DEF Ahead
    <2> QED BY <2>3, <2>5, <2>6, <2>7 DEF Ahead, Sequences
  <1> QED BY <1>1, <1>2 DEF Fine

\* What is metered, once an execution that has not been is: its own accepted
\* rows are added, which are those of the batches it commits.
LEMMA MeteredOnce ==
    ASSUME SyncInv, NEW a \in Attempts \ executed, NEW m \in Nat,
           metered' = [metered EXCEPT ![a] = m]
    PROVE  SumOf(metered, Attempts)' = Last(batches).total + m
  <1>1. IsFiniteSet(Attempts) /\ a \in Attempts
    BY AttemptsAreFinite
  <1>2. metered \in [Attempts -> Nat] /\ metered[a] = 0
        /\ SumOf(metered, Attempts) = Last(batches).total
    BY DEF SyncInv, SyncTypes, MeterInv
  <1>3. PICK f : f = metered
    OBVIOUS
  <1>4. PICK g : g = metered'
    OBVIOUS
  <1>5. /\ \A x \in Attempts : f[x] \in Nat /\ g[x] \in Nat
        /\ \A x \in Attempts \ {a} : f[x] = g[x]
        /\ f[a] = 0 /\ g[a] = m
    BY <1>1, <1>2, <1>3, <1>4
  <1>6. IsFiniteSet(Attempts \ {a})
    BY <1>1, FS_RemoveElement
  <1>7. SumOf(f, Attempts \ {a}) = SumOf(g, Attempts \ {a})
    BY <1>5, <1>6, SumOfEquals
  <1>8. SumOf(f, Attempts) = f[a] + SumOf(f, Attempts \ {a})
    BY <1>1, <1>5, SumTakesOut
  <1>9. SumOf(g, Attempts) = g[a] + SumOf(g, Attempts \ {a})
    BY <1>1, <1>5, SumTakesOut
  <1>10. SumOf(f, Attempts \ {a}) \in Nat
    BY <1>5, <1>6, SumType
  <1>11. SumOf(g, Attempts) = SumOf(f, Attempts) + m
    BY <1>5, <1>7, <1>8, <1>9, <1>10
  <1>12. SumOf(f, Attempts) = Last(batches).total
    BY <1>2, <1>3
  <1>13. SumOf(metered', Attempts) = Last(batches).total + m
    BY <1>4, <1>11, <1>12
  <1> QED BY <1>13

\* The total of the batches read is no less than the one they go on from.
LEMMA TotalGrows ==
    ASSUME SyncInv, NEW w, w.new # {}, Ahead(w)
    PROVE  w.seed <= w.at.total
  <1>1. PICK B : B = batches \cup w.new
    OBVIOUS
  <1>2. /\ Chain(B) /\ w.at = Last(B) /\ w.seed = Last(batches).total
        /\ Chain(batches)
    BY <1>1 DEF Ahead, SyncInv, BatchInv
  <1>3. /\ Last(batches) \in BatchRow /\ Last(B) \in BatchRow
        /\ Last(batches).total = Accepted(0, Last(batches).to)
        /\ Last(B).total = Accepted(0, Last(B).to)
        /\ batches # {} => Last(batches) \in batches
        /\ batches = {} => Last(batches) = NoBatch
        /\ \A b \in B : b.to <= Last(B).to
    BY <1>2, LastOfChain
  <1>4. PICK x : x = Last(batches).to
    OBVIOUS
  <1>5. PICK y : y = Last(B).to
    OBVIOUS
  <1>6. x \in Nat /\ y \in Nat /\ x <= y
    <2>1. x \in Nat /\ y \in Nat
      BY <1>3, <1>4, <1>5 DEF BatchRow
    <2>2. CASE batches = {}
      BY <1>3, <1>4, <2>1, <2>2, ActivityTypes
    <2>3. CASE batches # {}
      BY <1>1, <1>3, <1>4, <1>5, <2>1, <2>3
    <2> QED BY <2>1, <2>2, <2>3
  <1>7. /\ Accepted(0, x) \in Nat /\ Accepted(x, y) \in Nat
        /\ Accepted(0, y) = Accepted(0, x) + Accepted(x, y)
    BY <1>6, AcceptedAdds
  <1> QED BY <1>2, <1>3, <1>4, <1>5, <1>7

\* An execution commits its outcome, or fails for its id is taken.
LEMMA OutcomePersists ==
    ASSUME SyncInv, NEW t \in Threads, PersistOutcome(t)
    PROVE  SyncInv'
  <1>0. PICK v : v = thread[t]
    OBVIOUS
  <1>1. PICK a : a = v.attempt
    OBVIOUS
  <1>2. /\ v \in Activity /\ v.pc = "persist" /\ a \in Attempts /\ Fine(v)
        /\ thread' = [thread EXCEPT ![t] = Unused]
        /\ tick \in [Attempts -> {"waiting", "claim", "fresh", "claimed", "release", "done"}]
    BY <1>0, <1>1 DEF PersistOutcome, SyncInv, SyncTypes, ThreadInv, Fine, Runs
  <1>3. CASE a \in executed
    <2>1. UNCHANGED <<batches, executed, metered, claim, tick>>
      BY <1>0, <1>1, <1>3 DEF PersistOutcome
    <2>2. claim' \in [Attempts -> ClaimRow] /\ \A b \in Attempts : ClaimKept(b)
      BY <1>2, <2>1, RenewalKeeps
    <2>3. \A b \in Attempts : TickMoves(b)
      BY <2>1 DEF TickMoves
    <2> QED BY <1>2, <2>1, <2>2, <2>3, RestStep
  <1>4. CASE a \notin executed
    <2>1. /\ batches' = batches \cup v.new /\ executed' = executed \cup {a}
          /\ metered' = IF v.at.total > v.seed
                        THEN [metered EXCEPT ![a] = v.at.total - v.seed] ELSE metered
          /\ claim' = Renewed(t)
          /\ IF tick[a] \in {"fresh", "claimed"}
             THEN tick' = [tick EXCEPT ![a] = AfterExecution(a)] ELSE UNCHANGED tick
      BY <1>0, <1>1, <1>4 DEF PersistOutcome, Goes
    <2>2. claim' \in [Attempts -> ClaimRow] /\ \A b \in Attempts : ClaimKept(b)
      BY <1>0, <1>1, <1>2, <2>1, RenewalKeeps DEF Renewed
    <2>3. /\ tick' \in [Attempts -> {"waiting", "claim", "fresh", "claimed", "release", "done"}]
          /\ \A b \in Attempts : tick'[b] = tick[b] \/ tick'[b] \in {"release", "done"}
      BY <1>2, <2>1 DEF AfterExecution
    <2>4. /\ thread'[t] = Unused
          /\ \A u \in Threads : u # t => thread'[u] = thread[u]
          /\ thread' \in [Threads -> Activity]
      BY <1>2, ActivityTypes DEF SyncInv, SyncTypes
    <2>5. /\ BatchInv' /\ Last(batches)' \in BatchRow
          /\ Last(batches).index <= Last(batches)'.index
          /\ \A C : IsFiniteSet(C) => /\ Sequences(C) <= Sequences(C)' /\ Sequences(C) \in Nat
                                      /\ Sequences(C)' \in Nat
          /\ Sequences(batches) <= Sequences(batches)' /\ Sequences(batches) \in Nat
          /\ Sequences(batches)' \in Nat
          /\ v.new = {} => batches' = batches
          /\ v.new # {} =>
                /\ batches' # {} /\ Last(batches).index < Last(batches)'.index
                /\ Last(batches)' = v.at /\ v.seed = Last(batches).total
                /\ \A u \in Threads \ {t} : thread[u].new = {}
      BY <1>0, <1>1, <1>2, <1>4, <2>1, CommittedBatches
    <2>6. PICK k : k = Last(batches).index
      OBVIOUS
    <2>7. PICK l : l = Last(batches)'.index
      OBVIOUS
    <2>8. k \in Nat /\ l \in Nat /\ k <= l /\ (v.new # {} => k < l)
      BY <2>5, <2>6, <2>7, LastCommitted DEF BatchRow
    <2>9. v.seed \in Nat /\ v.at.total \in Nat
      BY <1>2 DEF Activity, BatchRow
    <2>10. SyncTypes'
      <3>1. batches' \in SUBSET BatchRow /\ executed' \in SUBSET Attempts
        BY <1>2, <2>1 DEF SyncInv, SyncTypes, Activity
      <3>2. metered' \in [Attempts -> Nat]
        <4>1. v.at.total > v.seed => v.at.total - v.seed \in Nat
          BY <2>9
        <4> QED BY <2>1, <4>1 DEF SyncInv, SyncTypes
      <3> QED BY <2>2, <2>3, <2>4, <3>1, <3>2 DEF SyncTypes
    <2>11. \A c : NoClaimer(c) => NoClaimer(c)'
      BY <2>4, ActivityTypes DEF NoClaimer
    <2>12. ClaimInv'
      <3>1. ASSUME NEW b \in Attempts
            PROVE  IF Claimed(b)' THEN claim'[b].on \in 1 .. l ELSE claim'[b] = NoClaim
        <4>1. IF Claimed(b) THEN claim[b].on \in 1 .. k ELSE claim[b] = NoClaim
          BY <2>6 DEF SyncInv, ClaimInv
        <4> QED BY <2>2, <2>8, <4>1 DEF ClaimKept
      <3>2. ASSUME NEW u \in Threads, thread'[u].pc = "claiming"
            PROVE  /\ thread'[u].base.index \in 1 .. l
                   /\ thread'[u].stale # 0 => Claimed(thread[u].stale)'
        <4>1. thread'[u] = thread[u]
          BY <2>4, <3>2, ActivityTypes
        <4>2. PICK c : c = thread[u].stale
          OBVIOUS
        <4>3. /\ c # 0 => Claimed(c) /\ c \in Attempts
              /\ thread[u].base.index \in 1 .. k
          BY <2>6, <3>2, <4>1, <4>2 DEF SyncInv, ClaimInv, SyncTypes, Activity
        <4>4. c # 0 => Claimed(c)'
          BY <2>2, <4>3 DEF ClaimKept
        <4> QED BY <2>8, <4>1, <4>2, <4>3, <4>4
      <3> QED BY <2>7, <3>1, <3>2 DEF ClaimInv
    <2>13. TickInv'
      BY <2>2, <2>3, <2>11 DEF SyncInv, TickInv, ClaimKept
    <2>14. WriterInv'
      BY <2>4, ActivityTypes DEF SyncInv, WriterInv
    <2>15. ThreadInv'
      <3> SUFFICES ASSUME NEW u \in Threads
                   PROVE  Fine(thread[u])' /\ SeedInv(u)'
        BY DEF ThreadInv
      <3>1. CASE u = t
        BY <2>4, <3>1, ActivityTypes DEF Fine, SeedInv
      <3>2. CASE u # t
        <4>1. PICK w : w = thread[u]
          OBVIOUS
        <4>2. thread'[u] = w /\ w \in Activity /\ Fine(w) /\ SeedInv(u)
          BY <2>4, <3>2, <4>1 DEF SyncInv, SyncTypes, ThreadInv
        <4>3. batches \subseteq batches' /\ (batches' = batches \/ w.new = {})
          BY <2>1, <2>5, <3>2, <4>1
        <4>4. Fine(w)'
          BY <2>5, <4>2, <4>3, FineSurvives
        <4>5. ASSUME w.pc = "planned"
              PROVE  Planned(w)'
          <5>1. PICK c : c = w.attempt
            OBVIOUS
          <5>2. Planned(w) /\ c \in Attempts
            BY <4>1, <4>2, <4>5, <5>1 DEF SeedInv, Fine
          <5>3. Claimed(c)' <=> Claimed(c)
            BY <2>2, <5>2 DEF ClaimKept
          <5>4. ~Claimed(c)' => NoClaimer(c)' /\ tick'[c] \notin {"waiting", "claim"}
            BY <2>3, <2>11, <5>1, <5>2, <5>3 DEF Planned
          <5>5. w.seed = Last(batches)'.total \/ Outrun(c)'
            <6>1. CASE v.new = {}
              <7>1. batches' = batches
                BY <2>5, <6>1
              <7>2. Outrun(c) => Outrun(c)'
                BY <2>2, <5>2, <7>1 DEF Outrun, ClaimKept
              <7> QED BY <5>1, <5>2, <7>1, <7>2 DEF Planned
            <6>2. CASE v.new # {}
              <7>1. batches' # {} /\ k < l
                BY <2>5, <2>8, <6>2
              <7>2. Claimed(c) => claim[c].on \in 1 .. k
                BY <2>6, <5>2 DEF SyncInv, ClaimInv
              <7>3. Claimed(c)' => claim'[c].on < l
                BY <2>2, <2>8, <5>2, <7>1, <7>2 DEF ClaimKept
              <7> QED BY <2>7, <7>1, <7>3 DEF Outrun
            <6> QED BY <6>1, <6>2
          <5>6. w.new = {}
            BY <5>2 DEF Planned
          <5> QED BY <5>1, <5>4, <5>5, <5>6 DEF Planned
        <4> QED BY <4>2, <4>4, <4>5 DEF SeedInv
      <3> QED BY <3>1, <3>2
    <2>16. MeterInv'
      <3>0. metered \in [Attempts -> Nat] /\ metered[a] = 0
        BY <1>2, <1>4 DEF SyncInv, SyncTypes, MeterInv
      <3>1. \A b \in Attempts \ executed' : metered'[b] = 0
        BY <1>2, <2>1, <3>0 DEF SyncInv, MeterInv
      <3>2. SumOf(metered, Attempts)' = Last(batches)'.total
        <4>1. CASE v.at.total > v.seed
          <5>1. v.new # {}
            BY <1>2, <2>9, <4>1 DEF Fine
          <5>2. PICK m : m = v.at.total - v.seed
            OBVIOUS
          <5>3. m \in Nat /\ v.seed + m = v.at.total
            BY <2>9, <4>1, <5>2
          <5>4. metered' = [metered EXCEPT ![a] = m]
            BY <2>1, <4>1, <5>2
          <5>5. SumOf(metered, Attempts)' = Last(batches).total + m
            BY <1>2, <1>4, <5>3, <5>4, MeteredOnce
          <5> QED BY <2>5, <5>1, <5>3, <5>5
        <4>2. CASE ~(v.at.total > v.seed)
          <5>1. metered' = metered
            BY <2>1, <4>2
          <5>2. SumOf(metered, Attempts)' = Last(batches).total
            BY <5>1 DEF SyncInv, MeterInv
          <5>3. CASE v.new = {}
            BY <2>5, <5>2, <5>3
          <5>4. CASE v.new # {}
            <6>1. Last(batches)'.total = v.at.total /\ v.seed = Last(batches).total
              BY <2>5, <5>4
            <6>2. v.at.total >= v.seed
              BY <1>2, <5>4, <6>1, TotalGrows DEF Fine
            <6> QED BY <2>9, <4>2, <5>2, <6>1, <6>2
          <5> QED BY <5>3, <5>4
        <4> QED BY <4>1, <4>2
      <3> QED BY <3>1, <3>2 DEF MeterInv
    <2> QED BY <2>5, <2>10, <2>12, <2>13, <2>14, <2>15, <2>16 DEF SyncInv
  <1> QED BY <1>3, <1>4

LEMMA SyncStarts ==
    ASSUME SyncInit
    PROVE  SyncInv
  <1>1. /\ batches = {} /\ executed = {} /\ metered = [a \in Attempts |-> 0]
        /\ claim = [a \in Attempts |-> NoClaim] /\ tick = [a \in Attempts |-> "waiting"]
        /\ thread = [t \in Threads |-> Unused]
    BY DEF SyncInit
  <1>2. SyncTypes
    BY <1>1, ActivityTypes DEF SyncTypes
  <1>3. ClaimInv
    BY <1>1, ActivityTypes DEF ClaimInv, Claimed
  <1>4. TickInv
    BY <1>1 DEF TickInv
  <1>5. ThreadInv /\ WriterInv
    BY <1>1, ActivityTypes DEF ThreadInv, WriterInv, Fine, SeedInv
  <1>6. BatchInv
    <2>1. IsFiniteSet({}) /\ Cardinality({}) = 0
      BY FS_EmptySet
    <2>2. {b.index : b \in {}} = 1 .. 0
      OBVIOUS
    <2>3. Chain({})
      BY <2>1, <2>2 DEF Chain
    <2> QED BY <1>1, <2>3 DEF BatchInv
  <1>7. MeterInv
    <2>1. PICK f : f = metered
      OBVIOUS
    <2>2. IsFiniteSet(Attempts) /\ \A a \in Attempts : f[a] = 0 /\ f[a] \in Nat
      BY <1>1, <2>1, FS_Interval, LiveSyncAssumption DEF Attempts
    <2>3. SumOf(f, Attempts) = 0
      BY <2>2, SumOfZeros
    <2>4. Last(batches).total = 0
      BY <1>1, ActivityTypes DEF Last
    <2> QED BY <1>1, <2>1, <2>2, <2>3, <2>4 DEF MeterInv
  <1> QED BY <1>2, <1>3, <1>4, <1>5, <1>6, <1>7 DEF SyncInv

LEMMA SyncInvariant == SyncSpec => []SyncInv
  <1>1. SyncInit => SyncInv
    BY SyncStarts
  <1>2. SyncInv /\ [SyncNext]_syncVars => SyncInv'
    <2> SUFFICES ASSUME SyncInv, [SyncNext]_syncVars
                 PROVE  SyncInv'
      OBVIOUS
    <2>1. CASE BeginDispatch \/ CommitDispatch \/ UNCHANGED syncVars
      <3>1. UNCHANGED <<batches, executed, metered, claim, tick, thread>>
        BY <2>1 DEF BeginDispatch, CommitDispatch, syncVars
      <3>2. SyncTypes' /\ WriterInv' /\ \A t \in Threads : ThreadMoves(t)
        BY <3>1 DEF SyncInv, SyncTypes, WriterInv, ThreadMoves
      <3>3. \A a \in Attempts : TickMoves(a)
        BY <3>1 DEF TickMoves
      <3>4. \A a \in Attempts : ClaimKept(a)
        BY <3>1 DEF ClaimKept, Claimed, SyncInv, ClaimInv
      <3> QED BY <3>1, <3>2, <3>3, <3>4, QuietStep
    <2>2. ASSUME NEW a \in Attempts,
                 ListCandidate(a) \/ LeaseLapses(a) \/ ReleaseClaim(a) \/ GiveUp(a)
          PROVE  SyncInv'
      BY <2>2, WorkflowSteps
    <2>3. ASSUME NEW a \in Attempts, NEW t \in Threads, BeginClaim(t, a)
          PROVE  SyncInv'
      BY <2>3, ClaimBegins
    <2>4. ASSUME NEW a \in Attempts, NEW t \in Threads, BeginExecution(t, a)
          PROVE  SyncInv'
      BY <2>4, ExecutionBegins
    <2>5. ASSUME NEW t \in Threads, CommitClaim(t)
          PROVE  SyncInv'
      BY <2>5, ClaimCommits
    <2>6. ASSUME NEW t \in Threads, Resume(t)
          PROVE  SyncInv'
      BY <2>6, ExecutionResumes
    <2>7. ASSUME NEW t \in Threads, ReadBatch(t)
          PROVE  SyncInv'
      BY <2>7, BatchIsRead
    <2>8. ASSUME NEW t \in Threads, EndLoop(t) \/ ThreadDies(t)
          PROVE  SyncInv'
      BY <2>8, LoopEnds
    <2>9. ASSUME NEW t \in Threads, PersistOutcome(t)
          PROVE  SyncInv'
      BY <2>9, OutcomePersists
    <2> QED BY <2>1, <2>2, <2>3, <2>4, <2>5, <2>6, <2>7, <2>8, <2>9 DEF SyncNext
  <1> QED BY <1>1, <1>2, PTL DEF SyncSpec

\* Whatever the number of attempts and threads, the source, its rejected rows
\* and the sizes of the plan: the committed batches cover the source without
\* gap or overlap, the last of them by sequence is the furthest, and the usage
\* events of the executions meter each accepted row of them once
\* (execute_demo_connector_sync, claim_connector_sync_checkpoint).
THEOREM RowsMeteredOnce == SyncSpec => []RowsAreMeteredOnce
  <1>1. SyncInv => RowsAreMeteredOnce
    <2> SUFFICES ASSUME SyncInv PROVE RowsAreMeteredOnce
      OBVIOUS
    <2>1. Chain(batches)
      BY DEF SyncInv, BatchInv
    <2>2. /\ LatestBatch = Last(batches)
          /\ LatestBatch.total = Accepted(0, LatestBatch.to)
      BY LastCommitted
    <2>3. \A b \in batches : b.to <= LatestBatch.to
      BY <2>1, <2>2, LastOfChain
    <2>4. MapThenSumSet(LAMBDA a : metered[a], Attempts) = Accepted(0, LatestBatch.to)
      <3>1. SumOf(metered, Attempts) = Accepted(0, LatestBatch.to)
        BY <2>2 DEF SyncInv, MeterInv
      <3> QED BY <3>1 DEF SumOf
    <2> QED BY <2>1, <2>3, <2>4 DEF RowsAreMeteredOnce, Chain
  <1> QED BY <1>1, SyncInvariant, PTL
=============================================================================
