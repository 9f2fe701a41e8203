---------------------------- MODULE OidcSession ----------------------------
(***************************************************************************)
(* The browser sessions of one principal: rows of oidc_browser_sessions.   *)
(*                                                                         *)
(*   - A login inserts a session and revokes the oldest active ones beyond *)
(*     the concurrent-session cap, under the admission lock.               *)
(*   - A refresh claims the session (active -> refreshing), talks to the   *)
(*     identity provider outside any transaction, and rotates the session  *)
(*     into a new one if the claim is still there.                         *)
(*   - Logout, expiry, eviction, the sweeps and a failed refresh read a    *)
(*     row and then write status "revoked" by primary key: nothing keeps   *)
(*     the row from changing in between.  Revocation by reference locks    *)
(*     the row instead.                                                    *)
(*                                                                         *)
(* A transaction that reads and later writes is two steps; everything it   *)
(* writes appears in the second (PostgreSQL's READ COMMITTED).  The        *)
(* identity map of the ORM keeps the values of the first read, so a second *)
(* read of the row in the same transaction sees nothing new.               *)
(* Time is abstracted: a session may expire and a claim may become stale   *)
(* at any moment.  last_seen_at only moves the idle timeout and is         *)
(* abstracted with it.                                                     *)
(***************************************************************************)
EXTENDS Naturals, FiniteSets

CONSTANTS
    Requests,            \* concurrent API requests
    Jobs,                \* running maintenance jobs of the worker
    MaxConcurrent,       \* oidc_session_max_concurrent or the quota; 0: no cap
    StoresTokens,        \* is a refresh-token key configured?
    ConfigurationFaults, \* may the token exchange report a configuration error?
    MaxSessions          \* bound: sessions ever created

ASSUME SessionAssumption ==
    /\ Requests \cap Jobs = {}
    /\ MaxConcurrent \in Nat
    /\ StoresTokens \in BOOLEAN
    /\ ConfigurationFaults \in BOOLEAN
    /\ MaxSessions \in Nat

VARIABLES
    tenant,     \* lifecycle status of the tenant
    next,       \* the next session id
    status,     \* session -> status of its row
    token,      \* session -> is a refresh token stored?
    expired,    \* session -> expires_at, the absolute or the idle limit passed
    stale,      \* session -> the refresh claim is older than the staleness window
    child,      \* session -> rotated_to_session_id_hash, 0 for none
    root,       \* session -> the login it descends from (history)
    work        \* process -> what it read and has yet to write

rowVars == <<status, token, child, root, next>>
clockVars == <<expired, stale>>
vars == <<tenant, next, status, token, expired, stale, child, root, work>>

-----------------------------------------------------------------------------
(* Data *)

\* Ids are handed out in the order of created_at.
Sessions == 1 .. MaxSessions
Live == {"active", "refreshing"}
Statuses == Live \cup {"none", "rotated", "revoked"}

Processes == Requests \cup Jobs
Steps == {"idle", "authenticated", "admitting", "claiming", "exchanging",
          "releasing", "sweeping", "revoking"}
Work == [pc : Steps, session : 0 .. MaxSessions, doomed : SUBSET Sessions]

Idle == [pc |-> "idle", session |-> 0, doomed |-> {}]
At(pc, s) == [pc |-> pc, session |-> s, doomed |-> {}]
Revoking(S) == [pc |-> "revoking", session |-> 0, doomed |-> S]

TypeOK ==
    /\ tenant \in {"active", "suspended"}
    /\ next \in 1 .. MaxSessions + 1
    /\ status \in [Sessions -> Statuses]
    /\ token \in [Sessions -> BOOLEAN]
    /\ expired \in [Sessions -> BOOLEAN]
    /\ stale \in [Sessions -> BOOLEAN]
    /\ child \in [Sessions -> 0 .. MaxSessions]
    /\ root \in [Sessions -> 0 .. MaxSessions]
    /\ work \in [Processes -> Work]

Init ==
    /\ tenant = "active"
    /\ next = 1
    /\ status = [s \in Sessions |-> "none"]
    /\ token = [s \in Sessions |-> FALSE]
    /\ expired = [s \in Sessions |-> FALSE]
    /\ stale = [s \in Sessions |-> FALSE]
    /\ child = [s \in Sessions |-> 0]
    /\ root = [s \in Sessions |-> 0]
    /\ work = [p \in Processes |-> Idle]

Goto(p, w) == work' = [work EXCEPT ![p] = w]

-----------------------------------------------------------------------------
(* Login: the callback of the authorization-code flow *)

\* The provider authenticated the principal and the tenant was active, read
\* in a transaction of its own.
Authenticate(r) ==
    /\ work[r].pc = "idle"
    /\ tenant = "active"
    /\ Goto(r, At("authenticated", 0))
    /\ UNCHANGED <<tenant, rowVars, clockVars>>

\* Fault: admission is not serialised.
NeverAdmitting == FALSE

\* The advisory lock of the principal is taken.
Admitting == \E r \in Requests : work[r].pc = "admitting"

Active == {s \in Sessions : status[s] = "active"}

\* The oldest active sessions beyond the cap, the new one counted.
Excess ==
    {s \in Active :
        /\ MaxConcurrent > 0
        /\ Cardinality({t \in Active : t < s}) + MaxConcurrent
              < Cardinality(Active) + 1}

Admit(r) ==
    /\ work[r].pc = "authenticated"
    /\ ~Admitting
    /\ next <= MaxSessions
    /\ next' = next + 1
    /\ Goto(r, [pc |-> "admitting", session |-> next, doomed |-> Excess])
    /\ UNCHANGED <<tenant, status, token, child, root, clockVars>>

\* Fault: a status of its own that no other code knows.
RevokedAsExpired(S) == [s \in Sessions |-> IF s \in S THEN "expired" ELSE status[s]]

\* revoke_oidc_browser_session of every session of S.
Revoked(S) == [s \in Sessions |-> IF s \in S THEN "revoked" ELSE status[s]]

\* Fault: the refresh credential stays at rest.
TokenKept(S) == token

TokenDropped(S) == [s \in Sessions |-> token[s] /\ s \notin S]

CommitLogin(r) ==
    /\ work[r].pc = "admitting"
    /\ LET n == work[r].session
           S == work[r].doomed
       IN  /\ status' = [Revoked(S) EXCEPT ![n] = "active"]
           /\ token' = [TokenDropped(S) EXCEPT ![n] = StoresTokens]
           /\ root' = [root EXCEPT ![n] = n]
    /\ Goto(r, Idle)
    /\ UNCHANGED <<tenant, next, child, clockVars>>

-----------------------------------------------------------------------------
(* Refresh: POST /identity/session/refresh *)

\* _claim_session_refresh up to its reads: everything allows a refresh.
BeginRefresh(r, s) ==
    /\ work[r].pc = "idle"
    /\ tenant = "active"
    /\ status[s] = "active"
    /\ ~expired[s]
    /\ token[s]
    /\ Goto(r, At("claiming", s))
    /\ UNCHANGED <<tenant, rowVars, clockVars>>

\* Fault: the claim does not ask for the status.
ClaimsWithoutStatus(s) == TRUE

\* The WHERE clause of claim_oidc_browser_session_refresh.
MayClaim(s) == status[s] = "active"

ClaimRefresh(r) ==
    /\ work[r].pc = "claiming"
    /\ LET s == work[r].session
       IN  IF MayClaim(s)
           THEN /\ status' = [status EXCEPT ![s] = "refreshing"]
                /\ stale' = [stale EXCEPT ![s] = FALSE]
                /\ Goto(r, At("exchanging", s))
           ELSE /\ UNCHANGED <<status, stale>>
                /\ Goto(r, Idle)
    /\ UNCHANGED <<tenant, next, token, child, root, expired>>

\* A new row that continues the login of s.
Mint(s, old) ==
    /\ next <= MaxSessions
    /\ next' = next + 1
    /\ status' = [status EXCEPT ![s] = old, ![next] = "active"]
    /\ token' = [token EXCEPT ![s] = FALSE, ![next] = TRUE]
    /\ child' = [child EXCEPT ![s] = next]
    /\ root' = [root EXCEPT ![next] = root[s]]

\* Fault: the parent is not marked rotated.
FinalizeKeepsParent(r) ==
    /\ work[r].pc = "exchanging"
    /\ Mint(work[r].session, "active")
    /\ Goto(r, Idle)
    /\ UNCHANGED <<tenant, clockVars>>

\* Fault: the rotation does not ask for the claim.
FinalizeWithoutClaim(r) ==
    /\ work[r].pc = "exchanging"
    /\ Mint(work[r].session, "rotated")
    /\ Goto(r, Idle)
    /\ UNCHANGED <<tenant, clockVars>>

\* The exchange succeeded: rotate while the claim is live, else reject.
FinalizeRefresh(r) ==
    /\ work[r].pc = "exchanging"
    /\ IF status[work[r].session] = "refreshing"
       THEN Mint(work[r].session, "rotated")
       ELSE UNCHANGED rowVars
    /\ Goto(r, Idle)
    /\ UNCHANGED <<tenant, clockVars>>

\* The exchange failed: the session is read and will be revoked.
FailRefresh(r) ==
    /\ work[r].pc = "exchanging"
    /\ Goto(r, IF status[work[r].session] = "revoked" THEN Idle
               ELSE Revoking({work[r].session}))
    /\ UNCHANGED <<tenant, rowVars, clockVars>>

\* The exchange reported a configuration error: release_ reads the row ...
BeginRelease(r) ==
    /\ ConfigurationFaults
    /\ work[r].pc = "exchanging"
    /\ Goto(r, IF status[work[r].session] = "refreshing"
               THEN At("releasing", work[r].session) ELSE Idle)
    /\ UNCHANGED <<tenant, rowVars, clockVars>>

\* ... and writes it by primary key.
Release(r) ==
    /\ work[r].pc = "releasing"
    /\ status' = [status EXCEPT ![work[r].session] = "active"]
    /\ Goto(r, Idle)
    /\ UNCHANGED <<tenant, next, token, child, root, clockVars>>

-----------------------------------------------------------------------------
(* Revocation *)

\* browser_session_lifecycle_failure with a revocation reason.
LifecycleFailure(s) ==
    \/ status[s] = "active" /\ expired[s]
    \/ status[s] = "refreshing" /\ stale[s]

\* A request presents a cookie that has run out.
ReadExpired(r, s) ==
    /\ work[r].pc = "idle"
    /\ LifecycleFailure(s)
    /\ Goto(r, Revoking({s}))
    /\ UNCHANGED <<tenant, rowVars, clockVars>>

\* A refresh is refused because the tenant is not active.
ReadBlocked(r, s) ==
    /\ work[r].pc = "idle"
    /\ tenant # "active"
    /\ status[s] \in Live
    /\ Goto(r, Revoking({s}))
    /\ UNCHANGED <<tenant, rowVars, clockVars>>

\* A refresh is refused because the stored token cannot be decrypted.
ReadUnreadable(r, s) ==
    /\ work[r].pc = "idle"
    /\ tenant = "active"
    /\ status[s] = "active"
    /\ ~expired[s]
    /\ token[s]
    /\ Goto(r, Revoking({s}))
    /\ UNCHANGED <<tenant, rowVars, clockVars>>

\* Logout with the cookie of s, of a rotated session as well.
ReadLogout(r, s) ==
    /\ work[r].pc = "idle"
    /\ status[s] \notin {"none", "revoked"}
    /\ Goto(r, Revoking({s}))
    /\ UNCHANGED <<tenant, rowVars, clockVars>>

\* The write of all of these, of a reconciliation and of a failed refresh.
Revoke(p) ==
    /\ work[p].pc = "revoking"
    /\ status' = Revoked(work[p].doomed)
    /\ token' = TokenDropped(work[p].doomed)
    /\ Goto(p, Idle)
    /\ UNCHANGED <<tenant, next, child, root, clockVars>>

\* POST /identity/sessions/{session_ref}/revoke: the row is locked.
RevokeByReference(s) ==
    /\ status[s] \in Live
    /\ status' = Revoked({s})
    /\ token' = TokenDropped({s})
    /\ UNCHANGED <<tenant, next, child, root, clockVars, work>>

\* Fault: only expired sessions are swept.
SweepableExpired(s) == status[s] = "active" /\ expired[s]

\* The candidates of run_orphaned_session_sweep_job.
Sweepable(s) == LifecycleFailure(s)

ScanSessions(j) ==
    /\ work[j].pc = "idle"
    /\ \E s \in Sessions : Sweepable(s)
    /\ Goto(j, [pc |-> "sweeping", session |-> 0,
                doomed |-> {s \in Sessions : Sweepable(s)}])
    /\ UNCHANGED <<tenant, rowVars, clockVars>>

\* The candidates a sweep is left with after s.
Remaining(j, s) ==
    LET S == work[j].doomed \ {s}
    IN  IF S = {} THEN Idle
        ELSE [pc |-> "sweeping", session |-> 0, doomed |-> S]

\* A candidate is read again; only its status is looked at.
LoadSwept(j, s) ==
    /\ work[j].pc = "sweeping"
    /\ work[j].session = 0
    /\ s \in work[j].doomed
    /\ Goto(j, IF status[s] \in Live THEN [work[j] EXCEPT !.session = s]
               ELSE Remaining(j, s))
    /\ UNCHANGED <<tenant, rowVars, clockVars>>

RevokeSwept(j) ==
    /\ work[j].pc = "sweeping"
    /\ work[j].session # 0
    /\ status' = Revoked({work[j].session})
    /\ token' = TokenDropped({work[j].session})
    /\ Goto(j, Remaining(j, work[j].session))
    /\ UNCHANGED <<tenant, next, child, root, clockVars>>

\* A row that cannot be written is recorded and the sweep goes on.
FailSwept(j) ==
    /\ work[j].pc = "sweeping"
    /\ work[j].session # 0
    /\ Goto(j, Remaining(j, work[j].session))
    /\ UNCHANGED <<tenant, rowVars, clockVars>>

\* Fault: the reconciliation looks at no tenant.
NeverReconcile(j) == FALSE /\ UNCHANGED vars

\* _reconcile_one_tenant reads the active sessions of a blocked tenant.
Reconcile(j) ==
    /\ work[j].pc = "idle"
    /\ tenant # "active"
    /\ Active # {}
    /\ Goto(j, Revoking(Active))
    /\ UNCHANGED <<tenant, rowVars, clockVars>>

-----------------------------------------------------------------------------
(* Environment *)

SuspendTenant ==
    /\ tenant = "active"
    /\ tenant' = "suspended"
    /\ UNCHANGED <<rowVars, clockVars, work>>

ReactivateTenant ==
    /\ tenant = "suspended"
    /\ tenant' = "active"
    /\ UNCHANGED <<rowVars, clockVars, work>>

SessionExpires(s) ==
    /\ status[s] \in Live
    /\ ~expired[s]
    /\ expired' = [expired EXCEPT ![s] = TRUE]
    /\ UNCHANGED <<tenant, rowVars, stale, work>>

ClaimGoesStale(s) ==
    /\ status[s] = "refreshing"
    /\ ~stale[s]
    /\ stale' = [stale EXCEPT ![s] = TRUE]
    /\ UNCHANGED <<tenant, rowVars, expired, work>>

\* A process dies or its transaction fails: nothing of it is written.
Crash(p) ==
    /\ work[p].pc # "idle"
    /\ Goto(p, Idle)
    /\ UNCHANGED <<tenant, rowVars, clockVars>>

-----------------------------------------------------------------------------
LoginNext(r) == Authenticate(r) \/ Admit(r) \/ CommitLogin(r)

EndRefresh(r) ==
    \/ FinalizeRefresh(r) \/ FailRefresh(r) \/ BeginRelease(r) \/ Release(r)

RefreshNext(r) ==
    \/ \E s \in Sessions : BeginRefresh(r, s)
    \/ ClaimRefresh(r)
    \/ EndRefresh(r)

ReadNext(r, s) ==
    \/ ReadExpired(r, s) \/ ReadBlocked(r, s) \/ ReadUnreadable(r, s)
    \/ ReadLogout(r, s)

JobNext(j) ==
    \/ ScanSessions(j) \/ RevokeSwept(j) \/ FailSwept(j) \/ Reconcile(j)
    \/ \E s \in Sessions : LoadSwept(j, s)

Environment ==
    \/ SuspendTenant
    \/ ReactivateTenant
    \/ \E s \in Sessions : SessionExpires(s)
    \/ \E s \in Sessions : ClaimGoesStale(s)

Next ==
    \/ \E r \in Requests :
          LoginNext(r) \/ RefreshNext(r) \/ \E s \in Sessions : ReadNext(r, s)
    \/ \E j \in Jobs : JobNext(j)
    \/ \E p \in Processes : Revoke(p) \/ Crash(p)
    \/ \E s \in Sessions : RevokeByReference(s)
    \/ Environment

Spec == Init /\ [][Next]_vars

\* The schedules keep starting the jobs, a job ends, a request that got past
\* its reads ends, and time passes.  Jobs that fail are started again.
FairSpec ==
    /\ Spec
    /\ \A s \in Sessions : WF_vars(ClaimGoesStale(s))
    /\ \A j \in Jobs :
          /\ SF_vars(ScanSessions(j))
          /\ SF_vars(\E s \in Sessions : LoadSwept(j, s))
          /\ SF_vars(RevokeSwept(j))
          /\ SF_vars(Reconcile(j))
          /\ SF_vars(Revoke(j))
    /\ \A r \in Requests :
          WF_vars(CommitLogin(r) \/ ClaimRefresh(r) \/ EndRefresh(r)
                  \/ Revoke(r) \/ Crash(r))

-----------------------------------------------------------------------------
(* Properties *)

Created(s) == s \in Sessions /\ root[s] # 0
Holders(s) ==
    {r \in Requests :
        work[r].pc \in {"exchanging", "releasing"} /\ work[r].session = s}

\* A login never has two usable cookies: however refreshes, logouts, sweeps
\* and releases interleave, at most one session of each chain of rotations is
\* active or refreshing (claim_ and finalize_oidc_browser_session_refresh).
LineageIsLinear ==
    \A s, t \in Sessions :
        status[s] \in Live /\ status[t] \in Live /\ root[s] = root[t] => s = t

\* The identity provider is never given one refresh token by two requests at
\* a time: providers that rotate refresh tokens would take the second for a
\* replay (the conditional update of claim_oidc_browser_session_refresh).
ExchangesAreExclusive ==
    \A s \in Sessions : \A q, r \in Holders(s) : q = r

\* A session that can never refresh again keeps no refresh credential, by
\* whichever of the five paths it ended and in whatever order they wrote.
CredentialsAreDropped ==
    \A s \in Sessions : status[s] \in {"rotated", "revoked"} => ~token[s]

\* A revocation is final: no late claim, release or rotation takes a session
\* out of "revoked" or hangs a new session on it.
RevocationStands ==
    [][\A s \in Sessions :
          status[s] = "revoked" =>
              status'[s] = "revoked" /\ child'[s] = child[s]]_vars

LiveLogins == {root[s] : s \in {t \in Sessions : status[t] \in Live}}

\* A login whose sessions have all ended never has a usable one again: a
\* refresh in flight when the last of them was revoked mints no child.
EndedLoginsStayEnded ==
    [][\A s \in Sessions :
          Created(s) /\ root[s] \notin LiveLogins
              => root[s] \notin LiveLogins']_vars

\* Logins alone never exceed the cap: concurrent callbacks that each see room,
\* count, evict and insert under the admission lock leave at most
\* MaxConcurrent active sessions that came from a login.
LoginsRespectCap ==
    MaxConcurrent > 0 =>
        Cardinality({s \in Active : root[s] = s}) <= MaxConcurrent

\* The principal never has more active sessions than the cap allows, those a
\* refresh minted included.
CapIsExact == MaxConcurrent > 0 => Cardinality(Active) <= MaxConcurrent

\* A claim whose request died does not last: it is completed, or the sweep
\* revokes the session once the claim is stale.
ClaimsResolve ==
    \A s \in Sessions : status[s] = "refreshing" ~> status[s] # "refreshing"

\* A tenant that stays suspended ends without a usable session, though logins
\* and refreshes checked it before the suspension and write after it.
BlockedTenantIsCleared ==
    <>[](tenant = "suspended")
        => <>[](\A s \in Sessions : status[s] \notin Live)
=============================================================================
