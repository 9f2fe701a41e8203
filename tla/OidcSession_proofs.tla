------------------------- MODULE OidcSession_proofs -------------------------
(***************************************************************************)
(* Proofs about OidcSession for every value of its constants: any number   *)
(* of requests, jobs and sessions, any cap, with and without stored        *)
(* refresh tokens.                                                         *)
(***************************************************************************)
EXTENDS OidcSession, FiniteSetTheorems, TLAPS

\* The rows: what is created, and the marks a row's status carries.
RowInv ==
    \A s \in Sessions :
        /\ status[s] = "none" <=> root[s] = 0
        /\ s >= next => status[s] = "none"
        /\ status[s] = "none" => child[s] = 0
        /\ root[s] # 0 => root[root[s]] # 0
        /\ status[s] \in Live => child[s] = 0
        /\ status[s] \in {"rotated", "revoked"} => ~token[s]

\* The sessions a process read exist.
StillRead(p) ==
    /\ \A s \in work[p].doomed : status[s] # "none"
    /\ work[p].pc = "sweeping" => work[p].session \in work[p].doomed \cup {0}

\* What a process holds is there: the id of a login not yet committed is
\* reserved and its own, a session read for a refresh or a revocation exists.
WorkInv ==
    /\ \A p \in Processes : StillRead(p)
    /\ \A r \in Requests :
          /\ work[r].pc \in {"claiming", "exchanging", "releasing"}
                => work[r].session \in Sessions
          /\ work[r].pc = "admitting"
                => /\ work[r].session \in Sessions
                   /\ work[r].session < next
                   /\ status[work[r].session] = "none"
    /\ \A q, r \in Requests :
          work[q].pc = "admitting" /\ work[r].pc = "admitting" => q = r

Holding(r) == work[r].pc \in {"exchanging", "releasing"}

\* A session in exchange is still claimed or was revoked; it has no child,
\* and the request that claimed it is alone.
HolderInv ==
    /\ \A r \in Requests :
          Holding(r) => /\ status[work[r].session] \in {"refreshing", "revoked"}
                        /\ child[work[r].session] = 0
    /\ \A q, r \in Requests :
          /\ Holding(q)
          /\ Holding(r)
          /\ work[q].session = work[r].session
          => q = r

\* The sessions of a login form a chain: one of them has no child.
TipInv ==
    \A s, t \in Sessions :
        /\ root[s] # 0
        /\ root[s] = root[t]
        /\ child[s] = 0
        /\ child[t] = 0
        => s = t

\* Only a configuration error releases a claim.
ReleaseInv ==
    ~ConfigurationFaults => \A r \in Requests : work[r].pc # "releasing"

SessionInv == TypeOK /\ RowInv /\ WorkInv /\ HolderInv /\ TipInv /\ ReleaseInv

-----------------------------------------------------------------------------
LEMMA InitSession == Init => SessionInv
  <1> SUFFICES ASSUME Init PROVE SessionInv
    OBVIOUS
  <1> USE SessionAssumption DEF Init
  <1>1. /\ Idle \in Work
        /\ Idle.pc = "idle"
        /\ Idle.doomed = {}
    BY DEF Idle, Work, Steps, Sessions
  <1>2. \A p \in Processes : work[p] = Idle
    OBVIOUS
  <1>3. Requests \subseteq Processes
    BY DEF Processes
  <1>4. TypeOK
    BY <1>1 DEF TypeOK, Statuses, Sessions
  <1>5. RowInv /\ TipInv
    BY DEF RowInv, TipInv, Live, Sessions
  <1>6. WorkInv /\ HolderInv /\ ReleaseInv
    BY <1>1, <1>2, <1>3 DEF WorkInv, StillRead, HolderInv, ReleaseInv, Holding
  <1> QED BY <1>4, <1>5, <1>6 DEF SessionInv

LEMMA WorkType ==
    ASSUME TypeOK, NEW p \in Processes
    PROVE  /\ work[p] \in Work
           /\ work[p].pc \in Steps
           /\ work[p].session \in 0 .. MaxSessions
           /\ work[p].doomed \in SUBSET Sessions
  BY DEF TypeOK, Work

\* A step that writes no row and leaves the process without a new claim.
LEMMA QuietStep ==
    ASSUME SessionInv, NEW p \in Processes, NEW w \in Work,
           Goto(p, w),
           UNCHANGED rowVars,
           tenant' \in {"active", "suspended"},
           expired' \in [Sessions -> BOOLEAN],
           stale' \in [Sessions -> BOOLEAN],
           w.pc \notin {"admitting", "exchanging"},
           w.pc = "claiming" => w.session \in Sessions,
           w.pc = "releasing" => /\ ConfigurationFaults
                                 /\ work[p].pc = "exchanging"
                                 /\ w.session = work[p].session,
           w.pc = "sweeping" => w.session \in w.doomed \cup {0},
           \A s \in w.doomed : status[s] # "none"
    PROVE  SessionInv'
  <1> USE DEF SessionInv, rowVars
  <1>1. work' = [work EXCEPT ![p] = w] /\ work \in [Processes -> Work]
    BY DEF Goto, TypeOK
  <1>2. work' \in [Processes -> Work]
    BY <1>1
  <1>3. Requests \subseteq Processes
    BY DEF Processes
  <1>4. TypeOK'
    BY <1>2 DEF TypeOK
  <1>5. RowInv'
    BY DEF RowInv
  <1>6. WorkInv'
    <2>1. \A q \in Processes : StillRead(q)'
      BY <1>1 DEF WorkInv, StillRead
    <2> QED BY <1>1, <1>3, <2>1 DEF WorkInv
  <1>7. HolderInv'
    BY <1>1, <1>3 DEF HolderInv, Holding
  <1>8. TipInv' /\ ReleaseInv'
    BY <1>1, <1>3 DEF TipInv, ReleaseInv
  <1> QED BY <1>4, <1>5, <1>6, <1>7, <1>8

-----------------------------------------------------------------------------
(* Login *)

LEMMA AdmitStep ==
    ASSUME SessionInv, NEW r \in Requests, Admit(r)
    PROVE  SessionInv'
  <1> USE SessionAssumption DEF SessionInv
  <1> DEFINE w == [pc |-> "admitting", session |-> next, doomed |-> Excess]
  <1>1. /\ work' = [work EXCEPT ![r] = w]
        /\ work \in [Processes -> Work]
        /\ next \in Sessions
        /\ next' = next + 1
        /\ UNCHANGED <<tenant, status, token, child, root, expired, stale>>
    BY DEF Admit, Goto, TypeOK, Sessions, clockVars
  <1>2. Excess \in SUBSET Sessions /\ \A s \in Excess : status[s] # "none"
    BY DEF Excess, Active
  <1>3. w \in Work
    BY <1>1, <1>2 DEF Work, Steps, Sessions
  <1>4. Requests \subseteq Processes
    BY DEF Processes
  <1>5. status[next] = "none"
    BY <1>1 DEF RowInv, Sessions
  <1>6. \A q \in Requests : work[q].pc # "admitting"
    BY DEF Admit, Admitting
  <1> HIDE DEF w
  <1>7. w.pc = "admitting" /\ w.session = next /\ w.doomed = Excess
    BY DEF w
  <1>8. TypeOK'
    <2>1. work' \in [Processes -> Work]
      BY <1>1, <1>3
    <2>2. next' \in 1 .. MaxSessions + 1
      BY <1>1 DEF Sessions
    <2> QED BY <1>1, <2>1, <2>2 DEF TypeOK
  <1>9. RowInv'
    BY <1>1 DEF RowInv, TypeOK, Sessions
  <1>10. WorkInv'
    <2>1. \A p \in Processes : StillRead(p)'
      BY <1>1, <1>2, <1>4, <1>7 DEF WorkInv, StillRead
    <2>2. ASSUME NEW q \in Requests
          PROVE  /\ work'[q].pc \in {"claiming", "exchanging", "releasing"}
                       => work'[q].session \in Sessions
                 /\ work'[q].pc = "admitting" => q = r
      BY <1>1, <1>4, <1>6, <1>7 DEF WorkInv
    <2>3. /\ work'[r].session = next
          /\ next < next'
      BY <1>1, <1>4, <1>7 DEF Sessions
    <2> QED BY <1>1, <1>5, <2>1, <2>2, <2>3 DEF WorkInv
  <1>11. HolderInv'
    BY <1>1, <1>4, <1>7 DEF HolderInv, Holding
  <1>12. TipInv' /\ ReleaseInv'
    BY <1>1, <1>4, <1>7 DEF TipInv, ReleaseInv
  <1> QED BY <1>8, <1>9, <1>10, <1>11, <1>12

LEMMA CommitLoginStep ==
    ASSUME SessionInv, NEW r \in Requests, CommitLogin(r)
    PROVE  SessionInv'
  <1> USE SessionAssumption DEF SessionInv
  <1> DEFINE n == work[r].session
             S == work[r].doomed
  <1>1. Requests \subseteq Processes /\ r \in Processes
    BY DEF Processes
  <1>2. /\ n \in Sessions
        /\ n < next
        /\ status[n] = "none"
        /\ S \in SUBSET Sessions
        /\ \A s \in S : status[s] # "none"
        /\ work[r].pc = "admitting"
    BY <1>1, WorkType DEF CommitLogin, WorkInv, StillRead
  <1>3. /\ work' = [work EXCEPT ![r] = Idle]
        /\ work \in [Processes -> Work]
        /\ Idle \in Work
        /\ Idle.pc = "idle"
        /\ Idle.doomed = {}
    BY DEF CommitLogin, Goto, TypeOK, Idle, Work, Steps, Sessions
  <1>4. /\ status' = [Revoked(S) EXCEPT ![n] = "active"]
        /\ token' = [TokenDropped(S) EXCEPT ![n] = StoresTokens]
        /\ root' = [root EXCEPT ![n] = n]
        /\ UNCHANGED <<tenant, next, child, expired, stale>>
    BY DEF CommitLogin, clockVars
  <1> HIDE DEF n, S
  <1>5. \A s \in Sessions :
            /\ status'[s] = IF s = n THEN "active"
                            ELSE IF s \in S THEN "revoked" ELSE status[s]
            /\ token'[s] = IF s = n THEN StoresTokens
                           ELSE token[s] /\ s \notin S
            /\ root'[s] = IF s = n THEN n ELSE root[s]
            /\ child'[s] = child[s]
    BY <1>2, <1>4 DEF Revoked, TokenDropped, TypeOK
  <1>6. n # 0 /\ root[n] = 0 /\ child[n] = 0
    BY <1>2 DEF RowInv, Sessions
  <1>7. \A s \in Sessions : root[s] # n
    BY <1>6 DEF RowInv, TypeOK
  <1>8. TypeOK'
    <2>1. status' \in [Sessions -> Statuses]
      BY <1>2, <1>4 DEF Revoked, TypeOK, Statuses, Live
    <2>2. token' \in [Sessions -> BOOLEAN]
      BY <1>2, <1>4 DEF TokenDropped, TypeOK
    <2>3. root' \in [Sessions -> 0 .. MaxSessions]
      BY <1>2, <1>4 DEF TypeOK, Sessions
    <2>4. work' \in [Processes -> Work]
      BY <1>3
    <2> QED BY <1>4, <2>1, <2>2, <2>3, <2>4 DEF TypeOK
  <1>9. RowInv'
    <2> SUFFICES ASSUME NEW s \in Sessions
                 PROVE  /\ status'[s] = "none" <=> root'[s] = 0
                        /\ s >= next' => status'[s] = "none"
                        /\ status'[s] = "none" => child'[s] = 0
                        /\ root'[s] # 0 => root'[root'[s]] # 0
                        /\ status'[s] \in Live => child'[s] = 0
                        /\ status'[s] \in {"rotated", "revoked"} => ~token'[s]
      BY DEF RowInv
    <2>1. root[s] \in 0 .. MaxSessions /\ (root[s] # 0 => root[s] \in Sessions)
      BY DEF TypeOK, Sessions
    <2>2. CASE s = n
      BY <1>2, <1>4, <1>5, <1>6, <2>2 DEF Sessions, TypeOK
    <2>3. CASE s # n
      <3>1. root'[s] # 0 => root'[root'[s]] # 0
        BY <1>5, <1>7, <2>1, <2>3 DEF RowInv
      <3>2. status'[s] \in {"rotated", "revoked"} => ~token'[s]
        BY <1>5, <2>3 DEF RowInv
      <3>3. CASE s \in S
        <4>1. /\ status[s] # "none"
              /\ status'[s] = "revoked"
              /\ root'[s] = root[s]
          BY <1>2, <1>5, <2>3, <3>3
        <4>2. s < next
          BY <4>1 DEF RowInv, TypeOK, Sessions
        <4> QED BY <1>4, <3>1, <3>2, <4>1, <4>2 DEF RowInv, Live, TypeOK, Sessions
      <3>4. CASE s \notin S
        <4>1. /\ status'[s] = status[s]
              /\ root'[s] = root[s]
          BY <1>5, <2>3, <3>4
        <4> QED BY <1>4, <3>1, <3>2, <4>1 DEF RowInv
      <3> QED BY <3>3, <3>4
    <2> QED BY <2>2, <2>3
  <1>10. WorkInv'
    <2>1. \A s \in Sessions : status[s] # "none" => status'[s] # "none"
      BY <1>5
    <2>2. \A p \in Processes : StillRead(p)'
      BY <1>1, <1>3, <2>1, WorkType DEF WorkInv, StillRead
    <2>3. \A q \in Requests : work'[q].pc # "admitting"
      BY <1>1, <1>2, <1>3 DEF WorkInv
    <2> QED BY <1>1, <1>3, <2>2, <2>3 DEF WorkInv
  <1>11. HolderInv'
    <2> SUFFICES ASSUME NEW q \in Requests, Holding(q)'
                 PROVE  /\ Holding(q)
                        /\ work'[q] = work[q]
                        /\ status'[work[q].session] \in {"refreshing", "revoked"}
      BY <1>4 DEF HolderInv
    <2>1. Holding(q) /\ work'[q] = work[q]
      BY <1>1, <1>3 DEF Holding
    <2>2. work[q].session \in Sessions /\ work[q].session # n
      BY <1>2, <2>1 DEF Holding, WorkInv, HolderInv
    <2> QED BY <1>5, <2>1, <2>2 DEF HolderInv
  <1>12. TipInv'
    BY <1>5, <1>7 DEF TipInv
  <1>13. ReleaseInv'
    BY <1>1, <1>3 DEF ReleaseInv
  <1> QED BY <1>8, <1>9, <1>10, <1>11, <1>12, <1>13

-----------------------------------------------------------------------------
(* Refresh *)

\* A claim request is alone: while a session is active nobody holds it.
LEMMA ClaimStep ==
    ASSUME SessionInv, NEW r \in Requests, ClaimRefresh(r)
    PROVE  SessionInv'
  <1> USE SessionAssumption DEF SessionInv
  <1> DEFINE s == work[r].session
             w == At("exchanging", s)
  <1>1. Requests \subseteq Processes /\ r \in Processes
    BY DEF Processes
  <1>2. work[r].pc = "claiming" /\ s \in Sessions
    BY DEF ClaimRefresh, WorkInv
  <1>3. CASE ~MayClaim(s)
    <2>1. /\ Goto(r, Idle)
          /\ UNCHANGED rowVars
          /\ UNCHANGED <<tenant, expired, stale>>
      BY <1>3 DEF ClaimRefresh, rowVars
    <2>2. Idle \in Work /\ Idle.pc = "idle" /\ Idle.doomed = {}
      BY DEF Idle, Work, Steps, Sessions
    <2>3. /\ tenant' \in {"active", "suspended"}
          /\ expired' \in [Sessions -> BOOLEAN]
          /\ stale' \in [Sessions -> BOOLEAN]
      BY <2>1 DEF TypeOK
    <2> QED BY <1>1, <2>1, <2>2, <2>3, QuietStep
  <1>4. CASE MayClaim(s)
    <2>1. /\ status[s] = "active"
          /\ status' = [status EXCEPT ![s] = "refreshing"]
          /\ stale' = [stale EXCEPT ![s] = FALSE]
          /\ work' = [work EXCEPT ![r] = w]
          /\ work \in [Processes -> Work]
          /\ UNCHANGED <<tenant, next, token, child, root, expired>>
      BY <1>4 DEF ClaimRefresh, MayClaim, Goto, TypeOK
    <2>2. /\ w \in Work
          /\ w.pc = "exchanging"
          /\ w.session = s
          /\ w.doomed = {}
      BY <1>2 DEF At, Work, Steps, Sessions
    <2> HIDE DEF s, w
    <2>3. \A t \in Sessions :
              status'[t] = IF t = s THEN "refreshing" ELSE status[t]
      BY <1>2, <2>1 DEF TypeOK
    <2>4. /\ \A p \in Processes : p # r => work'[p] = work[p]
          /\ work'[r] = w
      BY <1>1, <2>1
    <2>5. TypeOK'
      <3>1. status' \in [Sessions -> Statuses]
        BY <1>2, <2>1 DEF TypeOK, Statuses, Live
      <3>2. stale' \in [Sessions -> BOOLEAN]
        BY <1>2, <2>1 DEF TypeOK
      <3>3. work' \in [Processes -> Work]
        BY <2>1, <2>2
      <3> QED BY <2>1, <3>1, <3>2, <3>3 DEF TypeOK
    <2>6. RowInv'
      BY <2>1, <2>3 DEF RowInv, Live
    <2>7. WorkInv'
      <3>1. \A t \in Sessions : status'[t] = "none" <=> status[t] = "none"
        BY <2>1, <2>3
      <3>2. \A p \in Processes : StillRead(p)'
        BY <2>2, <2>4, <3>1, WorkType DEF WorkInv, StillRead
      <3> QED BY <1>1, <1>2, <2>1, <2>2, <2>4, <3>1, <3>2 DEF WorkInv
    <2>8. HolderInv'
      <3>1. child[s] = 0
        BY <1>2, <2>1 DEF RowInv, Live
      <3>2. ASSUME NEW q \in Requests, q # r, Holding(q)'
            PROVE  /\ Holding(q)
                   /\ work'[q] = work[q]
                   /\ work[q].session \in Sessions
                   /\ work[q].session # s
        BY <1>1, <2>1, <2>4, <3>2 DEF Holding, HolderInv, WorkInv
      <3>3. ASSUME NEW q \in Requests, Holding(q)'
            PROVE  /\ status'[work'[q].session] \in {"refreshing", "revoked"}
                   /\ child'[work'[q].session] = 0
        <4>1. CASE q = r
          BY <1>2, <2>1, <2>2, <2>3, <2>4, <3>1, <4>1
        <4>2. CASE q # r
          BY <2>1, <2>3, <3>2, <3>3, <4>2 DEF HolderInv
        <4> QED BY <4>1, <4>2
      <3>4. ASSUME NEW p \in Requests, NEW q \in Requests,
                   Holding(p)', Holding(q)',
                   work'[p].session = work'[q].session
            PROVE  p = q
        BY <2>2, <2>4, <3>2, <3>4 DEF HolderInv
      <3> QED BY <3>3, <3>4 DEF HolderInv
    <2>9. TipInv' /\ ReleaseInv'
      BY <1>1, <2>1, <2>2, <2>4 DEF TipInv, ReleaseInv
    <2> QED BY <2>5, <2>6, <2>7, <2>8, <2>9
  <1> QED BY <1>3, <1>4

LEMMA FinalizeStep ==
    ASSUME SessionInv, NEW r \in Requests, FinalizeRefresh(r)
    PROVE  SessionInv'
  <1> USE SessionAssumption DEF SessionInv
  <1> DEFINE s == work[r].session
  <1>1. Requests \subseteq Processes /\ r \in Processes
    BY DEF Processes
  <1>2. /\ work[r].pc = "exchanging"
        /\ s \in Sessions
        /\ Holding(r)
        /\ child[s] = 0
    BY DEF FinalizeRefresh, WorkInv, HolderInv, Holding
  <1>3. Idle \in Work /\ Idle.pc = "idle" /\ Idle.doomed = {}
    BY DEF Idle, Work, Steps, Sessions
  <1>4. Goto(r, Idle) /\ UNCHANGED <<tenant, expired, stale>>
    BY DEF FinalizeRefresh, clockVars
  <1>5. CASE status[s] # "refreshing"
    <2>1. /\ tenant' \in {"active", "suspended"}
          /\ expired' \in [Sessions -> BOOLEAN]
          /\ stale' \in [Sessions -> BOOLEAN]
      BY <1>4 DEF TypeOK
    <2> QED BY <1>1, <1>3, <1>4, <1>5, <2>1, QuietStep DEF FinalizeRefresh
  <1>6. CASE status[s] = "refreshing"
    <2>1. /\ next \in Sessions
          /\ next' = next + 1
          /\ status' = [status EXCEPT ![s] = "rotated", ![next] = "active"]
          /\ token' = [token EXCEPT ![s] = FALSE, ![next] = TRUE]
          /\ child' = [child EXCEPT ![s] = next]
          /\ root' = [root EXCEPT ![next] = root[s]]
          /\ work' = [work EXCEPT ![r] = Idle]
          /\ work \in [Processes -> Work]
      BY <1>6 DEF FinalizeRefresh, Mint, Goto, TypeOK, Sessions
    <2> HIDE DEF s
    <2>2. /\ status[next] = "none"
          /\ root[next] = 0
          /\ child[next] = 0
          /\ next # s
          /\ next # 0
          /\ root[s] # 0
      BY <1>2, <1>6, <2>1 DEF RowInv, Sessions, TypeOK
    <2>3. \A t \in Sessions :
              /\ status'[t] = IF t = next THEN "active"
                              ELSE IF t = s THEN "rotated" ELSE status[t]
              /\ child'[t] = IF t = s THEN next ELSE child[t]
              /\ root'[t] = IF t = next THEN root[s] ELSE root[t]
      BY <1>2, <2>1 DEF TypeOK
    <2>4. \A t \in Sessions :
              token'[t] = IF t = next THEN TRUE
                          ELSE IF t = s THEN FALSE ELSE token[t]
      BY <1>2, <2>1 DEF TypeOK
    <2>5. /\ \A p \in Processes : p # r => work'[p] = work[p]
          /\ work'[r] = Idle
      BY <1>1, <2>1
    <2>6. \A t \in Sessions : root[t] # next
      BY <2>1, <2>2 DEF RowInv, TypeOK
    <2>7. TypeOK'
      <3>1. status' \in [Sessions -> Statuses]
        BY <1>2, <2>1 DEF TypeOK, Statuses, Live
      <3>2. token' \in [Sessions -> BOOLEAN]
        BY <1>2, <2>1 DEF TypeOK
      <3>3. /\ child' \in [Sessions -> 0 .. MaxSessions]
            /\ root' \in [Sessions -> 0 .. MaxSessions]
            /\ next' \in 1 .. MaxSessions + 1
        BY <1>2, <2>1 DEF TypeOK, Sessions
      <3>4. work' \in [Processes -> Work]
        BY <1>3, <2>1
      <3> QED BY <1>4, <3>1, <3>2, <3>3, <3>4 DEF TypeOK
    <2>8. RowInv'
      <3> SUFFICES ASSUME NEW t \in Sessions
                   PROVE  /\ status'[t] = "none" <=> root'[t] = 0
                          /\ t >= next' => status'[t] = "none"
                          /\ status'[t] = "none" => child'[t] = 0
                          /\ root'[t] # 0 => root'[root'[t]] # 0
                          /\ status'[t] \in Live => child'[t] = 0
                          /\ status'[t] \in {"rotated", "revoked"} => ~token'[t]
        BY DEF RowInv
      <3>1. status'[t] \in {"rotated", "revoked"} => ~token'[t]
        BY <2>3, <2>4 DEF RowInv
      <3>2. ASSUME NEW u \in Sessions, root[u] # 0
            PROVE  root[u] \in Sessions /\ root'[root[u]] # 0
        <4>1. root[u] \in Sessions /\ root[root[u]] # 0
          BY <3>2 DEF RowInv, TypeOK, Sessions
        <4> QED BY <2>3, <2>6, <4>1
      <3>3. root'[t] # 0 => root'[root'[t]] # 0
        BY <1>2, <2>2, <2>3, <3>2
      <3>4. t >= next' => status'[t] = "none"
        <4>1. next \in Nat /\ t \in Nat /\ s \in Nat /\ next' = next + 1
          BY <1>2, <2>1 DEF Sessions
        <4>2. s < next
          BY <1>2, <1>6, <4>1 DEF RowInv
        <4>3. t >= next' => t # next /\ t # s /\ t >= next
          BY <4>1, <4>2
        <4> QED BY <2>3, <4>3 DEF RowInv
      <3>5. /\ status'[t] = "none" <=> root'[t] = 0
            /\ status'[t] = "none" => child'[t] = 0
            /\ status'[t] \in Live => child'[t] = 0
        <4>1. CASE t = next
          BY <2>2, <2>3, <4>1
        <4>2. CASE t = s
          BY <2>2, <2>3, <4>2 DEF Live
        <4>3. CASE t # next /\ t # s
          BY <2>3, <4>3 DEF RowInv
        <4> QED BY <4>1, <4>2, <4>3
      <3> QED BY <3>1, <3>3, <3>4, <3>5
    <2>9. WorkInv'
      <3>1. \A t \in Sessions : status[t] # "none" => status'[t] # "none"
        BY <2>3
      <3>2. \A p \in Processes : StillRead(p)'
        BY <1>3, <2>5, <3>1, WorkType DEF WorkInv, StillRead
      <3>3. ASSUME NEW q \in Requests, work'[q].pc = "admitting"
            PROVE  /\ work[q].pc = "admitting"
                   /\ work'[q].session \in Sessions
                   /\ work'[q].session < next'
                   /\ status'[work'[q].session] = "none"
        <4>1. q # r /\ work'[q] = work[q] /\ work[q].pc = "admitting"
          BY <1>1, <1>3, <2>5, <3>3
        <4>2. /\ work[q].session \in Sessions
              /\ work[q].session < next
              /\ status[work[q].session] = "none"
          BY <4>1 DEF WorkInv
        <4>3. work[q].session # s /\ work[q].session # next
          BY <1>6, <2>1, <4>2 DEF Sessions
        <4>4. work[q].session < next'
          BY <2>1, <4>2 DEF Sessions
        <4> QED BY <2>3, <4>1, <4>2, <4>3, <4>4
      <3> QED BY <1>1, <1>3, <2>5, <3>2, <3>3 DEF WorkInv
    <2>10. HolderInv'
      <3>1. ASSUME NEW q \in Requests, Holding(q)'
            PROVE  /\ Holding(q)
                   /\ work'[q] = work[q]
                   /\ work[q].session \in Sessions
                   /\ work[q].session # s
                   /\ work[q].session # next
        <4>1. q # r /\ Holding(q) /\ work'[q] = work[q]
          BY <1>1, <1>3, <2>5, <3>1 DEF Holding
        <4>2. work[q].session # s
          BY <1>2, <4>1 DEF HolderInv, s
        <4> QED BY <2>2, <4>1, <4>2 DEF Holding, HolderInv, WorkInv
      <3> QED BY <2>3, <3>1 DEF HolderInv
    <2>11. TipInv'
      <3> SUFFICES ASSUME NEW t \in Sessions, NEW u \in Sessions,
                          root'[t] # 0, root'[t] = root'[u],
                          child'[t] = 0, child'[u] = 0
                   PROVE  t = u
        BY DEF TipInv
      <3>1. t # s /\ u # s
        BY <2>2, <2>3
      <3>2. \A v \in Sessions :
                v # s /\ v # next /\ child'[v] = 0 => root[v] # root[s]
        BY <1>2, <2>2, <2>3 DEF TipInv
      <3> QED BY <2>3, <3>1, <3>2 DEF TipInv
    <2>12. ReleaseInv'
      BY <1>1, <1>3, <2>5 DEF ReleaseInv
    <2> QED BY <2>7, <2>8, <2>9, <2>10, <2>11, <2>12
  <1> QED BY <1>5, <1>6

LEMMA ReleaseStep ==
    ASSUME SessionInv, NEW r \in Requests, Release(r)
    PROVE  SessionInv'
  <1> USE SessionAssumption DEF SessionInv
  <1> DEFINE s == work[r].session
  <1>1. Requests \subseteq Processes /\ r \in Processes
    BY DEF Processes
  <1>2. /\ work[r].pc = "releasing"
        /\ s \in Sessions
        /\ Holding(r)
        /\ child[s] = 0
        /\ status[s] # "none"
    BY DEF Release, WorkInv, HolderInv, Holding
  <1>3. Idle \in Work /\ Idle.pc = "idle" /\ Idle.doomed = {}
    BY DEF Idle, Work, Steps, Sessions
  <1>4. /\ work' = [work EXCEPT ![r] = Idle]
        /\ work \in [Processes -> Work]
        /\ status' = [status EXCEPT ![s] = "active"]
        /\ UNCHANGED <<tenant, next, token, child, root, expired, stale>>
    BY DEF Release, Goto, TypeOK, clockVars
  <1> HIDE DEF s
  <1>5. \A t \in Sessions :
            status'[t] = IF t = s THEN "active" ELSE status[t]
    BY <1>2, <1>4 DEF TypeOK
  <1>6. /\ \A p \in Processes : p # r => work'[p] = work[p]
        /\ work'[r] = Idle
    BY <1>1, <1>4
  <1>7. TypeOK'
    <2>1. status' \in [Sessions -> Statuses]
      BY <1>2, <1>4 DEF TypeOK, Statuses, Live
    <2>2. work' \in [Processes -> Work]
      BY <1>3, <1>4
    <2> QED BY <1>4, <2>1, <2>2 DEF TypeOK
  <1>8. RowInv'
    BY <1>2, <1>4, <1>5 DEF RowInv, Live
  <1>9. WorkInv'
    <2>1. \A t \in Sessions : status'[t] = "none" <=> status[t] = "none"
      BY <1>2, <1>5
    <2>2. \A p \in Processes : StillRead(p)'
      BY <1>3, <1>6, <2>1, WorkType DEF WorkInv, StillRead
    <2> QED BY <1>1, <1>3, <1>4, <1>6, <2>1, <2>2 DEF WorkInv
  <1>10. HolderInv'
    <2>1. ASSUME NEW q \in Requests, Holding(q)'
          PROVE  /\ Holding(q)
                 /\ work'[q] = work[q]
                 /\ work[q].session \in Sessions
                 /\ work[q].session # s
      <3>1. q # r /\ Holding(q) /\ work'[q] = work[q]
        BY <1>1, <1>3, <1>6, <2>1 DEF Holding
      <3> QED BY <1>2, <3>1 DEF Holding, HolderInv, WorkInv, s
    <2> QED BY <1>4, <1>5, <2>1 DEF HolderInv
  <1>11. TipInv' /\ ReleaseInv'
    BY <1>1, <1>3, <1>4, <1>6 DEF TipInv, ReleaseInv
  <1> QED BY <1>7, <1>8, <1>9, <1>10, <1>11

-----------------------------------------------------------------------------
(* Revocation *)

\* What a revocation leaves its process with.
Harmless(w) ==
    /\ w.pc \in {"idle", "sweeping"}
    /\ w.pc = "sweeping" => w.session \in w.doomed \cup {0}
    /\ \A s \in w.doomed : status[s] # "none"

\* Every revocation writes the same columns, whatever it read before.
LEMMA RevokeRows ==
    ASSUME SessionInv, NEW S \in SUBSET Sessions,
           \A s \in S : status[s] # "none",
           status' = Revoked(S),
           token' = TokenDropped(S),
           UNCHANGED <<tenant, next, child, root, expired, stale>>,
           work' \in [Processes -> Work],
           \A p \in Processes : work'[p] = work[p] \/ Harmless(work'[p])
    PROVE  SessionInv'
  <1> USE SessionAssumption DEF SessionInv
  <1>1. \A s \in Sessions :
            /\ status'[s] = IF s \in S THEN "revoked" ELSE status[s]
            /\ status[s] = "none" <=> status'[s] = "none"
    BY DEF Revoked, TypeOK
  <1>2. \A s \in Sessions : token'[s] = (token[s] /\ s \notin S)
    BY DEF TokenDropped
  <1>3. Requests \subseteq Processes
    BY DEF Processes
  <1>4. TypeOK'
    <2>1. status' \in [Sessions -> Statuses]
      BY DEF Revoked, TypeOK, Statuses
    <2>2. token' \in [Sessions -> BOOLEAN]
      BY DEF TokenDropped, TypeOK
    <2> QED BY <2>1, <2>2 DEF TypeOK
  <1>5. RowInv'
    <2>1. \A s \in Sessions : status'[s] \in {"rotated", "revoked"} => ~token'[s]
      BY <1>1, <1>2 DEF RowInv
    <2>2. \A s \in Sessions : status'[s] \in Live => status[s] \in Live
      BY <1>1 DEF Live
    <2> QED BY <1>1, <2>1, <2>2 DEF RowInv
  <1>6. WorkInv'
    <2>1. \A p \in Processes : work'[p].doomed \in SUBSET Sessions
      BY DEF Work
    <2>2. \A p \in Processes : StillRead(p)'
      BY <1>1, <2>1 DEF WorkInv, StillRead, Harmless
    <2> QED BY <1>1, <1>3, <2>2 DEF WorkInv, Harmless
  <1>7. HolderInv'
    <2>1. ASSUME NEW q \in Requests, Holding(q)'
          PROVE  /\ Holding(q)
                 /\ work'[q] = work[q]
                 /\ work[q].session \in Sessions
      BY <1>3, <2>1 DEF Holding, WorkInv, Harmless
    <2> QED BY <1>1, <2>1 DEF HolderInv
  <1>8. TipInv' /\ ReleaseInv'
    BY <1>3 DEF TipInv, ReleaseInv, Harmless
  <1> QED BY <1>4, <1>5, <1>6, <1>7, <1>8

LEMMA IdleIsHarmless == Idle \in Work /\ Harmless(Idle)
  BY SessionAssumption DEF Idle, Harmless, Work, Steps, Sessions

LEMMA RevokeStep ==
    ASSUME SessionInv, NEW p \in Processes, Revoke(p)
    PROVE  SessionInv'
  <1>1. /\ work[p].doomed \in SUBSET Sessions
        /\ \A s \in work[p].doomed : status[s] # "none"
    BY WorkType DEF SessionInv, WorkInv, StillRead
  <1>2. /\ status' = Revoked(work[p].doomed)
        /\ token' = TokenDropped(work[p].doomed)
        /\ UNCHANGED <<tenant, next, child, root, expired, stale>>
    BY DEF Revoke, clockVars
  <1>3. /\ work' \in [Processes -> Work]
        /\ \A q \in Processes : work'[q] = work[q] \/ work'[q] = Idle
    BY IdleIsHarmless DEF Revoke, Goto, SessionInv, TypeOK
  <1> QED BY <1>1, <1>2, <1>3, IdleIsHarmless, RevokeRows

LEMMA RevokeByReferenceStep ==
    ASSUME SessionInv, NEW s \in Sessions, RevokeByReference(s)
    PROVE  SessionInv'
  <1>1. {s} \in SUBSET Sessions /\ \A t \in {s} : status[t] # "none"
    BY DEF RevokeByReference, Live
  <1>2. /\ status' = Revoked({s})
        /\ token' = TokenDropped({s})
        /\ UNCHANGED <<tenant, next, child, root, expired, stale, work>>
    BY DEF RevokeByReference, clockVars
  <1>3. /\ work' \in [Processes -> Work]
        /\ \A q \in Processes : work'[q] = work[q]
    BY <1>2 DEF SessionInv, TypeOK
  <1> QED BY <1>1, <1>2, <1>3, RevokeRows

\* A sweep goes on with candidates it has already read once.
LEMMA RemainingIsHarmless ==
    ASSUME SessionInv, NEW j \in Processes, NEW s
    PROVE  Remaining(j, s) \in Work /\ Harmless(Remaining(j, s))
  <1> DEFINE S == work[j].doomed \ {s}
  <1>1. /\ S \in SUBSET Sessions
        /\ \A t \in S : status[t] # "none"
    BY WorkType DEF SessionInv, WorkInv, StillRead
  <1>2. \/ Remaining(j, s) = Idle
        \/ Remaining(j, s) = [pc |-> "sweeping", session |-> 0, doomed |-> S]
    BY DEF Remaining
  <1> DEFINE w == [pc |-> "sweeping", session |-> 0, doomed |-> S]
  <1> HIDE DEF S
  <1>3. /\ w \in Work
        /\ w.pc = "sweeping"
        /\ w.session = 0
        /\ w.doomed = S
    BY <1>1, SessionAssumption DEF Work, Steps, Sessions
  <1> HIDE DEF w
  <1>4. Harmless(w)
    BY <1>1, <1>3 DEF Harmless
  <1> QED BY <1>2, <1>3, <1>4, IdleIsHarmless DEF w

LEMMA RevokeSweptStep ==
    ASSUME SessionInv, NEW j \in Processes, RevokeSwept(j)
    PROVE  SessionInv'
  <1> DEFINE s == work[j].session
             w == Remaining(j, s)
  <1>1. s \in work[j].doomed
    BY DEF RevokeSwept, SessionInv, WorkInv, StillRead
  <1>2. {s} \in SUBSET Sessions /\ \A t \in {s} : status[t] # "none"
    BY <1>1, WorkType DEF SessionInv, WorkInv, StillRead
  <1>3. w \in Work /\ Harmless(w)
    BY RemainingIsHarmless
  <1>4. /\ status' = Revoked({s})
        /\ token' = TokenDropped({s})
        /\ UNCHANGED <<tenant, next, child, root, expired, stale>>
        /\ Goto(j, w)
    BY DEF RevokeSwept, clockVars
  <1> HIDE DEF s, w
  <1>5. /\ work' \in [Processes -> Work]
        /\ \A q \in Processes : work'[q] = work[q] \/ work'[q] = w
    BY <1>3, <1>4 DEF Goto, SessionInv, TypeOK
  <1> QED BY <1>2, <1>3, <1>4, <1>5, RevokeRows

-----------------------------------------------------------------------------
(* Steps that only read *)

LEMMA RequestReads ==
    ASSUME SessionInv, NEW r \in Requests, NEW s \in Sessions,
           \/ BeginRefresh(r, s)
           \/ FailRefresh(r)
           \/ BeginRelease(r)
           \/ ReadNext(r, s)
    PROVE  SessionInv'
  <1> USE SessionAssumption
  <1> DEFINE h == work[r].session
  <1>1. r \in Processes
    BY DEF Processes
  <1>2. UNCHANGED <<tenant, rowVars, expired, stale>>
    BY DEF BeginRefresh, FailRefresh, BeginRelease, ReadNext, ReadExpired,
           ReadBlocked, ReadUnreadable, ReadLogout, clockVars
  <1>3. /\ tenant' \in {"active", "suspended"}
        /\ expired' \in [Sessions -> BOOLEAN]
        /\ stale' \in [Sessions -> BOOLEAN]
    BY <1>2 DEF SessionInv, TypeOK
  <1>4. work[r].pc = "exchanging" => h \in Sessions /\ status[h] # "none"
    BY DEF SessionInv, WorkInv, HolderInv, Holding
  <1>5. PICK w \in {Idle, At("claiming", s), At("releasing", h),
                    Revoking({h}), Revoking({s})} :
            /\ Goto(r, w)
            /\ w = At("releasing", h)
                  => ConfigurationFaults /\ work[r].pc = "exchanging"
            /\ w = Revoking({h}) => h \in Sessions /\ status[h] # "none"
            /\ w = Revoking({s}) => status[s] # "none"
    <2>1. CASE BeginRefresh(r, s)
      BY <2>1 DEF BeginRefresh, At, Revoking
    <2>2. CASE FailRefresh(r)
      <3>1. CASE status[h] = "revoked"
        BY <2>2, <3>1 DEF FailRefresh, At, Revoking, Idle
      <3>2. CASE status[h] # "revoked"
        <4>1. Goto(r, Revoking({h})) /\ h \in Sessions /\ status[h] # "none"
          BY <2>2, <3>2, <1>4 DEF FailRefresh
        <4>2. Revoking({h}) # At("releasing", h)
          BY DEF Revoking, At
        <4> QED BY <4>1, <4>2 DEF Revoking
      <3> QED BY <3>1, <3>2
    <2>3. CASE BeginRelease(r)
      <3>1. CASE status[h] # "refreshing"
        BY <2>3, <3>1 DEF BeginRelease, At, Revoking, Idle
      <3>2. CASE status[h] = "refreshing"
        BY <2>3, <3>2 DEF BeginRelease, At, Revoking
      <3> QED BY <3>1, <3>2
    <2>4. CASE ReadNext(r, s)
      <3>1. Goto(r, Revoking({s})) /\ status[s] # "none"
        BY <2>4 DEF ReadNext, ReadExpired, ReadBlocked, ReadUnreadable,
                    ReadLogout, LifecycleFailure, Live
      <3>2. Revoking({s}) # At("releasing", h)
        BY DEF Revoking, At
      <3>3. Revoking({s}) = Revoking({h}) => s = h
        BY DEF Revoking
      <3> QED BY <3>1, <3>2, <3>3
    <2> QED BY <2>1, <2>2, <2>3, <2>4
  <1>6. h \in 0 .. MaxSessions
    BY <1>1, WorkType DEF SessionInv
  <1>7. /\ w \in Work
        /\ w.pc \notin {"admitting", "exchanging", "sweeping"}
        /\ w.pc = "claiming" => w.session \in Sessions
        /\ w.pc = "releasing" => /\ ConfigurationFaults
                                 /\ work[r].pc = "exchanging"
                                 /\ w.session = h
        /\ \A t \in w.doomed : status[t] # "none"
    <2>1. CASE w = Idle
      BY <2>1 DEF Idle, Work, Steps, Sessions
    <2>2. CASE w = At("claiming", s)
      BY <2>2 DEF At, Work, Steps, Sessions
    <2>3. CASE w = At("releasing", h)
      BY <1>5, <1>6, <2>3 DEF At, Work, Steps, Sessions
    <2>4. CASE w = Revoking({h})
      BY <1>5, <2>4 DEF Revoking, Work, Steps, Sessions
    <2>5. CASE w = Revoking({s})
      BY <1>5, <2>5 DEF Revoking, Work, Steps, Sessions
    <2> QED BY <2>1, <2>2, <2>3, <2>4, <2>5
  <1> QED BY <1>1, <1>2, <1>3, <1>5, <1>7, QuietStep

LEMMA JobReads ==
    ASSUME SessionInv, NEW j \in Jobs, NEW s \in Sessions,
           \/ ScanSessions(j)
           \/ LoadSwept(j, s)
           \/ FailSwept(j)
           \/ Reconcile(j)
    PROVE  SessionInv'
  <1> USE SessionAssumption
  <1>1. j \in Processes
    BY DEF Processes
  <1>2. UNCHANGED <<tenant, rowVars, expired, stale>>
    BY DEF ScanSessions, LoadSwept, FailSwept, Reconcile, clockVars
  <1>3. /\ tenant' \in {"active", "suspended"}
        /\ expired' \in [Sessions -> BOOLEAN]
        /\ stale' \in [Sessions -> BOOLEAN]
    BY <1>2 DEF SessionInv, TypeOK
  <1>4. PICK w \in Work :
            /\ Goto(j, w)
            /\ w.pc \in {"idle", "sweeping", "revoking"}
            /\ w.pc = "sweeping" => w.session \in w.doomed \cup {0}
            /\ \A t \in w.doomed : status[t] # "none"
    <2>1. CASE ScanSessions(j)
      <3> DEFINE S == {t \in Sessions : Sweepable(t)}
                 w == [pc |-> "sweeping", session |-> 0, doomed |-> S]
      <3>1. S \in SUBSET Sessions /\ \A t \in S : status[t] # "none"
        BY DEF Sweepable, LifecycleFailure
      <3>2. Goto(j, w)
        BY <2>1 DEF ScanSessions
      <3> HIDE DEF S
      <3>3. w \in Work
        BY <3>1 DEF Work, Steps, Sessions
      <3> QED BY <3>1, <3>2, <3>3
    <2>2. CASE LoadSwept(j, s) /\ status[s] \in Live
      <3> DEFINE w == [work[j] EXCEPT !.session = s]
      <3>1. /\ work[j] \in Work
            /\ work[j].pc = "sweeping"
            /\ s \in work[j].doomed
            /\ \A t \in work[j].doomed : status[t] # "none"
            /\ Goto(j, w)
        BY <1>1, <2>2, WorkType DEF LoadSwept, SessionInv, WorkInv, StillRead
      <3>2. /\ w \in Work
            /\ w.pc = "sweeping"
            /\ w.session = s
            /\ w.doomed = work[j].doomed
        BY <3>1 DEF Work, Sessions
      <3> HIDE DEF w
      <3> QED BY <3>1, <3>2
    <2>3. CASE \/ LoadSwept(j, s) /\ status[s] \notin Live
               \/ FailSwept(j)
      <3>1. PICK t : Goto(j, Remaining(j, t))
        BY <2>3 DEF LoadSwept, FailSwept
      <3> QED BY <1>1, <3>1, RemainingIsHarmless DEF Harmless
    <2>4. CASE Reconcile(j)
      <3>1. Active \in SUBSET Sessions /\ \A t \in Active : status[t] # "none"
        BY DEF Active
      <3>2. Goto(j, Revoking(Active))
        BY <2>4 DEF Reconcile
      <3>3. Revoking(Active) \in Work
        BY <3>1 DEF Revoking, Work, Steps, Sessions
      <3> QED BY <3>1, <3>2, <3>3 DEF Revoking
    <2> QED BY <2>1, <2>2, <2>3, <2>4
  <1> QED BY <1>1, <1>2, <1>3, <1>4, QuietStep

LEMMA CrashStep ==
    ASSUME SessionInv, NEW p \in Processes, Crash(p)
    PROVE  SessionInv'
  <1> USE SessionAssumption
  <1>1. UNCHANGED <<tenant, rowVars, expired, stale>> /\ Goto(p, Idle)
    BY DEF Crash, clockVars
  <1>2. /\ tenant' \in {"active", "suspended"}
        /\ expired' \in [Sessions -> BOOLEAN]
        /\ stale' \in [Sessions -> BOOLEAN]
    BY <1>1 DEF SessionInv, TypeOK
  <1>3. Idle \in Work /\ Idle.pc = "idle" /\ Idle.doomed = {}
    BY DEF Idle, Work, Steps, Sessions
  <1> QED BY <1>1, <1>2, <1>3, QuietStep

LEMMA StillStep ==
    ASSUME SessionInv, Environment \/ UNCHANGED vars
    PROVE  SessionInv'
  <1>1. UNCHANGED <<rowVars, work>>
    BY DEF Environment, SuspendTenant, ReactivateTenant, SessionExpires,
           ClaimGoesStale, vars, rowVars
  <1>2. tenant' \in {"active", "suspended"}
    BY DEF Environment, SuspendTenant, ReactivateTenant, SessionExpires,
           ClaimGoesStale, vars, SessionInv, TypeOK
  <1>3. /\ expired' \in [Sessions -> BOOLEAN]
        /\ stale' \in [Sessions -> BOOLEAN]
    BY DEF Environment, SuspendTenant, ReactivateTenant, SessionExpires,
           ClaimGoesStale, vars, clockVars, SessionInv, TypeOK
  <1>4. TypeOK'
    BY <1>1, <1>2, <1>3 DEF SessionInv, TypeOK, rowVars
  <1>5. RowInv' /\ WorkInv' /\ HolderInv' /\ TipInv' /\ ReleaseInv'
    BY <1>1 DEF SessionInv, RowInv, WorkInv, StillRead, HolderInv, TipInv,
                ReleaseInv, Holding, rowVars
  <1> QED BY <1>4, <1>5 DEF SessionInv

LEMMA NextSession == SessionInv /\ [Next]_vars => SessionInv'
  <1> SUFFICES ASSUME SessionInv, [Next]_vars
               PROVE  SessionInv'
    OBVIOUS
  <1>1. ASSUME NEW r \in Requests, LoginNext(r)
        PROVE  SessionInv'
    <2>1. CASE Authenticate(r)
      <3>1. UNCHANGED <<tenant, rowVars, expired, stale>>
        BY <2>1 DEF Authenticate, clockVars
      <3>2. /\ tenant' \in {"active", "suspended"}
            /\ expired' \in [Sessions -> BOOLEAN]
            /\ stale' \in [Sessions -> BOOLEAN]
        BY <3>1 DEF SessionInv, TypeOK
      <3> DEFINE w == At("authenticated", 0)
      <3>3. w \in Work /\ w.pc = "authenticated" /\ w.doomed = {}
        BY SessionAssumption DEF At, Work, Steps, Sessions
      <3>4. Goto(r, w) /\ r \in Processes
        BY <2>1 DEF Authenticate, Processes
      <3> HIDE DEF w
      <3> QED BY <3>1, <3>2, <3>3, <3>4, QuietStep
    <2> QED BY <1>1, <2>1, AdmitStep, CommitLoginStep DEF LoginNext
  <1>2. ASSUME NEW r \in Requests, RefreshNext(r)
        PROVE  SessionInv'
    <2>1. CASE FailRefresh(r) \/ BeginRelease(r)
      <3>1. work[r].session \in Sessions
        BY <2>1 DEF FailRefresh, BeginRelease, SessionInv, WorkInv
      <3> QED BY <2>1, <3>1, RequestReads
    <2> QED BY <1>2, <2>1, RequestReads, ClaimStep, FinalizeStep, ReleaseStep
            DEF RefreshNext, EndRefresh
  <1>3. ASSUME NEW r \in Requests, NEW s \in Sessions, ReadNext(r, s)
        PROVE  SessionInv'
    BY <1>3, RequestReads
  <1>4. ASSUME NEW j \in Jobs, JobNext(j)
        PROVE  SessionInv'
    <2>1. CASE RevokeSwept(j)
      BY <2>1, RevokeSweptStep DEF Processes
    <2>2. CASE ScanSessions(j) \/ FailSwept(j) \/ Reconcile(j)
      <3>1. PICK s : s \in Sessions
        BY <2>2, WorkType DEF ScanSessions, FailSwept, Reconcile, Active,
           SessionInv, WorkInv, StillRead, Processes
      <3> QED BY <2>2, <3>1, JobReads
    <2> QED BY <1>4, <2>1, <2>2, JobReads DEF JobNext
  <1> QED BY <1>1, <1>2, <1>3, <1>4, RevokeStep, CrashStep,
             RevokeByReferenceStep, StillStep DEF Next

\* The rows, what processes hold of them and the chain of each login agree in
\* every reachable state: the induction behind all results below.
THEOREM SessionInvariant == Spec => []SessionInv
  BY InitSession, NextSession, PTL DEF Spec

-----------------------------------------------------------------------------
(* Results *)

\* Every reachable state of the session store is well-typed.
THEOREM SessionTypes == Spec => []TypeOK
  <1>1. SessionInv => TypeOK
    BY DEF SessionInv
  <1> QED BY <1>1, SessionInvariant, PTL

\* No login ever has two usable sessions, however refreshes, logouts,
\* evictions, sweeps and released claims interleave.
THEOREM LineageLinear == Spec => []LineageIsLinear
  <1>1. SessionInv => LineageIsLinear
    BY DEF SessionInv, LineageIsLinear, TipInv, RowInv, Live
  <1> QED BY <1>1, SessionInvariant, PTL

\* No two requests exchange the refresh token of one session at a time.
THEOREM ExchangesExclusive == Spec => []ExchangesAreExclusive
  <1>1. SessionInv => ExchangesAreExclusive
    BY DEF SessionInv, ExchangesAreExclusive, HolderInv, Holding, Holders
  <1> QED BY <1>1, SessionInvariant, PTL

\* A rotated or revoked session keeps no refresh credential.
THEOREM CredentialsDropped == Spec => []CredentialsAreDropped
  <1>1. SessionInv => CredentialsAreDropped
    BY DEF SessionInv, CredentialsAreDropped, RowInv
  <1> QED BY <1>1, SessionInvariant, PTL

\* What a step may do to the rows when no claim is ever released.
RowEffects ==
    \A s \in Sessions :
        /\ status[s] = "revoked" => status'[s] = "revoked" /\ child'[s] = child[s]
        /\ root[s] # 0 => root'[s] = root[s]
        /\ status'[s] \in Live =>
              \/ root[s] = 0 /\ root'[s] = s
              \/ \E t \in Sessions : status[t] \in Live /\ root'[s] = root[t]

LEMMA StepEffects ==
    ASSUME ~ConfigurationFaults, SessionInv, [Next]_vars
    PROVE  RowEffects
  <1> USE SessionAssumption DEF SessionInv
  <1>1. CASE UNCHANGED <<status, child, root>>
    BY <1>1 DEF RowEffects
  <1>2. ASSUME NEW r \in Requests, CommitLogin(r)
        PROVE  RowEffects
    <2> DEFINE n == work[r].session
               S == work[r].doomed
    <2>1. n \in Sessions /\ status[n] = "none" /\ root[n] = 0
      BY <1>2 DEF CommitLogin, WorkInv, RowInv
    <2>2. \A s \in Sessions :
              /\ status'[s] = IF s = n THEN "active"
                              ELSE IF s \in S THEN "revoked" ELSE status[s]
              /\ root'[s] = IF s = n THEN n ELSE root[s]
              /\ child'[s] = child[s]
      BY <1>2, <2>1 DEF CommitLogin, Revoked, TypeOK
    <2> HIDE DEF n, S
    <2> QED BY <2>1, <2>2 DEF RowEffects, Live
  <1>3. ASSUME NEW r \in Requests, ClaimRefresh(r)
        PROVE  RowEffects
    <2>1. work[r].session \in Sessions
      BY <1>3 DEF ClaimRefresh, WorkInv
    <2>2. CASE MayClaim(work[r].session)
      BY <1>3, <2>1, <2>2 DEF ClaimRefresh, MayClaim, RowEffects, Live, TypeOK
    <2>3. CASE ~MayClaim(work[r].session)
      BY <1>1, <1>3, <2>3 DEF ClaimRefresh
    <2> QED BY <2>2, <2>3
  <1>4. ASSUME NEW r \in Requests, FinalizeRefresh(r)
        PROVE  RowEffects
    <2> DEFINE s == work[r].session
    <2>1. s \in Sessions
      BY <1>4 DEF FinalizeRefresh, WorkInv
    <2>2. CASE status[s] = "refreshing"
      <3>1. /\ next \in Sessions
            /\ status[next] = "none"
            /\ root[next] = 0
        BY <1>4, <2>2 DEF FinalizeRefresh, Mint, TypeOK, Sessions, RowInv
      <3>2. \A t \in Sessions :
                /\ status'[t] = IF t = next THEN "active"
                                ELSE IF t = s THEN "rotated" ELSE status[t]
                /\ child'[t] = IF t = s THEN next ELSE child[t]
                /\ root'[t] = IF t = next THEN root[s] ELSE root[t]
        BY <1>4, <2>1, <2>2, <3>1 DEF FinalizeRefresh, Mint, TypeOK
      <3> HIDE DEF s
      <3> QED BY <2>1, <2>2, <3>1, <3>2 DEF RowEffects, Live
    <2>3. CASE status[s] # "refreshing"
      BY <1>1, <1>4, <2>3 DEF FinalizeRefresh, rowVars
    <2> QED BY <2>2, <2>3
  <1>5. ASSUME NEW r \in Requests, Release(r)
        PROVE  RowEffects
    BY <1>5 DEF Release, ReleaseInv
  <1>6. ASSUME NEW p \in Processes, Revoke(p)
        PROVE  RowEffects
    BY <1>6 DEF Revoke, Revoked, RowEffects, Live
  <1>7. ASSUME NEW s \in Sessions, RevokeByReference(s)
        PROVE  RowEffects
    BY <1>7 DEF RevokeByReference, Revoked, RowEffects, Live
  <1>8. ASSUME NEW r \in Requests,
               \/ Authenticate(r) \/ Admit(r) \/ FailRefresh(r)
               \/ BeginRelease(r)
               \/ \E s \in Sessions : BeginRefresh(r, s) \/ ReadNext(r, s)
        PROVE  RowEffects
    BY <1>1, <1>8 DEF Authenticate, Admit, FailRefresh, BeginRelease,
       BeginRefresh, ReadNext, ReadExpired, ReadBlocked, ReadUnreadable,
       ReadLogout, rowVars
  <1>9. ASSUME NEW j \in Jobs, JobNext(j)
        PROVE  RowEffects
    <2>1. CASE RevokeSwept(j)
      BY <2>1 DEF RevokeSwept, Revoked, RowEffects, Live
    <2> QED BY <1>1, <1>9, <2>1 DEF JobNext, ScanSessions, LoadSwept,
               FailSwept, Reconcile, rowVars
  <1>10. ASSUME NEW p \in Processes, Crash(p)
         PROVE  RowEffects
    BY <1>1, <1>10 DEF Crash, rowVars
  <1>11. ASSUME Environment \/ UNCHANGED vars
         PROVE  RowEffects
    BY <1>1, <1>11 DEF Environment, SuspendTenant, ReactivateTenant,
       SessionExpires, ClaimGoesStale, rowVars, vars
  <1> QED BY <1>2, <1>3, <1>4, <1>5, <1>6, <1>7, <1>8, <1>9, <1>10, <1>11
          DEF Next, LoginNext, RefreshNext, EndRefresh

\* While the token exchange reports no configuration error, nothing takes a
\* session out of "revoked" or hangs a new session on it.
THEOREM RevocationFinal ==
    ASSUME ~ConfigurationFaults
    PROVE  Spec => RevocationStands
  <1>1. SessionInv /\ [Next]_vars =>
            [\A s \in Sessions :
                status[s] = "revoked" =>
                    status'[s] = "revoked" /\ child'[s] = child[s]]_vars
    BY StepEffects DEF RowEffects
  <1> QED BY <1>1, SessionInvariant, PTL DEF Spec, RevocationStands

\* While the token exchange reports no configuration error, a login whose
\* sessions have all ended never has a usable one again.
THEOREM EndedLoginsEnd ==
    ASSUME ~ConfigurationFaults
    PROVE  Spec => EndedLoginsStayEnded
  <1>1. ASSUME SessionInv, [Next]_vars,
               NEW s \in Sessions, Created(s),
               root[s] \notin LiveLogins, root[s] \in LiveLogins'
        PROVE  FALSE
    <2>1. PICK t \in Sessions : status'[t] \in Live /\ root'[t] = root[s]
      BY <1>1 DEF LiveLogins
    <2>2. RowEffects
      BY <1>1, StepEffects
    <2>3. ~ \E u \in Sessions : status[u] \in Live /\ root'[t] = root[u]
      BY <1>1, <2>1 DEF LiveLogins
    <2>4. root[t] = 0 /\ root'[t] = t
      BY <2>1, <2>2, <2>3 DEF RowEffects
    <2>5. root[root[s]] # 0
      BY <1>1 DEF SessionInv, RowInv, Created
    <2> QED BY <2>1, <2>4, <2>5
  <1>2. SessionInv /\ [Next]_vars =>
            [\A s \in Sessions :
                Created(s) /\ root[s] \notin LiveLogins
                    => root[s] \notin LiveLogins']_vars
    BY <1>1
  <1> QED BY <1>2, SessionInvariant, PTL DEF Spec, EndedLoginsStayEnded

-----------------------------------------------------------------------------
(* The concurrent-session cap *)

\* Of a finite set of ids, at most m - 1 have fewer than m - 1 others above
\* them: what Excess leaves of the active sessions makes room for one more.
LEMMA NewestFew ==
    ASSUME NEW A \in SUBSET Nat, IsFiniteSet(A), NEW m \in Nat, m > 0
    PROVE  LET Kept == {s \in A : ~(Cardinality({t \in A : t < s}) + m < Cardinality(A) + 1)}
           IN  IsFiniteSet(Kept) /\ Cardinality(Kept) < m
  <1> DEFINE below(s) == {t \in A : t < s}
             rank(s) == Cardinality(below(s))
             n == Cardinality(A)
             Kept == {s \in A : ~(rank(s) + m < n + 1)}
             low == IF n + 1 > m THEN n + 1 - m ELSE 0
             f == [s \in Kept |-> rank(s)]
  <1>1. n \in Nat
    BY FS_CardinalityType
  <1>2. ASSUME NEW s \in A PROVE IsFiniteSet(below(s)) /\ rank(s) \in Nat
    BY FS_Subset, FS_CardinalityType
  <1>3. ASSUME NEW s \in A, NEW t \in A, s < t PROVE rank(s) < rank(t)
    <2>1. below(s) \cup {s} \subseteq below(t) /\ s \notin below(s)
      <3>1. \A u \in A : u < s => u < t
        BY <1>3
      <3>2. ~(s < s)
        OBVIOUS
      <3> QED BY <1>3, <3>1, <3>2
    <2> HIDE DEF below
    <2>2. /\ IsFiniteSet(below(s) \cup {s})
          /\ Cardinality(below(s) \cup {s}) = rank(s) + 1
      BY <1>2, <2>1, FS_AddElement
    <2>3. IsFiniteSet(below(t)) /\ below(s) \cup {s} \in SUBSET below(t)
      BY <1>2, <2>1
    <2>4. Cardinality(below(s) \cup {s}) <= Cardinality(below(t))
      BY <2>3, FS_Subset, Zenon
    <2> QED BY <1>2, <2>2, <2>4
  <1>4. ASSUME NEW s \in A PROVE rank(s) < n
    <2>1. below(s) \in SUBSET A /\ s \notin below(s)
      OBVIOUS
    <2> HIDE DEF below
    <2>2. rank(s) <= n /\ (n = rank(s) => A = below(s))
      BY <2>1, FS_Subset
    <2> QED BY <1>1, <1>2, <2>1, <2>2
  <1> HIDE DEF rank, n
  <1>5. low \in Nat /\ n - low <= m - 1
    BY <1>1
  <1>6. \A s \in Kept : rank(s) \in low .. (n - 1)
    <2> SUFFICES ASSUME NEW s \in A, ~(rank(s) + m < n + 1)
                 PROVE  rank(s) \in low .. (n - 1)
      OBVIOUS
    <2>1. rank(s) \in Nat /\ rank(s) < n
      BY <1>2, <1>4
    <2> QED BY <1>1, <2>1
  <1> HIDE DEF low
  <1>7. f \in Injection(Kept, low .. (n - 1))
    <2>1. f \in [Kept -> low .. (n - 1)]
      BY <1>6
    <2>2. \A s, t \in Kept : f[s] = f[t] => s = t
      <3> SUFFICES ASSUME NEW s \in Kept, NEW t \in Kept, f[s] = f[t], s # t
                   PROVE  FALSE
        OBVIOUS
      <3>1. s \in A /\ t \in A /\ rank(s) = rank(t)
        OBVIOUS
      <3>2. s < t \/ t < s
        BY <3>1
      <3>3. rank(s) \in Nat /\ rank(t) \in Nat
        BY <1>2, <3>1
      <3> HIDE DEF Kept, f
      <3>4. CASE s < t
        BY <1>3, <3>1, <3>3, <3>4
      <3>5. CASE t < s
        BY <1>3, <3>1, <3>3, <3>5
      <3> QED BY <3>2, <3>4, <3>5
    <2>3. DOMAIN f = Kept
      OBVIOUS
    <2> HIDE DEF f, Kept
    <2> QED BY <2>1, <2>2, <2>3 DEF Injection, IsInjective
  <1>8. /\ IsFiniteSet(low .. (n - 1))
        /\ Cardinality(low .. (n - 1)) = IF low > n - 1 THEN 0 ELSE n - 1 - low + 1
    BY <1>1, <1>5, FS_Interval
  <1> HIDE DEF f, Kept
  <1>9. IsFiniteSet(Kept) /\ Cardinality(Kept) <= Cardinality(low .. (n - 1))
    BY <1>7, <1>8, FS_Injection
  <1>10. Cardinality(Kept) \in Nat
    BY <1>9, FS_CardinalityType
  <1>11. IsFiniteSet(Kept) /\ Cardinality(Kept) < m
    BY <1>1, <1>5, <1>8, <1>9, <1>10
  <1> QED BY <1>11 DEF Kept, rank, n

Logins == {s \in Active : root[s] = s}

\* The active sessions that came from a login are within the cap, and a login
\* between its count and its insert has doomed enough of them to fit.
CapInv ==
    MaxConcurrent > 0 =>
        /\ Cardinality(Logins) <= MaxConcurrent
        /\ \A r \in Requests :
              work[r].pc = "admitting"
                  => Cardinality(Logins \ work[r].doomed) < MaxConcurrent

LEMMA FewLogins ==
    /\ Sessions \in SUBSET Nat
    /\ IsFiniteSet(Sessions)
    /\ Active \subseteq Sessions
    /\ Logins \subseteq Sessions
  <1>1. IsFiniteSet(1 .. MaxSessions)
    BY SessionAssumption, FS_Interval
  <1> QED BY <1>1, SessionAssumption DEF Sessions, Active, Logins

LEMMA FewerLogins ==
    ASSUME NEW S \in SUBSET Sessions, NEW T \in SUBSET S
    PROVE  /\ IsFiniteSet(S)
           /\ IsFiniteSet(T)
           /\ Cardinality(T) \in Nat
           /\ Cardinality(S) \in Nat
           /\ Cardinality(T) <= Cardinality(S)
  <1>1. IsFiniteSet(S)
    BY FewLogins, FS_Subset
  <1>2. IsFiniteSet(T) /\ Cardinality(T) <= Cardinality(S)
    BY <1>1, FS_Subset
  <1> QED BY <1>1, <1>2, FS_CardinalityType

LEMMA OneMore ==
    ASSUME NEW S, IsFiniteSet(S), NEW x
    PROVE  /\ IsFiniteSet(S \cup {x})
           /\ Cardinality(S \cup {x}) <= Cardinality(S) + 1
  <1>1. Cardinality(S) \in Nat
    BY FS_CardinalityType
  <1>2. /\ IsFiniteSet(S \cup {x})
        /\ Cardinality(S \cup {x}) = IF x \in S THEN Cardinality(S) ELSE Cardinality(S) + 1
    BY FS_AddElement
  <1> QED BY <1>1, <1>2

\* A step that makes no active session of a login and starts no admission.
AddsNoLogin ==
    /\ Logins' \subseteq Logins
    /\ \A r \in Requests : work'[r].pc = "admitting" => work'[r] = work[r]

\* Only a login's commit adds to the sessions that came from a login: what a
\* refresh mints descends from an older one.
LEMMA LoginSteps ==
    ASSUME ~ConfigurationFaults, SessionInv, [Next]_vars
    PROVE  \/ AddsNoLogin
           \/ \E r \in Requests : Admit(r) \/ CommitLogin(r)
  <1> USE SessionAssumption DEF SessionInv
  <1>1. ASSUME UNCHANGED <<status, root>> PROVE Logins' \subseteq Logins
    BY <1>1 DEF Logins, Active
  <1>2. ASSUME NEW S, status' = Revoked(S), UNCHANGED root
        PROVE  Logins' \subseteq Logins
    BY <1>2 DEF Logins, Active, Revoked
  <1>3. ASSUME NEW p, NEW w, Goto(p, w), w.pc # "admitting"
        PROVE  \A r \in Requests : work'[r].pc = "admitting" => work'[r] = work[r]
    BY <1>3 DEF Goto, TypeOK, Processes
  <1>4. /\ Idle.pc # "admitting"
        /\ \A S : Revoking(S).pc # "admitting"
        /\ \A pc, s : pc # "admitting" => At(pc, s).pc # "admitting"
        /\ \A j, s : Remaining(j, s).pc # "admitting"
    BY DEF Idle, Revoking, At, Remaining
  <1>5. ASSUME NEW r \in Requests, ClaimRefresh(r)
        PROVE  AddsNoLogin
    <2>1. \A q \in Requests : work'[q].pc = "admitting" => work'[q] = work[q]
      BY <1>3, <1>4, <1>5 DEF ClaimRefresh
    <2>2. work[r].session \in Sessions
      BY <1>5 DEF ClaimRefresh, WorkInv
    <2>3. Logins' \subseteq Logins
      BY <1>5, <2>2 DEF ClaimRefresh, Logins, Active, TypeOK
    <2> QED BY <2>1, <2>3 DEF AddsNoLogin
  <1>6. ASSUME NEW r \in Requests, FinalizeRefresh(r)
        PROVE  AddsNoLogin
    <2> DEFINE s == work[r].session
    <2>1. \A q \in Requests : work'[q].pc = "admitting" => work'[q] = work[q]
      BY <1>3, <1>4, <1>6 DEF FinalizeRefresh
    <2>2. s \in Sessions
      BY <1>6 DEF FinalizeRefresh, WorkInv
    <2>3. CASE status[s] = "refreshing"
      <3>1. /\ next \in Sessions
            /\ status[next] = "none"
            /\ root[next] = 0
            /\ root[s] # 0
            /\ root[root[s]] # 0
        BY <1>6, <2>2, <2>3 DEF FinalizeRefresh, Mint, TypeOK, Sessions, RowInv
      <3>2. \A t \in Sessions :
                /\ status'[t] = IF t = next THEN "active"
                                ELSE IF t = s THEN "rotated" ELSE status[t]
                /\ root'[t] = IF t = next THEN root[s] ELSE root[t]
        BY <1>6, <2>2, <2>3, <3>1 DEF FinalizeRefresh, Mint, TypeOK
      <3> HIDE DEF s
      <3>3. Logins' \subseteq Logins
        BY <3>1, <3>2 DEF Logins, Active
      <3> QED BY <2>1, <3>3 DEF AddsNoLogin
    <2>4. CASE status[s] # "refreshing"
      BY <1>1, <1>6, <2>1, <2>4 DEF FinalizeRefresh, rowVars, AddsNoLogin
    <2> QED BY <2>3, <2>4
  <1>7. ASSUME NEW r \in Requests, Release(r)
        PROVE  AddsNoLogin
    BY <1>7 DEF Release, ReleaseInv
  <1>8. ASSUME NEW p \in Processes, Revoke(p)
        PROVE  AddsNoLogin
    BY <1>2, <1>3, <1>4, <1>8 DEF Revoke, AddsNoLogin
  <1>9. ASSUME NEW s \in Sessions, RevokeByReference(s)
        PROVE  AddsNoLogin
    BY <1>2, <1>9 DEF RevokeByReference, AddsNoLogin
  <1>10. ASSUME NEW r \in Requests,
                \/ Authenticate(r) \/ FailRefresh(r) \/ BeginRelease(r)
                \/ \E s \in Sessions : BeginRefresh(r, s) \/ ReadNext(r, s)
         PROVE  AddsNoLogin
    <2>1. UNCHANGED <<status, root>>
      BY <1>10 DEF Authenticate, FailRefresh, BeginRelease, BeginRefresh,
         ReadNext, ReadExpired, ReadBlocked, ReadUnreadable, ReadLogout, rowVars
    <2>2. \E w : Goto(r, w) /\ w.pc # "admitting"
      <3>1. CASE Authenticate(r)
        BY <1>4, <3>1 DEF Authenticate
      <3>2. CASE FailRefresh(r)
        BY <1>4, <3>2 DEF FailRefresh
      <3>3. CASE BeginRelease(r)
        BY <1>4, <3>3 DEF BeginRelease
      <3>4. CASE \E s \in Sessions : BeginRefresh(r, s)
        BY <1>4, <3>4 DEF BeginRefresh
      <3>5. CASE \E s \in Sessions : ReadNext(r, s)
        BY <1>4, <3>5 DEF ReadNext, ReadExpired, ReadBlocked, ReadUnreadable,
           ReadLogout
      <3> QED BY <1>10, <3>1, <3>2, <3>3, <3>4, <3>5
    <2> QED BY <1>1, <1>3, <2>1, <2>2 DEF AddsNoLogin
  <1>11. ASSUME NEW j \in Jobs, JobNext(j)
         PROVE  AddsNoLogin
    <2>1. \A s \in Sessions :
              work[j].pc = "sweeping" => [work[j] EXCEPT !.session = s].pc # "admitting"
      BY DEF TypeOK, Processes, Work
    <2>2. \E w : Goto(j, w) /\ w.pc # "admitting"
      <3>1. CASE ScanSessions(j)
        BY <3>1 DEF ScanSessions
      <3>2. CASE RevokeSwept(j) \/ FailSwept(j)
        BY <1>4, <3>2 DEF RevokeSwept, FailSwept
      <3>3. CASE Reconcile(j)
        BY <1>4, <3>3 DEF Reconcile
      <3>4. CASE \E s \in Sessions : LoadSwept(j, s)
        BY <1>4, <2>1, <3>4 DEF LoadSwept
      <3> QED BY <1>11, <3>1, <3>2, <3>3, <3>4 DEF JobNext
    <2>3. Logins' \subseteq Logins
      <3>1. CASE RevokeSwept(j)
        BY <1>2, <3>1 DEF RevokeSwept
      <3> QED BY <1>1, <1>11, <3>1 DEF JobNext, ScanSessions, LoadSwept,
                 FailSwept, Reconcile, rowVars
    <2> QED BY <1>3, <2>2, <2>3 DEF AddsNoLogin
  <1>12. ASSUME NEW p \in Processes, Crash(p)
         PROVE  AddsNoLogin
    BY <1>1, <1>3, <1>4, <1>12 DEF Crash, rowVars, AddsNoLogin
  <1>13. ASSUME Environment \/ UNCHANGED vars
         PROVE  AddsNoLogin
    BY <1>1, <1>13 DEF Environment, SuspendTenant, ReactivateTenant,
       SessionExpires, ClaimGoesStale, rowVars, vars, AddsNoLogin
  <1> QED BY <1>5, <1>6, <1>7, <1>8, <1>9, <1>10, <1>11, <1>12, <1>13
          DEF Next, LoginNext, RefreshNext, EndRefresh

LEMMA AdmitLeavesRoom ==
    ASSUME SessionInv, MaxConcurrent > 0
    PROVE  Cardinality(Logins \ Excess) < MaxConcurrent
  <1> DEFINE kept == {s \in Active : ~(Cardinality({t \in Active : t < s}) + MaxConcurrent
                                           < Cardinality(Active) + 1)}
  <1>1. Active \in SUBSET Nat /\ IsFiniteSet(Active)
    BY FewLogins, FS_Subset
  <1>2. IsFiniteSet(kept) /\ Cardinality(kept) < MaxConcurrent
    BY <1>1, SessionAssumption, NewestFew
  <1>3. Logins \ Excess \in SUBSET kept /\ kept \in SUBSET Sessions
    BY FewLogins DEF Logins, Excess
  <1> HIDE DEF kept
  <1>4. Cardinality(Logins \ Excess) <= Cardinality(kept)
        /\ Cardinality(Logins \ Excess) \in Nat
        /\ Cardinality(kept) \in Nat
    BY <1>3, FewerLogins
  <1> QED BY <1>2, <1>4, SessionAssumption

LEMMA NextCap ==
    ASSUME ~ConfigurationFaults, SessionInv, CapInv, [Next]_vars
    PROVE  CapInv'
  <1> USE SessionAssumption
  <1> SUFFICES ASSUME MaxConcurrent > 0
               PROVE  /\ Cardinality(Logins') <= MaxConcurrent
                      /\ \A r \in Requests :
                            work'[r].pc = "admitting"
                                => Cardinality(Logins' \ work'[r].doomed) < MaxConcurrent
    BY DEF CapInv
  <1>1. Requests \subseteq Processes /\ Logins \in SUBSET Sessions
    BY FewLogins DEF Processes
  <1>2. CASE AddsNoLogin
    <2>1. Logins' \in SUBSET Logins
      BY <1>2 DEF AddsNoLogin
    <2>2. /\ Cardinality(Logins') <= Cardinality(Logins)
          /\ Cardinality(Logins') \in Nat
          /\ Cardinality(Logins) \in Nat
      BY <1>1, <2>1, FewerLogins
    <2>3. ASSUME NEW r \in Requests, work'[r].pc = "admitting"
          PROVE  Cardinality(Logins' \ work'[r].doomed) < MaxConcurrent
      <3>1. work'[r] = work[r]
        BY <1>2, <2>3 DEF AddsNoLogin
      <3>2. Logins' \ work[r].doomed \in SUBSET (Logins \ work[r].doomed)
            /\ Logins \ work[r].doomed \in SUBSET Sessions
        BY <1>1, <2>1
      <3>3. /\ Cardinality(Logins' \ work[r].doomed) <= Cardinality(Logins \ work[r].doomed)
            /\ Cardinality(Logins' \ work[r].doomed) \in Nat
            /\ Cardinality(Logins \ work[r].doomed) \in Nat
        BY <3>2, FewerLogins
      <3>4. Cardinality(Logins \ work[r].doomed) < MaxConcurrent
        BY <2>3, <3>1 DEF CapInv
      <3> QED BY <3>1, <3>3, <3>4
    <2>4. Cardinality(Logins) <= MaxConcurrent
      BY DEF CapInv
    <2> QED BY <2>2, <2>3, <2>4
  <1>3. ASSUME NEW r \in Requests, Admit(r)
        PROVE  /\ Cardinality(Logins') <= MaxConcurrent
               /\ \A q \in Requests :
                     work'[q].pc = "admitting"
                         => Cardinality(Logins' \ work'[q].doomed) < MaxConcurrent
    <2>1. Logins' = Logins
      BY <1>3 DEF Admit, Logins, Active
    <2>2. \A q \in Requests :
              work'[q].pc = "admitting" => work'[q].doomed = Excess
      <3>1. work' = [work EXCEPT ![r] = [pc |-> "admitting", session |-> next,
                                         doomed |-> Excess]]
        BY <1>3 DEF Admit, Goto
      <3>2. \A q \in Requests : work[q].pc # "admitting"
        BY <1>3 DEF Admit, Admitting
      <3> QED BY <1>1, <3>1, <3>2 DEF SessionInv, TypeOK
    <2>3. Cardinality(Logins \ Excess) < MaxConcurrent
      BY AdmitLeavesRoom
    <2> QED BY <2>1, <2>2, <2>3 DEF CapInv
  <1>4. ASSUME NEW r \in Requests, CommitLogin(r)
        PROVE  /\ Cardinality(Logins') <= MaxConcurrent
               /\ \A q \in Requests :
                     work'[q].pc = "admitting"
                         => Cardinality(Logins' \ work'[q].doomed) < MaxConcurrent
    <2> DEFINE n == work[r].session
               S == work[r].doomed
    <2>1. n \in Sessions /\ status[n] = "none" /\ root[n] = 0
      BY <1>4 DEF CommitLogin, SessionInv, WorkInv, RowInv
    <2>2. \A s \in Sessions :
              /\ status'[s] = IF s = n THEN "active"
                              ELSE IF s \in S THEN "revoked" ELSE status[s]
              /\ root'[s] = IF s = n THEN n ELSE root[s]
      BY <1>4, <2>1 DEF CommitLogin, Revoked, SessionInv, TypeOK
    <2>3. \A q \in Requests : work'[q].pc # "admitting"
      <3>1. \A q \in Requests : work[q].pc = "admitting" => q = r
        BY <1>4 DEF CommitLogin, SessionInv, WorkInv
      <3> QED BY <1>1, <1>4, <3>1 DEF CommitLogin, Goto, SessionInv, TypeOK, Idle
    <2>4. Cardinality(Logins \ S) < MaxConcurrent
      BY <1>4 DEF CommitLogin, CapInv
    <2> HIDE DEF n, S
    <2>5. Logins' \subseteq (Logins \ S) \cup {n}
      BY <2>1, <2>2 DEF Logins, Active
    <2>6. IsFiniteSet(Logins \ S) /\ Cardinality(Logins \ S) \in Nat
      BY <1>1, FewerLogins
    <2>7. /\ IsFiniteSet((Logins \ S) \cup {n})
          /\ Cardinality((Logins \ S) \cup {n}) <= Cardinality(Logins \ S) + 1
      BY <2>6, OneMore
    <2>8. /\ Cardinality(Logins') <= Cardinality((Logins \ S) \cup {n})
          /\ Cardinality(Logins') \in Nat
          /\ Cardinality((Logins \ S) \cup {n}) \in Nat
      <3>1. (Logins \ S) \cup {n} \in SUBSET Sessions
        BY <1>1, <2>1
      <3>2. Logins' \in SUBSET ((Logins \ S) \cup {n})
        BY <2>5
      <3> QED BY <3>1, <3>2, FewerLogins
    <2>9. Cardinality(Logins') <= MaxConcurrent
      BY <2>4, <2>6, <2>7, <2>8
    <2> QED BY <2>3, <2>9
  <1> QED BY <1>2, <1>3, <1>4, LoginSteps

\* While the token exchange reports no configuration error, concurrent logins
\* never leave more active sessions of logins than the cap: the count under
\* the admission lock stays good until the insert, whatever the refreshes,
\* revocations and sweeps beside it do.
THEOREM LoginsWithinCap ==
    ASSUME ~ConfigurationFaults
    PROVE  Spec => []LoginsRespectCap
  <1>1. Init => CapInv
    <2> SUFFICES ASSUME Init, MaxConcurrent > 0
                 PROVE  /\ Cardinality(Logins) <= MaxConcurrent
                        /\ \A r \in Requests : work[r].pc # "admitting"
      BY DEF CapInv
    <2>1. Logins = {}
      BY DEF Init, Logins, Active
    <2>2. Cardinality({}) = 0
      BY FS_EmptySet
    <2> QED BY <2>1, <2>2, SessionAssumption DEF Init, Idle, Processes
  <1>2. CapInv => LoginsRespectCap
    BY DEF CapInv, LoginsRespectCap, Logins
  <1>3. SessionInv /\ CapInv /\ [Next]_vars => CapInv'
    BY NextCap
  <1> QED BY <1>1, <1>2, <1>3, SessionInvariant, PTL DEF Spec
=============================================================================
