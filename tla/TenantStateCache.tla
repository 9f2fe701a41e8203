-------------------------- MODULE TenantStateCache --------------------------
(***************************************************************************)
(* The cache of one API process for the status and the quotas of a tenant, *)
(* on the path of every authenticated request.  Lookups run in threads and *)
(* are not serialised: one may load the row, be overtaken by a change and  *)
(* its invalidation, and store what it loaded afterwards.                  *)
(*                                                                         *)
(* A state of the tenant is the number of changes that led to it: of its   *)
(* status or of its quotas, which are loaded by two statements and are     *)
(* followed one at a time.  Times are readings of one clock.               *)
(***************************************************************************)
EXTENDS Naturals

CONSTANTS
    Lookups,          \* threads that look the tenant up
    Ttl,              \* tenant_state_cache_ttl_seconds
    MaxClock,         \* bound: clock readings
    MaxTenantChanges  \* bound: lifecycle and quota changes

ASSUME CacheAssumption ==
    Ttl \in Nat /\ MaxClock \in Nat /\ MaxTenantChanges \in Nat

VARIABLES
    clock,
    changes,     \* changes of the tenant that are committed
    until,       \* history: state -> when it was replaced
    notices,     \* committed changes of this process that have yet to invalidate
    cached,      \* the entry of the tenant
    lookup       \* thread -> its lookup

cacheVars == <<clock, changes, until, notices, cached, lookup>>

NoEntry == [state |-> 0, expires |-> 0]
NoLookup == [pc |-> "idle", at |-> 0, state |-> 0]

CacheInit ==
    /\ clock = 0
    /\ changes = 0
    /\ until = [v \in 0 .. MaxTenantChanges |-> 0]
    /\ notices = 0
    /\ cached = NoEntry
    /\ lookup = [l \in Lookups |-> NoLookup]

Tick ==
    /\ clock < MaxClock
    /\ clock' = clock + 1
    /\ UNCHANGED <<changes, until, notices, cached, lookup>>

\* Provisioning, suspension, reactivation or a quota commits, here or in
\* another process; only the former invalidates, once it has committed.
ChangeTenant(here) ==
    /\ changes < MaxTenantChanges
    /\ until' = [until EXCEPT ![changes] = clock]
    /\ changes' = changes + 1
    /\ notices' = IF here THEN notices + 1 ELSE notices
    /\ UNCHANGED <<clock, cached, lookup>>

Invalidate ==
    /\ notices > 0
    /\ notices' = notices - 1
    /\ cached' = NoEntry
    /\ UNCHANGED <<clock, changes, until, lookup>>

\* The entry makes room for another tenant.
Evict ==
    /\ cached # NoEntry
    /\ cached' = NoEntry
    /\ UNCHANGED <<clock, changes, until, notices, lookup>>

Sets(l, w) == lookup' = [lookup EXCEPT ![l] = w]

\* Fault: an entry is good as long as it is there.
EntryExists(at) == cached # NoEntry

EntryIsFresh(at) == at < cached.expires

\* The clock is read before anything else.
ReadClock(l) ==
    /\ lookup[l].pc = "idle"
    /\ Sets(l, [pc |-> "look", at |-> clock, state |-> 0])
    /\ UNCHANGED <<clock, changes, until, notices, cached>>

LookUp(l) ==
    /\ lookup[l].pc = "look"
    /\ Sets(l, IF EntryIsFresh(lookup[l].at)
               THEN [lookup[l] EXCEPT !.pc = "answer", !.state = cached.state]
               ELSE [lookup[l] EXCEPT !.pc = "load"])
    /\ UNCHANGED <<clock, changes, until, notices, cached>>

LoadState(l) ==
    /\ lookup[l].pc = "load"
    /\ Sets(l, [lookup[l] EXCEPT !.pc = "store", !.state = changes])
    /\ UNCHANGED <<clock, changes, until, notices, cached>>

\* Fault: the life of an entry starts when it is stored.
ExpiryFromStore(l) == clock + Ttl

ExpiryOf(l) == lookup[l].at + Ttl

\* An older lookup may replace the entry of a newer one.
StoreState(l) ==
    /\ lookup[l].pc = "store"
    /\ cached' = IF Ttl > 0 THEN [state |-> lookup[l].state, expires |-> ExpiryOf(l)]
                 ELSE cached
    /\ Sets(l, [lookup[l] EXCEPT !.pc = "answer"])
    /\ UNCHANGED <<clock, changes, until, notices>>

\* The request is admitted or denied; or the lookup has failed.
EndLookup(l) ==
    /\ lookup[l].pc \in {"load", "answer"}
    /\ Sets(l, NoLookup)
    /\ UNCHANGED <<clock, changes, until, notices, cached>>

CacheNext ==
    \/ Tick \/ Invalidate \/ Evict
    \/ \E here \in BOOLEAN : ChangeTenant(here)
    \/ \E l \in Lookups :
        \/ ReadClock(l) \/ LookUp(l) \/ LoadState(l)
        \/ StoreState(l) \/ EndLookup(l)

CacheSpec == CacheInit /\ [][CacheNext]_cacheVars

-----------------------------------------------------------------------------
\* A request is judged by a state of its tenant that was in force when the
\* request came or less than the time to live before, whoever made the change
\* and however loads, stores and invalidations overtake each other.
StalenessIsBounded ==
    \A l \in Lookups :
        lookup[l].pc = "answer" /\ lookup[l].state < changes =>
            LET replaced == until[lookup[l].state]
            IN  lookup[l].at <= replaced \/ lookup[l].at < replaced + Ttl
=============================================================================
