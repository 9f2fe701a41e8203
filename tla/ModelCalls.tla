----------------------------- MODULE ModelCalls -----------------------------
(***************************************************************************)
(* Model invocations and the agent runs that make one.  A direct           *)
(* invocation commits its row before the provider is called and records    *)
(* the outcome in a transaction of its own.  An agent run is one           *)
(* transaction from the insert of the run to its result, with the          *)
(* invocation and the proposed action run inside; the keys of those two    *)
(* are made of the id of the run and are never contended.                  *)
(*                                                                         *)
(* A refusal before anything is inserted (permission, policy, routing,     *)
(* egress) leaves an audit event only and is left out.  Usage is metered.  *)
(***************************************************************************)
EXTENDS Naturals, Sequences

CONSTANTS
    CallKeys,   \* idempotency keys of direct invocations
    AgentKeys,  \* idempotency keys of the runs of one agent
    CallAsks,   \* what may be asked under a key
    Callers,    \* API requests in flight
    MaxRuns     \* bound: provider calls for one agent run key

ASSUME ModelCallsAssumption == CallKeys \cap AgentKeys = {} /\ MaxRuns \in Nat

VARIABLES
    invocation, \* key -> row of model_invocations, its audit and usage events
    agentRun,   \* key -> row of agent_runs with its steps
    caller,     \* request -> its progress and what its transaction holds
    calls,      \* history: key -> calls to the provider
    answers     \* replies that name an invocation or a run, and what was asked

callVars == <<invocation, agentRun, caller, calls, answers>>
callRows == <<invocation, agentRun, calls, answers>>

AskKeys == CallKeys \cup AgentKeys
Finished == {"completed", "failed", "deferred"}
NoInvocation == [ask |-> "none", status |-> "absent", audits |-> 0, usage |-> 0]
NoAgentRun == [ask |-> "none", status |-> "absent", steps |-> <<>>,
               invoked |-> FALSE, action |-> FALSE, usage |-> 0]
NoCaller == [pc |-> "idle", key |-> "none", ask |-> "none", open |-> FALSE,
             inv |-> NoInvocation, run |-> NoAgentRun]

ModelCallsInit ==
    /\ invocation = [k \in AskKeys |-> NoInvocation]
    /\ agentRun = [k \in AgentKeys |-> NoAgentRun]
    /\ caller = [c \in Callers |-> NoCaller]
    /\ calls = [k \in AskKeys |-> 0]
    /\ answers = {}

Turn(c, state) == caller' = [caller EXCEPT ![c] = state]

\* What is on record under a key.
OnRecord(k) == IF k \in AgentKeys THEN agentRun[k] ELSE invocation[k]
Known(k) == OnRecord(k).status # "absent"

\* The stored record is answered again; another ask is a conflict.
AnswerFromRecord(c, k, ask) ==
    /\ answers' = IF OnRecord(k).ask = ask
                  THEN answers \cup {[key |-> k, ask |-> ask]} ELSE answers
    /\ Turn(c, NoCaller)
    /\ UNCHANGED <<invocation, agentRun, calls>>

\* The first read of invoke_model or of start_agent_run.
Receive(c, k, ask) ==
    /\ caller[c].pc = "idle" /\ (Known(k) \/ calls[k] < MaxRuns)
    /\ IF Known(k) THEN AnswerFromRecord(c, k, ask)
       ELSE /\ Turn(c, [NoCaller EXCEPT !.key = k, !.ask = ask,
                            !.pc = IF k \in AgentKeys THEN "insert" ELSE "prepare"])
            /\ UNCHANGED callRows

\* An insert waits for an open transaction that has inserted the same key.
MayInsert(c) ==
    \A d \in Callers \ {c} : ~(caller[d].open /\ caller[d].key = caller[c].key)

-----------------------------------------------------------------------------
(* An agent run up to its model call *)

\* The loser of a race is not answered: its unique violation is not caught.
InsertAgentRun(c) ==
    /\ caller[c].pc = "insert" /\ MayInsert(c)
    /\ Turn(c, IF Known(caller[c].key) THEN NoCaller
               ELSE [caller[c] EXCEPT !.pc = "context", !.open = TRUE,
                        !.run = [NoAgentRun EXCEPT !.ask = caller[c].ask,
                                                   !.status = "requested"]])
    /\ UNCHANGED callRows

Stepped(run, type, status) ==
    [run EXCEPT !.steps = Append(@, [type |-> type, status |-> status])]

\* _RunExecution.finalize, and the usage of a run that was executed.
Ended(c, run, status, usage) ==
    [caller[c] EXCEPT !.pc = "commit",
                      !.run = [run EXCEPT !.status = status, !.usage = usage]]

ExecutionDisabled(c) ==
    /\ caller[c].pc = "context"
    /\ Turn(c, Ended(c, caller[c].run, "deferred", 0))
    /\ UNCHANGED callRows

ReadContext(c, granted) ==
    /\ caller[c].pc = "context"
    /\ Turn(c, IF granted
               THEN [caller[c] EXCEPT !.pc = "model",
                        !.run = Stepped(@, "context", "completed")]
               ELSE Ended(c, Stepped(caller[c].run, "context", "failed"), "failed", 1))
    /\ UNCHANGED callRows

\* The budget of calls is used up, or the router refuses the invocation.
RouteInvocation(c, verdict) ==
    /\ caller[c].pc = "model"
    /\ Turn(c, IF verdict = "allowed" THEN [caller[c] EXCEPT !.pc = "prepare"]
               ELSE Ended(c, Stepped(caller[c].run, "model", verdict), verdict, 1))
    /\ UNCHANGED callRows

-----------------------------------------------------------------------------
(* invoke_model *)

\* Faults: the row of a direct invocation waits for the outcome; that of an
\* embedded one is committed with everything before it.
NeverCommits(k) == FALSE
AlwaysCommits(k) == TRUE

\* commit_before_provider_call
CommitsBeforeCall(k) == k \in CallKeys

\* _prepare_invocation.  A competitor that took the key is replayed.
PrepareInvocation(c) ==
    /\ caller[c].pc = "prepare"
    /\ LET k == caller[c].key
           row == [NoInvocation EXCEPT !.ask = caller[c].ask, !.status = "requested"]
       IN  /\ k \in CallKeys => MayInsert(c)
           /\ IF k \in CallKeys /\ Known(k) THEN AnswerFromRecord(c, k, caller[c].ask)
              ELSE /\ Turn(c, [caller[c] EXCEPT !.pc = "call", !.inv = row,
                                                !.open = ~CommitsBeforeCall(k)])
                   /\ invocation' = IF CommitsBeforeCall(k)
                                    THEN [invocation EXCEPT ![k] = row]
                                    ELSE invocation
                   /\ agentRun' = IF CommitsBeforeCall(k) /\ k \in AgentKeys
                                  THEN [agentRun EXCEPT ![k] = caller[c].run]
                                  ELSE agentRun
                   /\ UNCHANGED <<calls, answers>>

\* _call_runtime: the runtime that is not configured defers without a call.
\* The outcome, its audit event and its usage are written together.
CallRuntime(c, outcome) ==
    /\ caller[c].pc = "call"
    /\ calls' = IF outcome = "deferred" THEN calls
                ELSE [calls EXCEPT ![caller[c].key] = @ + 1]
    /\ Turn(c, [caller[c] EXCEPT
                   !.pc = IF caller[c].key \in AgentKeys THEN "invoked" ELSE "commit",
                   !.inv = [@ EXCEPT !.status = outcome, !.audits = 1,
                               !.usage = IF outcome = "deferred" THEN 0 ELSE 1]])
    /\ UNCHANGED <<invocation, agentRun, answers>>

-----------------------------------------------------------------------------
(* An agent run after its model call *)

TakeOutcome(c) ==
    /\ caller[c].pc = "invoked"
    /\ LET outcome == caller[c].inv.status
           run == Stepped([caller[c].run EXCEPT !.invoked = TRUE], "model", outcome)
       IN  Turn(c, IF outcome = "completed"
                   THEN [caller[c] EXCEPT !.pc = "proposal", !.run = run]
                   ELSE Ended(c, run, outcome, 1))
    /\ UNCHANGED callRows

\* An output that is no proposal, or a proposal that is refused.
RefuseProposal(c, verdict) ==
    /\ caller[c].pc = "proposal"
    /\ Turn(c, Ended(c, Stepped(caller[c].run, "proposal", verdict), verdict, 1))
    /\ UNCHANGED callRows

\* A dry run and an agent of level L1 only record the proposal; level L2
\* submits it as an action run, which is signalled before the commit.
AcceptProposal(c, status) ==
    /\ caller[c].pc = "proposal"
    /\ Turn(c, Ended(c, Stepped([caller[c].run EXCEPT !.action = (status = "created")],
                                "proposal", "completed"), status, 1))
    /\ UNCHANGED callRows

-----------------------------------------------------------------------------
CommitCall(c) ==
    /\ caller[c].pc = "commit"
    /\ LET k == caller[c].key
       IN  /\ invocation' = IF caller[c].inv = NoInvocation THEN invocation
                            ELSE [invocation EXCEPT ![k] = caller[c].inv]
           /\ agentRun' = IF k \in AgentKeys
                          THEN [agentRun EXCEPT ![k] = caller[c].run] ELSE agentRun
           /\ answers' = answers \cup {[key |-> k, ask |-> caller[c].ask]}
    /\ Turn(c, NoCaller)
    /\ UNCHANGED calls

\* The process stops, the client goes away, the provider raises something
\* else, or the outcome cannot be written.
CallBreaks(c) ==
    /\ caller[c].pc # "idle"
    /\ Turn(c, NoCaller)
    /\ UNCHANGED callRows

ModelCallsNext ==
    \E c \in Callers :
        \/ \E k \in AskKeys, ask \in CallAsks : Receive(c, k, ask)
        \/ InsertAgentRun(c) \/ ExecutionDisabled(c)
        \/ \E granted \in BOOLEAN : ReadContext(c, granted)
        \/ \E verdict \in {"allowed", "blocked", "failed"} : RouteInvocation(c, verdict)
        \/ PrepareInvocation(c)
        \/ \E outcome \in Finished : CallRuntime(c, outcome)
        \/ TakeOutcome(c)
        \/ \E verdict \in {"blocked", "failed"} : RefuseProposal(c, verdict)
        \/ \E status \in {"dry_run", "recorded", "created"} : AcceptProposal(c, status)
        \/ CommitCall(c) \/ CallBreaks(c)

ModelCallsSpec == ModelCallsInit /\ [][ModelCallsNext]_callVars

-----------------------------------------------------------------------------
\* However deliveries of one key race, repeat and die, the provider is called
\* for it at most once; for the key of an agent run, never again once the run
\* is on record and never twice at a time.  Whoever is told of a record asked
\* for what is on it.
AtMostOneCall ==
    /\ \A k \in CallKeys : calls[k] <= 1
    /\ \A c \in Callers : caller[c].pc \in {"call", "invoked", "proposal"} =>
          /\ caller[c].key \in AgentKeys => ~Known(caller[c].key)
          /\ \A d \in Callers \ {c} :
                caller[d].pc \in {"call", "invoked", "proposal"} =>
                    caller[d].key # caller[c].key
    /\ \A a \in answers : OnRecord(a.key).ask = a.ask

\* A record is never half there.  An invocation is audited and metered if and
\* only if its outcome is known.  An agent run on record has ended, the way its
\* last step says, with the invocation it names and an action run only for a
\* proposal it created.
RecordsAreWhole ==
    /\ \A k \in AskKeys :
          LET row == invocation[k]
          IN  /\ row.audits = IF row.status \in Finished THEN 1 ELSE 0
              /\ row.usage = IF row.status \in {"completed", "failed"} THEN 1 ELSE 0
    /\ \A k \in AgentKeys :
          LET run == agentRun[k]
              last == run.steps[Len(run.steps)].status
          IN  /\ run.status # "requested"
              /\ run.invoked = (invocation[k].status \in Finished)
              /\ run.action = (run.status = "created")
              /\ run.usage = IF run.steps = <<>> THEN 0 ELSE 1
              /\ run.steps # <<>> =>
                    IF run.status \in {"dry_run", "recorded", "created"}
                    THEN last = "completed" /\ Len(run.steps) = 3
                    ELSE last = run.status
=============================================================================
