------------------------------ MODULE SwapJobs ------------------------------
(***************************************************************************)
(* Replacement of risky provider assignments: the swap queue of one        *)
(* Proxiware subscription, the workers that claim a job, check its guards  *)
(* twice and call the provider behind a durable fence, and the read-only   *)
(* reconciliation that decides from inventory and dashboard evidence what  *)
(* the provider really did.                                                *)
(*                                                                         *)
(* A subscription is a set of slots (the dashboard's assignment ids).  The *)
(* provider fills a slot with one assignment after another; an assignment  *)
(* is a slot and a version, and stands for the external id and the address *)
(* alike.  The dashboard names an assignment's slot; the inventory does    *)
(* not.                                                                    *)
(*                                                                         *)
(* Left out: swap_quota (no code writes it, and its default -1 is no       *)
(* limit); the explicit replacement id some providers may answer with;     *)
(* subscriptions that expire; the thresholds on connections and on         *)
(* eligible siblings, which are part of what Qualify may change.           *)
(***************************************************************************)
EXTENDS Integers, FiniteSets

CONSTANTS
    Slots,          \* the subscription's dashboard assignment ids
    Workers,        \* swap workers and administrators' manual runs
    Tokens,         \* claim tokens, more than jobs and workers together
    None,           \* NULL
    MaxJobs,        \* bound: rows of swap_jobs
    MaxVersion,     \* bound: assignments that follow each other in a slot
    MaxTime,        \* bound: the last tick
    LEASE,          \* ticks of a claim
    DEFER,          \* ticks a job waits for dashboard evidence
    COOLDOWN,       \* ticks before a replacement may be swapped
    MAXAGE,         \* ticks evidence counts as fresh
    RETRIES,        \* proxiware_retry_limit
    Gates,          \* bound: settings of the automation that occur
    AdminOps,       \* bound: what administrators do to jobs
    Readers         \* bound: the sources of evidence at work

ASSUME SwapAssumption ==
    /\ MaxJobs \in Nat /\ MaxVersion \in Nat /\ MaxTime \in Nat
    /\ LEASE \in Nat \ {0} /\ DEFER \in Nat \ {0} /\ COOLDOWN \in Nat
    /\ MAXAGE \in Nat /\ RETRIES \in Nat \ {0}
    /\ Gates \subseteq {"auto", "manual", "paused"}
    /\ AdminOps \subseteq {"cancel", "retry", "manual"}
    /\ Readers \subseteq {"sync", "dash"}
    /\ None \notin Tokens
    /\ None \notin Slots \X (0 .. MaxVersion)

VARIABLES
    now,            \* the clock
    gate,           \* "auto": auto swap; "manual": manual runs only; "paused"
    \* swap_jobs
    state, old, token, until, attempts, started, applied, new,
    \* provider_assignments
    known, missing, risky, seen, dash, ready,
    subSeen,        \* provider_subscriptions.last_seen_at
    \* the workers: where they are, their job, its token as they know it,
    \* whether the run is manual, the version the provider answered with
    pc, job, held, manual, answer,
    \* the provider: what fills each slot, requests of workers that wait for
    \* them, requests nobody waits for any more
    prov, sent, orphans,
    \* the inventory sync and the dashboard observer
    rpc, got, dashAt, snap,
    \* history: the job's mutation was sent and no administrator asked for
    \* another since
    called

jobVars == <<state, old, token, until, attempts, started, applied, new, called>>
rowVars == <<known, missing, risky, seen, dash, ready, subSeen>>
workerVars == <<pc, job, held, manual, answer>>
provVars == <<prov, sent, orphans>>
readerVars == <<rpc, got, dashAt, snap>>
vars == <<now, gate, jobVars, rowVars, workerVars, provVars, readerVars>>

Jobs == 1 .. MaxJobs
Assignments == Slots \X (0 .. MaxVersion)
SlotOf(e) == e[1]
VersionOf(e) == e[2]
Never == -1
Times == Never .. MaxTime

Mutation == {"mutating", "provider_applied", "reconciliation_required"}
PreMutation == {"pending", "running"}
Active == PreMutation \cup Mutation

NoSnap == [job |-> 0, state |-> "none", at |-> Never, pick |-> None]

\* The partial unique index on active jobs of one assignment.
Unique(j, e) == e # None => ~ \E k \in Jobs \ {j} : old[k] = e /\ state[k] \in Active

-----------------------------------------------------------------------------
(***************************************************************************)
(* Guards and the queue.                                                   *)
(***************************************************************************)

\* SwapDecision.for_subscription, for the job's assignment.
Decision(e) ==
    IF e = None \/ e \notin (known \cap risky) \ missing THEN "refused"
    ELSE IF dash[e] = Never \/ now - dash[e] > MAXAGE THEN "dashboard_stale"
    ELSE IF ready[e] > now THEN "refused"
    ELSE "ready"

\* _pause_auto_swap_no_commit
PauseAuto == gate' = IF gate = "auto" THEN "manual" ELSE gate

-----------------------------------------------------------------------------
(***************************************************************************)
(* The worker before the fence.                                            *)
(***************************************************************************)

\* The process forgets its job; its request, if any, stays with the provider.
Leave(w) ==
    /\ pc' = [pc EXCEPT ![w] = "idle"]
    /\ job' = [job EXCEPT ![w] = 0]
    /\ held' = [held EXCEPT ![w] = None]
    /\ manual' = [manual EXCEPT ![w] = FALSE]
    /\ answer' = [answer EXCEPT ![w] = 0]
    /\ sent' = sent \ {w}
    /\ orphans' = [d \in Slots |->
          IF w \in sent /\ d = SlotOf(old[job[w]]) THEN orphans[d] + 1 ELSE orphans[d]]
    /\ prov' = prov

\* _run_once_for_job_impl up to the claim: the gates are read here.
StartCycle(w) ==
    /\ pc[w] = "idle"
    /\ gate = "auto"
    /\ pc' = [pc EXCEPT ![w] = "started"]
    /\ UNCHANGED <<now, gate, jobVars, rowVars, job, held, manual, answer, provVars, readerVars>>

\* ... where a session that cannot be restored closes the gate.
NoSession(w) ==
    /\ pc[w] = "idle"
    /\ gate = "auto"
    /\ PauseAuto
    /\ UNCHANGED <<now, jobVars, rowVars, workerVars, provVars, readerVars>>

Queueable == {e \in Assignments : Decision(e) = "ready" /\ Unique(0, e)}

\* queue_eligible_swaps, the cycle's next step: one transaction queues what the
\* guards allow, in the order of the rows' last update and up to a limit.
QueueSwaps(w) ==
    LET rows == Cardinality({j \in Jobs : state[j] # "absent"})
        fresh == {j \in Jobs : state[j] = "absent" /\ j <= rows + Cardinality(Queueable)}
    IN
    /\ pc[w] = "started"
    /\ pc' = [pc EXCEPT ![w] = "claiming"]
    /\ IF gate = "auto"
       THEN \E pick \in [fresh -> Queueable] :
              /\ \A i, j \in fresh : pick[i] = pick[j] => i = j
              /\ state' = [j \in Jobs |-> IF j \in fresh THEN "pending" ELSE state[j]]
              /\ old' = [j \in Jobs |-> IF j \in fresh THEN pick[j] ELSE old[j]]
       ELSE UNCHANGED <<state, old>>
    /\ UNCHANGED <<now, gate, token, until, attempts, started, applied, new, called,
                   rowVars, job, held, manual, answer, provVars, readerVars>>

Expired(k) == state[k] = "running" /\ until[k] <= now

\* Mutant: whatever has no live lease goes back to the queue.
RecoveredWithoutLease ==
    [k \in Jobs |-> IF state[k] \in {"running", "mutating"} /\ until[k] <= now THEN "pending" ELSE state[k]]

\* Leases abandoned by crashed workers are recovered, before the fence only.
Recovered == [k \in Jobs |-> IF Expired(k) THEN "pending" ELSE state[k]]

\* Mutant: a job is claimed whatever its siblings are doing.
ClaimableAlone(k) == Recovered[k] = "pending" /\ (Expired(k) \/ until[k] <= now)

\* What the SELECT of claim_next_swap finds, once abandoned leases are back.
Claimable(k) ==
    /\ Recovered[k] = "pending"
    /\ Expired(k) \/ until[k] <= now
    /\ \A l \in Jobs \ {k} : Recovered[l] \notin {"running"} \cup Mutation

UsedTokens == {token[k] : k \in Jobs} \cup {held[w] : w \in Workers}
FreshToken == CHOOSE t \in Tokens : t \notin UsedTokens

\* claim_next_swap: oldest first, or the one job of a manual run.
Claim(w, j) ==
    /\ pc[w] = "claiming"
    /\ Claimable(j)
    /\ Tokens \ UsedTokens # {}
    /\ IF manual[w] THEN j = job[w] ELSE \A k \in 1 .. (j - 1) : ~ Claimable(k)
    /\ state' = [Recovered EXCEPT ![j] = "running"]
    /\ token' = [k \in Jobs |-> IF k = j THEN FreshToken ELSE IF Expired(k) THEN None ELSE token[k]]
    /\ until' = [k \in Jobs |-> IF k = j THEN now + LEASE ELSE IF Expired(k) THEN Never ELSE until[k]]
    /\ attempts' = [attempts EXCEPT ![j] = IF @ < RETRIES THEN @ + 1 ELSE @]
    /\ pc' = [pc EXCEPT ![w] = "claimed"]
    /\ job' = [job EXCEPT ![w] = j]
    /\ held' = [held EXCEPT ![w] = FreshToken]
    /\ UNCHANGED <<now, gate, old, started, applied, new, called, rowVars, manual, answer, provVars, readerVars>>

\* ... which commits the recovery also when it finds nothing to claim.
ClaimNothing(w) ==
    /\ pc[w] = "claiming"
    /\ ~ \E j \in Jobs : Claimable(j) /\ (manual[w] => j = job[w])
    /\ state' = Recovered
    /\ token' = [k \in Jobs |-> IF Expired(k) THEN None ELSE token[k]]
    /\ until' = [k \in Jobs |-> IF Expired(k) THEN Never ELSE until[k]]
    /\ Leave(w)
    /\ UNCHANGED <<now, gate, old, attempts, started, applied, new, called, rowVars, readerVars>>

\* The job goes back to the queue or is blocked, without a claim.
Settle(j, to, wait) ==
    /\ state' = [state EXCEPT ![j] = to]
    /\ token' = [token EXCEPT ![j] = None]
    /\ until' = [until EXCEPT ![j] = wait]
    /\ UNCHANGED <<old, attempts, started, applied, new, called>>

\* mark_swap_failed and mark_swap_blocked accept the caller.
OwnsPreMutation(w) ==
    /\ state[job[w]] \in PreMutation
    /\ held[w] = None \/ token[job[w]] = held[w]

\* The context query is a read of its own: the token in it may be another
\* worker's by now, or NULL.
ReadContext(w) ==
    LET j == job[w] IN
    /\ pc[w] = "claimed"
    /\ IF old[j] # None /\ old[j] \in known
       THEN /\ pc' = [pc EXCEPT ![w] = "context"]
            /\ held' = [held EXCEPT ![w] = token[j]]
            /\ UNCHANGED <<gate, jobVars, job, manual, answer, provVars>>
       ELSE /\ Leave(w)
            /\ IF OwnsPreMutation(w) THEN Settle(j, "blocked", Never) /\ PauseAuto
               ELSE UNCHANGED <<gate, jobVars>>
    /\ UNCHANGED <<now, rowVars, readerVars>>

GateOpen(w) == gate = "auto" \/ (manual[w] /\ gate = "manual")

\* revalidate_swap_job's verdict.
Verdict(w) ==
    IF \/ ~ GateOpen(w)
       \/ \E k \in Jobs \ {job[w]} : state[k] \in {"running"} \cup Mutation
    THEN "refused" ELSE Decision(old[job[w]])

\* ... for a caller it does not turn away.
StillRunning(w) ==
    /\ state[job[w]] = "running"
    /\ held[w] = None \/ token[job[w]] = held[w]

\* Mutant: a job that was claimed once may enter the fence.
MayEnterAnyClaim(w) == held[w] # None

\* What enter_mutation asks for on top.
MayEnter(w) == StillRunning(w) /\ held[w] # None /\ until[job[w]] > now

Revalidate(w) ==
    /\ pc[w] = "context"
    /\ StillRunning(w)
    /\ Verdict(w) = "ready"
    /\ pc' = [pc EXCEPT ![w] = "checked"]
    /\ UNCHANGED <<now, gate, jobVars, rowVars, job, held, manual, answer, provVars, readerVars>>

\* Either revalidation finds a guard that no longer holds.
Refuse(w) ==
    /\ pc[w] \in {"context", "checked"}
    /\ IF pc[w] = "checked" THEN MayEnter(w) ELSE StillRunning(w)
    /\ Verdict(w) # "ready"
    /\ IF Verdict(w) = "dashboard_stale" /\ ~ manual[w]
       THEN Settle(job[w], "pending", now + DEFER)
       ELSE Settle(job[w], "blocked", Never)
    /\ Leave(w)
    /\ UNCHANGED <<now, gate, rowVars, readerVars>>

\* An exception before the fence: a stale claim, an adapter that cannot be
\* built, a database error.  Codes that need an operator block the job and
\* close the gate, others use up an attempt.
FailsBefore(w, needsOperator) ==
    /\ pc[w] \in {"context", "checked"}
    /\ IF OwnsPreMutation(w)
       THEN /\ Settle(job[w], IF needsOperator \/ attempts[job[w]] >= RETRIES
                              THEN "blocked" ELSE "pending", Never)
            /\ IF needsOperator THEN PauseAuto ELSE gate' = gate
       ELSE UNCHANGED <<gate, jobVars>>
    /\ Leave(w)
    /\ UNCHANGED <<now, rowVars, readerVars>>

-----------------------------------------------------------------------------
(***************************************************************************)
(* The mutation.                                                           *)
(***************************************************************************)

\* revalidate_swap_job(enter_mutation=True): the fence, without a lease.  The
\* request is the worker's next step.
EnterMutation(w) ==
    LET j == job[w] IN
    /\ pc[w] = "checked"
    /\ MayEnter(w)
    /\ Verdict(w) = "ready"
    /\ state' = [state EXCEPT ![j] = "mutating"]
    /\ until' = [until EXCEPT ![j] = Never]
    /\ started' = [started EXCEPT ![j] = now]
    /\ called' = [called EXCEPT ![j] = TRUE]
    /\ dash' = [dash EXCEPT ![old[j]] = Never]
    /\ pc' = [pc EXCEPT ![w] = "calling"]
    /\ sent' = sent \cup {w}
    /\ UNCHANGED <<now, gate, old, token, attempts, applied, new, known, missing, risky, seen, ready,
                   subSeen, job, held, manual, answer, prov, orphans, readerVars>>

\* The provider (external) swaps what is in the slot, whichever assignment
\* the job was about, or refuses.
ProviderSwaps(w) ==
    LET d == SlotOf(old[job[w]]) IN
    /\ w \in sent
    /\ prov[d] < MaxVersion
    /\ prov' = [prov EXCEPT ![d] = @ + 1]
    /\ answer' = [answer EXCEPT ![w] = prov[d] + 1]
    /\ sent' = sent \ {w}
    /\ UNCHANGED <<now, gate, jobVars, rowVars, pc, job, held, manual, orphans, readerVars>>

ProviderRefuses(w) ==
    /\ w \in sent
    /\ sent' = sent \ {w}
    /\ UNCHANGED <<now, gate, jobVars, rowVars, workerVars, prov, orphans, readerVars>>

\* A request whose sender has given up is still carried out, or lost.
LateSwap(d) ==
    /\ orphans[d] > 0
    /\ orphans' = [orphans EXCEPT ![d] = @ - 1]
    /\ prov' \in {prov} \cup
          (IF prov[d] < MaxVersion THEN {[prov EXCEPT ![d] = @ + 1]} ELSE {})
    /\ UNCHANGED <<now, gate, jobVars, rowVars, workerVars, sent, readerVars>>

\* mark_provider_applied
ProviderApplied(w) ==
    LET j == job[w] IN
    /\ pc[w] = "calling"
    /\ answer[w] # 0
    /\ state[j] = "mutating"
    /\ token[j] = held[w]
    /\ state' = [state EXCEPT ![j] = "provider_applied"]
    /\ applied' = [applied EXCEPT ![j] = now]
    /\ new' = [new EXCEPT ![j] = <<SlotOf(old[j]), answer[w]>>]
    /\ dash' = [dash EXCEPT ![old[j]] = Never]
    /\ pc' = [pc EXCEPT ![w] = "applied"]
    /\ UNCHANGED <<now, gate, old, token, until, attempts, started, called, known, missing, risky, seen, ready,
                   subSeen, job, held, manual, answer, provVars, readerVars>>

\* The rest of the cycle: the sync request and the heartbeat.
EndCycle(w) ==
    /\ pc[w] = "applied"
    /\ Leave(w)
    /\ UNCHANGED <<now, gate, jobVars, rowVars, readerVars>>

\* Any exception behind the fence (a timeout, a refusal, an unreadable answer,
\* a database error after the mutation was recorded):
\* mark_reconciliation_required.
Uncertain(w) ==
    LET j == job[w] IN
    /\ pc[w] \in {"calling", "applied"}
    /\ IF state[j] \in Mutation /\ token[j] = held[w]
       THEN /\ state' = [state EXCEPT ![j] = "reconciliation_required"]
            /\ PauseAuto
       ELSE UNCHANGED <<gate, state>>
    /\ Leave(w)
    /\ UNCHANGED <<now, old, token, until, attempts, started, applied, new, called, rowVars, readerVars>>

Crash(w) ==
    /\ pc[w] # "idle"
    /\ Leave(w)
    /\ UNCHANGED <<now, gate, jobVars, rowVars, readerVars>>

-----------------------------------------------------------------------------
(***************************************************************************)
(* Administrators and the qualification worker.                            *)
(***************************************************************************)

Cancel(j) ==
    /\ "cancel" \in AdminOps
    /\ state[j] \in PreMutation
    /\ Settle(j, "canceled", Never)
    /\ UNCHANGED <<now, gate, rowVars, workerVars, provVars, readerVars>>

\* Back to the queue on an administrator's word, with all that earlier
\* mutations recorded.
Requeue(j) ==
    /\ state' = [state EXCEPT ![j] = "pending"]
    /\ token' = [token EXCEPT ![j] = None]
    /\ until' = [until EXCEPT ![j] = Never]
    /\ called' = [called EXCEPT ![j] = FALSE]
    /\ UNCHANGED <<old, attempts, started, applied, new>>

\* retry_swap
Retry(j) ==
    /\ "retry" \in AdminOps
    /\ state[j] \in {"blocked", "canceled"}
    /\ Unique(j, old[j])
    /\ Requeue(j)
    /\ UNCHANGED <<now, gate, rowVars, workerVars, provVars, readerVars>>

\* request_manual_swap, and the run it starts.
RequestManual(w, j) ==
    /\ "manual" \in AdminOps
    /\ pc[w] = "idle"
    /\ gate # "paused"
    /\ state[j] \in {"pending", "blocked", "canceled"}
    /\ Decision(old[j]) = "ready"
    /\ Unique(j, old[j])
    /\ Requeue(j)
    /\ pc' = [pc EXCEPT ![w] = "claiming"]
    /\ job' = [job EXCEPT ![w] = j]
    /\ manual' = [manual EXCEPT ![w] = TRUE]
    /\ UNCHANGED <<now, gate, rowVars, held, answer, provVars, readerVars>>

SetGate(g) ==
    /\ gate' = g
    /\ UNCHANGED <<now, jobVars, rowVars, workerVars, provVars, readerVars>>

\* Probes judge an assignment, or judge it again.
Qualify(e) ==
    /\ e \in known \ missing
    /\ risky' \in {risky \cup {e}, risky \ {e}}
    /\ UNCHANGED <<now, gate, jobVars, known, missing, seen, dash, ready, subSeen,
                   workerVars, provVars, readerVars>>

-----------------------------------------------------------------------------
(***************************************************************************)
(* Evidence: the inventory sync and the dashboard observer.                *)
(***************************************************************************)

Fetched(x) == {<<d, got[x][d]>> : d \in Slots}

ReaderEnds(x) ==
    /\ rpc' = [rpc EXCEPT ![x] = "idle"]
    /\ got' = [got EXCEPT ![x] = [d \in Slots |-> 0]]
    /\ snap' = [snap EXCEPT ![x] = NoSnap]
    /\ dashAt' = IF x = "dash" THEN Never ELSE dashAt

\* The provider reads what it is asked for.
Fetch(x) ==
    /\ rpc[x] = "idle"
    /\ rpc' = [rpc EXCEPT ![x] = "fetched"]
    /\ got' = [got EXCEPT ![x] = prov]
    /\ UNCHANGED <<now, gate, jobVars, rowVars, workerVars, provVars, dashAt, snap>>

\* A dashboard answer is stamped when it arrives.
DashArrives ==
    /\ "dash" \in Readers /\ rpc["dash"] = "fetched"
    /\ rpc' = [rpc EXCEPT !["dash"] = "arrived"]
    /\ dashAt' = now
    /\ UNCHANGED <<now, gate, jobVars, rowVars, workerVars, provVars, got, snap>>

\* sync_proxiware_inventory stores the subscription: the stamp is the time of
\* the transaction, not of the answer.
SyncStore ==
    LET rows == Fetched("sync") IN
    /\ "sync" \in Readers /\ rpc["sync"] = "fetched"
    /\ rpc' = [rpc EXCEPT !["sync"] = "stored"]
    /\ risky' = risky \ (rows \ known)
    /\ known' = known \cup rows
    /\ missing' = missing \ rows
    /\ seen' = [e \in Assignments |-> IF e \in rows THEN now ELSE seen[e]]
    /\ subSeen' = now
    /\ UNCHANGED <<now, gate, jobVars, dash, ready, workerVars, provVars, got, dashAt, snap>>

\* ... and, when all subscriptions are read, marks what it did not see.
SyncFinish ==
    /\ "sync" \in Readers /\ rpc["sync"] = "stored"
    /\ rpc' = [rpc EXCEPT !["sync"] = "select"]
    /\ missing' = missing \cup (known \ Fetched("sync"))
    /\ UNCHANGED <<now, gate, jobVars, known, risky, seen, dash, ready, subSeen,
                   workerVars, provVars, got, dashAt, snap>>

\* apply_dashboard_snapshot: all rows of the answer are known, or none is used.
DashStore ==
    LET rows == Fetched("dash") IN
    /\ "dash" \in Readers /\ rpc["dash"] = "arrived"
    /\ IF rows \subseteq known \ missing
       THEN /\ dash' = [e \in Assignments |-> IF e \in rows THEN dashAt ELSE Never]
            /\ rpc' = [rpc EXCEPT !["dash"] = "select"]
            /\ UNCHANGED <<got, dashAt, snap>>
       ELSE ReaderEnds("dash") /\ dash' = dash
    /\ UNCHANGED <<now, gate, jobVars, known, missing, risky, seen, ready, subSeen,
                   workerVars, provVars>>

\* A failed request, a lost sync lease, a stopped process.
ReaderStops(x) ==
    /\ rpc[x] # "idle"
    /\ ReaderEnds(x)
    /\ UNCHANGED <<now, gate, jobVars, rowVars, workerVars, provVars>>

-----------------------------------------------------------------------------
(***************************************************************************)
(* Reconciliation (reconcile_provider_applied_swaps), run by both readers  *)
(* after they stored their evidence.  The job is read first; the evidence  *)
(* is read outside the transaction that closes or infers.                  *)
(***************************************************************************)

MutationTime(j) == IF applied[j] # Never THEN applied[j] ELSE started[j]

\* Mutant: evidence of the same instant counts as later.
FreshAfterInclusive(e, at) == seen[e] >= at /\ dash[e] >= at

FreshAfter(e, at) == seen[e] > at /\ dash[e] > at

\* _fresh_dashboard_snapshot_covers_subscription
Covers(at) ==
    LET rows == known \ missing IN
    /\ rows # {}
    /\ \A e \in rows : FreshAfter(e, at) /\ now - dash[e] <= MAXAGE /\ now - seen[e] <= MAXAGE

\* _reconcile_no_provider_change, its evidence.
NoChange(j, at) ==
    /\ at # Never
    /\ Covers(at)
    /\ old[j] \in known \ missing
    /\ dash[old[j]] # Never

\* The assignments the dashboard shows in the job's slot.
Candidates(j, at) ==
    {e \in known \ missing : e # old[j] /\ SlotOf(e) = SlotOf(old[j]) /\ FreshAfter(e, at)}

\* _record_inferred_replacement, its evidence.
Inferable(j, at) ==
    /\ at # Never
    /\ old[j] \notin known \ missing
    /\ subSeen > at
    /\ Covers(at)
    /\ Cardinality(Candidates(j, at)) = 1

Select(x) ==
    /\ rpc[x] = "select"
    /\ LET waiting == {j \in Jobs : state[j] \in {"provider_applied", "reconciliation_required"}} IN
       IF waiting = {} THEN ReaderEnds(x)
       ELSE /\ \E j \in waiting :
                 /\ snap' = [snap EXCEPT ![x] = [job |-> j, state |-> state[j],
                                                 at |-> MutationTime(j), pick |-> None]]
                 /\ rpc' = [rpc EXCEPT ![x] =
                       IF state[j] = "reconciliation_required" /\ new[j] = None
                       THEN "examine" ELSE "finish"]
            /\ UNCHANGED <<got, dashAt>>
    /\ UNCHANGED <<now, gate, jobVars, rowVars, workerVars, provVars>>

Examine(x) ==
    LET j == snap[x].job
        at == snap[x].at
    IN
    /\ rpc[x] = "examine"
    /\ IF NoChange(j, at)
       THEN rpc' = [rpc EXCEPT ![x] = "close"] /\ UNCHANGED <<got, dashAt, snap>>
       ELSE IF Inferable(j, at)
       THEN /\ rpc' = [rpc EXCEPT ![x] = "infer"]
            /\ snap' = [snap EXCEPT ![x].pick = CHOOSE e \in Candidates(j, at) : TRUE]
            /\ UNCHANGED <<got, dashAt>>
       ELSE ReaderEnds(x)
    /\ UNCHANGED <<now, gate, jobVars, rowVars, workerVars, provVars>>

\* The job is blocked as reconciled without a provider change.
Close(x) ==
    /\ rpc[x] = "close"
    /\ IF state[snap[x].job] = "reconciliation_required"
       THEN Settle(snap[x].job, "blocked", Never)
       ELSE UNCHANGED jobVars
    /\ ReaderEnds(x)
    /\ UNCHANGED <<now, gate, rowVars, workerVars, provVars>>

Infer(x) ==
    LET j == snap[x].job IN
    /\ rpc[x] = "infer"
    /\ IF state[j] = "reconciliation_required" /\ new[j] = None
       THEN /\ new' = [new EXCEPT ![j] = snap[x].pick]
            /\ rpc' = [rpc EXCEPT ![x] = "finish"]
            /\ UNCHANGED <<got, dashAt, snap>>
       ELSE ReaderEnds(x) /\ new' = new
    /\ UNCHANGED <<now, gate, state, old, token, until, attempts, started, applied, called,
                   rowVars, workerVars, provVars>>

\* What mark_swap_success insists on.
Confirmed(j) ==
    /\ state[j] \in {"provider_applied", "reconciliation_required"}
    /\ new[j] # None
    /\ old[j] \in known
    /\ new[j] \in known \ missing
    /\ FreshAfter(new[j], MutationTime(j))
    /\ now - dash[new[j]] <= MAXAGE

\* Mutant: the verdict on the deleted row stays.
VerdictsKept(j) == risky \ {new[j]}

\* The verdicts once the replacement's is reset and the old row deleted.
VerdictsAfter(j) == risky \ {old[j], new[j]}

\* mark_swap_success: the replacement starts anew, the old row is deleted, and
\* the row id other jobs hold resolves to nothing any more (a later sync of the
\* same assignment inserts a row with a new id).
Succeed(j) ==
    /\ state' = [state EXCEPT ![j] = "success"]
    /\ token' = [token EXCEPT ![j] = None]
    /\ until' = [until EXCEPT ![j] = Never]
    /\ old' = [k \in Jobs |-> IF k # j /\ old[k] = old[j] THEN None ELSE old[k]]
    /\ known' = known \ {old[j]}
    /\ missing' = missing \ {old[j]}
    /\ risky' = VerdictsAfter(j)
    /\ seen' = [seen EXCEPT ![old[j]] = Never]
    /\ dash' = [dash EXCEPT ![old[j]] = Never]
    /\ ready' = [ready EXCEPT ![old[j]] = Never, ![new[j]] = now + COOLDOWN]
    /\ UNCHANGED <<attempts, started, applied, new, called, subSeen>>

\* If the evidence is not there yet, it may still show that nothing changed.
Finish(x) ==
    LET j == snap[x].job IN
    /\ rpc[x] = "finish"
    /\ IF Confirmed(j)
       THEN Succeed(j) /\ ReaderEnds(x)
       ELSE /\ UNCHANGED <<jobVars, rowVars>>
            /\ IF snap[x].state = "reconciliation_required" /\ NoChange(j, snap[x].at)
               THEN rpc' = [rpc EXCEPT ![x] = "close"] /\ UNCHANGED <<got, dashAt, snap>>
               ELSE ReaderEnds(x)
    /\ UNCHANGED <<now, gate, workerVars, provVars>>

Tick ==
    /\ now < MaxTime
    /\ now' = now + 1
    /\ UNCHANGED <<gate, jobVars, rowVars, workerVars, provVars, readerVars>>

-----------------------------------------------------------------------------
\* The subscription has been synced, observed and judged.
Init ==
    /\ now = 0
    /\ gate = "auto"
    /\ state = [j \in Jobs |-> "absent"]
    /\ old = [j \in Jobs |-> None]
    /\ token = [j \in Jobs |-> None]
    /\ until = [j \in Jobs |-> Never]
    /\ attempts = [j \in Jobs |-> 0]
    /\ started = [j \in Jobs |-> Never]
    /\ applied = [j \in Jobs |-> Never]
    /\ new = [j \in Jobs |-> None]
    /\ called = [j \in Jobs |-> FALSE]
    /\ known = Slots \X {0}
    /\ missing = {}
    /\ risky = Slots \X {0}
    /\ seen = [e \in Assignments |-> IF VersionOf(e) = 0 THEN 0 ELSE Never]
    /\ dash = [e \in Assignments |-> IF VersionOf(e) = 0 THEN 0 ELSE Never]
    /\ ready = [e \in Assignments |-> Never]
    /\ subSeen = 0
    /\ pc = [w \in Workers |-> "idle"]
    /\ job = [w \in Workers |-> 0]
    /\ held = [w \in Workers |-> None]
    /\ manual = [w \in Workers |-> FALSE]
    /\ answer = [w \in Workers |-> 0]
    /\ prov = [d \in Slots |-> 0]
    /\ sent = {}
    /\ orphans = [d \in Slots |-> 0]
    /\ rpc = [x \in Readers |-> "idle"]
    /\ got = [x \in Readers |-> [d \in Slots |-> 0]]
    /\ dashAt = Never
    /\ snap = [x \in Readers |-> NoSnap]

WorkerStep(w) ==
    \/ StartCycle(w)
    \/ NoSession(w)
    \/ QueueSwaps(w)
    \/ \E j \in Jobs : Claim(w, j)
    \/ ClaimNothing(w)
    \/ ReadContext(w)
    \/ Revalidate(w)
    \/ Refuse(w)
    \/ \E needsOperator \in BOOLEAN : FailsBefore(w, needsOperator)
    \/ EnterMutation(w)
    \/ ProviderApplied(w)
    \/ EndCycle(w)
    \/ Uncertain(w)
    \/ Crash(w)

ProviderStep ==
    \/ \E w \in Workers : ProviderSwaps(w) \/ ProviderRefuses(w)
    \/ \E d \in Slots : LateSwap(d)

AdminStep ==
    \/ \E j \in Jobs : Cancel(j) \/ Retry(j) \/ \E w \in Workers : RequestManual(w, j)
    \/ \E g \in Gates : SetGate(g)

ReaderStep ==
    \/ SyncStore
    \/ SyncFinish
    \/ DashArrives
    \/ DashStore
    \/ \E x \in Readers : Fetch(x) \/ ReaderStops(x) \/ Select(x) \/ Examine(x)
                          \/ Close(x) \/ Infer(x) \/ Finish(x)

Next ==
    \/ \E e \in Assignments : Qualify(e)
    \/ \E w \in Workers : WorkerStep(w)
    \/ ProviderStep
    \/ AdminStep
    \/ ReaderStep
    \/ Tick

Spec == Init /\ [][Next]_vars

(***************************************************************************)
(* Fairness: workers behind the fence, the provider and both readers go on *)
(* when they can.  A worker may still crash; nothing is promised then.     *)
(***************************************************************************)
FairSpec ==
    /\ Spec
    /\ WF_vars(Tick)
    /\ WF_vars(ProviderStep)
    /\ \A w \in Workers :
          WF_vars(QueueSwaps(w) \/ ClaimNothing(w) \/ ProviderApplied(w) \/ EndCycle(w) \/ Uncertain(w))
    /\ WF_vars(SyncStore \/ SyncFinish \/ DashArrives \/ DashStore)
    /\ \A x \in Readers :
          WF_vars(Fetch(x) \/ Select(x) \/ Examine(x) \/ Close(x) \/ Infer(x) \/ Finish(x))

-----------------------------------------------------------------------------
(***************************************************************************)
(* Properties.                                                             *)
(***************************************************************************)

JobStates == Active \cup {"absent", "blocked", "canceled", "success"}

\* Every variable has its type; what is missing or risky is a stored row, and
\* a job that has not succeeded points to a stored row or to none, across the
\* deletion of rows in mark_swap_success.
TypeOK ==
    /\ now \in 0 .. MaxTime
    /\ gate \in {"auto", "manual", "paused"}
    /\ state \in [Jobs -> JobStates]
    /\ old \in [Jobs -> Assignments \cup {None}]
    /\ token \in [Jobs -> Tokens \cup {None}]
    /\ until \in [Jobs -> Never .. (MaxTime + LEASE + DEFER)]
    /\ attempts \in [Jobs -> 0 .. RETRIES]
    /\ started \in [Jobs -> Times] /\ applied \in [Jobs -> Times]
    /\ new \in [Jobs -> Assignments \cup {None}]
    /\ called \in [Jobs -> BOOLEAN]
    /\ known \subseteq Assignments /\ missing \subseteq known /\ risky \subseteq known
    /\ \A j \in Jobs : state[j] # "success" => old[j] \in known \cup {None}
    /\ seen \in [Assignments -> Times] /\ dash \in [Assignments -> Times]
    /\ ready \in [Assignments -> Never .. (MaxTime + COOLDOWN)]
    /\ subSeen \in Times
    /\ pc \in [Workers -> {"idle", "started", "claiming", "claimed", "context", "checked", "calling", "applied"}]
    /\ job \in [Workers -> 0 .. MaxJobs]
    /\ held \in [Workers -> Tokens \cup {None}]
    /\ manual \in [Workers -> BOOLEAN]
    /\ answer \in [Workers -> 0 .. MaxVersion]
    /\ prov \in [Slots -> 0 .. MaxVersion]
    /\ sent \subseteq Workers
    /\ orphans \in [Slots -> Nat]
    /\ rpc \in [Readers -> {"idle", "fetched", "arrived", "stored", "select", "examine", "close", "infer", "finish"}]
    /\ got \in [Readers -> [Slots -> 0 .. MaxVersion]]
    /\ dashAt \in Times
    /\ snap \in [Readers -> [job : 0 .. MaxJobs, state : JobStates \cup {"none"},
                             at : Times, pick : Assignments \cup {None}]]

\* At most one job of the subscription is claimed, mutating or unresolved:
\* neither an expired lease, nor a manual run, nor a retry lets a second one
\* in (claim_next_swap's NOT EXISTS).
OneAtATime ==
    \A j, k \in Jobs :
        /\ state[j] \in {"running"} \cup Mutation
        /\ state[k] \in {"running"} \cup Mutation
        => j = k

\* A worker talks to the provider only about a job that is behind the
\* non-reclaimable mutation fence under that worker's own claim, and no two
\* workers do so at once, whatever happened to its lease since the claim
\* (revalidate_swap_job with enter_mutation).
FencedCalls ==
    \A w \in Workers : pc[w] = "calling" =>
        /\ state[job[w]] = "mutating"
        /\ held[w] # None
        /\ token[job[w]] = held[w]
        /\ \A v \in Workers : pc[v] = "calling" => v = w

\* A mutation is never sent a second time for one request: a job re-enters
\* the fence only after an administrator requeued it, whatever crashed, timed
\* out or was reconciled since (claim_next_swap recovers running jobs only).
NeverRecalled ==
    [][\A j \in Jobs : state[j] # "mutating" /\ state'[j] = "mutating" => ~ called[j]]_vars

\* "Finalize or safely close jobs using only post-mutation read-only evidence."
\* (docstring of reconcile_provider_applied_swaps): a replacement is accepted
\* on an inventory and a dashboard stamped after the job's mutation began, and
\* after the provider gave up the old assignment.
PostMutationEvidence ==
    [][\A j \in Jobs : state[j] # "success" /\ state'[j] = "success" =>
          /\ seen[new[j]] > started[j]
          /\ dash[new[j]] > started[j]
          /\ VersionOf(old[j]) < prov[SlotOf(old[j])]]_vars

\* "Close an uncertain job only when later read-only evidence proves no swap."
\* (docstring of _reconcile_no_provider_change)
NoChangeProven ==
    [][\A j \in Jobs :
          state[j] = "reconciliation_required" /\ state'[j] = "blocked"
          => prov[SlotOf(old[j])] = VersionOf(old[j])]_vars

\* "An expired `mutating` job or uncertain timeout becomes
\* `reconciliation_required`": no job stays behind the fence for ever.  The
\* crash of its worker leaves one there.
MutationSettles ==
    \A j \in Jobs : state[j] = "mutating" ~> state[j] # "mutating"
=============================================================================
