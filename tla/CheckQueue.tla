------------------------------ MODULE CheckQueue ------------------------------
(***************************************************************************)
(* The durable work queues of the health and EarnApp workers: which rows   *)
(* are due, who has claimed them, how a batch is probed through the        *)
(* provider slots, which results still count when they come back, and what *)
(* a stopped or crashed worker leaves behind.                              *)
(*                                                                         *)
(* A claim and the application of a result each hold the SQLite write lock *)
(* and are one action; between them the probe runs for minutes while other *)
(* workers, owners and administrators change the row.  What a result does  *)
(* to earnings and egress identity is the subject of ProxyLedger.          *)
(*                                                                         *)
(* Schedules and leases are countdowns, decremented by Tick.               *)
(***************************************************************************)
EXTENDS Integers, FiniteSets

CONSTANTS
    Proxies,            \* rows of the proxies table
    Host,               \* the provider host of a row
    HealthWorkers, EarnappWorkers,
    Tokens,             \* claim tokens, at least one per row and queue and per job
    None,               \* NULL
    BATCH,              \* the largest batch (health_concurrency)
    Limits,             \* values of health_per_host_concurrency that occur
    INTERVAL,           \* ticks between health checks
    RETRY,              \* ticks until a failed or inconclusive check is repeated
    REFRESH,            \* ticks between EarnApp refreshes
    LEASE,              \* ticks of the ten-minute lease
    HealthResults,      \* bound: kinds of health results that occur
    MaxGen              \* bound: credential generations of a row

Queues == {"health", "earnapp"}
Workers == HealthWorkers \cup EarnappWorkers
QueueOf(w) == IF w \in HealthWorkers THEN "health" ELSE "earnapp"

\* Kinds of health results, told apart by what they do to the queues: "moved"
\* (another egress address), "late" (a success after a silence), "failed" (a
\* confirmed failure that leaves the status), "down" (one that does not).
AllResults == {"live", "unattested", "moved", "late", "inconclusive",
               "blocked", "failed", "down"}

ASSUME QueueAssumption ==
    /\ HealthWorkers \cap EarnappWorkers = {}
    /\ None \notin Tokens
    /\ BATCH \in Nat \ {0}
    /\ Limits \subseteq Nat \ {0} /\ Limits # {}
    /\ INTERVAL \in Nat \ {0} /\ RETRY \in Nat \ {0} /\ REFRESH \in Nat \ {0}
    /\ LEASE \in Nat \ {0} /\ MaxGen \in Nat \ {0}
    /\ HealthResults \subseteq AllResults

VARIABLES
    active,     \* the status of the row's owner is 'active'
    status,     \* proxies.status as far as the queues ask
    gen,        \* credential_generation
    due,        \* ticks until next_check_at / earnapp_next_check_at
    lease,      \* ticks until check_claimed_until / earnapp_claimed_until
    token,      \* check_claim_token / earnapp_claim_token
    phase,      \* where each worker is with each row of its batch
    held,       \* the token it claimed the row with
    probed,     \* the credential generation it read
    limit,      \* the worker's per_host_concurrency
    slot,       \* the limit of the semaphore a probing thread has acquired
    begun,      \* the worker has applied a result of its batch
    stale,      \* history: rows of a batch whose claim was overtaken
    stored      \* history: what kind of result the row carries

rowVars == <<active, status, gen, due, lease, token>>
batchVars == <<phase, held, probed, limit, slot, begun>>
histVars == <<stale, stored>>
vars == <<rowVars, batchVars, histVars>>

Phases == {"none", "submitted", "probing", "probed"}
Statuses == {"pending", "online", "down", "archived"}

BatchOf(w) == {p \in Proxies : phase[w][p] # "none"}
Idle(w) == BatchOf(w) = {}

MaxOf(a, b) == IF a <= b THEN b ELSE a
Longest == MaxOf(INTERVAL, MaxOf(RETRY, REFRESH))

-----------------------------------------------------------------------------
(***************************************************************************)
(* Claims.                                                                 *)
(***************************************************************************)

\* Mutant: a claim that ran out is not taken over, only a released one.
HealthDueReleasedOnly(p) ==
    /\ status[p] # "archived"
    /\ active[p]
    /\ due["health"][p] = 0
    /\ token["health"][p] = None

\* claim_due_proxies: due, or left behind by a worker whose lease ran out.
HealthDue(p) ==
    /\ status[p] # "archived"
    /\ active[p]
    /\ due["health"][p] = 0 \/ token["health"][p] # None
    /\ lease["health"][p] = 0

\* Mutant: the same of the EarnApp queue.
EarnappDueReleasedOnly(p) ==
    /\ status[p] = "online"
    /\ active[p]
    /\ due["earnapp"][p] = 0
    /\ token["earnapp"][p] = None

\* claim_due_earnapp
EarnappDue(p) ==
    /\ status[p] = "online"
    /\ active[p]
    /\ due["earnapp"][p] = 0
    /\ lease["earnapp"][p] = 0

DueRows(q) == {p \in Proxies : IF q = "health" THEN HealthDue(p) ELSE EarnappDue(p)}

\* LIMIT: a full batch, or every row that is due.
BatchesOf(rows) ==
    {S \in SUBSET rows : S # {} /\ (S = rows \/ Cardinality(S) = BATCH)
                         /\ Cardinality(S) <= BATCH}

UsedTokens ==
    {token[q][p] : q \in Queues, p \in Proxies} \cup {held[w][p] : w \in Workers, p \in Proxies}

FreshToken == CHOOSE t \in Tokens : t \notin UsedTokens

\* History: the claims of `rows` other workers of the queue still hold are
\* overtaken.
Overtake(q, rows, by) ==
    [v \in Workers |->
        IF v # by /\ QueueOf(v) = q THEN stale[v] \cup (rows \cap BatchOf(v)) ELSE stale[v]]

\* run_batch / run_earnapp_batch up to the submitted futures.  One token for
\* the whole batch; a health claim also schedules the next check.  The rows
\* are read back after the commit by that token: one that has lost it in
\* between is left out of the batch, one that has not is as claimed, so the
\* claim is what was read.  secrets never repeats a token, and any token that
\* nobody holds is as good as a new one.
Claim(w, rows) ==
    LET q == QueueOf(w)
        t == FreshToken
    IN
    /\ Idle(w)
    /\ rows \in BatchesOf(DueRows(q))
    /\ Tokens \ UsedTokens # {}
    /\ token' = [token EXCEPT ![q] = [p \in Proxies |-> IF p \in rows THEN t ELSE @[p]]]
    /\ held' = [held EXCEPT ![w] = [p \in Proxies |-> IF p \in rows THEN t ELSE None]]
    /\ lease' = [lease EXCEPT ![q] = [p \in Proxies |-> IF p \in rows THEN LEASE ELSE @[p]]]
    /\ due' = IF q = "health"
              THEN [due EXCEPT ![q] = [p \in Proxies |-> IF p \in rows THEN INTERVAL ELSE @[p]]]
              ELSE due
    /\ phase' = [phase EXCEPT ![w] = [p \in Proxies |-> IF p \in rows THEN "submitted" ELSE "none"]]
    /\ probed' = [probed EXCEPT ![w] = gen]
    /\ begun' = [begun EXCEPT ![w] = FALSE]
    /\ stale' = [Overtake(q, rows, w) EXCEPT ![w] = {}]
    /\ UNCHANGED <<active, status, gen, limit, slot, stored>>

-----------------------------------------------------------------------------
(***************************************************************************)
(* Probes.                                                                 *)
(***************************************************************************)

Probing(w, host) == {p \in Proxies : phase[w][p] = "probing" /\ Host[p] = host}

\* Mutant: settings are refreshed while a batch is running.
MayRefreshAnyTime(w) == TRUE

\* run_batch waits for all futures of its batch.
MayRefresh(w) == Idle(w)

\* refresh_settings, by run_forever and run_batch.
RefreshSettings(w, n) ==
    /\ MayRefresh(w)
    /\ limit' = [limit EXCEPT ![w] = n]
    /\ UNCHANGED <<rowVars, phase, held, probed, slot, begun, histVars>>

\* provider_slot: a host's semaphore is replaced when the setting has changed,
\* and a thread waits for the one that is current when it asks.
SlotFree(w, p) ==
    Cardinality({r \in Probing(w, Host[p]) : slot[w][r] = limit[w]}) < limit[w]

\* Health probes run in the thread pool; EarnApp probes one after the other.
StartProbe(w, p) ==
    /\ phase[w][p] = "submitted"
    /\ IF w \in HealthWorkers THEN SlotFree(w, p)
       ELSE \A r \in Proxies : phase[w][r] \in {"none", "submitted"}
    /\ phase' = [phase EXCEPT ![w][p] = "probing"]
    /\ slot' = [slot EXCEPT ![w][p] = limit[w]]
    /\ UNCHANGED <<rowVars, held, probed, limit, begun, histVars>>

FinishProbe(w, p) ==
    /\ phase[w][p] = "probing"
    /\ phase' = [phase EXCEPT ![w][p] = "probed"]
    /\ slot' = [slot EXCEPT ![w][p] = 0]
    /\ UNCHANGED <<rowVars, held, probed, limit, begun, histVars>>

-----------------------------------------------------------------------------
(***************************************************************************)
(* Results.                                                                *)
(***************************************************************************)

\* Mutant: only the credential is compared, not the claim.
AcceptsAnyClaim(w, p) == status[p] # "archived" /\ gen[p] = probed[w][p]

\* The checks both result handlers begin with.
Accepts(w, p) ==
    /\ status[p] # "archived"
    /\ gen[p] = probed[w][p]
    /\ token[QueueOf(w)][p] = held[w][p]

\* The job is over, whatever became of its result.
Done(w, p) ==
    /\ phase' = [phase EXCEPT ![w][p] = "none"]
    /\ held' = [held EXCEPT ![w][p] = None]
    /\ begun' = [begun EXCEPT ![w] = TRUE]
    /\ UNCHANGED <<probed, limit, slot>>

\* A result that is not accepted changes nothing.
Discard(w, p) ==
    /\ phase[w][p] = "probed"
    /\ ~ Accepts(w, p)
    /\ Done(w, p)
    /\ stale' = [stale EXCEPT ![w] = @ \ {p}]
    /\ UNCHANGED <<rowVars, stored>>

\* Mutant: a failed check leaves the EarnApp claim to its worker.
WithdrawsUnlessFailed(r) == r \in {"moved", "late", "blocked"}

\* Results that withdraw the row's EarnApp claim.
Withdraws(r) == r \in {"moved", "late", "blocked", "failed", "down"}

\* Results that make an EarnApp probe due at once.
Requalifies(r) == r \in {"unattested", "moved", "blocked", "failed", "down"}

StatusAfter(p, r) ==
    IF r \in {"live", "unattested", "moved", "late"} THEN "online"
    ELSE IF r \in {"blocked", "down"} THEN "down"
    ELSE status[p]

\* History: the EarnApp probes of p no longer speak of what the row says.
Disturb(p, r) ==
    [v \in Workers |->
        IF v \in EarnappWorkers /\ r \in {"moved", "late", "blocked", "failed", "down"}
        THEN stale[v] \cup ({p} \cap BatchOf(v)) ELSE stale[v]]

Fresh(w, p) == IF p \in stale[w] THEN "overtaken" ELSE "fresh"

\* apply_health_result, accepted.
ApplyHealth(w, p, r) ==
    /\ w \in HealthWorkers
    /\ phase[w][p] = "probed"
    /\ Accepts(w, p)
    /\ r = "late" => status[p] \in {"online", "down"}
    /\ status' = [status EXCEPT ![p] = StatusAfter(p, r)]
    /\ due' = [q \in Queues |-> [due[q] EXCEPT ![p] =
                  IF q = "health" THEN (IF r \in {"inconclusive", "failed", "down"}
                                        THEN RETRY ELSE INTERVAL)
                  ELSE IF Requalifies(r) THEN 0 ELSE @]]
    /\ lease' = [q \in Queues |-> [lease[q] EXCEPT ![p] =
                    IF q = "health" \/ Withdraws(r) THEN 0 ELSE @]]
    /\ token' = [q \in Queues |-> [token[q] EXCEPT ![p] =
                    IF q = "health" \/ Withdraws(r) THEN None ELSE @]]
    /\ Done(w, p)
    /\ stale' = [Disturb(p, r) EXCEPT ![w] = @ \ {p}]
    /\ stored' = [stored EXCEPT !["health"][p] = Fresh(w, p)]
    /\ UNCHANGED <<active, gen>>

\* apply_earnapp_result, accepted; `moved`: EarnApp saw another address.
ApplyEarnapp(w, p, moved) ==
    /\ w \in EarnappWorkers
    /\ phase[w][p] = "probed"
    /\ Accepts(w, p)
    /\ due' = [due EXCEPT !["earnapp"][p] = IF moved THEN 0 ELSE REFRESH]
    /\ lease' = [lease EXCEPT !["earnapp"][p] = 0]
    /\ token' = [token EXCEPT !["earnapp"][p] = None]
    /\ Done(w, p)
    /\ stale' = [stale EXCEPT ![w] = @ \ {p}]
    /\ stored' = [stored EXCEPT !["earnapp"][p] = Fresh(w, p)]
    /\ UNCHANGED <<active, status, gen>>

-----------------------------------------------------------------------------
(***************************************************************************)
(* Workers that stop.                                                      *)
(***************************************************************************)

\* The process has no batch any more.
Leave(w) ==
    /\ phase' = [phase EXCEPT ![w] = [p \in Proxies |-> "none"]]
    /\ held' = [held EXCEPT ![w] = [p \in Proxies |-> None]]
    /\ begun' = [begun EXCEPT ![w] = FALSE]
    /\ slot' = [slot EXCEPT ![w] = [p \in Proxies |-> 0]]
    /\ stale' = [stale EXCEPT ![w] = {}]
    /\ UNCHANGED <<probed, limit>>

\* Jobs given up on shutdown: futures that could be cancelled before they
\* started, EarnApp rows not reached.
Cancelled(w) ==
    {p \in Proxies : phase[w][p] = "submitted" /\ token[QueueOf(w)][p] = held[w][p]}

\* SIGTERM.  run_batch notices it after a result, run_earnapp_batch before a
\* row; release_health_claims / release_earnapp_claims make what was given up
\* due at once.  A probe that is running keeps its lease.
Shutdown(w) ==
    LET q == QueueOf(w) IN
    /\ ~ Idle(w)
    /\ IF q = "health" THEN begun[w]
       ELSE \A p \in Proxies : phase[w][p] \in {"none", "submitted"}
    /\ due' = [due EXCEPT ![q] = [p \in Proxies |-> IF p \in Cancelled(w) THEN 0 ELSE @[p]]]
    /\ lease' = [lease EXCEPT ![q] = [p \in Proxies |-> IF p \in Cancelled(w) THEN 0 ELSE @[p]]]
    /\ token' = [token EXCEPT ![q] = [p \in Proxies |-> IF p \in Cancelled(w) THEN None ELSE @[p]]]
    /\ Leave(w)
    /\ UNCHANGED <<active, status, gen, stored>>

\* The process dies, or a database error ends the batch; systemd restarts it.
Crash(w) ==
    /\ ~ Idle(w)
    /\ Leave(w)
    /\ UNCHANGED <<rowVars, stored>>

-----------------------------------------------------------------------------
(***************************************************************************)
(* Owners, administrators and the clock.                                   *)
(***************************************************************************)

AllStale(p) == [v \in Workers |-> stale[v] \cup ({p} \cap BatchOf(v))]

\* replace_proxy: a new credential, due at once, without claims.
ReplaceProxy(p) ==
    /\ status[p] # "archived"
    /\ gen[p] < MaxGen
    /\ gen' = [gen EXCEPT ![p] = @ + 1]
    /\ status' = [status EXCEPT ![p] = "pending"]
    /\ due' = [q \in Queues |-> [due[q] EXCEPT ![p] = 0]]
    /\ lease' = [q \in Queues |-> [lease[q] EXCEPT ![p] = 0]]
    /\ token' = [q \in Queues |-> [token[q] EXCEPT ![p] = None]]
    /\ stale' = AllStale(p)
    /\ stored' = [q \in Queues |-> [stored[q] EXCEPT ![p] = "none"]]
    /\ UNCHANGED <<active, batchVars>>

\* archive_proxy and archive_due_dead_proxies leave the claims where they are.
ArchiveProxy(p) ==
    /\ status[p] # "archived"
    /\ status' = [status EXCEPT ![p] = "archived"]
    /\ stale' = AllStale(p)
    /\ UNCHANGED <<active, gen, due, lease, token, batchVars, stored>>

\* An administrator blocks or reactivates the owner.
ChangeUser(p) ==
    /\ active' = [active EXCEPT ![p] = ~ @]
    /\ UNCHANGED <<status, gen, due, lease, token, batchVars, histVars>>

Dec(n) == IF n = 0 THEN 0 ELSE n - 1

Tick ==
    /\ due' = [q \in Queues |-> [p \in Proxies |-> Dec(due[q][p])]]
    /\ lease' = [q \in Queues |-> [p \in Proxies |-> Dec(lease[q][p])]]
    /\ UNCHANGED <<active, status, gen, token, batchVars, histVars>>

-----------------------------------------------------------------------------
\* Rows start as add_proxy inserts them.
Init ==
    /\ active = [p \in Proxies |-> TRUE]
    /\ status = [p \in Proxies |-> "pending"]
    /\ gen = [p \in Proxies |-> 1]
    /\ due = [q \in Queues |-> [p \in Proxies |-> 0]]
    /\ lease = [q \in Queues |-> [p \in Proxies |-> 0]]
    /\ token = [q \in Queues |-> [p \in Proxies |-> None]]
    /\ phase = [w \in Workers |-> [p \in Proxies |-> "none"]]
    /\ held = [w \in Workers |-> [p \in Proxies |-> None]]
    /\ probed = [w \in Workers |-> [p \in Proxies |-> 1]]
    /\ limit \in [Workers -> Limits]
    /\ slot = [w \in Workers |-> [p \in Proxies |-> 0]]
    /\ begun = [w \in Workers |-> FALSE]
    /\ stale = [w \in Workers |-> {}]
    /\ stored = [q \in Queues |-> [p \in Proxies |-> "none"]]

WorkerStep(w) ==
    \/ \E n \in Limits : RefreshSettings(w, n)
    \/ \E rows \in SUBSET Proxies : Claim(w, rows)
    \/ \E p \in Proxies :
          \/ StartProbe(w, p)
          \/ FinishProbe(w, p)
          \/ \E r \in HealthResults : ApplyHealth(w, p, r)
          \/ \E moved \in BOOLEAN : ApplyEarnapp(w, p, moved)
          \/ Discard(w, p)
    \/ Shutdown(w)
    \/ Crash(w)

Next ==
    \/ \E w \in Workers : WorkerStep(w)
    \/ \E p \in Proxies : ReplaceProxy(p) \/ ArchiveProxy(p) \/ ChangeUser(p)
    \/ Tick

Spec == Init /\ [][Next]_vars

\* Fairness.  The clock runs.  Each worker is restarted when it stops and is
\* not killed in every batch: strong fairness of its steps.  ORDER BY takes
\* the rows in the order in which they became due, so no row that keeps
\* becoming due is passed over for ever.  Probes end: curl and the WSS probe
\* have timeouts.
Apply(w, p) ==
    \/ \E r \in HealthResults : ApplyHealth(w, p, r)
    \/ \E moved \in BOOLEAN : ApplyEarnapp(w, p, moved)
    \/ Discard(w, p)

FairSpec ==
    /\ Spec
    /\ WF_vars(Tick)
    /\ \A w \in Workers, p \in Proxies :
          /\ SF_vars(\E rows \in SUBSET Proxies : p \in rows /\ Claim(w, rows))
          /\ SF_vars(StartProbe(w, p))
          /\ SF_vars(FinishProbe(w, p))
          /\ SF_vars(Apply(w, p))

-----------------------------------------------------------------------------
(***************************************************************************)
(* Properties.                                                             *)
(***************************************************************************)

\* The queue columns of the proxies table and the workers' batches have their
\* types.
TypeOK ==
    /\ active \in [Proxies -> BOOLEAN]
    /\ status \in [Proxies -> Statuses]
    /\ gen \in [Proxies -> 1 .. MaxGen]
    /\ due \in [Queues -> [Proxies -> 0 .. Longest]]
    /\ lease \in [Queues -> [Proxies -> 0 .. LEASE]]
    /\ token \in [Queues -> [Proxies -> Tokens \cup {None}]]
    /\ phase \in [Workers -> [Proxies -> Phases]]
    /\ held \in [Workers -> [Proxies -> Tokens \cup {None}]]
    /\ probed \in [Workers -> [Proxies -> 1 .. MaxGen]]
    /\ limit \in [Workers -> Limits]
    /\ slot \in [Workers -> [Proxies -> Limits \cup {0}]]
    /\ begun \in [Workers -> BOOLEAN]
    /\ stale \in [Workers -> SUBSET Proxies]
    /\ stored \in [Queues -> [Proxies -> {"none", "fresh", "overtaken"}]]

\* A result is stored only if nothing overtook its probe: the row was not
\* replaced, archived or claimed again by another worker, and, for an EarnApp
\* verdict, no health result said meanwhile that the proxy had failed, was
\* blocked, had been silent or had moved (the generation and token checks of
\* apply_health_result and apply_earnapp_result).
OnlyFreshResultsStored ==
    \A q \in Queues, p \in Proxies : stored[q][p] # "overtaken"

\* An EarnApp claim exists only on rows that are online or that were archived
\* with it, so that an accepted verdict is about an online proxy although
\* apply_earnapp_result does not look at the status.
EarnappClaimMeansOnline ==
    \A p \in Proxies :
        token["earnapp"][p] # None => status[p] \in {"online", "archived"}

\* No worker runs more simultaneous checks against one provider host than its
\* setting allows, although changing the setting replaces the semaphore
\* (provider_slot).
HostSlotsRespected ==
    \A w \in HealthWorkers, p \in Proxies : Cardinality(Probing(w, Host[p])) <= limit[w]

\* "A claim has a short lease and is released when a job is cancelled, so a
\* restart does not permanently strand a proxy": a row of an active owner that
\* is due or claimed gets a result, or stops being due because the row or its
\* owner changes.
HealthPending(p) ==
    status[p] # "archived" /\ active[p] /\ (due["health"][p] = 0 \/ token["health"][p] # None)
HealthServed == \A p \in Proxies : HealthPending(p) ~> ~ HealthPending(p)

\* The same of the EarnApp queue, once health results stop withdrawing its
\* claims and its own verdicts stop finding other addresses.
EarnappPending(p) ==
    status[p] = "online" /\ active[p] /\ (due["earnapp"][p] = 0 \/ token["earnapp"][p] # None)
Unsettled ==
    \/ \E w \in HealthWorkers, p \in Proxies, r \in HealthResults :
          Withdraws(r) /\ ApplyHealth(w, p, r)
    \/ \E w \in EarnappWorkers, p \in Proxies : ApplyEarnapp(w, p, TRUE)
EarnappServed ==
    <>[][~ Unsettled]_vars =>
        \A p \in Proxies : EarnappPending(p) ~> ~ EarnappPending(p)
=============================================================================
