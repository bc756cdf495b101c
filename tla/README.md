# Formal models of Earn Proxy

TLA+ modules of the parts of Earn Proxy where concurrent processes share one
SQLite database and external services answer late, never, or twice; TLC
configurations that check them on small instances; and TLAPS proofs of the
central safety properties for every size. Paths below are relative to `src/`.

Contents: 1 the system, 2 the modules, 3 the runs, 4 fairness, 5 the proofs,
6 where code and documentation disagree, 7 what is not modelled, 8 the plan.
PROJECT.json lists components, runs, mutants, hazards and theorems, and maps
every definition to the lines it stands for.

## 1. The system

Contributors add proxies and are paid for the time their proxies are usable. Web
processes (Flask), two checker processes, a maintenance process, a payout
verifier and four Proxiware workers (inventory sync, qualification, browser
observation, swap) all write to one SQLite database. There are no
queues besides it: work is handed out by conditional UPDATEs that write a random
claim token and a lease, and a result is accepted if the token is still there. The
one lock outside of it is a file that serializes the workers' use of Chrome.
Each `BEGIN IMMEDIATE` transaction is atomic; everything between two transactions
is not. That is the rule by which code becomes actions in every module.

| Component (files under `app/`) | State | Operations | Hard behaviour | What makes it correct |
|---|---|---|---|---|
| Payouts and wallets (`services/payouts.py`, `payout_verification.py`, `wallets.py`, `payout_verifier_service.py`) | payouts, wallets, balances, verifier's claim | request, approve, submit transaction, claim, read back, RPC, apply verdict, release, change wallet | leases that expire during an RPC call; verdicts about a replaced transaction; reservations given back and retaken | a confirmed payout was really paid, once; nobody reserves more than was earned; payouts keep their wallet; final transactions settle |
| Proxies, egress groups, ledger (`services/proxies.py`, `earnings.py`, `checks.py`, `maintenance_service.py`) | rows, exit address, `duplicate_of`, accrual cursor, probation, ledger | apply results, add, replace, archive, regroup, accrue, promote | reads before the write lock; a clock read at the start of a cycle; results in any order | no second paid twice or without observation; one stable canonical row per address; probation served |
| Check queues (`check_service.py`, `services/checks.py`) | schedules, leases, tokens, threads, host semaphores | claim batch, probe, apply, discard, cancel, shut down, crash | probes outlive leases; credentials replaced; limits changed under running threads | only fresh results are stored; host limit respected; every due row is served |
| Swap jobs (`services/proxiware_swap.py`, `proxiware_swap_service.py`) | jobs, claims, mutation times, assignments and their evidence | queue, claim, revalidate twice, enter fence, call, record, reconcile, cancel, retry, manual run | non-idempotent remote call that times out or crashes; evidence fetched before and stored after the call | one swap at a time; one call per request; outcome decided only by later evidence |
| Inventory sync (`services/proxiware.py`, `proxiware_sync_service.py`) | sync runs, leases, subscriptions, assignments | enqueue, claim, renew, fetch, store, flag, finish, cancel, retry | a lease lost during a provider call; a worker that dies with its run; requests while a run is on | one run writes at a time; nothing older is stored; a success is complete; a requested follow-up is fetched |
| Dashboard observation (`services/proxiware_dashboard.py`, `proxiware_browser_service.py`) | snapshots, schedule, misses, browser lock | observe, apply, back off, hand over the browser | stamps and clocks of different steps; one subscription holding up the others | a snapshot is all or nothing; every subscription gets its turn |
| Qualification (`services/proxiware_qualification*.py`) | verdicts, exits, claims, identity generation, flags | claim, read, probe, judge, write, reconcile, release | credentials renewed and leases expired during a probe; flags read and written in two transactions | what is handed out was probed with its present credentials; no late verdict wins |
| Sessions, intent (`services/proxiware_credentials.py`, both browser workers, `routes/admin.py`) | session, login backoff, automation gate, intent | log in, store, restore, record a failure, prefer | two workers and an administrator log in through one Chrome; a crash between store and restore | logins stay within the backoff; gate and session come back |
| Checker (`checker.py`, the endpoint circuits of `check_service.py`) | circuit per probe endpoint, evidence of a check | fast check, strong check over all hosts, quorum, final verdict | outages, lying hosts, noise, captive proxies; threads that open and close circuits | a trusted address is true; failures of probe hosts and slow calls make no working proxy dead; endpoints return |
| Accounts, API keys, registration limit (`routes/auth.py`, `routes/admin.py`, `services/api_keys.py`, `registration_rate_limit.py`) | users, keys, counters | approve, block, pause, rotate, register | read-then-write of status and pause flag | no lost update |
| Presentation, parsing, settings, crypto | - | - | - | not modelled (section 7) |
| Relay integration, release scripts (`integrations/`, `deploy/`) | pool, release symlinks | - | - | not modelled (section 7) |

Interactions: a check result (CheckQueue) changes earnings and canonical rows
(ProxyLedger); available earnings bound payout requests (Payouts); inventory and
dashboard evidence and qualification verdicts drive swap jobs (SwapJobs), which
ask for a follow-up sync (SyncRuns); a sync renews the credentials that
qualification probes (Qualification), the session decides whether swaps and
observations run at all (Sessions), and the checker's verdicts (Probe) are the
health results of CheckQueue and ProxyLedger.
Administrators change accounts, payouts and jobs underneath all of them.

## 2. The modules

Every action is one database transaction or one step of a process between two
of them; PROJECT.json maps each definition to its lines.

### Payouts
State: the wallets and payouts tables, a balance per user, the verifier's claim
columns, and for each verifier process its place in `run_batch`, the row it read
back and its verdict. The chain is an environment: a transaction transfers
something fixed and moves from unseen over mined to final. `inflight` are web
requests that passed authentication before the account changed. `_claim_one`
commits its claim and *then* reads the row (`payout_verifier_service.py:82`), so
`ReadBack` is an action of its own and may bring another verifier's token. Time is countdowns,
so no bound on time is needed. Fees are computed as the code does, in whole units.

### ProxyLedger
State: the columns of `proxies` that decide about earning, the ledger as a set of
intervals per proxy (the table's UNIQUE key with INSERT OR IGNORE makes it a
set), the requests that have read and not written yet (`edit`), the maintenance
cycle with the time it took (`maint`). Health results are told apart as trusted,
untrusted (no attested address), blocked and dead. `archive_proxy` and
`replace_proxy` read in autocommit mode and take the lock with their first
UPDATE: `EditRead` and the following action. `rewound` is a history variable that names
the rows hit by the cursor rewind of section 6, so that the other properties can
be checked of all others; the unrestricted property is a run of its own.
Left out: `reconcile_proxiware_duplicates`, rates, rounding and accumulated seconds,
`health_mode`, countries, the branch 578-596 of `checks.py` and the
`unobserved_recovery` reason, which `_check_one` cannot reach.

### CheckQueue
State: schedules, leases and tokens of both queues, per worker and row the phase
of its check, the token it holds and the credential generation it read, and the
semaphore a thread acquired. A batch is claimed in one transaction and probed by
threads; a result is applied or discarded in a transaction of its own. Results are told apart by
what they do to the queues. `stale` records rows of a batch that were overtaken
(replaced, archived, claimed again, withdrawn), independently of the tokens the
code compares.

### SwapJobs
State: the jobs of one subscription, its assignments (slot and version) with
inventory, dashboard and qualification columns, the workers, the provider with
requests in flight and abandoned ones (`orphans`), and two readers that fetch,
stamp, store and then reconcile. A worker's cycle is: read the gates, queue, claim,
read the context (which brings the token stored *now*), revalidate, revalidate again
and enter the fence, call, record. A call that is given up stays with the
provider and may still swap. `mark_swap_success` deletes the old row;
`old_assignment_id` has no foreign key, and an id that resolves to nothing is
`None`. The LookupError branch of `mark_swap_success` changes nothing. Left
out: `swap_quota` (nothing writes it), explicit replacement ids, expiry of
subscriptions; attempts are counted up to the retry limit, beyond which the
code only compares. `called` is a history variable: the mutation was sent and nobody
asked for another.

### SyncRuns and ExclusiveSync
`ExclusiveSync` is what sync promises: at most one holder, who writes only what
it read during its hold; a hold may end at any moment. `SyncRuns` is how the
code does it: `provider_sync_runs` with status, token, lease and cancel flag, and
workers that claim, check the account, fetch subscription by subscription, renew and
store in one transaction, look at the cancel flag, finish, and retry on failure.
The provider may list a subscription without a valid id, which is counted and
passed over, or return a proxy without id, host or port, which is counted and left
as it was stored; either run still ends as a success. A worker's `missed` are the
subscriptions for which it counted such an error, and `SuccessIsComplete` is about
the others. A subscription stands for one of its proxies. What was passed over is
then marked missing by the last transaction like anything the provider no longer
lists, which is Qualification's `MarkMissing`.
The provider's state is a version, so that a stored subscription is just the version
it was fetched at. The refinement mapping reads the hold off the tables: the
holder is the run with a live lease (`Holder`), and what it has read is what its
worker fetched and has not stored (`HeldRead`). A worker whose lease ran out
holds nothing, and must therefore write nothing. `wanted` is the version that a
completed swap asked to be fetched (`mark_provider_applied`, which enqueues
beside a running sync).

### Qualification
State: the columns of `provider_assignments` that decide what the feed hands out,
the exits attested for contributors, and per thread what it read, found and means
to write. `qualify_proxiware_assignment` is five actions: read under the claim, probe,
look at identity and duplicates, write behind the fence, and the reconciliation,
whose read and write are two more because they share no transaction. Syncs that
change or keep credentials, rows that go missing, snapshots and their ageing, and
contributors' checks happen in between. `Offered` is the query of the internal API.
`probed` and `overtaken` are history variables: the generation a verdict is
about, and that another verdict was written since a thread read the row.
Left out: the quick retries and cooldown of a fresh replacement.

### Sessions
State: the session row with its backoff, the gate and the intent, the observation
schedule, the browser lock, and for the browser worker, the swap worker and the
administrator their place in a renewal. Each reads the backoff, logs in, stores
the session, reads the intent and writes the gate; or counts the failure, pauses
the gate and stores the backoff, in the code's transactions. The browser
worker's run carries its age, because the snapshots are compared with the clock
read at its start. `extra` counts logins within a backoff, `lost` records a death
between storing a session and restoring the gate.

### Probe
State: which hosts answer, what each proxy is like and which protocol was
declared for it, the circuits, and one check per row. The fast observation asks
one endpoint. The strong check goes call by call (`Call`): rounds over TLS, without
certificates and over plain HTTP, in one or two protocols, with a second attempt.
A curl call ends in an address or in a kind of failure, which the environment
decides (`up`, `kind`, `exit`, `Liars`, `noisy`) and may decide anew between any two
calls; `Quorum`, `Final` and the classification of failures are the code's.

Time is modelled by what it cuts off. `over` says that the protocol's deadline has
passed, at which the rest of a round is not asked (`checker.py:588`, `:615`, `:650`)
and no further attempt is made (`:578`). A call may be the last one in time
(`MayBeLast`) if the arithmetic of the code allows it: the time of a protocol is
divided by all calls of one attempt (`:585`), so the first attempt fits until its last
call, unless a failure of TLS adds a round; a second attempt need not fit. Two things
are outside of curl's timeout, resolving the proxy's name (`:213`) and the turn at a
rate-limited host (`:250`): `Stall`. After one any call may be the last, and the
total deadline may have passed, so that HTTP is not tried any more (`:570`).

`steady` is a history variable: the hosts that were up, while the proxy worked at one
address, ever since the check began; `exits` are the addresses of the attempt.
curl's code 5 (the proxy's name does not resolve) cannot occur, since the address is
pinned before curl runs; it would be a `transient`. Left out: DNS pinning itself,
latency, the EarnApp WSS probe and the intelligence lookup.

## 3. The runs

Every run checks for deadlock as well; none switches it off.

| Run | Instance | Shows |
|---|---|---|
| payout_fencing | 1 payout, 2 transactions, 2 verifiers, leases of 1 tick | `ConfirmedIsPaid` under leases that expire in any RPC call |
| payout_settle | 2 accounts, 1 address, 2 payouts of which the balance covers one at a time, 1 verifier, fair | `ReservedWithinAvailable` through failures and retries; `PayoutKeepsItsWallet`, `LiveWalletKept` while the accounts compete for the address; `FinalTransactionSettles` through crashes and failing calls |
| ledger_cycles | 1 row, 2 addresses, 3 ticks; owner paused and resumed, archive and replace | intervals disjoint (`LedgerDisjoint`) and observed (`PaidWasObserved`), probation served, no pending balance without the right to earn |
| ledger_promotion | 2 rows, 1 address, 3 ticks; the first row fails, is given up and the second promoted | `OnlyEarnersHoldPending`, and `ProbationServed` of the promoted row, which has the time to serve its probation and unlock |
| ledger_paidtwice | the same with 2 ticks | violated; section 6 |
| queue_served | 1 row, a health and an EarnApp worker, all results, 2 credential generations, fair | `OnlyFreshResultsStored`, `EarnappClaimMeansOnline`, `HealthServed`, `EarnappServed` |
| swap_fence | 2 slots, 2 jobs, 2 workers, cancel, retry, manual runs | `OneAtATime`, `FencedCalls` |
| swap_lineage | 1 slot, 1 worker, both readers, nobody requeues | `PostMutationEvidence`, `NeverRecalled` through timeouts, late swaps and crashes |
| sync_hold | 2 workers, 4 run rows, 2 subscriptions, 1 change at the provider, 2 faults, fair | `ImplementsHold`, `OneRun`, `InventoryNeverOlder`, `SuccessIsComplete`, `FollowUpServed`, `RequestsTaken`; malformed answers are faults |
| qual_fence | 1 assignment, 2 threads, 2 generations, 1 fault, snapshots, contributors' exits, missing rows, fair | `OfferedIsCurrent`, `VerdictInOrder`, `Qualified` |
| sessions_renewal | 2 subscriptions, both workers and the administrator, 2 events, fair | `LoginsBounded`, `GateReturns`, `Observed` |
| probe_verdicts | 3 hosts of which one lies, 1 proxy, 2 addresses, any declared protocol, circuits at 2 failures, other threads on host 1, 1 event, fair | `TrustedIsTrue`, `WorkingNotDead`, `EndpointsReturn`, `Concluded` |

Bounds and why they are enough. Two verifiers or swap workers, one row and a
lease of one tick reach every order of claim, expiry, second claim and late
result; a third party would repeat the second's part. The check queues run with
one worker per queue, which is how they are deployed; that several workers of a
queue cannot overtake each other unnoticed is proved for any number (section 5).
Two rows make a group of an address. Ledger runs need MaxTime >= PROBATION and
MaxTime > STALE, so that rows fall silent and earnings unlock. A row is
promoted at 1 at the earliest (DEAD = 1), so ledger_promotion needs
MaxTime = DEAD + PROBATION = 3 for the promoted row to unlock. A swap needs three
instants to be before, at and after the mutation: MaxTime 2. Tokens outnumber
rows and workers, so a fresh one always exists; unused tokens are
interchangeable, which makes the CHOOSE of a fresh one compatible with SYMMETRY.
Runs of temporal formulas under fairness use no symmetry.

A sync needs a second subscription to be incomplete, a second version to be out of
date and two faults to stall one run and end another. Four run rows are enough: one
running, one waiting, and one that each worker may still refer to after it ended.
Qualification runs with one row, since threads meet only on a row: what rows do
to each other (duplicate exits) is left to the proofs, which hold for any number.
`MaxFaults` (crashes, stalls, failed calls, malformed answers, pauses, cancellations,
missing rows) and `MaxEvents` (failed logins, crashes, the operator's changes; outages,
changes of proxies, noise, stalls) bound what goes wrong, not what the processes do. A login backoff
of 2 ticks and a cap of 3 make the cap bind; observations every 2 ticks with a
skew of 1 let a slow first subscription push the second past the run's clock.
One lying host among three is the most a quorum of two honest ones tolerates.
In probe_verdicts (403 978 distinct states) hosts fail one at a time, and a proxy
changes its kind or its address but not both at once. One event is enough for slow
calls and late circuits to meet an outage, noise, a stall, a portal, an interception or
a change of address; with three hosts of which one lies an outage of an honest one
leaves too few to see the proxy by, so outages within `WorkingNotDead` are left to
its theorem, which holds for any number of hosts and events.

`HealthKinds`, `Failing`, `EarnappVerdicts`, `EarnappExits`, `EditKinds`, `UserStates`,
`HealthResults`, `Gates`, `AdminOps`, `Readers`, `Changes`, `Outcomes` and `Others`
select the part of the environment a run is about; between them the runs
exercise every action.

## 4. Fairness

- Payouts: the clock runs; a verifier is restarted by its service manager and is
  not interrupted in every attempt, and RPC calls do not fail for ever: strong
  fairness of its steps. Users, administrators and the chain owe nothing.
- CheckQueue: the same for the checkers. `ORDER BY` on the due time takes rows in
  the order they became due, so a row that stays due is not passed over for ever;
  probes end because curl and the WSS probe have timeouts.
- SwapJobs: weak fairness of the clock, the provider, both readers and of a worker
  behind the fence; crashes remain possible. No run of the module needs it: `FairSpec` is
  there for `MutationSettles` (section 6).
- SyncRuns: weak fairness of each worker and of the clock. Both the service and
  its retries loop for ever, and a crashed service is restarted; faults are bounded, so
  the provider answers eventually.
- Qualification: threads finish what they began, because probes have timeouts; the
  clock runs; `ORDER BY qualification_next_check_at` hands out rows in the order
  they became due, hence strong fairness of a row's being claimed by some
  thread. This presumes that an administrator does not leave the automation
  paused, while which nothing is claimed (`proxiware_qualification_service.py:265`).
  The environment owes nothing.
- Sessions: the browser lock is a blocking `flock` (`proxiware_browser.py:98`),
  and its holders sleep between runs, so a worker that waits for it gets it:
  strong fairness of taking it. Everything else is weak fairness.
- Probe: checks and the clock go on, since every call has a timeout and the sweeps
  come round. `Concluded` asks for an answer only while no noise lasts, two honest
  hosts are up and the proxy's protocol is among those tried.
- ProxyLedger states no liveness.

## 5. The proofs

Assumptions are the ASSUMEs of the component modules: natural numbers for bounds
and durations, NULL being none of the values, and for Probe at least one address,
failures told apart from addresses, and at most one host that lies. No proof
bounds the number of users, rows, jobs, workers, hosts or tokens. Every
invariant and action property that a passing run checks is also a theorem;
two of them carry a hypothesis, named below.

| Module | Theorems | Inductive invariant |
|---|---|---|
| `PayoutsProofs` | `PayoutsTypeCorrect`, `PayoutsConfirmed`, `PayoutsKeepWallets`, `PayoutsLiveWallets`, `PayoutsReserved` | `FenceInv`, `WalletInv` |
| `ProxyLedgerProofs` | `LedgerTypeCorrect`, `LedgerPaysOnce`, `LedgerPaysObserved`, `LedgerProbation`, `LedgerPendingEarned`, `LedgerOnlyEarners` | `LedgerInv` |
| `CheckQueueProofs` | `QueueTypeCorrect`, `QueueStoresFreshResults`, `QueueEarnappOnline`, `QueueHostSlots` | `FreshInv`, `SlotInv` |
| `SwapJobsProofs` | `SwapOneAtATime`, `SwapFencedCalls`, `SwapNeverRecalled`, `SwapTypeCorrect`, `SwapPostMutationEvidence` | `SwapInv`, `ShapeInv`, `LineInv` |
| `SyncRunsProofs` | `SyncTypeCorrect`, `SyncOneRun`, `SyncInventoryNeverOlder`, `SyncSuccessIsComplete`, `SyncImplementsHold` | `SyncInv` |
| `QualificationProofs` | `QualTypeCorrect`, `QualOfferedIsCurrent`, `QualVerdictInOrder` | `QualInv` |
| `SessionsProofs` | `SessionsTypeCorrect`, `SessionsLoginsBounded` | `ProcInv`, `Cool` |
| `ProbeProofs` | `ProbeTypeCorrect`, `ProbeWorkingNotDead`, `ProbeTrustedIsTrue` | `ProbeInv` |

Why each invariant is needed:

- Payouts. ConfirmedIsPaid is not inductive: a verifier
  that holds a "confirmed" verdict about another transaction could break it.
  `FenceInv` adds that hashes are unique among rows, that a row whose token a
  process holds still has the transaction the process read (`Fence`), and that
  a confirmed verdict is right about that transaction. Submission clears the
  token, which is why a replaced transaction cannot be confirmed by an old
  verdict, and why several verifiers holding one token do no harm.
  The wallet theorems need that an address has one holder and that the user of a
  payout is a user with a wallet (`WalletInv`): set_wallet deletes other holders of
  an address, but only those no payout names. `PayoutsReserved` is inductive as it
  stands; its difficulty is the sum over rows, see below.
- ProxyLedger. What an accrual pays lies between the cursor and the end of the last
  success, so `LedgerInv` says of a row whose cursor was never set back that its
  entries lie behind the cursor (`RowSound`), that every tick from the cursor to
  the end of the last success was observed (`CursorSeen`) and that cursor and
  probation are no older than the last interruption, where a promotion begins a
  cycle like one (`Unbroken`); and of every
  row that it earns only after a success (`HealthRow`, `SuccessSeen`) and that what
  is pending is pending in a row that earns (`EarnsIfPending`). The maintenance
  cycle brings a time from before its lock; `MaintInv` keeps it in the past, and the
  invariant holds whatever that time is. `LedgerOnlyEarners` assumes
  `EditKinds = {}`, as its run does: with archives it is false for three rows
  (section 6, `DuplicatesHoldNoPending`). What holds without the hypothesis,
  `LedgerPendingEarned`, is a theorem of its own.
- CheckQueue. `FreshInv` adds that a batch holds a token for every row
  and that a row overtaken in a batch no longer carries that token or that
  generation (`OvertakenIsFenced`), together with `EarnappClaimMeansOnline`,
  which the EarnApp queue needs because `apply_earnapp_result` does not look at
  the status. `QueueHostSlots` (`Spec => []HostSlotsRespected`) rests on
  `SlotInv`: the threads of a batch that probe a host all hold slots of the same
  semaphore, which never has more slots than its limit. A new limit takes
  effect only when a batch begins, after all threads of the last one have ended.
- SwapJobs has three layers. `SwapInv` is the conjunction of the first two
  properties with two strengthenings: a worker past its call finds its token only
  on a job that waits for reconciliation (`AppliedHeld`), which keeps its late
  failure from moving another worker's call, and a job whose mutation was sent is
  not in the queue (`CalledIsBehind`). `ShapeInv` adds what TypeOK depends on: a job
  behind the fence names a row (`Pointed`; no other job does so when
  mark_swap_success deletes it, by OneAtATime), a request is on its way only
  while its worker waits for it (`RequestsAwaited`), and a reader that decides has
  read a job (`SnapsKnown`). `LineInv` is why a replacement is a replacement: every
  stored assignment is one the provider had reached (`KnownBehind`), what the sync
  fetched is not older than what is stored (`FetchOrdered`), so nothing earlier
  in the slot is stamped after the mutation began (`SeenLater`), and so what is
  inferred, answered or recorded for a job comes after what the job replaces
  (`SnapsHold`, `Answered`, `NewIsLater`). `SwapPostMutationEvidence` assumes
  `AdminOps \subseteq {"cancel"}`: a requeued job keeps the stamps of its first
  mutation, and the property fails (section 6). The theorem shows that requeueing is
  the only way it can: late, lost and repeated provider calls, crashes at any
  point, stale fetches and any number of slots and workers do no harm.
- SyncRuns. `SyncInv` adds to the types that at most one row runs
  and one waits (`RowsUnique`), that two workers never refer to one row as theirs
  (`RefsUnique`), that a worker's place in the loop says how far it stored (`LoopOK`),
  that nothing it holds is from the future (`PastOK`), and that while its row runs
  under its token nobody else has written: what it passed without counting an error is
  as new as its claim, what it fetched is the newest (`Undisturbed`). The last is
  what makes an answer that was fetched earlier still the newest when it is stored.
- Qualification. `QualInv` adds that a thread at work has a row (`HasRow`),
  that whatever is live was found so with the present credentials (`Current`; the
  feed's conditions alone would not give it, as flags may be stale), and that an
  overtaken thread has lost its claim and cannot regain it before it is done
  (`Behind`).
- Sessions. The stored backoff stays in its type only because a failure
  that was counted is still counted when its delay is computed: from its login on a
  worker holds the browser, so that nobody resets the count in between (`ProcInv`).
  LoginsBounded needs to know who is still on the way to a login when a cooldown
  begins: at most the one other worker that had looked before (`Cool`).
- Probe. A quorum of two has an honest member (`TruthfulQuorum`), and two honest hosts
  that name one address are a quorum (`HonestQuorum`). `ProbeInv` says what the calls
  of a check have shown so far: an honest host that answered named an exit of the
  attempt (`HonestAnswers`, `HonestFound`), and while a proxy that works is asked in its
  protocol no portal or broken TLS was seen, and a steady host named the one exit or
  left evidence that forbids "dead" (`SteadyAnswers`). `DoubtRemains` is the heart: a
  check of which `WorkingNotDead` speaks passes a round in the right protocol, runs out
  of time or leaves that protocol only with such evidence, or when all have been asked.
  Deadlines do no harm without a stall because a call can be the last one only
  at the end of an attempt, or where evidence is there already (a failed TLS, an
  earlier attempt).

Induction over data. The library's induction theorems take an operator as a
parameter, which the provers do not instantiate. Where a proof needs induction
over numbers (the sum of reservations, the next subscription, the earliest row of
a group) it goes by the least counterexample: every nonempty set of naturals has
a least element (`LeastNatural`), which follows from the library's
`NatLessThanWellFounded` and `WFMin`.

Only model-checked: all liveness (`FinalTransactionSettles`, `HealthServed`,
`EarnappServed`, `FollowUpServed`, `RequestsTaken`, `Qualified`, `GateReturns`,
`Observed`, `EndpointsReturn`, `Concluded`), since the prover handles neither
fairness nor ENABLED.

## 6. Where code and documentation disagree

Kept as a run that expects a violation, with the quoted sentence under "findings"
in PROJECT.json: `ledger_paidtwice`. Promotion sets the cursor to the time the
maintenance cycle began, behind what another process accrued meanwhile, and the
interval is paid again.

The following statements are violated by the modules as they stand as well. They are
kept as definitions, without a run of their own; TLC reports each of them under
the constants given here.

| Property | Constants | What happens | What it contradicts |
|---|---|---|---|
| `OutstandingWithinLimit` (Payouts) | payout_settle with one user, two hashes and MaxAvailable = 20 | resubmitting a failed payout makes it nonterminal again without consulting the limit (`payout_verification.py:270`) | `README.md:106`, "up to 10 nonterminal payout requests" |
| `OneCanonical` (ProxyLedger) | 3 rows, 2 addresses, MaxTime 1, trusted results, archive | `archive_proxy` reads its group before it takes the lock (`proxies.py:341`); a row that joins meanwhile leaves the address with two canonical rows | `proxies.py:459`, "one stable distributor" |
| `CanonicalIsStable` (ProxyLedger) | the same without archive | the group a row leaves is ordered by other columns (`proxies.py:437`) and its canonical row changes | `proxies.py:481`, "prevents check completion order from flipping the canonical proxy" |
| `DuplicatesHoldNoPending` (ProxyLedger) | 3 rows, 1 address, MaxTime 1, trusted and untrusted results, archive | a row that joins during an archive becomes a duplicate with its pending balance (`proxies.py:495`) | `db.py:467`, "must not retain a pending balance" |
| `PostMutationEvidence` (SwapJobs) | swap_lineage with AdminOps = {"manual"}, RETRIES = 1 | a requeued job keeps `provider_applied_at` (`proxiware_swap.py:1941`), and its second mutation is finalized on evidence stamped before it began | `proxiware_swap.py:1717`, "only post-mutation read-only evidence" |
| `DuplicatesEarnNothing` (ProxyLedger) | 2 rows, 1 address, MaxTime 3, trusted results, archive | a duplicate that becomes canonical through regrouping keeps its old cursor (`proxies.py:495`) and is paid for the time it was a duplicate | `README.md:11`, "duplicate-egress rows earn $0" |
| `NoChangeProven` (SwapJobs) | swap_lineage with RETRIES = 1 | evidence fetched before the provider acted and stored after the mutation began closes a job whose swap took place | `proxiware_swap.py:1617`, "only when later read-only evidence proves no swap" |
| `NoStaleFlag` (Qualification) | qual_fence | the reconciliation after a verdict reads in one transaction and writes in another (`proxiware_qualification.py:184`, `:221`); a verdict in between is left with the flag of the older one. The feed checks the verdict itself and hands out nothing wrong (`OfferedIsCurrent`) | `proxiware_qualification.py:379`, "cannot leave a stale distributable flag behind" |
| `NotResumedSilently` (Sessions) | sessions_renewal | a renewal reads the intent and then writes the gate (`proxiware_credentials.py:404`); a preference set in between is overwritten | `proxiware_swap_service.py:315`, "Do not silently resume it" |
| `MutationSettles` (SwapJobs, under `FairSpec`) | swap_lineage with MaxTime = 1, Readers = {"sync"} | a worker that stops during the call leaves its job in `mutating` with no lease (`proxiware_swap.py:1187`), and nothing moves it | `docs/superpowers/plans/2026-09-25-proxiware-production-ready.md:172` |

Smaller observations met while modelling, which no sentence of the repository
contradicts outright:

- A cancelled sync run raises an error that is classified as the provider being
  unavailable, so the service retries what the administrator cancelled.
- An assignment that was missing and is listed again without a status keeps the
  status "missing" and is not qualified until one is sent (`StoreSame`).
- A worker that dies between storing a renewed session and restoring the gate
  (`proxiware_credentials.py:447`) leaves the gate closed with a live session, and
  later runs take that for an operator's pause: `GateReturns` excludes it by `lost`.
  The runbook (`docs/runbooks/proxiware.md:57`) says a renewal restores the intent.
- An automation pause after an uncertain swap is lifted by the next renewal of the
  session, which restores the intent whatever closed the gate.
- The administrator's login is not serialized by the browser lock.
- Observation delays count from the start of a run, so a slow first
  subscription makes the snapshots of the next too new for the run's clock.
- A working proxy may be declared dead where `WorkingNotDead` makes an exception,
  although `docs/benchmarks/2026-09-06-proxio-whoami.md:31` says of the rate-limited host
  that "its rate limits or failures do not independently mark a proxy dead". Without
  `~stalled[r]` TLC finds six steps: a lookup stalls the first SOCKS call of an HTTP
  proxy whose protocol is detected, curl answers 97, the total deadline has passed, and
  the check breaks off before HTTP is tried (`checker.py:570`), for which the comment
  above `:576` reserves time. Likewise a round that is cut (`:588`, `:650`)
  after one unreachable host answered a SOCKS proxy with 97 holds no other evidence.
  And a SOCKS proxy that works, while fewer than two honest hosts can be reached or
  its address changes from call to call, has no quorum, and may have nothing
  but such answers.

## 7. Not modelled

Web pages, forms, parsing, exports and settings (no shared state of their own);
encryption, passwords, SSO and captcha solving; curl, DNS, the EarnApp WSS probe and
the browser's page scripts (their outcomes are inputs of the modules); Chrome
supervision and heartbeats (process I/O); the schema migration, which runs once at
start under its own lock; registration limits and API keys (a counter and a lookup
in one transaction); the relay integration, a separate service that polls the
feed; and the release scripts. The chain has no reorganisations. Account
changes are atomic here, although `_change_user` reads before it writes.

## 8. Plan

Done, in this order: Payouts, ProxyLedger, CheckQueue, SwapJobs with their proofs;
SyncRuns with its abstract specification and the proof of the refinement;
Qualification with its proofs; Sessions; Probe.

Proved since: all safety of Payouts, ProxyLedger, Sessions and Probe, the types of
SwapJobs and its evidence. What is left: abstract specifications still worth
stating and refining, a swap as an atomic replacement (SwapJobs implements it where
no job is requeued; `LineInv` is most of that proof) and a check as a request that is
answered at most once (CheckQueue); and theorems that say of rows hit by the cursor
rewind what still holds of them.
