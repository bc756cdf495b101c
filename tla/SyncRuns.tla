------------------------------ MODULE SyncRuns ------------------------------
(***************************************************************************)
(* The inventory synchronisation of the provider's subscriptions: the      *)
(* durable queue of sync runs, the lease under which one run at a time     *)
(* may write the inventory, and the workers that claim a run, call the     *)
(* provider between transactions and store what it answers.                *)
(*                                                                         *)
(* A row that has ended is never read again, so the rows are a finite set  *)
(* and a row nobody refers to is taken anew.  The provider's state is a    *)
(* version; storing a subscription stores the version its proxies were     *)
(* fetched at.  A subscription stands for one proxy.  An answer of the     *)
(* provider may be malformed in part: the run counts an error, passes over *)
(* the entry and succeeds nevertheless.                                    *)
(* Leases count down: left is claimed_until minus the clock.               *)
(*                                                                         *)
(* Left to Qualification: what storing a subscription does to its          *)
(* assignments, and the marking of what the provider no longer lists.      *)
(* Left to SwapJobs: the reconciliation that follows a successful run.     *)
(***************************************************************************)
EXTENDS Naturals, FiniteSets

CONSTANTS
    Workers,        \* processes that synchronise
    Runs,           \* rows of provider_sync_runs
    N,              \* the number of subscriptions the provider lists
    None,           \* NULL
    LEASE,          \* ticks of a claim
    RETRIES,        \* retry_limit of the service
    MaxVersion,     \* bound: changes at the provider
    MaxFaults       \* bound: crashes, stalls, pauses, cancels, failed calls
                    \* and answers malformed in part

ASSUME SyncAssumption ==
    /\ N \in Nat /\ LEASE \in Nat \ {0} /\ RETRIES \in Nat \ {0}
    /\ MaxVersion \in Nat /\ MaxFaults \in Nat
    /\ None \notin Workers /\ None \notin Runs /\ None \notin Nat

VARIABLES
    version,        \* the provider's state
    wanted,         \* the version a completed swap asked to be fetched
    inv,            \* the version each subscription's proxy was stored at
    \* provider_sync_runs
    status, token, left, cancel,
    paused,         \* automation is paused, or there is no API key
    \* the workers: where they are, their row, the subscription they are at,
    \* the version fetched, the attempt; the version when they claimed and
    \* the subscriptions whose entry or proxy they have counted as an error
    pc, run, at, got, attempt, since, missed,
    faults          \* what has gone wrong so far

vars == <<version, wanted, inv, status, token, left, cancel, paused,
          pc, run, at, got, attempt, since, missed, faults>>
rows == <<status, token, left, cancel>>
world == <<version, wanted, paused>>

Subs == 1 .. N
Statuses == {"queued", "running", "success", "failed", "canceled"}

TypeOK ==
    /\ version \in 0 .. MaxVersion /\ wanted \in 0 .. MaxVersion
    /\ inv \in [Subs -> 0 .. MaxVersion]
    /\ status \in [Runs -> Statuses]
    /\ token \in [Runs -> Workers \cup {None}]
    /\ left \in [Runs -> 0 .. LEASE]
    /\ cancel \in [Runs -> BOOLEAN]
    /\ paused \in BOOLEAN
    /\ pc \in [Workers -> {"idle", "claim", "list", "check", "flag", "fetch",
                           "store", "finish"}]
    /\ run \in [Workers -> Runs \cup {None}]
    /\ at \in [Workers -> 0 .. N + 1]
    /\ got \in [Workers -> 0 .. MaxVersion]
    /\ attempt \in [Workers -> 0 .. RETRIES]
    /\ since \in [Workers -> 0 .. MaxVersion]
    /\ missed \in [Workers -> SUBSET Subs]
    /\ faults \in 0 .. MaxFaults

Init ==
    /\ version = 0 /\ wanted = 0 /\ inv = [s \in Subs |-> 0]
    /\ status = [r \in Runs |-> "failed"]
    /\ token = [r \in Runs |-> None]
    /\ left = [r \in Runs |-> 0]
    /\ cancel = [r \in Runs |-> FALSE]
    /\ paused = FALSE
    /\ pc = [w \in Workers |-> "idle"]
    /\ run = [w \in Workers |-> None]
    /\ at = [w \in Workers |-> 0]
    /\ got = [w \in Workers |-> 0]
    /\ attempt = [w \in Workers |-> 0]
    /\ since = [w \in Workers |-> 0]
    /\ missed = [w \in Workers |-> {}]
    /\ faults = 0

\* Something goes wrong, as often as the bound allows.
Fault ==
    /\ faults < MaxFaults
    /\ faults' = faults + 1

---------------------------------------------------------------------------
(* The queue.                                                              *)

\* A row that has ended and that no worker refers to.
Free(r) ==
    /\ status[r] \notin {"queued", "running"}
    /\ \A w \in Workers : run[w] # r

NewRow == CHOOSE r \in Runs : Free(r)

\* Bound: the table always has room; one row more than the workers refer to,
\* the one that waits and the one that runs is enough.
HasRoom == \E r \in Runs : Free(r)

Queued == {r \in Runs : status[r] = "queued"}
Running == {r \in Runs : status[r] = "running"}

\* enqueue_sync_run that does not look for a request already waiting.
EnqueueAgain(allow_during_running) ==
    IF Running = {} \/ allow_during_running
    THEN /\ HasRoom
         /\ status' = [status EXCEPT ![NewRow] = "queued"]
         /\ cancel' = [cancel EXCEPT ![NewRow] = FALSE]
         /\ UNCHANGED <<token, left>>
    ELSE UNCHANGED rows

\* enqueue_sync_run: at most one request waits; beside a running one only
\* the follow-up of a swap may wait.
Enqueue(allow_during_running) ==
    IF Queued = {} /\ (Running = {} \/ allow_during_running)
    THEN /\ HasRoom
         /\ status' = [status EXCEPT ![NewRow] = "queued"]
         /\ cancel' = [cancel EXCEPT ![NewRow] = FALSE]
         /\ UNCHANGED <<token, left>>
    ELSE UNCHANGED rows

\* The administrator's "Sync now".
SyncNow ==
    /\ Enqueue(FALSE)
    /\ UNCHANGED <<world, inv, pc, run, at, got, attempt, since, missed,
                   faults>>

\* mark_provider_applied: the provider has replaced an assignment, and the
\* inventory is asked to show it.
SwapApplied ==
    /\ wanted # version
    /\ wanted' = version
    /\ Enqueue(TRUE)
    /\ UNCHANGED <<version, paused, inv, pc, run, at, got, attempt, since,
                   missed, faults>>

\* request_sync_cancel: a waiting run ends, a running one is told to.
RequestCancel(r) ==
    /\ Fault
    /\ status[r] \in {"queued", "running"}
    /\ ~cancel[r]
    /\ cancel' = [cancel EXCEPT ![r] = TRUE]
    /\ status' = [status EXCEPT ![r] = IF @ = "queued" THEN "canceled" ELSE @]
    /\ UNCHANGED <<world, inv, token, left, pc, run, at, got, attempt, since,
                   missed>>

ProviderChanges ==
    /\ version < MaxVersion
    /\ version' = version + 1
    /\ UNCHANGED <<wanted, paused, inv, rows, pc, run, at, got, attempt,
                   since, missed, faults>>

Pause ==
    /\ IF paused THEN UNCHANGED faults ELSE Fault
    /\ paused' = ~paused
    /\ UNCHANGED <<version, wanted, inv, rows, pc, run, at, got, attempt,
                   since, missed>>

---------------------------------------------------------------------------
(* The worker.                                                             *)

Live(r) == status[r] = "running" /\ left[r] > 0

\* The worker's row is running under its own token.
OwnsRow(w) == status[run[w]] = "running" /\ token[run[w]] = w

\* The token alone, the lease not looked at.
OwnsUnleased(w) == OwnsRow(w)

\* _renew_sync_lease, _assert_sync_owner: never an expired lease.
Owns(w) == OwnsRow(w) /\ left[run[w]] > 0

\* sync_proxiware_inventory returns or raises: its variables are gone.
Leaves(w) ==
    /\ run' = [run EXCEPT ![w] = None]
    /\ at' = [at EXCEPT ![w] = 0]
    /\ got' = [got EXCEPT ![w] = 0]
    /\ since' = [since EXCEPT ![w] = 0]
    /\ missed' = [missed EXCEPT ![w] = {}]

\* The worker leaves its row: another attempt, or the end of run_once.
GivesUp(w, retry) ==
    /\ Leaves(w)
    /\ IF retry /\ attempt[w] < RETRIES
       THEN /\ pc' = [pc EXCEPT ![w] = "claim"]
            /\ UNCHANGED attempt
       ELSE /\ pc' = [pc EXCEPT ![w] = "idle"]
            /\ attempt' = [attempt EXCEPT ![w] = 0]

\* SyncLeaseLost reaches the service as provider_unavailable: it retries.
LeaseLost(w) ==
    /\ GivesUp(w, TRUE)
    /\ UNCHANGED <<rows, inv>>

\* run_once: the pause is looked at once, before the first attempt.
Start(w) ==
    /\ pc[w] = "idle"
    /\ ~paused
    /\ pc' = [pc EXCEPT ![w] = "claim"]
    /\ UNCHANGED <<world, inv, rows, run, at, got, attempt, since, missed,
                   faults>>

\* A running row whose lease is over or was never written.
Lapsed == {r \in Runs : status[r] = "running" /\ left[r] = 0}

\* The worker's new row, over rows s and t that are lapsed already.
Takes(w, r, s, t) ==
    /\ status' = [s EXCEPT ![r] = "running"]
    /\ token' = [t EXCEPT ![r] = w]
    /\ left' = [left EXCEPT ![r] = LEASE]
    /\ cancel' = [cancel EXCEPT ![r] = IF status[r] = "queued" THEN @
                                       ELSE FALSE]
    /\ run' = [run EXCEPT ![w] = r]
    /\ pc' = [pc EXCEPT ![w] = "list"]
    /\ attempt' = [attempt EXCEPT ![w] = @ + 1]
    /\ since' = [since EXCEPT ![w] = version]
    /\ UNCHANGED <<at, got, missed>>

\* claim_sync_run without the sweep of abandoned rows.
ClaimNoSweep(w) ==
    /\ pc[w] = "claim"
    /\ IF Running # {}
       THEN GivesUp(w, FALSE) /\ UNCHANGED rows
       ELSE \E r \in Runs :
                /\ r \in Queued \/ (Queued = {} /\ HasRoom /\ r = NewRow)
                /\ Takes(w, r, status, token)
    /\ UNCHANGED <<world, inv, faults>>

\* claim_sync_run that passes over the requests.
ClaimNewRow(w) ==
    /\ pc[w] = "claim"
    /\ IF \E r \in Runs : Live(r)
       THEN GivesUp(w, FALSE) /\ UNCHANGED rows
       ELSE \E r \in Runs :
                /\ HasRoom /\ r = NewRow
                /\ Takes(w, r,
                         [x \in Runs |-> IF x \in Lapsed THEN "failed"
                                         ELSE status[x]],
                         [x \in Runs |-> IF x \in Lapsed THEN None
                                         ELSE token[x]])
    /\ UNCHANGED <<world, inv, faults>>

\* claim_sync_run: abandoned rows fail; the oldest request, or a new row.
\* SyncAlreadyRunning is not retried.
Claim(w) ==
    /\ pc[w] = "claim"
    /\ IF \E r \in Runs : Live(r)
       THEN GivesUp(w, FALSE) /\ UNCHANGED rows
       ELSE \E r \in Runs :
                /\ r \in Queued \/ (Queued = {} /\ HasRoom /\ r = NewRow)
                /\ Takes(w, r,
                         [x \in Runs |-> IF x \in Lapsed THEN "failed"
                                         ELSE status[x]],
                         [x \in Runs |-> IF x \in Lapsed THEN None
                                         ELSE token[x]])
    /\ UNCHANGED <<world, inv, faults>>

\* The end of a run under the worker's own token.
EndsRow(w, s) ==
    /\ status' = [status EXCEPT ![run[w]] = s]
    /\ token' = [token EXCEPT ![run[w]] = None]
    /\ left' = [left EXCEPT ![run[w]] = 0]
    /\ UNCHANGED cancel

\* list_subscriptions returns, some of its entries without a valid id.
List(w) ==
    /\ pc[w] = "list"
    /\ pc' = [pc EXCEPT ![w] = "check"]
    /\ \E S \in SUBSET Subs :
          /\ missed' = [missed EXCEPT ![w] = S]
          /\ IF S = {} THEN UNCHANGED faults ELSE Fault
    /\ UNCHANGED <<world, inv, rows, run, at, got, attempt, since>>

\* _raise_if_sync_cancelled, first half: the lease is renewed.
Check(w) ==
    /\ pc[w] = "check"
    /\ \/ /\ Owns(w)
          /\ left' = [left EXCEPT ![run[w]] = LEASE]
          /\ pc' = [pc EXCEPT ![w] = "flag"]
          /\ UNCHANGED <<status, token, cancel, inv, run, at, got, attempt,
                         since, missed>>
       \/ /\ ~Owns(w)
          /\ LeaseLost(w)
    /\ UNCHANGED <<world, faults>>

\* The loop that ends one subscription early.
FlagOneShort(w) ==
    /\ pc[w] = "flag"
    /\ \/ /\ OwnsRow(w) /\ cancel[run[w]]
          /\ EndsRow(w, "canceled")
          /\ GivesUp(w, TRUE)
          /\ UNCHANGED inv
       \/ /\ OwnsRow(w) /\ ~cancel[run[w]]
          /\ IF at[w] = 0 \/ at[w] \in missed[w]
             THEN /\ pc' = [pc EXCEPT ![w] = "check"]
                  /\ at' = [at EXCEPT ![w] = @ + 1]
             ELSE /\ pc' = [pc EXCEPT ![w] = IF at[w] < N THEN "fetch"
                                              ELSE "finish"]
                  /\ UNCHANGED at
          /\ UNCHANGED <<rows, inv, run, got, attempt, since, missed>>
       \/ /\ ~OwnsRow(w)
          /\ LeaseLost(w)
    /\ UNCHANGED <<world, faults>>

\* Second half: a cancelled run ends, to be retried by the service as a new
\* one; otherwise on to the subscription, past it when its entry has no valid
\* id, or to the end.
Flag(w) ==
    /\ pc[w] = "flag"
    /\ \/ /\ OwnsRow(w) /\ cancel[run[w]]
          /\ EndsRow(w, "canceled")
          /\ GivesUp(w, TRUE)
          /\ UNCHANGED inv
       \/ /\ OwnsRow(w) /\ ~cancel[run[w]]
          /\ IF at[w] = 0 \/ at[w] \in missed[w]
             THEN /\ pc' = [pc EXCEPT ![w] = "check"]
                  /\ at' = [at EXCEPT ![w] = @ + 1]
             ELSE /\ pc' = [pc EXCEPT ![w] = IF at[w] <= N THEN "fetch"
                                              ELSE "finish"]
                  /\ UNCHANGED at
          /\ UNCHANGED <<rows, inv, run, got, attempt, since, missed>>
       \/ /\ ~OwnsRow(w)
          /\ LeaseLost(w)
    /\ UNCHANGED <<world, faults>>

\* list_subscription_proxies returns, possibly with a malformed proxy.
Fetch(w) ==
    /\ pc[w] = "fetch"
    /\ got' = [got EXCEPT ![w] = version]
    /\ pc' = [pc EXCEPT ![w] = "store"]
    /\ \/ UNCHANGED <<missed, faults>>
       \/ /\ Fault
          /\ missed' = [missed EXCEPT ![w] = @ \cup {at[w]}]
    /\ UNCHANGED <<world, inv, rows, run, at, attempt, since>>

\* A provider call fails: the row fails if it is still the worker's; some
\* failures are retried.
CallFails(w) ==
    /\ Fault
    /\ pc[w] \in {"list", "fetch"}
    /\ IF OwnsRow(w) THEN EndsRow(w, "failed") ELSE UNCHANGED rows
    /\ \E retry \in BOOLEAN : GivesUp(w, retry)
    /\ UNCHANGED <<world, inv>>

\* What the transaction of a subscription stores: a malformed proxy is left
\* as it was.
Stored(w) == IF at[w] \in missed[w] THEN inv
             ELSE [inv EXCEPT ![at[w]] = got[w]]

\* The transaction of one subscription, without its fence.
StoreUnfenced(w) ==
    /\ pc[w] = "store"
    /\ inv' = Stored(w)
    /\ at' = [at EXCEPT ![w] = @ + 1]
    /\ pc' = [pc EXCEPT ![w] = "check"]
    /\ UNCHANGED <<world, rows, run, got, attempt, since, missed, faults>>

\* The transaction of one subscription: renew, store, assert the ownership.
Store(w) ==
    /\ pc[w] = "store"
    /\ \/ /\ Owns(w)
          /\ left' = [left EXCEPT ![run[w]] = LEASE]
          /\ inv' = Stored(w)
          /\ at' = [at EXCEPT ![w] = @ + 1]
          /\ pc' = [pc EXCEPT ![w] = "check"]
          /\ UNCHANGED <<status, token, cancel, run, got, attempt, since,
                         missed>>
       \/ /\ ~Owns(w)
          /\ LeaseLost(w)
    /\ UNCHANGED <<world, faults>>

\* The last transaction: what is gone is marked missing, the run succeeds.
Finish(w) ==
    /\ pc[w] = "finish"
    /\ \/ /\ Owns(w)
          /\ EndsRow(w, "success")
          /\ GivesUp(w, FALSE)
          /\ UNCHANGED inv
       \/ /\ ~Owns(w)
          /\ LeaseLost(w)
    /\ UNCHANGED <<world, faults>>

\* The process dies and is started again; its row stays as it is.
Crash(w) ==
    /\ Fault
    /\ pc[w] # "idle"
    /\ GivesUp(w, FALSE)
    /\ UNCHANGED <<world, inv, rows>>

\* Time passes.  Provider calls have a timeout far below the lease: a tick
\* that finds a worker at work under a live lease is a stall of the process.
Tick ==
    /\ \E r \in Runs : Live(r)
    /\ IF \E w \in Workers : run[w] # None /\ Owns(w)
       THEN Fault ELSE UNCHANGED faults
    /\ left' = [r \in Runs |-> IF left[r] > 0 THEN left[r] - 1 ELSE 0]
    /\ UNCHANGED <<world, inv, status, token, cancel, pc, run, at, got,
                   attempt, since, missed>>

---------------------------------------------------------------------------

Work(w) ==
    \/ Start(w) \/ Claim(w) \/ List(w) \/ Check(w) \/ Flag(w)
    \/ Fetch(w) \/ Store(w) \/ Finish(w)

Next ==
    \/ SyncNow \/ SwapApplied \/ ProviderChanges \/ Pause \/ Tick
    \/ \E r \in Runs : RequestCancel(r)
    \/ \E w \in Workers : Work(w) \/ CallFails(w) \/ Crash(w)

Spec == Init /\ [][Next]_vars

\* The service loops and systemd restarts it: a worker that can go on does.
FairSpec ==
    /\ Spec
    /\ \A w \in Workers : WF_vars(Work(w))
    /\ WF_vars(Tick)

---------------------------------------------------------------------------
(* Properties.                                                             *)

\* At most one row is running and at most one waits: claim_sync_run is the
\* "sole Proxiware sync lease", whatever crashes and stalls before it.
OneRun == Cardinality(Running) <= 1 /\ Cardinality(Queued) <= 1

\* A run holds the inventory while its lease is live; it has read what it
\* fetched and has not stored yet.
Holds == {r \in Runs : Live(r)}
Holder == IF Holds = {} THEN None ELSE CHOOSE r \in Holds : TRUE
HasRead == IF Holds = {} THEN {}
           ELSE {w \in Workers : pc[w] = "store" /\ run[w] = Holder
                                 /\ token[Holder] = w}
HeldRead == IF HasRead = {} THEN None ELSE got[CHOOSE w \in HasRead : TRUE]

\* Sync implements the exclusive hold: a run that lost its lease during a
\* provider call (proxiware.py:601) writes nothing beside its successor.
Hold == INSTANCE ExclusiveSync
            WITH holder <- Holder, read <- HeldRead
ImplementsHold == Hold!Spec

\* The inventory never goes back to an older state of the provider, even
\* when a stalled run wakes up with an old answer.
InventoryNeverOlder == [][\A s \in Subs : inv'[s] >= inv[s]]_vars

\* A run is reported as a success only when every subscription has been
\* stored as it was at the claim or later, but for those it has counted as an
\* error: nothing is passed over silently, whatever other runs did meanwhile.
SuccessIsComplete ==
    [][\A w \in Workers :
          (run[w] # None /\ status[run[w]] = "running"
             /\ status'[run[w]] = "success" /\ pc[w] = "finish")
          => \A s \in Subs \ missed[w] : inv[s] >= since[w]]_vars

\* The follow-up of a completed swap: what was asked to be fetched is in the
\* inventory eventually, or automation is paused; crashes, stalls, failed
\* calls, cancellations and runs that succeed over a malformed answer on the
\* way only delay it.
FollowUpServed ==
    \A v \in 1 .. MaxVersion :
        wanted >= v ~> (paused \/ \A s \in Subs : inv[s] >= v)

\* A waiting request is taken up, abandoned runs and other workers' runs
\* notwithstanding, or automation is paused.
RequestsTaken == Queued # {} ~> (paused \/ Queued = {})
=============================================================================
