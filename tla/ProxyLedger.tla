----------------------------- MODULE ProxyLedger -----------------------------
(***************************************************************************)
(* The contributors' proxies: health and EarnApp verdicts, the egress      *)
(* address each proxy was seen at, the one canonical proxy among those     *)
(* that share an address, and the earnings ledger that pays canonical      *)
(* proxies for the time they were observed to be usable.                   *)
(*                                                                         *)
(* A check result is applied under BEGIN IMMEDIATE and is one action.      *)
(* archive_proxy, replace_proxy and the maintenance cycle read first and   *)
(* write later: their reads and writes are separate actions, and what was  *)
(* read may be stale when it is used.                                      *)
(*                                                                         *)
(* Which results reach a row at all (leases, claim tokens, credential      *)
(* generations) and when a row is due is the business of the check queue   *)
(* and is not modelled here; an inconclusive result only reschedules the   *)
(* row.  Rates and rounding are left out: the ledger is a set of paid      *)
(* intervals of whole ticks.                                               *)
(***************************************************************************)
EXTENDS Integers, FiniteSets

CONSTANTS
    MaxProxies,         \* bound: rows of the proxies table
    Users,              \* their owners
    Owner,              \* the user a row belongs to
    IPs,                \* egress addresses
    None,               \* NULL
    MaxTime,            \* bound: the last tick
    STALE,              \* ticks a success counts for (health_stale_minutes)
    PROBATION,          \* ticks of PROBATION_HOURS
    DEAD,               \* ticks of the 24 hours after which a row is given up
    HealthKinds,        \* bound: kinds of health results that occur
    Failing,            \* bound: rows whose checks may fail
    EarnappVerdicts,    \* bound: eligibilities the EarnApp probe reports
    EarnappExits,       \* bound: addresses it reports with them, or None
    EditKinds,          \* bound: what owners ask for
    UserStates          \* bound: states of an account that occur

ASSUME LedgerAssumption ==
    /\ MaxProxies \in Nat /\ MaxTime \in Nat
    /\ STALE \in Nat /\ PROBATION \in Nat /\ DEAD \in Nat
    /\ Owner \in [1 .. MaxProxies -> Users]
    /\ None \notin IPs
    /\ HealthKinds \subseteq {"trusted", "untrusted", "blocked"}
    /\ Failing \subseteq 1 .. MaxProxies
    /\ EarnappVerdicts \subseteq {"allow", "risk", "pending"}
    /\ EarnappExits \subseteq IPs \cup {None}
    /\ EditKinds \subseteq {"archive", "replace"}
    /\ UserStates \subseteq {"active", "paused", "blocked"}

VARIABLES
    now,            \* the clock
    userState,      \* users.status and users.earn_paused
    status,         \* proxies.status; "absent" before the row is inserted
    eligibility,
    failures,       \* consecutive_failures, up to the threshold
    lastSuccess, offlineSince, deadSince,
    exit,           \* exit_ip with its attestation
    verified,       \* egress_verified_at
    dup,            \* duplicate_of, 0 for NULL
    cursor,         \* accrual_cursor_at
    probation,      \* probation_started_at
    ledger,         \* earnings_ledger, per proxy
    edit,           \* what a user's archive or replace request has read
    maint,          \* the maintenance cycle
    seen,           \* history: ticks covered by a successful check
    dupAt,          \* history: ticks during which the row was a duplicate
    brokeAt,        \* history: when the row last stopped being continuously usable
                    \* or was a duplicate that is promoted
    rewound         \* history: rows whose cursor a promotion has set back

healthVars == <<status, eligibility, failures, lastSuccess, offlineSince, deadSince>>
egressVars == <<exit, verified, dup>>
earnVars == <<cursor, probation, ledger>>
taskVars == <<edit, maint>>
histVars == <<seen, dupAt, brokeAt, rewound>>
vars == <<now, userState, healthVars, egressVars, earnVars, taskVars, histVars>>

Proxies == 1 .. MaxProxies      \* ids in the order of creation
Never == -1                     \* a NULL timestamp
Times == Never .. MaxTime
Earning == {"allow", "risk"}    \* EARNING_ELIGIBILITIES
OfflineAfter == 3               \* confirmed failures

Buckets == {"pending", "available", "expired"}
Entry(from, to, bucket) == [from |-> from, to |-> to, bucket |-> bucket]

NoEdit == [kind |-> "none", exit |-> None, rows |-> {}, canonical |-> 0]
NoMaint == [pc |-> "idle", at |-> 0, todo |-> {}, old |-> 0, new |-> 0]

Active(p) == status[p] \notin {"absent", "archived"}

MinOf(a, b) == IF a <= b THEN a ELSE b
MaxOf(a, b) == IF a <= b THEN b ELSE a

-----------------------------------------------------------------------------
(***************************************************************************)
(* The ledger.                                                             *)
(***************************************************************************)

\* Mutant: the pending entries of a broken cycle stay pending.
ExpiredForgotten(entries) == entries

\* expire_pending_cycle.  The table is UNIQUE in all that is kept of an entry
\* here and rows are inserted OR IGNORE: a set.
Expired(entries) ==
    {[e EXCEPT !.bucket = IF @ = "pending" THEN "expired" ELSE @] : e \in entries}

\* The pending entries of the probation cycle that began at `start` unlock.
Unlocked(entries, start) ==
    {[e EXCEPT !.bucket = IF @ = "pending" /\ e.from >= start THEN "available" ELSE @] :
        e \in entries}

\* _add_ledger_entry drops empty intervals.
Interval(from, to, bucket) == IF from < to THEN {Entry(from, to, bucket)} ELSE {}

\* Mutant: the success is trusted until now, however old it is.
AccrualEndUnbounded(p, at) == at

\* Mutant: the time a success still has to run is paid in advance.
AccrualEndAhead(p, at) == lastSuccess[p] + STALE

\* How far the last success vouches for the proxy.
AccrualEnd(p, at) == MinOf(at, lastSuccess[p] + STALE)

\* Mutant: an accrual that comes too late sets the cursor back.
AccruesBehindCursor(p, at, statuses) ==
    /\ status[p] \in statuses
    /\ eligibility[p] \in Earning
    /\ dup[p] = 0
    /\ exit[p] # None
    /\ lastSuccess[p] # Never

\* The rows _accrue_eligible_time_locked selects and does not skip.
Accrues(p, at, statuses) ==
    /\ status[p] \in statuses
    /\ eligibility[p] \in Earning
    /\ dup[p] = 0
    /\ exit[p] # None
    /\ lastSuccess[p] # Never
    /\ AccrualEnd(p, at) > cursor[p]

\* What it writes for such a row: nothing but the cursor if the account is
\* blocked or paused, else the interval since the cursor, split at the end of
\* the probation, which also unlocks the cycle's pending entries.
AccruedEntries(p, at) ==
    LET end == AccrualEnd(p, at)
        unlockAt == probation[p] + PROBATION
    IN  IF userState[Owner[p]] # "active" THEN ledger[p]
        ELSE IF end >= unlockAt
        THEN Unlocked(ledger[p], probation[p])
               \cup Interval(cursor[p], unlockAt, "available")
               \cup Interval(MaxOf(cursor[p], unlockAt), end, "available")
        ELSE ledger[p] \cup Interval(cursor[p], end, "pending")

AccrueRow(p, at, statuses) ==
    IF Accrues(p, at, statuses) THEN AccruedEntries(p, at) ELSE ledger[p]

\* accrue_proxy_time followed by reset_probation, at time now: the ledger of
\* p once its cycle is broken.
BrokenCycle(p) ==
    Expired(IF eligibility[p] \in Earning THEN AccrueRow(p, now, {"online", "suspect"})
            ELSE ledger[p])

-----------------------------------------------------------------------------
(***************************************************************************)
(* Egress groups.  The group operators take the columns they read as       *)
(* arguments, because a result changes the row before it regroups.         *)
(***************************************************************************)

\* The unarchived rows at address x, `leaving` left out.
Group(x, leaving, stat, ex) ==
    {p \in Proxies \ {leaving} : stat[p] \notin {"absent", "archived"} /\ ex[p] = x}

GivenUp(p, stat, off) == stat[p] = "offline" /\ off[p] # Never /\ off[p] <= now - DEAD

Before(p, q, ver, byVerified) ==
    \/ p = q
    \/ byVerified /\ ver[p] < ver[q]
    \/ byVerified /\ ver[p] = ver[q] /\ p < q
    \/ ~ byVerified /\ p < q

\* The row _canonicalize_exit_group makes canonical among `rows`.
Canonical(rows, stat, off, ver, byVerified) ==
    LET alive == {p \in rows : ~ GivenUp(p, stat, off)}
        candidates == IF alive = {} THEN rows ELSE alive
    IN  CHOOSE c \in candidates : \A d \in candidates : Before(c, d, ver, byVerified)

\* duplicate_of after the group `rows` was given the canonical row c.
Regrouped(d, rows, c) ==
    [p \in Proxies |-> IF p = c THEN 0 ELSE IF p \in rows THEN c ELSE d[p]]

\* reconcile_exit_ip(p, x), read off the columns the handler leaves behind:
\* the group of x, then the group p came from.  `prior` is the ledger so far.
Reconcile(p, x, byVerified, prior) ==
    LET joined == Group(x, 0, status', exit')
        c == Canonical(joined, status', offlineSince', verified', byVerified)
        left == IF exit[p] \in {None, x} THEN {} ELSE Group(exit[p], 0, status', exit')
        b == Canonical(left, status', offlineSince', verified', FALSE)
        dup1 == Regrouped(dup, joined, c)
        lost == (joined \ {c}) \cup (IF left = {} THEN {} ELSE left \ {b})
    IN  /\ dup' = IF left = {} THEN dup1 ELSE Regrouped(dup1, left, b)
        /\ ledger' = [q \in Proxies |-> IF q \in lost THEN Expired(prior[q]) ELSE prior[q]]

\* The address p is now known at, and since when.
Attest(p, x) ==
    /\ exit' = [exit EXCEPT ![p] = x]
    /\ verified' = [verified EXCEPT ![p] = IF @ = Never \/ exit[p] # x THEN now ELSE @]

-----------------------------------------------------------------------------
(***************************************************************************)
(* Check results.                                                          *)
(***************************************************************************)

Set(column, p, value) == [column EXCEPT ![p] = value]

\* History: a success covers the ticks it vouches for; continuity breaks when
\* the proxy was offline, blocked or silent until this success.
Covered(p) == [seen EXCEPT ![p] = @ \cup (now .. MinOf(now + STALE - 1, MaxTime))]
Broken(p, broken) == [brokeAt EXCEPT ![p] = IF broken THEN now ELSE @]
Interrupted(p) ==
    \/ status[p] \in {"offline", "blocked"}
    \/ lastSuccess[p] # Never /\ now > lastSuccess[p] + STALE

\* Mutant: a success after a silence longer than STALE continues the cycle.
StaleRecoveryIgnored(p) == FALSE

\* stale_recovery
StaleRecovery(p) ==
    /\ status[p] \in {"online", "suspect"}
    /\ lastSuccess[p] # Never
    /\ now > lastSuccess[p] + STALE

\* A "live" or "live_unverified" result that saw the proxy leave from x.  Rows
\* go online with a last_success_at, so unobserved_recovery never holds.
Live(p, x, trusted) ==
    LET moved == exit[p] # None /\ x # exit[p]
        unattested == exit[p] = None /\ ~ trusted
        breaks == moved \/ StaleRecovery(p)
        recovered == status[p] \in {"offline", "blocked"}
        own == [ledger EXCEPT ![p] = IF breaks THEN BrokenCycle(p) ELSE @]
        restart == breaks \/ recovered
    IN  /\ Active(p)
        /\ status' = Set(status, p, "online")
        /\ eligibility' = [eligibility EXCEPT ![p] = IF moved \/ unattested THEN "pending" ELSE @]
        /\ failures' = Set(failures, p, 0)
        /\ lastSuccess' = Set(lastSuccess, p, now)
        /\ offlineSince' = Set(offlineSince, p, Never)
        /\ deadSince' = Set(deadSince, p, Never)
        /\ cursor' = [cursor EXCEPT ![p] = IF restart THEN now ELSE @]
        /\ probation' = [probation EXCEPT ![p] = IF restart THEN now ELSE @]
        /\ IF trusted
           THEN Attest(p, x) /\ Reconcile(p, x, TRUE, own)
           ELSE ledger' = own /\ UNCHANGED egressVars
        /\ seen' = Covered(p)
        /\ brokeAt' = Broken(p, Interrupted(p) \/ moved \/ eligibility'[p] # eligibility[p])
        /\ UNCHANGED <<now, userState, taskVars, dupAt, rewound>>

\* The provider answers in the proxy's place.
Blocked(p) ==
    /\ Active(p)
    /\ status' = Set(status, p, "blocked")
    /\ eligibility' = Set(eligibility, p, "risk")
    /\ failures' = Set(failures, p, 0)
    /\ offlineSince' = [offlineSince EXCEPT ![p] = IF @ = Never THEN now ELSE @]
    /\ cursor' = Set(cursor, p, now)
    /\ probation' = Set(probation, p, now)
    /\ ledger' = Set(ledger, p, BrokenCycle(p))
    /\ brokeAt' = Set(brokeAt, p, now)
    /\ UNCHANGED <<now, userState, lastSuccess, deadSince, egressVars, taskVars, seen, dupAt, rewound>>

\* A confirmed failure: the second makes the row suspect, the third offline,
\* after the last confirmed interval was accrued.
Dead(p) ==
    LET count == MinOf(failures[p] + 1, OfflineAfter)
        offline == count = OfflineAfter
    IN  /\ Active(p)
        /\ failures' = Set(failures, p, count)
        /\ status' = [status EXCEPT ![p] = IF offline THEN "offline"
                                          ELSE IF @ = "blocked" THEN "blocked"
                                          ELSE IF count >= 2 THEN "suspect" ELSE @]
        /\ offlineSince' = [offlineSince EXCEPT ![p] =
                IF @ = Never /\ (offline \/ status[p] = "blocked") THEN now ELSE @]
        /\ deadSince' = [deadSince EXCEPT ![p] = IF @ = Never /\ offline THEN now ELSE @]
        /\ cursor' = [cursor EXCEPT ![p] = IF offline THEN now ELSE @]
        /\ probation' = [probation EXCEPT ![p] = IF offline THEN now ELSE @]
        /\ ledger' = [ledger EXCEPT ![p] = IF offline THEN BrokenCycle(p) ELSE @]
        /\ brokeAt' = Broken(p, offline)
        /\ UNCHANGED <<now, userState, eligibility, lastSuccess, egressVars, taskVars, seen, dupAt, rewound>>

\* apply_earnapp_result.  A failed or blocking health result withdraws the
\* EarnApp claim, so a result finds the row online.  x is the address EarnApp
\* authenticated, or None; an allow verdict without one is not enough.
EarnappResult(p, verdict, x) ==
    LET moved == x # None /\ exit[p] # None /\ x # exit[p]
        new == IF moved \/ (verdict = "allow" /\ x = None) THEN "pending" ELSE verdict
        changed == new # eligibility[p]
        reset == changed \/ moved
        own == [ledger EXCEPT ![p] =
                  IF changed THEN BrokenCycle(p) ELSE IF moved THEN Expired(@) ELSE @]
    IN  /\ status[p] = "online"
        /\ eligibility' = Set(eligibility, p, new)
        /\ cursor' = [cursor EXCEPT ![p] = IF reset THEN now ELSE @]
        /\ probation' = [probation EXCEPT ![p] = IF reset THEN now ELSE @]
        /\ UNCHANGED <<status, failures, lastSuccess, offlineSince, deadSince>>
        /\ IF x # None
           THEN Attest(p, x) /\ Reconcile(p, x, verified[p] # Never, own)
           ELSE ledger' = own /\ UNCHANGED egressVars
        /\ brokeAt' = Broken(p, reset)
        /\ UNCHANGED <<now, userState, taskVars, seen, dupAt, rewound>>

-----------------------------------------------------------------------------
(***************************************************************************)
(* The owner's requests.                                                   *)
(***************************************************************************)

\* add_proxy and bulk_add_proxies insert a row that starts its clocks now.
AddProxy(p) ==
    /\ status[p] = "absent"
    /\ \A q \in 1 .. (p - 1) : status[q] # "absent"
    /\ status' = Set(status, p, "pending")
    /\ cursor' = Set(cursor, p, now)
    /\ probation' = Set(probation, p, now)
    /\ brokeAt' = Set(brokeAt, p, now)
    /\ UNCHANGED <<now, userState, eligibility, failures, lastSuccess, offlineSince, deadSince,
                   egressVars, ledger, taskVars, seen, dupAt, rewound>>

\* archive_proxy and replace_proxy up to their first write: python's sqlite3
\* opens a transaction only there, so the exit address, the rows that share
\* it and the canonical row among them are read outside of it.
EditRead(p, kind) ==
    /\ edit[p] = NoEdit
    /\ Active(p)
    /\ LET rows == IF exit[p] = None THEN {} ELSE Group(exit[p], p, status, exit) IN
       edit' = [edit EXCEPT ![p] =
          [kind |-> kind, exit |-> exit[p], rows |-> rows,
           canonical |-> IF rows = {} THEN 0
                         ELSE Canonical(rows, status, offlineSince, verified, FALSE)]]
    /\ UNCHANGED <<now, userState, healthVars, egressVars, earnVars, maint, histVars>>

\* _canonicalize_exit_group's two UPDATEs: the row chosen before, and the rows
\* that are in the group now.
EditRegroup(p) ==
    LET c == edit[p].canonical IN
    IF c = 0 THEN dup ELSE Regrouped(dup, Group(edit[p].exit, p, status, exit) \ {c}, c)

\* expire_pending_cycle for the rows that were read and for p.
EditExpire(p) ==
    [q \in Proxies |->
        IF q = p \/ q \in edit[p].rows \ {edit[p].canonical} THEN Expired(ledger[q]) ELSE ledger[q]]

\* The rest of archive_proxy: rolled back if the row is gone.
ArchiveProxy(p) ==
    /\ edit[p].kind = "archive"
    /\ edit' = Set(edit, p, NoEdit)
    /\ IF Active(p)
       THEN /\ status' = Set(status, p, "archived")
            /\ dup' = EditRegroup(p)
            /\ ledger' = EditExpire(p)
       ELSE UNCHANGED <<status, dup, ledger>>
    /\ UNCHANGED <<now, userState, eligibility, failures, lastSuccess, offlineSince, deadSince,
                   exit, verified, cursor, probation, maint, histVars>>

\* The rest of replace_proxy: a new credential in the same row, with every
\* observation of the old one cleared.
ReplaceProxy(p) ==
    /\ edit[p].kind = "replace"
    /\ Active(p)
    /\ edit' = Set(edit, p, NoEdit)
    /\ status' = Set(status, p, "pending")
    /\ eligibility' = Set(eligibility, p, "pending")
    /\ failures' = Set(failures, p, 0)
    /\ lastSuccess' = Set(lastSuccess, p, Never)
    /\ offlineSince' = Set(offlineSince, p, Never)
    /\ deadSince' = Set(deadSince, p, Never)
    /\ exit' = Set(exit, p, None)
    /\ verified' = Set(verified, p, Never)
    /\ dup' = Set(EditRegroup(p), p, 0)
    /\ cursor' = Set(cursor, p, now)
    /\ probation' = Set(probation, p, now)
    /\ ledger' = EditExpire(p)
    /\ seen' = [seen EXCEPT ![p] = {t \in @ : t < now}]
    /\ brokeAt' = Set(brokeAt, p, now)
    /\ UNCHANGED <<now, userState, maint, dupAt, rewound>>

\* The request ends before its write: a duplicate credential, a row that is
\* gone, or the process with it.
EditAbort(p) ==
    /\ edit[p] # NoEdit
    /\ edit' = Set(edit, p, NoEdit)
    /\ UNCHANGED <<now, userState, healthVars, egressVars, earnVars, maint, histVars>>

\* An administrator blocks or reactivates the account; pause_earn.
ChangeUser(u, s) ==
    /\ userState' = [userState EXCEPT ![u] = s]
    /\ UNCHANGED <<now, healthVars, egressVars, earnVars, taskVars, histVars>>

-----------------------------------------------------------------------------
(***************************************************************************)
(* The maintenance cycle.  `at` is the time run_cycle started at, used by  *)
(* each of its transactions however late they run.                         *)
(***************************************************************************)

DeadRows == {p \in Proxies : /\ status[p] = "offline"
                             /\ deadSince[p] # Never
                             /\ deadSince[p] <= maint.at - DEAD}

MaintStart ==
    /\ maint.pc = "idle"
    /\ maint' = [NoMaint EXCEPT !.pc = "accrue", !.at = now]
    /\ UNCHANGED <<now, userState, healthVars, egressVars, earnVars, edit, histVars>>

\* accrue_eligible_time
MaintAccrue ==
    /\ maint.pc = "accrue"
    /\ ledger' = [p \in Proxies |-> AccrueRow(p, maint.at, {"online"})]
    /\ cursor' = [p \in Proxies |-> IF Accrues(p, maint.at, {"online"})
                                    THEN AccrualEnd(p, maint.at) ELSE cursor[p]]
    /\ maint' = [maint EXCEPT !.pc = "select"]
    /\ UNCHANGED <<now, userState, healthVars, egressVars, probation, edit, histVars>>

\* archive_due_dead_proxies reads its candidates.
MaintSelect ==
    /\ maint.pc = "select"
    /\ maint' = [maint EXCEPT !.pc = "promote", !.todo = DeadRows]
    /\ UNCHANGED <<now, userState, healthVars, egressVars, earnVars, edit, histVars>>

\* promote_duplicate_if_due up to its first write: the first online duplicate
\* of a row that is still given up.
PromoteRead(p) ==
    /\ maint.pc = "promote"
    /\ p \in maint.todo
    /\ LET heirs == IF /\ status[p] \in {"offline", "archived"}
                       /\ offlineSince[p] # Never
                       /\ status[p] = "offline" => maint.at - offlineSince[p] >= DEAD
                    THEN {q \in Proxies : dup[q] = p /\ status[q] = "online"} ELSE {}
       IN maint' = IF heirs = {} THEN [maint EXCEPT !.todo = @ \ {p}]
                   ELSE [maint EXCEPT !.pc = "write", !.todo = @ \ {p}, !.old = p,
                            !.new = CHOOSE q \in heirs : \A r \in heirs : q <= r]
    /\ UNCHANGED <<now, userState, healthVars, egressVars, earnVars, edit, histVars>>

\* Mutant: the heir goes on with the probation it had as a duplicate.
PromoteWriteKeepsProbation ==
    LET p == maint.old
        q == maint.new
    IN  /\ maint.pc = "write"
        /\ dup' = [r \in Proxies |-> IF r = q THEN 0
                                     ELSE IF r = p \/ dup[r] = p THEN q ELSE dup[r]]
        /\ ledger' = [r \in Proxies |-> IF r \in {p, q} THEN Expired(ledger[r]) ELSE ledger[r]]
        /\ cursor' = Set(cursor, q, maint.at)
        /\ maint' = [maint EXCEPT !.pc = "promote", !.old = 0, !.new = 0]
        /\ rewound' = IF maint.at < cursor[q] THEN rewound \cup {q} ELSE rewound
        /\ brokeAt' = Set(brokeAt, q, maint.at)
        /\ UNCHANGED <<now, userState, healthVars, exit, verified, probation, edit, seen, dupAt>>

\* ... and its transaction, which starts the heir's clocks.
PromoteWrite ==
    LET p == maint.old
        q == maint.new
    IN  /\ maint.pc = "write"
        /\ dup' = [r \in Proxies |-> IF r = q THEN 0
                                     ELSE IF r = p \/ dup[r] = p THEN q ELSE dup[r]]
        /\ ledger' = [r \in Proxies |-> IF r \in {p, q} THEN Expired(ledger[r]) ELSE ledger[r]]
        /\ cursor' = Set(cursor, q, maint.at)
        /\ probation' = Set(probation, q, maint.at)
        /\ maint' = [maint EXCEPT !.pc = "promote", !.old = 0, !.new = 0]
        /\ rewound' = IF maint.at < cursor[q] THEN rewound \cup {q} ELSE rewound
        /\ brokeAt' = Set(brokeAt, q, maint.at)
        /\ UNCHANGED <<now, userState, healthVars, exit, verified, edit, seen, dupAt>>

MaintArchive ==
    /\ maint.pc = "promote"
    /\ maint.todo = {}
    /\ status' = [p \in Proxies |-> IF p \in DeadRows THEN "archived" ELSE status[p]]
    /\ maint' = NoMaint
    /\ UNCHANGED <<now, userState, eligibility, failures, lastSuccess, offlineSince, deadSince,
                   egressVars, earnVars, edit, histVars>>

MaintCrash ==
    /\ maint.pc # "idle"
    /\ maint' = NoMaint
    /\ UNCHANGED <<now, userState, healthVars, egressVars, earnVars, edit, histVars>>

Tick ==
    /\ now < MaxTime
    /\ now' = now + 1
    /\ dupAt' = [p \in Proxies |-> IF dup[p] # 0 THEN dupAt[p] \cup {now} ELSE dupAt[p]]
    /\ UNCHANGED <<userState, healthVars, egressVars, earnVars, taskVars, seen, brokeAt, rewound>>

-----------------------------------------------------------------------------
Init ==
    /\ now = 0
    /\ userState = [u \in Users |-> "active"]
    /\ status = [p \in Proxies |-> "absent"]
    /\ eligibility = [p \in Proxies |-> "pending"]
    /\ failures = [p \in Proxies |-> 0]
    /\ lastSuccess = [p \in Proxies |-> Never]
    /\ offlineSince = [p \in Proxies |-> Never]
    /\ deadSince = [p \in Proxies |-> Never]
    /\ exit = [p \in Proxies |-> None]
    /\ verified = [p \in Proxies |-> Never]
    /\ dup = [p \in Proxies |-> 0]
    /\ cursor = [p \in Proxies |-> 0]
    /\ probation = [p \in Proxies |-> 0]
    /\ ledger = [p \in Proxies |-> {}]
    /\ edit = [p \in Proxies |-> NoEdit]
    /\ maint = NoMaint
    /\ seen = [p \in Proxies |-> {}]
    /\ dupAt = [p \in Proxies |-> {}]
    /\ brokeAt = [p \in Proxies |-> 0]
    /\ rewound = {}

HealthResult(p) ==
    \/ \E x \in IPs :
          \/ "trusted" \in HealthKinds /\ Live(p, x, TRUE)
          \/ "untrusted" \in HealthKinds /\ Live(p, x, FALSE)
    \/ "blocked" \in HealthKinds /\ Blocked(p)
    \/ p \in Failing /\ Dead(p)

OwnerStep(p) ==
    \/ AddProxy(p)
    \/ \E kind \in EditKinds : EditRead(p, kind)
    \/ ArchiveProxy(p)
    \/ ReplaceProxy(p)
    \/ EditAbort(p)

MaintStep ==
    \/ MaintStart
    \/ MaintAccrue
    \/ MaintSelect
    \/ \E p \in Proxies : PromoteRead(p)
    \/ PromoteWrite
    \/ MaintArchive
    \/ MaintCrash

Next ==
    \/ \E p \in Proxies :
          \/ HealthResult(p)
          \/ \E v \in EarnappVerdicts, x \in EarnappExits : EarnappResult(p, v, x)
          \/ OwnerStep(p)
    \/ \E u \in Users, s \in UserStates : ChangeUser(u, s)
    \/ MaintStep
    \/ Tick

Spec == Init /\ [][Next]_vars

-----------------------------------------------------------------------------
(***************************************************************************)
(* Properties.                                                             *)
(***************************************************************************)

\* The columns of the proxies and earnings_ledger tables and the local
\* variables of the requests and of the maintenance cycle have their types.
TypeOK ==
    /\ now \in 0 .. MaxTime
    /\ userState \in [Users -> {"active", "paused", "blocked"}]
    /\ status \in [Proxies -> {"absent", "pending", "online", "suspect", "offline",
                               "blocked", "archived"}]
    /\ eligibility \in [Proxies -> {"pending", "allow", "risk"}]
    /\ failures \in [Proxies -> 0 .. OfflineAfter]
    /\ {lastSuccess, offlineSince, deadSince, verified} \subseteq [Proxies -> Times]
    /\ exit \in [Proxies -> IPs \cup {None}]
    /\ dup \in [Proxies -> 0 .. MaxProxies]
    /\ {cursor, probation} \subseteq [Proxies -> 0 .. MaxTime]
    /\ ledger \in [Proxies -> SUBSET [from : 0 .. MaxTime, to : 0 .. MaxTime, bucket : Buckets]]
    /\ edit \in [Proxies -> [kind : {"none", "archive", "replace"}, exit : IPs \cup {None},
                             rows : SUBSET Proxies, canonical : 0 .. MaxProxies]]
    /\ maint \in [pc : {"idle", "accrue", "select", "promote", "write"}, at : 0 .. MaxTime,
                  todo : SUBSET Proxies, old : 0 .. MaxProxies, new : 0 .. MaxProxies]
    /\ {seen, dupAt} \subseteq [Proxies -> SUBSET (0 .. MaxTime)]
    /\ brokeAt \in [Proxies -> 0 .. MaxTime] /\ rewound \subseteq Proxies

Ticks(e) == e.from .. (e.to - 1)
Paid(p) == {e \in ledger[p] : e.bucket # "expired"}

Disjoint(entries) ==
    \A e, f \in entries : e # f => e.to <= f.from \/ f.to <= e.from

\* No second of a proxy is entered in the ledger twice, although the
\* maintenance cycle accrues with a time taken before it got the write lock
\* and check results move the cursor in between (accrual_cursor_at).  The one
\* thing that sets a cursor back is a promotion that is older than the cursor.
LedgerDisjoint == \A p \in Proxies \ rewound : Disjoint(ledger[p])

\* ... and accrue_eligible_time's own words, with no exception: the same online
\* interval cannot be paid twice.
PaidOnce == \A p \in Proxies : Disjoint(Paid(p))

\* Every second in the ledger lies within STALE of an earlier successful check
\* of the credential that was in the row: "a status label alone is not proof
\* that the proxy remained reachable" (_accrue_eligible_time_locked).
PaidWasObserved ==
    \A p \in Proxies \ rewound : \A e \in ledger[p] : Ticks(e) \subseteq seen[p]

\* Earnings become available only from a cycle that has lasted for PROBATION
\* without the proxy going offline, being blocked, changing its address or its
\* eligibility, falling silent or being replaced, and a duplicate that is promoted
\* begins a cycle of its own: a broken cycle never unlocks (expire_pending_cycle,
\* reset_probation, promote_duplicate_if_due).
ProbationServed ==
    [][\A p \in Proxies \ rewound : \A e \in ledger'[p] \ ledger[p] :
          e.bucket = "available" =>
              e.from >= brokeAt[p] /\ now >= brokeAt[p] + PROBATION]_vars

\* Duplicates earn nothing for the time they were duplicates, and a promoted
\* one starts earning at its promotion instead of backfilling.
DuplicatesEarnNothing ==
    \A p \in Proxies : \A e \in Paid(p) : Ticks(e) \cap dupAt[p] = {}

\* Pending earnings exist only in rows that are earning: a row that became a
\* duplicate, went offline, was blocked, re-judged, replaced or archived keeps
\* none that a later recovery could unlock (expire_pending_cycle's callers).
OnlyEarnersHoldPending ==
    \A p \in Proxies :
        (\E e \in ledger[p] : e.bucket = "pending") =>
            /\ status[p] \in {"online", "suspect"}
            /\ eligibility[p] \in Earning
            /\ exit[p] # None
            /\ dup[p] = 0

\* "Duplicate rows must not retain a pending balance that could unlock if a
\* later recheck promotes them to canonical" (migrate_db).  The regrouping of
\* archive_proxy does not keep it.
DuplicatesHoldNoPending ==
    \A p \in Proxies : Active(p) /\ dup[p] # 0 => \A e \in ledger[p] : e.bucket # "pending"

Canonicals(x) == {p \in Proxies : Active(p) /\ exit[p] = x /\ dup[p] = 0}

\* One distributor for an egress address.  archive_proxy does not keep it.
OneCanonical == \A x \in IPs : Cardinality(Canonicals(x)) <= 1

\* A stable distributor for an egress address: when another row leaves the
\* group, the canonical row keeps its place.  reconcile_exit_ip does not keep
\* it: the group a row leaves is ordered by other columns.
CanonicalIsStable ==
    [][\A p, q \in Proxies :
          /\ p # q /\ exit[q] # None
          /\ Canonicals(exit[q]) = {p} /\ exit'[q] # exit[q]
          /\ status[p] = "online" /\ status'[p] = "online" /\ exit'[p] = exit[p]
          => dup'[p] = 0]_vars
=============================================================================
