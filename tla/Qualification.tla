--------------------------- MODULE Qualification ---------------------------
(***************************************************************************)
(* Provider assignments and what makes one fit to be handed out: the       *)
(* inventory sync that renews their credentials, the dashboard snapshots,  *)
(* the qualification threads that claim a row, probe it outside of any     *)
(* transaction and write the verdict behind a fence, the reconciliation of *)
(* duplicate exits, and the distribution feed that reads the result.       *)
(*                                                                         *)
(* The rows belong to one subscription.  A verdict stands for live_status  *)
(* and qualification together: "allow", "risk" and "unknown" (pending) are *)
(* live with an attested exit, "unfit" is unverified, inconclusive, blocked*)
(* or dead, which nothing here tells apart.                                *)
(* dash says that the row has a dashboard observation that is eligible,    *)
(* within its connection limit and fresh; one that has aged is like none.  *)
(* left is qualification_claimed_until minus the clock.                    *)
(*                                                                         *)
(* Left to SwapJobs: replacement jobs, which take rows out of the feed,    *)
(* and the three quick retries of a fresh replacement.  Left to SyncRuns:  *)
(* which sync run may store.                                               *)
(***************************************************************************)
EXTENDS Naturals, FiniteSets

CONSTANTS
    R,              \* the number of assignments
    Threads,        \* qualification threads, of one or several services
    Exits,          \* exit addresses
    None,           \* NULL
    LEASE,          \* ticks of a claim
    MaxGen,         \* bound: identity generations of a row
    MaxFaults,      \* bound: crashes, stalls, rows that go missing
    Changes,        \* bound: what happens outside of qualification
    Outcomes        \* bound: the verdicts that probes come to

ASSUME QualAssumption ==
    /\ R \in Nat /\ LEASE \in Nat \ {0} /\ MaxGen \in Nat \ {0}
    /\ MaxFaults \in Nat
    /\ None \notin Threads /\ None \notin Exits
    /\ Changes \subseteq {"dash", "users", "missing"}
    /\ Outcomes \subseteq {"unfit", "unknown", "allow", "risk"}

VARIABLES
    \* provider_assignments
    gen, present, active, verdict, exit, dup, dist, dash, due, token, left,
    probed,         \* the generation whose credentials the verdict is about
    userIps,        \* exits attested for contributors' proxies
    \* the threads: where they are, their row, its generation and dashboard
    \* state as they read them, what the probe found, what reconciliation
    \* read; and whether another verdict was written since they read the row
    pc, row, readGen, readDash, result, plan, overtaken,
    faults          \* what has gone wrong so far

asg == <<gen, present, active, verdict, exit, dup, dist, dash, due, token,
         left, probed>>
local == <<pc, row, readGen, readDash, result, plan, overtaken>>
vars == <<asg, userIps, local, faults>>

Rows == 1 .. R
Verdicts == {"unfit", "unknown", "allow", "risk"}
IsLive(v) == v # "unfit"

\* A probe's verdict with the exit it saw, and whether that is a duplicate.
Results == [verdict : Verdicts, exit : Exits \cup {None}, dup : BOOLEAN]
NoResult == [verdict |-> "unfit", exit |-> None, dup |-> FALSE]

\* What a reconciliation means to write: the rows it read, with their flags.
Plans == [rows : SUBSET Rows, dup : SUBSET Rows, dist : SUBSET Rows]
NoPlan == [rows |-> {}, dup |-> {}, dist |-> {}]

TypeOK ==
    /\ gen \in [Rows -> 1 .. MaxGen]
    /\ present \in [Rows -> BOOLEAN] /\ active \in [Rows -> BOOLEAN]
    /\ verdict \in [Rows -> Verdicts]
    /\ exit \in [Rows -> Exits \cup {None}]
    /\ dup \in [Rows -> BOOLEAN] /\ dist \in [Rows -> BOOLEAN]
    /\ dash \in [Rows -> BOOLEAN] /\ due \in [Rows -> BOOLEAN]
    /\ token \in [Rows -> Threads \cup {None}]
    /\ left \in [Rows -> 0 .. LEASE]
    /\ probed \in [Rows -> 0 .. MaxGen]
    /\ userIps \in SUBSET Exits
    /\ pc \in [Threads -> {"idle", "claimed", "probe", "judge", "write",
                           "readall", "flags"}]
    /\ row \in [Threads -> Rows \cup {None}]
    /\ readGen \in [Threads -> 0 .. MaxGen]
    /\ readDash \in [Threads -> BOOLEAN]
    /\ result \in [Threads -> Results]
    /\ plan \in [Threads -> Plans]
    /\ overtaken \in [Threads -> BOOLEAN]
    /\ faults \in 0 .. MaxFaults

\* Every assignment has just been inserted by a sync.
Init ==
    /\ gen = [r \in Rows |-> 1]
    /\ present = [r \in Rows |-> TRUE] /\ active = [r \in Rows |-> TRUE]
    /\ verdict = [r \in Rows |-> "unfit"]
    /\ exit = [r \in Rows |-> None]
    /\ dup = [r \in Rows |-> FALSE] /\ dist = [r \in Rows |-> FALSE]
    /\ dash = [r \in Rows |-> "dash" \notin Changes]
    /\ due = [r \in Rows |-> TRUE]
    /\ token = [r \in Rows |-> None]
    /\ left = [r \in Rows |-> 0]
    /\ probed = [r \in Rows |-> 0]
    /\ userIps = {}
    /\ pc = [t \in Threads |-> "idle"]
    /\ row = [t \in Threads |-> None]
    /\ readGen = [t \in Threads |-> 0]
    /\ readDash = [t \in Threads |-> FALSE]
    /\ result = [t \in Threads |-> NoResult]
    /\ plan = [t \in Threads |-> NoPlan]
    /\ overtaken = [t \in Threads |-> FALSE]
    /\ faults = 0

Fault ==
    /\ faults < MaxFaults
    /\ faults' = faults + 1

---------------------------------------------------------------------------
(* The inventory sync.                                                     *)

\* New credentials under the old verdict.
StoreChangedKeepsVerdict(r) ==
    /\ gen[r] < MaxGen
    /\ gen' = [gen EXCEPT ![r] = @ + 1]
    /\ present' = [present EXCEPT ![r] = TRUE]
    /\ token' = [token EXCEPT ![r] = None]
    /\ left' = [left EXCEPT ![r] = 0]
    /\ UNCHANGED <<active, verdict, exit, dup, dist, dash, due, probed,
                   userIps, local, faults>>

\* The row comes with another host, port, user name or password: a new
\* generation, of which nothing is known and which nobody has claimed.
StoreChanged(r) ==
    /\ gen[r] < MaxGen
    /\ gen' = [gen EXCEPT ![r] = @ + 1]
    /\ present' = [present EXCEPT ![r] = TRUE]
    /\ verdict' = [verdict EXCEPT ![r] = "unfit"]
    /\ exit' = [exit EXCEPT ![r] = None]
    /\ dup' = [dup EXCEPT ![r] = FALSE]
    /\ dist' = [dist EXCEPT ![r] = FALSE]
    /\ dash' = [dash EXCEPT ![r] = FALSE]
    /\ due' = [due EXCEPT ![r] = TRUE]
    /\ token' = [token EXCEPT ![r] = None]
    /\ left' = [left EXCEPT ![r] = 0]
    /\ UNCHANGED <<active, probed, userIps, local, faults>>

\* The row comes as it was: it is no longer missing.  A provider that sends
\* no status leaves the stored one, "missing" included.
StoreSame(r) ==
    /\ ~present[r]
    /\ present' = [present EXCEPT ![r] = TRUE]
    /\ \E sent \in BOOLEAN : active' = [active EXCEPT ![r] = @ \/ sent]
    /\ UNCHANGED <<gen, verdict, exit, dup, dist, dash, due, token, left,
                   probed, userIps, local, faults>>

\* The end of a sync that did not see the row.
MarkMissing(r) ==
    /\ "missing" \in Changes
    /\ Fault
    /\ present[r]
    /\ present' = [present EXCEPT ![r] = FALSE]
    /\ active' = [active EXCEPT ![r] = FALSE]
    /\ UNCHANGED <<gen, verdict, exit, dup, dist, dash, due, token, left,
                   probed, userIps, local>>

---------------------------------------------------------------------------
(* Dashboard snapshots.                                                    *)

\* apply_dashboard_snapshot: one transaction clears the subscription and
\* enters the rows of the snapshot, eligible the ones in S.  An empty
\* snapshot clears and enters nothing.
Snapshot(S) ==
    /\ "dash" \in Changes
    /\ \A r \in S : present[r]
    /\ dash' = [r \in Rows |-> r \in S]
    /\ dist' = [r \in Rows |-> FALSE]
    /\ UNCHANGED <<gen, present, active, verdict, exit, dup, due, token,
                   left, probed, userIps, local, faults>>

\* The observations pass proxiware_dashboard_max_age_seconds.
DashAges ==
    /\ "dash" \in Changes
    /\ \E r \in Rows : dash[r]
    /\ dash' = [r \in Rows |-> FALSE]
    /\ UNCHANGED <<gen, present, active, verdict, exit, dup, dist, due, token,
                   left, probed, userIps, local, faults>>

---------------------------------------------------------------------------
(* Duplicate exits.                                                        *)

\* reconcile_proxiware_duplicates, what it reads and decides: of the rows
\* with one exit only the first is none, unless a contributor has it.
Decide(ips) ==
    LET rows == {r \in Rows : present[r]}
        dups == {r \in rows : exit[r] # None /\
                    (exit[r] \in ips \/
                     \E q \in rows : q < r /\ exit[q] = exit[r])}
    IN  [rows |-> rows, dup |-> dups,
         dist |-> {r \in rows \ dups : verdict[r] = "allow" /\ dash[r]}]

\* What it writes.
SetFlags(p) ==
    /\ dup' = [r \in Rows |-> IF r \in p.rows THEN r \in p.dup ELSE dup[r]]
    /\ dist' = [r \in Rows |-> IF r \in p.rows THEN r \in p.dist ELSE dist[r]]

\* A check of a contributor's proxy changes the attested exits, and
\* reconciles within its own write transaction.
UserExit(ip) ==
    /\ "users" \in Changes
    /\ userIps' = (userIps \ {ip}) \cup ({ip} \ userIps)
    /\ SetFlags(Decide(userIps'))
    /\ UNCHANGED <<gen, present, active, verdict, exit, dash, due, token,
                   left, probed, local, faults>>

---------------------------------------------------------------------------
(* Qualification.                                                          *)

\* What the thread read and found is of no more use to it.
Forgets(t) ==
    /\ row' = [row EXCEPT ![t] = None]
    /\ readGen' = [readGen EXCEPT ![t] = 0]
    /\ readDash' = [readDash EXCEPT ![t] = FALSE]
    /\ result' = [result EXCEPT ![t] = NoResult]

Done(t) ==
    /\ pc' = [pc EXCEPT ![t] = "idle"]
    /\ Forgets(t)
    /\ plan' = [plan EXCEPT ![t] = NoPlan]
    /\ overtaken' = [overtaken EXCEPT ![t] = FALSE]

\* An expired claim is not taken over.
ClaimableUnclaimed(r) ==
    /\ present[r] /\ active[r]
    /\ due[r]
    /\ token[r] = None

\* A row is due, or its claim has run out, and no live claim is on it.
Claimable(r) ==
    /\ present[r] /\ active[r]
    /\ due[r] \/ token[r] # None
    /\ token[r] = None \/ left[r] = 0

\* A claim that lasts a tick too long.
ClaimLonger(t, r) ==
    /\ pc[t] = "idle"
    /\ Claimable(r)
    /\ token' = [token EXCEPT ![r] = t]
    /\ left' = [left EXCEPT ![r] = LEASE + 1]
    /\ row' = [row EXCEPT ![t] = r]
    /\ pc' = [pc EXCEPT ![t] = "claimed"]
    /\ UNCHANGED <<gen, present, active, verdict, exit, dup, dist, dash, due,
                   probed, userIps, readGen, readDash, result, plan,
                   overtaken, faults>>

\* _claim: the rows of a batch, each handed to a thread.
Claim(t, r) ==
    /\ pc[t] = "idle"
    /\ Claimable(r)
    /\ token' = [token EXCEPT ![r] = t]
    /\ left' = [left EXCEPT ![r] = LEASE]
    /\ row' = [row EXCEPT ![t] = r]
    /\ pc' = [pc EXCEPT ![t] = "claimed"]
    /\ UNCHANGED <<gen, present, active, verdict, exit, dup, dist, dash, due,
                   probed, userIps, readGen, readDash, result, plan,
                   overtaken, faults>>

\* _release_claim: the service stops before the thread has begun.
Release(t) ==
    /\ Fault
    /\ pc[t] = "claimed"
    /\ IF token[row[t]] = t
       THEN /\ token' = [token EXCEPT ![row[t]] = None]
            /\ left' = [left EXCEPT ![row[t]] = 0]
       ELSE UNCHANGED <<token, left>>
    /\ Done(t)
    /\ UNCHANGED <<gen, present, active, verdict, exit, dup, dist, dash, due,
                   probed, userIps>>

\* qualify_proxiware_assignment reads the row under its claim; without it
\* the outcome is stale_claim.
Read(t) ==
    /\ pc[t] = "claimed"
    /\ \/ /\ present[row[t]] /\ token[row[t]] = t
          /\ readGen' = [readGen EXCEPT ![t] = gen[row[t]]]
          /\ readDash' = [readDash EXCEPT ![t] = dash[row[t]]]
          /\ pc' = [pc EXCEPT ![t] = "probe"]
          /\ UNCHANGED <<row, result, plan, overtaken>>
       \/ /\ ~(present[row[t]] /\ token[row[t]] = t)
          /\ Done(t)
    /\ UNCHANGED <<asg, userIps, faults>>

\* The probe and the eligibility check answer; what is not live may have
\* shown an exit as well.  (external)
Probe(t) ==
    /\ pc[t] = "probe"
    /\ \E v \in Outcomes, ip \in Exits \cup {None} :
          /\ IsLive(v) => ip # None
          /\ result' = [result EXCEPT ![t] =
                  [verdict |-> v, exit |-> ip, dup |-> FALSE]]
    /\ pc' = [pc EXCEPT ![t] = "judge"]
    /\ UNCHANGED <<asg, userIps, row, readGen, readDash, plan, overtaken,
                   faults>>

\* _duplicate_egress: a contributor's exit, or that of an earlier row.
DuplicateEgress(r, ip) ==
    /\ ip # None
    /\ \/ ip \in userIps
       \/ \E q \in Rows : q < r /\ present[q] /\ exit[q] = ip

\* _identity_is_current, and for a live row the duplicates as they are now.
Judge(t) ==
    /\ pc[t] = "judge"
    /\ \/ /\ present[row[t]] /\ gen[row[t]] = readGen[t]
          /\ result' = [result EXCEPT ![t].dup =
                  /\ IsLive(result[t].verdict)
                  /\ DuplicateEgress(row[t], result[t].exit)]
          /\ pc' = [pc EXCEPT ![t] = "write"]
          /\ UNCHANGED <<row, readGen, readDash, plan, overtaken>>
       \/ /\ ~(present[row[t]] /\ gen[row[t]] = readGen[t])
          /\ Done(t)
    /\ UNCHANGED <<asg, userIps, faults>>

\* The generation without the claim.
FencedByGeneration(t) == gen[row[t]] = readGen[t]

\* The fence of the verdict: the generation and the claim.
Fenced(t) == gen[row[t]] = readGen[t] /\ token[row[t]] = t

\* Every other thread that has read the row is behind now.
Overtake(t) ==
    overtaken' = [u \in Threads |->
        IF u = t THEN FALSE
        ELSE overtaken[u] \/ (row[u] = row[t] /\ pc[u] \in {"probe", "judge",
                                                            "write"})]

\* The verdict is written and the claim is given back.  Its distribution
\* flag uses the dashboard state read before the probe.
Write(t) ==
    /\ pc[t] = "write"
    /\ LET r == row[t] res == result[t] IN
       \/ /\ Fenced(t)
          /\ verdict' = [verdict EXCEPT ![r] = res.verdict]
          /\ exit' = [exit EXCEPT ![r] = res.exit]
          /\ dup' = [dup EXCEPT ![r] = res.dup]
          /\ dist' = [dist EXCEPT ![r] =
                  res.verdict = "allow" /\ ~res.dup /\ readDash[t]]
          /\ due' = [due EXCEPT ![r] = FALSE]
          /\ token' = [token EXCEPT ![r] = None]
          /\ left' = [left EXCEPT ![r] = 0]
          /\ probed' = [probed EXCEPT ![r] = readGen[t]]
          /\ pc' = [pc EXCEPT ![t] = "readall"]
          /\ Forgets(t)
          /\ Overtake(t)
          /\ UNCHANGED <<gen, present, active, dash, plan>>
       \/ /\ ~Fenced(t)
          /\ Done(t)
          /\ UNCHANGED asg
    /\ UNCHANGED <<userIps, faults>>

\* What a failure writes: the row is pending, its exit stays as it was.
Fails(r) ==
    /\ verdict' = [verdict EXCEPT ![r] = "unfit"]
    /\ dist' = [dist EXCEPT ![r] = FALSE]
    /\ due' = [due EXCEPT ![r] = FALSE]
    /\ token' = [token EXCEPT ![r] = None]
    /\ left' = [left EXCEPT ![r] = 0]

\* The probe raises: the failure is written behind the same fence.
ProbeError(t) ==
    /\ Fault
    /\ pc[t] = "probe"
    /\ IF present[row[t]] /\ Fenced(t) THEN Fails(row[t])
       ELSE UNCHANGED <<verdict, dist, due, token, left>>
    /\ Done(t)
    /\ UNCHANGED <<gen, present, active, exit, dup, dash, probed, userIps>>

\* _process_one's last resort: any other exception leaves the row pending,
\* to be tried again in five minutes.
WorkerError(t) ==
    /\ Fault
    /\ pc[t] \in {"probe", "judge", "write"}
    /\ IF token[row[t]] = t THEN Fails(row[t])
       ELSE UNCHANGED <<verdict, dist, due, token, left>>
    /\ Done(t)
    /\ UNCHANGED <<gen, present, active, exit, dup, dash, probed, userIps>>

\* reconcile_proxiware_duplicates after the verdict: it reads outside of a
\* transaction ...
ReadAll(t) ==
    /\ pc[t] = "readall"
    /\ plan' = [plan EXCEPT ![t] = Decide(userIps)]
    /\ pc' = [pc EXCEPT ![t] = "flags"]
    /\ UNCHANGED <<asg, userIps, row, readGen, readDash, result, overtaken,
                   faults>>

\* ... and writes what it decided.
Flags(t) ==
    /\ pc[t] = "flags"
    /\ SetFlags(plan[t])
    /\ Done(t)
    /\ UNCHANGED <<gen, present, active, verdict, exit, dash, due, token,
                   left, probed, userIps, faults>>

\* The process dies; its claims stay.
Crash(t) ==
    /\ Fault
    /\ pc[t] # "idle"
    /\ Done(t)
    /\ UNCHANGED <<asg, userIps>>

\* The claim's lease runs down.  A tick that finds the claimant at work is a
\* stall: probes have timeouts far below the lease.
Tick ==
    /\ \E r \in Rows : left[r] > 0
    /\ IF \E t \in Threads : row[t] # None /\ token[row[t]] = t
       THEN Fault ELSE UNCHANGED faults
    /\ left' = [r \in Rows |-> IF left[r] > 0 THEN left[r] - 1 ELSE 0]
    /\ UNCHANGED <<gen, present, active, verdict, exit, dup, dist, dash, due,
                   token, probed, userIps, local>>

\* qualification_next_check_at arrives.
NextCheck(r) ==
    /\ ~due[r]
    /\ due' = [due EXCEPT ![r] = TRUE]
    /\ UNCHANGED <<gen, present, active, verdict, exit, dup, dist, dash,
                   token, left, probed, userIps, local, faults>>

---------------------------------------------------------------------------

Go(t) == Read(t) \/ Probe(t) \/ Judge(t) \/ Write(t) \/ ReadAll(t) \/ Flags(t)

Next ==
    \/ \E r \in Rows : StoreChanged(r) \/ StoreSame(r) \/ MarkMissing(r)
                       \/ NextCheck(r)
    \/ \E S \in SUBSET Rows : Snapshot(S)
    \/ \E ip \in Exits : UserExit(ip)
    \/ DashAges \/ Tick
    \/ \E t \in Threads :
          \/ Go(t) \/ Release(t) \/ ProbeError(t) \/ WorkerError(t)
          \/ Crash(t)
          \/ \E r \in Rows : Claim(t, r)

Spec == Init /\ [][Next]_vars

\* Threads finish what they began; time passes; a batch takes the rows that
\* wait longest first, so no claimable row is passed over forever.
\* Claims presume that the automation is not left paused: while it is,
\* run_once claims nothing.
FairSpec ==
    /\ Spec
    /\ \A t \in Threads : WF_vars(Go(t))
    /\ \A r \in Rows : SF_vars(\E t \in Threads : Claim(t, r))
    /\ \A r \in Rows : WF_vars(NextCheck(r))
    /\ WF_vars(Tick)

---------------------------------------------------------------------------
(* The distribution feed.                                                  *)

\* _raw_rows: what the internal API hands out of the provider's rows.
Offered ==
    {r \in Rows :
        /\ present[r] /\ active[r]
        /\ verdict[r] \in {"allow", "risk"} /\ exit[r] # None
        /\ dist[r] /\ ~dup[r] /\ dash[r]
        /\ exit[r] \notin userIps
        /\ \A q \in Rows :
              present[q] /\ IsLive(verdict[q]) /\ exit[q] = exit[r] => q >= r}

---------------------------------------------------------------------------
(* Properties.                                                             *)

\* An assignment is handed out only after a probe with the very credentials
\* that are handed out: a sync that changes them during a probe, between the
\* probe's checks or before a reconciliation writes its flags takes it out.
OfferedIsCurrent == \A r \in Offered : probed[r] = gen[r]

\* A verdict is never overwritten by an older probe, whose claim ran out and
\* was taken over while it waited for the network.
VerdictInOrder ==
    [][\A t \in Threads :
          overtaken[t] => ~(pc[t] = "write" /\ pc'[t] = "readall")]_vars

\* An assignment that stays listed is probed with its current credentials,
\* through crashes, stalls and errors.
Qualified ==
    \A r \in Rows :
        (present[r] /\ active[r])
            ~> (probed[r] = gen[r] \/ ~present[r] \/ ~active[r])

\* "a late user/provider arrival cannot leave a stale distributable flag
\* behind": when nobody is at work, a flag agrees with the verdict.
NoStaleFlag ==
    (\A t \in Threads : pc[t] = "idle")
        => \A r \in Rows : dist[r] => verdict[r] = "allow"
=============================================================================
