------------------------------ MODULE Sessions ------------------------------
(***************************************************************************)
(* The provider session that the browser worker, the swap worker and the   *)
(* administrator share: its renewal by logging in through the one Chrome,  *)
(* the backoff between failed logins, the gate that allows automatic       *)
(* swaps with the operator's intent behind it, and the dashboard           *)
(* observations that the session is for.                                   *)
(*                                                                         *)
(* wait and next are stored times minus the clock.  The credentials of the *)
(* login are configured, the browser is enabled, and the two settings      *)
(* exist, as ensure_proxiware_swap_schema leaves them.  Settings read      *)
(* right after one another are read in one step; what is read before a     *)
(* call to the browser and used after it is kept by the process.           *)
(*                                                                         *)
(* Left to SwapJobs: what the swap worker does once it may.                *)
(***************************************************************************)
EXTENDS Naturals, FiniteSetsExt

CONSTANTS
    S,              \* the number of subscriptions
    None,           \* nobody
    COOL, CAP,      \* ticks of the first and of the longest login backoff
    INTERVAL,       \* ticks between two observations of a subscription
    SKEW,           \* ticks that a snapshot may be ahead of the run's clock
    MaxEvents       \* bound: what fails, and what the operator does

ASSUME SessionsAssumption ==
    /\ S \in Nat /\ MaxEvents \in Nat
    /\ COOL \in Nat \ {0} /\ CAP \in Nat \ {0} /\ COOL <= CAP
    /\ INTERVAL \in Nat \ {0} /\ SKEW \in Nat /\ SKEW < INTERVAL
    /\ None \notin {"browser", "swap", "admin"}

VARIABLES
    sess,           \* provider_sessions: the state with the expiry
    failures, wait, \* renewal_failures and renew_next_attempt_at
    gate, intent,   \* proxiware_auto_swap and proxiware_auto_swap_intent
    paused,         \* proxiware_automation_paused
    next, misses,   \* when to observe a subscription, failed observations
    lock,           \* who holds PROXIWARE_CDP_LOCK_PATH
    pc,             \* where a process is
    want,           \* the intent it read, or the operator's new preference
    had,            \* auto_swap_intent as the swap worker's run began
    todo, age,      \* the browser worker's run: what is left, its age
    tally,          \* the number of failures that a failed login will store
    extra,          \* logins of workers within the current backoff
    lost,           \* a process died between a renewal and its restore
    events

store == <<sess, failures, wait, gate, intent>>
plan == <<next, misses>>
proc == <<lock, pc, want, had, todo, age, tally>>
vars == <<store, paused, plan, proc, extra, lost, events>>

Subs == 1 .. S
Workers == {"browser", "swap"}
Procs == Workers \cup {"admin"}

\* The backoff doubles three times: more failures change nothing.
TOP == 4
\* Delays count from the start of a run; an older run is like this one.
AGED == Max({CAP, INTERVAL, SKEW + 1})
\* The observation backoff doubles six times, or until it meets the interval.
MISSES == Min({INTERVAL, 7})

TypeOK ==
    /\ sess \in {"active", "expired", "invalid", "manual"}
    /\ failures \in 0 .. TOP /\ wait \in 0 .. CAP
    /\ gate \in BOOLEAN /\ intent \in BOOLEAN /\ paused \in BOOLEAN
    /\ next \in [Subs -> 0 .. INTERVAL] /\ misses \in [Subs -> 0 .. MISSES]
    /\ lock \in Workers \cup {None}
    /\ pc \in [Procs -> {"idle", "giveup", "login", "signing", "record",
                         "intent", "open", "reread", "reopen", "gate",
                         "restore", "work", "prefer", "backoff"}]
    /\ want \in [Procs -> BOOLEAN] /\ had \in BOOLEAN
    /\ todo \in SUBSET Subs /\ age \in 0 .. AGED /\ tally \in 0 .. TOP
    /\ extra \in Nat /\ lost \in BOOLEAN
    /\ events \in 0 .. MaxEvents

Init ==
    /\ sess = "manual" /\ failures = 0 /\ wait = 0
    /\ gate = FALSE /\ intent \in BOOLEAN
    /\ paused = FALSE
    /\ next = [s \in Subs |-> 0] /\ misses = [s \in Subs |-> 0]
    /\ lock = None
    /\ pc = [p \in Procs |-> "idle"]
    /\ want = [p \in Procs |-> FALSE] /\ had = FALSE
    /\ todo = {} /\ age = 0 /\ tally = 0
    /\ extra = 0 /\ lost = FALSE /\ events = 0

Event ==
    /\ events < MaxEvents
    /\ events' = events + 1

Goes(p, l) == pc' = [pc EXCEPT ![p] = l]

\* A process ends its run: the adapter is closed, which frees the browser.
Leave(p) ==
    /\ Goes(p, "idle")
    /\ lock' = IF lock = p THEN None ELSE lock
    /\ want' = [want EXCEPT ![p] = FALSE]
    /\ had' = (had /\ p # "swap")
    /\ todo' = IF p = "browser" THEN {} ELSE todo
    /\ age' = IF p = "browser" THEN 0 ELSE age
    /\ tally' = IF lock = p THEN 0 ELSE tally

\* mark_manual_action_required, in one transaction.
MarkManual ==
    /\ sess' = "manual"
    /\ gate' = FALSE
    /\ UNCHANGED intent

Since(t, a) == IF t > a THEN t - a ELSE 0
---------------------------------------------------------------------------
(* Renewing the session.                                                   *)

\* The backoff is recorded and not looked at.
MayLoginAlways == TRUE

\* renew_next_attempt_at has passed.
MayLogin == wait = 0

\* Without a session a worker logs in, or leaves it at that for now.
Renews(p) == Goes(p, IF MayLogin THEN "login" ELSE "giveup")

\* The login waits for the browser.  The administrator's adapter is built
\* without a lock path and does not.
Login(p) ==
    /\ pc[p] = "login"
    /\ p # "admin" => lock \in {None, p}
    /\ lock' = IF p = "admin" THEN lock ELSE p
    /\ Goes(p, "signing")
    /\ extra' = IF p # "admin" /\ wait > 0 THEN extra + 1 ELSE extra
    /\ UNCHANGED <<store, paused, plan, want, had, todo, age, tally, lost,
                   events>>

\* The login succeeds, store_provider_session commits.
SignIn(p) ==
    /\ pc[p] = "signing"
    /\ sess' = "active" /\ failures' = 0 /\ wait' = 0 /\ extra' = 0
    /\ Goes(p, "intent")
    /\ UNCHANGED <<gate, intent, paused, plan, lock, want, had, todo, age,
                   tally, lost, events>>

\* CAPTCHA, fingerprint, CSRF or login fails, or another's login in the
\* same browser clears the cookies: renew_provider_session marks the
\* session.  A worker will record the failure as well.
SignFails(p) ==
    /\ pc[p] = "signing"
    /\ Event
    /\ MarkManual
    /\ IF p = "admin" THEN Leave(p)
       ELSE Goes(p, "record")
            /\ UNCHANGED <<lock, want, had, todo, age, tally>>
    /\ UNCHANGED <<failures, wait, paused, plan, extra, lost>>

\* record_session_renewal_failure counts the failure and closes the gate ...
Count(p) ==
    /\ pc[p] = "record"
    /\ tally' = IF failures < TOP THEN failures + 1 ELSE TOP
    /\ MarkManual
    /\ Goes(p, "backoff")
    /\ UNCHANGED <<failures, wait, paused, plan, lock, want, had, todo, age,
                   extra, lost, events>>

\* The delay doubles without end.
RecordUncapped(p) ==
    /\ pc[p] = "backoff"
    /\ failures' = tally /\ tally' = 0
    /\ wait' = COOL * 2 ^ (tally - 1)
    /\ Goes(p, "giveup")
    /\ UNCHANGED <<sess, gate, intent, paused, plan, lock, want, had, todo,
                   age, extra, lost, events>>

\* ... and stores the backoff in a transaction of its own.  The browser
\* worker's delay counts from the start of its run.
Record(p) ==
    LET delay == Min({CAP, COOL * 2 ^ (tally - 1)})
    IN  /\ pc[p] = "backoff"
        /\ failures' = tally /\ tally' = 0
        /\ wait' = IF p = "browser" THEN Since(delay, age) ELSE delay
        /\ extra' = IF wait' = 0 THEN 0 ELSE extra
        /\ Goes(p, "giveup")
        /\ UNCHANGED <<sess, gate, intent, paused, plan, lock, want, had,
                       todo, age, lost, events>>

\* The run ends for want of a session, whatever the session is by now.
GiveUp(p) ==
    /\ pc[p] = "giveup"
    /\ MarkManual
    /\ Leave(p)
    /\ UNCHANGED <<failures, wait, paused, plan, extra, lost, events>>

\* The gate's own value is read instead.
ReadIntentOfGate(p) ==
    /\ \/ pc[p] = "intent" /\ Goes(p, "open")
       \/ pc[p] = "reread" /\ Goes(p, "reopen")
    /\ want' = [want EXCEPT ![p] = gate]
    /\ UNCHANGED <<store, paused, plan, lock, had, todo, age, tally, extra,
                   lost, events>>

\* restore_auto_swap_intent reads the intent ...
ReadIntent(p) ==
    /\ \/ pc[p] = "intent" /\ Goes(p, "open")
       \/ pc[p] = "reread" /\ Goes(p, "reopen")
    /\ want' = [want EXCEPT ![p] = intent]
    /\ UNCHANGED <<store, paused, plan, lock, had, todo, age, tally, extra,
                   lost, events>>

\* ... and sets the gate in a transaction of its own.  After a renewal the
\* worker reads the session again.
SetGate(p) ==
    /\ pc[p] \in {"open", "reopen"}
    /\ gate' = want[p]
    /\ lost' = (lost /\ ~want[p])
    /\ CASE p = "admin" -> Leave(p)
         [] p # "admin" ->
              /\ Goes(p, IF pc[p] = "reopen" THEN "gate"
                         ELSE IF sess # "active" THEN "giveup"
                         ELSE IF p = "browser" THEN "restore"
                         ELSE IF had THEN "reread" ELSE "gate")
              /\ want' = [want EXCEPT ![p] = FALSE]
              /\ UNCHANGED <<lock, had, todo, age, tally>>
    /\ UNCHANGED <<sess, failures, wait, intent, paused, plan, extra, events>>

---------------------------------------------------------------------------
(* The swap worker.                                                        *)

\* _run_once_for_job up to the session: with neither the gate nor the
\* intent the worker is disabled, and with a live session and the gate off.
StartSwap ==
    /\ pc["swap"] = "idle"
    /\ ~paused
    /\ gate \/ intent
    /\ sess = "active" => gate
    /\ had' = intent
    /\ IF sess = "active" THEN Goes("swap", IF intent THEN "reread" ELSE "gate")
       ELSE Renews("swap")
    /\ UNCHANGED <<store, paused, plan, lock, want, todo, age, tally, extra,
                   lost, events>>

\* The gate once more, before anything is claimed.
CheckGate ==
    /\ pc["swap"] = "gate"
    /\ IF gate THEN Goes("swap", "restore") /\ UNCHANGED <<lock, want, had,
                                                           todo, age, tally>>
       ELSE Leave("swap")
    /\ UNCHANGED <<store, paused, plan, extra, lost, events>>

\* The claimed job is carried out, or there is none; an uncertain outcome
\* closes the gate and leaves the intent.
SwapEnds ==
    /\ pc["swap"] = "work"
    /\ \/ gate' = FALSE /\ Event
       \/ UNCHANGED <<gate, events>>
    /\ Leave("swap")
    /\ UNCHANGED <<sess, failures, wait, intent, paused, plan, extra, lost>>

---------------------------------------------------------------------------
(* The browser worker.                                                     *)

Due == {s \in Subs : next[s] = 0}

\* run_once up to the session.  One that cannot be read is given up.
StartBrowser ==
    /\ pc["browser"] = "idle"
    /\ ~paused
    /\ Due # {}
    /\ todo' = Due /\ age' = 0
    /\ CASE sess = "active" -> Goes("browser", "restore")
         [] sess = "invalid" -> Goes("browser", "giveup")
         [] sess \in {"expired", "manual"} -> Renews("browser")
    /\ UNCHANGED <<store, paused, plan, lock, want, had, tally, extra, lost,
                   events>>

\* restore_session: the first use of the browser unless the run logged in.
Restore(p) ==
    /\ pc[p] = "restore"
    /\ lock \in {None, p}
    /\ lock' = p
    /\ Goes(p, "work")
    /\ UNCHANGED <<store, paused, plan, want, had, todo, age, tally, extra,
                   lost, events>>

\* The browser is not there, or the provider has ended the session.  What
\* is no fault of the session, a timeout say, leaves it as it is.
RestoreFails(p) ==
    /\ pc[p] = "restore"
    /\ lock \in {None, p}
    /\ Event
    /\ \/ MarkManual
       \/ p = "browser" /\ UNCHANGED <<sess, gate, intent>>
    /\ Leave(p)
    /\ UNCHANGED <<failures, wait, paused, plan, extra, lost>>

\* A success does not reset the failures.
ScheduleKeepsMisses(s, delay, m) ==
    /\ next' = [next EXCEPT ![s] = Since(delay, age)]
    /\ misses' = [misses EXCEPT ![s] = Max({@, m})]

\* _schedule, with the clock as the run began.
Schedule(s, delay, m) ==
    /\ next' = [next EXCEPT ![s] = Since(delay, age)]
    /\ misses' = [misses EXCEPT ![s] = m]

\* The next subscription in turn is observed, its snapshot applied.
Observe ==
    LET s == Min(todo)
    IN  /\ pc["browser"] = "work"
        /\ age <= SKEW
        /\ Schedule(s, INTERVAL, 0)
        /\ IF todo = {s} THEN Leave("browser")
           ELSE todo' = todo \ {s}
                /\ UNCHANGED <<lock, pc, want, had, age, tally>>
        /\ UNCHANGED <<store, paused, extra, lost, events>>

\* The observation fails, or comes too late for the run's clock, which
\* apply_dashboard_snapshot takes for the present.  The rest is skipped.
ObserveFails ==
    LET s == Min(todo)
        m == IF misses[s] < MISSES THEN misses[s] + 1 ELSE MISSES
    IN  /\ pc["browser"] = "work"
        /\ \/ age > SKEW /\ UNCHANGED <<sess, gate, intent, events>>
           \/ Event /\ (MarkManual \/ UNCHANGED <<sess, gate, intent>>)
        /\ Schedule(s, Min({INTERVAL, 2 ^ (m - 1)}), m)
        /\ Leave("browser")
        /\ UNCHANGED <<failures, wait, paused, extra, lost>>

---------------------------------------------------------------------------
(* The operator.                                                           *)

\* The administrator's renewal looks at no backoff and records none.
RenewSession ==
    /\ pc["admin"] = "idle"
    /\ Event
    /\ Goes("admin", "login")
    /\ UNCHANGED <<store, paused, plan, lock, want, had, todo, age, tally,
                   extra, lost>>

\* set_auto_swap_preference: the intent, then the gate.
Prefer(on) ==
    /\ Event
    /\ pc["admin"] = "idle"
    /\ intent' = on
    /\ want' = [want EXCEPT !["admin"] = on]
    /\ Goes("admin", "prefer")
    /\ UNCHANGED <<sess, failures, wait, gate, paused, plan, lock, had, todo,
                   age, tally, extra, lost>>

PreferGate ==
    /\ pc["admin"] = "prefer"
    /\ gate' = want["admin"]
    /\ lost' = (lost /\ ~want["admin"])
    /\ Leave("admin")
    /\ UNCHANGED <<sess, failures, wait, intent, paused, plan, extra, events>>

Pause ==
    /\ Event
    /\ paused' = ~paused
    /\ UNCHANGED <<store, plan, proc, extra, lost>>

---------------------------------------------------------------------------
(* The world.                                                              *)

\* The session runs out, or its row cannot be read with the worker key.
Expire ==
    /\ Event
    /\ sess = "active"
    /\ sess' \in {"expired", "invalid"}
    /\ lost' = FALSE
    /\ UNCHANGED <<failures, wait, gate, intent, paused, plan, proc, extra>>

\* A process dies; its lock goes with it.
Crash(p) ==
    /\ Event
    /\ pc[p] # "idle"
    /\ Leave(p)
    /\ lost' = (lost \/ pc[p] \in {"intent", "open"})
    /\ UNCHANGED <<store, paused, plan, extra>>

\* Time passes.  A login takes as long as the CAPTCHA does; apart from that
\* a run that outlasts the skew has been held up.
Tick ==
    /\ IF /\ pc["browser"] # "idle" /\ age >= SKEW
          /\ \A p \in Procs : pc[p] # "signing"
       THEN Event ELSE UNCHANGED events
    /\ wait' = Since(wait, 1)
    /\ extra' = IF wait' = 0 THEN 0 ELSE extra
    /\ next' = [s \in Subs |-> Since(next[s], 1)]
    /\ age' = IF pc["browser"] # "idle" /\ age < AGED THEN age + 1 ELSE age
    /\ UNCHANGED <<sess, failures, gate, intent, paused, misses, lock, pc,
                   want, had, todo, tally, lost>>

---------------------------------------------------------------------------

Takes(p) == Login(p) \/ Restore(p)
Steps(p) ==
    \/ SignIn(p) \/ Count(p) \/ Record(p) \/ GiveUp(p)
    \/ ReadIntent(p) \/ SetGate(p)
SwapSteps == Steps("swap") \/ StartSwap \/ CheckGate \/ SwapEnds
BrowserSteps ==
    Steps("browser") \/ StartBrowser \/ Observe \/ (age > SKEW /\ ObserveFails)

Next ==
    \/ \E p \in Procs : Takes(p) \/ Steps(p) \/ SignFails(p) \/ Crash(p)
    \/ \E p \in Workers : RestoreFails(p)
    \/ StartSwap \/ CheckGate \/ SwapEnds
    \/ StartBrowser \/ Observe \/ ObserveFails
    \/ RenewSession \/ (\E on \in BOOLEAN : Prefer(on)) \/ PreferGate \/ Pause
    \/ Expire \/ Tick

Spec == Init /\ [][Next]_vars

\* The loops of both services go on, a request of the administrator ends.
\* The swap worker sleeps between its runs, so a process that waits for the
\* browser lock finds it free again and again, and takes it.
FairSpec ==
    /\ Spec
    /\ \A p \in Workers : SF_vars(Takes(p))
    /\ WF_vars(SwapSteps) /\ WF_vars(BrowserSteps)
    /\ WF_vars(Takes("admin") \/ Steps("admin") \/ PreferGate)
    /\ WF_vars(Tick)

---------------------------------------------------------------------------
(* Properties.                                                             *)

\* The cooldown after a failed login bounds the CAPTCHA spend: of the two
\* workers at most one logs in within it, the one that had looked before
\* the failure was recorded.
LoginsBounded == extra <= 1

\* A session that was lost comes back, and with it the gate if the operator
\* wants it; except that a process which dies after storing the session and
\* before restoring the intent leaves the gate closed.
GateReturns ==
    (sess # "active" /\ intent) ~> (gate \/ ~intent \/ paused \/ lost)

\* Every subscription is observed again and again: one that fails, and the
\* ones skipped after it, get their turn.
Observed ==
    \A s \in Subs : []<>(paused \/ (next[s] > 0 /\ misses[s] = 0))

\* What the swap worker's comment promises, that automation which the
\* operator has turned off is not resumed for him: with no restore and no
\* change of preference under way, an open gate is one he wants open.
NotResumedSilently ==
    (\A p \in Procs : pc[p] \notin {"open", "reopen", "prefer"})
        => (gate => intent)
=============================================================================
