--------------------------- MODULE SessionsProofs ---------------------------
(***************************************************************************)
(* TLAPS proofs about Sessions, for every number of subscriptions and all  *)
(* backoffs, intervals and bounds:                                         *)
(*                                                                         *)
(*   SessionsTypeCorrect     Spec => []TypeOK                              *)
(*   SessionsLoginsBounded   Spec => []LoginsBounded                       *)
(*                                                                         *)
(* TypeOK is not inductive.  The stored delay is COOL * 2 ^ (tally - 1),   *)
(* which is within its type only if a counted failure is still counted     *)
(* when the delay is computed: nobody else may end a run and reset it,     *)
(* because a worker holds the browser from its login on (LoginHoldsLock,   *)
(* FailureCounted).  The next subscription is the least one left, which    *)
(* exists because a run has work (RunHasWork, LeastNatural).               *)
(*                                                                         *)
(* LoginsBounded is about who is still on the way to a login when the      *)
(* cooldown begins: Cool.                                                  *)
(***************************************************************************)
EXTENDS Sessions, TLAPS, WellFoundedInduction

\* Every nonempty set of naturals has a least element.
LEMMA LeastNatural ==
    ASSUME NEW T \in SUBSET Nat, T # {}
    PROVE  \E m \in T : \A n \in T : m <= n
<1> DEFINE R == {ss \in Nat \X Nat : ss[1] < ss[2]}
<1>1. IsWellFoundedOn(R, Nat)
  BY NatLessThanWellFounded, Zenon DEF OpToRel
<1>2. \E x \in T : \A y \in T : ~ (<<y, x>> \in R)
  <2> HIDE DEF R
  <2> QED BY <1>1, WFMin
<1>3. PICK x \in T : \A y \in T : ~ (<<y, x>> \in R)
  BY <1>2
<1>4. \A y \in T : x <= y
  <2> TAKE y \in T
  <2>1. ~(<<y, x>> \in R)
    BY <1>3
  <2> QED BY <2>1
<1> QED BY <1>4

\* The next subscription in turn is one of those left.
LEMMA MinIn ==
    ASSUME NEW T \in SUBSET Nat, T # {}
    PROVE  Min(T) \in T
<1>1. \E m \in T : \A n \in T : m <= n
  BY LeastNatural
<1> QED BY <1>1 DEF Min

\* min() of two values.
LEMMA MinOfTwo ==
    ASSUME NEW a \in Nat, NEW b \in Nat
    PROVE  Min({a, b}) = IF a <= b THEN a ELSE b
BY DEF Min

\* The bounds are naturals, and the miss count stays below eight.
LEMMA BoundsTypes ==
    /\ AGED \in Nat /\ AGED >= CAP /\ AGED >= INTERVAL
    /\ MISSES \in 1 .. 7
    /\ S \in Nat /\ CAP \in Nat /\ INTERVAL \in Nat /\ SKEW \in Nat /\ COOL \in Nat
    /\ MaxEvents \in Nat
<1>1. AGED \in Nat /\ AGED >= CAP /\ AGED >= INTERVAL
  BY SessionsAssumption DEF AGED, Max
<1>2. MISSES \in 1 .. 7
  BY SessionsAssumption, MinOfTwo DEF MISSES
<1> QED BY <1>1, <1>2, SessionsAssumption

\* The powers of two the two backoffs use.
LEMMA Powers ==
    ASSUME NEW k \in 1 .. 7 PROVE 2 ^ (k - 1) \in Nat
<1> DEFINE j == k - 1
<1>1. j = 0 \/ j = 1 \/ j = 2 \/ j = 3 \/ j = 4 \/ j = 5 \/ j = 6
  OBVIOUS
<1>2. /\ 2 ^ 0 \in Nat /\ 2 ^ 1 \in Nat /\ 2 ^ 2 \in Nat /\ 2 ^ 3 \in Nat
      /\ 2 ^ 4 \in Nat /\ 2 ^ 5 \in Nat /\ 2 ^ 6 \in Nat
  OBVIOUS
<1> HIDE DEF j
<1>3. 2 ^ j \in Nat
  BY <1>1, <1>2, Zenon
<1> QED BY <1>3 DEF j

\* What is left of a delay is no longer than the delay.
LEMMA SinceType ==
    ASSUME NEW t \in Nat, NEW a \in Nat
    PROVE  Since(t, a) \in 0 .. t
BY DEF Since

-----------------------------------------------------------------------------
\* Where the administrator's request can be.
AdminPlaces ==
    pc["admin"] \in {"idle", "login", "signing", "intent", "open", "prefer"}

\* A worker in the middle of a login holds the browser.
LoginHoldsLock ==
    \A p \in Workers : pc[p] \in {"signing", "record", "backoff"} => lock = p

\* A counted failure is at least one.
FailureCounted ==
    \A p \in Workers : pc[p] = "backoff" => tally >= 1

\* A run of the browser worker has something left to observe.
RunHasWork == pc["browser"] # "idle" => todo # {}

ProcInv == TypeOK /\ AdminPlaces /\ LoginHoldsLock /\ FailureCounted /\ RunHasWork

\* The initial state satisfies the process invariant.
LEMMA ProcInit == Init => ProcInv
<1> SUFFICES ASSUME Init PROVE ProcInv
  OBVIOUS
<1> USE BoundsTypes DEF Init, Procs, Workers
<1>1. TypeOK
  <2>1. /\ sess \in {"active", "expired", "invalid", "manual"}
        /\ failures \in 0 .. TOP /\ wait \in 0 .. CAP
        /\ next \in [Subs -> 0 .. INTERVAL] /\ misses \in [Subs -> 0 .. MISSES]
        /\ lock \in Workers \cup {None}
        /\ todo \in SUBSET Subs /\ age \in 0 .. AGED /\ tally \in 0 .. TOP
        /\ extra \in Nat /\ events \in 0 .. MaxEvents
    BY DEF TOP
  <2>2. pc \in [Procs -> {"idle", "giveup", "login", "signing", "record",
                          "intent", "open", "reread", "reopen", "gate",
                          "restore", "work", "prefer", "backoff"}]
    OBVIOUS
  <2>3. /\ gate \in BOOLEAN /\ intent \in BOOLEAN /\ paused \in BOOLEAN
        /\ had \in BOOLEAN /\ lost \in BOOLEAN
    OBVIOUS
  <2>4. want \in [Procs -> BOOLEAN]
    OBVIOUS
  <2> QED BY <2>1, <2>2, <2>3, <2>4 DEF TypeOK
<1>2. AdminPlaces /\ LoginHoldsLock /\ FailureCounted /\ RunHasWork
  BY DEF AdminPlaces, LoginHoldsLock, FailureCounted, RunHasWork
<1> QED BY <1>1, <1>2 DEF ProcInv

Labels == {"idle", "giveup", "login", "signing", "record", "intent", "open", "reread",
           "reopen", "gate", "restore", "work", "prefer", "backoff"}

\* The parts of ProcInv that concern the processes.
ProcTypes ==
    /\ lock \in Workers \cup {None}
    /\ pc \in [Procs -> Labels]
    /\ want \in [Procs -> BOOLEAN] /\ had \in BOOLEAN
    /\ todo \in SUBSET Subs /\ age \in 0 .. AGED /\ tally \in 0 .. TOP
    /\ AdminPlaces /\ LoginHoldsLock /\ FailureCounted /\ RunHasWork

\* The parts that concern what is stored.
StoreTypes ==
    /\ sess \in {"active", "expired", "invalid", "manual"}
    /\ failures \in 0 .. TOP /\ wait \in 0 .. CAP
    /\ gate \in BOOLEAN /\ intent \in BOOLEAN /\ paused \in BOOLEAN
    /\ next \in [Subs -> 0 .. INTERVAL] /\ misses \in [Subs -> 0 .. MISSES]
    /\ extra \in Nat /\ lost \in BOOLEAN
    /\ events \in 0 .. MaxEvents

\* The invariant is what is said of the processes and of the store ...
LEMMA ProcSplit == ProcInv <=> ProcTypes /\ StoreTypes
BY DEF ProcInv, ProcTypes, StoreTypes, TypeOK, Labels

\* ... after a step, too.
LEMMA ProcSplitPrimed == ProcInv' <=> ProcTypes' /\ StoreTypes'
BY DEF ProcInv, ProcTypes, StoreTypes, TypeOK, Labels

\* The bound on events is respected.
LEMMA EventType ==
    ASSUME StoreTypes, Event PROVE events' \in 0 .. MaxEvents
BY BoundsTypes DEF StoreTypes, Event

\* The end of a run keeps the processes' part of the invariant.
LEMMA LeaveProc ==
    ASSUME ProcTypes, NEW p \in Procs, Leave(p)
    PROVE  ProcTypes'
<1> USE DEF ProcTypes, Leave, Goes
<1>1. /\ lock' \in Workers \cup {None}
      /\ pc' \in [Procs -> Labels]
      /\ todo' \in SUBSET Subs
      /\ tally' \in 0 .. TOP
  BY DEF Labels, TOP
<1>2. want' \in [Procs -> BOOLEAN]
  OBVIOUS
<1>3. had' \in BOOLEAN
  OBVIOUS
<1>4. age' \in 0 .. AGED
  BY BoundsTypes
<1>5. AdminPlaces'
  BY DEF AdminPlaces, Procs
<1>6. LoginHoldsLock'
  BY DEF LoginHoldsLock, Workers, Procs
<1>7. FailureCounted'
  BY DEF FailureCounted, LoginHoldsLock, Workers, Procs
<1>8. RunHasWork'
  BY DEF RunHasWork, Procs, Workers
<1> QED BY <1>1, <1>2, <1>3, <1>4, <1>5, <1>6, <1>7, <1>8

\* A process moves on, the rest of the processes' state as it was.
LEMMA GoesProc ==
    ASSUME ProcTypes, NEW p \in Procs, NEW l \in Labels, Goes(p, l),
           p = "admin" => l \in {"login", "signing", "intent", "open", "prefer"},
           l \in {"signing", "record", "backoff"} => p = "admin" \/ lock = p,
           l # "backoff", l # "idle", p = "browser" => pc[p] # "idle",
           want' \in [Procs -> BOOLEAN],
           UNCHANGED <<lock, had, todo, age, tally>>
    PROVE  ProcTypes'
<1> USE DEF ProcTypes, Goes
<1>1. pc' \in [Procs -> Labels]
  OBVIOUS
<1>2. AdminPlaces'
  BY DEF AdminPlaces, Procs
<1>3. LoginHoldsLock'
  BY DEF LoginHoldsLock, Workers, Procs
<1>4. FailureCounted'
  BY DEF FailureCounted, Workers, Procs
<1>5. RunHasWork'
  BY DEF RunHasWork, Procs, Workers
<1> QED BY <1>1, <1>2, <1>3, <1>4, <1>5

\* Logging in, waiting for the browser and giving up.
LEMMA RenewSteps ==
    ASSUME ProcInv, NEW p \in Procs,
           Takes(p) \/ SignIn(p) \/ SignFails(p) \/ Count(p) \/ GiveUp(p)
    PROVE  ProcInv'
<1> USE ProcSplit, ProcSplitPrimed, BoundsTypes
<1>1. ProcTypes /\ StoreTypes
  OBVIOUS
<1> USE DEF store, plan
<1>2. CASE Login(p)
  <2>1. pc' \in [Procs -> Labels] /\ lock' \in Workers \cup {None} /\ extra' \in Nat
    BY <1>1, <1>2 DEF ProcTypes, StoreTypes, Login, Goes, Labels, Procs
  <2>2. AdminPlaces' /\ LoginHoldsLock' /\ FailureCounted' /\ RunHasWork'
    BY <1>1, <1>2, SessionsAssumption
       DEF ProcTypes, Login, Goes, AdminPlaces, LoginHoldsLock, FailureCounted, RunHasWork, Procs, Workers
  <2>3. UNCHANGED <<store, paused, plan, want, had, todo, age, tally, lost, events>>
    BY <1>2 DEF Login
  <2> QED BY <1>1, <2>1, <2>2, <2>3 DEF ProcTypes, StoreTypes
<1>3. CASE Restore(p)
  <2>1. pc[p] = "restore" /\ p # "admin" /\ lock \in {None, p}
    BY <1>1, <1>3 DEF Restore, ProcTypes, AdminPlaces
  <2>2. pc' \in [Procs -> Labels] /\ lock' \in Workers \cup {None}
    BY <1>1, <1>3, <2>1 DEF ProcTypes, Restore, Goes, Labels, Procs
  <2>3. AdminPlaces' /\ LoginHoldsLock' /\ FailureCounted' /\ RunHasWork'
    BY <1>1, <1>3, <2>1, SessionsAssumption
       DEF ProcTypes, Restore, Goes, AdminPlaces, LoginHoldsLock,
           FailureCounted, RunHasWork, Procs, Workers
  <2>4. UNCHANGED <<store, paused, plan, want, had, todo, age, tally, extra, lost, events>>
    BY <1>3 DEF Restore
  <2> QED BY <1>1, <2>2, <2>3, <2>4 DEF ProcTypes, StoreTypes
<1>4. CASE SignIn(p)
  <2>1. ProcTypes'
    <3>1. /\ pc[p] = "signing" /\ Goes(p, "intent")
          /\ UNCHANGED <<lock, want, had, todo, age, tally>>
      BY <1>4 DEF SignIn
    <3>2. "intent" \in Labels
      BY DEF Labels
    <3> QED BY <1>1, <3>1, <3>2, GoesProc DEF ProcTypes
  <2>2. StoreTypes'
    BY <1>1, <1>4 DEF StoreTypes, SignIn, TOP
  <2> QED BY <2>1, <2>2
<1>5. ASSUME MarkManual PROVE sess' = "manual" /\ gate' \in BOOLEAN /\ intent' = intent
  BY <1>5 DEF MarkManual
<1>6. CASE SignFails(p)
  <2>1. /\ pc[p] = "signing" /\ Event /\ MarkManual
        /\ IF p = "admin" THEN Leave(p)
           ELSE Goes(p, "record") /\ UNCHANGED <<lock, want, had, todo, age, tally>>
        /\ UNCHANGED <<failures, wait, paused, plan, extra, lost>>
    BY <1>6 DEF SignFails
  <2>2. ProcTypes'
    <3>1. CASE p = "admin"
      BY <1>1, <2>1, <3>1, LeaveProc
    <3>2. CASE p # "admin"
      <4>1. "record" \in Labels
        BY DEF Labels
      <4>2. lock = p
        BY <1>1, <2>1, <3>2 DEF ProcTypes, LoginHoldsLock, Procs
      <4> QED BY <1>1, <2>1, <3>2, <4>1, <4>2, GoesProc DEF ProcTypes
    <3> QED BY <3>1, <3>2
  <2>3. StoreTypes'
    BY <1>1, <1>5, <2>1, EventType DEF StoreTypes
  <2> QED BY <2>2, <2>3
<1>7. CASE Count(p)
  <2>1. /\ pc[p] = "record"
        /\ tally' = IF failures < TOP THEN failures + 1 ELSE TOP
        /\ MarkManual /\ Goes(p, "backoff")
        /\ UNCHANGED <<failures, wait, paused, plan, lock, want, had, todo, age,
                       extra, lost, events>>
    BY <1>7 DEF Count
  <2>2. tally' \in 1 .. TOP
    BY <1>1, <2>1 DEF StoreTypes, TOP
  <2>3. p \in Workers /\ lock = p
    BY <1>1, <2>1 DEF ProcTypes, AdminPlaces, LoginHoldsLock, Procs
  <2>4. pc' = [pc EXCEPT ![p] = "backoff"] /\ pc' \in [Procs -> Labels]
    BY <1>1, <2>1 DEF Goes, ProcTypes, Labels
  <2>5. AdminPlaces' /\ LoginHoldsLock' /\ FailureCounted' /\ RunHasWork'
    BY <1>1, <2>1, <2>2, <2>3, <2>4
       DEF ProcTypes, AdminPlaces, LoginHoldsLock, FailureCounted, RunHasWork, Procs, Workers
  <2>6. ProcTypes'
    BY <1>1, <2>1, <2>2, <2>4, <2>5 DEF ProcTypes, TOP
  <2>7. StoreTypes'
    BY <1>1, <1>5, <2>1 DEF StoreTypes
  <2> QED BY <2>6, <2>7
<1>8. CASE GiveUp(p)
  <2>1. /\ MarkManual /\ Leave(p)
        /\ UNCHANGED <<failures, wait, paused, plan, extra, lost, events>>
    BY <1>8 DEF GiveUp
  <2>2. ProcTypes'
    BY <1>1, <2>1, LeaveProc
  <2>3. StoreTypes'
    BY <1>1, <1>5, <2>1 DEF StoreTypes
  <2> QED BY <2>2, <2>3
<1> QED BY <1>2, <1>3, <1>4, <1>6, <1>7, <1>8 DEF Takes

\* The delay that Record stores is within the cap.
LEMMA RecordStep ==
    ASSUME ProcInv, NEW p \in Procs, Record(p)
    PROVE  ProcInv'
<1> USE BoundsTypes
<1>1. ProcTypes /\ StoreTypes
  BY ProcSplit
<1> DEFINE delay == Min({CAP, COOL * 2 ^ (tally - 1)})
<1>2. /\ pc[p] = "backoff"
      /\ failures' = tally /\ tally' = 0
      /\ wait' = IF p = "browser" THEN Since(delay, age) ELSE delay
      /\ extra' = IF wait' = 0 THEN 0 ELSE extra
      /\ Goes(p, "giveup")
      /\ UNCHANGED <<sess, gate, intent, paused, next, misses, lock, want, had,
                     todo, age, lost, events>>
  BY DEF Record, plan
<1>3. p \in Workers /\ tally \in 1 .. TOP
  BY <1>1, <1>2 DEF ProcTypes, AdminPlaces, FailureCounted, Procs, TOP
<1>4. delay \in 0 .. CAP
  <2> DEFINE d == 2 ^ (tally - 1)
  <2>0. tally \in 1 .. 7
    BY <1>3 DEF TOP
  <2>1. d \in Nat
    BY <2>0, Powers, Zenon
  <2> HIDE DEF d
  <2>2. COOL * d \in Nat
    BY <2>1
  <2>3. Min({CAP, COOL * d}) \in 0 .. CAP
    BY <2>2, MinOfTwo
  <2> QED BY <2>3 DEF d
<1> HIDE DEF delay
<1>5. wait' \in 0 .. CAP
  <2>1. age \in Nat
    BY <1>1 DEF ProcTypes
  <2>2. Since(delay, age) \in 0 .. delay
    BY <1>4, <2>1, SinceType
  <2> QED BY <1>2, <1>4, <2>2
<1>6. pc' \in [Procs -> Labels] /\ AdminPlaces' /\ LoginHoldsLock' /\ FailureCounted' /\ RunHasWork'
  BY <1>1, <1>2, <1>3 DEF ProcTypes, Goes, Labels, AdminPlaces, LoginHoldsLock,
                          FailureCounted, RunHasWork, Procs, Workers
<1>7. ProcTypes'
  BY <1>1, <1>2, <1>6 DEF ProcTypes, TOP
<1>8. StoreTypes'
  BY <1>1, <1>2, <1>3, <1>5 DEF StoreTypes, TOP
<1> QED BY <1>7, <1>8, ProcSplitPrimed

\* The two halves of restore_auto_swap_intent.
LEMMA GateSteps ==
    ASSUME ProcInv, NEW p \in Procs, ReadIntent(p) \/ SetGate(p)
    PROVE  ProcInv'
<1> USE BoundsTypes
<1>1. ProcTypes /\ StoreTypes
  BY ProcSplit
<1> USE DEF store, plan
<1>2. CASE ReadIntent(p)
  <2>1. PICK l \in {"open", "reopen"} :
          /\ Goes(p, l) /\ (l = "open" => pc[p] = "intent") /\ (l = "reopen" => pc[p] = "reread")
    BY <1>2 DEF ReadIntent
  <2>2. UNCHANGED <<store, paused, plan, lock, had, todo, age, tally, extra, lost, events>>
    BY <1>2 DEF ReadIntent
  <2>3. want' \in [Procs -> BOOLEAN]
    <3>1. want' = [want EXCEPT ![p] = intent] /\ intent \in BOOLEAN
      BY <1>1, <1>2 DEF ReadIntent, StoreTypes
    <3> QED BY <1>1, <3>1 DEF ProcTypes
  <2>4. l \in Labels /\ pc[p] # "idle" /\ (p = "admin" => l = "open")
    BY <1>1, <2>1 DEF Labels, ProcTypes, AdminPlaces
  <2>5. ProcTypes'
    BY <1>1, <2>1, <2>2, <2>3, <2>4, GoesProc
  <2>6. StoreTypes'
    BY <1>1, <2>2 DEF StoreTypes
  <2> QED BY <2>5, <2>6, ProcSplitPrimed
<1>3. CASE SetGate(p)
  <2>1. /\ pc[p] \in {"open", "reopen"}
        /\ gate' = want[p]
        /\ lost' = (lost /\ ~want[p])
        /\ UNCHANGED <<sess, failures, wait, intent, paused, plan, extra, events>>
    BY <1>3 DEF SetGate
  <2>2. gate' \in BOOLEAN
    BY <1>1, <2>1 DEF ProcTypes
  <2>3. lost' \in BOOLEAN
    BY <2>1
  <2>4. StoreTypes'
    BY <1>1, <2>1, <2>2, <2>3 DEF StoreTypes
  <2>5. CASE p = "admin"
    <3>1. Leave(p)
      BY <1>3, <2>5 DEF SetGate
    <3>2. ProcTypes'
      BY <1>1, <3>1, LeaveProc
    <3> QED BY <2>4, <3>2, ProcSplitPrimed
  <2>6. CASE p # "admin"
    <3> DEFINE l == IF pc[p] = "reopen" THEN "gate"
                    ELSE IF sess # "active" THEN "giveup"
                    ELSE IF p = "browser" THEN "restore"
                    ELSE IF had THEN "reread" ELSE "gate"
    <3>1. /\ Goes(p, l)
          /\ want' = [want EXCEPT ![p] = FALSE]
          /\ UNCHANGED <<lock, had, todo, age, tally>>
      BY <1>3, <2>6 DEF SetGate
    <3>2. l \in {"gate", "giveup", "restore", "reread"} /\ pc[p] # "idle"
      BY <2>1
    <3> HIDE DEF l
    <3>3. l \in Labels /\ l \notin {"signing", "record", "backoff", "idle"}
      BY <3>2 DEF Labels
    <3>4. want' \in [Procs -> BOOLEAN]
      BY <1>1, <3>1 DEF ProcTypes
    <3>5. ProcTypes'
      BY <1>1, <2>6, <3>1, <3>2, <3>3, <3>4, GoesProc
    <3> QED BY <2>4, <3>5, ProcSplitPrimed
  <2> QED BY <2>5, <2>6
<1> QED BY <1>2, <1>3

\* The swap worker's run.
LEMMA SwapWorkerSteps ==
    ASSUME ProcInv, StartSwap \/ CheckGate \/ SwapEnds
    PROVE  ProcInv'
<1> USE BoundsTypes
<1>1. ProcTypes /\ StoreTypes /\ "swap" \in Procs
  BY ProcSplit DEF Procs, Workers
<1> USE DEF store, plan
<1>2. CASE StartSwap
  <2>1. PICK l \in {"reread", "gate", "login", "giveup"} : Goes("swap", l)
    BY <1>2 DEF StartSwap, Renews
  <2>2. /\ had' = intent
        /\ UNCHANGED <<store, paused, plan, lock, want, todo, age, tally, extra, lost, events>>
    BY <1>2 DEF StartSwap
  <2>3. had' \in BOOLEAN
    BY <1>1, <2>2 DEF StoreTypes
  <2>4. pc' = [pc EXCEPT !["swap"] = l] /\ pc' \in [Procs -> Labels]
    BY <1>1, <2>1 DEF Goes, ProcTypes, Labels
  <2>5. AdminPlaces' /\ LoginHoldsLock' /\ FailureCounted' /\ RunHasWork'
    BY <1>1, <2>2, <2>4 DEF ProcTypes, AdminPlaces, LoginHoldsLock, FailureCounted,
                            RunHasWork, Procs, Workers
  <2>6. ProcTypes'
    BY <1>1, <2>2, <2>3, <2>4, <2>5 DEF ProcTypes
  <2>7. StoreTypes'
    BY <1>1, <2>2 DEF StoreTypes
  <2> QED BY <2>6, <2>7, ProcSplitPrimed
<1>3. CASE CheckGate
  <2>1. StoreTypes'
    BY <1>1, <1>3 DEF CheckGate, StoreTypes
  <2>2. ProcTypes'
    <3>1. CASE gate
      <4>1. /\ pc["swap"] = "gate" /\ Goes("swap", "restore")
            /\ UNCHANGED <<lock, want, had, todo, age, tally>>
        BY <1>3, <3>1 DEF CheckGate
      <4>2. "restore" \in Labels
        BY DEF Labels
      <4> QED BY <1>1, <4>1, <4>2, GoesProc DEF ProcTypes
    <3>2. CASE ~ gate
      BY <1>1, <1>3, <3>2, LeaveProc DEF CheckGate
    <3> QED BY <3>1, <3>2
  <2> QED BY <2>1, <2>2, ProcSplitPrimed
<1>4. CASE SwapEnds
  <2>1. /\ Leave("swap")
        /\ UNCHANGED <<sess, failures, wait, intent, paused, plan, extra, lost>>
    BY <1>4 DEF SwapEnds
  <2>2. gate' \in BOOLEAN /\ events' \in 0 .. MaxEvents
    <3>1. CASE gate' = FALSE /\ Event
      BY <1>1, <3>1, EventType
    <3>2. CASE UNCHANGED <<gate, events>>
      BY <1>1, <3>2 DEF StoreTypes
    <3> QED BY <1>4, <3>1, <3>2 DEF SwapEnds
  <2>3. StoreTypes'
    BY <1>1, <2>1, <2>2 DEF StoreTypes
  <2> QED BY <1>1, <2>1, <2>3, LeaveProc, ProcSplitPrimed
<1> QED BY <1>2, <1>3, <1>4

\* The browser worker's run.
LEMMA BrowserWorkerSteps ==
    ASSUME ProcInv,
           \/ StartBrowser \/ Observe \/ ObserveFails
           \/ \E p \in Workers : RestoreFails(p)
    PROVE  ProcInv'
<1> USE BoundsTypes
<1>1. ProcTypes /\ StoreTypes /\ "browser" \in Procs /\ "browser" \in Workers
  BY ProcSplit DEF Procs, Workers
<1> USE DEF store
<1>2. CASE StartBrowser
  <2>1. PICK l \in {"restore", "login", "giveup"} : Goes("browser", l)
    BY <1>1, <1>2 DEF StartBrowser, Renews, StoreTypes
  <2>2. /\ todo' = Due /\ Due # {} /\ age' = 0
        /\ UNCHANGED <<store, paused, plan, lock, want, had, tally, extra, lost, events>>
    BY <1>2 DEF StartBrowser
  <2>3. todo' \in SUBSET Subs /\ todo' # {} /\ age' \in 0 .. AGED
    BY <2>2 DEF Due
  <2>4. pc' = [pc EXCEPT !["browser"] = l] /\ pc' \in [Procs -> Labels]
    BY <1>1, <2>1 DEF Goes, ProcTypes, Labels
  <2>5. AdminPlaces' /\ LoginHoldsLock' /\ FailureCounted' /\ RunHasWork'
    BY <1>1, <2>2, <2>3, <2>4 DEF ProcTypes, AdminPlaces, LoginHoldsLock, FailureCounted,
                                  RunHasWork, Procs, Workers
  <2>6. ProcTypes'
    BY <1>1, <2>2, <2>3, <2>4, <2>5 DEF ProcTypes
  <2>7. StoreTypes'
    BY <1>1, <2>2 DEF StoreTypes, plan
  <2> QED BY <2>6, <2>7, ProcSplitPrimed
<1>3. ASSUME NEW s \in Subs, NEW delay \in 0 .. INTERVAL, NEW m \in 0 .. MISSES,
             Schedule(s, delay, m)
      PROVE  next' \in [Subs -> 0 .. INTERVAL] /\ misses' \in [Subs -> 0 .. MISSES]
  <2>1. Since(delay, age) \in 0 .. INTERVAL
    <3>1. age \in Nat /\ delay \in Nat /\ delay <= INTERVAL
      BY <1>1 DEF ProcTypes
    <3>2. Since(delay, age) \in 0 .. delay
      BY <3>1, SinceType
    <3> QED BY <3>1, <3>2
  <2> QED BY <1>1, <1>3, <2>1 DEF Schedule, StoreTypes
<1>4. ASSUME pc["browser"] = "work" PROVE Min(todo) \in todo /\ Min(todo) \in Subs
  <2>1. todo # {} /\ todo \subseteq Subs /\ todo \in SUBSET Nat
    BY <1>1, <1>4 DEF ProcTypes, RunHasWork, Subs
  <2> QED BY <2>1, MinIn
<1>5. CASE Observe
  <2> DEFINE s == Min(todo)
  <2>1. /\ pc["browser"] = "work"
        /\ Schedule(s, INTERVAL, 0)
        /\ IF todo = {s} THEN Leave("browser")
           ELSE todo' = todo \ {s} /\ UNCHANGED <<lock, pc, want, had, age, tally>>
        /\ UNCHANGED <<store, paused, extra, lost, events>>
    BY <1>5 DEF Observe
  <2>2. s \in todo /\ s \in Subs
    BY <1>4, <2>1
  <2> HIDE DEF s
  <2>3. next' \in [Subs -> 0 .. INTERVAL] /\ misses' \in [Subs -> 0 .. MISSES]
    BY <1>3, <2>1, <2>2
  <2>4. StoreTypes'
    BY <1>1, <2>1, <2>3 DEF StoreTypes
  <2>5. ProcTypes'
    <3>1. CASE todo = {s}
      BY <1>1, <2>1, <3>1, LeaveProc
    <3>2. CASE todo # {s}
      BY <1>1, <2>1, <2>2, <3>2 DEF ProcTypes, AdminPlaces, LoginHoldsLock, FailureCounted,
                                    RunHasWork
    <3> QED BY <3>1, <3>2
  <2> QED BY <2>4, <2>5, ProcSplitPrimed
<1>6. CASE ObserveFails
  <2> DEFINE s == Min(todo)
             m == IF misses[s] < MISSES THEN misses[s] + 1 ELSE MISSES
             delay == Min({INTERVAL, 2 ^ (m - 1)})
  <2>1. /\ pc["browser"] = "work"
        /\ \/ UNCHANGED <<sess, gate, intent, events>>
           \/ Event /\ (MarkManual \/ UNCHANGED <<sess, gate, intent>>)
        /\ Schedule(s, delay, m)
        /\ Leave("browser")
        /\ UNCHANGED <<failures, wait, paused, extra, lost>>
    BY <1>6 DEF ObserveFails
  <2>2. s \in todo /\ s \in Subs
    BY <1>4, <2>1
  <2>3. m \in 1 .. MISSES
    <3> HIDE DEF s
    <3>1. misses[s] \in 0 .. MISSES
      BY <1>1, <2>2 DEF StoreTypes
    <3> QED BY <3>1
  <2>4. delay \in 0 .. INTERVAL
    <3> HIDE DEF m
    <3> DEFINE d == 2 ^ (m - 1)
    <3>1. m \in 1 .. 7
      BY <2>3
    <3>2. d \in Nat
      BY <3>1, Powers, Zenon
    <3> HIDE DEF d
    <3>3. Min({INTERVAL, d}) \in 0 .. INTERVAL
      BY <3>2, MinOfTwo
    <3> QED BY <3>3 DEF d
  <2> HIDE DEF s, m, delay
  <2>5. next' \in [Subs -> 0 .. INTERVAL] /\ misses' \in [Subs -> 0 .. MISSES]
    <3>1. m \in 0 .. MISSES
      BY <2>3
    <3> QED BY <1>3, <2>1, <2>2, <2>4, <3>1
  <2>6. /\ sess' \in {"active", "expired", "invalid", "manual"}
        /\ gate' \in BOOLEAN /\ intent' \in BOOLEAN /\ events' \in 0 .. MaxEvents
    <3>1. CASE UNCHANGED <<sess, gate, intent, events>>
      BY <1>1, <3>1 DEF StoreTypes
    <3>2. CASE Event /\ MarkManual
      BY <1>1, <3>2, EventType DEF StoreTypes, MarkManual
    <3>3. CASE Event /\ UNCHANGED <<sess, gate, intent>>
      BY <1>1, <3>3, EventType DEF StoreTypes
    <3> QED BY <2>1, <3>1, <3>2, <3>3
  <2>7. StoreTypes'
    BY <1>1, <2>1, <2>5, <2>6 DEF StoreTypes
  <2> QED BY <1>1, <2>1, <2>7, LeaveProc, ProcSplitPrimed
<1>7. ASSUME NEW p \in Workers, RestoreFails(p) PROVE ProcInv'
  <2>1. /\ Event
        /\ MarkManual \/ UNCHANGED <<sess, gate, intent>>
        /\ Leave(p)
        /\ UNCHANGED <<failures, wait, paused, plan, extra, lost>>
    BY <1>7 DEF RestoreFails
  <2>2. p \in Procs
    BY DEF Procs
  <2>3. sess' \in {"active", "expired", "invalid", "manual"} /\ gate' \in BOOLEAN /\ intent' \in BOOLEAN
    BY <1>1, <2>1 DEF StoreTypes, MarkManual
  <2>4. StoreTypes'
    BY <1>1, <2>1, <2>3, EventType DEF StoreTypes, plan
  <2> QED BY <1>1, <2>1, <2>2, <2>4, LeaveProc, ProcSplitPrimed
<1> QED BY <1>2, <1>5, <1>6, <1>7

\* The administrator's requests.
LEMMA OperatorSteps ==
    ASSUME ProcInv,
           RenewSession \/ (\E on \in BOOLEAN : Prefer(on)) \/ PreferGate \/ Pause
    PROVE  ProcInv'
<1> USE BoundsTypes
<1>1. ProcTypes /\ StoreTypes /\ "admin" \in Procs
  BY ProcSplit DEF Procs
<1> USE DEF store, plan
<1>2. CASE RenewSession
  <2>1. /\ Event /\ Goes("admin", "login")
        /\ UNCHANGED <<store, paused, plan, lock, want, had, todo, age, tally, extra, lost>>
    BY <1>2 DEF RenewSession
  <2>2. "login" \in Labels
    BY DEF Labels
  <2>3. ProcTypes'
    BY <1>1, <2>1, <2>2, GoesProc DEF ProcTypes
  <2>4. StoreTypes'
    BY <1>1, <2>1, EventType DEF StoreTypes
  <2> QED BY <2>3, <2>4, ProcSplitPrimed
<1>3. ASSUME NEW on \in BOOLEAN, Prefer(on) PROVE ProcInv'
  <2>1. /\ Event /\ intent' = on
        /\ want' = [want EXCEPT !["admin"] = on]
        /\ Goes("admin", "prefer")
        /\ UNCHANGED <<sess, failures, wait, gate, paused, plan, lock, had, todo,
                       age, tally, extra, lost>>
    BY <1>3 DEF Prefer
  <2>2. "prefer" \in Labels
    BY DEF Labels
  <2>3. want' \in [Procs -> BOOLEAN]
    BY <1>1, <2>1 DEF ProcTypes
  <2>4. ProcTypes'
    BY <1>1, <2>1, <2>2, <2>3, GoesProc
  <2>5. intent' \in BOOLEAN
    BY <2>1
  <2>6. StoreTypes'
    BY <1>1, <2>1, <2>5, EventType DEF StoreTypes
  <2> QED BY <2>4, <2>6, ProcSplitPrimed
<1>4. CASE PreferGate
  <2>1. /\ gate' = want["admin"] /\ lost' = (lost /\ ~want["admin"]) /\ Leave("admin")
        /\ UNCHANGED <<sess, failures, wait, intent, paused, plan, extra, events>>
    BY <1>4 DEF PreferGate
  <2>2. gate' \in BOOLEAN
    BY <1>1, <2>1 DEF ProcTypes
  <2>3. lost' \in BOOLEAN
    BY <2>1
  <2>4. StoreTypes'
    BY <1>1, <2>1, <2>2, <2>3 DEF StoreTypes
  <2> QED BY <1>1, <2>1, <2>4, LeaveProc, ProcSplitPrimed
<1>5. CASE Pause
  <2>1. Event /\ paused' = ~paused /\ UNCHANGED <<store, plan, proc, extra, lost>>
    BY <1>5 DEF Pause
  <2>2. paused' \in BOOLEAN
    BY <2>1
  <2>3. StoreTypes'
    BY <1>1, <2>1, <2>2, EventType DEF StoreTypes
  <2>4. ProcTypes'
    BY <1>1, <2>1 DEF ProcTypes, proc, AdminPlaces, LoginHoldsLock, FailureCounted, RunHasWork
  <2> QED BY <2>3, <2>4, ProcSplitPrimed
<1> QED BY <1>2, <1>3, <1>4, <1>5

\* Expiry, crashes and time.
LEMMA WorldSteps ==
    ASSUME ProcInv, Expire \/ Tick \/ \E p \in Procs : Crash(p)
    PROVE  ProcInv'
<1> USE BoundsTypes
<1>1. ProcTypes /\ StoreTypes
  BY ProcSplit
<1> USE DEF store, plan
<1>2. CASE Expire
  <2>1. /\ Event /\ sess' \in {"expired", "invalid"} /\ lost' = FALSE
        /\ UNCHANGED <<failures, wait, gate, intent, paused, plan, proc, extra>>
    BY <1>2 DEF Expire
  <2>2. StoreTypes'
    BY <1>1, <2>1, EventType DEF StoreTypes
  <2>3. ProcTypes'
    BY <1>1, <2>1 DEF ProcTypes, proc, AdminPlaces, LoginHoldsLock, FailureCounted, RunHasWork
  <2> QED BY <2>2, <2>3, ProcSplitPrimed
<1>3. ASSUME NEW p \in Procs, Crash(p) PROVE ProcInv'
  <2>1. /\ Event /\ Leave(p)
        /\ lost' = (lost \/ pc[p] \in {"intent", "open"})
        /\ UNCHANGED <<store, paused, plan, extra>>
    BY <1>3 DEF Crash
  <2>2. lost' \in BOOLEAN
    BY <2>1
  <2>3. StoreTypes'
    BY <1>1, <2>1, <2>2, EventType DEF StoreTypes
  <2> QED BY <1>1, <2>1, <2>3, LeaveProc, ProcSplitPrimed
<1>4. CASE Tick
  <2>1. /\ Event \/ UNCHANGED events
        /\ wait' = Since(wait, 1)
        /\ extra' = IF wait' = 0 THEN 0 ELSE extra
        /\ next' = [s \in Subs |-> Since(next[s], 1)]
        /\ age' = IF pc["browser"] # "idle" /\ age < AGED THEN age + 1 ELSE age
        /\ UNCHANGED <<sess, failures, gate, intent, paused, misses, lock, pc,
                       want, had, todo, tally, lost>>
    BY <1>4 DEF Tick
  <2>2. wait' \in 0 .. CAP /\ next' \in [Subs -> 0 .. INTERVAL]
    BY <1>1, <2>1 DEF StoreTypes, Since
  <2>3. events' \in 0 .. MaxEvents
    BY <1>1, <2>1, EventType DEF StoreTypes
  <2>4. age' \in 0 .. AGED
    BY <1>1, <2>1 DEF ProcTypes
  <2>5. StoreTypes'
    BY <1>1, <2>1, <2>2, <2>3 DEF StoreTypes
  <2>6. ProcTypes'
    BY <1>1, <2>1, <2>4 DEF ProcTypes, AdminPlaces, LoginHoldsLock, FailureCounted, RunHasWork
  <2> QED BY <2>5, <2>6, ProcSplitPrimed
<1> QED BY <1>2, <1>3, <1>4

\* Every step keeps the process invariant.
LEMMA ProcStep ==
    ASSUME ProcInv, [Next]_vars PROVE ProcInv'
<1>1. CASE UNCHANGED vars
  BY <1>1 DEF vars, store, plan, proc, ProcInv, TypeOK, AdminPlaces, LoginHoldsLock,
              FailureCounted, RunHasWork
<1> QED
  BY <1>1, RenewSteps, RecordStep, GateSteps, SwapWorkerSteps, BrowserWorkerSteps,
     OperatorSteps, WorldSteps DEF Next, Steps

\* The process invariant holds throughout.
LEMMA ProcInvariant == Spec => []ProcInv
BY ProcInit, ProcStep, PTL DEF Spec

\* Every column and process variable keeps its type: the stored backoff stays
\* within its cap, whatever the failures and however late the browser worker
\* records them, and a run always has a next subscription to observe
\* (record_session_renewal_failure, ProxiwareBrowserService.run_once).
THEOREM SessionsTypeCorrect == Spec => []TypeOK
BY ProcInvariant, PTL DEF ProcInv
-----------------------------------------------------------------------------
\* Outside the cooldown nothing is counted.  Within it, at most one worker is
\* still on its way to a login it decided on before, and none once one of
\* them has logged in.
Cool ==
    /\ wait = 0 => extra = 0
    /\ wait > 0 =>
        /\ extra <= 1
        /\ extra = 1 => \A p \in Workers : pc[p] # "login"
        /\ \E p \in Workers : pc[p] # "login"

\* A step that leaves the cooldown alone and sends no worker to the login.
LEMMA CoolFrame ==
    ASSUME Cool, UNCHANGED <<wait, extra>>,
           \A p \in Workers : pc'[p] = "login" => pc[p] = "login"
    PROVE  Cool'
BY DEF Cool

\* Ending a run sends no worker to the login.
LEMMA LeaveNoLogin ==
    ASSUME ProcInv, NEW q \in Procs, Leave(q)
    PROVE  \A p \in Workers : pc'[p] = "login" => pc[p] = "login"
BY DEF Leave, Goes, ProcInv, TypeOK, Procs

\* Neither does moving to any other place.
LEMMA GoesNoLogin ==
    ASSUME ProcInv, NEW q \in Procs, NEW l, Goes(q, l), l # "login"
    PROVE  \A p \in Workers : pc'[p] = "login" => pc[p] = "login"
BY DEF Goes, ProcInv, TypeOK, Procs

\* Every step keeps the cooldown's invariant.
LEMMA CoolStep ==
    ASSUME ProcInv, ProcInv', Cool, [Next]_vars
    PROVE  Cool'
<1> USE DEF store
<1>0. /\ wait \in Nat /\ wait' \in Nat /\ extra \in Nat
      /\ pc \in [Procs -> Labels]
      /\ "swap" \in Procs /\ "browser" \in Procs /\ "admin" \in Procs
  BY BoundsTypes DEF ProcInv, TypeOK, Procs, Workers, Labels
<1>1. ASSUME NEW p \in Procs, Login(p) PROVE Cool'
  <2>1. /\ pc[p] = "login" /\ pc' = [pc EXCEPT ![p] = "signing"]
        /\ extra' = IF p # "admin" /\ wait > 0 THEN extra + 1 ELSE extra
        /\ UNCHANGED wait
    BY <1>1 DEF Login, Goes
  <2>2. CASE p = "admin" \/ wait = 0
    BY <1>0, <2>1, <2>2 DEF Cool, Procs, Workers
  <2>3. CASE p \in Workers /\ wait > 0
    <3>1. extra = 0
      BY <1>0, <2>1, <2>3 DEF Cool
    <3> QED BY <1>0, <2>1, <2>3, <3>1 DEF Cool, Workers
  <2> QED BY <1>0, <2>2, <2>3 DEF Procs
<1>2. ASSUME NEW p \in Procs, SignIn(p) PROVE Cool'
  BY <1>2 DEF SignIn, Cool
<1>3. ASSUME NEW p \in Procs, Record(p) PROVE Cool'
  <2>1. /\ extra' = IF wait' = 0 THEN 0 ELSE extra
        /\ pc[p] = "backoff" /\ pc' = [pc EXCEPT ![p] = "giveup"]
    BY <1>3 DEF Record, Goes
  <2>2. p \in Workers
    BY <2>1 DEF ProcInv, AdminPlaces, Procs
  <2> QED BY <1>0, <2>1, <2>2 DEF Cool
<1>4. CASE Tick
  <2>1. /\ wait' = Since(wait, 1) /\ extra' = IF wait' = 0 THEN 0 ELSE extra
        /\ UNCHANGED pc
    BY <1>4 DEF Tick
  <2> QED BY <1>0, <2>1 DEF Cool, Since
<1>5. ASSUME NEW q \in Procs,
             Restore(q) \/ Count(q) \/ GiveUp(q) \/ ReadIntent(q) \/ SetGate(q)
             \/ SignFails(q) \/ Crash(q) \/ RestoreFails(q)
      PROVE  Cool'
  <2>1. UNCHANGED <<wait, extra>>
    BY <1>5 DEF Restore, Count, GiveUp, ReadIntent, SetGate, SignFails, Crash, RestoreFails
  <2>2. Leave(q) \/ \E l \in Labels \ {"login"} : Goes(q, l)
    BY <1>5 DEF Restore, Count, GiveUp, ReadIntent, SetGate, SignFails, Crash, RestoreFails, Labels
  <2> QED BY <2>1, <2>2, LeaveNoLogin, GoesNoLogin, CoolFrame
<1>6. CASE StartSwap \/ StartBrowser
  <2>1. UNCHANGED <<wait, extra>>
    BY <1>6 DEF StartSwap, StartBrowser
  <2>2. \E q \in Procs, l \in Labels : Goes(q, l) /\ (l = "login" => wait = 0)
    BY <1>0, <1>6 DEF StartSwap, StartBrowser, Renews, MayLogin, Labels, ProcInv, TypeOK
  <2>3. CASE wait = 0
    BY <2>1, <2>3 DEF Cool
  <2>4. CASE wait # 0
    BY <2>1, <2>2, <2>4, GoesNoLogin, CoolFrame
  <2> QED BY <2>3, <2>4
<1>7. CASE CheckGate \/ SwapEnds \/ Observe \/ ObserveFails \/ PreferGate
  <2>1. UNCHANGED <<wait, extra>>
    BY <1>7 DEF CheckGate, SwapEnds, Observe, ObserveFails, PreferGate
  <2>2. \/ \E q \in Procs : Leave(q)
        \/ Goes("swap", "restore")
        \/ UNCHANGED pc
    BY <1>0, <1>7 DEF CheckGate, SwapEnds, Observe, ObserveFails, PreferGate
  <2> QED BY <1>0, <2>1, <2>2, LeaveNoLogin, GoesNoLogin, CoolFrame
<1>8. CASE RenewSession \/ (\E on \in BOOLEAN : Prefer(on)) \/ Pause \/ Expire \/ UNCHANGED vars
  <2>1. UNCHANGED <<wait, extra>> /\ (UNCHANGED pc \/ \E l : Goes("admin", l))
    BY <1>8 DEF RenewSession, Prefer, Pause, Expire, vars, proc
  <2>2. \A p \in Workers : pc'[p] = "login" => pc[p] = "login"
    BY <1>0, <2>1 DEF Goes, Workers
  <2> QED BY <2>1, <2>2, CoolFrame
<1> QED
  BY <1>1, <1>2, <1>3, <1>4, <1>5, <1>6, <1>7, <1>8 DEF Next, Takes, Steps, Procs

\* Within one login cooldown the two workers log in at most once between them,
\* although each looks at renew_next_attempt_at before it waits for the browser
\* and the administrator's renewal ignores it (renew_provider_session).
THEOREM SessionsLoginsBounded == Spec => []LoginsBounded
<1>1. Init => Cool
  BY DEF Init, Cool
<1>2. ProcInv /\ Cool => LoginsBounded
  BY BoundsTypes DEF ProcInv, TypeOK, Cool, LoginsBounded
<1> QED BY <1>1, <1>2, CoolStep, ProcInvariant, PTL DEF Spec
=============================================================================
