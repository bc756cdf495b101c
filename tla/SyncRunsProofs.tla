--------------------------- MODULE SyncRunsProofs ---------------------------
(***************************************************************************)
(* SyncRuns for every number of workers, rows and subscriptions and every  *)
(* lease: types, one run at a time, an inventory that never goes back, and *)
(* the refinement of ExclusiveSync.                                        *)
(***************************************************************************)
EXTENDS SyncRuns, FiniteSetTheorems, TLAPS

(***************************************************************************)
(* The inductive invariant.                                                *)
(***************************************************************************)

\* At most one row runs and at most one waits.
RowsUnique ==
    /\ \A r, s \in Runs : status[r] = "running" /\ status[s] = "running" => r = s
    /\ \A r, s \in Runs : status[r] = "queued" /\ status[s] = "queued" => r = s

\* A worker has a row exactly while it synchronises, no two workers have the
\* same one, and a row that still waits has no worker.
RefsUnique ==
    /\ \A w \in Workers : (pc[w] \in {"idle", "claim"}) <=> (run[w] = None)
    /\ \A w, v \in Workers : run[w] # None /\ run[w] = run[v] => w = v
    /\ \A w \in Workers, r \in Runs : run[w] = r => status[r] # "queued"

\* Where a worker is in the loop over the subscriptions and the attempts.
LoopOK ==
    \A w \in Workers :
        /\ pc[w] = "idle" => attempt[w] = 0
        /\ pc[w] = "claim" => attempt[w] < RETRIES
        /\ pc[w] \in {"idle", "claim", "list"} => at[w] = 0
        /\ pc[w] \in {"fetch", "store"} => at[w] \in Subs
        /\ pc[w] = "finish" => at[w] = N + 1

\* Nothing is newer than the provider, and what a worker has fetched is at
\* least as new as its claim.
PastOK ==
    /\ \A s \in Subs : inv[s] <= version
    /\ \A w \in Workers :
          /\ since[w] <= version /\ got[w] <= version
          /\ pc[w] = "store" => since[w] <= got[w]

\* As long as a worker's row runs under its token nobody else writes: what it
\* has passed without counting an error stays as new as its claim, and what it
\* has fetched is at least as new as all that is stored.  This is what the lease
\* is for; it survives the end of the lease, up to the moment another worker
\* sweeps the row.
Undisturbed ==
    \A w \in Workers : run[w] # None /\ OwnsRow(w) =>
        /\ \A s \in Subs \ missed[w] : s < at[w] => inv[s] >= since[w]
        /\ pc[w] = "store" => \A s \in Subs : inv[s] <= got[w]

SyncInv == TypeOK /\ RowsUnique /\ RefsUnique /\ LoopOK /\ PastOK /\ Undisturbed

-----------------------------------------------------------------------------
(***************************************************************************)
(* Steps, as the invariant sees them.                                      *)
(***************************************************************************)

\* A new row is a row that has ended and that no worker refers to.
LEMMA NewRowFree ==
    HasRoom => NewRow \in Runs /\ Free(NewRow)
BY Zenon DEF HasRoom, NewRow

\* Enqueueing leaves every row as it is, or turns a free one into the one
\* that waits.
LEMMA EnqueueEffect ==
    ASSUME TypeOK, NEW b \in BOOLEAN, Enqueue(b)
    PROVE  /\ UNCHANGED <<token, left>>
           /\ cancel' \in [Runs -> BOOLEAN]
           /\ \/ status' = status
              \/ /\ Queued = {}
                 /\ \E r \in Runs : Free(r) /\ status' = [status EXCEPT ![r] = "queued"]
<1>1. CASE Queued = {} /\ (Running = {} \/ b)
  <2>1. /\ HasRoom
        /\ status' = [status EXCEPT ![NewRow] = "queued"]
        /\ cancel' = [cancel EXCEPT ![NewRow] = FALSE]
        /\ UNCHANGED <<token, left>>
    BY <1>1 DEF Enqueue
  <2>2. NewRow \in Runs /\ Free(NewRow)
    BY <2>1, NewRowFree
  <2>3. cancel' \in [Runs -> BOOLEAN]
    BY <2>1 DEF TypeOK
  <2> QED BY <1>1, <2>1, <2>2, <2>3
<1>2. CASE ~ (Queued = {} /\ (Running = {} \/ b))
  BY <1>2 DEF Enqueue, rows, TypeOK
<1> QED BY <1>1, <1>2

\* A claim that takes a row takes one that waits or is free, after every row
\* that runs has failed.
LEMMA ClaimEffect ==
    ASSUME TypeOK, NEW w \in Workers, Claim(w), ~ \E r \in Runs : Live(r)
    PROVE  \E r \in Runs :
              /\ status[r] = "queued" \/ Free(r)
              /\ status[r] = "queued" \/ Queued = {}
              /\ status' = [x \in Runs |-> IF x = r THEN "running"
                                           ELSE IF status[x] = "running" THEN "failed"
                                           ELSE status[x]]
              /\ token' = [x \in Runs |-> IF x = r THEN w
                                          ELSE IF status[x] = "running" THEN None
                                          ELSE token[x]]
              /\ left' = [left EXCEPT ![r] = LEASE]
              /\ cancel' \in [Runs -> BOOLEAN]
              /\ run' = [run EXCEPT ![w] = r]
              /\ pc' = [pc EXCEPT ![w] = "list"]
              /\ attempt' = [attempt EXCEPT ![w] = @ + 1]
              /\ since' = [since EXCEPT ![w] = version]
              /\ UNCHANGED <<at, got, missed>>
<1> DEFINE s0 == [x \in Runs |-> IF x \in Lapsed THEN "failed" ELSE status[x]]
           t0 == [x \in Runs |-> IF x \in Lapsed THEN None ELSE token[x]]
<1>1. PICK r \in Runs :
        /\ r \in Queued \/ (Queued = {} /\ HasRoom /\ r = NewRow)
        /\ Takes(w, r, s0, t0)
  BY Zenon DEF Claim
<1>2. status[r] = "queued" \/ Free(r)
  BY <1>1, NewRowFree DEF Queued
<1>3. status[r] = "queued" \/ Queued = {}
  BY <1>1 DEF Queued
<1>4. \A x \in Runs : x \in Lapsed <=> status[x] = "running"
  BY DEF Lapsed, Live, TypeOK
<1>5. /\ status' = [s0 EXCEPT ![r] = "running"]
      /\ token' = [t0 EXCEPT ![r] = w]
  BY <1>1 DEF Takes
<1>6. status' = [x \in Runs |-> IF x = r THEN "running"
                                ELSE IF status[x] = "running" THEN "failed"
                                ELSE status[x]]
  BY <1>4, <1>5
<1>7. token' = [x \in Runs |-> IF x = r THEN w
                               ELSE IF status[x] = "running" THEN None
                               ELSE token[x]]
  BY <1>4, <1>5
<1>8. cancel' \in [Runs -> BOOLEAN]
  BY <1>1 DEF Takes, TypeOK
<1> QED BY <1>1, <1>2, <1>3, <1>6, <1>7, <1>8 DEF Takes

-----------------------------------------------------------------------------
(***************************************************************************)
(* Types.                                                                  *)
(***************************************************************************)

\* A worker that leaves its row keeps its types, ...
LEMMA GivesUpTypes ==
    ASSUME TypeOK, NEW w \in Workers, NEW retry \in BOOLEAN, GivesUp(w, retry)
    PROVE  /\ pc' \in [Workers -> {"idle", "claim", "list", "check", "flag", "fetch",
                                  "store", "finish"}]
           /\ run' \in [Workers -> Runs \cup {None}]
           /\ at' \in [Workers -> 0 .. N + 1]
           /\ got' \in [Workers -> 0 .. MaxVersion]
           /\ attempt' \in [Workers -> 0 .. RETRIES]
           /\ since' \in [Workers -> 0 .. MaxVersion]
           /\ missed' \in [Workers -> SUBSET Subs]
<1>1. 0 \in 0 .. N + 1 /\ 0 \in 0 .. MaxVersion /\ 0 \in 0 .. RETRIES
  BY SyncAssumption
<1> QED BY <1>1 DEF TypeOK, GivesUp, Leaves

\* ... and so does a row that ends.
LEMMA EndsRowTypes ==
    ASSUME TypeOK, NEW w \in Workers, NEW s \in Statuses, EndsRow(w, s)
    PROVE  /\ status' \in [Runs -> Statuses]
           /\ token' \in [Runs -> Workers \cup {None}]
           /\ left' \in [Runs -> 0 .. LEASE]
           /\ cancel' \in [Runs -> BOOLEAN]
<1>1. 0 \in 0 .. LEASE
  BY SyncAssumption
<1> QED BY <1>1 DEF TypeOK, EndsRow

LEMMA TypeStep ==
    ASSUME TypeOK, LoopOK, [Next]_vars
    PROVE  TypeOK'
<1> USE SyncAssumption
<1>1. CASE SyncNow
  <2>1. Enqueue(FALSE)
    BY <1>1 DEF SyncNow
  <2>2. status' \in [Runs -> Statuses] /\ cancel' \in [Runs -> BOOLEAN] /\ UNCHANGED <<token, left>>
    BY <2>1, EnqueueEffect DEF TypeOK, Statuses
  <2> QED BY <1>1, <2>2 DEF TypeOK, SyncNow, world
<1>2. CASE SwapApplied
  <2>1. Enqueue(TRUE)
    BY <1>2 DEF SwapApplied
  <2>2. status' \in [Runs -> Statuses] /\ cancel' \in [Runs -> BOOLEAN] /\ UNCHANGED <<token, left>>
    BY <2>1, EnqueueEffect DEF TypeOK, Statuses
  <2> QED BY <1>2, <2>2 DEF TypeOK, SwapApplied
<1>3. CASE ProviderChanges
  BY <1>3 DEF TypeOK, ProviderChanges, rows
<1>4. CASE Pause
  BY <1>4 DEF TypeOK, Pause, rows, Fault
<1>5. CASE Tick
  <2>1. left' \in [Runs -> 0 .. LEASE]
    BY <1>5 DEF TypeOK, Tick
  <2>2. faults' \in 0 .. MaxFaults
    BY <1>5 DEF TypeOK, Tick, Fault
  <2> QED BY <1>5, <2>1, <2>2 DEF TypeOK, Tick, world
<1>6. ASSUME NEW r \in Runs, RequestCancel(r)
      PROVE  TypeOK'
  BY <1>6 DEF TypeOK, RequestCancel, Fault, Statuses, world
<1>7. ASSUME NEW w \in Workers, Start(w)
      PROVE  TypeOK'
  BY <1>7 DEF TypeOK, Start, rows, world
<1>8. ASSUME NEW w \in Workers, Claim(w)
      PROVE  TypeOK'
  <2>1. CASE \E r \in Runs : Live(r)
    BY <1>8, <2>1, GivesUpTypes DEF TypeOK, Claim, rows, world
  <2>2. CASE ~ \E r \in Runs : Live(r)
    <3>1. PICK r \in Runs :
              /\ status' = [x \in Runs |-> IF x = r THEN "running"
                                           ELSE IF status[x] = "running" THEN "failed"
                                           ELSE status[x]]
              /\ token' = [x \in Runs |-> IF x = r THEN w
                                          ELSE IF status[x] = "running" THEN None
                                          ELSE token[x]]
              /\ left' = [left EXCEPT ![r] = LEASE]
              /\ cancel' \in [Runs -> BOOLEAN]
              /\ run' = [run EXCEPT ![w] = r]
              /\ pc' = [pc EXCEPT ![w] = "list"]
              /\ attempt' = [attempt EXCEPT ![w] = @ + 1]
              /\ since' = [since EXCEPT ![w] = version]
              /\ UNCHANGED <<at, got, missed>>
      BY <1>8, <2>2, ClaimEffect
    <3>2. status' \in [Runs -> Statuses] /\ token' \in [Runs -> Workers \cup {None}]
      BY <3>1 DEF TypeOK, Statuses
    <3>3. attempt' \in [Workers -> 0 .. RETRIES]
      BY <1>8, <3>1 DEF TypeOK, LoopOK, Claim
    <3> QED BY <1>8, <3>1, <3>2, <3>3 DEF TypeOK, Claim, world
  <2> QED BY <2>1, <2>2
<1>9. ASSUME NEW w \in Workers, List(w)
      PROVE  TypeOK'
  BY <1>9 DEF TypeOK, List, Fault, rows, world
<1>10. ASSUME NEW w \in Workers, Check(w)
       PROVE  TypeOK'
  <2>1. CASE Owns(w)
    BY <1>10, <2>1 DEF TypeOK, Check, world
  <2>2. CASE ~ Owns(w)
    BY <1>10, <2>2, GivesUpTypes DEF TypeOK, Check, LeaseLost, rows, world
  <2> QED BY <2>1, <2>2
<1>11. ASSUME NEW w \in Workers, Flag(w)
       PROVE  TypeOK'
  <2>1. CASE OwnsRow(w) /\ cancel[run[w]]
    BY <1>11, <2>1, GivesUpTypes, EndsRowTypes DEF TypeOK, Flag, Statuses, world
  <2>2. CASE OwnsRow(w) /\ ~ cancel[run[w]]
    <3>0. at[w] = 0 \/ at[w] \in missed[w] => at[w] + 1 \in 0 .. N + 1
      BY DEF TypeOK, Subs
    <3>1. at' \in [Workers -> 0 .. N + 1]
      BY <1>11, <2>2, <3>0 DEF TypeOK, Flag
    <3>2. pc' \in [Workers -> {"idle", "claim", "list", "check", "flag", "fetch",
                               "store", "finish"}]
      BY <1>11, <2>2 DEF TypeOK, Flag
    <3> QED BY <1>11, <2>2, <3>1, <3>2 DEF TypeOK, Flag, rows, world
  <2>3. CASE ~ OwnsRow(w)
    BY <1>11, <2>3, GivesUpTypes DEF TypeOK, Flag, LeaseLost, rows, world
  <2> QED BY <2>1, <2>2, <2>3
<1>12. ASSUME NEW w \in Workers, Fetch(w)
       PROVE  TypeOK'
  <2>1. at[w] \in Subs
    BY <1>12 DEF LoopOK, Fetch
  <2>2. missed' \in [Workers -> SUBSET Subs] /\ faults' \in 0 .. MaxFaults
    BY <1>12, <2>1 DEF TypeOK, Fetch, Fault
  <2> QED BY <1>12, <2>2 DEF TypeOK, Fetch, rows, world
<1>13. ASSUME NEW w \in Workers, Store(w)
       PROVE  TypeOK'
  <2>1. CASE Owns(w)
    <3>1. at[w] \in Subs /\ got[w] \in 0 .. MaxVersion
      BY <1>13 DEF TypeOK, LoopOK, Store
    <3>2. at[w] + 1 \in 0 .. N + 1
      BY <3>1 DEF Subs
    <3>3. at' \in [Workers -> 0 .. N + 1] /\ inv' \in [Subs -> 0 .. MaxVersion]
      BY <1>13, <2>1, <3>1, <3>2 DEF TypeOK, Store, Stored
    <3> QED BY <1>13, <2>1, <3>3 DEF TypeOK, Store, world
  <2>2. CASE ~ Owns(w)
    BY <1>13, <2>2, GivesUpTypes DEF TypeOK, Store, LeaseLost, rows, world
  <2> QED BY <2>1, <2>2
<1>14. ASSUME NEW w \in Workers, Finish(w)
       PROVE  TypeOK'
  <2>1. CASE Owns(w)
    BY <1>14, <2>1, GivesUpTypes, EndsRowTypes DEF TypeOK, Finish, Statuses, world
  <2>2. CASE ~ Owns(w)
    BY <1>14, <2>2, GivesUpTypes DEF TypeOK, Finish, LeaseLost, rows, world
  <2> QED BY <2>1, <2>2
<1>15. ASSUME NEW w \in Workers, CallFails(w)
       PROVE  TypeOK'
  <2>1. faults' \in 0 .. MaxFaults
    BY <1>15 DEF TypeOK, CallFails, Fault
  <2>2. CASE OwnsRow(w)
    BY <1>15, <2>1, <2>2, GivesUpTypes, EndsRowTypes DEF TypeOK, CallFails, Statuses, world
  <2>3. CASE ~ OwnsRow(w)
    BY <1>15, <2>1, <2>3, GivesUpTypes DEF TypeOK, CallFails, rows, world
  <2> QED BY <2>2, <2>3
<1>16. ASSUME NEW w \in Workers, Crash(w)
       PROVE  TypeOK'
  <2>1. faults' \in 0 .. MaxFaults
    BY <1>16 DEF TypeOK, Crash, Fault
  <2> QED BY <1>16, <2>1, GivesUpTypes DEF TypeOK, Crash, rows, world
<1>17. CASE UNCHANGED vars
  BY <1>17 DEF TypeOK, vars
<1> QED BY <1>1, <1>2, <1>3, <1>4, <1>5, <1>6, <1>7, <1>8, <1>9, <1>10, <1>11, <1>12,
           <1>13, <1>14, <1>15, <1>16, <1>17 DEF Next, Work

-----------------------------------------------------------------------------
(***************************************************************************)
(* The workers' loops.                                                     *)
(***************************************************************************)

LEMMA LoopStep ==
    ASSUME TypeOK, RefsUnique, LoopOK, [Next]_vars
    PROVE  LoopOK'
<1> USE SyncAssumption
<1>1. CASE SyncNow \/ SwapApplied \/ ProviderChanges \/ Pause \/ Tick
  BY <1>1 DEF LoopOK, SyncNow, SwapApplied, ProviderChanges, Pause, Tick
<1>2. ASSUME NEW r \in Runs, RequestCancel(r)
      PROVE  LoopOK'
  BY <1>2 DEF LoopOK, RequestCancel
<1>3. ASSUME NEW w \in Workers, Start(w)
      PROVE  LoopOK'
  BY <1>3 DEF LoopOK, TypeOK, Start
<1>4. ASSUME NEW w \in Workers, Claim(w)
      PROVE  LoopOK'
  <2>1. CASE \E r \in Runs : Live(r)
    BY <1>4, <2>1 DEF LoopOK, TypeOK, Claim, GivesUp, Leaves
  <2>2. CASE ~ \E r \in Runs : Live(r)
    <3>1. /\ pc' = [pc EXCEPT ![w] = "list"]
          /\ attempt' = [attempt EXCEPT ![w] = @ + 1]
          /\ UNCHANGED at
      BY <1>4, <2>2, ClaimEffect
    <3>2. at[w] = 0 /\ attempt[w] < RETRIES
      BY <1>4 DEF LoopOK, Claim
    <3> QED BY <3>1, <3>2 DEF LoopOK, TypeOK
  <2> QED BY <2>1, <2>2
<1>5. ASSUME NEW w \in Workers, List(w)
      PROVE  LoopOK'
  BY <1>5 DEF LoopOK, TypeOK, List
<1>6. ASSUME NEW w \in Workers, Check(w)
      PROVE  LoopOK'
  BY <1>6 DEF LoopOK, TypeOK, Check, LeaseLost, GivesUp, Leaves
<1>7. ASSUME NEW w \in Workers, Flag(w)
      PROVE  LoopOK'
  <2>1. CASE OwnsRow(w) /\ ~ cancel[run[w]]
    <3>1. at[w] \in 0 .. N + 1
      BY DEF TypeOK
    <3>2. CASE at[w] = 0 \/ at[w] \in missed[w]
      <4>1. /\ pc' = [pc EXCEPT ![w] = "check"]
            /\ at' = [at EXCEPT ![w] = @ + 1]
            /\ UNCHANGED attempt
        BY <1>7, <2>1, <3>2 DEF Flag
      <4> QED BY <4>1 DEF LoopOK, TypeOK
    <3>3. CASE ~ (at[w] = 0 \/ at[w] \in missed[w])
      <4>1. /\ pc' = [pc EXCEPT ![w] = IF at[w] <= N THEN "fetch" ELSE "finish"]
            /\ UNCHANGED <<at, attempt>>
        BY <1>7, <2>1, <3>3 DEF Flag
      <4> QED BY <3>1, <3>3, <4>1 DEF LoopOK, TypeOK, Subs
    <3> QED BY <3>2, <3>3
  <2>2. CASE ~ (OwnsRow(w) /\ ~ cancel[run[w]])
    BY <1>7, <2>2 DEF LoopOK, TypeOK, Flag, LeaseLost, GivesUp, Leaves
  <2> QED BY <2>1, <2>2
<1>8. ASSUME NEW w \in Workers, Fetch(w)
      PROVE  LoopOK'
  BY <1>8 DEF LoopOK, TypeOK, Fetch
<1>9. ASSUME NEW w \in Workers, Store(w)
      PROVE  LoopOK'
  BY <1>9 DEF LoopOK, TypeOK, Store, LeaseLost, GivesUp, Leaves
<1>10. ASSUME NEW w \in Workers, Finish(w)
       PROVE  LoopOK'
  BY <1>10 DEF LoopOK, TypeOK, Finish, LeaseLost, GivesUp, Leaves
<1>11. ASSUME NEW w \in Workers, CallFails(w)
       PROVE  LoopOK'
  BY <1>11 DEF LoopOK, TypeOK, CallFails, GivesUp, Leaves
<1>12. ASSUME NEW w \in Workers, Crash(w)
       PROVE  LoopOK'
  BY <1>12 DEF LoopOK, TypeOK, Crash, GivesUp, Leaves
<1>13. CASE UNCHANGED vars
  BY <1>13 DEF LoopOK, vars
<1> QED BY <1>1, <1>2, <1>3, <1>4, <1>5, <1>6, <1>7, <1>8, <1>9, <1>10, <1>11, <1>12,
           <1>13 DEF Next, Work

LEMMA InitInv ==
    ASSUME Init
    PROVE  SyncInv
<1> USE SyncAssumption DEF Init
<1>0. 0 \in 0 .. MaxVersion /\ 0 \in 0 .. N + 1 /\ 0 \in 0 .. RETRIES
      /\ 0 \in 0 .. MaxFaults /\ 0 \in 0 .. LEASE
  OBVIOUS
<1>1. TypeOK
  BY <1>0 DEF TypeOK, Statuses
<1>2. RowsUnique /\ RefsUnique /\ LoopOK
  BY DEF RowsUnique, RefsUnique, LoopOK
<1>3. PastOK /\ Undisturbed
  BY DEF PastOK, Undisturbed
<1> QED BY <1>1, <1>2, <1>3 DEF SyncInv

-----------------------------------------------------------------------------
(***************************************************************************)
(* One run at a time.                                                      *)
(***************************************************************************)

LEMMA RowsStep ==
    ASSUME TypeOK, RowsUnique, RefsUnique, [Next]_vars
    PROVE  RowsUnique'
<1> USE SyncAssumption
<1>1. ASSUME NEW b \in BOOLEAN, Enqueue(b)
      PROVE  RowsUnique'
  <2>1. CASE status' = status
    BY <2>1 DEF RowsUnique
  <2>2. ASSUME Queued = {}, NEW r \in Runs, status' = [status EXCEPT ![r] = "queued"]
        PROVE  RowsUnique'
    BY <2>2 DEF RowsUnique, TypeOK, Queued
  <2> QED BY <1>1, <2>1, <2>2, EnqueueEffect
<1>2. CASE SyncNow \/ SwapApplied
  BY <1>1, <1>2 DEF SyncNow, SwapApplied
<1>3. CASE ProviderChanges \/ Pause \/ Tick
  BY <1>3 DEF RowsUnique, ProviderChanges, Pause, Tick, rows
<1>4. ASSUME NEW r \in Runs, RequestCancel(r)
      PROVE  RowsUnique'
  BY <1>4 DEF RowsUnique, TypeOK, RequestCancel
<1>5. ASSUME NEW w \in Workers, Claim(w)
      PROVE  RowsUnique'
  <2>1. CASE \E r \in Runs : Live(r)
    BY <1>5, <2>1 DEF RowsUnique, Claim, rows
  <2>2. CASE ~ \E r \in Runs : Live(r)
    <3>1. PICK r \in Runs :
              /\ status[r] = "queued" \/ Queued = {}
              /\ status' = [x \in Runs |-> IF x = r THEN "running"
                                           ELSE IF status[x] = "running" THEN "failed"
                                           ELSE status[x]]
      BY <1>5, <2>2, ClaimEffect
    <3> QED BY <3>1 DEF RowsUnique, TypeOK
  <2> QED BY <2>1, <2>2
<1>6. ASSUME NEW w \in Workers, NEW s \in Statuses \ {"queued", "running"}, EndsRow(w, s)
      PROVE  RowsUnique'
  BY <1>6 DEF RowsUnique, TypeOK, EndsRow
<1>7. ASSUME UNCHANGED rows
      PROVE  RowsUnique'
  BY <1>7 DEF RowsUnique, rows
<1>8. ASSUME NEW w \in Workers, Start(w) \/ List(w) \/ Fetch(w) \/ Crash(w)
      PROVE  RowsUnique'
  BY <1>7, <1>8 DEF Start, List, Fetch, Crash
<1>9. ASSUME NEW w \in Workers, Check(w) \/ Store(w)
      PROVE  RowsUnique'
  BY <1>9 DEF RowsUnique, Check, Store, LeaseLost, rows
<1>10. ASSUME NEW w \in Workers, Flag(w) \/ Finish(w) \/ CallFails(w)
       PROVE  RowsUnique'
  <2>1. \/ EndsRow(w, "canceled") \/ EndsRow(w, "success") \/ EndsRow(w, "failed")
        \/ UNCHANGED rows
    BY <1>10 DEF Flag, Finish, CallFails, LeaseLost, rows
  <2> QED BY <1>6, <1>7, <2>1 DEF Statuses
<1>11. CASE UNCHANGED vars
  BY <1>7, <1>11 DEF vars, rows
<1> QED BY <1>2, <1>3, <1>4, <1>5, <1>8, <1>9, <1>10, <1>11 DEF Next, Work

LEMMA RefsStep ==
    ASSUME TypeOK, RefsUnique, [Next]_vars
    PROVE  RefsUnique'
<1> USE SyncAssumption
<1>1. ASSUME NEW b \in BOOLEAN, Enqueue(b), UNCHANGED <<pc, run>>
      PROVE  RefsUnique'
  <2>1. CASE status' = status
    BY <1>1, <2>1 DEF RefsUnique
  <2>2. ASSUME NEW r \in Runs, Free(r), status' = [status EXCEPT ![r] = "queued"]
        PROVE  RefsUnique'
    BY <1>1, <2>2 DEF RefsUnique, TypeOK, Free
  <2> QED BY <1>1, <2>1, <2>2, EnqueueEffect
<1>2. CASE SyncNow \/ SwapApplied
  BY <1>1, <1>2 DEF SyncNow, SwapApplied
<1>3. CASE ProviderChanges \/ Pause \/ Tick
  BY <1>3 DEF RefsUnique, ProviderChanges, Pause, Tick, rows
<1>4. ASSUME NEW r \in Runs, RequestCancel(r)
      PROVE  RefsUnique'
  BY <1>4 DEF RefsUnique, TypeOK, RequestCancel
<1>5. ASSUME NEW w \in Workers, NEW retry \in BOOLEAN, GivesUp(w, retry),
             \A r \in Runs : status'[r] = "queued" => status[r] = "queued"
      PROVE  RefsUnique'
  BY <1>5 DEF RefsUnique, TypeOK, GivesUp, Leaves
<1>7. ASSUME NEW w \in Workers, Start(w)
      PROVE  RefsUnique'
  BY <1>7 DEF RefsUnique, TypeOK, Start, rows
<1>8. ASSUME NEW w \in Workers, Claim(w)
      PROVE  RefsUnique'
  <2>1. CASE \E r \in Runs : Live(r)
    BY <1>5, <1>8, <2>1 DEF Claim, rows
  <2>2. CASE ~ \E r \in Runs : Live(r)
    <3>1. PICK r \in Runs :
              /\ status[r] = "queued" \/ Free(r)
              /\ status' = [x \in Runs |-> IF x = r THEN "running"
                                           ELSE IF status[x] = "running" THEN "failed"
                                           ELSE status[x]]
              /\ run' = [run EXCEPT ![w] = r]
              /\ pc' = [pc EXCEPT ![w] = "list"]
      BY <1>8, <2>2, ClaimEffect
    <3>2. \A v \in Workers : run[v] # r
      BY <3>1 DEF RefsUnique, Free
    <3> QED BY <3>1, <3>2 DEF RefsUnique, TypeOK
  <2> QED BY <2>1, <2>2
<1>9. ASSUME NEW w \in Workers, NEW s \in Statuses \ {"queued", "running"},
             EndsRow(w, s), NEW r \in Runs
      PROVE  status'[r] = "queued" => status[r] = "queued"
  BY <1>9 DEF TypeOK, EndsRow
<1>10. ASSUME NEW w \in Workers, List(w) \/ Fetch(w)
       PROVE  RefsUnique'
  BY <1>10 DEF RefsUnique, TypeOK, List, Fetch, rows
<1>11. ASSUME NEW w \in Workers, Check(w) \/ Store(w)
       PROVE  RefsUnique'
  <2>1. CASE Owns(w)
    BY <1>11, <2>1 DEF RefsUnique, TypeOK, Check, Store
  <2>2. CASE ~ Owns(w)
    BY <1>5, <1>11, <2>2 DEF Check, Store, LeaseLost, rows
  <2> QED BY <2>1, <2>2
<1>12. ASSUME NEW w \in Workers, Flag(w)
       PROVE  RefsUnique'
  <2>1. CASE OwnsRow(w) /\ cancel[run[w]]
    BY <1>5, <1>9, <1>12, <2>1 DEF Flag, Statuses
  <2>2. CASE OwnsRow(w) /\ ~ cancel[run[w]]
    <3>1. /\ UNCHANGED <<run, status>> /\ pc[w] = "flag"
          /\ pc'[w] \notin {"idle", "claim"}
          /\ \A v \in Workers \ {w} : pc'[v] = pc[v]
      BY <1>12, <2>2 DEF TypeOK, Flag, rows
    <3> QED BY <3>1 DEF RefsUnique
  <2>3. CASE ~ OwnsRow(w)
    BY <1>5, <1>12, <2>3 DEF Flag, LeaseLost, rows
  <2> QED BY <2>1, <2>2, <2>3
<1>13. ASSUME NEW w \in Workers, Finish(w)
       PROVE  RefsUnique'
  BY <1>5, <1>9, <1>13 DEF Finish, LeaseLost, Statuses, rows
<1>14. ASSUME NEW w \in Workers, CallFails(w) \/ Crash(w)
       PROVE  RefsUnique'
  BY <1>5, <1>9, <1>14 DEF CallFails, Crash, Statuses, rows
<1>15. CASE UNCHANGED vars
  BY <1>15 DEF RefsUnique, vars
<1> QED BY <1>2, <1>3, <1>4, <1>7, <1>8, <1>10, <1>11, <1>12, <1>13, <1>14, <1>15
       DEF Next, Work

-----------------------------------------------------------------------------
(***************************************************************************)
(* Versions.                                                               *)
(***************************************************************************)

LEMMA PastStep ==
    ASSUME TypeOK, LoopOK, PastOK, [Next]_vars
    PROVE  PastOK'
<1> USE SyncAssumption
<1>1. CASE SyncNow \/ SwapApplied \/ Pause \/ Tick
  BY <1>1 DEF PastOK, SyncNow, SwapApplied, Pause, Tick, world
<1>2. CASE ProviderChanges
  BY <1>2 DEF PastOK, TypeOK, ProviderChanges
<1>3. ASSUME NEW r \in Runs, RequestCancel(r)
      PROVE  PastOK'
  BY <1>3 DEF PastOK, RequestCancel, world
<1>4. ASSUME NEW w \in Workers, NEW retry \in BOOLEAN, GivesUp(w, retry),
             UNCHANGED <<version, inv>>
      PROVE  PastOK'
  BY <1>4 DEF PastOK, TypeOK, GivesUp, Leaves
<1>5. ASSUME NEW w \in Workers, Start(w) \/ List(w)
      PROVE  PastOK'
  BY <1>5 DEF PastOK, TypeOK, Start, List, world
<1>6. ASSUME NEW w \in Workers, Claim(w)
      PROVE  PastOK'
  <2>1. CASE \E r \in Runs : Live(r)
    BY <1>4, <1>6, <2>1 DEF Claim, world
  <2>2. CASE ~ \E r \in Runs : Live(r)
    <3>1. /\ pc' = [pc EXCEPT ![w] = "list"]
          /\ since' = [since EXCEPT ![w] = version]
          /\ UNCHANGED got
      BY <1>6, <2>2, ClaimEffect
    <3>2. UNCHANGED <<version, inv>>
      BY <1>6 DEF Claim, world
    <3> QED BY <3>1, <3>2 DEF PastOK, TypeOK
  <2> QED BY <2>1, <2>2
<1>7. ASSUME NEW w \in Workers, Check(w)
      PROVE  PastOK'
  <2>1. CASE Owns(w)
    BY <1>7, <2>1 DEF PastOK, TypeOK, Check, world
  <2>2. CASE ~ Owns(w)
    BY <1>4, <1>7, <2>2 DEF Check, LeaseLost, world
  <2> QED BY <2>1, <2>2
<1>8. ASSUME NEW w \in Workers, Flag(w)
      PROVE  PastOK'
  <2>1. CASE OwnsRow(w) /\ ~ cancel[run[w]]
    BY <1>8, <2>1 DEF PastOK, TypeOK, Flag, world
  <2>2. CASE ~ (OwnsRow(w) /\ ~ cancel[run[w]])
    BY <1>4, <1>8, <2>2 DEF Flag, LeaseLost, world
  <2> QED BY <2>1, <2>2
<1>9. ASSUME NEW w \in Workers, Fetch(w)
      PROVE  PastOK'
  BY <1>9 DEF PastOK, TypeOK, Fetch, world
<1>10. ASSUME NEW w \in Workers, Store(w)
       PROVE  PastOK'
  <2>1. CASE Owns(w)
    <3>1. at[w] \in Subs
      BY <1>10 DEF LoopOK, Store
    <3> QED BY <1>10, <2>1, <3>1 DEF PastOK, TypeOK, Store, Stored, world
  <2>2. CASE ~ Owns(w)
    BY <1>4, <1>10, <2>2 DEF Store, LeaseLost, world
  <2> QED BY <2>1, <2>2
<1>11. ASSUME NEW w \in Workers, Finish(w) \/ CallFails(w) \/ Crash(w)
       PROVE  PastOK'
  BY <1>4, <1>11 DEF Finish, CallFails, Crash, LeaseLost, world
<1>12. CASE UNCHANGED vars
  BY <1>12 DEF PastOK, vars
<1> QED BY <1>1, <1>2, <1>3, <1>5, <1>6, <1>7, <1>8, <1>9, <1>10, <1>11, <1>12
       DEF Next, Work

\* What a worker's own row says about the inventory, of one worker.
Calm(w) ==
    /\ \A s \in Subs \ missed[w] : s < at[w] => inv[s] >= since[w]
    /\ pc[w] = "store" => \A s \in Subs : inv[s] <= got[w]

\* A step that touches neither the inventory nor the worker keeps that.
LEMMA CalmKept ==
    ASSUME Undisturbed, NEW v \in Workers, UNCHANGED inv,
           /\ run'[v] = run[v] /\ at'[v] = at[v] /\ got'[v] = got[v]
           /\ since'[v] = since[v] /\ pc'[v] = pc[v] /\ missed'[v] = missed[v],
           run'[v] # None, OwnsRow(v)',
           status'[run[v]] = "running" /\ token'[run[v]] = v
               => status[run[v]] = "running" /\ token[run[v]] = v
    PROVE  Calm(v)'
BY DEF Undisturbed, OwnsRow, Calm

LEMMA CalmStep ==
    ASSUME SyncInv, [Next]_vars, NEW v \in Workers, run'[v] # None, OwnsRow(v)'
    PROVE  Calm(v)'
<1> USE SyncAssumption
<1> DEFINE Stays == /\ run'[v] = run[v] /\ at'[v] = at[v] /\ got'[v] = got[v]
                    /\ since'[v] = since[v] /\ pc'[v] = pc[v]
                    /\ missed'[v] = missed[v]
           OwnedBefore == status'[run[v]] = "running" /\ token'[run[v]] = v
                             => status[run[v]] = "running" /\ token[run[v]] = v
<1>0. /\ TypeOK /\ RowsUnique /\ RefsUnique /\ LoopOK /\ PastOK /\ Undisturbed
      /\ run \in [Workers -> Runs \cup {None}]
      /\ status \in [Runs -> Statuses]
      /\ token \in [Runs -> Workers \cup {None}]
  BY DEF SyncInv, TypeOK
<1>a. ASSUME Stays, OwnedBefore, UNCHANGED inv
      PROVE  Calm(v)'
  BY <1>0, <1>a, CalmKept
<1>1. CASE SyncNow \/ SwapApplied
  <2>1. PICK b \in BOOLEAN : Enqueue(b)
    BY <1>1 DEF SyncNow, SwapApplied
  <2>2. Stays /\ UNCHANGED inv
    BY <1>1 DEF SyncNow, SwapApplied
  <2>3. UNCHANGED token /\ (status' = status \/ \E r \in Runs : status' = [status EXCEPT ![r] = "queued"])
    BY <1>0, <2>1, EnqueueEffect
  <2>4. run[v] \in Runs
    BY <1>0, <2>2
  <2>5. OwnedBefore
    BY <1>0, <2>3, <2>4
  <2> QED BY <1>a, <2>2, <2>5
<1>2. CASE ProviderChanges \/ Pause \/ Tick \/ UNCHANGED vars
  BY <1>2, <1>a DEF ProviderChanges, Pause, Tick, vars, rows
<1>3. ASSUME NEW r \in Runs, RequestCancel(r)
      PROVE  Calm(v)'
  <2>1. Stays /\ UNCHANGED <<inv, token>>
    BY <1>3 DEF RequestCancel
  <2>2. run[v] \in Runs
    BY <1>0, <2>1
  <2>3. OwnedBefore
    BY <1>0, <1>3, <2>1, <2>2 DEF RequestCancel
  <2> QED BY <1>a, <2>1, <2>3
<1>4. ASSUME NEW w \in Workers, NEW retry \in BOOLEAN, GivesUp(w, retry), UNCHANGED inv,
             \/ UNCHANGED rows
             \/ \E s \in Statuses \ {"running"} : EndsRow(w, s)
      PROVE  Calm(v)'
  <2>1. v # w
    BY <1>0, <1>4 DEF GivesUp, Leaves, TypeOK
  <2>2. Stays
    BY <1>0, <1>4, <2>1 DEF GivesUp, Leaves, TypeOK
  <2>3. run[v] \in Runs
    BY <1>0, <2>2
  <2>4. OwnedBefore
    BY <1>0, <1>4, <2>3 DEF EndsRow, rows
  <2> QED BY <1>4, <1>a, <2>2, <2>4
<1>5. ASSUME NEW w \in Workers, v # w, UNCHANGED <<inv, run, since, attempt>>,
             /\ status' = status /\ token' = token
             /\ pc'[v] = pc[v] /\ at'[v] = at[v] /\ got'[v] = got[v]
             /\ missed'[v] = missed[v]
      PROVE  Calm(v)'
  BY <1>5, <1>a
<1>6. ASSUME NEW w \in Workers, Start(w) \/ List(w)
      PROVE  Calm(v)'
  <2>1. /\ UNCHANGED <<inv, run, at, got, since, status, token, attempt>>
        /\ pc' \in {[pc EXCEPT ![w] = "claim"], [pc EXCEPT ![w] = "check"]}
        /\ missed' \in {[missed EXCEPT ![w] = S] : S \in SUBSET Subs} \cup {missed}
    BY <1>6 DEF Start, List, rows
  <2>2. at[w] = 0 /\ pc[w] # "store" /\ pc'[w] # "store"
    BY <1>0, <1>6, <2>1 DEF LoopOK, Start, List, TypeOK
  <2>3. CASE v = w
    BY <2>1, <2>2, <2>3 DEF Calm, Subs
  <2>4. CASE v # w
    BY <1>0, <1>5, <2>1, <2>4 DEF TypeOK
  <2> QED BY <2>3, <2>4
<1>7. ASSUME NEW w \in Workers, Claim(w)
      PROVE  Calm(v)'
  <2>1. CASE \E r \in Runs : Live(r)
    BY <1>4, <1>7, <2>1 DEF Claim
  <2>2. CASE ~ \E r \in Runs : Live(r)
    <3>1. PICK r \in Runs :
              /\ status[r] = "queued" \/ Free(r)
              /\ status' = [x \in Runs |-> IF x = r THEN "running"
                                           ELSE IF status[x] = "running" THEN "failed"
                                           ELSE status[x]]
              /\ run' = [run EXCEPT ![w] = r]
              /\ pc' = [pc EXCEPT ![w] = "list"]
              /\ UNCHANGED at
      BY <1>0, <1>7, <2>2, ClaimEffect
    <3>2. run[v] # r
      BY <1>0, <3>1 DEF RefsUnique, Free
    <3>3. v = w
      BY <1>0, <3>1, <3>2 DEF OwnsRow
    <3>4. at'[v] = 0 /\ pc'[v] = "list"
      BY <1>0, <1>7, <3>1, <3>3 DEF LoopOK, TypeOK, Claim
    <3> QED BY <3>4 DEF Calm, Subs
  <2> QED BY <2>1, <2>2
<1>8. ASSUME NEW w \in Workers, Check(w)
      PROVE  Calm(v)'
  <2>1. CASE Owns(w)
    <3>1. /\ UNCHANGED <<inv, run, at, got, since, missed, status, token>>
          /\ pc' = [pc EXCEPT ![w] = "flag"]
      BY <1>8, <2>1 DEF Check
    <3> QED BY <1>0, <3>1 DEF Undisturbed, OwnsRow, Calm, TypeOK
  <2>2. CASE ~ Owns(w)
    BY <1>4, <1>8, <2>2 DEF Check, LeaseLost
  <2> QED BY <2>1, <2>2
<1>9. ASSUME NEW w \in Workers, Flag(w)
      PROVE  Calm(v)'
  <2>1. CASE OwnsRow(w) /\ ~ cancel[run[w]]
    <3>1. /\ UNCHANGED <<inv, run, got, since, missed, attempt, status, token>>
          /\ \/ at' = at
             \/ at' = [at EXCEPT ![w] = @ + 1] /\ (at[w] = 0 \/ at[w] \in missed[w])
          /\ pc' \in {[pc EXCEPT ![w] = "check"], [pc EXCEPT ![w] = "fetch"],
                      [pc EXCEPT ![w] = "finish"]}
      BY <1>9, <2>1 DEF Flag, rows
    <3>a. /\ \/ at'[w] = at[w]
             \/ at'[w] = at[w] + 1 /\ (at[w] = 0 \/ at[w] \in missed[w])
          /\ pc'[w] # "store"
          /\ \A x \in Workers \ {w} : at'[x] = at[x] /\ pc'[x] = pc[x]
      BY <1>0, <3>1 DEF TypeOK
    <3>2. CASE v = w
      <4>1. \A s \in Subs \ missed[w] : s < at[w] => inv[s] >= since[w]
        BY <1>0, <3>1, <3>2, <2>1 DEF Undisturbed
      <4>2. \A s \in Subs \ missed[w] : s < at'[w] => s < at[w]
        BY <1>0, <3>a DEF Subs, TypeOK
      <4> QED BY <3>1, <3>a, <3>2, <4>1, <4>2 DEF Calm
    <3>3. CASE v # w
      BY <1>5, <3>1, <3>a, <3>3
    <3> QED BY <3>2, <3>3
  <2>2. CASE OwnsRow(w) /\ cancel[run[w]]
    BY <1>4, <1>9, <2>2 DEF Flag, Statuses
  <2>3. CASE ~ OwnsRow(w)
    BY <1>4, <1>9, <2>3 DEF Flag, LeaseLost
  <2> QED BY <2>1, <2>2, <2>3
<1>10. ASSUME NEW w \in Workers, Fetch(w)
       PROVE  Calm(v)'
  <2>1. /\ UNCHANGED <<inv, run, at, since, attempt, status, token>>
        /\ pc' = [pc EXCEPT ![w] = "store"]
        /\ got' = [got EXCEPT ![w] = version]
        /\ missed' = missed \/ missed' = [missed EXCEPT ![w] = @ \cup {at[w]}]
    BY <1>10 DEF Fetch, rows
  <2>2. CASE v = w
    BY <1>0, <2>1, <2>2 DEF Undisturbed, OwnsRow, Calm, TypeOK, PastOK
  <2>3. CASE v # w
    BY <1>0, <1>5, <2>1, <2>3 DEF TypeOK
  <2> QED BY <2>2, <2>3
<1>11. ASSUME NEW w \in Workers, Store(w)
       PROVE  Calm(v)'
  <2>1. CASE Owns(w)
    <3>1. /\ UNCHANGED <<status, token, run, got, since, missed>>
          /\ inv' = Stored(w)
          /\ at' = [at EXCEPT ![w] = @ + 1]
          /\ pc' = [pc EXCEPT ![w] = "check"]
      BY <1>11, <2>1 DEF Store
    <3>2. run[w] \in Runs /\ pc[w] = "store"
      BY <1>0, <1>11 DEF RefsUnique, Store
    <3>3. v = w
      BY <1>0, <2>1, <3>1, <3>2 DEF OwnsRow, Owns, RowsUnique, RefsUnique
    <3>4. \A s \in Subs \ missed[w] : s < at[w] => inv[s] >= since[w]
      BY <1>0, <2>1, <3>2 DEF Undisturbed, Owns, TypeOK, SyncAssumption
    <3>5. at[w] \in Subs /\ since[w] <= got[w]
      BY <1>0, <3>2 DEF LoopOK, PastOK
    <3>6. \A s \in Subs \ missed[w] : s < at[w] + 1 => inv'[s] >= since[w]
      <4>1. CASE at[w] \in missed[w]
        BY <1>0, <3>1, <3>4, <3>5, <4>1 DEF TypeOK, Subs, Stored
      <4>2. CASE at[w] \notin missed[w]
        BY <1>0, <3>1, <3>4, <3>5, <4>2 DEF TypeOK, Subs, Stored
      <4> QED BY <4>1, <4>2
    <3>7. /\ at'[v] = at[w] + 1 /\ since'[v] = since[w] /\ pc'[v] = "check"
          /\ missed'[v] = missed[w]
      BY <1>0, <3>1, <3>3 DEF TypeOK
    <3> QED BY <3>6, <3>7 DEF Calm
  <2>2. CASE ~ Owns(w)
    BY <1>4, <1>11, <2>2 DEF Store, LeaseLost
  <2> QED BY <2>1, <2>2
<1>12. ASSUME NEW w \in Workers, Finish(w) \/ CallFails(w) \/ Crash(w)
       PROVE  Calm(v)'
  BY <1>4, <1>12 DEF Finish, CallFails, Crash, LeaseLost, Statuses
<1> QED BY <1>1, <1>2, <1>3, <1>6, <1>7, <1>8, <1>9, <1>10, <1>11, <1>12 DEF Next, Work

LEMMA InvStep ==
    ASSUME SyncInv, [Next]_vars
    PROVE  SyncInv'
<1>1. TypeOK /\ RowsUnique /\ RefsUnique /\ LoopOK /\ PastOK
  BY DEF SyncInv
<1>2. TypeOK' /\ RowsUnique' /\ RefsUnique' /\ LoopOK' /\ PastOK'
  BY <1>1, TypeStep, RowsStep, RefsStep, LoopStep, PastStep
<1>3. Undisturbed'
  BY CalmStep DEF Undisturbed, Calm
<1> QED BY <1>2, <1>3 DEF SyncInv

LEMMA Invariant == Spec => []SyncInv
<1>1. Init => SyncInv
  BY InitInv
<1>2. SyncInv /\ [Next]_vars => SyncInv'
  BY InvStep
<1> QED BY <1>1, <1>2, PTL DEF Spec

-----------------------------------------------------------------------------
(***************************************************************************)
(* What the invariant gives.                                               *)
(***************************************************************************)

\* The columns of provider_sync_runs and the workers' variables keep their
\* types: no run goes past the last subscription or the last attempt
\* (sync_proxiware_inventory, run_once).
THEOREM SyncTypeCorrect == Spec => []TypeOK
BY Invariant, PTL DEF SyncInv

LEMMA AtMostOne ==
    ASSUME NEW S, \A x, y \in S : x = y
    PROVE  Cardinality(S) <= 1
<1>1. CASE S = {}
  BY <1>1, FS_EmptySet
<1>2. CASE S # {}
  <2>1. PICK x \in S : TRUE
    BY <1>2
  <2>2. S = {x}
    BY <2>1
  <2> QED BY <2>2, FS_Singleton
<1> QED BY <1>1, <1>2

\* At most one row runs and at most one waits, for every number of workers
\* and every sequence of crashes, stalls and cancellations: claim_sync_run
\* sweeps every abandoned row before it takes one.
THEOREM SyncOneRun == Spec => []OneRun
<1>1. SyncInv => OneRun
  <2> SUFFICES ASSUME SyncInv
               PROVE  OneRun
    OBVIOUS
  <2>1. \A r, s \in Running : r = s
    BY DEF SyncInv, RowsUnique, Running
  <2>2. \A r, s \in Queued : r = s
    BY DEF SyncInv, RowsUnique, Queued
  <2> QED BY <2>1, <2>2, AtMostOne DEF OneRun
<1> QED BY <1>1, Invariant, PTL

\* The inventory changes only in Store, and only under the worker's own lease.
LEMMA InventoryStep ==
    ASSUME SyncInv, [Next]_vars
    PROVE  \/ UNCHANGED inv
           \/ \E w \in Workers : Store(w) /\ Owns(w)
<1>1. CASE SyncNow \/ SwapApplied \/ ProviderChanges \/ Pause \/ Tick \/ UNCHANGED vars
  BY <1>1 DEF SyncNow, SwapApplied, ProviderChanges, Pause, Tick, vars
<1>2. ASSUME NEW r \in Runs, RequestCancel(r)
      PROVE  UNCHANGED inv
  BY <1>2 DEF RequestCancel
<1>3. ASSUME NEW w \in Workers, Work(w) \/ CallFails(w) \/ Crash(w), ~ (Store(w) /\ Owns(w))
      PROVE  UNCHANGED inv
  <2>1. CASE Start(w) \/ Claim(w) \/ List(w) \/ Fetch(w) \/ CallFails(w) \/ Crash(w)
    BY <2>1 DEF Start, Claim, List, Fetch, CallFails, Crash
  <2>2. CASE Check(w) \/ Flag(w) \/ Finish(w)
    BY <2>2 DEF Check, Flag, Finish, LeaseLost
  <2>3. CASE Store(w)
    BY <1>3, <2>3 DEF Store, LeaseLost
  <2> QED BY <1>3, <2>1, <2>2, <2>3 DEF Work
<1> QED BY <1>1, <1>2, <1>3 DEF Next

\* The inventory never goes back to an older state of the provider: a run
\* that lost its lease in a provider call stores nothing, and one that still
\* has it has fetched at least as late as everything stored.
THEOREM SyncInventoryNeverOlder == Spec => InventoryNeverOlder
<1>1. SyncInv /\ [Next]_vars => [\A s \in Subs : inv'[s] >= inv[s]]_vars
  <2> SUFFICES ASSUME SyncInv, [Next]_vars, NEW s \in Subs
               PROVE  inv'[s] >= inv[s]
    OBVIOUS
  <2>1. inv[s] \in Nat
    BY SyncAssumption DEF SyncInv, TypeOK
  <2>2. CASE UNCHANGED inv
    BY <2>1, <2>2
  <2>3. ASSUME NEW w \in Workers, Store(w), Owns(w)
        PROVE  inv'[s] >= inv[s]
    <3>1. run[w] # None /\ OwnsRow(w) /\ pc[w] = "store"
      BY <2>3 DEF SyncInv, RefsUnique, Store, Owns
    <3>2. inv[s] <= got[w] /\ got[w] \in Nat
      BY <3>1, SyncAssumption DEF SyncInv, Undisturbed, TypeOK
    <3>3. inv' = inv \/ inv' = [inv EXCEPT ![at[w]] = got[w]]
      BY <2>3 DEF Store, Stored
    <3> QED BY <2>1, <3>2, <3>3 DEF SyncInv, TypeOK
  <2> QED BY <2>2, <2>3, InventoryStep
<1> QED BY <1>1, Invariant, PTL DEF Spec, InventoryNeverOlder

\* A running row becomes a success only in Finish, under its own lease.
LEMMA SuccessStep ==
    ASSUME SyncInv, [Next]_vars, NEW r \in Runs,
           status[r] = "running", status'[r] = "success"
    PROVE  \E w \in Workers : Finish(w) /\ Owns(w) /\ run[w] = r
<1> USE SyncAssumption
<1>0. TypeOK /\ status \in [Runs -> Statuses]
  BY DEF SyncInv, TypeOK
<1>1. CASE SyncNow \/ SwapApplied
  <2>1. PICK b \in BOOLEAN : Enqueue(b)
    BY <1>1 DEF SyncNow, SwapApplied
  <2> QED BY <1>0, <2>1, EnqueueEffect
<1>2. CASE ProviderChanges \/ Pause \/ Tick \/ UNCHANGED vars
  BY <1>2 DEF ProviderChanges, Pause, Tick, vars, rows
<1>3. ASSUME NEW x \in Runs, RequestCancel(x)
      PROVE  FALSE
  BY <1>0, <1>3 DEF RequestCancel
<1>4. ASSUME NEW w \in Workers, Start(w) \/ List(w) \/ Check(w) \/ Fetch(w) \/ Store(w) \/ Crash(w)
      PROVE  FALSE
  BY <1>4 DEF Start, List, Check, Fetch, Store, Crash, LeaseLost, rows
<1>5. ASSUME NEW w \in Workers, Claim(w)
      PROVE  FALSE
  <2>1. CASE \E x \in Runs : Live(x)
    BY <1>5, <2>1 DEF Claim, rows
  <2>2. CASE ~ \E x \in Runs : Live(x)
    <3>1. PICK x \in Runs : status' = [y \in Runs |-> IF y = x THEN "running"
                                                   ELSE IF status[y] = "running" THEN "failed"
                                                   ELSE status[y]]
      BY <1>0, <1>5, <2>2, ClaimEffect
    <3> QED BY <3>1
  <2> QED BY <2>1, <2>2
<1>6. ASSUME NEW w \in Workers, Flag(w) \/ CallFails(w)
      PROVE  FALSE
  BY <1>0, <1>6 DEF Flag, CallFails, EndsRow, LeaseLost, rows
<1>7. ASSUME NEW w \in Workers, Finish(w)
      PROVE  Owns(w) /\ run[w] = r
  BY <1>0, <1>7 DEF Finish, EndsRow, LeaseLost, rows
<1> QED BY <1>1, <1>2, <1>3, <1>4, <1>5, <1>6, <1>7 DEF Next, Work

\* A run is reported as a success only when every subscription has been
\* stored as it was at the claim or later, but for the entries and proxies it
\* has counted as errors, whatever stalls, takeovers and malformed answers lie
\* between the subscriptions (sync_proxiware_inventory).
THEOREM SyncSuccessIsComplete == Spec => SuccessIsComplete
<1> DEFINE Complete ==
      \A w \in Workers :
          (run[w] # None /\ status[run[w]] = "running"
             /\ status'[run[w]] = "success" /\ pc[w] = "finish")
          => \A s \in Subs \ missed[w] : inv[s] >= since[w]
<1>1. SyncInv /\ [Next]_vars => [Complete]_vars
  <2> SUFFICES ASSUME SyncInv, [Next]_vars, NEW w \in Workers,
                      run[w] # None, status[run[w]] = "running",
                      status'[run[w]] = "success", pc[w] = "finish", NEW s \in Subs \ missed[w]
               PROVE  inv[s] >= since[w]
    OBVIOUS
  <2>1. run[w] \in Runs
    BY DEF SyncInv, TypeOK
  <2>2. PICK v \in Workers : Owns(v) /\ run[v] = run[w]
    BY <2>1, SuccessStep
  <2>3. v = w
    BY <2>2 DEF SyncInv, RefsUnique
  <2>4. OwnsRow(w) /\ at[w] = N + 1
    BY <2>2, <2>3 DEF SyncInv, LoopOK, Owns
  <2>5. s < at[w]
    BY <2>4, SyncAssumption DEF Subs
  <2> QED BY <2>4, <2>5 DEF SyncInv, Undisturbed
<1>2. [][Complete]_vars <=> SuccessIsComplete
  BY DEF SuccessIsComplete
<1> QED BY <1>1, <1>2, Invariant, PTL DEF Spec

-----------------------------------------------------------------------------
(***************************************************************************)
(* The refinement: each step of SyncRuns is a step of ExclusiveSync, read  *)
(* through Holder and HeldRead, or leaves it where it is.                  *)
(***************************************************************************)

\* The holder is the one row with a live lease.
LEMMA HolderIs ==
    ASSUME RowsUnique, NEW r \in Runs, Live(r)
    PROVE  Holds = {r} /\ Holder = r
<1>1. Holds = {r}
  BY DEF RowsUnique, Holds, Live
<1> QED BY <1>1, Zenon DEF Holder

LEMMA HolderIsNext ==
    ASSUME RowsUnique', NEW r \in Runs, Live(r)'
    PROVE  Holds' = {r} /\ Holder' = r
<1>1. Holds' = {r}
  BY DEF RowsUnique, Holds, Live
<1> QED BY <1>1, Zenon DEF Holder

\* What the holder has read is what its worker has fetched.
LEMMA ReadIs ==
    ASSUME RowsUnique, NEW w \in Workers, run[w] \in Runs, Owns(w), pc[w] = "store"
    PROVE  HasRead = {w} /\ HeldRead = got[w]
<1>1. Holds = {run[w]} /\ Holder = run[w]
  BY HolderIs DEF Owns, OwnsRow, Live
<1>2. HasRead = {w}
  BY <1>1 DEF HasRead, Owns, OwnsRow
<1> QED BY <1>2, Zenon DEF HeldRead

LEMMA ReadIsNext ==
    ASSUME RowsUnique', NEW w \in Workers, run'[w] \in Runs, Owns(w)', pc'[w] = "store"
    PROVE  HasRead' = {w} /\ HeldRead' = got'[w]
<1>1. Holds' = {run'[w]} /\ Holder' = run'[w]
  BY HolderIsNext DEF Owns, OwnsRow, Live
<1>2. HasRead' = {w}
  BY <1>1 DEF HasRead, Owns, OwnsRow
<1> QED BY <1>2, Zenon DEF HeldRead

\* Whoever has read owns the run it has read for.
LEMMA ReaderOwns ==
    ASSUME RowsUnique, NEW w \in HasRead
    PROVE  Owns(w) /\ run[w] \in Runs /\ pc[w] = "store"
<1>1. PICK r \in Runs : Live(r)
  BY DEF HasRead, Holds
<1>2. Holder = r
  BY <1>1, HolderIs
<1> QED BY <1>1, <1>2 DEF HasRead, Owns, OwnsRow, Live

LEMMA HolderKept ==
    ASSUME RowsUnique, RowsUnique', Holds' = Holds
    PROVE  Holder' = Holder
<1>1. CASE Holds = {}
  BY <1>1 DEF Holder
<1>2. CASE Holds # {}
  <2>1. PICK r \in Runs : Live(r) /\ Live(r)'
    BY <1>2 DEF Holds
  <2> QED BY <2>1, HolderIs, HolderIsNext
<1> QED BY <1>1, <1>2

\* Steps that leave the live lease and what was read alone.
LEMMA MapStutter ==
    ASSUME RowsUnique, RowsUnique', Holds' = Holds, HasRead' = HasRead, \A w \in HasRead : got'[w] = got[w],
           UNCHANGED <<version, inv>>
    PROVE  UNCHANGED Hold!vars
<1>1. Holder' = Holder
  BY HolderKept
<1>2. HeldRead' = HeldRead
  <2>1. CASE HasRead = {}
    BY <2>1 DEF HeldRead
  <2>2. CASE HasRead # {}
    <3>1. PICK w \in HasRead : TRUE
      BY <2>2
    <3>2. HasRead = {w}
      BY <3>1, ReaderOwns, ReadIs DEF HasRead
    <3>3. HeldRead = got[w] /\ HeldRead' = got'[w]
      BY <3>2, Zenon DEF HeldRead
    <3> QED BY <3>1, <3>3
  <2> QED BY <2>1, <2>2
<1> QED BY <1>1, <1>2 DEF Hold!vars

\* Steps after which no lease is live.
LEMMA MapRelease ==
    ASSUME Holds' = {}, UNCHANGED <<version, inv>>
    PROVE  Hold!Release
<1>1. HasRead' = {}
  BY DEF HasRead
<1> QED BY <1>1 DEF Hold!Release, Holder, HeldRead

\* Steps after which the same lease is live and nothing is read.
LEMMA MapForget ==
    ASSUME RowsUnique, RowsUnique', Holds' = Holds, HasRead' = {}, UNCHANGED <<version, inv>>
    PROVE  Hold!Forget
<1>1. Holder' = Holder
  BY HolderKept
<1> QED BY <1>1 DEF Hold!Forget, HeldRead

LEMMA RefineStep ==
    ASSUME SyncInv, SyncInv', [Next]_vars
    PROVE  [Hold!Next]_(Hold!vars)
<1> USE SyncAssumption
<1>0. /\ TypeOK /\ RowsUnique /\ RefsUnique /\ RowsUnique'
      /\ status \in [Runs -> Statuses]
      /\ token \in [Runs -> Workers \cup {None}]
      /\ left \in [Runs -> 0 .. LEASE]
      /\ run \in [Workers -> Runs \cup {None}]
      /\ pc \in [Workers -> {"idle", "claim", "list", "check", "flag", "fetch",
                             "store", "finish"}]
      /\ got \in [Workers -> 0 .. MaxVersion]
  BY DEF SyncInv, TypeOK
<1>a. ASSUME Holds' = {}, UNCHANGED <<version, inv>>
      PROVE  Hold!Next
  BY <1>a, MapRelease DEF Hold!Next
\* No worker moves.
<1>b. ASSUME Holds' = Holds, UNCHANGED <<version, inv, pc, run, got>>,
             \A r \in Holds : token'[r] = token[r]
      PROVE  UNCHANGED Hold!vars
  <2>1. Holder' = Holder
    BY <1>0, <1>b, HolderKept
  <2>2. HasRead' = HasRead
    <3>1. CASE Holds = {}
      BY <1>b, <3>1 DEF HasRead
    <3>2. CASE Holds # {}
      <4>1. Holder \in Holds
        BY <1>0, <3>2, HolderIs DEF Holds
      <4> QED BY <1>b, <2>1, <3>2, <4>1 DEF HasRead
    <3> QED BY <3>1, <3>2
  <2> QED BY <1>0, <1>b, <2>2, MapStutter
\* Worker w goes on, without a store before or after.
<1>c. ASSUME NEW w \in Workers, Holds' = Holds, UNCHANGED <<version, inv, token>>,
             \A v \in Workers \ {w} : pc'[v] = pc[v] /\ run'[v] = run[v] /\ got'[v] = got[v],
             pc'[w] # "store", w \notin HasRead
      PROVE  UNCHANGED Hold!vars
  <2>1. Holder' = Holder
    BY <1>0, <1>c, HolderKept
  <2>2. HasRead' = HasRead
    BY <1>c, <2>1 DEF HasRead
  <2>3. \A v \in HasRead : got'[v] = got[v]
    BY <1>c DEF HasRead
  <2> QED BY <1>0, <1>c, <2>2, <2>3, MapStutter
\* Worker w leaves and its row stays.
<1>d. ASSUME NEW w \in Workers, NEW retry \in BOOLEAN, GivesUp(w, retry),
             UNCHANGED <<version, inv, status, left, token>>
      PROVE  Hold!Next \/ UNCHANGED Hold!vars
  <2>1. Holds' = Holds
    BY <1>d DEF Holds, Live
  <2>2. /\ \A v \in Workers \ {w} : pc'[v] = pc[v] /\ run'[v] = run[v] /\ got'[v] = got[v]
        /\ pc'[w] # "store"
    BY <1>0, <1>d DEF GivesUp, Leaves
  <2>3. CASE w \notin HasRead
    BY <1>c, <1>d, <2>1, <2>2, <2>3
  <2>4. CASE w \in HasRead
    <3>1. HasRead = {w}
      BY <1>0, <2>4, ReaderOwns, ReadIs DEF HasRead
    <3>2. Holder' = Holder
      BY <1>0, <2>1, HolderKept
    <3>3. HasRead' = {}
      BY <1>d, <2>1, <2>2, <3>1, <3>2 DEF HasRead
    <3> QED BY <1>0, <1>d, <2>1, <3>3, MapForget DEF Hold!Next
  <2> QED BY <2>3, <2>4
\* Worker w ends its row.
<1>e. ASSUME NEW w \in Workers, NEW s \in Statuses \ {"running"}, EndsRow(w, s), OwnsRow(w),
             run[w] \in Runs, UNCHANGED <<version, inv>>
      PROVE  Hold!Next
  <2>1. \A r \in Runs : status'[r] # "running"
    BY <1>0, <1>e DEF EndsRow, OwnsRow, RowsUnique
  <2>2. Holds' = {}
    BY <2>1 DEF Holds, Live
  <2> QED BY <1>a, <1>e, <2>2
<1>1. CASE SyncNow \/ SwapApplied
  <2>1. PICK b \in BOOLEAN : Enqueue(b)
    BY <1>1 DEF SyncNow, SwapApplied
  <2>2. UNCHANGED <<version, inv, pc, run, got>>
    BY <1>1 DEF SyncNow, SwapApplied, world
  <2>3. /\ UNCHANGED <<token, left>>
        /\ status' = status \/ \E r \in Runs : Free(r) /\ status' = [status EXCEPT ![r] = "queued"]
    BY <1>0, <2>1, EnqueueEffect
  <2>4. Holds' = Holds
    BY <1>0, <2>3 DEF Holds, Live, Free
  <2> QED BY <1>b, <2>2, <2>3, <2>4
<1>2. CASE ProviderChanges
  <2>1. Holds' = Holds /\ HasRead' = HasRead
    <3>1. UNCHANGED <<status, token, left, pc, run, got, inv>>
      BY <1>2 DEF ProviderChanges, rows
    <3>2. Holds' = Holds
      BY <3>1 DEF Holds, Live
    <3>3. Holder' = Holder
      BY <1>0, <3>2, HolderKept
    <3> QED BY <3>1, <3>2, <3>3 DEF HasRead
  <2>2. Holder' = Holder
    BY <1>0, <2>1, HolderKept
  <2>3. HeldRead' = HeldRead
    <3>1. CASE HasRead = {}
      BY <2>1, <3>1 DEF HeldRead
    <3>2. CASE HasRead # {}
      <4>1. PICK w \in HasRead : TRUE
        BY <3>2
      <4>2. HasRead = {w}
        BY <1>0, <4>1, ReaderOwns, ReadIs DEF HasRead
      <4>3. HeldRead = got[w] /\ HeldRead' = got'[w]
        BY <2>1, <4>2, Zenon DEF HeldRead
      <4> QED BY <1>2, <4>3 DEF ProviderChanges
    <3> QED BY <3>1, <3>2
  <2>4. Hold!Change
    BY <1>2, <2>2, <2>3 DEF Hold!Change, ProviderChanges
  <2> QED BY <2>4 DEF Hold!Next
<1>3. CASE Pause \/ UNCHANGED vars
  <2>1. UNCHANGED <<version, inv, pc, run, got, status, token, left>>
    BY <1>3 DEF Pause, vars, rows
  <2>2. Holds' = Holds
    BY <2>1 DEF Holds, Live
  <2> QED BY <1>b, <2>1, <2>2
<1>4. CASE Tick
  <2>1. /\ UNCHANGED <<version, inv, pc, run, got, status, token>>
        /\ left' = [r \in Runs |-> IF left[r] > 0 THEN left[r] - 1 ELSE 0]
    BY <1>4 DEF Tick, world
  <2>2. \A r \in Runs : Live(r)' => Live(r)
    BY <1>0, <2>1 DEF Live
  <2>3. CASE \E r \in Runs : Live(r)'
    <3>1. PICK r \in Runs : Live(r)'
      BY <2>3
    <3>2. Holds' = {r} /\ Holds = {r}
      BY <1>0, <2>2, <3>1, HolderIs, HolderIsNext
    <3> QED BY <1>b, <2>1, <3>2
  <2>4. CASE ~ \E r \in Runs : Live(r)'
    <3>1. Holds' = {}
      BY <2>4 DEF Holds
    <3> QED BY <1>a, <2>1, <3>1
  <2> QED BY <2>3, <2>4
<1>5. ASSUME NEW r \in Runs, RequestCancel(r)
      PROVE  UNCHANGED Hold!vars
  <2>1. UNCHANGED <<version, inv, pc, run, got, token, left>>
    BY <1>5 DEF RequestCancel, world
  <2>2. Holds' = Holds
    BY <1>0, <1>5, <2>1 DEF RequestCancel, Holds, Live
  <2> QED BY <1>b, <2>1, <2>2
<1>6. ASSUME NEW w \in Workers, pc[w] # "store"
      PROVE  w \notin HasRead
  BY <1>6 DEF HasRead
<1>7. ASSUME NEW w \in Workers, Start(w) \/ List(w)
      PROVE  UNCHANGED Hold!vars
  <2>1. /\ UNCHANGED <<version, inv, run, got, status, token, left>>
        /\ pc' \in {[pc EXCEPT ![w] = "claim"], [pc EXCEPT ![w] = "check"]}
        /\ pc[w] # "store"
    BY <1>7 DEF Start, List, rows, world
  <2>2. Holds' = Holds
    BY <2>1 DEF Holds, Live
  <2>3. pc'[w] # "store" /\ \A v \in Workers \ {w} : pc'[v] = pc[v]
    BY <1>0, <2>1
  <2> QED BY <1>6, <1>c, <2>1, <2>2, <2>3
<1>8. ASSUME NEW w \in Workers, Claim(w)
      PROVE  Hold!Next \/ UNCHANGED Hold!vars
  <2>0. UNCHANGED <<version, inv>>
    BY <1>8 DEF Claim, world
  <2>1. CASE \E r \in Runs : Live(r)
    BY <1>8, <1>d, <2>0, <2>1 DEF Claim, rows
  <2>2. CASE ~ \E r \in Runs : Live(r)
    <3>1. PICK r \in Runs :
              /\ status' = [x \in Runs |-> IF x = r THEN "running"
                                           ELSE IF status[x] = "running" THEN "failed"
                                           ELSE status[x]]
              /\ token' = [x \in Runs |-> IF x = r THEN w
                                          ELSE IF status[x] = "running" THEN None
                                          ELSE token[x]]
              /\ left' = [left EXCEPT ![r] = LEASE]
              /\ pc' = [pc EXCEPT ![w] = "list"]
      BY <1>0, <1>8, <2>2, ClaimEffect
    <3>2. Holds = {} /\ Holder = None /\ HeldRead = None
      BY <2>2 DEF Holds, Holder, HasRead, HeldRead
    <3>3. Live(r)'
      BY <1>0, <3>1 DEF Live
    <3>4. Holds' = {r} /\ Holder' = r
      BY <1>0, <3>3, HolderIsNext
    <3>5. token'[r] = w /\ pc'[w] = "list"
      BY <1>0, <3>1
    <3>6. HasRead' = {}
      BY <3>4, <3>5 DEF HasRead
    <3>7. HeldRead' = None
      BY <3>6 DEF HeldRead
    <3>8. Hold!Acquire
      BY <2>0, <3>2, <3>4, <3>7 DEF Hold!Acquire
    <3> QED BY <3>8 DEF Hold!Next
  <2> QED BY <2>1, <2>2
<1>9. ASSUME NEW w \in Workers, Check(w)
      PROVE  Hold!Next \/ UNCHANGED Hold!vars
  <2>0. UNCHANGED <<version, inv>> /\ pc[w] = "check"
    BY <1>9 DEF Check, LeaseLost, world
  <2>1. CASE Owns(w)
    <3>1. /\ UNCHANGED <<status, token, run, got>>
          /\ left' = [left EXCEPT ![run[w]] = LEASE]
          /\ pc' = [pc EXCEPT ![w] = "flag"]
      BY <1>9, <2>1 DEF Check
    <3>2. Holds' = Holds
      BY <1>0, <2>1, <3>1 DEF Holds, Live, Owns, OwnsRow
    <3>3. pc'[w] # "store" /\ \A v \in Workers \ {w} : pc'[v] = pc[v]
      BY <1>0, <3>1
    <3> QED BY <1>6, <1>c, <2>0, <3>1, <3>2, <3>3
  <2>2. CASE ~ Owns(w)
    BY <1>9, <1>d, <2>0, <2>2 DEF Check, LeaseLost, rows
  <2> QED BY <2>1, <2>2
<1>10. ASSUME NEW w \in Workers, Flag(w)
       PROVE  Hold!Next \/ UNCHANGED Hold!vars
  <2>0. UNCHANGED <<version, inv>> /\ pc[w] = "flag" /\ run[w] \in Runs
    BY <1>0, <1>10 DEF Flag, LeaseLost, world, RefsUnique
  <2>1. CASE OwnsRow(w) /\ cancel[run[w]]
    BY <1>10, <1>e, <2>0, <2>1 DEF Flag, Statuses
  <2>2. CASE OwnsRow(w) /\ ~ cancel[run[w]]
    <3>1. /\ UNCHANGED <<status, token, left, run, got>>
          /\ pc'[w] # "store" /\ \A v \in Workers \ {w} : pc'[v] = pc[v]
      BY <1>0, <1>10, <2>2 DEF Flag, rows
    <3>2. Holds' = Holds
      BY <3>1 DEF Holds, Live
    <3>3. pc'[w] # "store" /\ \A v \in Workers \ {w} : pc'[v] = pc[v]
      BY <3>1
    <3> QED BY <1>6, <1>c, <2>0, <3>1, <3>2, <3>3
  <2>3. CASE ~ OwnsRow(w)
    BY <1>10, <1>d, <2>0, <2>3 DEF Flag, LeaseLost, rows
  <2> QED BY <2>1, <2>2, <2>3
<1>11. ASSUME NEW w \in Workers, Fetch(w)
       PROVE  Hold!Next \/ UNCHANGED Hold!vars
  <2>0. /\ UNCHANGED <<version, inv, status, token, left, run>>
        /\ pc[w] = "fetch" /\ run[w] \in Runs
        /\ pc' = [pc EXCEPT ![w] = "store"]
        /\ got' = [got EXCEPT ![w] = version]
    BY <1>0, <1>11 DEF Fetch, rows, world, RefsUnique
  <2>1. Holds' = Holds
    BY <2>0 DEF Holds, Live
  <2>2. Holder' = Holder
    BY <1>0, <2>1, HolderKept
  <2>3. CASE Owns(w)
    <3>1. Owns(w)' /\ run'[w] \in Runs /\ pc'[w] = "store" /\ got'[w] = version
      BY <1>0, <2>0, <2>3 DEF Owns, OwnsRow
    <3>2. HeldRead' = version
      BY <1>0, <3>1, ReadIsNext
    <3>3. Holder # None
      BY <1>0, <2>0, <2>3, HolderIs DEF Owns, OwnsRow, Live
    <3>4. Hold!Read
      BY <2>0, <2>2, <3>2, <3>3 DEF Hold!Read
    <3> QED BY <3>4 DEF Hold!Next
  <2>4. CASE ~ Owns(w)
    <3>1. w \notin HasRead
      BY <1>6, <2>0
    <3>2. w \notin HasRead'
      <4>1. ASSUME Holds # {}, run[w] = Holder, token[Holder] = w
            PROVE  FALSE
        <5>1. PICK r \in Runs : Live(r)
          BY <4>1 DEF Holds
        <5>2. Holder = r
          BY <1>0, <5>1, HolderIs
        <5> QED BY <2>4, <4>1, <5>1, <5>2 DEF Owns, OwnsRow, Live
      <4> QED BY <2>0, <2>1, <2>2, <4>1 DEF HasRead
    <3>3. \A v \in Workers \ {w} : pc'[v] = pc[v] /\ got'[v] = got[v]
      BY <1>0, <2>0
    <3>4. HasRead' = HasRead
      BY <2>0, <2>1, <2>2, <3>1, <3>2, <3>3 DEF HasRead
    <3>5. \A v \in HasRead : got'[v] = got[v]
      BY <3>1, <3>3 DEF HasRead
    <3> QED BY <1>0, <2>0, <2>1, <3>4, <3>5, MapStutter
  <2> QED BY <2>3, <2>4
<1>12. ASSUME NEW w \in Workers, Store(w)
       PROVE  Hold!Next \/ UNCHANGED Hold!vars
  <2>0. version' = version /\ pc[w] = "store" /\ run[w] \in Runs
    BY <1>0, <1>12 DEF Store, world, RefsUnique
  <2>1. CASE Owns(w)
    <3>1. /\ UNCHANGED <<status, token, run, got>>
          /\ left' = [left EXCEPT ![run[w]] = LEASE]
          /\ inv' = Stored(w)
          /\ pc' = [pc EXCEPT ![w] = "check"]
      BY <1>12, <2>1 DEF Store
    <3>2. Holds' = Holds
      BY <1>0, <2>1, <3>1 DEF Holds, Live, Owns, OwnsRow
    <3>3. Holder' = Holder
      BY <1>0, <3>2, HolderKept
    <3>4. HasRead = {w} /\ HeldRead = got[w]
      BY <1>0, <2>0, <2>1, ReadIs
    <3>5. pc'[w] = "check" /\ \A v \in Workers \ {w} : pc'[v] = pc[v]
      BY <1>0, <3>1
    <3>6. HasRead' = {}
      BY <3>1, <3>2, <3>3, <3>4, <3>5 DEF HasRead
    <3>7. HeldRead' = None
      BY <3>6 DEF HeldRead
    <3>8. Holder # None
      BY <1>0, <2>0, <2>1, HolderIs DEF Owns, OwnsRow, Live
    <3>9. at[w] \in Subs
      BY <2>0 DEF SyncInv, LoopOK
    <3>10. got[w] # None
      BY <1>0
    <3>11. CASE at[w] \in missed[w]
      <4>1. UNCHANGED <<version, inv>>
        BY <2>0, <3>1, <3>11 DEF Stored
      <4> QED BY <1>0, <3>2, <3>6, <4>1, MapForget DEF Hold!Next
    <3>12. CASE at[w] \notin missed[w]
      <4>1. \E s \in Subs : inv' = [inv EXCEPT ![s] = HeldRead]
        BY <3>1, <3>4, <3>9, <3>12 DEF Stored
      <4>2. Hold!Write
        BY <2>0, <3>3, <3>4, <3>7, <3>8, <3>10, <4>1 DEF Hold!Write
      <4> QED BY <4>2 DEF Hold!Next
    <3> QED BY <3>11, <3>12
  <2>2. CASE ~ Owns(w)
    BY <1>12, <1>d, <2>0, <2>2 DEF Store, LeaseLost, rows
  <2> QED BY <2>1, <2>2
<1>13. ASSUME NEW w \in Workers, Finish(w)
       PROVE  Hold!Next \/ UNCHANGED Hold!vars
  <2>0. UNCHANGED <<version, inv>> /\ run[w] \in Runs
    BY <1>0, <1>13 DEF Finish, LeaseLost, world, RefsUnique
  <2>1. CASE Owns(w)
    BY <1>13, <1>e, <2>0, <2>1 DEF Finish, Statuses, Owns
  <2>2. CASE ~ Owns(w)
    BY <1>13, <1>d, <2>0, <2>2 DEF Finish, LeaseLost, rows
  <2> QED BY <2>1, <2>2
<1>14. ASSUME NEW w \in Workers, CallFails(w)
       PROVE  Hold!Next \/ UNCHANGED Hold!vars
  <2>0. UNCHANGED <<version, inv>> /\ run[w] \in Runs
    BY <1>0, <1>14 DEF CallFails, world, RefsUnique
  <2>1. CASE OwnsRow(w)
    BY <1>14, <1>e, <2>0, <2>1 DEF CallFails, Statuses
  <2>2. CASE ~ OwnsRow(w)
    BY <1>14, <1>d, <2>0, <2>2 DEF CallFails, rows
  <2> QED BY <2>1, <2>2
<1>15. ASSUME NEW w \in Workers, Crash(w)
       PROVE  Hold!Next \/ UNCHANGED Hold!vars
  BY <1>15, <1>d DEF Crash, rows, world
<1> QED BY <1>1, <1>2, <1>3, <1>4, <1>5, <1>7, <1>8, <1>9, <1>10, <1>11, <1>12, <1>13,
           <1>14, <1>15 DEF Next, Work

LEMMA RefineInit ==
    ASSUME Init
    PROVE  Hold!Init
<1>1. Holds = {}
  BY DEF Init, Holds, Live
<1>2. Holder = None /\ HeldRead = None
  BY <1>1 DEF Holder, HasRead, HeldRead
<1> QED BY <1>2 DEF Init, Hold!Init

\* The queue, its leases and its crashes implement the exclusive hold: for
\* every number of workers and rows, what SyncRuns does to the inventory is
\* what one holder at a time does that writes only what it has read during
\* its own hold (proxiware.py, claim_sync_run and _renew_sync_lease).
THEOREM SyncImplementsHold == Spec => ImplementsHold
<1>1. Init => Hold!Init
  BY RefineInit
<1>2. SyncInv /\ SyncInv' /\ [Next]_vars => [Hold!Next]_(Hold!vars)
  BY RefineStep
<1> QED BY <1>1, <1>2, Invariant, PTL DEF Spec, ImplementsHold, Hold!Spec
=============================================================================
