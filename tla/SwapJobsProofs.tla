--------------------------- MODULE SwapJobsProofs ---------------------------
(***************************************************************************)
(* TLAPS proofs about SwapJobs, for every number of jobs, slots, workers   *)
(* and tokens and all bounds:                                              *)
(*                                                                         *)
(*   SwapOneAtATime            Spec => []OneAtATime                        *)
(*   SwapFencedCalls           Spec => []FencedCalls                       *)
(*   SwapNeverRecalled         Spec => NeverRecalled                       *)
(*   SwapTypeCorrect           Spec => []TypeOK                            *)
(*   SwapPostMutationEvidence  Spec => PostMutationEvidence, where         *)
(*                             administrators requeue no job               *)
(*                                                                         *)
(* There are three layers, each inductive given the ones before it.        *)
(* SwapInv is about claims and tokens: who may call for which job.         *)
(* ShapeInv adds the types and which rows, requests and jobs the others    *)
(* refer to.  LineInv is about order: everything the inventory ever showed *)
(* the provider had reached, and what an uncertain job is replaced by      *)
(* comes after what it replaced.                                           *)
(*                                                                         *)
(* Each layer names what a step may do to its part of the state            *)
(* (JobSettles and WorkerOutside; what is Kept; JobsMild and the Stands)   *)
(* and shows once that such a step keeps the invariant.  Most actions are  *)
(* then instances; the others have a lemma each.                           *)
(***************************************************************************)
EXTENDS SwapJobs, FiniteSetTheorems, TLAPS

Settled == {"pending", "blocked", "canceled", "success"}
WithJob == {"claimed", "context", "checked", "calling", "applied"}

\* The part of the state the proof is about.
CoreType ==
    /\ state \in [Jobs -> JobStates]
    /\ token \in [Jobs -> Tokens \cup {None}]
    /\ called \in [Jobs -> BOOLEAN]
    /\ pc \in [Workers -> {"idle", "started", "claiming"} \cup WithJob]
    /\ job \in [Workers -> 0 .. MaxJobs]
    /\ held \in [Workers -> Tokens \cup {None}]

JobKnown == \A w \in Workers : pc[w] \in WithJob => job[w] \in Jobs

\* A worker whose mutation was recorded still finds its token only on a job
\* that waits for reconciliation.
AppliedHeld ==
    \A w \in Workers : pc[w] = "applied" =>
        /\ held[w] # None
        /\ token[job[w]] = held[w] => state[job[w]] \in {"provider_applied", "reconciliation_required"}

\* A job whose mutation was sent is not in the queue.
CalledIsBehind ==
    \A j \in Jobs : called[j] => state[j] \notin {"absent"} \cup PreMutation

SwapInv ==
    /\ CoreType
    /\ JobKnown
    /\ OneAtATime
    /\ FencedCalls
    /\ AppliedHeld
    /\ CalledIsBehind

\* A job that leaves the queue or comes back to it, without entering the fence.
JobSettles(k) ==
    /\ state[k] # "mutating"
    /\ state'[k] \in Settled
    /\ token'[k] = None \/ (state[k] = "absent" /\ token'[k] = token[k])
    /\ state'[k] = "pending" => ~ called'[k]

JobStays(k) == state'[k] = state[k] /\ token'[k] = token[k]

CalledStays(k) == called'[k] => called[k]

WorkerStays(w) == pc'[w] = pc[w] /\ job'[w] = job[w] /\ held'[w] = held[w]

WorkerOutside(w) ==
    /\ pc'[w] \notin {"calling", "applied"}
    /\ pc'[w] \in WithJob => job'[w] \in Jobs

\* Steps that touch no mutation preserve the invariant.
LEMMA OutsideStep ==
    ASSUME SwapInv, CoreType',
           \A k \in Jobs : (JobStays(k) \/ JobSettles(k)) /\ CalledStays(k),
           \A w \in Workers : WorkerStays(w) \/ WorkerOutside(w)
    PROVE  SwapInv'
  <1>1. JobKnown'
    BY DEF SwapInv, JobKnown, WorkerStays, WorkerOutside
  <1>2. OneAtATime'
    BY DEF SwapInv, OneAtATime, JobStays, JobSettles, Settled, Mutation
  <1>3. FencedCalls'
    <2>. SUFFICES ASSUME NEW w \in Workers, pc'[w] = "calling"
                  PROVE  /\ state'[job'[w]] = "mutating"
                         /\ held'[w] # None
                         /\ token'[job'[w]] = held'[w]
                         /\ \A v \in Workers : pc'[v] = "calling" => v = w
      BY DEF FencedCalls
    <2>1. \A v \in Workers : pc'[v] = "calling" => WorkerStays(v) /\ pc[v] = "calling"
      BY DEF WorkerStays, WorkerOutside
    <2>2. job[w] \in Jobs
      BY <2>1 DEF SwapInv, JobKnown, WithJob
    <2>3. JobStays(job[w])
      BY <2>1, <2>2 DEF SwapInv, FencedCalls, JobSettles
    <2>. QED
      BY <2>1, <2>3 DEF SwapInv, FencedCalls, JobStays, WorkerStays
  <1>4. AppliedHeld'
    <2>. SUFFICES ASSUME NEW w \in Workers, pc'[w] = "applied"
                  PROVE  /\ held'[w] # None
                         /\ token'[job'[w]] = held'[w]
                            => state'[job'[w]] \in {"provider_applied", "reconciliation_required"}
      BY DEF AppliedHeld
    <2>1. WorkerStays(w) /\ pc[w] = "applied"
      BY DEF WorkerStays, WorkerOutside
    <2>2. job[w] \in Jobs
      BY <2>1 DEF SwapInv, JobKnown, WithJob
    <2>3. held[w] # None
      BY <2>1 DEF SwapInv, AppliedHeld
    <2>4. CASE JobStays(job[w])
      BY <2>1, <2>3, <2>4 DEF SwapInv, AppliedHeld, JobStays, WorkerStays
    <2>5. CASE JobSettles(job[w]) /\ token'[job[w]] = None
      BY <2>1, <2>3, <2>5 DEF WorkerStays
    <2>6. CASE JobSettles(job[w]) /\ state[job[w]] = "absent" /\ token'[job[w]] = token[job[w]]
      BY <2>1, <2>3, <2>6 DEF SwapInv, AppliedHeld, WorkerStays
    <2>. QED
      BY <2>2, <2>4, <2>5, <2>6 DEF JobSettles
  <1>5. CalledIsBehind'
    <2>. SUFFICES ASSUME NEW k \in Jobs, called'[k]
                  PROVE  state'[k] \notin {"absent"} \cup PreMutation
      BY DEF CalledIsBehind
    <2>1. called[k]
      BY DEF CalledStays
    <2>2. CASE JobStays(k)
      BY <2>1, <2>2 DEF SwapInv, CalledIsBehind, JobStays
    <2>3. CASE JobSettles(k)
      BY <2>3 DEF JobSettles, Settled, PreMutation
    <2>. QED
      BY <2>2, <2>3
  <1>. QED
    BY <1>1, <1>2, <1>3, <1>4, <1>5 DEF SwapInv

-----------------------------------------------------------------------------
\* A token that Claim takes is a token, and nobody holds it (claim_next_swap
\* draws it with secrets.token_urlsafe).
LEMMA FreshTokenFresh ==
    ASSUME Tokens \ UsedTokens # {}
    PROVE  FreshToken \in Tokens /\ FreshToken \notin UsedTokens
  BY DEF FreshToken

\* A worker that leaves is outside; the others stay as they are.
LEMMA LeaveOutside ==
    ASSUME CoreType, NEW w \in Workers, Leave(w)
    PROVE  /\ pc' \in [Workers -> {"idle", "started", "claiming"} \cup WithJob]
           /\ job' \in [Workers -> 0 .. MaxJobs]
           /\ held' \in [Workers -> Tokens \cup {None}]
           /\ \A v \in Workers : WorkerStays(v) \/ WorkerOutside(v)
           /\ pc'[w] = "idle"
           /\ \A v \in Workers : v # w => WorkerStays(v)
  <1>1. job' \in [Workers -> 0 .. MaxJobs]
    BY SwapAssumption DEF Leave, CoreType
  <1>2. pc' \in [Workers -> {"idle", "started", "claiming"} \cup WithJob]
    BY DEF Leave, CoreType
  <1>3. held' \in [Workers -> Tokens \cup {None}]
    BY DEF Leave, CoreType
  <1>4. pc'[w] = "idle" /\ \A v \in Workers : v # w => WorkerStays(v)
    BY DEF Leave, CoreType, WorkerStays
  <1>. QED
    BY <1>1, <1>2, <1>3, <1>4 DEF WorkerOutside, WithJob

\* A job that is settled before the fence, or after it.
LEMMA SettleOutside ==
    ASSUME CoreType, NEW j, NEW to \in Settled, NEW wait, Settle(j, to, wait),
           j \in Jobs => state[j] # "mutating",
           j \in Jobs /\ to = "pending" => ~ called[j]
    PROVE  /\ state' \in [Jobs -> JobStates]
           /\ token' \in [Jobs -> Tokens \cup {None}]
           /\ called' \in [Jobs -> BOOLEAN]
           /\ \A k \in Jobs : (JobStays(k) \/ JobSettles(k)) /\ CalledStays(k)
  <1>1. state' \in [Jobs -> JobStates] /\ token' \in [Jobs -> Tokens \cup {None}]
    BY DEF Settle, CoreType, JobStates, Settled, Active, PreMutation
  <1>2. called' = called
    BY DEF Settle
  <1>3. \A k \in Jobs : /\ state'[k] = IF k = j THEN to ELSE state[k]
                        /\ token'[k] = IF k = j THEN None ELSE token[k]
    BY DEF Settle, CoreType
  <1>. QED
    BY <1>1, <1>2, <1>3 DEF CoreType, JobStays, JobSettles, CalledStays

\* The same for a job an administrator requeues.
LEMMA RequeueOutside ==
    ASSUME CoreType, NEW j \in Jobs, Requeue(j), state[j] # "mutating"
    PROVE  /\ state' \in [Jobs -> JobStates]
           /\ token' \in [Jobs -> Tokens \cup {None}]
           /\ called' \in [Jobs -> BOOLEAN]
           /\ \A k \in Jobs : (JobStays(k) \/ JobSettles(k)) /\ CalledStays(k)
  <1>1. state' \in [Jobs -> JobStates] /\ token' \in [Jobs -> Tokens \cup {None}]
    BY DEF Requeue, CoreType, JobStates, Active, PreMutation
  <1>2. called' \in [Jobs -> BOOLEAN]
    BY DEF Requeue, CoreType
  <1>3. \A k \in Jobs : /\ state'[k] = IF k = j THEN "pending" ELSE state[k]
                        /\ token'[k] = IF k = j THEN None ELSE token[k]
    BY DEF Requeue, CoreType
  <1>4. \A k \in Jobs : called'[k] = IF k = j THEN FALSE ELSE called[k]
    BY DEF Requeue, CoreType
  <1>. QED
    BY <1>1, <1>2, <1>3, <1>4 DEF JobStays, JobSettles, CalledStays, Settled

\* No job changes.
LEMMA JobsStay ==
    ASSUME CoreType, UNCHANGED <<state, token, called>>
    PROVE  /\ state' \in [Jobs -> JobStates]
           /\ token' \in [Jobs -> Tokens \cup {None}]
           /\ called' \in [Jobs -> BOOLEAN]
           /\ \A k \in Jobs : (JobStays(k) \/ JobSettles(k)) /\ CalledStays(k)
  BY DEF CoreType, JobStays, CalledStays

\* No worker changes.
LEMMA WorkersStay ==
    ASSUME CoreType, UNCHANGED <<pc, job, held>>
    PROVE  /\ pc' \in [Workers -> {"idle", "started", "claiming"} \cup WithJob]
           /\ job' \in [Workers -> 0 .. MaxJobs]
           /\ held' \in [Workers -> Tokens \cup {None}]
           /\ \A v \in Workers : WorkerStays(v) \/ WorkerOutside(v)
  BY DEF CoreType, WorkerStays

LEMMA SwapInit == Init => SwapInv
  <1>. SUFFICES ASSUME Init PROVE SwapInv
    OBVIOUS
  <1>1. CoreType
    BY SwapAssumption DEF Init, CoreType, JobStates
  <1>. QED
    BY <1>1 DEF Init, SwapInv, JobKnown, WithJob, OneAtATime, Mutation, FencedCalls, AppliedHeld,
                CalledIsBehind

-----------------------------------------------------------------------------
\* Steps of a worker outside the mutation: one step per action.
LEMMA WorkerOutsideStep ==
    ASSUME SwapInv, NEW w \in Workers,
           \/ StartCycle(w) \/ NoSession(w) \/ QueueSwaps(w) \/ ClaimNothing(w)
           \/ ReadContext(w) \/ Revalidate(w) \/ Refuse(w)
           \/ \E needsOperator \in BOOLEAN : FailsBefore(w, needsOperator)
           \/ EndCycle(w) \/ Crash(w)
    PROVE  SwapInv'
  <1>0. CoreType /\ JobKnown
    BY DEF SwapInv
  <1>1. ASSUME \A k \in Jobs : (JobStays(k) \/ JobSettles(k)) /\ CalledStays(k),
               state' \in [Jobs -> JobStates],
               token' \in [Jobs -> Tokens \cup {None}],
               called' \in [Jobs -> BOOLEAN],
               \A v \in Workers : WorkerStays(v) \/ WorkerOutside(v),
               pc' \in [Workers -> {"idle", "started", "claiming"} \cup WithJob],
               job' \in [Workers -> 0 .. MaxJobs],
               held' \in [Workers -> Tokens \cup {None}]
        PROVE  SwapInv'
    BY <1>1, OutsideStep DEF CoreType
  <1>2. CASE StartCycle(w)
    <2>1. UNCHANGED <<state, token, called, job, held>> /\ pc' = [pc EXCEPT ![w] = "started"]
      BY <1>2 DEF StartCycle, jobVars
    <2>2. pc' \in [Workers -> {"idle", "started", "claiming"} \cup WithJob]
      BY <1>0, <2>1 DEF CoreType
    <2>3. \A v \in Workers : WorkerStays(v) \/ WorkerOutside(v)
      BY <1>0, <2>1 DEF CoreType, WorkerStays, WorkerOutside, WithJob
    <2>. QED
      BY <1>0, <1>1, <2>1, <2>2, <2>3, JobsStay, WorkersStay DEF CoreType
  <1>3. CASE NoSession(w)
    <2>1. UNCHANGED <<state, token, called, pc, job, held>>
      BY <1>3 DEF NoSession, jobVars, workerVars
    <2>. QED
      BY <1>0, <1>1, <2>1, JobsStay, WorkersStay
  <1>4. CASE QueueSwaps(w)
    <2>1. /\ UNCHANGED <<token, called, job, held>> /\ pc' = [pc EXCEPT ![w] = "claiming"]
          /\ pc[w] = "started"
      BY <1>4 DEF QueueSwaps
    <2>2. \/ state' = state
          \/ \E fresh \in SUBSET {j \in Jobs : state[j] = "absent"} :
                state' = [j \in Jobs |-> IF j \in fresh THEN "pending" ELSE state[j]]
      BY <1>4 DEF QueueSwaps
    <2>3. state' \in [Jobs -> JobStates]
      BY <1>0, <2>2 DEF CoreType, JobStates, Active, PreMutation
    <2>4. \A k \in Jobs : state'[k] = state[k] \/ (state[k] = "absent" /\ state'[k] = "pending")
      BY <2>2
    <2>5. \A k \in Jobs : state[k] = "absent" => ~ called[k]
      BY DEF SwapInv, CalledIsBehind
    <2>6. \A k \in Jobs : (JobStays(k) \/ JobSettles(k)) /\ CalledStays(k)
      BY <2>1, <2>4, <2>5 DEF JobStays, JobSettles, CalledStays, Settled
    <2>7. pc' \in [Workers -> {"idle", "started", "claiming"} \cup WithJob]
      BY <1>0, <2>1 DEF CoreType
    <2>8. \A v \in Workers : WorkerStays(v) \/ WorkerOutside(v)
      BY <1>0, <2>1 DEF CoreType, WorkerStays, WorkerOutside, WithJob
    <2>. QED
      BY <1>0, <1>1, <2>1, <2>3, <2>6, <2>7, <2>8 DEF CoreType
  <1>5. CASE ClaimNothing(w)
    <2>1. Leave(w) /\ called' = called /\ state' = Recovered
          /\ token' = [k \in Jobs |-> IF Expired(k) THEN None ELSE token[k]]
      BY <1>5 DEF ClaimNothing
    <2>2. state' \in [Jobs -> JobStates] /\ token' \in [Jobs -> Tokens \cup {None}]
      BY <1>0, <2>1 DEF CoreType, Recovered, JobStates, Active, PreMutation
    <2>3. \A k \in Jobs : Expired(k) => state[k] = "running" /\ ~ called[k]
      BY DEF SwapInv, CalledIsBehind, PreMutation, Expired
    <2>4. \A k \in Jobs : (JobStays(k) \/ JobSettles(k)) /\ CalledStays(k)
      BY <2>1, <2>3 DEF Recovered, JobStays, JobSettles, CalledStays, Settled
    <2>. QED
      BY <1>0, <1>1, <2>1, <2>2, <2>4, LeaveOutside DEF CoreType
  <1>6. CASE Revalidate(w)
    <2>1. /\ UNCHANGED <<state, token, called, job, held>> /\ pc' = [pc EXCEPT ![w] = "checked"]
          /\ pc[w] = "context"
      BY <1>6 DEF Revalidate, jobVars
    <2>2. pc' \in [Workers -> {"idle", "started", "claiming"} \cup WithJob]
      BY <1>0, <2>1 DEF CoreType, WithJob
    <2>3. job[w] \in Jobs
      BY <1>0, <2>1 DEF JobKnown, WithJob
    <2>4. \A v \in Workers : WorkerStays(v) \/ WorkerOutside(v)
      BY <1>0, <2>1, <2>3 DEF CoreType, WorkerStays, WorkerOutside
    <2>. QED
      BY <1>0, <1>1, <2>1, <2>2, <2>4, JobsStay, WorkersStay DEF CoreType
  <1>7. CASE Refuse(w)
    <2>1. Leave(w) /\ StillRunning(w)
          /\ \E to \in {"pending", "blocked"}, wait \in {now + DEFER, Never} : Settle(job[w], to, wait)
      BY <1>7 DEF Refuse, MayEnter
    <2>2. job[w] \in Jobs => state[job[w]] = "running" /\ ~ called[job[w]]
      BY <2>1 DEF SwapInv, CalledIsBehind, PreMutation, StillRunning
    <2>3. PICK to \in {"pending", "blocked"}, wait \in {now + DEFER, Never} : Settle(job[w], to, wait)
      BY <2>1
    <2>4. to \in Settled
      BY DEF Settled
    <2>. QED
      BY <1>0, <1>1, <2>1, <2>2, <2>3, <2>4, LeaveOutside, SettleOutside
  <1>8. CASE ReadContext(w)
    <2>0. pc[w] = "claimed" /\ job[w] \in Jobs
      BY <1>0, <1>8 DEF ReadContext, JobKnown, WithJob
    <2>1. CASE pc' = [pc EXCEPT ![w] = "context"] /\ held' = [held EXCEPT ![w] = token[job[w]]]
               /\ UNCHANGED <<jobVars, job>>
      <3>1. /\ pc' \in [Workers -> {"idle", "started", "claiming"} \cup WithJob]
            /\ held' \in [Workers -> Tokens \cup {None}]
        BY <1>0, <2>0, <2>1 DEF CoreType, WithJob
      <3>2. \A v \in Workers : WorkerStays(v) \/ WorkerOutside(v)
        BY <1>0, <2>0, <2>1 DEF CoreType, WorkerStays, WorkerOutside
      <3>. QED
        BY <1>0, <1>1, <2>1, <3>1, <3>2, JobsStay DEF CoreType, jobVars
    <2>2. CASE Leave(w) /\ OwnsPreMutation(w) /\ Settle(job[w], "blocked", Never)
      <3>1. state[job[w]] # "mutating" /\ "blocked" \in Settled
        BY <2>2 DEF OwnsPreMutation, PreMutation, Settled
      <3>. QED
        BY <1>0, <1>1, <2>2, <3>1, LeaveOutside, SettleOutside
    <2>3. CASE Leave(w) /\ UNCHANGED jobVars
      BY <1>0, <1>1, <2>3, LeaveOutside, JobsStay DEF jobVars
    <2>. QED
      BY <1>8, <2>1, <2>2, <2>3 DEF ReadContext
  <1>9. ASSUME NEW needsOperator \in BOOLEAN, FailsBefore(w, needsOperator) PROVE SwapInv'
    <2>1. CASE Leave(w) /\ UNCHANGED jobVars
      BY <1>0, <1>1, <2>1, LeaveOutside, JobsStay DEF jobVars
    <2>2. CASE Leave(w) /\ OwnsPreMutation(w)
               /\ \E to \in {"pending", "blocked"} : Settle(job[w], to, Never)
      <3>1. PICK to \in {"pending", "blocked"} : Settle(job[w], to, Never)
        BY <2>2
      <3>2. job[w] \in Jobs => state[job[w]] # "mutating" /\ ~ called[job[w]]
        BY <2>2 DEF SwapInv, CalledIsBehind, OwnsPreMutation, PreMutation
      <3>3. to \in Settled
        BY DEF Settled
      <3>. QED
        BY <1>0, <1>1, <2>2, <3>1, <3>2, <3>3, LeaveOutside, SettleOutside
    <2>. QED
      BY <1>9, <2>1, <2>2 DEF FailsBefore
  <1>10. CASE EndCycle(w) \/ Crash(w)
    <2>1. Leave(w) /\ UNCHANGED jobVars
      BY <1>10 DEF EndCycle, Crash
    <2>. QED
      BY <1>0, <1>1, <2>1, LeaveOutside, JobsStay DEF jobVars
  <1>. QED
    BY <1>2, <1>3, <1>4, <1>5, <1>6, <1>7, <1>8, <1>9, <1>10

-----------------------------------------------------------------------------
\* A claim: no other job of the subscription is claimed or behind the fence,
\* and nobody holds the new token.
LEMMA ClaimStep ==
    ASSUME SwapInv, NEW w \in Workers, NEW j \in Jobs, Claim(w, j)
    PROVE  SwapInv'
  <1>0. /\ CoreType /\ JobKnown /\ OneAtATime /\ FencedCalls /\ AppliedHeld /\ CalledIsBehind
        /\ pc[w] = "claiming" /\ Claimable(j)
    BY DEF SwapInv, Claim
  <1>1. FreshToken \in Tokens /\ FreshToken \notin UsedTokens
    BY FreshTokenFresh DEF Claim
  <1>2. \A k \in Jobs : state'[k] = IF k = j THEN "running" ELSE IF Expired(k) THEN "pending" ELSE state[k]
    BY DEF Claim, Recovered
  <1>3. \A k \in Jobs : token'[k] = IF k = j THEN FreshToken ELSE IF Expired(k) THEN None ELSE token[k]
    BY DEF Claim
  <1>4. called' = called
    BY DEF Claim
  <1>5. \A v \in Workers :
          /\ pc'[v] = IF v = w THEN "claimed" ELSE pc[v]
          /\ job'[v] = IF v = w THEN j ELSE job[v]
          /\ held'[v] = IF v = w THEN FreshToken ELSE held[v]
    BY <1>0 DEF Claim, CoreType
  <1>6. state[j] \in PreMutation
    BY <1>0 DEF Claimable, Recovered, Expired, PreMutation
  <1>7. \A k \in Jobs \ {j} : state'[k] \notin {"running"} \cup Mutation
    BY <1>0, <1>2 DEF Claimable, Recovered
  <1>8. CoreType'
    <2>1. state' \in [Jobs -> JobStates]
      BY <1>0 DEF Claim, Recovered, CoreType, JobStates, Active, PreMutation
    <2>2. token' \in [Jobs -> Tokens \cup {None}]
      BY <1>0, <1>1 DEF Claim, CoreType
    <2>3. pc' \in [Workers -> {"idle", "started", "claiming"} \cup WithJob]
      BY <1>0 DEF Claim, CoreType, WithJob
    <2>4. job' \in [Workers -> 0 .. MaxJobs]
      BY <1>0, SwapAssumption DEF Claim, CoreType, Jobs
    <2>5. held' \in [Workers -> Tokens \cup {None}]
      BY <1>0, <1>1 DEF Claim, CoreType
    <2>. QED
      BY <1>0, <1>4, <2>1, <2>2, <2>3, <2>4, <2>5 DEF CoreType
  <1>9. JobKnown'
    BY <1>0, <1>5 DEF JobKnown
  <1>10. OneAtATime'
    BY <1>7 DEF OneAtATime
  <1>11. FencedCalls'
    <2>1. \A v \in Workers : pc[v] = "calling" => job[v] \in Jobs /\ state[job[v]] = "mutating"
      BY <1>0 DEF FencedCalls, JobKnown, WithJob
    <2>2. \A v \in Workers : pc[v] = "calling" =>
            job[v] # j /\ Recovered[job[v]] = "mutating"
      BY <1>6, <2>1 DEF PreMutation, Recovered, Expired
    <2>3. \A v \in Workers : pc[v] # "calling"
      BY <1>0, <2>1, <2>2 DEF Claimable, Mutation
    <2>. QED
      BY <1>5, <2>3 DEF FencedCalls
  <1>12. AppliedHeld'
    <2>. SUFFICES ASSUME NEW v \in Workers, pc'[v] = "applied"
                  PROVE  /\ held'[v] # None
                         /\ token'[job'[v]] = held'[v]
                            => state'[job'[v]] \in {"provider_applied", "reconciliation_required"}
      BY DEF AppliedHeld
    <2>1. v # w /\ pc[v] = "applied" /\ job'[v] = job[v] /\ held'[v] = held[v]
      BY <1>5
    <2>2. job[v] \in Jobs /\ held[v] # None
      BY <1>0, <2>1 DEF JobKnown, WithJob, AppliedHeld
    <2>3. held[v] # FreshToken
      BY <1>1 DEF UsedTokens
    <2>4. CASE job[v] = j \/ Expired(job[v])
      BY <1>3, <2>1, <2>2, <2>3, <2>4
    <2>5. CASE job[v] # j /\ ~ Expired(job[v])
      BY <1>0, <1>2, <1>3, <2>1, <2>2, <2>5 DEF AppliedHeld
    <2>. QED
      BY <2>4, <2>5
  <1>13. CalledIsBehind'
    <2>1. \A k \in Jobs : called[k] => k # j /\ ~ Expired(k)
      BY <1>0, <1>6 DEF CalledIsBehind, Expired, PreMutation
    <2>. QED
      BY <1>0, <1>2, <1>4, <2>1 DEF CalledIsBehind
  <1>. QED
    BY <1>8, <1>9, <1>10, <1>11, <1>12, <1>13 DEF SwapInv

\* The fence: the job is running, so no other worker is calling.
LEMMA EnterStep ==
    ASSUME SwapInv, NEW w \in Workers, EnterMutation(w)
    PROVE  SwapInv'
  <1>0. CoreType /\ JobKnown /\ OneAtATime /\ FencedCalls /\ AppliedHeld /\ CalledIsBehind
    BY DEF SwapInv
  <1>1. /\ job[w] \in Jobs /\ state[job[w]] = "running" /\ held[w] # None
        /\ token[job[w]] = held[w] /\ pc[w] = "checked"
    BY <1>0 DEF EnterMutation, MayEnter, StillRunning, JobKnown, WithJob
  <1>2. /\ UNCHANGED <<token, job, held>>
        /\ state' = [state EXCEPT ![job[w]] = "mutating"]
        /\ called' = [called EXCEPT ![job[w]] = TRUE]
        /\ pc' = [pc EXCEPT ![w] = "calling"]
    BY DEF EnterMutation
  <1>3. CoreType'
    BY <1>0, <1>2 DEF CoreType, JobStates, Active, Mutation, WithJob
  <1>4. \A k \in Jobs : /\ state'[k] = IF k = job[w] THEN "mutating" ELSE state[k]
                        /\ called'[k] = IF k = job[w] THEN TRUE ELSE called[k]
    BY <1>0, <1>2 DEF CoreType
  <1>5. \A v \in Workers : pc'[v] = IF v = w THEN "calling" ELSE pc[v]
    BY <1>0, <1>2 DEF CoreType
  <1>6. \A v \in Workers : pc[v] # "calling"
    <2>. SUFFICES ASSUME NEW v \in Workers, pc[v] = "calling" PROVE FALSE
      OBVIOUS
    <2>1. job[v] \in Jobs /\ state[job[v]] = "mutating"
      BY <1>0 DEF JobKnown, WithJob, FencedCalls
    <2>. QED
      BY <1>0, <1>1, <2>1 DEF OneAtATime, Mutation
  <1>7. JobKnown'
    BY <1>0, <1>1, <1>2, <1>5 DEF JobKnown, WithJob
  <1>8. OneAtATime'
    BY <1>0, <1>1, <1>4 DEF OneAtATime
  <1>9. FencedCalls'
    <2>1. \A v \in Workers : pc'[v] = "calling" => v = w
      BY <1>5, <1>6
    <2>2. state'[job'[w]] = "mutating" /\ held'[w] # None /\ token'[job'[w]] = held'[w]
      BY <1>1, <1>2, <1>4
    <2>. QED
      BY <2>1, <2>2 DEF FencedCalls
  <1>10. AppliedHeld'
    <2>. SUFFICES ASSUME NEW v \in Workers, pc'[v] = "applied"
                  PROVE  /\ held[v] # None
                         /\ token[job[v]] = held[v]
                            => state'[job[v]] \in {"provider_applied", "reconciliation_required"}
      BY <1>2 DEF AppliedHeld
    <2>1. pc[v] = "applied" /\ job[v] \in Jobs
      BY <1>0, <1>5 DEF JobKnown, WithJob
    <2>. QED
      BY <1>0, <1>1, <1>4, <2>1 DEF AppliedHeld
  <1>11. CalledIsBehind'
    BY <1>0, <1>4 DEF CalledIsBehind, PreMutation
  <1>. QED
    BY <1>3, <1>7, <1>8, <1>9, <1>10, <1>11 DEF SwapInv

\* The answer is recorded: the caller was the only one.
LEMMA AppliedStep ==
    ASSUME SwapInv, NEW w \in Workers, ProviderApplied(w)
    PROVE  SwapInv'
  <1>0. CoreType /\ JobKnown /\ OneAtATime /\ FencedCalls /\ AppliedHeld /\ CalledIsBehind
    BY DEF SwapInv
  <1>1. /\ job[w] \in Jobs /\ state[job[w]] = "mutating" /\ held[w] # None
        /\ token[job[w]] = held[w] /\ pc[w] = "calling"
    BY <1>0 DEF ProviderApplied, FencedCalls, JobKnown, WithJob
  <1>2. /\ UNCHANGED <<token, called, job, held>>
        /\ state' = [state EXCEPT ![job[w]] = "provider_applied"]
        /\ pc' = [pc EXCEPT ![w] = "applied"]
    BY DEF ProviderApplied
  <1>3. CoreType'
    BY <1>0, <1>2 DEF CoreType, JobStates, Active, Mutation, WithJob
  <1>4. \A k \in Jobs : state'[k] = IF k = job[w] THEN "provider_applied" ELSE state[k]
    BY <1>0, <1>2 DEF CoreType
  <1>5. \A v \in Workers : pc'[v] = IF v = w THEN "applied" ELSE pc[v]
    BY <1>0, <1>2 DEF CoreType
  <1>6. JobKnown'
    BY <1>0, <1>1, <1>2, <1>5 DEF JobKnown, WithJob
  <1>7. OneAtATime'
    BY <1>0, <1>1, <1>4 DEF OneAtATime, Mutation
  <1>8. FencedCalls'
    BY <1>0, <1>1, <1>5 DEF FencedCalls
  <1>9. AppliedHeld'
    <2>. SUFFICES ASSUME NEW v \in Workers, pc'[v] = "applied"
                  PROVE  /\ held[v] # None
                         /\ token[job[v]] = held[v]
                            => state'[job[v]] \in {"provider_applied", "reconciliation_required"}
      BY <1>2 DEF AppliedHeld
    <2>1. CASE v = w
      BY <1>1, <1>4, <2>1
    <2>2. CASE v # w
      <3>1. pc[v] = "applied" /\ job[v] \in Jobs
        BY <1>0, <1>5, <2>2 DEF JobKnown, WithJob
      <3>. QED
        BY <1>0, <1>4, <3>1 DEF AppliedHeld
    <2>. QED
      BY <2>1, <2>2
  <1>10. CalledIsBehind'
    BY <1>0, <1>2, <1>4 DEF CalledIsBehind, PreMutation
  <1>. QED
    BY <1>3, <1>6, <1>7, <1>8, <1>9, <1>10 DEF SwapInv

\* A failure behind the fence leaves the job for reconciliation.
LEMMA UncertainStep ==
    ASSUME SwapInv, NEW w \in Workers, Uncertain(w)
    PROVE  SwapInv'
  <1>0. CoreType /\ JobKnown /\ OneAtATime /\ FencedCalls /\ AppliedHeld /\ CalledIsBehind
    BY DEF SwapInv
  <1>1. pc[w] \in {"calling", "applied"} /\ job[w] \in Jobs /\ Leave(w)
        /\ UNCHANGED <<token, called>>
    BY <1>0 DEF Uncertain, JobKnown, WithJob
  <1>2. CASE state' = state
    <2>1. UNCHANGED <<state, token, called>>
      BY <1>1, <1>2
    <2>. QED
      BY <1>0, <1>1, <2>1, LeaveOutside, JobsStay, OutsideStep DEF CoreType
  <1>3. CASE /\ state[job[w]] \in Mutation /\ token[job[w]] = held[w]
             /\ state' = [state EXCEPT ![job[w]] = "reconciliation_required"]
    <2>1. \A k \in Jobs : state'[k] = IF k = job[w] THEN "reconciliation_required" ELSE state[k]
      BY <1>0, <1>3 DEF CoreType
    <2>2. pc'[w] = "idle" /\ \A v \in Workers : v # w => WorkerStays(v)
      BY <1>0, <1>1, LeaveOutside
    <2>3. CoreType'
      <3>1. state' \in [Jobs -> JobStates]
        BY <1>0, <1>3 DEF CoreType, JobStates, Active, Mutation
      <3>. QED
        BY <1>0, <1>1, <3>1, LeaveOutside DEF CoreType
    <2>4. JobKnown'
      BY <1>0, <2>2 DEF JobKnown, WithJob, WorkerStays
    <2>5. OneAtATime'
      BY <1>0, <1>1, <1>3, <2>1 DEF OneAtATime
    <2>6. FencedCalls'
      <3>. SUFFICES ASSUME NEW v \in Workers, pc'[v] = "calling"
                    PROVE  /\ state'[job'[v]] = "mutating"
                           /\ held'[v] # None
                           /\ token'[job'[v]] = held'[v]
                           /\ \A u \in Workers : pc'[u] = "calling" => u = v
        BY DEF FencedCalls
      <3>1. v # w /\ pc[v] = "calling" /\ job'[v] = job[v] /\ held'[v] = held[v]
        BY <2>2 DEF WorkerStays
      <3>2. pc[w] = "applied"
        BY <1>0, <1>1, <3>1 DEF FencedCalls
      <3>3. job[v] \in Jobs /\ state[job[v]] = "mutating"
        BY <1>0, <3>1 DEF JobKnown, WithJob, FencedCalls
      <3>4. job[v] # job[w]
        BY <1>0, <1>3, <3>2, <3>3 DEF AppliedHeld
      <3>5. \A u \in Workers : pc'[u] = "calling" => u = v
        BY <1>0, <2>2, <3>1 DEF FencedCalls, WorkerStays
      <3>. QED
        BY <1>0, <1>1, <2>1, <3>1, <3>3, <3>4, <3>5 DEF FencedCalls
    <2>7. AppliedHeld'
      <3>. SUFFICES ASSUME NEW v \in Workers, pc'[v] = "applied"
                    PROVE  /\ held'[v] # None
                           /\ token'[job'[v]] = held'[v]
                              => state'[job'[v]] \in {"provider_applied", "reconciliation_required"}
        BY DEF AppliedHeld
      <3>1. pc[v] = "applied" /\ job'[v] = job[v] /\ held'[v] = held[v] /\ job[v] \in Jobs
        BY <1>0, <2>2 DEF WorkerStays, JobKnown, WithJob
      <3>. QED
        BY <1>0, <1>1, <2>1, <3>1 DEF AppliedHeld
    <2>8. CalledIsBehind'
      BY <1>0, <1>1, <2>1 DEF CalledIsBehind, PreMutation
    <2>. QED
      BY <2>3, <2>4, <2>5, <2>6, <2>7, <2>8 DEF SwapInv
  <1>. QED
    BY <1>2, <1>3 DEF Uncertain

-----------------------------------------------------------------------------
\* The provider, administrators, readers and the clock.
LEMMA EnvironmentStep ==
    ASSUME SwapInv,
           \/ ProviderStep \/ AdminStep \/ ReaderStep \/ Tick
           \/ \E e \in Assignments : Qualify(e)
    PROVE  SwapInv'
  <1>0. CoreType
    BY DEF SwapInv
  <1>1. ASSUME \A k \in Jobs : (JobStays(k) \/ JobSettles(k)) /\ CalledStays(k),
               state' \in [Jobs -> JobStates],
               token' \in [Jobs -> Tokens \cup {None}],
               called' \in [Jobs -> BOOLEAN],
               \A v \in Workers : WorkerStays(v) \/ WorkerOutside(v),
               pc' \in [Workers -> {"idle", "started", "claiming"} \cup WithJob],
               job' \in [Workers -> 0 .. MaxJobs],
               held' \in [Workers -> Tokens \cup {None}]
        PROVE  SwapInv'
    BY <1>1, OutsideStep DEF CoreType
  <1>2. CASE UNCHANGED <<state, token, called, pc, job, held>>
    BY <1>0, <1>1, <1>2, JobsStay, WorkersStay
  <1>3. ASSUME NEW j \in Jobs, Cancel(j) PROVE SwapInv'
    <2>1. /\ Settle(j, "canceled", Never) /\ UNCHANGED <<pc, job, held>>
          /\ state[j] # "mutating" /\ "canceled" \in Settled
      BY <1>3 DEF Cancel, workerVars, PreMutation, Settled
    <2>. QED
      BY <1>0, <1>1, <2>1, SettleOutside, WorkersStay
  <1>4. ASSUME NEW j \in Jobs, Retry(j) PROVE SwapInv'
    <2>1. Requeue(j) /\ UNCHANGED <<pc, job, held>> /\ state[j] # "mutating"
      BY <1>4 DEF Retry, workerVars
    <2>. QED
      BY <1>0, <1>1, <2>1, RequeueOutside, WorkersStay
  <1>5. ASSUME NEW j \in Jobs, NEW w \in Workers, RequestManual(w, j) PROVE SwapInv'
    <2>1. /\ Requeue(j) /\ state[j] # "mutating" /\ held' = held
          /\ pc' = [pc EXCEPT ![w] = "claiming"] /\ job' = [job EXCEPT ![w] = j]
      BY <1>5 DEF RequestManual
    <2>2. pc' \in [Workers -> {"idle", "started", "claiming"} \cup WithJob]
      BY <1>0, <2>1 DEF CoreType
    <2>3. job' \in [Workers -> 0 .. MaxJobs]
      BY <1>0, <2>1, SwapAssumption DEF CoreType, Jobs
    <2>4. \A v \in Workers : WorkerStays(v) \/ WorkerOutside(v)
      BY <1>0, <2>1 DEF CoreType, WorkerStays, WorkerOutside, WithJob
    <2>5. held' \in [Workers -> Tokens \cup {None}]
      BY <1>0, <2>1 DEF CoreType
    <2>. QED
      BY <1>0, <1>1, <2>1, <2>2, <2>3, <2>4, <2>5, RequeueOutside
  <1>6. ASSUME NEW x \in Readers, Close(x) PROVE SwapInv'
    <2>1. CASE /\ state[snap[x].job] = "reconciliation_required"
               /\ Settle(snap[x].job, "blocked", Never) /\ UNCHANGED <<pc, job, held>>
      <3>1. state[snap[x].job] # "mutating" /\ "blocked" \in Settled
        BY <2>1 DEF Settled
      <3>. QED
        BY <1>0, <1>1, <2>1, <3>1, SettleOutside, WorkersStay
    <2>2. CASE UNCHANGED <<state, token, called, pc, job, held>>
      BY <1>2, <2>2
    <2>. QED
      BY <1>6, <2>1, <2>2 DEF Close, jobVars, workerVars
  <1>7. ASSUME NEW x \in Readers, Finish(x) PROVE SwapInv'
    <2>1. CASE /\ Confirmed(snap[x].job) /\ Succeed(snap[x].job)
               /\ UNCHANGED <<pc, job, held>>
      <3>1. /\ state' = [state EXCEPT ![snap[x].job] = "success"]
            /\ token' = [token EXCEPT ![snap[x].job] = None]
            /\ called' = called /\ state[snap[x].job] # "mutating"
        BY <2>1 DEF Succeed, Confirmed
      <3>2. \A k \in Jobs : /\ state'[k] = IF k = snap[x].job THEN "success" ELSE state[k]
                            /\ token'[k] = IF k = snap[x].job THEN None ELSE token[k]
        BY <1>0, <3>1 DEF CoreType
      <3>3. state' \in [Jobs -> JobStates] /\ token' \in [Jobs -> Tokens \cup {None}]
        BY <1>0, <3>1 DEF CoreType, JobStates
      <3>4. \A k \in Jobs : (JobStays(k) \/ JobSettles(k)) /\ CalledStays(k)
        BY <3>1, <3>2 DEF JobStays, JobSettles, CalledStays, Settled
      <3>5. called' \in [Jobs -> BOOLEAN]
        BY <1>0, <3>1 DEF CoreType
      <3>. QED
        BY <1>0, <1>1, <2>1, <3>3, <3>4, <3>5, WorkersStay
    <2>2. CASE UNCHANGED <<state, token, called, pc, job, held>>
      BY <1>2, <2>2
    <2>. QED
      BY <1>7, <2>1, <2>2 DEF Finish, jobVars, workerVars
  <1>8. CASE ProviderStep
    <2>1. UNCHANGED <<state, token, called, pc, job, held>>
      BY <1>8 DEF ProviderStep, ProviderSwaps, ProviderRefuses, LateSwap, jobVars, workerVars
    <2>. QED
      BY <1>2, <2>1
  <1>9. CASE AdminStep
    <2>1. ASSUME NEW g \in Gates, SetGate(g) PROVE SwapInv'
      BY <1>2, <2>1 DEF SetGate, jobVars, workerVars
    <2>. QED
      BY <1>3, <1>4, <1>5, <1>9, <2>1 DEF AdminStep
  <1>10. CASE ReaderStep
    <2>1. CASE SyncStore \/ SyncFinish \/ DashArrives \/ DashStore
      BY <1>2, <2>1 DEF SyncStore, SyncFinish, DashArrives, DashStore, jobVars, workerVars
    <2>2. ASSUME NEW x \in Readers, Fetch(x) \/ ReaderStops(x) \/ Select(x) \/ Examine(x) \/ Infer(x)
          PROVE  SwapInv'
      BY <1>2, <2>2 DEF Fetch, ReaderStops, Select, Examine, Infer, jobVars, workerVars
    <2>. QED
      BY <1>6, <1>7, <1>10, <2>1, <2>2 DEF ReaderStep
  <1>11. CASE Tick \/ \E e \in Assignments : Qualify(e)
    BY <1>2, <1>11 DEF Tick, Qualify, jobVars, workerVars
  <1>. QED
    BY <1>8, <1>9, <1>10, <1>11

\* Every step of the specification preserves the invariant.
LEMMA SwapStep == SwapInv /\ [Next]_vars => SwapInv'
  <1>. SUFFICES ASSUME SwapInv, [Next]_vars PROVE SwapInv'
    OBVIOUS
  <1>1. CASE UNCHANGED vars
    BY <1>1 DEF vars, jobVars, workerVars, SwapInv, CoreType, JobKnown, OneAtATime, FencedCalls,
                AppliedHeld, CalledIsBehind
  <1>2. ASSUME NEW w \in Workers, WorkerStep(w) PROVE SwapInv'
    BY <1>2, WorkerOutsideStep, ClaimStep, EnterStep, AppliedStep, UncertainStep DEF WorkerStep
  <1>. QED
    BY <1>1, <1>2, EnvironmentStep DEF Next

\* At most one job of the subscription is claimed, mutating or unresolved, for
\* any number of jobs, workers, administrators and expired leases.
THEOREM SwapOneAtATime == Spec => []OneAtATime
  <1>1. SwapInv => OneAtATime
    BY DEF SwapInv
  <1>. QED
    BY <1>1, SwapInit, SwapStep, PTL DEF Spec

\* A provider call is made by one worker at a time, about a job behind the
\* fence under that worker's own claim (revalidate_swap_job).
THEOREM SwapFencedCalls == Spec => []FencedCalls
  <1>1. SwapInv => FencedCalls
    BY DEF SwapInv
  <1>. QED
    BY <1>1, SwapInit, SwapStep, PTL DEF Spec

-----------------------------------------------------------------------------
\* No job enters the fence in this step.
NoneEnters == \A k \in Jobs : state'[k] = "mutating" => state[k] = "mutating"

\* Settling and requeueing a job is no way into the fence.
LEMMA SettleEnters ==
    ASSUME CoreType, NEW j, NEW to \in Settled, NEW wait, Settle(j, to, wait)
    PROVE  NoneEnters
  BY DEF CoreType, Settle, Settled, NoneEnters

LEMMA RequeueEnters ==
    ASSUME CoreType, NEW j, Requeue(j)
    PROVE  NoneEnters
  BY DEF CoreType, Requeue, NoneEnters

\* Nor is any step of a worker but EnterMutation.
LEMMA WorkerEnters ==
    ASSUME CoreType, NEW w \in Workers, WorkerStep(w), ~ EnterMutation(w)
    PROVE  NoneEnters
  <1>1. CASE state' = state
    BY <1>1 DEF NoneEnters
  <1>2. CASE StartCycle(w) \/ NoSession(w) \/ Revalidate(w) \/ EndCycle(w) \/ Crash(w)
    BY <1>1, <1>2 DEF StartCycle, NoSession, Revalidate, EndCycle, Crash, jobVars
  <1>3. CASE QueueSwaps(w)
    <2>1. \/ state' = state
          \/ \E fresh \in SUBSET Jobs :
                state' = [j \in Jobs |-> IF j \in fresh THEN "pending" ELSE state[j]]
      BY <1>3 DEF QueueSwaps
    <2>. QED
      BY <2>1 DEF NoneEnters
  <1>4. ASSUME NEW j \in Jobs, Claim(w, j) PROVE NoneEnters
    BY <1>4 DEF Claim, Recovered, NoneEnters
  <1>5. CASE ClaimNothing(w)
    BY <1>5 DEF ClaimNothing, Recovered, NoneEnters
  <1>6. CASE ReadContext(w)
    <2>1. state' = state \/ Settle(job[w], "blocked", Never)
      BY <1>6 DEF ReadContext, jobVars
    <2>. QED
      BY <1>1, <2>1, SettleEnters DEF Settled
  <1>7. CASE Refuse(w)
    <2>1. Settle(job[w], "pending", now + DEFER) \/ Settle(job[w], "blocked", Never)
      BY <1>7 DEF Refuse
    <2>. QED
      BY <2>1, SettleEnters DEF Settled
  <1>8. ASSUME NEW needsOperator \in BOOLEAN, FailsBefore(w, needsOperator) PROVE NoneEnters
    <2>1. state' = state \/ \E to \in {"pending", "blocked"} : Settle(job[w], to, Never)
      BY <1>8 DEF FailsBefore, jobVars
    <2>. QED
      BY <1>1, <2>1, SettleEnters DEF Settled
  <1>9. CASE ProviderApplied(w)
    BY <1>9 DEF ProviderApplied, CoreType, NoneEnters
  <1>10. CASE Uncertain(w)
    BY <1>10 DEF Uncertain, CoreType, NoneEnters
  <1>. QED
    BY <1>2, <1>3, <1>4, <1>5, <1>6, <1>7, <1>8, <1>9, <1>10 DEF WorkerStep

\* Nor is any step of the others.
LEMMA EnvironmentEnters ==
    ASSUME CoreType,
           \/ ProviderStep \/ AdminStep \/ ReaderStep \/ Tick
           \/ \E e \in Assignments : Qualify(e)
    PROVE  NoneEnters
  <1>1. CASE state' = state
    BY <1>1 DEF NoneEnters
  <1>2. CASE ProviderStep \/ Tick \/ \E e \in Assignments : Qualify(e)
    BY <1>1, <1>2 DEF ProviderStep, ProviderSwaps, ProviderRefuses, LateSwap, Tick, Qualify, jobVars
  <1>3. CASE AdminStep
    <2>1. \/ state' = state
          \/ \E j \in Jobs : Settle(j, "canceled", Never) \/ Requeue(j)
      BY <1>3 DEF AdminStep, Cancel, Retry, RequestManual, SetGate, jobVars
    <2>. QED
      BY <1>1, <2>1, SettleEnters, RequeueEnters DEF Settled
  <1>4. CASE ReaderStep
    <2>1. CASE SyncStore \/ SyncFinish \/ DashArrives \/ DashStore
      BY <1>1, <2>1 DEF SyncStore, SyncFinish, DashArrives, DashStore, jobVars
    <2>2. ASSUME NEW x \in Readers, Fetch(x) \/ ReaderStops(x) \/ Select(x) \/ Examine(x) \/ Infer(x)
          PROVE  NoneEnters
      BY <1>1, <2>2 DEF Fetch, ReaderStops, Select, Examine, Infer, jobVars
    <2>3. ASSUME NEW x \in Readers, Close(x) PROVE NoneEnters
      <3>1. state' = state \/ Settle(snap[x].job, "blocked", Never)
        BY <2>3 DEF Close, jobVars
      <3>. QED
        BY <1>1, <3>1, SettleEnters DEF Settled
    <2>4. ASSUME NEW x \in Readers, Finish(x) PROVE NoneEnters
      <3>1. state' = state \/ state' = [state EXCEPT ![snap[x].job] = "success"]
        BY <2>4 DEF Finish, Succeed, jobVars
      <3>. QED
        BY <1>1, <3>1 DEF CoreType, NoneEnters
    <2>. QED
      BY <1>4, <2>1, <2>2, <2>3, <2>4 DEF ReaderStep
  <1>. QED
    BY <1>2, <1>3, <1>4

\* No mutation is sent a second time unless an administrator requeued the job:
\* crashes, timeouts, expired leases and reconciliation never lead back.
THEOREM SwapNeverRecalled == Spec => NeverRecalled
  <1>1. SwapInv /\ [Next]_vars
        => [\A j \in Jobs : state[j] # "mutating" /\ state'[j] = "mutating" => ~ called[j]]_vars
    <2>. SUFFICES ASSUME SwapInv, Next, NEW j \in Jobs, state[j] # "mutating", state'[j] = "mutating"
                  PROVE  ~ called[j]
      OBVIOUS
    <2>0. CoreType /\ ~ NoneEnters
      BY DEF SwapInv, NoneEnters
    <2>1. PICK w \in Workers : EnterMutation(w)
      BY <2>0, WorkerEnters, EnvironmentEnters DEF Next
    <2>2. state[job[w]] = "running" /\ state' = [state EXCEPT ![job[w]] = "mutating"]
      BY <2>1 DEF EnterMutation, MayEnter, StillRunning
    <2>3. state[j] = "running"
      BY <2>0, <2>2 DEF CoreType
    <2>. QED
      BY <2>3 DEF SwapInv, CalledIsBehind, PreMutation
  <1>. QED
    BY <1>1, SwapInit, SwapStep, PTL DEF Spec, NeverRecalled
-----------------------------------------------------------------------------
(***************************************************************************)
(* Type correctness.  TypeOK is not inductive by itself: which row a job   *)
(* names behind the fence, which request the provider still has, and which *)
(* job a reader examines have to be known too.                             *)
(***************************************************************************)

ClockTypes == now \in 0 .. MaxTime /\ gate \in {"auto", "manual", "paused"}

JobTypes ==
    /\ state \in [Jobs -> JobStates]
    /\ old \in [Jobs -> Assignments \cup {None}]
    /\ token \in [Jobs -> Tokens \cup {None}]
    /\ until \in [Jobs -> Never .. (MaxTime + LEASE + DEFER)]
    /\ attempts \in [Jobs -> 0 .. RETRIES]
    /\ started \in [Jobs -> Times] /\ applied \in [Jobs -> Times]
    /\ new \in [Jobs -> Assignments \cup {None}]
    /\ called \in [Jobs -> BOOLEAN]

RowTypes ==
    /\ known \subseteq Assignments /\ missing \subseteq known /\ risky \subseteq known
    /\ seen \in [Assignments -> Times] /\ dash \in [Assignments -> Times]
    /\ ready \in [Assignments -> Never .. (MaxTime + COOLDOWN)]
    /\ subSeen \in Times

\* A job names a stored row, or none; behind the fence it names one.
Pointed ==
    /\ \A j \in Jobs : state[j] # "success" => old[j] \in known \cup {None}
    /\ \A j \in Jobs : state[j] \in Mutation => old[j] # None

WorkerTypes ==
    /\ pc \in [Workers -> {"idle", "started", "claiming"} \cup WithJob]
    /\ job \in [Workers -> 0 .. MaxJobs]
    /\ held \in [Workers -> Tokens \cup {None}]
    /\ manual \in [Workers -> BOOLEAN]
    /\ answer \in [Workers -> 0 .. MaxVersion]

ProviderTypes ==
    /\ prov \in [Slots -> 0 .. MaxVersion]
    /\ sent \subseteq Workers
    /\ orphans \in [Slots -> Nat]

\* A request is on its way only while its worker waits for it unanswered.
RequestsAwaited ==
    \A w \in Workers :
        /\ w \in sent => pc[w] = "calling" /\ answer[w] = 0
        /\ pc[w] \notin {"calling", "applied"} => answer[w] = 0

Waiting == WorkerTypes /\ ProviderTypes /\ RequestsAwaited

ReaderTypes ==
    /\ rpc \in [Readers -> {"idle", "fetched", "arrived", "stored", "select", "examine", "close", "infer", "finish"}]
    /\ got \in [Readers -> [Slots -> 0 .. MaxVersion]]
    /\ dashAt \in Times
    /\ snap \in [Readers -> [job : 0 .. MaxJobs, state : JobStates \cup {"none"},
                             at : Times, pick : Assignments \cup {None}]]

\* A reader that decides about a job has read one.
SnapsKnown ==
    \A x \in Readers : rpc[x] \in {"examine", "close", "infer", "finish"} => snap[x].job \in Jobs

Reading == ReaderTypes /\ SnapsKnown

ShapeInv ==
    /\ ClockTypes
    /\ JobTypes
    /\ RowTypes
    /\ Pointed
    /\ Waiting
    /\ Reading

\* The arithmetic of SwapAssumption.
LEMMA Bounds ==
    /\ MaxJobs \in Nat /\ MaxVersion \in Nat /\ MaxTime \in Nat
    /\ LEASE \in Nat \ {0} /\ DEFER \in Nat \ {0} /\ COOLDOWN \in Nat
    /\ RETRIES \in Nat \ {0}
    /\ \A j \in Jobs : j \in 0 .. MaxJobs
    /\ \A t \in 0 .. MaxTime : /\ t \in Times
                               /\ t + LEASE \in Never .. (MaxTime + LEASE + DEFER)
                               /\ t + DEFER \in Never .. (MaxTime + LEASE + DEFER)
                               /\ t + COOLDOWN \in Never .. (MaxTime + COOLDOWN)
    /\ Never \in Times
    /\ Never \in Never .. (MaxTime + LEASE + DEFER)
    /\ Never \in Never .. (MaxTime + COOLDOWN)
  BY SwapAssumption DEF Jobs, Times, Never

LEMMA ShapeIsTypeOK == ShapeInv => TypeOK
  BY DEF ShapeInv, ClockTypes, JobTypes, RowTypes, Pointed, Waiting, WorkerTypes, ProviderTypes,
         Reading, ReaderTypes, TypeOK, WithJob

LEMMA ShapeInit == Init => ShapeInv
  <1>. SUFFICES ASSUME Init PROVE ShapeInv
    OBVIOUS
  <1>1. ClockTypes
    BY Bounds DEF Init, ClockTypes
  <1>2. JobTypes
    BY Bounds DEF Init, JobTypes, JobStates
  <1>3. RowTypes
    <2>1. Slots \X {0} \subseteq Assignments
      BY Bounds DEF Assignments
    <2>2. 0 \in Times /\ Never \in Times /\ Never \in Never .. (MaxTime + COOLDOWN)
      BY Bounds
    <2>. QED
      BY <2>1, <2>2 DEF Init, RowTypes
  <1>4. Pointed
    BY DEF Init, Pointed, Mutation
  <1>5. Waiting
    BY Bounds DEF Init, Waiting, WorkerTypes, ProviderTypes, RequestsAwaited
  <1>6. Reading
    BY Bounds DEF Init, Reading, ReaderTypes, SnapsKnown, NoSnap
  <1>. QED
    BY <1>1, <1>2, <1>3, <1>4, <1>5, <1>6 DEF ShapeInv

\* What a step leaves alone keeps its shape.
LEMMA ClockKept == ASSUME ClockTypes, UNCHANGED <<now, gate>> PROVE ClockTypes'
  BY DEF ClockTypes

LEMMA JobsKept == ASSUME JobTypes, UNCHANGED jobVars PROVE JobTypes'
  BY DEF JobTypes, jobVars

LEMMA RowsKept == ASSUME RowTypes, UNCHANGED rowVars PROVE RowTypes'
  BY DEF RowTypes, rowVars

LEMMA PointedKept == ASSUME Pointed, UNCHANGED <<state, old, known>> PROVE Pointed'
  BY DEF Pointed

LEMMA WaitingKept == ASSUME Waiting, UNCHANGED <<workerVars, provVars>> PROVE Waiting'
  BY DEF Waiting, WorkerTypes, ProviderTypes, RequestsAwaited, workerVars, provVars

LEMMA ReadingKept == ASSUME Reading, UNCHANGED readerVars PROVE Reading'
  BY DEF Reading, ReaderTypes, SnapsKnown, readerVars

\* A step that takes no job behind the fence, or out of success, and moves no
\* job to another row.
LEMMA PointedMild ==
    ASSUME Pointed, known' = known,
           \A k \in Jobs :
              /\ old'[k] = old[k] \/ (state[k] = "absent" /\ old'[k] \in known)
              /\ state'[k] \in Mutation => state[k] \in Mutation
              /\ state[k] = "success" => state'[k] = "success"
    PROVE  Pointed'
  BY DEF Pointed, Mutation

\* The clock is in reach of every stamp, and closing the gate keeps its type.
LEMMA PauseKept == ASSUME ClockTypes, now' = now, PauseAuto PROVE ClockTypes'
  BY DEF ClockTypes, PauseAuto

LEMMA LeaveWaiting ==
    ASSUME Waiting, NEW w \in Workers, Leave(w)
    PROVE  Waiting'
  <1>1. WorkerTypes'
    BY Bounds DEF Waiting, WorkerTypes, Leave
  <1>2. ProviderTypes'
    <2>1. orphans' \in [Slots -> Nat]
      BY DEF Waiting, ProviderTypes, Leave
    <2>. QED
      BY <2>1 DEF Waiting, ProviderTypes, Leave
  <1>3. RequestsAwaited'
    BY DEF Waiting, WorkerTypes, RequestsAwaited, Leave
  <1>. QED
    BY <1>1, <1>2, <1>3 DEF Waiting

\* A worker that moves on before the fence.
LEMMA MoveWaiting ==
    ASSUME Waiting, NEW w \in Workers, NEW to \in {"started", "claiming", "claimed", "context", "checked"},
           pc[w] \notin {"calling", "applied"},
           pc' = [pc EXCEPT ![w] = to],
           job' \in [Workers -> 0 .. MaxJobs],
           held' \in [Workers -> Tokens \cup {None}],
           manual' \in [Workers -> BOOLEAN],
           UNCHANGED <<answer, prov, sent, orphans>>
    PROVE  Waiting'
  <1>1. WorkerTypes'
    BY DEF Waiting, WorkerTypes, WithJob
  <1>2. RequestsAwaited'
    BY DEF Waiting, WorkerTypes, RequestsAwaited
  <1>. QED
    BY <1>1, <1>2 DEF Waiting, ProviderTypes

LEMMA SettleShape ==
    ASSUME JobTypes, Pointed, NEW j, NEW to \in {"pending", "blocked", "canceled"},
           NEW wait \in Never .. (MaxTime + LEASE + DEFER),
           Settle(j, to, wait), j \in Jobs => state[j] # "success", known' = known
    PROVE  JobTypes' /\ Pointed'
  <1>1. JobTypes'
    BY DEF JobTypes, Settle, JobStates, Active, PreMutation
  <1>2. \A k \in Jobs : state'[k] = IF k = j THEN to ELSE state[k]
    BY DEF JobTypes, Settle
  <1>. QED
    BY <1>1, <1>2, PointedMild DEF Settle, Mutation

LEMMA RequeueShape ==
    ASSUME JobTypes, Pointed, NEW j \in Jobs, Requeue(j), state[j] # "success", known' = known
    PROVE  JobTypes' /\ Pointed'
  <1>1. JobTypes'
    BY Bounds DEF JobTypes, Requeue, JobStates, Active, PreMutation
  <1>2. \A k \in Jobs : state'[k] = IF k = j THEN "pending" ELSE state[k]
    BY DEF JobTypes, Requeue
  <1>. QED
    BY <1>1, <1>2, PointedMild DEF Requeue, Mutation

LEMMA ReaderEndsShape ==
    ASSUME Reading, NEW x \in Readers, ReaderEnds(x)
    PROVE  Reading'
  <1>1. NoSnap \in [job : 0 .. MaxJobs, state : JobStates \cup {"none"},
                    at : Times, pick : Assignments \cup {None}]
    BY Bounds DEF NoSnap
  <1>2. [d \in Slots |-> 0] \in [Slots -> 0 .. MaxVersion]
    BY Bounds
  <1>3. ReaderTypes'
    BY <1>1, <1>2, Bounds DEF Reading, ReaderTypes, ReaderEnds
  <1>4. SnapsKnown'
    BY DEF Reading, ReaderTypes, SnapsKnown, ReaderEnds
  <1>. QED
    BY <1>3, <1>4 DEF Reading

\* Steps of a worker before the fence, and those that give the job up.
LEMMA WorkerShape ==
    ASSUME SwapInv, ShapeInv, NEW w \in Workers,
           \/ StartCycle(w) \/ NoSession(w) \/ QueueSwaps(w) \/ ClaimNothing(w)
           \/ ReadContext(w) \/ Revalidate(w) \/ Refuse(w)
           \/ \E needsOperator \in BOOLEAN : FailsBefore(w, needsOperator)
           \/ EndCycle(w) \/ Uncertain(w) \/ Crash(w)
    PROVE  ShapeInv'
  <1>0. ClockTypes /\ JobTypes /\ RowTypes /\ Pointed /\ Waiting /\ Reading /\ WorkerTypes
    BY DEF ShapeInv, Waiting
  <1>a. now \in 0 .. MaxTime
    BY <1>0 DEF ClockTypes
  <1>1. CASE StartCycle(w)
    <2>1. Waiting'
      BY <1>0, <1>1, MoveWaiting DEF StartCycle, WorkerTypes, provVars
    <2>. QED
      BY <1>0, <1>1, <2>1, ClockKept, JobsKept, RowsKept, PointedKept, ReadingKept
      DEF StartCycle, ShapeInv, jobVars, rowVars
  <1>2. CASE NoSession(w)
    BY <1>0, <1>2, PauseKept, JobsKept, RowsKept, PointedKept, WaitingKept, ReadingKept
    DEF NoSession, ShapeInv, jobVars, rowVars
  <1>3. CASE QueueSwaps(w)
    <2>1. Waiting'
      BY <1>0, <1>3, MoveWaiting DEF QueueSwaps, WorkerTypes, provVars
    <2>2. \/ UNCHANGED <<state, old>>
          \/ \E fresh \in SUBSET {j \in Jobs : state[j] = "absent"} : \E pick \in [fresh -> Queueable] :
                /\ state' = [j \in Jobs |-> IF j \in fresh THEN "pending" ELSE state[j]]
                /\ old' = [j \in Jobs |-> IF j \in fresh THEN pick[j] ELSE old[j]]
      BY <1>3 DEF QueueSwaps
    <2>3. Queueable \subseteq known
      BY DEF Queueable, Decision
    <2>4. known \subseteq Assignments
      BY <1>0 DEF RowTypes
    <2>5. JobTypes' /\ Pointed'
      <3>1. CASE UNCHANGED <<state, old>>
        BY <1>0, <1>3, <3>1, JobsKept, PointedKept DEF QueueSwaps, jobVars, rowVars
      <3>2. ASSUME NEW fresh \in SUBSET {j \in Jobs : state[j] = "absent"},
                   NEW pick \in [fresh -> Queueable],
                   state' = [j \in Jobs |-> IF j \in fresh THEN "pending" ELSE state[j]],
                   old' = [j \in Jobs |-> IF j \in fresh THEN pick[j] ELSE old[j]]
            PROVE  JobTypes' /\ Pointed'
        <4>1. state' \in [Jobs -> JobStates]
          BY <1>0, <3>2 DEF JobTypes, JobStates, Active, PreMutation
        <4>2. old' \in [Jobs -> Assignments \cup {None}]
          BY <1>0, <2>3, <2>4, <3>2 DEF JobTypes
        <4>3. JobTypes'
          BY <1>0, <1>3, <4>1, <4>2 DEF JobTypes, QueueSwaps
        <4>4. \A k \in Jobs :
                 /\ old'[k] = old[k] \/ (state[k] = "absent" /\ old'[k] \in known)
                 /\ state'[k] \in Mutation => state[k] \in Mutation
                 /\ state[k] = "success" => state'[k] = "success"
          BY <2>3, <3>2 DEF Mutation
        <4>5. known' = known
          BY <1>3 DEF QueueSwaps, rowVars
        <4>. QED
          BY <1>0, <4>3, <4>4, <4>5, PointedMild
      <3>. QED
        BY <2>2, <3>1, <3>2
    <2>. QED
      BY <1>0, <1>3, <2>1, <2>5, ClockKept, RowsKept, ReadingKept DEF QueueSwaps, ShapeInv, rowVars
  <1>4. CASE ClaimNothing(w)
    <2>1. state' \in [Jobs -> JobStates]
      BY <1>0, <1>4 DEF ClaimNothing, Recovered, JobTypes, JobStates, Active, PreMutation
    <2>2. until' \in [Jobs -> Never .. (MaxTime + LEASE + DEFER)]
      BY <1>0, <1>4, Bounds DEF ClaimNothing, JobTypes
    <2>3. token' \in [Jobs -> Tokens \cup {None}]
      BY <1>0, <1>4 DEF ClaimNothing, JobTypes
    <2>4. JobTypes'
      BY <1>0, <1>4, <2>1, <2>2, <2>3 DEF ClaimNothing, JobTypes
    <2>5. \A k \in Jobs :
             /\ old'[k] = old[k]
             /\ state'[k] \in Mutation => state[k] \in Mutation
             /\ state[k] = "success" => state'[k] = "success"
      BY <1>4 DEF ClaimNothing, Recovered, Expired, Mutation
    <2>6. Pointed'
      BY <1>0, <1>4, <2>5, PointedMild DEF ClaimNothing, rowVars
    <2>. QED
      BY <1>0, <1>4, <2>4, <2>6, ClockKept, RowsKept, LeaveWaiting, ReadingKept DEF ClaimNothing, ShapeInv
  <1>5. CASE Revalidate(w)
    <2>1. Waiting'
      BY <1>0, <1>5, MoveWaiting DEF Revalidate, WorkerTypes, provVars
    <2>. QED
      BY <1>0, <1>5, <2>1, ClockKept, JobsKept, RowsKept, PointedKept, ReadingKept
      DEF Revalidate, ShapeInv, jobVars, rowVars
  <1>6. CASE Refuse(w)
    <2>1. now + DEFER \in Never .. (MaxTime + LEASE + DEFER) /\ Never \in Never .. (MaxTime + LEASE + DEFER)
      BY <1>a, Bounds
    <2>2. state[job[w]] # "success"
      BY <1>6 DEF Refuse, MayEnter, StillRunning
    <2>3. Settle(job[w], "pending", now + DEFER) \/ Settle(job[w], "blocked", Never)
      BY <1>6 DEF Refuse
    <2>4. JobTypes' /\ Pointed'
      BY <1>0, <1>6, <2>1, <2>2, <2>3, SettleShape DEF Refuse, rowVars
    <2>. QED
      BY <1>0, <1>6, <2>4, ClockKept, RowsKept, LeaveWaiting, ReadingKept DEF Refuse, ShapeInv
  <1>7. ASSUME NEW needsOperator \in BOOLEAN, FailsBefore(w, needsOperator) PROVE ShapeInv'
    <2>1. \/ UNCHANGED <<gate, jobVars>>
          \/ /\ OwnsPreMutation(w)
             /\ PauseAuto \/ gate' = gate
             /\ \E to \in {"pending", "blocked"} : Settle(job[w], to, Never)
      BY <1>7 DEF FailsBefore
    <2>2. Leave(w) /\ UNCHANGED <<now, rowVars, readerVars>>
      BY <1>7 DEF FailsBefore
    <2>3. CASE UNCHANGED <<gate, jobVars>>
      BY <1>0, <2>2, <2>3, ClockKept, JobsKept, RowsKept, PointedKept, LeaveWaiting, ReadingKept
      DEF ShapeInv, jobVars, rowVars
    <2>4. ASSUME OwnsPreMutation(w), PauseAuto \/ gate' = gate,
                 NEW to \in {"pending", "blocked"}, Settle(job[w], to, Never)
          PROVE  ShapeInv'
      <3>1. state[job[w]] # "success" /\ Never \in Never .. (MaxTime + LEASE + DEFER)
        BY <2>4, Bounds DEF OwnsPreMutation, PreMutation
      <3>2. JobTypes' /\ Pointed'
        BY <1>0, <2>2, <2>4, <3>1, SettleShape DEF rowVars
      <3>. QED
        BY <1>0, <2>2, <2>4, <3>2, ClockKept, PauseKept, RowsKept, LeaveWaiting, ReadingKept DEF ShapeInv
    <2>. QED
      BY <2>1, <2>3, <2>4
  <1>8. CASE ReadContext(w)
    <2>0. pc[w] = "claimed" /\ job[w] \in Jobs
      BY <1>8 DEF ReadContext, SwapInv, JobKnown, WithJob
    <2>1. CASE /\ pc' = [pc EXCEPT ![w] = "context"] /\ held' = [held EXCEPT ![w] = token[job[w]]]
               /\ UNCHANGED <<gate, jobVars, job, manual, answer, provVars>>
      <3>1. held' \in [Workers -> Tokens \cup {None}]
        BY <1>0, <2>0, <2>1 DEF WorkerTypes, JobTypes
      <3>2. Waiting'
        BY <1>0, <2>0, <2>1, <3>1, MoveWaiting DEF WorkerTypes, provVars
      <3>. QED
        BY <1>0, <1>8, <2>1, <3>2, ClockKept, JobsKept, RowsKept, PointedKept, ReadingKept
        DEF ReadContext, ShapeInv, jobVars, rowVars
    <2>2. CASE Leave(w) /\ OwnsPreMutation(w) /\ Settle(job[w], "blocked", Never) /\ PauseAuto
      <3>1. state[job[w]] # "success" /\ Never \in Never .. (MaxTime + LEASE + DEFER)
        BY <2>2, Bounds DEF OwnsPreMutation, PreMutation
      <3>2. JobTypes' /\ Pointed'
        BY <1>0, <1>8, <2>2, <3>1, SettleShape DEF ReadContext, rowVars
      <3>. QED
        BY <1>0, <1>8, <2>2, <3>2, PauseKept, RowsKept, LeaveWaiting, ReadingKept DEF ReadContext, ShapeInv
    <2>3. CASE Leave(w) /\ UNCHANGED <<gate, jobVars>>
      BY <1>0, <1>8, <2>3, ClockKept, JobsKept, RowsKept, PointedKept, LeaveWaiting, ReadingKept
      DEF ReadContext, ShapeInv, jobVars, rowVars
    <2>. QED
      BY <1>8, <2>1, <2>2, <2>3 DEF ReadContext
  <1>9. CASE EndCycle(w) \/ Crash(w)
    BY <1>0, <1>9, ClockKept, JobsKept, RowsKept, PointedKept, LeaveWaiting, ReadingKept
    DEF EndCycle, Crash, ShapeInv, jobVars, rowVars
  <1>10. CASE Uncertain(w)
    <2>1. /\ Leave(w) /\ UNCHANGED <<now, old, rowVars, readerVars>>
          /\ UNCHANGED <<token, until, attempts, started, applied, new, called>>
      BY <1>10 DEF Uncertain
    <2>2. ClockTypes'
      BY <1>0, <1>10, PauseKept, ClockKept DEF Uncertain
    <2>3. \/ state' = state
          \/ state[job[w]] \in Mutation /\ state' = [state EXCEPT ![job[w]] = "reconciliation_required"]
      BY <1>10 DEF Uncertain
    <2>4. JobTypes'
      BY <1>0, <2>1, <2>3 DEF JobTypes, JobStates, Active, Mutation
    <2>5. \A k \in Jobs :
             /\ old'[k] = old[k]
             /\ state'[k] \in Mutation => state[k] \in Mutation
             /\ state[k] = "success" => state'[k] = "success"
      BY <1>0, <2>1, <2>3 DEF JobTypes, Mutation
    <2>6. Pointed'
      BY <1>0, <2>1, <2>5, PointedMild DEF rowVars
    <2>. QED
      BY <1>0, <2>1, <2>2, <2>4, <2>6, RowsKept, LeaveWaiting, ReadingKept DEF ShapeInv
  <1>. QED
    BY <1>1, <1>2, <1>3, <1>4, <1>5, <1>6, <1>7, <1>8, <1>9, <1>10

LEMMA ClaimShape ==
    ASSUME SwapInv, ShapeInv, NEW w \in Workers, NEW j \in Jobs, Claim(w, j)
    PROVE  ShapeInv'
  <1>0. /\ ClockTypes /\ JobTypes /\ RowTypes /\ Pointed /\ Waiting /\ Reading /\ WorkerTypes
        /\ now \in 0 .. MaxTime
    BY DEF ShapeInv, Waiting, ClockTypes
  <1>1. FreshToken \in Tokens
    BY FreshTokenFresh DEF Claim
  <1>2. state' \in [Jobs -> JobStates]
    BY <1>0 DEF Claim, Recovered, JobTypes, JobStates, Active, PreMutation
  <1>3. token' \in [Jobs -> Tokens \cup {None}]
    BY <1>0, <1>1 DEF Claim, JobTypes
  <1>4. until' \in [Jobs -> Never .. (MaxTime + LEASE + DEFER)]
    BY <1>0, Bounds DEF Claim, JobTypes
  <1>5. attempts' \in [Jobs -> 0 .. RETRIES]
    BY <1>0, Bounds DEF Claim, JobTypes
  <1>6. JobTypes'
    BY <1>0, <1>2, <1>3, <1>4, <1>5 DEF Claim, JobTypes
  <1>7. \A k \in Jobs : state'[k] = IF k = j THEN "running" ELSE IF Expired(k) THEN "pending" ELSE state[k]
    BY DEF Claim, Recovered
  <1>8. state[j] # "success"
    BY DEF Claim, Claimable, Recovered, Expired
  <1>9. Pointed'
    <2>1. \A k \in Jobs :
             /\ old'[k] = old[k]
             /\ state'[k] \in Mutation => state[k] \in Mutation
             /\ state[k] = "success" => state'[k] = "success"
      BY <1>7, <1>8 DEF Claim, Expired, Mutation
    <2>. QED
      BY <1>0, <2>1, PointedMild DEF Claim, rowVars
  <1>10. Waiting'
    <2>1. job' \in [Workers -> 0 .. MaxJobs] /\ held' \in [Workers -> Tokens \cup {None}]
      BY <1>0, <1>1, Bounds DEF Claim, WorkerTypes
    <2>. QED
      BY <1>0, <2>1, MoveWaiting DEF Claim, WorkerTypes, provVars
  <1>. QED
    BY <1>0, <1>6, <1>9, <1>10, ClockKept, RowsKept, ReadingKept DEF Claim, ShapeInv

LEMMA EnterShape ==
    ASSUME SwapInv, ShapeInv, NEW w \in Workers, EnterMutation(w)
    PROVE  ShapeInv'
  <1>0. /\ ClockTypes /\ JobTypes /\ RowTypes /\ Pointed /\ Waiting /\ Reading
        /\ WorkerTypes /\ ProviderTypes /\ RequestsAwaited /\ now \in Times
    BY Bounds DEF ShapeInv, Waiting, ClockTypes
  <1>1. pc[w] = "checked" /\ job[w] \in Jobs /\ old[job[w]] \in known /\ old[job[w]] # None
        /\ state[job[w]] = "running"
    BY DEF EnterMutation, Verdict, Decision, MayEnter, StillRunning, SwapInv, JobKnown, WithJob
  <1>2. JobTypes'
    <2>1. state' \in [Jobs -> JobStates]
      BY <1>0 DEF EnterMutation, JobTypes, JobStates, Active, Mutation
    <2>2. until' \in [Jobs -> Never .. (MaxTime + LEASE + DEFER)] /\ started' \in [Jobs -> Times]
      BY <1>0, Bounds DEF EnterMutation, JobTypes
    <2>3. called' \in [Jobs -> BOOLEAN]
      BY <1>0 DEF EnterMutation, JobTypes
    <2>. QED
      BY <1>0, <2>1, <2>2, <2>3 DEF EnterMutation, JobTypes
  <1>3. RowTypes'
    <2>1. dash' \in [Assignments -> Times]
      BY <1>0, Bounds DEF EnterMutation, RowTypes
    <2>. QED
      BY <1>0, <2>1 DEF EnterMutation, RowTypes
  <1>4. Pointed'
    <2>1. \A k \in Jobs : state'[k] = IF k = job[w] THEN "mutating" ELSE state[k]
      BY <1>0 DEF EnterMutation, JobTypes
    <2>2. UNCHANGED <<old, known>>
      BY DEF EnterMutation
    <2>. QED
      BY <1>0, <1>1, <2>1, <2>2 DEF Pointed
  <1>5. Waiting'
    <2>1. WorkerTypes'
      BY <1>0 DEF EnterMutation, WorkerTypes, WithJob
    <2>2. ProviderTypes'
      BY <1>0 DEF EnterMutation, ProviderTypes
    <2>3. RequestsAwaited'
      BY <1>0, <1>1 DEF EnterMutation, RequestsAwaited, WorkerTypes
    <2>. QED
      BY <2>1, <2>2, <2>3 DEF Waiting
  <1>. QED
    BY <1>0, <1>2, <1>3, <1>4, <1>5, ClockKept, ReadingKept DEF EnterMutation, ShapeInv

LEMMA AppliedShape ==
    ASSUME SwapInv, ShapeInv, NEW w \in Workers, ProviderApplied(w)
    PROVE  ShapeInv'
  <1>0. /\ ClockTypes /\ JobTypes /\ RowTypes /\ Pointed /\ Waiting /\ Reading
        /\ WorkerTypes /\ ProviderTypes /\ RequestsAwaited /\ now \in Times
    BY Bounds DEF ShapeInv, Waiting, ClockTypes
  <1>1. pc[w] = "calling" /\ job[w] \in Jobs /\ state[job[w]] = "mutating"
    BY DEF ProviderApplied, SwapInv, JobKnown, WithJob
  <1>2. old[job[w]] \in Assignments
    BY <1>0, <1>1 DEF Pointed, Mutation, JobTypes
  <1>3. <<SlotOf(old[job[w]]), answer[w]>> \in Assignments
    BY <1>0, <1>2 DEF Assignments, SlotOf, WorkerTypes
  <1>4. JobTypes'
    <2>1. state' \in [Jobs -> JobStates]
      BY <1>0 DEF ProviderApplied, JobTypes, JobStates, Active, Mutation
    <2>2. applied' \in [Jobs -> Times]
      BY <1>0 DEF ProviderApplied, JobTypes
    <2>3. new' \in [Jobs -> Assignments \cup {None}]
      BY <1>0, <1>3 DEF ProviderApplied, JobTypes
    <2>. QED
      BY <1>0, <2>1, <2>2, <2>3 DEF ProviderApplied, JobTypes
  <1>5. RowTypes'
    <2>1. dash' \in [Assignments -> Times]
      BY <1>0, Bounds DEF ProviderApplied, RowTypes
    <2>. QED
      BY <1>0, <2>1 DEF ProviderApplied, RowTypes
  <1>6. Pointed'
    <2>1. \A k \in Jobs :
             /\ old'[k] = old[k]
             /\ state'[k] \in Mutation => state[k] \in Mutation
             /\ state[k] = "success" => state'[k] = "success"
      BY <1>0, <1>1 DEF ProviderApplied, JobTypes, Mutation
    <2>. QED
      BY <1>0, <2>1, PointedMild DEF ProviderApplied
  <1>7. Waiting'
    <2>1. WorkerTypes'
      BY <1>0 DEF ProviderApplied, WorkerTypes, WithJob
    <2>2. ProviderTypes'
      BY <1>0 DEF ProviderApplied, ProviderTypes, provVars
    <2>3. RequestsAwaited'
      BY <1>0, <1>1 DEF ProviderApplied, RequestsAwaited, WorkerTypes, provVars
    <2>. QED
      BY <2>1, <2>2, <2>3 DEF Waiting
  <1>. QED
    BY <1>0, <1>4, <1>5, <1>6, <1>7, ClockKept, ReadingKept DEF ProviderApplied, ShapeInv

\* The provider and administrators.
LEMMA ProviderShape ==
    ASSUME SwapInv, ShapeInv, ProviderStep
    PROVE  ShapeInv'
  <1>0. /\ ClockTypes /\ JobTypes /\ RowTypes /\ Pointed /\ Waiting /\ Reading
        /\ WorkerTypes /\ ProviderTypes /\ RequestsAwaited
    BY DEF ShapeInv, Waiting
  <1>1. ASSUME Waiting', UNCHANGED <<now, gate, jobVars, rowVars, readerVars>> PROVE ShapeInv'
    BY <1>0, <1>1, ClockKept, JobsKept, RowsKept, PointedKept, ReadingKept DEF ShapeInv, jobVars, rowVars
  <1>2. ASSUME NEW w \in Workers, ProviderSwaps(w) PROVE ShapeInv'
    <2>1. w \in sent /\ pc[w] = "calling"
      BY <1>0, <1>2 DEF ProviderSwaps, RequestsAwaited
    <2>2. job[w] \in Jobs /\ state[job[w]] = "mutating"
      BY <2>1 DEF SwapInv, FencedCalls, JobKnown, WithJob
    <2>3. SlotOf(old[job[w]]) \in Slots
      BY <1>0, <2>2 DEF Pointed, Mutation, JobTypes, Assignments, SlotOf
    <2>4. PICK d \in Slots :
             /\ prov[d] < MaxVersion
             /\ prov' = [prov EXCEPT ![d] = @ + 1]
             /\ answer' = [answer EXCEPT ![w] = prov[d] + 1]
      BY <1>2, <2>3 DEF ProviderSwaps
    <2>5. prov[d] + 1 \in 0 .. MaxVersion
      BY <1>0, <2>4, Bounds DEF ProviderTypes
    <2>6. ProviderTypes' /\ WorkerTypes'
      BY <1>0, <1>2, <2>4, <2>5 DEF ProviderSwaps, ProviderTypes, WorkerTypes
    <2>7. RequestsAwaited'
      BY <1>0, <1>2, <2>1, <2>4 DEF ProviderSwaps, RequestsAwaited, WorkerTypes
    <2>. QED
      BY <1>1, <1>2, <2>6, <2>7 DEF ProviderSwaps, Waiting
  <1>3. ASSUME NEW w \in Workers, ProviderRefuses(w) PROVE ShapeInv'
    <2>1. Waiting'
      BY <1>0, <1>3 DEF ProviderRefuses, Waiting, WorkerTypes, ProviderTypes, RequestsAwaited, workerVars
    <2>. QED
      BY <1>1, <1>3, <2>1 DEF ProviderRefuses
  <1>4. ASSUME NEW d \in Slots, LateSwap(d) PROVE ShapeInv'
    <2>1. prov' \in [Slots -> 0 .. MaxVersion]
      <3>1. CASE prov' = prov
        BY <1>0, <3>1 DEF ProviderTypes
      <3>2. CASE prov[d] < MaxVersion /\ prov' = [prov EXCEPT ![d] = @ + 1]
        BY <1>0, <3>2, Bounds DEF ProviderTypes
      <3>. QED
        BY <1>4, <3>1, <3>2 DEF LateSwap
    <2>2. orphans' \in [Slots -> Nat]
      BY <1>0, <1>4 DEF LateSwap, ProviderTypes
    <2>3. Waiting'
      BY <1>0, <1>4, <2>1, <2>2 DEF LateSwap, Waiting, WorkerTypes, ProviderTypes, RequestsAwaited, workerVars
    <2>. QED
      BY <1>1, <1>4, <2>3 DEF LateSwap
  <1>. QED
    BY <1>2, <1>3, <1>4 DEF ProviderStep

LEMMA AdminShape ==
    ASSUME ShapeInv, AdminStep
    PROVE  ShapeInv'
  <1>0. /\ ClockTypes /\ JobTypes /\ RowTypes /\ Pointed /\ Waiting /\ Reading
        /\ WorkerTypes /\ Never \in Never .. (MaxTime + LEASE + DEFER)
    BY Bounds DEF ShapeInv, Waiting
  <1>1. ASSUME NEW j \in Jobs, Cancel(j) PROVE ShapeInv'
    <2>1. state[j] # "success" /\ Settle(j, "canceled", Never)
      BY <1>1 DEF Cancel, PreMutation
    <2>2. JobTypes' /\ Pointed'
      BY <1>0, <1>1, <2>1, SettleShape DEF Cancel, rowVars
    <2>. QED
      BY <1>0, <1>1, <2>2, ClockKept, RowsKept, WaitingKept, ReadingKept DEF Cancel, ShapeInv
  <1>2. ASSUME NEW j \in Jobs, Retry(j) PROVE ShapeInv'
    <2>1. state[j] # "success" /\ Requeue(j)
      BY <1>2 DEF Retry
    <2>2. JobTypes' /\ Pointed'
      BY <1>0, <1>2, <2>1, RequeueShape DEF Retry, rowVars
    <2>. QED
      BY <1>0, <1>2, <2>2, ClockKept, RowsKept, WaitingKept, ReadingKept DEF Retry, ShapeInv
  <1>3. ASSUME NEW j \in Jobs, NEW w \in Workers, RequestManual(w, j) PROVE ShapeInv'
    <2>1. state[j] # "success" /\ Requeue(j) /\ pc[w] = "idle"
      BY <1>3 DEF RequestManual
    <2>2. JobTypes' /\ Pointed'
      BY <1>0, <1>3, <2>1, RequeueShape DEF RequestManual, rowVars
    <2>3. job' \in [Workers -> 0 .. MaxJobs] /\ manual' \in [Workers -> BOOLEAN]
      BY <1>0, <1>3, Bounds DEF RequestManual, WorkerTypes
    <2>4. Waiting'
      BY <1>0, <1>3, <2>1, <2>3, MoveWaiting DEF RequestManual, WorkerTypes, provVars
    <2>. QED
      BY <1>0, <1>3, <2>2, <2>4, ClockKept, RowsKept, ReadingKept DEF RequestManual, ShapeInv
  <1>4. ASSUME NEW g \in Gates, SetGate(g) PROVE ShapeInv'
    <2>1. ClockTypes'
      BY <1>0, <1>4, SwapAssumption DEF SetGate, ClockTypes
    <2>. QED
      BY <1>0, <1>4, <2>1, JobsKept, RowsKept, PointedKept, WaitingKept, ReadingKept
      DEF SetGate, ShapeInv, jobVars, rowVars
  <1>. QED
    BY <1>1, <1>2, <1>3, <1>4 DEF AdminStep

-----------------------------------------------------------------------------
\* What was fetched are assignments.
LEMMA FetchedTypes ==
    ASSUME ReaderTypes, NEW x \in Readers
    PROVE  Fetched(x) \subseteq Assignments
  BY DEF ReaderTypes, Fetched, Assignments

\* The readers store and mark what they fetched.
LEMMA StoreShape ==
    ASSUME ShapeInv, SyncStore \/ SyncFinish \/ DashArrives \/ DashStore
    PROVE  ShapeInv'
  <1>0. /\ ClockTypes /\ JobTypes /\ RowTypes /\ Pointed /\ Waiting /\ Reading
        /\ ReaderTypes /\ SnapsKnown /\ now \in Times
    BY Bounds DEF ShapeInv, Reading, ClockTypes
  <1>1. CASE SyncStore
    <2>1. Fetched("sync") \subseteq Assignments
      BY <1>0, <1>1, FetchedTypes DEF SyncStore
    <2>2. seen' \in [Assignments -> Times]
      BY <1>0, <1>1 DEF SyncStore, RowTypes
    <2>3. RowTypes'
      BY <1>0, <1>1, <2>1, <2>2 DEF SyncStore, RowTypes
    <2>4. Pointed'
      BY <1>0, <1>1 DEF SyncStore, Pointed, jobVars
    <2>5. Reading'
      BY <1>0, <1>1 DEF SyncStore, Reading, ReaderTypes, SnapsKnown
    <2>. QED
      BY <1>0, <1>1, <2>3, <2>4, <2>5, ClockKept, JobsKept, WaitingKept DEF SyncStore, ShapeInv
  <1>2. CASE SyncFinish
    <2>1. RowTypes'
      BY <1>0, <1>2 DEF SyncFinish, RowTypes
    <2>2. Pointed'
      BY <1>0, <1>2, PointedKept DEF SyncFinish, jobVars
    <2>3. Reading'
      BY <1>0, <1>2 DEF SyncFinish, Reading, ReaderTypes, SnapsKnown
    <2>. QED
      BY <1>0, <1>2, <2>1, <2>2, <2>3, ClockKept, JobsKept, WaitingKept DEF SyncFinish, ShapeInv
  <1>3. CASE DashArrives
    <2>1. Reading'
      BY <1>0, <1>3 DEF DashArrives, Reading, ReaderTypes, SnapsKnown
    <2>. QED
      BY <1>0, <1>3, <2>1, ClockKept, JobsKept, RowsKept, PointedKept, WaitingKept
      DEF DashArrives, ShapeInv, jobVars, rowVars
  <1>4. CASE DashStore
    <2>1. CASE /\ dash' = [e \in Assignments |-> IF e \in Fetched("dash") THEN dashAt ELSE Never]
               /\ rpc' = [rpc EXCEPT !["dash"] = "select"]
               /\ UNCHANGED <<got, dashAt, snap>>
      <3>1. dash' \in [Assignments -> Times]
        BY <1>0, <2>1, Bounds DEF ReaderTypes
      <3>2. RowTypes'
        BY <1>0, <1>4, <3>1 DEF DashStore, RowTypes
      <3>3. Reading'
        BY <1>0, <2>1 DEF Reading, ReaderTypes, SnapsKnown
      <3>. QED
        BY <1>0, <1>4, <3>2, <3>3, ClockKept, JobsKept, PointedKept, WaitingKept
        DEF DashStore, ShapeInv, jobVars
    <2>2. CASE ReaderEnds("dash") /\ dash' = dash
      BY <1>0, <1>4, <2>2, ReaderEndsShape, ClockKept, JobsKept, RowsKept, PointedKept, WaitingKept
      DEF DashStore, ShapeInv, jobVars, rowVars
    <2>. QED
      BY <1>4, <2>1, <2>2 DEF DashStore
  <1>. QED
    BY <1>1, <1>2, <1>3, <1>4

\* The one candidate there is.
LEMMA CandidateChosen ==
    ASSUME NEW j, NEW at, Inferable(j, at)
    PROVE  (CHOOSE e \in Candidates(j, at) : TRUE) \in Candidates(j, at)
  <1>1. Candidates(j, at) # {}
    BY FS_EmptySet DEF Inferable
  <1>. QED
    BY <1>1

\* Reading, examining and inferring: the readers choose a job and what they
\* think of it.
LEMMA ExamineShape ==
    ASSUME ShapeInv, NEW x \in Readers,
           Fetch(x) \/ ReaderStops(x) \/ Select(x) \/ Examine(x) \/ Infer(x)
    PROVE  ShapeInv'
  <1>0. /\ ClockTypes /\ JobTypes /\ RowTypes /\ Pointed /\ Waiting /\ Reading
        /\ ReaderTypes /\ SnapsKnown /\ ProviderTypes
    BY DEF ShapeInv, Reading, Waiting
  <1>1. ASSUME Reading', UNCHANGED <<now, gate, jobVars, rowVars, workerVars, provVars>> PROVE ShapeInv'
    BY <1>0, <1>1, ClockKept, JobsKept, RowsKept, PointedKept, WaitingKept DEF ShapeInv, jobVars, rowVars
  <1>2. CASE Fetch(x)
    <2>1. Reading'
      BY <1>0, <1>2 DEF Fetch, Reading, ReaderTypes, SnapsKnown, ProviderTypes
    <2>. QED
      BY <1>1, <1>2, <2>1 DEF Fetch
  <1>3. CASE ReaderStops(x)
    BY <1>0, <1>1, <1>3, ReaderEndsShape DEF ReaderStops
  <1>4. CASE Select(x)
    <2>1. CASE ReaderEnds(x)
      BY <1>0, <1>1, <1>4, <2>1, ReaderEndsShape DEF Select
    <2>2. ASSUME NEW j \in Jobs, NEW to \in {"examine", "finish"},
                 snap' = [snap EXCEPT ![x] = [job |-> j, state |-> state[j],
                                              at |-> MutationTime(j), pick |-> None]],
                 rpc' = [rpc EXCEPT ![x] = to],
                 UNCHANGED <<got, dashAt>>
          PROVE  ShapeInv'
      <3>1. [job |-> j, state |-> state[j], at |-> MutationTime(j), pick |-> None]
              \in [job : 0 .. MaxJobs, state : JobStates \cup {"none"},
                   at : Times, pick : Assignments \cup {None}]
        BY <1>0, Bounds DEF MutationTime, JobTypes
      <3>2. ReaderTypes'
        BY <1>0, <2>2, <3>1 DEF ReaderTypes
      <3>3. SnapsKnown'
        BY <1>0, <2>2 DEF ReaderTypes, SnapsKnown
      <3>. QED
        BY <1>1, <1>4, <3>2, <3>3 DEF Select, Reading
    <2>3. \/ ReaderEnds(x)
          \/ \E j \in Jobs : \E to \in {"examine", "finish"} :
                /\ snap' = [snap EXCEPT ![x] = [job |-> j, state |-> state[j],
                                                at |-> MutationTime(j), pick |-> None]]
                /\ rpc' = [rpc EXCEPT ![x] = to]
                /\ UNCHANGED <<got, dashAt>>
      BY <1>4 DEF Select
    <2>. QED
      BY <2>1, <2>2, <2>3
  <1>5. CASE Examine(x)
    <2>0. rpc[x] = "examine" /\ snap[x].job \in Jobs
      BY <1>0, <1>5 DEF Examine, SnapsKnown
    <2>1. CASE ReaderEnds(x)
      BY <1>0, <1>1, <1>5, <2>1, ReaderEndsShape DEF Examine
    <2>2. CASE rpc' = [rpc EXCEPT ![x] = "close"] /\ UNCHANGED <<got, dashAt, snap>>
      <3>1. Reading'
        BY <1>0, <2>0, <2>2 DEF Reading, ReaderTypes, SnapsKnown
      <3>. QED
        BY <1>1, <1>5, <3>1 DEF Examine
    <2>3. ASSUME NEW e \in Assignments,
                 rpc' = [rpc EXCEPT ![x] = "infer"], snap' = [snap EXCEPT ![x].pick = e],
                 UNCHANGED <<got, dashAt>>
          PROVE  ShapeInv'
      <3>1. ReaderTypes'
        BY <1>0, <2>3 DEF ReaderTypes
      <3>2. SnapsKnown'
        BY <1>0, <2>0, <2>3 DEF ReaderTypes, SnapsKnown
      <3>. QED
        BY <1>1, <1>5, <3>1, <3>2 DEF Examine, Reading
    <2>4. \/ ReaderEnds(x)
          \/ rpc' = [rpc EXCEPT ![x] = "close"] /\ UNCHANGED <<got, dashAt, snap>>
          \/ /\ Inferable(snap[x].job, snap[x].at)
             /\ rpc' = [rpc EXCEPT ![x] = "infer"]
             /\ snap' = [snap EXCEPT ![x].pick = CHOOSE e \in Candidates(snap[x].job, snap[x].at) : TRUE]
             /\ UNCHANGED <<got, dashAt>>
      BY <1>5 DEF Examine
    <2>5. Candidates(snap[x].job, snap[x].at) \subseteq Assignments
      BY <1>0 DEF Candidates, RowTypes
    <2>. QED
      BY <2>1, <2>2, <2>3, <2>4, <2>5, CandidateChosen
  <1>6. CASE Infer(x)
    <2>1. Reading'
      <3>1. CASE rpc' = [rpc EXCEPT ![x] = "finish"] /\ UNCHANGED <<got, dashAt, snap>>
        BY <1>0, <1>6, <3>1 DEF Infer, Reading, ReaderTypes, SnapsKnown
      <3>2. CASE ReaderEnds(x)
        BY <1>0, <3>2, ReaderEndsShape
      <3>. QED
        BY <1>6, <3>1, <3>2 DEF Infer
    <2>2. new' \in [Jobs -> Assignments \cup {None}]
      BY <1>0, <1>6 DEF Infer, JobTypes, ReaderTypes
    <2>3. JobTypes'
      BY <1>0, <1>6, <2>2 DEF Infer, JobTypes
    <2>. QED
      BY <1>0, <1>6, <2>1, <2>3, ClockKept, RowsKept, PointedKept, WaitingKept DEF Infer, ShapeInv, rowVars
  <1>. QED
    BY <1>2, <1>3, <1>4, <1>5, <1>6

\* Closing a job, and its success: no other job behind the fence, and none
\* that has not succeeded, names the row that is deleted.
LEMMA CloseShape ==
    ASSUME SwapInv, ShapeInv, NEW x \in Readers, Close(x) \/ Finish(x)
    PROVE  ShapeInv'
  <1>0. /\ ClockTypes /\ JobTypes /\ RowTypes /\ Pointed /\ Waiting /\ Reading
        /\ ReaderTypes /\ SnapsKnown /\ OneAtATime /\ now \in 0 .. MaxTime
    BY DEF ShapeInv, Reading, ClockTypes, SwapInv
  <1>1. CASE Close(x)
    <2>1. Reading' /\ UNCHANGED <<now, gate, rowVars, workerVars, provVars>>
      BY <1>0, <1>1, ReaderEndsShape DEF Close
    <2>2. CASE UNCHANGED jobVars
      BY <1>0, <2>1, <2>2, ClockKept, JobsKept, RowsKept, PointedKept, WaitingKept
      DEF ShapeInv, jobVars, rowVars
    <2>3. CASE state[snap[x].job] = "reconciliation_required" /\ Settle(snap[x].job, "blocked", Never)
      <3>1. JobTypes' /\ Pointed'
        BY <1>0, <2>1, <2>3, SettleShape, Bounds DEF rowVars
      <3>. QED
        BY <1>0, <2>1, <3>1, ClockKept, RowsKept, WaitingKept DEF ShapeInv
    <2>. QED
      BY <1>1, <2>2, <2>3 DEF Close
  <1>2. CASE Finish(x)
    <2>0. rpc[x] = "finish" /\ snap[x].job \in Jobs /\ UNCHANGED <<now, gate, workerVars, provVars>>
      BY <1>0, <1>2 DEF Finish, SnapsKnown
    <2>1. CASE UNCHANGED <<jobVars, rowVars>>
      <3>1. Reading'
        <4>1. CASE rpc' = [rpc EXCEPT ![x] = "close"] /\ UNCHANGED <<got, dashAt, snap>>
          BY <1>0, <2>0, <4>1 DEF Reading, ReaderTypes, SnapsKnown
        <4>2. CASE ReaderEnds(x)
          BY <1>0, <4>2, ReaderEndsShape
        <4>. QED
          BY <1>2, <4>1, <4>2 DEF Finish
      <3>. QED
        BY <1>0, <2>0, <2>1, <3>1, ClockKept, JobsKept, RowsKept, PointedKept, WaitingKept
        DEF ShapeInv, jobVars, rowVars
    <2>2. CASE Confirmed(snap[x].job) /\ Succeed(snap[x].job) /\ ReaderEnds(x)
      <3>. DEFINE j == snap[x].job
      <3>1. \A k \in Jobs : /\ state'[k] = IF k = j THEN "success" ELSE state[k]
                            /\ old'[k] = IF k # j /\ old[k] = old[j] THEN None ELSE old[k]
        BY <1>0, <2>2 DEF Succeed, JobTypes
      <3>2. JobTypes'
        <4>1. state' \in [Jobs -> JobStates]
          BY <1>0, <2>2 DEF Succeed, JobTypes, JobStates
        <4>2. old' \in [Jobs -> Assignments \cup {None}]
          BY <1>0, <2>2 DEF Succeed, JobTypes
        <4>3. token' \in [Jobs -> Tokens \cup {None}] /\ until' \in [Jobs -> Never .. (MaxTime + LEASE + DEFER)]
          BY <1>0, <2>2, Bounds DEF Succeed, JobTypes
        <4>. QED
          BY <1>0, <2>2, <4>1, <4>2, <4>3 DEF Succeed, JobTypes
      <3>3. RowTypes'
        <4>1. known' \subseteq Assignments /\ missing' \subseteq known' /\ risky' \subseteq known'
          BY <1>0, <2>2 DEF Succeed, VerdictsAfter, RowTypes
        <4>2. seen' \in [Assignments -> Times] /\ dash' \in [Assignments -> Times]
          BY <1>0, <2>2, Bounds DEF Succeed, RowTypes
        <4>3. ready' \in [Assignments -> Never .. (MaxTime + COOLDOWN)]
          BY <1>0, <2>2, Bounds DEF Succeed, RowTypes
        <4>. QED
          BY <1>0, <2>2, <4>1, <4>2, <4>3 DEF Succeed, RowTypes
      <3>4. Pointed'
        <4>1. known' = known \ {old[j]}
          BY <2>2 DEF Succeed
        <4>2. state[j] \in Mutation
          BY <2>2 DEF Confirmed, Mutation
        <4>3. \A k \in Jobs \ {j} : state[k] \notin Mutation
          BY <1>0, <2>0, <4>2 DEF OneAtATime
        <4>4. ASSUME NEW k \in Jobs, state'[k] # "success" PROVE old'[k] \in known' \cup {None}
          BY <1>0, <3>1, <4>1, <4>4 DEF Pointed
        <4>5. ASSUME NEW k \in Jobs, state'[k] \in Mutation PROVE old'[k] # None
          BY <3>1, <4>3, <4>5 DEF Mutation
        <4>. QED
          BY <4>4, <4>5 DEF Pointed
      <3>. QED
        BY <1>0, <2>0, <2>2, <3>2, <3>3, <3>4, ReaderEndsShape, ClockKept, WaitingKept DEF ShapeInv
    <2>. QED
      BY <1>2, <2>1, <2>2 DEF Finish
  <1>. QED
    BY <1>1, <1>2

\* Every step keeps the types, given the mutual exclusion proved above.
LEMMA ShapeStep == SwapInv /\ ShapeInv /\ [Next]_vars => ShapeInv'
  <1>. SUFFICES ASSUME SwapInv, ShapeInv, [Next]_vars PROVE ShapeInv'
    OBVIOUS
  <1>0. ClockTypes /\ JobTypes /\ RowTypes /\ Pointed /\ Waiting /\ Reading
    BY DEF ShapeInv
  <1>1. CASE UNCHANGED vars
    BY <1>0, <1>1, ClockKept, JobsKept, RowsKept, PointedKept, WaitingKept, ReadingKept
    DEF vars, ShapeInv, jobVars, rowVars
  <1>2. ASSUME NEW e \in Assignments, Qualify(e) PROVE ShapeInv'
    <2>1. RowTypes'
      BY <1>0, <1>2 DEF Qualify, RowTypes
    <2>. QED
      BY <1>0, <1>2, <2>1, ClockKept, JobsKept, PointedKept, WaitingKept, ReadingKept
      DEF Qualify, ShapeInv, jobVars
  <1>3. ASSUME NEW w \in Workers, WorkerStep(w) PROVE ShapeInv'
    BY <1>3, WorkerShape, ClaimShape, EnterShape, AppliedShape DEF WorkerStep
  <1>4. CASE ReaderStep
    BY <1>4, StoreShape, ExamineShape, CloseShape DEF ReaderStep
  <1>5. CASE Tick
    <2>1. ClockTypes'
      BY <1>0, <1>5, Bounds DEF Tick, ClockTypes
    <2>. QED
      BY <1>0, <1>5, <2>1, JobsKept, RowsKept, PointedKept, WaitingKept, ReadingKept
      DEF Tick, ShapeInv, jobVars, rowVars
  <1>. QED
    BY <1>1, <1>2, <1>3, <1>4, <1>5, ProviderShape, AdminShape DEF Next

\* Every variable keeps its type in every execution: in particular, a verdict
\* or a missing mark is never left without its row, and a job that has not
\* succeeded never names a row that mark_swap_success deleted.
THEOREM SwapTypeCorrect == Spec => []TypeOK
  <1>1. SwapInv /\ ShapeInv => TypeOK
    BY ShapeIsTypeOK
  <1>2. Init => SwapInv /\ ShapeInv
    BY SwapInit, ShapeInit
  <1>3. SwapInv /\ ShapeInv /\ [Next]_vars => SwapInv' /\ ShapeInv'
    BY SwapStep, ShapeStep
  <1>. QED
    BY <1>1, <1>2, <1>3, PTL DEF Spec

-----------------------------------------------------------------------------
(***************************************************************************)
(* Lineage: what a job was replaced by comes later in its slot.  The       *)
(* invariant relates every stored row to the provider and to the answer    *)
(* the sync holds, and the stamps of rows and jobs to each other.  It is   *)
(* about jobs no administrator requeues: a requeued job keeps the stamps   *)
(* and the replacement of its first mutation.                              *)
(***************************************************************************)

Queued == {"absent"} \cup PreMutation

\* The provider has given up the job's old assignment for a later one.
Replaced(j) == VersionOf(old[j]) < prov[SlotOf(old[j])]

\* The inventory shows nothing the provider has not reached.
KnownBehind == \A e \in known : VersionOf(e) <= prov[SlotOf(e)]

\* One sync runs at a time: what it fetched is not older than what is stored.
FetchOrdered ==
    "sync" \in Readers /\ rpc["sync"] = "fetched" =>
        /\ \A d \in Slots : got["sync"][d] <= prov[d]
        /\ \A e \in known : VersionOf(e) <= got["sync"][SlotOf(e)]

StampsPast ==
    /\ \A e \in Assignments : seen[e] <= now
    /\ \A j \in Jobs : started[j] <= now
    /\ \A j \in Jobs : applied[j] # Never => started[j] <= applied[j]

\* A job in the queue has no mutation behind it.
QueuedBlank == \A j \in Jobs : state[j] \in Queued => applied[j] = Never /\ new[j] = None

\* An assignment of the slot that the inventory showed after the mutation
\* began is not an earlier one.
SeenLater ==
    \A j \in Jobs, e \in known :
        state[j] \in Mutation /\ SlotOf(e) = SlotOf(old[j]) /\ seen[e] > started[j]
        => VersionOf(old[j]) <= VersionOf(e)

\* What a reader holds about a job stays true while the job is uncertain.
SnapsHold ==
    \A x \in Readers : rpc[x] \in {"examine", "infer"} =>
        /\ state[snap[x].job] \in {"reconciliation_required", "blocked", "canceled", "success"}
        /\ state[snap[x].job] = "reconciliation_required" =>
              /\ snap[x].at = MutationTime(snap[x].job)
              /\ rpc[x] = "infer" => Replaced(snap[x].job)

\* A worker with an answer was given a later assignment.
Answered == \A w \in Workers : pc[w] = "calling" /\ answer[w] # 0 => Replaced(job[w])

\* So was a job that has a replacement.
NewIsLater == \A j \in Jobs : state[j] \in Mutation /\ new[j] # None => Replaced(j)

LineInv ==
    /\ KnownBehind
    /\ FetchOrdered
    /\ StampsPast
    /\ QueuedBlank
    /\ SeenLater
    /\ SnapsHold
    /\ Answered
    /\ NewIsLater

\* What most steps do.
JobsMild ==
    \A k \in Jobs :
        /\ state'[k] \in Mutation => state[k] \in Mutation /\ old'[k] = old[k]
        /\ state'[k] \in Queued => state[k] \in Queued
        /\ state'[k] \in {"mutating", "provider_applied"} => state'[k] = state[k]

NoneSucceeds == \A k \in Jobs : state'[k] = "success" => state[k] = "success"

ProvGrows == \A d \in Slots : prov[d] <= prov'[d]

CallsStand ==
    \A v \in Workers : pc'[v] = "calling" =>
        pc[v] = "calling" /\ job'[v] = job[v] /\ answer'[v] = answer[v]

FetchStands == "sync" \in Readers /\ rpc'["sync"] = "fetched" => rpc["sync"] = "fetched" /\ got'["sync"] = got["sync"]

SnapsStand ==
    \A x \in Readers : rpc'[x] \in {"examine", "infer"} => rpc'[x] = rpc[x] /\ snap'[x] = snap[x]

LEMMA LineInit == Init => LineInv
  <1>. SUFFICES ASSUME Init PROVE LineInv
    OBVIOUS
  <1>1. KnownBehind
    BY DEF Init, KnownBehind, VersionOf, SlotOf
  <1>2. StampsPast
    BY DEF Init, StampsPast, Never
  <1>. QED
    BY <1>1, <1>2 DEF Init, LineInv, FetchOrdered, QueuedBlank, SeenLater, SnapsHold, Answered, NewIsLater,
                      Mutation

\* An assignment has a slot and a version.
LEMMA AssignmentParts ==
    ASSUME NEW e \in Assignments
    PROVE  SlotOf(e) \in Slots /\ VersionOf(e) \in Nat
  BY Bounds DEF Assignments, SlotOf, VersionOf

\* The types the arithmetic of the lineage needs.
LEMMA LineTypes ==
    ASSUME ShapeInv
    PROVE  /\ now \in Int
           /\ \A e \in known : SlotOf(e) \in Slots /\ VersionOf(e) \in Nat
           /\ \A d \in Slots : prov[d] \in Nat
           /\ \A e \in Assignments : seen[e] \in Int
           /\ \A j \in Jobs : /\ started[j] \in Int /\ applied[j] \in Int
                              /\ state[j] \in Mutation => /\ old[j] \in known
                                                          /\ SlotOf(old[j]) \in Slots
                                                          /\ VersionOf(old[j]) \in Nat
           /\ \A x \in Readers, d \in Slots : got[x][d] \in Nat
  <1>0. /\ ClockTypes /\ JobTypes /\ RowTypes /\ Pointed /\ Waiting /\ Reading
        /\ ProviderTypes /\ ReaderTypes
    BY DEF ShapeInv, Waiting, Reading
  <1>1. now \in Int
    BY <1>0, Bounds DEF ClockTypes
  <1>2. \A e \in known : SlotOf(e) \in Slots /\ VersionOf(e) \in Nat
    BY <1>0, AssignmentParts DEF RowTypes
  <1>3. \A d \in Slots : prov[d] \in Nat
    BY <1>0, Bounds DEF ProviderTypes
  <1>4. Times \subseteq Int
    BY Bounds DEF Times, Never
  <1>5. \A e \in Assignments : seen[e] \in Int
    BY <1>0, <1>4 DEF RowTypes
  <1>6. \A j \in Jobs : /\ started[j] \in Int /\ applied[j] \in Int
                        /\ state[j] \in Mutation => old[j] \in known
    BY <1>0, <1>4 DEF JobTypes, Pointed, Mutation
  <1>7. \A x \in Readers, d \in Slots : got[x][d] \in Nat
    BY <1>0, Bounds DEF ReaderTypes
  <1>. QED
    BY <1>1, <1>2, <1>3, <1>5, <1>6, <1>7

LEMMA NextTypes ==
    ASSUME ShapeInv'
    PROVE  now' \in Int /\ \A d \in Slots : prov'[d] \in Nat
  BY Bounds DEF ShapeInv, ClockTypes, Waiting, ProviderTypes

-----------------------------------------------------------------------------
\* One lemma per part of the invariant: steps that keep it.
LEMMA KnownStands ==
    ASSUME ShapeInv, ShapeInv', KnownBehind, FetchOrdered, known' \subseteq known, ProvGrows, FetchStands
    PROVE  KnownBehind' /\ FetchOrdered'
  <1>1. KnownBehind'
    BY LineTypes, NextTypes DEF KnownBehind, ProvGrows
  <1>2. FetchOrdered'
    <2>. SUFFICES ASSUME "sync" \in Readers, rpc'["sync"] = "fetched"
                  PROVE  /\ \A d \in Slots : got'["sync"][d] <= prov'[d]
                         /\ \A e \in known' : VersionOf(e) <= got'["sync"][SlotOf(e)]
      BY DEF FetchOrdered
    <2>1. rpc["sync"] = "fetched" /\ got'["sync"] = got["sync"]
      BY DEF FetchStands
    <2>2. \A d \in Slots : prov[d] \in Nat /\ prov'[d] \in Nat /\ got["sync"][d] \in Nat
      BY LineTypes, NextTypes
    <2>. QED
      BY <2>1, <2>2 DEF FetchOrdered, ProvGrows
  <1>. QED
    BY <1>1, <1>2

LEMMA StampsStand ==
    ASSUME ShapeInv, ShapeInv', StampsPast, now <= now', UNCHANGED <<seen, started, applied>>
    PROVE  StampsPast'
  <1>1. now \in Int /\ now' \in Int
    BY LineTypes, NextTypes
  <1>2. \A e \in Assignments : seen[e] \in Int
    BY LineTypes
  <1>3. \A j \in Jobs : started[j] \in Int
    BY LineTypes
  <1>. QED
    BY <1>1, <1>2, <1>3 DEF StampsPast

LEMMA NewStands ==
    ASSUME ShapeInv, ShapeInv', QueuedBlank, NewIsLater, JobsMild, ProvGrows, UNCHANGED <<applied, new>>
    PROVE  QueuedBlank' /\ NewIsLater'
  <1>1. QueuedBlank'
    BY DEF QueuedBlank, JobsMild
  <1>2. NewIsLater'
    <2>. SUFFICES ASSUME NEW k \in Jobs, state'[k] \in Mutation, new'[k] # None PROVE Replaced(k)'
      BY DEF NewIsLater
    <2>1. state[k] \in Mutation /\ old'[k] = old[k] /\ Replaced(k)
      BY DEF JobsMild, NewIsLater
    <2>2. SlotOf(old[k]) \in Slots /\ VersionOf(old[k]) \in Nat
      BY <2>1, LineTypes
    <2>3. prov[SlotOf(old[k])] \in Nat /\ prov'[SlotOf(old[k])] \in Nat
      BY <2>2, LineTypes, NextTypes
    <2>. QED
      BY <2>1, <2>2, <2>3 DEF Replaced, ProvGrows
  <1>. QED
    BY <1>1, <1>2

LEMMA SeenStands ==
    ASSUME SeenLater, JobsMild, known' \subseteq known, UNCHANGED started,
           \A e \in known' : seen'[e] = seen[e]
    PROVE  SeenLater'
  BY DEF SeenLater, JobsMild

LEMMA SnapsStay ==
    ASSUME ShapeInv, ShapeInv', SnapsHold, JobsMild, ProvGrows, SnapsStand, UNCHANGED <<started, applied>>
    PROVE  SnapsHold'
  <1>. SUFFICES ASSUME NEW x \in Readers, rpc'[x] \in {"examine", "infer"}
                PROVE  /\ state'[snap'[x].job] \in {"reconciliation_required", "blocked", "canceled", "success"}
                       /\ state'[snap'[x].job] = "reconciliation_required" =>
                             /\ snap'[x].at = MutationTime(snap[x].job)'
                             /\ rpc'[x] = "infer" => Replaced(snap[x].job)'
    BY DEF SnapsHold
  <1>. DEFINE j == snap[x].job
  <1>1. rpc'[x] = rpc[x] /\ snap'[x] = snap[x]
    BY DEF SnapsStand
  <1>2. j \in Jobs
    BY <1>1 DEF ShapeInv, Reading, SnapsKnown
  <1>3. /\ state[j] \in {"reconciliation_required", "blocked", "canceled", "success"}
        /\ state[j] = "reconciliation_required" =>
              /\ snap[x].at = MutationTime(j)
              /\ rpc[x] = "infer" => Replaced(j)
    BY <1>1 DEF SnapsHold
  <1>4. state'[j] \in JobStates
    BY <1>2 DEF ShapeInv, JobTypes
  <1>5. state'[j] \in {"reconciliation_required", "blocked", "canceled", "success"}
    BY <1>2, <1>3, <1>4 DEF JobsMild, JobStates, Active, Queued, PreMutation, Mutation
  <1>6. ASSUME state'[j] = "reconciliation_required"
        PROVE  /\ snap[x].at = MutationTime(j)'
               /\ rpc[x] = "infer" => Replaced(j)'
    <2>1. state[j] = "reconciliation_required" /\ old'[j] = old[j]
      BY <1>2, <1>3, <1>6 DEF JobsMild, Mutation
    <2>2. snap[x].at = MutationTime(j)'
      BY <1>1, <1>3, <2>1 DEF MutationTime
    <2>3. SlotOf(old[j]) \in Slots /\ VersionOf(old[j]) \in Nat
      BY <1>2, <2>1, LineTypes DEF Mutation
    <2>4. prov[SlotOf(old[j])] \in Nat /\ prov'[SlotOf(old[j])] \in Nat
      BY <2>3, LineTypes, NextTypes
    <2>. QED
      BY <1>1, <1>3, <2>1, <2>2, <2>3, <2>4 DEF Replaced, ProvGrows
  <1>. QED
    BY <1>1, <1>5, <1>6

LEMMA AnswersStand ==
    ASSUME SwapInv, SwapInv', ShapeInv, ShapeInv', Answered, JobsMild, ProvGrows, CallsStand
    PROVE  Answered'
  <1>. SUFFICES ASSUME NEW v \in Workers, pc'[v] = "calling", answer'[v] # 0 PROVE Replaced(job[v])'
    BY DEF Answered
  <1>. DEFINE j == job[v]
  <1>1. pc[v] = "calling" /\ job'[v] = j /\ answer'[v] = answer[v]
    BY DEF CallsStand
  <1>2. j \in Jobs /\ state'[j] = "mutating"
    BY <1>1 DEF SwapInv, FencedCalls, JobKnown, WithJob
  <1>3. state[j] \in Mutation /\ old'[j] = old[j] /\ Replaced(j)
    BY <1>1, <1>2 DEF JobsMild, Mutation, Answered
  <1>4. SlotOf(old[j]) \in Slots /\ VersionOf(old[j]) \in Nat
    BY <1>2, <1>3, LineTypes
  <1>5. prov[SlotOf(old[j])] \in Nat /\ prov'[SlotOf(old[j])] \in Nat
    BY <1>4, LineTypes, NextTypes
  <1>. QED
    BY <1>1, <1>3, <1>4, <1>5 DEF Replaced, ProvGrows

\* A step that touches nothing the lineage is made of.
LEMMA MildLine ==
    ASSUME SwapInv, SwapInv', ShapeInv, ShapeInv', LineInv,
           JobsMild, ProvGrows, CallsStand, FetchStands, SnapsStand,
           now <= now', UNCHANGED <<known, seen, started, applied, new>>
    PROVE  LineInv'
  <1>1. /\ KnownBehind /\ FetchOrdered /\ StampsPast /\ QueuedBlank /\ SeenLater /\ SnapsHold
        /\ Answered /\ NewIsLater
    BY DEF LineInv
  <1>. QED
    BY <1>1, KnownStands, StampsStand, NewStands, SeenStands, SnapsStay, AnswersStand DEF LineInv

-----------------------------------------------------------------------------
\* Settling a job of the queue, or closing any.
LEMMA SettleMild ==
    ASSUME JobTypes, NEW j, NEW to \in {"pending", "blocked", "canceled"}, NEW wait, Settle(j, to, wait),
           j \in Jobs /\ to = "pending" => state[j] \in PreMutation
    PROVE  JobsMild /\ NoneSucceeds /\ UNCHANGED <<started, applied, new>>
  <1>1. \A k \in Jobs : state'[k] = IF k = j THEN to ELSE state[k]
    BY DEF JobTypes, Settle
  <1>2. UNCHANGED <<old, started, applied, new>>
    BY DEF Settle
  <1>. QED
    BY <1>1, <1>2 DEF JobsMild, NoneSucceeds, Queued, PreMutation, Mutation

LEMMA JobsMildKept == ASSUME UNCHANGED <<state, old>> PROVE JobsMild /\ NoneSucceeds
  BY DEF JobsMild, NoneSucceeds

\* A worker that moves on outside the call.
LEMMA MoveStands ==
    ASSUME WorkerTypes, NEW w \in Workers, NEW to, pc' = [pc EXCEPT ![w] = to], to # "calling",
           \A v \in Workers \ {w} : job'[v] = job[v] /\ answer'[v] = answer[v]
    PROVE  CallsStand
  BY DEF WorkerTypes, CallsStand

LEMMA LeaveStands ==
    ASSUME WorkerTypes, NEW w \in Workers, Leave(w)
    PROVE  CallsStand /\ prov' = prov
  <1>1. \A v \in Workers \ {w} : job'[v] = job[v] /\ answer'[v] = answer[v]
    BY DEF Leave, WorkerTypes
  <1>2. pc' = [pc EXCEPT ![w] = "idle"] /\ prov' = prov
    BY DEF Leave
  <1>. QED
    BY <1>1, <1>2, MoveStands

\* What an idle provider and idle readers leave alone.
LEMMA OthersStand ==
    ASSUME ShapeInv, UNCHANGED <<prov, rpc, got, snap>>
    PROVE  ProvGrows /\ FetchStands /\ SnapsStand
  BY LineTypes DEF ProvGrows, FetchStands, SnapsStand

\* A worker outside the mutation, and one that fails behind the fence.
LEMMA WorkerMild ==
    ASSUME SwapInv, ShapeInv, NEW w \in Workers, WorkerStep(w),
           ~ EnterMutation(w), ~ ProviderApplied(w)
    PROVE  /\ JobsMild /\ NoneSucceeds /\ CallsStand
           /\ UNCHANGED <<now, known, seen, started, applied, new, prov, readerVars>>
  <1>0. JobTypes /\ WorkerTypes
    BY DEF ShapeInv, Waiting
  <1>1. CASE StartCycle(w)
    <2>1. CallsStand
      BY <1>0, <1>1, MoveStands DEF StartCycle
    <2>. QED
      BY <1>1, <2>1, JobsMildKept DEF StartCycle, jobVars, rowVars, provVars
  <1>2. CASE NoSession(w)
    BY <1>2, JobsMildKept DEF NoSession, jobVars, rowVars, workerVars, provVars, CallsStand
  <1>3. CASE QueueSwaps(w)
    <2>1. CallsStand
      BY <1>0, <1>3, MoveStands DEF QueueSwaps
    <2>2. \/ UNCHANGED <<state, old>>
          \/ \E fresh \in SUBSET {j \in Jobs : state[j] = "absent"} :
                /\ state' = [j \in Jobs |-> IF j \in fresh THEN "pending" ELSE state[j]]
                /\ \E pick : old' = [j \in Jobs |-> IF j \in fresh THEN pick[j] ELSE old[j]]
      BY <1>3 DEF QueueSwaps
    <2>3. JobsMild /\ NoneSucceeds
      BY <2>2 DEF JobsMild, NoneSucceeds, Queued, PreMutation, Mutation
    <2>. QED
      BY <1>3, <2>1, <2>3 DEF QueueSwaps, rowVars, provVars
  <1>4. ASSUME NEW j \in Jobs, Claim(w, j)
        PROVE  /\ JobsMild /\ NoneSucceeds /\ CallsStand
               /\ UNCHANGED <<now, known, seen, started, applied, new, prov, readerVars>>
    <2>1. pc' = [pc EXCEPT ![w] = "claimed"] /\ job' = [job EXCEPT ![w] = j] /\ answer' = answer
      BY <1>4 DEF Claim
    <2>2. CallsStand
      BY <1>0, <2>1, MoveStands DEF WorkerTypes
    <2>3. \A k \in Jobs : state'[k] = IF k = j THEN "running" ELSE IF Expired(k) THEN "pending" ELSE state[k]
      BY <1>4 DEF Claim, Recovered
    <2>4. state[j] \in PreMutation
      BY <1>4 DEF Claim, Claimable, Recovered, Expired, PreMutation
    <2>5. JobsMild /\ NoneSucceeds
      BY <1>4, <2>3, <2>4 DEF Claim, JobsMild, NoneSucceeds, Expired, Queued, PreMutation, Mutation
    <2>. QED
      BY <1>4, <2>2, <2>5 DEF Claim, rowVars, provVars
  <1>5. CASE ClaimNothing(w)
    <2>1. JobsMild /\ NoneSucceeds
      BY <1>5 DEF ClaimNothing, Recovered, Expired, JobsMild, NoneSucceeds, Queued, PreMutation, Mutation
    <2>. QED
      BY <1>0, <1>5, <2>1, LeaveStands DEF ClaimNothing, rowVars
  <1>6. CASE ReadContext(w)
    <2>1. UNCHANGED <<now, rowVars, readerVars>>
      BY <1>6 DEF ReadContext
    <2>2. CASE /\ pc' = [pc EXCEPT ![w] = "context"]
               /\ UNCHANGED <<jobVars, job, answer, provVars>>
      <3>1. CallsStand
        BY <1>0, <2>2, MoveStands
      <3>. QED
        BY <2>1, <2>2, <3>1, JobsMildKept DEF jobVars, rowVars, provVars
    <2>3. CASE Leave(w) /\ Settle(job[w], "blocked", Never)
      BY <1>0, <2>1, <2>3, LeaveStands, SettleMild DEF rowVars
    <2>4. CASE Leave(w) /\ UNCHANGED jobVars
      BY <1>0, <2>1, <2>4, LeaveStands, JobsMildKept DEF jobVars, rowVars
    <2>. QED
      BY <1>6, <2>2, <2>3, <2>4 DEF ReadContext
  <1>7. CASE Revalidate(w)
    <2>1. CallsStand
      BY <1>0, <1>7, MoveStands DEF Revalidate
    <2>. QED
      BY <1>7, <2>1, JobsMildKept DEF Revalidate, jobVars, rowVars, provVars
  <1>8. CASE Refuse(w)
    <2>1. state[job[w]] \in PreMutation
      BY <1>8 DEF Refuse, MayEnter, StillRunning, PreMutation
    <2>2. Settle(job[w], "pending", now + DEFER) \/ Settle(job[w], "blocked", Never)
      BY <1>8 DEF Refuse
    <2>3. JobsMild /\ NoneSucceeds /\ UNCHANGED <<started, applied, new>>
      BY <1>0, <2>1, <2>2, SettleMild
    <2>. QED
      BY <1>0, <1>8, <2>3, LeaveStands DEF Refuse, rowVars
  <1>9. ASSUME NEW needsOperator \in BOOLEAN, FailsBefore(w, needsOperator)
        PROVE  /\ JobsMild /\ NoneSucceeds /\ CallsStand
               /\ UNCHANGED <<now, known, seen, started, applied, new, prov, readerVars>>
    <2>1. \/ UNCHANGED jobVars
          \/ /\ OwnsPreMutation(w)
             /\ \E to \in {"pending", "blocked"} : Settle(job[w], to, Never)
      BY <1>9 DEF FailsBefore
    <2>2. JobsMild /\ NoneSucceeds /\ UNCHANGED <<started, applied, new>>
      BY <1>0, <2>1, SettleMild, JobsMildKept DEF OwnsPreMutation, jobVars
    <2>. QED
      BY <1>0, <1>9, <2>2, LeaveStands DEF FailsBefore, rowVars
  <1>10. CASE EndCycle(w) \/ Crash(w)
    BY <1>0, <1>10, LeaveStands, JobsMildKept DEF EndCycle, Crash, jobVars, rowVars
  <1>11. CASE Uncertain(w)
    <2>1. \/ state' = state
          \/ state[job[w]] \in Mutation /\ state' = [state EXCEPT ![job[w]] = "reconciliation_required"]
      BY <1>11 DEF Uncertain
    <2>2. old' = old
      BY <1>11 DEF Uncertain
    <2>3. JobsMild /\ NoneSucceeds
      BY <1>0, <2>1, <2>2 DEF JobTypes, JobsMild, NoneSucceeds, Queued, PreMutation, Mutation
    <2>. QED
      BY <1>0, <1>11, <2>3, LeaveStands DEF Uncertain, rowVars
  <1>. QED
    BY <1>1, <1>2, <1>3, <1>4, <1>5, <1>6, <1>7, <1>8, <1>9, <1>10, <1>11 DEF WorkerStep

\* The fence: the job comes from the queue, so nothing is known yet of what
\* replaces it, and whatever the inventory showed it showed before now.
LEMMA EnterLine ==
    ASSUME SwapInv, SwapInv', ShapeInv, ShapeInv', LineInv, NEW w \in Workers, EnterMutation(w)
    PROVE  LineInv' /\ NoneSucceeds
  <1>0. /\ KnownBehind /\ FetchOrdered /\ StampsPast /\ QueuedBlank /\ SeenLater /\ SnapsHold
        /\ Answered /\ NewIsLater /\ JobTypes /\ WorkerTypes /\ RowTypes
    BY DEF LineInv, ShapeInv, Waiting
  <1>1. /\ UNCHANGED <<now, old, applied, new, known, seen, job, answer, prov, rpc, got, snap>>
        /\ state' = [state EXCEPT ![job[w]] = "mutating"]
        /\ started' = [started EXCEPT ![job[w]] = now]
        /\ pc' = [pc EXCEPT ![w] = "calling"]
        /\ job[w] \in Jobs /\ state[job[w]] = "running" /\ pc[w] = "checked"
    BY DEF EnterMutation, MayEnter, StillRunning, SwapInv, JobKnown, WithJob, readerVars
  <1>2. PICK j \in Jobs : j = job[w]
    BY <1>1
  <1>3. \A k \in Jobs : /\ state'[k] = IF k = j THEN "mutating" ELSE state[k]
                        /\ started'[k] = IF k = j THEN now ELSE started[k]
    BY <1>0, <1>1, <1>2 DEF JobTypes
  <1>4. applied[j] = Never /\ new[j] = None
    BY <1>0, <1>1, <1>2 DEF QueuedBlank, Queued, PreMutation
  <1>5. KnownBehind' /\ FetchOrdered'
    BY <1>0, <1>1, KnownStands, OthersStand
  <1>6. StampsPast'
    BY <1>0, <1>1, <1>3, <1>4, LineTypes DEF StampsPast
  <1>7. QueuedBlank'
    BY <1>0, <1>1, <1>3 DEF QueuedBlank, Queued, PreMutation
  <1>8. SeenLater'
    <2>1. \A e \in known : seen[e] \in Int /\ seen[e] <= now
      BY <1>0, LineTypes DEF RowTypes, StampsPast
    <2>2. now \in Int
      BY LineTypes
    <2>3. \A e \in known : ~ (seen[e] > now)
      BY <2>1, <2>2
    <2>. QED
      BY <1>0, <1>1, <1>3, <2>3 DEF SeenLater
  <1>9. SnapsHold'
    <2>1. \A x \in Readers : rpc[x] \in {"examine", "infer"} => snap[x].job \in Jobs /\ snap[x].job # j
      BY <1>0, <1>1, <1>2 DEF SnapsHold, ShapeInv, Reading, SnapsKnown
    <2>2. \A k \in Jobs \ {j} : state'[k] = state[k] /\ MutationTime(k)' = MutationTime(k)
      BY <1>1, <1>3 DEF MutationTime
    <2>3. \A k \in Jobs : Replaced(k)' = Replaced(k)
      BY <1>1 DEF Replaced
    <2>. QED
      BY <1>0, <1>1, <2>1, <2>2, <2>3 DEF SnapsHold, MutationTime, Replaced
  <1>10. Answered'
    <2>1. answer[w] = 0
      BY <1>1 DEF ShapeInv, Waiting, RequestsAwaited
    <2>2. \A v \in Workers : pc'[v] = IF v = w THEN "calling" ELSE pc[v]
      BY <1>0, <1>1 DEF WorkerTypes
    <2>. QED
      BY <1>0, <1>1, <2>1, <2>2 DEF Answered, Replaced
  <1>11. NewIsLater'
    BY <1>0, <1>1, <1>3, <1>4 DEF NewIsLater, Replaced
  <1>12. NoneSucceeds
    BY <1>3 DEF NoneSucceeds
  <1>. QED
    BY <1>5, <1>6, <1>7, <1>8, <1>9, <1>10, <1>11, <1>12 DEF LineInv

\* The answer names an assignment the provider chose after the old one.
LEMMA AppliedLine ==
    ASSUME SwapInv, SwapInv', ShapeInv, ShapeInv', LineInv, NEW w \in Workers, ProviderApplied(w)
    PROVE  LineInv' /\ NoneSucceeds
  <1>0. /\ KnownBehind /\ FetchOrdered /\ StampsPast /\ QueuedBlank /\ SeenLater /\ SnapsHold
        /\ Answered /\ NewIsLater /\ JobTypes /\ WorkerTypes /\ RowTypes
    BY DEF LineInv, ShapeInv, Waiting
  <1>1. /\ UNCHANGED <<now, old, started, known, seen, job, answer, prov, rpc, got, snap>>
        /\ state' = [state EXCEPT ![job[w]] = "provider_applied"]
        /\ applied' = [applied EXCEPT ![job[w]] = now]
        /\ \E e : new' = [new EXCEPT ![job[w]] = e]
        /\ pc' = [pc EXCEPT ![w] = "applied"]
        /\ job[w] \in Jobs /\ state[job[w]] = "mutating" /\ pc[w] = "calling" /\ answer[w] # 0
    BY DEF ProviderApplied, SwapInv, JobKnown, WithJob, readerVars, provVars
  <1>2. PICK j \in Jobs : j = job[w]
    BY <1>1
  <1>3. \A k \in Jobs : /\ state'[k] = IF k = j THEN "provider_applied" ELSE state[k]
                        /\ applied'[k] = IF k = j THEN now ELSE applied[k]
                        /\ k # j => new'[k] = new[k]
    BY <1>0, <1>1, <1>2 DEF JobTypes
  <1>4. Replaced(j)
    BY <1>0, <1>1, <1>2 DEF Answered
  <1>5. KnownBehind' /\ FetchOrdered'
    BY <1>0, <1>1, KnownStands, OthersStand
  <1>6. StampsPast'
    BY <1>0, <1>1, <1>3, LineTypes DEF StampsPast
  <1>7. QueuedBlank'
    BY <1>0, <1>1, <1>3 DEF QueuedBlank, Queued, PreMutation
  <1>8. SeenLater'
    BY <1>0, <1>1, <1>2, <1>3 DEF SeenLater, Mutation
  <1>9. SnapsHold'
    <2>1. \A x \in Readers : rpc[x] \in {"examine", "infer"} => snap[x].job \in Jobs /\ snap[x].job # j
      BY <1>0, <1>1, <1>2 DEF SnapsHold, ShapeInv, Reading, SnapsKnown
    <2>. QED
      BY <1>0, <1>1, <1>3, <2>1 DEF SnapsHold, MutationTime, Replaced
  <1>10. Answered'
    <2>1. \A v \in Workers : pc'[v] = IF v = w THEN "applied" ELSE pc[v]
      BY <1>0, <1>1 DEF WorkerTypes
    <2>. QED
      BY <1>0, <1>1, <2>1 DEF Answered, Replaced
  <1>11. NewIsLater'
    BY <1>0, <1>1, <1>3, <1>4 DEF NewIsLater, Replaced
  <1>12. NoneSucceeds
    BY <1>3 DEF NoneSucceeds
  <1>. QED
    BY <1>5, <1>6, <1>7, <1>8, <1>9, <1>10, <1>11, <1>12 DEF LineInv

\* The provider moves on from the old assignment, which it had reached.
LEMMA ProviderLine ==
    ASSUME SwapInv, SwapInv', ShapeInv, ShapeInv', LineInv, ProviderStep
    PROVE  LineInv' /\ NoneSucceeds
  <1>0. /\ KnownBehind /\ FetchOrdered /\ StampsPast /\ QueuedBlank /\ SeenLater /\ SnapsHold
        /\ Answered /\ NewIsLater /\ WorkerTypes /\ ProviderTypes /\ now <= now
    BY LineTypes DEF LineInv, ShapeInv, Waiting
  <1>1. UNCHANGED <<now, state, old, started, applied, new, known, seen, rpc, got, snap, pc, job>>
    BY DEF ProviderStep, ProviderSwaps, ProviderRefuses, LateSwap, jobVars, rowVars, workerVars, readerVars
  <1>2. JobsMild /\ NoneSucceeds /\ FetchStands /\ SnapsStand
    BY <1>1, JobsMildKept DEF FetchStands, SnapsStand
  <1>3. ProvGrows
    <2>1. \A d \in Slots : prov[d] \in Nat
      BY LineTypes
    <2>2. prov' = prov \/ \E d : prov' = [prov EXCEPT ![d] = @ + 1]
      BY DEF ProviderStep, ProviderSwaps, ProviderRefuses, LateSwap
    <2>. QED
      BY <1>0, <2>1, <2>2 DEF ProvGrows, ProviderTypes
  <1>4. CASE answer' = answer
    <2>1. CallsStand
      BY <1>1, <1>4 DEF CallsStand
    <2>. QED
      BY <1>0, <1>1, <1>2, <1>3, <2>1, MildLine
  <1>5. ASSUME NEW w \in Workers, ProviderSwaps(w) PROVE Answered'
    <2>1. pc[w] = "calling"
      BY <1>5 DEF ProviderSwaps, ShapeInv, Waiting, RequestsAwaited
    <2>2. PICK j \in Jobs : j = job[w] /\ state[j] = "mutating"
      BY <2>1 DEF SwapInv, FencedCalls, JobKnown, WithJob
    <2>3. old[j] \in known /\ SlotOf(old[j]) \in Slots /\ VersionOf(old[j]) \in Nat
      BY <2>2, LineTypes DEF Mutation
    <2>4. VersionOf(old[j]) <= prov[SlotOf(old[j])] /\ prov[SlotOf(old[j])] \in Nat
      BY <1>0, <2>3, LineTypes DEF KnownBehind
    <2>5. prov'[SlotOf(old[j])] = prov[SlotOf(old[j])] + 1
      BY <1>0, <1>5, <2>2, <2>3 DEF ProviderSwaps, ProviderTypes
    <2>6. Replaced(j)'
      BY <1>1, <2>3, <2>4, <2>5 DEF Replaced
    <2>7. \A v \in Workers : pc[v] = "calling" => v = w
      BY <2>1 DEF SwapInv, FencedCalls
    <2>. QED
      BY <1>1, <2>2, <2>6, <2>7 DEF Answered
  <1>6. ASSUME NEW w \in Workers, ProviderSwaps(w) PROVE LineInv'
    BY <1>0, <1>1, <1>2, <1>3, <1>5, <1>6, KnownStands, StampsStand, NewStands, SeenStands, SnapsStay DEF LineInv
  <1>. QED
    BY <1>2, <1>4, <1>6 DEF ProviderStep, ProviderRefuses, LateSwap, workerVars

\* Administrators who do not requeue, probes, and the clock.
LEMMA AdminLine ==
    ASSUME AdminOps \subseteq {"cancel"}, SwapInv, SwapInv', ShapeInv, ShapeInv', LineInv,
           AdminStep \/ Tick \/ \E e \in Assignments : Qualify(e)
    PROVE  LineInv' /\ NoneSucceeds
  <1>0. JobTypes /\ now \in Int
    BY LineTypes DEF ShapeInv
  <1>1. /\ UNCHANGED <<known, seen, prov, readerVars, pc, job, answer>>
        /\ now <= now'
        /\ \/ UNCHANGED <<state, old, started, applied, new>>
           \/ \E j \in Jobs : state[j] \in PreMutation /\ Settle(j, "canceled", Never)
    <2>1. CASE AdminStep
      BY <1>0, <2>1 DEF AdminStep, Cancel, Retry, RequestManual, SetGate, jobVars, rowVars, workerVars, provVars
    <2>2. CASE Tick \/ \E e \in Assignments : Qualify(e)
      BY <1>0, <2>2 DEF Tick, Qualify, jobVars, rowVars, workerVars, provVars
    <2>. QED
      BY <2>1, <2>2
  <1>2. JobsMild /\ NoneSucceeds /\ UNCHANGED <<started, applied, new>>
    BY <1>0, <1>1, JobsMildKept, SettleMild
  <1>3. CallsStand /\ ProvGrows /\ FetchStands /\ SnapsStand
    BY <1>1, OthersStand DEF CallsStand, readerVars
  <1>. QED
    BY <1>1, <1>2, <1>3, MildLine

-----------------------------------------------------------------------------
\* A sync stores what it fetched: nothing it fetched is older than what was
\* stored, so no earlier assignment of a slot gets a new stamp.
LEMMA SyncStoreLine ==
    ASSUME SwapInv, SwapInv', ShapeInv, ShapeInv', LineInv, SyncStore
    PROVE  LineInv' /\ NoneSucceeds
  <1>0. /\ KnownBehind /\ FetchOrdered /\ StampsPast /\ QueuedBlank /\ SeenLater /\ SnapsHold
        /\ Answered /\ NewIsLater /\ RowTypes /\ ReaderTypes /\ now \in Int
    BY LineTypes DEF LineInv, ShapeInv, Reading
  <1>1. /\ "sync" \in Readers /\ rpc["sync"] = "fetched"
        /\ rpc' = [rpc EXCEPT !["sync"] = "stored"]
        /\ known' = known \cup Fetched("sync")
        /\ seen' = [e \in Assignments |-> IF e \in Fetched("sync") THEN now ELSE seen[e]]
        /\ UNCHANGED <<now, state, old, started, applied, new, prov, got, snap, pc, job, answer>>
    BY DEF SyncStore, jobVars, workerVars, provVars
  <1>2. JobsMild /\ NoneSucceeds
    BY <1>1, JobsMildKept
  <1>3. CallsStand /\ FetchStands /\ SnapsStand
    BY <1>0, <1>1 DEF CallsStand, FetchStands, SnapsStand, ReaderTypes
  <1>4. ProvGrows
    BY <1>1, LineTypes DEF ProvGrows
  <1>5. \A e \in Fetched("sync") :
           /\ e \in Assignments /\ SlotOf(e) \in Slots
           /\ VersionOf(e) = got["sync"][SlotOf(e)] /\ VersionOf(e) <= prov[SlotOf(e)]
    <2>1. \A e \in Fetched("sync") : SlotOf(e) \in Slots /\ VersionOf(e) = got["sync"][SlotOf(e)]
      BY DEF Fetched, SlotOf, VersionOf
    <2>. QED
      BY <1>0, <1>1, <2>1, FetchedTypes DEF FetchOrdered
  <1>6. KnownBehind'
    BY <1>0, <1>1, <1>5 DEF KnownBehind
  <1>7. FetchOrdered'
    BY <1>0, <1>1 DEF FetchOrdered, ReaderTypes
  <1>8. StampsPast'
    BY <1>0, <1>1 DEF StampsPast
  <1>9. SeenLater'
    <2>. SUFFICES ASSUME NEW j \in Jobs, NEW e \in known', state[j] \in Mutation,
                         SlotOf(e) = SlotOf(old[j]), seen'[e] > started[j]
                  PROVE  VersionOf(old[j]) <= VersionOf(e)
      BY <1>1 DEF SeenLater
    <2>1. CASE e \in Fetched("sync")
      <3>1. old[j] \in known
        BY LineTypes
      <3>. QED
        BY <1>0, <1>1, <1>5, <2>1, <3>1 DEF FetchOrdered
    <2>2. CASE e \notin Fetched("sync")
      BY <1>0, <1>1, <2>2 DEF SeenLater, RowTypes
    <2>. QED
      BY <2>1, <2>2
  <1>10. QueuedBlank' /\ NewIsLater'
    BY <1>0, <1>1, <1>2, <1>4, NewStands
  <1>. QED
    BY <1>0, <1>1, <1>2, <1>3, <1>4, <1>6, <1>7, <1>8, <1>9, <1>10, SnapsStay, AnswersStand DEF LineInv

\* A fetch reads the provider, which is ahead of everything stored.
LEMMA FetchLine ==
    ASSUME SwapInv, SwapInv', ShapeInv, ShapeInv', LineInv, NEW x \in Readers, Fetch(x)
    PROVE  LineInv' /\ NoneSucceeds
  <1>0. /\ KnownBehind /\ FetchOrdered /\ StampsPast /\ QueuedBlank /\ SeenLater /\ SnapsHold
        /\ Answered /\ NewIsLater /\ ReaderTypes /\ now <= now
    BY LineTypes DEF LineInv, ShapeInv, Reading
  <1>1. /\ rpc' = [rpc EXCEPT ![x] = "fetched"] /\ got' = [got EXCEPT ![x] = prov]
        /\ UNCHANGED <<now, state, old, started, applied, new, known, seen, prov, snap, pc, job, answer>>
    BY DEF Fetch, jobVars, rowVars, workerVars, provVars
  <1>2. JobsMild /\ NoneSucceeds /\ CallsStand /\ SnapsStand
    BY <1>0, <1>1, JobsMildKept DEF CallsStand, SnapsStand, ReaderTypes
  <1>3. ProvGrows
    BY <1>1, LineTypes DEF ProvGrows
  <1>4. KnownBehind'
    BY <1>0, <1>1 DEF KnownBehind
  <1>5. FetchOrdered'
    <2>1. CASE x = "sync"
      BY <1>0, <1>1, <2>1, LineTypes DEF FetchOrdered, KnownBehind, ReaderTypes
    <2>2. CASE x # "sync"
      BY <1>0, <1>1, <2>2 DEF FetchOrdered, ReaderTypes
    <2>. QED
      BY <2>1, <2>2
  <1>. QED
    BY <1>0, <1>1, <1>2, <1>3, <1>4, <1>5, StampsStand, NewStands, SeenStands, SnapsStay, AnswersStand
    DEF LineInv

\* Steps of a reader that neither store rows nor touch a job.
LEMMA ReaderMild ==
    ASSUME SwapInv, SwapInv', ShapeInv, ShapeInv', LineInv, JobsMild, NoneSucceeds,
           FetchStands, SnapsStand,
           UNCHANGED <<now, started, applied, new, known, seen, workerVars, provVars>>
    PROVE  LineInv' /\ NoneSucceeds
  <1>1. ProvGrows /\ CallsStand /\ now <= now'
    BY LineTypes DEF ProvGrows, CallsStand, workerVars, provVars
  <1>. QED
    BY <1>1, MildLine

LEMMA ReaderEndsStands ==
    ASSUME ReaderTypes, NEW x \in Readers, ReaderEnds(x)
    PROVE  FetchStands /\ SnapsStand
  BY DEF ReaderTypes, ReaderEnds, FetchStands, SnapsStand

\* A reader that goes on to a state where it holds nothing to be kept.
LEMMA ReaderGoesOn ==
    ASSUME ReaderTypes, NEW x \in Readers, NEW to \in {"arrived", "stored", "select", "close", "finish"},
           rpc' = [rpc EXCEPT ![x] = to], got' = got,
           \A y \in Readers \ {x} : snap'[y] = snap[y]
    PROVE  FetchStands /\ SnapsStand
  BY DEF ReaderTypes, FetchStands, SnapsStand

LEMMA StoreLine ==
    ASSUME SwapInv, SwapInv', ShapeInv, ShapeInv', LineInv,
           SyncFinish \/ DashArrives \/ DashStore \/ \E x \in Readers : ReaderStops(x)
    PROVE  LineInv' /\ NoneSucceeds
  <1>0. ReaderTypes
    BY DEF ShapeInv, Reading
  <1>1. UNCHANGED <<now, state, old, started, applied, new, known, seen, workerVars, provVars>>
    BY DEF SyncFinish, DashArrives, DashStore, ReaderStops, jobVars, rowVars
  <1>2. FetchStands /\ SnapsStand
    <2>1. CASE SyncFinish
      BY <1>0, <2>1, ReaderGoesOn DEF SyncFinish
    <2>2. CASE DashArrives
      BY <1>0, <2>2, ReaderGoesOn DEF DashArrives
    <2>3. CASE DashStore
      BY <1>0, <2>3, ReaderGoesOn, ReaderEndsStands DEF DashStore
    <2>4. ASSUME NEW x \in Readers, ReaderStops(x) PROVE FetchStands /\ SnapsStand
      BY <1>0, <2>4, ReaderEndsStands DEF ReaderStops
    <2>. QED
      BY <2>1, <2>2, <2>3, <2>4
  <1>. QED
    BY <1>1, <1>2, JobsMildKept, ReaderMild

\* A reader takes up a job that waits: from here on it is not mutating.
LEMMA SelectLine ==
    ASSUME SwapInv, SwapInv', ShapeInv, ShapeInv', LineInv, NEW x \in Readers, Select(x)
    PROVE  LineInv' /\ NoneSucceeds
  <1>0. /\ KnownBehind /\ FetchOrdered /\ StampsPast /\ QueuedBlank /\ SeenLater /\ SnapsHold
        /\ Answered /\ NewIsLater /\ ReaderTypes /\ now <= now
    BY LineTypes DEF LineInv, ShapeInv, Reading
  <1>1. UNCHANGED <<now, state, old, started, applied, new, known, seen, workerVars, provVars>>
    BY DEF Select, jobVars, rowVars
  <1>2. JobsMild /\ NoneSucceeds
    BY <1>1, JobsMildKept
  <1>3. CASE ReaderEnds(x)
    BY <1>0, <1>1, <1>2, <1>3, ReaderEndsStands, ReaderMild
  <1>4. ASSUME NEW j \in Jobs,
               snap' = [snap EXCEPT ![x] = [job |-> j, state |-> state[j],
                                            at |-> MutationTime(j), pick |-> None]],
               rpc' = [rpc EXCEPT ![x] = "finish"], got' = got
        PROVE  LineInv' /\ NoneSucceeds
    <2>1. \A y \in Readers \ {x} : snap'[y] = snap[y]
      BY <1>0, <1>4 DEF ReaderTypes
    <2>2. FetchStands /\ SnapsStand
      BY <1>0, <1>4, <2>1, ReaderGoesOn
    <2>. QED
      BY <1>1, <1>2, <2>2, ReaderMild
  <1>5. ASSUME NEW j \in Jobs, state[j] = "reconciliation_required",
               snap' = [snap EXCEPT ![x] = [job |-> j, state |-> state[j],
                                            at |-> MutationTime(j), pick |-> None]],
               rpc' = [rpc EXCEPT ![x] = "examine"], got' = got
        PROVE  LineInv' /\ NoneSucceeds
    <2>1. \A y \in Readers : /\ rpc'[y] = IF y = x THEN "examine" ELSE rpc[y]
                             /\ y # x => snap'[y] = snap[y]
      BY <1>0, <1>5 DEF ReaderTypes
    <2>2. snap'[x].job = j /\ snap'[x].at = MutationTime(j)
      BY <1>0, <1>5 DEF ReaderTypes
    <2>3. \A k : MutationTime(k)' = MutationTime(k)
      BY <1>1 DEF MutationTime
    <2>4. SnapsHold'
      <3>. SUFFICES ASSUME NEW y \in Readers, rpc'[y] \in {"examine", "infer"}
                    PROVE  /\ state[snap'[y].job] \in {"reconciliation_required", "blocked", "canceled", "success"}
                           /\ state[snap'[y].job] = "reconciliation_required" =>
                                 /\ snap'[y].at = MutationTime(snap[y].job)'
                                 /\ rpc'[y] = "infer" => Replaced(snap[y].job)'
        BY <1>1 DEF SnapsHold
      <3>1. CASE y = x
        BY <1>1, <1>5, <2>1, <2>2, <3>1 DEF MutationTime
      <3>2. CASE y # x
        BY <1>0, <1>1, <2>1, <3>2 DEF SnapsHold, MutationTime, Replaced, provVars
      <3>. QED
        BY <3>1, <3>2
    <2>5. CallsStand /\ FetchStands /\ ProvGrows
      BY <1>1, <1>5, <2>1, LineTypes DEF CallsStand, FetchStands, ProvGrows, workerVars, provVars
    <2>. QED
      BY <1>0, <1>1, <1>2, <2>4, <2>5, KnownStands, StampsStand, NewStands, SeenStands, AnswersStand DEF LineInv
  <1>6. \/ ReaderEnds(x)
        \/ /\ \E j \in Jobs :
                 /\ snap' = [snap EXCEPT ![x] = [job |-> j, state |-> state[j],
                                                 at |-> MutationTime(j), pick |-> None]]
                 /\ \/ rpc' = [rpc EXCEPT ![x] = "finish"]
                    \/ rpc' = [rpc EXCEPT ![x] = "examine"] /\ state[j] = "reconciliation_required"
           /\ got' = got
    BY DEF Select
  <1>. QED
    BY <1>3, <1>4, <1>5, <1>6

\* The evidence a replacement is inferred from: an assignment of the slot,
\* seen after the mutation, that is not the old one is a later one.
LEMMA ExamineLine ==
    ASSUME SwapInv, SwapInv', ShapeInv, ShapeInv', LineInv, NEW x \in Readers, Examine(x)
    PROVE  LineInv' /\ NoneSucceeds
  <1>0. /\ KnownBehind /\ FetchOrdered /\ StampsPast /\ QueuedBlank /\ SeenLater /\ SnapsHold
        /\ Answered /\ NewIsLater /\ ReaderTypes /\ RowTypes /\ now <= now
    BY LineTypes DEF LineInv, ShapeInv, Reading
  <1>1. UNCHANGED <<now, state, old, started, applied, new, known, seen, workerVars, provVars>>
        /\ rpc[x] = "examine"
    BY DEF Examine, jobVars, rowVars
  <1>2. JobsMild /\ NoneSucceeds
    BY <1>1, JobsMildKept
  <1>3. CASE ReaderEnds(x)
    BY <1>0, <1>1, <1>2, <1>3, ReaderEndsStands, ReaderMild
  <1>4. CASE rpc' = [rpc EXCEPT ![x] = "close"] /\ UNCHANGED <<got, dashAt, snap>>
    <2>1. FetchStands /\ SnapsStand
      BY <1>0, <1>4, ReaderGoesOn
    <2>. QED
      BY <1>1, <1>2, <2>1, ReaderMild
  <1>5. ASSUME Inferable(snap[x].job, snap[x].at), NEW e \in Candidates(snap[x].job, snap[x].at),
               rpc' = [rpc EXCEPT ![x] = "infer"], snap' = [snap EXCEPT ![x].pick = e], got' = got
        PROVE  LineInv' /\ NoneSucceeds
    <2>1. \A y \in Readers : /\ rpc'[y] = IF y = x THEN "infer" ELSE rpc[y]
                             /\ y # x => snap'[y] = snap[y]
      BY <1>0, <1>5 DEF ReaderTypes
    <2>2. snap'[x].job = snap[x].job /\ snap'[x].at = snap[x].at
      BY <1>0, <1>5 DEF ReaderTypes
    <2>3. PICK j \in Jobs : j = snap[x].job
      BY <1>1 DEF ShapeInv, Reading, SnapsKnown
    <2>4. /\ state[j] \in {"reconciliation_required", "blocked", "canceled", "success"}
          /\ state[j] = "reconciliation_required" => snap[x].at = MutationTime(j)
      BY <1>0, <1>1, <2>3 DEF SnapsHold
    <2>5. ASSUME state[j] = "reconciliation_required" PROVE Replaced(j)
      <3>1. /\ e \in known /\ e # old[j] /\ SlotOf(e) = SlotOf(old[j])
            /\ seen[e] > MutationTime(j)
        BY <1>5, <2>3, <2>4, <2>5 DEF Candidates, FreshAfter
      <3>2. /\ started[j] \in Int /\ applied[j] \in Int /\ old[j] \in known
            /\ SlotOf(old[j]) \in Slots /\ VersionOf(old[j]) \in Nat /\ VersionOf(e) \in Nat
            /\ prov[SlotOf(e)] \in Nat
        BY <2>5, <3>1, LineTypes DEF Mutation
      <3>3. seen[e] \in Int
        BY <1>0, <3>1, LineTypes DEF RowTypes
      <3>4. started[j] <= MutationTime(j) /\ MutationTime(j) \in Int
        BY <1>0, <3>2 DEF StampsPast, MutationTime
      <3>5. VersionOf(old[j]) <= VersionOf(e)
        BY <1>0, <2>5, <3>1, <3>2, <3>3, <3>4 DEF SeenLater, Mutation
      <3>6. VersionOf(old[j]) # VersionOf(e)
        <4>1. e \in Assignments /\ old[j] \in Assignments
          BY <1>0, <3>1, <3>2 DEF RowTypes
        <4>. QED
          BY <3>1, <4>1 DEF Assignments, SlotOf, VersionOf
      <3>7. VersionOf(e) <= prov[SlotOf(e)]
        BY <1>0, <3>1 DEF KnownBehind
      <3>. QED
        BY <3>1, <3>2, <3>5, <3>6, <3>7 DEF Replaced
    <2>6. SnapsHold'
      <3>. SUFFICES ASSUME NEW y \in Readers, rpc'[y] \in {"examine", "infer"}
                    PROVE  /\ state[snap'[y].job] \in {"reconciliation_required", "blocked", "canceled", "success"}
                           /\ state[snap'[y].job] = "reconciliation_required" =>
                                 /\ snap'[y].at = MutationTime(snap[y].job)'
                                 /\ rpc'[y] = "infer" => Replaced(snap[y].job)'
        BY <1>1 DEF SnapsHold
      <3>1. CASE y = x
        BY <1>1, <2>2, <2>3, <2>4, <2>5, <3>1 DEF MutationTime, Replaced, provVars
      <3>2. CASE y # x
        BY <1>0, <1>1, <2>1, <3>2 DEF SnapsHold, MutationTime, Replaced, provVars
      <3>. QED
        BY <3>1, <3>2
    <2>7. CallsStand /\ FetchStands /\ ProvGrows
      BY <1>1, <1>5, <2>1, LineTypes DEF CallsStand, FetchStands, ProvGrows, workerVars, provVars
    <2>. QED
      BY <1>0, <1>1, <1>2, <2>6, <2>7, KnownStands, StampsStand, NewStands, SeenStands, AnswersStand DEF LineInv
  <1>6. \/ ReaderEnds(x)
        \/ rpc' = [rpc EXCEPT ![x] = "close"] /\ UNCHANGED <<got, dashAt, snap>>
        \/ /\ Inferable(snap[x].job, snap[x].at)
           /\ rpc' = [rpc EXCEPT ![x] = "infer"]
           /\ snap' = [snap EXCEPT ![x].pick = CHOOSE e \in Candidates(snap[x].job, snap[x].at) : TRUE]
           /\ got' = got
    BY DEF Examine
  <1>. QED
    BY <1>3, <1>4, <1>5, <1>6, CandidateChosen

\* The inference is recorded: the job is still uncertain, so the evidence
\* still stands.
LEMMA InferLine ==
    ASSUME SwapInv, SwapInv', ShapeInv, ShapeInv', LineInv, NEW x \in Readers, Infer(x)
    PROVE  LineInv' /\ NoneSucceeds
  <1>0. /\ KnownBehind /\ FetchOrdered /\ StampsPast /\ QueuedBlank /\ SeenLater /\ SnapsHold
        /\ Answered /\ NewIsLater /\ ReaderTypes /\ JobTypes /\ now <= now
    BY LineTypes DEF LineInv, ShapeInv, Reading
  <1>1. UNCHANGED <<now, state, old, started, applied, known, seen, workerVars, provVars>>
        /\ rpc[x] = "infer"
    BY DEF Infer, rowVars
  <1>2. JobsMild /\ NoneSucceeds
    BY <1>1, JobsMildKept
  <1>3. CASE ReaderEnds(x) /\ new' = new
    BY <1>0, <1>1, <1>2, <1>3, ReaderEndsStands, ReaderMild
  <1>4. CASE /\ state[snap[x].job] = "reconciliation_required"
             /\ new' = [new EXCEPT ![snap[x].job] = snap[x].pick]
             /\ rpc' = [rpc EXCEPT ![x] = "finish"]
             /\ UNCHANGED <<got, dashAt, snap>>
    <2>1. PICK j \in Jobs : j = snap[x].job
      BY <1>1 DEF ShapeInv, Reading, SnapsKnown
    <2>2. Replaced(j) /\ \A k \in Jobs \ {j} : new'[k] = new[k]
      BY <1>0, <1>1, <1>4, <2>1 DEF SnapsHold, JobTypes
    <2>3. NewIsLater'
      BY <1>0, <1>1, <2>2 DEF NewIsLater, Replaced, provVars
    <2>4. QueuedBlank'
      BY <1>0, <1>1, <1>4, <2>1, <2>2 DEF QueuedBlank, Queued, PreMutation
    <2>5. FetchStands /\ SnapsStand
      BY <1>0, <1>4, ReaderGoesOn
    <2>6. CallsStand /\ ProvGrows
      BY <1>1, LineTypes DEF CallsStand, ProvGrows, workerVars, provVars
    <2>. QED
      BY <1>0, <1>1, <1>2, <2>3, <2>4, <2>5, <2>6, KnownStands, StampsStand, SeenStands, SnapsStay, AnswersStand
      DEF LineInv
  <1>. QED
    BY <1>3, <1>4 DEF Infer

LEMMA CloseLine ==
    ASSUME SwapInv, SwapInv', ShapeInv, ShapeInv', LineInv, NEW x \in Readers, Close(x)
    PROVE  LineInv' /\ NoneSucceeds
  <1>0. ReaderTypes /\ JobTypes
    BY DEF ShapeInv, Reading
  <1>1. ReaderEnds(x) /\ UNCHANGED <<now, known, seen, workerVars, provVars>>
        /\ (UNCHANGED jobVars \/ Settle(snap[x].job, "blocked", Never))
    BY DEF Close, rowVars
  <1>2. JobsMild /\ NoneSucceeds /\ UNCHANGED <<started, applied, new>>
    BY <1>0, <1>1, JobsMildKept, SettleMild DEF jobVars
  <1>. QED
    BY <1>0, <1>1, <1>2, ReaderEndsStands, ReaderMild

\* A job succeeds, or nothing is learned.
LEMMA FinishLine ==
    ASSUME SwapInv, SwapInv', ShapeInv, ShapeInv', LineInv, NEW x \in Readers, Finish(x)
    PROVE  /\ LineInv'
           /\ NoneSucceeds \/ \E j \in Jobs : Confirmed(j) /\ Succeed(j)
  <1>0. /\ KnownBehind /\ FetchOrdered /\ StampsPast /\ QueuedBlank /\ SeenLater /\ SnapsHold
        /\ Answered /\ NewIsLater /\ ReaderTypes /\ JobTypes /\ RowTypes /\ now \in Int
    BY LineTypes DEF LineInv, ShapeInv, Reading
  <1>1. UNCHANGED <<now, workerVars, provVars>> /\ rpc[x] = "finish"
    BY DEF Finish
  <1>2. CASE UNCHANGED <<jobVars, rowVars>>
    <2>1. FetchStands /\ SnapsStand
      BY <1>0, <1>2, ReaderEndsStands, ReaderGoesOn DEF Finish
    <2>2. JobsMild /\ NoneSucceeds
      BY <1>2, JobsMildKept DEF jobVars
    <2>. QED
      BY <1>1, <1>2, <2>1, <2>2, ReaderMild DEF jobVars, rowVars
  <1>3. CASE Confirmed(snap[x].job) /\ Succeed(snap[x].job) /\ ReaderEnds(x)
    <2>1. PICK j \in Jobs : j = snap[x].job
      BY <1>1 DEF ShapeInv, Reading, SnapsKnown
    <2>2. Confirmed(j) /\ Succeed(j)
      BY <1>3, <2>1
    <2>3. \A k \in Jobs : /\ state'[k] = IF k = j THEN "success" ELSE state[k]
                          /\ old'[k] = IF k # j /\ old[k] = old[j] THEN None ELSE old[k]
      BY <1>0, <2>2 DEF Succeed, JobTypes
    <2>4. state[j] \in Mutation /\ \A k \in Jobs \ {j} : state[k] \notin Mutation
      BY <2>2 DEF Confirmed, SwapInv, OneAtATime, Mutation
    <2>5. JobsMild
      BY <2>3, <2>4 DEF JobsMild, Queued, PreMutation, Mutation
    <2>6. /\ known' = known \ {old[j]} /\ UNCHANGED <<started, applied, new>>
          /\ seen' = [seen EXCEPT ![old[j]] = Never]
      BY <2>2 DEF Succeed
    <2>7. CallsStand /\ ProvGrows /\ FetchStands /\ SnapsStand
      BY <1>0, <1>1, <1>3, ReaderEndsStands, LineTypes DEF CallsStand, ProvGrows, workerVars, provVars
    <2>8. StampsPast'
      <3>1. Never <= now
        BY Bounds DEF ShapeInv, ClockTypes, Never
      <3>. QED
        BY <1>0, <1>1, <2>6, <3>1 DEF StampsPast, RowTypes
    <2>9. \A e \in known' : seen'[e] = seen[e]
      BY <1>0, <2>6 DEF RowTypes
    <2>. QED
      BY <1>0, <2>2, <2>5, <2>6, <2>7, <2>8, <2>9, KnownStands, NewStands, SeenStands, SnapsStay, AnswersStand
      DEF LineInv
  <1>. QED
    BY <1>2, <1>3 DEF Finish

\* Every step keeps the lineage, and a job succeeds in mark_swap_success only.
LEMMA LineStep ==
    ASSUME AdminOps \subseteq {"cancel"}, SwapInv, SwapInv', ShapeInv, ShapeInv', LineInv, Next
    PROVE  /\ LineInv'
           /\ NoneSucceeds \/ \E j \in Jobs : Confirmed(j) /\ Succeed(j)
  <1>1. ASSUME NEW w \in Workers, WorkerStep(w) PROVE LineInv' /\ NoneSucceeds
    <2>1. CASE EnterMutation(w)
      BY <2>1, EnterLine
    <2>2. CASE ProviderApplied(w)
      BY <2>2, AppliedLine
    <2>3. CASE ~ EnterMutation(w) /\ ~ ProviderApplied(w)
      <3>1. /\ JobsMild /\ NoneSucceeds /\ CallsStand
            /\ UNCHANGED <<now, known, seen, started, applied, new, prov, readerVars>>
        BY <1>1, <2>3, WorkerMild
      <3>2. ProvGrows /\ FetchStands /\ SnapsStand /\ now <= now'
        BY <3>1, OthersStand, LineTypes DEF readerVars
      <3>. QED
        BY <3>1, <3>2, MildLine
    <2>. QED
      BY <2>1, <2>2, <2>3
  <1>2. CASE ReaderStep
    BY <1>2, SyncStoreLine, StoreLine, FetchLine, SelectLine, ExamineLine, InferLine, CloseLine, FinishLine
    DEF ReaderStep
  <1>3. CASE \/ ProviderStep \/ AdminStep \/ Tick
             \/ \E e \in Assignments : Qualify(e)
    BY <1>3, ProviderLine, AdminLine
  <1>. QED
    BY <1>1, <1>2, <1>3 DEF Next

\* As long as administrators requeue no job, a replacement is accepted only on
\* an inventory and a dashboard stamped after the job's mutation began, and
\* after the provider gave up the old assignment, for any number of jobs,
\* slots, workers and late, lost or crashed calls (mark_swap_success,
\* reconcile_provider_applied_swaps).
THEOREM SwapPostMutationEvidence ==
    ASSUME AdminOps \subseteq {"cancel"}
    PROVE  Spec => PostMutationEvidence
  <1>1. Init => SwapInv /\ ShapeInv /\ LineInv
    BY SwapInit, ShapeInit, LineInit
  <1>2. SwapInv /\ ShapeInv /\ LineInv /\ [Next]_vars => SwapInv' /\ ShapeInv' /\ LineInv'
    <2>. SUFFICES ASSUME SwapInv, ShapeInv, LineInv, [Next]_vars PROVE SwapInv' /\ ShapeInv' /\ LineInv'
      OBVIOUS
    <2>1. SwapInv' /\ ShapeInv'
      BY SwapStep, ShapeStep
    <2>2. CASE UNCHANGED vars
      BY <2>1, <2>2 DEF vars, jobVars, rowVars, workerVars, provVars, readerVars, LineInv, KnownBehind,
                  FetchOrdered, StampsPast, QueuedBlank, SeenLater, SnapsHold, Answered, NewIsLater,
                  Replaced, MutationTime
    <2>3. CASE Next
      BY <2>1, <2>3, LineStep
    <2>. QED
      BY <2>1, <2>2, <2>3
  <1>3. SwapInv /\ ShapeInv /\ LineInv /\ [Next]_vars
        => [\A j \in Jobs : state[j] # "success" /\ state'[j] = "success" =>
              /\ seen[new[j]] > started[j]
              /\ dash[new[j]] > started[j]
              /\ VersionOf(old[j]) < prov[SlotOf(old[j])]]_vars
    <2>. SUFFICES ASSUME SwapInv, ShapeInv, LineInv, Next,
                         NEW j \in Jobs, state[j] # "success", state'[j] = "success"
                  PROVE  /\ seen[new[j]] > started[j]
                         /\ dash[new[j]] > started[j]
                         /\ VersionOf(old[j]) < prov[SlotOf(old[j])]
      OBVIOUS
    <2>1. SwapInv' /\ ShapeInv'
      BY SwapStep, ShapeStep
    <2>2. PICK k \in Jobs : Confirmed(k) /\ Succeed(k)
      BY <2>1, LineStep DEF NoneSucceeds
    <2>3. k = j
      BY <2>2 DEF Succeed, ShapeInv, JobTypes
    <2>4. /\ state[j] \in Mutation /\ new[j] # None /\ new[j] \in Assignments
          /\ seen[new[j]] > MutationTime(j) /\ dash[new[j]] > MutationTime(j)
      BY <2>2, <2>3 DEF Confirmed, FreshAfter, Mutation, ShapeInv, RowTypes
    <2>5. seen[new[j]] \in Int /\ dash[new[j]] \in Int
      BY <2>4, Bounds DEF ShapeInv, RowTypes, Times, Never
    <2>6. started[j] <= MutationTime(j) /\ MutationTime(j) \in Int /\ started[j] \in Int
      BY LineTypes DEF LineInv, StampsPast, MutationTime
    <2>7. Replaced(j)
      BY <2>4 DEF LineInv, NewIsLater
    <2>. QED
      BY <2>4, <2>5, <2>6, <2>7 DEF Replaced
  <1>. QED
    BY <1>1, <1>2, <1>3, PTL DEF Spec, PostMutationEvidence
=============================================================================
