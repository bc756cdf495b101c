--------------------------- MODULE CheckQueueProofs ---------------------------
(***************************************************************************)
(* Type correctness of CheckQueue, that only fresh results are stored, and *)
(* that an EarnApp claim means an online row, for any number of rows and   *)
(* workers and any schedule.                                               *)
(***************************************************************************)
EXTENDS CheckQueue, FiniteSetTheorems, TLAPS

\* A token that Claim takes is a token, and nobody holds it (claim_due_proxies
\* and claim_due_earnapp draw it with secrets.token_urlsafe).
LEMMA FreshTokenFresh ==
    ASSUME Tokens \ UsedTokens # {}
    PROVE  FreshToken \in Tokens /\ FreshToken \notin UsedTokens
  BY DEF FreshToken

\* The longest schedule bounds each of the three.
LEMMA LongestBounds ==
    /\ INTERVAL \in 0 .. Longest /\ RETRY \in 0 .. Longest /\ REFRESH \in 0 .. Longest
    /\ 0 \in 0 .. Longest /\ LEASE \in 0 .. LEASE /\ 0 \in 0 .. LEASE
  BY QueueAssumption DEF Longest, MaxOf

\* Counting down stays in range.
LEMMA DecBounds ==
    ASSUME NEW m \in Nat, NEW n \in 0 .. m
    PROVE  Dec(n) \in 0 .. m
  BY DEF Dec

LEMMA TypeInit == Init => TypeOK
  <1>. SUFFICES ASSUME Init PROVE TypeOK
    OBVIOUS
  <1>1. gen \in [Proxies -> 1 .. MaxGen] /\ probed \in [Workers -> [Proxies -> 1 .. MaxGen]]
    BY QueueAssumption DEF Init
  <1>2. due \in [Queues -> [Proxies -> 0 .. Longest]]
    BY LongestBounds DEF Init
  <1>3. lease \in [Queues -> [Proxies -> 0 .. LEASE]]
    BY LongestBounds DEF Init
  <1>. QED
    BY <1>1, <1>2, <1>3 DEF Init, TypeOK, Statuses, Phases

\* Claim: one conjunct of TypeOK after the other.
LEMMA TypeClaim ==
    ASSUME TypeOK, NEW w \in Workers, NEW rows \in SUBSET Proxies, Claim(w, rows)
    PROVE  TypeOK'
  <1>. DEFINE q == QueueOf(w)
  <1>0. q \in Queues /\ FreshToken \in Tokens
    BY FreshTokenFresh DEF Claim, QueueOf, Queues
  <1>1. token' \in [Queues -> [Proxies -> Tokens \cup {None}]]
    BY <1>0 DEF Claim, TypeOK
  <1>2. held' \in [Workers -> [Proxies -> Tokens \cup {None}]]
    BY <1>0 DEF Claim, TypeOK
  <1>3. lease' \in [Queues -> [Proxies -> 0 .. LEASE]]
    BY <1>0, LongestBounds DEF Claim, TypeOK
  <1>4. due' \in [Queues -> [Proxies -> 0 .. Longest]]
    BY <1>0, LongestBounds DEF Claim, TypeOK
  <1>5. phase' \in [Workers -> [Proxies -> Phases]]
    BY DEF Claim, TypeOK, Phases
  <1>6. probed' \in [Workers -> [Proxies -> 1 .. MaxGen]]
    BY DEF Claim, TypeOK
  <1>7. stale' \in [Workers -> SUBSET Proxies]
    BY DEF Claim, TypeOK, Overtake, BatchOf
  <1>8. begun' \in [Workers -> BOOLEAN]
    BY DEF Claim, TypeOK
  <1>. QED
    BY <1>1, <1>2, <1>3, <1>4, <1>5, <1>6, <1>7, <1>8 DEF Claim, TypeOK

\* The results and the end of a job.
LEMMA TypeResult ==
    ASSUME TypeOK, NEW w \in Workers, NEW p \in Proxies,
           \/ \E r \in HealthResults : ApplyHealth(w, p, r)
           \/ \E moved \in BOOLEAN : ApplyEarnapp(w, p, moved)
           \/ Discard(w, p)
    PROVE  TypeOK'
  <1>1. ASSUME NEW r \in HealthResults, ApplyHealth(w, p, r) PROVE TypeOK'
    <2>1. status' \in [Proxies -> Statuses]
      BY <1>1 DEF ApplyHealth, StatusAfter, TypeOK, Statuses
    <2>2. due' \in [Queues -> [Proxies -> 0 .. Longest]]
      BY <1>1, LongestBounds DEF ApplyHealth, TypeOK
    <2>3. lease' \in [Queues -> [Proxies -> 0 .. LEASE]]
      BY <1>1, LongestBounds DEF ApplyHealth, TypeOK
    <2>4. token' \in [Queues -> [Proxies -> Tokens \cup {None}]]
      BY <1>1 DEF ApplyHealth, TypeOK
    <2>5. phase' \in [Workers -> [Proxies -> Phases]]
          /\ held' \in [Workers -> [Proxies -> Tokens \cup {None}]]
          /\ begun' \in [Workers -> BOOLEAN]
      BY <1>1 DEF ApplyHealth, Done, TypeOK, Phases
    <2>6. stale' \in [Workers -> SUBSET Proxies]
      BY <1>1 DEF ApplyHealth, TypeOK, Disturb, BatchOf
    <2>7. stored' \in [Queues -> [Proxies -> {"none", "fresh", "overtaken"}]]
      BY <1>1 DEF ApplyHealth, TypeOK, Fresh, Queues
    <2>. QED
      BY <1>1, <2>1, <2>2, <2>3, <2>4, <2>5, <2>6, <2>7 DEF ApplyHealth, Done, TypeOK
  <1>2. ASSUME NEW moved \in BOOLEAN, ApplyEarnapp(w, p, moved) PROVE TypeOK'
    <2>2. due' \in [Queues -> [Proxies -> 0 .. Longest]]
      BY <1>2, LongestBounds DEF ApplyEarnapp, TypeOK
    <2>3. lease' \in [Queues -> [Proxies -> 0 .. LEASE]]
      BY <1>2, LongestBounds DEF ApplyEarnapp, TypeOK
    <2>4. token' \in [Queues -> [Proxies -> Tokens \cup {None}]]
      BY <1>2 DEF ApplyEarnapp, TypeOK
    <2>5. phase' \in [Workers -> [Proxies -> Phases]]
          /\ held' \in [Workers -> [Proxies -> Tokens \cup {None}]]
          /\ begun' \in [Workers -> BOOLEAN]
      BY <1>2 DEF ApplyEarnapp, Done, TypeOK, Phases
    <2>6. stale' \in [Workers -> SUBSET Proxies]
      BY <1>2 DEF ApplyEarnapp, TypeOK
    <2>7. stored' \in [Queues -> [Proxies -> {"none", "fresh", "overtaken"}]]
      BY <1>2 DEF ApplyEarnapp, TypeOK, Fresh, Queues
    <2>. QED
      BY <1>2, <2>2, <2>3, <2>4, <2>5, <2>6, <2>7 DEF ApplyEarnapp, Done, TypeOK
  <1>3. ASSUME Discard(w, p) PROVE TypeOK'
    <2>5. phase' \in [Workers -> [Proxies -> Phases]]
          /\ held' \in [Workers -> [Proxies -> Tokens \cup {None}]]
          /\ begun' \in [Workers -> BOOLEAN]
      BY <1>3 DEF Discard, Done, TypeOK, Phases
    <2>6. stale' \in [Workers -> SUBSET Proxies]
      BY <1>3 DEF Discard, TypeOK
    <2>. QED
      BY <1>3, <2>5, <2>6 DEF Discard, Done, TypeOK, rowVars
  <1>. QED
    BY <1>1, <1>2, <1>3

\* The end of a process.
LEMMA TypeLeave ==
    ASSUME TypeOK, NEW w \in Workers, Shutdown(w) \/ Crash(w)
    PROVE  TypeOK'
  <1>1. ASSUME Leave(w)
        PROVE  /\ phase' \in [Workers -> [Proxies -> Phases]]
               /\ held' \in [Workers -> [Proxies -> Tokens \cup {None}]]
               /\ begun' \in [Workers -> BOOLEAN]
               /\ slot' \in [Workers -> [Proxies -> Limits \cup {0}]]
               /\ stale' \in [Workers -> SUBSET Proxies]
               /\ UNCHANGED <<probed, limit>>
    BY <1>1 DEF Leave, TypeOK, Phases
  <1>2. CASE Crash(w)
    BY <1>1, <1>2 DEF Crash, TypeOK, rowVars
  <1>3. CASE Shutdown(w)
    <2>. DEFINE q == QueueOf(w)
    <2>0. q \in Queues
      BY DEF QueueOf, Queues
    <2>1. due' \in [Queues -> [Proxies -> 0 .. Longest]]
      BY <1>3, <2>0, LongestBounds DEF Shutdown, TypeOK
    <2>2. lease' \in [Queues -> [Proxies -> 0 .. LEASE]]
      BY <1>3, <2>0, LongestBounds DEF Shutdown, TypeOK
    <2>3. token' \in [Queues -> [Proxies -> Tokens \cup {None}]]
      BY <1>3, <2>0 DEF Shutdown, TypeOK
    <2>. QED
      BY <1>1, <1>3, <2>1, <2>2, <2>3 DEF Shutdown, TypeOK
  <1>. QED
    BY <1>2, <1>3

\* Every step keeps the types.
LEMMA TypeStep == TypeOK /\ [Next]_vars => TypeOK'
  <1>. SUFFICES ASSUME TypeOK, [Next]_vars PROVE TypeOK'
    OBVIOUS
  <1>1. CASE UNCHANGED vars
    BY <1>1 DEF vars, rowVars, batchVars, histVars, TypeOK
  <1>2. ASSUME NEW w \in Workers, WorkerStep(w) PROVE TypeOK'
    <2>1. ASSUME NEW n \in Limits, RefreshSettings(w, n) PROVE TypeOK'
      BY <2>1 DEF RefreshSettings, TypeOK, rowVars, histVars
    <2>2. ASSUME NEW rows \in SUBSET Proxies, Claim(w, rows) PROVE TypeOK'
      BY <2>2, TypeClaim
    <2>3. ASSUME NEW p \in Proxies, StartProbe(w, p) PROVE TypeOK'
      <3>1. phase' \in [Workers -> [Proxies -> Phases]]
        BY <2>3 DEF StartProbe, TypeOK, Phases
      <3>2. slot' \in [Workers -> [Proxies -> Limits \cup {0}]]
        BY <2>3 DEF StartProbe, TypeOK
      <3>. QED
        BY <2>3, <3>1, <3>2 DEF StartProbe, TypeOK, rowVars, histVars
    <2>4. ASSUME NEW p \in Proxies, FinishProbe(w, p) PROVE TypeOK'
      <3>1. phase' \in [Workers -> [Proxies -> Phases]]
        BY <2>4 DEF FinishProbe, TypeOK, Phases
      <3>2. slot' \in [Workers -> [Proxies -> Limits \cup {0}]]
        BY <2>4 DEF FinishProbe, TypeOK
      <3>. QED
        BY <2>4, <3>1, <3>2 DEF FinishProbe, TypeOK, rowVars, histVars
    <2>5. ASSUME NEW p \in Proxies,
                 \/ \E r \in HealthResults : ApplyHealth(w, p, r)
                 \/ \E moved \in BOOLEAN : ApplyEarnapp(w, p, moved)
                 \/ Discard(w, p)
          PROVE TypeOK'
      BY <2>5, TypeResult
    <2>6. CASE Shutdown(w) \/ Crash(w)
      BY <2>6, TypeLeave
    <2>. QED
      BY <1>2, <2>1, <2>2, <2>3, <2>4, <2>5, <2>6 DEF WorkerStep
  <1>3. ASSUME NEW p \in Proxies, ReplaceProxy(p) PROVE TypeOK'
    <2>1. gen' \in [Proxies -> 1 .. MaxGen]
      BY <1>3, QueueAssumption DEF ReplaceProxy, TypeOK
    <2>2. due' \in [Queues -> [Proxies -> 0 .. Longest]]
      BY <1>3, LongestBounds DEF ReplaceProxy, TypeOK
    <2>3. lease' \in [Queues -> [Proxies -> 0 .. LEASE]]
      BY <1>3, LongestBounds DEF ReplaceProxy, TypeOK
    <2>4. token' \in [Queues -> [Proxies -> Tokens \cup {None}]]
      BY <1>3 DEF ReplaceProxy, TypeOK
    <2>5. stale' \in [Workers -> SUBSET Proxies]
      BY <1>3 DEF ReplaceProxy, TypeOK, AllStale, BatchOf
    <2>6. stored' \in [Queues -> [Proxies -> {"none", "fresh", "overtaken"}]]
      BY <1>3 DEF ReplaceProxy, TypeOK
    <2>7. status' \in [Proxies -> Statuses]
      BY <1>3 DEF ReplaceProxy, TypeOK, Statuses
    <2>. QED
      BY <1>3, <2>1, <2>2, <2>3, <2>4, <2>5, <2>6, <2>7 DEF ReplaceProxy, TypeOK, batchVars
  <1>4. ASSUME NEW p \in Proxies, ArchiveProxy(p) PROVE TypeOK'
    <2>1. stale' \in [Workers -> SUBSET Proxies]
      BY <1>4 DEF ArchiveProxy, TypeOK, AllStale, BatchOf
    <2>2. status' \in [Proxies -> Statuses]
      BY <1>4 DEF ArchiveProxy, TypeOK, Statuses
    <2>. QED
      BY <1>4, <2>1, <2>2 DEF ArchiveProxy, TypeOK, batchVars
  <1>5. ASSUME NEW p \in Proxies, ChangeUser(p) PROVE TypeOK'
    BY <1>5 DEF ChangeUser, TypeOK, batchVars, histVars
  <1>6. CASE Tick
    <2>1. Longest \in Nat /\ LEASE \in Nat
      BY QueueAssumption DEF Longest, MaxOf
    <2>2. due' \in [Queues -> [Proxies -> 0 .. Longest]]
      BY <1>6, <2>1, DecBounds DEF Tick, TypeOK
    <2>3. lease' \in [Queues -> [Proxies -> 0 .. LEASE]]
      BY <1>6, <2>1, DecBounds DEF Tick, TypeOK
    <2>. QED
      BY <1>6, <2>2, <2>3 DEF Tick, TypeOK, batchVars, histVars
  <1>. QED
    BY <1>1, <1>2, <1>3, <1>4, <1>5, <1>6 DEF Next

\* The queue columns and the workers' batches always have their types
\* (claim_due_proxies, claim_due_earnapp and the result handlers).
THEOREM QueueTypeCorrect == Spec => []TypeOK
  BY TypeInit, TypeStep, PTL DEF Spec

-----------------------------------------------------------------------------
(***************************************************************************)
(* Freshness.  A job whose claim was overtaken is fenced off: its row is   *)
(* archived for good or no longer carries the token the job holds.         *)
(***************************************************************************)

\* A job of a batch holds a token.
BatchHoldsToken ==
    \A w \in Workers, p \in Proxies : phase[w][p] # "none" => held[w][p] # None

OvertakenIsFenced ==
    \A w \in Workers : \A p \in stale[w] :
        /\ phase[w][p] # "none"
        /\ status[p] = "archived" \/ token[QueueOf(w)][p] # held[w][p]

FreshInv ==
    /\ TypeOK
    /\ BatchHoldsToken
    /\ OvertakenIsFenced
    /\ OnlyFreshResultsStored
    /\ EarnappClaimMeansOnline

LEMMA FreshInit == Init => FreshInv
  <1>. SUFFICES ASSUME Init PROVE FreshInv
    OBVIOUS
  <1>1. BatchHoldsToken /\ OvertakenIsFenced
    BY DEF Init, BatchHoldsToken, OvertakenIsFenced
  <1>2. OnlyFreshResultsStored /\ EarnappClaimMeansOnline
    BY DEF Init, OnlyFreshResultsStored, EarnappClaimMeansOnline, Queues
  <1>. QED
    BY <1>1, <1>2, TypeInit DEF FreshInv

LEMMA FreshClaim ==
    ASSUME FreshInv, NEW w \in Workers, NEW rows \in SUBSET Proxies, Claim(w, rows)
    PROVE  BatchHoldsToken' /\ OvertakenIsFenced' /\ OnlyFreshResultsStored'
           /\ EarnappClaimMeansOnline'
  <1>. DEFINE q == QueueOf(w)
              t == FreshToken
  <1>0. q \in Queues /\ t \in Tokens /\ t \notin UsedTokens /\ t # None
    BY FreshTokenFresh, QueueAssumption DEF Claim, QueueOf, Queues
  <1>1. \A v \in Workers, p \in Proxies : held[v][p] # t
    BY <1>0 DEF UsedTokens
  <1>2. \A p \in Proxies : token'[q][p] = IF p \in rows THEN t ELSE token[q][p]
    BY <1>0 DEF Claim, FreshInv, TypeOK
  <1>3. \A r \in Queues \ {q}, p \in Proxies : token'[r][p] = token[r][p]
    BY <1>0 DEF Claim, FreshInv, TypeOK
  <1>4. \A p \in Proxies : /\ held'[w][p] = IF p \in rows THEN t ELSE None
                           /\ phase'[w][p] = IF p \in rows THEN "submitted" ELSE "none"
    BY DEF Claim, FreshInv, TypeOK
  <1>5. \A v \in Workers \ {w}, p \in Proxies : held'[v][p] = held[v][p] /\ phase'[v][p] = phase[v][p]
    BY DEF Claim, FreshInv, TypeOK
  <1>6. BatchHoldsToken'
    BY <1>0, <1>4, <1>5 DEF FreshInv, BatchHoldsToken
  <1>7. OvertakenIsFenced'
    <2>. SUFFICES ASSUME NEW v \in Workers, NEW p \in stale'[v]
                  PROVE  /\ phase'[v][p] # "none"
                         /\ status'[p] = "archived" \/ token'[QueueOf(v)][p] # held'[v][p]
      BY DEF OvertakenIsFenced
    <2>1. v # w /\ p \in Proxies
      BY DEF Claim, FreshInv, TypeOK, Overtake, BatchOf
    <2>2. status' = status
      BY DEF Claim
    <2>3. QueueOf(v) \in Queues
      BY DEF QueueOf, Queues
    <2>4. CASE p \in stale[v]
      <3>1. phase[v][p] # "none" /\ (status[p] = "archived" \/ token[QueueOf(v)][p] # held[v][p])
        BY <2>4 DEF FreshInv, OvertakenIsFenced
      <3>. QED
        BY <1>1, <1>2, <1>3, <1>5, <2>1, <2>2, <2>3, <3>1
    <2>5. CASE p \notin stale[v]
      <3>1. QueueOf(v) = q /\ p \in rows /\ phase[v][p] # "none"
        BY <2>1, <2>5 DEF Claim, FreshInv, TypeOK, Overtake, BatchOf
      <3>. QED
        BY <1>1, <1>2, <1>5, <2>1, <3>1
    <2>. QED
      BY <2>4, <2>5
  <1>8. OnlyFreshResultsStored'
    BY DEF Claim, FreshInv, OnlyFreshResultsStored
  <1>9. EarnappClaimMeansOnline'
    <2>1. ASSUME NEW p \in rows, q = "earnapp" PROVE status[p] = "online"
      BY <2>1 DEF Claim, BatchesOf, DueRows, EarnappDue
    <2>2. status' = status
      BY DEF Claim
    <2>. QED
      BY <1>2, <1>3, <2>1, <2>2 DEF FreshInv, EarnappClaimMeansOnline, Queues
  <1>. QED
    BY <1>6, <1>7, <1>8, <1>9

LEMMA FreshHealth ==
    ASSUME FreshInv, NEW w \in Workers, NEW p \in Proxies, NEW r \in HealthResults,
           ApplyHealth(w, p, r)
    PROVE  BatchHoldsToken' /\ OvertakenIsFenced' /\ OnlyFreshResultsStored'
           /\ EarnappClaimMeansOnline'
  <1>0. QueueOf(w) = "health" /\ status[p] # "archived" /\ token["health"][p] = held[w][p]
        /\ phase[w][p] = "probed"
    BY DEF ApplyHealth, Accepts, QueueOf
  <1>1. p \notin stale[w]
    BY <1>0 DEF FreshInv, OvertakenIsFenced
  <1>2. \A v \in Workers, s \in Proxies :
           /\ held'[v][s] = IF v = w /\ s = p THEN None ELSE held[v][s]
           /\ phase'[v][s] = IF v = w /\ s = p THEN "none" ELSE phase[v][s]
    BY DEF ApplyHealth, Done, FreshInv, TypeOK
  <1>3. \A q \in Queues, s \in Proxies :
           token'[q][s] = IF s = p /\ (q = "health" \/ Withdraws(r)) THEN None ELSE token[q][s]
    BY DEF ApplyHealth, FreshInv, TypeOK
  <1>4. \A s \in Proxies : status'[s] = IF s = p THEN StatusAfter(p, r) ELSE status[s]
    BY DEF ApplyHealth, FreshInv, TypeOK
  <1>5. BatchHoldsToken'
    BY <1>2 DEF FreshInv, BatchHoldsToken
  <1>6. OnlyFreshResultsStored'
    <2>1. stored' = [stored EXCEPT !["health"][p] = "fresh"]
      BY <1>1 DEF ApplyHealth, Fresh
    <2>. QED
      BY <2>1 DEF FreshInv, TypeOK, OnlyFreshResultsStored, Queues
  <1>7. OvertakenIsFenced'
    <2>. SUFFICES ASSUME NEW v \in Workers, NEW s \in stale'[v]
                  PROVE  /\ phase'[v][s] # "none"
                         /\ status'[s] = "archived" \/ token'[QueueOf(v)][s] # held'[v][s]
      BY DEF OvertakenIsFenced
    <2>1. s \in Proxies /\ QueueOf(v) \in Queues /\ ~ (v = w /\ s = p)
      BY DEF ApplyHealth, FreshInv, TypeOK, Disturb, BatchOf, QueueOf, Queues
    <2>2. CASE s \in stale[v]
      <3>1. phase[v][s] # "none" /\ held[v][s] # None
            /\ (status[s] = "archived" \/ token[QueueOf(v)][s] # held[v][s])
        BY <2>1, <2>2 DEF FreshInv, OvertakenIsFenced, BatchHoldsToken
      <3>2. status[s] = "archived" => s # p
        BY <1>0
      <3>. QED
        BY <1>2, <1>3, <1>4, <2>1, <3>1, <3>2
    <2>3. CASE s \notin stale[v]
      <3>1. s = p /\ v \in EarnappWorkers /\ phase[v][s] # "none" /\ Withdraws(r) /\ v # w
        BY <2>1, <2>3 DEF ApplyHealth, FreshInv, TypeOK, Disturb, BatchOf, Withdraws
      <3>2. held[v][s] # None
        BY <2>1, <3>1 DEF FreshInv, BatchHoldsToken
      <3>. QED
        BY <1>2, <1>3, <2>1, <3>1, <3>2
    <2>. QED
      BY <2>2, <2>3
  <1>8. EarnappClaimMeansOnline'
    <2>1. ASSUME NEW s \in Proxies, token'["earnapp"][s] # None
          PROVE  status'[s] \in {"online", "archived"}
      <3>1. token["earnapp"][s] # None /\ (s = p => ~ Withdraws(r))
        BY <1>3, <2>1 DEF Queues
      <3>2. status[s] \in {"online", "archived"}
        BY <3>1 DEF FreshInv, EarnappClaimMeansOnline
      <3>3. s = p => StatusAfter(p, r) \in {"online", "archived"}
        BY <3>1, <3>2, QueueAssumption DEF StatusAfter, Withdraws, AllResults
      <3>. QED
        BY <1>4, <3>2, <3>3
    <2>. QED
      BY <2>1 DEF EarnappClaimMeansOnline
  <1>. QED
    BY <1>5, <1>6, <1>7, <1>8

LEMMA FreshEarnapp ==
    ASSUME FreshInv, NEW w \in Workers, NEW p \in Proxies, NEW moved \in BOOLEAN,
           ApplyEarnapp(w, p, moved)
    PROVE  BatchHoldsToken' /\ OvertakenIsFenced' /\ OnlyFreshResultsStored'
           /\ EarnappClaimMeansOnline'
  <1>0. QueueOf(w) = "earnapp" /\ status[p] # "archived" /\ token["earnapp"][p] = held[w][p]
        /\ phase[w][p] = "probed"
    BY QueueAssumption DEF ApplyEarnapp, Accepts, QueueOf
  <1>1. p \notin stale[w]
    BY <1>0 DEF FreshInv, OvertakenIsFenced
  <1>2. \A v \in Workers, s \in Proxies :
           /\ held'[v][s] = IF v = w /\ s = p THEN None ELSE held[v][s]
           /\ phase'[v][s] = IF v = w /\ s = p THEN "none" ELSE phase[v][s]
    BY DEF ApplyEarnapp, Done, FreshInv, TypeOK
  <1>3. \A q \in Queues, s \in Proxies :
           token'[q][s] = IF s = p /\ q = "earnapp" THEN None ELSE token[q][s]
    BY DEF ApplyEarnapp, FreshInv, TypeOK, Queues
  <1>4. status' = status
    BY DEF ApplyEarnapp
  <1>5. BatchHoldsToken'
    BY <1>2 DEF FreshInv, BatchHoldsToken
  <1>6. OnlyFreshResultsStored'
    <2>1. stored' = [stored EXCEPT !["earnapp"][p] = "fresh"]
      BY <1>1 DEF ApplyEarnapp, Fresh
    <2>. QED
      BY <2>1 DEF FreshInv, TypeOK, OnlyFreshResultsStored, Queues
  <1>7. OvertakenIsFenced'
    <2>. SUFFICES ASSUME NEW v \in Workers, NEW s \in stale'[v]
                  PROVE  /\ phase'[v][s] # "none"
                         /\ status'[s] = "archived" \/ token'[QueueOf(v)][s] # held'[v][s]
      BY DEF OvertakenIsFenced
    <2>1. s \in Proxies /\ s \in stale[v] /\ QueueOf(v) \in Queues /\ ~ (v = w /\ s = p)
      BY DEF ApplyEarnapp, FreshInv, TypeOK, QueueOf, Queues
    <2>2. phase[v][s] # "none" /\ held[v][s] # None
          /\ (status[s] = "archived" \/ token[QueueOf(v)][s] # held[v][s])
      BY <2>1 DEF FreshInv, OvertakenIsFenced, BatchHoldsToken
    <2>. QED
      BY <1>2, <1>3, <1>4, <2>1, <2>2
  <1>8. EarnappClaimMeansOnline'
    BY <1>3, <1>4 DEF FreshInv, EarnappClaimMeansOnline, Queues
  <1>. QED
    BY <1>5, <1>6, <1>7, <1>8

LEMMA FreshDiscard ==
    ASSUME FreshInv, NEW w \in Workers, NEW p \in Proxies, Discard(w, p)
    PROVE  BatchHoldsToken' /\ OvertakenIsFenced' /\ OnlyFreshResultsStored'
           /\ EarnappClaimMeansOnline'
  <1>1. \A v \in Workers, s \in Proxies :
           /\ held'[v][s] = IF v = w /\ s = p THEN None ELSE held[v][s]
           /\ phase'[v][s] = IF v = w /\ s = p THEN "none" ELSE phase[v][s]
    BY DEF Discard, Done, FreshInv, TypeOK
  <1>2. status' = status /\ token' = token /\ stored' = stored
    BY DEF Discard, rowVars
  <1>3. \A v \in Workers : stale'[v] = IF v = w THEN stale[v] \ {p} ELSE stale[v]
    BY DEF Discard, FreshInv, TypeOK
  <1>4. \A v \in Workers : stale[v] \subseteq Proxies
    BY DEF FreshInv, TypeOK
  <1>5. BatchHoldsToken'
    BY <1>1 DEF FreshInv, BatchHoldsToken
  <1>6. OvertakenIsFenced'
    <2>. SUFFICES ASSUME NEW v \in Workers, NEW s \in stale'[v]
                  PROVE  /\ phase'[v][s] # "none"
                         /\ status[s] = "archived" \/ token[QueueOf(v)][s] # held'[v][s]
      BY <1>2 DEF OvertakenIsFenced
    <2>1. s \in stale[v] /\ s \in Proxies /\ ~ (v = w /\ s = p)
      BY <1>3, <1>4
    <2>2. phase[v][s] # "none" /\ (status[s] = "archived" \/ token[QueueOf(v)][s] # held[v][s])
      BY <2>1 DEF FreshInv, OvertakenIsFenced
    <2>. QED
      BY <1>1, <2>1, <2>2
  <1>. QED
    BY <1>2, <1>5, <1>6 DEF FreshInv, OnlyFreshResultsStored, EarnappClaimMeansOnline

LEMMA FreshLeave ==
    ASSUME FreshInv, NEW w \in Workers, Shutdown(w) \/ Crash(w)
    PROVE  BatchHoldsToken' /\ OvertakenIsFenced' /\ OnlyFreshResultsStored'
           /\ EarnappClaimMeansOnline'
  <1>0. Leave(w) /\ status' = status /\ stored' = stored
    BY DEF Shutdown, Crash, rowVars
  <1>1. \A v \in Workers, s \in Proxies :
           /\ held'[v][s] = IF v = w THEN None ELSE held[v][s]
           /\ phase'[v][s] = IF v = w THEN "none" ELSE phase[v][s]
    BY <1>0 DEF Leave, FreshInv, TypeOK
  <1>2. \A v \in Workers : stale'[v] = IF v = w THEN {} ELSE stale[v]
    BY <1>0 DEF Leave, FreshInv, TypeOK
  <1>3. \A q \in Queues, s \in Proxies : token'[q][s] \in {token[q][s], None}
    <2>1. CASE Crash(w)
      BY <2>1 DEF Crash, rowVars
    <2>2. CASE Shutdown(w)
      <3>1. QueueOf(w) \in Queues
        BY DEF QueueOf, Queues
      <3>. QED
        BY <2>2, <3>1 DEF Shutdown, FreshInv, TypeOK
    <2>. QED
      BY <2>1, <2>2
  <1>4. \A v \in Workers : stale[v] \subseteq Proxies /\ QueueOf(v) \in Queues
    BY DEF FreshInv, TypeOK, QueueOf, Queues
  <1>5. BatchHoldsToken'
    BY <1>1 DEF FreshInv, BatchHoldsToken
  <1>6. OvertakenIsFenced'
    <2>. SUFFICES ASSUME NEW v \in Workers, NEW s \in stale'[v]
                  PROVE  /\ phase'[v][s] # "none"
                         /\ status'[s] = "archived" \/ token'[QueueOf(v)][s] # held'[v][s]
      BY DEF OvertakenIsFenced
    <2>1. v # w /\ s \in stale[v] /\ s \in Proxies
      BY <1>2, <1>4
    <2>2. phase[v][s] # "none" /\ held[v][s] # None
          /\ (status[s] = "archived" \/ token[QueueOf(v)][s] # held[v][s])
      BY <2>1 DEF FreshInv, OvertakenIsFenced, BatchHoldsToken
    <2>3. token'[QueueOf(v)][s] \in {token[QueueOf(v)][s], None}
      BY <1>3, <1>4, <2>1
    <2>. QED
      BY <1>0, <1>1, <2>1, <2>2, <2>3
  <1>7. EarnappClaimMeansOnline'
    BY <1>0, <1>3 DEF FreshInv, EarnappClaimMeansOnline, Queues
  <1>. QED
    BY <1>0, <1>5, <1>6, <1>7 DEF FreshInv, OnlyFreshResultsStored

\* Steps of owners.
LEMMA FreshOwner ==
    ASSUME FreshInv, NEW p \in Proxies, ReplaceProxy(p) \/ ArchiveProxy(p)
    PROVE  BatchHoldsToken' /\ OvertakenIsFenced' /\ OnlyFreshResultsStored'
           /\ EarnappClaimMeansOnline'
  <1>0. held' = held /\ phase' = phase /\ status[p] # "archived" /\ stale' = AllStale(p)
    BY DEF ReplaceProxy, ArchiveProxy, batchVars
  <1>1. \A v \in Workers : stale[v] \subseteq Proxies /\ QueueOf(v) \in Queues
    BY DEF FreshInv, TypeOK, QueueOf, Queues
  <1>2. \A v \in Workers : \A s \in stale'[v] : s \in stale[v] \/ (s = p /\ phase[v][p] # "none")
    BY <1>0 DEF AllStale, BatchOf
  <1>3. BatchHoldsToken'
    BY <1>0 DEF FreshInv, BatchHoldsToken
  <1>4. CASE ReplaceProxy(p)
    <2>1. \A q \in Queues, s \in Proxies : token'[q][s] = IF s = p THEN None ELSE token[q][s]
      BY <1>4 DEF ReplaceProxy, FreshInv, TypeOK
    <2>2. \A s \in Proxies : status'[s] = IF s = p THEN "pending" ELSE status[s]
      BY <1>4 DEF ReplaceProxy, FreshInv, TypeOK
    <2>3. OvertakenIsFenced'
      <3>. SUFFICES ASSUME NEW v \in Workers, NEW s \in stale'[v]
                    PROVE  /\ phase[v][s] # "none"
                           /\ status'[s] = "archived" \/ token'[QueueOf(v)][s] # held[v][s]
        BY <1>0 DEF OvertakenIsFenced
      <3>1. s \in Proxies /\ phase[v][s] # "none" /\ held[v][s] # None
        BY <1>1, <1>2 DEF FreshInv, OvertakenIsFenced, BatchHoldsToken
      <3>2. CASE s = p
        BY <1>1, <2>1, <3>1, <3>2
      <3>3. CASE s # p
        <4>1. status[s] = "archived" \/ token[QueueOf(v)][s] # held[v][s]
          BY <1>2, <3>3 DEF FreshInv, OvertakenIsFenced
        <4>. QED
          BY <1>1, <2>1, <2>2, <3>1, <3>3, <4>1
      <3>. QED
        BY <3>2, <3>3
    <2>4. OnlyFreshResultsStored'
      BY <1>4 DEF ReplaceProxy, FreshInv, TypeOK, OnlyFreshResultsStored
    <2>5. EarnappClaimMeansOnline'
      BY <2>1, <2>2 DEF FreshInv, EarnappClaimMeansOnline, Queues
    <2>. QED
      BY <1>3, <2>3, <2>4, <2>5
  <1>5. CASE ArchiveProxy(p)
    <2>1. token' = token /\ stored' = stored
      BY <1>5 DEF ArchiveProxy
    <2>2. \A s \in Proxies : status'[s] = IF s = p THEN "archived" ELSE status[s]
      BY <1>5 DEF ArchiveProxy, FreshInv, TypeOK
    <2>3. OvertakenIsFenced'
      <3>. SUFFICES ASSUME NEW v \in Workers, NEW s \in stale'[v]
                    PROVE  /\ phase[v][s] # "none"
                           /\ status'[s] = "archived" \/ token[QueueOf(v)][s] # held[v][s]
        BY <1>0, <2>1 DEF OvertakenIsFenced
      <3>1. s \in Proxies /\ phase[v][s] # "none"
        BY <1>1, <1>2 DEF FreshInv, OvertakenIsFenced
      <3>2. s # p => status[s] = "archived" \/ token[QueueOf(v)][s] # held[v][s]
        BY <1>2 DEF FreshInv, OvertakenIsFenced
      <3>. QED
        BY <2>2, <3>1, <3>2
    <2>. QED
      BY <1>3, <2>1, <2>2, <2>3 DEF FreshInv, OnlyFreshResultsStored, EarnappClaimMeansOnline
  <1>. QED
    BY <1>4, <1>5

\* The inductive step: one lemma or leaf per action.
LEMMA FreshStep == FreshInv /\ [Next]_vars => FreshInv'
  <1>. SUFFICES ASSUME FreshInv, [Next]_vars PROVE FreshInv'
    OBVIOUS
  <1>0. TypeOK'
    BY TypeStep DEF FreshInv
  <1>1. ASSUME UNCHANGED <<status, token, phase, held, stale, stored>> PROVE FreshInv'
    BY <1>0, <1>1 DEF FreshInv, BatchHoldsToken, OvertakenIsFenced, OnlyFreshResultsStored,
                      EarnappClaimMeansOnline
  <1>2. CASE UNCHANGED vars
    BY <1>1, <1>2 DEF vars, rowVars, batchVars, histVars
  <1>3. ASSUME NEW w \in Workers, WorkerStep(w) PROVE FreshInv'
    <2>1. ASSUME NEW n \in Limits, RefreshSettings(w, n) PROVE FreshInv'
      BY <1>1, <2>1 DEF RefreshSettings, rowVars, histVars
    <2>2. ASSUME NEW rows \in SUBSET Proxies, Claim(w, rows) PROVE FreshInv'
      BY <1>0, <2>2, FreshClaim DEF FreshInv
    <2>3. ASSUME NEW p \in Proxies, StartProbe(w, p) \/ FinishProbe(w, p) PROVE FreshInv'
      <3>1. UNCHANGED <<status, token, held, stale, stored>> /\ phase[w][p] # "none"
        BY <2>3 DEF StartProbe, FinishProbe, rowVars, histVars
      <3>2. \A v \in Workers, s \in Proxies : phase'[v][s] # "none" <=> phase[v][s] # "none"
        <4>1. PICK x \in {"probing", "probed"} : phase' = [phase EXCEPT ![w][p] = x]
          BY <2>3 DEF StartProbe, FinishProbe
        <4>2. \A v \in Workers, s \in Proxies :
                 phase'[v][s] = IF v = w /\ s = p THEN x ELSE phase[v][s]
          BY <4>1 DEF FreshInv, TypeOK
        <4>. QED
          BY <3>1, <4>2
      <3>3. \A v \in Workers : stale[v] \subseteq Proxies
        BY DEF FreshInv, TypeOK
      <3>4. BatchHoldsToken'
        BY <3>1, <3>2 DEF FreshInv, BatchHoldsToken
      <3>5. OvertakenIsFenced'
        BY <3>1, <3>2, <3>3 DEF FreshInv, OvertakenIsFenced
      <3>. QED
        BY <1>0, <3>1, <3>4, <3>5 DEF FreshInv, OnlyFreshResultsStored, EarnappClaimMeansOnline
    <2>4. ASSUME NEW p \in Proxies, NEW r \in HealthResults, ApplyHealth(w, p, r) PROVE FreshInv'
      BY <1>0, <2>4, FreshHealth DEF FreshInv
    <2>5. ASSUME NEW p \in Proxies, NEW moved \in BOOLEAN, ApplyEarnapp(w, p, moved)
          PROVE  FreshInv'
      BY <1>0, <2>5, FreshEarnapp DEF FreshInv
    <2>6. ASSUME NEW p \in Proxies, Discard(w, p) PROVE FreshInv'
      BY <1>0, <2>6, FreshDiscard DEF FreshInv
    <2>7. CASE Shutdown(w) \/ Crash(w)
      BY <1>0, <2>7, FreshLeave DEF FreshInv
    <2>. QED
      BY <1>3, <2>1, <2>2, <2>3, <2>4, <2>5, <2>6, <2>7 DEF WorkerStep
  <1>4. ASSUME NEW p \in Proxies, ReplaceProxy(p) \/ ArchiveProxy(p) PROVE FreshInv'
    BY <1>0, <1>4, FreshOwner DEF FreshInv
  <1>5. ASSUME NEW p \in Proxies, ChangeUser(p) PROVE FreshInv'
    BY <1>1, <1>5 DEF ChangeUser, batchVars, histVars
  <1>6. CASE Tick
    BY <1>1, <1>6 DEF Tick, batchVars, histVars
  <1>. QED
    BY <1>2, <1>3, <1>4, <1>5, <1>6 DEF Next

\* Whatever workers crash, stop or are overtaken, only results nothing has
\* overtaken are stored (apply_health_result, apply_earnapp_result).
THEOREM QueueStoresFreshResults == Spec => []OnlyFreshResultsStored
  <1>1. FreshInv => OnlyFreshResultsStored
    BY DEF FreshInv
  <1>. QED
    BY <1>1, FreshInit, FreshStep, PTL DEF Spec

\* An EarnApp verdict that is accepted finds its row online
\* (apply_earnapp_result, which does not look at the status).
THEOREM QueueEarnappOnline == Spec => []EarnappClaimMeansOnline
  <1>1. FreshInv => EarnappClaimMeansOnline
    BY DEF FreshInv
  <1>. QED
    BY <1>1, FreshInit, FreshStep, PTL DEF Spec

-----------------------------------------------------------------------------
(***************************************************************************)
(* Provider slots.  The settings change only between batches, so that all  *)
(* threads of a batch hold slots of the same semaphore; without that, the  *)
(* bound on one host's checks would not be preserved by StartProbe.        *)
(***************************************************************************)

\* The threads of worker w that check through the host of row p.
SlotsOf(w, p) ==
    /\ \A r \in Probing(w, Host[p]) : slot[w][r] = limit[w]
    /\ IsFiniteSet(Probing(w, Host[p]))
    /\ Cardinality(Probing(w, Host[p])) <= limit[w]

SlotInv == TypeOK /\ \A w \in HealthWorkers, p \in Proxies : SlotsOf(w, p)

LEMMA LimitPositive ==
    ASSUME TypeOK, NEW w \in Workers
    PROVE  limit[w] \in Nat \ {0}
BY QueueAssumption DEF TypeOK

\* Without threads there is nothing to bound.
LEMMA SlotsEmpty ==
    ASSUME TypeOK', NEW w \in Workers, NEW p \in Proxies, Probing(w, Host[p])' = {}
    PROVE  SlotsOf(w, p)'
<1>1. limit'[w] \in Nat
  BY QueueAssumption DEF TypeOK
<1> QED BY <1>1, FS_EmptySet DEF SlotsOf

\* Threads that end leave the others their slots.
LEMMA SlotsShrink ==
    ASSUME TypeOK, NEW w \in Workers, NEW p \in Proxies, SlotsOf(w, p),
           Probing(w, Host[p])' \subseteq Probing(w, Host[p]), limit'[w] = limit[w],
           \A r \in Probing(w, Host[p])' : slot'[w][r] = slot[w][r]
    PROVE  SlotsOf(w, p)'
<1> DEFINE S == Probing(w, Host[p])
           T == Probing(w, Host[p])'
<1>1. IsFiniteSet(T) /\ Cardinality(T) <= Cardinality(S)
  BY FS_Subset DEF SlotsOf
<1>2. Cardinality(S) \in Nat /\ Cardinality(T) \in Nat /\ limit[w] \in Nat
  BY <1>1, FS_CardinalityType, LimitPositive DEF SlotsOf
<1>3. Cardinality(T) <= limit[w]
  BY <1>1, <1>2 DEF SlotsOf
<1> QED BY <1>1, <1>3 DEF SlotsOf

\* A thread gets a slot only while the semaphore has one left.
LEMMA SlotsGrow ==
    ASSUME TypeOK, NEW w \in HealthWorkers, NEW p \in Proxies, NEW q \in Proxies,
           SlotsOf(w, p), StartProbe(w, q)
    PROVE  SlotsOf(w, p)'
<1> DEFINE S == Probing(w, Host[p])
<1>0. w \in Workers /\ limit[w] \in Nat
  BY LimitPositive DEF Workers
<1>1. /\ phase' = [phase EXCEPT ![w][q] = "probing"]
      /\ slot' = [slot EXCEPT ![w][q] = limit[w]]
      /\ limit' = limit /\ SlotFree(w, q) /\ phase[w][q] = "submitted"
  BY DEF StartProbe
<1>2. /\ \A r \in Proxies : phase'[w][r] = IF r = q THEN "probing" ELSE phase[w][r]
      /\ \A r \in Proxies : slot'[w][r] = IF r = q THEN limit[w] ELSE slot[w][r]
  BY <1>0, <1>1 DEF TypeOK
<1>3. CASE Host[q] = Host[p]
  <2>1. Probing(w, Host[p])' = S \cup {q} /\ q \notin S
    BY <1>1, <1>2, <1>3 DEF Probing
  <2>2. {r \in Probing(w, Host[q]) : slot[w][r] = limit[w]} = S
    BY <1>3 DEF SlotsOf
  <2>3. Cardinality(S) < limit[w]
    BY <1>1, <2>2 DEF SlotFree
  <2>4. IsFiniteSet(S \cup {q}) /\ Cardinality(S \cup {q}) = Cardinality(S) + 1
    BY <2>1, FS_AddElement DEF SlotsOf
  <2>5. Cardinality(S) \in Nat
    BY FS_CardinalityType DEF SlotsOf
  <2>6. Cardinality(S \cup {q}) <= limit[w]
    BY <1>0, <2>3, <2>4, <2>5
  <2>7. \A r \in S \cup {q} : slot'[w][r] = limit[w]
    BY <1>2 DEF SlotsOf, Probing
  <2> QED BY <1>1, <2>1, <2>4, <2>6, <2>7 DEF SlotsOf
<1>4. CASE Host[q] # Host[p]
  <2>1. Probing(w, Host[p])' = S /\ q \notin S
    BY <1>2, <1>4 DEF Probing
  <2>2. \A r \in S : slot'[w][r] = slot[w][r]
    BY <1>2, <2>1 DEF Probing
  <2> QED BY <1>0, <1>1, <2>1, <2>2, SlotsShrink
<1> QED BY <1>3, <1>4

LEMMA SlotStep == SlotInv /\ [Next]_vars => SlotInv'
<1> SUFFICES ASSUME SlotInv, [Next]_vars
             PROVE  SlotInv'
  OBVIOUS
<1>0. TypeOK /\ TypeOK'
  BY TypeStep DEF SlotInv
<1> SUFFICES ASSUME NEW w \in HealthWorkers, NEW p \in Proxies
             PROVE  SlotsOf(w, p)'
  BY <1>0 DEF SlotInv
<1>1. SlotsOf(w, p) /\ w \in Workers
  BY DEF SlotInv, Workers
<1>2. ASSUME phase'[w] = phase[w], slot'[w] = slot[w], limit'[w] = limit[w]
      PROVE  SlotsOf(w, p)'
  <2>1. Probing(w, Host[p])' = Probing(w, Host[p])
    BY <1>2 DEF Probing
  <2> QED BY <1>0, <1>1, <1>2, <2>1, SlotsShrink
<1>3. ASSUME \A r \in Proxies : phase'[w][r] # "probing"
      PROVE  SlotsOf(w, p)'
  <2>1. Probing(w, Host[p])' = {}
    BY <1>3 DEF Probing
  <2> QED BY <1>0, <1>1, <2>1, SlotsEmpty
<1>4. CASE UNCHANGED vars
  BY <1>2, <1>4 DEF vars, batchVars
<1>5. CASE Tick \/ \E q \in Proxies : ReplaceProxy(q) \/ ArchiveProxy(q) \/ ChangeUser(q)
  BY <1>2, <1>5 DEF Tick, ReplaceProxy, ArchiveProxy, ChangeUser, batchVars
<1>6. ASSUME NEW v \in Workers, WorkerStep(v)
      PROVE  SlotsOf(w, p)'
  <2>1. ASSUME NEW n \in Limits, RefreshSettings(v, n)
        PROVE  SlotsOf(w, p)'
    <3>1. CASE v = w
      BY <1>3, <2>1, <3>1 DEF RefreshSettings, MayRefresh, Idle, BatchOf
    <3>2. CASE v # w
      BY <1>0, <1>1, <1>2, <2>1, <3>2 DEF RefreshSettings, TypeOK
    <3> QED BY <3>1, <3>2
  <2>2. ASSUME NEW rows \in SUBSET Proxies, Claim(v, rows)
        PROVE  SlotsOf(w, p)'
    <3>1. CASE v = w
      <4>1. phase'[w] = [r \in Proxies |-> IF r \in rows THEN "submitted" ELSE "none"]
        BY <1>0, <1>1, <2>2, <3>1 DEF Claim, TypeOK
      <4> QED BY <1>3, <4>1
    <3>2. CASE v # w
      BY <1>0, <1>1, <1>2, <2>2, <3>2 DEF Claim, TypeOK
    <3> QED BY <3>1, <3>2
  <2>3. ASSUME NEW q \in Proxies, StartProbe(v, q)
        PROVE  SlotsOf(w, p)'
    <3>1. CASE v = w
      BY <1>0, <1>1, <2>3, <3>1, SlotsGrow
    <3>2. CASE v # w
      BY <1>0, <1>1, <1>2, <2>3, <3>2 DEF StartProbe, TypeOK
    <3> QED BY <3>1, <3>2
  <2>4. ASSUME NEW q \in Proxies, FinishProbe(v, q)
        PROVE  SlotsOf(w, p)'
    <3>1. /\ phase' = [phase EXCEPT ![v][q] = "probed"]
          /\ slot' = [slot EXCEPT ![v][q] = 0]
          /\ limit' = limit
      BY <2>4 DEF FinishProbe
    <3>2. CASE v = w
      <4>1. \A r \in Proxies : phase'[w][r] = IF r = q THEN "probed" ELSE phase[w][r]
        BY <1>0, <1>1, <3>1, <3>2 DEF TypeOK
      <4>2. \A r \in Proxies \ {q} : slot'[w][r] = slot[w][r]
        BY <1>0, <1>1, <3>1, <3>2 DEF TypeOK
      <4>3. /\ Probing(w, Host[p])' \subseteq Probing(w, Host[p])
            /\ Probing(w, Host[p])' \subseteq Proxies \ {q}
        BY <4>1 DEF Probing
      <4>4. \A r \in Probing(w, Host[p])' : slot'[w][r] = slot[w][r]
        BY <4>2, <4>3
      <4> QED BY <1>0, <1>1, <3>1, <4>3, <4>4, SlotsShrink
    <3>3. CASE v # w
      BY <1>0, <1>1, <1>2, <3>1, <3>3 DEF TypeOK
    <3> QED BY <3>2, <3>3
  <2>5. ASSUME NEW q \in Proxies, Done(v, q)
        PROVE  SlotsOf(w, p)'
    <3>1. phase' = [phase EXCEPT ![v][q] = "none"] /\ limit' = limit /\ slot' = slot
      BY <2>5 DEF Done
    <3>2. \A r \in Proxies : phase'[w][r] = "probing" => phase[w][r] = "probing"
      BY <1>0, <1>1, <3>1 DEF TypeOK
    <3>3. Probing(w, Host[p])' \subseteq Probing(w, Host[p])
      BY <3>2 DEF Probing
    <3> QED BY <1>0, <1>1, <3>1, <3>3, SlotsShrink
  <2>6. ASSUME Leave(v)
        PROVE  SlotsOf(w, p)'
    <3>1. CASE v = w
      BY <1>0, <1>1, <1>3, <2>6, <3>1 DEF Leave, TypeOK
    <3>2. CASE v # w
      BY <1>0, <1>1, <1>2, <2>6, <3>2 DEF Leave, TypeOK
    <3> QED BY <3>1, <3>2
  <2>7. ASSUME NEW q \in Proxies,
               \/ \E r \in HealthResults : ApplyHealth(v, q, r)
               \/ \E moved \in BOOLEAN : ApplyEarnapp(v, q, moved)
               \/ Discard(v, q)
        PROVE  SlotsOf(w, p)'
    BY <2>5, <2>7 DEF ApplyHealth, ApplyEarnapp, Discard
  <2>8. CASE Shutdown(v) \/ Crash(v)
    BY <2>6, <2>8 DEF Shutdown, Crash
  <2> QED BY <1>6, <2>1, <2>2, <2>3, <2>4, <2>7, <2>8 DEF WorkerStep
<1> QED BY <1>4, <1>5, <1>6 DEF Next

\* No worker checks more proxies of one provider host at a time than its
\* setting allows, for every batch size and every change of the setting
\* (provider_slot, refresh_settings).
THEOREM QueueHostSlots == Spec => []HostSlotsRespected
<1>1. Init => SlotInv
  <2> SUFFICES ASSUME Init
               PROVE  SlotInv
    OBVIOUS
  <2>1. TypeOK
    BY TypeInit
  <2>2. ASSUME NEW w \in HealthWorkers, NEW p \in Proxies
        PROVE  SlotsOf(w, p)
    <3>1. w \in Workers
      BY DEF Workers
    <3>2. Probing(w, Host[p]) = {}
      BY <3>1 DEF Init, Probing
    <3>3. limit[w] \in Nat
      BY <2>1, <3>1, LimitPositive
    <3> QED BY <3>2, <3>3, FS_EmptySet DEF SlotsOf
  <2> QED BY <2>1, <2>2 DEF SlotInv
<1>2. SlotInv => HostSlotsRespected
  BY DEF SlotInv, SlotsOf, HostSlotsRespected
<1> QED BY <1>1, <1>2, SlotStep, PTL DEF Spec
=============================================================================
