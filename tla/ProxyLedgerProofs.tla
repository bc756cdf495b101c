-------------------------- MODULE ProxyLedgerProofs --------------------------
(***************************************************************************)
(* TLAPS proofs about ProxyLedger, for every number of rows, accounts and  *)
(* addresses and all periods and bounds:                                   *)
(*                                                                         *)
(*   LedgerTypeCorrect     Spec => []TypeOK                                *)
(*   LedgerPaysOnce        Spec => []LedgerDisjoint                        *)
(*   LedgerPaysObserved    Spec => []PaidWasObserved                       *)
(*   LedgerProbation       Spec => ProbationServed                         *)
(*   LedgerPendingEarned   pending earnings only in rows that earn         *)
(*   LedgerOnlyEarners     Spec => []OnlyEarnersHoldPending, no edits      *)
(*                                                                         *)
(* None of them is inductive.  What an accrual pays lies between the       *)
(* cursor and the end of the last success, so the invariant (LedgerInv)    *)
(* says of every row whose cursor was never set back that all its entries  *)
(* are behind the cursor (RowSound), that every tick from the cursor to    *)
(* the end of the last success was observed (CursorSeen), and that cursor  *)
(* and probation are not older than the last interruption (Unbroken); and  *)
(* of every row that it earns only after a success (HealthRow), that the   *)
(* success covers its ticks (SuccessSeen) and that what is pending is      *)
(* pending in a row that earns (EarnsIfPending).                           *)
(*                                                                         *)
(* The proof has one lemma per action.  A row that the action is not about *)
(* is at most expired and regrouped (OtherRow); the row that it is about   *)
(* is taken column by column.  What the accrual itself writes is settled   *)
(* once, for any row and time (AccrueSound, BrokenSound).                  *)
(***************************************************************************)
EXTENDS ProxyLedger, TLAPS, WellFoundedInduction

\* Every nonempty set of naturals has a least element.
LEMMA LeastNatural ==
    ASSUME NEW T \in SUBSET Nat, T # {}
    PROVE  \E m \in T : \A n \in T : m <= n
<1> DEFINE R == {ss \in Nat \X Nat : ss[1] < ss[2]}
<1>1. IsWellFoundedOn(R, Nat)
  BY NatLessThanWellFounded, Zenon DEF OpToRel
<1>2. \E x \in T : \A y \in T : ~ (<<y, x>> \in R)
  <2> HIDE DEF R
  <2> QED BY <1>1, WFMin
<1>3. PICK x \in T : \A y \in T : ~ (<<y, x>> \in R)
  BY <1>2
<1>4. \A y \in T : x <= y
  <2> TAKE y \in T
  <2>1. ~(<<y, x>> \in R)
    BY <1>3
  <2> QED BY <2>1
<1> QED BY <1>4

\* The bounds and periods are natural numbers.
LEMMA Nats ==
    MaxProxies \in Nat /\ MaxTime \in Nat /\ STALE \in Nat /\ PROBATION \in Nat /\ DEAD \in Nat
BY LedgerAssumption

-----------------------------------------------------------------------------
(***************************************************************************)
(* The canonical row.                                                      *)
(***************************************************************************)

\* Among rows with a time each, one comes first by time and then by id.
LEMMA EarliestRow ==
    ASSUME NEW S \in SUBSET Proxies, S # {}, NEW ver \in [Proxies -> Times]
    PROVE  \E c \in S : \A d \in S : ver[c] < ver[d] \/ (ver[c] = ver[d] /\ c <= d)
<1> DEFINE T == {ver[p] + 1 : p \in S}
<1>0. \A p \in S : p \in Nat /\ ver[p] \in Int /\ ver[p] + 1 \in Nat
  <2> TAKE p \in S
  <2>1. ver[p] \in Never .. MaxTime /\ p \in 1 .. MaxProxies
    BY DEF Proxies, Times
  <2> QED BY <2>1, LedgerAssumption DEF Never
<1>1. T \in SUBSET Nat /\ T # {}
  BY <1>0, Zenon
<1>2. PICK m \in T : \A n \in T : m <= n
  <2> HIDE DEF T
  <2> QED BY <1>1, LeastNatural
<1> DEFINE F == {p \in S : ver[p] + 1 = m}
<1>3. F \in SUBSET Nat /\ F # {}
  <2>1. PICK p \in S : ver[p] + 1 = m
    BY <1>2
  <2> QED BY <1>0, <2>1
<1>4. PICK c \in F : \A d \in F : c <= d
  <2> HIDE DEF F
  <2> QED BY <1>3, LeastNatural
<1>5. ASSUME NEW d \in S PROVE ver[c] < ver[d] \/ (ver[c] = ver[d] /\ c <= d)
  <2>1. ver[c] + 1 = m /\ m <= ver[d] + 1 /\ ver[c] \in Int /\ ver[d] \in Int
    BY <1>0, <1>2
  <2>2. CASE ver[d] + 1 = m
    BY <1>4, <2>1, <2>2
  <2>3. CASE ver[d] + 1 # m
    BY <2>1, <2>3
  <2> QED BY <2>2, <2>3
<1> QED BY <1>4, <1>5

\* _canonicalize_exit_group chooses a row of the group.
LEMMA CanonicalIn ==
    ASSUME NEW S \in SUBSET Proxies, S # {}, NEW stat, NEW off,
           NEW ver \in [Proxies -> Times], NEW byVerified
    PROVE  Canonical(S, stat, off, ver, byVerified) \in S
<1> DEFINE alive == {p \in S : ~ GivenUp(p, stat, off)}
           T == IF alive = {} THEN S ELSE alive
<1>1. T \in SUBSET S /\ T # {} /\ T \in SUBSET Proxies
  OBVIOUS
<1>2. Canonical(S, stat, off, ver, byVerified)
        = CHOOSE c \in T : \A d \in T : Before(c, d, ver, byVerified)
  BY DEF Canonical
<1> HIDE DEF T
<1>3. \E c \in T : \A d \in T : Before(c, d, ver, byVerified)
  <2>1. CASE byVerified
    <3>1. PICK c \in T : \A d \in T : ver[c] < ver[d] \/ (ver[c] = ver[d] /\ c <= d)
      BY <1>1, EarliestRow
    <3>2. \A d \in T : Before(c, d, ver, byVerified)
      BY <1>1, <2>1, <3>1, LedgerAssumption DEF Before, Proxies
    <3> QED BY <3>2
  <2>2. CASE ~byVerified
    <3>1. T \in SUBSET Nat
      BY <1>1, LedgerAssumption DEF Proxies
    <3>2. PICK c \in T : \A d \in T : c <= d
      BY <1>1, <3>1, LeastNatural
    <3>3. \A d \in T : Before(c, d, ver, byVerified)
      BY <1>1, <2>2, <3>2, LedgerAssumption DEF Before, Proxies
    <3> QED BY <3>3
  <2> QED BY <2>1, <2>2
<1> QED BY <1>1, <1>2, <1>3

-----------------------------------------------------------------------------
(***************************************************************************)
(* The ledger of one row.                                                  *)
(***************************************************************************)
Entries == [from : 0 .. MaxTime, to : 0 .. MaxTime, bucket : Buckets]

\* Entries that are behind the cursor c, disjoint, and paid for ticks in sn.
Sound(S, c, sn) ==
    /\ Disjoint(S)
    /\ \A e \in S : e.to <= c /\ Ticks(e) \subseteq sn

NoPending(S) == \A e \in S : e.bucket # "pending"

\* What is available in S and was not in `old` comes from a cycle that began
\* at b and was long enough at time t.
Served(S, old, b, t) ==
    \A e \in S \ old : e.bucket = "available" => e.from >= b /\ t >= b + PROBATION

\* What expiry makes of an entry.
LEMMA ExpiredEntry ==
    ASSUME NEW S \in SUBSET Entries
    PROVE  /\ Expired(S) \in SUBSET Entries
           /\ NoPending(Expired(S))
           /\ \A e \in Expired(S) : \E f \in S :
                /\ e = [f EXCEPT !.bucket = IF @ = "pending" THEN "expired" ELSE @]
                /\ e.from = f.from /\ e.to = f.to
                /\ e.bucket = "available" => e = f
<1>1. \A e \in Expired(S) : \E f \in S : e = [f EXCEPT !.bucket = IF @ = "pending" THEN "expired" ELSE @]
  BY DEF Expired
<1>2. ASSUME NEW f \in S, NEW e, e = [f EXCEPT !.bucket = IF @ = "pending" THEN "expired" ELSE @]
      PROVE  /\ e \in Entries /\ e.bucket # "pending"
             /\ e.from = f.from /\ e.to = f.to
             /\ e.bucket = "available" => e = f
  <2>1. f \in Entries
    OBVIOUS
  <2>2. e.from = f.from /\ e.to = f.to /\ e.bucket = IF f.bucket = "pending" THEN "expired" ELSE f.bucket
    BY <1>2, <2>1 DEF Entries
  <2>3. e \in Entries /\ e.bucket # "pending"
    BY <1>2, <2>1 DEF Entries, Buckets
  <2>4. e.bucket = "available" => e = f
    BY <1>2, <2>1, <2>2, <2>3 DEF Entries, Buckets
  <2> QED BY <2>2, <2>3, <2>4
<1> QED BY <1>1, <1>2 DEF NoPending

\* Expiry keeps a ledger sound, and makes nothing available.
LEMMA ExpiredSound ==
    ASSUME NEW S \in SUBSET Entries
    PROVE  /\ \A c, sn : Sound(S, c, sn) => Sound(Expired(S), c, sn)
           /\ \A old, b, t : Served(S, old, b, t) => Served(Expired(S), old, b, t)
<1>1. \A e \in Expired(S) : \E f \in S :
                /\ e = [f EXCEPT !.bucket = IF @ = "pending" THEN "expired" ELSE @]
                /\ e.from = f.from /\ e.to = f.to
                /\ e.bucket = "available" => e = f
  BY ExpiredEntry
<1>2. ASSUME NEW c, NEW sn, Sound(S, c, sn) PROVE Sound(Expired(S), c, sn)
  <2>1. ASSUME NEW e \in Expired(S), NEW f \in Expired(S), e # f
        PROVE  e.to <= f.from \/ f.to <= e.from
    <3>1. PICK e0 \in S : /\ e = [e0 EXCEPT !.bucket = IF @ = "pending" THEN "expired" ELSE @]
                          /\ e.from = e0.from /\ e.to = e0.to
      BY <1>1
    <3>2. PICK f0 \in S : /\ f = [f0 EXCEPT !.bucket = IF @ = "pending" THEN "expired" ELSE @]
                          /\ f.from = f0.from /\ f.to = f0.to
      BY <1>1
    <3>3. e0 # f0
      BY <2>1, <3>1, <3>2
    <3> QED BY <1>2, <3>1, <3>2, <3>3 DEF Sound, Disjoint
  <2>2. ASSUME NEW e \in Expired(S) PROVE e.to <= c /\ Ticks(e) \subseteq sn
    <3>1. PICK f \in S : e.from = f.from /\ e.to = f.to
      BY <1>1
    <3> QED BY <1>2, <3>1 DEF Sound, Ticks
  <2> QED BY <2>1, <2>2 DEF Sound, Disjoint
<1>3. ASSUME NEW old, NEW b, NEW t, Served(S, old, b, t) PROVE Served(Expired(S), old, b, t)
  BY <1>1, <1>3 DEF Served
<1> QED BY <1>2, <1>3

\* What unlocking makes of an entry.
LEMMA UnlockedEntry ==
    ASSUME NEW S \in SUBSET Entries, NEW start \in Int
    PROVE  /\ Unlocked(S, start) \in SUBSET Entries
           /\ \A e \in Unlocked(S, start) : \E f \in S :
                /\ e = [f EXCEPT !.bucket = IF @ = "pending" /\ f.from >= start THEN "available" ELSE @]
                /\ e.from = f.from /\ e.to = f.to
                /\ e = f \/ (e.from >= start /\ f.bucket = "pending")
<1>1. \A e \in Unlocked(S, start) : \E f \in S :
        e = [f EXCEPT !.bucket = IF @ = "pending" /\ f.from >= start THEN "available" ELSE @]
  BY DEF Unlocked
<1>2. ASSUME NEW f \in S, NEW e,
             e = [f EXCEPT !.bucket = IF @ = "pending" /\ f.from >= start THEN "available" ELSE @]
      PROVE  /\ e \in Entries
             /\ e.from = f.from /\ e.to = f.to
             /\ e = f \/ (e.from >= start /\ f.bucket = "pending")
  <2>1. f \in Entries
    OBVIOUS
  <2>2. CASE f.bucket = "pending" /\ f.from >= start
    <3>1. e = [f EXCEPT !.bucket = "available"]
      BY <1>2, <2>2
    <3> QED BY <2>1, <2>2, <3>1 DEF Entries, Buckets
  <2>3. CASE ~(f.bucket = "pending" /\ f.from >= start)
    <3>1. e = [f EXCEPT !.bucket = f.bucket]
      BY <1>2, <2>3
    <3>2. e = f
      BY <2>1, <3>1 DEF Entries
    <3> QED BY <2>1, <3>2
  <2> QED BY <2>2, <2>3
<1> QED BY <1>1, <1>2

\* Unlocking keeps a ledger sound, and unlocks entries of the cycle only.
LEMMA UnlockedSound ==
    ASSUME NEW S \in SUBSET Entries, NEW start \in Int
    PROVE  /\ \A c, sn : Sound(S, c, sn) => Sound(Unlocked(S, start), c, sn)
           /\ \A e \in Unlocked(S, start) \ S : e.from >= start
<1>1. \A e \in Unlocked(S, start) : \E f \in S :
                /\ e = [f EXCEPT !.bucket = IF @ = "pending" /\ f.from >= start THEN "available" ELSE @]
                /\ e.from = f.from /\ e.to = f.to
                /\ e = f \/ (e.from >= start /\ f.bucket = "pending")
  BY UnlockedEntry
<1>2. ASSUME NEW c, NEW sn, Sound(S, c, sn) PROVE Sound(Unlocked(S, start), c, sn)
  <2>1. ASSUME NEW e \in Unlocked(S, start), NEW f \in Unlocked(S, start), e # f
        PROVE  e.to <= f.from \/ f.to <= e.from
    <3>1. PICK g \in S :
            /\ e = [g EXCEPT !.bucket = IF @ = "pending" /\ g.from >= start THEN "available" ELSE @]
            /\ e.from = g.from /\ e.to = g.to
      BY <1>1
    <3>2. PICK h \in S :
            /\ f = [h EXCEPT !.bucket = IF @ = "pending" /\ h.from >= start THEN "available" ELSE @]
            /\ f.from = h.from /\ f.to = h.to
      BY <1>1
    <3>3. g # h
      BY <2>1, <3>1, <3>2
    <3> QED BY <1>2, <3>1, <3>2, <3>3 DEF Sound, Disjoint
  <2>2. ASSUME NEW e \in Unlocked(S, start) PROVE e.to <= c /\ Ticks(e) \subseteq sn
    <3>1. PICK f \in S : e.from = f.from /\ e.to = f.to
      BY <1>1
    <3> QED BY <1>2, <3>1 DEF Sound, Ticks
  <2> QED BY <2>1, <2>2 DEF Sound, Disjoint
<1>3. \A e \in Unlocked(S, start) \ S : e.from >= start
  BY <1>1
<1> QED BY <1>2, <1>3

\* Entries from the cursor on keep a ledger sound.
LEMMA AddSound ==
    ASSUME NEW S \in SUBSET Entries, NEW N \in SUBSET Entries, NEW sn,
           NEW c \in 0 .. MaxTime, NEW d \in 0 .. MaxTime, c <= d,
           Sound(S, c, sn), Disjoint(N),
           \A e \in N : c <= e.from /\ e.to <= d /\ Ticks(e) \subseteq sn
    PROVE  Sound(S \cup N, d, sn)
<1>1. \A e \in Entries : e.from \in Int /\ e.to \in Int
  BY LedgerAssumption DEF Entries
<1>2. ASSUME NEW e \in S \cup N, NEW f \in S \cup N, e # f
      PROVE  e.to <= f.from \/ f.to <= e.from
  <2>1. CASE e \in S /\ f \in S
    BY <1>2, <2>1 DEF Sound, Disjoint
  <2>2. CASE e \in N /\ f \in N
    BY <1>2, <2>2 DEF Disjoint
  <2>3. CASE e \in S /\ f \in N
    BY <1>1, <2>3 DEF Sound
  <2>4. CASE e \in N /\ f \in S
    BY <1>1, <2>4 DEF Sound
  <2> QED BY <2>1, <2>2, <2>3, <2>4
<1>3. ASSUME NEW e \in S \cup N PROVE e.to <= d /\ Ticks(e) \subseteq sn
  BY <1>1, <1>3 DEF Sound
<1> QED BY <1>2, <1>3 DEF Sound, Disjoint

\* An interval is an entry or nothing.
LEMMA IntervalEntry ==
    ASSUME NEW from \in 0 .. MaxTime, NEW to \in Int, to <= MaxTime, NEW b \in Buckets
    PROVE  /\ Interval(from, to, b) \in SUBSET Entries
           /\ \A e \in Interval(from, to, b) :
                e.from = from /\ e.to = to /\ e.bucket = b /\ from < to
           /\ \A e, f \in Interval(from, to, b) : e = f
<1>1. CASE from < to
  <2>1. Interval(from, to, b) = {[from |-> from, to |-> to, bucket |-> b]}
    BY <1>1 DEF Interval, Entry
  <2>2. [from |-> from, to |-> to, bucket |-> b] \in Entries
    BY <1>1, LedgerAssumption DEF Entries
  <2> QED BY <1>1, <2>1, <2>2
<1>2. CASE ~(from < to)
  BY <1>2 DEF Interval
<1> QED BY <1>1, <1>2

\* The columns that accrual reads.
RowTypes(p) ==
    /\ ledger[p] \in SUBSET Entries
    /\ cursor[p] \in 0 .. MaxTime /\ probation[p] \in 0 .. MaxTime
    /\ lastSuccess[p] \in Times

\* The new entries of an accrual.
Added(p, at) ==
    LET end == AccrualEnd(p, at)
        unlockAt == probation[p] + PROBATION
    IN  IF userState[Owner[p]] # "active" THEN {}
        ELSE IF end >= unlockAt
        THEN Interval(cursor[p], unlockAt, "available")
               \cup Interval(MaxOf(cursor[p], unlockAt), end, "available")
        ELSE Interval(cursor[p], end, "pending")

\* They lie between the cursor and the end of the last success.
LEMMA AddedEntries ==
    ASSUME NEW p \in Proxies, RowTypes(p), NEW at \in 0 .. MaxTime, AccrualEnd(p, at) > cursor[p]
    PROVE  /\ AccrualEnd(p, at) \in 0 .. MaxTime /\ AccrualEnd(p, at) <= at
           /\ AccrualEnd(p, at) <= lastSuccess[p] + STALE
           /\ Added(p, at) \in SUBSET Entries /\ Disjoint(Added(p, at))
           /\ \A e \in Added(p, at) :
                /\ cursor[p] <= e.from /\ e.to <= AccrualEnd(p, at)
                /\ e.bucket = "available" => AccrualEnd(p, at) >= probation[p] + PROBATION
<1> DEFINE end == AccrualEnd(p, at)
           c == cursor[p]
           u == probation[p] + PROBATION
<1>1. /\ end \in 0 .. MaxTime /\ end <= at /\ end <= lastSuccess[p] + STALE
      /\ c \in 0 .. MaxTime /\ u \in Nat /\ c < end
  <2> DEFINE l == lastSuccess[p]
  <2>1. l \in Int /\ l + STALE \in Int /\ c \in 0 .. MaxTime /\ probation[p] \in 0 .. MaxTime
    BY LedgerAssumption DEF RowTypes, Times, Never
  <2>2. end = IF at <= l + STALE THEN at ELSE l + STALE
    BY DEF AccrualEnd, MinOf
  <2>3. c < end
    BY <2>1, <2>2
  <2>4. end \in Int /\ end <= at /\ end <= l + STALE
    <3> HIDE DEF end, l, c
    <3> QED BY <2>1, <2>2
  <2>5. end \in 0 .. MaxTime
    <3> HIDE DEF end, l, c
    <3> QED BY <2>1, <2>3, <2>4, Nats
  <2>6. u \in Nat
    BY <2>1, Nats
  <2> QED BY <2>1, <2>3, <2>4, <2>5, <2>6
<1>2. Added(p, at) = IF userState[Owner[p]] # "active" THEN {}
        ELSE IF end >= u THEN Interval(c, u, "available") \cup Interval(MaxOf(c, u), end, "available")
        ELSE Interval(c, end, "pending")
  BY DEF Added
<1> HIDE DEF end, c, u
<1>3. CASE userState[Owner[p]] # "active"
  BY <1>1, <1>2, <1>3 DEF end, c, u, Disjoint
<1>4. CASE userState[Owner[p]] = "active" /\ end >= u
  <2> DEFINE I == Interval(c, u, "available")
             J == Interval(MaxOf(c, u), end, "available")
  <2>1. /\ u <= MaxTime /\ MaxOf(c, u) \in 0 .. MaxTime /\ end \in Int /\ end <= MaxTime
        /\ "available" \in Buckets /\ c <= MaxOf(c, u) /\ u <= MaxOf(c, u) /\ u \in Int
    BY <1>1, <1>4, LedgerAssumption DEF MaxOf, Buckets
  <2>2. /\ I \in SUBSET Entries
        /\ \A e \in I : e.from = c /\ e.to = u /\ e.bucket = "available" /\ c < u
        /\ \A e, f \in I : e = f
    BY <1>1, <2>1, IntervalEntry
  <2>3. /\ J \in SUBSET Entries
        /\ \A e \in J : e.from = MaxOf(c, u) /\ e.to = end /\ e.bucket = "available"
        /\ \A e, f \in J : e = f
    BY <1>1, <2>1, IntervalEntry
  <2>4. Added(p, at) = I \cup J
    BY <1>2, <1>4
  <2> HIDE DEF I, J
  <2>5. Disjoint(I \cup J)
    BY <2>1, <2>2, <2>3 DEF Disjoint
  <2>6. \A e \in I \cup J : c <= e.from /\ e.to <= end
    BY <1>1, <1>4, <2>1, <2>2, <2>3
  <2> QED BY <1>1, <1>4, <2>2, <2>3, <2>4, <2>5, <2>6 DEF end, c, u
<1>5. CASE userState[Owner[p]] = "active" /\ ~(end >= u)
  <2>1. end \in Int /\ end <= MaxTime /\ "pending" \in Buckets
    BY <1>1, LedgerAssumption DEF Buckets
  <2> DEFINE I == Interval(c, end, "pending")
  <2>2. /\ I \in SUBSET Entries
        /\ \A e \in I : e.from = c /\ e.to = end /\ e.bucket = "pending"
        /\ \A e, f \in I : e = f
    BY <1>1, <2>1, IntervalEntry
  <2>3. Added(p, at) = I
    BY <1>2, <1>5
  <2> HIDE DEF I
  <2> QED BY <1>1, <2>2, <2>3 DEF end, c, u, Disjoint
<1> QED BY <1>3, <1>4, <1>5

\* What was in the ledger before an accrual, after it.
LEMMA AccruedSplit ==
    ASSUME NEW p, NEW at
    PROVE  \/ AccruedEntries(p, at) = ledger[p] \cup Added(p, at)
           \/ /\ AccrualEnd(p, at) >= probation[p] + PROBATION
              /\ AccruedEntries(p, at) = Unlocked(ledger[p], probation[p]) \cup Added(p, at)
BY DEF AccruedEntries, Added

\* The row's ledger is sound.
RowSound(p) == Sound(ledger[p], cursor[p], seen[p])

\* Every tick that an accrual of the row could still pay was observed.
CursorSeen(p) ==
    status[p] \in {"online", "suspect"} /\ eligibility[p] \in Earning =>
        \A t \in 0 .. MaxTime : cursor[p] <= t /\ t < lastSuccess[p] + STALE => t \in seen[p]

\* The cycle of a row that earns began after the row was last interrupted,
\* and so did the interval that is paid next.
Unbroken(p) ==
    eligibility[p] \in Earning => brokeAt[p] <= probation[p] /\ brokeAt[p] <= cursor[p]

\* An accrual writes entries and advances the cursor, but not beyond `at`.
LEMMA AccrueTypes ==
    ASSUME NEW p \in Proxies, RowTypes(p), NEW at \in 0 .. MaxTime, NEW st
    PROVE  /\ AccrueRow(p, at, st) \in SUBSET Entries
           /\ Accrues(p, at, st) =>
                AccrualEnd(p, at) \in 0 .. MaxTime /\ AccrualEnd(p, at) <= at /\ cursor[p] < AccrualEnd(p, at)
<1>1. CASE Accrues(p, at, st)
  <2>1. AccrualEnd(p, at) > cursor[p]
    BY <1>1 DEF Accrues
  <2>2. Added(p, at) \in SUBSET Entries /\ AccrualEnd(p, at) \in 0 .. MaxTime /\ AccrualEnd(p, at) <= at
    BY <2>1, AddedEntries
  <2>3. ledger[p] \in SUBSET Entries /\ probation[p] \in Int
    BY DEF RowTypes
  <2>3a. Unlocked(ledger[p], probation[p]) \in SUBSET Entries
    BY <2>3, UnlockedEntry
  <2>4. AccruedEntries(p, at) \in SUBSET Entries
    BY <2>2, <2>3, <2>3a, AccruedSplit
  <2> QED BY <1>1, <2>1, <2>2, <2>4 DEF AccrueRow
<1>2. CASE ~Accrues(p, at, st)
  BY <1>2 DEF AccrueRow, RowTypes
<1> QED BY <1>1, <1>2

\* An accrual pays observed ticks once, and makes available what served its
\* probation.
LEMMA AccrueSound ==
    ASSUME NEW p \in Proxies, RowTypes(p), NEW at \in 0 .. MaxTime, now \in 0 .. MaxTime, at <= now,
           NEW st \in SUBSET {"online", "suspect"}, Accrues(p, at, st), brokeAt[p] \in 0 .. MaxTime,
           RowSound(p), CursorSeen(p), Unbroken(p)
    PROVE  /\ Sound(AccruedEntries(p, at), AccrualEnd(p, at), seen[p])
           /\ Served(AccruedEntries(p, at), ledger[p], brokeAt[p], now)
<1> DEFINE end == AccrualEnd(p, at)
           c == cursor[p]
           N == Added(p, at)
<1>1. end > c /\ status[p] \in {"online", "suspect"} /\ eligibility[p] \in Earning
  BY DEF Accrues
<1>2. /\ end \in 0 .. MaxTime /\ end <= at /\ end <= lastSuccess[p] + STALE
      /\ N \in SUBSET Entries /\ Disjoint(N)
      /\ \A e \in N : /\ c <= e.from /\ e.to <= end
                      /\ e.bucket = "available" => end >= probation[p] + PROBATION
  BY <1>1, AddedEntries
<1>3. c \in 0 .. MaxTime /\ probation[p] \in 0 .. MaxTime /\ ledger[p] \in SUBSET Entries /\ lastSuccess[p] \in Int
  BY LedgerAssumption DEF RowTypes, Times, Never
<1>4. brokeAt[p] <= probation[p] /\ brokeAt[p] <= c
  BY <1>1 DEF Unbroken
<1>5. \A t \in 0 .. MaxTime : c <= t /\ t < lastSuccess[p] + STALE => t \in seen[p]
  BY <1>1 DEF CursorSeen
<1>6. AccruedEntries(p, at) = ledger[p] \cup N
      \/ (end >= probation[p] + PROBATION /\ AccruedEntries(p, at) = Unlocked(ledger[p], probation[p]) \cup N)
  BY AccruedSplit
<1>7. Sound(ledger[p], c, seen[p])
  BY DEF RowSound
<1> HIDE DEF end, c, N
<1>8. \A e \in N : Ticks(e) \subseteq seen[p]
  <2> SUFFICES ASSUME NEW e \in N, NEW t \in Ticks(e) PROVE t \in seen[p]
    OBVIOUS
  <2>1. e.from \in 0 .. MaxTime /\ e.to \in 0 .. MaxTime /\ c <= e.from /\ e.to <= end
    BY <1>2 DEF Entries
  <2>2. t \in Int /\ e.from <= t /\ t < e.to
    BY <2>1, LedgerAssumption DEF Ticks
  <2>3. t \in 0 .. MaxTime /\ c <= t /\ t < lastSuccess[p] + STALE
    <3>1. end \in Int /\ end <= lastSuccess[p] + STALE /\ c \in Int /\ 0 <= e.from /\ e.to <= MaxTime
      BY <1>2, <1>3, <2>1
    <3> QED BY <1>3, <2>1, <2>2, <3>1, Nats
  <2> QED BY <1>5, <2>3
<1>9. c <= end
  BY <1>1, <1>2, <1>3
<1>10. CASE AccruedEntries(p, at) = ledger[p] \cup N
  <2>1. Sound(ledger[p] \cup N, end, seen[p])
    BY <1>2, <1>3, <1>7, <1>8, <1>9, AddSound
  <2>2. ASSUME NEW e \in N, e.bucket = "available"
        PROVE  e.from >= brokeAt[p] /\ now >= brokeAt[p] + PROBATION
    <3>1. e.from \in 0 .. MaxTime
      BY <1>2 DEF Entries
    <3>2. c <= e.from /\ end >= probation[p] + PROBATION /\ end \in Int /\ end <= at
      BY <1>2, <2>2
    <3> QED BY <1>3, <1>4, <3>1, <3>2, Nats
  <2> QED BY <1>10, <2>1, <2>2 DEF Served, end
<1>11. CASE end >= probation[p] + PROBATION /\ AccruedEntries(p, at) = Unlocked(ledger[p], probation[p]) \cup N
  <2> DEFINE U == Unlocked(ledger[p], probation[p])
  <2>0. probation[p] \in Int
    BY <1>3
  <2>1. U \in SUBSET Entries
    BY <1>3, <2>0, UnlockedEntry
  <2>2. Sound(U, c, seen[p]) /\ \A e \in U \ ledger[p] : e.from >= probation[p]
    BY <1>3, <1>7, <2>0, UnlockedSound
  <2> HIDE DEF U
  <2>3. Sound(U \cup N, end, seen[p])
    BY <1>2, <1>3, <1>8, <1>9, <2>1, <2>2, AddSound
  <2>4. now >= brokeAt[p] + PROBATION
    BY <1>2, <1>3, <1>4, <1>11, LedgerAssumption
  <2>5. ASSUME NEW e \in (U \cup N) \ ledger[p] PROVE e.from >= brokeAt[p]
    <3>1. e.from \in 0 .. MaxTime
      BY <1>2, <2>1 DEF Entries
    <3> QED BY <1>2, <1>3, <1>4, <2>2, <2>5, <3>1
  <2> QED BY <1>11, <2>3, <2>4, <2>5 DEF Served, end, U
<1> QED BY <1>6, <1>10, <1>11

\* A broken cycle: all observed ticks are paid, and nothing stays pending.
LEMMA BrokenSound ==
    ASSUME NEW p \in Proxies, RowTypes(p), now \in 0 .. MaxTime
    PROVE  /\ BrokenCycle(p) \in SUBSET Entries
           /\ NoPending(BrokenCycle(p))
           /\ cursor[p] <= now /\ brokeAt[p] \in 0 .. MaxTime /\ RowSound(p) /\ CursorSeen(p) /\ Unbroken(p)
                => /\ Sound(BrokenCycle(p), now, seen[p])
                   /\ Served(BrokenCycle(p), ledger[p], brokeAt[p], now)
<1> DEFINE st == {"online", "suspect"}
           S == IF eligibility[p] \in Earning THEN AccrueRow(p, now, st) ELSE ledger[p]
<1>1. BrokenCycle(p) = Expired(S)
  BY DEF BrokenCycle
<1>2. S \in SUBSET Entries
  BY AccrueTypes DEF RowTypes
<1>3. ASSUME cursor[p] <= now, brokeAt[p] \in 0 .. MaxTime, RowSound(p), CursorSeen(p), Unbroken(p)
      PROVE  Sound(S, now, seen[p]) /\ Served(S, ledger[p], brokeAt[p], now)
  <2>1. ASSUME NEW T \in SUBSET Entries, NEW c \in 0 .. MaxTime, c <= now, Sound(T, c, seen[p])
        PROVE  Sound(T, now, seen[p])
    BY <2>1, LedgerAssumption DEF Sound, Entries
  <2>2. Sound(ledger[p], now, seen[p])
    BY <1>3, <2>1 DEF RowTypes, RowSound
  <2>3. Served(ledger[p], ledger[p], brokeAt[p], now)
    BY DEF Served
  <2>4. CASE eligibility[p] \in Earning /\ Accrues(p, now, st)
    <3>1. S = AccruedEntries(p, now)
      BY <2>4 DEF AccrueRow
    <3>2. now <= now /\ st \in SUBSET {"online", "suspect"}
      BY LedgerAssumption
    <3>3. Sound(S, AccrualEnd(p, now), seen[p]) /\ Served(S, ledger[p], brokeAt[p], now)
      BY <1>3, <2>4, <3>1, <3>2, AccrueSound
    <3>4. AccrualEnd(p, now) \in 0 .. MaxTime /\ AccrualEnd(p, now) <= now
      BY <2>4, AccrueTypes
    <3> HIDE DEF S
    <3> QED BY <1>2, <2>1, <3>3, <3>4
  <2>5. CASE ~(eligibility[p] \in Earning /\ Accrues(p, now, st))
    <3>1. S = ledger[p]
      BY <2>5 DEF AccrueRow
    <3> QED BY <2>2, <2>3, <3>1
  <2> QED BY <2>4, <2>5
<1> HIDE DEF S
<1> QED BY <1>1, <1>2, <1>3, ExpiredEntry, ExpiredSound

\* A sound ledger stays sound when the cursor advances or more was observed.
LEMMA SoundGrows ==
    ASSUME NEW S \in SUBSET Entries, NEW c \in 0 .. MaxTime, NEW d \in 0 .. MaxTime, c <= d,
           NEW sn, NEW sm, sn \subseteq sm, Sound(S, c, sn)
    PROVE  Sound(S, d, sm)
BY Nats DEF Sound, Entries

\* L is S, or S after the cycle was closed.
LEMMA MaybeExpired ==
    ASSUME NEW S \in SUBSET Entries, NEW L, L \in {S, Expired(S)}
    PROVE  /\ L \in SUBSET Entries
           /\ \A c, sn : Sound(S, c, sn) => Sound(L, c, sn)
           /\ \A old, b, t : Served(S, old, b, t) => Served(L, old, b, t)
           /\ NoPending(S) => NoPending(L)
           /\ ~ NoPending(L) => L = S
BY ExpiredEntry, ExpiredSound

-----------------------------------------------------------------------------
(***************************************************************************)
(* The types, in groups.                                                   *)
(***************************************************************************)
Statuses == {"absent", "pending", "online", "suspect", "offline", "blocked", "archived"}
Edits == [kind : {"none", "archive", "replace"}, exit : IPs \cup {None},
          rows : SUBSET Proxies, canonical : 0 .. MaxProxies]
Cycles == [pc : {"idle", "accrue", "select", "promote", "write"}, at : 0 .. MaxTime,
           todo : SUBSET Proxies, old : 0 .. MaxProxies, new : 0 .. MaxProxies]

ClockTypes == now \in 0 .. MaxTime /\ userState \in [Users -> {"active", "paused", "blocked"}]
HealthTypes ==
    /\ status \in [Proxies -> Statuses]
    /\ eligibility \in [Proxies -> {"pending", "allow", "risk"}]
    /\ failures \in [Proxies -> 0 .. OfflineAfter]
    /\ lastSuccess \in [Proxies -> Times]
    /\ offlineSince \in [Proxies -> Times]
    /\ deadSince \in [Proxies -> Times]
EgressTypes ==
    /\ exit \in [Proxies -> IPs \cup {None}]
    /\ verified \in [Proxies -> Times]
    /\ dup \in [Proxies -> 0 .. MaxProxies]
EarnTypes ==
    /\ cursor \in [Proxies -> 0 .. MaxTime]
    /\ probation \in [Proxies -> 0 .. MaxTime]
    /\ ledger \in [Proxies -> SUBSET Entries]
TaskTypes == edit \in [Proxies -> Edits] /\ maint \in Cycles
HistTypes ==
    /\ seen \in [Proxies -> SUBSET (0 .. MaxTime)]
    /\ dupAt \in [Proxies -> SUBSET (0 .. MaxTime)]
    /\ brokeAt \in [Proxies -> 0 .. MaxTime]
    /\ rewound \in SUBSET Proxies

Types == ClockTypes /\ HealthTypes /\ EgressTypes /\ EarnTypes /\ TaskTypes /\ HistTypes

\* Together they are TypeOK.
LEMMA TypeSplit == TypeOK <=> Types
BY DEF TypeOK, Types, ClockTypes, HealthTypes, EgressTypes, EarnTypes, TaskTypes, HistTypes,
       Statuses, Edits, Cycles, Entries

-----------------------------------------------------------------------------
(***************************************************************************)
(* The inductive invariant.                                                *)
(***************************************************************************)

\* A row that was never seen to work does not earn, and clocks do not run
\* ahead.
HealthRow(p) ==
    /\ status[p] \in {"absent", "pending"} => lastSuccess[p] = Never /\ eligibility[p] = "pending"
    /\ status[p] = "suspect" /\ lastSuccess[p] = Never => eligibility[p] = "pending"
    /\ status[p] = "online" => lastSuccess[p] # Never
    /\ status[p] = "offline" => failures[p] = OfflineAfter
    /\ lastSuccess[p] <= now /\ cursor[p] <= now

\* The last success covers the STALE ticks from it on.
SuccessSeen(p) ==
    lastSuccess[p] # Never =>
        \A t \in 0 .. MaxTime : lastSuccess[p] <= t /\ t < lastSuccess[p] + STALE => t \in seen[p]

\* Pending earnings: a row that was observed, at a known address, to earn.
EarnsIfPending(p) ==
    ~ NoPending(ledger[p]) =>
        status[p] \in {"online", "suspect"} /\ eligibility[p] \in Earning /\ exit[p] # None

\* All that is invariant of a row.
Row(p) ==
    /\ HealthRow(p) /\ SuccessSeen(p) /\ EarnsIfPending(p)
    /\ p \notin rewound => RowSound(p) /\ CursorSeen(p) /\ Unbroken(p)

\* The cycle's time is not ahead, and a promotion has its two rows.
MaintInv ==
    /\ maint.at <= now
    /\ maint.pc = "write" => maint.old \in Proxies /\ maint.new \in Proxies

\* The inductive invariant.
LedgerInv == Types /\ MaintInv /\ \A p \in Proxies : Row(p)

\* What a step does to a row.
RowStep(p) ==
    /\ Row(p)'
    /\ p \notin rewound => Served(ledger'[p], ledger[p], brokeAt[p], now)

\* The types of the columns of a row.
LEMMA RowTyped ==
    ASSUME Types, NEW p \in Proxies
    PROVE  /\ RowTypes(p) /\ now \in 0 .. MaxTime /\ brokeAt[p] \in 0 .. MaxTime
           /\ lastSuccess[p] \in Int /\ Never <= lastSuccess[p] /\ lastSuccess[p] <= MaxTime
           /\ status[p] \in Statuses /\ eligibility[p] \in {"pending", "allow", "risk"}
           /\ exit[p] \in IPs \cup {None} /\ seen[p] \in SUBSET (0 .. MaxTime)
           /\ offlineSince[p] \in Times /\ deadSince[p] \in Times /\ verified[p] \in Times
           /\ failures[p] \in 0 .. OfflineAfter /\ dup[p] \in 0 .. MaxProxies
<1>1. RowTypes(p) /\ now \in 0 .. MaxTime /\ brokeAt[p] \in 0 .. MaxTime
  BY DEF Types, RowTypes, ClockTypes, HealthTypes, EarnTypes, HistTypes
<1>2. lastSuccess[p] \in Never .. MaxTime
  BY <1>1 DEF RowTypes, Times
<1>3. lastSuccess[p] \in Int /\ Never <= lastSuccess[p] /\ lastSuccess[p] <= MaxTime
  BY <1>2, Nats DEF Never
<1>4. /\ status[p] \in Statuses /\ eligibility[p] \in {"pending", "allow", "risk"}
      /\ offlineSince[p] \in Times /\ deadSince[p] \in Times /\ failures[p] \in 0 .. OfflineAfter
  BY DEF Types, HealthTypes
<1>5. /\ exit[p] \in IPs \cup {None} /\ seen[p] \in SUBSET (0 .. MaxTime)
      /\ verified[p] \in Times /\ dup[p] \in 0 .. MaxProxies
  BY DEF Types, EgressTypes, HistTypes
<1> QED BY <1>1, <1>3, <1>4, <1>5

\* A row of which a step at most closes the cycle and changes the group.
LEMMA OtherRow ==
    ASSUME LedgerInv, Types', NEW q \in Proxies, now <= now',
           status'[q] = status[q], eligibility'[q] = eligibility[q], lastSuccess'[q] = lastSuccess[q],
           failures'[q] = failures[q], exit'[q] = exit[q], cursor'[q] = cursor[q], probation'[q] = probation[q],
           ledger'[q] \in {ledger[q], Expired(ledger[q])},
           seen'[q] = seen[q], brokeAt'[q] = brokeAt[q], q \in rewound <=> q \in rewound'
    PROVE  RowStep(q)
<1>1. Row(q) /\ Types
  BY DEF LedgerInv
<1>2. ledger[q] \in SUBSET Entries /\ cursor[q] \in Int /\ lastSuccess[q] \in Int /\ now \in Int /\ now' \in Int
  BY <1>1, RowTyped DEF RowTypes, Types, ClockTypes
<1>3. /\ \A c, sn : Sound(ledger[q], c, sn) => Sound(ledger'[q], c, sn)
      /\ \A old, b, t : Served(ledger[q], old, b, t) => Served(ledger'[q], old, b, t)
      /\ ~ NoPending(ledger'[q]) => ~ NoPending(ledger[q])
  BY <1>2, MaybeExpired
<1>4. HealthRow(q)' /\ SuccessSeen(q)'
  BY <1>1, <1>2 DEF Row, HealthRow, SuccessSeen
<1>5. EarnsIfPending(q)'
  BY <1>1, <1>3 DEF Row, EarnsIfPending
<1>6. ASSUME q \notin rewound PROVE RowSound(q)' /\ CursorSeen(q)' /\ Unbroken(q)'
  BY <1>1, <1>3, <1>6 DEF Row, RowSound, CursorSeen, Unbroken
<1>7. Served(ledger[q], ledger[q], brokeAt[q], now)
  BY DEF Served
<1> QED BY <1>3, <1>4, <1>5, <1>6, <1>7 DEF RowStep, Row

-----------------------------------------------------------------------------
(***************************************************************************)
(* Egress groups.                                                          *)
(***************************************************************************)

\* A regrouping writes ids, and 0 for the canonical row.
LEMMA RegroupedType ==
    ASSUME NEW d \in [Proxies -> 0 .. MaxProxies], NEW S, NEW c \in 0 .. MaxProxies
    PROVE  /\ Regrouped(d, S, c) \in [Proxies -> 0 .. MaxProxies]
           /\ \A q \in Proxies : Regrouped(d, S, c)[q] # 0 => q \in S \ {c} \/ Regrouped(d, S, c)[q] = d[q]
           /\ \A q \in Proxies : q \notin S /\ q # c => Regrouped(d, S, c)[q] = d[q]
BY Nats DEF Regrouped

\* reconcile_exit_ip closes the cycle of every row it makes a duplicate.
LEMMA ReconcileRows ==
    ASSUME Types, NEW p \in Proxies, NEW x, NEW bv, NEW prior \in [Proxies -> SUBSET Entries],
           verified' \in [Proxies -> Times],
           status'[p] \notin {"absent", "archived"}, exit'[p] = x, Reconcile(p, x, bv, prior)
    PROVE  /\ dup' \in [Proxies -> 0 .. MaxProxies]
           /\ ledger' \in [Proxies -> SUBSET Entries]
           /\ \A q \in Proxies : ledger'[q] \in {prior[q], Expired(prior[q])}
           /\ \A q \in Proxies : dup'[q] # 0 /\ dup[q] = 0 => ledger'[q] = Expired(prior[q])
<1> DEFINE joined == Group(x, 0, status', exit')
           c == Canonical(joined, status', offlineSince', verified', bv)
           left == IF exit[p] \in {None, x} THEN {} ELSE Group(exit[p], 0, status', exit')
           b == Canonical(left, status', offlineSince', verified', FALSE)
           dup1 == Regrouped(dup, joined, c)
           lost == (joined \ {c}) \cup (IF left = {} THEN {} ELSE left \ {b})
<1>1. /\ dup' = IF left = {} THEN dup1 ELSE Regrouped(dup1, left, b)
      /\ ledger' = [q \in Proxies |-> IF q \in lost THEN Expired(prior[q]) ELSE prior[q]]
  BY DEF Reconcile
<1>2. joined \in SUBSET Proxies /\ left \in SUBSET Proxies /\ joined # {}
  <2>1. p # 0
    BY Nats DEF Proxies
  <2>2. p \in joined
    BY <2>1 DEF Group
  <2>3. \A y : Group(y, 0, status', exit') \in SUBSET Proxies
    BY DEF Group
  <2> QED BY <2>2, <2>3
<1>3. c \in joined
  <2> HIDE DEF joined
  <2> QED BY <1>2, CanonicalIn
<1>4. left # {} => b \in left
  <2> HIDE DEF left
  <2> QED BY <1>2, CanonicalIn
<1>5. dup \in [Proxies -> 0 .. MaxProxies]
  BY DEF Types, EgressTypes
<1> HIDE DEF joined, c, left, b
<1>6. c \in 0 .. MaxProxies /\ (left # {} => b \in 0 .. MaxProxies)
  <2>1. c \in Proxies /\ (left # {} => b \in Proxies)
    BY <1>2, <1>3, <1>4
  <2>2. \A q \in Proxies : q \in 0 .. MaxProxies
    BY Nats DEF Proxies
  <2> QED BY <2>1, <2>2
<1>7. /\ dup1 \in [Proxies -> 0 .. MaxProxies]
      /\ \A q \in Proxies : dup1[q] # 0 => q \in joined \ {c} \/ dup1[q] = dup[q]
  BY <1>5, <1>6, RegroupedType
<1> HIDE DEF dup1
<1>8. /\ dup' \in [Proxies -> 0 .. MaxProxies]
      /\ \A q \in Proxies : dup'[q] # 0 => q \in lost \/ dup'[q] = dup[q]
  <2>1. CASE left = {}
    BY <1>1, <1>7, <2>1
  <2>2. CASE left # {}
    <3> DEFINE d == Regrouped(dup1, left, b)
    <3>1. /\ d \in [Proxies -> 0 .. MaxProxies]
          /\ \A q \in Proxies : d[q] # 0 => q \in left \ {b} \/ d[q] = dup1[q]
      BY <1>6, <1>7, <2>2, RegroupedType
    <3>2. dup' = d
      BY <1>1, <2>2
    <3> HIDE DEF d
    <3> QED BY <1>7, <2>2, <3>1, <3>2
  <2> QED BY <2>1, <2>2
<1> HIDE DEF lost
<1>9. \A q \in Proxies : Expired(prior[q]) \in SUBSET Entries
  BY ExpiredEntry
<1>10. /\ ledger' \in [Proxies -> SUBSET Entries]
       /\ \A q \in Proxies : ledger'[q] \in {prior[q], Expired(prior[q])}
       /\ \A q \in Proxies : q \in lost => ledger'[q] = Expired(prior[q])
  BY <1>1, <1>9
<1> QED BY <1>8, <1>10

\* An attested address, and since when.
LEMMA AttestTypes ==
    ASSUME Types, NEW p \in Proxies, NEW x \in IPs, Attest(p, x)
    PROVE  /\ exit' \in [Proxies -> IPs \cup {None}] /\ verified' \in [Proxies -> Times]
           /\ exit'[p] = x /\ \A q \in Proxies \ {p} : exit'[q] = exit[q]
<1>1. exit \in [Proxies -> IPs \cup {None}] /\ verified \in [Proxies -> Times] /\ now \in Times
  BY Nats DEF Types, EgressTypes, ClockTypes, Times, Never
<1> QED BY <1>1 DEF Attest

-----------------------------------------------------------------------------
(***************************************************************************)
(* The steps.                                                              *)
(***************************************************************************)

\* A duplicate has nothing pending.
Clean(p) == dup[p] # 0 => NoPending(ledger[p])

\* What every step does ...
RowsKept == Types' /\ MaintInv' /\ \A p \in Proxies : RowStep(p)

\* ... and what every step but those of archive_proxy and replace_proxy does.
Kept == RowsKept /\ \A p \in Proxies : Clean(p) => Clean(p)'

\* The address and the group after a result for p, with the ledger `own`.
LEMMA Regrouping ==
    ASSUME Types, NEW p \in Proxies, NEW x \in IPs, NEW bv, NEW own \in [Proxies -> SUBSET Entries],
           status'[p] \notin {"absent", "archived"},
           Attest(p, x), Reconcile(p, x, bv, own)
    PROVE  /\ EgressTypes' /\ ledger' \in [Proxies -> SUBSET Entries]
           /\ exit'[p] = x
           /\ \A q \in Proxies \ {p} : exit'[q] = exit[q]
           /\ \A q \in Proxies : ledger'[q] \in {own[q], Expired(own[q])}
           /\ \A q \in Proxies : dup'[q] # 0 /\ dup[q] = 0 => ledger'[q] = Expired(own[q])
<1>1. /\ exit' \in [Proxies -> IPs \cup {None}] /\ verified' \in [Proxies -> Times]
      /\ exit'[p] = x /\ \A q \in Proxies \ {p} : exit'[q] = exit[q]
  BY AttestTypes
<1>2. exit'[p] = x /\ verified' \in [Proxies -> Times]
  BY <1>1
<1>3. /\ dup' \in [Proxies -> 0 .. MaxProxies]
      /\ ledger' \in [Proxies -> SUBSET Entries]
      /\ \A q \in Proxies : ledger'[q] \in {own[q], Expired(own[q])}
      /\ \A q \in Proxies : dup'[q] # 0 /\ dup[q] = 0 => ledger'[q] = Expired(own[q])
  BY <1>2, ReconcileRows
<1> QED BY <1>1, <1>3 DEF EgressTypes

\* The ledger of p, when its cycle is broken or goes on.
LEMMA OwnLedger ==
    ASSUME LedgerInv, NEW p \in Proxies, NEW breaks \in BOOLEAN, NEW own,
           own = [ledger EXCEPT ![p] = IF breaks THEN BrokenCycle(p) ELSE @]
    PROVE  /\ own \in [Proxies -> SUBSET Entries] /\ \A q \in Proxies \ {p} : own[q] = ledger[q]
           /\ own[p] = IF breaks THEN BrokenCycle(p) ELSE ledger[p]
           /\ breaks => NoPending(own[p])
           /\ p \notin rewound => Served(own[p], ledger[p], brokeAt[p], now)
           /\ p \notin rewound => Sound(own[p], IF breaks THEN now ELSE cursor[p], seen[p])
<1>1. Types /\ Row(p)
  BY DEF LedgerInv
<1>2. RowTypes(p) /\ now \in 0 .. MaxTime /\ brokeAt[p] \in 0 .. MaxTime /\ ledger \in [Proxies -> SUBSET Entries]
  BY <1>1, RowTyped DEF Types, EarnTypes
<1>3. BrokenCycle(p) \in SUBSET Entries /\ NoPending(BrokenCycle(p))
  BY <1>2, BrokenSound
<1>4. p \notin rewound => Sound(BrokenCycle(p), now, seen[p]) /\ Served(BrokenCycle(p), ledger[p], brokeAt[p], now)
  BY <1>1, <1>2, BrokenSound DEF Row, HealthRow
<1>5. /\ own \in [Proxies -> SUBSET Entries] /\ \A q \in Proxies \ {p} : own[q] = ledger[q]
      /\ own[p] = IF breaks THEN BrokenCycle(p) ELSE ledger[p]
  BY <1>2, <1>3
<1>6. Served(ledger[p], ledger[p], brokeAt[p], now)
  BY DEF Served
<1>7. p \notin rewound => Sound(ledger[p], cursor[p], seen[p])
  BY <1>1 DEF Row, RowSound
<1> QED BY <1>3, <1>4, <1>5, <1>6, <1>7

\* A duplicate that a result makes has nothing pending.
LEMMA CleanKept ==
    ASSUME Types, NEW q \in Proxies, NEW S \in SUBSET Entries, ledger'[q] \in {S, Expired(S)},
           NoPending(ledger[q]) => NoPending(S),
           dup'[q] # 0 /\ dup[q] = 0 => ledger'[q] = Expired(S)
    PROVE  Clean(q) => Clean(q)'
<1>1. NoPending(Expired(S)) /\ (NoPending(S) => NoPending(ledger'[q]))
  BY ExpiredEntry, MaybeExpired
<1> QED BY <1>1 DEF Clean

\* A success.
LEMMA LiveStep ==
    ASSUME LedgerInv, NEW p \in Proxies, NEW x \in IPs, NEW trusted \in BOOLEAN, Live(p, x, trusted)
    PROVE  Kept
<1> DEFINE moved == exit[p] # None /\ x # exit[p]
           unattested == exit[p] = None /\ ~ trusted
           breaks == moved \/ StaleRecovery(p)
           recovered == status[p] \in {"offline", "blocked"}
           restart == breaks \/ recovered
           own == [ledger EXCEPT ![p] = IF breaks THEN BrokenCycle(p) ELSE @]
           broken == Interrupted(p) \/ moved \/ eligibility'[p] # eligibility[p]
<1>1. Types /\ Row(p) /\ MaintInv
  BY DEF LedgerInv
<1>2. /\ Active(p)
      /\ status' = [status EXCEPT ![p] = "online"]
      /\ eligibility' = [eligibility EXCEPT ![p] = IF moved \/ unattested THEN "pending" ELSE @]
      /\ failures' = [failures EXCEPT ![p] = 0]
      /\ lastSuccess' = [lastSuccess EXCEPT ![p] = now]
      /\ offlineSince' = [offlineSince EXCEPT ![p] = Never]
      /\ deadSince' = [deadSince EXCEPT ![p] = Never]
      /\ UNCHANGED <<now, userState, edit, maint, dupAt, rewound>>
  BY DEF Live, Set, taskVars
<1>3. /\ cursor' = [cursor EXCEPT ![p] = IF restart THEN now ELSE @]
      /\ probation' = [probation EXCEPT ![p] = IF restart THEN now ELSE @]
      /\ IF trusted THEN Attest(p, x) /\ Reconcile(p, x, TRUE, own) ELSE ledger' = own /\ UNCHANGED egressVars
      /\ seen' = [seen EXCEPT ![p] = @ \cup (now .. MinOf(now + STALE - 1, MaxTime))]
      /\ brokeAt' = [brokeAt EXCEPT ![p] = IF broken THEN now ELSE @]
  BY DEF Live, Covered, Broken
<1>4. /\ RowTypes(p) /\ now \in 0 .. MaxTime /\ now \in Times /\ Never \in Times /\ brokeAt[p] \in 0 .. MaxTime
      /\ status[p] \in Statuses /\ eligibility[p] \in {"pending", "allow", "risk"}
      /\ lastSuccess[p] \in Int /\ seen[p] \in SUBSET (0 .. MaxTime)
  BY <1>1, RowTyped, Nats DEF Times, Never
<1>5. /\ own \in [Proxies -> SUBSET Entries] /\ \A q \in Proxies \ {p} : own[q] = ledger[q]
      /\ own[p] = IF breaks THEN BrokenCycle(p) ELSE ledger[p]
      /\ breaks => NoPending(own[p])
      /\ p \notin rewound => Served(own[p], ledger[p], brokeAt[p], now)
      /\ p \notin rewound => Sound(own[p], IF breaks THEN now ELSE cursor[p], seen[p])
  <2> HIDE DEF moved
  <2> QED BY OwnLedger
<1> HIDE DEF own
<1>6. ClockTypes' /\ TaskTypes' /\ MaintInv'
  BY <1>1, <1>2 DEF Types, ClockTypes, TaskTypes, MaintInv
<1>7. HealthTypes'
  <2>1. eligibility' \in [Proxies -> {"pending", "allow", "risk"}] /\ status' \in [Proxies -> Statuses]
    BY <1>1, <1>2 DEF Types, HealthTypes, Statuses
  <2>2. failures' \in [Proxies -> 0 .. OfflineAfter]
    BY <1>1, <1>2 DEF Types, HealthTypes, OfflineAfter
  <2>3. /\ lastSuccess' \in [Proxies -> Times] /\ offlineSince' \in [Proxies -> Times]
        /\ deadSince' \in [Proxies -> Times]
    BY <1>1, <1>2, <1>4 DEF Types, HealthTypes
  <2> QED BY <2>1, <2>2, <2>3 DEF HealthTypes
<1>8. HistTypes'
  <2>1. now .. MinOf(now + STALE - 1, MaxTime) \in SUBSET (0 .. MaxTime)
    BY <1>4, Nats DEF MinOf
  <2>2. seen' \in [Proxies -> SUBSET (0 .. MaxTime)]
    BY <1>1, <1>3, <2>1 DEF Types, HistTypes
  <2>3. brokeAt' \in [Proxies -> 0 .. MaxTime]
    BY <1>1, <1>3, <1>4 DEF Types, HistTypes
  <2> QED BY <1>1, <1>2, <2>2, <2>3 DEF Types, HistTypes
<1>9. /\ EgressTypes' /\ ledger' \in [Proxies -> SUBSET Entries]
      /\ exit'[p] \in IPs \/ exit'[p] = exit[p]
      /\ \A q \in Proxies \ {p} : exit'[q] = exit[q]
      /\ \A q \in Proxies : ledger'[q] \in {own[q], Expired(own[q])}
      /\ \A q \in Proxies : dup'[q] # 0 /\ dup[q] = 0 => ledger'[q] = Expired(own[q])
  <2>1. status'[p] \notin {"absent", "archived"}
    BY <1>1, <1>2 DEF Types, HealthTypes
  <2>2. own \in [Proxies -> SUBSET Entries]
    BY <1>5
  <2>3. CASE trusted
    <3> DEFINE bv == TRUE
    <3>1. Attest(p, x) /\ Reconcile(p, x, bv, own)
      BY <1>3, <2>3
    <3> HIDE DEF bv
    <3> QED BY <1>1, <2>1, <2>2, <3>1, Regrouping
  <2>4. CASE ~trusted
    BY <1>1, <1>3, <2>2, <2>4 DEF egressVars, Types, EgressTypes
  <2> QED BY <2>3, <2>4
<1>10. EarnTypes'
  <2>1. cursor' \in [Proxies -> 0 .. MaxTime] /\ probation' \in [Proxies -> 0 .. MaxTime]
    BY <1>1, <1>3, <1>4 DEF Types, EarnTypes
  <2> QED BY <1>9, <2>1 DEF EarnTypes
<1>11. Types'
  BY <1>6, <1>7, <1>8, <1>9, <1>10 DEF Types
<1>12. ASSUME NEW q \in Proxies, q # p PROVE RowStep(q) /\ (Clean(q) => Clean(q)')
  <2>1. /\ status'[q] = status[q] /\ eligibility'[q] = eligibility[q]
        /\ lastSuccess'[q] = lastSuccess[q] /\ failures'[q] = failures[q]
    BY <1>1, <1>2, <1>12 DEF Types, HealthTypes
  <2>2. exit'[q] = exit[q] /\ cursor'[q] = cursor[q] /\ probation'[q] = probation[q]
    BY <1>1, <1>3, <1>9, <1>12 DEF Types, EarnTypes
  <2>3. seen'[q] = seen[q] /\ brokeAt'[q] = brokeAt[q] /\ (q \in rewound <=> q \in rewound') /\ now <= now'
    BY <1>1, <1>2, <1>3, <1>4, <1>12, Nats DEF Types, HistTypes
  <2>4. own[q] = ledger[q] /\ ledger'[q] \in {ledger[q], Expired(ledger[q])} /\ ledger[q] \in SUBSET Entries
    BY <1>1, <1>5, <1>9, <1>12 DEF Types, EarnTypes
  <2>5. RowStep(q)
    BY <1>11, <2>1, <2>2, <2>3, <2>4, OtherRow
  <2>6. dup'[q] # 0 /\ dup[q] = 0 => ledger'[q] = Expired(ledger[q])
    BY <1>9, <2>4
  <2> QED BY <1>1, <2>4, <2>5, <2>6, CleanKept
<1>13. /\ status'[p] = "online" /\ lastSuccess'[p] = now /\ now' = now
       /\ eligibility'[p] = IF moved \/ unattested THEN "pending" ELSE eligibility[p]
       /\ cursor'[p] = (IF restart THEN now ELSE cursor[p])
       /\ probation'[p] = (IF restart THEN now ELSE probation[p])
       /\ seen'[p] = seen[p] \cup (now .. MinOf(now + STALE - 1, MaxTime))
       /\ brokeAt'[p] = IF broken THEN now ELSE brokeAt[p]
       /\ (p \in rewound') <=> (p \in rewound)
  <2> HIDE DEF moved, unattested, restart, broken
  <2>1. /\ status'[p] = "online" /\ lastSuccess'[p] = now /\ now' = now
        /\ eligibility'[p] = (IF moved \/ unattested THEN "pending" ELSE eligibility[p])
        /\ (p \in rewound') <=> (p \in rewound)
    BY <1>1, <1>2 DEF Types, HealthTypes
  <2>2. /\ cursor'[p] = (IF restart THEN now ELSE cursor[p])
        /\ probation'[p] = (IF restart THEN now ELSE probation[p])
    BY <1>1, <1>3 DEF Types, EarnTypes
  <2>3. /\ seen'[p] = seen[p] \cup (now .. MinOf(now + STALE - 1, MaxTime))
        /\ brokeAt'[p] = IF broken THEN now ELSE brokeAt[p]
    BY <1>1, <1>3 DEF Types, HistTypes
  <2> QED BY <2>1, <2>2, <2>3
<1>14. \A t \in 0 .. MaxTime : now <= t /\ t < now + STALE => t \in seen'[p]
  BY <1>4, <1>13, Nats DEF MinOf
<1>15. cursor[p] <= now /\ cursor[p] \in 0 .. MaxTime /\ probation[p] \in 0 .. MaxTime
  BY <1>1, <1>4 DEF Row, HealthRow, RowTypes
<1>16. /\ own[p] \in SUBSET Entries
       /\ \A c, sn : Sound(own[p], c, sn) => Sound(ledger'[p], c, sn)
       /\ \A old, b, t : Served(own[p], old, b, t) => Served(ledger'[p], old, b, t)
       /\ ~ NoPending(ledger'[p]) => ledger'[p] = own[p]
  <2>1. own[p] \in SUBSET Entries /\ ledger'[p] \in {own[p], Expired(own[p])}
    BY <1>5, <1>9
  <2> QED BY <2>1, MaybeExpired
<1>17. HealthRow(p)'
  BY <1>4, <1>13, <1>15, Nats DEF HealthRow, Never
<1>18. SuccessSeen(p)'
  BY <1>13, <1>14 DEF SuccessSeen
<1>19. EarnsIfPending(p)'
  <2> SUFFICES ASSUME ~ NoPending(ledger'[p])
               PROVE  eligibility'[p] \in Earning /\ exit'[p] # None
    BY <1>13 DEF EarnsIfPending
  <2>1. ~ breaks /\ ~ NoPending(ledger[p])
    BY <1>5, <1>16
  <2>2. eligibility[p] \in Earning /\ exit[p] # None
    BY <1>1, <2>1 DEF Row, EarnsIfPending
  <2> QED BY <1>9, <1>13, <2>1, <2>2, LedgerAssumption
<1>20. ASSUME p \notin rewound PROVE RowSound(p)'
  <2>1. Sound(ledger'[p], IF breaks THEN now ELSE cursor[p], seen[p])
    BY <1>5, <1>16, <1>20
  <2>2. (IF breaks THEN now ELSE cursor[p]) <= cursor'[p] /\ cursor'[p] \in 0 .. MaxTime
    BY <1>4, <1>13, <1>15
  <2>3. seen[p] \subseteq seen'[p] /\ ledger'[p] \in SUBSET Entries
    BY <1>9, <1>13
  <2>4. (IF breaks THEN now ELSE cursor[p]) \in 0 .. MaxTime
    BY <1>4, <1>15
  <2> HIDE DEF breaks
  <2> QED BY <2>1, <2>2, <2>3, <2>4, SoundGrows DEF RowSound
<1>21. ASSUME p \notin rewound PROVE CursorSeen(p)'
  <2> SUFFICES ASSUME eligibility'[p] \in Earning, NEW t \in 0 .. MaxTime, cursor'[p] <= t, t < now + STALE
               PROVE  t \in seen'[p]
    BY <1>13 DEF CursorSeen
  <2>1. CASE t >= now
    BY <1>4, <1>14, <2>1
  <2>2. CASE t < now
    <3>1. ~ restart /\ cursor[p] <= t
      BY <1>4, <1>13, <2>2
    <3>2. ~ moved /\ ~ unattested /\ eligibility[p] \in Earning
      BY <1>13 DEF Earning
    <3>3. status[p] \in {"online", "suspect", "pending"}
      BY <1>2, <1>4, <3>1 DEF Active, Statuses
    <3>4. status[p] \in {"online", "suspect"} /\ lastSuccess[p] # Never
      BY <1>1, <3>2, <3>3 DEF Row, HealthRow, Earning
    <3>5. now <= lastSuccess[p] + STALE
      BY <1>4, <3>1, <3>4, Nats DEF StaleRecovery
    <3>6. t < lastSuccess[p] + STALE
      BY <1>4, <2>2, <3>5, Nats
    <3>7. t \in seen[p]
      BY <1>1, <1>21, <3>1, <3>2, <3>4, <3>6 DEF Row, CursorSeen
    <3> QED BY <1>13, <3>7
  <2> QED BY <1>4, <2>1, <2>2
<1>22. ASSUME p \notin rewound PROVE Unbroken(p)'
  <2> SUFFICES ASSUME eligibility'[p] \in Earning
               PROVE  brokeAt'[p] <= probation'[p] /\ brokeAt'[p] <= cursor'[p]
    BY DEF Unbroken
  <2>1. ~ moved /\ ~ unattested /\ eligibility[p] \in Earning /\ eligibility'[p] = eligibility[p]
    BY <1>13 DEF Earning
  <2>2. brokeAt[p] <= probation[p] /\ brokeAt[p] <= cursor[p]
    BY <1>1, <1>22, <2>1 DEF Row, Unbroken
  <2>3. CASE restart
    BY <1>4, <1>13, <1>15, <2>2, <2>3, Nats
  <2>4. CASE ~ restart
    <3>1. status[p] \in {"online", "suspect", "pending"}
      BY <1>2, <1>4, <2>4 DEF Active, Statuses
    <3>2. status[p] \in {"online", "suspect"}
      BY <1>1, <2>1, <3>1 DEF Row, HealthRow, Earning
    <3>3. ~ Interrupted(p)
      BY <2>4, <3>2 DEF Interrupted, StaleRecovery
    <3> QED BY <1>13, <2>1, <2>2, <2>4, <3>3
  <2> QED BY <2>3, <2>4
<1>23. RowStep(p)
  <2>1. p \notin rewound => Served(ledger'[p], ledger[p], brokeAt[p], now)
    BY <1>5, <1>16
  <2> HIDE DEF moved, unattested, restart, broken
  <2> QED BY <1>13, <1>17, <1>18, <1>19, <1>20, <1>21, <1>22, <2>1 DEF RowStep, Row
<1>24. Clean(p) => Clean(p)'
  <2>1. NoPending(ledger[p]) => NoPending(own[p])
    BY <1>5
  <2>2. /\ own[p] \in SUBSET Entries /\ ledger'[p] \in {own[p], Expired(own[p])}
        /\ dup'[p] # 0 /\ dup[p] = 0 => ledger'[p] = Expired(own[p])
    BY <1>5, <1>9
  <2> QED BY <1>1, <2>1, <2>2, CleanKept
<1> QED BY <1>6, <1>11, <1>12, <1>23, <1>24 DEF Kept, RowsKept

\* A row that goes offline or is blocked: its cycle is broken.
LEMMA StoppedRow ==
    ASSUME LedgerInv, Types', NEW p \in Proxies, now' = now,
           status'[p] \in {"offline", "blocked"}, status'[p] = "offline" => failures'[p] = OfflineAfter,
           lastSuccess'[p] = lastSuccess[p], cursor'[p] = now, probation'[p] = now, brokeAt'[p] = now,
           seen'[p] = seen[p], ledger'[p] = BrokenCycle(p), (p \in rewound) <=> (p \in rewound')
    PROVE  RowStep(p)
<1>1. Types /\ Row(p)
  BY DEF LedgerInv
<1>2. RowTypes(p) /\ now \in 0 .. MaxTime /\ brokeAt[p] \in 0 .. MaxTime
  BY <1>1, RowTyped
<1>3. NoPending(ledger'[p])
  BY <1>2, BrokenSound
<1>4. p \notin rewound => Sound(ledger'[p], now, seen[p]) /\ Served(ledger'[p], ledger[p], brokeAt[p], now)
  BY <1>1, <1>2, BrokenSound DEF Row, HealthRow
<1>5. HealthRow(p)' /\ SuccessSeen(p)' /\ EarnsIfPending(p)'
  BY <1>1, <1>2, <1>3, Nats DEF Row, HealthRow, SuccessSeen, EarnsIfPending
<1>6. p \notin rewound => RowSound(p)' /\ CursorSeen(p)' /\ Unbroken(p)'
  BY <1>2, <1>4, Nats DEF RowSound, CursorSeen, Unbroken
<1> QED BY <1>4, <1>5, <1>6 DEF RowStep, Row

\* The provider answers in the proxy's place.
LEMMA BlockedStep ==
    ASSUME LedgerInv, NEW p \in Proxies, Blocked(p)
    PROVE  Kept
<1>1. Types /\ Row(p) /\ MaintInv
  BY DEF LedgerInv
<1>2. /\ status' = [status EXCEPT ![p] = "blocked"]
      /\ eligibility' = [eligibility EXCEPT ![p] = "risk"]
      /\ failures' = [failures EXCEPT ![p] = 0]
      /\ offlineSince' = [offlineSince EXCEPT ![p] = IF @ = Never THEN now ELSE @]
      /\ cursor' = [cursor EXCEPT ![p] = now]
      /\ probation' = [probation EXCEPT ![p] = now]
      /\ ledger' = [ledger EXCEPT ![p] = BrokenCycle(p)]
      /\ brokeAt' = [brokeAt EXCEPT ![p] = now]
      /\ UNCHANGED <<now, userState, lastSuccess, deadSince, exit, verified, dup, edit, maint, seen, dupAt, rewound>>
  BY DEF Blocked, Set, egressVars, taskVars
<1>3. RowTypes(p) /\ now \in 0 .. MaxTime /\ now \in Times
  BY <1>1, RowTyped, Nats DEF Times, Never
<1>4. BrokenCycle(p) \in SUBSET Entries /\ NoPending(BrokenCycle(p))
  BY <1>3, BrokenSound
<1>5. ClockTypes' /\ TaskTypes' /\ EgressTypes' /\ MaintInv'
  BY <1>1, <1>2 DEF Types, ClockTypes, TaskTypes, EgressTypes, MaintInv
<1>6. HealthTypes'
  <2>1. status' \in [Proxies -> Statuses] /\ eligibility' \in [Proxies -> {"pending", "allow", "risk"}]
    BY <1>1, <1>2 DEF Types, HealthTypes, Statuses
  <2>2. failures' \in [Proxies -> 0 .. OfflineAfter]
    BY <1>1, <1>2 DEF Types, HealthTypes, OfflineAfter
  <2>3. offlineSince' \in [Proxies -> Times]
    BY <1>1, <1>2, <1>3 DEF Types, HealthTypes
  <2> QED BY <1>1, <1>2, <2>1, <2>2, <2>3 DEF Types, HealthTypes
<1>7. EarnTypes' /\ HistTypes'
  <2>1. cursor' \in [Proxies -> 0 .. MaxTime] /\ probation' \in [Proxies -> 0 .. MaxTime]
    BY <1>1, <1>2, <1>3 DEF Types, EarnTypes
  <2>2. ledger' \in [Proxies -> SUBSET Entries]
    BY <1>1, <1>2, <1>4 DEF Types, EarnTypes
  <2>3. brokeAt' \in [Proxies -> 0 .. MaxTime]
    BY <1>1, <1>2, <1>3 DEF Types, HistTypes
  <2> QED BY <1>1, <1>2, <2>1, <2>2, <2>3 DEF Types, EarnTypes, HistTypes
<1>8. Types'
  BY <1>5, <1>6, <1>7 DEF Types
<1>9. ASSUME NEW q \in Proxies, q # p PROVE RowStep(q) /\ (Clean(q) => Clean(q)')
  <2>1. /\ status'[q] = status[q] /\ eligibility'[q] = eligibility[q]
        /\ lastSuccess'[q] = lastSuccess[q] /\ failures'[q] = failures[q]
    BY <1>1, <1>2, <1>9 DEF Types, HealthTypes
  <2>2. exit'[q] = exit[q] /\ cursor'[q] = cursor[q] /\ probation'[q] = probation[q] /\ ledger'[q] = ledger[q]
    BY <1>1, <1>2, <1>9 DEF Types, EarnTypes
  <2>3. seen'[q] = seen[q] /\ brokeAt'[q] = brokeAt[q] /\ (q \in rewound <=> q \in rewound') /\ now <= now'
    BY <1>1, <1>2, <1>3, <1>9, Nats DEF Types, HistTypes
  <2>4. RowStep(q)
    BY <1>8, <2>1, <2>2, <2>3, OtherRow
  <2> QED BY <1>2, <2>2, <2>4 DEF Clean
<1>10. RowStep(p)
  <2>1. status'[p] = "blocked" /\ lastSuccess'[p] = lastSuccess[p] /\ now' = now
    BY <1>1, <1>2 DEF Types, HealthTypes
  <2>2. cursor'[p] = now /\ probation'[p] = now /\ ledger'[p] = BrokenCycle(p)
    BY <1>1, <1>2 DEF Types, EarnTypes
  <2>3. brokeAt'[p] = now /\ seen'[p] = seen[p] /\ ((p \in rewound) <=> (p \in rewound'))
    BY <1>1, <1>2 DEF Types, HistTypes
  <2> QED BY <1>8, <2>1, <2>2, <2>3, StoppedRow
<1>11. Clean(p)'
  BY <1>1, <1>2, <1>4 DEF Types, EarnTypes, Clean
<1> QED BY <1>5, <1>8, <1>9, <1>10, <1>11 DEF Kept, RowsKept

\* A confirmed failure.
LEMMA DeadStep ==
    ASSUME LedgerInv, NEW p \in Proxies, Dead(p)
    PROVE  Kept
<1> DEFINE count == MinOf(failures[p] + 1, OfflineAfter)
           offline == count = OfflineAfter
<1>1. Types /\ Row(p) /\ MaintInv
  BY DEF LedgerInv
<1>2. /\ Active(p)
      /\ failures' = [failures EXCEPT ![p] = count]
      /\ status' = [status EXCEPT ![p] = IF offline THEN "offline" ELSE IF @ = "blocked" THEN "blocked"
                                          ELSE IF count >= 2 THEN "suspect" ELSE @]
      /\ offlineSince' = [offlineSince EXCEPT ![p] =
                IF @ = Never /\ (offline \/ status[p] = "blocked") THEN now ELSE @]
      /\ deadSince' = [deadSince EXCEPT ![p] = IF @ = Never /\ offline THEN now ELSE @]
      /\ UNCHANGED <<now, userState, eligibility, lastSuccess, exit, verified, dup, edit, maint, seen, dupAt, rewound>>
  BY DEF Dead, Set, egressVars, taskVars
<1>3. /\ cursor' = [cursor EXCEPT ![p] = IF offline THEN now ELSE @]
      /\ probation' = [probation EXCEPT ![p] = IF offline THEN now ELSE @]
      /\ ledger' = [ledger EXCEPT ![p] = IF offline THEN BrokenCycle(p) ELSE @]
      /\ brokeAt' = [brokeAt EXCEPT ![p] = IF offline THEN now ELSE @]
  BY DEF Dead, Broken
<1>4. /\ RowTypes(p) /\ now \in 0 .. MaxTime /\ now \in Times /\ status[p] \in Statuses
      /\ eligibility[p] \in {"pending", "allow", "risk"}
  BY <1>1, RowTyped, Nats DEF Times, Never
<1>5. BrokenCycle(p) \in SUBSET Entries /\ NoPending(BrokenCycle(p))
  BY <1>4, BrokenSound
<1>6. count \in 0 .. OfflineAfter /\ (status[p] = "offline" => offline)
  <2>1. failures[p] \in 0 .. 3
    BY <1>1, RowTyped DEF OfflineAfter
  <2>2. status[p] = "offline" => failures[p] = 3
    BY <1>1 DEF Row, HealthRow, OfflineAfter
  <2> QED BY <2>1, <2>2 DEF OfflineAfter, MinOf
<1> HIDE DEF count, offline
<1>7. ClockTypes' /\ TaskTypes' /\ EgressTypes' /\ MaintInv'
  BY <1>1, <1>2 DEF Types, ClockTypes, TaskTypes, EgressTypes, MaintInv
<1>8. HealthTypes'
  <2>1. status' \in [Proxies -> Statuses]
    BY <1>1, <1>2 DEF Types, HealthTypes, Statuses
  <2>2. failures' \in [Proxies -> 0 .. OfflineAfter]
    BY <1>1, <1>2, <1>6 DEF Types, HealthTypes
  <2>3. offlineSince' \in [Proxies -> Times] /\ deadSince' \in [Proxies -> Times]
    BY <1>1, <1>2, <1>4 DEF Types, HealthTypes
  <2> QED BY <1>1, <1>2, <2>1, <2>2, <2>3 DEF Types, HealthTypes
<1>9. EarnTypes' /\ HistTypes'
  <2>1. cursor' \in [Proxies -> 0 .. MaxTime] /\ probation' \in [Proxies -> 0 .. MaxTime]
    BY <1>1, <1>3, <1>4 DEF Types, EarnTypes
  <2>2. ledger' \in [Proxies -> SUBSET Entries]
    BY <1>1, <1>3, <1>5 DEF Types, EarnTypes
  <2>3. brokeAt' \in [Proxies -> 0 .. MaxTime]
    BY <1>1, <1>3, <1>4 DEF Types, HistTypes
  <2> QED BY <1>1, <1>2, <2>1, <2>2, <2>3 DEF Types, EarnTypes, HistTypes
<1>10. Types'
  BY <1>7, <1>8, <1>9 DEF Types
<1>11. ASSUME NEW q \in Proxies, q # p PROVE RowStep(q) /\ (Clean(q) => Clean(q)')
  <2>1. /\ status'[q] = status[q] /\ eligibility'[q] = eligibility[q]
        /\ lastSuccess'[q] = lastSuccess[q] /\ failures'[q] = failures[q]
    BY <1>1, <1>2, <1>11 DEF Types, HealthTypes
  <2>2. exit'[q] = exit[q] /\ cursor'[q] = cursor[q] /\ probation'[q] = probation[q] /\ ledger'[q] = ledger[q]
    BY <1>1, <1>2, <1>3, <1>11 DEF Types, EarnTypes
  <2>3. seen'[q] = seen[q] /\ brokeAt'[q] = brokeAt[q] /\ (q \in rewound <=> q \in rewound') /\ now <= now'
    BY <1>1, <1>2, <1>3, <1>4, <1>11, Nats DEF Types, HistTypes
  <2>4. RowStep(q)
    BY <1>10, <2>1, <2>2, <2>3, OtherRow
  <2> QED BY <1>2, <2>2, <2>4 DEF Clean
<1>12. CASE offline
  <2>1. /\ status'[p] = "offline" /\ lastSuccess'[p] = lastSuccess[p] /\ now' = now /\ failures'[p] = OfflineAfter
    BY <1>1, <1>2, <1>12 DEF Types, HealthTypes, offline
  <2>2. cursor'[p] = now /\ probation'[p] = now /\ ledger'[p] = BrokenCycle(p)
    BY <1>1, <1>3, <1>12 DEF Types, EarnTypes
  <2>3. brokeAt'[p] = now /\ seen'[p] = seen[p] /\ ((p \in rewound) <=> (p \in rewound'))
    BY <1>1, <1>2, <1>3, <1>12 DEF Types, HistTypes
  <2>4. RowStep(p)
    BY <1>10, <2>1, <2>2, <2>3, StoppedRow
  <2>5. Clean(p)'
    BY <1>5, <2>2 DEF Clean
  <2> QED BY <1>7, <1>10, <1>11, <2>4, <2>5 DEF Kept, RowsKept
<1>13. CASE ~ offline
  <2>1. /\ status'[p] \in {status[p], "suspect"} /\ (status[p] = "blocked" => status'[p] = "blocked")
        /\ lastSuccess'[p] = lastSuccess[p] /\ now' = now /\ eligibility'[p] = eligibility[p]
        /\ exit'[p] = exit[p] /\ dup'[p] = dup[p]
    BY <1>1, <1>2, <1>13 DEF Types, HealthTypes
  <2>2. cursor'[p] = cursor[p] /\ probation'[p] = probation[p] /\ ledger'[p] = ledger[p]
    BY <1>1, <1>3, <1>13 DEF Types, EarnTypes
  <2>3. brokeAt'[p] = brokeAt[p] /\ seen'[p] = seen[p] /\ ((p \in rewound) <=> (p \in rewound'))
    BY <1>1, <1>2, <1>3, <1>13 DEF Types, HistTypes
  <2>4. status[p] \in {"pending", "online", "suspect", "blocked"}
    BY <1>2, <1>4, <1>6, <1>13 DEF Active, Statuses
  <2>5. status[p] = "pending" => lastSuccess[p] = Never /\ eligibility[p] = "pending"
    BY <1>1 DEF Row, HealthRow
  <2>6. HealthRow(p)' /\ SuccessSeen(p)' /\ EarnsIfPending(p)'
    BY <1>1, <2>1, <2>2, <2>3, <2>4, <2>5 DEF Row, HealthRow, SuccessSeen, EarnsIfPending
  <2>7. p \notin rewound => RowSound(p)' /\ CursorSeen(p)' /\ Unbroken(p)'
    BY <1>1, <2>1, <2>2, <2>3, <2>4, <2>5 DEF Row, RowSound, CursorSeen, Unbroken, Earning
  <2>8. Served(ledger'[p], ledger[p], brokeAt[p], now)
    BY <2>2 DEF Served
  <2>9. RowStep(p) /\ (Clean(p) => Clean(p)')
    BY <2>1, <2>2, <2>3, <2>6, <2>7, <2>8 DEF RowStep, Row, Clean
  <2> QED BY <1>7, <1>10, <1>11, <2>9 DEF Kept, RowsKept
<1> QED BY <1>12, <1>13

\* An EarnApp verdict.
LEMMA EarnappStep ==
    ASSUME LedgerInv, NEW p \in Proxies, NEW v \in EarnappVerdicts, NEW x \in IPs \cup {None},
           EarnappResult(p, v, x)
    PROVE  Kept
<1> DEFINE moved == x # None /\ exit[p] # None /\ x # exit[p]
           new == IF moved \/ (v = "allow" /\ x = None) THEN "pending" ELSE v
           changed == new # eligibility[p]
           reset == changed \/ moved
           own == [ledger EXCEPT ![p] = IF changed THEN BrokenCycle(p) ELSE IF moved THEN Expired(@) ELSE @]
           bv == verified[p] # Never
<1>1. Types /\ Row(p) /\ MaintInv
  BY DEF LedgerInv
<1>2. /\ status[p] = "online"
      /\ eligibility' = [eligibility EXCEPT ![p] = new]
      /\ cursor' = [cursor EXCEPT ![p] = IF reset THEN now ELSE @]
      /\ probation' = [probation EXCEPT ![p] = IF reset THEN now ELSE @]
      /\ brokeAt' = [brokeAt EXCEPT ![p] = IF reset THEN now ELSE @]
      /\ UNCHANGED <<status, failures, lastSuccess, offlineSince, deadSince, now, userState, edit, maint,
                     seen, dupAt, rewound>>
  BY DEF EarnappResult, Set, Broken, taskVars
<1>3. IF x # None THEN Attest(p, x) /\ Reconcile(p, x, bv, own) ELSE ledger' = own /\ UNCHANGED egressVars
  BY DEF EarnappResult
<1>4. /\ RowTypes(p) /\ now \in 0 .. MaxTime /\ brokeAt[p] \in 0 .. MaxTime
      /\ eligibility[p] \in {"pending", "allow", "risk"} /\ lastSuccess[p] \in Int
      /\ cursor[p] \in 0 .. MaxTime /\ ledger \in [Proxies -> SUBSET Entries]
  BY <1>1, RowTyped DEF RowTypes, Types, EarnTypes
<1>5. new \in {"pending", "allow", "risk"} /\ (moved => new = "pending")
  BY LedgerAssumption
<1>6. cursor[p] <= now /\ lastSuccess[p] # Never /\ lastSuccess[p] <= now
  BY <1>1, <1>2 DEF Row, HealthRow
<1> HIDE DEF moved, new, bv
<1>7. /\ BrokenCycle(p) \in SUBSET Entries /\ NoPending(BrokenCycle(p))
      /\ Expired(ledger[p]) \in SUBSET Entries /\ NoPending(Expired(ledger[p]))
  <2>1. ledger[p] \in SUBSET Entries
    BY <1>4
  <2> QED BY <1>4, <2>1, BrokenSound, ExpiredEntry
<1>8. /\ own \in [Proxies -> SUBSET Entries] /\ \A q \in Proxies \ {p} : own[q] = ledger[q]
      /\ own[p] = IF changed THEN BrokenCycle(p) ELSE IF moved THEN Expired(ledger[p]) ELSE ledger[p]
  BY <1>4, <1>7
<1>9. reset => NoPending(own[p])
  BY <1>7, <1>8
<1>10. ASSUME p \notin rewound
       PROVE  /\ Served(own[p], ledger[p], brokeAt[p], now)
              /\ Sound(own[p], IF reset THEN now ELSE cursor[p], seen[p])
  <2>1. Sound(ledger[p], cursor[p], seen[p]) /\ Served(ledger[p], ledger[p], brokeAt[p], now)
    BY <1>1, <1>10 DEF Row, RowSound, Served
  <2>2. Sound(ledger[p], now, seen[p])
    <3>1. ledger[p] \in SUBSET Entries
      BY <1>4
    <3> QED BY <1>4, <1>6, <2>1, <3>1, SoundGrows
  <2>3. Sound(BrokenCycle(p), now, seen[p]) /\ Served(BrokenCycle(p), ledger[p], brokeAt[p], now)
    BY <1>1, <1>4, <1>6, <1>10, BrokenSound DEF Row
  <2>4. Sound(Expired(ledger[p]), now, seen[p]) /\ Served(Expired(ledger[p]), ledger[p], brokeAt[p], now)
    BY <1>4, <2>1, <2>2, ExpiredSound DEF RowTypes
  <2> QED BY <1>8, <2>1, <2>3, <2>4
<1> HIDE DEF own
<1>11. ClockTypes' /\ TaskTypes' /\ MaintInv'
  BY <1>1, <1>2 DEF Types, ClockTypes, TaskTypes, MaintInv
<1>12. HealthTypes'
  BY <1>1, <1>2, <1>5 DEF Types, HealthTypes
<1>13. HistTypes'
  BY <1>1, <1>2, <1>4 DEF Types, HistTypes
<1>14. /\ EgressTypes' /\ ledger' \in [Proxies -> SUBSET Entries]
       /\ exit'[p] \in IPs \/ exit'[p] = exit[p]
       /\ \A q \in Proxies \ {p} : exit'[q] = exit[q]
       /\ \A q \in Proxies : ledger'[q] \in {own[q], Expired(own[q])}
       /\ \A q \in Proxies : dup'[q] # 0 /\ dup[q] = 0 => ledger'[q] = Expired(own[q])
  <2>1. status'[p] \notin {"absent", "archived"}
    BY <1>1, <1>2
  <2>2. own \in [Proxies -> SUBSET Entries]
    BY <1>8
  <2>3. CASE x # None
    <3>1. x \in IPs /\ Attest(p, x) /\ Reconcile(p, x, bv, own)
      BY <1>3, <2>3
    <3> QED BY <1>1, <2>1, <2>2, <3>1, Regrouping
  <2>4. CASE x = None
    BY <1>1, <1>3, <2>2, <2>4 DEF egressVars, Types, EgressTypes
  <2> QED BY <2>3, <2>4
<1>15. EarnTypes'
  <2>1. cursor' \in [Proxies -> 0 .. MaxTime] /\ probation' \in [Proxies -> 0 .. MaxTime]
    BY <1>1, <1>2, <1>4 DEF Types, EarnTypes
  <2> QED BY <1>14, <2>1 DEF EarnTypes
<1>16. Types'
  BY <1>11, <1>12, <1>13, <1>14, <1>15 DEF Types
<1>17. ASSUME NEW q \in Proxies, q # p PROVE RowStep(q) /\ (Clean(q) => Clean(q)')
  <2>1. /\ status'[q] = status[q] /\ eligibility'[q] = eligibility[q]
        /\ lastSuccess'[q] = lastSuccess[q] /\ failures'[q] = failures[q]
    BY <1>1, <1>2, <1>17 DEF Types, HealthTypes
  <2>2. exit'[q] = exit[q] /\ cursor'[q] = cursor[q] /\ probation'[q] = probation[q]
    BY <1>1, <1>2, <1>14, <1>17 DEF Types, EarnTypes
  <2>3. seen'[q] = seen[q] /\ brokeAt'[q] = brokeAt[q] /\ (q \in rewound <=> q \in rewound') /\ now <= now'
    BY <1>1, <1>2, <1>4, <1>17, Nats DEF Types, HistTypes
  <2>4. own[q] = ledger[q] /\ ledger'[q] \in {ledger[q], Expired(ledger[q])} /\ ledger[q] \in SUBSET Entries
    BY <1>4, <1>8, <1>14, <1>17
  <2>5. RowStep(q)
    BY <1>16, <2>1, <2>2, <2>3, <2>4, OtherRow
  <2>6. dup'[q] # 0 /\ dup[q] = 0 => ledger'[q] = Expired(ledger[q])
    BY <1>14, <2>4
  <2> QED BY <1>1, <2>4, <2>5, <2>6, CleanKept
<1>18. /\ status'[p] = "online" /\ lastSuccess'[p] = lastSuccess[p] /\ now' = now
       /\ eligibility'[p] = new /\ failures'[p] = failures[p]
       /\ cursor'[p] = (IF reset THEN now ELSE cursor[p])
       /\ probation'[p] = (IF reset THEN now ELSE probation[p])
       /\ seen'[p] = seen[p] /\ brokeAt'[p] = (IF reset THEN now ELSE brokeAt[p])
       /\ (p \in rewound') <=> (p \in rewound)
  <2> HIDE DEF reset
  <2> QED BY <1>1, <1>2 DEF Types, HealthTypes, EarnTypes, HistTypes
<1>19. /\ \A c, sn : Sound(own[p], c, sn) => Sound(ledger'[p], c, sn)
       /\ \A old, b, t : Served(own[p], old, b, t) => Served(ledger'[p], old, b, t)
       /\ ~ NoPending(ledger'[p]) => ledger'[p] = own[p]
  <2>1. own[p] \in SUBSET Entries /\ ledger'[p] \in {own[p], Expired(own[p])}
    BY <1>8, <1>14
  <2> QED BY <2>1, MaybeExpired
<1>20. HealthRow(p)' /\ SuccessSeen(p)'
  BY <1>1, <1>4, <1>6, <1>18, Nats DEF Row, HealthRow, SuccessSeen
<1>21. EarnsIfPending(p)'
  <2> SUFFICES ASSUME ~ NoPending(ledger'[p]) PROVE eligibility'[p] \in Earning /\ exit'[p] # None
    BY <1>18 DEF EarnsIfPending
  <2>1. ~ reset /\ ~ NoPending(ledger[p])
    BY <1>8, <1>9, <1>19
  <2>2. eligibility[p] \in Earning /\ exit[p] # None /\ eligibility'[p] = eligibility[p]
    BY <1>1, <1>18, <2>1 DEF Row, EarnsIfPending
  <2> QED BY <1>14, <2>2, LedgerAssumption
<1>22. ASSUME p \notin rewound PROVE RowSound(p)' /\ CursorSeen(p)' /\ Unbroken(p)'
  <2>1. RowSound(p)'
    BY <1>10, <1>18, <1>19, <1>22 DEF RowSound
  <2>2. CursorSeen(p)'
    <3> SUFFICES ASSUME new \in Earning, NEW t \in 0 .. MaxTime, cursor'[p] <= t, t < lastSuccess[p] + STALE
                 PROVE  t \in seen[p]
      BY <1>18 DEF CursorSeen
    <3>1. CASE reset
      <4>1. lastSuccess[p] <= t
        BY <1>4, <1>6, <1>18, <3>1
      <4> QED BY <1>1, <1>6, <4>1 DEF Row, SuccessSeen
    <3>2. CASE ~ reset
      BY <1>1, <1>2, <1>18, <1>22, <3>2 DEF Row, CursorSeen
    <3> QED BY <3>1, <3>2
  <2>3. Unbroken(p)'
    BY <1>1, <1>4, <1>18, <1>22, Nats DEF Row, Unbroken
  <2> QED BY <2>1, <2>2, <2>3
<1>23. RowStep(p)
  <2>1. p \notin rewound => Served(ledger'[p], ledger[p], brokeAt[p], now)
    BY <1>10, <1>19
  <2> HIDE DEF reset
  <2> QED BY <1>18, <1>20, <1>21, <1>22, <2>1 DEF RowStep, Row
<1>24. Clean(p) => Clean(p)'
  <2>1. NoPending(ledger[p]) => NoPending(own[p])
    BY <1>8, <1>9
  <2>2. /\ own[p] \in SUBSET Entries /\ ledger'[p] \in {own[p], Expired(own[p])}
        /\ dup'[p] # 0 /\ dup[p] = 0 => ledger'[p] = Expired(own[p])
    BY <1>8, <1>14
  <2> QED BY <1>1, <2>1, <2>2, CleanKept
<1> QED BY <1>11, <1>16, <1>17, <1>23, <1>24 DEF Kept, RowsKept

\* A step that leaves the rows alone.
LEMMA QuietStep ==
    ASSUME LedgerInv, Types', MaintInv', now <= now',
           UNCHANGED <<status, eligibility, lastSuccess, failures, exit, dup, cursor, probation, ledger,
                       seen, brokeAt, rewound>>
    PROVE  Kept
<1>1. ASSUME NEW q \in Proxies PROVE RowStep(q)
  BY OtherRow
<1>2. ASSUME NEW q \in Proxies PROVE Clean(q) => Clean(q)'
  BY DEF Clean
<1> QED BY <1>1, <1>2 DEF Kept, RowsKept

\* A new row.
LEMMA AddStep ==
    ASSUME LedgerInv, NEW p \in Proxies, AddProxy(p)
    PROVE  Kept
<1>1. Types /\ Row(p) /\ MaintInv
  BY DEF LedgerInv
<1>2. /\ status[p] = "absent"
      /\ status' = [status EXCEPT ![p] = "pending"]
      /\ cursor' = [cursor EXCEPT ![p] = now]
      /\ probation' = [probation EXCEPT ![p] = now]
      /\ brokeAt' = [brokeAt EXCEPT ![p] = now]
      /\ UNCHANGED <<now, userState, eligibility, failures, lastSuccess, offlineSince, deadSince,
                     exit, verified, dup, ledger, edit, maint, seen, dupAt, rewound>>
  BY DEF AddProxy, Set, egressVars, taskVars
<1>3. RowTypes(p) /\ now \in 0 .. MaxTime
  BY <1>1, RowTyped
<1>4. ClockTypes' /\ TaskTypes' /\ EgressTypes' /\ MaintInv'
  BY <1>1, <1>2 DEF Types, ClockTypes, TaskTypes, EgressTypes, MaintInv
<1>5. HealthTypes'
  BY <1>1, <1>2 DEF Types, HealthTypes, Statuses
<1>6. EarnTypes' /\ HistTypes'
  BY <1>1, <1>2, <1>3 DEF Types, EarnTypes, HistTypes
<1>7. Types'
  BY <1>4, <1>5, <1>6 DEF Types
<1>8. ASSUME NEW q \in Proxies, q # p PROVE RowStep(q)
  <2>1. /\ status'[q] = status[q] /\ cursor'[q] = cursor[q] /\ probation'[q] = probation[q]
        /\ brokeAt'[q] = brokeAt[q]
    BY <1>1, <1>2, <1>8 DEF Types, HealthTypes, EarnTypes, HistTypes
  <2>2. now <= now' /\ (q \in rewound <=> q \in rewound')
    BY <1>2, <1>3, Nats
  <2> QED BY <1>2, <1>7, <2>1, <2>2, OtherRow
<1>9. RowStep(p)
  <2>1. /\ status'[p] = "pending" /\ cursor'[p] = now /\ probation'[p] = now /\ brokeAt'[p] = now
        /\ lastSuccess'[p] = Never /\ eligibility'[p] = "pending" /\ now' = now /\ ledger'[p] = ledger[p]
        /\ NoPending(ledger[p]) /\ seen'[p] = seen[p] /\ cursor[p] <= now
    BY <1>1, <1>2 DEF Types, HealthTypes, EarnTypes, HistTypes, Row, HealthRow, EarnsIfPending
  <2>2. HealthRow(p)' /\ SuccessSeen(p)' /\ EarnsIfPending(p)'
    BY <1>3, <2>1, Nats DEF HealthRow, SuccessSeen, EarnsIfPending, Never
  <2>3. p \notin rewound => RowSound(p)'
    BY <1>1, <1>3, <2>1, SoundGrows DEF RowTypes, Row, RowSound
  <2>4. CursorSeen(p)' /\ Unbroken(p)'
    BY <2>1 DEF CursorSeen, Unbroken, Earning
  <2>5. Served(ledger'[p], ledger[p], brokeAt[p], now)
    BY <2>1 DEF Served
  <2> QED BY <1>2, <2>2, <2>3, <2>4, <2>5 DEF RowStep, Row
<1>10. \A q \in Proxies : Clean(q) => Clean(q)'
  BY <1>2 DEF Clean
<1> QED BY <1>4, <1>7, <1>8, <1>9, <1>10 DEF Kept, RowsKept

\* The reads of archive_proxy and replace_proxy, and a request that ends.
LEMMA EditReadStep ==
    ASSUME LedgerInv, NEW p \in Proxies,
           (\E kind \in EditKinds : EditRead(p, kind)) \/ EditAbort(p)
    PROVE  Kept
<1>1. Types /\ MaintInv
  BY DEF LedgerInv
<1>2. /\ UNCHANGED <<now, userState, status, eligibility, failures, lastSuccess, offlineSince, deadSince,
                     exit, verified, dup, cursor, probation, ledger, maint, seen, dupAt, brokeAt, rewound>>
      /\ \E e \in Edits : edit' = [edit EXCEPT ![p] = e]
  <2>1. ASSUME NEW kind \in EditKinds, EditRead(p, kind)
        PROVE  \E e \in Edits : edit' = [edit EXCEPT ![p] = e]
    <3> DEFINE rows == IF exit[p] = None THEN {} ELSE Group(exit[p], p, status, exit)
               bv == FALSE
               c == IF rows = {} THEN 0 ELSE Canonical(rows, status, offlineSince, verified, bv)
    <3>1. edit' = [edit EXCEPT ![p] = [kind |-> kind, exit |-> exit[p], rows |-> rows, canonical |-> c]]
      BY <2>1 DEF EditRead
    <3>2. rows \in SUBSET Proxies
      BY DEF Group
    <3> HIDE DEF rows, bv
    <3>3. c \in 0 .. MaxProxies
      <4>1. verified \in [Proxies -> Times]
        BY <1>1 DEF Types, EgressTypes
      <4>2. rows # {} => c \in Proxies
        BY <3>2, <4>1, CanonicalIn
      <4> QED BY <4>2, Nats DEF Proxies
    <3>4. kind \in {"none", "archive", "replace"} /\ exit[p] \in IPs \cup {None}
      BY <1>1, LedgerAssumption DEF Types, EgressTypes
    <3> HIDE DEF c
    <3> QED BY <3>1, <3>2, <3>3, <3>4 DEF Edits
  <2>2. NoEdit \in Edits
    BY Nats DEF NoEdit, Edits
  <2>3. ASSUME EditAbort(p) PROVE \E e \in Edits : edit' = [edit EXCEPT ![p] = e]
    BY <2>2, <2>3 DEF EditAbort, Set
  <2> QED BY <2>1, <2>3 DEF EditRead, EditAbort, healthVars, egressVars, earnVars, histVars
<1>3. TaskTypes'
  BY <1>1, <1>2 DEF Types, TaskTypes
<1>4. ClockTypes' /\ HealthTypes' /\ EgressTypes' /\ EarnTypes' /\ HistTypes' /\ MaintInv'
  BY <1>1, <1>2 DEF Types, ClockTypes, HealthTypes, EgressTypes, EarnTypes, HistTypes, MaintInv
<1>5. now <= now'
  BY <1>1, <1>2, Nats DEF Types, ClockTypes
<1>6. Types' /\ MaintInv'
  BY <1>3, <1>4 DEF Types
<1> QED BY <1>2, <1>5, <1>6, QuietStep

\* The regrouping of an edit, and the cycles it closes.
LEMMA EditWrites ==
    ASSUME Types, NEW p \in Proxies
    PROVE  /\ EditRegroup(p) \in [Proxies -> 0 .. MaxProxies]
           /\ EditExpire(p) \in [Proxies -> SUBSET Entries]
           /\ EditExpire(p)[p] = Expired(ledger[p])
           /\ \A q \in Proxies : EditExpire(p)[q] \in {ledger[q], Expired(ledger[q])}
<1>1. /\ dup \in [Proxies -> 0 .. MaxProxies] /\ edit[p].canonical \in 0 .. MaxProxies
      /\ ledger \in [Proxies -> SUBSET Entries]
  BY DEF Types, EgressTypes, EarnTypes, TaskTypes, Edits
<1>2. EditRegroup(p) \in [Proxies -> 0 .. MaxProxies]
  BY <1>1, RegroupedType DEF EditRegroup
<1>3. \A q \in Proxies : Expired(ledger[q]) \in SUBSET Entries
  BY <1>1, ExpiredEntry
<1>4. /\ EditExpire(p) \in [Proxies -> SUBSET Entries]
      /\ EditExpire(p)[p] = Expired(ledger[p])
      /\ \A q \in Proxies : EditExpire(p)[q] \in {ledger[q], Expired(ledger[q])}
  BY <1>1, <1>3 DEF EditExpire
<1> QED BY <1>2, <1>4

\* The write of archive_proxy.
LEMMA ArchiveStep ==
    ASSUME LedgerInv, NEW p \in Proxies, ArchiveProxy(p)
    PROVE  RowsKept
<1>1. Types /\ Row(p) /\ MaintInv
  BY DEF LedgerInv
<1>2. /\ edit' = [edit EXCEPT ![p] = NoEdit]
      /\ UNCHANGED <<now, userState, eligibility, failures, lastSuccess, offlineSince, deadSince,
                     exit, verified, cursor, probation, maint, seen, dupAt, brokeAt, rewound>>
  BY DEF ArchiveProxy, Set, histVars
<1>3. now \in 0 .. MaxTime /\ now <= now'
  BY <1>1, <1>2, Nats DEF Types, ClockTypes
<1>4. TaskTypes'
  <2>1. NoEdit \in Edits
    BY Nats DEF NoEdit, Edits
  <2> QED BY <1>1, <1>2, <2>1 DEF Types, TaskTypes
<1>5. ClockTypes' /\ HistTypes' /\ MaintInv'
  BY <1>1, <1>2 DEF Types, ClockTypes, HistTypes, MaintInv
<1>6. CASE ~ Active(p)
  <2>1. UNCHANGED <<status, dup, ledger>>
    BY <1>6 DEF ArchiveProxy
  <2>2. HealthTypes' /\ EgressTypes' /\ EarnTypes'
    BY <1>1, <1>2, <2>1 DEF Types, HealthTypes, EgressTypes, EarnTypes
  <2>3. Types'
    BY <1>4, <1>5, <2>2 DEF Types
  <2>4. Kept
    BY <1>2, <1>3, <1>5, <2>1, <2>3, QuietStep
  <2> QED BY <2>4 DEF Kept
<1>7. CASE Active(p)
  <2>1. status' = [status EXCEPT ![p] = "archived"] /\ dup' = EditRegroup(p) /\ ledger' = EditExpire(p)
    BY <1>7 DEF ArchiveProxy, Set
  <2>2. /\ dup' \in [Proxies -> 0 .. MaxProxies] /\ ledger' \in [Proxies -> SUBSET Entries]
        /\ ledger'[p] = Expired(ledger[p])
        /\ \A q \in Proxies : ledger'[q] \in {ledger[q], Expired(ledger[q])}
    BY <1>1, <2>1, EditWrites
  <2>3. HealthTypes' /\ EgressTypes' /\ EarnTypes'
    BY <1>1, <1>2, <2>1, <2>2 DEF Types, HealthTypes, EgressTypes, EarnTypes, Statuses
  <2>4. Types'
    BY <1>4, <1>5, <2>3 DEF Types
  <2>5. ASSUME NEW q \in Proxies, q # p PROVE RowStep(q)
    <3>1. status'[q] = status[q]
      BY <1>1, <2>1, <2>5 DEF Types, HealthTypes
    <3> QED BY <1>2, <1>3, <2>2, <2>4, <3>1, OtherRow
  <2>6. RowStep(p)
    <3>1. status'[p] = "archived"
      BY <1>1, <2>1 DEF Types, HealthTypes
    <3>2. ledger[p] \in SUBSET Entries
      BY <1>1 DEF Types, EarnTypes
    <3>3. NoPending(ledger'[p]) /\ Served(ledger[p], ledger[p], brokeAt[p], now)
      BY <2>2, <3>2, ExpiredEntry DEF Served
    <3>4. /\ Sound(ledger[p], cursor[p], seen[p]) => Sound(ledger'[p], cursor[p], seen[p])
          /\ Served(ledger'[p], ledger[p], brokeAt[p], now)
      BY <2>2, <3>2, <3>3, ExpiredSound
    <3>5. HealthRow(p)' /\ SuccessSeen(p)' /\ EarnsIfPending(p)'
      BY <1>1, <1>2, <3>1, <3>3 DEF Row, HealthRow, SuccessSeen, EarnsIfPending
    <3>6. p \notin rewound => RowSound(p)' /\ CursorSeen(p)' /\ Unbroken(p)'
      BY <1>1, <1>2, <3>1, <3>4 DEF Row, RowSound, CursorSeen, Unbroken
    <3> QED BY <1>2, <3>4, <3>5, <3>6 DEF RowStep, Row
  <2> QED BY <1>5, <2>4, <2>5, <2>6 DEF RowsKept
<1> QED BY <1>6, <1>7

\* The write of replace_proxy: the old credential's time is behind the cursor.
LEMMA ReplaceStep ==
    ASSUME LedgerInv, NEW p \in Proxies, ReplaceProxy(p)
    PROVE  RowsKept
<1>1. Types /\ Row(p) /\ MaintInv
  BY DEF LedgerInv
<1>2. /\ edit' = [edit EXCEPT ![p] = NoEdit]
      /\ status' = [status EXCEPT ![p] = "pending"]
      /\ eligibility' = [eligibility EXCEPT ![p] = "pending"]
      /\ failures' = [failures EXCEPT ![p] = 0]
      /\ lastSuccess' = [lastSuccess EXCEPT ![p] = Never]
      /\ offlineSince' = [offlineSince EXCEPT ![p] = Never]
      /\ deadSince' = [deadSince EXCEPT ![p] = Never]
      /\ UNCHANGED <<now, userState, maint, dupAt, rewound>>
  BY DEF ReplaceProxy, Set
<1>3. /\ exit' = [exit EXCEPT ![p] = None]
      /\ verified' = [verified EXCEPT ![p] = Never]
      /\ dup' = [EditRegroup(p) EXCEPT ![p] = 0]
      /\ cursor' = [cursor EXCEPT ![p] = now]
      /\ probation' = [probation EXCEPT ![p] = now]
      /\ ledger' = EditExpire(p)
      /\ seen' = [seen EXCEPT ![p] = {t \in @ : t < now}]
      /\ brokeAt' = [brokeAt EXCEPT ![p] = now]
  BY DEF ReplaceProxy, Set
<1>4. /\ RowTypes(p) /\ now \in 0 .. MaxTime /\ now <= now' /\ Never \in Times
      /\ seen[p] \in SUBSET (0 .. MaxTime)
  BY <1>1, <1>2, RowTyped, Nats DEF Times, Never
<1>5. /\ EditRegroup(p) \in [Proxies -> 0 .. MaxProxies] /\ ledger' \in [Proxies -> SUBSET Entries]
      /\ ledger'[p] = Expired(ledger[p])
      /\ \A q \in Proxies : ledger'[q] \in {ledger[q], Expired(ledger[q])}
  BY <1>1, <1>3, EditWrites
<1>6. ClockTypes' /\ TaskTypes' /\ MaintInv'
  <2>1. NoEdit \in Edits
    BY Nats DEF NoEdit, Edits
  <2> QED BY <1>1, <1>2, <2>1 DEF Types, ClockTypes, TaskTypes, MaintInv
<1>7. HealthTypes'
  <2>1. status' \in [Proxies -> Statuses] /\ eligibility' \in [Proxies -> {"pending", "allow", "risk"}]
    BY <1>1, <1>2 DEF Types, HealthTypes, Statuses
  <2>2. failures' \in [Proxies -> 0 .. OfflineAfter]
    BY <1>1, <1>2 DEF Types, HealthTypes, OfflineAfter
  <2>3. /\ lastSuccess' \in [Proxies -> Times] /\ offlineSince' \in [Proxies -> Times]
        /\ deadSince' \in [Proxies -> Times]
    BY <1>1, <1>2, <1>4 DEF Types, HealthTypes
  <2> QED BY <2>1, <2>2, <2>3 DEF HealthTypes
<1>8. EgressTypes'
  BY <1>1, <1>3, <1>4, <1>5, Nats DEF Types, EgressTypes
<1>9. EarnTypes' /\ HistTypes'
  <2>1. cursor' \in [Proxies -> 0 .. MaxTime] /\ probation' \in [Proxies -> 0 .. MaxTime]
    BY <1>1, <1>3, <1>4 DEF Types, EarnTypes
  <2>2. {t \in seen[p] : t < now} \in SUBSET (0 .. MaxTime)
    BY <1>4
  <2>3. seen' \in [Proxies -> SUBSET (0 .. MaxTime)] /\ brokeAt' \in [Proxies -> 0 .. MaxTime]
    BY <1>1, <1>3, <1>4, <2>2 DEF Types, HistTypes
  <2> QED BY <1>1, <1>2, <1>5, <2>1, <2>3 DEF Types, EarnTypes, HistTypes
<1>10. Types'
  BY <1>6, <1>7, <1>8, <1>9 DEF Types
<1>11. ASSUME NEW q \in Proxies, q # p PROVE RowStep(q)
  <2>1. /\ status'[q] = status[q] /\ eligibility'[q] = eligibility[q]
        /\ lastSuccess'[q] = lastSuccess[q] /\ failures'[q] = failures[q]
    BY <1>1, <1>2, <1>11 DEF Types, HealthTypes
  <2>2. exit'[q] = exit[q] /\ cursor'[q] = cursor[q] /\ probation'[q] = probation[q]
    BY <1>1, <1>3, <1>11 DEF Types, EarnTypes, EgressTypes
  <2>3. seen'[q] = seen[q] /\ brokeAt'[q] = brokeAt[q] /\ (q \in rewound <=> q \in rewound')
    BY <1>1, <1>2, <1>3, <1>11 DEF Types, HistTypes
  <2> QED BY <1>4, <1>5, <1>10, <2>1, <2>2, <2>3, OtherRow
<1>12. RowStep(p)
  <2>1. /\ status'[p] = "pending" /\ eligibility'[p] = "pending" /\ lastSuccess'[p] = Never /\ now' = now
        /\ (p \in rewound <=> p \in rewound')
    BY <1>1, <1>2 DEF Types, HealthTypes
  <2>2. cursor'[p] = now /\ seen'[p] = {t \in seen[p] : t < now}
    BY <1>1, <1>3 DEF Types, EarnTypes, HistTypes
  <2>3. ledger[p] \in SUBSET Entries /\ cursor[p] \in 0 .. MaxTime /\ cursor[p] <= now
    BY <1>1, <1>4 DEF RowTypes, Row, HealthRow
  <2>4. NoPending(ledger'[p]) /\ Served(ledger[p], ledger[p], brokeAt[p], now)
    BY <1>5, <2>3, ExpiredEntry DEF Served
  <2>5. Served(ledger'[p], ledger[p], brokeAt[p], now)
    BY <1>5, <2>3, <2>4, ExpiredSound
  <2>6. HealthRow(p)' /\ SuccessSeen(p)' /\ EarnsIfPending(p)' /\ CursorSeen(p)' /\ Unbroken(p)'
    BY <1>4, <2>1, <2>2, <2>4, Nats
       DEF HealthRow, SuccessSeen, EarnsIfPending, CursorSeen, Unbroken, Earning, Never
  <2>7. ASSUME p \notin rewound PROVE RowSound(p)'
    <3>1. Sound(ledger[p], cursor[p], seen[p])
      BY <1>1, <2>7 DEF Row, RowSound
    <3>2. ASSUME NEW e \in ledger[p] PROVE e.to <= now /\ Ticks(e) \subseteq {t \in seen[p] : t < now}
      <4>1. e.from \in 0 .. MaxTime /\ e.to \in 0 .. MaxTime /\ e.to <= cursor[p] /\ Ticks(e) \subseteq seen[p]
        BY <2>3, <3>1 DEF Sound, Entries
      <4>2. \A t \in Ticks(e) : t \in Int /\ t < e.to
        BY <4>1 DEF Ticks
      <4> QED BY <1>4, <2>3, <4>1, <4>2
    <3>3. Sound(ledger[p], now, seen'[p])
      BY <2>2, <3>1, <3>2 DEF Sound
    <3> QED BY <1>5, <2>2, <2>3, <3>3, ExpiredSound DEF RowSound
  <2> QED BY <2>1, <2>5, <2>6, <2>7 DEF RowStep, Row
<1> QED BY <1>6, <1>10, <1>11, <1>12 DEF RowsKept

\* The steps of the maintenance cycle that write nothing, accounts and time.
LEMMA IdleStep ==
    ASSUME LedgerInv,
           \/ MaintStart \/ MaintSelect \/ (\E p \in Proxies : PromoteRead(p)) \/ MaintCrash \/ Tick
           \/ \E u \in Users, s \in UserStates : ChangeUser(u, s)
           \/ UNCHANGED vars
    PROVE  Kept
<1>1. Types /\ MaintInv /\ maint \in Cycles /\ now \in 0 .. MaxTime
  BY DEF LedgerInv, Types, TaskTypes, ClockTypes
<1>2. UNCHANGED <<status, eligibility, failures, lastSuccess, offlineSince, deadSince, exit, verified, dup,
                  cursor, probation, ledger, edit, seen, brokeAt, rewound>>
  BY DEF MaintStart, MaintSelect, PromoteRead, MaintCrash, Tick, ChangeUser, vars,
         healthVars, egressVars, earnVars, taskVars, histVars
<1>3. HealthTypes' /\ EgressTypes' /\ EarnTypes'
  BY <1>1, <1>2 DEF Types, HealthTypes, EgressTypes, EarnTypes
<1>4. /\ maint' \in Cycles
      /\ maint'.at \in {maint.at, now, 0}
      /\ maint'.pc = "write" => maint'.old \in Proxies /\ maint'.new \in Proxies
  <2>1. NoMaint \in Cycles /\ NoMaint.at = 0 /\ NoMaint.pc = "idle"
    BY Nats DEF NoMaint, Cycles
  <2>2. CASE MaintStart
    <3>1. maint' = [NoMaint EXCEPT !.pc = "accrue", !.at = now]
      BY <2>2 DEF MaintStart
    <3>2. maint' = [pc |-> "accrue", at |-> now, todo |-> {}, old |-> 0, new |-> 0]
      BY <3>1 DEF NoMaint
    <3>3. 0 \in 0 .. MaxProxies
      BY Nats
    <3> QED BY <1>1, <3>2, <3>3 DEF Cycles
  <2>3. CASE MaintSelect
    <3>1. maint' = [maint EXCEPT !.pc = "promote", !.todo = DeadRows]
      BY <2>3 DEF MaintSelect
    <3>2. DeadRows \in SUBSET Proxies
      BY DEF DeadRows
    <3> HIDE DEF DeadRows
    <3> QED BY <1>1, <3>1, <3>2 DEF Cycles
  <2>4. ASSUME NEW p \in Proxies, PromoteRead(p)
        PROVE  /\ maint' \in Cycles /\ maint'.at = maint.at
               /\ maint'.pc = "write" => maint'.old \in Proxies /\ maint'.new \in Proxies
    <3> DEFINE heirs == IF /\ status[p] \in {"offline", "archived"}
                           /\ offlineSince[p] # Never
                           /\ status[p] = "offline" => maint.at - offlineSince[p] >= DEAD
                        THEN {q \in Proxies : dup[q] = p /\ status[q] = "online"} ELSE {}
               h == CHOOSE q \in heirs : \A r \in heirs : q <= r
    <3>1. /\ maint.pc = "promote"
          /\ maint' = IF heirs = {} THEN [maint EXCEPT !.todo = @ \ {p}]
                      ELSE [maint EXCEPT !.pc = "write", !.todo = @ \ {p}, !.old = p, !.new = h]
      BY <2>4 DEF PromoteRead
    <3>2. heirs \in SUBSET Proxies
      OBVIOUS
    <3> HIDE DEF heirs
    <3>3. heirs # {} => h \in Proxies
      <4>1. heirs \in SUBSET Nat
        BY <3>2, Nats DEF Proxies
      <4>2. heirs # {} => \E q \in heirs : \A r \in heirs : q <= r
        BY <4>1, LeastNatural
      <4> QED BY <3>2, <4>2
    <3> HIDE DEF h
    <3>4. \A n \in Proxies : n \in 0 .. MaxProxies
      BY Nats DEF Proxies
    <3>5. CASE heirs = {}
      BY <1>1, <3>1, <3>5 DEF Cycles
    <3>6. CASE heirs # {}
      BY <1>1, <3>1, <3>3, <3>4, <3>6 DEF Cycles
    <3> QED BY <3>5, <3>6
  <2>5. CASE MaintCrash
    BY <2>1, <2>5 DEF MaintCrash
  <2>6. CASE UNCHANGED maint
    BY <1>1, <2>6 DEF MaintInv
  <2>7. Tick \/ (\E u \in Users, s \in UserStates : ChangeUser(u, s)) \/ UNCHANGED vars => UNCHANGED maint
    BY DEF Tick, ChangeUser, vars, taskVars
  <2> QED BY <2>2, <2>3, <2>4, <2>5, <2>6, <2>7
<1>5. /\ now' \in 0 .. MaxTime /\ now <= now' /\ dupAt' \in [Proxies -> SUBSET (0 .. MaxTime)]
      /\ userState' \in [Users -> {"active", "paused", "blocked"}]
  <2>1. CASE Tick
    <3>1. /\ now < MaxTime /\ now' = now + 1 /\ userState' = userState
          /\ dupAt' = [p \in Proxies |-> IF dup[p] # 0 THEN dupAt[p] \cup {now} ELSE dupAt[p]]
      BY <2>1 DEF Tick
    <3>2. now' \in 0 .. MaxTime /\ now <= now'
      BY <1>1, <3>1, Nats
    <3>3. \A p \in Proxies : dupAt[p] \in SUBSET (0 .. MaxTime)
      BY <1>1 DEF Types, HistTypes
    <3>4. dupAt' \in [Proxies -> SUBSET (0 .. MaxTime)]
      BY <1>1, <3>1, <3>3
    <3> QED BY <1>1, <3>1, <3>2, <3>4 DEF Types, ClockTypes
  <2>2. ASSUME NEW u \in Users, NEW s \in UserStates, ChangeUser(u, s)
        PROVE  UNCHANGED <<now, dupAt>> /\ userState' \in [Users -> {"active", "paused", "blocked"}]
    <3>1. userState' = [userState EXCEPT ![u] = s] /\ s \in {"active", "paused", "blocked"}
      BY <2>2, LedgerAssumption DEF ChangeUser
    <3> QED BY <1>1, <2>2, <3>1 DEF Types, ClockTypes, ChangeUser, histVars
  <2>3. CASE UNCHANGED <<now, dupAt, userState>>
    BY <1>1, <2>3, Nats DEF Types, ClockTypes, HistTypes
  <2>4. MaintStart \/ MaintSelect \/ (\E p \in Proxies : PromoteRead(p)) \/ MaintCrash \/ UNCHANGED vars
        => UNCHANGED <<now, dupAt, userState>>
    BY DEF MaintStart, MaintSelect, PromoteRead, MaintCrash, vars, histVars
  <2>5. UNCHANGED <<now, dupAt>> => now' \in 0 .. MaxTime /\ now <= now' /\ dupAt' \in [Proxies -> SUBSET (0 .. MaxTime)]
    BY <1>1, Nats DEF Types, HistTypes
  <2> QED BY <2>1, <2>2, <2>3, <2>4, <2>5
<1>6. HistTypes' /\ TaskTypes' /\ ClockTypes'
  BY <1>1, <1>2, <1>4, <1>5 DEF Types, HistTypes, TaskTypes, ClockTypes
<1>7. MaintInv'
  <2>1. maint.at \in Int /\ maint.at <= now /\ now \in Int /\ now' \in Int /\ 0 <= now
    BY <1>1, Nats, <1>5 DEF Cycles, MaintInv
  <2> QED BY <1>4, <1>5, <2>1 DEF MaintInv
<1>8. Types'
  BY <1>3, <1>6 DEF Types
<1> QED BY <1>2, <1>5, <1>7, <1>8, QuietStep

\* The periodic accrual, with a time that may be old.
LEMMA MaintAccrueStep ==
    ASSUME LedgerInv, MaintAccrue
    PROVE  Kept
<1> DEFINE at == maint.at
           A(q) == Accrues(q, at, {"online"})
           end(q) == AccrualEnd(q, at)
<1>1. Types /\ MaintInv /\ maint \in Cycles /\ now \in 0 .. MaxTime
  BY DEF LedgerInv, Types, TaskTypes, ClockTypes
<1>2. /\ ledger' = [p \in Proxies |-> AccrueRow(p, at, {"online"})]
      /\ cursor' = [p \in Proxies |-> IF A(p) THEN end(p) ELSE cursor[p]]
      /\ maint' = [maint EXCEPT !.pc = "select"]
      /\ UNCHANGED <<now, userState, status, eligibility, failures, lastSuccess, offlineSince, deadSince,
                     exit, verified, dup, probation, edit, seen, dupAt, brokeAt, rewound>>
  BY DEF MaintAccrue, healthVars, egressVars, histVars
<1>3. at \in 0 .. MaxTime /\ at <= now
  BY <1>1 DEF Cycles, MaintInv
<1>4. maint' \in Cycles /\ maint'.at = maint.at /\ maint'.pc = "select"
  BY <1>1, <1>2 DEF Cycles
<1> HIDE DEF at
<1>5. ASSUME NEW q \in Proxies
      PROVE  /\ AccrueRow(q, at, {"online"}) \in SUBSET Entries
             /\ A(q) => end(q) \in 0 .. MaxTime /\ end(q) <= at /\ cursor[q] < end(q)
  <2>1. RowTypes(q)
    BY <1>1, RowTyped
  <2> QED BY <1>3, <2>1, AccrueTypes
<1>6. ClockTypes' /\ HealthTypes' /\ EgressTypes' /\ TaskTypes' /\ HistTypes' /\ MaintInv'
  <2>1. ClockTypes' /\ HealthTypes' /\ EgressTypes' /\ HistTypes'
    BY <1>1, <1>2 DEF Types, ClockTypes, HealthTypes, EgressTypes, HistTypes
  <2>2. TaskTypes' /\ MaintInv'
    BY <1>1, <1>2, <1>4 DEF Types, TaskTypes, MaintInv
  <2> QED BY <2>1, <2>2
<1> HIDE DEF A, end
<1>7. EarnTypes'
  <2>1. \A q \in Proxies : cursor[q] \in 0 .. MaxTime
    BY <1>1 DEF Types, EarnTypes
  <2>2. cursor' \in [Proxies -> 0 .. MaxTime]
    BY <1>2, <1>5, <2>1
  <2>3. ledger' \in [Proxies -> SUBSET Entries]
    BY <1>2, <1>5
  <2> QED BY <1>1, <1>2, <2>2, <2>3 DEF Types, EarnTypes
<1>8. Types'
  BY <1>6, <1>7 DEF Types
<1>9. ASSUME NEW q \in Proxies PROVE RowStep(q) /\ (Clean(q) => Clean(q)')
  <2>1. Row(q) /\ RowTypes(q) /\ brokeAt[q] \in 0 .. MaxTime /\ cursor[q] \in 0 .. MaxTime /\ probation[q] \in 0 .. MaxTime
    BY <1>1, RowTyped DEF LedgerInv, RowTypes
  <2>2. CASE ~ A(q)
    <3>1. ledger'[q] = ledger[q] /\ cursor'[q] = cursor[q]
      BY <1>2, <2>2 DEF A, AccrueRow
    <3>2. now <= now'
      BY <1>1, <1>2, Nats
    <3>3. RowStep(q)
      BY <1>2, <1>8, <3>1, <3>2, OtherRow
    <3> QED BY <1>2, <3>1, <3>3 DEF Clean
  <2>3. CASE A(q)
    <3>1. ledger'[q] = AccruedEntries(q, at) /\ cursor'[q] = end(q)
      BY <1>2, <2>3 DEF A, AccrueRow
    <3>2. /\ status[q] = "online" /\ eligibility[q] \in Earning /\ dup[q] = 0 /\ exit[q] # None
      BY <2>3 DEF A, Accrues
    <3>3. end(q) \in 0 .. MaxTime /\ end(q) <= now /\ cursor[q] <= end(q)
      <4>1. end(q) \in 0 .. MaxTime /\ end(q) <= at /\ cursor[q] < end(q)
        BY <1>5, <2>3
      <4> QED BY <1>1, <1>3, <2>1, <4>1, Nats
    <3>4. ASSUME q \notin rewound
          PROVE  Sound(ledger'[q], end(q), seen[q]) /\ Served(ledger'[q], ledger[q], brokeAt[q], now)
      <4>1. RowSound(q) /\ CursorSeen(q) /\ Unbroken(q)
        BY <2>1, <3>4 DEF Row
      <4>2. {"online"} \in SUBSET {"online", "suspect"} /\ Accrues(q, at, {"online"})
        BY <2>3 DEF A
      <4> QED BY <1>1, <1>3, <2>1, <3>1, <4>1, <4>2, AccrueSound DEF end
    <3>5. HealthRow(q)' /\ SuccessSeen(q)' /\ EarnsIfPending(q)'
      BY <1>2, <2>1, <3>1, <3>2, <3>3 DEF Row, HealthRow, SuccessSeen, EarnsIfPending
    <3>6. ASSUME q \notin rewound PROVE RowSound(q)' /\ CursorSeen(q)' /\ Unbroken(q)'
      <4>1. RowSound(q)'
        BY <1>2, <3>1, <3>4, <3>6 DEF RowSound
      <4>2. CursorSeen(q)'
        BY <1>2, <2>1, <3>1, <3>3, <3>6 DEF Row, CursorSeen
      <4>3. Unbroken(q)'
        <5>1. brokeAt[q] <= probation[q] /\ brokeAt[q] <= cursor[q]
          BY <2>1, <3>2, <3>6 DEF Row, Unbroken
        <5>2. brokeAt[q] <= end(q)
          BY <2>1, <3>3, <5>1
        <5> QED BY <1>2, <3>1, <5>1, <5>2 DEF Unbroken
      <4> QED BY <4>1, <4>2, <4>3
    <3>7. Clean(q)'
      BY <1>2, <3>2 DEF Clean
    <3> QED BY <1>2, <3>4, <3>5, <3>6, <3>7 DEF RowStep, Row
  <2> QED BY <2>2, <2>3
<1> QED BY <1>6, <1>8, <1>9 DEF Kept, RowsKept

\* The write of promote_duplicate_if_due.
LEMMA PromoteStep ==
    ASSUME LedgerInv, PromoteWrite
    PROVE  Kept
<1>1. Types /\ MaintInv /\ maint \in Cycles /\ now \in 0 .. MaxTime
  BY DEF LedgerInv, Types, TaskTypes, ClockTypes
<1>2. PICK p \in Proxies, q \in Proxies, at \in 0 .. MaxTime :
        p = maint.old /\ q = maint.new /\ at = maint.at /\ at <= now
  BY <1>1 DEF Cycles, MaintInv, PromoteWrite
<1>3. /\ maint.pc = "write"
      /\ dup' = [r \in Proxies |-> IF r = q THEN 0 ELSE IF r = p \/ dup[r] = p THEN q ELSE dup[r]]
      /\ ledger' = [r \in Proxies |-> IF r \in {p, q} THEN Expired(ledger[r]) ELSE ledger[r]]
      /\ cursor' = [cursor EXCEPT ![q] = at]
      /\ probation' = [probation EXCEPT ![q] = at]
      /\ maint' = [maint EXCEPT !.pc = "promote", !.old = 0, !.new = 0]
      /\ rewound' = IF at < cursor[q] THEN rewound \cup {q} ELSE rewound
      /\ brokeAt' = [brokeAt EXCEPT ![q] = at]
      /\ UNCHANGED <<now, userState, status, eligibility, failures, lastSuccess, offlineSince, deadSince,
                     exit, verified, edit, seen, dupAt>>
  BY <1>2 DEF PromoteWrite, Set, healthVars
<1>4. maint' \in Cycles /\ maint'.at = maint.at /\ maint'.pc = "promote"
  <2>1. 0 \in 0 .. MaxProxies
    BY Nats
  <2> QED BY <1>1, <1>3, <2>1 DEF Cycles
<1>5. p # 0 /\ \A r \in Proxies : r \in 0 .. MaxProxies
  BY <1>2, Nats DEF Proxies
<1>6. /\ dup \in [Proxies -> 0 .. MaxProxies] /\ ledger \in [Proxies -> SUBSET Entries]
      /\ cursor \in [Proxies -> 0 .. MaxTime] /\ probation \in [Proxies -> 0 .. MaxTime]
  BY <1>1 DEF Types, EarnTypes, EgressTypes
<1>7. \A r \in Proxies : Expired(ledger[r]) \in SUBSET Entries /\ NoPending(Expired(ledger[r]))
  BY <1>6, ExpiredEntry
<1>8. ClockTypes' /\ HealthTypes' /\ TaskTypes' /\ MaintInv'
  <2>1. ClockTypes' /\ HealthTypes'
    BY <1>1, <1>3 DEF Types, ClockTypes, HealthTypes
  <2>2. TaskTypes' /\ MaintInv'
    BY <1>1, <1>3, <1>4 DEF Types, TaskTypes, MaintInv
  <2> QED BY <2>1, <2>2
<1>9. EgressTypes' /\ EarnTypes' /\ HistTypes'
  <2>1. dup' \in [Proxies -> 0 .. MaxProxies]
    BY <1>3, <1>2, <1>5, <1>6, Nats
  <2>2. ledger' \in [Proxies -> SUBSET Entries]
    BY <1>3, <1>6, <1>7
  <2>3. rewound' \in SUBSET Proxies
    BY <1>1, <1>3, <1>2 DEF Types, HistTypes
  <2>4. cursor' \in [Proxies -> 0 .. MaxTime] /\ probation' \in [Proxies -> 0 .. MaxTime]
    BY <1>3, <1>2, <1>6
  <2>5. brokeAt' \in [Proxies -> 0 .. MaxTime]
    BY <1>1, <1>3, <1>2 DEF Types, HistTypes
  <2> QED BY <1>1, <1>3, <2>1, <2>2, <2>3, <2>4, <2>5 DEF Types, EgressTypes, EarnTypes, HistTypes
<1>10. Types'
  BY <1>8, <1>9 DEF Types
<1>11. \A r \in Proxies : ledger'[r] \in {ledger[r], Expired(ledger[r])}
  BY <1>3
<1>12. ASSUME NEW r \in Proxies, r # q PROVE RowStep(r)
  <2>1. cursor'[r] = cursor[r] /\ probation'[r] = probation[r]
    BY <1>3, <1>6, <1>12
  <2>2. brokeAt'[r] = brokeAt[r]
    BY <1>1, <1>3, <1>12 DEF Types, HistTypes
  <2>3. now <= now' /\ (r \in rewound <=> r \in rewound')
    BY <1>1, <1>3, <1>12, Nats
  <2> QED BY <1>3, <1>10, <1>11, <2>1, <2>2, <2>3, OtherRow
<1>13. RowStep(q)
  <2>1. Row(q) /\ cursor[q] \in 0 .. MaxTime /\ ledger[q] \in SUBSET Entries /\ brokeAt[q] \in 0 .. MaxTime
    BY <1>1, <1>2, <1>6 DEF LedgerInv, Types, HistTypes
  <2>2. cursor'[q] = at /\ probation'[q] = at /\ ledger'[q] = Expired(ledger[q])
    BY <1>3, <1>2, <1>6
  <2>3. NoPending(ledger'[q]) /\ Served(ledger[q], ledger[q], brokeAt[q], now)
    BY <1>2, <1>7, <2>2 DEF Served
  <2>4. Served(ledger'[q], ledger[q], brokeAt[q], now)
    BY <2>1, <2>2, <2>3, ExpiredSound
  <2>5. HealthRow(q)' /\ SuccessSeen(q)' /\ EarnsIfPending(q)'
    BY <1>3, <1>2, <2>1, <2>2, <2>3 DEF Row, HealthRow, SuccessSeen, EarnsIfPending
  <2>6. ASSUME q \notin rewound' PROVE RowSound(q)' /\ CursorSeen(q)' /\ Unbroken(q)'
    <3>1. cursor[q] <= at /\ q \notin rewound
      BY <1>3, <1>2, <2>1, <2>6
    <3>2. RowSound(q) /\ CursorSeen(q) /\ Unbroken(q)
      BY <2>1, <3>1 DEF Row
    <3>3. Sound(ledger[q], at, seen[q])
      BY <1>2, <2>1, <3>1, <3>2, SoundGrows DEF RowSound
    <3>4. RowSound(q)'
      BY <1>3, <2>1, <2>2, <3>3, ExpiredSound DEF RowSound
    <3>5. CursorSeen(q)'
      BY <1>3, <1>2, <2>1, <2>2, <3>1, <3>2 DEF CursorSeen
    <3>6. brokeAt'[q] = at
      BY <1>1, <1>3 DEF Types, HistTypes
    <3>7. Unbroken(q)'
      BY <1>2, <2>2, <3>6 DEF Unbroken
    <3> QED BY <3>4, <3>5, <3>7
  <2> QED BY <2>4, <2>5, <2>6 DEF RowStep, Row
<1>14. ASSUME NEW r \in Proxies PROVE Clean(r) => Clean(r)'
  <2>1. ledger[r] \in SUBSET Entries /\ (NoPending(ledger[r]) => NoPending(ledger'[r]))
    BY <1>3, <1>6, <1>7
  <2>2. r = p => NoPending(ledger'[r])
    BY <1>3, <1>7
  <2>3. dup'[r] = IF r = q THEN 0 ELSE IF r = p \/ dup[r] = p THEN q ELSE dup[r]
    BY <1>3
  <2> QED BY <1>5, <2>1, <2>2, <2>3 DEF Clean
<1> QED BY <1>8, <1>10, <1>12, <1>13, <1>14 DEF Kept, RowsKept

\* archive_due_dead_proxies archives rows that are offline.
LEMMA MaintArchiveStep ==
    ASSUME LedgerInv, MaintArchive
    PROVE  Kept
<1>1. Types /\ MaintInv /\ now \in 0 .. MaxTime
  BY DEF LedgerInv, Types, ClockTypes
<1>2. /\ status' = [p \in Proxies |-> IF p \in DeadRows THEN "archived" ELSE status[p]]
      /\ maint' = NoMaint
      /\ UNCHANGED <<now, userState, eligibility, failures, lastSuccess, offlineSince, deadSince,
                     exit, verified, dup, cursor, probation, ledger, edit, seen, dupAt, brokeAt, rewound>>
  BY DEF MaintArchive, egressVars, earnVars, histVars
<1>3. \A p \in DeadRows : status[p] = "offline"
  BY DEF DeadRows
<1>4. HealthTypes'
  BY <1>1, <1>2 DEF Types, HealthTypes, Statuses
<1>5. ClockTypes' /\ EgressTypes' /\ EarnTypes' /\ HistTypes'
  BY <1>1, <1>2 DEF Types, ClockTypes, EgressTypes, EarnTypes, HistTypes
<1>6. TaskTypes' /\ MaintInv'
  <2>1. NoMaint \in Cycles /\ NoMaint.at = 0 /\ NoMaint.pc = "idle"
    BY Nats DEF NoMaint, Cycles
  <2> QED BY <1>1, <1>2, <2>1, Nats DEF Types, TaskTypes, MaintInv
<1>7. Types'
  BY <1>4, <1>5, <1>6 DEF Types
<1>8. ASSUME NEW q \in Proxies PROVE RowStep(q)
  <2>1. Row(q)
    BY DEF LedgerInv
  <2>2. CASE q \notin DeadRows
    <3>1. status'[q] = status[q] /\ now <= now'
      BY <1>1, <1>2, <2>2, Nats
    <3> QED BY <1>2, <1>7, <3>1, OtherRow
  <2>3. CASE q \in DeadRows
    <3>1. status'[q] = "archived" /\ status[q] = "offline"
      BY <1>2, <1>3, <2>3
    <3>2. HealthRow(q)' /\ SuccessSeen(q)' /\ EarnsIfPending(q)'
      BY <1>2, <2>1, <3>1 DEF Row, HealthRow, SuccessSeen, EarnsIfPending
    <3>3. q \notin rewound => RowSound(q)' /\ CursorSeen(q)' /\ Unbroken(q)'
      BY <1>2, <2>1, <3>1 DEF Row, RowSound, CursorSeen, Unbroken
    <3>4. Served(ledger'[q], ledger[q], brokeAt[q], now)
      BY <1>2 DEF Served
    <3> QED BY <1>2, <3>2, <3>3, <3>4 DEF RowStep, Row
  <2> QED BY <2>2, <2>3
<1>9. \A q \in Proxies : Clean(q) => Clean(q)'
  BY <1>2 DEF Clean
<1> QED BY <1>6, <1>7, <1>8, <1>9 DEF Kept, RowsKept

-----------------------------------------------------------------------------
(***************************************************************************)
(* The theorems.                                                           *)
(***************************************************************************)
\* The invariant holds initially,
LEMMA LedgerInit == Init => LedgerInv
<1> SUFFICES ASSUME Init PROVE LedgerInv
  OBVIOUS
<1>0. Never \in Times /\ 0 \in 0 .. MaxTime /\ 0 \in 0 .. MaxProxies /\ 0 \in 0 .. OfflineAfter /\ Never <= 0
  BY Nats DEF Never, Times, OfflineAfter
<1>1. ClockTypes /\ HealthTypes
  BY <1>0 DEF Init, ClockTypes, HealthTypes, Statuses
<1>2. EgressTypes /\ EarnTypes /\ HistTypes
  BY <1>0 DEF Init, EgressTypes, EarnTypes, HistTypes
<1>3. TaskTypes
  <2>1. NoEdit \in Edits /\ NoMaint \in Cycles
    BY <1>0 DEF NoEdit, Edits, NoMaint, Cycles
  <2> QED BY <2>1 DEF Init, TaskTypes
<1>4. MaintInv
  BY <1>0 DEF Init, MaintInv, NoMaint
<1>5. ASSUME NEW p \in Proxies PROVE Row(p)
  <2>1. /\ status[p] = "absent" /\ lastSuccess[p] = Never /\ eligibility[p] = "pending"
        /\ cursor[p] = 0 /\ now = 0 /\ ledger[p] = {}
    BY DEF Init
  <2>2. HealthRow(p) /\ SuccessSeen(p) /\ EarnsIfPending(p)
    BY <1>0, <2>1 DEF HealthRow, SuccessSeen, EarnsIfPending, NoPending
  <2>3. RowSound(p) /\ CursorSeen(p) /\ Unbroken(p)
    BY <2>1 DEF RowSound, Sound, Disjoint, CursorSeen, Unbroken, Earning
  <2> QED BY <2>2, <2>3 DEF Row
<1> QED BY <1>1, <1>2, <1>3, <1>4, <1>5 DEF LedgerInv, Types

\* every step preserves it (only the edits can leave a duplicate with
\* pending earnings),
LEMMA LedgerStep ==
    ASSUME LedgerInv, [Next]_vars
    PROVE  /\ RowsKept
           /\ Kept \/ \E p \in Proxies : ArchiveProxy(p) \/ ReplaceProxy(p)
<1>1. ASSUME NEW p \in Proxies, HealthResult(p) PROVE Kept
  <2>1. ASSUME NEW x \in IPs, Live(p, x, TRUE) PROVE Kept
    <3> DEFINE trusted == TRUE
    <3>1. trusted \in BOOLEAN /\ Live(p, x, trusted)
      BY <2>1
    <3> HIDE DEF trusted
    <3> QED BY <3>1, LiveStep
  <2>2. ASSUME NEW x \in IPs, Live(p, x, FALSE) PROVE Kept
    <3> DEFINE trusted == FALSE
    <3>1. trusted \in BOOLEAN /\ Live(p, x, trusted)
      BY <2>2
    <3> HIDE DEF trusted
    <3> QED BY <3>1, LiveStep
  <2> QED BY <1>1, <2>1, <2>2, BlockedStep, DeadStep DEF HealthResult
<1>2. ASSUME NEW p \in Proxies, NEW v \in EarnappVerdicts, NEW x \in EarnappExits, EarnappResult(p, v, x)
      PROVE  Kept
  BY <1>2, EarnappStep, LedgerAssumption
<1>3. ASSUME NEW p \in Proxies, OwnerStep(p)
      PROVE  RowsKept /\ (Kept \/ ArchiveProxy(p) \/ ReplaceProxy(p))
  <2>1. CASE AddProxy(p)
    BY <2>1, AddStep DEF Kept
  <2>2. CASE (\E kind \in EditKinds : EditRead(p, kind)) \/ EditAbort(p)
    BY <2>2, EditReadStep DEF Kept
  <2>3. CASE ArchiveProxy(p)
    BY <2>3, ArchiveStep
  <2>4. CASE ReplaceProxy(p)
    BY <2>4, ReplaceStep
  <2> QED BY <1>3, <2>1, <2>2, <2>3, <2>4 DEF OwnerStep
<1>4. CASE MaintStep
  BY <1>4, IdleStep, MaintAccrueStep, PromoteStep, MaintArchiveStep DEF MaintStep, Kept
<1>5. CASE Tick \/ (\E u \in Users, s \in UserStates : ChangeUser(u, s)) \/ UNCHANGED vars
  BY <1>5, IdleStep DEF Kept
<1>6. Kept => RowsKept
  BY DEF Kept
<1> QED BY <1>1, <1>2, <1>3, <1>4, <1>5, <1>6 DEF Next

\* and so it always holds.
LEMMA LedgerInvariant == Spec => []LedgerInv
<1>1. LedgerInv /\ [Next]_vars => LedgerInv'
  BY LedgerStep DEF LedgerInv, RowsKept, RowStep
<1> QED BY <1>1, LedgerInit, PTL DEF Spec

\* After every check result, request and maintenance step the columns of the
\* proxies and earnings_ledger tables have their types: duplicate_of names a
\* row of the group (_canonicalize_exit_group always finds one), no clock runs
\* ahead, and no ledger entry ends after the last tick.
THEOREM LedgerTypeCorrect == Spec => []TypeOK
<1>1. LedgerInv => TypeOK
  BY TypeSplit DEF LedgerInv
<1> QED BY <1>1, LedgerInvariant, PTL

\* No second of a proxy is entered twice by accrue_eligible_time or
\* accrue_proxy_time, unless promote_duplicate_if_due has set its cursor back.
THEOREM LedgerPaysOnce == Spec => []LedgerDisjoint
<1>1. LedgerInv => LedgerDisjoint
  BY DEF LedgerInv, Row, RowSound, Sound, LedgerDisjoint
<1> QED BY <1>1, LedgerInvariant, PTL

\* Every second that _accrue_eligible_time_locked enters lies within
\* health_stale_minutes of an earlier successful check of the credential in
\* the row, unless promote_duplicate_if_due has set its cursor back.
THEOREM LedgerPaysObserved == Spec => []PaidWasObserved
<1>1. LedgerInv => PaidWasObserved
  BY DEF LedgerInv, Row, RowSound, Sound, PaidWasObserved
<1> QED BY <1>1, LedgerInvariant, PTL

\* Earnings become available only from a cycle that has lasted for
\* PROBATION_HOURS without an interruption, begun at its promotion if the row
\* was a duplicate (expire_pending_cycle, reset_probation,
\* promote_duplicate_if_due), unless the promotion has set the cursor back.
THEOREM LedgerProbation == Spec => ProbationServed
<1> DEFINE Step == \A p \in Proxies \ rewound : \A e \in ledger'[p] \ ledger[p] :
                     e.bucket = "available" =>
                         e.from >= brokeAt[p] /\ now >= brokeAt[p] + PROBATION
<1>1. LedgerInv /\ [Next]_vars => Step
  BY LedgerStep DEF RowsKept, RowStep, Served
<1> QED BY <1>1, LedgerInvariant, PTL DEF Spec, ProbationServed

\* Pending earnings exist only in rows that are online or suspect, have an
\* earning eligibility and a known exit address, whatever archive_proxy and
\* replace_proxy do (expire_pending_cycle's callers).
THEOREM LedgerPendingEarned == Spec => [](\A p \in Proxies : EarnsIfPending(p))
<1>1. LedgerInv => \A p \in Proxies : EarnsIfPending(p)
  BY DEF LedgerInv, Row
<1> QED BY <1>1, LedgerInvariant, PTL

\* As long as no owner archives or replaces a proxy, no duplicate holds
\* pending earnings either: reconcile_exit_ip and promote_duplicate_if_due
\* close the cycle of every row that they make a duplicate.
THEOREM LedgerOnlyEarners ==
    ASSUME EditKinds = {}
    PROVE  Spec => []OnlyEarnersHoldPending
<1> DEFINE NoEdits == \A p \in Proxies : edit[p] = NoEdit
           AllClean == \A p \in Proxies : Clean(p)
           Inv == LedgerInv /\ NoEdits /\ AllClean
<1>1. Init => Inv
  <2>1. Init => NoEdits
    BY DEF Init
  <2>2. Init => AllClean
    BY DEF Init, Clean
  <2> QED BY <2>1, <2>2, LedgerInit
<1>2. Inv /\ [Next]_vars => Inv'
  <2> SUFFICES ASSUME Inv, [Next]_vars PROVE Inv'
    OBVIOUS
  <2>1. \A p \in Proxies : ~ (ArchiveProxy(p) \/ ReplaceProxy(p) \/ EditAbort(p))
    BY DEF ArchiveProxy, ReplaceProxy, EditAbort, NoEdit
  <2>2. Kept
    BY <2>1, LedgerStep
  <2>3. LedgerInv' /\ AllClean'
    BY <2>2 DEF Kept, RowsKept, RowStep, LedgerInv
  <2>4. UNCHANGED edit
    <3>1. ASSUME NEW p \in Proxies, HealthResult(p) PROVE UNCHANGED edit
      BY <3>1 DEF HealthResult, Live, Blocked, Dead, taskVars
    <3>2. ASSUME NEW p \in Proxies, NEW v, NEW x, EarnappResult(p, v, x) PROVE UNCHANGED edit
      BY <3>2 DEF EarnappResult, taskVars
    <3>3. ASSUME NEW p \in Proxies, OwnerStep(p) PROVE UNCHANGED edit
      BY <2>1, <3>3 DEF OwnerStep, AddProxy, taskVars
    <3>4. CASE MaintStep
      BY <3>4 DEF MaintStep, MaintStart, MaintAccrue, MaintSelect, PromoteRead, PromoteWrite,
                  MaintArchive, MaintCrash
    <3>5. CASE Tick \/ (\E u \in Users, s \in UserStates : ChangeUser(u, s)) \/ UNCHANGED vars
      BY <3>5 DEF Tick, ChangeUser, vars, taskVars
    <3> QED BY <3>1, <3>2, <3>3, <3>4, <3>5 DEF Next
  <2> QED BY <2>3, <2>4
<1>3. Inv => OnlyEarnersHoldPending
  <2>1. ASSUME Inv, NEW p \in Proxies, \E e \in ledger[p] : e.bucket = "pending"
        PROVE  /\ status[p] \in {"online", "suspect"} /\ eligibility[p] \in Earning
               /\ exit[p] # None /\ dup[p] = 0
    <3>1. ~ NoPending(ledger[p]) /\ Row(p) /\ Clean(p)
      BY <2>1 DEF NoPending, LedgerInv
    <3> QED BY <3>1 DEF Row, EarnsIfPending, Clean
  <2> QED BY <2>1 DEF OnlyEarnersHoldPending
<1> QED BY <1>1, <1>2, <1>3, PTL DEF Spec
=============================================================================
