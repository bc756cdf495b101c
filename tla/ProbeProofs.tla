----------------------------- MODULE ProbeProofs -----------------------------
(***************************************************************************)
(* TLAPS proofs about Probe, for every set of rows, hosts and addresses,   *)
(* every threshold and bound, and at most one host that lies:              *)
(*                                                                         *)
(*   ProbeTypeCorrect      Spec => []TypeOK                                *)
(*   ProbeTrustedIsTrue    Spec => TrustedIsTrue                           *)
(*   ProbeWorkingNotDead   Spec => WorkingNotDead                          *)
(*                                                                         *)
(* A quorum of two has an honest member (TruthfulQuorum), and two honest   *)
(* hosts that name one address are a quorum (HonestQuorum).  So a round in *)
(* which two hosts that were up all the time have been asked, and that     *)
(* finds no quorum, leaves a doubt: evidence of something else than a      *)
(* failed proxy, which forbids "dead".  The invariant says of each row     *)
(* what its calls have shown (HonestAnswers, HonestFound, SteadyAnswers),  *)
(* and that a check of a proxy that could be seen to work passes a round,  *)
(* runs out of time or leaves the proxy's protocol only with a doubt       *)
(* (DoubtRemains); the other parts are about what a check starts from      *)
(* and what steady and exits mean.                                         *)
(***************************************************************************)
EXTENDS Probe, TLAPS, FiniteSetTheorems, WellFoundedInduction

\* Every nonempty set of naturals has a least element.
LEMMA LeastNatural ==
    ASSUME NEW T \in SUBSET Nat, T # {}
    PROVE  \E m \in T : \A n \in T : m <= n
<1> DEFINE R == {ss \in Nat \X Nat : ss[1] < ss[2]}
<1>1. IsWellFoundedOn(R, Nat)
  BY NatLessThanWellFounded, Zenon DEF OpToRel
<1>2. \E x \in T : \A y \in T : ~ (<<y, x>> \in R)
  <2> HIDE DEF R
  <2> QED BY <1>1, WFMin
<1>3. PICK x \in T : \A y \in T : ~ (<<y, x>> \in R)
  BY <1>2
<1>4. \A y \in T : x <= y
  <2> TAKE y \in T
  <2>1. ~(<<y, x>> \in R)
    BY <1>3
  <2> QED BY <2>1
<1> QED BY <1>4

-----------------------------------------------------------------------------
\* Sets of hosts are finite.
LEMMA HostsFinite ==
    ASSUME NEW H \in SUBSET Hosts
    PROVE  IsFiniteSet(H) /\ Cardinality(H) \in Nat
<1>1. IsFiniteSet(Hosts)
  BY FS_Interval, ProbeAssumption DEF Hosts
<1>2. IsFiniteSet(H)
  BY <1>1, FS_Subset
<1> QED BY <1>2, FS_CardinalityType

\* A part has no more members than the whole.
LEMMA SmallerCount ==
    ASSUME NEW H \in SUBSET Hosts, NEW G \in SUBSET H
    PROVE  Cardinality(G) <= Cardinality(H)
BY HostsFinite, FS_Subset

\* Two or more are two different ones ...
LEMMA TwoMembers ==
    ASSUME NEW H \in SUBSET Hosts, Cardinality(H) >= 2
    PROVE  \E u, v \in H : u # v
<1>1. H # {}
  BY FS_EmptySet
<1>2. PICK u \in H : TRUE
  BY <1>1
<1>3. H # {u}
  BY FS_Singleton
<1> QED BY <1>2, <1>3

\* ... and the other way round.
LEMMA TwoCount ==
    ASSUME NEW H \in SUBSET Hosts, NEW u \in H, NEW v \in H, u # v
    PROVE  Cardinality(H) >= 2
<1>1. IsFiniteSet({u}) /\ Cardinality({u}) = 1
  BY FS_Singleton
<1>2. Cardinality({u} \cup {v}) = 2
  BY <1>1, FS_AddElement
<1>3. Cardinality({u} \cup {v}) <= Cardinality(H)
  BY SmallerCount
<1>4. Cardinality(H) \in Nat
  BY HostsFinite
<1> QED BY <1>2, <1>3, <1>4

\* Everybody but the voters is a liar, and there is at most one.
LEMMA MajorityOfTwo ==
    ASSUME NEW valid \in SUBSET Hosts, NEW votes \in SUBSET valid,
           valid \subseteq votes \cup Liars, Cardinality(votes) >= 2
    PROVE  2 * Cardinality(votes) > Cardinality(valid)
<1>1. Liars \in SUBSET Hosts /\ Cardinality(Liars) <= 1
  BY ProbeAssumption DEF Hosts
<1>2. IsFiniteSet(votes) /\ IsFiniteSet(Liars)
  BY <1>1, HostsFinite
<1>3. /\ Cardinality(votes \cup Liars) =
           Cardinality(votes) + Cardinality(Liars) - Cardinality(votes \cap Liars)
  BY <1>2, FS_Union
<1>4. Cardinality(valid) <= Cardinality(votes \cup Liars)
  BY <1>1, SmallerCount
<1>5. /\ Cardinality(votes) \in Nat /\ Cardinality(Liars) \in Nat
      /\ Cardinality(votes \cap Liars) \in Nat /\ Cardinality(valid) \in Nat
      /\ Cardinality(votes \cup Liars) \in Nat
  BY <1>1, HostsFinite
<1> QED BY <1>1, <1>3, <1>4, <1>5

-----------------------------------------------------------------------------
\* _quorum returns an address that two endpoints named, or None.
LEMMA QuorumSays ==
    ASSUME NEW a
    PROVE  /\ Quorum(a) \in Ips \cup {None}
           /\ Quorum(a) # None =>
                /\ Quorum(a) \in Ips
                /\ Cardinality({u \in DOMAIN a : a[u] = Quorum(a)}) >= 2
<1> DEFINE Votes(ip) == Cardinality({u \in DOMAIN a : a[u] = ip})
           valid == Cardinality({u \in DOMAIN a : a[u] \in Ips})
           won == {ip \in Ips : Votes(ip) >= 2 /\ 2 * Votes(ip) > valid}
<1>1. Quorum(a) = IF won = {} THEN None ELSE CHOOSE ip \in won : TRUE
  BY DEF Quorum
<1>2. won # {} => (CHOOSE ip \in won : TRUE) \in won
  <2> HIDE DEF won
  <2> QED OBVIOUS
<1>3. Quorum(a) = None \/ Quorum(a) \in won
  BY <1>1, <1>2
<1>4. ASSUME NEW ip \in won PROVE ip \in Ips /\ Votes(ip) >= 2
  OBVIOUS
<1>5. Quorum(a) # None => Quorum(a) \in Ips /\ Votes(Quorum(a)) >= 2
  <2> HIDE DEF won, Votes
  <2> QED BY <1>3, <1>4
<1> QED BY <1>3, <1>5

\* Two votes that are more than half of the addresses win.
LEMMA QuorumWins ==
    ASSUME NEW a, NEW ip \in Ips,
           Cardinality({u \in DOMAIN a : a[u] = ip}) >= 2,
           2 * Cardinality({u \in DOMAIN a : a[u] = ip})
               > Cardinality({u \in DOMAIN a : a[u] \in Ips})
    PROVE  Quorum(a) # None
<1> DEFINE Votes(i) == Cardinality({u \in DOMAIN a : a[u] = i})
           valid == Cardinality({u \in DOMAIN a : a[u] \in Ips})
           won == {i \in Ips : Votes(i) >= 2 /\ 2 * Votes(i) > valid}
<1>1. Quorum(a) = IF won = {} THEN None ELSE CHOOSE i \in won : TRUE
  BY DEF Quorum
<1>2. ip \in won
  OBVIOUS
<1>3. won \subseteq Ips
  OBVIOUS
<1> HIDE DEF won
<1>4. (CHOOSE i \in won : TRUE) \in won
  BY <1>2
<1> QED BY <1>1, <1>2, <1>3, <1>4, ProbeAssumption

\* Two agree, so one of them tells the truth.
LEMMA TruthfulQuorum ==
    ASSUME NEW a \in [Hosts -> Answers \cup {None}], NEW E,
           \A u \in Hosts \ Liars : a[u] \in Ips => a[u] \in E,
           Quorum(a) # None
    PROVE  Quorum(a) \in E
<1> DEFINE q == Quorum(a)
           V == {u \in DOMAIN a : a[u] = q}
<1>1. q \in Ips /\ Cardinality(V) >= 2
  BY QuorumSays
<1>2. V \in SUBSET Hosts
  OBVIOUS
<1> SUFFICES ASSUME q \notin E PROVE FALSE
  OBVIOUS
<1>3. V \in SUBSET Liars
  BY <1>1
<1> HIDE DEF q, V
<1>4. Liars \in SUBSET Hosts /\ Cardinality(Liars) <= 1
  BY ProbeAssumption DEF Hosts
<1>5. Cardinality(V) <= Cardinality(Liars) /\ Cardinality(V) \in Nat /\ Cardinality(Liars) \in Nat
  BY <1>2, <1>3, <1>4, SmallerCount, HostsFinite
<1> QED BY <1>1, <1>4, <1>5

\* Two honest hosts that name the address of all honest ones are a quorum.
LEMMA HonestQuorum ==
    ASSUME NEW a \in [Hosts -> Answers \cup {None}], NEW ip \in Ips,
           NEW x \in Hosts, NEW y \in Hosts, x # y, a[x] = ip, a[y] = ip,
           \A u \in Hosts \ Liars : a[u] \in Ips => a[u] = ip
    PROVE  Quorum(a) # None
<1> DEFINE votes == {u \in DOMAIN a : a[u] = ip}
           valid == {u \in DOMAIN a : a[u] \in Ips}
<1>1. x \in votes /\ y \in votes
  OBVIOUS
<1>2. votes \in SUBSET valid /\ valid \in SUBSET Hosts /\ votes \in SUBSET Hosts
  OBVIOUS
<1>3. valid \subseteq votes \cup Liars
  OBVIOUS
<1>4. Cardinality(votes) >= 2
  <2> HIDE DEF votes
  <2> QED BY <1>1, <1>2, TwoCount
<1>5. 2 * Cardinality(votes) > Cardinality(valid)
  <2> HIDE DEF votes, valid
  <2> QED BY <1>2, <1>3, <1>4, MajorityOfTwo
<1> QED BY <1>4, <1>5, QuorumWins

\* What comes back through a proxy: an honest host names its exit, and a
\* proxy that works and is spoken to in its protocol adds nothing to that
\* but noise.
LEMMA ProbeAnswers ==
    ASSUME TypeOK, NEW r \in Rows, NEW u \in Hosts, NEW p, NEW how, NEW a \in OfProbe(r, p, u, how)
    PROVE  /\ a \in Answers
           /\ a \in Ips => a = exit[r] \/ u \in Liars
           /\ kind[r] = "works" /\ p = speaks[r] =>
                /\ a \notin {"tls", "blocked"}
                /\ u \in up \ Liars => a = exit[r] \/ a \in Noise
<1>1. exit[r] \in Ips /\ kind[r] \in {"works", "down", "intercepts", "captive"}
  BY DEF TypeOK
<1>2. Ips \cap {"proxy", "endpoint", "noip", "transient", "tls", "blocked"} = {}
  BY ProbeAssumption DEF Failures
<1>3. /\ OfHost(r, u) \subseteq Ips \cup {"endpoint", "noip", "transient", "proxy"}
      /\ u \in up \ Liars => OfHost(r, u) = {exit[r]}
      /\ \A ip \in OfHost(r, u) \cap Ips : ip = exit[r] \/ u \in Liars
  BY <1>1, <1>2 DEF OfHost
<1>4. a \in Noise \/ a \in OfHost(r, u) \/ a \in {"proxy", "tls", "blocked"}
  BY <1>1 DEF OfProbe
<1>5. kind[r] = "works" /\ p = speaks[r] => a \in Noise \/ a \in OfHost(r, u)
  BY DEF OfProbe
<1> QED BY <1>1, <1>2, <1>3, <1>4, <1>5 DEF Noise, Answers, Failures

\* What a round keeps of an answer, and what evidence is in it.
LEMMA KeptAndEvidence ==
    ASSUME NEW a \in Answers
    PROVE  /\ Kept(a) \in Answers /\ Kept(a) # None
           /\ Kept(a) \in Ips \cup {"tls", "blocked"} => Kept(a) = a
           /\ a \in Ips => Kept(a) = a
           /\ Evidence(a) \in SUBSET Failures
           /\ a \in Noise => "transient" \in Evidence(a)
<1>1. Ips \cap Failures = {} /\ None \notin Ips \cup Failures
  BY ProbeAssumption
<1>2. CASE a \in Ips
  BY <1>1, <1>2 DEF Kept, Evidence, Answers, Failures, Noise
<1>3. CASE a \in Failures
  BY <1>1, <1>3 DEF Kept, Evidence, Answers, Failures, Noise
<1> QED BY <1>2, <1>3 DEF Answers

-----------------------------------------------------------------------------
\* A result that is to be recorded is the answer of an endpoint.
RecordHasAnswer(r) == pc[r] = "record" => asked[r] \in Hosts /\ answer[r] \in Answers

\* A strong check starts from nothing.
Fresh(r) ==
    pc[r] \notin Rounds => attempt[r] = 1 /\ got[r] = Unasked /\ ~over[r]

\* The protocol of a row that was live once is not guessed, nor is one that
\* was declared.
OneProtocol(r) ==
    pc[r] \in Rounds =>
       /\ known[r] => proto[r] = speaks[r]
       /\ ~known[r] /\ declared[r] # "auto" => proto[r] = declared[r]

\* What steady and exits say of the proxy as it is now.
SteadyWorks(r) == steady[r] # {} => kind[r] = "works" /\ steady[r] \subseteq up
ExitKept(r) == pc[r] \in Rounds => exit[r] \in exits[r]

\* An honest host has told where the proxy exited during the attempt, and so
\* has a quorum.
HonestAnswers(r) ==
    pc[r] \in Rounds =>
       \A u \in Hosts \ Liars : got[r][u] \in Ips => got[r][u] \in exits[r]
HonestFound(r) == pc[r] = "insecure" => found[r] \in exits[r] \cup {None}

\* There is evidence of something else than a failed proxy.
Doubt(r) == \E e \in seen[r] : e # "proxy"

\* While a proxy that works is asked in its own protocol, no portal and no
\* broken TLS is seen, the honest hosts name its one address, and the ones
\* that were up all the time do or leave a doubt.
SteadyAnswers(r) ==
    pc[r] \in Rounds /\ steady[r] # {} /\ proto[r] = speaks[r] =>
       \A u \in Hosts :
          /\ got[r][u] \notin {"tls", "blocked"}
          /\ u \notin Liars /\ got[r][u] \in Ips => got[r][u] = exit[r]
          /\ u \in steady[r] \ Liars => got[r][u] \in {None, exit[r]} \/ Doubt(r)

\* A strong check of which WorkingNotDead speaks.
Watched(r) == pc[r] \in Rounds /\ Tried(r) /\ ~stalled[r] /\ Evident(r)

\* Such a check gets past a round in the proxy's own protocol only with a
\* doubt, and its time is up only with one, or when all have been asked; it
\* has left that protocol only with one.
DoubtRemains(r) ==
    Watched(r) =>
       /\ proto[r] = speaks[r] =>
             /\ pc[r] # "insecure"
             /\ attempt[r] > 1 => Doubt(r)
             /\ pc[r] = "plain" /\ Cardinality((avail[r] \cap steady[r]) \ Liars) >= 2
                   => Doubt(r)
             /\ over[r] => Doubt(r) \/ (pc[r] = "plain" /\ Left(r) = {})
       /\ proto[r] = "http" /\ speaks[r] = "socks5" => Doubt(r)

RowInv(r) ==
    /\ RecordHasAnswer(r) /\ Fresh(r) /\ OneProtocol(r) /\ SteadyWorks(r)
    /\ ExitKept(r) /\ HonestAnswers(r) /\ HonestFound(r) /\ SteadyAnswers(r)
    /\ DoubtRemains(r)

\* The inductive invariant.
ProbeInv == TypeOK /\ \A r \in Rows : RowInv(r)
-----------------------------------------------------------------------------
\* The parts of TypeOK that a check writes, and those that it does not.
CheckTypes ==
    /\ known \in [Rows -> BOOLEAN] /\ expect \in [Rows -> Ips \cup {None}]
    /\ index \in [Rows -> Hosts]
    /\ pc \in [Rows -> {"idle", "ask", "record"} \cup Rounds]
    /\ avail \in [Rows -> SUBSET Hosts]
    /\ asked \in [Rows -> Hosts \cup {None}]
    /\ answer \in [Rows -> Answers \cup {None}]
    /\ proto \in [Rows -> {"socks5", "http"}] /\ attempt \in [Rows -> 1 .. ATTEMPTS]
    /\ got \in [Rows -> [Hosts -> Answers \cup {None}]]
    /\ found \in [Rows -> Ips \cup {None}]
    /\ seen \in [Rows -> SUBSET Failures] /\ blocked \in [Rows -> BOOLEAN]
    /\ over \in [Rows -> BOOLEAN] /\ stalled \in [Rows -> BOOLEAN]
    /\ verdict \in [Rows -> Verdict]
    /\ steady \in [Rows -> SUBSET Hosts] /\ exits \in [Rows -> SUBSET Ips]
WorldTypes ==
    /\ up \in SUBSET Hosts /\ noisy \in BOOLEAN
    /\ kind \in [Rows -> {"works", "down", "intercepts", "captive"}]
    /\ exit \in [Rows -> Ips] /\ speaks \in [Rows -> {"socks5", "http"}]
    /\ declared \in [Rows -> {"auto", "socks5", "http"}]
    /\ late \in SUBSET Others
    /\ events \in 0 .. MaxEvents
CircuitTypes ==
    /\ fails \in [Hosts -> 0 .. THRESHOLD] /\ open \in [Hosts -> 0 .. COOLDOWN]
    /\ \A u \in Hosts : open[u] > 0 => fails[u] = THRESHOLD

\* TypeOK in three groups.
LEMMA TypeSplit == TypeOK <=> CheckTypes /\ WorldTypes /\ CircuitTypes
BY DEF TypeOK, CheckTypes, WorldTypes, CircuitTypes

LEMMA TypeSplitPrimed == TypeOK' <=> CheckTypes' /\ WorldTypes' /\ CircuitTypes'
BY DEF TypeOK, CheckTypes, WorldTypes, CircuitTypes

\* Nobody has been asked.
LEMMA UnaskedType ==
    Unasked \in [Hosts -> Answers \cup {None}] /\ \A u \in Hosts : Unasked[u] = None
BY DEF Unasked

\* The invariant holds initially,
LEMMA ProbeInit == Init => ProbeInv
<1> SUFFICES ASSUME Init PROVE ProbeInv
  OBVIOUS
<1> USE ProbeAssumption DEF Init
<1>1. (CHOOSE ip \in Ips : TRUE) \in Ips
  OBVIOUS
<1>2. CheckTypes
  <2>1. /\ expect \in [Rows -> Ips \cup {None}]
        /\ pc \in [Rows -> {"idle", "ask", "record"} \cup Rounds]
        /\ avail \in [Rows -> SUBSET Hosts]
        /\ asked \in [Rows -> Hosts \cup {None}]
        /\ answer \in [Rows -> Answers \cup {None}]
        /\ proto \in [Rows -> {"socks5", "http"}]
        /\ got \in [Rows -> [Hosts -> Answers \cup {None}]]
        /\ found \in [Rows -> Ips \cup {None}]
        /\ seen \in [Rows -> SUBSET Failures]
        /\ steady \in [Rows -> SUBSET Hosts] /\ exits \in [Rows -> SUBSET Ips]
    BY UnaskedType
  <2>2. index \in [Rows -> Hosts] /\ attempt \in [Rows -> 1 .. ATTEMPTS]
    BY DEF Hosts
  <2>3. /\ known \in [Rows -> BOOLEAN] /\ blocked \in [Rows -> BOOLEAN]
        /\ over \in [Rows -> BOOLEAN] /\ stalled \in [Rows -> BOOLEAN]
    OBVIOUS
  <2>4. verdict \in [Rows -> Verdict]
    BY DEF Verdict, NoVerdict
  <2> QED BY <2>1, <2>2, <2>3, <2>4 DEF CheckTypes
<1>3. WorldTypes /\ CircuitTypes
  <2>1. WorldTypes
    <3>1. /\ kind \in [Rows -> {"works", "down", "intercepts", "captive"}]
          /\ speaks \in [Rows -> {"socks5", "http"}]
          /\ declared \in [Rows -> {"auto", "socks5", "http"}]
      OBVIOUS
    <3>2. exit \in [Rows -> Ips]
      BY <1>1
    <3>3. up \in SUBSET Hosts /\ late \in SUBSET Others
      OBVIOUS
    <3>4. noisy \in BOOLEAN
      OBVIOUS
    <3>5. events \in 0 .. MaxEvents
      OBVIOUS
    <3> QED BY <3>1, <3>2, <3>3, <3>4, <3>5 DEF WorldTypes
  <2>2. fails \in [Hosts -> 0 .. THRESHOLD] /\ open \in [Hosts -> 0 .. COOLDOWN]
    OBVIOUS
  <2>3. \A u \in Hosts : open[u] = 0
    OBVIOUS
  <2>4. CircuitTypes
    BY <2>2, <2>3 DEF CircuitTypes
  <2> QED BY <2>1, <2>4
<1>4. ASSUME NEW r \in Rows PROVE RowInv(r)
  <2>1. pc[r] = "idle" /\ "idle" \notin Rounds /\ steady[r] = {} /\ attempt[r] = 1
        /\ got[r] = Unasked /\ over[r] = FALSE
    BY DEF Rounds
  <2> QED BY <2>1 DEF RowInv, RecordHasAnswer, Fresh, OneProtocol, SteadyWorks, ExitKept,
             HonestAnswers, HonestFound, SteadyAnswers, DoubtRemains, Watched
<1> QED BY <1>2, <1>3, <1>4, TypeSplit DEF ProbeInv

-----------------------------------------------------------------------------
\* An event counts against the bound.
LEMMA EventType ==
    ASSUME WorldTypes, Event PROVE events' \in 0 .. MaxEvents
BY ProbeAssumption DEF WorldTypes, Event

\* Expired circuits close.
LEMMA ForgetType ==
    ASSUME CircuitTypes, ForgetExpired
    PROVE  CircuitTypes'
BY ProbeAssumption DEF CircuitTypes, ForgetExpired, Expired

\* A recorded result keeps the circuit consistent.
LEMMA RecordEndpointType ==
    ASSUME CircuitTypes, NEW u \in Hosts, NEW failed \in BOOLEAN, NEW live \in BOOLEAN,
           RecordEndpoint(u, failed, live)
    PROVE  CircuitTypes'
<1>1. CASE failed
  <2> DEFINE n == IF fails[u] < THRESHOLD THEN fails[u] + 1 ELSE THRESHOLD
  <2>1. /\ fails' = [fails EXCEPT ![u] = n]
        /\ open' = [open EXCEPT ![u] = IF n >= THRESHOLD THEN COOLDOWN ELSE 0]
    BY <1>1 DEF RecordEndpoint
  <2>2. n \in 0 .. THRESHOLD
    BY ProbeAssumption DEF CircuitTypes
  <2> HIDE DEF n
  <2>3. (IF n >= THRESHOLD THEN COOLDOWN ELSE 0) \in 0 .. COOLDOWN
    BY ProbeAssumption
  <2>4. fails' \in [Hosts -> 0 .. THRESHOLD] /\ open' \in [Hosts -> 0 .. COOLDOWN]
    BY <2>1, <2>2, <2>3 DEF CircuitTypes
  <2>5. \A w \in Hosts : open'[w] > 0 => fails'[w] = THRESHOLD
    BY <2>1, <2>2, ProbeAssumption DEF CircuitTypes
  <2> QED BY <2>4, <2>5 DEF CircuitTypes
<1>2. CASE ~failed /\ live
  <2>1. fails' = [fails EXCEPT ![u] = 0] /\ open' = [open EXCEPT ![u] = 0]
    BY <1>2 DEF RecordEndpoint
  <2> QED BY <2>1, ProbeAssumption DEF CircuitTypes
<1>3. CASE ~failed /\ ~live
  BY <1>3 DEF RecordEndpoint, circuit, CircuitTypes
<1> QED BY <1>1, <1>2, <1>3

\* The row's check, and what the invariant says of it, stay as they are.
Same(q) ==
    /\ kind'[q] = kind[q] /\ exit'[q] = exit[q] /\ speaks'[q] = speaks[q]
    /\ declared'[q] = declared[q] /\ known'[q] = known[q]
    /\ pc'[q] = pc[q] /\ avail'[q] = avail[q]
    /\ asked'[q] = asked[q] /\ answer'[q] = answer[q]
    /\ proto'[q] = proto[q] /\ attempt'[q] = attempt[q]
    /\ got'[q] = got[q] /\ found'[q] = found[q] /\ seen'[q] = seen[q]
    /\ over'[q] = over[q] /\ stalled'[q] = stalled[q]
    /\ steady'[q] = steady[q] /\ exits'[q] = exits[q]

LEMMA SameKeeps ==
    ASSUME NEW q, RowInv(q), Same(q), UNCHANGED up PROVE RowInv(q)'
<1>1. Left(q)' = Left(q) /\ Doubt(q)' = Doubt(q) /\ Watched(q)' = Watched(q)
  BY DEF Same, Left, Doubt, Watched, Tried, Evident
<1>2. /\ RecordHasAnswer(q)' /\ Fresh(q)' /\ OneProtocol(q)' /\ SteadyWorks(q)'
      /\ ExitKept(q)' /\ HonestAnswers(q)' /\ HonestFound(q)'
  BY DEF Same, RowInv, RecordHasAnswer, Fresh, OneProtocol, SteadyWorks, ExitKept,
         HonestAnswers, HonestFound
<1>3. SteadyAnswers(q)' /\ DoubtRemains(q)'
  BY <1>1 DEF Same, RowInv, SteadyAnswers, DoubtRemains
<1> QED BY <1>2, <1>3 DEF RowInv

\* Where no strong check is under way little is to be shown.
LEMMA NoRound ==
    ASSUME NEW r, pc'[r] \notin Rounds, RecordHasAnswer(r)', Fresh(r)', SteadyWorks(r)'
    PROVE  RowInv(r)'
<1>1. pc'[r] # "insecure"
  BY DEF Rounds
<1> QED BY <1>1 DEF RowInv, OneProtocol, ExitKept, HonestAnswers, HonestFound, SteadyAnswers,
           DoubtRemains, Watched

\* The check of a row ends.
LEMMA EndsInv ==
    ASSUME ProbeInv, NEW r \in Rows, NEW v \in Verdict, Ends(r, v),
           WorldTypes', CircuitTypes', UNCHANGED world,
           known' \in [Rows -> BOOLEAN], expect' \in [Rows -> Ips \cup {None}],
           index' \in [Rows -> Hosts],
           \A q \in Rows \ {r} : known'[q] = known[q]
    PROVE  ProbeInv'
<1>1. CheckTypes
  BY TypeSplit DEF ProbeInv
<1>2. CheckTypes'
  <2>1. /\ pc' \in [Rows -> {"idle", "ask", "record"} \cup Rounds]
        /\ avail' \in [Rows -> SUBSET Hosts]
        /\ asked' \in [Rows -> Hosts \cup {None}]
        /\ answer' \in [Rows -> Answers \cup {None}]
        /\ proto' \in [Rows -> {"socks5", "http"}]
        /\ found' \in [Rows -> Ips \cup {None}]
        /\ seen' \in [Rows -> SUBSET Failures]
        /\ verdict' \in [Rows -> Verdict]
        /\ steady' \in [Rows -> SUBSET Hosts] /\ exits' \in [Rows -> SUBSET Ips]
    BY <1>1 DEF Ends, CheckTypes
  <2>2. got' \in [Rows -> [Hosts -> Answers \cup {None}]]
    BY <1>1, UnaskedType DEF Ends, CheckTypes
  <2>3. attempt' \in [Rows -> 1 .. ATTEMPTS]
    BY <1>1, ProbeAssumption DEF Ends, CheckTypes
  <2>4. /\ blocked' \in [Rows -> BOOLEAN] /\ over' \in [Rows -> BOOLEAN]
        /\ stalled' \in [Rows -> BOOLEAN]
    BY <1>1 DEF Ends, CheckTypes
  <2> QED BY <2>1, <2>2, <2>3, <2>4 DEF CheckTypes
<1>3. ASSUME NEW q \in Rows \ {r} PROVE RowInv(q)'
  <2>1. Same(q)
    BY <1>1 DEF Ends, CheckTypes, Same, world
  <2> QED BY <2>1, SameKeeps DEF ProbeInv, world
<1>4. RowInv(r)'
  <2>1. /\ pc'[r] = "idle" /\ steady'[r] = {} /\ attempt'[r] = 1 /\ got'[r] = Unasked
        /\ over'[r] = FALSE
    BY <1>1 DEF Ends, CheckTypes
  <2>2. "idle" \notin Rounds /\ Unasked' = Unasked
    BY DEF Rounds, Unasked, Hosts
  <2> QED BY <2>1, <2>2, NoRound DEF RecordHasAnswer, Fresh, SteadyWorks
<1> QED BY <1>2, <1>3, <1>4, TypeSplitPrimed DEF ProbeInv

\* A check begins, or goes on to, the strong check.
LEMMA ConfirmsInv ==
    ASSUME ProbeInv, NEW r \in Rows, pc[r] \notin Rounds, Confirms(r),
           UNCHANGED <<world, late, row, events>>, verdict' \in [Rows -> Verdict]
    PROVE  ProbeInv'
<1> USE DEF world, row
<1>1. CheckTypes /\ WorldTypes /\ CircuitTypes /\ Fresh(r) /\ SteadyWorks(r)
  BY TypeSplit DEF ProbeInv, RowInv
<1> DEFINE q == FirstProtocol(r)
           s == IF kind[r] = "works" THEN up ELSE {}
<1>2. /\ pc' = [pc EXCEPT ![r] = "tls"]
      /\ avail' = [avail EXCEPT ![r] = Hosts \ Unavailable]
      /\ asked' = [asked EXCEPT ![r] = None]
      /\ answer' = [answer EXCEPT ![r] = None]
      /\ proto' = [proto EXCEPT ![r] = q]
      /\ steady' = [steady EXCEPT ![r] = s]
      /\ exits' = [exits EXCEPT ![r] = {exit[r]}]
      /\ UNCHANGED <<attempt, got, found, seen, blocked, over, stalled>>
  BY DEF Confirms
<1>3. /\ q \in {"socks5", "http"} /\ (known[r] => q = speaks[r])
      /\ (~known[r] /\ declared[r] # "auto" => q = declared[r])
      /\ (q = "http" /\ speaks[r] = "socks5" => ~known[r] /\ declared[r] = "http")
  BY <1>1 DEF WorldTypes, CheckTypes, FirstProtocol
<1> HIDE DEF q
<1>4. WorldTypes' /\ CircuitTypes'
  BY <1>1, ForgetType DEF Confirms, WorldTypes
<1>5. CheckTypes'
  <2>1. /\ pc' \in [Rows -> {"idle", "ask", "record"} \cup Rounds]
        /\ avail' \in [Rows -> SUBSET Hosts]
        /\ asked' \in [Rows -> Hosts \cup {None}]
        /\ answer' \in [Rows -> Answers \cup {None}]
        /\ proto' \in [Rows -> {"socks5", "http"}]
    BY <1>1, <1>2, <1>3 DEF CheckTypes, Rounds
  <2>2. steady' \in [Rows -> SUBSET Hosts] /\ exits' \in [Rows -> SUBSET Ips]
    BY <1>1, <1>2 DEF CheckTypes, WorldTypes
  <2> QED BY <1>1, <1>2, <2>1, <2>2 DEF CheckTypes
<1>6. ASSUME NEW x \in Rows \ {r} PROVE RowInv(x)'
  <2>1. Same(x)
    BY <1>1, <1>2 DEF CheckTypes, Same
  <2> QED BY <2>1, SameKeeps DEF ProbeInv
<1>7. /\ pc'[r] = "tls" /\ proto'[r] = q /\ steady'[r] = s /\ exits'[r] = {exit[r]}
      /\ attempt'[r] = 1 /\ got'[r] = Unasked /\ ~over'[r]
  BY <1>1, <1>2 DEF CheckTypes, Fresh
<1>8. RowInv(r)'
  <2>1. "tls" \in Rounds /\ "tls" \notin {"record", "insecure", "plain"}
    BY DEF Rounds
  <2>2. RecordHasAnswer(r)' /\ Fresh(r)' /\ OneProtocol(r)' /\ SteadyWorks(r)' /\ ExitKept(r)'
        /\ HonestFound(r)'
    BY <1>3, <1>7, <2>1 DEF RecordHasAnswer, Fresh, OneProtocol, SteadyWorks, ExitKept, HonestFound,
       Rounds
  <2>3. HonestAnswers(r)' /\ SteadyAnswers(r)'
    <3>1. \A u \in Hosts : got'[r][u] = None
      BY <1>7, UnaskedType
    <3>2. None \notin Ips /\ None \notin {"tls", "blocked"}
      BY ProbeAssumption DEF Failures
    <3> QED BY <3>1, <3>2 DEF HonestAnswers, SteadyAnswers, Hosts
  <2>4. DoubtRemains(r)'
    BY <1>3, <1>7, <2>1 DEF DoubtRemains, Watched, Tried
  <2> QED BY <2>2, <2>3, <2>4 DEF RowInv
<1> QED BY <1>4, <1>5, <1>6, <1>8, TypeSplitPrimed DEF ProbeInv

-----------------------------------------------------------------------------
\* A step of a strong check that is under way: the round it is in then, the
\* answers in that, the quorum before, the protocol and the attempt, the
\* evidence, whether the time is up, and the exits of the attempt.
Moves(r, how, g, ip, p, n, ev, blk, o, es) ==
    /\ pc' = [pc EXCEPT ![r] = how]
    /\ got' = [got EXCEPT ![r] = g]
    /\ found' = [found EXCEPT ![r] = ip]
    /\ proto' = [proto EXCEPT ![r] = p]
    /\ attempt' = [attempt EXCEPT ![r] = n]
    /\ seen' = [seen EXCEPT ![r] = ev]
    /\ blocked' = [blocked EXCEPT ![r] = blk]
    /\ over' = [over EXCEPT ![r] = o]
    /\ exits' = [exits EXCEPT ![r] = es]
    /\ UNCHANGED <<world, late, circuit, row, events, fast, stalled, verdict, steady>>

\* What that leaves in the row, and of the rest.
LEMMA MovesRow ==
    ASSUME CheckTypes, NEW r \in Rows, NEW how, NEW g, NEW ip, NEW p, NEW n, NEW ev, NEW blk,
           NEW o, NEW es, Moves(r, how, g, ip, p, n, ev, blk, o, es)
    PROVE  /\ pc'[r] = how /\ got'[r] = g /\ found'[r] = ip /\ proto'[r] = p /\ attempt'[r] = n
           /\ seen'[r] = ev /\ over'[r] = o /\ exits'[r] = es
           /\ UNCHANGED <<up, noisy, kind, exit, speaks, declared, late, fails, open, known,
                          expect, index, events, avail, asked, answer, stalled, verdict, steady>>
           /\ \A q \in Rows \ {r} : Same(q)
<1>1. UNCHANGED <<up, noisy, kind, exit, speaks, declared, late, fails, open, known,
                  expect, index, events, avail, asked, answer, stalled, verdict, steady>>
  BY DEF Moves, world, circuit, row, fast
<1>2. /\ pc'[r] = how /\ got'[r] = g /\ found'[r] = ip /\ proto'[r] = p /\ attempt'[r] = n
      /\ seen'[r] = ev /\ over'[r] = o /\ exits'[r] = es
  BY DEF Moves, CheckTypes
<1>3. ASSUME NEW q \in Rows \ {r} PROVE Same(q)
  BY <1>1 DEF Moves, CheckTypes, Same
<1> QED BY <1>1, <1>2, <1>3

\* Only the row itself is to be looked at.
LEMMA MovesInv ==
    ASSUME ProbeInv, NEW r \in Rows, NEW how \in Rounds, NEW g \in [Hosts -> Answers \cup {None}],
           NEW ip \in Ips \cup {None}, NEW p \in {"socks5", "http"}, NEW n \in 1 .. ATTEMPTS,
           NEW ev \in SUBSET Failures, NEW blk \in BOOLEAN, NEW o \in BOOLEAN,
           NEW es \in SUBSET Ips, Moves(r, how, g, ip, p, n, ev, blk, o, es), RowInv(r)'
    PROVE  ProbeInv'
<1>1. CheckTypes /\ WorldTypes /\ CircuitTypes
  BY TypeSplit DEF ProbeInv
<1>2. /\ UNCHANGED <<up, noisy, kind, exit, speaks, declared, late, fails, open, known,
                     expect, index, events, avail, asked, answer, stalled, verdict, steady>>
      /\ \A q \in Rows \ {r} : Same(q)
  BY <1>1, MovesRow
<1>3. WorldTypes' /\ CircuitTypes'
  BY <1>1, <1>2 DEF WorldTypes, CircuitTypes
<1>4. CheckTypes'
  <2>1. /\ pc' \in [Rows -> {"idle", "ask", "record"} \cup Rounds]
        /\ proto' \in [Rows -> {"socks5", "http"}] /\ attempt' \in [Rows -> 1 .. ATTEMPTS]
        /\ found' \in [Rows -> Ips \cup {None}]
    BY <1>1 DEF CheckTypes, Moves
  <2>2. got' \in [Rows -> [Hosts -> Answers \cup {None}]]
    BY <1>1 DEF CheckTypes, Moves
  <2>3. seen' \in [Rows -> SUBSET Failures] /\ exits' \in [Rows -> SUBSET Ips]
    BY <1>1 DEF CheckTypes, Moves
  <2>4. blocked' \in [Rows -> BOOLEAN] /\ over' \in [Rows -> BOOLEAN]
    BY <1>1 DEF CheckTypes, Moves
  <2> QED BY <1>1, <1>2, <2>1, <2>2, <2>3, <2>4 DEF CheckTypes
<1>5. ASSUME NEW q \in Rows \ {r} PROVE RowInv(q)'
  BY <1>2, SameKeeps DEF ProbeInv
<1> QED BY <1>3, <1>4, <1>5, TypeSplitPrimed DEF ProbeInv

\* A new round: nobody has been asked, so only the protocol, the exits, the
\* quorum before and the doubt are to be looked at.
LEMMA NewRound ==
    ASSUME ProbeInv, NEW r \in Rows, pc[r] \in Rounds, NEW how \in Rounds,
           NEW ip \in Ips \cup {None}, NEW p \in {"socks5", "http"}, NEW n \in 1 .. ATTEMPTS,
           NEW blk \in BOOLEAN, NEW o \in BOOLEAN, NEW es \in SUBSET Ips,
           Moves(r, how, Unasked, ip, p, n, seen[r], blk, o, es),
           exit[r] \in es, how = "insecure" => ip \in es \cup {None},
           p = proto[r] \/ HttpIsNext(r),
           DoubtRemains(r)'
    PROVE  ProbeInv'
<1>1. CheckTypes /\ RowInv(r)
  BY TypeSplit DEF ProbeInv
<1>2. /\ pc'[r] = how /\ got'[r] = Unasked /\ found'[r] = ip /\ proto'[r] = p /\ attempt'[r] = n
      /\ over'[r] = o /\ exits'[r] = es
      /\ UNCHANGED <<up, kind, exit, speaks, declared, known, avail, asked, answer, steady>>
  BY <1>1, MovesRow
<1>3. /\ RecordHasAnswer(r)' /\ Fresh(r)' /\ OneProtocol(r)' /\ SteadyWorks(r)' /\ ExitKept(r)'
      /\ HonestFound(r)'
  BY <1>1, <1>2 DEF RowInv, RecordHasAnswer, Fresh, OneProtocol, SteadyWorks, ExitKept, HonestFound,
     Rounds, HttpIsNext
<1>4. HonestAnswers(r)' /\ SteadyAnswers(r)'
  <2>1. \A u \in Hosts : got'[r][u] = None
    BY <1>2, UnaskedType
  <2>2. None \notin Ips /\ None \notin {"tls", "blocked"}
    BY ProbeAssumption DEF Failures
  <2> QED BY <2>1, <2>2 DEF HonestAnswers, SteadyAnswers, Hosts
<1>5. RowInv(r)'
  BY <1>3, <1>4 DEF RowInv
<1>6. Unasked \in [Hosts -> Answers \cup {None}] /\ seen[r] \in SUBSET Failures
  BY <1>1, UnaskedType DEF CheckTypes
<1> QED BY <1>5, <1>6, MovesInv

-----------------------------------------------------------------------------
\* Something was up all the time through which the proxy could be seen.
LEMMA WatchedSteady ==
    ASSUME TypeOK, NEW r \in Rows, Watched(r) PROVE steady[r] # {}
<1>1. CASE Cardinality((avail[r] \cap steady[r]) \ Liars) >= 2
  <2>1. (avail[r] \cap steady[r]) \ Liars # {}
    BY <1>1, FS_EmptySet
  <2> QED BY <2>1
<1>2. CASE Plain \subseteq steady[r] \ Liars
  BY <1>2 DEF Plain
<1> QED BY <1>1, <1>2 DEF Watched, Evident

\* A proxy that works shows no portal and no broken TLS.
LEMMA WatchedShows ==
    ASSUME ProbeInv, NEW r \in Rows, Watched(r), proto[r] = speaks[r]
    PROVE  ~ Shows(r, "blocked") /\ ~ Shows(r, "tls")
<1>1. steady[r] # {} /\ pc[r] \in Rounds /\ SteadyAnswers(r)
  BY WatchedSteady DEF ProbeInv, RowInv, Watched
<1> QED BY <1>1 DEF SteadyAnswers, Shows

\* Two honest hosts that were up all the time and have been asked are a
\* quorum, or leave a doubt.
LEMMA AskedLeaveDoubt ==
    ASSUME ProbeInv, NEW r \in Rows, Watched(r), proto[r] = speaks[r], Quorum(got[r]) = None,
           NEW x \in steady[r] \ Liars, NEW y \in steady[r] \ Liars, x # y,
           got[r][x] # None, got[r][y] # None
    PROVE  Doubt(r)
<1> SUFFICES ASSUME ~ Doubt(r) PROVE FALSE
  OBVIOUS
<1>1. /\ steady[r] # {} /\ pc[r] \in Rounds /\ SteadyAnswers(r) /\ steady[r] \in SUBSET Hosts
      /\ exit[r] \in Ips /\ got[r] \in [Hosts -> Answers \cup {None}]
  BY WatchedSteady DEF ProbeInv, RowInv, Watched, TypeOK
<1>2. /\ got[r][x] = exit[r] /\ got[r][y] = exit[r]
      /\ \A u \in Hosts \ Liars : got[r][u] \in Ips => got[r][u] = exit[r]
  BY <1>1 DEF SteadyAnswers
<1> QED BY <1>1, <1>2, HonestQuorum

\* A round over TLS that is through leaves one if two could be asked,
LEMMA TlsLeavesDoubt ==
    ASSUME ProbeInv, NEW r \in Rows, Watched(r), proto[r] = speaks[r], pc[r] = "tls",
           over[r] \/ Left(r) = {}, Quorum(got[r]) = None,
           Cardinality((avail[r] \cap steady[r]) \ Liars) >= 2
    PROVE  Doubt(r)
<1>1. CASE over[r]
  BY <1>1 DEF ProbeInv, RowInv, DoubtRemains
<1>2. CASE Left(r) = {}
  <2>1. (avail[r] \cap steady[r]) \ Liars \in SUBSET Hosts
    BY DEF ProbeInv, TypeOK
  <2>2. PICK x, y \in (avail[r] \cap steady[r]) \ Liars : x # y
    BY <2>1, TwoMembers
  <2>3. got[r][x] # None /\ got[r][y] # None
    BY <1>2, <2>2 DEF Left
  <2> QED BY <2>2, <2>3, AskedLeaveDoubt
<1> QED BY <1>1, <1>2

\* and a round over plain HTTP always does.
LEMMA PlainLeavesDoubt ==
    ASSUME ProbeInv, NEW r \in Rows, Watched(r), proto[r] = speaks[r], pc[r] = "plain",
           over[r] \/ Left(r) = {}, Quorum(got[r]) = None
    PROVE  Doubt(r)
<1> SUFFICES ASSUME ~ Doubt(r) PROVE FALSE
  OBVIOUS
<1>1. DoubtRemains(r)
  BY DEF ProbeInv, RowInv
<1>2. Left(r) = {} /\ Plain \subseteq steady[r] \ Liars
  BY <1>1 DEF DoubtRemains, Watched, Evident
<1>3. 1 \in steady[r] \ Liars /\ 2 \in steady[r] \ Liars /\ 1 # 2
  BY <1>2 DEF Plain
<1>4. got[r][1] # None /\ got[r][2] # None
  BY <1>2 DEF Left, Plain
<1> QED BY <1>3, <1>4, AskedLeaveDoubt

-----------------------------------------------------------------------------
\* The next host to be asked is one that is left.
LEMMA NextHostIn ==
    ASSUME TypeOK, NEW r \in Rows, Left(r) # {}
    PROVE  NextHost(r) \in Left(r) /\ NextHost(r) \in Hosts
<1>1. Left(r) \subseteq Hosts /\ Hosts \subseteq Nat
  <2>1. avail[r] \in SUBSET Hosts
    BY DEF TypeOK
  <2>2. Plain \subseteq Hosts
    BY ProbeAssumption DEF Plain, Hosts
  <2>3. Left(r) \subseteq avail[r] \cup Plain
    BY DEF Left
  <2>4. Hosts \subseteq Nat
    BY DEF Hosts
  <2> QED BY <2>1, <2>2, <2>3, <2>4
<1>2. \E u \in Left(r) : \A v \in Left(r) : u <= v
  BY <1>1, LeastNatural
<1>3. NextHost(r) \in Left(r)
  BY <1>2 DEF NextHost
<1> QED BY <1>1, <1>3

\* A call keeps the invariant.
LEMMA CallInv ==
    ASSUME ProbeInv, NEW r \in Rows, Call(r) PROVE ProbeInv'
<1>1. TypeOK /\ CheckTypes /\ RowInv(r) /\ pc[r] \in Rounds /\ ~over[r] /\ Left(r) # {}
  BY TypeSplit DEF ProbeInv, Call
<1> DEFINE u == NextHost(r)
<1>2. u \in Left(r) /\ u \in Hosts
  BY <1>1, NextHostIn
<1>3. PICK a \in OfProbe(r, proto[r], u, pc[r]) :
        /\ got' = [got EXCEPT ![r] = [@ EXCEPT ![u] = Kept(a)]]
        /\ seen' = [seen EXCEPT ![r] = @ \cup Evidence(a)]
  BY DEF Call
<1>4. PICK last \in BOOLEAN : (last => MayBeLast(r)) /\ over' = [over EXCEPT ![r] = last]
  BY DEF Call
<1> DEFINE g == [got[r] EXCEPT ![u] = Kept(a)]
           ev == seen[r] \cup Evidence(a)
<1> HIDE DEF u
<1>5. /\ a \in Answers
      /\ a \in Ips => a = exit[r] \/ u \in Liars
      /\ kind[r] = "works" /\ proto[r] = speaks[r] =>
           /\ a \notin {"tls", "blocked"}
           /\ u \in up \ Liars => a = exit[r] \/ a \in Noise
  BY <1>1, <1>2, ProbeAnswers
<1>6. /\ Kept(a) \in Answers /\ Kept(a) # None
      /\ Kept(a) \in Ips \cup {"tls", "blocked"} => Kept(a) = a
      /\ a \in Ips => Kept(a) = a
      /\ Evidence(a) \in SUBSET Failures
      /\ a \in Noise => "transient" \in Evidence(a)
  BY <1>5, KeptAndEvidence
<1>7. /\ g \in [Hosts -> Answers \cup {None}] /\ g[u] = Kept(a)
      /\ \A x \in Hosts \ {u} : g[x] = got[r][x]
  BY <1>1, <1>2, <1>6 DEF CheckTypes
<1>8. Moves(r, pc[r], g, found[r], proto[r], attempt[r], ev, blocked[r], last, exits[r])
  <2>1. got' = [got EXCEPT ![r] = g] /\ seen' = [seen EXCEPT ![r] = ev]
    BY <1>1, <1>3 DEF CheckTypes
  <2> HIDE DEF g, ev
  <2>2. UNCHANGED <<world, late, circuit, row, pc, fast, proto, attempt, found, blocked, stalled,
                    verdict, steady, exits, events>>
    BY DEF Call
  <2>3. /\ pc' = [pc EXCEPT ![r] = pc[r]] /\ found' = [found EXCEPT ![r] = found[r]]
        /\ proto' = [proto EXCEPT ![r] = proto[r]]
        /\ attempt' = [attempt EXCEPT ![r] = attempt[r]]
        /\ blocked' = [blocked EXCEPT ![r] = blocked[r]]
        /\ exits' = [exits EXCEPT ![r] = exits[r]]
    BY <1>1, <2>2 DEF CheckTypes
  <2> QED BY <1>4, <2>1, <2>2, <2>3 DEF Moves
<1> HIDE DEF g, ev
<1>9. /\ pc'[r] = pc[r] /\ got'[r] = g /\ found'[r] = found[r] /\ proto'[r] = proto[r]
      /\ attempt'[r] = attempt[r] /\ seen'[r] = ev /\ over'[r] = last /\ exits'[r] = exits[r]
      /\ UNCHANGED <<up, kind, exit, speaks, declared, known, avail, asked, answer, stalled, steady>>
  BY <1>1, <1>8, MovesRow
<1>10. Doubt(r) => Doubt(r)'
  BY <1>9 DEF Doubt, ev
<1>11. a \in Noise => Doubt(r)'
  <2>1. a \in Noise => "transient" \in ev
    BY <1>6 DEF ev
  <2> QED BY <1>9, <2>1 DEF Doubt
<1>12. /\ RecordHasAnswer(r)' /\ Fresh(r)' /\ OneProtocol(r)' /\ SteadyWorks(r)' /\ ExitKept(r)'
       /\ HonestFound(r)'
  BY <1>1, <1>9 DEF RowInv, RecordHasAnswer, Fresh, OneProtocol, SteadyWorks, ExitKept, HonestFound
<1>13. HonestAnswers(r)'
  <2> SUFFICES ASSUME NEW x \in Hosts \ Liars, g[x] \in Ips PROVE g[x] \in exits[r]
    BY <1>9 DEF HonestAnswers, Hosts
  <2>1. CASE x = u
    BY <1>1, <1>5, <1>6, <1>7, <2>1 DEF RowInv, ExitKept
  <2>2. CASE x # u
    BY <1>1, <1>7, <2>2 DEF RowInv, HonestAnswers
  <2> QED BY <2>1, <2>2
<1>14. SteadyAnswers(r)'
  <2> SUFFICES ASSUME steady[r] # {}, proto[r] = speaks[r], NEW x \in Hosts
               PROVE  /\ g[x] \notin {"tls", "blocked"}
                      /\ x \notin Liars /\ g[x] \in Ips => g[x] = exit[r]
                      /\ x \in steady[r] \ Liars => g[x] \in {None, exit[r]} \/ Doubt(r)'
    BY <1>9 DEF SteadyAnswers, Hosts
  <2>1. kind[r] = "works" /\ steady[r] \subseteq up
    BY <1>1 DEF RowInv, SteadyWorks
  <2>2. exit[r] \in Ips
    BY <1>1 DEF TypeOK
  <2>3. CASE x = u
    BY <1>5, <1>6, <1>7, <1>11, <2>1, <2>2, <2>3
  <2>4. CASE x # u
    BY <1>1, <1>7, <1>10, <2>4 DEF RowInv, SteadyAnswers
  <2> QED BY <2>3, <2>4
<1>15. DoubtRemains(r)'
  <2> SUFFICES ASSUME Watched(r)'
               PROVE  /\ proto[r] = speaks[r] =>
                            /\ pc[r] # "insecure"
                            /\ attempt[r] > 1 => Doubt(r)'
                            /\ pc[r] = "plain" /\ Cardinality((avail[r] \cap steady[r]) \ Liars) >= 2
                                  => Doubt(r)'
                            /\ last => Doubt(r)' \/ (pc[r] = "plain" /\ Left(r)' = {})
                      /\ proto[r] = "http" /\ speaks[r] = "socks5" => Doubt(r)'
    BY <1>9 DEF DoubtRemains
  <2>1. Watched(r)
    BY <1>9 DEF Watched, Tried, Evident
  <2>2. DoubtRemains(r)
    BY <1>1 DEF RowInv
  <2>3. ASSUME proto[r] = speaks[r], last PROVE Doubt(r)' \/ (pc[r] = "plain" /\ Left(r)' = {})
    <3>1. /\ ~stalled[r] /\ pc[r] # "insecure"
          /\ attempt[r] > 1 => Doubt(r)
      BY <2>1, <2>2, <2>3 DEF DoubtRemains, Watched
    <3>2. CASE attempt[r] > 1
      BY <1>10, <3>1, <3>2
    <3>3. CASE pc[r] = "plain" /\ "tls" \in seen[r]
      BY <1>10, <3>3 DEF Doubt
    <3>4. CASE pc[r] = "plain" /\ Left(r) = {u}
      <4>1. \A x \in Plain : got[r][x] = None => x = u
        BY <3>4 DEF Left
      <4>2. \A x \in Plain : g[x] # None
        <5>1. Plain \subseteq Hosts
          BY ProbeAssumption DEF Plain, Hosts
        <5> QED BY <1>6, <1>7, <4>1, <5>1
      <4> QED BY <1>9, <3>4, <4>2 DEF Left, Plain
    <3> QED BY <1>4, <2>3, <3>1, <3>2, <3>3, <3>4 DEF MayBeLast, u
  <2> QED BY <1>10, <2>1, <2>2, <2>3 DEF DoubtRemains
<1>16. RowInv(r)'
  BY <1>12, <1>13, <1>14, <1>15 DEF RowInv
<1>17. /\ found[r] \in Ips \cup {None} /\ proto[r] \in {"socks5", "http"}
       /\ attempt[r] \in 1 .. ATTEMPTS /\ blocked[r] \in BOOLEAN /\ exits[r] \in SUBSET Ips
       /\ ev \in SUBSET Failures
  BY <1>1, <1>6 DEF CheckTypes, ev
<1> QED BY <1>1, <1>7, <1>8, <1>16, <1>17, MovesInv

-----------------------------------------------------------------------------
\* A final verdict is "dead" only if nothing but the proxy has failed.
LEMMA FinalType ==
    ASSUME NEW ev, NEW blk \in BOOLEAN
    PROVE  /\ [NoVerdict EXCEPT !.status = Final(ev, blk)] \in Verdict
           /\ ~ [NoVerdict EXCEPT !.status = Final(ev, blk)].trusted
           /\ [NoVerdict EXCEPT !.status = Final(ev, blk)].status = "dead" => ~blk /\ ev = {"proxy"}
<1>1. Final(ev, blk) \in {"blocked", "dead", "inconclusive"}
  BY DEF Final
<1>2. Final(ev, blk) = "dead" => ~blk /\ ev = {"proxy"}
  BY DEF Final
<1> QED BY <1>1, <1>2 DEF NoVerdict, Verdict

\* The strong check ends.
LEMMA ConcludesInv ==
    ASSUME ProbeInv, NEW r \in Rows, NEW v \in Verdict, Concludes(r, v),
           UNCHANGED <<world, late, circuit, events>>
    PROVE  ProbeInv'
<1>1. CheckTypes /\ WorldTypes /\ CircuitTypes
  BY TypeSplit DEF ProbeInv
<1>2. Ends(r, v)
  BY DEF Concludes
<1>3. WorldTypes' /\ CircuitTypes' /\ UNCHANGED world
  BY <1>1 DEF WorldTypes, CircuitTypes, world, circuit
<1>4. known' \in [Rows -> BOOLEAN] /\ \A q \in Rows \ {r} : known'[q] = known[q]
  BY <1>1 DEF Concludes, CheckTypes
<1>5. expect' \in [Rows -> Ips \cup {None}]
  BY <1>1 DEF Concludes, CheckTypes, Verdict
<1>6. index' \in [Rows -> Hosts]
  <2>1. 1 \in Hosts
    BY ProbeAssumption DEF Hosts
  <2> QED BY <1>1, <2>1 DEF Concludes, CheckTypes
<1> QED BY <1>2, <1>3, <1>4, <1>5, <1>6, EndsInv

\* Another attempt begins.
LEMMA AttemptsInv ==
    ASSUME ProbeInv, NEW r \in Rows, pc[r] \in Rounds, NEW p \in {"socks5", "http"},
           NEW n \in 1 .. ATTEMPTS, NEW blk \in BOOLEAN,
           Attempts(r, p, n), blocked' = [blocked EXCEPT ![r] = blk],
           UNCHANGED <<world, late, circuit, events>>,
           p = proto[r] \/ (HttpIsNext(r) /\ p = "http" /\ n = 1),
           Watched(r) /\ proto[r] = speaks[r] => Doubt(r)
    PROVE  ProbeInv'
<1>1. CheckTypes /\ WorldTypes /\ DoubtRemains(r)
  BY TypeSplit DEF ProbeInv, RowInv
<1> PICK no \in BOOLEAN : no = FALSE
  OBVIOUS
<1>2. Moves(r, "tls", Unasked, None, p, n, seen[r], blk, no, {exit[r]})
  <2>1. seen' = [seen EXCEPT ![r] = seen[r]]
    BY <1>1 DEF CheckTypes, Attempts
  <2> QED BY <2>1 DEF Moves, Attempts, Turns
<1>3. /\ pc'[r] = "tls" /\ proto'[r] = p /\ attempt'[r] = n /\ seen'[r] = seen[r] /\ ~over'[r]
      /\ UNCHANGED <<speaks, declared, known, avail, stalled, steady>>
  BY <1>1, <1>2, MovesRow
<1>4. DoubtRemains(r)'
  <2> SUFFICES ASSUME Watched(r)'
               PROVE  /\ p = speaks[r] /\ n > 1 => Doubt(r)
                      /\ p = "http" /\ speaks[r] = "socks5" => Doubt(r)
    BY <1>3 DEF DoubtRemains, Doubt
  <2>1. Watched(r)
    BY <1>3 DEF Watched, Tried, Evident
  <2> QED BY <1>1, <2>1 DEF DoubtRemains, HttpIsNext
<1>5. /\ "tls" \in Rounds /\ "tls" # "insecure" /\ {exit[r]} \in SUBSET Ips /\ exit[r] \in {exit[r]}
      /\ None \in Ips \cup {None}
  BY <1>1 DEF Rounds, WorldTypes
<1> QED BY <1>2, <1>4, <1>5, NewRound

\* The protocol is through.
LEMMA ExhaustedInv ==
    ASSUME ProbeInv, NEW r \in Rows, pc[r] \in Rounds, NEW blk \in BOOLEAN, Exhausted(r, blk),
           UNCHANGED <<world, late, circuit, events>>,
           Watched(r) /\ proto[r] = speaks[r] => Doubt(r)
    PROVE  ProbeInv'
<1>1. CASE /\ HttpIsNext(r) /\ Attempts(r, "http", 1)
           /\ blocked' = [blocked EXCEPT ![r] = blk]
  <2>1. 1 \in 1 .. ATTEMPTS
    BY ProbeAssumption
  <2> QED BY <1>1, <2>1, AttemptsInv
<1>2. CASE Concludes(r, [NoVerdict EXCEPT !.status = Final(seen[r], blk)])
  <2>1. [NoVerdict EXCEPT !.status = Final(seen[r], blk)] \in Verdict
    BY FinalType
  <2> QED BY <1>2, <2>1, ConcludesInv
<1> QED BY <1>1, <1>2 DEF Exhausted

\* The next round of the attempt begins.
LEMMA TurnsInv ==
    ASSUME ProbeInv, NEW r \in Rows, pc[r] \in Rounds, NEW how \in {"insecure", "plain"},
           NEW ip \in Ips \cup {None}, Turns(r, how, ip),
           UNCHANGED <<world, late, circuit, events>>,
           UNCHANGED <<fast, proto, attempt, seen, blocked, over, stalled, verdict, steady, exits, row>>,
           how = "insecure" => ip \in exits[r] \cup {None},
           Watched(r) /\ proto[r] = speaks[r] =>
              /\ how = "plain" /\ pc[r] = "tls"
              /\ Cardinality((avail[r] \cap steady[r]) \ Liars) >= 2 => Doubt(r)
    PROVE  ProbeInv'
<1>1. CheckTypes /\ DoubtRemains(r) /\ ExitKept(r)
  BY TypeSplit DEF ProbeInv, RowInv
<1>2. Moves(r, how, Unasked, ip, proto[r], attempt[r], seen[r], blocked[r], over[r], exits[r])
  <2>1. /\ seen' = [seen EXCEPT ![r] = seen[r]] /\ proto' = [proto EXCEPT ![r] = proto[r]]
        /\ attempt' = [attempt EXCEPT ![r] = attempt[r]]
        /\ blocked' = [blocked EXCEPT ![r] = blocked[r]]
        /\ over' = [over EXCEPT ![r] = over[r]] /\ exits' = [exits EXCEPT ![r] = exits[r]]
    BY <1>1 DEF CheckTypes
  <2> QED BY <2>1 DEF Moves, Turns
<1>3. /\ pc'[r] = how /\ proto'[r] = proto[r] /\ attempt'[r] = attempt[r] /\ seen'[r] = seen[r]
      /\ over'[r] = over[r]
      /\ UNCHANGED <<speaks, declared, known, avail, stalled, steady>>
  BY <1>1, <1>2, MovesRow
<1>4. DoubtRemains(r)'
  <2> SUFFICES ASSUME Watched(r)'
               PROVE  /\ proto[r] = speaks[r] =>
                            /\ how # "insecure"
                            /\ attempt[r] > 1 => Doubt(r)
                            /\ Cardinality((avail[r] \cap steady[r]) \ Liars) >= 2 => Doubt(r)
                            /\ over[r] => Doubt(r)
                      /\ proto[r] = "http" /\ speaks[r] = "socks5" => Doubt(r)
    BY <1>3 DEF DoubtRemains, Doubt
  <2>1. Watched(r)
    BY <1>3 DEF Watched, Tried, Evident
  <2> QED BY <1>1, <2>1 DEF DoubtRemains
<1>5. /\ how \in Rounds /\ proto[r] \in {"socks5", "http"} /\ attempt[r] \in 1 .. ATTEMPTS
      /\ blocked[r] \in BOOLEAN /\ over[r] \in BOOLEAN /\ exits[r] \in SUBSET Ips
      /\ exit[r] \in exits[r]
  BY <1>1 DEF Rounds, CheckTypes, ExitKept
<1> QED BY <1>2, <1>4, <1>5, NewRound

\* The rounds of a strong check end so that the invariant is kept.
LEMMA RoundEndsInv ==
    ASSUME ProbeInv, NEW r \in Rows,
           PortalEnds(r) \/ TlsEnds(r) \/ InsecureEnds(r) \/ PlainEnds(r)
    PROVE  ProbeInv'
<1> DEFINE q == Quorum(got[r])
           two == Cardinality((avail[r] \cap steady[r]) \ Liars) >= 2
<1>1. /\ CheckTypes /\ TypeOK /\ RowInv(r) /\ pc[r] \in Rounds
      /\ over[r] \/ Left(r) = {}
      /\ UNCHANGED <<world, late, circuit, events>>
  BY TypeSplit DEF ProbeInv, PortalEnds, TlsEnds, InsecureEnds, PlainEnds, RoundEnds
<1>2. q \in Ips \cup {None} /\ found[r] \in Ips \cup {None} /\ (q # None => q \in exits[r])
  <2>1. q \in Ips \cup {None}
    BY QuorumSays
  <2>2. found[r] \in Ips \cup {None} /\ got[r] \in [Hosts -> Answers \cup {None}]
    BY <1>1 DEF CheckTypes
  <2>3. \A u \in Hosts \ Liars : got[r][u] \in Ips => got[r][u] \in exits[r]
    BY <1>1 DEF RowInv, HonestAnswers
  <2> QED BY <2>1, <2>2, <2>3, TruthfulQuorum
<1>3. ASSUME NEW ip \in Ips \cup {None}
      PROVE  Trusted(ip) \in Verdict /\ Untrusted(ip) \in Verdict
  BY DEF Trusted, Untrusted, Verdict
<1>4. Watched(r) /\ proto[r] = speaks[r] =>
         /\ ~Shows(r, "blocked") /\ ~Shows(r, "tls")
         /\ pc[r] # "insecure"
         /\ pc[r] = "plain" /\ q = None => Doubt(r)
         /\ pc[r] = "tls" /\ q = None /\ two => Doubt(r)
  <2> SUFFICES ASSUME Watched(r), proto[r] = speaks[r]
               PROVE  /\ ~Shows(r, "blocked") /\ ~Shows(r, "tls")
                      /\ pc[r] # "insecure"
                      /\ pc[r] = "plain" /\ q = None => Doubt(r)
                      /\ pc[r] = "tls" /\ q = None /\ two => Doubt(r)
    OBVIOUS
  <2>1. ~Shows(r, "blocked") /\ ~Shows(r, "tls")
    BY WatchedShows
  <2>2. pc[r] # "insecure"
    BY <1>1 DEF RowInv, DoubtRemains
  <2>3. pc[r] = "plain" /\ q = None => Doubt(r)
    BY <1>1, PlainLeavesDoubt
  <2>4. pc[r] = "tls" /\ q = None /\ two => Doubt(r)
    BY <1>1, TlsLeavesDoubt
  <2> QED BY <2>1, <2>2, <2>3, <2>4
<1> HIDE DEF q, two
<1>5. CASE PortalEnds(r)
  <2>1. Shows(r, "blocked") /\ Exhausted(r, TRUE)
    BY <1>5 DEF PortalEnds
  <2>2. PICK yes \in BOOLEAN : yes = TRUE
    OBVIOUS
  <2>3. Exhausted(r, yes)
    BY <2>1, <2>2
  <2> QED BY <1>1, <1>4, <2>1, <2>3, ExhaustedInv
<1>6. CASE TlsEnds(r)
  <2>1. /\ pc[r] = "tls"
        /\ \/ Shows(r, "tls") /\ Turns(r, "insecure", q)
           \/ q # None /\ Concludes(r, Trusted(q))
           \/ q = None /\ Turns(r, "plain", None)
        /\ \/ Concludes(r, Trusted(q))
           \/ UNCHANGED <<fast, proto, attempt, seen, blocked, over, stalled, verdict, steady,
                          exits, row>>
    BY <1>6 DEF TlsEnds, q
  <2>2. CASE Concludes(r, Trusted(q))
    BY <1>1, <1>2, <1>3, <2>2, ConcludesInv
  <2>3. CASE /\ Shows(r, "tls") /\ Turns(r, "insecure", q)
             /\ UNCHANGED <<fast, proto, attempt, seen, blocked, over, stalled, verdict, steady,
                            exits, row>>
    <3>1. ~(Watched(r) /\ proto[r] = speaks[r]) /\ q \in exits[r] \cup {None}
      BY <1>2, <1>4, <2>3
    <3> QED BY <1>1, <1>2, <2>3, <3>1, TurnsInv
  <2>4. CASE /\ q = None /\ Turns(r, "plain", None)
             /\ UNCHANGED <<fast, proto, attempt, seen, blocked, over, stalled, verdict, steady,
                            exits, row>>
    <3>1. Watched(r) /\ proto[r] = speaks[r] =>
            (Cardinality((avail[r] \cap steady[r]) \ Liars) >= 2 => Doubt(r))
      BY <1>4, <2>1, <2>4 DEF two
    <3>2. None \in Ips \cup {None}
      OBVIOUS
    <3> QED BY <1>1, <2>1, <2>4, <3>1, <3>2, TurnsInv
  <2> QED BY <2>1, <2>2, <2>3, <2>4
<1>7. CASE InsecureEnds(r)
  <2>1. /\ pc[r] = "insecure"
        /\ \/ Concludes(r, Trusted(found[r]))
           \/ /\ Turns(r, "plain", q)
              /\ UNCHANGED <<fast, proto, attempt, seen, blocked, over, stalled, verdict, steady,
                             exits, row>>
    BY <1>7 DEF InsecureEnds, q
  <2>2. CASE Concludes(r, Trusted(found[r]))
    BY <1>1, <1>2, <1>3, <2>2, ConcludesInv
  <2>3. CASE /\ Turns(r, "plain", q)
             /\ UNCHANGED <<fast, proto, attempt, seen, blocked, over, stalled, verdict, steady,
                            exits, row>>
    <3>1. ~(Watched(r) /\ proto[r] = speaks[r])
      BY <1>4, <2>1
    <3> QED BY <1>1, <1>2, <2>3, <3>1, TurnsInv
  <2> QED BY <2>1, <2>2, <2>3
<1>8. CASE PlainEnds(r)
  <2> DEFINE ip == IF found[r] # None THEN found[r] ELSE q
  <2>1. /\ pc[r] = "plain"
        /\ \/ Concludes(r, Untrusted(ip))
           \/ /\ q = None /\ attempt[r] < ATTEMPTS
              /\ Attempts(r, proto[r], attempt[r] + 1) /\ UNCHANGED blocked
           \/ q = None /\ Exhausted(r, blocked[r])
    BY <1>8 DEF PlainEnds, q
  <2>2. ip \in Ips \cup {None}
    BY <1>2
  <2> HIDE DEF ip
  <2>3. CASE Concludes(r, Untrusted(ip))
    BY <1>1, <1>3, <2>2, <2>3, ConcludesInv
  <2>4. blocked[r] \in BOOLEAN /\ proto[r] \in {"socks5", "http"}
    BY <1>1 DEF CheckTypes
  <2>5. CASE /\ q = None /\ attempt[r] < ATTEMPTS
             /\ Attempts(r, proto[r], attempt[r] + 1) /\ UNCHANGED blocked
    <3>1. attempt[r] + 1 \in 1 .. ATTEMPTS
      BY <1>1, <2>5, ProbeAssumption DEF CheckTypes
    <3>2. blocked' = [blocked EXCEPT ![r] = blocked[r]]
      BY <1>1, <2>5 DEF CheckTypes
    <3>3. Watched(r) /\ proto[r] = speaks[r] => Doubt(r)
      BY <1>4, <2>1, <2>5
    <3> QED BY <1>1, <2>4, <2>5, <3>1, <3>2, <3>3, AttemptsInv
  <2>6. CASE q = None /\ Exhausted(r, blocked[r])
    <3>1. Watched(r) /\ proto[r] = speaks[r] => Doubt(r)
      BY <1>4, <2>1, <2>6
    <3> QED BY <1>1, <2>4, <2>6, <3>1, ExhaustedInv
  <2> QED BY <2>1, <2>3, <2>5, <2>6
<1> QED BY <1>5, <1>6, <1>7, <1>8

-----------------------------------------------------------------------------
\* The first candidate in turn exists, and is available.
LEMMA FirstCandidateIn ==
    ASSUME TypeOK, NEW r \in Rows, avail[r] # {}
    PROVE  FirstCandidate(r) \in avail[r]
<1>1. avail[r] \subseteq Hosts /\ index[r] \in Hosts
  BY DEF TypeOK
<1>2. \A u \in avail[r] : Turn(r, u) \in Nat
  BY <1>1, ProbeAssumption DEF Turn, Hosts
<1> DEFINE T == {Turn(r, u) : u \in avail[r]}
<1>3. T \in SUBSET Nat /\ T # {}
  BY <1>2
<1>4. PICK m \in T : \A n \in T : m <= n
  <2> HIDE DEF T
  <2> QED BY <1>3, LeastNatural
<1>5. PICK u \in avail[r] : m = Turn(r, u)
  OBVIOUS
<1>6. \A v \in avail[r] : Turn(r, u) <= Turn(r, v)
  BY <1>4, <1>5
<1> QED BY <1>6 DEF FirstCandidate

\* The rotation stays among the hosts.
LEMMA AfterType == ASSUME NEW u \in Hosts PROVE After(u) \in Hosts
BY ProbeAssumption DEF After, Hosts

\* The start of a fast check, and its question, keep the invariant.
LEMMA FastInv ==
    ASSUME ProbeInv, NEW r \in Rows, BeginFast(r) \/ Ask(r) \/ AskNobody(r)
    PROVE  ProbeInv'
<1>1. CheckTypes /\ WorldTypes /\ CircuitTypes /\ TypeOK /\ RowInv(r)
  BY TypeSplit DEF ProbeInv
<1> USE DEF world, circuit, row, strong
<1>2. CASE BeginFast(r)
  <2>1. /\ pc[r] = "idle"
        /\ avail' = [avail EXCEPT ![r] = Hosts \ Unavailable]
        /\ pc' = [pc EXCEPT ![r] = "ask"]
        /\ verdict' = [verdict EXCEPT ![r] = NoVerdict]
        /\ UNCHANGED <<world, late, row, asked, answer, strong, events>>
    BY <1>2 DEF BeginFast
  <2>2. CircuitTypes' /\ WorldTypes'
    BY <1>1, <1>2, <2>1, ForgetType DEF BeginFast, WorldTypes
  <2>3. CheckTypes'
    <3>1. NoVerdict \in Verdict
      BY DEF NoVerdict, Verdict
    <3>2. /\ pc' \in [Rows -> {"idle", "ask", "record"} \cup Rounds]
          /\ avail' \in [Rows -> SUBSET Hosts] /\ verdict' \in [Rows -> Verdict]
      BY <1>1, <2>1, <3>1 DEF CheckTypes
    <3> QED BY <1>1, <2>1, <3>2 DEF CheckTypes
  <2>4. ASSUME NEW q \in Rows \ {r} PROVE RowInv(q)'
    <3>1. Same(q)
      BY <1>1, <2>1 DEF CheckTypes, Same
    <3> QED BY <2>1, <3>1, SameKeeps DEF ProbeInv
  <2>5. RowInv(r)'
    <3>1. pc'[r] = "ask" /\ pc[r] \notin Rounds /\ pc'[r] \notin Rounds /\ pc'[r] # "record"
      BY <1>1, <2>1 DEF CheckTypes, Rounds
    <3>2. Fresh(r)' /\ SteadyWorks(r)' /\ RecordHasAnswer(r)'
      BY <1>1, <2>1, <3>1 DEF RowInv, Fresh, SteadyWorks, RecordHasAnswer, Unasked
    <3> QED BY <3>1, <3>2, NoRound
  <2> QED BY <2>2, <2>3, <2>4, <2>5, TypeSplitPrimed DEF ProbeInv
<1>3. CASE Ask(r)
  <2> DEFINE c == FirstCandidate(r)
  <2>1. /\ pc[r] = "ask" /\ avail[r] # {}
        /\ asked' = [asked EXCEPT ![r] = c]
        /\ pc' = [pc EXCEPT ![r] = "record"]
        /\ UNCHANGED <<world, late, circuit, row, avail, strong, verdict, events>>
    BY <1>3 DEF Ask
  <2>2. c \in Hosts
    BY <1>1, <2>1, FirstCandidateIn DEF CheckTypes
  <2>3. PICK a \in OfProbe(r, speaks[r], c, "tls") : answer' = [answer EXCEPT ![r] = a]
    BY <1>3 DEF Ask
  <2> HIDE DEF c
  <2>4. a \in Answers
    BY <1>1, <2>2, ProbeAnswers
  <2>5. CircuitTypes' /\ WorldTypes'
    BY <1>1, <2>1 DEF CircuitTypes, WorldTypes
  <2>6. CheckTypes'
    <3>1. /\ pc' \in [Rows -> {"idle", "ask", "record"} \cup Rounds]
          /\ asked' \in [Rows -> Hosts \cup {None}]
          /\ answer' \in [Rows -> Answers \cup {None}]
      BY <1>1, <2>1, <2>2, <2>3, <2>4 DEF CheckTypes
    <3> QED BY <1>1, <2>1, <3>1 DEF CheckTypes
  <2>7. ASSUME NEW q \in Rows \ {r} PROVE RowInv(q)'
    <3>1. Same(q)
      BY <1>1, <2>1, <2>3 DEF CheckTypes, Same
    <3> QED BY <2>1, <3>1, SameKeeps DEF ProbeInv
  <2>8. RowInv(r)'
    <3>1. /\ pc'[r] = "record" /\ asked'[r] = c /\ answer'[r] = a
          /\ pc[r] \notin Rounds /\ pc'[r] \notin Rounds
      BY <1>1, <2>1, <2>3 DEF CheckTypes, Rounds
    <3>2. Fresh(r)' /\ SteadyWorks(r)'
      BY <1>1, <2>1, <3>1 DEF RowInv, Fresh, SteadyWorks, Unasked
    <3>3. RecordHasAnswer(r)'
      BY <2>2, <2>4, <3>1 DEF RecordHasAnswer, Hosts, Answers, Failures
    <3> QED BY <3>1, <3>2, <3>3, NoRound
  <2> QED BY <2>5, <2>6, <2>7, <2>8, TypeSplitPrimed DEF ProbeInv
<1>4. CASE AskNobody(r)
  <2>1. /\ index' = [index EXCEPT ![r] = After(@)]
        /\ Ends(r, Inconclusive)
        /\ UNCHANGED <<world, late, circuit, known, expect, events>>
    BY <1>4 DEF AskNobody
  <2>2. index' \in [Rows -> Hosts]
    BY <1>1, <2>1, AfterType DEF CheckTypes
  <2>3. Inconclusive \in Verdict
    BY DEF Inconclusive, NoVerdict, Verdict
  <2>4. CircuitTypes' /\ WorldTypes'
    BY <1>1, <2>1 DEF CircuitTypes, WorldTypes
  <2>5. known' \in [Rows -> BOOLEAN] /\ expect' \in [Rows -> Ips \cup {None}]
    BY <1>1, <2>1 DEF CheckTypes
  <2> QED BY <2>1, <2>2, <2>3, <2>4, <2>5, EndsInv
<1> QED BY <1>2, <1>3, <1>4

\* The answer of a fast check keeps the invariant.
LEMMA RecordInv ==
    ASSUME ProbeInv, NEW r \in Rows, Record(r)
    PROVE  ProbeInv'
<1>1. CheckTypes /\ WorldTypes /\ CircuitTypes /\ TypeOK /\ RowInv(r)
  BY TypeSplit DEF ProbeInv
<1> DEFINE a == answer[r]
           live == a \in Ips /\ expect[r] \in {None, a}
           failed == a \in {"endpoint", "noip"}
           v == IF live THEN [NoVerdict EXCEPT !.status = "live", !.exit = a] ELSE Inconclusive
           b == [NoVerdict EXCEPT !.status = "blocked"]
<1>2. /\ pc[r] = "record"
      /\ \/ /\ RecordEndpoint(asked[r], failed, live)
            /\ index' = [index EXCEPT ![r] = After(asked[r])]
            /\ Ends(r, v)
         \/ /\ Ends(r, b)
            /\ UNCHANGED <<circuit, index>>
         \/ /\ Confirms(r)
            /\ UNCHANGED <<index, verdict>>
      /\ UNCHANGED <<world, late, known, expect, events>>
  BY DEF Record
<1>3. CASE Confirms(r) /\ UNCHANGED <<index, verdict>>
  <2>1. pc[r] \notin Rounds /\ UNCHANGED row /\ verdict' \in [Rows -> Verdict]
    BY <1>1, <1>2, <1>3 DEF Rounds, row, CheckTypes
  <2> QED BY <1>2, <1>3, <2>1, ConfirmsInv
<1>4. asked[r] \in Hosts
  BY <1>1, <1>2 DEF RowInv, RecordHasAnswer
<1>5. v \in Verdict /\ b \in Verdict
  BY DEF Inconclusive, NoVerdict, Verdict
<1>6. live \in BOOLEAN /\ failed \in BOOLEAN
  OBVIOUS
<1>7. /\ WorldTypes' /\ UNCHANGED world /\ UNCHANGED known
      /\ known' \in [Rows -> BOOLEAN] /\ expect' \in [Rows -> Ips \cup {None}]
  BY <1>1, <1>2 DEF WorldTypes, CheckTypes, world
<1> HIDE DEF a, live, failed, v, b
<1>8. CASE /\ RecordEndpoint(asked[r], failed, live) /\ Ends(r, v)
           /\ index' = [index EXCEPT ![r] = After(asked[r])]
  <2>1. CircuitTypes'
    BY <1>1, <1>4, <1>6, <1>8, RecordEndpointType
  <2>2. index' \in [Rows -> Hosts]
    BY <1>1, <1>4, <1>8, AfterType DEF CheckTypes
  <2> QED BY <1>5, <1>7, <1>8, <2>1, <2>2, EndsInv
<1>9. CASE Ends(r, b) /\ UNCHANGED <<circuit, index>>
  <2>1. CircuitTypes' /\ index' \in [Rows -> Hosts]
    BY <1>1, <1>9 DEF CircuitTypes, circuit, CheckTypes
  <2> QED BY <1>5, <1>7, <1>9, <2>1, EndsInv
<1> QED BY <1>2, <1>3, <1>8, <1>9

-----------------------------------------------------------------------------
\* What leaves hosts, proxies and checks alone keeps the invariant,
LEMMA OutsideInv ==
    ASSUME ProbeInv, WorldTypes', CircuitTypes',
           UNCHANGED <<up, kind, exit, speaks, declared, row, check>>
    PROVE  ProbeInv'
<1> USE DEF row, check, fast, strong
<1>1. CheckTypes'
  BY TypeSplit DEF ProbeInv, CheckTypes
<1>2. ASSUME NEW q \in Rows PROVE RowInv(q)'
  <2>1. Same(q)
    BY DEF Same
  <2> QED BY <2>1, SameKeeps DEF ProbeInv
<1> QED BY <1>1, <1>2, TypeSplitPrimed DEF ProbeInv

\* and so does a host that goes down, which is steady no longer, or returns,
LEMMA HostInv ==
    ASSUME ProbeInv, NEW u \in Hosts, HostChanges(u)
    PROVE  ProbeInv'
<1>1. CheckTypes /\ WorldTypes /\ CircuitTypes /\ TypeOK
  BY TypeSplit DEF ProbeInv
<1>2. /\ steady' = [r \in Rows |-> steady[r] \ {u}]
      /\ up' = up \ {u} \/ up' = up \cup {u}
      /\ UNCHANGED <<noisy, kind, exit, speaks, declared, fails, open, late, known, expect, index,
                     pc, avail, asked, answer, proto, attempt, got, found, seen, blocked, over,
                     stalled, verdict, exits>>
  BY DEF HostChanges, circuit, row, fast
<1>3. WorldTypes' /\ CircuitTypes'
  <2>1. events' \in 0 .. MaxEvents
    BY <1>1, EventType DEF HostChanges, WorldTypes
  <2> QED BY <1>1, <1>2, <2>1 DEF WorldTypes, CircuitTypes
<1>4. CheckTypes'
  BY <1>1, <1>2 DEF CheckTypes
<1>5. ASSUME NEW r \in Rows PROVE RowInv(r)'
  <2>1. RowInv(r) /\ steady'[r] = steady[r] \ {u} /\ steady[r] \in SUBSET Hosts
    BY <1>1, <1>2 DEF ProbeInv, CheckTypes
  <2>2. /\ RecordHasAnswer(r)' /\ Fresh(r)' /\ OneProtocol(r)' /\ ExitKept(r)'
        /\ HonestAnswers(r)' /\ HonestFound(r)'
    BY <1>2, <2>1 DEF RowInv, RecordHasAnswer, Fresh, OneProtocol, ExitKept, HonestAnswers,
       HonestFound
  <2>3. SteadyWorks(r)'
    BY <1>2, <2>1 DEF RowInv, SteadyWorks
  <2>4. Left(r)' = Left(r) /\ Doubt(r)' = Doubt(r)
    BY <1>2 DEF Left, Doubt
  <2>5. SteadyAnswers(r)'
    BY <1>2, <2>1, <2>4 DEF RowInv, SteadyAnswers
  <2>6. DoubtRemains(r)'
    <3> DEFINE G == (avail[r] \cap steady'[r]) \ Liars
               H == (avail[r] \cap steady[r]) \ Liars
    <3>1. Cardinality(G) >= 2 => Cardinality(H) >= 2
      <4>1. H \in SUBSET Hosts /\ G \in SUBSET H
        BY <2>1
      <4> HIDE DEF G, H
      <4>2. Cardinality(G) <= Cardinality(H)
        BY <4>1, SmallerCount
      <4>3. Cardinality(G) \in Nat /\ Cardinality(H) \in Nat
        BY <4>1, HostsFinite
      <4> QED BY <4>2, <4>3
    <3>2. Watched(r)' => Watched(r)
      BY <1>2, <2>1, <3>1 DEF Watched, Tried, Evident
    <3> QED BY <1>2, <2>1, <2>4, <3>1, <3>2 DEF RowInv, DoubtRemains
  <2> QED BY <2>2, <2>3, <2>5, <2>6 DEF RowInv
<1> QED BY <1>3, <1>4, <1>5, TypeSplitPrimed DEF ProbeInv

\* a proxy that changes, through which no host is steady then,
LEMMA ProxyInv ==
    ASSUME ProbeInv, NEW r \in Rows, NEW ip \in Ips,
           NEW k \in {"works", "down", "intercepts", "captive"}, ProxyChanges(r, k, ip)
    PROVE  ProbeInv'
<1>1. CheckTypes /\ WorldTypes /\ CircuitTypes /\ TypeOK
  BY TypeSplit DEF ProbeInv
<1> DEFINE es == IF pc[r] \in Rounds THEN exits[r] \cup {ip} ELSE exits[r]
<1>2. /\ kind' = [kind EXCEPT ![r] = k]
      /\ exit' = [exit EXCEPT ![r] = ip]
      /\ steady' = [steady EXCEPT ![r] = {}]
      /\ exits' = [exits EXCEPT ![r] = es]
      /\ UNCHANGED <<up, noisy, speaks, declared, fails, open, late, known, expect, index,
                     pc, avail, asked, answer, proto, attempt, got, found, seen, blocked, over,
                     stalled, verdict>>
  BY <1>1 DEF ProxyChanges, circuit, row, fast, CheckTypes
<1>3. WorldTypes' /\ CircuitTypes'
  <2>1. events' \in 0 .. MaxEvents
    BY <1>1, EventType DEF ProxyChanges, WorldTypes
  <2> QED BY <1>1, <1>2, <2>1 DEF WorldTypes, CircuitTypes
<1>4. CheckTypes'
  <2>1. es \in SUBSET Ips
    BY <1>1 DEF CheckTypes
  <2> HIDE DEF es
  <2> QED BY <1>1, <1>2, <2>1 DEF CheckTypes
<1>5. ASSUME NEW q \in Rows \ {r} PROVE RowInv(q)'
  <2>1. Same(q)
    BY <1>1, <1>2 DEF Same, CheckTypes, WorldTypes
  <2> QED BY <1>2, <2>1, SameKeeps DEF ProbeInv
<1>6. RowInv(r)'
  <2>1. RowInv(r) /\ steady'[r] = {} /\ exit'[r] = ip /\ exits'[r] = es
    BY <1>1, <1>2 DEF ProbeInv, CheckTypes, WorldTypes
  <2>2. pc[r] \in Rounds => ip \in es /\ exits[r] \subseteq es
    OBVIOUS
  <2>3. pc[r] = "insecure" => pc[r] \in Rounds
    BY DEF Rounds
  <2> HIDE DEF es
  <2>4. /\ RecordHasAnswer(r)' /\ Fresh(r)' /\ OneProtocol(r)' /\ SteadyWorks(r)' /\ ExitKept(r)'
        /\ HonestAnswers(r)' /\ HonestFound(r)' /\ SteadyAnswers(r)'
    BY <1>2, <2>1, <2>2, <2>3 DEF RowInv, RecordHasAnswer, Fresh, OneProtocol, SteadyWorks, ExitKept,
       HonestAnswers, HonestFound, SteadyAnswers
  <2>5. ~Watched(r)'
    <3>1. (avail'[r] \cap steady'[r]) \ Liars = {} /\ ~ (Plain \subseteq steady'[r] \ Liars)
      BY <2>1 DEF Plain
    <3>2. Cardinality((avail'[r] \cap steady'[r]) \ Liars) = 0
      BY <3>1, FS_EmptySet
    <3> QED BY <3>1, <3>2 DEF Watched, Evident
  <2> QED BY <2>4, <2>5 DEF RowInv, DoubtRemains
<1> QED BY <1>3, <1>4, <1>5, <1>6, TypeSplitPrimed DEF ProbeInv

\* and a stall, after which the check is watched no longer.
LEMMA StallInv ==
    ASSUME ProbeInv, NEW r \in Rows, Stall(r)
    PROVE  ProbeInv'
<1>1. CheckTypes /\ WorldTypes /\ CircuitTypes
  BY TypeSplit DEF ProbeInv
<1>2. PICK yes \in BOOLEAN : yes = TRUE
  OBVIOUS
<1>3. /\ stalled' = [stalled EXCEPT ![r] = yes]
      /\ UNCHANGED <<up, noisy, kind, exit, speaks, declared, fails, open, late, known, expect,
                     index, pc, avail, asked, answer, proto, attempt, got, found, seen, blocked,
                     over, verdict, steady, exits>>
  BY <1>2 DEF Stall, world, circuit, row, fast
<1>4. WorldTypes' /\ CircuitTypes'
  <2>1. events' \in 0 .. MaxEvents
    BY <1>1, EventType DEF Stall
  <2> QED BY <1>1, <1>3, <2>1 DEF WorldTypes, CircuitTypes
<1>5. CheckTypes'
  BY <1>1, <1>3 DEF CheckTypes
<1>6. ASSUME NEW q \in Rows \ {r} PROVE RowInv(q)'
  <2>1. Same(q)
    BY <1>1, <1>3 DEF Same, CheckTypes
  <2> QED BY <1>3, <2>1, SameKeeps DEF ProbeInv
<1>7. RowInv(r)'
  <2>1. RowInv(r) /\ stalled'[r]
    BY <1>1, <1>2, <1>3 DEF ProbeInv, CheckTypes
  <2>2. Doubt(r)' = Doubt(r)
    BY <1>3 DEF Doubt
  <2> QED BY <1>3, <2>1, <2>2 DEF RowInv, RecordHasAnswer, Fresh, OneProtocol, SteadyWorks, ExitKept,
          HonestAnswers, HonestFound, SteadyAnswers, DoubtRemains, Watched
<1> QED BY <1>4, <1>5, <1>6, <1>7, TypeSplitPrimed DEF ProbeInv

-----------------------------------------------------------------------------
\* Every step preserves the invariant,
LEMMA ProbeStep ==
    ASSUME ProbeInv, [Next]_vars PROVE ProbeInv'
<1>1. CheckTypes /\ WorldTypes /\ CircuitTypes /\ TypeOK
  BY TypeSplit DEF ProbeInv
<1>2. ASSUME NEW r \in Rows, BeginStrong(r) PROVE ProbeInv'
  <2>1. /\ pc[r] = "idle" /\ Confirms(r) /\ verdict' = [verdict EXCEPT ![r] = NoVerdict]
        /\ UNCHANGED <<world, late, row, events>>
    BY <1>2 DEF BeginStrong
  <2>2. pc[r] \notin Rounds /\ NoVerdict \in Verdict
    BY <2>1 DEF Rounds, NoVerdict, Verdict
  <2>3. verdict' \in [Rows -> Verdict]
    BY <1>1, <2>1, <2>2 DEF CheckTypes
  <2> QED BY <2>1, <2>2, <2>3, ConfirmsInv
<1>3. ASSUME NEW r \in Rows, Step(r), ~BeginStrong(r) PROVE ProbeInv'
  BY <1>3, FastInv, RecordInv, CallInv, RoundEndsInv DEF Step
<1>4. ASSUME NEW u \in Others, OtherAsks(u) PROVE ProbeInv'
  <2>1. /\ ForgetExpired /\ late' = late \cup {u}
        /\ UNCHANGED <<up, noisy, kind, exit, speaks, declared, row, check, events>>
    BY <1>4 DEF OtherAsks, world
  <2>2. WorldTypes' /\ CircuitTypes'
    BY <1>1, <2>1, ForgetType DEF WorldTypes
  <2> QED BY <2>1, <2>2, OutsideInv
<1>5. ASSUME NEW u \in Others, NEW failed \in BOOLEAN, OtherRecords(u, failed) PROVE ProbeInv'
  <2>1. /\ Event \/ UNCHANGED events
        /\ RecordEndpoint(u, failed, ~failed) /\ late' = late \ {u}
        /\ UNCHANGED <<up, noisy, kind, exit, speaks, declared, row, check>>
    BY <1>5 DEF OtherRecords, world
  <2>2. events' \in 0 .. MaxEvents
    BY <1>1, <2>1, EventType DEF WorldTypes
  <2>3. u \in Hosts /\ (~failed) \in BOOLEAN
    BY ProbeAssumption DEF Hosts
  <2>4. CircuitTypes'
    BY <1>1, <2>1, <2>3, RecordEndpointType
  <2>5. WorldTypes'
    BY <1>1, <2>1, <2>2 DEF WorldTypes
  <2> QED BY <2>1, <2>4, <2>5, OutsideInv
<1>6. CASE NoiseChanges
  <2>1. /\ Event \/ UNCHANGED events
        /\ noisy' = ~noisy
        /\ UNCHANGED <<up, kind, exit, speaks, declared, fails, open, late, row, check>>
    BY <1>6 DEF NoiseChanges, circuit
  <2>2. events' \in 0 .. MaxEvents
    BY <1>1, <2>1, EventType DEF WorldTypes
  <2>3. WorldTypes' /\ CircuitTypes'
    BY <1>1, <2>1, <2>2 DEF WorldTypes, CircuitTypes
  <2> QED BY <2>1, <2>3, OutsideInv
<1>7. CASE Tick
  <2>1. /\ open' = [u \in Hosts |-> IF open[u] > 0 THEN open[u] - 1 ELSE 0]
        /\ UNCHANGED <<up, noisy, kind, exit, speaks, declared, late, fails, row, check, events>>
    BY <1>7 DEF Tick, world
  <2>2. CircuitTypes'
    BY <1>1, <2>1, ProbeAssumption DEF CircuitTypes
  <2>3. WorldTypes'
    BY <1>1, <2>1 DEF WorldTypes
  <2> QED BY <2>1, <2>2, <2>3, OutsideInv
<1>8. CASE UNCHANGED vars
  <2>1. UNCHANGED <<up, noisy, kind, exit, speaks, declared, fails, open, late, row, check, events>>
    BY <1>8 DEF vars, world, circuit
  <2>2. WorldTypes' /\ CircuitTypes'
    BY <1>1, <2>1 DEF WorldTypes, CircuitTypes
  <2> QED BY <2>1, <2>2, OutsideInv
<1> QED
  BY <1>2, <1>3, <1>4, <1>5, <1>6, <1>7, <1>8, HostInv, ProxyInv, StallInv DEF Next

\* and so it always holds.
LEMMA ProbeInvariant == Spec => []ProbeInv
BY ProbeInit, ProbeStep, PTL DEF Spec

-----------------------------------------------------------------------------
\* A strong check ends with the end of a round of its own.
LEMMA OwnRoundEnds ==
    ASSUME ProbeInv, [Next]_vars, NEW r \in Rows, pc[r] \in Rounds, pc'[r] = "idle"
    PROVE  PortalEnds(r) \/ TlsEnds(r) \/ InsecureEnds(r) \/ PlainEnds(r)
<1>1. CheckTypes /\ pc'[r] # pc[r]
  BY TypeSplit DEF ProbeInv, Rounds
<1>2. ASSUME NEW x, NEW blk, Exhausted(x, blk) PROVE \E l : pc' = [pc EXCEPT ![x] = l]
  BY <1>2 DEF Exhausted, Attempts, Turns, Concludes, Ends
<1>3. ASSUME NEW x \in Rows, PortalEnds(x) \/ PlainEnds(x)
      PROVE  \E l : pc' = [pc EXCEPT ![x] = l]
  <2>1. \/ \E blk : Exhausted(x, blk)
        \/ \E v : Concludes(x, v)
        \/ \E p, n : Attempts(x, p, n)
    BY <1>3 DEF PortalEnds, PlainEnds
  <2> QED BY <1>2, <2>1 DEF Attempts, Turns, Concludes, Ends
<1>4. ASSUME NEW x \in Rows, TlsEnds(x) \/ InsecureEnds(x)
      PROVE  \E l : pc' = [pc EXCEPT ![x] = l]
  <2>1. \/ \E v : Concludes(x, v)
        \/ \E how, ip : Turns(x, how, ip)
    BY <1>4 DEF TlsEnds, InsecureEnds
  <2> QED BY <2>1 DEF Turns, Concludes, Ends
<1>5. ASSUME NEW x \in Rows,
             BeginStrong(x) \/ BeginFast(x) \/ Ask(x) \/ AskNobody(x) \/ Record(x)
      PROVE  (\E l : pc' = [pc EXCEPT ![x] = l]) /\ pc[x] \notin Rounds
  <2>1. \E l : pc' = [pc EXCEPT ![x] = l]
    BY <1>5 DEF BeginStrong, BeginFast, Ask, AskNobody, Record, Confirms, Ends
  <2>2. pc[x] \in {"idle", "ask", "record"}
    BY <1>5 DEF BeginStrong, BeginFast, Ask, AskNobody, Record
  <2> QED BY <2>1, <2>2 DEF Rounds
<1>6. ASSUME NEW x \in Rows, Call(x) \/ Stall(x) PROVE FALSE
  BY <1>1, <1>6 DEF Call, Stall
<1>7. PICK x \in Rows : Step(x)
  <2>1. UNCHANGED pc \/ \E x \in Rows : Step(x)
    BY <1>6 DEF Next, ProxyChanges, OtherAsks, OtherRecords, HostChanges, NoiseChanges, Tick, vars,
       check
  <2> QED BY <1>1, <2>1
<1>8. PICK l : pc' = [pc EXCEPT ![x] = l]
  BY <1>3, <1>4, <1>5, <1>6, <1>7 DEF Step
<1>9. x = r
  BY <1>1, <1>8 DEF CheckTypes
<1> QED BY <1>5, <1>6, <1>7, <1>9 DEF Step

\* With what it can end.
LEMMA EndVerdict ==
    ASSUME ProbeInv, [Next]_vars, NEW r \in Rows, pc[r] \in Rounds, pc'[r] = "idle"
    PROVE  \/ \E ip \in exits[r] : verdict'[r] = Trusted(ip)
           \/ \E ip : verdict'[r] = Untrusted(ip)
           \/ \E blk \in BOOLEAN :
                 /\ verdict'[r] = [NoVerdict EXCEPT !.status = Final(seen[r], blk)]
                 /\ ~HttpIsNext(r) \/ (stalled[r] /\ over[r])
                 /\ ~blk => /\ pc[r] = "plain" /\ Quorum(got[r]) = None
                            /\ over[r] \/ Left(r) = {}
<1> DEFINE q == Quorum(got[r])
<1>1. CheckTypes /\ RowInv(r)
  BY TypeSplit DEF ProbeInv
<1>2. ASSUME NEW v, Concludes(r, v) PROVE verdict'[r] = v
  BY <1>1, <1>2 DEF Concludes, Ends, CheckTypes
<1>3. ASSUME NEW how \in Rounds, NEW ip, Turns(r, how, ip) PROVE FALSE
  BY <1>1, <1>3 DEF Turns, CheckTypes, Rounds
<1>4. ASSUME NEW p, NEW n, Attempts(r, p, n) PROVE FALSE
  BY <1>3, <1>4 DEF Attempts, Rounds
<1>5. ASSUME NEW blk \in BOOLEAN, Exhausted(r, blk)
      PROVE  /\ verdict'[r] = [NoVerdict EXCEPT !.status = Final(seen[r], blk)]
             /\ ~HttpIsNext(r) \/ (stalled[r] /\ over[r])
  BY <1>2, <1>4, <1>5 DEF Exhausted
<1>6. CASE PortalEnds(r)
  <2>1. PICK yes \in BOOLEAN : yes = TRUE
    OBVIOUS
  <2>2. Exhausted(r, yes)
    BY <1>6, <2>1 DEF PortalEnds
  <2> QED BY <1>5, <2>1, <2>2
<1>7. CASE TlsEnds(r)
  <2>1. q # None /\ Concludes(r, Trusted(q))
    BY <1>3, <1>7 DEF TlsEnds, Rounds, q
  <2>2. \A u \in Hosts \ Liars : got[r][u] \in Ips => got[r][u] \in exits[r]
    BY <1>1 DEF RowInv, HonestAnswers
  <2>3. got[r] \in [Hosts -> Answers \cup {None}]
    BY <1>1 DEF CheckTypes
  <2>4. q \in exits[r]
    BY <2>1, <2>2, <2>3, TruthfulQuorum
  <2> HIDE DEF q
  <2> QED BY <1>2, <2>1, <2>4
<1>8. CASE InsecureEnds(r)
  <2>1. pc[r] = "insecure" /\ found[r] # None /\ Concludes(r, Trusted(found[r]))
    BY <1>3, <1>8 DEF InsecureEnds, Rounds
  <2>2. found[r] \in exits[r]
    BY <1>1, <2>1 DEF RowInv, HonestFound
  <2> QED BY <1>2, <2>1, <2>2
<1>9. CASE PlainEnds(r)
  <2>1. /\ pc[r] = "plain" /\ (over[r] \/ Left(r) = {})
        /\ \/ \E ip : Concludes(r, Untrusted(ip))
           \/ \E p, n : Attempts(r, p, n)
           \/ q = None /\ Exhausted(r, blocked[r])
    BY <1>9 DEF PlainEnds, RoundEnds, q
  <2>2. blocked[r] \in BOOLEAN
    BY <1>1 DEF CheckTypes
  <2> HIDE DEF q
  <2>3. CASE \E ip : Concludes(r, Untrusted(ip))
    BY <1>2, <2>3
  <2>4. CASE q = None /\ Exhausted(r, blocked[r])
    <3>1. pc[r] = "plain" /\ (over[r] \/ Left(r) = {})
      BY <1>9 DEF PlainEnds, RoundEnds
    <3> QED BY <1>5, <2>2, <2>4, <3>1 DEF q
  <2> QED BY <1>4, <2>1, <2>3, <2>4
<1> QED BY <1>6, <1>7, <1>8, <1>9, OwnRoundEnds

-----------------------------------------------------------------------------
\* Circuits, rotation indexes, answers and verdicts have their types after
\* every step of check_proxy_fast, check_proxy_strong and the endpoint
\* circuits: an open circuit has reached its threshold, a question is put
\* to a host that exists, and a verdict is one of the checker's.
THEOREM ProbeTypeCorrect == Spec => []TypeOK
BY ProbeInvariant, PTL DEF ProbeInv

\* check_proxy_strong returns "dead" for no proxy that could be seen to work
\* all through the check, if its protocol is among those tried and no stall
\* takes the check's time: the calls may be cut by its deadlines between any
\* two, hosts may fail and return meanwhile, and there may be noise, open
\* circuits and a wrong first protocol.
THEOREM ProbeWorkingNotDead == Spec => WorkingNotDead
<1> DEFINE Spared == \A r \in Rows :
               (pc[r] \in Rounds /\ pc'[r] = "idle" /\ verdict'[r].status = "dead")
               => ~(Tried(r) /\ ~stalled[r] /\ Evident(r))
<1>1. ProbeInv /\ [Next]_vars => Spared
  <2> SUFFICES ASSUME ProbeInv, [Next]_vars, NEW r \in Rows, pc[r] \in Rounds, pc'[r] = "idle",
                      verdict'[r].status = "dead", Tried(r), ~stalled[r], Evident(r)
               PROVE  FALSE
    OBVIOUS
  <2>1. Watched(r) /\ DoubtRemains(r) /\ OneProtocol(r) /\ TypeOK
    BY DEF Watched, ProbeInv, RowInv
  <2>2. /\ \A ip : Trusted(ip).status # "dead" /\ Untrusted(ip).status # "dead"
    BY DEF Trusted, Untrusted
  <2>3. PICK blk \in BOOLEAN :
            /\ verdict'[r] = [NoVerdict EXCEPT !.status = Final(seen[r], blk)]
            /\ ~HttpIsNext(r)
            /\ ~blk => /\ pc[r] = "plain" /\ Quorum(got[r]) = None
                       /\ over[r] \/ Left(r) = {}
    BY <2>2, EndVerdict
  <2>4. ~blk /\ seen[r] = {"proxy"}
    BY <2>3, FinalType
  <2>5. ~Doubt(r)
    BY <2>4 DEF Doubt
  <2>6. CASE proto[r] = speaks[r]
    BY <2>1, <2>3, <2>4, <2>5, <2>6, PlainLeavesDoubt
  <2>7. CASE proto[r] # speaks[r]
    <3>1. proto[r] \in {"socks5", "http"} /\ speaks[r] \in {"socks5", "http"}
      BY <2>1 DEF TypeOK
    <3>2. ~known[r] /\ declared[r] = "auto"
      BY <2>1, <2>7 DEF OneProtocol, Tried
    <3>3. proto[r] = "http" /\ speaks[r] = "socks5"
      BY <2>3, <2>7, <3>1, <3>2 DEF HttpIsNext
    <3> QED BY <2>1, <2>5, <3>3 DEF DoubtRemains
  <2> QED BY <2>6, <2>7
<1> QED BY <1>1, ProbeInvariant, PTL DEF Spec, WorkingNotDead

\* With at most one endpoint that lies, the exit address for which _quorum
\* lets check_proxy_strong vouch is one where the proxy did exit during the
\* attempt that found it.
THEOREM ProbeTrustedIsTrue == Spec => TrustedIsTrue
<1> DEFINE True == \A r \in Rows :
               (pc[r] \in Rounds /\ pc'[r] = "idle" /\ verdict'[r].trusted)
               => verdict'[r].exit \in exits[r]
<1>1. ProbeInv /\ [Next]_vars => True
  <2> SUFFICES ASSUME ProbeInv, [Next]_vars, NEW r \in Rows, pc[r] \in Rounds, pc'[r] = "idle",
                      verdict'[r].trusted
               PROVE  verdict'[r].exit \in exits[r]
    OBVIOUS
  <2>1. ASSUME NEW ip, verdict'[r] = Untrusted(ip) PROVE FALSE
    BY <2>1 DEF Untrusted
  <2>2. ASSUME NEW blk \in BOOLEAN
        PROVE  verdict'[r] # [NoVerdict EXCEPT !.status = Final(seen[r], blk)]
    BY FinalType
  <2>3. PICK ip \in exits[r] : verdict'[r] = Trusted(ip)
    BY <2>1, <2>2, EndVerdict
  <2> QED BY <2>3 DEF Trusted
<1> QED BY <1>1, ProbeInvariant, PTL DEF Spec, TrustedIsTrue
=============================================================================
