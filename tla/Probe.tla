------------------------------- MODULE Probe -------------------------------
(***************************************************************************)
(* One health check of a proxy: the cheap observation through one probe    *)
(* endpoint, the strong check that asks them all and wants a quorum, and   *)
(* the circuits by which the check threads of a process keep away from an  *)
(* endpoint that fails.                                                    *)
(*                                                                         *)
(* A curl call is one step and ends in an address or in a kind of failure. *)
(* The hosts 1 and 2 are asked over plain HTTP as well.  Time is what the  *)
(* calls take: the calls of a first attempt share its time and fit, later  *)
(* ones need not, and no call is sure to fit once resolving the proxy's    *)
(* name, or waiting for the turn at a host, has stalled the check.  A      *)
(* check has one thread; which rows are checked when, and what a verdict   *)
(* does to the row, is CheckQueue's and ProxyLedger's.                     *)
(***************************************************************************)
EXTENDS Naturals, FiniteSets

CONSTANTS
    N,              \* PROBE_URLS, by their hosts
    Rows,           \* the proxies that are checked at the same time
    Ips, None,      \* exit addresses, and none
    Liars,          \* hosts that return a wrong address
    THRESHOLD,      \* PROBE_CIRCUIT_FAILURE_THRESHOLD
    COOLDOWN,       \* PROBE_CIRCUIT_COOLDOWN_SECONDS, in ticks
    ATTEMPTS,       \* PROBE_ATTEMPTS
    Others,         \* the hosts that the other threads ask
    MaxEvents       \* bound: outages, changes of proxies, noise, stalls

\* What a curl call may end in instead of an address.
Failures == {"proxy", "endpoint", "noip", "transient", "tls", "blocked"}

ASSUME ProbeAssumption ==
    /\ N \in Nat /\ N >= 2 /\ MaxEvents \in Nat
    /\ Others \subseteq 1 .. N
    /\ Liars \subseteq 1 .. N /\ Cardinality(Liars) <= 1
    /\ THRESHOLD \in Nat \ {0} /\ COOLDOWN \in Nat \ {0}
    /\ ATTEMPTS \in Nat \ {0}
    /\ Ips # {} /\ Failures \cap Ips = {}
    /\ None \notin Ips \cup Failures

VARIABLES
    up, noisy,      \* the hosts that answer; whether calls time out anyway
    kind, exit,     \* what the proxies are like, and where they exit
    speaks,         \* the protocol they speak
    declared,       \* and the one that their contributor gave
    fails, open,    \* _probe_endpoint_state: failures, open_until
    late,           \* the hosts that other threads' fast checks have asked
    \* proxies: detected_protocol is set, exit_ip, next_probe_index
    known, expect, index,
    pc, avail,      \* the check: where it is, the endpoints it may ask
    asked, answer,  \* the endpoint of the fast check and what came of it
    proto, attempt, \* how far the strong check is
    got, found,     \* the answers of its round, the quorum of the one before
    seen, blocked,  \* its evidence
    over, stalled,  \* its time for the protocol is up; it met a stall
    verdict,        \* the outcome of the last check
    steady,         \* the hosts through which the proxy could be seen to
                    \* work, and at one address, ever since the check began
    exits,          \* where the proxy exited during the attempt
    events

world == <<up, noisy, kind, exit, speaks, declared>>
circuit == <<fails, open>>
row == <<known, expect, index>>
fast == <<avail, asked, answer>>
strong == <<proto, attempt, got, found, seen, blocked, over, stalled, steady,
            exits>>
check == <<pc, fast, strong, verdict>>
vars == <<world, circuit, late, row, check, events>>

Hosts == 1 .. N
Plain == {1, 2}
Rounds == {"tls", "insecure", "plain"}
Unasked == [u \in Hosts |-> None]
Answers == Failures \cup Ips
Verdict == [status : {"none", "live", "live_unverified", "blocked", "dead",
                      "inconclusive"},
            exit : Ips \cup {None}, trusted : BOOLEAN]
NoVerdict == [status |-> "none", exit |-> None, trusted |-> FALSE]

TypeOK ==
    /\ up \in SUBSET Hosts /\ noisy \in BOOLEAN
    /\ kind \in [Rows -> {"works", "down", "intercepts", "captive"}]
    /\ exit \in [Rows -> Ips] /\ speaks \in [Rows -> {"socks5", "http"}]
    /\ declared \in [Rows -> {"auto", "socks5", "http"}]
    /\ fails \in [Hosts -> 0 .. THRESHOLD] /\ open \in [Hosts -> 0 .. COOLDOWN]
    /\ \A u \in Hosts : open[u] > 0 => fails[u] = THRESHOLD
    /\ late \in SUBSET Others
    /\ known \in [Rows -> BOOLEAN] /\ expect \in [Rows -> Ips \cup {None}]
    /\ index \in [Rows -> Hosts]
    /\ pc \in [Rows -> {"idle", "ask", "record"} \cup Rounds]
    /\ avail \in [Rows -> SUBSET Hosts]
    /\ asked \in [Rows -> Hosts \cup {None}]
    /\ answer \in [Rows -> Answers \cup {None}]
    /\ proto \in [Rows -> {"socks5", "http"}] /\ attempt \in [Rows -> 1 .. ATTEMPTS]
    /\ got \in [Rows -> [Hosts -> Answers \cup {None}]]
    /\ found \in [Rows -> Ips \cup {None}]
    /\ seen \in [Rows -> SUBSET Failures] /\ blocked \in [Rows -> BOOLEAN]
    /\ over \in [Rows -> BOOLEAN] /\ stalled \in [Rows -> BOOLEAN]
    /\ verdict \in [Rows -> Verdict]
    /\ steady \in [Rows -> SUBSET Hosts] /\ exits \in [Rows -> SUBSET Ips]
    /\ events \in 0 .. MaxEvents

Init ==
    /\ up = Hosts /\ noisy = FALSE
    /\ kind = [r \in Rows |-> "works"]
    /\ exit = [r \in Rows |-> CHOOSE ip \in Ips : TRUE]
    /\ speaks \in [Rows -> {"socks5", "http"}]
    /\ declared \in [Rows -> {"auto", "socks5", "http"}]
    /\ fails = [u \in Hosts |-> 0] /\ open = [u \in Hosts |-> 0]
    /\ late = {}
    /\ known = [r \in Rows |-> FALSE] /\ expect = [r \in Rows |-> None]
    /\ index = [r \in Rows |-> 1]
    /\ pc = [r \in Rows |-> "idle"] /\ avail = [r \in Rows |-> {}]
    /\ asked = [r \in Rows |-> None] /\ answer = [r \in Rows |-> None]
    /\ proto = [r \in Rows |-> "socks5"] /\ attempt = [r \in Rows |-> 1]
    /\ got = [r \in Rows |-> Unasked] /\ found = [r \in Rows |-> None]
    /\ seen = [r \in Rows |-> {}] /\ blocked = [r \in Rows |-> FALSE]
    /\ over = [r \in Rows |-> FALSE] /\ stalled = [r \in Rows |-> FALSE]
    /\ verdict = [r \in Rows |-> NoVerdict]
    /\ steady = [r \in Rows |-> {}] /\ exits = [r \in Rows |-> {}]
    /\ events = 0

Event ==
    /\ events < MaxEvents
    /\ events' = events + 1

---------------------------------------------------------------------------
(* What comes of a probe.  (external)                                      *)

\* A host that does not answer shows as a bad response, as one without an
\* address, as a timeout, or as a failed SOCKS handshake.
OfHost(r, u) ==
    IF u \in up THEN IF u \in Liars THEN Ips \ {exit[r]} ELSE {exit[r]}
    ELSE {"endpoint", "noip", "transient"}
         \cup (IF speaks[r] = "socks5" THEN {"proxy"} ELSE {})

\* In a noisy time whatever is asked may time out, fail to resolve, or be
\* refused for the rate of requests.
Noise == {"transient", "endpoint"}

\* Through the proxy, spoken to in protocol p, over TLS ("tls"), without
\* checking the certificate ("insecure") or over plain HTTP ("plain").
OfProbe(r, p, u, how) ==
    (IF noisy THEN Noise ELSE {}) \cup
    CASE kind[r] = "down" \/ p # speaks[r] -> {"proxy"}
      [] kind[r] = "captive" /\ p = speaks[r] -> {"blocked"}
      [] kind[r] = "intercepts" /\ p = speaks[r] ->
            IF how = "tls" THEN {"tls"} ELSE OfHost(r, u)
      [] kind[r] = "works" /\ p = speaks[r] -> OfHost(r, u)

---------------------------------------------------------------------------
(* The circuits.                                                           *)

\* A cooldown that never passes.
ExpiredNever(u) == FALSE

\* The cooldown of an opened circuit has passed.
Expired(u) == fails[u] >= THRESHOLD /\ open[u] = 0

\* unavailable_probe_endpoints: the circuits that are open, while the ones
\* whose cooldown has passed are forgotten.
Unavailable == {u \in Hosts : fails[u] >= THRESHOLD /\ ~Expired(u)}
ForgetExpired ==
    /\ fails' = [u \in Hosts |-> IF Expired(u) THEN 0 ELSE fails[u]]
    /\ UNCHANGED open

\* record_fast_probe_result.
RecordEndpoint(u, failed, live) ==
    CASE failed ->
            LET n == IF fails[u] < THRESHOLD THEN fails[u] + 1 ELSE THRESHOLD
            IN  /\ fails' = [fails EXCEPT ![u] = n]
                /\ open' = [open EXCEPT ![u] =
                       IF n >= THRESHOLD THEN COOLDOWN ELSE 0]
      [] ~failed /\ live ->
            /\ fails' = [fails EXCEPT ![u] = 0]
            /\ open' = [open EXCEPT ![u] = 0]
      [] ~failed /\ ~live -> UNCHANGED circuit

---------------------------------------------------------------------------
(* The fast check.                                                         *)

\* The check ends with v.
Ends(r, v) ==
    /\ verdict' = [verdict EXCEPT ![r] = v]
    /\ pc' = [pc EXCEPT ![r] = "idle"]
    /\ avail' = [avail EXCEPT ![r] = {}]
    /\ asked' = [asked EXCEPT ![r] = None]
    /\ answer' = [answer EXCEPT ![r] = None]
    /\ proto' = [proto EXCEPT ![r] = "socks5"]
    /\ attempt' = [attempt EXCEPT ![r] = 1]
    /\ got' = [got EXCEPT ![r] = Unasked]
    /\ found' = [found EXCEPT ![r] = None]
    /\ seen' = [seen EXCEPT ![r] = {}]
    /\ blocked' = [blocked EXCEPT ![r] = FALSE]
    /\ over' = [over EXCEPT ![r] = FALSE]
    /\ stalled' = [stalled EXCEPT ![r] = FALSE]
    /\ steady' = [steady EXCEPT ![r] = {}]
    /\ exits' = [exits EXCEPT ![r] = {}]

Inconclusive == [NoVerdict EXCEPT !.status = "inconclusive"]

\* _proxy_urls: the protocol that is tried first, and whether HTTP is still
\* to be tried after it.
FirstProtocol(r) ==
    IF known[r] THEN speaks[r]
    ELSE IF declared[r] = "auto" THEN "socks5" ELSE declared[r]
HttpIsNext(r) == ~known[r] /\ declared[r] = "auto" /\ proto[r] = "socks5"

\* The strong check begins with the endpoints that are available now.
Confirms(r) ==
    /\ ForgetExpired
    /\ pc' = [pc EXCEPT ![r] = "tls"]
    /\ avail' = [avail EXCEPT ![r] = Hosts \ Unavailable]
    /\ asked' = [asked EXCEPT ![r] = None]
    /\ answer' = [answer EXCEPT ![r] = None]
    /\ proto' = [proto EXCEPT ![r] = FirstProtocol(r)]
    /\ steady' = [steady EXCEPT ![r] = IF kind[r] = "works" THEN up ELSE {}]
    /\ exits' = [exits EXCEPT ![r] = {exit[r]}]
    /\ UNCHANGED <<attempt, got, found, seen, blocked, over, stalled>>

\* _check_one of a row in strong mode, or whose protocol is not known.
BeginStrong(r) ==
    /\ pc[r] = "idle"
    /\ Confirms(r)
    /\ verdict' = [verdict EXCEPT ![r] = NoVerdict]
    /\ UNCHANGED <<world, late, row, events>>

\* _check_one of a row in fast mode.
BeginFast(r) ==
    /\ pc[r] = "idle"
    /\ known[r]
    /\ ForgetExpired
    /\ avail' = [avail EXCEPT ![r] = Hosts \ Unavailable]
    /\ pc' = [pc EXCEPT ![r] = "ask"]
    /\ verdict' = [verdict EXCEPT ![r] = NoVerdict]
    /\ UNCHANGED <<world, late, row, asked, answer, strong, events>>

\* _probe_candidates: from the row's index on, around.
Turn(r, u) == (u + N - index[r]) % N
FirstCandidate(r) ==
    CHOOSE u \in avail[r] : \A v \in avail[r] : Turn(r, u) <= Turn(r, v)

\* The index runs off the list.
AfterUnwrapped(u) == u + 1

After(u) == (u % N) + 1

\* check_proxy_fast asks one endpoint.
Ask(r) ==
    /\ pc[r] = "ask"
    /\ avail[r] # {}
    /\ \E a \in OfProbe(r, speaks[r], FirstCandidate(r), "tls") :
          answer' = [answer EXCEPT ![r] = a]
    /\ asked' = [asked EXCEPT ![r] = FirstCandidate(r)]
    /\ pc' = [pc EXCEPT ![r] = "record"]
    /\ UNCHANGED <<world, late, circuit, row, avail, strong, verdict, events>>

\* All circuits are open: nothing is asked, and nothing more.
AskNobody(r) ==
    /\ pc[r] = "ask"
    /\ avail[r] = {}
    /\ index' = [index EXCEPT ![r] = After(@)]
    /\ Ends(r, Inconclusive)
    /\ UNCHANGED <<world, late, circuit, known, expect, events>>

\* The endpoint's circuit hears of the result.  The expected address and an
\* endpoint's failure end the check, and the next one asks the endpoint
\* after; a captive portal ends it as well, and the index stays.  The rest
\* needs the strong check.
Record(r) ==
    LET a == answer[r]
        live == a \in Ips /\ expect[r] \in {None, a}
        failed == a \in {"endpoint", "noip"}
    IN  /\ pc[r] = "record"
        /\ \/ /\ live \/ failed
              /\ RecordEndpoint(asked[r], failed, live)
              /\ index' = [index EXCEPT ![r] = After(asked[r])]
              /\ Ends(r, IF live THEN [NoVerdict EXCEPT !.status = "live",
                                                        !.exit = a]
                         ELSE Inconclusive)
           \/ /\ a = "blocked"
              /\ Ends(r, [NoVerdict EXCEPT !.status = "blocked"])
              /\ UNCHANGED <<circuit, index>>
           \/ /\ ~(live \/ failed \/ a = "blocked")
              /\ Confirms(r)
              /\ UNCHANGED <<index, verdict>>
        /\ UNCHANGED <<world, late, known, expect, events>>

\* A fast check in another thread asks u, and reports some time later, when
\* others may have opened the circuit.
OtherAsks(u) ==
    /\ u \notin Unavailable
    /\ ForgetExpired
    /\ late' = late \cup {u}
    /\ UNCHANGED <<world, row, check, events>>

OtherRecords(u, failed) ==
    /\ u \in late
    /\ IF failed /\ u \in up THEN Event ELSE UNCHANGED events
    /\ RecordEndpoint(u, failed, ~failed)
    /\ late' = late \ {u}
    /\ UNCHANGED <<world, row, check>>

---------------------------------------------------------------------------
(* The strong check.                                                       *)

\* The most frequent address, however rare.
QuorumOfOne(a) ==
    LET Votes(ip) == Cardinality({u \in DOMAIN a : a[u] = ip})
        best == {ip \in Ips : Votes(ip) > 0 /\
                              \A q \in Ips : Votes(q) <= Votes(ip)}
    IN  IF best = {} THEN None ELSE CHOOSE ip \in best : TRUE

\* Two that agree are not enough.
QuorumOfThree(a) ==
    LET Votes(ip) == Cardinality({u \in DOMAIN a : a[u] = ip})
        valid == Cardinality({u \in DOMAIN a : a[u] \in Ips})
        won == {ip \in Ips : Votes(ip) >= 3 /\ 2 * Votes(ip) > valid}
    IN  IF won = {} THEN None ELSE CHOOSE ip \in won : TRUE

\* _quorum: two agree, and more than half of those that gave an address.
Quorum(a) ==
    LET Votes(ip) == Cardinality({u \in DOMAIN a : a[u] = ip})
        valid == Cardinality({u \in DOMAIN a : a[u] \in Ips})
        won == {ip \in Ips : Votes(ip) >= 2 /\ 2 * Votes(ip) > valid}
    IN  IF won = {} THEN None ELSE CHOOSE ip \in won : TRUE

\* _record_response_failure: the evidence in an answer.  What an endpoint
\* and what chance is to blame for have the same consequence; an answer
\* without an address is no evidence.
Evidence(a) ==
    CASE a \in {"proxy", "tls"} -> {a}
      [] a \in {"endpoint", "transient"} -> {"transient"}
      [] a \in {"noip", "blocked"} \cup Ips -> {}

\* What the round keeps of an answer.
Kept(a) == IF a \in {"tls", "blocked"} \cup Ips THEN a ELSE "noip"

\* Without a quorum: dead if nothing but the proxy has failed.
Final(ev, blk) ==
    CASE blk -> "blocked"
      [] ~blk /\ ev = {"proxy"} -> "dead"
      [] ~blk /\ ev # {"proxy"} -> "inconclusive"

\* The strong check ends with v.  The row takes over what a live verdict
\* says, and its index starts again unless a portal was in the way.
Concludes(r, v) ==
    /\ Ends(r, v)
    /\ known' = [known EXCEPT ![r] =
            @ \/ v.status \in {"live", "live_unverified"}]
    /\ expect' = [expect EXCEPT ![r] = IF v.trusted THEN v.exit ELSE @]
    /\ index' = [index EXCEPT ![r] = IF v.status = "blocked" THEN @ ELSE 1]

\* The next round begins; the one before found ip.
Turns(r, how, ip) ==
    /\ pc' = [pc EXCEPT ![r] = how]
    /\ got' = [got EXCEPT ![r] = Unasked]
    /\ found' = [found EXCEPT ![r] = ip]

\* The next attempt begins, the n-th in protocol p.
Attempts(r, p, n) ==
    /\ Turns(r, "tls", None)
    /\ proto' = [proto EXCEPT ![r] = p]
    /\ attempt' = [attempt EXCEPT ![r] = n]
    /\ over' = [over EXCEPT ![r] = FALSE]
    /\ exits' = [exits EXCEPT ![r] = {exit[r]}]
    /\ UNCHANGED <<fast, seen, stalled, verdict, steady, row>>

\* The protocol is through: HTTP, if that is still to be tried and the stall
\* has left time for it, or the end.
Exhausted(r, blk) ==
    \/ /\ HttpIsNext(r)
       /\ Attempts(r, "http", 1)
       /\ blocked' = [blocked EXCEPT ![r] = blk]
    \/ /\ ~HttpIsNext(r) \/ (stalled[r] /\ over[r])
       /\ Concludes(r, [NoVerdict EXCEPT !.status = Final(seen[r], blk)])

\* The hosts that the round has not asked yet, the first of them first.
Left(r) == {u \in IF pc[r] = "plain" THEN Plain ELSE avail[r] : got[r][u] = None}
NextHost(r) == CHOOSE u \in Left(r) : \A v \in Left(r) : u <= v

\* The calls do not share the time.
MayBeLastUnshared(r) == TRUE

\* A call may be the last for which the protocol's deadline leaves time: the
\* last one of an attempt, any of a second attempt, one after a failure of
\* TLS has doubled the calls, or one after a stall.
MayBeLast(r) ==
    \/ stalled[r] \/ attempt[r] > 1 \/ pc[r] = "insecure"
    \/ /\ pc[r] = "plain"
       /\ "tls" \in seen[r] \/ Left(r) = {NextHost(r)}

\* One call of a round, if the deadline is not over.
Call(r) ==
    /\ pc[r] \in Rounds
    /\ ~over[r] /\ Left(r) # {}
    /\ \E a \in OfProbe(r, proto[r], NextHost(r), pc[r]) :
          /\ got' = [got EXCEPT ![r] = [@ EXCEPT ![NextHost(r)] = Kept(a)]]
          /\ seen' = [seen EXCEPT ![r] = @ \cup Evidence(a)]
    /\ \E last \in BOOLEAN :
          /\ last => MayBeLast(r)
          /\ over' = [over EXCEPT ![r] = last]
    /\ UNCHANGED <<world, late, circuit, row, pc, fast, proto, attempt, found,
                   blocked, stalled, verdict, steady, exits, events>>

\* All have been asked, or there is no time to.
RoundEnds(r) ==
    /\ pc[r] \in Rounds
    /\ over[r] \/ Left(r) = {}
    /\ UNCHANGED <<world, late, circuit, events>>

Shows(r, a) == \E u \in Hosts : got[r][u] = a

\* A captive portal is the end of the protocol.
PortalEnds(r) ==
    /\ RoundEnds(r)
    /\ Shows(r, "blocked")
    /\ Exhausted(r, TRUE)

Trusted(ip) == [status |-> "live", exit |-> ip, trusted |-> TRUE]
Untrusted(ip) == [status |-> "live_unverified", exit |-> ip, trusted |-> FALSE]

\* Over TLS.  If that failed at one, all are asked without certificates.
TlsEnds(r) ==
    /\ RoundEnds(r) /\ ~Shows(r, "blocked")
    /\ pc[r] = "tls"
    /\ \/ /\ Shows(r, "tls")
          /\ Turns(r, "insecure", Quorum(got[r]))
          /\ UNCHANGED <<fast, proto, attempt, seen, blocked, over, stalled,
                         verdict, steady, exits, row>>
       \/ /\ ~Shows(r, "tls") /\ Quorum(got[r]) # None
          /\ Concludes(r, Trusted(Quorum(got[r])))
       \/ /\ ~Shows(r, "tls") /\ Quorum(got[r]) = None
          /\ Turns(r, "plain", None)
          /\ UNCHANGED <<fast, proto, attempt, seen, blocked, over, stalled,
                         verdict, steady, exits, row>>

\* Without certificates.
InsecureEnds(r) ==
    /\ RoundEnds(r) /\ ~Shows(r, "blocked")
    /\ pc[r] = "insecure"
    /\ \/ /\ found[r] # None
          /\ Concludes(r, Trusted(found[r]))
       \/ /\ found[r] = None
          /\ Turns(r, "plain", Quorum(got[r]))
          /\ UNCHANGED <<fast, proto, attempt, seen, blocked, over, stalled,
                         verdict, steady, exits, row>>

\* Over plain HTTP: an address that is not vouched for, or another attempt.
PlainEnds(r) ==
    LET ip == IF found[r] # None THEN found[r] ELSE Quorum(got[r])
    IN  /\ RoundEnds(r) /\ ~Shows(r, "blocked")
        /\ pc[r] = "plain"
        /\ \/ /\ ip # None
              /\ Concludes(r, Untrusted(ip))
           \/ /\ ip = None
              /\ attempt[r] < ATTEMPTS /\ ~over[r]
              /\ Attempts(r, proto[r], attempt[r] + 1)
              /\ UNCHANGED blocked
           \/ /\ ip = None
              /\ attempt[r] = ATTEMPTS \/ over[r]
              /\ Exhausted(r, blocked[r])

---------------------------------------------------------------------------
(* The world.                                                              *)

\* A lookup, or the turn at a host, keeps the check waiting.
Stall(r) ==
    /\ pc[r] \in Rounds /\ ~stalled[r]
    /\ Event
    /\ stalled' = [stalled EXCEPT ![r] = TRUE]
    /\ UNCHANGED <<world, circuit, late, row, pc, fast, proto, attempt, got,
                   found, seen, blocked, over, verdict, steady, exits>>

\* A noisy time begins; its end is free.
NoiseChanges ==
    /\ noisy' = ~noisy
    /\ IF noisy THEN UNCHANGED events ELSE Event
    /\ UNCHANGED <<up, kind, exit, speaks, declared, circuit, late, row, check>>

\* A host goes down, or comes back, which is free.
HostChanges(u) ==
    /\ IF u \in up THEN Event /\ up' = up \ {u}
       ELSE UNCHANGED events /\ up' = up \cup {u}
    /\ steady' = [r \in Rows |-> steady[r] \ {u}]
    /\ UNCHANGED <<noisy, kind, exit, speaks, declared, circuit, late, row, pc,
                   fast, proto, attempt, got, found, seen, blocked, over,
                   stalled, verdict, exits>>

\* A proxy fails, recovers, is intercepted, or exits elsewhere.
ProxyChanges(r, k, ip) ==
    /\ \/ k # kind[r] /\ ip = exit[r]
       \/ k = kind[r] /\ ip # exit[r]
    /\ IF k = "works" /\ ip = exit[r] THEN UNCHANGED events ELSE Event
    /\ kind' = [kind EXCEPT ![r] = k]
    /\ exit' = [exit EXCEPT ![r] = ip]
    /\ steady' = [steady EXCEPT ![r] = {}]
    /\ exits' = [exits EXCEPT ![r] = IF pc[r] \in Rounds THEN @ \cup {ip} ELSE @]
    /\ UNCHANGED <<up, noisy, speaks, declared, circuit, late, row, pc, fast,
                   proto, attempt, got, found, seen, blocked, over, stalled,
                   verdict>>

Tick ==
    /\ \E u \in Hosts : open[u] > 0
    /\ open' = [u \in Hosts |-> IF open[u] > 0 THEN open[u] - 1 ELSE 0]
    /\ UNCHANGED <<world, late, fails, row, check, events>>

---------------------------------------------------------------------------

Step(r) ==
    BeginStrong(r) \/ BeginFast(r) \/ Ask(r) \/ AskNobody(r) \/ Record(r)
    \/ Call(r) \/ PortalEnds(r) \/ TlsEnds(r) \/ InsecureEnds(r) \/ PlainEnds(r)

Next ==
    \/ \E r \in Rows : Step(r) \/ Stall(r)
    \/ \E r \in Rows, ip \in Ips :
          \E k \in {"works", "down", "intercepts", "captive"} :
             ProxyChanges(r, k, ip)
    \/ \E u \in Others : OtherAsks(u) \/ \E failed \in BOOLEAN :
                                            OtherRecords(u, failed)
    \/ \E u \in Hosts : HostChanges(u)
    \/ NoiseChanges
    \/ Tick

Spec == Init /\ [][Next]_vars

\* The sweeps come round, and every call has a timeout.
FairSpec == Spec /\ (\A r \in Rows : WF_vars(Step(r))) /\ WF_vars(Tick)

---------------------------------------------------------------------------
(* Properties.                                                             *)

\* With at most one host that lies, the address that a strong check vouches
\* for is one where the proxy did exit during the attempt that found it.
TrustedIsTrue ==
    [][\A r \in Rows :
          (pc[r] \in Rounds /\ pc'[r] = "idle" /\ verdict'[r].trusted)
          => verdict'[r].exit \in exits[r]]_vars

\* The protocol that the proxy speaks is among those that are tried.
Tried(r) == known[r] \/ declared[r] \in {"auto", speaks[r]}

\* All through the check the proxy could be seen to work: by two honest
\* hosts that it may ask, or by the two that it asks over plain HTTP.
Evident(r) ==
    \/ Cardinality((avail[r] \cap steady[r]) \ Liars) >= 2
    \/ Plain \subseteq steady[r] \ Liars

\* "Its rate limits or failures do not independently mark a proxy dead":
\* no outage of other hosts, noise, slow calls or wrong first protocol makes
\* a proxy dead that could be seen working all through a strong check whose
\* time no stall took away.
WorkingNotDead ==
    [][\A r \in Rows :
          (pc[r] \in Rounds /\ pc'[r] = "idle" /\ verdict'[r].status = "dead")
          => ~(Tried(r) /\ ~stalled[r] /\ Evident(r))]_vars

\* An endpoint that the circuit keeps away from is tried again.
EndpointsReturn == \A u \in Hosts : []<>(u \notin Unavailable)

\* A working proxy whose protocol is tried is found live again and again,
\* once outages and noise are over and two honest hosts answer.
Concluded ==
    \A r \in Rows : []<>(\/ verdict[r].status \in {"live", "live_unverified"}
                         \/ kind[r] # "works" \/ ~Tried(r)
                         \/ noisy \/ Cardinality(up \ Liars) < 2)
=============================================================================
