------------------------------- MODULE Payouts -------------------------------
(***************************************************************************)
(* Contributor payouts: the wallets a user may be paid to, the payout      *)
(* request that reserves part of the user's available earnings, the        *)
(* administrator's approval and transaction submission, and the verifier   *)
(* process that reads the chain and settles the row.                       *)
(*                                                                         *)
(* Every database transaction is one action.  The verifier is several      *)
(* actions, because it commits its claim, reads the row again and then     *)
(* spends seconds in JSON-RPC calls while administrators may replace the   *)
(* transaction and other verifier processes may reclaim the row.           *)
(*                                                                         *)
(* Time is a set of countdowns (what is left of a lock, a lease or a       *)
(* retry delay), all decremented by Tick, so that the state space is       *)
(* finite without a bound on time.                                         *)
(***************************************************************************)
EXTENDS Integers, FiniteSets

CONSTANTS
    Users,              \* contributors (role 'user')
    Addresses,          \* normalised BEP20 addresses
    Hashes,             \* normalised transaction hashes
    Workers,            \* payout-verifier processes
    Tokens,             \* claim tokens, at least one per row and per process
    None,               \* NULL / ''
    MaxPayouts,         \* bound: rows of the payouts table
    Amounts,            \* gross amounts users ask for, up to MAX_PAYOUT
    MaxAvailable,       \* bound: available earnings of a user
    MIN_PAYOUT, FEE_TIER_THRESHOLD, FEE_TIER_LOW_BPS, FEE_TIER_HIGH_BPS,
    MaxOutstanding,     \* the configured queue limit of a user
    LOCK,               \* ticks of the 48-hour wallet lock
    CLAIM,              \* ticks of a verifier's lease
    RETRY               \* ticks until a pending verification is retried

ASSUME PayoutsAssumption ==
    /\ MaxPayouts \in Nat /\ MaxAvailable \in Nat /\ MaxOutstanding \in Nat
    /\ LOCK \in Nat /\ CLAIM \in Nat /\ RETRY \in Nat
    /\ Amounts \subseteq Nat
    /\ MIN_PAYOUT \in Nat /\ FEE_TIER_THRESHOLD \in Nat
    /\ FEE_TIER_LOW_BPS \in 0 .. 10000 /\ FEE_TIER_HIGH_BPS \in 0 .. 10000
    /\ None \notin Addresses \cup Hashes \cup Tokens

VARIABLES
    userStatus,   \* users.status
    inflight,     \* users with an authenticated web request in progress
    wallet,       \* the wallets table, one row per user
    available,    \* balances_for_user(...).available_micro_usd
    payout,       \* payouts: the columns written once, by the request
    status,       \* payouts.status
    tx,           \* payouts.tx_hash
    claim,        \* payouts: next_verification_at and the verifier's claim
    pc,           \* where each verifier process is in run_batch
    batch,        \* the claimed id and the row the process read back
    verdict,      \* the VerificationResult it holds
    age,          \* ticks since it took `current`
    transfer,     \* what each transaction hash transfers (fixed)
    stage         \* where each transaction is on the chain

webVars == <<userStatus, inflight, wallet, available>>
rowVars == <<payout, status, tx, claim>>
workerVars == <<pc, batch, verdict, age>>
chainVars == <<transfer, stage>>
vars == <<webVars, rowVars, workerVars, chainVars>>

PayoutIds == 1 .. MaxPayouts

Nonterminal == {"requested", "approved", "verifying"}
Reserving == {"requested", "approved", "verifying", "confirmed", "sent"}
Statuses == Reserving \cup {"failed"}

Wallet == [address : Addresses \cup {None}, lock : 0 .. LOCK]
NoWallet == [address |-> None, lock |-> 0]

\* "absent" is an id the table has not handed out yet.
Payout == [user : Users \cup {None}, address : Addresses \cup {None},
           amount : Nat, net : Int]
NoPayout == [user |-> None, address |-> None, amount |-> 0, net |-> 0]

\* Ticks until the row is due, ticks left of the lease, and its token.
Claim == [wait : 0 .. RETRY, lease : 0 .. CLAIM, token : Tokens \cup {None}]
NoClaim == [wait |-> 0, lease |-> 0, token |-> None]

Transfer == [to : Addresses \cup {None}, units : Int]
Stages == {"unseen", "mined_ok", "mined_reverted", "final_ok", "final_reverted"}
Verdicts == {"pending", "confirmed", "failed"}

\* Local variables of run_batch: the id it claimed, then the token, hash,
\* destination and net amount of the row it read back.
Batch == [id : PayoutIds \cup {0}, token : Tokens \cup {None}, tx : Hashes \cup {None},
          address : Addresses \cup {None}, net : Int]
NoBatch == [id |-> 0, token |-> None, tx |-> None, address |-> None, net |-> 0]

-----------------------------------------------------------------------------
(***************************************************************************)
(* Amounts.                                                                *)
(***************************************************************************)

\* quote_payout: the flat fee tier, the fee rounded down.
FeeBps(amount) ==
    IF amount >= FEE_TIER_THRESHOLD THEN FEE_TIER_HIGH_BPS ELSE FEE_TIER_LOW_BPS
Net(amount) == amount - ((amount * FeeBps(amount)) \div 10000)

\* SUM(amount_micro_usd) over the ids 1 .. n of a weight function.
SumTo(weight) ==
    LET sum[n \in 0 .. MaxPayouts] == IF n = 0 THEN 0 ELSE sum[n - 1] + weight[n] IN sum

\* The reserved total of user u, row `except` left out.
Reserved(u, except) ==
    SumTo([i \in PayoutIds |->
              IF i # except /\ payout[i].user = u /\ status[i] \in Reserving
              THEN payout[i].amount ELSE 0])[MaxPayouts]

Outstanding(u) ==
    Cardinality({i \in PayoutIds : payout[i].user = u /\ status[i] \in Nonterminal})

-----------------------------------------------------------------------------
(***************************************************************************)
(* Users, sessions and wallets.                                            *)
(***************************************************************************)

\* load_logged_in_user: the status is read once, before the view runs; the
\* view's own transaction comes later.
Authenticate(u) ==
    /\ userStatus[u] = "active"
    /\ u \notin inflight
    /\ inflight' = inflight \cup {u}
    /\ UNCHANGED <<userStatus, wallet, available, rowVars, workerVars, chainVars>>

\* A view that stores nothing: a rejected form, or any other page.
EndRequest(u) ==
    /\ u \in inflight
    /\ inflight' = inflight \ {u}
    /\ UNCHANGED <<userStatus, wallet, available, rowVars, workerVars, chainVars>>

\* approve_user, block_user and delete_user: no condition on the old status.
ChangeUser(u, s) ==
    /\ userStatus' = [userStatus EXCEPT ![u] = s]
    /\ UNCHANGED <<inflight, wallet, available, rowVars, workerVars, chainVars>>

\* Mutant: only accounts that still await approval reserve their address.
ReservesAddressWhilePending(v) == userStatus[v] = "pending"

\* Accounts in these states reserve the address of their wallet.
ReservesAddress(v) == userStatus[v] \in {"pending", "active"}

\* Mutant: payout history is not looked at before a stale wallet is deleted.
StaleHoldersIgnoringHistory(u, address) ==
    {v \in Users \ {u} :
        wallet[v].address = address /\ ~ ReservesAddress(v)}

\* Wallets of inactive accounts that no payout refers to.
StaleHolders(u, address) ==
    {v \in Users \ {u} :
        /\ wallet[v].address = address
        /\ ~ ReservesAddress(v)
        /\ ~ \E i \in PayoutIds : payout[i].user = v}

\* set_wallet: the lock, the conflict with a live account, the deletion of
\* stale holders, and the UNIQUE address column that rejects what is left.
SetWallet(u, address) ==
    /\ u \in inflight
    /\ wallet[u].address # None => wallet[u].lock = 0
    /\ ~ \E v \in Users \ {u} : wallet[v].address = address /\ ReservesAddress(v)
    /\ \A v \in Users \ ({u} \cup StaleHolders(u, address)) : wallet[v].address # address
    /\ wallet' = [v \in Users |->
                    IF v = u THEN [address |-> address, lock |-> LOCK]
                    ELSE IF v \in StaleHolders(u, address) THEN NoWallet
                    ELSE wallet[v]]
    /\ inflight' = inflight \ {u}
    /\ UNCHANGED <<userStatus, available, rowVars, workerVars, chainVars>>

\* The earnings ledger adds to the available bucket and never takes from it.
Earn(u, amount) ==
    /\ available[u] + amount <= MaxAvailable
    /\ available' = [available EXCEPT ![u] = @ + amount]
    /\ UNCHANGED <<userStatus, inflight, wallet, rowVars, workerVars, chainVars>>

-----------------------------------------------------------------------------
(***************************************************************************)
(* Requests, approval and submission.                                      *)
(***************************************************************************)

\* request_payout under BEGIN IMMEDIATE: one transaction.
RequestPayout(u, amount) ==
    /\ u \in inflight
    /\ amount >= MIN_PAYOUT
    /\ wallet[u].address # None
    /\ wallet[u].lock = 0
    /\ Outstanding(u) < MaxOutstanding
    /\ amount <= available[u] - Reserved(u, 0)
    /\ \E i \in PayoutIds :
          /\ status[i] = "absent"
          /\ \A j \in 1 .. (i - 1) : status[j] # "absent"
          /\ payout' = [payout EXCEPT ![i] =
                [user |-> u, address |-> wallet[u].address,
                 amount |-> amount, net |-> Net(amount)]]
          /\ status' = [status EXCEPT ![i] = "requested"]
    /\ inflight' = inflight \ {u}
    /\ UNCHANGED <<userStatus, wallet, available, tx, claim, workerVars, chainVars>>

ApprovePayout(i) ==
    /\ status[i] = "requested"
    /\ status' = [status EXCEPT ![i] = "approved"]
    /\ UNCHANGED <<webVars, payout, tx, claim, workerVars, chainVars>>

\* Mutant: a failed payout is retried as if it still held its reservation.
RetryNeedsNothing(i) == TRUE

\* A failed payout gave its reservation back and must fit the balance again.
RetryFitsBalance(i) ==
    status[i] = "failed" =>
        payout[i].amount <= available[payout[i].user] - Reserved(payout[i].user, i)

\* submit_payout_transaction: a failed payout must fit the balance again;
\* the hash may belong to no other payout; any claim is dropped.
SubmitPayoutTransaction(i, h) ==
    /\ status[i] \in {"approved", "failed", "verifying"}
    /\ RetryFitsBalance(i)
    /\ \A j \in PayoutIds \ {i} : tx[j] # h
    /\ status' = [status EXCEPT ![i] = "verifying"]
    /\ tx' = [tx EXCEPT ![i] = h]
    /\ claim' = [claim EXCEPT ![i] = NoClaim]
    /\ UNCHANGED <<webVars, payout, workerVars, chainVars>>

-----------------------------------------------------------------------------
(***************************************************************************)
(* The verifier process.                                                   *)
(***************************************************************************)

UsedTokens == {claim[i].token : i \in PayoutIds} \cup {batch[w].token : w \in Workers}

\* A fresh claim on row i, taken by process w.
TakeClaim(w, i) ==
    /\ \E t \in Tokens \ UsedTokens :
          claim' = [claim EXCEPT ![i] = [wait |-> 0, lease |-> CLAIM, token |-> t]]
    /\ pc' = [pc EXCEPT ![w] = "claimed"]
    /\ batch' = [batch EXCEPT ![w] =
          [id |-> i, token |-> None, tx |-> None, address |-> None, net |-> 0]]
    /\ UNCHANGED <<webVars, payout, status, tx, verdict, age, chainVars>>

\* Mutant: a lease that ran out is not taken over, only a released one.
ClaimOneReleasedOnly(w, i) ==
    /\ pc[w] = "idle"
    /\ status[i] = "verifying"
    /\ claim[i].wait = 0
    /\ claim[i].token = None
    /\ TakeClaim(w, i)

\* _claim_one up to its commit.  secrets.token_urlsafe never repeats a token,
\* and a token nobody holds any more is as good as a new one.  ORDER BY takes
\* the row that has been due longest; any due row may be that one here.
ClaimOne(w, i) ==
    /\ pc[w] = "idle"
    /\ status[i] = "verifying"
    /\ claim[i].wait = 0
    /\ claim[i].lease = 0
    /\ TakeClaim(w, i)

\* The SELECT after the commit is a transaction of its own: the row may have
\* been resubmitted, reclaimed or settled in between.
ReadBack(w) ==
    /\ pc[w] = "claimed"
    /\ pc' = [pc EXCEPT ![w] = "read"]
    /\ LET i == batch[w].id IN
       batch' = [batch EXCEPT ![w] =
          [id |-> i, token |-> claim[i].token, tx |-> tx[i],
           address |-> payout[i].address, net |-> payout[i].net]]
    /\ UNCHANGED <<webVars, rowVars, verdict, age, chainVars>>

\* verify_bsc_payout on what the receipt of the batch's transaction says.  A
\* revert is believed at any depth; everything else only once the receipt is
\* deep enough.
Verify(b) ==
    IF b.tx = None \/ stage[b.tx] \in {"unseen", "mined_ok"} THEN "pending"
    ELSE IF /\ stage[b.tx] = "final_ok"
            /\ transfer[b.tx] = [to |-> b.address, units |-> b.net]
         THEN "confirmed"
    ELSE "failed"

CheckReceipt(w) ==
    /\ pc[w] = "read"
    /\ pc' = [pc EXCEPT ![w] = "checked"]
    /\ verdict' = [verdict EXCEPT ![w] = Verify(batch[w])]
    /\ UNCHANGED <<webVars, rowVars, batch, age, chainVars>>

\* An RPC failure, a wrong chain or a malformed answer is a pending verdict.
RpcFails(w) ==
    /\ pc[w] = "read"
    /\ pc' = [pc EXCEPT ![w] = "checked"]
    /\ verdict' = [verdict EXCEPT ![w] = "pending"]
    /\ UNCHANGED <<webVars, rowVars, batch, age, chainVars>>

\* Mutant: the UPDATE is not fenced by the claim token.
HoldsClaimUnfenced(w) ==
    batch[w].token # None /\ status[batch[w].id] = "verifying"

\* The row is still verifying and still carries this process's token.
HoldsClaim(w) ==
    /\ batch[w].token # None
    /\ status[batch[w].id] = "verifying"
    /\ claim[batch[w].id].token = batch[w].token

\* The process is done with its batch, or gone.
BackToIdle(w) ==
    /\ pc' = [pc EXCEPT ![w] = "idle"]
    /\ batch' = [batch EXCEPT ![w] = NoBatch]
    /\ verdict' = [verdict EXCEPT ![w] = "pending"]
    /\ age' = [age EXCEPT ![w] = 0]

\* current + DEFAULT_RETRY_MINUTES, as seen when the verdict is stored.
RetryIn(w) == RETRY - age[w]

\* apply_payout_verification, given that its UPDATE finds the row.  The retry
\* time is counted from `current`, taken before the claim.
ApplyVerdict(w) ==
    /\ pc[w] = "checked"
    /\ HoldsClaim(w)
    /\ status' = [status EXCEPT ![batch[w].id] =
                     IF verdict[w] = "pending" THEN "verifying" ELSE verdict[w]]
    /\ claim' = [claim EXCEPT ![batch[w].id] =
                    [wait |-> IF verdict[w] = "pending" THEN RetryIn(w) ELSE 0,
                     lease |-> 0, token |-> None]]
    /\ BackToIdle(w)
    /\ UNCHANGED <<webVars, payout, tx, chainVars>>

\* run_batch's except clause: an unexpected exception of the verifier, the
\* LookupError of an UPDATE that found no row, or a database error, releases
\* the claim this process still holds and ends the process; systemd starts it
\* again.
ReleaseClaim(w) ==
    /\ pc[w] \in {"read", "checked"}
    /\ claim' = IF HoldsClaim(w)
                THEN [claim EXCEPT ![batch[w].id] =
                        [wait |-> @.wait, lease |-> 0, token |-> None]]
                ELSE claim
    /\ BackToIdle(w)
    /\ UNCHANGED <<webVars, payout, status, tx, chainVars>>

\* The process dies; the lease stays in the row until it expires.
Crash(w) ==
    /\ pc[w] # "idle"
    /\ BackToIdle(w)
    /\ UNCHANGED <<webVars, rowVars, chainVars>>

-----------------------------------------------------------------------------
(***************************************************************************)
(* The chain (external) and the clock.                                     *)
(***************************************************************************)

\* A shallow receipt may be reorganised away; a deep one stays.
ChainStep(h) ==
    /\ \/ /\ stage[h] = "unseen"
          /\ stage' \in {[stage EXCEPT ![h] = s] : s \in {"mined_ok", "mined_reverted"}}
       \/ /\ stage[h] \in {"mined_ok", "mined_reverted"}
          /\ stage' = [stage EXCEPT ![h] = "unseen"]
       \/ /\ stage[h] = "mined_ok"
          /\ stage' = [stage EXCEPT ![h] = "final_ok"]
       \/ /\ stage[h] = "mined_reverted"
          /\ stage' = [stage EXCEPT ![h] = "final_reverted"]
    /\ UNCHANGED <<webVars, rowVars, workerVars, transfer>>

Dec(n) == IF n = 0 THEN 0 ELSE n - 1

Tick ==
    /\ wallet' = [u \in Users |-> [address |-> wallet[u].address, lock |-> Dec(wallet[u].lock)]]
    /\ claim' = [i \in PayoutIds |->
                   [wait |-> Dec(claim[i].wait), lease |-> Dec(claim[i].lease),
                    token |-> claim[i].token]]
    /\ age' = [w \in Workers |->
                 IF pc[w] # "idle" /\ age[w] < RETRY THEN age[w] + 1 ELSE age[w]]
    /\ UNCHANGED <<userStatus, inflight, available, payout, status, tx,
                   pc, batch, verdict, chainVars>>

-----------------------------------------------------------------------------
Init ==
    /\ userStatus = [u \in Users |-> "pending"]
    /\ inflight = {}
    /\ wallet = [u \in Users |-> NoWallet]
    /\ available = [u \in Users |-> 0]
    /\ payout = [i \in PayoutIds |-> NoPayout]
    /\ status = [i \in PayoutIds |-> "absent"]
    /\ tx = [i \in PayoutIds |-> None]
    /\ claim = [i \in PayoutIds |-> NoClaim]
    /\ pc = [w \in Workers |-> "idle"]
    /\ batch = [w \in Workers |-> NoBatch]
    /\ verdict = [w \in Workers |-> "pending"]
    /\ age = [w \in Workers |-> 0]
    /\ transfer \in [Hashes -> [to : Addresses, units : {Net(a) : a \in Amounts}]]
    /\ stage = [h \in Hashes |-> "unseen"]

WebStep ==
    \E u \in Users :
        \/ Authenticate(u)
        \/ EndRequest(u)
        \/ \E s \in {"active", "blocked", "deleted"} : ChangeUser(u, s)
        \/ \E a \in Addresses : SetWallet(u, a)
        \/ \E a \in Amounts : Earn(u, a)
        \/ \E a \in Amounts : RequestPayout(u, a)

AdminStep ==
    \E i \in PayoutIds :
        \/ ApprovePayout(i)
        \/ \E h \in Hashes : SubmitPayoutTransaction(i, h)

VerifierStep(w) ==
    \/ \E i \in PayoutIds : ClaimOne(w, i)
    \/ ReadBack(w)
    \/ CheckReceipt(w)
    \/ RpcFails(w)
    \/ ApplyVerdict(w)
    \/ ReleaseClaim(w)
    \/ Crash(w)

Next ==
    \/ WebStep
    \/ AdminStep
    \/ \E w \in Workers : VerifierStep(w)
    \/ \E h \in Hashes : ChainStep(h)
    \/ Tick

Spec == Init /\ [][Next]_vars

(***************************************************************************)
(* Fairness.  The clock runs; the verifier is restarted whenever it stops  *)
(* (Restart=always) and is not killed in the middle of every batch, and    *)
(* the RPC endpoint is not down in every batch: strong fairness of its     *)
(* steps, and of storing the verdicts that are final.  Claims are fair     *)
(* to each payout because ORDER BY takes the row that has been due         *)
(* longest.  Users, administrators, crashes, RPC failures and the chain    *)
(* owe nothing.                                                            *)
(***************************************************************************)
FairSpec ==
    /\ Spec
    /\ WF_vars(Tick)
    /\ \A w \in Workers :
          /\ \A i \in PayoutIds : SF_vars(ClaimOne(w, i))
          /\ SF_vars(ReadBack(w))
          /\ SF_vars(CheckReceipt(w))
          /\ SF_vars(ApplyVerdict(w))
          /\ SF_vars(ApplyVerdict(w) /\ verdict[w] # "pending")
          /\ WF_vars(ReleaseClaim(w) /\ pc[w] = "checked" /\ ~ HoldsClaim(w))

-----------------------------------------------------------------------------
(***************************************************************************)
(* Properties.                                                             *)
(***************************************************************************)

\* The tables and the local variables of the verifier hold values of their
\* types (the columns and countdowns of wallets.py, payouts.py and
\* payout_verifier_service.py).
TypeOK ==
    /\ userStatus \in [Users -> {"pending", "active", "blocked", "deleted"}]
    /\ inflight \subseteq Users
    /\ wallet \in [Users -> Wallet]
    /\ available \in [Users -> Nat]
    /\ payout \in [PayoutIds -> Payout]
    /\ status \in [PayoutIds -> Statuses \cup {"absent"}]
    /\ tx \in [PayoutIds -> Hashes \cup {None}]
    /\ claim \in [PayoutIds -> Claim]
    /\ pc \in [Workers -> {"idle", "claimed", "read", "checked"}]
    /\ batch \in [Workers -> Batch]
    /\ \A w \in Workers : pc[w] # "idle" => batch[w].id \in PayoutIds
    /\ verdict \in [Workers -> Verdicts]
    /\ age \in [Workers -> 0 .. RETRY]
    /\ transfer \in [Hashes -> Transfer]
    /\ stage \in [Hashes -> Stages]

\* The amounts of a user's payouts that are queued, in verification or paid
\* never exceed what the user has earned: concurrent requests, and retries of
\* failed payouts that gave their reservation back, cannot reserve the same
\* earnings twice (request_payout, submit_payout_transaction).
ReservedWithinAvailable ==
    \A u \in Users : Reserved(u, 0) <= available[u]

\* A confirmed payout is backed by a final transfer of exactly its net amount
\* to the address it was requested for, and that transfer backs no other
\* payout: a verdict reached about one transaction is never stored for another
\* one, however submission, lease expiry and a second verifier interleave
\* (apply_payout_verification's claim token).
ConfirmedIsPaid ==
    \A i \in PayoutIds : status[i] = "confirmed" =>
        /\ tx[i] # None
        /\ stage[tx[i]] = "final_ok"
        /\ transfer[tx[i]] = [to |-> payout[i].address, units |-> payout[i].net]
        /\ \A j \in PayoutIds \ {i} : tx[j] # tx[i]

\* The wallet row a payout refers to is never deleted, although another
\* account may take over the address of an inactive one (set_wallet).
PayoutKeepsItsWallet ==
    \A i \in PayoutIds : status[i] # "absent" => wallet[payout[i].user].address # None

\* An account that is awaiting approval or active never loses its wallet to
\* another account's set_wallet, and no address is held by two accounts.
LiveWalletKept ==
    [][/\ \A u \in Users :
             userStatus[u] \in {"pending", "active"} /\ wallet[u].address # None
             => wallet'[u].address # None
       /\ \A u, v \in Users :
             u # v /\ wallet'[u].address # None
             => wallet'[u].address # wallet'[v].address]_vars

\* README, on the queue limit: a contributor has at most MaxOutstanding
\* nonterminal payouts.  Retrying a failed payout makes it nonterminal again
\* without consulting the limit.
OutstandingWithinLimit == \A u \in Users : Outstanding(u) <= MaxOutstanding

\* Once administrators stop replacing transactions, a payout whose
\* transaction is final does not stay in verification: crashed, failed and
\* overtaken verifiers leave nothing behind that blocks it (leases expire,
\* claims are released, pending verdicts are retried).
Deep(h) == h # None /\ stage[h] \in {"final_ok", "final_reverted"}
Submission == \E i \in PayoutIds, h \in Hashes : SubmitPayoutTransaction(i, h)
FinalTransactionSettles ==
    <>[][~ Submission]_vars =>
        \A i \in PayoutIds :
            (status[i] = "verifying" /\ Deep(tx[i]))
                ~> (status[i] # "verifying" \/ ~ Deep(tx[i]))
=============================================================================
