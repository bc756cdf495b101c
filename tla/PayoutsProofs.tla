---------------------------- MODULE PayoutsProofs ----------------------------
(***************************************************************************)
(* TLAPS proofs about Payouts, for every set of users, addresses, hashes,  *)
(* verifier processes and tokens and every value of the bounds:            *)
(*                                                                         *)
(*   PayoutsTypeCorrect   Spec => []TypeOK                                 *)
(*   PayoutsConfirmed     Spec => []ConfirmedIsPaid                        *)
(*   PayoutsKeepWallets   Spec => []PayoutKeepsItsWallet                   *)
(*   PayoutsLiveWallets   Spec => LiveWalletKept                           *)
(*   PayoutsReserved      Spec => []ReservedWithinAvailable                *)
(*                                                                         *)
(* ConfirmedIsPaid is not inductive: what makes a stored verdict right is  *)
(* that the row still carries the token the process read together with    *)
(* the transaction it then looked up.  That is Fence; VerdictsRight says   *)
(* what a confirmed verdict in flight means; TxUnique is the uniqueness of *)
(* submitted hashes.  The wallet properties need that a payout's user      *)
(* exists and that addresses are unique (WalletInv).                       *)
(*                                                                         *)
(* ReservedWithinAvailable is inductive, but a step of it compares two     *)
(* sums over the rows.  SumToUpdate (one weight changed: the total changes *)
(* by the difference) is proved by looking at the least row at which it    *)
(* would fail (LeastNatural).                                              *)
(***************************************************************************)
EXTENDS Payouts, TLAPS, WellFoundedInduction

\* What the types below need of the constants.
LEMMA PayoutNats ==
    MaxPayouts \in Nat /\ LOCK \in Nat /\ CLAIM \in Nat /\ RETRY \in Nat /\ Amounts \subseteq Nat
BY PayoutsAssumption

LEMMA NetInt == \A a \in Nat : Net(a) \in Int
BY PayoutsAssumption DEF Net, FeeBps

\* The empty row of each table has the type of the table.
LEMMA EmptyRows ==
    NoWallet \in Wallet /\ NoPayout \in Payout /\ NoClaim \in Claim /\ NoBatch \in Batch
<1>1. NoWallet \in Wallet
  BY PayoutNats DEF NoWallet, Wallet
<1>2. NoPayout \in Payout
  BY DEF NoPayout, Payout
<1>3. NoClaim \in Claim
  BY PayoutNats DEF NoClaim, Claim
<1>4. NoBatch \in Batch
  BY DEF NoBatch, Batch
<1> QED BY <1>1, <1>2, <1>3, <1>4

\* Every table and every local variable of the verifier keeps its type: leases
\* and retry delays never leave their ranges, and a process that is not idle
\* always holds the id of a row (payout_verifier_service._claim_one).
THEOREM PayoutsTypeCorrect == Spec => []TypeOK
<1>1. Init => TypeOK
  <2> SUFFICES ASSUME Init PROVE TypeOK
    OBVIOUS
  <2>1. /\ wallet \in [Users -> Wallet] /\ payout \in [PayoutIds -> Payout]
        /\ claim \in [PayoutIds -> Claim] /\ batch \in [Workers -> Batch]
    BY EmptyRows DEF Init
  <2>2. transfer \in [Hashes -> Transfer]
    <3>1. [to : Addresses, units : {Net(a) : a \in Amounts}] \subseteq Transfer
      BY NetInt, PayoutNats DEF Transfer
    <3> QED BY <3>1 DEF Init
  <2>3. /\ available \in [Users -> Nat] /\ age \in [Workers -> 0 .. RETRY]
        /\ \A w \in Workers : pc[w] = "idle"
    BY PayoutNats DEF Init
  <2>4. /\ userStatus \in [Users -> {"pending", "active", "blocked", "deleted"}]
        /\ inflight \subseteq Users
        /\ status \in [PayoutIds -> Statuses \cup {"absent"}]
        /\ tx \in [PayoutIds -> Hashes \cup {None}]
        /\ pc \in [Workers -> {"idle", "claimed", "read", "checked"}]
        /\ verdict \in [Workers -> Verdicts] /\ stage \in [Hashes -> Stages]
    BY DEF Init, Verdicts, Stages
  <2> QED BY <2>1, <2>2, <2>3, <2>4 DEF TypeOK
<1>2. TypeOK /\ [Next]_vars => TypeOK'
  <2> SUFFICES ASSUME TypeOK, [Next]_vars PROVE TypeOK'
    OBVIOUS
  <2> USE DEF webVars, rowVars, workerVars, chainVars
  <2>1. ASSUME NEW u \in Users, Authenticate(u) PROVE TypeOK'
    BY <2>1 DEF Authenticate, TypeOK
  <2>2. ASSUME NEW u \in Users, EndRequest(u) PROVE TypeOK'
    BY <2>2 DEF EndRequest, TypeOK
  <2>3. ASSUME NEW u \in Users, NEW s \in {"active", "blocked", "deleted"}, ChangeUser(u, s)
        PROVE  TypeOK'
    BY <2>3 DEF ChangeUser, TypeOK
  <2>4. ASSUME NEW u \in Users, NEW a \in Addresses, SetWallet(u, a) PROVE TypeOK'
    <3>1. [address |-> a, lock |-> LOCK] \in Wallet
      BY PayoutNats DEF Wallet
    <3>2. wallet' \in [Users -> Wallet]
      BY <2>4, <3>1, EmptyRows DEF SetWallet, TypeOK
    <3>3. inflight' \subseteq Users /\ UNCHANGED <<userStatus, available, rowVars, workerVars, chainVars>>
      BY <2>4 DEF SetWallet, TypeOK
    <3> QED BY <3>2, <3>3 DEF TypeOK
  <2>5. ASSUME NEW u \in Users, NEW a \in Amounts, Earn(u, a) PROVE TypeOK'
    <3>1. a \in Nat
      BY PayoutNats
    <3>2. available' \in [Users -> Nat]
      BY <2>5, <3>1 DEF Earn, TypeOK
    <3>3. UNCHANGED <<userStatus, inflight, wallet, rowVars, workerVars, chainVars>>
      BY <2>5 DEF Earn
    <3> QED BY <3>2, <3>3 DEF TypeOK
  <2>6. ASSUME NEW u \in Users, NEW a \in Amounts, RequestPayout(u, a) PROVE TypeOK'
    <3>1. a \in Nat /\ Net(a) \in Int
      BY NetInt, PayoutNats
    <3>2. PICK i \in PayoutIds :
            /\ status[i] = "absent"
            /\ \A j \in 1 .. (i - 1) : status[j] # "absent"
            /\ payout' = [payout EXCEPT ![i] =
                 [user |-> u, address |-> wallet[u].address, amount |-> a, net |-> Net(a)]]
            /\ status' = [status EXCEPT ![i] = "requested"]
      BY <2>6 DEF RequestPayout
    <3>3. payout' \in [PayoutIds -> Payout]
      <4>1. wallet[u].address \in Addresses \cup {None}
        BY DEF TypeOK, Wallet
      <4>2. [user |-> u, address |-> wallet[u].address, amount |-> a, net |-> Net(a)] \in Payout
        BY <3>1, <4>1 DEF Payout
      <4> QED BY <3>2, <4>2 DEF TypeOK
    <3>4. status' \in [PayoutIds -> Statuses \cup {"absent"}]
      BY <3>2 DEF TypeOK, Statuses, Reserving
    <3>5. /\ inflight' \subseteq Users
          /\ UNCHANGED <<userStatus, wallet, available, tx, claim, workerVars, chainVars>>
      BY <2>6 DEF RequestPayout, TypeOK
    <3> QED
      BY <3>3, <3>4, <3>5 DEF TypeOK
  <2>7. ASSUME NEW i \in PayoutIds, ApprovePayout(i) PROVE TypeOK'
    BY <2>7 DEF ApprovePayout, TypeOK, Statuses, Reserving
  <2>8. ASSUME NEW i \in PayoutIds, NEW h \in Hashes, SubmitPayoutTransaction(i, h)
        PROVE  TypeOK'
    <3>1. claim' \in [PayoutIds -> Claim]
      BY <2>8, EmptyRows DEF SubmitPayoutTransaction, TypeOK
    <3>2. /\ status' \in [PayoutIds -> Statuses \cup {"absent"}]
          /\ tx' \in [PayoutIds -> Hashes \cup {None}]
      BY <2>8 DEF SubmitPayoutTransaction, TypeOK, Statuses, Reserving
    <3>3. UNCHANGED <<webVars, payout, workerVars, chainVars>>
      BY <2>8 DEF SubmitPayoutTransaction
    <3> QED BY <3>1, <3>2, <3>3 DEF TypeOK
  <2>9. ASSUME NEW w \in Workers, NEW i \in PayoutIds, ClaimOne(w, i) PROVE TypeOK'
    <3>1. claim' \in [PayoutIds -> Claim]
      <4>1. PICK t \in Tokens : claim' = [claim EXCEPT ![i] =
                                            [wait |-> 0, lease |-> CLAIM, token |-> t]]
        BY <2>9 DEF ClaimOne, TakeClaim
      <4>2. [wait |-> 0, lease |-> CLAIM, token |-> t] \in Claim
        BY PayoutNats DEF Claim
      <4> QED BY <4>1, <4>2 DEF TypeOK
    <3>2. batch' \in [Workers -> Batch]
      BY <2>9 DEF ClaimOne, TakeClaim, TypeOK, Batch
    <3>3. /\ pc' \in [Workers -> {"idle", "claimed", "read", "checked"}]
          /\ \A v \in Workers : pc'[v] # "idle" => batch'[v].id \in PayoutIds
      BY <2>9 DEF ClaimOne, TakeClaim, TypeOK, Batch
    <3> QED
      BY <2>9, <3>1, <3>2, <3>3 DEF ClaimOne, TakeClaim, TypeOK
  <2>10. ASSUME NEW w \in Workers, ReadBack(w) PROVE TypeOK'
    <3>1. batch[w].id \in PayoutIds
      BY <2>10 DEF ReadBack, TypeOK
    <3>2. batch' \in [Workers -> Batch]
      BY <2>10, <3>1 DEF ReadBack, TypeOK, Batch, Claim, Payout
    <3>3. /\ pc' \in [Workers -> {"idle", "claimed", "read", "checked"}]
          /\ \A v \in Workers : pc'[v] # "idle" => batch'[v].id \in PayoutIds
      BY <2>10, <3>1 DEF ReadBack, TypeOK, Batch
    <3>4. UNCHANGED <<webVars, rowVars, verdict, age, chainVars>>
      BY <2>10 DEF ReadBack
    <3> QED
      BY <3>2, <3>3, <3>4 DEF TypeOK
  <2>11. ASSUME NEW w \in Workers, CheckReceipt(w) PROVE TypeOK'
    BY <2>11 DEF CheckReceipt, Verify, TypeOK, Verdicts
  <2>12. ASSUME NEW w \in Workers, RpcFails(w) PROVE TypeOK'
    BY <2>12 DEF RpcFails, TypeOK, Verdicts
  <2>13. ASSUME NEW w \in Workers, BackToIdle(w)
         PROVE  /\ pc' \in [Workers -> {"idle", "claimed", "read", "checked"}]
                /\ batch' \in [Workers -> Batch]
                /\ \A v \in Workers : pc'[v] # "idle" => batch'[v].id \in PayoutIds
                /\ verdict' \in [Workers -> Verdicts]
                /\ age' \in [Workers -> 0 .. RETRY]
    <3>1. batch' \in [Workers -> Batch] /\ verdict' \in [Workers -> Verdicts]
      BY <2>13, EmptyRows DEF BackToIdle, TypeOK, Verdicts
    <3>2. age' \in [Workers -> 0 .. RETRY]
      BY <2>13, PayoutNats DEF BackToIdle, TypeOK
    <3>3. pc' \in [Workers -> {"idle", "claimed", "read", "checked"}]
      BY <2>13 DEF BackToIdle, TypeOK
    <3>4. \A v \in Workers : pc'[v] # "idle" => batch'[v].id \in PayoutIds
      BY <2>13 DEF BackToIdle, TypeOK
    <3> QED BY <3>1, <3>2, <3>3, <3>4
  <2>14. ASSUME NEW w \in Workers, ApplyVerdict(w) PROVE TypeOK'
    <3>1. RetryIn(w) \in 0 .. RETRY
      BY PayoutNats DEF RetryIn, TypeOK
    <3>2. claim' \in [PayoutIds -> Claim]
      <4> DEFINE c == [wait |-> IF verdict[w] = "pending" THEN RetryIn(w) ELSE 0,
                       lease |-> 0, token |-> None]
      <4>1. c \in Claim
        BY <3>1, PayoutNats DEF Claim
      <4>2. claim' = [claim EXCEPT ![batch[w].id] = c]
        BY <2>14 DEF ApplyVerdict
      <4> HIDE DEF c
      <4> QED BY <4>1, <4>2 DEF TypeOK
    <3>3. status' \in [PayoutIds -> Statuses \cup {"absent"}]
      BY <2>14 DEF ApplyVerdict, TypeOK, Statuses, Reserving, Verdicts
    <3>4. BackToIdle(w) /\ UNCHANGED <<webVars, payout, tx, chainVars>>
      BY <2>14 DEF ApplyVerdict
    <3> QED
      BY <2>13, <3>2, <3>3, <3>4 DEF TypeOK
  <2>15. ASSUME NEW w \in Workers, ReleaseClaim(w) PROVE TypeOK'
    <3>1. claim' \in [PayoutIds -> Claim]
      BY <2>15, PayoutNats DEF ReleaseClaim, TypeOK, Claim
    <3>2. BackToIdle(w) /\ UNCHANGED <<webVars, payout, status, tx, chainVars>>
      BY <2>15 DEF ReleaseClaim
    <3> QED
      BY <2>13, <3>1, <3>2 DEF TypeOK
  <2>16. ASSUME NEW w \in Workers, Crash(w) PROVE TypeOK'
    <3>1. BackToIdle(w) /\ UNCHANGED <<webVars, rowVars, chainVars>>
      BY <2>16 DEF Crash
    <3> QED
      BY <2>13, <3>1 DEF TypeOK
  <2>17. ASSUME NEW h \in Hashes, ChainStep(h) PROVE TypeOK'
    <3>1. stage' \in [Hashes -> Stages]
      BY <2>17 DEF ChainStep, TypeOK, Stages
    <3> QED
      BY <2>17, <3>1 DEF ChainStep, TypeOK
  <2>18. CASE Tick
    <3>0. \A n \in Nat : \A m \in 0 .. n : Dec(m) \in 0 .. n
      BY DEF Dec
    <3>1. wallet' \in [Users -> Wallet]
      <4>1. \A u \in Users : wallet[u].address \in Addresses \cup {None}
                              /\ Dec(wallet[u].lock) \in 0 .. LOCK
        BY <3>0, PayoutNats DEF TypeOK, Wallet
      <4>2. wallet' = [u \in Users |-> [address |-> wallet[u].address,
                                        lock |-> Dec(wallet[u].lock)]]
        BY <2>18 DEF Tick
      <4> QED
        BY <4>1, <4>2 DEF Wallet
    <3>2. claim' \in [PayoutIds -> Claim]
      <4>1. \A i \in PayoutIds : /\ Dec(claim[i].wait) \in 0 .. RETRY
                                  /\ Dec(claim[i].lease) \in 0 .. CLAIM
                                  /\ claim[i].token \in Tokens \cup {None}
        BY <3>0, PayoutNats DEF TypeOK, Claim
      <4>2. claim' = [i \in PayoutIds |-> [wait |-> Dec(claim[i].wait),
                                           lease |-> Dec(claim[i].lease),
                                           token |-> claim[i].token]]
        BY <2>18 DEF Tick
      <4>3. \A i \in PayoutIds : [wait |-> Dec(claim[i].wait), lease |-> Dec(claim[i].lease),
                                  token |-> claim[i].token] \in Claim
        BY <4>1 DEF Claim
      <4> QED
        BY <4>2, <4>3
    <3>3. age' \in [Workers -> 0 .. RETRY]
      <4>1. \A w \in Workers : age[w] \in 0 .. RETRY
        BY DEF TypeOK
      <4>2. \A w \in Workers : age'[w] = age[w] \/ age'[w] \in 0 .. RETRY
        BY <2>18, <4>1, PayoutNats DEF Tick
      <4>3. age' = [w \in Workers |-> age'[w]]
        BY <2>18 DEF Tick
      <4> QED BY <4>1, <4>2, <4>3
    <3>4. UNCHANGED <<userStatus, inflight, available, payout, status, tx, pc, batch,
                      verdict, transfer, stage>>
      BY <2>18 DEF Tick
    <3> QED
      BY <3>1, <3>2, <3>3, <3>4 DEF TypeOK
  <2>19. CASE UNCHANGED vars
    BY <2>19 DEF vars, TypeOK
  <2>20. CASE WebStep
    BY <2>20, <2>1, <2>2, <2>3, <2>4, <2>5, <2>6 DEF WebStep
  <2>21. CASE AdminStep
    BY <2>21, <2>7, <2>8 DEF AdminStep
  <2>22. CASE \E w \in Workers : VerifierStep(w)
    BY <2>22, <2>9, <2>10, <2>11, <2>12, <2>14, <2>15, <2>16 DEF VerifierStep
  <2> QED
    BY <2>17, <2>18, <2>19, <2>20, <2>21, <2>22 DEF Next
<1> QED
  BY <1>1, <1>2, PTL DEF Spec

-----------------------------------------------------------------------------
(***************************************************************************)
(* The inductive invariant behind ConfirmedIsPaid.                         *)
(***************************************************************************)

TxUnique ==
    \A i, j \in PayoutIds : i # j /\ tx[i] # None => tx[i] # tx[j]

\* An id that is not handed out has no transaction and no claim.
AbsentRows ==
    \A i \in PayoutIds : status[i] = "absent" => tx[i] = None /\ claim[i].token = None

\* While the row carries the token a process read back, the row is still the
\* one that process read.
Fence ==
    \A w \in Workers :
        /\ pc[w] \in {"read", "checked"}
        /\ batch[w].token # None
        /\ claim[batch[w].id].token = batch[w].token
        => /\ batch[w].tx = tx[batch[w].id]
           /\ batch[w].address = payout[batch[w].id].address
           /\ batch[w].net = payout[batch[w].id].net

\* A confirmed verdict in flight is right about the transaction it was
\* reached on.
VerdictsRight ==
    \A w \in Workers : pc[w] = "checked" /\ verdict[w] = "confirmed" =>
        /\ batch[w].tx # None
        /\ stage[batch[w].tx] = "final_ok"
        /\ transfer[batch[w].tx] = [to |-> batch[w].address, units |-> batch[w].net]

\* A confirmed row is backed by its transaction.
RowsRight ==
    \A i \in PayoutIds : status[i] = "confirmed" =>
        /\ tx[i] # None
        /\ stage[tx[i]] = "final_ok"
        /\ transfer[tx[i]] = [to |-> payout[i].address, units |-> payout[i].net]

FenceInv == TxUnique /\ AbsentRows /\ Fence /\ VerdictsRight /\ RowsRight

LEMMA FenceInvInit == Init => FenceInv
BY DEF Init, FenceInv, TxUnique, AbsentRows, Fence, VerdictsRight, RowsRight, NoClaim

\* The web views that write no payout leave the invariant's variables alone.
LEMMA FenceInvFrame ==
    ASSUME FenceInv, UNCHANGED <<payout, status, tx, claim, pc, batch, verdict, transfer, stage>>
    PROVE  FenceInv'
BY DEF FenceInv, TxUnique, AbsentRows, Fence, VerdictsRight, RowsRight

LEMMA FenceInvRequest ==
    ASSUME TypeOK, FenceInv, NEW u \in Users, NEW a \in Amounts, RequestPayout(u, a)
    PROVE  FenceInv'
<1> USE DEF chainVars, workerVars
<1>1. PICK i \in PayoutIds :
        /\ status[i] = "absent"
        /\ \A j \in 1 .. (i - 1) : status[j] # "absent"
        /\ payout' = [payout EXCEPT ![i] =
             [user |-> u, address |-> wallet[u].address, amount |-> a, net |-> Net(a)]]
        /\ status' = [status EXCEPT ![i] = "requested"]
  BY DEF RequestPayout
<1>2. UNCHANGED <<tx, claim, pc, batch, verdict, transfer, stage>>
  BY DEF RequestPayout
<1>3. \A j \in PayoutIds : j # i => payout'[j] = payout[j] /\ status'[j] = status[j]
  BY <1>1 DEF TypeOK
<1>4. tx[i] = None /\ claim[i].token = None /\ status'[i] = "requested"
  BY <1>1 DEF FenceInv, AbsentRows, TypeOK
<1>5. TxUnique' /\ AbsentRows'
  BY <1>2, <1>3, <1>4 DEF FenceInv, TxUnique, AbsentRows
<1>6. Fence'
  BY <1>2, <1>3, <1>4 DEF FenceInv, Fence, TypeOK
<1>7. VerdictsRight' /\ RowsRight'
  BY <1>2, <1>3, <1>4 DEF FenceInv, VerdictsRight, RowsRight
<1> QED
  BY <1>5, <1>6, <1>7 DEF FenceInv

LEMMA FenceInvAdmin ==
    ASSUME TypeOK, FenceInv, AdminStep
    PROVE  FenceInv'
<1> USE DEF chainVars, workerVars
<1>1. ASSUME NEW i \in PayoutIds, ApprovePayout(i) PROVE FenceInv'
  BY <1>1 DEF ApprovePayout, TypeOK, FenceInv, TxUnique, AbsentRows, Fence,
              VerdictsRight, RowsRight
<1>2. ASSUME NEW i \in PayoutIds, NEW h \in Hashes, SubmitPayoutTransaction(i, h)
      PROVE  FenceInv'
  <2>1. /\ status' = [status EXCEPT ![i] = "verifying"]
        /\ tx' = [tx EXCEPT ![i] = h]
        /\ claim' = [claim EXCEPT ![i] = NoClaim]
        /\ UNCHANGED <<payout, pc, batch, verdict, transfer, stage>>
        /\ \A j \in PayoutIds \ {i} : tx[j] # h
    BY <1>2 DEF SubmitPayoutTransaction
  <2>2. \A j \in PayoutIds \ {i} : tx'[j] = tx[j] /\ claim'[j] = claim[j] /\ status'[j] = status[j]
    BY <2>1 DEF TypeOK
  <2>3. claim'[i].token = None /\ tx'[i] = h /\ status'[i] = "verifying"
    BY <2>1 DEF TypeOK, NoClaim
  <2>4. TxUnique' /\ AbsentRows'
    BY <2>1, <2>2, <2>3 DEF FenceInv, TxUnique, AbsentRows
  <2>5. Fence'
    BY <2>1, <2>2, <2>3 DEF FenceInv, Fence, TypeOK
  <2>6. VerdictsRight' /\ RowsRight'
    BY <2>1, <2>2, <2>3 DEF FenceInv, VerdictsRight, RowsRight
  <2> QED
    BY <2>4, <2>5, <2>6 DEF FenceInv
<1> QED
  BY <1>1, <1>2 DEF AdminStep

LEMMA FenceInvVerifier ==
    ASSUME TypeOK, FenceInv, NEW w \in Workers, VerifierStep(w)
    PROVE  FenceInv'
<1> USE DEF chainVars, workerVars, rowVars
<1>1. ASSUME NEW i \in PayoutIds, ClaimOne(w, i) PROVE FenceInv'
  <2>1. PICK t \in Tokens \ UsedTokens :
          claim' = [claim EXCEPT ![i] = [wait |-> 0, lease |-> CLAIM, token |-> t]]
    BY <1>1 DEF ClaimOne, TakeClaim
  <2>2. /\ pc' = [pc EXCEPT ![w] = "claimed"]
        /\ \A v \in Workers \ {w} : batch'[v] = batch[v]
        /\ UNCHANGED <<payout, status, tx, verdict, transfer, stage>>
        /\ status[i] = "verifying"
    BY <1>1 DEF ClaimOne, TakeClaim, TypeOK
  <2>3. /\ \A j \in PayoutIds \ {i} : claim'[j] = claim[j]
        /\ claim'[i].token = t
        /\ \A v \in Workers : batch[v].token # t
    BY <2>1 DEF TypeOK, UsedTokens
  <2>4. TxUnique' /\ AbsentRows' /\ RowsRight'
    BY <2>2, <2>3 DEF FenceInv, TxUnique, AbsentRows, RowsRight
  <2>5. Fence'
    BY <2>2, <2>3 DEF FenceInv, Fence, TypeOK
  <2>6. VerdictsRight'
    BY <2>2 DEF FenceInv, VerdictsRight, TypeOK
  <2> QED
    BY <2>4, <2>5, <2>6 DEF FenceInv
<1>2. ASSUME ReadBack(w) PROVE FenceInv'
  <2> DEFINE i == batch[w].id
  <2>1. /\ pc' = [pc EXCEPT ![w] = "read"]
        /\ batch' = [batch EXCEPT ![w] =
             [id |-> i, token |-> claim[i].token, tx |-> tx[i],
              address |-> payout[i].address, net |-> payout[i].net]]
        /\ UNCHANGED <<payout, status, tx, claim, verdict, transfer, stage>>
    BY <1>2 DEF ReadBack
  <2>2. /\ \A v \in Workers \ {w} : batch'[v] = batch[v] /\ pc'[v] = pc[v]
        /\ pc'[w] = "read"
        /\ batch'[w].id = i /\ batch'[w].tx = tx[i]
        /\ batch'[w].address = payout[i].address /\ batch'[w].net = payout[i].net
    BY <2>1 DEF TypeOK
  <2>3. TxUnique' /\ AbsentRows' /\ RowsRight'
    BY <2>1 DEF FenceInv, TxUnique, AbsentRows, RowsRight
  <2>4. Fence'
    BY <2>1, <2>2 DEF FenceInv, Fence
  <2>5. VerdictsRight'
    BY <2>1, <2>2 DEF FenceInv, VerdictsRight
  <2> QED
    BY <2>3, <2>4, <2>5 DEF FenceInv
<1>3. ASSUME CheckReceipt(w) PROVE FenceInv'
  <2>1. /\ pc[w] = "read"
        /\ pc' = [pc EXCEPT ![w] = "checked"]
        /\ verdict' = [verdict EXCEPT ![w] = Verify(batch[w])]
        /\ UNCHANGED <<payout, status, tx, claim, batch, transfer, stage>>
    BY <1>3 DEF CheckReceipt
  <2>2. /\ \A v \in Workers \ {w} : verdict'[v] = verdict[v] /\ pc'[v] = pc[v]
        /\ pc'[w] = "checked" /\ verdict'[w] = Verify(batch[w])
    BY <2>1 DEF TypeOK
  <2>3. TxUnique' /\ AbsentRows' /\ RowsRight'
    BY <2>1 DEF FenceInv, TxUnique, AbsentRows, RowsRight
  <2>4. Fence'
    BY <2>1, <2>2 DEF FenceInv, Fence
  <2>5. VerdictsRight'
    BY <2>1, <2>2 DEF FenceInv, VerdictsRight, Verify
  <2> QED
    BY <2>3, <2>4, <2>5 DEF FenceInv
<1>4. ASSUME RpcFails(w) PROVE FenceInv'
  <2>1. /\ pc[w] = "read"
        /\ pc' = [pc EXCEPT ![w] = "checked"]
        /\ verdict' = [verdict EXCEPT ![w] = "pending"]
        /\ UNCHANGED <<payout, status, tx, claim, batch, transfer, stage>>
    BY <1>4 DEF RpcFails
  <2>2. /\ \A v \in Workers \ {w} : verdict'[v] = verdict[v] /\ pc'[v] = pc[v]
        /\ pc'[w] = "checked" /\ verdict'[w] = "pending"
    BY <2>1 DEF TypeOK
  <2>3. TxUnique' /\ AbsentRows' /\ RowsRight' /\ Fence'
    BY <2>1, <2>2 DEF FenceInv, TxUnique, AbsentRows, RowsRight, Fence
  <2>4. VerdictsRight'
    BY <2>1, <2>2 DEF FenceInv, VerdictsRight
  <2> QED
    BY <2>3, <2>4 DEF FenceInv
<1>5. ASSUME BackToIdle(w)
      PROVE  /\ \A v \in Workers \ {w} : /\ pc'[v] = pc[v] /\ batch'[v] = batch[v]
                                         /\ verdict'[v] = verdict[v]
             /\ pc'[w] = "idle"
  BY <1>5 DEF BackToIdle, TypeOK
<1>6. ASSUME ApplyVerdict(w) PROVE FenceInv'
  <2> DEFINE i == batch[w].id
  <2>1. /\ pc[w] = "checked"
        /\ HoldsClaim(w)
        /\ status' = [status EXCEPT ![i] =
                        IF verdict[w] = "pending" THEN "verifying" ELSE verdict[w]]
        /\ claim' = [claim EXCEPT ![i] =
                       [wait |-> IF verdict[w] = "pending" THEN RetryIn(w) ELSE 0,
                        lease |-> 0, token |-> None]]
        /\ BackToIdle(w)
        /\ UNCHANGED <<payout, tx, transfer, stage>>
    BY <1>6 DEF ApplyVerdict
  <2>2. i \in PayoutIds
    BY <2>1 DEF TypeOK
  <2>3. /\ \A j \in PayoutIds \ {i} : status'[j] = status[j] /\ claim'[j] = claim[j]
        /\ claim'[i].token = None
        /\ status'[i] = "confirmed" => verdict[w] = "confirmed"
        /\ status'[i] # "absent"
    BY <2>1, <2>2 DEF TypeOK, Verdicts
  <2>4. batch[w].tx = tx[i] /\ batch[w].address = payout[i].address /\ batch[w].net = payout[i].net
    BY <2>1 DEF FenceInv, Fence, HoldsClaim
  <2>5. TxUnique' /\ AbsentRows'
    BY <2>1, <2>3 DEF FenceInv, TxUnique, AbsentRows
  <2>6. RowsRight'
    BY <2>1, <2>3, <2>4 DEF FenceInv, RowsRight, VerdictsRight
  <2>7. Fence'
    BY <2>1, <2>3, <1>5 DEF FenceInv, Fence, TypeOK
  <2>8. VerdictsRight'
    BY <2>1, <1>5 DEF FenceInv, VerdictsRight
  <2> QED
    BY <2>5, <2>6, <2>7, <2>8 DEF FenceInv
<1>7. ASSUME ReleaseClaim(w) PROVE FenceInv'
  <2>1. /\ pc[w] \in {"read", "checked"}
        /\ claim' = IF HoldsClaim(w)
                    THEN [claim EXCEPT ![batch[w].id] =
                            [wait |-> @.wait, lease |-> 0, token |-> None]]
                    ELSE claim
        /\ BackToIdle(w)
        /\ UNCHANGED <<payout, status, tx, transfer, stage>>
    BY <1>7 DEF ReleaseClaim
  <2>2. batch[w].id \in PayoutIds
    BY <2>1 DEF TypeOK
  <2>3. \A j \in PayoutIds : claim'[j].token = claim[j].token \/ claim'[j].token = None
    BY <2>1, <2>2 DEF TypeOK
  <2>4. TxUnique' /\ AbsentRows' /\ RowsRight'
    BY <2>1, <2>3 DEF FenceInv, TxUnique, AbsentRows, RowsRight
  <2>5. Fence'
    BY <2>1, <2>3, <1>5 DEF FenceInv, Fence, TypeOK
  <2>6. VerdictsRight'
    BY <2>1, <1>5 DEF FenceInv, VerdictsRight
  <2> QED
    BY <2>4, <2>5, <2>6 DEF FenceInv
<1>8. ASSUME Crash(w) PROVE FenceInv'
  <2>1. BackToIdle(w) /\ UNCHANGED <<payout, status, tx, claim, transfer, stage>>
    BY <1>8 DEF Crash
  <2> QED
    BY <2>1, <1>5 DEF FenceInv, TxUnique, AbsentRows, Fence, VerdictsRight, RowsRight
<1> QED
  BY <1>1, <1>2, <1>3, <1>4, <1>6, <1>7, <1>8 DEF VerifierStep

LEMMA FenceInvChain ==
    ASSUME TypeOK, FenceInv, NEW h \in Hashes, ChainStep(h)
    PROVE  FenceInv'
<1> USE DEF rowVars, workerVars
<1>1. UNCHANGED <<payout, status, tx, claim, pc, batch, verdict, transfer>>
  BY DEF ChainStep
<1>2. \A g \in Hashes : stage[g] = "final_ok" => stage'[g] = "final_ok"
  BY DEF ChainStep, TypeOK
<1>3. TxUnique' /\ AbsentRows' /\ Fence'
  BY <1>1 DEF FenceInv, TxUnique, AbsentRows, Fence
<1>4. VerdictsRight'
  BY <1>1, <1>2 DEF FenceInv, VerdictsRight, TypeOK, Batch
<1>5. RowsRight'
  BY <1>1, <1>2 DEF FenceInv, RowsRight, TypeOK
<1> QED
  BY <1>3, <1>4, <1>5 DEF FenceInv

LEMMA FenceInvTick ==
    ASSUME TypeOK, FenceInv, Tick
    PROVE  FenceInv'
<1>1. UNCHANGED <<payout, status, tx, pc, batch, verdict, transfer, stage>>
  BY DEF Tick, chainVars
<1>2. \A i \in PayoutIds : claim'[i].token = claim[i].token
  BY DEF Tick
<1>3. TxUnique' /\ AbsentRows' /\ VerdictsRight' /\ RowsRight'
  BY <1>1, <1>2 DEF FenceInv, TxUnique, AbsentRows, VerdictsRight, RowsRight
<1>4. Fence'
  BY <1>1, <1>2 DEF FenceInv, Fence, TypeOK
<1> QED
  BY <1>3, <1>4 DEF FenceInv

\* A confirmed payout is backed by exactly one final on-chain transfer of its
\* net amount to the address it was requested for, whatever the verifiers,
\* administrators and lease expiries do (apply_payout_verification).
THEOREM PayoutsConfirmed == Spec => []ConfirmedIsPaid
<1>1. TypeOK /\ FenceInv /\ [Next]_vars => FenceInv'
  <2> SUFFICES ASSUME TypeOK, FenceInv, [Next]_vars PROVE FenceInv'
    OBVIOUS
  <2>1. CASE WebStep
    <3>1. ASSUME NEW u \in Users, NEW a \in Amounts, RequestPayout(u, a) PROVE FenceInv'
      BY <3>1, FenceInvRequest
    <3>2. ASSUME NEW u \in Users,
                 \/ Authenticate(u)
                 \/ EndRequest(u)
                 \/ \E s \in {"active", "blocked", "deleted"} : ChangeUser(u, s)
                 \/ \E a \in Addresses : SetWallet(u, a)
                 \/ \E a \in Amounts : Earn(u, a)
          PROVE  FenceInv'
      <4>1. UNCHANGED <<payout, status, tx, claim, pc, batch, verdict, transfer, stage>>
        BY <3>2 DEF Authenticate, EndRequest, ChangeUser, SetWallet, Earn,
                    rowVars, workerVars, chainVars
      <4> QED
        BY <4>1, FenceInvFrame
    <3> QED
      BY <2>1, <3>1, <3>2 DEF WebStep
  <2>2. CASE AdminStep
    BY <2>2, FenceInvAdmin
  <2>3. CASE \E w \in Workers : VerifierStep(w)
    BY <2>3, FenceInvVerifier
  <2>4. CASE \E h \in Hashes : ChainStep(h)
    BY <2>4, FenceInvChain
  <2>5. CASE Tick
    BY <2>5, FenceInvTick
  <2>6. CASE UNCHANGED vars
    BY <2>6, FenceInvFrame DEF vars, rowVars, workerVars, chainVars
  <2> QED
    BY <2>1, <2>2, <2>3, <2>4, <2>5, <2>6 DEF Next
<1>2. FenceInv => ConfirmedIsPaid
  BY DEF FenceInv, RowsRight, TxUnique, ConfirmedIsPaid
<1> QED
  BY <1>1, <1>2, FenceInvInit, PayoutsTypeCorrect, PTL DEF Spec
-----------------------------------------------------------------------------
(***************************************************************************)
(* Wallets.                                                                *)
(***************************************************************************)

\* A payout's user exists and still has a wallet.
PaidUsersHaveWallets ==
    \A i \in PayoutIds : status[i] # "absent" =>
        payout[i].user \in Users /\ wallet[payout[i].user].address # None

\* The UNIQUE address column of wallets.
AddressUnique ==
    \A u, v \in Users : u # v /\ wallet[u].address # None
                        => wallet[u].address # wallet[v].address

WalletInv == PaidUsersHaveWallets /\ AddressUnique

\* What the first part of LiveWalletKept says of one step.
LiveWallets ==
    \A u \in Users : userStatus[u] \in {"pending", "active"} /\ wallet[u].address # None
                     => wallet'[u].address # None

LEMMA WalletSet ==
    ASSUME TypeOK, WalletInv, NEW u \in Users, NEW a \in Addresses, SetWallet(u, a)
    PROVE  WalletInv' /\ LiveWallets
<1>1. /\ \A v \in Users \ ({u} \cup StaleHolders(u, a)) : wallet[v].address # a
      /\ wallet' = [v \in Users |->
                    IF v = u THEN [address |-> a, lock |-> LOCK]
                    ELSE IF v \in StaleHolders(u, a) THEN NoWallet
                    ELSE wallet[v]]
      /\ UNCHANGED <<userStatus, payout, status>>
  BY DEF SetWallet, rowVars
<1>2. a # None
  BY PayoutsAssumption
<1>3. /\ wallet'[u].address = a
      /\ \A v \in StaleHolders(u, a) : v # u /\ wallet'[v].address = None
      /\ \A v \in Users \ ({u} \cup StaleHolders(u, a)) : wallet'[v] = wallet[v]
  BY <1>1 DEF StaleHolders, NoWallet
<1>4. PaidUsersHaveWallets'
  <2> SUFFICES ASSUME NEW i \in PayoutIds, status[i] # "absent"
               PROVE  payout[i].user \in Users /\ wallet'[payout[i].user].address # None
    BY <1>1 DEF PaidUsersHaveWallets
  <2>1. payout[i].user \in Users /\ wallet[payout[i].user].address # None
    BY DEF WalletInv, PaidUsersHaveWallets
  <2>2. payout[i].user \notin StaleHolders(u, a)
    BY DEF StaleHolders
  <2> QED BY <1>2, <1>3, <2>1, <2>2
<1>5. AddressUnique'
  <2> SUFFICES ASSUME NEW x \in Users, NEW y \in Users, x # y, wallet'[x].address # None
               PROVE  wallet'[x].address # wallet'[y].address
    BY DEF AddressUnique
  <2>1. x \notin StaleHolders(u, a)
    BY <1>3
  <2>2. CASE y \in StaleHolders(u, a)
    BY <1>3, <2>2
  <2>3. CASE y \notin StaleHolders(u, a)
    BY <1>1, <1>3, <2>1, <2>3 DEF WalletInv, AddressUnique
  <2> QED BY <2>2, <2>3
<1>6. LiveWallets
  <2> SUFFICES ASSUME NEW x \in Users, userStatus[x] \in {"pending", "active"},
                      wallet[x].address # None
               PROVE  wallet'[x].address # None
    BY DEF LiveWallets
  <2>1. x \notin StaleHolders(u, a)
    BY DEF StaleHolders, ReservesAddress
  <2> QED BY <1>2, <1>3, <2>1
<1> QED BY <1>4, <1>5, <1>6 DEF WalletInv

\* Steps that neither write a wallet's address nor hand out a row.
LEMMA WalletFrame ==
    ASSUME WalletInv, \A u \in Users : wallet'[u].address = wallet[u].address,
           UNCHANGED payout,
           \A i \in PayoutIds : status[i] = "absent" => status'[i] = "absent"
    PROVE  WalletInv' /\ LiveWallets
BY DEF WalletInv, PaidUsersHaveWallets, AddressUnique, LiveWallets

LEMMA WalletStep ==
    ASSUME TypeOK, WalletInv, [Next]_vars
    PROVE  WalletInv' /\ LiveWallets
<1> USE DEF webVars, rowVars, workerVars, chainVars
<1>1. ASSUME NEW u \in Users, NEW a \in Addresses, SetWallet(u, a)
      PROVE  WalletInv' /\ LiveWallets
  BY <1>1, WalletSet
<1>2. ASSUME NEW u \in Users, NEW a \in Amounts, RequestPayout(u, a)
      PROVE  WalletInv' /\ LiveWallets
  <2>1. PICK i \in PayoutIds :
          /\ payout' = [payout EXCEPT ![i] =
               [user |-> u, address |-> wallet[u].address, amount |-> a, net |-> Net(a)]]
          /\ status' = [status EXCEPT ![i] = "requested"]
    BY <1>2 DEF RequestPayout
  <2>2. wallet[u].address # None /\ UNCHANGED wallet
    BY <1>2 DEF RequestPayout
  <2>3. /\ payout'[i].user = u
        /\ \A j \in PayoutIds \ {i} : payout'[j] = payout[j] /\ status'[j] = status[j]
    BY <2>1 DEF TypeOK
  <2> QED
    BY <2>2, <2>3 DEF WalletInv, PaidUsersHaveWallets, AddressUnique, LiveWallets
<1>3. ASSUME NEW u \in Users,
             \/ Authenticate(u)
             \/ EndRequest(u)
             \/ \E s \in {"active", "blocked", "deleted"} : ChangeUser(u, s)
             \/ \E a \in Amounts : Earn(u, a)
      PROVE  WalletInv' /\ LiveWallets
  <2>1. UNCHANGED <<wallet, payout, status>>
    BY <1>3 DEF Authenticate, EndRequest, ChangeUser, Earn
  <2> QED BY <2>1, WalletFrame
<1>4. CASE AdminStep
  <2>1. /\ UNCHANGED <<wallet, payout>>
        /\ \A i \in PayoutIds : status[i] = "absent" => status'[i] = "absent"
    BY <1>4 DEF AdminStep, ApprovePayout, SubmitPayoutTransaction, TypeOK
  <2> QED BY <2>1, WalletFrame
<1>5. ASSUME NEW w \in Workers, VerifierStep(w)
      PROVE  WalletInv' /\ LiveWallets
  <2>1. CASE ApplyVerdict(w)
    <3>1. /\ UNCHANGED <<wallet, payout>>
          /\ \A i \in PayoutIds : status[i] = "absent" => status'[i] = "absent"
      BY <2>1 DEF ApplyVerdict, HoldsClaim, TypeOK
    <3> QED BY <3>1, WalletFrame
  <2>2. CASE ~ ApplyVerdict(w)
    <3>1. UNCHANGED <<wallet, payout, status>>
      BY <1>5, <2>2 DEF VerifierStep, ClaimOne, TakeClaim, ReadBack, CheckReceipt, RpcFails,
                        ReleaseClaim, Crash
    <3> QED BY <3>1, WalletFrame
  <2> QED BY <2>1, <2>2
<1>6. ASSUME NEW h \in Hashes, ChainStep(h) PROVE WalletInv' /\ LiveWallets
  <2>1. UNCHANGED <<wallet, payout, status>>
    BY <1>6 DEF ChainStep
  <2> QED BY <2>1, WalletFrame
<1>7. CASE Tick
  <2>1. /\ \A u \in Users : wallet'[u].address = wallet[u].address
        /\ UNCHANGED <<payout, status>>
    BY <1>7 DEF Tick
  <2> QED BY <2>1, WalletFrame
<1>8. CASE UNCHANGED vars
  BY <1>8, WalletFrame DEF vars
<1> QED
  BY <1>1, <1>2, <1>3, <1>4, <1>5, <1>6, <1>7, <1>8 DEF Next, WebStep

LEMMA WalletInvariant == Spec => []WalletInv
<1>1. Init => WalletInv
  BY DEF Init, WalletInv, PaidUsersHaveWallets, AddressUnique, NoWallet
<1> QED BY <1>1, WalletStep, PayoutsTypeCorrect, PTL DEF Spec

\* The wallet row a payout refers to is never deleted: set_wallet removes stale
\* holders of an address only when no payout names them, and a payout's user
\* never becomes anybody else's.
THEOREM PayoutsKeepWallets == Spec => []PayoutKeepsItsWallet
<1>1. WalletInv => PayoutKeepsItsWallet
  BY DEF WalletInv, PaidUsersHaveWallets, PayoutKeepsItsWallet
<1> QED BY <1>1, WalletInvariant, PTL

\* An account awaiting approval or active never loses its wallet to another
\* account's set_wallet, and no address is ever held twice.
THEOREM PayoutsLiveWallets == Spec => LiveWalletKept
<1> DEFINE Kept ==
        /\ \A u \in Users :
             userStatus[u] \in {"pending", "active"} /\ wallet[u].address # None
             => wallet'[u].address # None
        /\ \A u, v \in Users :
             u # v /\ wallet'[u].address # None
             => wallet'[u].address # wallet'[v].address
<1>1. TypeOK /\ WalletInv /\ [Next]_vars => Kept
  <2> SUFFICES ASSUME TypeOK, WalletInv, [Next]_vars PROVE Kept
    OBVIOUS
  <2>1. WalletInv' /\ LiveWallets
    BY WalletStep
  <2> QED BY <2>1 DEF WalletInv, AddressUnique, LiveWallets
<1> QED BY <1>1, WalletInvariant, PayoutsTypeCorrect, PTL DEF Spec, LiveWalletKept
-----------------------------------------------------------------------------
(***************************************************************************)
(* Sums over the payout rows.                                              *)
(***************************************************************************)

\* Every nonempty set of naturals has a least element: the form in which the
\* proofs below use induction.
LEMMA LeastNatural ==
    ASSUME NEW T \in SUBSET Nat, T # {}
    PROVE  \E m \in T : \A n \in T : m <= n
<1> DEFINE R == {ss \in Nat \X Nat : ss[1] < ss[2]}
<1>1. IsWellFoundedOn(R, Nat)
  BY NatLessThanWellFounded, Zenon DEF OpToRel
<1>2. \E x \in T : \A y \in T : ~ (<<y, x>> \in R)
  <2> HIDE DEF R
  <2> QED BY <1>1, WFMin
<1>3. PICK x \in T : \A y \in T : ~ (<<y, x>> \in R)
  BY <1>2
<1>4. \A y \in T : x <= y
  <2> TAKE y \in T
  <2>1. ~(<<y, x>> \in R)
    BY <1>3
  <2> QED BY <2>1
<1> QED BY <1>4

\* f is the running total of w on 0 .. n.
Totals(f, w, n) ==
    /\ f \in [0 .. n -> Nat]
    /\ f = [m \in 0 .. n |-> IF m = 0 THEN 0 ELSE f[m - 1] + w[m]]

\* The recursion that SumTo is defined by has a solution.
LEMMA TotalsExist ==
    ASSUME NEW w \in [PayoutIds -> Nat]
    PROVE  \E f : Totals(f, w, MaxPayouts)
<1> DEFINE T == {n \in 0 .. MaxPayouts : ~ \E f : Totals(f, w, n)}
<1>1. SUFFICES ASSUME T # {} PROVE FALSE
  BY PayoutsAssumption
<1>2. PICK n \in T : \A k \in T : n <= k
  <2>1. T \in SUBSET Nat
    BY PayoutsAssumption
  <2> HIDE DEF T
  <2> QED BY <1>1, <2>1, LeastNatural
<1>3. CASE n = 0
  <2> DEFINE f == [m \in 0 .. 0 |-> 0]
  <2>1. Totals(f, w, 0)
    BY DEF Totals
  <2> QED BY <2>1, <1>3
<1>4. CASE n # 0
  <2>1. n - 1 \in 0 .. MaxPayouts /\ n - 1 \notin T /\ n \in PayoutIds
    BY <1>2, <1>4, PayoutsAssumption DEF PayoutIds
  <2>2. PICK f : Totals(f, w, n - 1)
    BY <2>1
  <2> DEFINE g == [m \in 0 .. n |-> IF m = n THEN f[n - 1] + w[n] ELSE f[m]]
  <2>3. /\ f \in [0 .. (n - 1) -> Nat]
        /\ \A m \in 0 .. (n - 1) : f[m] = IF m = 0 THEN 0 ELSE f[m - 1] + w[m]
    BY <2>2 DEF Totals
  <2>a. n \in Nat \ {0} /\ w[n] \in Nat /\ f[n - 1] \in Nat
    BY <2>1, <2>3, PayoutsAssumption DEF PayoutIds
  <2>4. g \in [0 .. n -> Nat]
    <3> HIDE DEF T
    <3> QED BY <2>a, <2>3
  <2>5. ASSUME NEW m \in 0 .. n PROVE g[m] = IF m = 0 THEN 0 ELSE g[m - 1] + w[m]
    <3> HIDE DEF T
    <3>1. CASE m = n
      BY <3>1, <2>a
    <3>2. CASE m # n
      <4>1. m \in 0 .. (n - 1) /\ (m # 0 => m - 1 \in 0 .. (n - 1))
        BY <3>2, <2>a
      <4>2. g[m] = f[m] /\ (m # 0 => g[m - 1] = f[m - 1])
        BY <4>1, <2>a
      <4> QED BY <4>1, <4>2, <2>3
    <3> QED BY <3>1, <3>2
  <2>6. Totals(g, w, n)
    <3> HIDE DEF g
    <3> QED BY <2>4, <2>5 DEF Totals
  <2> QED BY <2>6, <1>2
<1> QED BY <1>3, <1>4

\* SumTo satisfies its own recursion.
LEMMA SumToTotals ==
    ASSUME NEW w \in [PayoutIds -> Nat]
    PROVE  /\ SumTo(w) \in [0 .. MaxPayouts -> Nat]
           /\ SumTo(w)[0] = 0
           /\ \A n \in PayoutIds : SumTo(w)[n] = SumTo(w)[n - 1] + w[n]
<1> DEFINE Rec(f) == f = [m \in 0 .. MaxPayouts |-> IF m = 0 THEN 0 ELSE f[m - 1] + w[m]]
<1>1. PICK f : Totals(f, w, MaxPayouts)
  BY TotalsExist
<1>2. Rec(f)
  BY <1>1 DEF Totals
<1>3. SumTo(w) = CHOOSE g : Rec(g)
  BY DEF SumTo
<1>4. Rec(SumTo(w))
  <2> HIDE DEF Rec
  <2> QED BY <1>2, <1>3
<1>5. /\ DOMAIN SumTo(w) = 0 .. MaxPayouts
      /\ SumTo(w) = [m \in 0 .. MaxPayouts |-> SumTo(w)[m]]
      /\ \A m \in 0 .. MaxPayouts :
            SumTo(w)[m] = IF m = 0 THEN 0 ELSE SumTo(w)[m - 1] + w[m]
  BY <1>4
<1> HIDE DEF Rec
<1> DEFINE s == SumTo(w)
           T == {n \in 0 .. MaxPayouts : s[n] \notin Nat}
<1>6. T = {}
  <2>1. SUFFICES ASSUME T # {} PROVE FALSE
    OBVIOUS
  <2>2. T \in SUBSET Nat
    BY PayoutsAssumption
  <2>3. PICK n \in T : \A k \in T : n <= k
    <3> HIDE DEF T
    <3> QED BY <2>1, <2>2, LeastNatural
  <2> HIDE DEF s
  <2>4. n # 0
    BY <1>5, PayoutsAssumption DEF s
  <2>5. n - 1 \in 0 .. MaxPayouts /\ n - 1 \notin T /\ w[n] \in Nat
    BY <2>3, <2>4, PayoutsAssumption DEF PayoutIds
  <2>6. s[n] = s[n - 1] + w[n]
    BY <1>5, <2>4 DEF s
  <2> QED BY <2>5, <2>6
<1>7. SumTo(w) \in [0 .. MaxPayouts -> Nat]
  <2>1. \A n \in 0 .. MaxPayouts : s[n] \in Nat
    BY <1>6
  <2>2. s = [m \in 0 .. MaxPayouts |-> s[m]]
    BY <1>5
  <2> HIDE DEF s
  <2>3. s \in [0 .. MaxPayouts -> Nat]
    BY <2>1, <2>2
  <2> QED BY <2>3 DEF s
<1>8. SumTo(w)[0] = 0
  <2>1. 0 \in 0 .. MaxPayouts
    BY PayoutsAssumption
  <2>2. SumTo(w)[0] = IF 0 = 0 THEN 0 ELSE SumTo(w)[0 - 1] + w[0]
    BY <1>5, <2>1, Zenon
  <2> QED BY <2>2
<1>9. \A n \in PayoutIds : SumTo(w)[n] = SumTo(w)[n - 1] + w[n]
  <2>. SUFFICES ASSUME NEW n \in PayoutIds
                PROVE  SumTo(w)[n] = SumTo(w)[n - 1] + w[n]
    OBVIOUS
  <2>1. n \in 0 .. MaxPayouts /\ n # 0
    BY PayoutsAssumption DEF PayoutIds
  <2>2. SumTo(w)[n] = IF n = 0 THEN 0 ELSE SumTo(w)[n - 1] + w[n]
    BY <1>5, <2>1, Zenon
  <2>. QED
    BY <2>1, <2>2, Zenon
<1> QED BY <1>7, <1>8, <1>9

\* Changing one weight changes the total by the difference.
LEMMA SumToUpdate ==
    ASSUME NEW w \in [PayoutIds -> Nat], NEW v \in [PayoutIds -> Nat], NEW i \in PayoutIds,
           \A j \in PayoutIds \ {i} : v[j] = w[j]
    PROVE  SumTo(v)[MaxPayouts] = SumTo(w)[MaxPayouts] + v[i] - w[i]
<1> DEFINE s == SumTo(w)
           t == SumTo(v)
<1>1. /\ s \in [0 .. MaxPayouts -> Nat] /\ s[0] = 0
      /\ \A n \in PayoutIds : s[n] = s[n - 1] + w[n]
  BY SumToTotals
<1>2. /\ t \in [0 .. MaxPayouts -> Nat] /\ t[0] = 0
      /\ \A n \in PayoutIds : t[n] = t[n - 1] + v[n]
  BY SumToTotals
<1> HIDE DEF s, t
<1> DEFINE T == {n \in 0 .. MaxPayouts : t[n] # s[n] + IF n >= i THEN v[i] - w[i] ELSE 0}
<1>3. T = {}
  <2>1. SUFFICES ASSUME T # {} PROVE FALSE
    OBVIOUS
  <2>2. T \in SUBSET Nat
    BY PayoutsAssumption
  <2>3. PICK n \in T : \A k \in T : n <= k
    <3> HIDE DEF T
    <3> QED BY <2>1, <2>2, LeastNatural
  <2>4. n # 0
    BY <1>1, <1>2, PayoutsAssumption DEF PayoutIds
  <2>5. n - 1 \in 0 .. MaxPayouts /\ n - 1 \notin T /\ n \in PayoutIds
    BY <2>3, <2>4, PayoutsAssumption DEF PayoutIds
  <2>6. t[n - 1] = s[n - 1] + IF n - 1 >= i THEN v[i] - w[i] ELSE 0
    BY <2>5
  <2>7. s[n] = s[n - 1] + w[n] /\ t[n] = t[n - 1] + v[n]
    BY <1>1, <1>2, <2>5
  <2>8. /\ s[n - 1] \in Nat /\ t[n - 1] \in Nat /\ w[n] \in Nat /\ v[n] \in Nat
        /\ n \in Nat /\ i \in Nat /\ v[i] \in Nat /\ w[i] \in Nat
    <3>1. n \in Nat /\ i \in Nat
      BY <2>2, PayoutsAssumption DEF PayoutIds
    <3> HIDE DEF T
    <3> QED BY <1>1, <1>2, <2>5, <3>1
  <2>9. t[n] # s[n] + IF n >= i THEN v[i] - w[i] ELSE 0
    OBVIOUS
  <2> HIDE DEF T
  <2>10. CASE n = i
    BY <2>6, <2>7, <2>8, <2>9, <2>10
  <2>11. CASE n # i
    <3>1. v[n] = w[n]
      BY <2>5, <2>11
    <3> QED BY <2>6, <2>7, <2>8, <2>9, <2>11, <3>1
  <2> QED BY <2>10, <2>11
<1>4. MaxPayouts \in 0 .. MaxPayouts /\ MaxPayouts >= i
  BY PayoutsAssumption DEF PayoutIds
<1>5. t[MaxPayouts] = s[MaxPayouts] + v[i] - w[i]
  BY <1>1, <1>2, <1>3, <1>4
<1> QED BY <1>5 DEF s, t

\* The total of no reservation is zero.
LEMMA SumToZero ==
    ASSUME NEW w \in [PayoutIds -> Nat], \A i \in PayoutIds : w[i] = 0
    PROVE  SumTo(w)[MaxPayouts] = 0
<1> DEFINE s == SumTo(w)
           T == {n \in 0 .. MaxPayouts : s[n] # 0}
<1>1. /\ s[0] = 0
      /\ \A n \in PayoutIds : s[n] = s[n - 1] + w[n]
  BY SumToTotals
<1> HIDE DEF s
<1>2. T = {}
  <2>1. SUFFICES ASSUME T # {} PROVE FALSE
    OBVIOUS
  <2>2. T \in SUBSET Nat
    BY PayoutsAssumption
  <2>3. PICK n \in T : \A k \in T : n <= k
    <3> HIDE DEF T
    <3> QED BY <2>1, <2>2, LeastNatural
  <2>4. n # 0
    BY <1>1
  <2>5. n - 1 \in 0 .. MaxPayouts /\ n - 1 \notin T /\ n \in PayoutIds
    BY <2>3, <2>4, PayoutsAssumption DEF PayoutIds
  <2> QED BY <1>1, <2>5
<1>3. s[MaxPayouts] = 0
  BY <1>2, PayoutsAssumption
<1> QED BY <1>3 DEF s
-----------------------------------------------------------------------------
(***************************************************************************)
(* Reservations.                                                           *)
(***************************************************************************)

\* The weights that Reserved(u, e) adds up.
Weight(u, e) ==
    [i \in PayoutIds |->
        IF i # e /\ payout[i].user = u /\ status[i] \in Reserving
        THEN payout[i].amount ELSE 0]

\* Every row weighs a natural number.
LEMMA WeightType ==
    ASSUME TypeOK, NEW u, NEW e PROVE Weight(u, e) \in [PayoutIds -> Nat]
BY DEF Weight, TypeOK, Payout

\* The reserved total is the sum of the weights.
LEMMA ReservedIsNat ==
    ASSUME TypeOK, NEW u, NEW e
    PROVE  /\ Reserved(u, e) \in Nat
           /\ Reserved(u, e) = SumTo(Weight(u, e))[MaxPayouts]
<1>1. Reserved(u, e) = SumTo(Weight(u, e))[MaxPayouts]
  BY DEF Reserved, Weight
<1>2. MaxPayouts \in 0 .. MaxPayouts
  BY PayoutsAssumption
<1> QED BY <1>1, <1>2, WeightType, SumToTotals

\* A step that changes at most row i changes the reserved total of u by what
\* row i weighs more or less than before.
LEMMA ReservedUpdate ==
    ASSUME TypeOK, TypeOK', NEW u \in Users, NEW i \in PayoutIds,
           \A j \in PayoutIds \ {i} : payout'[j] = payout[j] /\ status'[j] = status[j]
    PROVE  Reserved(u, 0)' = Reserved(u, 0) + Weight(u, 0)'[i] - Weight(u, 0)[i]
<1> DEFINE w == Weight(u, 0)
           v == Weight(u, 0)'
<1>1. w \in [PayoutIds -> Nat] /\ v \in [PayoutIds -> Nat]
  BY WeightType DEF Weight, TypeOK, Payout
<1>2. \A j \in PayoutIds \ {i} : v[j] = w[j]
  BY DEF Weight
<1>3. Reserved(u, 0) = SumTo(w)[MaxPayouts] /\ Reserved(u, 0)' = SumTo(v)[MaxPayouts]
  BY DEF Reserved, Weight
<1> HIDE DEF w, v
<1>4. SumTo(v)[MaxPayouts] = SumTo(w)[MaxPayouts] + v[i] - w[i]
  BY <1>1, <1>2, SumToUpdate
<1> QED BY <1>3, <1>4 DEF w, v

\* The row a retry would reserve again weighs nothing, so leaving it out
\* changes nothing.
LEMMA ReservedWithout ==
    ASSUME TypeOK, NEW u, NEW i \in PayoutIds, status[i] \notin Reserving
    PROVE  Reserved(u, i) = Reserved(u, 0)
<1>1. Weight(u, i) = Weight(u, 0)
  BY DEF Weight, PayoutIds
<1> QED BY <1>1, ReservedIsNat

\* Steps that write no row, and take nothing from the available bucket.
LEMMA ReservedFrame ==
    ASSUME TypeOK, TypeOK', ReservedWithinAvailable,
           UNCHANGED <<payout, status>>,
           \A u \in Users : available'[u] >= available[u]
    PROVE  ReservedWithinAvailable'
<1> SUFFICES ASSUME NEW u \in Users PROVE (Reserved(u, 0) <= available[u])'
  BY DEF ReservedWithinAvailable
<1>1. Reserved(u, 0)' = Reserved(u, 0)
  BY DEF Reserved
<1>2. Reserved(u, 0) \in Nat /\ available[u] \in Nat /\ available'[u] \in Nat
  BY ReservedIsNat DEF TypeOK
<1> QED BY <1>1, <1>2 DEF ReservedWithinAvailable

\* A step on row i that makes it weigh no more than before.
LEMMA ReservedShrink ==
    ASSUME TypeOK, TypeOK', ReservedWithinAvailable, NEW i \in PayoutIds,
           UNCHANGED <<payout, available>>,
           \A j \in PayoutIds \ {i} : status'[j] = status[j],
           status[i] \in Reserving
    PROVE  ReservedWithinAvailable'
<1> SUFFICES ASSUME NEW u \in Users PROVE (Reserved(u, 0) <= available[u])'
  BY DEF ReservedWithinAvailable
<1>1. Reserved(u, 0)' = Reserved(u, 0) + Weight(u, 0)'[i] - Weight(u, 0)[i]
  BY ReservedUpdate
<1>2. /\ Weight(u, 0)'[i] \in Nat /\ Weight(u, 0)[i] \in Nat
      /\ Weight(u, 0)'[i] <= Weight(u, 0)[i]
  BY DEF Weight, TypeOK, Payout
<1>3. Reserved(u, 0) \in Nat /\ available[u] \in Nat /\ Reserved(u, 0) <= available[u]
  BY ReservedIsNat DEF TypeOK, ReservedWithinAvailable
<1> QED BY <1>1, <1>2, <1>3

LEMMA ReservedRequest ==
    ASSUME TypeOK, TypeOK', ReservedWithinAvailable,
           NEW u \in Users, NEW a \in Amounts, RequestPayout(u, a)
    PROVE  ReservedWithinAvailable'
<1>1. PICK i \in PayoutIds :
        /\ status[i] = "absent"
        /\ payout' = [payout EXCEPT ![i] =
             [user |-> u, address |-> wallet[u].address, amount |-> a, net |-> Net(a)]]
        /\ status' = [status EXCEPT ![i] = "requested"]
  BY DEF RequestPayout
<1>2. a <= available[u] - Reserved(u, 0) /\ UNCHANGED available
  BY DEF RequestPayout
<1>3. /\ payout'[i].user = u /\ payout'[i].amount = a /\ status'[i] = "requested"
      /\ \A j \in PayoutIds \ {i} : payout'[j] = payout[j] /\ status'[j] = status[j]
  BY <1>1 DEF TypeOK
<1> SUFFICES ASSUME NEW x \in Users PROVE (Reserved(x, 0) <= available[x])'
  BY DEF ReservedWithinAvailable
<1>4. Reserved(x, 0)' = Reserved(x, 0) + Weight(x, 0)'[i] - Weight(x, 0)[i]
  BY <1>3, ReservedUpdate
<1>5. Weight(x, 0)[i] = 0 /\ Weight(x, 0)'[i] = IF x = u THEN a ELSE 0
  BY <1>1, <1>3 DEF Weight, Reserving, PayoutIds
<1>6. Reserved(x, 0) \in Nat /\ available[x] \in Nat /\ Reserved(x, 0) <= available[x] /\ a \in Nat
  BY ReservedIsNat, PayoutsAssumption DEF TypeOK, ReservedWithinAvailable
<1> QED BY <1>2, <1>4, <1>5, <1>6

LEMMA ReservedSubmit ==
    ASSUME TypeOK, TypeOK', ReservedWithinAvailable,
           NEW i \in PayoutIds, NEW h \in Hashes, SubmitPayoutTransaction(i, h)
    PROVE  ReservedWithinAvailable'
<1>1. /\ status' = [status EXCEPT ![i] = "verifying"]
      /\ UNCHANGED <<payout, available>>
      /\ status[i] \in {"approved", "failed", "verifying"}
      /\ RetryFitsBalance(i)
  BY DEF SubmitPayoutTransaction, webVars
<1>2. status'[i] = "verifying" /\ \A j \in PayoutIds \ {i} : status'[j] = status[j]
  BY <1>1 DEF TypeOK
<1>3. CASE status[i] # "failed"
  BY <1>1, <1>2, <1>3, ReservedShrink DEF Reserving
<1>4. CASE status[i] = "failed"
  <2> DEFINE p == payout[i].user
  <2> SUFFICES ASSUME NEW x \in Users PROVE (Reserved(x, 0) <= available[x])'
    BY DEF ReservedWithinAvailable
  <2>1. Reserved(x, 0)' = Reserved(x, 0) + Weight(x, 0)'[i] - Weight(x, 0)[i]
    BY <1>1, <1>2, ReservedUpdate
  <2>2. Weight(x, 0)[i] = 0 /\ Weight(x, 0)'[i] = IF x = p THEN payout[i].amount ELSE 0
    BY <1>1, <1>2, <1>4 DEF Weight, Reserving, PayoutIds
  <2>3. /\ Reserved(x, 0) \in Nat /\ available[x] \in Nat /\ Reserved(x, 0) <= available[x]
        /\ payout[i].amount \in Nat
    BY ReservedIsNat DEF TypeOK, ReservedWithinAvailable, Payout
  <2>4. Reserved(p, i) = Reserved(p, 0)
    BY <1>4, ReservedWithout DEF Reserving
  <2>5. payout[i].amount <= available[p] - Reserved(p, 0)
    BY <1>1, <1>4, <2>4 DEF RetryFitsBalance
  <2> HIDE DEF p
  <2> QED BY <1>1, <2>1, <2>2, <2>3, <2>5
<1> QED BY <1>3, <1>4

LEMMA ReservedStep ==
    ASSUME TypeOK, TypeOK', ReservedWithinAvailable, [Next]_vars
    PROVE  ReservedWithinAvailable'
<1> USE DEF webVars, rowVars, workerVars, chainVars
<1>1. ASSUME NEW u \in Users, NEW a \in Amounts, RequestPayout(u, a)
      PROVE  ReservedWithinAvailable'
  BY <1>1, ReservedRequest
<1>2. ASSUME NEW u \in Users, NEW a \in Amounts, Earn(u, a) PROVE ReservedWithinAvailable'
  <2>1. /\ UNCHANGED <<payout, status>>
        /\ available' = [available EXCEPT ![u] = @ + a]
    BY <1>2 DEF Earn
  <2>2. a \in Nat /\ available \in [Users -> Nat]
    BY PayoutsAssumption DEF TypeOK
  <2>3. \A v \in Users : available'[v] >= available[v]
    BY <2>1, <2>2
  <2> QED BY <2>1, <2>3, ReservedFrame
<1>3. ASSUME NEW u \in Users,
             \/ Authenticate(u)
             \/ EndRequest(u)
             \/ \E s \in {"active", "blocked", "deleted"} : ChangeUser(u, s)
             \/ \E a \in Addresses : SetWallet(u, a)
      PROVE  ReservedWithinAvailable'
  <2>1. UNCHANGED <<payout, status, available>>
    BY <1>3 DEF Authenticate, EndRequest, ChangeUser, SetWallet
  <2> QED BY <2>1, ReservedFrame DEF TypeOK
<1>4. ASSUME NEW i \in PayoutIds, ApprovePayout(i) PROVE ReservedWithinAvailable'
  <2>1. /\ UNCHANGED <<payout, available>>
        /\ status[i] \in Reserving
        /\ \A j \in PayoutIds \ {i} : status'[j] = status[j]
    BY <1>4 DEF ApprovePayout, Reserving, TypeOK
  <2> QED BY <2>1, ReservedShrink
<1>5. ASSUME NEW i \in PayoutIds, NEW h \in Hashes, SubmitPayoutTransaction(i, h)
      PROVE  ReservedWithinAvailable'
  BY <1>5, ReservedSubmit
<1>6. ASSUME NEW w \in Workers, ApplyVerdict(w) PROVE ReservedWithinAvailable'
  <2>1. batch[w].id \in PayoutIds
    BY <1>6 DEF ApplyVerdict, TypeOK
  <2>2. /\ UNCHANGED <<payout, available>>
        /\ status[batch[w].id] \in Reserving
        /\ \A j \in PayoutIds \ {batch[w].id} : status'[j] = status[j]
    BY <1>6, <2>1 DEF ApplyVerdict, HoldsClaim, Reserving, TypeOK
  <2> QED BY <2>1, <2>2, ReservedShrink
<1>7. ASSUME NEW w \in Workers, VerifierStep(w), ~ ApplyVerdict(w) PROVE ReservedWithinAvailable'
  <2>1. UNCHANGED <<payout, status, available>>
    BY <1>7 DEF VerifierStep, ClaimOne, TakeClaim, ReadBack, CheckReceipt, RpcFails,
                ReleaseClaim, Crash
  <2> QED BY <2>1, ReservedFrame DEF TypeOK
<1>8. ASSUME (\E h \in Hashes : ChainStep(h)) \/ Tick \/ UNCHANGED vars PROVE ReservedWithinAvailable'
  <2>1. UNCHANGED <<payout, status, available>>
    BY <1>8 DEF ChainStep, Tick, vars
  <2> QED BY <2>1, ReservedFrame DEF TypeOK
<1> QED
  BY <1>1, <1>2, <1>3, <1>4, <1>5, <1>6, <1>7, <1>8 DEF Next, WebStep, AdminStep

\* Queued, verifying and paid payouts of a user never exceed what the user has
\* earned, for any number of rows, users and amounts: neither a request nor the
\* retry of a failed payout can reserve earnings that are reserved already
\* (request_payout, submit_payout_transaction).
THEOREM PayoutsReserved == Spec => []ReservedWithinAvailable
<1>1. Init => ReservedWithinAvailable
  <2> SUFFICES ASSUME Init, NEW u \in Users PROVE Reserved(u, 0) <= available[u]
    BY DEF ReservedWithinAvailable
  <2> DEFINE w == Weight(u, 0)
  <2>1. w \in [PayoutIds -> Nat] /\ \A i \in PayoutIds : w[i] = 0
    BY DEF Init, Weight, Reserving
  <2>2. available[u] = 0 /\ Reserved(u, 0) = SumTo(w)[MaxPayouts]
    BY DEF Init, Reserved, Weight
  <2> HIDE DEF w
  <2>3. SumTo(w)[MaxPayouts] = 0
    BY <2>1, SumToZero
  <2> QED BY <2>2, <2>3
<1> QED BY <1>1, ReservedStep, PayoutsTypeCorrect, PTL DEF Spec
=============================================================================
