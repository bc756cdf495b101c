---------------------------- MODULE MCProxyLedger ----------------------------
(***************************************************************************)
(* Small instances of ProxyLedger, all rows owned by one account.          *)
(***************************************************************************)
EXTENDS ProxyLedger, TLC

CONSTANT u1
OneOwner == [p \in 1 .. MaxProxies |-> u1]
Symmetry == Permutations(IPs)
=============================================================================
