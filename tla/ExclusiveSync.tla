--------------------------- MODULE ExclusiveSync ---------------------------
(***************************************************************************)
(* What the inventory synchronisation promises: one run at a time holds    *)
(* the inventory, what it writes it has read from the provider during that *)
(* very hold, and a hold may end at any moment.  How a hold is won and     *)
(* lost, through rows, leases, cancellations and crashes, is the business  *)
(* of SyncRuns, which implements this specification.                       *)
(***************************************************************************)
EXTENDS Naturals

CONSTANTS
    Runs,           \* the runs that may hold the inventory
    Subs,           \* the provider's subscriptions
    None            \* nobody, nothing

VARIABLES
    version,        \* the provider's state
    inv,            \* the version of each subscription in the inventory
    holder,         \* the run that holds the inventory, or None
    read            \* what it has read and not yet written, or None

vars == <<version, inv, holder, read>>

Init ==
    /\ version = 0
    /\ inv = [s \in Subs |-> 0]
    /\ holder = None
    /\ read = None

Change ==
    /\ version' = version + 1
    /\ UNCHANGED <<inv, holder, read>>

Acquire ==
    /\ holder = None
    /\ holder' \in Runs
    /\ UNCHANGED <<version, inv, read>>

Read ==
    /\ holder # None
    /\ read' = version
    /\ UNCHANGED <<version, inv, holder>>

\* The holder gives up what it has read, and keeps the inventory.
Forget ==
    /\ read' = None
    /\ UNCHANGED <<version, inv, holder>>

Write ==
    /\ holder # None
    /\ read # None
    /\ \E s \in Subs : inv' = [inv EXCEPT ![s] = read]
    /\ read' = None
    /\ UNCHANGED <<version, holder>>

Release ==
    /\ holder' = None
    /\ read' = None
    /\ UNCHANGED <<version, inv>>

Next == Change \/ Acquire \/ Read \/ Forget \/ Write \/ Release

Spec == Init /\ [][Next]_vars

---------------------------------------------------------------------------
(* What the hold is for: the inventory never goes back to an older state   *)
(* of the provider.                                                        *)
NeverOlder == [][\A s \in Subs : inv'[s] >= inv[s]]_vars
=============================================================================
