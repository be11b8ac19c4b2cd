------------------------------ MODULE OwnerSlot ------------------------------
(***************************************************************************)
(* What one WebSocket endpoint of the bridge promises, as seen from        *)
(* outside: at any moment the endpoint is free, or exactly one connection  *)
(* is joining it, owns it or is leaving it; every ownership has an epoch   *)
(* of its own, larger than all earlier ones; once the bridge shuts down    *)
(* nobody becomes owner any more.                                          *)
(*                                                                         *)
(* Ownership.tla is the detailed specification and implements this one.    *)
(***************************************************************************)
EXTENDS Naturals

CONSTANTS Conns, NoConn

VARIABLES holder,    \* the connection the endpoint is dedicated to, or NoConn
          role,      \* what the holder is doing with it
          epoch,     \* number of ownerships granted so far
          accepting  \* FALSE once shutdown has begun

slotVars == <<holder, role, epoch, accepting>>

Init ==
    /\ holder = NoConn
    /\ role = "free"
    /\ epoch = 0
    /\ accepting = TRUE

Join(c) ==
    /\ role = "free" /\ accepting
    /\ holder' = c /\ role' = "joining"
    /\ UNCHANGED <<epoch, accepting>>

Withdraw ==
    /\ role = "joining"
    /\ holder' = NoConn /\ role' = "free"
    /\ UNCHANGED <<epoch, accepting>>

Win ==
    /\ role = "joining" /\ accepting
    /\ role' = "owner" /\ epoch' = epoch + 1
    /\ UNCHANGED <<holder, accepting>>

Leave ==
    /\ role = "owner"
    /\ role' = "leaving"
    /\ UNCHANGED <<holder, epoch, accepting>>

Vacate ==
    /\ role = "leaving"
    /\ holder' = NoConn /\ role' = "free"
    /\ UNCHANGED <<epoch, accepting>>

Shut ==
    /\ accepting' = FALSE
    /\ UNCHANGED <<holder, role, epoch>>

Next ==
    \/ \E c \in Conns : Join(c)
    \/ Withdraw \/ Win \/ Leave \/ Vacate \/ Shut

Spec == Init /\ [][Next]_slotVars
=============================================================================
