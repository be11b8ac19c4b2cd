--------------------------- MODULE OwnershipProofs ---------------------------
(***************************************************************************)
(* Proofs about Ownership, for every set of connections: the endpoint has  *)
(* one holder at a time, the fields implement the abstract endpoint of     *)
(* OwnerSlot, and nobody becomes owner behind App.Close.                   *)
(***************************************************************************)
EXTENDS Ownership, TLAPS

-----------------------------------------------------------------------------
(* The inductive invariant: what the three fields say about the phases.    *)

Live == {"installed", "serving"}
InClaim == {"reserved", "draining"}

ClaimedInv == claimed <=> (\E c \in Conns : phase[c] \in InClaim)

OwnerInv == \A c \in Conns : (owner = c) <=> (phase[c] \in Live)

GenerationInv ==
    \A c \in Conns : phase[c] \in Live \cup {"draining"} => connGen[c] = generation

HubInv ==
    /\ \A c \in hub : phase[c] \in Live
    /\ \A c \in Conns : phase[c] \in Live => c \in hub \cup down

CloseInv ==
    closeStage \in {"locked", "clientsClosed", "closed"} =>
        /\ hub = {}
        /\ \A c \in Conns : phase[c] \in Live => c \in down

IInv ==
    /\ TypeOK
    /\ OneHolder
    /\ ClaimedInv
    /\ OwnerInv
    /\ GenerationInv
    /\ HubInv
    /\ CloseInv

-----------------------------------------------------------------------------
\* The initial state satisfies the invariant.
LEMMA InitIInv == Init => IInv
<1> SUFFICES ASSUME Init PROVE IInv
    OBVIOUS
<1> USE OwnershipAssumption DEF Init, Holding, Live, InClaim
<1>1. TypeOK
    <2>1. 0 \in 0..generation
        OBVIOUS
    <2>2. connGen \in [Conns -> 0..generation]
        BY <2>1
    <2>3. QED
        BY <2>2 DEF TypeOK, Phases, CloseStages
<1>2. OneHolder /\ ClaimedInv /\ OwnerInv /\ GenerationInv
    BY DEF OneHolder, ClaimedInv, OwnerInv, GenerationInv
<1>3. HubInv /\ CloseInv
    BY DEF HubInv, CloseInv
<1>4. QED
    BY <1>1, <1>2, <1>3 DEF IInv

\* Every step of a handler, a reader or App.Close preserves it.
LEMMA NextIInv == IInv /\ [Next]_vars => IInv'
<1> SUFFICES ASSUME IInv, [Next]_vars PROVE IInv'
    OBVIOUS
<1> USE OwnershipAssumption
    DEF IInv, TypeOK, OneHolder, ClaimedInv, OwnerInv, GenerationInv, HubInv, CloseInv,
        Phases, Holding, Live, InClaim, CloseStages, MoveTo, closing, Current
<1>1. ASSUME NEW c \in Conns, Reject(c) PROVE IInv'
    BY <1>1 DEF Reject, Occupied
<1>2. ASSUME NEW c \in Conns, Reserve(c) PROVE IInv'
    BY <1>2 DEF Reserve, Occupied
<1>3. ASSUME NEW c \in Conns, UpgradeFailed(c) PROVE IInv'
    BY <1>3 DEF UpgradeFailed
<1>4. ASSUME NEW c \in Conns, InstallRefused(c) PROVE IInv'
    BY <1>4 DEF InstallRefused
<1>5. ASSUME NEW c \in Conns, Install(c) PROVE IInv'
    <2>1. TypeOK'
        <3>1. generation' \in Nat /\ 0..generation \subseteq 0..generation'
            BY <1>5 DEF Install
        <3>2. connGen' \in [Conns -> 0..generation']
            BY <1>5, <3>1 DEF Install
        <3>3. QED
            BY <1>5, <3>1, <3>2 DEF Install
    <2>2. OneHolder' /\ OwnerInv'
        BY <1>5 DEF Install
    <2>3. ~\E d \in Conns : phase'[d] \in InClaim
        BY <1>5 DEF Install
    <2>4. ClaimedInv'
        BY <1>5, <2>3 DEF Install
    <2>5. GenerationInv'
        BY <1>5 DEF Install
    <2>6. HubInv' /\ CloseInv'
        BY <1>5 DEF Install
    <2>7. QED
        BY <2>1, <2>2, <2>4, <2>5, <2>6
<1>6. ASSUME NEW c \in Conns, StartReader(c) PROVE IInv'
    BY <1>6 DEF StartReader
<1>7. ASSUME NEW c \in Conns, TransportFails(c) PROVE IInv'
    BY <1>7 DEF TransportFails
<1>8. ASSUME NEW c \in Conns, HubDrop(c) PROVE IInv'
    BY <1>8 DEF HubDrop
<1>9. ASSUME NEW c \in Conns, Release(c) PROVE IInv'
    BY <1>9 DEF Release
<1>10. ASSUME NEW c \in Conns, FinishRelease(c) PROVE IInv'
    BY <1>10 DEF FinishRelease
<1>11. CASE BeginClose \/ ClientsClosed \/ FinishClose
    <2>1. UNCHANGED slotVars /\ closeStage' \in CloseStages
        BY <1>11 DEF BeginClose, ClientsClosed, FinishClose
    <2>2. CloseInv'
        BY <1>11, <2>1 DEF BeginClose, ClientsClosed, FinishClose, slotVars
    <2>3. QED
        BY <2>1, <2>2 DEF slotVars
<1>12. CASE CloseClients
    <2>1. TypeOK'
        BY <1>12 DEF CloseClients
    <2>2. hub' = {} /\ \A c \in Conns : phase'[c] \in Live => c \in down'
        BY <1>12 DEF CloseClients
    <2>3. QED
        BY <1>12, <2>1, <2>2 DEF CloseClients
<1>13. CASE UNCHANGED vars
    BY <1>13 DEF vars
<1>14. QED
    BY <1>1, <1>2, <1>3, <1>4, <1>5, <1>6, <1>7, <1>8, <1>9, <1>10, <1>11, <1>12, <1>13
       DEF Next, Handler, Reader, Closer

\* The invariant holds in every state of every behaviour.
THEOREM Invariance == SafetySpec => []IInv
  BY InitIInv, NextIInv, PTL DEF SafetySpec

-----------------------------------------------------------------------------
(* Safety of the endpoint.                                                 *)

\* installOwner, releaseOwner and finishOwnerRelease keep every field in range.
THEOREM TypeCorrect == SafetySpec => []TypeOK
  BY Invariance, PTL DEF IInv

\* reserveOwner admits one connection at a time, however handlers and cleanups
\* of different connections interleave.
THEOREM Exclusive == SafetySpec => []OneHolder
  BY Invariance, PTL DEF IInv

\* A live reader is never stale: ownerCurrent and the guard of releaseOwner
\* are true for it.
THEOREM LiveReaderCurrent == SafetySpec => []ReaderIsCurrent
<1>1. IInv => ReaderIsCurrent
    BY DEF IInv, OwnerInv, GenerationInv, ReaderIsCurrent, Current, Live
<1>2. QED
    BY <1>1, Invariance, PTL

\* CloseAll leaves no open transport behind, and installOwner adds none.
THEOREM ClosedForGood == SafetySpec => []NoClientAfterCloseAll
<1>1. IInv => NoClientAfterCloseAll
    BY DEF IInv, CloseInv, NoClientAfterCloseAll, Live
<1>2. QED
    BY <1>1, Invariance, PTL

\* Both together: a running reader is current and, after CloseAll, on its way out.
THEOREM LiveConnectionsSafe == SafetySpec => []LiveConnections
    BY LiveReaderCurrent, ClosedForGood, PTL DEF LiveConnections

-----------------------------------------------------------------------------
(* Ownership implements OwnerSlot.                                         *)

\* In a claim without an owner, the connection CHOOSE finds is the one in it.
LEMMA ClaimHolder ==
    ASSUME IInv, NEW c \in Conns, phase[c] \in InClaim
    PROVE  /\ owner = NoConn /\ claimed
           /\ (CHOOSE d \in Conns : phase[d] \in {"reserved", "draining"}) = c
  BY OwnershipAssumption
     DEF IInv, TypeOK, OneHolder, ClaimedInv, OwnerInv, InClaim, Live, Holding

\* What the mapping shows in each kind of state.
Mapping ==
    /\ \A c \in Conns :
         /\ phase[c] = "reserved" => Holder = c /\ Role = "joining"
         /\ phase[c] \in Live     => Holder = c /\ Role = "owner"
         /\ phase[c] = "draining" => Holder = c /\ Role = "leaving"
    /\ (\A c \in Conns : phase[c] \notin Holding) => Holder = NoConn /\ Role = "free"

\* The invariant determines holder and role of the abstract endpoint.
LEMMA MappingHolds == IInv => Mapping
<1> SUFFICES ASSUME IInv PROVE Mapping
    OBVIOUS
<1>1. ASSUME NEW c \in Conns, phase[c] = "reserved"
      PROVE  Holder = c /\ Role = "joining"
    BY <1>1, ClaimHolder DEF InClaim, Holder, Role
<1>2. ASSUME NEW c \in Conns, phase[c] \in Live
      PROVE  Holder = c /\ Role = "owner"
    BY <1>2, OwnershipAssumption DEF IInv, OwnerInv, Holder, Role
<1>3. ASSUME NEW c \in Conns, phase[c] = "draining"
      PROVE  Holder = c /\ Role = "leaving"
    <2>1. ~\E d \in Conns : phase[d] = "reserved"
        BY <1>3 DEF IInv, OneHolder, Holding
    <2>2. QED
        BY <1>3, <2>1, ClaimHolder DEF InClaim, Holder, Role
<1>4. ASSUME \A c \in Conns : phase[c] \notin Holding
      PROVE  Holder = NoConn /\ Role = "free"
    <2>1. ~claimed
        BY <1>4 DEF IInv, ClaimedInv, InClaim, Holding
    <2>2. owner = NoConn
        BY <1>4 DEF IInv, TypeOK, OwnerInv, Live, Holding
    <2>3. QED
        BY <2>1, <2>2 DEF Holder, Role
<1>5. QED
    BY <1>1, <1>2, <1>3, <1>4 DEF Mapping

\* ... and so in the next state.
LEMMA MappingNext == IInv' => Mapping'
  BY MappingHolds, PTL

\* Every step of the code is a step of the abstract endpoint, or is not seen by
\* it.
LEMMA StepImplements == IInv /\ IInv' /\ [Next]_vars => [Slot!Next]_(Slot!slotVars)
<1> SUFFICES ASSUME IInv, IInv', [Next]_vars PROVE [Slot!Next]_(Slot!slotVars)
    OBVIOUS
<1> DEFINE Seen == <<owner, claimed, generation, phase, closeStage>>
<1>m. Mapping /\ Mapping'
    BY MappingHolds, MappingNext
<1>t. /\ TypeOK /\ OneHolder /\ OwnerInv /\ GenerationInv
      /\ TypeOK' /\ OneHolder'
    BY DEF IInv
<1> USE OwnershipAssumption DEF Phases, Holding, Live, MoveTo, closing
<1>1. ASSUME UNCHANGED Seen PROVE UNCHANGED Slot!slotVars
    BY <1>1 DEF Slot!slotVars, Holder, Role
<1>2. ASSUME NEW c \in Conns, Reject(c) PROVE UNCHANGED Slot!slotVars
    <2>1. \A d \in Conns : phase'[d] = phase[d] \/ (phase[d] = "idle" /\ phase'[d] = "gone")
        BY <1>2, <1>t DEF Reject, TypeOK
    <2>2. CASE \E d \in Conns : phase[d] \in Holding
        <3>1. PICK d \in Conns : phase[d] \in Holding
            BY <2>2
        <3>2. phase'[d] = phase[d]
            BY <2>1, <3>1
        <3>3. Holder' = Holder /\ Role' = Role
            BY <3>1, <3>2, <1>m DEF Mapping
        <3>4. QED
            BY <1>2, <3>3 DEF Reject, Slot!slotVars
    <2>3. CASE \A d \in Conns : phase[d] \notin Holding
        <3>1. \A d \in Conns : phase'[d] \notin Holding
            BY <2>1, <2>3
        <3>2. Holder' = Holder /\ Role' = Role
            BY <2>3, <3>1, <1>m DEF Mapping
        <3>3. QED
            BY <1>2, <3>2 DEF Reject, Slot!slotVars
    <2>4. QED
        BY <2>2, <2>3
<1>3. ASSUME NEW c \in Conns, Reserve(c) PROVE Slot!Join(c)
    <2>1. \A d \in Conns : phase[d] \notin Holding
        BY <1>3, <1>t DEF Reserve, Occupied, IInv, ClaimedInv, OwnerInv, InClaim
    <2>2. phase'[c] = "reserved"
        BY <1>3, <1>t DEF Reserve, TypeOK
    <2>3. Holder = NoConn /\ Role = "free" /\ Holder' = c /\ Role' = "joining"
        BY <2>1, <2>2, <1>m DEF Mapping
    <2>4. QED
        BY <1>3, <2>3 DEF Reserve, Occupied, Slot!Join
<1>4. ASSUME NEW c \in Conns, UpgradeFailed(c) \/ InstallRefused(c) PROVE Slot!Withdraw
    <2>1. \A d \in Conns : phase'[d] \notin Holding
        BY <1>4, <1>t DEF UpgradeFailed, InstallRefused, TypeOK, OneHolder
    <2>2. Role = "joining" /\ Holder' = NoConn /\ Role' = "free"
        BY <1>4, <2>1, <1>m DEF UpgradeFailed, InstallRefused, Mapping
    <2>3. QED
        BY <1>4, <2>2 DEF UpgradeFailed, InstallRefused, Slot!Withdraw
<1>5. ASSUME NEW c \in Conns, Install(c) PROVE Slot!Win
    <2>1. phase'[c] \in Live
        BY <1>5, <1>t DEF Install, TypeOK
    <2>2. Holder = c /\ Role = "joining" /\ Holder' = c /\ Role' = "owner"
        BY <1>5, <2>1, <1>m DEF Install, Mapping
    <2>3. QED
        BY <1>5, <2>2 DEF Install, Slot!Win
<1>6. ASSUME NEW c \in Conns, StartReader(c) PROVE UNCHANGED Slot!slotVars
    <2>1. phase'[c] \in Live
        BY <1>6, <1>t DEF StartReader, TypeOK
    <2>2. Holder' = Holder /\ Role' = Role
        BY <1>6, <2>1, <1>m DEF StartReader, Mapping
    <2>3. QED
        BY <1>6, <2>2 DEF StartReader, Slot!slotVars
<1>7. ASSUME NEW c \in Conns, TransportFails(c) \/ HubDrop(c) PROVE UNCHANGED Slot!slotVars
    BY <1>7, <1>1 DEF TransportFails, HubDrop
<1>8. ASSUME NEW c \in Conns, Release(c) PROVE Slot!Leave
    <2>1. phase'[c] = "draining"
        BY <1>8, <1>t DEF Release, TypeOK
    <2>2. Holder = c /\ Role = "owner" /\ Holder' = c /\ Role' = "leaving"
        BY <1>8, <2>1, <1>m DEF Release, Mapping
    <2>3. QED
        BY <1>8, <2>2 DEF Release, Slot!Leave
<1>9. ASSUME NEW c \in Conns, FinishRelease(c) PROVE Slot!Vacate
    <2>1. \A d \in Conns : phase'[d] \notin Holding
        BY <1>9, <1>t DEF FinishRelease, TypeOK, OneHolder
    <2>2. Role = "leaving" /\ Holder' = NoConn /\ Role' = "free"
        BY <1>9, <2>1, <1>m DEF FinishRelease, Mapping
    <2>3. QED
        BY <1>9, <2>2 DEF FinishRelease, Slot!Vacate
<1>10. ASSUME BeginClose PROVE Slot!Shut
    <2>1. UNCHANGED <<Holder, Role, generation>>
        BY <1>10 DEF BeginClose, slotVars, Holder, Role
    <2>2. QED
        BY <1>10, <2>1 DEF BeginClose, Slot!Shut
<1>11. ASSUME CloseClients \/ ClientsClosed \/ FinishClose PROVE UNCHANGED Slot!slotVars
    <2>1. UNCHANGED <<owner, claimed, generation, phase>>
        BY <1>11 DEF CloseClients, ClientsClosed, FinishClose, slotVars
    <2>2. closing /\ closing'
        BY <1>11 DEF CloseClients, ClientsClosed, FinishClose
    <2>3. UNCHANGED <<Holder, Role>>
        BY <2>1 DEF Holder, Role
    <2>4. (~closing)' = ~closing
        BY <2>2
    <2>5. QED
        BY <2>1, <2>3, <2>4 DEF Slot!slotVars
<1>12. CASE UNCHANGED vars
    BY <1>12, <1>1 DEF vars
<1>13. QED
    BY <1>2, <1>3, <1>4, <1>5, <1>6, <1>7, <1>8, <1>9, <1>10, <1>11, <1>12
       DEF Next, Handler, Reader, Closer, Slot!Next

\* The fields of the endpoint implement OwnerSlot.
THEOREM Implements == SafetySpec => ImplementsSlot
<1>1. Init => Slot!Init
    BY OwnershipAssumption DEF Init, Slot!Init, Holder, Role, closing
<1>2. QED
    BY <1>1, StepImplements, Invariance, PTL DEF SafetySpec, ImplementsSlot, Slot!Spec
=============================================================================
