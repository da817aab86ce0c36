----------------------- MODULE UploadAdmission_proofs -----------------------
(***************************************************************************)
(* Proofs about UploadAdmission for any number of requests and clients and *)
(* any limits: the counters are exact, so the limits hold and a refusal is *)
(* never spurious.                                                         *)
(***************************************************************************)
EXTENDS UploadAdmission, FiniteSetTheorems, TLAPS

(* The strengthening: the set of holders is finite, as it is empty at the  *)
(* start and changes by one request at a time, so that cardinalities can   *)
(* be counted up and down even if Requests is infinite.                    *)
AdmissionInv ==
    /\ AdmissionTypeOK
    /\ IsFiniteSet(Held)
    /\ CountersExact
    /\ globalCount <= MaxGlobal
    /\ \A c \in DOMAIN clientCounts : clientCounts[c] <= MaxPerClient

(* A client without an entry holds nothing, and HeldBy is always counted   *)
(* by CountOf.                                                             *)
LEMMA CountOfExact ==
    ASSUME AdmissionInv, NEW c
    PROVE  /\ CountOf(c) = Cardinality(HeldBy(c))
           /\ IsFiniteSet(HeldBy(c))
           /\ CountOf(c) \in Nat
  <1>1. HeldBy(c) \subseteq Held
    BY DEF HeldBy
  <1>2. IsFiniteSet(HeldBy(c))
    BY <1>1, FS_Subset DEF AdmissionInv
  <1>3. CASE c \in DOMAIN clientCounts
    BY <1>2, <1>3 DEF AdmissionInv, AdmissionTypeOK, CountersExact, CountOf
  <1>4. CASE c \notin DOMAIN clientCounts
    <2>1. HeldBy(c) = {}
      BY <1>4 DEF AdmissionInv, CountersExact, HeldBy
    <2>2. Cardinality(HeldBy(c)) = 0
      BY <2>1, FS_EmptySet
    <2>3. QED
      BY <1>2, <1>4, <2>2 DEF CountOf
  <1>5. QED
    BY <1>3, <1>4

(* A granted try_reserve adds its request to the holders and counts it     *)
(* once in each counter.                                                   *)
LEMMA ReserveKeepsInv ==
    ASSUME AdmissionAssumption, AdmissionInv, NEW r \in Requests, TryReserve(r)
    PROVE  AdmissionInv'
  <1> DEFINE k == ClientOf[r]
  <1>0. k \in Clients
    BY DEF AdmissionAssumption
  <1>1. CASE ~HasSlot(k)
    <2>1. /\ reservation' = [reservation EXCEPT ![r] = "refused"]
          /\ reservation[r] = "none"
          /\ UNCHANGED <<globalCount, clientCounts>>
      BY <1>1 DEF TryReserve
    <2>2. Held' = Held /\ \A c : HeldBy(c)' = HeldBy(c)
      BY <2>1 DEF Held, HeldBy, AdmissionInv, AdmissionTypeOK
    <2>3. AdmissionTypeOK'
      BY <2>1 DEF AdmissionInv, AdmissionTypeOK, ReservationStates
    <2>4. QED
      BY <2>1, <2>2, <2>3 DEF AdmissionInv, CountersExact
  <1>2. CASE HasSlot(k)
    <2>1. /\ reservation[r] = "none"
          /\ reservation' = [reservation EXCEPT ![r] = "held"]
          /\ globalCount' = globalCount + 1
          /\ clientCounts' = CountsPlus(k)
      BY <1>2 DEF TryReserve
    <2>2. Held' = Held \cup {r} /\ r \notin Held
      BY <2>1 DEF Held, AdmissionInv, AdmissionTypeOK
    <2>3. HeldBy(k)' = HeldBy(k) \cup {r} /\ r \notin HeldBy(k)
      BY <2>2 DEF HeldBy
    <2>4. \A c : c # k => HeldBy(c)' = HeldBy(c)
      BY <2>2 DEF HeldBy
    <2>5. IsFiniteSet(Held') /\ Cardinality(Held') = Cardinality(Held) + 1
      BY <2>2, FS_AddElement DEF AdmissionInv
    <2>6. Cardinality(HeldBy(k)') = Cardinality(HeldBy(k)) + 1
      BY <2>3, CountOfExact, FS_AddElement
    <2>7. /\ CountOf(k) = Cardinality(HeldBy(k))
          /\ CountOf(k) \in Nat
      BY CountOfExact
    <2>8. /\ DOMAIN clientCounts' = DOMAIN clientCounts \cup {k}
          /\ clientCounts'[k] = CountOf(k) + 1
          /\ \A c \in DOMAIN clientCounts : c # k => clientCounts'[c] = clientCounts[c]
      BY <2>1 DEF CountsPlus
    <2>9. AdmissionTypeOK'
      <3>1. clientCounts' = [c \in DOMAIN clientCounts' |-> clientCounts'[c]]
        BY <2>1 DEF CountsPlus
      <3>2. \A c \in DOMAIN clientCounts' : clientCounts'[c] \in Nat
        BY <2>7, <2>8 DEF AdmissionInv, AdmissionTypeOK
      <3>3. QED
        BY <1>0, <2>1, <2>8, <3>1, <3>2
           DEF AdmissionInv, AdmissionTypeOK, ReservationStates
    <2>10. DOMAIN clientCounts' = {ClientOf[q] : q \in Held'}
      BY <2>2, <2>8 DEF AdmissionInv, CountersExact
    <2>11. \A c \in DOMAIN clientCounts' : clientCounts'[c] = Cardinality(HeldBy(c)')
      <3> TAKE c \in DOMAIN clientCounts'
      <3>1. CASE c = k
        BY <2>6, <2>7, <2>8, <3>1
      <3>2. CASE c # k
        BY <2>4, <2>8, <3>2 DEF AdmissionInv, CountersExact
      <3>3. QED
        BY <3>1, <3>2
    <2>12. globalCount' = Cardinality(Held')
      BY <2>1, <2>5 DEF AdmissionInv, CountersExact
    <2>13. globalCount' <= MaxGlobal
      BY <1>2, <2>1 DEF AdmissionInv, AdmissionTypeOK, HasSlot, AdmissionAssumption
    <2>14. \A c \in DOMAIN clientCounts' : clientCounts'[c] <= MaxPerClient
      BY <1>2, <2>7, <2>8 DEF AdmissionInv, HasSlot, AdmissionAssumption
    <2>15. QED
      BY <2>5, <2>9, <2>10, <2>11, <2>12, <2>13, <2>14 DEF AdmissionInv, CountersExact
  <1>3. QED
    BY <1>1, <1>2

(* release takes the request out of the holders and uncounts it, once.     *)
LEMMA ReleaseKeepsInv ==
    ASSUME AdmissionAssumption, AdmissionInv, NEW r \in Requests, Release(r)
    PROVE  AdmissionInv'
  <1> DEFINE k == ClientOf[r]
  <1>0. k \in Clients
    BY DEF AdmissionAssumption
  <1>1. CASE reservation[r] = "released"
    <2>1. UNCHANGED admissionVars
      BY <1>1 DEF Release
    <2>2. QED
      BY <2>1 DEF admissionVars, AdmissionInv, AdmissionTypeOK, CountersExact, Held, HeldBy
  <1>2. CASE reservation[r] = "held"
    <2>1. /\ reservation' = [reservation EXCEPT ![r] = "released"]
          /\ globalCount' = globalCount - 1
          /\ clientCounts' = CountsMinus(k)
      BY <1>2 DEF Release
    <2>2. Held' = Held \ {r} /\ r \in Held
      BY <1>2, <2>1 DEF Held, AdmissionInv, AdmissionTypeOK
    <2>3. HeldBy(k)' = HeldBy(k) \ {r} /\ r \in HeldBy(k)
      BY <2>2 DEF HeldBy
    <2>4. \A c : c # k => HeldBy(c)' = HeldBy(c)
      BY <2>2 DEF HeldBy
    <2>5. /\ IsFiniteSet(Held') /\ Cardinality(Held') = Cardinality(Held) - 1
          /\ Cardinality(Held') \in Nat
      BY <2>2, FS_RemoveElement, FS_CardinalityType DEF AdmissionInv
    <2>6. k \in DOMAIN clientCounts
      BY <2>2 DEF AdmissionInv, CountersExact
    <2>7. /\ clientCounts[k] = Cardinality(HeldBy(k))
          /\ clientCounts[k] \in Nat
          /\ IsFiniteSet(HeldBy(k))
      BY <2>6, CountOfExact DEF CountOf
    <2>8. /\ Cardinality(HeldBy(k)') = clientCounts[k] - 1
          /\ Cardinality(HeldBy(k)') \in Nat
          /\ IsFiniteSet(HeldBy(k)')
      BY <2>3, <2>7, FS_RemoveElement, FS_CardinalityType
    <2>9. globalCount' = Cardinality(Held') /\ globalCount' <= MaxGlobal
      BY <2>1, <2>5 DEF AdmissionInv, AdmissionTypeOK, CountersExact, AdmissionAssumption
    <2>10. CASE clientCounts[k] = 1
      <3>1. /\ DOMAIN clientCounts' = DOMAIN clientCounts \ {k}
            /\ \A c \in DOMAIN clientCounts' : clientCounts'[c] = clientCounts[c]
            /\ clientCounts' = [c \in DOMAIN clientCounts' |-> clientCounts'[c]]
        BY <2>1, <2>10 DEF CountsMinus
      <3>2. HeldBy(k)' = {}
        BY <2>8, <2>10, FS_EmptySet
      <3>3. DOMAIN clientCounts' = {ClientOf[q] : q \in Held'}
        <4>1. ASSUME NEW q \in Held' PROVE ClientOf[q] \in DOMAIN clientCounts'
          BY <2>2, <3>1, <3>2, <4>1 DEF AdmissionInv, CountersExact, HeldBy
        <4>2. ASSUME NEW c \in DOMAIN clientCounts' PROVE \E q \in Held' : c = ClientOf[q]
          BY <2>2, <3>1, <4>2 DEF AdmissionInv, CountersExact
        <4>3. QED
          BY <4>1, <4>2
      <3>4. \A c \in DOMAIN clientCounts' : clientCounts'[c] = Cardinality(HeldBy(c)')
        BY <2>4, <3>1 DEF AdmissionInv, CountersExact
      <3>5. AdmissionTypeOK'
        BY <2>1, <2>5, <3>1 DEF AdmissionInv, AdmissionTypeOK, CountersExact, ReservationStates
      <3>6. \A c \in DOMAIN clientCounts' : clientCounts'[c] <= MaxPerClient
        BY <3>1 DEF AdmissionInv
      <3>7. QED
        BY <2>5, <2>9, <3>3, <3>4, <3>5, <3>6 DEF AdmissionInv, CountersExact
    <2>11. CASE clientCounts[k] # 1
      <3>1. /\ DOMAIN clientCounts' = DOMAIN clientCounts
            /\ clientCounts'[k] = clientCounts[k] - 1
            /\ \A c \in DOMAIN clientCounts : c # k => clientCounts'[c] = clientCounts[c]
            /\ clientCounts' = [c \in DOMAIN clientCounts' |-> clientCounts'[c]]
        BY <2>1, <2>6, <2>11 DEF CountsMinus
      <3>2. HeldBy(k)' # {}
        BY <2>7, <2>8, <2>11, FS_EmptySet
      <3>3. DOMAIN clientCounts' = {ClientOf[q] : q \in Held'}
        <4>1. ASSUME NEW q \in Held' PROVE ClientOf[q] \in DOMAIN clientCounts'
          BY <2>2, <3>1, <4>1 DEF AdmissionInv, CountersExact
        <4>2. ASSUME NEW c \in DOMAIN clientCounts' PROVE \E q \in Held' : c = ClientOf[q]
          <5>1. CASE c = k
            BY <3>2, <5>1 DEF HeldBy
          <5>2. CASE c # k
            BY <2>2, <3>1, <4>2, <5>2 DEF AdmissionInv, CountersExact
          <5>3. QED
            BY <5>1, <5>2
        <4>3. QED
          BY <4>1, <4>2
      <3>4. \A c \in DOMAIN clientCounts' : clientCounts'[c] = Cardinality(HeldBy(c)')
        <4> TAKE c \in DOMAIN clientCounts'
        <4>1. CASE c = k
          BY <2>8, <3>1, <4>1
        <4>2. CASE c # k
          BY <2>4, <3>1, <4>2 DEF AdmissionInv, CountersExact
        <4>3. QED
          BY <4>1, <4>2
      <3>5. \A c \in DOMAIN clientCounts' : clientCounts'[c] \in Nat
        BY <2>7, <2>8, <3>1 DEF AdmissionInv, AdmissionTypeOK
      <3>6. AdmissionTypeOK'
        BY <2>1, <2>5, <3>1, <3>5
           DEF AdmissionInv, AdmissionTypeOK, CountersExact, ReservationStates
      <3>7. \A c \in DOMAIN clientCounts' : clientCounts'[c] <= MaxPerClient
        BY <2>6, <2>7, <3>1 DEF AdmissionInv, AdmissionTypeOK, AdmissionAssumption
      <3>8. QED
        BY <2>5, <2>9, <3>3, <3>4, <3>6, <3>7 DEF AdmissionInv, CountersExact
    <2>12. QED
      BY <2>10, <2>11
  <1>3. QED
    BY <1>1, <1>2 DEF Release

(* Counters that start afresh are exact when nothing is held.              *)
LEMMA InitIsExact ==
    ASSUME AdmissionAssumption, AdmissionInit
    PROVE  AdmissionInv
  <1>1. Held = {} /\ \A c : HeldBy(c) = {}
    BY DEF AdmissionInit, Held, HeldBy
  <1>2. DOMAIN clientCounts = {}
    BY DEF AdmissionInit
  <1>3. IsFiniteSet(Held) /\ Cardinality(Held) = 0
    BY <1>1, FS_EmptySet
  <1>4. QED
    BY <1>1, <1>2, <1>3
       DEF AdmissionInit, AdmissionInv, AdmissionTypeOK, CountersExact, ReservationStates,
           AdmissionAssumption

LEMMA EmptyIsExact ==
    ASSUME AdmissionAssumption,
           globalCount' = 0, clientCounts' = [c \in {} |-> 0], Held' = {},
           reservation' \in [Requests -> ReservationStates]
    PROVE  AdmissionInv'
  <1>1. DOMAIN clientCounts' = {}
    OBVIOUS
  <1>2. IsFiniteSet(Held') /\ Cardinality(Held') = 0
    BY FS_EmptySet
  <1>3. QED
    BY <1>1, <1>2
       DEF AdmissionInv, AdmissionTypeOK, CountersExact, AdmissionAssumption

(* The counters of upload_admission.py:36-56 never drift: they count the   *)
(* slots held, whatever the order of reservations and releases.            *)
THEOREM AdmissionInvariant == AdmissionSpec => []AdmissionInv
  <1> USE AdmissionAssumption
  <1>1. AdmissionInit => AdmissionInv
    BY InitIsExact
  <1>2. AdmissionInv /\ [AdmissionNext]_admissionVars => AdmissionInv'
    <2> SUFFICES ASSUME AdmissionInv, [AdmissionNext]_admissionVars PROVE AdmissionInv'
      OBVIOUS
    <2>1. ASSUME NEW r \in Requests, TryReserve(r) PROVE AdmissionInv'
      BY <2>1, ReserveKeepsInv
    <2>2. ASSUME NEW r \in Requests, Release(r) PROVE AdmissionInv'
      BY <2>2, ReleaseKeepsInv
    <2>3. CASE UNCHANGED admissionVars
      BY <2>3 DEF admissionVars, AdmissionInv, AdmissionTypeOK, CountersExact, Held, HeldBy
    <2>4. QED
      BY <2>1, <2>2, <2>3 DEF AdmissionNext
  <1>3. QED
    BY <1>1, <1>2, PTL DEF AdmissionSpec

(* CountersExact holds for every set of requests and clients.              *)
THEOREM CountersNeverDrift == AdmissionSpec => []CountersExact
  <1>1. AdmissionInv => CountersExact
    BY DEF AdmissionInv
  <1>2. QED
    BY <1>1, AdmissionInvariant, PTL

(* Exact counters below the limits keep the holders below the limits.      *)
LEMMA InvBoundsHolders ==
    ASSUME AdmissionAssumption, AdmissionInv
    PROVE  /\ LimitsHold
           /\ IsFiniteSet(Held) /\ \A c \in Clients : IsFiniteSet(HeldBy(c))
  <1>1. Cardinality(Held) <= MaxGlobal /\ IsFiniteSet(Held)
    BY DEF AdmissionInv, CountersExact
  <1>2. \A c \in Clients : Cardinality(HeldBy(c)) <= MaxPerClient /\ IsFiniteSet(HeldBy(c))
    <2> TAKE c \in Clients
    <2>1. CountOf(c) = Cardinality(HeldBy(c)) /\ IsFiniteSet(HeldBy(c))
      BY CountOfExact
    <2>2. CountOf(c) <= MaxPerClient
      BY DEF AdmissionAssumption, CountOf, AdmissionInv
    <2>3. QED
      BY <2>1, <2>2
  <1>3. QED
    BY <1>1, <1>2 DEF LimitsHold

(* The limits of core/config.py bound the uploads in flight.               *)
THEOREM UploadLimitsHold == AdmissionSpec => []LimitsHold
  <1>1. AdmissionInv => LimitsHold
    BY InvBoundsHolders, AdmissionAssumption
  <1>2. QED
    BY <1>1, AdmissionInvariant, PTL

(* try_reserve refuses only when a limit is really reached.                *)
THEOREM RefusalsAreGenuine == AdmissionSpec => RefusedOnlyWhenFull
  <1> DEFINE Genuine ==
        \A r \in Requests :
            (reservation[r] = "none" /\ reservation'[r] = "refused")
              => \/ Cardinality(Held) >= MaxGlobal
                 \/ Cardinality(HeldBy(ClientOf[r])) >= MaxPerClient
  <1>1. AdmissionInv /\ [AdmissionNext]_admissionVars => [Genuine]_admissionVars
    <2> SUFFICES ASSUME AdmissionInv, AdmissionNext,
                        NEW r \in Requests,
                        reservation[r] = "none", reservation'[r] = "refused"
                 PROVE  \/ Cardinality(Held) >= MaxGlobal
                        \/ Cardinality(HeldBy(ClientOf[r])) >= MaxPerClient
      OBVIOUS
    <2>1. ~HasSlot(ClientOf[r])
      <3>1. PICK q \in Requests : TryReserve(q) \/ Release(q)
        BY DEF AdmissionNext
      <3>2. q = r /\ TryReserve(r)
        BY <3>1 DEF TryReserve, Release, AdmissionInv, AdmissionTypeOK, admissionVars
      <3>3. QED
        BY <3>2 DEF TryReserve, AdmissionInv, AdmissionTypeOK
    <2>2. CountOf(ClientOf[r]) = Cardinality(HeldBy(ClientOf[r])) /\ CountOf(ClientOf[r]) \in Nat
      BY CountOfExact
    <2>3. globalCount = Cardinality(Held) /\ globalCount \in Nat
      BY DEF AdmissionInv, CountersExact, AdmissionTypeOK
    <2>4. QED
      BY <2>1, <2>2, <2>3, AdmissionAssumption DEF HasSlot, AdmissionAssumption
  <1>2. QED
    BY <1>1, AdmissionInvariant, PTL DEF AdmissionSpec, RefusedOnlyWhenFull
=============================================================================
