-------------------------- MODULE UploadAdmission --------------------------
(***************************************************************************)
(* The process-local admission control of scan uploads                     *)
(* (backend/app/services/upload_admission.py).  POST /api/v1/scans takes   *)
(* one slot before it reads the body and gives it back when its coroutine  *)
(* ends.  The object keeps two counters, not the set of the holders: one   *)
(* global, and a dictionary with an entry for each client that holds at    *)
(* least one slot.  Both methods hold a threading.Lock for their whole     *)
(* body, so each is one step.                                              *)
(***************************************************************************)
EXTENDS Naturals, FiniteSets

CONSTANTS
    Requests,       \* upload requests, each with at most one reservation
    Clients,        \* authenticated client identities
    ClientOf,       \* the client that sends a request
    MaxGlobal,      \* settings.max_concurrent_uploads
    MaxPerClient    \* settings.max_concurrent_uploads_per_client

(* core/config.py refuses a limit that is not greater than zero. *)
ASSUME AdmissionAssumption ==
    /\ ClientOf \in [Requests -> Clients]
    /\ MaxGlobal \in Nat \ {0}
    /\ MaxPerClient \in Nat \ {0}

VARIABLES
    globalCount,    \* UploadAdmission._global_count
    clientCounts,   \* UploadAdmission._client_counts, a dictionary
    reservation     \* the request's UploadReservation: none was asked for,
                    \* it was refused, it is held, or _released is set

admissionVars == <<globalCount, clientCounts, reservation>>

ReservationStates == {"none", "refused", "held", "released"}

(* The requests that hold a slot, and those of one client. *)
Held == {r \in Requests : reservation[r] = "held"}
HeldBy(c) == {r \in Held : ClientOf[r] = c}

AdmissionTypeOK ==
    /\ globalCount \in Nat
    /\ DOMAIN clientCounts \subseteq Clients
    /\ clientCounts = [c \in DOMAIN clientCounts |-> clientCounts[c]]
    /\ \A c \in DOMAIN clientCounts : clientCounts[c] \in Nat
    /\ reservation \in [Requests -> ReservationStates]

AdmissionInit ==
    /\ globalCount = 0
    /\ clientCounts = [c \in {} |-> 0]
    /\ reservation = [r \in Requests |-> "none"]

----------------------------------------------------------------------------
(* dict.get(client, 0) *)
CountOf(c) == IF c \in DOMAIN clientCounts THEN clientCounts[c] ELSE 0

HasSlot(c) == globalCount < MaxGlobal /\ CountOf(c) < MaxPerClient

(* The dictionary after one more slot, or one less, for client c; an entry *)
(* that reaches zero is deleted.                                           *)
CountsPlus(c) ==
    [d \in DOMAIN clientCounts \cup {c} |->
        IF d = c THEN CountOf(c) + 1 ELSE clientCounts[d]]

(* Mutant of CountsMinus: leaves the entry of a client without slots.      *)
CountsMinusKeepsEntry(c) == [clientCounts EXCEPT ![c] = @ - 1]

CountsMinus(c) ==
    IF clientCounts[c] = 1
    THEN [d \in DOMAIN clientCounts \ {c} |-> clientCounts[d]]
    ELSE [clientCounts EXCEPT ![c] = @ - 1]

(* try_reserve: refuse, changing nothing, or count the slot twice. *)
TryReserve(r) ==
    /\ reservation[r] = "none"
    /\ IF HasSlot(ClientOf[r])
       THEN /\ globalCount' = globalCount + 1
            /\ clientCounts' = CountsPlus(ClientOf[r])
            /\ reservation' = [reservation EXCEPT ![r] = "held"]
       ELSE /\ reservation' = [reservation EXCEPT ![r] = "refused"]
            /\ UNCHANGED <<globalCount, clientCounts>>

(* release: idempotent, whoever calls it again. *)
Release(r) ==
    /\ reservation[r] \in {"held", "released"}
    /\ IF reservation[r] = "released"
       THEN UNCHANGED admissionVars
       ELSE /\ reservation' = [reservation EXCEPT ![r] = "released"]
            /\ globalCount' = globalCount - 1
            /\ clientCounts' = CountsMinus(ClientOf[r])

AdmissionNext == \E r \in Requests : TryReserve(r) \/ Release(r)

AdmissionSpec == AdmissionInit /\ [][AdmissionNext]_admissionVars

----------------------------------------------------------------------------
(* The counters are exactly the cardinalities of the sets of holders, and  *)
(* the dictionary has an entry for a client when, and only when, it holds  *)
(* a slot: no sequence of refusals, releases and repeated releases makes   *)
(* _global_count and _client_counts drift (upload_admission.py:36-56).     *)
CountersExact ==
    /\ globalCount = Cardinality(Held)
    /\ DOMAIN clientCounts = {ClientOf[r] : r \in Held}
    /\ \A c \in DOMAIN clientCounts : clientCounts[c] = Cardinality(HeldBy(c))

(* No more uploads in flight than the two limits allow.                    *)
LimitsHold ==
    /\ Cardinality(Held) <= MaxGlobal
    /\ \A c \in Clients : Cardinality(HeldBy(c)) <= MaxPerClient

(* A refusal is never spurious: when try_reserve returns None, the slots   *)
(* really held fill the global limit or the client's own.                  *)
RefusedOnlyWhenFull ==
    [][\A r \in Requests :
          (reservation[r] = "none" /\ reservation'[r] = "refused")
             => \/ Cardinality(Held) >= MaxGlobal
                \/ Cardinality(HeldBy(ClientOf[r])) >= MaxPerClient]_admissionVars
============================================================================
