---------------------------- MODULE HttpBoundary ----------------------------
(***************************************************************************)
(* What stands between a client and the scan service: the middleware that  *)
(* counts the bytes of an upload against a deadline                        *)
(* (middleware/upload_body_limit.py), inside it the rate limiter, then the *)
(* authentication (both in core/security.py), and the part of create_scan  *)
(* that takes an upload slot and reads the form (api/v1/scans.py).         *)
(*                                                                         *)
(* Time is a clock that moves on between any two steps.  A timer of the    *)
(* event loop fires some time after its moment; a client sends what it     *)
(* wants, when it wants, in messages of any size, empty ones included.     *)
(***************************************************************************)
EXTENDS RateLimiter, FiniteSets

CONSTANTS
    Submissions,    \* uploads, one HTTP request each
    Tokens,         \* credentials a caller may present
    Primary,        \* settings.api_access_token
    ClientTokens,   \* settings.api_client_tokens, from tokens to client ids
    Bypass,         \* settings.local_dev_auth_bypass in development
    HeaderOf,       \* the credential headers of a submission
    Shared,         \* the bucket of the callers without an identity
    MaxGlobal,      \* settings.max_concurrent_uploads
    MaxPerClient,   \* settings.max_concurrent_uploads_per_client
    ReadTimeout,    \* settings.upload_read_timeout_seconds
    MaxBytes,       \* settings.max_upload_bytes
    SpecBytes,      \* settings.max_spec_bytes
    ArchiveBytes,   \* settings.max_archive_bytes
    ChunkSizes,     \* bound: sizes of a body message
    MaxClock        \* bound: the last moment of the clock

(* A header is absent, blank, or carries a token; Authorization carries it *)
(* alone, after "Bearer", or after another scheme.                         *)
KeyHeaders == {"absent", "blank"} \cup Tokens
AuthHeaders == {"absent", "blank"} \cup ({"alone", "Bearer", "Basic"} \X Tokens)
Headers == [key : KeyHeaders, auth : AuthHeaders]

NoToken == "no token"
Nobody == "nobody"

----------------------------------------------------------------------------
(* authenticate_token: the primary token wins over a client's. *)
Authenticate(t) ==
    IF t = Primary THEN "default"
    ELSE IF t \in DOMAIN ClientTokens THEN ClientTokens[t] ELSE Nobody

(* The caller without a token. *)
Anonymous == IF Bypass THEN "local-development" ELSE Nobody

(* get_current_client: X-API-Key first, even when it turns out blank. *)
EndpointToken(h) ==
    IF h.key # "absent" THEN IF h.key = "blank" THEN NoToken ELSE h.key
    ELSE IF h.auth \in {"alone", "Bearer"} \X Tokens THEN h.auth[2] ELSE NoToken

EndpointIdentity(h) ==
    IF EndpointToken(h) = NoToken THEN Anonymous ELSE Authenticate(EndpointToken(h))

(* Mutant of LimiterToken: a blank key falls through to Authorization.     *)
LimiterTokenFallsThrough(h) ==
    IF h.key \notin {"absent", "blank"} THEN h.key
    ELSE IF h.auth \in {"alone", "Bearer"} \X Tokens THEN h.auth[2] ELSE NoToken

(* ScanRateLimiter reads the raw headers once more, before FastAPI does. *)
LimiterToken(h) ==
    IF h.key # "absent" THEN IF h.key = "blank" THEN NoToken ELSE h.key
    ELSE IF h.auth \in {"alone", "Bearer"} \X Tokens THEN h.auth[2] ELSE NoToken

BucketOf(h) ==
    LET token    == LimiterToken(h)
        identity == IF token = NoToken THEN Anonymous ELSE Authenticate(token)
    IN  IF identity = Nobody THEN Shared ELSE identity

(* The dictionary has room for every client and for the rest; no key of it *)
(* is "nobody", and no client id is the key of the rest.                   *)
ASSUME BoundaryAssumption ==
    LET ids == {ClientTokens[t] : t \in DOMAIN ClientTokens}
                  \cup {"default", "local-development"}
    IN  /\ HeaderOf \in [Submissions -> Headers]
        /\ Shared \notin ids
        /\ ids \cup {Shared} \subseteq Buckets /\ Nobody \notin Buckets
        /\ \A n \in {ReadTimeout, MaxBytes, SpecBytes, ArchiveBytes,
                     MaxGlobal, MaxPerClient} : n \in Nat \ {0}
        /\ ChunkSizes \subseteq Nat /\ MaxClock \in Nat

----------------------------------------------------------------------------
VARIABLES
    pc,             \* where the submission is
    reply,          \* how it was answered
    deadline,       \* of its body, set by the outermost middleware
    arrival,        \* history: when it arrived
    spec, archive,  \* bytes of the two files received so far
    globalCount, clientCounts, reservation  \* UploadAdmission

slotVars == <<globalCount, clientCounts, reservation>>
bodyVars == <<deadline, arrival, spec, archive>>
vars == <<limiterVars, slotVars, bodyVars, pc, reply>>

(* Only a submission with an identity ever asks for a slot. *)
Identified == {s \in Submissions : EndpointIdentity(HeaderOf[s]) # Nobody}
ClientIds == {EndpointIdentity(HeaderOf[s]) : s \in Identified}
ClientOf == [s \in Identified |-> EndpointIdentity(HeaderOf[s])]

Slots == INSTANCE UploadAdmission WITH Requests <- Identified, Clients <- ClientIds

Places == {"new", "admitted", "authenticated", "reading", "parsed", "working", "over"}
(* "limited" is the limiter's 429; every other error status is "refused".  *)
Replies == {"none", "limited", "refused", "accepted"}

TypeOK ==
    /\ LimiterTypeOK
    /\ Slots!AdmissionTypeOK
    /\ pc \in [Submissions -> Places]
    /\ reply \in [Submissions -> Replies]
    /\ deadline \in [Submissions -> Nat] /\ arrival \in [Submissions -> Nat]
    /\ spec \in [Submissions -> Nat] /\ archive \in [Submissions -> Nat]
    /\ \A s \in Submissions : pc[s] = "over" <=> reply[s] # "none"

Init ==
    /\ LimiterInit
    /\ Slots!AdmissionInit
    /\ pc = [s \in Submissions |-> "new"]
    /\ reply = [s \in Submissions |-> "none"]
    /\ deadline = [s \in Submissions |-> 0]
    /\ arrival = [s \in Submissions |-> 0]
    /\ spec = [s \in Submissions |-> 0]
    /\ archive = [s \in Submissions |-> 0]

----------------------------------------------------------------------------
Received(s) == spec[s] + archive[s]

Goto(s, place) == pc' = [pc EXCEPT ![s] = place] /\ UNCHANGED reply

(* The request is answered; what was spooled for it is dropped. *)
Answer(s, what) ==
    /\ pc' = [pc EXCEPT ![s] = "over"]
    /\ reply' = [reply EXCEPT ![s] = what]
    /\ spec' = [spec EXCEPT ![s] = 0]
    /\ archive' = [archive EXCEPT ![s] = 0]
    /\ deadline' = [deadline EXCEPT ![s] = 0]
    /\ arrival' = [arrival EXCEPT ![s] = 0]

(* Mutant of EndWithSlot: a refusal leaves without the finally.            *)
EndWithSlotOnSuccess(s, what) ==
    /\ Answer(s, what)
    /\ IF what = "accepted" THEN Slots!Release(s) ELSE UNCHANGED slotVars

(* The finally of create_scan runs whatever ended the request. *)
EndWithSlot(s, what) == Answer(s, what) /\ Slots!Release(s)

(* A POST reaches the middlewares.  Bound: late ones would not end before  *)
(* the clock does.                                                         *)
Arrive(s) ==
    /\ pc[s] = "new"
    /\ clock + ReadTimeout <= MaxClock
    /\ UNCHANGED slotVars
    /\ \/ /\ Submission(BucketOf(HeaderOf[s]), TRUE)
          /\ arrival' = [arrival EXCEPT ![s] = clock]
          /\ deadline' = [deadline EXCEPT ![s] = clock + ReadTimeout]
          /\ UNCHANGED <<spec, archive>>
          /\ Goto(s, "admitted")
       \/ /\ Submission(BucketOf(HeaderOf[s]), FALSE)
          /\ Answer(s, "limited")

(* The dependency get_current_client runs in a thread of the pool. *)
Authenticated(s) ==
    /\ pc[s] = "admitted"
    /\ IF EndpointIdentity(HeaderOf[s]) = Nobody
       THEN Answer(s, "refused")
       ELSE Goto(s, "authenticated") /\ UNCHANGED bodyVars
    /\ UNCHANGED <<limiterVars, slotVars>>

(* create_scan refuses what its headers say is no form or too long.  The   *)
(* declared length may be missing, so that both ends are possible.         *)
HeadersRefused(s) ==
    /\ pc[s] = "authenticated"
    /\ Answer(s, "refused")
    /\ UNCHANGED <<limiterVars, slotVars>>

(* Nothing is awaited before try_reserve. *)
TakeSlot(s) ==
    /\ pc[s] = "authenticated"
    /\ Slots!TryReserve(s)
    /\ IF reservation'[s] = "held"
       THEN Goto(s, "reading") /\ UNCHANGED bodyVars
       ELSE Answer(s, "refused")
    /\ UNCHANGED limiterVars

----------------------------------------------------------------------------
(* Mutant of Receive: every message moves the deadline on.                 *)
ReceiveRenews(s, n, part) ==
    /\ pc[s] = "reading"
    /\ clock < deadline[s]
    /\ Received(s) + n <= MaxBytes
    /\ deadline' = [deadline EXCEPT ![s] = clock + ReadTimeout]
    /\ spec' = IF part = "spec" THEN [spec EXCEPT ![s] = @ + n] ELSE spec
    /\ archive' = IF part = "archive" THEN [archive EXCEPT ![s] = @ + n] ELSE archive
    /\ UNCHANGED <<limiterVars, slotVars, arrival, pc, reply>>

(* Mutant of Receive: only the size of one message is compared.            *)
ReceiveCountsMessage(s, n, part) ==
    /\ pc[s] = "reading"
    /\ clock < deadline[s]
    /\ n <= MaxBytes /\ Received(s) < 2 * MaxBytes
    /\ spec' = IF part = "spec" THEN [spec EXCEPT ![s] = @ + n] ELSE spec
    /\ archive' = IF part = "archive" THEN [archive EXCEPT ![s] = @ + n] ELSE archive
    /\ UNCHANGED <<limiterVars, slotVars, arrival, deadline, pc, reply>>

(* limited_receive returns a message with n more bytes of one file. *)
Receive(s, n, part) ==
    /\ pc[s] = "reading"
    /\ clock < deadline[s]
    /\ UNCHANGED limiterVars
    /\ IF Received(s) + n > MaxBytes
       THEN EndWithSlot(s, "refused")
       ELSE /\ spec' = IF part = "spec" THEN [spec EXCEPT ![s] = @ + n] ELSE spec
            /\ archive' = IF part = "archive" THEN [archive EXCEPT ![s] = @ + n]
                          ELSE archive
            /\ UNCHANGED <<slotVars, deadline, arrival, pc, reply>>

(* limited_receive finds no time left, or wait_for runs out of it. *)
ReadTimedOut(s) ==
    /\ pc[s] = "reading"
    /\ clock >= deadline[s]
    /\ EndWithSlot(s, "refused")
    /\ UNCHANGED limiterVars

(* The client goes away before the body is complete. *)
Disconnect(s) ==
    /\ pc[s] = "reading"
    /\ clock < deadline[s]
    /\ EndWithSlot(s, "refused")
    /\ UNCHANGED limiterVars

(* The last message of the body: the form is parsed, or is none. *)
BodyComplete(s) ==
    /\ pc[s] = "reading"
    /\ clock < deadline[s]
    /\ \/ Goto(s, "parsed") /\ UNCHANGED <<bodyVars, slotVars>>
       \/ EndWithSlot(s, "refused")
    /\ UNCHANGED limiterVars

(* _read_upload_with_limit for the two files, then the service's thread. *)
ReadParts(s) ==
    /\ pc[s] = "parsed"
    /\ IF spec[s] > SpecBytes \/ archive[s] > ArchiveBytes
       THEN EndWithSlot(s, "refused")
       ELSE Goto(s, "working") /\ UNCHANGED <<bodyVars, slotVars>>
    /\ UNCHANGED limiterVars

(* The service is done, with a scan or with an error. *)
Finish(s) ==
    /\ pc[s] = "working"
    /\ EndWithSlot(s, "accepted") \/ EndWithSlot(s, "refused")
    /\ UNCHANGED limiterVars

Tick ==
    /\ clock < MaxClock
    /\ clock' = clock + 1
    /\ UNCHANGED <<requests, admitted, slotVars, bodyVars, pc, reply>>

Next ==
    \/ Tick
    \/ \E s \in Submissions :
          \/ Arrive(s) \/ Authenticated(s) \/ HeadersRefused(s) \/ TakeSlot(s)
          \/ \E n \in ChunkSizes, part \in {"spec", "archive"} : Receive(s, n, part)
          \/ ReadTimedOut(s) \/ Disconnect(s) \/ BodyComplete(s)
          \/ ReadParts(s) \/ Finish(s)

(* What the server does by itself, at each place one thing.                *)
ServerStep(s) ==
    \/ Authenticated(s) \/ HeadersRefused(s) \/ TakeSlot(s)
    \/ ReadTimedOut(s) \/ ReadParts(s) \/ Finish(s)

(* The clock moves on, timers fire, and threads run; a client need not     *)
(* send anything.                                                          *)
Fairness == WF_vars(Tick) /\ \A s \in Submissions : WF_vars(ServerStep(s))

Spec == Init /\ [][Next]_vars
FairSpec == Spec /\ Fairness

----------------------------------------------------------------------------
(* The submissions that passed the limiter and will be served as client c. *)
PassedAs(c) ==
    {s \in Submissions : /\ EndpointIdentity(HeaderOf[s]) = c
                         /\ pc[s] # "new" /\ reply[s] # "limited"}

(* Whatever the headers, the limiter's reading of them and the endpoint's  *)
(* name the same client (security.py:95-123 and 185-235).                  *)
ReadersAgree ==
    \A h \in Headers :
        BucketOf(h) = IF EndpointIdentity(h) = Nobody THEN Shared
                      ELSE EndpointIdentity(h)

(* The limiter and the endpoint read the credentials separately, one from  *)
(* raw bytes before the other; whatever the headers, the bucket charged is *)
(* that of the client the endpoint will serve, and the shared one exactly  *)
(* when it will answer 401, so that each log has one entry for each        *)
(* submission passed on (security.py:95-123 and 185-235).                  *)
ChargedAsServed ==
    /\ ReadersAgree
    /\ \A b \in Buckets \ {Shared} : Len(admitted[b]) = Cardinality(PassedAs(b))
    /\ Len(admitted[Shared]) = Cardinality(PassedAs(Nobody))

(* A caller is turned away with 429 by the limiter only when its own       *)
(* bucket was let through Limit times in the last Window: traffic of other *)
(* callers, valid or not, does not use up its quota (THREAT_MODEL.md:189). *)
LimitedOnlyByOwnTraffic ==
    [][\A s \in Submissions :
          (reply[s] = "none" /\ reply'[s] = "limited")
             => WindowFull(BucketOf(HeaderOf[s]))]_vars

(* A slot belongs to a submission the limiter let through, that was        *)
(* authenticated, and that is not answered yet; each such one past         *)
(* try_reserve has its slot (scans.py:172-247).                            *)
SlotIffInEndpoint ==
    \A s \in Identified :
        reservation[s] = "held" <=> pc[s] \in {"reading", "parsed", "working"}

(* The bytes that are spooled, each by its submission and its place.       *)
Spool == UNION {{s} \X (1 .. Received(s)) : s \in Submissions}

(* The bytes held for all uploads together never exceed what the limits    *)
(* promise: one body per slot (upload_body_limit.py:52-55).                *)
SpoolBounded == Cardinality(Spool) <= MaxGlobal * MaxBytes

(* The deadline is for the whole body, counted from the arrival: no byte   *)
(* is accepted later than ReadTimeout after it, however the client paces   *)
(* its messages (upload_body_limit.py:38-49).                              *)
NoByteAfterDeadline ==
    [][\A s \in Submissions :
          Received(s)' > Received(s) => clock < arrival[s] + ReadTimeout]_vars

(* Clients that trickle their bodies, or stop sending, do not keep slots   *)
(* for ever: at some later moment no slot is taken                         *)
(* (upload_body_limit.py:38-49, scans.py:246-247).                         *)
SlotComesBack == []<>(\A s \in Identified : reservation[s] # "held")
=============================================================================
