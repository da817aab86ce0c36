------------------------ MODULE HttpBoundary_proofs ------------------------
(***************************************************************************)
(* Proofs about HttpBoundary for any callers, headers, limits and          *)
(* deadlines.  First the limiter by itself: the deque of a bucket is the   *)
(* end of the history of what it let through, and what is in the history   *)
(* and not in the deque is older than a window.  Then PlaceInv adds what   *)
(* is true of a submission's slot, deadline and bytes at each of its       *)
(* places; the counting of the slots comes from UploadAdmission_proofs.    *)
(***************************************************************************)
EXTENDS HttpBoundary, SequenceTheorems, FiniteSetTheorems, TLAPS

(* What is true of one bucket: log is its deque, past its history.         *)
LogInv(log, past) ==
    /\ log \in Seq(Nat) /\ past \in Seq(Nat)
    /\ Len(log) <= Len(past) /\ Len(log) <= Limit
    /\ \A i \in 1 .. Len(log) : log[i] = past[Len(past) - Len(log) + i]
    /\ \A i \in 1 .. Len(past) - Len(log) : past[i] <= clock - Window
    /\ \A i \in 1 .. Len(past) : past[i] <= clock
    /\ \A i \in 1 .. Len(past) - Limit : past[i + Limit] - past[i] >= Window

LimiterInv ==
    /\ LimiterTypeOK
    /\ \A b \in Buckets : LogInv(LogOf(requests, b), admitted[b])

----------------------------------------------------------------------------
LEMMA LimiterInitInv == LimiterInit => LimiterInv
<1> SUFFICES ASSUME LimiterInit PROVE LimiterInv
  OBVIOUS
<1> USE LimiterAssumption DEF LimiterInit
<1>1. LimiterTypeOK
  BY DEF LimiterTypeOK
<1>2. ASSUME NEW b \in Buckets PROVE LogInv(LogOf(requests, b), admitted[b])
  <2>1. LogOf(requests, b) = <<>> /\ admitted[b] = <<>>
    BY DEF LogOf
  <2>2. LogInv(<<>>, <<>>)
    BY DEF LogInv
  <2> QED BY <2>1, <2>2
<1> QED BY <1>1, <1>2 DEF LimiterInv

(* Expiring n times of a deque at the same moment keeps LogInv.            *)
LEMMA ExpiredKeepsLog ==
    ASSUME NEW log, NEW past, LogInv(log, past), clock \in Nat,
           NEW n \in Nat, n <= Len(log), Expires(log, n)
    PROVE  LogInv(SubSeq(log, n + 1, Len(log)), past)
<1> DEFINE rest == SubSeq(log, n + 1, Len(log))
<1> USE LimiterAssumption
<1>1. /\ log \in Seq(Nat) /\ past \in Seq(Nat)
      /\ Len(log) \in Nat /\ Len(past) \in Nat
  BY DEF LogInv
<1>2. /\ rest \in Seq(Nat) /\ Len(rest) = Len(log) - n
      /\ \A i \in 1 .. Len(rest) : rest[i] = log[n + i]
  BY <1>1, SubSeqProperties
<1> HIDE DEF rest
<1>3. \A i \in 1 .. Len(rest) : rest[i] = past[Len(past) - Len(rest) + i]
  <2> TAKE i \in 1 .. Len(rest)
  <2>1. n + i \in 1 .. Len(log)
    BY <1>1, <1>2
  <2>2. log[n + i] = past[Len(past) - Len(log) + (n + i)]
    BY <2>1 DEF LogInv
  <2>3. Len(past) - Len(log) + (n + i) = Len(past) - Len(rest) + i
    BY <1>1, <1>2
  <2> QED BY <1>2, <2>2, <2>3
<1>4. \A i \in 1 .. Len(past) - Len(rest) : past[i] <= clock - Window
  <2> TAKE i \in 1 .. Len(past) - Len(rest)
  <2>1. CASE i <= Len(past) - Len(log)
    BY <1>1, <2>1 DEF LogInv
  <2>2. CASE ~(i <= Len(past) - Len(log))
    <3> DEFINE j == i - (Len(past) - Len(log))
    <3>1. j \in 1 .. n /\ j \in 1 .. Len(log) /\ Len(past) - Len(log) + j = i
      BY <1>1, <1>2, <2>2
    <3>2. log[j] = past[i]
      BY <3>1 DEF LogInv
    <3> QED BY <3>1, <3>2 DEF Expires
  <2> QED BY <2>1, <2>2
<1>5. Len(rest) <= Limit /\ Len(rest) <= Len(past)
  BY <1>1, <1>2 DEF LogInv
<1>6. LogInv(rest, past)
  BY <1>2, <1>3, <1>4, <1>5 DEF LogInv
<1> QED BY <1>6 DEF rest

(* Letting one more through at this moment, when fewer than Limit are left *)
(* in the deque, keeps LogInv.                                             *)
LEMMA AppendKeepsLog ==
    ASSUME NEW log, NEW past, LogInv(log, past), clock \in Nat, Len(log) < Limit
    PROVE  LogInv(Append(log, clock), Append(past, clock))
<1> DEFINE more == Append(log, clock)
           then == Append(past, clock)
<1>l. Limit \in Nat /\ Limit > 0 /\ Window \in Nat
  BY LimiterAssumption
<1>1. /\ log \in Seq(Nat) /\ past \in Seq(Nat)
      /\ Len(log) \in Nat /\ Len(past) \in Nat /\ Len(log) <= Len(past)
  BY DEF LogInv
<1>0. /\ more \in Seq(Nat) /\ then \in Seq(Nat)
      /\ Len(more) = Len(log) + 1 /\ Len(then) = Len(past) + 1
  BY <1>1
<1>2. /\ \A i \in 1 .. Len(log) : more[i] = log[i]
      /\ \A i \in 1 .. Len(past) : then[i] = past[i]
      /\ more[Len(more)] = clock /\ then[Len(then)] = clock
  BY <1>1, <1>0
<1> HIDE DEF more, then
<1>3. \A i \in 1 .. Len(more) : more[i] = then[Len(then) - Len(more) + i]
  <2> TAKE i \in 1 .. Len(more)
  <2>1. CASE i = Len(more)
    BY <1>1, <1>0, <1>2, <2>1
  <2>2. CASE i # Len(more)
    <3>0. i \in Int /\ 1 <= i /\ i <= Len(log)
      BY <1>1, <1>0, <2>2
    <3>1. i \in 1 .. Len(log) /\ Len(past) - Len(log) + i \in 1 .. Len(past)
      BY <1>1, <3>0
    <3>2. log[i] = past[Len(past) - Len(log) + i]
      BY <3>1 DEF LogInv
    <3>3. Len(then) - Len(more) + i = Len(past) - Len(log) + i
      BY <1>1, <1>0
    <3> QED BY <1>2, <3>1, <3>2, <3>3
  <2> QED BY <2>1, <2>2
<1>4. \A i \in 1 .. Len(then) - Len(more) : then[i] <= clock - Window
  <2> TAKE i \in 1 .. Len(then) - Len(more)
  <2>1. i \in 1 .. Len(past) - Len(log) /\ i \in 1 .. Len(past)
    BY <1>1, <1>0
  <2> QED BY <1>0, <1>2, <2>1 DEF LogInv
<1>5. \A i \in 1 .. Len(then) : then[i] <= clock
  <2> TAKE i \in 1 .. Len(then)
  <2>1. CASE i = Len(then)
    BY <1>1, <1>2, <2>1
  <2>2. CASE i # Len(then)
    <3>1. i \in 1 .. Len(past)
      BY <1>1, <1>0, <2>2
    <3> QED BY <1>2, <3>1 DEF LogInv
  <2> QED BY <2>1, <2>2
<1>6. \A i \in 1 .. Len(then) - Limit : then[i + Limit] - then[i] >= Window
  <2> TAKE i \in 1 .. Len(then) - Limit
  <2>1. CASE i + Limit = Len(then)
    <3>1. i \in 1 .. Len(past) - Len(log) /\ i \in 1 .. Len(past)
      BY <1>1, <1>0, <1>l, <2>1
    <3>2. past[i] <= clock - Window /\ past[i] \in Nat
      BY <1>1, <3>1 DEF LogInv
    <3>3. then[i] = past[i] /\ then[i + Limit] = clock
      BY <1>2, <2>1, <3>1
    <3> QED BY <1>l, <3>2, <3>3
  <2>2. CASE i + Limit # Len(then)
    <3> DEFINE l == Len(then)
    <3>2. l \in Nat /\ l = Len(past) + 1
      BY <1>1, <1>0
    <3>3. i \in 1 .. l - Limit /\ i + Limit # l
      BY <2>2
    <3> HIDE DEF l
    <3>0. i \in Int /\ 1 <= i /\ i + Limit <= Len(past)
      BY <1>1, <1>l, <3>2, <3>3
    <3>1. i \in 1 .. Len(past) - Limit /\ i \in 1 .. Len(past) /\ i + Limit \in 1 .. Len(past)
      BY <1>1, <1>l, <3>0
    <3> QED BY <1>2, <3>1 DEF LogInv
  <2> QED BY <2>1, <2>2
<1>7. Len(more) <= Limit /\ Len(more) <= Len(then)
  BY <1>1, <1>0, <1>l
<1>8. LogInv(more, then)
  BY <1>0, <1>3, <1>4, <1>5, <1>6, <1>7 DEF LogInv
<1> QED BY <1>8 DEF more, then

(* A submission keeps the invariant.                                       *)
LEMMA SubmissionKeepsInv ==
    ASSUME LimiterInv, NEW k \in Buckets, NEW pass \in BOOLEAN, Submission(k, pass)
    PROVE  LimiterInv'
<1> USE LimiterAssumption
<1> PICK drop \in [DOMAIN requests -> 0 .. Limit] :
        /\ \A b \in DOMAIN requests :
              drop[b] <= Len(requests[b]) /\ Expires(requests[b], drop[b])
        /\ pass <=> Len(LogOf(Evicted(drop), k)) < Limit
        /\ requests' = [b \in DOMAIN Evicted(drop) \cup {k} |->
                           IF b # k THEN Evicted(drop)[b]
                           ELSE IF pass THEN Append(LogOf(Evicted(drop), k), clock)
                           ELSE LogOf(Evicted(drop), k)]
        /\ admitted' = IF pass
                       THEN [admitted EXCEPT ![k] = Append(@, clock)]
                       ELSE admitted
        /\ clock' = clock
  BY DEF Submission
<1> DEFINE kept == Evicted(drop)
<1>1. /\ clock \in Nat /\ DOMAIN requests \subseteq Buckets
      /\ \A b \in DOMAIN requests : requests[b] \in Seq(Nat)
      /\ admitted \in [Buckets -> Seq(Nat)]
  BY DEF LimiterInv, LimiterTypeOK
<1>2. ASSUME NEW b \in Buckets PROVE LogInv(LogOf(kept, b), admitted[b])
  <2>0. LogInv(LogOf(requests, b), admitted[b])
    BY DEF LimiterInv
  <2>1. CASE b \notin DOMAIN requests
    <3>1. b \notin DOMAIN kept
      BY <2>1 DEF Evicted
    <3> QED BY <2>0, <2>1, <3>1 DEF LogOf
  <2>2. CASE b \in DOMAIN requests
    <3>1. /\ LogOf(requests, b) = requests[b] /\ drop[b] \in Nat
          /\ drop[b] <= Len(requests[b]) /\ Expires(requests[b], drop[b])
      BY <2>2 DEF LogOf
    <3>2. LogInv(SubSeq(requests[b], drop[b] + 1, Len(requests[b])), admitted[b])
      BY <1>1, <2>0, <3>1, ExpiredKeepsLog
    <3>3. LogOf(kept, b) = SubSeq(requests[b], drop[b] + 1, Len(requests[b]))
      <4>1. CASE drop[b] < Len(requests[b])
        BY <2>2, <4>1 DEF Evicted, LogOf
      <4>2. CASE ~(drop[b] < Len(requests[b]))
        <5>1. LogOf(kept, b) = <<>>
          BY <2>2, <4>2 DEF Evicted, LogOf
        <5>2. drop[b] = Len(requests[b]) /\ requests[b] \in Seq(Nat)
          BY <1>1, <2>2, <3>1, <4>2
        <5>3. SubSeq(requests[b], drop[b] + 1, Len(requests[b])) = <<>>
          BY <5>2
        <5> QED BY <5>1, <5>3
      <4> QED BY <4>1, <4>2
    <3> QED BY <3>2, <3>3
  <2> QED BY <2>1, <2>2
<1>3. DOMAIN kept \subseteq Buckets
  BY <1>1 DEF Evicted
<1> HIDE DEF kept
<1>4. ASSUME NEW b \in Buckets
      PROVE  LogInv(LogOf(requests', b), admitted'[b])
  <2>0. LogInv(LogOf(kept, b), admitted[b])
    BY <1>2
  <2>1. CASE b # k
    <3>1. admitted'[b] = admitted[b]
      BY <1>1, <2>1
    <3>2. LogOf(requests', b) = LogOf(kept, b)
      BY <2>1 DEF LogOf, kept
    <3> QED BY <2>0, <3>1, <3>2
  <2>2. CASE b = k /\ pass
    <3>1. admitted'[b] = Append(admitted[b], clock)
      BY <1>1, <2>2
    <3>2. LogOf(requests', b) = Append(LogOf(kept, b), clock)
      BY <2>2 DEF LogOf, kept
    <3>3. Len(LogOf(kept, b)) < Limit
      BY <2>2 DEF kept
    <3> QED BY <1>1, <2>0, <3>1, <3>2, <3>3, AppendKeepsLog
  <2>3. CASE b = k /\ ~pass
    <3>1. admitted'[b] = admitted[b]
      BY <1>1, <2>3
    <3>2. LogOf(requests', b) = LogOf(kept, b)
      BY <2>3 DEF LogOf, kept
    <3> QED BY <2>0, <3>1, <3>2
  <2> QED BY <2>1, <2>2, <2>3
<1>5. \A b \in Buckets : LogInv(LogOf(requests, b), admitted[b])'
  <2> TAKE b \in Buckets
  <2>1. clock' = clock
    OBVIOUS
  <2>2. LogInv(LogOf(requests', b), admitted'[b])
    BY <1>4
  <2> QED BY <2>1, <2>2 DEF LogInv, LogOf
<1>6. LimiterTypeOK'
  <2>1. clock' \in Nat
    BY <1>1
  <2>2. DOMAIN requests' \subseteq Buckets
    BY <1>3 DEF kept
  <2>3. ASSUME NEW b \in DOMAIN requests' PROVE requests'[b] \in Seq(Nat)
    BY <1>4, <2>2, <2>3 DEF LogInv, LogOf
  <2>4. admitted' \in [Buckets -> Seq(Nat)]
    BY <1>1
  <2> QED BY <2>1, <2>2, <2>3, <2>4 DEF LimiterTypeOK
<1> QED BY <1>5, <1>6 DEF LimiterInv

(* So does the clock when it moves on.                                     *)
LEMMA TickKeepsInv ==
    ASSUME LimiterInv, clock' \in Nat, clock <= clock',
           UNCHANGED <<requests, admitted>>
    PROVE  LimiterInv'
<1> USE LimiterAssumption
<1>1. LimiterTypeOK'
  BY DEF LimiterInv, LimiterTypeOK
<1>2. ASSUME NEW b \in Buckets PROVE LogInv(LogOf(requests, b), admitted[b])'
  <2> DEFINE log  == LogOf(requests, b)
             past == admitted[b]
  <2>1. LogInv(log, past) /\ log' = log /\ past' = past /\ clock \in Nat
    BY DEF LimiterInv, LimiterTypeOK, LogOf
  <2>2. \A i \in 1 .. Len(past) : past[i] \in Nat
    BY <2>1 DEF LogInv
  <2>3. Len(log) \in Nat /\ Len(past) \in Nat
    BY <2>1 DEF LogInv
  <2> HIDE DEF log, past
  <2>4. \A i \in 1 .. Len(past) - Len(log) : past[i] <= clock' - Window
    <3> TAKE i \in 1 .. Len(past) - Len(log)
    <3>1. past[i] <= clock - Window /\ past[i] \in Nat
      BY <2>1, <2>2, <2>3 DEF LogInv
    <3> QED BY <2>1, <3>1
  <2>5. \A i \in 1 .. Len(past) : past[i] <= clock'
    <3> TAKE i \in 1 .. Len(past)
    <3>1. past[i] <= clock /\ past[i] \in Nat
      BY <2>1, <2>2 DEF LogInv
    <3> QED BY <2>1, <3>1
  <2>6. LogInv(log, past)'
    BY <2>1, <2>4, <2>5 DEF LogInv
  <2> QED BY <2>6 DEF log, past
<1> QED BY <1>1, <1>2 DEF LimiterInv

----------------------------------------------------------------------------
(* What the invariant says of the history alone.                           *)
LEMMA InvWindow == LimiterInv => WindowNeverExceeded
  BY DEF LimiterInv, LogInv, WindowNeverExceeded

(* A refusal finds Limit times of the last window in the bucket's history. *)
LEMMA RefusalFindsWindowFull ==
    ASSUME LimiterInv, NEW k \in Buckets, Submission(k, FALSE)
    PROVE  WindowFull(k)
<1> USE LimiterAssumption
<1> PICK drop \in [DOMAIN requests -> 0 .. Limit] :
        /\ \A b \in DOMAIN requests :
              drop[b] <= Len(requests[b]) /\ Expires(requests[b], drop[b])
        /\ ~(Len(LogOf(Evicted(drop), k)) < Limit)
  BY DEF Submission
<1>1. /\ LogInv(LogOf(requests, k), admitted[k])
      /\ clock \in Nat
  BY DEF LimiterInv, LimiterTypeOK
<1>2. k \in DOMAIN requests /\ drop[k] \in Nat /\ drop[k] < Len(requests[k])
  <2>1. LogOf(Evicted(drop), k) # <<>>
    OBVIOUS
  <2>2. k \in DOMAIN Evicted(drop)
    BY <2>1 DEF LogOf
  <2> QED BY <2>2 DEF Evicted
<1> DEFINE log  == requests[k]
           past == admitted[k]
           n    == drop[k]
<1>3. LogInv(log, past)
  BY <1>1, <1>2 DEF LogOf
<1>4. /\ log \in Seq(Nat) /\ past \in Seq(Nat)
      /\ Len(log) \in Nat /\ Len(past) \in Nat
      /\ Len(log) <= Len(past) /\ Len(log) <= Limit
  BY <1>3 DEF LogInv
<1>5. LogOf(Evicted(drop), k) = SubSeq(log, n + 1, Len(log))
  BY <1>2 DEF LogOf, Evicted
<1>6. Len(log) - n >= Limit
  BY <1>2, <1>4, <1>5
<1>7. n = 0 /\ Len(log) = Limit
  BY <1>2, <1>4, <1>6
<1>8. Expires(log, 0)
  BY <1>2, <1>7
<1>9. log[1] > clock - Window
  BY <1>7, <1>8 DEF Expires
<1>10. log[1] = past[Len(past) - Limit + 1]
  BY <1>3, <1>4, <1>7 DEF LogInv
<1> QED BY <1>4, <1>7, <1>9, <1>10 DEF WindowFull

----------------------------------------------------------------------------
InEndpoint == {"reading", "parsed", "working"}

PlaceTyped ==
    /\ pc \in [Submissions -> Places]
    /\ reply \in [Submissions -> Replies]
    /\ deadline \in [Submissions -> Nat] /\ arrival \in [Submissions -> Nat]
    /\ spec \in [Submissions -> Nat] /\ archive \in [Submissions -> Nat]
    /\ reservation \in [Identified -> {"none", "refused", "held", "released"}]

(* A submission in the endpoint is authenticated and has a slot; one that  *)
(* may receive has the deadline it was given on arrival; only one in the   *)
(* endpoint holds bytes, and no more than a body may have; only one that   *)
(* is over was answered.                                                   *)
PlaceInv(s) ==
    /\ pc[s] \in {"authenticated"} \cup InEndpoint => s \in Identified
    /\ s \in Identified =>
          /\ pc[s] \in InEndpoint => reservation[s] = "held"
          /\ pc[s] \in {"new", "admitted", "authenticated"} => reservation[s] = "none"
          /\ pc[s] = "over" => reservation[s] # "held"
    /\ pc[s] \notin {"new", "over"} => deadline[s] = arrival[s] + ReadTimeout
    /\ pc[s] # "over" => reply[s] = "none"
    /\ pc[s] \notin InEndpoint => spec[s] = 0 /\ archive[s] = 0
    /\ spec[s] + archive[s] <= MaxBytes

BoundaryInv ==
    /\ LimiterInv
    /\ PlaceTyped
    /\ \A s \in Submissions : PlaceInv(s)

----------------------------------------------------------------------------
LEMMA Numbers ==
    /\ ReadTimeout \in Nat /\ MaxBytes \in Nat /\ MaxClock \in Nat
    /\ ChunkSizes \subseteq Nat
  BY BoundaryAssumption

LEMMA BucketsCover ==
    ASSUME NEW s \in Submissions PROVE BucketOf(HeaderOf[s]) \in Buckets
<1> DEFINE h == HeaderOf[s]
<1>1. CASE LimiterToken(h) = NoToken
  BY <1>1, BoundaryAssumption DEF BucketOf, Anonymous
<1>2. CASE LimiterToken(h) # NoToken
  BY <1>2, BoundaryAssumption DEF BucketOf, Authenticate
<1> QED BY <1>1, <1>2

(* A step changes what belongs to one submission only. *)
OthersKept(s) ==
    /\ \A t \in Submissions \ {s} :
          /\ pc'[t] = pc[t] /\ deadline'[t] = deadline[t] /\ arrival'[t] = arrival[t]
          /\ spec'[t] = spec[t] /\ archive'[t] = archive[t] /\ reply'[t] = reply[t]
    /\ \A t \in Identified \ {s} : reservation'[t] = reservation[t]

LEMMA OthersKeepPlace ==
    ASSUME NEW s \in Submissions, OthersKept(s), PlaceInv(s)',
           \A t \in Submissions : PlaceInv(t)
    PROVE  \A t \in Submissions : PlaceInv(t)'
<1> TAKE t \in Submissions
<1>1. CASE t = s
  BY <1>1
<1>2. CASE t # s
  BY <1>2 DEF OthersKept, PlaceInv, Identified
<1> QED BY <1>1, <1>2

(* The slots seen from here: what the two methods do to one reservation.   *)
LEMMA SlotSteps ==
    ASSUME NEW s \in Identified, PlaceTyped
    PROVE  /\ Slots!TryReserve(s) =>
                 \E v \in {"held", "refused"} :
                     reservation' = [reservation EXCEPT ![s] = v]
           /\ Slots!Release(s) =>
                 reservation' = [reservation EXCEPT ![s] = "released"]
<1>1. Slots!TryReserve(s) =>
        \E v \in {"held", "refused"} : reservation' = [reservation EXCEPT ![s] = v]
  BY DEF Slots!TryReserve
<1>2. ASSUME Slots!Release(s)
      PROVE  reservation' = [reservation EXCEPT ![s] = "released"]
  <2>1. CASE reservation[s] = "released"
    BY <1>2, <2>1 DEF Slots!Release, Slots!admissionVars, PlaceTyped
  <2>2. CASE reservation[s] # "released"
    BY <1>2, <2>2 DEF Slots!Release
  <2> QED BY <2>1, <2>2
<1> QED BY <1>1, <1>2

(* An answer ends a submission, with or without a slot.                    *)
LEMMA AnswerEnds ==
    ASSUME PlaceTyped, NEW s \in Submissions, NEW what \in Replies,
           Answer(s, what), UNCHANGED reservation,
           s \in Identified => reservation[s] # "held"
    PROVE  PlaceTyped' /\ PlaceInv(s)' /\ OthersKept(s)
<1>1. PlaceTyped'
  BY DEF Answer, PlaceTyped, Places, Identified
<1>2. PlaceInv(s)'
  BY Numbers DEF Answer, PlaceTyped, PlaceInv, InEndpoint, Identified
<1>3. OthersKept(s)
  BY DEF Answer, PlaceTyped, OthersKept
<1> QED BY <1>1, <1>2, <1>3

LEMMA EndWithSlotEnds ==
    ASSUME PlaceTyped, NEW s \in Identified, NEW what \in Replies,
           EndWithSlot(s, what)
    PROVE  PlaceTyped' /\ PlaceInv(s)' /\ OthersKept(s)
<1>0. s \in Submissions
  BY DEF Identified
<1>1. reservation' = [reservation EXCEPT ![s] = "released"]
  BY SlotSteps DEF EndWithSlot
<1>2. Answer(s, what)
  BY DEF EndWithSlot
<1>3. PlaceTyped'
  BY <1>0, <1>1, <1>2 DEF Answer, PlaceTyped, Places, Identified
<1>4. PlaceInv(s)'
  BY <1>0, <1>1, <1>2, Numbers DEF Answer, PlaceTyped, PlaceInv, InEndpoint, Identified
<1>5. OthersKept(s)
  BY <1>0, <1>1, <1>2 DEF Answer, PlaceTyped, OthersKept
<1> QED BY <1>3, <1>4, <1>5

(* A step to another place that keeps slot and body. *)
LEMMA GotoMoves ==
    ASSUME PlaceTyped, NEW s \in Submissions, PlaceInv(s), NEW place \in Places,
           Goto(s, place), UNCHANGED <<bodyVars, reservation>>,
           \/ pc[s] = "admitted" /\ place = "authenticated" /\ s \in Identified
           \/ pc[s] \in InEndpoint /\ place \in InEndpoint
    PROVE  PlaceTyped' /\ PlaceInv(s)' /\ OthersKept(s)
<1>1. PlaceTyped'
  BY DEF Goto, bodyVars, PlaceTyped, Identified
<1>2. PlaceInv(s)'
  BY DEF Goto, bodyVars, PlaceTyped, PlaceInv, InEndpoint, Identified
<1>3. OthersKept(s)
  BY DEF Goto, bodyVars, PlaceTyped, OthersKept
<1> QED BY <1>1, <1>2, <1>3

----------------------------------------------------------------------------
LEMMA InitEstablishes == Init => BoundaryInv
<1> SUFFICES ASSUME Init PROVE BoundaryInv
  OBVIOUS
<1>1. LimiterInv
  BY LimiterInitInv DEF Init
<1>2. PlaceTyped
  BY DEF Init, Slots!AdmissionInit, PlaceTyped, Places, Replies
<1>3. \A s \in Submissions : PlaceInv(s)
  BY Numbers DEF Init, Slots!AdmissionInit, PlaceInv, InEndpoint
<1> QED BY <1>1, <1>2, <1>3 DEF BoundaryInv

(* What one step of a submission does to the limiter.                      *)
LEMMA StepKeepsLimiter ==
    ASSUME LimiterInv, [Next]_vars
    PROVE  LimiterInv'
<1>1. ASSUME UNCHANGED limiterVars PROVE LimiterInv'
  <2>1. clock \in Nat
    BY DEF LimiterInv, LimiterTypeOK
  <2> QED BY <1>1, <2>1, TickKeepsInv DEF limiterVars
<1>2. CASE UNCHANGED vars
  BY <1>1, <1>2 DEF vars
<1>3. CASE Tick
  <2>1. clock' \in Nat /\ clock <= clock'
    BY <1>3 DEF Tick, LimiterInv, LimiterTypeOK
  <2> QED BY <1>3, <2>1, TickKeepsInv DEF Tick
<1>4. ASSUME NEW s \in Submissions, Arrive(s) PROVE LimiterInv'
  <2>1. BucketOf(HeaderOf[s]) \in Buckets
    BY BucketsCover
  <2>2. CASE Submission(BucketOf(HeaderOf[s]), TRUE)
    BY <2>1, <2>2, SubmissionKeepsInv
  <2>3. CASE Submission(BucketOf(HeaderOf[s]), FALSE)
    BY <2>1, <2>3, SubmissionKeepsInv
  <2> QED BY <1>4, <2>2, <2>3 DEF Arrive
<1>5. ASSUME NEW s \in Submissions,
             \/ Authenticated(s) \/ HeadersRefused(s) \/ TakeSlot(s)
             \/ \E n \in ChunkSizes, part \in {"spec", "archive"} : Receive(s, n, part)
             \/ ReadTimedOut(s) \/ Disconnect(s) \/ BodyComplete(s)
             \/ ReadParts(s) \/ Finish(s)
      PROVE  LimiterInv'
  <2>1. UNCHANGED limiterVars
    BY <1>5 DEF Authenticated, HeadersRefused, TakeSlot, Receive, ReadTimedOut,
                Disconnect, BodyComplete, ReadParts, Finish
  <2> QED BY <1>1, <2>1
<1> QED BY <1>2, <1>3, <1>4, <1>5 DEF Next

(* Each action of a submission keeps its own place, and touches no other's. *)
LEMMA ActionKeepsPlace ==
    ASSUME BoundaryInv, NEW s \in Submissions,
           \/ Arrive(s) \/ Authenticated(s) \/ HeadersRefused(s) \/ TakeSlot(s)
           \/ \E n \in ChunkSizes, part \in {"spec", "archive"} : Receive(s, n, part)
           \/ ReadTimedOut(s) \/ Disconnect(s) \/ BodyComplete(s)
           \/ ReadParts(s) \/ Finish(s)
    PROVE  PlaceTyped' /\ PlaceInv(s)' /\ OthersKept(s)
<1> DEFINE Kept == PlaceTyped' /\ PlaceInv(s)' /\ OthersKept(s)
<1>0. PlaceTyped /\ PlaceInv(s) /\ clock \in Nat
  BY DEF BoundaryInv, LimiterInv, LimiterTypeOK
<1>1. CASE Arrive(s)
  <2>1. UNCHANGED reservation /\ pc[s] = "new"
    BY <1>1 DEF Arrive, slotVars
  <2>2. CASE Answer(s, "limited")
    BY <1>0, <2>1, <2>2, AnswerEnds DEF Replies, PlaceInv
  <2>3. CASE /\ arrival' = [arrival EXCEPT ![s] = clock]
             /\ deadline' = [deadline EXCEPT ![s] = clock + ReadTimeout]
             /\ UNCHANGED <<spec, archive>>
             /\ Goto(s, "admitted")
    <3>1. PlaceTyped'
      BY <1>0, <2>1, <2>3, Numbers DEF Goto, PlaceTyped, Places, Identified
    <3>2. PlaceInv(s)'
      BY <1>0, <2>1, <2>3, Numbers DEF Goto, PlaceTyped, PlaceInv, InEndpoint, Identified
    <3>3. OthersKept(s)
      BY <1>0, <2>1, <2>3 DEF Goto, PlaceTyped, OthersKept
    <3> QED BY <3>1, <3>2, <3>3
  <2> QED BY <1>1, <2>2, <2>3 DEF Arrive
<1>2. CASE Authenticated(s)
  <2>1. UNCHANGED reservation /\ pc[s] = "admitted"
    BY <1>2 DEF Authenticated, slotVars
  <2>2. CASE Answer(s, "refused")
    BY <1>0, <2>1, <2>2, AnswerEnds DEF Replies, PlaceInv
  <2>3. CASE s \in Identified /\ Goto(s, "authenticated") /\ UNCHANGED bodyVars
    BY <1>0, <2>1, <2>3, GotoMoves DEF Places
  <2> QED BY <1>2, <2>2, <2>3 DEF Authenticated, Identified
<1>3. CASE HeadersRefused(s)
  <2>1. UNCHANGED reservation /\ pc[s] = "authenticated" /\ Answer(s, "refused")
    BY <1>3 DEF HeadersRefused, slotVars
  <2> QED BY <1>0, <2>1, AnswerEnds DEF Replies, PlaceInv
<1>4. CASE TakeSlot(s)
  <2>1. pc[s] = "authenticated" /\ s \in Identified /\ Slots!TryReserve(s)
    BY <1>0, <1>4 DEF TakeSlot, PlaceInv
  <2>2. PICK v \in {"held", "refused"} : reservation' = [reservation EXCEPT ![s] = v]
    BY <1>0, <2>1, SlotSteps
  <2>3. reservation'[s] = v
    BY <1>0, <2>1, <2>2 DEF PlaceTyped
  <2>4. CASE v = "held"
    <3>1. Goto(s, "reading") /\ UNCHANGED bodyVars
      BY <1>4, <2>3, <2>4 DEF TakeSlot
    <3>2. PlaceTyped'
      BY <1>0, <2>1, <2>2, <3>1 DEF Goto, bodyVars, PlaceTyped, Places, Identified
    <3>3. PlaceInv(s)'
      BY <1>0, <2>1, <2>2, <2>4, <3>1
         DEF Goto, bodyVars, PlaceTyped, PlaceInv, InEndpoint, Identified
    <3>4. OthersKept(s)
      BY <1>0, <2>2, <3>1 DEF Goto, bodyVars, PlaceTyped, OthersKept
    <3> QED BY <3>2, <3>3, <3>4
  <2>5. CASE v = "refused"
    <3>1. Answer(s, "refused")
      BY <1>4, <2>3, <2>5 DEF TakeSlot
    <3>2. PlaceTyped'
      BY <1>0, <2>1, <2>2, <3>1 DEF Answer, PlaceTyped, Places, Replies, Identified
    <3>3. PlaceInv(s)'
      BY <1>0, <2>1, <2>2, <2>5, <3>1
         DEF Answer, PlaceTyped, PlaceInv, InEndpoint, Identified
    <3>4. OthersKept(s)
      BY <1>0, <2>2, <3>1 DEF Answer, PlaceTyped, OthersKept
    <3> QED BY <3>2, <3>3, <3>4
  <2> QED BY <2>4, <2>5
<1>5. ASSUME pc[s] \in InEndpoint, EndWithSlot(s, "refused") \/ EndWithSlot(s, "accepted")
      PROVE  Kept
  <2>1. s \in Identified
    BY <1>0, <1>5 DEF PlaceInv
  <2> QED BY <1>0, <1>5, <2>1, EndWithSlotEnds DEF Replies
<1>6. ASSUME pc[s] \in InEndpoint, NEW place \in InEndpoint, Goto(s, place),
             UNCHANGED <<bodyVars, slotVars>>
      PROVE  Kept
  <2>1. place \in Places /\ UNCHANGED <<bodyVars, reservation>>
    BY <1>6 DEF InEndpoint, Places, slotVars
  <2> QED BY <1>0, <1>6, <2>1, GotoMoves
<1>7. ASSUME NEW n \in ChunkSizes, NEW part \in {"spec", "archive"}, Receive(s, n, part)
      PROVE  Kept
  <2>1. pc[s] \in InEndpoint
    BY <1>7 DEF Receive, InEndpoint
  <2>2. CASE EndWithSlot(s, "refused")
    BY <1>5, <2>1, <2>2
  <2>3. CASE ~EndWithSlot(s, "refused")
    <3>1. /\ spec' = IF part = "spec" THEN [spec EXCEPT ![s] = @ + n] ELSE spec
          /\ archive' = IF part = "archive" THEN [archive EXCEPT ![s] = @ + n] ELSE archive
          /\ UNCHANGED <<reservation, deadline, arrival, pc, reply>>
      BY <1>7, <2>3 DEF Receive, slotVars
    <3>2. n \in Nat
      BY Numbers
    <3>3. PlaceTyped'
      BY <1>0, <3>1, <3>2 DEF PlaceTyped, Identified
    <3>4. PlaceInv(s)'
      <4>1. pc'[s] = "reading"
        BY <1>7, <3>1 DEF Receive
      <4>2. spec'[s] + archive'[s] <= MaxBytes
        <5>1. spec[s] + archive[s] + n <= MaxBytes
          BY <1>0, <1>7, <2>3, <3>2, Numbers DEF Receive, Received, PlaceTyped
        <5> QED BY <1>0, <3>1, <3>2, <5>1, Numbers DEF PlaceTyped
      <4> QED BY <1>0, <3>1, <4>1, <4>2 DEF PlaceInv, InEndpoint, Identified
    <3>5. OthersKept(s)
      BY <1>0, <3>1 DEF PlaceTyped, OthersKept
    <3> QED BY <3>3, <3>4, <3>5
  <2> QED BY <2>2, <2>3
<1>8. CASE ReadTimedOut(s) \/ Disconnect(s)
  BY <1>5, <1>8 DEF ReadTimedOut, Disconnect, InEndpoint
<1>9. CASE BodyComplete(s)
  BY <1>5, <1>6, <1>9 DEF BodyComplete, InEndpoint
<1>10. CASE ReadParts(s)
  BY <1>5, <1>6, <1>10 DEF ReadParts, InEndpoint
<1>11. CASE Finish(s)
  BY <1>5, <1>11 DEF Finish, InEndpoint
<1> QED BY <1>1, <1>2, <1>3, <1>4, <1>7, <1>8, <1>9, <1>10, <1>11

LEMMA StepKeepsInv == BoundaryInv /\ [Next]_vars => BoundaryInv'
<1> SUFFICES ASSUME BoundaryInv, [Next]_vars PROVE BoundaryInv'
  OBVIOUS
<1>1. LimiterInv'
  BY StepKeepsLimiter DEF BoundaryInv
<1>2. ASSUME UNCHANGED <<slotVars, bodyVars, pc, reply>>
      PROVE  PlaceTyped' /\ \A s \in Submissions : PlaceInv(s)'
  BY <1>2 DEF BoundaryInv, slotVars, bodyVars, PlaceTyped, PlaceInv, Identified
<1>3. CASE UNCHANGED vars
  BY <1>1, <1>2, <1>3 DEF vars, BoundaryInv
<1>4. CASE Tick
  BY <1>1, <1>2, <1>4 DEF Tick, BoundaryInv
<1>5. ASSUME NEW s \in Submissions,
             \/ Arrive(s) \/ Authenticated(s) \/ HeadersRefused(s) \/ TakeSlot(s)
             \/ \E n \in ChunkSizes, part \in {"spec", "archive"} : Receive(s, n, part)
             \/ ReadTimedOut(s) \/ Disconnect(s) \/ BodyComplete(s)
             \/ ReadParts(s) \/ Finish(s)
      PROVE  BoundaryInv'
  <2>1. PlaceTyped' /\ PlaceInv(s)' /\ OthersKept(s)
    BY <1>5, ActionKeepsPlace
  <2>2. \A t \in Submissions : PlaceInv(t)'
    BY <2>1, OthersKeepPlace DEF BoundaryInv
  <2> QED BY <1>1, <2>1, <2>2 DEF BoundaryInv
<1> QED BY <1>3, <1>4, <1>5 DEF Next

(* The inductive invariant of the boundary.                                *)
THEOREM BoundaryInvariant == Spec => []BoundaryInv
<1> QED BY InitEstablishes, StepKeepsInv, PTL DEF Spec

(* Whatever the limit and the window, no bucket is let through more often  *)
(* than the limit in any window of that length (security.py:207-236).      *)
THEOREM NoWindowExceeded == Spec => []WindowNeverExceeded
<1>1. BoundaryInv => WindowNeverExceeded
  BY InvWindow DEF BoundaryInv
<1> QED BY <1>1, BoundaryInvariant, PTL

(* A slot is held exactly by the submissions that are in the endpoint.     *)
THEOREM SlotsMatchPlaces == Spec => []SlotIffInEndpoint
<1>1. BoundaryInv => SlotIffInEndpoint
  <2> SUFFICES ASSUME BoundaryInv, NEW s \in Identified
               PROVE  reservation[s] = "held" <=> pc[s] \in InEndpoint
    BY DEF SlotIffInEndpoint, InEndpoint
  <2>1. s \in Submissions /\ pc[s] \in Places /\ PlaceInv(s)
    BY DEF Identified, BoundaryInv, PlaceTyped
  <2> QED BY <2>1 DEF PlaceInv, InEndpoint, Places
<1> QED BY <1>1, BoundaryInvariant, PTL

(* The limiter turns a caller away only for what its own bucket was let    *)
(* through in the last window.                                             *)
THEOREM LimitedByOwnTraffic == Spec => LimitedOnlyByOwnTraffic
<1> DEFINE Own ==
        \A s \in Submissions :
            (reply[s] = "none" /\ reply'[s] = "limited") => WindowFull(BucketOf(HeaderOf[s]))
<1>1. BoundaryInv /\ [Next]_vars => [Own]_vars
  <2> SUFFICES ASSUME BoundaryInv, Next, NEW s \in Submissions,
                      reply[s] = "none", reply'[s] = "limited"
               PROVE  WindowFull(BucketOf(HeaderOf[s]))
    OBVIOUS
  <2>0. reply \in [Submissions -> Replies]
    BY DEF BoundaryInv, PlaceTyped
  <2>1. CASE Tick
    BY <2>1 DEF Tick
  <2>2. ASSUME NEW t \in Submissions, Arrive(t) PROVE WindowFull(BucketOf(HeaderOf[s]))
    <3>1. CASE Goto(t, "admitted")
      BY <3>1 DEF Goto
    <3>2. CASE Submission(BucketOf(HeaderOf[t]), FALSE) /\ Answer(t, "limited")
      <4>1. t = s
        BY <2>0, <3>2 DEF Answer
      <4> QED BY <3>2, <4>1, BucketsCover, RefusalFindsWindowFull DEF BoundaryInv
    <3> QED BY <2>2, <3>1, <3>2 DEF Arrive
  <2>3. ASSUME NEW t \in Submissions,
               \/ Authenticated(t) \/ HeadersRefused(t) \/ TakeSlot(t)
               \/ \E n \in ChunkSizes, part \in {"spec", "archive"} : Receive(t, n, part)
               \/ ReadTimedOut(t) \/ Disconnect(t) \/ BodyComplete(t)
               \/ ReadParts(t) \/ Finish(t)
        PROVE  FALSE
    <3>1. UNCHANGED reply \/ \E what \in {"refused", "accepted"} : Answer(t, what)
      BY <2>3 DEF Authenticated, HeadersRefused, TakeSlot, Receive, ReadTimedOut,
                  Disconnect, BodyComplete, ReadParts, Finish, EndWithSlot, Goto
    <3> QED BY <2>0, <3>1 DEF Answer
  <2> QED BY <2>1, <2>2, <2>3 DEF Next
<1> QED BY <1>1, BoundaryInvariant, PTL DEF Spec, LimitedOnlyByOwnTraffic

(* No byte of a body is accepted later than the timeout after its arrival. *)
THEOREM DeadlineIsFinal == Spec => NoByteAfterDeadline
<1> DEFINE InTime ==
        \A s \in Submissions :
            Received(s)' > Received(s) => clock < arrival[s] + ReadTimeout
<1>1. BoundaryInv /\ [Next]_vars => [InTime]_vars
  <2> SUFFICES ASSUME BoundaryInv, Next, NEW s \in Submissions,
                      Received(s)' > Received(s)
               PROVE  clock < arrival[s] + ReadTimeout
    OBVIOUS
  <2>0. spec \in [Submissions -> Nat] /\ archive \in [Submissions -> Nat]
    BY DEF BoundaryInv, PlaceTyped
  <2>1. ~(spec'[s] = spec[s] /\ archive'[s] = archive[s])
    BY <2>0 DEF Received
  <2>2. ~(spec'[s] = 0 /\ archive'[s] = 0)
    BY <2>0 DEF Received
  <2>3. CASE Tick
    BY <2>1, <2>3 DEF Tick, bodyVars
  <2>4. ASSUME NEW t \in Submissions, NEW n \in ChunkSizes,
               NEW part \in {"spec", "archive"}, Receive(t, n, part)
        PROVE  clock < arrival[s] + ReadTimeout
    <3>1. CASE t = s
      <4>1. pc[s] = "reading" /\ clock < deadline[s]
        BY <2>4, <3>1 DEF Receive
      <4>2. deadline[s] = arrival[s] + ReadTimeout
        BY <4>1 DEF BoundaryInv, PlaceInv
      <4> QED BY <4>1, <4>2
    <3>2. CASE t # s
      BY <2>0, <2>1, <2>4, <3>2 DEF Receive, EndWithSlot, Answer
    <3> QED BY <3>1, <3>2
  <2>5. ASSUME NEW t \in Submissions,
               \/ Arrive(t) \/ Authenticated(t) \/ HeadersRefused(t) \/ TakeSlot(t)
               \/ ReadTimedOut(t) \/ Disconnect(t) \/ BodyComplete(t)
               \/ ReadParts(t) \/ Finish(t)
        PROVE  FALSE
    <3>1. UNCHANGED <<spec, archive>> \/ \E what \in Replies : Answer(t, what)
      BY <2>5 DEF Arrive, Authenticated, HeadersRefused, TakeSlot, ReadTimedOut, Replies,
                  Disconnect, BodyComplete, ReadParts, Finish, EndWithSlot, bodyVars
    <3> QED BY <2>0, <2>1, <2>2, <3>1 DEF Answer
  <2> QED BY <2>3, <2>4, <2>5 DEF Next
<1> QED BY <1>1, BoundaryInvariant, PTL DEF Spec, NoByteAfterDeadline

----------------------------------------------------------------------------
(* The slots, as UploadAdmission_proofs knows them.  FiniteSets is the     *)
(* same there and here.                                                    *)
SlotProofs == INSTANCE UploadAdmission_proofs WITH Requests <- Identified, Clients <- ClientIds

LEMMA SlotAssumption == SlotProofs!AdmissionAssumption
  BY BoundaryAssumption DEF SlotProofs!AdmissionAssumption, ClientOf, ClientIds

LEMMA SameCardinality ==
    /\ \A S : SlotProofs!Cardinality(S) = Cardinality(S)
    /\ \A S : SlotProofs!IsFiniteSet(S) = IsFiniteSet(S)
  BY DEF SlotProofs!Cardinality, Cardinality, SlotProofs!IsFiniteSet, IsFiniteSet

(* Only a submission with an identity reaches the two methods, and an      *)
(* answer without the finally leaves the slots alone.                      *)
LEMMA SlotsStep ==
    ASSUME BoundaryInv, [Next]_vars
    PROVE  \/ \E s \in Identified : Slots!TryReserve(s) \/ Slots!Release(s)
           \/ UNCHANGED slotVars
<1>1. CASE Tick \/ UNCHANGED vars
  BY <1>1 DEF Tick, vars
<1>2. ASSUME NEW s \in Submissions, Arrive(s) \/ Authenticated(s) \/ HeadersRefused(s)
      PROVE  UNCHANGED slotVars
  BY <1>2 DEF Arrive, Authenticated, HeadersRefused
<1>3. ASSUME NEW s \in Submissions,
             \/ TakeSlot(s)
             \/ \E n \in ChunkSizes, part \in {"spec", "archive"} : Receive(s, n, part)
             \/ ReadTimedOut(s) \/ Disconnect(s) \/ BodyComplete(s)
             \/ ReadParts(s) \/ Finish(s)
      PROVE  \/ s \in Identified /\ (Slots!TryReserve(s) \/ Slots!Release(s))
             \/ UNCHANGED slotVars
  <2>1. s \in Identified
    BY <1>3 DEF BoundaryInv, PlaceInv, InEndpoint, TakeSlot, Receive, ReadTimedOut,
                Disconnect, BodyComplete, ReadParts, Finish
  <2>2. Slots!TryReserve(s) \/ Slots!Release(s) \/ UNCHANGED slotVars
    BY <1>3 DEF TakeSlot, Receive, ReadTimedOut, Disconnect, BodyComplete, ReadParts,
                Finish, EndWithSlot
  <2> QED BY <2>1, <2>2
<1> QED BY <1>1, <1>2, <1>3 DEF Next

LEMMA SlotsKept ==
    ASSUME BoundaryInv, SlotProofs!AdmissionInv, [Next]_vars
    PROVE  SlotProofs!AdmissionInv'
<1>1. ASSUME NEW s \in Identified, Slots!TryReserve(s) PROVE SlotProofs!AdmissionInv'
  <2>1. SlotProofs!TryReserve(s)
    BY <1>1
       DEF Slots!TryReserve, Slots!HasSlot, Slots!CountOf, Slots!CountsPlus,
           SlotProofs!TryReserve, SlotProofs!HasSlot, SlotProofs!CountOf,
           SlotProofs!CountsPlus
  <2> QED BY <2>1, SlotAssumption, SlotProofs!ReserveKeepsInv
<1>2. ASSUME NEW s \in Identified, Slots!Release(s) PROVE SlotProofs!AdmissionInv'
  <2>1. SlotProofs!Release(s)
    BY <1>2
       DEF Slots!Release, Slots!CountsMinus, Slots!admissionVars,
           SlotProofs!Release, SlotProofs!CountsMinus, SlotProofs!admissionVars
  <2> QED BY <2>1, SlotAssumption, SlotProofs!ReleaseKeepsInv
<1>3. ASSUME UNCHANGED slotVars PROVE SlotProofs!AdmissionInv'
  BY <1>3
     DEF slotVars, SlotProofs!AdmissionInv, SlotProofs!AdmissionTypeOK,
         SlotProofs!CountersExact, SlotProofs!Held, SlotProofs!HeldBy
<1> QED BY <1>1, <1>2, <1>3, SlotsStep

(* The counters of the slots are exact at the boundary too.                *)
THEOREM BoundarySlots == Spec => [](BoundaryInv /\ SlotProofs!AdmissionInv)
<1>1. Init => SlotProofs!AdmissionInv
  <2>1. Init => SlotProofs!AdmissionInit
    BY DEF Init, Slots!AdmissionInit, SlotProofs!AdmissionInit
  <2> QED BY <2>1, SlotAssumption, SlotProofs!InitIsExact
<1>2. BoundaryInv /\ SlotProofs!AdmissionInv /\ [Next]_vars => SlotProofs!AdmissionInv'
  BY SlotsKept
<1> QED BY <1>1, <1>2, BoundaryInvariant, PTL DEF Spec

(* However many uploads arrive and however they end, the bytes spooled for *)
(* all of them together stay below one body per slot.                      *)
THEOREM SpoolStaysBounded == Spec => []SpoolBounded
<1>1. BoundaryInv /\ SlotProofs!AdmissionInv => SpoolBounded
  <2> SUFFICES ASSUME BoundaryInv, SlotProofs!AdmissionInv PROVE SpoolBounded
    OBVIOUS
  <2> DEFINE Holders == SlotProofs!Held
             Bytes   == 1 .. MaxBytes
  <2>1. IsFiniteSet(Holders) /\ Cardinality(Holders) <= MaxGlobal
    BY SlotAssumption, SameCardinality, SlotProofs!InvBoundsHolders
       DEF SlotProofs!LimitsHold
  <2>2. IsFiniteSet(Bytes) /\ Cardinality(Bytes) = MaxBytes
    BY BoundaryAssumption, FS_Interval
  <2>3. Spool \subseteq Holders \X Bytes
    <3> SUFFICES ASSUME NEW s \in Submissions, NEW i \in 1 .. Received(s)
                 PROVE  s \in Holders /\ i \in Bytes
      BY DEF Spool
    <3>1. /\ PlaceInv(s) /\ pc[s] \in Places
          /\ spec[s] \in Nat /\ archive[s] \in Nat /\ MaxBytes \in Nat
      BY Numbers DEF BoundaryInv, PlaceTyped
    <3>2. Received(s) \in Nat /\ Received(s) <= MaxBytes /\ Received(s) # 0
      BY <3>1 DEF PlaceInv, Received
    <3>3. pc[s] \in InEndpoint
      BY <3>1, <3>2 DEF PlaceInv, Received
    <3>4. s \in Identified /\ reservation[s] = "held"
      BY <3>1, <3>3 DEF PlaceInv
    <3>5. s \in Holders
      BY <3>4 DEF SlotProofs!Held
    <3> QED BY <3>1, <3>2, <3>5
  <2> HIDE DEF Holders, Bytes
  <2>4. /\ IsFiniteSet(Holders \X Bytes)
        /\ Cardinality(Holders \X Bytes) = Cardinality(Holders) * Cardinality(Bytes)
    BY <2>1, <2>2, FS_Product
  <2>5. /\ Cardinality(Spool) <= Cardinality(Holders \X Bytes)
        /\ IsFiniteSet(Spool)
    BY <2>3, <2>4, FS_Subset
  <2>6. Cardinality(Spool) \in Nat /\ Cardinality(Holders) \in Nat
    BY <2>1, <2>5, FS_CardinalityType
  <2>7. Cardinality(Holders) * MaxBytes <= MaxGlobal * MaxBytes
    BY <2>1, <2>6, BoundaryAssumption
  <2>8. Cardinality(Spool) <= Cardinality(Holders) * MaxBytes
    BY <2>2, <2>4, <2>5
  <2>9. Cardinality(Holders) * MaxBytes \in Nat /\ MaxGlobal * MaxBytes \in Nat
    BY <2>6, BoundaryAssumption
  <2> QED BY <2>6, <2>7, <2>8, <2>9 DEF SpoolBounded
<1> QED BY <1>1, BoundarySlots, PTL

----------------------------------------------------------------------------
(* Whatever a caller puts into its headers, both readers see one caller.   *)
LEMMA ReadersAlwaysAgree == ReadersAgree
<1> SUFFICES ASSUME NEW h \in Headers
             PROVE  BucketOf(h) = IF EndpointIdentity(h) = Nobody THEN Shared
                                  ELSE EndpointIdentity(h)
  BY DEF ReadersAgree
<1>1. LimiterToken(h) = EndpointToken(h)
  BY DEF LimiterToken, EndpointToken
<1> QED BY <1>1 DEF BucketOf, EndpointIdentity

(* The submissions that bucket b was charged for. *)
Passed(s) == pc[s] # "new" /\ reply[s] # "limited"
Charged(b) == {s \in Submissions : BucketOf(HeaderOf[s]) = b /\ Passed(s)}

(* Each log has one entry for each submission it was charged for.          *)
ChargeInv ==
    \A b \in Buckets : IsFiniteSet(Charged(b)) /\ Len(admitted[b]) = Cardinality(Charged(b))

(* Only an arrival that the limiter lets through passes, and only it is    *)
(* logged.                                                                 *)
LEMMA ChargeStep ==
    ASSUME BoundaryInv, [Next]_vars
    PROVE  \/ /\ \A t \in Submissions : Passed(t)' = Passed(t)
              /\ UNCHANGED admitted
           \/ \E s \in Submissions :
                 /\ ~Passed(s) /\ Passed(s)'
                 /\ \A t \in Submissions \ {s} : Passed(t)' = Passed(t)
                 /\ admitted' = [admitted EXCEPT ![BucketOf(HeaderOf[s])] = Append(@, clock)]
<1> DEFINE Same == (\A t \in Submissions : Passed(t)' = Passed(t)) /\ UNCHANGED admitted
<1>0. /\ pc \in [Submissions -> Places] /\ reply \in [Submissions -> Replies]
      /\ \A s \in Submissions : pc[s] # "over" => reply[s] = "none"
  BY DEF BoundaryInv, PlaceTyped, PlaceInv
<1>1. CASE Tick \/ UNCHANGED vars
  BY <1>1 DEF Tick, vars, limiterVars, Passed
<1>2. ASSUME NEW s \in Submissions, Arrive(s), Goto(s, "admitted"),
             Submission(BucketOf(HeaderOf[s]), TRUE)
      PROVE  /\ ~Passed(s) /\ Passed(s)'
             /\ \A t \in Submissions \ {s} : Passed(t)' = Passed(t)
             /\ admitted' = [admitted EXCEPT ![BucketOf(HeaderOf[s])] = Append(@, clock)]
  <2>1. pc[s] = "new" /\ pc' = [pc EXCEPT ![s] = "admitted"] /\ UNCHANGED reply
    BY <1>2 DEF Arrive, Goto
  <2>2. admitted' = [admitted EXCEPT ![BucketOf(HeaderOf[s])] = Append(@, clock)]
    BY <1>2 DEF Submission
  <2> QED BY <1>0, <2>1, <2>2 DEF Passed
<1>3. ASSUME NEW s \in Submissions, Arrive(s), Answer(s, "limited"),
             Submission(BucketOf(HeaderOf[s]), FALSE)
      PROVE  Same
  <2>1. UNCHANGED admitted
    BY <1>3 DEF Submission
  <2>2. pc[s] = "new"
    BY <1>3 DEF Arrive
  <2> QED BY <1>0, <1>3, <2>1, <2>2 DEF Answer, Passed
<1>4. ASSUME NEW s \in Submissions,
             \/ Authenticated(s) \/ HeadersRefused(s) \/ TakeSlot(s)
             \/ \E n \in ChunkSizes, part \in {"spec", "archive"} : Receive(s, n, part)
             \/ ReadTimedOut(s) \/ Disconnect(s) \/ BodyComplete(s)
             \/ ReadParts(s) \/ Finish(s)
      PROVE  Same
  <2>1. pc[s] \notin {"new", "over"} /\ UNCHANGED admitted
    BY <1>4 DEF Authenticated, HeadersRefused, TakeSlot, Receive, ReadTimedOut,
                Disconnect, BodyComplete, ReadParts, Finish, limiterVars
  <2>2. \/ UNCHANGED <<pc, reply>>
        \/ \E place \in Places \ {"new"} : Goto(s, place)
        \/ \E what \in {"refused", "accepted"} : Answer(s, what)
    BY <1>4 DEF Authenticated, HeadersRefused, TakeSlot, Receive, ReadTimedOut, Places,
                Disconnect, BodyComplete, ReadParts, Finish, EndWithSlot
  <2> QED BY <1>0, <2>1, <2>2 DEF Goto, Answer, Passed
<1> QED BY <1>1, <1>2, <1>3, <1>4 DEF Next, Arrive

LEMMA ChargeKept ==
    ASSUME BoundaryInv, ChargeInv, [Next]_vars
    PROVE  ChargeInv'
<1> SUFFICES ASSUME NEW b \in Buckets
             PROVE  IsFiniteSet(Charged(b)') /\ Len(admitted'[b]) = Cardinality(Charged(b)')
  BY DEF ChargeInv
<1>0. /\ IsFiniteSet(Charged(b)) /\ Len(admitted[b]) = Cardinality(Charged(b))
      /\ admitted \in [Buckets -> Seq(Nat)] /\ clock \in Nat
  BY DEF ChargeInv, BoundaryInv, LimiterInv, LimiterTypeOK
<1>1. CASE (\A t \in Submissions : Passed(t)' = Passed(t)) /\ UNCHANGED admitted
  <2>1. Charged(b)' = Charged(b)
    BY <1>1 DEF Charged
  <2> QED BY <1>0, <1>1, <2>1
<1>2. ASSUME NEW s \in Submissions,
             ~Passed(s), Passed(s)',
             \A t \in Submissions \ {s} : Passed(t)' = Passed(t),
             admitted' = [admitted EXCEPT ![BucketOf(HeaderOf[s])] = Append(@, clock)]
      PROVE  IsFiniteSet(Charged(b)') /\ Len(admitted'[b]) = Cardinality(Charged(b)')
  <2>1. CASE BucketOf(HeaderOf[s]) = b
    <3>1. Charged(b)' = Charged(b) \cup {s} /\ s \notin Charged(b)
      BY <1>2, <2>1 DEF Charged
    <3>2. admitted'[b] = Append(admitted[b], clock) /\ admitted[b] \in Seq(Nat)
      BY <1>0, <1>2, <2>1
    <3>3. Len(admitted'[b]) = Len(admitted[b]) + 1
      BY <1>0, <3>2
    <3> QED BY <1>0, <3>1, <3>3, FS_AddElement
  <2>2. CASE BucketOf(HeaderOf[s]) # b
    <3>1. Charged(b)' = Charged(b)
      BY <1>2, <2>2 DEF Charged
    <3>2. admitted'[b] = admitted[b]
      BY <1>0, <1>2, <2>2, BucketsCover
    <3> QED BY <1>0, <3>1, <3>2
  <2> QED BY <2>1, <2>2
<1> QED BY <1>1, <1>2, ChargeStep

(* Whatever the headers, what is charged to a bucket is what its client    *)
(* will be served for.                                                     *)
THEOREM ChargedForOneself == Spec => []ChargedAsServed
<1>1. Init => ChargeInv
  <2> SUFFICES ASSUME Init, NEW b \in Buckets
               PROVE  IsFiniteSet(Charged(b)) /\ Len(admitted[b]) = Cardinality(Charged(b))
    BY DEF ChargeInv
  <2>1. Charged(b) = {} /\ admitted[b] = <<>>
    BY DEF Init, LimiterInit, Charged, Passed
  <2> QED BY <2>1, FS_EmptySet
<1>2. BoundaryInv /\ ChargeInv /\ [Next]_vars => ChargeInv'
  BY ChargeKept
<1>3. ChargeInv => ChargedAsServed
  <2> SUFFICES ASSUME ChargeInv PROVE ChargedAsServed
    OBVIOUS
  <2>1. \A s \in Submissions : HeaderOf[s] \in Headers
    BY BoundaryAssumption
  <2>2. \A s \in Submissions :
            BucketOf(HeaderOf[s]) = IF EndpointIdentity(HeaderOf[s]) = Nobody THEN Shared
                                    ELSE EndpointIdentity(HeaderOf[s])
    BY <2>1, ReadersAlwaysAgree DEF ReadersAgree
  <2>3. \A s \in Submissions :
            EndpointIdentity(HeaderOf[s]) # Nobody => EndpointIdentity(HeaderOf[s]) # Shared
    <3> TAKE s \in Submissions
    <3> DEFINE h == HeaderOf[s]
    <3>1. CASE EndpointToken(h) = NoToken
      BY <3>1, BoundaryAssumption DEF EndpointIdentity, Anonymous
    <3>2. CASE EndpointToken(h) # NoToken
      BY <3>2, BoundaryAssumption DEF EndpointIdentity, Authenticate
    <3> QED BY <3>1, <3>2
  <2>4. ASSUME NEW b \in Buckets \ {Shared} PROVE Charged(b) = PassedAs(b)
    <3>1. b # Nobody
      BY BoundaryAssumption
    <3> QED BY <2>2, <3>1 DEF Charged, Passed, PassedAs
  <2>5. Charged(Shared) = PassedAs(Nobody)
    BY <2>2, <2>3 DEF Charged, Passed, PassedAs
  <2>6. Shared \in Buckets
    BY BoundaryAssumption
  <2> QED BY <2>4, <2>5, <2>6, ReadersAlwaysAgree DEF ChargeInv, ChargedAsServed
<1> QED BY <1>1, <1>2, <1>3, BoundaryInvariant, PTL DEF Spec
============================================================================
