---------------------------- MODULE RateLimiter ----------------------------
(***************************************************************************)
(* The limiter of scan submissions (ScanRateLimiter in core/security.py).  *)
(* For each bucket, that is for each authenticated client and for all      *)
(* other callers together, it keeps the times of the submissions it let    *)
(* through.  A submission first expires old times in every bucket and      *)
(* deletes the empty ones, then is refused or logged in its own.  Nothing  *)
(* is awaited in between, so a submission is one step.                     *)
(***************************************************************************)
EXTENDS Integers, Sequences

CONSTANTS
    Buckets,    \* keys of the dictionary
    Limit,      \* settings.scan_rate_limit_requests
    Window      \* settings.scan_rate_limit_window_seconds

(* core/config.py refuses a limit that is not greater than zero. *)
ASSUME LimiterAssumption == Limit \in Nat \ {0} /\ Window \in Nat \ {0}

VARIABLES
    clock,      \* time.monotonic()
    requests,   \* ScanRateLimiter._requests, a dictionary of deques
    admitted    \* history: for each bucket, the times of all it let through

limiterVars == <<clock, requests, admitted>>

LimiterTypeOK ==
    /\ clock \in Nat
    /\ DOMAIN requests \subseteq Buckets
    /\ \A b \in DOMAIN requests : requests[b] \in Seq(Nat)
    /\ admitted \in [Buckets -> Seq(Nat)]

LimiterInit ==
    /\ clock = 0
    /\ requests = [b \in {} |-> <<>>]
    /\ admitted = [b \in Buckets |-> <<>>]

----------------------------------------------------------------------------
(* Mutant of Expires: a time exactly one window old is kept.               *)
ExpiresLate(log, n) ==
    /\ \A i \in 1 .. n : log[i] < clock - Window
    /\ n < Len(log) => log[n + 1] >= clock - Window

(* Mutant of Expires: a time expires one unit before its window ends.      *)
ExpiresEarly(log, n) ==
    /\ \A i \in 1 .. n : log[i] <= clock - Window + 1
    /\ n < Len(log) => log[n + 1] > clock - Window + 1

(* The loop of popleft() takes n times off the deque log. *)
Expires(log, n) ==
    /\ \A i \in 1 .. n : log[i] <= clock - Window
    /\ n < Len(log) => log[n + 1] > clock - Window

(* The dictionary without the times that expired, drop[b] of them in b.    *)
Evicted(drop) ==
    [b \in {c \in DOMAIN requests : drop[c] < Len(requests[c])} |->
        SubSeq(requests[b], drop[b] + 1, Len(requests[b]))]

(* dict.get with a new deque as default *)
LogOf(buckets, k) == IF k \in DOMAIN buckets THEN buckets[k] ELSE <<>>

(* A submission of bucket k: lets it through when pass, refuses otherwise. *)
Submission(k, pass) ==
    \E drop \in [DOMAIN requests -> 0 .. Limit] :
        LET kept == Evicted(drop)
            log  == LogOf(kept, k)
        IN  /\ \A b \in DOMAIN requests :
                  drop[b] <= Len(requests[b]) /\ Expires(requests[b], drop[b])
            /\ pass <=> Len(log) < Limit
            /\ requests' = [b \in DOMAIN kept \cup {k} |->
                               IF b # k THEN kept[b]
                               ELSE IF pass THEN Append(log, clock) ELSE log]
            /\ admitted' = IF pass
                           THEN [admitted EXCEPT ![k] = Append(@, clock)]
                           ELSE admitted
            /\ UNCHANGED clock

----------------------------------------------------------------------------
(* No window is ever exceeded, wherever it begins: of the submissions of   *)
(* one bucket that were let through, each one comes a whole window after   *)
(* the one Limit places before it (security.py:207-236).  A limiter that   *)
(* counts per fixed window, as the documents call it, would not keep this. *)
WindowNeverExceeded ==
    \A b \in Buckets : \A i \in 1 .. Len(admitted[b]) - Limit :
        admitted[b][i + Limit] - admitted[b][i] >= Window

(* The bucket b was let through Limit times in the window that ends now.   *)
WindowFull(b) ==
    /\ Len(admitted[b]) >= Limit
    /\ admitted[b][Len(admitted[b]) - Limit + 1] > clock - Window
============================================================================
