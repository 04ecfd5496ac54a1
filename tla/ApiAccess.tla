------------------------------- MODULE ApiAccess -------------------------------
(***************************************************************************)
(* Requests with an API token (src/app/api_token_limits.py, over the store *)
(* of src/app/api_tokens.py).  Each is authenticated, counted against the  *)
(* rate limit in Redis or, while Redis does not answer, in the process,    *)
(* charged to the month's quota under SQLite's write lock, answered by a   *)
(* route that authenticates it again, and booked when it ends.  Meanwhile  *)
(* the token expires or is revoked, the month turns and the time limit of  *)
(* a query cancels it.                                                     *)
(*                                                                         *)
(* There is one token: others share only the lock.  The legacy key is in   *)
(* no store and has neither a quota nor a booking.                         *)
(***************************************************************************)
EXTENDS Integers, FiniteSets

CONSTANTS
  Requests,
  Legacy,          \* the requests with the legacy key
  Managers,
  Quota,           \* monthly_quota
  Rate,            \* rate_limit_per_minute
  Lifetime,
  Interval,        \* LAST_USED_WRITE_INTERVAL
  Window,          \* of the rate limit
  MonthLength,
  MaxWait,         \* longest wait for the write lock
  MaxTime          \* bound on the clock

VARIABLES now, token, usage, lock, counter, request

vars == <<now, token, usage, lock, counter, request>>

Never == -1
None == "none"

\* A limit of zero is refused (_validate_rate_limit, _validate_monthly_quota).
AccessAssumption ==
  /\ IsFiniteSet(Requests) /\ None \notin Requests \union Managers
  /\ Quota \in Nat \ {0} /\ Rate \in Nat \ {0} /\ Lifetime \in Nat \ {0}
  /\ Interval \in Nat \ {0} /\ Window \in Nat \ {0} /\ MonthLength \in Nat \ {0}
  /\ MaxWait \in Nat /\ MaxTime \in Nat

Month(t) == t \div MonthLength
Months == 0 .. Month(MaxTime)
Layers == {"redis", "local"}

NoCount == [n |-> 0, until |-> 0]

NewRequest ==
  [pc |-> "new", auth |-> Never, at |-> Never, counted |-> <<>>, charged |-> Never,
   status |-> None, gone |-> FALSE, booked |-> Never]

TypeOK ==
  /\ now \in 0 .. MaxTime
  /\ token.expires \in Nat \union {Never} /\ token.used \in Nat \union {Never}
  /\ token.revoked \in Nat \union {Never} /\ token.by \in Managers \union {None}
  /\ \A m \in Months : usage[m] \in [requests : Nat, errors : Nat]
  /\ lock \in Requests \union {None}
  /\ counter \in [Layers -> [n : Nat, until : Nat]]
  /\ \A r \in Requests :
       /\ request[r].pc \in {"new", "touching", "counting", "locking", "writing", "routing",
                             "answering", "completing", "done"}
       /\ request[r].status \in {None, "ok", "error", "limited", "unbooked"}

Init ==
  /\ now = 0 /\ lock = None
  /\ token = [expires |-> Never, used |-> Never, revoked |-> Never, by |-> None]
  /\ usage = [m \in Months |-> [requests |-> 0, errors |-> 0]]
  /\ counter = [l \in Layers |-> NoCount]
  /\ request = [r \in Requests |-> NewRequest]

-----------------------------------------------------------------------------
Issued == token.expires # Never
Valid == Issued /\ token.revoked = Never /\ token.expires > now

Set(r, fields) == request' = [request EXCEPT ![r] = fields]
Over(r, status) ==
  [request[r] EXCEPT !.pc = "done", !.status = status, !.auth = Never, !.at = Never]

Issue ==
  /\ ~Issued /\ lock = None
  /\ token' = [token EXCEPT !.expires = now + Lifetime]
  /\ UNCHANGED <<now, usage, lock, counter, request>>

\* The first revocation stays on record.
Revoke(m) ==
  /\ Issued /\ lock = None
  /\ token' = [token EXCEPT !.revoked = IF @ = Never THEN now ELSE @,
                            !.by = IF @ = None THEN m ELSE @]
  /\ UNCHANGED <<now, usage, lock, counter, request>>

\* What is not valid goes on uncounted; the route refuses it.
Authenticate(r) ==
  /\ request[r].pc = "new" /\ (r \in Legacy \/ Issued)
  /\ LET stale == token.used = Never \/ now - token.used >= Interval IN
     CASE r \in Legacy -> Set(r, [request[r] EXCEPT !.pc = "counting"])
       [] r \notin Legacy /\ ~Valid -> Set(r, Over(r, "error"))
       [] OTHER -> Set(r, [request[r] EXCEPT !.auth = now, !.at = IF stale THEN now ELSE @,
                                             !.pc = IF stale THEN "touching" ELSE "counting"])
  /\ UNCHANGED <<now, token, usage, lock, counter>>

Touch(r) ==
  /\ request[r].pc = "touching" /\ lock = None
  /\ token' = [token EXCEPT !.used = request[r].auth]
  /\ Set(r, [request[r] EXCEPT !.pc = "counting", !.at = Never])
  /\ UNCHANGED <<now, usage, lock, counter>>

Incremented(c) ==
  IF c = NoCount THEN [n |-> 1, until |-> now + Window] ELSE [c EXCEPT !.n = @ + 1]

\* Redis may count and not answer in time: the process counts as well.
Count(r, layer, both) ==
  /\ request[r].pc = "counting" /\ (both => layer = "local")
  /\ counter' = [l \in Layers |-> IF l = layer \/ both THEN Incremented(counter[l]) ELSE counter[l]]
  /\ Set(r, IF counter'[layer].n > Rate THEN Over(r, "limited")
            ELSE [request[r] EXCEPT !.pc = IF r \in Legacy THEN "routing" ELSE "locking", !.at = now,
                                    !.counted = <<layer, counter'[layer].until>>])
  /\ UNCHANGED <<now, token, usage, lock>>

\* BEGIN IMMEDIATE, and the count is read.
Reserve(r) ==
  /\ request[r].pc = "locking" /\ lock = None
  /\ IF usage[Month(request[r].at)].requests >= Quota
     THEN Set(r, Over(r, "limited")) /\ UNCHANGED lock
     ELSE Set(r, [request[r] EXCEPT !.pc = "writing"]) /\ lock' = r
  /\ UNCHANGED <<now, token, usage, counter>>

\* The thread charges the request, also when nobody waits for it any more.
Charge(r) ==
  /\ request[r].pc = "writing" /\ lock' = None
  /\ LET m == Month(request[r].at) IN
       /\ usage' = [usage EXCEPT ![m].requests = @ + 1]
       /\ Set(r, [request[r] EXCEPT !.charged = m, !.at = Never,
                                  !.pc = IF request[r].gone THEN "done" ELSE "routing"])
  /\ UNCHANGED <<now, token, counter>>

\* The lock is not free within the time SQLite waits.
Busy(r) ==
  /\ request[r].pc \in {"touching", "locking", "completing"} /\ lock # None
  /\ Set(r, Over(r, IF request[r].pc = "completing" THEN "unbooked" ELSE "error"))
  /\ UNCHANGED <<now, token, usage, lock, counter>>

\* On to the booking, which the legacy key has not.
Ended(r, status) ==
  [request[r] EXCEPT !.pc = IF r \in Legacy THEN "done" ELSE "completing", !.status = status,
                     !.at = Never]

Route(r) ==
  /\ request[r].pc = "routing"
  /\ Set(r, IF r \in Legacy \/ Valid THEN [request[r] EXCEPT !.pc = "answering"] ELSE Ended(r, "error"))
  /\ UNCHANGED <<now, token, usage, lock, counter>>

Answer(r, status) ==
  /\ request[r].pc = "answering" /\ Set(r, Ended(r, status))
  /\ UNCHANGED <<now, token, usage, lock, counter>>

\* Booked in the month that is, if it has had a request.
Complete(r) ==
  /\ request[r].pc = "completing" /\ lock = None
  /\ LET m == Month(now) IN
       IF usage[m].requests = 0 THEN Set(r, Over(r, request[r].status)) /\ UNCHANGED usage
       ELSE /\ Set(r, [Over(r, request[r].status) EXCEPT !.booked = m])
            /\ usage' = [usage EXCEPT ![m].errors = @ + (IF request[r].status = "error" THEN 1 ELSE 0)]
  /\ UNCHANGED <<now, token, lock, counter>>

\* The time limit of a query.  A reservation under way cannot be called back.
Cancel(r) ==
  /\ \/ /\ request[r].pc \in {"locking", "writing"} /\ ~request[r].gone
        /\ Set(r, [request[r] EXCEPT !.gone = TRUE, !.status = "error"])
     \/ request[r].pc \in {"routing", "answering"} /\ Set(r, Ended(r, "error"))
  /\ UNCHANGED <<now, token, usage, lock, counter>>

Tick ==
  /\ now < MaxTime /\ now' = now + 1
  /\ \A r \in Requests :
       request[r].pc \in {"touching", "locking", "writing"} => now - request[r].at < MaxWait
  /\ counter' = [l \in Layers |-> IF counter[l].until <= now' THEN NoCount ELSE counter[l]]
  /\ UNCHANGED <<token, usage, lock, request>>

Next ==
  \/ Issue \/ Tick \/ \E m \in Managers : Revoke(m)
  \/ \E r \in Requests :
       \/ Authenticate(r) \/ Touch(r) \/ Reserve(r) \/ Charge(r) \/ Busy(r) \/ Route(r)
       \/ Complete(r) \/ Cancel(r)
       \/ \E status \in {"ok", "error"} : Answer(r, status)
       \/ \E layer \in Layers, both \in BOOLEAN : Count(r, layer, both)

Spec == Init /\ [][Next]_vars

-----------------------------------------------------------------------------
\* However many requests ask at once, and whenever the month turns, a month's quota
\* is charged once for each request let through and never passed (reserve_request).
QuotaKept ==
  \A m \in Months :
    /\ usage[m].requests = Cardinality({r \in Requests : request[r].charged = m})
    /\ usage[m].requests <= Quota

\* A counter lets no more than the limit through before it expires, and a request
\* that Redis counted without answering is counted again rather than let through
\* (TieredCache.increment).
RateKept ==
  \A r \in Requests :
    request[r].counted # <<>> =>
      Cardinality({s \in Requests : request[s].counted = request[r].counted}) <= Rate

\* Errors are those of requests that were charged, at most one each.  A request
\* charged and answered is missing from the books only when the month turned under
\* it, when it was cancelled while it was charged, or when the lock was not to be had
\* (complete_request).
BooksAddUp ==
  /\ \A m \in Months :
       usage[m].errors = Cardinality({r \in Requests : request[r].booked = m
                                                      /\ request[r].status = "error"})
  /\ \A r \in Requests :
       /\ request[r].booked # Never => request[r].charged \in 0 .. request[r].booked
       /\ request[r].status = "ok" /\ request[r].pc = "done" /\ r \notin Legacy =>
            request[r].booked # Never \/ request[r].charged < Month(now)

\* last_used_at lags behind a use by less than the interval between two writes and
\* the longest wait for the lock, although a late writer may set it back (authenticate).
LastUsedIsRecent ==
  \A r \in Requests :
    request[r].auth # Never /\ request[r].pc \notin {"touching", "done"} =>
      token.used # Never /\ request[r].auth - token.used < Interval + MaxWait

\* A revocation is final, it keeps its date and its author, and no request of the
\* token reaches its route's work after it, however far it had come
\* (revoke, require_any_api_token).
RevokedStaysOutStep ==
  token.revoked # Never =>
    /\ token'.revoked = token.revoked /\ token'.by = token.by
    /\ \A r \in Requests \ Legacy :
         request'[r].pc = "answering" => request[r].pc = "answering"

RevokedStaysOut == [][RevokedStaysOutStep]_vars
=============================================================================
