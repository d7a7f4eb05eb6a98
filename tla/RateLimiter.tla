----------------------------- MODULE RateLimiter -----------------------------
(***************************************************************************)
(* InMemoryRateLimiter of rate_limit.py.  check awaits nothing but its own *)
(* lock and holds it for no other await, so that a check is one step.      *)
(***************************************************************************)
EXTENDS Clock, Sequences

CONSTANTS
    User,    \* (issuer, subject, action) of the callers
    Limit,   \* settings.rate_limit_per_minute
    Window   \* a minute

ASSUME LimitAssumption == Limit \in Nat \ {0} /\ Window \in Nat \ {0}

VARIABLES
    admitted,  \* admitted[u]: when u's requests were admitted, oldest first
    first      \* first[u]: where the deque of u begins in admitted[u]

limiterVars == <<admitted, first>>

LimiterTypeOK ==
    /\ admitted \in [User -> Seq(Nat)]
    /\ first \in [User -> Nat \ {0}]

LimiterInit ==
    /\ admitted = [u \in User |-> <<>>]
    /\ first = [u \in User |-> 1]

\* Seeded fault: off by one.
OverEarly(time) == time + Window <= now + 1

\* An admission that has left the window.
Over(time) == time + Window <= now

\* popleft while the oldest is over: the deque then begins at n.
Popped(u, n) ==
    /\ n \in first[u]..(Len(admitted[u]) + 1)
    /\ \A i \in first[u]..(n - 1) : Over(admitted[u][i])
    /\ n <= Len(admitted[u]) => ~Over(admitted[u][n])

\* How many the deque then holds.
Held(u, n) == Len(admitted[u]) + 1 - n

Room(u, n) == Held(u, n) < Limit

Admit(u) ==
    \E n \in 1..(Len(admitted[u]) + 1) :
        /\ Popped(u, n)
        /\ Room(u, n)
        /\ first' = [first EXCEPT ![u] = n]
        /\ admitted' = [admitted EXCEPT ![u] = Append(@, now)]

\* RateLimitExceeded.
Reject(u) ==
    \E n \in 1..(Len(admitted[u]) + 1) :
        /\ Popped(u, n)
        /\ ~Room(u, n)
        /\ first' = [first EXCEPT ![u] = n]
        /\ UNCHANGED admitted

Check(u) == Admit(u) \/ Reject(u)

-----------------------------------------------------------------------------
\* In no window, wherever it begins, are more than Limit requests of a caller
\* admitted.
QuotaKept ==
    \A u \in User : \A i \in 1..(Len(admitted[u]) - Limit) :
        admitted[u][i] + Window <= admitted[u][i + Limit]

=============================================================================
