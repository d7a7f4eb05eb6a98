------------------------------- MODULE KeyCache -------------------------------
(***************************************************************************)
(* Token verification, as far as it is about signing keys: TokenVerifier   *)
(* of identity/auth.py in the threads of the pool, PyJWKClient's cache of  *)
(* the key set, and a provider that publishes and withdraws keys.          *)
(*                                                                         *)
(* A request for the key set takes up to Timeout and answers with the keys *)
(* of some moment in between.  All else takes no time: the clock waits for *)
(* a thread that can go on.                                                *)
(***************************************************************************)
EXTENDS Clock

CONSTANTS
    Kid,       \* key ids
    Thread,    \* threads of the pool, each verifying one token at a time
    Lifespan,  \* settings.auth_jwks_cache_seconds
    Cooldown,  \* min(30, auth_jwks_cache_seconds)
    Timeout,   \* settings.auth_jwks_timeout_seconds
    Nobody     \* the lock is free

ASSUME KeyAssumption ==
    /\ Lifespan \in Nat /\ Cooldown \in Nat /\ Timeout \in Nat
    /\ Cooldown <= Lifespan
    /\ Nobody \notin Thread

VARIABLES
    served,  \* keys the provider publishes
    since,   \* since[k]: when the provider last published or withdrew k
    cache,   \* the cached key set and when it was stored
    forced,  \* _last_forced_refresh
    lock,    \* the thread that holds _lock
    thread,
    failed   \* when the provider last failed a thread

keyVars == <<served, since, cache, forced, lock, thread, failed>>

Empty == [at |-> 0, keys |-> {}, filled |-> FALSE]

Idle == [pc |-> "idle"]

Asking == {"fetch", "refetch", "force"}  \* waiting for the provider

NotAnswered == [answered |-> FALSE, keys |-> {}]

ThreadState ==
    {Idle} \union
    [pc : {"look", "queue", "relook", "cool", "accepted", "refused"}, kid : Kid] \union
    [pc : Asking, kid : Kid, asked : Nat, answer : [answered : BOOLEAN, keys : SUBSET Kid]]

KeyTypeOK ==
    /\ now \in Nat
    /\ served \in SUBSET Kid
    /\ since \in [Kid -> Nat]
    /\ cache \in [at : Nat, keys : SUBSET Kid, filled : BOOLEAN]
    /\ forced \in Nat
    /\ lock \in Thread \union {Nobody}
    /\ thread \in [Thread -> ThreadState]
    /\ failed \in Nat

\* _last_forced_refresh is 0.0, on a clock that starts with the host: a process
\* that comes up with it takes that for a refresh.
KeyInit ==
    /\ now = 0
    /\ served \in SUBSET Kid
    /\ since = [k \in Kid |-> 0]
    /\ cache = Empty
    /\ forced = 0
    /\ lock = Nobody
    /\ thread = [t \in Thread |-> Idle]
    /\ failed = 0

-----------------------------------------------------------------------------
(* One verification: verify and _key_for. *)

\* Seeded fault: the cached set does not expire.
FreshForever == cache.filled

\* PyJWKClient's cache still answers.
Fresh == cache.filled /\ now <= cache.at + Lifespan

Become(t, pc) == thread' = [thread EXCEPT ![t] = [pc |-> pc, kid |-> thread[t].kid]]

Ask(t, pc) ==
    thread' = [thread EXCEPT ![t] = [pc |-> pc, kid |-> thread[t].kid, asked |-> now,
                                     answer |-> NotAnswered]]

\* A request arrives with a well-formed token.
Verify(t, k) ==
    /\ thread[t] = Idle
    /\ thread' = [thread EXCEPT ![t] = [pc |-> "look", kid |-> k]]
    /\ UNCHANGED <<now, served, since, cache, forced, lock, failed>>

\* The first look, without the lock: the key is cached, or the whole set has to
\* be fetched, or the thread queues for a forced refresh.
Look(t) ==
    /\ thread[t].pc = "look"
    /\ IF ~Fresh THEN Ask(t, "fetch")
       ELSE Become(t, IF thread[t].kid \in cache.keys THEN "accepted" ELSE "queue")
    /\ UNCHANGED <<now, served, since, cache, forced, lock, failed>>

TakeLock(t) ==
    /\ thread[t].pc = "queue"
    /\ lock = Nobody
    /\ lock' = t
    /\ Become(t, "relook")
    /\ UNCHANGED <<now, served, since, cache, forced, failed>>

Released(t) == lock' = IF lock = t THEN Nobody ELSE lock

\* "Another request may have refreshed while this request waited."
LookAgain(t) ==
    /\ thread[t].pc = "relook"
    /\ \/ Fresh /\ thread[t].kid \in cache.keys /\ Become(t, "accepted") /\ Released(t)
       \/ Fresh /\ thread[t].kid \notin cache.keys /\ Become(t, "cool") /\ UNCHANGED lock
       \/ ~Fresh /\ Ask(t, "refetch") /\ UNCHANGED lock
    /\ UNCHANGED <<now, served, since, cache, forced, failed>>

\* Seeded fault: the cooldown is never over.
CooledNever == FALSE

Cooled == now - forced >= Cooldown

\* The cooldown starts with the attempt, not with its success.
ForceRefresh(t) ==
    /\ thread[t].pc = "cool"
    /\ Cooled
    /\ forced' = now
    /\ Ask(t, "force")
    /\ UNCHANGED <<now, served, since, cache, lock, failed>>

Refuse(t) ==
    /\ thread[t].pc = "cool"
    /\ ~Cooled
    /\ Become(t, "refused")
    /\ Released(t)
    /\ UNCHANGED <<now, served, since, cache, forced, failed>>

\* Where a thread goes with the key set it asked for.
After(t, keys) ==
    IF thread[t].kid \in keys THEN "accepted"
    ELSE CASE thread[t].pc = "fetch"       -> "queue"
           [] thread[t].pc = "refetch" -> "cool"
           [] thread[t].pc = "force"       -> "refused"

\* The answer is stored as of now, also over a younger one.
Receive(t) ==
    /\ thread[t].pc \in Asking
    /\ thread[t].answer.answered
    /\ cache' = [at |-> now, keys |-> thread[t].answer.keys, filled |-> TRUE]
    /\ LET pc == After(t, thread[t].answer.keys) IN
       /\ Become(t, pc)
       /\ IF pc = "cool" THEN UNCHANGED lock ELSE Released(t)
    /\ UNCHANGED <<now, served, since, forced, failed>>

\* No usable answer: 503.  What becomes of the cache is up to PyJWT.
Fail(t) ==
    /\ thread[t].pc \in Asking
    /\ cache' \in {cache, Empty}
    /\ thread' = [thread EXCEPT ![t] = Idle]
    /\ Released(t)
    /\ failed' = now
    /\ UNCHANGED <<now, served, since, forced>>

-----------------------------------------------------------------------------
(* The provider and the clock. *)

Answer(t) ==
    /\ thread[t].pc \in Asking
    /\ ~thread[t].answer.answered
    /\ thread' = [thread EXCEPT ![t] = [pc |-> @.pc, kid |-> @.kid, asked |-> @.asked,
                                        answer |-> [answered |-> TRUE, keys |-> served]]]
    /\ UNCHANGED <<now, served, since, cache, forced, lock, failed>>

\* The provider publishes a key or withdraws one.
Rotate(k) ==
    /\ served' = IF k \in served THEN served \ {k} ELSE served \union {k}
    /\ since' = [since EXCEPT ![k] = now]
    /\ UNCHANGED <<now, cache, forced, lock, thread, failed>>

\* A thread that the clock need not wait for.
Waits(t) ==
    \/ thread[t].pc = "idle"
    \/ thread[t].pc = "queue" /\ lock # Nobody
    \/ thread[t].pc \in Asking /\ now < thread[t].asked + Timeout

Tick ==
    /\ now < MaxClock
    /\ \A t \in Thread : Waits(t)
    /\ now' = now + 1
    /\ UNCHANGED keyVars

VerifyStep(t) ==
    \/ \E k \in Kid : Verify(t, k)
    \/ Look(t) \/ TakeLock(t) \/ LookAgain(t) \/ ForceRefresh(t) \/ Refuse(t)
    \/ Answer(t) \/ Receive(t) \/ Fail(t)

-----------------------------------------------------------------------------
\* A token is accepted by a withdrawn key only for as long as a key set may be
\* cached, and one request for it may last.
AcceptedKeyIsRecent ==
    \A t \in Thread : thread[t].pc = "accepted" =>
        \/ thread[t].kid \in served
        \/ now <= since[thread[t].kid] + Lifespan + Timeout

\* A token with a published key is called invalid only for a cooldown and one
\* request after the key was published or the provider failed: late answers,
\* cached sets and refreshes for other keys do not add to that.
RefusedKeyIsYoung ==
    \A t \in Thread : thread[t].pc = "refused" =>
        \/ thread[t].kid \notin served
        \/ now <= since[thread[t].kid] + Cooldown + Timeout
        \/ now <= failed + Cooldown + Timeout

=============================================================================
