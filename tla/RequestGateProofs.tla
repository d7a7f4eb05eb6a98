-------------------------- MODULE RequestGateProofs --------------------------
(***************************************************************************)
(* Proofs about the request gate, for any keys, threads and callers and    *)
(* any settings: no caller exceeds the quota, withdrawn keys are accepted  *)
(* and published ones refused for a bounded time.                          *)
(***************************************************************************)
EXTENDS RequestGate, TLAPS

USE ClockAssumption, KeyAssumption, LimitAssumption

-----------------------------------------------------------------------------
(* The limiter. *)

\* The deque of a caller misses no admission that still counts.
DequeInv(u) ==
    /\ first[u] <= Len(admitted[u]) + 1
    /\ \A i \in 1..(first[u] - 1) : admitted[u][i] + Window <= now

QuotaOf(u) ==
    \A i \in 1..(Len(admitted[u]) - Limit) : admitted[u][i] + Window <= admitted[u][i + Limit]

QuotaInv ==
    /\ now \in Nat
    /\ LimiterTypeOK
    /\ \A u \in User : DequeInv(u) /\ QuotaOf(u)

\* The caller that is admitted: the admission Limit places back has left the
\* deque, and so the window.
LEMMA AdmitKeepsQuota ==
    ASSUME QuotaInv, NEW u \in User, Admit(u), now' = now
    PROVE  LimiterTypeOK' /\ DequeInv(u)' /\ QuotaOf(u)'
  <1>1. PICK n \in 1..(Len(admitted[u]) + 1) :
          /\ Popped(u, n)
          /\ Room(u, n)
          /\ first' = [first EXCEPT ![u] = n]
          /\ admitted' = [admitted EXCEPT ![u] = Append(@, now)]
    BY DEF Admit
  <1> DEFINE a == admitted[u]
  <1>2. /\ a \in Seq(Nat) /\ now \in Nat /\ first[u] \in Nat \ {0}
        /\ Len(a) \in Nat /\ n \in Nat \ {0} /\ n <= Len(a) + 1
        /\ \A i \in 1..Len(a) : a[i] \in Nat
    BY <1>1 DEF QuotaInv, LimiterTypeOK
  <1>3. \A i \in 1..(n - 1) : a[i] + Window <= now
    BY <1>1, <1>2 DEF Popped, Over, QuotaInv, DequeInv
  <1>4. Len(a) + 1 - n < Limit
    BY <1>1 DEF Room, Held
  <1>5. /\ admitted'[u] = Append(a, now) /\ first'[u] = n
    BY <1>1 DEF QuotaInv, LimiterTypeOK
  <1>6. /\ Append(a, now) \in Seq(Nat)
        /\ Len(admitted'[u]) = Len(a) + 1
        /\ admitted'[u][Len(a) + 1] = now
        /\ \A i \in 1..Len(a) : admitted'[u][i] = a[i]
    BY <1>2, <1>5
  <1>7. LimiterTypeOK'
    BY <1>1, <1>2, <1>6 DEF QuotaInv, LimiterTypeOK
  <1>8. DequeInv(u)'
    <2>1. \A i \in 1..(n - 1) : i \in 1..Len(a)
      BY <1>2
    <2> QED BY <1>2, <1>3, <1>5, <1>6, <2>1 DEF DequeInv
  <1>9. QuotaOf(u)'
    <2> SUFFICES ASSUME NEW i \in 1..(Len(a) + 1 - Limit)
                 PROVE  admitted'[u][i] + Window <= admitted'[u][i + Limit]
      BY <1>6 DEF QuotaOf
    <2>1. CASE i = Len(a) + 1 - Limit
      <3>1. i \in 1..(n - 1) /\ i \in 1..Len(a) /\ i + Limit = Len(a) + 1
        BY <1>2, <1>4, <2>1
      <3> QED BY <1>3, <1>6, <3>1
    <2>2. CASE i # Len(a) + 1 - Limit
      <3>1. \A l \in Nat : i \in 1..(l + 1 - Limit) /\ i # l + 1 - Limit =>
              i \in 1..(l - Limit) /\ i + Limit \in 1..l /\ i \in 1..l
        OBVIOUS
      <3>2. i \in 1..(Len(a) - Limit) /\ i + Limit \in 1..Len(a) /\ i \in 1..Len(a)
        BY <1>2, <2>2, <3>1
      <3> QED BY <1>6, <3>2 DEF QuotaInv, QuotaOf
    <2> QED BY <2>1, <2>2
  <1> QED BY <1>7, <1>8, <1>9

LEMMA RejectKeepsQuota ==
    ASSUME QuotaInv, NEW u \in User, Reject(u), now' = now
    PROVE  LimiterTypeOK' /\ DequeInv(u)' /\ QuotaOf(u)'
  <1>1. PICK n \in 1..(Len(admitted[u]) + 1) :
          /\ Popped(u, n)
          /\ first' = [first EXCEPT ![u] = n]
          /\ admitted' = admitted
    BY DEF Reject
  <1>2. /\ first[u] \in Nat \ {0} /\ now \in Nat /\ Len(admitted[u]) \in Nat
        /\ n \in Nat \ {0} /\ n <= Len(admitted[u]) + 1 /\ first'[u] = n
    BY <1>1 DEF QuotaInv, LimiterTypeOK
  <1>3. \A i \in 1..(n - 1) : admitted[u][i] + Window <= now
    BY <1>1, <1>2 DEF Popped, Over, QuotaInv, DequeInv
  <1>4. LimiterTypeOK'
    BY <1>1, <1>2 DEF QuotaInv, LimiterTypeOK
  <1> QED BY <1>1, <1>2, <1>3, <1>4 DEF DequeInv, QuotaOf, QuotaInv

LEMMA CheckKeepsQuota ==
    ASSUME QuotaInv, NEW u \in User, Check(u), now' = now
    PROVE  QuotaInv'
  <1>1. LimiterTypeOK' /\ DequeInv(u)' /\ QuotaOf(u)'
    BY AdmitKeepsQuota, RejectKeepsQuota DEF Check
  <1>2. ASSUME NEW v \in User, v # u
        PROVE  DequeInv(v)' /\ QuotaOf(v)'
    <2>1. admitted'[v] = admitted[v] /\ first'[v] = first[v]
      BY <1>2 DEF Check, Admit, Reject, QuotaInv, LimiterTypeOK
    <2> QED BY <2>1 DEF QuotaInv, DequeInv, QuotaOf
  <1> QED BY <1>1, <1>2 DEF QuotaInv

LEMMA VerifyKeepsClock ==
    ASSUME NEW t \in Thread, VerifyStep(t)
    PROVE  now' = now /\ served' = served /\ since' = since
  BY DEF VerifyStep, Verify, Look, TakeLock, LookAgain, ForceRefresh, Refuse, Answer, Receive, Fail

LEMMA QuotaInductive == GateSpec => []QuotaInv
  <1>1. GateInit => QuotaInv
    BY DEF GateInit, KeyInit, LimiterInit, QuotaInv, LimiterTypeOK, DequeInv, QuotaOf
  <1>2. QuotaInv /\ [GateNext]_gateVars => QuotaInv'
    <2> SUFFICES ASSUME QuotaInv, [GateNext]_gateVars PROVE QuotaInv'
      OBVIOUS
    <2>1. CASE \E t \in Thread, u \in User : Handle(t, u)
      BY <2>1, CheckKeepsQuota DEF Handle
    <2>2. CASE Tick /\ UNCHANGED limiterVars
      <3>1. now' = now + 1 /\ first' = first /\ admitted' = admitted
        BY <2>2 DEF Tick, limiterVars
      <3>2. ASSUME NEW u \in User, NEW i \in 1..(first[u] - 1)
            PROVE  admitted[u][i] + Window <= now + 1
        <4>1. i \in 1..Len(admitted[u]) /\ admitted[u] \in Seq(Nat)
          BY DEF QuotaInv, LimiterTypeOK, DequeInv
        <4>2. admitted[u][i] \in Nat /\ now \in Nat
          BY <4>1 DEF QuotaInv
        <4> QED BY <4>2 DEF QuotaInv, DequeInv
      <3>3. \A u \in User : DequeInv(u)' /\ QuotaOf(u)'
        BY <3>1, <3>2 DEF QuotaInv, DequeInv, QuotaOf
      <3> QED BY <3>1, <3>3 DEF QuotaInv, LimiterTypeOK
    <2>3. CASE UNCHANGED <<now, admitted, first>>
      <3>1. \A u \in User : DequeInv(u)' /\ QuotaOf(u)'
        BY <2>3 DEF QuotaInv, DequeInv, QuotaOf
      <3> QED BY <2>3, <3>1 DEF QuotaInv, LimiterTypeOK
    <2>4. ASSUME NEW t \in Thread, VerifyStep(t)
          PROVE  now' = now
      BY <2>4, VerifyKeepsClock
    <2>5. \/ \E t \in Thread, u \in User : Handle(t, u)
          \/ Tick /\ UNCHANGED limiterVars
          \/ UNCHANGED <<now, admitted, first>>
      <3>1. CASE UNCHANGED gateVars
        BY <3>1 DEF gateVars
      <3>2. CASE GateNext
        BY <3>2, <2>4 DEF GateNext, limiterVars, Dismiss, Rotate
      <3> QED BY <3>1, <3>2
    <2> QED BY <2>1, <2>2, <2>3, <2>5
  <1> QED BY <1>1, <1>2, PTL DEF GateSpec

\* The limiter keeps its promise over every window, for any limit and window:
\* the deque drops only what is over, and is looked at in the same step that
\* extends it.
THEOREM QuotaIsKept == GateSpec => []QuotaKept
  <1>1. QuotaInv => QuotaKept
    BY DEF QuotaInv, QuotaOf, QuotaKept
  <1> QED BY <1>1, QuotaInductive, PTL

-----------------------------------------------------------------------------
(* The keys. *)

\* The keys that a key set has and the provider does not, or the other way round.
OutOfDate(keys) == (keys \ served) \union (served \ keys)

\* What a thread is told is at most as old as its question.
AskInv(t) ==
    thread[t].pc \in Asking =>
        /\ thread[t].asked <= now
        /\ now <= thread[t].asked + Timeout
        /\ thread[t].answer.answered =>
             \A k \in OutOfDate(thread[t].answer.keys) : thread[t].asked <= since[k]

LockInv(t) == thread[t].pc \in {"relook", "cool", "refetch", "force"} => lock = t

\* The last forced refresh cannot have missed the key by much, or has failed.
CoolInv(t) ==
    thread[t].pc = "cool" /\ thread[t].kid \in served =>
        forced <= since[thread[t].kid] + Timeout \/ forced <= failed

AcceptInv(t) ==
    thread[t].pc = "accepted" =>
        \/ thread[t].kid \in served
        \/ now <= since[thread[t].kid] + Lifespan + Timeout

RefuseInv(t) ==
    thread[t].pc = "refused" =>
        \/ thread[t].kid \notin served
        \/ now <= since[thread[t].kid] + Cooldown + Timeout
        \/ now <= failed + Cooldown + Timeout

ThreadInv(t) == AskInv(t) /\ LockInv(t) /\ CoolInv(t) /\ AcceptInv(t) /\ RefuseInv(t)

\* The cached set misses only what has changed since it was asked for.
CacheInv ==
    cache.filled => \A k \in OutOfDate(cache.keys) : cache.at <= since[k] + Timeout

\* A forced refresh is under way, has failed, or its answer or a younger one is
\* cached.
ForcedInv ==
    \/ \E t \in Thread : thread[t].pc = "force"
    \/ forced <= failed
    \/ cache.filled /\ forced <= cache.at

PastInv ==
    /\ cache.at <= now /\ forced <= now /\ failed <= now
    /\ \A k \in Kid : since[k] <= now

KeyInv ==
    /\ KeyTypeOK /\ PastInv /\ CacheInv /\ ForcedInv
    /\ \A t \in Thread : ThreadInv(t)

\* What a busy thread's record holds.
LEMMA BusyThread ==
    ASSUME NEW x \in ThreadState, x.pc # "idle"
    PROVE  /\ x.kid \in Kid
           /\ x.pc \in Asking =>
                /\ x.asked \in Nat
                /\ x.answer.answered \in BOOLEAN
                /\ x.answer.keys \in SUBSET Kid
  <1>1. CASE x \in [pc : {"look", "queue", "relook", "cool", "accepted", "refused"}, kid : Kid]
    BY <1>1 DEF Asking
  <1>2. CASE x \in [pc : Asking, kid : Kid, asked : Nat,
                    answer : [answered : BOOLEAN, keys : SUBSET Kid]]
    BY <1>2
  <1>3. CASE x = Idle
    BY <1>3 DEF Idle
  <1> QED BY <1>1, <1>2, <1>3 DEF ThreadState

LEMMA PlainThread ==
    ASSUME NEW pc \in {"look", "queue", "relook", "cool", "accepted", "refused"},
           NEW k \in Kid
    PROVE  [pc |-> pc, kid |-> k] \in ThreadState
  BY DEF ThreadState

LEMMA AskingThread ==
    ASSUME NEW pc \in Asking, NEW k \in Kid, NEW a \in Nat,
           NEW r \in [answered : BOOLEAN, keys : SUBSET Kid]
    PROVE  [pc |-> pc, kid |-> k, asked |-> a, answer |-> r] \in ThreadState
  BY DEF ThreadState

\* One thread moves: the others keep what they know, as they hold the lock
\* whenever they rely on the last forced refresh.
LEMMA OneThreadMoves ==
    ASSUME KeyInv, NEW t \in Thread, NEW x \in ThreadState,
           thread' = [thread EXCEPT ![t] = x],
           now' = now, served' = served, since' = since,
           failed' \in {failed, now},
           \/ forced' = forced
           \/ forced' = now /\ thread[t].pc = "cool",
           \/ lock' = lock
           \/ lock \in {t, Nobody} /\ lock' \in {t, Nobody},
           cache' \in [at : 0..now, keys : SUBSET Kid, filled : BOOLEAN], CacheInv',
           ForcedInv', ThreadInv(t)'
    PROVE  KeyInv'
  <1>1. thread'[t] = x /\ \A u \in Thread \ {t} : thread'[u] = thread[u]
    BY DEF KeyInv, KeyTypeOK
  <1>2. KeyTypeOK /\ PastInv
    BY DEF KeyInv
  <1>3. KeyTypeOK'
    <2>1. now \in Nat /\ cache' \in [at : Nat, keys : SUBSET Kid, filled : BOOLEAN]
      BY <1>2 DEF KeyTypeOK
    <2>2. forced' \in Nat /\ failed' \in Nat /\ lock' \in Thread \union {Nobody}
      BY <1>2 DEF KeyTypeOK
    <2>3. thread' \in [Thread -> ThreadState]
      BY <1>2 DEF KeyTypeOK
    <2> QED BY <1>2, <2>1, <2>2, <2>3 DEF KeyTypeOK
  <1>4. PastInv'
    BY <1>2 DEF KeyTypeOK, PastInv
  <1>5. ASSUME NEW u \in Thread \ {t}
        PROVE  ThreadInv(u)'
    <2>1. thread'[u] = thread[u] /\ ThreadInv(u) /\ ThreadInv(t)
      BY <1>1 DEF KeyInv
    <2>2. AskInv(u)' /\ AcceptInv(u)'
      BY <2>1 DEF ThreadInv, AskInv, AcceptInv, OutOfDate
    <2>3. LockInv(u)'
      BY <2>1 DEF ThreadInv, LockInv
    <2>4. CoolInv(u)'
      <3> SUFFICES ASSUME thread[u].pc = "cool", thread[u].kid \in served
                   PROVE  forced' <= since[thread[u].kid] + Timeout \/ forced' <= failed'
        BY <2>1 DEF CoolInv
      <3>1. forced' = forced
        BY <2>1 DEF ThreadInv, LockInv
      <3>2. forced <= since[thread[u].kid] + Timeout \/ forced <= failed
        BY <2>1 DEF ThreadInv, CoolInv
      <3> QED BY <1>2, <3>1, <3>2 DEF PastInv, KeyTypeOK
    <2>5. RefuseInv(u)'
      <3>1. now <= failed + Cooldown + Timeout => now <= failed' + Cooldown + Timeout
        <4>1. now \in Nat /\ failed \in Nat
          BY <1>2 DEF KeyTypeOK
        <4>2. now <= now + Cooldown + Timeout
          BY <4>1
        <4> QED BY <4>2
      <3> QED BY <2>1, <3>1 DEF ThreadInv, RefuseInv
    <2> QED BY <2>2, <2>3, <2>4, <2>5 DEF ThreadInv
  <1> QED BY <1>3, <1>4, <1>5 DEF KeyInv

\* A thread moves that neither refreshes nor ends a refresh.
LEMMA QuietMove ==
    ASSUME KeyInv, NEW t \in Thread, NEW x \in ThreadState,
           thread' = [thread EXCEPT ![t] = x],
           thread[t].pc = "force" => x.pc = "force",
           UNCHANGED <<now, served, since, cache, forced, failed>>,
           \/ lock' = lock
           \/ lock \in {t, Nobody} /\ lock' \in {t, Nobody},
           ThreadInv(t)'
    PROVE  KeyInv'
  <1>1. thread'[t] = x /\ \A u \in Thread \ {t} : thread'[u] = thread[u]
    BY DEF KeyInv, KeyTypeOK
  <1>2. ForcedInv'
    <2>1. \A u \in Thread : thread[u].pc = "force" => thread'[u].pc = "force"
      BY <1>1
    <2> QED BY <2>1 DEF KeyInv, ForcedInv
  <1>3. CacheInv'
    BY DEF KeyInv, CacheInv, OutOfDate
  <1>4. cache' \in [at : 0..now, keys : SUBSET Kid, filled : BOOLEAN]
    BY DEF KeyInv, KeyTypeOK, PastInv
  <1> QED BY <1>2, <1>3, <1>4, OneThreadMoves

LEMMA PlainFields ==
    ASSUME NEW a, NEW k, NEW x, x = [pc |-> a, kid |-> k]
    PROVE  x.pc = a /\ x.kid = k
  OBVIOUS

LEMMA AskingFields ==
    ASSUME NEW a, NEW k, NEW d, NEW r, NEW x, x = [pc |-> a, kid |-> k, asked |-> d, answer |-> r]
    PROVE  x.pc = a /\ x.kid = k /\ x.asked = d /\ x.answer = r
  OBVIOUS

LEMMA QuietBecome ==
    ASSUME KeyInv, NEW t \in Thread,
           NEW to \in {"look", "queue", "relook", "cool", "accepted", "refused"},
           thread[t].pc \notin {"idle", "force"},
           Become(t, to),
           UNCHANGED <<now, served, since, cache, forced, failed>>,
           \/ lock' = lock
           \/ lock \in {t, Nobody} /\ lock' \in {t, Nobody},
           to \in {"relook", "cool"} => lock' = t,
           to = "cool" /\ thread[t].kid \in served =>
             forced <= since[thread[t].kid] + Timeout \/ forced <= failed,
           to = "accepted" =>
             \/ thread[t].kid \in served
             \/ now <= since[thread[t].kid] + Lifespan + Timeout,
           to = "refused" =>
             \/ thread[t].kid \notin served
             \/ now <= since[thread[t].kid] + Cooldown + Timeout
             \/ now <= failed + Cooldown + Timeout
    PROVE  KeyInv'
  <1> DEFINE y == [pc |-> to, kid |-> thread[t].kid]
  <1>1. thread' = [thread EXCEPT ![t] = y] /\ thread[t] \in ThreadState
    BY DEF Become, KeyInv, KeyTypeOK
  <1>2. y \in ThreadState
    BY <1>1, BusyThread, PlainThread
  <1>3. thread'[t].pc = to /\ thread'[t].kid = thread[t].kid
    <2>1. thread'[t] = y
      BY <1>1 DEF KeyInv, KeyTypeOK
    <2> QED BY <2>1, PlainFields
  <1>4. ThreadInv(t)'
    <2>1. AskInv(t)' /\ LockInv(t)'
      BY <1>3 DEF AskInv, LockInv, Asking
    <2>2. CoolInv(t)'
      BY <1>3 DEF CoolInv
    <2>3. AcceptInv(t)'
      BY <1>3 DEF AcceptInv
    <2>4. RefuseInv(t)'
      BY <1>3 DEF RefuseInv
    <2> QED BY <2>1, <2>2, <2>3, <2>4 DEF ThreadInv
  <1> QED BY <1>1, <1>2, <1>4, QuietMove

LEMMA QuietAsk ==
    ASSUME KeyInv, NEW t \in Thread, NEW to \in {"fetch", "refetch"},
           thread[t].pc \notin {"idle", "force"},
           Ask(t, to),
           UNCHANGED <<now, served, since, cache, forced, lock, failed>>,
           to = "refetch" => lock = t
    PROVE  KeyInv'
  <1> DEFINE y == [pc |-> to, kid |-> thread[t].kid, asked |-> now, answer |-> NotAnswered]
  <1>1. thread' = [thread EXCEPT ![t] = y] /\ thread[t] \in ThreadState /\ now \in Nat
    BY DEF Ask, KeyInv, KeyTypeOK
  <1>2. y \in ThreadState
    <2>1. NotAnswered \in [answered : BOOLEAN, keys : SUBSET Kid]
      BY DEF NotAnswered
    <2>2. to \in Asking
      BY DEF Asking
    <2>3. thread[t].kid \in Kid
      BY <1>1, BusyThread
    <2> QED BY <1>1, <2>1, <2>2, <2>3, AskingThread
  <1>3. /\ thread'[t].pc = to /\ thread'[t].kid = thread[t].kid
        /\ thread'[t].asked = now /\ ~thread'[t].answer.answered
    <2>1. thread'[t] = y
      BY <1>1 DEF KeyInv, KeyTypeOK
    <2>2. thread'[t].pc = to /\ thread'[t].kid = thread[t].kid
      BY <2>1, AskingFields
    <2>3. thread'[t].asked = now /\ thread'[t].answer = NotAnswered
      BY <2>1, AskingFields
    <2> QED BY <2>2, <2>3 DEF NotAnswered
  <1>4. ThreadInv(t)'
    <2>1. AskInv(t)'
      BY <1>1, <1>3 DEF AskInv
    <2>2. LockInv(t)'
      BY <1>3 DEF LockInv
    <2>3. CoolInv(t)' /\ AcceptInv(t)' /\ RefuseInv(t)'
      BY <1>3 DEF CoolInv, AcceptInv, RefuseInv
    <2> QED BY <2>1, <2>2, <2>3 DEF ThreadInv
  <1> QED BY <1>1, <1>2, <1>4, QuietMove

\* A thread stores its answer, or gives up: the cache is as young as the clock
\* or the failure is.
LEMMA EndOfAsking ==
    ASSUME KeyInv, NEW t \in Thread, NEW x \in ThreadState,
           thread' = [thread EXCEPT ![t] = x],
           UNCHANGED <<now, served, since, forced>>,
           \/ lock' = lock
           \/ lock = t /\ lock' = Nobody,
           \/ failed' = now /\ cache' \in {cache, Empty}
           \/ /\ failed' = failed
              /\ cache' \in [at : 0..now, keys : SUBSET Kid, filled : BOOLEAN]
              /\ cache'.filled /\ cache'.at = now
              /\ CacheInv',
           ThreadInv(t)'
    PROVE  KeyInv'
  <1>1. now \in Nat /\ forced <= now
    BY DEF KeyInv, KeyTypeOK, PastInv
  <1>2. ForcedInv'
    <2>1. \/ failed' = now
          \/ cache'.filled /\ cache'.at = now
      OBVIOUS
    <2> QED BY <1>1, <2>1 DEF ForcedInv
  <1>3. CacheInv'
    <2>1. CASE cache' = cache
      BY <2>1 DEF KeyInv, CacheInv, OutOfDate
    <2>2. CASE cache' = Empty
      BY <2>2 DEF CacheInv, Empty
    <2> QED BY <2>1, <2>2
  <1>4. cache' \in [at : 0..now, keys : SUBSET Kid, filled : BOOLEAN]
    <2>1. cache \in [at : 0..now, keys : SUBSET Kid, filled : BOOLEAN]
      BY DEF KeyInv, KeyTypeOK, PastInv
    <2>2. Empty \in [at : 0..now, keys : SUBSET Kid, filled : BOOLEAN]
      BY <1>1 DEF Empty
    <2> QED BY <2>1, <2>2
  <1>5. failed' \in {failed, now}
    OBVIOUS
  <1> QED BY <1>2, <1>3, <1>4, <1>5, OneThreadMoves

\* What a thread may do in each of its steps.
LEMMA VerifyStepKeepsKeys ==
    ASSUME KeyInv, NEW t \in Thread, VerifyStep(t)
    PROVE  KeyInv'
  <1> DEFINE x == thread[t]
  <1>1. /\ now \in Nat /\ forced \in Nat /\ failed \in Nat /\ since \in [Kid -> Nat]
        /\ served \in SUBSET Kid /\ lock \in Thread \union {Nobody}
        /\ cache \in [at : 0..now, keys : SUBSET Kid, filled : BOOLEAN]
        /\ x \in ThreadState
        /\ PastInv /\ CacheInv /\ ForcedInv /\ ThreadInv(t)
    BY DEF KeyInv, KeyTypeOK, PastInv
  <1>2. thread \in [Thread -> ThreadState]
    BY DEF KeyInv, KeyTypeOK
  <1>3. x.pc # "idle" =>
          /\ x.kid \in Kid
          /\ since[x.kid] \in Nat /\ since[x.kid] <= now
          /\ x.pc \in Asking =>
               /\ x.asked \in Nat
               /\ x.answer.answered \in BOOLEAN
               /\ x.answer.keys \in SUBSET Kid
    BY <1>1, BusyThread DEF PastInv
  <1>4. Fresh =>
          \/ x.kid \in cache.keys /\ x.kid \in served
          \/ x.kid \notin cache.keys /\ x.kid \notin served
          \/ /\ cache.at <= since[x.kid] + Timeout
             /\ x.pc # "idle" => now <= since[x.kid] + Lifespan + Timeout
    BY <1>1, <1>3 DEF Fresh, CacheInv, OutOfDate
  <1>5. CASE \E k \in Kid : Verify(t, k)
    <2>1. PICK k \in Kid : Verify(t, k)
      BY <1>5
    <2>2. [pc |-> "look", kid |-> k] \in ThreadState
      BY PlainThread
    <2>3. thread'[t].pc = "look"
      BY <1>2, <2>1 DEF Verify
    <2>4. ThreadInv(t)'
      BY <2>3 DEF ThreadInv, AskInv, LockInv, CoolInv, AcceptInv, RefuseInv, Asking
    <2>5. x.pc # "force"
      BY <2>1 DEF Verify, Idle
    <2> QED BY <2>1, <2>2, <2>4, <2>5, QuietMove DEF Verify
  <1>6. CASE Look(t)
    <2>1. CASE ~Fresh
      BY <1>6, <2>1, QuietAsk DEF Look
    <2>2. CASE Fresh
      <3>1. Become(t, IF x.kid \in cache.keys THEN "accepted" ELSE "queue")
        BY <1>6, <2>2 DEF Look
      <3> QED BY <1>4, <1>6, <2>2, <3>1, QuietBecome DEF Look
    <2> QED BY <2>1, <2>2
  <1>7. CASE TakeLock(t)
    BY <1>7, QuietBecome DEF TakeLock
  <1>8. CASE LookAgain(t)
    <2>1. x.pc = "relook" /\ lock = t
      BY <1>1, <1>8 DEF LookAgain, ThreadInv, LockInv
    <2>2. CASE Fresh /\ x.kid \in cache.keys /\ Become(t, "accepted") /\ Released(t)
      BY <1>4, <1>8, <2>1, <2>2, QuietBecome DEF LookAgain, Released
    <2>3. CASE Fresh /\ x.kid \notin cache.keys /\ Become(t, "cool") /\ UNCHANGED lock
      <3>1. \A u \in Thread : thread[u].pc # "force"
        BY <2>1 DEF KeyInv, ThreadInv, LockInv
      <3>2. \/ forced <= failed
            \/ cache.filled /\ forced <= cache.at
        BY <1>1, <3>1 DEF ForcedInv
      <3>3. cache.at \in Nat
        BY <1>1
      <3>4. x.kid \in served => forced <= since[x.kid] + Timeout \/ forced <= failed
        BY <1>1, <1>3, <1>4, <2>1, <2>3, <3>2, <3>3
      <3> QED BY <1>8, <2>1, <2>3, <3>4, QuietBecome DEF LookAgain
    <2>4. CASE ~Fresh /\ Ask(t, "refetch") /\ UNCHANGED lock
      BY <1>8, <2>1, <2>4, QuietAsk DEF LookAgain
    <2> QED BY <1>8, <2>2, <2>3, <2>4 DEF LookAgain
  <1>9. CASE ForceRefresh(t)
    <2> DEFINE y == [pc |-> "force", kid |-> x.kid, asked |-> now, answer |-> NotAnswered]
    <2>1. x.pc = "cool" /\ lock = t /\ thread' = [thread EXCEPT ![t] = y]
      BY <1>1, <1>9 DEF ForceRefresh, Ask, ThreadInv, LockInv
    <2>2. y \in ThreadState
      <3>1. NotAnswered \in [answered : BOOLEAN, keys : SUBSET Kid]
        BY DEF NotAnswered
      <3>2. "force" \in Asking
        BY DEF Asking
      <3> QED BY <1>1, <1>3, <2>1, <3>1, <3>2, AskingThread
    <2>3. thread'[t].pc = "force" /\ thread'[t].asked = now /\ ~thread'[t].answer.answered
      <3>1. thread'[t] = y
        BY <1>2, <2>1
      <3>2. thread'[t].pc = "force" /\ thread'[t].asked = now /\ thread'[t].answer = NotAnswered
        BY <3>1, AskingFields
      <3> QED BY <3>2 DEF NotAnswered
    <2>4. ThreadInv(t)'
      BY <1>1, <1>9, <2>1, <2>3
         DEF ForceRefresh, ThreadInv, AskInv, LockInv, CoolInv, AcceptInv, RefuseInv
    <2>5. ForcedInv'
      BY <2>3 DEF ForcedInv
    <2>6. CacheInv'
      BY <1>1, <1>9 DEF ForceRefresh, CacheInv, OutOfDate
    <2> QED BY <1>1, <1>9, <2>1, <2>2, <2>4, <2>5, <2>6, OneThreadMoves DEF ForceRefresh
  <1>10. CASE Refuse(t)
    <2>1. x.pc = "cool" /\ lock = t
      BY <1>1, <1>10 DEF Refuse, ThreadInv, LockInv
    <2>2. \/ x.kid \notin served
          \/ forced <= since[x.kid] + Timeout
          \/ forced <= failed
      BY <1>1, <2>1 DEF ThreadInv, CoolInv
    <2>3. now <= forced + Cooldown
      BY <1>1, <1>10 DEF Refuse, Cooled, PastInv
    <2>4. forced <= failed => now <= failed + Cooldown + Timeout
      BY <1>1, <2>3
    <2>5. forced <= since[x.kid] + Timeout => now <= since[x.kid] + Cooldown + Timeout
      BY <1>1, <1>3, <2>1, <2>3
    <2> QED BY <1>10, <2>1, <2>2, <2>4, <2>5, QuietBecome DEF Refuse, Released
  <1>11. CASE Answer(t)
    <2> DEFINE r == [answered |-> TRUE, keys |-> served]
               y == [pc |-> x.pc, kid |-> x.kid, asked |-> x.asked, answer |-> r]
    <2>1. x.pc \in Asking /\ x.pc # "idle" /\ thread' = [thread EXCEPT ![t] = y]
      BY <1>11 DEF Answer, Asking
    <2>2. y \in ThreadState
      BY <1>1, <1>3, <2>1, AskingThread
    <2>3. thread'[t].pc = x.pc /\ thread'[t].asked = x.asked /\ thread'[t].answer.keys = served
      <3>1. thread'[t] = y
        BY <1>2, <2>1
      <3>2. thread'[t].pc = x.pc /\ thread'[t].asked = x.asked /\ thread'[t].answer = r
        BY <3>1, AskingFields
      <3> QED BY <3>2
    <2>4. ThreadInv(t)'
      BY <1>1, <1>11, <2>1, <2>3
         DEF Answer, ThreadInv, AskInv, LockInv, CoolInv, AcceptInv, RefuseInv, OutOfDate, Asking
    <2> QED BY <1>11, <2>1, <2>2, <2>3, <2>4, QuietMove DEF Answer
  <1>12. CASE Receive(t)
    <2> DEFINE to == After(t, x.answer.keys)
               y == [pc |-> to, kid |-> x.kid]
    <2>1. /\ x.pc \in Asking /\ x.answer.answered /\ thread' = [thread EXCEPT ![t] = y]
          /\ cache' = [at |-> now, keys |-> x.answer.keys, filled |-> TRUE]
          /\ UNCHANGED <<now, served, since, forced, failed>>
          /\ IF to = "cool" THEN UNCHANGED lock ELSE Released(t)
      BY <1>12 DEF Receive, Become
    <2>2. /\ x.kid \in Kid /\ since[x.kid] \in Nat /\ x.asked \in Nat
          /\ x.answer.keys \in SUBSET Kid
      BY <1>3, <2>1 DEF Asking
    <2>3. /\ now <= x.asked + Timeout
          /\ \A k \in OutOfDate(x.answer.keys) : x.asked <= since[k]
      BY <1>1, <2>1 DEF ThreadInv, AskInv
    <2>4. CacheInv'
      <3> SUFFICES ASSUME NEW k \in OutOfDate(x.answer.keys)
                   PROVE  now <= since[k] + Timeout
        BY <2>1 DEF CacheInv, OutOfDate
      <3>1. since[k] \in Nat
        BY <1>1, <2>2 DEF OutOfDate
      <3> QED BY <1>1, <2>2, <2>3, <3>1
    <2>5. x.pc \in {"fetch", "refetch", "force"}
      BY <2>1 DEF Asking
    <2>6. /\ to \in {"accepted", "queue", "cool", "refused"}
          /\ to = "accepted" <=> x.kid \in x.answer.keys
          /\ to = "cool" => x.pc = "refetch"
          /\ to = "refused" => x.pc = "force"
      BY <2>5 DEF After
    <2>7. y \in ThreadState
      BY <2>2, <2>6, PlainThread
    <2>8. thread'[t].pc = to /\ thread'[t].kid = x.kid
      <3>1. thread'[t] = y
        BY <1>2, <2>1
      <3> QED BY <3>1, PlainFields
    <2>9. \/ x.kid \in x.answer.keys /\ x.kid \in served
          \/ x.kid \notin x.answer.keys /\ x.kid \notin served
          \/ now <= since[x.kid] + Timeout
      BY <1>1, <2>2, <2>3 DEF OutOfDate
    <2>10. LockInv(t)' /\ AskInv(t)'
      BY <1>1, <2>1, <2>6, <2>8 DEF ThreadInv, LockInv, AskInv, Asking
    <2>11. CoolInv(t)'
      BY <1>1, <2>1, <2>2, <2>6, <2>8, <2>9 DEF CoolInv, PastInv
    <2>12. AcceptInv(t)'
      BY <1>1, <2>1, <2>2, <2>6, <2>8, <2>9 DEF AcceptInv
    <2>13. RefuseInv(t)'
      BY <1>1, <2>1, <2>2, <2>6, <2>8, <2>9 DEF RefuseInv
    <2>14. /\ cache' \in [at : 0..now, keys : SUBSET Kid, filled : BOOLEAN]
           /\ cache'.filled /\ cache'.at = now
      BY <1>1, <2>1, <2>2
    <2>15. lock' = lock \/ (lock = t /\ lock' = Nobody)
      BY <2>1 DEF Released
    <2>16. ThreadInv(t)'
      BY <2>10, <2>11, <2>12, <2>13 DEF ThreadInv
    <2> HIDE DEF to, y
    <2> QED BY <2>1, <2>4, <2>7, <2>14, <2>15, <2>16, EndOfAsking
  <1>13. CASE Fail(t)
    <2>1. Idle \in ThreadState
      BY DEF ThreadState
    <2>2. thread'[t].pc = "idle"
      <3>1. thread'[t] = Idle
        BY <1>2, <1>13 DEF Fail
      <3> QED BY <3>1 DEF Idle
    <2>3. ThreadInv(t)'
      BY <2>2 DEF ThreadInv, AskInv, LockInv, CoolInv, AcceptInv, RefuseInv, Asking
    <2>4. lock' = lock \/ (lock = t /\ lock' = Nobody)
      BY <1>13 DEF Fail, Released
    <2> QED BY <1>13, <2>1, <2>3, <2>4, EndOfAsking DEF Fail
  <1> QED BY <1>5, <1>6, <1>7, <1>8, <1>9, <1>10, <1>11, <1>12, <1>13 DEF VerifyStep

LEMMA RotateKeepsKeys ==
    ASSUME KeyInv, NEW k \in Kid, Rotate(k)
    PROVE  KeyInv'
  <1>1. KeyTypeOK /\ PastInv
    BY DEF KeyInv
  <1>2. /\ since' = [since EXCEPT ![k] = now]
        /\ served' = IF k \in served THEN served \ {k} ELSE served \union {k}
        /\ UNCHANGED <<now, cache, forced, lock, thread, failed>>
    BY DEF Rotate
  <1>3. KeyTypeOK'
    BY <1>1, <1>2 DEF KeyTypeOK
  <1>4. /\ since'[k] = now /\ now \in Nat
        /\ \A j \in Kid \ {k} : since'[j] = since[j] /\ (j \in served' <=> j \in served)
        /\ \A j \in Kid : since[j] \in Nat /\ since'[j] \in Nat /\ since[j] <= since'[j]
        /\ served \subseteq Kid
    BY <1>1, <1>2 DEF KeyTypeOK, PastInv
  <1>5. PastInv'
    BY <1>1, <1>2, <1>4 DEF KeyTypeOK, PastInv
  <1>6. CacheInv'
    <2> SUFFICES ASSUME cache.filled, NEW j \in OutOfDate(cache.keys)'
                 PROVE  cache.at <= since'[j] + Timeout
      BY <1>2 DEF CacheInv, OutOfDate
    <2>1. cache.at \in Nat /\ cache.at <= now /\ j \in Kid
      BY <1>1, <1>2, <1>3 DEF KeyTypeOK, PastInv, OutOfDate
    <2>2. CASE j = k
      BY <1>4, <2>1, <2>2
    <2>3. CASE j # k
      <3>1. j \in OutOfDate(cache.keys)
        BY <1>2, <1>4, <2>1, <2>3 DEF OutOfDate
      <3> QED BY <1>4, <2>1, <2>3, <3>1 DEF KeyInv, CacheInv
    <2> QED BY <2>2, <2>3
  <1>7. ForcedInv'
    BY <1>2 DEF KeyInv, ForcedInv
  <1>8. ASSUME NEW u \in Thread
        PROVE  ThreadInv(u)'
    <2>1. thread'[u] = thread[u] /\ thread[u] \in ThreadState /\ ThreadInv(u)
      BY <1>1, <1>2 DEF KeyInv, KeyTypeOK
    <2>2. thread[u].pc # "idle" =>
            /\ thread[u].kid \in Kid
            /\ thread[u].pc \in Asking =>
                 thread[u].asked \in Nat /\ thread[u].answer.keys \in SUBSET Kid
      BY <2>1, BusyThread
    <2>3. AskInv(u)'
      <3> SUFFICES ASSUME thread[u].pc \in Asking, thread[u].answer.answered,
                          NEW j \in OutOfDate(thread[u].answer.keys)'
                   PROVE  thread[u].asked <= since'[j]
        BY <1>2, <2>1 DEF ThreadInv, AskInv, OutOfDate
      <3>1. /\ thread[u].asked \in Nat /\ thread[u].asked <= now
            /\ thread[u].answer.keys \in SUBSET Kid
        BY <2>1, <2>2 DEF ThreadInv, AskInv, Asking
      <3>2. j \in Kid
        BY <1>2, <1>3, <3>1 DEF KeyTypeOK, OutOfDate
      <3>3. CASE j = k
        BY <1>4, <3>1, <3>3
      <3>4. CASE j # k
        <4>1. j \in OutOfDate(thread[u].answer.keys)
          BY <1>2, <1>4, <3>2, <3>4 DEF OutOfDate
        <4> QED BY <1>4, <2>1, <3>2, <3>4, <4>1 DEF ThreadInv, AskInv
      <3> QED BY <3>3, <3>4
    <2>4. LockInv(u)'
      BY <1>2, <2>1 DEF ThreadInv, LockInv
    <2>5. CoolInv(u)'
      <3>1. forced \in Nat /\ forced <= now
        BY <1>1 DEF KeyTypeOK, PastInv
      <3> QED BY <1>2, <1>4, <2>1, <2>2, <3>1 DEF ThreadInv, CoolInv
    <2>6. AcceptInv(u)'
      BY <1>2, <1>4, <2>1, <2>2 DEF ThreadInv, AcceptInv
    <2>7. RefuseInv(u)'
      BY <1>2, <1>4, <2>1, <2>2 DEF ThreadInv, RefuseInv
    <2> QED BY <2>3, <2>4, <2>5, <2>6, <2>7 DEF ThreadInv
  <1> QED BY <1>3, <1>5, <1>6, <1>7, <1>8 DEF KeyInv

LEMMA TickKeepsKeys == ASSUME KeyInv, Tick PROVE KeyInv'
  <1>1. KeyTypeOK /\ PastInv /\ now' = now + 1 /\ UNCHANGED keyVars
    BY DEF KeyInv, Tick
  <1>2. KeyTypeOK' /\ PastInv'
    BY <1>1 DEF KeyTypeOK, PastInv, keyVars
  <1>3. CacheInv' /\ ForcedInv'
    BY <1>1 DEF KeyInv, CacheInv, ForcedInv, OutOfDate, keyVars
  <1>4. ASSUME NEW u \in Thread
        PROVE  ThreadInv(u)'
    <2>1. thread'[u] = thread[u] /\ thread[u] \in ThreadState /\ ThreadInv(u) /\ Waits(u)
      BY <1>1 DEF KeyInv, KeyTypeOK, Tick, keyVars
    <2>2. AskInv(u)'
      <3> SUFFICES ASSUME thread[u].pc \in Asking
                   PROVE  thread[u].asked <= now + 1 /\ now + 1 <= thread[u].asked + Timeout
        BY <1>1, <2>1 DEF ThreadInv, AskInv, OutOfDate, keyVars
      <3>1. thread[u].asked \in Nat /\ thread[u].asked <= now /\ now \in Nat
        BY <1>1, <2>1, BusyThread DEF ThreadInv, AskInv, KeyTypeOK, Asking
      <3> QED BY <2>1, <3>1 DEF Waits, Asking
    <2>3. LockInv(u)' /\ CoolInv(u)'
      BY <1>1, <2>1 DEF ThreadInv, LockInv, CoolInv, keyVars
    <2>4. AcceptInv(u)' /\ RefuseInv(u)'
      BY <2>1 DEF Waits, AcceptInv, RefuseInv, Asking
    <2> QED BY <2>2, <2>3, <2>4 DEF ThreadInv
  <1> QED BY <1>2, <1>3, <1>4 DEF KeyInv

\* The thread is done with the request.
LEMMA LeaveKeepsKeys ==
    ASSUME KeyInv, NEW t \in Thread, thread[t].pc \in {"accepted", "refused"},
           thread' = [thread EXCEPT ![t] = Idle],
           UNCHANGED <<now, served, since, cache, forced, lock, failed>>
    PROVE  KeyInv'
  <1>1. Idle \in ThreadState
    BY DEF ThreadState
  <1>2. thread'[t].pc = "idle"
    <2>1. thread'[t] = Idle
      BY DEF KeyInv, KeyTypeOK
    <2> QED BY <2>1 DEF Idle
  <1>3. ThreadInv(t)'
    BY <1>2 DEF ThreadInv, AskInv, LockInv, CoolInv, AcceptInv, RefuseInv, Asking
  <1> QED BY <1>1, <1>3, QuietMove

LEMMA KeysInductive == GateSpec => []KeyInv
  <1>1. GateInit => KeyInv
    <2> SUFFICES ASSUME GateInit PROVE KeyInv
      OBVIOUS
    <2>1. KeyTypeOK
      BY DEF GateInit, KeyInit, KeyTypeOK, Empty, ThreadState
    <2>2. PastInv /\ CacheInv /\ ForcedInv
      BY DEF GateInit, KeyInit, PastInv, CacheInv, ForcedInv, Empty
    <2>3. \A t \in Thread : thread[t].pc = "idle"
      BY DEF GateInit, KeyInit, Idle
    <2>4. \A t \in Thread : ThreadInv(t)
      BY <2>3 DEF ThreadInv, AskInv, LockInv, CoolInv, AcceptInv, RefuseInv, Asking
    <2> QED BY <2>1, <2>2, <2>4 DEF KeyInv
  <1>2. KeyInv /\ [GateNext]_gateVars => KeyInv'
    <2> SUFFICES ASSUME KeyInv, [GateNext]_gateVars PROVE KeyInv'
      OBVIOUS
    <2>1. ASSUME NEW t \in Thread, VerifyStep(t) PROVE KeyInv'
      BY <2>1, VerifyStepKeepsKeys
    <2>2. ASSUME NEW t \in Thread, NEW u \in User, Handle(t, u) PROVE KeyInv'
      BY <2>2, LeaveKeepsKeys DEF Handle
    <2>3. ASSUME NEW t \in Thread, Dismiss(t) PROVE KeyInv'
      BY <2>3, LeaveKeepsKeys DEF Dismiss
    <2>4. CASE UNCHANGED gateVars
      BY <2>4 DEF gateVars, KeyInv, KeyTypeOK, PastInv, CacheInv, ForcedInv, OutOfDate,
                  ThreadInv, AskInv, LockInv, CoolInv, AcceptInv, RefuseInv
    <2> QED BY <2>1, <2>2, <2>3, <2>4, RotateKeepsKeys, TickKeepsKeys DEF GateNext
  <1> QED BY <1>1, <1>2, PTL DEF GateSpec

\* A thread's record fits its place, and the lock is held by a thread or nobody.
THEOREM GateTypeCorrect == GateSpec => []GateTypeOK
  <1>1. KeyInv /\ QuotaInv => GateTypeOK
    BY DEF KeyInv, QuotaInv, GateTypeOK
  <1> QED BY <1>1, KeysInductive, QuotaInductive, PTL

\* However threads, answers and rotations interleave, a withdrawn key is
\* accepted for a cache's lifespan and one request, and no longer.
THEOREM AcceptedKeysAreRecent == GateSpec => []AcceptedKeyIsRecent
  <1>1. KeyInv => AcceptedKeyIsRecent
    BY DEF KeyInv, ThreadInv, AcceptInv, AcceptedKeyIsRecent
  <1> QED BY <1>1, KeysInductive, PTL

\* A published key is refused for a cooldown and one request, counted from its
\* publication or from the provider's last failure, and no longer.
THEOREM RefusedKeysAreYoung == GateSpec => []RefusedKeyIsYoung
  <1>1. KeyInv => RefusedKeyIsYoung
    BY DEF KeyInv, ThreadInv, RefuseInv, RefusedKeyIsYoung
  <1> QED BY <1>1, KeysInductive, PTL

=============================================================================
