----------------------------- MODULE RequestGate -----------------------------
(***************************************************************************)
(* What a request passes before a handler works on it: its token is        *)
(* verified in a thread of the pool, then the limiter is asked on the      *)
(* event loop (session and submission routers).                            *)
(***************************************************************************)
EXTENDS KeyCache, RateLimiter

gateVars == <<now, served, since, cache, forced, lock, thread, failed, admitted, first>>

GateTypeOK == KeyTypeOK /\ LimiterTypeOK

GateInit == KeyInit /\ LimiterInit

\* A handler that is limited, for an accepted principal.
Handle(t, u) ==
    /\ thread[t].pc = "accepted"
    /\ Check(u)
    /\ thread' = [thread EXCEPT ![t] = Idle]
    /\ UNCHANGED <<now, served, since, cache, forced, lock, failed>>

\* 401, or a handler that only reads.
Dismiss(t) ==
    /\ thread[t].pc \in {"accepted", "refused"}
    /\ thread' = [thread EXCEPT ![t] = Idle]
    /\ UNCHANGED <<now, served, since, cache, forced, lock, failed, admitted, first>>

GateNext ==
    \/ \E t \in Thread : VerifyStep(t) /\ UNCHANGED limiterVars
    \/ \E t \in Thread, u \in User : Handle(t, u)
    \/ \E t \in Thread : Dismiss(t)
    \/ \E k \in Kid : Rotate(k) /\ UNCHANGED limiterVars
    \/ Tick /\ UNCHANGED limiterVars

GateSpec == GateInit /\ [][GateNext]_gateVars

=============================================================================
