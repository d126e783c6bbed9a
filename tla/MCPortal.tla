------------------------------- MODULE MCPortal ----------------------------
(***************************************************************************)
(* The parts of the portal that share no state are checked in one run: the *)
(* initial state says which of them moves.                                 *)
(***************************************************************************)
EXTENDS PortalUsers, SecondFactor, RateLimiter, TLC

CONSTANTS u1, u2, u3, w1, w2, t1, t2, t3, p1, p2

MCUser == {u1, u2, u3}
MCRequest == {w1, w2}
MCProcessOf == (t1 :> p1) @@ (t2 :> p1) @@ (t3 :> p2)

VARIABLE part

MCInit ==
  /\ part \in {"users", "factor", "limiter"}
  /\ UsersInit
  /\ Init
  /\ LimiterInit
  /\ part # "limiter" => usage = "hit" /\ shared = {}

MCNext ==
  \/ part = "users" /\ UsersNext /\ UNCHANGED <<part, vars, limiterVars>>
  \/ part = "factor" /\ Next /\ UNCHANGED <<part, userVars, limiterVars>>
  \/ part = "limiter" /\ LimiterNext /\ UNCHANGED <<part, userVars, vars>>

MCSpec == MCInit /\ [][MCNext]_<<part, userVars, vars, limiterVars>>
=============================================================================
