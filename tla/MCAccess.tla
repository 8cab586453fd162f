------------------------------ MODULE MCAccess ------------------------------
(* Who may do what: the modules on authorization, accounts, sign-in sessions  *)
(* and keys, which share no state.  A behaviour is one of one of them; what    *)
(* GitAccess keeps apart is explored apart too, the SSH keys and the links on  *)
(* a deployment that links GitHub accounts, the probe on any.                  *)
EXTENDS ApiAccess, Accounts, GitAccess, AuthSessions, TLC

VARIABLE part

vars == <<apiVars, accountVars, gitVars, authVars, part>>

AccessInit ==
    /\ part \in {"api", "accounts", "keys", "link", "probe", "sessions"}
    /\ ApiInit /\ AccountsInit /\ GitAccessInit /\ AuthInit
    /\ part # "probe" => environment = [key |-> TRUE, app |-> FALSE, github |-> TRUE]

AccessNext ==
    /\ UNCHANGED part
    /\ \/ /\ part = "api" /\ ApiNext
          /\ UNCHANGED <<accountVars, gitVars, authVars>>
       \/ /\ part = "accounts" /\ AccountsNext
          /\ UNCHANGED <<apiVars, gitVars, authVars>>
       \/ /\ \/ part = "keys" /\ SshKeysNext
             \/ part = "link" /\ LinkNext
             \/ part = "probe" /\ (ProbeNext \/ \E o \in KeyOwner : SignInStoresToken(o))
          /\ UNCHANGED <<apiVars, accountVars, authVars>>
       \/ /\ part = "sessions" /\ AuthNext
          /\ UNCHANGED <<apiVars, accountVars, gitVars>>

AccessSpec == AccessInit /\ [][AccessNext]_vars

\* The members of a set of people, requests, links or keys are
\* interchangeable.  Different parts use the same members, to keep the group small.
CONSTANTS x1, x2, y1, y2, z1, z2

X == {x1, x2}
Y == {y1, y2}
Z == {z1, z2}
Interchangeable == Permutations(X) \cup Permutations(Y) \cup Permutations(Z)
=============================================================================
