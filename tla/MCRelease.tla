------------------------------ MODULE MCRelease ------------------------------
(* What comes to an end under fairness: rollouts of images, proxied requests,  *)
(* the counter of workspaces and launches of tasks.  The components share no   *)
(* state, and in a behaviour one of them moves.                                *)
EXTENDS ImageRollout, WorkspaceProxy, OwnerQuota, EcsLaunch, TLC

VARIABLE part

vars == <<rollVars, proxyVars, quotaVars, ecsVars, part>>

ReleaseInit ==
    /\ part \in {"rollout", "proxy", "quota", "ecs"}
    /\ RollInit /\ ProxyInit /\ QuotaInit /\ EcsInit
    /\ part # "ecs" => ~injected

\* A step of the one component that moves.
RollMoves(A) == part = "rollout" /\ A /\ UNCHANGED <<proxyVars, quotaVars, ecsVars, part>>
ProxyMoves(A) == part = "proxy" /\ A /\ UNCHANGED <<rollVars, quotaVars, ecsVars, part>>
QuotaMoves(A) == part = "quota" /\ A /\ UNCHANGED <<rollVars, proxyVars, ecsVars, part>>
EcsMoves(A) == part = "ecs" /\ A /\ UNCHANGED <<rollVars, proxyVars, quotaVars, part>>

ReleaseNext == \/ RollMoves(RollNext) \/ ProxyMoves(ProxyNext)
               \/ QuotaMoves(QuotaNext) \/ EcsMoves(EcsNext)

CONSTANTS s1, v1, p1, p2, w1

\* RollFairness, ProxyFairness, QuotaFairness or EcsFairness, whichever component
\* moves: in any behaviour all but one of the actions of a condition are disabled
\* for ever.  There is one sweeper, one variant,
\* one connection and one workspace that is launched.
ReleaseFairness ==
    /\ WF_vars(\/ RollMoves(\E sha \in 1..MaxCommit : Publish(v1, sha))
               \/ QuotaMoves(Proceed(p1))
               \/ EcsMoves(RunStep(w1)))
    /\ WF_vars(QuotaMoves(Proceed(p2)))
    /\ WF_vars(\/ RollMoves(Observe(Webhook))
               \/ QuotaMoves(Sweep)
               \/ ProxyMoves(\E c \in Conn : Handler(c))
               \/ EcsMoves(PruneTaskDefinitions))
    /\ WF_vars(\/ RollMoves(Observe(s1))
               \/ ProxyMoves(\E c \in Conn :
                    UpstreamEnds(c) \/ UpstreamDrops(c) \/ UpstreamAnswers(c)))
    /\ WF_vars(ProxyMoves(\E c \in Conn : Upgraded(c) \/ TunnelEnds(c)))
    /\ SF_vars(\/ RollMoves(PollHead(s1) /\ (head # lastHandled => proc'[s1].at = "handle"))
               \/ EcsMoves(RunTaskApi(w1) /\ run'[w1].at = "boot"))
    /\ SF_vars(RollMoves(ObserveTriggers(s1)) \/ EcsMoves(TaskReady(w1)))
    /\ SF_vars(RollMoves(SettleTrigger(s1)))
    /\ SF_vars(RollMoves(LoadEntries(s1)))
    /\ SF_vars(RollMoves(RollGoldenCatalog(s1)))

ReleaseSpec == ReleaseInit /\ [][ReleaseNext]_vars /\ ReleaseFairness
=============================================================================
