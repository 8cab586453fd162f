------------------------------ MODULE MCService ------------------------------
(* What the service owes its users in the end: the control plane wakes up, a   *)
(* share that is turned off ends, the page of a launch opens the editor, and   *)
(* the sweeps converge.  The components share no state, and in a behaviour one *)
(* of them moves.                                                              *)
EXTENDS ControlPlaneScale, Spectate, SessionPages, MaintenanceSweep, TLC

VARIABLE part

vars == <<scaleVars, spectateVars, pagesVars, sweepVars, part>>

ServiceInit ==
    /\ part \in {"scale", "spectate", "pages", "sweep"}
    /\ ScaleInit /\ SpectateInit /\ PagesInit /\ SweepInit
    \* What a component that stands still starts with makes no difference.
    /\ part # "pages" => form = OpenForm(Image, NotLinked)

\* A step of the one component that moves.
ScaleMoves(A) == part = "scale" /\ A /\ UNCHANGED <<spectateVars, pagesVars, sweepVars, part>>
SpectateMoves(A) == part = "spectate" /\ A /\ UNCHANGED <<scaleVars, pagesVars, sweepVars, part>>
PagesMove(A) == part = "pages" /\ A /\ UNCHANGED <<scaleVars, spectateVars, sweepVars, part>>
SweepMoves(A) == part = "sweep" /\ A /\ UNCHANGED <<scaleVars, spectateVars, pagesVars, part>>

ServiceNext ==
    \/ ScaleMoves(ScaleNext) \/ SpectateMoves(SpectateNext) \/ PagesMove(PagesNext)
    \/ SweepMoves(SweepNext)

CONSTANTS t1, t2

\* ScaleFairness, SpectateFairness, PagesFairness or SweepFairness, whichever
\* component moves: in any behaviour all but one of the actions of a condition are
\* disabled for ever.
ServiceFairness ==
    /\ WF_vars(\/ ScaleMoves(TimePasses)
               \/ SpectateMoves(StopSharing(t1))
               \/ PagesMove(RepoCreated \/ LaunchAnswered)
               \/ SweepMoves(EnterStep \/ HandleOne \/ ThrowsForOne))
    /\ WF_vars(\/ ScaleMoves(\E r \in Replica : Boot(r) \/ RecordActivity(r) \/ RecordFails(r))
               \/ SpectateMoves(StopSharing(t2))
               \/ PagesMove(StartPoll))
    /\ WF_vars(\/ ScaleMoves(\E r \in Replica : Serve(r))
               \/ SpectateMoves(\E k \in Sock :
                     PublishSocketClosed(k) \/ PublishUpgrade(k) \/ Unpublish(k))
               \/ PagesMove(\E i \in 1..Len(polls) : ApplyPoll(i) \/ ReadForPoll(i)))
    /\ WF_vars(\/ ScaleMoves(DescribeService \/ ReadLastActivity \/ ScaleToZero \/ SweepFails)
               \/ PagesMove(CountDown \/ OpenEditor))
    /\ WF_vars(\/ ScaleMoves(\E i \in Invocation : HandleWake(i))
               \/ PagesMove(StartWorkspace))
    /\ WF_vars(PagesMove(ResumeAnswered))
    /\ SF_vars(\/ ScaleMoves(\E i \in Invocation : DecideWake(i))
               \/ PagesMove(\E i \in 1..Len(polls) :
                     ReadForPoll(i) /\ polls'[i] # Failure))
    /\ SF_vars(\/ ScaleMoves(\E i \in Invocation : SetDesiredCount(i))
               \/ PagesMove(\E i \in 1..Len(polls) :
                     ApplyPoll(i) /\ polls[i] # Failure))

ServiceSpec == ServiceInit /\ [][ServiceNext]_vars /\ ServiceFairness
=============================================================================
