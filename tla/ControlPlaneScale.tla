------------------------- MODULE ControlPlaneScale -------------------------
(***************************************************************************)
(* Scale-to-zero of the control plane itself.  The web replicas stamp one  *)
(* stored activity row (throttled per process), the reconciler reads it    *)
(* and scales the service to zero, and the wake listener, a function that  *)
(* the CDN invokes while no replica answers, scales it up again.           *)
(*                                                                         *)
(* Time is kept as ages in ticks, saturating at the largest value a        *)
(* comparison can tell apart.                                              *)
(***************************************************************************)
EXTENDS Integers

CONSTANTS
    Replica,         \* the replicas of the service when it is awake
    Invocation,      \* concurrent invocations of the wake function
    IdleThreshold,   \* cp.idleThresholdMs
    MinWrite,        \* ACTIVITY_MIN_WRITE_INTERVAL_MS
    PutLatency,      \* a put of the activity row lands within this time
    SweepPeriod,     \* ticks between two runs of the reconciler
    BootTime         \* a replica answers within this time of being launched

ASSUME ScaleAssumption ==
    /\ {IdleThreshold, MinWrite, PutLatency, SweepPeriod, BootTime} \subseteq Nat
    /\ MinWrite + PutLatency < IdleThreshold
    /\ BootTime < SweepPeriod

VARIABLES
    desired,    \* is the desired count of the service positive
    replica,    \* [Replica -> down | booting | up]
    bootAge,    \* [Replica -> age of the launch]
    wroteAge,   \* [Replica -> age of lastWrittenAtMs in that process, or None]
    put,        \* [Replica -> age of the timestamp of a put in flight, or None]
    stampAge,   \* age of the stored lastActivityAt, or None
    servedAge,  \* age of the last authenticated request served
    lost,       \* the last put to finish failed
    sweep,      \* the reconciler's sweep: a step, and the age it waits from
    wake,       \* [Invocation -> idle | invoked | waking]
    visitor     \* a user at the entry: away | waiting | served

scaleVars == <<desired, replica, bootAge, wroteAge, put, stampAge, servedAge, lost,
               sweep, wake, visitor>>

None == -1
Older(age, cap) == IF age = None THEN None ELSE IF age < cap THEN age + 1 ELSE cap

ScaleInit ==
    /\ desired = TRUE
    /\ replica = [r \in Replica |-> "booting"]
    /\ bootAge = [r \in Replica |-> 0]
    /\ wroteAge = [r \in Replica |-> None]
    /\ put = [r \in Replica |-> None]
    /\ stampAge = None
    /\ servedAge = IdleThreshold
    /\ lost = FALSE
    /\ sweep = [at |-> "waiting", age |-> 0]
    /\ wake = [i \in Invocation |-> "idle"]
    /\ visitor = "away"

-----------------------------------------------------------------------------
(* Activity stamps *)

\* The in-process throttle, advanced before the put is sent.
ShouldRecordActivity(r) == wroteAge[r] = None \/ wroteAge[r] >= MinWrite

\* Mutant: the throttle window slides with every request, not every put.
RecordSlidingWindow(r) ==
    /\ wroteAge' = [wroteAge EXCEPT ![r] = 0]
    /\ put' = IF ShouldRecordActivity(r) THEN [put EXCEPT ![r] = 0] ELSE put

RecordSystemActivity(r) ==
    IF ShouldRecordActivity(r)
    THEN /\ wroteAge' = [wroteAge EXCEPT ![r] = 0]
         /\ put' = [put EXCEPT ![r] = 0]
    ELSE UNCHANGED <<wroteAge, put>>

\* The row is overwritten unconditionally, whichever put lands last.
RecordActivity(r) ==
    /\ put[r] # None
    /\ stampAge' = put[r]
    /\ put' = [put EXCEPT ![r] = None]
    /\ lost' = FALSE
    /\ UNCHANGED <<desired, replica, bootAge, wroteAge, servedAge, sweep, wake, visitor>>

\* A put that fails is logged and dropped.
RecordFails(r) ==
    /\ put[r] # None
    /\ put' = [put EXCEPT ![r] = None]
    /\ lost' = TRUE
    /\ UNCHANGED <<desired, replica, bootAge, wroteAge, stampAge, servedAge, sweep, wake,
                   visitor>>

\* server.ts stamps once when it starts to listen.
Boot(r) ==
    /\ replica[r] = "booting"
    /\ replica' = [replica EXCEPT ![r] = "up"]
    /\ RecordSystemActivity(r)
    /\ UNCHANGED <<desired, bootAge, stampAge, servedAge, lost, sweep, wake, visitor>>

\* An authenticated request: API call, page view or proxied editor traffic.
Serve(r) ==
    /\ replica[r] = "up"
    /\ visitor = "waiting"
    /\ visitor' = "served"
    /\ servedAge' = 0
    /\ RecordSystemActivity(r)
    /\ UNCHANGED <<desired, replica, bootAge, stampAge, lost, sweep, wake>>

-----------------------------------------------------------------------------
(* The reconciler: controlPlaneIdleShutdown *)

DescribeService ==
    /\ sweep.at = "waiting" /\ sweep.age >= SweepPeriod
    /\ sweep' = IF desired THEN [sweep EXCEPT !.at = "described"]
                ELSE [at |-> "waiting", age |-> 0]
    /\ UNCHANGED <<desired, replica, bootAge, wroteAge, put, stampAge, servedAge, lost, wake,
                   visitor>>

\* decideControlPlaneIdle: an absent stamp holds, so does a recent one.
IdleLongEnough(age) == age # None /\ age >= IdleThreshold

ReadLastActivity ==
    /\ sweep.at = "described"
    /\ sweep' = IF IdleLongEnough(stampAge) THEN [sweep EXCEPT !.at = "scaling"]
                ELSE [at |-> "waiting", age |-> 0]
    /\ UNCHANGED <<desired, replica, bootAge, wroteAge, put, stampAge, servedAge, lost, wake,
                   visitor>>

\* UpdateService to zero: ECS stops every task of the service; a put in flight
\* goes with its process.
ScaleToZero ==
    /\ sweep.at = "scaling"
    /\ desired' = FALSE
    /\ replica' = [r \in Replica |-> "down"]
    /\ wroteAge' = [r \in Replica |-> None]
    /\ put' = [r \in Replica |-> None]
    /\ lost' = (lost \/ \E r \in Replica : put[r] # None)
    /\ sweep' = [at |-> "waiting", age |-> 0]
    /\ UNCHANGED <<bootAge, stampAge, servedAge, wake, visitor>>

\* A call of the sweep throws: the step is abandoned, nothing is scaled.
SweepFails ==
    /\ sweep.at # "waiting"
    /\ sweep' = [at |-> "waiting", age |-> 0]
    /\ UNCHANGED <<desired, replica, bootAge, wroteAge, put, stampAge, servedAge, lost, wake,
                   visitor>>

-----------------------------------------------------------------------------
(* The wake listener *)

\* The CDN gets no answer and invokes the function with the shared secret; the
\* page it returns reloads, so a waiting visitor asks again.
HandleWake(i) ==
    /\ visitor = "waiting"
    /\ \A r \in Replica : replica[r] # "up"
    /\ wake[i] = "idle"
    /\ wake' = [wake EXCEPT ![i] = "invoked"]
    /\ UNCHANGED <<desired, replica, bootAge, wroteAge, put, stampAge, servedAge, lost, sweep,
                   visitor>>

\* decideControlPlaneWake: a service already at its active count is left alone.
DecideWake(i) ==
    /\ wake[i] = "invoked"
    /\ wake' = [wake EXCEPT ![i] = IF desired THEN "idle" ELSE "waking"]
    /\ UNCHANGED <<desired, replica, bootAge, wroteAge, put, stampAge, servedAge, lost, sweep,
                   visitor>>

SetDesiredCount(i) ==
    /\ wake[i] = "waking"
    /\ wake' = [wake EXCEPT ![i] = "idle"]
    /\ desired' = TRUE
    /\ replica' = [r \in Replica |-> IF replica[r] = "down" THEN "booting" ELSE replica[r]]
    /\ bootAge' = [r \in Replica |-> IF replica[r] = "down" THEN 0 ELSE bootAge[r]]
    /\ UNCHANGED <<wroteAge, put, stampAge, servedAge, lost, sweep, visitor>>

\* Mutant: an ECS error is returned as a page that does not reload.
WakeFailsHard(i) ==
    /\ wake[i] # "idle"
    /\ wake' = [wake EXCEPT ![i] = "idle"]
    /\ visitor' = "away"
    /\ UNCHANGED <<desired, replica, bootAge, wroteAge, put, stampAge, servedAge, lost, sweep>>

\* ECS is unreachable: the page is served all the same, and reloads.
WakeFails(i) ==
    /\ wake[i] # "idle"
    /\ wake' = [wake EXCEPT ![i] = "idle"]
    /\ UNCHANGED <<desired, replica, bootAge, wroteAge, put, stampAge, servedAge, lost, sweep,
                   visitor>>

-----------------------------------------------------------------------------
(* The environment *)

Arrive ==
    /\ visitor # "waiting"
    /\ visitor' = "waiting"
    /\ UNCHANGED <<desired, replica, bootAge, wroteAge, put, stampAge, servedAge, lost, sweep,
                   wake>>

\* Time passes, never so far that a boot or a put overruns its bound, or that a
\* reload of the waiting page (seconds) takes a whole tick.
TimePasses ==
    /\ \A r \in Replica : replica[r] = "booting" => bootAge[r] < BootTime
    /\ \A r \in Replica : put[r] # None => put[r] < PutLatency
    /\ visitor = "waiting" => desired /\ \A r \in Replica : replica[r] # "up"
    /\ sweep.at = "waiting"
    /\ bootAge' = [r \in Replica |-> Older(bootAge[r], BootTime)]
    /\ wroteAge' = [r \in Replica |-> Older(wroteAge[r], MinWrite)]
    /\ put' = [r \in Replica |-> Older(put[r], PutLatency)]
    /\ stampAge' = Older(stampAge, IdleThreshold)
    /\ servedAge' = Older(servedAge, IdleThreshold)
    /\ sweep' = [sweep EXCEPT !.age = Older(@, SweepPeriod)]
    /\ UNCHANGED <<desired, replica, lost, wake, visitor>>

ScaleNext ==
    \/ \E r \in Replica : RecordActivity(r) \/ RecordFails(r) \/ Boot(r) \/ Serve(r)
    \/ DescribeService \/ ReadLastActivity \/ ScaleToZero \/ SweepFails
    \/ \E i \in Invocation : HandleWake(i) \/ DecideWake(i) \/ SetDesiredCount(i) \/ WakeFails(i)
    \/ Arrive \/ TimePasses

\* A clock goes on, replicas boot and answer, the sweep's timer fires, a page
\* that is open reloads; an ECS call that keeps being made does not fail for ever.
ScaleFairness ==
    /\ WF_scaleVars(TimePasses)
    /\ WF_scaleVars(\E r \in Replica : Boot(r) \/ RecordActivity(r) \/ RecordFails(r))
    /\ WF_scaleVars(\E r \in Replica : Serve(r))
    /\ WF_scaleVars(DescribeService \/ ReadLastActivity \/ ScaleToZero \/ SweepFails)
    /\ WF_scaleVars(\E i \in Invocation : HandleWake(i))
    /\ SF_scaleVars(\E i \in Invocation : DecideWake(i))
    /\ SF_scaleVars(\E i \in Invocation : SetDesiredCount(i))

ScaleSpec == ScaleInit /\ [][ScaleNext]_scaleVars /\ ScaleFairness

-----------------------------------------------------------------------------
(* Properties *)

\* controlPlaneIdleShutdown: a sweep decides to scale to zero only when the last
\* authenticated request is older than the threshold less the write throttle and
\* the latency of a put, unless the put of a stamp failed or is in flight.
IdleShutdownJustified ==
    [][sweep'.at = "scaling" =>
          \/ lost \/ \E r \in Replica : put[r] # None
          \/ servedAge >= IdleThreshold - MinWrite - PutLatency]_sweep

\* renderStartupPage reloads until the app answers: a visitor who keeps the page
\* open is served, although sweeps may undo a wake whose replicas are still booting.
VisitorServed ==
    /\ []<>(visitor # "waiting")
    /\ [][visitor = "waiting" => visitor' = "served"]_visitor

=============================================================================
