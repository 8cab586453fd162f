---------------------------- MODULE ImageRollout ----------------------------
(***************************************************************************)
(* From a push to the image catalog.  Webhook deliveries and the poll of   *)
(* each replica's sweep turn commits into triggers; the sweep watches for  *)
(* the golden images a trigger waits for and rolls the catalog entries to  *)
(* the new tag, while admins edit the same entries.  Commits are numbered  *)
(* in the order they reach the branch and a tag is its commit.             *)
(***************************************************************************)
EXTENDS Integers, Sequences, FiniteSets

CONSTANTS
    Sweeper,        \* replicas that run the image-source sweep
    Variant,        \* golden variants; each has one catalog entry
    MaxCommit,      \* bound: commits pushed to the branch
    MaxDeliveries,  \* bound: webhook deliveries, redeliveries included
    MaxEdits,       \* bound: edits of catalog entries by admins
    RecentLimit     \* RECENT_TRIGGER_LIMIT

ASSUME RolloutAssumption ==
    /\ {MaxCommit, MaxDeliveries, MaxEdits, RecentLimit} \subseteq Nat
    /\ IsFiniteSet(Variant)

VARIABLES
    head,        \* the newest commit of the branch
    published,   \* [Variant -> commits whose image is in the registry]
    lastHandled, \* lastHandledSha of the stored source record (0: none)
    triggers,    \* the stored triggers, oldest first: [sha, status]
    entry,       \* [Variant -> [tag, enabled, version]]: the catalog
    proc,        \* [process -> its step and what it read]
    admin,       \* an edit in flight: the entry it read, or idle
    deliveries, edits

rollVars == <<head, published, lastHandled, triggers, entry, proc, admin, deliveries, edits>>

Webhook == "webhook"
Idle == [at |-> "idle"]

RollInit ==
    /\ head = 1
    /\ published = [v \in Variant |-> {}]
    /\ lastHandled = 0
    /\ triggers = <<>>
    /\ entry = [v \in Variant |-> [tag |-> 0, enabled |-> TRUE, version |-> 0]]
    /\ proc = [p \in Sweeper \union {Webhook} |-> Idle]
    /\ admin = Idle
    /\ deliveries = 0
    /\ edits = 0

Step(p, to) == proc' = [proc EXCEPT ![p] = to]

-----------------------------------------------------------------------------
(* The repository and its CI *)

Push ==
    /\ head < MaxCommit
    /\ head' = head + 1
    /\ UNCHANGED <<published, lastHandled, triggers, entry, proc, admin, deliveries, edits>>

\* The workflow of a commit pushes the manifest of one variant; it may never do so.
Publish(v, sha) ==
    /\ sha \in 1..head \ published[v]
    /\ published' = [published EXCEPT ![v] = @ \union {sha}]
    /\ UNCHANGED <<head, lastHandled, triggers, entry, proc, admin, deliveries, edits>>

\* A delivery, by what the route looks at before it believes it.
Delivery == [event : {"push", "other"}, headers : {"valid", "invalid"},
             length : {"none", "fits", "large"}, body : {"json", "large", "garbage"},
             signed : BOOLEAN, about : {"branch", "elsewhere"}]

ValidateGithubWebhookHeaders(d) ==
    CASE d.event # "push" \/ d.headers # "valid" -> "400"
      [] d.length = "large" -> "413"
      [] OTHER -> "none"

ValidateGithubWebhookBody(d) ==
    CASE d.body = "large" -> "413"
      [] ~d.signed -> "401"
      [] d.body = "garbage" -> "400"
      [] OTHER -> "none"

\* A push to another repository or branch is not an observation.
ObservedPush(d) ==
    /\ ValidateGithubWebhookHeaders(d) = "none"
    /\ ValidateGithubWebhookBody(d) = "none"
    /\ d.about = "branch"

\* A webhook delivery: late, repeated or out of order.
Deliver(sha) ==
    /\ deliveries < MaxDeliveries
    /\ proc[Webhook] = Idle
    /\ sha \in 1..head
    /\ \E d \in Delivery :
          \/ /\ ObservedPush(d)
             /\ deliveries' = deliveries + 1
             /\ Step(Webhook, [at |-> "handle", sha |-> sha])
          \/ /\ ~ObservedPush(d)
             /\ UNCHANGED <<proc, deliveries>>
    /\ UNCHANGED <<head, published, lastHandled, triggers, entry, admin, edits>>

-----------------------------------------------------------------------------
(* Triggers *)

\* observeLatestGithubCommit; a poll that fails leaves only the reconcile.
PollHead(p) ==
    /\ proc[p].at = "idle"
    /\ \/ Step(p, IF head = lastHandled THEN [at |-> "reconcile"]
                  ELSE [at |-> "handle", sha |-> head])
       \/ Step(p, [at |-> "reconcile"])
    /\ UNCHANGED <<head, published, lastHandled, triggers, entry, admin, deliveries, edits>>

Then(p) == IF p = Webhook THEN Idle ELSE [at |-> "reconcile"]

\* handleObservation: the source record is read, ...
HandleObservation(p) ==
    /\ proc[p].at = "handle"
    /\ Step(p, [at |-> IF proc[p].sha = lastHandled THEN "touch" ELSE "trigger",
                sha |-> proc[p].sha, seen |-> lastHandled])
    /\ UNCHANGED <<head, published, lastHandled, triggers, entry, admin, deliveries, edits>>

\* ... a commit handled last is only noted (the record is put back as read), ...
TouchSource(p) ==
    /\ proc[p].at = "touch"
    /\ lastHandled' = proc[p].seen
    /\ Step(p, Then(p))
    /\ UNCHANGED <<head, published, triggers, entry, admin, deliveries, edits>>

\* ... any other gets a queued trigger, ...
PutTrigger(p) ==
    /\ proc[p].at = "trigger"
    /\ triggers' = Append(triggers, [sha |-> proc[p].sha, status |-> "queued"])
    /\ Step(p, [at |-> "source", sha |-> proc[p].sha])
    /\ UNCHANGED <<head, published, lastHandled, entry, admin, deliveries, edits>>

\* ... and the source record then names it as handled.
PutSource(p) ==
    /\ proc[p].at = "source"
    /\ lastHandled' = proc[p].sha
    /\ Step(p, Then(p))
    /\ UNCHANGED <<head, published, triggers, entry, admin, deliveries, edits>>

-----------------------------------------------------------------------------
(* reconcileRecentBuilds *)

\* Mutant: a rollout that failed is not taken up again.
ReconcileOpenOnly(t) == t.status \in {"queued", "building"}

ShouldReconcile(t) == t.status \in {"queued", "building", "rolloutFailed"}
Recent == {i \in DOMAIN triggers : i > Len(triggers) - RecentLimit}

\* getImageMetadata finds an image with the commit's tag in the variant's repository.
ImagePresent(v, sha) == sha \in published[v]

AllGoldenImagesPublished(sha) == \A v \in Variant : ImagePresent(v, sha)
Newest(S) == CHOOSE i \in S : \A j \in S : j <= i

\* The open triggers among the recent ones, each with whether its images exist.
ObserveTriggers(p) ==
    /\ proc[p].at = "reconcile"
    /\ LET active == {i \in Recent : ShouldReconcile(triggers[i])}
       IN Step(p, IF active = {} THEN Idle
                  ELSE [at |-> "settle", todo |-> active, latest |-> Newest(active),
                        done |-> {i \in active : AllGoldenImagesPublished(triggers[i].sha)}])
    /\ UNCHANGED <<head, published, lastHandled, triggers, entry, admin, deliveries, edits>>

Settled(p, i, status, rest) ==
    /\ triggers' = [triggers EXCEPT ![i].status = status]
    /\ Step(p, IF rest = {} THEN Idle ELSE [proc[p] EXCEPT !.todo = rest])

\* One observed trigger after the other, newest first.  The latest of those
\* observed is rolled out when its images exist, the others are superseded.
SettleTrigger(p) ==
    /\ proc[p].at = "settle"
    /\ LET i == Newest(proc[p].todo)
           rest == proc[p].todo \ {i}
       IN CASE i \notin proc[p].done -> Settled(p, i, "building", rest)
            [] i \in proc[p].done /\ i # proc[p].latest -> Settled(p, i, "superseded", rest)
            [] OTHER -> /\ Step(p, [proc[p] EXCEPT !.at = "load"])
                        /\ UNCHANGED triggers
    /\ UNCHANGED <<head, published, lastHandled, entry, admin, deliveries, edits>>

\* rollImageTag loads the entries of all variants, then writes each under a
\* condition on its version; the rollout fails when one write does.
LoadEntries(p) ==
    /\ proc[p].at = "load"
    /\ Step(p, [at |-> "roll", todo |-> proc[p].todo, latest |-> proc[p].latest,
                done |-> proc[p].done, loaded |-> entry])
    /\ UNCHANGED <<head, published, lastHandled, triggers, entry, admin, deliveries, edits>>

Rolled(loaded, v, sha) ==
    IF entry[v].version = loaded[v].version
    THEN [tag |-> sha, enabled |-> loaded[v].enabled, version |-> loaded[v].version + 1]
    ELSE entry[v]

RollGoldenCatalog(p) ==
    /\ proc[p].at = "roll"
    /\ LET i == proc[p].latest
           ok == \A v \in Variant : entry[v].version = proc[p].loaded[v].version
       IN /\ entry' = [v \in Variant |-> Rolled(proc[p].loaded, v, triggers[i].sha)]
          /\ triggers' = [triggers EXCEPT ![i].status = IF ok THEN "succeeded" ELSE "rolloutFailed"]
          /\ Step(p, IF proc[p].todo = {i} THEN Idle
                     ELSE [at |-> "settle", todo |-> proc[p].todo \ {i}, latest |-> i,
                           done |-> proc[p].done])
    /\ UNCHANGED <<head, published, lastHandled, admin, deliveries, edits>>

\* A registry or database call throws: the sweep ends and the next one retries.
SweepThrows(p) ==
    /\ proc[p].at \in {"reconcile", "settle", "load"}
    /\ Step(p, Idle)
    /\ UNCHANGED <<head, published, lastHandled, triggers, entry, admin, deliveries, edits>>

-----------------------------------------------------------------------------
(* Admins edit the catalog: CatalogService.update *)

FindEntry(v) ==
    /\ admin = Idle /\ edits < MaxEdits
    /\ edits' = edits + 1
    /\ admin' = [at |-> "edit", variant |-> v, seen |-> entry[v]]
    /\ UNCHANGED <<head, published, lastHandled, triggers, entry, proc, deliveries>>

\* Enable or disable, whole entry written back, conditional on its version.
UpdateEntry ==
    /\ admin.at = "edit"
    /\ entry' = IF entry[admin.variant].version = admin.seen.version
                THEN [entry EXCEPT ![admin.variant] =
                        [admin.seen EXCEPT !.enabled = ~@, !.version = @ + 1]]
                ELSE entry
    /\ admin' = Idle
    /\ UNCHANGED <<head, published, lastHandled, triggers, proc, deliveries, edits>>

RollNext ==
    \/ Push
    \/ \E v \in Variant, sha \in 1..MaxCommit : Publish(v, sha)
    \/ \E sha \in 1..MaxCommit : Deliver(sha)
    \/ \E p \in Sweeper : \/ PollHead(p) \/ ObserveTriggers(p) \/ SettleTrigger(p)
                          \/ LoadEntries(p) \/ RollGoldenCatalog(p) \/ SweepThrows(p)
    \/ \E p \in Sweeper \union {Webhook} :
          HandleObservation(p) \/ TouchSource(p) \/ PutTrigger(p) \/ PutSource(p)
    \/ \E v \in Variant : FindEntry(v)
    \/ UpdateEntry

\* CI publishes every commit in the end, a delivered observation is handled, and
\* the sweeps go on: what they keep trying does not fail for ever.
Observe(p) == HandleObservation(p) \/ TouchSource(p) \/ PutTrigger(p) \/ PutSource(p)

RollFairness ==
    /\ \A v \in Variant : WF_rollVars(\E sha \in 1..MaxCommit : Publish(v, sha))
    /\ \A p \in Sweeper \union {Webhook} : WF_rollVars(Observe(p))
    /\ \A p \in Sweeper :
          /\ SF_rollVars(PollHead(p) /\ (head # lastHandled => proc'[p].at = "handle"))
          /\ SF_rollVars(ObserveTriggers(p))
          /\ SF_rollVars(SettleTrigger(p))
          /\ SF_rollVars(LoadEntries(p))
          /\ SF_rollVars(RollGoldenCatalog(p))

RollSpec == RollInit /\ [][RollNext]_rollVars /\ RollFairness

-----------------------------------------------------------------------------
(* Properties *)

\* reconcileRecentBuilds: once CI has published the commits, the newest trigger
\* comes to stay rolled out or superseded, however often polls, registry reads and
\* conditional writes to edited entries failed on the way.
NewestTriggerSettles ==
    <>[](triggers = <<>> \/ triggers[Len(triggers)].status \in {"succeeded", "superseded"})

=============================================================================
