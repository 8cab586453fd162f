------------------------------ MODULE EbsSettle ------------------------------
(***************************************************************************)
(* How the EBS storage provider creates volumes, snapshots and copies      *)
(* (packages/storage-ec2/src/ec2-storage-provider.ts).  A created resource *)
(* settles in its own time; the provider waits for a while, and what it    *)
(* does when the wait fails decides whether data is lost or money leaks: a *)
(* volume or a copy that did not settle is deleted again, a snapshot only  *)
(* if it is known to have failed.  Teardown then tags the snapshot it      *)
(* keeps, and goes on only when the tag can be read back.                  *)
(***************************************************************************)
EXTENDS Naturals, FiniteSets

CONSTANT EbsCall   \* create calls, each making one resource

VARIABLES
  made,       \* made[c]: the resource of call c, as EC2 has it
  ebs         \* ebs[c]: the progress of the call in the provider

ebsVars == <<made, ebs>>

NoResource == [state |-> "none", shown |-> FALSE, failed |-> FALSE, tag |-> "none"]
NoCall == [at |-> "idle", op |-> "none", leak |-> FALSE]

EbsTypeOK ==
  /\ made \in [EbsCall -> [state : {"none", "pending", "ready", "error", "deleted"},
                           shown : BOOLEAN, failed : BOOLEAN,
                           tag : {"none", "written", "shown"}]]
  /\ ebs \in [EbsCall -> [at : {"idle", "wait", "unsettled", "cleanup", "returned",
                                "threw", "tagging", "retained"},
                          op : {"none", "volume", "snapshot", "copy"}, leak : BOOLEAN]]

EbsInit ==
  /\ made = [c \in EbsCall |-> NoResource]
  /\ ebs = [c \in EbsCall |-> NoCall]

Exists(c) == made[c].state \in {"pending", "ready", "error"}

-----------------------------------------------------------------------------
\* EC2.

Settles(c) ==
  /\ made[c].state = "pending"
  /\ \E state \in {"ready", "error"} :
       made' = [made EXCEPT ![c].state = state, ![c].failed = (state = "error")]
  /\ UNCHANGED ebs

\* Reads follow writes with a delay: the resource, and a tag put on it later.
ReadsCatchUp(c) ==
  /\ Exists(c)
  /\ \/ ~made[c].shown /\ made' = [made EXCEPT ![c].shown = TRUE]
     \/ made[c].tag = "written" /\ made' = [made EXCEPT ![c].tag = "shown"]
  /\ UNCHANGED ebs

-----------------------------------------------------------------------------
\* The provider.

\* CreateVolume, CreateSnapshot (tagged retained from the start at a teardown),
\* CopySnapshot: the request fails, or a tagged resource exists.
CreateResource(c, op) ==
  /\ ebs[c].at = "idle"
  /\ \/ /\ ebs' = [ebs EXCEPT ![c] = [at |-> "threw", op |-> op, leak |-> FALSE]]
        /\ UNCHANGED made
     \/ /\ ebs' = [ebs EXCEPT ![c] = [at |-> "wait", op |-> op, leak |-> FALSE]]
        /\ \E tag \in IF op = "snapshot" THEN {"none", "shown"} ELSE {"none"} :
             made' = [made EXCEPT ![c] = [state |-> "pending", shown |-> FALSE,
                                          failed |-> FALSE, tag |-> tag]]

\* The waiter sees the resource ready, sees it failed, or runs out of time.
WaitUntilSettled(c) ==
  /\ ebs[c].at = "wait"
  /\ \/ /\ made[c].shown /\ made[c].state = "ready"
        /\ ebs' = [ebs EXCEPT ![c].at = "returned"]
     \/ ebs' = [ebs EXCEPT ![c].at = "unsettled"]
  /\ UNCHANGED made

\* snapshotState: unknown when it is not visible yet or cannot be described.
SnapshotStates(c) == {"unknown"} \cup (IF made[c].shown THEN {made[c].state} ELSE {})

\* Mutant: a snapshot that has not completed in time counts as failed.
AfterTimeoutStrict(c, state) == IF state = "ready" THEN "returned" ELSE "cleanup"
\* A volume or a copy is given up; a snapshot only when it has failed for good.
AfterTimeout(c, state) ==
  IF ebs[c].op = "snapshot" /\ state # "error" THEN "returned" ELSE "cleanup"

Unsettled(c) ==
  /\ ebs[c].at = "unsettled"
  /\ \E state \in SnapshotStates(c) :
       ebs' = [ebs EXCEPT ![c].at = AfterTimeout(c, state)]
  /\ UNCHANGED made

\* The error names what may be leaked.
CleanupFails(c) == [ebs EXCEPT ![c].at = "threw", ![c].leak = TRUE]

\* deleteOrSurfaceLeak; deleting what has gone already succeeds.
DeleteOrSurfaceLeak(c) ==
  /\ ebs[c].at = "cleanup"
  /\ \/ /\ made' = [made EXCEPT ![c].state = "deleted"]
        /\ ebs' = [ebs EXCEPT ![c].at = "threw"]
     \/ ebs' = CleanupFails(c) /\ UNCHANGED made

\* tagSnapshotRetained: write the tag, then read it back; a tag that cannot be
\* seen yet is an error, which the caller retries.
TagRetained(c) ==
  /\ ebs[c].at = "returned" /\ ebs[c].op = "snapshot" /\ Exists(c)
  /\ ebs' = [ebs EXCEPT ![c].at = "tagging"]
  /\ made' = [made EXCEPT ![c].tag = IF @ = "none" THEN "written" ELSE @]

TagVisible(c) == made[c].shown /\ made[c].tag = "shown"

ConfirmTag(c) ==
  /\ ebs[c].at = "tagging"
  /\ \/ TagVisible(c) /\ ebs' = [ebs EXCEPT ![c].at = "retained"]
     \/ ebs' = [ebs EXCEPT ![c].at = "returned"]
  /\ UNCHANGED made

\* The collector deletes what nobody was handed and no tag it can see retains;
\* once a teardown has let go of the record, that is the tag alone.
CollectorDeletes(c) ==
  /\ Exists(c) /\ made[c].shown /\ made[c].tag # "shown"
  /\ ebs[c].at \in {"threw", "retained"}
  /\ made' = [made EXCEPT ![c].state = "deleted"]
  /\ UNCHANGED ebs

EbsNext ==
  \E c \in EbsCall :
    \/ \E op \in {"volume", "snapshot", "copy"} : CreateResource(c, op)
    \/ WaitUntilSettled(c) \/ Unsettled(c) \/ DeleteOrSurfaceLeak(c)
    \/ TagRetained(c) \/ ConfirmTag(c)
    \/ Settles(c) \/ ReadsCatchUp(c) \/ CollectorDeletes(c)

EbsSpec == EbsInit /\ [][EbsNext]_ebsVars

-----------------------------------------------------------------------------
\* However the waits, the describes and the deletes turn out: a snapshot that
\* may still complete is never deleted by the call that took it, nor by the
\* collector once a teardown was told it is retained; and a call that throws
\* leaves nothing behind without saying so (createSnapshot's "must NOT treat
\* not yet completed as a failed create", tagSnapshotRetained, deleteOrSurfaceLeak).
SnapshotsSurviveTimeouts ==
  \A c \in EbsCall :
    /\ ebs[c].op = "snapshot" /\ ebs[c].at # "threw" => made[c].state # "deleted"
    /\ ebs[c].op = "snapshot" /\ made[c].state = "deleted" => made[c].failed
    /\ ebs[c].at = "threw" /\ Exists(c) => ebs[c].leak
=============================================================================
