--------------------------- MODULE SessionPromise ---------------------------
(***************************************************************************)
(* What the owner of a workspace is promised, with no processes, versions, *)
(* tasks or snapshots: a session is in one phase, and its work is saved or *)
(* it is not.  WorkspaceService implements this specification: whatever    *)
(* its workers interleave, the stored row shows one step of it at a time.  *)
(*                                                                         *)
(* In particular saved work stays saved until the copy is found to be gone *)
(* or the workspace is purged; a session goes off or to the bin from what  *)
(* it was, never from what some worker read earlier; and only saved work   *)
(* is woken, recovered or restored.                                        *)
(***************************************************************************)
VARIABLES
    phase,      \* where the session is, as the owner sees it
    saved       \* the record references a copy of the work

promise == <<phase, saved>>

Begin == phase = "none" /\ saved = FALSE

\* A new session, a wake of a saved one, another try of one that never was saved.
Create == phase = "none" /\ phase' = "starting" /\ saved' = FALSE

Wake == phase = "off" /\ saved /\ phase' = "starting" /\ UNCHANGED saved

TryAgain == phase = "broken" /\ ~saved /\ phase' = "starting" /\ UNCHANGED saved

ComeUp == phase = "starting" /\ phase' = "on" /\ UNCHANGED saved

\* A launch that fails leaves what was saved where it can be woken again; an idle
\* stop that comes late may even save what the launch still holds of its volume.
GiveUp == phase = "starting" /\ phase' = "off" /\ saved' \in {saved, TRUE}

Fail ==
    /\ phase \in {"starting", "on", "saving", "off"}
    /\ phase' = "broken"
    /\ UNCHANGED saved

\* Scaling to zero saves; a session whose task is lost falls back on its last copy.
Sleep == phase = "on" /\ phase' = "off" /\ saved' = TRUE

AskStop == phase = "on" /\ phase' = "saving" /\ UNCHANGED saved

CancelStop == phase = "saving" /\ phase' = "on" /\ UNCHANGED saved

\* A manual stop saves what is left to save.
EndStop == phase = "saving" /\ phase' = "off" /\ saved' \in {saved, TRUE}

\* A copy is taken, or chosen, without leaving the phase.
Save == phase \in {"on", "off", "going"} /\ saved' = TRUE /\ UNCHANGED phase

\* The copy turns out to be gone.
Lose == phase \in {"off", "broken"} /\ saved /\ phase' = "broken" /\ saved' = FALSE

Recover == phase = "broken" /\ saved /\ phase' = "off" /\ UNCHANGED saved

Delete ==
    /\ phase \in {"starting", "on", "saving", "off", "broken"}
    /\ phase' = "going"
    /\ UNCHANGED saved

Deleted == phase = "going" /\ phase' = "bin" /\ UNCHANGED saved

Undelete == phase = "bin" /\ saved /\ phase' = "off" /\ UNCHANGED saved

Purge == phase = "bin" /\ phase' = "none" /\ saved' = FALSE

Change ==
    \/ Create \/ Wake \/ TryAgain \/ ComeUp \/ GiveUp \/ Fail \/ Sleep \/ AskStop
    \/ CancelStop \/ EndStop \/ Save \/ Lose \/ Recover \/ Delete \/ Deleted
    \/ Undelete \/ Purge

Promise == Begin /\ [][Change]_promise
=============================================================================
