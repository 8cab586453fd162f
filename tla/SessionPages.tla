---------------------------- MODULE SessionPages ----------------------------
(***************************************************************************)
(* One browser tab from the session launcher (NewSession) through the      *)
(* workspace's live status page (WorkspaceLive, usePoll) into the editor:  *)
(* the launch, overlapping polls of a workspace that changes underneath,   *)
(* the resume call and the countdown that opens the editor.                *)
(***************************************************************************)
EXTENDS Naturals, Sequences, FiniteSets

CONSTANTS
    Image,      \* base images an administrator may enable
    MaxPolls,   \* bound: polls in flight, of either page
    RepoPages,  \* pages of repositories a user's token reaches
    Countdown   \* AUTO_OPEN_COUNTDOWN_S

ASSUME PagesAssumption ==
    MaxPolls \in Nat \ {0} /\ Countdown \in Nat \ {0} /\ RepoPages \in Nat \ {0}

VARIABLES
    form,    \* the launcher: [at, mode, image, catalog, made, git]; made: the new
             \* repository exists at the provider; git: what it shows of GitHub
    desk,    \* the workspace's phase: its state with the functional report folded in
    page,    \* the status page: [at, view, autoOpen, countdown, resuming, dismissed]
    polls,   \* its polls in flight that still count, oldest first: what each has read
    resume     \* the resume call: "none", "sent", then the server's answer

pagesVars == <<form, desk, page, polls, resume>>

NoImage == "no image"
Unread == "unread"
Failure == "failure"
Unset == 99  \* no countdown is running

Mode == {"blank", "repo", "public", "create"}

FirstImage(catalog) == IF catalog = {} THEN NoImage ELSE CHOOSE i \in catalog : TRUE

\* The git provider behind a user: none, the user's own token, or the GitHub App;
\* whether the token's scope lets it create repositories, and the namespaces
\* that deny it (an organization's setting, an installation's permission).
Namespace == {"me", "org"}
NotLinked == [via |-> "none", scope |-> FALSE, denied |-> {}]
GitLink ==
    {NotLinked} \cup [via : {"user"}, scope : BOOLEAN, denied : SUBSET {"org"}]
                \cup [via : {"app"}, scope : {TRUE}, denied : SUBSET Namespace]

MayCreate(link) == {n \in Namespace : link.scope /\ n \notin link.denied}

\* The namespaces a listing may offer for a new repository: an organization whose
\* setting could not be read is offered.
ListNamespaces(link) ==
    IF link.via = "user" THEN {MayCreate([link EXCEPT !.denied = d]) : d \in SUBSET link.denied}
                         ELSE {MayCreate(link)}

\* The App answers with everything it is installed on as one page.
HasMoreRepos(link, p) == link.via = "user" /\ p < RepoPages

\* GitHub refuses a namespace that denies it, and a name that is taken.
CreateRepo(link, n, taken) ==
    {500, IF n \notin MayCreate(link) THEN 403 ELSE IF taken THEN 422 ELSE 201}

\* What the routes may answer: 409 to a user without a provider, otherwise what
\* the provider says, or an error; a taken name is a conflict, not a failure.
NamespacesGET(link) ==
    {[status |-> 500, offers |-> {}]} \cup
        IF link.via = "none" THEN {[status |-> 409, offers |-> {}]}
                             ELSE [status : {200}, offers : ListNamespaces(link)]

ReposGET(link) == {500, IF link.via = "none" THEN 409 ELSE 200}

ReposPOST(link, n, taken) ==
    IF link.via = "none" THEN {409}
    ELSE {CASE s = 201 -> 201 [] s = 422 -> 409 [] OTHER -> 500 : s \in CreateRepo(link, n, taken)}

\* What the launcher shows of GitHub before its first answer: pages is what is
\* listed, 0 for none yet; loads the pages asked for.
UnreadGit(link) ==
    [link |-> link, connected |-> TRUE, namespaces |-> "asked", creatable |-> {},
     loads |-> <<>>, loading |-> FALSE, pages |-> 0, failed |-> FALSE, picked |-> FALSE]

OpenForm(catalog, link) ==
    [at |-> "form", mode |-> "blank", image |-> FirstImage(catalog), catalog |-> catalog,
     made |-> FALSE, git |-> UnreadGit(link)]

LeftForm == [OpenForm({}, NotLinked) EXCEPT !.at = "left"]

PagesInit ==
    /\ \E catalog \in SUBSET Image, link \in GitLink : form = OpenForm(catalog, link)
    /\ desk = "absent"
    /\ page = [at |-> "closed", view |-> "none", autoOpen |-> FALSE, countdown |-> Unset,
               resuming |-> FALSE, dismissed |-> FALSE]
    /\ polls = <<>>
    /\ resume = "none"

-----------------------------------------------------------------------------
(* The launcher *)

\* The catalog poll: a selection that is no longer offered moves to the first.
RefreshCatalog ==
    /\ form.at = "form"
    /\ \E catalog \in SUBSET Image :
           form' = [form EXCEPT !.catalog = catalog,
                                !.image = IF @ \in catalog THEN @ ELSE FirstImage(catalog)]
    /\ UNCHANGED <<desk, page, polls, resume>>

\* The namespaces asked for when the launcher opened are answered. What arrives
\* while a launch is under way shows when the form is back.
NamespacesAnswered ==
    /\ form.at = "form" /\ form.git.namespaces = "asked"
    /\ \E answer \in NamespacesGET(form.git.link) :
           form' = [form EXCEPT !.git.namespaces = IF answer.status = 500 THEN "failed" ELSE "read",
                                !.git.connected = @ /\ answer.status # 409,
                                !.git.creatable = answer.offers]
    /\ UNCHANGED <<desk, page, polls, resume>>

LoadRepoPage(f, p) ==
    [f EXCEPT !.git.loads = Append(@, p), !.git.loading = TRUE, !.git.failed = FALSE]

\* Entering the repository mode before anything is listed loads the first page,
\* each time it is entered.
SelectMode(m) ==
    /\ form.at = "form" /\ form.catalog # {} /\ form.mode # m
    /\ m \in {"repo", "create"} => form.git.connected
    /\ LET chosen == [form EXCEPT !.mode = m]
           asks   == m = "repo" /\ form.git.pages = 0
       IN  /\ asks => Len(form.git.loads) < MaxPolls
           /\ form' = IF asks THEN LoadRepoPage(chosen, 1) ELSE chosen
    /\ UNCHANGED <<desk, page, polls, resume>>

\* The buttons "load more" and "retry".
MoreRepos ==
    /\ form.at = "form" /\ form.mode = "repo" /\ form.git.connected
    /\ ~form.git.loading /\ Len(form.git.loads) < MaxPolls
    /\ \/ form.git.failed
       \/ form.git.pages > 0 /\ HasMoreRepos(form.git.link, form.git.pages)
    /\ form' = LoadRepoPage(form, form.git.pages + 1)
    /\ UNCHANGED <<desk, page, polls, resume>>

\* Any answer ends the loading mark; a first page replaces what is listed, a
\* later one is appended.
ReposAnswered(i) ==
    /\ form.at = "form"
    /\ \E status \in ReposGET(form.git.link) :
           form' = [form EXCEPT
               !.git.loads = SubSeq(@, 1, i - 1) \o SubSeq(@, i + 1, Len(@)),
               !.git.loading = FALSE,
               !.git.connected = @ /\ status # 409,
               !.git.pages = IF status = 200 THEN form.git.loads[i] ELSE @,
               !.git.failed = @ \/ status = 500]
    /\ UNCHANGED <<desk, page, polls, resume>>

PickRepo ==
    /\ form.at = "form" /\ form.mode = "repo" /\ form.git.connected
    /\ form.git.pages > 0 /\ ~form.git.picked
    /\ form' = [form EXCEPT !.git.picked = TRUE]
    /\ UNCHANGED <<desk, page, polls, resume>>

StartReady ==
    /\ form.at = "form" /\ form.image # NoImage
    /\ form.mode = "repo" => form.git.picked
    /\ form.mode = "create" => form.git.creatable # {}

\* The Start button: the new repository first, otherwise the launch; a clone
\* URL that does not parse is refused on the spot.
StartSession ==
    /\ StartReady
    /\ \/ form' = [form EXCEPT !.at = IF form.mode = "create" THEN "repo" ELSE "launch"]
       \/ form.mode = "public" /\ UNCHANGED form
    /\ UNCHANGED <<desk, page, polls, resume>>

\* The new repository's namespace is one of those offered.
RepoCreated ==
    /\ form.at = "repo"
    /\ \E n \in form.git.creatable :
       \E status \in ReposPOST(form.git.link, n, form.made) :
           form' = IF status = 201 THEN [form EXCEPT !.at = "launch", !.made = TRUE]
                                   ELSE [form EXCEPT !.at = "form"]
    /\ UNCHANGED <<desk, page, polls, resume>>

-----------------------------------------------------------------------------
(* The status page *)

ReadyView(p) == p.view = "ready"

Settled(p) == ~p.resuming /\ p.view \in {"ready", "stopped", "terminated", "error"}

\* The page's effects after a render: arm the countdown, and kick the resume of a
\* stopped workspace on a visit that wants the editor.
Effects(p) ==
    LET armed == IF p.autoOpen /\ ReadyView(p) /\ p.countdown = Unset
                 THEN [p EXCEPT !.countdown = Countdown] ELSE p
    IN  IF p.autoOpen /\ ~p.resuming /\ p.view = "stopped"
        THEN [armed EXCEPT !.resuming = TRUE] ELSE armed

\* A render: effects run, a resume they kick is sent, and when the page settles or
\* unsettles the poll is re-armed, which drops the old one's answers and reads
\* at once.
Render(p, rest) ==
    LET q == Effects(p) IN
    /\ page' = q
    /\ resume' = IF q.resuming /\ ~p.resuming THEN "sent" ELSE resume
    /\ polls' = IF Settled(q) = Settled(page) THEN rest ELSE <<Unread>>

FreshPage(autoOpen) ==
    [at |-> "status", view |-> "none", autoOpen |-> autoOpen, countdown |-> Unset,
     resuming |-> FALSE, dismissed |-> FALSE]

\* The launch is answered: the browser lands on the status page, which will open
\* the editor by itself, or the form shows why not.
LaunchAnswered ==
    /\ form.at = "launch"
    /\ \/ /\ desk' = "provisioning"
          /\ form' = LeftForm
          /\ page' = FreshPage(TRUE) /\ polls' = <<Unread>>
       \/ /\ form' = [form EXCEPT !.at = "form"]
          /\ UNCHANGED <<desk, page, polls>>
    /\ UNCHANGED resume

\* The timer, or the tab coming to the foreground, starts another poll.
StartPoll ==
    /\ page.at = "status" /\ Len(polls) < MaxPolls
    /\ polls' = Append(polls, Unread)
    /\ UNCHANGED <<form, desk, page, resume>>

\* The API reads the workspace for a poll, or the poll fails.
ReadForPoll(i) ==
    /\ polls[i] = Unread
    /\ \E got \in {desk, Failure} : polls' = [polls EXCEPT ![i] = got]
    /\ UNCHANGED <<form, desk, page, resume>>

\* An answer counts only if no later-started poll has been applied, so the polls
\* it overtakes are as good as gone; a failure leaves the last known state on the page.
ApplyPoll(i) ==
    /\ page.at = "status" /\ polls[i] # Unread
    /\ LET later == SubSeq(polls, i + 1, Len(polls))
       IN  IF polls[i] = Failure
           THEN polls' = later /\ UNCHANGED <<page, resume>>
           ELSE Render([page EXCEPT !.view = polls[i]], later)
    /\ UNCHANGED <<form, desk>>

CountDown ==
    /\ page.at = "status" /\ page.countdown \in 1..Countdown
    /\ page' = [page EXCEPT !.countdown = @ - 1]
    /\ UNCHANGED <<form, desk, polls, resume>>

\* The countdown is over: /w/<id>/ serves the editor, or sends the browser back
\* to a fresh status page while the workspace is not ready.
OpenEditor ==
    /\ page.at = "status" /\ page.countdown = 0
    /\ IF desk = "ready"
       THEN page' = [page EXCEPT !.at = "editor"] /\ polls' = <<>>
       ELSE page' = FreshPage(TRUE) /\ polls' = <<Unread>>
    /\ resume' = "none"
    /\ UNCHANGED <<form, desk>>

StayHere ==
    /\ page.at = "status" /\ page.countdown \in 1..Countdown
    /\ page' = [page EXCEPT !.autoOpen = FALSE, !.countdown = Unset, !.dismissed = TRUE]
    /\ UNCHANGED <<form, desk, polls, resume>>

\* The Resume button, offered on a stopped workspace that is not resuming.
Resume ==
    /\ page.at = "status" /\ page.view = "stopped" /\ ~page.resuming
    /\ Render([page EXCEPT !.resuming = TRUE, !.autoOpen = TRUE], polls)
    /\ resume' = "sent"
    /\ UNCHANGED <<form, desk>>

\* The server starts a stopped workspace; any other state is a conflict.
StartWorkspace ==
    /\ resume = "sent"
    /\ \/ desk = "stopped" /\ desk' = "provisioning" /\ resume' = "started"
       \/ desk # "stopped" /\ resume' = "conflict" /\ UNCHANGED desk
       \/ resume' = "failed" /\ UNCHANGED desk
    /\ UNCHANGED <<form, page, polls>>

\* Mutant: a conflict, too, disarms the page.
DisarmsOnAny(answer) == answer # "started"

\* Only a conflict is benign: the resume happened, or is under way.
Disarms(answer) == answer = "failed"

ResumeAnswered ==
    /\ page.at = "status" /\ resume \in {"started", "conflict", "failed"}
    /\ IF Disarms(resume)
       THEN /\ page.resuming
            /\ page' = [page EXCEPT !.resuming = FALSE, !.autoOpen = FALSE]
            /\ polls' = IF Settled(page') = Settled(page) THEN polls ELSE <<Unread>>
            /\ resume' = IF resume = "failed" THEN "refused" ELSE "none"
       ELSE resume' = "none" /\ UNCHANGED <<page, polls>>
    /\ UNCHANGED <<form, desk>>

\* Everything else that moves the workspace: the launch, the agent's reports,
\* stops by the user or for idleness and their cancel, deletion, another tab.
DeskMoves ==
    /\ \E step \in {<<"provisioning", "booting">>, <<"booting", "ready">>,
                    <<"provisioning", "error">>, <<"error", "provisioning">>,
                    <<"ready", "stopping">>, <<"stopping", "ready">>, <<"stopping", "stopped">>,
                    <<"stopped", "provisioning">>, <<"stopped", "terminated">>} :
           desk = step[1] /\ desk' = step[2]
    /\ UNCHANGED <<form, page, polls, resume>>

PagesNext ==
    \/ RefreshCatalog \/ NamespacesAnswered \/ MoreRepos \/ PickRepo
    \/ \E i \in 1..Len(form.git.loads) : ReposAnswered(i)
    \/ StartSession \/ RepoCreated \/ LaunchAnswered
    \/ \E m \in Mode : SelectMode(m)
    \/ StartPoll
    \/ \E i \in 1..Len(polls) : ReadForPoll(i) \/ ApplyPoll(i)
    \/ CountDown \/ OpenEditor \/ StayHere
    \/ Resume \/ StartWorkspace \/ ResumeAnswered
    \/ DeskMoves

\* Timers fire and requests are answered; polls do not fail every
\* time.
PagesFairness ==
    /\ WF_pagesVars(RepoCreated \/ LaunchAnswered)
    /\ WF_pagesVars(StartPoll)
    /\ SF_pagesVars(\E i \in 1..Len(polls) :
          ReadForPoll(i) /\ polls'[i] # Failure)
    /\ SF_pagesVars(\E i \in 1..Len(polls) :
          ApplyPoll(i) /\ polls[i] # Failure)
    /\ WF_pagesVars(\E i \in 1..Len(polls) : ApplyPoll(i) \/ ReadForPoll(i))
    /\ WF_pagesVars(CountDown \/ OpenEditor)
    /\ WF_pagesVars(StartWorkspace)
    /\ WF_pagesVars(ResumeAnswered)

PagesSpec == PagesInit /\ [][PagesNext]_pagesVars /\ PagesFairness

-----------------------------------------------------------------------------
(* Properties *)

\* A launch ends in the editor: once the workspace stays ready, the tab that
\* launched or resumed it opens the editor by itself, unless the launch or the
\* resume was refused or the user chose to stay on the page.
AutoOpens ==
    <>[](desk = "ready")
        => []<>(\/ form.at = "form" \/ page.at = "editor"
                \/ resume = "refused" \/ page.dismissed)

=============================================================================
