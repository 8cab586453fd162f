------------------------------ MODULE Accounts ------------------------------
(***************************************************************************)
(* Local accounts and developer invitations of one e-mail address (the     *)
(* rows of two addresses never meet).  An administrator creates an account *)
(* or mails a link; whoever opens the link sets the account's password.    *)
(* Workspaces belong to the owner id of the account, so the id must        *)
(* survive invitations, re-issues and accounts made behind their back.     *)
(* No table read here is transactional with the write that follows it.     *)
(***************************************************************************)
EXTENDS Naturals, FiniteSets

CONSTANTS
    Administrator,   \* admin forms being submitted
    Visitor,         \* people with an invitation page open
    Link,            \* invitation tokens
    MaxDays,         \* days the model runs
    MaxOwnerIds      \* random owner ids handed out

ASSUME AccountsAssumption == MaxDays \in Nat /\ MaxOwnerIds \in Nat

VARIABLES
    today,
    minted,       \* owner ids handed out so far; each is fresh
    account,      \* the row of the address: owner id and password, or NoAccount
    invitation,   \* [Link -> the invitation row, or NoInvitation]
    form,         \* [Administrator -> the server action in progress]
    accepting,    \* [Visitor -> acceptDeveloperInvitation in progress]
    signedIn      \* owner ids the address was ever signed in with

accountVars == <<today, minted, account, invitation, form, accepting, signedIn>>

NoAccount == [owner |-> 0]
NoInvitation == [owner |-> 0]
NoForm == [at |-> "idle"]
NotAccepting == [at |-> "idle"]

AccountsInit ==
    /\ today = 0
    /\ minted = 0
    /\ account = NoAccount
    /\ invitation = [l \in Link |-> NoInvitation]
    /\ form = [a \in Administrator |-> NoForm]
    /\ accepting = [v \in Visitor |-> NotAccepting]
    /\ signedIn = {}

\* The durations the form offers are 1 to 30 days; here 1.
InvitationTtl == 1

DayPasses ==
    /\ today < MaxDays
    /\ today' = today + 1
    /\ UNCHANGED <<minted, account, invitation, form, accepting, signedIn>>

-----------------------------------------------------------------------------
(* The admin forms *)

Issued == {l \in Link : invitation[l] # NoInvitation}
Newest(l) == l \in Issued /\ \A m \in Issued : invitation[m].at <= invitation[l].at

\* The account's id, else the id of the newest invitation, else a random one.
\* Each of the two reads is awaited: known is what the account read found.
ReadAccountForInvitation(a) ==
    /\ form[a] = NoForm
    /\ form' = [form EXCEPT ![a] = [at |-> "owner", known |-> account.owner]]
    /\ UNCHANGED <<today, minted, account, invitation, accepting, signedIn>>

OwnerIdForInvitation(a) ==
    /\ form[a].at = "owner"
    /\ \/ /\ form[a].known # 0
          /\ form' = [form EXCEPT ![a] = [at |-> "invite", owner |-> form[a].known]]
          /\ minted' = minted
       \/ /\ form[a].known = 0
          /\ \E l \in Link :
                /\ Newest(l)
                /\ form' = [form EXCEPT ![a] = [at |-> "invite", owner |-> invitation[l].owner]]
          /\ minted' = minted
       \/ /\ form[a].known = 0 /\ Issued = {}
          /\ minted < MaxOwnerIds
          /\ minted' = minted + 1
          /\ form' = [form EXCEPT ![a] = [at |-> "invite", owner |-> minted']]
    /\ UNCHANGED <<today, account, invitation, accepting, signedIn>>

\* The row is stored before the mail is sent; a re-issue leaves older links valid.
CreateDeveloperInvitation(a, l) ==
    /\ form[a].at = "invite"
    /\ invitation[l] = NoInvitation
    /\ invitation' = [invitation EXCEPT ![l] =
            [owner |-> form[a].owner, at |-> today, expires |-> today + InvitationTtl,
             accepted |-> FALSE, mailed |-> FALSE]]
    /\ form' = [form EXCEPT ![a] = [at |-> "mail", link |-> l]]
    /\ UNCHANGED <<today, minted, account, accepting, signedIn>>

\* SES takes the message or refuses it; the row stays either way.
SendInvitationEmail(a) ==
    /\ form[a].at = "mail"
    /\ \E sent \in BOOLEAN : invitation' = [invitation EXCEPT ![form[a].link].mailed = sent]
    /\ form' = [form EXCEPT ![a] = NoForm]
    /\ UNCHANGED <<today, minted, account, accepting, signedIn>>

\* The users page refuses an address that has an account, then stores one.
ReadAccountForCreate(a) ==
    /\ form[a] = NoForm /\ account = NoAccount
    /\ minted < MaxOwnerIds
    /\ minted' = minted + 1
    /\ form' = [form EXCEPT ![a] = [at |-> "create", owner |-> minted']]
    /\ UNCHANGED <<today, account, invitation, accepting, signedIn>>

\* Mutant: the row is put whether or not there is one.
PutAccount(owner, password) == account' = [owner |-> owner, password |-> password]

\* A create is refused by the table when the row exists.
CreateAccount(owner, password) ==
    account' = IF account = NoAccount
               THEN [owner |-> owner, password |-> password]
               ELSE account

CreateLocalAccount(a) ==
    /\ form[a].at = "create"
    /\ CreateAccount(form[a].owner, a)
    /\ form' = [form EXCEPT ![a] = NoForm]
    /\ UNCHANGED <<today, minted, invitation, accepting, signedIn>>

-----------------------------------------------------------------------------
(* acceptDeveloperInvitation *)

\* The link is looked up and must be neither accepted nor expired.
Acceptable(i) == i # NoInvitation /\ ~i.accepted /\ today < i.expires

\* The person the link was mailed to submits the form of its page.
OpenInvitation(v, l) ==
    /\ accepting[v] = NotAccepting
    /\ Acceptable(invitation[l]) /\ invitation[l].mailed
    /\ accepting' = [accepting EXCEPT ![v] = [at |-> "read", link |-> l]]
    /\ UNCHANGED <<today, minted, account, invitation, form, signedIn>>

\* What the account read finds decides between create and patch.
ReadAccountForAccept(v) ==
    /\ accepting[v].at = "read"
    /\ accepting' = [accepting EXCEPT ![v] =
            [at |-> "write", link |-> accepting[v].link, exists |-> account # NoAccount]]
    /\ UNCHANGED <<today, minted, account, invitation, form, signedIn>>

\* A refused create ends the request with an error page.
WriteAccount(v) ==
    /\ accepting[v].at = "write"
    /\ LET l == accepting[v].link
           refused == ~accepting[v].exists /\ account # NoAccount
       IN  /\ IF accepting[v].exists
              THEN account' = [account EXCEPT !.password = v]
              ELSE CreateAccount(invitation[l].owner, v)
           /\ accepting' = [accepting EXCEPT ![v] =
                    IF refused THEN NotAccepting ELSE [at |-> "mark", link |-> l]]
    /\ UNCHANGED <<today, minted, invitation, form, signedIn>>

MarkAccepted(v) ==
    /\ accepting[v].at = "mark"
    /\ invitation' = [invitation EXCEPT ![accepting[v].link].accepted = TRUE]
    /\ accepting' = [accepting EXCEPT ![v] = NotAccepting]
    /\ UNCHANGED <<today, minted, account, form, signedIn>>

\* The process serving a form or a visitor ends, or the table refuses a call.
Abandon ==
    /\ \/ \E a \in Administrator : /\ form[a] # NoForm
                                   /\ form' = [form EXCEPT ![a] = NoForm]
                                   /\ UNCHANGED accepting
       \/ \E v \in Visitor : /\ accepting[v] # NotAccepting
                             /\ accepting' = [accepting EXCEPT ![v] = NotAccepting]
                             /\ UNCHANGED form
    /\ UNCHANGED <<today, minted, account, invitation, signedIn>>

\* authenticateLocalAccount and the session made from what it returns.
LocalAccountSignIn ==
    /\ account # NoAccount
    /\ signedIn' = signedIn \cup {account.owner}
    /\ UNCHANGED <<today, minted, account, invitation, form, accepting>>

AccountsNext ==
    \/ DayPasses
    \/ \E a \in Administrator : \/ ReadAccountForInvitation(a)
                                \/ OwnerIdForInvitation(a)
                                \/ \E l \in Link : CreateDeveloperInvitation(a, l)
                                \/ SendInvitationEmail(a)
                                \/ ReadAccountForCreate(a)
                                \/ CreateLocalAccount(a)
    \/ \E v \in Visitor : \/ \E l \in Link : OpenInvitation(v, l)
                          \/ ReadAccountForAccept(v)
                          \/ WriteAccount(v)
                          \/ MarkAccepted(v)
    \/ Abandon
    \/ LocalAccountSignIn

AccountsSpec == AccountsInit /\ [][AccountsNext]_accountVars

-----------------------------------------------------------------------------
(* Properties *)

\* However invitations, re-issues, accounts made directly and accepted links
\* overlap, an address is always signed in as one owner id, so it keeps its
\* workspaces. (apps/web/lib/local-accounts.ts; the invitations page promises
\* "accepted links keep access to that user's existing workspaces".)
OneOwnerId == Cardinality(signedIn) <= 1

=============================================================================
