------------------------------ MODULE GitAccess ------------------------------
(***************************************************************************)
(* What identifies a person to a shell and to a git host.                  *)
(*                                                                         *)
(* One SSH public key two accounts may register: its rows, the claim on    *)
(* its fingerprint, and the index the gateway looks it up in, which lags   *)
(* the table.  One browser linking GitHub accounts.  The SSH keys the      *)
(* platform generates for an owner, and the probe of a repository with     *)
(* them before a session is created.                                       *)
(***************************************************************************)
EXTENDS Naturals, FiniteSets

CONSTANTS
    KeyOwner,     \* accounts
    KeyRequest,   \* delete requests in progress at once
    GitKey,       \* key pairs the platform may generate
    MaxKeyId,     \* registrations of the public key
    MaxLinks      \* GitHub links started

ASSUME GitAccessAssumption == MaxKeyId \in Nat /\ MaxLinks \in Nat

VARIABLES
    nextKeyId,
    keyRow,      \* the key's rows: id and owner
    claim,       \* the row claiming its fingerprint, or NoClaim
    keyIndex,    \* the rows byFingerprint returns
    removal,     \* [KeyRequest -> the row it read, or NoClaim]
    admitted,    \* owners of the workspaces the key was let into
    browser,     \* who is signed in
    linkState,   \* the signed states handed out: who started, whether still valid
    linking,     \* the callback exchanging its code
    linkedToken, \* [KeyOwner -> who consented to the stored token, or Nobody]
    gitKey,      \* [KeyOwner -> SUBSET GitKey]
    probing,     \* the repository of the session being created
    environment  \* what the deployment is given: an encryption key, a GitHub
                 \* App, the id and secret of a GitHub sign-in

keyVars == <<nextKeyId, keyRow, claim, keyIndex, removal, admitted>>
linkVars == <<browser, linkState, linking, linkedToken>>
probeVars == <<gitKey, probing, environment>>
gitVars == <<nextKeyId, keyRow, claim, keyIndex, removal, admitted,
             browser, linkState, linking, linkedToken, gitKey, probing, environment>>

NoClaim == [id |-> 0]
Stranger == "nobody"
NotLinking == [by |-> Stranger]
NotProbing == [at |-> "idle"]

GitAccessInit ==
    /\ nextKeyId = 1
    /\ keyRow = {} /\ claim = NoClaim /\ keyIndex = {}
    /\ removal = [q \in KeyRequest |-> NoClaim]
    /\ admitted = {}
    /\ browser = Stranger
    /\ linkState = {} /\ linking = NotLinking
    /\ linkedToken = [o \in KeyOwner |-> Stranger]
    /\ gitKey = [o \in KeyOwner |-> {}]
    /\ probing = NotProbing
    /\ environment \in [key : BOOLEAN, app : BOOLEAN, github : BOOLEAN]

\* gitIntegration: how an https token is had, and whether SSH keys are kept.
Tokens ==
    CASE environment.app -> "app"
      [] ~environment.app /\ environment.github /\ environment.key -> "oauth"
      [] OTHER -> "none"
SshKeys == environment.key

-----------------------------------------------------------------------------
(* SshKeyService *)

\* One transaction: a conditional create of the claim, and the key. It is
\* canceled when the fingerprint is claimed.
RegisterKey(o) ==
    /\ nextKeyId <= MaxKeyId
    /\ nextKeyId' = nextKeyId + 1
    /\ LET k == [id |-> nextKeyId, owner |-> o]
       IN  \/ /\ claim = NoClaim
              /\ claim' = k
              /\ keyRow' = keyRow \cup {k}
           \/ /\ claim # NoClaim
              /\ UNCHANGED <<claim, keyRow>>
    /\ UNCHANGED <<keyIndex, removal, admitted, linkVars, probeVars>>

\* remove reads the caller's row first; none is a 404.
ReadKeyForRemoval(q, o) ==
    /\ removal[q] = NoClaim
    /\ \E k \in keyRow : k.owner = o /\ removal' = [removal EXCEPT ![q] = k]
    /\ UNCHANGED <<nextKeyId, keyRow, claim, keyIndex, admitted, linkVars, probeVars>>

\* One transaction deletes the row that was read and the fingerprint's claim,
\* whoever's it is by now.
RemoveKey(q) ==
    /\ removal[q] # NoClaim
    /\ keyRow' = keyRow \ {removal[q]}
    /\ claim' = NoClaim
    /\ removal' = [removal EXCEPT ![q] = NoClaim]
    /\ UNCHANGED <<nextKeyId, keyIndex, admitted, linkVars, probeVars>>

\* The index applies the table's writes later, a row at a time.
IndexCatchesUp ==
    /\ \/ \E k \in keyRow \ keyIndex : keyIndex' = keyIndex \cup {k}
       \/ \E k \in keyIndex \ keyRow : keyIndex' = keyIndex \ {k}
    /\ UNCHANGED <<nextKeyId, keyRow, claim, removal, admitted, linkVars, probeVars>>

\* The gateway's or the workspace's sshd asks whether the key opens a workspace
\* of o: the first row the index returns must be o's.
SshAuthorize(o) ==
    /\ \E k \in keyIndex : k.owner = o
    /\ admitted' = admitted \cup {o}
    /\ UNCHANGED <<nextKeyId, keyRow, claim, keyIndex, removal, linkVars, probeVars>>

-----------------------------------------------------------------------------
(* Linking a GitHub account from one browser *)

BrowserSignsIn(o) ==
    /\ browser' = o
    /\ UNCHANGED <<linkState, linking, linkedToken, keyVars, probeVars>>

\* signIn stores the token of a GitHub sign-in for its own subject.
SignInStoresToken(o) ==
    /\ environment.github /\ environment.key
    /\ browser' = o
    /\ linkedToken' = [linkedToken EXCEPT ![o] = o]
    /\ UNCHANGED <<linkState, linking, keyVars, probeVars>>

StartLink ==
    /\ Tokens = "oauth"
    /\ browser # Stranger /\ Cardinality(linkState) < MaxLinks
    /\ linkState' = linkState \cup
            {[nonce |-> Cardinality(linkState), owner |-> browser, valid |-> TRUE]}
    /\ UNCHANGED <<browser, linking, linkedToken, keyVars, probeVars>>

\* Ten minutes pass.
LinkExpires ==
    /\ \E s \in linkState :
        /\ s.valid
        /\ linkState' = (linkState \ {s}) \cup {[s EXCEPT !.valid = FALSE]}
    /\ UNCHANGED <<browser, linking, linkedToken, keyVars, probeVars>>

\* Mutant: any signed state is taken.
SignedAndFresh(s) == s.valid

\* verifyGithubConnectState, and the state must be the signed-in user's.
StateAccepted(s) == s.valid /\ s.owner = browser

LinkCallback ==
    /\ linking = NotLinking /\ browser # Stranger
    /\ \E s \in linkState :
        /\ StateAccepted(s)
        /\ linking' = [by |-> s.owner, for |-> browser, exchanged |-> FALSE]
    /\ UNCHANGED <<browser, linkState, linkedToken, keyVars, probeVars>>

\* GitHub refuses the code, or gives the token of whoever consented.
ExchangeGithubConnectCode ==
    /\ linking # NotLinking /\ ~linking.exchanged
    /\ linking' \in {NotLinking, [linking EXCEPT !.exchanged = TRUE]}
    /\ UNCHANGED <<browser, linkState, linkedToken, keyVars, probeVars>>

\* The token is stored for the caller who was authenticated at the start.
StoreLinkedToken ==
    /\ linking # NotLinking /\ linking.exchanged
    /\ linking' = NotLinking
    /\ linkedToken' = [linkedToken EXCEPT ![linking.for] = linking.by]
    /\ UNCHANGED <<browser, linkState, keyVars, probeVars>>

-----------------------------------------------------------------------------
(* Keys the platform generates, and the probe of an SSH repository *)

GenerateGitKey(o, g) ==
    /\ SshKeys
    /\ \A other \in KeyOwner : g \notin gitKey[other]
    /\ gitKey' = [gitKey EXCEPT ![o] = @ \cup {g}]
    /\ UNCHANGED <<probing, environment, keyVars, linkVars>>

RemoveGitKey(o, g) ==
    /\ g \in gitKey[o]
    /\ gitKey' = [gitKey EXCEPT ![o] = @ \ {g}]
    /\ UNCHANGED <<probing, environment, keyVars, linkVars>>

\* What may be typed as a repository, by what the parser looks at: git's
\* user@host:path or a URL, and how much of a path is left without slashes.
RemoteText == [form : {"scp", "url", "garbage"}, scheme : {"https", "ssh", "other"},
               host : BOOLEAN, path : {"", "repo", "owner/repo"}, port : {"fits", "bad"}]

ParseGitRemote(t) ==
    CASE t.form = "scp" /\ t.host /\ t.path # "" -> "ssh"
      [] t.form = "url" /\ t.scheme = "https" /\ t.host /\ t.path # "" -> "https"
      [] t.form = "url" /\ t.scheme = "ssh" /\ t.host /\ t.path # "" /\ t.port = "fits" -> "ssh"
      [] OTHER -> "none"

\* The owner and the name of the repository, when the path has both.
HasRepoRef(t) == t.path = "owner/repo"

\* Neither transport: a 400, and nobody is asked.
RefuseRemote ==
    /\ probing = NotProbing
    /\ \E t \in RemoteText : ParseGitRemote(t) = "none"
    /\ probing' = [at |-> "answered", outcome |-> "not a clone URL"]
    /\ UNCHANGED <<gitKey, environment, keyVars, linkVars>>

\* materials(owner): the keys are read once, before the host is asked.
StartProbe(o) ==
    /\ probing = NotProbing
    /\ \E t \in RemoteText : ParseGitRemote(t) = "ssh"
    /\ probing' = [at |-> "probe", owner |-> o, held |-> gitKey[o], left |-> gitKey[o]]
    /\ UNCHANGED <<gitKey, environment, keyVars, linkVars>>

\* What the answer makes of the request: a branch that is not advertised, a
\* host that refuses or cannot be reached is a 422.
RepositoryProblem(answer) ==
    CASE answer = "refs" -> {"created", "no such branch"}
      [] OTHER -> {answer}

\* Each key in turn: refs end the walk, a rejection moves on, a failure ends it.
TryIdentity(g) ==
    /\ probing.at = "probe" /\ g \in probing.left
    /\ \/ \E outcome \in RepositoryProblem("refs") :
              probing' = [at |-> "answered", outcome |-> outcome, with |-> g]
       \/ probing' = [probing EXCEPT !.left = @ \ {g}]
       \/ probing' = [at |-> "answered", outcome |-> "unreachable"]
    /\ UNCHANGED <<gitKey, environment, keyVars, linkVars>>

NoIdentityLeft ==
    /\ probing.at = "probe" /\ probing.left = {}
    /\ probing' = [at |-> "answered", outcome |-> "unavailable"]
    /\ UNCHANGED <<gitKey, environment, keyVars, linkVars>>

\* InstallationGitProvider: a token for this repository alone, or none when the
\* App is not installed for its owner.
InstallationCredential(t, installed) ==
    IF HasRepoRef(t) /\ installed THEN "repository token" ELSE "none"

\* getGitProvider: the App if there is one, else the token the owner linked.
GitCredential(o, t, installed) ==
    CASE Tokens = "app" -> InstallationCredential(t, installed)
      [] Tokens # "app" /\ environment.key /\ linkedToken[o] # Stranger -> "user token"
      [] OTHER -> "none"

\* Over https the credential is offered; the host answers as it likes.
ProbeOverHttps(o) ==
    /\ probing = NotProbing
    /\ \E t \in RemoteText, installed \in BOOLEAN,
          answer \in {"refs", "unavailable", "unreachable"} :
          /\ ParseGitRemote(t) = "https"
          /\ \E outcome \in RepositoryProblem(answer) :
                probing' = [at |-> "answered", outcome |-> outcome,
                            with |-> GitCredential(o, t, installed)]
    /\ UNCHANGED <<gitKey, environment, keyVars, linkVars>>

\* The workspace boots and its broker reads the owner's keys again.
ProbeAnswered ==
    /\ probing.at = "answered"
    /\ probing' = NotProbing
    /\ UNCHANGED <<gitKey, environment, keyVars, linkVars>>

SshKeysNext ==
    \/ \E o \in KeyOwner : \/ RegisterKey(o)
                        \/ \E q \in KeyRequest : ReadKeyForRemoval(q, o)
                        \/ SshAuthorize(o)
    \/ \E q \in KeyRequest : RemoveKey(q)
    \/ IndexCatchesUp

LinkNext ==
    \/ \E o \in KeyOwner : BrowserSignsIn(o) \/ SignInStoresToken(o)
    \/ StartLink
    \/ LinkExpires
    \/ LinkCallback
    \/ ExchangeGithubConnectCode
    \/ StoreLinkedToken

ProbeNext ==
    \/ \E o \in KeyOwner : \/ \E g \in GitKey : GenerateGitKey(o, g) \/ RemoveGitKey(o, g)
                        \/ StartProbe(o) \/ ProbeOverHttps(o)
    \/ \E g \in GitKey : TryIdentity(g)
    \/ NoIdentityLeft
    \/ RefuseRemote
    \/ ProbeAnswered

\* None writes what another writes, and only the probe reads of the others (the
\* linked tokens).
GitAccessNext == SshKeysNext \/ LinkNext \/ ProbeNext

GitAccessSpec == GitAccessInit /\ [][GitAccessNext]_gitVars

-----------------------------------------------------------------------------
(* Properties *)

\* A token is stored for the person who consented to it, whoever signed in to
\* the browser while GitHub asked for consent (github/connect/callback).
LinksOwnAccount == \A o \in KeyOwner : linkedToken[o] \in {Stranger, o}

\* A public key identifies exactly one user (ssh-key-service.ts).
KeyUnique == \A r, s \in keyRow : r.owner = s.owner
=============================================================================
