---------------------------- MODULE AccessProofs ----------------------------
(***************************************************************************)
(* Who may do what, for every set of people, requests, sessions and keys:  *)
(* an account keeps its owner id, a linked GitHub token is its owner's, a  *)
(* revoked sign-in stays revoked, and a workspace changes only on behalf   *)
(* of somebody who may change it.  Each component has an invariant of its  *)
(* own, which says what a request that is under way still knows.           *)
(***************************************************************************)
EXTENDS Accounts, GitAccess, ApiAccess, AuthSessions, FiniteSetTheorems, TLAPS

-----------------------------------------------------------------------------
(* Accounts: whoever signed in did so with the owner id the account has now. *)

Account1(o, p) == [owner |-> o, password |-> p]

AccountsInv ==
    \/ account = NoAccount /\ signedIn = {}
    \/ \E o, p : account = Account1(o, p) /\ signedIn \subseteq {o}

LEMMA AccountExists ==
    ASSUME NEW o, NEW p
    PROVE  Account1(o, p) # NoAccount /\ Account1(o, p).owner = o
<1>1. "password" \in DOMAIN Account1(o, p) /\ "password" \notin DOMAIN NoAccount
  BY DEF Account1, NoAccount
<1> QED
  BY <1>1 DEF Account1

\* A create is refused once there is an account, and the password may be changed.
LEMMA AccountCreated ==
    ASSUME AccountsInv, NEW owner, NEW password, CreateAccount(owner, password),
           signedIn' = signedIn
    PROVE  AccountsInv'
<1>1. CASE account = NoAccount
  <2>1. account' = Account1(owner, password) /\ signedIn = {}
    BY <1>1, AccountExists DEF CreateAccount, Account1, AccountsInv
  <2> QED
    BY <2>1 DEF AccountsInv
<1>2. CASE account # NoAccount
  BY <1>2 DEF CreateAccount, AccountsInv
<1> QED
  BY <1>1, <1>2

LEMMA PasswordChanged ==
    ASSUME AccountsInv, NEW v, account' = [account EXCEPT !.password = v], signedIn' = signedIn
    PROVE  AccountsInv'
<1>1. CASE account = NoAccount /\ signedIn = {}
  <2>1. account' = NoAccount
    BY <1>1 DEF NoAccount
  <2> QED
    BY <1>1, <2>1 DEF AccountsInv
<1>2. ASSUME NEW o, NEW p, account = Account1(o, p), signedIn \subseteq {o}
      PROVE  AccountsInv'
  <2>1. account' = Account1(o, v)
    BY <1>2 DEF Account1
  <2> QED
    BY <1>2, <2>1 DEF AccountsInv
<1> QED
  BY <1>1, <1>2 DEF AccountsInv

LEMMA AccountsStep == AccountsInv /\ [AccountsNext]_accountVars => AccountsInv'
<1> SUFFICES ASSUME AccountsInv, [AccountsNext]_accountVars
             PROVE  AccountsInv'
  OBVIOUS
<1>1. CASE account' = account /\ signedIn' = signedIn
  BY <1>1 DEF AccountsInv
<1>2. ASSUME NEW a \in Administrator, CreateLocalAccount(a)
      PROVE  AccountsInv'
  BY <1>2, AccountCreated DEF CreateLocalAccount
<1>3. ASSUME NEW v \in Visitor, WriteAccount(v)
      PROVE  AccountsInv'
  BY <1>3, AccountCreated, PasswordChanged DEF WriteAccount
<1>4. CASE LocalAccountSignIn
  BY <1>4, AccountExists DEF LocalAccountSignIn, AccountsInv
<1>5. ASSUME NEW a \in Administrator,
             \/ ReadAccountForInvitation(a) \/ OwnerIdForInvitation(a)
             \/ \E l \in Link : CreateDeveloperInvitation(a, l)
             \/ SendInvitationEmail(a) \/ ReadAccountForCreate(a)
      PROVE  account' = account /\ signedIn' = signedIn
  BY <1>5 DEF ReadAccountForInvitation, OwnerIdForInvitation, CreateDeveloperInvitation,
     SendInvitationEmail, ReadAccountForCreate
<1>6. ASSUME NEW v \in Visitor,
             (\E l \in Link : OpenInvitation(v, l)) \/ ReadAccountForAccept(v) \/ MarkAccepted(v)
      PROVE  account' = account /\ signedIn' = signedIn
  BY <1>6 DEF OpenInvitation, ReadAccountForAccept, MarkAccepted
<1>7. ASSUME DayPasses \/ Abandon \/ UNCHANGED accountVars
      PROVE  account' = account /\ signedIn' = signedIn
  BY <1>7 DEF DayPasses, Abandon, accountVars
<1> QED
  BY <1>1, <1>2, <1>3, <1>4, <1>5, <1>6, <1>7 DEF AccountsNext

\* An address is signed in as one owner id for ever, although no read of the account
\* (acceptDeveloperInvitation, createDeveloperInvitation, the users page) is
\* transactional with the write that follows it.
THEOREM OwnerIdIsKept == AccountsSpec => []OneOwnerId
<1>1. AccountsInit => AccountsInv
  BY DEF AccountsInit, AccountsInv
<1>2. AccountsInv => OneOwnerId
  <2>1. ASSUME NEW o, signedIn \subseteq {o}
        PROVE  OneOwnerId
    <3>1. signedIn = {} \/ signedIn = {o}
      BY <2>1
    <3>2. Cardinality({}) = 0 /\ Cardinality({o}) = 1
      BY FS_EmptySet, FS_Singleton
    <3> QED
      BY <3>1, <3>2 DEF OneOwnerId
  <2> QED
    BY <2>1 DEF AccountsInv
<1> QED
  BY <1>1, <1>2, AccountsStep, PTL DEF AccountsSpec

-----------------------------------------------------------------------------
(* GitAccess: a link under way was started by the person it is for. *)

Links == [by : KeyOwner, for : KeyOwner, exchanged : BOOLEAN]

LinkInv ==
    /\ browser \in KeyOwner \cup {Stranger}
    /\ linkedToken \in [KeyOwner -> KeyOwner \cup {Stranger}]
    /\ linking = NotLinking \/ (linking \in Links /\ linking.by = linking.for)
    /\ LinksOwnAccount

LEMMA LinkStep == LinkInv /\ [GitAccessNext]_gitVars => LinkInv'
<1> SUFFICES ASSUME LinkInv, [GitAccessNext]_gitVars
             PROVE  LinkInv'
  OBVIOUS
<1>0. NotLinking \notin Links
  BY DEF NotLinking, Links
<1>1. CASE UNCHANGED linkVars
  BY <1>1 DEF LinkInv, linkVars, LinksOwnAccount
<1>2. ASSUME NEW o \in KeyOwner, BrowserSignsIn(o)
      PROVE  LinkInv'
  BY <1>2 DEF BrowserSignsIn, LinkInv, LinksOwnAccount
<1>3. ASSUME NEW o \in KeyOwner, SignInStoresToken(o)
      PROVE  LinkInv'
  BY <1>3 DEF SignInStoresToken, LinkInv, LinksOwnAccount
<1>4. CASE StartLink \/ LinkExpires
  BY <1>4 DEF StartLink, LinkExpires, LinkInv, LinksOwnAccount
<1>5. CASE LinkCallback
  <2>1. linking' \in Links /\ linking'.by = linking'.for
    BY <1>5 DEF LinkCallback, StateAccepted, LinkInv, Links
  <2> QED
    BY <1>5, <2>1 DEF LinkCallback, LinkInv, LinksOwnAccount
<1>6. CASE ExchangeGithubConnectCode
  <2>1. linking \in Links /\ linking.by = linking.for
    BY <1>6 DEF ExchangeGithubConnectCode, LinkInv
  <2>2. linking' = NotLinking \/ (linking' \in Links /\ linking'.by = linking'.for)
    BY <1>6, <2>1 DEF ExchangeGithubConnectCode, Links
  <2> QED
    BY <1>6, <2>2 DEF ExchangeGithubConnectCode, LinkInv, LinksOwnAccount
<1>7. CASE StoreLinkedToken
  <2>1. linking \in Links /\ linking.by = linking.for
    BY <1>7 DEF StoreLinkedToken, LinkInv
  <2> QED
    BY <1>7, <2>1 DEF StoreLinkedToken, LinkInv, LinksOwnAccount, Links
<1>8. ASSUME SshKeysNext \/ ProbeNext \/ UNCHANGED gitVars
      PROVE  UNCHANGED linkVars
  BY <1>8 DEF SshKeysNext, ProbeNext, gitVars, linkVars, RegisterKey, ReadKeyForRemoval,
     SshAuthorize, RemoveKey, IndexCatchesUp, GenerateGitKey, RemoveGitKey, StartProbe,
     ProbeOverHttps, TryIdentity, NoIdentityLeft, RefuseRemote, ProbeAnswered
<1> QED
  BY <1>1, <1>2, <1>3, <1>4, <1>5, <1>6, <1>7, <1>8 DEF GitAccessNext, LinkNext

\* The token stored for a person is one he consented to, whoever signs in to the
\* browser between the start of the link, GitHub's callback and the exchange of its
\* code (github/connect/callback).
THEOREM LinksAreOwn == GitAccessSpec => []LinksOwnAccount
<1>1. GitAccessInit => LinkInv
  BY DEF GitAccessInit, LinkInv, LinksOwnAccount
<1>2. LinkInv => LinksOwnAccount
  BY DEF LinkInv
<1> QED
  BY <1>1, <1>2, LinkStep, PTL DEF GitAccessSpec

-----------------------------------------------------------------------------
(* AuthSessions: a session is created once, so nothing makes a row live again. *)

AuthRows == [state : {"absent", "live", "revoked", "deleted"}, sid : Sid \cup {NoSid},
             expires : Int]

AuthInv ==
    /\ clock \in Int
    /\ row \in [Session -> AuthRows]
    /\ login \in [Session -> Sid \cup {NoSid}]
    /\ refresh \subseteq [session : Session, target : {"row", "sid", "sub"}, expires : Int]
    /\ \A s \in Session : login[s] # NoSid => row[s].state = "absent"

\* No write turns a row live except the one that creates it.
StaysDead(s) == row'[s].state = "live" => row[s].state \in {"absent", "live"}

LEMMA RevokedRow ==
    ASSUME AuthInv, NEW s \in Session
    PROVE  /\ Revoked(s) \in AuthRows
           /\ Revoked(s).state = "live" => row[s].state = "live"
           /\ row[s].state = "absent" => Revoked(s).state = "absent"
BY DEF AuthInv, Revoked, Stored, AuthRows

\* What rewrites the rows a session at a time keeps the invariant and the dead dead.
LEMMA RowsRewritten ==
    ASSUME AuthInv, row' \in [Session -> AuthRows],
           \A s \in Session : /\ row[s].state = "absent" => row'[s].state = "absent"
                              /\ row'[s].state = "live" => row[s].state = "live",
           clock' = clock, login' = login, refresh' \subseteq refresh
    PROVE  AuthInv' /\ \A s \in Session : StaysDead(s)
BY DEF AuthInv, StaysDead

LEMMA AuthStep ==
    ASSUME AuthInv, [AuthNext]_authVars
    PROVE  AuthInv' /\ \A s \in Session : StaysDead(s)
<1>0. MaxAge \in Int
  BY AuthAssumption
<1>1. ASSUME NEW s \in Session, NEW i \in Sid, SignIn(s, i)
      PROVE  AuthInv' /\ \A x \in Session : StaysDead(x)
  BY <1>1 DEF SignIn, AuthInv, StaysDead
<1>2. ASSUME NEW s \in Session, CreateAuthSession(s)
      PROVE  AuthInv' /\ \A x \in Session : StaysDead(x)
  <2>1. row[s].state = "absent" /\ login[s] \in Sid \cup {NoSid} /\ clock + MaxAge \in Int
    BY <1>0, <1>2 DEF CreateAuthSession, AuthInv
  <2>2. PICK r \in AuthRows : r.state = "live" /\ row' = [row EXCEPT ![s] = r]
    BY <1>2, <2>1 DEF CreateAuthSession, AuthRows
  <2>3. /\ row' \in [Session -> AuthRows] /\ row'[s].state = "live"
        /\ \A x \in Session \ {s} : row'[x] = row[x]
    BY <2>2 DEF AuthInv
  <2>4. /\ login' \in [Session -> Sid \cup {NoSid}] /\ login'[s] = NoSid
        /\ \A x \in Session \ {s} : login'[x] = login[x]
    BY <1>2 DEF CreateAuthSession, AuthInv
  <2>5. clock' = clock /\ refresh' = refresh
    BY <1>2 DEF CreateAuthSession
  <2> QED
    BY <2>1, <2>3, <2>4, <2>5 DEF AuthInv, StaysDead
<1>3. ASSUME NEW s \in Session, ValidateAuthSessionToken(s)
      PROVE  AuthInv' /\ \A x \in Session : StaysDead(x)
  <2>1. refresh' \subseteq [session : Session, target : {"row", "sid", "sub"}, expires : Int]
    BY <1>0, <1>3 DEF ValidateAuthSessionToken, AuthInv
  <2> QED
    BY <1>3, <2>1 DEF ValidateAuthSessionToken, AuthInv, StaysDead
<1>4. ASSUME NEW s \in Session, RevokeAuthSession(s)
      PROVE  AuthInv' /\ \A x \in Session : StaysDead(x)
  <2>1. PICK r \in AuthRows :
          /\ row' = [row EXCEPT ![s] = r]
          /\ r.state = "live" => row[s].state = "live"
          /\ row[s].state = "absent" => r.state = "absent"
    BY <1>4, RevokedRow DEF RevokeAuthSession
  <2> QED
    BY <1>4, <2>1, RowsRewritten DEF RevokeAuthSession, AuthInv
<1>5. ASSUME NEW s \in Session, DeleteExpired(s)
      PROVE  AuthInv' /\ \A x \in Session : StaysDead(x)
  <2>1. CASE row' = row
    BY <1>5, <2>1, RowsRewritten DEF DeleteExpired, AuthInv
  <2>2. CASE Stored(s) /\ row' = [row EXCEPT ![s].state = "deleted"]
    <3>1. PICK r \in AuthRows : r.state = "deleted" /\ row' = [row EXCEPT ![s] = r]
      BY <2>2 DEF AuthInv, AuthRows
    <3> QED
      BY <1>5, <2>2, <3>1, RowsRewritten DEF DeleteExpired, AuthInv, Stored
  <2> QED
    BY <1>5, <2>1, <2>2 DEF DeleteExpired
<1>6. ASSUME NEW w \in refresh, RefreshLands(w)
      PROVE  AuthInv' /\ \A x \in Session : StaysDead(x)
  <2>1. w.session \in Session /\ w.expires \in Int /\ clock' = clock /\ login' = login
        /\ refresh' \subseteq refresh
    BY <1>6 DEF AuthInv, RefreshLands
  <2>2. CASE row' = row
    BY <2>1, <2>2, RowsRewritten DEF AuthInv
  <2>3. CASE row' = [row EXCEPT ![w.session] = PatchRefreshed(w)]
    <3>1. PatchRefreshed(w) \in AuthRows /\ PatchRefreshed(w).state = row[w.session].state
      BY <2>1 DEF PatchRefreshed, AuthInv, AuthRows
    <3> QED
      BY <2>1, <2>3, <3>1, RowsRewritten DEF AuthInv
  <2> QED
    BY <1>6, <2>2, <2>3 DEF RefreshLands
<1>7. ASSUME NEW t \in Token, RevokeCorrelated(t)
      PROVE  AuthInv' /\ \A x \in Session : StaysDead(x)
  <2>1. /\ row' = [s \in Session |-> IF s \in token[t].active THEN Revoked(s) ELSE row[s]]
        /\ clock' = clock /\ login' = login /\ refresh' = refresh
    BY <1>7 DEF RevokeCorrelated
  <2>2. row' \in [Session -> AuthRows]
    BY <2>1, RevokedRow DEF AuthInv
  <2> QED
    BY <2>1, <2>2, RevokedRow, RowsRewritten
<1>8. ASSUME UNCHANGED <<row, login>>, clock' \in Int, refresh' \subseteq refresh
      PROVE  AuthInv' /\ \A x \in Session : StaysDead(x)
  BY <1>8 DEF AuthInv, StaysDead
<1>9. ASSUME NEW w \in refresh, RefreshFails(w)
      PROVE  UNCHANGED <<row, login>> /\ clock' \in Int /\ refresh' \subseteq refresh
  BY <1>9 DEF RefreshFails, AuthInv
<1>10. ASSUME NEW t \in Token, StoreToken(t) \/ LoadCorrelated(t) \/ LogoutFails(t)
       PROVE  UNCHANGED <<row, login>> /\ clock' \in Int /\ refresh' \subseteq refresh
  BY <1>10 DEF StoreToken, LoadCorrelated, LogoutFails, AuthInv
<1>11. ASSUME \/ \E S \in SUBSET Session : FindSessions(S)
              \/ \E i \in Sid : EndProviderSession(i)
              \/ EndAccount \/ Tick \/ UNCHANGED authVars
       PROVE  UNCHANGED <<row, login>> /\ clock' \in Int /\ refresh' \subseteq refresh
  BY <1>11 DEF FindSessions, EndProviderSession, EndAccount, Tick, authVars, AuthInv
<1> QED
  BY <1>1, <1>2, <1>3, <1>4, <1>5, <1>6, <1>7, <1>8, <1>9, <1>10, <1>11 DEF AuthNext

\* A session that was revoked, or whose row expired away, is never accepted again,
\* although validations that began before (validateAuthSessionToken's detached
\* refreshes) still write to its row.
THEOREM RevocationIsFinal == AuthSpec => RevocationFinal
<1>1. AuthInit => AuthInv
  BY DEF AuthInit, AuthInv, AuthRows
<1>2. AuthInv /\ [AuthNext]_authVars => AuthInv'
  BY AuthStep
<1>3. AuthInv /\ [AuthNext]_authVars =>
        [\A s \in Session : row[s].state \in {"revoked", "deleted"} => row'[s].state # "live"]_row
  BY AuthStep DEF StaysDead
<1> QED
  BY <1>1, <1>2, <1>3, PTL DEF AuthSpec, RevocationFinal

-----------------------------------------------------------------------------
(* ApiAccess: what authenticated a request, and whose the workspace was when it *)
(* was loaded, still hold when the service is called.                           *)

Principals == [user : Person \cup {"nobody"}, role : Role]

Effects == {"none", "secrets", "start", "stop", "cancelStop", "share", "unshare", "touch",
            "delete", "undelete", "purge"}

WsRows == [owner : Person \cup {"nobody"},
           state : {"absent", "live", "idle", "stopping", "stopped", "deleting", "terminated",
                    "purged"},
           shared : BOOLEAN]

Requests == [at : {"load", "run"}, effect : Effects, ws : Workspace, principal : Principals,
             real : Principals, machine : BOOLEAN]

Creates == [at : {"create"}, ws : Workspace, principal : Principals, real : Principals]

\* The persona a principal carries is at most the role behind it.
Downgraded(p, real) == p.user = real.user /\ (p.role # "viewer" => real.role # "viewer")
                       /\ (p.role = "admin" => real.role = "admin")

\* A request that passed authentication, before and after the workspace was loaded.
Entitled(it) ==
    /\ it.machine => it.effect \in {"none", "secrets", "start", "touch"}
    /\ ~it.machine /\ it.effect # "none" => it.real.role # "viewer"
    /\ it.at = "load" /\ ~it.machine => Downgraded(it.principal, it.real)
    /\ it.at = "run" =>
         /\ it.effect \notin {"none", "secrets"}
         /\ wsRow[it.ws].state # "absent"
         /\ \/ it.machine \/ it.real.role = "admin"
            \/ wsRow[it.ws].state = "purged" \/ wsRow[it.ws].owner = it.real.user

ApiInv ==
    /\ seat \in Principals
    /\ wsRow \in [Workspace -> WsRows]
    /\ \A w \in Workspace : /\ wsRow[w].state = "absent" => wsRow[w] = NoRow
                            /\ wsRow[w].state = "purged" => wsRow[w] = Purged
    /\ DOMAIN call = Call
    /\ \A c \in Call : \/ call[c] = Free
                       \/ call[c] \in Creates
                       \/ call[c] \in Requests /\ Entitled(call[c])

-----------------------------------------------------------------------------
LEMMA PersonaDowngrades ==
    ASSUME ApiInv
    PROVE  WithPersona \in Principals /\ Downgraded(WithPersona, seat)
<1>1. PICK role : role = EffectiveRole(seat.role, cookie)
  OBVIOUS
<1>2. seat.role \in Role /\ seat \in Principals
  BY DEF ApiInv, Principals
<1>3. /\ role \in Role /\ (role # "viewer" => seat.role # "viewer")
      /\ role = "admin" => seat.role = "admin"
  BY <1>1, <1>2 DEF EffectiveRole, Role, Rank
<1>4. WithPersona \in Principals /\ WithPersona.user = seat.user /\ WithPersona.role = role
  BY <1>1, <1>2, <1>3 DEF WithPersona, Principals
<1> QED
  BY <1>3, <1>4 DEF Downgraded

\* A route that changes the record needs more than a viewer, a machine's changes little.
LEMMA RouteNeeds ==
    ASSUME NEW r \in Routes
    PROVE  /\ r.effect \in Effects
           /\ r.people = "owned" /\ r.effect # "none" => r.action # "read"
           /\ r.people = "admin" => r.effect = "none"
           /\ r.machine # {} => r.effect \in {"none", "secrets", "start", "touch"}
BY DEF Routes, Route, Effects, StartRoute, StopRoute, CancelStopRoute, RetryRoute,
   SnapshotRoute, RestoreRoute, PatchRoute, UndeleteRoute, ShareRoute, DeleteRoute,
   PurgeRoute, LogsRoute, MonitoringRoute, SnapshotsRoute, GetRoute, ConnectRoute,
   ConnectInfoRoute, HeartbeatRoute, SecurityEventRoute, BrokerRoute, SshAuthorizeRoute,
   AdminRoute

\* What may become of a row that was found: its owner stays until it is purged.
LEMMA EffectKeepsOwner ==
    ASSUME NEW found \in WsRows, found.state \notin {"absent", "purged"}, NEW effect \in Effects
    PROVE  /\ Effect(found, effect) \in WsRows
           /\ Effect(found, effect).state # "absent"
           /\ \/ Effect(found, effect) = Purged
              \/ /\ Effect(found, effect).state # "purged"
                 /\ Effect(found, effect).owner = found.owner
<1>1. Purged \in WsRows /\ Purged.state = "purged"
  BY DEF Purged, NoRow, WsRows
<1>2. ASSUME NEW state \in {"live", "stopping", "deleting", "stopped"}
      PROVE  LET next == [found EXCEPT !.state = state]
             IN  next \in WsRows /\ next.state = state /\ next.owner = found.owner
  BY <1>2 DEF WsRows
<1>3. ASSUME NEW shared \in BOOLEAN
      PROVE  LET next == [found EXCEPT !.shared = shared]
             IN  next \in WsRows /\ next.state = found.state /\ next.owner = found.owner
  BY <1>3 DEF WsRows
<1>4. LET next == [found EXCEPT !.state = "deleting", !.shared = FALSE]
      IN  next \in WsRows /\ next.state = "deleting" /\ next.owner = found.owner
  BY DEF WsRows
<1>5. \/ Effect(found, effect) \in {found, Purged}
      \/ \E state \in {"live", "stopping", "deleting", "stopped"} :
            Effect(found, effect) = [found EXCEPT !.state = state]
      \/ \E shared \in BOOLEAN : Effect(found, effect) = [found EXCEPT !.shared = shared]
      \/ Effect(found, effect) = [found EXCEPT !.state = "deleting", !.shared = FALSE]
  BY DEF Effect
<1> QED
  BY <1>1, <1>2, <1>3, <1>4, <1>5

LEMMA FoundState ==
    ASSUME ApiInv, NEW w \in Workspace
    PROVE  wsRow[w] \in WsRows /\ (Found(w) <=> wsRow[w].state \notin {"absent", "purged"})
<1>1. NoRow.state = "absent" /\ Purged.state = "purged"
  BY DEF NoRow, Purged
<1> QED
  BY <1>1 DEF ApiInv, Found

\* The rows change without disturbing a request: an owner stays, or the row is purged.
LEMMA RowsChange ==
    ASSUME ApiInv, seat' = seat, wsRow' \in [Workspace -> WsRows],
           \A w \in Workspace :
               \/ wsRow'[w] = wsRow[w]
               \/ wsRow[w].state = "absent" /\ wsRow'[w].state = "live"
               \/ wsRow'[w] = Purged
               \/ /\ wsRow[w].state # "purged" /\ wsRow'[w].state \notin {"absent", "purged"}
                  /\ wsRow'[w].owner = wsRow[w].owner,
           DOMAIN call' = Call,
           \A c \in Call : call'[c] = call[c] \/ call'[c] = Free
    PROVE  ApiInv'
<1>0. NoRow.state = "absent" /\ Purged.state = "purged"
  BY DEF NoRow, Purged
<1>1. \A w \in Workspace : /\ wsRow'[w].state = "absent" => wsRow'[w] = NoRow
                           /\ wsRow'[w].state = "purged" => wsRow'[w] = Purged
  BY <1>0 DEF ApiInv
<1>2. ASSUME NEW c \in Call, call[c] \in Requests, Entitled(call[c]), call'[c] = call[c]
      PROVE  Entitled(call[c])'
  BY <1>0, <1>2 DEF Entitled, ApiInv, Requests
<1>3. ASSUME NEW c \in Call
      PROVE  (call[c] = Free \/ call[c] \in Creates \/ (call[c] \in Requests /\ Entitled(call[c])))'
  BY <1>2 DEF ApiInv
<1> QED
  BY <1>1, <1>3 DEF ApiInv

\* One request moves on and no row changes.
LEMMA CallMovesOn ==
    ASSUME ApiInv, NEW c \in Call, NEW it, Step(c, it), wsRow' = wsRow,
           it = Free \/ it \in Creates \/ (it \in Requests /\ Entitled(it))
    PROVE  ApiInv'
<1>1. /\ DOMAIN call' = Call /\ call'[c] = it /\ \A d \in Call \ {c} : call'[d] = call[d]
      /\ seat' = seat
  BY DEF Step, ApiInv
<1> QED
  BY <1>1 DEF ApiInv, Entitled

-----------------------------------------------------------------------------
LEMMA SendKeeps ==
    ASSUME ApiInv, NEW c \in Call, NEW cred \in Credential, NEW r \in Routes,
           NEW w \in Workspace, Send(c, cred, r, w)
    PROVE  ApiInv'
<1>0. Nobody \in Principals /\ seat \in Principals
  BY DEF Nobody, Principals, Role, ApiInv
<1>1. ASSUME MachineValid(cred, r, w), NEW it,
             it = [at |-> "load", effect |-> r.effect, ws |-> w, principal |-> Nobody,
                   real |-> Nobody, machine |-> TRUE],
             Step(c, it)
      PROVE  ApiInv'
  <2>1. it \in Requests
    BY <1>0, <1>1, RouteNeeds DEF Requests
  <2>2. r.effect \in {"none", "secrets", "start", "touch"}
    BY <1>1, RouteNeeds DEF MachineValid
  <2>3. Entitled(it)
    BY <1>1, <2>2 DEF Entitled
  <2> QED
    BY <1>1, <2>1, <2>3, CallMovesOn DEF Send
<1>2. ASSUME SessionValid(cred, r), NEW it,
             it = [at |-> "load", effect |-> r.effect, ws |-> w, principal |-> WithPersona,
                   real |-> seat, machine |-> FALSE],
             Step(c, it)
      PROVE  ApiInv'
  <2>1. it \in Requests
    BY <1>0, <1>2, RouteNeeds, PersonaDowngrades DEF Requests
  <2>2. r.effect # "none" => seat.role # "viewer"
    BY <1>2, RouteNeeds, PersonaDowngrades DEF SessionValid, Can, Downgraded
  <2>3. Entitled(it)
    BY <1>2, <2>2, PersonaDowngrades DEF Entitled
  <2> QED
    BY <1>2, <2>1, <2>3, CallMovesOn DEF Send
<1> QED
  BY <1>1, <1>2 DEF Send

LEMMA LoadKeeps ==
    ASSUME ApiInv, NEW c \in Call, LoadOwnedWorkspace(c)
    PROVE  ApiInv'
<1>1. call[c].at = "load" /\ wsRow' = wsRow
  BY DEF LoadOwnedWorkspace
<1>2. call[c] \in Requests /\ Entitled(call[c])
  BY <1>1 DEF ApiInv, Free, Creates
<1>3. /\ Found(call[c].ws)
      /\ call[c].machine \/ OwnsOrAdmin(call[c].principal, wsRow[call[c].ws].owner)
  BY DEF LoadOwnedWorkspace
<1>4. CASE call[c].effect \in {"none", "secrets"}
  BY <1>1, <1>4, CallMovesOn DEF LoadOwnedWorkspace
<1>5. CASE call[c].effect \notin {"none", "secrets"}
  <2>1. PICK it : it = [call[c] EXCEPT !.at = "run", !.principal = Nobody] /\ Step(c, it)
    BY <1>5 DEF LoadOwnedWorkspace
  <2>2. Nobody \in Principals
    BY DEF Nobody, Principals, Role
  <2>3. /\ it \in Requests /\ it.at = "run" /\ it.effect = call[c].effect /\ it.ws = call[c].ws
        /\ it.real = call[c].real /\ it.machine = call[c].machine
    BY <1>2, <2>1, <2>2 DEF Requests
  <2>4. wsRow[it.ws].state # "absent"
    BY <1>3, <2>3, FoundState DEF Requests
  <2>5. it.machine \/ it.real.role = "admin" \/ wsRow[it.ws].owner = it.real.user
    BY <1>1, <1>2, <1>3, <2>3 DEF Entitled, Downgraded, OwnsOrAdmin
  <2>6. Entitled(it)
    BY <1>2, <1>5, <2>3, <2>4, <2>5 DEF Entitled
  <2> QED
    BY <1>1, <2>1, <2>3, <2>6, CallMovesOn
<1> QED
  BY <1>4, <1>5

LEMMA RunKeeps ==
    ASSUME ApiInv, NEW c \in Call, RunLifecycleAction(c)
    PROVE  ApiInv'
<1>1. call[c].at = "run"
  BY DEF RunLifecycleAction
<1>2. call[c] \in Requests
  BY <1>1 DEF ApiInv, Free, Creates
<1>3. PICK w \in Workspace, effect \in Effects : w = call[c].ws /\ effect = call[c].effect
  BY <1>2 DEF Requests
<1>4. Found(w) /\ wsRow' = [wsRow EXCEPT ![w] = Effect(wsRow[w], effect)] /\ Step(c, Free)
  BY <1>3 DEF RunLifecycleAction
<1>5. PICK next \in WsRows :
        /\ next = Effect(wsRow[w], effect) /\ next.state # "absent"
        /\ next = Purged \/ (next.state # "purged" /\ next.owner = wsRow[w].owner)
  BY <1>4, FoundState, EffectKeepsOwner
<1>6. /\ wsRow' \in [Workspace -> WsRows] /\ wsRow'[w] = next
      /\ \A x \in Workspace \ {w} : wsRow'[x] = wsRow[x]
  BY <1>4, <1>5 DEF ApiInv
<1>7. /\ DOMAIN call' = Call /\ seat' = seat
      /\ \A d \in Call : call'[d] = call[d] \/ call'[d] = Free
  BY <1>4 DEF Step, ApiInv
<1> QED
  BY <1>4, <1>5, <1>6, <1>7, FoundState, RowsChange

LEMMA ReserveKeeps ==
    ASSUME ApiInv, NEW c \in Call, ReserveWorkspace(c)
    PROVE  ApiInv'
<1>1. call[c].at = "create"
  BY DEF ReserveWorkspace
<1>2. call[c] \in Creates
  BY <1>1 DEF ApiInv, Free, Requests
<1>3. PICK w \in Workspace, u \in Person \cup {"nobody"} :
        w = call[c].ws /\ u = call[c].principal.user
  BY <1>2 DEF Creates, Principals
<1>4. wsRow[w] = NoRow /\ Step(c, Free)
      /\ wsRow' = [wsRow EXCEPT ![w] = [NoRow EXCEPT !.owner = u, !.state = "live"]]
  BY <1>3 DEF ReserveWorkspace
<1>5. PICK next \in WsRows : /\ next = [NoRow EXCEPT !.owner = u, !.state = "live"]
                             /\ next.state = "live" /\ NoRow.state = "absent"
  <2>1. NoRow \in WsRows /\ NoRow.state = "absent"
    BY DEF WsRows, NoRow
  <2>2. ASSUME NEW n \in WsRows
        PROVE  LET next == [n EXCEPT !.owner = u, !.state = "live"]
               IN  next \in WsRows /\ next.state = "live"
    BY DEF WsRows
  <2> QED
    BY <2>1, <2>2
<1>6. /\ wsRow' \in [Workspace -> WsRows] /\ wsRow'[w] = next
      /\ \A x \in Workspace \ {w} : wsRow'[x] = wsRow[x]
  BY <1>4, <1>5 DEF ApiInv
<1>7. /\ DOMAIN call' = Call /\ seat' = seat
      /\ \A d \in Call : call'[d] = call[d] \/ call'[d] = Free
  BY <1>4 DEF Step, ApiInv
<1> QED
  BY <1>4, <1>5, <1>6, <1>7, RowsChange

LEMMA SweepKeeps ==
    ASSUME ApiInv, NEW w \in Workspace, Sweep(w)
    PROVE  ApiInv'
<1>1. PICK move \in SweepsTo :
        /\ wsRow[w].state = move[1]
        /\ wsRow' = [wsRow EXCEPT ![w].state = move[2],
                                  ![w].shared = @ /\ move[2] = "idle"]
  BY DEF Sweep
<1>2. move[1] \notin {"absent", "purged"} /\ move[2] \in {"terminated", "stopped", "idle"}
  BY DEF SweepsTo
<1>3. PICK next \in WsRows : /\ wsRow' = [wsRow EXCEPT ![w] = next]
                             /\ next.state = move[2] /\ next.owner = wsRow[w].owner
  <2>1. wsRow[w] \in WsRows
    BY DEF ApiInv
  <2>2. PICK next : next = [wsRow[w] EXCEPT !.state = move[2],
                                           !.shared = @ /\ move[2] = "idle"]
    OBVIOUS
  <2>3. next \in WsRows /\ next.state = move[2] /\ next.owner = wsRow[w].owner
    BY <1>2, <2>1, <2>2 DEF WsRows
  <2>4. wsRow' = [wsRow EXCEPT ![w] = next]
    BY <1>1, <2>2
  <2> QED
    BY <2>3, <2>4
<1>4. /\ wsRow' \in [Workspace -> WsRows] /\ wsRow'[w] = next
      /\ \A x \in Workspace \ {w} : wsRow'[x] = wsRow[x]
  BY <1>3 DEF ApiInv
<1> QED
  BY <1>1, <1>2, <1>3, <1>4, RowsChange DEF Sweep, ApiInv

LEMMA ApiStep == ApiInv /\ [ApiNext]_apiVars => ApiInv'
<1> SUFFICES ASSUME ApiInv, [ApiNext]_apiVars
             PROVE  ApiInv'
  OBVIOUS
<1>1. ASSUME seat' \in Principals, wsRow' = wsRow, call' = call
      PROVE  ApiInv'
  BY <1>1 DEF ApiInv, Entitled
<1>2. ASSUME NEW u \in Person, NEW role \in Role, SignInAs(u, role)
      PROVE  ApiInv'
  <2>1. seat' \in Principals
    BY <1>2 DEF SignInAs, Principals
  <2> QED
    BY <1>1, <1>2, <2>1 DEF SignInAs
<1>3. ASSUME \/ SignOut \/ ResetCookies \/ UNCHANGED apiVars
             \/ \E requested \in Role : SetPersona(requested)
      PROVE  ApiInv'
  <2>1. Nobody \in Principals
    BY DEF Nobody, Principals, Role
  <2>2. seat' \in Principals /\ wsRow' = wsRow /\ call' = call
    BY <1>3, <2>1 DEF SignOut, ResetCookies, SetPersona, apiVars, ApiInv
  <2> QED
    BY <1>1, <2>2
<1>4. ASSUME NEW c \in Call, NEW w \in Workspace, SendCreate(c, w)
      PROVE  ApiInv'
  <2>1. [at |-> "create", ws |-> w, principal |-> WithPersona, real |-> seat] \in Creates
    BY PersonaDowngrades DEF Creates, ApiInv
  <2> QED
    BY <1>4, <2>1, CallMovesOn DEF SendCreate
<1>5. ASSUME NEW c \in Call, Refused(c)
      PROVE  ApiInv'
  BY <1>5, CallMovesOn DEF Refused
<1> QED
  BY <1>2, <1>3, <1>4, <1>5, SendKeeps, LoadKeeps, RunKeeps, ReserveKeeps, SweepKeeps
     DEF ApiNext

\* A row that was found changes by a sweep or by a request that is entitled to it.
LEMMA ChangeIsAuthorized ==
    ASSUME ApiInv, [ApiNext]_apiVars, NEW w \in Workspace, Found(w), wsRow'[w] # wsRow[w]
    PROVE  \/ Sweep(w)
           \/ \E c \in Call : /\ call[c].at = "run" /\ call[c].ws = w
                              /\ ByOwner(call[c], w) \/ ByAdmin(call[c]) \/ ByMachine(call[c])
<1>1. \/ \E c \in Call : ReserveWorkspace(c) \/ RunLifecycleAction(c)
      \/ \E x \in Workspace : Sweep(x)
  BY DEF ApiNext, SignInAs, SignOut, SetPersona, ResetCookies, Send, SendCreate, Refused,
     LoadOwnedWorkspace, apiVars
<1>2. ASSUME NEW x \in Workspace, Sweep(x)
      PROVE  x = w
  BY <1>2 DEF Sweep, ApiInv
<1>3. ASSUME NEW c \in Call, ReserveWorkspace(c)
      PROVE  FALSE
  <2>1. wsRow' = [wsRow EXCEPT ![call[c].ws] =
                    [NoRow EXCEPT !.owner = call[c].principal.user, !.state = "live"]]
        /\ wsRow[call[c].ws] = NoRow
    BY <1>3 DEF ReserveWorkspace
  <2>2. call[c].ws # w
    BY <2>1 DEF Found
  <2> QED
    BY <2>1, <2>2 DEF ApiInv
<1>4. ASSUME NEW c \in Call, RunLifecycleAction(c)
      PROVE  /\ call[c].at = "run" /\ call[c].ws = w
             /\ ByOwner(call[c], w) \/ ByAdmin(call[c]) \/ ByMachine(call[c])
  <2>1. call[c].at = "run" /\ wsRow' = [wsRow EXCEPT ![call[c].ws] = Effect(@, call[c].effect)]
    BY <1>4 DEF RunLifecycleAction
  <2>2. call[c] \in Requests /\ Entitled(call[c])
    BY <2>1 DEF ApiInv, Free, Creates
  <2>3. call[c].ws = w
    BY <2>1 DEF ApiInv
  <2>4. wsRow[w].state # "purged"
    BY FoundState
  <2> QED
    BY <2>1, <2>2, <2>3, <2>4 DEF Entitled, ByOwner, ByAdmin, ByMachine
<1> QED
  BY <1>1, <1>2, <1>3, <1>4

\* A workspace changes only by the sweeps or on behalf of its owner, an admin, or its
\* own agent or gateway, whatever sign-ins, personas, deletions and other requests come
\* between authentication, loadOwnedWorkspace and the service call.
THEOREM ChangesAreAuthorized == ApiSpec => ChangesAuthorized
<1>1. ApiInit => ApiInv
  <2>1. Nobody \in Principals /\ NoRow \in WsRows /\ NoRow.state = "absent"
    BY DEF Nobody, Principals, Role, NoRow, WsRows
  <2> QED
    BY <2>1 DEF ApiInit, ApiInv
<1>2. ApiInv /\ [ApiNext]_apiVars =>
        [\A w \in Workspace :
           Found(w) /\ wsRow'[w] # wsRow[w] =>
              \/ Sweep(w)
              \/ \E c \in Call :
                   /\ call[c].at = "run" /\ call[c].ws = w
                   /\ ByOwner(call[c], w) \/ ByAdmin(call[c]) \/ ByMachine(call[c])]_apiVars
  BY ChangeIsAuthorized
<1> QED
  BY <1>1, <1>2, ApiStep, PTL DEF ApiSpec, ChangesAuthorized
=============================================================================
