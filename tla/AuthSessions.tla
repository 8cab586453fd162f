---------------------------- MODULE AuthSessions ----------------------------
(***************************************************************************)
(* Server-side sign-in sessions of one account that signs in through       *)
(* Shauth.  A session is a row and two pointers to it, by the provider's   *)
(* session (sid) and by the account (sub); validation rolls their expiry   *)
(* with detached writes; sign-out, the administrator and the provider's    *)
(* back-channel logout tokens revoke.  A token ends one sid or, without    *)
(* one, the account.                                                       *)
(***************************************************************************)
EXTENDS Integers, FiniteSets

CONSTANTS
    Session,    \* ids of EDD sessions
    Sid,        \* the provider's sessions of the account
    MaxAge,     \* SESSION_MAX_AGE_MS in ticks
    MaxClock,   \* bound: ticks
    MaxRefresh, \* bound: refresh writes in flight
    MaxTokens   \* bound: logout tokens the provider sends

ASSUME AuthAssumption == {MaxAge, MaxClock, MaxRefresh, MaxTokens} \subseteq Nat

VARIABLES
    clock,
    idp,       \* [Sid -> is the provider's session still open]
    login,     \* [Session -> the sid of a callback in flight, or NoSid]
    row,       \* [Session -> [state, sid, expires]]: the auth session rows
    pointer,   \* [Session -> [sid, sub]]: expiry of its pointers, Gone if deleted
    refresh,   \* the detached refresh writes in flight
    token,     \* [Sid and Account -> handling of that logout token]
    revoking   \* sessions a sign-out or an administrator is about to revoke

authVars == <<clock, idp, login, row, pointer, refresh, token, revoking>>

NoSid == "no sid"
Account == "account"
Gone == -1
Token == Sid \union {Account}

AuthInit ==
    /\ clock = 0
    /\ idp = [i \in Sid |-> TRUE]
    /\ login = [s \in Session |-> NoSid]
    /\ row = [s \in Session |-> [state |-> "absent", sid |-> NoSid, expires |-> 0]]
    /\ pointer = [s \in Session |-> [sid |-> Gone, sub |-> Gone]]
    /\ refresh = {}
    /\ token = [t \in Token |-> [at |-> "none"]]
    /\ revoking = {}

Stored(s) == row[s].state \in {"live", "revoked"}

-----------------------------------------------------------------------------
(* Sign-in: the jwt callback *)

\* The provider has issued the ID token; its sid names an open session.
SignIn(s, i) ==
    /\ row[s].state = "absent" /\ login[s] = NoSid
    /\ idp[i]
    /\ login' = [login EXCEPT ![s] = i]
    /\ UNCHANGED <<clock, idp, row, pointer, refresh, token, revoking>>

\* One transaction writes the row and both pointers.
CreateAuthSession(s) ==
    /\ login[s] # NoSid
    /\ row' = [row EXCEPT ![s] = [state |-> "live", sid |-> login[s], expires |-> clock + MaxAge]]
    /\ pointer' = [pointer EXCEPT ![s] = [sid |-> clock + MaxAge, sub |-> clock + MaxAge]]
    /\ login' = [login EXCEPT ![s] = NoSid]
    /\ UNCHANGED <<clock, idp, refresh, token, revoking>>

-----------------------------------------------------------------------------
(* Requests *)

Valid(s) == row[s].state = "live" /\ clock < row[s].expires

\* A request is accepted, and the rolled expiry is written detached, one write
\* to the row and one to each pointer.
ValidateAuthSessionToken(s) ==
    /\ Valid(s)
    /\ Cardinality(refresh) + 3 <= MaxRefresh
    /\ refresh' = refresh \union
         [session : {s}, target : {"row", "sid", "sub"}, expires : {clock + MaxAge}]
    /\ UNCHANGED <<clock, idp, login, row, pointer, token, revoking>>

\* Mutant: the refresh puts back the whole row as the validation read it.
PutRefreshed(w) == [state |-> "live", sid |-> row[w.session].sid, expires |-> w.expires]

\* A patch of an existing row; it sets the expiry and nothing else.
PatchRefreshed(w) ==
    IF Stored(w.session) THEN [row[w.session] EXCEPT !.expires = w.expires] ELSE row[w.session]

RefreshLands(w) ==
    /\ refresh' = refresh \ {w}
    /\ IF w.target = "row"
       THEN row' = [row EXCEPT ![w.session] = PatchRefreshed(w)] /\ UNCHANGED pointer
       ELSE /\ pointer' = IF pointer[w.session][w.target] = Gone THEN pointer
                          ELSE [pointer EXCEPT ![w.session][w.target] = w.expires]
            /\ UNCHANGED row
    /\ UNCHANGED <<clock, idp, login, token, revoking>>

RefreshFails(w) ==
    /\ refresh' = refresh \ {w}
    /\ UNCHANGED <<clock, idp, login, row, pointer, token, revoking>>

-----------------------------------------------------------------------------
(* Sign-out, and the administrator's revokeUserSessions and revokeAllSessions *)

\* The rows are read (through an index that may lag for the administrator).
FindSessions(S) ==
    /\ revoking = {} /\ S # {}
    /\ \A s \in S : row[s].state = "live"
    /\ revoking' = S
    /\ UNCHANGED <<clock, idp, login, row, pointer, refresh, token>>

Revoked(s) == [row[s] EXCEPT !.state = IF Stored(s) THEN "revoked" ELSE @]

RevokeAuthSession(s) ==
    /\ s \in revoking
    /\ row' = [row EXCEPT ![s] = Revoked(s)]
    /\ revoking' = revoking \ {s}
    /\ UNCHANGED <<clock, idp, login, pointer, refresh, token>>

-----------------------------------------------------------------------------
(* Back-channel logout: consumeProviderLogoutToken *)

Sent == {t \in Token : token[t].at # "none"}

\* The provider ends one of its sessions and sends a token that names it, ...
EndProviderSession(i) ==
    /\ idp[i] /\ Cardinality(Sent) < MaxTokens
    /\ idp' = [idp EXCEPT ![i] = FALSE]
    /\ token' = [token EXCEPT ![i] = [at |-> "sent"]]
    /\ UNCHANGED <<clock, login, row, pointer, refresh, revoking>>

\* ... or the account's sessions, with a token that names only the account.
EndAccount ==
    /\ token[Account].at = "none" /\ Cardinality(Sent) < MaxTokens
    /\ idp' = [i \in Sid |-> FALSE]
    /\ token' = [token EXCEPT ![Account] = [at |-> "sent"]]
    /\ UNCHANGED <<clock, login, row, pointer, refresh, revoking>>

\* The token's id is stored first; a token whose id is stored is refused.
StoreToken(t) ==
    /\ token[t].at = "sent"
    /\ token' = [token EXCEPT ![t] = [at |-> "stored"]]
    /\ UNCHANGED <<clock, idp, login, row, pointer, refresh, revoking>>

\* The sessions that the pointers of the token lead to.
Correlated(t) ==
    IF t = Account THEN {s \in Session : pointer[s].sub # Gone}
    ELSE {s \in Session : pointer[s].sid # Gone /\ row[s].sid = t}

LoadCorrelated(t) ==
    /\ token[t].at = "stored"
    /\ token' = [token EXCEPT ![t] =
         [at |-> "loaded", active |-> {s \in Correlated(t) : row[s].state = "live"}]]
    /\ UNCHANGED <<clock, idp, login, row, pointer, refresh, revoking>>

RevokeCorrelated(t) ==
    /\ token[t].at = "loaded"
    /\ row' = [s \in Session |-> IF s \in token[t].active THEN Revoked(s) ELSE row[s]]
    /\ token' = [token EXCEPT ![t] = [at |-> "done"]]
    /\ UNCHANGED <<clock, idp, login, pointer, refresh, revoking>>

\* The store fails or the replica stops; the provider's retry will be refused.
LogoutFails(t) ==
    /\ token[t].at \in {"stored", "loaded"}
    /\ token' = [token EXCEPT ![t] = [at |-> "done"]]
    /\ UNCHANGED <<clock, idp, login, row, pointer, refresh, revoking>>

-----------------------------------------------------------------------------
(* Time and the table's time-to-live *)

Tick ==
    /\ clock < MaxClock
    /\ clock' = clock + 1
    /\ UNCHANGED <<idp, login, row, pointer, refresh, token, revoking>>

DeleteExpired(s) ==
    /\ \/ /\ Stored(s) /\ row[s].expires <= clock
          /\ row' = [row EXCEPT ![s].state = "deleted"]
          /\ UNCHANGED pointer
       \/ \E k \in {"sid", "sub"} :
            /\ pointer[s][k] # Gone /\ pointer[s][k] <= clock
            /\ pointer' = [pointer EXCEPT ![s][k] = Gone]
            /\ UNCHANGED row
    /\ UNCHANGED <<clock, idp, login, refresh, token, revoking>>

AuthNext ==
    \/ \E s \in Session : \/ \E i \in Sid : SignIn(s, i)
                          \/ CreateAuthSession(s) \/ ValidateAuthSessionToken(s)
                          \/ RevokeAuthSession(s) \/ DeleteExpired(s)
    \/ \E w \in refresh : RefreshLands(w) \/ RefreshFails(w)
    \/ \E S \in SUBSET Session : FindSessions(S)
    \/ \E i \in Sid : EndProviderSession(i)
    \/ EndAccount
    \/ \E t \in Token : StoreToken(t) \/ LoadCorrelated(t) \/ RevokeCorrelated(t) \/ LogoutFails(t)
    \/ Tick

AuthSpec == AuthInit /\ [][AuthNext]_authVars

-----------------------------------------------------------------------------
(* Properties *)

\* validateAuthSessionToken against every revocation: a session that was revoked
\* or whose row expired away is never accepted again, although validations that
\* began earlier still write to its row.
RevocationFinal ==
    [][\A s \in Session : row[s].state \in {"revoked", "deleted"} => row'[s].state # "live"]_row

=============================================================================
