------------------------------ MODULE Session ------------------------------
(***************************************************************************)
(* The dashboard's session: tokens in localStorage, shared by the tabs of  *)
(* a browser; each tab's AuthContext (login, loadUser, logout) and its     *)
(* apiRequest, which answers a 401 with one shared refresh and one retry,  *)
(* and apiRequestText, which does not.  The API's side of it is Accounts.  *)
(***************************************************************************)
EXTENDS Naturals, FiniteSets

CONSTANTS
  Tabs, Users,
  Requests,     \* each is made once
  None,
  MaxTokens,    \* bound: access tokens issued
  Faults        \* which of FaultKinds happen

FaultKinds == {"request_error", "refresh_error", "refresh_expired"}

ASSUME SessionAssumption ==
  /\ Tabs # {} /\ None \notin Users \cup Requests
  /\ MaxTokens \in Nat /\ Faults \subseteq FaultKinds

NoToken == 0

VARIABLES
  access, refresh,        \* localStorage: number of the access token; whose refresh token
  tokenUser, expired,     \* the API: users of the tokens issued, those expired
  shown, auth,            \* a tab: its user; what AuthContext is doing
  tab, me, phase, token,  \* a request: tab, whether it is loadUser's, progress, token sent
  owner, presented,       \* a tab's refreshPromise: whose, with which refresh token
  revived,                \* history: a refresh stored tokens after the logout
  disturbed               \* history: a logout, or a failure other than an expiry

store == <<access, refresh>>
issuer == <<tokenUser, expired>>
request == <<tab, me, phase, token>>
promise == <<owner, presented>>
vars == <<store, issuer, shown, auth, request, promise, revived, disturbed>>

Issued == {n \in 1..MaxTokens : tokenUser[n] # None}

(* Tabs are opened with an earlier session's tokens, or without.           *)
Init ==
  /\ \E u \in Users \cup {None} :
       /\ refresh = u
       /\ access = IF u = None THEN NoToken ELSE 1
       /\ tokenUser = [n \in 1..MaxTokens |-> IF n = 1 THEN u ELSE None]
  /\ expired = {}
  /\ shown = [t \in Tabs |-> None]
  /\ auth = [t \in Tabs |-> "load"]
  /\ tab \in [Requests -> Tabs]
  /\ me = {}
  /\ phase = [r \in Requests |-> "new"]
  /\ token = [r \in Requests |-> NoToken]
  /\ owner = [t \in Tabs |-> None]
  /\ presented = [t \in Tabs |-> None]
  /\ revived = FALSE /\ disturbed = FALSE

(* setTokens with a new pair of user u.                                    *)
SetTokens(u) ==
  \E n \in (1..MaxTokens) \ Issued :
    /\ \A k \in 1..(n - 1) : k \in Issued
    /\ tokenUser' = [tokenUser EXCEPT ![n] = u]
    /\ access' = n /\ refresh' = u
    /\ UNCHANGED expired

ClearTokens == access' = NoToken /\ refresh' = None /\ revived' = FALSE /\ UNCHANGED issuer
KeepTokens == UNCHANGED <<store, issuer, revived>>

(* An access token outlives the request it was fetched for.                *)
Expire(n) ==
  /\ n \in Issued \ expired
  /\ \A r \in Requests : ~(phase[r] = "resent" /\ token[r] = n)
  /\ expired' = expired \cup {n}
  /\ UNCHANGED <<store, tokenUser, shown, auth, request, promise, revived, disturbed>>

-----------------------------------------------------------------------------
(* AuthContext.                                                            *)

Send(r) ==
  /\ phase' = [phase EXCEPT ![r] = "sent"]
  /\ token' = [token EXCEPT ![r] = access]

LoadUser(t) ==
  /\ auth[t] = "load"
  /\ \/ /\ access = NoToken
        /\ auth' = [auth EXCEPT ![t] = "idle"]
        /\ shown' = [shown EXCEPT ![t] = None]
        /\ UNCHANGED request
     \/ /\ access # NoToken
        /\ \E r \in Requests :
             /\ phase[r] = "new" /\ tab[r] = t
             /\ Send(r) /\ me' = me \cup {r}
        /\ auth' = [auth EXCEPT ![t] = "loading"]
        /\ UNCHANGED <<tab, shown>>
  /\ UNCHANGED <<promise, disturbed>> /\ KeepTokens

(* The login form, or the registration form.                               *)
SubmitLogin(t) ==
  /\ shown[t] = None /\ auth[t] = "idle"
  /\ auth' = [auth EXCEPT ![t] = "login"]
  /\ UNCHANGED <<shown, request, promise, disturbed>> /\ KeepTokens

LoginAnswered(t) ==
  /\ auth[t] = "login"
  /\ \/ /\ \E u \in Users : SetTokens(u)
        /\ auth' = [auth EXCEPT ![t] = "load"]
        /\ revived' = FALSE
     \/ auth' = [auth EXCEPT ![t] = "idle"] /\ KeepTokens
  /\ UNCHANGED <<shown, request, promise, disturbed>>

(* logout() that only drops the access token.                              *)
LogoutKeepsRefresh(t) ==
  /\ shown[t] # None
  /\ access' = NoToken
  /\ shown' = [shown EXCEPT ![t] = None]
  /\ disturbed' = TRUE
  /\ UNCHANGED <<refresh, issuer, auth, request, promise, revived>>

Logout(t) ==
  /\ shown[t] # None
  /\ ClearTokens
  /\ shown' = [shown EXCEPT ![t] = None]
  /\ disturbed' = TRUE
  /\ UNCHANGED <<auth, request, promise>>

-----------------------------------------------------------------------------
(* apiRequest.                                                             *)

StartRequest(r) ==
  /\ phase[r] = "new" /\ shown[tab[r]] # None
  /\ Send(r)
  /\ UNCHANGED <<tab, me, shown, auth, promise, disturbed>> /\ KeepTokens

Valid(n) == n \in Issued \ expired

(* A request ends well: loadUser shows the user the API names.             *)
Succeed(r) ==
  /\ phase' = [phase EXCEPT ![r] = "ok"]
  /\ shown' = [shown EXCEPT ![tab[r]] = IF r \in me THEN tokenUser[token[r]] ELSE @]
  /\ auth' = [auth EXCEPT ![tab[r]] = IF r \in me THEN "idle" ELSE @]
  /\ UNCHANGED <<tab, me, token>>

(* These requests of tab t fail: loadUser logs the tab out.                *)
FailAll(t, rs) ==
  /\ phase' = [r \in Requests |-> IF r \in rs THEN "failed" ELSE phase[r]]
  /\ shown' = [shown EXCEPT ![t] = IF rs \cap me # {} THEN None ELSE @]
  /\ auth' = [auth EXCEPT ![t] = IF rs \cap me # {} THEN "idle" ELSE @]
  /\ UNCHANGED <<tab, me, token>>
Fail(t, rs) ==
  /\ FailAll(t, rs)
  /\ IF rs \cap me # {} THEN ClearTokens ELSE KeepTokens

(* Every 401 starts a refresh of its own.                                  *)
JoinOrRefreshAlone(r) ==
  /\ phase' = [phase EXCEPT ![r] = "refreshing"]
  /\ owner' = [owner EXCEPT ![tab[r]] = r]
  /\ presented' = [presented EXCEPT ![tab[r]] = refresh]
  /\ UNCHANGED <<tab, me, token>>

(* refreshAccessToken: join the refresh under way, or start one.           *)
JoinOrRefresh(r) ==
  /\ \/ /\ owner[tab[r]] # None
        /\ phase' = [phase EXCEPT ![r] = "waiting"]
        /\ UNCHANGED promise
     \/ /\ owner[tab[r]] = None
        /\ phase' = [phase EXCEPT ![r] = "refreshing"]
        /\ owner' = [owner EXCEPT ![tab[r]] = r]
        /\ presented' = [presented EXCEPT ![tab[r]] = refresh]
  /\ UNCHANGED <<tab, me, token>>

Answer(r) ==
  /\ phase[r] = "sent"
  /\ \/ Valid(token[r]) /\ Succeed(r) /\ UNCHANGED promise /\ KeepTokens
     \/ /\ ~Valid(token[r]) /\ refresh # None
        /\ JoinOrRefresh(r) /\ UNCHANGED <<shown, auth>> /\ KeepTokens
     \/ /\ ~Valid(token[r]) /\ refresh = None
        /\ Fail(tab[r], {r}) /\ UNCHANGED promise
  /\ UNCHANGED disturbed

Sharing(t) == {r \in Requests : tab[r] = t /\ phase[r] \in {"waiting", "refreshing"}}
Settle(t) ==
  /\ owner' = [owner EXCEPT ![t] = None]
  /\ presented' = [presented EXCEPT ![t] = None]

(* The retry sends the headers of the first attempt again.                 *)
ResendOldToken(rs) ==
  /\ phase' = [r \in Requests |-> IF r \in rs THEN "resent" ELSE phase[r]]
  /\ UNCHANGED <<tab, me, token>>
(* doFetch reads the stored token again.                                   *)
Resend(rs) ==
  /\ phase' = [r \in Requests |-> IF r \in rs THEN "resent" ELSE phase[r]]
  /\ token' = [r \in Requests |-> IF r \in rs THEN access' ELSE token[r]]
  /\ UNCHANGED <<tab, me>>

(* The refresh succeeds: the pair is stored whatever happened meanwhile.   *)
RefreshAnswered(t) ==
  /\ owner[t] # None
  /\ SetTokens(presented[t])
  /\ Resend(Sharing(t))
  /\ revived' = \A s \in Tabs : shown[s] = None /\ auth[s] \in {"idle", "login"}
  /\ Settle(t)
  /\ UNCHANGED <<shown, auth, disturbed>>

(* The API refuses it, which clears the tokens, or it fails on the way.    *)
RefreshFails(t) ==
  /\ owner[t] # None
  /\ \/ "refresh_expired" \in Faults /\ FailAll(t, Sharing(t)) /\ ClearTokens
     \/ "refresh_error" \in Faults /\ Fail(t, Sharing(t))
  /\ disturbed' = TRUE
  /\ Settle(t)

AnswerResent(r) ==
  /\ phase[r] = "resent"
  /\ \/ Valid(token[r]) /\ Succeed(r) /\ KeepTokens
     \/ ~Valid(token[r]) /\ Fail(tab[r], {r})
  /\ UNCHANGED <<promise, disturbed>>

(* apiRequestText, for the downloads of the detail page: no refresh, and   *)
(* no retry.                                                               *)
StartDownload(r) ==
  /\ phase[r] = "new" /\ shown[tab[r]] # None
  /\ phase' = [phase EXCEPT ![r] = "download"]
  /\ token' = [token EXCEPT ![r] = access]
  /\ UNCHANGED <<tab, me, shown, auth, promise, disturbed>> /\ KeepTokens

AnswerDownload(r) ==
  /\ phase[r] = "download"
  /\ phase' = [phase EXCEPT ![r] = IF Valid(token[r]) THEN "ok" ELSE "refused"]
  /\ UNCHANGED <<tab, me, token, shown, auth, promise, disturbed>> /\ KeepTokens

(* Another error, or no answer at all.                                     *)
RequestError(r) ==
  /\ "request_error" \in Faults
  /\ phase[r] \in {"sent", "resent", "download"}
  /\ Fail(tab[r], {r})
  /\ disturbed' = TRUE
  /\ UNCHANGED promise

Next ==
  \/ \E n \in 1..MaxTokens : Expire(n)
  \/ \E t \in Tabs :
       \/ LoadUser(t) \/ SubmitLogin(t) \/ LoginAnswered(t) \/ Logout(t)
       \/ RefreshAnswered(t) \/ RefreshFails(t)
  \/ \E r \in Requests :
       \/ StartRequest(r) \/ Answer(r) \/ AnswerResent(r) \/ RequestError(r)
       \/ StartDownload(r) \/ AnswerDownload(r)

Spec == Init /\ [][Next]_vars

-----------------------------------------------------------------------------
(* "Concurrent 401s share a single in-flight refresh" (client.ts).         *)
OneRefreshPerTab ==
  \A t \in Tabs :
    LET refreshing == {r \in Requests : tab[r] = t /\ phase[r] = "refreshing"} IN
    Cardinality(refreshing) <= 1 /\ (refreshing # {} <=> owner[t] # None)

(* Until somebody logs out or a call fails for another reason, no call of  *)
(* apiRequest fails because access tokens expire, in any tab and however   *)
(* many meet the expiry at once (the shared refresh and the retry).  A     *)
(* transcript download goes through apiRequestText and is refused then.    *)
ExpiryIsInvisible == \A r \in Requests : phase[r] = "failed" => disturbed

(* With every tab at the login form no tokens are stored, so that a reload *)
(* does not bring a session back, except by a refresh that was in flight   *)
(* at the logout (setTokens in refreshAccessToken).                        *)
LoggedOutMeansNoTokens ==
  (\A t \in Tabs : shown[t] = None /\ auth[t] = "idle") =>
    (access = NoToken /\ refresh = None) \/ revived
=============================================================================
