--------------------------- MODULE DashboardProofs ---------------------------
(***************************************************************************)
(* The dashboard's session, for any number of tabs, requests and tokens:   *)
(* one refresh at a time in a tab, no apiRequest that fails as a token has *)
(* expired, and no tokens left behind at the login form.  The argument is  *)
(* that a refresh belongs to the request it was started for, that a token  *)
(* that is sent again has just been issued, and that nothing but a logout  *)
(* or a failure takes tokens out of the store.  The last sections are      *)
(* about the hook that feeds the pages: it stops for good once it is       *)
(* cleaned up, and no change is forgotten on its way to the pages.         *)
(***************************************************************************)
EXTENDS Session, LiveUpdates, FiniteSetTheorems, TLAPS

USE Zenon

Phases == {"new", "sent", "waiting", "refreshing", "resent", "download", "ok", "refused", "failed"}

SessionType ==
  /\ access \in Nat /\ refresh \in Users \cup {None}
  /\ tokenUser \in [1..MaxTokens -> Users \cup {None}] /\ expired \subseteq 1..MaxTokens
  /\ shown \in [Tabs -> Users \cup {None}]
  /\ auth \in [Tabs -> {"load", "loading", "idle", "login"}]
  /\ tab \in [Requests -> Tabs] /\ me \subseteq Requests
  /\ phase \in [Requests -> Phases]
  /\ token \in [Requests -> Nat]
  /\ revived \in BOOLEAN /\ disturbed \in BOOLEAN

(* A refresh belongs to the one request it was started for, and presents a *)
(* user's token.                                                           *)
Promises ==
  /\ owner \in [Tabs -> Requests \cup {None}] /\ presented \in [Tabs -> Users \cup {None}]
  /\ \A t \in Tabs : owner[t] # None =>
       tab[owner[t]] = t /\ phase[owner[t]] = "refreshing" /\ presented[t] # None
  /\ \A r \in Requests : phase[r] = "refreshing" => owner[tab[r]] = r

(* A token sent again is one the API has just issued.                      *)
Resent ==
  /\ expired \subseteq Issued
  /\ \A r \in Requests : phase[r] = "resent" => Valid(token[r])

(* Access and refresh token come and go together, and stay while a request *)
(* is under way or a user is shown, until a logout or a failure.           *)
Underway(r) == phase[r] \in {"sent", "waiting", "refreshing", "resent"}
Stored ==
  /\ access = NoToken <=> refresh = None
  /\ ~disturbed =>
       /\ \A r \in Requests : phase[r] # "failed" /\ (Underway(r) => refresh # None)
       /\ \A t \in Tabs : shown[t] # None => refresh # None

AtLoginForm == \A t \in Tabs : shown[t] = None /\ auth[t] \in {"idle", "login"}
Cleared == AtLoginForm => access = NoToken \/ revived

SessionInv == SessionType /\ Promises /\ Resent /\ Stored /\ Cleared

-----------------------------------------------------------------------------
LEMMA SessionInit == Init => SessionInv
<1>. SUFFICES ASSUME Init  PROVE SessionInv
  OBVIOUS
<1>. PICK u \in Users \cup {None} :
       /\ refresh = u /\ access = IF u = None THEN NoToken ELSE 1
       /\ tokenUser = [n \in 1..MaxTokens |-> IF n = 1 THEN u ELSE None]
  BY DEF Init
<1>1. NoToken \in Nat /\ 1 \in Nat /\ NoToken # 1
  BY SMT DEF NoToken
<1>2. SessionType
  BY <1>1 DEF Phases, Init, SessionType
<1>3. Promises
  <2>1. /\ owner \in [Tabs -> Requests \cup {None}] /\ presented \in [Tabs -> Users \cup {None}]
        /\ \A t \in Tabs : owner[t] = None
        /\ \A r \in Requests : phase[r] = "new"
    BY DEF Init
  <2>. QED  BY <2>1 DEF Promises
<1>4. Resent
  <2>1. expired = {} /\ \A r \in Requests : phase[r] = "new"
    BY DEF Init
  <2>. QED  BY <2>1 DEF Resent
<1>5. Stored
  <2>1. \A r \in Requests : phase[r] \notin {"failed", "sent", "waiting", "refreshing", "resent"}
    BY DEF Init
  <2>2. \A t \in Tabs : shown[t] = None
    BY DEF Init
  <2>3. access = NoToken <=> refresh = None
    BY <1>1
  <2>. QED  BY <2>1, <2>2, <2>3 DEF Stored, Underway
<1>6. Cleared
  <2>1. \A t \in Tabs : auth[t] = "load"
    BY DEF Init
  <2>. QED  BY <2>1, SessionAssumption DEF Cleared, AtLoginForm
<1>. QED  BY <1>2, <1>3, <1>4, <1>5, <1>6 DEF SessionInv

(* A new pair of tokens: the access token is one more that is issued, and  *)
(* has not expired.                                                        *)
LEMMA NewPair ==
  ASSUME SessionType, Resent, NEW u \in Users, SetTokens(u)
  PROVE  /\ access' \in Nat /\ access' # NoToken /\ refresh' = u /\ expired' = expired
         /\ tokenUser' \in [1..MaxTokens -> Users \cup {None}]
         /\ Issued \subseteq Issued' /\ access' \in Issued' \ expired'
<1>. PICK n \in (1..MaxTokens) \ Issued :
       /\ tokenUser' = [tokenUser EXCEPT ![n] = u]
       /\ access' = n /\ refresh' = u /\ UNCHANGED expired
  BY DEF SetTokens
<1>1. n \in Nat /\ n # NoToken
  BY SMT DEF NoToken
<1>2. u # None
  BY SessionAssumption
<1>3. tokenUser' \in [1..MaxTokens -> Users \cup {None}] /\ tokenUser'[n] = u
      /\ \A k \in (1..MaxTokens) \ {n} : tokenUser'[k] = tokenUser[k]
  BY DEF SessionType
<1>4. Issued \subseteq Issued' /\ n \in Issued'
  BY <1>2, <1>3 DEF Issued
<1>5. n \notin expired
  BY DEF Resent
<1>. QED  BY <1>1, <1>3, <1>4, <1>5

(* A refresh under way is that of a request of its tab.                    *)
LEMMA OwnerOf ==
  ASSUME Promises, NEW t \in Tabs, owner[t] # None
  PROVE  /\ owner[t] \in Requests /\ tab[owner[t]] = t /\ phase[owner[t]] = "refreshing"
         /\ presented[t] # None
<1>1. owner[t] \in Requests
  BY DEF Promises
<1>2. tab[owner[t]] = t /\ phase[owner[t]] = "refreshing" /\ presented[t] # None
  BY DEF Promises
<1>. QED  BY <1>1, <1>2

(* The refreshes under way are left alone.                                 *)
LEMMA PromisesKept ==
  ASSUME Promises, UNCHANGED <<tab, owner, presented>>,
         \A r \in Requests : phase'[r] = "refreshing" <=> phase[r] = "refreshing"
  PROVE  Promises'
<1>1. ASSUME NEW t \in Tabs, owner[t] # None
      PROVE  tab'[owner'[t]] = t /\ phase'[owner'[t]] = "refreshing" /\ presented'[t] # None
  BY <1>1, OwnerOf
<1>2. \A r \in Requests : phase'[r] = "refreshing" => owner'[tab'[r]] = r
  BY DEF Promises
<1>. QED  BY <1>1, <1>2 DEF Promises

(* A refresh ends, with all the requests that share it.                    *)
LEMMA PromisesSettled ==
  ASSUME SessionType, Promises, NEW t \in Tabs, Settle(t), UNCHANGED tab,
         \A r \in Sharing(t) : phase'[r] # "refreshing",
         \A r \in Requests \ Sharing(t) : phase'[r] = phase[r]
  PROVE  Promises'
<1>1. /\ owner' \in [Tabs -> Requests \cup {None}] /\ presented' \in [Tabs -> Users \cup {None}]
      /\ owner'[t] = None
      /\ \A s \in Tabs \ {t} : owner'[s] = owner[s] /\ presented'[s] = presented[s]
  BY DEF Promises, Settle
<1>2. \A r \in Requests : phase'[r] = "refreshing" => phase[r] = "refreshing" /\ tab[r] # t
  BY DEF Sharing
<1>3. ASSUME NEW s \in Tabs, owner'[s] # None
      PROVE  tab'[owner'[s]] = s /\ phase'[owner'[s]] = "refreshing" /\ presented'[s] # None
  <2>1. s # t /\ owner'[s] = owner[s] /\ presented'[s] = presented[s] /\ owner[s] # None
    BY <1>1, <1>3
  <2>2. owner[s] \in Requests /\ tab[owner[s]] = s /\ phase[owner[s]] = "refreshing"
        /\ presented[s] # None
    BY <2>1, OwnerOf
  <2>3. owner[s] \in Requests \ Sharing(t)
    BY <2>1, <2>2 DEF Sharing
  <2>. QED  BY <2>1, <2>2, <2>3
<1>4. ASSUME NEW r \in Requests, phase'[r] = "refreshing"  PROVE owner'[tab'[r]] = r
  BY <1>1, <1>2, <1>4 DEF Promises, SessionType
<1>. QED  BY <1>1, <1>3, <1>4 DEF Promises

-----------------------------------------------------------------------------
(* One lemma per way a request or a tab goes on.                           *)

(* A request is sent with the stored token.                                *)
LEMMA Sends ==
  ASSUME SessionInv, NEW r \in Requests, phase[r] = "new", Send(r),
         ~disturbed => refresh # None,
         me' \subseteq me \cup {r},
         auth' \in [Tabs -> {"load", "loading", "idle", "login"}],
         \A t \in Tabs : auth'[t] \in {"idle", "login"} => auth'[t] = auth[t],
         UNCHANGED <<tab, shown, promise, disturbed>>, KeepTokens
  PROVE  SessionInv'
<1>1. SessionType'
  BY DEF Phases, SessionInv, SessionType, Send, KeepTokens, store, issuer
<1>2. phase'[r] = "sent" /\ \A s \in Requests \ {r} : phase'[s] = phase[s] /\ token'[s] = token[s]
  BY DEF SessionInv, SessionType, Send
<1>3. Promises'
  BY <1>2, PromisesKept DEF SessionInv, promise
<1>4. Resent'
  BY <1>2 DEF SessionInv, Resent, Valid, Issued, KeepTokens, issuer
<1>5. Stored'
  BY <1>2 DEF SessionInv, Stored, Underway, KeepTokens, store
<1>6. Cleared'
  BY DEF SessionInv, Cleared, AtLoginForm, KeepTokens, store
<1>. QED  BY <1>1, <1>3, <1>4, <1>5, <1>6 DEF SessionInv

(* A request is answered well.                                             *)
LEMMA Succeeds ==
  ASSUME SessionInv, NEW r \in Requests, phase[r] \in {"sent", "resent"}, Valid(token[r]),
         Succeed(r), UNCHANGED <<promise, disturbed>>, KeepTokens
  PROVE  SessionInv'
<1>1. tokenUser[token[r]] \in Users
  BY DEF SessionInv, SessionType, Valid, Issued
<1>2. /\ phase'[r] = "ok" /\ \A s \in Requests \ {r} : phase'[s] = phase[s]
      /\ tab[r] \in Tabs
      /\ \A t \in Tabs : \/ shown'[t] = shown[t] /\ auth'[t] = auth[t]
                         \/ t = tab[r] /\ shown'[t] = tokenUser[token[r]]
  BY DEF SessionInv, SessionType, Succeed
<1>3. SessionType'
  BY <1>1 DEF Phases, SessionInv, SessionType, Succeed, KeepTokens, store, issuer
<1>4. Promises'
  BY <1>2, PromisesKept DEF SessionInv, promise, Succeed
<1>5. Resent'
  BY <1>2 DEF SessionInv, Resent, Valid, Issued, KeepTokens, issuer, Succeed
<1>6. Stored'
  BY <1>2 DEF SessionInv, Stored, Underway, KeepTokens, store
<1>7. Cleared'
  BY <1>1, <1>2, SessionAssumption DEF SessionInv, Cleared, AtLoginForm, KeepTokens, store
<1>. QED  BY <1>3, <1>4, <1>5, <1>6, <1>7 DEF SessionInv

(* Requests fail, after a logout or together with a failure.               *)
LEMMA Fails ==
  ASSUME SessionInv, NEW t \in Tabs, NEW rs \in SUBSET Requests, FailAll(t, rs),
         ClearTokens \/ (rs \cap me = {} /\ KeepTokens),
         disturbed' = TRUE, Promises'
  PROVE  SessionInv'
<1>1. /\ \A r \in Requests : phase'[r] = IF r \in rs THEN "failed" ELSE phase[r]
      /\ rs \cap me = {} => \A s \in Tabs : shown'[s] = shown[s] /\ auth'[s] = auth[s]
      /\ UNCHANGED token
  BY DEF SessionInv, SessionType, FailAll
<1>2. access' \in Nat /\ refresh' \in Users \cup {None} /\ revived' \in BOOLEAN /\ UNCHANGED issuer
  <2>1. NoToken \in Nat
    BY SMT DEF NoToken
  <2>. QED  BY <2>1 DEF SessionInv, SessionType, ClearTokens, KeepTokens, store
<1>3. SessionType'
  BY <1>2 DEF Phases, SessionInv, SessionType, FailAll, issuer
<1>4. Resent'
  BY <1>1, <1>2 DEF SessionInv, Resent, Valid, Issued, issuer
<1>5. Stored'
  BY DEF SessionInv, Stored, ClearTokens, KeepTokens, store
<1>6. Cleared'
  BY <1>1 DEF SessionInv, Cleared, AtLoginForm, ClearTokens, KeepTokens, store
<1>. QED  BY <1>3, <1>4, <1>5, <1>6 DEF SessionInv

-----------------------------------------------------------------------------
(* The steps.                                                              *)

LEMMA ExpireStep ==
  ASSUME SessionInv, NEW n \in 1..MaxTokens, Expire(n)
  PROVE  SessionInv'
<1>1. /\ n \in Issued /\ expired' = expired \cup {n}
      /\ \A r \in Requests : phase[r] = "resent" => token[r] # n
      /\ UNCHANGED <<access, refresh, tokenUser, shown, auth, tab, me, phase, token, owner,
                     presented, revived, disturbed>>
  BY DEF Expire, store, request, promise
<1>2. SessionType'
  BY <1>1 DEF SessionInv, SessionType
<1>3. Promises'
  BY <1>1 DEF SessionInv, Promises
<1>4. Resent'
  BY <1>1 DEF SessionInv, Resent, Valid, Issued
<1>5. Stored'
  BY <1>1 DEF SessionInv, Stored, Underway
<1>6. Cleared'
  BY <1>1 DEF SessionInv, Cleared, AtLoginForm
<1>. QED  BY <1>2, <1>3, <1>4, <1>5, <1>6 DEF SessionInv

(* The forms, and a tab that finds no token: no request goes on, and a tab *)
(* that comes to the login form was there or found the store empty.        *)
LEMMA FormStep ==
  ASSUME SessionInv, NEW t \in Tabs, UNCHANGED <<tab, me, phase, token, owner, presented, disturbed>>,
         KeepTokens,
         auth' \in [Tabs -> {"load", "loading", "idle", "login"}],
         shown' \in [Tabs -> Users \cup {None}],
         \A s \in Tabs : shown'[s] # None => shown[s] # None,
         access = NoToken \/ \A s \in Tabs : shown'[s] = shown[s] /\
           (auth'[s] \in {"idle", "login"} => auth[s] \in {"idle", "login"})
  PROVE  SessionInv'
<1>1. UNCHANGED <<access, refresh, tokenUser, expired, revived>>
  BY DEF KeepTokens, store, issuer
<1>2. SessionType'
  BY <1>1 DEF SessionInv, SessionType
<1>3. Promises'
  BY DEF SessionInv, Promises
<1>4. Resent'
  BY <1>1 DEF SessionInv, Resent, Valid, Issued
<1>5. Stored'
  BY <1>1 DEF SessionInv, Stored, Underway
<1>6. Cleared'
  BY <1>1 DEF SessionInv, Cleared, AtLoginForm
<1>. QED  BY <1>2, <1>3, <1>4, <1>5, <1>6 DEF SessionInv

LEMMA AuthStep ==
  ASSUME SessionInv, NEW t \in Tabs, LoadUser(t) \/ SubmitLogin(t) \/ LoginAnswered(t)
  PROVE  SessionInv'
<1>. SessionType
  BY DEF SessionInv
<1>1. CASE LoadUser(t)
  <2>1. CASE access = NoToken
    BY <1>1, <2>1, FormStep DEF LoadUser, SessionType, request, promise
  <2>2. CASE access # NoToken
    <3>1. PICK r \in Requests : phase[r] = "new" /\ Send(r) /\ me' = me \cup {r}
      BY <1>1, <2>2 DEF LoadUser
    <3>2. /\ auth' = [auth EXCEPT ![t] = "loading"]
          /\ UNCHANGED <<tab, shown, promise, disturbed>> /\ KeepTokens
      BY <1>1, <2>2 DEF LoadUser
    <3>3. /\ auth' \in [Tabs -> {"load", "loading", "idle", "login"}]
          /\ \A s \in Tabs : auth'[s] \in {"idle", "login"} => auth'[s] = auth[s]
      BY <3>2 DEF SessionType
    <3>4. refresh # None
      BY <2>2 DEF SessionInv, Stored
    <3>. QED  BY <3>1, <3>2, <3>3, <3>4, Sends
  <2>. QED  BY <2>1, <2>2
<1>2. CASE SubmitLogin(t)
  BY <1>2, FormStep DEF SubmitLogin, SessionType, request, promise
<1>3. CASE LoginAnswered(t)
  <2>1. CASE auth' = [auth EXCEPT ![t] = "idle"] /\ KeepTokens
    BY <1>3, <2>1, FormStep DEF LoginAnswered, SessionType, request, promise
  <2>2. ASSUME NEW u \in Users, SetTokens(u), auth' = [auth EXCEPT ![t] = "load"], revived' = FALSE
        PROVE  SessionInv'
    <3>1. UNCHANGED <<shown, tab, me, phase, token, owner, presented, disturbed>>
      BY <1>3 DEF LoginAnswered, request, promise
    <3>2. /\ access' \in Nat /\ access' # NoToken /\ refresh' = u /\ u # None /\ expired' = expired
          /\ tokenUser' \in [1..MaxTokens -> Users \cup {None}] /\ Issued \subseteq Issued'
      BY <2>2, NewPair, SessionAssumption DEF SessionInv
    <3>3. SessionType'
      BY <2>2, <3>1, <3>2 DEF SessionType
    <3>4. Promises'
      BY <3>1 DEF SessionInv, Promises
    <3>5. Resent'
      BY <3>1, <3>2 DEF SessionInv, Resent, Valid
    <3>6. Stored'
      BY <3>1, <3>2 DEF SessionInv, Stored
    <3>7. Cleared'
      BY <2>2 DEF Cleared, AtLoginForm, SessionType
    <3>. QED  BY <3>3, <3>4, <3>5, <3>6, <3>7 DEF SessionInv
  <2>. QED  BY <1>3, <2>1, <2>2 DEF LoginAnswered
<1>. QED  BY <1>1, <1>2, <1>3

LEMMA LogoutStep ==
  ASSUME SessionInv, NEW t \in Tabs, Logout(t)
  PROVE  SessionInv'
<1>1. /\ access' = NoToken /\ refresh' = None /\ disturbed' = TRUE /\ revived' = FALSE
      /\ shown' = [shown EXCEPT ![t] = None]
      /\ UNCHANGED <<tokenUser, expired, auth, tab, me, phase, token, owner, presented>>
  BY DEF Logout, ClearTokens, issuer, request, promise
<1>2. SessionType'
  <2>1. NoToken \in Nat
    BY SMT DEF NoToken
  <2>. QED  BY <1>1, <2>1 DEF SessionInv, SessionType
<1>3. Promises'
  BY <1>1 DEF SessionInv, Promises
<1>4. Resent'
  BY <1>1 DEF SessionInv, Resent, Valid, Issued
<1>5. Stored' /\ Cleared'
  BY <1>1 DEF Stored, Cleared
<1>. QED  BY <1>2, <1>3, <1>4, <1>5 DEF SessionInv

(* A 401 joins the refresh under way or starts one.                        *)
LEMMA JoinStep ==
  ASSUME SessionInv, NEW r \in Requests, phase[r] = "sent", refresh # None, JoinOrRefresh(r),
         UNCHANGED <<shown, auth, disturbed>>, KeepTokens
  PROVE  SessionInv'
<1>. SessionType /\ Promises /\ tab[r] \in Tabs
  BY DEF SessionInv, SessionType
<1>1. /\ phase'[r] \in {"waiting", "refreshing"} /\ phase' \in [Requests -> Phases]
      /\ \A s \in Requests \ {r} : phase'[s] = phase[s]
  BY DEF Phases, SessionType, JoinOrRefresh
<1>2. UNCHANGED <<access, refresh, tokenUser, expired, revived, tab, me, token>>
  BY DEF KeepTokens, store, issuer, JoinOrRefresh
<1>3. SessionType'
  BY <1>1, <1>2 DEF SessionType
<1>4. Promises'
  <2>1. CASE owner[tab[r]] # None
    BY <1>1, <1>2, <2>1, PromisesKept DEF JoinOrRefresh, promise, SessionType
  <2>2. CASE owner[tab[r]] = None
    <3>1. /\ phase'[r] = "refreshing"
          /\ owner' = [owner EXCEPT ![tab[r]] = r]
          /\ presented' = [presented EXCEPT ![tab[r]] = refresh]
      <4>1. phase' = [phase EXCEPT ![r] = "refreshing"]
        BY <2>2 DEF JoinOrRefresh
      <4>. QED  BY <2>2, <4>1 DEF JoinOrRefresh, SessionType
    <3>2. /\ owner' \in [Tabs -> Requests \cup {None}] /\ owner'[tab[r]] = r
          /\ presented' \in [Tabs -> Users \cup {None}] /\ presented'[tab[r]] = refresh
          /\ \A t \in Tabs \ {tab[r]} : owner'[t] = owner[t] /\ presented'[t] = presented[t]
      <4>1. owner' \in [Tabs -> Requests \cup {None}] /\ owner'[tab[r]] = r
            /\ \A t \in Tabs \ {tab[r]} : owner'[t] = owner[t]
        BY <3>1 DEF Promises
      <4>2. presented' \in [Tabs -> Users \cup {None}] /\ presented'[tab[r]] = refresh
            /\ \A t \in Tabs \ {tab[r]} : presented'[t] = presented[t]
        <5>1. presented \in [Tabs -> Users \cup {None}] /\ refresh \in Users \cup {None}
          BY DEF Promises, SessionType
        <5>. QED  BY <3>1, <5>1
      <4>. QED  BY <4>1, <4>2
    <3>3. ASSUME NEW t \in Tabs, owner'[t] # None
          PROVE  tab'[owner'[t]] = t /\ phase'[owner'[t]] = "refreshing" /\ presented'[t] # None
      <4>1. CASE t = tab[r]
        BY <1>2, <3>1, <3>2, <4>1
      <4>2. CASE t # tab[r]
        <5>1. owner'[t] = owner[t] /\ presented'[t] = presented[t] /\ owner[t] # None
          BY <3>2, <3>3, <4>2
        <5>2. owner[t] \in Requests /\ tab[owner[t]] = t /\ phase[owner[t]] = "refreshing"
              /\ presented[t] # None
          BY <5>1, OwnerOf
        <5>3. owner[t] \in Requests \ {r}
          BY <5>2
        <5>. QED  BY <1>1, <1>2, <5>1, <5>2, <5>3
      <4>. QED  BY <4>1, <4>2
    <3>4. ASSUME NEW s \in Requests, phase'[s] = "refreshing"  PROVE owner'[tab'[s]] = s
      <4>1. CASE s = r
        BY <1>2, <3>2, <4>1
      <4>2. CASE s # r
        <5>1. owner[tab[s]] = s /\ tab[s] \in Tabs
          BY <1>1, <3>4, <4>2 DEF Promises, SessionType
        <5>2. tab[s] # tab[r]
          BY <2>2, <5>1, SessionAssumption
        <5>. QED  BY <1>2, <3>2, <5>1, <5>2
      <4>. QED  BY <4>1, <4>2
    <3>. QED  BY <3>2, <3>3, <3>4 DEF Promises
  <2>. QED  BY <2>1, <2>2
<1>5. Resent'
  BY <1>1, <1>2 DEF SessionInv, Resent, Valid, Issued
<1>6. Stored'
  BY <1>1, <1>2 DEF SessionInv, Stored, Underway
<1>7. Cleared'
  BY <1>2 DEF SessionInv, Cleared, AtLoginForm
<1>. QED  BY <1>3, <1>4, <1>5, <1>6, <1>7 DEF SessionInv

(* A request that fails shares no refresh.                                 *)
LEMMA FailsAlone ==
  ASSUME SessionInv, NEW r \in Requests, phase[r] \in {"sent", "resent", "download"}, Fail(tab[r], {r}),
         disturbed' = TRUE, UNCHANGED promise
  PROVE  SessionInv'
<1>. tab[r] \in Tabs
  BY DEF SessionInv, SessionType
<1>1. FailAll(tab[r], {r}) /\ (ClearTokens \/ ({r} \cap me = {} /\ KeepTokens))
  BY DEF Fail
<1>2. Promises'
  BY <1>1, PromisesKept DEF SessionInv, FailAll, promise
<1>. QED  BY <1>1, <1>2, Fails

LEMMA RequestStep ==
  ASSUME SessionInv, NEW r \in Requests,
         StartRequest(r) \/ Answer(r) \/ AnswerResent(r) \/ RequestError(r)
  PROVE  SessionInv'
<1>. SessionType /\ tab[r] \in Tabs
  BY DEF SessionInv, SessionType
<1>1. CASE StartRequest(r)
  <2>1. ~disturbed => refresh # None
    BY <1>1 DEF StartRequest, SessionInv, Stored
  <2>2. phase[r] = "new" /\ Send(r) /\ UNCHANGED <<tab, me, shown, auth, promise, disturbed>> /\ KeepTokens
    BY <1>1 DEF StartRequest
  <2>. QED  BY <2>1, <2>2, Sends DEF SessionType
<1>2. CASE Answer(r)
  <2>1. phase[r] = "sent" /\ UNCHANGED disturbed
    BY <1>2 DEF Answer
  <2>2. CASE Valid(token[r]) /\ Succeed(r) /\ UNCHANGED promise /\ KeepTokens
    BY <2>1, <2>2, Succeeds
  <2>3. CASE refresh # None /\ JoinOrRefresh(r) /\ UNCHANGED <<shown, auth>> /\ KeepTokens
    BY <2>1, <2>3, JoinStep
  <2>4. CASE refresh = None /\ Fail(tab[r], {r}) /\ UNCHANGED promise
    <3>1. disturbed' = TRUE
      BY <2>1, <2>4 DEF SessionInv, Stored, Underway, SessionType
    <3>. QED  BY <2>1, <2>4, <3>1, FailsAlone
  <2>. QED  BY <1>2, <2>2, <2>3, <2>4 DEF Answer
<1>3. CASE AnswerResent(r)
  <2>1. phase[r] = "resent" /\ Valid(token[r])
    BY <1>3 DEF AnswerResent, SessionInv, Resent
  <2>. QED  BY <1>3, <2>1, Succeeds DEF AnswerResent
<1>4. CASE RequestError(r)
  BY <1>4, FailsAlone DEF RequestError
<1>. QED  BY <1>1, <1>2, <1>3, <1>4

(* A download takes part in no refresh.                                    *)
LEMMA DownloadStep ==
  ASSUME SessionInv, NEW r \in Requests, StartDownload(r) \/ AnswerDownload(r)
  PROVE  SessionInv'
<1>1. /\ phase[r] \in {"new", "download"} /\ \E l \in {"download", "ok", "refused"} : phase' = [phase EXCEPT ![r] = l]
      /\ token' \in {token, [token EXCEPT ![r] = access]}
      /\ UNCHANGED <<tab, me, shown, auth, owner, presented, disturbed>>
      /\ UNCHANGED <<access, refresh, tokenUser, expired, revived>>
  BY DEF StartDownload, AnswerDownload, KeepTokens, promise, store, issuer
<1>2. /\ phase' \in [Requests -> Phases] /\ phase'[r] \in {"download", "ok", "refused"}
      /\ \A s \in Requests \ {r} : phase'[s] = phase[s]
  BY <1>1 DEF SessionInv, SessionType, Phases
<1>3. token' \in [Requests -> Nat] /\ \A s \in Requests \ {r} : token'[s] = token[s]
  BY <1>1 DEF SessionInv, SessionType
<1>4. SessionType'
  BY <1>1, <1>2, <1>3 DEF SessionInv, SessionType
<1>5. Promises'
  BY <1>1, <1>2, PromisesKept DEF SessionInv
<1>6. Resent'
  BY <1>1, <1>2, <1>3 DEF SessionInv, Resent, Valid, Issued
<1>7. Stored'
  BY <1>1, <1>2 DEF SessionInv, Stored, Underway
<1>8. Cleared'
  BY <1>1 DEF SessionInv, Cleared, AtLoginForm
<1>. QED  BY <1>4, <1>5, <1>6, <1>7, <1>8 DEF SessionInv

(* The refresh is answered, or fails, for all who share it.                *)
LEMMA RefreshStep ==
  ASSUME SessionInv, NEW t \in Tabs, RefreshAnswered(t) \/ RefreshFails(t)
  PROVE  SessionInv'
<1>. SessionType /\ Promises /\ Sharing(t) \in SUBSET Requests
  BY DEF SessionInv, Sharing
<1>1. CASE RefreshFails(t)
  <2>1. /\ FailAll(t, Sharing(t)) /\ disturbed' = TRUE /\ Settle(t)
        /\ ClearTokens \/ (Sharing(t) \cap me = {} /\ KeepTokens)
    BY <1>1 DEF RefreshFails, Fail
  <2>2. Promises'
    BY <2>1, PromisesSettled DEF FailAll
  <2>. QED  BY <2>1, <2>2, Fails
<1>2. CASE RefreshAnswered(t)
  <2>1. /\ owner[t] # None /\ SetTokens(presented[t]) /\ Resend(Sharing(t)) /\ Settle(t)
        /\ revived' = AtLoginForm /\ UNCHANGED <<shown, auth, disturbed>>
    BY <1>2 DEF RefreshAnswered, AtLoginForm
  <2>2. presented[t] \in Users
    BY <2>1 DEF Promises
  <2>3. /\ access' \in Nat /\ access' # NoToken /\ refresh' = presented[t] /\ refresh' # None
        /\ expired' = expired /\ tokenUser' \in [1..MaxTokens -> Users \cup {None}]
        /\ Issued \subseteq Issued' /\ access' \in Issued' \ expired'
    BY <2>1, <2>2, NewPair, SessionAssumption DEF SessionInv
  <2>4. /\ \A r \in Sharing(t) : phase'[r] = "resent" /\ token'[r] = access'
        /\ \A r \in Requests \ Sharing(t) : phase'[r] = phase[r] /\ token'[r] = token[r]
        /\ UNCHANGED <<tab, me>>
    BY <2>1 DEF Resend, Sharing
  <2>5. SessionType'
    <3>1. phase' \in [Requests -> Phases]
      BY <2>1 DEF Phases, Resend, SessionType
    <3>2. token' \in [Requests -> Nat]
      BY <2>1, <2>3 DEF Resend, SessionType
    <3>. QED  BY <2>1, <2>2, <2>3, <2>4, <3>1, <3>2 DEF SessionType, AtLoginForm
  <2>6. Promises'
    BY <2>1, <2>4, PromisesSettled
  <2>7. Resent'
    BY <2>3, <2>4 DEF SessionInv, Resent, Valid
  <2>8. Stored'
    BY <2>1, <2>3, <2>4 DEF SessionInv, Stored, Sharing
  <2>9. Cleared'
    BY <2>1 DEF Cleared, AtLoginForm
  <2>. QED  BY <2>5, <2>6, <2>7, <2>8, <2>9 DEF SessionInv
<1>. QED  BY <1>1, <1>2

(* The inductive invariant of the session.                                 *)
THEOREM SessionInvariant == Spec => []SessionInv
<1>1. SessionInv /\ [Next]_vars => SessionInv'
  <2>. SUFFICES ASSUME SessionInv, [Next]_vars  PROVE SessionInv'
    OBVIOUS
  <2>1. CASE UNCHANGED vars
    <3>1. UNCHANGED <<access, refresh, tokenUser, expired, shown, auth, tab, me, phase, token,
                      owner, presented, revived, disturbed>>
      BY <2>1 DEF vars, store, issuer, request, promise
    <3>2. SessionType' /\ Promises'
      BY <3>1 DEF SessionInv, SessionType, Promises
    <3>3. Resent' /\ Stored'
      BY <3>1 DEF SessionInv, Resent, Valid, Issued, Stored, Underway
    <3>4. Cleared'
      BY <3>1 DEF SessionInv, Cleared, AtLoginForm
    <3>. QED  BY <3>2, <3>3, <3>4 DEF SessionInv
  <2>. QED
    BY <2>1, ExpireStep, AuthStep, LogoutStep, RefreshStep, RequestStep, DownloadStep DEF Next
<1>. QED  BY <1>1, SessionInit, PTL DEF Spec

(* Concurrent 401s of a tab share one refresh, and a refresh in flight is  *)
(* some request's: for any number of tabs and requests.                    *)
THEOREM RefreshesAreShared == Spec => []OneRefreshPerTab
<1>1. SessionInv => OneRefreshPerTab
  <2>. SUFFICES ASSUME SessionInv, NEW t \in Tabs, NEW refreshing,
                       refreshing = {r \in Requests : tab[r] = t /\ phase[r] = "refreshing"}
                PROVE  Cardinality(refreshing) <= 1 /\ (refreshing # {} <=> owner[t] # None)
    BY DEF OneRefreshPerTab
  <2>1. refreshing # {} <=> owner[t] # None
    <3>1. ASSUME NEW r \in Requests, tab[r] = t, phase[r] = "refreshing"  PROVE owner[t] # None
      <4>1. owner[tab[r]] = r
        BY <3>1 DEF SessionInv, Promises
      <4>. QED  BY <3>1, <4>1, SessionAssumption
    <3>2. owner[t] # None => owner[t] \in refreshing
      BY OwnerOf DEF SessionInv
    <3>. QED  BY <3>1, <3>2
  <2>2. refreshing \subseteq {owner[t]}
    BY DEF SessionInv, Promises
  <2>3. Cardinality(refreshing) <= Cardinality({owner[t]}) /\ Cardinality({owner[t]}) = 1
    BY <2>2, FS_Subset, FS_Singleton
  <2>. QED  BY <2>1, <2>3
<1>. QED  BY <1>1, SessionInvariant, PTL

(* Until a logout or another failure, no call of apiRequest fails because  *)
(* tokens expire, however many meet the expiry in however many tabs.       *)
THEOREM ExpiriesAreInvisible == Spec => []ExpiryIsInvisible
<1>1. SessionInv => ExpiryIsInvisible
  BY DEF SessionInv, Stored, ExpiryIsInvisible
<1>. QED  BY <1>1, SessionInvariant, PTL

(* With every tab at the login form the store is empty, unless a refresh   *)
(* that was in flight at the logout filled it again.                       *)
THEOREM LogoutLeavesNoTokens == Spec => []LoggedOutMeansNoTokens
<1>1. SessionInv => LoggedOutMeansNoTokens
  BY DEF SessionInv, Stored, Cleared, AtLoginForm, LoggedOutMeansNoTokens
<1>. QED  BY <1>1, SessionInvariant, PTL

-----------------------------------------------------------------------------
(* The useJobStream hook and the pages it refreshes.                       *)

(* A hook that was stopped stays stopped, and nothing it had under way, a  *)
(* ticket it awaits, a timer or a close event, starts it again.            *)
THEOREM StoppedHooksStayStopped == FeedSpec => []StopsForGood
<1>1. FeedInit => StopsForGood
  BY DEF FeedInit, StopsForGood
<1>2. StopsForGood /\ [FeedNext]_feedVars => StopsForGood'
  <2>. SUFFICES ASSUME StopsForGood, [FeedNext]_feedVars  PROVE StopsForGood'
    OBVIOUS
  <2>1. ASSUME UNCHANGED <<sock, polling, timer, stopped>>  PROVE StopsForGood'
    BY <2>1 DEF StopsForGood
  <2>2. CASE ChangeJob \/ ListenerDown \/ Disconnect \/ ApiStep
    BY <2>1, <2>2 DEF ChangeJob, ListenerDown, Disconnect, ApiStep,
                      InsertEvent, ListenerReconnects, Broadcast, hook
  <2>3. CASE Connect \/ Register \/ OnMessage \/ PollTimer
    BY <2>1, <2>3 DEF Connect, Register, OnMessage, PollTimer, hook
  <2>4. CASE Ticket
    BY <2>4 DEF Ticket, ScheduleReconnect, StopsForGood
  <2>5. CASE OnOpen
    BY <2>5 DEF OnOpen, StopsForGood
  <2>6. CASE OnClose
    BY <2>6 DEF OnClose, ScheduleReconnect, StopsForGood
  <2>7. CASE ReconnectTimer
    BY <2>7 DEF ReconnectTimer, StopsForGood
  <2>8. CASE Cleanup
    BY <2>8 DEF Cleanup, StopsForGood
  <2>9. ASSUME NEW p \in Pages, PageStep(p) \/ FetchFails(p) \/ Refocus(p)
        PROVE  StopsForGood'
    BY <2>1, <2>9 DEF PageStep, FetchAnswered, FetchShown, FetchFails, Refocus, hook
  <2>10. CASE UNCHANGED feedVars
    BY <2>1, <2>10 DEF feedVars, hook
  <2>. QED
    BY <2>2, <2>3, <2>4, <2>5, <2>6, <2>7, <2>8, <2>9, <2>10 DEF FeedNext, SocketStep
<1>. QED  BY <1>1, <1>2, PTL DEF FeedSpec

(* Messages of a queue when one is added, and when the first is taken.     *)
Among(x, s) == \E i \in 1..Len(s) : s[i] = x

LEMMA AmongAppended ==
  ASSUME NEW S, NEW s \in Seq(S), NEW x \in S
  PROVE  Among(x, Append(s, x)) /\ \A y : Among(y, s) => Among(y, Append(s, x))
<1>1. /\ Len(s) \in Nat /\ Len(Append(s, x)) = Len(s) + 1 /\ Append(s, x)[Len(s) + 1] = x
      /\ \A i \in 1..Len(s) : Append(s, x)[i] = s[i]
  BY SMT
<1>2. Len(s) + 1 \in 1..Len(Append(s, x)) /\ 1..Len(s) \subseteq 1..Len(Append(s, x))
  BY <1>1, SMT
<1>. QED  BY <1>1, <1>2 DEF Among

LEMMA QueueTypes ==
  ASSUME NEW S, NEW s \in Seq(S)
  PROVE  /\ \A x \in S : Append(s, x) \in Seq(S)
         /\ s # <<>> => Head(s) \in S /\ Tail(s) \in Seq(S)
BY SMT

LEMMA AmongTail ==
  ASSUME NEW S, NEW s \in Seq(S), s # <<>>, NEW y, Among(y, s)
  PROVE  y = Head(s) \/ Among(y, Tail(s))
<1>. PICK i \in 1..Len(s) : s[i] = y
  BY DEF Among
<1>1. CASE i = 1
  BY <1>1, SMT
<1>2. CASE i # 1
  <2>1. i - 1 \in 1..Len(Tail(s)) /\ Tail(s)[i - 1] = s[i]
    BY <1>2, SMT
  <2>. QED  BY <2>1 DEF Among
<1>. QED  BY <1>1, <1>2

(* Changes are announced one by one, and an answer is never older than     *)
(* what its page shows.                                                    *)
FeedInv ==
  /\ version \in Nat /\ announced \in Nat /\ announced <= version /\ version <= announced + 1
  /\ inbox \in Seq(Nat) /\ channel \in Seq(Nat)
  /\ fetch \in [Pages -> {"idle", "sent", "answered"}]
  /\ answer \in [Pages -> Nat] /\ cache \in [Pages -> Nat]
  /\ \A p \in Pages : cache[p] <= answer[p] /\ answer[p] <= version

LEMMA FeedInvInit == FeedInit => FeedInv
<1>. SUFFICES ASSUME FeedInit  PROVE FeedInv
  OBVIOUS
<1>1. version = 0 /\ announced = 0 /\ inbox = <<>> /\ channel = <<>>
  BY DEF FeedInit
<1>2. /\ fetch = [p \in Pages |-> "idle"] /\ answer = [p \in Pages |-> 0]
      /\ cache = [p \in Pages |-> 0]
  BY DEF FeedInit
<1>3. inbox \in Seq(Nat) /\ channel \in Seq(Nat) /\ 0 \in Nat /\ 0 <= 0 /\ 0 <= 0 + 1
  BY <1>1, SMT
<1>. QED  BY <1>1, <1>2, <1>3 DEF FeedInv

(* The other steps leave changes, messages and pages alone.                *)
FeedQuiet == UNCHANGED <<version, announced, inbox, channel, lost, pages>>

LEMMA HookSteps ==
  ListenerReconnects \/ Connect \/ Register \/ Ticket \/ OnOpen \/ OnClose \/ ReconnectTimer
    \/ Cleanup \/ UNCHANGED feedVars
  => FeedQuiet
BY DEF ListenerReconnects, Connect, Register, Ticket, OnOpen, OnClose, ReconnectTimer, Cleanup,
       feedVars, FeedQuiet, server, pages

LEMMA FeedInvStep == FeedInv /\ [FeedNext]_feedVars => FeedInv'
<1>. SUFFICES ASSUME FeedInv, [FeedNext]_feedVars  PROVE FeedInv'
  OBVIOUS
<1>1. CASE ChangeJob
  <2>1. /\ version' = version + 1 /\ announced = version
        /\ UNCHANGED <<announced, inbox, channel, fetch, answer, cache>>
    BY <1>1 DEF ChangeJob, pages
  <2>. QED  BY <2>1, SMT DEF FeedInv
<1>2. CASE InsertEvent
  <2>1. /\ announced' = version /\ inbox' \in {inbox, Append(inbox, version)}
        /\ UNCHANGED <<version, channel, fetch, answer, cache>>
    BY <1>2 DEF InsertEvent, pages
  <2>2. inbox' \in Seq(Nat)
    BY <2>1, QueueTypes DEF FeedInv
  <2>3. version <= version /\ version <= version + 1
    BY SMT DEF FeedInv
  <2>. QED  BY <2>1, <2>2, <2>3 DEF FeedInv
<1>3. CASE ListenerDown
  <2>1. inbox' = <<>> /\ UNCHANGED <<version, announced, channel, fetch, answer, cache>>
    BY <1>3 DEF ListenerDown, pages
  <2>2. <<>> \in Seq(Nat)
    BY SMT
  <2>. QED  BY <2>1, <2>2 DEF FeedInv
<1>4. CASE Broadcast
  <2>1. /\ inbox # <<>> /\ inbox' = Tail(inbox)
        /\ channel' \in {channel, Append(channel, Head(inbox))}
        /\ UNCHANGED <<version, announced, fetch, answer, cache>>
    BY <1>4 DEF Broadcast, pages
  <2>2. inbox' \in Seq(Nat) /\ channel' \in Seq(Nat)
    BY <2>1, QueueTypes DEF FeedInv
  <2>. QED  BY <2>1, <2>2 DEF FeedInv
<1>5. CASE Disconnect
  <2>1. channel' = <<>> /\ UNCHANGED <<version, announced, inbox, fetch, answer, cache>>
    BY <1>5 DEF Disconnect, server, pages
  <2>2. <<>> \in Seq(Nat)
    BY SMT
  <2>. QED  BY <2>1, <2>2 DEF FeedInv
<1>6. ASSUME NEW ps, Invalidate(ps), UNCHANGED <<version, announced, inbox, cache>>,
             channel' \in Seq(Nat)
      PROVE  FeedInv'
  <2>1. fetch' \in [Pages -> {"idle", "sent", "answered"}] /\ answer' \in [Pages -> Nat]
    BY <1>6 DEF Invalidate, FeedInv
  <2>2. \A c \in Nat, a \in Nat : c <= a /\ a <= version => c <= c /\ c <= version
    BY SMT DEF FeedInv
  <2>3. \A p \in Pages : cache[p] <= answer'[p] /\ answer'[p] <= version
    BY <1>6, <2>2 DEF Invalidate, FeedInv
  <2>. QED  BY <1>6, <2>1, <2>3 DEF FeedInv
<1>7. CASE OnMessage
  <2>1. channel # <<>> /\ channel' = Tail(channel)
    BY <1>7 DEF OnMessage
  <2>2. channel' \in Seq(Nat)
    BY <2>1, SMT DEF FeedInv
  <2>. QED  BY <1>6, <1>7, <2>2 DEF OnMessage, server
<1>8. ASSUME PollTimer \/ \E p \in Pages : Refocus(p)  PROVE FeedInv'
  BY <1>6, <1>8 DEF PollTimer, Refocus, server, FeedInv
<1>9. ASSUME NEW p \in Pages, FetchAnswered(p)  PROVE FeedInv'
  <2>1. /\ fetch' = [fetch EXCEPT ![p] = "answered"] /\ answer' = [answer EXCEPT ![p] = version]
        /\ UNCHANGED <<version, announced, inbox, channel, cache>>
    BY <1>9 DEF FetchAnswered, server
  <2>2. version <= version /\ \A a \in Nat, c \in Nat : c <= a /\ a <= version => c <= version
    BY SMT DEF FeedInv
  <2>3. \A q \in Pages : cache[q] <= answer'[q] /\ answer'[q] <= version
    BY <2>1, <2>2 DEF FeedInv
  <2>. QED  BY <2>1, <2>3 DEF FeedInv
<1>10. ASSUME NEW p \in Pages, FetchShown(p)  PROVE FeedInv'
  <2>1. /\ fetch' = [fetch EXCEPT ![p] = "idle"] /\ cache' = [cache EXCEPT ![p] = answer[p]]
        /\ UNCHANGED <<version, announced, inbox, channel, answer>>
    BY <1>10 DEF FetchShown, server
  <2>2. answer[p] <= answer[p]
    BY SMT DEF FeedInv
  <2>3. \A q \in Pages : cache'[q] <= answer[q] /\ answer[q] <= version
    BY <2>1, <2>2 DEF FeedInv
  <2>. QED  BY <2>1, <2>3 DEF FeedInv
<1>11. CASE FeedQuiet
  BY <1>11 DEF FeedQuiet, server, pages, FeedInv
<1>12. ASSUME NEW p \in Pages, FetchFails(p)  PROVE FeedInv'
  BY <1>12 DEF FetchFails, server, FeedInv
<1>. QED
  BY <1>1, <1>2, <1>3, <1>4, <1>5, <1>7, <1>8, <1>9, <1>10, <1>11, <1>12, HookSteps
  DEF FeedNext, ApiStep, SocketStep, PageStep

(* The history of losses only grows, and a change is announced by the      *)
(* insert of its event alone.                                              *)
LEMMA FeedGrows ==
  ASSUME [FeedNext]_feedVars
  PROVE  lost \subseteq lost' /\ (InsertEvent \/ UNCHANGED announced)
<1>1. CASE ChangeJob \/ InsertEvent \/ ListenerDown \/ Broadcast \/ Disconnect \/ OnMessage
  BY <1>1 DEF ChangeJob, InsertEvent, ListenerDown, Broadcast, Disconnect, OnMessage, server
<1>2. ASSUME PollTimer \/ \E p \in Pages : Refocus(p) \/ FetchFails(p) \/ PageStep(p)
      PROVE  lost \subseteq lost' /\ UNCHANGED announced
  BY <1>2 DEF PollTimer, Refocus, PageStep, FetchAnswered, FetchShown, FetchFails, server
<1>. QED
  BY <1>1, <1>2, HookSteps DEF FeedNext, ApiStep, SocketStep, FeedQuiet

(* A page goes on showing a change, or having a refetch that will; when    *)
(* the refetch fails, the loss is on record or another is to come.         *)
LEMMA ShowsOn ==
  ASSUME FeedInv, [FeedNext]_feedVars, NEW p \in Pages, NEW v \in OnPage(p), Shows(p, v)
  PROVE  Shows(p, v)' \/ OnItsWay(v)'
<1>. v \in 1..announced
  BY DEF OnPage
<1>0. lost \subseteq lost'
  BY FeedGrows
<1>1. CASE UNCHANGED pages
  BY <1>0, <1>1 DEF pages, Shows
<1>2. ASSUME NEW ps, Invalidate(ps), UNCHANGED cache  PROVE Shows(p, v)'
  BY <1>0, <1>2 DEF Invalidate, Shows
<1>3. ASSUME OnMessage \/ PollTimer \/ \E q \in Pages : Refocus(q)  PROVE Shows(p, v)'
  BY <1>2, <1>3 DEF OnMessage, PollTimer, Refocus
<1>4. ASSUME NEW q \in Pages, FetchAnswered(q)  PROVE Shows(p, v)'
  <2>1. version >= v
    BY SMT DEF FeedInv
  <2>. QED  BY <1>0, <1>4, <2>1 DEF FetchAnswered, Shows, FeedInv
<1>5. ASSUME NEW q \in Pages, FetchShown(q)  PROVE Shows(p, v)'
  <2>1. fetch[q] = "answered" /\ fetch' = [fetch EXCEPT ![q] = "idle"]
        /\ cache' = [cache EXCEPT ![q] = answer[q]] /\ UNCHANGED answer
    BY <1>5 DEF FetchShown
  <2>2. CASE p # q
    BY <1>0, <2>1, <2>2 DEF Shows, FeedInv
  <2>3. CASE p = q
    <3>1. cache'[p] = answer[p]
      BY <2>1, <2>3 DEF FeedInv
    <3>2. cache[p] >= v => answer[p] >= v
      BY SMT DEF FeedInv
    <3>. QED  BY <1>0, <2>1, <2>3, <3>1, <3>2 DEF Shows
  <2>. QED  BY <2>2, <2>3
<1>6. CASE ChangeJob \/ InsertEvent \/ ListenerDown \/ Broadcast \/ Disconnect
  BY <1>1, <1>6 DEF ChangeJob, InsertEvent, ListenerDown, Broadcast, Disconnect
<1>7. ASSUME NEW q \in Pages, FetchFails(q)  PROVE Shows(p, v)' \/ OnItsWay(v)'
  <2>1. /\ fetch' = [fetch EXCEPT ![q] = "idle"] /\ UNCHANGED <<answer, cache, inbox, channel>>
        /\ lost' = lost \cup {<<w, q>> : w \in {x \in OnPage(q) : cache[q] < x /\ ~OnItsWay(x)}}
    BY <1>7 DEF FetchFails, server
  <2>2. CASE p # q
    BY <1>0, <2>1, <2>2 DEF Shows, FeedInv
  <2>3. CASE p = q
    <3>1. cache[p] >= v \/ cache[p] < v
      BY SMT DEF FeedInv
    <3>2. OnItsWay(v) => OnItsWay(v)'
      BY <2>1 DEF OnItsWay
    <3>3. cache[p] < v /\ ~OnItsWay(v) => <<v, p>> \in lost'
      BY <2>1, <2>3
    <3>. QED  BY <2>1, <3>1, <3>2, <3>3 DEF Shows
  <2>. QED  BY <2>2, <2>3
<1>. QED
  BY <1>1, <1>3, <1>4, <1>5, <1>6, <1>7, HookSteps
  DEF FeedNext, ApiStep, SocketStep, PageStep, FeedQuiet

Seen(v) == Shows("list", v) /\ (v \in Shown => Shows("detail", v))

(* A message on its way arrives, moves on or is dropped.                   *)
LEMMA MovesOn ==
  ASSUME FeedInv, [FeedNext]_feedVars, NEW v \in 1..announced, OnItsWay(v)
  PROVE  Dropped(v)' \/ OnItsWay(v)' \/ Seen(v)'
<1>. inbox \in Seq(Nat) /\ channel \in Seq(Nat) /\ version \in Nat
  BY DEF FeedInv
<1>0. OnItsWay(v) = (Among(v, inbox) \/ Among(v, channel))
      /\ OnItsWay(v)' = (Among(v, inbox') \/ Among(v, channel'))
  BY DEF OnItsWay, Among
<1>1. CASE UNCHANGED <<inbox, channel>>
  BY <1>0, <1>1
<1>2. CASE InsertEvent
  BY <1>0, <1>2, AmongAppended DEF InsertEvent
<1>3. CASE ListenerDown
  <2>1. /\ lost' = lost \cup {<<inbox[i], "listener">> : i \in 1..Len(inbox)}
        /\ UNCHANGED channel
    BY <1>3 DEF ListenerDown
  <2>. QED  BY <1>0, <2>1 DEF Among, Dropped
<1>4. CASE Broadcast
  <2>. PICK m \in Nat : m = Head(inbox)
    BY <1>4, SMT DEF Broadcast
  <2>1. /\ inbox # <<>> /\ inbox' = Tail(inbox)
        /\ \/ channel' = Append(channel, m)
           \/ UNCHANGED channel /\ \E place \in {"socket", "buffer"} : <<m, place>> \in lost'
    BY <1>4 DEF Broadcast
  <2>2. Among(v, channel) => Among(v, channel')
    BY <2>1, AmongAppended
  <2>3. Among(v, inbox) => v = m \/ Among(v, inbox')
    BY <2>1, AmongTail
  <2>4. Dropped(m)' \/ Among(m, channel')
    BY <2>1, AmongAppended DEF Dropped
  <2>. QED  BY <1>0, <2>2, <2>3, <2>4
<1>5. CASE Disconnect
  <2>1. /\ lost' = lost \cup {<<channel[i], "socket">> : i \in 1..Len(channel)}
        /\ UNCHANGED inbox
    BY <1>5 DEF Disconnect, server
  <2>. QED  BY <1>0, <2>1 DEF Among, Dropped
<1>6. CASE OnMessage
  <2>1. /\ channel # <<>> /\ channel' = Tail(channel) /\ UNCHANGED inbox
        /\ Invalidate({"list"} \cup (IF Head(channel) \in Shown THEN {"detail"} ELSE {}))
    BY <1>6 DEF OnMessage, server
  <2>2. Among(v, channel) => v = Head(channel) \/ Among(v, channel')
    BY <2>1, AmongTail
  <2>3. v = Head(channel) => Seen(v)'
    BY <2>1 DEF Invalidate, Pages, Seen, Shows
  <2>. QED  BY <1>0, <2>1, <2>2, <2>3
<1>7. ASSUME ChangeJob \/ PollTimer \/ \E p \in Pages : Refocus(p) \/ FetchFails(p) \/ PageStep(p)
      PROVE  UNCHANGED <<inbox, channel>>
  BY <1>7
  DEF ChangeJob, PollTimer, Refocus, PageStep, FetchAnswered, FetchShown, FetchFails, server
<1>. QED
  BY <1>1, <1>2, <1>3, <1>4, <1>5, <1>6, <1>7, HookSteps
  DEF FeedNext, ApiStep, SocketStep, FeedQuiet

LEMMA ForgottenStep == FeedInv /\ NoChangeForgotten /\ [FeedNext]_feedVars => NoChangeForgotten'
<1>. SUFFICES ASSUME FeedInv, NoChangeForgotten, [FeedNext]_feedVars, NEW v \in 1..announced'
              PROVE  Dropped(v)' \/ OnItsWay(v)' \/ Seen(v)'
  BY DEF NoChangeForgotten, Seen
<1>1. CASE v \in 1..announced
  <2>1. Dropped(v) \/ OnItsWay(v) \/ Seen(v)
    BY <1>1 DEF NoChangeForgotten, Seen
  <2>2. Dropped(v) => Dropped(v)'
    BY FeedGrows DEF Dropped
  <2>3. Seen(v) => Seen(v)' \/ OnItsWay(v)'
    <3>1. Shows("list", v) => Shows("list", v)' \/ OnItsWay(v)'
      BY <1>1, ShowsOn DEF Pages, OnPage
    <3>2. v \in Shown /\ Shows("detail", v) => Shows("detail", v)' \/ OnItsWay(v)'
      BY <1>1, ShowsOn DEF Pages, OnPage
    <3>. QED  BY <3>1, <3>2 DEF Seen
  <2>. QED  BY <1>1, <2>1, <2>2, <2>3, MovesOn
<1>2. CASE v \notin 1..announced
  <2>1. InsertEvent
    BY <1>2, FeedGrows
  <2>2. v = version
    <3>1. announced' = version
      BY <2>1 DEF InsertEvent
    <3>. QED  BY <1>2, <3>1, SMT DEF FeedInv
  <2>3. CASE listening
    <3>1. inbox' = Append(inbox, v) /\ inbox \in Seq(Nat) /\ v \in Nat
      BY <2>1, <2>2, <2>3 DEF InsertEvent, FeedInv
    <3>2. Among(v, inbox')
      BY <3>1, AmongAppended
    <3>. QED  BY <3>2 DEF Among, OnItsWay
  <2>4. CASE ~listening
    BY <2>1, <2>2, <2>4 DEF InsertEvent, Dropped
  <2>. QED  BY <2>3, <2>4
<1>. QED  BY <1>1, <1>2

(* No announced change is forgotten on its way to the pages, for any       *)
(* number of changes and outages and any buffer: what is not on a page or  *)
(* on its way to one was dropped before it reached the browser, or the     *)
(* refetch that was to show it failed with its retry.                      *)
THEOREM ChangesAreNotForgotten == FeedSpec => []NoChangeForgotten
<1>1. FeedInit => NoChangeForgotten
  <2>. SUFFICES ASSUME announced = 0, NEW v \in 1..announced  PROVE FALSE
    BY DEF FeedInit, NoChangeForgotten
  <2>. QED  BY SMT
<1>. QED  BY <1>1, FeedInvInit, FeedInvStep, ForgottenStep, PTL DEF FeedSpec
=============================================================================
