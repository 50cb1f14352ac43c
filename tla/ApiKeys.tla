------------------------------ MODULE ApiKeys ------------------------------
(***************************************************************************)
(* The calls behind RequireAuth, made with an access token or with an API  *)
(* key: they create, list and revoke API keys and issue WebSocket tickets. *)
(* Each SQL statement of a call is a step, so a key may be revoked between *)
(* a call's lookup of it and the rest of the call.  With module Accounts   *)
(* this is the whole auth service.                                         *)
(***************************************************************************)
EXTENDS Accounts

Keys == Calls
Ops == {"create", "list", "revoke", "ticket"}

VARIABLES
  owner, revoked, used,  \* api_keys rows: user_id, revoked_at, last_used_at
  op, key, target,       \* a call: what it asks, its X-API-Key, the key it names
  gone, late             \* history: keys ever revoked; calls made with such a key

keyRows == <<owner, revoked, used>>
request == <<op, key, target>>
keyVars == <<keyRows, request, gone, late>>
vars == <<accountVars, keyVars>>

Init ==
  /\ AccountsInit
  /\ owner = [k \in Keys |-> None]
  /\ revoked = {} /\ used = {}
  /\ op = [q \in Calls |-> "list"]
  /\ key = [q \in Calls |-> None]
  /\ target = [q \in Calls |-> None]
  /\ gone = {} /\ late = {}

Rows == {k \in Keys : owner[k] # None}

(* RequireAuth prefers the X-API-Key header ...                            *)
BeginWithKey(q, o, t, k) ==
  /\ pc[q] = "new" /\ (t # None => o = "revoke")
  /\ op' = [op EXCEPT ![q] = o] /\ target' = [target EXCEPT ![q] = t]
  /\ key' = [key EXCEPT ![q] = k]
  /\ pc' = [pc EXCEPT ![q] = "lookup"]
  /\ late' = IF k \in gone THEN late \cup {q} ELSE late
  /\ UNCHANGED <<accountRows, tokens, chain, result, keyRows, gone>>

(* ... and verifies a bearer token without a statement.                    *)
BeginWithToken(q, o, t, tok) ==
  /\ pc[q] = "new" /\ (t # None => o = "revoke")
  /\ op' = [op EXCEPT ![q] = o] /\ target' = [target EXCEPT ![q] = t]
  /\ \/ /\ Verify(tok, "access")
        /\ ActFor(q, user[tok[1]], tok)
        /\ pc' = [pc EXCEPT ![q] = "handler"]
        /\ UNCHANGED result
     \/ ~Verify(tok, "access") /\ Finish(q, "unauthorized") /\ UNCHANGED chain
  /\ UNCHANGED <<accountRows, tokens, keyRows, key, gone, late>>

(* The hash of the raw key finds its row while it is not revoked.          *)
GetAPIKeyByHash(k) == (Rows \ revoked) \cap {k}

(* AuthenticateAPIKey; any error is a 401.                                 *)
Lookup(q) ==
  /\ pc[q] = "lookup"
  /\ \/ \E k \in GetAPIKeyByHash(key[q]) :
          /\ ActFor(q, owner[k], <<k, "key">>)
          /\ pc' = [pc EXCEPT ![q] = "touch"]
          /\ UNCHANGED result
     \/ /\ Failing \/ GetAPIKeyByHash(key[q]) = {}
        /\ Finish(q, "unauthorized")
        /\ UNCHANGED chain
  /\ UNCHANGED <<accountRows, tokens, keyVars>>

(* Altered: the whole row is written back as it was read.                  *)
TouchWritesRow(q) ==
  /\ pc[q] = "touch"
  /\ used' = used \cup {key[q]}
  /\ revoked' = revoked \ {key[q]}
  /\ pc' = [pc EXCEPT ![q] = "handler"]
  /\ UNCHANGED <<accountRows, tokens, chain, result, owner, request, gone, late>>

(* TouchAPIKeyLastUsed, whose error is ignored.                            *)
Touch(q) ==
  /\ pc[q] = "touch"
  /\ \/ used' = used \cup {key[q]}
     \/ Failing /\ UNCHANGED used
  /\ pc' = [pc EXCEPT ![q] = "handler"]
  /\ UNCHANGED <<accountRows, tokens, chain, result, owner, revoked, request, gone, late>>

CreateAPIKey(q) ==
  /\ pc[q] = "handler" /\ op[q] = "create"
  /\ owner' = [owner EXCEPT ![q] = user[q]]
  /\ Finish(q, "ok")
  /\ UNCHANGED <<accountRows, tokens, chain, revoked, used, request, gone, late>>

(* Altered: without AND revoked_at IS NULL.                                *)
RevokeWhereOwned(k, u) == k \in Rows /\ owner[k] = u
RevokeWhere(k, u) == k \in Rows /\ owner[k] = u /\ k \notin revoked

RevokeAPIKey(q) ==
  /\ pc[q] = "handler" /\ op[q] = "revoke"
  /\ \/ /\ RevokeWhere(target[q], user[q])
        /\ revoked' = revoked \cup {target[q]}
        /\ gone' = gone \cup {target[q]}
        /\ Finish(q, "ok")
     \/ /\ ~RevokeWhere(target[q], user[q])
        /\ Finish(q, "not_found")
        /\ UNCHANGED <<revoked, gone>>
  /\ UNCHANGED <<accountRows, tokens, chain, owner, used, request, late>>

(* POST /ws-ticket.                                                        *)
CreateTicket(q) ==
  /\ pc[q] = "handler" /\ op[q] = "ticket"
  /\ issued' = issued \cup {<<q, "ws_ticket">>}
  /\ Finish(q, "ok")
  /\ UNCHANGED <<accountRows, expired, chain, keyVars>>

(* A list, which changes nothing, or a handler whose statement fails.      *)
Answer(q) ==
  /\ pc[q] = "handler"
  /\ \/ op[q] = "list" /\ Finish(q, "ok")
     \/ Failing /\ Finish(q, "error")
  /\ UNCHANGED <<accountRows, tokens, chain, keyVars>>

Step(q) ==
  \/ Lookup(q) \/ Touch(q) \/ CreateAPIKey(q) \/ RevokeAPIKey(q) \/ CreateTicket(q) \/ Answer(q)

Next ==
  \/ AccountsNext /\ UNCHANGED keyVars
  \/ \E q \in Calls :
       \/ Step(q)
       \/ \E o \in Ops, t \in Rows \cup {None} :
            \/ \E k \in Rows : BeginWithKey(q, o, t, k)
            \/ \E tok \in issued : BeginWithToken(q, o, t, tok)

Spec == Init /\ [][Next]_vars

-----------------------------------------------------------------------------
(* Along any chain of exchanges, of refresh tokens for pairs, access       *)
(* tokens or keys for keys and tickets, every credential is for the        *)
(* account whose email and password were typed at its beginning.  A pair   *)
(* descends from a password by refresh tokens alone ("a refresh token      *)
(* cannot be replayed as an access token and vice versa", jwt.go): no key, *)
(* ticket or access token is ever turned into a new session, and nothing   *)
(* comes of a ticket.                                                      *)
Credentials == issued \cup (Rows \X {"key"})
Holder(c) == IF c[2] = "key" THEN owner[c[1]] ELSE user[c[1]]
ChainsStayInAccount ==
  \A c \in Credentials :
    /\ email[Holder(c)] # None /\ typed[c[1]] = typed[Holder(c)]
    /\ lineage[c[1]] \subseteq
         IF c[2] \in {"access", "refresh"} THEN {"refresh"} ELSE {"access", "refresh", "key"}

(* A revoked key stays revoked, and a call made with it later is not       *)
(* authenticated, whatever calls with the key were under way when it was   *)
(* revoked (AuthenticateAPIKey, and its touch of the row).                 *)
RevokedKeyIsDead ==
  /\ gone \subseteq revoked
  /\ \A q \in late : user[q] = None /\ result[q] \in {"none", "unauthorized"}

(* A key is revoked by one call only, made by the user who owns it;        *)
(* concurrent or repeated calls are told that it does not exist.           *)
RevokedOnceByOwner ==
  \A p, q \in Calls :
    (/\ op[p] = "revoke" /\ result[p] = "ok"
     /\ op[q] = "revoke" /\ result[q] = "ok"
     /\ target[p] = target[q])
    => p = q /\ user[p] = owner[target[p]]
=============================================================================
