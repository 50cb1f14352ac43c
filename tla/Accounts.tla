------------------------------ MODULE Accounts ------------------------------
(***************************************************************************)
(* Accounts and sessions: registration, login and the exchange of a        *)
(* refresh token for a new pair.  Tokens are stateless: the only state is  *)
(* the users table and the tokens callers hold.  Module ApiKeys adds the   *)
(* calls that need a credential.                                           *)
(***************************************************************************)
EXTENDS Naturals

CONSTANTS
  Calls,    \* requests; the id of a user or of a key is the call that made it
  Emails, Passwords,
  None,
  Failing   \* may a statement fail?

ASSUME AccountsAssumption ==
  None \notin Emails \cup Passwords \cup Calls /\ Failing \in BOOLEAN

TokenTypes == {"access", "refresh", "ws_ticket"}
Tokens == Calls \X TokenTypes   \* <<call that issued it, type>>

VARIABLES
  email, passwordHash,  \* users rows
  pc, result,           \* a call: progress, answer
  user,                 \* and the user it acts for
  issued, expired,      \* tokens
  typed, lineage        \* history: the email and password a call's chain of
                        \* credentials began with, and the kinds along it

accountRows == <<email, passwordHash>>
tokens == <<issued, expired>>
chain == <<user, typed, lineage>>
accountVars == <<accountRows, pc, result, chain, tokens>>

AccountsInit ==
  /\ email = [q \in Calls |-> None]
  /\ passwordHash = [q \in Calls |-> <<>>]
  /\ pc = [q \in Calls |-> "new"]
  /\ result = [q \in Calls |-> "none"]
  /\ user = [q \in Calls |-> None]
  /\ issued = {} /\ expired = {}
  /\ typed = [q \in Calls |-> <<None, None>>]
  /\ lineage = [q \in Calls |-> {}]

Finish(q, r) ==
  /\ pc' = [pc EXCEPT ![q] = "done"]
  /\ result' = [result EXCEPT ![q] = r]

(* argon2id of the password with a salt of its own: the hash is compared   *)
(* with one computed from the stored salt.                                 *)
HashPassword(p, salt) == <<p, salt>>
VerifyPassword(hash, p) == hash = HashPassword(p, hash[2])

UsersByEmail(e) == {u \in Calls : email[u] = e}

(* Altered: without UNIQUE on users.email.                                 *)
EmailNeverTaken(e) == FALSE
EmailTaken(e) == UsersByEmail(e) # {}

(* Altered: any type will do.                                              *)
VerifyAnyType(t, want) == t \in issued \ expired
Verify(t, want) == t \in issued \ expired /\ t[2] = want

(* Call q acts for user u on the strength of credential c, a token or key. *)
ActFor(q, u, c) ==
  /\ user' = [user EXCEPT ![q] = u]
  /\ typed' = [typed EXCEPT ![q] = typed[c[1]]]
  /\ lineage' = [lineage EXCEPT ![q] = lineage[c[1]] \cup {c[2]}]

issueTokenPair(q) == issued' = issued \cup {<<q, "access">>, <<q, "refresh">>}

Refuse(q, r) == Finish(q, r) /\ UNCHANGED <<chain, issued>>

PasswordLogin(q, e, p, refusal) ==
  \/ \E u \in UsersByEmail(e) :
       \/ /\ VerifyPassword(passwordHash[u], p)
          /\ issueTokenPair(q) /\ Finish(q, "ok")
          /\ user' = [user EXCEPT ![q] = u]
          /\ typed' = [typed EXCEPT ![q] = <<e, p>>]
          /\ UNCHANGED lineage
       \/ ~VerifyPassword(passwordHash[u], p) /\ Refuse(q, refusal)
  \/ UsersByEmail(e) = {} /\ Refuse(q, refusal)

-----------------------------------------------------------------------------
(* POST /auth/register: first the insert ...                               *)
Register(q, e, p) ==
  /\ pc[q] = "new"
  /\ \/ EmailTaken(e) /\ Finish(q, "email_taken") /\ UNCHANGED <<accountRows, typed>>
     \/ /\ ~EmailTaken(e)
        /\ email' = [email EXCEPT ![q] = e]
        /\ passwordHash' = [passwordHash EXCEPT ![q] = HashPassword(p, q)]
        /\ typed' = [typed EXCEPT ![q] = <<e, p>>]
        /\ pc' = [pc EXCEPT ![q] = "login"]
        /\ UNCHANGED result
  /\ UNCHANGED <<user, lineage, tokens>>

(* ... then a login with the same email and password.                      *)
RegisterLogin(q) ==
  /\ pc[q] = "login"
  /\ PasswordLogin(q, typed[q][1], typed[q][2], "unissued")
  /\ UNCHANGED <<accountRows, expired>>

Login(q, e, p) ==
  /\ pc[q] = "new"
  /\ PasswordLogin(q, e, p, "invalid_credentials")
  /\ UNCHANGED <<accountRows, expired>>

(* A refresh token of a user who has a row.                                *)
Refreshes(t) == Verify(t, "refresh") /\ email[user[t[1]]] # None

Refresh(q, t) ==
  /\ pc[q] = "new"
  /\ \/ Refreshes(t) /\ ActFor(q, user[t[1]], t) /\ issueTokenPair(q) /\ Finish(q, "ok")
     \/ ~Refreshes(t) /\ Refuse(q, "invalid_token")
  /\ UNCHANGED <<accountRows, expired>>

(* A statement fails; a registration's row may be in place already.        *)
CallError(q) ==
  /\ Failing
  /\ pc[q] \in {"new", "login"}
  /\ Refuse(q, "error")
  /\ UNCHANGED <<accountRows, expired>>

Expire(t) ==
  /\ t \in issued \ expired
  /\ expired' = expired \cup {t}
  /\ UNCHANGED <<accountRows, pc, result, chain, issued>>

AccountsNext ==
  \/ \E q \in Calls :
       \/ RegisterLogin(q) \/ CallError(q)
       \/ \E e \in Emails, p \in Passwords : Register(q, e, p) \/ Login(q, e, p)
       \/ \E t \in issued : Refresh(q, t)
  \/ \E t \in issued : Expire(t)

-----------------------------------------------------------------------------
(* Whoever registers is logged in to the account they registered, though   *)
(* the handler looks it up again by its email; only a failing statement    *)
(* makes it "registered but could not issue tokens" (AuthHandler.Register).*)
RegistrationOpensOwnAccount ==
  \A q \in Calls : email[q] # None =>
    user[q] \in {None, q} /\ result[q] # "unissued"
=============================================================================
