--------------------------- MODULE AccountsProofs ---------------------------
(***************************************************************************)
(* The auth service, for any number of calls, emails and passwords.  The   *)
(* inductive invariant says what holds of one call at each point of its    *)
(* progress, CallOK; a step changes the call that takes it and disturbs no *)
(* other (OthersUndisturbed), since a user's row and a call's chain never  *)
(* change once they are set.                                               *)
(***************************************************************************)
EXTENDS ApiKeys, TLAPS

USE Zenon

Kinds == {"access", "refresh", "ws_ticket", "key"}
AuthType ==
  /\ email \in [Calls -> Emails \cup {None}]
  /\ passwordHash \in [Calls -> {<<>>} \cup (Passwords \X Calls)]
  /\ pc \in [Calls -> {"new", "login", "lookup", "touch", "handler", "done"}]
  /\ result \in [Calls ->
       {"none", "ok", "email_taken", "unissued", "invalid_credentials", "invalid_token",
        "unauthorized", "not_found", "error"}]
  /\ user \in [Calls -> Calls \cup {None}]
  /\ typed \in [Calls -> (Emails \cup {None}) \X (Passwords \cup {None})]
  /\ lineage \in [Calls -> SUBSET Kinds]
  /\ issued \subseteq Tokens /\ expired \subseteq issued
  /\ owner \in [Calls -> Calls \cup {None}]
  /\ op \in [Calls -> Ops]
  /\ key \in [Calls -> Calls \cup {None}] /\ target \in [Calls -> Calls \cup {None}]

(* A row keeps the email and the hash of the password typed for it, and    *)
(* its call has no account but its own.                                    *)
RowOK(q) ==
  email[q] # None =>
    /\ typed[q][1] = email[q] /\ passwordHash[q] = HashPassword(typed[q][2], q)
    /\ pc[q] \in {"login", "done"} /\ user[q] \in {None, q} /\ result[q] # "unissued"

(* Whom a call acts for is the account its chain began with.               *)
ChainOK(q) ==
  /\ user[q] # None => /\ email[user[q]] # None /\ typed[q] = typed[user[q]]
                       /\ lineage[q] \subseteq {"access", "refresh", "key"}
  /\ owner[q] # None => owner[q] = user[q]

(* The tokens of a call, issued in its last step.                          *)
TokensOK(q) ==
  \A t \in issued : t[1] = q =>
    /\ pc[q] = "done" /\ user[q] # None
    /\ t[2] \in {"access", "refresh"} => lineage[q] \subseteq {"refresh"}

PhaseOK(q) ==
  /\ pc[q] \in {"new", "login"} => lineage[q] = {} /\ op[q] = "list"
  /\ pc[q] \in {"new", "login", "lookup"} => user[q] = None
  /\ pc[q] = "login" => email[q] # None
  /\ pc[q] \in {"touch", "handler"} => user[q] # None
  /\ pc[q] # "done" => result[q] = "none" /\ owner[q] = None

Revokes(q) == op[q] = "revoke" /\ result[q] = "ok"
RevocationOK(q) ==
  Revokes(q) => target[q] \in Rows \cap revoked /\ user[q] = owner[target[q]]

CallOK(q) == RowOK(q) /\ ChainOK(q) /\ TokensOK(q) /\ PhaseOK(q) /\ RevocationOK(q)

(* A call made with a revoked key does not get past the lookup.            *)
LateCall(q) ==
  /\ key[q] \in gone /\ user[q] = None /\ pc[q] \in {"lookup", "done"}
  /\ result[q] \in {"none", "unauthorized"}

UniqueEmails ==
  \A p, q \in Calls : email[p] # None /\ email[p] = email[q] => p = q
OneRevocation ==
  \A p, q \in Calls : Revokes(p) /\ Revokes(q) /\ target[p] = target[q] => p = q
Dead == gone \subseteq revoked /\ \A q \in late : q \in Calls /\ LateCall(q)

AuthInv ==
  AuthType /\ UniqueEmails /\ OneRevocation /\ Dead /\ \A q \in Calls : CallOK(q)

LEMMA AuthInit == Init => AuthInv
<1>. SUFFICES ASSUME Init  PROVE AuthInv
  OBVIOUS
<1>1. AuthType
  BY DEF Init, AccountsInit, AuthType, Ops, Keys
<1>2. UniqueEmails /\ OneRevocation /\ Dead
  BY DEF Init, AccountsInit, UniqueEmails, OneRevocation, Revokes, Dead
<1>3. ASSUME NEW q \in Calls  PROVE CallOK(q)
  BY DEF Init, AccountsInit, CallOK, RowOK, ChainOK, TokensOK, PhaseOK, RevocationOK, Revokes, Keys
<1>. QED  BY <1>1, <1>2, <1>3 DEF AuthInv

-----------------------------------------------------------------------------
(* The step changes nothing of another call, its row or its key.           *)
OnlyCall(q) ==
  \A s \in Calls \ {q} :
    /\ email'[s] = email[s] /\ passwordHash'[s] = passwordHash[s]
    /\ pc'[s] = pc[s] /\ result'[s] = result[s]
    /\ user'[s] = user[s] /\ typed'[s] = typed[s] /\ lineage'[s] = lineage[s]
    /\ owner'[s] = owner[s]
    /\ op'[s] = op[s] /\ key'[s] = key[s] /\ target'[s] = target[s]

(* A step of a call under way, which leaves its row, when it has one.      *)
CallStep(q) ==
  /\ OnlyCall(q) /\ pc[q] # "done"
  /\ email[q] # None => email'[q] = email[q] /\ typed'[q] = typed[q]
  /\ issued \subseteq issued' /\ \A t \in issued' : t \in issued \/ t[1] = q
  /\ revoked \subseteq revoked' /\ gone \subseteq gone'

LEMMA OthersUndisturbed ==
  ASSUME AuthInv, NEW q \in Calls, CallStep(q), NEW s \in Calls, s # q
  PROVE  CallOK(s)'
<1>. AuthType /\ CallOK(s) /\ CallOK(q)
  BY DEF AuthInv
<1>1. /\ email'[s] = email[s] /\ passwordHash'[s] = passwordHash[s]
      /\ pc'[s] = pc[s] /\ result'[s] = result[s]
      /\ user'[s] = user[s] /\ typed'[s] = typed[s] /\ lineage'[s] = lineage[s]
      /\ owner'[s] = owner[s] /\ op'[s] = op[s] /\ target'[s] = target[s]
  BY DEF CallStep, OnlyCall
<1>2. RowOK(s)'
  BY <1>1 DEF CallOK, RowOK
<1>3. ChainOK(s)'
  <2>1. ASSUME user[s] # None
        PROVE  /\ user[s] \in Calls /\ email[user[s]] # None /\ typed[s] = typed[user[s]]
               /\ lineage[s] \subseteq {"access", "refresh", "key"}
    BY <2>1 DEF AuthType, CallOK, ChainOK
  <2>2. ASSUME NEW u \in Calls, email[u] # None  PROVE email'[u] = email[u] /\ typed'[u] = typed[u]
    BY <2>2 DEF CallStep, OnlyCall
  <2>3. user[s] # None => email'[user[s]] # None /\ typed[s] = typed'[user[s]]
    BY <2>1, <2>2
  <2>. QED  BY <1>1, <2>1, <2>3 DEF CallOK, ChainOK
<1>4. TokensOK(s)'
  <2>1. \A t \in issued' : t[1] = s => t \in issued
    BY DEF CallStep
  <2>. QED  BY <1>1, <2>1 DEF CallOK, TokensOK
<1>5. PhaseOK(s)'
  BY <1>1 DEF CallOK, PhaseOK
<1>6. RevocationOK(s)'
  <2>. SUFFICES ASSUME Revokes(s)'
                PROVE  (target[s] \in Rows \cap revoked)' /\ (user[s] = owner[target[s]])'
    BY DEF RevocationOK
  <2>1. target[s] \in Rows \cap revoked /\ user[s] = owner[target[s]]
    BY <1>1 DEF CallOK, RevocationOK, Revokes
  <2>2. target[s] \in Calls \ {q} /\ owner[target[s]] # None
    BY <2>1 DEF Rows, Keys, CallOK, PhaseOK, CallStep
  <2>3. owner'[target[s]] = owner[target[s]] /\ target[s] \in revoked'
    BY <2>1, <2>2 DEF CallStep, OnlyCall
  <2>. QED  BY <1>1, <2>1, <2>2, <2>3 DEF Rows, Keys
<1>. QED  BY <1>2, <1>3, <1>4, <1>5, <1>6 DEF CallOK

(* What is left to show of a step that adds no row and revokes no key.     *)
LEMMA PlainStep ==
  ASSUME AuthInv, NEW q \in Calls, CallStep(q), AuthType', CallOK(q)', ~Revokes(q)',
         email' = email, gone' = gone, revoked' = revoked,
         late' \subseteq late \cup {q}, q \in late' => LateCall(q)'
  PROVE  AuthInv'
<1>1. UniqueEmails'
  BY DEF AuthInv, UniqueEmails
<1>2. \A s \in Calls \ {q} : Revokes(s)' <=> Revokes(s)
  BY DEF CallStep, OnlyCall, Revokes
<1>3. OneRevocation'
  <2>. SUFFICES ASSUME NEW s \in Calls, NEW v \in Calls, Revokes(s)', Revokes(v)',
                       target'[s] = target'[v]
                PROVE  s = v
    BY DEF OneRevocation
  <2>1. Revokes(s) /\ target'[s] = target[s] /\ Revokes(v) /\ target'[v] = target[v]
    BY <1>2 DEF CallStep, OnlyCall
  <2>. QED  BY <2>1 DEF AuthInv, OneRevocation
<1>4. ASSUME NEW s \in late'  PROVE s \in Calls /\ LateCall(s)'
  <2>1. CASE s = q
    BY <2>1
  <2>2. CASE s # q
    <3>1. s \in late /\ s \in Calls /\ LateCall(s)
      BY <1>4, <2>2 DEF AuthInv, Dead
    <3>. QED  BY <2>2, <3>1 DEF CallStep, OnlyCall, LateCall
  <2>. QED  BY <2>1, <2>2
<1>5. Dead'
  BY <1>4 DEF AuthInv, Dead
<1>6. \A s \in Calls : CallOK(s)'
  BY OthersUndisturbed
<1>. QED  BY <1>1, <1>3, <1>5, <1>6 DEF AuthInv

(* A call ends without acting, issuing or revoking anything.               *)
Answers == {"ok", "email_taken", "invalid_credentials", "invalid_token", "unauthorized",
            "not_found", "error"}
LEMMA Ends ==
  ASSUME AuthInv, NEW q \in Calls, pc[q] # "done", NEW r \in Answers, Finish(q, r),
         UNCHANGED <<accountRows, tokens, chain, keyRows, key, gone, late>>,
         op' \in [Calls -> Ops], target' \in [Calls -> Calls \cup {None}],
         \A s \in Calls \ {q} : op'[s] = op[s] /\ target'[s] = target[s],
         op'[q] = "revoke" => r # "ok", q \in late => r = "unauthorized"
  PROVE  AuthInv'
<1>. AuthType /\ CallOK(q)
  BY DEF AuthInv
<1>. UNCHANGED <<email, passwordHash, issued, expired, user, typed, lineage>>
  BY DEF accountRows, tokens, chain
<1>. UNCHANGED <<owner, revoked, used, key, gone, late>>
  BY DEF keyRows
<1>1. /\ pc'[q] = "done" /\ result'[q] = r
      /\ \A s \in Calls \ {q} : pc'[s] = pc[s] /\ result'[s] = result[s]
  BY DEF Finish, AuthType
<1>2. CallStep(q)
  BY <1>1 DEF CallStep, OnlyCall
<1>3. AuthType'
  <2>1. pc' \in [Calls -> {"new", "login", "lookup", "touch", "handler", "done"}]
    BY DEF Finish, AuthType
  <2>2. result' \in [Calls ->
          {"none", "ok", "email_taken", "unissued", "invalid_credentials", "invalid_token",
           "unauthorized", "not_found", "error"}]
    BY DEF Finish, AuthType, Answers
  <2>. QED  BY <2>1, <2>2 DEF AuthType
<1>4. CallOK(q)'
  <2>1. RowOK(q)'
    BY <1>1 DEF CallOK, RowOK, Answers
  <2>2. ChainOK(q)'
    BY DEF CallOK, ChainOK
  <2>3. TokensOK(q)'
    BY <1>1 DEF CallOK, TokensOK
  <2>4. PhaseOK(q)'
    BY <1>1 DEF PhaseOK
  <2>5. RevocationOK(q)'
    BY <1>1 DEF RevocationOK, Revokes
  <2>. QED  BY <2>1, <2>2, <2>3, <2>4, <2>5 DEF CallOK
<1>5. ~Revokes(q)'
  BY <1>1 DEF Revokes
<1>6. q \in late => LateCall(q)'
  BY <1>1 DEF AuthInv, Dead, LateCall
<1>. QED  BY <1>2, <1>3, <1>4, <1>5, <1>6, PlainStep

(* A call that has not begun, or that logs in, is refused.                 *)
LEMMA Refuses ==
  ASSUME AuthInv, NEW q \in Calls, pc[q] \in {"new", "login"}, NEW r \in Answers, Finish(q, r),
         UNCHANGED <<accountRows, tokens, chain, keyVars>>
  PROVE  AuthInv'
<1>. AuthType /\ CallOK(q)
  BY DEF AuthInv
<1>1. UNCHANGED <<accountRows, tokens, chain, keyRows, key, gone, late, op, target>>
  BY DEF keyVars, request
<1>2. q \notin late /\ op[q] # "revoke"
  BY DEF AuthInv, Dead, LateCall, CallOK, PhaseOK
<1>3. /\ op' \in [Calls -> Ops] /\ target' \in [Calls -> Calls \cup {None}]
      /\ \A s \in Calls \ {q} : op'[s] = op[s] /\ target'[s] = target[s]
      /\ op'[q] # "revoke"
  BY <1>1, <1>2 DEF AuthType
<1>. QED  BY <1>1, <1>2, <1>3, Ends

-----------------------------------------------------------------------------
(* A call issues a pair for user u, whose chain it continues.              *)
LEMMA PairStep ==
  ASSUME AuthInv, NEW q \in Calls, pc[q] \in {"new", "login"}, NEW u \in Calls,
         email[u] # None, email[q] # None => u = q /\ typed'[q] = typed[q],
         issueTokenPair(q), Finish(q, "ok"),
         user' = [user EXCEPT ![q] = u],
         NEW ty \in (Emails \cup {None}) \X (Passwords \cup {None}),
         typed' = [typed EXCEPT ![q] = ty], ty = typed[u],
         lineage' \in [Calls -> SUBSET Kinds], lineage'[q] \subseteq {"refresh"},
         \A s \in Calls \ {q} : lineage'[s] = lineage[s],
         UNCHANGED <<accountRows, expired, keyVars>>
  PROVE  AuthInv'
<1>. AuthType /\ CallOK(q)
  BY DEF AuthInv
<1>. UNCHANGED <<email, passwordHash, expired, owner, revoked, used, op, key, target, gone, late>>
  BY DEF accountRows, keyVars, keyRows, request
<1>1. /\ pc'[q] = "done" /\ result'[q] = "ok" /\ user'[q] = u /\ typed'[q] = ty
      /\ \A s \in Calls \ {q} : /\ pc'[s] = pc[s] /\ result'[s] = result[s]
                               /\ user'[s] = user[s] /\ typed'[s] = typed[s]
  BY DEF Finish, AuthType
<1>2. /\ issued \subseteq issued' /\ issued' \subseteq Tokens
      /\ \A t \in issued' : t \in issued \/ t[1] = q
  <2>1. issued' = issued \cup {<<q, "access">>, <<q, "refresh">>}
    BY DEF issueTokenPair
  <2>2. issued \subseteq Tokens
    BY DEF AuthType
  <2>3. {<<q, "access">>, <<q, "refresh">>} \subseteq Tokens
    BY SMT DEF Tokens, TokenTypes
  <2>. QED  BY ONLY <2>1, <2>2, <2>3, SMT
<1>3. op[q] = "list" /\ owner[q] = None /\ q \notin late
  BY DEF CallOK, PhaseOK, AuthInv, Dead, LateCall
<1>4. CallStep(q)
  BY <1>1, <1>2 DEF CallStep, OnlyCall
<1>5. AuthType'
  <2>1. pc' \in [Calls -> {"new", "login", "lookup", "touch", "handler", "done"}]
    BY DEF Finish, AuthType
  <2>2. result' \in [Calls ->
          {"none", "ok", "email_taken", "unissued", "invalid_credentials", "invalid_token",
           "unauthorized", "not_found", "error"}]
    BY DEF Finish, AuthType
  <2>3. /\ user' \in [Calls -> Calls \cup {None}]
        /\ typed' \in [Calls -> (Emails \cup {None}) \X (Passwords \cup {None})]
    BY DEF AuthType
  <2>. QED  BY <1>2, <2>1, <2>2, <2>3 DEF AuthType
<1>6. CallOK(q)'
  <2>1. RowOK(q)'
    <3>1. email[q] # None => /\ typed[q][1] = email[q]
                             /\ passwordHash[q] = HashPassword(typed[q][2], q)
      BY DEF CallOK, RowOK
    <3>. QED  BY <1>1, <3>1 DEF RowOK
  <2>2. ChainOK(q)'
    <3>1. typed'[u] = ty
      BY <1>1
    <3>. QED  BY <1>1, <1>3, <3>1 DEF ChainOK
  <2>3. TokensOK(q)'
    BY <1>1, AccountsAssumption DEF TokensOK
  <2>4. PhaseOK(q)'
    BY <1>1 DEF PhaseOK
  <2>5. RevocationOK(q)'
    BY <1>3 DEF RevocationOK, Revokes
  <2>. QED  BY <2>1, <2>2, <2>3, <2>4, <2>5 DEF CallOK
<1>7. ~Revokes(q)'
  BY <1>3 DEF Revokes
<1>. QED  BY <1>3, <1>4, <1>5, <1>6, <1>7, PlainStep

(* A password login issues a pair for the user with that email, who was    *)
(* registered with that password, or is refused.                           *)
LEMMA PasswordStep ==
  ASSUME AuthInv, NEW q \in Calls, pc[q] \in {"new", "login"},
         NEW e \in Emails, NEW p \in Passwords, NEW r \in Answers \cup {"unissued"},
         email[q] # None => e = typed[q][1] /\ p = typed[q][2],
         r = "unissued" => email[q] # None,
         PasswordLogin(q, e, p, r), UNCHANGED <<accountRows, expired, keyVars>>
  PROVE  AuthInv'
<1>. AuthType /\ CallOK(q)
  BY DEF AuthInv
<1>1. ASSUME NEW u \in UsersByEmail(e)
      PROVE  /\ u \in Calls /\ email[u] = e /\ email[u] # None
             /\ typed[u][1] = e /\ passwordHash[u] = HashPassword(typed[u][2], u)
             /\ email[q] # None => u = q
  <2>1. u \in Calls /\ email[u] = e /\ e # None
    BY AccountsAssumption DEF UsersByEmail
  <2>2. typed[u][1] = e /\ passwordHash[u] = HashPassword(typed[u][2], u)
    BY <2>1 DEF AuthInv, CallOK, RowOK
  <2>3. email[q] # None => email[q] = e
    BY DEF CallOK, RowOK
  <2>. QED  BY <2>1, <2>2, <2>3 DEF AuthInv, UniqueEmails
<1>2. ASSUME NEW u \in UsersByEmail(e)  PROVE VerifyPassword(passwordHash[u], p) <=> p = typed[u][2]
  BY <1>1, SMT DEF VerifyPassword, HashPassword
<1>3. email[q] # None => q \in UsersByEmail(e)
  BY DEF CallOK, RowOK, UsersByEmail
<1>4. CASE Refuse(q, r) /\ r # "unissued"
  <2>. r \in Answers
    BY <1>4
  <2>. QED  BY <1>4, Refuses DEF Refuse, tokens
<1>5. ASSUME NEW u \in UsersByEmail(e), VerifyPassword(passwordHash[u], p),
             issueTokenPair(q), Finish(q, "ok"), user' = [user EXCEPT ![q] = u],
             typed' = [typed EXCEPT ![q] = <<e, p>>], UNCHANGED lineage
      PROVE  AuthInv'
  <2>1. typed[u] = <<e, p>>
    <3>1. typed[u] \in (Emails \cup {None}) \X (Passwords \cup {None})
      BY <1>1 DEF AuthType
    <3>. QED  BY <1>1, <1>2, <1>5, <3>1, SMT
  <2>2. typed'[q] = <<e, p>>
    BY <1>5 DEF AuthType
  <2>3. lineage'[q] \subseteq {"refresh"} /\ lineage' \in [Calls -> SUBSET Kinds]
    BY <1>5 DEF CallOK, PhaseOK, AuthType
  <2>4. /\ u \in Calls /\ email[u] # None
        /\ email[q] # None => u = q /\ typed'[q] = typed[q]
    BY <1>1, <2>1, <2>2
  <2>5. <<e, p>> \in (Emails \cup {None}) \X (Passwords \cup {None})
    BY SMT
  <2>. QED  BY <1>5, <2>1, <2>3, <2>4, <2>5, PairStep
<1>6. r = "unissued" => \A u \in UsersByEmail(e) : VerifyPassword(passwordHash[u], p)
  BY <1>1, <1>2
<1>. QED  BY <1>3, <1>4, <1>5, <1>6 DEF PasswordLogin

-----------------------------------------------------------------------------
LEMMA RegisterStep ==
  ASSUME AuthInv, NEW q \in Calls, NEW e \in Emails, NEW p \in Passwords, Register(q, e, p),
         UNCHANGED keyVars
  PROVE  AuthInv'
<1>. AuthType /\ CallOK(q) /\ pc[q] = "new"
  BY DEF AuthInv, Register
<1>1. CASE EmailTaken(e)
  BY <1>1, Refuses DEF Register, chain, Answers
<1>2. CASE ~EmailTaken(e)
  <2>. UNCHANGED <<result, user, lineage, issued, expired, owner, revoked, used, op, key, target,
                   gone, late>>
    BY <1>2 DEF Register, tokens, keyVars, keyRows, request
  <2>1. /\ email' = [email EXCEPT ![q] = e]
        /\ passwordHash' = [passwordHash EXCEPT ![q] = HashPassword(p, q)]
        /\ typed' = [typed EXCEPT ![q] = <<e, p>>]
        /\ pc' = [pc EXCEPT ![q] = "login"]
    BY <1>2 DEF Register
  <2>2. /\ email'[q] = e /\ passwordHash'[q] = HashPassword(p, q) /\ typed'[q] = <<e, p>>
        /\ pc'[q] = "login"
        /\ \A s \in Calls \ {q} : /\ email'[s] = email[s] /\ passwordHash'[s] = passwordHash[s]
                                 /\ typed'[s] = typed[s] /\ pc'[s] = pc[s]
    BY <2>1 DEF AuthType
  <2>3. e # None /\ \A s \in Calls : email[s] # e
    BY <1>2, AccountsAssumption DEF EmailTaken, UsersByEmail
  <2>4. email[q] = None /\ user[q] = None /\ result[q] = "none" /\ owner[q] = None
    BY DEF CallOK, RowOK, PhaseOK
  <2>5. CallStep(q)
    BY <2>2, <2>4 DEF CallStep, OnlyCall
  <2>6. AuthType'
    <3>1. /\ HashPassword(p, q) \in Passwords \X Calls
          /\ <<e, p>> \in (Emails \cup {None}) \X (Passwords \cup {None})
      BY SMT DEF HashPassword
    <3>. QED  BY <2>1, <3>1 DEF AuthType
  <2>7. CallOK(q)'
    <3>1. RowOK(q)'
      <4>1. typed'[q][1] = e /\ typed'[q][2] = p
        BY <2>2, SMT
      <4>. QED  BY <2>2, <2>4, <4>1 DEF RowOK
    <3>2. ChainOK(q)' /\ TokensOK(q)'
      <4>1. \A t \in issued : t[1] # q
        BY DEF CallOK, TokensOK
      <4>. QED  BY <2>4, <4>1 DEF ChainOK, TokensOK
    <3>3. PhaseOK(q)' /\ RevocationOK(q)'
      BY <2>2, <2>3, <2>4 DEF CallOK, PhaseOK, RevocationOK, Revokes
    <3>. QED  BY <3>1, <3>2, <3>3 DEF CallOK
  <2>8. UniqueEmails'
    <3>. SUFFICES ASSUME NEW s \in Calls, NEW v \in Calls, email'[s] # None, email'[s] = email'[v]
                  PROVE  s = v
      BY DEF UniqueEmails
    <3>. QED  BY <2>2, <2>3 DEF AuthInv, UniqueEmails
  <2>9. OneRevocation' /\ Dead'
    <3>1. q \notin late
      BY DEF AuthInv, Dead, LateCall
    <3>2. \A s \in late : s \in Calls /\ LateCall(s)'
      BY <2>2, <3>1 DEF AuthInv, Dead, LateCall
    <3>. QED  BY <3>2 DEF AuthInv, OneRevocation, Dead, Revokes
  <2>. QED  BY <2>5, <2>6, <2>7, <2>8, <2>9, OthersUndisturbed DEF AuthInv
<1>. QED  BY <1>1, <1>2

(* The login that ends a registration finds the row it has just made.      *)
LEMMA LoginStep ==
  ASSUME AuthInv, NEW q \in Calls, UNCHANGED keyVars,
         RegisterLogin(q) \/ \E e \in Emails, p \in Passwords : Login(q, e, p)
  PROVE  AuthInv'
<1>. AuthType /\ CallOK(q)
  BY DEF AuthInv
<1>1. CASE RegisterLogin(q)
  <2>1. pc[q] = "login" /\ email[q] # None /\ email[q] \in Emails
    BY <1>1 DEF RegisterLogin, CallOK, PhaseOK, AuthType
  <2>2. typed[q][1] \in Emails /\ typed[q][2] \in Passwords
    <3>1. typed[q][1] = email[q] /\ passwordHash[q] = HashPassword(typed[q][2], q)
      BY <2>1 DEF CallOK, RowOK
    <3>2. passwordHash[q] \in {<<>>} \cup (Passwords \X Calls)
      BY DEF AuthType
    <3>3. typed[q][2] \in Passwords
      BY <3>1, <3>2, SMT DEF HashPassword
    <3>. QED  BY <2>1, <3>1, <3>3
  <2>3. PasswordLogin(q, typed[q][1], typed[q][2], "unissued") /\ UNCHANGED <<accountRows, expired, keyVars>>
    BY <1>1 DEF RegisterLogin
  <2>. QED  BY <2>1, <2>2, <2>3, PasswordStep
<1>2. ASSUME NEW e \in Emails, NEW p \in Passwords, Login(q, e, p)  PROVE AuthInv'
  <2>1. pc[q] = "new" /\ email[q] = None
    BY <1>2 DEF Login, CallOK, RowOK
  <2>2. PasswordLogin(q, e, p, "invalid_credentials") /\ UNCHANGED <<accountRows, expired, keyVars>>
    BY <1>2 DEF Login
  <2>. QED  BY <2>1, <2>2, PasswordStep DEF Answers
<1>. QED  BY <1>1, <1>2

LEMMA TokenCalls == AuthInv => \A t \in issued : t[1] \in Calls /\ user[t[1]] \in Calls
<1>. SUFFICES ASSUME AuthInv, NEW t \in issued  PROVE t[1] \in Calls /\ user[t[1]] \in Calls
  OBVIOUS
<1>1. t[1] \in Calls
  BY SMT DEF AuthInv, AuthType, Tokens
<1>. QED  BY <1>1 DEF AuthInv, AuthType, CallOK, TokensOK

LEMMA RefreshStep ==
  ASSUME AuthInv, NEW q \in Calls, NEW t \in issued, Refresh(q, t), UNCHANGED keyVars
  PROVE  AuthInv'
<1>. AuthType /\ CallOK(q) /\ pc[q] = "new" /\ email[q] = None
  BY DEF AuthInv, Refresh, CallOK, RowOK
<1>1. CASE ~Refreshes(t)
  BY <1>1, Refuses DEF Refresh, Refuse, tokens, Answers
<1>2. CASE Refreshes(t)
  <2>1. /\ ActFor(q, user[t[1]], t) /\ issueTokenPair(q) /\ Finish(q, "ok")
        /\ UNCHANGED <<accountRows, expired, keyVars>>
    BY <1>2 DEF Refresh
  <2>2. t[1] \in Calls /\ user[t[1]] \in Calls /\ email[user[t[1]]] # None
    BY <1>2, TokenCalls DEF Refreshes
  <2>3. CallOK(t[1]) /\ t[2] = "refresh"
    BY <1>2, <2>2 DEF AuthInv, Refreshes, Verify
  <2>4. typed[t[1]] = typed[user[t[1]]] /\ lineage[t[1]] \subseteq {"refresh"}
    BY <2>2, <2>3, AccountsAssumption DEF CallOK, ChainOK, TokensOK
  <2>5. typed[t[1]] \in (Emails \cup {None}) \X (Passwords \cup {None})
    BY <2>2 DEF AuthType
  <2>6. /\ lineage' \in [Calls -> SUBSET Kinds] /\ lineage'[q] \subseteq {"refresh"}
        /\ \A s \in Calls \ {q} : lineage'[s] = lineage[s]
    <3>1. lineage[t[1]] \cup {t[2]} \in SUBSET Kinds
      BY <2>3, <2>4 DEF Kinds
    <3>. QED  BY <2>1, <2>3, <2>4, <3>1 DEF ActFor, AuthType
  <2>7. user' = [user EXCEPT ![q] = user[t[1]]] /\ typed' = [typed EXCEPT ![q] = typed[t[1]]]
    BY <2>1 DEF ActFor
  <2>. QED  BY <2>1, <2>2, <2>4, <2>5, <2>6, <2>7, PairStep
<1>. QED  BY <1>1, <1>2

LEMMA AccountsStep == ASSUME AuthInv, AccountsNext, UNCHANGED keyVars PROVE AuthInv'
<1>1. ASSUME NEW q \in Calls, CallError(q)  PROVE AuthInv'
  BY <1>1, Refuses DEF CallError, Refuse, tokens, Answers
<1>2. ASSUME NEW t \in issued, Expire(t)  PROVE AuthInv'
  <2>. AuthType
    BY DEF AuthInv
  <2>. UNCHANGED <<email, passwordHash, pc, result, user, typed, lineage, issued>>
    BY <1>2 DEF Expire, accountRows, chain
  <2>. UNCHANGED <<owner, revoked, used, op, key, target, gone, late>>
    BY DEF keyVars, keyRows, request
  <2>1. AuthType'
    BY <1>2 DEF Expire, AuthType
  <2>2. UniqueEmails' /\ OneRevocation' /\ Dead'
    BY DEF AuthInv, UniqueEmails, OneRevocation, Revokes, Dead, LateCall
  <2>3. ASSUME NEW s \in Calls  PROVE CallOK(s)'
    <3>. CallOK(s)
      BY DEF AuthInv
    <3>1. RowOK(s)' /\ ChainOK(s)' /\ TokensOK(s)'
      BY DEF CallOK, RowOK, ChainOK, TokensOK
    <3>2. PhaseOK(s)' /\ RevocationOK(s)'
      BY DEF CallOK, PhaseOK, RevocationOK, Revokes, Rows
    <3>. QED  BY <3>1, <3>2 DEF CallOK
  <2>. QED  BY <2>1, <2>2, <2>3 DEF AuthInv
<1>. QED  BY <1>1, <1>2, RegisterStep, LoginStep, RefreshStep DEF AccountsNext

-----------------------------------------------------------------------------
(* A call is authenticated by an access token or a key of user u.          *)
LEMMA Authenticated ==
  ASSUME AuthInv, NEW q \in Calls, pc[q] \in {"new", "lookup"}, q \notin late,
         NEW c, c[1] \in Calls, c[2] \in {"access", "key"}, user[c[1]] # None,
         ActFor(q, user[c[1]], c),
         NEW ph \in {"touch", "handler"}, pc' = [pc EXCEPT ![q] = ph],
         UNCHANGED <<accountRows, tokens, result, keyRows, key, gone, late>>,
         op' \in [Calls -> Ops], target' \in [Calls -> Calls \cup {None}],
         \A s \in Calls \ {q} : op'[s] = op[s] /\ target'[s] = target[s]
  PROVE  AuthInv'
<1>. AuthType /\ CallOK(q) /\ CallOK(c[1])
  BY DEF AuthInv
<1>. UNCHANGED <<email, passwordHash, issued, expired, result>>
  BY DEF accountRows, tokens
<1>. UNCHANGED <<owner, revoked, used, key, gone, late>>
  BY DEF keyRows
<1>1. /\ user[c[1]] \in Calls /\ email[user[c[1]]] # None /\ typed[c[1]] = typed[user[c[1]]]
      /\ lineage[c[1]] \subseteq {"access", "refresh", "key"}
  <2>1. user[c[1]] \in Calls
    <3>1. user \in [Calls -> Calls \cup {None}]
      BY DEF AuthType
    <3>2. user[c[1]] \in Calls \cup {None}
      BY ONLY <3>1, c[1] \in Calls
    <3>. QED  BY <3>2
  <2>2. ChainOK(c[1])
    BY DEF CallOK
  <2>. QED  BY <2>1, <2>2 DEF ChainOK
<1>2. /\ pc'[q] = ph /\ user'[q] = user[c[1]] /\ typed'[q] = typed[c[1]]
      /\ lineage'[q] = lineage[c[1]] \cup {c[2]}
      /\ \A s \in Calls \ {q} : /\ pc'[s] = pc[s] /\ user'[s] = user[s]
                               /\ typed'[s] = typed[s] /\ lineage'[s] = lineage[s]
  <2>1. pc'[q] = ph /\ \A s \in Calls \ {q} : pc'[s] = pc[s]
    BY DEF AuthType
  <2>2. user'[q] = user[c[1]] /\ \A s \in Calls \ {q} : user'[s] = user[s]
    BY DEF ActFor, AuthType
  <2>3. typed'[q] = typed[c[1]] /\ \A s \in Calls \ {q} : typed'[s] = typed[s]
    BY DEF ActFor, AuthType
  <2>4. /\ lineage'[q] = lineage[c[1]] \cup {c[2]}
        /\ \A s \in Calls \ {q} : lineage'[s] = lineage[s]
    BY DEF ActFor, AuthType
  <2>. QED  BY <2>1, <2>2, <2>3, <2>4
<1>3. email[q] = None /\ result[q] = "none" /\ owner[q] = None /\ \A t \in issued : t[1] # q
  BY DEF CallOK, RowOK, PhaseOK, TokensOK
<1>4. CallStep(q)
  BY <1>2, <1>3 DEF CallStep, OnlyCall
<1>5. AuthType'
  <2>1. pc' \in [Calls -> {"new", "login", "lookup", "touch", "handler", "done"}]
    BY DEF AuthType
  <2>2. user' \in [Calls -> Calls \cup {None}]
    BY <1>1 DEF ActFor, AuthType
  <2>3. typed' \in [Calls -> (Emails \cup {None}) \X (Passwords \cup {None})]
    BY DEF ActFor, AuthType
  <2>4. lineage' \in [Calls -> SUBSET Kinds]
    <3>1. lineage[c[1]] \cup {c[2]} \in SUBSET Kinds
      BY <1>1 DEF Kinds
    <3>. QED  BY <3>1 DEF ActFor, AuthType
  <2>. QED  BY <2>1, <2>2, <2>3, <2>4 DEF AuthType
<1>6. CallOK(q)'
  <2>1. RowOK(q)' /\ TokensOK(q)'
    BY <1>3 DEF RowOK, TokensOK
  <2>2. ChainOK(q)'
    <3>1. user[c[1]] # q
      BY <1>1, <1>3
    <3>2. typed'[user[c[1]]] = typed[user[c[1]]]
      BY <1>1, <1>2, <3>1
    <3>3. email'[user'[q]] # None /\ typed'[q] = typed'[user'[q]]
      BY <1>1, <1>2, <3>2
    <3>4. lineage'[q] \subseteq {"access", "refresh", "key"}
      BY <1>1, <1>2
    <3>5. owner'[q] = None
      BY <1>3
    <3>. QED  BY ONLY <3>3, <3>4, <3>5 DEF ChainOK
  <2>3. PhaseOK(q)'
    BY <1>2, <1>3 DEF PhaseOK
  <2>4. RevocationOK(q)'
    BY <1>2, <1>3 DEF RevocationOK, Revokes
  <2>. QED  BY <2>1, <2>2, <2>3, <2>4 DEF CallOK
<1>7. ~Revokes(q)'
  BY <1>3 DEF Revokes
<1>. QED  BY <1>4, <1>5, <1>6, <1>7, PlainStep

LEMMA BeginTokenStep ==
  ASSUME AuthInv, NEW q \in Calls, NEW o \in Ops, NEW t \in Rows \cup {None},
         NEW tok \in issued, BeginWithToken(q, o, t, tok)
  PROVE  AuthInv'
<1>. AuthType /\ pc[q] = "new" /\ q \notin late
  BY DEF AuthInv, BeginWithToken, Dead, LateCall
<1>1. /\ op' \in [Calls -> Ops] /\ target' \in [Calls -> Calls \cup {None}]
      /\ \A s \in Calls \ {q} : op'[s] = op[s] /\ target'[s] = target[s]
  <2>. t \in Calls \cup {None}
    BY DEF Rows, Keys
  <2>. QED  BY DEF BeginWithToken, AuthType
<1>2. UNCHANGED <<accountRows, tokens, keyRows, key, gone, late>>
  BY DEF BeginWithToken
<1>3. CASE Verify(tok, "access")
  <2>1. tok[1] \in Calls /\ tok[2] = "access" /\ user[tok[1]] # None
    BY <1>3, TokenCalls, AccountsAssumption DEF Verify
  <2>2. ActFor(q, user[tok[1]], tok) /\ pc' = [pc EXCEPT ![q] = "handler"] /\ UNCHANGED result
    BY <1>3 DEF BeginWithToken
  <2>. QED  BY <1>1, <1>2, <2>1, <2>2, Authenticated
<1>4. CASE ~Verify(tok, "access")
  <2>1. Finish(q, "unauthorized") /\ UNCHANGED chain
    BY <1>4 DEF BeginWithToken
  <2>. QED  BY <1>1, <1>2, <2>1, Ends DEF Answers
<1>. QED  BY <1>3, <1>4

LEMMA BeginKeyStep ==
  ASSUME AuthInv, NEW q \in Calls, NEW o \in Ops, NEW t \in Rows \cup {None},
         NEW k \in Rows, BeginWithKey(q, o, t, k)
  PROVE  AuthInv'
<1>. AuthType /\ CallOK(q) /\ pc[q] = "new" /\ q \notin late
  BY DEF AuthInv, BeginWithKey, Dead, LateCall
<1>. UNCHANGED <<email, passwordHash, issued, expired, user, typed, lineage, result>>
  BY DEF BeginWithKey, accountRows, tokens, chain
<1>. UNCHANGED <<owner, revoked, used, gone>>
  BY DEF BeginWithKey, keyRows
<1>1. t \in Calls \cup {None} /\ k \in Calls
  BY DEF Rows, Keys
<1>2. /\ pc'[q] = "lookup" /\ key'[q] = k
      /\ \A s \in Calls \ {q} : /\ pc'[s] = pc[s] /\ key'[s] = key[s]
                               /\ op'[s] = op[s] /\ target'[s] = target[s]
  BY DEF BeginWithKey, AuthType
<1>3. CallStep(q)
  BY <1>2 DEF CallStep, OnlyCall
<1>4. AuthType'
  <2>1. pc' \in [Calls -> {"new", "login", "lookup", "touch", "handler", "done"}]
    BY DEF BeginWithKey, AuthType
  <2>2. /\ op' \in [Calls -> Ops] /\ target' \in [Calls -> Calls \cup {None}]
        /\ key' \in [Calls -> Calls \cup {None}]
    BY <1>1 DEF BeginWithKey, AuthType
  <2>. QED  BY <2>1, <2>2 DEF AuthType
<1>5. email[q] = None /\ user[q] = None /\ result[q] = "none" /\ owner[q] = None
  BY DEF CallOK, RowOK, PhaseOK
<1>6. CallOK(q)'
  <2>1. RowOK(q)' /\ ChainOK(q)'
    BY <1>5 DEF RowOK, ChainOK
  <2>2. TokensOK(q)'
    BY DEF CallOK, TokensOK
  <2>3. PhaseOK(q)' /\ RevocationOK(q)'
    BY <1>2, <1>5 DEF PhaseOK, RevocationOK, Revokes
  <2>. QED  BY <2>1, <2>2, <2>3 DEF CallOK
<1>7. ~Revokes(q)'
  BY <1>5 DEF Revokes
<1>8. late' \subseteq late \cup {q} /\ (q \in late' => LateCall(q)')
  BY <1>2, <1>5 DEF BeginWithKey, LateCall
<1>. QED  BY <1>3, <1>4, <1>6, <1>7, <1>8, PlainStep

LEMMA LookupStep == ASSUME AuthInv, NEW q \in Calls, Lookup(q) PROVE AuthInv'
<1>. AuthType /\ CallOK(q) /\ pc[q] = "lookup"
  BY DEF AuthInv, Lookup
<1>1. UNCHANGED <<accountRows, tokens, keyRows, key, gone, late, op, target>>
  BY DEF Lookup, keyVars, request
<1>2. /\ op' \in [Calls -> Ops] /\ target' \in [Calls -> Calls \cup {None}]
      /\ \A s \in Calls \ {q} : op'[s] = op[s] /\ target'[s] = target[s]
  BY <1>1 DEF AuthType
<1>3. CASE Finish(q, "unauthorized") /\ UNCHANGED chain
  BY <1>1, <1>2, <1>3, Ends DEF Answers
<1>4. ASSUME NEW k \in GetAPIKeyByHash(key[q]), ActFor(q, owner[k], <<k, "key">>),
             pc' = [pc EXCEPT ![q] = "touch"], UNCHANGED result
      PROVE  AuthInv'
  <2>1. k \in Calls /\ k = key[q] /\ k \notin revoked /\ owner[k] # None
    BY DEF GetAPIKeyByHash, Rows, Keys
  <2>2. q \notin late
    BY <2>1 DEF AuthInv, Dead, LateCall
  <2>3. owner[k] = user[k] /\ user[k] # None
    BY <2>1 DEF AuthInv, CallOK, ChainOK
  <2>4. <<k, "key">>[1] = k /\ <<k, "key">>[2] = "key"
    BY SMT
  <2>. QED  BY <1>1, <1>2, <1>4, <2>1, <2>2, <2>3, <2>4, Authenticated
<1>. QED  BY <1>3, <1>4 DEF Lookup

-----------------------------------------------------------------------------
(* A handler: the call is authenticated and was not late.                  *)
LEMMA TouchStep == ASSUME AuthInv, NEW q \in Calls, Touch(q) PROVE AuthInv'
<1>. AuthType /\ CallOK(q) /\ pc[q] = "touch" /\ q \notin late
  BY DEF AuthInv, Touch, Dead, LateCall
<1>. UNCHANGED <<email, passwordHash, issued, expired, user, typed, lineage, result>>
  BY DEF Touch, accountRows, tokens, chain
<1>. UNCHANGED <<owner, revoked, op, key, target, gone, late>>
  BY DEF Touch, request
<1>1. pc'[q] = "handler" /\ \A s \in Calls \ {q} : pc'[s] = pc[s]
  BY DEF Touch, AuthType
<1>2. CallStep(q)
  BY <1>1 DEF CallStep, OnlyCall
<1>3. AuthType'
  BY DEF Touch, AuthType
<1>4. CallOK(q)'
  <2>1. RowOK(q)' /\ ChainOK(q)' /\ TokensOK(q)'
    BY DEF CallOK, RowOK, ChainOK, TokensOK
  <2>2. PhaseOK(q)' /\ RevocationOK(q)'
    BY <1>1 DEF CallOK, PhaseOK, RevocationOK, Revokes
  <2>. QED  BY <2>1, <2>2 DEF CallOK
<1>5. ~Revokes(q)'
  BY DEF CallOK, PhaseOK, Revokes
<1>. QED  BY <1>2, <1>3, <1>4, <1>5, PlainStep

(* A key or a ticket is made for the user the call acts for.               *)
LEMMA MakeStep ==
  ASSUME AuthInv, NEW q \in Calls, CreateAPIKey(q) \/ CreateTicket(q)
  PROVE  AuthInv'
<1>. AuthType /\ CallOK(q) /\ pc[q] = "handler" /\ q \notin late
  BY DEF AuthInv, CreateAPIKey, CreateTicket, Dead, LateCall
<1>. UNCHANGED <<email, passwordHash, expired, user, typed, lineage>>
  BY DEF CreateAPIKey, CreateTicket, accountRows, tokens, chain
<1>. UNCHANGED <<revoked, op, key, target, gone, late>>
  BY DEF CreateAPIKey, CreateTicket, request, keyVars, keyRows
<1>1. email[q] = None /\ user[q] # None /\ op[q] # "revoke"
  BY DEF CallOK, RowOK, PhaseOK, CreateAPIKey, CreateTicket
<1>2. Finish(q, "ok")
  BY DEF CreateAPIKey, CreateTicket
<1>3. /\ pc'[q] = "done" /\ result'[q] = "ok"
      /\ \A s \in Calls \ {q} : pc'[s] = pc[s] /\ result'[s] = result[s]
  BY <1>2 DEF Finish, AuthType
<1>4. /\ owner' \in [Calls -> Calls \cup {None}] /\ owner'[q] \in {None, user[q]}
      /\ \A s \in Calls \ {q} : owner'[s] = owner[s]
  <2>1. CASE CreateAPIKey(q)
    BY <2>1 DEF CreateAPIKey, AuthType
  <2>2. CASE CreateTicket(q)
    BY <2>2 DEF CreateTicket, keyVars, keyRows, AuthType, CallOK, PhaseOK
  <2>. QED  BY <2>1, <2>2
<1>5. /\ issued \subseteq issued' /\ issued' \subseteq Tokens
      /\ \A t \in issued' : t \in issued \/ (t[1] = q /\ t[2] = "ws_ticket")
  <2>1. CASE CreateAPIKey(q)
    BY <2>1 DEF CreateAPIKey, tokens, AuthType
  <2>2. CASE CreateTicket(q)
    BY <2>2, SMT DEF CreateTicket, AuthType, Tokens, TokenTypes
  <2>. QED  BY <2>1, <2>2
<1>6. CallStep(q)
  BY <1>1, <1>3, <1>4, <1>5 DEF CallStep, OnlyCall
<1>7. AuthType'
  <2>1. pc' \in [Calls -> {"new", "login", "lookup", "touch", "handler", "done"}]
    BY <1>2 DEF Finish, AuthType
  <2>2. result' \in [Calls ->
          {"none", "ok", "email_taken", "unissued", "invalid_credentials", "invalid_token",
           "unauthorized", "not_found", "error"}]
    BY <1>2 DEF Finish, AuthType
  <2>. QED  BY <1>4, <1>5, <2>1, <2>2 DEF AuthType
<1>8. CallOK(q)'
  <2>1. RowOK(q)' /\ ChainOK(q)'
    BY <1>1, <1>4 DEF CallOK, RowOK, ChainOK
  <2>2. TokensOK(q)'
    <3>1. \A t \in issued : t[1] # q
      BY DEF CallOK, TokensOK
    <3>. QED  BY <1>1, <1>3, <1>5, <3>1 DEF TokensOK
  <2>3. PhaseOK(q)' /\ RevocationOK(q)'
    BY <1>1, <1>3 DEF PhaseOK, RevocationOK, Revokes
  <2>. QED  BY <2>1, <2>2, <2>3 DEF CallOK
<1>9. ~Revokes(q)'
  BY <1>1 DEF Revokes
<1>. QED  BY <1>6, <1>7, <1>8, <1>9, PlainStep

LEMMA AnswerStep == ASSUME AuthInv, NEW q \in Calls, Answer(q) PROVE AuthInv'
<1>. AuthType /\ pc[q] = "handler" /\ q \notin late
  BY DEF AuthInv, Answer, Dead, LateCall
<1>1. UNCHANGED <<accountRows, tokens, chain, keyRows, key, gone, late, op, target>>
  BY DEF Answer, keyVars, request
<1>2. PICK r \in {"ok", "error"} : Finish(q, r) /\ (r = "ok" => op[q] = "list")
  BY DEF Answer
<1>3. /\ op' \in [Calls -> Ops] /\ target' \in [Calls -> Calls \cup {None}]
      /\ \A s \in Calls \ {q} : op'[s] = op[s] /\ target'[s] = target[s]
      /\ op'[q] = "revoke" => r # "ok"
  BY <1>1, <1>2 DEF AuthType
<1>. QED  BY <1>1, <1>2, <1>3, Ends DEF Answers

(* The row is the owner's and not revoked before, so no call revoked it.   *)
LEMMA RevokeStep == ASSUME AuthInv, NEW q \in Calls, RevokeAPIKey(q) PROVE AuthInv'
<1>. AuthType /\ CallOK(q) /\ pc[q] = "handler" /\ q \notin late
  BY DEF AuthInv, RevokeAPIKey, Dead, LateCall
<1>1. UNCHANGED <<accountRows, tokens, chain, owner, used, key, late, op, target>>
  BY DEF RevokeAPIKey, request
<1>. UNCHANGED <<email, passwordHash, issued, expired, user, typed, lineage, owner, op, key, target, late>>
  BY <1>1 DEF accountRows, tokens, chain
<1>2. CASE ~RevokeWhere(target[q], user[q])
  <2>1. Finish(q, "not_found") /\ UNCHANGED <<keyRows, gone>>
    BY <1>1, <1>2 DEF RevokeAPIKey, keyRows
  <2>2. /\ op' \in [Calls -> Ops] /\ target' \in [Calls -> Calls \cup {None}]
        /\ \A s \in Calls \ {q} : op'[s] = op[s] /\ target'[s] = target[s]
    BY DEF AuthType
  <2>. QED  BY <1>1, <2>1, <2>2, Ends DEF Answers
<1>3. CASE RevokeWhere(target[q], user[q])
  <2>1. /\ revoked' = revoked \cup {target[q]} /\ gone' = gone \cup {target[q]}
        /\ Finish(q, "ok") /\ op[q] = "revoke"
    BY <1>3 DEF RevokeAPIKey
  <2>2. target[q] \in Rows \ revoked /\ owner[target[q]] = user[q]
    BY <1>3 DEF RevokeWhere
  <2>3. /\ pc'[q] = "done" /\ result'[q] = "ok"
        /\ \A s \in Calls \ {q} : pc'[s] = pc[s] /\ result'[s] = result[s]
    BY <2>1 DEF Finish, AuthType
  <2>4. CallStep(q)
    BY <2>1, <2>3 DEF CallStep, OnlyCall
  <2>5. AuthType'
    <3>1. pc' \in [Calls -> {"new", "login", "lookup", "touch", "handler", "done"}]
      BY <2>1 DEF Finish, AuthType
    <3>2. result' \in [Calls ->
            {"none", "ok", "email_taken", "unissued", "invalid_credentials", "invalid_token",
             "unauthorized", "not_found", "error"}]
      BY <2>1 DEF Finish, AuthType
    <3>. QED  BY <3>1, <3>2 DEF AuthType
  <2>6. CallOK(q)'
    <3>1. RowOK(q)' /\ ChainOK(q)' /\ TokensOK(q)'
      BY <2>3 DEF CallOK, RowOK, ChainOK, TokensOK, PhaseOK
    <3>2. PhaseOK(q)' /\ RevocationOK(q)'
      BY <2>1, <2>2, <2>3 DEF PhaseOK, RevocationOK, Revokes, Rows
    <3>. QED  BY <3>1, <3>2 DEF CallOK
  <2>7. UniqueEmails'
    BY DEF AuthInv, UniqueEmails
  <2>8. \A s \in Calls \ {q} : (Revokes(s)' <=> Revokes(s)) /\ (Revokes(s) => target[s] # target[q])
    BY <2>2, <2>3 DEF Revokes, AuthInv, CallOK, RevocationOK
  <2>9. OneRevocation'
    BY <2>8 DEF AuthInv, OneRevocation
  <2>10. Dead'
    BY <2>1, <2>3 DEF AuthInv, Dead, LateCall
  <2>. QED  BY <2>4, <2>5, <2>6, <2>7, <2>9, <2>10, OthersUndisturbed DEF AuthInv
<1>. QED  BY <1>2, <1>3

(* The inductive invariant of the auth service.                            *)
THEOREM AuthInvariant == Spec => []AuthInv
<1>1. AuthInv /\ [Next]_vars => AuthInv'
  <2>. SUFFICES ASSUME AuthInv, [Next]_vars  PROVE AuthInv'
    OBVIOUS
  <2>1. CASE UNCHANGED vars
    <3>. UNCHANGED <<email, passwordHash, pc, result, user, typed, lineage, issued, expired>>
      BY <2>1 DEF vars, accountVars, accountRows, chain, tokens
    <3>. UNCHANGED <<owner, revoked, used, op, key, target, gone, late>>
      BY <2>1 DEF vars, keyVars, keyRows, request
    <3>1. AuthType' /\ UniqueEmails' /\ OneRevocation' /\ Dead'
      BY DEF AuthInv, AuthType, UniqueEmails, OneRevocation, Revokes, Dead, LateCall
    <3>2. ASSUME NEW s \in Calls  PROVE CallOK(s)'
      <4>. CallOK(s)
        BY DEF AuthInv
      <4>1. RowOK(s)' /\ ChainOK(s)' /\ TokensOK(s)'
        BY DEF CallOK, RowOK, ChainOK, TokensOK
      <4>2. PhaseOK(s)' /\ RevocationOK(s)'
        BY DEF CallOK, PhaseOK, RevocationOK, Revokes, Rows
      <4>. QED  BY <4>1, <4>2 DEF CallOK
    <3>. QED  BY <3>1, <3>2 DEF AuthInv
  <2>2. ASSUME NEW q \in Calls, Step(q)  PROVE AuthInv'
    BY <2>2, LookupStep, TouchStep, MakeStep, AnswerStep, RevokeStep DEF Step
  <2>. QED
    BY <2>1, <2>2, AccountsStep, BeginKeyStep, BeginTokenStep DEF Next
<1>. QED  BY <1>1, AuthInit, PTL DEF Spec

(* Whoever registers is logged in to the account they registered, and is   *)
(* refused tokens only when a statement fails: emails are unique and the   *)
(* stored hash is that of the password it was made with.                   *)
THEOREM RegistrationsOpenOwnAccounts == Spec => []RegistrationOpensOwnAccount
<1>1. AuthInv => RegistrationOpensOwnAccount
  BY DEF AuthInv, CallOK, RowOK, RegistrationOpensOwnAccount
<1>. QED  BY <1>1, AuthInvariant, PTL

(* Along chains of exchanges of any length, through refresh tokens, access *)
(* tokens and API keys, a credential is for the account whose email and    *)
(* password began the chain, and only refresh tokens renew a session.      *)
THEOREM CredentialChainsStayInAccount == Spec => []ChainsStayInAccount
<1>1. AuthInv => ChainsStayInAccount
  <2>. SUFFICES ASSUME AuthInv, NEW c \in Credentials
                PROVE  /\ email[Holder(c)] # None /\ typed[c[1]] = typed[Holder(c)]
                       /\ lineage[c[1]] \subseteq
                            IF c[2] \in {"access", "refresh"} THEN {"refresh"}
                                                              ELSE {"access", "refresh", "key"}
    BY DEF ChainsStayInAccount
  <2>1. CASE c \in issued
    <3>1. c[1] \in Calls /\ c[2] \in TokenTypes
      BY <2>1, SMT DEF AuthInv, AuthType, Tokens
    <3>2. Holder(c) = user[c[1]] /\ user[c[1]] # None
      BY <2>1, <3>1 DEF Holder, TokenTypes, AuthInv, CallOK, TokensOK
    <3>3. ChainOK(c[1]) /\ TokensOK(c[1])
      BY <3>1 DEF AuthInv, CallOK
    <3>4. c[2] \in {"access", "refresh"} => lineage[c[1]] \subseteq {"refresh"}
      BY <2>1, <3>3 DEF TokensOK
    <3>. QED  BY <3>2, <3>3, <3>4 DEF ChainOK
  <2>2. CASE c \in Rows \X {"key"}
    <3>1. c[1] \in Rows /\ c[2] = "key"
      BY <2>2, SMT
    <3>2. c[1] \in Calls /\ owner[c[1]] # None /\ Holder(c) = owner[c[1]]
      BY <3>1 DEF Rows, Keys, Holder
    <3>3. ChainOK(c[1])
      BY <3>2 DEF AuthInv, CallOK
    <3>4. Holder(c) = user[c[1]] /\ user[c[1]] # None
      BY <3>2, <3>3 DEF ChainOK
    <3>5. /\ email[user[c[1]]] # None /\ typed[c[1]] = typed[user[c[1]]]
          /\ lineage[c[1]] \subseteq {"access", "refresh", "key"}
      BY <3>3, <3>4 DEF ChainOK
    <3>6. c[2] \notin {"access", "refresh"}
      BY <3>1
    <3>. QED  BY <3>4, <3>5, <3>6
  <2>. QED  BY <2>1, <2>2 DEF Credentials
<1>. QED  BY <1>1, AuthInvariant, PTL

(* A revoked key stays revoked and a call made with it later is never      *)
(* authenticated: a touch of last_used_at that comes late does not bring   *)
(* the key back.                                                           *)
THEOREM RevokedKeysStayDead == Spec => []RevokedKeyIsDead
<1>1. AuthInv => RevokedKeyIsDead
  BY DEF AuthInv, Dead, LateCall, RevokedKeyIsDead
<1>. QED  BY <1>1, AuthInvariant, PTL

(* One call revokes a key, by the user who owns it.                        *)
THEOREM OneRevocationByOwner == Spec => []RevokedOnceByOwner
<1>1. AuthInv => RevokedOnceByOwner
  BY DEF AuthInv, CallOK, OneRevocation, RevocationOK, Revokes, RevokedOnceByOwner
<1>. QED  BY <1>1, AuthInvariant, PTL
=============================================================================
