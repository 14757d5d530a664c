------------------------------- MODULE Access -------------------------------
(***************************************************************************)
(* Accounts, API keys, browser sessions and the audit of requests: what    *)
(* auth/dependencies.py, db/repository.py and the handlers of              *)
(* server_app.py do with them, one step per access of the database.        *)
(*                                                                         *)
(* Requests run on a thread pool and interleave at every statement.  The   *)
(* single sign-on handlers, the handler of legacy POSTs and the audit      *)
(* middleware run on the event loop instead: between two awaits of theirs  *)
(* no other of them moves.  Commands of cli.py are other processes.        *)
(* Tokens are the identity of their rows; a token nobody minted is NoOne.  *)
(***************************************************************************)
EXTENDS Integers, FiniteSets

CONSTANTS
    Tenants, Emails,        \* a user is a tenant and an email
    Keys, Cookies,          \* ids of API keys and browser sessions, used once
    Calls,                  \* HTTP requests, each made once
    GivenRoles,             \* the roles administrators give
    PostScopes,             \* what the legacy POSTs of the instance need
    SsoTenant, SsoRole,     \* TRUSTOPS_OIDC_TENANT_SLUG, TRUSTOPS_OIDC_DEFAULT_ROLE
    NoOne,                  \* no credential, no identity
    Insecure,               \* the identity when authentication is off
    MaxMoment,              \* bound on the clock
    MaxOutside              \* bound on commands and changes by administrators

Users == Tenants \X Emails
Credentials == Keys \cup Cookies

RoleScopes ==
    [admin          |-> {"read", "write", "snapshot", "auth_admin", "connector_manage",
                         "workflow_manage", "control_manage"},
     security_admin |-> {"read", "write", "snapshot", "connector_manage",
                         "workflow_manage", "control_manage"},
     contributor    |-> {"read", "write", "workflow_run", "evidence_request"},
     auditor        |-> {"read"},
     read_only      |-> {"read"}]
Roles == DOMAIN RoleScopes

ASSUME AccessAssumption ==
    /\ PostScopes \subseteq {"write", "snapshot", "connector_manage", "workflow_manage",
                       "workflow_run"}
    /\ GivenRoles \subseteq Roles /\ SsoRole \in Roles /\ SsoTenant \in Tenants
    /\ Keys \cap Cookies = {} /\ NoOne \notin Credentials \cup Users \cup Calls
    /\ Insecure \notin Users \cup {NoOne}
    /\ MaxMoment \in Nat /\ MaxOutside \in Nat

VARIABLES
    mode,     \* [auth, provision]: the settings the server was started with
    tenant,   \* the tenants that exist
    user,     \* user[u]: role, is_active and who inserted the row
    key,      \* key[k]: status, owner, expiry, whether last_used_at is set
    cookie,   \* cookie[s]: the same for a browser session
    call,     \* call[c]: a request and what its handler holds
    line,     \* line[c]: its line in request_audit.jsonl
    loop,     \* the request that holds the event loop, or NoOne
    moment,   \* the time
    outside   \* how many commands and outside changes there have been

accessVars == <<mode, tenant, user, key, cookie, call, line, loop, moment, outside>>

Forever == MaxMoment + 1    \* an expiry that no request sees
NoUser == [role |-> "none", active |-> FALSE, by |-> "none"]
NoCredential == [status |-> "absent", owner |-> NoOne, expires |-> 0, used |-> FALSE]
NoLine == [actor |-> NoOne, decision |-> "none"]

Ops == {"none", "read", "mint", "revoke", "post", "login", "logout"}

\* "stale", decided on arrival: the credential opens nothing and never will.
Idle == [stage |-> "idle", op |-> "none", aim |-> NoOne, cred |-> NoOne, now |-> 0,
         who |-> NoOne, status |-> 0, changed |-> FALSE, stale |-> FALSE]

\* --insecure or TRUSTOPS_INSECURE; TRUSTOPS_OIDC_AUTO_PROVISION.
Settings == [auth : BOOLEAN, provision : BOOLEAN]

AccessInit ==
    /\ mode \in Settings
    /\ tenant = {}
    /\ user = [u \in Users |-> NoUser]
    /\ key = [k \in Keys |-> NoCredential]
    /\ cookie = [s \in Cookies |-> NoCredential]
    /\ call = [c \in Calls |-> Idle]
    /\ line = [c \in Calls |-> NoLine]
    /\ loop = NoOne
    /\ moment = 0
    /\ outside = 0

Row(x) == IF x \in Keys THEN key[x] ELSE cookie[x]
Known(u) == u \in Users /\ user[u] # NoUser

\* No request that arrives from now on may use the credential.
Dead(x) == Row(x).status = "revoked" \/ (Row(x).status = "active" /\ Row(x).expires <= moment)

\* Mutant: a revoked credential opens until it expires.
Opens_IgnoresStatus(x, t) == Row(x).status # "absent" /\ Row(x).expires > t

\* ApiKey.is_active and UserSession.is_active
Opens(x, t) == Row(x).status = "active" /\ Row(x).expires > t

At(c, stage) == call[c].stage = stage
GoTo(c, stage) == call' = [call EXCEPT ![c].stage = stage]

\* How the server answers, and the end of a request that is not answered: the
\* process dies, or an exception passes through the audit middleware.
Answered(c, status, changed) ==
    call' = [call EXCEPT ![c].stage = "answered", ![c].status = status, ![c].changed = changed]
\* How a request ends whose INSERT of a user met another one.
Conflict == 409
Closed(old, stage, status) ==
    [Idle EXCEPT !.stage = stage, !.op = old.op, !.status = status, !.changed = old.changed,
                 !.cred = IF stage = "done" THEN old.cred ELSE NoOne,
                 !.aim = IF status = Conflict THEN old.aim ELSE NoOne]
Lost(c, status) == call' = [call EXCEPT ![c] = Closed(@, "lost", status)]
Lose(c) == Lost(c, 500)

LoopIsFree == loop = NoOne

-----------------------------------------------------------------------------
(* Who is asking: get_identity and require_scope.                          *)

Aims(op) ==
    CASE op = "mint" -> Emails
      [] op = "revoke" -> Keys
      [] op = "post" -> PostScopes
      [] op = "login" -> Emails
      [] OTHER -> {NoOne}

\* The scope a request needs before its handler runs, and the one a legacy POST
\* needs after (required_post_scope).
Needs(op, aim) ==
    CASE op \in {"mint", "revoke"} -> {"auth_admin"}
      [] op = "post" -> {"read", aim}
      [] OTHER -> {"read"}

Receive(c) ==
    /\ At(c, "idle")
    /\ \E op \in Ops \ {"none"}, cred \in {x \in Credentials : Row(x).status # "absent"} \cup {NoOne} :
         \E aim \in Aims(op) :
           (op = "login" => cred = NoOne) /\ (op = "logout" => cred \notin Keys) /\
           call' = [call EXCEPT ![c] =
             [@ EXCEPT !.stage = IF op \in {"login", "logout"} THEN op ELSE "resolve",
                       !.op = op, !.aim = aim, !.cred = cred, !.now = moment,
                       !.stale = cred # NoOne /\ (Dead(cred) \/ ~user[Row(cred).owner].active)]]
    /\ UNCHANGED <<mode, tenant, user, key, cookie, line, loop, moment, outside>>

\* The handler may start once the identity has the scope.
Enter(c, who, role) ==
    LET allowed == Needs(call[c].op, call[c].aim) \subseteq RoleScopes[role]
    IN call' = [call EXCEPT ![c] =
         IF allowed THEN [@ EXCEPT !.stage = "handle", !.who = who]
                    ELSE [@ EXCEPT !.stage = "answered", !.status = 403, !.who = who]]

\* The row of the token, or an early answer.
Resolve(c) ==
    /\ At(c, "resolve")
    /\ \/ ~mode.auth /\ Enter(c, Insecure, "admin")
       \/ /\ mode.auth
          /\ IF call[c].cred # NoOne /\ Opens(call[c].cred, call[c].now)
             THEN GoTo(c, "identify") ELSE Answered(c, 401, FALSE)
    /\ UNCHANGED <<mode, tenant, user, key, cookie, line, loop, moment, outside>>

\* Mutant: the use of a key writes back the row that was read.
Used_WholeRow(k) == [key EXCEPT ![k].used = TRUE, ![k].status = "active"]

\* UPDATE api_keys SET last_used_at
Used(k) == [key EXCEPT ![k].used = TRUE]

\* key.user is loaded by a statement of its own; then the use is committed.
Identify(c) ==
    /\ At(c, "identify")
    /\ LET x == call[c].cred
           u == Row(x).owner
       IN \/ /\ ~user[u].active
             /\ Answered(c, 403, FALSE)
             /\ UNCHANGED key
          \/ /\ user[u].active
             /\ key' = IF x \in Keys THEN Used(x) ELSE key
             /\ Enter(c, u, user[u].role)
          \/ user[u].active /\ x \in Keys /\ Lose(c) /\ UNCHANGED key
    /\ UNCHANGED <<mode, tenant, user, cookie, line, loop, moment, outside>>

-----------------------------------------------------------------------------
(* Handlers behind a scope.                                                *)

TenantOf(c) == IF call[c].who = Insecure THEN NoOne ELSE call[c].who[1]

\* whoami, list_keys, v1_get: nothing changes.
Read(c) ==
    /\ At(c, "handle") /\ call[c].op = "read"
    /\ Answered(c, 200, FALSE)
    /\ UNCHANGED <<mode, tenant, user, key, cookie, line, loop, moment, outside>>

Minted(owner, expires) ==
    [status |-> "active", owner |-> owner, expires |-> expires, used |-> FALSE]

\* create_key: a key for a member of the caller's tenant.
MintKey(c) ==
    /\ At(c, "handle") /\ call[c].op = "mint"
    /\ LET u == <<TenantOf(c), call[c].aim>>
       IN \/ ~Known(u) /\ Answered(c, 404, FALSE) /\ UNCHANGED key
          \/ /\ Known(u)
             /\ \E k \in Keys, expires \in {moment + 1, Forever} :
                  key[k] = NoCredential /\ key' = [key EXCEPT ![k] = Minted(u, expires)]
             /\ Answered(c, 201, TRUE)
          \/ Known(u) /\ Lose(c) /\ UNCHANGED key
    /\ UNCHANGED <<mode, tenant, user, cookie, line, loop, moment, outside>>

\* revoke_api_key: session.get answers with the copy the session holds if this
\* is the caller's own key, which was active when it was read.
MayRevoke(c, k) ==
    /\ key[k] # NoCredential /\ key[k].owner[1] = TenantOf(c)
    /\ key[k].status = "active" \/ k = call[c].cred

FindKey(c) ==
    /\ At(c, "handle") /\ call[c].op = "revoke"
    /\ IF MayRevoke(c, call[c].aim) THEN GoTo(c, "write")
                                    ELSE Answered(c, 404, FALSE)
    /\ UNCHANGED <<mode, tenant, user, key, cookie, line, loop, moment, outside>>

\* UPDATE and commit, in one transaction.
RevokeKey(c) ==
    /\ At(c, "write") /\ call[c].op = "revoke"
    /\ \/ key' = [key EXCEPT ![call[c].aim].status = "revoked"] /\ Answered(c, 200, TRUE)
       \/ Lose(c) /\ UNCHANGED key
    /\ UNCHANGED <<mode, tenant, user, cookie, line, loop, moment, outside>>

\* legacy_post and v1_post: the data surface, whose state is that of other
\* modules.  A handler that fails may have changed it; an exception becomes an
\* answer, which the audit calls a denial.
Post(c) ==
    /\ At(c, "handle") /\ call[c].op = "post" /\ LoopIsFree
    /\ \E status \in {200, 400, 500} : Answered(c, status, status # 400)
    /\ UNCHANGED <<mode, tenant, user, key, cookie, line, loop, moment, outside>>

-----------------------------------------------------------------------------
(* Single sign-on: sso_callback and saml_acs, and logout.                  *)

\* Mutant: the handlers run on the thread pool.
HoldsLoop_Not(c) == NoOne

\* From the look-up to the commit the handler does not await.
HoldsLoop(c) == c

Member(c) == <<SsoTenant, call[c].aim>>

\* complete_oidc_login: the tenant is there, and its member active, or without a
\* row and the server set to provision.
MayLogIn(c) ==
    /\ SsoTenant \in tenant
    /\ IF Known(Member(c)) THEN user[Member(c)].active ELSE mode.provision

\* The identity provider rejects (401), or the local account does (403).
LogIn(c) ==
    /\ At(c, "login") /\ LoopIsFree
    /\ \/ Answered(c, 401, FALSE) /\ UNCHANGED loop
       \/ ~MayLogIn(c) /\ Answered(c, 403, FALSE) /\ UNCHANGED loop
       \/ /\ MayLogIn(c)
          /\ GoTo(c, IF Known(Member(c)) THEN "open" ELSE "provision")
          /\ loop' = HoldsLoop(c)
    /\ UNCHANGED <<mode, tenant, user, key, cookie, line, moment, outside>>

\* find_or_provision_user
Provisioned(c) ==
    IF At(c, "open") THEN user
    ELSE [user EXCEPT ![Member(c)] = [role |-> SsoRole, active |-> TRUE, by |-> "login"]]

\* create_user_session: for twelve hours.
OpenedSession(c, s) == [cookie EXCEPT ![s] = Minted(Member(c), moment + 1)]

\* INSERT of the user if there was none, INSERT of the session, commit.  The
\* unique constraint refuses a user somebody else inserted meanwhile.
OpenSession(c) ==
    /\ At(c, "open") \/ At(c, "provision")
    /\ loop' = NoOne
    /\ \/ /\ At(c, "open") \/ ~Known(Member(c))
          /\ user' = Provisioned(c)
          /\ \E s \in Cookies : cookie[s] = NoCredential /\ cookie' = OpenedSession(c, s)
          /\ Answered(c, 302, TRUE)
       \/ /\ At(c, "provision") /\ Known(Member(c))
          /\ Lost(c, Conflict)
          /\ UNCHANGED <<user, cookie>>
       \/ Lose(c) /\ UNCHANGED <<user, cookie>>
    /\ UNCHANGED <<mode, tenant, key, line, moment, outside>>

\* sso_logout: no identity is asked for.
FindSession(c) ==
    /\ At(c, "logout")
    /\ IF call[c].cred # NoOne /\ Row(call[c].cred).status = "active"
       THEN GoTo(c, "write") ELSE Answered(c, 200, FALSE)
    /\ UNCHANGED <<mode, tenant, user, key, cookie, line, loop, moment, outside>>

LogOut(c) ==
    /\ At(c, "write") /\ call[c].op = "logout"
    /\ \/ cookie' = [cookie EXCEPT ![call[c].cred].status = "revoked"] /\ Answered(c, 200, TRUE)
       \/ Lose(c) /\ UNCHANGED cookie
    /\ UNCHANGED <<mode, tenant, user, key, line, loop, moment, outside>>

-----------------------------------------------------------------------------
(* The audit middleware, and what happens outside of requests.             *)

\* Mutant: errors are recorded as allowed.
Decision_Swapped(status) == IF status > 400 THEN "allow" ELSE "deny"

Decision(status) == IF status < 400 THEN "allow" ELSE "deny"

\* append_request_audit, after the handler has answered.
Audit(c) ==
    /\ At(c, "answered") /\ LoopIsFree
    /\ line' = [line EXCEPT ![c] = [actor |-> call[c].who, decision |-> Decision(call[c].status)]]
    /\ call' = [call EXCEPT ![c] = Closed(@, "done", 0)]
    /\ UNCHANGED <<mode, tenant, user, key, cookie, loop, moment, outside>>

\* The server dies and is started again.
CrashServer ==
    /\ \E c \in Calls : call[c].stage \notin {"idle", "done", "lost"}
    /\ call' = [c \in Calls |-> IF call[c].stage \in {"idle", "done", "lost"} THEN call[c]
                                ELSE Closed(call[c], "lost", 500)]
    /\ loop' = NoOne
    /\ UNCHANGED <<mode, tenant, user, key, cookie, line, moment, outside>>

\* A command commits when its session scope ends without an error.
Command == outside < MaxOutside /\ outside' = outside + 1
                                /\ UNCHANGED <<mode, call, line, loop, moment>>

CreateTenant(t) ==
    /\ Command /\ t \notin tenant
    /\ tenant' = tenant \cup {t}
    /\ UNCHANGED <<user, key, cookie>>

CreateUser(u) ==
    /\ Command /\ u[1] \in tenant /\ ~Known(u)
    /\ \E role \in GivenRoles :
         user' = [user EXCEPT ![u] = [role |-> role, active |-> TRUE, by |-> "command"]]
    /\ UNCHANGED <<tenant, key, cookie>>

IssueKey(u) ==
    /\ Command /\ Known(u)
    /\ \E k \in Keys, expires \in {moment + 1, Forever} :
         key[k] = NoCredential /\ key' = [key EXCEPT ![k] = Minted(u, expires)]
    /\ UNCHANGED <<tenant, user, cookie>>

\* auth revoke-key
CommandRevokes(k) ==
    /\ Command /\ key[k].status = "active"
    /\ key' = [key EXCEPT ![k].status = "revoked"]
    /\ UNCHANGED <<tenant, user, cookie>>

\* platform seed-dev: tenant, administrator and key in one transaction, each
\* of the first two only if there is none.
SeedDev(u) ==
    /\ Command
    /\ tenant' = tenant \cup {u[1]}
    /\ user' = IF Known(u) THEN user
               ELSE [user EXCEPT ![u] = [role |-> "admin", active |-> TRUE, by |-> "command"]]
    /\ \E k \in Keys :
         key[k] = NoCredential /\ key' = [key EXCEPT ![k] = Minted(u, Forever)]
    /\ UNCHANGED cookie

\* The package reads is_active and role but has no operation that changes them:
\* administrators do, in the database.
ChangeUser(u) ==
    /\ Command /\ Known(u)
    /\ \E role \in GivenRoles, active \in BOOLEAN :
         /\ active => user[u].active
         /\ user' = [user EXCEPT ![u].role = role, ![u].active = active]
         /\ user' # user
    /\ UNCHANGED <<tenant, key, cookie>>

PassMoment ==
    /\ moment < MaxMoment
    /\ moment' = moment + 1
    /\ UNCHANGED <<mode, tenant, user, key, cookie, call, line, loop, outside>>

AccessNext ==
    \/ \E c \in Calls :
         \/ Receive(c) \/ Resolve(c) \/ Identify(c)
         \/ Read(c) \/ MintKey(c) \/ FindKey(c) \/ RevokeKey(c) \/ Post(c)
         \/ LogIn(c) \/ OpenSession(c) \/ FindSession(c) \/ LogOut(c)
         \/ Audit(c)
    \/ CrashServer \/ PassMoment
    \/ \E t \in Tenants : CreateTenant(t)
    \/ \E u \in Users : CreateUser(u) \/ IssueKey(u) \/ SeedDev(u) \/ ChangeUser(u)
    \/ \E k \in Keys : CommandRevokes(k)

AccessSpec == AccessInit /\ [][AccessNext]_accessVars
-----------------------------------------------------------------------------
(* Properties.                                                             *)

AccessTypeOK ==
    /\ mode \in Settings
    /\ tenant \subseteq Tenants
    /\ user \in [Users -> [role : Roles \cup {"none"}, active : BOOLEAN,
                          by : {"none", "command", "login"}]]
    /\ LET Row_ == [status : {"absent", "active", "revoked"}, owner : Users \cup {NoOne},
                    expires : Nat, used : BOOLEAN]
       IN key \in [Keys -> Row_] /\ cookie \in [Cookies -> Row_]
    /\ \A c \in Calls :
         /\ call[c].stage \in {"idle", "resolve", "identify", "handle", "write", "login",
                               "open", "provision", "logout", "answered", "done", "lost"}
         /\ call[c].op \in Ops /\ call[c].cred \in Credentials \cup {NoOne}
         /\ call[c].who \in Users \cup {NoOne, Insecure}
         /\ line[c].actor \in Users \cup {NoOne, Insecure}
    /\ loop \in Calls \cup {NoOne}
    /\ moment \in 0..MaxMoment /\ outside \in 0..MaxOutside

\* A key or session that was revoked or past its expiry when the request
\* arrived, or whose user was disabled, gives the request no identity, however
\* long it waits between reading the row, the user and the clock.
StaleOpensNothing ==
    mode.auth => \A c \in Calls : call[c].stale => call[c].who = NoOne

\* What is dead stays dead, also when a request that found it alive commits the
\* time of its use afterwards.
CredentialStaysDead ==
    [][\A x \in Credentials : Dead(x) => Dead(x)']_accessVars

\* A change of keys, sessions or users that was answered has a line that allows
\* it and names the owner of the credential; a line that denies names no such
\* change; only a server that died or raised leaves a change without a line.
AuditTellsTheTruth ==
    \A c \in Calls : call[c].op # "post" =>
        /\ call[c].changed => line[c].decision = "allow" \/ call[c].stage \in {"answered", "lost"}
        /\ line[c].decision = "deny" => ~call[c].changed
        /\ /\ mode.auth /\ call[c].op \notin {"login", "logout"}
           /\ line[c].decision = "allow"
           => call[c].cred \in Credentials /\ line[c].actor = Row(call[c].cred).owner

\* Two first logins of one person never fail each other: the insert of a member
\* collides only with a user a command created meanwhile.
LoginsNeverCollide ==
    \A c \in Calls : call[c].status = Conflict => user[Member(c)].by = "command"
=============================================================================
