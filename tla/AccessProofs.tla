---------------------------- MODULE AccessProofs ----------------------------
(***************************************************************************)
(* Theorems about Access, for any tenants, users, credentials and requests *)
(* and for every setting of the server.                                    *)
(*                                                                         *)
(* A request reads the row of its token, then the user, and compares the   *)
(* expiry with the time it arrived; what it read may change before it is   *)
(* used.  What makes this safe is that the rows only move one way          *)
(* (AccessForward): a credential keeps its owner and its expiry, a revoked *)
(* one stays revoked, a user stays known and is never activated again.  So *)
(* a credential that was stale on arrival fails one of the two later reads *)
(* wherever they fall.  That logins never collide is another argument: the *)
(* event loop, which the handler holds from its look-up to its commit.     *)
(***************************************************************************)
EXTENDS Access, TLAPS

CredentialType == [status : {"absent", "active", "revoked"}, owner : Users \cup {NoOne},
                   expires : Nat, used : BOOLEAN]
UserType == [role : Roles \cup {"none"}, active : BOOLEAN, by : {"none", "command", "login"}]
Stages == {"idle", "resolve", "identify", "handle", "write", "login",
           "open", "provision", "logout", "answered", "done", "lost"}
CallType == [stage : Stages, op : Ops, aim : Emails \cup Keys \cup PostScopes \cup {NoOne},
             cred : Credentials \cup {NoOne}, now : Nat, who : Users \cup {NoOne, Insecure},
             status : Nat, changed : BOOLEAN, stale : BOOLEAN]
AuditLineType == [actor : Users \cup {NoOne, Insecure}, decision : {"none", "allow", "deny"}]

AccessRows ==
    /\ mode \in Settings
    /\ tenant \subseteq Tenants
    /\ user \in [Users -> UserType]
    /\ key \in [Keys -> CredentialType] /\ cookie \in [Cookies -> CredentialType]
    /\ call \in [Calls -> CallType]
    /\ line \in [Calls -> AuditLineType]
    /\ loop \in Calls \cup {NoOne}
    /\ moment \in 0..MaxMoment /\ outside \in 0..MaxOutside

\* Every credential that was minted belongs to a user with a row.
MintedInv ==
    \A x \in Credentials :
        IF Row(x).status = "absent" THEN Row(x) = NoCredential
        ELSE Row(x).owner \in Users /\ Known(Row(x).owner)

Held(x) == x \in Credentials /\ Row(x).status # "absent"

\* What a request holds at each of its steps.
StageInv(c) ==
    /\ call[c].stage \in {"login", "open", "provision"} => call[c].op = "login"
    /\ call[c].stage = "logout" => call[c].op = "logout"
    /\ call[c].stage = "write" => call[c].op \in {"revoke", "logout"}
    /\ call[c].stage \in {"login", "open", "provision"} => call[c].aim \in Emails
    /\ call[c].op = "revoke" /\ call[c].stage \in {"resolve", "identify", "handle", "write"} =>
         call[c].aim \in Keys
    /\ call[c].stage \in {"idle", "resolve", "identify", "login", "open", "provision", "logout"} =>
         call[c].who = NoOne
    /\ call[c].cred # NoOne => Held(call[c].cred)
    /\ call[c].stage = "identify" => mode.auth /\ call[c].cred # NoOne
    /\ call[c].stage = "write" /\ call[c].op = "revoke" => Held(call[c].aim)
    /\ call[c].stage = "write" /\ call[c].op = "logout" => call[c].cred # NoOne
    /\ call[c].op = "logout" => call[c].cred \notin Keys

\* A credential that was stale on arrival fails at the row or at the user.
StaleInv(c) ==
    mode.auth /\ call[c].stale =>
        /\ call[c].stage \in {"resolve", "identify"} =>
             /\ call[c].cred # NoOne
             /\ \/ ~Opens(call[c].cred, call[c].now)
                \/ ~user[Row(call[c].cred).owner].active
        /\ call[c].stage = "identify" => ~user[Row(call[c].cred).owner].active
        /\ call[c].who = NoOne

\* The identity is the owner of the credential, and the line says what was done.
LineInv(c) ==
    /\ call[c].changed => call[c].stage \in {"answered", "done", "lost"}
    /\ call[c].stage = "answered" /\ call[c].changed /\ call[c].op # "post" => call[c].status < 400
    /\ /\ mode.auth /\ call[c].op \notin {"login", "logout"}
       /\ \/ call[c].stage \in {"handle", "write"}
          \/ call[c].stage = "answered" /\ call[c].status < 400
       => call[c].cred # NoOne /\ call[c].who = Row(call[c].cred).owner
    /\ call[c].stage # "done" => line[c] = NoLine
    /\ call[c].stage = "done" /\ call[c].op # "post" =>
         /\ call[c].changed => line[c].decision = "allow"
         /\ mode.auth /\ call[c].op \notin {"login", "logout"} /\ line[c].decision = "allow" =>
              call[c].cred # NoOne /\ line[c].actor = Row(call[c].cred).owner

\* From the look-up to the commit a login holds the event loop.
LoginInv(c) ==
    /\ call[c].stage \in {"open", "provision"} => loop = c
    /\ call[c].stage = "open" => Known(Member(c))
    /\ call[c].stage = "provision" /\ Known(Member(c)) => user[Member(c)].by = "command"
    /\ call[c].status = Conflict =>
         /\ call[c].stage = "lost" /\ call[c].aim \in Emails
         /\ Known(Member(c)) /\ user[Member(c)].by = "command"

AccessInv ==
    /\ AccessRows /\ MintedInv
    /\ \A c \in Calls : StageInv(c) /\ StaleInv(c) /\ LineInv(c) /\ LoginInv(c)

-----------------------------------------------------------------------------
(* The rows move one way.                                                  *)

AccessForward ==
    /\ mode' = mode /\ moment <= moment'
    /\ \A x \in Credentials : Row(x).status # "absent" =>
         /\ Row(x).owner' = Row(x).owner /\ Row(x).expires' = Row(x).expires
         /\ Row(x).status' \in {Row(x).status, "revoked"}
    /\ \A u \in Users : Known(u) =>
         /\ Known(u)' /\ user[u].by' = user[u].by
         /\ ~user[u].active => ~user[u].active'

\* What a step may do to a credential ...
RowStep(x) ==
    \/ Row(x)' = Row(x)
    \/ Row(x).status # "absent" /\ Row(x)' = [Row(x) EXCEPT !.used = TRUE]
    \/ Row(x).status # "absent" /\ Row(x)' = [Row(x) EXCEPT !.status = "revoked"]
    \/ /\ Row(x) = NoCredential
       /\ \E u \in Users, e \in Nat : user'[u] # NoUser /\ Row(x)' = Minted(u, e)

\* ... and to a user.
UserStep(u) ==
    \/ user'[u] = user[u]
    \/ /\ ~Known(u)
       /\ \E r \in Roles, b \in {"command", "login"} :
            /\ user'[u] = [role |-> r, active |-> TRUE, by |-> b]
            /\ b = "login" => \E c \in Calls : At(c, "provision") /\ call'[c].stage # "provision"
    \/ /\ Known(u)
       /\ \E r \in Roles, a \in BOOLEAN :
            /\ a => user[u].active
            /\ user'[u] = [user[u] EXCEPT !.role = r, !.active = a]

LEMMA RolesFact == "none" \notin Roles /\ "admin" \in Roles
  BY DEF Roles, RoleScopes

LEMMA NoUserType == NoUser \in UserType
  BY DEF NoUser, UserType

LEMMA NoCredentialType == NoCredential \in CredentialType
  BY DEF NoCredential, CredentialType

LEMMA MintedType ==
  ASSUME NEW u \in Users, NEW e \in Nat PROVE Minted(u, e) \in CredentialType
  BY DEF Minted, CredentialType

LEMMA GoToFacts ==
  ASSUME call \in [Calls -> CallType], NEW c \in Calls, NEW s \in Stages, GoTo(c, s)
  PROVE  /\ call' \in [Calls -> CallType]
         /\ call'[c] = [call[c] EXCEPT !.stage = s]
         /\ \A d \in Calls \ {c} : call'[d] = call[d]
<1>1. [call[c] EXCEPT !.stage = s] \in CallType
  BY DEF CallType
<1>2. call' = [call EXCEPT ![c] = [call[c] EXCEPT !.stage = s]]
  BY DEF GoTo
<1> QED  BY <1>1, <1>2

LEMMA AnsweredFacts ==
  ASSUME call \in [Calls -> CallType], NEW c \in Calls, NEW s \in Nat, NEW b \in BOOLEAN,
         Answered(c, s, b)
  PROVE  /\ call' \in [Calls -> CallType]
         /\ call'[c] = [call[c] EXCEPT !.stage = "answered", !.status = s, !.changed = b]
         /\ \A d \in Calls \ {c} : call'[d] = call[d]
<1>1. [call[c] EXCEPT !.stage = "answered", !.status = s, !.changed = b] \in CallType
  BY DEF CallType, Stages
<1>2. call' = [call EXCEPT ![c] =
                 [call[c] EXCEPT !.stage = "answered", !.status = s, !.changed = b]]
  BY DEF Answered, CallType
<1> QED  BY <1>1, <1>2

LEMMA IdleType == Idle \in CallType
  BY DEF Idle, CallType, Stages, Ops

LEMMA ClosingType ==
  ASSUME NEW old \in CallType, NEW s \in Stages, NEW o \in Ops, NEW n \in Nat, NEW b \in BOOLEAN,
         NEW x \in Credentials \cup {NoOne},
         NEW a \in Emails \cup Keys \cup PostScopes \cup {NoOne}
  PROVE  [old EXCEPT !.stage = s, !.op = o, !.status = n, !.changed = b, !.cred = x,
                     !.aim = a] \in CallType
  BY DEF CallType

LEMMA ClosedType ==
  ASSUME NEW old \in CallType, NEW s \in Stages, NEW n \in Nat
  PROVE  Closed(old, s, n) \in CallType
<1>1. PICK x \in Credentials \cup {NoOne} : x = IF s = "done" THEN old.cred ELSE NoOne
  BY DEF CallType
<1>2. PICK a \in Emails \cup Keys \cup PostScopes \cup {NoOne} :
        a = IF n = Conflict THEN old.aim ELSE NoOne
  BY DEF CallType
<1>3. Closed(old, s, n) = [Idle EXCEPT !.stage = s, !.op = old.op, !.status = n,
                                       !.changed = old.changed, !.cred = x, !.aim = a]
  BY <1>1, <1>2, Zenon DEF Closed
<1>4. old.op \in Ops /\ old.changed \in BOOLEAN
  BY DEF CallType
<1>5. [Idle EXCEPT !.stage = s, !.op = old.op, !.status = n, !.changed = old.changed,
                   !.cred = x, !.aim = a] \in CallType
  BY <1>4, ClosingType, IdleType
<1> QED  BY <1>3, <1>5

LEMMA ClosedFacts ==
  ASSUME NEW old, NEW s, NEW n
  PROVE  /\ Closed(old, s, n).stage = s /\ Closed(old, s, n).op = old.op
         /\ Closed(old, s, n).aim = (IF n = Conflict THEN old.aim ELSE NoOne)
         /\ Closed(old, s, n).cred = (IF s = "done" THEN old.cred ELSE NoOne)
         /\ Closed(old, s, n).who = NoOne /\ Closed(old, s, n).status = n
         /\ Closed(old, s, n).changed = old.changed /\ Closed(old, s, n).stale = FALSE
  BY DEF Closed, Idle

LEMMA LostFacts ==
  ASSUME call \in [Calls -> CallType], NEW c \in Calls, NEW s \in Nat, Lost(c, s)
  PROVE  /\ call' \in [Calls -> CallType]
         /\ call'[c] = Closed(call[c], "lost", s)
         /\ \A d \in Calls \ {c} : call'[d] = call[d]
<1>1. Closed(call[c], "lost", s) \in CallType
  BY ClosedType DEF Stages
<1> QED  BY <1>1 DEF Lost

LEMMA EnteredType ==
  ASSUME NEW old \in CallType, NEW w \in Users \cup {Insecure}, NEW n \in Nat
  PROVE  /\ [old EXCEPT !.stage = "handle", !.who = w] \in CallType
         /\ [old EXCEPT !.stage = "answered", !.status = n, !.who = w] \in CallType
<1>1. [old EXCEPT !.stage = "handle", !.who = w] \in CallType
  BY DEF CallType, Stages
<1>2. [old EXCEPT !.stage = "answered", !.status = n, !.who = w] \in CallType
  BY DEF CallType, Stages
<1> QED  BY <1>1, <1>2

LEMMA EnterFacts ==
  ASSUME call \in [Calls -> CallType], NEW c \in Calls, NEW w \in Users \cup {Insecure}, NEW r,
         Enter(c, w, r)
  PROVE  /\ call' \in [Calls -> CallType]
         /\ \/ call'[c] = [call[c] EXCEPT !.stage = "handle", !.who = w]
            \/ \E n \in Nat :
                 /\ n = 403
                 /\ call'[c] = [call[c] EXCEPT !.stage = "answered", !.status = n, !.who = w]
         /\ \A d \in Calls \ {c} : call'[d] = call[d]
<1>0. PICK n \in Nat : n = 403
  OBVIOUS
<1>1. /\ [call[c] EXCEPT !.stage = "handle", !.who = w] \in CallType
      /\ [call[c] EXCEPT !.stage = "answered", !.status = n, !.who = w] \in CallType
  BY EnteredType
<1>2. CASE Needs(call[c].op, call[c].aim) \subseteq RoleScopes[r]
  <2>1. call' = [call EXCEPT ![c] = [call[c] EXCEPT !.stage = "handle", !.who = w]]
    BY <1>2, Zenon DEF Enter
  <2> QED  BY <1>1, <2>1
<1>3. CASE ~(Needs(call[c].op, call[c].aim) \subseteq RoleScopes[r])
  <2>1. call' = [call EXCEPT ![c] =
                   [call[c] EXCEPT !.stage = "answered", !.status = 403, !.who = w]]
    BY <1>3, Zenon DEF Enter
  <2>2. call' = [call EXCEPT ![c] =
                   [call[c] EXCEPT !.stage = "answered", !.status = n, !.who = w]]
    BY <1>0, <2>1, Zenon
  <2>3. /\ call' \in [Calls -> CallType]
        /\ call'[c] = [call[c] EXCEPT !.stage = "answered", !.status = n, !.who = w]
        /\ \A d \in Calls \ {c} : call'[d] = call[d]
    BY <1>1, <2>2
  <2> QED  BY <1>0, <2>3, Zenon
<1> QED  BY <1>2, <1>3

-----------------------------------------------------------------------------
(* What a step does to the rows.                                           *)

LEMMA MintStep ==
  ASSUME AccessRows, NEW k \in Keys, NEW u \in Users, NEW e \in Nat, key[k] = NoCredential,
         key' = [key EXCEPT ![k] = Minted(u, e)], UNCHANGED cookie, user'[u] # NoUser
  PROVE  key' \in [Keys -> CredentialType] /\ \A x \in Credentials : RowStep(x)
<1>1. Minted(u, e) \in CredentialType
  BY MintedType
<1>2. key' \in [Keys -> CredentialType]
  BY <1>1 DEF AccessRows
<1>3. ASSUME NEW x \in Credentials PROVE RowStep(x)
  <2>1. CASE x = k
    BY <2>1 DEF RowStep, Row, AccessRows
  <2>2. CASE x # k
    BY <2>2 DEF RowStep, Row, AccessRows
  <2> QED  BY <2>1, <2>2
<1> QED  BY <1>2, <1>3

LEMMA RevokeStep ==
  ASSUME AccessRows, NEW k \in Keys, key[k].status # "absent",
         key' = [key EXCEPT ![k].status = "revoked"], UNCHANGED cookie
  PROVE  key' \in [Keys -> CredentialType] /\ \A x \in Credentials : RowStep(x)
<1>1. key' \in [Keys -> CredentialType]
  BY DEF AccessRows, CredentialType
<1>2. ASSUME NEW x \in Credentials PROVE RowStep(x)
  <2>1. CASE x = k
    <3>1. Row(x)' = [Row(x) EXCEPT !.status = "revoked"] /\ Row(x).status # "absent"
      BY <2>1 DEF Row, AccessRows
    <3> QED  BY <3>1 DEF RowStep
  <2>2. CASE x # k
    <3>1. Row(x)' = Row(x)
      BY <2>2 DEF Row, AccessRows
    <3> QED  BY <3>1 DEF RowStep
  <2> QED  BY <2>1, <2>2
<1> QED  BY <1>1, <1>2

LEMMA UseStep ==
  ASSUME AccessRows, NEW k \in Keys, key[k].status # "absent", key' = Used(k), UNCHANGED cookie
  PROVE  key' \in [Keys -> CredentialType] /\ \A x \in Credentials : RowStep(x)
<1>1. key' \in [Keys -> CredentialType]
  BY DEF AccessRows, CredentialType, Used
<1>2. ASSUME NEW x \in Credentials PROVE RowStep(x)
  <2>1. CASE x = k
    <3>1. Row(x)' = [Row(x) EXCEPT !.used = TRUE] /\ Row(x).status # "absent"
      BY <2>1 DEF Row, AccessRows, Used
    <3> QED  BY <3>1 DEF RowStep
  <2>2. CASE x # k
    <3>1. Row(x)' = Row(x)
      BY <2>2 DEF Row, AccessRows, Used
    <3> QED  BY <3>1 DEF RowStep
  <2> QED  BY <2>1, <2>2
<1> QED  BY <1>1, <1>2

LEMMA SessionStep ==
  ASSUME AccessRows, NEW s \in Cookies, NEW u \in Users, NEW e \in Nat, cookie[s] = NoCredential,
         cookie' = [cookie EXCEPT ![s] = Minted(u, e)], UNCHANGED key, user'[u] # NoUser
  PROVE  cookie' \in [Cookies -> CredentialType] /\ \A x \in Credentials : RowStep(x)
<1>0. s \notin Keys
  BY AccessAssumption
<1>1. Minted(u, e) \in CredentialType
  BY MintedType
<1>2. cookie' \in [Cookies -> CredentialType]
  BY <1>1 DEF AccessRows
<1>3. ASSUME NEW x \in Credentials PROVE RowStep(x)
  <2>1. CASE x = s
    BY <1>0, <2>1 DEF RowStep, Row, AccessRows
  <2>2. CASE x # s
    <3>1. Row(x)' = Row(x)
      BY <2>2 DEF Row, AccessRows, Credentials
    <3> QED  BY <3>1 DEF RowStep
  <2> QED  BY <2>1, <2>2
<1> QED  BY <1>2, <1>3

LEMMA EndStep ==
  ASSUME AccessRows, NEW s \in Cookies, cookie[s].status # "absent",
         cookie' = [cookie EXCEPT ![s].status = "revoked"], UNCHANGED key
  PROVE  cookie' \in [Cookies -> CredentialType] /\ \A x \in Credentials : RowStep(x)
<1>0. s \notin Keys
  BY AccessAssumption
<1>1. cookie' \in [Cookies -> CredentialType]
  BY DEF AccessRows, CredentialType
<1>2. ASSUME NEW x \in Credentials PROVE RowStep(x)
  <2>1. CASE x = s
    <3>1. Row(x)' = [Row(x) EXCEPT !.status = "revoked"] /\ Row(x).status # "absent"
      BY <1>0, <2>1 DEF Row, AccessRows
    <3> QED  BY <3>1 DEF RowStep
  <2>2. CASE x # s
    <3>1. Row(x)' = Row(x)
      BY <2>2 DEF Row, AccessRows, Credentials
    <3> QED  BY <3>1 DEF RowStep
  <2> QED  BY <2>1, <2>2
<1> QED  BY <1>1, <1>2

LEMMA MomentFacts ==
  ASSUME AccessRows PROVE moment \in Nat /\ moment + 1 \in Nat /\ Forever \in Nat
  BY AccessAssumption DEF AccessRows, Forever

LEMMA MemberFacts ==
  ASSUME AccessInv, NEW c \in Calls, call[c].stage \in {"login", "open", "provision"}
  PROVE  Member(c) \in Users
  BY AccessAssumption DEF AccessInv, StageInv, Member, Users

LEMMA NewUserKnown ==
  ASSUME NEW r \in Roles, NEW b PROVE [role |-> r, active |-> TRUE, by |-> b] # NoUser
  BY RolesFact DEF NoUser

RowsOK == /\ key' \in [Keys -> CredentialType] /\ cookie' \in [Cookies -> CredentialType]
          /\ \A x \in Credentials : RowStep(x)

LEMMA RowsStep ==
  ASSUME AccessInv, [AccessNext]_accessVars PROVE RowsOK
<1>1. AccessRows /\ key \in [Keys -> CredentialType] /\ cookie \in [Cookies -> CredentialType]
  BY DEF AccessInv, AccessRows
<1>2. ASSUME UNCHANGED <<key, cookie>> PROVE RowsOK
  BY <1>1, <1>2 DEF RowsOK, RowStep, Row
<1>3. ASSUME NEW c \in Calls, Identify(c) PROVE RowsOK
  <2>1. UNCHANGED cookie /\ StageInv(c) /\ call[c].stage = "identify"
    BY <1>3 DEF Identify, At, AccessInv
  <2>2. Held(call[c].cred)
    BY <2>1 DEF StageInv
  <2>3. CASE UNCHANGED key
    BY <1>2, <2>1, <2>3
  <2>4. CASE ~UNCHANGED key
    <3>1. call[c].cred \in Keys /\ key' = Used(call[c].cred)
      BY <1>3, <2>4 DEF Identify
    <3>2. key[call[c].cred].status # "absent"
      BY <2>2, <3>1 DEF Held, Row
    <3> QED  BY <1>1, <2>1, <3>1, <3>2, UseStep DEF RowsOK
  <2> QED  BY <2>3, <2>4
<1>4. ASSUME NEW c \in Calls, MintKey(c) PROVE RowsOK
  <2>1. UNCHANGED <<user, cookie>>
    BY <1>4 DEF MintKey
  <2>2. CASE UNCHANGED key
    BY <1>2, <2>1, <2>2
  <2>3. CASE ~UNCHANGED key
    <3>1. PICK u \in Users : Known(u) /\ u = <<TenantOf(c), call[c].aim>>
      BY <1>4, <2>3 DEF MintKey, Known
    <3>2. PICK k \in Keys, e \in {moment + 1, Forever} :
            key[k] = NoCredential /\ key' = [key EXCEPT ![k] = Minted(u, e)]
      BY <1>4, <2>3, <3>1 DEF MintKey
    <3>3. e \in Nat
      BY <1>1, <3>2, MomentFacts
    <3>4. user'[u] # NoUser
      BY <2>1, <3>1 DEF Known
    <3> QED  BY <1>1, <2>1, <3>2, <3>3, <3>4, MintStep DEF RowsOK
  <2> QED  BY <2>2, <2>3
<1>5. ASSUME NEW c \in Calls, RevokeKey(c) PROVE RowsOK
  <2>1. UNCHANGED cookie /\ Held(call[c].aim) /\ call[c].aim \in Keys
    BY <1>5 DEF RevokeKey, At, AccessInv, StageInv
  <2>2. key[call[c].aim].status # "absent"
    BY <2>1 DEF Held, Row
  <2>3. UNCHANGED key \/ key' = [key EXCEPT ![call[c].aim].status = "revoked"]
    BY <1>5 DEF RevokeKey
  <2> QED  BY <1>1, <1>2, <2>1, <2>2, <2>3, RevokeStep DEF RowsOK
<1>6. ASSUME NEW c \in Calls, OpenSession(c) PROVE RowsOK
  <2>1. UNCHANGED key
    BY <1>6 DEF OpenSession
  <2>2. CASE UNCHANGED cookie
    BY <1>2, <2>1, <2>2
  <2>3. CASE ~UNCHANGED cookie
    <3>1. PICK u \in Users : u = Member(c)
      BY <1>6, MemberFacts DEF OpenSession, At
    <3>2. PICK s \in Cookies :
            cookie[s] = NoCredential /\ cookie' = [cookie EXCEPT ![s] = Minted(u, moment + 1)]
      BY <1>6, <2>3, <3>1 DEF OpenSession, OpenedSession
    <3>3. user' = Provisioned(c)
      BY <1>6, <2>3 DEF OpenSession
    <3>4. user'[u] # NoUser
      <4>1. CASE At(c, "open")
        BY <3>1, <3>3, <4>1 DEF Provisioned, AccessInv, LoginInv, At, Known
      <4>2. CASE ~At(c, "open")
        <5>1. user'[u] = [role |-> SsoRole, active |-> TRUE, by |-> "login"]
          BY <1>1, <3>1, <3>3, <4>2 DEF Provisioned, AccessRows
        <5> QED  BY <5>1, NewUserKnown, AccessAssumption
      <4> QED  BY <4>1, <4>2
    <3> QED  BY <1>1, <2>1, <3>2, <3>4, MomentFacts, SessionStep DEF RowsOK
  <2> QED  BY <2>2, <2>3
<1>7. ASSUME NEW c \in Calls, LogOut(c) PROVE RowsOK
  <2>1. UNCHANGED key /\ Held(call[c].cred) /\ call[c].cred \notin Keys
    BY <1>7 DEF LogOut, At, AccessInv, StageInv
  <2>2. call[c].cred \in Cookies /\ cookie[call[c].cred].status # "absent"
    BY <2>1 DEF Held, Row, Credentials
  <2>3. UNCHANGED cookie \/ cookie' = [cookie EXCEPT ![call[c].cred].status = "revoked"]
    BY <1>7 DEF LogOut
  <2> QED  BY <1>1, <1>2, <2>1, <2>2, <2>3, EndStep DEF RowsOK
<1>8. ASSUME NEW u \in Users, IssueKey(u) PROVE RowsOK
  <2>1. UNCHANGED cookie /\ user'[u] # NoUser
    BY <1>8 DEF IssueKey, Known
  <2>2. PICK k \in Keys, e \in {moment + 1, Forever} :
          key[k] = NoCredential /\ key' = [key EXCEPT ![k] = Minted(u, e)]
    BY <1>8 DEF IssueKey
  <2>3. e \in Nat
    BY <1>1, <2>2, MomentFacts
  <2> QED  BY <1>1, <2>1, <2>2, <2>3, MintStep DEF RowsOK
<1>9. ASSUME NEW u \in Users, SeedDev(u) PROVE RowsOK
  <2>1. UNCHANGED cookie
    BY <1>9 DEF SeedDev
  <2>2. user'[u] # NoUser
    <3>1. CASE Known(u)
      BY <1>9, <3>1 DEF SeedDev, Known
    <3>2. CASE ~Known(u)
      <4>1. user'[u] = [role |-> "admin", active |-> TRUE, by |-> "command"]
        BY <1>1, <1>9, <3>2 DEF SeedDev, AccessRows
      <4> QED  BY <4>1, NewUserKnown, RolesFact
    <3> QED  BY <3>1, <3>2
  <2>3. PICK k \in Keys :
          key[k] = NoCredential /\ key' = [key EXCEPT ![k] = Minted(u, Forever)]
    BY <1>9 DEF SeedDev
  <2> QED  BY <1>1, <2>1, <2>2, <2>3, MomentFacts, MintStep DEF RowsOK
<1>10. ASSUME NEW k \in Keys, CommandRevokes(k) PROVE RowsOK
  BY <1>1, <1>10, RevokeStep DEF CommandRevokes, RowsOK
<1> QED
  BY <1>2, <1>3, <1>4, <1>5, <1>6, <1>7, <1>8, <1>9, <1>10
  DEF AccessNext, accessVars, Receive, Resolve, Read, FindKey, Post, LogIn, FindSession, Audit,
      CrashServer, PassMoment, CreateTenant, CreateUser, ChangeUser

UsersOK == user' \in [Users -> UserType] /\ \A u \in Users : UserStep(u)

LEMMA NewUserStep ==
  ASSUME AccessRows, NEW u \in Users, NEW r \in Roles, NEW b \in {"command", "login"}, ~Known(u),
         user' = [user EXCEPT ![u] = [role |-> r, active |-> TRUE, by |-> b]],
         b = "login" => \E c \in Calls : At(c, "provision") /\ call'[c].stage # "provision"
  PROVE  UsersOK
<1>1. [role |-> r, active |-> TRUE, by |-> b] \in UserType
  BY DEF UserType
<1>2. user'[u] = [role |-> r, active |-> TRUE, by |-> b]
      /\ \A v \in Users \ {u} : user'[v] = user[v]
  BY DEF AccessRows
<1>3. \A v \in Users : UserStep(v)
  BY <1>2 DEF UserStep
<1>4. user' \in [Users -> UserType]
  BY <1>1 DEF AccessRows
<1> QED  BY <1>3, <1>4 DEF UsersOK

LEMMA UsersStep ==
  ASSUME AccessInv, [AccessNext]_accessVars PROVE UsersOK
<1>1. AccessRows
  BY DEF AccessInv
<1>2. ASSUME UNCHANGED user PROVE UsersOK
  BY <1>1, <1>2 DEF UsersOK, UserStep, AccessRows
<1>3. ASSUME NEW c \in Calls, OpenSession(c) PROVE UsersOK
  <2>1. CASE UNCHANGED user
    BY <1>2, <2>1
  <2>2. CASE ~UNCHANGED user
    <3>1. ~At(c, "open") /\ user' = Provisioned(c)
      BY <1>3, <2>2 DEF OpenSession, Provisioned
    <3>2. At(c, "provision") /\ ~Known(Member(c)) /\ Answered(c, 302, TRUE)
      BY <1>3, <2>2, <3>1 DEF OpenSession
    <3>3. PICK u \in Users : u = Member(c)
      BY <3>2, MemberFacts DEF At
    <3>4. user' = [user EXCEPT ![u] = [role |-> SsoRole, active |-> TRUE, by |-> "login"]]
      BY <3>1, <3>3 DEF Provisioned
    <3>5. call'[c].stage = "answered"
      <4>1. PICK n \in Nat : Answered(c, n, TRUE)
        BY <3>2
      <4>2. call'[c] = [call[c] EXCEPT !.stage = "answered", !.status = n, !.changed = TRUE]
        BY <1>1, <4>1, AnsweredFacts DEF AccessRows
      <4> QED  BY <1>1, <4>2 DEF AccessRows, CallType
    <3> QED  BY <1>1, <3>2, <3>3, <3>4, <3>5, NewUserStep, AccessAssumption
  <2> QED  BY <2>1, <2>2
<1>4. ASSUME NEW u \in Users, CreateUser(u) PROVE UsersOK
  <2>1. PICK r \in GivenRoles :
          user' = [user EXCEPT ![u] = [role |-> r, active |-> TRUE, by |-> "command"]]
    BY <1>4 DEF CreateUser
  <2>2. r \in Roles /\ ~Known(u)
    BY <1>4, AccessAssumption DEF CreateUser
  <2> QED  BY <1>1, <2>1, <2>2, NewUserStep
<1>5. ASSUME NEW u \in Users, SeedDev(u) PROVE UsersOK
  <2>1. CASE Known(u)
    BY <1>2, <1>5, <2>1 DEF SeedDev
  <2>2. CASE ~Known(u)
    <3>1. user' = [user EXCEPT ![u] = [role |-> "admin", active |-> TRUE, by |-> "command"]]
      BY <1>5, <2>2 DEF SeedDev
    <3> QED  BY <1>1, <2>2, <3>1, NewUserStep, RolesFact
  <2> QED  BY <2>1, <2>2
<1>6. ASSUME NEW u \in Users, ChangeUser(u) PROVE UsersOK
  <2>1. PICK r \in GivenRoles, a \in BOOLEAN :
          /\ a => user[u].active
          /\ user' = [user EXCEPT ![u].role = r, ![u].active = a]
    BY <1>6 DEF ChangeUser
  <2>2. r \in Roles /\ Known(u)
    BY <1>6, <2>1, AccessAssumption DEF ChangeUser
  <2>3. user' = [user EXCEPT ![u] = [user[u] EXCEPT !.role = r, !.active = a]]
    BY <1>1, <2>1 DEF AccessRows, UserType
  <2>4. [user[u] EXCEPT !.role = r, !.active = a] \in UserType
    BY <1>1, <2>2 DEF AccessRows, UserType
  <2>5. user'[u] = [user[u] EXCEPT !.role = r, !.active = a]
        /\ \A v \in Users \ {u} : user'[v] = user[v]
    BY <1>1, <2>3 DEF AccessRows
  <2>6. \A v \in Users : UserStep(v)
    BY <2>1, <2>2, <2>5 DEF UserStep
  <2> QED  BY <1>1, <2>3, <2>4, <2>6 DEF UsersOK, AccessRows
<1> QED
  BY <1>2, <1>3, <1>4, <1>5, <1>6
  DEF AccessNext, accessVars, Receive, Resolve, Read, FindKey, Post, LogIn, FindSession, Audit,
      CrashServer, PassMoment, CreateTenant, IssueKey, Identify, MintKey, RevokeKey, LogOut,
      CommandRevokes

LEMMA NextAccessForward ==
  ASSUME AccessInv, [AccessNext]_accessVars PROVE AccessForward
<1>1. AccessRows /\ RowsOK /\ UsersOK
  BY RowsStep, UsersStep DEF AccessInv
<1>2. mode' = mode
  BY DEF AccessNext, accessVars, Receive, Resolve, Identify, Read, MintKey, FindKey, RevokeKey,
         Post, LogIn, OpenSession, FindSession, LogOut, Audit, CrashServer, PassMoment,
         CreateTenant, CreateUser, IssueKey, SeedDev, ChangeUser, CommandRevokes, Command
<1>3. moment' = moment \/ moment' = moment + 1
  BY DEF AccessNext, accessVars, Receive, Resolve, Identify, Read, MintKey, FindKey, RevokeKey,
         Post, LogIn, OpenSession, FindSession, LogOut, Audit, CrashServer, PassMoment,
         CreateTenant, CreateUser, IssueKey, SeedDev, ChangeUser, CommandRevokes, Command
<1>4. moment <= moment'
  BY <1>1, <1>3, MomentFacts
<1>5. ASSUME NEW x \in Credentials, Row(x).status # "absent"
      PROVE  /\ Row(x).owner' = Row(x).owner /\ Row(x).expires' = Row(x).expires
             /\ Row(x).status' \in {Row(x).status, "revoked"}
  <2>1. Row(x) \in CredentialType
    BY <1>1 DEF AccessRows, Row, Credentials
  <2>2. Row(x) # NoCredential
    BY <1>5 DEF NoCredential
  <2>3. RowStep(x)
    BY <1>1 DEF RowsOK
  <2>4. CASE Row(x)' = [Row(x) EXCEPT !.used = TRUE]
    BY <2>1, <2>4 DEF CredentialType
  <2>5. CASE Row(x)' = [Row(x) EXCEPT !.status = "revoked"]
    BY <2>1, <2>5 DEF CredentialType
  <2>6. CASE Row(x)' = Row(x)
    BY <2>6
  <2> QED  BY <2>2, <2>3, <2>4, <2>5, <2>6 DEF RowStep
<1>6. ASSUME NEW u \in Users, Known(u)
      PROVE  /\ Known(u)' /\ user[u].by' = user[u].by
             /\ ~user[u].active => ~user[u].active'
  <2>1. user[u] \in UserType /\ UserStep(u)
    BY <1>1 DEF AccessRows, UsersOK
  <2>2. CASE user'[u] = user[u]
    BY <1>6, <2>2 DEF Known
  <2>3. ASSUME NEW r \in Roles, NEW a \in BOOLEAN, a => user[u].active,
               user'[u] = [user[u] EXCEPT !.role = r, !.active = a]
        PROVE  /\ Known(u)' /\ user[u].by' = user[u].by
               /\ ~user[u].active => ~user[u].active'
    <3>1. user'[u].role = r /\ user'[u].by = user[u].by /\ user'[u].active = a
      BY <2>1, <2>3 DEF UserType
    <3>2. r # "none"
      BY RolesFact
    <3>3. user'[u] # NoUser
      BY <3>1, <3>2 DEF NoUser
    <3> QED  BY <1>6, <2>3, <3>1, <3>3 DEF Known
  <2> QED  BY <1>6, <2>1, <2>2, <2>3 DEF UserStep
<1> QED  BY <1>2, <1>4, <1>5, <1>6 DEF AccessForward

LEMMA MintedStep ==
  ASSUME AccessInv, [AccessNext]_accessVars PROVE MintedInv'
<1>1. AccessForward /\ MintedInv /\ RowsOK /\ AccessRows
  BY NextAccessForward, RowsStep DEF AccessInv
<1>2. ASSUME NEW x \in Credentials
      PROVE  IF Row(x).status' = "absent" THEN Row(x)' = NoCredential
             ELSE Row(x).owner' \in Users /\ Known(Row(x).owner)'
  <2>1. CASE Row(x).status # "absent"
    <3>1. PICK u \in Users : u = Row(x).owner /\ Known(u)
      BY <1>1, <2>1 DEF MintedInv
    <3>2. Row(x).owner' = u /\ Known(u)' /\ Row(x).status' \in {Row(x).status, "revoked"}
      BY <1>1, <2>1, <3>1 DEF AccessForward
    <3> QED  BY <2>1, <3>2 DEF Known
  <2>2. CASE Row(x).status = "absent"
    <3>1. Row(x) = NoCredential /\ RowStep(x)
      BY <1>1, <2>2 DEF MintedInv, RowsOK
    <3>2. CASE Row(x)' = Row(x)
      BY <3>1, <3>2, <2>2
    <3>3. ASSUME NEW u \in Users, NEW e \in Nat, user'[u] # NoUser, Row(x)' = Minted(u, e)
          PROVE  Row(x).status' # "absent" /\ Row(x).owner' \in Users /\ Known(Row(x).owner)'
      BY <3>3 DEF Minted, Known
    <3> QED  BY <2>2, <3>1, <3>2, <3>3 DEF RowStep
  <2> QED  BY <2>1, <2>2
<1> QED  BY <1>2 DEF MintedInv

-----------------------------------------------------------------------------
(* What a request holds.                                                   *)

CallInv(c) == StageInv(c) /\ StaleInv(c) /\ LineInv(c) /\ LoginInv(c)

LEMMA HeldKept ==
  ASSUME AccessForward, NEW x, Held(x)
  PROVE  Held(x)' /\ Row(x).owner' = Row(x).owner
  BY DEF AccessForward, Held

\* What is known of a request holds while others take their steps.
LEMMA CallKept ==
  ASSUME AccessForward, NEW c \in Calls, StageInv(c), StaleInv(c), LineInv(c), MintedInv,
         call'[c] = call[c], line'[c] = line[c]
  PROVE  StageInv(c)' /\ StaleInv(c)' /\ LineInv(c)'
<1> PICK x : x = call[c].cred
  OBVIOUS
<1> PICK a : a = call[c].aim
  OBVIOUS
<1>1. mode' = mode
  BY DEF AccessForward
<1>2. x # NoOne => Held(x) /\ Held(x)' /\ Row(x).owner' = Row(x).owner
  BY HeldKept DEF StageInv
<1>3. Held(a) => Held(a)'
  BY HeldKept
<1>4. /\ call'[c].cred = x /\ call'[c].aim = a
      /\ Held(call[c].cred)' = Held(x)' /\ Held(call[c].aim)' = Held(a)'
      /\ Row(call[c].cred)' = Row(x)'
  BY DEF Held, Row
<1>5. StageInv(c)'
  BY <1>1, <1>2, <1>3, <1>4 DEF StageInv
<1>6. LineInv(c)'
  BY <1>1, <1>2, <1>4 DEF LineInv, StageInv
<1>7. StaleInv(c)'
  <2> SUFFICES ASSUME mode.auth, call[c].stale PROVE StaleInv(c)'
    BY <1>1 DEF StaleInv
  <2>1. ASSUME x # NoOne, ~user[Row(x).owner].active PROVE ~user'[Row(x).owner'].active
    <3>1. Held(x) /\ Row(x).owner' = Row(x).owner
      BY <1>2, <2>1
    <3>2. PICK u \in Users : u = Row(x).owner /\ Known(u)
      BY <3>1 DEF MintedInv, Held
    <3> QED  BY <2>1, <3>1, <3>2 DEF AccessForward
  <2>2. ASSUME x # NoOne, ~Opens(x, call[c].now) PROVE ~Opens(x, call[c].now)'
    <3>1. /\ Row(x).expires' = Row(x).expires
          /\ Row(x).status' \in {Row(x).status, "revoked"}
      BY <1>2, <2>2 DEF AccessForward, Held
    <3> QED  BY <2>2, <3>1 DEF Opens
  <2>3. Opens(call[c].cred, call[c].now)' = Opens(x, call[c].now)'
        /\ user[Row(call[c].cred).owner].active' = user'[Row(x).owner'].active
    BY <1>4 DEF Opens
  <2>4. CASE call[c].stage \in {"resolve", "identify"}
    <3>1. x # NoOne
      BY <2>4 DEF StaleInv
    <3> QED  BY <1>1, <1>4, <2>1, <2>2, <2>3, <3>1 DEF StaleInv
  <2>5. CASE call[c].stage \notin {"resolve", "identify"}
    BY <1>1, <2>5 DEF StaleInv
  <2> QED  BY <2>4, <2>5
<1> QED  BY <1>5, <1>6, <1>7

\* The event loop stays with the login that holds it.
LEMMA LoopKept ==
  ASSUME AccessInv, [AccessNext]_accessVars, NEW c \in Calls,
         call[c].stage \in {"open", "provision"}, call'[c] = call[c]
  PROVE  loop' = c
<1>1. AccessRows /\ loop = c /\ c # NoOne
  BY AccessAssumption DEF AccessInv, LoginInv
<1>2. ASSUME NEW d \in Calls, OpenSession(d) PROVE FALSE
  <2>1. call[d].stage \in {"open", "provision"}
    BY <1>2 DEF OpenSession, At
  <2>2. d = c
    BY <1>1, <2>1 DEF AccessInv, LoginInv
  <2>3. call'[d].stage \in {"answered", "lost"}
    <3>1. ASSUME NEW n \in Nat, Answered(d, n, TRUE) PROVE call'[d].stage = "answered"
      <4>1. call'[d] = [call[d] EXCEPT !.stage = "answered", !.status = n, !.changed = TRUE]
        BY <1>1, <3>1, AnsweredFacts DEF AccessRows
      <4> QED  BY <1>1, <4>1 DEF AccessRows, CallType
    <3>2. ASSUME NEW n, Lost(d, n) PROVE call'[d].stage = "lost"
      BY <1>1, <3>2 DEF Lost, Closed, Idle, AccessRows
    <3> QED  BY <1>2, <3>1, <3>2 DEF OpenSession, Lose
  <2> QED  BY <2>2, <2>3
<1>3. ASSUME CrashServer PROVE FALSE
  <2>1. PICK n, old : call'[c] = Closed(old, "lost", n)
    BY <1>1, <1>3 DEF CrashServer
  <2>2. call'[c].stage = "lost"
    BY <2>1 DEF Closed, Idle
  <2> QED  BY <2>2
<1>4. ASSUME NEW d \in Calls, LogIn(d) PROVE FALSE
  BY <1>1, <1>4 DEF LogIn, LoopIsFree
<1>5. UNCHANGED loop
  BY <1>2, <1>3, <1>4
  DEF AccessNext, accessVars, Receive, Resolve, Identify, Read, MintKey, FindKey, RevokeKey,
      Post, FindSession, LogOut, Audit, PassMoment, CreateTenant, CreateUser, IssueKey, SeedDev,
      ChangeUser, CommandRevokes, Command
<1> QED  BY <1>1, <1>5

LEMMA LoginKept ==
  ASSUME AccessInv, [AccessNext]_accessVars, NEW c \in Calls, call'[c] = call[c]
  PROVE  LoginInv(c)'
<1>1. LoginInv(c) /\ StageInv(c) /\ AccessForward /\ UsersOK
  BY NextAccessForward, UsersStep DEF AccessInv
<1> PICK u : u = Member(c)
  OBVIOUS
<1>2. u = Member(c)' /\ Known(Member(c))' = Known(u)' /\ user'[Member(c)'] = user'[u]
  BY DEF Member, Known
<1>3. Known(u) => Known(u)' /\ user'[u].by = user[u].by
  BY <1>1 DEF AccessForward, Known
<1>4. ASSUME call[c].stage = "provision", ~Known(u), Known(u)' PROVE user'[u].by = "command"
  <2>1. u \in Users /\ UserStep(u)
    BY <1>1, <1>4 DEF UsersOK, Known
  <2>2. PICK r \in Roles, b \in {"command", "login"} :
          /\ user'[u] = [role |-> r, active |-> TRUE, by |-> b]
          /\ b = "login" => \E d \in Calls : At(d, "provision") /\ call'[d].stage # "provision"
    BY <1>4, <2>1 DEF UserStep, Known
  <2>3. \A d \in Calls : At(d, "provision") => d = c
    BY <1>1, <1>4 DEF AccessInv, LoginInv, At
  <2>4. b = "command"
    BY <1>4, <2>2, <2>3
  <2> QED  BY <2>2, <2>4
<1>5. call[c].stage \in {"open", "provision"} => loop' = c
  BY LoopKept
<1> QED  BY <1>1, <1>2, <1>3, <1>4, <1>5 DEF LoginInv

\* What the proofs of the single requests end with.
CallOK(c) == /\ CallInv(c)' /\ call' \in [Calls -> CallType]
             /\ \A d \in Calls \ {c} : call'[d] = call[d]

InHand == {"resolve", "identify", "handle", "write", "login", "open", "provision", "logout"}

\* An answer: 4xx unless the identity is known, and a change only with 2xx or 3xx.
LEMMA AnswerKeeps ==
  ASSUME AccessInv, AccessForward, NEW c \in Calls, NEW n \in Nat, NEW b \in BOOLEAN,
         Answered(c, n, b), line' = line, call[c].stage \in InHand, n # Conflict,
         b /\ call[c].op # "post" => n < 400,
         mode.auth /\ call[c].op \notin {"login", "logout"} /\ n < 400 =>
           call[c].stage \in {"handle", "write"}
  PROVE  CallOK(c)
<1>1. AccessRows /\ StageInv(c) /\ StaleInv(c) /\ LineInv(c) /\ call[c] \in CallType
  BY DEF AccessInv, AccessRows
<1>2. /\ call' \in [Calls -> CallType]
      /\ call'[c] = [call[c] EXCEPT !.stage = "answered", !.status = n, !.changed = b]
      /\ \A d \in Calls \ {c} : call'[d] = call[d]
  <2>1. call \in [Calls -> CallType]
    BY <1>1 DEF AccessRows
  <2>2. [call[c] EXCEPT !.stage = "answered", !.status = n, !.changed = b] \in CallType
    BY <2>1 DEF CallType, Stages
  <2>3. call' = [call EXCEPT ![c] =
                   [call[c] EXCEPT !.stage = "answered", !.status = n, !.changed = b]]
    BY <2>1 DEF Answered, CallType
  <2> QED  BY <2>1, <2>2, <2>3
<1>3. /\ call'[c].stage = "answered" /\ call'[c].status = n /\ call'[c].changed = b
      /\ call'[c].op = call[c].op /\ call'[c].cred = call[c].cred /\ call'[c].who = call[c].who
      /\ call'[c].stale = call[c].stale
  BY <1>1, <1>2 DEF CallType
<1> PICK x : x = call[c].cred
  OBVIOUS
<1>4. x # NoOne => Held(x) /\ Held(x)' /\ Row(x).owner' = Row(x).owner
  BY <1>1, HeldKept DEF StageInv
<1>5. Held(call[c].cred)' = Held(x)' /\ Row(call[c].cred)' = Row(x)' /\ mode' = mode
  BY <1>3 DEF Held, Row, AccessForward
<1>6. StageInv(c)'
  BY <1>1, <1>3, <1>4, <1>5 DEF StageInv
<1>7. StaleInv(c)'
  BY <1>1, <1>3, <1>5 DEF StaleInv
<1>8. LineInv(c)'
  BY <1>1, <1>3, <1>4, <1>5 DEF LineInv, InHand
<1>9. LoginInv(c)'
  BY <1>3 DEF LoginInv
<1> QED  BY <1>2, <1>6, <1>7, <1>8, <1>9 DEF CallInv, CallOK

\* The end of a request that is not answered.
LEMMA ClosingKeeps ==
  ASSUME AccessInv, AccessForward, NEW c \in Calls, NEW n \in Nat,
         call'[c] = Closed(call[c], "lost", n), line' = line,
         call[c].stage # "done",
         n = Conflict => /\ call[c].aim \in Emails
                         /\ Known(Member(c)) /\ user[Member(c)].by = "command"
  PROVE  CallInv(c)'
<1>1. AccessRows /\ StageInv(c) /\ LineInv(c)
  BY DEF AccessInv
<1>2. /\ call'[c].stage = "lost" /\ call'[c].op = call[c].op /\ call'[c].cred = NoOne
      /\ call'[c].who = NoOne /\ call'[c].status = n /\ call'[c].stale = FALSE
      /\ n = Conflict => call'[c].aim = call[c].aim
  <2>1. PICK old : old = call[c]
    OBVIOUS
  <2>2. call'[c] = Closed(old, "lost", n)
    BY <2>1
  <2> QED  BY <2>1, <2>2 DEF Closed, Idle
<1>3. StageInv(c)'
  BY <1>1, <1>2, AccessAssumption DEF StageInv, Credentials
<1>4. StaleInv(c)' /\ LineInv(c)'
  BY <1>1, <1>2 DEF StaleInv, LineInv
<1>5. LoginInv(c)'
  <2>1. CASE n # Conflict
    BY <1>2, <2>1 DEF LoginInv
  <2>2. CASE n = Conflict
    <3>1. PICK u \in Users : u = Member(c) /\ Known(u) /\ user[u].by = "command"
      BY <2>2 DEF Known
    <3>2. Member(c)' = u
      BY <1>2, <2>2, <3>1 DEF Member
    <3>3. Known(u)' /\ user'[u].by = "command"
      BY <3>1 DEF AccessForward
    <3> QED  BY <1>2, <2>2, <3>2, <3>3 DEF LoginInv, Known
  <2> QED  BY <2>1, <2>2
<1> QED  BY <1>3, <1>4, <1>5 DEF CallInv

LEMMA LoseKeeps ==
  ASSUME AccessInv, AccessForward, NEW c \in Calls, Lose(c), line' = line, call[c].stage # "done"
  PROVE  CallOK(c)
<1>1. PICK n \in Nat : n = 500
  OBVIOUS
<1>2. n # Conflict
  BY <1>1 DEF Conflict
<1>3. Lost(c, n)
  BY <1>1 DEF Lose
<1>4. call \in [Calls -> CallType]
  BY DEF AccessInv, AccessRows
<1>5. /\ call' \in [Calls -> CallType] /\ call'[c] = Closed(call[c], "lost", n)
      /\ \A d \in Calls \ {c} : call'[d] = call[d]
  BY <1>3, <1>4, LostFacts
<1> QED  BY <1>2, <1>5, ClosingKeeps DEF CallOK

\* An identity enters only with a credential that was not stale on arrival.
LEMMA EnterKeeps ==
  ASSUME AccessInv, AccessForward, NEW c \in Calls, NEW w \in Users \cup {Insecure}, NEW r,
         Enter(c, w, r), line' = line, call[c].stage \in {"resolve", "identify"},
         mode.auth => /\ call[c].cred # NoOne /\ w = Row(call[c].cred).owner
                      /\ ~call[c].stale
  PROVE  CallOK(c)
<1>1. AccessRows /\ StageInv(c) /\ LineInv(c) /\ LoginInv(c) /\ call[c] \in CallType
      /\ call \in [Calls -> CallType]
  BY DEF AccessInv, AccessRows
<1>2. /\ call' \in [Calls -> CallType]
      /\ \/ call'[c] = [call[c] EXCEPT !.stage = "handle", !.who = w]
         \/ \E n \in Nat :
              /\ n = 403
              /\ call'[c] = [call[c] EXCEPT !.stage = "answered", !.status = n, !.who = w]
      /\ \A d \in Calls \ {c} : call'[d] = call[d]
  BY <1>1, EnterFacts
<1> PICK x : x = call[c].cred
  OBVIOUS
<1>3. x # NoOne => Held(x) /\ Held(x)' /\ Row(x).owner' = Row(x).owner
  BY <1>1, HeldKept DEF StageInv
<1>4. /\ \/ call'[c].stage = "handle" /\ call'[c].status = call[c].status
         \/ call'[c].stage = "answered" /\ call'[c].status = 403
      /\ call'[c].changed = call[c].changed /\ call'[c].who = w /\ call'[c].aim = call[c].aim
      /\ call'[c].op = call[c].op /\ call'[c].cred = x /\ call'[c].stale = call[c].stale
  <2>1. CASE call'[c] = [call[c] EXCEPT !.stage = "handle", !.who = w]
    BY <1>1, <2>1 DEF CallType
  <2>2. ASSUME NEW n \in Nat, n = 403,
               call'[c] = [call[c] EXCEPT !.stage = "answered", !.status = n, !.who = w]
        PROVE  /\ call'[c].stage = "answered" /\ call'[c].status = n
               /\ call'[c].changed = call[c].changed /\ call'[c].who = w
               /\ call'[c].aim = call[c].aim
               /\ call'[c].op = call[c].op /\ call'[c].cred = x /\ call'[c].stale = call[c].stale
    BY <1>1, <2>2 DEF CallType
  <2> QED  BY <1>2, <2>1, <2>2
<1>5. Held(call[c].cred)' = Held(x)' /\ Row(call[c].cred)' = Row(x)' /\ mode' = mode
  BY <1>4 DEF Held, Row, AccessForward
<1>6. StageInv(c)'
  BY <1>1, <1>3, <1>4, <1>5 DEF StageInv
<1>7. StaleInv(c)'
  BY <1>1, <1>4, <1>5 DEF StaleInv
<1>8. ~call[c].changed
  BY <1>1 DEF LineInv
<1>9. LineInv(c)'
  BY <1>1, <1>3, <1>4, <1>5, <1>8 DEF LineInv
<1>10. 403 # Conflict
  BY DEF Conflict
<1>11. LoginInv(c)'
  BY <1>1, <1>4, <1>10 DEF LoginInv
<1> QED  BY <1>2, <1>6, <1>7, <1>9, <1>11 DEF CallOK, CallInv

\* A request that goes on to its next statement.
LEMMA GoKeeps ==
  ASSUME AccessInv, AccessForward, NEW c \in Calls, NEW s \in Stages, GoTo(c, s), line' = line,
         s \in {"identify", "write", "open", "provision"}, call[c].stage \in InHand,
         s = "identify" => /\ mode.auth /\ call[c].cred # NoOne /\ call[c].stage = "resolve"
                           /\ Opens(call[c].cred, call[c].now),
         s = "write" => \/ /\ call[c].op = "revoke" /\ call[c].stage = "handle"
                           /\ Held(call[c].aim)
                        \/ /\ call[c].op = "logout" /\ call[c].cred # NoOne
                           /\ call[c].stage = "logout",
         s \in {"open", "provision"} => call[c].stage = "login" /\ loop' = c,
         s = "open" => Known(Member(c)),
         s = "provision" => user' = user /\ ~Known(Member(c))
  PROVE  CallOK(c)
<1>1. /\ AccessRows /\ StageInv(c) /\ StaleInv(c) /\ LineInv(c) /\ LoginInv(c) /\ MintedInv
      /\ call[c] \in CallType /\ call \in [Calls -> CallType]
  BY DEF AccessInv, AccessRows
<1>2. /\ call' \in [Calls -> CallType]
      /\ call'[c] = [call[c] EXCEPT !.stage = s]
      /\ \A d \in Calls \ {c} : call'[d] = call[d]
  BY <1>1, GoToFacts
<1> PICK x : x = call[c].cred
  OBVIOUS
<1> PICK a : a = call[c].aim
  OBVIOUS
<1>3. /\ call'[c].stage = s /\ call'[c].op = call[c].op /\ call'[c].aim = a
      /\ call'[c].cred = x /\ call'[c].now = call[c].now /\ call'[c].who = call[c].who
      /\ call'[c].status = call[c].status /\ call'[c].changed = call[c].changed
      /\ call'[c].stale = call[c].stale
  BY <1>1, <1>2 DEF CallType
<1>4. /\ x # NoOne => Held(x) /\ Held(x)' /\ Row(x).owner' = Row(x).owner
      /\ Held(a) => Held(a)'
  BY <1>1, HeldKept DEF StageInv
<1>5. /\ Held(call[c].cred)' = Held(x)' /\ Row(call[c].cred)' = Row(x)' /\ mode' = mode
      /\ Held(call[c].aim)' = Held(a)'
  BY <1>3 DEF Held, Row, AccessForward
<1>6. StageInv(c)'
  BY <1>1, <1>3, <1>4, <1>5 DEF StageInv, InHand
<1>7. StaleInv(c)'
  <2>1. CASE s = "identify" /\ call[c].stale
    <3>1. x # NoOne /\ ~user[Row(x).owner].active
      BY <1>1, <2>1 DEF StaleInv
    <3>2. PICK u \in Users : u = Row(x).owner /\ Known(u)
      BY <1>1, <1>4, <3>1 DEF MintedInv, Held
    <3>3. ~user'[u].active /\ Row(x).owner' = u
      BY <1>4, <3>1, <3>2 DEF AccessForward
    <3>4. ~user[Row(call[c].cred).owner].active'
      BY <1>5, <3>3
    <3> QED  BY <1>1, <1>3, <1>5, <2>1, <3>1, <3>4 DEF StaleInv
  <2>2. CASE ~(s = "identify" /\ call[c].stale)
    BY <1>1, <1>3, <1>5, <2>2 DEF StaleInv
  <2> QED  BY <2>1, <2>2
<1>8. LineInv(c)'
  BY <1>1, <1>3, <1>4, <1>5 DEF LineInv, InHand
<1>9. LoginInv(c)'
  <2> PICK u : u = Member(c)
    OBVIOUS
  <2>1. Member(c)' = u /\ Known(Member(c))' = Known(u)' /\ user'[Member(c)'] = user'[u]
    BY <1>3 DEF Member, Known
  <2>2. Known(u) => Known(u)'
    BY DEF AccessForward, Known
  <2>3. user' = user => (Known(u)' <=> Known(u))
    BY DEF Known
  <2>4. call[c].status # Conflict
    BY <1>1 DEF LoginInv, InHand
  <2> QED  BY <1>3, <2>1, <2>2, <2>3, <2>4 DEF LoginInv
<1> QED  BY <1>2, <1>6, <1>7, <1>8, <1>9 DEF CallOK, CallInv

LEMMA DenialKeeps ==
  ASSUME AccessInv, AccessForward, NEW c \in Calls, NEW n \in {401, 403, 404},
         Answered(c, n, FALSE), line' = line, call[c].stage \in InHand
  PROVE  CallOK(c)
<1>1. n \in Nat /\ n # Conflict /\ ~(n < 400)
  BY DEF Conflict
<1>2. PICK b \in BOOLEAN : b = FALSE
  OBVIOUS
<1>3. Answered(c, n, b) /\ ~b
  BY <1>2, Zenon
<1> QED  BY <1>1, <1>3, AnswerKeeps

LEMMA SuccessKeeps ==
  ASSUME AccessInv, AccessForward, NEW c \in Calls, NEW n \in {200, 201, 302}, NEW b \in BOOLEAN,
         Answered(c, n, b), line' = line, call[c].stage \in InHand,
         \/ call[c].op \in {"login", "logout"}
         \/ call[c].stage \in {"handle", "write"}
  PROVE  CallOK(c)
<1>1. n \in Nat /\ n # Conflict /\ n < 400
  BY DEF Conflict
<1> QED  BY <1>1, AnswerKeeps

LEMMA ReceiveKeeps ==
  ASSUME AccessInv, AccessForward, NEW c \in Calls, Receive(c) PROVE CallOK(c)
<1>1. /\ AccessRows /\ StageInv(c) /\ StaleInv(c) /\ LineInv(c) /\ LoginInv(c) /\ MintedInv
      /\ call[c] \in CallType /\ call \in [Calls -> CallType] /\ call[c].stage = "idle"
      /\ UNCHANGED <<mode, user, key, cookie, line>>
  BY DEF AccessInv, AccessRows, Receive, At
<1>a. PICK op \in Ops \ {"none"},
           cred \in {x \in Credentials : Row(x).status # "absent"} \cup {NoOne} :
        \E aim \in Aims(op) :
          /\ op = "login" => cred = NoOne
          /\ op = "logout" => cred \notin Keys
          /\ call' = [call EXCEPT ![c] =
               [@ EXCEPT !.stage = IF op \in {"login", "logout"} THEN op ELSE "resolve",
                         !.op = op, !.aim = aim, !.cred = cred, !.now = moment,
                         !.stale = cred # NoOne /\ (Dead(cred) \/ ~user[Row(cred).owner].active)]]
  BY Zenon DEF Receive
<1>2. PICK aim \in Aims(op) :
        /\ op = "login" => cred = NoOne
        /\ op = "logout" => cred \notin Keys
        /\ call' = [call EXCEPT ![c] =
             [@ EXCEPT !.stage = IF op \in {"login", "logout"} THEN op ELSE "resolve",
                       !.op = op, !.aim = aim, !.cred = cred, !.now = moment,
                       !.stale = cred # NoOne /\ (Dead(cred) \/ ~user[Row(cred).owner].active)]]
  BY <1>a
<1> DEFINE stale == cred # NoOne /\ (Dead(cred) \/ ~user[Row(cred).owner].active)
           stage == IF op \in {"login", "logout"} THEN op ELSE "resolve"
           new == [call[c] EXCEPT !.stage = stage, !.op = op, !.aim = aim, !.cred = cred,
                                  !.now = moment, !.stale = stale]
<1>3. stage \in Stages /\ stale \in BOOLEAN /\ moment \in Nat /\ cred \in Credentials \cup {NoOne}
  BY <1>1, <1>2, MomentFacts DEF Stages
<1>4. /\ aim \in Emails \cup Keys \cup PostScopes \cup {NoOne}
      /\ op = "login" => aim \in Emails
      /\ op = "revoke" => aim \in Keys
  BY <1>2 DEF Aims
<1>5. call' = [call EXCEPT ![c] = new]
  BY <1>2, Zenon
<1>6. new \in CallType
  <2> HIDE DEF stale, stage
  <2> QED  BY <1>1, <1>2, <1>3, <1>4 DEF CallType
<1>7. call' \in [Calls -> CallType] /\ call'[c] = new /\ \A d \in Calls \ {c} : call'[d] = call[d]
  <2> HIDE DEF new
  <2> QED  BY <1>1, <1>5, <1>6
<1>8. /\ call'[c].stage = stage /\ call'[c].op = op /\ call'[c].aim = aim
      /\ call'[c].cred = cred /\ call'[c].now = moment /\ call'[c].who = call[c].who
      /\ call'[c].status = call[c].status /\ call'[c].changed = call[c].changed
      /\ call'[c].stale = stale
  <2> HIDE DEF stale, stage
  <2> QED  BY <1>1, <1>7 DEF CallType
<1>9. cred # NoOne => Held(cred)
  BY <1>2 DEF Held
<1>10. /\ Held(call[c].cred)' = Held(cred) /\ Row(call[c].cred)' = Row(cred)
       /\ user'[Row(call[c].cred).owner'] = user[Row(cred).owner]
       /\ Opens(call[c].cred, call[c].now)' = Opens(cred, moment)
  BY <1>1, <1>8 DEF Held, Row, Opens
<1>11. /\ call[c].who = NoOne /\ ~call[c].changed /\ call[c].status # Conflict
       /\ line'[c] = NoLine /\ mode' = mode
  BY <1>1 DEF StageInv, LineInv, LoginInv
<1>12. stage \in {"login", "logout", "resolve"} /\ (stage = "login" <=> op = "login")
       /\ (stage = "logout" <=> op = "logout")
  BY <1>2
<1> HIDE DEF new
<1>13. LineInv(c)' /\ LoginInv(c)'
  <2> HIDE DEF stage, stale
  <2> QED  BY <1>8, <1>11, <1>12 DEF LineInv, LoginInv
<1>14. StageInv(c)'
  <2> HIDE DEF stage, stale
  <2> QED  BY <1>2, <1>4, <1>8, <1>9, <1>10, <1>11, <1>12 DEF StageInv
<1>15. StaleInv(c)'
  <2>1. stale => cred # NoOne /\ op # "login"
    BY <1>2
  <2>2. ASSUME stale PROVE ~Opens(cred, moment) \/ ~user[Row(cred).owner].active
    <3>1. CASE Dead(cred)
      <4>1. Row(cred) \in CredentialType
        BY <1>1, <1>2, <2>1, <2>2 DEF AccessRows, Row, Credentials
      <4> QED  BY <1>3, <3>1, <4>1 DEF Dead, Opens, CredentialType
    <3> QED  BY <2>2, <3>1
  <2> HIDE DEF stage, stale
  <2> QED  BY <1>8, <1>10, <1>11, <1>12, <2>1, <2>2 DEF StaleInv
<1> QED  BY <1>7, <1>13, <1>14, <1>15 DEF CallOK, CallInv

LEMMA ResolveKeeps ==
  ASSUME AccessInv, AccessForward, NEW c \in Calls, Resolve(c) PROVE CallOK(c)
<1>1. /\ call[c].stage = "resolve" /\ line' = line /\ StaleInv(c) /\ StageInv(c)
  BY DEF Resolve, At, AccessInv
<1>2. CASE ~mode.auth /\ Enter(c, Insecure, "admin")
  BY <1>1, <1>2, EnterKeeps
<1>3. CASE mode.auth /\ GoTo(c, "identify") /\ call[c].cred # NoOne
           /\ Opens(call[c].cred, call[c].now)
  BY <1>1, <1>3, GoKeeps DEF InHand, Stages
<1>4. CASE mode.auth /\ Answered(c, 401, FALSE)
  BY <1>1, <1>4, DenialKeeps DEF InHand
<1> QED  BY <1>2, <1>3, <1>4 DEF Resolve

LEMMA IdentifyKeeps ==
  ASSUME AccessInv, AccessForward, NEW c \in Calls, Identify(c) PROVE CallOK(c)
<1>1. /\ call[c].stage = "identify" /\ line' = line /\ StaleInv(c) /\ StageInv(c) /\ MintedInv
  BY DEF Identify, At, AccessInv
<1>2. mode.auth /\ call[c].cred # NoOne /\ Held(call[c].cred)
  BY <1>1 DEF StageInv
<1>3. PICK u \in Users : u = Row(call[c].cred).owner
  BY <1>1, <1>2 DEF MintedInv, Held
<1>4. CASE Answered(c, 403, FALSE)
  BY <1>1, <1>4, DenialKeeps DEF InHand
<1>5. CASE user[u].active /\ Enter(c, u, user[u].role)
  <2>1. ~call[c].stale
    BY <1>1, <1>2, <1>3, <1>5 DEF StaleInv
  <2>2. PICK r : Enter(c, u, r)
    BY <1>5
  <2> QED  BY <1>1, <1>2, <1>3, <2>1, <2>2, EnterKeeps
<1>6. CASE Lose(c)
  BY <1>1, <1>6, LoseKeeps
<1> QED  BY <1>3, <1>4, <1>5, <1>6 DEF Identify

LEMMA HandlerKeeps ==
  ASSUME AccessInv, AccessForward, NEW c \in Calls,
         Read(c) \/ MintKey(c) \/ FindKey(c) \/ RevokeKey(c) \/ Post(c)
  PROVE  CallOK(c)
<1>1. /\ call[c].stage \in {"handle", "write"} /\ line' = line /\ StageInv(c) /\ MintedInv
      /\ call[c].stage \in InHand /\ call[c].stage # "done"
  BY DEF Read, MintKey, FindKey, RevokeKey, Post, At, AccessInv, InHand
<1>2. ASSUME NEW n \in {200, 201}, NEW b \in BOOLEAN, Answered(c, n, b) PROVE CallOK(c)
  BY <1>1, <1>2, SuccessKeeps
<1>3. CASE Read(c)
  <2>1. PICK b \in BOOLEAN : b = FALSE
    OBVIOUS
  <2>2. Answered(c, 200, b)
    BY <1>3, <2>1, Zenon DEF Read
  <2> QED  BY <1>2, <2>2
<1>4. CASE MintKey(c)
  <2>1. PICK b \in BOOLEAN : b = TRUE
    OBVIOUS
  <2>2. Answered(c, 404, FALSE) \/ Answered(c, 201, b) \/ Lose(c)
    BY <1>4, <2>1, Zenon DEF MintKey
  <2>3. CASE Answered(c, 404, FALSE)
    BY <1>1, <2>3, DenialKeeps
  <2>4. CASE Lose(c)
    BY <1>1, <2>4, LoseKeeps
  <2>5. CASE Answered(c, 201, b)
    <3>1. PICK n \in {200, 201} : n = 201
      OBVIOUS
    <3>2. Answered(c, n, b)
      BY <2>5, <3>1, Zenon
    <3> QED  BY <1>2, <3>2
  <2> QED  BY <2>2, <2>3, <2>4, <2>5
<1>5. CASE FindKey(c)
  <2>1. CASE MayRevoke(c, call[c].aim)
    <3>1. GoTo(c, "write") /\ call[c].op = "revoke" /\ call[c].stage = "handle"
      BY <1>5, <2>1 DEF FindKey, At
    <3>2. Held(call[c].aim)
      BY <1>1, <2>1, <3>1 DEF MayRevoke, StageInv, MintedInv, Held, Row, Credentials
    <3> QED  BY <1>1, <3>1, <3>2, GoKeeps DEF Stages
  <2>2. CASE ~MayRevoke(c, call[c].aim)
    BY <1>1, <1>5, <2>2, DenialKeeps DEF FindKey
  <2> QED  BY <2>1, <2>2
<1>6. CASE RevokeKey(c)
  <2>1. PICK b \in BOOLEAN : b = TRUE
    OBVIOUS
  <2>2. Answered(c, 200, b) \/ Lose(c)
    BY <1>6, <2>1, Zenon DEF RevokeKey
  <2> QED  BY <1>1, <1>2, <2>2, LoseKeeps
<1>7. CASE Post(c)
  <2>1. PICK n \in {200, 400, 500} : Answered(c, n, n # 400)
    BY <1>7 DEF Post
  <2>2. PICK b \in BOOLEAN : b = (n # 400)
    OBVIOUS
  <2>3. Answered(c, n, b)
    BY <2>1, <2>2, Zenon
  <2>4. n \in Nat /\ n # Conflict /\ call[c].op = "post" /\ call[c].stage = "handle"
    BY <1>7 DEF Conflict, Post, At
  <2> QED  BY <1>1, <2>3, <2>4, AnswerKeeps
<1> QED  BY <1>3, <1>4, <1>5, <1>6, <1>7

LEMMA LoginKeeps ==
  ASSUME AccessInv, AccessForward, NEW c \in Calls,
         LogIn(c) \/ OpenSession(c) \/ FindSession(c) \/ LogOut(c)
  PROVE  CallOK(c)
<1>1. /\ call[c].stage \in {"login", "open", "provision", "logout", "write"} /\ line' = line
      /\ StageInv(c) /\ LoginInv(c) /\ call[c].stage \in InHand /\ call[c].stage # "done"
  BY DEF LogIn, OpenSession, FindSession, LogOut, At, AccessInv, InHand
<1>2. call[c].op \in {"login", "logout"}
  BY <1>1 DEF StageInv, LogOut, At, LogIn, OpenSession, FindSession
<1>3. ASSUME NEW n \in {200, 302}, NEW b \in BOOLEAN, Answered(c, n, b) PROVE CallOK(c)
  BY <1>1, <1>2, <1>3, SuccessKeeps
<1>4. CASE LogIn(c)
  <2>1. \/ Answered(c, 401, FALSE)
        \/ Answered(c, 403, FALSE)
        \/ /\ Known(Member(c)) /\ GoTo(c, "open") /\ loop' = c
        \/ /\ ~Known(Member(c)) /\ GoTo(c, "provision") /\ loop' = c /\ user' = user
    BY <1>4 DEF LogIn, HoldsLoop
  <2>2. call[c].stage = "login"
    BY <1>4 DEF LogIn, At
  <2> QED  BY <1>1, <2>1, <2>2, DenialKeeps, GoKeeps DEF Stages
<1>5. CASE OpenSession(c)
  <2>1. PICK b \in BOOLEAN : b = TRUE
    OBVIOUS
  <2>2. \/ Answered(c, 302, b)
        \/ At(c, "provision") /\ Known(Member(c)) /\ Lost(c, Conflict)
        \/ Lose(c)
    BY <1>5, <2>1, Zenon DEF OpenSession
  <2>3. ASSUME At(c, "provision"), Known(Member(c)), Lost(c, Conflict) PROVE CallOK(c)
    <3>1. Conflict \in Nat
      BY DEF Conflict
    <3>2. call \in [Calls -> CallType]
      BY DEF AccessInv, AccessRows
    <3>3. /\ call' \in [Calls -> CallType] /\ call'[c] = Closed(call[c], "lost", Conflict)
          /\ \A d \in Calls \ {c} : call'[d] = call[d]
      BY <2>3, <3>1, <3>2, LostFacts
    <3>4. call[c].aim \in Emails /\ user[Member(c)].by = "command"
      BY <1>1, <2>3 DEF StageInv, LoginInv, At
    <3> QED  BY <1>1, <2>3, <3>1, <3>3, <3>4, ClosingKeeps DEF CallOK
  <2> QED  BY <1>1, <1>3, <2>2, <2>3, LoseKeeps
<1>6. CASE FindSession(c)
  <2>1. PICK b \in BOOLEAN : b = FALSE
    OBVIOUS
  <2>2. \/ call[c].cred # NoOne /\ GoTo(c, "write")
        \/ Answered(c, 200, b)
    BY <1>6, <2>1, Zenon DEF FindSession
  <2>3. call[c].stage = "logout" /\ call[c].op = "logout"
    BY <1>1, <1>6 DEF FindSession, At, StageInv
  <2> QED  BY <1>1, <1>3, <2>2, <2>3, GoKeeps DEF Stages
<1>7. CASE LogOut(c)
  <2>1. PICK b \in BOOLEAN : b = TRUE
    OBVIOUS
  <2>2. Answered(c, 200, b) \/ Lose(c)
    BY <1>7, <2>1, Zenon DEF LogOut
  <2> QED  BY <1>1, <1>3, <2>2, LoseKeeps
<1> QED  BY <1>4, <1>5, <1>6, <1>7

LEMMA AuditKeeps ==
  ASSUME AccessInv, AccessForward, NEW c \in Calls, Audit(c)
  PROVE  CallOK(c) /\ line' \in [Calls -> AuditLineType]
         /\ \A d \in Calls \ {c} : line'[d] = line[d]
<1>1. /\ call[c].stage = "answered" /\ StageInv(c) /\ LineInv(c) /\ LoginInv(c) /\ mode' = mode
      /\ call \in [Calls -> CallType] /\ line \in [Calls -> AuditLineType]
  BY DEF AccessInv, AccessRows, Audit, At, AccessForward
<1> PICK old \in CallType, n \in Nat : old = call[c] /\ n = 0
  BY <1>1
<1> PICK x : x = old.cred
  OBVIOUS
<1>2. call' = [call EXCEPT ![c] = Closed(old, "done", n)]
      /\ line' = [line EXCEPT ![c] = [actor |-> old.who, decision |-> Decision(old.status)]]
  BY DEF Audit
<1>3. Closed(old, "done", n) \in CallType
  BY ClosedType DEF Stages
<1>4. [actor |-> old.who, decision |-> Decision(old.status)] \in AuditLineType
  BY DEF AuditLineType, CallType, Decision
<1>5. /\ call' \in [Calls -> CallType] /\ call'[c] = Closed(old, "done", n)
      /\ \A d \in Calls \ {c} : call'[d] = call[d]
      /\ line' \in [Calls -> AuditLineType]
      /\ line'[c] = [actor |-> old.who, decision |-> Decision(old.status)]
      /\ \A d \in Calls \ {c} : line'[d] = line[d]
  BY <1>1, <1>2, <1>3, <1>4
<1>6. /\ call'[c].stage = "done" /\ call'[c].op = old.op /\ call'[c].cred = x
      /\ call'[c].who = NoOne /\ call'[c].status = n /\ call'[c].changed = old.changed
      /\ call'[c].stale = FALSE
  BY <1>5 DEF Closed, Idle
<1>7. x # NoOne => Held(x) /\ Held(x)' /\ Row(x).owner' = Row(x).owner
  BY <1>1, HeldKept DEF StageInv
<1>8. Held(call[c].cred)' = Held(x)' /\ Row(call[c].cred)' = Row(x)'
  BY <1>6 DEF Held, Row
<1>9. /\ line'[c].actor = old.who
      /\ line'[c].decision = "allow" <=> old.status < 400
  BY <1>5 DEF Decision
<1>10. n # Conflict
  BY DEF Conflict
<1>11. StageInv(c)'
  BY <1>1, <1>6, <1>7, <1>8 DEF StageInv
<1>12. StaleInv(c)' /\ LoginInv(c)'
  BY <1>6, <1>10 DEF StaleInv, LoginInv
<1>13. LineInv(c)'
  BY <1>1, <1>6, <1>7, <1>8, <1>9 DEF LineInv
<1> QED  BY <1>5, <1>11, <1>12, <1>13 DEF CallOK, CallInv

\* The server dies: every request in progress is lost.
LEMMA CrashKeeps ==
  ASSUME AccessInv, AccessForward, CrashServer, [AccessNext]_accessVars
  PROVE  call' \in [Calls -> CallType] /\ \A c \in Calls : CallInv(c)'
<1>1. AccessRows /\ MintedInv /\ line' = line
  BY DEF AccessInv, CrashServer
<1> PICK n \in Nat : n = 500
  OBVIOUS
<1>2. call' = [c \in Calls |-> IF call[c].stage \in {"idle", "done", "lost"} THEN call[c]
                               ELSE Closed(call[c], "lost", n)]
  BY DEF CrashServer
<1>3. n # Conflict
  BY DEF Conflict
<1>4. \A c \in Calls : call[c] \in CallType
  BY <1>1 DEF AccessRows
<1>5. \A c \in Calls : Closed(call[c], "lost", n) \in CallType
  BY <1>4, ClosedType DEF Stages
<1>6. call' \in [Calls -> CallType]
  BY <1>2, <1>4, <1>5
<1>7. ASSUME NEW c \in Calls PROVE CallInv(c)'
  <2>1. CASE call'[c] = call[c]
    BY <1>1, <2>1, CallKept, LoginKept DEF CallInv, AccessInv
  <2>2. CASE call'[c] = Closed(call[c], "lost", n) /\ call[c].stage # "done"
    BY <1>1, <1>3, <2>2, ClosingKeeps
  <2> QED  BY <1>2, <2>1, <2>2
<1> QED  BY <1>6, <1>7

LEMMA CallsStep ==
  ASSUME AccessInv, [AccessNext]_accessVars
  PROVE  /\ call' \in [Calls -> CallType] /\ line' \in [Calls -> AuditLineType]
         /\ \A c \in Calls : CallInv(c)'
<1> DEFINE OK == /\ call' \in [Calls -> CallType] /\ line' \in [Calls -> AuditLineType]
                 /\ \A c \in Calls : CallInv(c)'
<1>1. AccessForward /\ AccessRows /\ MintedInv
  BY NextAccessForward DEF AccessInv
<1>2. ASSUME NEW c \in Calls, call'[c] = call[c], line'[c] = line[c] PROVE CallInv(c)'
  BY <1>1, <1>2, CallKept, LoginKept DEF CallInv, AccessInv
<1>3. ASSUME NEW c \in Calls, CallOK(c), line' \in [Calls -> AuditLineType],
             \A d \in Calls \ {c} : line'[d] = line[d]
      PROVE  OK
  <2>1. CallInv(c)' /\ call' \in [Calls -> CallType] /\ \A d \in Calls \ {c} : call'[d] = call[d]
    BY <1>3 DEF CallOK
  <2>2. \A d \in Calls \ {c} : CallInv(d)'
    BY <1>2, <1>3, <2>1
  <2> QED  BY <1>3, <2>1, <2>2
<1>4. ASSUME NEW c \in Calls, CallOK(c), line' = line PROVE OK
  <2>1. line \in [Calls -> AuditLineType]
    BY <1>1 DEF AccessRows
  <2> QED  BY <1>3, <1>4, <2>1
<1>5. ASSUME NEW c \in Calls, Receive(c) \/ Resolve(c) \/ Identify(c) PROVE OK
  BY <1>1, <1>4, <1>5, ReceiveKeeps, ResolveKeeps, IdentifyKeeps
  DEF Receive, Resolve, Identify
<1>6. ASSUME NEW c \in Calls, Read(c) \/ MintKey(c) \/ FindKey(c) \/ RevokeKey(c) \/ Post(c)
      PROVE  OK
  BY <1>1, <1>4, <1>6, HandlerKeeps DEF Read, MintKey, FindKey, RevokeKey, Post
<1>7. ASSUME NEW c \in Calls, LogIn(c) \/ OpenSession(c) \/ FindSession(c) \/ LogOut(c)
      PROVE  OK
  BY <1>1, <1>4, <1>7, LoginKeeps DEF LogIn, OpenSession, FindSession, LogOut
<1>8. ASSUME NEW c \in Calls, Audit(c) PROVE OK
  BY <1>1, <1>3, <1>8, AuditKeeps
<1>9. ASSUME CrashServer PROVE OK
  BY <1>1, <1>9, CrashKeeps DEF CrashServer, AccessRows
<1>10. ASSUME UNCHANGED <<call, line>> PROVE OK
  BY <1>1, <1>2, <1>10 DEF AccessRows
<1> QED
  BY <1>5, <1>6, <1>7, <1>8, <1>9, <1>10
  DEF AccessNext, accessVars, PassMoment, CreateTenant, CreateUser, IssueKey, SeedDev,
      ChangeUser, CommandRevokes, Command

LEMMA AccessRowsStep ==
  ASSUME AccessInv, [AccessNext]_accessVars PROVE AccessRows'
<1>1. AccessRows /\ mode' = mode
  BY NextAccessForward DEF AccessInv, AccessForward
<1>2. key' \in [Keys -> CredentialType] /\ cookie' \in [Cookies -> CredentialType]
      /\ user' \in [Users -> UserType]
  BY RowsStep, UsersStep DEF RowsOK, UsersOK
<1>3. call' \in [Calls -> CallType] /\ line' \in [Calls -> AuditLineType]
  BY CallsStep
<1>4. tenant' \subseteq Tenants
  <2>1. \A u \in Users : u[1] \in Tenants
    BY DEF Users
  <2>2. tenant' = tenant \/ (\E t \in Tenants : tenant' = tenant \cup {t})
    BY <2>1
    DEF AccessNext, accessVars, Receive, Resolve, Identify, Read, MintKey, FindKey, RevokeKey,
        Post, LogIn, OpenSession, FindSession, LogOut, Audit, CrashServer, PassMoment,
        CreateTenant, CreateUser, IssueKey, SeedDev, ChangeUser, CommandRevokes
  <2> QED  BY <1>1, <2>2 DEF AccessRows
<1>5. loop' \in Calls \cup {NoOne}
  <2>1. loop' \in Calls \cup {NoOne, loop}
    BY DEF AccessNext, accessVars, Receive, Resolve, Identify, Read, MintKey, FindKey, RevokeKey,
           Post, LogIn, OpenSession, FindSession, LogOut, Audit, CrashServer, PassMoment,
           CreateTenant, CreateUser, IssueKey, SeedDev, ChangeUser, CommandRevokes, Command,
           HoldsLoop
  <2> QED  BY <1>1, <2>1 DEF AccessRows
<1>6. moment' \in 0..MaxMoment /\ outside' \in 0..MaxOutside
  <2>1. \/ moment' = moment
        \/ moment < MaxMoment /\ moment' = moment + 1
    BY DEF AccessNext, accessVars, Receive, Resolve, Identify, Read, MintKey, FindKey, RevokeKey,
           Post, LogIn, OpenSession, FindSession, LogOut, Audit, CrashServer, PassMoment,
           CreateTenant, CreateUser, IssueKey, SeedDev, ChangeUser, CommandRevokes, Command
  <2>2. \/ outside' = outside
        \/ outside < MaxOutside /\ outside' = outside + 1
    BY DEF AccessNext, accessVars, Receive, Resolve, Identify, Read, MintKey, FindKey, RevokeKey,
           Post, LogIn, OpenSession, FindSession, LogOut, Audit, CrashServer, PassMoment,
           CreateTenant, CreateUser, IssueKey, SeedDev, ChangeUser, CommandRevokes, Command
  <2> QED  BY <1>1, <2>1, <2>2, AccessAssumption DEF AccessRows
<1> QED  BY <1>1, <1>2, <1>3, <1>4, <1>5, <1>6 DEF AccessRows

LEMMA AccessInitInv == AccessInit => AccessInv
<1> SUFFICES ASSUME AccessInit PROVE AccessInv
  OBVIOUS
<1>1. AccessRows
  BY AccessAssumption, NoUserType, NoCredentialType, IdleType
  DEF AccessInit, AccessRows, AuditLineType, NoLine
<1>2. MintedInv
  BY DEF AccessInit, MintedInv, Row, NoCredential, Credentials
<1>3. ASSUME NEW c \in Calls PROVE CallInv(c)
  <2>1. call[c] = Idle /\ line[c] = NoLine
    BY DEF AccessInit
  <2>2. 0 # Conflict
    BY DEF Conflict
  <2>3. /\ call[c].stage = "idle" /\ call[c].op = "none" /\ call[c].cred = NoOne
        /\ call[c].who = NoOne /\ call[c].status = 0 /\ call[c].changed = FALSE
        /\ call[c].stale = FALSE
    BY <2>1 DEF Idle
  <2> QED
    BY <2>1, <2>2, <2>3, AccessAssumption DEF CallInv, StageInv, StaleInv, LineInv, LoginInv, Credentials
<1> QED  BY <1>1, <1>2, <1>3 DEF AccessInv, CallInv

\* The invariant: the rows, and what each request holds at each of its steps.
THEOREM AccessInvariant == AccessSpec => []AccessInv
<1>1. AccessInv /\ [AccessNext]_accessVars => AccessInv'
  BY AccessRowsStep, MintedStep, CallsStep DEF AccessInv, CallInv
<1> QED  BY AccessInitInv, <1>1, PTL DEF AccessSpec

\* Accounts, credentials and requests keep their types: AccessTypeOK, which the
\* composed run checks within ServerTypeOK.
THEOREM AccessTypes == AccessSpec => []AccessTypeOK
<1>1. AccessInv => AccessTypeOK
  <2> SUFFICES ASSUME AccessRows PROVE AccessTypeOK
    BY DEF AccessInv
  <2>1. \A c \in Calls : call[c] \in CallType /\ line[c] \in AuditLineType
    BY DEF AccessRows
  <2>2. \A c \in Calls :
          /\ call[c].stage \in Stages
          /\ call[c].op \in Ops /\ call[c].cred \in Credentials \cup {NoOne}
          /\ call[c].who \in Users \cup {NoOne, Insecure}
          /\ line[c].actor \in Users \cup {NoOne, Insecure}
    BY <2>1 DEF CallType, AuditLineType
  <2> QED  BY <2>2 DEF AccessRows, AccessTypeOK, UserType, CredentialType, Stages
<1> QED  BY AccessInvariant, <1>1, PTL

\* require_scope and get_identity: a credential that was revoked, expired or whose
\* user was disabled when the request arrived gives it no identity, whatever
\* happens between the reads of the row and of the user.
THEOREM StaleStaysOut == AccessSpec => []StaleOpensNothing
<1>1. AccessInv => StaleOpensNothing
  BY DEF AccessInv, StaleInv, StaleOpensNothing
<1> QED  BY AccessInvariant, <1>1, PTL

\* append_request_audit: what was changed and answered has a line that allows it
\* and names the owner of the credential, and a denial changed nothing.
THEOREM AuditIsTrue == AccessSpec => []AuditTellsTheTruth
<1>1. AccessInv => AuditTellsTheTruth
  <2> SUFFICES ASSUME AccessInv, NEW c \in Calls, call[c].op # "post"
               PROVE  /\ call[c].changed =>
                           line[c].decision = "allow" \/ call[c].stage \in {"answered", "lost"}
                      /\ line[c].decision = "deny" => ~call[c].changed
                      /\ /\ mode.auth /\ call[c].op \notin {"login", "logout"}
                         /\ line[c].decision = "allow"
                         => call[c].cred \in Credentials
                            /\ line[c].actor = Row(call[c].cred).owner
    BY DEF AuditTellsTheTruth
  <2>1. LineInv(c) /\ StageInv(c)
    BY DEF AccessInv
  <2>2. call[c].stage # "done" => line[c].decision = "none"
    BY <2>1 DEF LineInv, NoLine
  <2> QED  BY <2>1, <2>2 DEF LineInv, StageInv, Held
<1> QED  BY AccessInvariant, <1>1, PTL

\* sso_callback and saml_acs: the insert of a member meets only a user that a
\* command created meanwhile, never another login.
THEOREM LoginsKeepApart == AccessSpec => []LoginsNeverCollide
<1>1. AccessInv => LoginsNeverCollide
  BY DEF AccessInv, LoginInv, LoginsNeverCollide
<1> QED  BY AccessInvariant, <1>1, PTL

\* A key or session that is revoked or past its expiry never opens again, also
\* when a request commits the use of a key that was revoked after it was read.
THEOREM DeadStaysDead == AccessSpec => CredentialStaysDead
<1>1. AccessInv /\ [AccessNext]_accessVars =>
        [\A x \in Credentials : Dead(x) => Dead(x)']_accessVars
  <2> SUFFICES ASSUME AccessInv, [AccessNext]_accessVars, NEW x \in Credentials, Dead(x)
               PROVE  Dead(x)'
    OBVIOUS
  <2>1. AccessForward /\ AccessRows /\ AccessRows'
    BY NextAccessForward, AccessRowsStep DEF AccessInv
  <2>2. Row(x).status # "absent"
    BY DEF Dead
  <2>3. /\ Row(x).expires' = Row(x).expires /\ moment <= moment'
        /\ Row(x).status' \in {Row(x).status, "revoked"}
    BY <2>1, <2>2 DEF AccessForward
  <2>4. Row(x) \in CredentialType
    BY <2>1 DEF AccessRows, Row, Credentials
  <2>5. Row(x).expires \in Nat /\ moment \in Nat /\ moment' \in Nat
    BY <2>1, <2>4, AccessAssumption DEF AccessRows, CredentialType
  <2> QED  BY <2>3, <2>5 DEF Dead
<1> QED  BY AccessInvariant, <1>1, PTL DEF AccessSpec, CredentialStaysDead
=============================================================================
