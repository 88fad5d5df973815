--------------------------- MODULE LocalStateProofs ---------------------------
(***************************************************************************)
(* Theorems about what a host keeps besides the queue and the evidence:    *)
(* users and sessions (Access), a browser session (BrowserSession),        *)
(* stored objects (ObjectStore), the configuration of the desktop client   *)
(* (DesktopConfig) and release bundles (ReleaseBundle).                    *)
(***************************************************************************)
EXTENDS Access, BrowserSession, ObjectStore, DesktopConfig, ReleaseBundle, TLAPS,
        FiniteSetTheorems, SequenceTheorems

-----------------------------------------------------------------------------
(* Access: the inductive invariant.  A dead token has no session, or one   *)
(* that the clock has left behind, ...                                     *)
DeadSessions ==
    \A t \in dead : sessions[t] = Nobody \/ instant > sessions[t].expires

(* ... and a request is sound: presented late, it is stuck before the      *)
(* expiry check, which it cannot pass any more; its row is a user's, who   *)
(* is its principal; and its answer is within that user's tenant.          *)
FoundRow == [expires : Expiry, id : 1..MaxUsers]
Principal == {"resolved"} \cup Answers

Sound(x) ==
    /\ x.late => x.at = "found" /\ instant > x.row.expires
    /\ x.at # "idle" => x.row \in FoundRow /\ x.row.id \in DOMAIN users
    /\ x.at \in Principal => x.who = users[x.row.id]
    /\ x.at \in Answers /\ x.who.role = "user" =>
         \A r \in x.answer :
            \/ r.tenant = users[x.row.id].tenant
            \/ r.kind = "packet" /\ x.at = "exported"

AccessInv ==
    /\ AccessTypeOK /\ DeadSessions
    /\ \A c \in Clients : Sound(client[c])

LEMMA AccessInitial == AccessInit => AccessInv
<1> SUFFICES ASSUME AccessInit PROVE AccessInv
  OBVIOUS
<1> USE AccessAssumption DEF AccessInit
<1>1. NoRequest \in Request
  BY DEF NoRequest, Request, Answers
<1>2. Sound(NoRequest)
  BY DEF Sound, NoRequest, Principal, Answers
<1>3. users \in Seq(User) /\ Len(users) = 0
  BY EmptySeq
<1>4. AccessTypeOK
  BY <1>1, <1>3 DEF AccessTypeOK
<1>5. DeadSessions
  BY DEF DeadSessions
<1>6. \A c \in Clients : client[c] = NoRequest
  OBVIOUS
<1> QED
  BY <1>2, <1>4, <1>5, <1>6 DEF AccessInv

(* What is left to show of a step of one request is the request itself.    *)
LEMMA RequestStepKeeps ==
  ASSUME AccessInv, NEW c \in Clients, NEW x \in Request,
         client' = [client EXCEPT ![c] = x], Sound(x),
         UNCHANGED <<users, sessions, instant, dead>>, rows' \subseteq StoredRow
  PROVE  AccessInv'
<1>1. client \in [Clients -> Request]
  BY DEF AccessInv, AccessTypeOK
<1>2. AccessTypeOK'
  BY <1>1 DEF AccessInv, AccessTypeOK
<1>3. DeadSessions'
  BY DEF AccessInv, DeadSessions
<1>4. ASSUME NEW d \in Clients
      PROVE  Sound(client[d])'
  <2>1. client'[d] = IF d = c THEN x ELSE client[d]
    BY <1>1
  <2>2. Sound(client'[d])
    BY <2>1 DEF AccessInv
  <2> QED
    BY <2>2 DEF Sound
<1> QED
  BY <1>2, <1>3, <1>4 DEF AccessInv

(* A step of the tables or of the clock leaves every request sound if no   *)
(* user is lost and time does not run backwards.                           *)
LEMMA TableStepKeeps ==
  ASSUME AccessInv, client' = client, AccessTypeOK', DeadSessions', instant' >= instant,
         \A i \in DOMAIN users : i \in DOMAIN users' /\ users'[i] = users[i]
  PROVE  AccessInv'
<1>1. ASSUME NEW c \in Clients
      PROVE  Sound(client[c])'
  <2> DEFINE x == client[c]
  <2>1. Sound(x) /\ client'[c] = x
    BY DEF AccessInv
  <2>2. x \in Request /\ instant \in Nat /\ instant' \in Nat
    BY AccessAssumption DEF AccessInv, AccessTypeOK
  <2>3. x.late => x.at = "found" /\ instant' > x.row.expires
    <3> SUFFICES ASSUME x.late PROVE x.at = "found" /\ instant' > x.row.expires
      OBVIOUS
    <3>1. x.at = "found" /\ instant > x.row.expires
      BY <2>1 DEF Sound
    <3>2. x.row.expires \in Nat
      BY <2>1, <3>1, AccessAssumption DEF Sound, FoundRow, Expiry
    <3> QED
      BY <2>2, <3>1, <3>2
  <2>4. x.at # "idle" => x.row \in FoundRow /\ x.row.id \in DOMAIN users
                         /\ x.row.id \in DOMAIN users' /\ users'[x.row.id] = users[x.row.id]
    BY <2>1 DEF Sound
  <2>5. x.at \in Principal => x.at # "idle"
    BY DEF Principal, Answers
  <2> HIDE DEF x
  <2>6. x.at \in Principal => x.who = users'[x.row.id]
    BY <2>1, <2>4, <2>5 DEF Sound
  <2>7. x.at \in Answers /\ x.who.role = "user" =>
         \A r \in x.answer :
            \/ r.tenant = users'[x.row.id].tenant
            \/ r.kind = "packet" /\ x.at = "exported"
    BY <2>1, <2>4, <2>5 DEF Sound, Principal
  <2> QED
    BY <2>1, <2>3, <2>4, <2>6, <2>7 DEF Sound
<1> QED
  BY <1>1 DEF AccessInv

LEMMA CreateUserKeeps ==
  ASSUME AccessInv, NEW name \in UserNames, NEW role \in ROLES, NEW tenant \in Tenants,
         CreateUser(name, role, tenant)
  PROVE  AccessInv'
<1> DEFINE u == [name |-> name, role |-> role, tenant |-> tenant]
<1>1. /\ users' = Append(users, u) /\ Len(users) < MaxUsers
      /\ UNCHANGED <<sessions, rows, instant, client, dead>>
  BY DEF CreateUser
<1>2. u \in User /\ users \in Seq(User)
  BY DEF User, AccessInv, AccessTypeOK
<1>3. /\ users' \in Seq(User) /\ Len(users') = Len(users) + 1 /\ Len(users) \in Nat
      /\ \A i \in 1..Len(users) : users'[i] = users[i]
      /\ DOMAIN users = 1..Len(users) /\ DOMAIN users' = 1..Len(users')
  BY <1>1, <1>2, AppendProperties, LenProperties
<1>4. AccessTypeOK'
  BY <1>1, <1>3, AccessAssumption DEF AccessInv, AccessTypeOK
<1>5. DeadSessions' /\ instant' >= instant
  BY <1>1, AccessAssumption DEF AccessInv, AccessTypeOK, DeadSessions
<1>6. \A i \in DOMAIN users : i \in DOMAIN users' /\ users'[i] = users[i]
  BY <1>3
<1> QED
  BY <1>1, <1>4, <1>5, <1>6, TableStepKeeps

LEMMA SameUsers ==
  ASSUME users' = users
  PROVE  \A i \in DOMAIN users : i \in DOMAIN users' /\ users'[i] = users[i]
OBVIOUS

LEMMA IssueTokenKeeps ==
  ASSUME AccessInv, NEW t \in Tokens, NEW user \in 1..MaxUsers, IssueToken(t, user)
  PROVE  AccessInv'
<1> USE AccessAssumption
<1> DEFINE s == [user |-> user, expires |-> instant + Ttl]
<1>1. /\ sessions' = [sessions EXCEPT ![t] = s] /\ t \notin dead
      /\ UNCHANGED <<users, rows, instant, client, dead>>
  BY DEF IssueToken
<1>2. /\ sessions \in [Tokens -> {Nobody} \cup Session] /\ users \in Seq(User)
      /\ Len(users) <= MaxUsers /\ instant \in 0..LastInstant /\ dead \subseteq Tokens
  BY DEF AccessInv, AccessTypeOK
<1>4. s \in Session
  BY <1>2 DEF Session, Expiry
<1> HIDE DEF s
<1>5. AccessTypeOK'
  BY <1>1, <1>2, <1>4 DEF AccessInv, AccessTypeOK
<1>6. DeadSessions'
  <2>1. \A q \in dead : sessions'[q] = sessions[q]
    BY <1>1, <1>2
  <2> QED
    BY <1>1, <2>1 DEF AccessInv, DeadSessions
<1>7. instant' >= instant
  BY <1>1, <1>2
<1> QED
  BY <1>1, <1>5, <1>6, <1>7, TableStepKeeps, SameUsers

LEMMA RevokeTokenKeeps ==
  ASSUME AccessInv, NEW t \in Tokens, RevokeToken(t)
  PROVE  AccessInv'
<1> USE AccessAssumption
<1>1. /\ sessions' = [sessions EXCEPT ![t] = Nobody] /\ dead' = dead \cup {t}
      /\ UNCHANGED <<users, rows, instant, client>>
  BY DEF RevokeToken
<1>2. /\ sessions \in [Tokens -> {Nobody} \cup Session]
      /\ instant \in 0..LastInstant /\ dead \subseteq Tokens
  BY DEF AccessInv, AccessTypeOK
<1>3. AccessTypeOK'
  BY <1>1, <1>2 DEF AccessInv, AccessTypeOK
<1>4. DeadSessions'
  BY <1>1, <1>2 DEF AccessInv, DeadSessions
<1>5. instant' >= instant
  BY <1>1, <1>2
<1> QED
  BY <1>1, <1>3, <1>4, <1>5, TableStepKeeps, SameUsers

LEMMA AddRowKeeps ==
  ASSUME AccessInv, NEW kind \in {"packet", "job"}, NEW tenant \in Tenants, AddRow(kind, tenant)
  PROVE  AccessInv'
<1> USE AccessAssumption
<1>1. /\ rows' = rows \cup {[kind |-> kind, tenant |-> tenant]}
      /\ UNCHANGED <<users, sessions, instant, client, dead>>
  BY DEF AddRow
<1>2. AccessTypeOK'
  BY <1>1 DEF AccessInv, AccessTypeOK, StoredRow
<1>3. DeadSessions' /\ instant' >= instant
  BY <1>1 DEF AccessInv, AccessTypeOK, DeadSessions
<1> QED
  BY <1>1, <1>2, <1>3, TableStepKeeps, SameUsers

LEMMA AccessTickKeeps ==
  ASSUME AccessInv, AccessTick
  PROVE  AccessInv'
<1> USE AccessAssumption
<1>1. /\ instant < LastInstant /\ instant' = instant + 1
      /\ dead' = dead \cup {t \in Tokens : sessions[t] # Nobody /\ instant' > sessions[t].expires}
      /\ UNCHANGED <<users, sessions, rows, client>>
  BY DEF AccessTick
<1>2. /\ sessions \in [Tokens -> {Nobody} \cup Session]
      /\ instant \in 0..LastInstant /\ dead \subseteq Tokens
  BY DEF AccessInv, AccessTypeOK
<1>3. AccessTypeOK'
  BY <1>1, <1>2 DEF AccessInv, AccessTypeOK
<1>4. DeadSessions'
  <2> SUFFICES ASSUME NEW t \in dead', sessions[t] # Nobody
               PROVE  instant' > sessions[t].expires
    BY <1>1 DEF DeadSessions
  <2>1. CASE t \in dead
    <3>1. sessions[t] \in Session /\ instant > sessions[t].expires
      BY <1>2, <2>1 DEF AccessInv, DeadSessions
    <3>2. sessions[t].expires \in Nat
      BY <3>1 DEF Session, Expiry
    <3> QED
      BY <1>1, <1>2, <3>1, <3>2
  <2>2. CASE t \notin dead
    BY <1>1, <2>2
  <2> QED
    BY <2>1, <2>2
<1>5. instant' >= instant
  BY <1>1, <1>2
<1> QED
  BY <1>1, <1>3, <1>4, <1>5, TableStepKeeps, SameUsers

LEMMA IdleIsSound == NoRequest \in Request /\ Sound(NoRequest)
BY DEF NoRequest, Request, Sound, Principal, Answers

LEMMA PresentKeeps ==
  ASSUME AccessInv, NEW c \in Clients, NEW t \in Tokens, Present(c, t)
  PROVE  AccessInv'
<1> USE AccessAssumption
<1> DEFINE s == sessions[t]
           none == [at |-> "idle", token |-> t, row |-> Nobody, who |-> Nobody,
                    answer |-> {}, late |-> FALSE]
           found == [at |-> "found", token |-> t, row |-> [expires |-> s.expires, id |-> s.user],
                     who |-> Nobody, answer |-> {}, late |-> t \in dead]
<1>1. /\ client' = [client EXCEPT ![c] =
                      IF s = Nobody \/ s.user \notin DOMAIN users THEN none ELSE found]
      /\ UNCHANGED <<users, sessions, rows, instant, dead>>
  BY DEF Present
<1>2. sessions \in [Tokens -> {Nobody} \cup Session] /\ rows \subseteq StoredRow
  BY DEF AccessInv, AccessTypeOK
<1>3. CASE s = Nobody \/ s.user \notin DOMAIN users
  <2>1. none \in Request
    BY DEF Request
  <2>2. Sound(none)
    BY DEF Sound, Principal, Answers
  <2>3. client' = [client EXCEPT ![c] = none]
    BY <1>1, <1>3
  <2> HIDE DEF none
  <2> QED
    BY <1>1, <1>2, <2>1, <2>2, <2>3, RequestStepKeeps
<1>4. CASE ~ (s = Nobody \/ s.user \notin DOMAIN users)
  <2> DEFINE row == [expires |-> s.expires, id |-> s.user]  late == t \in dead
  <2>1. s \in Session
    BY <1>2, <1>4
  <2>2. row \in FoundRow /\ row.id \in DOMAIN users /\ row.expires = s.expires
    BY <1>4, <2>1 DEF Session, FoundRow
  <2>3. late => instant > row.expires
    BY <1>4 DEF AccessInv, DeadSessions
  <2>4. late \in BOOLEAN
    OBVIOUS
  <2>5. found = [at |-> "found", token |-> t, row |-> row, who |-> Nobody,
                 answer |-> {}, late |-> late]
    OBVIOUS
  <2> HIDE DEF row, late, s, found
  <2>6. found \in Request
    BY <2>2, <2>4, <2>5 DEF Request, FoundRow
  <2>7. found.late = late /\ found.at = "found" /\ found.row = row
    BY <2>5
  <2>8. Sound(found)
    BY <2>2, <2>3, <2>7 DEF Sound, Principal, Answers
  <2>9. client' = [client EXCEPT ![c] = found]
    BY <1>1, <1>4
  <2> QED
    BY <1>1, <1>2, <2>6, <2>8, <2>9, RequestStepKeeps
<1> QED
  BY <1>3, <1>4

LEMMA ResolveKeeps ==
  ASSUME AccessInv, NEW c \in Clients, Resolve(c)
  PROVE  AccessInv'
<1> USE AccessAssumption
<1> DEFINE r == client[c]
<1>1. /\ r.at = "found" /\ UNCHANGED <<users, sessions, rows, instant, dead>>
      /\ client' = IF instant > r.row.expires THEN [client EXCEPT ![c] = NoRequest]
                   ELSE [client EXCEPT ![c].at = "resolved", ![c].who = users[r.row.id]]
  BY DEF Resolve
<1>2. /\ client \in [Clients -> Request] /\ rows \subseteq StoredRow /\ users \in Seq(User)
      /\ r \in Request
  BY DEF AccessInv, AccessTypeOK
<1>3. Sound(r)
  BY DEF AccessInv
<1>4. CASE instant > r.row.expires
  BY <1>1, <1>2, <1>4, IdleIsSound, RequestStepKeeps
<1>5. CASE ~ (instant > r.row.expires)
  <2> DEFINE x == client'[c]
  <2>1. users[r.row.id] \in User /\ r.row.id \in DOMAIN users /\ r.row \in FoundRow
    <3>1. r.row.id \in DOMAIN users /\ r.row \in FoundRow
      BY <1>1, <1>3 DEF Sound
    <3> QED
      BY <1>2, <3>1, LenProperties, ElementOfSeq
  <2>2. ~ r.late
    BY <1>3, <1>5 DEF Sound
  <2>3. client' = [client EXCEPT ![c].at = "resolved", ![c].who = users[r.row.id]]
    BY <1>1, <1>5
  <2>4. /\ x.at = "resolved" /\ x.who = users[r.row.id] /\ x.row = r.row /\ x.late = r.late
        /\ x \in Request /\ client' = [client EXCEPT ![c] = x]
    BY <1>2, <2>1, <2>3 DEF Request
  <2> HIDE DEF x
  <2>5. Sound(x)
    BY <2>1, <2>2, <2>4 DEF Sound, Answers
  <2> QED
    BY <1>1, <1>2, <2>4, <2>5, RequestStepKeeps
<1> QED
  BY <1>4, <1>5

(* An answer to an authorised request.                                     *)
LEMMA ReplyKeeps ==
  ASSUME AccessInv, NEW c \in Clients, NEW action, Authorised(c, action),
         NEW to \in Answers, NEW result \in SUBSET StoredRow, Reply(c, to, result),
         UNCHANGED <<users, sessions, instant, dead>>, rows' \subseteq StoredRow,
         client[c].who.role = "user" =>
           \A r \in result : \/ r.tenant = client[c].who.tenant
                             \/ r.kind = "packet" /\ to = "exported"
  PROVE  AccessInv'
<1> DEFINE r == client[c]  x == client'[c]
<1>1. client \in [Clients -> Request] /\ r \in Request
  BY DEF AccessInv, AccessTypeOK
<1>2. r.at = "resolved" /\ client' = [client EXCEPT ![c].at = to, ![c].answer = result]
  BY DEF Authorised, Reply
<1>3. /\ x.at = to /\ x.answer = result /\ x.row = r.row /\ x.who = r.who /\ x.late = r.late
      /\ x \in Request /\ client' = [client EXCEPT ![c] = x]
  BY <1>1, <1>2 DEF Request
<1>4. Sound(r)
  BY DEF AccessInv
<1>5. ~ r.late /\ r.row \in FoundRow /\ r.row.id \in DOMAIN users /\ r.who = users[r.row.id]
  BY <1>2, <1>4 DEF Sound, Principal
<1> HIDE DEF x
<1>6. Sound(x)
  BY <1>3, <1>5 DEF Sound
<1> QED
  BY <1>3, <1>6, RequestStepKeeps

LEMMA QueryKeeps ==
  ASSUME AccessInv, NEW c \in Clients, Query(c)
  PROVE  AccessInv'
<1> DEFINE who == client[c].who
           result == {r \in rows : r.kind = "packet"
                                   /\ InScope(r, ScopeQuery(who.role, who.tenant))}
<1>1. /\ Authorised(c, "read") /\ Reply(c, "read", result)
      /\ UNCHANGED <<users, sessions, rows, instant, dead>>
  BY DEF Query
<1>2. rows \subseteq StoredRow /\ client[c].at = "resolved" /\ users \in Seq(User)
  BY <1>1 DEF AccessInv, AccessTypeOK, Authorised
<1>3. who \in User
  <2>1. client[c].row.id \in DOMAIN users /\ who = users[client[c].row.id]
    BY <1>2 DEF AccessInv, Sound, Principal
  <2> QED
    BY <1>2, <2>1, LenProperties, ElementOfSeq
<1>4. who.role = "user" => \A r \in result : r.tenant = who.tenant
  <2>1. who.tenant # Nobody
    BY <1>3, AccessAssumption DEF User
  <2> QED
    BY <2>1 DEF InScope, ScopeQuery
<1>5. result \in SUBSET StoredRow /\ "read" \in Answers
  BY <1>2 DEF Answers
<1> HIDE DEF result
<1> QED
  BY <1>1, <1>2, <1>4, <1>5, ReplyKeeps

LEMMA DeleteTenantJobsKeeps ==
  ASSUME AccessInv, NEW c \in Clients, DeleteTenantJobs(c)
  PROVE  AccessInv'
<1>1. /\ Authorised(c, "delete") /\ Reply(c, "deleted", {})
      /\ UNCHANGED <<users, sessions, instant, dead>>
      /\ rows' = {r \in rows : r.kind = "job" => r.tenant # client[c].who.tenant}
  BY DEF DeleteTenantJobs
<1>2. rows' \subseteq StoredRow /\ "deleted" \in Answers
  BY <1>1 DEF AccessInv, AccessTypeOK, Answers
<1> QED
  BY <1>1, <1>2, ReplyKeeps

LEMMA ExportTenantKeeps ==
  ASSUME AccessInv, NEW c \in Clients, ExportTenant(c)
  PROVE  AccessInv'
<1> DEFINE result == Exported(client[c].who.tenant)
<1>1. /\ Authorised(c, "export") /\ Reply(c, "exported", result)
      /\ UNCHANGED <<users, sessions, rows, instant, dead>>
  BY DEF ExportTenant
<1>2. rows \subseteq StoredRow /\ "exported" \in Answers
  BY DEF AccessInv, AccessTypeOK, Answers
<1>3. result \in SUBSET StoredRow
  BY <1>2 DEF Exported
<1>4. \A r \in result : r.tenant = client[c].who.tenant \/ r.kind = "packet"
  BY <1>2 DEF Exported, StoredRow
<1> HIDE DEF result
<1> QED
  BY <1>1, <1>2, <1>3, <1>4, ReplyKeeps

(* The invariant holds in every reachable state, for every set of tokens,  *)
(* names and tenants and every lifetime.                                   *)
THEOREM AccessInvariant == AccessSpec => []AccessInv
<1>1. ASSUME AccessInv, [AccessNext]_accessVars
      PROVE  AccessInv'
  <2>1. ASSUME NEW name \in UserNames, NEW role \in ROLES, NEW tenant \in Tenants,
               CreateUser(name, role, tenant)
        PROVE  AccessInv'
    BY <1>1, <2>1, CreateUserKeeps
  <2>2. ASSUME NEW t \in Tokens, RevokeToken(t)
        PROVE  AccessInv'
    BY <1>1, <2>2, RevokeTokenKeeps
  <2>3. ASSUME NEW t \in Tokens, NEW user \in 1..MaxUsers, IssueToken(t, user)
        PROVE  AccessInv'
    BY <1>1, <2>3, IssueTokenKeeps
  <2>4. ASSUME NEW c \in Clients, NEW t \in Tokens, Present(c, t)
        PROVE  AccessInv'
    BY <1>1, <2>4, PresentKeeps
  <2>5. ASSUME NEW c \in Clients, Resolve(c)
        PROVE  AccessInv'
    BY <1>1, <2>5, ResolveKeeps
  <2>6. ASSUME NEW c \in Clients, Refuse(c) \/ Done(c)
        PROVE  AccessInv'
    <3>1. /\ client' = [client EXCEPT ![c] = NoRequest]
          /\ UNCHANGED <<users, sessions, rows, instant, dead>>
      BY <2>6 DEF Refuse, Done
    <3>2. rows' \subseteq StoredRow
      BY <1>1, <3>1 DEF AccessInv, AccessTypeOK
    <3> QED
      BY <1>1, <3>1, <3>2, IdleIsSound, RequestStepKeeps
  <2>7. ASSUME NEW c \in Clients, Query(c)
        PROVE  AccessInv'
    BY <1>1, <2>7, QueryKeeps
  <2>8. ASSUME NEW c \in Clients, DeleteTenantJobs(c)
        PROVE  AccessInv'
    BY <1>1, <2>8, DeleteTenantJobsKeeps
  <2>9. ASSUME NEW c \in Clients, ExportTenant(c)
        PROVE  AccessInv'
    BY <1>1, <2>9, ExportTenantKeeps
  <2>10. ASSUME NEW kind \in {"packet", "job"}, NEW tenant \in Tenants, AddRow(kind, tenant)
         PROVE  AccessInv'
    BY <1>1, <2>10, AddRowKeeps
  <2>11. CASE AccessTick
    BY <1>1, <2>11, AccessTickKeeps
  <2>12. CASE UNCHANGED accessVars
    <3>1. UNCHANGED <<users, sessions, rows, instant, client, dead>>
      BY <2>12 DEF accessVars
    <3>2. AccessTypeOK' /\ DeadSessions' /\ instant' >= instant
      BY <1>1, <3>1, AccessAssumption DEF AccessInv, AccessTypeOK, DeadSessions
    <3> QED
      BY <1>1, <3>1, <3>2, TableStepKeeps, SameUsers
  <2> QED
    BY <1>1, <2>1, <2>2, <2>3, <2>4, <2>5, <2>6, <2>7, <2>8, <2>9, <2>10, <2>11, <2>12
       DEF AccessNext
<1> QED
  BY <1>1, AccessInitial, PTL DEF AccessSpec

(* A revoked or expired token yields no principal, ever again, although    *)
(* the expiry is checked in a later step than the row is read.             *)
THEOREM DeadTokensNeverResolve == AccessSpec => []DeadTokensStayDead
<1>1. AccessInv => DeadTokensStayDead
  BY DEF AccessInv, DeadTokensStayDead, Sound, Answers
<1> QED
  BY <1>1, AccessInvariant, PTL

(* What a `user` is answered is of the tenant of the user whose id the     *)
(* token carries (scope_query, export_tenant), but for the evidence part   *)
(* of an export: also for a token that was issued before that user was     *)
(* created, and whatever changes between the request's steps.              *)
THEOREM AnswersStayInScope == AccessSpec => []AnswersScoped
<1>1. AccessInv => AnswersScoped
  BY DEF AccessInv, AnswersScoped, Sound
<1> QED
  BY <1>1, AccessInvariant, PTL

-----------------------------------------------------------------------------
(* The browser session: close() has dealt with the objects it has passed,  *)
(* and a page that is open is in a method's hands or could not be closed.  *)
PassedAreClosed ==
    In("close") =>
      \A k \in 1..3 : k > session.next /\ Acquired[k] \in open => Acquired[k] \in stuck

PageIsInHand ==
    "page" \in open => "page" \in stuck \/ session.at \in PageStages

AcquiringOne == In("enter") => session.next > 0

BrowserInv ==
    BrowserTypeOK /\ HandlesReleased /\ PassedAreClosed /\ PageIsInHand /\ AcquiringOne

LEMMA AcquiredInOrder ==
  /\ Len(Acquired) = 3
  /\ Acquired[1] = "_pw" /\ Acquired[2] = "_browser" /\ Acquired[3] = "_context"
  /\ \A k \in 1..3 : Acquired[k] \in {"_pw", "_browser", "_context"}
<1>1. /\ Len(Acquired) = 3
      /\ Acquired[1] = "_pw" /\ Acquired[2] = "_browser" /\ Acquired[3] = "_context"
  BY DEF Acquired
<1>2. ASSUME NEW k \in 1..3
      PROVE  Acquired[k] \in {"_pw", "_browser", "_context"}
  <2>1. k = 1 \/ k = 2 \/ k = 3
    OBVIOUS
  <2> QED
    BY <1>1, <2>1
<1> QED
  BY <1>1, <1>2

LEMMA BrowserInitial == BrowserInit => BrowserInv
BY AcquiredInOrder, BrowserAssumption
   DEF BrowserInit, BrowserInv, BrowserTypeOK, HandlesReleased, PassedAreClosed, PageIsInHand,
       AcquiringOne, In, PageStages, Writes

(* A step that opens and closes nothing, other than into "over".           *)
LEMMA SessionMoves ==
  ASSUME BrowserInv, UNCHANGED <<available, grants, open, held, stuck>>,
         session' \in [at : {"ready", "close"} \cup PageStages,
                       next : 0..3, calls : 0..MaxMethodCalls, entered : BOOLEAN],
         session'.at = "close" => session'.next = 3,
         session.at \in PageStages => session'.at \in PageStages
  PROVE  BrowserInv'
<1>1. BrowserTypeOK'
  BY AcquiredInOrder DEF BrowserInv, BrowserTypeOK
<1>2. HandlesReleased'
  BY DEF BrowserInv, HandlesReleased, In, PageStages
<1>3. PassedAreClosed'
  BY DEF PassedAreClosed, In
<1>4. PageIsInHand'
  BY DEF BrowserInv, PageIsInHand
<1>5. AcquiringOne'
  BY DEF AcquiringOne, In, PageStages
<1> QED
  BY <1>1, <1>2, <1>3, <1>4, <1>5 DEF BrowserInv

(* __exit__, or close() after a failed __enter__, starts with the last.    *)
LEMMA ClosingStarts ==
  ASSUME session \in [at : {"enter", "ready", "close", "over"} \cup PageStages,
                      next : 0..3, calls : 0..MaxMethodCalls, entered : BOOLEAN],
         NEW calls \in 0..MaxMethodCalls,
         session' = [session EXCEPT !.at = "close", !.next = 3, !.calls = calls]
  PROVE  /\ session'.at = "close" /\ session'.next = 3
         /\ session' \in [at : {"ready", "close"} \cup PageStages,
                          next : 0..3, calls : 0..MaxMethodCalls, entered : BOOLEAN]
<1> DEFINE ats == {"ready", "close"} \cup PageStages  nexts == 0..3
<1>1. "close" \in ats /\ 3 \in nexts
  OBVIOUS
<1>2. session' = [at |-> "close", next |-> 3, calls |-> calls, entered |-> session.entered]
  OBVIOUS
<1>3. session.entered \in BOOLEAN
  OBVIOUS
<1> HIDE DEF ats, nexts
<1>4. session' \in [at : ats, next : nexts, calls : 0..MaxMethodCalls, entered : BOOLEAN]
  BY <1>1, <1>2, <1>3
<1> QED
  BY <1>2, <1>4 DEF ats, nexts

LEMMA AcquireKeeps ==
  ASSUME BrowserInv, Acquire
  PROVE  BrowserInv'
<1> USE AcquiredInOrder
<1> DEFINE n == session.next  h == Acquired[n]
<1>1. /\ session.at = "enter" /\ open' = open \cup {h} /\ held' = held \cup {h}
      /\ UNCHANGED <<available, grants, stuck>>
      /\ session' = IF n < 3 THEN [session EXCEPT !.next = @ + 1]
                    ELSE [session EXCEPT !.at = "ready", !.entered = TRUE]
  BY DEF Acquire, In
<1>2. /\ session \in [at : {"enter", "ready", "close", "over"} \cup PageStages,
                      next : 0..3, calls : 0..MaxMethodCalls, entered : BOOLEAN]
      /\ open \cup stuck \subseteq {"_pw", "_browser", "_context", "page"}
      /\ held \subseteq {"_pw", "_browser", "_context"}
      /\ available \in BOOLEAN /\ grants \subseteq Writes
  BY DEF BrowserInv, BrowserTypeOK
<1>3. n \in 1..3
  BY <1>1, <1>2 DEF BrowserInv, AcquiringOne, In
<1>4. h \in {"_pw", "_browser", "_context"}
  BY <1>3
<1> HIDE DEF h
<1>5. /\ session'.at \in {"enter", "ready"} /\ (session'.at = "enter" => session'.next > 0)
      /\ session' \in [at : {"enter", "ready", "close", "over"} \cup PageStages,
                       next : 0..3, calls : 0..MaxMethodCalls, entered : BOOLEAN]
  <2>1. CASE n < 3
    BY <1>1, <1>2, <1>3, <2>1
  <2>2. CASE ~ (n < 3)
    BY <1>1, <1>2, <1>3, <2>2
  <2> QED
    BY <2>1, <2>2
<1>6. BrowserTypeOK'
  BY <1>1, <1>2, <1>4, <1>5 DEF BrowserTypeOK
<1>7. HandlesReleased' /\ PassedAreClosed' /\ PageIsInHand' /\ AcquiringOne'
  BY <1>1, <1>4, <1>5
     DEF BrowserInv, HandlesReleased, PassedAreClosed, PageIsInHand, AcquiringOne, In, PageStages
<1> QED
  BY <1>6, <1>7 DEF BrowserInv

LEMMA CloseNextKeeps ==
  ASSUME BrowserInv, CloseNext
  PROVE  BrowserInv'
<1> USE AcquiredInOrder
<1> DEFINE n == session.next  h == Acquired[n]
<1>1. /\ session.at = "close" /\ n > 0 /\ UNCHANGED <<available, grants, held>>
      /\ session' = [session EXCEPT !.next = @ - 1]
      /\ \/ h \in held /\ open' = open \ {h} /\ UNCHANGED stuck
         \/ h \in held /\ stuck' = stuck \cup {h} /\ UNCHANGED open
         \/ h \notin held /\ UNCHANGED <<open, stuck>>
  BY DEF CloseNext, In
<1>2. /\ session \in [at : {"enter", "ready", "close", "over"} \cup PageStages,
                      next : 0..3, calls : 0..MaxMethodCalls, entered : BOOLEAN]
      /\ open \cup stuck \subseteq {"_pw", "_browser", "_context", "page"}
      /\ held \subseteq {"_pw", "_browser", "_context"}
      /\ available \in BOOLEAN /\ grants \subseteq Writes
  BY DEF BrowserInv, BrowserTypeOK
<1>3. n \in 1..3 /\ h \in {"_pw", "_browser", "_context"}
  BY <1>1, <1>2
<1>4. /\ session'.at = "close" /\ session'.next = n - 1
      /\ session' \in [at : {"enter", "ready", "close", "over"} \cup PageStages,
                       next : 0..3, calls : 0..MaxMethodCalls, entered : BOOLEAN]
  BY <1>1, <1>2, <1>3
<1>5. BrowserTypeOK'
  BY <1>1, <1>2, <1>3, <1>4 DEF BrowserTypeOK
<1>6. open \ ({"page"} \cup stuck) \subseteq held
  BY DEF BrowserInv, HandlesReleased
<1>7. h \in open' => h \in stuck'
  BY <1>1, <1>3, <1>6
<1>8. open' \subseteq open /\ stuck \subseteq stuck' /\ h # "page"
  BY <1>1, <1>3
<1>9. HandlesReleased'
  BY <1>1, <1>4, <1>6, <1>8 DEF HandlesReleased, In
<1>10. PassedAreClosed'
  <2> SUFFICES ASSUME NEW k \in 1..3, k > n - 1, Acquired[k] \in open'
               PROVE  Acquired[k] \in stuck'
    BY <1>4 DEF PassedAreClosed
  <2>1. k = n \/ k > n
    BY <1>3
  <2>2. CASE k > n
    BY <1>1, <1>8, <2>2 DEF BrowserInv, PassedAreClosed, In
  <2> QED
    BY <1>7, <2>1, <2>2
<1>11. PageIsInHand' /\ AcquiringOne'
  BY <1>1, <1>4, <1>8 DEF BrowserInv, PageIsInHand, AcquiringOne, In
<1> QED
  BY <1>5, <1>9, <1>10, <1>11 DEF BrowserInv

LEMMA ClosedKeeps ==
  ASSUME BrowserInv, Closed
  PROVE  BrowserInv'
<1> USE AcquiredInOrder
<1>1. /\ session.at = "close" /\ session.next = 0 /\ held' = {}
      /\ session' = [session EXCEPT !.at = IF session.entered THEN "over" ELSE "ready",
                                    !.entered = TRUE]
      /\ UNCHANGED <<available, grants, open, stuck>>
  BY DEF Closed, In
<1>2. /\ session \in [at : {"enter", "ready", "close", "over"} \cup PageStages,
                      next : 0..3, calls : 0..MaxMethodCalls, entered : BOOLEAN]
      /\ open \subseteq {"_pw", "_browser", "_context", "page"}
  BY DEF BrowserInv, BrowserTypeOK
<1>3. /\ session'.at \in {"over", "ready"}
      /\ session' \in [at : {"enter", "ready", "close", "over"} \cup PageStages,
                       next : 0..3, calls : 0..MaxMethodCalls, entered : BOOLEAN]
  <2>1. CASE session.entered
    BY <1>1, <1>2, <2>1
  <2>2. CASE ~ session.entered
    BY <1>1, <1>2, <2>2
  <2> QED
    BY <2>1, <2>2
<1>4. open \subseteq stuck
  <2>1. "page" \in open => "page" \in stuck
    BY <1>1 DEF BrowserInv, PageIsInHand, PageStages
  <2>2. \A k \in 1..3 : Acquired[k] \in open => Acquired[k] \in stuck
    BY <1>1 DEF BrowserInv, PassedAreClosed, In
  <2>3. /\ "_pw" \in open => "_pw" \in stuck
        /\ "_browser" \in open => "_browser" \in stuck
        /\ "_context" \in open => "_context" \in stuck
    BY <2>2
  <2> QED
    BY <1>2, <2>1, <2>3
<1>5. BrowserTypeOK'
  BY <1>1, <1>3 DEF BrowserInv, BrowserTypeOK
<1>6. HandlesReleased' /\ PassedAreClosed' /\ PageIsInHand' /\ AcquiringOne'
  BY <1>1, <1>3, <1>4 DEF HandlesReleased, PassedAreClosed, PageIsInHand, AcquiringOne, In
<1> QED
  BY <1>5, <1>6 DEF BrowserInv

LEMMA MethodKeeps ==
  ASSUME BrowserInv, NEW m \in Methods, Method(m)
  PROVE  BrowserInv'
<1> USE AcquiredInOrder, BrowserAssumption
<1> DEFINE opens == ~ (m \in Writes /\ m \notin grants) /\ available /\ "_context" \in held
<1>1. /\ session.at = "ready" /\ session.calls < MaxMethodCalls
      /\ open' = IF opens THEN open \cup {"page"} ELSE open
      /\ session' = [session EXCEPT !.calls = @ + 1, !.at = IF opens THEN "goto" ELSE "ready"]
      /\ UNCHANGED <<available, grants, held, stuck>>
  BY DEF Method, In
<1>2. /\ session \in [at : {"enter", "ready", "close", "over"} \cup PageStages,
                      next : 0..3, calls : 0..MaxMethodCalls, entered : BOOLEAN]
      /\ open \subseteq {"_pw", "_browser", "_context", "page"}
  BY DEF BrowserInv, BrowserTypeOK
<1> HIDE DEF opens
<1>3. session.calls + 1 \in 0..MaxMethodCalls
  <2>1. session.calls \in 0..MaxMethodCalls
    BY <1>2
  <2> QED
    BY <1>1, <2>1
<1>4. CASE opens
  <2>1. /\ open' = open \cup {"page"} /\ session'.at = "goto"
        /\ session' \in [at : {"enter", "ready", "close", "over"} \cup PageStages,
                         next : 0..3, calls : 0..MaxMethodCalls, entered : BOOLEAN]
    <3>1. session' = [session EXCEPT !.calls = @ + 1, !.at = "goto"] /\ open' = open \cup {"page"}
      BY <1>1, <1>4
    <3> QED
      BY <1>2, <1>3, <3>1 DEF PageStages
  <2>2. BrowserTypeOK'
    BY <1>1, <1>2, <2>1 DEF BrowserInv, BrowserTypeOK
  <2>3. HandlesReleased' /\ PassedAreClosed' /\ PageIsInHand' /\ AcquiringOne'
    BY <1>1, <2>1
       DEF BrowserInv, HandlesReleased, PassedAreClosed, PageIsInHand, AcquiringOne, In, PageStages
  <2> QED
    BY <2>2, <2>3 DEF BrowserInv
<1>5. CASE ~ opens
  <2>1. /\ open' = open /\ session'.at = "ready"
        /\ session' \in [at : {"ready", "close"} \cup PageStages,
                         next : 0..3, calls : 0..MaxMethodCalls, entered : BOOLEAN]
    <3>1. session' = [session EXCEPT !.calls = @ + 1, !.at = "ready"] /\ open' = open
      BY <1>1, <1>5
    <3> QED
      BY <1>2, <1>3, <3>1 DEF PageStages
  <2> QED
    BY <1>1, <2>1, SessionMoves DEF PageStages
<1> QED
  BY <1>4, <1>5

LEMMA PageClosedKeeps ==
  ASSUME BrowserInv, PageClosed
  PROVE  BrowserInv'
<1> USE AcquiredInOrder
<1>1. /\ session.at \in {"finally", "raising"} /\ UNCHANGED <<available, grants, held>>
      /\ \/ /\ open' = open \ {"page"} /\ UNCHANGED stuck
            /\ session' = IF session.at = "finally" THEN [session EXCEPT !.at = "ready"]
                          ELSE [session EXCEPT !.at = "close", !.next = 3]
         \/ /\ stuck' = stuck \cup {"page"} /\ UNCHANGED open
            /\ session' = [session EXCEPT !.at = "close", !.next = 3]
  BY DEF PageClosed, In
<1>2. /\ session \in [at : {"enter", "ready", "close", "over"} \cup PageStages,
                      next : 0..3, calls : 0..MaxMethodCalls, entered : BOOLEAN]
      /\ open \cup stuck \subseteq {"_pw", "_browser", "_context", "page"}
  BY DEF BrowserInv, BrowserTypeOK
<1>3. /\ session'.at \in {"ready", "close"} /\ (session'.at = "close" => session'.next = 3)
      /\ session' \in [at : {"enter", "ready", "close", "over"} \cup PageStages,
                       next : 0..3, calls : 0..MaxMethodCalls, entered : BOOLEAN]
  <2>1. \/ session' = [session EXCEPT !.at = "ready"]
        \/ session' = [session EXCEPT !.at = "close", !.next = 3]
    BY <1>1
  <2>2. CASE session' = [session EXCEPT !.at = "ready"]
    BY <1>2, <2>2
  <2>3. CASE session' = [session EXCEPT !.at = "close", !.next = 3]
    <3>1. session.calls \in 0..MaxMethodCalls
      BY <1>2
    <3>2. session' = [session EXCEPT !.at = "close", !.next = 3, !.calls = session.calls]
      BY <1>2, <2>3
    <3>3. /\ session'.at = "close" /\ session'.next = 3
          /\ session' \in [at : {"ready", "close"} \cup PageStages,
                           next : 0..3, calls : 0..MaxMethodCalls, entered : BOOLEAN]
      BY <1>2, <3>1, <3>2, ClosingStarts
    <3> QED
      BY <3>3
  <2> QED
    BY <2>1, <2>2, <2>3
<1>4. /\ open' \subseteq open /\ stuck \subseteq stuck'
      /\ stuck' \subseteq stuck \cup {"page"} /\ ("page" \in open' => "page" \in stuck')
  BY <1>1
<1>5. BrowserTypeOK'
  BY <1>1, <1>2, <1>3, <1>4 DEF BrowserInv, BrowserTypeOK
<1>6. HandlesReleased'
  BY <1>1, <1>3, <1>4 DEF BrowserInv, HandlesReleased, In
<1>7. PassedAreClosed' /\ PageIsInHand' /\ AcquiringOne'
  BY <1>3, <1>4 DEF PassedAreClosed, PageIsInHand, AcquiringOne, In
<1> QED
  BY <1>5, <1>6, <1>7 DEF BrowserInv

(* The invariant holds in every reachable state, for every number of calls.*)
THEOREM BrowserInvariant == BrowserSpec => []BrowserInv
<1>1. ASSUME BrowserInv, [BrowserNext]_browserVars
      PROVE  BrowserInv'
  <2> USE AcquiredInOrder, BrowserAssumption
  <2>1. session \in [at : {"enter", "ready", "close", "over"} \cup PageStages,
                     next : 0..3, calls : 0..MaxMethodCalls, entered : BOOLEAN]
    BY <1>1 DEF BrowserInv, BrowserTypeOK
  <2>2. CASE EnterUnavailable
    BY <1>1, <2>1, <2>2, SessionMoves DEF EnterUnavailable, In, PageStages
  <2>3. CASE Acquire
    BY <1>1, <2>3, AcquireKeeps
  <2>4. CASE AcquireFails \/ NewPageFails \/ Leave
    <3>1. /\ session.at \in {"enter", "ready"} /\ UNCHANGED <<available, grants, open, held, stuck>>
          /\ \/ session' = [session EXCEPT !.at = "close", !.next = 3]
             \/ /\ session.calls < MaxMethodCalls
                /\ session' = [session EXCEPT !.calls = @ + 1, !.at = "close", !.next = 3]
      BY <2>4 DEF AcquireFails, NewPageFails, Leave, In
    <3>2. PICK calls \in 0..MaxMethodCalls :
            session' = [session EXCEPT !.at = "close", !.next = 3, !.calls = calls]
      <4>1. session.calls \in 0..MaxMethodCalls
        BY <2>1
      <4>2. CASE session' = [session EXCEPT !.at = "close", !.next = 3]
        <5>1. session' = [session EXCEPT !.at = "close", !.next = 3, !.calls = session.calls]
          BY <2>1, <4>2
        <5> QED
          BY <4>1, <5>1
      <4>3. CASE /\ session.calls < MaxMethodCalls
                 /\ session' = [session EXCEPT !.calls = @ + 1, !.at = "close", !.next = 3]
        <5>1. session.calls + 1 \in 0..MaxMethodCalls
          BY <4>1, <4>3
        <5>2. session' = [session EXCEPT !.at = "close", !.next = 3, !.calls = session.calls + 1]
          BY <2>1, <4>3
        <5> QED
          BY <5>1, <5>2
      <4> QED
        BY <3>1, <4>2, <4>3
    <3>3. /\ session'.at = "close" /\ session'.next = 3
          /\ session' \in [at : {"ready", "close"} \cup PageStages,
                           next : 0..3, calls : 0..MaxMethodCalls, entered : BOOLEAN]
      BY <2>1, <3>2, ClosingStarts
    <3> QED
      BY <1>1, <3>1, <3>3, SessionMoves DEF PageStages
  <2>5. ASSUME NEW m \in Methods, Method(m)
        PROVE  BrowserInv'
    BY <1>1, <2>5, MethodKeeps
  <2>6. CASE PageStep \/ PageStepRaises
    BY <1>1, <2>1, <2>6, SessionMoves DEF PageStep, PageStepRaises, To, In, PageStages
  <2>7. CASE PageClosed
    BY <1>1, <2>7, PageClosedKeeps
  <2>8. CASE CloseNext
    BY <1>1, <2>8, CloseNextKeeps
  <2>9. CASE Closed
    BY <1>1, <2>9, ClosedKeeps
  <2>10. CASE UNCHANGED browserVars
    BY <1>1, <2>10
       DEF browserVars, BrowserInv, BrowserTypeOK, HandlesReleased, PassedAreClosed,
           PageIsInHand, AcquiringOne, In
  <2> QED
    BY <1>1, <2>2, <2>3, <2>4, <2>5, <2>6, <2>7, <2>8, <2>9, <2>10 DEF BrowserNext
<1> QED
  BY <1>1, BrowserInitial, PTL DEF BrowserSpec

(* However a session fails to start, is used or is left: once it is over,  *)
(* nothing is open but what refused to close, and nothing is referenced.   *)
THEOREM SessionsReleaseAll == BrowserSpec => []HandlesReleased
<1>1. BrowserInv => HandlesReleased
  BY DEF BrowserInv
<1> QED
  BY <1>1, BrowserInvariant, PTL

-----------------------------------------------------------------------------
(* The object store: every file there was has been deleted once, but for   *)
(* the one that is there now.                                              *)
Existing(s) == IF file[s] = "absent" THEN 0 ELSE 1
FilesCounted == \A s \in Shas : deletions[s] + Existing(s) <= created[s]

ObjectInv == TypeOK /\ NoStumps /\ FilesCounted

LEMMA NoOpIsIdle == NoOp \in Operation /\ NoOp.at = "idle"
BY ObjectAssumption DEF NoOp, Operation

LEMMA CalledOperation ==
  ASSUME NEW s \in Shas, NEW what \in {"put", "get", "delete"}
  PROVE  [at |-> what, sha |-> s, inode |-> 0, result |-> ""] \in Operation
<1> DEFINE ats == {"idle", "returned"} \cup Points  inodes == 0..MaxCreated
<1>1. what \in ats /\ 0 \in inodes
  BY ObjectAssumption DEF Points
<1> HIDE DEF ats, inodes
<1>2. [at |-> what, sha |-> s, inode |-> 0, result |-> ""]
        \in [at : ats, sha : Shas \cup {""}, inode : inodes, result : Returns \cup {""}]
  BY <1>1
<1> QED
  BY <1>2 DEF Operation, ats, inodes

LEMMA ObjectInitial == Init => ObjectInv
<1> SUFFICES ASSUME Init PROVE ObjectInv
  OBVIOUS
<1> USE ObjectAssumption DEF Init
<1>1. NoOp \in Operation /\ NoOp.at = "idle"
  BY NoOpIsIdle
<1>2. TypeOK
  BY <1>1 DEF TypeOK, File
<1>3. NoStumps
  BY DEF NoStumps
<1>4. FilesCounted
  BY DEF FilesCounted, Existing
<1> QED
  BY <1>2, <1>3, <1>4 DEF ObjectInv

(* A step of one process that touches no file and did not hold one open.   *)
LEMMA ObjectStepKeeps ==
  ASSUME ObjectInv, NEW p \in Processes, NEW x \in Operation, x.at # "idle" => x.sha \in Shas,
         op' = [op EXCEPT ![p] = x], UNCHANGED <<file, created, deletions>>,
         \/ mishaps' = mishaps /\ op[p].at # "writing"
         \/ mishaps' = mishaps + 1 /\ mishaps < MaxMishaps
  PROVE  ObjectInv'
<1> USE ObjectAssumption
<1>1. /\ op \in [Processes -> Operation] /\ mishaps \in 0..MaxMishaps
      /\ \A q \in Processes : op'[q] = IF q = p THEN x ELSE op[q]
  BY DEF ObjectInv, TypeOK
<1>2. mishaps' \in 0..MaxMishaps
  BY <1>1
<1>3. TypeOK'
  BY <1>1, <1>2 DEF ObjectInv, TypeOK
<1>4. NoStumps'
  <2>1. CASE mishaps' = mishaps + 1
    <3>1. mishaps' > 0
      BY <1>1, <2>1
    <3> QED
      BY <3>1 DEF NoStumps
  <2>2. CASE mishaps' = mishaps /\ op[p].at # "writing"
    <3> SUFFICES ASSUME NEW s \in Shas, file[s] = "partial", ~ (mishaps > 0)
                 PROVE  \E q \in Processes :
                          /\ op'[q].at = "writing" /\ op'[q].sha = s
                          /\ file[op'[q].sha] # "absent" /\ created[op'[q].sha] = op'[q].inode
      BY <2>2 DEF NoStumps, Linked, Of
    <3>1. PICK q \in Processes : op[q].at = "writing" /\ op[q].sha = s /\ Linked(q)
      BY DEF ObjectInv, NoStumps
    <3>2. q # p /\ op'[q] = op[q]
      BY <1>1, <2>2, <3>1
    <3> QED
      BY <3>1, <3>2 DEF Linked, Of
  <2>3. (mishaps' = mishaps /\ op[p].at # "writing") \/ mishaps' = mishaps + 1
    OBVIOUS
  <2> QED
    BY <2>1, <2>2, <2>3
<1>5. FilesCounted'
  BY DEF ObjectInv, FilesCounted, Existing
<1> QED
  BY <1>3, <1>4, <1>5 DEF ObjectInv

(* Goto and Answer as such steps.                                          *)
LEMMA GotoOrAnswer ==
  ASSUME ObjectInv, NEW p \in Processes, op[p].at # "idle",
         \/ \E at \in Points : Goto(p, at)
         \/ \E r \in Returns : Answer(p, r)
  PROVE  \E x \in Operation :
           /\ op' = [op EXCEPT ![p] = x]
           /\ x.sha = op[p].sha /\ x.sha \in Shas
<1> DEFINE x == op'[p]
<1>1. op \in [Processes -> Operation] /\ op[p].sha \in Shas
  BY DEF ObjectInv, TypeOK
<1>2. x \in Operation /\ op' = [op EXCEPT ![p] = x] /\ x.sha = op[p].sha
  <2>1. ASSUME NEW at \in Points, Goto(p, at)
        PROVE  x \in Operation /\ op' = [op EXCEPT ![p] = x] /\ x.sha = op[p].sha
    BY <1>1, <2>1 DEF Goto, Operation
  <2>2. ASSUME NEW r \in Returns, Answer(p, r)
        PROVE  x \in Operation /\ op' = [op EXCEPT ![p] = x] /\ x.sha = op[p].sha
    <3>1. op' = [op EXCEPT ![p].at = "returned", ![p].result = r]
      BY <2>2 DEF Answer
    <3>2. x = [op[p] EXCEPT !.at = "returned", !.result = r]
      BY <1>1, <3>1
    <3>3. op[p] \in [at : {"idle", "returned"} \cup Points, sha : Shas \cup {""},
                     inode : 0..MaxCreated, result : Returns \cup {""}]
      BY <1>1 DEF Operation
    <3>4. x \in [at : {"idle", "returned"} \cup Points, sha : Shas \cup {""},
                 inode : 0..MaxCreated, result : Returns \cup {""}]
      BY <3>2, <3>3
    <3>5. x.sha = op[p].sha
      BY <3>2, <3>3
    <3>6. op' = [op EXCEPT ![p] = x]
      BY <1>1, <3>1
    <3> QED
      BY <3>4, <3>5, <3>6 DEF Operation
  <2> QED
    BY <2>1, <2>2
<1> QED
  BY <1>1, <1>2

LEMMA PutOpenKeeps ==
  ASSUME ObjectInv, NEW p \in Processes, PutOpen(p)
  PROVE  ObjectInv'
<1> USE ObjectAssumption
<1> DEFINE s == op[p].sha  inode == created[s] + (IF file[s] = "absent" THEN 1 ELSE 0)
<1>1. /\ op[p].at = "opening" /\ (file[s] = "absent" => created[s] < MaxCreated)
      /\ created' = [created EXCEPT ![s] = inode]
      /\ op' = [op EXCEPT ![p].at = "writing", ![p].inode = inode]
      /\ file' = [file EXCEPT ![s] = "partial"]
      /\ UNCHANGED <<mishaps, deletions>>
  BY DEF PutOpen, Of
<1>2. /\ file \in [Shas -> File] /\ op \in [Processes -> Operation]
      /\ created \in [Shas -> 0..MaxCreated] /\ deletions \in [Shas -> Nat] /\ s \in Shas
      /\ op[p] \in Operation
  BY <1>1 DEF ObjectInv, TypeOK
<1>3. inode \in 0..MaxCreated
  BY <1>1, <1>2
<1> HIDE DEF inode
<1>4. /\ op'[p].at = "writing" /\ op'[p].inode = inode /\ op'[p].sha = s /\ op'[p] \in Operation
      /\ \A q \in Processes \ {p} : op'[q] = op[q]
      /\ op' \in [Processes -> Operation]
  BY <1>1, <1>2, <1>3 DEF Operation, Points
<1>5. TypeOK'
  <2>1. file' \in [Shas -> File] /\ created' \in [Shas -> 0..MaxCreated]
    BY <1>1, <1>2, <1>3 DEF File
  <2>2. \A q \in Processes : op'[q].at # "idle" => op'[q].sha \in Shas
    BY <1>2, <1>4 DEF ObjectInv, TypeOK
  <2> QED
    BY <1>1, <1>4, <2>1, <2>2 DEF ObjectInv, TypeOK
<1>6. NoStumps'
  <2> SUFFICES ASSUME NEW z \in Shas, file'[z] = "partial", ~ (mishaps > 0)
               PROVE  \E q \in Processes :
                          /\ op'[q].at = "writing" /\ op'[q].sha = z
                          /\ file'[op'[q].sha] # "absent" /\ created'[op'[q].sha] = op'[q].inode
    BY <1>1 DEF NoStumps, Linked, Of
  <2>1. CASE z = s
    <3>1. /\ op'[p].at = "writing" /\ op'[p].sha = z
          /\ file'[z] # "absent" /\ created'[z] = op'[p].inode
      BY <1>1, <1>2, <1>4, <2>1
    <3> QED
      BY <3>1
  <2>2. CASE z # s
    <3>1. file[z] = "partial" /\ created'[z] = created[z]
      BY <1>1, <1>2, <2>2
    <3>2. PICK q \in Processes : op[q].at = "writing" /\ op[q].sha = z /\ Linked(q)
      BY <3>1 DEF ObjectInv, NoStumps
    <3>3. op'[q] = op[q]
      BY <1>1, <1>4, <3>2
    <3>4. file[z] # "absent" /\ created[z] = op[q].inode
      BY <3>2 DEF Linked, Of
    <3> QED
      BY <3>1, <3>2, <3>3, <3>4
  <2> QED
    BY <2>1, <2>2
<1>7. FilesCounted'
  <2> SUFFICES ASSUME NEW z \in Shas
               PROVE  deletions[z] + (IF file'[z] = "absent" THEN 0 ELSE 1) <= created'[z]
    BY <1>1 DEF FilesCounted, Existing
  <2>1. deletions[z] + (IF file[z] = "absent" THEN 0 ELSE 1) <= created[z]
    BY DEF ObjectInv, FilesCounted, Existing
  <2>2. deletions[z] \in Nat /\ created[z] \in Nat
    BY <1>2
  <2>3. CASE z = s
    <3>1. file'[z] = "partial" /\ created'[z] = created[z] + (IF file[z] = "absent" THEN 1 ELSE 0)
      BY <1>1, <1>2, <2>3 DEF inode
    <3> QED
      BY <2>1, <2>2, <3>1
  <2>4. CASE z # s
    <3>1. file'[z] = file[z] /\ created'[z] = created[z]
      BY <1>1, <1>2, <2>4
    <3> QED
      BY <2>1, <3>1
  <2> QED
    BY <2>3, <2>4
<1> QED
  BY <1>5, <1>6, <1>7 DEF ObjectInv

(* An operation that returns.                                              *)
LEMMA AnsweredOperation ==
  ASSUME NEW x \in Operation, NEW v \in Returns \cup {""}
  PROVE  /\ [x EXCEPT !.at = "returned", !.result = v] \in Operation
         /\ [x EXCEPT !.at = "returned", !.result = v].sha = x.sha
BY DEF Operation

LEMMA PutWriteKeeps ==
  ASSUME ObjectInv, NEW p \in Processes, PutWrite(p)
  PROVE  ObjectInv'
<1> USE ObjectAssumption
<1> DEFINE s == op[p].sha
<1>1. /\ op[p].at = "writing"
      /\ file' = IF Linked(p) THEN [file EXCEPT ![s] = "whole"] ELSE file
      /\ op' = [op EXCEPT ![p].at = "returned", ![p].result = "stored"]
      /\ UNCHANGED <<created, mishaps, deletions>>
  BY DEF PutWrite, Answer
<1>2. /\ file \in [Shas -> File] /\ op \in [Processes -> Operation]
      /\ created \in [Shas -> 0..MaxCreated] /\ deletions \in [Shas -> Nat] /\ s \in Shas
  BY <1>1 DEF ObjectInv, TypeOK
<1>3. /\ op' \in [Processes -> Operation] /\ op'[p].sha = s
      /\ \A q \in Processes \ {p} : op'[q] = op[q]
  <2> DEFINE o == [op[p] EXCEPT !.at = "returned", !.result = "stored"]
  <2>1. op[p] \in Operation
    BY <1>2
  <2>2. o \in Operation /\ o.sha = op[p].sha
    BY <2>1, AnsweredOperation DEF Returns
  <2>3. op' = [op EXCEPT ![p] = o]
    BY <1>1, <1>2
  <2> HIDE DEF o
  <2> QED
    BY <1>2, <2>2, <2>3
<1>4. file' \in [Shas -> File] /\ \A z \in Shas : file'[z] = file[z] \/ (z = s /\ Linked(p) /\ file'[z] = "whole")
  <2>1. CASE Linked(p)
    <3>1. file' = [file EXCEPT ![s] = "whole"]
      BY <1>1, <2>1
    <3>2. file' \in [Shas -> File] /\ \A z \in Shas : file'[z] = file[z] \/ (z = s /\ file'[z] = "whole")
      BY <1>2, <3>1 DEF File
    <3> QED
      BY <2>1, <3>2
  <2>2. CASE ~ Linked(p)
    <3>1. file' = file
      BY <1>1, <2>2
    <3> QED
      BY <1>2, <3>1
  <2> QED
    BY <2>1, <2>2
<1>5. TypeOK'
  <2>1. \A q \in Processes : op'[q].at # "idle" => op'[q].sha \in Shas
    BY <1>2, <1>3 DEF ObjectInv, TypeOK
  <2> QED
    BY <1>1, <1>3, <1>4, <2>1 DEF ObjectInv, TypeOK
<1>6. NoStumps'
  <2> SUFFICES ASSUME NEW z \in Shas, file'[z] = "partial", ~ (mishaps > 0)
               PROVE  \E q \in Processes :
                          /\ op'[q].at = "writing" /\ op'[q].sha = z
                          /\ file'[op'[q].sha] # "absent" /\ created[op'[q].sha] = op'[q].inode
    BY <1>1 DEF NoStumps, Linked, Of
  <2>1. file[z] = "partial"
    BY <1>4
  <2>2. PICK q \in Processes : op[q].at = "writing" /\ op[q].sha = z /\ Linked(q)
    BY <2>1 DEF ObjectInv, NoStumps
  <2>3. q # p
    <3> SUFFICES ASSUME q = p PROVE FALSE
      OBVIOUS
    <3>1. Linked(p) /\ z = s
      BY <2>2
    <3>2. file'[z] = "whole"
      BY <1>1, <1>2, <3>1
    <3> QED
      BY <3>2
  <2>4. op'[q] = op[q]
    BY <1>3, <2>3
  <2>5. created[z] = op[q].inode
    BY <2>2 DEF Linked
  <2> QED
    BY <2>2, <2>4, <2>5
<1>7. FilesCounted'
  <2>1. \A z \in Shas : file'[z] = "absent" <=> file[z] = "absent"
    BY <1>4 DEF Linked, Of
  <2> QED
    BY <1>1, <2>1 DEF ObjectInv, FilesCounted, Existing
<1> QED
  BY <1>5, <1>6, <1>7 DEF ObjectInv

LEMMA DeleteUnlinkKeeps ==
  ASSUME ObjectInv, NEW p \in Processes, DeleteUnlink(p)
  PROVE  ObjectInv'
<1> USE ObjectAssumption
<1> DEFINE s == op[p].sha
<1>1. op[p].at = "unlinking" /\ UNCHANGED <<created, mishaps>>
  BY DEF DeleteUnlink
<1>2. /\ file \in [Shas -> File] /\ op \in [Processes -> Operation]
      /\ created \in [Shas -> 0..MaxCreated] /\ deletions \in [Shas -> Nat] /\ s \in Shas
  BY <1>1 DEF ObjectInv, TypeOK
<1>3. CASE file[s] = "absent"
  <2>1. Answer(p, "FileNotFoundError") /\ UNCHANGED <<file, deletions>>
    BY <1>3 DEF DeleteUnlink, Of
  <2>2. PICK x \in Operation : op' = [op EXCEPT ![p] = x] /\ x.sha \in Shas
    BY <1>1, <2>1, GotoOrAnswer DEF Returns
  <2> QED
    BY <1>1, <2>1, <2>2, ObjectStepKeeps
<1>4. CASE file[s] # "absent"
  <2>1. /\ file' = [file EXCEPT ![s] = "absent"]
        /\ deletions' = [deletions EXCEPT ![s] = @ + 1]
        /\ op' = [op EXCEPT ![p].at = "returned", ![p].result = "True"]
    BY <1>4 DEF DeleteUnlink, Of, Answer
  <2>2. /\ op' \in [Processes -> Operation] /\ op'[p].sha = s
        /\ \A q \in Processes \ {p} : op'[q] = op[q]
    <3> DEFINE o == [op[p] EXCEPT !.at = "returned", !.result = "True"]
    <3>1. op[p] \in Operation
      BY <1>2
    <3>2. o \in Operation /\ o.sha = op[p].sha
      BY <3>1, AnsweredOperation DEF Returns
    <3>3. op' = [op EXCEPT ![p] = o]
      BY <1>2, <2>1
    <3> HIDE DEF o
    <3> QED
      BY <1>2, <3>2, <3>3
  <2>3. TypeOK'
    <3>1. file' \in [Shas -> File] /\ deletions' \in [Shas -> Nat]
      BY <1>2, <2>1 DEF File
    <3>2. \A q \in Processes : op'[q].at # "idle" => op'[q].sha \in Shas
      BY <1>2, <2>2 DEF ObjectInv, TypeOK
    <3> QED
      BY <1>1, <2>2, <3>1, <3>2 DEF ObjectInv, TypeOK
  <2>4. NoStumps'
    <3> SUFFICES ASSUME NEW z \in Shas, file'[z] = "partial", ~ (mishaps > 0)
                 PROVE  \E q \in Processes :
                          /\ op'[q].at = "writing" /\ op'[q].sha = z
                          /\ file'[op'[q].sha] # "absent" /\ created[op'[q].sha] = op'[q].inode
      BY <1>1 DEF NoStumps, Linked, Of
    <3>1. file[z] = "partial" /\ z # s
      BY <1>2, <2>1
    <3>2. PICK q \in Processes : op[q].at = "writing" /\ op[q].sha = z /\ Linked(q)
      BY <3>1 DEF ObjectInv, NoStumps
    <3>3. op'[q] = op[q]
      BY <1>1, <2>2, <3>2
    <3>4. created[z] = op[q].inode
      BY <3>2 DEF Linked
    <3> QED
      BY <3>2, <3>3, <3>4
  <2>5. FilesCounted'
    <3> SUFFICES ASSUME NEW z \in Shas
                 PROVE  deletions'[z] + (IF file'[z] = "absent" THEN 0 ELSE 1) <= created[z]
      BY <1>1 DEF FilesCounted, Existing
    <3>1. deletions[z] + (IF file[z] = "absent" THEN 0 ELSE 1) <= created[z]
      BY DEF ObjectInv, FilesCounted, Existing
    <3>2. deletions[z] \in Nat /\ created[z] \in Nat
      BY <1>2
    <3>3. CASE z = s
      <4>1. file'[z] = "absent" /\ deletions'[z] = deletions[z] + 1 /\ file[z] # "absent"
        BY <1>2, <1>4, <2>1, <3>3
      <4> QED
        BY <3>1, <3>2, <4>1
    <3>4. CASE z # s
      <4>1. file'[z] = file[z] /\ deletions'[z] = deletions[z]
        BY <1>2, <2>1, <3>4
      <4> QED
        BY <3>1, <4>1
    <3> QED
      BY <3>3, <3>4
  <2> QED
    BY <2>3, <2>4, <2>5 DEF ObjectInv
<1> QED
  BY <1>3, <1>4

(* The invariant holds in every reachable state, for every set of          *)
(* processes and objects and every bound.                                  *)
THEOREM ObjectInvariant == Spec => []ObjectInv
<1>1. ASSUME ObjectInv, [Next]_vars
      PROVE  ObjectInv'
  <2>1. ASSUME NEW p \in Processes, NEW s \in Shas, NEW what \in {"put", "get", "delete"},
               Call(p, what, s)
        PROVE  ObjectInv'
    <3> DEFINE x == [at |-> what, sha |-> s, inode |-> 0, result |-> ""]
    <3>1. op[p] = NoOp /\ op' = [op EXCEPT ![p] = x] /\ UNCHANGED <<file, created, mishaps, deletions>>
      BY <2>1 DEF Call
    <3>2. x \in Operation /\ x.sha \in Shas
      BY CalledOperation
    <3>3. op[p].at # "writing"
      BY <3>1, NoOpIsIdle
    <3> HIDE DEF x
    <3> QED
      BY <1>1, <3>1, <3>2, <3>3, ObjectStepKeeps
  <2>2. ASSUME NEW p \in Processes,
               PutCheck(p) \/ PutFails(p) \/ GetCheck(p) \/ GetRead(p) \/ DeleteCheck(p)
        PROVE  ObjectInv'
    <3>1. /\ op[p].at \in {"put", "writing", "get", "reading", "delete"}
          /\ UNCHANGED <<file, created, deletions>>
          /\ \/ mishaps' = mishaps /\ op[p].at # "writing"
             \/ mishaps' = mishaps + 1 /\ mishaps < MaxMishaps
      BY <2>2 DEF PutCheck, PutFails, GetCheck, GetRead, DeleteCheck
    <3>2. \/ \E at \in Points : Goto(p, at)
          \/ \E r \in Returns : Answer(p, r)
      BY <2>2 DEF PutCheck, PutFails, GetCheck, GetRead, DeleteCheck, Points, Returns
    <3>3. PICK x \in Operation : op' = [op EXCEPT ![p] = x] /\ x.sha \in Shas
      BY <1>1, <3>1, <3>2, GotoOrAnswer
    <3> QED
      BY <1>1, <3>1, <3>3, ObjectStepKeeps
  <2>3. ASSUME NEW p \in Processes, PutOpen(p)
        PROVE  ObjectInv'
    BY <1>1, <2>3, PutOpenKeeps
  <2>4. ASSUME NEW p \in Processes, PutWrite(p)
        PROVE  ObjectInv'
    BY <1>1, <2>4, PutWriteKeeps
  <2>5. ASSUME NEW p \in Processes, DeleteUnlink(p)
        PROVE  ObjectInv'
    BY <1>1, <2>5, DeleteUnlinkKeeps
  <2>6. ASSUME NEW p \in Processes, Return(p) \/ Crash(p)
        PROVE  ObjectInv'
    <3>1. /\ op' = [op EXCEPT ![p] = NoOp] /\ UNCHANGED <<file, created, deletions>>
          /\ \/ mishaps' = mishaps /\ op[p].at # "writing"
             \/ mishaps' = mishaps + 1 /\ mishaps < MaxMishaps
      BY <2>6 DEF Return, Crash
    <3>2. NoOp \in Operation /\ NoOp.at = "idle"
      BY ObjectAssumption DEF NoOp, Operation
    <3> QED
      BY <1>1, <3>1, <3>2, ObjectStepKeeps
  <2>7. CASE UNCHANGED vars
    <3>1. UNCHANGED <<file, op, created, mishaps, deletions>>
      BY <2>7 DEF vars
    <3>2. TypeOK' /\ FilesCounted'
      BY <1>1, <3>1 DEF ObjectInv, TypeOK, FilesCounted, Existing
    <3>3. NoStumps'
      BY <1>1, <3>1 DEF ObjectInv, NoStumps, Linked, Of
    <3> QED
      BY <3>2, <3>3 DEF ObjectInv
  <2> QED
    BY <1>1, <2>1, <2>2, <2>3, <2>4, <2>5, <2>6, <2>7 DEF Next
<1> QED
  BY <1>1, ObjectInitial, PTL DEF Spec

(* A file that is cut short is being written, by a process that still      *)
(* holds that very file, or somebody died or failed.                       *)
THEOREM StumpsAreExplained == Spec => []NoStumps
<1>1. ObjectInv => NoStumps
  BY DEF ObjectInv
<1> QED
  BY <1>1, ObjectInvariant, PTL

(* delete() does not say True more often than the object came into being,  *)
(* however many processes delete it at once.                               *)
THEOREM ObjectsDeletedOnce == Spec => []DeletedOnce
<1>1. ObjectInv => DeletedOnce
  <2> SUFFICES ASSUME ObjectInv, NEW s \in Shas PROVE deletions[s] <= created[s]
    BY DEF DeletedOnce
  <2>1. deletions[s] \in Nat /\ created[s] \in Nat /\ deletions[s] + Existing(s) <= created[s]
    BY ObjectAssumption DEF ObjectInv, TypeOK, FilesCounted
  <2> QED
    BY <2>1 DEF Existing
<1> QED
  BY <1>1, ObjectInvariant, PTL

-----------------------------------------------------------------------------
(* The desktop configuration.  Two runs that copy to the same backup have  *)
(* been counted twice, ...                                                 *)
OncePerSecond == \A s \in 0..LastSecond : copies[s] <= 1
Copying(r, s) == run[r].at = "copy" /\ run[r].stamp = s

CopiesCounted ==
    \A r \in Runs : \A s \in 0..LastSecond : Copying(r, s) =>
      /\ copies[s] >= 1
      /\ \A q \in Runs : q # r /\ Copying(q, s) => copies[s] >= 2

(* ... so that a complete backup of the user's file stays what it is; and  *)
(* no run is about to write before there is one.                           *)
Settled(s) ==
    /\ bak[s] = original /\ copies[s] >= 1
    /\ \A r \in Runs : ~ Copying(r, s)

BackedUpBeforeWriting ==
    OncePerSecond /\ original # Missing =>
      \/ \E s \in 0..LastSecond : Settled(s)
      \/ text = original /\ \A r \in Runs : run[r].at \notin {"truncate", "write"}

DesktopInv == DesktopTypeOK /\ CopiesCounted /\ BackedUpBeforeWriting

LEMMA DesktopInitial == DesktopInit => DesktopInv
<1> SUFFICES ASSUME DesktopInit PROVE DesktopInv
  OBVIOUS
<1> USE DesktopAssumption DEF DesktopInit
<1>1. DesktopTypeOK
  <2>1. original \in Contents
    BY DEF Contents, Servers
  <2>2. NotStarted \in [at : {"read", "backup", "copy", "truncate", "write", "done"},
                        merged : SUBSET Servers, stamp : 0..LastSecond]
    BY DEF NotStarted
  <2> QED
    BY <2>1, <2>2 DEF DesktopTypeOK, Contents
<1>2. \A r \in Runs : run[r].at = "read"
  BY DEF NotStarted
<1>3. CopiesCounted /\ BackedUpBeforeWriting
  BY <1>2 DEF CopiesCounted, BackedUpBeforeWriting, Copying
<1> QED
  BY <1>1, <1>3 DEF DesktopInv

(* A step that leaves the backups alone and starts neither a copy nor a    *)
(* write of its own: only the text may change, and only after a backup.    *)
LEMMA NoCopyKeeps ==
  ASSUME DesktopInv, DesktopTypeOK', UNCHANGED <<original, bak, copies>>,
         \A r \in Runs : run'[r] = run[r] \/ run'[r].at \notin {"copy", "truncate", "write"}
                         \/ (run[r].at \in {"truncate", "write"} /\ run'[r].at # "copy"),
         text' = text \/ \E r \in Runs : run[r].at \in {"truncate", "write"}
  PROVE  DesktopInv'
<1>1. \A r \in Runs, s \in 0..LastSecond : Copying(r, s)' => Copying(r, s)
  BY DEF Copying
<1>2. CopiesCounted'
  BY <1>1 DEF DesktopInv, CopiesCounted
<1>3. \A s \in 0..LastSecond : Settled(s) => Settled(s)'
  BY <1>1 DEF Settled
<1>4. BackedUpBeforeWriting'
  <2> SUFFICES ASSUME OncePerSecond, original # Missing,
                      ~ \E s \in 0..LastSecond : Settled(s)
               PROVE  text' = original /\ \A r \in Runs : run'[r].at \notin {"truncate", "write"}
    BY <1>3 DEF BackedUpBeforeWriting, OncePerSecond
  <2>1. text = original /\ \A r \in Runs : run[r].at \notin {"truncate", "write"}
    BY DEF DesktopInv, BackedUpBeforeWriting
  <2> QED
    BY <2>1
<1> QED
  BY <1>2, <1>4 DEF DesktopInv

(* A run's record whose stage and stamp are replaced.                      *)
LEMMA StampedRun ==
  ASSUME NEW A, NEW M, NEW S, NEW x \in [at : A, merged : M, stamp : S], NEW a \in A, NEW s \in S
  PROVE  [x EXCEPT !.at = a, !.stamp = s] \in [at : A, merged : M, stamp : S]
OBVIOUS

LEMMA CopyOpenKeeps ==
  ASSUME DesktopInv, NEW r \in Runs, CopyOpen(r)
  PROVE  DesktopInv'
<1> USE DesktopAssumption
<1> DEFINE RunRecord == [at : {"read", "backup", "copy", "truncate", "write", "done"},
                         merged : SUBSET Servers, stamp : 0..LastSecond]
<1>1. /\ run[r].at = "backup" /\ UNCHANGED <<original, text, second, deaths>>
      /\ IF text = Missing
         THEN run' = [run EXCEPT ![r].at = "truncate"] /\ UNCHANGED <<bak, copies>>
         ELSE /\ run' = [run EXCEPT ![r].at = "copy", ![r].stamp = second]
              /\ bak' = [bak EXCEPT ![second] = Cut]
              /\ copies' = [copies EXCEPT ![second] = @ + 1]
  BY DEF CopyOpen
<1>2. /\ run \in [Runs -> RunRecord] /\ second \in 0..LastSecond /\ text \in Contents
      /\ bak \in [0..LastSecond -> Contents] /\ copies \in [0..LastSecond -> Nat]
  BY DEF DesktopInv, DesktopTypeOK
<1>3. CASE text = Missing
  <2>1. /\ run' = [run EXCEPT ![r].at = "truncate"] /\ UNCHANGED <<bak, copies>>
        /\ \A q \in Runs \ {r} : run'[q] = run[q]
        /\ run'[r].at = "truncate" /\ run' \in [Runs -> RunRecord]
    <3>1. run' = [run EXCEPT ![r].at = "truncate"] /\ UNCHANGED <<bak, copies>>
      BY <1>1, <1>3
    <3>2. run'[r] = [run[r] EXCEPT !.at = "truncate"] /\ \A q \in Runs \ {r} : run'[q] = run[q]
      BY <1>2, <3>1
    <3>3. run'[r] \in RunRecord /\ run'[r].at = "truncate"
      BY <1>2, <3>2
    <3> HIDE DEF RunRecord
    <3>4. run' \in [Runs -> RunRecord]
      BY <1>2, <3>1, <3>3
    <3> QED
      BY <3>1, <3>2, <3>3, <3>4
  <2>2. DesktopTypeOK'
    BY <1>1, <2>1 DEF DesktopInv, DesktopTypeOK
  <2>3. \A q \in Runs, s \in 0..LastSecond : Copying(q, s)' => Copying(q, s)
    BY <2>1 DEF Copying
  <2>4. CopiesCounted'
    BY <2>1, <2>3 DEF DesktopInv, CopiesCounted
  <2>5. \A s \in 0..LastSecond : Settled(s) => Settled(s)'
    BY <1>1, <2>1, <2>3 DEF Settled
  <2>6. BackedUpBeforeWriting'
    <3> SUFFICES ASSUME OncePerSecond, original # Missing
                 PROVE  \E s \in 0..LastSecond : Settled(s)'
      BY <1>1, <2>1 DEF BackedUpBeforeWriting, OncePerSecond
    <3>1. \E s \in 0..LastSecond : Settled(s)
      BY <1>3 DEF DesktopInv, BackedUpBeforeWriting
    <3> QED
      BY <2>5, <3>1
  <2> QED
    BY <2>2, <2>4, <2>6 DEF DesktopInv
<1>4. CASE text # Missing
  <2>1. /\ run' = [run EXCEPT ![r].at = "copy", ![r].stamp = second]
        /\ bak' = [bak EXCEPT ![second] = Cut]
        /\ copies' = [copies EXCEPT ![second] = @ + 1]
    BY <1>1, <1>4
  <2>2. /\ \A q \in Runs \ {r} : run'[q] = run[q]
        /\ run'[r].at = "copy" /\ run'[r].stamp = second /\ run' \in [Runs -> RunRecord]
        /\ copies'[second] = copies[second] + 1
        /\ \A s \in 0..LastSecond \ {second} : copies'[s] = copies[s] /\ bak'[s] = bak[s]
        /\ copies' \in [0..LastSecond -> Nat] /\ bak' \in [0..LastSecond -> Contents]
    <3>1. run'[r] = [run[r] EXCEPT !.at = "copy", !.stamp = second]
          /\ \A q \in Runs \ {r} : run'[q] = run[q]
      BY <1>2, <2>1
    <3>2. run'[r] \in RunRecord /\ run'[r].at = "copy" /\ run'[r].stamp = second
      <4>1. run[r] \in RunRecord
        BY <1>2
      <4>2. [run[r] EXCEPT !.at = "copy", !.stamp = second] \in RunRecord
        BY <1>2, <4>1, StampedRun
      <4>3. run'[r].at = "copy" /\ run'[r].stamp = second
        BY <3>1, <4>1
      <4> QED
        BY <3>1, <4>2, <4>3
    <3>3. /\ copies'[second] = copies[second] + 1
          /\ \A s \in 0..LastSecond \ {second} : copies'[s] = copies[s] /\ bak'[s] = bak[s]
          /\ copies' \in [0..LastSecond -> Nat]
      BY <1>2, <2>1
    <3>4. bak' \in [0..LastSecond -> Contents]
      BY <1>2, <2>1 DEF Contents
    <3> HIDE DEF RunRecord
    <3>5. run' \in [Runs -> RunRecord]
      BY <1>2, <2>1, <3>2
    <3> QED
      BY <3>1, <3>2, <3>3, <3>4, <3>5
  <2>3. DesktopTypeOK'
    BY <1>1, <2>2 DEF DesktopInv, DesktopTypeOK
  <2>4. \A s \in 0..LastSecond : copies[s] \in Nat /\ copies'[s] \in Nat /\ copies'[s] >= copies[s]
    <3> SUFFICES ASSUME NEW s \in 0..LastSecond
                 PROVE  copies[s] \in Nat /\ copies'[s] \in Nat /\ copies'[s] >= copies[s]
      OBVIOUS
    <3>1. copies[s] \in Nat /\ copies'[s] \in Nat
      BY <1>2, <2>2
    <3>2. copies'[s] = copies[s] \/ copies'[s] = copies[s] + 1
      BY <2>2
    <3> QED
      BY <3>1, <3>2
  <2>5. \A q \in Runs \ {r} : \A s \in 0..LastSecond : Copying(q, s)' => Copying(q, s)
    BY <2>2 DEF Copying
  <2>6. \A s \in 0..LastSecond : Copying(r, s)' => s = second
    BY <2>2 DEF Copying
  <2>7. \A q \in Runs \ {r} : Copying(q, second) => copies'[second] >= 2
    <3>1. \A q \in Runs \ {r} : Copying(q, second) => copies[second] >= 1
      BY <1>2 DEF DesktopInv, CopiesCounted
    <3> QED
      BY <1>2, <2>2, <3>1
  <2>8. CopiesCounted'
    <3> SUFFICES ASSUME NEW q \in Runs, NEW s \in 0..LastSecond, Copying(q, s)'
                 PROVE  /\ copies'[s] >= 1
                        /\ \A o \in Runs : o # q /\ Copying(o, s)' => copies'[s] >= 2
      BY DEF CopiesCounted
    <3>1. CASE q = r
      <4>1. s = second /\ copies'[s] >= 1
        BY <1>2, <2>2, <2>6, <3>1
      <4>2. \A o \in Runs : o # q /\ Copying(o, s)' => copies'[s] >= 2
        BY <2>5, <2>7, <3>1, <4>1
      <4> QED
        BY <4>1, <4>2
    <3>2. CASE q # r
      <4>1. Copying(q, s)
        BY <2>5, <3>2
      <4>2. copies[s] >= 1 /\ copies'[s] >= 1
        <5>1. copies[s] >= 1
          BY <4>1 DEF DesktopInv, CopiesCounted
        <5> QED
          BY <2>4, <5>1
      <4>3. ASSUME NEW o \in Runs, o # q, Copying(o, s)'
            PROVE  copies'[s] >= 2
        <5>1. CASE o = r
          BY <2>6, <2>7, <3>2, <4>1, <4>3, <5>1
        <5>2. CASE o # r
          <6>1. Copying(o, s)
            BY <2>5, <4>3, <5>2
          <6>2. CopiesCounted
            BY DEF DesktopInv
          <6>3. copies[s] >= 2
            BY <4>1, <4>3, <6>1, <6>2 DEF CopiesCounted
          <6> QED
            BY <2>4, <6>3
        <5> QED
          BY <5>1, <5>2
      <4> QED
        BY <4>2, <4>3
    <3> QED
      BY <3>1, <3>2
  <2>9. OncePerSecond' => OncePerSecond /\ copies[second] = 0
    <3> SUFFICES ASSUME \A s \in 0..LastSecond : copies'[s] <= 1
                 PROVE  (\A s \in 0..LastSecond : copies[s] <= 1) /\ copies[second] = 0
      BY DEF OncePerSecond
    <3>1. \A s \in 0..LastSecond : copies[s] <= 1
      BY <2>4
    <3>2. copies[second] \in Nat /\ copies'[second] = copies[second] + 1 /\ copies'[second] <= 1
      BY <1>2, <2>2
    <3>3. copies[second] = 0
      BY <3>2
    <3> QED
      BY <3>1, <3>3
  <2>10. BackedUpBeforeWriting'
    <3> SUFFICES ASSUME OncePerSecond', original # Missing
                 PROVE  \/ \E s \in 0..LastSecond : Settled(s)'
                        \/ /\ text = original
                           /\ \A q \in Runs : run'[q].at \notin {"truncate", "write"}
      BY <1>1 DEF BackedUpBeforeWriting
    <3>1. CASE \E s \in 0..LastSecond : Settled(s)
      <4>1. PICK s \in 0..LastSecond : Settled(s)
        BY <3>1
      <4>2. s # second
        BY <2>9, <4>1 DEF Settled
      <4>3. \A q \in Runs : ~ Copying(q, s)'
        BY <2>5, <2>6, <4>1, <4>2 DEF Settled
      <4>4. Settled(s)'
        BY <1>1, <2>2, <4>1, <4>2, <4>3 DEF Settled
      <4> QED
        BY <4>4
    <3>2. CASE text = original /\ \A q \in Runs : run[q].at \notin {"truncate", "write"}
      BY <2>2, <3>2
    <3> QED
      BY <2>9, <3>1, <3>2 DEF DesktopInv, BackedUpBeforeWriting
  <2> QED
    BY <2>3, <2>8, <2>10 DEF DesktopInv
<1> QED
  BY <1>3, <1>4

LEMMA CopyFillKeeps ==
  ASSUME DesktopInv, NEW r \in Runs, CopyFill(r)
  PROVE  DesktopInv'
<1> USE DesktopAssumption
<1> DEFINE RunRecord == [at : {"read", "backup", "copy", "truncate", "write", "done"},
                         merged : SUBSET Servers, stamp : 0..LastSecond]
<1>0. PICK z \in 0..LastSecond : z = run[r].stamp
  BY DEF DesktopInv, DesktopTypeOK
<1>1. /\ run[r].at = "copy" /\ UNCHANGED <<original, text, second, deaths, copies>>
      /\ bak' = [bak EXCEPT ![z] = text]
      /\ run' = [run EXCEPT ![r].at = "truncate"]
  BY <1>0 DEF CopyFill
<1>2. /\ run \in [Runs -> RunRecord] /\ text \in Contents
      /\ bak \in [0..LastSecond -> Contents] /\ copies \in [0..LastSecond -> Nat]
  BY DEF DesktopInv, DesktopTypeOK
<1>3. /\ z \in 0..LastSecond /\ Copying(r, z)
      /\ \A q \in Runs \ {r} : run'[q] = run[q]
      /\ run'[r].at = "truncate" /\ run' \in [Runs -> RunRecord]
      /\ bak'[z] = text /\ bak' \in [0..LastSecond -> Contents]
      /\ \A s \in 0..LastSecond \ {z} : bak'[s] = bak[s]
  BY <1>0, <1>1, <1>2 DEF Copying
<1>4. DesktopTypeOK'
  BY <1>1, <1>3 DEF DesktopInv, DesktopTypeOK
<1>5. \A q \in Runs, s \in 0..LastSecond : Copying(q, s)' => Copying(q, s) /\ q # r
  BY <1>3 DEF Copying
<1>6. CopiesCounted'
  BY <1>1, <1>5 DEF DesktopInv, CopiesCounted
<1>7. BackedUpBeforeWriting'
  <2> SUFFICES ASSUME OncePerSecond, original # Missing
               PROVE  \E s \in 0..LastSecond : Settled(s)'
    BY <1>1 DEF BackedUpBeforeWriting, OncePerSecond
  <2>1. CASE \E s \in 0..LastSecond : Settled(s)
    <3>1. PICK s \in 0..LastSecond : Settled(s)
      BY <2>1
    <3>2. s # z
      BY <1>3, <3>1 DEF Settled
    <3>3. Settled(s)'
      BY <1>1, <1>3, <1>5, <3>1, <3>2 DEF Settled
    <3> QED
      BY <3>3
  <2>2. CASE text = original
    <3>1. copies[z] >= 1 /\ \A q \in Runs : q # r => ~ Copying(q, z)
      <4>1. copies[z] \in Nat /\ copies[z] <= 1
        BY <1>2, <1>3 DEF OncePerSecond
      <4>2. /\ copies[z] >= 1
            /\ \A q \in Runs : q # r /\ Copying(q, z) => copies[z] >= 2
        BY <1>3 DEF DesktopInv, CopiesCounted
      <4> QED
        BY <4>1, <4>2
    <3>2. Settled(z)'
      <4>1. \A q \in Runs : ~ Copying(q, z)'
        BY <1>3, <1>5, <3>1
      <4>2. bak'[z] = original' /\ copies'[z] >= 1
        BY <1>1, <1>3, <2>2, <3>1
      <4> QED
        BY <4>1, <4>2 DEF Settled
    <3> QED
      BY <1>3, <3>2
  <2> QED
    BY <2>1, <2>2 DEF DesktopInv, BackedUpBeforeWriting
<1> QED
  BY <1>4, <1>6, <1>7 DEF DesktopInv

(* The invariant holds in every reachable state, for every set of runs and *)
(* every number of seconds and deaths.                                     *)
THEOREM DesktopInvariant == DesktopSpec => []DesktopInv
<1>1. ASSUME DesktopInv, [DesktopNext]_desktopVars
      PROVE  DesktopInv'
  <2> USE DesktopAssumption
  <2>1. /\ run \in [Runs -> [at : {"read", "backup", "copy", "truncate", "write", "done"},
                             merged : SUBSET Servers, stamp : 0..LastSecond]]
        /\ text \in Contents /\ second \in 0..LastSecond /\ deaths \in 0..MaxDeaths
    BY <1>1 DEF DesktopInv, DesktopTypeOK
  <2>2. ASSUME NEW r \in Runs, NEW dry_run \in BOOLEAN, Read(r, dry_run)
        PROVE  DesktopInv'
    <3>1. /\ UNCHANGED <<original, text, bak, second, deaths, copies>>
          /\ \E at \in {"done", "backup"} :
               run' = [run EXCEPT ![r] = [@ EXCEPT !.at = at, !.merged = MergeConfig(text)]]
      BY <2>2 DEF Read
    <3>2. MergeConfig(text) \in SUBSET Servers
      BY <2>1 DEF MergeConfig, Contents, Unreadable, Servers
    <3>3. DesktopTypeOK'
      BY <1>1, <2>1, <3>1, <3>2 DEF DesktopInv, DesktopTypeOK
    <3>4. \A q \in Runs : run'[q] = run[q] \/ run'[q].at \notin {"copy", "truncate", "write"}
      BY <2>1, <3>1
    <3> QED
      BY <1>1, <3>1, <3>3, <3>4, NoCopyKeeps
  <2>3. ASSUME NEW r \in Runs, CopyOpen(r)
        PROVE  DesktopInv'
    BY <1>1, <2>3, CopyOpenKeeps
  <2>4. ASSUME NEW r \in Runs, CopyFill(r)
        PROVE  DesktopInv'
    BY <1>1, <2>4, CopyFillKeeps
  <2>5. ASSUME NEW r \in Runs, WriteOpen(r)
        PROVE  DesktopInv'
    <3>1. /\ run[r].at = "truncate" /\ text' = Cut /\ run' = [run EXCEPT ![r].at = "write"]
          /\ UNCHANGED <<original, bak, second, deaths, copies>>
      BY <2>5 DEF WriteOpen
    <3>2. DesktopTypeOK'
      BY <1>1, <2>1, <3>1 DEF DesktopInv, DesktopTypeOK, Contents
    <3>3. \A q \in Runs : run'[q] = run[q] \/ (run[q].at = "truncate" /\ run'[q].at = "write")
      BY <2>1, <3>1
    <3> QED
      BY <1>1, <3>1, <3>2, <3>3, NoCopyKeeps
  <2>6. ASSUME NEW r \in Runs, WriteFill(r)
        PROVE  DesktopInv'
    <3>1. /\ run[r].at = "write" /\ text' \in {run[r].merged, Cut}
          /\ run' = [run EXCEPT ![r].at = "done"]
          /\ UNCHANGED <<original, bak, second, deaths, copies>>
      BY <2>6 DEF WriteFill
    <3>2. DesktopTypeOK'
      BY <1>1, <2>1, <3>1 DEF DesktopInv, DesktopTypeOK, Contents
    <3>3. \A q \in Runs : run'[q] = run[q] \/ (run[q].at = "write" /\ run'[q].at = "done")
      BY <2>1, <3>1
    <3> QED
      BY <1>1, <3>1, <3>2, <3>3, NoCopyKeeps
  <2>7. ASSUME NEW r \in Runs, RunDies(r)
        PROVE  DesktopInv'
    <3>1. /\ deaths < MaxDeaths /\ deaths' = deaths + 1 /\ run' = [run EXCEPT ![r].at = "done"]
          /\ UNCHANGED <<original, text, bak, second, copies>>
      BY <2>7 DEF RunDies
    <3>2. DesktopTypeOK'
      <4>1. deaths' \in 0..MaxDeaths
        BY <2>1, <3>1
      <4> QED
        BY <1>1, <2>1, <3>1, <4>1 DEF DesktopInv, DesktopTypeOK
    <3>3. \A q \in Runs : run'[q] = run[q] \/ run'[q].at = "done"
      BY <2>1, <3>1
    <3> QED
      BY <1>1, <3>1, <3>2, <3>3, NoCopyKeeps
  <2>8. CASE NextSecond
    <3>1. second < LastSecond /\ second' = second + 1
          /\ UNCHANGED <<original, text, bak, run, deaths, copies>>
      BY <2>8 DEF NextSecond
    <3>2. DesktopTypeOK'
      BY <1>1, <2>1, <3>1 DEF DesktopInv, DesktopTypeOK
    <3> QED
      BY <1>1, <3>1, <3>2, NoCopyKeeps
  <2>9. CASE UNCHANGED desktopVars
    <3>1. UNCHANGED <<original, text, bak, run, second, deaths, copies>>
      BY <2>9 DEF desktopVars
    <3>2. DesktopTypeOK'
      BY <1>1, <3>1 DEF DesktopInv, DesktopTypeOK
    <3> QED
      BY <1>1, <3>1, <3>2, NoCopyKeeps
  <2> QED
    BY <1>1, <2>2, <2>3, <2>4, <2>5, <2>6, <2>7, <2>8, <2>9 DEF DesktopNext
<1> QED
  BY <1>1, DesktopInitial, PTL DEF DesktopSpec

(* init-claude loses nobody's configuration: it is in place or in a backup,*)
(* whichever runs overlap and die, unless two copy in the same second.     *)
THEOREM OriginalIsRecoverable == DesktopSpec => []OriginalRecoverable
<1>1. DesktopInv => OriginalRecoverable
  BY DEF DesktopInv, DesktopTypeOK, OriginalRecoverable, BackedUpBeforeWriting, OncePerSecond,
         Settled
<1> QED
  BY <1>1, DesktopInvariant, PTL

-----------------------------------------------------------------------------
(* ReleaseBundle: the inductive invariant.  A signer past the truncation   *)
(* has a manifest before it, and one that signs has a key; ...             *)
SignerReady ==
    /\ signer.at \in {"write", "sign", "ship"} => manifest \in Sums
    /\ signer.at \in {"sign", "ship"} => signer.key # NoKey

(* ... and an undisturbed verifier compares with the manifest that is      *)
(* there, is good so far exactly if the files passed are listed as they    *)
(* are, and at the end has seen all of them and the signature.             *)
PassedAreListed ==
    \A i \in 1..(verifier.next - 1) :
        Artifacts[i] \in Excluded \/ manifest[Artifacts[i]] = content[Artifacts[i]]
SignatureHolds == sig # NoFile => sig = [key |-> Anchor, of |-> manifest]

VerifierExact ==
    verifier.at # "idle" /\ verifier.disturbed = FALSE =>
        /\ manifest \in Sums /\ verifier.expected = manifest
        /\ verifier.next <= Len(Artifacts) + 1
        /\ verifier.good <=> PassedAreListed
        /\ verifier.at = "done" => /\ verifier.next = Len(Artifacts) + 1
                                   /\ verifier.ok <=> verifier.good /\ SignatureHolds

ReleaseInv == ReleaseTypeOK /\ SignerReady /\ VerifierExact

LEMMA FilesAreListed ==
  /\ Len(Artifacts) \in Nat
  /\ \A i \in 1..Len(Artifacts) : Artifacts[i] \in Paths
  /\ \A f \in Paths : \E i \in 1..Len(Artifacts) : f = Artifacts[i]
<1>1. Len(Artifacts) \in Nat /\ DOMAIN Artifacts = 1..Len(Artifacts)
  BY ReleaseAssumption, LenProperties
<1>2. \A i \in 1..Len(Artifacts) : Artifacts[i] \in Paths
  BY ReleaseAssumption, ElementOfSeq
<1>3. \A f \in Paths : \E i \in 1..Len(Artifacts) : f = Artifacts[i]
  BY <1>1 DEF Paths, ToSet
<1> QED
  BY <1>1, <1>2, <1>3

LEMMA NothingRuns ==
  NoSigner \in Signer /\ NoVerifier \in Verifier /\ Empty \in Sums
<1>1. Empty \in Sums
  BY DEF Empty, Sums, Digests
<1> HIDE DEF Sums
<1>2. NoSigner \in Signer
  BY <1>1 DEF NoSigner, Signer
<1>3. NoVerifier \in Verifier
  BY <1>1 DEF NoVerifier, Verifier
<1> QED
  BY <1>1, <1>2, <1>3

LEMMA ReleaseInitial == ReleaseInit => ReleaseInv
<1> SUFFICES ASSUME ReleaseInit PROVE ReleaseInv
  OBVIOUS
<1>1. content \in Sums
  BY DEF ReleaseInit, Sums, Digests
<1>2. spent \in [changes : 0..MaxChanges, calls : 0..MaxCalls]
  <2> DEFINE C == 0..MaxChanges  D == 0..MaxCalls
  <2>1. 0 \in C /\ 0 \in D
    BY ReleaseAssumption
  <2> HIDE DEF C, D
  <2>2. spent \in [changes : C, calls : D]
    BY <2>1 DEF ReleaseInit
  <2> QED
    BY <2>2 DEF C, D
<1>3. ReleaseTypeOK
  BY <1>1, <1>2, NothingRuns DEF ReleaseInit, ReleaseTypeOK
<1>4. SignerReady /\ VerifierExact
  BY DEF ReleaseInit, SignerReady, VerifierExact, NoSigner, NoVerifier
<1> QED
  BY <1>3, <1>4 DEF ReleaseInv

(* A step that disturbs the verifier owes it nothing; ...                  *)
LEMMA DisturbingKeeps ==
  ASSUME verifier \in Verifier, Disturb
  PROVE  verifier' \in Verifier /\ VerifierExact'
<1>1. verifier' \in Verifier /\ verifier'.disturbed = TRUE
  BY DEF Disturb, Verifier
<1> QED
  BY <1>1 DEF VerifierExact

(* ... and one that changes no file of the bundle leaves it exact.         *)
LEMMA UnseenKeeps ==
  ASSUME VerifierExact, UNCHANGED <<content, manifest, sig, pubkey, verifier>>
  PROVE  VerifierExact'
<1>1. content' = content /\ manifest' = manifest /\ sig' = sig /\ pubkey' = pubkey
      /\ verifier' = verifier
  OBVIOUS
<1> QED
  BY <1>1 DEF VerifierExact, PassedAreListed, SignatureHolds, Anchor

LEMMA ChangeKeeps ==
  ASSUME ReleaseInv, NEW f \in Paths, NEW c \in Digests, Change(f, c)
  PROVE  ReleaseInv'
<1>1. verifier' \in Verifier /\ VerifierExact'
  BY DisturbingKeeps DEF ReleaseInv, ReleaseTypeOK, Change
<1>2. content' \in Sums
  BY DEF ReleaseInv, ReleaseTypeOK, Change, Sums
<1>3. spent' \in [changes : 0..MaxChanges, calls : 0..MaxCalls]
  BY ReleaseAssumption DEF ReleaseInv, ReleaseTypeOK, Change
<1>4. UNCHANGED <<manifest, sig, pubkey, signer>>
  BY DEF Change
<1>5. ReleaseTypeOK'
  BY <1>1, <1>2, <1>3, <1>4 DEF ReleaseInv, ReleaseTypeOK
<1>6. SignerReady'
  BY <1>4 DEF ReleaseInv, SignerReady
<1> QED
  BY <1>1, <1>5, <1>6 DEF ReleaseInv

LEMMA CallIsCounted ==
  ASSUME ReleaseTypeOK, spent.calls < MaxCalls, spent' = [spent EXCEPT !.calls = @ + 1]
  PROVE  spent' \in [changes : 0..MaxChanges, calls : 0..MaxCalls]
BY ReleaseAssumption DEF ReleaseTypeOK

(* Of a step of the signer that writes no file, its record is left to show.*)
LEMMA SignerStepKeeps ==
  ASSUME ReleaseInv, signer' \in Signer, SignerReady',
         UNCHANGED <<content, manifest, sig, pubkey, verifier>>,
         spent' \in [changes : 0..MaxChanges, calls : 0..MaxCalls]
  PROVE  ReleaseInv'
<1>1. VerifierExact'
  BY UnseenKeeps DEF ReleaseInv
<1>2. ReleaseTypeOK'
  BY DEF ReleaseInv, ReleaseTypeOK
<1> QED
  BY <1>1, <1>2 DEF ReleaseInv

LEMMA SignKeeps ==
  ASSUME ReleaseInv, NEW key \in Keys \cup {NoKey}, NEW ships \in BOOLEAN, Sign(key, ships)
  PROVE  ReleaseInv'
<1> DEFINE s == [at |-> "hash", next |-> 1, sums |-> Empty, key |-> key, ships |-> ships]
<1>1. s \in Signer
  <2> DEFINE A == {"idle", "hash", "write", "sign", "ship"}  K == Keys \cup {NoKey}
             N == Nat \ {0}
  <2>1. "hash" \in A /\ key \in K /\ ships \in BOOLEAN /\ Empty \in Sums /\ 1 \in N
    BY NothingRuns
  <2>2. Signer = [at : A, next : N, sums : Sums, key : K, ships : BOOLEAN]
    BY DEF Signer
  <2> HIDE DEF A, K, N
  <2> QED
    BY <2>1, <2>2
<1>2. signer' = s /\ s.at = "hash"
  BY DEF Sign
<1>3. SignerReady'
  BY <1>2 DEF SignerReady
<1>4. spent' \in [changes : 0..MaxChanges, calls : 0..MaxCalls]
  BY CallIsCounted DEF Sign, ReleaseInv
<1>5. UNCHANGED <<content, manifest, sig, pubkey, verifier>>
  BY DEF Sign
<1> QED
  BY <1>1, <1>2, <1>3, <1>4, <1>5, SignerStepKeeps

LEMMA HashFileKeeps == ASSUME ReleaseInv, HashFile PROVE ReleaseInv'
<1> DEFINE f == Artifacts[signer.next]
<1>1. signer.at = "hash" /\ signer.next <= Len(Artifacts) /\ signer \in Signer
  BY DEF HashFile, ReleaseInv, ReleaseTypeOK
<1>2. f \in Paths /\ content[f] \in Digests
  BY <1>1, FilesAreListed DEF Signer, ReleaseInv, ReleaseTypeOK, Sums
<1> HIDE DEF f
<1> DEFINE d == IF f \in Excluded THEN NoFile ELSE content[f]
<1>3. signer' = [signer EXCEPT !.next = @ + 1, !.sums[f] = d] /\ d \in Digests
  BY <1>2 DEF HashFile, f, Digests
<1> HIDE DEF d
<1>4. signer' \in Signer /\ signer'.at = "hash"
  <2> DEFINE sums == [signer.sums EXCEPT ![f] = d]  n == signer.next + 1
  <2>1. sums \in Sums
    BY <1>1, <1>2, <1>3 DEF Signer, Sums
  <2>2. n \in Nat \ {0}
    BY <1>1 DEF Signer
  <2>3. signer' = [signer EXCEPT !.next = n, !.sums = sums]
    BY <1>1, <1>3 DEF Signer
  <2> HIDE DEF sums, n
  <2> QED
    BY <1>1, <2>1, <2>2, <2>3 DEF Signer
<1>5. UNCHANGED <<content, manifest, sig, pubkey, verifier, spent>>
  BY DEF HashFile
<1>6. SignerReady'
  BY <1>4 DEF SignerReady
<1>7. spent' \in [changes : 0..MaxChanges, calls : 0..MaxCalls]
  BY <1>5 DEF ReleaseInv, ReleaseTypeOK
<1> QED
  BY <1>4, <1>5, <1>6, <1>7, SignerStepKeeps

LEMMA TruncateManifestKeeps == ASSUME ReleaseInv, TruncateManifest PROVE ReleaseInv'
<1>1. verifier' \in Verifier /\ VerifierExact'
  BY DisturbingKeeps DEF ReleaseInv, ReleaseTypeOK, TruncateManifest
<1>2. signer \in Signer /\ signer' = [signer EXCEPT !.at = "write"] /\ manifest' = Empty
      /\ UNCHANGED <<content, sig, pubkey, spent>>
  BY DEF ReleaseInv, ReleaseTypeOK, TruncateManifest
<1>3. signer' \in Signer /\ signer'.at = "write"
  BY <1>2 DEF Signer
<1>4. manifest' \in Sums
  BY <1>2, NothingRuns
<1>5. ReleaseTypeOK'
  BY <1>1, <1>2, <1>3, <1>4 DEF ReleaseInv, ReleaseTypeOK
<1>6. SignerReady'
  BY <1>3, <1>4 DEF SignerReady
<1> QED
  BY <1>1, <1>5, <1>6 DEF ReleaseInv

LEMMA WriteManifestKeeps == ASSUME ReleaseInv, WriteManifest PROVE ReleaseInv'
<1>1. verifier' \in Verifier /\ VerifierExact'
  BY DisturbingKeeps DEF ReleaseInv, ReleaseTypeOK, WriteManifest
<1>2. signer \in Signer /\ manifest' = signer.sums /\ UNCHANGED <<content, sig, pubkey, spent>>
      /\ signer' = IF signer.key = NoKey THEN NoSigner ELSE [signer EXCEPT !.at = "sign"]
  BY DEF ReleaseInv, ReleaseTypeOK, WriteManifest
<1>3. manifest' \in Sums
  BY <1>2 DEF Signer
<1>4. signer' \in Signer /\ (signer'.at = "sign" => signer'.key # NoKey)
      /\ signer'.at \in {"idle", "sign"}
  <2>1. CASE signer.key = NoKey
    BY <1>2, <2>1, NothingRuns DEF NoSigner
  <2>2. CASE signer.key # NoKey
    BY <1>2, <2>2 DEF Signer
  <2> QED
    BY <2>1, <2>2
<1>5. ReleaseTypeOK'
  BY <1>1, <1>2, <1>3, <1>4 DEF ReleaseInv, ReleaseTypeOK
<1>6. SignerReady'
  BY <1>3, <1>4 DEF SignerReady
<1> QED
  BY <1>1, <1>5, <1>6 DEF ReleaseInv

LEMMA SignManifestKeeps == ASSUME ReleaseInv, SignManifest PROVE ReleaseInv'
<1>1. verifier' \in Verifier /\ VerifierExact'
  BY DisturbingKeeps DEF ReleaseInv, ReleaseTypeOK, SignManifest
<1>2. signer \in Signer /\ signer.at = "sign" /\ sig' = [key |-> signer.key, of |-> manifest]
      /\ UNCHANGED <<content, manifest, pubkey, spent>>
      /\ signer' = IF signer.ships THEN [signer EXCEPT !.at = "ship"] ELSE NoSigner
  BY DEF ReleaseInv, ReleaseTypeOK, SignManifest
<1>3. manifest \in Sums /\ signer.key # NoKey
  BY <1>2 DEF ReleaseInv, SignerReady
<1>4. sig' \in [key : Keys, of : Sums]
  <2>1. signer.key \in Keys
    BY <1>2, <1>3 DEF Signer
  <2> QED
    BY <1>2, <1>3, <2>1
<1>5. signer' \in Signer /\ (signer'.at = "ship" => signer'.key # NoKey)
      /\ signer'.at \in {"idle", "ship"}
  <2>1. CASE signer.ships
    BY <1>2, <1>3, <2>1 DEF Signer
  <2>2. CASE ~ signer.ships
    BY <1>2, <2>2, NothingRuns DEF NoSigner
  <2> QED
    BY <2>1, <2>2
<1>6. ReleaseTypeOK'
  BY <1>1, <1>2, <1>4, <1>5 DEF ReleaseInv, ReleaseTypeOK
<1>7. SignerReady'
  BY <1>2, <1>3, <1>5 DEF SignerReady
<1> QED
  BY <1>1, <1>6, <1>7 DEF ReleaseInv

LEMMA ShipKeyKeeps == ASSUME ReleaseInv, ShipKey PROVE ReleaseInv'
<1>1. verifier' \in Verifier /\ VerifierExact'
  BY DisturbingKeeps DEF ReleaseInv, ReleaseTypeOK, ShipKey
<1>2. signer \in Signer /\ signer.at = "ship" /\ pubkey' = signer.key /\ signer' = NoSigner
      /\ UNCHANGED <<content, manifest, sig, spent>>
  BY DEF ReleaseInv, ReleaseTypeOK, ShipKey
<1>3. pubkey' \in Keys
  BY <1>2 DEF ReleaseInv, SignerReady, Signer
<1>4. ReleaseTypeOK'
  BY <1>1, <1>2, <1>3, NothingRuns DEF ReleaseInv, ReleaseTypeOK
<1>5. SignerReady'
  BY <1>2 DEF SignerReady, NoSigner
<1> QED
  BY <1>1, <1>4, <1>5 DEF ReleaseInv

LEMMA SignerDiesKeeps == ASSUME ReleaseInv, SignerDies PROVE ReleaseInv'
<1>1. signer' = NoSigner /\ UNCHANGED <<content, manifest, sig, pubkey, verifier, spent>>
  BY DEF SignerDies
<1>2. SignerReady'
  BY <1>1 DEF SignerReady, NoSigner
<1>3. spent' \in [changes : 0..MaxChanges, calls : 0..MaxCalls]
  BY <1>1 DEF ReleaseInv, ReleaseTypeOK
<1> QED
  BY <1>1, <1>2, <1>3, NothingRuns, SignerStepKeeps

(* Of a step of the verifier, which writes nothing, its record is left.    *)
LEMMA VerifierStepKeeps ==
  ASSUME ReleaseInv, verifier' \in Verifier, VerifierExact',
         UNCHANGED <<content, manifest, sig, pubkey, signer>>,
         spent' \in [changes : 0..MaxChanges, calls : 0..MaxCalls]
  PROVE  ReleaseInv'
<1>1. SignerReady'
  BY DEF ReleaseInv, SignerReady
<1>2. ReleaseTypeOK'
  BY DEF ReleaseInv, ReleaseTypeOK
<1> QED
  BY <1>1, <1>2 DEF ReleaseInv

LEMMA VerifyKeeps ==
  ASSUME ReleaseInv, NEW key \in Keys \cup {NoKey}, Verify(key)
  PROVE  ReleaseInv'
<1> DEFINE v == [at |-> "check", next |-> 1, expected |-> manifest, good |-> TRUE,
                 key |-> key, ok |-> FALSE, signature_ok |-> "None", disturbed |-> FALSE]
<1>1. verifier' = v /\ manifest \in Sums
  BY DEF Verify, ReleaseInv, ReleaseTypeOK
<1>2. v \in Verifier
  <2> DEFINE A == {"idle", "check", "done"}  K == Keys \cup {NoKey}
             N == Nat \ {0}  S == {"None", "True", "False"}
  <2>1. "check" \in A /\ key \in K /\ manifest \in Sums /\ 1 \in N /\ "None" \in S
    BY <1>1
  <2>2. Verifier = [at : A, next : N, expected : Sums, good : BOOLEAN, key : K,
                    ok : BOOLEAN, signature_ok : S, disturbed : BOOLEAN]
    BY DEF Verifier
  <2> HIDE DEF A, K, N, S
  <2> QED
    BY <2>1, <2>2
<1>3. UNCHANGED <<content, manifest, sig, pubkey, signer>>
  BY DEF Verify
<1>4. VerifierExact'
  <2>1. v.at = "check" /\ v.next = 1 /\ v.expected = manifest /\ v.good = TRUE
    OBVIOUS
  <2>2. PassedAreListed'
    BY <1>1, <2>1 DEF PassedAreListed
  <2> QED
    BY <1>1, <1>3, <2>1, <2>2, FilesAreListed DEF VerifierExact
<1>5. spent' \in [changes : 0..MaxChanges, calls : 0..MaxCalls]
  BY CallIsCounted DEF Verify, ReleaseInv
<1> QED
  BY <1>1, <1>2, <1>3, <1>4, <1>5, VerifierStepKeeps

LEMMA CheckFileKeeps == ASSUME ReleaseInv, CheckFile PROVE ReleaseInv'
<1> DEFINE f == Artifacts[verifier.next]  same == f \in Excluded \/ verifier.expected[f] = content[f]
<1>1. verifier \in Verifier /\ verifier.at = "check" /\ verifier.next <= Len(Artifacts)
  BY DEF CheckFile, ReleaseInv, ReleaseTypeOK
<1>2. verifier' = [verifier EXCEPT !.next = @ + 1, !.good = verifier.good /\ same]
  BY DEF CheckFile
<1>3. UNCHANGED <<content, manifest, sig, pubkey, signer, spent>>
  BY DEF CheckFile
<1>4. PICK g \in BOOLEAN : g = (verifier.good /\ same)
  OBVIOUS
<1>5. verifier' = [verifier EXCEPT !.next = @ + 1, !.good = g]
  BY <1>2, <1>4
<1>6. /\ verifier' \in Verifier
      /\ verifier'.at = "check" /\ verifier'.next = verifier.next + 1 /\ verifier'.good = g
      /\ verifier'.expected = verifier.expected
      /\ verifier'.disturbed = verifier.disturbed
  <2> DEFINE n == verifier.next + 1
  <2>1. n \in Nat \ {0}
    BY <1>1 DEF Verifier
  <2>2. verifier' = [verifier EXCEPT !.next = n, !.good = g]
    BY <1>1, <1>5 DEF Verifier
  <2> HIDE DEF n
  <2>3. verifier' \in Verifier
    BY <1>1, <2>1, <2>2 DEF Verifier
  <2>4. /\ verifier'.at = "check" /\ verifier'.next = n /\ verifier'.good = g
        /\ verifier'.expected = verifier.expected
        /\ verifier'.disturbed = verifier.disturbed
    BY <1>1, <2>2 DEF Verifier
  <2> QED
    BY <2>3, <2>4 DEF n
<1>7. VerifierExact'
  <2> SUFFICES ASSUME verifier'.disturbed = FALSE PROVE VerifierExact'
    BY DEF VerifierExact
  <2>1. /\ manifest \in Sums /\ verifier.expected = manifest
        /\ verifier.good <=> PassedAreListed
    BY <1>1, <1>6 DEF ReleaseInv, VerifierExact
  <2>2. PassedAreListed' <=> PassedAreListed /\ same
    <3>1. verifier.next \in Nat \ {0}
      BY <1>1 DEF Verifier
    <3>2. 1..(verifier'.next - 1) = 1..(verifier.next - 1) \cup {verifier.next}
      BY <1>6, <3>1
    <3> QED
      BY <1>3, <2>1, <3>2 DEF PassedAreListed
  <2>3. verifier'.good <=> PassedAreListed'
    BY <1>4, <1>6, <2>1, <2>2
  <2>4. verifier'.next <= Len(Artifacts) + 1
    BY <1>1, <1>6, FilesAreListed DEF Verifier
  <2> QED
    BY <1>3, <1>6, <2>1, <2>3, <2>4 DEF VerifierExact
<1>8. spent' \in [changes : 0..MaxChanges, calls : 0..MaxCalls]
  BY <1>3 DEF ReleaseInv, ReleaseTypeOK
<1> QED
  BY <1>3, <1>6, <1>7, <1>8, VerifierStepKeeps

(* The comparison of verify_signature is that of the whole record.         *)
LEMMA CheckSignatureKeeps == ASSUME ReleaseInv, CheckSignature PROVE ReleaseInv'
<1> DEFINE valid == Anchor # NoKey /\ sig # NoFile /\ sig.key = Anchor /\ sig.of = manifest
           told == IF sig = NoFile THEN "None" ELSE IF valid THEN "True" ELSE "False"
<1>1. verifier \in Verifier /\ verifier.at = "check" /\ verifier.next > Len(Artifacts)
  BY DEF CheckSignature, ReleaseInv, ReleaseTypeOK
<1>2. verifier' = [verifier EXCEPT !.at = "done", !.ok = verifier.good /\ (sig # NoFile => valid),
                                   !.signature_ok = told]
  BY DEF CheckSignature
<1>3. UNCHANGED <<content, manifest, sig, pubkey, signer, spent>>
  BY DEF CheckSignature
<1>4. (sig # NoFile => valid) <=> SignatureHolds
  <2> SUFFICES ASSUME sig # NoFile PROVE valid <=> sig = [key |-> Anchor, of |-> manifest]
    BY DEF SignatureHolds
  <2>1. sig \in [key : Keys, of : Sums] /\ sig.key # NoKey
    BY ReleaseAssumption DEF ReleaseInv, ReleaseTypeOK
  <2>2. sig = [key |-> sig.key, of |-> sig.of]
    BY <2>1
  <2> HIDE DEF Anchor
  <2> QED
    BY <2>1, <2>2
<1>5. PICK o \in BOOLEAN : o = (verifier.good /\ (sig # NoFile => valid))
  OBVIOUS
<1>6. told \in {"None", "True", "False"}
  OBVIOUS
<1> HIDE DEF valid, told
<1>7. verifier' = [verifier EXCEPT !.at = "done", !.ok = o, !.signature_ok = told]
  BY <1>2, <1>5
<1>8. /\ verifier' \in Verifier
      /\ verifier'.at = "done" /\ verifier'.next = verifier.next /\ verifier'.ok = o
      /\ verifier'.good = verifier.good /\ verifier'.expected = verifier.expected
      /\ verifier'.disturbed = verifier.disturbed /\ verifier'.key = verifier.key
  BY <1>1, <1>6, <1>7 DEF Verifier
<1>9. VerifierExact'
  <2> SUFFICES ASSUME verifier'.disturbed = FALSE PROVE VerifierExact'
    BY DEF VerifierExact
  <2>1. /\ manifest \in Sums /\ verifier.expected = manifest
        /\ verifier.next <= Len(Artifacts) + 1
        /\ verifier.good <=> PassedAreListed
    BY <1>1, <1>8 DEF ReleaseInv, VerifierExact
  <2>2. PassedAreListed' <=> PassedAreListed
    BY <1>3, <1>8 DEF PassedAreListed
  <2>3. SignatureHolds' <=> SignatureHolds
    BY <1>3, <1>8 DEF SignatureHolds, Anchor
  <2>4. verifier.next = Len(Artifacts) + 1
    BY <1>1, <2>1, FilesAreListed DEF Verifier
  <2>5. verifier'.good <=> PassedAreListed'
    BY <1>8, <2>1, <2>2
  <2>6. verifier'.ok <=> verifier'.good /\ SignatureHolds'
    BY <1>4, <1>5, <1>8, <2>3
  <2> QED
    BY <1>3, <1>8, <2>1, <2>4, <2>5, <2>6 DEF VerifierExact
<1>10. spent' \in [changes : 0..MaxChanges, calls : 0..MaxCalls]
  BY <1>3 DEF ReleaseInv, ReleaseTypeOK
<1> QED
  BY <1>3, <1>8, <1>9, <1>10, VerifierStepKeeps

LEMMA ReleaseStepKeeps == ReleaseInv /\ [ReleaseNext]_releaseVars => ReleaseInv'
<1> SUFFICES ASSUME ReleaseInv, [ReleaseNext]_releaseVars PROVE ReleaseInv'
  OBVIOUS
<1>1. CASE UNCHANGED releaseVars
  <2>1. /\ UNCHANGED <<content, manifest, sig, pubkey, verifier>>
        /\ signer' = signer /\ spent' = spent
    BY <1>1 DEF releaseVars
  <2>2. SignerReady'
    BY <2>1 DEF ReleaseInv, SignerReady
  <2>3. signer' \in Signer /\ spent' \in [changes : 0..MaxChanges, calls : 0..MaxCalls]
    BY <2>1 DEF ReleaseInv, ReleaseTypeOK
  <2> QED
    BY <2>1, <2>2, <2>3, SignerStepKeeps
<1>2. ASSUME NEW f \in Paths, NEW c \in Digests, Change(f, c) PROVE ReleaseInv'
  BY <1>2, ChangeKeeps
<1>3. ASSUME NEW key \in Keys \cup {NoKey}, NEW ships \in BOOLEAN, Sign(key, ships)
      PROVE  ReleaseInv'
  BY <1>3, SignKeeps
<1>4. CASE HashFile
  BY <1>4, HashFileKeeps
<1>5. CASE TruncateManifest
  BY <1>5, TruncateManifestKeeps
<1>6. CASE WriteManifest
  BY <1>6, WriteManifestKeeps
<1>7. CASE SignManifest
  BY <1>7, SignManifestKeeps
<1>8. CASE ShipKey
  BY <1>8, ShipKeyKeeps
<1>9. CASE SignerDies
  BY <1>9, SignerDiesKeeps
<1>10. ASSUME NEW key \in Keys \cup {NoKey}, Verify(key) PROVE ReleaseInv'
  BY <1>10, VerifyKeeps
<1>11. CASE CheckFile
  BY <1>11, CheckFileKeeps
<1>12. CASE CheckSignature
  BY <1>12, CheckSignatureKeeps
<1> QED
  BY <1>1, <1>2, <1>3, <1>4, <1>5, <1>6, <1>7, <1>8, <1>9, <1>10, <1>11, <1>12
  DEF ReleaseNext

(* The invariant holds at every step of a bundle's life.                   *)
THEOREM ReleaseInvariant == ReleaseSpec => []ReleaseInv
<1> QED
  BY ReleaseInitial, ReleaseStepKeeps, PTL DEF ReleaseSpec

(* A verification during which the bundle stood still says ok exactly if   *)
(* every file but those with an excluded name is what the manifest says,   *)
(* none of them is missing or new, and a signature is by the expected key  *)
(* over that manifest (verify_bundle): for every sequence of files, every  *)
(* choice of the excluded ones, every set of keys and every number of      *)
(* edits and of half-done signatures before it.                            *)
THEOREM VerdictsAreExact == ReleaseSpec => []VerdictIsExact
<1>1. ASSUME ReleaseInv PROVE VerdictIsExact
  <2> SUFFICES ASSUME verifier.at = "done", ~ verifier.disturbed
               PROVE  verifier.ok <=>
                        /\ \A f \in Paths \ Excluded : manifest[f] = content[f]
                        /\ sig # NoFile => sig = [key |-> Anchor, of |-> manifest]
    BY DEF VerdictIsExact
  <2>1. verifier \in Verifier /\ content \in Sums
    BY <1>1 DEF ReleaseInv, ReleaseTypeOK
  <2>2. verifier.disturbed = FALSE
    BY <2>1 DEF Verifier
  <2>3. /\ manifest \in Sums /\ verifier.next = Len(Artifacts) + 1
        /\ verifier.good <=> PassedAreListed
        /\ verifier.ok <=> verifier.good /\ SignatureHolds
    BY <1>1, <2>2 DEF ReleaseInv, VerifierExact
  <2>4. PassedAreListed <=> \A f \in Paths \ Excluded : manifest[f] = content[f]
    <3>1. verifier.next - 1 = Len(Artifacts)
      BY <2>3, FilesAreListed
    <3> QED
      BY <3>1, FilesAreListed DEF PassedAreListed
  <2> QED
    BY <2>3, <2>4 DEF SignatureHolds
<1> QED
  BY <1>1, ReleaseInvariant, PTL

=============================================================================
