------------------------------- MODULE Access -------------------------------
(***************************************************************************)
(* deye.backend AuthStore, RBAC and Lifecycle over the rows they guard:    *)
(* users and sessions with their expiry, the role matrix, the filter that  *)
(* scope_query() gives a role, the tenant-wide export and deletion.        *)
(* Clients (external) use them the way they are meant to be combined: they *)
(* present a token, are authorised, and act.  Statements are atomic, and   *)
(* time passes and tokens are revoked between them.                        *)
(***************************************************************************)
EXTENDS Naturals, Sequences, FiniteSets

CONSTANTS
    Clients, Tokens, UserNames, Tenants,
    Nobody,         \* no row, no user
    Ttl,            \* lifetime of a token
    LastInstant, MaxUsers, MaxRows

ASSUME AccessAssumption ==
    /\ Ttl \in Nat /\ LastInstant \in Nat /\ MaxUsers \in Nat
    /\ Nobody \notin Tenants

VARIABLES
    users,          \* table users: a sequence, AUTOINCREMENT ids are its indices
    sessions,       \* table sessions: sessions[token], or Nobody
    rows,           \* evidence packets and queue jobs, with their tenant
    instant,        \* the clock
    client,         \* client[c]: the request c is in
    dead            \* history: tokens that were revoked or ran out

accessVars == <<users, sessions, rows, instant, client, dead>>

ROLES == {"owner", "user", "service"}
User == [name : UserNames, role : ROLES, tenant : Tenants]
Expiry == 0..(LastInstant + Ttl)
Session == [user : 1..MaxUsers, expires : Expiry]
StoredRow == [kind : {"packet", "job"}, tenant : Tenants]
Answers == {"read", "deleted", "exported"}

(* A request: the token it presents, the row that was found for it, the    *)
(* principal it resolved to and the answer.                                *)
Request == [at : {"idle", "found", "resolved"} \cup Answers, token : Tokens \cup {Nobody},
            row : {Nobody} \cup [expires : Expiry, id : 1..MaxUsers],
            who : {Nobody} \cup User, answer : SUBSET StoredRow, late : BOOLEAN]
NoRequest == [at |-> "idle", token |-> Nobody, row |-> Nobody, who |-> Nobody,
         answer |-> {}, late |-> FALSE]

(* _DEFAULT_MATRIX, RBAC.allows.                                           *)
Matrix == [owner |-> {"read", "create", "update", "delete", "export", "admin"},
           user |-> {"read", "create", "update", "delete", "export"},
           service |-> {"read"}]
Allows(role, action) == role \in DOMAIN Matrix /\ action \in Matrix[role]

(* RBAC.scope_query; Nobody is the empty filter.  (Its docstring lets a    *)
(* service see everything; the code and test_backend.py do not.)           *)
ScopeQuery(role, tenant) == IF role = "owner" THEN Nobody ELSE tenant
InScope(r, filter) == filter = Nobody \/ r.tenant = filter

AccessInit ==
    /\ users = <<>>
    /\ sessions = [t \in Tokens |-> Nobody]
    /\ rows = {}
    /\ instant = 0
    /\ client = [c \in Clients |-> NoRequest]
    /\ dead = {}

(* username is UNIQUE: a second INSERT raises.                             *)
CreateUser(name, role, tenant) ==
    /\ Len(users) < MaxUsers
    /\ \A i \in DOMAIN users : users[i].name # name
    /\ users' = Append(users, [name |-> name, role |-> role, tenant |-> tenant])
    /\ UNCHANGED <<sessions, rows, instant, client, dead>>

(* issue_token() stores a fresh random token for any id: it does not look  *)
(* whether there is, or yet is, such a user.                               *)
IssueToken(t, user) ==
    /\ sessions[t] = Nobody /\ t \notin dead
    /\ sessions' = [sessions EXCEPT ![t] = [user |-> user, expires |-> instant + Ttl]]
    /\ UNCHANGED <<users, rows, instant, client, dead>>

RevokeToken(t) ==
    /\ sessions[t] # Nobody
    /\ sessions' = [sessions EXCEPT ![t] = Nobody]
    /\ dead' = dead \cup {t}
    /\ UNCHANGED <<users, rows, instant, client>>

(* resolve_token: the SELECT, a JOIN of sessions and users ...             *)
Present(c, t) ==
    /\ client[c].at = "idle"
    /\ LET s == sessions[t] IN
        client' = [client EXCEPT ![c] =
          IF s = Nobody \/ s.user \notin DOMAIN users
          THEN [at |-> "idle", token |-> t, row |-> Nobody, who |-> Nobody,
                answer |-> {}, late |-> FALSE]
          ELSE [at |-> "found", token |-> t, row |-> [expires |-> s.expires, id |-> s.user],
                who |-> Nobody, answer |-> {}, late |-> t \in dead]]
    /\ UNCHANGED <<users, sessions, rows, instant, dead>>

(* Faulty variant: the expiry is only used to clean up.                    *)
ResolveUnexpired(c) ==
    /\ client[c].at = "found"
    /\ client' = [client EXCEPT ![c].at = "resolved", ![c].who = users[client[c].row.id]]
    /\ UNCHANGED <<users, sessions, rows, instant, dead>>

(* ... then the comparison of its expires_at with the clock.               *)
Resolve(c) ==
    /\ client[c].at = "found"
    /\ client' = IF instant > client[c].row.expires THEN [client EXCEPT ![c] = NoRequest]
                 ELSE [client EXCEPT ![c].at = "resolved", ![c].who = users[client[c].row.id]]
    /\ UNCHANGED <<users, sessions, rows, instant, dead>>

(* RBAC.require, or PermissionError.                                       *)
Authorised(c, action) ==
    client[c].at = "resolved" /\ Allows(client[c].who.role, action)
Refuse(c) ==
    /\ client[c].at = "resolved"
    /\ \E action \in UNION {Matrix[r] : r \in ROLES} : ~ Allows(client[c].who.role, action)
    /\ client' = [client EXCEPT ![c] = NoRequest]
    /\ UNCHANGED <<users, sessions, rows, instant, dead>>

Reply(c, to, result) ==
    client' = [client EXCEPT ![c].at = to, ![c].answer = result]

(* EvidenceStore.query with the filter of the role.                        *)
Query(c) ==
    /\ Authorised(c, "read")
    /\ Reply(c, "read", {r \in rows : r.kind = "packet"
                                       /\ InScope(r, ScopeQuery(client[c].who.role, client[c].who.tenant))})
    /\ UNCHANGED <<users, sessions, rows, instant, dead>>

(* Lifecycle.delete_tenant, confirmed: the tenant's jobs, and no evidence. *)
DeleteTenantJobs(c) ==
    /\ Authorised(c, "delete")
    /\ rows' = {r \in rows : r.kind = "job" => r.tenant # client[c].who.tenant}
    /\ Reply(c, "deleted", {})
    /\ UNCHANGED <<users, sessions, instant, dead>>

(* Faulty variant: the jobs are selected as the packets are.               *)
ExportedAll(tenant) == rows

(* Lifecycle.export_tenant: the jobs of the tenant, and every packet of    *)
(* the installation, which it takes to be the tenant's.                    *)
Exported(tenant) == {r \in rows : r.kind = "job" => r.tenant = tenant}
ExportTenant(c) ==
    /\ Authorised(c, "export")
    /\ Reply(c, "exported", Exported(client[c].who.tenant))
    /\ UNCHANGED <<users, sessions, rows, instant, dead>>

Done(c) ==
    /\ client[c].at \in Answers
    /\ client' = [client EXCEPT ![c] = NoRequest]
    /\ UNCHANGED <<users, sessions, rows, instant, dead>>

(* Queue.enqueue, EvidenceStore.record_packet.                             *)
AddRow(kind, tenant) ==
    /\ Cardinality(rows) < MaxRows
    /\ rows' = rows \cup {[kind |-> kind, tenant |-> tenant]}
    /\ UNCHANGED <<users, sessions, instant, client, dead>>

AccessTick ==
    /\ instant < LastInstant
    /\ instant' = instant + 1
    /\ dead' = dead \cup {t \in Tokens : sessions[t] # Nobody /\ instant' > sessions[t].expires}
    /\ UNCHANGED <<users, sessions, rows, client>>

AccessNext ==
    \/ \E name \in UserNames, role \in ROLES, tenant \in Tenants : CreateUser(name, role, tenant)
    \/ \E t \in Tokens : RevokeToken(t) \/ \E user \in 1..MaxUsers : IssueToken(t, user)
    \/ \E c \in Clients :
        \/ \E t \in Tokens : Present(c, t)
        \/ Resolve(c) \/ Refuse(c) \/ Query(c) \/ DeleteTenantJobs(c) \/ ExportTenant(c) \/ Done(c)
    \/ \E kind \in {"packet", "job"}, tenant \in Tenants : AddRow(kind, tenant)
    \/ AccessTick

AccessSpec == AccessInit /\ [][AccessNext]_accessVars

----------------------------------------------------------------------------
(* The tables, the clock and the requests of the clients.                  *)
AccessTypeOK ==
    /\ users \in Seq(User) /\ Len(users) <= MaxUsers
    /\ sessions \in [Tokens -> {Nobody} \cup Session]
    /\ rows \subseteq StoredRow
    /\ instant \in 0..LastInstant /\ dead \subseteq Tokens
    /\ client \in [Clients -> Request]

(* A token that was revoked or has run out resolves to nobody, for good: a *)
(* request that presents it afterwards gets no principal.  A request that  *)
(* had passed the check before is not called back.                         *)
DeadTokensStayDead ==
    \A c \in Clients : client[c].late => client[c].at \notin {"resolved"} \cup Answers

(* "user sees rows scoped to their tenant" (scope_query): whatever is done *)
(* to tables and tokens meanwhile, and whoever's id a token was issued for *)
(* before there was such a user, an answer to a `user` holds rows of one   *)
(* tenant, that of the user whose id the token carries.  (Of an export     *)
(* this is true of the jobs: its evidence part is every packet of the      *)
(* installation.)                                                          *)
AnswersScoped ==
    \A c \in Clients : client[c].at \in Answers /\ client[c].who.role = "user" =>
        \A r \in client[c].answer :
            \/ r.tenant = users[client[c].row.id].tenant
            \/ r.kind = "packet" /\ client[c].at = "exported"
=============================================================================
