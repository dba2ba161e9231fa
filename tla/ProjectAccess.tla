--------------------------- MODULE ProjectAccess ---------------------------
(***************************************************************************)
(* Who may send requests for a project: the membership, the API keys, the  *)
(* OAuth grant and the access token of one user in one project, the        *)
(* handlers of the admin API that change them, and the authentication of   *)
(* the proxy, which caches what it has read.                               *)
(*                                                                         *)
(* A handler of the admin API reads, checks and then writes in another     *)
(* statement: what it has checked may be gone by then.  The proxy reads    *)
(* key, project, caches and member row one after the other.  A step is one *)
(* statement, one call of Hydra, or one visit of the caches.               *)
(***************************************************************************)
EXTENDS Integers, FiniteSets

CONSTANTS
  Key,          \* API keys the user may create
  Session,      \* handlers of the admin API that run at the same time
  Request,      \* requests of the user that are authenticated at the same time
  Role,         \* roles that are given
  Budget        \* bound on the handlers of the admin API that run

ASSUME RoleAssumption   == "developer" \in Role /\ Role \subseteq {"owner", "maintainer", "developer"}
ASSUME BudgetAssumption == Budget \in Nat

VARIABLES
  project,      \* projects.status
  member,       \* the row of project_members, or Absent
  key,          \* the rows of api_keys
  grant,        \* there is a row of oauth_grants
  token,        \* the access token, as Hydra knows it
  op,           \* the handlers of the admin API
  req,          \* the requests in AuthMiddleware
  cache,        \* the caches of the proxy
  left          \* what is left of Budget

rows == <<project, member, key, grant, token>>
vars == <<rows, op, req, cache, left>>

----------------------------------------------------------------------------
(* State.                                                                  *)

Quota  == {"none", "low"}
Denied == {"no", "yes"}
Member == [role : Role, quota : Quota, denied : Denied]
Absent == [role |-> "absent", quota |-> "none", denied |-> "no"]

KeyRow == [status : {"none", "active", "disabled", "revoked"}, deleted : BOOLEAN]

\* The fields of a PATCH: "keep" where the body leaves one out.
Patch    == [role : Role \cup {"keep"}, quota : Quota \cup {"keep"}, denied : Denied \cup {"keep"}]
NoPatch  == [role |-> "keep", quota |-> "keep", denied |-> "keep"]

\* A handler of the admin API, named for the step it takes next.  keys: the
\* key it works on, or those the removal has revoked and not committed yet.
Op   == [at : {"idle", "update", "invalidate", "quota", "removal", "consents", "insert",
               "setkey", "delkey", "revoke", "drop", "issue", "unarchive"},
         patch : Patch, keys : SUBSET Key, status : {"active", "disabled", "revoked"}]
NoOp == [at |-> "idle", patch |-> NoPatch, keys |-> {}, status |-> "active"]

\* "miss": not in the cache, or too old.
Cache   == [present : {"miss", "yes", "no"}, quota : Quota \cup {"miss"},
            denied : Denied \cup {"miss"}, token : {"miss", "live", "dead"}]
NoCache == [present |-> "miss", quota |-> "miss", denied |-> "miss", token |-> "miss"]

\* A request: by what it is authenticated, the facts it has of the caches or
\* of the row, and the row it has read.
Via   == Key \cup {"token"}
Req   == [at : {"idle", "project", "caches", "load", "fill", "admitted"}, via : Via,
          quota : Quota \cup {"miss"}, denied : Denied \cup {"miss"}, row : Member \cup {Absent}]
Idle  == [at |-> "idle", via |-> "token", quota |-> "miss", denied |-> "miss", row |-> Absent]

\* A new member, who has keys or has none.
Init ==
  /\ project = "active"
  /\ member = [role |-> "developer", quota |-> "none", denied |-> "no"]
  /\ key \in [Key -> {[status |-> st, deleted |-> FALSE] : st \in {"none", "active"}}]
  /\ grant = FALSE /\ token = "none"
  /\ op = [s \in Session |-> NoOp]
  /\ req = [r \in Request |-> Idle]
  /\ cache = NoCache
  /\ left = Budget

Done(s) == op' = [op EXCEPT ![s] = NoOp]

\* A handler starts; its first statement is part of the action that says so.
Start(s, o) ==
  /\ op[s] = NoOp /\ left > 0
  /\ left' = left - 1
  /\ op' = [op EXCEPT ![s] = o]

Put(r, request) == req' = [req EXCEPT ![r] = request]

----------------------------------------------------------------------------
(* The member: handleAddMember, handleUpdateMember, handleRemoveMember.    *)

\* An owner and a superadmin may set every quota, a maintainer those of
\* maintainers and developers.
CanSetMemberQuota(caller, role) == caller = "owner" \/ role # "owner"

\* INSERT ... ON CONFLICT DO UPDATE SET role: the rest of a row stays.
AddProjectMember(role) ==
  member' = IF member = Absent THEN [role |-> role, quota |-> "none", denied |-> "no"]
            ELSE [member EXCEPT !.role = role]

AddMember(s, caller, role, quota) ==
  /\ quota # "keep" => CanSetMemberQuota(caller, role)
  /\ Start(s, IF quota = "keep" THEN NoOp
              ELSE [NoOp EXCEPT !.at = "quota", !.patch = [NoPatch EXCEPT !.quota = quota]])
  /\ AddProjectMember(role)
  /\ UNCHANGED <<project, key, grant, token, req, cache>>

\* Fault: the row is written although there is none.
UpdateProjectMemberBlind(p) ==
  member' = [role   |-> IF p.role = "keep" THEN member.role ELSE p.role,
             quota  |-> IF p.quota = "keep" THEN member.quota ELSE p.quota,
             denied |-> IF p.denied = "keep" THEN member.denied ELSE p.denied]

\* UPDATE project_members: one that becomes an owner loses the quota, and no
\* row is updated where there is none.
UpdateProjectMember(p) ==
  member' = IF member = Absent THEN Absent
            ELSE [role   |-> IF p.role = "keep" THEN member.role ELSE p.role,
                  quota  |-> IF p.role = "owner" THEN "none"
                             ELSE IF p.quota = "keep" THEN member.quota ELSE p.quota,
                  denied |-> IF p.denied = "keep" THEN member.denied ELSE p.denied]

AddMemberQuota(s) ==
  /\ op[s].at = "quota"
  /\ UpdateProjectMember(op[s].patch)
  /\ Done(s)
  /\ UNCHANGED <<project, key, grant, token, req, cache, left>>

\* The permission is that of the row as it is read here.
UpdateMemberRead(s, caller, p) ==
  /\ p # NoPatch /\ member # Absent
  /\ p.quota # "keep" => CanSetMemberQuota(caller, member.role)
  /\ Start(s, [NoOp EXCEPT !.at = "update", !.patch = p])
  /\ UNCHANGED <<rows, req, cache>>

UpdateMemberWrite(s) ==
  /\ op[s].at = "update"
  /\ UpdateProjectMember(op[s].patch)
  /\ op' = [op EXCEPT ![s] = IF op[s].patch.denied = "keep" THEN NoOp
                              ELSE [NoOp EXCEPT !.at = "invalidate"]]
  /\ UNCHANGED <<project, key, grant, token, req, cache, left>>

\* InvalidateDeniedModelsCache, in the process that has served the PATCH.
UpdateMemberInvalidate(s) ==
  /\ op[s].at = "invalidate"
  /\ cache' = [cache EXCEPT !.denied = "miss"]
  /\ Done(s)
  /\ UNCHANGED <<rows, req, left>>

\* Rows a removal has written and not committed: who wants to write them waits.
Locked(k) == \E s \in Session : op[s].at = "removal" /\ k \in op[s].keys

\* The transaction of RemoveProjectMember up to its last statement: what is
\* inserted from now on it does not see.
RemoveMember(s) ==
  /\ \A t \in Session : op[t].at # "removal"
  /\ Start(s, [NoOp EXCEPT !.at = "removal", !.keys = {k \in Key : key[k].status = "active"},
                           !.status = IF grant THEN "active" ELSE "revoked"])
  /\ UNCHANGED <<rows, req, cache>>

RemoveMemberCommit(s) ==
  /\ op[s].at = "removal"
  /\ member' = Absent
  /\ key' = [k \in Key |-> IF k \in op[s].keys THEN [key[k] EXCEPT !.status = "revoked"] ELSE key[k]]
  /\ IF op[s].status = "active"
     THEN grant' = FALSE /\ op' = [op EXCEPT ![s] = [NoOp EXCEPT !.at = "consents"]]
     ELSE UNCHANGED grant /\ Done(s)
  /\ UNCHANGED <<project, token, req, cache, left>>

\* hydra.RevokeConsent; a failure is only logged.
RevokeConsent == token' \in {token} \cup {t \in {"dead"} : token = "live"}

RemoveMemberConsents(s) ==
  /\ op[s].at = "consents"
  /\ RevokeConsent
  /\ Done(s)
  /\ UNCHANGED <<project, member, key, grant, req, cache, left>>

----------------------------------------------------------------------------
(* The keys: handleCreateKey, handleUpdateKey, handleDeleteKey.            *)

\* The user creates a key for himself, which takes a membership.
CreateKey(s, k) ==
  /\ key[k].status = "none" /\ \A t \in Session : k \notin op[t].keys
  /\ member # Absent
  /\ Start(s, [NoOp EXCEPT !.at = "insert", !.keys = {k}])
  /\ UNCHANGED <<rows, req, cache>>

CreateKeyInsert(s) ==
  /\ op[s].at = "insert"
  /\ key' = [k \in Key |-> IF k \in op[s].keys THEN [status |-> "active", deleted |-> FALSE] ELSE key[k]]
  /\ Done(s)
  /\ UNCHANGED <<project, member, grant, token, req, cache, left>>

Listed(k) == key[k].status # "none" /\ ~key[k].deleted

\* An owner or maintainer may change every key, the user his own while he is
\* a member; whether he still is one is not asked of the others.
UpdateKeyRead(s, k, status) ==
  /\ Listed(k)
  /\ Start(s, [NoOp EXCEPT !.at = "setkey", !.keys = {k}, !.status = status])
  /\ UNCHANGED <<rows, req, cache>>

\* UPDATE ... WHERE project_id AND deleted_at IS NULL.
UpdateKeyWrite(s) ==
  /\ op[s].at = "setkey"
  /\ \A k \in op[s].keys : ~Locked(k)
  /\ key' = [k \in Key |-> IF k \in op[s].keys /\ ~key[k].deleted
                           THEN [key[k] EXCEPT !.status = op[s].status] ELSE key[k]]
  /\ Done(s)
  /\ UNCHANGED <<project, member, grant, token, req, cache, left>>

DeleteKeyRead(s, k) ==
  /\ Listed(k) /\ key[k].status = "revoked"
  /\ Start(s, [NoOp EXCEPT !.at = "delkey", !.keys = {k}])
  /\ UNCHANGED <<rows, req, cache>>

\* UPDATE ... SET deleted_at, whatever the status is by now.
DeleteKeyWrite(s) ==
  /\ op[s].at = "delkey"
  /\ \A k \in op[s].keys : ~Locked(k)
  /\ key' = [k \in Key |-> IF k \in op[s].keys THEN [key[k] EXCEPT !.deleted = TRUE] ELSE key[k]]
  /\ Done(s)
  /\ UNCHANGED <<project, member, grant, token, req, cache, left>>

----------------------------------------------------------------------------
(* The grant and the token: the consent page, handleRevokeOAuthGrant.      *)

\* The consent page checks the membership, and then has Hydra issue the token.
Consent(s) ==
  /\ member # Absent /\ token = "none" /\ \A t \in Session : op[t].at # "issue"
  /\ Start(s, [NoOp EXCEPT !.at = "issue"])
  /\ UNCHANGED <<rows, req, cache>>

\* The row of the grant is best effort.
ConsentIssue(s) ==
  /\ op[s].at = "issue"
  /\ token' = "live" /\ grant' \in {grant, TRUE}
  /\ Done(s)
  /\ UNCHANGED <<project, member, key, req, cache, left>>

RevokeGrant(s) ==
  /\ grant
  /\ Start(s, [NoOp EXCEPT !.at = "revoke"])
  /\ UNCHANGED <<rows, req, cache>>

RevokeGrantConsent(s) ==
  /\ op[s].at = "revoke"
  /\ RevokeConsent
  /\ op' = [op EXCEPT ![s].at = "drop"]
  /\ UNCHANGED <<project, member, key, grant, req, cache, left>>

RevokeGrantDelete(s) ==
  /\ op[s].at = "drop"
  /\ grant' = FALSE
  /\ Done(s)
  /\ UNCHANGED <<project, member, key, token, req, cache, left>>

----------------------------------------------------------------------------
(* The project.                                                            *)

ArchiveProject(s) ==
  /\ Start(s, NoOp)
  /\ project' = "archived"
  /\ UNCHANGED <<member, key, grant, token, req, cache>>

UnarchiveProject(s) ==
  /\ project = "archived"
  /\ Start(s, [NoOp EXCEPT !.at = "unarchive"])
  /\ UNCHANGED <<rows, req, cache>>

UnarchiveProjectWrite(s) ==
  /\ op[s].at = "unarchive"
  /\ project' = "active"
  /\ Done(s)
  /\ UNCHANGED <<member, key, grant, token, req, cache, left>>

----------------------------------------------------------------------------
(* AuthMiddleware and handleTokenIntrospectionAuth.                        *)

\* GetAPIKeyByHash does not ask whether the key is deleted.
ByKey(r, k) ==
  /\ req[r] = Idle
  /\ key[k].status = "active"
  /\ Put(r, [Idle EXCEPT !.at = "project", !.via = k])
  /\ UNCHANGED <<rows, op, cache, left>>

\* What Hydra says is cached, be it yes or no.
ByToken(r) ==
  /\ req[r] = Idle /\ token # "none"
  /\ LET known == IF cache.token = "miss" THEN token ELSE cache.token
     IN  /\ cache' = [cache EXCEPT !.token = known]
         /\ Put(r, IF known = "live" THEN [Idle EXCEPT !.at = "project"] ELSE Idle)
  /\ UNCHANGED <<rows, op, left>>

CheckProject(r) ==
  /\ req[r].at = "project"
  /\ Put(r, IF project = "active" THEN [req[r] EXCEPT !.at = "caches"] ELSE Idle)
  /\ UNCHANGED <<rows, op, cache, left>>

\* Fault: what is missing is loaded when the membership is.
NeedsMemberPresence(r) == cache.present = "miss"

\* One of the three is missing: the row has all.
NeedsMember(r) == "miss" \in {cache.present, cache.quota, cache.denied}

ReadCaches(r) ==
  /\ req[r].at = "caches"
  /\ Put(r, IF NeedsMember(r)
            THEN [req[r] EXCEPT !.at = "load", !.quota = cache.quota, !.denied = cache.denied]
            ELSE IF cache.present = "yes"
            THEN [req[r] EXCEPT !.at = "admitted", !.quota = cache.quota, !.denied = cache.denied]
            ELSE Idle)
  /\ UNCHANGED <<rows, op, cache, left>>

\* Fault: the request is let through when the row cannot be read.
LoadMemberOpen(r) ==
  /\ req[r].at = "load"
  /\ \/ Put(r, [req[r] EXCEPT !.at = "fill", !.row = member])
     \/ Put(r, [req[r] EXCEPT !.at = "admitted"])
  /\ UNCHANGED <<rows, op, cache, left>>

\* GetProjectMember: a failure is answered with 503 and not cached.
LoadMember(r) ==
  /\ req[r].at = "load"
  /\ Put(r, [req[r] EXCEPT !.at = "fill", !.row = member]) \/ Put(r, Idle)
  /\ UNCHANGED <<rows, op, cache, left>>

\* The membership is cached again, the others where they were missing.
FillCaches(r) ==
  /\ req[r].at = "fill"
  /\ LET row    == req[r].row
         quota  == IF req[r].quota = "miss" THEN row.quota ELSE req[r].quota
         denied == IF req[r].denied = "miss" THEN row.denied ELSE req[r].denied
     IN  /\ cache' = [cache EXCEPT !.present = IF row = Absent THEN "no" ELSE "yes",
                                   !.quota   = IF req[r].quota = "miss" THEN quota ELSE @,
                                   !.denied  = IF req[r].denied = "miss" THEN denied ELSE @]
         /\ Put(r, IF row = Absent THEN Idle
                   ELSE [req[r] EXCEPT !.at = "admitted", !.quota = quota, !.denied = denied,
                                       !.row = Absent])
  /\ UNCHANGED <<rows, op, left>>

\* The request goes on to the rate limiter; what it carries is not read again.
Leave(r) ==
  /\ req[r].at = "admitted"
  /\ Put(r, Idle)
  /\ UNCHANGED <<rows, op, cache, left>>

\* memberPresentCacheTTL, deniedModelsCacheTTL, introspectCacheTTL, quotaCache.
Expire(f) ==
  /\ cache[f] # "miss"
  /\ cache' = [cache EXCEPT ![f] = "miss"]
  /\ UNCHANGED <<rows, op, req, left>>

----------------------------------------------------------------------------
Starts(s) ==
  \/ \E caller \in {"owner", "maintainer"} :
       \/ \E role \in Role, quota \in {"keep", "low"} : AddMember(s, caller, role, quota)
       \/ \E p \in Patch : UpdateMemberRead(s, caller, p)
  \/ RemoveMember(s)
  \/ \E k \in Key : CreateKey(s, k) \/ DeleteKeyRead(s, k)
  \/ \E k \in Key, status \in {"active", "disabled", "revoked"} : UpdateKeyRead(s, k, status)
  \/ Consent(s) \/ RevokeGrant(s) \/ ArchiveProject(s) \/ UnarchiveProject(s)

Continues(s) ==
  \/ AddMemberQuota(s) \/ UpdateMemberWrite(s) \/ UpdateMemberInvalidate(s)
  \/ RemoveMemberCommit(s) \/ RemoveMemberConsents(s)
  \/ CreateKeyInsert(s) \/ UpdateKeyWrite(s) \/ DeleteKeyWrite(s)
  \/ ConsentIssue(s) \/ RevokeGrantConsent(s) \/ RevokeGrantDelete(s)
  \/ UnarchiveProjectWrite(s)

Arrives(r)  == ByToken(r) \/ \E k \in Key : ByKey(r, k)
Proceeds(r) == CheckProject(r) \/ ReadCaches(r) \/ LoadMember(r) \/ FillCaches(r) \/ Leave(r)

Next ==
  \/ \E s \in Session : Starts(s) \/ Continues(s)
  \/ \E r \in Request : Arrives(r) \/ Proceeds(r)
  \/ \E f \in DOMAIN cache : Expire(f)

Spec == Init /\ [][Next]_vars

\* A handler runs to its end, and what is cached grows old.
Fairness ==
  /\ \A s \in Session : WF_vars(Continues(s))
  /\ \A r \in Request : WF_vars(Proceeds(r))
  /\ \A f \in DOMAIN NoCache : WF_vars(Expire(f))

FairSpec == Spec /\ Fairness

----------------------------------------------------------------------------
(* Properties.                                                             *)

\* The types of the variables.
TypeOK ==
  /\ project \in {"active", "archived"}
  /\ member \in Member \cup {Absent}
  /\ key \in [Key -> KeyRow]
  /\ grant \in BOOLEAN /\ token \in {"none", "live", "dead"}
  /\ op \in [Session -> Op]
  /\ req \in [Request -> Req]
  /\ cache \in Cache
  /\ left \in 0..Budget

Admitted(r) == req[r].at = "admitted"

\* A user who has been removed for good is refused for good, whatever key was
\* created or switched on again behind the removal's back, whatever Hydra
\* still says of the token, and however often the database cannot be read:
\* the middleware asks for the membership and closes when it gets no answer.
RemovedIsRefused == <>[](member = Absent) => <>[](\A r \in Request : ~Admitted(r))

\* When the rows change no more, the requests that are admitted come to carry
\* what they say: the quota and the denylist of the member, and a key or a
\* token that is good, although updates of the quota, of the role and of the
\* key invalidate nothing and a reader may cache a row that is out of date.
FactsSettle ==
  <>[][UNCHANGED rows]_vars =>
    <>[](\A r \in Request : Admitted(r) =>
           /\ project = "active"
           /\ req[r].quota = member.quota /\ req[r].denied = member.denied
           /\ IF req[r].via = "token" THEN token = "live" ELSE key[req[r].via].status = "active")
============================================================================
