-------------------------------- MODULE Auth --------------------------------
(***************************************************************************)
(* The manager's authorization (src/pkg/manager/auth): AuthFilter in      *)
(* front of every REST route, which decides with the resources the auth   *)
(* service grants the user (Authenticated), and the upload goroutine      *)
(* started with the server (UploadAuthRolesAndResources), which creates   *)
(* the roles editor, reader and custom and relates a resource per route   *)
(* ("METHOD:path", data "*") to editor (writes) or reader (reads).        *)
(* The auth service is remote: each call may fail before it takes effect, *)
(* or take effect and still return an error (a timeout).  Administrators  *)
(* relate further resources, with restricted data, to the custom role.    *)
(* A resource's data is "*" or a parsed query: per key, "*" (its first    *)
(* value) or the set of values allowed.  A request's data is its path     *)
(* parameters, one value per key.                                         *)
(***************************************************************************)
EXTENDS Naturals, Sequences, SequencesExt

CONSTANTS
    Users,      \* users the tokens stand for
    Editors, Readers, Customs,  \* the users an administrator gave each role
    GetRoutes,  \* routes registered with method GET
    PutRoutes,  \* routes registered with method POST, PUT or DELETE
    Excluded,   \* routes excluded from authorization (the swagger docs)
    Keys,       \* path parameter names
    Values,     \* path parameter values
    CustomRoutes, CustomValues, \* the custom role's restricted resources
    AuthSkip,   \* the manager's auth-skip option
    MaxFails,   \* auth service calls that fail
    MaxRestarts,\* manager restarts
    Star        \* the data "*" (a model value, unequal to any query)
RoleNames == <<"editor", "reader", "custom">>   \* roleNames, in order
Routes == GetRoutes \cup PutRoutes
Data == {Star} \cup UNION {[K -> {Star} \cup (SUBSET Values \ {{}})] : K \in SUBSET Keys}
Resource == [name : Routes, data : Data]

ASSUME /\ Editors \cup Readers \cup Customs \subseteq Users
       /\ Excluded \cup CustomRoutes \subseteq Routes /\ CustomValues \subseteq Values
       /\ AuthSkip \in BOOLEAN

(* The role names of a user.                                               *)
UserRoles(u) ==
    {rn \in ToSet(RoleNames) :
        u \in CASE rn = "editor" -> Editors [] rn = "reader" -> Readers [] OTHER -> Customs}

(* A restricted resource per custom route: every key limited to           *)
(* CustomValues (data "k=v&...").                                        *)
CustomRes == {[name |-> rt, data |-> [k \in Keys |-> CustomValues]] : rt \in CustomRoutes}

NoUser == "NoUser"   \* a token with no user claims
Tokens == [kind : {"none", "badJwt", "badMaya"}, user : {NoUser}]
          \cup [kind : {"jwt", "maya"}, user : Users \cup {NoUser}]
NoReq == [route |-> "none"]

VARIABLES
    roles,  \* the auth service: the roles below root
    res,    \* the auth service: its resources
    rel,    \* the auth service: role-resource relations <<role, resource>>
    up,     \* the upload goroutine: where it is and what it read
    last,   \* per user: the last request, the resources it was checked against, the answer
    fails,  \* auth service calls failed so far
    restarts

vars == <<roles, res, rel, up, last, fails, restarts>>

Upload == [pc : {"fetch", "roles", "res", "rel", "done", "failed"},
           roles : SUBSET ToSet(RoleNames), res : SUBSET Resource,
           rel : SUBSET (ToSet(RoleNames) \X Resource),
           ri : 1..Len(RoleNames) + 1, todo : SUBSET {"editor", "reader"},
           cur : {"editor", "reader", "none"}, ids : SUBSET Resource]

TypeOK ==
    /\ roles \subseteq ToSet(RoleNames)
    /\ res \subseteq Resource /\ rel \subseteq ToSet(RoleNames) \X Resource
    /\ up \in Upload
    /\ \A u \in Users : last[u] = NoReq \/ last[u].resp \in {"pass", "401", "403"}
    /\ fails \in 0..MaxFails /\ restarts \in 0..MaxRestarts

(* The upload goroutine starts with the server: it reads the service first. *)
Start == [pc |-> "fetch", roles |-> {}, res |-> {}, rel |-> {}, ri |-> 1,
          todo |-> {}, cur |-> "none", ids |-> {}]

(* A fresh auth service, or one a previous manager set up and an          *)
(* administrator used: the custom role with its restricted resources.     *)
Init ==
    /\ \/ roles = {} /\ res = {} /\ rel = {}
       \/ roles = {"custom"} /\ res = CustomRes /\ rel = {"custom"} \X CustomRes
    /\ up = Start
    /\ last = [u \in Users |-> NoReq]
    /\ fails = 0 /\ restarts = 0

-----------------------------------------------------------------------------
(* The remote calls.  A call may fail before it takes effect, or take      *)
(* effect and return an error; either way the caller sees the error.      *)

Outcomes == IF fails < MaxFails THEN {"ok", "fail", "lost"} ELSE {"ok"}
Applied(o) == o \in {"ok", "lost"}
CountFail(o) == fails' = IF o = "ok" THEN fails ELSE fails + 1

(* AddRole: the service creates the role under root and returns its ID.  *)
AddRole(rn, o) == roles' = IF Applied(o) THEN roles \cup {rn} ELSE roles

(* AddResource: the service creates the resources and returns their IDs. *)
AddResource(rs, o) == res' = IF Applied(o) THEN res \cup rs ELSE res

(* AddRoleResourceRelations: the service relates the resources to the role. *)
AddRoleResourceRelations(rn, rs, o) == rel' = IF Applied(o) THEN rel \cup ({rn} \X rs) ELSE rel

(* The upload gives up at the first error: it logs it and returns.        *)
GiveUp == [up EXCEPT !.pc = "failed"]

-----------------------------------------------------------------------------
(* UploadAuthRolesAndResources.                                           *)

(* buildRoleResources / addResource: POST, PUT and DELETE routes go to    *)
(* editor, GET routes to reader; buildResources gives each route data "*". *)
RouteRes(rt) == [name |-> rt, data |-> Star]
RoleRoutes(rn) == IF rn = "editor" THEN PutRoutes ELSE GetRoutes
RoleResources(rn) == {RouteRes(rt) : rt \in RoleRoutes(rn)}

(* Mutant: the upload loop runs over roleNames rather than roleResources. *)
UploadFetchAllRoles ==
    /\ up.pc = "fetch"
    /\ \E o \in Outcomes :
          /\ up' = IF o = "ok"
                   THEN [up EXCEPT !.pc = "roles", !.roles = roles, !.res = res, !.rel = rel,
                                   !.todo = ToSet(RoleNames)]
                   ELSE GiveUp
          /\ CountFail(o)
    /\ UNCHANGED <<roles, res, rel, last, restarts>>

(* buildRoleResources, then GetAllRole (with related resources) and       *)
(* GetAllResources.  roleResources holds editor and reader when they have *)
(* routes.                                                                *)
UploadFetch ==
    /\ up.pc = "fetch"
    /\ \E o \in Outcomes :
          /\ up' = IF o = "ok"
                   THEN [up EXCEPT !.pc = "roles", !.roles = roles, !.res = res, !.rel = rel,
                                   !.todo = {rn \in {"editor", "reader"} : RoleRoutes(rn) # {}}]
                   ELSE GiveUp
          /\ CountFail(o)
    /\ UNCHANGED <<roles, res, rel, last, restarts>>

(* One name of roleNames: containsRole, and AddRole under root if missing. *)
UploadRole ==
    /\ up.pc = "roles"
    /\ LET rn == RoleNames[up.ri]
           next == CASE up.ri < Len(RoleNames) -> [up EXCEPT !.ri = up.ri + 1]
                     [] up.todo = {} -> [up EXCEPT !.pc = "done", !.ri = up.ri + 1]
                     [] OTHER -> [up EXCEPT !.pc = "res", !.ri = up.ri + 1]
       IN IF rn \in up.roles
          THEN up' = next /\ UNCHANGED <<roles, fails>>
          ELSE \E o \in Outcomes :
                  /\ AddRole(rn, o)
                  /\ up' = IF o = "ok" THEN next ELSE GiveUp
                  /\ CountFail(o)
    /\ UNCHANGED <<res, rel, last, restarts>>

(* The role's resources containsResource does not find (read at fetch).   *)
Missing(rn) == RoleResources(rn) \ up.res

(* For one role of roleResources (map order: any): AddResource of the     *)
(* resources not present; it makes no call for none.                      *)
UploadResources ==
    /\ up.pc = "res"
    /\ up.todo # {}
    /\ \E rn \in up.todo :
          IF Missing(rn) = {}
          THEN /\ up' = [up EXCEPT !.pc = "rel", !.cur = rn, !.ids = {}]
               /\ UNCHANGED <<res, fails>>
          ELSE \E o \in Outcomes :
                  /\ AddResource(Missing(rn), o)
                  /\ up' = IF o = "ok" THEN [up EXCEPT !.pc = "rel", !.cur = rn, !.ids = Missing(rn)]
                           ELSE GiveUp
                  /\ CountFail(o)
    /\ UNCHANGED <<roles, rel, last, restarts>>

(* Resources present at fetch whose relation to the role containsRoleResRel *)
(* does not find.                                                         *)
Unrelated(rn) == {r \in RoleResources(rn) \cap up.res : <<rn, r>> \notin up.rel}

(* Mutant: only the IDs AddResource returned are related.                *)
UploadRelationsNoRepair ==
    /\ up.pc = "rel"
    /\ LET rn == up.cur
           new == up.ids
       IN \E o \in Outcomes :
             /\ AddRoleResourceRelations(rn, new, o)
             /\ up' = IF o # "ok" THEN GiveUp
                      ELSE IF up.todo = {rn} THEN [up EXCEPT !.pc = "done", !.todo = {}, !.cur = "none"]
                      ELSE [up EXCEPT !.pc = "res", !.todo = up.todo \ {rn}, !.cur = "none"]
             /\ CountFail(o)
    /\ UNCHANGED <<roles, res, last, restarts>>

(* AddRoleResourceRelations of the new IDs and the unrelated ones.        *)
UploadRelations ==
    /\ up.pc = "rel"
    /\ LET rn == up.cur
           new == up.ids \cup Unrelated(rn)
       IN \E o \in Outcomes :
             /\ AddRoleResourceRelations(rn, new, o)
             /\ up' = IF o # "ok" THEN GiveUp
                      ELSE IF up.todo = {rn} THEN [up EXCEPT !.pc = "done", !.todo = {}, !.cur = "none"]
                      ELSE [up EXCEPT !.pc = "res", !.todo = up.todo \ {rn}, !.cur = "none"]
             /\ CountFail(o)
    /\ UNCHANGED <<roles, res, last, restarts>>

(* The manager restarts; the new process starts the upload again.         *)
Restart ==
    /\ restarts < MaxRestarts
    /\ up' = Start
    /\ restarts' = restarts + 1
    /\ UNCHANGED <<roles, res, rel, last, fails>>

-----------------------------------------------------------------------------
(* AuthFilter.                                                             *)

(* GetUserResources: the resources related to a role of the user.         *)
UserResources(u) ==
    IF u \notin Users THEN {}
    ELSE {r \in res : \E rn \in UserRoles(u) \cap roles : <<rn, r>> \in rel}

(* The values a request carries for a key (valuesRequest[k]; none if the  *)
(* path has no such parameter).                                           *)
ReqValues(req, k) == IF k \in DOMAIN req.data THEN {req.data[k]} ELSE {}

(* Mutant: the resource's name is not compared with the request's.       *)
RECURSIVE AuthenticatedAnyName(_, _)
AuthenticatedAnyName(allowed, req) ==
    IF allowed = <<>> THEN FALSE
    ELSE LET a == Head(allowed) IN
         IF a.data = Star THEN TRUE
         ELSE IF \E k \in DOMAIN a.data : a.data[k] # Star /\ ~(ReqValues(req, k) \subseteq a.data[k])
              THEN FALSE
         ELSE AuthenticatedAnyName(Tail(allowed), req)

(* Authenticated: the loop over the user's resources in the order the     *)
(* service returns them.  A resource of the request's name grants access  *)
(* if its data is "*"; otherwise a key whose values do not hold all of    *)
(* the request's denies at once, and if every key holds them the loop     *)
(* goes on.  The loop's end denies.                                       *)
RECURSIVE Authenticated(_, _)
Authenticated(allowed, req) ==
    IF allowed = <<>> THEN FALSE
    ELSE LET a == Head(allowed) IN
         IF a.name # req.route THEN Authenticated(Tail(allowed), req)
         ELSE IF a.data = Star THEN TRUE
         ELSE IF \E k \in DOMAIN a.data : a.data[k] # Star /\ ~(ReqValues(req, k) \subseteq a.data[k])
              THEN FALSE
         ELSE Authenticated(Tail(allowed), req)

(* The token's check: a valid JWT's user (Decrypt), or LoginBySecret of a *)
(* Maya-Token; NoUser if none, "bad" if the token is refused.             *)
TokenUser(tok) ==
    CASE tok.kind = "none" -> "none"
      [] tok.kind \in {"badJwt", "badMaya"} -> "bad"
      [] OTHER -> tok.user

(* AuthFilter for one request, to its end: excluded or skipped requests   *)
(* pass; no token, a refused token, a failed GetUserResources or an       *)
(* Authenticated that says no are refused; then the user must have an ID. *)
AuthFilter(u, rt, d, tok) ==
    LET req == [route |-> rt, data |-> d]
        who == TokenUser(tok)
    IN /\ \E ok \in BOOLEAN, order \in SetToSeqs(UserResources(who)) :
             LET resp == CASE rt \in Excluded \/ AuthSkip -> "pass"
                           [] who \in {"none", "bad"} -> "401"
                           [] ~ok \/ ~Authenticated(order, req) -> "403"
                           [] who = NoUser -> "401"
                           [] OTHER -> "pass"
             IN last' = [last EXCEPT ![u] = [req |-> req, tok |-> tok, who |-> who,
                                             allowed |-> IF ok THEN UserResources(who) ELSE {},
                                             resp |-> resp]]
       /\ UNCHANGED <<roles, res, rel, up, fails, restarts>>

(* An administrator relates the restricted resources to the custom role.  *)
AdminCustom ==
    /\ "custom" \in roles
    /\ ~(CustomRes \subseteq res)
    /\ res' = res \cup CustomRes
    /\ rel' = rel \cup ({"custom"} \X CustomRes)
    /\ UNCHANGED <<roles, up, last, fails, restarts>>

(* The tokens a client of user u sends: its own, none, refused ones, or  *)
(* a JWT with no user claims.                                             *)
TokensOf(u) == [kind : {"none", "badJwt", "badMaya"}, user : {NoUser}]
               \cup [kind : {"jwt", "maya"}, user : {u, NoUser}]

Next ==
    \/ UploadFetch \/ UploadRole \/ UploadResources \/ UploadRelations \/ Restart
    \/ AdminCustom
    \/ \E u \in Users, rt \in Routes, d \in [Keys -> Values], tok \in Tokens :
          tok \in TokensOf(u) /\ AuthFilter(u, rt, d, tok)

Spec == Init /\ [][Next]_vars

-----------------------------------------------------------------------------
(* Properties.                                                             *)

(* What a user may do, by the resources the service grants them: some     *)
(* resource of the route's name allows the request, with data "*" or, for *)
(* every key, "*" or all of the request's values.                         *)
Intended(allowed, req) ==
    \E a \in allowed :
        /\ a.name = req.route
        /\ \/ a.data = Star
           \/ \A k \in DOMAIN a.data : a.data[k] = Star \/ ReqValues(req, k) \subseteq a.data[k]

(* AuthFilter lets a request through only if it is excluded, auth is      *)
(* skipped, or the user's resources allow it, whatever order the service  *)
(* returns them in and whatever token the client sends.                   *)
FilterSound ==
    \A u \in Users : last[u] # NoReq /\ last[u].resp = "pass" =>
        \/ last[u].req.route \in Excluded \/ AuthSkip
        \/ last[u].who \in Users /\ Intended(last[u].allowed, last[u].req)

(* AuthFilter lets through every request of a user whose resources allow *)
(* it (the comment on Authenticated: it checks whether the user can       *)
(* access the resource).                                                  *)
FilterAsIntended ==
    \A u \in Users : last[u] # NoReq /\ last[u].who \in Users /\ Intended(last[u].allowed, last[u].req)
        => last[u].resp = "pass"

(* Once an upload finishes, after any earlier uploads failed part way     *)
(* (a call failing before or after it took effect) and the manager        *)
(* restarted, every role exists and every route's resource exists and is  *)
(* related to its role: reads to reader, writes to editor.                *)
UploadRelates ==
    up.pc = "done" =>
        /\ ToSet(RoleNames) \subseteq roles
        /\ \A rn \in {"editor", "reader"} : \A r \in RoleResources(rn) : r \in res /\ <<rn, r>> \in rel

=============================================================================
