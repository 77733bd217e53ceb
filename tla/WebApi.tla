-------------------------------- MODULE WebApi --------------------------------
(***************************************************************************)
(* The calls of the web panel (api.ts) and the routes of the server        *)
(* (main.go): a path is the sequence of its segments, "id" an identifier.  *)
(***************************************************************************)
EXTENDS Sequences

On(methods, path) == methods \X {path}

(* Mutant: the list before the paths of the apps were added to it.         *)
FewerRootHeads == {"api", "auth", "me"}

(* The first segments that the panel sends as they are: isRootApiPath.     *)
RootHeads ==
    {"api", "auth", "me", "family", "ws", "devices", "locations", "alerts", "config", "healthz"}

(* doFetch: every other path is sent under API_BASE.                       *)
Sent(call) == IF Head(call[2]) \in RootHeads THEN call ELSE <<call[1], <<"api">> \o call[2]>>

(* The calls for the user's own account and circle.                        *)
CreateMyFamily == <<"POST", <<"families">>>>
MyCalls ==
    On({"GET", "PUT", "DELETE"}, <<"api", "profile", "avatar">>) \cup
    { <<"POST", <<"auth", "login">>>>, <<"POST", <<"auth", "refresh">>>>,
      <<"GET", <<"api", "profile">>>>, <<"GET", <<"me">>>>, <<"PATCH", <<"me">>>>,
      <<"PATCH", <<"me", "password">>>>,
      <<"GET", <<"family">>>>, <<"PATCH", <<"family">>>>, <<"POST", <<"family", "invites">>>>,
      <<"POST", <<"family", "join">>>>, <<"POST", <<"family", "leave">>>>,
      <<"GET", <<"family", "members">>>>, <<"GET", <<"family", "members", "id", "avatar">>>>,
      <<"GET", <<"family", "members", "id", "history">>>>,
      <<"PATCH", <<"family", "members", "id", "role">>>>, <<"GET", <<"family", "places">>>>,
      CreateMyFamily }

(* The calls of the platform's administration.                             *)
AdminCalls == UNION {
    On({"GET", "POST"}, <<"api", "admin", "families">>),
    On({"PATCH", "DELETE"}, <<"api", "admin", "families", "id">>),
    On({"GET"}, <<"api", "admin", "families", "id", "members">>),
    On({"GET"}, <<"api", "admin", "members">>),
    On({"GET"}, <<"api", "admin", "members", "id", "history">>),
    On({"GET"}, <<"api", "admin", "members", "id", "avatar">>),
    On({"PATCH"}, <<"api", "admin", "members", "id", "family">>),
    On({"GET", "POST"}, <<"api", "admin", "users">>),
    On({"PATCH"}, <<"api", "admin", "users", "id", "family">>),
    On({"PATCH"}, <<"api", "admin", "users", "id", "role">>),
    On({"PATCH"}, <<"api", "admin", "users", "id", "password">>),
    On({"GET", "POST"}, <<"api", "admin", "invites">>), On({"GET"}, <<"api", "admin", "apk">>),
    On({"GET"}, <<"api", "admin", "apk", "status">>),
    On({"GET", "PUT", "DELETE"}, <<"api", "admin", "settings", "sms">>),
    On({"GET"}, <<"api", "admin", "domain", "status">>),
    On({"GET"}, <<"api", "admin", "update", "status">>),
    On({"POST"}, <<"api", "admin", "update", "apply">>),
    On({"GET"}, <<"api", "admin", "update", "log">>) }

(* What the server answers (main.go), beside devices, alerts and streams.  *)
Routes == UNION {
    On({"POST"}, <<"auth", "register">>), On({"POST"}, <<"auth", "login">>),
    On({"POST"}, <<"auth", "refresh">>), On({"POST"}, <<"auth", "logout">>),
    On({"GET", "PATCH", "DELETE"}, <<"me">>), On({"PATCH"}, <<"me", "password">>),
    On({"GET"}, <<"api", "profile">>),
    On({"GET", "PUT", "DELETE"}, <<"api", "profile", "avatar">>), On({"POST"}, <<"families">>),
    On({"GET", "PATCH"}, <<"family">>), On({"POST"}, <<"family", "leave">>),
    On({"POST"}, <<"family", "join">>), On({"POST"}, <<"family", "invites">>),
    On({"GET"}, <<"family", "members">>), On({"GET"}, <<"family", "members", "id", "avatar">>),
    On({"GET"}, <<"family", "members", "id", "history">>),
    On({"PATCH"}, <<"family", "members", "id", "role">>),
    On({"GET", "POST"}, <<"family", "geofences">>),
    On({"PATCH", "DELETE"}, <<"family", "geofences", "id">>),
    On({"GET", "POST"}, <<"family", "places">>),
    On({"PATCH", "DELETE"}, <<"family", "places", "id">>),
    On({"GET", "POST"}, <<"api", "admin", "families">>),
    On({"PATCH", "DELETE"}, <<"api", "admin", "families", "id">>),
    On({"GET"}, <<"api", "admin", "families", "id", "members">>),
    On({"GET"}, <<"api", "admin", "members">>),
    On({"GET"}, <<"api", "admin", "members", "id", "avatar">>),
    On({"GET"}, <<"api", "admin", "members", "id", "history">>),
    On({"PATCH"}, <<"api", "admin", "members", "id", "family">>),
    On({"GET", "POST"}, <<"api", "admin", "users">>),
    On({"PATCH"}, <<"api", "admin", "users", "id", "family">>),
    On({"PATCH"}, <<"api", "admin", "users", "id", "role">>),
    On({"PATCH"}, <<"api", "admin", "users", "id", "password">>),
    On({"GET"}, <<"api", "admin", "places">>),
    On({"GET", "POST"}, <<"api", "admin", "invites">>), On({"GET"}, <<"api", "admin", "apk">>),
    On({"POST"}, <<"api", "admin", "apk", "build">>),
    On({"GET"}, <<"api", "admin", "apk", "status">>),
    On({"GET", "PUT", "DELETE"}, <<"api", "admin", "settings", "sms">>),
    On({"GET"}, <<"api", "admin", "domain", "status">>),
    On({"GET"}, <<"api", "admin", "update", "status">>),
    On({"POST"}, <<"api", "admin", "update", "apply">>),
    On({"GET"}, <<"api", "admin", "update", "log">>) }

Reached(call) == Sent(call) \in Routes

-----------------------------------------------------------------------------
(* Every call but one reaches a route: none is sent to a path the server   *)
(* does not answer ("prepending `/api` 404s", api.ts:66).                  *)
CallsReachRoutes == \A call \in (MyCalls \cup AdminCalls) \ {CreateMyFamily} : Reached(call)
=============================================================================
