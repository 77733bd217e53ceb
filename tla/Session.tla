------------------------------ MODULE Session ------------------------------
(***************************************************************************)
(* The session of the app: the token pair in the device's stores           *)
(* (token_storage.dart), kept alive by the 401 handling of api_client.dart,*)
(* by the gate at every start of the app (session_gate.dart, main.dart)    *)
(* and by the background isolate (background_location_service.dart),       *)
(* against a server that knows tokens by their expiry and by the user's    *)
(* token_version (auth.go, session.go, middleware.go).                     *)
(*                                                                         *)
(* A pair of tokens is named by the order of its issue.  Every write or    *)
(* deletion of a stored value is awaited, so each is a step of its own and *)
(* anything else may run in between.                                       *)
(***************************************************************************)
EXTENDS Integers, FiniteSets

CONSTANTS
    Calls,          \* API calls of the app that may be under way at once
    MaxIssued,      \* bound: pairs of tokens
    MaxEnded,       \* bound: changes of the password at another device, and
                    \* refresh tokens that expire
    MaxFaults       \* bound: failed requests, failed reads, writes and
                    \* deletions, kills of the app and returns to it

User == "user"      \* who logs in, and whose logout is a call too
Refresher == "refresher"
Gate == "gate"
Background == "background"
Callers == Calls \cup {User}
Foreground == Callers \cup {Refresher, Gate}
Actors == Foreground \cup {Background}

ASSUME SessionAssumption ==
    /\ Calls \cap {User, Refresher, Gate, Background} = {}
    /\ MaxIssued \in Nat /\ MaxEnded \in Nat /\ MaxFaults \in Nat

VARIABLES
    version,        \* users.token_version
    ver,            \* the ver claim of each pair
    issued,         \* how many pairs there are
    stale,          \* the access tokens up to this one have expired
    lapsed,         \* and the refresh tokens up to this one
    store,          \* what the device has stored; 0: nothing
    act,            \* what each actor is doing
    screen,
    fired,          \* ApiClient._sessionExpiredFired
    why,            \* history: what may have ended the session since its login
    ended, faults

server == <<version, ver, issued, stale, lapsed>>
vars == <<server, store, act, screen, fired, why, ended, faults>>

Keys == <<"access", "refresh", "mirror">>     \* in the order they are written
Pairs == 1 .. MaxIssued
Idle == [pc |-> "idle", tok |-> 0, at |-> 1]
Doing == {"idle", "sent", "wait", "ready", "again", "clear", "teardown", "load", "recover", "save",
          "start", "login"}
Causes == {"never", "logout", "told", "revoked", "lapsed", "failure", "storage", "late",
           "overwritten"}

TypeOK ==
    /\ version \in Nat
    /\ ver \in [Pairs -> 0 .. version]
    /\ issued \in 0 .. MaxIssued /\ stale \in 0 .. issued /\ lapsed \in 0 .. stale
    /\ store \in [{"access", "refresh", "mirror"} -> 0 .. issued]
    /\ act \in [Actors -> [pc: Doing, tok: 0 .. issued, at: 1 .. 4]]
    /\ screen \in {"splash", "login", "map"}
    /\ fired \in BOOLEAN
    /\ why \subseteq Causes
    /\ ended \in 0 .. MaxEnded /\ faults \in 0 .. MaxFaults

Init ==
    /\ version = 0 /\ ver = [g \in Pairs |-> 0] /\ issued = 0 /\ stale = 0 /\ lapsed = 0
    /\ store = [access |-> 0, refresh |-> 0, mirror |-> 0]
    /\ act = [a \in Actors |-> Idle]
    /\ screen = "login" /\ fired = FALSE
    /\ why = {"never"}
    /\ ended = 0 /\ faults = 0

-----------------------------------------------------------------------------
(* The server.                                                             *)

Live(g) == g # 0 /\ ver[g] = version
Accepts(g) == Live(g) /\ g > stale                  \* an access token

Issue == /\ issued < MaxIssued /\ issued' = issued + 1
         /\ ver' = [ver EXCEPT ![issued + 1] = version]
         /\ UNCHANGED <<version, stale, lapsed>>

(* An access token lives for 15 minutes: longer than it takes to store it  *)
(* and to repeat the calls that waited for it.                             *)
Expire == /\ stale < issued /\ stale' = stale + 1
          /\ \A a \in Actors : act[a].pc \notin {"save", "login", "ready", "again"}
          /\ UNCHANGED <<version, ver, issued, lapsed, store, act, screen, fired, why, ended, faults>>

(* A refresh token lives for 30 days.  One that the app has stored, or has *)
(* sent to the server, is one that the session needed.                     *)
Lapse == /\ ended < MaxEnded /\ ended' = ended + 1
         /\ lapsed < stale /\ lapsed' = lapsed + 1
         /\ why' = IF lapsed' \in {store.refresh, act[Refresher].tok, act[Gate].tok}
                   THEN why \cup {"lapsed"} ELSE why
         /\ UNCHANGED <<version, ver, issued, stale, store, act, screen, fired, faults>>

(* ChangePassword at another device, AdminResetPassword.                   *)
Revoke == /\ ended < MaxEnded /\ ended' = ended + 1
          /\ version' = version + 1
          /\ why' = why \cup {"revoked"}
          /\ UNCHANGED <<ver, issued, stale, lapsed, store, act, screen, fired, faults>>

-----------------------------------------------------------------------------
(* Steps of several actors.                                                *)

Set(a, pc, tok) == act' = [act EXCEPT ![a] = [pc |-> pc, tok |-> tok, at |-> 1]]

(* saveTokens: one value after the other.                                  *)
SaveStep(a) == store' = [store EXCEPT ![Keys[act[a].at]] = act[a].tok]

(* TokenStorage.clear: deletes one after the other, then looks again.      *)
EraseStep(a) == store' = [store EXCEPT ![Keys[act[a].at]] = 0]

Onwards(a) == act' = [act EXCEPT ![a].at = @ + 1]
Empty == \A k \in DOMAIN store : store[k] = 0

(* The background store's access token replaces that of the secure store.  *)
Synced == IF store.mirror = 0 THEN store ELSE [store EXCEPT !.access = store.mirror]

(* What an API call does when it is over; a logout goes on to clear.       *)
Over(c) == IF c = User THEN [Idle EXCEPT !.pc = "teardown"] ELSE Idle

NotifySessionExpired ==
    /\ fired' = TRUE
    /\ screen' = IF fired THEN screen ELSE "login"

-----------------------------------------------------------------------------
(* Calls: _sendResponse.                                                   *)

Call(c) ==
    /\ c \in Calls /\ act[c].pc = "idle" /\ screen = "map"
    /\ Set(c, "sent", store.access)
    /\ UNCHANGED <<server, store, screen, fired, why, ended, faults>>

(* AuthService.logout begins with a call.                                  *)
Logout ==
    /\ act[User].pc = "idle" /\ screen = "map"
    /\ Set(User, "sent", store.access)
    /\ why' = why \cup {"logout"}
    /\ UNCHANGED <<server, store, screen, fired, ended, faults>>

(* The server's Logout bumps token_version.                                *)
Effect(c) == version' = IF c = User THEN version + 1 ELSE version

Answered(c) ==
    /\ act[c].pc \in {"sent", "again"} /\ Accepts(act[c].tok)
    /\ Effect(c)
    /\ why' = IF c = User THEN why \cup {"told"} ELSE why
    /\ act' = [act EXCEPT ![c] = Over(c)]
    /\ UNCHANGED <<ver, issued, stale, lapsed, store, screen, fired, ended, faults>>

(* _tryRefresh: concurrent 401s share one refresh.                         *)
AwaitRefresh(c) ==
    act' = [act EXCEPT ![c] = [Idle EXCEPT !.pc = "wait"],
                       ![Refresher] = IF @.pc = "idle" THEN [Idle EXCEPT !.pc = "load"] ELSE @]

(* Mutant: a 401 is always answered by a refresh.                          *)
UnauthorizedAgain(c) ==
    /\ ~Accepts(act[c].tok)
    /\ act[c].pc \in {"sent", "again"} /\ AwaitRefresh(c)
    /\ UNCHANGED <<server, store, screen, fired, why, ended, faults>>

Unauthorized(c) ==
    /\ ~Accepts(act[c].tok)
    /\ \/ act[c].pc = "sent" /\ AwaitRefresh(c)
       \/ act[c].pc = "again" /\ Set(c, "clear", 0)
    /\ UNCHANGED <<server, store, screen, fired, why, ended, faults>>

(* The refresh succeeded: the call is sent again, with what is stored now. *)
SendAgain(c) ==
    /\ act[c].pc = "ready"
    /\ Set(c, "again", store.access)
    /\ UNCHANGED <<server, store, screen, fired, why, ended, faults>>

-----------------------------------------------------------------------------
(* The refresh: _performRefresh, _recoverOrClear.                          *)

RefreshLoad ==
    /\ act[Refresher].pc = "load"
    /\ IF store.refresh = 0 THEN Set(Refresher, "recover", 0)
                            ELSE Set(Refresher, "sent", store.refresh)
    /\ UNCHANGED <<server, store, screen, fired, why, ended, faults>>

(* Mutants: the server does not compare the versions; a refresh ends the   *)
(* pairs issued before.                                                    *)
RenewableAlways(g) == g > lapsed
RenewableNewest(g) == Live(g) /\ g = issued /\ g > lapsed

Renewable(g) == Live(g) /\ g > lapsed

(* POST /auth/refresh of an actor: a new pair, or 401.                     *)
Renewed(a, otherwise) ==
    /\ act[a].pc = "sent"
    /\ IF Renewable(act[a].tok)
       THEN Issue /\ Set(a, "save", issued + 1)
       ELSE UNCHANGED server /\ Set(a, otherwise, 0)
    /\ UNCHANGED <<store, screen, fired, why, ended, faults>>

(* The shared future completes: every waiting call goes on.                *)
Resumed(ok) ==
    [a \in Actors |->
        IF a = Refresher THEN Idle
        ELSE IF a \in Callers /\ act[a].pc = "wait"
             THEN IF ok THEN [Idle EXCEPT !.pc = "ready"] ELSE Over(a)
             ELSE act[a]]

RefreshSave ==
    /\ act[Refresher].pc = "save"
    /\ SaveStep(Refresher)
    /\ IF act[Refresher].at = 3 THEN act' = Resumed(TRUE) ELSE Onwards(Refresher)
    /\ UNCHANGED <<server, screen, fired, why, ended, faults>>

Recover ==
    /\ act[Refresher].pc = "recover"
    /\ store' = Synced
    /\ IF Synced.access # 0 THEN act' = Resumed(TRUE) ELSE Set(Refresher, "clear", 0)
    /\ UNCHANGED <<server, screen, fired, why, ended, faults>>

-----------------------------------------------------------------------------
(* Clearing.                                                               *)

Erase(a) ==
    /\ act[a].pc \in {"clear", "teardown"} /\ act[a].at \in 1 .. 3
    /\ EraseStep(a) /\ Onwards(a)
    /\ UNCHANGED <<server, screen, fired, why, ended, faults>>

(* Only a verified deletion leads to the login screen; otherwise the error *)
(* ends the call, the refresh or the logout.  The gate opens the welcome   *)
(* screen either way.                                                      *)
AfterClear(a, gone) ==
    /\ act[a].at = 4
    /\ \/ /\ act[a].pc = "clear" /\ a \in Callers
          /\ IF gone THEN NotifySessionExpired ELSE UNCHANGED <<screen, fired>>
          /\ act' = [act EXCEPT ![a] = Over(a)]
       \/ /\ act[a].pc = "clear" /\ a = Refresher
          /\ IF gone /\ \E c \in Callers : act[c].pc = "wait"
             THEN NotifySessionExpired ELSE UNCHANGED <<screen, fired>>
          /\ act' = Resumed(FALSE)
       \/ /\ act[a].pc = "clear" /\ a = Gate
          /\ screen' = "login" /\ UNCHANGED fired
          /\ act' = [act EXCEPT ![a] = Idle]
       \/ /\ act[a].pc = "teardown"
          /\ screen' = IF gone THEN "login" ELSE screen
          /\ UNCHANGED fired
          /\ act' = [act EXCEPT ![a] = Idle]

Cleared(a) == AfterClear(a, Empty) /\ UNCHANGED <<server, store, why, ended, faults>>

-----------------------------------------------------------------------------
(* The start of the app: _SessionGateState._init, SessionGate.evaluate.    *)

(* What the gate decides on; an error of the sync is ignored.              *)
GateOpens(s) ==
    /\ act[Gate].pc = "start"
    /\ store' = s
    /\ \/ /\ s.access = 0 /\ s.refresh = 0
          /\ screen' = "login" /\ Set(Gate, "idle", 0)
       \/ /\ s.access > stale
          /\ screen' = "map" /\ Set(Gate, "idle", 0)
       \/ /\ s.access <= stale /\ s.refresh = 0 /\ s.access # 0
          /\ Set(Gate, "clear", 0) /\ UNCHANGED screen
       \/ /\ s.access <= stale /\ s.refresh # 0
          /\ Set(Gate, "sent", s.refresh) /\ UNCHANGED screen

GateStart == GateOpens(Synced) /\ UNCHANGED <<server, fired, why, ended, faults>>

GateSave ==
    /\ act[Gate].pc = "save"
    /\ SaveStep(Gate)
    /\ IF act[Gate].at = 3 THEN screen' = "map" /\ Set(Gate, "idle", 0)
                           ELSE UNCHANGED screen /\ Onwards(Gate)
    /\ UNCHANGED <<server, fired, why, ended, faults>>

-----------------------------------------------------------------------------
(* AuthService.login.                                                      *)

(* What an earlier session has left under way.                             *)
Leftover == IF \E a \in Actors \ {User} : act[a].pc # "idle" THEN {"late"} ELSE {}

Login ==
    /\ screen = "login" /\ act[User].pc = "idle"
    /\ Issue
    /\ Set(User, "login", issued + 1)
    /\ why' = {"never"} \cup Leftover
    /\ UNCHANGED <<store, screen, fired, ended, faults>>

LoginSave ==
    /\ act[User].pc = "login"
    /\ SaveStep(User)
    /\ IF act[User].at = 3
       THEN /\ screen' = "map" /\ fired' = FALSE
            /\ why' = (why \cap {"late"}) \cup Leftover
                      \cup (IF Live(act[User].tok) THEN {} ELSE {"revoked"})
            /\ Set(User, "idle", 0)
       ELSE Onwards(User) /\ UNCHANGED <<screen, fired, why>>
    /\ UNCHANGED <<server, ended, faults>>

-----------------------------------------------------------------------------
(* The background isolate: _report, _refresh.                              *)

BackgroundReport ==
    /\ act[Background].pc = "idle" /\ store.mirror # 0
    /\ screen # "login" /\ act[User].pc # "teardown"       \* not stopped
    /\ ~Accepts(store.mirror) /\ store.refresh # 0
    /\ Set(Background, "sent", store.refresh)
    /\ UNCHANGED <<server, store, screen, fired, why, ended, faults>>

(* The mirror is written first, then the pair as the app writes it.        *)
BackgroundSave ==
    /\ act[Background].pc = "save"
    /\ LET g == act[Background].tok
       IN  /\ store' = [store EXCEPT ![Keys[act[Background].at]] = g,
                                     !.mirror = IF act[Background].at = 1 THEN g ELSE @]
           /\ IF act[Background].at = 3 THEN Set(Background, "idle", 0) ELSE Onwards(Background)
    /\ UNCHANGED <<server, screen, fired, why, ended, faults>>

-----------------------------------------------------------------------------
(* Failures, and what the user and the system do to the app.               *)

(* No answer, or a 5xx or 429: the logout may have had its effect.         *)
NoAnswer(a) ==
    /\ act[a].pc \in {"sent", "again"}
    /\ \/ /\ a \in Callers
          /\ act' = [act EXCEPT ![a] = Over(a)]
          /\ \/ UNCHANGED <<version, why>>
             \/ a = User /\ Accepts(act[a].tok) /\ Effect(a) /\ why' = why \cup {"told"}
          /\ UNCHANGED screen
       \/ /\ a = Refresher
          /\ Set(a, "recover", 0) /\ why' = why \cup {"failure"}
          /\ UNCHANGED <<version, screen>>
       \/ /\ a = Gate
          /\ Set(a, "idle", 0) /\ screen' = "map"
          /\ UNCHANGED <<version, why>>
       \/ /\ a = Background
          /\ Set(a, "idle", 0)
          /\ UNCHANGED <<version, screen, why>>
    /\ UNCHANGED <<store, fired>>

(* RequireTokenVersion answers 401 when its query fails, too.              *)
QueryFails(c) ==
    /\ \/ act[c].pc = "sent" /\ AwaitRefresh(c)
       \/ act[c].pc = "again" /\ Set(c, "clear", 0)
    /\ why' = why \cup {"failure"}
    /\ UNCHANGED <<version, store, screen, fired>>

(* A deletion that does nothing; a verification that cannot read.          *)
EraseFails(a) ==
    /\ act[a].pc \in {"clear", "teardown"} /\ act[a].at \in 1 .. 3
    /\ Onwards(a)
    /\ UNCHANGED <<version, store, screen, fired, why>>

VerifyFails(a) == AfterClear(a, FALSE) /\ UNCHANGED <<version, store, why>>

(* A secure store that the isolate cannot write: the mirror has the new    *)
(* access token already.                                                   *)
BackgroundSaveFails ==
    /\ act[Background].pc = "save"
    /\ store' = [store EXCEPT !.mirror = act[Background].tok]
    /\ Set(Background, "idle", 0)
    /\ UNCHANGED <<version, screen, fired, why>>

(* A store that cannot be read or written at the start: a failed sync is   *)
(* ignored, any other error shows the welcome screen.                      *)
GateFails ==
    \/ GateOpens(store) /\ UNCHANGED <<version, fired, why>>
    \/ /\ \/ act[Gate].pc = "start" /\ store' \in {store, Synced}
          \/ act[Gate].pc = "save" /\ UNCHANGED store
       /\ screen' = "login" /\ Set(Gate, "idle", 0)
       /\ why' = why \cup {"storage"}
       /\ UNCHANGED <<version, fired>>

(* The same in a refresh, which falls back to the recovery and from there  *)
(* to the deletion; in a call, before it is sent again; and in a login.    *)
RefreshFails ==
    /\ \/ act[Refresher].pc \in {"load", "save"} /\ Set(Refresher, "recover", 0) /\ UNCHANGED store
       \/ act[Refresher].pc = "recover" /\ Set(Refresher, "clear", 0) /\ store' \in {store, Synced}
    /\ why' = why \cup {"storage"}
    /\ UNCHANGED <<version, screen, fired>>

ReadFails(c) ==
    /\ act[c].pc = "ready" /\ act' = [act EXCEPT ![c] = Over(c)]
    /\ UNCHANGED <<version, store, screen, fired, why>>

LoginSaveFails ==
    /\ act[User].pc = "login" /\ Set(User, "idle", 0)
    /\ UNCHANGED <<version, store, screen, fired, why>>

(* The app is killed and started again; the isolate lives on.              *)
Kill ==
    /\ act' = [a \in Actors |-> IF a = Gate THEN [Idle EXCEPT !.pc = "start"]
                                ELSE IF a \in Foreground THEN Idle ELSE act[a]]
    /\ screen' = "splash" /\ fired' = FALSE
    /\ UNCHANGED <<version, store, why>>

(* The app comes back to the front: _onResumed.  If a refresh is storing   *)
(* its pair just then, an older access token may replace the new one.      *)
Resume ==
    /\ screen = "map" /\ store' = Synced
    /\ why' = IF act[Refresher].pc = "save" THEN why \cup {"overwritten"} ELSE why
    /\ UNCHANGED <<version, act, screen, fired>>

Fault ==
    /\ faults < MaxFaults /\ faults' = faults + 1
    /\ \/ \E a \in Actors : NoAnswer(a) \/ EraseFails(a)
       \/ \E a \in Foreground : VerifyFails(a)
       \/ \E c \in Callers : QueryFails(c) \/ ReadFails(c)
       \/ GateFails \/ RefreshFails \/ LoginSaveFails \/ BackgroundSaveFails
       \/ Kill \/ Resume
    /\ UNCHANGED <<ver, issued, stale, lapsed, ended>>

-----------------------------------------------------------------------------

CallSteps(c) == Answered(c) \/ Unauthorized(c) \/ SendAgain(c)
RefreshSteps == RefreshLoad \/ Renewed(Refresher, "recover") \/ RefreshSave \/ Recover
GateSteps == GateStart \/ Renewed(Gate, "clear") \/ GateSave
BackgroundSteps == Renewed(Background, "idle") \/ BackgroundSave
ClearSteps(a) == Erase(a) \/ Cleared(a)

Next == \/ \E c \in Calls : Call(c)
        \/ \E c \in Callers : CallSteps(c)
        \/ RefreshSteps \/ GateSteps
        \/ \E a \in Foreground : ClearSteps(a)
        \/ Login \/ LoginSave \/ Logout
        \/ BackgroundReport \/ BackgroundSteps
        \/ Expire \/ Lapse \/ Revoke \/ Fault

(* What was begun goes on, and the map screen keeps calling the server.    *)
Spec == /\ Init /\ [][Next]_vars
        /\ WF_vars(\E c \in Calls : Call(c))
        /\ \A c \in Callers : WF_vars(CallSteps(c))
        /\ \A a \in Foreground : WF_vars(ClearSteps(a))
        /\ WF_vars(RefreshSteps) /\ WF_vars(GateSteps)
        /\ WF_vars(BackgroundSteps) /\ WF_vars(LoginSave)

-----------------------------------------------------------------------------
(* Properties.                                                             *)

(* No session ends for nothing: who is at the login screen has logged out, *)
(* had the tokens revoked, left the refresh token unused until it expired, *)
(* met a failed refresh, an error of the device's stores, a call of an     *)
(* earlier session or a resume in the middle of a refresh.  Two isolates   *)
(* that refresh at once, or a kill between two writes, end no session; nor *)
(* does a store that the isolate cannot write, or a deletion that fails.   *)
EndsForCause == screen = "login" => why # {}

(* "offline or server-error opens never log the user out"                  *)
(* (session_gate.dart:18): a failed request does not end a session.        *)
EndsOnlyOnRefusal == screen = "login" => why \notin {{}, {"failure"}}

(* After a logout the server has learnt of, what a late refresh may write  *)
(* to the stores is of no use, until the next login.                       *)
SignedOutIsDead == "told" \in why => \A k \in DOMAIN store : ~Live(store[k])

(* No call waits for a refresh that is over.                               *)
WaitersAreServed == \A c \in Callers : act[c].pc = "wait" => act[Refresher].pc # "idle"

(* Liveness: once every pair is revoked or has expired, the map gives way  *)
(* to the login screen, whatever the refresh, the background isolate and   *)
(* the gate restore to the stores.                                         *)
AllDead == \A g \in 1 .. issued : Live(g) => g <= lapsed
DeadSessionEnds == screen = "map" /\ []AllDead ~> screen = "login"
=============================================================================
