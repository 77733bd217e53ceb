------------------------------ MODULE WebSession ------------------------------
(***************************************************************************)
(* The session of the web panel: a pair of tokens in the browser's store   *)
(* (auth.ts), shared by its tabs; the 401 handling of every call (api.ts); *)
(* the identity each tab caches (me.ts); the gate and the shell (App.tsx). *)
(*                                                                         *)
(* The server takes a token while its version is the account's.  An access *)
(* token also expires, long after it was issued, so any first attempt may  *)
(* be denied.  A pair is [acct, ver]: which of the pairs issued under one  *)
(* version is stored makes no difference here.                             *)
(***************************************************************************)
EXTENDS Integers, FiniteSets

CONSTANTS
    Tabs, Accounts,
    Slots,          \* calls of a tab that may be under way at once
    MaxVer          \* bound: changes of a password

Nobody == "nobody"
NoTok == [acct |-> Nobody, ver |-> 0]

ASSUME WebSessionAssumption ==
    /\ Nobody \notin Accounts
    /\ Slots \in Nat \ {0} /\ MaxVer \in Nat

VARIABLES
    version,        \* users.token_version
    store,          \* localStorage: the pair, NoTok when there is none
    tab,            \* what each tab shows and keeps in memory
    call,           \* the calls under way, by tab and slot
    excused         \* history: since the last login the user has logged out or
                    \* the network has failed a refresh

vars == <<version, store, tab, call, excused>>

Closed == [view |-> "closed", loading |-> TRUE, cache |-> Nobody, inflight |-> 0,
           event |-> FALSE, told |-> FALSE]
NoCall == [kind |-> "none", stage |-> "idle", tok |-> NoTok, app |-> FALSE]
Toks == [acct : Accounts \cup {Nobody}, ver : 0 .. MaxVer]
TabRecord == [view : {"closed", "login", "shell"}, loading : BOOLEAN,
              cache : Accounts \cup {Nobody}, inflight : 0 .. Slots,
              event : BOOLEAN, told : BOOLEAN]
CallRecord == [kind : {"none", "me", "page", "password", "login"},
               stage : {"idle", "sent", "refreshing", "refreshed", "replayed", "granted"},
               tok : Toks, app : BOOLEAN]
Calls == [1 .. Slots -> CallRecord]

TypeOK ==
    /\ version \in [Accounts -> 0 .. MaxVer]
    /\ store \in Toks
    /\ tab \in [Tabs -> TabRecord]
    /\ call \in [Tabs -> Calls]
    /\ excused \in BOOLEAN

Init ==
    /\ version = [a \in Accounts |-> 0]
    /\ store = NoTok
    /\ tab = [t \in Tabs |-> Closed]
    /\ call = [t \in Tabs |-> [s \in 1 .. Slots |-> NoCall]]
    /\ excused = TRUE

-----------------------------------------------------------------------------
(* Operators on a tab's record and its calls.                              *)

Valid(tok) == tok # NoTok /\ tok.ver = version[tok.acct]
Free(calls) == {s \in 1 .. Slots : calls[s] = NoCall}
FreeSlot(calls) == CHOOSE s \in Free(calls) : TRUE

Asking(kind, tok) == [kind |-> kind, stage |-> "sent", tok |-> tok, app |-> FALSE]

(* invalidate: the promise of a call under way is forgotten.               *)
Invalidated(b) == [b EXCEPT !.cache = Nobody, !.inflight = 0]

(* emit: the App renders again, behind its gate isAuthenticated, and the   *)
(* identity is dropped when there is no token.                             *)
Rendered(b, tok) ==
    IF tok = NoTok THEN [b EXCEPT !.view = "login", !.told = FALSE]
    ELSE [b EXCEPT !.view = "shell"]
Emitted(b, tok) ==
    IF b.view = "closed" THEN b
    ELSE IF tok = NoTok THEN Invalidated(Rendered(b, tok)) ELSE Rendered(b, tok)

(* loadMe, from a component that has just been mounted: it answers from    *)
(* the cache, or joins the call under way, or sends one.                   *)
NeedsMe(b) == b.cache = Nobody /\ b.inflight = 0
CanLoadMe(b, calls) == NeedsMe(b) => Free(calls) # {}
LoadMe(b, calls) == IF NeedsMe(b) THEN [b EXCEPT !.inflight = FreeSlot(calls)] ELSE b
LoadMeCalls(b, calls, tok) ==
    IF NeedsMe(b) THEN [calls EXCEPT ![FreeSlot(calls)] = Asking("me", tok)] ELSE calls

(* A write to the store: the tab that writes emits, and mounts the sidebar *)
(* and the top bar if it comes to the shell; the others get an event.      *)
Stored(t, tok, b, calls) ==
    LET seen == Emitted(b, tok)
        mounts == b.view = "login" /\ seen.view = "shell"
    IN  /\ mounts => CanLoadMe(seen, calls)
        /\ store' = tok
        /\ tab' = [u \in Tabs |->
              IF u = t THEN (IF mounts THEN LoadMe(seen, calls) ELSE seen)
              ELSE [tab[u] EXCEPT !.event = @ \/ (tab[u].view # "closed" /\ store # tok)]]
        /\ call' = [call EXCEPT ![t] = IF mounts THEN LoadMeCalls(seen, calls, tok) ELSE calls]

-----------------------------------------------------------------------------
(* The user.                                                               *)

(* The page is loaded, or loaded again: App's useMe asks for the identity, *)
(* and `loading` lasts until an answer that it waits for.                  *)
LoadPage(t) ==
    /\ \A s \in 1 .. Slots : call[t][s].kind # "password"
    /\ LET b == Rendered([Closed EXCEPT !.inflight = IF store = NoTok THEN 0 ELSE 1], store)
           me == [Asking("me", store) EXCEPT !.app = TRUE]
       IN  /\ tab' = [tab EXCEPT ![t] = b]
           /\ call' = [call EXCEPT ![t] = [s \in 1 .. Slots |->
                         IF s = 1 /\ store # NoTok THEN me ELSE NoCall]]
    /\ UNCHANGED <<version, store, excused>>

(* submit of the sign-in form; the password is the account's.              *)
SignIn(t, a) ==
    /\ tab[t].view = "login" /\ Free(call[t]) # {}
    /\ \A s \in 1 .. Slots : call[t][s].kind # "login"          \* submitting
    /\ call' = [call EXCEPT ![t][FreeSlot(call[t])] =
                    Asking("login", [acct |-> a, ver |-> 0])]
    /\ UNCHANGED <<version, store, tab, excused>>

(* logout: clearTokens.  The server is told nothing.                       *)
Logout(t) ==
    /\ tab[t].view = "shell"
    /\ Stored(t, NoTok, tab[t], call[t])
    /\ excused' = TRUE
    /\ UNCHANGED version

Active(t) == tab[t].view = "shell" /\ ~tab[t].loading /\ Free(call[t]) # {}

(* navigate: the App renders again, and the page it mounts uses the        *)
(* identity (MapArea.tsx, FamiliesPage.tsx, SettingsPage.tsx).             *)
Navigate(t) ==
    /\ tab[t].view = "shell"
    /\ LET b == [Rendered(tab[t], store) EXCEPT !.told = FALSE]
           mounts == b.view = "shell" /\ ~b.loading
       IN  /\ mounts => CanLoadMe(b, call[t])
           /\ tab' = [tab EXCEPT ![t] = IF mounts THEN LoadMe(b, call[t]) ELSE b]
           /\ call' = [call EXCEPT ![t] = IF mounts THEN LoadMeCalls(b, @, store) ELSE @]
    /\ UNCHANGED <<version, store, excused>>

(* A page asks the server for something.                                   *)
PageCalls(t) ==
    /\ Active(t) /\ \A s \in 1 .. Slots : call[t][s].kind # "page"
    /\ call' = [call EXCEPT ![t][FreeSlot(call[t])] = Asking("page", store)]
    /\ UNCHANGED <<version, store, tab, excused>>

(* savePassword, the form in order (passwordFormIssue).                    *)
SavePassword(t) ==
    /\ Active(t) /\ \A s \in 1 .. Slots : call[t][s].kind # "password"  \* passwordSaving
    /\ \A a \in Accounts : version[a] < MaxVer
    /\ call' = [call EXCEPT ![t][FreeSlot(call[t])] = Asking("password", store)]
    /\ tab' = [tab EXCEPT ![t].told = FALSE]
    /\ UNCHANGED <<version, store, excused>>

(* refreshMe, after the user joined or left a family: every consumer's     *)
(* effect runs again, the App's among them.                                *)
RefreshMe(t) ==
    /\ Active(t)
    /\ LET b == [Invalidated(tab[t]) EXCEPT !.loading = TRUE, !.told = FALSE]
           s == FreeSlot(call[t])
           calls == [r \in 1 .. Slots |-> [call[t][r] EXCEPT !.app = FALSE]]
       IN  IF store = NoTok                    \* rejected, and the catch returns
           THEN tab' = [tab EXCEPT ![t] = b] /\ call' = [call EXCEPT ![t] = calls]
           ELSE /\ tab' = [tab EXCEPT ![t] = [b EXCEPT !.inflight = s]]
                /\ call' = [call EXCEPT ![t] =
                              [calls EXCEPT ![s] = [Asking("me", store) EXCEPT !.app = TRUE]]]
    /\ UNCHANGED <<version, store, excused>>

-----------------------------------------------------------------------------
(* The server: ChangeMyPassword and Refresh, where the answer may be       *)
(* outdated when it arrives.  The other answers are given as they are      *)
(* taken: nothing distinguishes when they were given.                      *)

Serve(t, s) ==
    LET c == call[t][s]
        To(stage) == call' = [call EXCEPT ![t][s].stage = stage]
    IN  /\ \/ /\ c.kind = "password" /\ c.stage \in {"sent", "replayed"} /\ Valid(c.tok)
              /\ \A a \in Accounts : version[a] < MaxVer
              /\ To("granted")
              /\ version' = [version EXCEPT ![c.tok.acct] = @ + 1]
           \/ /\ c.stage = "refreshing" /\ Valid(c.tok)
              /\ To("refreshed") /\ UNCHANGED version
        /\ UNCHANGED <<store, tab, excused>>

-----------------------------------------------------------------------------
(* request: the answers, in the tab.                                       *)

(* clearTokens and RedirectToLogin, which the caller takes as a failure;   *)
(* the identity is invalidated before the caller's catch runs.             *)
Ended(t, s) == Stored(t, NoTok, Emitted(tab[t], NoTok), [call[t] EXCEPT ![s] = NoCall])

(* Mutant: a denied call ends the session without a refresh.               *)
EndedAtOnce(t, s) == Ended(t, s)

(* A 401: refreshTokens, with the refresh token stored by now.             *)
OnDenied(t, s) ==
    IF store = NoTok THEN Ended(t, s)
    ELSE /\ call' = [call EXCEPT ![t][s].stage = "refreshing", ![t][s].tok = store]
         /\ UNCHANGED <<store, tab>>

Denied(t, s) ==
    /\ call[t][s].kind # "login" /\ call[t][s].stage = "sent" /\ OnDenied(t, s)
    /\ UNCHANGED <<version, excused>>

(* setTokens, and the call once more, with the token stored by now.        *)
Refreshed(t, s) ==
    /\ call[t][s].stage = "refreshed"
    /\ Stored(t, call[t][s].tok, tab[t], [call[t] EXCEPT ![s].stage = "replayed"])
    /\ UNCHANGED <<version, excused>>

(* The server refuses the pair; or the limiter or the network does.        *)
Refused(t, s) ==
    /\ call[t][s].stage = "refreshing"
    /\ Ended(t, s)
    /\ excused' = (excused \/ Valid(call[t][s].tok))
    /\ UNCHANGED version

Granted(c) == c.stage \in {"sent", "replayed"} /\ Valid(c.tok)
Done(t, s) == call' = [call EXCEPT ![t][s] = NoCall]

(* The identity arrives: `cache = me`, and `inflight = null` whichever     *)
(* call is under way by now.                                               *)
MeArrives(t, s) ==
    LET c == call[t][s] IN
    /\ c.kind = "me" /\ Granted(c) /\ Done(t, s)
    /\ tab' = [tab EXCEPT ![t].cache = c.tok.acct, ![t].inflight = 0,
                          ![t].loading = @ /\ ~c.app]
    /\ UNCHANGED <<version, store, excused>>

(* The catch of loadMe invalidates; that of useMe ends the loading unless  *)
(* there is no token.                                                      *)
MeFailed(b, app) ==
    [Invalidated(b) EXCEPT !.loading = @ /\ ~(app /\ store # NoTok)]

(* A call fails for the network, or in its second attempt for the server,  *)
(* which ends no session.                                                  *)
CallFails(t, s) ==
    LET c == call[t][s] IN
    /\ c.stage \in {"sent", "replayed"} /\ Done(t, s)
    /\ tab' = IF c.kind = "me" THEN [tab EXCEPT ![t] = MeFailed(@, c.app)] ELSE tab
    /\ UNCHANGED <<version, store, excused>>

PageArrives(t, s) ==
    /\ call[t][s].kind = "page" /\ Granted(call[t][s]) /\ Done(t, s)
    /\ UNCHANGED <<version, store, tab, excused>>

PasswordArrives(t, s) ==
    /\ call[t][s].kind = "password" /\ call[t][s].stage = "granted" /\ Done(t, s)
    /\ tab' = [tab EXCEPT ![t].told = tab[t].view = "shell"]
    /\ UNCHANGED <<version, store, excused>>

SignedIn(t, s) ==
    /\ call[t][s].kind = "login"
    /\ LET a == call[t][s].tok.acct
       IN  Stored(t, [acct |-> a, ver |-> version[a]], tab[t], [call[t] EXCEPT ![s] = NoCall])
    /\ excused' = FALSE
    /\ UNCHANGED version

(* Mutants: without the listener of me.ts, and without that of auth.ts.    *)
StorageSeenByAuth(b) == Emitted(b, store)
StorageSeenByMe(b) == Invalidated(b)

(* Another tab's write, as this tab hears of it.                           *)
StorageSeen(b) == Invalidated(Emitted(b, store))

OnStorage(t) ==
    /\ tab[t].event
    /\ LET b == [StorageSeen(tab[t]) EXCEPT !.event = FALSE]
           mounts == tab[t].view = "login" /\ b.view = "shell"
       IN  /\ mounts => CanLoadMe(b, call[t])
           /\ tab' = [tab EXCEPT ![t] = IF mounts THEN LoadMe(b, call[t]) ELSE b]
           /\ call' = [call EXCEPT ![t] = IF mounts THEN LoadMeCalls(b, @, store) ELSE @]
    /\ UNCHANGED <<version, store, excused>>

-----------------------------------------------------------------------------
Answer(t, s) ==
    \/ Denied(t, s) \/ Refreshed(t, s) \/ Refused(t, s) \/ MeArrives(t, s) \/ CallFails(t, s)
    \/ PageArrives(t, s) \/ PasswordArrives(t, s) \/ SignedIn(t, s)

Next ==
    \E t \in Tabs :
       \/ LoadPage(t) \/ Logout(t) \/ Navigate(t) \/ PageCalls(t) \/ SavePassword(t)
       \/ RefreshMe(t) \/ OnStorage(t)
       \/ \E a \in Accounts : SignIn(t, a)
       \/ \E s \in 1 .. Slots : Serve(t, s) \/ Answer(t, s)

(* Calls are answered, and events delivered, in the end.                   *)
Fairness ==
    \A t \in Tabs :
       /\ WF_vars(OnStorage(t))
       /\ \A s \in 1 .. Slots : WF_vars(Serve(t, s)) /\ WF_vars(Answer(t, s))

Spec == Init /\ [][Next]_vars /\ Fairness

-----------------------------------------------------------------------------
(* Unless a password was changed, nothing but the user, or a refresh that  *)
(* the network has failed, ends a session, however many calls of however   *)
(* many tabs are denied and refreshed side by side, into whatever session  *)
(* they are answered (api.ts:47-63, 140-153).                              *)
SessionEndsForCause ==
    store = NoTok /\ (\A a \in Accounts : version[a] = 0) => excused

(* What a tab may show is decided for the account that is signed in.  No   *)
(* login, logout or refresh of another tab changes that once this one has  *)
(* heard of it (me.ts:51-56); only an answer of its own that comes late,   *)
(* to a call made for another account than the one signed in by now, does. *)
OfAnother(t) == ~tab[t].event /\ tab[t].cache \notin {Nobody, store.acct}
AnsweredLate(t) ==
    \E s \in 1 .. Slots :
       call'[t][s] # call[t][s] /\ call[t][s].tok.acct \notin {Nobody, store.acct}
IdentityIsOfSession ==
    [][\A t \in Tabs : OfAnother(t)' => OfAnother(t) \/ AnsweredLate(t)]_vars

(* A tab stays in the shell without a session only until it hears of the   *)
(* other tab's logout ("if another tab clears tokens, this tab reacts      *)
(* too", auth.ts:82).                                                      *)
ShellHasSession ==
    \A t \in Tabs : tab[t].view = "shell" => store # NoTok \/ tab[t].event

(* What App.tsx:4 says: "When authenticated: render the sidebar + top bar  *)
(* shell with the active page": once the identity is known the page, not   *)
(* the spinner, is shown.                                                  *)
SignedInReachesPage ==
    \A t \in Tabs : tab[t].view = "shell" /\ tab[t].cache # Nobody => ~tab[t].loading

(* What SettingsPage.tsx:294 says: "You are still signed in here."  While  *)
(* it is shown the session ends by the user's logout only.                 *)
StaysSignedIn ==
    [][\A t \in Tabs : tab[t].told /\ store' = NoTok => store = NoTok \/ excused']_vars
=============================================================================
