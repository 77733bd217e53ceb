--------------------------- MODULE WebSessionProofs ---------------------------
(***************************************************************************)
(* Theorems about WebSession, for any number of tabs, of accounts and of   *)
(* calls under way, and any number of changes of a password; and about the *)
(* paths of WebApi's calls.                                                *)
(***************************************************************************)
EXTENDS WebSession, WebApi, TLAPS

-----------------------------------------------------------------------------
(* The operators on a tab and its calls keep their types.                  *)

LEMMA ConstantTypes == NoTok \in Toks /\ NoCall \in CallRecord /\ Closed \in TabRecord
  BY WebSessionAssumption DEF NoTok, Toks, NoCall, CallRecord, Closed, TabRecord

LEMMA FreeSlotType ==
  ASSUME NEW calls, Free(calls) # {}
  PROVE  FreeSlot(calls) \in 1 .. Slots /\ calls[FreeSlot(calls)] = NoCall
  BY DEF Free, FreeSlot

LEMMA EmittedType ==
  ASSUME NEW b \in TabRecord, NEW tok
  PROVE  /\ Invalidated(b) \in TabRecord
         /\ Rendered(b, tok) \in TabRecord
         /\ Emitted(b, tok) \in TabRecord
  <1>0. 0 \in 0 .. Slots
    BY WebSessionAssumption
  <1>1. \A x \in TabRecord : Invalidated(x) \in TabRecord
    BY <1>0 DEF Invalidated, TabRecord
  <1>2. Rendered(b, tok) \in TabRecord
    BY DEF Rendered, TabRecord
  <1>3. Invalidated(Rendered(b, tok)) \in TabRecord
    BY <1>1, <1>2
  <1> QED
    BY <1>1, <1>2, <1>3 DEF Emitted

LEMMA LoadMeFields ==
  ASSUME NEW b \in TabRecord, NEW calls
  PROVE  /\ LoadMe(b, calls).view = b.view
         /\ LoadMe(b, calls).event = b.event
         /\ LoadMe(b, calls).cache = b.cache
  BY DEF LoadMe, TabRecord

(* C is a set of calls that has every call of the tab.                     *)
LEMMA LoadMeType ==
  ASSUME NEW C, NEW b \in TabRecord, NEW calls \in [1 .. Slots -> C], NEW tok,
         Asking("me", tok) \in C, CanLoadMe(b, calls)
  PROVE  /\ LoadMe(b, calls) \in TabRecord
         /\ LoadMeCalls(b, calls, tok) \in [1 .. Slots -> C]
  <1>1. CASE NeedsMe(b)
    <2>1. FreeSlot(calls) \in 1 .. Slots
      BY <1>1, FreeSlotType DEF CanLoadMe
    <2>2. FreeSlot(calls) \in 0 .. Slots
      BY <2>1, WebSessionAssumption
    <2>3. LoadMeCalls(b, calls, tok) \in [1 .. Slots -> C]
      BY <1>1, <2>1 DEF LoadMeCalls
    <2>4. LoadMe(b, calls) = [b EXCEPT !.inflight = FreeSlot(calls)]
      BY <1>1 DEF LoadMe
    <2> QED
      BY <2>2, <2>3, <2>4 DEF TabRecord
  <1>2. CASE ~NeedsMe(b)
    BY <1>2 DEF LoadMe, LoadMeCalls
  <1> QED
    BY <1>1, <1>2

LEMMA StoredType ==
  ASSUME TypeOK, NEW C, call \in [Tabs -> [1 .. Slots -> C]],
         NEW t \in Tabs, NEW tok, NEW b \in TabRecord, NEW calls \in [1 .. Slots -> C],
         Asking("me", tok) \in C, Stored(t, tok, b, calls)
  PROVE  /\ store' = tok
         /\ tab' \in [Tabs -> TabRecord]
         /\ call' \in [Tabs -> [1 .. Slots -> C]]
  <1> DEFINE seen == Emitted(b, tok)
             mounts == b.view = "login" /\ seen.view = "shell"
             mine == IF mounts THEN LoadMe(seen, calls) ELSE seen
             asks == IF mounts THEN LoadMeCalls(seen, calls, tok) ELSE calls
  <1>1. seen \in TabRecord
    BY EmittedType
  <1>2. mounts => CanLoadMe(seen, calls)
    BY DEF Stored
  <1>3. mine \in TabRecord /\ asks \in [1 .. Slots -> C]
    BY <1>1, <1>2, LoadMeType
  <1>4. \A u \in Tabs :
           [tab[u] EXCEPT !.event = @ \/ (tab[u].view # "closed" /\ store # tok)] \in TabRecord
    BY DEF TypeOK, TabRecord
  <1>5. store' = tok /\ call' = [call EXCEPT ![t] = asks]
    BY DEF Stored
  <1>6. tab' = [u \in Tabs |->
           IF u = t THEN mine
           ELSE [tab[u] EXCEPT !.event = @ \/ (tab[u].view # "closed" /\ store # tok)]]
    BY DEF Stored
  <1> HIDE DEF mine, asks
  <1>7. tab' \in [Tabs -> TabRecord]
    BY <1>3, <1>4, <1>6
  <1>8. call' \in [Tabs -> [1 .. Slots -> C]]
    BY <1>3, <1>5
  <1> QED
    BY <1>5, <1>7, <1>8

-----------------------------------------------------------------------------
(* The inductive invariant: every pair that is stored, or travels with a   *)
(* call, was issued, and only a pair is ever refreshed.                    *)
IssuedToks ==
    {tok \in Toks : tok = NoTok \/ (tok.acct \in Accounts /\ tok.ver <= version[tok.acct])}
IssuedCalls ==
    {c \in CallRecord : c.tok \in IssuedToks
                        /\ (c.kind = "login" \/ c.stage \in {"refreshing", "refreshed"}
                            => c.tok # NoTok)}
Issued == store \in IssuedToks /\ call \in [Tabs -> [1 .. Slots -> IssuedCalls]]
IInv == TypeOK /\ Issued

LEMMA NoCallIssued == NoTok \in IssuedToks /\ NoCall \in IssuedCalls
  <1>1. NoTok \in IssuedToks
    BY ConstantTypes DEF IssuedToks
  <1>2. NoCall.tok = NoTok /\ NoCall.stage = "idle" /\ NoCall.kind = "none"
    BY DEF NoCall
  <1> QED
    BY <1>1, <1>2, ConstantTypes DEF IssuedCalls

LEMMA IInvInit == Init => IInv
  <1> SUFFICES ASSUME Init PROVE IInv
    OBVIOUS
  <1>1. TypeOK
    BY ConstantTypes, WebSessionAssumption DEF Init, TypeOK, Calls
  <1>3. Issued
    BY NoCallIssued DEF Init, Issued
  <1> QED
    BY <1>1, <1>3 DEF IInv

LEMMA AskingIssued ==
  ASSUME NEW kind \in {"me", "page", "password", "login"}, NEW tok \in IssuedToks,
         kind = "login" => tok # NoTok
  PROVE  /\ Asking(kind, tok) \in IssuedCalls
         /\ [Asking(kind, tok) EXCEPT !.app = TRUE] \in IssuedCalls
  BY DEF Asking, IssuedCalls, IssuedToks, CallRecord

(* What a step that changes no password has to show.                       *)
LEMMA IssuedSame ==
  ASSUME IInv, UNCHANGED version, store' \in IssuedToks, tab' \in [Tabs -> TabRecord],
         call' \in [Tabs -> [1 .. Slots -> IssuedCalls]], excused' \in BOOLEAN
  PROVE  IInv'
  <1>1. IssuedToks' = IssuedToks
    BY DEF IssuedToks
  <1>2. IssuedCalls' = IssuedCalls
    BY <1>1 DEF IssuedCalls
  <1>3. store' \in Toks /\ call' \in [Tabs -> Calls]
    BY DEF IssuedToks, IssuedCalls, Calls
  <1>4. TypeOK'
    BY <1>3 DEF IInv, TypeOK
  <1>5. Issued'
    BY <1>1, <1>2 DEF Issued
  <1> QED
    BY <1>4, <1>5 DEF IInv

-----------------------------------------------------------------------------
(* One lemma per action.                                                   *)

LEMMA StoredStep ==
  ASSUME IInv, NEW t \in Tabs, NEW tok \in IssuedToks, NEW b \in TabRecord,
         NEW calls \in [1 .. Slots -> IssuedCalls],
         Stored(t, tok, b, calls), UNCHANGED version, excused' \in BOOLEAN
  PROVE  IInv'
  <1>1. Asking("me", tok) \in IssuedCalls
    BY AskingIssued
  <1>2. /\ store' = tok
        /\ tab' \in [Tabs -> TabRecord]
        /\ call' \in [Tabs -> [1 .. Slots -> IssuedCalls]]
    BY <1>1, StoredType DEF IInv, Issued
  <1> QED
    BY <1>2, IssuedSame

LEMMA EndedStep ==
  ASSUME IInv, NEW t \in Tabs, NEW s \in 1 .. Slots, Ended(t, s), UNCHANGED version,
         excused' \in BOOLEAN
  PROVE  IInv'
  <1>1. Emitted(tab[t], NoTok) \in TabRecord
    BY EmittedType DEF IInv, TypeOK
  <1>2. [call[t] EXCEPT ![s] = NoCall] \in [1 .. Slots -> IssuedCalls]
    BY NoCallIssued DEF IInv, Issued
  <1> QED
    BY <1>1, <1>2, NoCallIssued, StoredStep DEF Ended

LEMMA LoadPageStep ==
  ASSUME IInv, NEW t \in Tabs, LoadPage(t)
  PROVE  IInv'
  <1> DEFINE c == [Closed EXCEPT !.inflight = IF store = NoTok THEN 0 ELSE 1]
             me == [Asking("me", store) EXCEPT !.app = TRUE]
             mine == [s \in 1 .. Slots |-> IF s = 1 /\ store # NoTok THEN me ELSE NoCall]
  <1>1. 0 \in 0 .. Slots /\ 1 \in 0 .. Slots
    BY WebSessionAssumption
  <1>2. c \in TabRecord
    BY <1>1, ConstantTypes DEF TabRecord
  <1>3. Rendered(c, store) \in TabRecord
    BY <1>2, EmittedType
  <1>4. me \in IssuedCalls
    BY AskingIssued DEF IInv, Issued
  <1>5. mine \in [1 .. Slots -> IssuedCalls]
    BY <1>4, NoCallIssued
  <1>6. /\ tab' = [tab EXCEPT ![t] = Rendered(c, store)]
        /\ call' = [call EXCEPT ![t] = mine]
        /\ UNCHANGED <<version, store, excused>>
    BY DEF LoadPage
  <1> HIDE DEF mine, c
  <1>7. tab' \in [Tabs -> TabRecord] /\ call' \in [Tabs -> [1 .. Slots -> IssuedCalls]]
    BY <1>3, <1>5, <1>6 DEF IInv, TypeOK, Issued
  <1> QED
    BY <1>6, <1>7, IssuedSame DEF IInv, TypeOK, Issued

(* The steps that only send a call, in a slot that is free.                *)
LEMMA SendStep ==
  ASSUME IInv, NEW t \in Tabs, NEW kind \in {"me", "page", "password", "login"},
         NEW tok \in IssuedToks, kind = "login" => tok # NoTok, Free(call[t]) # {},
         call' = [call EXCEPT ![t][FreeSlot(call[t])] = Asking(kind, tok)],
         tab' \in [Tabs -> TabRecord], UNCHANGED <<version, store, excused>>
  PROVE  IInv'
  <1>1. FreeSlot(call[t]) \in 1 .. Slots
    BY FreeSlotType
  <1>2. Asking(kind, tok) \in IssuedCalls
    BY AskingIssued
  <1>3. call' \in [Tabs -> [1 .. Slots -> IssuedCalls]]
    BY <1>1, <1>2 DEF IInv, Issued
  <1> QED
    BY <1>3, IssuedSame DEF IInv, TypeOK, Issued

LEMMA NavigateStep ==
  ASSUME IInv, NEW t \in Tabs, Navigate(t)
  PROVE  IInv'
  <1> DEFINE b == [Rendered(tab[t], store) EXCEPT !.told = FALSE]
             mounts == b.view = "shell" /\ ~b.loading
             mine == IF mounts THEN LoadMe(b, call[t]) ELSE b
             asks == IF mounts THEN LoadMeCalls(b, call[t], store) ELSE call[t]
  <1>1. Rendered(tab[t], store) \in TabRecord
    BY EmittedType DEF IInv, TypeOK
  <1>2. b \in TabRecord
    BY <1>1 DEF TabRecord
  <1>3. mounts => CanLoadMe(b, call[t])
    BY DEF Navigate
  <1>4. Asking("me", store) \in IssuedCalls /\ call[t] \in [1 .. Slots -> IssuedCalls]
    BY AskingIssued DEF IInv, Issued
  <1> HIDE DEF b
  <1>5. mine \in TabRecord /\ asks \in [1 .. Slots -> IssuedCalls]
    BY <1>2, <1>3, <1>4, LoadMeType
  <1>6. /\ tab' = [tab EXCEPT ![t] = mine]
        /\ call' = [call EXCEPT ![t] = asks]
        /\ UNCHANGED <<version, store, excused>>
    BY DEF Navigate, b
  <1> HIDE DEF mine, asks
  <1>7. tab' \in [Tabs -> TabRecord] /\ call' \in [Tabs -> [1 .. Slots -> IssuedCalls]]
    BY <1>5, <1>6 DEF IInv, TypeOK, Issued
  <1> QED
    BY <1>6, <1>7, IssuedSame DEF IInv, TypeOK, Issued

LEMMA OnStorageStep ==
  ASSUME IInv, NEW t \in Tabs, OnStorage(t)
  PROVE  IInv'
  <1> DEFINE b == [StorageSeen(tab[t]) EXCEPT !.event = FALSE]
             mounts == tab[t].view = "login" /\ b.view = "shell"
             mine == IF mounts THEN LoadMe(b, call[t]) ELSE b
             asks == IF mounts THEN LoadMeCalls(b, call[t], store) ELSE call[t]
  <1>1. StorageSeen(tab[t]) \in TabRecord
    BY EmittedType DEF IInv, TypeOK, StorageSeen
  <1>2. b \in TabRecord
    BY <1>1 DEF TabRecord
  <1>3. mounts => CanLoadMe(b, call[t])
    BY DEF OnStorage
  <1>4. Asking("me", store) \in IssuedCalls /\ call[t] \in [1 .. Slots -> IssuedCalls]
    BY AskingIssued DEF IInv, Issued
  <1> HIDE DEF b
  <1>5. mine \in TabRecord /\ asks \in [1 .. Slots -> IssuedCalls]
    BY <1>2, <1>3, <1>4, LoadMeType
  <1>6. /\ tab' = [tab EXCEPT ![t] = mine]
        /\ call' = [call EXCEPT ![t] = asks]
        /\ UNCHANGED <<version, store, excused>>
    BY DEF OnStorage, b
  <1> HIDE DEF mine, asks
  <1>7. tab' \in [Tabs -> TabRecord] /\ call' \in [Tabs -> [1 .. Slots -> IssuedCalls]]
    BY <1>5, <1>6 DEF IInv, TypeOK, Issued
  <1> QED
    BY <1>6, <1>7, IssuedSame DEF IInv, TypeOK, Issued

LEMMA RefreshMeStep ==
  ASSUME IInv, NEW t \in Tabs, RefreshMe(t)
  PROVE  IInv'
  <1> DEFINE b == [Invalidated(tab[t]) EXCEPT !.loading = TRUE, !.told = FALSE]
             s == FreeSlot(call[t])
             calls == [r \in 1 .. Slots |-> [call[t][r] EXCEPT !.app = FALSE]]
             me == [Asking("me", store) EXCEPT !.app = TRUE]
  <1>1. Invalidated(tab[t]) \in TabRecord
    BY EmittedType DEF IInv, TypeOK
  <1>2. b \in TabRecord
    BY <1>1 DEF TabRecord
  <1>3. s \in 1 .. Slots /\ s \in 0 .. Slots
    BY FreeSlotType, WebSessionAssumption DEF RefreshMe, Active
  <1>4. \A c \in IssuedCalls : [c EXCEPT !.app = FALSE] \in IssuedCalls
    BY DEF IssuedCalls, CallRecord
  <1>5. calls \in [1 .. Slots -> IssuedCalls]
    BY <1>4 DEF IInv, Issued
  <1>6. me \in IssuedCalls
    BY AskingIssued DEF IInv, Issued
  <1>7. UNCHANGED <<version, store, excused>>
    BY DEF RefreshMe
  <1> HIDE DEF b, s, calls, me
  <1>8. CASE store = NoTok
    <2>1. tab' = [tab EXCEPT ![t] = b] /\ call' = [call EXCEPT ![t] = calls]
      BY <1>8 DEF RefreshMe, b, calls
    <2>2. tab' \in [Tabs -> TabRecord] /\ call' \in [Tabs -> [1 .. Slots -> IssuedCalls]]
      BY <1>2, <1>5, <2>1 DEF IInv, TypeOK, Issued
    <2> QED
      BY <1>7, <2>2, IssuedSame DEF IInv, TypeOK, Issued
  <1>9. CASE store # NoTok
    <2>1. /\ tab' = [tab EXCEPT ![t] = [b EXCEPT !.inflight = s]]
          /\ call' = [call EXCEPT ![t] = [calls EXCEPT ![s] = me]]
      BY <1>9 DEF RefreshMe, b, s, calls, me
    <2>2. [b EXCEPT !.inflight = s] \in TabRecord
      BY <1>2, <1>3 DEF TabRecord
    <2>3. [calls EXCEPT ![s] = me] \in [1 .. Slots -> IssuedCalls]
      BY <1>3, <1>5, <1>6
    <2>4. tab' \in [Tabs -> TabRecord] /\ call' \in [Tabs -> [1 .. Slots -> IssuedCalls]]
      BY <2>1, <2>2, <2>3 DEF IInv, TypeOK, Issued
    <2> QED
      BY <1>7, <2>4, IssuedSame DEF IInv, TypeOK, Issued
  <1> QED
    BY <1>8, <1>9

LEMMA PageCallsStep ==
  ASSUME IInv, NEW t \in Tabs, PageCalls(t)
  PROVE  IInv'
  BY SendStep DEF PageCalls, Active, IInv, TypeOK, Issued

LEMMA SignInStep ==
  ASSUME IInv, NEW t \in Tabs, NEW a \in Accounts, SignIn(t, a)
  PROVE  IInv'
  <1>1. 0 <= version[a] /\ 0 \in 0 .. MaxVer
    BY WebSessionAssumption DEF IInv, TypeOK
  <1>2. [acct |-> a, ver |-> 0] \in IssuedToks /\ [acct |-> a, ver |-> 0] # NoTok
    BY <1>1, WebSessionAssumption DEF IssuedToks, Toks, NoTok
  <1> QED
    BY <1>2, SendStep DEF SignIn, IInv, TypeOK

LEMMA SavePasswordStep ==
  ASSUME IInv, NEW t \in Tabs, SavePassword(t)
  PROVE  IInv'
  <1>1. tab' \in [Tabs -> TabRecord]
    <2>1. [tab[t] EXCEPT !.told = FALSE] \in TabRecord
      BY DEF IInv, TypeOK, TabRecord
    <2> QED
      BY <2>1 DEF SavePassword, IInv, TypeOK
  <1> QED
    BY <1>1, SendStep DEF SavePassword, Active, IInv, Issued

LEMMA LogoutStep ==
  ASSUME IInv, NEW t \in Tabs, Logout(t)
  PROVE  IInv'
  <1>1. tab[t] \in TabRecord /\ call[t] \in [1 .. Slots -> IssuedCalls] /\ excused' \in BOOLEAN
    BY DEF Logout, IInv, TypeOK, Issued
  <1>2. Stored(t, NoTok, tab[t], call[t]) /\ UNCHANGED version
    BY DEF Logout
  <1> QED
    BY <1>1, <1>2, NoCallIssued, StoredStep

(* The pair of an account as it is issued now.                             *)
LEMMA SignedInStep ==
  ASSUME IInv, NEW t \in Tabs, NEW s \in 1 .. Slots, SignedIn(t, s)
  PROVE  IInv'
  <1> DEFINE a == call[t][s].tok.acct
  <1>1. call[t][s] \in IssuedCalls
    BY DEF IInv, Issued
  <1>2. PICK x : x = [acct |-> a, ver |-> version[a]]
    OBVIOUS
  <1>3. [call[t] EXCEPT ![s] = NoCall] \in [1 .. Slots -> IssuedCalls]
    BY NoCallIssued DEF IInv, Issued
  <1>4. tab[t] \in TabRecord /\ excused' \in BOOLEAN
    BY DEF IInv, TypeOK, SignedIn
  <1>5. Stored(t, x, tab[t], [call[t] EXCEPT ![s] = NoCall]) /\ UNCHANGED version
    BY <1>2 DEF SignedIn
  <1>6. x \in IssuedToks
    <2>1. a \in Accounts
      BY <1>1 DEF IssuedCalls, IssuedToks, Toks, SignedIn
    <2>2. version[a] \in 0 .. MaxVer /\ version[a] <= version[a]
      BY <2>1 DEF IInv, TypeOK
    <2> QED
      BY <1>2, <2>1, <2>2 DEF IssuedToks, Toks
  <1> QED
    BY <1>3, <1>4, <1>5, <1>6, StoredStep

(* The steps that take an answer and free its slot.                        *)
LEMMA DoneStep ==
  ASSUME IInv, NEW t \in Tabs, NEW s \in 1 .. Slots, Done(t, s),
         tab' \in [Tabs -> TabRecord], UNCHANGED <<version, store, excused>>
  PROVE  IInv'
  <1>1. call' \in [Tabs -> [1 .. Slots -> IssuedCalls]]
    BY NoCallIssued DEF Done, IInv, Issued
  <1> QED
    BY <1>1, IssuedSame DEF IInv, TypeOK, Issued

LEMMA MeArrivesStep ==
  ASSUME IInv, NEW t \in Tabs, NEW s \in 1 .. Slots, MeArrives(t, s)
  PROVE  IInv'
  <1>1. call[t][s] \in IssuedCalls /\ 0 \in 0 .. Slots /\ tab \in [Tabs -> TabRecord]
    BY WebSessionAssumption DEF IInv, TypeOK, Issued
  <1>2. call[t][s].tok.acct \in Accounts \cup {Nobody} /\ call[t][s].app \in BOOLEAN
    BY <1>1 DEF IssuedCalls, IssuedToks, CallRecord, Toks
  <1> DEFINE mine == [tab[t] EXCEPT !.cache = call[t][s].tok.acct, !.inflight = 0,
                                    !.loading = @ /\ ~call[t][s].app]
  <1>3. mine \in TabRecord
    BY <1>1, <1>2 DEF TabRecord
  <1>4. tab' = [tab EXCEPT ![t] = mine]
    BY <1>1 DEF MeArrives
  <1> HIDE DEF mine
  <1>5. tab' \in [Tabs -> TabRecord]
    BY <1>1, <1>3, <1>4
  <1> QED
    BY <1>5, DoneStep DEF MeArrives

LEMMA CallFailsStep ==
  ASSUME IInv, NEW t \in Tabs, NEW s \in 1 .. Slots, CallFails(t, s)
  PROVE  IInv'
  <1>1. tab \in [Tabs -> TabRecord]
    BY DEF IInv, TypeOK
  <1>2. Invalidated(tab[t]) \in TabRecord
    BY <1>1, EmittedType
  <1>3. MeFailed(tab[t], call[t][s].app) \in TabRecord
    BY <1>2 DEF MeFailed, TabRecord
  <1>4. tab' \in [Tabs -> TabRecord]
    BY <1>1, <1>3 DEF CallFails
  <1> QED
    BY <1>4, DoneStep DEF CallFails

LEMMA PageArrivesStep ==
  ASSUME IInv, NEW t \in Tabs, NEW s \in 1 .. Slots, PageArrives(t, s)
  PROVE  IInv'
  BY DoneStep DEF PageArrives, IInv, TypeOK

LEMMA PasswordArrivesStep ==
  ASSUME IInv, NEW t \in Tabs, NEW s \in 1 .. Slots, PasswordArrives(t, s)
  PROVE  IInv'
  <1>1. PICK told \in BOOLEAN : tab' = [tab EXCEPT ![t].told = told]
    BY DEF PasswordArrives
  <1>2. [tab[t] EXCEPT !.told = told] \in TabRecord
    BY DEF IInv, TypeOK, TabRecord
  <1>3. tab' \in [Tabs -> TabRecord]
    BY <1>1, <1>2 DEF IInv, TypeOK
  <1> QED
    BY <1>3, DoneStep DEF PasswordArrives

LEMMA DeniedStep ==
  ASSUME IInv, NEW t \in Tabs, NEW s \in 1 .. Slots, Denied(t, s)
  PROVE  IInv'
  <1>1. CASE store = NoTok
    BY <1>1, EndedStep DEF Denied, OnDenied, IInv, TypeOK
  <1>2. CASE store # NoTok
    <2>1. call' = [call EXCEPT ![t][s].stage = "refreshing", ![t][s].tok = store]
      BY <1>2 DEF Denied, OnDenied
    <2>2. call[t][s] \in IssuedCalls /\ store \in IssuedToks /\ store \in Toks
      BY DEF IInv, TypeOK, Issued
    <2>3. [call[t][s] EXCEPT !.stage = "refreshing", !.tok = store] \in IssuedCalls
      BY <1>2, <2>2 DEF IssuedCalls, CallRecord
    <2>4. call' \in [Tabs -> [1 .. Slots -> IssuedCalls]]
      BY <2>1, <2>3 DEF IInv, Issued
    <2> QED
      BY <1>2, <2>4, IssuedSame DEF Denied, OnDenied, IInv, TypeOK, Issued
  <1> QED
    BY <1>1, <1>2

LEMMA RefreshedStep ==
  ASSUME IInv, NEW t \in Tabs, NEW s \in 1 .. Slots, Refreshed(t, s)
  PROVE  IInv'
  <1>1. call[t][s] \in IssuedCalls
    BY DEF IInv, Issued
  <1>2. [call[t][s] EXCEPT !.stage = "replayed"] \in IssuedCalls
    BY <1>1 DEF IssuedCalls, CallRecord
  <1>3. [call[t] EXCEPT ![s].stage = "replayed"] \in [1 .. Slots -> IssuedCalls]
    BY <1>2 DEF IInv, Issued
  <1>4. call[t][s].tok \in IssuedToks
    BY <1>1 DEF IssuedCalls
  <1>5. tab[t] \in TabRecord /\ excused' \in BOOLEAN
    BY DEF Refreshed, IInv, TypeOK
  <1> QED
    BY <1>3, <1>4, <1>5, StoredStep DEF Refreshed

LEMMA RefusedStep ==
  ASSUME IInv, NEW t \in Tabs, NEW s \in 1 .. Slots, Refused(t, s)
  PROVE  IInv'
  <1>1. excused' \in BOOLEAN
    BY DEF Refused, Valid, IInv, TypeOK
  <1> QED
    BY <1>1, EndedStep DEF Refused

LEMMA ServeStep ==
  ASSUME IInv, NEW t \in Tabs, NEW s \in 1 .. Slots, Serve(t, s)
  PROVE  IInv'
  <1> DEFINE c == call[t][s]
  <1>1. c \in IssuedCalls
    BY DEF IInv, Issued
  <1>2. CASE c.stage = "refreshing" /\ call' = [call EXCEPT ![t][s].stage = "refreshed"]
             /\ UNCHANGED version
    <2>1. [c EXCEPT !.stage = "refreshed"] \in IssuedCalls
      BY <1>1, <1>2 DEF IssuedCalls, CallRecord
    <2>2. call' \in [Tabs -> [1 .. Slots -> IssuedCalls]]
      BY <1>2, <2>1 DEF IInv, Issued
    <2> QED
      BY <1>2, <2>2, IssuedSame DEF Serve, IInv, TypeOK, Issued
  <1>3. CASE /\ Valid(c.tok) /\ \A a \in Accounts : version[a] < MaxVer
             /\ c.kind = "password"
             /\ call' = [call EXCEPT ![t][s].stage = "granted"]
             /\ version' = [version EXCEPT ![c.tok.acct] = @ + 1]
    <2>1. c.tok.acct \in Accounts
      BY <1>1, <1>3 DEF Valid, IssuedCalls, IssuedToks
    <2>2. /\ version' \in [Accounts -> 0 .. MaxVer]
          /\ \A a \in Accounts : version[a] <= version'[a]
      BY <1>3, <2>1, WebSessionAssumption DEF IInv, TypeOK
    <2>3. IssuedToks \subseteq IssuedToks'
      BY <2>2 DEF IssuedToks, Toks, IInv, TypeOK
    <2>4. IssuedCalls \subseteq IssuedCalls'
      BY <2>3 DEF IssuedCalls
    <2>5. [c EXCEPT !.stage = "granted"] \in IssuedCalls
      BY <1>1, <1>3 DEF IssuedCalls, CallRecord
    <2>6. call' \in [Tabs -> [1 .. Slots -> IssuedCalls]]
      BY <1>3, <2>5 DEF IInv, Issued
    <2>7. call' \in [Tabs -> Calls]
      BY <2>6 DEF IssuedCalls, Calls
    <2>8. UNCHANGED <<store, tab, excused>>
      BY DEF Serve
    <2>9. TypeOK'
      BY <2>2, <2>7, <2>8 DEF IInv, TypeOK
    <2>10. Issued'
      BY <2>3, <2>4, <2>6, <2>8 DEF IInv, Issued
    <2> QED
      BY <2>9, <2>10 DEF IInv
  <1> QED
    BY <1>2, <1>3 DEF Serve

LEMMA IInvStep == IInv /\ [Next]_vars => IInv'
  <1> SUFFICES ASSUME IInv, [Next]_vars PROVE IInv'
    OBVIOUS
  <1>1. CASE Next
    <2> SUFFICES ASSUME NEW t \in Tabs,
            \/ LoadPage(t) \/ Logout(t) \/ Navigate(t) \/ PageCalls(t) \/ SavePassword(t)
            \/ RefreshMe(t) \/ OnStorage(t)
            \/ \E a \in Accounts : SignIn(t, a)
            \/ \E s \in 1 .. Slots : Serve(t, s) \/ Answer(t, s)
          PROVE IInv'
      BY <1>1 DEF Next
    <2>1. ASSUME NEW s \in 1 .. Slots, Answer(t, s) PROVE IInv'
      BY <2>1, DeniedStep, RefreshedStep, RefusedStep, MeArrivesStep, CallFailsStep,
         PageArrivesStep, PasswordArrivesStep, SignedInStep DEF Answer
    <2> QED
      BY <2>1, LoadPageStep, LogoutStep, NavigateStep, PageCallsStep, SavePasswordStep,
         RefreshMeStep, OnStorageStep, SignInStep, ServeStep
  <1>2. CASE UNCHANGED vars
    BY <1>2 DEF vars, IInv, TypeOK, Issued, IssuedCalls, IssuedToks
  <1> QED
    BY <1>1, <1>2

LEMMA InvariantHolds == Spec => []IInv
  BY IInvInit, IInvStep, PTL DEF Spec

(* Every reachable state of the browser's store, of its tabs and of their  *)
(* calls is of its type.                                                   *)
THEOREM TypeCorrect == Spec => []TypeOK
  BY InvariantHolds, PTL DEF IInv

-----------------------------------------------------------------------------
(* A session that no changed password has revoked.                         *)

(* Where no password was changed the server takes whatever pair it issued. *)
LEMMA IssuedIsValid ==
  ASSUME IInv, \A a \in Accounts : version[a] = 0, NEW tok \in IssuedToks, tok # NoTok
  PROVE  Valid(tok)
  BY DEF IssuedToks, Toks, Valid

(* The steps that touch what this is about.                                *)
LEMMA StoreSteps ==
  ASSUME [Next]_vars
  PROVE  \/ \E t \in Tabs : Logout(t)
         \/ \E t \in Tabs, s \in 1 .. Slots :
               Serve(t, s) \/ Denied(t, s) \/ Refreshed(t, s) \/ Refused(t, s) \/ SignedIn(t, s)
         \/ UNCHANGED <<version, store, excused>>
  <1>1. CASE Next
    <2> SUFFICES ASSUME NEW t \in Tabs,
            \/ LoadPage(t) \/ Navigate(t) \/ PageCalls(t) \/ SavePassword(t)
            \/ RefreshMe(t) \/ OnStorage(t)
            \/ \E a \in Accounts : SignIn(t, a)
            \/ \E s \in 1 .. Slots :
                  MeArrives(t, s) \/ CallFails(t, s) \/ PageArrives(t, s) \/ PasswordArrives(t, s)
          PROVE UNCHANGED <<version, store, excused>>
      BY <1>1 DEF Next, Answer
    <2>1. CASE LoadPage(t) BY <2>1 DEF LoadPage
    <2>2. CASE Navigate(t) BY <2>2 DEF Navigate
    <2>3. CASE PageCalls(t) BY <2>3 DEF PageCalls
    <2>4. CASE SavePassword(t) BY <2>4 DEF SavePassword
    <2>5. CASE RefreshMe(t) BY <2>5 DEF RefreshMe
    <2>6. CASE OnStorage(t) BY <2>6 DEF OnStorage
    <2>7. CASE \E a \in Accounts : SignIn(t, a) BY <2>7 DEF SignIn
    <2>8. CASE \E s \in 1 .. Slots : MeArrives(t, s) BY <2>8 DEF MeArrives
    <2>9. CASE \E s \in 1 .. Slots : CallFails(t, s) BY <2>9 DEF CallFails
    <2>10. CASE \E s \in 1 .. Slots : PageArrives(t, s) BY <2>10 DEF PageArrives
    <2>11. CASE \E s \in 1 .. Slots : PasswordArrives(t, s) BY <2>11 DEF PasswordArrives
    <2> QED
      BY <2>1, <2>2, <2>3, <2>4, <2>5, <2>6, <2>7, <2>8, <2>9, <2>10, <2>11
  <1>2. CASE UNCHANGED vars
    BY <1>2 DEF vars
  <1> QED
    BY <1>1, <1>2

LEMMA CauseStep == IInv /\ SessionEndsForCause /\ [Next]_vars => SessionEndsForCause'
  <1> SUFFICES ASSUME IInv, SessionEndsForCause, [Next]_vars,
                      store' = NoTok, \A a \in Accounts : version'[a] = 0
               PROVE  excused'
    BY DEF SessionEndsForCause
  <1>1. \A a \in Accounts : version[a] = 0
    <2>1. ASSUME NEW t \in Tabs, NEW s \in 1 .. Slots, Serve(t, s)
          PROVE  \A a \in Accounts : version[a] <= version'[a]
      <3>1. call[t][s] \in IssuedCalls
        BY DEF IInv, Issued
      <3> QED
        BY <2>1, <3>1 DEF Serve, IInv, TypeOK
    <2>2. (\A a \in Accounts : version[a] <= version'[a]) \/ UNCHANGED version
      BY <2>1, StoreSteps DEF Logout, Denied, Refreshed, Refused, SignedIn
    <2> QED
      BY <2>2 DEF IInv, TypeOK
  <1>2. store = NoTok => excused
    BY <1>1 DEF SessionEndsForCause
  <1>3. ASSUME NEW t \in Tabs, Logout(t) PROVE excused'
    BY <1>3 DEF Logout
  <1>4. ASSUME NEW t \in Tabs, NEW s \in 1 .. Slots, Denied(t, s) PROVE excused'
    BY <1>2, <1>4 DEF Denied, OnDenied
  <1>5. ASSUME NEW t \in Tabs, NEW s \in 1 .. Slots, Refused(t, s) PROVE excused'
    <2>1. call[t][s] \in IssuedCalls /\ call[t][s].stage = "refreshing"
      BY <1>5 DEF IInv, Issued, Refused
    <2>2. Valid(call[t][s].tok)
      BY <1>1, <2>1, IssuedIsValid DEF IssuedCalls
    <2> QED
      BY <1>5, <2>2 DEF Refused
  <1>6. ASSUME NEW t \in Tabs, NEW s \in 1 .. Slots, Refreshed(t, s) PROVE excused'
    <2>1. call[t][s] \in IssuedCalls /\ call[t][s].stage = "refreshed"
      BY <1>6 DEF IInv, Issued, Refreshed
    <2>2. store' = call[t][s].tok
      BY <1>6 DEF Refreshed, Stored
    <2> QED
      BY <2>1, <2>2 DEF IssuedCalls
  <1>7. ASSUME NEW t \in Tabs, NEW s \in 1 .. Slots, SignedIn(t, s) PROVE excused'
    <2>1. call[t][s] \in IssuedCalls /\ call[t][s].kind = "login"
      BY <1>7 DEF IInv, Issued, SignedIn
    <2>2. store'.acct \in Accounts
      <3>1. call[t][s].tok.acct \in Accounts
        BY <2>1 DEF IssuedCalls, IssuedToks
      <3> PICK a : a = call[t][s].tok.acct
        OBVIOUS
      <3>2. PICK b, calls : Stored(t, [acct |-> a, ver |-> version[a]], b, calls)
        BY <1>7 DEF SignedIn
      <3>3. store' = [acct |-> a, ver |-> version[a]]
        BY <3>2, Zenon DEF Stored
      <3> QED
        BY <3>1, <3>3
    <2> QED
      BY <2>2, WebSessionAssumption DEF NoTok
  <1>8. ASSUME NEW t \in Tabs, NEW s \in 1 .. Slots, Serve(t, s) PROVE excused'
    BY <1>2, <1>8 DEF Serve
  <1>9. CASE UNCHANGED <<version, store, excused>>
    BY <1>2, <1>9
  <1> QED
    BY <1>3, <1>4, <1>5, <1>6, <1>7, <1>8, <1>9, StoreSteps

(* However many calls of however many tabs are denied, refreshed and       *)
(* answered side by side, no session ends but by a logout, a refresh that  *)
(* the network has failed, or a password that was changed (api.ts:47-63).  *)
THEOREM SessionsEndForCause == Spec => []SessionEndsForCause
  <1>1. Init => SessionEndsForCause
    BY DEF Init, SessionEndsForCause
  <1> QED
    BY <1>1, InvariantHolds, CauseStep, PTL DEF Spec

-----------------------------------------------------------------------------
(* What a write to the store does to the tab that writes, and to others.   *)

LEMMA EmittedFields ==
  ASSUME NEW b \in TabRecord, NEW tok
  PROVE  /\ Emitted(b, tok).event = b.event
         /\ tok # NoTok => Emitted(b, tok).cache = b.cache
         /\ b.view # "closed" /\ tok = NoTok => Emitted(b, tok).cache = Nobody
         /\ tok = NoTok => Emitted(b, tok).view # "shell"
         /\ b.view = "closed" => Emitted(b, tok) = b
         /\ b.view # "closed" => Emitted(b, tok).view # "closed"
  BY DEF Emitted, Rendered, Invalidated, TabRecord

LEMMA StoredFields ==
  ASSUME IInv, NEW t \in Tabs, NEW tok \in IssuedToks, NEW b \in TabRecord,
         NEW calls \in [1 .. Slots -> IssuedCalls], Stored(t, tok, b, calls)
  PROVE  /\ store' = tok
         /\ tab'[t].view = Emitted(b, tok).view
         /\ tab'[t].cache = Emitted(b, tok).cache
         /\ tab'[t].event = b.event
         /\ \A u \in Tabs \ {t} :
               /\ tab'[u].view = tab[u].view /\ tab'[u].cache = tab[u].cache
               /\ tab'[u].event = (tab[u].event \/ (tab[u].view # "closed" /\ store # tok))
               /\ call'[u] = call[u]
  <1> DEFINE seen == Emitted(b, tok)
             mounts == b.view = "login" /\ seen.view = "shell"
             mine == IF mounts THEN LoadMe(seen, calls) ELSE seen
  <1>1. seen \in TabRecord /\ seen.event = b.event
    BY EmittedType, EmittedFields
  <1>4. mine.view = seen.view /\ mine.cache = seen.cache /\ mine.event = seen.event
    BY <1>1, LoadMeFields
  <1>5. tab' = [u \in Tabs |->
           IF u = t THEN mine
           ELSE [tab[u] EXCEPT !.event = @ \/ (tab[u].view # "closed" /\ store # tok)]]
    BY DEF Stored
  <1> HIDE DEF mine
  <1>6. tab'[t] = mine
    BY <1>5
  <1>7. ASSUME NEW u \in Tabs \ {t}
        PROVE  /\ tab'[u].view = tab[u].view /\ tab'[u].cache = tab[u].cache
               /\ tab'[u].event = (tab[u].event \/ (tab[u].view # "closed" /\ store # tok))
               /\ call'[u] = call[u]
    <2>1. tab'[u] = [tab[u] EXCEPT !.event = @ \/ (tab[u].view # "closed" /\ store # tok)]
      BY <1>5
    <2>2. tab[u] \in TabRecord
      BY DEF IInv, TypeOK
    <2>3. call'[u] = call[u]
      BY DEF Stored, IInv, TypeOK
    <2> QED
      BY <2>1, <2>2, <2>3 DEF TabRecord
  <1>8. store' = tok
    BY DEF Stored
  <1> QED
    BY <1>1, <1>4, <1>6, <1>7, <1>8

-----------------------------------------------------------------------------
(* The shell and the session.                                              *)

LEMMA StoredShell ==
  ASSUME IInv, ShellHasSession, NEW t \in Tabs, NEW tok \in IssuedToks, NEW b \in TabRecord,
         NEW calls \in [1 .. Slots -> IssuedCalls], Stored(t, tok, b, calls)
  PROVE  ShellHasSession'
  <1>1. CASE tok # NoTok
    BY <1>1, StoredFields DEF ShellHasSession
  <1>2. CASE tok = NoTok
    <2> SUFFICES ASSUME NEW u \in Tabs, tab'[u].view = "shell" PROVE tab'[u].event
      BY DEF ShellHasSession
    <2>1. u # t
      BY <1>2, StoredFields, EmittedFields
    <2>2. tab[u].view = "shell" /\ (tab[u].event \/ store # tok => tab'[u].event)
      BY <2>1, StoredFields
    <2> QED
      BY <1>2, <2>2 DEF ShellHasSession
  <1> QED
    BY <1>1, <1>2

(* A step of one tab that leaves the store alone, and the views of others. *)
LEMMA SameStoreShell ==
  ASSUME IInv, ShellHasSession, UNCHANGED store, NEW t \in Tabs, NEW b,
         tab' = [tab EXCEPT ![t] = b],
         b.view = "shell" => store # NoTok \/ b.event
  PROVE  ShellHasSession'
  BY DEF ShellHasSession, IInv, TypeOK

LEMMA EndedShell ==
  ASSUME IInv, ShellHasSession, NEW t \in Tabs, NEW s \in 1 .. Slots, Ended(t, s)
  PROVE  ShellHasSession'
  <1>1. Emitted(tab[t], NoTok) \in TabRecord
    BY EmittedType DEF IInv, TypeOK
  <1>2. [call[t] EXCEPT ![s] = NoCall] \in [1 .. Slots -> IssuedCalls]
    BY NoCallIssued DEF IInv, Issued
  <1> QED
    BY <1>1, <1>2, NoCallIssued, StoredShell DEF Ended

LEMMA ShellStep == IInv /\ ShellHasSession /\ [Next]_vars => ShellHasSession'
  <1> SUFFICES ASSUME IInv, ShellHasSession, [Next]_vars PROVE ShellHasSession'
    OBVIOUS
  <1>1. ASSUME NEW t \in Tabs, LoadPage(t) PROVE ShellHasSession'
    <2> DEFINE c == [Closed EXCEPT !.inflight = IF store = NoTok THEN 0 ELSE 1]
    <2>1. Rendered(c, store).view = "shell" => store # NoTok
      BY DEF Rendered, Closed
    <2>2. tab' = [tab EXCEPT ![t] = Rendered(c, store)] /\ UNCHANGED store
      BY <1>1 DEF LoadPage
    <2> QED
      BY <2>1, <2>2, SameStoreShell
  <1>2. ASSUME NEW t \in Tabs, Navigate(t) PROVE ShellHasSession'
    <2> DEFINE b == [Rendered(tab[t], store) EXCEPT !.told = FALSE]
               mounts == b.view = "shell" /\ ~b.loading
               mine == IF mounts THEN LoadMe(b, call[t]) ELSE b
    <2>1. b \in TabRecord /\ (b.view = "shell" => store # NoTok)
      BY DEF IInv, TypeOK, TabRecord, Rendered
    <2>4. tab' = [tab EXCEPT ![t] = mine] /\ UNCHANGED store
      BY <1>2 DEF Navigate
    <2> HIDE DEF b
    <2>5. mine.view = b.view
      BY <2>1, LoadMeFields
    <2> QED
      BY <2>1, <2>4, <2>5, SameStoreShell
  <1>3. ASSUME NEW t \in Tabs, OnStorage(t) PROVE ShellHasSession'
    <2> DEFINE b == [StorageSeen(tab[t]) EXCEPT !.event = FALSE]
               mounts == tab[t].view = "login" /\ b.view = "shell"
               mine == IF mounts THEN LoadMe(b, call[t]) ELSE b
    <2>0. tab[t] \in TabRecord /\ Emitted(tab[t], store) \in TabRecord
      BY EmittedType DEF IInv, TypeOK
    <2>1. StorageSeen(tab[t]) \in TabRecord
      BY <2>0, EmittedType DEF StorageSeen
    <2>2. StorageSeen(tab[t]).view = "shell" => store # NoTok
      BY <2>0, EmittedFields DEF StorageSeen, Invalidated, TabRecord
    <2>3. b \in TabRecord /\ (b.view = "shell" => store # NoTok)
      BY <2>1, <2>2 DEF TabRecord
    <2>6. tab' = [tab EXCEPT ![t] = mine] /\ UNCHANGED store
      BY <1>3 DEF OnStorage
    <2> HIDE DEF b
    <2>7. mine.view = b.view
      BY <2>3, LoadMeFields
    <2> QED
      BY <2>3, <2>6, <2>7, SameStoreShell
  <1>4. ASSUME NEW t \in Tabs, RefreshMe(t) PROVE ShellHasSession'
    <2>1. UNCHANGED store /\ \E b \in TabRecord : tab' = [tab EXCEPT ![t] = b] /\ b.view = tab[t].view
                                               /\ b.event = tab[t].event
      <3> DEFINE b == [Invalidated(tab[t]) EXCEPT !.loading = TRUE, !.told = FALSE]
      <3>1. tab[t] \in TabRecord /\ Invalidated(tab[t]) \in TabRecord
        BY EmittedType DEF IInv, TypeOK
      <3>2. b \in TabRecord /\ b.view = tab[t].view /\ b.event = tab[t].event
        BY <3>1 DEF TabRecord, Invalidated
      <3>3. FreeSlot(call[t]) \in 0 .. Slots
        BY <1>4, FreeSlotType, WebSessionAssumption DEF RefreshMe, Active
      <3> HIDE DEF b
      <3>4. [b EXCEPT !.inflight = FreeSlot(call[t])] \in TabRecord
        BY <3>2, <3>3 DEF TabRecord
      <3>5. /\ [b EXCEPT !.inflight = FreeSlot(call[t])].view = b.view
            /\ [b EXCEPT !.inflight = FreeSlot(call[t])].event = b.event
        BY <3>2 DEF TabRecord
      <3>6. \/ tab' = [tab EXCEPT ![t] = b]
            \/ tab' = [tab EXCEPT ![t] = [b EXCEPT !.inflight = FreeSlot(call[t])]]
        BY <1>4 DEF RefreshMe, b
      <3> QED
        BY <1>4, <3>2, <3>4, <3>5, <3>6 DEF RefreshMe
    <2> QED
      BY <2>1, SameStoreShell DEF ShellHasSession
  <1>5. ASSUME NEW t \in Tabs, Logout(t) PROVE ShellHasSession'
    BY <1>5, NoCallIssued, StoredShell DEF Logout, IInv, TypeOK, Issued
  <1>6. ASSUME NEW t \in Tabs, PageCalls(t) \/ SavePassword(t) PROVE ShellHasSession'
    <2>1. CASE PageCalls(t)
      BY <2>1 DEF PageCalls, ShellHasSession
    <2>2. CASE SavePassword(t)
      <3> DEFINE b == [tab[t] EXCEPT !.told = FALSE]
      <3>1. tab[t] \in TabRecord
        BY DEF IInv, TypeOK
      <3>2. b \in TabRecord /\ b.view = tab[t].view /\ b.event = tab[t].event
        BY <3>1 DEF TabRecord
      <3>3. tab' = [tab EXCEPT ![t] = b] /\ UNCHANGED store
        BY <2>2 DEF SavePassword
      <3> HIDE DEF b
      <3>4. b.view = "shell" => store # NoTok \/ b.event
        BY <3>2 DEF ShellHasSession
      <3> QED
        BY <3>3, <3>4, SameStoreShell
    <2> QED
      BY <1>6, <2>1, <2>2
  <1>7. ASSUME NEW t \in Tabs, NEW a \in Accounts, SignIn(t, a) PROVE ShellHasSession'
    BY <1>7 DEF SignIn, ShellHasSession
  <1>8. ASSUME NEW t \in Tabs, NEW s \in 1 .. Slots, Serve(t, s) PROVE ShellHasSession'
    BY <1>8 DEF Serve, ShellHasSession
  <1>9. ASSUME NEW t \in Tabs, NEW s \in 1 .. Slots, Denied(t, s) PROVE ShellHasSession'
    BY <1>9, EndedShell DEF Denied, OnDenied, ShellHasSession
  <1>10. ASSUME NEW t \in Tabs, NEW s \in 1 .. Slots, Refused(t, s) PROVE ShellHasSession'
    BY <1>10, EndedShell DEF Refused
  <1>11. ASSUME NEW t \in Tabs, NEW s \in 1 .. Slots, Refreshed(t, s) PROVE ShellHasSession'
    <2>1. call[t][s] \in IssuedCalls
      BY DEF IInv, Issued
    <2>2. [call[t][s] EXCEPT !.stage = "replayed"] \in IssuedCalls
      BY <1>11, <2>1 DEF IssuedCalls, CallRecord, Refreshed
    <2>3. [call[t] EXCEPT ![s].stage = "replayed"] \in [1 .. Slots -> IssuedCalls]
      BY <2>2 DEF IInv, Issued
    <2> QED
      BY <1>11, <2>1, <2>3, StoredShell DEF Refreshed, IssuedCalls, IInv, TypeOK
  <1>12. ASSUME NEW t \in Tabs, NEW s \in 1 .. Slots, SignedIn(t, s) PROVE ShellHasSession'
    <2>1. call[t][s] \in IssuedCalls /\ call[t][s].kind = "login"
      BY <1>12 DEF IInv, Issued, SignedIn
    <2>2. PICK x : x = [acct |-> call[t][s].tok.acct, ver |-> version[call[t][s].tok.acct]]
      OBVIOUS
    <2>3. x \in IssuedToks
      <3>1. call[t][s].tok.acct \in Accounts
        BY <2>1 DEF IssuedCalls, IssuedToks
      <3>2. version[call[t][s].tok.acct] \in 0 .. MaxVer
        BY <3>1 DEF IInv, TypeOK
      <3> QED
        BY <2>2, <3>1, <3>2 DEF IssuedToks, Toks
    <2>4. [call[t] EXCEPT ![s] = NoCall] \in [1 .. Slots -> IssuedCalls]
      BY NoCallIssued DEF IInv, Issued
    <2>5. Stored(t, x, tab[t], [call[t] EXCEPT ![s] = NoCall]) /\ tab[t] \in TabRecord
      BY <1>12, <2>2 DEF SignedIn, IInv, TypeOK
    <2> QED
      BY <2>3, <2>4, <2>5, StoredShell
  <1>13. ASSUME NEW t \in Tabs, NEW s \in 1 .. Slots, MeArrives(t, s) PROVE ShellHasSession'
    BY <1>13 DEF MeArrives, ShellHasSession, IInv, TypeOK, TabRecord
  <1>14. ASSUME NEW t \in Tabs, NEW s \in 1 .. Slots, CallFails(t, s) PROVE ShellHasSession'
    BY <1>14 DEF CallFails, MeFailed, Invalidated, ShellHasSession, IInv, TypeOK, TabRecord
  <1>15. ASSUME NEW t \in Tabs, NEW s \in 1 .. Slots, PageArrives(t, s) PROVE ShellHasSession'
    BY <1>15 DEF PageArrives, ShellHasSession
  <1>16. ASSUME NEW t \in Tabs, NEW s \in 1 .. Slots, PasswordArrives(t, s)
         PROVE ShellHasSession'
    BY <1>16 DEF PasswordArrives, ShellHasSession, IInv, TypeOK, TabRecord
  <1>17. CASE UNCHANGED vars
    BY <1>17 DEF vars, ShellHasSession
  <1> QED
    BY <1>1, <1>2, <1>3, <1>4, <1>5, <1>6, <1>7, <1>8, <1>9, <1>10, <1>11, <1>12, <1>13,
       <1>14, <1>15, <1>16, <1>17 DEF Next, Answer

(* A tab shows the shell without a session only until it hears that        *)
(* another tab has logged out (auth.ts:82-87).                             *)
THEOREM ShellsHaveSessions == Spec => []ShellHasSession
  <1>1. Init => ShellHasSession
    BY DEF Init, ShellHasSession, Closed
  <1> QED
    BY <1>1, InvariantHolds, ShellStep, PTL DEF Spec

-----------------------------------------------------------------------------
(* The identity.  A tab that is not open remembers none, and calls nobody. *)

ClosedIsIdle ==
    \A t \in Tabs : tab[t].view = "closed" =>
       tab[t].cache = Nobody /\ \A s \in 1 .. Slots : call[t][s] = NoCall

(* A step of one tab, which stays open, as far as the others are concerned.*)
LEMMA OpenStays ==
  ASSUME IInv, ClosedIsIdle, NEW t \in Tabs, tab'[t].view # "closed",
         \A u \in Tabs \ {t} : /\ tab'[u].view = tab[u].view /\ tab'[u].cache = tab[u].cache
                               /\ call'[u] = call[u]
  PROVE  ClosedIsIdle'
  BY DEF ClosedIsIdle

(* A tab that hears what others write to the store is none the wiser, or   *)
(* has an event to hear of.                                                *)
LEMMA OthersKnow ==
  ASSUME IInv, ClosedIsIdle, NEW t \in Tabs, NEW tok \in IssuedToks, NEW b \in TabRecord,
         NEW calls \in [1 .. Slots -> IssuedCalls], Stored(t, tok, b, calls),
         NEW u \in Tabs \ {t}, OfAnother(u)'
  PROVE  OfAnother(u)
  <1>1. /\ store' = tok /\ tab'[u].cache = tab[u].cache
        /\ tab'[u].event = (tab[u].event \/ (tab[u].view # "closed" /\ store # tok))
    BY StoredFields
  <1>2. tab[u].view # "closed"
    BY <1>1 DEF OfAnother, ClosedIsIdle
  <1> QED
    BY <1>1, <1>2 DEF OfAnother

(* The slot of the answer that is stored, after it.                        *)
LEMMA StoredSlot ==
  ASSUME IInv, NEW t \in Tabs, NEW tok, NEW b, NEW calls \in [1 .. Slots -> IssuedCalls],
         Stored(t, tok, b, calls), NEW s \in 1 .. Slots
  PROVE  call'[t][s] \in {calls[s], Asking("me", tok)}
  <1> DEFINE seen == Emitted(b, tok)
             asks == IF b.view = "login" /\ seen.view = "shell"
                     THEN LoadMeCalls(seen, calls, tok) ELSE calls
  <1>1. call' = [call EXCEPT ![t] = asks]
    BY DEF Stored
  <1>2. call'[t] = asks
    BY <1>1 DEF IInv, TypeOK
  <1>3. LoadMeCalls(seen, calls, tok)[s] \in {calls[s], Asking("me", tok)}
    BY DEF LoadMeCalls
  <1> QED
    BY <1>2, <1>3

(* What the tab that writes makes of its own identity.                     *)
LEMMA WriterKnows ==
  ASSUME IInv, NEW t \in Tabs, NEW tok \in IssuedToks, NEW b \in TabRecord,
         NEW calls \in [1 .. Slots -> IssuedCalls], Stored(t, tok, b, calls),
         b.view # "closed", b.cache \in {tab[t].cache, Nobody}, b.event = tab[t].event,
         OfAnother(t)'
  PROVE  tok # NoTok /\ (OfAnother(t) \/ tok.acct \notin {Nobody, store.acct})
  <1>1. /\ store' = tok /\ tab'[t].cache = Emitted(b, tok).cache
        /\ tab'[t].event = b.event
    BY StoredFields
  <1>2. tok # NoTok
    BY <1>1, EmittedFields DEF OfAnother
  <1>3. tab'[t].cache = tab[t].cache
    BY <1>1, <1>2, EmittedFields DEF OfAnother
  <1>4. tok.acct \in Accounts
    BY <1>2 DEF IssuedToks
  <1>5. tok.acct # Nobody
    BY <1>4, WebSessionAssumption
  <1> QED
    BY <1>1, <1>2, <1>3, <1>5 DEF OfAnother

LEMMA EndedIdentity ==
  ASSUME IInv, ClosedIsIdle, NEW t \in Tabs, NEW s \in 1 .. Slots, call[t][s] # NoCall,
         Ended(t, s)
  PROVE  ClosedIsIdle' /\ \A u \in Tabs : OfAnother(u)' => OfAnother(u)
  <1> DEFINE b == Emitted(tab[t], NoTok)
             calls == [call[t] EXCEPT ![s] = NoCall]
  <1>1. tab[t] \in TabRecord /\ tab[t].view # "closed"
    BY DEF IInv, TypeOK, ClosedIsIdle
  <1>2. /\ b \in TabRecord /\ b.event = tab[t].event /\ b.cache = Nobody
        /\ b.view # "closed"
    BY <1>1, EmittedType, EmittedFields
  <1>3. calls \in [1 .. Slots -> IssuedCalls]
    BY NoCallIssued DEF IInv, Issued
  <1>4. Stored(t, NoTok, b, calls)
    BY DEF Ended
  <1> HIDE DEF b, calls
  <1>5. ~OfAnother(t)'
    BY <1>2, <1>3, <1>4, NoCallIssued, WriterKnows
  <1>6. \A u \in Tabs \ {t} : OfAnother(u)' => OfAnother(u)
    BY <1>2, <1>3, <1>4, NoCallIssued, OthersKnow
  <1>7. tab'[t].view # "closed"
    BY <1>2, <1>3, <1>4, NoCallIssued, StoredFields, EmittedFields
  <1>8. ClosedIsIdle'
    BY <1>2, <1>3, <1>4, <1>7, NoCallIssued, StoredFields, OpenStays
  <1> QED
    BY <1>5, <1>6, <1>8

(* A step that leaves the store alone, of a tab that forgets its identity  *)
(* or keeps it.                                                            *)
LEMMA SameStoreIdentity ==
  ASSUME IInv, ClosedIsIdle, UNCHANGED store, NEW t \in Tabs, NEW x,
         tab' = [tab EXCEPT ![t] = x], x.view # "closed",
         x.cache = Nobody \/ (x.cache = tab[t].cache /\ x.event = tab[t].event),
         \A u \in Tabs \ {t} : call'[u] = call[u]
  PROVE  ClosedIsIdle' /\ \A u \in Tabs : OfAnother(u)' => OfAnother(u)
  <1>1. tab'[t] = x /\ \A u \in Tabs \ {t} : tab'[u] = tab[u]
    BY DEF IInv, TypeOK
  <1>2. ClosedIsIdle'
    BY <1>1, OpenStays
  <1> QED
    BY <1>1, <1>2 DEF OfAnother

LEMMA IdentityStep ==
  ASSUME IInv, ClosedIsIdle, [Next]_vars
  PROVE  ClosedIsIdle' /\ \A u \in Tabs : OfAnother(u)' => OfAnother(u) \/ AnsweredLate(u)
  <1> DEFINE P == ClosedIsIdle' /\ \A u \in Tabs : OfAnother(u)' => OfAnother(u) \/ AnsweredLate(u)
  <1>0. tab \in [Tabs -> TabRecord] /\ call \in [Tabs -> [1 .. Slots -> IssuedCalls]]
    BY DEF IInv, TypeOK, Issued
  <1>1. ASSUME NEW t \in Tabs, LoadPage(t) PROVE P
    <2> DEFINE c == [Closed EXCEPT !.inflight = IF store = NoTok THEN 0 ELSE 1]
    <2>1. Rendered(c, store).view # "closed" /\ Rendered(c, store).cache = Nobody
      BY DEF Rendered, Closed
    <2>2. tab' = [tab EXCEPT ![t] = Rendered(c, store)] /\ UNCHANGED store
      BY <1>1 DEF LoadPage
    <2>3. \A u \in Tabs \ {t} : call'[u] = call[u]
      BY <1>0, <1>1 DEF LoadPage
    <2> QED
      BY <2>1, <2>2, <2>3, SameStoreIdentity
  <1>2. ASSUME NEW t \in Tabs, Navigate(t) PROVE P
    <2> DEFINE b == [Rendered(tab[t], store) EXCEPT !.told = FALSE]
               mounts == b.view = "shell" /\ ~b.loading
               mine == IF mounts THEN LoadMe(b, call[t]) ELSE b
    <2>1. /\ b \in TabRecord /\ b.view # "closed"
          /\ b.cache = tab[t].cache /\ b.event = tab[t].event
      BY <1>0 DEF TabRecord, Rendered
    <2>2. tab' = [tab EXCEPT ![t] = mine] /\ UNCHANGED store
      BY <1>2 DEF Navigate
    <2>3. \A u \in Tabs \ {t} : call'[u] = call[u]
      BY <1>0, <1>2 DEF Navigate
    <2> HIDE DEF b
    <2>4. mine.view = b.view /\ mine.cache = b.cache /\ mine.event = b.event
      BY <2>1, LoadMeFields
    <2> QED
      BY <2>1, <2>2, <2>3, <2>4, SameStoreIdentity
  <1>3. ASSUME NEW t \in Tabs, OnStorage(t) PROVE P
    <2> DEFINE b == [StorageSeen(tab[t]) EXCEPT !.event = FALSE]
               mounts == tab[t].view = "login" /\ b.view = "shell"
               mine == IF mounts THEN LoadMe(b, call[t]) ELSE b
    <2>1. Emitted(tab[t], store) \in TabRecord /\ StorageSeen(tab[t]) \in TabRecord
      BY <1>0, EmittedType DEF StorageSeen
    <2>2. StorageSeen(tab[t]).cache = Nobody
      BY <2>1 DEF StorageSeen, Invalidated, TabRecord
    <2>3. tab[t].view # "closed" => StorageSeen(tab[t]).view # "closed"
      BY <1>0, <2>1, EmittedFields DEF StorageSeen, Invalidated, TabRecord
    <2>4. b \in TabRecord /\ b.cache = Nobody /\ (tab[t].view # "closed" => b.view # "closed")
      BY <2>1, <2>2, <2>3 DEF TabRecord
    <2>5. /\ tab' = [tab EXCEPT ![t] = mine] /\ UNCHANGED store
          /\ call' = [call EXCEPT ![t] = IF mounts THEN LoadMeCalls(b, @, store) ELSE @]
      BY <1>3 DEF OnStorage
    <2> HIDE DEF b
    <2>6. mine.view = b.view /\ mine.cache = b.cache
      BY <2>4, LoadMeFields
    <2>7. \A u \in Tabs \ {t} : call'[u] = call[u]
      BY <1>0, <2>5
    <2>8. CASE tab[t].view # "closed"
      BY <2>4, <2>5, <2>6, <2>7, <2>8, SameStoreIdentity
    <2>9. CASE tab[t].view = "closed"
      <3>1. call' = call
        BY <1>0, <2>5, <2>9
      <3> HIDE DEF mine
      <3>2. tab'[t].cache = Nobody /\ \A u \in Tabs \ {t} : tab'[u] = tab[u]
        BY <1>0, <2>4, <2>5, <2>6
      <3>3. ClosedIsIdle'
        BY <2>9, <3>1, <3>2 DEF ClosedIsIdle
      <3> QED
        BY <2>5, <3>2, <3>3 DEF OfAnother
    <2> QED
      BY <2>8, <2>9
  <1>4. ASSUME NEW t \in Tabs, RefreshMe(t) PROVE P
    <2> DEFINE b == [Invalidated(tab[t]) EXCEPT !.loading = TRUE, !.told = FALSE]
    <2>1. Invalidated(tab[t]) \in TabRecord
      BY <1>0, EmittedType
    <2>2. b \in TabRecord /\ b.view # "closed" /\ b.cache = Nobody
      BY <1>0, <1>4, <2>1 DEF TabRecord, Invalidated, RefreshMe, Active
    <2>3. UNCHANGED store /\ \A u \in Tabs \ {t} : call'[u] = call[u]
      BY <1>0, <1>4 DEF RefreshMe
    <2>4. \/ tab' = [tab EXCEPT ![t] = b]
          \/ tab' = [tab EXCEPT ![t] = [b EXCEPT !.inflight = FreeSlot(call[t])]]
      BY <1>4 DEF RefreshMe
    <2> HIDE DEF b
    <2>5. /\ [b EXCEPT !.inflight = FreeSlot(call[t])].view = b.view
          /\ [b EXCEPT !.inflight = FreeSlot(call[t])].cache = b.cache
      BY <2>2 DEF TabRecord
    <2> QED
      BY <2>2, <2>3, <2>4, <2>5, SameStoreIdentity
  <1>5. ASSUME NEW t \in Tabs, Logout(t) PROVE P
    <2>1. /\ tab[t] \in TabRecord /\ tab[t].view # "closed"
          /\ call[t] \in [1 .. Slots -> IssuedCalls] /\ Stored(t, NoTok, tab[t], call[t])
      BY <1>0, <1>5 DEF Logout
    <2>2. ~OfAnother(t)'
      BY <2>1, NoCallIssued, WriterKnows
    <2>3. \A u \in Tabs \ {t} : OfAnother(u)' => OfAnother(u)
      BY <2>1, NoCallIssued, OthersKnow
    <2>4. tab'[t].view # "closed"
      BY <2>1, NoCallIssued, StoredFields, EmittedFields
    <2>5. ClosedIsIdle'
      BY <2>1, <2>4, NoCallIssued, StoredFields, OpenStays
    <2> QED
      BY <2>2, <2>3, <2>5
  (* The steps that leave what the tab shows as it is, but for `told`.     *)
  <1>6. ASSUME UNCHANGED store, NEW t \in Tabs, tab[t].view # "closed",
               UNCHANGED tab \/ \E told \in BOOLEAN : tab' = [tab EXCEPT ![t].told = told],
               \A u \in Tabs \ {t} : call'[u] = call[u]
        PROVE P
    <2>1. \E x : /\ tab' = [tab EXCEPT ![t] = x]
                 /\ x.view = tab[t].view /\ x.cache = tab[t].cache /\ x.event = tab[t].event
      <3>1. CASE UNCHANGED tab
        BY <1>0, <3>1
      <3>2. ASSUME NEW told \in BOOLEAN, tab' = [tab EXCEPT ![t].told = told]
            PROVE  \E x : /\ tab' = [tab EXCEPT ![t] = x]
                          /\ x.view = tab[t].view /\ x.cache = tab[t].cache
                          /\ x.event = tab[t].event
        <4> DEFINE x == [tab[t] EXCEPT !.told = told]
        <4>1. x.view = tab[t].view /\ x.cache = tab[t].cache /\ x.event = tab[t].event
          BY <1>0 DEF TabRecord
        <4>2. tab' = [tab EXCEPT ![t] = x]
          BY <3>2
        <4> QED
          BY <4>1, <4>2
      <3> QED
        BY <1>6, <3>1, <3>2
    <2> QED
      BY <1>6, <2>1, SameStoreIdentity
  <1>7. ASSUME NEW t \in Tabs, PageCalls(t) \/ SavePassword(t) PROVE P
    BY <1>0, <1>6, <1>7 DEF PageCalls, SavePassword, Active
  <1>8. ASSUME NEW t \in Tabs, NEW a \in Accounts, SignIn(t, a) PROVE P
    BY <1>0, <1>6, <1>8 DEF SignIn
  (* A tab with a call under way is open.                                  *)
  <1>9. ASSUME NEW t \in Tabs, NEW s \in 1 .. Slots, Serve(t, s) \/ Answer(t, s)
        PROVE  call[t][s] # NoCall /\ tab[t].view # "closed"
    <2>0. NoCall.kind = "none" /\ NoCall.stage = "idle"
      BY DEF NoCall
    <2>1. call[t][s] # NoCall
      <3>1. CASE Serve(t, s)
        BY <2>0, <3>1 DEF Serve
      <3>2. CASE Denied(t, s) \/ Refreshed(t, s) \/ Refused(t, s)
        BY <2>0, <3>2 DEF Denied, Refreshed, Refused
      <3>3. CASE MeArrives(t, s) \/ CallFails(t, s) \/ PageArrives(t, s) \/ PasswordArrives(t, s) \/ SignedIn(t, s)
        BY <2>0, <3>3 DEF MeArrives, CallFails, PageArrives, PasswordArrives, SignedIn
      <3> QED
        BY <1>9, <3>1, <3>2, <3>3 DEF Answer
    <2> QED
      BY <2>1 DEF ClosedIsIdle
  <1>10. ASSUME NEW t \in Tabs, NEW s \in 1 .. Slots, Serve(t, s) PROVE P
    <2>1. \A u \in Tabs \ {t} : call'[u] = call[u]
      BY <1>0, <1>10 DEF Serve
    <2> QED
      BY <1>6, <1>9, <1>10, <2>1 DEF Serve
  <1>11. ASSUME NEW t \in Tabs, NEW s \in 1 .. Slots, Denied(t, s) PROVE P
    <2>1. CASE store = NoTok
      BY <1>9, <1>11, <2>1, EndedIdentity DEF Denied, OnDenied, Answer
    <2>2. CASE store # NoTok
      <3>1. UNCHANGED <<store, tab>> /\ \A u \in Tabs \ {t} : call'[u] = call[u]
        BY <1>0, <1>11, <2>2 DEF Denied, OnDenied
      <3> QED
        BY <1>6, <1>9, <1>11, <3>1 DEF Answer
    <2> QED
      BY <2>1, <2>2
  <1>12. ASSUME NEW t \in Tabs, NEW s \in 1 .. Slots, Refused(t, s) PROVE P
    BY <1>9, <1>12, EndedIdentity DEF Refused, Answer
  <1>13. ASSUME NEW t \in Tabs, NEW s \in 1 .. Slots, PageArrives(t, s) PROVE P
    <2>1. UNCHANGED <<store, tab>> /\ \A u \in Tabs \ {t} : call'[u] = call[u]
      BY <1>0, <1>13 DEF PageArrives, Done
    <2> QED
      BY <1>6, <1>9, <1>13, <2>1 DEF Answer
  <1>14. ASSUME NEW t \in Tabs, NEW s \in 1 .. Slots, PasswordArrives(t, s) PROVE P
    <2>1. /\ UNCHANGED store /\ \A u \in Tabs \ {t} : call'[u] = call[u]
          /\ \E told \in BOOLEAN : tab' = [tab EXCEPT ![t].told = told]
      BY <1>0, <1>14 DEF PasswordArrives, Done
    <2> QED
      BY <1>6, <1>9, <1>14, <2>1 DEF Answer
  <1>15. ASSUME NEW t \in Tabs, NEW s \in 1 .. Slots, CallFails(t, s) PROVE P
    <2>1. UNCHANGED store /\ \A u \in Tabs \ {t} : call'[u] = call[u]
      BY <1>0, <1>15 DEF CallFails, Done
    <2>2. CASE call[t][s].kind = "me"
      <3> DEFINE x == MeFailed(tab[t], call[t][s].app)
      <3>1. tab' = [tab EXCEPT ![t] = x]
        BY <1>15, <2>2 DEF CallFails
      <3>2. x.view = tab[t].view /\ x.cache = Nobody
        BY <1>0 DEF MeFailed, Invalidated, TabRecord
      <3> HIDE DEF x
      <3> QED
        BY <1>9, <1>15, <2>1, <3>1, <3>2, SameStoreIdentity DEF Answer
    <2>3. CASE call[t][s].kind # "me"
      BY <1>6, <1>9, <1>15, <2>1, <2>3 DEF CallFails, Answer
    <2> QED
      BY <2>2, <2>3
  <1>16. ASSUME NEW t \in Tabs, NEW s \in 1 .. Slots, MeArrives(t, s) PROVE P
    <2>1. /\ UNCHANGED store /\ \A u \in Tabs \ {t} : call'[u] = call[u] /\ tab'[u] = tab[u]
          /\ call'[t][s] = NoCall
      BY <1>0, <1>16 DEF MeArrives, Done
    <2>2. tab'[t].view = tab[t].view /\ tab'[t].cache = call[t][s].tok.acct
      BY <1>0, <1>16 DEF MeArrives, TabRecord
    <2>3. ClosedIsIdle'
      BY <1>9, <1>16, <2>1, <2>2, OpenStays DEF Answer
    <2>4. OfAnother(t)' => AnsweredLate(t)
      BY <1>9, <1>16, <2>1, <2>2 DEF OfAnother, AnsweredLate, Answer
    <2>5. \A u \in Tabs \ {t} : OfAnother(u)' => OfAnother(u)
      BY <2>1 DEF OfAnother
    <2> QED
      BY <2>3, <2>4, <2>5
  (* A pair that is stored by the answer to the call in a slot.            *)
  <1>17. ASSUME NEW t \in Tabs, NEW s \in 1 .. Slots, tab[t].view # "closed",
                NEW tok \in IssuedToks, tok.acct = call[t][s].tok.acct,
                NEW calls \in [1 .. Slots -> IssuedCalls], Stored(t, tok, tab[t], calls),
                call'[t][s] # call[t][s]
         PROVE P
    <2>1. tab[t] \in TabRecord
      BY <1>0
    <2>2. OfAnother(t)' => OfAnother(t) \/ tok.acct \notin {Nobody, store.acct}
      BY <1>17, <2>1, WriterKnows
    <2>3. OfAnother(t)' => OfAnother(t) \/ AnsweredLate(t)
      BY <1>17, <2>2 DEF AnsweredLate
    <2>4. \A u \in Tabs \ {t} : OfAnother(u)' => OfAnother(u)
      BY <1>17, <2>1, OthersKnow
    <2>5. tab'[t].view # "closed"
      BY <1>17, <2>1, StoredFields, EmittedFields
    <2>6. ClosedIsIdle'
      BY <1>17, <2>1, <2>5, StoredFields, OpenStays
    <2> QED
      BY <2>3, <2>4, <2>6
  <1>18. ASSUME NEW t \in Tabs, NEW s \in 1 .. Slots, Refreshed(t, s) PROVE P
    <2> DEFINE calls == [call[t] EXCEPT ![s].stage = "replayed"]
    <2>1. call[t][s] \in IssuedCalls /\ call[t][s].stage = "refreshed"
      BY <1>0, <1>18 DEF Refreshed
    <2>2. call[t][s].tok \in IssuedToks /\ [call[t][s] EXCEPT !.stage = "replayed"] \in IssuedCalls
      BY <2>1 DEF IssuedCalls, CallRecord
    <2>3. calls \in [1 .. Slots -> IssuedCalls] /\ calls[s] = [call[t][s] EXCEPT !.stage = "replayed"]
      BY <1>0, <2>2
    <2>4. calls[s].stage = "replayed"
      BY <2>1, <2>3 DEF IssuedCalls, CallRecord
    <2>5. Stored(t, call[t][s].tok, tab[t], calls) /\ tab[t] \in TabRecord
      BY <1>0, <1>18 DEF Refreshed
    <2> HIDE DEF calls
    <2>6. call'[t][s] \in {calls[s], Asking("me", call[t][s].tok)}
      BY <2>2, <2>3, <2>5, StoredSlot
    <2>7. call'[t][s] # call[t][s]
      BY <2>1, <2>4, <2>6 DEF Asking
    <2> QED
      BY <1>9, <1>17, <1>18, <2>2, <2>3, <2>5, <2>7 DEF Answer
  <1>19. ASSUME NEW t \in Tabs, NEW s \in 1 .. Slots, SignedIn(t, s) PROVE P
    <2> DEFINE calls == [call[t] EXCEPT ![s] = NoCall]
    <2>1. call[t][s] \in IssuedCalls /\ call[t][s].kind = "login"
      BY <1>0, <1>19 DEF SignedIn
    <2>2. PICK x : x = [acct |-> call[t][s].tok.acct, ver |-> version[call[t][s].tok.acct]]
      OBVIOUS
    <2>3. x \in IssuedToks
      <3>1. call[t][s].tok.acct \in Accounts
        BY <2>1 DEF IssuedCalls, IssuedToks
      <3>2. version[call[t][s].tok.acct] \in 0 .. MaxVer
        BY <3>1 DEF IInv, TypeOK
      <3> QED
        BY <2>2, <3>1, <3>2 DEF IssuedToks, Toks
    <2>4. calls \in [1 .. Slots -> IssuedCalls] /\ calls[s] = NoCall
      BY <1>0, NoCallIssued
    <2>5. Stored(t, x, tab[t], calls) /\ tab[t] \in TabRecord
      BY <1>0, <1>19, <2>2 DEF SignedIn
    <2> HIDE DEF calls
    <2>6. call'[t][s] \in {calls[s], Asking("me", x)}
      BY <2>3, <2>4, <2>5, StoredSlot
    <2>7. call'[t][s] # call[t][s]
      BY <2>1, <2>4, <2>6 DEF Asking, NoCall
    <2> QED
      BY <1>9, <1>17, <1>19, <2>2, <2>3, <2>4, <2>5, <2>7 DEF Answer
  <1>20. CASE UNCHANGED vars
    BY <1>20 DEF vars, ClosedIsIdle, OfAnother
  <1> QED
    BY <1>1, <1>2, <1>3, <1>4, <1>5, <1>7, <1>8, <1>10, <1>11, <1>12, <1>13, <1>14, <1>15,
       <1>16, <1>18, <1>19, <1>20 DEF Next, Answer

(* The identity a tab remembers becomes that of another account than the   *)
(* one signed in only by a late answer to a call of its own: what other    *)
(* tabs do is heard of, and forgets it (me.ts:51-56).                      *)
THEOREM IdentitiesAreOfSession == Spec => IdentityIsOfSession
  <1>1. Init => ClosedIsIdle
    BY DEF Init, ClosedIsIdle, Closed
  <1>2. IInv /\ ClosedIsIdle /\ [Next]_vars => ClosedIsIdle'
    BY IdentityStep
  <1>3. IInv /\ ClosedIsIdle /\ [Next]_vars
        => [\A t \in Tabs : OfAnother(t)' => OfAnother(t) \/ AnsweredLate(t)]_vars
    BY IdentityStep
  <1> QED
    BY <1>1, <1>2, <1>3, InvariantHolds, PTL DEF Spec, IdentityIsOfSession

-----------------------------------------------------------------------------
(* The paths of the panel's calls.                                         *)
LEMMA RootCallsAreSent ==
  ASSUME NEW route \in Routes, Head(route[2]) \in RootHeads
  PROVE  Reached(route)
  BY DEF Reached, Sent

LEMMA OnPath ==
  ASSUME NEW methods, NEW path, NEW route \in On(methods, path)
  PROVE  route[2] = path
  BY DEF On

(* The paths of the administration are the server's own.                   *)
LEMMA AdminCallsReach == \A route \in AdminCalls : Reached(route)
  <1> SUFFICES ASSUME NEW route \in AdminCalls PROVE Reached(route)
    OBVIOUS
  <1>1. route \in Routes
    BY DEF AdminCalls, Routes
  <1>2. PICK methods, path : route \in On(methods, path) /\ Head(path) = "api"
    BY DEF AdminCalls
  <1>3. Head(route[2]) = "api"
    BY <1>2, OnPath
  <1> QED
    BY <1>1, <1>3, RootCallsAreSent DEF RootHeads

LEMMA MyCallsReach == \A route \in MyCalls \ {CreateMyFamily} : Reached(route)
  <1> SUFFICES ASSUME NEW route \in MyCalls, route # CreateMyFamily PROVE Reached(route)
    OBVIOUS
  <1>1. Head(route[2]) \in {"api", "auth", "me", "family"}
    <2>1. CASE route \in On({"GET", "PUT", "DELETE"}, <<"api", "profile", "avatar">>)
      BY <2>1, OnPath
    <2> QED
      BY <2>1 DEF MyCalls
  <1>2. route \in Routes
    BY DEF MyCalls, Routes, On
  <1> QED
    BY <1>1, <1>2, RootCallsAreSent DEF RootHeads

(* A call of the panel is sent to a path that the server answers, with or  *)
(* without the prefix that its first segment decides on (api.ts:61-81,     *)
(* 126; main.go:118-262); only the creation of one's own family is not.    *)
THEOREM EveryCallReaches == CallsReachRoutes
  BY AdminCallsReach, MyCallsReach, Zenon DEF CallsReachRoutes
=============================================================================
