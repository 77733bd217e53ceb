---------------------------- MODULE SessionProofs ----------------------------
(***************************************************************************)
(* Proofs about Session.                                                   *)
(***************************************************************************)
EXTENDS Session, TLAPS

(* A pair being stored is a pair of the server, and has not expired yet.   *)
Storing ==
    \A a \in Actors : act[a].pc \in {"save", "login"} =>
        act[a].tok > stale /\ act[a].at \in 1 .. 3

Sound == TypeOK /\ Storing

-----------------------------------------------------------------------------
LEMMA ActorsApart ==
  /\ Calls \subseteq Callers /\ User \in Callers /\ Callers \subseteq Foreground
  /\ Foreground \subseteq Actors
  /\ Refresher \in Foreground /\ Gate \in Foreground /\ Background \in Actors
  /\ Background \notin Foreground /\ Refresher \notin Callers /\ Gate \notin Callers
  /\ Refresher # Gate /\ User \notin Calls
  /\ \A a \in Actors : \/ a \in Calls \/ a = User \/ a = Refresher \/ a = Gate \/ a = Background
  BY SessionAssumption DEF Callers, Foreground, Actors, User, Refresher, Gate, Background

LEMMA Bounds == MaxIssued \in Nat /\ MaxEnded \in Nat /\ MaxFaults \in Nat
  BY SessionAssumption

LEMMA KeysInOrder ==
  /\ Keys[1] = "access" /\ Keys[2] = "refresh" /\ Keys[3] = "mirror"
  BY DEF Keys

LEMMA InitSound == Init => Sound
  <1> SUFFICES ASSUME Init PROVE Sound
    OBVIOUS
  <1>1. store \in [{"access", "refresh", "mirror"} -> 0 .. issued]
    BY DEF Init
  <1>2. act \in [Actors -> [pc: Doing, tok: 0 .. issued, at: 1 .. 4]] /\ Storing
    BY DEF Init, Idle, Doing, Storing
  <1>3. ver \in [Pairs -> 0 .. version]
    BY DEF Init
  <1>4. why \subseteq Causes
    BY DEF Init, Causes
  <1>5. version \in Nat /\ issued \in 0 .. MaxIssued /\ stale \in 0 .. issued /\ lapsed \in 0 .. stale
    BY Bounds DEF Init
  <1>6. screen \in {"splash", "login", "map"} /\ fired \in BOOLEAN
    BY DEF Init
  <1>7. ended \in 0 .. MaxEnded /\ faults \in 0 .. MaxFaults
    BY Bounds DEF Init
  <1>8. QED
    BY <1>1, <1>2, <1>3, <1>4, <1>5, <1>6, <1>7 DEF Sound, TypeOK

LEMMA CallSound ==
  ASSUME Sound, NEW c \in Calls, Call(c)
  PROVE  Sound'
  BY Bounds, ActorsApart DEF Sound, TypeOK, Storing, server, Idle, Doing, Causes, Call, Set

LEMMA AnsweredSound ==
  ASSUME Sound, NEW c \in Callers, Answered(c)
  PROVE  Sound'
  BY Bounds, ActorsApart DEF Sound, TypeOK, Storing, server, Idle, Doing, Causes, Answered, Effect, Over

LEMMA UnauthorizedSound ==
  ASSUME Sound, NEW c \in Callers, Unauthorized(c)
  PROVE  Sound'
  BY Bounds, ActorsApart DEF Sound, TypeOK, Storing, server, Idle, Doing, Causes, Unauthorized, AwaitRefresh, Set

LEMMA SendAgainSound ==
  ASSUME Sound, NEW c \in Callers, SendAgain(c)
  PROVE  Sound'
  BY Bounds, ActorsApart DEF Sound, TypeOK, Storing, server, Idle, Doing, Causes, SendAgain, Set

LEMMA RefreshLoadSound ==
  ASSUME Sound, RefreshLoad
  PROVE  Sound'
  BY Bounds, ActorsApart DEF Sound, TypeOK, Storing, server, Idle, Doing, Causes, RefreshLoad, Set

LEMMA IssueSound ==
  ASSUME Sound, Issue
  PROVE  /\ issued' = issued + 1 /\ issued' \in 0 .. MaxIssued /\ stale' = stale /\ lapsed' = lapsed
         /\ version' = version /\ stale' \in 0 .. issued' /\ ver' \in [Pairs -> 0 .. version']
  BY Bounds DEF Sound, TypeOK, Issue, Pairs

LEMMA RenewedSound ==
  ASSUME Sound, NEW a \in Actors, NEW pc \in {"recover", "clear", "idle"}, Renewed(a, pc)
  PROVE  Sound'
  <1>1. UNCHANGED <<store, screen, fired, why, ended, faults>>
    BY DEF Renewed
  <1>2. CASE Issue /\ Set(a, "save", issued + 1)
    <2>1. act' \in [Actors -> [pc: Doing, tok: 0 .. issued', at: 1 .. 4]] /\ Storing'
      BY <1>2, IssueSound DEF Sound, TypeOK, Storing, Set, Doing
    <2>2. QED
      BY <1>1, <1>2, <2>1, IssueSound DEF Sound, TypeOK
  <1>3. CASE UNCHANGED server /\ Set(a, pc, 0)
    BY <1>1, <1>3 DEF Sound, TypeOK, Storing, Set, Doing, server
  <1>4. QED
    BY <1>2, <1>3 DEF Renewed

LEMMA RefreshSaveSound ==
  ASSUME Sound, RefreshSave
  PROVE  Sound'
  BY Bounds, ActorsApart, KeysInOrder DEF Sound, TypeOK, Storing, server, Idle, Doing, Causes, RefreshSave, SaveStep, Resumed, Over, Onwards

LEMMA SyncedTyped ==
  ASSUME Sound
  PROVE  Synced \in [{"access", "refresh", "mirror"} -> 0 .. issued]
  BY DEF Sound, TypeOK, Synced

LEMMA ResumedSound ==
  ASSUME Sound, NEW ok \in BOOLEAN, act' = Resumed(ok), UNCHANGED <<issued, stale>>
  PROVE  act' \in [Actors -> [pc: Doing, tok: 0 .. issued', at: 1 .. 4]] /\ Storing'
  BY DEF Sound, TypeOK, Storing, Resumed, Over, Idle, Doing

LEMMA RecoverSound ==
  ASSUME Sound, Recover
  PROVE  Sound'
  <1>1. UNCHANGED <<server, screen, fired, why, ended, faults>> /\ store' = Synced
    BY DEF Recover
  <1>2. act' \in [Actors -> [pc: Doing, tok: 0 .. issued', at: 1 .. 4]] /\ Storing'
    <2>1. CASE act' = Resumed(TRUE)
      BY <1>1, <2>1, ResumedSound DEF server
    <2>2. CASE Set(Refresher, "clear", 0)
      BY <1>1, <2>2, ActorsApart DEF Sound, TypeOK, Storing, Set, Doing, server
    <2>3. QED
      BY <2>1, <2>2 DEF Recover
  <1>3. QED
    BY <1>1, <1>2, SyncedTyped DEF Sound, TypeOK, server

LEMMA EraseSound ==
  ASSUME Sound, NEW a \in Foreground, Erase(a)
  PROVE  Sound'
  BY Bounds, ActorsApart, KeysInOrder DEF Sound, TypeOK, Storing, server, Idle, Doing, Causes, Erase, EraseStep, Onwards

LEMMA AfterClearSound ==
  ASSUME Sound, NEW a \in Foreground, NEW gone \in BOOLEAN, AfterClear(a, gone),
         UNCHANGED <<version, ver, issued, stale, lapsed, store, why, ended>>,
         faults' \in 0 .. MaxFaults
  PROVE  Sound'
  <1>1. screen' \in {"splash", "login", "map"} /\ fired' \in BOOLEAN
    BY DEF AfterClear, NotifySessionExpired, Sound, TypeOK
  <1>2. act' \in [Actors -> [pc: Doing, tok: 0 .. issued', at: 1 .. 4]] /\ Storing'
    <2>1. CASE act' = Resumed(FALSE)
      BY <2>1, ResumedSound
    <2>2. CASE act' = [act EXCEPT ![a] = Over(a)] \/ act' = [act EXCEPT ![a] = Idle]
      BY <2>2 DEF Sound, TypeOK, Storing, Over, Idle, Doing
    <2>3. QED
      BY <2>1, <2>2 DEF AfterClear
  <1>3. QED
    BY <1>1, <1>2 DEF Sound, TypeOK

LEMMA ClearedSound ==
  ASSUME Sound, NEW a \in Foreground, Cleared(a)
  PROVE  Sound'
  <1>1. Empty \in BOOLEAN
    BY DEF Empty
  <1>2. UNCHANGED <<version, ver, issued, stale, lapsed, store, why, ended>> /\ faults' \in 0 .. MaxFaults
    BY DEF Cleared, server, Sound, TypeOK
  <1>3. QED
    BY <1>1, <1>2, AfterClearSound DEF Cleared

LEMMA GateOpensSound ==
  ASSUME Sound, NEW s \in [{"access", "refresh", "mirror"} -> 0 .. issued], GateOpens(s),
         UNCHANGED <<server, fired, why, ended>>, faults' \in 0 .. MaxFaults
  PROVE  Sound'
  <1>1. act' \in [Actors -> [pc: Doing, tok: 0 .. issued', at: 1 .. 4]] /\ Storing'
    BY DEF Sound, TypeOK, Storing, GateOpens, Set, Doing, server
  <1>2. screen' \in {"splash", "login", "map"} /\ store' = s
    BY DEF Sound, TypeOK, GateOpens
  <1>3. QED
    BY <1>1, <1>2 DEF Sound, TypeOK, server

LEMMA GateStartSound ==
  ASSUME Sound, GateStart
  PROVE  Sound'
  BY SyncedTyped, GateOpensSound DEF GateStart, Sound, TypeOK

LEMMA GateSaveSound ==
  ASSUME Sound, GateSave
  PROVE  Sound'
  BY Bounds, ActorsApart, KeysInOrder DEF Sound, TypeOK, Storing, server, Idle, Doing, Causes, GateSave, SaveStep, Set, Onwards

LEMMA LoginSound ==
  ASSUME Sound, Login
  PROVE  Sound'
  <1>1. Issue /\ Set(User, "login", issued + 1) /\ why' = {"never"} \cup Leftover
        /\ UNCHANGED <<store, screen, fired, ended, faults>>
    BY DEF Login
  <1>2. act' \in [Actors -> [pc: Doing, tok: 0 .. issued', at: 1 .. 4]] /\ Storing'
    <2>1. /\ issued' = issued + 1 /\ stale' = stale /\ issued \in Nat /\ stale \in 0 .. issued
          /\ act \in [Actors -> [pc: Doing, tok: 0 .. issued, at: 1 .. 4]] /\ Storing
      BY <1>1, IssueSound, Bounds DEF Sound, TypeOK
    <2>2. act' = [act EXCEPT ![User] = [pc |-> "login", tok |-> issued + 1, at |-> 1]]
      BY <1>1 DEF Set
    <2>3. [pc |-> "login", tok |-> issued + 1, at |-> 1] \in [pc: Doing, tok: 0 .. issued', at: 1 .. 4]
      BY <2>1 DEF Doing
    <2>4. act' \in [Actors -> [pc: Doing, tok: 0 .. issued', at: 1 .. 4]]
      <3>1. \A a \in Actors : act[a] \in [pc: Doing, tok: 0 .. issued', at: 1 .. 4]
        BY <2>1
      <3>2. QED
        BY <2>2, <2>3, <3>1, <2>1
    <2>5. Storing'
      BY <2>1, <2>2 DEF Storing
    <2>6. QED
      BY <2>4, <2>5
  <1>3. why' \subseteq Causes
    BY <1>1 DEF Leftover, Causes
  <1>4. QED
    BY <1>1, <1>2, <1>3, IssueSound DEF Sound, TypeOK

LEMMA LoginSaveSound ==
  ASSUME Sound, LoginSave
  PROVE  Sound'
  <1>1. /\ act[User].pc = "login" /\ act[User].tok \in 0 .. issued /\ act[User].at \in 1 .. 3
        /\ UNCHANGED <<server, ended, faults>>
    BY ActorsApart DEF Sound, TypeOK, Storing, LoginSave
  <1>2. store' \in [{"access", "refresh", "mirror"} -> 0 .. issued]
    BY <1>1, KeysInOrder DEF Sound, TypeOK, LoginSave, SaveStep
  <1>3. CASE act[User].at = 3
    <2>1. act' \in [Actors -> [pc: Doing, tok: 0 .. issued', at: 1 .. 4]] /\ Storing'
      BY <1>1, <1>3 DEF Sound, TypeOK, Storing, LoginSave, Set, Doing, server
    <2>2. why' \subseteq Causes
      BY <1>3 DEF Sound, TypeOK, LoginSave, Leftover, Causes
    <2>3. screen' = "map" /\ fired' = FALSE
      BY <1>3 DEF LoginSave
    <2>4. QED
      BY <1>1, <1>2, <2>1, <2>2, <2>3 DEF Sound, TypeOK, server
  <1>4. CASE act[User].at # 3
    <2>1. Onwards(User) /\ UNCHANGED <<screen, fired, why>>
      BY <1>4 DEF LoginSave
    <2>2. act' \in [Actors -> [pc: Doing, tok: 0 .. issued', at: 1 .. 4]] /\ Storing'
      BY <1>1, <1>4, <2>1, ActorsApart DEF Sound, TypeOK, Storing, Onwards, Doing, server
    <2>3. QED
      BY <1>1, <1>2, <2>1, <2>2 DEF Sound, TypeOK, server
  <1>5. QED
    BY <1>3, <1>4

LEMMA LogoutSound ==
  ASSUME Sound, Logout
  PROVE  Sound'
  BY Bounds, ActorsApart DEF Sound, TypeOK, Storing, server, Idle, Doing, Causes, Logout, Set

LEMMA BackgroundReportSound ==
  ASSUME Sound, BackgroundReport
  PROVE  Sound'
  BY Bounds, ActorsApart DEF Sound, TypeOK, Storing, server, Idle, Doing, Causes, BackgroundReport, Set

LEMMA BackgroundSaveSound ==
  ASSUME Sound, BackgroundSave
  PROVE  Sound'
  <1> PICK g : g = act[Background].tok
    OBVIOUS
  <1>1. /\ act[Background].pc = "save" /\ g \in 0 .. issued /\ act[Background].at \in 1 .. 3
        /\ UNCHANGED <<server, screen, fired, why, ended, faults>>
    BY ActorsApart DEF Sound, TypeOK, Storing, BackgroundSave
  <1>2. store' = [store EXCEPT ![Keys[act[Background].at]] = g,
                               !.mirror = IF act[Background].at = 1 THEN g ELSE @]
    BY DEF BackgroundSave
  <1>3. store' \in [{"access", "refresh", "mirror"} -> 0 .. issued]
    BY <1>1, <1>2, KeysInOrder DEF Sound, TypeOK
  <1>4. CASE act[Background].at = 3
    <2>1. act' \in [Actors -> [pc: Doing, tok: 0 .. issued', at: 1 .. 4]] /\ Storing'
      <3>1. Set(Background, "idle", 0)
        BY <1>4 DEF BackgroundSave
      <3>2. QED
        BY <1>1, <3>1, ActorsApart DEF Sound, TypeOK, Storing, Set, Doing, server
    <2>2. QED
      BY <1>1, <1>3, <2>1 DEF Sound, TypeOK, server
  <1>5. CASE act[Background].at # 3
    <2>1. act' \in [Actors -> [pc: Doing, tok: 0 .. issued', at: 1 .. 4]] /\ Storing'
      <3>1. Onwards(Background)
        BY <1>5 DEF BackgroundSave
      <3>2. QED
        BY <1>1, <1>5, <3>1, ActorsApart DEF Sound, TypeOK, Storing, Onwards, Doing, server
    <2>2. QED
      BY <1>1, <1>3, <2>1 DEF Sound, TypeOK, server
  <1>6. QED
    BY <1>4, <1>5

LEMMA ExpireSound ==
  ASSUME Sound, Expire
  PROVE  Sound'
  BY Bounds, ActorsApart DEF Sound, TypeOK, Storing, server, Idle, Doing, Causes, Expire

LEMMA LapseSound ==
  ASSUME Sound, Lapse
  PROVE  Sound'
  BY Bounds, ActorsApart DEF Sound, TypeOK, Storing, server, Idle, Doing, Causes, Lapse

LEMMA RevokeSound ==
  ASSUME Sound, Revoke
  PROVE  Sound'
  BY Bounds, ActorsApart DEF Sound, TypeOK, Storing, server, Idle, Doing, Causes, Revoke

LEMMA FaultSound ==
  ASSUME Sound, Fault
  PROVE  Sound'
  <1>1. UNCHANGED <<ver, issued, stale, lapsed, ended>> /\ faults' \in 0 .. MaxFaults
    BY Bounds DEF Fault, Sound, TypeOK
  <1>2. ASSUME NEW a \in Actors, NoAnswer(a) PROVE Sound'
    BY <1>1, <1>2 DEF Sound, TypeOK, Storing, NoAnswer, Effect, Over, Set, Idle, Doing, Causes
  <1>3. ASSUME NEW a \in Actors, EraseFails(a) PROVE Sound'
    BY <1>1, <1>3 DEF Sound, TypeOK, Storing, EraseFails, Onwards, Doing
  <1>4. ASSUME NEW c \in Callers, QueryFails(c) PROVE Sound'
    <2>1. act' \in [Actors -> [pc: Doing, tok: 0 .. issued', at: 1 .. 4]] /\ Storing'
      <3>1. CASE AwaitRefresh(c)
        <4>1. \A a \in Actors : act'[a] \in {act[a], [Idle EXCEPT !.pc = "wait"], [Idle EXCEPT !.pc = "load"]}
          BY <3>1, ActorsApart DEF AwaitRefresh, Sound, TypeOK
        <4>2. act' = [a \in Actors |-> act'[a]]
          BY <3>1 DEF AwaitRefresh, Sound, TypeOK
        <4>3. QED
          BY <1>1, <4>1, <4>2 DEF Sound, TypeOK, Storing, Idle, Doing
      <3>2. CASE Set(c, "clear", 0)
        BY <1>1, <3>2, ActorsApart DEF Sound, TypeOK, Storing, Set, Doing
      <3>3. QED
        BY <1>4, <3>1, <3>2 DEF QueryFails
    <2>2. why' \subseteq Causes /\ UNCHANGED <<version, store, screen, fired>>
      BY <1>4 DEF Sound, TypeOK, QueryFails, Causes
    <2>3. QED
      BY <1>1, <2>1, <2>2 DEF Sound, TypeOK
  <1>5. CASE BackgroundSaveFails
    BY <1>1, <1>5, ActorsApart DEF Sound, TypeOK, Storing, BackgroundSaveFails, Set, Doing
  <1>6. CASE Kill
    <2>1. act' \in [Actors -> [pc: Doing, tok: 0 .. issued', at: 1 .. 4]] /\ Storing'
      BY <1>1, <1>6 DEF Sound, TypeOK, Storing, Kill, Idle, Doing
    <2>2. QED
      BY <1>1, <1>6, <2>1 DEF Sound, TypeOK, Kill
  <1>7. CASE Resume
    BY <1>1, <1>7 DEF Sound, TypeOK, Storing, Resume, Synced, Causes
  <1>8. ASSUME NEW a \in Foreground, VerifyFails(a) PROVE Sound'
    BY <1>1, <1>8, AfterClearSound DEF VerifyFails
  <1>9. CASE GateFails
    <2>1. CASE GateOpens(store) /\ UNCHANGED <<version, fired, why>>
      BY <1>1, <2>1, GateOpensSound DEF Sound, TypeOK, server
    <2>2. CASE /\ \/ act[Gate].pc = "start" /\ store' \in {store, Synced}
                  \/ act[Gate].pc = "save" /\ UNCHANGED store
               /\ screen' = "login" /\ Set(Gate, "idle", 0)
               /\ why' = why \cup {"storage"} /\ UNCHANGED <<version, fired>>
      <3>1. act' \in [Actors -> [pc: Doing, tok: 0 .. issued', at: 1 .. 4]] /\ Storing'
        BY <1>1, <2>2, ActorsApart DEF Sound, TypeOK, Storing, Set, Doing
      <3>2. QED
        BY <1>1, <2>2, <3>1, SyncedTyped DEF Sound, TypeOK, Causes
    <2>3. QED
      BY <1>9, <2>1, <2>2 DEF GateFails
  <1>10. CASE RefreshFails
    <2>1. act' \in [Actors -> [pc: Doing, tok: 0 .. issued', at: 1 .. 4]] /\ Storing'
      BY <1>1, <1>10 DEF RefreshFails, Sound, TypeOK, Storing, Set, Doing
    <2>2. store' \in {store, Synced} /\ why' = why \cup {"storage"} /\ UNCHANGED <<version, screen, fired>>
      BY <1>10 DEF RefreshFails
    <2>3. QED
      BY <1>1, <2>1, <2>2, SyncedTyped DEF Sound, TypeOK, Causes
  <1>11. ASSUME NEW c \in Callers, ReadFails(c) PROVE Sound'
    BY <1>1, <1>11, ActorsApart DEF Sound, TypeOK, Storing, ReadFails, Over, Idle, Doing
  <1>12. CASE LoginSaveFails
    BY <1>1, <1>12, ActorsApart DEF Sound, TypeOK, Storing, LoginSaveFails, Set, Doing
  <1>13. QED
    BY <1>2, <1>3, <1>4, <1>5, <1>6, <1>7, <1>8, <1>9, <1>10, <1>11, <1>12 DEF Fault

LEMMA SoundInvariant == Spec => []Sound
  <1>1. Sound /\ [Next]_vars => Sound'
    <2> SUFFICES ASSUME Sound, [Next]_vars PROVE Sound'
      OBVIOUS
    <2>1. CASE Next
      BY <2>1, ActorsApart, CallSound, AnsweredSound, UnauthorizedSound, SendAgainSound,
         RefreshLoadSound, RenewedSound, RefreshSaveSound, RecoverSound, EraseSound,
         ClearedSound, GateStartSound, GateSaveSound, LoginSound, LoginSaveSound, LogoutSound,
         BackgroundReportSound, BackgroundSaveSound, ExpireSound, LapseSound, RevokeSound,
         FaultSound
         DEF Next, CallSteps, RefreshSteps, GateSteps, ClearSteps, BackgroundSteps
    <2>2. CASE UNCHANGED vars
      BY <2>2 DEF vars, Sound, TypeOK, Storing, server
    <2>3. QED
      BY <2>1, <2>2
  <1>2. QED
    BY <1>1, InitSound, PTL DEF Spec

(* Every variable keeps its type.                                          *)
THEOREM TypeCorrect == Spec => []TypeOK
  BY SoundInvariant, PTL DEF Sound

-----------------------------------------------------------------------------
(* A logout that the server has learnt of.                                 *)

AllPairsDead == "told" \in why => \A g \in 1 .. issued : ver[g] # version

LEMMA NewVersion ==
  ASSUME Sound, version' = version + 1, UNCHANGED <<ver, issued>>
  PROVE  AllPairsDead'
  <1>1. ASSUME NEW g \in 1 .. issued PROVE ver[g] # version + 1
    <2>1. g \in Pairs
      BY Bounds DEF Sound, TypeOK, Pairs
    <2>2. ver[g] \in 0 .. version /\ version \in Nat
      BY <2>1 DEF Sound, TypeOK
    <2>3. QED
      BY <2>2
  <1>2. QED
    BY <1>1 DEF AllPairsDead

(* While no pair is live the server issues none but at a login, and what   *)
(* a step adds to the history is never "told" unless the version moved.    *)
LEMMA ToldSteps ==
  ASSUME Sound, AllPairsDead, Next
  PROVE  AllPairsDead'
  <1> USE DEF AllPairsDead
  <1>1. ASSUME NEW c \in Callers, CallSteps(c) PROVE AllPairsDead'
    <2>1. CASE Answered(c)
      <3>1. CASE version' = version + 1
        BY <2>1, <3>1, NewVersion DEF Answered
      <3>2. CASE c # User
        BY <2>1, <3>2 DEF Answered, Effect
      <3>3. QED
        BY <2>1, <3>1, <3>2 DEF Answered, Effect
    <2>2. CASE Unauthorized(c) \/ SendAgain(c)
      BY <2>2 DEF Unauthorized, SendAgain, server
    <2>3. QED
      BY <1>1, <2>1, <2>2 DEF CallSteps
  <1>2. ASSUME NEW a \in Actors, NEW pc, Renewed(a, pc) PROVE AllPairsDead'
    <2>1. CASE Renewable(act[a].tok)
      <3>1. act[a].tok \in 1 .. issued /\ ver[act[a].tok] = version
        BY <2>1 DEF Renewable, Live, Sound, TypeOK
      <3>2. "told" \notin why /\ why' = why
        BY <1>2, <3>1 DEF Renewed
      <3>3. QED
        BY <3>2
    <2>2. CASE ~Renewable(act[a].tok)
      BY <1>2, <2>2 DEF Renewed, server
    <2>3. QED
      BY <2>1, <2>2
  <1>3. ASSUME RefreshLoad \/ RefreshSave \/ Recover \/ GateStart \/ GateSave \/ BackgroundSave
               \/ BackgroundReport \/ Logout \/ \E c \in Calls : Call(c)
        PROVE  AllPairsDead'
    <2>1. UNCHANGED server /\ why' \in {why, why \cup {"logout"}}
      BY <1>3 DEF RefreshLoad, RefreshSave, Recover, GateStart, GateSave, BackgroundSave,
                  BackgroundReport, Logout, Call
    <2>2. QED
      BY <2>1 DEF server
  <1>4. ASSUME NEW a \in Foreground, ClearSteps(a) PROVE AllPairsDead'
    BY <1>4 DEF ClearSteps, Erase, Cleared, AfterClear, server
  <1>5. CASE Login
    BY <1>5 DEF Login, Leftover
  <1>6. CASE LoginSave
    BY <1>6 DEF LoginSave, Leftover, server
  <1>7. CASE Expire \/ Lapse
    BY <1>7 DEF Expire, Lapse
  <1>8. CASE Revoke
    BY <1>8, NewVersion DEF Revoke
  <1>9. CASE Fault
    <2>1. UNCHANGED <<ver, issued>>
      BY <1>9 DEF Fault
    <2>2. ASSUME NEW a \in Actors, NoAnswer(a) PROVE AllPairsDead'
      <3>1. version' = version + 1 \/ UNCHANGED <<version, why>>
            \/ (version' = version /\ why' = why \cup {"failure"})
        BY <2>2 DEF NoAnswer, Effect
      <3>2. QED
        BY <2>1, <3>1, NewVersion
    <2>3. ASSUME NEW c \in Callers, QueryFails(c) PROVE AllPairsDead'
      BY <2>1, <2>3 DEF QueryFails
    <2>4. ASSUME BackgroundSaveFails \/ Kill \/ Resume \/ \E a \in Actors : EraseFails(a)
          PROVE  AllPairsDead'
      BY <2>1, <2>4 DEF BackgroundSaveFails, Kill, Resume, EraseFails
    <2>5. ASSUME \/ GateFails \/ RefreshFails \/ LoginSaveFails
                 \/ \E a \in Foreground : VerifyFails(a)
                 \/ \E c \in Callers : ReadFails(c)
          PROVE  AllPairsDead'
      <3>1. version' = version /\ why' \in {why, why \cup {"storage"}}
        BY <2>5 DEF GateFails, RefreshFails, LoginSaveFails, VerifyFails, ReadFails
      <3>2. QED
        BY <2>1, <3>1
    <2>6. QED
      BY <1>9, <2>2, <2>3, <2>4, <2>5 DEF Fault
  <1>10. QED
    BY <1>1, <1>2, <1>3, <1>4, <1>5, <1>6, <1>7, <1>8, <1>9, ActorsApart
       DEF Next, RefreshSteps, GateSteps, BackgroundSteps

(* After a logout the server has learnt of, whatever a refresh that was    *)
(* under way, the gate or the background isolate still writes to the       *)
(* stores opens nothing: no stored pair is live until the next login.      *)
THEOREM LogoutIsFinal == Spec => []SignedOutIsDead
  <1>1. Init => AllPairsDead
    BY DEF Init, AllPairsDead
  <1>2. Sound /\ AllPairsDead /\ [Next]_vars => AllPairsDead'
    <2>1. AllPairsDead /\ UNCHANGED vars => AllPairsDead'
      BY DEF AllPairsDead, vars, server
    <2>2. QED
      BY <2>1, ToldSteps
  <1>3. Sound /\ AllPairsDead => SignedOutIsDead
    <2> SUFFICES ASSUME Sound, AllPairsDead, "told" \in why, NEW k \in DOMAIN store, Live(store[k])
                 PROVE  FALSE
      BY DEF SignedOutIsDead
    <2>1. store[k] \in 0 .. issued
      BY DEF Sound, TypeOK
    <2>2. store[k] \in 1 .. issued /\ ver[store[k]] = version
      BY <2>1 DEF Live, Sound, TypeOK
    <2>3. QED
      BY <2>2 DEF AllPairsDead
  <1>4. QED
    BY <1>1, <1>2, <1>3, SoundInvariant, PTL DEF Spec

-----------------------------------------------------------------------------
(* The user's own steps leave their mark in the history.                   *)
UserMarked ==
    /\ act[User].pc = "login" => "never" \in why
    /\ act[User].pc \notin {"idle", "login"} => "logout" \in why

(* A start of the app goes through the gate before anything else begins.   *)
GateAlone ==
    act[Gate].pc # "idle" =>
        screen = "splash" /\ \A a \in Foreground \ {Gate} : act[a].pc = "idle"

(* A login that nothing of an earlier session runs into.                   *)
LoginClean ==
    act[User].pc = "login" /\ "late" \notin why =>
        /\ \A a \in Actors \ {User} : act[a].pc = "idle"
        /\ screen = "login"
        /\ act[User].at >= 2 => store.access = act[User].tok
        /\ act[User].at >= 3 => store.refresh = act[User].tok

ActTyped == act \in [Actors -> [pc: Doing, tok: 0 .. issued, at: 1 .. 4]]

Orderly == UserMarked /\ GateAlone /\ LoginClean

(* The steps keep the order of the actors.                                 *)
LEMMA OrderlySteps ==
  ASSUME Sound, Orderly, Next
  PROVE  Orderly'
  <1>0. ActTyped /\ store \in [{"access", "refresh", "mirror"} -> 0 .. issued]
    BY DEF Sound, TypeOK, ActTyped
  <1> USE <1>0, ActorsApart, KeysInOrder
          DEF ActTyped, Orderly, UserMarked, GateAlone, LoginClean, server, Doing
  <1>1. ASSUME NEW c \in Calls, Call(c) PROVE Orderly'
    BY <1>1 DEF Call, Set
  <1>2. ASSUME NEW c \in Callers, Answered(c) PROVE Orderly'
    BY <1>2 DEF Answered, Over, Idle
  <1>3. ASSUME NEW c \in Callers, Unauthorized(c) PROVE Orderly'
    BY <1>3 DEF Unauthorized, AwaitRefresh, Set, Idle
  <1>4. ASSUME NEW c \in Callers, SendAgain(c) PROVE Orderly'
    BY <1>4 DEF SendAgain, Set
  <1>5. ASSUME RefreshLoad PROVE Orderly'
    BY <1>5 DEF RefreshLoad, Set
  <1>6. ASSUME NEW a \in {Refresher, Gate, Background}, NEW pc \in {"recover", "clear", "idle"},
               a = Background => pc = "idle", Renewed(a, pc)
        PROVE  Orderly'
    BY <1>6 DEF Renewed, Set
  <1>7. ASSUME RefreshSave PROVE Orderly'
    BY <1>7 DEF RefreshSave, SaveStep, Resumed, Over, Onwards, Idle
  <1>8. ASSUME Recover PROVE Orderly'
    BY <1>8 DEF Recover, Resumed, Over, Set, Idle
  <1>9. ASSUME NEW a \in Foreground, Erase(a) PROVE Orderly'
    BY <1>9 DEF Erase, Onwards
  <1>10. ASSUME NEW a \in Foreground, Cleared(a) PROVE Orderly'
    BY <1>10 DEF AfterClear, Cleared, NotifySessionExpired, Resumed, Over, Idle
  <1>11. ASSUME GateStart PROVE Orderly'
    BY <1>11 DEF GateOpens, GateStart, Set
  <1>12. ASSUME GateSave PROVE Orderly'
    BY <1>12 DEF GateSave, SaveStep, Set, Onwards
  <1>13. ASSUME Login PROVE Orderly'
    BY <1>13 DEF Login, Leftover, Set
  <1>14. ASSUME LoginSave PROVE Orderly'
    BY <1>14 DEF LoginSave, SaveStep, Leftover, Set, Onwards
  <1>15. ASSUME Logout PROVE Orderly'
    BY <1>15 DEF Logout, Set
  <1>16. ASSUME BackgroundReport PROVE Orderly'
    BY <1>16 DEF BackgroundReport, Set
  <1>17. ASSUME BackgroundSave PROVE Orderly'
    <2>1. /\ act[Background].pc = "save" /\ UNCHANGED <<screen, why>>
          /\ \A a \in Actors \ {Background} : act'[a] = act[a]
      BY <1>17 DEF BackgroundSave, Set, Onwards
    <2>2. QED
      BY <2>1
  <1>18. ASSUME Expire \/ Lapse \/ Revoke PROVE Orderly'
    BY <1>18 DEF Expire, Lapse, Revoke
  <1>19. ASSUME NEW a \in Actors, NoAnswer(a) PROVE Orderly'
    BY <1>19 DEF NoAnswer, Over, Set, Idle
  <1>20. ASSUME NEW a \in Actors, EraseFails(a) PROVE Orderly'
    BY <1>20 DEF EraseFails, Onwards
  <1>21. ASSUME NEW c \in Callers, QueryFails(c) PROVE Orderly'
    BY <1>21 DEF QueryFails, AwaitRefresh, Set, Idle
  <1>22. ASSUME BackgroundSaveFails PROVE Orderly'
    BY <1>22 DEF BackgroundSaveFails, Set
  <1>23. ASSUME Kill PROVE Orderly'
    BY <1>23 DEF Kill, Idle
  <1>24. ASSUME Resume PROVE Orderly'
    BY <1>24 DEF Resume
  <1>25. ASSUME NEW a \in Foreground, VerifyFails(a) PROVE Orderly'
    BY <1>25 DEF VerifyFails, AfterClear, NotifySessionExpired, Resumed, Over, Idle
  <1>26. ASSUME GateFails PROVE Orderly'
    BY <1>26 DEF GateFails, GateOpens, Set
  <1>27. ASSUME RefreshFails PROVE Orderly'
    BY <1>27 DEF RefreshFails, Set
  <1>28. ASSUME NEW c \in Callers, ReadFails(c) PROVE Orderly'
    BY <1>28 DEF ReadFails, Over, Idle
  <1>29. ASSUME LoginSaveFails PROVE Orderly'
    BY <1>29 DEF LoginSaveFails, Set
  <1>30. QED
    BY <1>1, <1>2, <1>3, <1>4, <1>5, <1>6, <1>7, <1>8, <1>9, <1>10, <1>11, <1>12, <1>13, <1>14,
       <1>15, <1>16, <1>17, <1>18, <1>19, <1>20, <1>21, <1>22, <1>23, <1>24, <1>25, <1>26, <1>27, <1>28, <1>29,
       ActorsApart
       DEF Next, CallSteps, RefreshSteps, GateSteps, ClearSteps, BackgroundSteps, Fault

(* While the history shows no cause, every pair in use or stored is live,  *)
(* the refresh token has not expired, nobody is about to clear, and what a *)
(* waiting call will be repeated with has not expired.                     *)
Well ==
    why = {} =>
        /\ screen # "login"
        /\ \A k \in {"access", "refresh", "mirror"} : Live(store[k])
        /\ store.refresh > lapsed
        /\ \A a \in Actors :
              /\ act[a].pc \notin {"clear", "teardown", "recover"}
              /\ act[a].pc \in {"sent", "again", "save"} => Live(act[a].tok)
              /\ act[a].pc = "sent" /\ a \in {Refresher, Gate} => act[a].tok > lapsed
              /\ act[a].pc = "again" => act[a].tok > stale
              /\ act[a].pc = "ready" => store.access > stale /\ store.mirror > stale
        /\ act[Refresher].pc = "save" /\ act[Refresher].at >= 2 => store.access > stale

(* No step of the app, the isolate or the server ends a session by itself. *)
LEMMA WellSteps ==
  ASSUME Sound, Sound', Orderly, Well, Next
  PROVE  Well'
  <1>0. /\ ActTyped /\ store \in [{"access", "refresh", "mirror"} -> 0 .. issued] /\ Storing
        /\ stale \in Nat /\ issued \in Nat /\ lapsed \in Nat /\ lapsed <= stale
    BY Bounds DEF Sound, TypeOK, ActTyped
  <1> USE <1>0, ActorsApart, KeysInOrder
          DEF ActTyped, Orderly, UserMarked, GateAlone, LoginClean, Well, Live, Storing, server, Doing
  <1>1. ASSUME NEW c \in Calls, Call(c) PROVE Well'
    BY <1>1 DEF Call, Set
  <1>2. ASSUME NEW c \in Callers, Answered(c) PROVE Well'
    BY <1>2 DEF Answered, Effect, Accepts, Over, Idle
  <1>3. ASSUME NEW c \in Callers, Unauthorized(c) PROVE Well'
    BY <1>3 DEF Unauthorized, Accepts, AwaitRefresh, Set, Idle
  <1>4. ASSUME NEW c \in Callers, SendAgain(c) PROVE Well'
    BY <1>4 DEF SendAgain, Set
  <1>5. ASSUME RefreshLoad PROVE Well'
    BY <1>5 DEF RefreshLoad, Set
  <1>6. ASSUME NEW a \in {Refresher, Gate, Background}, NEW pc \in {"recover", "clear", "idle"},
               a = Background => pc = "idle", Renewed(a, pc)
        PROVE  Well'
    <2>1. CASE Issue /\ Set(a, "save", issued + 1)
      <3>1. /\ version' = version /\ ver'[issued + 1] = version /\ stale' = stale /\ lapsed' = lapsed
            /\ \A g \in 0 .. issued : ver'[g] = ver[g]
        <4>1. issued' = issued + 1 /\ issued' \in 0 .. MaxIssued /\ ver' = [ver EXCEPT ![issued + 1] = version]
              /\ UNCHANGED <<version, stale, lapsed>>
          BY <2>1, IssueSound DEF Issue
        <4>2. issued + 1 \in Pairs /\ ver \in [Pairs -> 0 .. version] /\ issued \in Nat
          <5>1. issued \in Nat /\ ver \in [Pairs -> 0 .. version]
            BY Bounds DEF Sound, TypeOK
          <5>2. issued + 1 \in 1 .. MaxIssued
            BY <4>1, <5>1, Bounds
          <5>3. QED
            BY <5>1, <5>2 DEF Pairs
        <4>3. QED
          BY <4>1, <4>2
      <3>2. QED
        BY <1>6, <2>1, <3>1 DEF Renewed, Set
    <2>2. CASE ~Renewable(act[a].tok) /\ UNCHANGED server /\ Set(a, pc, 0)
      <3>1. why' = {} => a = Background
        BY <1>6, <2>2 DEF Renewed, Renewable
      <3>2. QED
        BY <1>6, <2>2, <3>1 DEF Renewed, Set
    <2>3. QED
      BY <1>6, <2>1, <2>2 DEF Renewed, Renewable
  <1>7. ASSUME RefreshSave PROVE Well'
    BY <1>7 DEF RefreshSave, SaveStep, Resumed, Over, Onwards, Idle
  <1>8. ASSUME Recover PROVE Well'
    BY <1>8 DEF Recover, Synced, Resumed, Over, Set, Idle
  <1>9. ASSUME NEW a \in Foreground, Erase(a) PROVE Well'
    BY <1>9 DEF Erase, EraseStep, Onwards
  <1>10. ASSUME NEW a \in Foreground, Cleared(a) PROVE Well'
    BY <1>10 DEF AfterClear, Cleared, NotifySessionExpired, Resumed, Over, Idle
  <1>11. ASSUME GateStart PROVE Well'
    BY <1>11 DEF GateOpens, GateStart, Synced, Set
  <1>12. ASSUME GateSave PROVE Well'
    BY <1>12 DEF GateSave, SaveStep, Set, Onwards
  <1>13. ASSUME Login PROVE Well'
    BY <1>13 DEF Login, Issue, Leftover, Set
  <1>14. ASSUME LoginSave PROVE Well'
    BY <1>14 DEF LoginSave, SaveStep, Leftover, Set, Onwards
  <1>15. ASSUME Logout PROVE Well'
    BY <1>15 DEF Logout, Set
  <1>16. ASSUME BackgroundReport PROVE Well'
    BY <1>16 DEF BackgroundReport, Set
  <1>17. ASSUME BackgroundSave PROVE Well'
    <2> PICK g : g = act[Background].tok
      OBVIOUS
    <2>1. /\ \A k \in {"access", "refresh", "mirror"} : store'[k] \in {store[k], g}
          /\ act[Background].pc = "save" /\ UNCHANGED <<server, screen, why>>
      BY <1>17 DEF BackgroundSave
    <2>2. \A a \in Actors \ {Background} : act'[a] = act[a]
      BY <1>17 DEF BackgroundSave, Set, Onwards
    <2>3. act'[Background].pc \in {"idle", "save"} /\ act'[Background].tok \in {0, g}
          /\ (act'[Background].pc = "save" => act'[Background].tok = g)
      <3>1. CASE Set(Background, "idle", 0)
        BY <3>1 DEF Set
      <3>2. CASE Onwards(Background)
        BY <2>1, <3>2 DEF Onwards
      <3>3. QED
        BY <1>17, <3>1, <3>2 DEF BackgroundSave
    <2>4. QED
      BY <2>1, <2>2, <2>3
  <1>18. ASSUME Expire \/ Lapse \/ Revoke PROVE Well'
    BY <1>18 DEF Expire, Lapse, Revoke
  <1>19. ASSUME Fault, NEW a \in Actors, NoAnswer(a) PROVE Well'
    <2>1. UNCHANGED <<store, ver, stale, lapsed>> /\ why \subseteq why'
      BY <1>19 DEF Fault, NoAnswer, server
    <2>2. ASSUME why' = {} PROVE a # User /\ version' = version /\ screen' # "login"
      <3>1. CASE a \in Callers
        BY <1>19, <2>1, <2>2, <3>1, ActorsApart DEF Orderly, UserMarked, NoAnswer, Well
      <3>2. CASE a \notin Callers
        BY <1>19, <2>1, <2>2, <3>2, ActorsApart DEF NoAnswer, Well
      <3>3. QED
        BY <3>1, <3>2
    <2>3. ASSUME why' = {} PROVE act' = [act EXCEPT ![a] = Idle]
      BY <1>19, <2>2, <2>3 DEF NoAnswer, Over, Set, Idle
    <2>4. QED
      BY <1>19, <2>1, <2>2, <2>3 DEF Well, Idle
  <1>20. ASSUME Fault, NEW a \in Actors, EraseFails(a) PROVE Well'
    BY <1>20 DEF Fault, EraseFails, Onwards
  <1>21. ASSUME Fault, NEW c \in Callers, QueryFails(c) PROVE Well'
    BY <1>21 DEF Fault, QueryFails, AwaitRefresh, Set, Idle
  <1>22. ASSUME Fault, BackgroundSaveFails PROVE Well'
    BY <1>22 DEF Fault, BackgroundSaveFails, Set
  <1>23. ASSUME Fault, Kill PROVE Well'
    BY <1>23 DEF Fault, Kill, Idle
  <1>24. ASSUME Fault, Resume PROVE Well'
    BY <1>24 DEF Fault, Resume, Synced
  <1>25. ASSUME Fault, NEW a \in Foreground, VerifyFails(a) PROVE Well'
    BY <1>25 DEF Fault, VerifyFails, AfterClear, NotifySessionExpired, Resumed, Over, Idle
  <1>26. ASSUME Fault, GateFails PROVE Well'
    BY <1>26 DEF Fault, GateFails, GateOpens, Set, Synced
  <1>27. ASSUME Fault, RefreshFails PROVE Well'
    BY <1>27 DEF Fault, RefreshFails, Set
  <1>28. ASSUME Fault, NEW c \in Callers, ReadFails(c) PROVE Well'
    BY <1>28 DEF Fault, ReadFails, Over, Idle
  <1>29. ASSUME Fault, LoginSaveFails PROVE Well'
    BY <1>29 DEF Fault, LoginSaveFails, Set
  <1>30. QED
    BY <1>1, <1>2, <1>3, <1>4, <1>5, <1>6, <1>7, <1>8, <1>9, <1>10, <1>11, <1>12, <1>13, <1>14,
       <1>15, <1>16, <1>17, <1>18, <1>19, <1>20, <1>21, <1>22, <1>23, <1>24, <1>25, <1>26, <1>27, <1>28, <1>29,
       ActorsApart
       DEF Next, CallSteps, RefreshSteps, GateSteps, ClearSteps, BackgroundSteps, Fault

(* No session ends for nothing: who is at the login screen has logged out, *)
(* had the tokens revoked, left the refresh token unused until it expired, *)
(* met a failed refresh, an error of the device's stores, a call of an     *)
(* earlier session or a resume in the middle of a refresh.  Two isolates   *)
(* that refresh at once, a kill between two writes, an expired access      *)
(* token, a store that the isolate cannot write end none.                  *)
THEOREM SessionsEndForCause == Spec => []EndsForCause
  <1>1. Init => Orderly /\ Well
    BY ActorsApart DEF Init, Orderly, UserMarked, GateAlone, LoginClean, Well, Idle
  <1>2. Sound /\ Sound' /\ Orderly /\ Well /\ [Next]_vars => (Orderly /\ Well)'
    <2>1. Orderly /\ Well /\ UNCHANGED vars => (Orderly /\ Well)'
      BY DEF Orderly, UserMarked, GateAlone, LoginClean, Well, Live, vars, server
    <2>2. QED
      BY <2>1, OrderlySteps, WellSteps
  <1>3. Well => EndsForCause
    BY DEF Well, EndsForCause
  <1>4. QED
    BY <1>1, <1>2, <1>3, SoundInvariant, PTL DEF Spec

-----------------------------------------------------------------------------
(* Whatever a call waits for is still under way.                           *)

(* What a refresh may be doing.                                            *)
Refreshing == {"idle", "load", "sent", "save", "recover", "clear"}

Served == act[Refresher].pc \in Refreshing /\ WaitersAreServed

LEMMA ServedSteps ==
  ASSUME Sound, Served, Next
  PROVE  Served'
  <1>0. ActTyped
    BY DEF Sound, TypeOK, ActTyped
  <1> USE <1>0, ActorsApart DEF ActTyped, Served, Refreshing, WaitersAreServed
  <1>1. ASSUME NEW c \in Calls, Call(c) PROVE Served'
    BY <1>1 DEF Call, Set
  <1>2. ASSUME NEW c \in Callers, Answered(c) PROVE Served'
    BY <1>2 DEF Answered, Over, Idle
  <1>3. ASSUME NEW c \in Callers, Unauthorized(c) PROVE Served'
    BY <1>3 DEF Unauthorized, AwaitRefresh, Set, Idle
  <1>4. ASSUME NEW c \in Callers, SendAgain(c) PROVE Served'
    BY <1>4 DEF SendAgain, Set
  <1>5. ASSUME RefreshLoad PROVE Served'
    BY <1>5 DEF RefreshLoad, Set
  <1>6. ASSUME NEW a \in {Refresher, Gate, Background}, NEW pc \in {"recover", "clear", "idle"},
               a = Refresher => pc = "recover", Renewed(a, pc)
        PROVE  Served'
    BY <1>6 DEF Renewed, Set
  <1>7. ASSUME RefreshSave PROVE Served'
    BY <1>7 DEF RefreshSave, Resumed, Over, Onwards, Idle
  <1>8. ASSUME Recover PROVE Served'
    BY <1>8 DEF Recover, Resumed, Over, Set, Idle
  <1>9. ASSUME NEW a \in Foreground, Erase(a) PROVE Served'
    BY <1>9 DEF Erase, Onwards
  <1>10. ASSUME NEW a \in Foreground, Cleared(a) PROVE Served'
    BY <1>10 DEF AfterClear, Cleared, Resumed, Over, Idle
  <1>11. ASSUME GateStart PROVE Served'
    BY <1>11 DEF GateOpens, GateStart, Set
  <1>12. ASSUME GateSave PROVE Served'
    BY <1>12 DEF GateSave, Set, Onwards
  <1>13. ASSUME Login PROVE Served'
    BY <1>13 DEF Login, Set
  <1>14. ASSUME LoginSave PROVE Served'
    BY <1>14 DEF LoginSave, Set, Onwards
  <1>15. ASSUME Logout PROVE Served'
    BY <1>15 DEF Logout, Set
  <1>16. ASSUME BackgroundReport PROVE Served'
    BY <1>16 DEF BackgroundReport, Set
  <1>17. ASSUME BackgroundSave PROVE Served'
    BY <1>17 DEF BackgroundSave, Set, Onwards
  <1>18. ASSUME Expire \/ Lapse \/ Revoke PROVE Served'
    BY <1>18 DEF Expire, Lapse, Revoke
  <1>19. ASSUME NEW a \in Actors, NoAnswer(a) PROVE Served'
    BY <1>19 DEF NoAnswer, Over, Set, Idle
  <1>20. ASSUME NEW a \in Actors, EraseFails(a) PROVE Served'
    BY <1>20 DEF EraseFails, Onwards
  <1>21. ASSUME NEW c \in Callers, QueryFails(c) PROVE Served'
    BY <1>21 DEF QueryFails, AwaitRefresh, Set, Idle
  <1>22. ASSUME BackgroundSaveFails PROVE Served'
    BY <1>22 DEF BackgroundSaveFails, Set
  <1>23. ASSUME Kill PROVE Served'
    BY <1>23 DEF Kill, Idle
  <1>24. ASSUME Resume PROVE Served'
    BY <1>24 DEF Resume
  <1>25. ASSUME NEW a \in Foreground, VerifyFails(a) PROVE Served'
    BY <1>25 DEF VerifyFails, AfterClear, Resumed, Over, Idle
  <1>26. ASSUME GateFails PROVE Served'
    BY <1>26 DEF GateFails, GateOpens, Set
  <1>27. ASSUME RefreshFails PROVE Served'
    BY <1>27 DEF RefreshFails, Set
  <1>28. ASSUME NEW c \in Callers, ReadFails(c) PROVE Served'
    BY <1>28 DEF ReadFails, Over, Idle
  <1>29. ASSUME LoginSaveFails PROVE Served'
    BY <1>29 DEF LoginSaveFails, Set
  <1>30. QED
    BY <1>1, <1>2, <1>3, <1>4, <1>5, <1>6, <1>7, <1>8, <1>9, <1>10, <1>11, <1>12,
       <1>13, <1>14, <1>15, <1>16, <1>17, <1>18, <1>19, <1>20, <1>21, <1>22, <1>23, <1>24, <1>25, <1>26, <1>27, <1>28, <1>29,
       ActorsApart
       DEF Next, CallSteps, RefreshSteps, GateSteps, ClearSteps, BackgroundSteps, Fault

(* No call waits for a refresh that is over: the shared future of          *)
(* _tryRefresh completes for every call that awaits it, however the        *)
(* refresh ends, and a kill ends both.                                     *)
THEOREM WaitersStayServed == Spec => []WaitersAreServed
  <1>1. Init => Served
    BY ActorsApart DEF Init, Idle, Served, Refreshing, WaitersAreServed
  <1>2. Sound /\ Served /\ [Next]_vars => Served'
    <2>1. Served /\ UNCHANGED vars => Served'
      BY DEF Served, WaitersAreServed, vars
    <2>2. QED
      BY <2>1, ServedSteps
  <1>3. Served => WaitersAreServed
    BY DEF Served
  <1>4. QED
    BY <1>1, <1>2, <1>3, SoundInvariant, PTL DEF Spec
=============================================================================
