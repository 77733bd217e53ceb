------------------------- MODULE MembershipProofs -------------------------
(***************************************************************************)
(* What the row locks of PostgreSQL and the order of the handlers'         *)
(* statements promise of every table of requests and every start: that no  *)
(* family loses its last admin, that an invite is used as often as it may  *)
(* be and as it counts, that nobody is in a family that is gone, that only *)
(* an admin changes a role, and which transactions never deadlock.         *)
(***************************************************************************)
EXTENDS Membership, FiniteSetTheorems, WellFoundedInduction, TLAPS

USE MembershipAssumption

-----------------------------------------------------------------------------
(* The rows and the requests.                                              *)

LEMMA RowsApart ==
    /\ \A u, v \in Users : U(u) = U(v) <=> u = v
    /\ \A f, h : F(f) = F(h) <=> f = h
    /\ \A c, d : C(c) = C(d) <=> c = d
    /\ \A u, f, c : U(u) # F(f) /\ U(u) # C(c) /\ F(f) # C(c)
  BY DEF U, F, C

LEMMA RowsAreRows ==
    /\ \A u \in Users : U(u) \in Rows
    /\ \A f \in Families : F(f) \in Rows
    /\ \A c \in Codes : C(c) \in Rows
  BY DEF Rows

LEMMA RequestIsTyped ==
    ASSUME NEW t \in Requests
    PROVE  /\ Req[t].op \in Ops /\ Req[t].role \in Roles
           /\ Req[t].user \in Users \cup {None} /\ Req[t].by \in Users \cup {None}
           /\ Req[t].family \in Families \cup {None} /\ Req[t].code \in Codes \cup {None}
  <1>1. Req[t] \in Request
    BY DEF Requests
  <1> QED  BY <1>1 DEF Request

-----------------------------------------------------------------------------
(* What the parts of a step do to the request's transaction and locks.     *)

Book ==
    /\ tx \in [Requests -> Transaction]
    /\ held \in [Requests -> SUBSET Rows] /\ shared \in [Requests -> SUBSET Rows]

Contents ==
    /\ user \in [Users -> UserRow] /\ code \in [Codes -> CodeRow]
    /\ family \in [Families -> {"unused", "there", "gone"}]
    /\ overruled \subseteq Families

Alone(t) == \A s \in Requests \ {t} :
    tx'[s] = tx[s] /\ held'[s] = held[s] /\ shared'[s] = shared[s]

LEMMA EndsEffect ==
    ASSUME Book, NEW t \in Requests, NEW how \in Ended, Ends(t, how)
    PROVE  /\ Book' /\ Alone(t)
           /\ tx'[t].pc = how /\ held'[t] = {} /\ shared'[t] = {}
           /\ tx'[t].family = tx[t].family /\ tx'[t].todo = tx[t].todo
  BY DEF Book, Alone, Ends, Goto, Transaction, Stages

LEMMA GotoEffect ==
    ASSUME Book, NEW t \in Requests, NEW pc \in Stages, Goto(t, pc)
    PROVE  /\ tx' \in [Requests -> Transaction] /\ \A s \in Requests \ {t} : tx'[s] = tx[s]
           /\ tx'[t].pc = pc /\ tx'[t].family = tx[t].family /\ tx'[t].todo = tx[t].todo
  BY DEF Book, Goto, Transaction

LEMMA EnterEffect ==
    ASSUME Book, NEW t \in Requests, NEW pc \in Stages, NEW f \in Families \cup {None},
           NEW todo \in SUBSET Families, Enter(t, pc, f, todo)
    PROVE  /\ tx' \in [Requests -> Transaction] /\ \A s \in Requests \ {t} : tx'[s] = tx[s]
           /\ tx'[t].pc = pc /\ tx'[t].family = f /\ tx'[t].todo = todo
  BY DEF Book, Enter, Transaction

LEMMA LockEffect ==
    ASSUME Book, NEW t \in Requests, NEW r \in Rows, Lock(t, r)
    PROVE  /\ held' \in [Requests -> SUBSET Rows] /\ shared' = shared /\ UNCHANGED <<rows, overruled>>
           /\ \A s \in Requests \ {t} : held'[s] = held[s] /\ r \notin held[s]
           /\ held'[t] = held[t] \cup {r}
           /\ tx[t].pc # "fk" => \A s \in Requests \ {t} : r \notin shared[s]
  BY DEF Book, Lock, InTheWay

LEMMA OnwardsIsTyped ==
    ASSUME NEW t \in Requests, NEW f
    PROVE  Onwards(t, f) \in Stages
  BY DEF Onwards, Stages, Ended

LEMMA RefuseEffect ==
    ASSUME Book, NEW t \in Requests, Refuse(t)
    PROVE  /\ Book' /\ Alone(t) /\ UNCHANGED <<rows, overruled>>
           /\ tx'[t].pc = "refused" /\ held'[t] = {} /\ shared'[t] = {}
  <1>1. Ends(t, "refused") /\ "refused" \in Ended
    BY DEF Refuse, Ended
  <1> QED  BY <1>1, EndsEffect DEF Refuse

-----------------------------------------------------------------------------
(* What each request may rely on.  A row it has locked is nobody else's,   *)
(* and was inserted by a request that is done.                             *)

Exclusive == \A s, t \in Requests : s # t => held[s] \cap (held[t] \cup shared[t]) = {}

Old(t) == \A s \in Requests : Inserts(s) \cap (held[t] \cup shared[t]) # {} => tx[s].pc = "done"

InsertIsNew(t) ==
    tx[t].pc # "done" =>
        /\ \A u \in Users : U(u) \in Inserts(t) => ~user[u].there
        /\ \A f \in Families : F(f) \in Inserts(t) => family[f] # "there"
        /\ \A c \in Codes : C(c) \in Inserts(t) => ~code[c].there

(* Which requests pass by a stage.                                         *)
Guarded == {"leave", "delete", "assign", "setRole", "role"}
ByCode(t) == Req[t].op \in {"join", "register"} /\ Req[t].code \in Codes

StageFits(t) ==
    /\ tx[t].pc = "user" => Req[t].op \in OwnRow
    /\ tx[t].pc = "code" => ByCode(t)
    /\ tx[t].pc \in {"family", "count"} => Req[t].op \in Guarded
    /\ tx[t].pc = "caller" => Req[t].op \in {"role", "invite"}
    /\ tx[t].pc = "target" => Req[t].op = "role"
    /\ tx[t].pc = "fk" =>
          Req[t].op \in {"join", "move", "register", "createUser", "invite", "adminInvite"}
    /\ tx[t].pc = "drop" => Req[t].op = "deleteFamily"
    /\ tx[t].pc = "cascade" => Req[t].op \in {"delete", "deleteFamily"}

(* The row of the user concerned, as it was read.                          *)
HasUser(t) ==
    \/ Req[t].op \in OwnRow /\ tx[t].pc \notin Unserved \cup {"user"}
    \/ Req[t].op = "role" /\ tx[t].pc \in {"count", "write"}

UserIsHeld(t) ==
    HasUser(t) =>
        /\ U(Req[t].user) \in held[t] /\ user[Req[t].user].there
        /\ Req[t].op \in {"create", "join"} => user[Req[t].user].family = None
        /\ Req[t].op \in Guarded => user[Req[t].user].family = tx[t].family

(* The families whose admins are counted, or that are joined.              *)
Needed(t) == {tx[t].family, IF Req[t].op = "assign" THEN Req[t].family ELSE tx[t].family} \ {None}

FamilyIsHeld(t) ==
    Req[t].op \in Guarded => \A f \in Needed(t) :
        /\ tx[t].pc \in {"caller", "target", "count", "cascade", "write"} => F(f) \in held[t]
        /\ tx[t].pc = "family" => F(f) \in held[t] \cup {F(h) : h \in tx[t].todo}

Enters(t) ==
    \/ Req[t].op \in {"join", "move"}
    \/ Req[t].op = "register" /\ ByCode(t)
    \/ Req[t].op = "createUser" /\ Req[t].family # None
    \/ Req[t].op \in {"invite", "adminInvite"}

EntryIsHeld(t) ==
    /\ tx[t].pc = "write" /\ Enters(t) => F(tx[t].family) \in shared[t]
    /\ tx[t].pc \in {"fk", "write"} /\ Req[t].op \in {"move", "createUser"} =>
          tx[t].family = Req[t].family

CodeIsHeld(t) ==
    ByCode(t) /\ tx[t].pc \in {"fk", "write"} =>
        C(Req[t].code) \in held[t] /\ code[Req[t].code].uses < MaxUses

(* A family about to be deleted, with the rows that refer to it.           *)
DropIsHeld(t) ==
    /\ Req[t].op = "deleteFamily" /\ tx[t].pc \in {"cascade", "write"} =>
          tx[t].todo = {tx[t].family} /\ F(tx[t].family) \in held[t]
    /\ Req[t].op = "deleteFamily" /\ tx[t].pc = "write" =>
          \A u \in Of(tx[t].family) : U(u) \in held[t]
    /\ Req[t].op = "delete" /\ tx[t].pc = "count" => tx[t].todo = {}
    /\ Req[t].op = "delete" /\ tx[t].pc \in {"cascade", "write"} =>
          \/ tx[t].todo = {}
          \/ /\ tx[t].family # None /\ tx[t].todo = {tx[t].family}
             /\ Of(tx[t].family) \subseteq {Req[t].user}
    /\ tx[t].pc = "cascade" => tx[t].todo # {}

(* What the guards against losing the last admin have found still holds.   *)
Demotes(t) ==
    /\ Req[t].op \in Guarded /\ tx[t].family # None
    /\ user[Req[t].user].role = "admin"
    /\ Req[t].op \in {"role", "setRole"} => Req[t].role # "admin"

AnotherLeads(t) ==
    tx[t].pc = "write" /\ Demotes(t) /\ tx[t].family \notin overruled =>
        \/ \E v \in Admins(tx[t].family) : v # Req[t].user
        \/ Req[t].op = "delete" /\ tx[t].todo # {}

Mine(t) ==
    /\ StageFits(t) /\ UserIsHeld(t) /\ FamilyIsHeld(t) /\ EntryIsHeld(t)
    /\ CodeIsHeld(t) /\ DropIsHeld(t) /\ AnotherLeads(t)

Locked == Exclusive /\ \A t \in Requests : Old(t) /\ InsertIsNew(t)

Inv == Book /\ Contents /\ Locked /\ \A t \in Requests : Mine(t)

-----------------------------------------------------------------------------
(* A step that is no commit: it changes no row, may be granted one more    *)
(* lock on a row that is there, or ends the request.                       *)

Real(r) ==
    \/ \E u \in Users : r = U(u) /\ user[u].there
    \/ \E f \in Families : r = F(f) /\ There(f)
    \/ \E c \in Codes : r = C(c) /\ code[c].there

Granted(t) ==
    \/ held'[t] = {} /\ shared'[t] = {}
    \/ held'[t] = held[t] /\ shared'[t] = shared[t]
    \/ \E r \in Rows :
          /\ Real(r) /\ held'[t] = held[t] \cup {r} /\ shared'[t] = shared[t]
          /\ \A s \in Requests \ {t} : r \notin held[s] \cup shared[s]
    \/ \E r \in Rows :
          /\ Real(r) /\ held'[t] = held[t] /\ shared'[t] = shared[t] \cup {r}
          /\ \A s \in Requests \ {t} : r \notin held[s]

Quiet(t) ==
    /\ Book' /\ Alone(t) /\ UNCHANGED <<rows, overruled>>
    /\ tx[t].pc # "done" /\ tx'[t].pc # "done" /\ Granted(t) /\ Mine(t)'

LEMMA RealIsOld ==
    ASSUME Locked, NEW r, Real(r), NEW s \in Requests, r \in Inserts(s)
    PROVE  tx[s].pc = "done"
  <1>1. CASE \E u \in Users : r = U(u) /\ user[u].there
    BY <1>1 DEF Locked, InsertIsNew
  <1>2. CASE \E f \in Families : r = F(f) /\ There(f)
    BY <1>2 DEF Locked, InsertIsNew, There
  <1>3. CASE \E c \in Codes : r = C(c) /\ code[c].there
    BY <1>3 DEF Locked, InsertIsNew
  <1> QED  BY <1>1, <1>2, <1>3 DEF Real

LEMMA QuietKeepsLocked ==
    ASSUME Inv, NEW t \in Requests, Quiet(t)
    PROVE  Locked'
  <1> USE DEF Inv, Quiet
  <1>1. ASSUME NEW s \in Requests, tx[s].pc = "done" PROVE tx'[s].pc = "done"
    BY <1>1 DEF Alone
  <1>2. Exclusive'
    <2>1. ASSUME NEW a \in Requests, NEW b \in Requests, a # b
          PROVE  held'[a] \cap (held'[b] \cup shared'[b]) = {}
      <3>0. held[a] \cap (held[b] \cup shared[b]) = {} /\ held[b] \cap (held[a] \cup shared[a]) = {}
        BY <2>1 DEF Locked, Exclusive
      <3>1. CASE a # t /\ b # t
        BY <3>0, <3>1 DEF Alone
      <3>2. CASE a = t
        BY <2>1, <3>0, <3>2 DEF Alone, Granted
      <3>3. CASE b = t
        BY <2>1, <3>0, <3>3 DEF Alone, Granted
      <3> QED  BY <3>1, <3>2, <3>3
    <2> QED  BY <2>1 DEF Exclusive
  <1>3. ASSUME NEW s \in Requests PROVE Old(s)'
    <2>1. ASSUME NEW a \in Requests, NEW r, r \in Inserts(a), r \in held'[s] \cup shared'[s]
          PROVE  tx[a].pc = "done"
      <3>1. CASE r \in held[s] \cup shared[s]
        BY <2>1, <3>1 DEF Locked, Old
      <3>2. CASE r \notin held[s] \cup shared[s]
        <4>1. Real(r)
          BY <2>1, <3>2 DEF Alone, Granted
        <4> QED  BY <4>1, <2>1, RealIsOld
      <3> QED  BY <3>1, <3>2
    <2>2. ASSUME NEW a \in Requests, Inserts(a) \cap (held'[s] \cup shared'[s]) # {}
          PROVE  tx'[a].pc = "done"
      <3>1. PICK r : r \in Inserts(a) /\ r \in held'[s] \cup shared'[s]
        BY <2>2
      <3> QED  BY <3>1, <2>1, <1>1
    <2> QED  BY <2>2 DEF Old, Inserts
  <1>4. ASSUME NEW s \in Requests PROVE InsertIsNew(s)'
    <2>1. InsertIsNew(s)
      BY DEF Locked
    <2>2. UNCHANGED <<user, code, family>>
      BY DEF rows
    <2> QED  BY <1>1, <2>1, <2>2 DEF InsertIsNew, Inserts
  <1> QED  BY <1>2, <1>3, <1>4 DEF Locked

LEMMA QuietKeepsOthers ==
    ASSUME Inv, NEW t \in Requests, Quiet(t), NEW s \in Requests, s # t
    PROVE  Mine(s)'
  <1>1. tx'[s] = tx[s] /\ held'[s] = held[s] /\ shared'[s] = shared[s]
    BY DEF Quiet, Alone
  <1>2. user' = user /\ code' = code /\ family' = family /\ overruled' = overruled
    BY DEF Quiet, rows
  <1>3. Mine(s)
    BY DEF Inv
  <1>4. StageFits(s)' /\ UserIsHeld(s)' /\ FamilyIsHeld(s)' /\ EntryIsHeld(s)'
    BY <1>1, <1>2, <1>3 DEF Mine, StageFits, ByCode, UserIsHeld, HasUser, FamilyIsHeld, Needed,
       EntryIsHeld, Enters
  <1>5. CodeIsHeld(s)' /\ DropIsHeld(s)'
    BY <1>1, <1>2, <1>3 DEF Mine, CodeIsHeld, ByCode, DropIsHeld, Of
  <1>6. AnotherLeads(s)'
    BY <1>1, <1>2, <1>3 DEF Mine, AnotherLeads, Demotes, Admins, Of
  <1> QED  BY <1>4, <1>5, <1>6 DEF Mine

LEMMA QuietKeepsInv ==
    ASSUME Inv, NEW t \in Requests, Quiet(t)
    PROVE  Inv'
  <1>1. Contents'
    BY DEF Inv, Quiet, Contents, rows
  <1>2. \A s \in Requests : Mine(s)'
    BY QuietKeepsOthers DEF Quiet
  <1> QED  BY <1>1, <1>2, QuietKeepsLocked DEF Inv, Quiet

LEMMA EndIsQuiet ==
    ASSUME Inv, NEW t \in Requests, NEW how \in {"refused", "aborted"}, Ends(t, how),
           UNCHANGED <<rows, overruled>>, tx[t].pc # "done"
    PROVE  Quiet(t)
  <1>1. /\ Book' /\ Alone(t)
        /\ tx'[t].pc = how /\ held'[t] = {} /\ shared'[t] = {}
    BY EndsEffect DEF Inv, Ended
  <1>2. Mine(t)'
    BY <1>1 DEF Mine, StageFits, UserIsHeld, HasUser, Unserved, Ended, FamilyIsHeld, EntryIsHeld,
       CodeIsHeld, DropIsHeld, AnotherLeads
  <1> QED  BY <1>1, <1>2 DEF Quiet, Granted

LEMMA RefuseIsQuiet ==
    ASSUME Inv, NEW t \in Requests, Refuse(t), tx[t].pc # "done"
    PROVE  Quiet(t)
  BY EndIsQuiet DEF Refuse

(* A step that only moves on.                                              *)
MovesOn(t) == /\ Book' /\ Alone(t) /\ UNCHANGED <<rows, overruled>>
              /\ held' = held /\ shared' = shared

LEMMA GotoMovesOn ==
    ASSUME Inv, NEW t \in Requests, NEW pc \in Stages, Goto(t, pc), Elsewhere
    PROVE  /\ MovesOn(t)
           /\ tx'[t].pc = pc /\ tx'[t].family = tx[t].family /\ tx'[t].todo = tx[t].todo
  BY GotoEffect DEF Inv, Elsewhere, Book, Alone, MovesOn

LEMMA EnterMovesOn ==
    ASSUME Inv, NEW t \in Requests, NEW pc \in Stages, NEW f \in Families \cup {None},
           NEW todo \in SUBSET Families, Enter(t, pc, f, todo), Elsewhere
    PROVE  /\ MovesOn(t)
           /\ tx'[t].pc = pc /\ tx'[t].family = f /\ tx'[t].todo = todo
  BY EnterEffect DEF Inv, Elsewhere, Book, Alone, MovesOn

LEMMA MovesOnIsQuiet ==
    ASSUME NEW t \in Requests, MovesOn(t), tx[t].pc # "done", tx'[t].pc # "done", Mine(t)'
    PROVE  Quiet(t)
  BY DEF MovesOn, Quiet, Granted

LEMMA BeginOwnRowIsQuiet ==
    ASSUME Inv, NEW t \in Requests, BeginOwnRow(t)
    PROVE  Quiet(t)
  <1>0. tx[t].pc = "new" /\ Req[t].op \in OwnRow
    BY DEF BeginOwnRow, Arrives
  <1>1. CASE Refuse(t)
    BY <1>0, <1>1, RefuseIsQuiet
  <1>2. CASE Goto(t, "user") /\ Elsewhere
    <2>1. MovesOn(t) /\ tx'[t].pc = "user"
      BY <1>2, GotoMovesOn DEF Stages
    <2>2. Mine(t)'
      BY <1>0, <2>1 DEF Mine, StageFits, UserIsHeld, HasUser, FamilyIsHeld, EntryIsHeld,
         CodeIsHeld, DropIsHeld, AnotherLeads, OwnRow
    <2> QED  BY <1>0, <2>1, <2>2, MovesOnIsQuiet
  <1> QED  BY <1>1, <1>2 DEF BeginOwnRow

LEMMA BeginAsMemberIsQuiet ==
    ASSUME Inv, NEW t \in Requests, BeginAsMember(t)
    PROVE  Quiet(t)
  <1>0. tx[t].pc = "new" /\ Req[t].op \in {"role", "invite"} /\ Req[t].by \in Users
    BY RequestAssumption DEF BeginAsMember, Arrives
  <1> DEFINE f == user[Req[t].by].family
  <1>1. CASE Refuse(t)
    BY <1>0, <1>1, RefuseIsQuiet
  <1>2. CASE f # None /\ Enter(t, Follows(t, "new"), f, {f}) /\ Elsewhere
    <2>1. f \in Families
      BY <1>0, <1>2 DEF Inv, Contents, UserRow
    <2>2. Follows(t, "new") \in {"family", "caller"} /\ Follows(t, "new") \in Stages
          /\ (Req[t].op # "role" => Follows(t, "new") = "caller")
          /\ (Req[t].op = "role" => Follows(t, "new") = "family")
      BY DEF Follows, Stages
    <2>3. /\ MovesOn(t) /\ tx'[t].pc = Follows(t, "new")
          /\ tx'[t].family = f /\ tx'[t].todo = {f}
      <3>1. f \in Families \cup {None} /\ {f} \in SUBSET Families
        BY <2>1
      <3> HIDE DEF f
      <3> QED  BY <1>2, <2>2, <3>1, EnterMovesOn
    <2>4. Mine(t)'
      BY <1>0, <2>2, <2>3 DEF Mine, StageFits, UserIsHeld, HasUser, FamilyIsHeld, Needed, EntryIsHeld,
         CodeIsHeld, ByCode, DropIsHeld, AnotherLeads, OwnRow, Guarded
    <2> QED  BY <1>0, <2>2, <2>3, <2>4, MovesOnIsQuiet
  <1> QED  BY <1>1, <1>2 DEF BeginAsMember

LEMMA BeginRegisterIsQuiet ==
    ASSUME Inv, NEW t \in Requests, BeginRegister(t)
    PROVE  Quiet(t)
  <1> DEFINE next == IF Req[t].code = None THEN "write" ELSE "code"
  <1>0. tx[t].pc = "new" /\ Req[t].op = "register" /\ Goto(t, next) /\ Elsewhere
    BY DEF BeginRegister, Arrives
  <1>1. next \in Stages /\ next \in {"write", "code"}
        /\ (next = "code" => Req[t].code \in Codes) /\ (next = "write" => Req[t].code \notin Codes)
    BY RequestIsTyped DEF Stages
  <1>2. MovesOn(t) /\ tx'[t].pc = next
    <2> HIDE DEF next
    <2> QED  BY <1>0, <1>1, GotoMovesOn
  <1>3. Mine(t)'
    <2> HIDE DEF next
    <2> QED
      BY <1>0, <1>1, <1>2 DEF Mine, StageFits, UserIsHeld, HasUser, FamilyIsHeld, EntryIsHeld, Enters,
         CodeIsHeld, ByCode, DropIsHeld, AnotherLeads, Demotes, OwnRow, Guarded
  <1> QED  BY <1>0, <1>2, <1>3, MovesOnIsQuiet

LEMMA BeginAsPlatformIsQuiet ==
    ASSUME Inv, NEW t \in Requests, BeginAsPlatform(t)
    PROVE  Quiet(t)
  <1> DEFINE f == Req[t].family
             next == CASE Req[t].op = "deleteFamily" -> "drop"
                       [] Req[t].op = "newFamily" \/ f = None -> "write"
                       [] OTHER -> IF There(f) THEN "fk" ELSE "refused"
  <1>0. /\ tx[t].pc = "new" /\ Req[t].op \in {"createUser", "adminInvite", "newFamily", "deleteFamily"}
        /\ f \in Families \cup {None}
    BY RequestIsTyped DEF BeginAsPlatform, Arrives
  <1>1. IF next = "refused" THEN Refuse(t) ELSE Enter(t, next, f, {}) /\ Elsewhere
    BY DEF BeginAsPlatform
  <1>2. /\ next \in {"drop", "write", "fk", "refused"}
        /\ next = "drop" => Req[t].op = "deleteFamily"
        /\ next \in {"write", "fk"} => Req[t].op # "deleteFamily"
        /\ next = "fk" => Req[t].op # "newFamily"
        /\ next = "write" /\ Req[t].op = "createUser" => f = None
        /\ next = "write" => Req[t].op # "adminInvite"
    <2>1. CASE Req[t].op = "deleteFamily"
      <3>1. f # None
        BY <2>1, RequestAssumption
      <3> QED  BY <2>1, <3>1
    <2>2. CASE Req[t].op # "deleteFamily" /\ (Req[t].op = "newFamily" \/ f = None)
      BY <1>0, <2>2, RequestAssumption
    <2>3. CASE Req[t].op \notin {"deleteFamily", "newFamily"} /\ f # None
      <3>1. next = IF There(f) THEN "fk" ELSE "refused"
        BY <2>3
      <3> QED  BY <2>3, <3>1
    <2> QED  BY <2>1, <2>2, <2>3
  <1>3. CASE next = "refused"
    BY <1>0, <1>1, <1>3, RefuseIsQuiet
  <1>4. CASE next # "refused"
    <2> HIDE DEF next
    <2>1. next \in Stages /\ {} \in SUBSET Families
      BY <1>2 DEF Stages, Ended
    <2>2. MovesOn(t) /\ tx'[t].pc = next /\ tx'[t].family = f /\ tx'[t].todo = {}
      <3>1. Enter(t, next, f, {}) /\ Elsewhere
        BY <1>1, <1>4
      <3> HIDE DEF f
      <3> QED  BY <1>0, <2>1, <3>1, EnterMovesOn
    <2>3. Mine(t)'
      BY <1>0, <1>2, <1>4, <2>2 DEF Mine, StageFits, UserIsHeld, HasUser, FamilyIsHeld, EntryIsHeld, Enters,
         CodeIsHeld, ByCode, DropIsHeld, AnotherLeads, Demotes, OwnRow, Guarded
    <2> QED  BY <1>0, <1>2, <2>2, <2>3, MovesOnIsQuiet
  <1> QED  BY <1>3, <1>4

LEMMA ReadCallerIsQuiet ==
    ASSUME Inv, NEW t \in Requests, ReadCaller(t)
    PROVE  Quiet(t)
  <1>0. tx[t].pc = "caller" /\ Req[t].op \in {"role", "invite"} /\ Mine(t)
    BY DEF ReadCaller, Inv, Mine, StageFits
  <1>1. CASE Refuse(t)
    BY <1>0, <1>1, RefuseIsQuiet
  <1>2. CASE Goto(t, Follows(t, "caller")) /\ Elsewhere
    <2>1. Follows(t, "caller") = IF Req[t].op = "role" THEN "target" ELSE "fk"
      BY DEF Follows
    <2>2. Follows(t, "caller") \in Stages
      BY <2>1 DEF Stages
    <2>3. /\ MovesOn(t) /\ tx'[t].pc = Follows(t, "caller")
          /\ tx'[t].family = tx[t].family /\ tx'[t].todo = tx[t].todo
      BY <1>2, <2>2, GotoMovesOn
    <2>4. held'[t] = held[t]
      BY <2>3 DEF MovesOn
    <2>5. Mine(t)'
      BY <1>0, <2>1, <2>3, <2>4 DEF Mine, StageFits, UserIsHeld, HasUser, FamilyIsHeld, Needed,
         EntryIsHeld, CodeIsHeld, ByCode, DropIsHeld, AnotherLeads, OwnRow, Guarded
    <2> QED  BY <1>0, <2>1, <2>3, <2>5, MovesOnIsQuiet
  <1> QED  BY <1>1, <1>2 DEF ReadCaller

(* A step that locks one more row, exclusively.                            *)
LocksOne(t, r) ==
    /\ Alone(t) /\ held' \in [Requests -> SUBSET Rows] /\ UNCHANGED <<rows, overruled, shared>>
    /\ held'[t] = held[t] \cup {r}
    /\ \A s \in Requests \ {t} : r \notin held[s] \cup shared[s]

LEMMA LockAndEnter ==
    ASSUME Inv, NEW t \in Requests, NEW r \in Rows, Lock(t, r), tx[t].pc # "fk",
           NEW pc \in Stages, NEW f \in Families \cup {None}, NEW todo \in SUBSET Families,
           Enter(t, pc, f, todo)
    PROVE  /\ Book' /\ LocksOne(t, r)
           /\ tx'[t].pc = pc /\ tx'[t].family = f /\ tx'[t].todo = todo
  BY LockEffect, EnterEffect DEF Inv, Book, Alone, LocksOne

LEMMA LocksOneIsQuiet ==
    ASSUME NEW t \in Requests, NEW r \in Rows, Book', LocksOne(t, r), Real(r),
           tx[t].pc # "done", tx'[t].pc # "done", Mine(t)'
    PROVE  Quiet(t)
  BY DEF LocksOne, Quiet, Granted

LEMMA LockUserIsQuiet ==
    ASSUME Inv, NEW t \in Requests, LockUser(t)
    PROVE  Quiet(t)
  <1> DEFINE u == Req[t].user
             row == user[u]
             next == IF row.there THEN Onwards(t, row.family) ELSE "refused"
             f == IF Req[t].op = "move" THEN Req[t].family ELSE row.family
             todo == {row.family, IF Req[t].op = "assign" THEN Req[t].family ELSE row.family} \ {None}
  <1>0. tx[t].pc = "user" /\ Req[t].op \in OwnRow /\ u \in Users
    BY RequestAssumption DEF LockUser, Inv, Mine, StageFits
  <1>1. IF next = "refused" THEN Refuse(t) ELSE Lock(t, U(u)) /\ Enter(t, next, f, todo)
    BY DEF LockUser
  <1>2. CASE next = "refused"
    BY <1>0, <1>1, <1>2, RefuseIsQuiet
  <1>3. CASE next # "refused"
    <2>1. row.there /\ row.family \in Families \cup {None} /\ U(u) \in Rows /\ Real(U(u))
      BY <1>0, <1>3, RowsAreRows DEF Inv, Contents, UserRow, Real
    <2>2. next = Onwards(t, row.family)
      BY <2>1
    <2>3. /\ Req[t].op = "move" => next = "fk"
          /\ Req[t].op = "create" => next = "write" /\ row.family = None
          /\ Req[t].op = "join" => next = "code" /\ row.family = None
          /\ Req[t].op = "leave" => next = "family" /\ row.family # None
          /\ Req[t].op = "assign" => next = "family"
          /\ Req[t].op \in {"delete", "setRole"} => next = IF row.family = None THEN "write" ELSE "family"
      BY <1>3, <2>2 DEF Onwards
    <2>4. next \in Stages /\ next \in {"fk", "write", "code", "family"}
      BY <1>0, <2>3 DEF OwnRow, Stages
    <2>5. f \in Families \cup {None} /\ todo \in SUBSET Families
      BY <2>1, RequestIsTyped
    <2>6. /\ Book' /\ LocksOne(t, U(u))
          /\ tx'[t].pc = next /\ tx'[t].family = f /\ tx'[t].todo = todo
      <3> HIDE DEF next, f, todo
      <3> QED  BY <1>0, <1>1, <1>3, <2>1, <2>4, <2>5, LockAndEnter
    <2>7. U(u) \in held'[t] /\ user' = user
      BY <2>6 DEF LocksOne, rows
    <2>8. StageFits(t)'
      BY <1>0, <2>3, <2>6, RequestAssumption DEF StageFits, OwnRow, ByCode, Guarded
    <2>9. UserIsHeld(t)'
      BY <1>0, <2>1, <2>3, <2>6, <2>7 DEF UserIsHeld, OwnRow, Guarded
    <2>10. FamilyIsHeld(t)' /\ EntryIsHeld(t)' /\ CodeIsHeld(t)'
      BY <1>0, <2>3, <2>6 DEF FamilyIsHeld, Needed, EntryIsHeld, Enters, CodeIsHeld, ByCode, OwnRow, Guarded
    <2>11. DropIsHeld(t)' /\ AnotherLeads(t)'
      BY <1>0, <2>3, <2>6 DEF DropIsHeld, AnotherLeads, Demotes, OwnRow, Guarded
    <2> QED  BY <1>0, <2>4, <2>1, <2>6, <2>8, <2>9, <2>10, <2>11, LocksOneIsQuiet DEF Mine
  <1> QED  BY <1>2, <1>3

LEMMA LockCodeIsQuiet ==
    ASSUME Inv, NEW t \in Requests, LockCode(t)
    PROVE  Quiet(t)
  <1> DEFINE c == Req[t].code
  <1>0. tx[t].pc = "code" /\ ByCode(t) /\ Mine(t) /\ c \in Codes
    BY DEF LockCode, Inv, Mine, StageFits, ByCode
  <1>1. CASE Refuse(t)
    BY <1>0, <1>1, RefuseIsQuiet
  <1>2. CASE code[c].there /\ ~Spent(c) /\ Lock(t, C(c)) /\ Enter(t, "fk", code[c].family, {})
    <2>1. C(c) \in Rows /\ Real(C(c)) /\ code[c].family \in Families \cup {None} /\ code[c].uses \in Nat
      BY <1>0, <1>2, RowsAreRows DEF Inv, Contents, CodeRow, Real
    <2>2. "fk" \in Stages /\ {} \in SUBSET Families
      BY DEF Stages
    <2>3. /\ Book' /\ LocksOne(t, C(c))
          /\ tx'[t].pc = "fk" /\ tx'[t].family = code[c].family /\ tx'[t].todo = {}
      <3> HIDE DEF c
      <3> QED  BY <1>0, <1>2, <2>1, <2>2, LockAndEnter
    <2>4. held'[t] = held[t] \cup {C(c)} /\ user' = user /\ code' = code
      BY <2>3 DEF LocksOne, rows
    <2>5. code'[c].uses < MaxUses
      BY <1>2, <2>1, <2>4 DEF Spent
    <2>6. StageFits(t)' /\ FamilyIsHeld(t)' /\ EntryIsHeld(t)' /\ DropIsHeld(t)' /\ AnotherLeads(t)'
      BY <1>0, <2>3 DEF StageFits, FamilyIsHeld, EntryIsHeld, ByCode, DropIsHeld, AnotherLeads, Guarded
    <2>7. UserIsHeld(t)'
      BY <1>0, <2>3, <2>4 DEF Mine, UserIsHeld, HasUser, ByCode, Unserved, Ended, Guarded
    <2>8. CodeIsHeld(t)'
      BY <2>4, <2>5 DEF CodeIsHeld
    <2> QED  BY <1>0, <2>1, <2>3, <2>6, <2>7, <2>8, LocksOneIsQuiet DEF Mine
  <1> QED  BY <1>1, <1>2 DEF LockCode

LEMMA CheckForeignKeyIsQuiet ==
    ASSUME Inv, NEW t \in Requests, CheckForeignKey(t)
    PROVE  Quiet(t)
  <1> DEFINE f == tx[t].family
  <1>0. tx[t].pc = "fk" /\ Mine(t) /\ InTheWay(t, F(f)) = {}
    BY DEF CheckForeignKey, Inv
  <1>1. CASE Refuse(t)
    BY <1>0, <1>1, RefuseIsQuiet
  <1>2. CASE /\ There(f) /\ shared' = [shared EXCEPT ![t] = @ \cup {F(f)}]
             /\ Goto(t, "write") /\ UNCHANGED <<rows, held, overruled>>
    <2>1. F(f) \in Rows /\ Real(F(f)) /\ "write" \in Stages
      BY <1>2, RowsAreRows DEF There, Real, Stages
    <2>2. /\ tx' \in [Requests -> Transaction] /\ \A s \in Requests \ {t} : tx'[s] = tx[s]
          /\ tx'[t].pc = "write" /\ tx'[t].family = f /\ tx'[t].todo = tx[t].todo
      BY <1>2, <2>1, GotoEffect DEF Inv
    <2>3. /\ shared' \in [Requests -> SUBSET Rows] /\ shared'[t] = shared[t] \cup {F(f)}
          /\ \A s \in Requests \ {t} : shared'[s] = shared[s] /\ F(f) \notin held[s]
      BY <1>0, <1>2, <2>1 DEF Inv, Book, InTheWay
    <2>4. Book' /\ Alone(t) /\ held' = held /\ user' = user /\ code' = code
      BY <1>2, <2>2, <2>3 DEF Inv, Book, Alone, rows
    <2>5. StageFits(t)' /\ UserIsHeld(t)' /\ CodeIsHeld(t)'
      BY <1>0, <2>2, <2>4 DEF Mine, StageFits, UserIsHeld, HasUser, Unserved, Ended, CodeIsHeld, ByCode
    <2>6. EntryIsHeld(t)' /\ FamilyIsHeld(t)' /\ DropIsHeld(t)' /\ AnotherLeads(t)'
      BY <1>0, <2>2, <2>3 DEF Mine, StageFits, FamilyIsHeld, EntryIsHeld, DropIsHeld, AnotherLeads,
         Demotes, Guarded
    <2>7. Granted(t)
      BY <1>2, <2>1, <2>3 DEF Granted
    <2> QED  BY <1>0, <1>2, <2>2, <2>4, <2>5, <2>6, <2>7 DEF Quiet, Mine
  <1> QED  BY <1>1, <1>2 DEF CheckForeignKey

LEMMA LockFamilyIsQuiet ==
    ASSUME Inv, NEW t \in Requests, LockFamily(t)
    PROVE  Quiet(t)
  <1> DEFINE f == First(t)
             rest == tx[t].todo \ {f}
             next == IF rest = {} THEN Follows(t, "family") ELSE "family"
  <1>0. tx[t].pc = "family" /\ Mine(t) /\ Req[t].op \in Guarded
        /\ tx[t].family \in Families \cup {None} /\ tx[t].todo \in SUBSET Families
    BY DEF LockFamily, Inv, Mine, StageFits, Book, Transaction
  <1>1. CASE Refuse(t)
    BY <1>0, <1>1, RefuseIsQuiet
  <1>2. CASE There(f) /\ Lock(t, F(f)) /\ Enter(t, next, tx[t].family, rest)
    <2>1. F(f) \in Rows /\ Real(F(f)) /\ f \in Families
      BY <1>2, RowsAreRows DEF There, Real
    <2>2. /\ next \in {"caller", "count", "family"} /\ next \in Stages
          /\ next # "family" => rest = {}
          /\ next = "caller" => Req[t].op = "role"
          /\ next = "count" => Req[t].op # "role"
      BY DEF Follows, Stages
    <2>3. rest \in SUBSET Families
      BY <1>0
    <2>4. /\ Book' /\ LocksOne(t, F(f))
          /\ tx'[t].pc = next /\ tx'[t].family = tx[t].family /\ tx'[t].todo = rest
      <3> HIDE DEF f, rest, next
      <3> QED  BY <1>0, <1>2, <2>1, <2>2, <2>3, LockAndEnter
    <2>5. held'[t] = held[t] \cup {F(f)} /\ user' = user
      BY <2>4 DEF LocksOne, rows
    <2>6. StageFits(t)' /\ EntryIsHeld(t)' /\ CodeIsHeld(t)' /\ AnotherLeads(t)'
      BY <1>0, <2>2, <2>4 DEF StageFits, EntryIsHeld, CodeIsHeld, AnotherLeads, Guarded
    <2>7. UserIsHeld(t)'
      BY <1>0, <2>2, <2>4, <2>5 DEF Mine, UserIsHeld, HasUser, Unserved, Ended, Guarded, OwnRow
    <2>8. FamilyIsHeld(t)'
      <3>1. Needed(t)' = Needed(t)
        BY <2>4 DEF Needed
      <3>2. ASSUME NEW h \in Needed(t), next = "family"
            PROVE  F(h) \in held'[t] \cup {F(i) : i \in rest}
        BY <1>0, <2>5, <3>2 DEF Mine, FamilyIsHeld
      <3>3. ASSUME NEW h \in Needed(t), next # "family"
            PROVE  F(h) \in held'[t]
        BY <1>0, <2>2, <2>5, <3>3 DEF Mine, FamilyIsHeld
      <3> QED
        <4> HIDE DEF next, rest
        <4> QED  BY <2>2, <2>4, <3>1, <3>2, <3>3 DEF FamilyIsHeld
    <2>9. DropIsHeld(t)'
      BY <1>0, <2>2, <2>4 DEF DropIsHeld, Guarded
    <2> QED  BY <1>0, <2>2, <2>1, <2>4, <2>6, <2>7, <2>8, <2>9, LocksOneIsQuiet DEF Mine
  <1> QED  BY <1>1, <1>2 DEF LockFamily

LEMMA LockTargetIsQuiet ==
    ASSUME Inv, NEW t \in Requests, LockTarget(t)
    PROVE  Quiet(t)
  <1> DEFINE u == Req[t].user
  <1>0. tx[t].pc = "target" /\ Mine(t) /\ Req[t].op = "role" /\ u \in Users
    BY RequestAssumption DEF LockTarget, Inv, Mine, StageFits
  <1>1. CASE Refuse(t)
    BY <1>0, <1>1, RefuseIsQuiet
  <1>2. CASE u \in Of(tx[t].family) /\ Lock(t, U(u)) /\ Goto(t, "count")
    <2>1. U(u) \in Rows /\ Real(U(u)) /\ user[u].there /\ user[u].family = tx[t].family
          /\ "count" \in Stages
      BY <1>0, <1>2, RowsAreRows DEF Of, Real, Stages
    <2>2. /\ Book' /\ LocksOne(t, U(u))
          /\ tx'[t].pc = "count" /\ tx'[t].family = tx[t].family /\ tx'[t].todo = tx[t].todo
      BY <1>0, <1>2, <2>1, LockEffect, GotoEffect DEF Inv, Book, Alone, LocksOne
    <2>3. held'[t] = held[t] \cup {U(u)} /\ user' = user
      BY <2>2 DEF LocksOne, rows
    <2>4. StageFits(t)' /\ UserIsHeld(t)' /\ EntryIsHeld(t)' /\ CodeIsHeld(t)'
      BY <1>0, <2>1, <2>2, <2>3 DEF StageFits, UserIsHeld, EntryIsHeld, CodeIsHeld, Guarded
    <2>5. FamilyIsHeld(t)' /\ DropIsHeld(t)' /\ AnotherLeads(t)'
      BY <1>0, <2>2, <2>3 DEF Mine, FamilyIsHeld, Needed, DropIsHeld, AnotherLeads
    <2> QED  BY <1>0, <2>1, <2>2, <2>4, <2>5, LocksOneIsQuiet DEF Mine
  <1> QED  BY <1>1, <1>2 DEF LockTarget

(* How many there are says whether there is another.                       *)
LEMMA OneIsAlone ==
    ASSUME NEW S, IsFiniteSet(S), NEW x \in S
    PROVE  /\ Cardinality(S) > 1 => \E y \in S : y # x
           /\ Cardinality(S) <= 1 => S \subseteq {x}
  <1>1. Cardinality({x}) = 1 /\ IsFiniteSet({x})
    BY FS_Singleton
  <1>2. ASSUME S \subseteq {x} PROVE Cardinality(S) <= 1
    BY <1>1, <1>2, FS_Subset
  <1>3. ASSUME NEW y \in S, y # x PROVE Cardinality(S) > 1
    <2>1. Cardinality({x} \cup {y}) = 2 /\ IsFiniteSet({x} \cup {y})
      <3>1. y \notin {x}
        BY <1>3
      <3>2. /\ IsFiniteSet({x} \cup {y})
            /\ Cardinality({x} \cup {y}) = Cardinality({x}) + 1
        BY <1>1, <3>1, FS_AddElement
      <3>3. Cardinality({x} \cup {y}) = 1 + 1
        BY <1>1, <3>2, Zenon
      <3>4. 1 + 1 = 2
        OBVIOUS
      <3> QED  BY <3>2, <3>3, <3>4, Zenon
    <2>2. {x} \cup {y} \subseteq S
      BY <1>3
    <2> QED  BY <2>1, <2>2, FS_Subset, FS_CardinalityType
  <1> QED  BY <1>2, <1>3, FS_CardinalityType

LEMMA CountIsQuiet ==
    ASSUME Inv, NEW t \in Requests, Count(t)
    PROVE  Quiet(t)
  <1> DEFINE f == tx[t].family
             u == Req[t].user
  <1>0. tx[t].pc = "count" /\ Mine(t) /\ Req[t].op \in Guarded
        /\ f \in Families \cup {None} /\ tx[t].todo \in SUBSET Families
    BY DEF Count, Inv, Mine, StageFits, Book, Transaction
  <1>1. u \in Users /\ U(u) \in held[t] /\ user[u].there /\ user[u].family = f
    BY <1>0, RequestAssumption DEF Mine, UserIsHeld, HasUser, Guarded, OwnRow, Unserved, Ended
  <1>2. /\ IsFiniteSet(Of(f)) /\ IsFiniteSet(Admins(f))
        /\ u \in Of(f) /\ (user[u].role = "admin" => u \in Admins(f))
    <2>1. Of(f) \subseteq Users /\ Admins(f) \subseteq Users
      BY DEF Of, Admins
    <2> QED  BY <1>1, <2>1, FS_Subset DEF Of, Admins
  <1>3. CASE f # None /\ Blocked(t, f)
    <2>1. Refuse(t)
      BY <1>3 DEF Count
    <2> QED  BY <1>0, <2>1, RefuseIsQuiet
  <1>4. CASE f # None /\ ~Blocked(t, f) /\ Dissolves(t, f)
    <2>1. Enter(t, "cascade", f, {f}) /\ Elsewhere
      BY <1>4 DEF Count
    <2>2. "cascade" \in Stages /\ {f} \in SUBSET Families
      BY <1>0, <1>4 DEF Stages
    <2>3. /\ MovesOn(t) /\ tx'[t].pc = "cascade"
          /\ tx'[t].family = f /\ tx'[t].todo = {f}
      <3> HIDE DEF f
      <3> QED  BY <1>0, <2>1, <2>2, EnterMovesOn
    <2>4. held' = held /\ user' = user
      BY <2>3 DEF MovesOn, rows
    <2>5. Req[t].op = "delete" /\ Of(f) \subseteq {u}
      BY <1>2, <1>4, OneIsAlone DEF Dissolves
    <2>6. StageFits(t)' /\ UserIsHeld(t)' /\ EntryIsHeld(t)' /\ CodeIsHeld(t)' /\ AnotherLeads(t)'
      BY <1>0, <1>1, <2>3, <2>4, <2>5 DEF StageFits, UserIsHeld, EntryIsHeld, CodeIsHeld, AnotherLeads, Guarded
    <2>7. FamilyIsHeld(t)'
      BY <1>0, <2>3, <2>4 DEF Mine, FamilyIsHeld, Needed
    <2>8. DropIsHeld(t)'
      BY <1>4, <2>3, <2>4, <2>5 DEF DropIsHeld, Of
    <2> QED  BY <1>0, <2>3, <2>6, <2>7, <2>8, MovesOnIsQuiet DEF Mine
  <1>5. CASE f = None \/ (~Blocked(t, f) /\ ~Dissolves(t, f))
    <2>1. Goto(t, "write") /\ Elsewhere
      BY <1>5 DEF Count
    <2>2. /\ MovesOn(t) /\ tx'[t].pc = "write"
          /\ tx'[t].family = f /\ tx'[t].todo = tx[t].todo
      BY <2>1, GotoMovesOn DEF Stages
    <2>3. held' = held /\ user' = user
      BY <2>2 DEF MovesOn, rows
    <2>4. StageFits(t)' /\ UserIsHeld(t)' /\ EntryIsHeld(t)' /\ CodeIsHeld(t)'
      BY <1>0, <1>1, <2>2, <2>3 DEF StageFits, UserIsHeld, EntryIsHeld, Enters, CodeIsHeld, ByCode, Guarded
    <2>5. FamilyIsHeld(t)' /\ DropIsHeld(t)'
      BY <1>0, <2>2, <2>3 DEF Mine, FamilyIsHeld, Needed, DropIsHeld, Guarded
    <2>6. ASSUME Demotes(t) PROVE \E v \in Admins(f) : v # u
      <3>1. ~Blocked(t, f) /\ ~Dissolves(t, f) /\ u \in Admins(f)
        BY <1>2, <1>5, <2>6 DEF Demotes
      <3>2. Cardinality(Admins(f)) \in Nat /\ Cardinality(Of(f)) \in Nat
        BY <1>2, FS_CardinalityType
      <3>3. Cardinality(Admins(f)) > 1
        BY <2>6, <3>1, <3>2 DEF Demotes, Blocked, Dissolves
      <3> QED  BY <1>2, <3>1, <3>3, OneIsAlone
    <2>7. AnotherLeads(t)'
      BY <2>2, <2>3, <2>6 DEF AnotherLeads, Demotes, Admins, Of
    <2> QED  BY <1>0, <2>2, <2>4, <2>5, <2>7, MovesOnIsQuiet DEF Mine
  <1> QED  BY <1>3, <1>4, <1>5

LEMMA DropFamilyIsQuiet ==
    ASSUME Inv, NEW t \in Requests, DropFamily(t)
    PROVE  Quiet(t)
  <1> DEFINE f == Req[t].family
  <1>0. tx[t].pc = "drop" /\ Mine(t) /\ Req[t].op = "deleteFamily"
    BY DEF DropFamily, Inv, Mine, StageFits
  <1>1. CASE Refuse(t)
    BY <1>0, <1>1, RefuseIsQuiet
  <1>2. CASE There(f) /\ Lock(t, F(f)) /\ Enter(t, "cascade", f, {f})
    <2>1. F(f) \in Rows /\ Real(F(f)) /\ f \in Families
      BY <1>2, RowsAreRows DEF There, Real
    <2>2. "cascade" \in Stages /\ {f} \in SUBSET Families
      BY <2>1 DEF Stages
    <2>3. /\ Book' /\ LocksOne(t, F(f))
          /\ tx'[t].pc = "cascade" /\ tx'[t].family = f /\ tx'[t].todo = {f}
      <3> HIDE DEF f
      <3> QED  BY <1>0, <1>2, <2>1, <2>2, LockAndEnter
    <2>4. F(f) \in held'[t]
      BY <2>3 DEF LocksOne
    <2>5. Mine(t)'
      BY <1>0, <2>3, <2>4 DEF Mine, StageFits, UserIsHeld, HasUser, FamilyIsHeld, EntryIsHeld,
         CodeIsHeld, DropIsHeld, AnotherLeads, OwnRow, Guarded
    <2> QED  BY <1>0, <2>1, <2>3, <2>5, LocksOneIsQuiet
  <1> QED  BY <1>1, <1>2 DEF DropFamily

LEMMA CascadeIsQuiet ==
    ASSUME Inv, NEW t \in Requests, Cascade(t)
    PROVE  Quiet(t)
  <1> DEFINE f == tx[t].family
             left == Referring(f) \ held[t]
  <1>0. tx[t].pc = "cascade" /\ Mine(t) /\ Req[t].op \in {"delete", "deleteFamily"}
    BY DEF Cascade, Inv, Mine, StageFits
  <1>1. CASE \E r \in left : Lock(t, r) /\ UNCHANGED tx
    <2>1. PICK r \in left : Lock(t, r)
      BY <1>1
    <2>2. r \in Rows /\ Real(r)
      BY <2>1, RowsAreRows DEF Referring, Real, Of
    <2>3. Book' /\ LocksOne(t, r) /\ tx' = tx
      BY <1>0, <1>1, <2>1, <2>2, LockEffect DEF Inv, Book, Alone, LocksOne
    <2>4. held'[t] = held[t] \cup {r} /\ shared' = shared /\ UNCHANGED <<user, code, family, overruled>>
      BY <2>3 DEF LocksOne, rows
    <2>5. StageFits(t)' /\ UserIsHeld(t)' /\ FamilyIsHeld(t)' /\ EntryIsHeld(t)'
      BY <1>0, <2>3, <2>4 DEF Mine, StageFits, ByCode, UserIsHeld, HasUser, FamilyIsHeld, Needed, EntryIsHeld
    <2>6. CodeIsHeld(t)' /\ DropIsHeld(t)' /\ AnotherLeads(t)'
      BY <1>0, <2>3, <2>4 DEF Mine, CodeIsHeld, DropIsHeld, AnotherLeads, Of
    <2> QED  BY <1>0, <2>2, <2>3, <2>5, <2>6, LocksOneIsQuiet DEF Mine
  <1>2. CASE left = {} /\ Goto(t, "write") /\ Elsewhere
    <2>1. /\ MovesOn(t) /\ tx'[t].pc = "write"
          /\ tx'[t].family = f /\ tx'[t].todo = tx[t].todo
      BY <1>2, GotoMovesOn DEF Stages
    <2>2. held' = held /\ user' = user
      BY <2>1 DEF MovesOn, rows
    <2>3. \A u \in Of(f) : U(u) \in held[t]
      BY <1>2 DEF Referring
    <2>4. StageFits(t)' /\ UserIsHeld(t)' /\ FamilyIsHeld(t)' /\ EntryIsHeld(t)' /\ CodeIsHeld(t)'
      BY <1>0, <2>1, <2>2 DEF Mine, StageFits, UserIsHeld, HasUser, FamilyIsHeld, Needed, EntryIsHeld,
         Enters, CodeIsHeld, ByCode, Unserved, Ended
    <2>5. DropIsHeld(t)'
      BY <1>0, <2>1, <2>2, <2>3 DEF Mine, DropIsHeld, Of
    <2>6. AnotherLeads(t)'
      BY <1>0, <2>1, <2>2 DEF Mine, DropIsHeld, AnotherLeads, Demotes, Guarded
    <2> QED  BY <1>0, <2>1, <2>4, <2>5, <2>6, MovesOnIsQuiet DEF Mine
  <1> QED  BY <1>1, <1>2 DEF Cascade

LEMMA AbortIsQuiet ==
    ASSUME Inv, NEW t \in Requests, AbortDeadlock(t)
    PROVE  Quiet(t)
  <1>1. tx[t].pc # "done"
    BY DEF AbortDeadlock, Open, Unserved, Ended
  <1> QED  BY <1>1, EndIsQuiet DEF AbortDeadlock

-----------------------------------------------------------------------------
(* A commit writes rows it has locked or inserts, lets users into families *)
(* it has locked, founds, or holds by a foreign key, and takes admins from *)
(* families it has locked or, with AdminMoveMember, overrules.             *)

Touches(s) == held[s] \cup Inserts(s)

UserWrites(s) ==
    /\ \A u \in Users : U(u) \notin Touches(s) =>
          IF user[u].there THEN user'[u] = user[u] ELSE ~user'[u].there
    /\ \A f \in Families, v \in Users :
          /\ v \in Of(f)' \ Of(f) => F(f) \in Touches(s) \cup shared[s]
          /\ v \in Admins(f) \ Admins(f)' => F(f) \in held[s] \/ f \in overruled'

TableWrites(s) ==
    /\ \A f \in Families : F(f) \notin Touches(s) /\ family'[f] = "there" => family[f] = "there"
    /\ \A c \in Codes : C(c) \notin Touches(s) =>
          code'[c].uses = code[c].uses /\ (code'[c].there => code[c].there)
    /\ overruled \subseteq overruled'

LEMMA OneUserWritten ==
    ASSUME Contents, NEW s \in Requests, NEW u \in Users, NEW row \in UserRow,
           user' = [user EXCEPT ![u] = row], U(u) \in Touches(s),
           row.there /\ row.family \in Families =>
              \/ user[u].there /\ user[u].family = row.family
              \/ F(row.family) \in Touches(s) \cup shared[s],
           user[u].there /\ user[u].role = "admin" /\ user[u].family \in Families =>
              F(user[u].family) \in held[s] \/ user[u].family \in overruled'
    PROVE  UserWrites(s) /\ user' \in [Users -> UserRow]
  <1>1. user' \in [Users -> UserRow] /\ user'[u] = row /\ \A v \in Users \ {u} : user'[v] = user[v]
    BY DEF Contents
  <1>2. \A v \in Users : U(v) \notin Touches(s) =>
            IF user[v].there THEN user'[v] = user[v] ELSE ~user'[v].there
    BY <1>1
  <1>3. ASSUME NEW f \in Families, NEW v \in Users, v \in Of(f)' \ Of(f)
        PROVE  F(f) \in Touches(s) \cup shared[s]
    BY <1>1, <1>3 DEF Of
  <1>4. ASSUME NEW f \in Families, NEW v \in Users, v \in Admins(f) \ Admins(f)'
        PROVE  F(f) \in held[s] \/ f \in overruled'
    BY <1>1, <1>4 DEF Admins, Of
  <1> QED  BY <1>1, <1>2, <1>3, <1>4 DEF UserWrites

LEMMA NoUserWritten ==
    ASSUME Contents, UNCHANGED user, NEW s \in Requests
    PROVE  UserWrites(s) /\ user' \in [Users -> UserRow]
  BY DEF Contents, UserWrites, Of, Admins

(* What a request that is about to commit may rely on.                     *)
LEMMA BeforeCommit ==
    ASSUME Inv, NEW s \in Requests, tx[s].pc = "write"
    PROVE  /\ Mine(s) /\ InsertIsNew(s) /\ Contents
           /\ tx[s].family \in Families \cup {None} /\ tx[s].todo \in SUBSET Families
           /\ Req[s].op \in OwnRow \cup {"role", "register", "createUser"} => Req[s].user \in Users
           /\ Req[s].op \in OwnRow \cup {"role"} =>
                 /\ U(Req[s].user) \in held[s] /\ U(Req[s].user) \in Touches(s)
                 /\ user[Req[s].user].there
           /\ Req[s].op \in {"create", "join"} => user[Req[s].user].family = None
           /\ Req[s].op \in Guarded =>
                 /\ user[Req[s].user].family = tx[s].family
                 /\ tx[s].family # None => F(tx[s].family) \in held[s]
                 /\ Req[s].op = "assign" /\ Req[s].family # None => F(Req[s].family) \in held[s]
           /\ Req[s].op \in {"register", "createUser"} =>
                 U(Req[s].user) \in Touches(s) /\ ~user[Req[s].user].there
           /\ Req[s].op \in {"move", "createUser"} => tx[s].family = Req[s].family
           /\ Enters(s) => F(tx[s].family) \in shared[s]
  <1>1. Mine(s) /\ InsertIsNew(s) /\ Contents /\ tx[s] \in Transaction
    BY DEF Inv, Locked, Book
  <1>2. Req[s].op \in OwnRow \cup {"role", "register", "createUser"} => Req[s].user \in Users
    BY RequestAssumption
  <1>3. Req[s].op \in OwnRow \cup {"role"} => HasUser(s)
    BY DEF HasUser, Unserved, Ended
  <1>4. Guarded \subseteq OwnRow \cup {"role"} /\ {"create", "join"} \subseteq OwnRow
    BY DEF Guarded, OwnRow
  <1>5. ASSUME Req[s].op \in {"register", "createUser"} PROVE U(Req[s].user) \in Inserts(s)
    BY <1>5 DEF Inserts
  <1>6. ASSUME Req[s].op \in Guarded
        PROVE  /\ tx[s].family # None => F(tx[s].family) \in held[s]
               /\ Req[s].op = "assign" /\ Req[s].family # None => F(Req[s].family) \in held[s]
    BY <1>1, <1>6 DEF Mine, FamilyIsHeld, Needed
  <1>7. /\ tx[s].family \in Families \cup {None} /\ tx[s].todo \in SUBSET Families
        /\ Req[s].op \in {"move", "createUser"} => tx[s].family = Req[s].family
        /\ Enters(s) => F(tx[s].family) \in shared[s]
    BY <1>1 DEF Transaction, Mine, EntryIsHeld
  <1> QED  BY <1>1, <1>2, <1>3, <1>4, <1>5, <1>6, <1>7 DEF Mine, UserIsHeld, InsertIsNew, Touches

LEMMA CommitEnds ==
    ASSUME NEW s \in Requests, Commit(s)
    PROVE  tx[s].pc = "write" /\ Ends(s, "done")
  BY DEF Commit, Commits, CreateFamily, LeaveFamily, UpdateMemberRole, AdminSetUserRole,
     JoinFamily, Register, AdminCreateUser, DeleteMe, AdminMoveUser, AdminMoveMember, CreateInvite,
     AdminCreateFamily, AdminDeleteFamily

LEMMA CommitWritesUsers ==
    ASSUME Inv, NEW s \in Requests, Commit(s)
    PROVE  UserWrites(s) /\ user' \in [Users -> UserRow]
  <1> DEFINE u == Req[s].user
             Row(there, f, r) == [there |-> there, family |-> f, role |-> r]
  <1>0. tx[s].pc = "write" /\ Contents /\ Mine(s)
        /\ tx[s].family \in Families \cup {None} /\ tx[s].todo \in SUBSET Families
    BY CommitEnds, BeforeCommit
  <1>1. CASE CreateFamily(s)
    <2>1. Req[s].op = "create" /\ user' = [user EXCEPT ![u] = Row(TRUE, Req[s].family, "admin")]
      BY <1>1 DEF CreateFamily, Commits, Becomes
    <2>2. u \in Users /\ U(u) \in Touches(s) /\ user[u].there /\ user[u].family = None
      BY <1>0, <2>1, BeforeCommit DEF OwnRow
    <2>3. F(Req[s].family) \in Touches(s) /\ Row(TRUE, Req[s].family, "admin") \in UserRow
      BY <2>1, RequestIsTyped DEF Touches, Inserts, UserRow, Roles
    <2> QED  BY <1>0, <2>1, <2>2, <2>3, OneUserWritten
  <1>2. CASE LeaveFamily(s)
    <2>1. Req[s].op = "leave" /\ user' = [user EXCEPT ![u] = Row(TRUE, None, "member")]
      BY <1>2 DEF LeaveFamily, Commits, Becomes
    <2>2. u \in Users /\ U(u) \in Touches(s) /\ user[u].there /\ user[u].family = tx[s].family
          /\ (tx[s].family # None => F(tx[s].family) \in held[s])
      BY <1>0, <2>1, BeforeCommit DEF OwnRow, Guarded
    <2>3. Row(TRUE, None, "member") \in UserRow
      BY DEF UserRow, Roles
    <2> QED  BY <1>0, <2>1, <2>2, <2>3, OneUserWritten
  <1>3. CASE UpdateMemberRole(s) \/ AdminSetUserRole(s)
    <2>1. Req[s].op \in {"role", "setRole"} /\ user' = [user EXCEPT ![u].role = Req[s].role]
      BY <1>3 DEF UpdateMemberRole, AdminSetUserRole, Commits
    <2>2. u \in Users /\ U(u) \in Touches(s) /\ user[u].there /\ user[u].family = tx[s].family
          /\ (tx[s].family # None => F(tx[s].family) \in held[s])
      BY <1>0, <2>1, BeforeCommit DEF OwnRow, Guarded
    <2>3. user[u] \in UserRow /\ Req[s].role \in Roles
      BY <1>0, <2>2, RequestIsTyped DEF Contents
    <2> DEFINE row == [user[u] EXCEPT !.role = Req[s].role]
    <2>4. row \in UserRow /\ row.family = user[u].family /\ user' = [user EXCEPT ![u] = row]
      BY <2>1, <2>3 DEF UserRow
    <2> HIDE DEF row
    <2> QED  BY <1>0, <2>2, <2>4, OneUserWritten
  <1>4. CASE JoinFamily(s)
    <2>1. Req[s].op = "join" /\ user' = [user EXCEPT ![u] = Row(TRUE, tx[s].family, code[Req[s].code].role)]
      BY <1>4 DEF JoinFamily, Commits, Becomes
    <2>2. u \in Users /\ U(u) \in Touches(s) /\ user[u].there /\ user[u].family = None
          /\ F(tx[s].family) \in shared[s]
      BY <1>0, <2>1, BeforeCommit DEF OwnRow, Enters
    <2>3. Row(TRUE, tx[s].family, code[Req[s].code].role) \in UserRow
      <3>1. code[Req[s].code] \in CodeRow
        BY <1>0, <2>1, RequestAssumption DEF Contents
      <3> QED  BY <1>0, <3>1 DEF UserRow, CodeRow
    <2> QED  BY <1>0, <2>1, <2>2, <2>3, OneUserWritten
  <1>5. CASE Register(s)
    <2>1. Req[s].op = "register"
      BY <1>5 DEF Register, Commits
    <2>2. u \in Users /\ U(u) \in Touches(s) /\ ~user[u].there
      BY <1>0, <2>1, BeforeCommit
    <2>3. CASE Req[s].code = None
      <3>1. user' = [user EXCEPT ![u] = Row(TRUE, None, "member")]
        BY <1>5, <2>3 DEF Register, Becomes
      <3>2. Row(TRUE, None, "member") \in UserRow
        BY DEF UserRow, Roles
      <3> QED  BY <1>0, <2>2, <3>1, <3>2, OneUserWritten
    <2>4. CASE Req[s].code # None
      <3>1. user' = [user EXCEPT ![u] = Row(TRUE, tx[s].family, code[Req[s].code].role)]
        BY <1>5, <2>4 DEF Register, Becomes
      <3>2. Req[s].code \in Codes
        BY <2>4, RequestIsTyped
      <3>3. F(tx[s].family) \in shared[s]
        BY <1>0, <2>1, <3>2, BeforeCommit DEF Enters, ByCode
      <3>4. code[Req[s].code] \in CodeRow
        BY <1>0, <3>2 DEF Contents
      <3>5. Row(TRUE, tx[s].family, code[Req[s].code].role) \in UserRow
        BY <1>0, <3>4 DEF UserRow, CodeRow
      <3> QED  BY <1>0, <2>2, <3>1, <3>3, <3>5, OneUserWritten
    <2> QED  BY <2>3, <2>4
  <1>6. CASE AdminCreateUser(s)
    <2>1. Req[s].op = "createUser" /\ user' = [user EXCEPT ![u] = Row(TRUE, Req[s].family, Req[s].role)]
      BY <1>6 DEF AdminCreateUser, Commits, Becomes
    <2>2. u \in Users /\ U(u) \in Touches(s) /\ ~user[u].there
          /\ (Req[s].family # None => F(Req[s].family) \in shared[s])
      BY <1>0, <2>1, BeforeCommit DEF Enters
    <2>3. Row(TRUE, Req[s].family, Req[s].role) \in UserRow
      BY RequestIsTyped DEF UserRow
    <2> QED  BY <1>0, <2>1, <2>2, <2>3, OneUserWritten
  <1>7. CASE DeleteMe(s)
    <2>1. Req[s].op = "delete" /\ user' = [user EXCEPT ![u] = Row(FALSE, None, "member")]
      BY <1>7 DEF DeleteMe, Commits
    <2>2. u \in Users /\ U(u) \in Touches(s) /\ user[u].there /\ user[u].family = tx[s].family
          /\ (tx[s].family # None => F(tx[s].family) \in held[s])
      BY <1>0, <2>1, BeforeCommit DEF OwnRow, Guarded
    <2>3. Row(FALSE, None, "member") \in UserRow
      BY DEF UserRow, Roles
    <2> QED  BY <1>0, <2>1, <2>2, <2>3, OneUserWritten
  <1>8. CASE AdminMoveUser(s)
    <2>1. Req[s].op = "assign" /\ user' = [user EXCEPT ![u].family = Req[s].family]
      BY <1>8 DEF AdminMoveUser, Commits
    <2>2. u \in Users /\ U(u) \in Touches(s) /\ user[u].there /\ user[u].family = tx[s].family
          /\ (tx[s].family # None => F(tx[s].family) \in held[s])
          /\ (Req[s].family # None => F(Req[s].family) \in Touches(s))
      BY <1>0, <2>1, BeforeCommit DEF OwnRow, Guarded, Touches
    <2>3. user[u] \in UserRow /\ Req[s].family \in Families \cup {None}
      BY <1>0, <2>2, RequestIsTyped DEF Contents
    <2> DEFINE row == [user[u] EXCEPT !.family = Req[s].family]
    <2>4. row \in UserRow /\ row.family = Req[s].family /\ user' = [user EXCEPT ![u] = row]
      BY <2>1, <2>3 DEF UserRow
    <2> HIDE DEF row
    <2> QED  BY <1>0, <2>2, <2>4, OneUserWritten
  <1>9. CASE AdminMoveMember(s)
    <2>1. Req[s].op = "move" /\ user' = [user EXCEPT ![u] = Row(TRUE, Req[s].family, Req[s].role)]
          /\ overruled' = overruled \cup ({user[u].family} \ {None})
      BY <1>9 DEF AdminMoveMember, Commits, Becomes
    <2>2. u \in Users /\ U(u) \in Touches(s) /\ user[u].there /\ F(Req[s].family) \in shared[s]
      BY <1>0, <2>1, BeforeCommit DEF OwnRow, Enters
    <2>3. Row(TRUE, Req[s].family, Req[s].role) \in UserRow
      BY RequestIsTyped DEF UserRow
    <2> QED  BY <1>0, <2>1, <2>2, <2>3, OneUserWritten
  <1>10. CASE CreateInvite(s) \/ AdminCreateFamily(s)
    BY <1>0, <1>10, NoUserWritten DEF CreateInvite, AdminCreateFamily
  <1>11. CASE AdminDeleteFamily(s)
    <2> DEFINE f == tx[s].family
    <2>1. Req[s].op = "deleteFamily" /\ user' = Without(tx[s].todo)
      BY <1>11 DEF AdminDeleteFamily, Commits
    <2>2. tx[s].todo = {f} /\ F(f) \in held[s] /\ \A v \in Of(f) : U(v) \in held[s]
      BY <1>0, <2>1 DEF Mine, DropIsHeld
    <2>3. user' = [v \in Users |-> [user[v] EXCEPT !.family = IF user[v].family = f THEN None ELSE user[v].family]]
      BY <2>1, <2>2 DEF Without
    <2>4. ASSUME NEW v \in Users
          PROVE  /\ user'[v] \in UserRow /\ user'[v].there = user[v].there
                 /\ user'[v].role = user[v].role
                 /\ user[v].family = f => user'[v].family = None
                 /\ user[v].family # f => user'[v] = user[v]
      <3>1. user[v] \in UserRow
        BY <1>0 DEF Contents
      <3> QED  BY <2>3, <3>1 DEF UserRow
    <2>5. user' \in [Users -> UserRow]
      BY <2>3, <2>4
    <2>6. UserWrites(s)
      <3>1. \A v \in Users : U(v) \notin Touches(s) =>
                IF user[v].there THEN user'[v] = user[v] ELSE ~user'[v].there
        BY <2>2, <2>4 DEF Of, Touches
      <3>2. ASSUME NEW h \in Families, NEW v \in Users, v \in Of(h)' \ Of(h)
            PROVE  FALSE
        BY <2>4, <3>2 DEF Of
      <3>3. ASSUME NEW h \in Families, NEW v \in Users, v \in Admins(h) \ Admins(h)'
            PROVE  F(h) \in held[s]
        BY <2>2, <2>4, <3>3 DEF Admins, Of
      <3> QED  BY <3>1, <3>2, <3>3 DEF UserWrites
    <2> QED  BY <2>5, <2>6
  <1> QED  BY <1>1, <1>2, <1>3, <1>4, <1>5, <1>6, <1>7, <1>8, <1>9, <1>10, <1>11 DEF Commit

LEMMA CommitWritesTables ==
    ASSUME Inv, NEW s \in Requests, Commit(s)
    PROVE  /\ TableWrites(s)
           /\ code' \in [Codes -> CodeRow] /\ family' \in [Families -> {"unused", "there", "gone"}]
           /\ overruled' \subseteq Families
  <1>0. tx[s].pc = "write" /\ Contents /\ Mine(s)
        /\ tx[s].family \in Families \cup {None} /\ tx[s].todo \in SUBSET Families
    BY CommitEnds, BeforeCommit
  <1> USE DEF TableWrites, Touches
  <1>1. CASE CreateFamily(s) \/ AdminCreateFamily(s)
    <2>1. /\ Req[s].op \in {"create", "newFamily"} /\ UNCHANGED <<code, overruled>>
          /\ family' = [family EXCEPT ![Req[s].family] = "there"]
      BY <1>1 DEF CreateFamily, AdminCreateFamily, Commits
    <2>2. F(Req[s].family) \in Inserts(s)
      BY <2>1 DEF Inserts
    <2> QED  BY <1>0, <2>1, <2>2 DEF Contents
  <1>2. CASE LeaveFamily(s) \/ UpdateMemberRole(s) \/ AdminSetUserRole(s) \/ AdminCreateUser(s) \/ AdminMoveUser(s)
    BY <1>0, <1>2 DEF LeaveFamily, UpdateMemberRole, AdminSetUserRole, AdminCreateUser, AdminMoveUser, Contents
  <1>3. CASE OneUseMore(Req[s].code) /\ ByCode(s) /\ UNCHANGED <<family, overruled>>
    <2>1. C(Req[s].code) \in held[s] /\ Req[s].code \in Codes
      BY <1>0, <1>3 DEF Mine, CodeIsHeld, ByCode
    <2>2. code' = [code EXCEPT ![Req[s].code].uses = @ + 1]
      BY <1>3 DEF OneUseMore
    <2>3. code' \in [Codes -> CodeRow]
      <3> DEFINE old == code[Req[s].code]
                 row == [old EXCEPT !.uses = old.uses + 1]
      <3>1. old \in CodeRow
        BY <1>0, <2>1 DEF Contents
      <3>2. row \in CodeRow
        <4> HIDE DEF old
        <4> QED  BY <3>1 DEF CodeRow
      <3>3. code' = [code EXCEPT ![Req[s].code] = row]
        BY <2>2
      <3> HIDE DEF row
      <3> QED  BY <1>0, <3>2, <3>3 DEF Contents
    <2>4. \A c \in Codes : c # Req[s].code => code'[c] = code[c]
      BY <1>0, <2>2 DEF Contents
    <2> QED  BY <1>0, <1>3, <2>1, <2>3, <2>4 DEF Contents
  <1>4. CASE JoinFamily(s)
    BY <1>3, <1>4, RequestAssumption DEF JoinFamily, Commits, ByCode
  <1>5. CASE Register(s)
    <2>1. CASE Req[s].code = None
      BY <1>0, <1>5, <2>1 DEF Register, Contents
    <2>2. CASE Req[s].code # None
      BY <1>3, <1>5, <2>2, RequestIsTyped DEF Register, Commits, ByCode
    <2> QED  BY <2>1, <2>2
  <1>6. CASE AdminMoveMember(s)
    <2>1. Req[s].user \in Users /\ user[Req[s].user].family \in Families \cup {None}
      <3>1. Req[s].user \in Users
        BY <1>6, RequestAssumption DEF AdminMoveMember, Commits, OwnRow
      <3>2. user[Req[s].user] \in UserRow
        BY <1>0, <3>1 DEF Contents
      <3> QED  BY <3>1, <3>2 DEF UserRow
    <2> QED  BY <1>0, <1>6, <2>1 DEF AdminMoveMember, Contents
  <1>7. CASE DeleteMe(s) \/ AdminDeleteFamily(s)
    <2>1. Dropped(tx[s].todo) /\ UNCHANGED overruled
      BY <1>7 DEF DeleteMe, AdminDeleteFamily
    <2>2. /\ family' = [f \in Families |-> IF f \in tx[s].todo THEN "gone" ELSE family[f]]
          /\ code' = [c \in Codes |-> [code[c] EXCEPT !.there = @ /\ code[c].family \notin tx[s].todo]]
      BY <2>1 DEF Dropped
    <2>3. ASSUME NEW c \in Codes
          PROVE  code'[c] \in CodeRow /\ code'[c].uses = code[c].uses /\ (code'[c].there => code[c].there)
      <3>1. code[c] \in CodeRow
        BY <1>0 DEF Contents
      <3> QED  BY <2>2, <3>1 DEF CodeRow
    <2>4. code' \in [Codes -> CodeRow]
      BY <2>2, <2>3
    <2>5. family' \in [Families -> {"unused", "there", "gone"}]
          /\ \A f \in Families : family'[f] = "there" => family[f] = "there"
      BY <1>0, <2>2 DEF Contents
    <2> QED  BY <1>0, <2>1, <2>3, <2>4, <2>5 DEF Contents
  <1>8. CASE CreateInvite(s)
    <2> DEFINE row == [there |-> TRUE, family |-> tx[s].family, role |-> Req[s].role, uses |-> 0]
    <2>1. /\ Req[s].op \in {"invite", "adminInvite"} /\ UNCHANGED <<family, overruled>>
          /\ code' = [code EXCEPT ![Req[s].code] = row]
      BY <1>8 DEF CreateInvite
    <2>2. C(Req[s].code) \in Inserts(s) /\ row \in CodeRow
      BY <1>0, <2>1, RequestIsTyped DEF Inserts, CodeRow
    <2> QED  BY <1>0, <2>1, <2>2 DEF Contents
  <1> QED  BY <1>1, <1>2, <1>4, <1>5, <1>6, <1>7, <1>8 DEF Commit

-----------------------------------------------------------------------------
(* A commit leaves alone what other requests have locked or will insert.   *)

LEMMA CommitSpares ==
    ASSUME Inv, NEW s \in Requests, Commit(s), NEW t \in Requests, s # t
    PROVE  /\ tx'[t] = tx[t] /\ held'[t] = held[t] /\ shared'[t] = shared[t]
           /\ Touches(s) \cap (held[t] \cup shared[t]) = {}
           /\ tx[t].pc # "done" => Touches(s) \cap Inserts(t) = {}
           /\ held[t] \cap (Touches(s) \cup shared[s]) = {}
  <1>0. Inserts(s) \cap (held[t] \cup shared[t]) = {}
    BY CommitEnds DEF Inv, Locked, Old
  <1>1. tx'[t] = tx[t] /\ held'[t] = held[t] /\ shared'[t] = shared[t]
    BY CommitEnds, EndsEffect DEF Inv, Ended, Alone
  <1>2. held[s] \cap (held[t] \cup shared[t]) = {} /\ held[t] \cap (held[s] \cup shared[s]) = {}
    BY DEF Inv, Locked, Exclusive
  <1>3. ASSUME tx[t].pc # "done" PROVE held[s] \cap Inserts(t) = {}
    BY <1>3 DEF Inv, Locked, Old
  <1>4. Inserts(s) \cap Inserts(t) = {}
    BY FreshAssumption
  <1>5. ASSUME tx[t].pc # "done" PROVE Touches(s) \cap Inserts(t) = {}
    BY <1>3, <1>4, <1>5 DEF Touches
  <1>6. Touches(s) \cap (held[t] \cup shared[t]) = {} /\ held[t] \cap (Touches(s) \cup shared[s]) = {}
    BY <1>0, <1>2 DEF Touches
  <1> QED  BY <1>1, <1>5, <1>6

LEMMA CommitKeepsOthers ==
    ASSUME Inv, NEW s \in Requests, Commit(s), NEW t \in Requests, s # t
    PROVE  Mine(t)'
  <1>0. /\ tx'[t] = tx[t] /\ held'[t] = held[t] /\ shared'[t] = shared[t]
        /\ \A r \in held[t] : r \notin Touches(s) \cup shared[s]
        /\ \A r \in shared[t] : r \notin Touches(s)
    BY CommitSpares
  <1>1. Mine(t) /\ UserWrites(s) /\ TableWrites(s)
        /\ tx[t].family \in Families \cup {None}
    BY CommitWritesUsers, CommitWritesTables DEF Inv, Book, Transaction
  <1>2. StageFits(t)' /\ FamilyIsHeld(t)' /\ EntryIsHeld(t)'
    BY <1>0, <1>1 DEF Mine, StageFits, ByCode, FamilyIsHeld, Needed, EntryIsHeld, Enters
  <1>3. ASSUME HasUser(t)
        PROVE  /\ Req[t].user \in Users /\ U(Req[t].user) \in held[t] /\ user[Req[t].user].there
               /\ user'[Req[t].user] = user[Req[t].user]
    <2>1. U(Req[t].user) \in held[t] /\ user[Req[t].user].there
      BY <1>1, <1>3 DEF Mine, UserIsHeld
    <2>2. Req[t].user \in Users
      BY <1>3, RequestAssumption DEF HasUser
    <2> QED  BY <1>0, <1>1, <2>1, <2>2 DEF UserWrites
  <1>4. UserIsHeld(t)'
    BY <1>0, <1>1, <1>3 DEF Mine, UserIsHeld, HasUser
  <1>5. CodeIsHeld(t)'
    BY <1>0, <1>1 DEF Mine, CodeIsHeld, ByCode, TableWrites
  <1>6. ASSUME NEW f \in Families, F(f) \in held[t]
        PROVE  /\ \A v \in Users : v \in Of(f)' => v \in Of(f)
               /\ f \notin overruled' => \A v \in Users : v \in Admins(f) => v \in Admins(f)'
    BY <1>0, <1>1, <1>6 DEF UserWrites, Touches
  <1>7. ASSUME NEW f \in Families, F(f) \in held[t], f = tx[t].family
        PROVE  /\ Of(tx[t].family)' \subseteq Of(tx[t].family)
               /\ f \notin overruled' => Admins(tx[t].family) \subseteq Admins(tx[t].family)'
    <2>1. f = tx'[t].family
      BY <1>0, <1>7
    <2>2. Of(f)' \subseteq Of(f) /\ (f \notin overruled' => Admins(f) \subseteq Admins(f)')
      BY <1>6, <1>7 DEF Of, Admins
    <2> QED  BY <1>7, <2>1, <2>2
  <1>8. DropIsHeld(t)'
    <2>1. ASSUME Req[t].op = "deleteFamily", tx[t].pc = "write"
          PROVE  \A v \in Of(tx[t].family)' : U(v) \in held[t]
      <3>1. F(tx[t].family) \in held[t] /\ tx[t].todo = {tx[t].family} /\ tx[t].todo \in SUBSET Families
        BY <1>1, <2>1 DEF Mine, DropIsHeld, Inv, Book, Transaction
      <3>2. Of(tx[t].family)' \subseteq Of(tx[t].family)
        BY <1>7, <3>1
      <3> QED  BY <1>1, <2>1, <3>2 DEF Mine, DropIsHeld
    <2>2. ASSUME Req[t].op = "delete", tx[t].pc \in {"cascade", "write"}, tx[t].todo # {}
          PROVE  /\ tx[t].family # None /\ tx[t].todo = {tx[t].family}
                 /\ Of(tx[t].family)' \subseteq {Req[t].user}
      <3>1. tx[t].family # None /\ tx[t].todo = {tx[t].family} /\ Of(tx[t].family) \subseteq {Req[t].user}
        BY <1>1, <2>2 DEF Mine, DropIsHeld
      <3>2. tx[t].family \in Families /\ F(tx[t].family) \in held[t]
        BY <1>1, <2>2, <3>1 DEF Mine, FamilyIsHeld, Needed, Guarded
      <3> QED  BY <1>7, <3>1, <3>2
    <2>3. DropIsHeld(t)
      BY <1>1 DEF Mine
    <2> QED  BY <1>0, <2>1, <2>2, <2>3 DEF DropIsHeld
  <1>9. AnotherLeads(t)'
    <2> SUFFICES ASSUME tx[t].pc = "write", Demotes(t)', tx[t].family \notin overruled'
                 PROVE  \/ \E v \in Admins(tx[t].family)' : v # Req[t].user
                        \/ Req[t].op = "delete" /\ tx[t].todo # {}
      BY <1>0 DEF AnotherLeads
    <2>1. Req[t].op \in Guarded /\ tx[t].family # None /\ tx[t].family \in Families /\ HasUser(t)
      BY <1>0, <1>1 DEF Demotes, HasUser, Guarded, OwnRow, Unserved, Ended
    <2>2. Demotes(t) /\ tx[t].family \notin overruled
      BY <1>0, <1>1, <1>3, <2>1 DEF Demotes, TableWrites
    <2>3. F(tx[t].family) \in held[t]
      BY <1>1, <2>1 DEF Mine, FamilyIsHeld, Needed
    <2>4. Admins(tx[t].family) \subseteq Admins(tx[t].family)'
      BY <1>7, <2>1, <2>3
    <2> QED  BY <1>1, <2>2, <2>4 DEF Mine, AnotherLeads
  <1> QED  BY <1>2, <1>4, <1>5, <1>8, <1>9 DEF Mine

LEMMA CommitKeepsLocked ==
    ASSUME Inv, NEW s \in Requests, Commit(s)
    PROVE  Locked'
  <1>0. /\ Book' /\ Alone(s) /\ tx[s].pc = "write" /\ tx'[s].pc = "done" /\ held'[s] = {} /\ shared'[s] = {}
    BY CommitEnds, EndsEffect DEF Inv, Ended
  <1>1. Exclusive'
    BY <1>0 DEF Inv, Locked, Exclusive, Alone
  <1>2. \A a \in Requests : tx[a].pc = "done" => tx'[a].pc = "done"
    BY <1>0 DEF Alone
  <1>3. ASSUME NEW t \in Requests PROVE Old(t)'
    <2>1. held'[t] \cup shared'[t] \subseteq held[t] \cup shared[t]
      BY <1>0 DEF Alone
    <2>2. Old(t)
      BY DEF Inv, Locked
    <2> QED  BY <1>2, <2>1, <2>2 DEF Old, Inserts
  <1>4. ASSUME NEW t \in Requests PROVE InsertIsNew(t)'
    <2>1. CASE t = s
      BY <1>0, <2>1 DEF InsertIsNew
    <2>2. CASE t # s
      <3>1. tx'[t] = tx[t] /\ (tx[t].pc # "done" => Touches(s) \cap Inserts(t) = {})
        BY <2>2, CommitSpares
      <3>2. InsertIsNew(t) /\ UserWrites(s) /\ TableWrites(s)
        BY CommitWritesUsers, CommitWritesTables DEF Inv, Locked
      <3>3. Inserts(t)' = Inserts(t)
        BY DEF Inserts
      <3> QED  BY <3>1, <3>2, <3>3 DEF InsertIsNew, UserWrites, TableWrites
    <2> QED  BY <2>1, <2>2
  <1> QED  BY <1>1, <1>3, <1>4 DEF Locked

LEMMA CommitKeepsInv ==
    ASSUME Inv, NEW s \in Requests, Commit(s)
    PROVE  Inv'
  <1>1. Book' /\ tx'[s].pc = "done" /\ held'[s] = {} /\ shared'[s] = {}
    BY CommitEnds, EndsEffect DEF Inv, Ended
  <1>2. Mine(s)'
    BY <1>1 DEF Mine, StageFits, UserIsHeld, HasUser, Unserved, Ended, FamilyIsHeld, EntryIsHeld,
       CodeIsHeld, DropIsHeld, AnotherLeads
  <1>3. Contents'
    BY CommitWritesUsers, CommitWritesTables DEF Contents
  <1>4. \A t \in Requests : Mine(t)'
    BY <1>2, CommitKeepsOthers
  <1> QED  BY <1>1, <1>3, <1>4, CommitKeepsLocked DEF Inv

-----------------------------------------------------------------------------
LEMMA InitInv == Init => Inv
  <1> SUFFICES ASSUME Init PROVE Inv
    OBVIOUS
  <1>1. Book
    BY DEF Init, Book, Transaction, Stages
  <1>2. Contents
    BY DEF Init, Contents
  <1>3. ASSUME NEW t \in Requests
        PROVE  tx[t].pc = "new" /\ tx[t].family = None /\ held[t] = {} /\ shared[t] = {}
    BY DEF Init
  <1>4. ASSUME NEW t \in Requests PROVE InsertIsNew(t)
    <2>1. ASSUME NEW f \in Families, F(f) \in Inserts(t) PROVE family[f] # "there"
      BY <2>1, FreshAssumption DEF Init
    <2>2. ASSUME NEW u \in Users, U(u) \in Inserts(t) PROVE ~user[u].there
      BY <2>2, FreshAssumption DEF Init
    <2>3. ASSUME NEW c \in Codes, C(c) \in Inserts(t) PROVE ~code[c].there
      BY <2>3, FreshAssumption DEF Init
    <2> QED  BY <2>1, <2>2, <2>3 DEF InsertIsNew
  <1>5. Locked
    BY <1>3, <1>4 DEF Locked, Exclusive, Old
  <1>6. \A t \in Requests : Mine(t)
    BY <1>3 DEF Mine, StageFits, UserIsHeld, HasUser, Unserved, FamilyIsHeld, EntryIsHeld,
       CodeIsHeld, DropIsHeld, AnotherLeads
  <1> QED  BY <1>1, <1>2, <1>5, <1>6 DEF Inv

LEMMA WhoSteps ==
    ASSUME Inv, NEW t \in Requests, Begin(t) \/ Works(t) \/ AbortDeadlock(t)
    PROVE  Quiet(t) \/ Commit(t)
  <1>1. ASSUME Begin(t) PROVE Quiet(t)
    BY <1>1, BeginOwnRowIsQuiet, BeginAsMemberIsQuiet, BeginRegisterIsQuiet, BeginAsPlatformIsQuiet DEF Begin
  <1>2. ASSUME Locks(t) PROVE Quiet(t)
    BY <1>2, LockUserIsQuiet, LockCodeIsQuiet, CheckForeignKeyIsQuiet, LockFamilyIsQuiet,
       LockTargetIsQuiet, DropFamilyIsQuiet, CascadeIsQuiet DEF Locks
  <1> QED  BY <1>1, <1>2, ReadCallerIsQuiet, CountIsQuiet, AbortIsQuiet DEF Works

LEMMA WhatASteps ==
    ASSUME Inv, Next
    PROVE  \E t \in Requests : Quiet(t) \/ Commit(t)
  BY WhoSteps DEF Next

LEMMA InvAlways == Spec => []Inv
  <1>1. ASSUME Inv, [Next]_vars PROVE Inv'
    <2>1. CASE Next
      BY <1>1, <2>1, WhatASteps, QuietKeepsInv, CommitKeepsInv
    <2>2. CASE UNCHANGED vars
      <3>1. user' = user /\ code' = code /\ family' = family /\ tx' = tx
            /\ held' = held /\ shared' = shared /\ overruled' = overruled
        BY <2>2 DEF vars
      <3>2. Book' /\ Contents' /\ Locked'
        BY <1>1, <3>1 DEF Inv, Book, Contents, Locked, Exclusive, Old, InsertIsNew, Inserts
      <3>3. \A t \in Requests : Mine(t)'
        BY <1>1, <3>1 DEF Inv, Mine, StageFits, ByCode, UserIsHeld, HasUser, FamilyIsHeld, Needed,
           EntryIsHeld, Enters, CodeIsHeld, DropIsHeld, AnotherLeads, Demotes, Admins, Of
      <3> QED  BY <3>2, <3>3 DEF Inv
    <2> QED  BY <1>1, <2>1, <2>2
  <1> QED  BY <1>1, InitInv, PTL DEF Spec

(* Every table, transaction and lock has its type.                         *)
THEOREM TypeCorrect == Spec => []TypeOK
  <1>1. Inv => TypeOK
    BY DEF Inv, Book, Contents, TypeOK
  <1> QED  BY <1>1, InvAlways, PTL

-----------------------------------------------------------------------------
(* Of a family that loses an admin and keeps members, another leads.       *)
LEMMA AnotherStays ==
    ASSUME Inv, NEW s \in Requests, Commit(s), NEW f \in Families, f \notin overruled',
           NEW v \in Admins(f), v \notin Admins(f)', Of(f)' # {}
    PROVE  Admins(f)' # {}
  <1> DEFINE u == Req[s].user
  <1>0. tx[s].pc = "write" /\ Contents /\ Mine(s) /\ v \in Users
        /\ user[v].there /\ user[v].family = f /\ user[v].role = "admin"
    BY CommitEnds, BeforeCommit DEF Admins, Of
  <1>1. ASSUME \A w \in Users : w # u => user'[w] = user[w]
        PROVE  v = u /\ \A w \in Admins(f) : w # u => w \in Admins(f)'
    BY <1>0, <1>1 DEF Admins, Of
  <1>2. CASE CreateFamily(s) \/ JoinFamily(s)
    <2>1. Req[s].op \in {"create", "join"} /\ \A w \in Users : w # u => user'[w] = user[w]
      BY <1>0, <1>2 DEF CreateFamily, JoinFamily, Commits, Becomes, Contents
    <2> QED  BY <1>0, <1>1, <2>1, BeforeCommit
  <1>3. CASE Register(s) \/ AdminCreateUser(s)
    <2>1. Req[s].op \in {"register", "createUser"} /\ \A w \in Users : w # u => user'[w] = user[w]
      BY <1>0, <1>3 DEF Register, AdminCreateUser, Commits, Becomes, Contents
    <2> QED  BY <1>0, <1>1, <2>1, BeforeCommit
  <1>4. CASE AdminMoveMember(s)
    <2>1. /\ \A w \in Users : w # u => user'[w] = user[w]
          /\ overruled' = overruled \cup ({user[u].family} \ {None})
      BY <1>0, <1>4 DEF AdminMoveMember, Commits, Becomes, Contents
    <2> QED  BY <1>0, <1>1, <2>1
  <1>5. CASE LeaveFamily(s) \/ UpdateMemberRole(s) \/ AdminSetUserRole(s) \/ DeleteMe(s) \/ AdminMoveUser(s)
    <2>1. /\ Req[s].op \in Guarded /\ \A w \in Users : w # u => user'[w] = user[w]
          /\ Req[s].op = "delete" => user'[u].there = FALSE
          /\ Req[s].op \in {"role", "setRole"} =>
                user' = [user EXCEPT ![u].role = Req[s].role]
      <3>1. u \in Users
        BY <1>5, RequestAssumption DEF LeaveFamily, UpdateMemberRole, AdminSetUserRole, DeleteMe,
           AdminMoveUser, Commits, OwnRow
      <3> QED  BY <1>0, <1>5, <3>1 DEF LeaveFamily, UpdateMemberRole, AdminSetUserRole, DeleteMe, AdminMoveUser,
         Commits, Becomes, Contents, Guarded
    <2>2. v = u /\ tx[s].family = f /\ u \in Users
      BY <1>0, <1>1, <2>1, BeforeCommit
    <2>3. ASSUME Req[s].op \in {"role", "setRole"} PROVE Req[s].role # "admin"
      <3>1. user[u] \in UserRow
        BY <1>0, <2>2 DEF Contents
      <3>2. user'[u] = [user[u] EXCEPT !.role = Req[s].role]
        BY <1>0, <2>1, <2>2, <2>3 DEF Contents
      <3> QED  BY <1>0, <2>2, <3>1, <3>2 DEF Admins, Of, UserRow
    <2>4. Demotes(s) /\ tx[s].family \notin overruled
      BY <1>0, <2>1, <2>2, <2>3, CommitWritesTables DEF Demotes, TableWrites
    <2>5. CASE \E w \in Admins(f) : w # u
      BY <1>1, <2>1, <2>5
    <2>6. CASE Req[s].op = "delete" /\ tx[s].todo # {}
      <3>1. Of(f) \subseteq {u} /\ F(f) \in held[s]
        BY <1>0, <2>2, <2>6, BeforeCommit DEF Mine, DropIsHeld, Guarded
      <3>2. Of(f)' \subseteq {}
        BY <2>1, <2>6, <3>1 DEF Of
      <3> QED  BY <3>2
    <2> QED  BY <1>0, <2>2, <2>4, <2>5, <2>6 DEF Mine, AnotherLeads
  <1>6. CASE CreateInvite(s) \/ AdminCreateFamily(s)
    BY <1>0, <1>6 DEF CreateInvite, AdminCreateFamily, Admins, Of
  <1>7. CASE AdminDeleteFamily(s)
    <2>1. user' = Without(tx[s].todo)
      BY <1>7 DEF AdminDeleteFamily
    <2>2. ASSUME NEW w \in Users
          PROVE  /\ user'[w].there = user[w].there /\ user'[w].role = user[w].role
                 /\ user'[w].family = IF user[w].family \in tx[s].todo THEN None ELSE user[w].family
      <3>1. user[w] \in UserRow
        BY <1>0 DEF Contents
      <3> QED  BY <2>1, <3>1 DEF Without, UserRow
    <2>3. f \in tx[s].todo
      BY <1>0, <2>2 DEF Admins, Of
    <2>4. Of(f)' = {}
      BY <2>2, <2>3 DEF Of
    <2> QED  BY <2>4
  <1> QED  BY <1>2, <1>3, <1>4, <1>5, <1>6, <1>7 DEF Commit

(* The guards against losing the last admin, with the locks they are       *)
(* counted under, are enough: LeaveFamily, DeleteMe, UpdateMemberRole,     *)
(* AdminUpdateUserRole and AdminAssignUser, however many and in whatever   *)
(* order, never take the last admin from a family that keeps members.      *)
THEOREM LastAdminStays == Spec => AdminIsKept
  <1> DEFINE Kept == \A f \in Families : Admins(f) # {} /\ Of(f)' # {} /\ f \notin overruled'
                                            => Admins(f)' # {}
  <1>1. ASSUME Inv, [Next]_vars PROVE [Kept]_vars
    <2>1. ASSUME user' = user PROVE Kept
      BY <2>1 DEF Admins, Of
    <2>2. ASSUME NEW s \in Requests, Commit(s) PROVE Kept
      <3> SUFFICES ASSUME NEW f \in Families, Admins(f) # {}, Of(f)' # {}, f \notin overruled'
                   PROVE  Admins(f)' # {}
        OBVIOUS
      <3>1. PICK v : v \in Admins(f)
        OBVIOUS
      <3> QED  BY <1>1, <2>2, <3>1, AnotherStays
    <2>3. ASSUME NEW s \in Requests, Quiet(s) PROVE Kept
      BY <2>1, <2>3 DEF Quiet, rows
    <2> QED  BY <1>1, <2>1, <2>2, <2>3, WhatASteps DEF vars
  <1> QED  BY <1>1, InvAlways, PTL DEF Spec, AdminIsKept

-----------------------------------------------------------------------------
(* An invite counts the accounts that came in by it: who uses it has its   *)
(* row locked from the check to the increment, and it is new when inserted.*)

DoneBy(c) == {t \in Requests :
    Req[t].op \in {"join", "register"} /\ Req[t].code = c /\ tx[t].pc = "done"}

Counted(c) ==
    /\ code[c].uses = StartCodes[c].uses + Cardinality(DoneBy(c))
    /\ code[c].there => code[c].uses <= MaxUses
    /\ \A s \in Requests : C(c) \in Inserts(s) /\ tx[s].pc # "done" =>
          DoneBy(c) = {} /\ StartCodes[c].uses = 0

LEMMA DoneByIsFinite ==
    ASSUME NEW c
    PROVE  IsFiniteSet(DoneBy(c)) /\ Cardinality(DoneBy(c)) \in Nat
  <1>1. IsFiniteSet(Requests)
    BY FS_Interval DEF Requests
  <1> QED  BY <1>1, FS_Subset, FS_CardinalityType DEF DoneBy

LEMMA InitCounted ==
    ASSUME Init, NEW c \in Codes
    PROVE  Counted(c)
  <1>1. DoneBy(c) = {}
    BY DEF Init, DoneBy
  <1>2. StartCodes[c] \in CodeRow /\ StartCodes[c].uses \in Nat
    BY DEF CodeRow
  <1>3. ASSUME NEW s \in Requests, C(c) \in Inserts(s) PROVE StartCodes[c].uses = 0
    BY <1>2, <1>3, FreshAssumption
  <1>4. Cardinality(DoneBy(c)) = 0
    BY <1>1, FS_EmptySet
  <1> QED  BY <1>1, <1>2, <1>3, <1>4 DEF Counted, Init

LEMMA QuietKeepsCounted ==
    ASSUME Inv, NEW t \in Requests, Quiet(t), NEW c \in Codes, Counted(c)
    PROVE  Counted(c)'
  <1>1. \A s \in Requests : tx'[s].pc = "done" <=> tx[s].pc = "done"
    BY DEF Quiet, Alone
  <1>2. DoneBy(c)' = DoneBy(c)
    BY <1>1 DEF DoneBy
  <1>3. code' = code
    BY DEF Quiet, rows
  <1> QED  BY <1>1, <1>2, <1>3 DEF Counted, Inserts

LEMMA CommitKeepsCounted ==
    ASSUME Inv, NEW s \in Requests, Commit(s), NEW c \in Codes, Counted(c)
    PROVE  Counted(c)'
  <1>0. /\ tx[s].pc = "write" /\ tx'[s].pc = "done" /\ Contents /\ Mine(s)
        /\ \A t \in Requests : t # s => tx'[t] = tx[t]
        /\ code[c] \in CodeRow /\ code[c].uses \in Nat /\ StartCodes[c].uses \in Nat
    <2>1. code[c] \in CodeRow /\ StartCodes[c] \in CodeRow
      BY DEF Inv, Contents
    <2> QED  BY <2>1, CommitEnds, EndsEffect, BeforeCommit DEF Inv, Ended, Alone, CodeRow
  <1>1. CASE ByCode(s) /\ Req[s].code = c
    <2>1. code' = [code EXCEPT ![c].uses = @ + 1]
      BY <1>1, RequestAssumption DEF Commit, Commits, CreateFamily, LeaveFamily, UpdateMemberRole, AdminSetUserRole,
         JoinFamily, Register, AdminCreateUser, DeleteMe, AdminMoveUser, AdminMoveMember, CreateInvite,
         AdminCreateFamily, AdminDeleteFamily, ByCode, OneUseMore
    <2>2. code'[c].uses = code[c].uses + 1
      BY <1>0, <2>1 DEF Contents, CodeRow
    <2>3. C(c) \in held[s] /\ code[c].uses < MaxUses
      BY <1>0, <1>1 DEF Mine, CodeIsHeld
    <2>4. \A t \in Requests : C(c) \in Inserts(t) => tx[t].pc = "done"
      BY <2>3 DEF Inv, Locked, Old
    <2>5. DoneBy(c)' = DoneBy(c) \cup {s} /\ s \notin DoneBy(c)
      BY <1>0, <1>1 DEF DoneBy, ByCode
    <2>6. Cardinality(DoneBy(c)') = Cardinality(DoneBy(c)) + 1
      BY <2>5, DoneByIsFinite, FS_AddElement
    <2>7. \A t \in Requests : C(c) \in Inserts(t)' => tx'[t].pc = "done"
      BY <1>0, <2>4 DEF Inserts
    <2>8. code'[c].uses = StartCodes[c].uses + Cardinality(DoneBy(c)')
      <3>1. code[c].uses = StartCodes[c].uses + Cardinality(DoneBy(c))
        BY DEF Counted
      <3>2. Cardinality(DoneBy(c)) \in Nat
        BY DoneByIsFinite
      <3>3. code[c].uses \in Nat /\ StartCodes[c].uses \in Nat
        BY <1>0
      <3> DEFINE a == code[c].uses
                 b == StartCodes[c].uses
                 n == Cardinality(DoneBy(c))
      <3>4. a \in Nat /\ b \in Nat /\ n \in Nat /\ a = b + n
        BY <3>1, <3>2, <3>3
      <3>5. code'[c].uses = a + 1 /\ Cardinality(DoneBy(c)') = n + 1
        BY <2>2, <2>6
      <3> HIDE DEF a, b, n
      <3>6. a + 1 = b + (n + 1)
        BY <3>4
      <3> QED  BY <3>5, <3>6 DEF b
    <2>9. code'[c].uses <= MaxUses
      BY <1>0, <2>2, <2>3
    <2> QED  BY <2>7, <2>8, <2>9 DEF Counted
  <1>2. CASE ~(ByCode(s) /\ Req[s].code = c)
    <2>1. DoneBy(c)' = DoneBy(c)
      BY <1>0, <1>2 DEF DoneBy, ByCode
    <2>2. CASE C(c) \in Inserts(s) /\ Req[s].op \in {"invite", "adminInvite"} /\ Req[s].code = c
      <3>1. code'[c].uses = 0
        BY <1>0, <2>2 DEF Commit, Commits, CreateFamily, LeaveFamily, UpdateMemberRole, AdminSetUserRole,
           JoinFamily, Register, AdminCreateUser, DeleteMe, AdminMoveUser, AdminMoveMember, CreateInvite,
           AdminCreateFamily, AdminDeleteFamily, Contents
      <3>2. DoneBy(c) = {} /\ StartCodes[c].uses = 0
        BY <1>0, <2>2 DEF Counted
      <3>3. Cardinality(DoneBy(c)') = 0
        BY <2>1, <3>2, FS_EmptySet
      <3> QED  BY <1>0, <2>1, <3>1, <3>2, <3>3 DEF Counted
    <2>3. CASE code'[c].uses = code[c].uses /\ (code'[c].there => code[c].there)
      <3>1. \A t \in Requests : C(c) \in Inserts(t)' /\ tx'[t].pc # "done" =>
                C(c) \in Inserts(t) /\ tx[t].pc # "done"
        BY <1>0 DEF Inserts
      <3> QED  BY <2>1, <2>3, <3>1 DEF Counted
    <2>4. CASE CreateInvite(s)
      <3>1. Req[s].op \in {"invite", "adminInvite"} /\ C(Req[s].code) \in Inserts(s)
        BY <2>4 DEF CreateInvite, Inserts
      <3>2. CASE Req[s].code # c
        BY <1>0, <2>3, <2>4, <3>2 DEF CreateInvite, Contents
      <3> QED  BY <2>2, <3>1, <3>2
    <2>5. CASE JoinFamily(s) \/ Register(s)
      <3>1. code' = code \/ (OneUseMore(Req[s].code) /\ Req[s].code # c)
        BY <1>2, <2>5, RequestAssumption, RequestIsTyped DEF JoinFamily, Register, Commits, ByCode
      <3>2. code'[c] = code[c]
        BY <1>0, <3>1 DEF OneUseMore, Contents
      <3> QED  BY <2>3, <3>2
    <2>6. CASE DeleteMe(s) \/ AdminDeleteFamily(s)
      <3>1. code' = [x \in Codes |-> [code[x] EXCEPT !.there = @ /\ code[x].family \notin tx[s].todo]]
        BY <2>6 DEF DeleteMe, AdminDeleteFamily, Dropped
      <3> QED  BY <1>0, <2>3, <3>1 DEF CodeRow
    <2>7. CASE \/ CreateFamily(s) \/ LeaveFamily(s) \/ UpdateMemberRole(s) \/ AdminSetUserRole(s)
               \/ AdminCreateUser(s) \/ AdminMoveUser(s) \/ AdminMoveMember(s) \/ AdminCreateFamily(s)
      BY <2>3, <2>7 DEF CreateFamily, LeaveFamily, UpdateMemberRole, AdminSetUserRole, AdminCreateUser,
         AdminMoveUser, AdminMoveMember, AdminCreateFamily
    <2> QED  BY <2>4, <2>5, <2>6, <2>7 DEF Commit
  <1> QED  BY <1>1, <1>2

LEMMA CountedAlways == Spec => [](\A c \in Codes : Counted(c))
  <1>1. ASSUME Inv, \A c \in Codes : Counted(c), [Next]_vars
        PROVE  (\A c \in Codes : Counted(c))'
    <2>1. CASE Next
      BY <1>1, <2>1, WhatASteps, QuietKeepsCounted, CommitKeepsCounted
    <2>2. CASE UNCHANGED vars
      BY <1>1, <2>2 DEF vars, Counted, DoneBy, Inserts
    <2> QED  BY <1>1, <2>1, <2>2
  <1>2. Init => \A c \in Codes : Counted(c)
    BY InitCounted
  <1> QED  BY <1>1, <1>2, InvAlways, PTL DEF Spec

(* consumeInviteCode, with the row locked FOR UPDATE until the commit:     *)
(* whatever registrations and joins overlap, fail or are aborted, an       *)
(* invite is used at most max_uses times and counts who came in by it.     *)
THEOREM InvitesCount == Spec => []InvitesAreCounted
  <1>1. (\A c \in Codes : Counted(c)) => InvitesAreCounted
    BY DEF Counted, DoneBy, InvitesAreCounted
  <1> QED  BY <1>1, CountedAlways, PTL

-----------------------------------------------------------------------------
(* The families that rows refer to.  A commit deletes a family only with   *)
(* its lock and every reference to it, and writes references to a family   *)
(* whose row it has locked, or holds by a foreign key, or inserts.         *)

LocksAreThere == \A t \in Requests, f \in Families : F(f) \in held[t] \cup shared[t] => family[f] = "there"

Attached == LocksAreThere /\ FamilyOfMembersIsThere

(* What a commit does to a family that is there.                           *)
Keeps(f) ==
    \/ family'[f] = "there"
    \/ /\ \A u \in Users : user'[u].there => user'[u].family # f
       /\ \A c \in Codes : code'[c].there => code'[c].family # f

(* Where a commit may have an invite lead to.                              *)
Leads(s, c) ==
    code'[c].there =>
        \/ code[c].there /\ code'[c].family = code[c].family
        \/ code'[c].family \in Families /\ F(code'[c].family) \in shared[s]

LEMMA ReferencesDropped ==
    ASSUME Inv, NEW s \in Requests, DeleteMe(s) \/ AdminDeleteFamily(s), NEW f \in Families, family[f] = "there"
    PROVE  Keeps(f)
  <1>0. tx[s].pc = "write" /\ Contents /\ Mine(s)
    BY CommitEnds, BeforeCommit DEF Commit
  <1>1. Dropped(tx[s].todo) /\ Req[s].op \in {"delete", "deleteFamily"}
    BY DEF DeleteMe, AdminDeleteFamily, Commits
  <1>2. CASE f \notin tx[s].todo
    <2>1. family'[f] = family[f]
      BY <1>1, <1>2 DEF Dropped
    <2> QED  BY <2>1 DEF Keeps, There
  <1>3. CASE f \in tx[s].todo
    <2>1. ASSUME NEW c \in Codes, code'[c].there PROVE code'[c].family # f
      <3>1. code'[c] = [code[c] EXCEPT !.there = code[c].there /\ code[c].family \notin tx[s].todo]
        BY <1>1 DEF Dropped
      <3>2. code[c] \in CodeRow
        BY <1>0 DEF Contents
      <3>3. code'[c].family = code[c].family /\ code[c].family \notin tx[s].todo
        BY <2>1, <3>1, <3>2 DEF CodeRow
      <3> QED  BY <1>3, <3>3
    <2>2. ASSUME NEW v \in Users, user'[v].there, user'[v].family = f PROVE FALSE
      <3>1. user[v] \in UserRow
        BY <1>0, <2>2 DEF Contents
      <3>2. CASE DeleteMe(s)
        <4>1. user' = [user EXCEPT ![Req[s].user] = [there |-> FALSE, family |-> None, role |-> "member"]]
              /\ Req[s].op = "delete"
          BY <3>2 DEF DeleteMe, Commits
        <4>2. tx[s].family = f /\ Of(tx[s].family) \subseteq {Req[s].user}
          BY <1>0, <1>3, <4>1 DEF Mine, DropIsHeld
        <4>3. v # Req[s].user
          BY <1>0, <2>2, <4>1 DEF Contents
        <4>4. user'[v] = user[v]
          BY <1>0, <4>1, <4>3 DEF Contents
        <4> QED  BY <2>2, <4>2, <4>3, <4>4 DEF Of
      <3>3. CASE AdminDeleteFamily(s)
        <4>1. user'[v] = [user[v] EXCEPT !.family = IF user[v].family \in tx[s].todo THEN None ELSE user[v].family]
          BY <2>2, <3>3 DEF AdminDeleteFamily, Without
        <4> QED  BY <1>3, <2>2, <3>1, <4>1 DEF UserRow
      <3> QED  BY <3>2, <3>3
    <2> QED  BY <2>1, <2>2 DEF Keeps
  <1> QED  BY <1>2, <1>3

LEMMA CommitKeepsFamilies ==
    ASSUME Inv, NEW s \in Requests, Commit(s), NEW f \in Families, family[f] = "there"
    PROVE  Keeps(f)
  <1>0. Contents
    BY DEF Inv
  <1>1. CASE DeleteMe(s) \/ AdminDeleteFamily(s)
    BY <1>1, ReferencesDropped
  <1>2. CASE CreateFamily(s) \/ AdminCreateFamily(s)
    BY <1>0, <1>2 DEF CreateFamily, AdminCreateFamily, Contents, Keeps, There
  <1>3. CASE ~(DeleteMe(s) \/ AdminDeleteFamily(s)) /\ ~(CreateFamily(s) \/ AdminCreateFamily(s))
    <2>1. family' = family
      BY <1>3 DEF Commit, LeaveFamily, UpdateMemberRole, AdminSetUserRole,
         JoinFamily, Register, AdminCreateUser, AdminMoveUser, AdminMoveMember, CreateInvite
    <2> QED  BY <2>1 DEF Keeps, There
  <1> QED  BY <1>1, <1>2, <1>3

(* A family is deleted by the request that has locked it.                  *)
LEMMA FamilyUntouched ==
    ASSUME Inv, NEW s \in Requests, Commit(s), NEW f \in Families, family[f] = "there", F(f) \notin held[s]
    PROVE  family'[f] = "there"
  <1>0. tx[s].pc = "write" /\ Contents /\ Mine(s)
    BY CommitEnds, BeforeCommit
  <1>1. CASE DeleteMe(s) \/ AdminDeleteFamily(s)
    <2>1. Dropped(tx[s].todo) /\ Req[s].op \in {"delete", "deleteFamily"}
      BY <1>1 DEF DeleteMe, AdminDeleteFamily, Commits
    <2>2. f \notin tx[s].todo
      <3>1. CASE Req[s].op = "delete"
        BY <1>0, <3>1, BeforeCommit DEF Mine, DropIsHeld, Guarded
      <3>2. CASE Req[s].op = "deleteFamily"
        BY <1>0, <3>2 DEF Mine, DropIsHeld
      <3> QED  BY <2>1, <3>1, <3>2
    <2> QED  BY <2>1, <2>2 DEF Dropped, There
  <1>2. CASE CreateFamily(s) \/ AdminCreateFamily(s)
    BY <1>0, <1>2 DEF CreateFamily, AdminCreateFamily, Contents, There
  <1>3. CASE ~(DeleteMe(s) \/ AdminDeleteFamily(s)) /\ ~(CreateFamily(s) \/ AdminCreateFamily(s))
    <2>1. family' = family
      BY <1>3 DEF Commit, LeaveFamily, UpdateMemberRole, AdminSetUserRole,
         JoinFamily, Register, AdminCreateUser, AdminMoveUser, AdminMoveMember, CreateInvite
    <2> QED  BY <2>1 DEF There
  <1> QED  BY <1>1, <1>2, <1>3

(* A family that a commit inserts is there.                                *)
LEMMA InsertedIsThere ==
    ASSUME Inv, NEW s \in Requests, Commit(s), NEW f \in Families, F(f) \in Inserts(s)
    PROVE  family'[f] = "there"
  <1>1. Req[s].op \in {"create", "newFamily"} /\ f = Req[s].family
    BY RowsApart DEF Inserts
  <1>2. CreateFamily(s) \/ AdminCreateFamily(s)
    BY <1>1 DEF Commit, Commits, LeaveFamily, UpdateMemberRole, AdminSetUserRole,
       JoinFamily, Register, AdminCreateUser, DeleteMe, AdminMoveUser, AdminMoveMember, CreateInvite,
       AdminDeleteFamily
  <1> QED  BY <1>1, <1>2 DEF CreateFamily, AdminCreateFamily, Inv, Contents, There

LEMMA CommitLeads ==
    ASSUME Inv, NEW s \in Requests, Commit(s), NEW c \in Codes
    PROVE  Leads(s, c)
  <1>0. tx[s].pc = "write" /\ Contents /\ Mine(s) /\ code[c] \in CodeRow
        /\ tx[s].family \in Families \cup {None}
    BY CommitEnds, BeforeCommit DEF Contents
  <1>1. CASE DeleteMe(s) \/ AdminDeleteFamily(s)
    <2>1. code'[c] = [code[c] EXCEPT !.there = code[c].there /\ code[c].family \notin tx[s].todo]
      BY <1>1 DEF DeleteMe, AdminDeleteFamily, Dropped
    <2> QED  BY <1>0, <2>1 DEF Leads, CodeRow
  <1>2. CASE CreateInvite(s)
    <2>1. /\ Req[s].op \in {"invite", "adminInvite"}
          /\ code' = [code EXCEPT ![Req[s].code] =
                   [there |-> TRUE, family |-> tx[s].family, role |-> Req[s].role, uses |-> 0]]
      BY <1>2 DEF CreateInvite
    <2>2. F(tx[s].family) \in shared[s]
      BY <1>0, <2>1, BeforeCommit DEF Enters
    <2>3. tx[s].family \in Families
      <3>1. F(tx[s].family) \in Rows
        BY <2>2 DEF Inv, Book
      <3> QED  BY <3>1, RowsApart DEF Rows
    <2>4. CASE c = Req[s].code
      BY <1>0, <2>1, <2>2, <2>3, <2>4 DEF Leads, Contents
    <2>5. CASE c # Req[s].code
      BY <1>0, <2>1, <2>5 DEF Leads, Contents
    <2> QED  BY <2>4, <2>5
  <1>3. CASE OneUseMore(Req[s].code)
    BY <1>0, <1>3 DEF OneUseMore, Leads, Contents, CodeRow
  <1>4. CASE UNCHANGED code
    BY <1>4 DEF Leads
  <1> QED  BY <1>1, <1>2, <1>3, <1>4 DEF Commit, CreateFamily, LeaveFamily, UpdateMemberRole,
       AdminSetUserRole, JoinFamily, Register, AdminCreateUser, AdminMoveUser, AdminMoveMember,
       AdminCreateFamily

(* Whoever is in a family after a commit is in one that is there.          *)
LEMMA MembersAreIn ==
    ASSUME Inv, Attached, NEW s \in Requests, Commit(s), NEW f \in Families, NEW u \in Users,
           user'[u].there, user'[u].family = f
    PROVE  family'[f] = "there"
  <1>1. CASE F(f) \in Inserts(s)
    BY <1>1, InsertedIsThere
  <1>2. CASE family[f] = "there"
    BY <1>2, CommitKeepsFamilies DEF Keeps
  <1>3. CASE u \in Of(f)
    BY <1>2, <1>3 DEF Of, Attached, FamilyOfMembersIsThere, There, Inv, Contents, UserRow
  <1>4. CASE u \notin Of(f)
    <2>1. u \in Of(f)' \ Of(f)
      BY <1>4 DEF Of
    <2>2. F(f) \in Touches(s) \cup shared[s]
      BY <2>1, CommitWritesUsers DEF UserWrites
    <2> QED  BY <1>1, <1>2, <2>2 DEF Touches, Attached, LocksAreThere
  <1> QED  BY <1>3, <1>4

LEMMA CommitKeepsAttached ==
    ASSUME Inv, Attached, NEW s \in Requests, Commit(s)
    PROVE  Attached'
  <1>0. Contents' /\ Alone(s) /\ held'[s] = {} /\ shared'[s] = {}
    BY CommitEnds, EndsEffect, CommitKeepsInv DEF Inv, Ended
  <1>1. LocksAreThere'
    <2>1. ASSUME NEW t \in Requests, NEW f \in Families, F(f) \in held'[t] \cup shared'[t]
          PROVE  family'[f] = "there"
      <3>1. t # s /\ F(f) \in held[t] \cup shared[t] /\ family[f] = "there"
        BY <1>0, <2>1 DEF Alone, Attached, LocksAreThere
      <3>2. F(f) \notin Touches(s)
        BY <3>1, CommitSpares
      <3> QED  BY <3>1, <3>2, FamilyUntouched DEF Touches
    <2> QED  BY <2>1 DEF LocksAreThere
  <1>2. ASSUME NEW u \in Users, user'[u].there, user'[u].family # None
        PROVE  user'[u].family \in Families /\ family'[user'[u].family] = "there"
    <2>1. user'[u].family \in Families
      BY <1>0, <1>2 DEF Contents, UserRow
    <2> QED  BY <1>2, <2>1, MembersAreIn
  <1>3. ASSUME NEW c \in Codes, code'[c].there
        PROVE  code'[c].family \in Families /\ family'[code'[c].family] = "there"
    <2>1. Leads(s, c)
      BY CommitLeads
    <2>2. PICK f : f = code'[c].family
      OBVIOUS
    <2>3. f \in Families /\ family[f] = "there"
      BY <1>3, <2>1, <2>2 DEF Leads, Attached, FamilyOfMembersIsThere, LocksAreThere, There
    <2>4. family'[f] = "there"
      BY <1>3, <2>2, <2>3, CommitKeepsFamilies DEF Keeps
    <2> QED  BY <2>2, <2>3, <2>4
  <1> QED  BY <1>1, <1>2, <1>3 DEF Attached, FamilyOfMembersIsThere, There

LEMMA QuietKeepsAttached ==
    ASSUME Inv, Attached, NEW t \in Requests, Quiet(t)
    PROVE  Attached'
  <1>1. user' = user /\ code' = code /\ family' = family
    BY DEF Quiet, rows
  <1>2. FamilyOfMembersIsThere'
    BY <1>1 DEF Attached, FamilyOfMembersIsThere, There
  <1>3. ASSUME NEW s \in Requests, NEW f \in Families, F(f) \in held'[s] \cup shared'[s]
        PROVE  family'[f] = "there"
    <2>1. CASE F(f) \in held[s] \cup shared[s]
      BY <1>1, <2>1 DEF Attached, LocksAreThere, There
    <2>2. CASE F(f) \notin held[s] \cup shared[s]
      <3>1. Real(F(f))
        BY <1>3, <2>2 DEF Quiet, Alone, Granted
      <3> QED  BY <1>1, <3>1, RowsApart DEF Real, There
    <2> QED  BY <2>1, <2>2
  <1> QED  BY <1>2, <1>3 DEF Attached, LocksAreThere

LEMMA InitAttached == Init => Attached
  <1> SUFFICES ASSUME Init PROVE Attached
    OBVIOUS
  <1>1. \A f \in Families : family[f] = IF f \in StartFamilies THEN "there" ELSE "unused"
    BY DEF Init
  <1>2. ASSUME NEW u \in Users, user[u].there PROVE user[u].family = None \/ There(user[u].family)
    <2>1. StartUsers[u] \in UserRow /\ user[u] = StartUsers[u]
      BY DEF Init
    <2> QED  BY <1>1, <1>2, <2>1 DEF UserRow, StartFamilies, There
  <1>3. ASSUME NEW c \in Codes, code[c].there PROVE There(code[c].family)
    <2>1. code[c] = StartCodes[c] /\ StartCodes[c].family \in Families
      BY <1>3 DEF Init
    <2> QED  BY <1>1, <1>3, <2>1 DEF StartFamilies, There
  <1>4. LocksAreThere
    BY DEF Init, LocksAreThere
  <1> QED  BY <1>2, <1>3, <1>4 DEF Attached, FamilyOfMembersIsThere

(* However deletions of families overlap the joins, moves, invites and new *)
(* accounts that refer to them (ON DELETE CASCADE and SET NULL, FOR KEY    *)
(* SHARE), nobody is left in a family that is gone, and no invite leads to *)
(* one.                                                                    *)
THEOREM FamiliesOfMembersAreThere == Spec => []FamilyOfMembersIsThere
  <1>1. ASSUME Inv, Attached, [Next]_vars PROVE Attached'
    <2>1. CASE Next
      BY <1>1, <2>1, WhatASteps, QuietKeepsAttached, CommitKeepsAttached
    <2>2. CASE UNCHANGED vars
      BY <1>1, <2>2 DEF vars, Attached, LocksAreThere, FamilyOfMembersIsThere, There
    <2> QED  BY <1>1, <2>1, <2>2
  <1>2. Attached => FamilyOfMembersIsThere
    BY DEF Attached
  <1> QED  BY <1>1, <1>2, InitAttached, InvAlways, PTL DEF Spec

-----------------------------------------------------------------------------
(* The caller of UpdateMemberRole: once its role is read, with the family's *)
(* row locked, it neither loses the role in the family nor comes to it.    *)

Reread == {"target", "count", "write"}

CallerLeads(t) ==
    Req[t].op = "role" =>
        /\ tx[t].pc \notin Unserved => tx[t].family # None
        /\ /\ tx[t].pc \in Reread /\ tx[t].family \notin overruled
           /\ Req[t].by \in Users /\ user[Req[t].by].there
           /\ user[Req[t].by].family = tx[t].family
           => user[Req[t].by].role = "admin"

LEMMA RoleAdvances ==
    ASSUME Inv, NEW t \in Requests, Begin(t) \/ Works(t) \/ AbortDeadlock(t),
           Req[t].op = "role", tx'[t].pc \notin Unserved
    PROVE  \/ tx[t].pc = "new" /\ tx'[t].pc = "family" /\ tx'[t].family # None
           \/ /\ tx[t].pc \notin Unserved /\ tx'[t].family = tx[t].family
              /\ tx'[t].pc \in Reread => tx[t].pc \in Reread \/ user[Req[t].by].role = "admin"
  <1>0. Book /\ StageFits(t) /\ tx[t] \in Transaction /\ Ended \subseteq Unserved
    BY DEF Inv, Mine, Book, Unserved
  <1>1. ASSUME NEW how \in Ended, Ends(t, how) PROVE FALSE
    BY <1>0, <1>1, EndsEffect
  <1>2. ASSUME Refuse(t) PROVE FALSE
    BY <1>1, <1>2 DEF Refuse, Ended
  <1>3. ASSUME NEW pc, Goto(t, pc) PROVE tx'[t].pc = pc /\ tx'[t].family = tx[t].family
    BY <1>0, <1>3 DEF Goto, Book, Transaction
  <1>4. ASSUME NEW pc, NEW f, NEW todo, Enter(t, pc, f, todo) PROVE tx'[t].pc = pc /\ tx'[t].family = f
    BY <1>0, <1>4 DEF Enter, Book
  <1>5. CASE Begin(t)
    <2>1. BeginAsMember(t)
      BY <1>5 DEF Begin, BeginOwnRow, BeginRegister, BeginAsPlatform, OwnRow
    <2>2. PICK f : tx[t].pc = "new" /\ f # None /\ Enter(t, "family", f, {f})
      BY <1>2, <2>1 DEF BeginAsMember, Follows, Arrives
    <2> QED  BY <1>4, <2>2
  <1>6. CASE LockFamily(t)
    <2>1. tx[t].pc = "family" /\ \E pc, rest : pc \in {"family", "caller"} /\ Enter(t, pc, tx[t].family, rest)
      BY <1>2, <1>6 DEF LockFamily, Follows
    <2> QED  BY <1>4, <2>1 DEF Reread, Unserved, Ended
  <1>7. CASE LockTarget(t)
    <2>1. tx[t].pc = "target" /\ Goto(t, "count")
      BY <1>2, <1>7 DEF LockTarget
    <2> QED  BY <1>3, <2>1 DEF Reread, Unserved, Ended
  <1>8. CASE ReadCaller(t)
    <2>1. tx[t].pc = "caller" /\ user[Req[t].by].role = "admin" /\ Goto(t, "target")
      BY <1>2, <1>8 DEF ReadCaller, Follows
    <2> QED  BY <1>3, <2>1 DEF Unserved, Ended
  <1>9. CASE Count(t)
    <2>1. tx[t].pc = "count" /\ (Enter(t, "cascade", tx[t].family, {tx[t].family}) \/ Goto(t, "write"))
      BY <1>2, <1>9 DEF Count
    <2> QED  BY <1>3, <1>4, <2>1 DEF Reread, Unserved, Ended
  <1>10. CASE LockUser(t) \/ LockCode(t) \/ CheckForeignKey(t) \/ DropFamily(t) \/ Cascade(t)
    BY <1>0, <1>10 DEF LockUser, LockCode, CheckForeignKey, DropFamily, Cascade, StageFits, ByCode, OwnRow
  <1>11. CASE Commit(t) \/ AbortDeadlock(t)
    BY <1>1, <1>11, CommitEnds DEF AbortDeadlock, Ended
  <1> QED  BY <1>5, <1>6, <1>7, <1>8, <1>9, <1>10, <1>11 DEF Works, Locks

(* A commit of another request leaves alone who is in the caller's family. *)
LEMMA CommitKeepsCaller ==
    ASSUME Inv, NEW s \in Requests, Commit(s), NEW t \in Requests, s # t, CallerLeads(t)
    PROVE  CallerLeads(t)'
  <1>1. /\ tx'[t] = tx[t] /\ held[t] \cap (Touches(s) \cup shared[s]) = {}
        /\ UserWrites(s) /\ overruled \subseteq overruled'
    BY CommitSpares, CommitWritesUsers, CommitWritesTables DEF TableWrites
  <1>2. ASSUME Req[t].op = "role", tx[t].pc \in Reread, tx[t].family \notin overruled',
               Req[t].by \in Users, user'[Req[t].by].there, user'[Req[t].by].family = tx[t].family
        PROVE  user'[Req[t].by].role = "admin"
    <2>1. PICK f, b : f = tx[t].family /\ b = Req[t].by
      OBVIOUS
    <2>2. f \in Families /\ F(f) \in held[t]
      <3>1. tx[t].pc \notin Unserved /\ tx[t].family # None
        BY <1>2 DEF CallerLeads, Reread, Unserved, Ended
      <3>2. F(f) \in held[t]
        BY <1>2, <2>1, <3>1 DEF Inv, Mine, FamilyIsHeld, Needed, Guarded, Reread
      <3> QED  BY <2>1, <3>1, <3>2 DEF Inv, Book, Transaction
    <2>3. b \in Of(f)'
      BY <1>2, <2>1 DEF Of
    <2>4. b \in Of(f) /\ (b \in Admins(f) => b \in Admins(f)')
      BY <1>1, <1>2, <2>1, <2>2, <2>3 DEF UserWrites, Admins, Touches
    <2>5. b \in Admins(f)
      BY <1>1, <1>2, <2>1, <2>4 DEF CallerLeads, Admins, Of
    <2> QED  BY <2>1, <2>4, <2>5 DEF Admins
  <1> QED  BY <1>1, <1>2 DEF CallerLeads

LEMMA CallerLeadsStep ==
    ASSUME Inv, \A t \in Requests : CallerLeads(t), [Next]_vars
    PROVE  \A t \in Requests : CallerLeads(t)'
  <1>1. CASE UNCHANGED vars
    BY <1>1 DEF vars, CallerLeads
  <1>2. CASE Next
    <2>1. PICK s \in Requests : Begin(s) \/ Works(s) \/ AbortDeadlock(s)
      BY <1>2 DEF Next
    <2>2. Quiet(s) \/ Commit(s)
      BY <2>1, WhoSteps
    <2>3. ASSUME NEW t \in Requests, t # s PROVE CallerLeads(t)'
      <3>1. CASE Quiet(s)
        BY <2>3, <3>1 DEF Quiet, Alone, rows, CallerLeads
      <3> QED  BY <2>2, <2>3, <3>1, CommitKeepsCaller
    <2>4. CallerLeads(s)'
      <3>1. CASE Commit(s)
        <4>1. tx'[s].pc = "done"
          BY <3>1, CommitEnds, EndsEffect DEF Inv, Ended
        <4> QED  BY <4>1 DEF CallerLeads, Unserved, Ended, Reread
      <3>2. CASE Quiet(s)
        <4>1. user' = user /\ overruled' = overruled
          BY <3>2 DEF Quiet, rows
        <4>2. CallerLeads(s) /\ Reread \cap Unserved = {} /\ "family" \notin Reread
          BY DEF Reread, Unserved, Ended
        <4>3. CASE Req[s].op = "role" /\ tx'[s].pc \notin Unserved
          BY <2>1, <4>1, <4>2, <4>3, RoleAdvances DEF CallerLeads
        <4>4. CASE tx'[s].pc \in Unserved
          BY <4>2, <4>4 DEF CallerLeads
        <4> QED  BY <4>3, <4>4 DEF CallerLeads
      <3> QED  BY <2>2, <3>1, <3>2
    <2> QED  BY <2>3, <2>4
  <1> QED  BY <1>1, <1>2

(* A role is changed only while the caller, if still of the family, is its *)
(* admin: the role was read after the family's row was locked, "so a       *)
(* concurrent demotion of the caller cannot race this check"               *)
(* (family.go:412-415).                                                    *)
THEOREM RolesNeedAdmins == Spec => RoleNeedsAdmin
  <1>1. Init => \A t \in Requests : CallerLeads(t)
    BY DEF Init, CallerLeads, Unserved, Reread, Ended
  <1>2. ASSUME Inv, \A t \in Requests : CallerLeads(t)
        PROVE  \A t \in Requests :
                   /\ UpdateMemberRole(t) /\ tx[t].family \notin overruled
                   /\ Req[t].by \in Of(tx[t].family)
                   => user[Req[t].by].role = "admin"
    BY <1>2 DEF UpdateMemberRole, Commits, CallerLeads, Reread, Of
  <1> DEFINE Lead == \A t \in Requests : CallerLeads(t)
  <1>3. Init => Lead
    BY <1>1
  <1>4. Inv /\ Lead /\ [Next]_vars => Lead'
    BY CallerLeadsStep
  <1>5. Inv /\ Lead => [\A t \in Requests :
          /\ UpdateMemberRole(t) /\ tx[t].family \notin overruled
          /\ Req[t].by \in Of(tx[t].family)
          => user[Req[t].by].role = "admin"]_vars
    BY <1>2
  <1> HIDE DEF Lead
  <1> QED  BY <1>3, <1>4, <1>5, InvAlways, PTL DEF Spec, RoleNeedsAdmin

-----------------------------------------------------------------------------
(* The order of the locks: users, then invites, then families by their     *)
(* ids.                                                                    *)

LEMMA LeastOfNaturals ==
    ASSUME NEW T \in SUBSET Nat, T # {}
    PROVE  \E n \in T : \A m \in T : n <= m
  <1>1. PICK n \in T : \A m \in T : ~(<<m, n>> \in OpToRel(<, Nat))
    BY NatLessThanWellFounded, WFMin
  <1>2. \A m \in T : ~(m < n)
    BY <1>1 DEF OpToRel
  <1> QED  BY <1>2

LEMMA FirstIsLeast ==
    ASSUME NEW t \in Requests, tx[t].todo \in SUBSET Families, tx[t].todo # {}
    PROVE  First(t) \in tx[t].todo /\ \A g \in tx[t].todo : First(t) <= g
  <1>1. tx[t].todo \in SUBSET Nat
    OBVIOUS
  <1>2. \E f \in tx[t].todo : \A g \in tx[t].todo : f <= g
    BY <1>1, LeastOfNaturals
  <1> QED  BY <1>2 DEF First

Unordered == {"role", "delete", "deleteFamily"}

(* What a transaction has locked comes before what it waits for.           *)
Ordered(t) ==
    Req[t].op \notin Unordered =>
        /\ tx[t].pc \in {"new", "caller"} => held[t] = {} /\ shared[t] = {}
        /\ tx[t].pc = "user" => \A u \in Users : U(u) \notin held[t] \cup shared[t]
        /\ tx[t].pc \in {"user", "code"} => \A c \in Codes : C(c) \notin held[t] \cup shared[t]
        /\ tx[t].pc \in {"user", "code", "fk"} => \A f \in Families : F(f) \notin held[t]
        /\ tx[t].pc # "write" => \A f \in Families : F(f) \notin shared[t]
        /\ tx[t].pc = "family" =>
              /\ tx[t].todo # {}
              /\ \A f \in Families, g \in tx[t].todo : F(f) \in held[t] => f < g

LEMMA OrderedSteps ==
    ASSUME Inv, NEW t \in Requests, Begin(t) \/ Works(t) \/ AbortDeadlock(t), Ordered(t)
    PROVE  Ordered(t)'
  <1> SUFFICES ASSUME Req[t].op \notin Unordered PROVE Ordered(t)'
    BY DEF Ordered
  <1>0. /\ Book /\ StageFits(t) /\ tx[t] \in Transaction
        /\ tx[t].todo \in SUBSET Families /\ tx[t].family \in Families \cup {None}
    BY DEF Inv, Mine, Book, Transaction
  <1>1. ASSUME NEW how \in Ended, Ends(t, how) PROVE Ordered(t)'
    <2>1. tx'[t].pc = how /\ held'[t] = {} /\ shared'[t] = {} /\ how # "family"
      BY <1>0, <1>1, EndsEffect DEF Ended
    <2> QED  BY <2>1 DEF Ordered
  <1>2. ASSUME Refuse(t) PROVE Ordered(t)'
    BY <1>1, <1>2 DEF Refuse, Ended
  <1>3. ASSUME NEW pc, Goto(t, pc) PROVE tx'[t].pc = pc /\ tx'[t].family = tx[t].family
    BY <1>0, <1>3 DEF Goto, Book, Transaction
  <1>4. ASSUME NEW pc, NEW f, NEW todo, Enter(t, pc, f, todo)
        PROVE  tx'[t].pc = pc /\ tx'[t].todo = todo
    BY <1>0, <1>4 DEF Enter, Book
  <1>5. ASSUME NEW r, Lock(t, r) PROVE held'[t] = held[t] \cup {r} /\ shared'[t] = shared[t]
    BY <1>0, <1>5 DEF Lock, Book
  <1>6. CASE Begin(t)
    <2>1. Refuse(t) \/ (tx'[t].pc # "family" /\ held'[t] = {} /\ shared'[t] = {})
      <3>1. tx[t].pc = "new" /\ held[t] = {} /\ shared[t] = {}
        BY <1>6 DEF Begin, BeginOwnRow, BeginAsMember, BeginRegister, BeginAsPlatform, Arrives, Ordered
      <3>2. CASE BeginOwnRow(t)
        BY <1>3, <3>1, <3>2 DEF BeginOwnRow, Elsewhere
      <3>3. CASE BeginAsMember(t)
        <4>1. Follows(t, "new") = "caller"
          BY <3>3 DEF BeginAsMember, Follows, Unordered
        <4> QED  BY <1>4, <3>1, <3>3, <4>1 DEF BeginAsMember, Elsewhere
      <3>4. CASE BeginRegister(t)
        BY <1>3, <3>1, <3>4 DEF BeginRegister, Elsewhere
      <3>5. CASE BeginAsPlatform(t)
        <4>1. PICK next : /\ next \in {"drop", "write", "fk", "refused"}
                          /\ IF next = "refused" THEN Refuse(t)
                             ELSE Enter(t, next, Req[t].family, {}) /\ Elsewhere
          BY <3>5, Zenon DEF BeginAsPlatform
        <4> QED  BY <1>4, <3>1, <4>1 DEF Elsewhere
      <3> QED  BY <1>6, <3>2, <3>3, <3>4, <3>5 DEF Begin
    <2> QED  BY <1>2, <2>1 DEF Ordered
  <1>7. CASE LockUser(t)
    <2>1. PICK f, next, todo :
             \/ Refuse(t)
             \/ /\ Lock(t, U(Req[t].user)) /\ Enter(t, next, f, todo)
                /\ next = Onwards(t, user[Req[t].user].family) /\ next # "refused"
                /\ todo = {user[Req[t].user].family, IF Req[t].op = "assign" THEN Req[t].family
                                      ELSE user[Req[t].user].family} \ {None}
      BY <1>7, Zenon DEF LockUser
    <2>2. tx[t].pc = "user"
      BY <1>7 DEF LockUser
    <2>3. CASE ~Refuse(t)
      <3>1. next \in {"fk", "write", "code", "family"}
        BY <2>1, <2>3 DEF Onwards, Unordered
      <3>2. next = "family" => todo # {}
        BY <2>1, <2>3 DEF Onwards, Unordered, AlreadyOrGone
      <3>3. /\ \A c \in Codes : C(c) \notin held'[t] \cup shared'[t]
            /\ \A h \in Families : F(h) \notin held'[t] \cup shared'[t]
        BY <1>5, <2>1, <2>2, <2>3, RowsApart DEF Ordered
      <3>4. tx'[t].pc = next /\ tx'[t].todo = todo
        BY <1>4, <2>1, <2>3
      <3> QED  BY <3>1, <3>2, <3>3, <3>4 DEF Ordered
    <2> QED  BY <1>2, <2>3
  <1>8. CASE LockCode(t)
    <2>1. tx[t].pc = "code" /\ \/ Refuse(t)
                               \/ \E f : Lock(t, C(Req[t].code)) /\ Enter(t, "fk", f, {})
      BY <1>8, Zenon DEF LockCode
    <2> QED  BY <1>2, <1>4, <1>5, <2>1, RowsApart DEF Ordered
  <1>9. CASE CheckForeignKey(t)
    <2>1. Refuse(t) \/ (Goto(t, "write") /\ UNCHANGED held)
      BY <1>9, Zenon DEF CheckForeignKey
    <2> QED  BY <1>2, <1>3, <2>1 DEF Ordered
  <1>10. CASE LockFamily(t)
    <2> DEFINE f == First(t)
               rest == tx[t].todo \ {f}
    <2>1. tx[t].pc = "family" /\ Req[t].op # "role" /\ tx[t].todo # {}
      BY <1>10 DEF LockFamily, Unordered, Ordered
    <2>2. f \in tx[t].todo /\ f \in Families /\ \A g \in tx[t].todo : f <= g
      BY <1>0, <2>1, FirstIsLeast
    <2>3. CASE ~Refuse(t)
      <3>1. Lock(t, F(f)) /\ Enter(t, IF rest = {} THEN "count" ELSE "family", tx[t].family, rest)
        BY <1>10, <2>1, <2>3 DEF LockFamily, Follows
      <3> HIDE DEF f
      <3>2. /\ tx'[t].pc = (IF rest = {} THEN "count" ELSE "family") /\ tx'[t].todo = rest
            /\ held'[t] = held[t] \cup {F(f)} /\ shared'[t] = shared[t]
        BY <1>4, <1>5, <3>1
      <3>3. ASSUME NEW h \in Families, NEW g \in rest, F(h) \in held'[t] PROVE h < g
        <4>1. CASE F(h) \in held[t]
          BY <2>1, <3>3, <4>1 DEF Ordered
        <4>2. CASE h = f
          <5>1. g \in tx[t].todo /\ g # f
            OBVIOUS
          <5>2. f <= g /\ f \in Nat /\ g \in Nat
            BY <1>0, <2>2, <5>1
          <5> QED  BY <4>2, <5>1, <5>2
        <4> QED  BY <3>2, <3>3, <4>1, <4>2, RowsApart
      <3> QED  BY <2>1, <3>2, <3>3 DEF Ordered
    <2> QED  BY <1>2, <2>3
  <1>11. CASE ReadCaller(t)
    <2>1. tx[t].pc = "caller" /\ Req[t].op = "invite"
      BY <1>0, <1>11 DEF ReadCaller, StageFits, Unordered
    <2>2. Refuse(t) \/ (Goto(t, Follows(t, "caller")) /\ Elsewhere)
      BY <1>11, Zenon DEF ReadCaller
    <2>3. Follows(t, "caller") = "fk" /\ (Elsewhere => UNCHANGED <<held, shared>>)
      BY <2>1 DEF Follows, Elsewhere
    <2> QED  BY <1>2, <1>3, <2>1, <2>2, <2>3 DEF Ordered
  <1>12. CASE Count(t)
    <2>1. ~Dissolves(t, tx[t].family)
      BY DEF Dissolves, Unordered
    <2>2. tx[t].pc = "count" /\ (Refuse(t) \/ (Goto(t, "write") /\ Elsewhere))
      BY <1>12, <2>1 DEF Count
    <2>3. Elsewhere => UNCHANGED <<held, shared>>
      BY DEF Elsewhere
    <2> QED  BY <1>2, <1>3, <2>2, <2>3 DEF Ordered
  <1>13. CASE LockTarget(t) \/ DropFamily(t) \/ Cascade(t)
    BY <1>0, <1>13 DEF LockTarget, DropFamily, Cascade, StageFits, Unordered
  <1>14. CASE Commit(t) \/ AbortDeadlock(t)
    BY <1>1, <1>14, CommitEnds DEF AbortDeadlock, Ended
  <1> QED  BY <1>6, <1>7, <1>8, <1>9, <1>10, <1>11, <1>12, <1>13, <1>14 DEF Works, Locks

LEMMA OrderedAlways == Spec => [](\A t \in Requests : Ordered(t))
  <1>1. Init => \A t \in Requests : Ordered(t)
    BY DEF Init, Ordered
  <1>2. ASSUME Inv, \A t \in Requests : Ordered(t), [Next]_vars
        PROVE  \A t \in Requests : Ordered(t)'
    <2>1. CASE UNCHANGED vars
      BY <1>2, <2>1 DEF vars, Ordered
    <2>2. CASE Next
      <3>1. PICK s \in Requests : Begin(s) \/ Works(s) \/ AbortDeadlock(s)
        BY <2>2 DEF Next
      <3>2. Ordered(s)'
        BY <1>2, <3>1, OrderedSteps
      <3>3. Alone(s)
        BY <1>2, <3>1, WhoSteps, CommitEnds, EndsEffect DEF Quiet, Inv, Ended
      <3>4. ASSUME NEW t \in Requests, t # s PROVE Ordered(t)'
        BY <1>2, <3>3, <3>4 DEF Alone, Ordered
      <3> QED  BY <3>2, <3>4
    <2> QED  BY <1>2, <2>1, <2>2
  <1> DEFINE All == \A t \in Requests : Ordered(t)
  <1>3. Init => All
    BY <1>1
  <1>4. Inv /\ All /\ [Next]_vars => All'
    BY <1>2
  <1> QED
    <2> HIDE DEF All
    <2>1. Spec => []All
      BY <1>3, <1>4, InvAlways, PTL DEF Spec
    <2> QED  BY <2>1 DEF All

(* A cycle of transactions would climb in that order for ever: of those    *)
(* that wait for a family there would be one with fewest above it.         *)
LEMMA NoCycle ==
    ASSUME Inv, \A t \in Requests : Ordered(t), NEW S,
           S \in SUBSET {t \in Open : Req[t].op \notin Unordered}, S # {}, Deadlocked(S)
    PROVE  FALSE
  <1>1. ASSUME NEW t \in S
        PROVE  /\ t \in Requests /\ Req[t].op \notin Unordered /\ Ordered(t) /\ StageFits(t)
               /\ tx[t] \in Transaction /\ Wants(t) # {}
               /\ \A r \in Wants(t) : \E s \in S : r \in held[s] \cup shared[s]
    BY <1>1 DEF Open, Deadlocked, InTheWay, Inv, Mine, Book
  <1>2. ASSUME NEW t \in S PROVE tx[t].pc \in {"user", "code", "fk", "family"}
    BY <1>1 DEF Wants, StageFits, Unordered
  <1>3. ASSUME NEW t \in S, tx[t].pc = "user"
        PROVE  \E s \in S : tx[s].pc # "user"
    <2>1. Wants(t) = {U(Req[t].user)} /\ Req[t].user \in Users
      BY <1>1, <1>3, RequestAssumption DEF Wants, StageFits
    <2>2. PICK s \in S : U(Req[t].user) \in held[s] \cup shared[s]
      BY <1>1, <2>1
    <2> QED  BY <1>1, <2>1, <2>2 DEF Ordered
  <1>4. ASSUME NEW t \in S, tx[t].pc = "code"
        PROVE  \E s \in S : tx[s].pc \notin {"user", "code"}
    <2>1. Wants(t) = {C(Req[t].code)} /\ Req[t].code \in Codes
      BY <1>1, <1>4 DEF Wants, StageFits, ByCode
    <2>2. PICK s \in S : C(Req[t].code) \in held[s] \cup shared[s]
      BY <1>1, <2>1
    <2> QED  BY <1>1, <2>1, <2>2 DEF Ordered
  <1>5. ASSUME NEW t \in S, NEW f, F(f) \in Wants(t)
        PROVE  f \in Families /\ \E s \in S : tx[s].pc = "family" /\ F(f) \in held[s]
    <2>1. PICK s \in S : F(f) \in held[s] \cup shared[s]
      BY <1>1, <1>5
    <2>2. f \in Families
      <3>1. F(f) \in Rows
        BY <1>1, <2>1 DEF Inv, Book
      <3>2. \/ \E u \in Users : F(f) = U(u)
            \/ \E g \in Families : F(f) = F(g)
            \/ \E c \in Codes : F(f) = C(c)
        BY <3>1 DEF Rows
      <3>3. ASSUME NEW u \in Users PROVE F(f) # U(u)
        BY RowsApart
      <3>4. ASSUME NEW g, F(f) = F(g) PROVE f = g
        BY <3>4, RowsApart
      <3>5. ASSUME NEW c PROVE F(f) # C(c)
        BY RowsApart
      <3> QED  BY <3>2, <3>3, <3>4, <3>5
    <2>3. tx[s].pc \in {"user", "code", "fk", "family"} /\ Ordered(s) /\ Req[s].op \notin Unordered
      BY <1>1, <1>2
    <2> QED  BY <2>1, <2>2, <2>3 DEF Ordered
  <1> DEFINE T == {t \in S : tx[t].pc = "family"}
             Above(t) == {s \in T : First(s) > First(t)}
  <1>6. T # {}
    <2>1. ASSUME NEW t \in S, tx[t].pc = "fk" PROVE T # {}
      <3>1. F(tx[t].family) \in Wants(t)
        BY <2>1 DEF Wants
      <3> QED  BY <1>5, <3>1
    <2>2. \E t \in S : tx[t].pc # "user"
      BY <1>3
    <2>3. \E t \in S : tx[t].pc \notin {"user", "code"}
      BY <1>4, <2>2
    <2> QED  BY <1>2, <2>1, <2>3
  <1>7. ASSUME NEW t \in T PROVE First(t) \in Nat
    <2>1. tx[t].todo \in SUBSET Families /\ tx[t].todo # {} /\ t \in Requests
      BY <1>1 DEF Transaction, Ordered
    <2> QED  BY <2>1, FirstIsLeast
  <1>8. ASSUME NEW t \in T PROVE \E s \in T : First(t) < First(s)
    <2>1. F(First(t)) \in Wants(t)
      BY DEF Wants
    <2>2. PICK s \in S : tx[s].pc = "family" /\ F(First(t)) \in held[s] /\ First(t) \in Families
      BY <1>5, <2>1
    <2>3. tx[s].todo \in SUBSET Families /\ tx[s].todo # {} /\ s \in Requests /\ Ordered(s)
          /\ Req[s].op \notin Unordered
      BY <1>1, <2>2 DEF Transaction, Ordered
    <2>4. First(s) \in tx[s].todo
      BY <2>3, FirstIsLeast
    <2> QED  BY <2>2, <2>3, <2>4 DEF Ordered
  <1>9. IsFiniteSet(T)
    <2>1. Len(Req) \in Nat
      OBVIOUS
    <2>2. IsFiniteSet(1 .. Len(Req))
      BY <2>1, FS_Interval
    <2>3. T \subseteq 1 .. Len(Req)
      BY <1>1 DEF Requests
    <2> QED  BY <2>2, <2>3, FS_Subset
  <1>10. ASSUME NEW t \in T PROVE IsFiniteSet(Above(t)) /\ Cardinality(Above(t)) \in Nat
    <2>1. Above(t) \subseteq T
      OBVIOUS
    <2> QED  BY <1>9, <2>1, FS_Subset, FS_CardinalityType
  <1>11. PICK t \in T : \A s \in T : Cardinality(Above(t)) <= Cardinality(Above(s))
    <2> DEFINE sizes == {Cardinality(Above(t)) : t \in T}
    <2> HIDE DEF T, Above
    <2>1. sizes \in SUBSET Nat /\ sizes # {}
      BY <1>6, <1>10
    <2>2. PICK n \in sizes : \A m \in sizes : n <= m
      <3> HIDE DEF sizes
      <3> QED  BY <2>1, LeastOfNaturals
    <2> QED  BY <2>2
  <1>12. PICK s \in T : First(t) < First(s)
    BY <1>8
  <1>13. Above(s) \subseteq Above(t) /\ s \in Above(t) /\ s \notin Above(s)
    BY <1>7, <1>12
  <1>14. Cardinality(Above(s)) < Cardinality(Above(t))
    <2> HIDE DEF Above
    <2>1. /\ Cardinality(Above(s)) <= Cardinality(Above(t))
          /\ Cardinality(Above(t)) = Cardinality(Above(s)) => Above(t) = Above(s)
      BY <1>10, <1>13, FS_Subset
    <2> QED  BY <1>10, <1>13, <2>1
  <1> QED
    <2> HIDE DEF Above
    <2> QED  BY <1>10, <1>11, <1>14

(* Transactions that lock users before invites before families, and these  *)
(* by id ("in a stable order so concurrent moves cannot race the           *)
(* last-admin check or deadlock", admin_users.go:341-342), never wait for  *)
(* each other in a circle.                                                 *)
THEOREM OrderedDoNotDeadlock == Spec => []OrderedNeverDeadlock
  <1>1. Inv /\ (\A t \in Requests : Ordered(t)) => OrderedNeverDeadlock
    BY NoCycle DEF OrderedNeverDeadlock, Unordered
  <1> QED  BY <1>1, InvAlways, OrderedAlways, PTL
=============================================================================
