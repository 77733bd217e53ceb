----------------------------- MODULE Membership -----------------------------
(***************************************************************************)
(* Families, roles and invites: every transaction that changes who belongs *)
(* to which family and who leads it (family.go, invites.go, profile.go,    *)
(* admin_users.go, admin.go, auth.go), statement by statement, under       *)
(* PostgreSQL's READ COMMITTED and its row locks.                          *)
(*                                                                         *)
(* A transaction's writes become visible at its commit, with its locks     *)
(* held until then, so the writes and the commit are one step.  Left out:  *)
(* an invite's expiry and creator, e-mail uniqueness, roles other than     *)
(* admin and member, which no condition tells from member.                 *)
(***************************************************************************)
EXTENDS Integers, FiniteSets, Sequences

CONSTANTS
    Users, Families, Codes,
    None,
    MaxUses,        \* max_uses of every code
    Req,            \* the requests that may be made, each once: a sequence
    StartUsers,     \* users rows at the start
    StartCodes,     \* codes there at the start
    MaxOpen,        \* bound: requests being served at a time
    MaxServed       \* bound: requests in all

Roles == {"admin", "member"}
OwnRow == {"create", "leave", "delete", "assign", "setRole", "join", "move"}
Ops == OwnRow \cup {"role", "register", "createUser", "invite", "adminInvite",
                    "newFamily", "deleteFamily"}
Request == [op: Ops, user: Users \cup {None}, by: Users \cup {None},
            family: Families \cup {None}, role: Roles, code: Codes \cup {None}]
UserRow == [there: BOOLEAN, family: Families \cup {None}, role: Roles]
CodeRow == [there: BOOLEAN, family: Families \cup {None}, role: Roles, uses: Nat]

Requests == 1 .. Len(Req)

ASSUME MembershipAssumption ==
    /\ Families \subseteq Nat /\ None \notin Users \cup Families \cup Codes
    /\ IsFiniteSet(Users)
    /\ MaxUses \in Nat \ {0} /\ MaxOpen \in Nat /\ MaxServed \in Nat
    /\ Req \in Seq(Request)
    /\ StartUsers \in [Users -> UserRow] /\ StartCodes \in [Codes -> CodeRow]
    /\ \A c \in Codes : StartCodes[c].uses <= IF StartCodes[c].there THEN MaxUses ELSE 0
    /\ \A c \in Codes : StartCodes[c].there => StartCodes[c].family \in Families

(* The families that the rows at the start refer to.                       *)
StartFamilies == {StartUsers[u].family : u \in {u \in Users : StartUsers[u].there}} \cup
                 {StartCodes[c].family : c \in {c \in Codes : StartCodes[c].there}}

(* What a handler is called with: its caller, its path, its body.          *)
ASSUME RequestAssumption ==
    \A t \in Requests :
        /\ Req[t].op \in OwnRow \cup {"role", "register", "createUser"} => Req[t].user \in Users
        /\ Req[t].op \in {"role", "invite"} => Req[t].by \in Users
        /\ Req[t].op \in {"create", "newFamily", "deleteFamily", "adminInvite"} =>
              Req[t].family \in Families
        /\ Req[t].op \in {"join", "invite", "adminInvite"} => Req[t].code \in Codes

VARIABLES
    user, code,     \* the tables users and invite_codes
    family,         \* families: "unused", "there" or "gone"
    tx,             \* what each request is doing
    held, shared,   \* rows locked FOR UPDATE, and FOR KEY SHARE, by each
    overruled       \* families AdminMoveMember took someone from (history)

rows == <<user, code, family>>
vars == <<user, code, family, tx, held, shared, overruled>>

U(u) == <<"user", u>>
F(f) == <<"family", f>>
C(c) == <<"code", c>>
Rows == {U(u) : u \in Users} \cup {F(f) : f \in Families} \cup {C(c) : c \in Codes}

(* The row a request inserts has an id of its own (gen_random_uuid) and an *)
(* invite a code of its own (UNIQUE).                                      *)
Inserts(t) == CASE Req[t].op \in {"register", "createUser"} -> {U(Req[t].user)}
                [] Req[t].op \in {"create", "newFamily"} -> {F(Req[t].family)}
                [] Req[t].op \in {"invite", "adminInvite"} -> {C(Req[t].code)}
                [] OTHER -> {}

ASSUME FreshAssumption ==
    \A t \in Requests :
        /\ \A s \in Requests \ {t} : Inserts(s) \cap Inserts(t) = {}
        /\ \A u \in Users : StartUsers[u].there => U(u) \notin Inserts(t)
        /\ \A f \in StartFamilies : F(f) \notin Inserts(t)
        /\ \A c \in Codes : StartCodes[c].there => C(c) \notin Inserts(t)

Ended == {"done", "refused", "aborted"}
Unserved == Ended \cup {"new"}
Stages == {"new", "user", "code", "fk", "family", "caller", "target", "count",
           "drop", "cascade", "write"} \cup Ended
Transaction == [pc: Stages, family: Families \cup {None}, todo: SUBSET Families]

Init ==
    /\ user = StartUsers /\ code = StartCodes
    /\ family = [f \in Families |-> IF f \in StartFamilies THEN "there" ELSE "unused"]
    /\ tx = [t \in Requests |-> [pc |-> "new", family |-> None, todo |-> {}]]
    /\ held = [t \in Requests |-> {}] /\ shared = [t \in Requests |-> {}]
    /\ overruled = {}

-----------------------------------------------------------------------------
Open == {t \in Requests : tx[t].pc \notin Unserved}

(* Who keeps t from locking a row, exclusively or FOR KEY SHARE.           *)
InTheWay(t, r) == {s \in Requests \ {t} :
                      r \in held[s] \/ (tx[t].pc # "fk" /\ r \in shared[s])}

Goto(t, pc) == tx' = [tx EXCEPT ![t].pc = pc]
Enter(t, pc, f, todo) == tx' = [tx EXCEPT ![t] = [pc |-> pc, family |-> f, todo |-> todo]]
Elsewhere == UNCHANGED <<rows, held, shared, overruled>>

(* The end of a request, commit or rollback, frees its locks.              *)
(* Mutant: the rollback of a refused request is missing.                   *)
FreesAfterCommit(t, how) ==
    /\ Goto(t, how)
    /\ IF how = "refused" THEN UNCHANGED <<held, shared>>
       ELSE held' = [held EXCEPT ![t] = {}] /\ shared' = [shared EXCEPT ![t] = {}]

Ends(t, how) == /\ Goto(t, how)
                /\ held' = [held EXCEPT ![t] = {}] /\ shared' = [shared EXCEPT ![t] = {}]
Refuse(t) == Ends(t, "refused") /\ UNCHANGED <<rows, overruled>>

Lock(t, r) == /\ InTheWay(t, r) = {}
              /\ held' = [held EXCEPT ![t] = @ \cup {r}]
              /\ UNCHANGED <<rows, shared, overruled>>

There(f) == f \in Families /\ family[f] = "there"
Of(f) == {u \in Users : user[u].there /\ user[u].family = f}
Admins(f) == {u \in Of(f) : user[u].role = "admin"}

(* UpdateMemberRole and CreateFamilyInvite: what comes after a stage.      *)
Follows(t, pc) == CASE pc = "new" -> IF Req[t].op = "role" THEN "family" ELSE "caller"
                    [] pc = "family" -> IF Req[t].op = "role" THEN "caller" ELSE "count"
                    [] pc = "caller" -> IF Req[t].op = "role" THEN "target" ELSE "fk"

-----------------------------------------------------------------------------
(* A request arrives.  Its first read, outside the transaction, is part of *)
(* its arrival: the caller's family, or whether a given family exists.     *)
(* Who calls for themselves has an account.                                *)
Arrives(t) == /\ tx[t].pc = "new"
              /\ Cardinality(Open) < MaxOpen
              /\ Cardinality({s \in Requests : tx[s].pc # "new"}) < MaxServed

BeginOwnRow(t) ==
    /\ Req[t].op \in OwnRow /\ Arrives(t)
    /\ Req[t].op \in {"create", "leave", "delete", "join"} => user[Req[t].user].there
    /\ IF Req[t].op = "move" /\ ~There(Req[t].family) THEN Refuse(t)
       ELSE Goto(t, "user") /\ Elsewhere

BeginAsMember(t) ==
    /\ Req[t].op \in {"role", "invite"} /\ Arrives(t) /\ user[Req[t].by].there
    /\ LET f == user[Req[t].by].family
       IN  IF f = None THEN Refuse(t)
           ELSE Enter(t, Follows(t, "new"), f, {f}) /\ Elsewhere

BeginRegister(t) ==
    /\ Req[t].op = "register" /\ Arrives(t)
    /\ Goto(t, IF Req[t].code = None THEN "write" ELSE "code")
    /\ Elsewhere

BeginAsPlatform(t) ==
    /\ Req[t].op \in {"createUser", "adminInvite", "newFamily", "deleteFamily"}
    /\ Arrives(t)
    /\ LET f == Req[t].family
           next == CASE Req[t].op = "deleteFamily" -> "drop"
                     [] Req[t].op = "newFamily" \/ f = None -> "write"
                     [] OTHER -> IF There(f) THEN "fk" ELSE "refused"
       IN  IF next = "refused" THEN Refuse(t) ELSE Enter(t, next, f, {}) /\ Elsewhere

-----------------------------------------------------------------------------
(* The caller's or the member's own row, FOR UPDATE or by an UPDATE.       *)
AlreadyOrGone(dest, f) == dest = f \/ (dest # None /\ ~There(dest))

(* Mutant: LeaveFamily counts without the family's lock.                   *)
OnwardsUnlocked(t, f) ==
    CASE Req[t].op = "move" -> "fk"
      [] Req[t].op = "create" -> IF f = None THEN "write" ELSE "refused"
      [] Req[t].op = "join" -> IF f = None THEN "code" ELSE "refused"
      [] Req[t].op = "leave" -> IF f = None THEN "refused" ELSE "count"
      [] Req[t].op = "assign" -> IF AlreadyOrGone(Req[t].family, f) THEN "refused" ELSE "family"
      [] OTHER -> IF f = None THEN "write" ELSE "family"

Onwards(t, f) ==
    CASE Req[t].op = "move" -> "fk"
      [] Req[t].op = "create" -> IF f = None THEN "write" ELSE "refused"
      [] Req[t].op = "join" -> IF f = None THEN "code" ELSE "refused"
      [] Req[t].op = "leave" -> IF f = None THEN "refused" ELSE "family"
      [] Req[t].op = "assign" -> IF AlreadyOrGone(Req[t].family, f) THEN "refused" ELSE "family"
      [] OTHER -> IF f = None THEN "write" ELSE "family"

LockUser(t) ==
    /\ tx[t].pc = "user"
    /\ LET row == user[Req[t].user]
           next == IF row.there THEN Onwards(t, row.family) ELSE "refused"
       IN  IF next = "refused" THEN InTheWay(t, U(Req[t].user)) = {} /\ Refuse(t)
           ELSE /\ Lock(t, U(Req[t].user))
                /\ Enter(t, next, IF Req[t].op = "move" THEN Req[t].family ELSE row.family,
                         {row.family, IF Req[t].op = "assign" THEN Req[t].family
                                      ELSE row.family} \ {None})

(* consumeInviteCode.  Mutant: without the lock on the code's row.         *)
Spent(c) == code[c].uses >= MaxUses

LockCodeNot(t) ==
    /\ tx[t].pc = "code"
    /\ IF ~code[Req[t].code].there \/ Spent(Req[t].code) THEN Refuse(t)
       ELSE Enter(t, "fk", code[Req[t].code].family, {}) /\ Elsewhere

LockCode(t) ==
    /\ tx[t].pc = "code"
    /\ IF ~code[Req[t].code].there THEN Refuse(t)
       ELSE IF Spent(Req[t].code) THEN InTheWay(t, C(Req[t].code)) = {} /\ Refuse(t)
       ELSE Lock(t, C(Req[t].code)) /\ Enter(t, "fk", code[Req[t].code].family, {})

(* The foreign key of the row to be written locks the family FOR KEY SHARE.*)
CheckForeignKey(t) ==
    /\ tx[t].pc = "fk" /\ InTheWay(t, F(tx[t].family)) = {}
    /\ IF ~There(tx[t].family) THEN Refuse(t)
       ELSE /\ shared' = [shared EXCEPT ![t] = @ \cup {F(tx[t].family)}]
            /\ Goto(t, "write") /\ UNCHANGED <<rows, held, overruled>>

(* adminMoveUser locks two families in the order of their ids.             *)
First(t) == CHOOSE f \in tx[t].todo : \A g \in tx[t].todo : f <= g

LockFamily(t) ==
    /\ tx[t].pc = "family"
    /\ LET f == First(t)  rest == tx[t].todo \ {f}
       IN  IF ~There(f) THEN InTheWay(t, F(f)) = {} /\ Refuse(t)
           ELSE /\ Lock(t, F(f))
                /\ Enter(t, IF rest = {} THEN Follows(t, "family") ELSE "family",
                         tx[t].family, rest)

(* Only the caller's role is read again, not the family it is a role in.   *)
ReadCaller(t) ==
    /\ tx[t].pc = "caller"
    /\ IF user[Req[t].by].there /\ user[Req[t].by].role = "admin"
       THEN Goto(t, Follows(t, "caller")) /\ Elsewhere ELSE Refuse(t)

LockTarget(t) ==
    /\ tx[t].pc = "target"
    /\ IF Req[t].user \notin Of(tx[t].family) THEN Refuse(t)
       ELSE Lock(t, U(Req[t].user)) /\ Goto(t, "count")

(* The last-admin guards of LeaveFamily, adminMoveUser, DeleteMe, and of   *)
(* the two changes of a role.                                              *)
Blocked(t, f) ==
    /\ user[Req[t].user].role = "admin" /\ Cardinality(Admins(f)) <= 1
    /\ Req[t].op \in {"role", "setRole"} => Req[t].role # "admin"
    /\ Req[t].op = "delete" => Cardinality(Of(f)) > 1

Dissolves(t, f) == Req[t].op = "delete" /\ user[Req[t].user].role = "admin" /\ Cardinality(Of(f)) <= 1

Count(t) ==
    /\ tx[t].pc = "count"
    /\ LET f == tx[t].family
       IN  IF f # None /\ Blocked(t, f) THEN Refuse(t)
           ELSE /\ IF f # None /\ Dissolves(t, f) THEN Enter(t, "cascade", f, {f})
                                                ELSE Goto(t, "write")
                /\ Elsewhere

(* DELETE FROM families: the row, and then the rows that refer to it.      *)
DropFamily(t) ==
    /\ tx[t].pc = "drop"
    /\ IF ~There(Req[t].family) THEN Refuse(t)
       ELSE Lock(t, F(Req[t].family)) /\ Enter(t, "cascade", Req[t].family, {Req[t].family})

Referring(f) == {U(u) : u \in Of(f)} \cup
                {C(c) : c \in {c \in Codes : code[c].there /\ code[c].family = f}}

Cascade(t) ==
    /\ tx[t].pc = "cascade"
    /\ LET left == Referring(tx[t].family) \ held[t]
       IN  \/ \E r \in left : Lock(t, r) /\ UNCHANGED tx
           \/ left = {} /\ Goto(t, "write") /\ Elsewhere

-----------------------------------------------------------------------------
(* The writes of each handler, with its commit.                            *)
Commits(t, op) == Req[t].op = op /\ tx[t].pc = "write" /\ Ends(t, "done")
Becomes(u, f, r) == user' = [user EXCEPT ![u] = [there |-> TRUE, family |-> f, role |-> r]]
OneUseMore(c) == code' = [code EXCEPT ![c].uses = @ + 1]
Without(fs) == [u \in Users |-> [user[u] EXCEPT !.family = IF @ \in fs THEN None ELSE @]]
Dropped(fs) ==
    /\ family' = [f \in Families |-> IF f \in fs THEN "gone" ELSE family[f]]
    /\ code' = [c \in Codes |-> [code[c] EXCEPT !.there = @ /\ code[c].family \notin fs]]

CreateFamily(t) ==
    /\ Commits(t, "create") /\ Becomes(Req[t].user, Req[t].family, "admin")
    /\ family' = [family EXCEPT ![Req[t].family] = "there"]
    /\ UNCHANGED <<code, overruled>>

LeaveFamily(t) ==
    /\ Commits(t, "leave") /\ Becomes(Req[t].user, None, "member")
    /\ UNCHANGED <<code, family, overruled>>

UpdateMemberRole(t) ==
    /\ Commits(t, "role") /\ user' = [user EXCEPT ![Req[t].user].role = Req[t].role]
    /\ UNCHANGED <<code, family, overruled>>

AdminSetUserRole(t) ==
    /\ Commits(t, "setRole") /\ user' = [user EXCEPT ![Req[t].user].role = Req[t].role]
    /\ UNCHANGED <<code, family, overruled>>

JoinFamily(t) ==
    /\ Commits(t, "join") /\ Becomes(Req[t].user, tx[t].family, code[Req[t].code].role)
    /\ OneUseMore(Req[t].code) /\ UNCHANGED <<family, overruled>>

Register(t) ==
    /\ Commits(t, "register")
    /\ IF Req[t].code = None THEN Becomes(Req[t].user, None, "member") /\ UNCHANGED code
       ELSE Becomes(Req[t].user, tx[t].family, code[Req[t].code].role) /\ OneUseMore(Req[t].code)
    /\ UNCHANGED <<family, overruled>>

AdminCreateUser(t) ==
    /\ Commits(t, "createUser") /\ Becomes(Req[t].user, Req[t].family, Req[t].role)
    /\ UNCHANGED <<code, family, overruled>>

DeleteMe(t) ==
    /\ Commits(t, "delete") /\ Dropped(tx[t].todo)
    /\ user' = [user EXCEPT ![Req[t].user] = [there |-> FALSE, family |-> None, role |-> "member"]]
    /\ UNCHANGED overruled

AdminMoveUser(t) ==
    /\ Commits(t, "assign") /\ user' = [user EXCEPT ![Req[t].user].family = Req[t].family]
    /\ UNCHANGED <<code, family, overruled>>

(* "The platform admin overrides the normal last-admin guard."             *)
AdminMoveMember(t) ==
    /\ Commits(t, "move") /\ Becomes(Req[t].user, Req[t].family, Req[t].role)
    /\ overruled' = overruled \cup ({user[Req[t].user].family} \ {None})
    /\ UNCHANGED <<code, family>>

CreateInvite(t) ==
    /\ Req[t].op \in {"invite", "adminInvite"} /\ Commits(t, Req[t].op)
    /\ code' = [code EXCEPT ![Req[t].code] =
                   [there |-> TRUE, family |-> tx[t].family, role |-> Req[t].role, uses |-> 0]]
    /\ UNCHANGED <<user, family, overruled>>

AdminCreateFamily(t) ==
    /\ Commits(t, "newFamily") /\ family' = [family EXCEPT ![Req[t].family] = "there"]
    /\ UNCHANGED <<user, code, overruled>>

AdminDeleteFamily(t) ==
    /\ Commits(t, "deleteFamily") /\ Dropped(tx[t].todo) /\ user' = Without(tx[t].todo)
    /\ UNCHANGED overruled

-----------------------------------------------------------------------------
(* PostgreSQL ends one of the transactions that wait for each other.       *)
Wants(t) == CASE tx[t].pc = "user" -> {U(Req[t].user)}
              [] tx[t].pc = "target" -> {U(Req[t].user)}
              [] tx[t].pc = "code" -> {C(Req[t].code)}
              [] tx[t].pc = "fk" -> {F(tx[t].family)}
              [] tx[t].pc = "family" -> {F(First(t))}
              [] tx[t].pc = "drop" -> {F(Req[t].family)}
              [] tx[t].pc = "cascade" -> Referring(tx[t].family) \ held[t]
              [] OTHER -> {}

Deadlocked(S) == \A t \in S : /\ Wants(t) # {}
                              /\ \A r \in Wants(t) : InTheWay(t, r) \cap S # {}

AbortDeadlock(t) ==
    /\ \E S \in SUBSET Open : t \in S /\ Deadlocked(S)
    /\ Ends(t, "aborted") /\ UNCHANGED <<rows, overruled>>

Begin(t) == \/ BeginOwnRow(t) \/ BeginAsMember(t) \/ BeginRegister(t) \/ BeginAsPlatform(t)

Locks(t) == \/ LockUser(t) \/ LockCode(t) \/ CheckForeignKey(t) \/ LockFamily(t)
            \/ LockTarget(t) \/ DropFamily(t) \/ Cascade(t)

Commit(t) == \/ CreateFamily(t) \/ LeaveFamily(t) \/ UpdateMemberRole(t) \/ AdminSetUserRole(t)
             \/ JoinFamily(t) \/ Register(t) \/ AdminCreateUser(t) \/ DeleteMe(t)
             \/ AdminMoveUser(t) \/ AdminMoveMember(t) \/ CreateInvite(t)
             \/ AdminCreateFamily(t) \/ AdminDeleteFamily(t)

Works(t) == Locks(t) \/ ReadCaller(t) \/ Count(t) \/ Commit(t)

Next == \E t \in Requests : Begin(t) \/ Works(t) \/ AbortDeadlock(t)

(* Some statement that can run is run; a deadlock is found (deadlock_timeout).*)
Fairness == WF_vars(\E t \in Requests : Works(t) \/ AbortDeadlock(t))

Spec == Init /\ [][Next]_vars /\ Fairness

-----------------------------------------------------------------------------
TypeOK ==
    /\ user \in [Users -> UserRow] /\ code \in [Codes -> CodeRow]
    /\ family \in [Families -> {"unused", "there", "gone"}]
    /\ tx \in [Requests -> Transaction]
    /\ held \in [Requests -> SUBSET Rows] /\ shared \in [Requests -> SUBSET Rows]
    /\ overruled \subseteq Families

(* LeaveFamily, DeleteMe, UpdateMemberRole, AdminUpdateUserRole and        *)
(* AdminAssignUser, at the same time and in any order, never leave members *)
(* in a family that had an admin and has none any more; AdminMoveMember    *)
(* alone, which overrides the guard, may.                                  *)
AdminIsKept ==
    [][\A f \in Families : Admins(f) # {} /\ Of(f)' # {} /\ f \notin overruled'
                              => Admins(f)' # {}]_vars

(* An invite is used at most max_uses times, and its uses are the accounts *)
(* that came in by it, whatever registrations and joins overlap or fail.   *)
InvitesAreCounted ==
    \A c \in Codes : code[c].there =>
        /\ code[c].uses <= MaxUses
        /\ code[c].uses = StartCodes[c].uses + Cardinality({t \in Requests :
               Req[t].op \in {"join", "register"} /\ Req[t].code = c /\ tx[t].pc = "done"})

(* Nobody is in a family that is gone, and no invite leads to one: a join, *)
(* a move or a new account that overlaps the family's deletion fails.      *)
FamilyOfMembersIsThere ==
    /\ \A u \in Users : user[u].there => user[u].family = None \/ There(user[u].family)
    /\ \A c \in Codes : code[c].there => There(code[c].family)

(* A role is changed by UpdateMemberRole only while its caller, if still   *)
(* of that family, is its admin, though the role was read statements ago.  *)
RoleNeedsAdmin ==
    [][\A t \in Requests :
          /\ UpdateMemberRole(t) /\ tx[t].family \notin overruled
          /\ Req[t].by \in Of(tx[t].family)
          => user[Req[t].by].role = "admin"]_vars

(* "Only admins may change roles": the caller is an admin of the family    *)
(* whose member's role is changed (family.go:412-416).                     *)
RoleNeedsAdminOfFamily ==
    [][\A t \in Requests : UpdateMemberRole(t) /\ tx[t].family \notin overruled =>
           Req[t].by \in Admins(tx[t].family)]_vars

(* Transactions that lock users before invites before families, in order   *)
(* of their ids, never wait for each other in a circle: a deadlock takes a *)
(* change of a role, or a family that is deleted.                          *)
OrderedNeverDeadlock ==
    \A S \in SUBSET {t \in Open : Req[t].op \notin {"role", "delete", "deleteFamily"}} :
        S # {} => ~Deadlocked(S)

(* Every request is answered, after a deadlock too, and keeps no lock.     *)
RequestsEnd == <>[](Open = {} /\ \A t \in Requests : held[t] = {} /\ shared[t] = {})
=============================================================================
