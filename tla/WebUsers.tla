------------------------------- MODULE WebUsers -------------------------------
(***************************************************************************)
(* The users page of a platform administrator (UsersPage.tsx): a list of   *)
(* accounts, copied into the page's own state, where the answers of its    *)
(* edits replace single rows.  One account is followed, which others change*)
(* too (other administrators, its family's, its user), and the creation of *)
(* another.  The list of families is fetched alike, and left out, and so   *)
(* are the deletion of accounts and what others create.                    *)
(***************************************************************************)
EXTENDS WebAsync, Integers

CONSTANTS
    UserFamilies, UserRoles,
    MaxUserRev      \* bound: changes of the accounts

ASSUME UsersAssumption == UserFamilies # {} /\ UserRoles # {}

VARIABLES
    userDb,         \* the server: the account's family and role and how often
                    \* they were changed, and whether the other account exists
    users           \* the page

userVars == <<userDb, users>>

NoSave == [stage |-> "none", want |-> {}, served |-> FALSE, got |-> {}, done |-> FALSE]

(* shown is the account's row, at most one; others counts the rows of the  *)
(* account that is being created.  The rest is history.  applied: the      *)
(* account's revision when the server had done the page's latest call.     *)
(* lapped: an edit has overlapped with the list's query; mixed: the list   *)
(* shown was read by such a query, or a creation was done whose answer was *)
(* lost since.  halfway: a save has failed one of whose calls was done.    *)
NoUsers == [mounted |-> FALSE, list |-> NoAsync, shown |-> {}, save |-> NoSave,
            create |-> "none", others |-> 0, applied |-> 0,
            lapped |-> FALSE, mixed |-> FALSE, halfway |-> FALSE]
UserDb0 == [family |-> CHOOSE f \in UserFamilies : TRUE, role |-> CHOOSE r \in UserRoles : TRUE,
            rev |-> 0, other |-> FALSE]

UsersInit == userDb = UserDb0 /\ users = NoUsers

Account(db) == [family |-> db.family, role |-> db.role, rev |-> db.rev]
Changes(db) == db.rev + (IF db.other THEN 1 ELSE 0)
Editing(u) == u.save.stage # "none" \/ u.create # "none"

-----------------------------------------------------------------------------
MountUsers ==
    /\ ~users.mounted
    /\ users' = [NoUsers EXCEPT !.mounted = TRUE, !.list = NewAsync]
    /\ UNCHANGED userDb

UnmountUsers == users.mounted /\ users' = NoUsers /\ userDb' = UserDb0

(* The page's effect: the rows follow the list's data.                     *)
Listed(u, list) ==
    IF u.list.at = "read" /\ SettledAsync(list)
    THEN [u EXCEPT !.list = [list EXCEPT !.data = {}],
                   !.shown = {Account(d) : d \in list.data},
                   !.others = IF \E d \in list.data : d.other THEN 1 ELSE 0,
                   !.mixed = u.lapped, !.halfway = FALSE]
    ELSE [u EXCEPT !.list = list]

UserListStep ==
    /\ \E a \in AsyncSteps(users.list, userDb) : users' = Listed(users, a)
    /\ UNCHANGED userDb

(* A superseded answer is dropped, and left out here.                      *)
RefreshUsers ==
    /\ users.shown # {} \/ users.list.failed
    /\ users' = [users EXCEPT !.list = NewAsync, !.lapped = Editing(users)]
    /\ UNCHANGED userDb

-----------------------------------------------------------------------------
(* save: the family, and then the role, of what the form holds, each if it *)
(* differs from the row; the form starts from the row, and may be set to   *)
(* anything.                                                               *)

(* Mutant: the row's handler does not tell the page, onUpdated.            *)
SavedUntold(u, row) ==
    [u EXCEPT !.save = NoSave, !.halfway = @ /\ ~u.save.done]

Saved(u, row) ==
    [u EXCEPT !.shown = row, !.save = NoSave, !.halfway = @ /\ ~u.save.done]

RoleNext(u, row) ==
    IF \E w \in u.save.want, r \in row : w.role # r.role
    THEN [u EXCEPT !.save.stage = "role", !.save.served = FALSE, !.save.got = {}]
    ELSE Saved(u, row)

Save ==
    /\ users.save = NoSave /\ users.shown # {} /\ ~users.list.failed
    /\ \E w \in [family : UserFamilies, role : UserRoles] :
          LET u == [users EXCEPT !.save = [NoSave EXCEPT !.want = {w}]]
              v == IF \E r \in u.shown : w.family # r.family
                   THEN [u EXCEPT !.save.stage = "assign"]
                   ELSE RoleNext(u, u.shown)
          IN  users' = [v EXCEPT !.lapped = @ \/ Editing(v)]
    /\ UNCHANGED userDb

(* AdminAssignUser, AdminUpdateUserRole: the transaction, and after it the *)
(* account is read for the answer.                                         *)
SaveServed ==
    /\ users.save.stage \in {"assign", "role"} /\ ~users.save.served
    /\ Changes(userDb) < MaxUserRev
    /\ \E w \in users.save.want :
          userDb' = IF users.save.stage = "assign"
                    THEN [userDb EXCEPT !.family = w.family, !.rev = @ + 1]
                    ELSE [userDb EXCEPT !.role = w.role, !.rev = @ + 1]
    /\ users' = [users EXCEPT !.save.served = TRUE, !.save.done = TRUE, !.applied = userDb'.rev]

SaveRead ==
    /\ users.save.served /\ users.save.got = {}
    /\ users' = [users EXCEPT !.save.got = {Account(userDb)}]
    /\ UNCHANGED userDb

SaveAnswered ==
    /\ users.save.got # {}
    /\ users' = IF users.save.stage = "assign" THEN RoleNext(users, users.save.got)
                ELSE Saved(users, users.save.got)
    /\ UNCHANGED userDb

(* catch: refused, or lost, before or after it was done.                   *)
SaveFails ==
    /\ users.save # NoSave
    /\ users' = [users EXCEPT !.save = NoSave, !.halfway = @ \/ users.save.done]
    /\ UNCHANGED userDb

(* Somebody else moves the account or changes its role.                    *)
OthersEditUser ==
    /\ users.mounted /\ Changes(userDb) < MaxUserRev
    /\ \E w \in [family : UserFamilies, role : UserRoles] :
          /\ w.family # userDb.family \/ w.role # userDb.role
          /\ userDb' = [userDb EXCEPT !.family = w.family, !.role = w.role, !.rev = @ + 1]
    /\ UNCHANGED users

(* submit of the creation form, its answer appended to the rows.           *)
CreateUser ==
    /\ users.shown # {} /\ users.create = "none" /\ ~users.list.failed /\ ~userDb.other
    /\ users' = [users EXCEPT !.create = "sent", !.lapped = TRUE]
    /\ UNCHANGED userDb

CreateServed ==
    /\ users.create = "sent" /\ Changes(userDb) < MaxUserRev
    /\ userDb' = [userDb EXCEPT !.other = TRUE]
    /\ users' = [users EXCEPT !.create = "applied"]

CreateAnswered ==
    /\ users.create = "applied"
    /\ users' = [users EXCEPT !.create = "none", !.others = @ + 1]
    /\ UNCHANGED userDb

CreateFails ==
    /\ users.create # "none"
    /\ users' = [users EXCEPT !.create = "none", !.mixed = @ \/ users.create = "applied"]
    /\ UNCHANGED userDb

UsersNext ==
    \/ UserListStep \/ RefreshUsers
    \/ Save \/ SaveServed \/ SaveRead \/ SaveAnswered \/ SaveFails \/ OthersEditUser
    \/ CreateUser \/ CreateServed \/ CreateAnswered \/ CreateFails

(* The page opens and is left.                                             *)
UsersSpec == UsersInit /\ [][UsersNext \/ MountUsers \/ UnmountUsers]_userVars

-----------------------------------------------------------------------------
(* Between the user's own edits the row is never older than the last of    *)
(* their calls that the server has done, and nothing but what the server   *)
(* has stored unless somebody has changed the account since; and an account*)
(* created is there once (UsersPage.tsx:36-38, 74-76, 101-105, 275-293).   *)
(* Excepted until the next refresh are an edit that overlapped with a      *)
(* refresh, a creation whose answer was lost and a save that failed when   *)
(* one of its calls was done.                                              *)
RowsFit(u) == \A r \in u.shown : r.rev >= u.applied /\ (r.rev = userDb.rev => r = Account(userDb))

RowsFollowSaves ==
    users.shown # {} /\ ~Editing(users) /\ ~users.mixed /\ ~users.halfway
    => RowsFit(users) /\ users.others = (IF userDb.other THEN 1 ELSE 0)

(* The last exception is the code's: a row is saved by two calls, and if   *)
(* the second fails the row keeps what it showed before the first          *)
(* (UsersPage.tsx:279-288).                                                *)
FailedSavesAreShown == users.shown # {} /\ ~Editing(users) /\ ~users.mixed => RowsFit(users)
=============================================================================
