------------------------------ MODULE WebProfile ------------------------------
(***************************************************************************)
(* The account card of the settings page (SettingsPage.tsx): the profile   *)
(* and, if it has one, the photo are loaded together; the upload or the    *)
(* removal of the photo ends with a load, and the name is saved on its own.*)
(* requestVersion lets the last load begun land and no other.  The account *)
(* is edited here only.                                                    *)
(***************************************************************************)
EXTENDS Integers, FiniteSets

CONSTANTS
    AccountNames,
    MaxPics         \* bound: changes of the photo

ASSUME AccountAssumption == AccountNames # {}

VARIABLES
    accountDb,      \* the server: name, revision of the photo, whether there is one
    account         \* the page

accountVars == <<accountDb, account>>

(* loads are [latest, ends, at, name, has, pic, crossed]: ends says that a *)
(* photo's mutation awaits it, crossed (history) that a name was being     *)
(* saved meanwhile.  url is the photo of avatarObjectUrlRef, live counts   *)
(* the object URLs not revoked.  lost and mixed are history: a photo's     *)
(* mutation, or a saved name, may have been applied unseen.                *)
NoAccount ==
    [mounted |-> FALSE, profile |-> {}, url |-> {}, live |-> 0, loads |-> {}, failed |-> FALSE,
     mutation |-> "none", stage |-> "none", saving |-> {}, lost |-> FALSE, mixed |-> FALSE]

AccountDb0 == [name |-> CHOOSE n \in AccountNames : TRUE, pic |-> 0, has |-> FALSE]

AccountInit == accountDb = AccountDb0 /\ account = NoAccount

NewLoad(p, ends) ==
    [latest |-> TRUE, ends |-> ends, at |-> "profile", name |-> {}, has |-> FALSE, pic |-> 0,
     crossed |-> p.saving # {}]

(* refreshProfile: the loads before it are of an older version.            *)
LoadBegun(p, ends) ==
    [p EXCEPT !.loads = {[l EXCEPT !.latest = FALSE] : l \in @} \cup {NewLoad(p, ends)},
              !.failed = FALSE, !.lost = FALSE]

-----------------------------------------------------------------------------
(* Opened once the calls of the page before are answered.                  *)
MountAccount ==
    /\ account = NoAccount
    /\ accountDb' \in {AccountDb0, [AccountDb0 EXCEPT !.pic = 1, !.has = TRUE]}
    /\ account' = LoadBegun([NoAccount EXCEPT !.mounted = TRUE], FALSE)

(* The cleanups: the URL is revoked, and what is being loaded ignored.     *)
UnmountAccount ==
    /\ account.mounted
    /\ account' = [account EXCEPT !.mounted = FALSE, !.profile = {}, !.url = {},
                      !.live = @ - Cardinality(account.url),
                      !.loads = {[l EXCEPT !.latest = FALSE] : l \in @}]
    /\ UNCHANGED accountDb

(* All is answered: what a closed page leaves is looked at no more.        *)
ForgetAccount ==
    /\ ~account.mounted /\ <<accountDb, account>> # <<AccountDb0, NoAccount>>
    /\ account.loads = {} /\ account.mutation = "none" /\ account.saving = {}
    /\ accountDb' = AccountDb0 /\ account' = NoAccount

(* loadProfileWithAvatar: GetProfile, then GetAvatar; 404 is no photo.     *)
ProfileServed ==
    /\ \E l \in account.loads :
          /\ l.at \in {"profile", "photo"}
          /\ LET m == IF l.at = "profile"
                      THEN [l EXCEPT !.name = {accountDb.name}, !.has = accountDb.has,
                                     !.at = IF accountDb.has THEN "photo" ELSE "loaded"]
                      ELSE [l EXCEPT !.has = accountDb.has, !.pic = accountDb.pic,
                                     !.at = "loaded"]
             IN  account' = [account EXCEPT !.loads = (@ \ {l}) \cup {m}]
    /\ UNCHANGED accountDb

(* replaceAvatarUrl.                                                       *)
UrlReplaced(p, url) ==
    [p EXCEPT !.url = url, !.live = @ + Cardinality(url) - Cardinality(p.url)]

Taken(p, l) ==
    UrlReplaced([p EXCEPT !.profile = {[name |-> n, has |-> l.has] : n \in l.name},
                          !.mixed = l.crossed],
                IF l.has THEN {l.pic} ELSE {})

(* Mutant: whichever load comes in is shown.                               *)
LandedLast(p, l) == Taken(p, l)

Landed(p, l) == IF l.latest THEN Taken(p, l) ELSE p

(* The mutation that has awaited the load is over.                         *)
Ended(p, l) ==
    [p EXCEPT !.loads = @ \ {l},
              !.mutation = IF l.ends THEN "none" ELSE @, !.stage = IF l.ends THEN "none" ELSE @]

ProfileAnswered ==
    /\ \E l \in account.loads :
          /\ l.at = "loaded"
          /\ account' = Landed(Ended(account, l), l)
    /\ UNCHANGED accountDb

ProfileFails ==
    /\ \E l \in account.loads :
          account' = [Ended(account, l) EXCEPT !.failed = @ \/ l.latest]
    /\ UNCHANGED accountDb

(* "Try again".                                                            *)
RetryAccount ==
    /\ account.mounted /\ account.failed
    /\ account' = LoadBegun(account, FALSE)
    /\ UNCHANGED accountDb

-----------------------------------------------------------------------------
(* onFileChange with an image that is accepted, and removeAvatar.          *)
ChangePicture ==
    /\ account.mounted /\ account.profile # {} /\ account.mutation = "none"
    /\ accountDb.pic < MaxPics
    /\ \E m \in {"upload"} \cup {"remove" : q \in {q \in account.profile : q.has}} :
          account' = [account EXCEPT !.mutation = m, !.stage = "sent"]
    /\ UNCHANGED accountDb

PictureServed ==
    /\ account.stage = "sent"
    /\ accountDb' = [accountDb EXCEPT !.pic = @ + 1, !.has = account.mutation = "upload"]
    /\ account' = [account EXCEPT !.stage = "applied"]

PictureAnswered ==
    /\ account.stage = "applied"
    /\ account' = [LoadBegun(account, TRUE) EXCEPT !.stage = "loading"]
    /\ UNCHANGED accountDb

PictureFails ==
    /\ account.stage \in {"sent", "applied"}
    /\ account' = [account EXCEPT !.mutation = "none", !.stage = "none",
                                  !.lost = @ \/ account.stage = "applied"]
    /\ UNCHANGED accountDb

(* saveName: not for the name that the page shows.                         *)
SaveName ==
    /\ account.mounted /\ account.saving = {}
    /\ \E n \in AccountNames, q \in account.profile :
          /\ n # q.name
          /\ account' = [account EXCEPT !.saving = {[name |-> n, done |-> FALSE]},
                                        !.loads = {[l EXCEPT !.crossed = TRUE] : l \in @}]
    /\ UNCHANGED accountDb

NameServed ==
    \E s \in account.saving :
       /\ ~s.done
       /\ accountDb' = [accountDb EXCEPT !.name = s.name]
       /\ account' = [account EXCEPT !.saving = {[s EXCEPT !.done = TRUE]}]

NameAnswered ==
    /\ \E s \in account.saving :
          /\ s.done
          /\ account' = [account EXCEPT !.saving = {},
                            !.profile = {[q EXCEPT !.name = s.name] : q \in @}]
    /\ UNCHANGED accountDb

NameFails ==
    /\ \E s \in account.saving : account' = [account EXCEPT !.saving = {}, !.mixed = @ \/ s.done]
    /\ UNCHANGED accountDb

AccountNext ==
    \/ ProfileServed \/ ProfileAnswered \/ ProfileFails \/ RetryAccount
    \/ ChangePicture \/ PictureServed \/ PictureAnswered \/ PictureFails
    \/ SaveName \/ NameServed \/ NameAnswered \/ NameFails \/ ForgetAccount

(* The page opens and is left.                                             *)
AccountSpec == AccountInit /\ [][AccountNext \/ MountAccount \/ UnmountAccount]_accountVars

-----------------------------------------------------------------------------
(* However uploads, removals and retries overlap, no object URL but the    *)
(* recorded one is held; and when no load and no mutation is under way and *)
(* none has failed, the card shows the server's photo and, unless its save *)
(* overlapped with a load, the server's name (SettingsPage.tsx:145-188).   *)
ProfileIsCurrent ==
    /\ account.live = Cardinality(account.url)
    /\ /\ account.profile # {} /\ ~\E l \in account.loads : l.latest
       /\ ~account.failed /\ ~account.lost /\ account.mutation = "none"
       => /\ account.url = IF accountDb.has THEN {accountDb.pic} ELSE {}
          /\ \A q \in account.profile :
                /\ q.has = accountDb.has
                /\ account.saving = {} /\ ~account.mixed => q.name = accountDb.name
=============================================================================
