------------------------------ MODULE WebAvatars ------------------------------
(***************************************************************************)
(* The photo of a member on the families pages: its revision comes with    *)
(* the member's row and, newer, from the stream (useAvatarUpdates); its    *)
(* bytes are loaded for that revision into an object URL of the browser,   *)
(* which lives until it is revoked (useMemberAvatarUrls.ts).               *)
(*                                                                         *)
(* A revision is [rev, has]: removing a photo is a revision too.  The      *)
(* effect runs again with every change of what is shown, in the step that  *)
(* changes it.                                                             *)
(***************************************************************************)
EXTENDS WebAsync, Integers, FiniteSets

CONSTANTS MaxPhoto      \* bound: changes of the photo

VARIABLES
    photoDb,        \* the server's revision
    photoFrames,    \* `avatar` frames on their way; they may overtake each other
    photo           \* the page

photoVars == <<photoDb, photoFrames, photo>>

NoPhoto == [rev |-> 0, has |-> FALSE]

(* loads are [key, active, bytes], bytes = 0 until the server has read     *)
(* them; urls the records of the hook, live the object URLs not revoked.   *)
NoPhotoPage == [mounted |-> FALSE, row |-> NoAsync, updates |-> {}, loads |-> {},
                urls |-> {}, live |-> 0, missed |-> FALSE]

PhotoInit == photoDb = NoPhoto /\ photoFrames = {} /\ photo = NoPhotoPage

-----------------------------------------------------------------------------
(* displayedMembers: the row, under a strictly newer update.               *)
Overlaid(row, updates) ==
    IF \E u \in updates : u.rev > row.rev THEN CHOOSE u \in updates : TRUE ELSE row

(* What is asked for: no photo while the rows are loading or have failed.  *)
Wanted(p) == {k \in {Overlaid(r, p.updates) : r \in p.row.data} : k.has}

(* Mutant: the URLs of photos that are shown no more are forgotten.        *)
DroppedWithoutRevoking(p, key) == [p EXCEPT !.urls = {u \in @ : u.key \in key}]

(* Records of another key are revoked and removed.                         *)
Dropped(p, key) ==
    [p EXCEPT !.urls = {u \in @ : u.key \in key},
              !.live = @ - Cardinality({u \in p.urls : u.key \notin key})]

(* The cleanup of the last effect, and the next one.                       *)
Effected(p) ==
    LET q == Dropped(p, Wanted(p))
    IN  [q EXCEPT !.loads =
            {[l EXCEPT !.active = FALSE] : l \in @}
            \cup {[key |-> k, active |-> TRUE, bytes |-> 0] :
                  k \in Wanted(p) \ {u.key : u \in q.urls}}]

Shows(p, q) == IF Wanted(p) = Wanted(q) THEN q ELSE Effected(q)

-----------------------------------------------------------------------------
MountPhotos ==
    /\ ~photo.mounted /\ photo.loads = {}
    /\ photoDb' \in {NoPhoto, [rev |-> 1, has |-> TRUE]}
    /\ photo' = [NoPhotoPage EXCEPT !.mounted = TRUE, !.row = NewAsync]
    /\ UNCHANGED photoFrames

(* Unmounting revokes what is recorded; loads under way end unmounted.     *)
UnmountPhotos ==
    /\ photo.mounted
    /\ photo' = [Dropped(photo, {}) EXCEPT !.mounted = FALSE, !.row = NoAsync, !.updates = {},
                    !.missed = FALSE, !.loads = {[l EXCEPT !.active = FALSE] : l \in @}]
    /\ photoFrames' = {} /\ photoDb' = NoPhoto

PhotoRows ==
    /\ \/ \E a \in AsyncSteps(photo.row, photoDb) :
             photo' = Shows(photo, [photo EXCEPT !.row = a])
       \/ /\ photo.mounted /\ photo.row.at = "none"
          /\ photo' = [photo EXCEPT !.row = Refetched(@, photoDb)]
    /\ UNCHANGED <<photoDb, photoFrames>>

(* The member sets or removes the photo; the change is broadcast.          *)
ChangePhoto ==
    /\ photo.mounted /\ photoDb.rev < MaxPhoto
    /\ \E has \in BOOLEAN : photoDb' = [rev |-> photoDb.rev + 1, has |-> has]
    /\ photoFrames' = photoFrames \cup {photoDb'}
    /\ UNCHANGED photo

(* Mutant: the last frame to come is taken.                                *)
UpdatedBlindly(updates, frame) == {frame}

(* setUpdates.                                                             *)
Updated(updates, frame) ==
    IF \E u \in updates : frame.rev <= u.rev THEN updates ELSE {frame}

OnAvatarFrame ==
    /\ \E frame \in photoFrames :
          /\ photoFrames' = photoFrames \ {frame}
          /\ photo' = Shows(photo, [photo EXCEPT !.updates = Updated(@, frame)])
    /\ UNCHANGED photoDb

(* The stream is down when the frame is broadcast: it is missed.           *)
MissFrame ==
    /\ \E frame \in photoFrames : photoFrames' = photoFrames \ {frame}
    /\ photo' = [photo EXCEPT !.missed = TRUE]
    /\ UNCHANGED photoDb

(* A new token: the updates are dropped, and the stream is opened again.   *)
UpdatesReset ==
    /\ photo.updates # {}
    /\ photo' = Shows(photo, [photo EXCEPT !.updates = {}, !.missed = TRUE])
    /\ UNCHANGED <<photoDb, photoFrames>>

(* GetAvatar answers with the photo of the moment; the load of a photo that*)
(* is gone, or a lost one, leaves the initials.                            *)
LoadRead ==
    /\ photoDb.has
    /\ \E l \in photo.loads :
          /\ l.bytes = 0
          /\ photo' = [photo EXCEPT !.loads = (@ \ {l}) \cup {[l EXCEPT !.bytes = photoDb.rev]}]
    /\ UNCHANGED <<photoDb, photoFrames>>

LoadLost ==
    /\ \E l \in photo.loads :
          photo' = [photo EXCEPT !.loads = @ \ {l}, !.missed = @ \/ (photoDb.has /\ l.active)]
    /\ UNCHANGED <<photoDb, photoFrames>>

(* A URL is created for the bytes, and the one it replaces is revoked.     *)
Kept(p, l) ==
    IF ~l.active THEN p
    ELSE [p EXCEPT !.urls = {[key |-> l.key, bytes |-> l.bytes]},
                   !.live = @ + 1 - Cardinality(p.urls)]

PhotoLoaded ==
    /\ \E l \in photo.loads :
          /\ l.bytes # 0
          /\ photo' = Kept([photo EXCEPT !.loads = @ \ {l}], l)
    /\ UNCHANGED <<photoDb, photoFrames>>

PhotosNext ==
    \/ PhotoRows \/ ChangePhoto \/ OnAvatarFrame \/ MissFrame \/ UpdatesReset
    \/ LoadRead \/ LoadLost \/ PhotoLoaded

(* The page opens and is left.                                             *)
PhotosSpec == PhotoInit /\ [][PhotosNext \/ MountPhotos \/ UnmountPhotos]_photoVars

-----------------------------------------------------------------------------
(* "removed members and unmounting revoke their URLs so browser memory is  *)
(* not retained" (useMemberAvatarUrls.ts:40-42): whichever loads are under *)
(* way, the live URLs are the ones recorded, and a closed page has none.   *)
OnlyShownPhotosAreHeld ==
    /\ photo.live = Cardinality(photo.urls)
    /\ ~photo.mounted => photo.live = 0

(* A photo is shown for the revision that is wanted and is never older     *)
(* than it; and once every frame and load has come in, none missed, it is  *)
(* the server's (FamiliesPage.tsx:337-339, 156-164).                       *)
PhotosAreCurrent ==
    /\ \A u \in photo.urls : u.key \in Wanted(photo) /\ u.bytes >= u.key.rev
    /\ /\ SettledAsync(photo.row) /\ photo.row.data # {} /\ ~photo.missed
       /\ photoFrames = {} /\ ~\E l \in photo.loads : l.active
       => {u.bytes : u \in photo.urls} = IF photoDb.has THEN {photoDb.rev} ELSE {}
=============================================================================
