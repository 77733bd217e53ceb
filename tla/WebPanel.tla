------------------------------- MODULE WebPanel -------------------------------
(***************************************************************************)
(* The pages of the web panel together (App.tsx, renderPage): a hash       *)
(* change closes one page and opens another, at any time.  A page left     *)
(* while its calls are under way must let go of what they bring, and find  *)
(* the world as it is when it is opened again.                             *)
(*                                                                         *)
(* The map and its bubbles, the families and the photos of their members,  *)
(* the account and the server updates are drawn on one page each; they     *)
(* share no state, and are opened here by themselves.                      *)
(***************************************************************************)
EXTENDS WebMap, WebClusters, WebFamilies, WebCircle, WebAvatars, WebUsers, WebHistory,
        WebProfile, WebUpdates

VARIABLE page

panelVars == <<page, mapVars, view, famVars, circleVars, photoVars, userVars, hist,
               accountVars, updateVars>>

PanelInit ==
    /\ page = "none"
    /\ MapInit /\ ViewInit /\ FamInit /\ CircleInit /\ PhotoInit /\ UsersInit /\ HistoryInit
    /\ AccountInit /\ UpdatesInit

(* The calls of the page left are answered before the next one is opened:  *)
(* no two pages share state, so their answers would not meet.              *)
Drained == stale = 0 /\ photo.loads = {} /\ account = NoAccount /\ accountDb = AccountDb0

Opens(p) == page = "none" /\ Drained /\ page' = p
Leaves(p) == page = p /\ page' = "none"

Only(p) ==
    /\ IF p = "map" THEN TRUE ELSE UNCHANGED mapVars
    /\ IF p = "bubbles" THEN TRUE ELSE UNCHANGED view
    /\ IF p = "families" THEN TRUE ELSE UNCHANGED famVars
    /\ IF p = "circle" THEN TRUE ELSE UNCHANGED circleVars
    /\ IF p = "photos" THEN TRUE ELSE UNCHANGED photoVars
    /\ IF p = "users" THEN TRUE ELSE UNCHANGED userVars
    /\ IF p = "history" THEN TRUE ELSE UNCHANGED hist
    /\ IF p = "account" THEN TRUE ELSE UNCHANGED accountVars
    /\ IF p = "updates" THEN TRUE ELSE UNCHANGED updateVars

-----------------------------------------------------------------------------
(* What happens while a page is open, or after it has been left.           *)
Works ==
    /\ UNCHANGED page
    /\ \/ MapNext /\ Only("map")
       \/ ViewNext /\ Only("bubbles")
       \/ FamiliesNext /\ Only("families")
       \/ CircleNext /\ Only("circle")
       \/ PhotosNext /\ Only("photos")
       \/ UsersNext /\ Only("users")
       \/ HistoryNext /\ Only("history")
       \/ AccountNext /\ Only("account")
       \/ UpdatesNext /\ Only("updates")

Open ==
    \/ Opens("map") /\ MountMap /\ Only("map")
    \/ Opens("bubbles") /\ MountView /\ Only("bubbles")
    \/ Opens("families") /\ MountFamilies /\ Only("families")
    \/ Opens("circle") /\ MountCircle /\ Only("circle")
    \/ Opens("photos") /\ MountPhotos /\ Only("photos")
    \/ Opens("users") /\ MountUsers /\ Only("users")
    \/ Opens("history") /\ MountHistory /\ Only("history")
    \/ Opens("account") /\ MountAccount /\ Only("account")
    \/ Opens("updates") /\ MountUpdates /\ Only("updates")

Leave ==
    \/ Leaves("map") /\ UnmountMap /\ Only("map")
    \/ Leaves("bubbles") /\ UnmountView /\ Only("bubbles")
    \/ Leaves("families") /\ UnmountFamilies /\ Only("families")
    \/ Leaves("circle") /\ UnmountCircle /\ Only("circle")
    \/ Leaves("photos") /\ UnmountPhotos /\ Only("photos")
    \/ Leaves("users") /\ UnmountUsers /\ Only("users")
    \/ Leaves("history") /\ UnmountHistory /\ Only("history")
    \/ Leaves("account") /\ UnmountAccount /\ Only("account")
    \/ Leaves("updates") /\ UnmountUpdates /\ Only("updates")

PanelNext == Works \/ Open \/ Leave

PanelSpec ==
    PanelInit /\ [][PanelNext]_panelVars /\ WF_mapVars(Tick) /\ UpdatesFairness
=============================================================================
