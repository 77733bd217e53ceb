--------------------------- MODULE GeofenceConfig ---------------------------
(***************************************************************************)
(* The configuration side of geofencing: the tables `places`, `geofences`, *)
(* `users.family_id` of one family, and the handlers that change them      *)
(* (backend/internal/handlers/geofence.go, place.go, family.go).  The      *)
(* handlers also own the reset of `geofence_states`, so the table of       *)
(* states (`row`) and the newest row of `geofence_events` (`told`) are     *)
(* declared here; GeofenceEngine says how evaluation changes them.         *)
(*                                                                         *)
(* A handler that runs in one transaction under a row lock is one action.  *)
(* UpdateGeofence is two, because it reads the fence before its            *)
(* transaction begins and decides with what it read.  UpdatePlace is one   *)
(* action per statement: it locks the fences the place has, and the rows   *)
(* others put beside them meanwhile are not locked.                        *)
(***************************************************************************)
EXTENDS Integers, FiniteSets

CONSTANTS
    Users,          \* accounts that are, or may be, in the family
    Everyone,       \* geofences.user_id IS NULL: a family-wide fence
    Fences,         \* ids of geofences rows
    Places,         \* ids of places rows
    Spots,          \* coordinates, as far as the places tell them apart
    Editors,        \* concurrent UpdateGeofence requests
    NoEdit,         \* no UpdateGeofence request is running
    Patches,        \* bodies an UpdateGeofence request may carry
    InitialFences,  \* what the geofences table may hold at the start
    InitialPlace,   \* the places table at the start
    Debounce,       \* geofenceDebounceInterval, in ticks
    MaxTs,          \* bound: fixes a device takes, numbered in time order
    MaxChanges      \* bound: configuration requests

Sides == {"in", "out"}
Kinds == {"enter", "exit"}
Never == -1                       \* last_notified_at IS NULL
Ages  == Never .. Debounce        \* ticks since an instant, saturating
RowStates == {"unused", "live", "deleted"}    \* ids are never used twice

FenceRecord == [state: RowStates, place: Places, user: Users \cup {Everyone},
                enter: BOOLEAN, exit: BOOLEAN, enabled: BOOLEAN]
PlaceRecord == [state: RowStates, alertable: BOOLEAN, area: SUBSET Spots]
PatchFields == {"place", "user", "enter", "exit", "enabled"}
PatchRecord == [fields: SUBSET PatchFields, to: FenceRecord]

(* A geofence_states row.  `basis` and `escaped` are history: the area     *)
(* that `inside` was computed against, and whether the row, of a fence     *)
(* that a place update had not locked, outlived that update's reset.       *)
(* inside = "none" stands for no row.                                      *)
StateRow == [inside: Sides \cup {"none"}, notified: Sides \cup {"unknown"},
             since: Ages, pendingTs: 0 .. MaxTs, lastSeen: 0 .. MaxTs,
             basis: SUBSET Spots, escaped: BOOLEAN]
NoRow == [inside |-> "none", notified |-> "unknown", since |-> Never,
          pendingTs |-> 0, lastSeen |-> 0, basis |-> {}, escaped |-> FALSE]

(* The newest geofence_events row of a (fence, user), and how many exist.  *)
Told == [kind: Kinds \cup {"none"}, ts: 0 .. MaxTs, age: Ages, count: Nat]
NothingTold == [kind |-> "none", ts |-> 0, age |-> Never, count |-> 0]

(* The transaction of a running UpdatePlace: the fences it has locked, the *)
(* states it has deleted (doomed: the delete is not committed), and the    *)
(* fences locked by a writer that waits for such a state (held).  `had` is *)
(* history: the fences the place had when the transaction locked them.     *)
Placing == [pc: {"idle", "locked", "reset"}, place: Places, alertable: BOOLEAN,
            area: SUBSET Spots, had: SUBSET Fences, locked: SUBSET Fences,
            held: SUBSET Fences, doomed: SUBSET (Fences \X Users)]
NoPlacing == [pc |-> "idle", place |-> CHOOSE p \in Places : TRUE, alertable |-> FALSE,
              area |-> {}, had |-> {}, locked |-> {}, held |-> {}, doomed |-> {}]

ASSUME ConfigAssumption ==
    /\ Places # {}
    /\ Everyone \notin Users
    /\ NoEdit \notin [fence: Fences, cur: FenceRecord, patch: PatchRecord]
    /\ InitialFences \subseteq [Fences -> FenceRecord]
    /\ InitialPlace \in [Places -> PlaceRecord]
    /\ \A p \in Patches : p \in PatchRecord /\ p.fields # {}
    /\ Debounce \in Nat \ {0}
    /\ MaxTs \in Nat \ {0}
    /\ MaxChanges \in Nat

VARIABLES
    fence,      \* geofences
    place,      \* places
    member,     \* users whose family_id is this family
    row,        \* geofence_states, by fence and user
    told,       \* geofence_events, by fence and user
    edit,       \* what each running UpdateGeofence read before its transaction
    placing,    \* the UpdatePlace that is in its transaction, one per family
    changes     \* configuration requests so far

cvars == <<fence, place, member, row, told, edit, placing, changes>>

EditRecord == [fence: Fences, cur: FenceRecord, patch: Patches]

ConfigTypeOK ==
    /\ fence \in [Fences -> FenceRecord]
    /\ place \in [Places -> PlaceRecord]
    /\ member \subseteq Users
    /\ row \in [Fences -> [Users -> StateRow]]
    /\ told \in [Fences -> [Users -> Told]]
    /\ edit \in [Editors -> EditRecord \cup {NoEdit}]
    /\ placing \in Placing
    /\ changes \in 0 .. MaxChanges

ConfigInit ==
    /\ fence \in InitialFences
    /\ place = InitialPlace
    /\ member = Users
    /\ row = [f \in Fences |-> [u \in Users |-> NoRow]]
    /\ told = [f \in Fences |-> [u \in Users |-> NothingTold]]
    /\ edit = [m \in Editors |-> NoEdit]
    /\ placing = NoPlacing
    /\ changes = 0

Live(f) == fence[f].state = "live"
Alertable(p) == place[p].state = "live" /\ place[p].alertable
FencesOf(p) == {f \in Fences : Live(f) /\ fence[f].place = p}

(* What a running UpdatePlace makes the others wait for: the family's row, *)
(* the rows of fences, the deleted states, and from its UPDATE on the      *)
(* place's row.                                                            *)
FamilyFree == placing.pc = "idle"
FenceFree(f) == f \notin placing.locked \cup placing.held
RowsFree(f) == \A u \in Users : <<f, u>> \notin placing.doomed
PlaceFree(p) == placing.pc # "reset" \/ placing.place # p

-----------------------------------------------------------------------------
(* The overlap rule (a place has family-wide fences or per-user fences,    *)
(* not both) and the unique indexes on (place_id, user_id).                *)
Overlaps(f, p, u) ==
    \E g \in Fences \ {f} : /\ Live(g)
                            /\ fence[g].place = p
                            /\ (fence[g].user = Everyone) # (u = Everyone)

Taken(f, p, u) ==
    \E g \in Fences \ {f} : Live(g) /\ fence[g].place = p /\ fence[g].user = u

DropRows(fs) == row' = [f \in Fences |-> IF f \in fs THEN [u \in Users |-> NoRow]
                                                     ELSE row[f]]

(* Deleting a fence cascades to its states and events.                     *)
DeleteFences(fs) ==
    /\ fence' = [f \in Fences |-> IF f \in fs THEN [fence[f] EXCEPT !.state = "deleted"]
                                              ELSE fence[f]]
    /\ DropRows(fs)
    /\ told' = [f \in Fences |-> IF f \in fs THEN [u \in Users |-> NothingTold]
                                             ELSE told[f]]

(* The place and the user are validated before the transaction; what may   *)
(* change in between (the user leaves, the radius is cleared) leads to a   *)
(* state that Leave and UpdatePlace reach anyway.  The insert refers to    *)
(* the family, so it waits while a place update holds the family's row.    *)
CreateGeofence(f, p, u, enter, exit) ==
    /\ FamilyFree
    /\ fence[f].state = "unused"
    /\ Alertable(p)
    /\ u # Everyone => u \in member
    /\ ~Overlaps(f, p, u)
    /\ ~Taken(f, p, u)
    /\ fence' = [fence EXCEPT ![f] = [state |-> "live", place |-> p, user |-> u,
                                      enter |-> enter, exit |-> exit, enabled |-> TRUE]]
    /\ UNCHANGED <<place, member, row, told, edit, placing>>

(* UpdateGeofence up to its transaction: read the row, validate the body.  *)
UpdateBegin(m, f, patch) ==
    /\ edit[m] = NoEdit
    /\ Live(f)
    /\ "place" \in patch.fields => Alertable(patch.to.place)
    /\ "user" \in patch.fields /\ patch.to.user # Everyone => patch.to.user \in member
    /\ edit' = [edit EXCEPT ![m] = [fence |-> f, cur |-> fence[f], patch |-> patch]]
    /\ UNCHANGED <<fence, place, member, row, told, placing>>

Patched(rec, patch) ==
    LET Pick(field, new, old) == IF field \in patch.fields THEN new ELSE old
        to == patch.to
    IN  [rec EXCEPT !.place   = Pick("place", to.place, rec.place),
                    !.user    = Pick("user", to.user, rec.user),
                    !.enter   = Pick("enter", to.enter, rec.enter),
                    !.exit    = Pick("exit", to.exit, rec.exit),
                    !.enabled = Pick("enabled", to.enabled, rec.enabled)]

(* The transaction is refused: the fence or the place is gone, the overlap *)
(* rule (on the effective place and user, from the STALE row) or a unique  *)
(* index (on the row as it is now) is broken.                              *)
Refused(m) ==
    LET f     == edit[m].fence
        patch == edit[m].patch
        eff   == Patched(edit[m].cur, patch)
        new   == Patched(fence[f], patch)
    IN  \/ ~Live(f)
        \/ /\ patch.fields \cap {"place", "user"} # {}
           /\ \/ place[eff.place].state # "live"
              \/ Overlaps(f, eff.place, eff.user)
        \/ Taken(f, new.place, new.user)

(* Whether the states are reset is decided against the STALE row too.      *)
ResetsRows(m) ==
    LET cur == edit[m].cur
        eff == Patched(cur, edit[m].patch)
    IN  \/ "enabled" \in edit[m].patch.fields /\ ~eff.enabled
        \/ eff.place # cur.place
        \/ eff.user # cur.user
        \/ eff.enter # cur.enter
        \/ eff.exit # cur.exit

UpdateCommit(m) ==
    /\ edit[m] # NoEdit
    /\ LET f == edit[m].fence
           patch == edit[m].patch
       IN  /\ FenceFree(f)
           /\ patch.fields \cap {"place", "user"} # {} =>
                 PlaceFree(Patched(edit[m].cur, patch).place)
           /\ \/ /\ Refused(m)
                 /\ UNCHANGED <<fence, row>>
              \/ /\ ~Refused(m)
                 /\ ResetsRows(m) => RowsFree(f)
                 /\ fence' = [fence EXCEPT ![f] = Patched(fence[f], patch)]
                 /\ DropRows(IF ResetsRows(m) THEN {f} ELSE {})
    /\ edit' = [edit EXCEPT ![m] = NoEdit]
    /\ UNCHANGED <<place, member, told, placing>>

(* The transaction fails: chosen to end a deadlock with a place update     *)
(* (each holds the row the other waits for), or the connection is lost.    *)
UpdateFails(m) ==
    /\ edit[m] # NoEdit
    /\ edit' = [edit EXCEPT ![m] = NoEdit]
    /\ UNCHANGED <<fence, place, member, row, told, placing>>

DeleteGeofence(f) ==
    /\ Live(f)
    /\ FenceFree(f) /\ RowsFree(f)
    /\ DeleteFences({f})
    /\ UNCHANGED <<place, member, edit, placing>>

(* Circles of one family do not overlap; a place without a radius has no   *)
(* circle.                                                                 *)
Fits(p, area) == \A q \in Places \ {p} : Alertable(q) => place[q].area \cap area = {}

CreatePlace(p, alertable, area) ==
    /\ FamilyFree
    /\ place[p].state = "unused"
    /\ alertable => Fits(p, area)
    /\ place' = [place EXCEPT ![p] = [state |-> "live", alertable |-> alertable, area |-> area]]
    /\ UNCHANGED <<fence, member, row, told, edit, placing>>

(* Mutant: the fences of the place are not locked.                         *)
PlaceLockNone(p, alertable, area) ==
    /\ FamilyFree
    /\ place[p].state = "live"
    /\ alertable => Fits(p, area)
    /\ placing' = [NoPlacing EXCEPT !.pc = "locked", !.place = p, !.alertable = alertable,
                                    !.area = area, !.had = FencesOf(p)]
    /\ UNCHANGED <<fence, place, member, row, told, edit>>

(* UpdatePlace with a changed geometry or radius (any other update leaves  *)
(* everything modelled here alone).  The family's row is locked first, the *)
(* circles are compared, then the fences the place has are locked.         *)
PlaceLock(p, alertable, area) ==
    /\ FamilyFree
    /\ place[p].state = "live"
    /\ alertable => Fits(p, area)
    /\ placing' = [NoPlacing EXCEPT !.pc = "locked", !.place = p, !.alertable = alertable,
                                    !.area = area, !.had = FencesOf(p), !.locked = FencesOf(p)]
    /\ UNCHANGED <<fence, place, member, row, told, edit>>

(* The place's row and the states of the fences it has by now are written. *)
(* Until the commit others read the place and the states as they were.     *)
PlaceReset ==
    /\ placing.pc = "locked"
    /\ place[placing.place].state = "live"
    /\ placing' = [placing EXCEPT !.pc = "reset",
                      !.doomed = {fu \in FencesOf(placing.place) \X Users :
                                     row[fu[1]][fu[2]].inside # "none"}]
    /\ UNCHANGED <<fence, place, member, row, told, edit>>

AfterReset(f, u) ==
    CASE <<f, u>> \in placing.doomed -> NoRow
      [] f \in FencesOf(placing.place) \ placing.had /\ row[f][u].inside # "none"
             /\ <<f, u>> \notin placing.doomed -> [row[f][u] EXCEPT !.escaped = TRUE]
      [] OTHER -> row[f][u]

PlaceCommit ==
    /\ placing.pc = "reset"
    /\ place' = [place EXCEPT ![placing.place] =
                     [state |-> "live", alertable |-> placing.alertable, area |-> placing.area]]
    /\ row' = [f \in Fences |-> [u \in Users |-> AfterReset(f, u)]]
    /\ placing' = NoPlacing
    /\ UNCHANGED <<fence, member, told, edit>>

(* The place is gone, a deadlock or an error ends the transaction.         *)
PlaceRollback ==
    /\ placing.pc # "idle"
    /\ placing' = NoPlacing
    /\ UNCHANGED <<fence, place, member, row, told, edit>>

DeletePlace(p) ==
    /\ place[p].state = "live"
    /\ PlaceFree(p)
    /\ \A f \in FencesOf(p) : FenceFree(f) /\ RowsFree(f)
    /\ DeleteFences(FencesOf(p))
    /\ place' = [place EXCEPT ![p].state = "deleted"]
    /\ UNCHANGED <<member, edit, placing>>

(* users.family_id changes; nothing else in these tables does.  Both lock  *)
(* or refer to the family's row.                                           *)
LeaveFamily(u) ==
    /\ FamilyFree
    /\ u \in member
    /\ member' = member \ {u}
    /\ UNCHANGED <<fence, place, row, told, edit, placing>>

JoinFamily(u) ==
    /\ FamilyFree
    /\ u \in Users \ member
    /\ member' = member \cup {u}
    /\ UNCHANGED <<fence, place, row, told, edit, placing>>

Request ==
    \/ \E f \in Fences, p \in Places, u \in Users \cup {Everyone}, en, ex \in BOOLEAN :
          CreateGeofence(f, p, u, en, ex)
    \/ \E m \in Editors, f \in Fences, patch \in Patches : UpdateBegin(m, f, patch)
    \/ \E f \in Fences : DeleteGeofence(f)
    \/ \E p \in Places, a \in BOOLEAN, area \in SUBSET Spots :
          CreatePlace(p, a, area) \/ PlaceLock(p, a, area)
    \/ \E p \in Places : DeletePlace(p)
    \/ \E u \in Users : LeaveFamily(u) \/ JoinFamily(u)

ConfigNext ==
    \/ changes < MaxChanges /\ changes' = changes + 1 /\ Request
    \/ UNCHANGED changes /\ \E m \in Editors : UpdateCommit(m) \/ UpdateFails(m)
    \/ UNCHANGED changes /\ (PlaceReset \/ PlaceCommit \/ PlaceRollback)
=============================================================================
