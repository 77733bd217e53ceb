------------------------------- MODULE WebStatus -------------------------------
(***************************************************************************)
(* How the panel's map derives what it shows of a member (status.ts): from *)
(* a row of the server, and then frame by frame.                           *)
(*                                                                         *)
(* A position is a spot, or "none"; a saved place covers spots.  Battery,  *)
(* accuracy and motion are the classes the code tells apart, "none" where  *)
(* the field is absent.  Times are numbers, None for null.                 *)
(***************************************************************************)
EXTENDS Integers

CONSTANTS
    Stale,          \* STALE_AFTER_MS, in units of the clock
    Places          \* saved places: [name, covers, radius]

ASSUME StatusAssumption ==
    /\ Stale \in Nat
    /\ \A p \in Places : p.radius \in Int

None == -1
Movements == {"car", "bike", "walking", "running", "still"}
Statuses == {"stopped", "warning", "gpsIssue", "normal"}
Addresses == Movements \cup {"No location yet", "Position from", "Stationary"}
Newer(a, b) == IF a > b THEN a ELSE b

MovementFrom(motion) ==
    CASE motion = "driving" -> "car"
      [] motion = "cycling" -> "bike"
      [] motion \in {"walking", "on_foot"} -> "walking"
      [] motion = "running" -> "running"
      [] OTHER -> "still"

IsStale(ts, now) == ts = None \/ now - ts > Stale

StatusFrom(spot, ts, battery, accuracy, now) ==
    CASE spot = "none" \/ IsStale(ts, now) -> "stopped"
      [] battery = "low" -> "warning"
      [] accuracy = "poor" -> "gpsIssue"
      [] OTHER -> "normal"

(* The age in "Position from 8h ago" is left out.                          *)
AddressFrom(spot, ts, movement, now) ==
    CASE spot = "none" -> "No location yet"
      [] movement # "still" -> movement
      [] ts = None -> "No location yet"
      [] now - ts > Stale -> "Position from"
      [] OTHER -> "Stationary"

(* deriveMember: a member from the row of a list or a snapshot.            *)
DeriveMember(row, now) ==
    LET seen == Newer(row.fix, row.seen)
        movement == MovementFrom(row.motion)
    IN  [spot |-> row.spot, seen |-> seen, battery |-> row.battery, movement |-> movement,
         avatar |-> row.avatar,
         status |-> StatusFrom(row.spot, seen, row.battery, row.accuracy, now),
         address |-> AddressFrom(row.spot, seen, movement, now)]

(* Mutant: whatever the frame says is the newest.                          *)
ApplyPresenceBlindly(m, frame, now) ==
    [m EXCEPT !.status = "normal",
              !.battery = IF frame.battery # "none" THEN frame.battery ELSE @,
              !.address = AddressFrom(m.spot, frame.seen, m.movement, now),
              !.seen = frame.seen]

(* Mutant: the status is refreshed, the time is not.                       *)
PresenceWithoutTime(m, frame, now) == [m EXCEPT !.status = "normal"]

(* applyPresenceUpdate: liveness without a change of position.             *)
ApplyPresence(m, frame, now) ==
    IF frame.seen = None \/ (m.seen # None /\ frame.seen <= m.seen) THEN m
    ELSE [m EXCEPT !.status = "normal",
                   !.battery = IF frame.battery # "none" THEN frame.battery ELSE @,
                   !.address = AddressFrom(m.spot, frame.seen, m.movement, now),
                   !.seen = frame.seen]

(* applyLocationUpdate: absent fields keep what is shown.                  *)
ApplyLocation(m, frame, now) ==
    LET spot == IF frame.spot # "none" THEN frame.spot ELSE m.spot
        seen == Newer(m.seen, Newer(frame.fix, frame.seen))
        battery == IF frame.battery # "none" THEN frame.battery ELSE m.battery
        movement == IF frame.motion = "none" THEN m.movement ELSE MovementFrom(frame.motion)
    IN  [m EXCEPT !.spot = spot, !.seen = seen, !.battery = battery, !.movement = movement,
                  !.status = StatusFrom(spot, seen, battery, frame.accuracy, now),
                  !.address = AddressFrom(spot, seen, movement, now)]

(* Mutant: a member who was last seen moving stays so.                     *)
RefreshStalenessOfStill(m, now) ==
    IF m.spot = "none" \/ m.seen = None \/ now - m.seen <= Stale \/ m.movement # "still" THEN m
    ELSE [m EXCEPT !.status = "stopped", !.address = "Position from"]

(* refreshStaleness.                                                       *)
RefreshStaleness(m, now) ==
    IF m.spot = "none" \/ m.seen = None \/ now - m.seen <= Stale THEN m
    ELSE [m EXCEPT !.status = "stopped", !.address = "Position from"]

(* placeContaining: of the places that cover the spot, the smallest.       *)
Containing(spot) == {p \in Places : p.radius > 0 /\ spot \in p.covers}
Smallest(ps) == CHOOSE p \in ps : \A q \in ps : p.radius <= q.radius

(* applyPlaceAddress: what the list and the card call the member's place.  *)
Label(m) ==
    IF \/ Containing(m.spot) = {}
       \/ m.movement \in {"car", "bike"}
       \/ m.address = "Position from"
    THEN m.address
    ELSE Smallest(Containing(m.spot)).name

(* lastSeenLabel.                                                          *)
LastSeenLabel(m, now) ==
    CASE m.seen = None -> "never"
      [] m.seen # None /\ now - m.seen > Stale -> "Last seen"
      [] OTHER -> "recently"
=============================================================================
