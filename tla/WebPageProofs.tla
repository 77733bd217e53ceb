---------------------------- MODULE WebPageProofs ----------------------------
(***************************************************************************)
(* Theorems about the pages of the web panel: the live map, for any        *)
(* reports, buffer, number of reconnections, of broadcasts under way and   *)
(* of changes; the history, for any members, families and days; the        *)
(* families, the users, the circle and the account card, for any number of *)
(* edits; a member's photo, for any number of versions; the bubbles, for   *)
(* any members, spots, zooms and radius; and the panel they make up.       *)
(***************************************************************************)
EXTENDS WebPanel, FiniteSetTheorems, WellFoundedInduction, TLAPS

-----------------------------------------------------------------------------
(* The invariant.                                                          *)

(* A map that is closed, loads or is to reconnect has no socket; so there  *)
(* is none that a new one could replace.                                   *)
OneConnection ==
    /\ strays = 0
    /\ ~mapped.mounted => mapped = Unmapped /\ load = NoLoad /\ sock = NoSock
    /\ load.pc # "none" => sock = NoSock /\ ~mapped.timer
    /\ mapped.timer => sock = NoSock
    /\ sock.end \notin {"joined", "open"} => sock.frames = <<>>

(* A frame says nothing of a later time than a row of the server.          *)
NotAhead(f, r) ==
    /\ f.type = "members" => /\ f.row.fix <= f.row.seen /\ f.row.seen <= r.seen
                             /\ f.row.avatar <= r.avatar
    /\ f.type = "location" => f.fix <= f.seen /\ f.seen <= r.seen
    /\ f.type = "presence" => f.seen <= r.seen
    /\ f.type = "avatar" => f.avatar <= r.avatar

(* A member, or a row, is no newer than a row.                             *)
Behind(m, r) == m.seen <= r.seen /\ m.avatar <= r.avatar

NothingAhead ==
    /\ row.fix <= row.seen
    /\ \A m \in Shown : Behind(m, row)
    /\ \A f \in casts : NotAhead(f, row)
    /\ \A i \in DOMAIN sock.frames : NotAhead(sock.frames[i], row)

(* What replaces a member on the map, a load or the snapshot with which a  *)
(* stream begins, is no older than the member it replaces.                 *)
ReplacementsAreNewer ==
    /\ load.pc = "read" => /\ load.row.fix <= load.row.seen
                           /\ Behind(load.row, row)
                           /\ \A m \in Shown : Behind(m, load.row)
    /\ \A f \in casts : f.type # "members"
    /\ \A i \in DOMAIN sock.frames :
          sock.frames[i].type = "members"
          => /\ i = 1 /\ sock.end = "open"
             /\ \A m \in Shown : Behind(m, sock.frames[i].row)

(* What the server stores is on the map or on its way to it.               *)
BringsSeen(f, r) ==
    \/ f.type = "members" /\ f.row.seen = r.seen
    \/ f.type \in {"location", "presence"} /\ f.seen = r.seen
BringsAvatar(f, r) ==
    \/ f.type = "members" /\ f.row.avatar = r.avatar
    \/ f.type = "avatar" /\ f.avatar = r.avatar
NewsIsUnderWay ==
    sock.end = "open" =>
       \A m \in Shown :
          /\ \/ m.seen = row.seen
             \/ \E f \in casts : BringsSeen(f, row)
             \/ \E i \in DOMAIN sock.frames : BringsSeen(sock.frames[i], row)
          /\ \/ m.avatar = row.avatar
             \/ \E f \in casts : BringsAvatar(f, row)
             \/ \E i \in DOMAIN sock.frames : BringsAvatar(sock.frames[i], row)

MapInv == MapTypeOK /\ OneConnection /\ NothingAhead /\ ReplacementsAreNewer /\ NewsIsUnderWay

USE DEF Shown

-----------------------------------------------------------------------------
(* What a row and a frame make of a member.                                *)

LEMMA MovementType == \A motion : MovementFrom(motion) \in Movements
  BY Zenon DEF MovementFrom, Movements

LEMMA LabelTypes ==
  ASSUME NEW spot, NEW movement \in Movements, NEW ts, NEW battery, NEW accuracy, NEW now
  PROVE  /\ StatusFrom(spot, ts, battery, accuracy, now) \in Statuses
         /\ AddressFrom(spot, ts, movement, now) \in Addresses
  <1>1. StatusFrom(spot, ts, battery, accuracy, now) \in Statuses
    BY Zenon DEF StatusFrom, Statuses
  <1>2. AddressFrom(spot, ts, movement, now) \in Addresses
    BY Zenon DEF AddressFrom, Addresses
  <1> QED
    BY <1>1, <1>2

LEMMA DerivedMember ==
  ASSUME NEW r \in Rows, r.fix <= r.seen, NEW now
  PROVE  /\ DeriveMember(r, now) \in Members
         /\ DeriveMember(r, now).seen = r.seen
         /\ DeriveMember(r, now).avatar = r.avatar
  <1> DEFINE seen == Newer(r.fix, r.seen)
             movement == MovementFrom(r.motion)
  <1>1. r.fix \in Int /\ r.seen \in Int /\ r.avatar \in Nat /\ r.spot \in Data
        /\ r.battery \in Data
    BY DEF Rows
  <1>2. seen = r.seen
    BY <1>1 DEF Newer
  <1>3. movement \in Movements
    BY MovementType
  <1>4. /\ StatusFrom(r.spot, seen, r.battery, r.accuracy, now) \in Statuses
        /\ AddressFrom(r.spot, seen, movement, now) \in Addresses
    BY <1>3, LabelTypes
  <1> HIDE DEF seen, movement
  <1>5. DeriveMember(r, now) =
          [spot |-> r.spot, seen |-> seen, battery |-> r.battery, movement |-> movement,
           avatar |-> r.avatar,
           status |-> StatusFrom(r.spot, seen, r.battery, r.accuracy, now),
           address |-> AddressFrom(r.spot, seen, movement, now)]
    BY DEF DeriveMember, seen, movement
  <1> QED
    BY <1>1, <1>2, <1>3, <1>4, <1>5 DEF Members

LEMMA RefreshedMember ==
  ASSUME NEW m \in Members, NEW now
  PROVE  /\ RefreshStaleness(m, now) \in Members
         /\ RefreshStaleness(m, now).seen = m.seen
         /\ RefreshStaleness(m, now).avatar = m.avatar
  BY DEF RefreshStaleness, Members, Statuses, Addresses

LEMMA LocatedMember ==
  ASSUME NEW m \in Members,
         NEW f \in Locations, NEW now
  PROVE  /\ ApplyLocation(m, f, now) \in Members
         /\ ApplyLocation(m, f, now).seen = Newer(m.seen, Newer(f.fix, f.seen))
         /\ ApplyLocation(m, f, now).avatar = m.avatar
  <1> DEFINE spot == IF f.spot # "none" THEN f.spot ELSE m.spot
             seen == Newer(m.seen, Newer(f.fix, f.seen))
             battery == IF f.battery # "none" THEN f.battery ELSE m.battery
             movement == IF f.motion = "none" THEN m.movement ELSE MovementFrom(f.motion)
  <1>1. m.seen \in Int /\ m.spot \in Data /\ m.battery \in Data /\ m.movement \in Movements
    BY DEF Members
  <1>2. f.fix \in Int /\ f.seen \in Int /\ f.spot \in Data /\ f.battery \in Data
    BY DEF Locations
  <1>3. seen \in Int
    BY <1>1, <1>2 DEF Newer
  <1>4. spot \in Data /\ battery \in Data /\ movement \in Movements
    BY <1>1, <1>2, MovementType
  <1>5. /\ StatusFrom(spot, seen, battery, f.accuracy, now) \in Statuses
        /\ AddressFrom(spot, seen, movement, now) \in Addresses
    BY <1>4, LabelTypes
  <1>6. ApplyLocation(m, f, now) =
          [m EXCEPT !.spot = spot, !.seen = seen, !.battery = battery, !.movement = movement,
                    !.status = StatusFrom(spot, seen, battery, f.accuracy, now),
                    !.address = AddressFrom(spot, seen, movement, now)]
    BY DEF ApplyLocation
  <1> HIDE DEF spot, seen, battery, movement
  <1>7. /\ ApplyLocation(m, f, now) \in Members
        /\ ApplyLocation(m, f, now).seen = seen
        /\ ApplyLocation(m, f, now).avatar = m.avatar
    BY <1>3, <1>4, <1>5, <1>6 DEF Members
  <1> QED
    BY <1>7 DEF seen

LEMMA PresentMember ==
  ASSUME NEW m \in Members, NEW f \in Presences, NEW now
  PROVE  /\ ApplyPresence(m, f, now) \in Members
         /\ ApplyPresence(m, f, now).seen \in {m.seen, f.seen}
         /\ ApplyPresence(m, f, now).seen >= m.seen
         /\ ApplyPresence(m, f, now).seen >= f.seen
         /\ ApplyPresence(m, f, now).avatar = m.avatar
  <1> DEFINE address == AddressFrom(m.spot, f.seen, m.movement, now)
             battery == IF f.battery # "none" THEN f.battery ELSE m.battery
  <1>1. m.seen \in Int /\ m.battery \in Data /\ m.movement \in Movements
    BY DEF Members
  <1>2. f.seen \in Nat /\ battery \in Data
    BY <1>1 DEF Presences
  <1>3. address \in Addresses
    BY <1>1, LabelTypes
  <1>4. CASE f.seen = None \/ (m.seen # None /\ f.seen <= m.seen)
    BY <1>1, <1>2, <1>4 DEF ApplyPresence, None
  <1>5. CASE ~(f.seen = None \/ (m.seen # None /\ f.seen <= m.seen))
    <2>1. ApplyPresence(m, f, now) = [m EXCEPT !.status = "normal", !.battery = battery,
                                               !.address = address, !.seen = f.seen]
      BY <1>5 DEF ApplyPresence
    <2> HIDE DEF address, battery
    <2>2. /\ ApplyPresence(m, f, now) \in Members
          /\ ApplyPresence(m, f, now).seen = f.seen
          /\ ApplyPresence(m, f, now).avatar = m.avatar
      <3>1. f.seen \in Int /\ "normal" \in Statuses
        BY <1>2 DEF Statuses
      <3> QED
        BY <1>2, <1>3, <2>1, <3>1 DEF Members
    <2> QED
      BY <1>1, <1>2, <1>5, <2>2 DEF None
  <1> QED
    BY <1>4, <1>5

LEMMA FrameKinds ==
  ASSUME NEW f \in Frames
  PROVE  /\ f.type \in {"members", "location", "presence", "avatar"}
         /\ f.type = "members" => f \in Snapshots
         /\ f.type = "location" => f \in Locations
         /\ f.type = "presence" => f \in Presences
         /\ f.type = "avatar" => f \in Avatars
  BY DEF Frames, Snapshots, Locations, Presences, Avatars

(* A frame brings a member forward, to no later time than the server's.    *)
LEMMA FrameApplied ==
  ASSUME row \in Rows, NEW m \in Members, NEW f \in Frames, NotAhead(f, row), Behind(m, row),
         f.type = "members" => Behind(m, f.row)
  PROVE  /\ OnFrame(f, m) \in Members
         /\ Behind(m, OnFrame(f, m)) /\ Behind(OnFrame(f, m), row)
         /\ BringsSeen(f, row) \/ m.seen = row.seen => OnFrame(f, m).seen = row.seen
         /\ BringsAvatar(f, row) \/ m.avatar = row.avatar => OnFrame(f, m).avatar = row.avatar
  <1>0. m.seen \in Int /\ m.avatar \in Nat /\ row.seen \in Int /\ row.avatar \in Nat
    BY DEF Members, Rows
  <1>1. CASE f.type = "members"
    <2>1. f.row \in Rows /\ f.row.fix <= f.row.seen
      BY <1>1, FrameKinds DEF Snapshots, NotAhead
    <2>2. OnFrame(f, m) = DeriveMember(f.row, clock)
      BY <1>1 DEF OnFrame
    <2>3. OnFrame(f, m) \in Members /\ OnFrame(f, m).seen = f.row.seen
          /\ OnFrame(f, m).avatar = f.row.avatar
      BY <2>1, <2>2, DerivedMember
    <2>4. f.row.seen \in Int /\ f.row.avatar \in Nat
      BY <2>1 DEF Rows
    <2> QED
      BY <1>0, <1>1, <2>3, <2>4 DEF NotAhead, Behind, BringsSeen, BringsAvatar
  <1>2. CASE f.type = "location"
    <2>1. f \in Locations /\ f.fix \in Int /\ f.seen \in Int
      BY <1>2, FrameKinds DEF Locations
    <2>2. OnFrame(f, m) = ApplyLocation(m, f, clock)
      BY <1>2 DEF OnFrame
    <2>3. OnFrame(f, m) \in Members /\ OnFrame(f, m).seen = Newer(m.seen, Newer(f.fix, f.seen))
          /\ OnFrame(f, m).avatar = m.avatar
      BY <2>1, <2>2, LocatedMember
    <2> QED
      BY <1>0, <1>2, <2>1, <2>3 DEF NotAhead, Behind, BringsSeen, BringsAvatar, Newer
  <1>3. CASE f.type = "presence"
    <2>1. f \in Presences /\ f.seen \in Int
      BY <1>3, FrameKinds DEF Presences
    <2>2. OnFrame(f, m) = ApplyPresence(m, f, clock)
      BY <1>3 DEF OnFrame
    <2>3. /\ OnFrame(f, m) \in Members /\ OnFrame(f, m).seen \in {m.seen, f.seen}
          /\ OnFrame(f, m).seen >= m.seen /\ OnFrame(f, m).seen >= f.seen
          /\ OnFrame(f, m).avatar = m.avatar
      BY <2>1, <2>2, PresentMember
    <2> QED
      BY <1>0, <1>3, <2>1, <2>3 DEF NotAhead, Behind, BringsSeen, BringsAvatar
  <1>4. CASE f.type = "avatar"
    <2>1. f \in Avatars /\ f.avatar \in Nat
      BY <1>4, FrameKinds DEF Avatars
    <2>2. OnFrame(f, m) = OnAvatar(m, f.avatar)
      BY <1>4 DEF OnFrame
    <2>3. CASE f.avatar > m.avatar
      <3>1. OnFrame(f, m) = [m EXCEPT !.avatar = f.avatar]
        BY <2>2, <2>3 DEF OnAvatar
      <3>2. OnFrame(f, m) \in Members /\ OnFrame(f, m).seen = m.seen
            /\ OnFrame(f, m).avatar = f.avatar
        BY <2>1, <3>1 DEF Members
      <3> QED
        BY <1>0, <1>4, <2>1, <2>3, <3>2 DEF NotAhead, Behind, BringsSeen, BringsAvatar
    <2>4. CASE ~(f.avatar > m.avatar)
      <3>1. OnFrame(f, m) = m
        BY <2>2, <2>4 DEF OnAvatar
      <3> QED
        BY <1>0, <1>4, <2>1, <2>4, <3>1 DEF NotAhead, Behind, BringsSeen, BringsAvatar
    <2> QED
      BY <2>3, <2>4
  <1> QED
    BY <1>1, <1>2, <1>3, <1>4, FrameKinds

-----------------------------------------------------------------------------
(* The initial state.                                                      *)

LEMMA NullTypes == NoRow \in Rows /\ NoLoad \in [pc : {"none", "sent", "read"}, row : Rows]
                   /\ NoRow.fix = NoRow.seen /\ NoLoad.pc = "none"
                   /\ NoSock.end = "none" /\ NoSock.frames = <<>>
  BY DEF NoRow, NoLoad, NoSock, Rows, Data, None

LEMMA MapInvInit == MapInit => MapInv
  <1> SUFFICES ASSUME MapInit PROVE MapInv
    OBVIOUS
  <1> USE DEF MapInit
  <1>1. MapTypeOK
    BY NullTypes DEF MapTypeOK, NoSock, Unmapped
  <1>2. OneConnection
    BY NullTypes DEF OneConnection, Unmapped, NoSock
  <1>3. NothingAhead
    BY NullTypes DEF NothingAhead, Unmapped, NoSock, NoRow, None
  <1>4. ReplacementsAreNewer
    BY NullTypes DEF ReplacementsAreNewer, NoSock
  <1>5. NewsIsUnderWay
    BY DEF NewsIsUnderWay, NoSock
  <1> QED
    BY <1>1, <1>2, <1>3, <1>4, <1>5 DEF MapInv

-----------------------------------------------------------------------------
(* The steps of the server.                                                *)

LEMMA StillNotAhead ==
  ASSUME NEW r \in Rows, NEW q \in Rows, Behind(r, q), NEW f \in Frames, NotAhead(f, r)
  PROVE  NotAhead(f, q)
  <1>1. r.seen \in Int /\ q.seen \in Int /\ r.avatar \in Nat /\ q.avatar \in Nat
    BY DEF Rows
  <1>2. /\ f.type = "members" => f.row \in Rows
        /\ f.type \in {"location", "presence"} => f.seen \in Int
        /\ f.type = "avatar" => f.avatar \in Nat
    BY FrameKinds DEF Snapshots, Locations, Presences, Avatars
  <1>3. f.type = "members" => f.row.seen \in Int /\ f.row.avatar \in Nat
    BY <1>2 DEF Rows
  <1> QED
    BY <1>1, <1>2, <1>3 DEF NotAhead, Behind

LEMMA StillBehind ==
  ASSUME NEW r \in Rows, NEW q \in Rows, Behind(r, q), NEW m \in Members, Behind(m, r)
  PROVE  Behind(m, q)
  BY DEF Rows, Members, Behind

(* A report is stored and its frame is to be broadcast.                    *)
LEMMA AnnouncedStep ==
  ASSUME MapInv, NEW frame \in Frames, frame.type # "members", Announce(frame),
         UNCHANGED <<clock, sock, strays, load, stale, mapped>>,
         row' \in Rows, row'.fix <= row'.seen, Behind(row, row'), NotAhead(frame, row'),
         row'.seen = row.seen \/ BringsSeen(frame, row'),
         row'.avatar = row.avatar \/ BringsAvatar(frame, row')
  PROVE  MapInv'
  <1> USE DEF Announce
  <1>0. row \in Rows /\ mapped.members \subseteq Members /\ load.row \in Rows
        /\ casts \subseteq Frames /\ sock.frames \in Seq(Frames)
    BY DEF MapInv, MapTypeOK
  <1>1. MapTypeOK'
    BY DEF MapInv, MapTypeOK
  <1>2. OneConnection'
    BY DEF MapInv, OneConnection
  <1>3. NothingAhead'
    <2>1. \A m \in Shown' : Behind(m, row')
      BY <1>0, StillBehind DEF MapInv, NothingAhead
    <2>2. \A f \in casts' : NotAhead(f, row')
      BY <1>0, StillNotAhead DEF MapInv, NothingAhead
    <2>3. \A i \in DOMAIN sock'.frames : NotAhead(sock'.frames[i], row')
      BY <1>0, StillNotAhead DEF MapInv, NothingAhead
    <2> QED
      BY <2>1, <2>2, <2>3 DEF NothingAhead
  <1>4. ReplacementsAreNewer'
    <2>1. load.pc = "read" => Behind(load.row, row')
      BY <1>0 DEF MapInv, ReplacementsAreNewer, Behind, Rows
    <2> QED
      BY <2>1 DEF MapInv, ReplacementsAreNewer
  <1>5. NewsIsUnderWay'
    <2> SUFFICES ASSUME sock.end = "open", NEW m \in Shown
                 PROVE  /\ \/ m.seen = row'.seen
                           \/ \E f \in casts' : BringsSeen(f, row')
                           \/ \E i \in DOMAIN sock.frames : BringsSeen(sock.frames[i], row')
                        /\ \/ m.avatar = row'.avatar
                           \/ \E f \in casts' : BringsAvatar(f, row')
                           \/ \E i \in DOMAIN sock.frames : BringsAvatar(sock.frames[i], row')
      BY DEF NewsIsUnderWay
    <2>1. row'.seen = row.seen => \A f : BringsSeen(f, row) => BringsSeen(f, row')
      BY DEF BringsSeen
    <2>2. row'.avatar = row.avatar => \A f : BringsAvatar(f, row) => BringsAvatar(f, row')
      BY DEF BringsAvatar
    <2> QED
      BY <2>1, <2>2 DEF MapInv, NewsIsUnderWay
  <1> QED
    BY <1>1, <1>2, <1>3, <1>4, <1>5 DEF MapInv

LEMMA ReportFixStep == ASSUME MapInv, NEW r \in Reports, ReportFix(r) PROVE MapInv'
  <1> DEFINE frame == [type |-> "location", fix |-> clock, seen |-> clock, spot |-> r.spot,
                       battery |-> r.battery, accuracy |-> r.accuracy, motion |-> r.motion]
  <1>0. clock \in Int /\ row \in Rows /\ row.seen < clock
    BY DEF MapInv, MapTypeOK, ReportFix
  <1>1. r.spot \in Data /\ r.battery \in Data /\ r.accuracy \in Data /\ r.motion \in Data
    BY DEF Data
  <1>2. frame \in Locations
    BY <1>0, <1>1 DEF Locations
  <1>3. row' = [row EXCEPT !.fix = clock, !.seen = clock, !.spot = r.spot, !.battery = r.battery,
                           !.accuracy = r.accuracy, !.motion = r.motion]
    BY DEF ReportFix
  <1>4. row' \in Rows /\ row'.fix = clock /\ row'.seen = clock /\ row'.avatar = row.avatar
    <2> DEFINE spot == r.spot
               battery == r.battery
               accuracy == r.accuracy
               motion == r.motion
               before == [row EXCEPT !.fix = clock, !.seen = clock, !.spot = spot]
    <2>1. spot \in Data /\ battery \in Data /\ accuracy \in Data /\ motion \in Data
      BY <1>1
    <2>2. row' = [before EXCEPT !.battery = battery, !.accuracy = accuracy, !.motion = motion]
      BY <1>3
    <2> HIDE DEF spot, battery, accuracy, motion
    <2>3. before \in Rows /\ before.fix = clock /\ before.seen = clock
          /\ before.avatar = row.avatar
      BY <1>0, <2>1 DEF Rows
    <2> HIDE DEF before
    <2> QED
      BY <2>1, <2>2, <2>3 DEF Rows
  <1>5. Behind(row, row')
    BY <1>0, <1>4 DEF Behind, Rows
  <1>6. NotAhead(frame, row') /\ BringsSeen(frame, row')
    BY <1>0, <1>4 DEF NotAhead, BringsSeen
  <1>7. Announce(frame) /\ UNCHANGED <<clock, sock, strays, load, stale, mapped>>
    BY DEF ReportFix
  <1>8. frame \in Frames /\ frame.type # "members"
    BY <1>2 DEF Frames
  <1> HIDE DEF frame
  <1> QED
    BY <1>0, <1>4, <1>5, <1>6, <1>7, <1>8, AnnouncedStep

LEMMA ReportPresenceStep == ASSUME MapInv, ReportPresence PROVE MapInv'
  <1> DEFINE frame == [type |-> "presence", seen |-> clock, battery |-> row.battery]
  <1>0. clock \in Nat /\ row \in Rows /\ row.seen < clock /\ row.fix <= row.seen
    BY DEF MapInv, MapTypeOK, NothingAhead, ReportPresence
  <1>1. frame \in Presences
    BY <1>0 DEF Presences, Rows
  <1>2. row' \in Rows /\ row'.fix = row.fix /\ row'.seen = clock /\ row'.avatar = row.avatar
    BY <1>0 DEF Rows, ReportPresence
  <1>3. Behind(row, row') /\ row'.fix <= row'.seen
    BY <1>0, <1>2 DEF Behind, Rows
  <1>4. NotAhead(frame, row') /\ BringsSeen(frame, row')
    BY <1>0, <1>2 DEF NotAhead, BringsSeen
  <1>5. Announce(frame) /\ UNCHANGED <<clock, sock, strays, load, stale, mapped>>
    BY DEF ReportPresence
  <1>6. frame \in Frames /\ frame.type # "members"
    BY <1>1 DEF Frames
  <1> HIDE DEF frame
  <1> QED
    BY <1>0, <1>2, <1>3, <1>4, <1>5, <1>6, AnnouncedStep

LEMMA PutAvatarStep == ASSUME MapInv, PutAvatar PROVE MapInv'
  <1> DEFINE frame == [type |-> "avatar", avatar |-> row.avatar + 1]
  <1>0. row \in Rows /\ row.avatar \in Nat /\ row.fix <= row.seen
    BY DEF MapInv, MapTypeOK, NothingAhead, Rows
  <1>1. frame \in Avatars
    BY <1>0 DEF Avatars
  <1>2. row' \in Rows /\ row'.fix = row.fix /\ row'.seen = row.seen
        /\ row'.avatar = row.avatar + 1
    BY <1>0 DEF Rows, PutAvatar
  <1>3. Behind(row, row') /\ row'.fix <= row'.seen
    BY <1>0, <1>2 DEF Behind, Rows
  <1>4. NotAhead(frame, row') /\ BringsAvatar(frame, row')
    BY <1>0, <1>2 DEF NotAhead, BringsAvatar
  <1>5. Announce(frame) /\ UNCHANGED <<clock, sock, strays, load, stale, mapped>>
    BY DEF PutAvatar
  <1>6. frame \in Frames /\ frame.type # "members"
    BY <1>1 DEF Frames
  <1> HIDE DEF frame
  <1> QED
    BY <1>0, <1>2, <1>3, <1>4, <1>5, <1>6, AnnouncedStep

(* A broadcast moves a frame to the buffer, or closes the stream.          *)
LEMMA BroadcastStep == ASSUME MapInv, Broadcast PROVE MapInv'
  <1>0. PICK f \in casts :
          /\ casts' = casts \ {f}
          /\ sock' = IF sock.end \notin {"joined", "open"} THEN sock
                     ELSE IF Len(sock.frames) >= Buffer THEN [end |-> "closed", frames |-> <<>>]
                     ELSE [sock EXCEPT !.frames = Append(@, f)]
    BY DEF Broadcast
  <1>1. UNCHANGED <<clock, row, strays, load, stale, mapped>>
    BY DEF Broadcast
  <1>2. /\ f \in Frames /\ f.type # "members" /\ NotAhead(f, row)
        /\ sock.frames \in Seq(Frames)
    BY DEF MapInv, MapTypeOK, NothingAhead, ReplacementsAreNewer
  <1>3. CASE sock.end \in {"joined", "open"} /\ ~(Len(sock.frames) >= Buffer)
    <2>1. sock' = [sock EXCEPT !.frames = Append(@, f)]
      BY <1>0, <1>3
    <2>2. sock'.end = sock.end /\ sock'.frames = Append(sock.frames, f)
      BY <2>1 DEF MapInv, MapTypeOK
    <2>3. /\ DOMAIN sock'.frames = 1 .. Len(sock.frames) + 1
          /\ DOMAIN sock.frames = 1 .. Len(sock.frames) /\ Len(sock.frames) \in Nat
          /\ \A i \in 1 .. Len(sock.frames) : sock'.frames[i] = sock.frames[i]
          /\ sock'.frames[Len(sock.frames) + 1] = f
      BY <1>2, <2>2
    <2>4. MapTypeOK'
      <3>1. Append(sock.frames, f) \in Seq(Frames) /\ casts' \subseteq Frames
        BY <1>0, <1>2 DEF MapInv, MapTypeOK
      <3>2. sock' \in [end : {"none", "asked", "joined", "open", "closed"}, frames : Seq(Frames)]
        BY <2>1, <3>1 DEF MapInv, MapTypeOK
      <3> QED
        BY <1>1, <3>1, <3>2 DEF MapInv, MapTypeOK
    <2>5. OneConnection'
      BY <1>1, <1>3, <2>2 DEF MapInv, OneConnection, NoSock
    <2>6. NothingAhead'
      BY <1>0, <1>1, <1>2, <2>3 DEF MapInv, NothingAhead
    <2>7. ReplacementsAreNewer'
      BY <1>0, <1>1, <1>2, <2>2, <2>3 DEF MapInv, ReplacementsAreNewer
    <2>8. NewsIsUnderWay'
      <3> SUFFICES ASSUME sock.end = "open", NEW m \in Shown
                   PROVE  /\ \/ m.seen = row.seen
                             \/ \E g \in casts' : BringsSeen(g, row)
                             \/ \E i \in DOMAIN sock'.frames : BringsSeen(sock'.frames[i], row)
                          /\ \/ m.avatar = row.avatar
                             \/ \E g \in casts' : BringsAvatar(g, row)
                             \/ \E i \in DOMAIN sock'.frames :
                                   BringsAvatar(sock'.frames[i], row)
        BY <1>1, <2>2 DEF NewsIsUnderWay
      <3>1. \A g \in casts : g \in casts' \/ \E i \in DOMAIN sock'.frames : sock'.frames[i] = g
        BY <1>0, <2>3
      <3>2. \A i \in DOMAIN sock.frames :
               i \in DOMAIN sock'.frames /\ sock'.frames[i] = sock.frames[i]
        BY <2>3
      <3> QED
        BY <3>1, <3>2 DEF MapInv, NewsIsUnderWay
    <2> QED
      BY <2>4, <2>5, <2>6, <2>7, <2>8 DEF MapInv
  <1>4. CASE sock.end \in {"joined", "open"} /\ Len(sock.frames) >= Buffer
    <2>1. sock' = [end |-> "closed", frames |-> <<>>]
      BY <1>0, <1>4
    <2>2. MapTypeOK'
      BY <1>0, <1>1, <2>1 DEF MapInv, MapTypeOK
    <2>3. OneConnection'
      BY <1>1, <1>4, <2>1 DEF MapInv, OneConnection, NoSock
    <2> QED
      BY <1>0, <1>1, <2>1, <2>2, <2>3
      DEF MapInv, NothingAhead, ReplacementsAreNewer, NewsIsUnderWay
  <1>5. CASE sock.end \notin {"joined", "open"}
    <2>1. sock' = sock
      BY <1>0, <1>5
    <2> QED
      BY <1>0, <1>1, <1>5, <2>1
      DEF MapInv, MapTypeOK, OneConnection, NothingAhead, ReplacementsAreNewer, NewsIsUnderWay
  <1> QED
    BY <1>3, <1>4, <1>5

LEMMA RegisterStep == ASSUME MapInv, Register PROVE MapInv'
  <1>1. sock.end = "asked" /\ sock' = [sock EXCEPT !.end = "joined"]
        /\ UNCHANGED <<server, strays, load, stale, mapped>>
    BY DEF Register
  <1>2. sock'.end = "joined" /\ sock'.frames = <<>>
    BY <1>1 DEF MapInv, MapTypeOK, OneConnection
  <1>3. MapTypeOK'
    BY <1>1 DEF MapInv, MapTypeOK, server
  <1>4. OneConnection'
    BY <1>1, <1>2 DEF MapInv, OneConnection, NoSock
  <1> QED
    BY <1>1, <1>2, <1>3, <1>4
    DEF MapInv, NothingAhead, ReplacementsAreNewer, NewsIsUnderWay, server

(* The snapshot goes before what is in the buffer.                         *)
LEMMA SnapshotStep == ASSUME MapInv, Snapshot PROVE MapInv'
  <1> DEFINE frame == [type |-> "members", row |-> row]
  <1>1. sock.end = "joined" /\ sock' = [end |-> "open", frames |-> <<frame>> \o sock.frames]
        /\ UNCHANGED <<server, strays, load, stale, mapped>>
    BY DEF Snapshot
  <1>2. row \in Rows /\ sock.frames \in Seq(Frames)
    BY DEF MapInv, MapTypeOK
  <1>3. frame \in Frames /\ frame.type = "members" /\ frame.row = row
    BY <1>2 DEF Frames, Snapshots
  <1>4. Behind(row, row)
    BY <1>2 DEF Behind, Rows
  <1>5. NotAhead(frame, row) /\ BringsSeen(frame, row) /\ BringsAvatar(frame, row)
    BY <1>3, <1>4 DEF NotAhead, BringsSeen, BringsAvatar, Behind, MapInv, NothingAhead
  <1> HIDE DEF frame
  <1>6. /\ <<frame>> \o sock.frames \in Seq(Frames)
        /\ Len(sock.frames) \in Nat /\ DOMAIN sock.frames = 1 .. Len(sock.frames)
        /\ DOMAIN (<<frame>> \o sock.frames) = 1 .. Len(sock.frames) + 1
        /\ (<<frame>> \o sock.frames)[1] = frame
        /\ \A i \in 2 .. Len(sock.frames) + 1 :
              i - 1 \in 1 .. Len(sock.frames) /\ (<<frame>> \o sock.frames)[i] = sock.frames[i - 1]
    BY <1>2, <1>3
  <1>7. /\ sock'.frames[1] = frame /\ 1 \in DOMAIN sock'.frames
        /\ \A i \in DOMAIN sock'.frames :
              i # 1 => i - 1 \in DOMAIN sock.frames /\ sock'.frames[i] = sock.frames[i - 1]
    BY <1>1, <1>6
  <1>8. MapTypeOK'
    BY <1>1, <1>6 DEF MapInv, MapTypeOK, server
  <1>9. OneConnection'
    BY <1>1 DEF MapInv, OneConnection, NoSock
  <1>10. NothingAhead'
    BY <1>1, <1>5, <1>7 DEF MapInv, NothingAhead, server
  <1>11. ReplacementsAreNewer'
    <2>1. \A i \in DOMAIN sock'.frames : sock'.frames[i].type = "members" => i = 1
      BY <1>1, <1>7 DEF MapInv, ReplacementsAreNewer
    <2>2. \A m \in Shown' : Behind(m, sock'.frames[1].row)
      BY <1>1, <1>3, <1>7 DEF MapInv, NothingAhead
    <2> QED
      BY <1>1, <2>1, <2>2 DEF MapInv, ReplacementsAreNewer, server
  <1>12. NewsIsUnderWay'
    BY <1>1, <1>5, <1>7 DEF NewsIsUnderWay, server
  <1> QED
    BY <1>8, <1>9, <1>10, <1>11, <1>12 DEF MapInv

-----------------------------------------------------------------------------
(* The steps of the page that leave the map without a stream.              *)

(* No stream, and no member but those of before.                           *)
LEMMA SilentStep ==
  ASSUME MapInv, MapTypeOK', OneConnection', row' = row, casts' = casts, sock'.frames = <<>>,
         sock'.end # "open", Shown' \subseteq Shown, load'.pc = "read" => load' = load
  PROVE  MapInv'
  <1>1. NothingAhead'
    BY DEF MapInv, NothingAhead
  <1>2. ReplacementsAreNewer'
    BY DEF MapInv, ReplacementsAreNewer
  <1>3. NewsIsUnderWay'
    BY DEF NewsIsUnderWay
  <1> QED
    BY <1>1, <1>2, <1>3 DEF MapInv

LEMMA LoadServedStep == ASSUME MapInv, LoadServed PROVE MapInv'
  <1>1. load.pc = "sent" /\ load' = [pc |-> "read", row |-> row] /\ sock = NoSock
        /\ UNCHANGED <<server, sock, strays, stale, mapped>>
    BY DEF LoadServed, MapInv, OneConnection
  <1>2. MapTypeOK'
    BY <1>1 DEF MapInv, MapTypeOK, server
  <1>3. OneConnection'
    BY <1>1 DEF MapInv, OneConnection, NoLoad
  <1>4. Behind(row, row)
    BY DEF Behind, MapInv, MapTypeOK, Rows
  <1>5. ReplacementsAreNewer'
    BY <1>1, <1>4 DEF MapInv, NothingAhead, ReplacementsAreNewer, server
  <1> QED
    BY <1>1, <1>2, <1>3, <1>5 DEF MapInv, NothingAhead, NewsIsUnderWay, server, NoSock

LEMMA ConnectTypes ==
  ASSUME sock = NoSock, Connect
  PROVE  /\ sock'.end = "asked" /\ sock'.frames = <<>> /\ strays' = strays
         /\ sock' \in [end : {"none", "asked", "joined", "open", "closed"}, frames : Seq(Frames)]
  <1>1. sock' = [NoSock EXCEPT !.end = "asked"] /\ strays' = strays
    BY DEF Connect
  <1>2. sock' = [end |-> "asked", frames |-> <<>>]
    BY <1>1 DEF NoSock
  <1>3. <<>> \in Seq(Frames)
    OBVIOUS
  <1>4. sock'.end = "asked" /\ sock'.frames = <<>>
    BY <1>2
  <1> QED
    BY <1>1, <1>2, <1>3, <1>4

LEMMA LoadArrivesStep == ASSUME MapInv, LoadArrives PROVE MapInv'
  <1> DEFINE m == DeriveMember(load.row, clock)
  <1>1. /\ load.pc = "read" /\ mapped.mounted /\ load' = NoLoad /\ sock = NoSock
        /\ mapped' = [mapped EXCEPT !.loading = FALSE, !.retries = 0, !.members = {m}]
        /\ Connect /\ UNCHANGED <<server, stale>>
    BY DEF LoadArrives, MapInv, OneConnection
  <1>2. /\ load.row \in Rows /\ load.row.fix <= load.row.seen /\ Behind(load.row, row)
        /\ row \in Rows
    BY <1>1 DEF MapInv, MapTypeOK, ReplacementsAreNewer
  <1>3. m \in Members /\ Behind(m, row)
    BY <1>2, DerivedMember DEF Behind
  <1> HIDE DEF m
  <1>4. /\ mapped'.members = {m} /\ mapped'.mounted /\ mapped'.timer = mapped.timer
        /\ mapped' \in [mounted : BOOLEAN, loading : BOOLEAN, error : BOOLEAN, retries : Nat,
                        timer : BOOLEAN, members : SUBSET Members]
    BY <1>1, <1>3 DEF MapInv, MapTypeOK
  <1>5. /\ sock'.end = "asked" /\ sock'.frames = <<>> /\ strays' = strays
        /\ sock' \in [end : {"none", "asked", "joined", "open", "closed"}, frames : Seq(Frames)]
    BY <1>1, ConnectTypes
  <1>6. MapTypeOK'
    BY <1>1, <1>4, <1>5, NullTypes DEF MapInv, MapTypeOK, server
  <1>7. OneConnection'
    BY <1>1, <1>4, <1>5, NullTypes DEF MapInv, OneConnection
  <1>8. NothingAhead'
    BY <1>1, <1>3, <1>4, <1>5 DEF MapInv, NothingAhead, server
  <1> QED
    BY <1>1, <1>5, <1>6, <1>7, <1>8, NullTypes
    DEF MapInv, ReplacementsAreNewer, NewsIsUnderWay, server

LEMMA StaleArrivesStep == ASSUME MapInv, StaleArrives PROVE MapInv'
  <1>1. MapTypeOK'
    BY DEF MapInv, MapTypeOK, StaleArrives, StaleAnswer, server
  <1> QED
    BY <1>1 DEF MapInv, OneConnection, NothingAhead, ReplacementsAreNewer, NewsIsUnderWay,
                StaleArrives, StaleAnswer, server

LEMMA CleanedUpTypes ==
  ASSUME MapTypeOK, CleanedUp
  PROVE  /\ sock' = NoSock /\ stale' \in Nat
         /\ sock' \in [end : {"none", "asked", "joined", "open", "closed"}, frames : Seq(Frames)]
  BY DEF CleanedUp, MapTypeOK, NoSock

LEMMA ReloadStep ==
  ASSUME MapInv, mapped.mounted, Reload, UNCHANGED <<server, strays>>
  PROVE  MapInv'
  <1>1. load' = [NoLoad EXCEPT !.pc = "sent"] /\ CleanedUp
    BY DEF Reload
  <1>2. load' \in [pc : {"none", "sent", "read"}, row : Rows] /\ load'.pc = "sent"
    BY <1>1, NullTypes
  <1>3. mapped' = [mapped EXCEPT !.loading = TRUE, !.error = FALSE, !.retries = 0, !.timer = FALSE]
    BY DEF Reload
  <1>4. /\ mapped'.mounted /\ ~mapped'.timer /\ mapped'.members = mapped.members
        /\ mapped' \in [mounted : BOOLEAN, loading : BOOLEAN, error : BOOLEAN, retries : Nat,
                        timer : BOOLEAN, members : SUBSET Members]
    BY <1>3 DEF MapInv, MapTypeOK
  <1>5. MapTypeOK'
    BY <1>1, <1>2, <1>4, CleanedUpTypes DEF MapInv, MapTypeOK, server
  <1>6. OneConnection'
    BY <1>1, <1>2, <1>4, CleanedUpTypes, NullTypes DEF MapInv, OneConnection
  <1>7. sock'.end # "open" /\ sock'.frames = <<>>
    BY <1>1, CleanedUpTypes, NullTypes DEF MapInv
  <1> QED
    BY <1>2, <1>4, <1>5, <1>6, <1>7, SilentStep DEF server

LEMMA TimerFiresStep == ASSUME MapInv, TimerFires PROVE MapInv'
  <1>1. /\ mapped.timer /\ mapped' = [mapped EXCEPT !.timer = FALSE] /\ sock = NoSock
        /\ Connect /\ UNCHANGED <<server, load, stale>>
    BY DEF TimerFires, MapInv, OneConnection
  <1>2. /\ mapped.mounted /\ load.pc = "none" /\ mapped'.mounted /\ ~mapped'.timer
        /\ mapped'.members = mapped.members
    BY <1>1 DEF MapInv, MapTypeOK, OneConnection, Unmapped
  <1>3. MapTypeOK'
    BY <1>1, ConnectTypes DEF MapInv, MapTypeOK, server
  <1>4. OneConnection'
    BY <1>1, <1>2, ConnectTypes DEF MapInv, OneConnection
  <1> QED
    BY <1>1, <1>2, <1>3, <1>4, ConnectTypes, SilentStep DEF server

LEMMA OnCloseStep == ASSUME MapInv, OnClose PROVE MapInv'
  <1>1. /\ sock.end = "closed" /\ sock' = NoSock /\ UNCHANGED <<server, strays, load, stale>>
        /\ \/ mapped' = mapped
           \/ mapped' = [mapped EXCEPT !.retries = @ + 1, !.timer = TRUE]
    BY DEF OnClose
  <1>2. mapped.mounted /\ load.pc = "none"
    BY <1>1, NullTypes DEF MapInv, OneConnection
  <1>3. /\ mapped' \in [mounted : BOOLEAN, loading : BOOLEAN, error : BOOLEAN, retries : Nat,
                        timer : BOOLEAN, members : SUBSET Members]
        /\ mapped'.mounted /\ mapped'.members = mapped.members
    <2>1. CASE mapped' = mapped
      BY <1>2, <2>1 DEF MapInv, MapTypeOK
    <2>2. CASE mapped' = [mapped EXCEPT !.retries = @ + 1, !.timer = TRUE]
      <3> DEFINE retries == mapped.retries + 1
      <3>1. retries \in Nat /\ mapped' = [mapped EXCEPT !.retries = retries, !.timer = TRUE]
        BY <2>2 DEF MapInv, MapTypeOK
      <3> HIDE DEF retries
      <3> QED
        BY <1>2, <3>1 DEF MapInv, MapTypeOK
    <2> QED
      BY <1>1, <2>1, <2>2
  <1>4. MapTypeOK'
    BY <1>1, <1>3 DEF MapInv, MapTypeOK, server, NoSock
  <1>5. OneConnection'
    BY <1>1, <1>2, <1>3, NullTypes DEF MapInv, OneConnection
  <1> QED
    BY <1>1, <1>2, <1>3, <1>4, <1>5, NullTypes, SilentStep DEF server

LEMMA LoseConnectionStep == ASSUME MapInv, MapFault, LoseConnection PROVE MapInv'
  <1>1. /\ sock.end \in {"asked", "joined", "open"} /\ sock' = [end |-> "closed", frames |-> <<>>]
        /\ UNCHANGED <<server, strays, load, stale, mapped>>
    BY DEF LoseConnection, MapFault
  <1>2. MapTypeOK'
    BY <1>1 DEF MapInv, MapTypeOK, server
  <1>3. OneConnection'
    BY <1>1, NullTypes DEF MapInv, OneConnection
  <1> QED
    BY <1>1, <1>2, <1>3, SilentStep DEF server

LEMMA LoadFailsStep == ASSUME MapInv, MapFault, LoadFails PROVE MapInv'
  <1>1. /\ load.pc # "none" /\ load' = NoLoad
        /\ mapped' = [mapped EXCEPT !.loading = FALSE, !.error = TRUE]
        /\ UNCHANGED <<server, sock, strays, stale>>
    BY DEF LoadFails, MapFault
  <1>2. sock = NoSock /\ mapped.mounted
    BY <1>1, NullTypes DEF MapInv, OneConnection
  <1>3. /\ mapped' \in [mounted : BOOLEAN, loading : BOOLEAN, error : BOOLEAN, retries : Nat,
                        timer : BOOLEAN, members : SUBSET Members]
        /\ mapped'.mounted = mapped.mounted /\ mapped'.members = mapped.members
        /\ mapped'.timer = mapped.timer
    BY <1>1 DEF MapInv, MapTypeOK
  <1>4. MapTypeOK'
    BY <1>1, <1>3, NullTypes DEF MapInv, MapTypeOK, server
  <1>5. OneConnection'
    BY <1>1, <1>2, <1>3, NullTypes DEF MapInv, OneConnection
  <1> QED
    BY <1>1, <1>2, <1>3, <1>4, <1>5, NullTypes, SilentStep DEF server

LEMMA RetryStep == ASSUME MapInv, Retry PROVE MapInv'
  <1>1. mapped.mounted
    BY DEF Retry, MapInv, OneConnection, Unmapped
  <1> QED
    BY <1>1, ReloadStep DEF Retry

LEMMA TokenChangesStep == ASSUME MapInv, MapFault, TokenChanges PROVE MapInv'
  BY ReloadStep DEF TokenChanges, MapFault

-----------------------------------------------------------------------------
(* The steps that change what is shown, or the clock.                      *)

LEMMA TimePassesStep == ASSUME MapInv, TimePasses PROVE MapInv'
  <1>1. MapTypeOK'
    BY DEF MapInv, MapTypeOK, TimePasses
  <1> QED
    BY <1>1 DEF MapInv, OneConnection, NothingAhead, ReplacementsAreNewer, NewsIsUnderWay,
                TimePasses

LEMMA TickStep == ASSUME MapInv, Tick PROVE MapInv'
  <1>1. /\ mapped' = [mapped EXCEPT !.members = {RefreshStaleness(m, clock) : m \in @}]
        /\ UNCHANGED <<server, sock, strays, load, stale>>
    BY DEF Tick
  <1>2. mapped'.members = {RefreshStaleness(m, clock) : m \in mapped.members}
        /\ mapped.members \subseteq Members
    BY <1>1 DEF MapInv, MapTypeOK
  <1>3. \A n \in mapped'.members :
           n \in Members /\ \E m \in mapped.members : n.seen = m.seen /\ n.avatar = m.avatar
    BY <1>2, RefreshedMember
  <1>4. /\ mapped' \in [mounted : BOOLEAN, loading : BOOLEAN, error : BOOLEAN, retries : Nat,
                        timer : BOOLEAN, members : SUBSET Members]
        /\ mapped'.mounted = mapped.mounted /\ mapped'.timer = mapped.timer
    <2>1. mapped'.members \subseteq Members
      BY <1>3
    <2> DEFINE shown == mapped'.members
    <2>2. mapped' = [mapped EXCEPT !.members = shown] /\ shown \in SUBSET Members
      BY <1>1, <1>2, <2>1
    <2> HIDE DEF shown
    <2> QED
      BY <2>2 DEF MapInv, MapTypeOK
  <1>5. MapTypeOK'
    BY <1>1, <1>4 DEF MapInv, MapTypeOK, server
  <1>6. OneConnection'
    <2>1. mapped = Unmapped => mapped' = Unmapped
      BY <1>1 DEF Unmapped
    <2> QED
      BY <1>1, <1>4, <2>1 DEF MapInv, OneConnection
  <1>7. NothingAhead'
    BY <1>1, <1>3 DEF MapInv, NothingAhead, Behind, server
  <1>8. ReplacementsAreNewer'
    BY <1>1, <1>3 DEF MapInv, ReplacementsAreNewer, Behind, server
  <1>9. NewsIsUnderWay'
    BY <1>1, <1>3 DEF MapInv, NewsIsUnderWay, server
  <1> QED
    BY <1>5, <1>6, <1>7, <1>8, <1>9 DEF MapInv

(* What OnMessage does of the invariant's parts, and of what is shown.     *)
LEMMA MessageFacts ==
  ASSUME MapInv, OnMessage
  PROVE  LET head == sock.frames[1] IN
         /\ sock.end = "open" /\ sock'.end = "open" /\ load.pc = "none" /\ mapped.mounted
         /\ UNCHANGED <<server, strays, load, stale>>
         /\ head \in Frames
         /\ 1 \in DOMAIN sock.frames
         /\ sock'.frames \in Seq(Frames)
         /\ \A i \in DOMAIN sock'.frames :
               i \in Nat /\ i # 0
               /\ i + 1 \in DOMAIN sock.frames /\ sock'.frames[i] = sock.frames[i + 1]
         /\ \A i \in DOMAIN sock.frames :
               i # 1 => i - 1 \in DOMAIN sock'.frames /\ sock'.frames[i - 1] = sock.frames[i]
         /\ mapped' = [mapped EXCEPT !.members = {OnFrame(head, m) : m \in @}]
         /\ \A m \in Shown :
               /\ OnFrame(head, m) \in Members
               /\ Behind(m, OnFrame(head, m)) /\ Behind(OnFrame(head, m), row)
               /\ BringsSeen(head, row) \/ m.seen = row.seen => OnFrame(head, m).seen = row.seen
               /\ BringsAvatar(head, row) \/ m.avatar = row.avatar
                  => OnFrame(head, m).avatar = row.avatar
  <1> DEFINE head == sock.frames[1]
  <1>1. /\ sock.end = "open" /\ sock.frames # <<>> /\ sock.frames \in Seq(Frames)
        /\ sock' = [sock EXCEPT !.frames = Tail(@)]
        /\ mapped' = [mapped EXCEPT !.members = {OnFrame(Head(sock.frames), m) : m \in @}]
        /\ UNCHANGED <<server, strays, load, stale>>
    BY DEF OnMessage, MapInv, MapTypeOK
  <1>2. sock'.end = "open" /\ sock'.frames = Tail(sock.frames)
    BY <1>1 DEF MapInv, MapTypeOK
  <1>3. load.pc = "none" /\ mapped.mounted
    BY <1>1, NullTypes DEF MapInv, OneConnection
  <1>4. /\ Len(sock.frames) \in Nat /\ Len(sock.frames) # 0
        /\ DOMAIN sock.frames = 1 .. Len(sock.frames) /\ Head(sock.frames) = head
    BY <1>1
  <1>5. /\ Tail(sock.frames) \in Seq(Frames)
        /\ DOMAIN Tail(sock.frames) = 1 .. Len(sock.frames) - 1
        /\ \A i \in 1 .. Len(sock.frames) - 1 : Tail(sock.frames)[i] = sock.frames[i + 1]
    <2>1. Tail(sock.frames) \in Seq(Frames) /\ Len(Tail(sock.frames)) = Len(sock.frames) - 1
      BY <1>1
    <2>2. DOMAIN Tail(sock.frames) = 1 .. Len(Tail(sock.frames))
      BY <2>1
    <2>3. \A i \in 1 .. Len(sock.frames) - 1 : Tail(sock.frames)[i] = sock.frames[i + 1]
      BY <1>1, <1>4
    <2> QED
      BY <2>1, <2>2, <2>3
  <1>6. 1 \in DOMAIN sock.frames /\ head \in Frames /\ NotAhead(head, row)
    BY <1>1, <1>4 DEF MapInv, NothingAhead
  <1>7. \A i \in DOMAIN sock'.frames :
           i \in Nat /\ i # 0
           /\ i + 1 \in DOMAIN sock.frames /\ sock'.frames[i] = sock.frames[i + 1]
    BY <1>2, <1>4, <1>5
  <1>8. \A i \in DOMAIN sock.frames :
           i # 1 => i - 1 \in DOMAIN sock'.frames /\ sock'.frames[i - 1] = sock.frames[i]
    BY <1>2, <1>4, <1>5
  <1>9. ASSUME NEW m \in Shown
        PROVE  /\ OnFrame(head, m) \in Members
               /\ Behind(m, OnFrame(head, m)) /\ Behind(OnFrame(head, m), row)
               /\ BringsSeen(head, row) \/ m.seen = row.seen => OnFrame(head, m).seen = row.seen
               /\ BringsAvatar(head, row) \/ m.avatar = row.avatar
                  => OnFrame(head, m).avatar = row.avatar
    <2>1. m \in Members /\ row \in Rows /\ Behind(m, row)
      BY DEF MapInv, MapTypeOK, NothingAhead
    <2>2. head.type = "members" => Behind(m, head.row)
      BY <1>6 DEF MapInv, ReplacementsAreNewer
    <2> HIDE DEF head
    <2> QED
      BY <1>6, <2>1, <2>2, FrameApplied
  <1> QED
    BY <1>1, <1>2, <1>3, <1>4, <1>5, <1>6, <1>7, <1>8, <1>9

LEMMA OnMessageStep == ASSUME MapInv, OnMessage PROVE MapInv'
  <1> DEFINE head == sock.frames[1]
             shown == {OnFrame(head, m) : m \in mapped.members}
  <1>1. mapped' = [mapped EXCEPT !.members = shown] /\ shown \in SUBSET Members
    BY MessageFacts
  <1>2. /\ mapped' \in [mounted : BOOLEAN, loading : BOOLEAN, error : BOOLEAN, retries : Nat,
                        timer : BOOLEAN, members : SUBSET Members]
        /\ mapped'.mounted = mapped.mounted /\ mapped'.timer = mapped.timer
        /\ mapped'.members = shown
    <2> HIDE DEF shown
    <2> QED
      BY <1>1 DEF MapInv, MapTypeOK
  <1>3. sock' \in [end : {"none", "asked", "joined", "open", "closed"}, frames : Seq(Frames)]
    BY MessageFacts DEF OnMessage, MapInv, MapTypeOK
  <1>4. MapTypeOK'
    BY <1>2, <1>3, MessageFacts DEF MapInv, MapTypeOK, server
  <1>5. ~mapped.timer
    BY MessageFacts, NullTypes DEF MapInv, OneConnection
  <1>6. OneConnection'
    BY <1>2, <1>5, MessageFacts DEF MapInv, OneConnection
  <1>7. NothingAhead'
    BY <1>2, MessageFacts DEF MapInv, NothingAhead, server
  <1>8. ReplacementsAreNewer'
    <2>1. \A i \in DOMAIN sock'.frames : sock'.frames[i].type # "members"
      <3> SUFFICES ASSUME NEW i \in DOMAIN sock'.frames PROVE sock'.frames[i].type # "members"
        OBVIOUS
      <3>1. i \in Nat /\ i # 0 /\ i + 1 \in DOMAIN sock.frames
            /\ sock'.frames[i] = sock.frames[i + 1]
        BY MessageFacts
      <3>2. i + 1 # 1
        BY <3>1
      <3> QED
        BY <3>1, <3>2 DEF MapInv, ReplacementsAreNewer
    <2> QED
      BY <2>1, MessageFacts DEF MapInv, ReplacementsAreNewer, server
  <1>9. NewsIsUnderWay'
    <2> SUFFICES ASSUME NEW m \in Shown
                 PROVE  LET n == OnFrame(head, m) IN
                        /\ \/ n.seen = row.seen
                           \/ \E f \in casts : BringsSeen(f, row)
                           \/ \E i \in DOMAIN sock'.frames : BringsSeen(sock'.frames[i], row)
                        /\ \/ n.avatar = row.avatar
                           \/ \E f \in casts : BringsAvatar(f, row)
                           \/ \E i \in DOMAIN sock'.frames : BringsAvatar(sock'.frames[i], row)
      BY <1>2, MessageFacts DEF NewsIsUnderWay, server
    <2>1. \/ m.seen = row.seen
          \/ \E f \in casts : BringsSeen(f, row)
          \/ \E i \in DOMAIN sock.frames : BringsSeen(sock.frames[i], row)
      BY MessageFacts DEF MapInv, NewsIsUnderWay
    <2>2. \/ m.avatar = row.avatar
          \/ \E f \in casts : BringsAvatar(f, row)
          \/ \E i \in DOMAIN sock.frames : BringsAvatar(sock.frames[i], row)
      BY MessageFacts DEF MapInv, NewsIsUnderWay
    <2>3. \A i \in DOMAIN sock.frames :
             sock.frames[i] = head \/ \E j \in DOMAIN sock'.frames : sock'.frames[j] = sock.frames[i]
      BY MessageFacts
    <2> HIDE DEF head
    <2> QED
      BY <2>1, <2>2, <2>3, MessageFacts DEF head
  <1> QED
    BY <1>4, <1>6, <1>7, <1>8, <1>9 DEF MapInv

LEMMA MountMapStep == ASSUME MapInv, MountMap PROVE MapInv'
  <1>1. /\ sock = NoSock /\ strays = 0 /\ sock' = NoSock /\ strays' = 0
        /\ clock' = 0 /\ casts' = {} /\ stale' \in Nat
        /\ load' = [NoLoad EXCEPT !.pc = "sent"]
        /\ mapped' = [Unmapped EXCEPT !.mounted = TRUE, !.loading = TRUE]
    BY DEF MountMap, MapInv, MapTypeOK, OneConnection
  <1>2. row' \in Rows /\ row'.fix <= row'.seen
    <2>1. CASE row' = NoRow
      BY <2>1 DEF NoRow, Rows, Data, None
    <2>2. ASSUME NEW r \in Reports,
                 row' = [NoRow EXCEPT !.fix = 0, !.seen = 0, !.spot = r.spot,
                           !.battery = r.battery, !.accuracy = r.accuracy, !.motion = r.motion]
          PROVE  row' \in Rows /\ row'.fix <= row'.seen
      <3>1. r.spot \in Data /\ r.battery \in Data /\ r.accuracy \in Data /\ r.motion \in Data
        BY DEF Data
      <3>2. row' = [fix |-> 0, seen |-> 0, spot |-> r.spot, battery |-> r.battery,
                    accuracy |-> r.accuracy, motion |-> r.motion, avatar |-> 0]
        BY <2>2 DEF NoRow
      <3> QED
        BY <3>1, <3>2 DEF Rows
    <2> QED
      BY <2>1, <2>2 DEF MountMap
  <1>3. load' \in [pc : {"none", "sent", "read"}, row : Rows] /\ load'.pc = "sent"
    BY <1>1, NullTypes
  <1>4. /\ mapped' \in [mounted : BOOLEAN, loading : BOOLEAN, error : BOOLEAN, retries : Nat,
                        timer : BOOLEAN, members : SUBSET Members]
        /\ mapped'.mounted /\ ~mapped'.timer /\ mapped'.members = {}
    BY <1>1 DEF Unmapped
  <1>5. sock'.end = "none" /\ sock'.frames = <<>>
        /\ sock' \in [end : {"none", "asked", "joined", "open", "closed"}, frames : Seq(Frames)]
    BY <1>1, NullTypes DEF NoSock
  <1>6. MapTypeOK'
    BY <1>1, <1>2, <1>3, <1>4, <1>5 DEF MapTypeOK
  <1>7. OneConnection'
    BY <1>1, <1>3, <1>4, <1>5 DEF OneConnection
  <1>8. NothingAhead' /\ ReplacementsAreNewer' /\ NewsIsUnderWay'
    BY <1>1, <1>2, <1>3, <1>4, <1>5 DEF NothingAhead, ReplacementsAreNewer, NewsIsUnderWay
  <1> QED
    BY <1>6, <1>7, <1>8 DEF MapInv

LEMMA UnmountMapStep == ASSUME MapInv, UnmountMap PROVE MapInv'
  <1>1. /\ sock' = NoSock /\ strays' = 0 /\ clock' = 0 /\ casts' = {} /\ stale' \in Nat
        /\ row' = NoRow /\ load' = NoLoad /\ mapped' = Unmapped
    BY CleanedUpTypes DEF UnmountMap, MapInv, OneConnection
  <1>2. sock'.end = "none" /\ sock'.frames = <<>>
        /\ sock' \in [end : {"none", "asked", "joined", "open", "closed"}, frames : Seq(Frames)]
    BY <1>1, NullTypes DEF NoSock
  <1>3. row' \in Rows /\ row'.fix <= row'.seen
        /\ load' \in [pc : {"none", "sent", "read"}, row : Rows] /\ load'.pc = "none"
    BY <1>1, NullTypes DEF NoRow, None
  <1>4. /\ mapped' \in [mounted : BOOLEAN, loading : BOOLEAN, error : BOOLEAN, retries : Nat,
                        timer : BOOLEAN, members : SUBSET Members]
        /\ ~mapped'.timer /\ mapped'.members = {}
    BY <1>1 DEF Unmapped
  <1>5. MapTypeOK'
    BY <1>1, <1>2, <1>3, <1>4 DEF MapTypeOK
  <1>6. OneConnection'
    BY <1>1, <1>2, <1>3, <1>4 DEF OneConnection
  <1>7. NothingAhead' /\ ReplacementsAreNewer' /\ NewsIsUnderWay'
    BY <1>1, <1>2, <1>3, <1>4 DEF NothingAhead, ReplacementsAreNewer, NewsIsUnderWay
  <1> QED
    BY <1>5, <1>6, <1>7 DEF MapInv

LEMMA MapInvStep == MapInv /\ [MapNext \/ MountMap \/ UnmountMap]_mapVars => MapInv'
  <1> SUFFICES ASSUME MapInv, [MapNext \/ MountMap \/ UnmountMap]_mapVars PROVE MapInv'
    OBVIOUS
  <1>1. ASSUME NEW r \in Reports, ReportFix(r) PROVE MapInv'
    BY <1>1, ReportFixStep
  <1>2. CASE ReportPresence \/ PutAvatar
    BY <1>2, ReportPresenceStep, PutAvatarStep
  <1>3. CASE MapServer
    BY <1>3, BroadcastStep, RegisterStep, SnapshotStep, LoadServedStep DEF MapServer
  <1>4. CASE LoadArrives \/ StaleArrives \/ Retry
    BY <1>4, LoadArrivesStep, StaleArrivesStep, RetryStep
  <1>5. CASE OnMessage \/ OnClose \/ TimerFires
    BY <1>5, OnMessageStep, OnCloseStep, TimerFiresStep
  <1>6. CASE Tick \/ TimePasses
    BY <1>6, TickStep, TimePassesStep
  <1>7. CASE MapFault
    <2>1. LoseConnection \/ LoadFails \/ TokenChanges
      BY <1>7 DEF MapFault
    <2> QED
      BY <1>7, <2>1, LoseConnectionStep, LoadFailsStep, TokenChangesStep
  <1>8. CASE MountMap \/ UnmountMap
    BY <1>8, MountMapStep, UnmountMapStep
  <1>9. CASE UNCHANGED mapVars
    <2>1. UNCHANGED <<clock, row, casts, sock, strays, load, stale, mapped>>
      BY <1>9 DEF mapVars
    <2>2. MapTypeOK' /\ OneConnection'
      BY <2>1 DEF MapInv, MapTypeOK, OneConnection
    <2>3. NothingAhead' /\ ReplacementsAreNewer' /\ NewsIsUnderWay'
      BY <2>1 DEF MapInv, NothingAhead, ReplacementsAreNewer, NewsIsUnderWay, Behind
    <2> QED
      BY <2>2, <2>3 DEF MapInv
  <1> QED
    BY <1>1, <1>2, <1>3, <1>4, <1>5, <1>6, <1>7, <1>8, <1>9 DEF MapNext

LEMMA MapInvHolds == MapSpec => []MapInv
  BY MapInvInit, MapInvStep, PTL DEF MapSpec

-----------------------------------------------------------------------------
(* What the map's steps do to what is shown.                               *)

(* The member is one: the map's list is replaced, or mapped.               *)
OneMember == \A m, n \in Shown : m = n

LEMMA StepsOfMembers ==
  ASSUME MapInv, [MapNext \/ MountMap \/ UnmountMap]_mapVars
  PROVE  \/ mapped'.members = mapped.members \/ mapped'.members = {}
         \/ LoadArrives \/ OnMessage \/ Tick
  <1>1. ASSUME NEW r \in Reports, ReportFix(r) PROVE mapped'.members = mapped.members
    BY <1>1 DEF ReportFix
  <1>2. CASE ReportPresence \/ PutAvatar \/ StaleArrives \/ TimePasses
    BY <1>2 DEF ReportPresence, PutAvatar, StaleArrives, TimePasses
  <1>3. CASE MapServer
    BY <1>3 DEF MapServer, Broadcast, Register, Snapshot, LoadServed
  <1>4. CASE Retry
    BY <1>4 DEF Retry, Reload, MapInv, MapTypeOK
  <1>5. CASE OnClose
    BY <1>5 DEF OnClose, MapInv, MapTypeOK
  <1>6. CASE TimerFires
    BY <1>6 DEF TimerFires, MapInv, MapTypeOK
  <1>7. CASE MapFault
    BY <1>7 DEF MapFault, LoseConnection, LoadFails, TokenChanges, Reload, MapInv,
                    MapTypeOK
  <1>8. CASE MountMap \/ UnmountMap
    <2>1. /\ Unmapped.members = {}
          /\ [Unmapped EXCEPT !.mounted = TRUE, !.loading = TRUE].members = {}
      BY DEF Unmapped
    <2>2. \/ mapped' = Unmapped
          \/ mapped' = [Unmapped EXCEPT !.mounted = TRUE, !.loading = TRUE]
      BY <1>8 DEF MountMap, UnmountMap
    <2> QED
      BY <2>1, <2>2
  <1>9. CASE UNCHANGED mapVars
    BY <1>9 DEF mapVars
  <1> QED
    BY <1>1, <1>2, <1>3, <1>4, <1>5, <1>6, <1>7, <1>8, <1>9 DEF MapNext

LEMMA LoadedMembers ==
  ASSUME MapInv, LoadArrives
  PROVE  mapped'.members = {DeriveMember(load.row, clock)}
  <1> DEFINE shown == {DeriveMember(load.row, clock)}
  <1>1. mapped' = [mapped EXCEPT !.loading = FALSE, !.retries = 0, !.members = shown]
    BY DEF LoadArrives
  <1> HIDE DEF shown
  <1>2. mapped'.members = shown
    BY <1>1 DEF MapInv, MapTypeOK
  <1> QED
    BY <1>2 DEF shown

LEMMA MessagedMembers ==
  ASSUME MapInv, OnMessage
  PROVE  mapped'.members = {OnFrame(sock.frames[1], m) : m \in mapped.members}
  <1> DEFINE shown == {OnFrame(sock.frames[1], m) : m \in mapped.members}
  <1>1. mapped' = [mapped EXCEPT !.members = shown]
    BY MessageFacts
  <1> HIDE DEF shown
  <1>2. mapped'.members = shown
    BY <1>1 DEF MapInv, MapTypeOK
  <1> QED
    BY <1>2 DEF shown

LEMMA TickedMembers ==
  ASSUME MapInv, Tick
  PROVE  mapped'.members = {RefreshStaleness(m, clock) : m \in mapped.members}
  <1> DEFINE shown == {RefreshStaleness(m, clock) : m \in mapped.members}
  <1>1. mapped' = [mapped EXCEPT !.members = shown]
    BY DEF Tick
  <1> HIDE DEF shown
  <1>2. mapped'.members = shown
    BY <1>1 DEF MapInv, MapTypeOK
  <1> QED
    BY <1>2 DEF shown

LEMMA OneMemberStep ==
  MapInv /\ OneMember /\ [MapNext \/ MountMap \/ UnmountMap]_mapVars => OneMember'
  <1> SUFFICES ASSUME MapInv, OneMember, [MapNext \/ MountMap \/ UnmountMap]_mapVars
               PROVE  OneMember'
    OBVIOUS
  <1>1. CASE mapped'.members = mapped.members \/ mapped'.members = {}
    BY <1>1 DEF OneMember
  <1>2. CASE LoadArrives
    BY <1>2, LoadedMembers DEF OneMember
  <1>3. CASE OnMessage
    BY <1>3, MessagedMembers DEF OneMember
  <1>4. CASE Tick
    BY <1>4, TickedMembers DEF OneMember
  <1> QED
    BY <1>1, <1>2, <1>3, <1>4, StepsOfMembers

(* What a step makes of the member shown is no older than what was shown.  *)
LEMMA NoStepRegresses ==
  ASSUME MapInv, OneMember, [MapNext \/ MountMap \/ UnmountMap]_mapVars,
         NEW m \in Shown, NEW n \in mapped'.members
  PROVE  n.seen >= m.seen /\ n.avatar >= m.avatar
  <1>1. m \in Members /\ m.seen \in Int /\ m.avatar \in Nat
    BY DEF MapInv, MapTypeOK, Members
  <1>2. CASE mapped'.members = mapped.members
    BY <1>1, <1>2 DEF OneMember
  <1>3. CASE LoadArrives
    <2>1. load.row \in Rows /\ load.row.fix <= load.row.seen /\ Behind(m, load.row)
      BY <1>3 DEF LoadArrives, MapInv, MapTypeOK, ReplacementsAreNewer
    <2>2. n = DeriveMember(load.row, clock)
      BY <1>3, LoadedMembers
    <2>3. n.seen = load.row.seen /\ n.avatar = load.row.avatar
      BY <2>1, <2>2, DerivedMember
    <2>4. load.row.seen \in Int /\ load.row.avatar \in Nat
      BY <2>1 DEF Rows
    <2> QED
      BY <1>1, <2>1, <2>3, <2>4 DEF Behind
  <1>4. CASE OnMessage
    <2>1. n = OnFrame(sock.frames[1], m)
      BY <1>4, MessagedMembers DEF OneMember
    <2>2. n \in Members /\ Behind(m, n)
      BY <1>4, <2>1, MessageFacts
    <2>3. n.seen \in Int /\ n.avatar \in Nat
      BY <2>2 DEF Members
    <2> QED
      BY <1>1, <2>2, <2>3 DEF Behind
  <1>5. CASE Tick
    <2>1. n = RefreshStaleness(m, clock)
      BY <1>5, TickedMembers DEF OneMember
    <2>2. n.seen = m.seen /\ n.avatar = m.avatar
      BY <1>1, <2>1, RefreshedMember
    <2> QED
      BY <1>1, <2>2
  <1> QED
    BY <1>2, <1>3, <1>4, <1>5, StepsOfMembers

-----------------------------------------------------------------------------
(* The theorems.                                                           *)

(* Every variable of the map keeps its type: what the server stores, the   *)
(* frames and the members have the fields status.ts reads                  *)
(* (status.ts:236-365, MapView.tsx:228-242).                               *)
THEOREM MapTypeCorrect == MapSpec => []MapTypeOK
  BY MapInvHolds, PTL DEF MapInv

(* Whatever the map has requested, retried or scheduled, it never opens a  *)
(* stream while it has another, and once closed it has neither a stream    *)
(* nor a timer (MapView.tsx:479-483, 520, 547, 554-558).                   *)
THEOREM NoStrayConnections == MapSpec => []NoSocketOutlivesMap
  <1>1. MapInv => NoSocketOutlivesMap
    BY DEF MapInv, OneConnection, NoSocketOutlivesMap, NoSock, Unmapped
  <1> QED
    BY <1>1, MapInvHolds, PTL

(* Once nothing is under way the map shows the member's last sign of life  *)
(* and photo as they are stored, however often frames were reordered or    *)
(* the stream was replaced: a client is registered before its snapshot is  *)
(* read (hub.go:183-188, admin_ws.go:83-141, MapView.tsx:432-471).         *)
THEOREM SettledViewsAreCurrent == MapSpec => []SettledViewIsCurrent
  <1>1. MapInv => SettledViewIsCurrent
    BY DEF MapInv, NewsIsUnderWay, SettledViewIsCurrent
  <1> QED
    BY <1>1, MapInvHolds, PTL

(* While a map is open neither the last sign of life it shows nor the      *)
(* photo ever becomes older, by whatever frame, snapshot, load or tick     *)
(* (status.ts:281-365, MapView.tsx:432-471, 520-535).                      *)
THEOREM LastSeenAdvances == MapSpec => LastSeenNeverRegresses
  <1>1. MapInit => OneMember
    BY DEF MapInit, Unmapped, OneMember
  <1>2. MapInv /\ OneMember /\ [MapNext \/ MountMap \/ UnmountMap]_mapVars
        => [\A m \in Shown, n \in Shown' :
              mapped'.mounted => n.seen >= m.seen /\ n.avatar >= m.avatar]_mapVars
    BY NoStepRegresses
  <1> QED
    BY <1>1, <1>2, MapInvHolds, OneMemberStep, PTL DEF MapSpec, LastSeenNeverRegresses

-----------------------------------------------------------------------------
(* The history page.                                                       *)

AnyDay == Days \cup {NoHistory.day}
Choices == (Walkers \cup {Unset}) \X AnyDay
Circles == {CircleOf[m] : m \in Walkers} \cup {Unset}
Histories == [mounted : BOOLEAN, roster : BOOLEAN, family : Circles, member : Walkers \cup {Unset},
              day : AnyDay, hash : Choices \cup {<<>>}, event : BOOLEAN, load : BOOLEAN,
              old : SUBSET Choices, shown : SUBSET Choices, failed : BOOLEAN]

(* A closed page holds nothing; an open one has a hash, and loads only     *)
(* what is selected.                                                       *)
HistoryInv ==
    /\ hist \in Histories
    /\ ~hist.mounted => hist = NoHistory
    /\ hist.mounted => hist.hash \in Choices
    /\ hist.load => hist.member # Unset
    /\ HistoryIsOfSelection

LEMMA NoHistoryType ==
  /\ NoHistory \in Histories
  /\ ~NoHistory.mounted /\ ~NoHistory.roster /\ ~NoHistory.event /\ ~NoHistory.load
  /\ ~NoHistory.failed
  <1> DEFINE day == CHOOSE d \in Days : TRUE
  <1>1. NoHistory = [mounted |-> FALSE, roster |-> FALSE, family |-> Unset, member |-> Unset,
                     day |-> day, hash |-> <<>>, event |-> FALSE, load |-> FALSE, old |-> {},
                     shown |-> {}, failed |-> FALSE]
    BY DEF NoHistory
  <1> HIDE DEF day
  <1>2. NoHistory.day \in AnyDay
    BY DEF AnyDay
  <1> QED
    BY <1>1, <1>2 DEF Histories, Circles

(* The effects keep the types, and say what becomes of each field.         *)
LEMMA FamilyFollowed ==
  ASSUME NEW h \in Histories
  PROVE  /\ FamilyFollows(h) \in Histories
         /\ FamilyFollows(h) = [h EXCEPT !.family = FamilyFollows(h).family]
         /\ h.roster /\ h.member # Unset => FamilyFollows(h).family = CircleOf[h.member]
  BY DEF FamilyFollows, Histories, Circles

LEMMA HashFollowed ==
  ASSUME NEW h \in Histories
  PROVE  /\ HashFollows(h) \in Histories
         /\ HashFollows(h) = [h EXCEPT !.hash = Chosen(h), !.event = HashFollows(h).event]
         /\ Chosen(h) \in Choices
  BY DEF HashFollows, Histories, Chosen, Choices

LEMMA ReloadedHistory ==
  ASSUME NEW h \in Histories, NEW before \in Histories
  PROVE  LET g == Reloaded(h, before) IN
         /\ g \in Histories
         /\ ~g.failed /\ g.mounted = h.mounted /\ g.hash = h.hash /\ g.member = h.member
         /\ g.day = h.day /\ g.roster = h.roster /\ g.family = h.family /\ g.event = h.event
         /\ h.member = Unset => g.shown = {} /\ ~g.load
         /\ h.member # Unset => g.load
  <1> DEFINE old == IF before.load THEN {Chosen(before)} ELSE h.old
             f == [h EXCEPT !.old = old]
  <1>1. old \in SUBSET Choices
    BY DEF Histories, Chosen, Choices
  <1>2. Reloaded(h, before) =
          IF h.member = Unset THEN [f EXCEPT !.shown = {}, !.load = FALSE, !.failed = FALSE]
          ELSE [f EXCEPT !.load = TRUE, !.failed = FALSE]
    BY DEF Reloaded
  <1> HIDE DEF old
  <1>3. f \in Histories
    BY <1>1 DEF Histories
  <1>4. /\ f.mounted = h.mounted /\ f.hash = h.hash /\ f.member = h.member /\ f.day = h.day
        /\ f.roster = h.roster /\ f.family = h.family /\ f.event = h.event
    BY DEF Histories
  <1> HIDE DEF f
  <1>5. CASE h.member = Unset
    <2> DEFINE r == [f EXCEPT !.shown = {}, !.load = FALSE, !.failed = FALSE]
    <2>1. r \in Histories
      BY <1>3 DEF Histories
    <2>2. /\ ~r.failed /\ r.mounted = f.mounted /\ r.hash = f.hash /\ r.member = f.member
          /\ r.day = f.day /\ r.roster = f.roster /\ r.family = f.family /\ r.event = f.event
          /\ r.shown = {} /\ ~r.load
      BY <1>3 DEF Histories
    <2>3. Reloaded(h, before) = r
      BY <1>2, <1>5
    <2> HIDE DEF r
    <2> QED
      BY <1>4, <1>5, <2>1, <2>2, <2>3
  <1>6. CASE h.member # Unset
    <2> DEFINE r == [f EXCEPT !.load = TRUE, !.failed = FALSE]
    <2>1. r \in Histories
      BY <1>3 DEF Histories
    <2>2. /\ ~r.failed /\ r.mounted = f.mounted /\ r.hash = f.hash /\ r.member = f.member
          /\ r.day = f.day /\ r.roster = f.roster /\ r.family = f.family /\ r.event = f.event
          /\ r.load
      BY <1>3 DEF Histories
    <2>3. Reloaded(h, before) = r
      BY <1>2, <1>6
    <2> HIDE DEF r
    <2> QED
      BY <1>4, <1>6, <2>1, <2>2, <2>3
  <1> QED
    BY <1>5, <1>6

LEMMA HistoryInvInit == HistoryInit => HistoryInv
  BY NoHistoryType DEF HistoryInit, HistoryInv, HistoryIsOfSelection

(* The toolbar, the lists and the hash all end in Select.                  *)
LEMMA SelectStep ==
  ASSUME HistoryInv, hist.mounted, NEW h \in Histories, Select(h),
         h.mounted, h.hash \in Choices,
         h.load = hist.load, h.shown = hist.shown, h.failed = hist.failed,
         Chosen(h) = Chosen(hist) /\ ~h.event => h.hash = Chosen(h)
  PROVE  HistoryInv'
  <1> DEFINE g == FamilyFollows(h)
  <1>1. g \in Histories /\ g = [h EXCEPT !.family = g.family]
        /\ (h.roster /\ h.member # Unset => g.family = CircleOf[h.member])
    BY FamilyFollowed
  <1>2. hist' = IF Chosen(h) = Chosen(hist) THEN g ELSE Reloaded(HashFollows(g), hist)
    BY DEF Select
  <1> HIDE DEF g
  <1>3. /\ g.mounted /\ g.hash = h.hash /\ g.load = h.load /\ g.shown = h.shown
        /\ g.failed = h.failed /\ g.member = h.member /\ g.roster = h.roster
        /\ g.event = h.event /\ g.day = h.day
    BY <1>1 DEF Histories
  <1>4. CASE Chosen(h) = Chosen(hist)
    <2>1. hist' = g
      BY <1>2, <1>4
    <2>2. g.member = hist.member /\ g.day = hist.day
      BY <1>3, <1>4 DEF Chosen
    <2> QED
      BY <1>1, <1>3, <1>4, <2>1, <2>2 DEF HistoryInv, HistoryIsOfSelection, Chosen
  <1>5. CASE Chosen(h) # Chosen(hist)
    <2> DEFINE k == HashFollows(g)
               n == Reloaded(k, hist)
    <2>1. k \in Histories /\ k = [g EXCEPT !.hash = Chosen(g), !.event = k.event]
          /\ Chosen(g) \in Choices
      BY <1>1, HashFollowed
    <2>2. /\ n \in Histories
          /\ ~n.failed /\ n.mounted = k.mounted /\ n.hash = k.hash /\ n.member = k.member
          /\ n.day = k.day /\ n.roster = k.roster /\ n.family = k.family /\ n.event = k.event
          /\ (k.member = Unset => n.shown = {} /\ ~n.load) /\ (k.member # Unset => n.load)
      BY <2>1, ReloadedHistory DEF HistoryInv
    <2>3. hist' = n
      BY <1>2, <1>5
    <2> HIDE DEF k, n
    <2>4. /\ k.mounted /\ k.hash = Chosen(g) /\ k.member = g.member /\ k.day = g.day
          /\ k.roster = g.roster /\ k.family = g.family
      BY <1>1, <1>3, <2>1 DEF Histories
    <2>5. /\ n.mounted /\ n.hash = Chosen(g) /\ n.member = g.member /\ n.day = g.day
          /\ n.roster = g.roster /\ n.family = g.family
      BY <2>2, <2>4
    <2> QED
      BY <1>1, <1>3, <2>1, <2>2, <2>3, <2>4, <2>5, SMTT(30)
         DEF HistoryInv, HistoryIsOfSelection, Chosen
  <1> QED
    BY <1>4, <1>5

LEMMA HistoryInvStep ==
  HistoryInv /\ [HistoryNext \/ MountHistory \/ UnmountHistory]_hist => HistoryInv'
  <1> SUFFICES ASSUME HistoryInv, [HistoryNext \/ MountHistory \/ UnmountHistory]_hist
               PROVE  HistoryInv'
    OBVIOUS
  <1>0. /\ hist \in Histories
        /\ hist.roster \/ hist.event \/ hist.failed \/ hist.load \/ hist.old # {} => hist.mounted
    <2>1. NoHistory.old = {}
      BY DEF NoHistory
    <2> QED
      BY <2>1, NoHistoryType DEF HistoryInv
  <1>1. CASE RosterArrives
    <2> DEFINE h == [hist EXCEPT !.roster = TRUE]
    <2>1. h \in Histories /\ Chosen(h) = Chosen(hist) /\ h.mounted /\ h.hash = hist.hash
          /\ h.load = hist.load /\ h.shown = hist.shown /\ h.failed = hist.failed
          /\ h.event = hist.event
      BY <1>0, <1>1 DEF RosterArrives, Histories, Chosen
    <2>2. hist.mounted /\ Select(h)
      BY <1>1 DEF RosterArrives
    <2> HIDE DEF h
    <2> QED
      BY <2>1, <2>2, SelectStep DEF HistoryInv, HistoryIsOfSelection
  <1>2. CASE ChooseFamily
    <2>1. PICK f \in Circles : Select([hist EXCEPT !.family = f, !.member = Unset])
      BY <1>2 DEF ChooseFamily, Circles
    <2> DEFINE h == [hist EXCEPT !.family = f, !.member = Unset]
    <2>2. hist.mounted
      BY <1>0, <1>2 DEF ChooseFamily
    <2>3. h \in Histories /\ h.mounted /\ h.hash = hist.hash
          /\ h.load = hist.load /\ h.shown = hist.shown /\ h.failed = hist.failed
          /\ h.event = hist.event
      BY <1>0, <2>2 DEF Histories
    <2> HIDE DEF h
    <2> QED
      BY <2>1, <2>2, <2>3, SelectStep DEF HistoryInv, HistoryIsOfSelection, h
  <1>3. CASE ChooseMember
    <2>1. PICK m \in Walkers \cup {Unset} : Select([hist EXCEPT !.member = m])
      BY <1>3 DEF ChooseMember
    <2> DEFINE h == [hist EXCEPT !.member = m]
    <2>2. hist.mounted
      BY <1>0, <1>3 DEF ChooseMember
    <2>3. h \in Histories /\ h.mounted /\ h.hash = hist.hash
          /\ h.load = hist.load /\ h.shown = hist.shown /\ h.failed = hist.failed
          /\ h.event = hist.event
      BY <1>0, <2>2 DEF Histories
    <2> HIDE DEF h
    <2> QED
      BY <2>1, <2>2, <2>3, SelectStep DEF HistoryInv, HistoryIsOfSelection, h
  <1>4. CASE ChooseDay
    <2>1. PICK d \in Days : Select([hist EXCEPT !.day = d])
      BY <1>4 DEF ChooseDay
    <2> DEFINE h == [hist EXCEPT !.day = d]
    <2>2. hist.mounted
      BY <1>0, <1>4 DEF ChooseDay
    <2>3. h \in Histories /\ h.mounted /\ h.hash = hist.hash
          /\ h.load = hist.load /\ h.shown = hist.shown /\ h.failed = hist.failed
          /\ h.event = hist.event
      BY <1>0, <2>2 DEF Histories, AnyDay
    <2> HIDE DEF h
    <2> QED
      BY <2>1, <2>2, <2>3, SelectStep DEF HistoryInv, HistoryIsOfSelection, h
  <1>5. CASE HashIsSet
    <2>1. PICK m \in Walkers \cup {Unset}, d \in Days :
             hist' = [hist EXCEPT !.hash = <<m, d>>, !.event = TRUE]
      BY <1>5 DEF HashIsSet
    <2>2. <<m, d>> \in Choices /\ hist.mounted
      BY <1>5 DEF Choices, AnyDay, HashIsSet
    <2>3. /\ hist' \in Histories /\ hist'.mounted /\ hist'.hash \in Choices /\ hist'.event
          /\ hist'.member = hist.member /\ hist'.day = hist.day /\ hist'.load = hist.load
          /\ hist'.shown = hist.shown /\ hist'.failed = hist.failed
          /\ hist'.roster = hist.roster /\ hist'.family = hist.family
      BY <1>0, <2>1, <2>2 DEF Histories
    <2> QED
      BY <2>2, <2>3 DEF HistoryInv, HistoryIsOfSelection, Chosen
  <1>6. CASE OnHash
    <2> DEFINE h == [hist EXCEPT !.event = FALSE, !.member = hist.hash[1], !.day = hist.hash[2]]
    <2>1. hist.mounted /\ Select(h)
      BY <1>0, <1>6 DEF OnHash
    <2>2. hist.hash \in Choices
      BY <2>1 DEF HistoryInv
    <2>3. /\ hist.hash[1] \in Walkers \cup {Unset} /\ hist.hash[2] \in AnyDay
          /\ hist.hash = <<hist.hash[1], hist.hash[2]>>
      BY <2>2 DEF Choices
    <2>4. h \in Histories /\ h.mounted /\ h.hash = hist.hash
          /\ h.load = hist.load /\ h.shown = hist.shown /\ h.failed = hist.failed
          /\ h.member = hist.hash[1] /\ h.day = hist.hash[2]
      BY <1>0, <2>1, <2>3 DEF Histories
    <2> HIDE DEF h
    <2>5. h.hash = Chosen(h)
      BY <2>3, <2>4 DEF Chosen
    <2> QED
      BY <2>1, <2>2, <2>4, <2>5, SelectStep
  <1>7. CASE Retrying
    <2> DEFINE n == Reloaded(hist, hist)
    <2>1. /\ n \in Histories
          /\ ~n.failed /\ n.mounted = hist.mounted /\ n.hash = hist.hash
          /\ n.member = hist.member /\ n.day = hist.day /\ n.roster = hist.roster
          /\ n.family = hist.family /\ n.event = hist.event
          /\ (hist.member = Unset => n.shown = {} /\ ~n.load) /\ (hist.member # Unset => n.load)
      BY <1>0, ReloadedHistory
    <2>2. hist' = n /\ hist.mounted
      BY <1>0, <1>7 DEF Retrying
    <2> HIDE DEF n
    <2>3. /\ n.mounted /\ n.hash = hist.hash /\ n.member = hist.member /\ n.day = hist.day
          /\ n.roster = hist.roster /\ n.family = hist.family /\ n.event = hist.event
      BY <2>1, <2>2
    <2> QED
      BY <1>0, <2>1, <2>2, <2>3 DEF HistoryInv, HistoryIsOfSelection, Chosen
  <1>8. CASE HistoryLoaded
    <2>1. PICK shown \in {{}, {Chosen(hist)}}, failed \in BOOLEAN :
             /\ hist' = [hist EXCEPT !.load = FALSE, !.shown = shown, !.failed = failed]
             /\ failed \/ shown = {Chosen(hist)}
      <3>1. CASE hist' = [hist EXCEPT !.load = FALSE, !.shown = {Chosen(hist)}]
        <4>1. hist' = [hist EXCEPT !.load = FALSE, !.shown = {Chosen(hist)},
                                   !.failed = hist.failed]
          BY <1>0, <3>1 DEF Histories
        <4>2. hist.failed \in BOOLEAN
          BY <1>0 DEF Histories
        <4> QED
          BY <4>1, <4>2
      <3>2. CASE hist' = [hist EXCEPT !.load = FALSE, !.shown = {}, !.failed = TRUE]
        BY <3>2
      <3> QED
        BY <1>8, <3>1, <3>2 DEF HistoryLoaded
    <2>2. hist.mounted /\ hist.member # Unset /\ Chosen(hist) \in Choices
      BY <1>0, <1>8 DEF HistoryLoaded, HistoryInv, Histories, Chosen, Choices
    <2>3. /\ hist' \in Histories /\ hist'.mounted /\ ~hist'.load
          /\ hist'.shown = shown /\ hist'.failed = failed
          /\ hist'.member = hist.member /\ hist'.day = hist.day /\ hist'.hash = hist.hash
          /\ hist'.roster = hist.roster /\ hist'.family = hist.family
          /\ hist'.event = hist.event
      BY <1>0, <2>1, <2>2 DEF Histories
    <2> QED
      BY <2>1, <2>2, <2>3 DEF HistoryInv, HistoryIsOfSelection, Chosen
  <1>9. CASE StaleHistory
    <2>1. hist.mounted /\ hist' = [hist EXCEPT !.old = {}]
      BY <1>0, <1>9 DEF StaleHistory, StaleDropped
    <2>2. /\ hist' \in Histories /\ hist'.mounted /\ hist'.load = hist.load
          /\ hist'.shown = hist.shown /\ hist'.failed = hist.failed
          /\ hist'.member = hist.member /\ hist'.day = hist.day /\ hist'.hash = hist.hash
          /\ hist'.roster = hist.roster /\ hist'.family = hist.family
          /\ hist'.event = hist.event
      BY <1>0, <2>1 DEF Histories
    <2> QED
      BY <2>1, <2>2 DEF HistoryInv, HistoryIsOfSelection, Chosen
  <1>10. CASE MountHistory
    <2>1. PICK m \in Walkers \cup {Unset}, d \in Days :
             LET h == [NoHistory EXCEPT !.mounted = TRUE, !.member = m, !.day = d]
             IN  hist' = Reloaded(HashFollows(h), NoHistory)
      BY <1>10 DEF MountHistory
    <2> DEFINE h == [NoHistory EXCEPT !.mounted = TRUE, !.member = m, !.day = d]
               k == HashFollows(h)
               n == Reloaded(k, NoHistory)
    <2>2. h \in Histories /\ h.mounted /\ ~h.roster
      BY NoHistoryType DEF Histories, AnyDay
    <2>3. hist' = n
      BY <2>1
    <2> HIDE DEF h
    <2>4. k \in Histories /\ k = [h EXCEPT !.hash = Chosen(h), !.event = k.event]
          /\ Chosen(h) \in Choices
      BY <2>2, HashFollowed
    <2>5. /\ n \in Histories
          /\ ~n.failed /\ n.mounted = k.mounted /\ n.hash = k.hash /\ n.member = k.member
          /\ n.day = k.day /\ n.roster = k.roster /\ n.family = k.family /\ n.event = k.event
          /\ (k.member = Unset => n.shown = {} /\ ~n.load) /\ (k.member # Unset => n.load)
      BY <2>4, NoHistoryType, ReloadedHistory
    <2> HIDE DEF k, n
    <2>6. /\ k.mounted /\ k.hash = Chosen(h) /\ k.member = h.member /\ k.day = h.day /\ ~k.roster
      BY <2>2, <2>4 DEF Histories
    <2>7. /\ n.mounted /\ n.hash = Chosen(h) /\ n.member = h.member /\ n.day = h.day /\ ~n.roster
      BY <2>5, <2>6
    <2> QED
      BY <2>3, <2>4, <2>5, <2>6, <2>7 DEF HistoryInv, HistoryIsOfSelection, Chosen
  <1>11. CASE UnmountHistory
    BY <1>11, NoHistoryType DEF UnmountHistory, HistoryInv, HistoryIsOfSelection
  <1>12. CASE UNCHANGED hist
    BY <1>12 DEF HistoryInv, HistoryIsOfSelection, Chosen
  <1> QED
    BY <1>1, <1>2, <1>3, <1>4, <1>5, <1>6, <1>7, <1>8, <1>9, <1>10, <1>11, <1>12 DEF HistoryNext

(* However the toolbar, the hash, the lists and the loads overlap, a trail *)
(* that is shown is the selected member's on the selected day, the family  *)
(* is the member's, and the hash is the selection once the browser has     *)
(* told all its changes (HistoryPage.tsx:107-169).                         *)
THEOREM HistoryFollowsSelection == HistorySpec => []HistoryIsOfSelection
  <1>1. HistoryInv => HistoryIsOfSelection
    BY DEF HistoryInv
  <1> QED
    BY <1>1, HistoryInvInit, HistoryInvStep, PTL DEF HistorySpec

-----------------------------------------------------------------------------
(* The families page.                                                      *)

Asyncs(V) == [loading : BOOLEAN, failed : BOOLEAN, data : SUBSET V,
              at : {"none", "sent", "read"}, got : SUBSET V, old : SUBSET V]
Lists == [rev : Nat, has : BOOLEAN]
FamDbs == [list : Nat, members : Nat, there : BOOLEAN]
Kinds == {"create", "rename", "delete", "invite", "move"}

FamiliesTypeOK ==
    /\ famDb \in FamDbs /\ famDone \in FamDbs
    /\ famEdits \subseteq [kind : Kinds, own : BOOLEAN, stage : {"sent", "applied"}]
    /\ fam \in [mounted : BOOLEAN, list : Asyncs(Lists),
                row : [open : BOOLEAN, busy : BOOLEAN, members : Asyncs(Nat)]]

(* What a query shows, or is about to show, is among some values.          *)
Within(a, good) ==
    /\ a.at = "read" => a.got \subseteq good
    /\ SettledAsync(a) => a.data \subseteq good

ListsSince(rev) == {l \in Lists : l.rev >= rev}
RevsSince(rev) == {r \in Nat : r >= rev}

(* The server has what it has answered, and no query has read it earlier.  *)
FamiliesInv ==
    /\ FamiliesTypeOK
    /\ famDone.list <= famDb.list /\ famDone.members <= famDb.members
    /\ Within(fam.list, ListsSince(famDone.list))
    /\ Within(fam.row.members, RevsSince(famDone.members))

LEMMA NewQueries ==
  ASSUME NEW V
  PROVE  /\ NewAsync \in Asyncs(V) /\ NewAsync.loading /\ NewAsync.at = "sent"
         /\ NoAsync \in Asyncs(V) /\ NoAsync.at = "none" /\ NoAsync.data = {}
  BY DEF NewAsync, NoAsync, Asyncs

LEMMA QueryRefetched ==
  ASSUME NEW V, NEW a \in Asyncs(V), NEW now \in V
  PROVE  /\ Cancelled(a, now) \in Asyncs(V)
         /\ Refetched(a, now) \in Asyncs(V)
         /\ Refetched(a, now).loading /\ Refetched(a, now).at = "sent"
  <1> DEFINE old == IF a.at = "none" THEN a.old ELSE IF a.at = "sent" THEN {now} ELSE a.got
  <1>1. old \in SUBSET V
    BY DEF Asyncs
  <1>2. Cancelled(a, now) = [a EXCEPT !.at = "none", !.got = {}, !.old = old]
    BY DEF Cancelled
  <1> HIDE DEF old
  <1>3. Cancelled(a, now) \in Asyncs(V)
    BY <1>1, <1>2 DEF Asyncs
  <1> QED
    BY <1>3 DEF Refetched, Asyncs

LEMMA QueryStepped ==
  ASSUME NEW V, NEW a \in Asyncs(V), NEW now \in V, NEW good, now \in good, Within(a, good),
         NEW b \in AsyncSteps(a, now)
  PROVE  b \in Asyncs(V) /\ Within(b, good)
  <1>1. CASE a.at = "sent" /\ b = [a EXCEPT !.at = "read", !.got = {now}]
    BY <1>1 DEF Asyncs, Within, SettledAsync
  <1>2. CASE a.at = "read" /\ b = Arrived(a)
    BY <1>2 DEF Asyncs, Within, SettledAsync, Arrived
  <1>3. CASE b = FailedAsync(a)
    BY <1>3 DEF Asyncs, Within, SettledAsync, FailedAsync
  <1>4. ASSUME NEW v, b = StaleArrived(a, v) PROVE b \in Asyncs(V) /\ Within(b, good)
    BY <1>4 DEF Asyncs, Within, SettledAsync, StaleArrived
  <1> QED
    BY <1>1, <1>2, <1>3, <1>4 DEF AsyncSteps

(* A query that has just begun, or a row that is no more, shows nothing.   *)
LEMMA NothingShown ==
  ASSUME NEW a, NEW good,
         \/ a.loading = TRUE /\ a.at = "sent"
         \/ a.at = "none" /\ a.data = {}
  PROVE  Within(a, good)
  BY DEF Within, SettledAsync

LEMMA FreshValues ==
  ASSUME FamiliesInv
  PROVE  /\ FamList \in Lists /\ FamList \in ListsSince(famDone.list)
         /\ famDb.members \in Nat /\ famDb.members \in RevsSince(famDone.members)
  BY DEF FamiliesInv, FamiliesTypeOK, FamDbs, Lists, FamList, ListsSince, RevsSince

LEMMA NoRowType ==
  /\ NoFamRow \in [open : BOOLEAN, busy : BOOLEAN, members : Asyncs(Nat)]
  /\ NoFamRow.members = NoAsync
  BY NewQueries DEF NoFamRow

LEMMA ListRefetched ==
  ASSUME FamiliesInv
  PROVE  LET p == WithListRefetched(fam) IN
         /\ p \in [mounted : BOOLEAN, list : Asyncs(Lists),
                   row : [open : BOOLEAN, busy : BOOLEAN, members : Asyncs(Nat)]]
         /\ p.list.loading
         /\ \A good : Within(p.list, good) /\ Within(p.row.members, good)
  <1> DEFINE list == Refetched(fam.list, FamList)
             p == WithListRefetched(fam)
  <1>1. list \in Asyncs(Lists) /\ list.loading /\ list.at = "sent"
    BY FreshValues, QueryRefetched DEF FamiliesInv, FamiliesTypeOK
  <1>2. p = [fam EXCEPT !.list = list, !.row = NoFamRow]
    BY DEF WithListRefetched
  <1> HIDE DEF list, p
  <1>3. /\ p \in [mounted : BOOLEAN, list : Asyncs(Lists),
                  row : [open : BOOLEAN, busy : BOOLEAN, members : Asyncs(Nat)]]
        /\ p.list = list /\ p.row = NoFamRow
    BY <1>1, <1>2, NoRowType DEF FamiliesInv, FamiliesTypeOK
  <1>4. list.loading = TRUE
    BY <1>1 DEF Asyncs
  <1>5. \A good : Within(p.list, good)
    BY <1>1, <1>3, <1>4, NothingShown
  <1>6. \A good : Within(p.row.members, good)
    BY <1>3, NoRowType, NewQueries, NothingShown
  <1> QED
    BY <1>1, <1>3, <1>5, <1>6 DEF p

LEMMA FamiliesInvInit == FamInit => FamiliesInv
  <1> SUFFICES ASSUME FamInit PROVE FamiliesInv
    OBVIOUS
  <1>1. fam = [mounted |-> FALSE, list |-> NoAsync, row |-> NoFamRow]
    BY DEF FamInit, NoFamPage
  <1>2. FamiliesTypeOK
    BY <1>1, NewQueries, NoRowType DEF FamInit, FamiliesTypeOK, FamDb0, FamDbs
  <1>3. famDone.list <= famDb.list /\ famDone.members <= famDb.members
    BY DEF FamInit, FamDb0
  <1>4. fam.list = NoAsync /\ fam.row.members = NoAsync
    BY <1>1, NoRowType
  <1> QED
    BY <1>2, <1>3, <1>4, NewQueries, NothingShown DEF FamiliesInv

(* A step of the page that leaves the server and what is done alone.       *)
LEMMA PageStep ==
  ASSUME FamiliesInv, UNCHANGED <<famDb, famDone>>,
         famEdits' \subseteq [kind : Kinds, own : BOOLEAN, stage : {"sent", "applied"}],
         fam' \in [mounted : BOOLEAN, list : Asyncs(Lists),
                  row : [open : BOOLEAN, busy : BOOLEAN, members : Asyncs(Nat)]],
         Within(fam'.list, ListsSince(famDone.list)),
         Within(fam'.row.members, RevsSince(famDone.members))
  PROVE  FamiliesInv'
  BY DEF FamiliesInv, FamiliesTypeOK, Within, SettledAsync, ListsSince, RevsSince

LEMMA DisownedEdits ==
  ASSUME NEW edits \in SUBSET [kind : Kinds, own : BOOLEAN, stage : {"sent", "applied"}]
  PROVE  Disowned(edits) \subseteq [kind : Kinds, own : BOOLEAN, stage : {"sent", "applied"}]
  BY DEF Disowned

(* A step of the server, and what the queries show of it stays known.      *)
LEMMA ServerStep ==
  ASSUME FamiliesInv, UNCHANGED <<fam, famDone>>, NEW kind \in Kinds,
         famDb' = Effect(famDb, kind),
         famEdits' \subseteq [kind : Kinds, own : BOOLEAN, stage : {"sent", "applied"}]
  PROVE  FamiliesInv'
  <1>1. famDb' \in FamDbs /\ famDb'.list >= famDb.list /\ famDb'.members >= famDb.members
    <2>1. famDb \in FamDbs
      BY DEF FamiliesInv, FamiliesTypeOK
    <2>2. CASE kind \in {"create", "rename"}
      <3>1. famDb' = [famDb EXCEPT !.list = @ + 1]
        BY <2>2 DEF Effect
      <3> QED
        BY <2>1, <3>1 DEF FamDbs
    <2>3. CASE kind = "delete"
      <3>1. famDb' = [list |-> famDb.list + 1, members |-> famDb.members + 1, there |-> FALSE]
        BY <2>1, <2>3 DEF Effect, FamDbs
      <3> QED
        BY <2>1, <3>1 DEF FamDbs
    <2>4. CASE kind = "invite"
      <3>1. famDb' = famDb
        BY <2>4 DEF Effect
      <3> QED
        BY <2>1, <3>1 DEF FamDbs
    <2>5. CASE kind = "move"
      <3>1. famDb' = [list |-> famDb.list + 1, members |-> famDb.members + 1,
                      there |-> famDb.there]
        BY <2>1, <2>5 DEF Effect, FamDbs
      <3> QED
        BY <2>1, <3>1 DEF FamDbs
    <2> QED
      BY <2>2, <2>3, <2>4, <2>5 DEF Kinds
  <1>2. famDone.list <= famDb'.list /\ famDone.members <= famDb'.members
    BY <1>1 DEF FamiliesInv, FamiliesTypeOK, FamDbs
  <1> QED
    BY <1>1, <1>2 DEF FamiliesInv, FamiliesTypeOK, Within, SettledAsync, ListsSince, RevsSince

LEMMA FamilyListStepKeeps == ASSUME FamiliesInv, FamilyListStep PROVE FamiliesInv'
  <1>1. PICK a \in AsyncSteps(fam.list, FamList) : fam' = [fam EXCEPT !.list = a]
    BY DEF FamilyListStep
  <1>2. a \in Asyncs(Lists) /\ Within(a, ListsSince(famDone.list))
    BY FreshValues, QueryStepped DEF FamiliesInv, FamiliesTypeOK
  <1>3. /\ fam' \in [mounted : BOOLEAN, list : Asyncs(Lists),
                     row : [open : BOOLEAN, busy : BOOLEAN, members : Asyncs(Nat)]]
        /\ fam'.list = a /\ fam'.row = fam.row
    BY <1>1, <1>2 DEF FamiliesInv, FamiliesTypeOK
  <1> QED
    BY <1>2, <1>3, PageStep DEF FamilyListStep, FamiliesInv, FamiliesTypeOK

LEMMA RefreshFamiliesKeeps == ASSUME FamiliesInv, RefreshFamilies PROVE FamiliesInv'
  <1>1. famEdits' \subseteq [kind : Kinds, own : BOOLEAN, stage : {"sent", "applied"}]
    BY DisownedEdits DEF RefreshFamilies, FamiliesInv, FamiliesTypeOK
  <1> QED
    BY <1>1, ListRefetched, PageStep DEF RefreshFamilies

(* What the row may become, whose list of members is another query.        *)
LEMMA RowReplaced ==
  ASSUME FamiliesInv, NEW open \in BOOLEAN, NEW a \in Asyncs(Nat),
         Within(a, RevsSince(famDone.members)),
         fam' = [fam EXCEPT !.row = [open |-> open, busy |-> fam.row.busy, members |-> a]],
         UNCHANGED <<famDb, famEdits, famDone>>
  PROVE  FamiliesInv'
  <1>1. /\ fam' \in [mounted : BOOLEAN, list : Asyncs(Lists),
                     row : [open : BOOLEAN, busy : BOOLEAN, members : Asyncs(Nat)]]
        /\ fam'.list = fam.list /\ fam'.row.members = a
    BY DEF FamiliesInv, FamiliesTypeOK
  <1> QED
    BY <1>1, PageStep DEF FamiliesInv, FamiliesTypeOK

LEMMA MembersRefetched ==
  ASSUME FamiliesInv
  PROVE  LET a == Refetched(fam.row.members, famDb.members) IN
         a \in Asyncs(Nat) /\ \A good : Within(a, good)
  <1> DEFINE a == Refetched(fam.row.members, famDb.members)
  <1>1. a \in Asyncs(Nat) /\ a.loading /\ a.at = "sent"
    BY FreshValues, QueryRefetched DEF FamiliesInv, FamiliesTypeOK
  <1> HIDE DEF a
  <1>2. a.loading = TRUE
    BY <1>1 DEF Asyncs
  <1>3. \A good : Within(a, good)
    BY <1>1, <1>2, NothingShown
  <1> QED
    BY <1>1, <1>3 DEF a

LEMMA ToggleRowKeeps == ASSUME FamiliesInv, ToggleRow PROVE FamiliesInv'
  <1> DEFINE now == famDb.members
             closed == ClosedAsync(fam.row.members, now)
             opened == Refetched(fam.row.members, now)
  <1>0. fam' = [fam EXCEPT !.row =
                  [open |-> ~fam.row.open, busy |-> fam.row.busy,
                   members |-> IF fam.row.open THEN closed ELSE opened]]
    BY DEF ToggleRow
  <1> HIDE DEF closed, opened
  <1>1. CASE fam.row.open
    <2>1. closed \in Asyncs(Nat) /\ closed.at = "none" /\ closed.data = {}
      <3>1. Cancelled(fam.row.members, now) \in Asyncs(Nat)
        BY FreshValues, QueryRefetched DEF FamiliesInv, FamiliesTypeOK
      <3>2. Cancelled(fam.row.members, now).old \in SUBSET Nat
        BY <3>1 DEF Asyncs
      <3> QED
        BY <3>2, NewQueries DEF ClosedAsync, Asyncs, closed
    <2>2. fam' = [fam EXCEPT !.row = [open |-> FALSE, busy |-> fam.row.busy,
                                      members |-> closed]]
      BY <1>0, <1>1
    <2>3. Within(closed, RevsSince(famDone.members))
      BY <2>1, NothingShown
    <2> QED
      BY <2>1, <2>2, <2>3, RowReplaced DEF ToggleRow
  <1>2. CASE ~fam.row.open
    <2>1. opened \in Asyncs(Nat) /\ Within(opened, RevsSince(famDone.members))
      BY MembersRefetched DEF opened
    <2>2. fam' = [fam EXCEPT !.row = [open |-> TRUE, busy |-> fam.row.busy,
                                      members |-> opened]]
      BY <1>0, <1>2
    <2> QED
      BY <2>1, <2>2, RowReplaced DEF ToggleRow
  <1> QED
    BY <1>1, <1>2

LEMMA RowStepKeeps == ASSUME FamiliesInv, RowStep PROVE FamiliesInv'
  <1>0. fam.row.open \in BOOLEAN /\ UNCHANGED <<famDb, famEdits, famDone>>
    BY DEF RowStep, FamiliesInv, FamiliesTypeOK
  <1>1. ASSUME NEW a \in Asyncs(Nat), Within(a, RevsSince(famDone.members)),
               fam' = [fam EXCEPT !.row.members = a]
        PROVE  FamiliesInv'
    <2>1. fam' = [fam EXCEPT !.row = [open |-> fam.row.open, busy |-> fam.row.busy,
                                      members |-> a]]
      BY <1>1 DEF FamiliesInv, FamiliesTypeOK
    <2> QED
      BY <1>0, <1>1, <2>1, RowReplaced
  <1>2. ASSUME NEW a \in AsyncSteps(fam.row.members, famDb.members)
        PROVE  a \in Asyncs(Nat) /\ Within(a, RevsSince(famDone.members))
    BY FreshValues, QueryStepped DEF FamiliesInv, FamiliesTypeOK
  <1>3. CASE fam' = [fam EXCEPT !.row.members = Refetched(@, famDb.members)]
    <2>1. fam' = [fam EXCEPT !.row.members = Refetched(fam.row.members, famDb.members)]
      BY <1>3
    <2> QED
      BY <1>1, <2>1, MembersRefetched
  <1> QED
    BY <1>1, <1>2, <1>3 DEF RowStep

(* The beginning of an edit, and of its end, change no query.              *)
LEMMA BusyStep ==
  ASSUME FamiliesInv, UNCHANGED <<famDb, famDone>>, NEW busy \in BOOLEAN,
         fam' = fam \/ fam' = [fam EXCEPT !.row.busy = busy],
         famEdits' \subseteq [kind : Kinds, own : BOOLEAN, stage : {"sent", "applied"}]
  PROVE  FamiliesInv'
  <1>1. /\ fam' \in [mounted : BOOLEAN, list : Asyncs(Lists),
                     row : [open : BOOLEAN, busy : BOOLEAN, members : Asyncs(Nat)]]
        /\ fam'.list = fam.list /\ fam'.row.members = fam.row.members
    BY DEF FamiliesInv, FamiliesTypeOK
  <1> QED
    BY <1>1, PageStep DEF FamiliesInv

LEMMA BeginsKeeps ==
  ASSUME FamiliesInv, NEW kind \in Kinds, Begins(kind),
         fam' = fam \/ fam' = [fam EXCEPT !.row.busy = TRUE]
  PROVE  FamiliesInv'
  <1>1. famEdits' \subseteq [kind : Kinds, own : BOOLEAN, stage : {"sent", "applied"}]
    <2>1. [kind |-> kind, own |-> TRUE, stage |-> "sent"]
             \in [kind : Kinds, own : BOOLEAN, stage : {"sent", "applied"}]
      OBVIOUS
    <2>2. famEdits' = famEdits \cup {[kind |-> kind, own |-> TRUE, stage |-> "sent"]}
      BY Zenon DEF Begins
    <2> QED
      BY Zenon, <2>1, <2>2 DEF FamiliesInv, FamiliesTypeOK
  <1> QED
    BY <1>1, BusyStep DEF Begins

LEMMA EditAppliedKeeps ==
  ASSUME FamiliesInv, NEW e \in famEdits, EditApplied(e) PROVE FamiliesInv'
  <1>1. e \in [kind : Kinds, own : BOOLEAN, stage : {"sent", "applied"}]
    BY DEF FamiliesInv, FamiliesTypeOK
  <1>2. famEdits' \subseteq [kind : Kinds, own : BOOLEAN, stage : {"sent", "applied"}]
    BY <1>1 DEF EditApplied, FamiliesInv, FamiliesTypeOK
  <1>3. e.kind \in Kinds
    BY <1>1
  <1> QED
    BY <1>2, <1>3, ServerStep DEF EditApplied

LEMMA EditFailsKeeps ==
  ASSUME FamiliesInv, NEW e \in famEdits, EditFails(e) PROVE FamiliesInv'
  <1>1. famEdits' \subseteq [kind : Kinds, own : BOOLEAN, stage : {"sent", "applied"}]
    BY DEF EditFails, FamiliesInv, FamiliesTypeOK
  <1>2. fam' = fam \/ fam' = [fam EXCEPT !.row.busy = FALSE]
    BY DEF EditFails
  <1> QED
    BY <1>1, <1>2, BusyStep DEF EditFails

(* An answer that tells of a change starts the list's next run, so that    *)
(* nothing is shown that was read before it.                               *)
LEMMA EditAnsweredKeeps ==
  ASSUME FamiliesInv, NEW e \in famEdits, EditAnswered(e) PROVE FamiliesInv'
  <1>1. e \in [kind : Kinds, own : BOOLEAN, stage : {"sent", "applied"}]
    BY DEF FamiliesInv, FamiliesTypeOK
  <1>2. famEdits' \subseteq [kind : Kinds, own : BOOLEAN, stage : {"sent", "applied"}]
    <2>1. famEdits \ {e} \in SUBSET [kind : Kinds, own : BOOLEAN, stage : {"sent", "applied"}]
      BY DEF FamiliesInv, FamiliesTypeOK
    <2> QED
      BY <2>1, DisownedEdits DEF EditAnswered
  <1>3. CASE e.kind = "invite"
    <2>1. famDone' = famDone /\ famDb' = famDb
      BY <1>3 DEF EditAnswered, Told
    <2>2. fam' = fam \/ fam' = [fam EXCEPT !.row.busy = FALSE]
      BY <1>3 DEF EditAnswered, Answered
    <2> QED
      BY <1>2, <2>1, <2>2, BusyStep
  <1>4. CASE e.kind # "invite"
    <2>1. famDone' = famDb /\ famDb' = famDb
      BY <1>4 DEF EditAnswered, Told
    <2>2. e.kind \in {"create", "rename", "delete", "move"}
      BY <1>1, <1>4 DEF Kinds
    <2>3. fam' = WithListRefetched(fam)
      BY <2>2 DEF EditAnswered, Answered, AfterMove
    <2>4. famDb.list \in Nat /\ famDb.members \in Nat /\ famDb \in FamDbs
      BY DEF FamiliesInv, FamiliesTypeOK, FamDbs
    <2>5. FamiliesTypeOK'
      BY <1>2, <2>1, <2>3, <2>4, ListRefetched DEF FamiliesTypeOK
    <2>6. /\ Within(fam'.list, ListsSince(famDb.list))
          /\ Within(fam'.row.members, RevsSince(famDb.members))
      BY <2>3, ListRefetched
    <2> QED
      BY <2>1, <2>4, <2>5, <2>6
         DEF FamiliesInv, Within, SettledAsync, ListsSince, RevsSince
  <1> QED
    BY <1>3, <1>4

LEMMA FamiliesVisit ==
  ASSUME FamiliesInv, MountFamilies \/ UnmountFamilies PROVE FamiliesInv'
  <1>1. /\ famDb' = FamDb0 /\ famDone' = FamDb0 /\ famEdits' = {}
        /\ \/ fam' = [NoFamPage EXCEPT !.mounted = TRUE, !.list = NewAsync]
           \/ fam' = NoFamPage
    BY DEF MountFamilies, UnmountFamilies
  <1>2. /\ fam' \in [mounted : BOOLEAN, list : Asyncs(Lists),
                     row : [open : BOOLEAN, busy : BOOLEAN, members : Asyncs(Nat)]]
        /\ fam'.list \in {NewAsync, NoAsync} /\ fam'.row.members = NoAsync
    <2>1. fam' = [mounted |-> TRUE, list |-> NewAsync, row |-> NoFamRow]
          \/ fam' = [mounted |-> FALSE, list |-> NoAsync, row |-> NoFamRow]
      BY <1>1 DEF NoFamPage
    <2>2. NewAsync \in Asyncs(Lists) /\ NoAsync \in Asyncs(Lists)
      BY NewQueries
    <2>3. CASE fam' = [mounted |-> TRUE, list |-> NewAsync, row |-> NoFamRow]
      BY <2>2, <2>3, NoRowType
    <2>4. CASE fam' = [mounted |-> FALSE, list |-> NoAsync, row |-> NoFamRow]
      BY <2>2, <2>4, NoRowType
    <2> QED
      BY <2>1, <2>3, <2>4
  <1>3. NewAsync.loading = TRUE
    BY DEF NewAsync
  <1>4. \A good : Within(fam'.list, good) /\ Within(fam'.row.members, good)
    BY <1>2, <1>3, NewQueries, NothingShown
  <1>5. FamiliesTypeOK'
    BY <1>1, <1>2 DEF FamiliesTypeOK, FamDb0, FamDbs
  <1>6. famDone'.list <= famDb'.list /\ famDone'.members <= famDb'.members
    BY <1>1 DEF FamDb0
  <1>7. /\ Within(fam'.list, ListsSince(famDone'.list))
        /\ Within(fam'.row.members, RevsSince(famDone'.members))
    BY <1>4
  <1> QED
    BY <1>5, <1>6, <1>7 DEF FamiliesInv, Within, SettledAsync, ListsSince, RevsSince

LEMMA FamiliesInvStep ==
  FamiliesInv /\ [FamiliesNext \/ MountFamilies \/ UnmountFamilies]_famVars => FamiliesInv'
  <1> SUFFICES ASSUME FamiliesInv, [FamiliesNext \/ MountFamilies \/ UnmountFamilies]_famVars
               PROVE  FamiliesInv'
    OBVIOUS
  <1>1. CASE FamilyListStep \/ RefreshFamilies \/ ToggleRow \/ RowStep
    BY <1>1, FamilyListStepKeeps, RefreshFamiliesKeeps, ToggleRowKeeps, RowStepKeeps
  <1>2. CASE SubmitNew \/ DoInRow \/ DoMove
    <2>1. PICK kind \in Kinds : Begins(kind)
      BY <1>2 DEF SubmitNew, DoInRow, DoMove, Kinds
    <2>2. fam' = fam \/ fam' = [fam EXCEPT !.row.busy = TRUE]
      BY <1>2 DEF SubmitNew, DoInRow, DoMove
    <2> QED
      BY <2>1, <2>2, BeginsKeeps
  <1>3. CASE OthersEdit
    <2>1. PICK kind \in Kinds : famDb' = Effect(famDb, kind)
      BY <1>3 DEF OthersEdit, Kinds
    <2>2. famEdits' \subseteq [kind : Kinds, own : BOOLEAN, stage : {"sent", "applied"}]
      BY <1>3 DEF OthersEdit, FamiliesInv, FamiliesTypeOK
    <2> QED
      BY <1>3, <2>1, <2>2, ServerStep DEF OthersEdit
  <1>4. ASSUME NEW e \in famEdits, EditApplied(e) \/ EditAnswered(e) \/ EditFails(e)
        PROVE  FamiliesInv'
    BY <1>4, EditAppliedKeeps, EditAnsweredKeeps, EditFailsKeeps
  <1>5. CASE MountFamilies \/ UnmountFamilies
    BY <1>5, FamiliesVisit
  <1>6. CASE UNCHANGED famVars
    BY <1>6 DEF famVars, FamiliesInv, FamiliesTypeOK, Within, SettledAsync, ListsSince, RevsSince
  <1> QED
    BY <1>1, <1>2, <1>3, <1>4, <1>5, <1>6 DEF FamiliesNext

(* However the user's edits, others' edits and refetches overlap, a list   *)
(* and the members of an open row that are shown are no older than the     *)
(* user's last answered edit: a page that shows a list has requested it    *)
(* after that answer (FamiliesPage.tsx:207, 385, 399, 569-572).            *)
THEOREM EditsStayShown == FamiliesSpec => []EditsAreShown
  <1>1. FamiliesInv => EditsAreShown
    BY DEF FamiliesInv, EditsAreShown, Within, ListsSince, RevsSince
  <1> QED
    BY <1>1, FamiliesInvInit, FamiliesInvStep, PTL DEF FamiliesSpec

-----------------------------------------------------------------------------
(* What queries are like that have just begun, or that are none.           *)
LEMMA PlainQueries ==
  /\ NewAsync.old = {} /\ NewAsync.at = "sent" /\ NewAsync.loading = TRUE /\ NewAsync.data = {}
  /\ NoAsync.old = {} /\ NoAsync.at = "none" /\ NoAsync.data = {} /\ NoAsync.got = {}
  BY DEF NewAsync, NoAsync

-----------------------------------------------------------------------------
(* The users page.                                                         *)

UserDbs == [family : UserFamilies, role : UserRoles, rev : Nat, other : BOOLEAN]
Accounts == [family : UserFamilies, role : UserRoles, rev : Nat]
Wishes == [family : UserFamilies, role : UserRoles]
Saves == [stage : {"none", "assign", "role"}, want : SUBSET Wishes, served : BOOLEAN,
          got : SUBSET Accounts, done : BOOLEAN]
UserPages == [mounted : BOOLEAN, list : Asyncs(UserDbs), shown : SUBSET Accounts, save : Saves,
              create : {"none", "sent", "applied"}, others : Nat, applied : Nat,
              lapped : BOOLEAN, mixed : BOOLEAN, halfway : BOOLEAN]

UsersTypeOK == userDb \in UserDbs /\ users \in UserPages

(* What the account was at one of its revisions up to the present.         *)
Known(db) == {r \in Accounts : r.rev <= db.rev /\ (r.rev = db.rev => r = Account(db))}

(* The list's query is the only one.  What it has read was stored, and     *)
(* after the page's last call, as long as no edit has overlapped with it.  *)
ListIsRead ==
    LET list == users.list IN
    /\ list.old = {}
    /\ list.at # "none" => list.loading
    /\ list.at = "read" => list.got # {}
    /\ list.at = "read" => \A d \in list.got : Account(d) \in Known(userDb)
    /\ list.at = "read" /\ ~users.lapped =>
          \A d \in list.got : d.rev >= users.applied /\ d.other = userDb.other
    /\ Editing(users) => users.lapped /\ users.shown # {}

(* A call is answered with the account as it was after the call was done.  *)
SaveIsAnswered ==
    LET save == users.save IN
    /\ save.stage = "none" <=> save = NoSave
    /\ save.got # {} => save.stage # "none" /\ save.served
    /\ \A r \in save.got : r \in Known(userDb) /\ r.rev >= users.applied
    /\ users.applied <= userDb.rev

RowsFollow ==
    /\ users.shown \subseteq Known(userDb)
    /\ users.shown # {} /\ ~users.mixed =>
          /\ ~users.halfway /\ ~users.save.done => \A r \in users.shown : r.rev >= users.applied
          /\ users.others = IF userDb.other /\ users.create # "applied" THEN 1 ELSE 0

UsersInv ==
    /\ UsersTypeOK /\ ListIsRead /\ SaveIsAnswered /\ RowsFollow
    /\ users.create = "sent" => ~userDb.other
    /\ users.create = "applied" => userDb.other

LEMMA UsersTypes ==
  /\ UserDb0 \in UserDbs /\ NoSave \in Saves
  /\ NoSave.stage = "none" /\ NoSave.got = {} /\ ~NoSave.done
  /\ \A db \in UserDbs : Account(db) \in Accounts /\ Account(db) \in Known(db)
                         /\ Account(db).rev = db.rev
  <1>1. UserDb0 \in UserDbs /\ NoSave \in Saves
    BY UsersAssumption DEF UserDb0, UserDbs, NoSave, Saves
  <1>2. ASSUME NEW db \in UserDbs
        PROVE  Account(db) \in Accounts /\ Account(db) \in Known(db) /\ Account(db).rev = db.rev
    BY DEF UserDbs, Account, Accounts, Known
  <1> QED
    BY <1>1, <1>2 DEF NoSave

(* What was known stays known when the account changes, or stays as it is. *)
LEMMA KnownLasts ==
  ASSUME NEW old \in UserDbs, NEW new \in UserDbs,
         new.rev > old.rev \/ Account(new) = Account(old)
  PROVE  Known(old) \subseteq Known(new)
  <1> SUFFICES ASSUME NEW r \in Known(old) PROVE r \in Known(new)
    OBVIOUS
  <1>1. r \in Accounts /\ r.rev \in Nat /\ r.rev <= old.rev /\ (r.rev = old.rev => r = Account(old))
        /\ old.rev \in Nat /\ new.rev \in Nat
    BY DEF Known, Accounts, UserDbs
  <1>2. CASE new.rev > old.rev
    BY <1>1, <1>2 DEF Known
  <1>3. CASE Account(new) = Account(old)
    <2>1. new.rev = old.rev
      BY <1>3, UsersTypes
    <2> QED
      BY <1>1, <1>3, <2>1 DEF Known
  <1> QED
    BY <1>2, <1>3

(* A page that has just been opened, or is closed.                         *)
LEMMA EmptyPages ==
  ASSUME NEW p \in {[NoUsers EXCEPT !.mounted = TRUE, !.list = NewAsync], NoUsers}
  PROVE  /\ p \in UserPages /\ p.shown = {} /\ p.create = "none" /\ p.applied = 0
         /\ p.save = NoSave
         /\ p.list.old = {} /\ p.list.at # "read" /\ (p.list.at # "none" => p.list.loading)
  <1>1. NoUsers \in UserPages /\ NewAsync \in Asyncs(UserDbs)
    BY NewQueries, UsersTypes DEF NoUsers, UserPages
  <1>2. /\ p \in UserPages /\ p.shown = {} /\ p.create = "none" /\ p.save = NoSave
        /\ p.applied = 0 /\ p.list \in {NewAsync, NoAsync}
    <2>1. CASE p = NoUsers
      BY <1>1, <2>1 DEF NoUsers
    <2>2. CASE p = [NoUsers EXCEPT !.mounted = TRUE, !.list = NewAsync]
      BY <1>1, <2>2 DEF NoUsers, UserPages
    <2> QED
      BY <2>1, <2>2
  <1> QED
    BY <1>2, PlainQueries

LEMMA UserListKeeps == ASSUME UsersInv, UserListStep PROVE UsersInv'
  <1> DEFINE list == users.list
  <1>1. PICK a \in AsyncSteps(list, userDb) : users' = Listed(users, a)
    BY DEF UserListStep
  <1>2. /\ userDb' = userDb /\ list \in Asyncs(UserDbs) /\ list.old = {} /\ userDb \in UserDbs
        /\ users \in UserPages
        /\ list.at # "none" => list.loading
    BY DEF UserListStep, UsersInv, UsersTypeOK, UserPages, ListIsRead
  <1>3. CASE list.at = "sent" /\ a = [list EXCEPT !.at = "read", !.got = {userDb}]
    <2>1. users' = [users EXCEPT !.list = a]
      BY <1>1, <1>3 DEF Listed
    <2>2. /\ a \in Asyncs(UserDbs) /\ a.old = {} /\ a.got = {userDb} /\ a.loading
      BY <1>2, <1>3 DEF Asyncs
    <2>3. /\ UsersTypeOK' /\ users'.list = a /\ users'.create = users.create
          /\ users'.shown = users.shown /\ users'.mixed = users.mixed
          /\ users'.save = users.save /\ users'.others = users.others
          /\ users'.lapped = users.lapped /\ users'.applied = users.applied
          /\ users'.halfway = users.halfway
      BY <1>2, <2>1, <2>2 DEF UsersTypeOK, UserPages
    <2>4. users.applied <= userDb.rev /\ Account(userDb) \in Known(userDb)
          /\ userDb.rev \in Nat /\ users.applied \in Nat
      BY <1>2, UsersTypes DEF UsersInv, SaveIsAnswered, UserDbs, UserPages
    <2>5. ListIsRead'
      BY <1>2, <2>2, <2>3, <2>4 DEF UsersInv, ListIsRead, Editing
    <2> QED
      BY <1>2, <2>3, <2>5 DEF UsersInv, SaveIsAnswered, RowsFollow
  <1>4. CASE list.at # "none" /\ a = FailedAsync(list)
    <2>1. /\ a \in Asyncs(UserDbs) /\ a.old = {} /\ a.at = "none" /\ ~SettledAsync(a)
      BY <1>2, <1>4 DEF Asyncs, FailedAsync, SettledAsync
    <2>2. users' = [users EXCEPT !.list = a]
      BY <1>1, <2>1 DEF Listed
    <2>3. /\ UsersTypeOK' /\ users'.list = a /\ users'.create = users.create
          /\ users'.shown = users.shown /\ users'.mixed = users.mixed
          /\ users'.save = users.save /\ users'.others = users.others
          /\ users'.lapped = users.lapped /\ users'.applied = users.applied
          /\ users'.halfway = users.halfway
      BY <1>2, <2>1, <2>2 DEF UsersTypeOK, UserPages
    <2> QED
      BY <1>2, <2>1, <2>3 DEF UsersInv, ListIsRead, SaveIsAnswered, RowsFollow, Editing
  <1>5. CASE list.at = "read" /\ a = Arrived(list)
    <2>1. /\ a \in Asyncs(UserDbs) /\ a.old = {} /\ a.at = "none" /\ SettledAsync(a)
          /\ a.data = list.got
      BY <1>2, <1>5 DEF Asyncs, Arrived, SettledAsync
    <2> DEFINE rest == [a EXCEPT !.data = {}]
               shown == {Account(d) : d \in list.got}
               others == IF \E d \in list.got : d.other THEN 1 ELSE 0
    <2>2. users' = [users EXCEPT !.list = rest, !.shown = shown, !.others = others,
                                 !.mixed = users.lapped, !.halfway = FALSE]
      BY <1>1, <1>5, <2>1 DEF Listed
    <2>3. rest \in Asyncs(UserDbs) /\ rest.old = {} /\ rest.at = "none"
      BY <2>1 DEF Asyncs
    <2>4. list.got # {} /\ list.got \subseteq UserDbs
      BY <1>2, <1>5 DEF UsersInv, ListIsRead, Asyncs
    <2>5. shown \in SUBSET Accounts /\ shown # {} /\ others \in Nat
      BY <2>4, UsersTypes
    <2>6. shown \subseteq Known(userDb)
      BY <1>5 DEF UsersInv, ListIsRead
    <2>7. ~users.lapped => /\ ~Editing(users)
                           /\ \A d \in list.got : d.rev >= users.applied /\ d.other = userDb.other
      BY <1>5 DEF UsersInv, ListIsRead
    <2>8. ~users.lapped => /\ \A r \in shown : r.rev >= users.applied
                           /\ others = IF userDb.other THEN 1 ELSE 0
      BY <2>4, <2>7, UsersTypes
    <2> HIDE DEF rest, shown, others
    <2>9. /\ users'.list = rest /\ users'.shown = shown /\ users'.others = others
          /\ users'.mixed = users.lapped /\ users'.lapped = users.lapped
          /\ users'.save = users.save /\ users'.create = users.create /\ UsersTypeOK'
          /\ users'.applied = users.applied
      BY <1>2, <2>2, <2>3, <2>5 DEF UsersTypeOK, UserPages
    <2>10. ListIsRead' /\ SaveIsAnswered'
      BY <1>2, <2>3, <2>5, <2>9 DEF UsersInv, ListIsRead, SaveIsAnswered, Editing
    <2>11. RowsFollow'
      BY <1>2, <2>6, <2>7, <2>8, <2>9 DEF RowsFollow, Editing
    <2> QED
      BY <1>2, <2>9, <2>10, <2>11 DEF UsersInv
  <1> QED
    BY <1>1, <1>2, <1>3, <1>4, <1>5 DEF AsyncSteps

(* What a step of an edit leaves alone: all but the save, the rows and     *)
(* whether a save has failed half-way, which a row that is saved ends.     *)
LEMMA RoleNextFits ==
  ASSUME NEW u, u \in UserPages,
         NEW after \in SUBSET Accounts
  PROVE  LET v == RoleNext(u, after) IN
         /\ v \in UserPages
         /\ v.list = u.list /\ v.create = u.create /\ v.others = u.others
         /\ v.applied = u.applied /\ v.lapped = u.lapped /\ v.mixed = u.mixed
         /\ \/ /\ v.save.stage = "role" /\ v.save.got = {} /\ v.save.done = u.save.done
               /\ v.shown = u.shown /\ v.halfway = u.halfway
            \/ /\ v.save = NoSave /\ v.shown = after
               /\ v.halfway = (u.halfway /\ ~u.save.done)
  <1>1. CASE RoleNext(u, after) =
               [u EXCEPT !.save.stage = "role", !.save.served = FALSE, !.save.got = {}]
    <2>1. u.save \in Saves
      BY DEF UserPages
    <2> DEFINE save == [u.save EXCEPT !.stage = "role", !.served = FALSE, !.got = {}]
    <2>2. /\ save \in Saves /\ save.stage = "role" /\ save.got = {} /\ save.done = u.save.done
      BY <2>1 DEF Saves
    <2>3. RoleNext(u, after) = [u EXCEPT !.save = save]
      BY <1>1, <2>1 DEF Saves, UserPages
    <2> HIDE DEF save
    <2> QED
      BY <2>2, <2>3 DEF UserPages
  <1>2. CASE RoleNext(u, after) =
               [u EXCEPT !.shown = after, !.save = NoSave,
                         !.halfway = u.halfway /\ ~u.save.done]
    <2> DEFINE halfway == u.halfway /\ ~u.save.done
    <2>1. RoleNext(u, after) = [u EXCEPT !.shown = after, !.save = NoSave, !.halfway = halfway]
      BY <1>2
    <2>2. halfway \in BOOLEAN
      OBVIOUS
    <2>3. halfway = (u.halfway /\ ~u.save.done)
      OBVIOUS
    <2> HIDE DEF halfway
    <2>4. LET v == RoleNext(u, after) IN
          /\ v \in UserPages
          /\ v.list = u.list /\ v.create = u.create /\ v.others = u.others
          /\ v.applied = u.applied /\ v.lapped = u.lapped /\ v.mixed = u.mixed
          /\ v.save = NoSave /\ v.shown = after /\ v.halfway = halfway
      BY <2>1, <2>2, UsersTypes DEF UserPages
    <2> QED
      BY <2>3, <2>4
  <1> QED
    BY <1>1, <1>2 DEF RoleNext, Saved

LEMMA SaveKeeps == ASSUME UsersInv, Save PROVE UsersInv'
  <1>1. PICK w \in Wishes :
          LET u == [users EXCEPT !.save = [NoSave EXCEPT !.want = {w}]]
              v == IF \E r \in u.shown : w.family # r.family
                   THEN [u EXCEPT !.save.stage = "assign"]
                   ELSE RoleNext(u, u.shown)
          IN  users' = [v EXCEPT !.lapped = @ \/ Editing(v)]
    BY DEF Save, Wishes
  <1> DEFINE begun == [NoSave EXCEPT !.want = {w}]
             u == [users EXCEPT !.save = begun]
             v == IF \E r \in users.shown : w.family # r.family
                  THEN [users EXCEPT !.save = [begun EXCEPT !.stage = "assign"]]
                  ELSE RoleNext(u, users.shown)
  <1>2. /\ userDb' = userDb /\ userDb \in UserDbs
        /\ users \in UserPages
        /\ users.save = NoSave /\ users.shown # {} /\ users.shown \in SUBSET Accounts
    BY DEF Save, UsersInv, UsersTypeOK, UserPages
  <1>3. /\ begun \in Saves /\ [begun EXCEPT !.stage = "assign"] \in Saves
        /\ begun.got = {} /\ ~begun.done
    BY <1>2, UsersTypes DEF Saves, NoSave
  <1> HIDE DEF begun
  <1>4. u \in UserPages /\ u.shown = users.shown
    BY <1>2, <1>3 DEF UserPages
  <1>5. /\ u \in UserPages
        /\ u.list = users.list /\ u.create = users.create /\ u.others = users.others
        /\ u.lapped = users.lapped /\ u.mixed = users.mixed /\ u.shown = users.shown
        /\ u.applied = users.applied /\ u.halfway = users.halfway
        /\ u.save = begun
    BY <1>2, <1>3, <1>4 DEF UserPages
  <1>6. /\ v \in UserPages
        /\ v.list = users.list /\ v.create = users.create /\ v.others = users.others
        /\ v.lapped = users.lapped /\ v.mixed = users.mixed /\ v.shown = users.shown
        /\ v.applied = users.applied /\ v.halfway = users.halfway
        /\ (v.save = NoSave \/ v.save.stage # "none") /\ v.save.got = {} /\ ~v.save.done
    <2>1. CASE \E r \in users.shown : w.family # r.family
      BY <1>2, <1>3, <2>1 DEF UserPages, Saves
    <2>2. CASE ~\E r \in users.shown : w.family # r.family
      <3>1. v = RoleNext(u, users.shown)
        BY <2>2
      <3>2. u.halfway \in BOOLEAN
        BY <1>5 DEF UserPages
      <3> HIDE DEF u, v
      <3> QED
        BY <1>2, <1>3, <1>5, <3>1, <3>2, RoleNextFits, UsersTypes
    <2> QED
      BY <2>1, <2>2
  <1>7. users' = [v EXCEPT !.lapped = v.lapped \/ Editing(v)]
    <2>1. [u EXCEPT !.save.stage = "assign"] = [users EXCEPT !.save = [begun EXCEPT !.stage = "assign"]]
      BY <1>2, <1>5 DEF UserPages
    <2>2. v = IF \E r \in u.shown : w.family # r.family
              THEN [u EXCEPT !.save.stage = "assign"] ELSE RoleNext(u, u.shown)
      BY <1>5, <2>1
    <2> QED
      BY <1>1, <2>2 DEF begun
  <1> HIDE DEF u, v
  <1>8. /\ UsersTypeOK' /\ users'.list = users.list /\ users'.create = users.create
        /\ users'.others = users.others /\ users'.shown = users.shown
        /\ users'.mixed = users.mixed /\ users'.save = v.save
        /\ users'.applied = users.applied /\ users'.halfway = users.halfway
        /\ users'.lapped = (users.lapped \/ Editing(v))
    BY <1>2, <1>6, <1>7 DEF UsersTypeOK, UserPages, Editing
  <1>9. Editing(v) <=> Editing(users')
    BY <1>6, <1>8 DEF Editing
  <1>10. ListIsRead'
    BY <1>2, <1>8, <1>9 DEF UsersInv, ListIsRead, Editing
  <1>11. SaveIsAnswered'
    BY <1>2, <1>6, <1>8, UsersTypes DEF UsersInv, SaveIsAnswered
  <1>12. RowsFollow'
    BY <1>2, <1>6, <1>8, UsersTypes DEF UsersInv, RowsFollow
  <1> QED
    BY <1>2, <1>8, <1>10, <1>11, <1>12 DEF UsersInv

(* Whoever changes the account, what was read of it before stays known.    *)
LEMMA ServerKeeps ==
  ASSUME UsersInv, userDb' \in UserDbs, userDb'.rev = userDb.rev + 1,
         userDb'.other = userDb.other
  PROVE  /\ Known(userDb) \subseteq Known(userDb')
         /\ userDb.rev \in Nat /\ users.applied \in Nat /\ users.applied <= userDb'.rev
  <1>1. userDb \in UserDbs /\ users.applied \in Nat /\ users.applied <= userDb.rev
    BY DEF UsersInv, UsersTypeOK, UserPages, SaveIsAnswered
  <1>2. userDb.rev \in Nat
    BY <1>1 DEF UserDbs
  <1> QED
    BY <1>1, <1>2, KnownLasts

LEMMA SaveServedKeeps == ASSUME UsersInv, SaveServed PROVE UsersInv'
  <1>1. /\ userDb \in UserDbs /\ users.save \in Saves
        /\ users \in UserPages
        /\ users.save.stage # "none" /\ users.save.got = {} /\ users.lapped
    BY DEF SaveServed, UsersInv, UsersTypeOK, UserPages, ListIsRead, SaveIsAnswered, Editing
  <1>2. PICK w \in users.save.want :
          userDb' = IF users.save.stage = "assign"
                    THEN [userDb EXCEPT !.family = w.family, !.rev = @ + 1]
                    ELSE [userDb EXCEPT !.role = w.role, !.rev = @ + 1]
    BY DEF SaveServed
  <1>3. w \in Wishes /\ userDb.rev \in Nat
    BY <1>1, <1>2 DEF Saves, UserDbs
  <1>4. userDb' \in UserDbs /\ userDb'.other = userDb.other /\ userDb'.rev = userDb.rev + 1
    <2> DEFINE rev == userDb.rev + 1
    <2>1. rev \in Nat
      BY <1>3
    <2>2. \/ userDb' = [userDb EXCEPT !.family = w.family, !.rev = rev]
          \/ userDb' = [userDb EXCEPT !.role = w.role, !.rev = rev]
      BY <1>2
    <2> HIDE DEF rev
    <2>3. userDb' \in UserDbs /\ userDb'.other = userDb.other /\ userDb'.rev = rev
      BY <1>1, <1>3, <2>1, <2>2 DEF UserDbs, Wishes
    <2> QED
      BY <2>3 DEF rev
  <1> DEFINE save == [users.save EXCEPT !.served = TRUE, !.done = TRUE]
  <1>5. users' = [users EXCEPT !.save = save, !.applied = userDb'.rev]
    BY <1>1 DEF SaveServed, UserPages, Saves
  <1>6. /\ save \in Saves /\ save.stage = users.save.stage /\ save.got = {} /\ save.done
    BY <1>1 DEF Saves
  <1> HIDE DEF save
  <1>7. userDb'.rev \in Nat
    BY <1>4 DEF UserDbs
  <1>8. /\ UsersTypeOK' /\ users'.list = users.list /\ users'.create = users.create
        /\ users'.others = users.others /\ users'.shown = users.shown
        /\ users'.mixed = users.mixed /\ users'.save = save /\ users'.lapped = users.lapped
        /\ users'.applied = userDb'.rev
    BY <1>1, <1>4, <1>5, <1>6, <1>7 DEF UsersTypeOK, UserPages
  <1>9. Known(userDb) \subseteq Known(userDb')
    BY <1>4, ServerKeeps
  <1>10. ListIsRead'
    BY <1>1, <1>6, <1>8, <1>9 DEF UsersInv, ListIsRead, Editing
  <1>11. SaveIsAnswered'
    BY <1>1, <1>6, <1>7, <1>8, UsersTypes DEF SaveIsAnswered
  <1>12. RowsFollow'
    BY <1>1, <1>4, <1>6, <1>8, <1>9 DEF UsersInv, RowsFollow
  <1> QED
    BY <1>4, <1>8, <1>10, <1>11, <1>12 DEF UsersInv

LEMMA SaveReadKeeps == ASSUME UsersInv, SaveRead PROVE UsersInv'
  <1>1. /\ userDb \in UserDbs /\ userDb' = userDb /\ users.save \in Saves
        /\ users \in UserPages /\ users.save.served
        /\ users.applied <= userDb.rev
    BY DEF SaveRead, UsersInv, UsersTypeOK, UserPages, SaveIsAnswered
  <1> DEFINE save == [users.save EXCEPT !.got = {Account(userDb)}]
  <1>2. users' = [users EXCEPT !.save = save]
    BY DEF SaveRead
  <1>3. /\ save \in Saves /\ save.stage = users.save.stage /\ save.got = {Account(userDb)}
        /\ save.served /\ save.done = users.save.done
    BY <1>1, UsersTypes DEF Saves
  <1> HIDE DEF save
  <1>4. /\ UsersTypeOK' /\ users'.list = users.list /\ users'.create = users.create
        /\ users'.others = users.others /\ users'.shown = users.shown
        /\ users'.mixed = users.mixed /\ users'.save = save /\ users'.lapped = users.lapped
        /\ users'.applied = users.applied /\ users'.halfway = users.halfway
    BY <1>1, <1>2, <1>3 DEF UsersTypeOK, UserPages
  <1>5. users.save.stage # "none"
    BY <1>1 DEF UsersInv, SaveIsAnswered, NoSave
  <1>6. ListIsRead'
    BY <1>1, <1>3, <1>4 DEF UsersInv, ListIsRead, Editing
  <1>7. SaveIsAnswered'
    BY <1>1, <1>3, <1>4, <1>5, UsersTypes DEF SaveIsAnswered
  <1>8. RowsFollow'
    BY <1>1, <1>3, <1>4 DEF UsersInv, RowsFollow
  <1> QED
    BY <1>1, <1>4, <1>6, <1>7, <1>8 DEF UsersInv

LEMMA SaveAnsweredKeeps == ASSUME UsersInv, SaveAnswered PROVE UsersInv'
  <1>1. /\ userDb \in UserDbs /\ userDb' = userDb
        /\ users \in UserPages
        /\ users.save.stage # "none" /\ users.lapped
        /\ users.save.got \in SUBSET Accounts /\ users.save.got # {}
        /\ \A r \in users.save.got : r \in Known(userDb) /\ r.rev >= users.applied
    BY DEF SaveAnswered, UsersInv, UsersTypeOK, UserPages, Saves, ListIsRead, SaveIsAnswered, Editing
  <1>2. /\ users' \in UserPages
        /\ users'.list = users.list /\ users'.create = users.create
        /\ users'.others = users.others /\ users'.applied = users.applied
        /\ users'.mixed = users.mixed /\ users'.lapped = users.lapped
        /\ \/ /\ users'.save.stage = "role" /\ users'.save.got = {} /\ users'.shown = users.shown
              /\ users'.save.done = users.save.done /\ users'.halfway = users.halfway
           \/ users'.save = NoSave /\ users'.shown = users.save.got
    <2>1. CASE users.save.stage = "assign"
      <3>1. users' = RoleNext(users, users.save.got)
        BY <2>1 DEF SaveAnswered
      <3>2. LET v == RoleNext(users, users.save.got) IN
            /\ v \in UserPages
            /\ v.list = users.list /\ v.create = users.create /\ v.others = users.others
            /\ v.applied = users.applied /\ v.lapped = users.lapped /\ v.mixed = users.mixed
            /\ \/ /\ v.save.stage = "role" /\ v.save.got = {} /\ v.save.done = users.save.done
                  /\ v.shown = users.shown /\ v.halfway = users.halfway
               \/ v.save = NoSave /\ v.shown = users.save.got
        <4>1. users \in UserPages /\ users.save.got \in SUBSET Accounts
          BY <1>1
        <4> QED
          BY <4>1, RoleNextFits
      <3> QED
        BY <1>1, <3>1, <3>2
    <2>2. CASE users.save.stage # "assign"
      <3> DEFINE halfway == users.halfway /\ ~users.save.done
      <3>1. users' = [users EXCEPT !.shown = users.save.got, !.save = NoSave, !.halfway = halfway]
        BY <2>2 DEF SaveAnswered, Saved
      <3>2. halfway \in BOOLEAN
        OBVIOUS
      <3> HIDE DEF halfway
      <3> QED
        BY <1>1, <3>1, <3>2, UsersTypes DEF UserPages
    <2> QED
      BY <2>1, <2>2
  <1>3. ListIsRead'
    BY <1>1, <1>2 DEF UsersInv, ListIsRead, Editing
  <1>4. SaveIsAnswered'
    BY <1>1, <1>2, UsersTypes DEF UsersInv, SaveIsAnswered
  <1>5. RowsFollow'
    BY <1>1, <1>2 DEF UsersInv, RowsFollow, ListIsRead, Editing
  <1> QED
    BY <1>1, <1>2, <1>3, <1>4, <1>5 DEF UsersInv, UsersTypeOK, UserPages

LEMMA SaveFailsKeeps == ASSUME UsersInv, SaveFails PROVE UsersInv'
  <1> DEFINE halfway == users.halfway \/ users.save.done
  <1>1. userDb' = userDb /\ users' = [users EXCEPT !.save = NoSave, !.halfway = halfway]
    BY DEF SaveFails
  <1>2. halfway \in BOOLEAN /\ (~halfway => ~users.halfway /\ ~users.save.done)
    OBVIOUS
  <1> HIDE DEF halfway
  <1>3. /\ UsersTypeOK' /\ users'.list = users.list /\ users'.create = users.create
        /\ users'.shown = users.shown /\ users'.mixed = users.mixed /\ users'.save = NoSave
        /\ users'.others = users.others /\ users'.applied = users.applied
        /\ users'.lapped = users.lapped /\ users'.halfway = halfway
    BY <1>1, <1>2, UsersTypes DEF UsersInv, UsersTypeOK, UserPages
  <1>4. ListIsRead'
    BY <1>1, <1>3, UsersTypes DEF UsersInv, ListIsRead, Editing
  <1>5. SaveIsAnswered'
    BY <1>1, <1>3, UsersTypes DEF UsersInv, SaveIsAnswered
  <1>6. RowsFollow'
    BY <1>1, <1>2, <1>3 DEF UsersInv, RowsFollow
  <1> QED
    BY <1>1, <1>3, <1>4, <1>5, <1>6 DEF UsersInv

LEMMA OthersEditUserKeeps == ASSUME UsersInv, OthersEditUser PROVE UsersInv'
  <1>1. userDb \in UserDbs /\ userDb.rev \in Nat /\ users' = users
    BY DEF OthersEditUser, UsersInv, UsersTypeOK, UserDbs
  <1>2. PICK w \in Wishes :
          userDb' = [userDb EXCEPT !.family = w.family, !.role = w.role, !.rev = @ + 1]
    BY DEF OthersEditUser, Wishes
  <1>3. userDb' \in UserDbs /\ userDb'.other = userDb.other /\ userDb'.rev = userDb.rev + 1
    <2> DEFINE rev == userDb.rev + 1
    <2>1. rev \in Nat
      BY <1>1
    <2>2. userDb' = [userDb EXCEPT !.family = w.family, !.role = w.role, !.rev = rev]
      BY <1>2
    <2> HIDE DEF rev
    <2>3. userDb' \in UserDbs /\ userDb'.other = userDb.other /\ userDb'.rev = rev
      BY <1>1, <2>1, <2>2 DEF UserDbs, Wishes
    <2> QED
      BY <2>3 DEF rev
  <1>4. Known(userDb) \subseteq Known(userDb') /\ users.applied <= userDb'.rev
    BY <1>3, ServerKeeps
  <1>5. ListIsRead' /\ SaveIsAnswered' /\ RowsFollow'
    BY <1>1, <1>3, <1>4 DEF UsersInv, ListIsRead, SaveIsAnswered, RowsFollow
  <1> QED
    BY <1>1, <1>3, <1>5 DEF UsersInv, UsersTypeOK

LEMMA CreationKeeps ==
  ASSUME UsersInv, CreateUser \/ CreateServed \/ CreateAnswered \/ CreateFails
  PROVE  UsersInv'
  <1>1. CASE CreateUser
    <2>1. /\ UsersTypeOK' /\ users'.list = users.list /\ users'.create = "sent"
          /\ users'.shown = users.shown /\ users'.mixed = users.mixed
          /\ users'.save = users.save /\ users'.others = users.others /\ users'.lapped
          /\ users'.applied = users.applied /\ users'.halfway = users.halfway
          /\ userDb' = userDb /\ ~userDb.other /\ users.create = "none" /\ users.shown # {}
      BY <1>1 DEF CreateUser, UsersInv, UsersTypeOK, UserPages
    <2> QED
      BY <2>1 DEF UsersInv, ListIsRead, SaveIsAnswered, RowsFollow, Editing
  <1>2. CASE CreateServed
    <2>1. /\ UsersTypeOK' /\ users'.list = users.list /\ users'.create = "applied"
          /\ users'.shown = users.shown /\ users'.mixed = users.mixed
          /\ users'.save = users.save /\ users'.others = users.others
          /\ users'.applied = users.applied /\ users'.halfway = users.halfway
          /\ users'.lapped = users.lapped /\ users.create = "sent"
          /\ userDb'.other /\ userDb'.family = userDb.family /\ userDb'.role = userDb.role
          /\ userDb'.rev = userDb.rev /\ userDb \in UserDbs /\ userDb' \in UserDbs
      BY <1>2 DEF CreateServed, UsersInv, UsersTypeOK, UserPages, UserDbs
    <2>2. Account(userDb') = Account(userDb)
      BY <2>1 DEF Account
    <2>3. Known(userDb) \subseteq Known(userDb')
      BY <2>1, <2>2, KnownLasts
    <2>4. RowsFollow'
      BY <2>1, <2>3 DEF UsersInv, RowsFollow
    <2>5. ListIsRead'
      BY <2>1, <2>3 DEF UsersInv, ListIsRead, Editing
    <2>6. SaveIsAnswered'
      BY <2>1, <2>3 DEF UsersInv, SaveIsAnswered
    <2> QED
      BY <2>1, <2>4, <2>5, <2>6 DEF UsersInv
  <1>3. CASE CreateAnswered
    <2>1. /\ UsersTypeOK' /\ users'.list = users.list /\ users'.create = "none"
          /\ users'.shown = users.shown /\ users'.mixed = users.mixed
          /\ users'.save = users.save /\ users'.others = users.others + 1
          /\ users'.applied = users.applied /\ users'.halfway = users.halfway
          /\ users'.lapped = users.lapped /\ users.create = "applied"
          /\ userDb' = userDb
      <3>1. users \in UserPages /\ users.others \in Nat
        BY DEF UsersInv, UsersTypeOK, UserPages
      <3>2. users.others + 1 \in Nat
        BY <3>1
      <3>3. users' = [users EXCEPT !.create = "none", !.others = users.others + 1]
        BY <1>3 DEF CreateAnswered
      <3> HIDE DEF UsersTypeOK
      <3>4. users' \in UserPages /\ userDb' = userDb
        BY <1>3, <3>1, <3>2, <3>3 DEF UserPages, CreateAnswered
      <3> QED
        BY <1>3, <3>1, <3>3, <3>4 DEF CreateAnswered, UsersInv, UsersTypeOK, UserPages
    <2> QED
      BY <2>1 DEF UsersInv, ListIsRead, SaveIsAnswered, RowsFollow, Editing
  <1>4. CASE CreateFails
    <2> DEFINE mixed == users.mixed \/ users.create = "applied"
    <2>1. users' = [users EXCEPT !.create = "none", !.mixed = mixed] /\ userDb' = userDb
      BY <1>4 DEF CreateFails
    <2>2. mixed \in BOOLEAN /\ (~mixed => ~users.mixed /\ users.create # "applied")
      OBVIOUS
    <2> HIDE DEF mixed
    <2>3. /\ UsersTypeOK' /\ users'.list = users.list /\ users'.create = "none"
          /\ users'.shown = users.shown /\ users'.mixed = mixed
          /\ users'.save = users.save /\ users'.others = users.others
          /\ users'.applied = users.applied /\ users'.halfway = users.halfway
          /\ users'.lapped = users.lapped
      BY <2>1, <2>2 DEF UsersInv, UsersTypeOK, UserPages
    <2> QED
      BY <2>1, <2>2, <2>3 DEF UsersInv, ListIsRead, SaveIsAnswered, RowsFollow, Editing
  <1> QED
    BY <1>1, <1>2, <1>3, <1>4

LEMMA RefreshUsersKeeps == ASSUME UsersInv, RefreshUsers PROVE UsersInv'
  <1>1. /\ UsersTypeOK' /\ users'.list = NewAsync /\ users'.create = users.create
        /\ users'.shown = users.shown /\ users'.mixed = users.mixed
        /\ users'.save = users.save /\ users'.others = users.others
        /\ users'.applied = users.applied /\ users'.halfway = users.halfway
        /\ users'.lapped = Editing(users) /\ userDb' = userDb
    BY NewQueries DEF RefreshUsers, UsersInv, UsersTypeOK, UserPages, Editing
  <1> QED
    BY <1>1, PlainQueries
       DEF UsersInv, ListIsRead, SaveIsAnswered, RowsFollow, Editing, NewAsync

LEMMA OpenedUsers ==
  ASSUME userDb \in UserDbs,
         users \in {[NoUsers EXCEPT !.mounted = TRUE, !.list = NewAsync], NoUsers}
  PROVE  UsersInv
  <1>1. userDb.rev \in Nat
    BY DEF UserDbs
  <1>2. PICK p \in {[NoUsers EXCEPT !.mounted = TRUE, !.list = NewAsync], NoUsers} : users = p
    OBVIOUS
  <1>3. /\ p \in UserPages /\ p.shown = {} /\ p.create = "none" /\ p.applied = 0
        /\ p.save = NoSave
        /\ p.list.old = {} /\ p.list.at # "read" /\ (p.list.at # "none" => p.list.loading)
    BY EmptyPages
  <1> QED
    BY <1>1, <1>2, <1>3, UsersTypes
       DEF UsersInv, UsersTypeOK, ListIsRead, SaveIsAnswered, RowsFollow, Editing

LEMMA UsersVisited ==
  ASSUME UsersInv, MountUsers \/ UnmountUsers PROVE UsersInv'
  <1>1. userDb' \in UserDbs
    BY UsersTypes DEF MountUsers, UnmountUsers, UsersInv, UsersTypeOK
  <1>2. users' \in {[NoUsers EXCEPT !.mounted = TRUE, !.list = NewAsync], NoUsers}
    BY DEF MountUsers, UnmountUsers
  <1>3. PICK p \in {[NoUsers EXCEPT !.mounted = TRUE, !.list = NewAsync], NoUsers} :
          users' = p
    BY <1>2
  <1>4. userDb'.rev \in Nat
    BY <1>1 DEF UserDbs
  <1>5. /\ p \in UserPages /\ p.shown = {} /\ p.create = "none" /\ p.applied = 0
        /\ p.save = NoSave
        /\ p.list.old = {} /\ p.list.at # "read" /\ (p.list.at # "none" => p.list.loading)
    BY EmptyPages
  <1> QED
    BY <1>1, <1>3, <1>4, <1>5, UsersTypes
       DEF UsersInv, UsersTypeOK, ListIsRead, SaveIsAnswered, RowsFollow, Editing

LEMMA UsersInvStep ==
  UsersInv /\ [UsersNext \/ MountUsers \/ UnmountUsers]_userVars => UsersInv'
  <1> SUFFICES ASSUME UsersInv, [UsersNext \/ MountUsers \/ UnmountUsers]_userVars
               PROVE  UsersInv'
    OBVIOUS
  <1>1. CASE UNCHANGED userVars
    BY <1>1 DEF userVars, UsersInv, UsersTypeOK, UserPages, ListIsRead, SaveIsAnswered, RowsFollow, Editing
  <1> QED
    BY <1>1, UsersVisited, UserListKeeps, RefreshUsersKeeps, SaveKeeps, SaveServedKeeps,
       SaveReadKeeps, SaveAnsweredKeeps, SaveFailsKeeps, OthersEditUserKeeps, CreationKeeps
       DEF UsersNext

(* Whoever else changes the account meanwhile, between the user's edits the*)
(* row is never older than the last of their calls that was done, and holds*)
(* only what was stored, and an account that was created is there once.    *)
(* Excepted until the next refresh are an edit that overlapped with a      *)
(* refresh, a creation whose answer was lost and a save that failed when   *)
(* one of its calls was done (UsersPage.tsx:74-76, 275-293).               *)
THEOREM RowsAreStored == UsersSpec => []RowsFollowSaves
  <1>1. UsersInit => UsersInv
    BY OpenedUsers, UsersTypes DEF UsersInit
  <1>2. UsersInv => RowsFollowSaves
    <2> SUFFICES ASSUME UsersInv, users.shown # {}, ~Editing(users), ~users.mixed, ~users.halfway
                 PROVE  /\ \A r \in users.shown :
                             r.rev >= users.applied /\ (r.rev = userDb.rev => r = Account(userDb))
                        /\ users.others = (IF userDb.other THEN 1 ELSE 0)
      BY DEF RowsFollowSaves, RowsFit
    <2>1. users.create = "none" /\ users.save.stage = "none"
      BY DEF Editing
    <2>2. ~users.save.done
      BY <2>1, UsersTypes DEF UsersInv, SaveIsAnswered
    <2> QED
      BY <2>1, <2>2 DEF UsersInv, RowsFollow, Known
  <1> QED
    BY <1>1, <1>2, UsersInvStep, PTL DEF UsersSpec

-----------------------------------------------------------------------------
(* The circle page.                                                        *)

CircleRoles == {"none", "member", "admin"}
CircleDbs == [me : CircleRoles, other : CircleRoles, name : Nat, rev : Nat]
CirclesDone == [edit : Nat, membership : Nat, name : Nat]
CirclePages == [mounted : BOOLEAN, spinner : BOOLEAN, busy : BOOLEAN,
                family : Asyncs(CircleDbs), roster : Asyncs(CircleDbs)]
CircleEdits == [kind : {"create", "join", "leave", "rename", "role"}, who : {"me", "other"},
                role : CircleRoles, own : BOOLEAN, stage : {"sent", "applied", "refused"}]

CircleTypeOK ==
    /\ circleDb \in CircleDbs /\ circle \in CirclePages
    /\ circleEdits \subseteq CircleEdits /\ circleDone \in CirclesDone

CirclesSince(rev) == {db \in CircleDbs : db.rev >= rev}

CircleInv ==
    /\ CircleTypeOK
    /\ circleDone.edit <= circleDb.rev /\ circleDone.membership <= circleDb.rev
    /\ Within(circle.roster, CirclesSince(circleDone.edit))
    /\ Within(circle.family, CirclesSince(circleDone.membership))
    /\ ~circle.mounted => circle = NoCircle /\ circleEdits = {} /\ circleDone = NothingDone

LEMMA EnteredCircle ==
  ASSUME NEW a \in Asyncs(CircleDbs)
  PROVE  /\ Entered(a) \in CirclePages /\ Entered(a).roster = NoAsync /\ Entered(a).mounted
         /\ Entered(a).family = a
         /\ NoCircle \in CirclePages /\ NoCircle.roster = NoAsync /\ NoCircle.family = NoAsync
         /\ Renewed \in CirclePages /\ Renewed.roster = NoAsync /\ Renewed.mounted
         /\ Renewed.family = NoAsync
         /\ ~NoCircle.spinner
  <1>1. NoAsync \in Asyncs(CircleDbs)
    BY NewQueries
  <1>2. NoCircle = [mounted |-> FALSE, spinner |-> FALSE, busy |-> FALSE,
                    family |-> NoAsync, roster |-> NoAsync]
    BY DEF NoCircle
  <1>3. /\ NoCircle \in CirclePages /\ NoCircle.roster = NoAsync /\ NoCircle.family = NoAsync
        /\ ~NoCircle.spinner
    BY <1>1, <1>2 DEF CirclePages
  <1> QED
    BY <1>3 DEF Entered, Renewed, CirclePages

(* A step of the page alone.                                               *)
LEMMA CirclePageStep ==
  ASSUME CircleInv, UNCHANGED <<circleDb, circleDone>>, circleEdits' \subseteq CircleEdits,
         circle' \in CirclePages, circle'.mounted,
         Within(circle'.roster, CirclesSince(circleDone.edit)),
         Within(circle'.family, CirclesSince(circleDone.membership))
  PROVE  CircleInv'
  BY DEF CircleInv, CircleTypeOK, Within, SettledAsync, CirclesSince

(* A step of the server; what is shown of it stays known.                  *)
LEMMA CircleServerStep ==
  ASSUME CircleInv, circle.mounted, UNCHANGED <<circle, circleDone>>,
         circleEdits' \subseteq CircleEdits,
         circleDb' \in CircleDbs, circleDb'.rev >= circleDb.rev
  PROVE  CircleInv'
  <1>1. circleDone.edit <= circleDb'.rev /\ circleDone.membership <= circleDb'.rev
    BY DEF CircleInv, CircleTypeOK, CircleDbs, CirclesDone
  <1> QED
    BY <1>1 DEF CircleInv, CircleTypeOK, Within, SettledAsync, CirclesSince

(* A page that is closed has nothing to do.                                *)
LEMMA OnlyOpenCircles == ASSUME CircleInv, CircleNext PROVE circle.mounted
  <1> SUFFICES ASSUME ~circle.mounted PROVE FALSE
    OBVIOUS
  <1>1. /\ circle.family = NoAsync /\ circle.roster = NoAsync /\ ~circle.spinner
        /\ circleEdits = {}
    BY EnteredCircle, NewQueries DEF CircleInv
  <1>2. NoAsync.at = "none" /\ NoAsync.data = {} /\ NoAsync.old = {} /\ ~NoAsync.failed
    BY PlainQueries DEF NoAsync, NewAsync
  <1>3. \A now : AsyncSteps(NoAsync, now) = {}
    BY <1>2 DEF AsyncSteps
  <1>4. ~SpinnerEnds /\ ~CircleQueries /\ ~OthersAct
    BY <1>1, <1>2, <1>3 DEF SpinnerEnds, CircleQueries, OthersAct
  <1>5. ~Attached /\ ~Unattached
    BY <1>1, <1>2 DEF Attached, Unattached
  <1> QED
    BY <1>1, <1>4, <1>5
       DEF CircleNext, DoCreateOrJoin, DoLeave, DoRenameCircle, ChangeRole, CanManage

LEMMA FreshCircles ==
  ASSUME CircleInv
  PROVE  /\ circleDb \in CircleDbs /\ circleDb \in CirclesSince(circleDone.edit)
         /\ circleDb \in CirclesSince(circleDone.membership)
  BY DEF CircleInv, CircleTypeOK, CircleDbs, CirclesSince

LEMMA NewlyMounted ==
  \A good : Within(NewAsync, good) /\ Within(NoAsync, good)
  BY PlainQueries, NewQueries, NothingShown

LEMMA CircleRefetched ==
  ASSUME CircleInv, NEW a \in Asyncs(CircleDbs)
  PROVE  /\ Refetched(a, circleDb) \in Asyncs(CircleDbs)
         /\ \A good : Within(Refetched(a, circleDb), good)
  <1>1. /\ Refetched(a, circleDb) \in Asyncs(CircleDbs)
        /\ Refetched(a, circleDb).loading /\ Refetched(a, circleDb).at = "sent"
    BY FreshCircles, QueryRefetched
  <1>2. Refetched(a, circleDb).loading = TRUE
    BY <1>1 DEF Asyncs
  <1> QED
    BY <1>1, <1>2, NothingShown

LEMMA CircleQueriesKeep == ASSUME CircleInv, circle.mounted, CircleQueries PROVE CircleInv'
  <1>1. /\ UNCHANGED <<circleDb, circleDone>> /\ circleEdits' \subseteq CircleEdits
        /\ circle \in CirclePages
        /\ circle.family \in Asyncs(CircleDbs) /\ circle.roster \in Asyncs(CircleDbs)
        /\ Within(circle.roster, CirclesSince(circleDone.edit))
        /\ Within(circle.family, CirclesSince(circleDone.membership))
    BY DEF CircleQueries, CircleInv, CircleTypeOK, CirclePages
  <1>2. ASSUME NEW a \in AsyncSteps(circle.family, circleDb),
               circle' = [circle EXCEPT
                  !.family = a,
                  !.roster = IF a.loading \/ ~SettledAsync(a) \/ @ # NoAsync THEN @
                             ELSE IF \E f \in a.data : f.me # "none" THEN NewAsync ELSE @]
        PROVE  CircleInv'
    <2>1. a \in Asyncs(CircleDbs) /\ Within(a, CirclesSince(circleDone.membership))
      BY <1>1, <1>2, FreshCircles, QueryStepped
    <2>2. PICK roster \in {circle.roster, NewAsync} :
            circle' = [circle EXCEPT !.family = a, !.roster = roster]
      BY <1>2
    <2>3. roster \in Asyncs(CircleDbs) /\ Within(roster, CirclesSince(circleDone.edit))
      BY <1>1, <2>2, NewQueries, NewlyMounted
    <2>4. circle' \in CirclePages /\ circle'.mounted /\ circle'.roster = roster
          /\ circle'.family = a
      BY <1>1, <2>1, <2>2, <2>3 DEF CirclePages
    <2> QED
      BY <1>1, <2>1, <2>3, <2>4, CirclePageStep
  <1>3. ASSUME NEW a \in Asyncs(CircleDbs), Within(a, CirclesSince(circleDone.edit)),
               circle' = [circle EXCEPT !.roster = a]
        PROVE  CircleInv'
    <2>1. circle' \in CirclePages /\ circle'.mounted /\ circle'.roster = a
          /\ circle'.family = circle.family
      BY <1>1, <1>3 DEF CirclePages
    <2> QED
      BY <1>1, <1>3, <2>1, CirclePageStep
  <1>4. ASSUME NEW a \in AsyncSteps(circle.roster, circleDb),
               circle' = [circle EXCEPT !.roster = a]
        PROVE  CircleInv'
    BY <1>1, <1>3, <1>4, FreshCircles, QueryStepped
  <1>5. CASE circle' = Entered(Refetched(circle.family, circleDb))
    <2>1. circle' \in CirclePages /\ circle'.mounted /\ circle'.roster = NoAsync
          /\ circle'.family = Refetched(circle.family, circleDb)
      BY <1>1, <1>5, CircleRefetched, EnteredCircle
    <2>2. Within(circle'.family, CirclesSince(circleDone.membership))
      BY <1>1, <2>1, CircleRefetched
    <2> QED
      BY <1>1, <2>1, <2>2, NewlyMounted, CirclePageStep
  <1>6. CASE circle' = [circle EXCEPT !.roster = Refetched(@, circleDb)]
    <2>1. circle' = [circle EXCEPT !.roster = Refetched(circle.roster, circleDb)]
      BY <1>6
    <2> QED
      BY <1>1, <1>3, <2>1, CircleRefetched
  <1> QED
    BY <1>2, <1>4, <1>5, <1>6 DEF CircleQueries

(* What begins an edit shows nothing new.                                  *)
LEMMA BusyCircle ==
  ASSUME CircleInv, circle.mounted, UNCHANGED <<circleDb, circleDone>>, NEW busy \in BOOLEAN,
         circle' = circle \/ circle' = [circle EXCEPT !.busy = busy],
         circleEdits' \subseteq CircleEdits
  PROVE  CircleInv'
  <1>1. circle' \in CirclePages /\ circle'.mounted /\ circle'.roster = circle.roster
        /\ circle'.family = circle.family
    BY DEF CircleInv, CircleTypeOK, CirclePages
  <1> QED
    BY <1>1, CirclePageStep DEF CircleInv

LEMMA AsksKeeps ==
  ASSUME CircleInv, circle.mounted, DoCreateOrJoin \/ DoLeave \/ DoRenameCircle \/ ChangeRole
  PROVE  CircleInv'
  <1>1. PICK kind \in {"create", "join", "leave", "rename", "role"}, who \in {"me", "other"},
             role \in CircleRoles : Asks(kind, who, role)
    <2>1. CASE DoCreateOrJoin
      BY Zenon, <2>1 DEF DoCreateOrJoin, CircleRoles
    <2>2. CASE DoLeave
      BY Zenon, <2>2 DEF DoLeave, CircleRoles
    <2>3. CASE DoRenameCircle
      BY Zenon, <2>3 DEF DoRenameCircle, CircleRoles
    <2>4. CASE ChangeRole
      BY Zenon, <2>4 DEF ChangeRole, CircleRoles
    <2> QED
      BY <2>1, <2>2, <2>3, <2>4
  <1>2. /\ UNCHANGED <<circleDb, circleDone>>
        /\ circleEdits' = circleEdits \cup
              {[kind |-> kind, who |-> who, role |-> role, own |-> TRUE, stage |-> "sent"]}
    BY <1>1 DEF Asks
  <1>3. circleEdits' \subseteq CircleEdits
    <2>1. [kind |-> kind, who |-> who, role |-> role, own |-> TRUE, stage |-> "sent"]
             \in CircleEdits
      BY DEF CircleEdits
    <2> QED
      BY Zenon, <1>2, <2>1 DEF CircleInv, CircleTypeOK
  <1>4. circle' = circle \/ circle' = [circle EXCEPT !.busy = TRUE]
    BY DEF DoCreateOrJoin, DoLeave, DoRenameCircle, ChangeRole
  <1> QED
    BY <1>2, <1>3, <1>4, BusyCircle

LEMMA CircleServesKeeps ==
  ASSUME CircleInv, circle.mounted, NEW e \in circleEdits, CircleServes(e) PROVE CircleInv'
  <1>1. /\ e \in CircleEdits /\ circleDb \in CircleDbs /\ circleEdits \subseteq CircleEdits
        /\ UNCHANGED <<circle, circleDone>>
    BY DEF CircleServes, CircleInv, CircleTypeOK
  <1>2. circleEdits' \subseteq CircleEdits
    <2>1. PICK s \in {"applied", "refused"} :
            circleEdits' = (circleEdits \ {e}) \cup {[e EXCEPT !.stage = s]}
      BY DEF CircleServes
    <2> QED
      BY <1>1, <2>1 DEF CircleEdits
  <1>3. Made(e) \in CircleDbs /\ Made(e).rev = circleDb.rev
    <2> DEFINE name == circleDb.rev + 1
    <2>0. name \in Nat
      BY <1>1 DEF CircleDbs
    <2>1. CASE e.kind = "create"
      <3>1. Made(e) = [circleDb EXCEPT !.me = "admin", !.other = "none", !.name = name]
        BY <2>1 DEF Made
      <3> HIDE DEF name
      <3> QED
        BY <1>1, <2>0, <3>1 DEF CircleDbs, CircleRoles
    <2>2. CASE e.kind = "rename"
      <3>1. Made(e) = [circleDb EXCEPT !.name = name]
        BY <2>2 DEF Made
      <3> HIDE DEF name
      <3> QED
        BY <1>1, <2>0, <3>1 DEF CircleDbs
    <2>3. CASE e.kind \in {"join", "leave", "role"}
      <3>1. /\ Made(e) = [circleDb EXCEPT ![e.who] = e.role]
            /\ e.who \in {"me", "other"} /\ e.role \in CircleRoles
        BY <1>1, <2>3 DEF Made, CircleEdits
      <3>2. CASE e.who = "me"
        BY <1>1, <3>1, <3>2 DEF CircleDbs
      <3>3. CASE e.who = "other"
        BY <1>1, <3>1, <3>3 DEF CircleDbs
      <3> QED
        BY <3>1, <3>2, <3>3
    <2> QED
      BY <1>1, <2>1, <2>2, <2>3 DEF CircleEdits
  <1>4. circleDb' = circleDb \/ circleDb' = [Made(e) EXCEPT !.rev = Made(e).rev + 1]
    BY DEF CircleServes
  <1>5. circleDb' \in CircleDbs /\ circleDb'.rev >= circleDb.rev
    BY <1>1, <1>3, <1>4 DEF CircleDbs
  <1> QED
    BY <1>1, <1>2, <1>5, CircleServerStep

LEMMA OthersActKeeps == ASSUME CircleInv, circle.mounted, OthersAct PROVE CircleInv'
  <1>1. circleDb \in CircleDbs /\ circleEdits \subseteq CircleEdits
    BY DEF CircleInv, CircleTypeOK
  <1> DEFINE rev == circleDb.rev + 1
  <1>2. rev \in Nat /\ rev >= circleDb.rev
    BY <1>1 DEF CircleDbs
  <1>3. \/ \E role \in CircleRoles : circleDb' = [circleDb EXCEPT !.me = role, !.rev = rev]
        \/ circleDb' = [circleDb EXCEPT !.name = rev, !.rev = rev]
    BY DEF OthersAct, CircleRoles
  <1> HIDE DEF rev
  <1>4. circleDb' \in CircleDbs /\ circleDb'.rev = rev
    BY <1>1, <1>2, <1>3 DEF CircleDbs
  <1> QED
    BY <1>1, <1>2, <1>4, CircleServerStep DEF OthersAct

(* What an answer has to show for what is recorded of it.                  *)
LEMMA CircleAnsweredStep ==
  ASSUME CircleInv, NEW e \in circleEdits, CircleAnswered(e),
         circleEdits' \subseteq CircleEdits, circle' \in CirclePages, circle'.mounted,
         \/ \A good : Within(circle'.roster, good)
         \/ ~(e.own \/ e.kind \in Memberships) /\ Within(circle'.roster, CirclesSince(circleDone.edit)),
         \/ e.kind \in Memberships /\ \A good : Within(circle'.family, good)
         \/ e.kind \notin Memberships /\ Within(circle'.family, CirclesSince(circleDone.membership))
  PROVE  CircleInv'
  <1> DEFINE edit == IF e.own \/ e.kind \in Memberships THEN circleDb.rev ELSE circleDone.edit
             membership == IF e.kind \in Memberships THEN circleDb.rev ELSE circleDone.membership
             name == IF e.own /\ e.kind = "rename" THEN circleDb.name ELSE circleDone.name
  <1>1. circleDb' = circleDb
        /\ circleDone' = [edit |-> edit, membership |-> membership, name |-> name]
    BY DEF CircleAnswered
  <1>2. /\ circleDb \in CircleDbs /\ circleDb.rev \in Nat /\ circleDb.name \in Nat
        /\ circleDone.edit \in Nat /\ circleDone.membership \in Nat /\ circleDone.name \in Nat
        /\ circleDone.edit <= circleDb.rev /\ circleDone.membership <= circleDb.rev
    BY DEF CircleInv, CircleTypeOK, CircleDbs, CirclesDone
  <1>3. /\ edit \in Nat /\ membership \in Nat /\ name \in Nat
        /\ edit <= circleDb.rev /\ membership <= circleDb.rev
    BY <1>2
  <1>4. /\ Within(circle'.roster, CirclesSince(edit))
        /\ Within(circle'.family, CirclesSince(membership))
    BY Zenon
  <1> HIDE DEF edit, membership, name
  <1>5. /\ circleDone' \in CirclesDone
        /\ circleDone'.edit = edit /\ circleDone'.membership = membership
    BY <1>1, <1>3 DEF CirclesDone
  <1>6. /\ Within(circle'.roster, CirclesSince(circleDone'.edit))
        /\ Within(circle'.family, CirclesSince(circleDone'.membership))
    BY <1>4, <1>5
  <1> QED
    BY <1>1, <1>2, <1>3, <1>5, <1>6
       DEF CircleInv, CircleTypeOK, Within, SettledAsync, CirclesSince

(* Every answered edit of the page's own has the roster read anew, or the  *)
(* page mounted anew.                                                      *)
LEMMA CircleAnsweredKeeps ==
  ASSUME CircleInv, circle.mounted, NEW e \in circleEdits, CircleAnswered(e) PROVE CircleInv'
  <1>1. /\ e \in CircleEdits /\ circleDb \in CircleDbs /\ circleEdits \subseteq CircleEdits
        /\ circleDb' = circleDb /\ circle \in CirclePages /\ circle.roster \in Asyncs(CircleDbs)
        /\ circleDone \in CirclesDone /\ circleDb.rev \in Nat /\ circleDb.name \in Nat
    BY DEF CircleAnswered, CircleInv, CircleTypeOK, CircleDbs, CirclePages
  <1>2. circleEdits' \subseteq CircleEdits
    <2>1. {[o EXCEPT !.own = FALSE] : o \in circleEdits \ {e}} \subseteq CircleEdits
      <3>1. ASSUME NEW o \in CircleEdits PROVE [o EXCEPT !.own = FALSE] \in CircleEdits
        BY DEF CircleEdits
      <3> QED
        BY <1>1, <3>1
    <2> QED
      BY <1>1, <2>1 DEF CircleAnswered
  <1> DEFINE again == Refetched(circle.roster, circleDb)
  <1>3. again \in Asyncs(CircleDbs) /\ \A good : Within(again, good)
    BY <1>1, CircleRefetched
  <1>4. ASSUME NEW busy \in BOOLEAN,
               circle' = [circle EXCEPT !.busy = busy, !.roster = again]
        PROVE  /\ circle' \in CirclePages /\ circle'.mounted
               /\ \A good : Within(circle'.roster, good)
               /\ circle'.family = circle.family
    <2> HIDE DEF again
    <2>1. circle' \in CirclePages /\ circle'.mounted /\ circle'.roster = again
          /\ circle'.family = circle.family
      BY <1>1, <1>3, <1>4 DEF CirclePages
    <2> QED
      BY <1>3, <2>1
  <1>5. CASE e.kind \in Memberships
    <2>1. circle' = Renewed
      BY <1>5 DEF CircleAnswered, Memberships
    <2>2. /\ circle' \in CirclePages /\ circle'.mounted
          /\ circle'.roster = NoAsync /\ circle'.family = NoAsync
      BY <2>1, EnteredCircle, NewQueries
    <2> QED
      BY <1>1, <1>2, <2>2, NewlyMounted, CircleAnsweredStep
  <1>6. CASE e.kind \notin Memberships /\ e.own
    <2>1. \/ circle' = RosterRefetched([circle EXCEPT !.busy = FALSE])
          \/ circle' = RosterRefetched(circle)
      BY <1>1, <1>6 DEF CircleAnswered, CircleEdits, Memberships
    <2>2. \E busy \in BOOLEAN : circle' = [circle EXCEPT !.busy = busy, !.roster = again]
      <3>1. circle.busy \in BOOLEAN
        BY <1>1 DEF CirclePages
      <3>2. RosterRefetched([circle EXCEPT !.busy = FALSE])
               = [circle EXCEPT !.busy = FALSE, !.roster = again]
        BY <1>1 DEF RosterRefetched, CirclePages
      <3>3. RosterRefetched(circle) = [circle EXCEPT !.busy = circle.busy, !.roster = again]
        BY <1>1 DEF RosterRefetched, CirclePages
      <3> HIDE DEF again
      <3> QED
        BY <2>1, <3>1, <3>2, <3>3
    <2>3. /\ circle' \in CirclePages /\ circle'.mounted /\ circle'.family = circle.family
          /\ \A good : Within(circle'.roster, good)
      BY <1>4, <2>2
    <2>4. Within(circle'.family, CirclesSince(circleDone.membership))
      BY <2>3 DEF CircleInv
    <2> QED
      BY <1>1, <1>2, <1>6, <2>3, <2>4, CircleAnsweredStep
  <1>7. CASE e.kind \notin Memberships /\ ~e.own
    <2>1. circle' = circle
      BY <1>7 DEF CircleAnswered, Memberships
    <2>2. circle' \in CirclePages /\ circle'.mounted
          /\ Within(circle'.roster, CirclesSince(circleDone.edit))
          /\ Within(circle'.family, CirclesSince(circleDone.membership))
      BY <1>1, <2>1 DEF CircleInv
    <2> QED
      BY <1>1, <1>2, <1>7, <2>2, CircleAnsweredStep
  <1> QED
    BY <1>5, <1>6, <1>7

LEMMA CircleEditFailsKeeps ==
  ASSUME CircleInv, circle.mounted, NEW e \in circleEdits, CircleEditFails(e) PROVE CircleInv'
  <1>1. circle' = circle \/ circle' = [circle EXCEPT !.busy = FALSE]
    BY DEF CircleEditFails
  <1>2. circleEdits' \subseteq CircleEdits /\ UNCHANGED <<circleDb, circleDone>>
    BY DEF CircleEditFails, CircleInv, CircleTypeOK
  <1> QED
    BY <1>1, <1>2, BusyCircle

(* The page closed, and what is stored before any visit.                   *)
LEMMA ClosedCircle ==
  /\ CircleDb0 \in CircleDbs /\ NothingDone \in CirclesDone
  /\ NothingDone.edit <= CircleDb0.rev /\ NothingDone.membership <= CircleDb0.rev
  /\ NoCircle \in CirclePages
  /\ \A good : Within(NoCircle.roster, good) /\ Within(NoCircle.family, good)
  <1>1. /\ CircleDb0 \in CircleDbs /\ NothingDone \in CirclesDone
        /\ NothingDone.edit <= CircleDb0.rev /\ NothingDone.membership <= CircleDb0.rev
    BY DEF CircleDb0, CircleDbs, CircleRoles, NothingDone, CirclesDone
  <1>2. /\ NoCircle \in CirclePages /\ NoCircle.roster = NoAsync /\ NoCircle.family = NoAsync
    BY EnteredCircle, NewQueries
  <1> QED
    BY <1>1, <1>2, NewlyMounted

LEMMA CircleVisits ==
  ASSUME CircleInv, MountCircle \/ UnmountCircle \/ (circle.mounted /\ SpinnerEnds)
  PROVE  CircleInv'
  <1>1. CASE MountCircle \/ (circle.mounted /\ SpinnerEnds)
    <2>1. /\ circle' \in CirclePages /\ circle'.mounted /\ circle'.roster = NoAsync
          /\ circle'.family = NewAsync
      BY <1>1, EnteredCircle, NewQueries DEF MountCircle, SpinnerEnds
    <2>2. circleDb' \in CircleDbs /\ circleEdits' \subseteq CircleEdits
          /\ circleDone' \in CirclesDone
          /\ circleDone'.edit <= circleDb'.rev /\ circleDone'.membership <= circleDb'.rev
      <3>1. CASE MountCircle
        <4>1. circleDone' = NothingDone
          BY <3>1 DEF MountCircle, CircleInv
        <4> QED
          BY <3>1, <4>1
             DEF MountCircle, CircleInv, CircleTypeOK, CircleDbs, CircleRoles, CirclesDone, NothingDone
      <3>2. CASE SpinnerEnds
        BY <3>2 DEF SpinnerEnds, CircleInv, CircleTypeOK
      <3> QED
        BY <1>1, <3>1, <3>2
    <2>3. Within(circle'.roster, CirclesSince(circleDone'.edit))
          /\ Within(circle'.family, CirclesSince(circleDone'.membership))
      BY <2>1, NewlyMounted
    <2> QED
      BY <2>1, <2>2, <2>3 DEF CircleInv, CircleTypeOK, Within, SettledAsync, CirclesSince
  <1>2. CASE UnmountCircle
    <2>1. /\ circleDb' = CircleDb0 /\ circle' = NoCircle
          /\ circleEdits' = {} /\ circleDone' = NothingDone
      BY <1>2 DEF UnmountCircle
    <2> QED
      BY <2>1, ClosedCircle DEF CircleInv, CircleTypeOK, Within, SettledAsync, CirclesSince
  <1> QED
    BY <1>1, <1>2

LEMMA CircleInvStep ==
  CircleInv /\ [CircleNext \/ MountCircle \/ UnmountCircle]_circleVars => CircleInv'
  <1> SUFFICES ASSUME CircleInv, [CircleNext \/ MountCircle \/ UnmountCircle]_circleVars
               PROVE  CircleInv'
    OBVIOUS
  <1>1. CASE CircleNext
    <2>1. circle.mounted
      BY <1>1, OnlyOpenCircles
    <2> QED
      BY <1>1, <2>1, CircleVisits, CircleQueriesKeep, OthersActKeeps, AsksKeeps,
         CircleServesKeeps, CircleAnsweredKeeps, CircleEditFailsKeeps DEF CircleNext
  <1>2. CASE MountCircle \/ UnmountCircle
    BY <1>2, CircleVisits
  <1>3. CASE UNCHANGED circleVars
    BY <1>3 DEF circleVars, CircleInv, CircleTypeOK, Within, SettledAsync, CirclesSince
  <1> QED
    BY <1>1, <1>2, <1>3

(* Whatever overtakes what, a roster that is shown is no older than the    *)
(* last edit of the page that was answered, and the circle above it, or    *)
(* that there is none, no older than the last change of the user's         *)
(* membership that was (FamiliesPage.tsx:706-709, 769-773, 842, 868).      *)
(* Excepted are the answers that come when the page has been replaced, and *)
(* the circle's name.                                                      *)
THEOREM RosterStaysCurrent == CircleSpec => []RosterFollowsEdits
  <1>1. CircleInit => CircleInv
    BY ClosedCircle DEF CircleInit, CircleInv, CircleTypeOK
  <1>2. CircleInv => RosterFollowsEdits
    BY DEF CircleInv, RosterFollowsEdits, Within, CirclesSince
  <1> QED
    BY <1>1, <1>2, CircleInvStep, PTL DEF CircleSpec

-----------------------------------------------------------------------------
(* The account card.                                                       *)

AccountDbs == [name : AccountNames, pic : Nat, has : BOOLEAN]
AccountLoads == [latest : BOOLEAN, ends : BOOLEAN, at : {"profile", "photo", "loaded"},
                 name : SUBSET AccountNames, has : BOOLEAN, pic : Nat, crossed : BOOLEAN]
Profiles == [name : AccountNames, has : BOOLEAN]
NameSaves == [name : AccountNames, done : BOOLEAN]
AccountPages == [mounted : BOOLEAN, profile : SUBSET Profiles, url : SUBSET Nat, live : Int,
                 loads : SUBSET AccountLoads, failed : BOOLEAN,
                 mutation : {"none", "upload", "remove"},
                 stage : {"none", "sent", "applied", "loading"},
                 saving : SUBSET NameSaves, lost : BOOLEAN, mixed : BOOLEAN]

UrlIsHeld(p) == IsFiniteSet(p.url) /\ p.live = Cardinality(p.url)

(* A mutation that awaits a load awaits the one that is to end it.         *)
OneMutation(p) ==
    /\ p.stage = "none" <=> p.mutation = "none"
    /\ \A l \in p.loads : l.ends => p.stage = "loading"
    /\ \A l, m \in p.loads : l.ends /\ m.ends => l = m

(* Unless a mutation has been applied that nobody knows of yet, the load   *)
(* that will land brings the server's photo, and the card shows it once    *)
(* there is none.                                                          *)
LoadShows(db, l) ==
    /\ l.at = "photo" => db.has
    /\ l.at = "loaded" => l.has = db.has /\ (db.has => l.pic = db.pic)
CardShows(db, p) ==
    /\ p.url = IF db.has THEN {db.pic} ELSE {}
    /\ \A q \in p.profile : q.has = db.has
PhotoFollows(db, p) ==
    p.stage # "applied" /\ ~p.lost =>
       /\ \A l \in p.loads : l.latest => LoadShows(db, l)
       /\ p.profile # {} /\ ~p.failed /\ (\A l \in p.loads : ~l.latest) => CardShows(db, p)

(* A load that no save overlaps with brings the server's name, and the card*)
(* has it until a save is done.                                            *)
NameFollows(db, p) ==
    /\ \A s, t \in p.saving : s = t
    /\ \A s \in p.saving : s.done => s.name = db.name
    /\ p.saving # {} => \A l \in p.loads : l.crossed
    /\ \A l \in p.loads : ~l.crossed /\ l.at # "profile" => l.name = {db.name}
    /\ ~p.mixed /\ (\A s \in p.saving : ~s.done) => \A q \in p.profile : q.name = db.name

AccountFits(db, p) ==
    /\ db \in AccountDbs /\ p \in AccountPages
    /\ UrlIsHeld(p) /\ OneMutation(p) /\ PhotoFollows(db, p) /\ NameFollows(db, p)

AccountInv == AccountFits(accountDb, account)

(* The card as it is opened, or looked at no more.                         *)
LEMMA NoAccountFits ==
  ASSUME NEW mounted \in BOOLEAN, NEW db \in AccountDbs
  PROVE  /\ AccountFits(db, [NoAccount EXCEPT !.mounted = mounted])
         /\ AccountFits(db, NoAccount)
  <1>1. IsFiniteSet({}) /\ Cardinality({}) = 0
    BY FS_EmptySet
  <1>2. ASSUME NEW p \in AccountPages,
               p.profile = {} /\ p.url = {} /\ p.live = 0 /\ p.loads = {} /\ p.saving = {},
               p.mutation = "none" /\ p.stage = "none"
        PROVE  AccountFits(db, p)
    BY <1>1, <1>2 DEF AccountFits, UrlIsHeld, OneMutation, PhotoFollows, NameFollows
  <1>3. /\ NoAccount \in AccountPages /\ NoAccount.profile = {} /\ NoAccount.url = {}
        /\ NoAccount.live = 0 /\ NoAccount.loads = {} /\ NoAccount.saving = {}
        /\ NoAccount.mutation = "none" /\ NoAccount.stage = "none"
    BY DEF NoAccount, AccountPages
  <1> DEFINE p == [NoAccount EXCEPT !.mounted = mounted]
  <1>4. /\ p \in AccountPages /\ p.profile = {} /\ p.url = {}
        /\ p.live = 0 /\ p.loads = {} /\ p.saving = {}
        /\ p.mutation = "none" /\ p.stage = "none"
    BY <1>3 DEF AccountPages
  <1> HIDE DEF p
  <1>5. AccountFits(db, p) /\ AccountFits(db, NoAccount)
    BY <1>2, <1>3, <1>4
  <1> QED
    BY <1>5 DEF p

LEMMA AccountDbTypes ==
  /\ AccountDb0 \in AccountDbs
  /\ [AccountDb0 EXCEPT !.pic = 1, !.has = TRUE] \in AccountDbs
  BY AccountAssumption DEF AccountDb0, AccountDbs

(* Loads that are superseded stay what they are.                           *)
LEMMA SupersededLoads ==
  ASSUME NEW loads \in SUBSET AccountLoads
  PROVE  LET old == {[l EXCEPT !.latest = FALSE] : l \in loads} IN
         /\ old \in SUBSET AccountLoads
         /\ \A m \in old : /\ ~m.latest
                           /\ \E l \in loads : /\ m = [l EXCEPT !.latest = FALSE]
                                               /\ m.ends = l.ends /\ m.at = l.at
                                               /\ m.name = l.name /\ m.crossed = l.crossed
         /\ (\A l, m \in loads : l.ends /\ m.ends => l = m)
            => \A l, m \in old : l.ends /\ m.ends => l = m
  <1>1. ASSUME NEW l \in AccountLoads
        PROVE  LET m == [l EXCEPT !.latest = FALSE] IN
               /\ m \in AccountLoads /\ ~m.latest /\ m.ends = l.ends /\ m.at = l.at
               /\ m.name = l.name /\ m.crossed = l.crossed
    BY DEF AccountLoads
  <1> DEFINE old == {[l EXCEPT !.latest = FALSE] : l \in loads}
  <1>2. ASSUME \A l, m \in loads : l.ends /\ m.ends => l = m,
               NEW l \in old, NEW m \in old, l.ends, m.ends
        PROVE  l = m
    <2>1. PICK k \in loads : l = [k EXCEPT !.latest = FALSE]
      OBVIOUS
    <2>2. PICK n \in loads : m = [n EXCEPT !.latest = FALSE]
      OBVIOUS
    <2>3. k.ends /\ n.ends
      BY <1>1, <1>2, <2>1, <2>2
    <2> QED
      BY <1>2, <2>1, <2>2, <2>3
  <1>3. old \in SUBSET AccountLoads
    BY <1>1
  <1>4. ASSUME NEW m \in old
        PROVE  /\ ~m.latest
               /\ \E l \in loads : /\ m = [l EXCEPT !.latest = FALSE]
                                   /\ m.ends = l.ends /\ m.at = l.at
                                   /\ m.name = l.name /\ m.crossed = l.crossed
    <2>1. PICK l \in loads : m = [l EXCEPT !.latest = FALSE]
      OBVIOUS
    <2> QED
      BY <1>1, <2>1
  <1> HIDE DEF old
  <1>5. /\ old \in SUBSET AccountLoads
        /\ \A m \in old : /\ ~m.latest
                          /\ \E l \in loads : /\ m = [l EXCEPT !.latest = FALSE]
                                              /\ m.ends = l.ends /\ m.at = l.at
                                              /\ m.name = l.name /\ m.crossed = l.crossed
    BY <1>3, <1>4
  <1>6. (\A l, m \in loads : l.ends /\ m.ends => l = m)
        => \A l, m \in old : l.ends /\ m.ends => l = m
    BY <1>2
  <1> QED
    BY <1>5, <1>6 DEF old

(* refreshProfile supersedes every load, by one that is to read all.       *)
LEMMA LoadBegins ==
  ASSUME NEW db, NEW p, AccountFits(db, p), NEW ends \in BOOLEAN,
         ends => p.stage = "applied"
  PROVE  LET q == LoadBegun(p, ends) IN
         /\ q \in AccountPages /\ UrlIsHeld(q) /\ NameFollows(db, q)
         /\ q.stage = p.stage /\ q.mutation = p.mutation
         /\ \A l \in q.loads : l.ends => ends \/ p.stage = "loading"
         /\ \A l, m \in q.loads : l.ends /\ m.ends => l = m
         /\ \A l \in q.loads : l.latest => l.at = "profile"
         /\ \E l \in q.loads : l.latest
  <1> DEFINE old == {[l EXCEPT !.latest = FALSE] : l \in p.loads}
             new == NewLoad(p, ends)
             q == LoadBegun(p, ends)
  <1>1. p \in AccountPages /\ p.loads \in SUBSET AccountLoads /\ db \in AccountDbs
    BY DEF AccountFits, AccountPages
  <1>2. /\ new \in AccountLoads /\ new.latest /\ new.at = "profile" /\ new.ends = ends
        /\ p.saving # {} => new.crossed
    BY DEF NewLoad, AccountLoads
  <1>3. /\ old \in SUBSET AccountLoads
        /\ \A m \in old : /\ ~m.latest
                          /\ \E l \in p.loads : /\ m = [l EXCEPT !.latest = FALSE]
                                                /\ m.ends = l.ends /\ m.at = l.at
                                                /\ m.name = l.name /\ m.crossed = l.crossed
        /\ (\A l, m \in p.loads : l.ends /\ m.ends => l = m)
           => \A l, m \in old : l.ends /\ m.ends => l = m
    BY <1>1, SupersededLoads
  <1>4. q = [p EXCEPT !.loads = old \cup {new}, !.failed = FALSE, !.lost = FALSE]
    BY DEF LoadBegun
  <1> HIDE DEF old, new, q
  <1>5. /\ q \in AccountPages /\ q.loads = old \cup {new}
        /\ q.stage = p.stage /\ q.mutation = p.mutation /\ q.url = p.url /\ q.live = p.live
        /\ q.saving = p.saving /\ q.profile = p.profile /\ q.mixed = p.mixed
    BY <1>1, <1>2, <1>3, <1>4 DEF AccountPages
  <1>6. UrlIsHeld(q)
    BY <1>5 DEF AccountFits, UrlIsHeld
  <1>7. NameFollows(db, q)
    BY <1>2, <1>3, <1>5 DEF AccountFits, NameFollows
  <1>8. \A l \in q.loads : l.ends => ends \/ p.stage = "loading"
    BY <1>2, <1>3, <1>5 DEF AccountFits, OneMutation
  <1>9. \A l, m \in q.loads : l.ends /\ m.ends => l = m
    <2>1. ends => \A l \in old : ~l.ends
      BY <1>3 DEF AccountFits, OneMutation
    <2>2. \A l, m \in old : l.ends /\ m.ends => l = m
      BY <1>3 DEF AccountFits, OneMutation
    <2> QED
      BY <1>2, <1>5, <2>1, <2>2
  <1>10. /\ \A l \in q.loads : l.latest => l.at = "profile"
         /\ \E l \in q.loads : l.latest
    BY <1>2, <1>3, <1>5
  <1> QED
    BY <1>5, <1>6, <1>7, <1>8, <1>9, <1>10 DEF q

LEMMA BegunFits ==
  ASSUME NEW db, NEW p, AccountFits(db, p)
  PROVE  AccountFits(db, LoadBegun(p, FALSE))
  <1> DEFINE q == LoadBegun(p, FALSE)
  <1>1. /\ q \in AccountPages /\ UrlIsHeld(q) /\ NameFollows(db, q)
        /\ q.stage = p.stage /\ q.mutation = p.mutation
        /\ \A l \in q.loads : l.ends => p.stage = "loading"
        /\ \A l, m \in q.loads : l.ends /\ m.ends => l = m
        /\ \A l \in q.loads : l.latest => l.at = "profile"
        /\ \E l \in q.loads : l.latest
    BY LoadBegins
  <1> HIDE DEF q
  <1>2. OneMutation(q)
    BY <1>1 DEF AccountFits, OneMutation
  <1>3. PhotoFollows(db, q)
    BY <1>1 DEF PhotoFollows, LoadShows
  <1> QED
    BY <1>1, <1>2, <1>3 DEF AccountFits, q

LEMMA AccountVisits ==
  ASSUME AccountInv, MountAccount \/ RetryAccount \/ ForgetAccount PROVE AccountInv'
  <1>1. CASE MountAccount
    <2>1. accountDb' \in AccountDbs
      BY <1>1, AccountDbTypes DEF MountAccount
    <2>2. AccountFits(accountDb', [NoAccount EXCEPT !.mounted = TRUE])
      BY <2>1, NoAccountFits
    <2>3. AccountFits(accountDb', LoadBegun([NoAccount EXCEPT !.mounted = TRUE], FALSE))
      BY <2>2, BegunFits
    <2> QED
      BY <1>1, <2>3 DEF MountAccount, AccountInv
  <1>2. CASE RetryAccount
    BY <1>2, BegunFits DEF RetryAccount, AccountInv
  <1>3. CASE ForgetAccount
    BY <1>3, NoAccountFits, AccountDbTypes DEF ForgetAccount, AccountInv
  <1> QED
    BY <1>1, <1>2, <1>3

LEMMA UnmountAccountKeeps == ASSUME AccountInv, UnmountAccount PROVE AccountInv'
  <1> DEFINE old == {[l EXCEPT !.latest = FALSE] : l \in account.loads}
  <1>1. /\ account \in AccountPages /\ accountDb \in AccountDbs /\ accountDb' = accountDb
        /\ account.loads \in SUBSET AccountLoads /\ account.live = Cardinality(account.url)
        /\ account.live \in Int
    BY DEF UnmountAccount, AccountInv, AccountFits, AccountPages, UrlIsHeld
  <1>2. /\ old \in SUBSET AccountLoads
        /\ \A m \in old : /\ ~m.latest
                          /\ \E l \in account.loads : /\ m = [l EXCEPT !.latest = FALSE]
                                                      /\ m.ends = l.ends /\ m.at = l.at
                                                      /\ m.name = l.name /\ m.crossed = l.crossed
        /\ (\A l, m \in account.loads : l.ends /\ m.ends => l = m)
           => \A l, m \in old : l.ends /\ m.ends => l = m
    BY <1>1, SupersededLoads
  <1>3. account' = [account EXCEPT !.mounted = FALSE, !.profile = {}, !.url = {}, !.live = 0,
                                   !.loads = old]
    <2>1. account.live - Cardinality(account.url) = 0
      BY <1>1
    <2> QED
      BY <2>1 DEF UnmountAccount
  <1> HIDE DEF old
  <1>4. /\ account' \in AccountPages /\ account'.loads = old /\ account'.profile = {}
        /\ account'.url = {} /\ account'.live = 0 /\ account'.saving = account.saving
        /\ account'.stage = account.stage /\ account'.mutation = account.mutation
    <2>1. {} \in SUBSET Profiles /\ {} \in SUBSET Nat /\ 0 \in Int /\ FALSE \in BOOLEAN
      OBVIOUS
    <2> QED
      BY <1>1, <1>2, <1>3, <2>1 DEF AccountPages
  <1>5. UrlIsHeld(account')
    BY <1>4, FS_EmptySet DEF UrlIsHeld
  <1>6. OneMutation(account')
    BY <1>2, <1>4 DEF AccountInv, AccountFits, OneMutation
  <1>7. PhotoFollows(accountDb, account')
    BY <1>2, <1>4 DEF PhotoFollows
  <1>8. NameFollows(accountDb, account')
    BY <1>2, <1>4 DEF AccountInv, AccountFits, NameFollows
  <1> QED
    BY <1>1, <1>4, <1>5, <1>6, <1>7, <1>8 DEF AccountInv, AccountFits

LEMMA ProfileServedKeeps == ASSUME AccountInv, ProfileServed PROVE AccountInv'
  <1>1. /\ account \in AccountPages /\ accountDb \in AccountDbs /\ accountDb' = accountDb
        /\ account.loads \in SUBSET AccountLoads
    BY DEF ProfileServed, AccountInv, AccountFits, AccountPages
  <1>2. PICK l \in account.loads :
          /\ l.at \in {"profile", "photo"}
          /\ account' = [account EXCEPT !.loads = (account.loads \ {l}) \cup
                {IF l.at = "profile"
                 THEN [l EXCEPT !.name = {accountDb.name}, !.has = accountDb.has,
                                !.at = IF accountDb.has THEN "photo" ELSE "loaded"]
                 ELSE [l EXCEPT !.has = accountDb.has, !.pic = accountDb.pic, !.at = "loaded"]}]
    BY DEF ProfileServed
  <1> DEFINE m == IF l.at = "profile"
                  THEN [l EXCEPT !.name = {accountDb.name}, !.has = accountDb.has,
                                 !.at = IF accountDb.has THEN "photo" ELSE "loaded"]
                  ELSE [l EXCEPT !.has = accountDb.has, !.pic = accountDb.pic, !.at = "loaded"]
             loads == (account.loads \ {l}) \cup {m}
  <1>3. /\ m \in AccountLoads /\ m.latest = l.latest /\ m.ends = l.ends /\ m.crossed = l.crossed
        /\ LoadShows(accountDb, m)
        /\ m.name = IF l.at = "profile" THEN {accountDb.name} ELSE l.name
    <2>1. CASE l.at = "profile"
      BY <1>1, <2>1 DEF AccountLoads, AccountDbs, LoadShows
    <2>2. CASE l.at # "profile"
      BY <1>1, <2>2 DEF AccountLoads, AccountDbs, LoadShows
    <2> QED
      BY <2>1, <2>2
  <1> HIDE DEF m
  <1>4. account' = [account EXCEPT !.loads = loads]
    BY <1>2 DEF m
  <1>5. loads \in SUBSET AccountLoads
    BY <1>1, <1>3
  <1>6. /\ account' \in AccountPages /\ account'.loads = loads
        /\ account'.url = account.url /\ account'.live = account.live
        /\ account'.profile = account.profile /\ account'.failed = account.failed
        /\ account'.mutation = account.mutation /\ account'.stage = account.stage
        /\ account'.saving = account.saving /\ account'.lost = account.lost
        /\ account'.mixed = account.mixed
    BY <1>1, <1>4, <1>5 DEF AccountPages
  <1>7. UrlIsHeld(account')
    BY <1>6 DEF AccountInv, AccountFits, UrlIsHeld
  <1>8. OneMutation(account')
    BY <1>2, <1>3, <1>6 DEF AccountInv, AccountFits, OneMutation
  <1>9. PhotoFollows(accountDb, account')
    BY <1>2, <1>3, <1>6 DEF AccountInv, AccountFits, PhotoFollows, CardShows
  <1>10. NameFollows(accountDb, account')
    BY <1>2, <1>3, <1>6 DEF AccountInv, AccountFits, NameFollows
  <1> QED
    BY <1>1, <1>6, <1>7, <1>8, <1>9, <1>10 DEF AccountInv, AccountFits

(* A load that has come in, or is lost, ends the mutation that awaits it.  *)
LEMMA EndedLoads ==
  ASSUME AccountInv, NEW l \in account.loads
  PROVE  LET p == Ended(account, l) IN
         /\ p \in AccountPages /\ p.loads = account.loads \ {l}
         /\ p.url = account.url /\ p.live = account.live
         /\ p.profile = account.profile /\ p.failed = account.failed
         /\ p.saving = account.saving /\ p.lost = account.lost /\ p.mixed = account.mixed
         /\ p.stage = "applied" <=> account.stage = "applied"
         /\ OneMutation(p)
  <1> DEFINE p == Ended(account, l)
  <1>1. /\ account \in AccountPages /\ account.loads \in SUBSET AccountLoads
        /\ OneMutation(account)
    BY DEF AccountInv, AccountFits, AccountPages
  <1>2. CASE l.ends
    <2>1. p = [account EXCEPT !.loads = account.loads \ {l}, !.mutation = "none",
                              !.stage = "none"]
      BY <1>2 DEF Ended
    <2> HIDE DEF p
    <2>2. /\ p \in AccountPages /\ p.loads = account.loads \ {l}
          /\ p.url = account.url /\ p.live = account.live
          /\ p.profile = account.profile /\ p.failed = account.failed
          /\ p.saving = account.saving /\ p.lost = account.lost /\ p.mixed = account.mixed
          /\ p.stage = "none" /\ p.mutation = "none"
      BY <1>1, <2>1 DEF AccountPages
    <2>3. account.stage = "loading" /\ \A m \in p.loads : ~m.ends
      BY <1>1, <1>2, <2>2 DEF OneMutation
    <2> QED
      BY <2>2, <2>3 DEF OneMutation, p
  <1>3. CASE ~l.ends
    <2>1. p = [account EXCEPT !.loads = account.loads \ {l}]
      BY <1>1, <1>3 DEF Ended, AccountPages
    <2> HIDE DEF p
    <2>2. /\ p \in AccountPages /\ p.loads = account.loads \ {l}
          /\ p.url = account.url /\ p.live = account.live
          /\ p.profile = account.profile /\ p.failed = account.failed
          /\ p.saving = account.saving /\ p.lost = account.lost /\ p.mixed = account.mixed
          /\ p.stage = account.stage /\ p.mutation = account.mutation
      BY <1>1, <2>1 DEF AccountPages
    <2> QED
      BY <1>1, <2>2 DEF OneMutation, p
  <1> QED
    BY <1>2, <1>3

LEMMA ProfileAnsweredKeeps == ASSUME AccountInv, ProfileAnswered PROVE AccountInv'
  <1>1. PICK l \in account.loads :
          l.at = "loaded" /\ account' = Landed(Ended(account, l), l)
    BY DEF ProfileAnswered
  <1> DEFINE p == Ended(account, l)
  <1>2. /\ p \in AccountPages /\ p.loads = account.loads \ {l}
        /\ p.url = account.url /\ p.live = account.live
        /\ p.profile = account.profile /\ p.failed = account.failed
        /\ p.saving = account.saving /\ p.lost = account.lost /\ p.mixed = account.mixed
        /\ p.stage = "applied" <=> account.stage = "applied"
        /\ OneMutation(p)
    BY EndedLoads
  <1>3. /\ l \in AccountLoads /\ accountDb \in AccountDbs /\ accountDb' = accountDb
        /\ UrlIsHeld(account) /\ account.live \in Int
    BY DEF ProfileAnswered, AccountInv, AccountFits, AccountPages
  <1> HIDE DEF p
  <1>4. CASE ~l.latest
    <2>1. account' = p
      BY <1>1, <1>4 DEF Landed, p
    <2>2. UrlIsHeld(p)
      BY <1>2, <1>3 DEF UrlIsHeld
    <2>3. PhotoFollows(accountDb, p)
      BY <1>2, <1>4 DEF AccountInv, AccountFits, PhotoFollows, CardShows
    <2>4. NameFollows(accountDb, p)
      BY <1>2 DEF AccountInv, AccountFits, NameFollows
    <2> QED
      BY <1>2, <1>3, <2>1, <2>2, <2>3, <2>4 DEF AccountInv, AccountFits
  <1>5. CASE l.latest
    <2> DEFINE url == IF l.has THEN {l.pic} ELSE {}
               card == {[name |-> n, has |-> l.has] : n \in l.name}
               live == Cardinality(url)
    <2>1. account' = UrlReplaced([p EXCEPT !.profile = card, !.mixed = l.crossed], url)
      BY <1>1, <1>5 DEF Landed, Taken, p
    <2>2. url \in SUBSET Nat /\ IsFiniteSet(url) /\ live \in Nat
      <3>1. l.pic \in Nat /\ IsFiniteSet({l.pic}) /\ Cardinality({l.pic}) = 1
        BY <1>3, FS_Singleton DEF AccountLoads
      <3>2. CASE l.has
        BY <3>1, <3>2
      <3>3. CASE ~l.has
        BY <3>3, FS_EmptySet
      <3> QED
        BY <3>2, <3>3
    <2>3. card \in SUBSET Profiles
      BY <1>3 DEF AccountLoads, Profiles
    <2>4. p.live = Cardinality(p.url) /\ p.live \in Int
      BY <1>2, <1>3 DEF UrlIsHeld
    <2>5. account' = [p EXCEPT !.profile = card, !.mixed = l.crossed, !.url = url, !.live = live]
      <3>1. account' = [[p EXCEPT !.profile = card, !.mixed = l.crossed] EXCEPT
                          !.url = url, !.live = p.live + live - p.live]
        BY <1>2, <2>1, <2>4 DEF UrlReplaced, AccountPages
      <3>2. p.live + live - p.live = live
        BY <2>2, <2>4
      <3> QED
        BY <3>1, <3>2
    <2>6. \A q \in card : q.has = l.has /\ q.name \in l.name
      OBVIOUS
    <2>7. l.has = accountDb.has /\ (accountDb.has => l.pic = accountDb.pic)
          => url = IF accountDb.has THEN {accountDb.pic} ELSE {}
      OBVIOUS
    <2> HIDE DEF url, card, live
    <2>8. /\ account' \in AccountPages /\ account'.loads = p.loads
          /\ account'.url = url /\ account'.live = live /\ account'.profile = card
          /\ account'.failed = p.failed /\ account'.stage = p.stage
          /\ account'.mutation = p.mutation /\ account'.saving = p.saving
          /\ account'.lost = p.lost /\ account'.mixed = l.crossed
      <3>1. l.crossed \in BOOLEAN /\ live \in Int
        BY <1>3, <2>2 DEF AccountLoads
      <3> QED
        BY <1>2, <2>2, <2>3, <2>5, <3>1 DEF AccountPages
    <2>9. UrlIsHeld(account')
      BY <2>2, <2>8 DEF UrlIsHeld, live
    <2>10. OneMutation(account')
      BY <1>2, <2>8 DEF OneMutation
    <2>11. PhotoFollows(accountDb, account')
      <3>1. account.stage # "applied" /\ ~account.lost => LoadShows(accountDb, l)
        BY <1>5 DEF AccountInv, AccountFits, PhotoFollows
      <3>2. account.stage # "applied" /\ ~account.lost => CardShows(accountDb, account')
        BY <1>1, <2>6, <2>7, <2>8, <3>1 DEF LoadShows, CardShows
      <3> QED
        BY <1>2, <2>8, <3>2 DEF AccountInv, AccountFits, PhotoFollows
    <2>12. NameFollows(accountDb, account')
      BY <1>1, <1>2, <2>6, <2>8 DEF AccountInv, AccountFits, NameFollows
    <2> QED
      BY <1>3, <2>8, <2>9, <2>10, <2>11, <2>12 DEF AccountInv, AccountFits
  <1> QED
    BY <1>4, <1>5

LEMMA ProfileFailsKeeps == ASSUME AccountInv, ProfileFails PROVE AccountInv'
  <1>1. PICK l \in account.loads :
          account' = [Ended(account, l) EXCEPT !.failed = @ \/ l.latest]
    BY DEF ProfileFails
  <1> DEFINE p == Ended(account, l)
  <1>2. /\ p \in AccountPages /\ p.loads = account.loads \ {l}
        /\ p.url = account.url /\ p.live = account.live
        /\ p.profile = account.profile /\ p.failed = account.failed
        /\ p.saving = account.saving /\ p.lost = account.lost /\ p.mixed = account.mixed
        /\ p.stage = "applied" <=> account.stage = "applied"
        /\ OneMutation(p)
    BY EndedLoads
  <1>3. /\ accountDb \in AccountDbs /\ accountDb' = accountDb
        /\ UrlIsHeld(account)
    BY DEF ProfileFails, AccountInv, AccountFits
  <1> DEFINE failed == p.failed \/ l.latest
  <1>4. account' = [p EXCEPT !.failed = failed]
    BY <1>1
  <1> HIDE DEF p
  <1>5. /\ account' \in AccountPages /\ account'.loads = p.loads
        /\ account'.url = p.url /\ account'.live = p.live /\ account'.profile = p.profile
        /\ account'.failed = failed /\ account'.stage = p.stage
        /\ account'.mutation = p.mutation /\ account'.saving = p.saving
        /\ account'.lost = p.lost /\ account'.mixed = p.mixed
    <2>1. failed \in BOOLEAN
      OBVIOUS
    <2> HIDE DEF failed
    <2> QED
      BY <1>2, <1>4, <2>1 DEF AccountPages
  <1>6. UrlIsHeld(account')
    BY <1>2, <1>3, <1>5 DEF UrlIsHeld
  <1>7. OneMutation(account')
    BY <1>2, <1>5 DEF OneMutation
  <1>8. PhotoFollows(accountDb, account')
    BY <1>2, <1>5 DEF AccountInv, AccountFits, PhotoFollows, CardShows
  <1>9. NameFollows(accountDb, account')
    BY <1>2, <1>5 DEF AccountInv, AccountFits, NameFollows
  <1> QED
    BY <1>3, <1>5, <1>6, <1>7, <1>8, <1>9 DEF AccountInv, AccountFits

LEMMA PictureKeeps ==
  ASSUME AccountInv, ChangePicture \/ PictureServed \/ PictureFails PROVE AccountInv'
  <1>1. account \in AccountPages /\ accountDb \in AccountDbs
    BY DEF AccountInv, AccountFits
  <1>2. CASE ChangePicture
    <2>1. PICK m \in {"upload", "remove"} :
            account' = [account EXCEPT !.mutation = m, !.stage = "sent"]
      BY <1>2 DEF ChangePicture
    <2>2. /\ account' \in AccountPages /\ account'.loads = account.loads
          /\ account'.url = account.url /\ account'.live = account.live
          /\ account'.profile = account.profile /\ account'.failed = account.failed
          /\ account'.mutation = m /\ account'.stage = "sent"
          /\ account'.saving = account.saving /\ account'.lost = account.lost
          /\ account'.mixed = account.mixed
      BY <1>1, <2>1 DEF AccountPages
    <2>3. accountDb' = accountDb /\ account.stage = "none"
      BY <1>2 DEF ChangePicture, AccountInv, AccountFits, OneMutation
    <2>4. UrlIsHeld(account') /\ OneMutation(account')
      BY <2>2, <2>3 DEF AccountInv, AccountFits, UrlIsHeld, OneMutation
    <2>5. PhotoFollows(accountDb, account')
      BY <2>2, <2>3 DEF AccountInv, AccountFits, PhotoFollows, CardShows
    <2>6. NameFollows(accountDb, account')
      BY <2>2 DEF AccountInv, AccountFits, NameFollows
    <2> QED
      BY <1>1, <2>2, <2>3, <2>4, <2>5, <2>6 DEF AccountInv, AccountFits
  <1>3. CASE PictureServed
    <2>1. /\ account' \in AccountPages /\ account'.loads = account.loads
          /\ account'.url = account.url /\ account'.live = account.live
          /\ account'.profile = account.profile /\ account.stage = "sent"
          /\ account'.mutation = account.mutation /\ account'.stage = "applied"
          /\ account'.saving = account.saving /\ account'.mixed = account.mixed
      BY <1>1, <1>3 DEF PictureServed, AccountPages
    <2>2. accountDb' \in AccountDbs /\ accountDb'.name = accountDb.name
      <3> DEFINE has == account.mutation = "upload"
                 pic == accountDb.pic + 1
      <3>1. has \in BOOLEAN /\ pic \in Nat
        BY <1>1 DEF AccountDbs
      <3>2. accountDb' = [accountDb EXCEPT !.pic = pic, !.has = has]
        BY <1>3 DEF PictureServed
      <3> HIDE DEF has, pic
      <3> QED
        BY <1>1, <3>1, <3>2 DEF AccountDbs
    <2>3. UrlIsHeld(account') /\ OneMutation(account')
      BY <2>1 DEF AccountInv, AccountFits, UrlIsHeld, OneMutation
    <2>4. PhotoFollows(accountDb', account')
      BY <2>1 DEF PhotoFollows
    <2>5. NameFollows(accountDb', account')
      BY <2>1, <2>2 DEF AccountInv, AccountFits, NameFollows
    <2> QED
      BY <2>1, <2>2, <2>3, <2>4, <2>5 DEF AccountInv, AccountFits
  <1>4. CASE PictureFails
    <2> DEFINE lost == account.lost \/ account.stage = "applied"
    <2>1. lost \in BOOLEAN
      OBVIOUS
    <2>2. account' = [account EXCEPT !.mutation = "none", !.stage = "none", !.lost = lost]
      BY <1>4 DEF PictureFails
    <2>3. lost <=> account.lost \/ account.stage = "applied"
      OBVIOUS
    <2> HIDE DEF lost
    <2>4. /\ account' \in AccountPages /\ account'.loads = account.loads
          /\ account'.url = account.url /\ account'.live = account.live
          /\ account'.profile = account.profile /\ account'.failed = account.failed
          /\ account'.mutation = "none" /\ account'.stage = "none"
          /\ account'.saving = account.saving /\ account'.lost = lost
          /\ account'.mixed = account.mixed
      BY <1>1, <2>1, <2>2 DEF AccountPages
    <2>5. accountDb' = accountDb /\ account.stage \in {"sent", "applied"}
      BY <1>4 DEF PictureFails
    <2>6. UrlIsHeld(account') /\ OneMutation(account')
      BY <2>4, <2>5 DEF AccountInv, AccountFits, UrlIsHeld, OneMutation
    <2>7. PhotoFollows(accountDb, account')
      BY <2>3, <2>4 DEF AccountInv, AccountFits, PhotoFollows, CardShows
    <2>8. NameFollows(accountDb, account')
      BY <2>4 DEF AccountInv, AccountFits, NameFollows
    <2> QED
      BY <1>1, <2>4, <2>5, <2>6, <2>7, <2>8 DEF AccountInv, AccountFits
  <1> QED
    BY <1>2, <1>3, <1>4

(* The mutation's answer begins the load that is to end it.                *)
LEMMA PictureAnsweredKeeps == ASSUME AccountInv, PictureAnswered PROVE AccountInv'
  <1> DEFINE q == LoadBegun(account, TRUE)
  <1>1. /\ account.stage = "applied" /\ accountDb' = accountDb /\ accountDb \in AccountDbs
        /\ account' = [q EXCEPT !.stage = "loading"]
    BY DEF PictureAnswered, AccountInv, AccountFits
  <1>2. /\ q \in AccountPages /\ UrlIsHeld(q) /\ NameFollows(accountDb, q)
        /\ q.stage = account.stage /\ q.mutation = account.mutation
        /\ \A l, m \in q.loads : l.ends /\ m.ends => l = m
        /\ \A l \in q.loads : l.latest => l.at = "profile"
        /\ \E l \in q.loads : l.latest
    BY <1>1, LoadBegins DEF AccountInv
  <1> HIDE DEF q
  <1>3. /\ account' \in AccountPages /\ account'.loads = q.loads
        /\ account'.url = q.url /\ account'.live = q.live
        /\ account'.profile = q.profile /\ account'.failed = q.failed
        /\ account'.mutation = q.mutation /\ account'.stage = "loading"
        /\ account'.saving = q.saving /\ account'.lost = q.lost
        /\ account'.mixed = q.mixed
    BY <1>1, <1>2 DEF AccountPages
  <1>4. UrlIsHeld(account')
    BY <1>2, <1>3 DEF UrlIsHeld
  <1>5. OneMutation(account')
    BY <1>1, <1>2, <1>3 DEF AccountInv, AccountFits, OneMutation
  <1>6. PhotoFollows(accountDb, account')
    BY <1>2, <1>3 DEF PhotoFollows, LoadShows
  <1>7. NameFollows(accountDb, account')
    BY <1>2, <1>3 DEF NameFollows
  <1> QED
    BY <1>1, <1>3, <1>4, <1>5, <1>6, <1>7 DEF AccountInv, AccountFits

LEMMA SaveNameKeeps == ASSUME AccountInv, SaveName PROVE AccountInv'
  <1>1. PICK n \in AccountNames :
          account' = [account EXCEPT !.saving = {[name |-> n, done |-> FALSE]},
                                     !.loads = {[l EXCEPT !.crossed = TRUE] : l \in account.loads}]
    BY DEF SaveName
  <1> DEFINE loads == {[l EXCEPT !.crossed = TRUE] : l \in account.loads}
             save == [name |-> n, done |-> FALSE]
  <1>2. /\ account \in AccountPages /\ accountDb \in AccountDbs /\ accountDb' = accountDb
        /\ account.loads \in SUBSET AccountLoads /\ account.saving = {}
    BY DEF SaveName, AccountInv, AccountFits, AccountPages
  <1>3. ASSUME NEW l \in AccountLoads
        PROVE  LET m == [l EXCEPT !.crossed = TRUE] IN
               /\ m \in AccountLoads /\ m.crossed /\ m.latest = l.latest /\ m.ends = l.ends
               /\ m.at = l.at /\ m.has = l.has /\ m.pic = l.pic
    BY DEF AccountLoads
  <1>4. /\ loads \in SUBSET AccountLoads
        /\ \A m \in loads : /\ m.crossed
                            /\ \E l \in account.loads :
                                  /\ m = [l EXCEPT !.crossed = TRUE]
                                  /\ m.latest = l.latest /\ m.ends = l.ends
                                  /\ m.at = l.at /\ m.has = l.has /\ m.pic = l.pic
        /\ \A l \in account.loads : \E m \in loads : m.latest = l.latest
    <2>1. \A l \in account.loads : [l EXCEPT !.crossed = TRUE] \in loads
      OBVIOUS
    <2>2. \A m \in loads : \E l \in account.loads : m = [l EXCEPT !.crossed = TRUE]
      OBVIOUS
    <2> HIDE DEF loads
    <2>3. \A m \in loads : /\ m \in AccountLoads /\ m.crossed
                           /\ \E l \in account.loads :
                                 /\ m = [l EXCEPT !.crossed = TRUE]
                                 /\ m.latest = l.latest /\ m.ends = l.ends
                                 /\ m.at = l.at /\ m.has = l.has /\ m.pic = l.pic
      <3> TAKE m \in loads
      <3>1. PICK l \in account.loads : m = [l EXCEPT !.crossed = TRUE]
        BY <2>2
      <3> QED
        BY <1>2, <1>3, <3>1
    <2>4. \A l \in account.loads : \E m \in loads : m.latest = l.latest
      <3> TAKE l \in account.loads
      <3>1. [l EXCEPT !.crossed = TRUE].latest = l.latest
        BY <1>2, <1>3
      <3> QED
        BY <2>1, <3>1
    <2> QED
      BY <2>3, <2>4
  <1>5. save \in NameSaves /\ ~save.done
    BY DEF NameSaves
  <1> HIDE DEF loads, save
  <1>6. account' = [account EXCEPT !.saving = {save}, !.loads = loads]
    BY <1>1 DEF loads, save
  <1>7. /\ account' \in AccountPages /\ account'.loads = loads
        /\ account'.url = account.url /\ account'.live = account.live
        /\ account'.profile = account.profile /\ account'.failed = account.failed
        /\ account'.mutation = account.mutation /\ account'.stage = account.stage
        /\ account'.saving = {save} /\ account'.lost = account.lost
        /\ account'.mixed = account.mixed
    BY <1>2, <1>4, <1>5, <1>6 DEF AccountPages
  <1>8. UrlIsHeld(account')
    BY <1>7 DEF AccountInv, AccountFits, UrlIsHeld
  <1>9. OneMutation(account')
    <2>1. \A l, m \in loads : l.ends /\ m.ends => l = m
      <3> TAKE l, m \in loads
      <3>1. PICK k \in account.loads : l = [k EXCEPT !.crossed = TRUE] /\ l.ends = k.ends
        BY <1>4
      <3>2. PICK o \in account.loads : m = [o EXCEPT !.crossed = TRUE] /\ m.ends = o.ends
        BY <1>4
      <3>3. k.ends /\ o.ends => k = o
        BY DEF AccountInv, AccountFits, OneMutation
      <3> QED
        BY <3>1, <3>2, <3>3
    <2> QED
      BY <1>4, <1>7, <2>1 DEF AccountInv, AccountFits, OneMutation
  <1>10. PhotoFollows(accountDb, account')
    <2>1. (\A m \in loads : ~m.latest) => \A l \in account.loads : ~l.latest
      BY <1>4
    <2>2. account.stage # "applied" /\ ~account.lost =>
             \A m \in loads : m.latest => LoadShows(accountDb, m)
      BY <1>4 DEF AccountInv, AccountFits, PhotoFollows, LoadShows
    <2> QED
      BY <1>7, <2>1, <2>2 DEF AccountInv, AccountFits, PhotoFollows, CardShows
  <1>11. NameFollows(accountDb, account')
    BY <1>2, <1>4, <1>5, <1>7 DEF AccountInv, AccountFits, NameFollows
  <1> QED
    BY <1>2, <1>7, <1>8, <1>9, <1>10, <1>11 DEF AccountInv, AccountFits

(* A save as it goes on changes nothing of the photo.                      *)
LEMMA NameStep ==
  ASSUME AccountInv, accountDb' \in AccountDbs,
         accountDb'.has = accountDb.has, accountDb'.pic = accountDb.pic,
         NEW saving \in SUBSET NameSaves, NEW profile \in SUBSET Profiles, NEW mixed \in BOOLEAN,
         account' = [account EXCEPT !.saving = saving, !.profile = profile, !.mixed = mixed],
         profile # {} => account.profile # {},
         \A q \in profile : \E r \in account.profile : q.has = r.has,
         NameFollows(accountDb', account')
  PROVE  AccountInv'
  <1>1. account \in AccountPages
    BY DEF AccountInv, AccountFits
  <1>2. /\ account' \in AccountPages /\ account'.loads = account.loads
        /\ account'.url = account.url /\ account'.live = account.live
        /\ account'.profile = profile /\ account'.failed = account.failed
        /\ account'.mutation = account.mutation /\ account'.stage = account.stage
        /\ account'.lost = account.lost
    BY <1>1 DEF AccountPages
  <1>3. UrlIsHeld(account') /\ OneMutation(account')
    BY <1>2 DEF AccountInv, AccountFits, UrlIsHeld, OneMutation
  <1>4. PhotoFollows(accountDb', account')
    BY <1>2 DEF AccountInv, AccountFits, PhotoFollows, CardShows, LoadShows
  <1> QED
    BY <1>2, <1>3, <1>4 DEF AccountInv, AccountFits

LEMMA NameKeeps ==
  ASSUME AccountInv, NameServed \/ NameAnswered \/ NameFails PROVE AccountInv'
  <1>1. /\ account \in AccountPages /\ accountDb \in AccountDbs
        /\ account.profile \in SUBSET Profiles /\ account.saving \in SUBSET NameSaves
        /\ account.mixed \in BOOLEAN /\ NameFollows(accountDb, account)
    BY DEF AccountInv, AccountFits, AccountPages
  <1>2. CASE NameServed
    <2>1. PICK s \in account.saving :
            /\ ~s.done
            /\ accountDb' = [accountDb EXCEPT !.name = s.name]
            /\ account' = [account EXCEPT !.saving = {[s EXCEPT !.done = TRUE]}]
      BY <1>2 DEF NameServed
    <2> DEFINE saved == [s EXCEPT !.done = TRUE]
    <2>2. saved \in NameSaves /\ saved.name = s.name /\ s.name \in AccountNames /\ saved.done
      BY <1>1, <2>1 DEF NameSaves
    <2> HIDE DEF saved
    <2>3. /\ accountDb' \in AccountDbs /\ accountDb'.name = s.name
          /\ accountDb'.has = accountDb.has /\ accountDb'.pic = accountDb.pic
      BY <1>1, <2>1, <2>2 DEF AccountDbs
    <2>4. account' = [account EXCEPT !.saving = {saved}, !.profile = account.profile,
                                     !.mixed = account.mixed]
      BY <1>1, <2>1 DEF saved, AccountPages
    <2>5. /\ account'.saving = {saved} /\ account'.loads = account.loads
          /\ account'.profile = account.profile /\ account'.mixed = account.mixed
      BY <1>1, <2>4 DEF AccountPages
    <2>6. NameFollows(accountDb', account')
      BY <1>1, <2>1, <2>2, <2>3, <2>5 DEF NameFollows
    <2> QED
      BY <1>1, <2>2, <2>3, <2>4, <2>6, NameStep
  <1>3. CASE NameAnswered
    <2>1. PICK s \in account.saving :
            /\ s.done
            /\ account' = [account EXCEPT !.saving = {},
                              !.profile = {[q EXCEPT !.name = s.name] : q \in account.profile}]
      BY <1>3 DEF NameAnswered
    <2> DEFINE profile == {[q EXCEPT !.name = s.name] : q \in account.profile}
    <2>2. s.name \in AccountNames /\ s.name = accountDb.name
      BY <1>1, <2>1 DEF NameSaves, NameFollows
    <2>3. ASSUME NEW q \in Profiles
          PROVE  LET r == [q EXCEPT !.name = s.name] IN
                 r \in Profiles /\ r.has = q.has /\ r.name = s.name
      BY <2>2 DEF Profiles
    <2>4. /\ profile \in SUBSET Profiles /\ (profile # {} => account.profile # {})
          /\ \A q \in profile : q.name = s.name /\ \E r \in account.profile : q.has = r.has
      <3>1. \A q \in profile : \E r \in account.profile : q = [r EXCEPT !.name = s.name]
        OBVIOUS
      <3>2. profile # {} => account.profile # {}
        OBVIOUS
      <3> HIDE DEF profile
      <3>3. ASSUME NEW q \in profile
            PROVE  /\ q \in Profiles /\ q.name = s.name
                   /\ \E r \in account.profile : q.has = r.has
        <4>1. PICK r \in account.profile : q = [r EXCEPT !.name = s.name]
          BY <3>1
        <4> QED
          BY <1>1, <2>3, <4>1
      <3> QED
        BY <3>2, <3>3
    <2> HIDE DEF profile
    <2>5. account' = [account EXCEPT !.saving = {}, !.profile = profile,
                                     !.mixed = account.mixed]
      BY <1>1, <2>1 DEF profile, AccountPages
    <2>6. /\ account'.saving = {} /\ account'.loads = account.loads
          /\ account'.profile = profile /\ account'.mixed = account.mixed
      BY <1>1, <2>5 DEF AccountPages
    <2>7. accountDb' = accountDb
      BY <1>3 DEF NameAnswered
    <2>8. NameFollows(accountDb', account')
      BY <1>1, <2>2, <2>4, <2>6, <2>7 DEF NameFollows
    <2> QED
      <3>1. accountDb'.has = accountDb.has /\ accountDb'.pic = accountDb.pic
        BY <2>7
      <3>2. {} \in SUBSET NameSaves /\ accountDb' \in AccountDbs
        BY <1>1, <2>7
      <3>3. \A q \in profile : \E r \in account.profile : q.has = r.has
        BY <2>4
      <3>4. profile \in SUBSET Profiles /\ (profile # {} => account.profile # {})
        BY <2>4
      <3> QED
        BY <1>1, <2>5, <2>8, <3>1, <3>2, <3>3, <3>4, NameStep
  <1>4. CASE NameFails
    <2>1. PICK s \in account.saving :
            account' = [account EXCEPT !.saving = {}, !.mixed = @ \/ s.done]
      BY <1>4 DEF NameFails
    <2> DEFINE mixed == account.mixed \/ s.done
    <2>2. mixed \in BOOLEAN /\ (~mixed => ~account.mixed /\ ~s.done)
      OBVIOUS
    <2> HIDE DEF mixed
    <2>3. account' = [account EXCEPT !.saving = {}, !.profile = account.profile, !.mixed = mixed]
      BY <1>1, <2>1 DEF mixed, AccountPages
    <2>4. /\ account'.saving = {} /\ account'.loads = account.loads
          /\ account'.profile = account.profile /\ account'.mixed = mixed
      BY <1>1, <2>2, <2>3 DEF AccountPages
    <2>5. accountDb' = accountDb
      BY <1>4 DEF NameFails
    <2>6. NameFollows(accountDb', account')
      BY <1>1, <2>1, <2>2, <2>4, <2>5 DEF NameFollows
    <2> QED
      BY <1>1, <2>2, <2>3, <2>5, <2>6, NameStep
  <1> QED
    BY <1>2, <1>3, <1>4

LEMMA AccountInvStep ==
  AccountInv /\ [AccountNext \/ MountAccount \/ UnmountAccount]_accountVars => AccountInv'
  <1> SUFFICES ASSUME AccountInv, [AccountNext \/ MountAccount \/ UnmountAccount]_accountVars
               PROVE  AccountInv'
    OBVIOUS
  <1>1. CASE UNCHANGED accountVars
    BY <1>1 DEF accountVars, AccountInv
  <1> QED
    BY <1>1, AccountVisits, UnmountAccountKeeps, ProfileServedKeeps, ProfileAnsweredKeeps,
       ProfileFailsKeeps, PictureKeeps, PictureAnsweredKeeps, SaveNameKeeps, NameKeeps
       DEF AccountNext

(* However uploads, removals and retries overlap, the card holds no object *)
(* URL but the recorded one.  Once its loads and its mutation are over and *)
(* none has failed or lost its answer, it shows the server's photo and,    *)
(* unless its save overlapped with a load, the server's name: a name saved *)
(* while a load is under way is shown undone (SettingsPage.tsx:145-188).   *)
THEOREM CardStaysCurrent == AccountSpec => []ProfileIsCurrent
  <1>1. AccountInit => AccountInv
    BY NoAccountFits, AccountDbTypes DEF AccountInit, AccountInv
  <1>2. AccountInv => ProfileIsCurrent
    <2> SUFFICES ASSUME AccountInv PROVE ProfileIsCurrent
      OBVIOUS
    <2>1. account.mutation = "none" => account.stage # "applied"
      BY DEF AccountInv, AccountFits, OneMutation
    <2> QED
      BY <2>1 DEF AccountInv, AccountFits, UrlIsHeld, PhotoFollows, CardShows, NameFollows,
         ProfileIsCurrent
  <1> QED
    BY <1>1, <1>2, AccountInvStep, PTL DEF AccountSpec

-----------------------------------------------------------------------------
(* The photo of a member.                                                  *)

PhotoRevs == [rev : Nat, has : BOOLEAN]
PhotoLoads == [key : PhotoRevs, active : BOOLEAN, bytes : Nat]
PhotoUrls == [key : PhotoRevs, bytes : Nat]
PhotoPages == [mounted : BOOLEAN, row : Asyncs(PhotoRevs), updates : SUBSET PhotoRevs,
               loads : SUBSET PhotoLoads, urls : SUBSET PhotoUrls, live : Int,
               missed : BOOLEAN]

AtMostOne(S) == \A x, y \in S : x = y

(* What is known of the photo is older than the server's, or the same.     *)
KnownRev(db, k) == k.rev <= db.rev /\ (k.rev = db.rev => k = db)
RevsAreKnown(db, frames, p) ==
    /\ \A k \in p.row.data \cup p.row.got \cup p.updates \cup frames : KnownRev(db, k)
    /\ AtMostOne(p.row.data) /\ AtMostOne(p.row.got) /\ AtMostOne(p.updates)

(* One object URL at most, of what is wanted, as is what may replace it.   *)
UrlsFit(db, p) ==
    /\ AtMostOne(p.urls) /\ p.live = Cardinality(p.urls)
    /\ \A u \in p.urls : u.key \in Wanted(p) /\ u.bytes >= u.key.rev /\ u.bytes <= db.rev
LoadsFit(db, p) ==
    \A l \in p.loads : l.active =>
       l.key \in Wanted(p) /\ (l.bytes # 0 => l.bytes >= l.key.rev /\ l.bytes <= db.rev)

(* Unless something was missed, the server's revision is on its way or     *)
(* known, and its photo, once it is wanted, held or loaded.                *)
NewsComes(db, frames, p) ==
    ~p.missed => db \in frames \cup p.updates \/ p.row.data \cup p.row.got \subseteq {db}
NewestIsAsked(db, p) ==
    ~p.missed /\ db \in Wanted(p)
    => (\E u \in p.urls : u.key = db) \/ (\E l \in p.loads : l.active /\ l.key = db)

PhotoFits(db, frames, p) ==
    /\ db \in PhotoRevs /\ frames \subseteq PhotoRevs /\ p \in PhotoPages
    /\ ~p.mounted => p.row = NoAsync /\ frames = {}
    /\ RevsAreKnown(db, frames, p) /\ UrlsFit(db, p) /\ LoadsFit(db, p)
    /\ NewsComes(db, frames, p) /\ NewestIsAsked(db, p)

PhotoInv == PhotoFits(photoDb, photoFrames, photo)

LEMMA OneCounted ==
  ASSUME NEW S, AtMostOne(S)
  PROVE  IsFiniteSet(S) /\ Cardinality(S) \in Nat /\ (S = {} => Cardinality(S) = 0)
         /\ (S # {} => Cardinality(S) = 1)
  <1>1. CASE S = {}
    BY <1>1, FS_EmptySet
  <1>2. CASE S # {}
    <2>1. PICK x \in S : TRUE
      BY <1>2
    <2>2. S = {x}
      BY <2>1 DEF AtMostOne
    <2>3. IsFiniteSet({x}) /\ Cardinality({x}) = 1
      BY FS_Singleton
    <2> QED
      BY <1>2, <2>2, <2>3
  <1> QED
    BY <1>1, <1>2

LEMMA SameWanted ==
  ASSUME NEW p, NEW q, p.row = q.row, p.updates = q.updates
  PROVE  Wanted(p) = Wanted(q)
  BY DEF Wanted

LEMMA WantedRevs ==
  ASSUME NEW p
  PROVE  /\ \A k \in Wanted(p) : k.has /\ k \in p.row.data \cup p.updates
         /\ p.row.data = {} => Wanted(p) = {}
         /\ AtMostOne(p.row.data) => AtMostOne(Wanted(p))
  <1>1. ASSUME NEW rev, NEW updates
        PROVE  Overlaid(rev, updates) = rev \/ Overlaid(rev, updates) \in updates
    BY DEF Overlaid
  <1>2. \A k \in Wanted(p) : k.has /\ \E d \in p.row.data : k = Overlaid(d, p.updates)
    BY DEF Wanted
  <1>3. \A k \in Wanted(p) : k \in p.row.data \cup p.updates
    BY <1>1, <1>2
  <1>4. AtMostOne(p.row.data) => AtMostOne(Wanted(p))
    BY <1>2 DEF AtMostOne
  <1> QED
    BY <1>2, <1>3, <1>4

(* The records that are dropped are revoked.                               *)
LEMMA DroppedUrls ==
  ASSUME NEW p \in PhotoPages, AtMostOne(p.urls), p.live = Cardinality(p.urls), NEW keys
  PROVE  LET q == Dropped(p, keys) IN
         /\ q \in PhotoPages /\ q.urls = {u \in p.urls : u.key \in keys}
         /\ AtMostOne(q.urls) /\ q.live = Cardinality(q.urls)
         /\ q.mounted = p.mounted /\ q.row = p.row /\ q.updates = p.updates
         /\ q.loads = p.loads /\ q.missed = p.missed
  <1> DEFINE in == {u \in p.urls : u.key \in keys}
             out == {u \in p.urls : u.key \notin keys}
             live == p.live - Cardinality(out)
             q == Dropped(p, keys)
  <1>1. q = [p EXCEPT !.urls = in, !.live = live]
    BY DEF Dropped
  <1>2. AtMostOne(in) /\ AtMostOne(out)
    BY DEF AtMostOne
  <1>3. live = Cardinality(in) /\ live \in Int
    <2>1. CASE p.urls = {}
      <3>1. in = {} /\ out = {}
        BY <2>1
      <3> QED
        BY <2>1, <3>1, FS_EmptySet
    <2>2. CASE p.urls # {}
      <3>1. PICK u \in p.urls : p.urls = {u}
        BY <2>2 DEF AtMostOne
      <3>2. Cardinality({u}) = 1 /\ Cardinality({}) = 0
        BY FS_Singleton, FS_EmptySet
      <3>3. CASE u.key \in keys
        <4>1. in = {u} /\ out = {}
          BY <3>1, <3>3
        <4> HIDE DEF in, out
        <4>2. Cardinality(in) = 1 /\ Cardinality(out) = 0 /\ p.live = 1
          BY <3>1, <3>2, <4>1
        <4> QED
          BY <4>2
      <3>4. CASE u.key \notin keys
        <4>1. in = {} /\ out = {u}
          BY <3>1, <3>4
        <4> HIDE DEF in, out
        <4>2. Cardinality(in) = 0 /\ Cardinality(out) = 1 /\ p.live = 1
          BY <3>1, <3>2, <4>1
        <4> QED
          BY <4>2
      <3> QED
        BY <3>3, <3>4
    <2> QED
      BY <2>1, <2>2
  <1>4. in \in SUBSET PhotoUrls
    BY DEF PhotoPages
  <1> HIDE DEF in, out, live, q
  <1>5. /\ q \in PhotoPages /\ q.urls = in /\ q.live = live
        /\ q.mounted = p.mounted /\ q.row = p.row /\ q.updates = p.updates
        /\ q.loads = p.loads /\ q.missed = p.missed
    BY <1>1, <1>3, <1>4 DEF PhotoPages
  <1> QED
    BY <1>2, <1>3, <1>5 DEF q, in

(* What the effect makes of a page whose rows or updates have changed.     *)
LEMMA ShowsFits ==
  ASSUME NEW db \in PhotoRevs, NEW frames \in SUBSET PhotoRevs,
         UrlsFit(db, photo), LoadsFit(db, photo), NewestIsAsked(db, photo),
         NEW q \in PhotoPages, q.urls = photo.urls, q.loads = photo.loads, q.live = photo.live,
         photo.missed => q.missed,
         ~q.mounted => q.row = NoAsync /\ frames = {},
         RevsAreKnown(db, frames, q), NewsComes(db, frames, q)
  PROVE  PhotoFits(db, frames, Shows(photo, q))
  <1>1. CASE Wanted(photo) = Wanted(q)
    <2>1. Shows(photo, q) = q
      BY <1>1 DEF Shows
    <2>2. UrlsFit(db, q) /\ LoadsFit(db, q)
      BY <1>1 DEF UrlsFit, LoadsFit
    <2>3. NewestIsAsked(db, q)
      BY <1>1 DEF NewestIsAsked, PhotoPages
    <2> QED
      BY <2>1, <2>2, <2>3 DEF PhotoFits
  <1>2. CASE Wanted(photo) # Wanted(q)
    <2> DEFINE W == Wanted(q)
               d == Dropped(q, W)
               over == {[l EXCEPT !.active = FALSE] : l \in d.loads}
               begun == {[key |-> k, active |-> TRUE, bytes |-> 0] :
                            k \in W \ {u.key : u \in d.urls}}
               e == [d EXCEPT !.loads = over \cup begun]
    <2>1. Shows(photo, q) = e
      BY <1>2 DEF Shows, Effected
    <2>2. /\ d \in PhotoPages /\ d.urls = {u \in q.urls : u.key \in W}
          /\ AtMostOne(d.urls) /\ d.live = Cardinality(d.urls)
          /\ d.mounted = q.mounted /\ d.row = q.row /\ d.updates = q.updates
          /\ d.loads = q.loads /\ d.missed = q.missed
      BY DroppedUrls DEF UrlsFit
    <2>3. W \subseteq PhotoRevs /\ \A k \in W : KnownRev(db, k)
      BY WantedRevs DEF RevsAreKnown, PhotoPages, Asyncs
    <2> HIDE DEF d, W
    <2>4. ASSUME NEW l \in over PROVE l \in PhotoLoads /\ ~l.active
      <3>1. PICK m \in d.loads : l = [m EXCEPT !.active = FALSE]
        OBVIOUS
      <3>2. m \in PhotoLoads
        BY <2>2 DEF PhotoPages
      <3> QED
        BY <3>1, <3>2 DEF PhotoLoads
    <2>5. ASSUME NEW l \in begun
          PROVE  l \in PhotoLoads /\ l.active /\ l.key \in W /\ l.bytes = 0
      <3>1. PICK k \in W : l = [key |-> k, active |-> TRUE, bytes |-> 0]
        OBVIOUS
      <3> QED
        BY <2>3, <3>1 DEF PhotoLoads
    <2>6. ASSUME NEW k \in W
          PROVE  (\E u \in d.urls : u.key = k) \/ (\E l \in begun : l.active /\ l.key = k)
      <3>1. CASE \E u \in d.urls : u.key = k
        BY <3>1
      <3>2. CASE ~\E u \in d.urls : u.key = k
        <4>1. [key |-> k, active |-> TRUE, bytes |-> 0] \in begun
          BY <3>2
        <4> QED
          BY <4>1
      <3> QED
        BY <3>1, <3>2
    <2> HIDE DEF over, begun
    <2>7. over \cup begun \in SUBSET PhotoLoads
      BY <2>4, <2>5
    <2>8. /\ e \in PhotoPages /\ e.loads = over \cup begun
          /\ e.urls = d.urls /\ e.live = d.live /\ e.mounted = q.mounted /\ e.row = q.row
          /\ e.updates = q.updates /\ e.missed = q.missed
      BY <2>2, <2>7 DEF PhotoPages
    <2> HIDE DEF e
    <2>9. Wanted(e) = W
      BY <2>8, SameWanted DEF W
    <2>10. UrlsFit(db, e)
      BY <2>2, <2>8, <2>9 DEF UrlsFit
    <2>11. LoadsFit(db, e)
      BY <2>4, <2>5, <2>8, <2>9 DEF LoadsFit
    <2>12. NewestIsAsked(db, e)
      BY <2>6, <2>8, <2>9 DEF NewestIsAsked
    <2>13. RevsAreKnown(db, frames, e) /\ NewsComes(db, frames, e)
      BY <2>8 DEF RevsAreKnown, NewsComes
    <2> QED
      BY <2>1, <2>8, <2>10, <2>11, <2>12, <2>13 DEF PhotoFits
  <1> QED
    BY <1>1, <1>2

LEMMA PhotoRowsKeep == ASSUME PhotoInv, PhotoRows PROVE PhotoInv'
  <1> DEFINE query == photo.row
  <1>1. /\ photo \in PhotoPages /\ photoDb \in PhotoRevs /\ photoFrames \in SUBSET PhotoRevs
        /\ query \in Asyncs(PhotoRevs) /\ UNCHANGED <<photoDb, photoFrames>>
        /\ UrlsFit(photoDb, photo) /\ LoadsFit(photoDb, photo) /\ NewestIsAsked(photoDb, photo)
    BY DEF PhotoRows, PhotoInv, PhotoFits, PhotoPages
  <1>2. photo.mounted
    <2> SUFFICES ASSUME ~photo.mounted PROVE FALSE
      OBVIOUS
    <2>1. photo.row = NoAsync
      BY DEF PhotoInv, PhotoFits
    <2>2. NoAsync.at = "none" /\ NoAsync.old = {}
      BY PlainQueries
    <2>3. AsyncSteps(NoAsync, photoDb) = {}
      BY <2>2 DEF AsyncSteps
    <2> QED
      BY <2>1, <2>3 DEF PhotoRows
  <1>3. ASSUME NEW a \in Asyncs(PhotoRevs), photo' = Shows(photo, [photo EXCEPT !.row = a]),
               \/ a.data = query.data /\ a.got \in {query.got, {}, {photoDb}}
               \/ a.data = query.got /\ a.got = {}
               \/ a.data = {} /\ a.got = {}
        PROVE  PhotoInv'
    <2> DEFINE q == [photo EXCEPT !.row = a]
    <2>1. /\ q \in PhotoPages /\ q.row = a /\ q.urls = photo.urls /\ q.loads = photo.loads
          /\ q.live = photo.live /\ q.missed = photo.missed /\ q.mounted = photo.mounted
          /\ q.updates = photo.updates
      BY <1>1 DEF PhotoPages
    <2> HIDE DEF q
    <2>2. KnownRev(photoDb, photoDb)
      BY <1>1 DEF KnownRev, PhotoRevs
    <2>3. RevsAreKnown(photoDb, photoFrames, q)
      BY <1>3, <2>1, <2>2 DEF PhotoInv, PhotoFits, RevsAreKnown, AtMostOne
    <2>4. NewsComes(photoDb, photoFrames, q)
      BY <1>3, <2>1 DEF PhotoInv, PhotoFits, NewsComes
    <2>5. PhotoFits(photoDb, photoFrames, Shows(photo, q))
      BY <1>1, <1>2, <2>1, <2>3, <2>4, ShowsFits
    <2> QED
      BY <1>1, <1>3, <2>5 DEF PhotoInv, q
  <1>4. ASSUME NEW a \in AsyncSteps(query, photoDb) PROVE
          /\ a \in Asyncs(PhotoRevs)
          /\ \/ a.data = query.data /\ a.got \in {query.got, {}, {photoDb}}
             \/ a.data = query.got /\ a.got = {}
             \/ a.data = {} /\ a.got = {}
    <2>1. CASE a = [query EXCEPT !.at = "read", !.got = {photoDb}]
      BY <1>1, <2>1 DEF Asyncs
    <2>2. CASE a = Arrived(query)
      BY <1>1, <2>2 DEF Asyncs, Arrived
    <2>3. CASE a = FailedAsync(query)
      BY <1>1, <2>3 DEF Asyncs, FailedAsync
    <2>4. ASSUME NEW v, a = StaleArrived(query, v)
          PROVE  a \in Asyncs(PhotoRevs) /\ a.data = query.data /\ a.got = query.got
      BY <1>1, <2>4 DEF Asyncs, StaleArrived
    <2> QED
      BY <2>1, <2>2, <2>3, <2>4 DEF AsyncSteps
  <1>5. CASE \E a \in AsyncSteps(query, photoDb) : photo' = Shows(photo, [photo EXCEPT !.row = a])
    BY <1>3, <1>4, <1>5
  <1>6. CASE photo' = [photo EXCEPT !.row = Refetched(@, photoDb)]
    <2> DEFINE a == Refetched(query, photoDb)
    <2>1. a \in Asyncs(PhotoRevs)
      BY <1>1, QueryRefetched
    <2>2. a.data = query.data /\ a.got = {}
      <3>1. Cancelled(query, photoDb) \in Asyncs(PhotoRevs)
        BY <1>1, QueryRefetched
      <3>2. Cancelled(query, photoDb).data = query.data /\ Cancelled(query, photoDb).got = {}
        BY <1>1 DEF Cancelled, Asyncs
      <3> QED
        BY <3>1, <3>2 DEF Refetched, Asyncs
    <2>3. photo' = [photo EXCEPT !.row = a]
      BY <1>6
    <2> HIDE DEF a
    <2>4. Wanted([photo EXCEPT !.row = a]) = Wanted(photo)
      BY <1>1, <2>2 DEF Wanted, PhotoPages
    <2>5. photo' = Shows(photo, [photo EXCEPT !.row = a])
      BY <2>3, <2>4 DEF Shows
    <2> QED
      BY <1>3, <2>1, <2>2, <2>5
  <1> QED
    BY <1>5, <1>6 DEF PhotoRows

(* A new revision is newer than all that is known of the photo.            *)
LEMMA ChangePhotoKeeps == ASSUME PhotoInv, ChangePhoto PROVE PhotoInv'
  <1> DEFINE rev == photoDb.rev + 1
  <1>1. PICK has \in BOOLEAN : photoDb' = [rev |-> rev, has |-> has]
    BY DEF ChangePhoto
  <1>2. /\ photoDb \in PhotoRevs /\ photoDb.rev \in Nat /\ photo \in PhotoPages
        /\ photo' = photo /\ photo.mounted
        /\ photoFrames' = photoFrames \cup {photoDb'} /\ photoFrames \subseteq PhotoRevs
    BY DEF ChangePhoto, PhotoInv, PhotoFits, PhotoRevs
  <1>3. rev \in Nat /\ rev > photoDb.rev /\ photoDb' \in PhotoRevs /\ photoDb'.rev = rev
    BY <1>1, <1>2 DEF PhotoRevs
  <1> HIDE DEF rev
  <1>4. ASSUME NEW k \in PhotoRevs, KnownRev(photoDb, k)
        PROVE  KnownRev(photoDb', k) /\ k # photoDb'
    BY <1>2, <1>3, <1>4 DEF KnownRev, PhotoRevs
  <1>5. /\ photo.row.data \cup photo.row.got \cup photo.updates \cup photoFrames \subseteq PhotoRevs
        /\ Wanted(photo) \subseteq PhotoRevs /\ photoDb' \notin Wanted(photo)
    <2>1. photo.row.data \cup photo.row.got \cup photo.updates \cup photoFrames \subseteq PhotoRevs
      BY <1>2 DEF PhotoPages, Asyncs
    <2>2. \A k \in Wanted(photo) : k \in photo.row.data \cup photo.updates
      BY WantedRevs
    <2> QED
      BY <1>4, <2>1, <2>2 DEF PhotoInv, PhotoFits, RevsAreKnown
  <1>6. KnownRev(photoDb', photoDb')
    BY <1>3 DEF KnownRev
  <1>7. RevsAreKnown(photoDb', photoFrames', photo)
    BY <1>2, <1>4, <1>5, <1>6 DEF PhotoInv, PhotoFits, RevsAreKnown
  <1>8. UrlsFit(photoDb', photo)
    <2>1. \A u \in photo.urls : u.bytes \in Nat
      BY <1>2 DEF PhotoPages, PhotoUrls
    <2> QED
      BY <1>2, <1>3, <2>1 DEF PhotoInv, PhotoFits, UrlsFit
  <1>9. LoadsFit(photoDb', photo)
    <2>1. \A l \in photo.loads : l.bytes \in Nat
      BY <1>2 DEF PhotoPages, PhotoLoads
    <2> QED
      BY <1>2, <1>3, <2>1 DEF PhotoInv, PhotoFits, LoadsFit
  <1>10. NewsComes(photoDb', photoFrames', photo) /\ NewestIsAsked(photoDb', photo)
    BY <1>2, <1>5 DEF NewsComes, NewestIsAsked
  <1> QED
    BY <1>2, <1>3, <1>7, <1>8, <1>9, <1>10 DEF PhotoInv, PhotoFits

LEMMA FramesKeep ==
  ASSUME PhotoInv, OnAvatarFrame \/ MissFrame \/ UpdatesReset PROVE PhotoInv'
  <1>1. /\ photo \in PhotoPages /\ photoDb \in PhotoRevs /\ photoFrames \in SUBSET PhotoRevs
        /\ photoDb' = photoDb
        /\ UrlsFit(photoDb, photo) /\ LoadsFit(photoDb, photo) /\ NewestIsAsked(photoDb, photo)
    BY DEF OnAvatarFrame, MissFrame, UpdatesReset, PhotoInv, PhotoFits
  <1>2. CASE OnAvatarFrame
    <2>1. PICK frame \in photoFrames :
            /\ photoFrames' = photoFrames \ {frame}
            /\ photo' = Shows(photo, [photo EXCEPT !.updates = Updated(photo.updates, frame)])
      BY <1>2 DEF OnAvatarFrame
    <2> DEFINE updates == Updated(photo.updates, frame)
               q == [photo EXCEPT !.updates = updates]
    <2>2. /\ updates \in {photo.updates, {frame}}
          /\ updates # photo.updates => \A u \in photo.updates : ~(frame.rev <= u.rev)
          /\ updates = photo.updates \/ updates = {frame}
          /\ (\E u \in photo.updates : frame.rev <= u.rev) => updates = photo.updates
      BY DEF Updated
    <2>3. updates \in SUBSET PhotoRevs
      BY <1>1, <2>2 DEF PhotoPages
    <2> HIDE DEF updates
    <2>4. /\ q \in PhotoPages /\ q.row = photo.row /\ q.urls = photo.urls
          /\ q.loads = photo.loads /\ q.live = photo.live /\ q.missed = photo.missed
          /\ q.mounted = photo.mounted /\ q.updates = updates
      BY <1>1, <2>3 DEF PhotoPages
    <2> HIDE DEF q
    <2>5. RevsAreKnown(photoDb, photoFrames', q)
      BY <2>1, <2>2, <2>4 DEF PhotoInv, PhotoFits, RevsAreKnown, AtMostOne
    <2>6. NewsComes(photoDb, photoFrames', q)
      <3>1. CASE photoDb = frame
        <4>1. photoDb \in updates
          <5>1. CASE updates = {frame}
            BY <3>1, <5>1
          <5>2. CASE updates # {frame}
            <6>1. PICK u \in photo.updates : frame.rev <= u.rev
              BY <2>2, <5>2 DEF Updated, updates
            <6>2. KnownRev(photoDb, u) /\ u \in PhotoRevs
              BY <1>1, <6>1 DEF PhotoInv, PhotoFits, RevsAreKnown, PhotoPages
            <6>3. u = photoDb
              BY <1>1, <3>1, <6>1, <6>2 DEF KnownRev, PhotoRevs
            <6> QED
              BY <2>2, <5>2, <6>1, <6>3
          <5> QED
            BY <5>1, <5>2
        <4> QED
          BY <2>4, <4>1 DEF NewsComes
      <3>2. CASE photoDb # frame
        <4>1. photoDb \in photo.updates => photoDb \in updates
          <5> SUFFICES ASSUME photoDb \in photo.updates PROVE photoDb \in updates
            OBVIOUS
          <5>1. KnownRev(photoDb, frame)
            BY <2>1 DEF PhotoInv, PhotoFits, RevsAreKnown
          <5> QED
            BY <2>2, <5>1 DEF KnownRev
        <4> QED
          BY <2>1, <2>4, <3>2, <4>1 DEF PhotoInv, PhotoFits, NewsComes
      <3> QED
        BY <3>1, <3>2
    <2>7. photoFrames' \in SUBSET PhotoRevs /\ (~q.mounted => q.row = NoAsync /\ photoFrames' = {})
      BY <1>1, <2>1, <2>4 DEF PhotoInv, PhotoFits
    <2>8. PhotoFits(photoDb, photoFrames', Shows(photo, q))
      <3> DEFINE frames == photoFrames'
      <3>1. /\ frames \in SUBSET PhotoRevs /\ (~q.mounted => q.row = NoAsync /\ frames = {})
            /\ RevsAreKnown(photoDb, frames, q) /\ NewsComes(photoDb, frames, q)
        BY <2>5, <2>6, <2>7
      <3> HIDE DEF frames
      <3>2. PhotoFits(photoDb, frames, Shows(photo, q))
        BY <1>1, <2>4, <3>1, ShowsFits
      <3> QED
        BY <3>2 DEF frames
    <2> QED
      BY <1>1, <2>1, <2>8 DEF PhotoInv, q, updates
  <1>3. CASE MissFrame
    <2>1. PICK frame \in photoFrames : photoFrames' = photoFrames \ {frame}
      BY <1>3 DEF MissFrame
    <2>2. /\ photo' \in PhotoPages /\ photo'.row = photo.row /\ photo'.urls = photo.urls
          /\ photo'.loads = photo.loads /\ photo'.live = photo.live /\ photo'.missed
          /\ photo'.mounted = photo.mounted /\ photo'.updates = photo.updates
      BY <1>1, <1>3 DEF MissFrame, PhotoPages
    <2>3. Wanted(photo') = Wanted(photo)
      BY <2>2, SameWanted
    <2>4. UrlsFit(photoDb, photo') /\ LoadsFit(photoDb, photo')
      BY <1>1, <2>2, <2>3 DEF UrlsFit, LoadsFit
    <2>5. RevsAreKnown(photoDb, photoFrames', photo')
      BY <2>1, <2>2 DEF PhotoInv, PhotoFits, RevsAreKnown
    <2>6. NewsComes(photoDb, photoFrames', photo') /\ NewestIsAsked(photoDb, photo')
      BY <2>2 DEF NewsComes, NewestIsAsked
    <2>7. /\ photoFrames' \subseteq PhotoRevs
          /\ ~photo'.mounted => photo'.row = NoAsync /\ photoFrames' = {}
      BY <1>1, <2>1, <2>2 DEF PhotoInv, PhotoFits
    <2> QED
      BY <1>1, <2>2, <2>4, <2>5, <2>6, <2>7 DEF PhotoInv, PhotoFits
  <1>4. CASE UpdatesReset
    <2> DEFINE q == [photo EXCEPT !.updates = {}, !.missed = TRUE]
    <2>1. photo' = Shows(photo, q) /\ photoFrames' = photoFrames
      BY <1>4 DEF UpdatesReset
    <2>2. /\ q \in PhotoPages /\ q.row = photo.row /\ q.urls = photo.urls
          /\ q.loads = photo.loads /\ q.live = photo.live /\ q.missed
          /\ q.mounted = photo.mounted /\ q.updates = {}
      BY <1>1 DEF PhotoPages
    <2> HIDE DEF q
    <2>3. RevsAreKnown(photoDb, photoFrames, q) /\ NewsComes(photoDb, photoFrames, q)
      BY <2>2 DEF PhotoInv, PhotoFits, RevsAreKnown, AtMostOne, NewsComes
    <2>4. ~q.mounted => q.row = NoAsync /\ photoFrames = {}
      BY <2>2 DEF PhotoInv, PhotoFits
    <2>5. PhotoFits(photoDb, photoFrames, Shows(photo, q))
      BY <1>1, <2>2, <2>3, <2>4, ShowsFits
    <2> QED
      BY <1>1, <2>1, <2>5 DEF PhotoInv
  <1> QED
    BY <1>2, <1>3, <1>4

(* A step of the loads alone, and of the URLs.                             *)
LEMMA LoadsStep ==
  ASSUME PhotoInv, UNCHANGED <<photoDb, photoFrames>>, photo' \in PhotoPages,
         photo'.mounted = photo.mounted, photo'.row = photo.row,
         photo'.updates = photo.updates, photo.missed => photo'.missed,
         UrlsFit(photoDb, photo'), LoadsFit(photoDb, photo'), NewestIsAsked(photoDb, photo')
  PROVE  PhotoInv'
  <1>1. RevsAreKnown(photoDb, photoFrames, photo') /\ NewsComes(photoDb, photoFrames, photo')
    BY DEF PhotoInv, PhotoFits, RevsAreKnown, NewsComes
  <1> QED
    BY <1>1 DEF PhotoInv, PhotoFits

LEMMA LoadReadKeeps == ASSUME PhotoInv, LoadRead PROVE PhotoInv'
  <1>1. PICK l \in photo.loads :
          /\ l.bytes = 0
          /\ photo' = [photo EXCEPT !.loads = (photo.loads \ {l})
                                              \cup {[l EXCEPT !.bytes = photoDb.rev]}]
    BY DEF LoadRead
  <1> DEFINE m == [l EXCEPT !.bytes = photoDb.rev]
             loads == (photo.loads \ {l}) \cup {m}
  <1>2. /\ photo \in PhotoPages /\ photoDb \in PhotoRevs /\ photo.loads \in SUBSET PhotoLoads
        /\ UNCHANGED <<photoDb, photoFrames>> /\ photoDb.rev \in Nat
    BY DEF LoadRead, PhotoInv, PhotoFits, PhotoPages, PhotoRevs
  <1>3. /\ m \in PhotoLoads /\ m.key = l.key /\ m.active = l.active /\ m.bytes = photoDb.rev
    BY <1>2 DEF PhotoLoads
  <1> HIDE DEF m
  <1>4. loads \in SUBSET PhotoLoads
    BY <1>2, <1>3
  <1>5. photo' = [photo EXCEPT !.loads = loads]
    BY <1>1 DEF m
  <1>6. /\ photo' \in PhotoPages /\ photo'.row = photo.row /\ photo'.urls = photo.urls
        /\ photo'.loads = loads /\ photo'.live = photo.live /\ photo'.missed = photo.missed
        /\ photo'.mounted = photo.mounted /\ photo'.updates = photo.updates
    BY <1>2, <1>4, <1>5 DEF PhotoPages
  <1>7. Wanted(photo') = Wanted(photo)
    BY <1>6, SameWanted
  <1>8. UrlsFit(photoDb, photo')
    BY <1>6, <1>7 DEF PhotoInv, PhotoFits, UrlsFit
  <1>9. LoadsFit(photoDb, photo')
    <2>1. \A k \in Wanted(photo) : k.rev <= photoDb.rev
      BY WantedRevs DEF PhotoInv, PhotoFits, RevsAreKnown, KnownRev
    <2> QED
      BY <1>2, <1>3, <1>6, <1>7, <2>1 DEF PhotoInv, PhotoFits, LoadsFit
  <1>10. NewestIsAsked(photoDb, photo')
    BY <1>3, <1>6, <1>7 DEF PhotoInv, PhotoFits, NewestIsAsked
  <1> QED
    BY <1>2, <1>6, <1>8, <1>9, <1>10, LoadsStep

LEMMA LoadLostKeeps == ASSUME PhotoInv, LoadLost PROVE PhotoInv'
  <1>1. PICK l \in photo.loads :
          photo' = [photo EXCEPT !.loads = photo.loads \ {l},
                                 !.missed = photo.missed \/ (photoDb.has /\ l.active)]
    BY DEF LoadLost
  <1> DEFINE missed == photo.missed \/ (photoDb.has /\ l.active)
  <1>2. /\ photo \in PhotoPages /\ photo.loads \in SUBSET PhotoLoads
        /\ UNCHANGED <<photoDb, photoFrames>>
    BY DEF LoadLost, PhotoInv, PhotoFits, PhotoPages
  <1>3. missed \in BOOLEAN /\ (~missed => ~photo.missed /\ ~(photoDb.has /\ l.active))
        /\ (photo.missed => missed)
    OBVIOUS
  <1> HIDE DEF missed
  <1>4. photo' = [photo EXCEPT !.loads = photo.loads \ {l}, !.missed = missed]
    BY <1>1 DEF missed
  <1>5. /\ photo' \in PhotoPages /\ photo'.row = photo.row /\ photo'.urls = photo.urls
        /\ photo'.loads = photo.loads \ {l} /\ photo'.live = photo.live /\ photo'.missed = missed
        /\ photo'.mounted = photo.mounted /\ photo'.updates = photo.updates
    BY <1>2, <1>3, <1>4 DEF PhotoPages
  <1>6. Wanted(photo') = Wanted(photo)
    BY <1>5, SameWanted
  <1>7. UrlsFit(photoDb, photo') /\ LoadsFit(photoDb, photo')
    BY <1>5, <1>6 DEF PhotoInv, PhotoFits, UrlsFit, LoadsFit
  <1>8. NewestIsAsked(photoDb, photo')
    <2>1. \A k \in Wanted(photo) : k.has
      BY WantedRevs
    <2> QED
      BY <1>3, <1>5, <1>6, <2>1 DEF PhotoInv, PhotoFits, NewestIsAsked
  <1> QED
    BY <1>2, <1>3, <1>5, <1>7, <1>8, LoadsStep

LEMMA PhotoLoadedKeeps == ASSUME PhotoInv, PhotoLoaded PROVE PhotoInv'
  <1>1. PICK l \in photo.loads :
          l.bytes # 0 /\ photo' = Kept([photo EXCEPT !.loads = photo.loads \ {l}], l)
    BY DEF PhotoLoaded
  <1> DEFINE p == [photo EXCEPT !.loads = photo.loads \ {l}]
             url == [key |-> l.key, bytes |-> l.bytes]
  <1>2. /\ photo \in PhotoPages /\ photo.loads \in SUBSET PhotoLoads /\ l \in PhotoLoads
        /\ UNCHANGED <<photoDb, photoFrames>> /\ photo.live \in Int
        /\ photo.live = Cardinality(photo.urls)
    BY DEF PhotoLoaded, PhotoInv, PhotoFits, PhotoPages, UrlsFit
  <1>3. /\ p \in PhotoPages /\ p.row = photo.row /\ p.urls = photo.urls
        /\ p.loads = photo.loads \ {l} /\ p.live = photo.live /\ p.missed = photo.missed
        /\ p.mounted = photo.mounted /\ p.updates = photo.updates
    BY <1>2 DEF PhotoPages
  <1>4. Wanted(p) = Wanted(photo)
    BY <1>3, SameWanted
  <1> HIDE DEF p
  <1>5. CASE ~l.active
    <2>1. photo' = p
      BY <1>1, <1>5 DEF Kept, p
    <2>2. UrlsFit(photoDb, p) /\ LoadsFit(photoDb, p)
      BY <1>3, <1>4 DEF PhotoInv, PhotoFits, UrlsFit, LoadsFit
    <2>3. NewestIsAsked(photoDb, p)
      BY <1>3, <1>4, <1>5 DEF PhotoInv, PhotoFits, NewestIsAsked
    <2> QED
      BY <1>2, <1>3, <2>1, <2>2, <2>3, LoadsStep
  <1>6. CASE l.active
    <2>1. photo' = [p EXCEPT !.urls = {url}, !.live = 1]
      <3>1. photo.live + 1 - photo.live = 1
        BY <1>2
      <3>2. photo' = [p EXCEPT !.urls = {url}, !.live = p.live + 1 - Cardinality(p.urls)]
        BY <1>1, <1>6 DEF Kept, p
      <3> QED
        BY <1>2, <1>3, <3>1, <3>2
    <2>2. url \in PhotoUrls /\ url.key = l.key /\ url.bytes = l.bytes
      BY <1>2 DEF PhotoLoads, PhotoUrls
    <2> HIDE DEF url
    <2>3. /\ photo' \in PhotoPages /\ photo'.row = photo.row /\ photo'.urls = {url}
          /\ photo'.loads = photo.loads \ {l} /\ photo'.live = 1 /\ photo'.missed = photo.missed
          /\ photo'.mounted = photo.mounted /\ photo'.updates = photo.updates
      <3>1. {url} \in SUBSET PhotoUrls /\ 1 \in Int
        BY <2>2
      <3> QED
        BY <1>3, <2>1, <3>1 DEF PhotoPages
    <2>4. Wanted(photo') = Wanted(photo)
      BY <2>3, SameWanted
    <2>5. l.key \in Wanted(photo) /\ l.bytes >= l.key.rev /\ l.bytes <= photoDb.rev
      BY <1>1, <1>6 DEF PhotoInv, PhotoFits, LoadsFit
    <2>6. UrlsFit(photoDb, photo')
      <3>1. Cardinality({url}) = 1 /\ AtMostOne({url})
        BY FS_Singleton DEF AtMostOne
      <3> QED
        BY <2>2, <2>3, <2>4, <2>5, <3>1 DEF UrlsFit
    <2>7. LoadsFit(photoDb, photo')
      BY <2>3, <2>4 DEF PhotoInv, PhotoFits, LoadsFit
    <2>8. NewestIsAsked(photoDb, photo')
      <3>1. AtMostOne(Wanted(photo))
        BY WantedRevs DEF PhotoInv, PhotoFits, RevsAreKnown
      <3> QED
        BY <2>2, <2>3, <2>4, <2>5, <3>1 DEF NewestIsAsked, AtMostOne
    <2> QED
      BY <1>2, <2>3, <2>6, <2>7, <2>8, LoadsStep
  <1> QED
    BY <1>5, <1>6

(* A page that has just been opened, or is closed, shows and loads nothing.*)
LEMMA EmptyPhotosFit ==
  ASSUME NEW db \in PhotoRevs, NEW frames \in SUBSET PhotoRevs, frames = {},
         NEW p \in PhotoPages, p.row \in {NewAsync, NoAsync}, ~p.mounted => p.row = NoAsync,
         p.updates = {}, p.urls = {}, p.live = 0, \A l \in p.loads : ~l.active
  PROVE  PhotoFits(db, frames, p)
  <1>1. p.row.data = {} /\ p.row.got = {}
    BY PlainQueries DEF NewAsync
  <1>2. Wanted(p) = {}
    BY <1>1, WantedRevs
  <1>3. UrlsFit(db, p) /\ LoadsFit(db, p) /\ NewestIsAsked(db, p)
    BY <1>2, FS_EmptySet DEF UrlsFit, LoadsFit, NewestIsAsked, AtMostOne
  <1> QED
    BY <1>1, <1>3 DEF PhotoFits, RevsAreKnown, NewsComes, AtMostOne

LEMMA NoPhotoTypes ==
  /\ NoPhoto \in PhotoRevs /\ [rev |-> 1, has |-> TRUE] \in PhotoRevs
  /\ NoPhotoPage \in PhotoPages /\ NoPhotoPage.row = NoAsync /\ ~NoPhotoPage.mounted
  /\ NoPhotoPage.updates = {} /\ NoPhotoPage.urls = {} /\ NoPhotoPage.live = 0
  /\ NoPhotoPage.loads = {}
  BY NewQueries DEF NoPhoto, PhotoRevs, NoPhotoPage, PhotoPages

LEMMA PhotoVisits == ASSUME PhotoInv, MountPhotos \/ UnmountPhotos PROVE PhotoInv'
  <1>1. CASE MountPhotos
    <2>1. photoDb' \in PhotoRevs
      BY <1>1, NoPhotoTypes DEF MountPhotos
    <2>2. photoFrames' = {}
      BY <1>1 DEF MountPhotos, PhotoInv, PhotoFits
    <2> DEFINE p == [NoPhotoPage EXCEPT !.mounted = TRUE, !.row = NewAsync]
    <2>3. NewAsync \in Asyncs(PhotoRevs)
      BY NewQueries
    <2>4. /\ p \in PhotoPages /\ p.row = NewAsync /\ p.mounted /\ p.updates = {}
          /\ p.urls = {} /\ p.live = 0 /\ p.loads = {}
      BY <2>3, NoPhotoTypes DEF PhotoPages
    <2> HIDE DEF p
    <2>5. \A db \in PhotoRevs : PhotoFits(db, {}, p)
      BY <2>4, EmptyPhotosFit
    <2>6. photo' = p
      BY <1>1 DEF MountPhotos, p
    <2> QED
      BY <2>1, <2>2, <2>5, <2>6 DEF PhotoInv
  <1>2. CASE UnmountPhotos
    <2> DEFINE d == Dropped(photo, {})
               over == {[l EXCEPT !.active = FALSE] : l \in photo.loads}
               p == [d EXCEPT !.mounted = FALSE, !.row = NoAsync, !.updates = {},
                              !.missed = FALSE, !.loads = over]
    <2>1. photo \in PhotoPages /\ AtMostOne(photo.urls) /\ photo.live = Cardinality(photo.urls)
      BY DEF PhotoInv, PhotoFits, UrlsFit
    <2>2. /\ d \in PhotoPages /\ d.urls = {} /\ d.live = Cardinality(d.urls)
          /\ d.loads = photo.loads
      <3>1. d.urls = {u \in photo.urls : u.key \in {}} /\ d \in PhotoPages
            /\ d.live = Cardinality(d.urls) /\ d.loads = photo.loads
        BY <2>1, DroppedUrls
      <3> QED
        BY <3>1
    <2>3. ASSUME NEW l \in over PROVE l \in PhotoLoads /\ ~l.active
      <3>1. PICK m \in photo.loads : l = [m EXCEPT !.active = FALSE]
        OBVIOUS
      <3>2. m \in PhotoLoads
        BY <2>1 DEF PhotoPages
      <3> QED
        BY <3>1, <3>2 DEF PhotoLoads
    <2>4. photo' = p
      BY <1>2, <2>2 DEF UnmountPhotos
    <2> HIDE DEF d, over
    <2>5. over \in SUBSET PhotoLoads /\ NoAsync \in Asyncs(PhotoRevs)
      BY <2>3, NewQueries
    <2>6. /\ p \in PhotoPages /\ p.row = NoAsync /\ ~p.mounted /\ p.updates = {}
          /\ p.urls = {} /\ p.live = d.live /\ p.loads = over
      BY <2>2, <2>5 DEF PhotoPages
    <2>7. p.live = 0
      BY <2>2, <2>6, FS_EmptySet
    <2> HIDE DEF p
    <2>8. PhotoFits(NoPhoto, {}, p)
      BY <2>3, <2>6, <2>7, NoPhotoTypes, EmptyPhotosFit
    <2> QED
      BY <1>2, <2>4, <2>8 DEF UnmountPhotos, PhotoInv
  <1> QED
    BY <1>1, <1>2

LEMMA PhotoInvInit == PhotoInit => PhotoInv
  BY NoPhotoTypes, EmptyPhotosFit DEF PhotoInit, PhotoInv

LEMMA PhotoInvStep ==
  PhotoInv /\ [PhotosNext \/ MountPhotos \/ UnmountPhotos]_photoVars => PhotoInv'
  <1> SUFFICES ASSUME PhotoInv, [PhotosNext \/ MountPhotos \/ UnmountPhotos]_photoVars
               PROVE  PhotoInv'
    OBVIOUS
  <1>1. CASE UNCHANGED photoVars
    BY <1>1 DEF photoVars, PhotoInv
  <1> QED
    BY <1>1, PhotoRowsKeep, ChangePhotoKeeps, FramesKeep, LoadReadKeeps, LoadLostKeeps,
       PhotoLoadedKeeps, PhotoVisits DEF PhotosNext

LEMMA PhotoInvHolds == PhotosSpec => []PhotoInv
  BY PhotoInvInit, PhotoInvStep, PTL DEF PhotosSpec

(* "removed members and unmounting revoke their URLs so browser memory is  *)
(* not retained" (useMemberAvatarUrls.ts:40-42): whichever loads are under *)
(* way when what is shown changes.                                         *)
THEOREM OnlyShownAreHeld == PhotosSpec => []OnlyShownPhotosAreHeld
  <1>1. PhotoInv => OnlyShownPhotosAreHeld
    <2> SUFFICES ASSUME PhotoInv PROVE OnlyShownPhotosAreHeld
      OBVIOUS
    <2>1. photo.live = Cardinality(photo.urls)
      BY DEF PhotoInv, PhotoFits, UrlsFit
    <2>2. ASSUME ~photo.mounted PROVE photo.urls = {}
      <3>1. photo.row.data = {}
        BY <2>2, PlainQueries DEF PhotoInv, PhotoFits
      <3>2. Wanted(photo) = {}
        BY <3>1, WantedRevs
      <3> QED
        BY <3>2 DEF PhotoInv, PhotoFits, UrlsFit
    <2> QED
      BY <2>1, <2>2, FS_EmptySet DEF OnlyShownPhotosAreHeld
  <1> QED
    BY <1>1, PhotoInvHolds, PTL

(* A photo is shown for the revision that is wanted and is never older     *)
(* than it; and once every frame and load has come in, none missed, it is  *)
(* the server's (FamiliesPage.tsx:337-339, 156-164).                       *)
THEOREM PhotosStayCurrent == PhotosSpec => []PhotosAreCurrent
  <1>1. PhotoInv => PhotosAreCurrent
    <2> SUFFICES ASSUME PhotoInv PROVE PhotosAreCurrent
      OBVIOUS
    <2>1. \A u \in photo.urls : u.key \in Wanted(photo) /\ u.bytes >= u.key.rev
      BY DEF PhotoInv, PhotoFits, UrlsFit
    <2>2. ASSUME photo.row.data # {}, ~photo.missed, photoFrames = {},
                 ~\E l \in photo.loads : l.active
          PROVE  {u.bytes : u \in photo.urls} = IF photoDb.has THEN {photoDb.rev} ELSE {}
      <3>1. /\ photo \in PhotoPages /\ photoDb \in PhotoRevs /\ AtMostOne(photo.row.data)
            /\ AtMostOne(photo.updates) /\ AtMostOne(photo.urls)
            /\ \A k \in photo.row.data \cup photo.updates : KnownRev(photoDb, k)
            /\ photo.row.data \cup photo.updates \subseteq PhotoRevs
        BY DEF PhotoInv, PhotoFits, RevsAreKnown, UrlsFit, PhotoPages, Asyncs
      <3>2. PICK d \in photo.row.data : photo.row.data = {d}
        BY <2>2, <3>1 DEF AtMostOne
      <3>3. Overlaid(d, photo.updates) = photoDb
        <4>1. photoDb \in photo.updates \/ d = photoDb
          BY <2>2, <3>2 DEF PhotoInv, PhotoFits, NewsComes
        <4>2. CASE d = photoDb
          BY <3>1, <4>2 DEF Overlaid, KnownRev, PhotoRevs
        <4>3. CASE photoDb \in photo.updates /\ d # photoDb
          <5>1. photo.updates = {photoDb}
            BY <3>1, <4>3 DEF AtMostOne
          <5>2. photoDb.rev > d.rev
            BY <3>1, <3>2, <4>3 DEF KnownRev, PhotoRevs
          <5> QED
            BY <5>1, <5>2 DEF Overlaid
        <4> QED
          BY <4>1, <4>2, <4>3
      <3>4. Wanted(photo) = IF photoDb.has THEN {photoDb} ELSE {}
        BY <3>2, <3>3 DEF Wanted
      <3>5. CASE photoDb.has
        <4>1. PICK u \in photo.urls : u.key = photoDb
          BY <2>2, <3>4, <3>5 DEF PhotoInv, PhotoFits, NewestIsAsked
        <4>2. photo.urls = {u}
          BY <3>1, <4>1 DEF AtMostOne
        <4>3. u.bytes \in Nat /\ photoDb.rev \in Nat
          BY <3>1, <4>1 DEF PhotoPages, PhotoUrls, PhotoRevs
        <4>4. u.bytes = photoDb.rev
          BY <4>1, <4>3 DEF PhotoInv, PhotoFits, UrlsFit
        <4> QED
          BY <3>5, <4>2, <4>4
      <3>6. CASE ~photoDb.has
        <4>1. photo.urls = {}
          BY <2>1, <3>4, <3>6
        <4> QED
          BY <3>6, <4>1
      <3> QED
        BY <3>5, <3>6
    <2> QED
      BY <2>1, <2>2 DEF PhotosAreCurrent
  <1> QED
    BY <1>1, PhotoInvHolds, PTL

-----------------------------------------------------------------------------
(* The bubbles of the map: induction over the rounds of a loop.            *)

LEMMA NatSets ==
  ASSUME NEW T \in SUBSET Nat, 0 \in T, \A n \in T : n + 1 \in T
  PROVE  T = Nat
  <1> SUFFICES ASSUME Nat \ T # {} PROVE FALSE
    OBVIOUS
  <1>1. PICK n \in Nat \ T : \A k \in Nat \ T : ~(<<k, n>> \in OpToRel(<, Nat))
    <2>1. Nat \ T \subseteq Nat
      OBVIOUS
    <2> QED
      BY <2>1, NatLessThanWellFounded, WFMin
  <1>2. \A k \in Nat \ T : ~(k < n)
    BY <1>1 DEF OpToRel
  <1>3. n # 0 /\ n - 1 \in Nat /\ n - 1 < n
    OBVIOUS
  <1>4. n - 1 \in T
    BY <1>2, <1>3
  <1>5. (n - 1) + 1 \in T
    BY <1>4
  <1> QED
    BY <1>5

(* What a recursion over the rounds stands for, up to a round.             *)
Runs(step, x, S, n) ==
    {g \in [0 .. n -> S] : g[0] = x /\ \A k \in 1 .. n : g[k] = step[k][g[k - 1]]}

LEMMA RunsAgree ==
  ASSUME NEW S, NEW step, NEW x, NEW m \in Nat, NEW n \in Nat,
         NEW g \in Runs(step, x, S, m), NEW h \in Runs(step, x, S, n)
  PROVE  \A k \in Nat : k <= m /\ k <= n => g[k] = h[k]
  <1> DEFINE T == {k \in Nat : k <= m /\ k <= n => g[k] = h[k]}
  <1>1. 0 \in T
    BY DEF Runs
  <1>2. ASSUME NEW k \in T PROVE k + 1 \in T
    <2> SUFFICES ASSUME k + 1 <= m, k + 1 <= n PROVE g[k + 1] = h[k + 1]
      OBVIOUS
    <2>1. k \in Nat /\ k + 1 \in 1 .. m /\ k + 1 \in 1 .. n /\ (k + 1) - 1 = k
      OBVIOUS
    <2>2. g[k + 1] = step[k + 1][g[k]] /\ h[k + 1] = step[k + 1][h[k]]
      <3>1. g[k + 1] = step[k + 1][g[(k + 1) - 1]] /\ h[k + 1] = step[k + 1][h[(k + 1) - 1]]
        BY <2>1, Zenon DEF Runs
      <3> QED
        BY <2>1, <3>1
    <2>3. g[k] = h[k]
      BY <2>1
    <2> QED
      BY <2>2, <2>3
  <1>3. T \in SUBSET Nat
    OBVIOUS
  <1> HIDE DEF T
  <1>4. T = Nat
    BY <1>1, <1>2, <1>3, NatSets
  <1> QED
    BY <1>4 DEF T

Steps(S) == [Nat -> [S -> S]]

LEMMA RunsExist ==
  ASSUME NEW S, NEW step \in Steps(S), NEW x \in S
  PROVE  \A n \in Nat : Runs(step, x, S, n) # {}
  <1> DEFINE T == {n \in Nat : Runs(step, x, S, n) # {}}
  <1>1. 0 \in T
    <2>1. [k \in 0 .. 0 |-> x] \in Runs(step, x, S, 0)
      BY DEF Runs
    <2> QED
      BY <2>1
  <1>2. ASSUME NEW n \in T PROVE n + 1 \in T
    <2>1. n \in Nat /\ n + 1 \in Nat
      OBVIOUS
    <2>2. PICK g \in Runs(step, x, S, n) : TRUE
      OBVIOUS
    <2>3. /\ g \in [0 .. n -> S] /\ g[0] = x
          /\ \A k \in 1 .. n : g[k] = step[k][g[k - 1]]
      BY <2>2 DEF Runs
    <2> DEFINE h == [k \in 0 .. n + 1 |-> IF k = n + 1 THEN step[n + 1][g[n]] ELSE g[k]]
    <2>4. h \in [0 .. n + 1 -> S]
      <3>1. g[n] \in S /\ step[n + 1][g[n]] \in S
        BY <2>1, <2>3 DEF Steps
      <3> QED
        BY <2>1, <2>3, <3>1
    <2>5. h[0] = x
      BY <2>1, <2>3
    <2>6. ASSUME NEW k \in 1 .. n + 1 PROVE h[k] = step[k][h[k - 1]]
      <3>1. CASE k = n + 1
        <4>1. k - 1 = n /\ h[n] = g[n]
          BY <2>1, <3>1
        <4> QED
          BY <2>1, <3>1, <4>1
      <3>2. CASE k # n + 1
        <4>1. k \in 1 .. n /\ k - 1 \in 0 .. n /\ h[k] = g[k] /\ h[k - 1] = g[k - 1]
          BY <2>1, <3>2
        <4> QED
          BY <2>3, <4>1
      <3> QED
        BY <3>1, <3>2
    <2> HIDE DEF h
    <2>7. h \in Runs(step, x, S, n + 1)
      BY <2>4, <2>5, <2>6 DEF Runs
    <2> QED
      BY <2>1, <2>7
  <1>3. T \in SUBSET Nat
    OBVIOUS
  <1> HIDE DEF T
  <1>4. T = Nat
    BY <1>1, <1>2, <1>3, NatSets
  <1> QED
    BY <1>4 DEF T

(* What a loop makes of its start.                                         *)
Iterates(after, step, x, S) ==
    /\ after \in [Nat -> S] /\ after[0] = x
    /\ \A n \in Nat : after[n + 1] = step[n + 1][after[n]]

LEMMA Iteration ==
  ASSUME NEW S, NEW step \in Steps(S), NEW x \in S
  PROVE  Iterates(Rounds(step, x), step, x, S)
  <1> DEFINE run(n) == CHOOSE g \in Runs(step, x, S, n) : TRUE
             f == [n \in Nat |-> run(n)[n]]
             Body(h) == [n \in Nat |-> IF n = 0 THEN x ELSE step[n][h[n - 1]]]
  <1>1. \A n \in Nat : run(n) \in Runs(step, x, S, n)
    BY RunsExist
  <1> HIDE DEF run
  <1>2. f \in [Nat -> S]
    BY <1>1 DEF Runs
  <1>3. ASSUME NEW n \in Nat PROVE f[n] = Body(f)[n]
    <2>1. CASE n = 0
      BY <1>1, <2>1 DEF Runs
    <2>2. CASE n # 0
      <3>1. n - 1 \in Nat /\ n \in 1 .. n /\ n - 1 <= n /\ n - 1 <= n - 1
        BY <2>2
      <3>2. run(n)[n] = step[n][run(n)[n - 1]]
        BY <1>1, <3>1, Zenon DEF Runs
      <3>3. run(n)[n - 1] = run(n - 1)[n - 1]
        BY <1>1, <3>1, RunsAgree
      <3>4. f[n - 1] = run(n - 1)[n - 1] /\ f[n] = run(n)[n]
        BY <3>1
      <3> QED
        BY <2>2, <3>2, <3>3, <3>4
    <2> QED
      BY <2>1, <2>2
  <1> HIDE DEF f
  <1>4. f = Body(f)
    BY <1>2, <1>3
  <1>5. Rounds(step, x) = CHOOSE h : h = Body(h)
    BY DEF Rounds
  <1>6. Rounds(step, x) = Body(Rounds(step, x))
    BY <1>4, <1>5
  <1> DEFINE r == Rounds(step, x)
  <1>7. r[0] = x
    BY <1>6
  <1>8. ASSUME NEW n \in Nat PROVE r[n + 1] = step[n + 1][r[n]]
    <2>1. n + 1 \in Nat /\ n + 1 # 0 /\ (n + 1) - 1 = n
      OBVIOUS
    <2>2. Body(r)[n + 1] = step[n + 1][r[(n + 1) - 1]]
      BY <2>1
    <2> QED
      BY <1>6, <2>1, <2>2
  <1>9. \A n \in Nat : r[n] \in S
    <2> DEFINE T == {n \in Nat : r[n] \in S}
    <2>1. 0 \in T
      BY <1>7
    <2>2. ASSUME NEW n \in T PROVE n + 1 \in T
      <3>1. r[n + 1] = step[n + 1][r[n]] /\ r[n] \in S /\ n + 1 \in Nat
        BY <1>8
      <3> HIDE DEF r
      <3> QED
        BY <3>1 DEF Steps
    <2>3. T \in SUBSET Nat
      OBVIOUS
    <2> HIDE DEF T
    <2>4. T = Nat
      BY <2>1, <2>2, <2>3, NatSets
    <2> QED
      BY <2>4 DEF T
  <1>10. r = [n \in Nat |-> r[n]]
    BY <1>6, Zenon
  <1> HIDE DEF r
  <1>11. r \in [Nat -> S]
    BY <1>9, <1>10
  <1> QED
    BY <1>7, <1>8, <1>11 DEF r, Iterates

-----------------------------------------------------------------------------
LEMMA PeopleAreFinite ==
  /\ Len(People) \in Nat /\ People \in [1 .. Len(People) -> Folk]
  /\ IsFiniteSet(Folk) /\ Cardinality(Folk) <= Len(People)
  <1>1. Len(People) \in Nat /\ People \in [1 .. Len(People) -> Folk]
    BY ClustersAssumption
  <1>2. People \in Surjection(1 .. Len(People), Folk)
    BY <1>1 DEF Surjection, Folk
  <1>3. IsFiniteSet(1 .. Len(People)) /\ Cardinality(1 .. Len(People)) = Len(People)
    <2>1. 1 \in Int /\ Len(People) \in Int
      BY <1>1
    <2>2. /\ IsFiniteSet(1 .. Len(People))
          /\ Cardinality(1 .. Len(People)) =
                IF 1 > Len(People) THEN 0 ELSE Len(People) - 1 + 1
      BY <2>1, FS_Interval, Zenon
    <2> QED
      BY <1>1, <2>2
  <1>4. IsFiniteSet(Folk) /\ Cardinality(Folk) <= Cardinality(1 .. Len(People))
    BY <1>2, <1>3, FS_Surjection
  <1> QED
    BY <1>1, <1>3, <1>4

(* Nobody of `rest` is near the members of a group that it does not hold.  *)
Shut(v, rest, group) == \A p \in group, q \in rest \ group : ~Near(v, p, q)

(* Who has joined a group by a pass.                                       *)
PassOf(v, rest, group, next) ==
    /\ next \in Groups /\ group \subseteq next /\ next \subseteq group \cup rest
    /\ \A c : group \subseteq c /\ Shut(v, rest, c) => next \subseteq c
    /\ \A p \in group, q \in rest : Near(v, p, q) => q \in next

LEMMA Passed ==
  ASSUME NEW v, NEW rest \in Groups, NEW group \in Groups
  PROVE  PassOf(v, rest, group, Pass(v, rest, group))
  <1> DEFINE step == Joins(v, rest)
             after == Rounds(step, group)
             N == Len(People)
             Joining(n, g) == {m \in rest : /\ n \in 1 .. N /\ m = People[N + 1 - n]
                                            /\ \E p \in g : Near(v, p, m)}
  <1>0. N \in Nat
    BY PeopleAreFinite
  <1>1. step \in Steps(Groups)
    <2>1. \A n \in Nat, g \in Groups : g \cup Joining(n, g) \in Groups
      BY DEF Groups
    <2> HIDE DEF Joining
    <2>2. step = [n \in Nat |-> [g \in Groups |-> g \cup Joining(n, g)]]
      BY DEF Joins, Joining
    <2> HIDE DEF step
    <2> QED
      BY <2>1, <2>2 DEF Steps
  <1>2. \A n \in Nat, g \in Groups : step[n][g] = g \cup Joining(n, g)
    BY DEF Joins
  <1> HIDE DEF step
  <1>3. /\ \A n \in Nat : after[n] \in Groups
        /\ after[0] = group
        /\ \A n \in Nat : after[n + 1] = step[n + 1][after[n]]
    <2> HIDE DEF after
    <2>1. /\ after \in [Nat -> Groups] /\ after[0] = group
          /\ \A n \in Nat : after[n + 1] = step[n + 1][after[n]]
      <3>1. Iterates(Rounds(step, group), step, group, Groups)
        BY <1>1, Iteration
      <3> QED
        BY <3>1 DEF after, Iterates
    <2> QED
      BY <2>1
  <1> HIDE DEF after
  <1>4. \A n \in Nat : after[n + 1] = after[n] \cup Joining(n + 1, after[n])
    <2> SUFFICES ASSUME NEW n \in Nat
                 PROVE  after[n + 1] = after[n] \cup Joining(n + 1, after[n])
      OBVIOUS
    <2>1. n + 1 \in Nat /\ after[n] \in Groups
      BY <1>3
    <2>2. step[n + 1][after[n]] = after[n] \cup Joining(n + 1, after[n])
      BY <1>2, <2>1
    <2> QED
      BY <1>3, <2>2
  <1> HIDE DEF Joining
  <1>5. \A n \in Nat : group \subseteq after[n] /\ after[n] \subseteq group \cup rest
    <2> DEFINE T == {n \in Nat : group \subseteq after[n] /\ after[n] \subseteq group \cup rest}
    <2>1. 0 \in T
      BY <1>3
    <2>2. ASSUME NEW n \in T PROVE n + 1 \in T
      <3>1. n \in Nat /\ Joining(n + 1, after[n]) \subseteq rest
        BY DEF Joining
      <3> QED
        BY <1>4, <3>1
    <2>3. T \in SUBSET Nat
      OBVIOUS
    <2> HIDE DEF T
    <2>4. T = Nat
      BY <2>1, <2>2, <2>3, NatSets
    <2> QED
      BY <2>4 DEF T
  <1>6. ASSUME NEW c, group \subseteq c, Shut(v, rest, c) PROVE \A n \in Nat : after[n] \subseteq c
    <2> DEFINE T == {n \in Nat : after[n] \subseteq c}
    <2>1. 0 \in T
      BY <1>3, <1>6
    <2>2. ASSUME NEW n \in T PROVE n + 1 \in T
      <3>1. n \in Nat /\ n + 1 \in Nat /\ after[n] \subseteq c
        OBVIOUS
      <3>2. Joining(n + 1, after[n]) \subseteq c
        BY <1>6, <3>1 DEF Joining, Shut
      <3> QED
        BY <1>4, <3>1, <3>2
    <2>3. T \in SUBSET Nat
      OBVIOUS
    <2> HIDE DEF T
    <2>4. T = Nat
      BY <2>1, <2>2, <2>3, NatSets
    <2> QED
      BY <2>4 DEF T
  <1>7. ASSUME NEW n \in Nat PROVE \A k \in Nat : after[n] \subseteq after[n + k]
    <2> DEFINE T == {k \in Nat : after[n] \subseteq after[n + k]}
    <2>1. 0 \in T
      OBVIOUS
    <2>2. ASSUME NEW k \in T PROVE k + 1 \in T
      <3>1. k \in Nat /\ n + k \in Nat /\ n + (k + 1) = (n + k) + 1 /\ after[n] \subseteq after[n + k]
        OBVIOUS
      <3>2. after[n + k] \subseteq after[(n + k) + 1]
        BY <1>4, <3>1
      <3> QED
        BY <3>1, <3>2
    <2>3. T \in SUBSET Nat
      OBVIOUS
    <2> HIDE DEF T
    <2>4. T = Nat
      BY <2>1, <2>2, <2>3, NatSets
    <2> QED
      BY <2>4 DEF T
  <1>8. ASSUME NEW p \in group, NEW q \in rest, Near(v, p, q) PROVE q \in after[N]
    <2>1. PICK i \in 1 .. N : q = People[i]
      BY DEF Folk, Groups
    <2> DEFINE n == N - i
    <2>2. n \in Nat /\ n + 1 \in 1 .. N /\ N + 1 - (n + 1) = i /\ (n + 1) + (i - 1) = N /\ i - 1 \in Nat
      BY <1>0
    <2> HIDE DEF n
    <2>3. q = People[N + 1 - (n + 1)]
      BY <2>1, <2>2
    <2>4. p \in after[n]
      BY <1>5, <2>2
    <2>5. q \in Joining(n + 1, after[n])
      BY <1>8, <2>2, <2>3, <2>4, Zenon DEF Joining
    <2>6. n + 1 \in Nat /\ q \in after[n + 1]
      <3>1. after[n + 1] = after[n] \cup Joining(n + 1, after[n])
        BY <1>4, <2>2
      <3> QED
        BY <2>2, <2>5, <3>1
    <2>7. after[n + 1] \subseteq after[(n + 1) + (i - 1)]
      BY <1>7, <2>2, <2>6
    <2> QED
      BY <2>2, <2>6, <2>7
  <1>9. Pass(v, rest, group) = after[N]
    BY DEF Pass, step, after
  <1>10. after[N] \in Groups /\ group \subseteq after[N] /\ after[N] \subseteq group \cup rest
    BY <1>0, <1>3, <1>5
  <1>11. \A c : group \subseteq c /\ Shut(v, rest, c) => after[N] \subseteq c
    BY <1>0, <1>6
  <1> HIDE DEF N
  <1> QED
    BY <1>8, <1>9, <1>10, <1>11 DEF PassOf

(* The loop ends, for no more than everybody joins, with the smallest      *)
(* group of who is left that is shut and has the seed.                     *)
LEMMA GrownGroup ==
  ASSUME NEW v, NEW rest \in Groups, NEW seed \in rest
  PROVE  /\ seed \in Grown(v, seed, rest) /\ Grown(v, seed, rest) \subseteq rest
         /\ Shut(v, rest, Grown(v, seed, rest))
         /\ \A c : seed \in c /\ Shut(v, rest, c) => Grown(v, seed, rest) \subseteq c
  <1> DEFINE step == [n \in Nat |-> [group \in Groups |-> Pass(v, rest, group)]]
             after == Rounds(step, {seed})
             N == Len(People)
  <1>0. N \in Nat /\ IsFiniteSet(Folk) /\ Cardinality(Folk) <= N
    BY PeopleAreFinite
  <1>1. step \in Steps(Groups)
    BY Passed DEF Steps, PassOf
  <1>2. \A n \in Nat, g \in Groups : step[n][g] = Pass(v, rest, g)
    OBVIOUS
  <1> HIDE DEF step
  <1>3. /\ \A n \in Nat : after[n] \in Groups
        /\ after[0] = {seed}
        /\ \A n \in Nat : after[n + 1] = step[n + 1][after[n]]
    <2> HIDE DEF after
    <2>1. /\ after \in [Nat -> Groups] /\ after[0] = {seed}
          /\ \A n \in Nat : after[n + 1] = step[n + 1][after[n]]
      <3>1. {seed} \in Groups
        BY DEF Groups
      <3>2. Iterates(Rounds(step, {seed}), step, {seed}, Groups)
        BY <1>1, <3>1, Iteration
      <3> QED
        BY <3>2 DEF after, Iterates
    <2> QED
      BY <2>1
  <1> HIDE DEF after
  <1>4. \A n \in Nat :
           /\ after[n + 1] = Pass(v, rest, after[n])
           /\ after[n] \subseteq after[n + 1]
           /\ after[n + 1] \subseteq after[n] \cup rest
           /\ \A c : after[n] \subseteq c /\ Shut(v, rest, c) => after[n + 1] \subseteq c
    <2> SUFFICES ASSUME NEW n \in Nat
                 PROVE  /\ after[n + 1] = Pass(v, rest, after[n])
                        /\ after[n] \subseteq after[n + 1]
                        /\ after[n + 1] \subseteq after[n] \cup rest
                        /\ \A c : after[n] \subseteq c /\ Shut(v, rest, c)
                                 => after[n + 1] \subseteq c
      OBVIOUS
    <2>1. n + 1 \in Nat /\ after[n] \in Groups
      BY <1>3
    <2>2. after[n + 1] = Pass(v, rest, after[n])
      <3>1. step[n + 1][after[n]] = Pass(v, rest, after[n])
        BY <1>2, <2>1, Zenon
      <3> QED
        BY <1>3, <3>1
    <2>3. /\ after[n] \subseteq Pass(v, rest, after[n])
          /\ Pass(v, rest, after[n]) \subseteq after[n] \cup rest
          /\ \A c : after[n] \subseteq c /\ Shut(v, rest, c)
                   => Pass(v, rest, after[n]) \subseteq c
      <3>1. PassOf(v, rest, after[n], Pass(v, rest, after[n]))
        BY <2>1, Passed
      <3> QED
        BY <3>1 DEF PassOf
    <2> QED
      BY <2>2, <2>3, Zenon
  <1>5. \A n \in Nat : seed \in after[n] /\ after[n] \subseteq rest
    <2> DEFINE T == {n \in Nat : seed \in after[n] /\ after[n] \subseteq rest}
    <2>1. 0 \in T
      BY <1>3
    <2>2. ASSUME NEW n \in T PROVE n + 1 \in T
      <3>1. n \in Nat /\ n + 1 \in Nat /\ seed \in after[n] /\ after[n] \subseteq rest
        OBVIOUS
      <3>2. after[n] \subseteq after[n + 1] /\ after[n + 1] \subseteq after[n] \cup rest
        BY <1>4, <3>1
      <3> QED
        BY <3>1, <3>2
    <2>3. T \in SUBSET Nat
      OBVIOUS
    <2> HIDE DEF T
    <2>4. T = Nat
      BY <2>1, <2>2, <2>3, NatSets
    <2> QED
      BY <2>4 DEF T
  <1>6. ASSUME NEW c, seed \in c, Shut(v, rest, c) PROVE \A n \in Nat : after[n] \subseteq c
    <2> DEFINE T == {n \in Nat : after[n] \subseteq c}
    <2>1. 0 \in T
      BY <1>3, <1>6
    <2>2. ASSUME NEW n \in T PROVE n + 1 \in T
      <3>1. n \in Nat /\ n + 1 \in Nat /\ after[n] \subseteq c
        OBVIOUS
      <3>2. after[n + 1] \subseteq c
        BY <1>4, <1>6, <3>1, Zenon
      <3> QED
        BY <3>1, <3>2
    <2>3. T \in SUBSET Nat
      OBVIOUS
    <2> HIDE DEF T
    <2>4. T = Nat
      BY <2>1, <2>2, <2>3, NatSets
    <2> QED
      BY <2>4 DEF T
  <1>7. \E n \in 0 .. N : after[n + 1] = after[n]
    <2> SUFFICES ASSUME \A n \in 0 .. N : after[n + 1] # after[n] PROVE FALSE
      OBVIOUS
    <2> DEFINE T == {n \in Nat : n <= N => Cardinality(after[n]) >= n + 1}
    <2>0. \A n \in Nat : IsFiniteSet(after[n]) /\ Cardinality(after[n]) \in Nat
                          /\ Cardinality(after[n]) <= N
      <3> SUFFICES ASSUME NEW n \in Nat
                   PROVE  IsFiniteSet(after[n]) /\ Cardinality(after[n]) \in Nat
                          /\ Cardinality(after[n]) <= N
        OBVIOUS
      <3>1. after[n] \in Groups
        BY <1>3
      <3>2. IsFiniteSet(after[n]) /\ Cardinality(after[n]) <= Cardinality(Folk)
        BY <1>0, <3>1, FS_Subset DEF Groups
      <3>3. Cardinality(after[n]) \in Nat /\ Cardinality(Folk) \in Nat
        BY <1>0, <3>2, FS_CardinalityType
      <3> QED
        BY <1>0, <3>2, <3>3
    <2>1. 0 \in T
      <3>1. Cardinality(after[0]) = 1
        BY <1>3, FS_Singleton
      <3> QED
        BY <3>1
    <2>2. ASSUME NEW n \in T PROVE n + 1 \in T
      <3> SUFFICES ASSUME n + 1 <= N PROVE Cardinality(after[n + 1]) >= (n + 1) + 1
        OBVIOUS
      <3>1. n \in Nat /\ n + 1 \in Nat /\ n \in 0 .. N /\ Cardinality(after[n]) >= n + 1
        BY <1>0
      <3>2. after[n] \subseteq after[n + 1]
        BY <1>4, <3>1
      <3>3. after[n] # after[n + 1]
        BY <3>1
      <3>4. /\ Cardinality(after[n]) <= Cardinality(after[n + 1])
            /\ Cardinality(after[n]) # Cardinality(after[n + 1])
        BY <2>0, <3>1, <3>2, <3>3, FS_Subset
      <3> QED
        BY <2>0, <3>1, <3>4
    <2>3. T \in SUBSET Nat
      OBVIOUS
    <2> HIDE DEF T
    <2>4. N \in T
      BY <1>0, <2>1, <2>2, <2>3, NatSets
    <2>5. Cardinality(after[N]) >= N + 1
      BY <1>0, <2>4 DEF T
    <2> QED
      BY <1>0, <2>0, <2>5
  <1> DEFINE last == CHOOSE n \in 0 .. N : after[n + 1] = after[n]
  <1>8. last \in 0 .. N /\ after[last + 1] = after[last]
    BY <1>7
  <1>9. Grown(v, seed, rest) = after[last]
    BY DEF Grown, Passes, after, step
  <1> HIDE DEF last
  <1>10. last \in Nat /\ after[last] \in Groups /\ Pass(v, rest, after[last]) = after[last]
    <2>1. last \in Nat
      BY <1>0, <1>8
    <2> QED
      BY <1>3, <1>4, <1>8, <2>1
  <1>11. Shut(v, rest, after[last])
    <2>1. PassOf(v, rest, after[last], Pass(v, rest, after[last]))
      BY <1>10, Passed
    <2> QED
      BY <1>10, <2>1 DEF Shut, PassOf
  <1> QED
    BY <1>5, <1>6, <1>9, <1>10, <1>11 DEF Groups

-----------------------------------------------------------------------------
LEMMA SeedOfRest ==
  ASSUME NEW rest \in SUBSET Folk, rest # {}
  PROVE  Seed(rest) \in rest
  <1> DEFINE N == Len(People)
             T == {i \in 1 .. N : People[i] \in rest}
             First(i) == People[i] \in rest /\ \A j \in 1 .. i - 1 : People[j] \notin rest
  <1>0. N \in Nat
    BY PeopleAreFinite
  <1>1. T \subseteq Nat /\ T # {}
    BY <1>0 DEF Folk
  <1>2. PICK i \in T : \A j \in T : ~(<<j, i>> \in OpToRel(<, Nat))
    BY <1>1, NatLessThanWellFounded, WFMin
  <1>3. \A j \in T : ~(j < i)
    BY <1>1, <1>2 DEF OpToRel
  <1>4. i \in 1 .. N /\ First(i)
    BY <1>0, <1>3
  <1>5. First(CHOOSE k \in 1 .. N : First(k))
    BY <1>4, Zenon
  <1> QED
    BY <1>5 DEF Seed

Symmetric(v) == \A p, q \in Folk : Near(v, p, q) => Near(v, q, p)

LEMMA NearIsSymmetric ==
  ASSUME NEW v, \A p \in Folk : v.where[p] \in Int
  PROVE  Symmetric(v)
  <1> SUFFICES ASSUME NEW p \in Folk, NEW q \in Folk PROVE Near(v, p, q) => Near(v, q, p)
    BY DEF Symmetric
  <1> DEFINE Size(d) == IF d < 0 THEN -d ELSE d
  <1>1. v.where[p] \in Int /\ v.where[q] \in Int
    OBVIOUS
  <1>2. Size(v.where[p] - v.where[q]) = Size(v.where[q] - v.where[p])
    BY <1>1
  <1> QED
    BY <1>2 DEF Near, Distance

(* Two of the smallest closed groups have nobody in common.                *)
LEMMA ComponentsAreApart ==
  ASSUME NEW v, NEW r \in Components(v), NEW s \in Components(v), r \cap s # {}
  PROVE  r = s
  <1>1. r \in ClosedGroups(v) /\ s \in ClosedGroups(v)
    BY DEF Components
  <1>2. r \cap s \in ClosedGroups(v)
    BY <1>1 DEF ClosedGroups
  <1>3. r \cap s = r /\ r \cap s = s
    BY <1>2 DEF Components
  <1> QED
    BY <1>3

(* Who is left is apart from who has been clustered.                       *)
Apart(v, rest) ==
    \A p \in rest, q \in VisibleMembers(v) \ rest : ~Near(v, p, q) /\ ~Near(v, q, p)

LEMMA ClusterOfRest ==
  ASSUME NEW v, Symmetric(v), NEW rest \in SUBSET VisibleMembers(v), rest # {}, Apart(v, rest)
  PROVE  /\ Cluster(v, rest) \subseteq rest /\ Cluster(v, rest) # {}
         /\ Cluster(v, rest) \in Components(v)
         /\ Apart(v, rest \ Cluster(v, rest))
  <1> DEFINE seed == Seed(rest)
             c == Cluster(v, rest)
             shown == VisibleMembers(v)
  <1>0. shown \subseteq Folk
    BY DEF VisibleMembers
  <1>1. seed \in rest /\ rest \in Groups
    BY <1>0, SeedOfRest DEF Groups
  <1>2. /\ seed \in c /\ c \subseteq rest /\ Shut(v, rest, c)
        /\ \A d : seed \in d /\ Shut(v, rest, d) => c \subseteq d
    BY <1>1, GrownGroup DEF Cluster
  <1> HIDE DEF seed, c
  <1>3. \A p \in c, q \in shown \ c : ~Near(v, p, q)
    BY <1>2 DEF Shut, Apart
  <1>4. \A p \in c, q \in shown \ c : ~Near(v, q, p)
    BY <1>0, <1>2, <1>3 DEF Symmetric
  <1>5. c \in ClosedGroups(v)
    BY <1>2, <1>3 DEF ClosedGroups
  <1>6. ASSUME NEW r \in ClosedGroups(v), r \subseteq c PROVE r = c
    <2>1. r # {} /\ r \subseteq shown /\ \A p \in r, q \in shown \ r : ~Near(v, p, q)
      BY DEF ClosedGroups
    <2>2. \A p \in r, q \in shown \ r : ~Near(v, q, p)
      BY <1>0, <2>1 DEF Symmetric
    <2>3. CASE seed \in r
      <3>1. Shut(v, rest, r)
        BY <2>1 DEF Shut
      <3> QED
        BY <1>2, <1>6, <2>3, <3>1
    <2>4. CASE seed \notin r
      <3>1. Shut(v, rest, c \ r)
        BY <1>2, <1>3, <1>6, <2>2 DEF Shut
      <3>2. seed \in c \ r
        BY <1>2, <2>4
      <3>3. c \subseteq c \ r
        BY <1>2, <3>1, <3>2
      <3> QED
        BY <1>6, <2>1, <3>3
    <2> QED
      BY <2>3, <2>4
  <1>7. c \in Components(v)
    BY <1>5, <1>6 DEF Components
  <1>8. Apart(v, rest \ c)
    BY <1>2, <1>3, <1>4 DEF Apart
  <1> QED
    BY <1>2, <1>7, <1>8 DEF c

(* What the outer loop keeps: the clusters made so far are components, of  *)
(* all who are not left.                                                   *)
Splitting(v, s) ==
    /\ s \in Parts /\ s.rest \subseteq VisibleMembers(v) /\ Apart(v, s.rest)
    /\ s.clusters \subseteq Components(v)
    /\ UNION s.clusters = VisibleMembers(v) \ s.rest

LEMMA SplitOnce ==
  ASSUME NEW v, Symmetric(v), NEW s, Splitting(v, s), NEW n \in Nat
  PROVE  /\ Splitting(v, Split(v)[n][s])
         /\ s.rest = {} => Split(v)[n][s].rest = {}
         /\ s.rest # {} => /\ Split(v)[n][s].rest \subseteq s.rest
                           /\ Split(v)[n][s].rest # s.rest
  <1> DEFINE c == Cluster(v, s.rest)
             t == Split(v)[n][s]
  <1>1. /\ s \in Parts /\ s.rest \in Groups /\ s.clusters \in SUBSET Groups
    BY DEF Splitting, Parts
  <1>2. t = IF s.rest = {} THEN s
            ELSE [rest |-> s.rest \ c, clusters |-> s.clusters \cup {c}]
    BY <1>1 DEF Split
  <1> HIDE DEF t
  <1>3. CASE s.rest = {}
    <2>1. t = s
      BY <1>2, <1>3
    <2> QED
      BY <1>3, <2>1 DEF t
  <1>4. CASE s.rest # {}
    <2>1. c \subseteq s.rest /\ c # {} /\ c \in Components(v) /\ Apart(v, s.rest \ c)
      BY <1>4, ClusterOfRest DEF Splitting
    <2> HIDE DEF c
    <2>0. t = [rest |-> s.rest \ c, clusters |-> s.clusters \cup {c}]
      BY <1>2, <1>4
    <2>2. t.rest = s.rest \ c /\ t.clusters = s.clusters \cup {c}
      BY <2>0
    <2>3. t \in Parts
      <3>1. s.rest \ c \in Groups /\ s.clusters \cup {c} \in SUBSET Groups
        BY <1>1, <2>1 DEF Groups
      <3> QED
        BY <2>0, <3>1 DEF Parts
    <2>4. UNION t.clusters = VisibleMembers(v) \ t.rest
      <3>1. UNION t.clusters = (UNION s.clusters) \cup c
        BY <2>2
      <3> QED
        BY <2>1, <2>2, <3>1 DEF Splitting
    <2>5. Splitting(v, t)
      BY <2>1, <2>2, <2>3, <2>4 DEF Splitting
    <2> QED
      BY <1>4, <2>1, <2>2, <2>5 DEF t
  <1> QED
    BY <1>3, <1>4

LEMMA SplitsAreParts == \A v : Split(v) \in Steps(Parts)
  <1> SUFFICES ASSUME NEW v, NEW s \in Parts
               PROVE  (IF s.rest = {} THEN s
                       ELSE [rest |-> s.rest \ Cluster(v, s.rest),
                             clusters |-> s.clusters \cup {Cluster(v, s.rest)}]) \in Parts
    BY DEF Split, Steps
  <1> DEFINE c == Cluster(v, s.rest)
  <1>1. s.rest \in Groups /\ s.clusters \in SUBSET Groups
    BY DEF Parts
  <1>2. CASE s.rest # {}
    <2>1. c \subseteq s.rest
      <3>1. Seed(s.rest) \in s.rest
        BY <1>1, <1>2, SeedOfRest DEF Groups
      <3> QED
        BY <1>1, <3>1, GrownGroup DEF Cluster
    <2> HIDE DEF c
    <2>2. s.rest \ c \in Groups /\ s.clusters \cup {c} \in SUBSET Groups
      BY <1>1, <2>1 DEF Groups
    <2>3. [rest |-> s.rest \ c, clusters |-> s.clusters \cup {c}] \in Parts
      BY <2>2 DEF Parts
    <2> QED
      BY <1>2, <2>3 DEF c
  <1> QED
    BY <1>2

LEMMA ClustersAreComponents ==
  ASSUME NEW v, Symmetric(v)
  PROVE  Clusters(v) = Components(v) /\ UNION Clusters(v) = VisibleMembers(v)
  <1> DEFINE step == Split(v)
             start == [rest |-> VisibleMembers(v), clusters |-> {}]
             after == Rounds(step, start)
             N == Len(People)
  <1>0. N \in Nat /\ IsFiniteSet(Folk) /\ Cardinality(Folk) <= N /\ VisibleMembers(v) \subseteq Folk
    BY PeopleAreFinite DEF VisibleMembers
  <1>1. start \in Parts /\ start.rest = VisibleMembers(v) /\ start.clusters = {}
    BY <1>0 DEF Parts, Groups
  <1>2. Splitting(v, start)
    BY <1>1 DEF Splitting, Apart
  <1> HIDE DEF start
  <1>3. Iterates(after, step, start, Parts)
    BY <1>1, SplitsAreParts, Iteration
  <1> HIDE DEF after
  <1>4. \A n \in Nat : Splitting(v, after[n])
    <2> DEFINE T == {n \in Nat : Splitting(v, after[n])}
    <2>1. 0 \in T
      BY <1>2, <1>3 DEF Iterates
    <2>2. ASSUME NEW n \in T PROVE n + 1 \in T
      <3>1. n + 1 \in Nat /\ Splitting(v, after[n]) /\ after[n + 1] = step[n + 1][after[n]]
        BY <1>3 DEF Iterates
      <3> QED
        BY <3>1, SplitOnce
    <2>3. T \in SUBSET Nat
      OBVIOUS
    <2> HIDE DEF T
    <2>4. T = Nat
      BY <2>1, <2>2, <2>3, NatSets
    <2> QED
      BY <2>4 DEF T
  <1>5. \A n \in Nat : after[n].rest = {} \/ Cardinality(after[n].rest) + n <= N
    <2> DEFINE T == {n \in Nat : after[n].rest = {} \/ Cardinality(after[n].rest) + n <= N}
    <2>0. \A n \in Nat : IsFiniteSet(after[n].rest) /\ Cardinality(after[n].rest) \in Nat
                          /\ Cardinality(after[n].rest) <= N
      <3> SUFFICES ASSUME NEW n \in Nat
                   PROVE  IsFiniteSet(after[n].rest) /\ Cardinality(after[n].rest) \in Nat
                          /\ Cardinality(after[n].rest) <= N
        OBVIOUS
      <3>1. after[n].rest \in SUBSET Folk
        BY <1>0, <1>4 DEF Splitting
      <3>2. IsFiniteSet(after[n].rest) /\ Cardinality(after[n].rest) <= Cardinality(Folk)
        BY <1>0, <3>1, FS_Subset
      <3>3. Cardinality(after[n].rest) \in Nat /\ Cardinality(Folk) \in Nat
        BY <1>0, <3>2, FS_CardinalityType
      <3> QED
        BY <1>0, <3>2, <3>3
    <2>1. 0 \in T
      BY <2>0
    <2>2. ASSUME NEW n \in T PROVE n + 1 \in T
      <3> DEFINE now == after[n].rest
                 next == after[n + 1].rest
      <3>0. n \in Nat /\ n + 1 \in Nat
        OBVIOUS
      <3>1. /\ n \in Nat /\ n + 1 \in Nat /\ Splitting(v, after[n])
            /\ after[n + 1] = step[n + 1][after[n]]
        BY <1>3, <1>4, <3>0, Zenon DEF Iterates
      <3>2. /\ now = {} => next = {}
            /\ now # {} => next \subseteq now /\ next # now
        BY <3>1, SplitOnce
      <3>3. now = {} \/ Cardinality(now) + n <= N
        OBVIOUS
      <3>4. IsFiniteSet(now) /\ Cardinality(now) \in Nat /\ Cardinality(next) \in Nat
        BY <2>0, <3>1
      <3> HIDE DEF now, next
      <3>5. next = {} \/ Cardinality(next) + (n + 1) <= N
        <4>1. CASE now = {}
          BY <3>2, <4>1
        <4>2. CASE now # {}
          <5>1. Cardinality(next) <= Cardinality(now) /\ Cardinality(now) # Cardinality(next)
            BY <3>2, <3>4, <4>2, FS_Subset
          <5> QED
            BY <1>0, <3>1, <3>3, <3>4, <4>2, <5>1
        <4> QED
          BY <4>1, <4>2
      <3> QED
        BY <3>1, <3>5 DEF next
    <2>3. T \in SUBSET Nat
      OBVIOUS
    <2> HIDE DEF T
    <2>4. T = Nat
      BY <2>1, <2>2, <2>3, NatSets
    <2> QED
      BY <2>4 DEF T
  <1>6. after[N].rest = {}
    <2>1. after[N].rest \in SUBSET Folk
      BY <1>0, <1>4 DEF Splitting
    <2>2. IsFiniteSet(after[N].rest) /\ Cardinality(after[N].rest) \in Nat
      BY <1>0, <2>1, FS_Subset, FS_CardinalityType
    <2>3. after[N].rest # {} => Cardinality(after[N].rest) = 0
      BY <1>0, <1>5, <2>2
    <2> QED
      BY <2>2, <2>3, FS_EmptySet
  <1>7. Clusters(v) = after[N].clusters
    BY DEF Clusters, after, step, start
  <1>8. Clusters(v) \subseteq Components(v) /\ UNION Clusters(v) = VisibleMembers(v)
    <2>1. Splitting(v, after[N])
      BY <1>0, <1>4
    <2> QED
      BY <1>6, <1>7, <2>1 DEF Splitting
  <1>9. ASSUME NEW r \in Components(v) PROVE r \in Clusters(v)
    <2>1. PICK p \in r : p \in VisibleMembers(v)
      BY DEF Components, ClosedGroups
    <2>2. PICK c \in Clusters(v) : p \in c
      BY <1>8, <2>1
    <2>3. c \in Components(v) /\ r \cap c # {}
      BY <1>8, <2>1, <2>2
    <2> QED
      BY <2>2, <2>3, ComponentsAreApart
  <1> QED
    BY <1>8, <1>9

(* What is drawn of a cluster.                                             *)
BubblesOf(v, c) == IF Cardinality(c) = 1 \/ c \in v.expanded THEN {{p} : p \in c} ELSE {c}

LEMMA OneBubbleEach ==
  ASSUME NEW v, Symmetric(v), NEW p \in VisibleMembers(v)
  PROVE  Cardinality({b \in PlaceBubbles(v) : p \in b}) = 1
  <1>1. Clusters(v) = Components(v) /\ UNION Clusters(v) = VisibleMembers(v)
    BY ClustersAreComponents
  <1>2. PICK c \in Clusters(v) : p \in c
    BY <1>1
  <1>3. \A d \in Clusters(v) : p \in d => d = c
    <2> SUFFICES ASSUME NEW d \in Clusters(v), p \in d PROVE d = c
      OBVIOUS
    <2>1. d \in Components(v) /\ c \in Components(v) /\ d \cap c # {}
      BY <1>1, <1>2
    <2> QED
      BY <2>1, ComponentsAreApart
  <1>4. \A b : b \in PlaceBubbles(v) <=> \E d \in Clusters(v) : b \in BubblesOf(v, d)
    BY DEF PlaceBubbles, BubblesOf
  <1>5. \A d, b : b \in BubblesOf(v, d) => b \subseteq d
    BY DEF BubblesOf
  <1>6. {b \in PlaceBubbles(v) : p \in b} = {b \in BubblesOf(v, c) : p \in b}
    <2>1. ASSUME NEW b \in PlaceBubbles(v), p \in b PROVE b \in BubblesOf(v, c)
      <3>1. PICK d \in Clusters(v) : b \in BubblesOf(v, d)
        BY <1>4, <2>1
      <3>2. p \in d
        BY <1>5, <2>1, <3>1
      <3> QED
        BY <1>3, <3>1, <3>2
    <2>2. ASSUME NEW b \in BubblesOf(v, c) PROVE b \in PlaceBubbles(v)
      BY <1>4, <1>2, <2>2
    <2> QED
      BY <2>1, <2>2
  <1>7. \E b : {x \in BubblesOf(v, c) : p \in x} = {b}
    <2>1. CASE Cardinality(c) = 1 \/ c \in v.expanded
      <3>1. BubblesOf(v, c) = {{x} : x \in c}
        BY <2>1 DEF BubblesOf
      <3>2. {x \in BubblesOf(v, c) : p \in x} = {{p}}
        BY <1>2, <3>1
      <3> QED
        BY <3>2
    <2>2. CASE ~(Cardinality(c) = 1 \/ c \in v.expanded)
      <3>1. BubblesOf(v, c) = {c}
        BY <2>2 DEF BubblesOf
      <3>2. {x \in BubblesOf(v, c) : p \in x} = {c}
        BY <1>2, <3>1
      <3> QED
        BY <3>2
    <2> QED
      BY <2>1, <2>2
  <1> QED
    BY <1>6, <1>7, FS_Singleton

-----------------------------------------------------------------------------
(* The map's own state.                                                    *)
Zooms == 0 .. MaxZoom
Filters == {All} \cup {FamilyOf[p] : p \in Folk}
Requests == [member : Folk, sending : BOOLEAN]
Views == [mounted : BOOLEAN, where : [Folk -> Spots \cup {NoSpot}], filter : Filters,
          zoom : Zooms, flight : SUBSET Zooms, expanded : SUBSET Groups, fitted : BOOLEAN,
          request : SUBSET Requests, asked : SUBSET Folk]
ViewTypeOK == view \in Views

LEMMA ZoomLevels == RecenterZoom \in Zooms /\ ExpandZoom \in Zooms /\ 0 \in Zooms
                    /\ Zooms \subseteq Nat
  BY ClustersAssumption DEF Zooms

LEMMA NoViewType == NoView \in Views
  BY ZoomLevels DEF NoView, Views, Filters

LEMMA ZoomedType ==
  ASSUME NEW v \in Views, NEW zoom \in Zooms
  PROVE  Zoomed(v, zoom) \in Views
  BY DEF Zoomed, Views

LEMMA ChangedType ==
  ASSUME NEW v \in Views, NEW w \in Changed(v)
  PROVE  w \in Views
  <1>1. Pruned(v) \in Views
    BY DEF Pruned, Views
  <1> DEFINE u == Pruned(v)
             f == [u EXCEPT !.fitted = TRUE]
  <1>2. f \in Views
    BY <1>1 DEF Views
  <1>3. w \in Fits(u)
    BY DEF Changed
  <1> HIDE DEF u, f
  <1>4. w = u \/ \E zoom \in Zooms : w = Zoomed(f, zoom)
    BY <1>3, ZoomLevels DEF Fits, Zooms, f
  <1> QED
    BY <1>1, <1>2, <1>4, ZoomedType DEF u

LEMMA ViewsAreSymmetric == \A v \in Views : Symmetric(v)
  <1> SUFFICES ASSUME NEW v \in Views PROVE Symmetric(v)
    OBVIOUS
  <1>1. \A p \in Folk : v.where[p] \in Int
    <2> SUFFICES ASSUME NEW p \in Folk PROVE v.where[p] \in Int
      OBVIOUS
    <2>1. v.where[p] \in Spots \cup {NoSpot}
      BY DEF Views
    <2>2. Spots \subseteq Nat
      BY ClustersAssumption, Zenon
    <2>3. NoSpot \in Int /\ Nat \subseteq Int
      BY DEF NoSpot
    <2> QED
      BY <2>1, <2>2, <2>3, Zenon
  <1> QED
    BY <1>1, NearIsSymmetric

LEMMA BubblesAreGroups ==
  ASSUME NEW v \in Views, NEW b \in PlaceBubbles(v)
  PROVE  b \in Groups
  <1>1. PICK c \in Clusters(v) : b = c \/ \E p \in c : b = {p}
    BY DEF PlaceBubbles
  <1>2. UNION Clusters(v) = VisibleMembers(v)
    BY ViewsAreSymmetric, ClustersAreComponents
  <1>3. c \subseteq Folk
    BY <1>2 DEF VisibleMembers
  <1> QED
    BY <1>1, <1>3 DEF Groups

LEMMA ViewTypeStep ==
  ViewTypeOK /\ [ViewNext \/ MountView \/ UnmountView]_view => ViewTypeOK'
  <1> SUFFICES ASSUME view \in Views, [ViewNext \/ MountView \/ UnmountView]_view
               PROVE  view' \in Views
    BY DEF ViewTypeOK
  <1>1. CASE MemberMoves
    <2>1. PICK p \in Folk, spot \in Spots :
                  view' \in Changed([view EXCEPT !.where[p] = spot])
      BY <1>1 DEF MemberMoves
    <2>2. [view EXCEPT !.where[p] = spot] \in Views
      BY DEF Views
    <2> QED
      BY <2>1, <2>2, ChangedType
  <1>2. CASE SetGroup
    <2>1. PICK f \in Filters : view' \in Changed([view EXCEPT !.filter = f])
      BY <1>2 DEF SetGroup, Filters
    <2>2. [view EXCEPT !.filter = f] \in Views
      BY DEF Views
    <2> QED
      BY <2>1, <2>2, ChangedType
  <1>3. CASE UserZooms
    <2>1. PICK zoom \in Zooms : view' = Zoomed(view, zoom)
      BY <1>3 DEF UserZooms, Zooms
    <2> QED
      BY <2>1, ZoomedType
  <1>4. CASE ExpandCluster
    <2>1. PICK c \in PlaceBubbles(view) :
                  view' = [view EXCEPT !.expanded = @ \cup {c}, !.flight = {ExpandZoom}]
      BY <1>4 DEF ExpandCluster
    <2>2. c \in Groups
      BY BubblesAreGroups
    <2> QED
      BY <2>1, <2>2, ZoomLevels DEF Views
  <1>5. CASE RecenterOn
    <2>1. PICK zoom \in Zooms : view' = [view EXCEPT !.flight = {zoom}]
      <3>1. view.zoom \in Zooms
        BY DEF Views
      <3> QED
        BY <1>5, <3>1, ZoomLevels DEF RecenterOn
    <2> QED
      BY <2>1 DEF Views
  <1>6. CASE FlightEnds
    <2>1. PICK zoom \in view.flight : view' = Zoomed(view, zoom)
      BY <1>6 DEF FlightEnds
    <2>2. zoom \in Zooms
      BY DEF Views
    <2> QED
      BY <2>1, <2>2, ZoomedType
  <1>7. CASE RequestLocation
    <2>1. PICK p \in Folk :
                  view' = [view EXCEPT !.asked = @ \cup {p},
                                       !.request = {[member |-> p, sending |-> TRUE]}]
      BY <1>7 DEF RequestLocation, VisibleMembers
    <2>2. [member |-> p, sending |-> TRUE] \in Requests
      BY DEF Requests
    <2> QED
      BY <2>1, <2>2 DEF Views
  <1>8. CASE RequestAnswered
    <2>1. PICK p \in view.asked :
                  view' = [view EXCEPT !.asked = @ \ {p},
                                       !.request = {[member |-> p, sending |-> FALSE]}]
      BY <1>8 DEF RequestAnswered
    <2>2. [member |-> p, sending |-> FALSE] \in Requests
      BY DEF Requests, Views
    <2> QED
      BY <2>1, <2>2 DEF Views
  <1>9. CASE MountView
    <2>1. [NoView EXCEPT !.mounted = TRUE] \in Views
      BY NoViewType DEF Views
    <2> QED
      BY <1>9, <2>1 DEF MountView
  <1>10. CASE UnmountView
    BY <1>10, NoViewType DEF UnmountView
  <1>11. CASE UNCHANGED view
    BY <1>11
  <1> QED
    BY <1>1, <1>2, <1>3, <1>4, <1>5, <1>6, <1>7, <1>8, <1>9, <1>10, <1>11 DEF ViewNext

(* However members move, are filtered, expanded or zoomed, the clusters    *)
(* that the loops of clustering.ts:87-118 grow are the groups of members   *)
(* that are linked by nearness, whatever the order of the list; and every  *)
(* member that is shown and has a position is drawn in exactly one bubble. *)
THEOREM BubblesCoverAll == ViewSpec => []BubblesCoverMembers
  <1>1. ViewInit => ViewTypeOK
    BY NoViewType DEF ViewInit, ViewTypeOK
  <1>2. ViewTypeOK => BubblesCoverMembers
    BY ViewsAreSymmetric, ClustersAreComponents, OneBubbleEach DEF ViewTypeOK, BubblesCoverMembers
  <1> QED
    BY <1>1, <1>2, ViewTypeStep, PTL DEF ViewSpec

-----------------------------------------------------------------------------
(* The pages together: a step of the panel is a step of one page, which    *)
(* leaves the others alone.                                                *)

LEMMA MapSteps == [PanelNext]_panelVars => [MapNext \/ MountMap \/ UnmountMap]_mapVars
  <1>1. \A p : p # "map" /\ Only(p) => UNCHANGED mapVars
    BY Zenon DEF Only
  <1>2. PanelNext => \/ MapNext \/ MountMap \/ UnmountMap
                     \/ \E p : p # "map" /\ Only(p)
    BY Zenon DEF PanelNext, Works, Open, Leave
  <1>3. UNCHANGED panelVars => UNCHANGED mapVars
    BY DEF panelVars
  <1> QED
    BY <1>1, <1>2, <1>3, Zenon

LEMMA BubblesSteps == [PanelNext]_panelVars => [ViewNext \/ MountView \/ UnmountView]_view
  <1>1. \A p : p # "bubbles" /\ Only(p) => UNCHANGED view
    BY Zenon DEF Only
  <1>2. PanelNext => \/ ViewNext \/ MountView \/ UnmountView
                     \/ \E p : p # "bubbles" /\ Only(p)
    BY Zenon DEF PanelNext, Works, Open, Leave
  <1>3. UNCHANGED panelVars => UNCHANGED view
    BY DEF panelVars
  <1> QED
    BY <1>1, <1>2, <1>3, Zenon

LEMMA FamiliesSteps == [PanelNext]_panelVars => [FamiliesNext \/ MountFamilies \/ UnmountFamilies]_famVars
  <1>1. \A p : p # "families" /\ Only(p) => UNCHANGED famVars
    BY Zenon DEF Only
  <1>2. PanelNext => \/ FamiliesNext \/ MountFamilies \/ UnmountFamilies
                     \/ \E p : p # "families" /\ Only(p)
    BY Zenon DEF PanelNext, Works, Open, Leave
  <1>3. UNCHANGED panelVars => UNCHANGED famVars
    BY DEF panelVars
  <1> QED
    BY <1>1, <1>2, <1>3, Zenon

LEMMA CircleSteps == [PanelNext]_panelVars => [CircleNext \/ MountCircle \/ UnmountCircle]_circleVars
  <1>1. \A p : p # "circle" /\ Only(p) => UNCHANGED circleVars
    BY Zenon DEF Only
  <1>2. PanelNext => \/ CircleNext \/ MountCircle \/ UnmountCircle
                     \/ \E p : p # "circle" /\ Only(p)
    BY Zenon DEF PanelNext, Works, Open, Leave
  <1>3. UNCHANGED panelVars => UNCHANGED circleVars
    BY DEF panelVars
  <1> QED
    BY <1>1, <1>2, <1>3, Zenon

LEMMA PhotosSteps == [PanelNext]_panelVars => [PhotosNext \/ MountPhotos \/ UnmountPhotos]_photoVars
  <1>1. \A p : p # "photos" /\ Only(p) => UNCHANGED photoVars
    BY Zenon DEF Only
  <1>2. PanelNext => \/ PhotosNext \/ MountPhotos \/ UnmountPhotos
                     \/ \E p : p # "photos" /\ Only(p)
    BY Zenon DEF PanelNext, Works, Open, Leave
  <1>3. UNCHANGED panelVars => UNCHANGED photoVars
    BY DEF panelVars
  <1> QED
    BY <1>1, <1>2, <1>3, Zenon

LEMMA UsersSteps == [PanelNext]_panelVars => [UsersNext \/ MountUsers \/ UnmountUsers]_userVars
  <1>1. \A p : p # "users" /\ Only(p) => UNCHANGED userVars
    BY Zenon DEF Only
  <1>2. PanelNext => \/ UsersNext \/ MountUsers \/ UnmountUsers
                     \/ \E p : p # "users" /\ Only(p)
    BY Zenon DEF PanelNext, Works, Open, Leave
  <1>3. UNCHANGED panelVars => UNCHANGED userVars
    BY DEF panelVars
  <1> QED
    BY <1>1, <1>2, <1>3, Zenon

LEMMA HistorySteps == [PanelNext]_panelVars => [HistoryNext \/ MountHistory \/ UnmountHistory]_hist
  <1>1. \A p : p # "history" /\ Only(p) => UNCHANGED hist
    BY Zenon DEF Only
  <1>2. PanelNext => \/ HistoryNext \/ MountHistory \/ UnmountHistory
                     \/ \E p : p # "history" /\ Only(p)
    BY Zenon DEF PanelNext, Works, Open, Leave
  <1>3. UNCHANGED panelVars => UNCHANGED hist
    BY DEF panelVars
  <1> QED
    BY <1>1, <1>2, <1>3, Zenon

LEMMA AccountSteps == [PanelNext]_panelVars => [AccountNext \/ MountAccount \/ UnmountAccount]_accountVars
  <1>1. \A p : p # "account" /\ Only(p) => UNCHANGED accountVars
    BY Zenon DEF Only
  <1>2. PanelNext => \/ AccountNext \/ MountAccount \/ UnmountAccount
                     \/ \E p : p # "account" /\ Only(p)
    BY Zenon DEF PanelNext, Works, Open, Leave
  <1>3. UNCHANGED panelVars => UNCHANGED accountVars
    BY DEF panelVars
  <1> QED
    BY <1>1, <1>2, <1>3, Zenon

(* The panel implements each of its pages: whatever hash changes leave and  *)
(* open pages, while calls of those left are still answered (App.tsx:34-50, *)
(* 83-113), each page behaves as it does by itself.                         *)
THEOREM PanelImplementsPages ==
  PanelSpec => /\ MapSpec /\ ViewSpec /\ FamiliesSpec /\ CircleSpec /\ PhotosSpec
               /\ UsersSpec /\ HistorySpec /\ AccountSpec
  <1>1. PanelInit => /\ MapInit /\ ViewInit /\ FamInit /\ CircleInit /\ PhotoInit
                     /\ UsersInit /\ HistoryInit /\ AccountInit
    BY Zenon DEF PanelInit
  <1>2. PanelSpec => MapSpec
    BY <1>1, MapSteps, PTL DEF PanelSpec, MapSpec
  <1>3. PanelSpec => ViewSpec
    BY <1>1, BubblesSteps, PTL DEF PanelSpec, ViewSpec
  <1>4. PanelSpec => FamiliesSpec
    BY <1>1, FamiliesSteps, PTL DEF PanelSpec, FamiliesSpec
  <1>5. PanelSpec => CircleSpec
    BY <1>1, CircleSteps, PTL DEF PanelSpec, CircleSpec
  <1>6. PanelSpec => PhotosSpec
    BY <1>1, PhotosSteps, PTL DEF PanelSpec, PhotosSpec
  <1>7. PanelSpec => UsersSpec
    BY <1>1, UsersSteps, PTL DEF PanelSpec, UsersSpec
  <1>8. PanelSpec => HistorySpec
    BY <1>1, HistorySteps, PTL DEF PanelSpec, HistorySpec
  <1>9. PanelSpec => AccountSpec
    BY <1>1, AccountSteps, PTL DEF PanelSpec, AccountSpec
  <1> QED
    BY <1>2, <1>3, <1>4, <1>5, <1>6, <1>7, <1>8, <1>9

(* So what the pages are proved to keep, the panel keeps, and its run      *)
(* checks, however pages are opened, left and opened again.                *)
THEOREM PanelIsCorrect ==
  PanelSpec => /\ []NoSocketOutlivesMap /\ []SettledViewIsCurrent /\ LastSeenNeverRegresses
               /\ []BubblesCoverMembers /\ []EditsAreShown /\ []RosterFollowsEdits
               /\ []OnlyShownPhotosAreHeld /\ []PhotosAreCurrent /\ []RowsFollowSaves
               /\ []HistoryIsOfSelection /\ []ProfileIsCurrent
  BY PanelImplementsPages, NoStrayConnections, SettledViewsAreCurrent, LastSeenAdvances,
     BubblesCoverAll, EditsStayShown, RosterStaysCurrent, OnlyShownAreHeld, PhotosStayCurrent,
     RowsAreStored, HistoryFollowsSelection, CardStaysCurrent
=============================================================================
