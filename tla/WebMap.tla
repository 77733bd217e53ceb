-------------------------------- MODULE WebMap --------------------------------
(***************************************************************************)
(* The live map of the web panel (MapView.tsx): it loads the members, then *)
(* follows the server's stream, and greys out who has gone quiet.  One     *)
(* member is followed; the others are treated alike and independently.     *)
(*                                                                         *)
(* The map's effect runs again when the access token changes or the user   *)
(* presses Retry: it then drops its socket, its timer and the answer of    *)
(* the load under way.                                                     *)
(***************************************************************************)
EXTENDS WebStatus, Sequences, FiniteSets

CONSTANTS
    Reports,        \* what a phone may report: [spot, battery, accuracy, motion]
    Buffer,         \* clientSendBuffer
    MaxRetries,     \* the reconnections after which the map gives up
    MaxTime,        \* bound: the clock
    MaxAvatar,      \* bound: changes of the photo
    MaxCasts,       \* bound: broadcasts under way at once
    MaxFaults       \* bound: lost connections, failed loads, new tokens

VARIABLES
    clock,
    row,            \* what the server stores of the member
    casts,          \* frames some goroutine of the server has yet to broadcast
    sock,           \* the socket `ws`, both ends
    strays,         \* sockets the map has lost sight of
    load,           \* the load of the effect that is running
    stale,          \* loads of effects that are over, still under way
    mapped,         \* the map's state: React's and the effect's variables
    mapFaults

mapVars == <<clock, row, casts, sock, strays, load, stale, mapped, mapFaults>>

NoRow == [fix |-> None, seen |-> None, spot |-> "none", battery |-> "none",
          accuracy |-> "none", motion |-> "none", avatar |-> 0]
NoSock == [end |-> "none", frames |-> <<>>]
NoLoad == [pc |-> "none", row |-> NoRow]
Unmapped == [mounted |-> FALSE, loading |-> FALSE, error |-> FALSE,
             members |-> {}, retries |-> 0, timer |-> FALSE]

(* The types: of what a phone may tell, of rows, members and frames.       *)
Data == {"none"} \cup UNION {{r.spot, r.battery, r.accuracy, r.motion} : r \in Reports}
Rows == [fix : Int, seen : Int, spot : Data, battery : Data, accuracy : Data, motion : Data,
         avatar : Nat]
Members == [spot : Data, seen : Int, battery : Data, movement : Movements, avatar : Nat,
            status : Statuses, address : Addresses]
Snapshots == [type : {"members"}, row : Rows]
Locations == [type : {"location"}, fix : Int, seen : Int, spot : Data, battery : Data,
              accuracy : Data, motion : Data]
Presences == [type : {"presence"}, seen : Nat, battery : Data]
Avatars == [type : {"avatar"}, avatar : Nat]
Frames == Snapshots \cup Locations \cup Presences \cup Avatars

MapTypeOK ==
    /\ clock \in Nat /\ row \in Rows /\ casts \subseteq Frames
    /\ sock \in [end : {"none", "asked", "joined", "open", "closed"}, frames : Seq(Frames)]
    /\ strays \in Nat /\ stale \in Nat
    /\ load \in [pc : {"none", "sent", "read"}, row : Rows]
    /\ mapped \in [mounted : BOOLEAN, loading : BOOLEAN, error : BOOLEAN, retries : Nat,
                   timer : BOOLEAN, members : SUBSET Members]

(* `members` holds the member once it is loaded.                           *)
Shown == mapped.members

MapInit ==
    /\ clock = 0 /\ row = NoRow /\ casts = {} /\ sock = NoSock /\ strays = 0
    /\ load = NoLoad /\ stale = 0 /\ mapped = Unmapped /\ mapFaults = 0

server == <<clock, row, casts>>

-----------------------------------------------------------------------------
(* The server: reports of the phone and changes of the photo, each stored  *)
(* and then broadcast by a goroutine of its own.                           *)

Announce(frame) == Cardinality(casts) < MaxCasts /\ casts' = casts \cup {frame}

(* IngestLocation: a fix that moves the member.                            *)
ReportFix(r) ==
    /\ mapped.mounted /\ row.seen < clock
    /\ row' = [row EXCEPT !.fix = clock, !.seen = clock, !.spot = r.spot, !.battery = r.battery,
                          !.accuracy = r.accuracy, !.motion = r.motion]
    /\ Announce([type |-> "location", fix |-> clock, seen |-> clock, spot |-> r.spot,
                 battery |-> r.battery, accuracy |-> r.accuracy, motion |-> r.motion])
    /\ UNCHANGED <<clock, sock, strays, load, stale, mapped, mapFaults>>

(* HeartbeatDevice, or a fix where the member already was.                 *)
ReportPresence ==
    /\ mapped.mounted /\ row.seen < clock
    /\ row' = [row EXCEPT !.seen = clock]
    /\ Announce([type |-> "presence", seen |-> clock, battery |-> row.battery])
    /\ UNCHANGED <<clock, sock, strays, load, stale, mapped, mapFaults>>

PutAvatar ==
    /\ mapped.mounted /\ row.avatar < MaxAvatar
    /\ row' = [row EXCEPT !.avatar = @ + 1]
    /\ Announce([type |-> "avatar", avatar |-> row.avatar + 1])
    /\ UNCHANGED <<clock, sock, strays, load, stale, mapped, mapFaults>>

(* hub.broadcast; a full buffer closes the stream.                         *)
Broadcast ==
    /\ \E frame \in casts :
          /\ casts' = casts \ {frame}
          /\ sock' = IF sock.end \notin {"joined", "open"} THEN sock
                     ELSE IF Len(sock.frames) >= Buffer THEN [end |-> "closed", frames |-> <<>>]
                     ELSE [sock EXCEPT !.frames = Append(@, frame)]
    /\ UNCHANGED <<clock, row, strays, load, stale, mapped, mapFaults>>

(* AdminStream, Stream: the client is registered first, its snapshot read  *)
(* and written next, and then its buffer.                                  *)
Register ==
    /\ sock.end = "asked"
    /\ sock' = [sock EXCEPT !.end = "joined"]
    /\ UNCHANGED <<server, strays, load, stale, mapped, mapFaults>>

Snapshot ==
    /\ sock.end = "joined"
    /\ sock' = [end |-> "open", frames |-> <<[type |-> "members", row |-> row]>> \o sock.frames]
    /\ UNCHANGED <<server, strays, load, stale, mapped, mapFaults>>

-----------------------------------------------------------------------------
(* load: the lists, requested together.                                    *)

LoadServed ==
    /\ load.pc = "sent"
    /\ load' = [pc |-> "read", row |-> row]
    /\ UNCHANGED <<server, sock, strays, stale, mapped, mapFaults>>

(* connect: a new socket becomes `ws`, whatever the old one is.            *)
Connect ==
    /\ sock' = [NoSock EXCEPT !.end = "asked"]
    /\ strays' = IF sock = NoSock THEN strays ELSE strays + 1

LoadArrives ==
    /\ load.pc = "read" /\ mapped.mounted
    /\ load' = NoLoad
    /\ mapped' = [mapped EXCEPT !.loading = FALSE, !.retries = 0,
                                !.members = {DeriveMember(load.row, clock)}]
    /\ Connect
    /\ UNCHANGED <<server, stale, mapFaults>>

(* Mutant: the load of an effect that is over goes on to connect.          *)
StaleAnswerConnects == strays' = strays + 1

(* `if (cancelled) return`.                                                *)
StaleAnswer == UNCHANGED strays

StaleArrives ==
    /\ stale > 0 /\ stale' = stale - 1
    /\ StaleAnswer
    /\ UNCHANGED <<server, sock, load, mapped, mapFaults>>

-----------------------------------------------------------------------------
(* The effect starts, and is cleaned up: cancelled, clearTimeout, ws.close.*)

CleanedUp ==
    /\ sock' = NoSock
    /\ stale' = IF load.pc = "none" THEN stale ELSE stale + 1

Reload ==
    /\ CleanedUp
    /\ load' = [NoLoad EXCEPT !.pc = "sent"]
    /\ mapped' = [mapped EXCEPT !.loading = TRUE, !.error = FALSE, !.retries = 0, !.timer = FALSE]

(* A page is opened once the answers to the last one have come in.         *)
MountMap ==
    /\ ~mapped.mounted /\ stale = 0
    /\ clock' = 0 /\ casts' = {} /\ mapFaults' = 0
    /\ row' \in {NoRow} \cup {[NoRow EXCEPT !.fix = 0, !.seen = 0, !.spot = r.spot,
                                 !.battery = r.battery, !.accuracy = r.accuracy,
                                 !.motion = r.motion] : r \in Reports}
    /\ load' = [NoLoad EXCEPT !.pc = "sent"]
    /\ mapped' = [Unmapped EXCEPT !.mounted = TRUE, !.loading = TRUE]
    /\ UNCHANGED <<sock, strays, stale>>

UnmountMap ==
    /\ mapped.mounted
    /\ CleanedUp
    /\ load' = NoLoad /\ mapped' = Unmapped
    /\ clock' = 0 /\ casts' = {} /\ row' = NoRow /\ mapFaults' = 0
    /\ UNCHANGED strays

Retry ==
    /\ mapped.error /\ Reload
    /\ UNCHANGED <<server, strays, mapFaults>>

-----------------------------------------------------------------------------
(* ws.onmessage, ws.onclose, the reconnect timer.                          *)

OnAvatar(m, version) == IF version > m.avatar THEN [m EXCEPT !.avatar = version] ELSE m

OnFrame(frame, m) ==
    CASE frame.type = "members" -> DeriveMember(frame.row, clock)
      [] frame.type = "location" -> ApplyLocation(m, frame, clock)
      [] frame.type = "presence" -> ApplyPresence(m, frame, clock)
      [] frame.type = "avatar" -> OnAvatar(m, frame.avatar)

OnMessage ==
    /\ sock.end = "open" /\ sock.frames # <<>>
    /\ sock' = [sock EXCEPT !.frames = Tail(@)]
    /\ mapped' = [mapped EXCEPT !.members = {OnFrame(Head(sock.frames), m) : m \in @}]
    /\ UNCHANGED <<server, strays, load, stale, mapFaults>>

(* scheduleReconnect: `retries` is reset by a load only.                   *)
OnClose ==
    /\ sock.end = "closed"
    /\ sock' = NoSock
    /\ mapped' = IF mapped.retries >= MaxRetries THEN mapped
                 ELSE [mapped EXCEPT !.retries = @ + 1, !.timer = TRUE]
    /\ UNCHANGED <<server, strays, load, stale, mapFaults>>

TimerFires ==
    /\ mapped.timer
    /\ mapped' = [mapped EXCEPT !.timer = FALSE]
    /\ Connect
    /\ UNCHANGED <<server, load, stale, mapFaults>>

(* The interval of five seconds; a tick that changes nothing is not a step.*)
Tick ==
    /\ mapped' = [mapped EXCEPT !.members = {RefreshStaleness(m, clock) : m \in @}]
    /\ mapped' # mapped
    /\ UNCHANGED <<server, sock, strays, load, stale, mapFaults>>

TimePasses ==
    /\ mapped.mounted /\ clock < MaxTime
    /\ clock' = clock + 1
    /\ UNCHANGED <<row, casts, sock, strays, load, stale, mapped, mapFaults>>

-----------------------------------------------------------------------------
(* What goes wrong, and another call's refresh of the access token, which  *)
(* is a property of the map.                                               *)

LoseConnection ==
    /\ sock.end \in {"asked", "joined", "open"}
    /\ sock' = [end |-> "closed", frames |-> <<>>]
    /\ UNCHANGED <<load, stale, mapped>>

LoadFails ==
    /\ load.pc # "none" /\ load' = NoLoad
    /\ mapped' = [mapped EXCEPT !.loading = FALSE, !.error = TRUE]
    /\ UNCHANGED <<sock, stale>>

TokenChanges == mapped.mounted /\ Reload

MapFault ==
    /\ mapFaults < MaxFaults /\ mapFaults' = mapFaults + 1
    /\ LoseConnection \/ LoadFails \/ TokenChanges
    /\ UNCHANGED <<server, strays>>

-----------------------------------------------------------------------------
MapServer == Broadcast \/ Register \/ Snapshot \/ LoadServed

MapNext ==
    \/ \E r \in Reports : ReportFix(r)
    \/ ReportPresence \/ PutAvatar \/ MapServer
    \/ LoadArrives \/ StaleArrives \/ Retry
    \/ OnMessage \/ OnClose \/ TimerFires \/ Tick \/ TimePasses
    \/ MapFault

(* The page opens its map and leaves it.                                   *)
MapSpec == MapInit /\ [][MapNext \/ MountMap \/ UnmountMap]_mapVars /\ WF_mapVars(Tick)

-----------------------------------------------------------------------------
(* Once nothing is under way the map shows the member's last sign of life  *)
(* and photo as the server stores them, whatever frames, snapshots and     *)
(* loads overtook each other and however often the stream was replaced     *)
(* (MapView.tsx:432-528, ws.go).                                           *)
SettledViewIsCurrent ==
    /\ sock.end = "open" /\ sock.frames = <<>> /\ casts = {}
    => \A m \in Shown : m.seen = row.seen /\ m.avatar = row.avatar

(* "a delayed GPS frame can never make `last seen` jump backwards"         *)
(* (status.ts:331), nor an old frame the photo.                            *)
LastSeenNeverRegresses ==
    [][\A m \in Shown, n \in Shown' :
          mapped'.mounted => n.seen >= m.seen /\ n.avatar >= m.avatar]_mapVars

(* A map never holds two streams, and a closed map none: whatever it has   *)
(* requested, retried or scheduled (MapView.tsx:520, 547, 554-558).        *)
NoSocketOutlivesMap == strays = 0 /\ (~mapped.mounted => sock.end = "none" /\ ~mapped.timer)

(* Liveness: a member who falls silent turns grey and is labelled by the   *)
(* age of the position, not by a movement or a place, though no frame      *)
(* arrives and whatever was shown before (status.ts:377-397, 196-198).     *)
Quiet == \E m \in Shown : m.spot # "none" /\ m.seen # None /\ clock - m.seen > Stale
Grey == \A m \in Shown : /\ m.status = "stopped" /\ Label(m) = "Position from"
                         /\ LastSeenLabel(m, clock) = "Last seen"
QuietMembersGoGrey == Quiet ~> (Grey \/ ~Quiet)
=============================================================================
