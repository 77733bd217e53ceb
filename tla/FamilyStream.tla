---------------------------- MODULE FamilyStream ----------------------------
(***************************************************************************)
(* The live family list: what a viewer's app shows of another member       *)
(* (family_service.dart), kept up to date by REST fetches and by the       *)
(* WebSocket stream of the viewer's family (ws.go, hub.go), from which the *)
(* viewer may be moved to another.                                         *)
(*                                                                         *)
(* What changes is the member's photo, known by its avatar_version.  A     *)
(* socket has two ends: the server's handler with its place in the hub and *)
(* its buffer of frames, and the app's channel.  Either may be gone while  *)
(* the other does not know.                                                *)
(***************************************************************************)
EXTENDS Integers, Sequences, FiniteSets

CONSTANTS
    Conns,          \* sockets there may be at once, the server's leftovers too
    Fetches,        \* requests of GET /family/members that may overlap
    Buffer,         \* clientSendBuffer
    MaxVersion,     \* bound: changes of the photo
    MaxMoves,       \* bound: moves of the viewer by an administrator
    MaxFaults       \* bound: what goes wrong, and returns to the app

ASSUME StreamAssumption ==
    /\ 0 \notin Conns /\ Buffer \in Nat \ {0}
    /\ MaxVersion \in Nat /\ MaxMoves \in Nat /\ MaxFaults \in Nat

VARIABLES
    avatar,         \* users.avatar_version of the member
    family,         \* users.family_id of the viewer; the member is at "home"
    cast,           \* the broadcast of each version
    moving,         \* a move is committed and its streams not yet closed
    sock,           \* both ends of each socket
    chan,           \* FamilyService._channel; 0: none
    timer,          \* FamilyService._reconnectTimer
    fetch,          \* the requests under way
    view,           \* the version the app shows of the member
    moves, faults

vars == <<avatar, family, cast, moving, sock, chan, timer, fetch, view, moves, faults>>

Absent == -1                        \* the member is not in the list
Versions == 1 .. MaxVersion
Shown == Absent .. MaxVersion
FamilyIds == {"home", "other"}
Frame == [type: {"members", "avatar"}, version: Shown]

(* `net` is "silent" for a half-open connection: neither end is told.      *)
(* `late` is history: the family had changed when the client registered.   *)
Unused == [pc |-> "unused", family |-> "home", in |-> FALSE, late |-> FALSE, done |-> TRUE,
           send |-> <<>>, wire |-> <<>>, net |-> "cut"]
Asked == [Unused EXCEPT !.pc = "asked", !.done = FALSE, !.net = "live"]
Quiet == [pc |-> "idle", version |-> Absent, repair |-> FALSE]
NoCast == [due |-> FALSE, todo |-> {}]

Sockets ==
    [pc : {"unused", "asked", "read", "up", "open"}, family : FamilyIds,
     in : BOOLEAN, late : BOOLEAN, done : BOOLEAN,
     send : Seq(Frame), wire : Seq(Frame), net : {"live", "silent", "cut"}]

Requests ==
    [pc : {"idle", "sent", "read", "connect"}, version : Shown, repair : BOOLEAN]

TypeOK ==
    /\ avatar \in 0 .. MaxVersion /\ family \in FamilyIds
    /\ cast \in [Versions -> [due: BOOLEAN, todo: SUBSET Conns]]
    /\ moving \in BOOLEAN /\ timer \in BOOLEAN
    /\ sock \in [Conns -> Sockets] /\ \A k \in Conns : Len(sock[k].send) <= Buffer
    /\ chan \in Conns \cup {0}
    /\ fetch \in [Fetches -> Requests]
    /\ view \in Shown
    /\ moves \in 0 .. MaxMoves /\ faults \in 0 .. MaxFaults

(* The map screen has loaded its list and is about to connect.             *)
Init ==
    /\ avatar = 0 /\ family = "home"
    /\ cast = [v \in Versions |-> NoCast]
    /\ moving = FALSE
    /\ sock = [k \in Conns |-> Unused]
    /\ chan = 0 /\ timer = TRUE
    /\ fetch = [x \in Fetches |-> Quiet]
    /\ view = 0 /\ moves = 0 /\ faults = 0

client == <<chan, timer, fetch, view>>
server == <<avatar, family, cast, moving, moves>>

Cut(net) == IF net = "live" THEN "cut" ELSE net

(* wsClient.close, after which nobody reads the buffer; the hub's          *)
(* unregister, idempotent like it.                                         *)
Closed(s) == [s EXCEPT !.done = TRUE, !.send = <<>>, !.net = Cut(@)]
Dropped(s) == [Closed(s) EXCEPT !.in = FALSE]

-----------------------------------------------------------------------------
(* PutProfileAvatar, DeleteProfileAvatar: the update, then the broadcast.  *)

PutProfileAvatar ==
    /\ avatar < MaxVersion
    /\ avatar' = avatar + 1
    /\ cast' = [cast EXCEPT ![avatar + 1].due = TRUE]
    /\ UNCHANGED <<family, moving, sock, client, moves, faults>>

(* hub.broadcast: the clients are copied under the mutex and served after. *)
(* (hasAny spares the copy when it would be empty.)                        *)
BroadcastAvatarUpdate(v) ==
    /\ cast[v].due
    /\ cast' = [cast EXCEPT ![v] = [due |-> FALSE,
                   todo |-> {k \in Conns : sock[k].in /\ sock[k].family = "home"}]]
    /\ UNCHANGED <<avatar, family, moving, sock, client, moves, faults>>

(* A slow client is dropped.                                               *)
Enqueued(s, frame) ==
    CASE s.done -> s
      [] ~s.done /\ Len(s.send) < Buffer -> [s EXCEPT !.send = Append(@, frame)]
      [] OTHER -> Dropped(s)

SendTo(v, k) ==
    /\ k \in cast[v].todo
    /\ cast' = [cast EXCEPT ![v].todo = @ \ {k}]
    /\ sock' = [sock EXCEPT ![k] = Enqueued(@, [type |-> "avatar", version |-> v])]
    /\ UNCHANGED <<avatar, family, moving, client, moves, faults>>

-----------------------------------------------------------------------------
(* AdminMoveMember, AdminAssignUser: the update, then disconnectFamilyUser.*)

SetFamily ==
    /\ moves < MaxMoves /\ moves' = moves + 1
    /\ family' \in FamilyIds \ {family}
    /\ UNCHANGED <<avatar, cast, client, faults>>

DisconnectFamilyUser ==
    /\ sock' = [k \in Conns |-> IF sock[k].in THEN Dropped(sock[k]) ELSE sock[k]]
    /\ UNCHANGED <<avatar, cast, client, faults>>

(* Mutant: the streams are closed before the update.                       *)
MovesUserEarly(begun) ==
    \/ ~begun /\ moves < MaxMoves /\ moving' = TRUE /\ DisconnectFamilyUser /\ UNCHANGED <<family, moves>>
    \/ begun /\ SetFamily /\ moving' = FALSE /\ UNCHANGED sock

MovesUser(begun) ==
    \/ ~begun /\ SetFamily /\ moving' = TRUE /\ UNCHANGED sock
    \/ begun /\ DisconnectFamilyUser /\ moving' = FALSE /\ UNCHANGED <<family, moves>>

-----------------------------------------------------------------------------
(* Stream: the handler of one socket.                                      *)

ResolveFamily(k) ==
    /\ sock[k].pc = "asked"
    /\ sock' = [sock EXCEPT ![k].pc = "read", ![k].family = family]

Registered(s) == [s EXCEPT !.in = TRUE, !.late = (s.family # family)]

(* familyMembersSnapshot of the family read before.                        *)
WithSnapshot(s) ==
    LET frame == [type |-> "members", version |-> IF s.family = "home" THEN avatar ELSE Absent]
    IN  [s EXCEPT !.wire = IF s.net = "live" THEN Append(@, frame) ELSE @]

(* Mutant: the snapshot is read before the client is registered.           *)
JoinsLate(k) ==
    \/ sock[k].pc = "read" /\ sock' = [sock EXCEPT ![k] = [WithSnapshot(@) EXCEPT !.pc = "up"]]
    \/ sock[k].pc = "up" /\ sock' = [sock EXCEPT ![k] = [Registered(@) EXCEPT !.pc = "open"]]

Joins(k) ==
    \/ sock[k].pc = "read" /\ sock' = [sock EXCEPT ![k] = [Registered(@) EXCEPT !.pc = "up"]]
    \/ sock[k].pc = "up" /\ sock' = [sock EXCEPT ![k] = [WithSnapshot(@) EXCEPT !.pc = "open"]]

(* writeLoop: frames in order; a write into a half-open connection is lost.*)
WriteFrame(k) ==
    /\ sock[k].pc = "open" /\ ~sock[k].done /\ sock[k].send # <<>>
    /\ sock' = [sock EXCEPT ![k].send = Tail(@),
                            ![k].wire = IF sock[k].net = "live" THEN Append(@, Head(sock[k].send)) ELSE @]

(* The ping of a half-open connection is not answered.                     *)
Heartbeat(k) ==
    /\ sock[k].pc = "open" /\ sock[k].net = "silent" /\ ~sock[k].done
    /\ sock' = [sock EXCEPT ![k] = Closed(@)]

(* What the app has received it can still read.                            *)
Ended(s) == [Unused EXCEPT !.wire = s.wire]

(* A failed accept, write or read ends the handler: its deferred cleanup.  *)
Return(k) ==
    /\ sock[k].pc \in {"asked", "read", "up", "open"}
    /\ sock[k].net = "cut" \/ sock[k].done
    /\ sock' = [sock EXCEPT ![k] = Ended(@)]

Stream(k) ==
    /\ ResolveFamily(k) \/ Joins(k) \/ WriteFrame(k) \/ Heartbeat(k) \/ Return(k)
    /\ UNCHANGED <<server, client, faults>>

-----------------------------------------------------------------------------
(* The app: FamilyService.                                                 *)

(* Mutant: a snapshot replaces what is shown, whatever its version.        *)
ReconciledBlindly(v) == v

(* _replaceMembers, with the list of a snapshot or of a fetch.             *)
Reconciled(v) == IF v # Absent /\ view > v THEN view ELSE v

OnFrame(k) ==
    /\ chan = k /\ sock[k].wire # <<>>
    /\ LET frame == Head(sock[k].wire)
       IN  view' = CASE frame.type = "members" -> Reconciled(frame.version)
                     [] frame.type = "avatar" -> IF view # Absent /\ frame.version > view
                                                 THEN frame.version ELSE view
    /\ sock' = [sock EXCEPT ![k].wire = Tail(@)]
    /\ UNCHANGED <<server, chan, timer, fetch, faults>>

(* _teardownSocket: the subscription is cancelled and the channel closed.  *)
TornDown == [k \in Conns |-> IF k = chan THEN [sock[k] EXCEPT !.wire = <<>>, !.net = Cut(@)]
                                         ELSE sock[k]]

(* onDone, onError; the watchdog of a half-open connection.                *)
ScheduleReconnect ==
    /\ chan # 0 /\ sock[chan].net # "live"
    /\ sock' = TornDown /\ chan' = 0 /\ timer' = TRUE
    /\ UNCHANGED <<server, fetch, view, faults>>

Free(k) == /\ sock[k].pc = "unused" /\ k # chan
           /\ \A v \in Versions : k \notin cast[v].todo

(* _connect.                                                               *)
Connect(k) == Free(k) /\ chan' = k /\ sock' = [TornDown EXCEPT ![k] = Asked]

Begin(x, repair) ==
    /\ fetch[x].pc = "idle"
    /\ fetch' = [fetch EXCEPT ![x] = [Quiet EXCEPT !.pc = "sent", !.repair = repair]]

TimerFires(x) ==
    /\ timer /\ timer' = FALSE
    /\ Begin(x, TRUE)
    /\ UNCHANGED <<server, sock, chan, view, faults>>

(* ListMembers.                                                            *)
FetchServed(x) ==
    /\ fetch[x].pc = "sent"
    /\ fetch' = [fetch EXCEPT ![x].pc = "read",
                              ![x].version = IF family = "home" THEN avatar ELSE Absent]
    /\ UNCHANGED <<server, sock, chan, timer, view, faults>>

AfterFetch(x) == [fetch EXCEPT ![x] = IF @.repair THEN [Quiet EXCEPT !.pc = "connect"] ELSE Quiet]

(* fetchMembers, and the list published.                                   *)
FetchApplied(x) ==
    /\ fetch[x].pc = "read"
    /\ view' = Reconciled(fetch[x].version)
    /\ fetch' = AfterFetch(x)
    /\ UNCHANGED <<server, sock, chan, timer, faults>>

Reconnect(x) ==
    /\ fetch[x].pc = "connect"
    /\ \E k \in Conns : Connect(k)
    /\ fetch' = [fetch EXCEPT ![x] = Quiet]
    /\ UNCHANGED <<server, timer, view, faults>>

Fetching(x) == FetchServed(x) \/ FetchApplied(x) \/ Reconnect(x)

-----------------------------------------------------------------------------
(* What goes wrong.                                                        *)

(* The connection is lost, with the frames on it: both ends are told       *)
(* ("cut"), or neither ("silent").                                        *)
ConnectionLost ==
    /\ \E k \in Conns, net \in {"silent", "cut"} :
          /\ sock[k].net = "live"
          /\ sock' = [sock EXCEPT ![k].net = net, ![k].wire = <<>>]
    /\ UNCHANGED <<cast, moving, client>>

SnapshotFails ==
    /\ \E k \in Conns : sock[k].pc = "up" /\ sock' = [sock EXCEPT ![k] = Closed(@)]
    /\ UNCHANGED <<cast, moving, client>>

FetchFails ==
    /\ \E x \in Fetches : fetch[x].pc \in {"sent", "read"} /\ fetch' = AfterFetch(x)
    /\ UNCHANGED <<cast, moving, sock, chan, timer, view>>

(* The access token cannot be read.                                        *)
TokenUnreadable ==
    /\ \E x \in Fetches : fetch[x].pc = "connect" /\ fetch' = [fetch EXCEPT ![x] = Quiet]
    /\ sock' = TornDown /\ chan' = 0 /\ timer' = TRUE
    /\ UNCHANGED <<cast, moving, view>>

(* The server stops: its broadcasts, its streams and a move's second half. *)
Restart ==
    /\ cast' = [v \in Versions |-> NoCast]
    /\ moving' = FALSE
    /\ sock' = [k \in Conns |-> Ended(sock[k])]
    /\ UNCHANGED client

(* The app returns to the front; the device changes networks.              *)
RefreshMembers == /\ \E x \in Fetches : Begin(x, FALSE)
                  /\ UNCHANGED <<cast, moving, sock, chan, timer, view>>

ForceReconnect == /\ \E k \in Conns : Connect(k)
                  /\ timer' = FALSE
                  /\ UNCHANGED <<cast, moving, fetch, view>>

Fault ==
    /\ faults < MaxFaults /\ faults' = faults + 1
    /\ \/ ConnectionLost \/ SnapshotFails \/ FetchFails \/ TokenUnreadable
       \/ Restart \/ RefreshMembers \/ ForceReconnect
    /\ UNCHANGED <<avatar, family, moves>>

-----------------------------------------------------------------------------
Cast(v) == BroadcastAvatarUpdate(v) \/ \E k \in Conns : SendTo(v, k)

Next ==
    \/ PutProfileAvatar
    \/ \E v \in Versions : Cast(v)
    \/ MovesUser(moving)
    \/ \E k \in Conns : Stream(k) \/ OnFrame(k)
    \/ ScheduleReconnect
    \/ \E x \in Fetches : TimerFires(x) \/ Fetching(x)
    \/ Fault

(* The server's goroutines go on, frames arrive on a connection that is    *)
(* up, the app's timers fire and its requests are answered.                *)
Spec ==
    /\ Init /\ [][Next]_vars
    /\ WF_vars(\E v \in Versions : Cast(v))
    /\ WF_vars(moving /\ MovesUser(moving))
    /\ WF_vars(\E k \in Conns : Stream(k))
    /\ WF_vars(ScheduleReconnect \/ \E k \in Conns : OnFrame(k))
    /\ WF_vars(\E x \in Fetches : TimerFires(x) \/ Fetching(x))

-----------------------------------------------------------------------------
(* "an older snapshot never makes a fresh photo disappear or reappear"     *)
(* (family_service.dart:399): of a member who stays in the list the app    *)
(* never shows an older version than before, though frames, snapshots and  *)
(* fetches overtake each other and old sockets are replaced.               *)
AvatarNeverRegresses ==
    [][view # Absent /\ view' # Absent => view' >= view]_vars

(* A stream that was of the viewer's family when it was registered does    *)
(* not outlive a move: "Drop the moved user's family-scoped connections so *)
(* their normal reconnect starts a stream for the newly assigned family"   *)
(* (admin.go:474-475).                                                     *)
StreamsFollowMoves ==
    \A k \in Conns : sock[k].in /\ sock[k].family # family => moving \/ sock[k].late

(* Liveness.  A connection that is gone, half-open ones included, does not *)
(* hold its hub slot for ever (hub.go:41-46).                              *)
GoneClientsAreForgotten ==
    \A k \in Conns : sock[k].in /\ sock[k].net # "live" ~> ~sock[k].in

(* The app ends up with the newest photo: what a stream, a lost broadcast  *)
(* or a dropped client misses is recovered by the snapshot or the fetch of *)
(* the next connection (family_service.dart:53).                           *)
ViewConverges == [](moves = 0) => <>[](view = avatar)
=============================================================================
