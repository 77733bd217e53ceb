------------------------- MODULE FamilyStreamProofs -------------------------
(***************************************************************************)
(* What FamilyStream promises of every number of sockets, requests, moves  *)
(* and versions, of every buffer: its type, that no stream of the family a *)
(* viewer was moved from outlives the move, and that the photo an app      *)
(* shows never grows older.                                                *)
(***************************************************************************)
EXTENDS FamilyStream, SequenceTheorems, TLAPS

USE StreamAssumption

-----------------------------------------------------------------------------
(* The sequences of frames.                                                *)

LEMMA AppendIsTyped ==
    ASSUME NEW q \in Seq(Frame), NEW f \in Frame
    PROVE  Append(q, f) \in Seq(Frame) /\ Len(Append(q, f)) = Len(q) + 1
  BY AppendProperties

LEMMA TailIsTyped ==
    ASSUME NEW q \in Seq(Frame), q # <<>>
    PROVE  Head(q) \in Frame /\ Tail(q) \in Seq(Frame) /\ Len(Tail(q)) = Len(q) - 1
  BY HeadTailProperties

LEMMA EmptyIsTyped == <<>> \in Seq(Frame) /\ Len(<<>>) = 0
  OBVIOUS

-----------------------------------------------------------------------------
(* The helpers that rewrite one socket keep its shape, its buffer within   *)
(* bounds, and its client out of the hub until the handler registers it.   *)

Fits(s) ==
    /\ s \in Sockets /\ Len(s.send) <= Buffer
    /\ s.in => s.pc \in {"up", "open"}

LEMMA UnusedFits == Fits(Unused) /\ Fits(Asked) /\ ~Unused.in /\ ~Asked.in
  <1>1. Unused \in Sockets /\ Unused.send = <<>> /\ ~Unused.in
    BY EmptyIsTyped DEF Unused, Sockets, FamilyIds
  <1>2. Asked \in Sockets /\ Asked.send = <<>> /\ ~Asked.in
    BY <1>1 DEF Asked, Sockets
  <1> QED  BY <1>1, <1>2, EmptyIsTyped DEF Fits

LEMMA ClosedFits ==
    ASSUME NEW s, Fits(s)
    PROVE  Fits(Closed(s)) /\ Closed(s).in = s.in /\ Closed(s).late = s.late
                           /\ Closed(s).family = s.family
  <1>1. s \in Sockets
    BY DEF Fits
  <1>2. Cut(s.net) \in {"live", "silent", "cut"}
    BY <1>1 DEF Cut, Sockets
  <1>3. Closed(s) \in Sockets /\ Closed(s).send = <<>>
    BY <1>1, <1>2, EmptyIsTyped DEF Closed, Sockets
  <1> QED  BY <1>1, <1>3, EmptyIsTyped DEF Fits, Closed, Sockets

LEMMA DroppedFits ==
    ASSUME NEW s, Fits(s)
    PROVE  Fits(Dropped(s)) /\ ~Dropped(s).in
  <1>1. Fits(Closed(s))
    BY ClosedFits
  <1>2. Dropped(s) \in Sockets /\ Dropped(s).send = Closed(s).send /\ ~Dropped(s).in
    BY <1>1 DEF Fits, Dropped, Sockets
  <1> QED  BY <1>1, <1>2 DEF Fits

LEMMA EnqueuedFits ==
    ASSUME NEW s, Fits(s), NEW f \in Frame
    PROVE  /\ Fits(Enqueued(s, f))
           /\ \/ ~Enqueued(s, f).in
              \/ /\ Enqueued(s, f).in = s.in /\ Enqueued(s, f).late = s.late
                 /\ Enqueued(s, f).family = s.family
  <1>1. s \in Sockets /\ s.done \in BOOLEAN /\ s.send \in Seq(Frame) /\ Len(s.send) \in Nat
    BY DEF Fits, Sockets
  <1>2. CASE s.done
    BY <1>1, <1>2 DEF Enqueued
  <1>3. CASE ~s.done /\ Len(s.send) < Buffer
    <2> DEFINE e == [s EXCEPT !.send = Append(@, f)]
    <2>1. Enqueued(s, f) = e
      BY <1>1, <1>3 DEF Enqueued
    <2>2. Append(s.send, f) \in Seq(Frame) /\ Len(Append(s.send, f)) = Len(s.send) + 1
      BY <1>1, AppendIsTyped
    <2>3. e \in Sockets /\ e.send = Append(s.send, f)
                        /\ e.in = s.in /\ e.late = s.late /\ e.family = s.family
      BY <1>1, <2>2 DEF Sockets
    <2> QED  BY <1>1, <1>3, <2>1, <2>2, <2>3 DEF Fits
  <1>4. CASE ~s.done /\ ~(Len(s.send) < Buffer)
    <2>1. Enqueued(s, f) = Dropped(s)
      BY <1>1, <1>4 DEF Enqueued
    <2> QED  BY <2>1, DroppedFits
  <1> QED  BY <1>1, <1>2, <1>3, <1>4

LEMMA EndedFits ==
    ASSUME NEW s, Fits(s)
    PROVE  Fits(Ended(s)) /\ ~Ended(s).in
  <1>1. s.wire \in Seq(Frame)
    BY DEF Fits, Sockets
  <1>2. Ended(s) \in Sockets /\ Ended(s).send = Unused.send /\ ~Ended(s).in
    BY <1>1, UnusedFits DEF Fits, Ended, Sockets
  <1> QED  BY <1>2, UnusedFits DEF Fits

LEMMA ServerEndFits ==
    ASSUME NEW s, Fits(s)
    PROVE  /\ LET r == [Registered(s) EXCEPT !.pc = "up"]
              IN  Fits(r) /\ r.late = (r.family # family)
           /\ avatar \in 0 .. MaxVersion =>
                 /\ Fits(WithSnapshot(s)) /\ WithSnapshot(s).in = s.in
                 /\ WithSnapshot(s).late = s.late /\ WithSnapshot(s).family = s.family
  <1>1. s \in Sockets /\ s.net \in {"live", "silent", "cut"} /\ s.wire \in Seq(Frame)
    BY DEF Fits, Sockets
  <1>2. LET r == [Registered(s) EXCEPT !.pc = "up"]
        IN  Fits(r) /\ r.late = (r.family # family)
    BY <1>1 DEF Fits, Registered, Sockets
  <1>3. ASSUME avatar \in 0 .. MaxVersion
        PROVE  /\ Fits(WithSnapshot(s)) /\ WithSnapshot(s).in = s.in
               /\ WithSnapshot(s).late = s.late /\ WithSnapshot(s).family = s.family
    <2> DEFINE f == [type |-> "members", version |-> IF s.family = "home" THEN avatar ELSE Absent]
               q == IF s.net = "live" THEN Append(s.wire, f) ELSE s.wire
    <2>1. f \in Frame
      BY <1>3 DEF Frame, Shown, Absent
    <2>2. q \in Seq(Frame)
      BY <1>1, <2>1, AppendIsTyped
    <2>3. WithSnapshot(s) = [s EXCEPT !.wire = q]
      BY <1>1 DEF WithSnapshot, Sockets
    <2> QED
      <3> HIDE DEF q
      <3> QED  BY <1>1, <2>2, <2>3 DEF Fits, Sockets
  <1> QED  BY <1>2, <1>3

-----------------------------------------------------------------------------
(* The inductive invariant, in two parts: every socket has its shape and   *)
(* follows the viewer's moves, and the other variables have their type.    *)

Follows(s) == s.in /\ s.family # family => moving \/ s.late

Streams ==
    /\ sock \in [Conns -> Sockets]
    /\ \A k \in Conns : Fits(sock[k]) /\ Follows(sock[k])

Others ==
    /\ avatar \in 0 .. MaxVersion /\ family \in FamilyIds
    /\ cast \in [Versions -> [due: BOOLEAN, todo: SUBSET Conns]]
    /\ moving \in BOOLEAN /\ timer \in BOOLEAN
    /\ chan \in Conns \cup {0}
    /\ fetch \in [Fetches -> Requests]
    /\ view \in Shown
    /\ moves \in 0 .. MaxMoves /\ faults \in 0 .. MaxFaults

LEMMA PartsAreAll ==
    Streams /\ Others => TypeOK /\ StreamsFollowMoves
  BY DEF Streams, Others, TypeOK, StreamsFollowMoves, Fits, Follows

LEMMA SameSockets ==
    ASSUME Streams, UNCHANGED <<sock, family, moving>>
    PROVE  Streams'
  BY DEF Streams, Follows, Fits

(* A step that rewrites one socket, or leaves its registration as it was.  *)
LEMMA OneSocket ==
    ASSUME Streams, UNCHANGED <<family, moving>>,
           NEW k \in Conns, NEW s, Fits(s),
           \/ ~s.in
           \/ s.in = sock[k].in /\ s.late = sock[k].late /\ s.family = sock[k].family
           \/ s.late = (s.family # family),
           sock' = [sock EXCEPT ![k] = s]
    PROVE  Streams'
  <1>1. Follows(sock[k])
    BY DEF Streams
  <1>2. Follows(s) /\ s \in Sockets
    BY <1>1 DEF Follows, Fits
  <1> QED  BY <1>2 DEF Streams, Follows, Fits

LEMMA TornDownKeeps ==
    ASSUME Streams
    PROVE  /\ TornDown \in [Conns -> Sockets]
           /\ \A k \in Conns : Fits(TornDown[k]) /\ Follows(TornDown[k])
  <1>1. ASSUME NEW k \in Conns
        PROVE  /\ TornDown[k] \in Sockets
               /\ Fits(TornDown[k]) /\ Follows(TornDown[k])
    <2>1. Fits(sock[k]) /\ Follows(sock[k]) /\ sock[k] \in Sockets
      BY DEF Streams, Fits
    <2>2. Cut(sock[k].net) \in {"live", "silent", "cut"}
      BY <2>1 DEF Cut, Sockets
    <2> DEFINE r == [sock[k] EXCEPT !.wire = <<>>, !.net = Cut(sock[k].net)]
    <2>3. TornDown[k] = IF k = chan THEN r ELSE sock[k]
      BY DEF TornDown
    <2>4. Fits(r) /\ r.in = sock[k].in /\ r.late = sock[k].late /\ r.family = sock[k].family
      BY <2>1, <2>2, EmptyIsTyped DEF Fits, Sockets
    <2> QED
      <3> HIDE DEF r
      <3> QED  BY <2>1, <2>3, <2>4 DEF Follows, Fits
  <1>2. TornDown = [k \in Conns |-> TornDown[k]]
    BY DEF TornDown
  <1> QED  BY <1>1, <1>2

LEMMA ConnectKeeps ==
    ASSUME Streams, UNCHANGED <<family, moving>>, NEW k \in Conns, Connect(k)
    PROVE  Streams' /\ chan' \in Conns
  <1>1. sock' = [TornDown EXCEPT ![k] = Asked] /\ chan' = k
    BY DEF Connect
  <1>2. Follows(Asked) /\ Asked \in Sockets
    BY UnusedFits DEF Follows, Fits
  <1> QED
    <2> HIDE DEF TornDown
    <2> QED  BY <1>1, <1>2, TornDownKeeps, UnusedFits DEF Streams, Follows, Fits

LEMMA TornDownStreams ==
    ASSUME Streams, UNCHANGED <<family, moving>>, sock' = TornDown
    PROVE  Streams'
  <1> HIDE DEF TornDown
  <1> QED  BY TornDownKeeps DEF Streams, Follows, Fits

LEMMA FrameIsRead ==
    ASSUME Streams, Others, NEW k \in Conns, OnFrame(k)
    PROVE  /\ Streams' /\ view' \in Shown
           /\ view # Absent /\ view' # Absent => view' >= view
  <1>1. Fits(sock[k]) /\ sock[k].wire \in Seq(Frame) /\ sock[k].wire # <<>>
                      /\ sock[k].net \in {"live", "silent", "cut"}
    BY DEF Streams, Fits, Sockets, OnFrame
  <1>2. Head(sock[k].wire) \in Frame /\ Tail(sock[k].wire) \in Seq(Frame)
    BY <1>1, TailIsTyped
  <1> DEFINE h == Head(sock[k].wire)
             r == [sock[k] EXCEPT !.wire = Tail(sock[k].wire)]
  <1>3. Fits(r) /\ r.in = sock[k].in /\ r.late = sock[k].late /\ r.family = sock[k].family
    BY <1>1, <1>2 DEF Fits, Sockets
  <1>4. sock' = [sock EXCEPT ![k] = r] /\ UNCHANGED <<family, moving>>
    BY DEF OnFrame, Streams, server
  <1>5. Streams'
    <2> HIDE DEF r
    <2> QED  BY <1>3, <1>4, OneSocket
  <1>6. h.version \in Shown /\ h.type \in {"members", "avatar"}
    BY <1>2 DEF Frame
  <1>7. view' = CASE h.type = "members" -> Reconciled(h.version)
                  [] h.type = "avatar" -> IF view # Absent /\ h.version > view
                                          THEN h.version ELSE view
    BY DEF OnFrame
  <1>8. view' \in Shown /\ (view # Absent /\ view' # Absent => view' >= view)
    <2> HIDE DEF h
    <2> QED  BY <1>6, <1>7 DEF Others, Shown, Absent, Reconciled
  <1> QED  BY <1>5, <1>8

LEMMA StreamKeeps ==
    ASSUME Streams, Others, NEW k \in Conns, Stream(k)
    PROVE  Streams'
  <1> DEFINE old == sock[k]
  <1>1. Fits(old) /\ sock \in [Conns -> Sockets] /\ old \in Sockets /\ avatar \in 0 .. MaxVersion
        /\ UNCHANGED <<family, moving>>
    BY DEF Streams, Others, Fits, Stream, server
  <1>2. CASE ResolveFamily(k)
    <2> DEFINE r == [old EXCEPT !.pc = "read", !.family = family]
    <2>1. sock' = [sock EXCEPT ![k] = r]
      BY <1>2, <1>1 DEF ResolveFamily
    <2>2. Fits(r) /\ ~r.in
      BY <1>1, <1>2 DEF ResolveFamily, Fits, Others, Sockets
    <2> HIDE DEF r
    <2> QED  BY <1>1, <2>1, <2>2, OneSocket
  <1>3. CASE Joins(k)
    <2>1. CASE old.pc = "read" /\ sock' = [sock EXCEPT ![k] = [Registered(@) EXCEPT !.pc = "up"]]
      <3> DEFINE r == [Registered(old) EXCEPT !.pc = "up"]
      <3>2. Fits(r) /\ r.late = (r.family # family)
        BY <1>1, ServerEndFits
      <3>3. sock' = [sock EXCEPT ![k] = r]
        BY <2>1
      <3> HIDE DEF r
      <3> QED  BY <3>2, <3>3, <1>1, OneSocket
    <2>2. CASE old.pc = "up" /\ sock' = [sock EXCEPT ![k] = [WithSnapshot(@) EXCEPT !.pc = "open"]]
      <3> DEFINE g == WithSnapshot(old)
                 r == [g EXCEPT !.pc = "open"]
      <3>1. Fits(g) /\ g.in = old.in /\ g.late = old.late /\ g.family = old.family
        BY <1>1, ServerEndFits
      <3>2. Fits(r) /\ r.in = old.in /\ r.late = old.late /\ r.family = old.family
        <4> HIDE DEF g
        <4> QED  BY <3>1 DEF Fits, Sockets
      <3>3. sock' = [sock EXCEPT ![k] = r]
        BY <2>2, <1>1
      <3> HIDE DEF r
      <3> QED  BY <3>2, <3>3, <1>1, OneSocket
    <2> QED  BY <1>3, <2>1, <2>2 DEF Joins
  <1>4. CASE WriteFrame(k)
    <2>1. old.send \in Seq(Frame) /\ old.send # <<>> /\ old.wire \in Seq(Frame)
          /\ Len(old.send) <= Buffer
      BY <1>1, <1>4 DEF WriteFrame, Fits, Sockets
    <2>2. Head(old.send) \in Frame /\ Tail(old.send) \in Seq(Frame)
          /\ Len(Tail(old.send)) = Len(old.send) - 1 /\ Len(old.send) \in Nat
      BY <2>1, TailIsTyped
    <2> DEFINE q == IF old.net = "live" THEN Append(old.wire, Head(old.send)) ELSE old.wire
               r == [old EXCEPT !.send = Tail(old.send), !.wire = q]
    <2>3. q \in Seq(Frame)
      BY <2>1, <2>2, AppendIsTyped
    <2>4. sock' = [sock EXCEPT ![k] = r]
      BY <1>4, <1>1 DEF WriteFrame
    <2>5. Fits(r) /\ r.in = old.in /\ r.late = old.late /\ r.family = old.family
      <3> HIDE DEF q
      <3>1. r \in Sockets /\ r.send = Tail(old.send) /\ r.pc = old.pc
            /\ r.in = old.in /\ r.late = old.late /\ r.family = old.family
        BY <1>1, <2>2, <2>3 DEF Sockets
      <3> HIDE DEF r
      <3> QED  BY <1>1, <2>1, <2>2, <3>1 DEF Fits
    <2> HIDE DEF r
    <2> QED  BY <1>1, <2>4, <2>5, OneSocket
  <1>5. CASE Heartbeat(k)
    <2>1. sock' = [sock EXCEPT ![k] = Closed(old)]
      BY <1>5 DEF Heartbeat
    <2> QED  BY <1>1, <2>1, ClosedFits, OneSocket
  <1>6. CASE Return(k)
    <2>1. sock' = [sock EXCEPT ![k] = Ended(old)]
      BY <1>6 DEF Return
    <2> QED  BY <1>1, <2>1, EndedFits, OneSocket
  <1> QED  BY <1>2, <1>3, <1>4, <1>5, <1>6 DEF Stream

(* The faults that rewrite one socket or every socket.                     *)
LEMMA FaultKeepsStreams ==
    ASSUME Streams, Others, Fault
    PROVE  Streams'
  <1>0. /\ sock \in [Conns -> Sockets] /\ family' = family
        /\ \A k \in Conns : Fits(sock[k]) /\ Follows(sock[k])
    BY DEF Streams, Fault
  <1>1. CASE ConnectionLost
    <2>1. PICK k \in Conns : \E n \in {"silent", "cut"} :
              sock' = [sock EXCEPT ![k].net = n, ![k].wire = <<>>]
      BY <1>1 DEF ConnectionLost
    <2>2. PICK n \in {"silent", "cut"} : sock' = [sock EXCEPT ![k].net = n, ![k].wire = <<>>]
      BY <2>1
    <2> DEFINE r == [sock[k] EXCEPT !.wire = <<>>, !.net = n]
    <2>3. sock' = [sock EXCEPT ![k] = r]
      BY <2>2, <1>0 DEF Sockets
    <2>4. Fits(r) /\ r.in = sock[k].in /\ r.late = sock[k].late /\ r.family = sock[k].family
      <3>1. Fits(sock[k]) /\ n \in {"live", "silent", "cut"} /\ <<>> \in Seq(Frame)
        BY <1>0, EmptyIsTyped
      <3> QED  BY <3>1 DEF Fits, Sockets
    <2>5. UNCHANGED moving
      BY <1>1 DEF ConnectionLost
    <2> HIDE DEF r
    <2> QED  BY <1>0, <2>3, <2>4, <2>5, OneSocket
  <1>2. CASE SnapshotFails
    <2>1. PICK k \in Conns : sock' = [sock EXCEPT ![k] = Closed(@)]
      BY <1>2 DEF SnapshotFails
    <2>2. sock' = [sock EXCEPT ![k] = Closed(sock[k])]
      BY <2>1
    <2> QED  BY <1>0, <1>2, <2>2, ClosedFits, OneSocket DEF SnapshotFails
  <1>3. CASE FetchFails \/ RefreshMembers
    <2>1. UNCHANGED <<sock, moving>>
      BY <1>3, Zenon DEF FetchFails, RefreshMembers
    <2> QED  BY <1>0, <2>1, SameSockets
  <1>4. CASE TokenUnreadable
    <2>1. sock' = TornDown /\ moving' = moving
      BY <1>4, Zenon DEF TokenUnreadable
    <2> QED  BY <1>0, <2>1, TornDownStreams
  <1>5. CASE Restart
    <2>1. sock' = [k \in Conns |-> Ended(sock[k])]
      BY <1>5 DEF Restart
    <2>2. ASSUME NEW k \in Conns
          PROVE  sock'[k] \in Sockets /\ Fits(sock'[k]) /\ ~sock'[k].in
      BY <1>0, <2>1, EndedFits DEF Fits
    <2> QED  BY <2>1, <2>2 DEF Streams, Follows, Fits
  <1>6. CASE ForceReconnect
    <2>1. PICK k \in Conns : Connect(k)
      BY <1>6 DEF ForceReconnect
    <2> QED  BY <1>0, <1>6, <2>1, ConnectKeeps DEF ForceReconnect
  <1> QED  BY <1>1, <1>2, <1>3, <1>4, <1>5, <1>6 DEF Fault

LEMMA MoveKeepsStreams ==
    ASSUME Streams, Others, MovesUser(moving)
    PROVE  Streams'
  <1>0. sock \in [Conns -> Sockets] /\ \A k \in Conns : Fits(sock[k])
    BY DEF Streams
  <1>1. CASE ~moving /\ SetFamily /\ moving' = TRUE /\ UNCHANGED sock
    BY <1>0, <1>1 DEF Streams, Follows, Fits
  <1>2. CASE moving /\ DisconnectFamilyUser
    <2>1. sock' = [k \in Conns |-> IF sock[k].in THEN Dropped(sock[k]) ELSE sock[k]]
      BY <1>2 DEF DisconnectFamilyUser
    <2>2. ASSUME NEW k \in Conns
          PROVE  sock'[k] \in Sockets /\ Fits(sock'[k]) /\ ~sock'[k].in
      BY <1>0, <2>1, DroppedFits DEF Fits, Sockets
    <2> QED  BY <2>1, <2>2 DEF Streams, Follows, Fits
  <1> QED  BY <1>1, <1>2 DEF MovesUser

LEMMA SendKeepsStreams ==
    ASSUME Streams, Others, NEW v \in Versions, NEW k \in Conns, SendTo(v, k)
    PROVE  Streams'
  <1> DEFINE f == [type |-> "avatar", version |-> v]
  <1>1. f \in Frame
    BY DEF Frame, Shown, Versions, Absent
  <1>2. sock' = [sock EXCEPT ![k] = Enqueued(sock[k], f)] /\ UNCHANGED <<family, moving>>
    BY DEF SendTo
  <1>3. Fits(sock[k])
    BY DEF Streams
  <1> HIDE DEF f
  <1> QED  BY <1>1, <1>2, <1>3, EnqueuedFits, OneSocket

-----------------------------------------------------------------------------
LEMMA InitSound == Init => Streams /\ Others
  <1> SUFFICES ASSUME Init PROVE Streams /\ Others
    OBVIOUS
  <1>1. Streams
    BY UnusedFits DEF Init, Streams, Follows, Fits
  <1>2. Others
    <2>1. Quiet \in Requests
      BY DEF Quiet, Requests, Shown, Absent
    <2>2. NoCast \in [due: BOOLEAN, todo: SUBSET Conns]
      BY DEF NoCast
    <2>3. cast \in [Versions -> [due: BOOLEAN, todo: SUBSET Conns]] /\ fetch \in [Fetches -> Requests]
      BY <2>1, <2>2 DEF Init
    <2>4. /\ avatar \in 0 .. MaxVersion /\ view \in Shown
          /\ moves \in 0 .. MaxMoves /\ faults \in 0 .. MaxFaults
      BY DEF Init, Shown, Absent
    <2>5. family \in FamilyIds /\ moving \in BOOLEAN /\ timer \in BOOLEAN /\ chan \in Conns \cup {0}
      BY DEF Init, FamilyIds
    <2> QED  BY <2>3, <2>4, <2>5 DEF Others
  <1> QED  BY <1>1, <1>2

LEMMA StepKeepsStreams ==
    ASSUME Streams, Others, Next
    PROVE  Streams'
  <1>1. CASE PutProfileAvatar \/ \E v \in Versions : BroadcastAvatarUpdate(v)
    BY <1>1 DEF PutProfileAvatar, BroadcastAvatarUpdate, Streams, Follows, Fits
  <1>2. CASE \E v \in Versions : \E k \in Conns : SendTo(v, k)
    BY <1>2, SendKeepsStreams
  <1>3. CASE MovesUser(moving)
    BY <1>3, MoveKeepsStreams
  <1>4. CASE \E k \in Conns : Stream(k) \/ OnFrame(k)
    BY <1>4, StreamKeeps, FrameIsRead
  <1>5. CASE ScheduleReconnect
    BY <1>5, TornDownStreams DEF ScheduleReconnect, server
  <1>6. CASE \E x \in Fetches : TimerFires(x) \/ FetchServed(x) \/ FetchApplied(x)
    <2>1. UNCHANGED <<sock, family, moving>>
      BY <1>6 DEF TimerFires, FetchServed, FetchApplied, server
    <2> QED  BY <2>1, SameSockets
  <1>7. CASE \E x \in Fetches : Reconnect(x)
    <2>1. PICK k \in Conns : Connect(k)
      BY <1>7 DEF Reconnect
    <2>2. UNCHANGED <<family, moving>>
      BY <1>7 DEF Reconnect, server
    <2> QED  BY <2>1, <2>2, ConnectKeeps
  <1>8. CASE Fault
    BY <1>8, FaultKeepsStreams
  <1> QED  BY <1>1, <1>2, <1>3, <1>4, <1>5, <1>6, <1>7, <1>8 DEF Next, Cast, Fetching

LEMMA FetchesAreTyped ==
    ASSUME Others, NEW x \in Fetches
    PROVE  /\ AfterFetch(x) \in [Fetches -> Requests]
           /\ [fetch EXCEPT ![x] = Quiet] \in [Fetches -> Requests]
           /\ \A repair \in BOOLEAN : Begin(x, repair) => fetch' \in [Fetches -> Requests]
           /\ FetchServed(x) => fetch' \in [Fetches -> Requests]
           /\ \A v \in Shown : Reconciled(v) \in Shown
           /\ fetch[x].version \in Shown
  <1>1. fetch \in [Fetches -> Requests] /\ fetch[x] \in Requests /\ Quiet \in Requests
        /\ avatar \in Shown /\ Absent \in Shown /\ view \in Shown
    BY DEF Others, Quiet, Requests, Shown, Absent
  <1>2. [Quiet EXCEPT !.pc = "connect"] \in Requests
        /\ \A repair \in BOOLEAN : [Quiet EXCEPT !.pc = "sent", !.repair = repair] \in Requests
    BY <1>1 DEF Requests
  <1>3. AfterFetch(x) \in [Fetches -> Requests] /\ [fetch EXCEPT ![x] = Quiet] \in [Fetches -> Requests]
    BY <1>1, <1>2 DEF AfterFetch
  <1>4. ASSUME NEW repair \in BOOLEAN, Begin(x, repair) PROVE fetch' \in [Fetches -> Requests]
    BY <1>1, <1>2, <1>4 DEF Begin
  <1>5. ASSUME FetchServed(x) PROVE fetch' \in [Fetches -> Requests]
    BY <1>1, <1>5 DEF FetchServed, Requests
  <1>6. \A v \in Shown : Reconciled(v) \in Shown
    BY <1>1 DEF Reconciled
  <1> QED  BY <1>1, <1>3, <1>4, <1>5, <1>6 DEF Requests

LEMMA StepKeepsOthers ==
    ASSUME Streams, Others, Next
    PROVE  Others'
  <1> USE DEF Others
  <1>1. CASE PutProfileAvatar
    <2>1. avatar' \in 0 .. MaxVersion
      BY <1>1 DEF PutProfileAvatar
    <2>2. cast' \in [Versions -> [due: BOOLEAN, todo: SUBSET Conns]]
      BY <1>1 DEF PutProfileAvatar
    <2> QED  BY <1>1, <2>1, <2>2 DEF PutProfileAvatar, client
  <1>2. ASSUME NEW v \in Versions, Cast(v) PROVE Others'
    <2>1. CASE BroadcastAvatarUpdate(v)
      <3>1. {k \in Conns : sock[k].in /\ sock[k].family = "home"} \in SUBSET Conns
        OBVIOUS
      <3>2. cast' \in [Versions -> [due: BOOLEAN, todo: SUBSET Conns]]
        BY <2>1, <3>1 DEF BroadcastAvatarUpdate
      <3> QED  BY <2>1, <3>2 DEF BroadcastAvatarUpdate, client
    <2>2. ASSUME NEW k \in Conns, SendTo(v, k) PROVE Others'
      <3>1. cast' \in [Versions -> [due: BOOLEAN, todo: SUBSET Conns]]
        BY <2>2 DEF SendTo
      <3> QED  BY <2>2, <3>1 DEF SendTo, client
    <2> QED  BY <1>2, <2>1, <2>2 DEF Cast
  <1>3. CASE MovesUser(moving)
    <2>1. CASE SetFamily /\ moving' = TRUE
      BY <2>1 DEF SetFamily, client
    <2>2. CASE DisconnectFamilyUser /\ moving' = FALSE /\ UNCHANGED <<family, moves>>
      BY <2>2 DEF DisconnectFamilyUser, client
    <2> QED  BY <1>3, <2>1, <2>2 DEF MovesUser
  <1>4. ASSUME NEW k \in Conns, Stream(k) PROVE Others'
    BY <1>4 DEF Stream, client, server
  <1>5. ASSUME NEW k \in Conns, OnFrame(k) PROVE Others'
    <2>1. view' \in Shown
      BY <1>5, FrameIsRead
    <2> QED  BY <1>5, <2>1 DEF OnFrame, server
  <1>6. CASE ScheduleReconnect
    BY <1>6 DEF ScheduleReconnect, server
  <1>7. ASSUME NEW x \in Fetches, TimerFires(x) \/ FetchServed(x) \/ FetchApplied(x) PROVE Others'
    <2>1. fetch' \in [Fetches -> Requests]
      BY <1>7, FetchesAreTyped DEF TimerFires, FetchApplied
    <2>2. CASE TimerFires(x)
      BY <2>1, <2>2 DEF TimerFires, server
    <2>3. CASE FetchServed(x)
      BY <2>1, <2>3 DEF FetchServed, server
    <2>4. CASE FetchApplied(x)
      <3>1. view' \in Shown
        BY <2>4, FetchesAreTyped DEF FetchApplied
      <3> QED  BY <2>1, <2>4, <3>1 DEF FetchApplied, server
    <2> QED  BY <1>7, <2>2, <2>3, <2>4
  <1>8. ASSUME NEW x \in Fetches, Reconnect(x) PROVE Others'
    <2>1. chan' \in Conns
      BY <1>8 DEF Reconnect, Connect
    <2> QED  BY <1>8, <2>1, FetchesAreTyped DEF Reconnect, server
  <1>9. CASE Fault
    <2>1. faults' \in 0 .. MaxFaults /\ UNCHANGED <<avatar, family, moves>>
      BY <1>9 DEF Fault
    <2>2. CASE ConnectionLost \/ SnapshotFails \/ Restart
      <3>1. CASE ConnectionLost \/ SnapshotFails
        BY <2>1, <3>1 DEF ConnectionLost, SnapshotFails, client
      <3>2. CASE Restart
        <4>1. cast' \in [Versions -> [due: BOOLEAN, todo: SUBSET Conns]]
          BY <3>2 DEF Restart, NoCast
        <4> QED  BY <2>1, <3>2, <4>1 DEF Restart, client
      <3> QED  BY <2>2, <3>1, <3>2
    <2>3. CASE FetchFails \/ RefreshMembers \/ TokenUnreadable
      <3>1. CASE FetchFails
        BY <2>1, <3>1, FetchesAreTyped DEF FetchFails
      <3>2. CASE RefreshMembers
        BY <2>1, <3>2, FetchesAreTyped DEF RefreshMembers
      <3>3. CASE TokenUnreadable
        BY <2>1, <3>3, FetchesAreTyped DEF TokenUnreadable
      <3> QED  BY <2>3, <3>1, <3>2, <3>3
    <2>4. CASE ForceReconnect
      BY <2>1, <2>4 DEF ForceReconnect, Connect
    <2> QED  BY <1>9, <2>2, <2>3, <2>4 DEF Fault
  <1> QED  BY <1>1, <1>2, <1>3, <1>4, <1>5, <1>6, <1>7, <1>8, <1>9 DEF Next, Fetching

LEMMA Soundness == Spec => [](Streams /\ Others)
  <1>1. ASSUME Streams /\ Others, [Next]_vars PROVE (Streams /\ Others)'
    <2>1. CASE Next
      BY <1>1, <2>1, StepKeepsStreams, StepKeepsOthers
    <2>2. CASE UNCHANGED vars
      BY <1>1, <2>2 DEF vars, Streams, Others, Follows, Fits
    <2> QED  BY <1>1, <2>1, <2>2
  <1> QED  BY <1>1, InitSound, PTL DEF Spec

(* Every variable has its type, and no buffer outgrows clientSendBuffer,   *)
(* whatever the number of sockets and the order of broadcasts.             *)
THEOREM TypeCorrect == Spec => []TypeOK
  <1>1. Streams /\ Others => TypeOK
    BY PartsAreAll
  <1> QED  BY <1>1, Soundness, PTL

(* disconnectFamilyUser after the commit is enough: whatever streams are   *)
(* opened, registered, dropped or left over while a viewer is moved, none  *)
(* that was of the viewer's family when it registered outlives the move.   *)
THEOREM StreamsEndWithAMove == Spec => []StreamsFollowMoves
  <1>1. Streams /\ Others => StreamsFollowMoves
    BY PartsAreAll
  <1> QED  BY <1>1, Soundness, PTL

(* The comparison of versions in _replaceMembers and in the handler of     *)
(* frames is enough: however frames, snapshots and fetches overtake each   *)
(* other, the photo shown of a member who stays listed grows no older.     *)
THEOREM NewerPhotosStay == Spec => AvatarNeverRegresses
  <1>1. ASSUME Streams /\ Others, [Next]_vars
        PROVE  [view # Absent /\ view' # Absent => view' >= view]_vars
    <2>1. view \in Int
      BY <1>1 DEF Others, Shown, Absent
    <2>2. ASSUME NEW k \in Conns, OnFrame(k)
          PROVE  view # Absent /\ view' # Absent => view' >= view
      BY <1>1, <2>2, FrameIsRead
    <2>3. ASSUME NEW x \in Fetches, FetchApplied(x)
          PROVE  view # Absent /\ view' # Absent => view' >= view
      <3>1. fetch[x].version \in Int
        BY <1>1 DEF Others, Requests, Shown, Absent
      <3> QED  BY <2>1, <2>3, <3>1 DEF FetchApplied, Reconciled, Absent
    <2>4. CASE UNCHANGED view
      BY <2>1, <2>4
    <2>5. \/ UNCHANGED view
          \/ \E k \in Conns : OnFrame(k)
          \/ \E x \in Fetches : FetchApplied(x)
      BY <1>1 DEF Next, vars, client, PutProfileAvatar, Cast, BroadcastAvatarUpdate, SendTo,
           MovesUser, SetFamily, DisconnectFamilyUser, Stream, ScheduleReconnect, TimerFires,
           Fetching, FetchServed, Reconnect, Fault, ConnectionLost, SnapshotFails, FetchFails,
           TokenUnreadable, Restart, RefreshMembers, ForceReconnect
    <2> QED  BY <2>2, <2>3, <2>4, <2>5
  <1> QED  BY <1>1, Soundness, PTL DEF Spec, AvatarNeverRegresses
=============================================================================
