------------------------------ MODULE WebClusters ------------------------------
(***************************************************************************)
(* The bubbles of the panel's map (clustering.ts) and its camera           *)
(* (MapView.tsx): members whose bubbles overlap at the zoom are drawn as   *)
(* one, unless the user has expanded it.  Spots lie on a line; a zoom      *)
(* level doubles the distances on the screen.                              *)
(***************************************************************************)
EXTENDS Integers, Sequences, FiniteSets

CONSTANTS
    People,         \* the members, in the order of the list
    FamilyOf,       \* the family of each
    Spots,          \* places, as numbers
    Radius,         \* CLUSTER_RADIUS_PX
    MaxZoom, RecenterZoom, ExpandZoom

Folk == {People[i] : i \in 1 .. Len(People)}

ASSUME ClustersAssumption ==
    /\ People \in Seq(Folk)
    /\ Spots \subseteq Nat /\ Radius \in Nat
    /\ {MaxZoom, RecenterZoom, ExpandZoom} \subseteq Nat
    /\ RecenterZoom <= ExpandZoom /\ ExpandZoom <= MaxZoom

NoSpot == -1
All == "all"

VARIABLES
    view            \* the map: where the members are, what is shown of them

NoView == [mounted |-> FALSE, where |-> [p \in Folk |-> NoSpot], filter |-> All, zoom |-> 0,
           flight |-> {}, expanded |-> {}, fitted |-> FALSE, request |-> {}, asked |-> {}]

ViewInit == view = NoView

-----------------------------------------------------------------------------
(* clustering.ts.                                                          *)

Distance(v, p, q) ==
    LET d == v.where[p] - v.where[q] IN (IF d < 0 THEN -d ELSE d) * 2 ^ v.zoom
Near(v, p, q) == Distance(v, p, q) <= Radius

VisibleMembers(v) ==
    {p \in Folk : v.where[p] # NoSpot /\ (v.filter = All \/ FamilyOf[p] = v.filter)}

Groups == SUBSET Folk

(* A loop: what its body makes of `start` in each of its rounds.           *)
Rounds(body, start) ==
    LET after[n \in Nat] == IF n = 0 THEN start ELSE body[n][after[n - 1]] IN after

(* One pass of the inner loop over who remains, from the end of the list.  *)
Joins(v, rest) ==
    [n \in Nat |-> [group \in Groups |->
        group \cup {m \in rest : /\ n \in 1 .. Len(People)
                                 /\ m = People[Len(People) + 1 - n]
                                 /\ \E g \in group : Near(v, g, m)}]]
Pass(v, rest, group) == Rounds(Joins(v, rest), group)[Len(People)]

(* Mutant: one pass, whoever comes near by it.                             *)
GrownOnce(v, seed, rest) == Pass(v, rest, {seed})

(* Until nobody joins.                                                     *)
Passes(v, seed, rest) ==
    Rounds([n \in Nat |-> [group \in Groups |-> Pass(v, rest, group)]], {seed})
Grown(v, seed, rest) ==
    LET group == Passes(v, seed, rest)
    IN  group[CHOOSE n \in 0 .. Len(People) : group[n + 1] = group[n]]

(* The outer loop: the cluster of the first of who remains.                *)
Seed(rest) ==
    People[CHOOSE i \in 1 .. Len(People) :
              People[i] \in rest /\ \A j \in 1 .. i - 1 : People[j] \notin rest]
Cluster(v, rest) == Grown(v, Seed(rest), rest)
Parts == [rest : Groups, clusters : SUBSET Groups]
Split(v) ==
    [n \in Nat |-> [s \in Parts |->
        IF s.rest = {} THEN s
        ELSE LET cluster == Cluster(v, s.rest)
             IN  [rest |-> s.rest \ cluster, clusters |-> s.clusters \cup {cluster}]]]

(* clusterMembers, of members that have a position.                        *)
Clusters(v) ==
    Rounds(Split(v), [rest |-> VisibleMembers(v), clusters |-> {}])[Len(People)].clusters

(* placeBubbles: a lone member and those of an expanded cluster have each  *)
(* a bubble of their own.                                                  *)
PlaceBubbles(v) ==
    UNION {IF Cardinality(c) = 1 \/ c \in v.expanded THEN {{p} : p \in c} ELSE {c} :
           c \in Clusters(v)}

-----------------------------------------------------------------------------
(* MapView's effects.                                                      *)

(* On a zoomend: a lower zoom collapses what is expanded.                  *)
Zoomed(v, zoom) ==
    [v EXCEPT !.zoom = zoom, !.flight = {}, !.expanded = IF zoom < v.zoom THEN {} ELSE @]

(* On a change of the members shown: expanded clusters that are none any   *)
(* more are dropped, and the first members to have a position are fitted.  *)
Pruned(v) == [v EXCEPT !.expanded = {c \in @ : c \in Clusters(v) /\ Cardinality(c) > 1}]
Fits(v) ==
    IF v.fitted \/ VisibleMembers(v) = {} THEN {v}
    ELSE {Zoomed([v EXCEPT !.fitted = TRUE], zoom) :
          zoom \in IF Cardinality(VisibleMembers(v)) = 1 THEN {RecenterZoom} ELSE 0 .. MaxZoom}
Changed(v) == Fits(Pruned(v))

MountView ==
    /\ ~view.mounted
    /\ view' = [NoView EXCEPT !.mounted = TRUE]

UnmountView == view.mounted /\ view' = NoView

MemberMoves ==
    /\ view.mounted
    /\ \E p \in Folk, spot \in Spots :
          view' \in Changed([view EXCEPT !.where[p] = spot])

SetGroup ==
    /\ view.mounted
    /\ \E f \in {All} \cup {FamilyOf[p] : p \in Folk} :
          view' \in Changed([view EXCEPT !.filter = f])

UserZooms ==
    /\ view.mounted
    /\ \E zoom \in 0 .. MaxZoom : view' = Zoomed(view, zoom)

(* expandCluster.                                                          *)
ExpandCluster ==
    /\ \E c \in PlaceBubbles(view) :
          /\ Cardinality(c) > 1
          /\ view' = [view EXCEPT !.expanded = @ \cup {c}, !.flight = {ExpandZoom}]

RecenterOn ==
    /\ \E p \in VisibleMembers(view) :
          view' = [view EXCEPT !.flight = {IF view.zoom > RecenterZoom THEN view.zoom ELSE RecenterZoom}]

FlightEnds == \E zoom \in view.flight : view' = Zoomed(view, zoom)

(* requestMemberLocation, requestSelectedLocation: one request is shown,   *)
(* and an answer, or its failure, shows the message of its own member.     *)
RequestLocation ==
    /\ \E p \in VisibleMembers(view) :
          /\ p \notin view.asked
          /\ view' = [view EXCEPT !.asked = @ \cup {p},
                                  !.request = {[member |-> p, sending |-> TRUE]}]

RequestAnswered ==
    \E p \in view.asked :
       view' = [view EXCEPT !.asked = @ \ {p}, !.request = {[member |-> p, sending |-> FALSE]}]

ViewNext ==
    \/ MemberMoves \/ SetGroup \/ UserZooms \/ ExpandCluster \/ RecenterOn \/ FlightEnds
    \/ RequestLocation \/ RequestAnswered

ViewSpec == ViewInit /\ [][ViewNext \/ MountView \/ UnmountView]_view

-----------------------------------------------------------------------------
(* The groups that are closed under nearness, and of them the smallest.    *)
ClosedGroups(v) ==
    LET shown == VisibleMembers(v)
    IN  {s \in (SUBSET shown) \ {{}} : \A p \in s, q \in shown \ s : ~Near(v, p, q)}
Components(v) == {s \in ClosedGroups(v) : \A r \in ClosedGroups(v) : r \subseteq s => r = s}

(* "members within `clusterRadiusPx` of a group member are merged"         *)
(* (clustering.ts:70): the clusters are the connected components, whatever *)
(* the order of the list; and whatever has moved, been filtered, expanded  *)
(* or zoomed, every member that is shown and has a position is in exactly  *)
(* one bubble.                                                             *)
BubblesCoverMembers ==
    /\ Clusters(view) = Components(view)
    /\ \A p \in VisibleMembers(view) :
          Cardinality({b \in PlaceBubbles(view) : p \in b}) = 1

(* Violated: "the programmatic expand zoom-in never re-collapses the       *)
(* cluster the user just opened" (MapView.tsx:604-605): above EXPAND_ZOOM  *)
(* the flight zooms out.                                                   *)
ExpandedStaysOpen ==
    [][FlightEnds /\ view.flight = {ExpandZoom}
       => \A c \in view.expanded : c \in Clusters(view') => c \in view'.expanded]_view
=============================================================================
