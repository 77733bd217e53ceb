------------------------------ MODULE MCWebPanel ------------------------------
(* One instance of every page of the panel.                                *)
EXTENDS WebPanel, TLC

CONSTANTS a, b, c

MCReports == {[spot |-> "road", battery |-> "low", accuracy |-> "poor", motion |-> "driving"]}

(* The road is in the larger place only, the home in both.                 *)
MCPlaces == {[name |-> "Home", covers |-> {"home"}, radius |-> 1],
             [name |-> "Area", covers |-> {"home", "road"}, radius |-> 2]}

MCPeople == <<a, b, c>>
MCFamilyOf == a :> "f" @@ b :> "f" @@ c :> "g"
MCWalkers == {a, b}
MCCircleOf == a :> "f" @@ b :> "g"
=============================================================================
