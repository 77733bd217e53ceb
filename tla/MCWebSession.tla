----------------------------- MODULE MCWebSession -----------------------------
(* Two tabs of one browser and two accounts that take turns; one password  *)
(* is changed.  No property tells the tabs, or the accounts, apart.        *)
EXTENDS WebSession, WebApi, TLC

Alike == Permutations(Tabs) \cup Permutations(Accounts)
=============================================================================
