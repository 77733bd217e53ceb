---------------------------- MODULE MCMembership ----------------------------
(* a and b lead family 1 with its member g, c leads family 2 alone, d      *)
(* belongs to none; invite k leads to family 2.  Users e, h and i,         *)
(* families 3 and 4 and invites j and l are ids not yet used.              *)
EXTENDS Membership

CONSTANTS a, b, c, d, e, g, h, i, k, j, l

MCUsers == {a, b, c, d, e, g, h, i}
MCFamilies == 1 .. 4
MCCodes == {j, k, l}

Member(there, f, r) == [there |-> there, family |-> f, role |-> r]
MCStartUsers == [u \in MCUsers |->
    CASE u \in {a, b} -> Member(TRUE, 1, "admin")
      [] u = g -> Member(TRUE, 1, "member")
      [] u = c -> Member(TRUE, 2, "admin")
      [] u = d -> Member(TRUE, None, "member")
      [] OTHER -> Member(FALSE, None, "member")]
MCStartCodes == [x \in MCCodes |->
    [there |-> x = k, family |-> IF x = k THEN 2 ELSE None, role |-> "member", uses |-> 0]]

R(op, u, by, f, r, x) == [op |-> op, user |-> u, by |-> by, family |-> f, role |-> r, code |-> x]

(* TLC evaluates the value given to a constant at every use, and that of a *)
(* definition once.                                                        *)
Table == <<
     R("role", a, b, None, "member", None), R("role", g, a, None, "admin", None),
     R("leave", a, None, None, "member", None),
     R("delete", a, None, None, "member", None), R("delete", c, None, None, "member", None),
     R("create", a, None, 3, "member", None), R("newFamily", None, None, 4, "member", None),
     R("setRole", a, None, None, "member", None), R("assign", a, None, 2, "member", None),
     R("assign", c, None, 1, "member", None), R("assign", b, None, None, "member", None),
     R("move", a, None, 2, "admin", None), R("join", d, None, None, "member", k),
     R("register", e, None, None, "member", k), R("register", h, None, None, "member", None),
     R("createUser", i, None, 2, "member", None), R("invite", None, a, None, "admin", j),
     R("adminInvite", None, None, 2, "member", l), R("deleteFamily", None, None, 2, "member", None) >>
MCReq == Table
=============================================================================
