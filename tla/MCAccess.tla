------------------------------ MODULE MCAccess ------------------------------
(***************************************************************************)
(* Small instances of Access.                                              *)
(***************************************************************************)
EXTENDS Access

Grant(r, p) == [role |-> r, permission |-> p]

\* Both permissions through one role, and one of them through either.
SmallGrants == {Grant("ADMIN", "products:read"), Grant("VENDOR", "products:read"),
                Grant("VENDOR", "inventory:adjust")}
============================================================================
