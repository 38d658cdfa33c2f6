--------------------------- MODULE MCClusterImport ---------------------------
(* Model values for ClusterImport. *)
EXTENDS ClusterImport

CONSTANTS n1, n2, admin, u2

MCNodes == {n1, n2}

\* Two users with a setting: admin reached by email, u2 by no channel; an
\* enabled email account; the System subscription of ClusterImport has
\* both users, Local and email.
MCUsers == {admin, u2}
MCReach == [u \in MCUsers |-> IF u = admin THEN {"email"} ELSE {}]
MCAccounts == {"email"}
MCSystemSub == [users |-> MCUsers, conf |-> {Local, "email"}]

=============================================================================
