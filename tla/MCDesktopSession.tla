-------------------------- MODULE MCDesktopSession --------------------------
(***************************************************************************)
(* Values for checking DesktopSession: three operations of the page can    *)
(* overlap, the first of them initialize(); the other two are alike.       *)
(***************************************************************************)
EXTENDS DesktopSession, TLC

CONSTANTS o1, o2, o3

PageOps == {o1, o2, o3}

OpSymmetry == Permutations({o2, o3})
=============================================================================
