--------------------------- MODULE MCSiteMigrate ----------------------------
(***************************************************************************)
(* Instances of SiteMigrate for TLC: two builds, one after the other, and  *)
(* two visitors.                                                           *)
(***************************************************************************)
EXTENDS SiteMigrate

CONSTANTS old, new, v1, v2
=============================================================================
