--------------------------- MODULE MCArchiveLoss ---------------------------
(* Archive for TLC, in the instances in which an archive becomes           *)
(* unreadable.                                                             *)
EXTENDS Archive
=============================================================================
