------------------------------- MODULE MC_Boot -------------------------------
(* Two and a half pages in half-page granules, maps of up to two entries   *)
(* and up to two module tags, so that a module other than the initramfs   *)
(* can precede it.                                                         *)
EXTENDS Boot
=============================================================================
