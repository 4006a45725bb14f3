----------------------------- MODULE MCInstaller -----------------------------
(***************************************************************************)
(* Small instances of Installer.                                           *)
(***************************************************************************)
EXTENDS Installer, TLC
=============================================================================
