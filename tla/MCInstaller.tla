---------------------------- MODULE MCInstaller ----------------------------
(* The bounds of the installer's runs are in their configurations. *)
EXTENDS Installer
=============================================================================
