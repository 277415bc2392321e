---------------------------- MODULE MCMigrations ----------------------------
(* Instances of Migrations for TLC. *)
EXTENDS Migrations

CONSTANTS j1, j2

Opt(fresh, force, step) == [fresh |-> fresh, force |-> force, step |-> step]

(* Install, go up or down, start afresh, force a step; -2 is out of range. *)
AllOptions ==
  { Opt(FALSE, -1, 1), Opt(FALSE, -1, 2), Opt(FALSE, -1, 3), Opt(TRUE, -1, 3),
    Opt(FALSE, 1, 3), Opt(FALSE, 0, 3), Opt(FALSE, -2, 3), Opt(FALSE, -1, 0) }
(* No version is forced by the one who calls bss-init.                     *)
InstallOptions == { Opt(FALSE, -1, 2), Opt(FALSE, -1, 3) }

DefaultOptions == { Opt(FALSE, -1, SchemaSteps) }
=============================================================================
