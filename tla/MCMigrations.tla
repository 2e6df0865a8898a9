---------------------------- MODULE MCMigrations ----------------------------
(* Small instances of Migrations for TLC.                                  *)
EXTENDS Migrations, TLC

CONSTANTS m1, m2, m3, r1

\* A release with files 1 and 2, migrated twice at once; a branch that has file
\* 3 instead of 2; a runtime of the first release.
MCReleases == m1 :> {1, 2} @@ m2 :> {1, 2} @@ m3 :> {1, 3} @@ r1 :> {1, 2}
============================================================================
