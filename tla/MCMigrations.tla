------------------------------ MODULE MCMigrations ------------------------------
(* Small instances of Migrations: an API process and worker processes, one *)
(* of them from an older image.                                            *)
EXTENDS Migrations, TLC

CONSTANTS api, worker, old

RollingFiles == [p \in Process |-> IF p = old THEN <<1>> ELSE <<1, 2>>]
=============================================================================
