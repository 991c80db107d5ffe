---------------------------- MODULE MCMigration ----------------------------
(* Instances of Migration for TLC.                                         *)
EXTENDS Migration, TLC

ManifestSymmetry == Permutations(Manifests)

============================================================================
