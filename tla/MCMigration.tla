---------------------------- MODULE MCMigration ----------------------------
(* An instance of Migration for TLC: a collection of three rows, another   *)
(* of one, and one that is left out.                                       *)
EXTENDS Migration, TLC

CONSTANTS users, posts, logs

TheRows == (users :> <<1, 3, 4>>) @@ (posts :> <<2>>) @@ (logs :> <<>>)

Row(body, createdAt, updatedAt, lastModified) ==
  [body |-> body, createdAt |-> createdAt, updatedAt |-> updatedAt,
   lastModified |-> lastModified]

TheFields == <<
  Row("converts", "converts", "converts", "converts"),
  Row("converts", "beyond", "absent", "converts"),
  Row("beyond", "converts", "absent", "converts"),
  Row("converts", "absent", "converts", "absent")>>

=============================================================================
