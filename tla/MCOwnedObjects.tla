-------------------------- MODULE MCOwnedObjects --------------------------
(***************************************************************************)
(* A small instance of OwnedObjects: the user may have made a replication  *)
(* Secret with the password alone, with one PEM file without the other, or *)
(* with a key pair and no password.                                        *)
(***************************************************************************)
EXTENDS OwnedObjects

SomeKeys ==
  [root |-> {}, repl |-> {{"password"}, {"password", "public"}, {"private", "public"}}]

===========================================================================
