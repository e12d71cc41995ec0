---------------------------- MODULE MCSettings ----------------------------
(***************************************************************************)
(* Small instances of Settings: names with and without a number in them,   *)
(* and mysqlConf of up to two keys, so that one option may come in two     *)
(* spellings.                                                              *)
(***************************************************************************)
EXTENDS Settings

Names == {<<"db">>, <<"db", "1">>}

ThreeNumerals == <<"0", "1", "2">>

UpToTwoKeys == {{}} \cup {{j, k} : j, k \in Keys}

===========================================================================
