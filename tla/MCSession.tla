------------------------------- MODULE MCSession ------------------------------
(***************************************************************************)
(* Small instances of Session for TLC: a name, the same in other letters,  *)
(* and one the grammar of a transaction name does not read.                *)
(***************************************************************************)
EXTENDS Session, TLC

AllNames == {"T", "t", "my-tran"}
Lower    == ("T" :> "t") @@ ("t" :> "t") @@ ("my-tran" :> "my-tran")
Words    == {"T", "t"}
===============================================================================
