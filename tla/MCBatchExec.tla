------------------------------ MODULE MCBatchExec -----------------------------
(***************************************************************************)
(* Small instances of BatchExec for TLC.  Transactions go unnamed here:    *)
(* MCSession has the names.                                                *)
(***************************************************************************)
EXTENDS BatchExec

NoNames  == {}
NoFold   == [n \in {} |-> n]
BeginEnd == {"begin", "commit"}
Failing  == {DivideByZero, ConversionFailed, InvalidObjectName, Unsupported}
===============================================================================
