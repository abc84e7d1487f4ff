---------------------------- MODULE MCRpcClient -----------------------------
(* RpcClient with two addresses, and with one that is configured twice.    *)
EXTENDS RpcClient, TLC

CONSTANTS e1, e2

Lists == {<< e1, e2 >>, << e1, e1 >>}
=============================================================================
