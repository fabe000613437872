---------------------------- MODULE MCRpcSession ----------------------------
EXTENDS RpcSession
CONSTANTS c1, c2
=============================================================================
