--------------------------- MODULE MCUpstreamServer ---------------------------
(* TLC instance of UpstreamServer: three requests, so that answers come late  *)
(* and out of order while another request waits for its own.                 *)
EXTENDS UpstreamServer
=============================================================================
