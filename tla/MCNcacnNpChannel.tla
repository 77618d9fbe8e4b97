-------------------------- MODULE MCNcacnNpChannel --------------------------
(* The instance of NcacnNp that is compared with PduChannel.               *)
EXTENDS NcacnNpChannel
=============================================================================
