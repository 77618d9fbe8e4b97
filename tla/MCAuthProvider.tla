--------------------------- MODULE MCAuthProvider ---------------------------
(* A small instance of AuthProvider.                                       *)
EXTENDS AuthProvider
=============================================================================
