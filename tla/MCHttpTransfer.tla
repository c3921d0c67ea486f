--------------------------- MODULE MCHttpTransfer ---------------------------
(* TLC instance of HttpTransfer: any three requests in a row with the same *)
(* handle, replies of up to two bytes cut into callbacks in every way.     *)
EXTENDS HttpTransfer
=============================================================================
