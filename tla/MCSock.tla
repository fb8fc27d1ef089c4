------------------------------- MODULE MCSock -------------------------------
(* Sock with queues of two entries: three requests, one more than a queue   *)
(* takes, meet every way a connection can end.  The client is patient or    *)
(* not; Init chooses.                                                       *)
EXTENDS Sock
=============================================================================
