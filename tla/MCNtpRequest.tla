---------------------------- MODULE MCNtpRequest ----------------------------
(* Up to four answers at once; a request is given up after a tick, an update *)
(* is due after three, and durations count to five.                          *)
EXTENDS NtpRequest, TLC
=============================================================================
