------------------------------ MODULE MCBaoToken ------------------------------
(* A lease long enough to be refreshed once or twice within the clock's bound. *)
EXTENDS BaoToken
=============================================================================
