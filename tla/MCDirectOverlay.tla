-------------------------- MODULE MCDirectOverlay --------------------------
(***************************************************************************)
(* Model-checking instance of DirectOverlay: two connections, so that     *)
(* one can be refused while the other holds privacy mode, and enough      *)
(* session calls for on / off / on again and a Drop with messages still   *)
(* queued.                                                                 *)
(***************************************************************************)
EXTENDS DirectOverlay

MCConnIds == {1, 2}

=============================================================================
