-------------------------- MODULE MCSeparateDesktop --------------------------
(* Model values for the separate-desktop back-end: two connection ids.    *)
EXTENDS SeparateDesktop

MCConnIds == {1, 2}

=============================================================================
