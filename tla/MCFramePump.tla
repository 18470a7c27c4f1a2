----------------------------- MODULE MCFramePump ----------------------------
(* The animation of spec section 8, scenario 3: three frames declaring     *)
(* 100, 200 and 150 ms.                                                    *)
EXTENDS FramePump

MCDeclared == << 100, 200, 150 >>

=============================================================================
