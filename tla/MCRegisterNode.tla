---------------------------- MODULE MCRegisterNode ----------------------------
(* RegisterNode on small instances.                                        *)
EXTENDS RegisterNode, TLC

MCTees == 1 .. 2
MCImages == 1 :> 1 @@ 2 :> 2
MCVersions == 1 .. 3
MCCommands == {{"r"}, {"p"}, {"a", "p"}, Committed, Edited}
=============================================================================
