-------------------------- MODULE MCExtensionSetup --------------------------
(* ExtensionSetup on small instances.                                      *)
EXTENDS ExtensionSetup

MCSites == {Good, [Good EXCEPT !.funded = FALSE], [Good EXCEPT !.manager = "zero"],
            [Good EXCEPT !.manager = "nocode"], [Good EXCEPT !.ftso = FALSE],
            [Good EXCEPT !.answers = Queries \ {"balance"}],
            [Good EXCEPT !.answers = Queries \ {"scan"}]}

(* Coston2 without any key of one's own and the proxy down: all warnings.  *)
MCEnv == [key |-> FALSE, ownerKey |-> FALSE, proxyKey |-> FALSE, local |-> "false",
          simulated |-> TRUE, proxy |-> "down", normal |-> "unset", portInUse |-> TRUE]
=============================================================================
