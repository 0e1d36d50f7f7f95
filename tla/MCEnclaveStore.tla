---------------------------- MODULE MCEnclaveStore ----------------------------
(* EnclaveStore on a small instance.                                       *)
EXTENDS EnclaveStore

(* A fixed trigger, two trails, and a payload with both.  The widest trail *)
(* is crossed by a fall from 4 to 2 and missed by half a unit by one from  *)
(* 3 to 2; the other is crossed by a fall from 4 to 3 and, rounded, from 3 *)
(* to 2.                                                                   *)
MCPolicies == {Fixed(2), Trailing(5000), Trailing(2500), [trigger |-> 2, bps |-> 5000]}
=============================================================================
