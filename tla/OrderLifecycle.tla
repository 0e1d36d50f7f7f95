--------------------------- MODULE OrderLifecycle ---------------------------
(***************************************************************************)
(* What DarkStop promises about every stop-loss order, whatever contract,  *)
(* enclave or network carries it out: an order is placed once, ends at     *)
(* most once, and the money that leaves the vault on its behalf is the one *)
(* transfer its final stage calls for.                                     *)
(***************************************************************************)
EXTENDS Naturals

CONSTANT Ids                 \* identifiers an order may be given

VARIABLES stage,             \* stage[i]: where order i is in its life
          moved              \* moved[i]: what left the vault on behalf of i

Stages == {"none", "open", "executed", "cancelled"}

(* The single transfer a stage stands for.                                 *)
TransferOf(s) == CASE s = "executed"  -> "payout"
                   [] s = "cancelled" -> "refund"
                   [] OTHER           -> "nothing"

(* Final stages stay; a placed order never becomes unplaced.  One atomic   *)
(* transaction may carry an order through several stages.                  *)
Evolves(s, t) == \/ s = t
                 \/ s = "none"
                 \/ s = "open" /\ t \in {"executed", "cancelled"}

TypeOK == /\ stage \in [Ids -> Stages]
          /\ moved \in [Ids -> {"nothing", "payout", "refund"}]

Init == /\ stage = [i \in Ids |-> "none"]
        /\ moved = [i \in Ids |-> "nothing"]

(* One transaction: any number of orders take a legal step, and the        *)
(* transfers follow the stages.                                            *)
Transact == /\ stage' \in [Ids -> Stages]
            /\ \A i \in Ids : Evolves(stage[i], stage'[i])
            /\ moved' = [i \in Ids |-> TransferOf(stage'[i])]

Next == Transact

Spec == Init /\ [][Next]_<<stage, moved>>
=============================================================================
