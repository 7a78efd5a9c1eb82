------------------------------ MODULE MCGateway ------------------------------
(* Instances of GatewayDrain and FilterConfigMap for TLC.  The draining and    *)
(* the IP filter of a gateway share no state, so that one of them moves while   *)
(* the other has not started.                                                   *)
EXTENDS GatewayDrain, FilterConfigMap

CONSTANTS b1, b2

(* Disabled, and open to one of the addresses, next to a CIDR that does not   *)
(* parse.                                                                      *)
Off == [enabled |-> FALSE, allowed |-> {Addrs}]
On == [enabled |-> TRUE, allowed |-> {{CHOOSE a \in Addrs : TRUE}, Unparsable}]
Shut == [enabled |-> TRUE, allowed |-> {Unparsable}]

MCConfigs == {Off, On, Shut}

(* Set one branch, set both, set none, delete one. *)
MCMenu ==
    { [branches |-> {b1}, entry |-> On],
      [branches |-> {b1, b2}, entry |-> Off],
      [branches |-> {b2}, entry |-> Shut],
      [branches |-> {}, entry |-> On],
      [branches |-> {b1}, entry |-> NoEntry] }

GatewayInit == Init /\ FilterInit

GatewayNext ==
    \/ FilterInit /\ Next /\ UNCHANGED filterVars
    \/ Init /\ draining = "zero" /\ FilterNext /\ UNCHANGED vars

GatewaySpec ==
    /\ GatewayInit
    /\ [][GatewayNext]_<<vars, filterVars>>
    /\ Fairness /\ FilterFairness
=============================================================================
