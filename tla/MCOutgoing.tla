------------------------------- MODULE MCOutgoing -------------------------------
(***************************************************************************)
(* An instance of Outgoing: every set of options, interfaces with one or   *)
(* both families, hosts of several addresses.                              *)
(***************************************************************************)
EXTENDS Outgoing

V4(n) == [family |-> 4, id |-> n]
V6(n) == [family |-> 6, id |-> n]

MCConfigs ==
    [Interface : BOOLEAN, NoIPv6 : BOOLEAN, WRR : BOOLEAN,
     bootstrap : {<< >>, <<V4(8)>>, <<V4(8), V6(8)>>}]

MCAddressLists == {<< >>, <<V4(1)>>, <<V6(1)>>, <<V6(2), V4(1), V4(2)>>}

MCHosts == {<<V4(9)>>, <<V6(9)>>, <<V6(9), V4(9)>>, <<V4(9), V6(9), V4(10)>>}
===============================================================================
