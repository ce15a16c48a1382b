------------------------------ MODULE MCDiscovery ------------------------------
(* Configurations for TLC.                                                  *)
EXTENDS Discovery

Net(hosts) == [valid |-> TRUE, hosts |-> hosts]
Invalid == [valid |-> FALSE, hosts |-> <<>>]

\* Two subnets that share a host, an invalid one, and more hosts than are scanned.
Overlapping ==
  [network |-> TRUE, subnets |-> <<Net(<<1, 2>>), Invalid, Net(<<2, 3>>)>>,
   services |-> TRUE, ports |-> <<80, 22>>]

\* As many hosts as are scanned, ports: {}.
AtTheCap ==
  [network |-> TRUE, subnets |-> <<Net(<<1, 2, 3>>)>>, services |-> TRUE, ports |-> <<>>]

\* Only services; only a subnet that is invalid.
Services == [network |-> FALSE, subnets |-> <<>>, services |-> TRUE, ports |-> <<443, 80, 22>>]
NoHost == [network |-> TRUE, subnets |-> <<Invalid>>, services |-> FALSE, ports |-> <<>>]

All == {Overlapping, AtTheCap, Services, NoHost}
===============================================================================
