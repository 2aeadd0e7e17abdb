------------------------------ MODULE MCPorts -------------------------------
(***************************************************************************)
(* PortPairs with two subsessions and six ports.                           *)
(***************************************************************************)
EXTENDS PortPairs

MCPorts == 2..7
MCEphemeral == 4..7

\* Without a port, or with one that the kernel may give to another subsession.
MCOffers ==
  [kind : {"rtp", "mux", "udp"}, port : {0, 5}] \cup [kind : {"unspecified"}, port : {5}]
=============================================================================
