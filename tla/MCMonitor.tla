----------------------------- MODULE MCMonitor -----------------------------
(* A laptop with Wi-Fi, a cellular modem and a VPN. *)
EXTENDS Monitor, TLC

CONSTANTS wifi, modem, tun, home, office, cell, vpn, auto

MCAdapters == {wifi, modem, tun}
MCIndex == wifi :> 3 @@ modem :> 2 @@ tun :> 1
MCClass == wifi :> "lan" @@ modem :> "cellular" @@ tun :> "virtual"
MCIfMetric == wifi :> 2 @@ modem :> 2 @@ tun :> 1

Off == [up |-> FALSE, addrs |-> <<>>, routes |-> {}]
On(addrs, routes) == [up |-> TRUE, addrs |-> addrs, routes |-> routes]
Laptop(w, m, t) == wifi :> w @@ modem :> m @@ tun :> t

\* At home; at the office behind a VPN that takes over the default route; on the
\* road with an address the Wi-Fi gave itself; without any link.
AtHome == Laptop(On(<<home>>, {2, 5}), Off, Off)
AtOffice == Laptop(On(<<auto, office>>, {4}), On(<<cell>>, {}), On(<<vpn>>, {1}))
OnTheRoad == Laptop(On(<<auto>>, {}), On(<<cell>>, {3}), Off)
Offline == Laptop(Off, Off, Off)
MCConditions == {AtHome, AtOffice, OnTheRoad, Offline}
=============================================================================
