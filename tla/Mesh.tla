-------------------------------- MODULE Mesh --------------------------------
(***************************************************************************)
(* The mesh side of the vpn crate as one specification.  The managers below *)
(* are separate objects with state of their own; the router is modelled     *)
(* with the relay's answers left open.  part says which of them a behaviour *)
(* is about, and the others rest.                                           *)
(***************************************************************************)
EXTENDS Dht, Relay, HolePunch, Handshake, Session, VpnRouter, RouteTable, Multipath, Traffic

VARIABLE part

Rest(p, vars) == IF part = p THEN TRUE ELSE UNCHANGED vars

meshVars == <<part, bootVars, dhtVars, relayVars, punchVars, hsVars, sessionVars,
              addressVars, lanVars, vpnVars, routes, mpVars, trafficVars>>

MeshInit ==
    /\ part \in {"bootstrap", "dht", "relay", "punch", "handshake", "session", "router",
                 "routes", "multipath", "traffic"}
    /\ DhtInit /\ RelayInit /\ PunchInit /\ HsInit /\ SessionInit
    /\ VpnInit /\ RouteInit /\ MpInit /\ TrafficInit
    \* one of them is enough at rest
    /\ part # "router" => ~wrapped /\ ~hasLan
    /\ part # "handshake" => hsSkew = [x \in HsParties |-> 0]

MeshNext ==
    /\ UNCHANGED part
    /\ \/ part = "bootstrap" /\ BootNext
       \/ part = "dht" /\ DhtNext
       \/ part = "relay" /\ RelayNext
       \/ part = "punch" /\ PunchNext
       \/ part = "handshake" /\ HsNext
       \/ part = "session" /\ SessionNext
       \/ part = "router" /\ VpnNext
       \/ part = "routes" /\ RouteNext
       \/ part = "multipath" /\ MpNext
       \/ part = "traffic" /\ TrafficNext
    /\ Rest("bootstrap", bootVars) /\ Rest("dht", dhtVars) /\ Rest("relay", relayVars)
    /\ Rest("punch", punchVars) /\ Rest("handshake", hsVars) /\ Rest("session", sessionVars)
    /\ Rest("router", <<addressVars, lanVars, vpnVars>>) /\ Rest("routes", routes)
    /\ Rest("multipath", mpVars) /\ Rest("traffic", trafficVars)

MeshSpec == MeshInit /\ [][MeshNext]_meshVars
=============================================================================
