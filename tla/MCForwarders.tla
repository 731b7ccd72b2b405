---------------------------- MODULE MCForwarders ----------------------------
(* Two connections through both forwarders.  The word is small: 16 instead *)
(* of 2^32.  Each VPP has room for the interfaces of two connections, or   *)
(* for those of one and another that was left behind.                      *)
EXTENDS Forwarders, TLC

CONSTANTS c1, c2, i1, i2, i3, i4

MCConns == {c1, c2}
MCIfs == {i1, i2, i3, i4}

Env(conns, fc, fs, room, links, offers, behind, c, s, payload) ==
    [conns |-> conns, faults |-> [client |-> fc, server |-> fs], room |-> room, links |-> links, offers |-> offers,
     behind |-> behind, kernel |-> [client |-> c, server |-> s], payload |-> payload]

Two == {c1, c2}
One == {c1}

(* MTUs of all kinds for two connections and for one; then one MTU and     *)
(* failures at one of the forwarders: those that two connections can feel, *)
(* and all kinds for one connection; taps, veth pairs, both.               *)
MCEnvs ==
    {Env(Two, {}, {"behind"}, 4, {0, 14}, {6}, {4, 15}, "tap", "tap", "ETHERNET"),
     Env(One, {"set"}, {"behind", "create"}, 4, {0, 8, 14}, {0, 4, 6, 14}, {4, 15}, "veth", "veth", "ETHERNET"),
     Env(Two, {"create", "lost"}, {}, 4, {14}, {6}, {15}, "tap", "tap", "ETHERNET"),
     Env(Two, {}, {"xc"}, 4, {14}, {6}, {15}, "tap", "veth", "IP"),
     Env(One, FaultKinds, {}, 3, {14}, {6}, {15}, "tap", "tap", "ETHERNET"),
     Env(One, {}, {"delete", "netns", "link", "lost"}, 3, {14}, {6}, {15}, "tap", "tap", "ETHERNET"),
     Env(One, {}, FaultKinds, 3, {14}, {6}, {15}, "tap", "veth", "ETHERNET"),
     Env(One, FaultKinds \ {"delete"}, {}, 3, {14}, {6}, {15}, "veth", "tap", "IP"),
     Env(One, {"delete", "link"}, {}, 3, {14}, {6}, {15}, "veth", "tap", "ETHERNET"),
     Env(One, {}, {"create", "set"}, 3, {14}, {6}, {15}, "tap", "veth", "IP"),
     Env(One, {}, {"delete", "xc"}, 3, {14}, {6}, {4, 15}, "tap", "tap", "IP")}

Symmetry == Permutations(MCIfs) \cup Permutations(MCConns)
=============================================================================
