--------------------------- MODULE MCNetworkDrives ---------------------------
(* Instances of NetworkDrives for TLC. *)
EXTENDS NetworkDrives, TLC

CONSTANTS k1, k2, k3, h1, h2, s1, s2, u1, u2, u3, usb, gdrive

ThreeShares == {k1, k2, k3}
\* Two shares of one host, whose mount points may collide, and another.
MCHostOf == [k \in Shares |-> IF k = k3 THEN h2 ELSE h1]
TwoStamps == {s1, s2}
ThreeServers == {u1, u2, u3}
TwoCheckers == {usb, gdrive}
\* Two descriptions behind one port.
MCPortOf == [u \in Servers |-> IF u = u3 THEN "port2" ELSE "port1"]

\* The shares of the first host, the stamps, the servers behind the first port
\* and the other dispatchers: nothing tells them apart.
MCSymmetry ==
  {shares @@ stamps @@ servers @@ checkers :
     shares \in Permutations({k1, k2}), stamps \in Permutations({s1, s2}),
     servers \in Permutations({u1, u2}), checkers \in Permutations({usb, gdrive})}
=============================================================================
