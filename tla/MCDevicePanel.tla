--------------------------- MODULE MCDevicePanel ---------------------------
(***************************************************************************)
(* Small instances of DevicePanel: three addresses, two or three MACs, the *)
(* lease files of a router that gives every MAC addresses of its own, and  *)
(* of one that hands a freed address to another MAC.                       *)
(***************************************************************************)
EXTENDS DevicePanel

CONSTANTS tv, box,        \* MACs
          ip1, ip2, ip3,  \* addresses
          name,           \* an address whose last part is no number
          esp             \* a remote_id

L(m, i)    == [mac |-> m, ip |-> i]
D(m, i, v) == [mac |-> m, ip |-> i, vpn |-> v]

\* tv moves between ip1 and ip2, box keeps ip3; in any order in the file.
OwnAddresses ==
  {<<>>, <<L(tv, ip1)>>, <<L(tv, ip2)>>, <<L(box, ip3)>>}
    \cup {<<L(tv, i), L(box, ip3)>> : i \in {ip1, ip2}}
    \cup {<<L(box, ip3), L(tv, i)>> : i \in {ip1, ip2}}

\* Either MAC at either of two addresses.
SharedAddresses ==
  {<<>>} \cup {<<L(m, i)>> : m \in {tv, box}, i \in {ip1, ip2}}
    \cup {<<L(m, i), L(n, j)>> : <<m, n, i, j>> \in
             {q \in {tv, box} \X {tv, box} \X {ip1, ip2} \X {ip1, ip2} :
                q[1] # q[2] /\ q[3] # q[4]}}

OneDeviceOn == {<<D(tv, ip1, TRUE)>>}
TwoDevices  == {<<>>, <<D(tv, ip1, TRUE), D(box, ip3, FALSE)>>}
BothKnown   == {<<D(tv, ip1, TRUE), D(box, ip3, FALSE)>>}

Ask(kind, m, v) == [kind |-> kind, mac |-> m, ip |-> ip1, vpn |-> v, rid |-> esp]

\* What two device operations can do to each other.
PairRequests ==
  {Ask(k, tv, TRUE) : k \in {"toggle", "delete"}}
    \cup {Ask("set", box, TRUE), Ask("update", box, TRUE)}

\* Every device operation but add_device.
DeviceRequests ==
  {Ask(k, tv, TRUE) : k \in {"list", "sync", "apply", "toggle", "update", "delete"}}
    \cup {Ask("set", tv, v) : v \in BOOLEAN} \cup {Ask("set", box, TRUE)}

\* The operations of the remotes and of the backend, which take no lock.
RemoteRequests ==
  {Ask(k, tv, FALSE) : k \in {"addRemote", "hello", "ping", "editRemote",
                              "deleteRemote", "refresh"}}
    \cup {Ask("addRemote", box, FALSE)}
RacingRequests ==
  RemoteRequests \cup {Ask("set", tv, FALSE), Ask("add", box, FALSE)}
                 \cup {[Ask("add", tv, FALSE) EXCEPT !.ip = i] : i \in {ip2, name}}

\* The requests of the runs that show a disagreement with the documentation.
MoveToName == {[Ask("add", tv, FALSE) EXCEPT !.ip = name]}
SwitchOffAndRefresh == {Ask("set", tv, FALSE), Ask("refresh", tv, FALSE)}
NoLeases  == {<<>>}

\* Requests in flight are interchangeable.
Symmetry == Permutations(Procs)

BoundsOf(r, d, c, f, s) ==
  [requests |-> r, dhcp |-> d, crashes |-> c, faults |-> f, saves |-> s]
TwoRequestsOneCrash == BoundsOf(2, 1, 1, 0, 1)
ThreeRequestsOneCrash == BoundsOf(3, 0, 1, 0, 0)
OneRequestOneCrash == BoundsOf(1, 0, 1, 0, 0)
TwoRequests == BoundsOf(2, 0, 0, 0, 0)
TwoChanges == BoundsOf(2, 2, 1, 0, 1)

=============================================================================
