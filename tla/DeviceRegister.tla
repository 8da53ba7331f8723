--------------------------- MODULE DeviceRegister ---------------------------
(***************************************************************************)
(* What the device half of the panel promises about devices.json: a        *)
(* register of records by MAC in which every operation takes effect at one *)
(* instant, on the record it was asked about and on no other.              *)
(***************************************************************************)
CONSTANTS Macs, Ips

VARIABLE records  \* from the MACs that have a record to its IP and VPN flag

Record == [ip : Ips, vpn : BOOLEAN]
Tables == UNION {[M -> Record] : M \in SUBSET Macs}

Init == records \in Tables

\* A merge of the leases: addresses follow, new devices start with the VPN
\* off, nobody is lost and nobody's VPN flag changes.
Follow ==
  /\ records' \in Tables
  /\ DOMAIN records \subseteq DOMAIN records'
  /\ \A m \in DOMAIN records' :
       records'[m].vpn = IF m \in DOMAIN records THEN records[m].vpn ELSE FALSE

\* set_device_vpn and toggle_device_vpn.
Switch(m, v) ==
  /\ m \in DOMAIN records
  /\ records' = [records EXCEPT ![m].vpn = v]

\* delete_device.
Delete(m) == records' = [n \in DOMAIN records \ {m} |-> records[n]]

Next ==
  \/ Follow
  \/ \E m \in Macs : Delete(m) \/ \E v \in BOOLEAN : Switch(m, v)

Spec == Init /\ [][Next]_records

=============================================================================
