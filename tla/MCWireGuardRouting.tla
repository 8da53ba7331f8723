------------------------- MODULE MCWireGuardRouting -------------------------
(***************************************************************************)
(* Small instances of WireGuardRouting: a phone, and a laptop that may be  *)
(* the protected client.                                                   *)
(***************************************************************************)
EXTENDS WireGuardRouting

CONSTANTS phone, laptop

\* A phone with any mode, a phone on the backup tunnel, or nothing saved yet.
AnyModes == [Clients -> Modes]
OnBackup == {[c \in Clients |-> IF c = phone THEN "backup" ELSE "auto"]}
PhoneAny == {f \in AnyModes : f[laptop] = "auto"}
AllAuto  == {[c \in Clients |-> "auto"]}

\* After a boot all backends are up, or none is yet.
AllUp     == {Tables}
AllOrNone == {Tables, {}}

BoundsOf(p, n, d, u, c, h, f) ==
  [patches |-> p, changes |-> n, drops |-> d, unplugs |-> u, crashes |-> c,
   hangs |-> h, faults |-> f]

\* Two PATCHes, a backend that changes, a device that goes down, a crash, and a probe
\* or save that fails.
ModesBounds == BoundsOf(2, 1, 1, 0, 1, 0, 1)

\* Everything that can go wrong, once.
Everything == BoundsOf(1, 1, 1, 1, 1, 1, 1)

\* The run that shows a disagreement with the documentation.
OneDrop == BoundsOf(1, 0, 1, 0, 0, 0, 0)

=============================================================================
