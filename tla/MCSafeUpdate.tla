---------------------------- MODULE MCSafeUpdate ----------------------------
(***************************************************************************)
(* Small instances of SafeUpdate: two invocations of the updater on a host *)
(* that runs a release from a link, or from a directory as it was first    *)
(* installed.                                                              *)
(***************************************************************************)
EXTENDS SafeUpdate

BoundsOf(f, s, k, c) == [faults |-> f, signals |-> s, kills |-> k, crashes |-> c]

\* A command that fails, a signal, a killed updater and a crash of the service.
OneOfEach == BoundsOf(1, 1, 1, 1)

=============================================================================
