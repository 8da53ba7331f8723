-------------------------- MODULE MCRemoteSessions --------------------------
(***************************************************************************)
(* Small instances of RemoteSessions: a remote with its session, the web   *)
(* page with another one, one HTTP request at a time.                      *)
(***************************************************************************)
EXTENDS RemoteSessions, TLC

CONSTANTS tv, box,   \* devices
          esp        \* a remote_id

Msg(op, r, t, v) == [op |-> op, rid |-> r, target |-> t, enabled |-> None, vpn |-> v]
Req(op, t, e)    == [op |-> op, rid |-> esp, target |-> t, enabled |-> e, vpn |-> None]
Limits(m, r, t)  == [messages |-> m, requests |-> r, trouble |-> t]

FromRemote  == {[rid |-> esp, target |-> None], [rid |-> None, target |-> None]}
WithoutName == FromRemote \cup {[rid |-> Blank, target |-> tv]}
BoundToTv  == [{esp} -> {[known |-> TRUE, target |-> tv, enabled |-> TRUE]}]

SafetyMessages ==
  {Msg("ping", None, None, None), Msg("toggle", None, None, None),
   Msg("hello", None, box, None), Msg("hello", Blank, box, None)}
SafetyRequests ==
  {Req("bind", box, None), Req("unbind", None, None), Req("edit", None, FALSE)}
SafetyBudgets == {Limits(2, 1, 0), Limits(2, 0, 1), Limits(1, 1, 1)}

SessionMessages ==
  {Msg("hello", None, None, None), Msg("set", None, tv, TRUE), Msg("set", None, box, None),
   Msg("toggle", None, box, None), Msg("get", None, tv, None), Msg("sync", None, None, None)}
SessionRequests ==
  {Req("delete", None, None), Req("add", box, None), [Req("set", tv, None) EXCEPT !.vpn = TRUE]}
SessionBudgets == {Limits(2, 1, 1)}

SocketSymmetry == Permutations(Sockets)

=============================================================================
