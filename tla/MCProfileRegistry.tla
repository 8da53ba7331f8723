------------------------- MODULE MCProfileRegistry -------------------------
(***************************************************************************)
(* Small instances of ProfileRegistry: two clients, two addresses, wg0.conf*)
(* before and after its peers exchange their addresses or one takes the    *)
(* address of the other, and every short text for the parser alone.        *)
(***************************************************************************)
EXTENDS ProfileRegistry

CONSTANTS k1, k2,      \* public keys
          ann, bob,    \* names
          web, app, ssh \* two HTTP clients, an administrator

L(is, val)  == [is |-> is, val |-> val]
PeerOf(k, i) == <<L("peer", None), L("key", k), L("ips", i)>>
Note(n)     == <<L("comment", n)>>

\* A name above its peer and one below its header; addresses exchanged; a peer
\* that took the address of another, which has none left.
Usual     == Note(ann) \o PeerOf(k1, 1) \o <<L("peer", None)>> \o Note(bob)
               \o <<L("key", k2), L("ips", 2)>>
Exchanged == Note(ann) \o PeerOf(k1, 2) \o Note(bob) \o PeerOf(k2, 1)
Moved     == Note(ann) \o PeerOf(k1, 2) \o <<L("peer", None), L("key", k2), L("ips", None)>>

Contents == {Usual, Exchanged, Moved}
Peers    == {{[key |-> k1, ip |-> 1], [key |-> k2, ip |-> 2]},
             {[key |-> k1, ip |-> 2], [key |-> k2, ip |-> None]}}

P(k, i, n, m) == [key |-> k, ip |-> i, name |-> n, mode |-> m]

Files == {{P(k1, 1, None, "direct"), P(k2, 2, bob, "auto")},
          {P(k1, 1, None, "auto"), P(k2, 2, None, "direct")},
          {P(k2, 1, ann, "direct")}}

Patch(i, n, m) == [op |-> "patch", ip |-> i, name |-> n, mode |-> m, overwrite |-> FALSE]
NamesOf(o)      == [op |-> "names", ip |-> None, name |-> None, mode |-> None, overwrite |-> o]
ListOnly       == [NamesOf(FALSE) EXCEPT !.op = "list"]

Asked == {Patch(1, bob, None), Patch(2, None, "direct"), NamesOf(FALSE)}
Runs  == {NamesOf(FALSE), NamesOf(TRUE), ListOnly}

Limits(r, t, c, x) == [requests |-> r, tools |-> t, changes |-> c, trouble |-> x]

Working == [file : Files, text : Contents, live : Peers,
            left : {Limits(2, 0, 1, 0), Limits(1, 1, 0, 1), Limits(0, 1, 1, 1)}]
Crowded == [file : Files, text : {Exchanged}, live : Peers, left : {Limits(2, 1, 0, 0)}]

\* Every text of four lines before the last two fields of a peer; nothing else
\* happens to them.
Alphabet == {L("peer", None), L("section", None), L("other", None), L("comment", ann),
             L("comment", bob), L("key", k1), L("ips", None), L("ips", 1)}
AnyText   == {t \o <<L("key", k2), L("ips", 2)>> : t \in UNION {[1..n -> Alphabet] : n \in 0..4}}
Reading   == [file : {{}}, live : {{}}, left : {Limits(0, 0, 0, 0)}, text : AnyText]

AllStarts == Working \cup Crowded \cup Reading

=============================================================================
