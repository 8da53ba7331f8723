---------------------------- MODULE ConfigNames -----------------------------
(***************************************************************************)
(* The names of WireGuard clients in the comments of wg0.conf: what        *)
(* parse_wireguard_config finds in a file, line by line, and a reference   *)
(* reading of the same file, section by section.                           *)
(***************************************************************************)
EXTENDS Naturals, Sequences, FiniteSetsExt

CONSTANTS Keys,   \* public keys
          Names,  \* names of clients
          Ips,    \* IPv4 addresses of clients, as numbers
          None    \* no name, no value

ASSUME NamesAssumption == Ips \subseteq Nat /\ None \notin Keys \cup Names \cup Ips

\* A line that is not blank: the header of a [Peer] or of another section, a
\* comment (the name it leaves once cleaned, if any), the two fields that count
\* (AllowedIPs with its first IPv4 address, if any), or another field.
Lines ==
       [is : {"peer", "section", "other"}, val : {None}]
  \cup [is : {"comment"}, val : Names \cup {None}]
  \cup [is : {"key"}, val : Keys] \cup [is : {"ips"}, val : Ips \cup {None}]

ConfigPeer == [key : Keys, ip : Ips, name : Names \cup {None}]

-----------------------------------------------------------------------------
\* parse_wireguard_config. "fields" tells whether the section has had a public
\* key or addresses.

Begin == [inPeer |-> FALSE, fields |-> FALSE, pending |-> None, name |-> None,
          key |-> None, ip |-> None, peers |-> <<>>]

\* A mutant: a peer without an IPv4 address is kept.
FlushPeerAnyway(s) ==
  IF s.inPeer /\ s.key # None
  THEN Append(s.peers, [key |-> s.key, ip |-> s.ip, name |-> s.name])
  ELSE s.peers

\* A peer is kept when it has a key and an IPv4 address.
FlushPeer(s) ==
  IF s.inPeer /\ s.key # None /\ s.ip # None
  THEN Append(s.peers, [key |-> s.key, ip |-> s.ip, name |-> s.name])
  ELSE s.peers

\* Right after [Peer] a comment names that peer, unless it has a name;
\* anywhere else it waits for the next header.
Comment(s, n) ==
  IF s.inPeer /\ ~ s.fields
  THEN [s EXCEPT !.name = IF @ = None THEN n ELSE @]
  ELSE [s EXCEPT !.pending = n]

\* A mutant: the name that waits survives the header that used it.
HeaderKeeping(s, isPeer) ==
  [Begin EXCEPT !.inPeer = isPeer, !.pending = s.pending,
                !.name = IF isPeer THEN s.pending ELSE None,
                !.peers = FlushPeer(s)]

\* A header ends the peer before it; a [Peer] takes the name that waits.
Header(s, isPeer) ==
  [Begin EXCEPT !.inPeer = isPeer,
                !.name = IF isPeer THEN s.pending ELSE None,
                !.peers = FlushPeer(s)]

\* Outside a peer a field means that the comment before it was about it.
Field(s, line) ==
  IF ~ s.inPeer THEN [s EXCEPT !.pending = None]
  ELSE CASE line.is = "key" -> [s EXCEPT !.key = line.val, !.fields = TRUE]
         [] line.is = "ips" -> [s EXCEPT !.ip = line.val, !.fields = TRUE]
         [] OTHER           -> s

ReadLine(s, line) ==
  CASE line.is \in {"peer", "section"} -> Header(s, line.is = "peer")
    [] line.is = "comment" -> IF line.val = None THEN s ELSE Comment(s, line.val)
    [] OTHER -> Field(s, line)

\* The state after each line (taken from a set, so that TLC evaluates it once).
After(text) ==
  LET after[n \in 0..Len(text)] ==
        IF n = 0 THEN Begin
        ELSE CHOOSE s \in {ReadLine(r, text[n]) : r \in {after[n - 1]}} : TRUE
  IN  after

Parsed(text) == FlushPeer(CHOOSE s \in {After(text)[Len(text)]} : TRUE)

-----------------------------------------------------------------------------
\* The reference reading, from the places of the lines alone.

Places(text, kinds, from, to) == {l \in from..to : text[l].is \in kinds}
Comments(text, from, to) ==
  {l \in Places(text, {"comment"}, from, to) : text[l].val # None}

Headers(text) == Places(text, {"peer", "section"}, 1, Len(text))

\* The header before line h (0 when there is none), and the end of section h.
Previous(text, h) == LET S == {g \in Headers(text) : g < h}
                     IN  IF S = {} THEN 0 ELSE Max(S)
End(text, h) == LET S == {g \in Headers(text) : g > h}
                IN  IF S = {} THEN Len(text) ELSE Min(S) - 1

Last(text, S)  == IF S = {} THEN None ELSE text[Max(S)].val
First(text, S) == IF S = {} THEN None ELSE text[Min(S)].val

\* The comments of section g (0: the lines above all sections) that wait for
\* the next header: in a peer those that follow a key or addresses, elsewhere
\* those no field follows.
Waiting(text, g) ==
  {c \in Comments(text, g + 1, End(text, g)) :
     IF g > 0 /\ text[g].is = "peer"
     THEN Places(text, {"key", "ips"}, g + 1, c) # {}
     ELSE Places(text, {"key", "ips", "other"}, c, End(text, g)) = {}}

\* The comments of peer h that come before its key and its addresses.
Own(text, h) ==
  {c \in Comments(text, h + 1, End(text, h)) : Places(text, {"key", "ips"}, h + 1, c) = {}}

NameOf(text, h) ==
  LET before == Last(text, Waiting(text, Previous(text, h)))
  IN  IF before # None THEN before ELSE First(text, Own(text, h))

\* What the section of header h says of a peer.
PeerAt(text, h) ==
  [key  |-> Last(text, Places(text, {"key"}, h, End(text, h))),
   ip   |-> Last(text, Places(text, {"ips"}, h, End(text, h))),
   name |-> NameOf(text, h)]

\* The headers of the sections that describe a peer completely.
PeerHeaders(text) ==
  {h \in Places(text, {"peer"}, 1, Len(text)) :
     PeerAt(text, h).key # None /\ PeerAt(text, h).ip # None}

\* The peers are read in the order of their sections, each with its last key,
\* its last addresses and the name its comments give it.
ReadRight(text) ==
  LET headers == PeerHeaders(text)
      peers   == Parsed(text)
  IN  /\ Len(peers) = Cardinality(headers)
      /\ \A h \in headers : peers[Cardinality({g \in headers : g <= h})] = PeerAt(text, h)

=============================================================================
