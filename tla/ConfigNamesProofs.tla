-------------------------- MODULE ConfigNamesProofs --------------------------
(***************************************************************************)
(* Theorems about the parser of wg0.conf, for every text: what it returns  *)
(* is a sequence of peers, and the one the sections of the text describe.  *)
(***************************************************************************)
EXTENDS ConfigNames, FiniteSetTheorems, WellFoundedInduction, TLAPS

-----------------------------------------------------------------------------
\* Numbers and positions.

\* A set of naturals that is not empty has a least element.
LEMMA SmallestOf ==
  ASSUME NEW T, T \subseteq Nat, T # {}
  PROVE  \E x \in T : \A y \in T : x <= y
<1>1. PICK x \in T : \A y \in T : ~ (<<y, x>> \in OpToRel(<, Nat))
  BY NatLessThanWellFounded, WFMin
<1>2. \A y \in T : <<y, x>> \in OpToRel(<, Nat) <=> y < x
  BY <1>1, SMT DEF OpToRel
<1>3. x \in Nat /\ \A y \in T : y \in Nat /\ ~ (y < x)
  BY <1>1, <1>2
<1> QED
  BY <1>3

\* Induction up to a bound: a set of naturals that has 0 and, with a number below
\* the bound, its successor has them all.
LEMMA AllUpTo ==
  ASSUME NEW N \in Nat, NEW T, 0 \in T, \A n \in 0 .. N - 1 : n \in T => n + 1 \in T
  PROVE  \A n \in 0 .. N : n \in T
<1> DEFINE U == {n \in 0 .. N : n \notin T}
<1> SUFFICES ASSUME U # {} PROVE FALSE
  OBVIOUS
<1>1. PICK x \in U : \A y \in U : x <= y
  <2>1. U \subseteq Nat
    OBVIOUS
  <2> HIDE DEF U
  <2> QED
    BY <2>1, SmallestOf
<1>2. x \in 1 .. N
  BY <1>1
<1>3. x - 1 \in 0 .. N - 1 /\ x - 1 \in T
  BY <1>1, <1>2
<1>4. (x - 1) + 1 \in T
  BY <1>3
<1> QED
  BY <1>1, <1>2, <1>4

\* The values f starts at b, in S, and goes on by g.
Follows(f, N, S, b, g) == /\ f \in [0 .. N -> S] /\ f[0] = b
                          /\ \A i \in 1 .. N : f[i] = g[i][f[i - 1]]

\* Primitive recursion: such values exist.
LEMMA RecursionExists ==
  ASSUME NEW N \in Nat, NEW S, NEW b \in S, NEW g \in [1 .. N -> [S -> S]]
  PROVE  \E f : Follows(f, N, S, b, g)
<1> DEFINE Up(n, f) == Follows(f, n, S, b, g)
           T == {n \in 0 .. N : \E f : Up(n, f)}
<1>1. 0 \in T
  <2> DEFINE f == [i \in 0 .. 0 |-> b]
  <2>1. f \in [0 .. 0 -> S] /\ f[0] = b /\ 1 .. 0 = {}
    OBVIOUS
  <2> HIDE DEF f
  <2>2. Up(0, f)
    BY <2>1 DEF Follows
  <2> HIDE DEF Up
  <2> QED
    BY <2>2
<1>2. ASSUME NEW n \in 0 .. N - 1, n \in T
      PROVE  n + 1 \in T
  <2>1. PICK f : Up(n, f)
    BY <1>2
  <2> DEFINE m == n + 1
             v == g[m][f[n]]
             h == [i \in 0 .. m |-> IF i <= n THEN f[i] ELSE v]
  <2>2. m \in 1 .. N /\ v \in S /\ f \in [0 .. n -> S] /\ f[0] = b
    BY <2>1 DEF Follows
  <2> HIDE DEF v
  <2>3. h \in [0 .. m -> S] /\ h[0] = b /\ h[m] = v
        /\ \A i \in 0 .. n : h[i] = f[i]
    BY <2>2
  <2> HIDE DEF h
  <2>4. ASSUME NEW i \in 1 .. m
        PROVE  h[i] = g[i][h[i - 1]]
    <3>1. CASE i <= n
      <4>1. h[i] = f[i] /\ h[i - 1] = f[i - 1] /\ i \in 1 .. n
        BY <2>3, <3>1
      <4> QED
        BY <2>1, <4>1 DEF Follows
    <3>2. CASE i = m
      <4>1. h[i] = v /\ h[i - 1] = f[n]
        BY <2>3, <3>2
      <4> QED
        BY <3>2, <4>1 DEF v
    <3> QED
      BY <2>2, <3>1, <3>2
  <2>5. Up(m, h)
    BY <2>3, <2>4 DEF Follows
  <2> HIDE DEF Up
  <2> QED
    BY <2>2, <2>5
<1> HIDE DEF T
<1>3. N \in T
  <2>1. \A n \in 0 .. N : n \in T
    BY <1>1, <1>2, AllUpTo
  <2> QED
    BY <2>1
<1> QED
  BY <1>3 DEF T

-----------------------------------------------------------------------------
\* The states of the parser.

States == [inPeer : BOOLEAN, fields : BOOLEAN, pending : Names \cup {None},
           name : Names \cup {None}, key : Keys \cup {None}, ip : Ips \cup {None},
           peers : Seq(ConfigPeer)]

\* A peer that ends adds one that has a key and an address.
LEMMA FlushTyped ==
  ASSUME NEW s \in States
  PROVE  FlushPeer(s) \in Seq(ConfigPeer)
<1>1. CASE s.inPeer /\ s.key # None /\ s.ip # None
  <2>1. [key |-> s.key, ip |-> s.ip, name |-> s.name] \in ConfigPeer
    BY <1>1 DEF States, ConfigPeer
  <2> QED
    BY <1>1, <2>1 DEF FlushPeer, States
<1>2. CASE ~ (s.inPeer /\ s.key # None /\ s.ip # None)
  BY <1>2 DEF FlushPeer, States
<1> QED
  BY <1>1, <1>2

\* A line leads from a state to a state.
LEMMA ReadTyped ==
  ASSUME NEW s \in States, NEW l \in Lines
  PROVE  ReadLine(s, l) \in States
<1>1. Begin \in States
  BY DEF Begin, States
<1>2. CASE l.is \in {"peer", "section"}
  <2>1. Header(s, l.is = "peer") \in States
    BY <1>1, FlushTyped DEF Header, States, Begin
  <2> QED
    BY <1>2, <2>1 DEF ReadLine
<1>3. CASE l.is = "comment"
  <2>1. l.val \in Names \cup {None}
    BY <1>3 DEF Lines
  <2>2. Comment(s, l.val) \in States
    BY <2>1 DEF Comment, States
  <2> QED
    BY <1>3, <2>2 DEF ReadLine
<1>4. CASE l.is \in {"key", "ips", "other"}
  <2>1. (l.is = "key" => l.val \in Keys) /\ (l.is = "ips" => l.val \in Ips \cup {None})
    BY DEF Lines
  <2>2. Field(s, l) \in States
    BY <1>4, <2>1 DEF Field, States
  <2> QED
    BY <1>4, <2>2 DEF ReadLine
<1> QED
  BY <1>2, <1>3, <1>4 DEF Lines

\* The states after each line: the first one, and each from the one before.
LEMMA AfterSteps ==
  ASSUME NEW text \in Seq(Lines)
  PROVE  /\ After(text) \in [0 .. Len(text) -> States]
         /\ After(text)[0] = Begin
         /\ \A n \in 1 .. Len(text) : After(text)[n] = ReadLine(After(text)[n - 1], text[n])
<1> DEFINE N == Len(text)
           g == [n \in 1 .. N |-> [s \in States |-> ReadLine(s, text[n])]]
<1>1. N \in Nat /\ Begin \in States /\ \A n \in 1 .. N : text[n] \in Lines
  BY DEF Begin, States
<1>2. g \in [1 .. N -> [States -> States]]
  BY <1>1, ReadTyped
<1>3. \A s \in States, n \in 1 .. N : g[n][s] = ReadLine(s, text[n])
  OBVIOUS
<1> HIDE DEF g
<1>4. \E f \in [0 .. N -> States] : /\ f[0] = Begin
                                    /\ \A n \in 1 .. N : f[n] = ReadLine(f[n - 1], text[n])
  <2>1. PICK f \in [0 .. N -> States] : f[0] = Begin /\ \A n \in 1 .. N : f[n] = g[n][f[n - 1]]
    <3> HIDE DEF N
    <3>1. \E f : Follows(f, N, States, Begin, g)
      BY <1>1, <1>2, RecursionExists
    <3> QED
      BY <3>1 DEF Follows
  <2>2. ASSUME NEW n \in 1 .. N PROVE f[n - 1] \in States
    BY <1>1
  <2> QED
    BY <1>3, <2>1, <2>2
<1> PICK f \in [0 .. N -> States] : /\ f[0] = Begin
                                    /\ \A n \in 1 .. N : f[n] = ReadLine(f[n - 1], text[n])
  BY <1>4
<1> DEFINE E(h) == h = [n \in 0 .. Len(text) |->
                     IF n = 0 THEN Begin
                     ELSE CHOOSE s \in {ReadLine(r, text[n]) : r \in {h[n - 1]}} : TRUE]
<1>5. \A v : (CHOOSE s \in {v} : TRUE) = v
  OBVIOUS
<1>6. ASSUME NEW h
      PROVE  \A n : (CHOOSE s \in {ReadLine(r, text[n]) : r \in {h[n - 1]}} : TRUE)
                       = ReadLine(h[n - 1], text[n])
  <2> TAKE n
  <2>1. {ReadLine(r, text[n]) : r \in {h[n - 1]}} = {ReadLine(h[n - 1], text[n])}
    OBVIOUS
  <2> QED
    BY <1>5, <2>1
<1>7. E(f)
  BY <1>1, <1>6
<1>8. After(text) = CHOOSE h : E(h)
  BY DEF After
<1> HIDE DEF E
<1>9. E(After(text))
  BY <1>7, <1>8
<1> DEFINE h == After(text)
<1> HIDE DEF h
<1>10. /\ DOMAIN h = 0 .. N /\ h[0] = Begin
       /\ \A n \in 1 .. N : h[n] = ReadLine(h[n - 1], text[n])
  BY <1>1, <1>6, <1>9 DEF E, h
<1> DEFINE T == {n \in 0 .. N : h[n] \in States}
<1>11. 0 \in T
  BY <1>1, <1>10
<1>12. \A n \in 0 .. N - 1 : n \in T => n + 1 \in T
  BY <1>1, <1>10, ReadTyped
<1> HIDE DEF T
<1>13. \A n \in 0 .. N : n \in T
  BY <1>1, <1>11, <1>12, AllUpTo
<1>14. h \in [0 .. N -> States]
  <2>1. \A n \in 0 .. N : h[n] \in States
    BY <1>13 DEF T
  <2>2. h = [n \in 0 .. N |-> h[n]]
    BY <1>9, <1>10 DEF E, h
  <2> QED
    BY <2>1, <2>2
<1> QED
  BY <1>10, <1>14 DEF h

\* parse_wireguard_config returns peers with a key and an address, for every text.
THEOREM ParsedPeers ==
  ASSUME NEW text \in Seq(Lines)
  PROVE  Parsed(text) \in Seq(ConfigPeer)
<1>1. After(text)[Len(text)] \in States
  BY AfterSteps
<1>2. Parsed(text) = FlushPeer(After(text)[Len(text)])
  BY DEF Parsed
<1> QED
  BY <1>1, <1>2, FlushTyped

-----------------------------------------------------------------------------
\* The greatest and the least place of a set.

LEMMA MaxIs ==
  ASSUME NEW S \in SUBSET Nat, NEW x \in S, \A y \in S : y <= x
  PROVE  Max(S) = x
<1>1. \A z \in S : (\A y \in S : z >= y) => z = x
  OBVIOUS
<1> QED
  BY <1>1 DEF Max

LEMMA MinIs ==
  ASSUME NEW S \in SUBSET Nat, NEW x \in S, \A y \in S : x <= y
  PROVE  Min(S) = x
<1>1. \A z \in S : (\A y \in S : z =< y) => z = x
  OBVIOUS
<1> QED
  BY <1>1 DEF Min

LEMMA MaxOf ==
  ASSUME NEW n \in Nat, NEW S \in SUBSET (0 .. n), S # {}
  PROVE  Max(S) \in S /\ \A y \in S : y <= Max(S)
<1> DEFINE T == {n - y : y \in S}
<1>1. T \subseteq Nat /\ T # {}
  <2>1. \A y \in S : n - y \in Nat
    OBVIOUS
  <2>2. PICK y \in S : TRUE
    OBVIOUS
  <2>3. n - y \in T
    BY <2>2
  <2> QED
    BY <2>1, <2>3
<1>2. PICK t \in T : \A u \in T : t <= u
  <2> HIDE DEF T
  <2> QED
    BY <1>1, SmallestOf
<1>3. PICK x \in S : t = n - x
  BY <1>2
<1>4. \A y \in S : y <= x
  <2> TAKE y \in S
  <2>1. t <= n - y
    BY <1>2
  <2> QED
    BY <1>3, <2>1
<1>5. S \in SUBSET Nat
  OBVIOUS
<1>6. Max(S) = x
  BY <1>4, <1>5, MaxIs
<1> QED
  BY <1>4, <1>6

LEMMA MinOf ==
  ASSUME NEW S \in SUBSET Nat, S # {}
  PROVE  Min(S) \in S /\ \A y \in S : Min(S) <= y
<1>1. PICK x \in S : \A y \in S : x <= y
  BY SmallestOf
<1> QED
  BY <1>1, MinIs

\* What line n is: one of some kinds, a comment that leaves a name; its value.
Is(text, n, K)   == text[n].is \in K
NamedAt(text, n) == text[n].is = "comment" /\ text[n].val # None
ValueAt(text, n) == text[n].val

\* A place after all others is the last; the first stays the first.
LEMMA LastNext ==
  ASSUME NEW text, NEW n \in Nat, NEW m \in Nat, m = n + 1, NEW S \in SUBSET (1 .. n)
  PROVE  Last(text, S \cup {m}) = ValueAt(text, m)
<1>1. S \cup {m} \in SUBSET Nat /\ \A y \in S \cup {m} : y <= m
  OBVIOUS
<1>2. Max(S \cup {m}) = m
  BY <1>1, MaxIs
<1> QED
  BY <1>2 DEF Last, ValueAt

LEMMA FirstNext ==
  ASSUME NEW text, NEW n \in Nat, NEW m \in Nat, m = n + 1, NEW S \in SUBSET (1 .. n)
  PROVE  First(text, S \cup {m}) = IF S = {} THEN ValueAt(text, m) ELSE First(text, S)
<1>1. S \in SUBSET Nat /\ S \cup {m} \in SUBSET Nat
  OBVIOUS
<1>2. CASE S = {}
  <2>1. Min(S \cup {m}) = m
    BY <1>1, <1>2, MinIs
  <2> QED
    BY <1>2, <2>1 DEF First, ValueAt
<1>3. CASE S # {}
  <2>1. Min(S) \in S /\ \A y \in S : Min(S) <= y
    BY <1>1, <1>3, MinOf
  <2> DEFINE x == Min(S)
  <2> HIDE DEF x
  <2>2. x \in S /\ x \in 1 .. n /\ \A y \in S : x <= y
    BY <2>1 DEF x
  <2>3. x \in S \cup {m} /\ \A y \in S \cup {m} : x <= y
    BY <2>2
  <2>4. Min(S \cup {m}) = x
    BY <1>1, <2>3, MinIs
  <2> QED
    BY <1>3, <2>4 DEF First, x
<1> QED
  BY <1>2, <1>3

-----------------------------------------------------------------------------
\* The reference reading of the lines up to line n.

\* The header of the section of line n (0: above all sections).
HeaderAt(text, n) == LET S == {g \in Headers(text) : g <= n}
                     IN  IF S = {} THEN 0 ELSE Max(S)

IsPeer(text, h) == h > 0 /\ text[h].is = "peer"

WaitingTo(text, g, n) ==
  {c \in Comments(text, g + 1, n) :
     IF IsPeer(text, g) THEN Places(text, {"key", "ips"}, g + 1, c) # {}
     ELSE Places(text, {"key", "ips", "other"}, c, n) = {}}

OwnTo(text, h, n) ==
  {c \in Comments(text, h + 1, n) : Places(text, {"key", "ips"}, h + 1, c) = {}}

\* The name that waited for header h.
Above(text, h) == Last(text, Waiting(text, Previous(text, h)))

NameTo(text, h, n) ==
  IF Above(text, h) # None THEN Above(text, h) ELSE First(text, OwnTo(text, h, n))

\* What the lines of section h up to line n say: whether it has had a field, its
\* key, its address, and the name that waits.
FieldsTo(text, h, n)  == Places(text, {"key", "ips"}, h + 1, n) # {}
KeyTo(text, h, n)     == Last(text, Places(text, {"key"}, h, n))
IpTo(text, h, n)      == Last(text, Places(text, {"ips"}, h, n))
PendingTo(text, h, n) == Last(text, WaitingTo(text, h, n))

\* A new line is a place of its kind after all others.
LEMMA PlacesNext ==
  ASSUME NEW text, NEW K, NEW a \in Nat, NEW n \in Nat, NEW m \in Nat, m = n + 1, a <= m
  PROVE  Places(text, K, a, m) = IF Is(text, m, K) THEN Places(text, K, a, n) \cup {m}
                                     ELSE Places(text, K, a, n)
<1>1. a .. m = (a .. n) \cup {m}
  OBVIOUS
<1> QED
  BY <1>1 DEF Places, Is

LEMMA PlacesIn ==
  ASSUME NEW text, NEW K, NEW a \in Nat, NEW n \in Nat, a > 0
  PROVE  Places(text, K, a, n) \in SUBSET (1 .. n)
BY DEF Places

LEMMA CommentsNext ==
  ASSUME NEW text, NEW a \in Nat, NEW n \in Nat, NEW m \in Nat, m = n + 1, a <= m
  PROVE  Comments(text, a, m) = IF NamedAt(text, m) THEN Comments(text, a, n) \cup {m}
                                    ELSE Comments(text, a, n)
<1>1. \A c \in Places(text, {"comment"}, a, n) : c # m
  BY DEF Places
<1> QED
  BY <1>1, PlacesNext DEF Comments, NamedAt, Is

LEMMA CommentsIn ==
  ASSUME NEW text, NEW a \in Nat, NEW n \in Nat, a > 0
  PROVE  /\ Comments(text, a, n) \in SUBSET (1 .. n)
         /\ \A c \in Comments(text, a, n) : c >= a /\ ValueAt(text, c) # None
BY DEF Comments, Places, ValueAt

\* A name below the header of peer h is its own until a field comes.
LEMMA OwnNext ==
  ASSUME NEW text, NEW h \in Nat, NEW n \in Nat, NEW m \in Nat, m = n + 1, h <= n
  PROVE  OwnTo(text, h, m) =
           IF NamedAt(text, m) /\ ~ FieldsTo(text, h, n)
           THEN OwnTo(text, h, n) \cup {m} ELSE OwnTo(text, h, n)
<1> DEFINE K == {"key", "ips"}
<1>1. PICK a \in Nat : a = h + 1 /\ a <= m
  OBVIOUS
<1> HIDE DEF K
<1>2. Comments(text, a, m) = IF NamedAt(text, m) THEN Comments(text, a, n) \cup {m}
                             ELSE Comments(text, a, n)
  BY <1>1, CommentsNext
<1>3. Places(text, K, a, m) = IF Is(text, m, K) THEN Places(text, K, a, n) \cup {m}
                              ELSE Places(text, K, a, n)
  BY <1>1, PlacesNext
<1>4. NamedAt(text, m) => Places(text, K, a, m) = Places(text, K, a, n)
  BY <1>3 DEF NamedAt, Is, K
<1> QED
  BY <1>1, <1>2, <1>4 DEF K, OwnTo, FieldsTo

\* A name below a field of peer h waits.
LEMMA PeerWaitingNext ==
  ASSUME NEW text, NEW h \in Nat, NEW n \in Nat, NEW m \in Nat, m = n + 1, h <= n
  PROVE  IsPeer(text, h) =>
         WaitingTo(text, h, m) =
           IF NamedAt(text, m) /\ FieldsTo(text, h, n)
           THEN WaitingTo(text, h, n) \cup {m} ELSE WaitingTo(text, h, n)
<1> DEFINE K == {"key", "ips"}
<1>1. PICK a \in Nat : a = h + 1 /\ a <= m
  OBVIOUS
<1> HIDE DEF K
<1>2. Comments(text, a, m) = IF NamedAt(text, m) THEN Comments(text, a, n) \cup {m}
                             ELSE Comments(text, a, n)
  BY <1>1, CommentsNext
<1>3. Places(text, K, a, m) = IF Is(text, m, K) THEN Places(text, K, a, n) \cup {m}
                              ELSE Places(text, K, a, n)
  BY <1>1, PlacesNext
<1>4. NamedAt(text, m) => Places(text, K, a, m) = Places(text, K, a, n)
  BY <1>3 DEF NamedAt, Is, K
<1> QED
  BY <1>1, <1>2, <1>4 DEF K, WaitingTo, FieldsTo

\* Elsewhere a name waits until a field comes.
LEMMA OtherWaitingNext ==
  ASSUME NEW text, NEW h \in Nat, NEW n \in Nat, NEW m \in Nat, m = n + 1, h <= n
  PROVE  ~ IsPeer(text, h) =>
         WaitingTo(text, h, m) =
           IF Is(text, m, {"key", "ips", "other"}) THEN {}
           ELSE IF NamedAt(text, m) THEN WaitingTo(text, h, n) \cup {m}
           ELSE WaitingTo(text, h, n)
<1> DEFINE K == {"key", "ips", "other"}
<1>0. PICK a \in Nat : a = h + 1 /\ a <= m
  OBVIOUS
<1>1. Comments(text, a, m) = IF NamedAt(text, m) THEN Comments(text, a, n) \cup {m}
                             ELSE Comments(text, a, n)
  BY <1>0, CommentsNext
<1>2. \A c \in Comments(text, a, m) : c \in Nat /\ c <= m
  <2>1. a > 0
    BY <1>0
  <2>2. Comments(text, a, m) \in SUBSET (1 .. m)
    BY <2>1, CommentsIn
  <2> QED
    BY <2>2
<1> HIDE DEF K
<1>3. \A c \in Comments(text, a, m) :
        Places(text, K, c, m) = IF Is(text, m, K) THEN Places(text, K, c, n) \cup {m}
                                    ELSE Places(text, K, c, n)
  <2>1. \A b \in Nat : b <= m =>
          Places(text, K, b, m) = IF Is(text, m, K) THEN Places(text, K, b, n) \cup {m}
                                  ELSE Places(text, K, b, n)
    BY PlacesNext
  <2> QED
    BY <1>2, <2>1
<1>4. Places(text, K, m, n) = {}
  BY DEF Places
<1> SUFFICES ASSUME ~ IsPeer(text, h)
             PROVE  WaitingTo(text, h, m) = IF Is(text, m, K) THEN {}
                                            ELSE IF NamedAt(text, m) THEN WaitingTo(text, h, n) \cup {m}
                                            ELSE WaitingTo(text, h, n)
  BY DEF K
<1>5. CASE Is(text, m, K)
  <2>1. \A c \in Comments(text, a, m) : Places(text, K, c, m) # {}
    BY <1>3, <1>5
  <2>2. {c \in Comments(text, a, m) : Places(text, K, c, m) = {}} = {}
    BY <2>1
  <2> QED
    BY <1>0, <1>5, <2>2 DEF WaitingTo, K
<1>6. CASE ~ Is(text, m, K)
  BY <1>0, <1>1, <1>3, <1>4, <1>6 DEF WaitingTo, K
<1> QED
  BY <1>5, <1>6

LEMMA WaitingIn ==
  ASSUME NEW text, NEW h \in Nat, NEW n \in Nat
  PROVE  /\ WaitingTo(text, h, n) \in SUBSET (1 .. n) /\ OwnTo(text, h, n) \in SUBSET (1 .. n)
         /\ \A c \in OwnTo(text, h, n) : ValueAt(text, c) # None
BY CommentsIn DEF WaitingTo, OwnTo

-----------------------------------------------------------------------------
\* The headers and the ends of their sections.

LEMMA HeadersIn ==
  ASSUME NEW text \in Seq(Lines)
  PROVE  /\ Headers(text) \in SUBSET (1 .. Len(text)) /\ Len(text) \in Nat
         /\ \A g \in 1 .. Len(text) : g \in Headers(text) <=> Is(text, g, {"peer", "section"})
BY DEF Headers, Places, Is

\* The same, of a set without a type of its own.
LEMMA HeadersAre ==
  ASSUME NEW text \in Seq(Lines)
  PROVE  \E H : /\ H = Headers(text) /\ \A g \in H : g \in Nat
                /\ \A g \in H : g >= 1 /\ g <= Len(text)
BY HeadersIn

\* HeaderAt is the last header up to a line, if there is one.
LEMMA HeaderIs ==
  ASSUME NEW text \in Seq(Lines), NEW n \in 0 .. Len(text), NEW h, h = HeaderAt(text, n)
  PROVE  /\ h \in 0 .. n /\ (h = 0 \/ h \in Headers(text))
         /\ \A g \in Headers(text) : g <= n => g <= h
<1>1. PICK H : H = Headers(text) /\ \A g \in H : g \in Nat
  BY HeadersAre
<1>2. n \in Nat
  OBVIOUS
<1> DEFINE S == {g \in H : g <= n}
<1>3. CASE S = {}
  <2>1. h = 0 /\ \A g \in H : ~ (g <= n)
    BY <1>1, <1>3 DEF HeaderAt
  <2> QED
    BY <1>1, <1>2, <2>1
<1>4. CASE S # {}
  <2>1. S \in SUBSET (0 .. n)
    BY <1>1, <1>2
  <2>2. h = Max(S)
    BY <1>1, <1>4 DEF HeaderAt
  <2> HIDE DEF S
  <2>3. h \in S /\ \A y \in S : y <= h
    BY <1>2, <1>4, <2>1, <2>2, MaxOf
  <2>4. h \in 0 .. n
    BY <2>1, <2>3
  <2> QED
    BY <1>1, <2>3, <2>4 DEF S
<1> QED
  BY <1>3, <1>4

\* A header is the one of its own line, and of the lines after it up to the next.
LEMMA HeaderNext ==
  ASSUME NEW text \in Seq(Lines), NEW n \in Nat, NEW m \in 1 .. Len(text), m = n + 1
  PROVE  HeaderAt(text, m) = IF Is(text, m, {"peer", "section"}) THEN m ELSE HeaderAt(text, n)
<1>1. PICK H : H = Headers(text) /\ \A g \in H : g \in Nat
  BY HeadersAre
<1>2. m \in Nat /\ (m \in H <=> Is(text, m, {"peer", "section"}))
  BY <1>1, HeadersIn
<1> DEFINE S == {g \in H : g <= m}
<1>3. CASE m \in H
  <2>1. S \in SUBSET Nat
    BY <1>1
  <2>2. m \in S /\ \A y \in S : y <= m
    BY <1>2, <1>3
  <2> HIDE DEF S
  <2>3. Max(S) = m
    BY <2>1, <2>2, MaxIs
  <2> QED
    BY <1>1, <1>2, <1>3, <2>2, <2>3 DEF HeaderAt, S
<1>4. CASE m \notin H
  <2>1. \A g \in H : g <= m <=> g <= n
    BY <1>1, <1>2, <1>4
  <2>2. S = {g \in H : g <= n}
    BY <2>1
  <2> QED
    BY <1>1, <1>2, <1>4, <2>2 DEF HeaderAt
<1> QED
  BY <1>3, <1>4

LEMMA PreviousIs ==
  ASSUME NEW text \in Seq(Lines), NEW n \in Nat, NEW m \in Nat, m = n + 1
  PROVE  Previous(text, m) = HeaderAt(text, n)
<1>1. PICK H : H = Headers(text) /\ \A g \in H : g \in Nat
  BY HeadersAre
<1>2. \A g \in H : g < m <=> g <= n
  BY <1>1
<1>3. {g \in H : g < m} = {g \in H : g <= n}
  BY <1>2
<1> QED
  BY <1>1, <1>3 DEF Previous, HeaderAt

\* The section of line n ends there if a header or nothing follows.
LEMMA EndIs ==
  ASSUME NEW text \in Seq(Lines), NEW n \in 0 .. Len(text), NEW m \in Nat, m = n + 1,
         n = Len(text) \/ m \in Headers(text), NEW h, h = HeaderAt(text, n)
  PROVE  End(text, h) = n
<1>1. PICK H : H = Headers(text) /\ \A g \in H : g \in Nat /\ g <= Len(text)
  BY HeadersAre
<1>2. Len(text) \in Nat /\ n \in Nat
  OBVIOUS
<1>3. h \in Nat /\ h <= n /\ \A g \in H : g <= n => g <= h
  BY <1>1, HeaderIs
<1> DEFINE S == {g \in H : g > h}
<1>4. \A g \in H : g > h => g >= m
  BY <1>1, <1>2, <1>3
<1>5. CASE n = Len(text)
  <2>1. \A g \in H : ~ (g > h)
    BY <1>1, <1>2, <1>4, <1>5
  <2>2. S = {}
    BY <2>1
  <2> QED
    BY <1>1, <1>5, <2>2 DEF End
<1>6. CASE m \in H
  <2>1. S \in SUBSET Nat
    BY <1>1
  <2>2. m \in S /\ \A y \in S : m <= y
    BY <1>2, <1>3, <1>4, <1>6
  <2> HIDE DEF S
  <2>3. Min(S) = m
    BY <2>1, <2>2, MinIs
  <2>4. End(text, h) = m - 1
    BY <1>1, <2>2, <2>3 DEF End, S
  <2> QED
    BY <2>4
<1> QED
  BY <1>1, <1>5, <1>6

\* The name above a header is the one that waits in the section before it.
LEMMA AboveIs ==
  ASSUME NEW text \in Seq(Lines), NEW n \in Nat, NEW m \in Headers(text), m = n + 1
  PROVE  Above(text, m) = Last(text, WaitingTo(text, HeaderAt(text, n), n))
<1>1. m \in 1 .. Len(text) /\ m \in Nat /\ n \in 0 .. Len(text)
  BY HeadersIn
<1>2. Previous(text, m) = HeaderAt(text, n)
  BY <1>1, PreviousIs
<1>3. End(text, HeaderAt(text, n)) = n
  BY <1>1, EndIs
<1>4. \A g : Waiting(text, g) = WaitingTo(text, g, End(text, g))
  BY DEF Waiting, WaitingTo, IsPeer
<1> QED
  BY <1>2, <1>3, <1>4 DEF Above

-----------------------------------------------------------------------------
\* The peers of the sections before header h, in their order.
PeersBefore(text, h, peers) ==
  /\ Len(peers) = Cardinality({g \in PeerHeaders(text) : g < h})
  /\ \A g \in PeerHeaders(text) :
       g < h => peers[Cardinality({x \in PeerHeaders(text) : x <= g})] = PeerAt(text, g)

LEMMA PeerHeadersIn ==
  ASSUME NEW text \in Seq(Lines)
  PROVE  PeerHeaders(text) \in SUBSET (1 .. Len(text)) /\ PeerHeaders(text) \in SUBSET Headers(text)
BY DEF PeerHeaders, Places, Headers

\* The peer of one more section.
LEMMA PeersNext ==
  ASSUME NEW text \in Seq(Lines), NEW peers \in Seq(ConfigPeer), NEW h \in Nat, NEW m \in Nat,
         h < m, PeersBefore(text, h, peers), h \in PeerHeaders(text) => PeerAt(text, h) \in ConfigPeer,
         \A g \in PeerHeaders(text) : g < m => g <= h
  PROVE  PeersBefore(text, m, IF h \in PeerHeaders(text) THEN Append(peers, PeerAt(text, h)) ELSE peers)
<1>1. PICK H : H = PeerHeaders(text) /\ \A g \in H : g \in Nat
  BY PeerHeadersIn
<1> DEFINE C == {g \in H : g < h}
           D == {g \in H : g < m}
           U(g) == {x \in H : x <= g}
           len == Len(peers)
<1>2. Len(peers) = Cardinality(C) /\ \A g \in C : peers[Cardinality(U(g))] = PeerAt(text, g)
  BY <1>1 DEF PeersBefore
<1>3. \A g \in H : g < m => g <= h
  BY <1>1
<1>4. IsFiniteSet(H)
  <2>1. IsFiniteSet(1 .. Len(text))
    BY FS_Interval
  <2>2. H \subseteq 1 .. Len(text)
    BY <1>1, PeerHeadersIn
  <2> QED
    BY <2>1, <2>2, FS_Subset
<1>5. IsFiniteSet(C)
  <2>1. C \in SUBSET H
    OBVIOUS
  <2> HIDE DEF C
  <2> QED
    BY <1>4, <2>1, FS_Subset
<1>6. CASE h \notin H
  <2>1. \A g \in H : g < m <=> g < h
    BY <1>1, <1>3, <1>6
  <2>2. D = C
    BY <2>1
  <2> QED
    BY <1>1, <1>2, <1>6, <2>1, <2>2 DEF PeersBefore
<1>7. CASE h \in H
  <2> DEFINE e == PeerAt(text, h)
             new == Append(peers, e)
  <2>1. e \in ConfigPeer
    BY <1>1, <1>7
  <2> HIDE DEF e
  <2>2. len \in Nat /\ Len(new) = len + 1 /\ new[len + 1] = e /\ \A i \in 1 .. len : new[i] = peers[i]
    BY <2>1
  <2>3. \A g \in H : (g < m <=> g < h \/ g = h) /\ (g < m <=> g <= h)
    BY <1>1, <1>3
  <2>4. D = C \cup {h} /\ h \notin C /\ U(h) = D
    <3>1. h < m /\ ~ (h < h)
      OBVIOUS
    <3>2. \A g \in H : g \in D <=> g \in C \cup {h}
      BY <2>3
    <3>3. D = C \cup {h}
      BY <1>7, <3>2
    <3>4. U(h) = D
      BY <2>3
    <3> QED
      BY <3>1, <3>3, <3>4
  <2>5. Cardinality(D) = len + 1
    <3> HIDE DEF C, D
    <3> QED
      BY <1>2, <1>5, <2>4, FS_AddElement
  <2>6. ASSUME NEW g \in C PROVE new[Cardinality(U(g))] = PeerAt(text, g)
    <3> DEFINE V == U(g)
    <3>1. \A x \in H : x <= g => x < h
      BY <1>1
    <3>2. V \in SUBSET C /\ g \in V
      BY <1>1, <3>1
    <3> HIDE DEF V, C
    <3>3. IsFiniteSet(V) /\ Cardinality(V) <= Cardinality(C) /\ Cardinality(V) # 0
      BY <1>5, <3>2, FS_Subset, FS_EmptySet
    <3>4. Cardinality(V) \in Nat /\ Cardinality(C) \in Nat
      BY <1>5, <3>3, FS_CardinalityType
    <3>5. Cardinality(V) \in 1 .. len
      BY <1>2, <3>3, <3>4
    <3> QED
      BY <1>2, <2>2, <3>5 DEF V
  <2>7. ASSUME NEW g \in H, g < m PROVE new[Cardinality(U(g))] = PeerAt(text, g)
    <3>1. CASE g = h
      BY <2>2, <2>4, <2>5, <3>1 DEF e
    <3>2. CASE g # h
      <4>1. g \in C
        BY <2>3, <2>7, <3>2
      <4> QED
        BY <2>6, <4>1
    <3> QED
      BY <3>1, <3>2
  <2>8. PeersBefore(text, m, new)
    BY <1>1, <2>2, <2>5, <2>7 DEF PeersBefore
  <2> QED
    BY <1>1, <1>7, <2>8 DEF e
<1> QED
  BY <1>1, <1>6, <1>7

-----------------------------------------------------------------------------
LEMMA ValuesNext ==
  ASSUME NEW text, NEW h \in Nat, NEW n \in Nat, NEW m \in Nat, m = n + 1, h <= n, h > 0
  PROVE  /\ KeyTo(text, h, m) = IF Is(text, m, {"key"}) THEN ValueAt(text, m) ELSE KeyTo(text, h, n)
         /\ IpTo(text, h, m) = IF Is(text, m, {"ips"}) THEN ValueAt(text, m) ELSE IpTo(text, h, n)
<1>1. h <= m
  OBVIOUS
<1>2. ASSUME NEW K
      PROVE  Last(text, Places(text, K, h, m)) = IF Is(text, m, K) THEN ValueAt(text, m)
                                                 ELSE Last(text, Places(text, K, h, n))
  <2> DEFINE S == Places(text, K, h, n)
  <2>1. S \in SUBSET (1 .. n)
    BY PlacesIn
  <2>2. Places(text, K, h, m) = IF Is(text, m, K) THEN S \cup {m} ELSE S
    BY <1>1, PlacesNext
  <2> HIDE DEF S
  <2>3. Last(text, S \cup {m}) = ValueAt(text, m)
    BY <2>1, LastNext
  <2> QED
    BY <2>2, <2>3 DEF S
<1> QED
  BY <1>2 DEF KeyTo, IpTo

LEMMA FieldsNext ==
  ASSUME NEW text, NEW h \in Nat, NEW n \in Nat, NEW m \in Nat, m = n + 1, h <= n
  PROVE  FieldsTo(text, h, m) <=> FieldsTo(text, h, n) \/ Is(text, m, {"key", "ips"})
<1>1. PICK a \in Nat : a = h + 1 /\ a <= m
  OBVIOUS
<1>2. Places(text, {"key", "ips"}, a, m) =
        IF Is(text, m, {"key", "ips"}) THEN Places(text, {"key", "ips"}, a, n) \cup {m}
        ELSE Places(text, {"key", "ips"}, a, n)
  BY <1>1, PlacesNext
<1> QED
  BY <1>1, <1>2 DEF FieldsTo

LEMMA NameNext ==
  ASSUME NEW text, NEW h \in Nat, NEW n \in Nat, NEW m \in Nat, m = n + 1, h <= n
  PROVE  NameTo(text, h, m) =
           IF NamedAt(text, m) /\ ~ FieldsTo(text, h, n) /\ NameTo(text, h, n) = None
           THEN ValueAt(text, m) ELSE NameTo(text, h, n)
<1> DEFINE S == OwnTo(text, h, n)
           b == Above(text, h)
<1>1. OwnTo(text, h, m) = IF NamedAt(text, m) /\ ~ FieldsTo(text, h, n) THEN S \cup {m} ELSE S
  BY OwnNext
<1>2. S \in SUBSET (1 .. n) /\ \A c \in S : ValueAt(text, c) # None
  BY WaitingIn
<1>3. NameTo(text, h, n) = IF b # None THEN b ELSE First(text, S)
  BY DEF NameTo
<1>4. NameTo(text, h, m) = IF b # None THEN b ELSE First(text, OwnTo(text, h, m))
  BY DEF NameTo
<1> HIDE DEF S, b
<1>5. First(text, S \cup {m}) = IF S = {} THEN ValueAt(text, m) ELSE First(text, S)
  BY <1>2, FirstNext
<1>6. First(text, S) = None <=> S = {}
  <2>1. S \in SUBSET Nat
    BY <1>2
  <2>2. S # {} => Min(S) \in S
    BY <2>1, MinOf
  <2> QED
    BY <1>2, <2>2 DEF First, ValueAt
<1> QED
  BY <1>1, <1>3, <1>4, <1>5, <1>6

LEMMA PendingNext ==
  ASSUME NEW text, NEW h \in Nat, NEW n \in Nat, NEW m \in Nat, m = n + 1, h <= n
  PROVE  PendingTo(text, h, m) =
           IF IsPeer(text, h)
           THEN IF NamedAt(text, m) /\ FieldsTo(text, h, n) THEN ValueAt(text, m)
                ELSE PendingTo(text, h, n)
           ELSE IF Is(text, m, {"key", "ips", "other"}) THEN None
           ELSE IF NamedAt(text, m) THEN ValueAt(text, m) ELSE PendingTo(text, h, n)
<1> DEFINE S == WaitingTo(text, h, n)
<1>1. S \in SUBSET (1 .. n)
  BY WaitingIn
<1>2. IsPeer(text, h) => WaitingTo(text, h, m) =
        IF NamedAt(text, m) /\ FieldsTo(text, h, n) THEN S \cup {m} ELSE S
  BY PeerWaitingNext
<1>3. ~ IsPeer(text, h) => WaitingTo(text, h, m) =
        IF Is(text, m, {"key", "ips", "other"}) THEN {}
        ELSE IF NamedAt(text, m) THEN S \cup {m} ELSE S
  BY OtherWaitingNext
<1>4. PendingTo(text, h, n) = Last(text, S) /\ PendingTo(text, h, m) = Last(text, WaitingTo(text, h, m))
  BY DEF PendingTo
<1> HIDE DEF S
<1>5. Last(text, S \cup {m}) = ValueAt(text, m) /\ Last(text, {}) = None
  BY <1>1, LastNext DEF Last
<1> QED
  BY <1>2, <1>3, <1>4, <1>5

\* Nothing yet at the header itself, but for the name above it.
LEMMA AtHeader ==
  ASSUME NEW text, NEW m \in Nat, m > 0, Is(text, m, {"peer", "section"})
  PROVE  /\ KeyTo(text, m, m) = None /\ IpTo(text, m, m) = None /\ PendingTo(text, m, m) = None
         /\ ~ FieldsTo(text, m, m) /\ NameTo(text, m, m) = Above(text, m)
<1>1. (m + 1) .. m = {} /\ m .. m = {m}
  OBVIOUS
<1>2. \A K : Places(text, K, m + 1, m) = {}
  BY <1>1 DEF Places
<1>3. Places(text, {"key"}, m, m) = {} /\ Places(text, {"ips"}, m, m) = {}
  BY <1>1 DEF Places, Is
<1>4. Comments(text, m + 1, m) = {}
  BY <1>2 DEF Comments
<1>5. WaitingTo(text, m, m) = {} /\ OwnTo(text, m, m) = {}
  BY <1>4 DEF WaitingTo, OwnTo
<1>6. Last(text, {}) = None /\ First(text, {}) = None
  BY DEF Last, First
<1> QED
  BY <1>2, <1>3, <1>5, <1>6 DEF KeyTo, IpTo, PendingTo, FieldsTo, NameTo

-----------------------------------------------------------------------------
\* The state after line n, of section h, is the one its lines give.
RightAt(text, h, n, s) ==
  /\ s.inPeer <=> IsPeer(text, h)
  /\ s.inPeer => /\ s.fields <=> FieldsTo(text, h, n)
                 /\ s.key = KeyTo(text, h, n) /\ s.ip = IpTo(text, h, n)
                 /\ s.name = NameTo(text, h, n)
  /\ s.pending = PendingTo(text, h, n)
  /\ PeersBefore(text, h, s.peers)

\* A section that ends adds its peer if it describes one.
LEMMA FlushRight ==
  ASSUME NEW text \in Seq(Lines), NEW n \in Nat, NEW h \in 0 .. Len(text), End(text, h) = n,
         NEW s \in States, RightAt(text, h, n, s)
  PROVE  /\ FlushPeer(s) = IF h \in PeerHeaders(text) THEN Append(s.peers, PeerAt(text, h)) ELSE s.peers
         /\ h \in PeerHeaders(text) => PeerAt(text, h) \in ConfigPeer
<1>1. Waiting(text, Previous(text, h)) = WaitingTo(text, Previous(text, h), End(text, Previous(text, h)))
      /\ Own(text, h) = OwnTo(text, h, n)
  BY DEF Waiting, WaitingTo, IsPeer, Own, OwnTo
<1>2. NameOf(text, h) = NameTo(text, h, n)
  BY <1>1 DEF NameOf, NameTo, Above
<1>3. PeerAt(text, h) = [key |-> KeyTo(text, h, n), ip |-> IpTo(text, h, n), name |-> NameTo(text, h, n)]
  BY <1>2 DEF PeerAt, KeyTo, IpTo
<1>4. h \in PeerHeaders(text) <=>
        IsPeer(text, h) /\ KeyTo(text, h, n) # None /\ IpTo(text, h, n) # None
  BY <1>3 DEF PeerHeaders, Places, IsPeer
<1>5. /\ s.inPeer <=> IsPeer(text, h)
      /\ s.inPeer => /\ s.key = KeyTo(text, h, n) /\ s.ip = IpTo(text, h, n)
                     /\ s.name = NameTo(text, h, n)
  BY DEF RightAt
<1>6. /\ s.inPeer \in BOOLEAN /\ s.key \in Keys \cup {None} /\ s.ip \in Ips \cup {None}
      /\ s.name \in Names \cup {None}
  BY DEF States
<1>7. CASE h \in PeerHeaders(text)
  <2>1. PeerAt(text, h) = [key |-> s.key, ip |-> s.ip, name |-> s.name]
    BY <1>3, <1>4, <1>5, <1>7
  <2>2. s.inPeer /\ s.key # None /\ s.ip # None
    BY <1>4, <1>5, <1>7
  <2> QED
    BY <1>6, <1>7, <2>1, <2>2 DEF FlushPeer, ConfigPeer
<1>8. CASE h \notin PeerHeaders(text)
  BY <1>4, <1>5, <1>8 DEF FlushPeer
<1> QED
  BY <1>7, <1>8

\* What a line that is no header changes of the state.
Changes(s, l, r) ==
  /\ r.inPeer = s.inPeer /\ r.peers = s.peers
  /\ r.fields = IF s.inPeer /\ l.is \in {"key", "ips"} THEN TRUE ELSE s.fields
  /\ r.key = IF s.inPeer /\ l.is = "key" THEN l.val ELSE s.key
  /\ r.ip = IF s.inPeer /\ l.is = "ips" THEN l.val ELSE s.ip
  /\ r.name = IF s.inPeer /\ l.is = "comment" /\ l.val # None /\ ~ s.fields /\ s.name = None
              THEN l.val ELSE s.name
  /\ r.pending = IF l.is = "comment" /\ l.val # None /\ (s.inPeer => s.fields) THEN l.val
                 ELSE IF ~ s.inPeer /\ l.is \in {"key", "ips", "other"} THEN None
                 ELSE s.pending

LEMMA ReadRest ==
  ASSUME NEW s \in States, NEW l \in Lines, l.is \notin {"peer", "section"}
  PROVE  Changes(s, l, ReadLine(s, l))
<1> PICK r : r = ReadLine(s, l)
  OBVIOUS
<1> USE DEF Changes
<1>1. CASE l.is = "comment"
  <2>1. r = IF l.val = None THEN s ELSE Comment(s, l.val)
    BY <1>1 DEF ReadLine
  <2>2. CASE l.val = None
    BY <1>1, <2>1, <2>2
  <2>3. CASE l.val # None /\ s.inPeer /\ ~ s.fields
    <3>1. r = [s EXCEPT !.name = IF s.name = None THEN l.val ELSE s.name]
      BY <2>1, <2>3 DEF Comment
    <3> QED
      BY <1>1, <2>3, <3>1 DEF States
  <2>4. CASE l.val # None /\ ~ (s.inPeer /\ ~ s.fields)
    <3>1. r = [s EXCEPT !.pending = l.val]
      BY <2>1, <2>4 DEF Comment
    <3> QED
      BY <1>1, <2>4, <3>1 DEF States
  <2> QED
    BY <2>2, <2>3, <2>4
<1>2. CASE l.is \in {"key", "ips", "other"}
  <2>1. r = Field(s, l)
    BY <1>2 DEF ReadLine
  <2>2. CASE ~ s.inPeer
    <3>1. r = [s EXCEPT !.pending = None]
      BY <2>1, <2>2 DEF Field
    <3> QED
      BY <1>2, <2>2, <3>1 DEF States
  <2>3. CASE s.inPeer /\ l.is = "key"
    <3>1. r = [s EXCEPT !.key = l.val, !.fields = TRUE]
      BY <2>1, <2>3 DEF Field
    <3> QED
      BY <2>3, <3>1 DEF States
  <2>4. CASE s.inPeer /\ l.is = "ips"
    <3>1. r = [s EXCEPT !.ip = l.val, !.fields = TRUE]
      BY <2>1, <2>4 DEF Field
    <3> QED
      BY <2>4, <3>1 DEF States
  <2>5. CASE s.inPeer /\ l.is = "other"
    <3>1. r = s
      BY <2>1, <2>5 DEF Field
    <3> QED
      BY <2>5, <3>1
  <2> QED
    BY <1>2, <2>2, <2>3, <2>4, <2>5
<1> QED
  BY <1>1, <1>2 DEF Lines

\* A header closes the section before it and begins its own.
LEMMA HeaderRight ==
  ASSUME NEW text \in Seq(Lines), NEW n \in Nat, NEW m \in 1 .. Len(text), m = n + 1,
         NEW h, h = HeaderAt(text, n), NEW s \in States, RightAt(text, h, n, s),
         Is(text, m, {"peer", "section"}), NEW l \in Lines, l = text[m]
  PROVE  RightAt(text, m, m, ReadLine(s, l))
<1> DEFINE r == ReadLine(s, l)
           p == l.is = "peer"
<1>1. r = Header(s, p)
  BY DEF Is, ReadLine
<1>2. /\ r.inPeer = p /\ r.fields = FALSE /\ r.key = None /\ r.ip = None /\ r.pending = None
      /\ r.name = (IF p THEN s.pending ELSE None) /\ r.peers = FlushPeer(s)
  BY <1>1 DEF Header, Begin
<1>3. m \in Nat /\ m > 0 /\ n \in 0 .. Len(text)
  OBVIOUS
<1>4. m \in Headers(text)
  BY HeadersIn
<1>5. h \in 0 .. n /\ \A g \in Headers(text) : g <= n => g <= h
  BY <1>3, HeaderIs
<1>6. IsPeer(text, m) <=> p
  BY <1>3 DEF IsPeer
<1>7. /\ KeyTo(text, m, m) = None /\ IpTo(text, m, m) = None /\ PendingTo(text, m, m) = None
      /\ ~ FieldsTo(text, m, m) /\ NameTo(text, m, m) = Above(text, m)
  BY <1>3, AtHeader
<1>8. Above(text, m) = s.pending
  BY <1>4, AboveIs DEF RightAt, PendingTo
<1>9. PeersBefore(text, m, FlushPeer(s))
  <2>1. End(text, h) = n
    BY <1>3, <1>4, EndIs
  <2>2. h \in 0 .. Len(text) /\ h \in Nat /\ h < m
    BY <1>3, <1>5
  <2>3. /\ FlushPeer(s) = IF h \in PeerHeaders(text) THEN Append(s.peers, PeerAt(text, h)) ELSE s.peers
        /\ h \in PeerHeaders(text) => PeerAt(text, h) \in ConfigPeer
    BY <2>1, <2>2, FlushRight
  <2>4. \A g \in PeerHeaders(text) : g < m => g <= h
    <3>1. PICK H : H = PeerHeaders(text) /\ \A g \in H : g \in Nat
      BY PeerHeadersIn
    <3>2. \A g \in H : g \in Headers(text)
      BY <3>1, PeerHeadersIn
    <3>3. \A g \in H : g < m => g <= n
      BY <3>1
    <3> QED
      BY <1>5, <3>1, <3>2, <3>3
  <2>5. s.peers \in Seq(ConfigPeer) /\ PeersBefore(text, h, s.peers)
    BY DEF States, RightAt
  <2> QED
    BY <1>3, <2>2, <2>3, <2>4, <2>5, PeersNext
<1> HIDE DEF r, p
<1>10. RightAt(text, m, m, r)
  BY <1>2, <1>6, <1>7, <1>8, <1>9 DEF RightAt
<1> QED
  BY <1>10 DEF r

\* Another line adds to its section.
LEMMA RestRight ==
  ASSUME NEW text \in Seq(Lines), NEW n \in Nat, NEW m \in 1 .. Len(text), m = n + 1,
         NEW h, h = HeaderAt(text, n), NEW s \in States, RightAt(text, h, n, s),
         ~ Is(text, m, {"peer", "section"}), NEW l \in Lines, l = text[m]
  PROVE  RightAt(text, h, m, ReadLine(s, l))
<1> DEFINE r == ReadLine(s, l)
           q == IsPeer(text, h)
<1>1. /\ \A K : Is(text, m, K) <=> l.is \in K
      /\ NamedAt(text, m) <=> l.is = "comment" /\ l.val # None
      /\ ValueAt(text, m) = l.val
  BY DEF Is, NamedAt, ValueAt
<1>2. l.is \notin {"peer", "section"}
  BY DEF Is
<1>3. Changes(s, l, r)
  BY <1>2, ReadRest
<1>4. m \in Nat /\ n \in 0 .. Len(text)
  OBVIOUS
<1>5. h \in Nat /\ h <= n
  BY <1>4, HeaderIs
<1>6. q => h > 0
  BY DEF IsPeer
<1>7. h > 0 =>
      /\ KeyTo(text, h, m) = IF Is(text, m, {"key"}) THEN ValueAt(text, m) ELSE KeyTo(text, h, n)
      /\ IpTo(text, h, m) = IF Is(text, m, {"ips"}) THEN ValueAt(text, m) ELSE IpTo(text, h, n)
  BY <1>4, <1>5, ValuesNext
<1>8. FieldsTo(text, h, m) <=> FieldsTo(text, h, n) \/ Is(text, m, {"key", "ips"})
  BY <1>4, <1>5, FieldsNext
<1>9. NameTo(text, h, m) =
        IF NamedAt(text, m) /\ ~ FieldsTo(text, h, n) /\ NameTo(text, h, n) = None
        THEN ValueAt(text, m) ELSE NameTo(text, h, n)
  BY <1>4, <1>5, NameNext
<1>10. PendingTo(text, h, m) =
         IF q THEN IF NamedAt(text, m) /\ FieldsTo(text, h, n) THEN ValueAt(text, m)
                   ELSE PendingTo(text, h, n)
         ELSE IF Is(text, m, {"key", "ips", "other"}) THEN None
         ELSE IF NamedAt(text, m) THEN ValueAt(text, m) ELSE PendingTo(text, h, n)
  BY <1>4, <1>5, PendingNext
<1>11. /\ s.inPeer <=> q
       /\ s.inPeer => /\ s.fields <=> FieldsTo(text, h, n)
                      /\ s.key = KeyTo(text, h, n) /\ s.ip = IpTo(text, h, n)
                      /\ s.name = NameTo(text, h, n)
       /\ s.pending = PendingTo(text, h, n)
       /\ PeersBefore(text, h, s.peers)
  BY DEF RightAt
<1>12. s.inPeer \in BOOLEAN /\ s.fields \in BOOLEAN
  BY DEF States
<1> HIDE DEF r, q
<1>13. (r.inPeer <=> q) /\ PeersBefore(text, h, r.peers)
  BY <1>3, <1>11, <1>12 DEF Changes
<1>14. r.pending = PendingTo(text, h, m)
  BY <1>1, <1>3, <1>10, <1>11, <1>12 DEF Changes
<1>15. ASSUME r.inPeer
       PROVE  /\ r.fields <=> FieldsTo(text, h, m)
              /\ r.key = KeyTo(text, h, m) /\ r.ip = IpTo(text, h, m)
              /\ r.name = NameTo(text, h, m)
  <2>1. q /\ s.inPeer /\ h > 0
    BY <1>3, <1>6, <1>11, <1>15 DEF Changes
  <2>2. r.fields <=> FieldsTo(text, h, m)
    BY <1>1, <1>3, <1>8, <1>11, <1>12, <2>1 DEF Changes
  <2>3. r.key = KeyTo(text, h, m) /\ r.ip = IpTo(text, h, m)
    BY <1>1, <1>3, <1>7, <1>11, <2>1 DEF Changes
  <2>4. r.name = NameTo(text, h, m)
    BY <1>1, <1>3, <1>9, <1>11, <1>12, <2>1 DEF Changes
  <2> QED
    BY <2>2, <2>3, <2>4
<1>16. RightAt(text, h, m, r)
  BY <1>13, <1>14, <1>15 DEF RightAt, q
<1> QED
  BY <1>16 DEF r

\* Every line leaves the state right.
LEMMA AfterRight ==
  ASSUME NEW text \in Seq(Lines)
  PROVE  \A n \in 0 .. Len(text) : RightAt(text, HeaderAt(text, n), n, After(text)[n])
<1> DEFINE f == After(text)
           R(n) == RightAt(text, HeaderAt(text, n), n, f[n])
           T == {n \in 0 .. Len(text) : R(n)}
<1>1. /\ f \in [0 .. Len(text) -> States] /\ f[0] = Begin
      /\ \A n \in 1 .. Len(text) : f[n] = ReadLine(f[n - 1], text[n])
  BY AfterSteps
<1> HIDE DEF f
<1>2. Len(text) \in Nat
  OBVIOUS
<1>3. R(0)
  <2>1. HeaderAt(text, 0) = 0
    BY <1>2, HeaderIs
  <2>2. WaitingTo(text, 0, 0) = {}
    <3>1. 0 + 1 = 1 /\ 1 .. 0 = {}
      OBVIOUS
    <3> QED
      BY <3>1 DEF WaitingTo, Comments, Places
  <2>3. PeersBefore(text, 0, <<>>)
    <3>1. PICK H : H = PeerHeaders(text) /\ \A g \in H : g \in Nat
      BY PeerHeadersIn
    <3>2. \A g \in H : ~ (g < 0)
      BY <3>1
    <3>3. {g \in H : g < 0} = {}
      BY <3>2
    <3> QED
      BY <3>1, <3>2, <3>3, FS_EmptySet DEF PeersBefore
  <2>4. /\ Begin.inPeer = FALSE /\ Begin.pending = None /\ Begin.peers = <<>>
        /\ ~ IsPeer(text, 0) /\ PendingTo(text, 0, 0) = None
    BY <2>2 DEF Begin, IsPeer, PendingTo, Last
  <2>5. RightAt(text, 0, 0, Begin)
    BY <2>3, <2>4 DEF RightAt
  <2> QED
    BY <1>1, <2>1, <2>5
<1>4. ASSUME NEW n \in 0 .. Len(text) - 1, R(n)
      PROVE  R(n + 1)
  <2> PICK m : m = n + 1
    OBVIOUS
  <2> PICK h : h = HeaderAt(text, n)
    OBVIOUS
  <2> PICK s : s = f[n]
    OBVIOUS
  <2> PICK l : l = text[m]
    OBVIOUS
  <2>1. n \in Nat /\ m \in 1 .. Len(text) /\ n \in 0 .. Len(text) /\ m - 1 = n
    BY <1>2
  <2>2. s \in States /\ l \in Lines /\ f[m] = ReadLine(s, l)
    BY <1>1, <2>1
  <2>3. RightAt(text, h, n, s)
    BY <1>4
  <2>4. HeaderAt(text, m) = IF Is(text, m, {"peer", "section"}) THEN m ELSE h
    BY <2>1, HeaderNext
  <2>5. CASE Is(text, m, {"peer", "section"})
    BY <2>1, <2>2, <2>3, <2>4, <2>5, HeaderRight
  <2>6. CASE ~ Is(text, m, {"peer", "section"})
    BY <2>1, <2>2, <2>3, <2>4, <2>6, RestRight
  <2> QED
    BY <2>5, <2>6
<1> HIDE DEF R
<1>5. 0 \in T /\ \A n \in 0 .. Len(text) - 1 : n \in T => n + 1 \in T
  BY <1>2, <1>3, <1>4
<1> HIDE DEF T
<1>6. \A n \in 0 .. Len(text) : n \in T
  BY <1>2, <1>5, AllUpTo
<1> QED
  BY <1>6 DEF T, R, f

\* parse_wireguard_config reads every text as its sections say: one peer for each
\* section that has a key and an address, in their order, each with its last key,
\* its last addresses and the name its comments give it.
THEOREM ParsedRight ==
  ASSUME NEW text \in Seq(Lines)
  PROVE  ReadRight(text)
<1> DEFINE N == Len(text)
           h == HeaderAt(text, N)
           s == After(text)[N]
           q == Parsed(text)
<1>1. N \in Nat
  OBVIOUS
<1>2. s \in States /\ RightAt(text, h, N, s) /\ q = FlushPeer(s)
  BY <1>1, AfterSteps, AfterRight DEF Parsed
<1> HIDE DEF s
<1>3. h \in 0 .. N /\ \A g \in Headers(text) : g <= N => g <= h
  BY <1>1, HeaderIs
<1>4. End(text, h) = N
  BY <1>1, EndIs
<1> HIDE DEF h
<1>5. /\ q = IF h \in PeerHeaders(text) THEN Append(s.peers, PeerAt(text, h)) ELSE s.peers
      /\ h \in PeerHeaders(text) => PeerAt(text, h) \in ConfigPeer
  BY <1>1, <1>2, <1>3, <1>4, FlushRight
<1> HIDE DEF q
<1>6. PICK H : /\ H = PeerHeaders(text) /\ \A g \in H : g \in Nat
               /\ \A g \in H : g <= N /\ g \in Headers(text)
  BY PeerHeadersIn
<1>7. \A g \in H : g < N + 1 /\ g <= h
  BY <1>1, <1>3, <1>6
<1>8. PeersBefore(text, N + 1, q)
  <2> PICK m \in Nat : m = N + 1
    BY <1>1
  <2>1. s.peers \in Seq(ConfigPeer) /\ PeersBefore(text, h, s.peers)
    BY <1>2 DEF States, RightAt
  <2>2. \A g \in PeerHeaders(text) : g < m => g <= h
    BY <1>6, <1>7
  <2>3. h \in Nat /\ h < m
    BY <1>1, <1>3
  <2> HIDE DEF N
  <2>4. PeersBefore(text, m, q)
    BY <1>5, <2>1, <2>2, <2>3, PeersNext
  <2> QED
    BY <2>4
<1>9. {g \in H : g < N + 1} = H
  BY <1>7
<1> QED
  BY <1>6, <1>7, <1>8, <1>9 DEF PeersBefore, ReadRight, q

=============================================================================
