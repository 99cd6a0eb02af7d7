--------------------------- MODULE MCSessionExport ---------------------------
(* Two requests on two sessions.  What a download converts is any of the   *)
(* generated sessions.                                                     *)
EXTENDS SessionExport, TLC

Symmetric == Permutations(Requests)

Bytes(json, bytes) == [json |-> json, bytes |-> bytes]

\* The topic "a" is an int, and a string after robot code has restarted; the
\* topics "b" and "c" have types Convert promotes or does not know.
MCLines ==
  {Data("int", "a", Bytes("number", <<1, 0>>), 5, s) : s \in {0, 4, 6, 9}}
    \cup {Data("int", "a", Bytes("string", <<1>>), 8, 9), Data("int", "a", Bytes("number", <<1>>), 1, 0)}
    \cup {Data("string", "a", Bytes("string", b), 8, 9) : b \in {<<>>, <<0, 1, 1, 0>>}}
    \cup {Data("float", "b", Bytes("number", <<0, 1, 0>>), 8, s) : s \in {2, 20}}
    \cup {Data("unknown", "c", Bytes("string", <<1>>), 5, 3), Other("malformed", 0)}
    \cup {Other(m, t) : m \in Markers, t \in {2, 5, 8}}

Start == <<Other("session_start", 3)>>

UpTo(n) == UNION {[1..k -> MCLines] : k \in 0..n}

\* Every type of topic at once, so that ids need more bytes.
Wide ==
  << Data("int", "a", Bytes("number", <<1>>), 5, 4), Data("unknown", "c", Bytes("string", <<>>), 5, 3),
     Data("string", "a", Bytes("string", <<1>>), 5, 7), Data("float", "b", Bytes("number", <<1>>), 5, 5) >>

MCSessions ==
  UpTo(2) \cup {Start \o s : s \in UpTo(3)} \cup {Start \o Wide \o s : s \in UpTo(2)}
=============================================================================
