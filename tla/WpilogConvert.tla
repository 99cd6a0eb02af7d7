---------------------------- MODULE WpilogConvert ----------------------------
(***************************************************************************)
(* wpilog.Convert: the lines of a session become a WPILog stream.  Names,  *)
(* types and the bytes of a value are opaque; ids, sizes and timestamps    *)
(* are written with the format's variable lengths, in base Base for 256.   *)
(***************************************************************************)
EXTENDS Integers, Sequences, FiniteSets

CONSTANTS
  Base,      \* the values of a byte
  Sessions   \* the line sequences the properties are checked on

ASSUME ConvertAssumption == Base \in Nat \ {0, 1}

\* Lines as the logger writes them; value is what JSON makes of a value and the
\* bytes it stands for in its type.
Data(type, key, value, ts, serverTs) ==
  [type |-> type, key |-> key, value |-> value, ts |-> ts, serverTs |-> serverTs]
Other(type, ts) == [type |-> type, ts |-> ts]

MatchEvent == "/RavenLink/MatchEvent"

Concat(pieces) ==
  LET upTo[i \in 0..Len(pieces)] == IF i = 0 THEN <<>> ELSE upTo[i - 1] \o pieces[i]
  IN  upTo[Len(pieces)]

\* The elements of s at these places.
Only(s, places) == Concat([i \in DOMAIN s |-> IF i \in places THEN <<s[i]>> ELSE <<>>])

-----------------------------------------------------------------------------
(* types.go *)

MapNT4Type(type) ==
  CASE type = "int" -> "int64" [] type = "float" -> "double" [] OTHER -> type

\* The JSON value EncodeValue takes for a type; arrays have a type each.
Encoding ==
  [ boolean |-> "bool", double |-> "number", float |-> "number", int |-> "number",
    string |-> "string", json |-> "string", raw |-> "string", struct |-> "string" ]

Encodable(l) == l.type \in DOMAIN Encoding /\ l.value.json = Encoding[l.type]

-----------------------------------------------------------------------------
(* encoder.go *)

\* What n bytes can count to.
pow[n \in 0..8] == IF n = 0 THEN 1 ELSE Base * pow[n - 1]

\* The loop grows n until v fits.
minBytes(v, max) ==
  CHOOSE n \in 1..max : (n = max \/ v < pow[n]) /\ \A m \in 1..n - 1 : v >= pow[m]

\* Little-endian, cut to n bytes.
putVarInt(v, n) == [i \in 1..n |-> (v \div pow[i - 1]) % Base]

writeRecord(id, ts, payload) ==
  LET e == minBytes(id, 4)
      s == minBytes(Len(payload), 4)
      t == minBytes(ts, 8)
  IN  <<(e - 1) + 4 * (s - 1) + 16 * (t - 1)>>
        \o putVarInt(id, e) \o putVarInt(Len(payload), s) \o putVarInt(ts, t) \o payload

WriteStartRecord(id, name, type) ==
  writeRecord(0, 0, <<0>> \o putVarInt(id, 4) \o <<name, type>>)

WriteHeader == <<"WPILOG">>

-----------------------------------------------------------------------------
(* convert.go *)

Markers == {"match_start", "match_end"}

\* Lines that cannot be parsed carry the type "malformed" here.
IsData(l) == l.type \notin Markers \cup {"session_start", "session_end", "malformed"} /\ "key" \in DOMAIN l
IsMarker(l) == l.type \in Markers

dataLines(text) == Only(text, {i \in DOMAIN text : IsData(text[i])})
markerLines(text) == Only(text, {i \in DOMAIN text : IsMarker(text[i])})
encodable(data) == Only(data, {i \in DOMAIN data : Encodable(data[i])})

\* Mutant: a topic is its name, whatever type it has had.
topicKey_ByName(l) == l.key

topicKey(l) == <<l.key, l.type>>

\* Entry ids number the topics in the order they are first seen.
entryID(data, l) ==
  LET first == CHOOSE i \in DOMAIN data :
        topicKey(data[i]) = topicKey(l) /\ \A j \in 1..i - 1 : topicKey(data[j]) # topicKey(l)
  IN  Cardinality({topicKey(data[i]) : i \in 1..first})

topics(data) == {topicKey(data[i]) : i \in DOMAIN data}

\* The line that introduces the topic with this id.
introduces(data, id) ==
  data[CHOOSE i \in DOMAIN data :
         Cardinality({topicKey(data[j]) : j \in 1..i}) = id
         /\ Cardinality({topicKey(data[j]) : j \in 1..i - 1}) < id]

stamps(data) == {data[i].serverTs : i \in DOMAIN data} \ {0}

\* Mutant: the first stamp of the session is the base.
minServerTS_First(data) ==
  LET stamped == Only(data, {i \in DOMAIN data : data[i].serverTs > 0})
  IN  IF stamped = <<>> THEN 0 ELSE stamped[1].serverTs

minServerTS(data) ==
  IF stamps(data) = {} THEN 0
  ELSE CHOOSE t \in stamps(data) : \A u \in stamps(data) : t <= u

sessionStartTS(text) ==
  LET starts == {i \in DOMAIN text : text[i].type = "session_start"}
  IN  IF starts = {} THEN 0
      ELSE text[CHOOSE i \in starts : \A j \in starts : j <= i].ts

AtLeastZero(n) == IF n < 0 THEN 0 ELSE n

wallClockToMicros(l, start) == AtLeastZero(l.ts - start)

resolveTimestamp(l, start, base) ==
  IF l.serverTs > 0 THEN AtLeastZero(l.serverTs - base) ELSE wallClockToMicros(l, start)

\* sort.Slice keeps the order of equal keys for as few lines as these.
byTs(markers) ==
  LET before(i) == Cardinality({j \in DOMAIN markers :
        markers[j].ts < markers[i].ts \/ (markers[j].ts = markers[i].ts /\ j <= i)})
      rank == [i \in DOMAIN markers |-> before(i)]
  IN  [k \in DOMAIN markers |-> markers[CHOOSE i \in DOMAIN markers : rank[i] = k]]

Convert(text) ==
  LET data    == dataLines(text)
      markers == byTs(markerLines(text))
      known   == Cardinality(topics(data))
      start   == sessionStartTS(text)
      encoded == encodable(data)
      startOf(id) == LET l == introduces(data, id)
                     IN  WriteStartRecord(id, l.key, MapNT4Type(l.type))
      dataOf(l)   == writeRecord(entryID(data, l),
                       resolveTimestamp(l, start, minServerTS(data)), l.value.bytes)
      markerOf(l) == writeRecord(known + 1, wallClockToMicros(l, start), <<l.type>>)
  IN  WriteHeader \o Concat(
        [id \in 1..known |-> startOf(id)]
          \o (IF markers = <<>> THEN <<>> ELSE <<WriteStartRecord(known + 1, MatchEvent, "string")>>)
          \o [i \in DOMAIN encoded |-> dataOf(encoded[i])]
          \o [i \in DOMAIN markers |-> markerOf(markers[i])])

\* Sessions within the limits of the format, whose ids and sizes take 4 bytes
\* and whose times take 8.  Server times are not negative.
Convertible(text) ==
  /\ text \in Seq({text[i] : i \in DOMAIN text})
  /\ Cardinality(topics(dataLines(text))) + 1 < pow[4]
  /\ \A i \in DOMAIN text :
       /\ text[i].ts \in Int /\ text[i].ts - sessionStartTS(text) < pow[8]
       /\ IsData(text[i]) =>
            /\ text[i].serverTs \in 0..pow[8] - 1
            /\ text[i].value.bytes \in Seq(0..Base - 1) /\ Len(text[i].value.bytes) < pow[4]

ASSUME SessionsAssumption == \A text \in Sessions : Convertible(text)

-----------------------------------------------------------------------------
(* The format, as a reader takes it *)

Number(s, at, n) ==
  LET upTo[k \in 0..n] == IF k = 0 THEN 0 ELSE upTo[k - 1] + s[at + k - 1] * pow[k - 1]
  IN  upTo[n]

Record(s, at) ==
  LET h == s[at]
      e == 1 + (h % 4)
      z == 1 + ((h \div 4) % 4)
      t == 1 + ((h \div 16) % 8)
      size == Number(s, at + 1 + e, z)
      body == at + 1 + e + z + t
  IN  [ id |-> Number(s, at + 1, e), ts |-> Number(s, at + 1 + e + z, t),
        payload |-> SubSeq(s, body, body + size - 1), next |-> body + size ]

\* One after the other, from behind the header to the end.
Records(s) ==
  LET at[n \in 0..Len(s)] == IF n = 0 THEN 2 ELSE Record(s, at[n - 1]).next
      count == CHOOSE n \in 0..Len(s) :
                 at[n] = Len(s) + 1 /\ \A m \in 0..n - 1 : at[m] # Len(s) + 1
  IN  [n \in 1..count |-> Record(s, at[n - 1])]

startsOf(records) == Only(records, {i \in DOMAIN records : records[i].id = 0})
entriesOf(records) == Only(records, {i \in DOMAIN records : records[i].id # 0})
Started(r) == Number(r.payload, 2, 4)

\* What a line says, and what a record says under its start record.
Meaning(l) == <<l.key, MapNT4Type(l.type), l.value.bytes>>
Read(starts, r) ==
  LET s == starts[CHOOSE i \in DOMAIN starts : Started(starts[i]) = r.id]
  IN  <<s.payload[6], s.payload[7], r.payload>>

-----------------------------------------------------------------------------
(* Properties *)

\* Every value that can be encoded is read back once, in the order of the
\* session, under the name and type it was published with, though a topic may
\* change its type when robot code restarts; markers follow as events of their
\* own (convert.go:66-174, encoder.go:105-151).
Faithful(text) ==
  LET records == Records(Convert(text))
      starts  == startsOf(records)
      entries == entriesOf(records)
      encoded == encodable(dataLines(text))
      markers == byTs(markerLines(text))
  IN  /\ \A i, j \in DOMAIN starts : Started(starts[i]) = Started(starts[j]) => i = j
      /\ \A i \in DOMAIN entries : \E j \in DOMAIN starts : Started(starts[j]) = entries[i].id
      /\ [i \in DOMAIN entries |-> Read(starts, entries[i])] =
           [i \in DOMAIN encoded |-> Meaning(encoded[i])]
             \o [i \in DOMAIN markers |-> <<MatchEvent, "string", <<markers[i].type>>>>]

AllFaithful == \A text \in Sessions : Faithful(text)

\* Time is kept on both clocks: stamped values keep their distances, the oldest
\* being at zero, and a marker stands between the values received before and
\* after it, for values whose stamps advance with the session's wall clock
\* (convert.go:87-89, 182-212).  A session that begins with older retained
\* values has none such, and its markers are early.
InStep(l, start, base) == l.serverTs > 0 => l.serverTs - base = l.ts - start

TimesKept(text) ==
  LET entries == entriesOf(Records(Convert(text)))
      data    == dataLines(text)
      encoded == encodable(data)
      markers == byTs(markerLines(text))
      start   == sessionStartTS(text)
      base    == IF stamps(data) = {} THEN 0
                 ELSE CHOOSE t \in stamps(data) : \A u \in stamps(data) : t <= u
      markerTs(m) == entries[Len(encoded) + m].ts
  IN  /\ \A i, j \in DOMAIN encoded :
           encoded[i].serverTs > 0 /\ encoded[j].serverTs > 0 =>
             entries[i].ts - entries[j].ts = encoded[i].serverTs - encoded[j].serverTs
      /\ \A i \in DOMAIN encoded : encoded[i].serverTs = base /\ base > 0 => entries[i].ts = 0
      /\ \A i \in DOMAIN encoded, m \in DOMAIN markers :
           InStep(encoded[i], start, base) =>
             /\ encoded[i].ts <= markers[m].ts => entries[i].ts <= markerTs(m)
             /\ encoded[i].ts >= markers[m].ts => entries[i].ts >= markerTs(m)

AllTimesKept == \A text \in Sessions : TimesKept(text)
=============================================================================
