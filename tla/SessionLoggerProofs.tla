------------------------- MODULE SessionLoggerProofs ------------------------
(***************************************************************************)
(* Proofs about SessionLogger, for any files, topics and readings, any     *)
(* buffer of commands and any length of the sessions.                      *)
(***************************************************************************)
EXTENDS SessionLogger, FiniteSetTheorems, SequenceTheorems, TLAPS

\* The lines of the open session, those in the writer's buffer included.
Text == disk[file] \o buf

Starts(s)   == \A i \in DOMAIN s : (s[i].type = "session_start") = (i = 1)
EndsLast(s) == \A i \in DOMAIN s : s[i].type = "session_end" => i = Len(s)
Unended(s)  == \A i \in DOMAIN s : s[i].type # "session_end"
Body(s)     == \A i \in DOMAIN s : s[i].type \in {"data", "marker"}
Without(s, t) == \A i \in DOMAIN s : s[i].key # t

\* Where the actor stands tells which file is open, and which id is shown.
Places ==
  /\ file # Nil => disk[file] # Nil
  /\ pc \in {"publish", "header", "trailer", "close"} => file # Nil
  /\ pc \in {"create", "clear", "done"} => file = Nil
  /\ file = Nil => buf = <<>>
  /\ pc \in {"select", "header", "trailer", "close"} => active = file
  /\ pc \in {"create", "publish", "done"} => active = Nil
  /\ pc = "clear" => active # Nil

\* A new file is empty; then its session starts, and ends before it is closed.
OpenText ==
  file # Nil =>
    /\ pc \in {"publish", "header"} => ~broken /\ disk[file] = <<>> /\ buf = <<>>
    /\ pc \notin {"publish", "header"} => Text # <<>>
    /\ pc # "close" => Unended(Text)
    /\ Starts(Text) /\ EndsLast(Text)

\* A write error is remembered, and without one every entry is counted.
Counted ==
  file # Nil =>
    /\ broken => file \in torn
    /\ ~broken /\ pc \in {"select", "trailer"} => entriesInFile >= DataCount(Text)
    /\ ~broken /\ pc = "close" =>
         /\ buf = <<>> /\ disk[file] # <<>>
         /\ Last(disk[file]).type = "session_end"
         /\ Last(disk[file]).value >= DataCount(disk[file])

\* The two halves of TypeOK, for two provers.
Flags == cancelled \in BOOLEAN /\ broken \in BOOLEAN

Shapes ==
  /\ cmdCh \in Seq(Commands) /\ Len(cmdCh) <= CmdBuffer
  /\ pc \in {"select", "create", "publish", "header", "trailer", "close", "clear", "done"}
  /\ then \in {"select", "create", "done"}
  /\ file \in Files \cup {Nil} /\ active \in Files \cup {Nil}
  /\ disk \in [Files -> Seq(Lines) \cup {Nil}] /\ buf \in Seq(Lines)
  /\ latestValues \in [Topics -> Readings \cup {Nil}]
  /\ entriesInFile \in Nat /\ torn \subseteq Files

IInv ==
  /\ TypeOK
  /\ Places
  /\ OpenText
  /\ OneSessionPerFile
  /\ Counted
  /\ ClosedIsWhole
  /\ SnapshotKept

-----------------------------------------------------------------------------
(* Sequences of lines *)

LEMMA Constants ==
  /\ Files \subseteq Nat /\ IsFiniteSet(Topics)
  /\ Nil \notin Nat /\ Nil \notin Files /\ Nil \notin Topics /\ Nil \notin Readings
  /\ Nil \notin Seq(Lines) /\ Unencodable \subseteq Readings
  /\ CmdBuffer \in Nat \ {0}
BY LoggerAssumption

\* Behind a session that has started and not ended, anything but another
\* start and an end leaves it so.
LEMMA Continued ==
  ASSUME NEW s \in Seq(Lines), s # <<>>, Starts(s), Unended(s),
         NEW t \in Seq(Lines), Body(t)
  PROVE  /\ s \o t \in Seq(Lines) /\ s \o t # <<>>
         /\ Starts(s \o t) /\ Unended(s \o t) /\ EndsLast(s \o t)
<1> DEFINE r == s \o t
<1>1. /\ r \in Seq(Lines) /\ Len(s) \in Nat \ {0} /\ Len(t) \in Nat
      /\ Len(r) = Len(s) + Len(t)
      /\ DOMAIN r = 1..Len(r) /\ DOMAIN s = 1..Len(s) /\ DOMAIN t = 1..Len(t)
      /\ \A i \in 1..Len(s) : r[i] = s[i]
      /\ \A i \in Len(s) + 1..Len(s) + Len(t) : i - Len(s) \in 1..Len(t) /\ r[i] = t[i - Len(s)]
  BY EmptySeq
<1> HIDE DEF r
<1>2. ASSUME NEW i \in DOMAIN r
      PROVE  (r[i].type = "session_start") = (i = 1) /\ r[i].type # "session_end"
  <2>1. CASE i \in 1..Len(s)
    BY <1>1, <2>1 DEF Starts, Unended
  <2>2. CASE i \in Len(s) + 1..Len(s) + Len(t)
    <3>1. i # 1 /\ i - Len(s) \in DOMAIN t /\ r[i] = t[i - Len(s)]
      BY <1>1, <2>2
    <3>2. r[i].type \in {"data", "marker"}
      BY <3>1 DEF Body
    <3> QED
      BY <3>1, <3>2
  <2> QED
    BY <1>1, <2>1, <2>2
<1>3. r # <<>>
  BY <1>1
<1> QED
  BY <1>1, <1>2, <1>3 DEF Starts, Unended, EndsLast, r

\* What holds of a whole text holds of what has reached the disk.
LEMMA Prefix ==
  ASSUME NEW s \in Seq(Lines), NEW t \in Seq(Lines), Starts(s \o t), EndsLast(s \o t)
  PROVE  Starts(s) /\ EndsLast(s)
<1> DEFINE r == s \o t
<1>1. /\ Len(s) \in Nat /\ Len(t) \in Nat /\ Len(r) = Len(s) + Len(t)
      /\ DOMAIN r = 1..Len(r) /\ DOMAIN s = 1..Len(s)
      /\ \A i \in 1..Len(s) : r[i] = s[i]
  OBVIOUS
<1> HIDE DEF r
<1>2. Starts(r) /\ EndsLast(r)
  BY DEF r
<1>3. ASSUME NEW i \in DOMAIN s
      PROVE  /\ (s[i].type = "session_start") = (i = 1)
             /\ s[i].type = "session_end" => i = Len(s)
  <2>1. i \in DOMAIN r /\ r[i] = s[i] /\ (i = Len(r) => i = Len(s))
    BY <1>1
  <2> QED
    BY <1>2, <2>1 DEF Starts, EndsLast
<1> QED
  BY <1>3 DEF Starts, EndsLast

LEMMA Ended ==
  ASSUME NEW s \in Seq(Lines), s # <<>>, Starts(s), Unended(s),
         NEW l \in Lines, l.type = "session_end"
  PROVE  /\ s \o <<l>> \in Seq(Lines) /\ s \o <<l>> # <<>>
         /\ Starts(s \o <<l>>) /\ EndsLast(s \o <<l>>) /\ Last(s \o <<l>>) = l
<1> DEFINE r == s \o <<l>>
<1>1. /\ r \in Seq(Lines) /\ Len(s) \in Nat \ {0} /\ Len(r) = Len(s) + 1
      /\ DOMAIN r = 1..Len(r) /\ DOMAIN s = 1..Len(s)
      /\ \A i \in 1..Len(s) : r[i] = s[i]
      /\ r[Len(s) + 1] = l
  BY EmptySeq
<1> HIDE DEF r
<1>2. ASSUME NEW i \in DOMAIN r
      PROVE  /\ (r[i].type = "session_start") = (i = 1)
             /\ r[i].type = "session_end" => i = Len(r)
  <2>1. CASE i \in 1..Len(s)
    BY <1>1, <2>1 DEF Starts, Unended
  <2>2. CASE i = Len(s) + 1
    BY <1>1, <2>2
  <2> QED
    BY <1>1, <2>1, <2>2
<1>3. r # <<>> /\ Last(r) = l
  BY <1>1 DEF Last
<1> QED
  BY <1>1, <1>2, <1>3 DEF Starts, EndsLast, r

\* Lines that are not of data leave the count, and no line adds more than one.
LEMMA Counting ==
  ASSUME NEW s \in Seq(Lines), NEW t \in Seq(Lines)
  PROVE  /\ DataCount(s) \in Nat /\ DataCount(t) \in Nat
         /\ DataCount(s) <= Len(s)
         /\ DataCount(s \o t) <= DataCount(s) + Len(t)
         /\ (\A i \in DOMAIN t : t[i].type # "data") => DataCount(s \o t) = DataCount(s)
<1> DEFINE r == s \o t
           D(q) == {i \in DOMAIN q : q[i].type = "data"}
<1>1. /\ r \in Seq(Lines) /\ Len(s) \in Nat /\ Len(t) \in Nat
      /\ Len(r) = Len(s) + Len(t)
      /\ DOMAIN r = 1..Len(r) /\ DOMAIN s = 1..Len(s) /\ DOMAIN t = 1..Len(t)
      /\ \A i \in 1..Len(s) : r[i] = s[i]
      /\ \A i \in Len(s) + 1..Len(s) + Len(t) : i - Len(s) \in 1..Len(t) /\ r[i] = t[i - Len(s)]
  OBVIOUS
<1> HIDE DEF r
<1>2. ASSUME NEW q \in Seq(Lines)
      PROVE  IsFiniteSet(D(q)) /\ Cardinality(D(q)) \in Nat /\ Cardinality(D(q)) <= Len(q)
  <2>1. Len(q) \in Nat /\ DOMAIN q = 1..Len(q)
    OBVIOUS
  <2>2. IsFiniteSet(1..Len(q)) /\ Cardinality(1..Len(q)) = Len(q)
    <3>1. /\ 1 \in Int /\ Len(q) \in Int
          /\ (IF 1 > Len(q) THEN 0 ELSE Len(q) - 1 + 1) = Len(q)
      BY <2>1
    <3> QED
      BY <3>1, FS_Interval, Zenon
  <2>3. D(q) \in SUBSET (1..Len(q))
    BY <2>1
  <2>4. IsFiniteSet(D(q)) /\ Cardinality(D(q)) <= Len(q)
    BY <2>2, <2>3, FS_Subset
  <2> QED
    BY <2>4, FS_CardinalityType
<1>3. Cardinality(D(r)) <= Cardinality(D(s)) + Len(t)
  <2> DEFINE tail == Len(s) + 1..Len(s) + Len(t)
  <2>1. IsFiniteSet(tail) /\ Cardinality(tail) = Len(t)
    <3> DEFINE a == Len(s) + 1
               b == Len(s) + Len(t)
    <3>1. a \in Int /\ b \in Int /\ (IF a > b THEN 0 ELSE b - a + 1) = Len(t)
      BY <1>1
    <3>2. IsFiniteSet(a..b) /\ Cardinality(a..b) = IF a > b THEN 0 ELSE b - a + 1
      <4> HIDE DEF a, b
      <4> QED
        BY <3>1, FS_Interval, Zenon
    <3> QED
      BY <3>1, <3>2
  <2>2. D(r) \in SUBSET (D(s) \cup tail)
    BY <1>1
  <2>3. IsFiniteSet(D(s)) /\ Cardinality(D(s)) \in Nat
    BY <1>2
  <2>4. /\ IsFiniteSet(D(s) \cup tail)
        /\ Cardinality(D(s) \cup tail)
             = Cardinality(D(s)) + Cardinality(tail) - Cardinality(D(s) \cap tail)
    BY <2>1, <2>3, FS_Union
  <2>5. IsFiniteSet(D(s) \cap tail) /\ Cardinality(D(s) \cap tail) \in Nat
    <3>1. D(s) \cap tail \in SUBSET tail
      OBVIOUS
    <3>2. IsFiniteSet(D(s) \cap tail)
      BY <2>1, <3>1, FS_Subset
    <3> QED
      BY <3>2, FS_CardinalityType
  <2>6. Cardinality(D(r)) <= Cardinality(D(s) \cup tail)
    BY <2>2, <2>4, FS_Subset
  <2>7. Cardinality(D(r)) \in Nat
    BY <1>1, <1>2
  <2> HIDE DEF D, tail
  <2> QED
    BY <1>1, <2>1, <2>3, <2>4, <2>5, <2>6, <2>7
<1>4. ASSUME \A i \in DOMAIN t : t[i].type # "data"
      PROVE  D(r) = D(s)
  <2>1. ASSUME NEW i \in DOMAIN r, i \notin DOMAIN s PROVE r[i].type # "data"
    <3>1. i - Len(s) \in DOMAIN t /\ r[i] = t[i - Len(s)]
      BY <1>1, <2>1
    <3> QED
      BY <1>4, <3>1
  <2>2. \A i \in DOMAIN s : i \in DOMAIN r /\ r[i] = s[i]
    BY <1>1
  <2> QED
    BY <2>1, <2>2
<1>5. /\ Cardinality(D(s)) \in Nat /\ Cardinality(D(t)) \in Nat
      /\ Cardinality(D(s)) <= Len(s)
  BY <1>2
<1> QED
  BY <1>3, <1>4, <1>5 DEF DataCount, r

\* The last line about a topic, in the second of two parts or in the first.
LEMMA LastForConcat ==
  ASSUME NEW s \in Seq(Lines), NEW u \in Seq(Lines), NEW t, NEW v
  PROVE  /\ LastFor(u, t, v) => LastFor(s \o u, t, v)
         /\ LastFor(s, t, v) /\ Without(u, t) => LastFor(s \o u, t, v)
<1> DEFINE r == s \o u
<1>1. /\ r \in Seq(Lines) /\ Len(s) \in Nat /\ Len(u) \in Nat
      /\ Len(r) = Len(s) + Len(u)
      /\ DOMAIN r = 1..Len(r) /\ DOMAIN s = 1..Len(s) /\ DOMAIN u = 1..Len(u)
      /\ \A i \in 1..Len(s) : r[i] = s[i]
      /\ \A i \in 1..Len(u) : r[Len(s) + i] = u[i]
  OBVIOUS
<1> HIDE DEF r
<1>2. ASSUME LastFor(u, t, v) PROVE LastFor(r, t, v)
  <2>1. PICK i \in 1..Len(u) :
          u[i].key = t /\ u[i].value = v /\ \A j \in 1..Len(u) : j > i => u[j].key # t
    BY <1>1, <1>2 DEF LastFor
  <2>2. Len(s) + i \in DOMAIN r /\ r[Len(s) + i].key = t /\ r[Len(s) + i].value = v
    BY <1>1, <2>1
  <2>3. ASSUME NEW j \in DOMAIN r, j > Len(s) + i PROVE r[j].key # t
    <3>1. j - Len(s) \in 1..Len(u) /\ j - Len(s) > i /\ Len(s) + (j - Len(s)) = j
      BY <1>1, <2>1, <2>3
    <3> QED
      BY <1>1, <2>1, <3>1
  <2> QED
    BY <2>2, <2>3 DEF LastFor
<1>3. ASSUME LastFor(s, t, v), Without(u, t) PROVE LastFor(r, t, v)
  <2>1. PICK i \in 1..Len(s) :
          s[i].key = t /\ s[i].value = v /\ \A j \in 1..Len(s) : j > i => s[j].key # t
    BY <1>1, <1>3 DEF LastFor
  <2>2. i \in DOMAIN r /\ r[i].key = t /\ r[i].value = v
    BY <1>1, <2>1
  <2>3. ASSUME NEW j \in DOMAIN r, j > i PROVE r[j].key # t
    <3>1. CASE j \in 1..Len(s)
      BY <1>1, <2>1, <2>3, <3>1
    <3>2. CASE j \notin 1..Len(s)
      <4>1. j - Len(s) \in 1..Len(u) /\ Len(s) + (j - Len(s)) = j
        BY <1>1, <3>2
      <4> QED
        BY <1>1, <1>3, <4>1 DEF Without
    <3> QED
      BY <3>1, <3>2
  <2> QED
    BY <2>2, <2>3 DEF LastFor
<1> QED
  BY <1>2, <1>3 DEF r

\* Each topic whose value can be encoded gets one line, the others get none.
LEMMA DataLinesAre ==
  ASSUME NEW topics \in SUBSET Topics, NEW values \in [Topics -> Readings \cup {Nil}],
         NEW lines \in DataLines(topics, values)
  PROVE  /\ lines \in Seq(Lines) /\ Body(lines)
         /\ Cardinality(topics) \in Nat /\ Len(lines) <= Cardinality(topics)
         /\ \A t \in topics : values[t] \notin Unencodable => LastFor(lines, t, values[t])
         /\ \A t \in Topics :
              (t \in topics /\ values[t] \notin Unencodable) \/ Without(lines, t)
<1> DEFINE S == {t \in topics : values[t] \notin Unencodable}
           n == Cardinality(S)
<1>1. /\ IsFiniteSet(topics) /\ Cardinality(topics) \in Nat
      /\ IsFiniteSet(S) /\ n \in Nat /\ n <= Cardinality(topics)
  <2>1. IsFiniteSet(topics)
    BY Constants, FS_Subset
  <2>2. S \in SUBSET topics
    OBVIOUS
  <2>3. IsFiniteSet(S) /\ n <= Cardinality(topics)
    BY <2>1, <2>2, FS_Subset
  <2> QED
    BY <2>1, <2>3, FS_CardinalityType
<1>2. PICK order \in SetToSeqs(S) :
        lines = [i \in DOMAIN order |-> Data(order[i], values[order[i]])]
  BY DEF DataLines
<1>3. /\ order \in [1..n -> S]
      /\ \A i, j \in 1..n : i # j => order[i] # order[j]
  BY DEF SetToSeqs
<1>4. ASSUME NEW t \in S PROVE \E i \in 1..n : order[i] = t
  <2>1. IsFiniteSet(1..n) /\ Cardinality(1..n) = n
    <3>1. 1 \in Int /\ n \in Int /\ (IF 1 > n THEN 0 ELSE n - 1 + 1) = n
      BY <1>1
    <3> HIDE DEF n
    <3> QED
      BY <3>1, FS_Interval, Zenon
  <2>2. order \in Injection(1..n, S)
    BY <1>3 DEF Injection, IsInjective
  <2>3. order \in Surjection(1..n, S)
    BY <1>1, <2>1, <2>2, FS_Injection
  <2> QED
    BY <2>3 DEF Surjection
<1> HIDE DEF n
<1>5. /\ lines = [i \in 1..n |-> Data(order[i], values[order[i]])]
      /\ \A i \in 1..n : order[i] \in Topics /\ values[order[i]] \in Readings \cup {Nil}
  BY <1>2, <1>3
<1>6. \A i \in 1..n : /\ lines[i] \in Lines
                      /\ lines[i].type = "data" /\ lines[i].key = order[i]
                      /\ lines[i].value = values[order[i]]
  BY <1>5 DEF Data, Line, Lines
<1>7. lines \in Seq(Lines) /\ Len(lines) = n /\ DOMAIN lines = 1..n
  BY <1>1, <1>5, <1>6
<1>8. Body(lines)
  BY <1>6, <1>7 DEF Body
<1>9. ASSUME NEW t \in topics, values[t] \notin Unencodable
      PROVE  LastFor(lines, t, values[t])
  <2>1. PICK i \in 1..n : order[i] = t
    BY <1>4, <1>9
  <2>2. \A j \in 1..n : j # i => lines[j].key # t
    BY <1>3, <1>6, <2>1
  <2> QED
    BY <1>1, <1>6, <1>7, <2>1, <2>2 DEF LastFor
<1>10. ASSUME NEW t \in Topics, t \notin S
       PROVE  Without(lines, t)
  BY <1>3, <1>6, <1>7, <1>10 DEF Without
<1> QED
  BY <1>1, <1>7, <1>8, <1>9, <1>10

LEMMA Associative ==
  ASSUME NEW a \in Seq(Lines), NEW b \in Seq(Lines), NEW c \in Seq(Lines)
  PROVE  (a \o b) \o c = a \o (b \o c)
BY ConcatAssociative

\* What a write adds to the text of the session, and how it may fail.
LEMMA WrittenText ==
  ASSUME TypeOK, file # Nil, disk[file] # Nil,
         NEW lines \in Seq(Lines), NEW flush \in BOOLEAN, Written(lines, flush)
  PROVE  /\ file \in Files /\ Text \in Seq(Lines)
         /\ disk[file] \in Seq(Lines) /\ disk'[file] \in Seq(Lines) /\ buf' \in Seq(Lines)
         /\ disk' = [disk EXCEPT ![file] = disk'[file]]
         /\ broken' \in BOOLEAN /\ (broken => broken')
         /\ disk'[file] \o buf' = IF broken THEN Text ELSE Text \o lines
         /\ Len(disk[file]) \in Nat /\ Len(disk'[file]) \in Nat
         /\ Len(disk'[file]) >= Len(disk[file])
         /\ torn' = IF broken' THEN torn \cup {file} ELSE torn
         /\ flush /\ ~broken' => buf' = <<>>
<1> DEFINE all == IF broken THEN buf ELSE buf \o lines
           d == disk[file]
<1>1. /\ file \in Files /\ d \in Seq(Lines) /\ buf \in Seq(Lines)
      /\ disk \in [Files -> Seq(Lines) \cup {Nil}] /\ broken \in BOOLEAN
  BY DEF TypeOK
<1>2. Text \in Seq(Lines)
  BY <1>1 DEF Text
<1>3. all \in Seq(Lines) /\ Len(all) \in Nat
  BY <1>1
<1>4. PICK n \in (IF broken THEN {0} ELSE 0..Len(all)), fails \in BOOLEAN :
        /\ flush /\ n < Len(all) => fails
        /\ broken' = (broken \/ fails)
        /\ disk' = [disk EXCEPT ![file] = @ \o SubSeq(all, 1, n)]
        /\ buf' = SubSeq(all, n + 1, Len(all))
        /\ torn' = IF broken' THEN torn \cup {file} ELSE torn
  BY Zenon DEF Written
<1>5. n \in 0..Len(all)
  BY <1>3, <1>4
<1> DEFINE front == SubSeq(all, 1, n)
           back  == SubSeq(all, n + 1, Len(all))
<1>6. /\ front \in Seq(Lines) /\ back \in Seq(Lines) /\ front \o back = all
      /\ Len(front) = n /\ (n = Len(all) => back = <<>>)
  <2> HIDE DEF all
  <2>1. /\ n \in Nat /\ n <= Len(all) /\ \A i \in 1..Len(all) : all[i] \in Lines
        /\ 1 \in 1..Len(all) + 1 /\ n \in 1 - 1..Len(all) /\ Len(all) \in n..Len(all)
    BY <1>3, <1>5
  <2>2. front \in Seq(Lines) /\ back \in Seq(Lines) /\ Len(front) = n
        /\ (n = Len(all) => back = <<>>)
    BY <1>3, <2>1
  <2>3. front \o back = SubSeq(all, 1, Len(all))
    BY <1>3, <2>1, ConcatAdjacentSubSeq, Zenon
  <2>4. SubSeq(all, 1, Len(all)) = all
    BY <1>3, SubSeqFull
  <2> QED
    BY <2>2, <2>3, <2>4
<1>7. disk'[file] = d \o front /\ disk' = [disk EXCEPT ![file] = disk'[file]]
  BY <1>1, <1>4
<1>8. disk'[file] \o buf' = d \o all
  <2> HIDE DEF front, back, all, d
  <2>1. (d \o front) \o back = d \o (front \o back)
    BY <1>1, <1>6, Associative, Zenon
  <2>2. buf' = back
    BY <1>4 DEF back
  <2> QED
    BY <1>6, <1>7, <2>1, <2>2
<1>9. d \o all = IF broken THEN Text ELSE Text \o lines
  <2>1. d \o (buf \o lines) = (d \o buf) \o lines
    <3> HIDE DEF d
    <3> QED
      BY <1>1, Associative, Zenon
  <2> QED
    BY <2>1 DEF Text
<1>10. /\ Len(d) \in Nat /\ Len(disk'[file]) \in Nat /\ Len(disk'[file]) >= Len(d)
       /\ disk'[file] \in Seq(Lines)
  <2>1. n \in Nat
    <3> HIDE DEF all
    <3> QED
      BY <1>3, <1>5
  <2>2. d \in Seq(Lines) /\ front \in Seq(Lines) /\ Len(front) = n
    BY <1>1, <1>6
  <2> HIDE DEF front, d
  <2>3. Len(d) \in Nat /\ Len(d \o front) = Len(d) + n /\ d \o front \in Seq(Lines)
    BY <2>1, <2>2
  <2>4. Len(d \o front) \in Nat /\ Len(d \o front) >= Len(d)
    BY <2>1, <2>3
  <2> QED
    BY <1>7, <2>3, <2>4
<1>11. broken' \in BOOLEAN /\ (broken => broken')
  BY <1>1, <1>4
<1>12. flush /\ ~broken' => buf' = <<>>
  <2>1. flush /\ ~broken' => n = Len(all)
    <3>1. flush /\ ~broken' => ~(n < Len(all))
      BY <1>4
    <3> HIDE DEF all
    <3> QED
      BY <1>3, <1>5, <3>1
  <2> QED
    BY <1>4, <1>6, <2>1
<1> QED
  BY <1>1, <1>2, <1>4, <1>6, <1>7, <1>8, <1>9, <1>10, <1>11, <1>12

-----------------------------------------------------------------------------
(* Steps that write *)

LEMMA Halves == /\ TypeOK <=> Flags /\ Shapes
                /\ TypeOK' <=> Flags' /\ Shapes'
BY DEF TypeOK, Flags, Shapes

\* The files other than the open one are left alone.
LEMMA Others ==
  ASSUME TypeOK, OneSessionPerFile, ClosedIsWhole, file \in Files, file' = file,
         torn \subseteq torn',
         NEW d \in Seq(Lines), disk' = [disk EXCEPT ![file] = d], Starts(d), EndsLast(d)
  PROVE  /\ disk' \in [Files -> Seq(Lines) \cup {Nil}] /\ disk'[file] = d /\ d # Nil
         /\ OneSessionPerFile' /\ ClosedIsWhole'
<1>1. /\ disk' \in [Files -> Seq(Lines) \cup {Nil}] /\ disk'[file] = d /\ d # Nil
      /\ \A f \in Files \ {file} : disk'[f] = disk[f]
  BY Constants DEF TypeOK
<1>2. OneSessionPerFile'
  <2>1. ASSUME NEW f \in Files, disk'[f] # Nil PROVE Starts(disk'[f]) /\ EndsLast(disk'[f])
    <3>1. CASE f = file
      BY <1>1, <3>1
    <3>2. CASE f # file
      BY <1>1, <2>1, <3>2 DEF OneSessionPerFile, Starts, EndsLast
    <3> QED
      BY <3>1, <3>2
  <2> QED
    BY <2>1 DEF OneSessionPerFile, Starts, EndsLast
<1>3. ClosedIsWhole'
  BY <1>1 DEF ClosedIsWhole
<1> QED
  BY <1>1, <1>2, <1>3

\* A write while the actor serves the open session.
LEMMA WriteAtSelect ==
  ASSUME IInv, pc = "select", file # Nil,
         NEW lines \in Seq(Lines), Body(lines), NEW flush \in BOOLEAN, Written(lines, flush),
         UNCHANGED <<pc, then, file, active, cancelled>>,
         cmdCh' \in Seq(Commands), Len(cmdCh') <= CmdBuffer,
         latestValues' \in [Topics -> Readings \cup {Nil}],
         entriesInFile' \in Nat,
         \/ entriesInFile' >= entriesInFile + Len(lines)
         \/ entriesInFile' = entriesInFile /\ \A i \in DOMAIN lines : lines[i].type # "data",
         \A t \in Topics : \/ latestValues'[t] \in Unencodable
                           \/ LastFor(lines, t, latestValues'[t])
                           \/ Without(lines, t) /\ latestValues'[t] = latestValues[t]
  PROVE  IInv'
<1> DEFINE W == disk'[file] \o buf'
<1>1. /\ TypeOK /\ disk[file] # Nil /\ Text # <<>> /\ Unended(Text) /\ Starts(Text)
      /\ EndsLast(Text) /\ active = file /\ (broken => file \in torn)
      /\ ~broken => entriesInFile >= DataCount(Text)
  BY DEF IInv, Places, OpenText, Counted
<1>2. /\ file \in Files /\ Text \in Seq(Lines)
      /\ disk'[file] \in Seq(Lines) /\ buf' \in Seq(Lines)
      /\ disk' = [disk EXCEPT ![file] = disk'[file]]
      /\ broken' \in BOOLEAN /\ (broken => broken')
      /\ W = IF broken THEN Text ELSE Text \o lines
      /\ torn' = IF broken' THEN torn \cup {file} ELSE torn
  BY <1>1, WrittenText
<1>3. /\ W \in Seq(Lines) /\ W # <<>> /\ Unended(W) /\ Starts(W) /\ EndsLast(W)
  <2>1. /\ Text \o lines \in Seq(Lines) /\ Text \o lines # <<>>
        /\ Starts(Text \o lines) /\ Unended(Text \o lines) /\ EndsLast(Text \o lines)
    BY <1>1, <1>2, Continued
  <2> HIDE DEF W
  <2> QED
    BY <1>1, <1>2, <2>1
<1>4. Text' = W
  BY DEF Text
<1>5. Starts(disk'[file]) /\ EndsLast(disk'[file])
  BY <1>2, <1>3, Prefix
<1>6. torn \subseteq torn' /\ torn' \subseteq Files /\ (broken' => file \in torn')
  BY <1>1, <1>2 DEF TypeOK
<1>7. /\ disk' \in [Files -> Seq(Lines) \cup {Nil}] /\ disk'[file] # Nil
      /\ OneSessionPerFile' /\ ClosedIsWhole'
  BY <1>1, <1>2, <1>5, <1>6, Others DEF IInv
<1> HIDE DEF W
<1>8. TypeOK'
  <2>1. cancelled' \in BOOLEAN
    BY <1>1, Zenon DEF TypeOK
  <2>2. Shapes'
    BY <1>1, <1>2, <1>6, <1>7, Halves DEF Shapes
  <2> QED
    BY <1>2, <2>1, <2>2, Halves DEF Flags
<1>9. Places'
  BY <1>1, <1>7 DEF Places
<1>10. OpenText'
  BY <1>3, <1>4 DEF OpenText
<1>11. Counted'
  <2>1. ~broken' => entriesInFile' >= DataCount(W)
    <3> SUFFICES ASSUME ~broken' PROVE entriesInFile' >= DataCount(W)
      OBVIOUS
    <3>1. W = Text \o lines /\ entriesInFile >= DataCount(Text)
      BY <1>1, <1>2
    <3>2. /\ DataCount(Text) \in Nat /\ DataCount(Text \o lines) <= DataCount(Text) + Len(lines)
          /\ (\A i \in DOMAIN lines : lines[i].type # "data") =>
               DataCount(Text \o lines) = DataCount(Text)
      BY <1>2, Counting
    <3>3. DataCount(W) \in Nat /\ Len(lines) \in Nat /\ entriesInFile \in Nat
      BY <1>1, <1>3, Counting DEF TypeOK
    <3> QED
      BY <3>1, <3>2, <3>3
  <2> QED
    BY <1>4, <1>6, <2>1 DEF Counted
<1>12. SnapshotKept'
  <2> SUFFICES ASSUME ~broken', NEW t \in Topics, latestValues'[t] \notin Unencodable \cup {Nil}
               PROVE  LastFor(W, t, latestValues'[t])
    BY <1>4 DEF SnapshotKept, Text
  <2>1. W = Text \o lines /\ ~broken
    BY <1>2
  <2>2. CASE LastFor(lines, t, latestValues'[t])
    BY <1>2, <2>1, <2>2, LastForConcat
  <2>3. CASE Without(lines, t) /\ latestValues'[t] = latestValues[t]
    <3>1. LastFor(Text, t, latestValues'[t])
      BY <2>1, <2>3 DEF IInv, SnapshotKept, Text
    <3> QED
      BY <1>2, <2>1, <2>3, <3>1, LastForConcat
  <2> QED
    BY <2>2, <2>3
<1> QED
  BY <1>7, <1>8, <1>9, <1>10, <1>11, <1>12 DEF IInv

LEMMA EmptyBody == <<>> \in Seq(Lines) /\ Body(<<>>) /\ Len(<<>>) = 0 /\ \A t : Without(<<>>, t)
BY DEF Body, Without

LEMMA periodicSyncKeeps == IInv /\ periodicSync => IInv'
<1> SUFFICES ASSUME IInv, periodicSync PROVE IInv'
  OBVIOUS
<1>1. /\ pc = "select" /\ file # Nil /\ Written(<<>>, TRUE)
      /\ UNCHANGED <<pc, then, file, active, cancelled>>
      /\ cmdCh' = cmdCh /\ latestValues' = latestValues /\ entriesInFile' = entriesInFile
  BY DEF periodicSync
<1>2. /\ cmdCh \in Seq(Commands) /\ Len(cmdCh) <= CmdBuffer
      /\ latestValues \in [Topics -> Readings \cup {Nil}] /\ entriesInFile \in Nat
  BY DEF IInv, TypeOK
<1>3. \A i \in DOMAIN <<>> : <<>>[i].type # "data"
  OBVIOUS
<1> QED
  BY <1>1, <1>2, <1>3, EmptyBody, WriteAtSelect

LEMMA handleValueKeeps ==
  ASSUME IInv, NEW t \in Topics, NEW v \in Readings, handleValue(t, v)
  PROVE  IInv'
<1>1. /\ pc = "select" /\ latestValues' = [latestValues EXCEPT ![t] = v]
      /\ UNCHANGED <<cmdCh, pc, then, cancelled, file, active>>
      /\ \/ file = Nil /\ UNCHANGED <<buf, broken, disk, torn, entriesInFile>>
         \/ /\ file # Nil /\ \E lines \in DataLines({t}, latestValues') : Written(lines, FALSE)
            /\ entriesInFile' = entriesInFile + 1
  BY DEF handleValue
<1>2. /\ cmdCh' \in Seq(Commands) /\ Len(cmdCh') <= CmdBuffer
      /\ latestValues' \in [Topics -> Readings \cup {Nil}] /\ entriesInFile \in Nat
      /\ latestValues'[t] = v /\ \A u \in Topics \ {t} : latestValues'[u] = latestValues[u]
  BY <1>1 DEF IInv, TypeOK
<1>3. CASE file = Nil
  <2>1. UNCHANGED <<buf, broken, disk, torn, entriesInFile>>
    BY <1>1, <1>3
  <2>2. Flags'
    BY <1>1, <2>1, Halves, Zenon DEF IInv, Flags
  <2>3. Shapes'
    BY <1>1, <1>2, <2>1, Halves DEF IInv, Shapes
  <2>4. Places' /\ OpenText' /\ Counted' /\ SnapshotKept'
    BY <1>1, <1>3, <2>1 DEF IInv, Places, OpenText, Counted, SnapshotKept
  <2>5. OneSessionPerFile' /\ ClosedIsWhole'
    BY <1>1, <2>1 DEF IInv, OneSessionPerFile, ClosedIsWhole
  <2> QED
    BY <2>2, <2>3, <2>4, <2>5, Halves DEF IInv
<1>4. CASE file # Nil
  <2>1. PICK lines \in DataLines({t}, latestValues') : Written(lines, FALSE)
    BY <1>1, <1>4
  <2>2. {t} \in SUBSET Topics /\ Cardinality({t}) = 1
    BY FS_Singleton
  <2>3. /\ lines \in Seq(Lines) /\ Body(lines) /\ Len(lines) <= 1
        /\ v \notin Unencodable => LastFor(lines, t, v)
        /\ \A u \in Topics \ {t} : Without(lines, u)
    BY <1>2, <2>1, <2>2, DataLinesAre
  <2>4. entriesInFile' \in Nat /\ entriesInFile' >= entriesInFile + Len(lines)
    <3>1. Len(lines) \in Nat /\ Len(lines) <= 1
      BY <2>3
    <3>2. entriesInFile' = entriesInFile + 1 /\ entriesInFile \in Nat
      BY <1>1, <1>2, <1>4
    <3> QED
      BY <3>1, <3>2
  <2>5. \A u \in Topics : \/ latestValues'[u] \in Unencodable
                          \/ LastFor(lines, u, latestValues'[u])
                          \/ Without(lines, u) /\ latestValues'[u] = latestValues[u]
    BY <1>2, <2>3
  <2> QED
    BY <1>1, <1>2, <1>4, <2>1, <2>3, <2>4, <2>5, WriteAtSelect
<1> QED
  BY <1>3, <1>4

\* session_start and what is known opens the text of the session.
LEMMA HeaderKeeps == IInv /\ Header => IInv'
<1> SUFFICES ASSUME IInv, Header PROVE IInv'
  OBVIOUS
<1> DEFINE seen  == {t \in Topics : latestValues[t] # Nil}
           start == Line("session_start", Nil, Nil)
           W     == disk'[file] \o buf'
<1>1. /\ pc = "header" /\ pc' = "select"
      /\ UNCHANGED <<cmdCh, then, cancelled, file, active, latestValues>>
      /\ entriesInFile' = Cardinality(seen)
  BY DEF Header
<1>2. PICK lines \in DataLines(seen, latestValues) : Written(<<start>> \o lines, TRUE)
  BY DEF Header
<1>3. /\ TypeOK /\ file # Nil /\ disk[file] = <<>> /\ buf = <<>> /\ disk[file] # Nil
      /\ broken = FALSE /\ active = file
  BY <1>1 DEF IInv, Places, OpenText, TypeOK
<1>4. /\ lines \in Seq(Lines) /\ Body(lines)
      /\ Cardinality(seen) \in Nat /\ Len(lines) \in Nat /\ Len(lines) <= Cardinality(seen)
      /\ \A t \in seen : latestValues[t] \notin Unencodable => LastFor(lines, t, latestValues[t])
  <2>1. latestValues \in [Topics -> Readings \cup {Nil}]
    BY <1>3 DEF TypeOK
  <2>2. seen \in SUBSET Topics
    OBVIOUS
  <2> HIDE DEF seen
  <2>3. lines \in Seq(Lines)
    BY <1>2, <2>1, <2>2, DataLinesAre
  <2> QED
    BY <1>2, <2>1, <2>2, <2>3, DataLinesAre
<1> HIDE DEF seen
<1>5. /\ <<start>> \in Seq(Lines) /\ <<start>> # <<>> /\ Starts(<<start>>) /\ Unended(<<start>>)
      /\ \A i \in DOMAIN <<start>> : <<start>>[i].type # "data"
  <2>1. start \in Lines /\ start.type = "session_start"
    BY DEF Line, Lines
  <2> HIDE DEF start
  <2> QED
    BY <2>1 DEF Starts, Unended
<1> HIDE DEF start
<1>6. LET s == <<start>> \o lines IN
      s \in Seq(Lines) /\ s # <<>> /\ Starts(s) /\ Unended(s) /\ EndsLast(s)
  BY <1>4, <1>5, Continued
<1>7. Text = <<>> /\ <<>> \o (<<start>> \o lines) = <<start>> \o lines
  <2>1. <<>> \o (<<start>> \o lines) = <<start>> \o lines
    BY <1>6, ConcatEmptySeq
  <2> QED
    BY <1>3, <2>1 DEF Text
<1>8. /\ file \in Files
      /\ disk'[file] \in Seq(Lines) /\ buf' \in Seq(Lines)
      /\ disk' = [disk EXCEPT ![file] = disk'[file]]
      /\ broken' \in BOOLEAN /\ W = <<start>> \o lines
      /\ torn' = IF broken' THEN torn \cup {file} ELSE torn
  <2> DEFINE s == <<start>> \o lines
  <2>1. s \in Seq(Lines) /\ Written(s, TRUE) /\ TRUE \in BOOLEAN
    BY <1>2, <1>6
  <2> HIDE DEF s, W
  <2>2. /\ file \in Files
        /\ disk'[file] \in Seq(Lines) /\ buf' \in Seq(Lines)
        /\ disk' = [disk EXCEPT ![file] = disk'[file]]
        /\ broken' \in BOOLEAN
        /\ disk'[file] \o buf' = Text \o s
        /\ torn' = IF broken' THEN torn \cup {file} ELSE torn
    BY <1>3, <2>1, WrittenText
  <2> QED
    BY <1>7, <2>2 DEF s, W
<1>9. W \in Seq(Lines) /\ W # <<>> /\ Unended(W) /\ Starts(W) /\ EndsLast(W)
  BY <1>6, <1>8
<1>10. Text' = W
  BY <1>1 DEF Text
<1>11. Starts(disk'[file]) /\ EndsLast(disk'[file])
  BY <1>8, <1>9, Prefix
<1>12. torn \subseteq torn' /\ torn' \subseteq Files /\ (broken' => file \in torn')
  BY <1>3, <1>8 DEF TypeOK
<1>13. /\ disk' \in [Files -> Seq(Lines) \cup {Nil}] /\ disk'[file] # Nil
       /\ OneSessionPerFile' /\ ClosedIsWhole'
  BY <1>1, <1>3, <1>8, <1>11, <1>12, Others DEF IInv
<1> HIDE DEF W
<1>14. TypeOK'
  <2>1. cancelled' \in BOOLEAN
    BY <1>1, <1>3, Zenon DEF TypeOK
  <2>2. Shapes'
    BY <1>1, <1>3, <1>4, <1>8, <1>12, <1>13, Halves DEF Shapes
  <2> QED
    BY <1>8, <2>1, <2>2, Halves DEF Flags
<1>15. Places'
  BY <1>1, <1>3, <1>13 DEF Places
<1>16. OpenText'
  BY <1>1, <1>9, <1>10 DEF OpenText
<1>17. Counted'
  <2>1. DataCount(<<start>>) = 0
    <3>1. {i \in DOMAIN <<start>> : <<start>>[i].type = "data"} = {}
      BY <1>5
    <3> QED
      BY <3>1, FS_EmptySet DEF DataCount
  <2>2. DataCount(W) \in Nat /\ DataCount(W) <= 0 + Len(lines)
    BY <1>4, <1>5, <1>8, <1>9, <2>1, Counting
  <2>3. entriesInFile' >= DataCount(W)
    BY <1>1, <1>4, <2>2
  <2> QED
    BY <1>1, <1>10, <1>12, <2>3 DEF Counted
<1>18. SnapshotKept'
  <2> SUFFICES ASSUME NEW t \in Topics, latestValues[t] \notin Unencodable \cup {Nil}
               PROVE  LastFor(W, t, latestValues[t])
    BY <1>1, <1>10 DEF SnapshotKept, Text
  <2>1. LastFor(lines, t, latestValues[t])
    BY <1>4 DEF seen
  <2> QED
    BY <1>4, <1>5, <1>8, <2>1, LastForConcat
<1> QED
  BY <1>13, <1>14, <1>15, <1>16, <1>17, <1>18 DEF IInv

\* session_end closes the text, and counts its entries.
LEMMA TrailerKeeps == IInv /\ Trailer => IInv'
<1> SUFFICES ASSUME IInv, Trailer PROVE IInv'
  OBVIOUS
<1> DEFINE end == Line("session_end", Nil, entriesInFile)
           W   == disk'[file] \o buf'
<1>1. /\ pc = "trailer" /\ pc' = "close" /\ Written(<<end>>, TRUE)
      /\ UNCHANGED <<cmdCh, then, cancelled, file, active, latestValues, entriesInFile>>
  BY DEF Trailer
<1>2. /\ TypeOK /\ file # Nil /\ disk[file] # Nil /\ active = file
      /\ Text # <<>> /\ Unended(Text) /\ Starts(Text) /\ EndsLast(Text)
      /\ broken => file \in torn
      /\ ~broken => entriesInFile >= DataCount(Text)
  BY <1>1 DEF IInv, Places, OpenText, Counted
<1>3. /\ end \in Lines /\ end.type = "session_end" /\ end.value = entriesInFile
      /\ entriesInFile \in Nat
  BY <1>2 DEF Line, Lines, TypeOK
<1> HIDE DEF end
<1>4. <<end>> \in Seq(Lines) /\ \A i \in DOMAIN <<end>> : <<end>>[i].type # "data"
  BY <1>3
<1>5. /\ file \in Files /\ Text \in Seq(Lines)
      /\ disk'[file] \in Seq(Lines) /\ buf' \in Seq(Lines)
      /\ disk' = [disk EXCEPT ![file] = disk'[file]]
      /\ broken' \in BOOLEAN /\ (broken => broken')
      /\ W = IF broken THEN Text ELSE Text \o <<end>>
      /\ torn' = IF broken' THEN torn \cup {file} ELSE torn
      /\ ~broken' => buf' = <<>>
  <2> DEFINE s == <<end>>
  <2>1. s \in Seq(Lines) /\ Written(s, TRUE) /\ TRUE \in BOOLEAN
    BY <1>1, <1>4
  <2> HIDE DEF s
  <2>2. /\ file \in Files /\ Text \in Seq(Lines)
        /\ disk'[file] \in Seq(Lines) /\ buf' \in Seq(Lines)
        /\ disk' = [disk EXCEPT ![file] = disk'[file]]
        /\ broken' \in BOOLEAN /\ (broken => broken')
        /\ W = IF broken THEN Text ELSE Text \o s
        /\ torn' = IF broken' THEN torn \cup {file} ELSE torn
        /\ TRUE /\ ~broken' => buf' = <<>>
    BY <1>2, <2>1, WrittenText
  <2> QED
    BY <2>2 DEF s
<1>6. /\ Text \o <<end>> \in Seq(Lines) /\ Text \o <<end>> # <<>>
      /\ Starts(Text \o <<end>>) /\ EndsLast(Text \o <<end>>)
      /\ Last(Text \o <<end>>) = end
      /\ DataCount(Text \o <<end>>) = DataCount(Text)
  BY <1>2, <1>3, <1>4, <1>5, Ended, Counting
<1>7. W \in Seq(Lines) /\ W # <<>> /\ Starts(W) /\ EndsLast(W)
  <2> HIDE DEF W
  <2> QED
    BY <1>2, <1>5, <1>6
<1>8. Text' = W
  BY <1>1 DEF Text
<1>9. Starts(disk'[file]) /\ EndsLast(disk'[file])
  BY <1>5, <1>7, Prefix
<1>10. torn \subseteq torn' /\ torn' \subseteq Files /\ (broken' => file \in torn')
  BY <1>2, <1>5 DEF TypeOK
<1>11. /\ disk' \in [Files -> Seq(Lines) \cup {Nil}] /\ disk'[file] # Nil
       /\ OneSessionPerFile' /\ ClosedIsWhole'
  BY <1>1, <1>2, <1>5, <1>9, <1>10, Others DEF IInv
<1>12. ~broken' => W = Text \o <<end>> /\ disk'[file] = W
  <2>1. disk'[file] \o <<>> = disk'[file]
    BY <1>5, ConcatEmptySeq
  <2> QED
    BY <1>5, <2>1
<1> HIDE DEF W
<1>13. TypeOK'
  <2>1. cancelled' \in BOOLEAN
    BY <1>1, <1>2, Zenon DEF TypeOK
  <2>2. Shapes'
    BY <1>1, <1>2, <1>5, <1>10, <1>11, Halves DEF Shapes
  <2> QED
    BY <1>5, <2>1, <2>2, Halves DEF Flags
<1>14. Places' /\ SnapshotKept'
  BY <1>1, <1>2, <1>11 DEF Places, SnapshotKept
<1>15. OpenText'
  BY <1>1, <1>7, <1>8 DEF OpenText
<1>16. Counted'
  <2>1. ~broken' => /\ disk'[file] # <<>> /\ Last(disk'[file]).type = "session_end"
                    /\ Last(disk'[file]).value >= DataCount(disk'[file])
    BY <1>2, <1>3, <1>5, <1>6, <1>12
  <2> QED
    BY <1>1, <1>5, <1>10, <2>1 DEF Counted
<1> QED
  BY <1>11, <1>13, <1>14, <1>15, <1>16 DEF IInv

-----------------------------------------------------------------------------
(* Steps that do not *)

\* The files stay as they are, and the actor at most goes on.
LEMMA Moves ==
  ASSUME IInv, TypeOK', Places',
         UNCHANGED <<file, buf, broken, disk, latestValues, entriesInFile, torn>>,
         \/ pc' = pc \/ file = Nil
         \/ pc = "select" /\ pc' = "trailer"
         \/ pc = "publish" /\ pc' = "header"
  PROVE  IInv'
<1>1. OpenText'
  BY DEF IInv, OpenText, Text
<1>2. Counted'
  BY DEF IInv, Counted, Text
<1>3. OneSessionPerFile' /\ ClosedIsWhole'
  BY DEF IInv, OneSessionPerFile, ClosedIsWhole
<1>4. SnapshotKept'
  BY DEF IInv, SnapshotKept
<1> QED
  BY <1>1, <1>2, <1>3, <1>4 DEF IInv

LEMMA sendCommandKeeps == ASSUME IInv, NEW c \in Commands, sendCommand(c) PROVE IInv'
<1>1. /\ UNCHANGED <<pc, then, cancelled, file, active, buf, broken, latestValues,
                     entriesInFile, disk, torn>>
      /\ \/ cmdCh' = cmdCh
         \/ Len(cmdCh) < CmdBuffer /\ cmdCh' = Append(cmdCh, c)
  BY DEF sendCommand
<1>2. cmdCh' \in Seq(Commands) /\ Len(cmdCh') <= CmdBuffer
  <2>1. cmdCh \in Seq(Commands) /\ Len(cmdCh) <= CmdBuffer /\ CmdBuffer \in Nat
    BY Constants, Halves DEF IInv, Shapes
  <2>2. /\ Append(cmdCh, c) \in Seq(Commands) /\ Len(cmdCh) \in Nat
        /\ Len(Append(cmdCh, c)) = Len(cmdCh) + 1
    BY <2>1
  <2> QED
    BY <1>1, <2>1, <2>2
<1>3. Flags'
  BY <1>1, Halves, Zenon DEF IInv, Flags
<1>4. Shapes'
  BY <1>1, <1>2, Halves DEF IInv, Shapes
<1>5. Places'
  BY <1>1 DEF IInv, Places
<1> QED
  BY <1>1, <1>3, <1>4, <1>5, Halves, Moves

LEMMA CancelKeeps == IInv /\ Cancel => IInv'
<1> SUFFICES ASSUME IInv, Cancel PROVE IInv'
  OBVIOUS
<1>1. /\ UNCHANGED <<cmdCh, pc, then, file, active, buf, broken, latestValues,
                     entriesInFile, disk, torn>>
      /\ cancelled' = TRUE
  BY DEF Cancel
<1>2. cancelled' \in BOOLEAN
  BY <1>1
<1>3. broken' \in BOOLEAN
  BY <1>1, Halves, Zenon DEF IInv, Flags
<1>4. Shapes'
  BY <1>1, Halves DEF IInv, Shapes
<1>5. Places'
  BY <1>1 DEF IInv, Places
<1> QED
  BY <1>1, <1>2, <1>3, <1>4, <1>5, Halves, Moves DEF Flags

LEMMA TakeCommandKeeps == IInv /\ TakeCommand => IInv'
<1> SUFFICES ASSUME IInv, TakeCommand PROVE IInv'
  OBVIOUS
<1> DEFINE marker == Line("marker", Nil, Nil)
<1>1. /\ pc = "select" /\ cmdCh # <<>> /\ cmdCh' = Tail(cmdCh)
      /\ UNCHANGED <<cancelled, file, active, latestValues, entriesInFile>>
      /\ \/ /\ pc' = IF file # Nil THEN "trailer" ELSE "create"
            /\ then' \in {"create", "select"} /\ UNCHANGED <<buf, broken, disk, torn>>
         \/ /\ pc' = IF file # Nil THEN "trailer" ELSE "select"
            /\ then' = "select" /\ UNCHANGED <<buf, broken, disk, torn>>
         \/ /\ IF file # Nil THEN Written(<<marker>>, TRUE)
               ELSE UNCHANGED <<buf, broken, disk, torn>>
            /\ UNCHANGED <<pc, then>>
  BY DEF TakeCommand, recordMatchEvent
<1>2. cmdCh' \in Seq(Commands) /\ Len(cmdCh') <= CmdBuffer
  <2>1. cmdCh \in Seq(Commands) /\ Len(cmdCh) <= CmdBuffer /\ CmdBuffer \in Nat
    BY Constants, Halves DEF IInv, Shapes
  <2>2. /\ Tail(cmdCh) \in Seq(Commands) /\ Len(Tail(cmdCh)) = Len(cmdCh) - 1
        /\ Len(cmdCh) \in Nat
    BY <1>1, <2>1
  <2> QED
    BY <1>1, <2>1, <2>2
<1>3. CASE file # Nil /\ Written(<<marker>>, TRUE) /\ UNCHANGED <<pc, then>>
  <2>1. /\ marker \in Lines /\ marker.type = "marker" /\ marker.key = Nil
    BY DEF Line, Lines
  <2>2. /\ latestValues' \in [Topics -> Readings \cup {Nil}] /\ entriesInFile' \in Nat
    BY <1>1, Halves DEF IInv, Shapes
  <2> DEFINE s == <<marker>>
  <2> HIDE DEF marker
  <2>3. /\ s \in Seq(Lines) /\ Body(s) /\ \A i \in DOMAIN s : s[i].type # "data"
        /\ \A t \in Topics : Without(s, t)
    BY <2>1, Constants DEF Body, Without
  <2>4. Written(s, TRUE) /\ TRUE \in BOOLEAN
    BY <1>3
  <2> HIDE DEF s
  <2> QED
    BY <1>1, <1>2, <1>3, <2>2, <2>3, <2>4, WriteAtSelect
<1>4. CASE UNCHANGED <<buf, broken, disk, torn>>
           /\ \/ pc' = "trailer" /\ file # Nil /\ then' \in {"create", "select"}
              \/ pc' \in {"create", "select"} /\ file = Nil /\ then' \in {then, "create", "select"}
  <2>1. Flags'
    BY <1>1, <1>4, Halves, Zenon DEF IInv, Flags
  <2>2. Shapes'
    BY <1>1, <1>2, <1>4, Halves DEF IInv, Shapes
  <2>3. Places'
    BY <1>1, <1>4 DEF IInv, Places
  <2> QED
    BY <1>1, <1>4, <2>1, <2>2, <2>3, Halves, Moves
<1> QED
  BY <1>1, <1>3, <1>4

\* A new file is empty; the ones before it are closed.
LEMMA CreateKeeps == IInv /\ Create => IInv'
<1> SUFFICES ASSUME IInv, Create PROVE IInv'
  OBVIOUS
<1>1. /\ pc = "create" /\ UNCHANGED <<cmdCh, then, cancelled, active, latestValues, torn>>
      /\ file = Nil /\ active = Nil
  BY DEF Create, IInv, Places
<1>2. CASE pc' = "select" /\ UNCHANGED <<file, disk, buf, broken, entriesInFile>>
  <2>1. Flags'
    BY <1>1, <1>2, Halves, Zenon DEF IInv, Flags
  <2>2. Shapes'
    BY <1>1, <1>2, Halves DEF IInv, Shapes
  <2>3. Places'
    BY <1>1, <1>2 DEF IInv, Places
  <2> QED
    BY <1>1, <1>2, <2>1, <2>2, <2>3, Halves, Moves
<1>3. CASE /\ pc' = "publish"
           /\ \E f \in Files : file' = f /\ disk' = [disk EXCEPT ![f] = <<>>]
           /\ buf' = <<>> /\ broken' = FALSE /\ entriesInFile' = 0
  <2>1. PICK f \in Files : file' = f /\ disk' = [disk EXCEPT ![f] = <<>>]
    BY <1>3
  <2>2. /\ <<>> \in Seq(Lines) /\ <<>> # Nil /\ <<>> \o <<>> = <<>>
        /\ disk' \in [Files -> Seq(Lines) \cup {Nil}] /\ disk'[f] = <<>>
        /\ \A g \in Files \ {f} : disk'[g] = disk[g]
    <3>1. <<>> \in Seq(Lines) /\ <<>> \o <<>> = <<>>
      BY ConcatEmptySeq
    <3>2. <<>> # Nil
      BY <3>1, Constants
    <3>3. disk \in [Files -> Seq(Lines) \cup {Nil}]
      BY Halves DEF IInv, Shapes
    <3> QED
      BY <2>1, <3>1, <3>2, <3>3
  <2>3. cancelled' \in BOOLEAN
    BY <1>1, Halves, Zenon DEF IInv, Flags
  <2>4. broken' \in BOOLEAN
    BY <1>3
  <2>5. Shapes'
    BY <1>1, <1>3, <2>1, <2>2, Halves DEF IInv, Shapes
  <2>6. Places'
    BY <1>1, <1>3, <2>1, <2>2, Constants DEF Places
  <2>7. Text' = <<>>
    BY <1>3, <2>1, <2>2 DEF Text
  <2>8. OpenText'
    BY <1>3, <2>1, <2>2, <2>7 DEF OpenText, Starts, EndsLast, Unended
  <2>9. Counted' /\ SnapshotKept'
    BY <1>3 DEF Counted, SnapshotKept
  <2>10. OneSessionPerFile'
    BY <2>1, <2>2 DEF IInv, OneSessionPerFile
  <2>11. ClosedIsWhole'
    BY <1>1, <2>1, <2>2, Constants DEF IInv, ClosedIsWhole
  <2> QED
    BY <2>3, <2>4, <2>5, <2>6, <2>8, <2>9, <2>10, <2>11, Halves DEF IInv, Flags
<1> QED
  BY <1>2, <1>3 DEF Create

LEMMA PublishKeeps == IInv /\ Publish => IInv'
<1> SUFFICES ASSUME IInv, Publish PROVE IInv'
  OBVIOUS
<1>1. /\ pc = "publish" /\ pc' = "header" /\ active' = file /\ file # Nil
      /\ UNCHANGED <<cmdCh, then, cancelled, file, buf, broken, disk, latestValues,
                     entriesInFile, torn>>
  BY DEF Publish, IInv, Places
<1>2. Flags'
  BY <1>1, Halves, Zenon DEF IInv, Flags
<1>3. Shapes'
  BY <1>1, Halves DEF IInv, Shapes
<1>4. Places'
  BY <1>1 DEF IInv, Places
<1> QED
  BY <1>1, <1>2, <1>3, <1>4, Halves, Moves

\* What is closed without an error has its session_end on disk.
LEMMA CloseKeeps == IInv /\ Close => IInv'
<1> SUFFICES ASSUME IInv, Close PROVE IInv'
  OBVIOUS
<1>1. /\ pc = "close" /\ pc' = "clear" /\ file' = Nil /\ buf' = <<>> /\ file # Nil
      /\ active = file /\ disk[file] # Nil
      /\ UNCHANGED <<cmdCh, then, cancelled, active, broken, disk, latestValues,
                     entriesInFile, torn>>
  BY DEF Close, IInv, Places
<1>2. Flags'
  BY <1>1, Halves, Zenon DEF IInv, Flags
<1>3. Shapes'
  BY <1>1, Halves DEF IInv, Shapes
<1>4. Places' /\ OpenText' /\ Counted' /\ SnapshotKept'
  BY <1>1 DEF Places, OpenText, Counted, SnapshotKept
<1>5. OneSessionPerFile'
  BY <1>1 DEF IInv, OneSessionPerFile
<1>6. ClosedIsWhole'
  <2>1. file \notin torn => /\ disk[file] # <<>> /\ Last(disk[file]).type = "session_end"
                            /\ Last(disk[file]).value >= DataCount(disk[file])
    BY <1>1 DEF IInv, Counted
  <2> QED
    BY <1>1, <2>1 DEF IInv, ClosedIsWhole
<1> QED
  BY <1>2, <1>3, <1>4, <1>5, <1>6, Halves DEF IInv

LEMMA ClearKeeps == IInv /\ Clear => IInv'
<1> SUFFICES ASSUME IInv, Clear PROVE IInv'
  OBVIOUS
<1>1. /\ pc = "clear" /\ active' = Nil /\ pc' = then /\ then' = "select" /\ file = Nil
      /\ UNCHANGED <<cmdCh, cancelled, file, buf, broken, disk, latestValues,
                     entriesInFile, torn>>
  BY DEF Clear, IInv, Places
<1>2. Flags'
  BY <1>1, Halves, Zenon DEF IInv, Flags
<1>3. Shapes'
  BY <1>1, Halves DEF IInv, Shapes
<1>4. Places'
  BY <1>1, Halves DEF IInv, Shapes, Places
<1> QED
  BY <1>1, <1>2, <1>3, <1>4, Halves, Moves

LEMMA ReturnKeeps == IInv /\ Return => IInv'
<1> SUFFICES ASSUME IInv, Return PROVE IInv'
  OBVIOUS
<1>1. /\ pc = "select" /\ pc' = (IF file # Nil THEN "trailer" ELSE "done") /\ then' = "done"
      /\ UNCHANGED <<cmdCh, cancelled, file, active, buf, broken, disk, latestValues,
                     entriesInFile, torn>>
  BY DEF Return
<1>2. Flags'
  BY <1>1, Halves, Zenon DEF IInv, Flags
<1>3. Shapes'
  BY <1>1, Halves DEF IInv, Shapes
<1>4. Places'
  BY <1>1 DEF IInv, Places
<1> QED
  BY <1>1, <1>2, <1>3, <1>4, Halves, Moves

\* A crash leaves the open file as it is on disk, and counts it as torn.
LEMMA CrashKeeps == IInv /\ Crash => IInv'
<1> SUFFICES ASSUME IInv, Crash PROVE IInv'
  OBVIOUS
<1>1. /\ cmdCh' = <<>> /\ pc' = "select" /\ then' = "select" /\ cancelled' = FALSE
      /\ file' = Nil /\ active' = Nil /\ buf' = <<>> /\ broken' = FALSE
      /\ latestValues' = [t \in Topics |-> Nil] /\ entriesInFile' = 0 /\ disk' = disk
      /\ torn' = IF file # Nil THEN torn \cup {file} ELSE torn
  BY DEF Crash, Boot
<1>2. Flags'
  BY <1>1 DEF Flags
<1>3. Shapes'
  <2>1. /\ <<>> \in Seq(Commands) /\ <<>> \in Seq(Lines) /\ Len(<<>>) = 0
        /\ CmdBuffer \in Nat
    BY Constants
  <2>2. torn' \subseteq Files
    BY <1>1, Halves DEF IInv, Shapes
  <2> QED
    BY <1>1, <2>1, <2>2, Halves DEF IInv, Shapes
<1>4. Places' /\ OpenText' /\ Counted' /\ SnapshotKept'
  BY <1>1 DEF Places, OpenText, Counted, SnapshotKept
<1>5. OneSessionPerFile' /\ ClosedIsWhole'
  BY <1>1 DEF IInv, OneSessionPerFile, ClosedIsWhole
<1> QED
  BY <1>2, <1>3, <1>4, <1>5, Halves DEF IInv

LEMMA Initially == Init => IInv
<1> SUFFICES ASSUME Init PROVE IInv
  OBVIOUS
<1>1. /\ cmdCh = <<>> /\ pc = "select" /\ then = "select" /\ cancelled = FALSE
      /\ file = Nil /\ active = Nil /\ buf = <<>> /\ broken = FALSE
      /\ latestValues = [t \in Topics |-> Nil] /\ entriesInFile = 0
      /\ disk = [f \in Files |-> Nil] /\ torn = {}
  BY DEF Init, Boot
<1>2. Flags
  BY <1>1 DEF Flags
<1>3. Shapes
  <2>1. /\ <<>> \in Seq(Commands) /\ <<>> \in Seq(Lines) /\ Len(<<>>) = 0
        /\ CmdBuffer \in Nat
    BY Constants
  <2> QED
    BY <1>1, <2>1 DEF Shapes
<1>4. Places /\ OpenText /\ Counted /\ SnapshotKept
  BY <1>1 DEF Places, OpenText, Counted, SnapshotKept
<1>5. OneSessionPerFile /\ ClosedIsWhole
  BY <1>1 DEF OneSessionPerFile, ClosedIsWhole
<1> QED
  BY <1>2, <1>3, <1>4, <1>5, Halves DEF IInv

LEMMA Inductive == Spec => []IInv
<1>1. IInv /\ Next => IInv'
  BY sendCommandKeeps, CancelKeeps, TakeCommandKeeps, handleValueKeeps, periodicSyncKeeps,
     CreateKeeps, PublishKeeps, HeaderKeeps, TrailerKeeps, CloseKeeps, ClearKeeps,
     ReturnKeeps, CrashKeeps
     DEF Next, StartSession, EndSession
<1>2. IInv /\ UNCHANGED vars => IInv'
  <2> SUFFICES ASSUME IInv, UNCHANGED vars PROVE IInv'
    OBVIOUS
  <2>1. UNCHANGED <<cmdCh, pc, then, cancelled, file, active, buf, broken, latestValues,
                    entriesInFile, disk, torn>>
    BY DEF vars, memory
  <2>2. Flags'
    BY <2>1, Halves, Zenon DEF IInv, Flags
  <2>3. Shapes'
    BY <2>1, Halves DEF IInv, Shapes
  <2>4. Places'
    BY <2>1 DEF IInv, Places
  <2> QED
    BY <2>1, <2>2, <2>3, <2>4, Halves, Moves
<1>3. IInv /\ [Next]_vars => IInv'
  BY <1>1, <1>2
<1> QED
  BY <1>3, Initially, PTL DEF Spec

-----------------------------------------------------------------------------
(* What the logger promises *)

\* The state stays within its types: the channel of commands never holds more
\* than its buffer, which is what keeps the main loop from waiting for the disk
\* (internal/ntlogger/logger.go:189).
THEOREM TypeCorrect == Spec => []TypeOK
<1>1. IInv => TypeOK
  BY DEF IInv
<1> QED
  BY <1>1, Inductive, PTL

\* Whatever write errors and crashes cut off, a file holds one session:
\* session_start is its first line, and session_end, if it is there, its last
\* (internal/ntlogger/logger.go:241, 292).
THEOREM OneSessionInEachFile == Spec => []OneSessionPerFile
<1>1. IInv => OneSessionPerFile
  BY DEF IInv
<1> QED
  BY <1>1, Inductive, PTL

\* A closed session that met neither a write error nor a crash has its
\* session_end on disk, which counts no fewer entries than the file has data
\* lines (internal/ntlogger/logger.go:292).
THEOREM ClosedSessionsWhole == Spec => []ClosedIsWhole
<1>1. IInv => ClosedIsWhole
  BY DEF IInv
<1> QED
  BY <1>1, Inductive, PTL

\* The last line about a topic always says what the logger last received for
\* it, though it was received before the session began
\* (internal/ntlogger/logger.go:276).
THEOREM SnapshotAlwaysKept == Spec => []SnapshotKept
<1>1. IInv => SnapshotKept
  BY DEF IInv
<1> QED
  BY <1>1, Inductive, PTL

\* The number of lines that the uploader sees in each file.
Lengths == [f \in Files |-> IF disk[f] = Nil THEN Nil ELSE Len(disk[f])]

LEMMA LengthsAre ==
  ASSUME TypeOK
  PROVE  /\ \A f \in Files : Lengths[f] = Nil <=> disk[f] = Nil
         /\ \A f \in Files : disk[f] # Nil => Lengths[f] = Len(disk[f]) /\ Len(disk[f]) \in Nat
BY Constants DEF TypeOK, Lengths

\* A write shows as new lines of the published file, or not at all.
LEMMA WriteShows ==
  ASSUME IInv, file # Nil, active = file, NEW lines \in Seq(Lines), NEW flush \in BOOLEAN,
         Written(lines, flush), file' = file, active' = active
  PROVE  Seen!Next \/ UNCHANGED Seen!vars
<1>1. TypeOK /\ disk[file] # Nil
  BY DEF IInv, Places
<1>2. /\ file \in Files /\ Len(disk[file]) \in Nat /\ Len(disk'[file]) \in Nat
      /\ Len(disk'[file]) >= Len(disk[file]) /\ disk'[file] \in Seq(Lines)
      /\ disk' = [disk EXCEPT ![file] = disk'[file]]
  BY <1>1, WrittenText
<1>3. disk \in [Files -> Seq(Lines) \cup {Nil}] /\ disk'[file] # Nil
  BY <1>1, <1>2, Constants DEF TypeOK
<1>4. \A f \in Files \ {file} : disk'[f] = disk[f]
  BY <1>2, <1>3
<1> DEFINE n == Len(disk'[file])
<1>5. /\ Lengths' = [Lengths EXCEPT ![file] = n] /\ Lengths'[file] = n
      /\ Lengths[file] = Len(disk[file])
  BY <1>1, <1>2, <1>3, <1>4 DEF Lengths
<1>6. CASE n = Len(disk[file])
  <2>1. Lengths' = Lengths
    BY <1>5, <1>6 DEF Lengths
  <2> QED
    BY <2>1 DEF Lengths, Seen!vars
<1>7. CASE n # Len(disk[file])
  <2>1. /\ Lengths'[file] \in Nat /\ Lengths'[file] > Lengths[file]
        /\ Lengths' = [Lengths EXCEPT ![file] = Lengths'[file]]
    <3>1. n \in Nat /\ n > Lengths[file]
      BY <1>2, <1>5, <1>7
    <3> HIDE DEF n
    <3> QED
      BY <1>5, <3>1
  <2>2. Seen!Flush(Lengths'[file])
    BY <2>1 DEF Seen!Flush, Lengths
  <2> QED
    BY <2>2 DEF Seen!Next, Lengths
<1> QED
  BY <1>6, <1>7

\* What a step shows of the logger: nothing, new lines, or one step of the
\* life of a session.
LEMMA StepShows == IInv /\ [Next]_vars => [Seen!Next]_(Seen!vars)
<1> SUFFICES ASSUME IInv, [Next]_vars PROVE Seen!Next \/ UNCHANGED Seen!vars
  OBVIOUS
<1>1. TypeOK /\ Places
  BY DEF IInv
<1>2. ASSUME UNCHANGED <<file, active, disk>> PROVE UNCHANGED Seen!vars
  BY <1>2 DEF Seen!vars
<1>3. CASE UNCHANGED vars
  BY <1>2, <1>3 DEF vars, memory
<1>4. CASE (\E c \in Commands : sendCommand(c)) \/ Cancel \/ Return
  BY <1>2, <1>4 DEF sendCommand, Cancel, Return
<1>5. CASE TakeCommand
  <2>1. CASE file # Nil /\ Written(<<Line("marker", Nil, Nil)>>, TRUE)
    <3>1. /\ file' = file /\ active' = active /\ active = file
      BY <1>1, <1>5 DEF TakeCommand, Places
    <3>2. <<Line("marker", Nil, Nil)>> \in Seq(Lines)
      BY DEF Line, Lines
    <3> QED
      BY <2>1, <3>1, <3>2, WriteShows
  <2>2. CASE UNCHANGED <<buf, broken, disk, torn>>
    BY <1>2, <1>5, <2>2 DEF TakeCommand
  <2> QED
    BY <1>5, <2>1, <2>2 DEF TakeCommand, recordMatchEvent
<1>6. ASSUME NEW t \in Topics, NEW v \in Readings, handleValue(t, v)
      PROVE  Seen!Next \/ UNCHANGED Seen!vars
  <2>1. /\ file' = file /\ active' = active /\ active = file
        /\ latestValues' = [latestValues EXCEPT ![t] = v]
    BY <1>1, <1>6 DEF handleValue, Places
  <2>2. CASE file = Nil
    BY <1>2, <1>6, <2>1, <2>2 DEF handleValue
  <2>3. CASE file # Nil
    <3>1. PICK lines \in DataLines({t}, latestValues') : Written(lines, FALSE)
      BY <1>6, <2>3 DEF handleValue
    <3>2. latestValues' \in [Topics -> Readings \cup {Nil}] /\ {t} \in SUBSET Topics
      BY <1>1, <2>1 DEF TypeOK
    <3>3. lines \in Seq(Lines)
      BY <3>1, <3>2, DataLinesAre
    <3> QED
      BY <2>1, <2>3, <3>1, <3>3, WriteShows
  <2> QED
    BY <2>2, <2>3
<1>7. CASE periodicSync
  BY <1>1, <1>7, EmptyBody, WriteShows DEF periodicSync, Places
<1>8. CASE Create
  <2>1. CASE UNCHANGED <<file, disk>>
    BY <1>2, <1>8, <2>1 DEF Create
  <2>2. CASE pc' = "publish"
    <3>1. PICK f \in Files : /\ disk[f] = Nil /\ \A g \in Files : g < f => disk[g] # Nil
                             /\ file' = f /\ disk' = [disk EXCEPT ![f] = <<>>]
      BY <1>8, <2>2 DEF Create
    <3>2. file = Nil /\ active = Nil /\ active' = active
      BY <1>1, <1>8 DEF Create, Places
    <3>3. /\ Lengths[f] = Nil /\ \A g \in Files : g < f => Lengths[g] # Nil
      BY <1>1, <3>1, LengthsAre
    <3>4. <<>> # Nil /\ Len(<<>>) = 0
      <4>1. <<>> \in Seq(Lines)
        OBVIOUS
      <4> QED
        BY <4>1, Constants
    <3>5. Lengths' = [Lengths EXCEPT ![f] = 0]
      <4>1. disk'[f] = <<>> /\ \A g \in Files \ {f} : disk'[g] = disk[g]
        BY <1>1, <3>1 DEF TypeOK
      <4> QED
        BY <3>4, <4>1 DEF Lengths
    <3>6. Seen!Create(f)
      BY <3>1, <3>2, <3>3, <3>5 DEF Seen!Create, Lengths
    <3> QED
      BY <3>6 DEF Seen!Next
  <2> QED
    BY <1>8, <2>1, <2>2 DEF Create
<1>9. CASE Publish
  BY <1>1, <1>9 DEF Publish, Places, Seen!Next, Seen!Publish
<1>10. CASE Header
  <2>1. file # Nil /\ active = file /\ file' = file /\ active' = active
    BY <1>1, <1>10 DEF Header, Places
  <2> DEFINE seen == {t \in Topics : latestValues[t] # Nil}
             start == <<Line("session_start", Nil, Nil)>>
  <2>2. PICK lines \in DataLines(seen, latestValues) : Written(start \o lines, TRUE)
    BY <1>10 DEF Header
  <2>3. latestValues \in [Topics -> Readings \cup {Nil}] /\ seen \in SUBSET Topics
    BY <1>1 DEF TypeOK
  <2>4. start \in Seq(Lines)
    BY DEF Line, Lines
  <2> HIDE DEF seen, start
  <2>5. lines \in Seq(Lines)
    BY <2>2, <2>3, DataLinesAre
  <2>6. start \o lines \in Seq(Lines)
    BY <2>4, <2>5
  <2> QED
    BY <2>1, <2>2, <2>6, WriteShows
<1>11. CASE Trailer
  <2>1. file # Nil /\ active = file /\ file' = file /\ active' = active
    BY <1>1, <1>11 DEF Trailer, Places
  <2>2. <<Line("session_end", Nil, entriesInFile)>> \in Seq(Lines)
    BY <1>1 DEF TypeOK, Line, Lines
  <2> QED
    BY <1>11, <2>1, <2>2, WriteShows DEF Trailer
<1>12. CASE Close
  BY <1>1, <1>12 DEF Close, Places, Seen!Next, Seen!Close
<1>13. CASE Clear
  BY <1>1, <1>13 DEF Clear, Places, Seen!Next, Seen!Clear
<1>14. CASE Crash
  BY <1>14 DEF Crash, Boot, Seen!Next, Seen!Stop
<1> QED
  BY <1>3, <1>4, <1>5, <1>6, <1>7, <1>8, <1>9, <1>10, <1>11, <1>12, <1>13, <1>14
     DEF Next, StartSession, EndSession

\* The logger shows the uploader what SessionFiles says: files are created one
\* after the other and never reopened, the session id appears after its file
\* and disappears once the file is complete, and only the file with that id
\* gains lines (internal/ntlogger/logger.go, internal/uploader/uploader.go:396).
THEOREM LoggerImplementsFiles == Spec => ImplementsSessionFiles
<1>1. Init => Seen!Init
  BY DEF Init, Boot, Seen!Init
<1> QED
  BY <1>1, StepShows, Inductive, PTL DEF Spec, ImplementsSessionFiles, Seen!Spec
=============================================================================
