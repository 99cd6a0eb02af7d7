-------------------------- MODULE NtPipelineProofs --------------------------
(***************************************************************************)
(* Proofs about NtPipeline, for any control words and any capacities.      *)
(***************************************************************************)
EXTENDS NtPipeline, SequenceTheorems, TLAPS

\* An open connection belongs to a session of the client, which says so.
LinkedOpen == link = "up" => connected /\ nt \in {"subscribe", "read", "full", "push"}

\* The client holds a value while it makes room for it, and only then.
HandHeld == nt \in {"full", "push"} <=> hand # Nil

\* The announcement comes before every value, and cannot be missing from a
\* connection that works.
AnnouncedFirst ==
  nt \in {"read", "full", "push"} /\ announced # Topics =>
    /\ wire # <<>> => Head(wire) = Announcement
    /\ link = "up" => wire # <<>>

\* The two halves of TypeOK, for two provers.
Flags == up \in BOOLEAN /\ connected \in BOOLEAN /\ cancelled \in BOOLEAN /\ dropped \in BOOLEAN

Shapes ==
  /\ word \in Words /\ fms \in Words \cup {Nil}
  /\ link \in {"none", "up", "broken"}
  /\ wire \in Seq(Words \cup {Other, Announcement}) /\ Len(wire) <= WireCap
  /\ nt \in {"dial", "subscribe", "read", "full", "push", "lost", "done"}
  /\ announced \subseteq Topics /\ hand \in Words \cup {Other, Nil}
  /\ values \in Seq(Words \cup {Other}) /\ Len(values) <= ValuesCap
  /\ fmsCh \in Seq(Words) /\ Len(fmsCh) <= FmsCap
  /\ cameras \in 0..CamerasCap
  /\ polls \in 0..MaxPolls
  /\ limelight \in {"select", "waiting", "done"} /\ fan \in {"select", "done"}
  /\ main \in {"loop", "closing", "closed"}

IInv ==
  /\ TypeOK
  /\ LinkedOpen
  /\ HandHeld
  /\ AnnouncedFirst
  /\ NewestOnItsWay
  /\ NoSendAfterClose

-----------------------------------------------------------------------------
(* The last word of a sequence *)

Frames == Words \cup {Nil, Other, Announcement}

LEMMA ByIndex ==
  ASSUME NEW s \in Seq(Frames), NEW w \in Words
  PROVE  /\ NoWord(s) <=> \A i \in 1..Len(s) : s[i] \notin Words
         /\ LastWordIs(s, w) <=>
              \E i \in 1..Len(s) : s[i] = w /\ \A j \in i + 1..Len(s) : s[j] \notin Words
<1>1. DOMAIN s = 1..Len(s) /\ Len(s) \in Nat
  OBVIOUS
<1>2. ASSUME NEW i \in 1..Len(s)
      PROVE  NoWord(SubSeq(s, i + 1, Len(s))) <=> \A j \in i + 1..Len(s) : s[j] \notin Words
  <2> DEFINE r == SubSeq(s, i + 1, Len(s))
  <2>1. /\ DOMAIN r = 1..Len(s) - i
        /\ \A k \in 1..Len(s) - i : r[k] = s[i + k]
    BY <1>1
  <2>2. \A j \in i + 1..Len(s) : j - i \in 1..Len(s) - i /\ i + (j - i) = j
    BY <1>1
  <2>3. \A k \in 1..Len(s) - i : i + k \in i + 1..Len(s)
    BY <1>1
  <2> HIDE DEF r
  <2>4. (\A k \in 1..Len(s) - i : r[k] \notin Words) <=> \A j \in i + 1..Len(s) : s[j] \notin Words
    BY <2>1, <2>2, <2>3
  <2> QED
    BY <2>1, <2>4 DEF NoWord, IsWord, r
<1> QED
  BY <1>1, <1>2 DEF NoWord, IsWord, LastWordIs

LEMMA OfNone == /\ <<>> \in Seq(Frames) /\ NoWord(<<>>)
                /\ \A w \in Words : ~LastWordIs(<<>>, w)
BY DEF NoWord, LastWordIs

LEMMA OfOne ==
  ASSUME NEW x \in Frames, NEW w \in Words
  PROVE  /\ <<x>> \in Seq(Frames)
         /\ NoWord(<<x>>) <=> x \notin Words
         /\ LastWordIs(<<x>>, w) <=> x = w
<1> DEFINE s == <<x>>
<1>1. s \in Seq(Frames) /\ Len(s) = 1 /\ s[1] = x
  OBVIOUS
<1> HIDE DEF s
<1>2. (NoWord(s) <=> x \notin Words) /\ (LastWordIs(s, w) <=> x = w)
  BY <1>1, ByIndex
<1> QED
  BY <1>1, <1>2 DEF s

\* A word further on hides the ones before it.
LEMMA OfConcat ==
  ASSUME NEW s \in Seq(Frames), NEW t \in Seq(Frames), NEW w \in Words
  PROVE  /\ s \o t \in Seq(Frames)
         /\ NoWord(s \o t) <=> NoWord(s) /\ NoWord(t)
         /\ LastWordIs(s \o t, w) <=> LastWordIs(t, w) \/ (NoWord(t) /\ LastWordIs(s, w))
<1> DEFINE r == s \o t
           m == Len(s)
           n == Len(t)
<1>1. /\ r \in Seq(Frames) /\ m \in Nat /\ n \in Nat /\ Len(r) = m + n
      /\ \A i \in 1..m : r[i] = s[i]
      /\ \A i \in 1..n : r[m + i] = t[i]
  OBVIOUS
<1> HIDE DEF r
<1>2. /\ NoWord(s) <=> \A i \in 1..m : s[i] \notin Words
      /\ NoWord(t) <=> \A i \in 1..n : t[i] \notin Words
      /\ NoWord(r) <=> \A i \in 1..m + n : r[i] \notin Words
      /\ LastWordIs(s, w) <=> \E i \in 1..m : s[i] = w /\ \A j \in i + 1..m : s[j] \notin Words
      /\ LastWordIs(t, w) <=> \E i \in 1..n : t[i] = w /\ \A j \in i + 1..n : t[j] \notin Words
      /\ LastWordIs(r, w) <=>
           \E i \in 1..m + n : r[i] = w /\ \A j \in i + 1..m + n : r[j] \notin Words
  BY <1>1, ByIndex
<1> HIDE DEF m, n
\* The second part of r is t, from any index on.
<1>3. ASSUME NEW k \in 0..n
      PROVE  (\A j \in m + k + 1..m + n : r[j] \notin Words)
               <=> \A j \in k + 1..n : t[j] \notin Words
  <2>1. \A j \in m + k + 1..m + n : j - m \in k + 1..n /\ r[j] = t[j - m]
    BY <1>1
  <2>2. \A j \in k + 1..n : m + j \in m + k + 1..m + n /\ r[m + j] = t[j]
    BY <1>1
  <2> QED
    BY <2>1, <2>2
\* Its first part is s, and all of t comes behind it.
<1>4. ASSUME NEW k \in 0..m
      PROVE  (\A j \in k + 1..m + n : r[j] \notin Words)
               <=> (\A j \in k + 1..m : s[j] \notin Words) /\ NoWord(t)
  <2>1. (\A j \in k + 1..m + n : r[j] \notin Words)
          <=> /\ \A j \in k + 1..m : r[j] \notin Words
              /\ \A j \in m + 1..m + n : r[j] \notin Words
    <3>1. /\ \A j \in k + 1..m + n : j \in k + 1..m \/ j \in m + 1..m + n
          /\ \A j \in k + 1..m : j \in k + 1..m + n
          /\ \A j \in m + 1..m + n : j \in k + 1..m + n
      BY <1>1
    <3> QED
      BY <3>1, Zenon
  <2>2. (\A j \in k + 1..m : r[j] \notin Words) <=> \A j \in k + 1..m : s[j] \notin Words
    BY <1>1
  <2>3. (\A j \in m + 1..m + n : r[j] \notin Words) <=> NoWord(t)
    <3>1. 0 \in 0..n /\ m + 0 + 1 = m + 1 /\ 0 + 1 = 1
      BY <1>1
    <3> QED
      BY <1>2, <1>3, <3>1
  <2> QED
    BY <2>1, <2>2, <2>3
<1>5. NoWord(r) <=> NoWord(s) /\ NoWord(t)
  <2>1. 0 \in 0..m /\ 0 + 1 = 1
    BY <1>1
  <2> QED
    BY <1>2, <1>4, <2>1
<1>6. LastWordIs(t, w) => LastWordIs(r, w)
  <2> SUFFICES ASSUME LastWordIs(t, w) PROVE LastWordIs(r, w)
    OBVIOUS
  <2>1. PICK i \in 1..n : t[i] = w /\ \A j \in i + 1..n : t[j] \notin Words
    BY <1>2
  <2>2. m + i \in 1..m + n /\ r[m + i] = w /\ i \in 0..n
    BY <1>1, <2>1
  <2>3. \A j \in m + i + 1..m + n : r[j] \notin Words
    BY <1>3, <2>1, <2>2
  <2> QED
    BY <1>2, <2>2, <2>3
<1>7. NoWord(t) /\ LastWordIs(s, w) => LastWordIs(r, w)
  <2> SUFFICES ASSUME NoWord(t), LastWordIs(s, w) PROVE LastWordIs(r, w)
    OBVIOUS
  <2>1. PICK i \in 1..m : s[i] = w /\ \A j \in i + 1..m : s[j] \notin Words
    BY <1>2
  <2>2. i \in 1..m + n /\ r[i] = w /\ i \in 0..m
    BY <1>1, <2>1
  <2>3. \A j \in i + 1..m + n : r[j] \notin Words
    BY <1>4, <2>1, <2>2
  <2> QED
    BY <1>2, <2>2, <2>3
<1>8. LastWordIs(r, w) => LastWordIs(t, w) \/ (NoWord(t) /\ LastWordIs(s, w))
  <2> SUFFICES ASSUME LastWordIs(r, w) PROVE LastWordIs(t, w) \/ (NoWord(t) /\ LastWordIs(s, w))
    OBVIOUS
  <2>1. PICK i \in 1..m + n : r[i] = w /\ \A j \in i + 1..m + n : r[j] \notin Words
    BY <1>2
  <2>2. CASE i <= m
    <3>1. i \in 1..m /\ i \in 0..m /\ s[i] = w
      BY <1>1, <2>1, <2>2
    <3>2. (\A j \in i + 1..m : s[j] \notin Words) /\ NoWord(t)
      BY <1>4, <2>1, <3>1
    <3> QED
      BY <1>2, <3>1, <3>2
  <2>3. CASE i > m
    <3>1. i - m \in 1..n /\ i - m \in 0..n /\ t[i - m] = w /\ m + (i - m) + 1 = i + 1
      BY <1>1, <2>1, <2>3
    <3>2. \A j \in (i - m) + 1..n : t[j] \notin Words
      BY <1>3, <2>1, <3>1
    <3> QED
      BY <1>2, <3>1, <3>2
  <2> QED
    BY <1>1, <2>2, <2>3
<1> QED
  BY <1>1, <1>5, <1>6, <1>7, <1>8 DEF r

LEMMA OfAppend ==
  ASSUME NEW s \in Seq(Frames), NEW x \in Frames, NEW w \in Words
  PROVE  /\ NoWord(Append(s, x)) <=> NoWord(s) /\ x \notin Words
         /\ LastWordIs(Append(s, x), w) <=> x = w \/ (x \notin Words /\ LastWordIs(s, w))
<1> DEFINE b == <<x>>
<1>1. Append(s, x) = s \o b
  OBVIOUS
<1>2. b \in Seq(Frames) /\ (NoWord(b) <=> x \notin Words) /\ (LastWordIs(b, w) <=> x = w)
  BY OfOne
<1> HIDE DEF b
<1>3. /\ NoWord(s \o b) <=> NoWord(s) /\ NoWord(b)
      /\ LastWordIs(s \o b, w) <=> LastWordIs(b, w) \/ (NoWord(b) /\ LastWordIs(s, w))
  BY <1>2, OfConcat
<1> QED
  BY <1>1, <1>2, <1>3

LEMMA OfTail ==
  ASSUME NEW s \in Seq(Frames), s # <<>>, NEW w \in Words
  PROVE  /\ Head(s) \in Frames /\ Tail(s) \in Seq(Frames)
         /\ NoWord(s) <=> Head(s) \notin Words /\ NoWord(Tail(s))
         /\ LastWordIs(s, w) <=> LastWordIs(Tail(s), w) \/ (NoWord(Tail(s)) /\ Head(s) = w)
<1> DEFINE h == <<Head(s)>>
           t == Tail(s)
<1>1. /\ Head(s) \in Frames /\ t \in Seq(Frames) /\ h \in Seq(Frames)
      /\ Len(h) = 1 /\ h[1] = s[1] /\ Len(t) = Len(s) - 1 /\ Len(s) \in Nat \ {0}
      /\ \A i \in 1..Len(t) : t[i] = s[i + 1]
  BY HeadTailProperties, EmptySeq
<1>2. /\ NoWord(h) <=> Head(s) \notin Words
      /\ LastWordIs(h, w) <=> Head(s) = w
  BY <1>1, OfOne
<1> HIDE DEF h, t
<1>3. /\ h \o t \in Seq(Frames) /\ Len(h \o t) = Len(s)
      /\ \A i \in 1..Len(s) : (h \o t)[i] = IF i <= 1 THEN h[i] ELSE t[i - 1]
  <2>1. /\ h \o t \in Seq(Frames) /\ Len(h \o t) = Len(h) + Len(t)
        /\ \A i \in 1..Len(h) + Len(t) :
             (h \o t)[i] = IF i <= Len(h) THEN h[i] ELSE t[i - Len(h)]
    BY <1>1, ConcatProperties, Zenon
  <2>2. Len(h) + Len(t) = Len(s)
    BY <1>1
  <2> QED
    BY <1>1, <2>1, <2>2
<1>4. \A i \in 1..Len(s) : (h \o t)[i] = s[i]
  <2> SUFFICES ASSUME NEW i \in 1..Len(s) PROVE (h \o t)[i] = s[i]
    OBVIOUS
  <2>1. CASE i = 1
    BY <1>1, <1>3, <2>1
  <2>2. CASE i # 1
    <3>1. i - 1 \in 1..Len(t) /\ ~(i <= 1) /\ (i - 1) + 1 = i
      BY <1>1, <2>2
    <3> QED
      BY <1>1, <1>3, <3>1
  <2> QED
    BY <2>1, <2>2
<1>5. h \o t = s
  BY <1>1, <1>3, <1>4, SeqEqual
<1> QED
  BY <1>1, <1>2, <1>5, OfConcat DEF t

\* A sequence with a last word has a word.
LEMMA LastIsWord ==
  ASSUME NEW s \in Seq(Frames), NEW w \in Words, LastWordIs(s, w)
  PROVE  ~NoWord(s)
BY ByIndex

-----------------------------------------------------------------------------
(* The line of the control word, from the main loop back to the robot *)

\* w is the last word of what the wire u, the hand h, the channels v and f and
\* the main loop x hold between them.
OnLine(w, x, f, v, h, u) ==
  \/ LastWordIs(u, w)
  \/ NoWord(u) /\ h = w
  \/ NoWord(u) /\ h \notin Words /\ LastWordIs(v, w)
  \/ NoWord(u) /\ h \notin Words /\ NoWord(v) /\ LastWordIs(f, w)
  \/ NoWord(u) /\ h \notin Words /\ NoWord(v) /\ NoWord(f) /\ x = w

LEMMA Line ==
  ASSUME NEW w \in Words, NEW x \in Frames, NEW h \in Frames,
         NEW f \in Seq(Frames), NEW v \in Seq(Frames), NEW u \in Seq(Frames)
  PROVE  /\ LastWordIs(<<x>> \o f \o v \o <<h>> \o u, w) <=> OnLine(w, x, f, v, h, u)
         /\ NoWord(v \o <<h>> \o u) <=> NoWord(v) /\ h \notin Words /\ NoWord(u)
<1>1. /\ <<x>> \in Seq(Frames) /\ (NoWord(<<x>>) <=> x \notin Words)
      /\ LastWordIs(<<x>>, w) <=> x = w
  BY OfOne
<1>2. /\ <<h>> \in Seq(Frames) /\ (NoWord(<<h>>) <=> h \notin Words)
      /\ LastWordIs(<<h>>, w) <=> h = w
  BY OfOne
<1> DEFINE a == <<x>>
           b == <<h>>
<1> HIDE DEF a, b
<1>3. /\ a \o f \in Seq(Frames)
      /\ LastWordIs(a \o f, w) <=> LastWordIs(f, w) \/ (NoWord(f) /\ x = w)
  BY <1>1, OfConcat DEF a
<1>4. /\ a \o f \o v \in Seq(Frames)
      /\ LastWordIs(a \o f \o v, w) <=> LastWordIs(v, w) \/ (NoWord(v) /\ LastWordIs(a \o f, w))
  BY <1>3, OfConcat
<1>5. /\ a \o f \o v \o b \in Seq(Frames)
      /\ LastWordIs(a \o f \o v \o b, w) <=> h = w \/ (h \notin Words /\ LastWordIs(a \o f \o v, w))
  BY <1>2, <1>4, OfConcat DEF b
<1>6. LastWordIs(a \o f \o v \o b \o u, w)
        <=> LastWordIs(u, w) \/ (NoWord(u) /\ LastWordIs(a \o f \o v \o b, w))
  BY <1>5, OfConcat
<1>7. /\ v \o b \in Seq(Frames) /\ (NoWord(v \o b) <=> NoWord(v) /\ h \notin Words)
      /\ NoWord(v \o b \o u) <=> NoWord(v \o b) /\ NoWord(u)
  <2>1. v \o b \in Seq(Frames) /\ (NoWord(v \o b) <=> NoWord(v) /\ h \notin Words)
    BY <1>2, OfConcat DEF b
  <2> QED
    BY <2>1, OfConcat
<1>8. LastWordIs(a \o f \o v \o b \o u, w) <=> OnLine(w, x, f, v, h, u)
  BY <1>3, <1>4, <1>5, <1>6 DEF OnLine
<1> QED
  BY <1>7, <1>8 DEF a, b

\* What the capacities and the distinct values mean to the steps.
LEMMA Constants ==
  /\ Nil \notin Words /\ Other \notin Words /\ Other # Nil
  /\ Announcement \notin Words /\ Announcement # Nil /\ Announcement # Other
  /\ ValuesCap \in Nat \ {0} /\ FmsCap \in Nat \ {0}
  /\ CamerasCap \in Nat \ {0} /\ MaxPolls \in Nat \ {0}
  /\ WireCap \in Nat /\ WireCap >= 2
BY PipelineAssumption

LEMMA Halves == /\ TypeOK <=> Flags /\ Shapes
                /\ TypeOK' <=> Flags' /\ Shapes'
BY DEF TypeOK, Flags, Shapes

LEMMA Typed ==
  ASSUME TypeOK
  PROVE  /\ word \in Words /\ fms \in Frames /\ hand \in Frames
         /\ fmsCh \in Seq(Frames) /\ values \in Seq(Frames) /\ wire \in Seq(Frames)
         /\ NewestOnItsWay <=>
              (Subscribed /\ ~dropped => OnLine(word, fms, fmsCh, values, hand, wire))
<1>1. Words \subseteq Frames /\ Words \cup {Other} \subseteq Frames
      /\ Words \cup {Other, Announcement} \subseteq Frames
  BY DEF Frames
<1>2. word \in Words /\ fms \in Frames /\ hand \in Frames
  BY DEF TypeOK, Frames
<1>3. fmsCh \in Seq(Words) /\ values \in Seq(Words \cup {Other})
      /\ wire \in Seq(Words \cup {Other, Announcement})
  BY DEF TypeOK
<1>4. fmsCh \in Seq(Frames) /\ values \in Seq(Frames) /\ wire \in Seq(Frames)
  BY <1>1, <1>3, SeqMonotonic, Zenon
<1> QED
  BY <1>2, <1>4, Line DEF NewestOnItsWay

LEMMA TypedNext ==
  ASSUME TypeOK'
  PROVE  /\ word' \in Words /\ fms' \in Frames /\ hand' \in Frames
         /\ fmsCh' \in Seq(Frames) /\ values' \in Seq(Frames) /\ wire' \in Seq(Frames)
         /\ NewestOnItsWay' <=>
              (Subscribed' /\ ~dropped' => OnLine(word', fms', fmsCh', values', hand', wire'))
<1>1. Words \subseteq Frames /\ Words \cup {Other} \subseteq Frames
      /\ Words \cup {Other, Announcement} \subseteq Frames
  BY DEF Frames
<1>2. word' \in Words /\ fms' \in Frames /\ hand' \in Frames
  BY DEF TypeOK, Frames
<1>3. fmsCh' \in Seq(Words) /\ values' \in Seq(Words \cup {Other})
      /\ wire' \in Seq(Words \cup {Other, Announcement})
  BY DEF TypeOK
<1>4. fmsCh' \in Seq(Frames) /\ values' \in Seq(Frames) /\ wire' \in Seq(Frames)
  BY <1>1, <1>3, SeqMonotonic, Zenon
<1> QED
  BY <1>2, <1>4, Line DEF NewestOnItsWay

\* A sequence that loses its head, or gains a last element, keeps its type.
LEMMA Popped ==
  ASSUME NEW S, NEW s \in Seq(S), s # <<>>
  PROVE  /\ Head(s) \in S /\ Tail(s) \in Seq(S) /\ Len(s) \in Nat /\ Len(Tail(s)) \in Nat
         /\ Len(Tail(s)) < Len(s)
BY HeadTailProperties, EmptySeq

LEMMA Pushed ==
  ASSUME NEW S, NEW s \in Seq(S), NEW x \in S
  PROVE  /\ Append(s, x) \in Seq(S) /\ Len(s) \in Nat /\ Len(Append(s, x)) = Len(s) + 1
         /\ Append(s, x) # <<>> /\ (s # <<>> => Head(Append(s, x)) = Head(s))
<1>1. Append(s, x) \in Seq(S) /\ Len(s) \in Nat /\ Len(Append(s, x)) = Len(s) + 1
      /\ \A i \in 1..Len(s) : Append(s, x)[i] = s[i]
  OBVIOUS
<1>2. Append(s, x) # <<>>
  BY <1>1
<1>3. s # <<>> => Head(Append(s, x)) = Head(s)
  BY <1>1, <1>2, EmptySeq
<1> QED
  BY <1>1, <1>2, <1>3

\* The channels of the camera, the fan-out and the shutdown carry no word.
Aside == UNCHANGED <<word, link, wire, nt, announced, hand, connected, values, fmsCh, fms,
                     dropped>>

LEMMA LineAside ==
  ASSUME IInv, TypeOK', Aside, NoSendAfterClose'
  PROVE  IInv'
<1>1. LinkedOpen' /\ HandHeld' /\ AnnouncedFirst'
  BY DEF IInv, Aside, LinkedOpen, HandHeld, AnnouncedFirst
<1>2. NewestOnItsWay'
  BY DEF IInv, Aside, NewestOnItsWay, Subscribed
<1> QED
  BY <1>1, <1>2 DEF IInv

\* With nothing subscribed there is nothing to be known.
LEMMA LineGone ==
  ASSUME TypeOK', LinkedOpen', HandHeld', AnnouncedFirst', NoSendAfterClose', link' # "up"
  PROVE  IInv'
BY DEF IInv, NewestOnItsWay, Subscribed

-----------------------------------------------------------------------------
(* Every step keeps the inductive invariant *)

LEMMA Initially == Init => IInv
<1> SUFFICES ASSUME Init PROVE IInv
  OBVIOUS
<1>1. TypeOK
  <2>1. <<>> \in Seq(Words) /\ <<>> \in Seq(Words \cup {Other})
        /\ <<>> \in Seq(Words \cup {Other, Announcement}) /\ Len(<<>>) = 0
    OBVIOUS
  <2>2. Shapes
    BY <2>1, Constants DEF Init, Shapes
  <2>3. Flags
    BY Zenon DEF Init, Flags
  <2> QED
    BY <2>2, <2>3, Halves
<1> QED
  BY <1>1, Constants
     DEF Init, IInv, LinkedOpen, HandHeld, AnnouncedFirst, NewestOnItsWay, Subscribed,
         NoSendAfterClose

LEMMA ChangeWordKeeps == IInv /\ ChangeWord => IInv'
<1> SUFFICES ASSUME IInv, ChangeWord PROVE IInv'
  OBVIOUS
<1> USE Constants
<1>1. /\ UNCHANGED <<up, link, nt, announced, connected, hand, values, polls, cameras,
                     limelight, fan, fmsCh, fms, main, cancelled>>
      /\ word' \in Words
      /\ \/ Subscribed /\ Len(wire) < WireCap /\ wire' = Append(wire, word') /\ dropped' = FALSE
         \/ ~Subscribed /\ wire' = wire /\ dropped' = dropped
  BY DEF ChangeWord, client, camera, sinks, loop
<1>2. /\ Append(wire, word') \in Seq(Words \cup {Other, Announcement})
      /\ Len(Append(wire, word')) = Len(wire) + 1 /\ Len(wire) \in Nat
      /\ Append(wire, word') # <<>>
      /\ wire # <<>> => Head(Append(wire, word')) = Head(wire)
  BY <1>1, Pushed DEF IInv, TypeOK
<1>3. TypeOK'
  <2>1. up' \in BOOLEAN /\ connected' \in BOOLEAN /\ cancelled' \in BOOLEAN
    BY <1>1, Halves, Zenon DEF IInv, Flags
  <2>2. dropped' \in BOOLEAN
    BY <1>1, Halves, Zenon DEF IInv, Flags
  <2>3. wire' \in Seq(Words \cup {Other, Announcement}) /\ Len(wire') <= WireCap
    <3>1. wire \in Seq(Words \cup {Other, Announcement}) /\ Len(wire) <= WireCap
      BY Halves DEF IInv, Shapes
    <3>2. (wire' = Append(wire, word') /\ Len(wire) < WireCap) \/ wire' = wire
      BY <1>1
    <3> QED
      BY <1>2, <3>1, <3>2
  <2>4. Shapes'
    BY <1>1, <2>3, Halves DEF IInv, Shapes
  <2> QED
    BY <2>1, <2>2, <2>4, Halves DEF Flags
<1>4. LinkedOpen' /\ HandHeld' /\ NoSendAfterClose'
  BY <1>1 DEF IInv, LinkedOpen, HandHeld, NoSendAfterClose
<1>5. AnnouncedFirst'
  BY <1>1, <1>2 DEF IInv, AnnouncedFirst, Subscribed
<1>6. NewestOnItsWay'
  <2>1. CASE Subscribed
    <3>1. wire \in Seq(Frames) /\ word' \in Words /\ word' \in Frames
      BY <1>1, Typed DEF IInv, Frames
    <3>2. LastWordIs(Append(wire, word'), word')
      BY <3>1, OfAppend
    <3>3. LastWordIs(wire', word')
      BY <1>1, <2>1, <3>2
    <3> QED
      BY <1>3, <3>3, TypedNext DEF OnLine
  <2>2. CASE ~Subscribed
    BY <1>1, <2>2 DEF NewestOnItsWay, Subscribed
  <2> QED
    BY <2>1, <2>2
<1> QED
  BY <1>3, <1>4, <1>5, <1>6 DEF IInv

LEMMA SendOtherKeeps == IInv /\ SendOther => IInv'
<1> SUFFICES ASSUME IInv, SendOther PROVE IInv'
  OBVIOUS
<1> USE Constants
<1>1. /\ UNCHANGED <<word, up, link, nt, announced, connected, hand, values, polls, cameras,
                     limelight, fan, fmsCh, fms, main, cancelled, dropped>>
      /\ Subscribed /\ Len(wire) < WireCap /\ wire' = Append(wire, Other)
  BY DEF SendOther, robot, client, camera, sinks, loop
<1>2. /\ wire' \in Seq(Words \cup {Other, Announcement})
      /\ Len(wire') = Len(wire) + 1 /\ Len(wire) \in Nat /\ wire' # <<>>
      /\ wire # <<>> => Head(wire') = Head(wire)
  BY <1>1, Pushed DEF IInv, TypeOK
<1>3. TypeOK'
  BY <1>1, <1>2 DEF IInv, TypeOK
<1>4. LinkedOpen' /\ HandHeld' /\ NoSendAfterClose'
  BY <1>1 DEF IInv, LinkedOpen, HandHeld, NoSendAfterClose
<1>5. AnnouncedFirst'
  BY <1>1, <1>2 DEF IInv, AnnouncedFirst, Subscribed
<1>6. /\ NoWord(wire') <=> NoWord(wire)
      /\ LastWordIs(wire', word) <=> LastWordIs(wire, word)
  BY <1>1, Typed, OfAppend DEF IInv, Frames
<1>7. NewestOnItsWay'
  BY <1>1, <1>3, <1>6, Typed, TypedNext DEF IInv, OnLine, Subscribed
<1> QED
  BY <1>3, <1>4, <1>5, <1>7 DEF IInv

LEMMA BreakKeeps == IInv /\ Break => IInv'
<1> SUFFICES ASSUME IInv, Break PROVE IInv'
  OBVIOUS
<1> USE Constants
<1>1. /\ UNCHANGED <<word, up, nt, announced, connected, hand, values, polls, cameras,
                     limelight, fan, fmsCh, fms, main, cancelled, dropped>>
      /\ link = "up" /\ link' = "broken"
  BY DEF Break, robot, client, camera, sinks, loop
<1>2. PICK n \in 0..Len(wire) : wire' = SubSeq(wire, 1, n)
  BY DEF Break
<1>3. wire \in Seq(Words \cup {Other, Announcement}) /\ Len(wire) <= WireCap
  BY Halves DEF IInv, Shapes
<1>4. /\ wire' \in Seq(Words \cup {Other, Announcement}) /\ Len(wire') <= WireCap
      /\ wire' # <<>> => wire # <<>> /\ Head(wire') = Head(wire)
  <2>1. /\ Len(wire) \in Nat /\ n \in Nat /\ n <= Len(wire)
        /\ \A i \in 1..n : wire[i] \in Words \cup {Other, Announcement}
    BY <1>2, <1>3
  <2>2. /\ SubSeq(wire, 1, n) \in Seq(Words \cup {Other, Announcement})
        /\ Len(SubSeq(wire, 1, n)) = n
        /\ \A i \in 1..n : SubSeq(wire, 1, n)[i] = wire[i]
    BY <1>3, <2>1
  <2>3. wire' # <<>> => n >= 1
    BY <1>2, <2>1, <2>2, EmptySeq
  <2> QED
    BY <1>2, <1>3, <2>1, <2>2, <2>3
<1>5. TypeOK'
  <2>1. Flags'
    BY <1>1, Halves, Zenon DEF IInv, Flags
  <2>2. Shapes'
    BY <1>1, <1>4, Halves DEF IInv, Shapes
  <2> QED
    BY <2>1, <2>2, Halves
<1>6. LinkedOpen' /\ HandHeld' /\ NoSendAfterClose'
  BY <1>1 DEF IInv, LinkedOpen, HandHeld, NoSendAfterClose
<1>7. AnnouncedFirst'
  BY <1>1, <1>4 DEF IInv, AnnouncedFirst
<1> QED
  BY <1>1, <1>5, <1>6, <1>7, LineGone

LEMMA DialKeeps == IInv /\ Dial => IInv'
<1> SUFFICES ASSUME IInv, Dial PROVE IInv'
  OBVIOUS
<1>1. /\ UNCHANGED <<word, up, wire, announced, hand, values, polls, cameras,
                     limelight, fan, fmsCh, fms, main, cancelled, dropped>>
      /\ nt = "dial"
      /\ \/ link' = "up" /\ connected' = TRUE /\ nt' = "subscribe"
         \/ nt' = "lost" /\ link' = link /\ connected' = connected
  BY DEF Dial, robot, camera, sinks, loop
<1>2. TypeOK'
  <2>1. up' \in BOOLEAN /\ cancelled' \in BOOLEAN /\ dropped' \in BOOLEAN
    BY <1>1, Halves, Zenon DEF IInv, Flags
  <2>2. connected' \in BOOLEAN
    BY <1>1, Halves, Zenon DEF IInv, Flags
  <2>3. Shapes'
    BY <1>1, Halves DEF IInv, Shapes
  <2> QED
    BY <2>1, <2>2, <2>3, Halves DEF Flags
<1>3. link # "up"
  BY <1>1 DEF IInv, LinkedOpen
<1>4. LinkedOpen' /\ HandHeld' /\ AnnouncedFirst' /\ NoSendAfterClose'
  BY <1>1, <1>3 DEF IInv, LinkedOpen, HandHeld, AnnouncedFirst, NoSendAfterClose
<1>5. ~Subscribed'
  BY <1>1, <1>3 DEF Subscribed
<1> QED
  BY <1>2, <1>4, <1>5 DEF IInv, NewestOnItsWay

\* Nothing is left of a session that ends.
LEMMA LoseKeeps ==
  ASSUME IInv, Lose, nt \in {"subscribe", "read"},
         UNCHANGED <<word, up, connected, hand, values, polls, cameras, limelight, fan,
                     fmsCh, fms, main, cancelled, dropped>>
  PROVE  IInv'
<1>1. nt' = "lost" /\ link' = "none" /\ wire' = <<>> /\ announced' = {}
  BY DEF Lose
<1>2. TypeOK'
  <2>1. Flags'
    BY Halves, Zenon DEF IInv, Flags
  <2>2. <<>> \in Seq(Words \cup {Other, Announcement}) /\ Len(<<>>) = 0 /\ 0 <= WireCap
    BY Constants
  <2>3. Shapes'
    BY <1>1, <2>2, Halves DEF IInv, Shapes
  <2> QED
    BY <2>1, <2>3, Halves
<1>3. LinkedOpen' /\ HandHeld' /\ AnnouncedFirst' /\ NoSendAfterClose'
  BY <1>1 DEF IInv, LinkedOpen, HandHeld, AnnouncedFirst, NoSendAfterClose
<1> QED
  BY <1>1, <1>2, <1>3, LineGone

LEMMA ReadFailsKeeps == IInv /\ ReadFails => IInv'
BY LoseKeeps DEF ReadFails, robot, camera, sinks, loop

LEMMA SubscribeKeeps == IInv /\ Subscribe => IInv'
<1> SUFFICES ASSUME IInv, Subscribe PROVE IInv'
  OBVIOUS
<1> USE Constants
<1>1. /\ UNCHANGED <<word, up, connected, hand, values, polls, cameras, limelight, fan,
                     fmsCh, fms, main, cancelled>>
      /\ nt = "subscribe"
  BY DEF Subscribe, robot, camera, sinks, loop
<1>2. CASE Lose /\ dropped' = dropped
  BY <1>1, <1>2, LoseKeeps
<1>3. CASE /\ link = "up" /\ wire' = <<Announcement, word>> /\ nt' = "read"
           /\ dropped' = FALSE /\ link' = link /\ announced' = announced
  <2>1. /\ word \in Words
        /\ <<Announcement, word>> \in Seq(Words \cup {Other, Announcement})
        /\ Len(<<Announcement, word>>) = 2 /\ <<Announcement, word>> # <<>>
        /\ Head(<<Announcement, word>>) = Announcement
        /\ <<Announcement, word>> = Append(<<Announcement>>, word)
    BY Halves DEF IInv, Shapes
  <2>2. TypeOK'
    <3>1. up' \in BOOLEAN /\ connected' \in BOOLEAN /\ cancelled' \in BOOLEAN
      BY <1>1, Halves, Zenon DEF IInv, Flags
    <3>2. dropped' \in BOOLEAN
      BY <1>3
    <3>3. wire' \in Seq(Words \cup {Other, Announcement}) /\ Len(wire') <= WireCap
      BY <1>3, <2>1
    <3>4. Shapes'
      BY <1>1, <1>3, <3>3, Halves DEF IInv, Shapes
    <3> QED
      BY <3>1, <3>2, <3>4, Halves DEF Flags
  <2>3. LinkedOpen' /\ HandHeld' /\ AnnouncedFirst' /\ NoSendAfterClose'
    BY <1>1, <1>3, <2>1
       DEF IInv, LinkedOpen, HandHeld, AnnouncedFirst, NoSendAfterClose
  <2>4. LastWordIs(wire', word')
    <3>1. <<Announcement>> \in Seq(Frames) /\ word \in Frames
      BY <2>1, OfOne DEF Frames
    <3>2. LastWordIs(Append(<<Announcement>>, word), word)
      BY <2>1, <3>1, OfAppend
    <3> QED
      BY <1>1, <1>3, <2>1, <3>2
  <2>5. NewestOnItsWay'
    BY <2>2, <2>4, TypedNext DEF OnLine
  <2> QED
    BY <2>2, <2>3, <2>5 DEF IInv
<1> QED
  BY <1>2, <1>3 DEF Subscribe

LEMMA ReadKeeps == IInv /\ Read => IInv'
<1> SUFFICES ASSUME IInv, Read PROVE IInv'
  OBVIOUS
<1> USE Constants
<1> DEFINE frame == Head(wire)
<1>1. /\ UNCHANGED <<word, up, link, connected, polls, cameras, limelight, fan,
                     fmsCh, fms, main, cancelled, dropped>>
      /\ nt = "read" /\ wire # <<>> /\ wire' = Tail(wire)
      /\ \/ /\ frame = Announcement
            /\ announced' = Topics /\ UNCHANGED <<nt, hand, values>>
         \/ /\ frame # Announcement /\ Topic(frame) \notin announced
            /\ UNCHANGED <<nt, hand, values, announced>>
         \/ /\ frame # Announcement /\ Topic(frame) \in announced /\ announced' = announced
            /\ \/ Len(values) < ValuesCap /\ values' = Append(values, frame)
                  /\ UNCHANGED <<nt, hand>>
               \/ nt' = "full" /\ hand' = frame /\ values' = values
  BY DEF Read, robot, camera, sinks, loop
<1>2. /\ frame \in Words \cup {Other, Announcement}
      /\ Tail(wire) \in Seq(Words \cup {Other, Announcement})
      /\ Len(wire) \in Nat /\ Len(Tail(wire)) \in Nat /\ Len(Tail(wire)) < Len(wire)
      /\ Len(wire) <= WireCap
  BY <1>1, Popped, Halves DEF IInv, Shapes
\* The announcement comes first, so that no value is skipped for lack of it.
<1>3. frame # Announcement => announced = Topics
  BY <1>1 DEF IInv, AnnouncedFirst
<1>4. Topic(frame) \in Topics
  BY DEF Topic, Topics
<1>5. frame # Announcement => frame \in Words \cup {Other}
  BY <1>2
<1>6. /\ values \in Seq(Words \cup {Other}) /\ Len(values) <= ValuesCap
      /\ hand = Nil /\ word \in Words /\ frame \in Frames
      /\ wire \in Seq(Frames) /\ values \in Seq(Frames)
  BY <1>1, <1>2, Halves, Typed DEF IInv, Shapes, HandHeld, Frames
<1>7. /\ wire' \in Seq(Words \cup {Other, Announcement}) /\ Len(wire') <= WireCap
  BY <1>1, <1>2
<1>8. Flags'
  BY <1>1, Halves, Zenon DEF IInv, Flags
<1>9. UNCHANGED main /\ UNCHANGED polls /\ UNCHANGED limelight
  BY <1>1
<1>10. /\ NoWord(wire) <=> frame \notin Words /\ NoWord(Tail(wire))
       /\ LastWordIs(wire, word)
            <=> LastWordIs(Tail(wire), word) \/ (NoWord(Tail(wire)) /\ frame = word)
  BY <1>1, <1>6, OfTail
<1>11. Subscribed' => Subscribed
  BY <1>1 DEF Subscribed
<1> HIDE DEF frame
<1>12. CASE frame = Announcement
  <2>1. announced' = Topics /\ UNCHANGED <<nt, hand, values>>
    BY <1>1, <1>12
  <2>2. Shapes'
    BY <1>1, <1>7, <2>1, Halves DEF IInv, Shapes
  <2>3. TypeOK'
    BY <1>8, <2>2, Halves
  <2>4. LinkedOpen' /\ HandHeld' /\ AnnouncedFirst' /\ NoSendAfterClose'
    BY <1>1, <2>1 DEF IInv, LinkedOpen, HandHeld, AnnouncedFirst, NoSendAfterClose
  <2>5. frame \notin Words /\ frame # word
    BY <1>6, <1>12
  <2>6. NewestOnItsWay'
    BY <1>1, <1>10, <1>11, <2>1, <2>3, <2>5, Typed, TypedNext DEF IInv, OnLine
  <2> QED
    BY <2>3, <2>4, <2>6 DEF IInv
<1>13. CASE /\ frame # Announcement /\ Len(values) < ValuesCap
            /\ values' = Append(values, frame) /\ UNCHANGED <<nt, hand, announced>>
  <2>1. /\ values' \in Seq(Words \cup {Other})
        /\ Len(values) \in Nat /\ Len(values') = Len(values) + 1
    BY <1>5, <1>6, <1>13, Pushed
  <2>2. Shapes'
    BY <1>1, <1>6, <1>7, <1>13, <2>1, Halves DEF IInv, Shapes
  <2>3. TypeOK'
    BY <1>8, <2>2, Halves
  <2>4. LinkedOpen' /\ HandHeld' /\ AnnouncedFirst' /\ NoSendAfterClose'
    BY <1>1, <1>3, <1>13 DEF IInv, LinkedOpen, HandHeld, AnnouncedFirst, NoSendAfterClose
  <2>5. /\ NoWord(values') <=> NoWord(values) /\ frame \notin Words
        /\ LastWordIs(values', word)
             <=> frame = word \/ (frame \notin Words /\ LastWordIs(values, word))
    BY <1>6, <1>13, OfAppend
  <2>6. NewestOnItsWay'
    BY <1>1, <1>6, <1>10, <1>11, <1>13, <2>3, <2>5, Typed, TypedNext DEF IInv, OnLine
  <2> QED
    BY <2>3, <2>4, <2>6 DEF IInv
<1>14. CASE /\ frame # Announcement
            /\ nt' = "full" /\ hand' = frame /\ UNCHANGED <<values, announced>>
  <2>1. hand' \in Words \cup {Other} /\ hand' # Nil
    BY <1>5, <1>14
  <2>2. Shapes'
    BY <1>1, <1>7, <1>14, <2>1, Halves DEF IInv, Shapes
  <2>3. TypeOK'
    BY <1>8, <2>2, Halves
  <2>4. LinkedOpen' /\ HandHeld' /\ AnnouncedFirst' /\ NoSendAfterClose'
    BY <1>1, <1>3, <1>14, <2>1
       DEF IInv, LinkedOpen, HandHeld, AnnouncedFirst, NoSendAfterClose
  <2>5. NewestOnItsWay'
    BY <1>1, <1>6, <1>10, <1>11, <1>14, <2>3, Typed, TypedNext DEF IInv, OnLine
  <2> QED
    BY <2>3, <2>4, <2>5 DEF IInv
<1> QED
  BY <1>1, <1>3, <1>4, <1>12, <1>13, <1>14

\* What is dropped is not the newest word, unless the history says so.
LEMMA EvictKeeps == IInv /\ Evict => IInv'
<1> SUFFICES ASSUME IInv, Evict PROVE IInv'
  OBVIOUS
<1> USE Constants
<1> DEFINE v == Head(values)
<1>1. /\ UNCHANGED <<word, up, link, wire, announced, connected, hand, polls, cameras,
                     limelight, fan, fmsCh, fms, main, cancelled>>
      /\ nt = "full" /\ nt' = "push"
      /\ \/ values = <<>> /\ values' = values /\ dropped' = dropped
         \/ /\ values # <<>> /\ values' = Tail(values)
            /\ dropped' = (dropped \/ (v \in Words /\ NoWord(Tail(values) \o <<hand>> \o wire)))
  BY DEF Evict, Drops, IsWord, robot, camera, sinks, loop
<1>2. LinkedOpen' /\ HandHeld' /\ AnnouncedFirst' /\ NoSendAfterClose'
  BY <1>1 DEF IInv, LinkedOpen, HandHeld, AnnouncedFirst, NoSendAfterClose
<1>3. up' \in BOOLEAN /\ connected' \in BOOLEAN /\ cancelled' \in BOOLEAN
  BY <1>1, Halves, Zenon DEF IInv, Flags
<1>4. Subscribed' => Subscribed
  BY <1>1 DEF Subscribed
<1>5. CASE values' = values /\ dropped' = dropped
  <2>1. dropped' \in BOOLEAN
    BY <1>5, Halves, Zenon DEF IInv, Flags
  <2>2. Shapes'
    BY <1>1, <1>5, Halves DEF IInv, Shapes
  <2>3. TypeOK'
    BY <1>3, <2>1, <2>2, Halves DEF Flags
  <2>4. NewestOnItsWay'
    BY <1>1, <1>4, <1>5, <2>3, Typed, TypedNext DEF IInv
  <2> QED
    BY <1>2, <2>3, <2>4 DEF IInv
<1>6. CASE /\ values # <<>> /\ values' = Tail(values)
           /\ dropped' = (dropped \/ (v \in Words /\ NoWord(Tail(values) \o <<hand>> \o wire)))
  <2>1. /\ Tail(values) \in Seq(Words \cup {Other})
        /\ Len(values) \in Nat /\ Len(Tail(values)) \in Nat /\ Len(Tail(values)) < Len(values)
        /\ Len(values) <= ValuesCap
    BY <1>6, Popped, Halves DEF IInv, Shapes
  <2>2. Len(values') <= ValuesCap /\ values' \in Seq(Words \cup {Other})
    BY <1>6, <2>1
  <2>3. dropped' \in BOOLEAN
    BY <1>6, Halves DEF IInv, Flags
  <2>4. Shapes'
    BY <1>1, <2>2, Halves DEF IInv, Shapes
  <2>5. TypeOK'
    BY <1>3, <2>3, <2>4, Halves DEF Flags
  <2>6. /\ v \in Frames /\ Tail(values) \in Seq(Frames) /\ word \in Words
        /\ NoWord(values) <=> v \notin Words /\ NoWord(Tail(values))
        /\ LastWordIs(values, word)
             <=> LastWordIs(Tail(values), word) \/ (NoWord(Tail(values)) /\ v = word)
    BY <1>6, Typed, OfTail DEF IInv
  <2>7. NoWord(Tail(values) \o <<hand>> \o wire)
          <=> NoWord(Tail(values)) /\ hand \notin Words /\ NoWord(wire)
    BY <2>6, Typed, Line DEF IInv
  <2>8. ~dropped' => ~dropped /\ ~(/\ v \in Words /\ NoWord(Tail(values))
                                   /\ hand \notin Words /\ NoWord(wire))
    BY <1>6, <2>7
  <2> HIDE DEF v
  <2>9. NewestOnItsWay'
    BY <1>1, <1>4, <1>6, <2>5, <2>6, <2>8, Typed, TypedNext DEF IInv, OnLine
  <2> QED
    BY <1>2, <2>5, <2>9 DEF IInv
<1> QED
  BY <1>1, <1>5, <1>6

LEMMA PushKeeps == IInv /\ Push => IInv'
<1> SUFFICES ASSUME IInv, Push PROVE IInv'
  OBVIOUS
<1> USE Constants
<1>1. /\ UNCHANGED <<word, up, link, wire, announced, connected, polls, cameras,
                     limelight, fan, fmsCh, fms, main, cancelled, dropped>>
      /\ nt = "push" /\ Len(values) < ValuesCap
      /\ values' = Append(values, hand) /\ hand' = Nil /\ nt' = "read"
  BY DEF Push, robot, camera, sinks, loop
<1>2. /\ hand \in Words \cup {Other} /\ hand \in Frames /\ word \in Words
      /\ values \in Seq(Words \cup {Other}) /\ values \in Seq(Frames)
  BY <1>1, Halves, Typed DEF IInv, Shapes, HandHeld
<1>3. /\ values' \in Seq(Words \cup {Other})
      /\ Len(values) \in Nat /\ Len(values') = Len(values) + 1
  BY <1>1, <1>2, Pushed
<1>4. TypeOK'
  <2>1. Flags'
    BY <1>1, Halves, Zenon DEF IInv, Flags
  <2>2. Len(values') <= ValuesCap
    BY <1>1, <1>3
  <2>3. Shapes'
    BY <1>1, <1>3, <2>2, Halves DEF IInv, Shapes
  <2> QED
    BY <2>1, <2>3, Halves
<1>5. LinkedOpen' /\ HandHeld' /\ AnnouncedFirst' /\ NoSendAfterClose'
  BY <1>1 DEF IInv, LinkedOpen, HandHeld, AnnouncedFirst, NoSendAfterClose
<1>6. /\ NoWord(values') <=> NoWord(values) /\ hand \notin Words
      /\ LastWordIs(values', word)
           <=> hand = word \/ (hand \notin Words /\ LastWordIs(values, word))
  BY <1>1, <1>2, OfAppend
<1>7. NewestOnItsWay'
  BY <1>1, <1>2, <1>4, <1>6, Typed, TypedNext DEF IInv, OnLine, Subscribed
<1> QED
  BY <1>4, <1>5, <1>7 DEF IInv

LEMMA LostKeeps == IInv /\ Lost => IInv'
<1> SUFFICES ASSUME IInv, Lost PROVE IInv'
  OBVIOUS
<1>1. /\ UNCHANGED <<word, up, link, wire, announced, hand, values, polls, cameras,
                     limelight, fan, fmsCh, fms, main, cancelled, dropped>>
      /\ nt = "lost" /\ connected' = FALSE /\ nt' \in {"done", "dial"}
  BY DEF Lost, robot, camera, sinks, loop
<1>2. TypeOK'
  <2>1. up' \in BOOLEAN /\ cancelled' \in BOOLEAN /\ dropped' \in BOOLEAN
    BY <1>1, Halves, Zenon DEF IInv, Flags
  <2>2. connected' \in BOOLEAN
    BY <1>1
  <2>3. Shapes'
    BY <1>1, Halves DEF IInv, Shapes
  <2> QED
    BY <2>1, <2>2, <2>3, Halves DEF Flags
<1>3. link # "up"
  BY <1>1 DEF IInv, LinkedOpen
<1>4. LinkedOpen' /\ HandHeld' /\ AnnouncedFirst' /\ NoSendAfterClose'
  BY <1>1, <1>3 DEF IInv, LinkedOpen, HandHeld, AnnouncedFirst, NoSendAfterClose
<1> QED
  BY <1>1, <1>2, <1>3, <1>4, LineGone

LEMMA ForwardKeeps == IInv /\ Forward => IInv'
<1> SUFFICES ASSUME IInv, Forward PROVE IInv'
  OBVIOUS
<1> USE Constants
<1> DEFINE v == Head(values)
<1>1. /\ UNCHANGED <<word, up, link, wire, nt, announced, connected, hand, polls, cameras,
                     limelight, fan, fms, main, cancelled>>
      /\ values # <<>> /\ values' = Tail(values)
      /\ \/ v \notin Words /\ fmsCh' = fmsCh /\ dropped' = dropped
         \/ /\ v \in Words /\ Len(fmsCh) < FmsCap /\ fmsCh' = Append(fmsCh, v)
            /\ dropped' = dropped
         \/ /\ v \in Words /\ fmsCh' = fmsCh
            /\ dropped' = (dropped \/ (v \in Words /\ NoWord(Tail(values) \o <<hand>> \o wire)))
  BY DEF Forward, Drops, IsWord, robot, client, camera, loop
<1>2. LinkedOpen' /\ HandHeld' /\ AnnouncedFirst' /\ NoSendAfterClose'
  BY <1>1 DEF IInv, LinkedOpen, HandHeld, AnnouncedFirst, NoSendAfterClose
<1>3. up' \in BOOLEAN /\ connected' \in BOOLEAN /\ cancelled' \in BOOLEAN
  BY <1>1, Halves, Zenon DEF IInv, Flags
<1>4. Subscribed' => Subscribed
  BY <1>1 DEF Subscribed
<1>5. values' \in Seq(Words \cup {Other}) /\ Len(values') <= ValuesCap
  <2>1. /\ Tail(values) \in Seq(Words \cup {Other})
        /\ Len(values) \in Nat /\ Len(Tail(values)) \in Nat /\ Len(Tail(values)) < Len(values)
        /\ Len(values) <= ValuesCap
    BY <1>1, Popped, Halves DEF IInv, Shapes
  <2> QED
    BY <1>1, <2>1
<1>6. /\ v \in Frames /\ Tail(values) \in Seq(Frames) /\ word \in Words /\ fmsCh \in Seq(Frames)
      /\ NoWord(values) <=> v \notin Words /\ NoWord(Tail(values))
      /\ LastWordIs(values, word)
           <=> LastWordIs(Tail(values), word) \/ (NoWord(Tail(values)) /\ v = word)
  BY <1>1, Typed, OfTail DEF IInv
<1>7. dropped' \in BOOLEAN
  <2>1. CASE dropped' = dropped
    BY <2>1, Halves, Zenon DEF IInv, Flags
  <2>2. CASE dropped' = (dropped \/ (v \in Words /\ NoWord(Tail(values) \o <<hand>> \o wire)))
    BY <2>2, Halves DEF IInv, Flags
  <2> QED
    BY <1>1, <2>1, <2>2
<1>8. CASE /\ v \in Words /\ Len(fmsCh) < FmsCap /\ fmsCh' = Append(fmsCh, v)
           /\ dropped' = dropped
  <2>1. /\ fmsCh' \in Seq(Words) /\ Len(fmsCh) \in Nat /\ Len(fmsCh') = Len(fmsCh) + 1
    BY <1>8, Pushed, Halves DEF IInv, Shapes
  <2>2. Len(fmsCh') <= FmsCap
    BY <1>8, <2>1
  <2>3. Shapes'
    BY <1>1, <1>5, <2>1, <2>2, Halves DEF IInv, Shapes
  <2>4. TypeOK'
    BY <1>3, <1>7, <2>3, Halves DEF Flags
  <2>5. NoWord(fmsCh') = FALSE /\ (LastWordIs(fmsCh', word) <=> v = word)
    BY <1>6, <1>8, OfAppend
  <2> HIDE DEF v
  <2>6. NewestOnItsWay'
    BY <1>1, <1>4, <1>6, <1>8, <2>4, <2>5, Typed, TypedNext DEF IInv, OnLine
  <2> QED
    BY <1>2, <2>4, <2>6 DEF IInv
<1>9. CASE fmsCh' = fmsCh
  <2>1. Shapes'
    BY <1>1, <1>5, <1>9, Halves DEF IInv, Shapes
  <2>2. TypeOK'
    BY <1>3, <1>7, <2>1, Halves DEF Flags
  <2>3. NoWord(Tail(values) \o <<hand>> \o wire)
          <=> NoWord(Tail(values)) /\ hand \notin Words /\ NoWord(wire)
    BY <1>6, Typed, Line DEF IInv
  <2>4. CASE v \notin Words /\ dropped' = dropped
    <3> HIDE DEF v
    <3>1. NewestOnItsWay'
      BY <1>1, <1>4, <1>6, <1>9, <2>2, <2>4, Typed, TypedNext DEF IInv, OnLine
    <3> QED
      BY <1>2, <2>2, <3>1 DEF IInv
  <2>5. CASE /\ v \in Words
             /\ dropped' = (dropped \/ (v \in Words /\ NoWord(Tail(values) \o <<hand>> \o wire)))
    <3>1. ~dropped' => ~dropped /\ ~(/\ NoWord(Tail(values)) /\ hand \notin Words
                                     /\ NoWord(wire))
      BY <2>3, <2>5
    <3> HIDE DEF v
    <3>2. NewestOnItsWay'
      BY <1>1, <1>4, <1>6, <1>9, <2>2, <2>5, <3>1, Typed, TypedNext DEF IInv, OnLine
    <3> QED
      BY <1>2, <2>2, <3>2 DEF IInv
  <2>6. fmsCh # Append(fmsCh, v)
    BY <1>6
  <2> QED
    BY <1>1, <1>9, <2>4, <2>5, <2>6
<1> QED
  BY <1>1, <1>8, <1>9

LEMMA ReadFmsKeeps == IInv /\ ReadFms => IInv'
<1> SUFFICES ASSUME IInv, ReadFms PROVE IInv'
  OBVIOUS
<1>1. /\ UNCHANGED <<word, up, link, wire, nt, announced, connected, hand, values, polls,
                     cameras, limelight, fan, main, cancelled, dropped>>
      /\ fmsCh # <<>> /\ fms' = Head(fmsCh) /\ fmsCh' = Tail(fmsCh)
  BY DEF ReadFms, robot, client, camera
<1>2. /\ Head(fmsCh) \in Words /\ fmsCh' \in Seq(Words)
      /\ Len(fmsCh) \in Nat /\ Len(fmsCh') \in Nat /\ Len(fmsCh') < Len(fmsCh)
      /\ Len(fmsCh) <= FmsCap /\ FmsCap \in Nat
  BY <1>1, Popped, Constants, Halves DEF IInv, Shapes
<1>3. TypeOK'
  <2>1. Flags'
    BY <1>1, Halves, Zenon DEF IInv, Flags
  <2>2. Len(fmsCh') <= FmsCap
    BY <1>2
  <2>3. Shapes'
    BY <1>1, <1>2, <2>2, Halves DEF IInv, Shapes
  <2> QED
    BY <2>1, <2>3, Halves
<1>4. LinkedOpen' /\ HandHeld' /\ AnnouncedFirst' /\ NoSendAfterClose'
  BY <1>1 DEF IInv, LinkedOpen, HandHeld, AnnouncedFirst, NoSendAfterClose
<1>5. /\ NoWord(fmsCh) = FALSE
      /\ LastWordIs(fmsCh, word)
           <=> LastWordIs(Tail(fmsCh), word) \/ (NoWord(Tail(fmsCh)) /\ Head(fmsCh) = word)
  BY <1>1, <1>2, Typed, OfTail DEF IInv
<1>6. NewestOnItsWay'
  BY <1>1, <1>3, <1>5, Typed, TypedNext DEF IInv, OnLine, Subscribed
<1> QED
  BY <1>3, <1>4, <1>6 DEF IInv

LEMMA TickKeeps == IInv /\ Tick => IInv'
<1> SUFFICES ASSUME IInv, Tick PROVE IInv'
  OBVIOUS
<1>1. /\ UNCHANGED <<word, up, link, wire, nt, announced, connected, hand, values, polls,
                     cameras, limelight, fan, fmsCh, main, cancelled, dropped>>
      /\ ~connected /\ fms' = Nil
  BY DEF Tick, robot, client, camera, sinks
<1>2. TypeOK'
  <2>1. Flags'
    BY <1>1, Halves, Zenon DEF IInv, Flags
  <2>2. Shapes'
    BY <1>1, Halves DEF IInv, Shapes
  <2> QED
    BY <2>1, <2>2, Halves
<1>3. link # "up"
  BY <1>1 DEF IInv, LinkedOpen
<1>4. LinkedOpen' /\ HandHeld' /\ AnnouncedFirst' /\ NoSendAfterClose'
  BY <1>1 DEF IInv, LinkedOpen, HandHeld, AnnouncedFirst, NoSendAfterClose
<1> QED
  BY <1>1, <1>2, <1>3, <1>4, LineGone

\* The steps that move no word: of the robot's power, of the cameras, of the
\* fan-out's camera values and of the shutdown.
LEMMA AsideSteps ==
  ASSUME IInv,
         \/ Power \/ Poll \/ PollEnds \/ Stop \/ CloseCameras \/ ForwardCamera
         \/ FanEnds \/ Cancel \/ BeginClose \/ CloseValues
  PROVE  IInv'
<1> USE Constants
<1>1. CASE Power
  <2>1. /\ Aside
        /\ UNCHANGED <<polls, cameras, limelight, fan, main, cancelled>> /\ up' = ~up
    BY <1>1 DEF Power, Aside, client, camera, sinks, loop
  <2>2. up' \in BOOLEAN
    BY <2>1
  <2>3. connected' \in BOOLEAN /\ cancelled' \in BOOLEAN /\ dropped' \in BOOLEAN
    BY <2>1, Halves, Zenon DEF Aside, IInv, Flags
  <2>4. Shapes'
    BY <2>1, Halves DEF Aside, IInv, Shapes
  <2>5. TypeOK'
    BY <2>2, <2>3, <2>4, Halves DEF Flags
  <2>6. NoSendAfterClose'
    BY <2>1 DEF Aside, IInv, NoSendAfterClose
  <2> QED
    BY <2>1, <2>5, <2>6, LineAside
<1>2. CASE Poll \/ PollEnds \/ ForwardCamera
  <2>1. /\ Aside
        /\ UNCHANGED <<up, limelight, fan, main, cancelled>>
        /\ \/ limelight = "select" /\ polls < MaxPolls /\ polls' = polls + 1 /\ cameras' = cameras
           \/ /\ polls > 0 /\ polls' = polls - 1
              /\ \E n \in 1..2 : cameras' = Offer(cameras, n, CamerasCap)
           \/ cameras > 0 /\ cameras' = cameras - 1 /\ polls' = polls
    BY <1>2 DEF Poll, PollEnds, ForwardCamera, Aside, robot, client, sinks, loop
  <2>2. Flags'
    BY <2>1, Halves, Zenon DEF Aside, IInv, Flags
  <2>3. polls \in 0..MaxPolls /\ cameras \in 0..CamerasCap
    BY Halves DEF IInv, Shapes
  <2>4. polls' \in 0..MaxPolls /\ cameras' \in 0..CamerasCap
    BY <2>1, <2>3 DEF Offer
  <2>5. Shapes'
    BY <2>1, <2>4, Halves DEF Aside, IInv, Shapes
  <2>6. NoSendAfterClose'
    BY <2>1, <2>3 DEF Aside, IInv, NoSendAfterClose
  <2> QED
    BY <2>1, <2>2, <2>5, <2>6, Halves, LineAside
<1>3. CASE Stop \/ CloseCameras \/ FanEnds \/ Cancel \/ BeginClose \/ CloseValues
  <2>1. /\ Aside /\ UNCHANGED <<up, polls, cameras>>
        /\ limelight' \in {limelight, "waiting", "done"} /\ fan' \in {fan, "done"}
        /\ main' \in {main, "closing", "closed"}
        /\ cancelled' = TRUE \/ cancelled' = cancelled
        /\ limelight' = "done" => limelight = "done" \/ polls = 0
        /\ main' = "closed" => main = "closed" \/ nt = "done"
    BY <1>3 DEF Stop, CloseCameras, FanEnds, Cancel, BeginClose, CloseValues, Aside,
                robot, client, camera, sinks, loop
  <2>2. up' \in BOOLEAN /\ connected' \in BOOLEAN /\ dropped' \in BOOLEAN
    BY <2>1, Halves, Zenon DEF Aside, IInv, Flags
  <2>3. cancelled' \in BOOLEAN
    BY <2>1, Halves, Zenon DEF IInv, Flags
  <2>4. Shapes'
    BY <2>1, Halves DEF Aside, IInv, Shapes
  <2>5. NoSendAfterClose'
    BY <2>1 DEF Aside, IInv, NoSendAfterClose
  <2> QED
    BY <2>1, <2>2, <2>3, <2>4, <2>5, Halves, LineAside DEF Flags
<1> QED
  BY <1>1, <1>2, <1>3

LEMMA Idle == IInv /\ UNCHANGED vars => IInv'
<1> SUFFICES ASSUME IInv, UNCHANGED vars PROVE IInv'
  OBVIOUS
<1>1. /\ Aside /\ UNCHANGED <<up, polls, cameras, limelight, fan, main, cancelled>>
  BY DEF vars, robot, client, camera, sinks, loop, Aside
<1>2. Flags'
  BY <1>1, Halves, Zenon DEF Aside, IInv, Flags
<1>3. Shapes'
  BY <1>1, Halves DEF Aside, IInv, Shapes
<1>4. NoSendAfterClose'
  BY <1>1 DEF Aside, IInv, NoSendAfterClose
<1> QED
  BY <1>1, <1>2, <1>3, <1>4, Halves, LineAside

LEMMA Inductive == Spec => []IInv
<1>1. IInv /\ Next => IInv'
  BY ChangeWordKeeps, SendOtherKeeps, BreakKeeps, DialKeeps, SubscribeKeeps, ReadKeeps,
     ReadFailsKeeps, EvictKeeps, PushKeeps, LostKeeps, ForwardKeeps, ReadFmsKeeps, TickKeeps,
     AsideSteps
     DEF Next, Client, FanOut, MainLoop, Shutdown
<1>2. IInv /\ [Next]_vars => IInv'
  BY <1>1, Idle
<1> QED
  BY <1>2, Initially, PTL DEF Spec

-----------------------------------------------------------------------------
(* What the client, the monitor and the fan-out promise *)

\* The state stays within its types: no channel holds more than its capacity,
\* whatever the robot sends and however its connections end
\* (internal/ntclient/client.go, internal/limelight/monitor.go,
\* cmd/ravenlink/main.go).
THEOREM TypeCorrect == Spec => []TypeOK
<1>1. IInv => TypeOK
  BY DEF IInv
<1> QED
  BY <1>1, Inductive, PTL

\* Whatever the capacities of the channels, the newest control word of the
\* robot is the last one the main loop has or will get, as long as the client
\* is subscribed and no channel has dropped that very word: reconnections, the
\* eviction of the oldest value, and the values of topics that were not
\* announced never leave an older word in its place
\* (internal/ntclient/client.go:394, cmd/ravenlink/main.go:391).
THEOREM NewestAlwaysOnItsWay == Spec => []NewestOnItsWay
<1>1. IInv => NewestOnItsWay
  BY DEF IInv
<1> QED
  BY <1>1, Inductive, PTL

\* No goroutine is left to send on the Limelight channel or on the values
\* channel once it is closed, which would panic: Monitor.Run waits for its
\* polls, Client.Close for the client's goroutine
\* (internal/limelight/monitor.go:104, internal/ntclient/client.go:169).
THEOREM NoSendEverAfterClose == Spec => []NoSendAfterClose
<1>1. IInv => NoSendAfterClose
  BY DEF IInv
<1> QED
  BY <1>1, Inductive, PTL
=============================================================================
