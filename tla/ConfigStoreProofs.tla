-------------------------- MODULE ConfigStoreProofs -------------------------
(***************************************************************************)
(* Proofs about ConfigStore, for any number of posts and any values.       *)
(***************************************************************************)
EXTENDS ConfigStore, FiniteSetTheorems, SequenceTheorems, TLAPS

Contents == UNION {[1..n -> Values \cup {Hole}] : n \in 0..2}

\* The first n values of d, and no more.
Written(file, d, n) ==
  file \in [1..n -> Values \cup {Hole}] /\ \A k \in 1..n : file[k] = d[k]

Saving  == {"open", "write", "sync", "rename"}
Holding == {"write", "sync"}

\* What a post holds follows from where it stands.
Places ==
  \A p \in Posts :
    /\ ~up => pc[p] = "idle"
    /\ mu = p <=> pc[p] = "apply"
    /\ pc[p] \in Holding => fd[p] \in Inodes
    /\ pc[p] \in Saving => data[p] \in Configs
    /\ pc[p] \in {"idle", "apply", "marshal", "open"} => offset[p] = 0
    /\ pc[p] = "write" => offset[p] \in 0..1

\* A post that is alone has the temporary file to itself, and brings what is in
\* memory to the disk.
Alone ==
  ~overlapped =>
    /\ path \in synced
    /\ \A p, q \in Posts : pc[p] # "idle" /\ pc[q] # "idle" => p = q
    /\ \A p \in Posts :
         /\ pc[p] \in Saving => data[p] = config
         /\ pc[p] \in Holding => fd[p] = tmp
         /\ pc[p] = "write" => Written(content[tmp], data[p], offset[p])
         /\ pc[p] \in {"sync", "rename"} => content[tmp] = data[p]
         /\ pc[p] = "rename" => tmp \in synced
         /\ pc[p] = "chmod" => File = config

IInv == TypeOK /\ Places /\ Alone /\ DiskMatchesMemory

-----------------------------------------------------------------------------
(* Files *)

LEMMA ContentsTyped ==
  /\ <<>> \in Contents /\ <<Default, Default>> \in Contents /\ Configs \subseteq Contents
  /\ <<Default, Default>> \in Configs
  /\ \A f \in Contents : \E n \in 0..2 : f \in [1..n -> Values \cup {Hole}] /\ Len(f) = n
  /\ \A n \in 0..2 : [1..n -> Values \cup {Hole}] \subseteq Contents
<1>1. \A n \in 0..2 : [1..n -> Values \cup {Hole}] \subseteq Contents
  BY DEF Contents
<1>2. <<>> \in [1..0 -> Values \cup {Hole}]
  OBVIOUS
<1>3. <<Default, Default>> \in [1..2 -> Values]
  BY StoreAssumption
<1>4. Configs \subseteq [1..2 -> Values \cup {Hole}]
  BY DEF Configs, Fields
<1>5. ASSUME NEW f \in Contents
      PROVE  \E n \in 0..2 : f \in [1..n -> Values \cup {Hole}] /\ Len(f) = n
  <2>1. PICK n \in 0..2 : f \in [1..n -> Values \cup {Hole}]
    BY <1>5 DEF Contents
  <2>2. Len(f) = n
    BY <2>1
  <2> QED
    BY <2>1, <2>2
<1>6. 0 \in 0..2 /\ 2 \in 0..2
  OBVIOUS
<1> QED
  BY <1>1, <1>2, <1>3, <1>4, <1>5, <1>6 DEF Configs, Fields

LEMMA WriteTyped ==
  ASSUME NEW f \in Contents, NEW n \in 1..2, NEW v \in Values
  PROVE  WriteAt(f, n, v) \in Contents
<1>1. PICK m \in 0..2 : f \in [1..m -> Values \cup {Hole}] /\ Len(f) = m
  BY ContentsTyped
<1> DEFINE k == IF n > m THEN n ELSE m
<1>2. k \in 0..2
  OBVIOUS
<1>3. WriteAt(f, n, v) \in [1..k -> Values \cup {Hole}]
  BY <1>1 DEF WriteAt
<1> HIDE DEF k
<1> QED
  BY <1>2, <1>3, ContentsTyped

\* Written one after the other, the values make up the whole configuration.
LEMMA WriteNext ==
  ASSUME NEW n \in 0..1, NEW d \in Configs, NEW f, Written(f, d, n)
  PROVE  /\ Written(WriteAt(f, n + 1, d[n + 1]), d, n + 1)
         /\ n = 1 => WriteAt(f, n + 1, d[n + 1]) = d
<1>1. f \in [1..n -> Values \cup {Hole}] /\ \A k \in 1..n : f[k] = d[k]
  BY DEF Written
<1>2. Len(f) = n
  BY <1>1
<1>3. d \in [1..2 -> Values] /\ n + 1 \in 1..2
  BY DEF Configs, Fields
<1> DEFINE g == WriteAt(f, n + 1, d[n + 1])
<1>4. /\ g = [k \in 1..n + 1 |-> IF k = n + 1 THEN d[n + 1] ELSE IF k <= n THEN f[k] ELSE Hole]
  BY <1>2 DEF WriteAt
<1> HIDE DEF g
<1>5. \A k \in 1..n + 1 : g[k] = d[k] /\ g[k] \in Values
  BY <1>1, <1>3, <1>4
<1>6. g \in [1..n + 1 -> Values \cup {Hole}]
  BY <1>4, <1>5
<1>7. n = 1 => g = d
  BY <1>3, <1>4, <1>5
<1> QED
  BY <1>5, <1>6, <1>7 DEF Written, g

LEMMA LeftTyped ==
  ASSUME TypeOK, NEW i \in Inodes, NEW n \in 0..2
  PROVE  Left(i, n) \in Contents
<1>1. content[i] \in Contents
  BY DEF TypeOK, Contents
<1>2. PICK m \in 0..2 : content[i] \in [1..m -> Values \cup {Hole}] /\ Len(content[i]) = m
  BY <1>1, ContentsTyped
<1>3. CASE n < m
  <2> DEFINE S == Values \cup {Hole}
             f == content[i]
             r == SubSeq(f, 1, n)
  <2>1. \A k \in 1..n : f[k] \in S
    BY <1>2, <1>3
  <2> HIDE DEF S, f
  <2>2. r \in Seq(S) /\ Len(r) = IF 1 <= n THEN n - 1 + 1 ELSE 0
    BY <2>1, SubSeqProperties
  <2> HIDE DEF r
  <2>3. Len(r) = n
    BY <2>2
  <2>4. r \in [1..n -> S]
    BY <2>2, <2>3
  <2> QED
    BY <1>1, <2>4, ContentsTyped DEF Left, r, f, S
<1>4. CASE n >= m
  BY <1>1, <1>2, <1>4 DEF Left
<1> QED
  BY <1>3, <1>4

\* What a configuration becomes when it is read back.
LEMMA ReadBack ==
  /\ \A f \in Contents : Readable(f) => Loaded(f) \in Configs
  /\ \A d \in Configs : Readable(d) /\ Loaded(d) = d
<1>1. ASSUME NEW f \in Contents, Readable(f)
      PROVE  Loaded(f) \in Configs
  <2>1. PICK n \in 0..2 : f \in [1..n -> Values \cup {Hole}] /\ Len(f) = n
    BY ContentsTyped
  <2>2. \A i \in 1..n : f[i] # Hole
    BY <1>1, <2>1 DEF Readable, Contains
  <2>3. \A i \in Fields : (IF i <= n THEN f[i] ELSE Default) \in Values
    BY <2>1, <2>2, StoreAssumption DEF Fields
  <2> QED
    BY <2>1, <2>3 DEF Loaded, Configs
<1>2. ASSUME NEW d \in Configs
      PROVE  Readable(d) /\ Loaded(d) = d
  <2>1. d \in [1..2 -> Values] /\ Len(d) = 2
    BY DEF Configs, Fields
  <2>2. Readable(d)
    BY <2>1, StoreAssumption DEF Readable, Contains
  <2>3. Loaded(d) = d
    BY <2>1 DEF Loaded, Fields
  <2> QED
    BY <2>2, <2>3
<1> QED
  BY <1>1, <1>2

LEMMA EffectiveTyped ==
  ASSUME TypeOK
  PROVE  Effective \in Configs /\ (File \in Configs => Effective = File)
<1>1. File \in Contents
  BY DEF TypeOK, File, Contents
<1>2. [f \in Fields |-> Default] \in Configs
  BY StoreAssumption DEF Configs
<1> QED
  BY <1>1, <1>2, ReadBack DEF Effective

\* There is always room for one more file.
LEMMA RoomForTmp ==
  ASSUME TypeOK, tmp = None
  PROVE  FreeInode \in Inodes /\ FreeInode # path
<1> DEFINE opened == {fd[p] : p \in Posts}
           used == {path, tmp} \cup opened
<1>1. SUFFICES \E i \in Inodes : i \notin used
  BY DEF FreeInode
<1>2. fd \in Surjection(Posts, opened)
  BY DEF Surjection, TypeOK
<1>3. IsFiniteSet(opened) /\ Cardinality(opened) <= Cardinality(Posts)
  BY <1>2, FS_Surjection, StoreAssumption
<1> HIDE DEF opened
<1>4. IsFiniteSet({path} \cup {tmp}) /\ Cardinality({path} \cup {tmp}) <= 2
  <2>1. IsFiniteSet({path}) /\ Cardinality({path}) = 1
    BY FS_Singleton
  <2>2. /\ IsFiniteSet({path} \cup {tmp})
        /\ Cardinality({path} \cup {tmp}) = IF tmp \in {path} THEN 1 ELSE 1 + 1
    BY <2>1, FS_AddElement
  <2> QED
    BY <2>2
<1>5. /\ Cardinality(opened) \in Nat /\ Cardinality(Posts) \in Nat /\ Cardinality(Inodes) \in Nat
      /\ Cardinality(({path} \cup {tmp}) \cap opened) \in Nat
      /\ Cardinality({path} \cup {tmp}) \in Nat
  <2>1. IsFiniteSet(({path} \cup {tmp}) \cap opened)
    BY <1>4, FS_Subset
  <2> QED
    BY <1>3, <1>4, <2>1, FS_CardinalityType, StoreAssumption
<1>6. IsFiniteSet(used) /\ Cardinality(used) <= Cardinality(Posts) + 2
  <2>1. used = ({path} \cup {tmp}) \cup opened
    OBVIOUS
  <2>2. /\ IsFiniteSet(({path} \cup {tmp}) \cup opened)
        /\ Cardinality(({path} \cup {tmp}) \cup opened)
             = Cardinality({path} \cup {tmp}) + Cardinality(opened)
                 - Cardinality(({path} \cup {tmp}) \cap opened)
    BY <1>3, <1>4, FS_Union
  <2> DEFINE both == {path} \cup {tmp}
  <2>3. IsFiniteSet(used) /\ Cardinality(used) = Cardinality(both) + Cardinality(opened)
                                                  - Cardinality(both \cap opened)
    BY <2>1, <2>2
  <2>4. /\ Cardinality(both) \in Nat /\ Cardinality(both) <= 2
        /\ Cardinality(both \cap opened) \in Nat
    BY <1>4, <1>5
  <2> DEFINE a == Cardinality(both)
             b == Cardinality(opened)
             c == Cardinality(both \cap opened)
             d == Cardinality(Posts)
  <2>5. a \in Nat /\ a <= 2 /\ b \in Nat /\ c \in Nat /\ d \in Nat /\ b <= d
    BY <1>3, <1>5, <2>4
  <2>6. Cardinality(used) = a + b - c
    BY <2>3
  <2> HIDE DEF a, b, c, d
  <2>7. Cardinality(used) <= d + 2
    BY <2>5, <2>6
  <2> QED
    BY <2>3, <2>7 DEF d
<1> HIDE DEF used
<1>7. ASSUME Inodes \subseteq used
      PROVE  FALSE
  <2>1. None \in used
    BY DEF used
  <2>2. Inodes \cup {None} \in SUBSET used
    BY <1>7, <2>1
  <2>3. Cardinality(Inodes \cup {None}) <= Cardinality(used)
    BY <1>6, <2>2, FS_Subset
  <2>4. Cardinality(Inodes \cup {None}) = Cardinality(Inodes) + 1
    BY FS_AddElement, StoreAssumption
  <2>5. Cardinality(used) \in Nat
    BY <1>6, FS_CardinalityType
  <2> QED
    BY <1>5, <1>6, <2>3, <2>4, <2>5, StoreAssumption
<1> QED
  BY <1>7

-----------------------------------------------------------------------------
(* The steps *)

LEMMA InitInv == Init => IInv
<1> SUFFICES ASSUME Init PROVE IInv
  OBVIOUS
<1>1. File = <<Default, Default>> /\ config = <<Default, Default>>
  BY DEF Init, File, Fields
<1>2. TypeOK
  <2>1. content \in [Inodes -> Contents]
    BY ContentsTyped DEF Init
  <2>2. <<>> \in Configs \cup {<<>>} /\ config \in Configs
    BY <1>1, ContentsTyped
  <2>3. path # tmp /\ path \in Inodes /\ tmp = None /\ synced \subseteq Inodes
    BY StoreAssumption DEF Init
  <2>4. /\ pc \in [Posts -> {"idle"}] /\ todo \in [Posts -> SUBSET Fields]
        /\ data \in [Posts -> Configs \cup {<<>>}] /\ fd \in [Posts -> Inodes \cup {None}]
        /\ offset \in [Posts -> 0..2]
    BY <2>2 DEF Init
  <2>5. {up, overlapped, failed} \subseteq BOOLEAN /\ mu = None
    BY DEF Init
  <2> QED
    BY <2>1, <2>2, <2>3, <2>4, <2>5 DEF TypeOK, Contents
<1>3. Places /\ Alone
  BY StoreAssumption DEF Init, Places, Alone, Saving, Holding
<1>4. DiskMatchesMemory
  BY <1>1, <1>2, ContentsTyped, EffectiveTyped DEF DiskMatchesMemory
<1> QED
  BY <1>2, <1>3, <1>4 DEF IInv

LEMMA BeginStep ==
  ASSUME IInv, NEW p \in Posts, Begin(p)
  PROVE  IInv' /\ File' = File
<1> USE DEF IInv
<1>1. /\ UNCHANGED <<up, config, data, fd, offset, path, tmp, content, synced, failed>>
      /\ up /\ pc[p] = "idle" /\ mu = None /\ mu' = p
      /\ todo' = [todo EXCEPT ![p] = Fields]
      /\ pc' = [pc EXCEPT ![p] = "apply"]
      /\ overlapped' = (~Quiet \/ path \notin synced)
  BY DEF Begin, Goto, disk
<1>2. TypeOK'
  <2>1. overlapped' \in BOOLEAN
    BY <1>1
  <2> QED
    BY <1>1, <2>1 DEF TypeOK
<1>3. Places'
  BY <1>1, StoreAssumption DEF Places, TypeOK, Saving, Holding
<1>4. Alone'
  BY <1>1 DEF Alone, Quiet, TypeOK, Saving, Holding
<1>5. DiskMatchesMemory' /\ File' = File
  BY <1>1 DEF DiskMatchesMemory, Quiet, TypeOK, File
<1> QED
  BY <1>2, <1>3, <1>4, <1>5

LEMMA ApplyStep ==
  ASSUME IInv, NEW p \in Posts, Apply(p)
  PROVE  IInv' /\ File' = File
<1> USE DEF IInv
<1>1. PICK f \in todo[p], v \in Values :
        /\ config' = [config EXCEPT ![f] = v]
        /\ todo' = [todo EXCEPT ![p] = @ \ {f}]
  BY DEF Apply
<1>2. /\ UNCHANGED <<up, data, fd, offset, path, tmp, content, synced, overlapped, failed>>
      /\ pc[p] = "apply"
      /\ \/ mu' = None /\ pc' = [pc EXCEPT ![p] = "marshal"]
         \/ mu' = mu /\ pc' = pc
  BY DEF Apply, Goto, disk, history
<1>3. TypeOK'
  <2>1. todo[p] \subseteq Fields /\ todo' \in [Posts -> SUBSET Fields]
    BY <1>1 DEF TypeOK
  <2>2. config' \in Configs
    BY <1>1, <2>1 DEF TypeOK, Configs
  <2> QED
    BY <1>2, <2>1, <2>2 DEF TypeOK
<1>4. Places'
  BY <1>2, StoreAssumption DEF Places, TypeOK, Saving, Holding
<1>5. Alone'
  BY <1>2 DEF Alone, TypeOK, Saving, Holding, File
<1>6. DiskMatchesMemory' /\ File' = File
  <2>1. pc'[p] # "idle"
    BY <1>2 DEF TypeOK
  <2> QED
    BY <1>2, <2>1 DEF DiskMatchesMemory, Quiet, File
<1> QED
  BY <1>3, <1>4, <1>5, <1>6

LEMMA MarshalStep ==
  ASSUME IInv, NEW p \in Posts, Marshal(p)
  PROVE  IInv' /\ File' = File
<1> USE DEF IInv
<1>1. PICK seen \in Configs :
        /\ mu = None => seen = config
        /\ data' = [data EXCEPT ![p] = seen]
  BY DEF Marshal
<1>2. /\ UNCHANGED <<up, config, mu, todo, fd, offset, path, tmp, content, synced, overlapped,
                     failed>>
      /\ pc[p] = "marshal" /\ pc' = [pc EXCEPT ![p] = "open"]
  BY DEF Marshal, Goto, memory, disk, history
<1>3. TypeOK'
  BY <1>1, <1>2 DEF TypeOK
<1>4. Places'
  BY <1>1, <1>2, StoreAssumption DEF Places, TypeOK, Saving, Holding
<1>5. ~overlapped => mu = None
  BY <1>2 DEF Alone, Places, TypeOK
<1>6. Alone'
  BY <1>1, <1>2, <1>5 DEF Alone, TypeOK, Saving, Holding, File
<1>7. DiskMatchesMemory' /\ File' = File
  BY <1>2 DEF DiskMatchesMemory, Quiet, TypeOK, File
<1> QED
  BY <1>3, <1>4, <1>6, <1>7

LEMMA OpenStep ==
  ASSUME IInv, NEW p \in Posts, Open(p)
  PROVE  IInv' /\ File' = File
<1> USE DEF IInv
<1> DEFINE i == IF tmp = None THEN FreeInode ELSE tmp
<1>1. /\ UNCHANGED <<up, config, mu, todo, data, offset, path, overlapped, failed>>
      /\ pc[p] = "open" /\ pc' = [pc EXCEPT ![p] = "write"]
      /\ tmp' = i /\ fd' = [fd EXCEPT ![p] = i]
      /\ content' = [content EXCEPT ![i] = <<>>]
      /\ synced' = synced \ {i}
  BY DEF Open, Goto, memory, history
<1>2. i \in Inodes /\ i # path
  BY RoomForTmp DEF TypeOK
<1> HIDE DEF i
<1>3. content' \in [Inodes -> Contents]
  <2>1. content \in [Inodes -> Contents]
    BY DEF TypeOK, Contents
  <2> QED
    BY <1>1, <2>1, ContentsTyped
<1>4. TypeOK'
  BY <1>1, <1>2, <1>3 DEF TypeOK, Contents
<1>5. File' = File
  BY <1>1, <1>2 DEF File, TypeOK
<1>6. Places'
  BY <1>1, <1>2, StoreAssumption DEF Places, TypeOK, Saving, Holding
<1>7. Written(<<>>, data[p], 0)
  <2>1. <<>> \in [1..0 -> Values \cup {Hole}]
    OBVIOUS
  <2> QED
    BY <2>1 DEF Written
<1>8. Alone'
  <2>1. ~overlapped => \A q \in Posts : q # p => pc[q] = "idle"
    BY <1>1 DEF Alone
  <2>2. content'[i] = <<>> /\ offset'[p] = 0 /\ data'[p] = data[p]
    BY <1>1, <1>2 DEF TypeOK, Places
  <2>3. pc'[p] = "write" /\ fd'[p] = i /\ \A q \in Posts : q # p => pc'[q] = pc[q]
    BY <1>1 DEF TypeOK
  <2> QED
    BY <1>1, <1>2, <1>7, <2>1, <2>2, <2>3 DEF Alone, Saving, Holding
<1>9. DiskMatchesMemory'
  BY <1>1 DEF DiskMatchesMemory, Quiet, TypeOK
<1> QED
  BY <1>4, <1>5, <1>6, <1>8, <1>9

LEMMA WriteStep ==
  ASSUME IInv, NEW p \in Posts, Write(p)
  PROVE  IInv' /\ (overlapped \/ File' = File)
<1> USE DEF IInv
<1> DEFINE n == offset[p]
           i == fd[p]
           g == WriteAt(content[i], n + 1, data[p][n + 1])
<1>1. /\ pc[p] = "write" /\ n \in 0..1 /\ i \in Inodes /\ data[p] \in Configs
      /\ data[p][n + 1] \in Values /\ Len(data[p]) = 2
  <2>1. pc[p] = "write" /\ n \in 0..1 /\ i \in Inodes /\ data[p] \in Configs
    BY DEF Write, Places, Saving, Holding
  <2>2. data[p] \in [1..2 -> Values] /\ n + 1 \in 1..2
    BY <2>1 DEF Configs, Fields
  <2> QED
    BY <2>1, <2>2
<1>2. /\ UNCHANGED <<up, config, mu, todo, data, fd, path, tmp, overlapped, failed>>
      /\ content' = [content EXCEPT ![i] = g]
      /\ offset' = [offset EXCEPT ![p] = n + 1]
      /\ pc' = [pc EXCEPT ![p] = IF n + 1 = 2 THEN "sync" ELSE "write"]
      /\ synced' = synced \ {i}
  BY <1>1 DEF Write, Goto, memory, history
<1>3. content \in [Inodes -> Contents] /\ g \in Contents
  <2>1. content \in [Inodes -> Contents]
    BY DEF TypeOK, Contents
  <2>2. n + 1 \in 1..2
    BY <1>1
  <2> QED
    BY <1>1, <2>1, <2>2, WriteTyped
<1>4. TypeOK'
  <2>1. content' \in [Inodes -> Contents]
    BY <1>2, <1>3
  <2>2. offset' \in [Posts -> 0..2]
    BY <1>1, <1>2 DEF TypeOK
  <2> QED
    BY <1>2, <2>1, <2>2 DEF TypeOK, Contents
<1>5. Places'
  BY <1>1, <1>2, StoreAssumption DEF Places, TypeOK, Saving, Holding
<1>6. ~overlapped => /\ i = tmp /\ Written(content[i], data[p], n)
                     /\ \A q \in Posts : q # p => pc[q] = "idle"
  BY <1>1 DEF Alone, Holding
<1>7. ~overlapped => Written(g, data[p], n + 1) /\ (n = 1 => g = data[p])
  BY <1>1, <1>6, WriteNext
<1>8. Alone'
  <2>1. /\ content'[i] = g /\ offset'[p] = n + 1
        /\ pc'[p] = IF n = 1 THEN "sync" ELSE "write"
        /\ \A q \in Posts : q # p => pc'[q] = pc[q]
    BY <1>1, <1>2, <1>3 DEF TypeOK
  <2>2. path # tmp
    BY DEF TypeOK
  <2> QED
    BY <1>1, <1>2, <1>6, <1>7, <2>1, <2>2 DEF Alone, Saving, Holding
<1>9. overlapped \/ File' = File
  BY <1>2, <1>3, <1>6 DEF TypeOK, File
<1>10. DiskMatchesMemory'
  BY <1>2 DEF DiskMatchesMemory, Quiet, TypeOK
<1> QED
  BY <1>4, <1>5, <1>8, <1>9, <1>10

\* A file with a name is kept as it is.
LEMMA UnlinkKeeps ==
  ASSUME TypeOK, NEW S \in SUBSET Inodes, Unlink(S)
  PROVE  /\ content' \in [Inodes -> Contents] /\ synced' \subseteq S
         /\ \A i \in Inodes : i \in {path', tmp'} =>
              content'[i] = content[i] /\ (i \in S => i \in synced')
<1>1. content \in [Inodes -> Contents] /\ <<>> \in Contents
  BY ContentsTyped DEF TypeOK, Contents
<1> QED
  BY <1>1 DEF Unlink

LEMMA SyncStep ==
  ASSUME IInv, NEW p \in Posts, Sync(p)
  PROVE  IInv' /\ File' = File
<1> USE DEF IInv
<1> DEFINE S == synced \cup {fd[p]}
<1>1. /\ UNCHANGED <<up, config, mu, todo, data, path, tmp, overlapped, failed>>
      /\ pc[p] = "sync" /\ pc' = [pc EXCEPT ![p] = "rename"]
      /\ fd' = [fd EXCEPT ![p] = None] /\ offset' = [offset EXCEPT ![p] = 0]
      /\ Unlink(S)
  BY DEF Sync, Close, Goto, memory, history
<1>2. S \in SUBSET Inodes /\ synced \subseteq S
  BY <1>1 DEF TypeOK, Places, Holding
<1>3. /\ content' \in [Inodes -> Contents] /\ synced' \subseteq Inodes
      /\ \A i \in Inodes : i \in {path, tmp} =>
           content'[i] = content[i] /\ (i \in S => i \in synced')
  <2>1. /\ content' \in [Inodes -> Contents] /\ synced' \subseteq S
        /\ \A i \in Inodes : i \in {path', tmp'} =>
             content'[i] = content[i] /\ (i \in S => i \in synced')
    <3> HIDE DEF S
    <3> QED
      BY <1>1, <1>2, UnlinkKeeps
  <2> QED
    BY <1>1, <1>2, <2>1
<1>4. TypeOK'
  BY <1>1, <1>3 DEF TypeOK, Contents
<1>5. Places'
  BY <1>1, StoreAssumption DEF Places, TypeOK, Saving, Holding
<1>6. File' = File
  BY <1>1, <1>3 DEF TypeOK, File
<1>7. Alone'
  <2>1. ~overlapped => /\ fd[p] = tmp /\ tmp \in Inodes /\ content[tmp] = data[p]
                       /\ data[p] = config /\ path \in synced
                       /\ \A q \in Posts : q # p => pc[q] = "idle"
    BY <1>1 DEF Alone, Places, Saving, Holding
  <2>2. ~overlapped => /\ content'[tmp] = content[tmp] /\ tmp \in synced'
                       /\ path \in synced'
    BY <1>2, <1>3, <2>1 DEF TypeOK
  <2>3. pc'[p] = "rename" /\ \A q \in Posts : q # p => pc'[q] = pc[q]
    BY <1>1 DEF TypeOK
  <2> QED
    BY <1>1, <2>1, <2>2, <2>3 DEF Alone, Saving, Holding
<1>8. DiskMatchesMemory'
  BY <1>1 DEF DiskMatchesMemory, Quiet, TypeOK
<1> QED
  BY <1>4, <1>5, <1>6, <1>7, <1>8

LEMMA FailStep ==
  ASSUME IInv, NEW p \in Posts, Fail(p)
  PROVE  IInv' /\ File' = File
<1> USE DEF IInv
<1>1. /\ UNCHANGED <<up, config, mu, todo, path, overlapped>>
      /\ pc[p] \in Saving /\ pc' = [pc EXCEPT ![p] = "idle"]
      /\ tmp' = IF pc[p] = "open" THEN tmp ELSE None
      /\ data' = [data EXCEPT ![p] = <<>>] /\ fd' = [fd EXCEPT ![p] = None]
      /\ offset' = [offset EXCEPT ![p] = 0] /\ failed' = TRUE
      /\ Unlink(synced)
  BY DEF Fail, Answer, Goto, memory, Saving
<1>2. /\ content' \in [Inodes -> Contents] /\ synced' \subseteq synced
      /\ content'[path] = content[path] /\ (path \in synced => path \in synced')
  BY <1>1, UnlinkKeeps DEF TypeOK
<1>3. TypeOK'
  <2>1. path' # tmp'
    BY <1>1, StoreAssumption DEF TypeOK
  <2> QED
    BY <1>1, <1>2, <2>1 DEF TypeOK, Contents
<1>4. Places'
  BY <1>1, StoreAssumption DEF Places, TypeOK, Saving, Holding
<1>5. Alone'
  <2>1. ~overlapped => \A q \in Posts : pc'[q] = "idle"
    BY <1>1 DEF Alone, TypeOK, Saving
  <2> QED
    BY <1>1, <1>2, <2>1 DEF Alone, Saving, Holding
<1>6. DiskMatchesMemory' /\ File' = File
  BY <1>1, <1>2 DEF DiskMatchesMemory, File
<1> QED
  BY <1>3, <1>4, <1>5, <1>6

LEMMA RenameStep ==
  ASSUME IInv, NEW p \in Posts, Rename(p)
  PROVE  IInv' /\ (overlapped \/ Replaced)
<1> USE DEF IInv
<1>1. /\ UNCHANGED <<up, config, mu, todo, fd, offset, overlapped, failed>>
      /\ data' = [data EXCEPT ![p] = <<>>]
      /\ pc[p] = "rename" /\ pc' = [pc EXCEPT ![p] = "chmod"]
      /\ tmp # None /\ path' = tmp /\ tmp' = None
      /\ Unlink(synced)
  BY DEF Rename, Goto, memory, history
<1>2. tmp \in Inodes /\ path # tmp
  BY <1>1 DEF TypeOK
<1>3. /\ content' \in [Inodes -> Contents] /\ synced' \subseteq synced
      /\ content'[tmp] = content[tmp] /\ (tmp \in synced => tmp \in synced')
  BY <1>1, <1>2, UnlinkKeeps DEF TypeOK
<1>4. TypeOK'
  <2>1. path' # tmp' /\ path' \in Inodes /\ tmp' \in Inodes \cup {None}
    BY <1>1, <1>2, StoreAssumption
  <2> QED
    BY <1>1, <1>3, <2>1 DEF TypeOK, Contents
<1>5. Places'
  BY <1>1, StoreAssumption DEF Places, TypeOK, Saving, Holding
<1>6. ~overlapped => /\ content[tmp] = data[p] /\ data[p] = config /\ tmp \in synced
                     /\ \A q \in Posts : q # p => pc[q] = "idle"
  BY <1>1 DEF Alone, Saving
<1>7. File' = content[tmp]
  BY <1>1, <1>3 DEF File
<1>8. Alone'
  <2>1. pc'[p] = "chmod" /\ \A q \in Posts : q # p => pc'[q] = pc[q]
    BY <1>1 DEF TypeOK
  <2> QED
    BY <1>1, <1>3, <1>6, <1>7, <2>1 DEF Alone, Saving, Holding
<1>9. DiskMatchesMemory'
  BY <1>1 DEF DiskMatchesMemory, Quiet, TypeOK
<1>10. overlapped \/ Replaced
  BY <1>1, <1>2, <1>6, <1>7 DEF Replaced
<1> QED
  BY <1>4, <1>5, <1>8, <1>9, <1>10

LEMMA FinishStep ==
  ASSUME IInv, NEW p \in Posts, Finish(p)
  PROVE  IInv' /\ File' = File
<1> USE DEF IInv
<1>1. /\ UNCHANGED <<up, config, mu, todo, path, tmp, overlapped>>
      /\ pc[p] = "chmod" /\ pc' = [pc EXCEPT ![p] = "idle"]
      /\ data' = [data EXCEPT ![p] = <<>>] /\ fd' = [fd EXCEPT ![p] = None]
      /\ offset' = [offset EXCEPT ![p] = 0] /\ failed' \in BOOLEAN
      /\ Unlink(synced)
  BY DEF Finish, Answer, Goto, memory
<1>2. /\ content' \in [Inodes -> Contents] /\ synced' \subseteq synced
      /\ content'[path] = content[path] /\ (path \in synced => path \in synced')
  BY <1>1, UnlinkKeeps DEF TypeOK
<1>3. TypeOK'
  BY <1>1, <1>2 DEF TypeOK, Contents
<1>4. Places'
  BY <1>1, StoreAssumption DEF Places, TypeOK, Saving, Holding
<1>5. Alone'
  <2>1. ~overlapped => \A q \in Posts : pc'[q] = "idle"
    BY <1>1 DEF Alone, TypeOK
  <2> QED
    BY <1>1, <1>2, <2>1 DEF Alone, Saving, Holding
<1>6. File' = File
  BY <1>1, <1>2 DEF File
<1>7. DiskMatchesMemory'
  <2>1. ~overlapped => File' = config'
    BY <1>1, <1>6 DEF Alone
  <2>2. config' \in Configs
    BY <1>3 DEF TypeOK
  <2>3. File' \in Configs => Effective' = File'
    <3>1. content'[path'] \in Contents
      BY <1>2, <1>3 DEF TypeOK
    <3> QED
      BY <3>1, ReadBack DEF Effective, File
  <2> QED
    BY <1>1, <2>1, <2>2, <2>3 DEF DiskMatchesMemory
<1> QED
  BY <1>3, <1>4, <1>5, <1>6, <1>7

LEMMA ReloadStep ==
  ASSUME IInv, Reload
  PROVE  IInv' /\ File' = File
<1> USE DEF IInv
<1>1. /\ UNCHANGED <<up, mu, pc, todo, data, fd, offset, path, tmp, content, synced>>
      /\ mu = None /\ Readable(File) /\ config' = Loaded(File)
      /\ overlapped' = (overlapped \/ ~Quiet)
      /\ failed' = (failed /\ ~Quiet)
  BY DEF Reload, handler, disk
<1>2. File \in Contents /\ File' = File
  BY <1>1 DEF TypeOK, File, Contents
<1>3. config' \in Configs
  BY <1>1, <1>2, ReadBack
<1>4. TypeOK'
  <2>1. overlapped' \in BOOLEAN /\ failed' \in BOOLEAN
    BY <1>1
  <2> QED
    BY <1>1, <1>3, <2>1 DEF TypeOK
<1>5. Places'
  BY <1>1 DEF Places
<1>6. ~overlapped' => ~overlapped /\ \A q \in Posts : pc[q] = "idle"
  BY <1>1 DEF Quiet
<1>7. Alone'
  BY <1>1, <1>6 DEF Alone, Saving, Holding
<1>8. DiskMatchesMemory'
  <2>1. Effective' = Effective
    BY <1>1 DEF Effective, File
  <2>2. Effective = Loaded(File)
    BY <1>1 DEF Effective
  <2> QED
    BY <1>1, <2>1, <2>2 DEF DiskMatchesMemory
<1> QED
  BY <1>2, <1>4, <1>5, <1>7, <1>8

LEMMA CrashStep ==
  ASSUME IInv, Crash
  PROVE  IInv' /\ (overlapped \/ File' = File)
<1> USE DEF IInv
<1>1. PICK n \in 0..2 :
        content' = [i \in Inodes |-> IF i \in {path, tmp} THEN Left(i, n) ELSE <<>>]
  BY DEF Crash
<1>2. /\ UNCHANGED <<path, tmp, synced, overlapped, failed>>
      /\ up' = FALSE /\ mu' = None /\ config' = [f \in Fields |-> Default]
      /\ pc' = [p \in Posts |-> "idle"] /\ todo' = [p \in Posts |-> {}]
      /\ data' = [p \in Posts |-> <<>>] /\ fd' = [p \in Posts |-> None]
      /\ offset' = [p \in Posts |-> 0]
  BY DEF Crash, history
<1>3. content' \in [Inodes -> Contents]
  <2>1. \A i \in Inodes : Left(i, n) \in Contents
    BY LeftTyped
  <2> QED
    BY <1>1, <2>1, ContentsTyped
<1>4. TypeOK'
  <2>1. config' \in Configs
    BY <1>2, StoreAssumption DEF Configs
  <2>2. /\ pc' \in [Posts -> {"idle"}] /\ todo' \in [Posts -> SUBSET Fields]
        /\ data' \in [Posts -> Configs \cup {<<>>}] /\ fd' \in [Posts -> Inodes \cup {None}]
        /\ offset' \in [Posts -> 0..2]
    BY <1>2
  <2>3. /\ {up', overlapped', failed'} \subseteq BOOLEAN /\ mu' = None
        /\ path' \in Inodes /\ tmp' \in Inodes \cup {None} /\ path' # tmp'
        /\ synced' \subseteq Inodes
    BY <1>2 DEF TypeOK
  <2> QED
    BY <1>3, <2>1, <2>2, <2>3 DEF TypeOK, Contents
<1>5. Places'
  BY <1>2, StoreAssumption DEF Places, Saving, Holding
<1>6. Alone'
  BY <1>2 DEF Alone, Saving, Holding
<1>7. overlapped \/ File' = File
  BY <1>1, <1>2 DEF Alone, Left, File, TypeOK
<1>8. DiskMatchesMemory'
  BY <1>2 DEF DiskMatchesMemory
<1> QED
  BY <1>4, <1>5, <1>6, <1>7, <1>8

LEMMA RestartStep ==
  ASSUME IInv, Restart
  PROVE  IInv' /\ File' = File
<1> USE DEF IInv
<1>1. /\ UNCHANGED <<mu, pc, todo, data, fd, offset, path, tmp, content, synced>>
      /\ up' = TRUE /\ config' = Effective
      /\ overlapped' = (path \notin synced) /\ failed' = FALSE
      /\ \A p \in Posts : pc[p] = "idle"
  BY DEF Restart, handler, disk, Places
<1>2. TypeOK'
  <2>1. config' \in Configs /\ overlapped' \in BOOLEAN
    BY <1>1, EffectiveTyped
  <2> QED
    BY <1>1, <2>1 DEF TypeOK
<1>3. Places'
  BY <1>1 DEF Places
<1>4. Alone'
  BY <1>1 DEF Alone, Saving, Holding
<1>5. DiskMatchesMemory' /\ File' = File
  BY <1>1 DEF DiskMatchesMemory, Effective, File
<1> QED
  BY <1>2, <1>3, <1>4, <1>5

LEMMA NextInv == IInv /\ [Next]_vars => IInv' /\ (overlapped' \/ overlapped \/ Replaced)
<1> SUFFICES ASSUME IInv, [Next]_vars
             PROVE  IInv' /\ (overlapped' \/ overlapped \/ Replaced)
  OBVIOUS
<1>1. File' = File => Replaced
  BY DEF Replaced
<1>2. CASE \E p \in Posts : Begin(p) \/ Apply(p) \/ Marshal(p)
  BY <1>1, <1>2, BeginStep, ApplyStep, MarshalStep
<1>3. CASE \E p \in Posts : Open(p) \/ Write(p) \/ Sync(p)
  BY <1>1, <1>3, OpenStep, WriteStep, SyncStep
<1>4. CASE \E p \in Posts : Rename(p) \/ Finish(p) \/ Fail(p)
  BY <1>1, <1>4, RenameStep, FinishStep, FailStep
<1>5. CASE Reload \/ Crash \/ Restart
  BY <1>1, <1>5, ReloadStep, CrashStep, RestartStep
<1>6. CASE UNCHANGED vars
  <2>1. UNCHANGED <<up, config, mu, pc, todo, data, fd, offset, path, tmp, content, synced,
                    overlapped, failed>>
    BY <1>6 DEF vars, memory, handler, disk, history
  <2>2. TypeOK' /\ Places'
    BY <2>1 DEF IInv, TypeOK, Places
  <2>3. Alone' /\ DiskMatchesMemory' /\ File' = File
    BY <2>1 DEF IInv, Alone, DiskMatchesMemory, Effective, File, Quiet
  <2> QED
    BY <1>1, <2>2, <2>3 DEF IInv
<1> QED
  BY <1>2, <1>3, <1>4, <1>5, <1>6 DEF Next

LEMMA Inductive == Spec => []IInv
<1>1. IInv /\ [Next]_vars => IInv'
  BY NextInv
<1> QED
  BY InitInv, <1>1, PTL DEF Spec

-----------------------------------------------------------------------------
(* The theorems *)

\* Every variable keeps its type, a post that creates its temporary file always
\* finds an inode for it, and config.yaml is never the temporary file.
THEOREM TypeCorrect == Spec => []TypeOK
<1>1. IInv => TypeOK
  BY DEF IInv
<1> QED
  BY <1>1, Inductive, PTL

\* What is read from config.yaml changes only to all that one post has marshalled,
\* by a crash at any step, too, while no two posts overlap.
THEOREM SavesAreAtomic == Spec => AtomicReplace
<1>1. IInv /\ [Next]_vars => [overlapped' \/ overlapped \/ Replaced]_vars
  BY NextInv
<1> QED
  BY <1>1, Inductive, PTL DEF Spec, AtomicReplace

\* After posts that did not overlap, the last of which reported success, memory and
\* file agree.
THEOREM MemoryIsSaved == Spec => []DiskMatchesMemory
<1>1. IInv => DiskMatchesMemory
  BY DEF IInv
<1> QED
  BY <1>1, Inductive, PTL

-----------------------------------------------------------------------------
(* The steps as ConfigRegister sees them *)

State == IF ~up THEN "down" ELSE IF Quiet THEN "idle" ELSE "busy"

\* What a post finds and leaves: the program runs, and while no posts overlap it
\* is the only one.
LEMMA Busy ==
  ASSUME IInv, NEW p \in Posts, pc[p] # "idle"
  PROVE  State = "busy" /\ (~overlapped => \A q \in Posts : q # p => pc[q] = "idle")
BY DEF IInv, Places, Alone, State, Quiet

LEMMA SavedAsIs == File' = File => Effective' = Effective
BY DEF Effective

LEMMA EffectiveNext ==
  ASSUME TypeOK'
  PROVE  Effective' \in Configs /\ (File' \in Configs => Effective' = File')
<1>1. File' \in Contents
  BY DEF TypeOK, File, Contents
<1>2. [f \in Fields |-> Default] \in Configs
  BY StoreAssumption DEF Configs
<1> QED
  BY <1>1, <1>2, ReadBack DEF Effective

\* The steps between the first and the last of a post.
LEMMA InsidePost ==
  ASSUME IInv, IInv', NEW p \in Posts,
         Apply(p) \/ Marshal(p) \/ Open(p) \/ Write(p) \/ Sync(p) \/ Rename(p)
  PROVE  Register!Change \/ Register!Replace \/ UNCHANGED Register!vars
<1>1. pc[p] # "idle" /\ pc'[p] # "idle" /\ UNCHANGED <<failed, overlapped>>
  BY DEF Apply, Marshal, Open, Write, Sync, Close, Rename, Goto, IInv, TypeOK, history
<1>2. State = "busy" /\ State' = "busy"
  <2>1. State = "busy"
    BY <1>1, Busy
  <2>2. up' /\ ~Quiet'
    BY <1>1 DEF IInv, Places, Quiet
  <2> QED
    BY <2>1, <2>2 DEF State
<1>3. CASE Apply(p)
  <2>1. File' = File /\ config' \in Configs
    BY <1>3, ApplyStep DEF IInv, TypeOK
  <2> QED
    BY <1>1, <1>2, <2>1, SavedAsIs DEF Register!Change, State
<1>4. ASSUME UNCHANGED <<config, File>>
      PROVE  UNCHANGED Register!vars
  BY <1>1, <1>2, <1>4, SavedAsIs DEF Register!vars, State
<1>5. CASE Marshal(p) \/ Open(p) \/ Sync(p)
  <2>1. File' = File
    BY <1>5, MarshalStep, OpenStep, SyncStep
  <2> QED
    BY <1>4, <1>5, <2>1 DEF Marshal, Open, Sync, Close, memory
<1>6. Effective' \in Configs
  BY EffectiveNext DEF IInv
<1>7. CASE Write(p)
  <2>1. overlapped \/ File' = File
    BY <1>7, WriteStep
  <2>2. config' = config
    BY <1>7 DEF Write, memory
  <2>3. CASE overlapped
    BY <1>1, <1>2, <1>6, <2>2, <2>3 DEF Register!Replace, State
  <2> QED
    BY <1>4, <2>1, <2>2, <2>3
<1>8. CASE Rename(p)
  <2>1. config' = config /\ config \in Configs /\ pc'[p] = "chmod"
    BY <1>8 DEF Rename, Goto, memory, IInv, TypeOK
  <2>2. ~overlapped => File' = config
    BY <1>1, <2>1 DEF IInv, Alone
  <2>3. ~overlapped => Effective' = config
    BY <2>1, <2>2, EffectiveNext DEF IInv
  <2> QED
    BY <1>1, <1>2, <1>6, <2>1, <2>3 DEF Register!Replace, State
<1> QED
  BY <1>3, <1>5, <1>7, <1>8

LEMMA PostBegins == ASSUME IInv, IInv', NEW p \in Posts, Begin(p) PROVE Register!Begin
<1>1. /\ up /\ up' /\ pc' = [pc EXCEPT ![p] = "apply"]
      /\ overlapped' = (~Quiet \/ path \notin synced)
      /\ UNCHANGED <<config, failed>>
  BY DEF Begin, Goto, disk
<1>2. Effective' = Effective
  BY BeginStep, SavedAsIs
<1>3. State' = "busy"
  BY <1>1 DEF State, Quiet, IInv, TypeOK
<1>4. State = IF Quiet THEN "idle" ELSE "busy"
  BY <1>1 DEF State
<1>5. path \notin synced => overlapped
  BY DEF IInv, Alone
<1>6. overlapped' \in BOOLEAN
  BY <1>1
<1> QED
  BY <1>1, <1>2, <1>3, <1>4, <1>5, <1>6 DEF Register!Begin, State

LEMMA PostEnds == ASSUME IInv, IInv', NEW p \in Posts, Finish(p) \/ Fail(p) PROVE Register!Answer
<1>1. /\ pc[p] # "idle" /\ pc' = [pc EXCEPT ![p] = "idle"]
      /\ UNCHANGED <<up, config, overlapped>> /\ failed' \in BOOLEAN
  BY DEF Finish, Fail, Answer, Goto, memory
<1>2. Effective' = Effective
  BY FinishStep, FailStep, SavedAsIs
<1>3. State = "busy" /\ (~overlapped => \A q \in Posts : q # p => pc[q] = "idle")
  BY <1>1, Busy
<1>4. State' \in {"idle", "busy"} /\ (~overlapped => State' = "idle")
  BY <1>1, <1>3 DEF State, Quiet, IInv, TypeOK
<1>5. ~overlapped => failed' \/ Effective = config
  <2>1. CASE Fail(p)
    BY <2>1 DEF Fail, Answer
  <2>2. CASE Finish(p)
    <3>1. ~overlapped => File = config
      BY <2>2 DEF Finish, IInv, Alone
    <3>2. config \in Configs
      BY DEF IInv, TypeOK
    <3> QED
      BY <3>1, <3>2, EffectiveTyped DEF IInv
  <2> QED
    BY <2>1, <2>2
<1> QED
  BY <1>1, <1>2, <1>3, <1>4, <1>5 DEF Register!Answer, State

LEMMA OutsidePosts ==
  ASSUME IInv, IInv'
  PROVE  /\ Reload => Register!Load
         /\ Crash => Register!Stop
         /\ Restart => Register!Start
<1>1. ASSUME Reload PROVE Register!Load
  <2>1. /\ up /\ Readable(File) /\ config' = Loaded(File)
        /\ overlapped' = (overlapped \/ ~Quiet) /\ failed' = (failed /\ ~Quiet)
        /\ UNCHANGED <<up, pc>>
    BY <1>1 DEF Reload, handler
  <2>2. Effective' = Effective /\ config' = Effective
    BY <1>1, <2>1, ReloadStep, SavedAsIs DEF Effective
  <2>3. State' = State /\ State = IF Quiet THEN "idle" ELSE "busy"
    BY <2>1 DEF State, Quiet
  <2> QED
    BY <2>1, <2>2, <2>3 DEF Register!Load, State
<1>2. ASSUME Crash PROVE Register!Stop
  <2>1. up /\ ~up' /\ UNCHANGED <<failed, overlapped>>
    BY <1>2 DEF Crash, history
  <2>2. ~overlapped => Effective' = Effective
    BY <1>2, CrashStep, SavedAsIs
  <2>3. config' \in Configs /\ Effective' \in Configs
    BY EffectiveNext DEF IInv, TypeOK
  <2>4. State # "down" /\ State' = "down"
    BY <2>1 DEF State
  <2> QED
    BY <2>1, <2>2, <2>3, <2>4 DEF Register!Stop, State
<1>3. ASSUME Restart PROVE Register!Start
  <2>1. ~up /\ up' /\ config' = Effective /\ failed' = FALSE
        /\ overlapped' = (path \notin synced) /\ pc' = pc
    BY <1>3 DEF Restart, handler
  <2>2. Effective' = Effective
    BY <1>3, RestartStep, SavedAsIs
  <2>3. State = "down" /\ State' = "idle"
    BY <2>1 DEF State, Quiet, IInv, Places
  <2>4. overlapped' \in BOOLEAN /\ (overlapped' => overlapped)
    BY <2>1 DEF IInv, Alone
  <2> QED
    BY <2>1, <2>2, <2>3, <2>4 DEF Register!Start, State
<1> QED
  BY <1>1, <1>2, <1>3

LEMMA RegisterStep == IInv /\ IInv' /\ [Next]_vars => [Register!Next]_Register!vars
<1> SUFFICES ASSUME IInv, IInv', [Next]_vars PROVE [Register!Next]_Register!vars
  OBVIOUS
<1>1. CASE UNCHANGED vars
  <2>1. UNCHANGED <<up, config, pc, path, content, overlapped, failed>>
    BY <1>1 DEF vars, memory, handler, disk, history
  <2>2. File' = File
    BY <2>1 DEF File
  <2> QED
    BY <2>1, <2>2, SavedAsIs DEF Register!vars, Quiet
<1>2. CASE Next
  BY <1>2, InsidePost, PostBegins, PostEnds, OutsidePosts DEF Next, Register!Next
<1> QED
  BY <1>1, <1>2

\* Files, renames, partial writes, failures and crashes are invisible: the store
\* implements one register in memory and one on disk.  What is saved is replaced
\* by what is in memory, a post that reports success has done so, and a reload or
\* a restart brings back what is saved; the first two hold while posts do not
\* overlap, the last always.
THEOREM StoreIsRegister == Spec => ImplementsRegister
<1>1. Init => Register!Init
  <2> SUFFICES ASSUME Init PROVE Register!Init
    OBVIOUS
  <2>1. IInv /\ up /\ Quiet /\ failed = FALSE /\ overlapped = FALSE
    BY InitInv DEF Init, Quiet
  <2>2. config \in Configs /\ config = Effective
    BY <2>1 DEF IInv, TypeOK, DiskMatchesMemory
  <2> QED
    BY <2>1, <2>2 DEF Register!Init
<1> QED
  BY <1>1, RegisterStep, Inductive, PTL DEF Spec, Register!Spec, ImplementsRegister
=============================================================================
