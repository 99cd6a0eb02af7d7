------------------------ MODULE SessionExportProofs ------------------------
(***************************************************************************)
(* Proofs about SessionExport, for any sessions and any number of          *)
(* requests; and about WpilogConvert, for any lines: its operators, and    *)
(* that a reader of the format gets back what the session says.            *)
(***************************************************************************)
EXTENDS SessionExport, FiniteSetTheorems, SequenceTheorems, WellFoundedInduction, TLAPS

Exporting(r) == pc[r] \in {"find", "find2", "notfound", "read", "answer", "truncate", "write", "open"}
Holding(r) == pc[r] \in {"answer", "truncate", "write", "open"}

\* A session has a place from its creation on.
Placed ==
  /\ \A f \in Files : (place[f] = Nil) = (lines[f] = Nil)
  /\ writer # Nil => lines[writer] # Nil

\* Where a search or a list has looked in vain, no session is left behind.
Searched ==
  \A r \in Requests :
    /\ Exporting(r) => sid[r] \in Files /\ place[sid[r]] # Nil
    /\ pc[r] = "find2" => place[sid[r]] \in {"uploaded", "gone"}
    /\ pc[r] = "notfound" => place[sid[r]] = "gone"
    /\ pc[r] \in {"stat", "list2"} =>
         \A f \in there[r] : f \in listed[r] \/ place[f] \in {"uploaded", "gone"}
    /\ pc[r] = "listed" => \A f \in there[r] : f \in listed[r] \/ place[f] = "gone"
    /\ \A f \in there[r] : place[f] # Nil

\* A session that is exported, or has been, is not written any more.
Settled(f) == place[f] # Nil /\ (f \notin raced => f # writer)

Quiet ==
  /\ \A r \in Requests : Exporting(r) => Settled(sid[r])
  /\ \A f \in Files : saved[f] # Nil => Settled(f)

Copies ==
  /\ \A r \in Requests : Holding(r) /\ sid[r] \notin raced => got[r] = lines[sid[r]]
  /\ \A r \in Requests : pc[r] = "write" => saved[sid[r]] # Nil
  /\ \A f \in Files \ raced : saved[f] \in {Nil, <<0, 0>>, <<lines[f], lines[f]>>}

IInv == TypeOK /\ Placed /\ Searched /\ Quiet /\ Copies

LEMMA InitInv == Init => IInv
BY ExportAssumption
DEF Init, IInv, TypeOK, Steps, Placed, Searched, Quiet, Copies, Exporting, Holding

\* The logger: a session that is exported sees no further line.
LEMMA CreateStep ==
  ASSUME IInv, CreateSession
  PROVE  IInv'
<1> USE DEF IInv, TypeOK, Placed, Searched, Quiet, Copies
<1>1. PICK g \in Files : Session!Create(g) /\ place' = [place EXCEPT ![g] = "pending"]
  BY DEF CreateSession
<1>2. /\ lines[g] = Nil /\ place[g] = Nil /\ writer' = g /\ active' = active
      /\ lines' = [lines EXCEPT ![g] = 0]
      /\ UNCHANGED <<pc, opens, sid, path, got, listed, there, saved, raced>>
  BY <1>1 DEF CreateSession, Session!Create, requests
<1>3. TypeOK'
  BY <1>1, <1>2
<1>4. Placed'
  BY <1>1, <1>2, ExportAssumption
<1>5. Searched'
  BY <1>1, <1>2, ExportAssumption DEF Exporting
<1>6. Quiet'
  BY <1>1, <1>2 DEF Settled, Exporting
<1>7. Copies'
  BY <1>1, <1>2 DEF Settled, Exporting, Holding
<1> QED
  BY <1>3, <1>4, <1>5, <1>6, <1>7

LEMMA LoggerInv ==
  ASSUME IInv, LoggerStep
  PROVE  IInv'
<1> USE DEF IInv, TypeOK, Placed, Searched, Quiet, Copies
<1>1. UNCHANGED <<place, pc, opens, sid, path, got, listed, there, saved, raced>>
  BY DEF LoggerStep, requests
<1>2. CASE lines' = lines /\ writer' \in {writer, Nil} /\ active' \in Files \cup {Nil}
  <2>1. Quiet'
    BY <1>1, <1>2, ExportAssumption DEF Settled, Exporting
  <2> QED
    BY <1>1, <1>2, <2>1 DEF Exporting, Holding
<1>3. ASSUME NEW n \in lines[writer] + 1 .. MaxLines, writer # Nil, Session!Flush(n)
      PROVE  IInv'
  <2>1. /\ lines[writer] \in Nat /\ n \in Nat /\ writer \in Files
        /\ lines' = [lines EXCEPT ![writer] = n] /\ UNCHANGED <<writer, active>>
    BY <1>3, ExportAssumption DEF Session!Flush
  <2>2. TypeOK' /\ Placed'
    BY <1>1, <2>1, ExportAssumption
  <2>3. Searched'
    BY <1>1 DEF Exporting
  <2>4. Quiet'
    BY <1>1, <2>1 DEF Settled, Exporting
  <2>5. Copies'
    BY <1>1, <2>1 DEF Settled, Exporting, Holding
  <2> QED
    BY <2>2, <2>3, <2>4, <2>5
<1> QED
  BY <1>2, <1>3 DEF LoggerStep, Session!Publish, Session!Close, Session!Clear

\* The uploader: places only move on.
LEMMA MoveStep ==
  ASSUME IInv, Finalize \/ PruneUploaded
  PROVE  IInv'
<1> USE DEF IInv, TypeOK, Placed, Searched, Quiet, Copies
<1>1. PICK g \in Files :
        \/ place[g] = "pending" /\ place' = [place EXCEPT ![g] = "uploaded"]
        \/ place[g] = "uploaded" /\ place' = [place EXCEPT ![g] = "gone"]
  BY DEF Finalize, PruneUploaded
<1>2. UNCHANGED <<writer, active, lines, pc, opens, sid, path, got, listed, there, saved, raced>>
  BY DEF Finalize, PruneUploaded, logger, requests
<1>3. TypeOK' /\ Placed'
  BY <1>1, <1>2, ExportAssumption
<1>4. \A f \in Files :
        /\ place[f] # Nil => place'[f] # Nil
        /\ place[f] = "gone" => place'[f] = "gone"
        /\ place[f] \in {"uploaded", "gone"} => place'[f] \in {"uploaded", "gone"}
  BY <1>1, ExportAssumption
<1>5. Searched'
  <2> SUFFICES ASSUME NEW r \in Requests
      PROVE  /\ Exporting(r) => sid[r] \in Files /\ place'[sid[r]] # Nil
             /\ pc[r] = "find2" => place'[sid[r]] \in {"uploaded", "gone"}
             /\ pc[r] = "notfound" => place'[sid[r]] = "gone"
             /\ pc[r] \in {"stat", "list2"} =>
                  \A f \in there[r] : f \in listed[r] \/ place'[f] \in {"uploaded", "gone"}
             /\ pc[r] = "listed" => \A f \in there[r] : f \in listed[r] \/ place'[f] = "gone"
             /\ \A f \in there[r] : place'[f] # Nil
    BY <1>2 DEF Exporting
  <2>1. there[r] \subseteq Files
    OBVIOUS
  <2>2. Exporting(r) => sid[r] \in Files
    OBVIOUS
  <2> QED
    BY <1>4, <2>1, <2>2 DEF Exporting
<1>6. Quiet' /\ Copies'
  BY <1>1, <1>2, ExportAssumption DEF Settled, Exporting, Holding
<1> QED
  BY <1>3, <1>5, <1>6

LEMMA CrashStep ==
  ASSUME IInv, Crash
  PROVE  IInv'
<1> USE DEF IInv, TypeOK, Placed, Searched, Quiet, Copies
<1>1. /\ writer' = Nil /\ active' = Nil
      /\ UNCHANGED <<lines, place, saved, raced>>
      /\ pc' = [r \in Requests |-> "idle"] /\ there' = [r \in Requests |-> {}]
  BY DEF Crash, Session!Stop
<1>2. TypeOK'
  BY ExportAssumption DEF Crash, Session!Stop, Steps
<1>3. Searched'
  BY <1>1 DEF Exporting
<1>4. Quiet' /\ Copies'
  BY <1>1, ExportAssumption DEF Settled, Exporting, Holding
<1> QED
  BY <1>1, <1>2, <1>3, <1>4

\* The requests.
LEMMA DoneStep ==
  ASSUME IInv, NEW r \in Requests, Finish(r) \/ Fail(r)
  PROVE  IInv'
<1> USE DEF IInv, TypeOK, Placed, Searched, Quiet, Copies
<1>1. /\ UNCHANGED <<writer, active, lines, place, raced, saved>>
      /\ pc' = [pc EXCEPT ![r] = "idle"] /\ sid' = [sid EXCEPT ![r] = Nil]
      /\ opens' = [opens EXCEPT ![r] = FALSE] /\ path' = [path EXCEPT ![r] = Nil]
      /\ got' = [got EXCEPT ![r] = 0]
      /\ listed' = [listed EXCEPT ![r] = {}] /\ there' = [there EXCEPT ![r] = {}]
  BY DEF Finish, Fail, Done, GoTo, files, logger
<1>2. TypeOK'
  BY <1>1 DEF Steps
<1>3. Searched'
  BY <1>1 DEF Exporting
<1>4. Quiet' /\ Copies'
  BY <1>1 DEF Settled, Exporting, Holding
<1> QED
  BY <1>1, <1>2, <1>3, <1>4

\* The check of the active id, and the history of the one that comes too early.
LEMMA RequestStep ==
  ASSUME IInv, NEW r \in Requests, NEW f \in Files, RequestExport(r, f)
  PROVE  IInv'
<1> USE DEF IInv, TypeOK, Placed, Searched, Quiet, Copies
<1>1. /\ UNCHANGED <<writer, active, lines, place, path, got, listed, there, saved>>
      /\ place[f] \in {"pending", "uploaded"}
      /\ pc' = [pc EXCEPT ![r] = "find"] /\ sid' = [sid EXCEPT ![r] = f]
      /\ raced' = raced \cup ({f} \cap {writer})
  BY DEF RequestExport, Present, GoTo, files, logger
<1>2. TypeOK'
  BY <1>1 DEF Steps, RequestExport
<1>3. Searched'
  BY <1>1, ExportAssumption DEF Exporting
<1>4. Quiet'
  BY <1>1, ExportAssumption DEF Settled, Exporting
<1>5. Copies'
  BY <1>1 DEF Holding
<1> QED
  BY <1>1, <1>2, <1>3, <1>4, <1>5

LEMMA SearchStep ==
  ASSUME IInv, NEW r \in Requests, findSessionFile(r)
  PROVE  IInv'
<1> USE DEF IInv, TypeOK, Placed, Searched, Quiet, Copies
<1>1. UNCHANGED <<writer, active, lines, place, opens, sid, got, listed, there, saved, raced>>
  BY DEF findSessionFile, Search, files, logger
<1>2. \/ /\ pc[r] \in {"find", "find2"}
         /\ pc' = [pc EXCEPT ![r] = "read"]
         /\ path' = [path EXCEPT ![r] = "pending"] \/ path' = [path EXCEPT ![r] = "uploaded"]
      \/ /\ pc[r] = "find" /\ place[sid[r]] # "pending"
         /\ pc' = [pc EXCEPT ![r] = "find2"] /\ path' = path
      \/ /\ pc[r] = "find2" /\ place[sid[r]] # "uploaded"
         /\ pc' = [pc EXCEPT ![r] = "notfound"] /\ path' = path
  BY DEF findSessionFile, Search, Order, GoTo
<1>3. TypeOK'
  BY <1>1, <1>2 DEF Steps
<1>4. Searched'
  BY <1>1, <1>2 DEF Exporting
<1>5. Quiet' /\ Copies'
  BY <1>1, <1>2 DEF Settled, Exporting, Holding
<1> QED
  BY <1>1, <1>3, <1>4, <1>5

LEMMA ReadStep ==
  ASSUME IInv, NEW r \in Requests, ReadFile(r)
  PROVE  IInv'
<1> USE DEF IInv, TypeOK, Placed, Searched, Quiet, Copies
<1>1. /\ UNCHANGED <<writer, active, lines, place, opens, sid, path, listed, there, saved, raced>>
      /\ pc[r] = "read" /\ got' = [got EXCEPT ![r] = lines[sid[r]]]
      /\ pc' = [pc EXCEPT ![r] = "truncate"] \/ pc' = [pc EXCEPT ![r] = "answer"]
  BY DEF ReadFile, GoTo, files, logger
<1>2. sid[r] \in Files /\ lines[sid[r]] \in Nat
  BY <1>1 DEF Exporting
<1>3. TypeOK'
  BY <1>1, <1>2 DEF Steps
<1>4. Searched'
  BY <1>1 DEF Exporting
<1>5. Quiet' /\ Copies'
  BY <1>1 DEF Settled, Exporting, Holding
<1> QED
  BY <1>1, <1>3, <1>4, <1>5

LEMMA TruncateStep ==
  ASSUME IInv, NEW r \in Requests, Truncate(r)
  PROVE  IInv'
<1> USE DEF IInv, TypeOK, Placed, Searched, Quiet, Copies
<1>1. /\ UNCHANGED <<writer, active, lines, place, opens, sid, path, got, listed, there, raced>>
      /\ pc[r] = "truncate" /\ pc' = [pc EXCEPT ![r] = "write"]
      /\ saved' = [saved EXCEPT ![sid[r]] = <<0, 0>>]
  BY DEF Truncate, GoTo, files, logger
<1>2. sid[r] \in Files /\ <<0, 0>> \in Nat \X Nat /\ <<0, 0>> # Nil
  BY <1>1, ExportAssumption DEF Exporting
<1>3. TypeOK'
  BY <1>1, <1>2 DEF Steps
<1>4. Searched'
  BY <1>1 DEF Exporting
<1>5. Quiet'
  BY <1>1, <1>2 DEF Settled, Exporting
<1>6. Copies'
  BY <1>1, <1>2 DEF Holding, Exporting
<1> QED
  BY <1>1, <1>3, <1>4, <1>5, <1>6

\* Whatever was there is a whole copy of the same session or shorter.
LEMMA WriteStep ==
  ASSUME IInv, NEW r \in Requests, Write(r)
  PROVE  IInv'
<1> USE DEF IInv, TypeOK, Placed, Searched, Quiet, Copies
<1> DEFINE length == saved[sid[r]][2]
           longer == IF length > got[r] THEN length ELSE got[r]
<1>1. /\ UNCHANGED <<writer, active, lines, place, opens, sid, path, got, listed, there, raced>>
      /\ pc[r] = "write" /\ pc' = [pc EXCEPT ![r] = "open"]
      /\ saved' = [saved EXCEPT ![sid[r]] = <<got[r], longer>>]
  BY DEF Write, GoTo, files, logger
<1>2. /\ sid[r] \in Files /\ saved[sid[r]] \in Nat \X Nat /\ got[r] \in Nat
      /\ lines[sid[r]] \in Nat
  BY <1>1 DEF Exporting
<1>3. <<got[r], longer>> \in Nat \X Nat /\ longer \in Nat
  BY <1>2
<1>4. sid[r] \notin raced => <<got[r], longer>> = <<lines[sid[r]], lines[sid[r]]>>
  <2> SUFFICES ASSUME sid[r] \notin raced
      PROVE  got[r] = lines[sid[r]] /\ longer = got[r]
    OBVIOUS
  <2>1. got[r] = lines[sid[r]]
    BY <1>1 DEF Holding
  <2>2. saved[sid[r]] \in {<<0, 0>>, <<got[r], got[r]>>}
    BY <1>1, <1>2, <2>1
  <2>3. length = 0 \/ length = got[r]
    BY <2>2
  <2> QED
    BY <1>2, <2>1, <2>3
<1> HIDE DEF longer
<1>5. <<got[r], longer>> # Nil
  BY <1>3, ExportAssumption
<1>6. TypeOK'
  BY <1>1, <1>2, <1>3 DEF Steps
<1>7. Searched'
  BY <1>1 DEF Exporting
<1>8. Quiet'
  BY <1>1, <1>2 DEF Settled, Exporting
<1>9. Copies'
  BY <1>1, <1>2, <1>4, <1>5 DEF Holding, Exporting
<1> QED
  BY <1>1, <1>6, <1>7, <1>8, <1>9

LEMMA ListStep ==
  ASSUME IInv, NEW r \in Requests, ListFirst(r) \/ StatFirst(r) \/ ListSecond(r)
  PROVE  IInv'
<1> USE DEF IInv, TypeOK, Placed, Searched, Quiet, Copies
<1>1. UNCHANGED <<writer, active, lines, place, opens, sid, path, got, saved, raced>>
  BY DEF ListFirst, StatFirst, ListSecond, files, logger
<1>2. CASE ListFirst(r)
  <2>1. /\ pc' = [pc EXCEPT ![r] = "stat"]
        /\ there' = [there EXCEPT ![r] = {f \in Files : place[f] \in {"pending", "uploaded"}}]
        /\ listed' = [listed EXCEPT ![r] = {f \in Files : place[f] = "pending"}]
    BY <1>2 DEF ListFirst, GoTo, Present, In, Order
  <2>2. TypeOK'
    BY <1>1, <2>1 DEF Steps
  <2>3. Searched'
    BY <1>1, <2>1, ExportAssumption DEF Exporting
  <2>4. Quiet' /\ Copies'
    BY <1>1, <2>1 DEF Settled, Exporting, Holding
  <2> QED
    BY <1>1, <2>2, <2>3, <2>4
<1>3. CASE StatFirst(r)
  <2>1. /\ pc[r] = "stat" /\ pc' = [pc EXCEPT ![r] = "list2"] /\ there' = there
        /\ listed' = [listed EXCEPT ![r] = listed[r] \cap {f \in Files : place[f] = "pending"}]
    BY <1>3 DEF StatFirst, GoTo, In, Order
  <2>2. TypeOK'
    BY <1>1, <2>1 DEF Steps
  <2>3. \A f \in there[r] : f \in listed'[r] \/ place[f] \in {"uploaded", "gone"}
    BY <2>1
  <2>4. Searched'
    BY <1>1, <2>1, <2>3 DEF Exporting
  <2>5. Quiet' /\ Copies'
    BY <1>1, <2>1 DEF Settled, Exporting, Holding
  <2> QED
    BY <1>1, <2>2, <2>4, <2>5
<1>4. CASE ListSecond(r)
  <2>1. /\ pc[r] = "list2" /\ pc' = [pc EXCEPT ![r] = "listed"] /\ there' = there
        /\ listed' = [listed EXCEPT ![r] = listed[r] \cup {f \in Files : place[f] = "uploaded"}]
    BY <1>4 DEF ListSecond, GoTo, In, Order
  <2>2. TypeOK'
    BY <1>1, <2>1 DEF Steps
  <2>3. \A f \in there[r] : f \in listed'[r] \/ place[f] = "gone"
    BY <2>1
  <2>4. Searched'
    BY <1>1, <2>1, <2>3 DEF Exporting
  <2>5. Quiet' /\ Copies'
    BY <1>1, <2>1 DEF Settled, Exporting, Holding
  <2> QED
    BY <1>1, <2>2, <2>4, <2>5
<1> QED
  BY <1>2, <1>3, <1>4

LEMMA NextInv ==
  ASSUME IInv, [Next]_vars
  PROVE  IInv'
<1>1. CASE UNCHANGED vars
  BY <1>1 DEF vars, files, logger, IInv, TypeOK, Placed, Searched, Quiet, Copies, Settled,
              Exporting, Holding
<1>2. CASE Next
  BY <1>2, CreateStep, LoggerInv, MoveStep, CrashStep, DoneStep, RequestStep, SearchStep,
     ReadStep, TruncateStep, WriteStep, ListStep DEF Next, Handle
<1> QED
  BY <1>1, <1>2

LEMMA Inductive == Spec => []IInv
<1>1. IInv /\ [Next]_vars => IInv'
  BY NextInv
<1> QED
  BY InitInv, <1>1, PTL DEF Spec

-----------------------------------------------------------------------------

\* The handlers' variables keep to their types (server.go:648-852).
THEOREM TypeCorrect == Spec => []TypeOK
<1>1. IInv => TypeOK
  BY DEF IInv
<1> QED
  BY Inductive, <1>1, PTL

\* Nothing that is on disk is missed, whoever moves it meanwhile
\* (server.go:661-667, 836).
THEOREM SessionsAreFound == Spec => []NothingMissed
<1>1. IInv => NothingMissed
  BY DEF IInv, Searched, NothingMissed
<1> QED
  BY Inductive, <1>1, PTL

\* An export is the whole session, and no two of them make a mixture
\* (server.go:734-757, 811-823).
THEOREM ExportsAreWhole == Spec => []ExportWhole
<1>1. IInv => ExportWhole
  BY DEF IInv, Copies, Holding, ExportWhole
<1> QED
  BY Inductive, <1>1, PTL

-----------------------------------------------------------------------------
(* Counting: least numbers, induction, functions defined step by step *)

\* A set of numbers has a least one.
LEMMA Least ==
  ASSUME NEW T \in SUBSET Nat, T # {}
  PROVE  \E x \in T : \A y \in T : x <= y
<1>1. PICK x \in T : \A y \in T : ~ (<<y, x>> \in OpToRel(<, Nat))
  BY NatLessThanWellFounded, WFMin
<1>2. \A y \in T : ~ (y < x)
  BY <1>1 DEF OpToRel
<1> QED
  BY <1>2

\* What holds of 0, and of n + 1 when it holds of n, holds of every number: the set
\* of the others would have a least one.
LEMMA Induction ==
  ASSUME NEW T \in SUBSET Nat, 0 \in T, \A n \in T : n + 1 \in T
  PROVE  T = Nat
<1> SUFFICES ASSUME Nat \ T # {}
             PROVE  FALSE
  OBVIOUS
<1>1. PICK n \in Nat \ T : \A m \in Nat \ T : n <= m
  BY Least
<1>2. n - 1 \in Nat /\ n - 1 \in T /\ n - 1 + 1 = n
  BY <1>1
<1> QED
  BY <1>1, <1>2

\* f is what step makes of start in n steps.
Iterates(f, n, S, start, step) ==
  f \in [0..n -> S] /\ f[0] = start /\ \A k \in 0..n - 1 : f[k + 1] = step[k][f[k]]

\* There is one way to do so.
LEMMA IteratesAgree ==
  ASSUME NEW S, NEW start, NEW step, NEW m \in Nat, NEW n \in Nat, m <= n, NEW f, NEW g,
         Iterates(f, m, S, start, step), Iterates(g, n, S, start, step)
  PROVE  \A k \in 0..m : f[k] = g[k]
<1> DEFINE T == {k \in Nat : k <= m => f[k] = g[k]}
<1>1. 0 \in T
  BY DEF Iterates
<1>2. \A k \in T : k + 1 \in T
  BY DEF Iterates
<1>3. T = Nat
  BY <1>1, <1>2, Induction
<1> QED
  BY <1>3

\* The same without an end.
Runs(f, S, start, step) ==
  f \in [Nat -> S] /\ f[0] = start /\ \A n \in Nat : f[n + 1] = step[n][f[n]]

\* A function can be defined by its first value and its steps.
LEMMA Recursion ==
  ASSUME NEW S, NEW start \in S, NEW step \in [Nat -> [S -> S]]
  PROVE  \E f : Runs(f, S, start, step)
<1> DEFINE Good(n, f) == Iterates(f, n, S, start, step)
           T == {n \in Nat : \E f : Good(n, f)}
<1>1. 0 \in T
  <2>1. Good(0, [k \in 0..0 |-> start])
    BY DEF Iterates
  <2> QED
    BY <2>1
<1>2. \A n \in T : n + 1 \in T
  <2> SUFFICES ASSUME NEW n \in Nat, NEW f, Good(n, f)
               PROVE  \E g : Good(n + 1, g)
    OBVIOUS
  <2> DEFINE g == [k \in 0..n + 1 |-> IF k <= n THEN f[k] ELSE step[n][f[n]]]
  <2>1. step[n][f[n]] \in S
    BY DEF Iterates
  <2>2. Good(n + 1, g)
    BY <2>1 DEF Iterates
  <2> QED
    BY <2>2
<1>3. T = Nat
  BY <1>1, <1>2, Induction
<1>7. ASSUME NEW n \in Nat, NEW a, NEW b, Good(n, a), Good(n + 1, b)
      PROVE  a[n] = b[n]
  <2>1. n + 1 \in Nat /\ n <= n + 1
    OBVIOUS
  <2>2. \A k \in 0..n : a[k] = b[k]
    BY <1>7, <2>1, IteratesAgree
  <2> QED
    BY <2>2
<1> DEFINE upTo == [n \in Nat |-> CHOOSE f : Good(n, f)]
           f == [n \in Nat |-> upTo[n][n]]
<1>4. \A n \in Nat : Good(n, upTo[n])
  BY <1>3
<1> HIDE DEF upTo
<1>5. f \in [Nat -> S] /\ f[0] = start
  BY <1>4 DEF Iterates
<1>6. \A n \in Nat : f[n + 1] = step[n][f[n]]
  <2> SUFFICES ASSUME NEW n \in Nat PROVE f[n + 1] = step[n][f[n]]
    OBVIOUS
  <2>1. n + 1 \in Nat /\ n <= n + 1 /\ Iterates(upTo[n], n, S, start, step)
        /\ Iterates(upTo[n + 1], n + 1, S, start, step)
    BY <1>4
  <2>2. upTo[n][n] = upTo[n + 1][n]
    BY <1>7, <2>1
  <2>3. upTo[n + 1][n + 1] = step[n][upTo[n + 1][n]]
    BY <2>1 DEF Iterates
  <2> QED
    BY <2>2, <2>3
<1> QED
  BY <1>5, <1>6 DEF Runs

-----------------------------------------------------------------------------
(* The topics of a converted session: data is any sequence of data lines *)

\* The topics of the first n lines.
Seen(data, n) == {topicKey(data[i]) : i \in 1..n}

LEMMA SeenGrows ==
  ASSUME NEW data, NEW n \in Nat
  PROVE  /\ IsFiniteSet(Seen(data, n)) /\ Cardinality(Seen(data, n)) \in Nat
         /\ Cardinality(Seen(data, n + 1)) =
              IF topicKey(data[n + 1]) \in Seen(data, n) THEN Cardinality(Seen(data, n))
              ELSE Cardinality(Seen(data, n)) + 1
<1>1. IsFiniteSet(Seen(data, n))
  <2> DEFINE f == [i \in 1..n |-> topicKey(data[i])]
  <2>1. f \in Surjection(1..n, Seen(data, n))
    BY DEF Surjection, Seen
  <2> QED
    BY <2>1, FS_Surjection, FS_Interval
<1>2. Seen(data, n + 1) = Seen(data, n) \cup {topicKey(data[n + 1])}
  <2>1. 1..n + 1 = 1..n \cup {n + 1}
    OBVIOUS
  <2> QED
    BY <2>1 DEF Seen
<1> QED
  BY <1>1, <1>2, FS_AddElement, FS_CardinalityType

LEMMA SeenMonotone ==
  ASSUME NEW data, NEW m \in Nat, NEW n \in Nat, m <= n
  PROVE  /\ Seen(data, m) \subseteq Seen(data, n)
         /\ Cardinality(Seen(data, m)) <= Cardinality(Seen(data, n))
<1>1. Seen(data, m) \subseteq Seen(data, n)
  BY DEF Seen
<1> QED
  BY <1>1, SeenGrows, FS_Subset

\* Line i is the first of its topic.
First(data, i) == topicKey(data[i]) \notin Seen(data, i - 1)

\* Every topic has a first line, no two of a topic are first, and first lines have
\* different ids.
LEMMA FirstExists ==
  ASSUME NEW Lines, NEW data \in Seq(Lines), NEW k \in DOMAIN data
  PROVE  \E i \in 1..k : First(data, i) /\ topicKey(data[i]) = topicKey(data[k])
<1> DEFINE T == {i \in 1..Len(data) : topicKey(data[i]) = topicKey(data[k])}
<1>1. k \in T /\ T \subseteq Nat
  OBVIOUS
<1>2. PICK i \in T : \A j \in T : i <= j
  BY <1>1, Least
<1>3. \A j \in 1..i - 1 : topicKey(data[j]) # topicKey(data[i])
  BY <1>2
<1> QED
  BY <1>1, <1>2, <1>3 DEF First, Seen

LEMMA FirstUnique ==
  ASSUME NEW Lines, NEW data \in Seq(Lines), NEW i \in DOMAIN data, NEW j \in DOMAIN data,
         First(data, i), First(data, j),
         topicKey(data[i]) = topicKey(data[j]) \/ Cardinality(Seen(data, i)) = Cardinality(Seen(data, j))
  PROVE  i = j
<1>1. \A m, n \in DOMAIN data : First(data, n) /\ m < n =>
        /\ topicKey(data[m]) # topicKey(data[n])
        /\ Cardinality(Seen(data, m)) < Cardinality(Seen(data, n))
  <2> SUFFICES ASSUME NEW m \in DOMAIN data, NEW n \in DOMAIN data, First(data, n), m < n
               PROVE  /\ topicKey(data[m]) # topicKey(data[n])
                      /\ Cardinality(Seen(data, m)) < Cardinality(Seen(data, n))
    OBVIOUS
  <2>1. m \in Nat /\ n - 1 \in Nat /\ m <= n - 1 /\ m \in 1..n - 1 /\ n - 1 + 1 = n
    OBVIOUS
  <2>2. topicKey(data[m]) # topicKey(data[n])
    BY <2>1 DEF First, Seen
  <2>3. Cardinality(Seen(data, n)) = Cardinality(Seen(data, n - 1)) + 1
    BY <2>1, SeenGrows DEF First
  <2>4. Cardinality(Seen(data, m)) <= Cardinality(Seen(data, n - 1))
    BY <2>1, SeenMonotone
  <2>5. Cardinality(Seen(data, m)) \in Nat /\ Cardinality(Seen(data, n - 1)) \in Nat
    BY <2>1, SeenGrows
  <2> QED
    BY <2>2, <2>3, <2>4, <2>5
<1>2. i \in Nat /\ j \in Nat
  OBVIOUS
<1>3. Cardinality(Seen(data, i)) \in Nat /\ Cardinality(Seen(data, j)) \in Nat
  BY <1>2, SeenGrows
<1>4. ~ (i < j) /\ ~ (j < i)
  BY <1>1, <1>3
<1> QED
  BY <1>2, <1>4

\* The id of a line is the number of topics up to the first of its own.
LEMMA IdAtFirst ==
  ASSUME NEW Lines, NEW data \in Seq(Lines), NEW k \in DOMAIN data, NEW i \in 1..k,
         First(data, i), topicKey(data[i]) = topicKey(data[k])
  PROVE  /\ entryID(data, data[k]) = Cardinality(Seen(data, i))
         /\ entryID(data, data[k]) \in 1..Cardinality(topics(data))
         /\ introduces(data, entryID(data, data[k])) = data[i]
<1>1. i \in DOMAIN data /\ i - 1 \in Nat /\ i - 1 + 1 = i /\ Len(data) \in Nat /\ i <= Len(data)
  OBVIOUS
<1>2. entryID(data, data[k]) = Cardinality(Seen(data, i))
  <2> DEFINE IsFirst(f) == topicKey(data[f]) = topicKey(data[k])
                             /\ \A j \in 1..f - 1 : topicKey(data[j]) # topicKey(data[k])
             first == CHOOSE f \in DOMAIN data : IsFirst(f)
  <2>1. \A f \in DOMAIN data : IsFirst(f) => f = i
    BY <1>1, FirstUnique DEF First, Seen
  <2>2. IsFirst(i)
    BY DEF First, Seen
  <2>3. first = i
    BY <1>1, <2>1, <2>2
  <2> QED
    BY <2>3 DEF entryID, Seen
<1>3. Cardinality(Seen(data, i)) \in 1..Cardinality(topics(data))
  <2>1. topics(data) = Seen(data, Len(data))
    BY DEF topics, Seen
  <2>2. Cardinality(Seen(data, i)) = Cardinality(Seen(data, i - 1)) + 1
    BY <1>1, SeenGrows DEF First
  <2> QED
    BY <1>1, <2>1, <2>2, SeenGrows, SeenMonotone
<1>4. introduces(data, Cardinality(Seen(data, i))) = data[i]
  <2> DEFINE id == Cardinality(Seen(data, i))
             Is(n) == Cardinality(Seen(data, n)) = id /\ Cardinality(Seen(data, n - 1)) < id
  <2>1. Is(i)
    BY <1>1, SeenGrows DEF First
  <2>2. \A n \in DOMAIN data : Is(n) => n = i
    <3> SUFFICES ASSUME NEW n \in DOMAIN data, Is(n) PROVE n = i
      OBVIOUS
    <3>1. n - 1 \in Nat /\ n - 1 + 1 = n
      OBVIOUS
    <3>2. First(data, n)
      BY <3>1, SeenGrows DEF First
    <3> QED
      BY <3>2, <1>1, FirstUnique
  <2>3. i = CHOOSE n \in DOMAIN data : Is(n)
    BY <1>1, <2>1, <2>2
  <2> QED
    BY <2>3 DEF introduces, Seen
<1> QED
  BY <1>2, <1>3, <1>4

\* Entry ids and topics, a name with a type, are one to one: an id stands for no
\* other topic even when robot code restarts with another type, the start record
\* with that id carries the line's own name and type, and the markers' id, the
\* next one, is no topic's (convert.go:66-145).
THEOREM TopicsHaveTheirIds ==
  ASSUME NEW Lines, NEW data \in Seq(Lines)
  PROVE  /\ \A k \in DOMAIN data :
              /\ entryID(data, data[k]) \in 1..Cardinality(topics(data))
              /\ introduces(data, entryID(data, data[k])).key = data[k].key
              /\ introduces(data, entryID(data, data[k])).type = data[k].type
         /\ \A k, m \in DOMAIN data :
              entryID(data, data[k]) = entryID(data, data[m]) <=>
                data[k].key = data[m].key /\ data[k].type = data[m].type
         /\ \A id \in 1..Cardinality(topics(data)) :
              \E k \in DOMAIN data : introduces(data, id) = data[k] /\ entryID(data, data[k]) = id
<1>1. ASSUME NEW k \in DOMAIN data
      PROVE  /\ entryID(data, data[k]) \in 1..Cardinality(topics(data))
             /\ introduces(data, entryID(data, data[k])).key = data[k].key
             /\ introduces(data, entryID(data, data[k])).type = data[k].type
  <2>1. PICK i \in 1..k : First(data, i) /\ topicKey(data[i]) = topicKey(data[k])
    BY FirstExists
  <2>2. /\ entryID(data, data[k]) \in 1..Cardinality(topics(data))
        /\ introduces(data, entryID(data, data[k])) = data[i]
    BY <2>1, IdAtFirst
  <2> QED
    BY <2>1, <2>2 DEF topicKey
<1>2. ASSUME NEW k \in DOMAIN data, NEW m \in DOMAIN data
      PROVE  entryID(data, data[k]) = entryID(data, data[m]) <=>
               data[k].key = data[m].key /\ data[k].type = data[m].type
  <2>1. PICK i \in 1..k : First(data, i) /\ topicKey(data[i]) = topicKey(data[k])
    BY FirstExists
  <2>2. PICK j \in 1..m : First(data, j) /\ topicKey(data[j]) = topicKey(data[m])
    BY FirstExists
  <2>3. entryID(data, data[k]) = Cardinality(Seen(data, i)) /\ entryID(data, data[m]) = Cardinality(Seen(data, j))
    BY <2>1, <2>2, IdAtFirst
  <2>4. i \in DOMAIN data /\ j \in DOMAIN data
    OBVIOUS
  <2>5. entryID(data, data[k]) = entryID(data, data[m]) <=> topicKey(data[k]) = topicKey(data[m])
    BY <2>1, <2>2, <2>3, <2>4, FirstUnique
  <2> QED
    BY <2>5 DEF topicKey
<1>3. ASSUME NEW id \in 1..Cardinality(topics(data))
      PROVE  \E k \in DOMAIN data : introduces(data, id) = data[k] /\ entryID(data, data[k]) = id
  <2> DEFINE T == {n \in 1..Len(data) : Cardinality(Seen(data, n)) >= id}
  <2>1. Len(data) \in Nat /\ topics(data) = Seen(data, Len(data))
    BY DEF topics, Seen
  <2>2. \A n \in Nat : Cardinality(Seen(data, n)) \in Nat
    BY SeenGrows
  <2>3. Cardinality(Seen(data, 0)) = 0
    <3>1. Seen(data, 0) = {}
      BY DEF Seen
    <3> QED
      BY <3>1, FS_EmptySet
  <2>4. id \in Nat \ {0} /\ Len(data) \in T /\ T \subseteq Nat
    BY <2>1, <2>2, <2>3
  <2>5. PICK n \in T : \A m \in T : n <= m
    BY <2>4, Least
  <2>6. n \in DOMAIN data /\ n \in Nat /\ n - 1 \in Nat /\ n - 1 + 1 = n
    OBVIOUS
  <2>7. Cardinality(Seen(data, n - 1)) < id
    <3>1. CASE n = 1
      BY <3>1, <2>3, <2>4
    <3>2. CASE n # 1
      <4>1. n - 1 \in 1..Len(data) /\ n - 1 \notin T
        BY <3>2, <2>5
      <4> QED
        BY <4>1, <2>2, <2>4
    <3> QED
      BY <3>1, <3>2
  <2>8. First(data, n) /\ Cardinality(Seen(data, n)) = id
    <3>1. Cardinality(Seen(data, n)) =
            IF topicKey(data[n]) \in Seen(data, n - 1) THEN Cardinality(Seen(data, n - 1))
            ELSE Cardinality(Seen(data, n - 1)) + 1
      BY <2>6, SeenGrows
    <3>2. /\ Cardinality(Seen(data, n)) \in Nat /\ Cardinality(Seen(data, n - 1)) \in Nat
          /\ Cardinality(Seen(data, n)) >= id
      BY <2>2, <2>6
    <3> QED
      BY <3>1, <3>2, <2>4, <2>7 DEF First
  <2>9. entryID(data, data[n]) = id /\ introduces(data, id) = data[n]
    BY <2>6, <2>8, IdAtFirst
  <2> QED
    BY <2>6, <2>9
<1> QED
  BY <1>1, <1>2, <1>3

-----------------------------------------------------------------------------
(* The two clocks *)

\* A session's base is its oldest stamp, or zero when no line has one.
LEMMA BaseIsOldest ==
  ASSUME NEW Lines, \A l \in Lines : l.serverTs \in Nat, NEW data \in Seq(Lines)
  PROVE  /\ stamps(data) \subseteq Nat \ {0}
         /\ stamps(data) = {} => minServerTS(data) = 0
         /\ stamps(data) # {} => minServerTS(data) \in stamps(data)
         /\ \A t \in stamps(data) : minServerTS(data) <= t
<1>1. stamps(data) \subseteq Nat \ {0}
  BY DEF stamps
<1>2. CASE stamps(data) # {}
  <2>1. \E t \in stamps(data) : \A u \in stamps(data) : t <= u
    BY <1>1, <1>2, Least
  <2> DEFINE t == CHOOSE t \in stamps(data) : \A u \in stamps(data) : t <= u
  <2>2. t \in stamps(data) /\ \A u \in stamps(data) : t <= u
    BY <2>1
  <2>3. minServerTS(data) = t
    BY <1>2 DEF minServerTS
  <2> QED
    BY <1>1, <1>2, <2>2, <2>3
<1> QED
  BY <1>1, <1>2 DEF minServerTS

\* The times of the values, and of a marker m, on any session: stamped values keep
\* their distances and the oldest is at zero; no time is negative; and a marker
\* stands between the values received before and after it, where their stamps
\* advance with the session's wall clock (convert.go:87-89, 182-212).
THEOREM ClocksKept ==
  ASSUME NEW Lines, \A l \in Lines : l.serverTs \in Nat /\ l.ts \in Int,
         NEW data \in Seq(Lines), NEW start \in Int, NEW m, m.ts \in Int
  PROVE  LET base  == minServerTS(data)
             at(i) == resolveTimestamp(data[i], start, base)
         IN  /\ \A i, j \in DOMAIN data : data[i].serverTs > 0 /\ data[j].serverTs > 0 =>
                  at(i) - at(j) = data[i].serverTs - data[j].serverTs
             /\ \A i \in DOMAIN data :
                  /\ at(i) \in Nat
                  /\ data[i].serverTs = base /\ base > 0 => at(i) = 0
                  /\ InStep(data[i], start, base) =>
                       /\ data[i].ts <= m.ts => at(i) <= wallClockToMicros(m, start)
                       /\ data[i].ts >= m.ts => at(i) >= wallClockToMicros(m, start)
<1> DEFINE base  == minServerTS(data)
           at(i) == resolveTimestamp(data[i], start, base)
<1>1. \A i \in DOMAIN data : data[i].serverTs \in Nat /\ data[i].ts \in Int
  OBVIOUS
<1>2. \A i \in DOMAIN data : data[i].serverTs > 0 => data[i].serverTs \in stamps(data)
  BY <1>1 DEF stamps
<1>3. base \in Nat
  BY BaseIsOldest
<1>4. ASSUME NEW i \in DOMAIN data, data[i].serverTs > 0
      PROVE  at(i) = data[i].serverTs - base /\ at(i) \in Nat
  <2>1. base <= data[i].serverTs
    BY <1>2, <1>4, BaseIsOldest
  <2> QED
    BY <1>1, <1>3, <1>4, <2>1 DEF resolveTimestamp, AtLeastZero
<1>5. ASSUME NEW i \in DOMAIN data, ~ (data[i].serverTs > 0)
      PROVE  at(i) = AtLeastZero(data[i].ts - start) /\ at(i) \in Nat
  BY <1>1, <1>5 DEF resolveTimestamp, wallClockToMicros, AtLeastZero
<1>6. ASSUME NEW i \in DOMAIN data, InStep(data[i], start, base)
      PROVE  /\ data[i].ts <= m.ts => at(i) <= wallClockToMicros(m, start)
             /\ data[i].ts >= m.ts => at(i) >= wallClockToMicros(m, start)
  <2>1. at(i) = AtLeastZero(data[i].ts - start)
    <3>1. CASE data[i].serverTs > 0
      BY <3>1, <1>1, <1>3, <1>4, <1>6 DEF InStep, AtLeastZero
    <3> QED
      BY <3>1, <1>5
  <2> QED
    BY <2>1, <1>1 DEF wallClockToMicros, AtLeastZero
<1>7. ASSUME NEW i \in DOMAIN data, data[i].serverTs = base, base > 0
      PROVE  at(i) = 0
  BY <1>1, <1>3, <1>4, <1>7
<1>8. ASSUME NEW i \in DOMAIN data, NEW j \in DOMAIN data, data[i].serverTs > 0, data[j].serverTs > 0
      PROVE  at(i) - at(j) = data[i].serverTs - data[j].serverTs
  BY <1>1, <1>3, <1>4, <1>8
<1> HIDE DEF at
<1>9. \A i \in DOMAIN data : at(i) \in Nat
  BY <1>4, <1>5
<1> QED
  BY <1>6, <1>7, <1>8, <1>9 DEF at

-----------------------------------------------------------------------------
(* The order of the markers *)

\* The markers up to marker i in the order of their times.
Before(markers, i) == {j \in DOMAIN markers :
  markers[j].ts < markers[i].ts \/ (markers[j].ts = markers[i].ts /\ j <= i)}

\* The markers are written in the order of their times, each once
\* (convert.go:159-174).  sort.Slice promises no more: nothing is said of equal
\* times.
THEOREM MarkersSorted ==
  ASSUME NEW Lines, \A l \in Lines : l.ts \in Int, NEW markers \in Seq(Lines)
  PROVE  \E p \in Bijection(DOMAIN markers, DOMAIN markers) :
           /\ byTs(markers) = [k \in DOMAIN markers |-> markers[p[k]]]
           /\ \A k, n \in DOMAIN markers : k < n => byTs(markers)[k].ts <= byTs(markers)[n].ts
<1> DEFINE D    == DOMAIN markers
           rank == [i \in D |-> Cardinality(Before(markers, i))]
           p    == [k \in D |-> CHOOSE i \in D : rank[i] = k]
           Earlier(i, j) == \/ markers[i].ts < markers[j].ts
                            \/ markers[i].ts = markers[j].ts /\ i < j
<1>1. Len(markers) \in Nat /\ D = 1..Len(markers) /\ IsFiniteSet(D) /\ Cardinality(D) = Len(markers)
  <2>1. Len(markers) \in Nat /\ D = 1..Len(markers)
    OBVIOUS
  <2>2. \A n \in Nat : IsFiniteSet(1..n) /\ Cardinality(1..n) = IF 1 > n THEN 0 ELSE n - 1 + 1
    BY FS_Interval
  <2> QED
    BY <2>1, <2>2
<1>2. \A i \in D : markers[i].ts \in Int /\ i \in Nat
  OBVIOUS
<1>3. \A i \in D : Before(markers, i) \subseteq D /\ i \in Before(markers, i)
  BY <1>2 DEF Before
<1>4. \A i \in D : IsFiniteSet(Before(markers, i)) /\ rank[i] \in D
  <2> SUFFICES ASSUME NEW i \in D
               PROVE  IsFiniteSet(Before(markers, i)) /\ rank[i] \in D
    OBVIOUS
  <2>1. IsFiniteSet(Before(markers, i)) /\ Cardinality(Before(markers, i)) <= Len(markers)
    BY <1>1, <1>3, FS_Subset
  <2>2. Cardinality(Before(markers, i)) \in Nat /\ Cardinality(Before(markers, i)) # 0
    BY <2>1, <1>3, FS_CardinalityType, FS_EmptySet
  <2> QED
    BY <1>1, <2>1, <2>2
<1>5. \A i, j \in D : Earlier(i, j) => rank[i] < rank[j]
  <2> SUFFICES ASSUME NEW i \in D, NEW j \in D, Earlier(i, j)
               PROVE  rank[i] < rank[j]
    OBVIOUS
  <2>1. Before(markers, i) \subseteq Before(markers, j)
    BY <1>2 DEF Before
  <2>2. j \notin Before(markers, i)
    BY <1>2 DEF Before
  <2>3. Before(markers, i) # Before(markers, j)
    BY <1>3, <2>2
  <2>4. Cardinality(Before(markers, i)) <= Cardinality(Before(markers, j))
        /\ Cardinality(Before(markers, i)) # Cardinality(Before(markers, j))
    BY <1>4, <2>1, <2>3, FS_Subset
  <2> QED
    BY <1>1, <1>4, <2>4
<1>6. \A i, j \in D : i # j => Earlier(i, j) \/ Earlier(j, i)
  BY <1>2
<1>7. \A i, j \in D : rank[i] = rank[j] => i = j
  BY <1>1, <1>4, <1>5, <1>6
<1>8. rank \in Surjection(D, D)
  <2>1. rank \in Injection(D, D)
    BY <1>4, <1>7 DEF Injection, IsInjective
  <2> QED
    BY <1>1, <2>1, FS_Injection
<1> HIDE DEF rank
<1>9. \A k \in D : p[k] \in D /\ rank[p[k]] = k
  BY <1>8 DEF Surjection
<1>10. p \in Bijection(D, D)
  <2>1. p \in Injection(D, D)
    BY <1>9 DEF Injection, IsInjective
  <2>2. p \in Surjection(D, D)
    BY <1>1, <2>1, FS_Injection
  <2> QED
    BY <2>1, <2>2 DEF Bijection
<1>11. byTs(markers) = [k \in D |-> markers[p[k]]]
  BY DEF byTs, rank, Before
<1>12. \A k, n \in D : k < n => Earlier(p[k], p[n])
  <2> SUFFICES ASSUME NEW k \in D, NEW n \in D, k < n
               PROVE  Earlier(p[k], p[n])
    OBVIOUS
  <2>1. p[k] \in D /\ p[n] \in D /\ rank[p[k]] = k /\ rank[p[n]] = n
    BY <1>9
  <2>2. k \in Int /\ n \in Int /\ ~ (n < k) /\ k # n
    BY <1>1
  <2> HIDE DEF p
  <2>3. p[k] # p[n]
    BY <2>1, <2>2
  <2> HIDE DEF Earlier
  <2>4. ~ Earlier(p[n], p[k])
    BY <1>5, <2>1, <2>2
  <2> QED
    BY <1>6, <2>1, <2>3, <2>4
<1>13. \A k, n \in D : k < n => byTs(markers)[k].ts <= byTs(markers)[n].ts
  <2> SUFFICES ASSUME NEW k \in D, NEW n \in D, k < n
               PROVE  byTs(markers)[k].ts <= byTs(markers)[n].ts
    OBVIOUS
  <2>1. Earlier(p[k], p[n]) /\ p[k] \in D /\ p[n] \in D
    BY <1>9, <1>12
  <2>2. byTs(markers)[k] = markers[p[k]] /\ byTs(markers)[n] = markers[p[n]]
    BY <1>11
  <2> HIDE DEF p
  <2> QED
    BY <1>2, <2>1, <2>2
<1> HIDE DEF p
<1> QED
  BY <1>10, <1>11, <1>13

-----------------------------------------------------------------------------
(* The numbers of the format *)

\* The recursive definition of pow has a solution, so pow obeys it.
LEMMA PowFacts ==
  /\ pow[0] = 1 /\ \A n \in 0..7 : pow[n + 1] = Base * pow[n]
  /\ \A n \in 0..8 : pow[n] \in Nat \ {0}
<1> DEFINE Is(g) == g = [n \in 0..8 |-> IF n = 0 THEN 1 ELSE Base * g[n - 1]]
           S    == Nat \ {0}
           step == [n \in Nat |-> [x \in S |-> Base * x]]
<1>1. step \in [Nat -> [S -> S]] /\ 1 \in S
  BY ConvertAssumption
<1>2. \A n \in Nat, x \in S : step[n][x] = Base * x
  OBVIOUS
<1> HIDE DEF step, S
<1>9. PICK f : Runs(f, S, 1, step)
  BY <1>1, Recursion
<1>3. f[0] = 1 /\ \A n \in Nat : f[n] \in S /\ f[n + 1] = step[n][f[n]]
  BY <1>9 DEF Runs
<1>4. Is([n \in 0..8 |-> f[n]])
  <2> DEFINE g == [n \in 0..8 |-> f[n]]
  <2>1. \A n \in 0..8 : n # 0 => n - 1 \in 0..8 /\ f[n] = Base * f[n - 1]
    <3> SUFFICES ASSUME NEW n \in 0..8, n # 0
                 PROVE  n - 1 \in 0..8 /\ f[n] = Base * f[n - 1]
      OBVIOUS
    <3>1. n - 1 \in Nat /\ n - 1 + 1 = n /\ n - 1 \in 0..8
      OBVIOUS
    <3> QED
      BY <3>1, <1>2, <1>3
  <2> QED
    BY <2>1, <1>3
<1>5. Is(pow)
  BY <1>4 DEF pow
<1>6. pow[0] = 1 /\ \A n \in 0..7 : pow[n + 1] = Base * pow[n]
  BY <1>5
<1> DEFINE T == {n \in Nat : n <= 8 => pow[n] \in Nat \ {0}}
<1>7. \A n \in T : n + 1 \in T
  <2> SUFFICES ASSUME NEW n \in T, n + 1 <= 8
               PROVE  pow[n + 1] \in Nat \ {0}
    OBVIOUS
  <2>1. pow[n] \in Nat \ {0} /\ pow[n + 1] = Base * pow[n]
    BY <1>6
  <2> QED
    BY <2>1, ConvertAssumption
<1>8. T = Nat
  BY <1>6, <1>7, Induction
<1> QED
  BY <1>6, <1>8

\* Quotient and remainder are the only ones.
LEMMA ModUnique ==
  ASSUME NEW v \in Nat, NEW m \in Nat \ {0}, NEW q \in Nat, NEW r \in 0..m - 1, v = q * m + r
  PROVE  v % m = r /\ v \div m = q
<1>1. v % m \in 0..m - 1 /\ v = (v \div m) * m + (v % m) /\ v \div m \in Nat
  OBVIOUS
<1> DEFINE d == v \div m
<1>2. ~ (d < q)
  <2> SUFFICES ASSUME d + 1 <= q PROVE FALSE
    BY <1>1
  <2>1. (d + 1) * m <= q * m
    BY <1>1
  <2> QED
    BY <1>1, <2>1
<1>3. ~ (q < d)
  <2> SUFFICES ASSUME q + 1 <= d PROVE FALSE
    BY <1>1
  <2>1. (q + 1) * m <= d * m
    BY <1>1
  <2> QED
    BY <1>1, <2>1
<1> QED
  BY <1>1, <1>2, <1>3

\* One more digit of v.
LEMMA OneMoreDigit ==
  ASSUME NEW v \in Nat, NEW p \in Nat \ {0}, NEW b \in Nat \ {0}
  PROVE  v % (b * p) = (v % p) + ((v \div p) % b) * p
<1> DEFINE q == v \div p
           r == v % p
           d == q % b
           e == q \div b
<1>1. q \in Nat /\ r \in 0..p - 1 /\ v = q * p + r
  OBVIOUS
<1> HIDE DEF q, r
<1>2. d \in 0..b - 1 /\ e \in Nat /\ q = e * b + d
  BY <1>1
<1> HIDE DEF d, e
<1>3. v = e * (b * p) + (d * p + r)
  <2>1. q * p = e * (b * p) + d * p
    BY <1>1, <1>2
  <2> QED
    BY <1>1, <1>2, <2>1
<1>4. d * p + r \in 0..b * p - 1
  <2>1. d * p <= (b - 1) * p
    BY <1>2
  <2>2. (b - 1) * p = b * p - p
    OBVIOUS
  <2>3. d * p \in Nat /\ b * p \in Nat \ {0}
    BY <1>2
  <2> QED
    BY <1>1, <2>1, <2>2, <2>3
<1>5. v % (b * p) = d * p + r
  <2>1. b * p \in Nat \ {0}
    OBVIOUS
  <2> QED
    BY <1>2, <1>3, <1>4, <2>1, ModUnique
<1> QED
  BY <1>1, <1>2, <1>5 DEF d, q, r

\* A number that fits the format fits the bytes it is given.
LEMMA MinBytesFit ==
  ASSUME NEW max \in 1..8, NEW v \in Nat, v < pow[max]
  PROVE  minBytes(v, max) \in 1..max /\ v < pow[minBytes(v, max)]
<1> DEFINE Enough(n) == (n = max \/ v < pow[n]) /\ \A m \in 1..n - 1 : v >= pow[m]
           T == {n \in 1..max : v < pow[n]}
<1>1. PICK n \in T : \A m \in T : n <= m
  <2>1. max \in T /\ T \subseteq Nat
    OBVIOUS
  <2> QED
    BY <2>1, Least
<1>2. \A m \in 1..8 : pow[m] \in Nat
  BY PowFacts
<1>3. n \in 1..max /\ Enough(n)
  <2>1. \A m \in 1..n - 1 : m \in 1..max /\ m \notin T
    BY <1>1
  <2> QED
    BY <1>1, <1>2, <2>1
<1> DEFINE c == CHOOSE k \in 1..max : Enough(k)
<1>4. c \in 1..max /\ Enough(c)
  BY <1>3
<1>5. minBytes(v, max) = c
  BY DEF minBytes
<1> HIDE DEF c
<1> QED
  BY <1>4, <1>5

\* A number is read back from the bytes it was written in, for any base and any
\* number of bytes it fits, wherever they stand (encoder.go:144-151).
THEOREM NumbersAreRead ==
  ASSUME NEW n \in 1..8, NEW v \in Nat, v < pow[n], NEW s, NEW at \in Nat,
         \A i \in 1..n : s[at + i - 1] = putVarInt(v, n)[i]
  PROVE  Number(s, at, n) = v
<1> DEFINE digit(k) == (v \div pow[k]) % Base
           Is(g) == g = [k \in 0..n |-> IF k = 0 THEN 0 ELSE g[k - 1] + s[at + k - 1] * pow[k - 1]]
           f == [k \in 0..n |-> v % pow[k]]
<1>1. \A k \in 0..8 : pow[k] \in Nat \ {0}
  BY PowFacts
<1>2. \A k \in 1..n : v % pow[k] = (v % pow[k - 1]) + s[at + k - 1] * pow[k - 1]
  <2> SUFFICES ASSUME NEW k \in 1..n
               PROVE  v % pow[k] = (v % pow[k - 1]) + s[at + k - 1] * pow[k - 1]
    OBVIOUS
  <2>1. k - 1 \in 0..7 /\ k - 1 + 1 = k
    OBVIOUS
  <2>2. pow[k] = Base * pow[k - 1] /\ pow[k - 1] \in Nat \ {0}
    BY <2>1, PowFacts
  <2>3. s[at + k - 1] = (v \div pow[k - 1]) % Base
    BY DEF putVarInt
  <2>4. v % (Base * pow[k - 1]) = (v % pow[k - 1]) + ((v \div pow[k - 1]) % Base) * pow[k - 1]
    BY <2>2, OneMoreDigit, ConvertAssumption
  <2> QED
    BY <2>2, <2>3, <2>4
<1>3. v % pow[0] = 0
  BY PowFacts
<1>4. Is(f)
  <2>1. \A k \in 0..n : k # 0 => k \in 1..n /\ k - 1 \in 0..n
    OBVIOUS
  <2> QED
    BY <1>2, <1>3, <2>1
<1>5. \A g : Is(g) => g[n] = v % pow[n]
  <2> SUFFICES ASSUME NEW g, Is(g) PROVE g[n] = v % pow[n]
    OBVIOUS
  <2>1. g[0] = 0 /\ \A k \in 1..n : g[k] = g[k - 1] + s[at + k - 1] * pow[k - 1]
    OBVIOUS
  <2> HIDE DEF Is
  <2> DEFINE T == {k \in Nat : k <= n => g[k] = v % pow[k]}
  <2>2. 0 \in T
    BY <1>3, <2>1
  <2>3. \A k \in T : k + 1 \in T
    <3> SUFFICES ASSUME NEW k \in T, k + 1 <= n PROVE g[k + 1] = v % pow[k + 1]
      OBVIOUS
    <3>1. k + 1 \in 1..n /\ k + 1 - 1 = k
      OBVIOUS
    <3>2. g[k + 1] = g[k] + s[at + (k + 1) - 1] * pow[k]
      BY <2>1, <3>1
    <3>3. v % pow[k + 1] = (v % pow[k]) + s[at + (k + 1) - 1] * pow[k]
      BY <1>2, <3>1
    <3> QED
      BY <3>2, <3>3
  <2>4. T = Nat
    BY <2>2, <2>3, Induction
  <2> QED
    BY <2>4
<1>6. Number(s, at, n) = v % pow[n]
  <2> HIDE DEF f
  <2>1. Is(CHOOSE g : Is(g))
    BY <1>4
  <2>2. Number(s, at, n) = (CHOOSE g : Is(g))[n]
    BY DEF Number
  <2> QED
    BY <1>5, <2>1, <2>2
<1>7. v % pow[n] = v
  BY <1>1
<1> QED
  BY <1>6, <1>7

-----------------------------------------------------------------------------
(* A record *)

\* Where the elements of a concatenation come from.
LEMMA Joined ==
  ASSUME NEW X, NEW a \in Seq(X), NEW b \in Seq(X)
  PROVE  /\ a \o b \in Seq(X) /\ Len(a \o b) = Len(a) + Len(b) /\ Len(a) \in Nat /\ Len(b) \in Nat
         /\ \A i \in 1..Len(a) : (a \o b)[i] = a[i]
         /\ \A i \in 1..Len(b) : (a \o b)[Len(a) + i] = b[i]
BY ConcatProperties

\* A piece of s begins behind the first n elements.
Holds(s, n, piece) == n + Len(piece) <= Len(s) /\ \A i \in 1..Len(piece) : s[n + i] = piece[i]

\* The second part stands behind the first.
LEMMA HoldsLast ==
  ASSUME NEW X, NEW a \in Seq(X), NEW b \in Seq(X)
  PROVE  Holds(a \o b, Len(a), b)
BY Joined DEF Holds

\* What stands in a stream stands in a longer one.
LEMMA HoldsStill ==
  ASSUME NEW X, NEW a \in Seq(X), NEW b \in Seq(X), NEW n \in Nat, NEW piece \in Seq(X), Holds(a, n, piece)
  PROVE  Holds(a \o b, n, piece)
<1>1. /\ Len(a) \in Nat /\ Len(b) \in Nat /\ Len(piece) \in Nat /\ Len(a \o b) = Len(a) + Len(b)
      /\ \A i \in 1..Len(a) : (a \o b)[i] = a[i]
  BY Joined
<1>2. \A i \in 1..Len(piece) : n + i \in 1..Len(a)
  BY <1>1 DEF Holds
<1> QED
  BY <1>1, <1>2 DEF Holds

\* A piece of a piece.
LEMMA HoldsPart ==
  ASSUME NEW X, NEW s \in Seq(X), NEW n \in Nat, NEW piece \in Seq(X), Holds(s, n, piece),
         NEW k \in Nat, NEW part \in Seq(X), Holds(piece, k, part)
  PROVE  Holds(s, n + k, part)
<1>1. Len(s) \in Nat /\ Len(piece) \in Nat /\ Len(part) \in Nat
  OBVIOUS
<1>2. \A i \in 1..Len(part) : k + i \in 1..Len(piece) /\ n + (k + i) = n + k + i
  BY <1>1 DEF Holds
<1> QED
  BY <1>1, <1>2 DEF Holds

\* What the format can hold in a record.
Fits(id, ts, payload) == id \in 0..pow[4] - 1 /\ ts \in 0..pow[8] - 1 /\ Len(payload) < pow[4]

\* The three lengths share the first byte.
LEMMA HeaderByte ==
  ASSUME NEW e \in 1..4, NEW z \in 1..4, NEW t \in 1..8
  PROVE  LET h == (e - 1) + 4 * (z - 1) + 16 * (t - 1)
         IN  h \in Nat /\ 1 + (h % 4) = e /\ 1 + ((h \div 4) % 4) = z /\ 1 + ((h \div 16) % 8) = t
<1> DEFINE h == (e - 1) + 4 * (z - 1) + 16 * (t - 1)
           q == (z - 1) + 4 * (t - 1)
<1>1. h \in Nat /\ q \in Nat /\ e - 1 \in 0..3 /\ z - 1 \in 0..3 /\ t - 1 \in 0..7
  OBVIOUS
<1>2. h = q * 4 + (e - 1) /\ q = (t - 1) * 4 + (z - 1)
  OBVIOUS
<1>7. h = (t - 1) * 16 + ((e - 1) + 4 * (z - 1))
  OBVIOUS
<1> HIDE DEF h, q
<1>3. h % 4 = e - 1 /\ h \div 4 = q
  <2>1. 4 \in Nat \ {0} /\ e - 1 \in 0..4 - 1
    OBVIOUS
  <2> QED
    BY <1>1, <1>2, <2>1, ModUnique
<1>4. q % 4 = z - 1
  <2>1. 4 \in Nat \ {0} /\ z - 1 \in 0..4 - 1 /\ t - 1 \in Nat
    OBVIOUS
  <2> QED
    BY <1>1, <1>2, <2>1, ModUnique
<1>5. h \div 16 = t - 1
  <2>1. 16 \in Nat \ {0} /\ (e - 1) + 4 * (z - 1) \in 0..16 - 1 /\ t - 1 \in Nat
    OBVIOUS
  <2> QED
    BY <1>1, <1>7, <2>1, ModUnique
<1>6. (t - 1) % 8 = t - 1
  <2>1. 8 \in Nat \ {0} /\ t - 1 \in 0..8 - 1 /\ t - 1 \in Nat /\ t - 1 = 0 * 8 + (t - 1)
    OBVIOUS
  <2> QED
    BY <2>1, ModUnique
<1> QED
  BY <1>1, <1>3, <1>4, <1>5, <1>6 DEF h

\* The digits of a number are numbers.
LEMMA DigitsTyped ==
  ASSUME NEW X, Nat \subseteq X, NEW n \in 1..8, NEW v \in Nat
  PROVE  putVarInt(v, n) \in Seq(X) /\ Len(putVarInt(v, n)) = n
<1>1. \A i \in 1..n : (v \div pow[i - 1]) % Base \in Nat
  <2> SUFFICES ASSUME NEW i \in 1..n PROVE (v \div pow[i - 1]) % Base \in Nat
    OBVIOUS
  <2>1. i - 1 \in 0..8
    OBVIOUS
  <2>2. pow[i - 1] \in Nat \ {0}
    BY <2>1, PowFacts
  <2>3. v \div pow[i - 1] \in Nat
    BY <2>2
  <2> QED
    BY <2>3, ConvertAssumption
<1>2. putVarInt(v, n) \in [1..n -> Nat]
  BY <1>1 DEF putVarInt
<1> QED
  BY <1>2

\* How many bytes the numbers of a record take, and where they stand.
LEMMA Layout ==
  ASSUME NEW X, Nat \subseteq X, NEW id, NEW ts, NEW payload \in Seq(X), Fits(id, ts, payload),
         NEW e, NEW z, NEW t, e = minBytes(id, 4), z = minBytes(Len(payload), 4), t = minBytes(ts, 8),
         NEW r, r = writeRecord(id, ts, payload)
  PROVE  /\ e \in 1..4 /\ id < pow[e] /\ z \in 1..4 /\ Len(payload) < pow[z] /\ t \in 1..8 /\ ts < pow[t]
         /\ id \in Nat /\ ts \in Nat /\ Len(payload) \in Nat
         /\ r \in Seq(X) /\ Len(r) = 1 + e + z + t + Len(payload)
         /\ r[1] = (e - 1) + 4 * (z - 1) + 16 * (t - 1)
         /\ Holds(r, 1, putVarInt(id, e)) /\ Holds(r, 1 + e, putVarInt(Len(payload), z))
         /\ Holds(r, 1 + e + z, putVarInt(ts, t)) /\ Holds(r, 1 + e + z + t, payload)
<1>1. id \in Nat /\ ts \in Nat /\ Len(payload) \in Nat /\ id < pow[4] /\ ts < pow[8] /\ Len(payload) < pow[4]
  <2>1. pow[4] \in Nat /\ pow[8] \in Nat
    BY PowFacts
  <2> QED
    BY <2>1 DEF Fits
<1>2. e \in 1..4 /\ id < pow[e] /\ z \in 1..4 /\ Len(payload) < pow[z] /\ t \in 1..8 /\ ts < pow[t]
  <2>1. 4 \in 1..8 /\ 8 \in 1..8
    OBVIOUS
  <2> QED
    BY <1>1, <2>1, MinBytesFit
<1> DEFINE h == (e - 1) + 4 * (z - 1) + 16 * (t - 1)
           a == putVarInt(id, e)
           b == putVarInt(Len(payload), z)
           c == putVarInt(ts, t)
           r1 == <<h>> \o a
           r2 == r1 \o b
           r3 == r2 \o c
<1>3. r = r3 \o payload
  BY DEF writeRecord
<1>4. <<h>> \in Seq(X) /\ Len(<<h>>) = 1
  <2>1. h \in Nat
    BY <1>2, HeaderByte
  <2> HIDE DEF h
  <2> QED
    BY <2>1
<1>5. a \in Seq(X) /\ Len(a) = e /\ b \in Seq(X) /\ Len(b) = z /\ c \in Seq(X) /\ Len(c) = t
  <2>1. e \in 1..8 /\ z \in 1..8
    BY <1>2
  <2> QED
    BY <1>1, <1>2, <2>1, DigitsTyped
<1> HIDE DEF a, b, c
<1>6. r1 \in Seq(X) /\ Len(r1) = 1 + e /\ r1[1] = h /\ Holds(r1, 1, a)
  <2>1. /\ r1 \in Seq(X) /\ Len(r1) = Len(<<h>>) + Len(a) /\ \A i \in 1..Len(<<h>>) : r1[i] = <<h>>[i]
        /\ Holds(r1, Len(<<h>>), a)
    BY <1>4, <1>5, Joined, HoldsLast
  <2>2. r1[1] = <<h>>[1] /\ <<h>>[1] = h
    BY <1>4, <2>1
  <2> QED
    BY <1>4, <1>5, <2>1, <2>2
<1> HIDE DEF r1, h
<1>7. r2 \in Seq(X) /\ Len(r2) = 1 + e + z /\ r2[1] = h /\ Holds(r2, 1, a) /\ Holds(r2, 1 + e, b)
  <2>1. r2 \in Seq(X) /\ Len(r2) = Len(r1) + Len(b) /\ \A i \in 1..Len(r1) : r2[i] = r1[i]
    BY <1>5, <1>6, Joined
  <2>2. Holds(r2, 1, a) /\ Holds(r2, Len(r1), b)
    BY <1>5, <1>6, HoldsStill, HoldsLast
  <2> QED
    BY <1>2, <1>5, <1>6, <2>1, <2>2
<1> HIDE DEF r2
<1>8. /\ r3 \in Seq(X) /\ Len(r3) = 1 + e + z + t /\ r3[1] = h /\ Holds(r3, 1, a)
      /\ Holds(r3, 1 + e, b) /\ Holds(r3, 1 + e + z, c)
  <2>1. r3 \in Seq(X) /\ Len(r3) = Len(r2) + Len(c) /\ \A i \in 1..Len(r2) : r3[i] = r2[i]
    BY <1>5, <1>7, Joined
  <2>2. Holds(r3, 1, a) /\ Holds(r3, Len(r2), c)
    BY <1>5, <1>7, HoldsStill, HoldsLast
  <2>3. 1 + e \in Nat
    BY <1>2
  <2>4. Holds(r3, 1 + e, b)
    BY <1>5, <1>7, <2>3, HoldsStill
  <2> QED
    BY <1>2, <1>5, <1>7, <2>1, <2>2, <2>4
<1> HIDE DEF r3
<1>9. /\ r \in Seq(X) /\ Len(r) = 1 + e + z + t + Len(payload) /\ r[1] = h /\ Holds(r, 1, a)
      /\ Holds(r, 1 + e, b) /\ Holds(r, 1 + e + z, c) /\ Holds(r, 1 + e + z + t, payload)
  <2> DEFINE w == r3 \o payload
  <2>5. w \in Seq(X) /\ Len(w) = Len(r3) + Len(payload) /\ \A i \in 1..Len(r3) : w[i] = r3[i]
    BY <1>8, Joined
  <2>1. r \in Seq(X) /\ Len(r) = Len(r3) + Len(payload) /\ \A i \in 1..Len(r3) : r[i] = r3[i]
    BY <1>3, <2>5
  <2>7. 1 \in 1..Len(r3)
    <3>1. \A x \in 1..4, y \in 1..4, w1 \in 1..8 : 1 + x + y + w1 \in Nat \ {0}
      OBVIOUS
    <3>2. 1 + e + z + t \in Nat \ {0}
      BY <1>2, <3>1
    <3> QED
      BY <1>8, <3>2
  <2>6. r[1] = r3[1]
    BY <2>1, <2>7
  <2>2. Holds(r, 1, a) /\ Holds(r, Len(r3), payload)
    BY <1>3, <1>5, <1>8, HoldsStill, HoldsLast
  <2>3. 1 + e \in Nat /\ 1 + e + z \in Nat
    BY <1>2
  <2>4. Holds(r, 1 + e, b) /\ Holds(r, 1 + e + z, c)
    BY <1>3, <1>5, <1>8, <2>3, HoldsStill
  <2> HIDE DEF w
  <2> QED
    BY <1>1, <1>8, <2>1, <2>2, <2>4, <2>6
<1> QED
  BY <1>1, <1>2, <1>9 DEF a, b, c, h

\* A record is read back where it stands, whatever the sizes of its id, its time and
\* its payload (encoder.go:105-151).
THEOREM RecordsAreRead ==
  ASSUME NEW X, Nat \subseteq X, NEW id, NEW ts, NEW payload \in Seq(X), Fits(id, ts, payload),
         NEW s \in Seq(X), NEW n \in Nat, Holds(s, n, writeRecord(id, ts, payload))
  PROVE  /\ Record(s, n + 1) = [id |-> id, ts |-> ts, payload |-> payload,
                                next |-> n + 1 + Len(writeRecord(id, ts, payload))]
         /\ writeRecord(id, ts, payload) \in Seq(X) /\ Len(writeRecord(id, ts, payload)) \in Nat \ {0}
<1> DEFINE r == writeRecord(id, ts, payload)
           e == minBytes(id, 4)
           z == minBytes(Len(payload), 4)
           t == minBytes(ts, 8)
           h == s[n + 1]
<1>1. /\ e \in 1..4 /\ id < pow[e] /\ z \in 1..4 /\ Len(payload) < pow[z] /\ t \in 1..8 /\ ts < pow[t]
      /\ id \in Nat /\ ts \in Nat /\ Len(payload) \in Nat
      /\ r \in Seq(X) /\ Len(r) = 1 + e + z + t + Len(payload)
      /\ r[1] = (e - 1) + 4 * (z - 1) + 16 * (t - 1)
      /\ Holds(r, 1, putVarInt(id, e)) /\ Holds(r, 1 + e, putVarInt(Len(payload), z))
      /\ Holds(r, 1 + e + z, putVarInt(ts, t)) /\ Holds(r, 1 + e + z + t, payload)
  BY Layout
<1>2. Holds(s, n, r)
  OBVIOUS
<1> HIDE DEF r, e, z, t, h
<1>3. h = (e - 1) + 4 * (z - 1) + 16 * (t - 1)
  <2>1. 1 \in 1..Len(r)
    BY <1>1
  <2> QED
    BY <1>1, <1>2, <2>1 DEF Holds, h
<1>4. 1 + (h % 4) = e /\ 1 + ((h \div 4) % 4) = z /\ 1 + ((h \div 16) % 8) = t
  <2>1. e \in 1..4 /\ z \in 1..4 /\ t \in 1..8
    BY <1>1
  <2> DEFINE k == (e - 1) + 4 * (z - 1) + 16 * (t - 1)
  <2>2. 1 + (k % 4) = e /\ 1 + ((k \div 4) % 4) = z /\ 1 + ((k \div 16) % 8) = t
    BY <2>1, HeaderByte
  <2> QED
    BY <1>3, <2>2
<1>5. ASSUME NEW w \in 1..8, NEW v \in Nat, v < pow[w], NEW k \in Nat, Holds(r, k, putVarInt(v, w))
      PROVE  Number(s, n + 1 + k, w) = v
  <2>1. putVarInt(v, w) \in Seq(X) /\ Len(putVarInt(v, w)) = w
    BY DigitsTyped
  <2>2. Holds(s, n + k, putVarInt(v, w))
    BY <1>1, <1>2, <1>5, <2>1, HoldsPart
  <2>3. \A i \in 1..w : s[n + 1 + k + i - 1] = putVarInt(v, w)[i]
    <3>1. \A i \in 1..w : n + 1 + k + i - 1 = n + k + i
      OBVIOUS
    <3> QED
      BY <2>1, <2>2, <3>1 DEF Holds
  <2>4. n + 1 + k \in Nat
    OBVIOUS
  <2> QED
    BY <1>5, <2>3, <2>4, NumbersAreRead
<1>6. /\ Number(s, n + 1 + 1, e) = id
      /\ Number(s, n + 1 + (1 + e), z) = Len(payload)
      /\ Number(s, n + 1 + (1 + e + z), t) = ts
  <2>1. e \in 1..8 /\ z \in 1..8 /\ 1 \in Nat /\ 1 + e \in Nat /\ 1 + e + z \in Nat
    BY <1>1
  <2> QED
    BY <1>1, <1>5, <2>1
<1> DEFINE body == n + 1 + 1 + e + z + t
<1>7. /\ n + 1 + (1 + e) = n + 1 + 1 + e /\ n + 1 + (1 + e + z) = n + 1 + 1 + e + z
      /\ body = n + (1 + e + z + t) + 1 /\ body + Len(payload) = n + 1 + Len(r) /\ Len(r) \in Nat \ {0}
  BY <1>1
<1>8. SubSeq(s, body, body + Len(payload) - 1) = payload
  <2>1. Holds(s, n + (1 + e + z + t), payload) /\ n + (1 + e + z + t) \in Nat
    BY <1>1, <1>2, HoldsPart
  <2> DEFINE m == n + (1 + e + z + t)
  <2> HIDE DEF m
  <2>2. SubSeq(s, m + 1, m + Len(payload)) = payload
    <3>1. m \in Nat /\ Len(payload) \in Nat /\ m + Len(payload) <= Len(s) /\ Len(s) \in Nat
      BY <2>1 DEF Holds, m
    <3>2. \A i \in 1..Len(payload) : s[m + i] = payload[i]
      BY <2>1 DEF Holds, m
    <3> DEFINE sub == SubSeq(s, m + 1, m + Len(payload))
    <3>3. sub \in Seq(X) /\ Len(sub) = Len(payload) /\ \A i \in 1..Len(payload) : sub[i] = s[m + i]
      BY <3>1, SubSeqProperties
    <3> QED
      BY <3>2, <3>3, SeqEqual
  <2>3. body = m + 1 /\ body + Len(payload) - 1 = m + Len(payload)
    BY <1>1, <2>1 DEF m
  <2> QED
    BY <2>2, <2>3
<1> QED
  BY <1>1, <1>4, <1>6, <1>7, <1>8 DEF Record, h, r

-----------------------------------------------------------------------------
(* A stream of records *)

\* upTo[i] is what the first i pieces make.
Prefixes(upTo, X, pieces) ==
  /\ upTo \in [0..Len(pieces) -> Seq(X)] /\ upTo[0] = <<>>
  /\ \A i \in 1..Len(pieces) : upTo[i] = upTo[i - 1] \o pieces[i]
  /\ upTo[Len(pieces)] = Concat(pieces)

\* The recursive definition of Concat has a solution.
LEMMA ConcatPrefixes ==
  ASSUME NEW X, NEW pieces \in Seq(Seq(X))
  PROVE  \E upTo : Prefixes(upTo, X, pieces)
<1> DEFINE N == Len(pieces)
           Y == Seq(X)
           step == [k \in Nat |-> [x \in Y |-> IF k < N THEN x \o pieces[k + 1] ELSE x]]
           Is(g) == g = [i \in 0..N |-> IF i = 0 THEN <<>> ELSE g[i - 1] \o pieces[i]]
<1>1. N \in Nat /\ <<>> \in Y /\ \A i \in 1..N : pieces[i] \in Y
  OBVIOUS
<1>2. \A x, y \in Y : x \o y \in Y
  OBVIOUS
<1> HIDE DEF N, Y
<1>3. step \in [Nat -> [Y -> Y]]
  <2>1. \A k \in Nat, x \in Y : k < N => k + 1 \in 1..N
    BY <1>1
  <2>2. \A k \in Nat, x \in Y : (IF k < N THEN x \o pieces[k + 1] ELSE x) \in Y
    BY <1>1, <1>2, <2>1
  <2> QED
    BY <2>2
<1>4. \A k \in Nat, x \in Y : k < N => step[k][x] = x \o pieces[k + 1]
  OBVIOUS
<1> HIDE DEF step
<1>5. PICK f : Runs(f, Y, <<>>, step)
  BY <1>1, <1>3, Recursion
<1>6. f[0] = <<>> /\ \A k \in Nat : f[k] \in Y /\ (k < N => f[k + 1] = f[k] \o pieces[k + 1])
  BY <1>4, <1>5 DEF Runs
<1> DEFINE upTo == [i \in 0..N |-> f[i]]
<1>7. \A i \in 0..N : i # 0 => i - 1 \in 0..N /\ f[i] = f[i - 1] \o pieces[i]
  <2>1. \A i \in 0..N : i # 0 => i \in 1..N /\ i - 1 \in 0..N
    BY <1>1
  <2>2. ASSUME NEW i \in 1..N PROVE f[i] = f[i - 1] \o pieces[i]
    <3> DEFINE j == i - 1
    <3>1. j \in Nat /\ j < N /\ j + 1 = i
      BY <1>1
    <3> HIDE DEF j
    <3>2. f[j + 1] = f[j] \o pieces[j + 1]
      BY <1>6, <3>1
    <3> QED
      BY <3>1, <3>2 DEF j
  <2> QED
    BY <2>1, <2>2
<1>8. Is(upTo)
  BY <1>6, <1>7
<1>9. \A g : Is(g) => g \in [0..N -> Y] /\ g[0] = <<>> /\ \A i \in 1..N : g[i] = g[i - 1] \o pieces[i]
  <2> SUFFICES ASSUME NEW g, Is(g)
               PROVE  g \in [0..N -> Y] /\ g[0] = <<>> /\ \A i \in 1..N : g[i] = g[i - 1] \o pieces[i]
    OBVIOUS
  <2>1. g[0] = <<>> /\ \A i \in 1..N : g[i] = g[i - 1] \o pieces[i]
    BY <1>1
  <2>6. g = [i \in 0..N |-> g[i]]
    OBVIOUS
  <2> HIDE DEF Is, upTo
  <2> DEFINE T == {i \in Nat : i <= N => g[i] \in Y}
  <2>2. 0 \in T
    BY <1>1, <2>1
  <2>3. \A i \in T : i + 1 \in T
    <3> SUFFICES ASSUME NEW i \in T, i + 1 <= N PROVE g[i + 1] \in Y
      OBVIOUS
    <3> DEFINE k == i + 1
    <3>1. k \in 1..N /\ k - 1 = i /\ g[i] \in Y
      BY <1>1
    <3> HIDE DEF k
    <3>2. g[k] = g[k - 1] \o pieces[k] /\ pieces[k] \in Y
      BY <1>1, <2>1, <3>1
    <3>3. g[k] \in Y
      BY <1>2, <3>1, <3>2
    <3> QED
      BY <3>3 DEF k
  <2>4. T = Nat
    BY <2>2, <2>3, Induction
  <2>5. \A i \in 0..N : g[i] \in Y
    BY <1>1, <2>4
  <2> QED
    BY <2>1, <2>5, <2>6
<1> DEFINE c == CHOOSE g : Is(g)
<1>10. Is(c)
  BY <1>8
<1>11. Concat(pieces) = c[N]
  BY DEF Concat, N
<1> HIDE DEF c, Is
<1>12. Prefixes(c, X, pieces)
  BY <1>9, <1>10, <1>11 DEF Prefixes, N, Y
<1> QED
  BY <1>12

\* Every piece stands in the whole, behind what comes before it.
LEMMA ConcatHolds ==
  ASSUME NEW X, NEW pieces \in Seq(Seq(X)), NEW upTo, Prefixes(upTo, X, pieces)
  PROVE  /\ Concat(pieces) \in Seq(X)
         /\ \A i \in 1..Len(pieces) :
              /\ Len(upTo[i]) = Len(upTo[i - 1]) + Len(pieces[i])
              /\ Holds(Concat(pieces), Len(upTo[i - 1]), pieces[i])
<1>1. Len(pieces) \in Nat /\ \A i \in 1..Len(pieces) : i - 1 \in 0..Len(pieces) /\ i \in 0..Len(pieces)
  OBVIOUS
<1>2. /\ \A i \in 0..Len(pieces) : upTo[i] \in Seq(X) /\ Len(upTo[i]) \in Nat
      /\ \A i \in 1..Len(pieces) : pieces[i] \in Seq(X) /\ upTo[i] = upTo[i - 1] \o pieces[i]
      /\ upTo[Len(pieces)] = Concat(pieces)
  <2>1. \A i \in 0..Len(pieces) : upTo[i] \in Seq(X)
    BY DEF Prefixes
  <2> QED
    BY <2>1 DEF Prefixes
<1>3. Concat(pieces) \in Seq(X)
  BY <1>1, <1>2
<1>4. ASSUME NEW i \in 1..Len(pieces)
      PROVE  /\ Len(upTo[i]) = Len(upTo[i - 1]) + Len(pieces[i])
             /\ Holds(Concat(pieces), Len(upTo[i - 1]), pieces[i])
  <2>1. /\ upTo[i - 1] \in Seq(X) /\ pieces[i] \in Seq(X) /\ upTo[i] = upTo[i - 1] \o pieces[i]
        /\ Len(upTo[i - 1]) \in Nat
    BY <1>1, <1>2
  <2>2. Len(upTo[i]) = Len(upTo[i - 1]) + Len(pieces[i])
    BY <2>1, Joined
  <2> DEFINE n == Len(upTo[i - 1])
             T == {j \in Nat : i <= j /\ j <= Len(pieces) => Holds(upTo[j], n, pieces[i])}
  <2>3. 0 \in T
    OBVIOUS
  <2>4. \A j \in T : j + 1 \in T
    <3> SUFFICES ASSUME NEW j \in T, i <= j + 1, j + 1 <= Len(pieces)
                 PROVE  Holds(upTo[j + 1], n, pieces[i])
      OBVIOUS
    <3>1. CASE i = j + 1
      BY <2>1, <3>1, HoldsLast
    <3>2. CASE i # j + 1
      <4>1. Holds(upTo[j], n, pieces[i])
        BY <3>2, <1>1
      <4> DEFINE k == j + 1
      <4>2. k \in 1..Len(pieces) /\ k - 1 = j /\ j \in 0..Len(pieces)
        BY <1>1
      <4> HIDE DEF k
      <4>4. upTo[k] = upTo[k - 1] \o pieces[k] /\ pieces[k] \in Seq(X)
        BY <1>2, <4>2
      <4>3. upTo[j] \in Seq(X)
        BY <1>2, <4>2
      <4>5. Holds(upTo[k], n, pieces[i])
        BY <2>1, <4>1, <4>2, <4>3, <4>4, HoldsStill
      <4> QED
        BY <4>5 DEF k
    <3> QED
      BY <3>1, <3>2
  <2>5. T = Nat
    BY <2>3, <2>4, Induction
  <2>6. Holds(upTo[Len(pieces)], n, pieces[i])
    BY <1>1, <2>5
  <2> QED
    BY <1>2, <2>2, <2>6
<1> QED
  BY <1>3, <1>4

\* Cuts: where the records of s begin, if they are read one after the other.
Cuts(g, n, s) == g = [k \in 0..n |-> IF k = 0 THEN 2 ELSE Record(s, g[k - 1]).next]

\* They are defined whatever s is.
LEMMA CutsExist ==
  ASSUME NEW s, NEW n \in Nat
  PROVE  \E g : Cuts(g, n, s)
<1> DEFINE T == {m \in Nat : \E g : Cuts(g, m, s)}
<1>1. 0 \in T
  <2>1. Cuts([k \in 0..0 |-> 2], 0, s)
    BY DEF Cuts
  <2> QED
    BY <2>1
<1>2. \A m \in T : m + 1 \in T
  <2> SUFFICES ASSUME NEW m \in Nat, NEW g, Cuts(g, m, s) PROVE \E h : Cuts(h, m + 1, s)
    OBVIOUS
  <2> DEFINE h == [k \in 0..m + 1 |-> IF k <= m THEN g[k] ELSE Record(s, g[m]).next]
  <2>1. g[0] = 2 /\ \A k \in 1..m : g[k] = Record(s, g[k - 1]).next
    BY DEF Cuts
  <2>2. \A k \in 0..m + 1 : h[k] = IF k = 0 THEN 2 ELSE Record(s, h[k - 1]).next
    <3> SUFFICES ASSUME NEW k \in 0..m + 1, k # 0 PROVE h[k] = Record(s, h[k - 1]).next
      BY <2>1
    <3>1. k - 1 \in 0..m /\ k - 1 \in 0..m + 1
      OBVIOUS
    <3>2. h[k - 1] = g[k - 1]
      BY <3>1
    <3>3. CASE k <= m
      BY <2>1, <3>2, <3>3
    <3>4. CASE ~ (k <= m)
      BY <3>2, <3>4
    <3> QED
      BY <3>3, <3>4
  <2> DEFINE hh == [k \in 0..m + 1 |-> IF k = 0 THEN 2 ELSE Record(s, h[k - 1]).next]
  <2>3. h = hh
    BY <2>2
  <2>4. Cuts(h, m + 1, s)
    BY <2>3 DEF Cuts
  <2> QED
    BY <2>4
<1>3. T = Nat
  BY <1>1, <1>2, Induction
<1> QED
  BY <1>3

\* The record that begins behind a bytes of the stream ends behind b.
LEMMA NextRecord ==
  ASSUME NEW X, Nat \subseteq X, NEW id, NEW ts, NEW payload \in Seq(X), Fits(id, ts, payload),
         NEW s \in Seq(X), NEW a \in Nat, Holds(s, 1 + a, writeRecord(id, ts, payload))
  PROVE  /\ Record(s, 2 + a) = [id |-> id, ts |-> ts, payload |-> payload,
                                 next |-> 2 + (a + Len(writeRecord(id, ts, payload)))]
         /\ a < a + Len(writeRecord(id, ts, payload))
<1> DEFINE r == writeRecord(id, ts, payload)
           n == 1 + a
<1>1. n \in Nat /\ n + 1 = 2 + a
  OBVIOUS
<1> HIDE DEF n
<1>2. Holds(s, n, r)
  BY DEF n
<1>3. /\ Record(s, n + 1) = [id |-> id, ts |-> ts, payload |-> payload, next |-> n + 1 + Len(r)]
      /\ Len(r) \in Nat \ {0}
  BY <1>1, <1>2, RecordsAreRead
<1> HIDE DEF r
<1>4. n + 1 + Len(r) = 2 + (a + Len(r)) /\ a < a + Len(r)
  BY <1>1, <1>3
<1> QED
  BY <1>1, <1>3, <1>4 DEF r

\* The pieces are the records rs.
AreRecords(pieces, rs, X) ==
  \A i \in 1..Len(pieces) :
    /\ rs[i].payload \in Seq(X) /\ Fits(rs[i].id, rs[i].ts, rs[i].payload)
    /\ pieces[i] = writeRecord(rs[i].id, rs[i].ts, rs[i].payload)

\* The n records read are what rs says.
AreReadAs(records, rs, n) ==
  /\ Len(records) = n /\ \E Z : records \in Seq(Z)
  /\ \A i \in 1..n : /\ records[i].id = rs[i].id /\ records[i].ts = rs[i].ts
                     /\ records[i].payload = rs[i].payload

LEMMA FunctionIsSeq ==
  ASSUME NEW n \in Nat, NEW Z, NEW f \in [1..n -> Z]
  PROVE  f \in Seq(Z) /\ Len(f) = n
<1>1. f \in Seq(Z)
  BY SeqDef
<1> QED
  BY <1>1

\* A stream of any records is read as the records that were written, one for one
\* and in their order (encoder.go:31-103, convert.go:98-176).
THEOREM StreamsAreRead ==
  ASSUME NEW X, Nat \subseteq X, NEW h \in X, NEW pieces \in Seq(Seq(X)), NEW rs, AreRecords(pieces, rs, X)
  PROVE  AreReadAs(Records(<<h>> \o Concat(pieces)), rs, Len(pieces))
<1> DEFINE N == Len(pieces)
           s == <<h>> \o Concat(pieces)
<1>1. PICK upTo : Prefixes(upTo, X, pieces)
  BY ConcatPrefixes
<1>2. /\ Concat(pieces) \in Seq(X)
      /\ \A i \in 1..N : /\ Len(upTo[i]) = Len(upTo[i - 1]) + Len(pieces[i])
                         /\ Holds(Concat(pieces), Len(upTo[i - 1]), pieces[i])
  BY <1>1, ConcatHolds
<1>3. N \in Nat /\ upTo[0] = <<>> /\ upTo[N] = Concat(pieces) /\ \A i \in 0..N : Len(upTo[i]) \in Nat
  <2>1. \A i \in 0..N : upTo[i] \in Seq(X)
    BY <1>1 DEF Prefixes
  <2> QED
    BY <1>1, <2>1 DEF Prefixes
<1>4. s \in Seq(X) /\ Len(s) = 1 + Len(upTo[N]) /\ Holds(s, 1, Concat(pieces))
  <2>1. <<h>> \in Seq(X) /\ Len(<<h>>) = 1
    OBVIOUS
  <2>2. /\ <<h>> \o Concat(pieces) \in Seq(X)
        /\ Len(<<h>> \o Concat(pieces)) = Len(<<h>>) + Len(Concat(pieces))
    BY <1>2, <2>1, Joined
  <2>3. Holds(<<h>> \o Concat(pieces), Len(<<h>>), Concat(pieces))
    BY <1>2, <2>1, HoldsLast
  <2> QED
    BY <1>3, <2>1, <2>2, <2>3
<1> HIDE DEF N, s
<1>5. ASSUME NEW i \in 1..N
      PROVE  /\ Record(s, 2 + Len(upTo[i - 1])) =
                  [id |-> rs[i].id, ts |-> rs[i].ts, payload |-> rs[i].payload, next |-> 2 + Len(upTo[i])]
             /\ Len(upTo[i - 1]) < Len(upTo[i])
  <2>1. /\ pieces[i] \in Seq(X) /\ pieces[i] = writeRecord(rs[i].id, rs[i].ts, rs[i].payload)
        /\ rs[i].payload \in Seq(X) /\ Fits(rs[i].id, rs[i].ts, rs[i].payload)
    BY DEF N, AreRecords
  <2>2. i - 1 \in 0..N /\ Len(upTo[i - 1]) \in Nat
    BY <1>3
  <2> DEFINE a == Len(upTo[i - 1])
             b == Len(upTo[i])
             id == rs[i].id
             ts == rs[i].ts
             payload == rs[i].payload
  <2>3. a \in Nat /\ b = a + Len(writeRecord(id, ts, payload)) /\ s \in Seq(X)
    BY <1>2, <1>4, <2>1, <2>2
  <2>4. Holds(s, 1 + a, writeRecord(id, ts, payload))
    BY <1>2, <1>4, <2>1, <2>2, HoldsPart
  <2> HIDE DEF a, b, id, ts, payload
  <2>5. /\ Record(s, 2 + a) = [id |-> id, ts |-> ts, payload |-> payload, next |-> 2 + b]
        /\ a < b
    <3>1. payload \in Seq(X) /\ Fits(id, ts, payload)
      BY <2>1 DEF id, ts, payload
    <3>2. /\ Record(s, 2 + a) = [id |-> id, ts |-> ts, payload |-> payload,
                                  next |-> 2 + (a + Len(writeRecord(id, ts, payload)))]
          /\ a < a + Len(writeRecord(id, ts, payload))
      BY <2>3, <2>4, <3>1, NextRecord
    <3> QED
      BY <2>3, <3>2
  <2> QED
    BY <2>5 DEF a, b, id, ts, payload
<1>6. \A k \in 0..N : Len(upTo[k]) >= k /\ (k # N => Len(upTo[k]) < Len(upTo[N]))
  <2> DEFINE T == {k \in Nat : k <= N => Len(upTo[k]) >= k}
             U == {d \in Nat : d < N => Len(upTo[N - (d + 1)]) < Len(upTo[N])}
  <2>1. 0 \in T
    BY <1>3
  <2>2. \A k \in T : k + 1 \in T
    <3> SUFFICES ASSUME NEW k \in T, k + 1 <= N PROVE Len(upTo[k + 1]) >= k + 1
      OBVIOUS
    <3> DEFINE n == k + 1
    <3>1. n \in 1..N /\ n - 1 = k /\ k \in 0..N /\ n \in 0..N /\ Len(upTo[k]) >= k
      BY <1>3
    <3> HIDE DEF n
    <3>2. Len(upTo[n - 1]) < Len(upTo[n])
      BY <1>5, <3>1
    <3>3. Len(upTo[k]) \in Nat /\ Len(upTo[n]) \in Nat
      BY <1>3, <3>1
    <3>4. Len(upTo[n]) >= k + 1
      BY <3>1, <3>2, <3>3
    <3> QED
      BY <3>4 DEF n
  <2>3. T = Nat
    BY <2>1, <2>2, Induction
  <2>4. 0 \in U
    <3> SUFFICES ASSUME 0 < N PROVE Len(upTo[N - (0 + 1)]) < Len(upTo[N])
      OBVIOUS
    <3>1. N \in 1..N /\ N - (0 + 1) = N - 1
      BY <1>3
    <3> QED
      BY <1>5, <3>1
  <2>5. \A d \in U : d + 1 \in U
    <3> SUFFICES ASSUME NEW d \in U, d + 1 < N PROVE Len(upTo[N - ((d + 1) + 1)]) < Len(upTo[N])
      OBVIOUS
    <3>1. N - (d + 1) \in 1..N /\ N - (d + 1) - 1 = N - ((d + 1) + 1) /\ N - ((d + 1) + 1) \in 0..N
          /\ N - (d + 1) \in 0..N /\ N \in 0..N
      BY <1>3
    <3>2. Len(upTo[N - ((d + 1) + 1)]) < Len(upTo[N - (d + 1)])
      BY <1>5, <3>1
    <3>3. Len(upTo[N - (d + 1)]) < Len(upTo[N])
      BY <1>3
    <3> QED
      BY <1>3, <3>1, <3>2, <3>3
  <2>6. U = Nat
    BY <2>4, <2>5, Induction
  <2>7. \A k \in 0..N : k # N => (N - k) - 1 \in Nat /\ (N - k) - 1 < N /\ N - ((N - k) - 1 + 1) = k
    BY <1>3
  <2>8. ASSUME NEW k \in 0..N, k # N PROVE Len(upTo[k]) < Len(upTo[N])
    <3> DEFINE d == (N - k) - 1
    <3>1. d \in Nat /\ d < N /\ N - (d + 1) = k
      BY <2>7, <2>8
    <3> HIDE DEF d
    <3>2. Len(upTo[N - (d + 1)]) < Len(upTo[N])
      BY <2>6, <3>1
    <3> QED
      BY <3>1, <3>2
  <2>9. \A k \in 0..N : k \in Nat /\ k <= N
    BY <1>3
  <2> QED
    BY <2>3, <2>8, <2>9
<1> DEFINE Is(g) == Cuts(g, Len(s), s)
           at == CHOOSE g : Is(g)
<1>7. Len(s) \in Nat /\ N <= Len(s) /\ Is(at)
  <2>1. Len(s) \in Nat /\ N <= Len(s)
    BY <1>3, <1>4, <1>6
  <2> QED
    BY <2>1, CutsExist
<1>8. at[0] = 2 /\ \A k \in 1..Len(s) : at[k] = Record(s, at[k - 1]).next
  <2> HIDE DEF at
  <2> QED
    BY <1>7 DEF Cuts
<1> HIDE DEF at
<1>9. \A k \in 0..N : at[k] = 2 + Len(upTo[k])
  <2> DEFINE T == {k \in Nat : k <= N => at[k] = 2 + Len(upTo[k])}
  <2>1. 0 \in T
    BY <1>3, <1>8
  <2>2. \A k \in T : k + 1 \in T
    <3> SUFFICES ASSUME NEW k \in T, k + 1 <= N PROVE at[k + 1] = 2 + Len(upTo[k + 1])
      OBVIOUS
    <3> DEFINE n == k + 1
    <3>1. n \in 1..N /\ n - 1 = k /\ n \in 1..Len(s)
      BY <1>3, <1>7
    <3>3. at[k] = 2 + Len(upTo[k])
      BY <1>3, <3>1
    <3> HIDE DEF n
    <3>2. at[n] = Record(s, at[n - 1]).next
      BY <1>8, <3>1
    <3>7. Record(s, 2 + Len(upTo[n - 1])) =
            [id |-> rs[n].id, ts |-> rs[n].ts, payload |-> rs[n].payload, next |-> 2 + Len(upTo[n])]
      BY <1>5, <3>1
    <3>4. Record(s, 2 + Len(upTo[n - 1])).next = 2 + Len(upTo[n])
      BY <3>7
    <3>6. at[n] = Record(s, 2 + Len(upTo[n - 1])).next
      BY <3>1, <3>2, <3>3
    <3>5. at[n] = 2 + Len(upTo[n])
      BY <3>4, <3>6
    <3> QED
      BY <3>5 DEF n
  <2>3. T = Nat
    BY <2>1, <2>2, Induction
  <2> QED
    BY <2>3
<1> DEFINE Ends(n) == at[n] = Len(s) + 1 /\ \A m \in 0..n - 1 : at[m] # Len(s) + 1
           count == CHOOSE n \in 0..Len(s) : Ends(n)
<1>10. N \in 0..Len(s) /\ Ends(N)
  <2>1. \A m \in 0..N - 1 : m \in 0..N /\ m # N
    BY <1>3
  <2>2. N \in 0..N
    BY <1>3
  <2>3. at[N] = Len(s) + 1
    BY <1>3, <1>4, <1>9, <2>2
  <2>4. \A m \in 0..N - 1 : at[m] # Len(s) + 1
    <3> SUFFICES ASSUME NEW m \in 0..N - 1 PROVE at[m] # Len(s) + 1
      OBVIOUS
    <3>1. at[m] = 2 + Len(upTo[m]) /\ Len(upTo[m]) < Len(upTo[N]) /\ Len(upTo[m]) \in Nat /\ Len(upTo[N]) \in Nat
      BY <1>3, <1>6, <1>9, <2>1, <2>2
    <3> QED
      BY <1>4, <3>1
  <2> QED
    BY <1>3, <1>7, <2>3, <2>4
<1>11. \A n \in 0..Len(s) : Ends(n) => n = N
  <2> SUFFICES ASSUME NEW n \in 0..Len(s), Ends(n), n # N PROVE FALSE
    OBVIOUS
  <2>1. CASE n < N
    <3>1. n \in 0..N - 1
      BY <1>3, <2>1
    <3> QED
      BY <1>10, <3>1
  <2>2. CASE N < n
    <3>1. N \in 0..n - 1
      BY <1>3, <2>2
    <3> QED
      BY <1>10, <3>1
  <2> QED
    BY <1>3, <2>1, <2>2
<1>12. count = N
  BY <1>10, <1>11
<1>13. Records(s) = [n \in 1..count |-> Record(s, at[n - 1])]
  BY DEF Records, at, Cuts
<1> HIDE DEF count
<1>14. \A n \in 1..N : n - 1 \in 0..N /\ at[n - 1] = 2 + Len(upTo[n - 1])
  BY <1>3, <1>9
<1>15. \A i \in 1..N : /\ Records(s)[i].id = rs[i].id /\ Records(s)[i].ts = rs[i].ts
                       /\ Records(s)[i].payload = rs[i].payload
  <2> SUFFICES ASSUME NEW i \in 1..N
               PROVE  /\ Records(s)[i].id = rs[i].id /\ Records(s)[i].ts = rs[i].ts
                      /\ Records(s)[i].payload = rs[i].payload
    OBVIOUS
  <2>1. Records(s)[i] = Record(s, at[i - 1])
    BY <1>12, <1>13
  <2>2. at[i - 1] = 2 + Len(upTo[i - 1])
    BY <1>14
  <2>3. Record(s, 2 + Len(upTo[i - 1])) =
          [id |-> rs[i].id, ts |-> rs[i].ts, payload |-> rs[i].payload, next |-> 2 + Len(upTo[i])]
    BY <1>5
  <2> QED
    BY <2>1, <2>2, <2>3
<1>16. Len(Records(s)) = N /\ \E Z : Records(s) \in Seq(Z)
  <2> DEFINE Z == {Records(s)[i] : i \in 1..N}
  <2>1. Records(s) \in [1..N -> Z]
    BY <1>12, <1>13
  <2> HIDE DEF Z
  <2>2. N \in Nat
    BY <1>3
  <2>3. Records(s) \in Seq(Z) /\ Len(Records(s)) = N
    BY <2>1, <2>2, FunctionIsSeq
  <2> QED
    BY <2>3
<1> QED
  BY <1>15, <1>16 DEF N, s, AreReadAs

\* Only takes elements at the places it is given.
LEMMA OnlyTyped ==
  ASSUME NEW X, NEW s \in Seq(X), NEW places
  PROVE  Only(s, places) \in Seq({s[i] : i \in (DOMAIN s) \cap places})
<1> DEFINE Y == {s[i] : i \in (DOMAIN s) \cap places}
           pieces == [i \in DOMAIN s |-> IF i \in places THEN <<s[i]>> ELSE <<>>]
<1>1. pieces \in Seq(Seq(Y))
  <2>1. \A i \in DOMAIN s : pieces[i] \in Seq(Y)
    OBVIOUS
  <2>2. pieces \in [1..Len(s) -> Seq(Y)] /\ Len(s) \in Nat
    BY <2>1
  <2> QED
    BY <2>2
<1> HIDE DEF Y
<1>2. Concat(pieces) \in Seq(Y)
  BY <1>1, ConcatPrefixes, ConcatHolds
<1> QED
  BY <1>2 DEF Only, Y

\* How many of the first k elements stand behind n and up to m.
Within(n, m, k) == IF k <= n THEN 0 ELSE IF k <= m THEN k - n ELSE m - n

\* The places are those behind n, up to m.
Between(places, s, n, m) ==
  n \in Nat /\ m \in Nat /\ n <= m /\ m <= Len(s) /\ \A i \in DOMAIN s : i \in places <=> n < i /\ i <= m
IsSection(t, s, n, m) == DOMAIN t = 1..m - n /\ \A i \in 1..m - n : t[i] = s[n + i]

\* The elements at the places behind n, up to m.
LEMMA OnlyRange ==
  ASSUME NEW X, NEW s \in Seq(X), NEW n, NEW m, NEW places, Between(places, s, n, m)
  PROVE  IsSection(Only(s, places), s, n, m)
<1> SUFFICES ASSUME n \in Nat, m \in Nat, n <= m, m <= Len(s),
                    \A i \in DOMAIN s : i \in places <=> n < i /\ i <= m
             PROVE  /\ DOMAIN Only(s, places) = 1..m - n
                    /\ \A i \in 1..m - n : Only(s, places)[i] = s[n + i]
  BY DEF Between, IsSection
<1> DEFINE pieces == [i \in DOMAIN s |-> IF i \in places THEN <<s[i]>> ELSE <<>>]
           Is(t, k) == t \in Seq(X) /\ Len(t) = Within(n, m, k) /\ \A i \in 1..Within(n, m, k) : t[i] = s[n + i]
<1>1. pieces \in Seq(Seq(X)) /\ Len(pieces) = Len(s) /\ Len(s) \in Nat
  <2>1. \A i \in DOMAIN s : pieces[i] \in Seq(X)
    OBVIOUS
  <2>2. pieces \in [1..Len(s) -> Seq(X)] /\ Len(s) \in Nat
    BY <2>1
  <2> QED
    BY <2>2
<1>2. \A i \in 1..Len(s) : pieces[i] = IF n < i /\ i <= m THEN <<s[i]>> ELSE <<>>
  OBVIOUS
<1>3. Only(s, places) = Concat(pieces)
  BY DEF Only
<1> HIDE DEF pieces
<1>4. PICK upTo : Prefixes(upTo, X, pieces)
  BY <1>1, ConcatPrefixes
<1>5. upTo[0] = <<>> /\ upTo[Len(s)] = Concat(pieces) /\ \A i \in 1..Len(s) : upTo[i] = upTo[i - 1] \o pieces[i]
  BY <1>1, <1>4 DEF Prefixes
<1> DEFINE T == {k \in Nat : k <= Len(s) => Is(upTo[k], k)}
<1>6. 0 \in T
  <2>1. Within(n, m, 0) = 0
    BY DEF Within
  <2>2. Is(<<>>, 0)
    BY <2>1
  <2> HIDE DEF Is
  <2> QED
    BY <1>5, <2>2
<1>7. \A k \in T : k + 1 \in T
  <2> HIDE DEF Is
  <2> SUFFICES ASSUME NEW k \in T, k + 1 <= Len(s) PROVE Is(upTo[k + 1], k + 1)
    OBVIOUS
  <2> DEFINE j == k + 1
             t == upTo[k]
  <2>1. j \in 1..Len(s) /\ j - 1 = k /\ Is(t, k)
    BY <1>1
  <2>2. k \in Nat /\ j = k + 1
    OBVIOUS
  <2> HIDE DEF j, t
  <2>3. upTo[j] = t \o pieces[j] /\ s[j] \in X
    <3>1. upTo[j] = upTo[j - 1] \o pieces[j]
      BY <1>5, <2>1
    <3>2. s[j] \in X
      BY <2>1
    <3> QED
      BY <2>1, <3>1, <3>2 DEF t
  <2>4. CASE n < j /\ j <= m
    <3>1. Within(n, m, j) = Within(n, m, k) + 1 /\ n + Within(n, m, j) = j /\ Within(n, m, k) \in Nat
      BY <2>2, <2>4 DEF Within
    <3>2. upTo[j] = t \o <<s[j]>>
      BY <1>2, <2>1, <2>3, <2>4
    <3>3. t \in Seq(X) /\ Len(t) = Within(n, m, k) /\ \A i \in 1..Len(t) : t[i] = s[n + i]
      BY <2>1 DEF Is
    <3>4. t \o <<s[j]>> \in Seq(X) /\ Len(t \o <<s[j]>>) = Len(t) + 1
          /\ (t \o <<s[j]>>)[Len(t) + 1] = s[j] /\ \A i \in 1..Len(t) : (t \o <<s[j]>>)[i] = t[i]
      <4>1. <<s[j]>> \in Seq(X) /\ Len(<<s[j]>>) = 1 /\ <<s[j]>>[1] = s[j]
        BY <2>3
      <4> QED
        BY <3>3, <4>1, Joined
    <3>5. \A i \in 1..Within(n, m, j) : i = Len(t) + 1 \/ i \in 1..Len(t)
      BY <3>1, <3>3
    <3>6. \A i \in 1..Within(n, m, j) : upTo[j][i] = s[n + i]
      BY <3>1, <3>2, <3>3, <3>4, <3>5
    <3> QED
      BY <3>1, <3>2, <3>3, <3>4, <3>6 DEF Is, j
  <2>5. CASE ~ (n < j /\ j <= m)
    <3>1. Within(n, m, j) = Within(n, m, k)
      BY <2>2, <2>5 DEF Within
    <3>2. upTo[j] = t
      <4>1. pieces[j] = <<>>
        BY <1>2, <2>1, <2>5
      <4>2. t \in Seq(X)
        BY <2>1 DEF Is
      <4> QED
        BY <2>3, <4>1, <4>2, ConcatEmptySeq
    <3> QED
      BY <2>1, <3>1, <3>2 DEF Is, j
  <2> QED
    BY <2>4, <2>5
<1>8. T = Nat
  BY <1>6, <1>7, Induction
<1>9. Is(Concat(pieces), Len(s)) /\ Within(n, m, Len(s)) = m - n
  <2> HIDE DEF Is
  <2>1. Is(upTo[Len(s)], Len(s))
    BY <1>1, <1>8
  <2> QED
    BY <1>1, <1>5, <2>1 DEF Within
<1> QED
  BY <1>3, <1>9

\* What the records of a stream say, and their bytes.
Descriptions(X) == {d \in [id : Nat, ts : Nat, payload : Seq(X)] : Fits(d.id, d.ts, d.payload)}
Written(ds) == [i \in DOMAIN ds |-> writeRecord(ds[i].id, ds[i].ts, ds[i].payload)]

\* They are bytes.
LEMMA WrittenTyped ==
  ASSUME NEW X, Nat \subseteq X, NEW ds \in Seq(Descriptions(X))
  PROVE  Written(ds) \in Seq(Seq(X)) /\ Len(Written(ds)) = Len(ds) /\ Len(ds) \in Nat
<1>1. ASSUME NEW i \in DOMAIN ds
      PROVE  writeRecord(ds[i].id, ds[i].ts, ds[i].payload) \in Seq(X)
  <2>1. ds[i] \in Descriptions(X)
    OBVIOUS
  <2> DEFINE id == ds[i].id
             ts == ds[i].ts
             payload == ds[i].payload
  <2>2. payload \in Seq(X) /\ Fits(id, ts, payload)
    BY <2>1 DEF Descriptions
  <2> HIDE DEF id, ts, payload
  <2>3. writeRecord(id, ts, payload) \in Seq(X)
    BY <2>2, Layout
  <2> QED
    BY <2>3 DEF id, ts, payload
<1>2. DOMAIN ds = 1..Len(ds) /\ Len(ds) \in Nat
  OBVIOUS
<1>3. Written(ds) \in [1..Len(ds) -> Seq(X)]
  BY <1>1, <1>2 DEF Written
<1> QED
  BY <1>2, <1>3

\* Piece by piece.
LEMMA WrittenJoined ==
  ASSUME NEW X, Nat \subseteq X, NEW a \in Seq(Descriptions(X)), NEW b \in Seq(Descriptions(X))
  PROVE  Written(a \o b) = Written(a) \o Written(b)
<1> DEFINE c == a \o b
           l == Written(c)
           Y == Seq(X)
           wa == Written(a)
           wb == Written(b)
           r == wa \o wb
           W(d) == writeRecord(d.id, d.ts, d.payload)
<1>1. c \in Seq(Descriptions(X)) /\ Len(c) = Len(a) + Len(b) /\ Len(a) \in Nat /\ Len(b) \in Nat
      /\ (\A i \in 1..Len(a) : c[i] = a[i]) /\ \A i \in 1..Len(b) : c[Len(a) + i] = b[i]
  BY Joined
<1>2. /\ l \in Seq(Y) /\ Len(l) = Len(c) /\ wa \in Seq(Y) /\ Len(wa) = Len(a)
      /\ wb \in Seq(Y) /\ Len(wb) = Len(b)
  BY <1>1, WrittenTyped
<1>3. /\ \A i \in 1..Len(c) : l[i] = W(c[i])
      /\ \A i \in 1..Len(a) : wa[i] = W(a[i])
      /\ \A i \in 1..Len(b) : wb[i] = W(b[i])
  BY <1>1 DEF Written
<1> HIDE DEF c, Y, W, wa, wb
<1>4. /\ r \in Seq(Y) /\ Len(r) = Len(a) + Len(b)
      /\ \A i \in 1..Len(a) : r[i] = wa[i]
      /\ \A i \in 1..Len(b) : r[Len(a) + i] = wb[i]
  <2>1. wa \in Seq(Y) /\ wb \in Seq(Y)
    BY <1>2
  <2>2. /\ r \in Seq(Y) /\ Len(r) = Len(wa) + Len(wb)
        /\ \A i \in 1..Len(wa) : r[i] = wa[i]
        /\ \A i \in 1..Len(wb) : r[Len(wa) + i] = wb[i]
    BY <2>1, Joined
  <2> HIDE DEF l, r
  <2> QED
    BY <1>2, <2>2
<1> HIDE DEF l, r
<1>5. \A i \in 1..Len(a) : l[i] = r[i]
  BY <1>1, <1>3, <1>4
<1>6. \A i \in 1..Len(b) : l[Len(a) + i] = r[Len(a) + i]
  <2>1. \A i \in 1..Len(b) : Len(a) + i \in 1..Len(c)
    BY <1>1
  <2> QED
    BY <1>1, <1>3, <1>4, <2>1
<1>7. \A i \in 1..Len(c) : i \in 1..Len(a) \/ (i - Len(a) \in 1..Len(b) /\ Len(a) + (i - Len(a)) = i)
  BY <1>1
<1>8. \A i \in 1..Len(c) : l[i] = r[i]
  BY <1>5, <1>6, <1>7
<1>9. l = r
  BY <1>1, <1>2, <1>4, <1>8, SeqEqual
<1> QED
  BY <1>9 DEF l, r, c, wa, wb

StartsOnly(a) == \A i \in 1..Len(a) : a[i].id = 0
EntriesOnly(b) == \A i \in 1..Len(b) : b[i].id # 0

\* What is read of start records and of entries.
IsRead(starts, entries, a, b) ==
  /\ DOMAIN starts = 1..Len(a) /\ DOMAIN entries = 1..Len(b)
  /\ \A i \in 1..Len(a) : starts[i].payload = a[i].payload
  /\ \A i \in 1..Len(b) : /\ entries[i].id = b[i].id /\ entries[i].ts = b[i].ts
                          /\ entries[i].payload = b[i].payload

\* A stream of start records before entries is read as what was written.
LEMMA StreamRead ==
  ASSUME NEW X, Nat \subseteq X, NEW h \in X,
         NEW a \in Seq(Descriptions(X)), StartsOnly(a), NEW b \in Seq(Descriptions(X)), EntriesOnly(b)
  PROVE  LET records == Records(<<h>> \o Concat(Written(a \o b)))
         IN  IsRead(startsOf(records), entriesOf(records), a, b)
<1> DEFINE c       == a \o b
           pieces  == Written(c)
           records == Records(<<h>> \o Concat(pieces))
           A       == Len(a)
           N       == Len(c)
<1>1. /\ c \in Seq(Descriptions(X)) /\ N = A + Len(b) /\ A \in Nat /\ Len(b) \in Nat
      /\ (\A i \in 1..A : c[i] = a[i]) /\ \A i \in 1..Len(b) : c[A + i] = b[i]
  BY Joined
<1>2. pieces \in Seq(Seq(X)) /\ Len(pieces) = N
  BY <1>1, WrittenTyped
<1>3. \A i \in 1..N : /\ c[i].payload \in Seq(X) /\ Fits(c[i].id, c[i].ts, c[i].payload)
                      /\ pieces[i] = writeRecord(c[i].id, c[i].ts, c[i].payload)
  <2> SUFFICES ASSUME NEW i \in 1..N
               PROVE  /\ c[i].payload \in Seq(X) /\ Fits(c[i].id, c[i].ts, c[i].payload)
                      /\ pieces[i] = writeRecord(c[i].id, c[i].ts, c[i].payload)
    OBVIOUS
  <2> HIDE DEF c
  <2>1. c[i] \in Descriptions(X) /\ i \in DOMAIN c
    BY <1>1
  <2> QED
    BY <2>1 DEF Descriptions, Written
<1> HIDE DEF c, pieces, N
<1>0. AreReadAs(records, c, Len(pieces))
  <2>1. AreRecords(pieces, c, X)
    BY <1>2, <1>3 DEF AreRecords
  <2>2. pieces \in Seq(Seq(X))
    BY <1>2
  <2> QED
    BY <2>1, <2>2, StreamsAreRead
<1>4. /\ Len(records) = Len(pieces) /\ \E Z : records \in Seq(Z)
      /\ \A i \in 1..Len(pieces) : /\ records[i].id = c[i].id /\ records[i].ts = c[i].ts
                                   /\ records[i].payload = c[i].payload
  BY <1>0 DEF AreReadAs
<1> HIDE DEF records, A
<1>5. PICK Z : records \in Seq(Z)
  BY <1>4
<1>11. Len(records) = N /\ DOMAIN records = 1..N
  BY <1>2, <1>4, <1>5
<1>6. \A i \in 1..N : records[i].id = 0 <=> i <= A
  <2> SUFFICES ASSUME NEW i \in 1..N PROVE records[i].id = 0 <=> i <= A
    OBVIOUS
  <2>1. records[i].id = c[i].id
    BY <1>2, <1>4
  <2>2. CASE i <= A
    BY <1>1, <2>1, <2>2 DEF A, StartsOnly
  <2>3. CASE ~ (i <= A)
    <3>1. i - A \in 1..Len(b) /\ A + (i - A) = i
      BY <1>1, <2>3
    <3>2. c[A + (i - A)] = b[i - A] /\ b[i - A].id # 0
      BY <1>1, <3>1 DEF EntriesOnly
    <3> QED
      BY <2>1, <2>3, <3>1, <3>2
  <2> QED
    BY <2>2, <2>3
<1>7. DOMAIN startsOf(records) = 1..A - 0 /\ \A i \in 1..A - 0 : startsOf(records)[i] = records[0 + i]
  <2> DEFINE places == {j \in DOMAIN records : records[j].id = 0}
  <2>1. 0 \in Nat /\ A \in Nat /\ 0 <= A /\ A <= Len(records)
    BY <1>1, <1>11
  <2>2. \A i \in DOMAIN records : i \in places <=> 0 < i /\ i <= A
    BY <1>11, <1>6
  <2> HIDE DEF places
  <2>4. Between(places, records, 0, A)
    BY <2>1, <2>2 DEF Between
  <2>3. IsSection(Only(records, places), records, 0, A)
    BY <1>5, <2>4, OnlyRange
  <2> QED
    BY <2>3 DEF startsOf, places, IsSection
<1>8. DOMAIN entriesOf(records) = 1..N - A /\ \A i \in 1..N - A : entriesOf(records)[i] = records[A + i]
  <2> DEFINE places == {j \in DOMAIN records : records[j].id # 0}
  <2>1. A \in Nat /\ N \in Nat /\ A <= N /\ N <= Len(records)
    BY <1>1, <1>11
  <2>2. \A i \in DOMAIN records : i \in places <=> A < i /\ i <= N
    BY <1>1, <1>11, <1>6
  <2> HIDE DEF places
  <2>4. Between(places, records, A, N)
    BY <2>1, <2>2 DEF Between
  <2>3. IsSection(Only(records, places), records, A, N)
    BY <1>5, <2>4, OnlyRange, SMTT(60)
  <2> QED
    BY <2>3 DEF entriesOf, places, IsSection
<1>9. DOMAIN startsOf(records) = 1..A /\ \A i \in 1..A : startsOf(records)[i].payload = a[i].payload
  <2>1. A - 0 = A /\ \A i \in 1..A : 0 + i = i /\ i \in 1..N
    BY <1>1
  <2>2. \A i \in 1..A : startsOf(records)[i] = records[i] /\ records[i].payload = c[i].payload /\ c[i] = a[i]
    BY <1>1, <1>2, <1>4, <1>7, <2>1
  <2> QED
    BY <1>7, <2>1, <2>2
<1>10. /\ DOMAIN entriesOf(records) = 1..Len(b)
       /\ \A i \in 1..Len(b) :
            /\ entriesOf(records)[i].id = b[i].id /\ entriesOf(records)[i].ts = b[i].ts
            /\ entriesOf(records)[i].payload = b[i].payload
  <2>1. N - A = Len(b) /\ \A i \in 1..Len(b) : A + i \in 1..N
    BY <1>1
  <2>2. \A i \in 1..Len(b) : entriesOf(records)[i] = records[A + i] /\ c[A + i] = b[i]
    BY <1>1, <1>8, <2>1
  <2>3. \A i \in 1..Len(b) : /\ records[A + i].id = b[i].id /\ records[A + i].ts = b[i].ts
                             /\ records[A + i].payload = b[i].payload
    BY <1>2, <1>4, <2>1, <2>2
  <2> QED
    BY <1>8, <2>1, <2>2, <2>3
<1> QED
  <2>1. IsRead(startsOf(records), entriesOf(records), a, b)
    BY <1>9, <1>10 DEF A, IsRead
  <2> QED
    BY <2>1 DEF records, pieces, c

-----------------------------------------------------------------------------
(* What Convert makes of a session *)

\* A start record fits: a byte has two values at least.
LEMMA PowersGrow == pow[4] >= 16 /\ pow[4] \in Nat /\ pow[8] \in Nat \ {0}
<1>1. pow[0] = 1 /\ pow[0 + 1] = Base * pow[0] /\ pow[1 + 1] = Base * pow[1]
      /\ pow[2 + 1] = Base * pow[2] /\ pow[3 + 1] = Base * pow[3]
  BY PowFacts
<1>2. \A x \in Nat : Base * x >= 2 * x /\ Base * x \in Nat
  BY ConvertAssumption
<1>3. pow[1] >= 2 /\ pow[1] \in Nat
  BY <1>1, <1>2
<1>4. pow[2] >= 4 /\ pow[2] \in Nat
  BY <1>1, <1>2, <1>3
<1>5. pow[3] >= 8 /\ pow[3] \in Nat
  BY <1>1, <1>2, <1>4
<1>6. pow[4] >= 16 /\ pow[4] \in Nat
  BY <1>1, <1>2, <1>5
<1> QED
  BY <1>6, PowFacts

\* What a start record says.
Starting(id, name, type) ==
  [id |-> 0, ts |-> 0, payload |-> <<0>> \o putVarInt(id, 4) \o <<name, type>>]

Says(r, id, name, type) ==
  Started(r) = id /\ r.payload[6] = name /\ r.payload[7] = type

\* A start record is read as the id, the name and the type it was written with.
LEMMA StartRead ==
  ASSUME NEW X, Nat \subseteq X, NEW id \in 1..pow[4] - 1, NEW name \in X, NEW type \in X
  PROVE  /\ Starting(id, name, type) \in Descriptions(X)
         /\ Says(Starting(id, name, type), id, name, type)
<1> DEFINE d == putVarInt(id, 4)
           p == <<0>> \o d
           w == <<name, type>>
           q == p \o w
<1>1. id \in Nat /\ id < pow[4] /\ 4 \in 1..8
  BY PowersGrow
<1>2. d \in Seq(X) /\ Len(d) = 4
  BY <1>1, DigitsTyped
<1>3. <<0>> \in Seq(X) /\ Len(<<0>>) = 1 /\ w \in Seq(X) /\ Len(w) = 2
      /\ w[1] = name /\ w[2] = type
  OBVIOUS
<1> HIDE DEF d, w
<1>4. p \in Seq(X) /\ Len(p) = 5 /\ \A i \in 1..4 : p[1 + i] = d[i]
  <2>1. p \in Seq(X) /\ Len(p) = Len(<<0>>) + Len(d) /\ \A i \in 1..Len(d) : p[Len(<<0>>) + i] = d[i]
    <3>1. <<0>> \in Seq(X) /\ d \in Seq(X)
      BY <1>2, <1>3
    <3> QED
      BY <3>1, Joined
  <2> QED
    BY <1>2, <1>3, <2>1
<1> HIDE DEF p
<1>5. q \in Seq(X) /\ Len(q) = 7 /\ (\A i \in 1..5 : q[i] = p[i]) /\ q[6] = name /\ q[7] = type
  <2>1. /\ q \in Seq(X) /\ Len(q) = Len(p) + Len(w) /\ \A i \in 1..Len(p) : q[i] = p[i]
        /\ \A i \in 1..Len(w) : q[Len(p) + i] = w[i]
    <3>1. p \in Seq(X) /\ w \in Seq(X)
      BY <1>3, <1>4
    <3> QED
      BY <3>1, Joined
  <2>2. q[5 + 1] = w[1] /\ q[5 + 2] = w[2]
    BY <1>3, <1>4, <2>1
  <2> QED
    BY <1>3, <1>4, <2>1, <2>2
<1> HIDE DEF q
<1>6. Number(q, 2, 4) = id
  <2>1. \A i \in 1..4 : 2 + i - 1 = 1 + i /\ 1 + i \in 1..5
    OBVIOUS
  <2>2. \A i \in 1..4 : q[2 + i - 1] = putVarInt(id, 4)[i]
    BY <1>4, <1>5, <2>1 DEF d
  <2>3. 2 \in Nat
    OBVIOUS
  <2> QED
    BY <1>1, <2>2, <2>3, NumbersAreRead
<1>7. Starting(id, name, type) = [id |-> 0, ts |-> 0, payload |-> q]
  BY DEF Starting, q, p, d, w
<1>8. [id |-> 0, ts |-> 0, payload |-> q] \in Descriptions(X)
  <2>1. 0 \in Nat /\ 0 \in 0..pow[4] - 1 /\ 0 \in 0..pow[8] - 1 /\ 7 < pow[4]
    BY PowersGrow
  <2>2. Fits(0, 0, q)
    BY <1>5, <2>1 DEF Fits
  <2> QED
    BY <1>5, <2>1, <2>2 DEF Descriptions
<1> QED
  BY <1>5, <1>6, <1>7, <1>8 DEF Started, Says

\* A session begins at a time.
LEMMA StartTyped ==
  ASSUME NEW text, Convertible(text)
  PROVE  sessionStartTS(text) \in Int
<1> DEFINE starts == {i \in DOMAIN text : text[i].type = "session_start"}
           Last(i) == \A j \in starts : j <= i
           N == Len(text)
           T == {N - i : i \in starts}
<1>1. N \in Nat /\ DOMAIN text = 1..N /\ \A i \in DOMAIN text : text[i].ts \in Int
  BY DEF Convertible
<1>2. CASE starts # {}
  <2>1. T \subseteq Nat /\ T # {}
    BY <1>1, <1>2
  <2>2. PICK d \in T : \A e \in T : d <= e
    BY <2>1, Least
  <2>3. PICK i \in starts : d = N - i
    BY <2>2
  <2>4. ASSUME NEW j \in starts PROVE j <= i
    <3>1. i \in 1..N /\ j \in 1..N
      BY <1>1
    <3>2. N - j \in T
      OBVIOUS
    <3>3. N - i <= N - j
      BY <2>2, <2>3, <3>2
    <3> QED
      BY <1>1, <3>1, <3>3
  <2> DEFINE c == CHOOSE k \in starts : Last(k)
  <2>5. c \in starts
    BY <2>3, <2>4
  <2>6. sessionStartTS(text) = text[c].ts
    BY <1>2 DEF sessionStartTS
  <2> HIDE DEF c
  <2> QED
    BY <1>1, <2>5, <2>6
<1> QED
  BY <1>2 DEF sessionStartTS

\* The lines of a session the conversion looks at.
DataLinesOf(text) == {text[i] : i \in {j \in DOMAIN text : IsData(text[j])}}
MarkersOf(text) == {text[i] : i \in {j \in DOMAIN text : IsMarker(text[j])}}

\* Their fields are within the limits.
LEMMA DataTyped ==
  ASSUME NEW text, Convertible(text)
  PROVE  /\ dataLines(text) \in Seq(DataLinesOf(text))
         /\ \A l \in DataLinesOf(text) :
              /\ l.ts \in Int /\ l.ts - sessionStartTS(text) < pow[8] /\ l.serverTs \in 0..pow[8] - 1
              /\ l.value.bytes \in Seq(0..Base - 1) /\ Len(l.value.bytes) < pow[4]
<1> DEFINE Z == {text[i] : i \in DOMAIN text}
           places == {j \in DOMAIN text : IsData(text[j])}
<1>1. text \in Seq(Z)
  BY DEF Convertible
<1>2. (DOMAIN text) \cap places = places
  OBVIOUS
<1>3. DataLinesOf(text) = {text[i] : i \in (DOMAIN text) \cap places}
  BY <1>2 DEF DataLinesOf
<1>4. dataLines(text) = Only(text, places)
  BY DEF dataLines
<1> HIDE DEF Z, places
<1>5. dataLines(text) \in Seq(DataLinesOf(text))
  BY <1>1, <1>3, <1>4, OnlyTyped
<1> QED
  BY <1>5 DEF DataLinesOf, Convertible

\* What can be encoded is some of the data.
LEMMA EncodedTyped ==
  ASSUME NEW Z, NEW data \in Seq(Z)
  PROVE  /\ encodable(data) \in Seq(Z)
         /\ \A i \in DOMAIN encodable(data) : \E k \in DOMAIN data : encodable(data)[i] = data[k]
<1> DEFINE places == {i \in DOMAIN data : Encodable(data[i])}
           Y == {data[i] : i \in (DOMAIN data) \cap places}
<1>1. encodable(data) = Only(data, places)
  BY DEF encodable
<1> HIDE DEF places
<1>2. encodable(data) \in Seq(Y)
  BY <1>1, OnlyTyped
<1>3. Y \subseteq Z
  OBVIOUS
<1> QED
  BY <1>2, <1>3

\* Sorting adds no marker.
LEMMA MarkersTyped ==
  ASSUME NEW text, Convertible(text)
  PROVE  /\ byTs(markerLines(text)) \in Seq(MarkersOf(text))
         /\ \A l \in MarkersOf(text) :
              l.type \in Markers /\ l.ts \in Int /\ l.ts - sessionStartTS(text) < pow[8]
<1> DEFINE Z == {text[i] : i \in DOMAIN text}
           places == {j \in DOMAIN text : IsMarker(text[j])}
           m == markerLines(text)
<1>1. text \in Seq(Z)
  BY DEF Convertible
<1>2. (DOMAIN text) \cap places = places
  OBVIOUS
<1>3. MarkersOf(text) = {text[i] : i \in (DOMAIN text) \cap places}
  BY <1>2 DEF MarkersOf
<1>4. m = Only(text, places)
  BY DEF markerLines
<1> HIDE DEF Z, places
<1>5. m \in Seq(MarkersOf(text))
  BY <1>1, <1>3, <1>4, OnlyTyped
<1>6. \A l \in MarkersOf(text) :
        l.type \in Markers /\ l.ts \in Int /\ l.ts - sessionStartTS(text) < pow[8]
  BY DEF MarkersOf, IsMarker, Convertible
<1> HIDE DEF m
<1>7. PICK p \in Bijection(DOMAIN m, DOMAIN m) : byTs(m) = [k \in DOMAIN m |-> m[p[k]]]
  BY <1>5, <1>6, MarkersSorted
<1>8. \A k \in DOMAIN m : p[k] \in DOMAIN m
  BY DEF Bijection, Injection
<1>9. byTs(m) \in [1..Len(m) -> MarkersOf(text)] /\ Len(m) \in Nat
  BY <1>5, <1>7, <1>8
<1> QED
  BY <1>6, <1>9 DEF m

\* What a conversion writes: its start records, its values, its markers.
Encoded(text) == encodable(dataLines(text))
Marked(text) == byTs(markerLines(text))
Known(text) == Cardinality(topics(dataLines(text)))

TopicStarts(text) ==
  [id \in 1..Known(text) |-> LET l == introduces(dataLines(text), id)
                             IN  Starting(id, l.key, MapNT4Type(l.type))]
MarkerStart(text) ==
  IF Marked(text) = <<>> THEN <<>> ELSE <<Starting(Known(text) + 1, MatchEvent, "string")>>
ValueAt(text, l) == resolveTimestamp(l, sessionStartTS(text), minServerTS(dataLines(text)))
Values(text) ==
  [i \in DOMAIN Encoded(text) |->
     LET l == Encoded(text)[i]
     IN  [id |-> entryID(dataLines(text), l), ts |-> ValueAt(text, l), payload |-> l.value.bytes]]
Events(text) ==
  [m \in DOMAIN Marked(text) |->
     LET l == Marked(text)[m]
     IN  [id |-> Known(text) + 1, ts |-> wallClockToMicros(l, sessionStartTS(text)), payload |-> <<l.type>>]]

\* What the bytes of its stream stand for.
Symbols(text) ==
  Nat \cup {"WPILOG", MatchEvent, "string"} \cup Markers
    \cup {l.key : l \in DataLinesOf(text)} \cup {MapNT4Type(l.type) : l \in DataLinesOf(text)}

\* The ids are within the limits.
LEMMA KnownTyped ==
  ASSUME NEW text, Convertible(text)
  PROVE  Known(text) \in Nat /\ Known(text) + 1 < pow[4]
<1> DEFINE data == dataLines(text)
<1>1. topics(data) = Seen(data, Len(data)) /\ Len(data) \in Nat
  <2>1. data \in Seq(DataLinesOf(text))
    BY DataTyped
  <2>2. DOMAIN data = 1..Len(data) /\ Len(data) \in Nat
    BY <2>1
  <2> QED
    BY <2>2 DEF topics, Seen
<1> HIDE DEF data
<1>2. Cardinality(topics(data)) \in Nat
  BY <1>1, SeenGrows
<1> QED
  BY <1>2 DEF Known, Convertible, data

\* No time is before zero or beyond the format.
LEMMA StampsTyped ==
  ASSUME NEW text, Convertible(text)
  PROVE  /\ \A l \in DataLinesOf(text) : ValueAt(text, l) \in 0..pow[8] - 1
         /\ \A l \in MarkersOf(text) : wallClockToMicros(l, sessionStartTS(text)) \in 0..pow[8] - 1
<1> DEFINE start == sessionStartTS(text)
           base == minServerTS(dataLines(text))
           L == DataLinesOf(text)
<1>1. start \in Int /\ pow[8] \in Nat \ {0}
  BY StartTyped, PowersGrow
<1>2. base \in Nat
  <2>1. dataLines(text) \in Seq(L) /\ \A l \in L : l.serverTs \in Nat
    BY <1>1, DataTyped
  <2> QED
    BY <2>1, BaseIsOldest
<1>3. \A n \in Int : n < pow[8] => AtLeastZero(n) \in 0..pow[8] - 1
  BY <1>1 DEF AtLeastZero
<1> HIDE DEF start, base, L
<1>4. ASSUME NEW l \in L PROVE resolveTimestamp(l, start, base) \in 0..pow[8] - 1
  <2>1. l.ts \in Int /\ l.ts - start < pow[8] /\ l.serverTs \in 0..pow[8] - 1
    BY DataTyped DEF L, start
  <2>2. l.ts - start \in Int /\ l.serverTs - base \in Int /\ l.serverTs - base < pow[8]
    BY <1>1, <1>2, <2>1
  <2> QED
    BY <1>3, <2>1, <2>2 DEF resolveTimestamp, wallClockToMicros
<1>5. ASSUME NEW l \in MarkersOf(text) PROVE wallClockToMicros(l, start) \in 0..pow[8] - 1
  <2>1. l.ts \in Int /\ l.ts - start < pow[8]
    BY MarkersTyped DEF start
  <2>2. l.ts - start \in Int
    BY <1>1, <2>1
  <2> QED
    BY <1>3, <2>1, <2>2 DEF wallClockToMicros
<1> QED
  BY <1>4, <1>5 DEF ValueAt, start, base, L

\* The start records fit the format.
LEMMA StartsTyped ==
  ASSUME NEW text, Convertible(text)
  PROVE  /\ TopicStarts(text) \in Seq(Descriptions(Symbols(text))) /\ Len(TopicStarts(text)) = Known(text)
         /\ MarkerStart(text) \in Seq(Descriptions(Symbols(text)))
         /\ \A id \in 1..Known(text) :
              /\ introduces(dataLines(text), id).key \in Symbols(text)
              /\ MapNT4Type(introduces(dataLines(text), id).type) \in Symbols(text)
<1> DEFINE X == Symbols(text)
           K == Known(text)
           data == dataLines(text)
           L == DataLinesOf(text)
<1>1. K \in Nat /\ K + 1 < pow[4] /\ pow[4] \in Nat
  BY KnownTyped, PowersGrow
<1>2. Nat \subseteq X /\ MatchEvent \in X /\ "string" \in X /\ \A l \in L : l.key \in X /\ MapNT4Type(l.type) \in X
  BY DEF Symbols
<1>3. \A id \in 1..K : introduces(data, id) \in L
  <2>1. data \in Seq(L)
    BY DataTyped
  <2>2. \A id \in 1..Cardinality(topics(data)) : \E k \in DOMAIN data : introduces(data, id) = data[k]
    BY <2>1, TopicsHaveTheirIds
  <2>3. \A k \in DOMAIN data : data[k] \in L
    BY <2>1
  <2> QED
    BY <2>2, <2>3 DEF Known
<1> HIDE DEF X, K, data, L
<1>4. \A id \in 1..K : introduces(data, id).key \in X /\ MapNT4Type(introduces(data, id).type) \in X
  BY <1>2, <1>3
<1>5. ASSUME NEW id \in 1..K
      PROVE  Starting(id, introduces(data, id).key, MapNT4Type(introduces(data, id).type)) \in Descriptions(X)
  <2>1. id \in 1..pow[4] - 1
    BY <1>1
  <2> QED
    BY <1>2, <1>4, <2>1, StartRead
<1>6. Starting(K + 1, MatchEvent, "string") \in Descriptions(X)
  <2>1. K + 1 \in 1..pow[4] - 1
    BY <1>1
  <2> QED
    BY <1>2, <2>1, StartRead
<1>7. TopicStarts(text) \in [1..K -> Descriptions(X)]
  BY <1>5 DEF TopicStarts, K, data
<1>8. TopicStarts(text) \in Seq(Descriptions(X)) /\ Len(TopicStarts(text)) = K
  BY <1>1, <1>7
<1>9. MarkerStart(text) \in Seq(Descriptions(X))
  BY <1>6 DEF MarkerStart, K
<1> QED
  BY <1>4, <1>8, <1>9 DEF X, K, data

\* So do the values and the markers.
LEMMA EntriesTyped ==
  ASSUME NEW text, Convertible(text)
  PROVE  /\ Values(text) \in Seq(Descriptions(Symbols(text))) /\ Len(Values(text)) = Len(Encoded(text))
         /\ Events(text) \in Seq(Descriptions(Symbols(text))) /\ Len(Events(text)) = Len(Marked(text))
         /\ Len(Encoded(text)) \in Nat /\ Len(Marked(text)) \in Nat
         /\ DOMAIN Encoded(text) = 1..Len(Encoded(text)) /\ DOMAIN Marked(text) = 1..Len(Marked(text))
         /\ \A i \in 1..Len(Encoded(text)) : entryID(dataLines(text), Encoded(text)[i]) \in 1..Known(text)
<1> DEFINE X == Symbols(text)
           K == Known(text)
           data == dataLines(text)
           L == DataLinesOf(text)
           M == MarkersOf(text)
           E == Encoded(text)
           S == Marked(text)
<1>1. K \in Nat /\ K + 1 < pow[4] /\ pow[4] \in Nat /\ 1 < pow[4]
  BY KnownTyped, PowersGrow
<1>2. Nat \subseteq X /\ Markers \subseteq X
  BY DEF Symbols
<1>3. data \in Seq(L) /\ E \in Seq(L) /\ S \in Seq(M) /\ \A i \in DOMAIN E : \E k \in DOMAIN data : E[i] = data[k]
  BY DataTyped, EncodedTyped, MarkersTyped DEF Encoded, Marked
<1>4. \A i \in DOMAIN E : entryID(data, E[i]) \in 1..K
  <2>1. \A k \in DOMAIN data : entryID(data, data[k]) \in 1..Cardinality(topics(data))
    BY <1>3, TopicsHaveTheirIds
  <2> QED
    BY <1>3, <2>1 DEF Known
<1>5. /\ Len(E) \in Nat /\ DOMAIN E = 1..Len(E) /\ Len(S) \in Nat /\ DOMAIN S = 1..Len(S)
      /\ (\A i \in DOMAIN E : E[i] \in L) /\ \A i \in DOMAIN S : S[i] \in M
  BY <1>3
<1>6. \A i \in DOMAIN E : Values(text)[i] \in Descriptions(X)
  <2> SUFFICES ASSUME NEW i \in DOMAIN E PROVE Values(text)[i] \in Descriptions(X)
    OBVIOUS
  <2> DEFINE id == entryID(data, E[i])
             ts == ValueAt(text, E[i])
             payload == E[i].value.bytes
  <2>1. Values(text)[i] = [id |-> id, ts |-> ts, payload |-> payload]
    BY DEF Values
  <2>2. id \in 1..K
    BY <1>4
  <2>3. ts \in 0..pow[8] - 1
    BY <1>5, StampsTyped
  <2>4. payload \in Seq(0..Base - 1) /\ Len(payload) < pow[4]
    BY <1>5, DataTyped
  <2> HIDE DEF id, ts, payload
  <2>5. payload \in Seq(X)
    BY <1>2, <2>4, ConvertAssumption
  <2>6. id \in Nat /\ id \in 0..pow[4] - 1 /\ ts \in Nat
    BY <1>1, <2>2, <2>3
  <2>7. Fits(id, ts, payload)
    BY <2>3, <2>4, <2>6 DEF Fits
  <2>8. [id |-> id, ts |-> ts, payload |-> payload] \in Descriptions(X)
    BY <2>5, <2>6, <2>7 DEF Descriptions
  <2> QED
    BY <2>1, <2>8
<1>7. \A i \in DOMAIN S : Events(text)[i] \in Descriptions(X)
  <2> SUFFICES ASSUME NEW i \in DOMAIN S PROVE Events(text)[i] \in Descriptions(X)
    OBVIOUS
  <2> DEFINE ts == wallClockToMicros(S[i], sessionStartTS(text))
             payload == <<S[i].type>>
  <2>1. Events(text)[i] = [id |-> K + 1, ts |-> ts, payload |-> payload]
    BY DEF Events
  <2>2. K + 1 \in Nat /\ K + 1 \in 0..pow[4] - 1
    BY <1>1
  <2>3. ts \in 0..pow[8] - 1
    BY <1>5, StampsTyped
  <2>4. payload \in Seq(X) /\ Len(payload) < pow[4]
    <3>1. S[i].type \in X
      BY <1>2, <1>5, MarkersTyped
    <3> QED
      BY <1>1, <3>1
  <2> HIDE DEF ts, payload
  <2>5. ts \in Nat
    BY <2>3
  <2>6. Fits(K + 1, ts, payload)
    BY <2>2, <2>3, <2>4 DEF Fits
  <2>7. [id |-> K + 1, ts |-> ts, payload |-> payload] \in Descriptions(X)
    BY <2>2, <2>4, <2>5, <2>6 DEF Descriptions
  <2> QED
    BY <2>1, <2>7
<1>8. Values(text) = [i \in DOMAIN E |-> Values(text)[i]] /\ Events(text) = [i \in DOMAIN S |-> Events(text)[i]]
  BY DEF Values, Events
<1> HIDE DEF X, K, E, S
<1>9. Values(text) \in [1..Len(E) -> Descriptions(X)] /\ Events(text) \in [1..Len(S) -> Descriptions(X)]
  BY <1>5, <1>6, <1>7, <1>8
<1>10. /\ Values(text) \in Seq(Descriptions(X)) /\ Len(Values(text)) = Len(E)
       /\ Events(text) \in Seq(Descriptions(X)) /\ Len(Events(text)) = Len(S)
  BY <1>5, <1>9
<1> QED
  BY <1>4, <1>5, <1>10 DEF X, K, E, S

\* All of them in the order of the file.
Stream(text) == (TopicStarts(text) \o MarkerStart(text)) \o (Values(text) \o Events(text))

\* Convert writes these and nothing else.
LEMMA ConvertWrites ==
  ASSUME NEW text, Convertible(text)
  PROVE  Convert(text) = <<"WPILOG">> \o Concat(Written(Stream(text)))
<1> DEFINE D == Descriptions(Symbols(text))
           a == TopicStarts(text)
           b == MarkerStart(text)
           c == Values(text)
           d == Events(text)
<1>1. a \in Seq(D) /\ b \in Seq(D) /\ c \in Seq(D) /\ d \in Seq(D)
  BY StartsTyped, EntriesTyped
<1>2. Nat \subseteq Symbols(text)
  BY DEF Symbols
<1> HIDE DEF D, a, b, c, d
<1>3. Written((a \o b) \o (c \o d)) = Written(((a \o b) \o c) \o d)
  <2>1. a \o b \in Seq(D)
    BY <1>1, Joined
  <2>2. ((a \o b) \o c) \o d = (a \o b) \o (c \o d)
    BY <1>1, <2>1, ConcatAssociative
  <2> QED
    BY <2>2
<1>4. Written(((a \o b) \o c) \o d) = ((Written(a) \o Written(b)) \o Written(c)) \o Written(d)
  <2>1. a \o b \in Seq(D) /\ (a \o b) \o c \in Seq(D)
    BY <1>1, Joined
  <2>2. Written(((a \o b) \o c) \o d) = Written((a \o b) \o c) \o Written(d)
    BY <1>1, <1>2, <2>1, WrittenJoined DEF D
  <2>3. Written((a \o b) \o c) = Written(a \o b) \o Written(c)
    BY <1>1, <1>2, <2>1, WrittenJoined DEF D
  <2>4. Written(a \o b) = Written(a) \o Written(b)
    BY <1>1, <1>2, WrittenJoined DEF D
  <2> QED
    BY <2>2, <2>3, <2>4
<1> DEFINE data    == dataLines(text)
           markers == Marked(text)
           known   == Known(text)
           start   == sessionStartTS(text)
           encoded == Encoded(text)
           startOf(id) == LET l == introduces(data, id)
                          IN  WriteStartRecord(id, l.key, MapNT4Type(l.type))
           dataOf(l)   == writeRecord(entryID(data, l),
                            resolveTimestamp(l, start, minServerTS(data)), l.value.bytes)
           markerOf(l) == writeRecord(known + 1, wallClockToMicros(l, start), <<l.type>>)
           wa == [id \in 1..known |-> startOf(id)]
           wb == IF markers = <<>> THEN <<>> ELSE <<WriteStartRecord(known + 1, MatchEvent, "string")>>
           wc == [i \in DOMAIN encoded |-> dataOf(encoded[i])]
           wd == [i \in DOMAIN markers |-> markerOf(markers[i])]
<1>5. Written(a) = wa
  BY DEF Written, a, TopicStarts, Starting, WriteStartRecord
<1>6. Written(b) = wb
  <2>1. CASE markers = <<>>
    BY <2>1 DEF Written, b, MarkerStart
  <2>2. CASE markers # <<>>
    <3> DEFINE r == Starting(known + 1, MatchEvent, "string")
    <3>1. b = <<r>> /\ wb = <<WriteStartRecord(known + 1, MatchEvent, "string")>>
      BY <2>2 DEF b, MarkerStart
    <3>2. writeRecord(r.id, r.ts, r.payload) = WriteStartRecord(known + 1, MatchEvent, "string")
      BY DEF Starting, WriteStartRecord
    <3> HIDE DEF r, wb
    <3>3. Written(<<r>>) = <<writeRecord(r.id, r.ts, r.payload)>>
      BY DEF Written
    <3> QED
      BY <3>1, <3>2, <3>3
  <2> QED
    BY <2>1, <2>2
<1>7. Written(c) = wc
  BY DEF Written, c, Values, ValueAt
<1>8. Written(d) = wd
  BY DEF Written, d, Events
<1>9. Convert(text) = WriteHeader \o Concat(((wa \o wb) \o wc) \o wd)
  BY DEF Convert, Marked, Encoded, Known
<1> HIDE DEF wa, wb, wc, wd
<1> QED
  BY <1>3, <1>4, <1>5, <1>6, <1>7, <1>8, <1>9 DEF WriteHeader, Stream, a, b, c, d

\* A download is read as the start records, the values and the markers written.
LEMMA DownloadRead ==
  ASSUME NEW text, Convertible(text)
  PROVE  LET starts  == startsOf(Records(Convert(text)))
             entries == entriesOf(Records(Convert(text)))
             data    == dataLines(text)
             E == Len(Encoded(text))
             M == Len(Marked(text))
             K == Known(text)
             S == IF M = 0 THEN K ELSE K + 1
         IN  /\ E \in Nat /\ M \in Nat /\ K \in Nat
             /\ DOMAIN starts = 1..S /\ DOMAIN entries = 1..E + M
             /\ \A i \in 1..S : Started(starts[i]) = i
             /\ \A i \in 1..K : /\ starts[i].payload[6] = introduces(data, i).key
                                /\ starts[i].payload[7] = MapNT4Type(introduces(data, i).type)
             /\ M # 0 => starts[K + 1].payload[6] = MatchEvent /\ starts[K + 1].payload[7] = "string"
             /\ \A i \in 1..E : entries[i].id = Values(text)[i].id /\ entries[i].ts = Values(text)[i].ts
                                /\ entries[i].payload = Values(text)[i].payload
             /\ \A m \in 1..M : entries[E + m].id = Events(text)[m].id /\ entries[E + m].ts = Events(text)[m].ts
                                /\ entries[E + m].payload = Events(text)[m].payload
<1> DEFINE starts  == startsOf(Records(Convert(text)))
           entries == entriesOf(Records(Convert(text)))
           data == dataLines(text)
           X == Symbols(text)
           D == Descriptions(X)
           E == Len(Encoded(text))
           M == Len(Marked(text))
           K == Known(text)
           S == IF M = 0 THEN K ELSE K + 1
           a1 == TopicStarts(text)
           a2 == MarkerStart(text)
           b1 == Values(text)
           b2 == Events(text)
           a == a1 \o a2
           b == b1 \o b2
           l(i) == introduces(data, i)
<1>1. /\ a1 \in Seq(D) /\ Len(a1) = K /\ a2 \in Seq(D) /\ b1 \in Seq(D) /\ Len(b1) = E
      /\ b2 \in Seq(D) /\ Len(b2) = M /\ E \in Nat /\ M \in Nat
      /\ DOMAIN Encoded(text) = 1..E /\ DOMAIN Marked(text) = 1..M
      /\ \A i \in 1..E : entryID(data, Encoded(text)[i]) \in 1..K
  BY StartsTyped, EntriesTyped
<1>2. K \in Nat /\ K + 1 < pow[4] /\ pow[4] \in Nat
  BY KnownTyped, PowersGrow
<1>3. Nat \subseteq X /\ "WPILOG" \in X /\ MatchEvent \in X /\ "string" \in X
  BY DEF Symbols
<1>4. \A i \in 1..K : a1[i] = Starting(i, l(i).key, MapNT4Type(l(i).type))
  BY DEF TopicStarts
<1>5. M = 0 <=> Marked(text) = <<>>
  <2>1. Marked(text) \in Seq(MarkersOf(text))
    BY MarkersTyped DEF Marked
  <2> QED
    BY <2>1, EmptySeq
<1>6. Len(a2) = (IF M = 0 THEN 0 ELSE 1) /\ (M # 0 => a2[1] = Starting(K + 1, MatchEvent, "string"))
  BY <1>5 DEF MarkerStart
<1>7. \A i \in 1..E : b1[i].id \in 1..K
  BY <1>1 DEF Values
<1>8. \A m \in 1..M : b2[m].id = K + 1
  BY <1>1 DEF Events
<1>9. \A i \in 1..K : l(i).key \in X /\ MapNT4Type(l(i).type) \in X
  BY StartsTyped
<1>10. Convert(text) = <<"WPILOG">> \o Concat(Written(a \o b))
  BY ConvertWrites DEF Stream
<1> HIDE DEF a1, a2, b1, b2, X, E, M, K, l
<1>11. /\ a \in Seq(D) /\ Len(a) = S /\ (\A i \in 1..K : a[i] = a1[i])
       /\ M # 0 => a[K + 1] = a2[1]
  <2>1. /\ a \in Seq(D) /\ Len(a) = Len(a1) + Len(a2) /\ (\A i \in 1..Len(a1) : a[i] = a1[i])
        /\ \A i \in 1..Len(a2) : a[Len(a1) + i] = a2[i]
    <3>1. a1 \in Seq(D) /\ a2 \in Seq(D)
      BY <1>1
    <3> HIDE DEF D
    <3> QED
      BY <3>1, Joined
  <2> HIDE DEF a
  <2>2. Len(a1) = K /\ K \in Nat
    BY <1>1, <1>2
  <2>3. Len(a2) = (IF M = 0 THEN 0 ELSE 1) /\ (M # 0 => 1 \in 1..Len(a2))
    BY <1>6
  <2>4. Len(a) = S
    BY <2>1, <2>2, <2>3
  <2>5. M # 0 => a[K + 1] = a2[1]
    BY <2>1, <2>2, <2>3
  <2> QED
    BY <2>1, <2>2, <2>4, <2>5
<1>12. /\ b \in Seq(D) /\ Len(b) = E + M /\ (\A i \in 1..E : b[i] = b1[i])
       /\ \A m \in 1..M : b[E + m] = b2[m]
  <2>1. b1 \in Seq(D) /\ b2 \in Seq(D) /\ Len(b1) = E /\ Len(b2) = M
    BY <1>1
  <2>2. /\ b \in Seq(D) /\ Len(b) = Len(b1) + Len(b2) /\ (\A i \in 1..Len(b1) : b[i] = b1[i])
        /\ \A m \in 1..Len(b2) : b[Len(b1) + m] = b2[m]
    <3>1. b1 \in Seq(D) /\ b2 \in Seq(D)
      BY <2>1
    <3> HIDE DEF D
    <3> QED
      BY <3>1, Joined
  <2> HIDE DEF b
  <2> QED
    BY <2>1, <2>2
<1>13. \A i \in 1..S : i \in 1..K \/ (M # 0 /\ i = K + 1)
  BY <1>2
<1>14. \A i \in 1..E + M : i \in 1..E \/ \E m \in 1..M : i = E + m
  <2> SUFFICES ASSUME NEW i \in 1..E + M, ~ (i \in 1..E) PROVE \E m \in 1..M : i = E + m
    OBVIOUS
  <2>1. i - E \in 1..M /\ i = E + (i - E)
    BY <1>1
  <2> QED
    BY <2>1
<1>15. ASSUME NEW i \in 1..K
       PROVE  /\ a1[i].id = 0 /\ Started(a1[i]) = i /\ a1[i].payload[6] = l(i).key
              /\ a1[i].payload[7] = MapNT4Type(l(i).type)
  <2>1. i \in 1..pow[4] - 1
    BY <1>2
  <2> DEFINE key == l(i).key
             type == MapNT4Type(l(i).type)
             r == Starting(i, key, type)
  <2>2. key \in X /\ type \in X /\ a1[i] = r
    <3>1. l(i).key \in X /\ MapNT4Type(l(i).type) \in X
      BY <1>9
    <3>2. a1[i] = Starting(i, l(i).key, MapNT4Type(l(i).type))
      BY <1>4
    <3> QED
      BY <3>1, <3>2
  <2> HIDE DEF key, type
  <2>3. Started(r) = i /\ r.payload[6] = key /\ r.payload[7] = type
    <3>1. Nat \subseteq X /\ key \in X /\ type \in X
      BY <1>3, <2>2
    <3>2. Says(r, i, key, type)
      BY <2>1, <3>1, StartRead
    <3> QED
      BY <3>2 DEF Says
  <2>4. r.id = 0
    BY DEF Starting
  <2> HIDE DEF r
  <2> QED
    BY <2>2, <2>3, <2>4 DEF key, type
<1>16. ASSUME M # 0
       PROVE  /\ a2[1].id = 0 /\ Started(a2[1]) = K + 1 /\ a2[1].payload[6] = MatchEvent
              /\ a2[1].payload[7] = "string"
  <2>1. K + 1 \in 1..pow[4] - 1
    BY <1>2
  <2> DEFINE r == Starting(K + 1, MatchEvent, "string")
  <2>2. Started(r) = K + 1 /\ r.payload[6] = MatchEvent /\ r.payload[7] = "string"
    BY <1>3, <2>1, StartRead DEF Says
  <2>3. r.id = 0
    BY DEF Starting
  <2> HIDE DEF r
  <2> QED
    BY <1>6, <1>16, <2>2, <2>3 DEF r
<1> HIDE DEF a, b, S
<1>17. \A i \in 1..S : a[i].id = 0 /\ Started(a[i]) = i
  BY <1>11, <1>13, <1>15, <1>16
<1>18. \A i \in 1..E + M : b[i].id # 0
  BY <1>2, <1>7, <1>8, <1>12, <1>14
<1>19. /\ DOMAIN starts = 1..Len(a) /\ DOMAIN entries = 1..Len(b)
       /\ \A i \in 1..Len(a) : starts[i].payload = a[i].payload
       /\ \A i \in 1..Len(b) : /\ entries[i].id = b[i].id /\ entries[i].ts = b[i].ts
                               /\ entries[i].payload = b[i].payload
  <2> DEFINE h == "WPILOG"
             ss == startsOf(Records(<<h>> \o Concat(Written(a \o b))))
             es == entriesOf(Records(<<h>> \o Concat(Written(a \o b))))
  <2>1. h \in X
    BY <1>3
  <2>2. StartsOnly(a) /\ EntriesOnly(b)
    BY <1>11, <1>12, <1>17, <1>18 DEF StartsOnly, EntriesOnly
  <2>4. starts = ss /\ entries = es
    BY <1>10
  <2> HIDE DEF h
  <2>3. IsRead(ss, es, a, b)
    <3>1. a \in Seq(Descriptions(X)) /\ b \in Seq(Descriptions(X)) /\ Nat \subseteq X
      BY <1>3, <1>11, <1>12 DEF D
    <3> QED
      BY <2>1, <2>2, <3>1, StreamRead
  <2> HIDE DEF ss, es
  <2> QED
    BY <2>3, <2>4 DEF IsRead
<1> HIDE DEF starts, entries
<1>20. \A i \in 1..S : starts[i].payload = a[i].payload /\ Started(starts[i]) = i
  BY <1>11, <1>17, <1>19 DEF Started
<1>21. \A i \in 1..K : /\ starts[i].payload[6] = l(i).key
                       /\ starts[i].payload[7] = MapNT4Type(l(i).type)
  <2>1. \A i \in 1..K : i \in 1..S
    BY <1>2 DEF S
  <2> QED
    BY <1>11, <1>15, <1>20, <2>1
<1>22. M # 0 => starts[K + 1].payload[6] = MatchEvent /\ starts[K + 1].payload[7] = "string"
  <2>1. M # 0 => K + 1 \in 1..S
    BY <1>2 DEF S
  <2> QED
    BY <1>11, <1>16, <1>20, <2>1
<1>23. \A i \in 1..E : entries[i].id = b1[i].id /\ entries[i].ts = b1[i].ts /\ entries[i].payload = b1[i].payload
  <2>1. \A i \in 1..E : i \in 1..Len(b)
    BY <1>1, <1>12
  <2> QED
    BY <1>12, <1>19, <2>1
<1>24. \A m \in 1..M : /\ entries[E + m].id = b2[m].id /\ entries[E + m].ts = b2[m].ts
                       /\ entries[E + m].payload = b2[m].payload
  <2>1. \A m \in 1..M : E + m \in 1..Len(b)
    BY <1>1, <1>12
  <2> QED
    BY <1>12, <1>19, <2>1
<1> QED
  BY <1>1, <1>2, <1>11, <1>12, <1>19, <1>20, <1>21, <1>22, <1>23, <1>24
  DEF starts, entries, S, E, M, K, b1, b2, l

\* The id of a value is introduced by its own name and type.
LEMMA EncodedFromData ==
  ASSUME NEW text, Convertible(text), NEW i \in 1..Len(Encoded(text))
  PROVE  LET data == dataLines(text)
             l    == Encoded(text)[i]
             id   == entryID(data, l)
         IN  /\ id \in 1..Known(text)
             /\ introduces(data, id).key = l.key /\ introduces(data, id).type = l.type
<1> DEFINE data == dataLines(text)
           L == DataLinesOf(text)
<1>1. data \in Seq(L)
  BY DataTyped
<1>2. PICK k \in DOMAIN data : Encoded(text)[i] = data[k]
  BY <1>1, EntriesTyped, EncodedTyped DEF Encoded
<1>3. /\ entryID(data, data[k]) \in 1..Cardinality(topics(data))
      /\ introduces(data, entryID(data, data[k])).key = data[k].key
      /\ introduces(data, entryID(data, data[k])).type = data[k].type
  BY <1>1, TopicsHaveTheirIds
<1> QED
  BY <1>2, <1>3 DEF Known

\* Every value that can be encoded is read back once, in the order of the session,
\* under the name and type it was published with, and the markers follow: whatever
\* the topics, their types, the ids' and sizes' lengths (convert.go:66-174,
\* encoder.go:105-151).
THEOREM ConversionsAreFaithful ==
  ASSUME NEW text, Convertible(text)
  PROVE  Faithful(text)
<1> DEFINE records == Records(Convert(text))
           starts  == startsOf(records)
           entries == entriesOf(records)
           data    == dataLines(text)
           encoded == Encoded(text)
           markers == Marked(text)
           E == Len(encoded)
           M == Len(markers)
           K == Known(text)
           S == IF M = 0 THEN K ELSE K + 1
           left == [i \in DOMAIN entries |-> Read(starts, entries[i])]
           values == [i \in DOMAIN encoded |-> Meaning(encoded[i])]
           events == [i \in DOMAIN markers |-> <<MatchEvent, "string", <<markers[i].type>>>>]
<1>1. /\ E \in Nat /\ M \in Nat /\ K \in Nat
      /\ DOMAIN starts = 1..S /\ DOMAIN entries = 1..E + M
      /\ \A i \in 1..S : Started(starts[i]) = i
      /\ \A i \in 1..K : /\ starts[i].payload[6] = introduces(data, i).key
                         /\ starts[i].payload[7] = MapNT4Type(introduces(data, i).type)
      /\ M # 0 => starts[K + 1].payload[6] = MatchEvent /\ starts[K + 1].payload[7] = "string"
      /\ \A i \in 1..E : entries[i].id = Values(text)[i].id /\ entries[i].payload = Values(text)[i].payload
      /\ \A m \in 1..M : entries[E + m].id = Events(text)[m].id /\ entries[E + m].payload = Events(text)[m].payload
  BY DownloadRead
<1>2. DOMAIN encoded = 1..E /\ DOMAIN markers = 1..M
  BY EntriesTyped
<1>3. \A i \in 1..E : Values(text)[i].id = entryID(data, encoded[i]) /\ Values(text)[i].payload = encoded[i].value.bytes
  BY <1>2 DEF Values
<1>4. \A m \in 1..M : Events(text)[m].id = K + 1 /\ Events(text)[m].payload = <<markers[m].type>>
  BY <1>2 DEF Events
<1>5. \A i \in 1..E : /\ entryID(data, encoded[i]) \in 1..K
                      /\ introduces(data, entryID(data, encoded[i])).key = encoded[i].key
                      /\ introduces(data, entryID(data, encoded[i])).type = encoded[i].type
  BY EncodedFromData
<1> HIDE DEF records, starts, entries, data, encoded, markers, E, M, K
<1>6. \A r : \A i \in 1..S : r.id = i => Read(starts, r) = <<starts[i].payload[6], starts[i].payload[7], r.payload>>
  <2> SUFFICES ASSUME NEW r, NEW i \in 1..S, r.id = i
               PROVE  Read(starts, r) = <<starts[i].payload[6], starts[i].payload[7], r.payload>>
    OBVIOUS
  <2> DEFINE c == CHOOSE j \in DOMAIN starts : Started(starts[j]) = r.id
  <2>1. c = i
    BY <1>1
  <2> QED
    BY <2>1 DEF Read
<1>7. \A i \in 1..E : entries[i].id \in 1..S /\ Read(starts, entries[i]) = Meaning(encoded[i])
  <2> SUFFICES ASSUME NEW i \in 1..E
               PROVE  entries[i].id \in 1..S /\ Read(starts, entries[i]) = Meaning(encoded[i])
    OBVIOUS
  <2> DEFINE id == entryID(data, encoded[i])
  <2>1. entries[i].id = id /\ entries[i].payload = encoded[i].value.bytes
    BY <1>1, <1>3
  <2>2. id \in 1..K /\ introduces(data, id).key = encoded[i].key /\ introduces(data, id).type = encoded[i].type
    BY <1>5
  <2> HIDE DEF id
  <2>3. id \in 1..S
    BY <1>1, <2>2
  <2>4. starts[id].payload[6] = encoded[i].key /\ starts[id].payload[7] = MapNT4Type(encoded[i].type)
    BY <1>1, <2>2
  <2>5. Read(starts, entries[i]) = <<starts[id].payload[6], starts[id].payload[7], entries[i].payload>>
    BY <1>6, <2>1, <2>3
  <2> QED
    BY <2>1, <2>3, <2>4, <2>5 DEF Meaning
<1>8. \A m \in 1..M : /\ entries[E + m].id \in 1..S
                      /\ Read(starts, entries[E + m]) = <<MatchEvent, "string", <<markers[m].type>>>>
  <2> SUFFICES ASSUME NEW m \in 1..M
               PROVE  /\ entries[E + m].id \in 1..S
                      /\ Read(starts, entries[E + m]) = <<MatchEvent, "string", <<markers[m].type>>>>
    OBVIOUS
  <2>1. M # 0 /\ K + 1 \in 1..S
    BY <1>1
  <2>2. entries[E + m].id = K + 1 /\ entries[E + m].payload = <<markers[m].type>>
    BY <1>1, <1>4
  <2>3. Read(starts, entries[E + m]) =
          <<starts[K + 1].payload[6], starts[K + 1].payload[7], entries[E + m].payload>>
    BY <1>6, <2>1, <2>2
  <2> QED
    BY <1>1, <2>1, <2>2, <2>3
<1>9. \A i \in 1..E + M : i \in 1..E \/ (i - E \in 1..M /\ i = E + (i - E))
  BY <1>1
<1>10. left = values \o events
  <2> DEFINE X == {values[i] : i \in 1..E} \cup {events[i] : i \in 1..M}
  <2>1. values \in [1..E -> X] /\ events \in [1..M -> X]
    BY <1>2
  <2>2. values \in Seq(X) /\ Len(values) = E /\ events \in Seq(X) /\ Len(events) = M
    <3>1. E \in Nat /\ M \in Nat
      BY <1>1
    <3> HIDE DEF X, values, events
    <3> QED
      BY <2>1, <3>1
  <2>3. (\A i \in 1..E : values[i] = Meaning(encoded[i]))
        /\ \A m \in 1..M : events[m] = <<MatchEvent, "string", <<markers[m].type>>>>
    BY <1>2
  <2>4. left = [i \in 1..E + M |-> left[i]] /\ \A i \in 1..E + M : left[i] = Read(starts, entries[i])
    BY <1>1
  <2> HIDE DEF X, values, events, left
  <2> DEFINE right == values \o events
  <2>5. /\ right \in Seq(X) /\ Len(right) = E + M /\ (\A i \in 1..E : right[i] = values[i])
        /\ \A m \in 1..M : right[E + m] = events[m]
    <3>1. values \in Seq(X) /\ events \in Seq(X)
      BY <2>2
    <3>2. /\ right \in Seq(X) /\ Len(right) = Len(values) + Len(events)
          /\ (\A i \in 1..Len(values) : right[i] = values[i])
          /\ \A m \in 1..Len(events) : right[Len(values) + m] = events[m]
      BY <3>1, Joined
    <3> HIDE DEF right
    <3> QED
      BY <2>2, <3>2
  <2> HIDE DEF right
  <2>6. \A i \in 1..E + M : left[i] = right[i]
    <3> SUFFICES ASSUME NEW i \in 1..E + M PROVE left[i] = right[i]
      OBVIOUS
    <3>1. CASE i \in 1..E
      BY <1>7, <2>3, <2>4, <2>5, <3>1
    <3>2. CASE i \notin 1..E
      <4> DEFINE m == i - E
      <4>1. m \in 1..M /\ i = E + m
        BY <1>9, <3>2
      <4> HIDE DEF m
      <4>2. right[E + m] = events[m] /\ Read(starts, entries[E + m]) = events[m]
        BY <1>8, <2>3, <2>5, <4>1
      <4> QED
        BY <2>4, <4>1, <4>2
    <3> QED
      BY <3>1, <3>2
  <2>7. right = [i \in 1..E + M |-> right[i]]
    BY <2>5
  <2> QED
    BY <2>4, <2>6, <2>7 DEF right
<1>11. \A i \in DOMAIN entries : \E j \in DOMAIN starts : Started(starts[j]) = entries[i].id
  <2> SUFFICES ASSUME NEW i \in 1..E + M PROVE entries[i].id \in 1..S
    BY <1>1
  <2>1. CASE i \in 1..E
    BY <1>7, <2>1
  <2>2. CASE i \notin 1..E
    <3>1. i - E \in 1..M /\ i = E + (i - E)
      BY <1>9, <2>2
    <3>2. entries[E + (i - E)].id \in 1..S
      BY <1>8, <3>1
    <3> QED
      BY <3>1, <3>2
  <2> QED
    BY <2>1, <2>2
<1>12. \A i, j \in DOMAIN starts : Started(starts[i]) = Started(starts[j]) => i = j
  BY <1>1
<1>14. [i \in DOMAIN entries |-> Read(starts, entries[i])] =
         [i \in DOMAIN encoded |-> Meaning(encoded[i])]
           \o [i \in DOMAIN markers |-> <<MatchEvent, "string", <<markers[i].type>>>>]
  BY <1>10
<1> HIDE DEF left, values, events
<1> QED
  <2>1. Encoded(text) = encodable(data) /\ Marked(text) = byTs(markerLines(text))
    BY DEF Encoded, Marked, data
  <2> HIDE DEF left, values, events
  <2> QED
    BY <1>11, <1>12, <1>14, <2>1 DEF Faithful, records, starts, entries, data, encoded, markers

\* In what is read back both clocks are kept (convert.go:87-89, 182-212).
THEOREM ConversionsKeepTime ==
  ASSUME NEW text, Convertible(text)
  PROVE  TimesKept(text)
<1> DEFINE entries == entriesOf(Records(Convert(text)))
           data    == dataLines(text)
           encoded == Encoded(text)
           markers == Marked(text)
           start   == sessionStartTS(text)
           base    == minServerTS(data)
           L == DataLinesOf(text)
           E == Len(encoded)
           M == Len(markers)
           at(l) == resolveTimestamp(l, start, base)
<1>1. DOMAIN encoded = 1..E /\ DOMAIN markers = 1..M /\ E \in Nat
  BY EntriesTyped
<1>2. (\A i \in 1..E : entries[i].ts = Values(text)[i].ts) /\ \A m \in 1..M : entries[E + m].ts = Events(text)[m].ts
  BY DownloadRead
<1>3. \A i \in 1..E : entries[i].ts = at(encoded[i])
  BY <1>1, <1>2 DEF Values, ValueAt
<1>4. \A m \in 1..M : entries[E + m].ts = wallClockToMicros(markers[m], start)
  BY <1>1, <1>2 DEF Events
<1>5. /\ data \in Seq(L) /\ \A l \in L : l.serverTs \in Nat /\ l.ts \in Int
  <2>1. \A n \in 0..pow[8] - 1 : n \in Nat
    BY PowersGrow
  <2> QED
    BY <2>1, DataTyped
<1>6. start \in Int /\ \A m \in 1..M : markers[m].ts \in Int
  <2>1. markers \in Seq(MarkersOf(text))
    BY MarkersTyped DEF Marked
  <2> QED
    BY <1>1, <2>1, StartTyped, MarkersTyped
<1>7. \A i \in 1..E : \E k \in DOMAIN data : encoded[i] = data[k]
  BY <1>1, <1>5, EncodedTyped DEF Encoded
<1> HIDE DEF entries, data, encoded, markers, start, base, L, E, M, at
<1>8. \A i, j \in DOMAIN data : data[i].serverTs > 0 /\ data[j].serverTs > 0 =>
        at(data[i]) - at(data[j]) = data[i].serverTs - data[j].serverTs
  <2> DEFINE m == [ts |-> 0]
  <2>1. m.ts \in Int
    OBVIOUS
  <2> HIDE DEF m
  <2> QED
    BY <1>5, <1>6, <2>1, ClocksKept DEF at, base
<1>9. ASSUME NEW m, m.ts \in Int
      PROVE  \A i \in DOMAIN data :
               /\ data[i].serverTs = base /\ base > 0 => at(data[i]) = 0
               /\ InStep(data[i], start, base) =>
                    /\ data[i].ts <= m.ts => at(data[i]) <= wallClockToMicros(m, start)
                    /\ data[i].ts >= m.ts => at(data[i]) >= wallClockToMicros(m, start)
  BY <1>5, <1>6, <1>9, ClocksKept DEF at, base
<1>10. \A i, j \in DOMAIN encoded : encoded[i].serverTs > 0 /\ encoded[j].serverTs > 0 =>
         entries[i].ts - entries[j].ts = encoded[i].serverTs - encoded[j].serverTs
  BY <1>1, <1>3, <1>7, <1>8
<1>11. \A i \in DOMAIN encoded : encoded[i].serverTs = base /\ base > 0 => entries[i].ts = 0
  <2> DEFINE m == [ts |-> 0]
  <2>1. m.ts \in Int
    OBVIOUS
  <2> HIDE DEF m
  <2>2. \A i \in DOMAIN data : data[i].serverTs = base /\ base > 0 => at(data[i]) = 0
    BY <1>9, <2>1
  <2> QED
    BY <1>1, <1>3, <1>7, <2>2
<1>12. \A i \in DOMAIN encoded, m \in DOMAIN markers :
         InStep(encoded[i], start, base) =>
           /\ encoded[i].ts <= markers[m].ts => entries[i].ts <= entries[E + m].ts
           /\ encoded[i].ts >= markers[m].ts => entries[i].ts >= entries[E + m].ts
  <2> SUFFICES ASSUME NEW i \in 1..E, NEW m \in 1..M, InStep(encoded[i], start, base)
               PROVE  /\ encoded[i].ts <= markers[m].ts => entries[i].ts <= entries[E + m].ts
                      /\ encoded[i].ts >= markers[m].ts => entries[i].ts >= entries[E + m].ts
    BY <1>1
  <2>1. PICK k \in DOMAIN data : encoded[i] = data[k]
    BY <1>7
  <2> DEFINE r == markers[m]
  <2>2. r.ts \in Int /\ entries[E + m].ts = wallClockToMicros(r, start)
    BY <1>4, <1>6
  <2> HIDE DEF r
  <2>3. /\ data[k].ts <= r.ts => at(data[k]) <= wallClockToMicros(r, start)
        /\ data[k].ts >= r.ts => at(data[k]) >= wallClockToMicros(r, start)
    BY <1>9, <2>1, <2>2
  <2>4. entries[i].ts = at(data[k])
    BY <1>3, <2>1
  <2> QED
    BY <2>1, <2>2, <2>3, <2>4 DEF r
<1>13. base = IF stamps(data) = {} THEN 0 ELSE CHOOSE t \in stamps(data) : \A u \in stamps(data) : t <= u
  BY DEF base, minServerTS
<1> QED
  BY <1>10, <1>11, <1>12, <1>13 DEF TimesKept, Encoded, Marked, entries, data, encoded, markers, start, E

\* So every download is faithful, whatever the sessions it is made from.
THEOREM DownloadsAreFaithful == Spec => []RecordsFaithful
<1>1. RecordsFaithful
  BY ConversionsAreFaithful, SessionsAssumption DEF RecordsFaithful, AllFaithful
<1> QED
  BY <1>1, PTL

\* And keeps the time.
THEOREM DownloadsKeepTime == Spec => []TimesFaithful
<1>1. TimesFaithful
  BY ConversionsKeepTime, SessionsAssumption DEF TimesFaithful, AllTimesKept
<1> QED
  BY <1>1, PTL
=============================================================================
