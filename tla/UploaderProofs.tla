--------------------------- MODULE UploaderProofs ---------------------------
(***************************************************************************)
(* Proofs about internal/uploader: Uploader, for any number of files and   *)
(* targets, any file contents, batch size and sequence of configurations,  *)
(* and UploadAuth, for any durations its margin suffices for.              *)
(***************************************************************************)
EXTENDS Uploader, UploadAuth, SequenceTheorems, TLAPS

InUpload == {"session", "data", "mark"}

\* A file that was never listed while open has been closed.
Closed(f) == f \notin raced => f # writer

\* Whatever is named anywhere has been created.
Created ==
  /\ \A f \in pending : lines[f] # Nil
  /\ writer # Nil => lines[writer] # Nil
  /\ \A m \in marks : lines[m[1]] # Nil
  /\ \A t \in Targets : pc[t] = "owe" =>
       \A f \in todo[t] : lines[f] # Nil /\ Closed(f)

\* Only targets of the running configuration work, and Boot only finalizes.
Working ==
  /\ pc[Boot] \in {"idle", "sweep", "sweeping"}
  /\ \A p \in Procs : pc[p] # "idle" => config.enabled # {}
  /\ \A t \in Targets : pc[t] # "idle" => t \in config.configured
  /\ due \subseteq config.configured
  /\ \A t \in Targets : pc[t] \in {"settle", "settling"} => file[t] \in Files

\* The file a target uploads: in place, not marked yet, closed, and what was
\* read of it is on disk.
Job(t) ==
  /\ file[t] \in pending /\ <<file[t], t>> \notin marks /\ Closed(file[t])
  /\ pc[t] \in {"session", "data"} =>
       /\ Len(stored[t][file[t]]) <= total[t] /\ total[t] <= Entries(file[t])
       /\ file[t] \notin raced => total[t] = Entries(file[t])
  /\ pc[t] = "data" => next[t] = Len(stored[t][file[t]]) + 1
  /\ pc[t] = "mark" /\ file[t] \notin raced => Delivered(file[t], t)

Uploads == \A t \in Targets : pc[t] \in InUpload => Job(t)

IInv ==
  /\ TypeOK
  /\ Created
  /\ Working
  /\ Uploads
  /\ MarkersTrue
  /\ StoredIsPrefix

-----------------------------------------------------------------------------
(* Types *)

USE DEF Where

LEMMA ConstantFacts ==
  /\ Files \subseteq Nat /\ Targets \subseteq Nat /\ 0 \notin Targets
  /\ Nil \notin Nat /\ Nil \notin Files
  /\ BatchSize \in Nat /\ BatchSize > 0
  /\ Content \in [Files -> Nat]
  /\ \A c \in Configs : c.configured \subseteq c.enabled /\ c.enabled \subseteq Targets
<1>1. Files \subseteq Nat /\ Targets \subseteq Nat /\ 0 \notin Targets /\ Nil \notin Nat
  BY UploaderAssumption
<1>2. BatchSize \in Nat /\ BatchSize > 0
  BY UploaderAssumption
<1>3. QED
  BY <1>1, <1>2, UploaderAssumption, Zenon

LEMMA EntriesNat == ASSUME TypeOK, NEW f \in Files PROVE Entries(f) \in Nat
BY DEF TypeOK, Entries

LEMMA InitTyped == Init => TypeOK
<1> SUFFICES ASSUME Init PROVE TypeOK
  OBVIOUS
<1>1. stored \in [Targets -> [Files -> Seq(Nat)]]
  BY DEF Init
<1>2. QED
  BY <1>1, ConstantFacts DEF Init, TypeOK, NoWork

\* The variables one upload attempt works with.
JobTyped ==
  /\ pc \in [Procs -> Where]
  /\ file \in [Targets -> Files \cup {Nil}]
  /\ total \in [Targets -> Nat] /\ next \in [Targets -> Nat]
  /\ backoff \in [Targets -> BOOLEAN] /\ failed \subseteq Targets

\* What one failed attempt does to the types.
LEMMA GiveUpTyped ==
  ASSUME TypeOK, NEW t \in Targets, GiveUp(t)
  PROVE  JobTyped'
BY DEF TypeOK, GiveUp, Where, JobTyped

LEMMA ProcessTyped ==
  ASSUME TypeOK, Start \/ (Stopped /\ uploaded' \subseteq uploaded) \/ Shutdown \/ SetPause
  PROVE  TypeOK'
<1>1. ASSUME Start PROVE TypeOK'
  <2>1. config' \in Configs
    BY <1>1 DEF Start
  <2>2. pc' \in [Procs -> Where]
    BY <1>1 DEF Start, NoWork
  <2>3. QED
    BY <1>1, <2>1, <2>2, ConstantFacts
       DEF Start, Forget, NoWork, TypeOK, logger, Procs
<1>2. ASSUME Stopped, uploaded' \subseteq uploaded PROVE TypeOK'
  BY <1>2, ConstantFacts DEF Stopped, Forget, NoWork, TypeOK, Procs
<1>3. ASSUME Shutdown PROVE TypeOK'
  BY <1>3 DEF Shutdown, TypeOK, logger, disk, work, drain
<1>4. ASSUME SetPause PROVE TypeOK'
  BY <1>4 DEF SetPause, TypeOK, logger, disk, work, drain
<1>5. QED
  BY <1>1, <1>2, <1>3, <1>4

LEMMA LoggerTyped == ASSUME TypeOK, Created, Logger PROVE TypeOK'
<1>1. ASSUME CreateSession PROVE TypeOK'
  BY <1>1 DEF CreateSession, Session!Create, TypeOK, work, drain
<1>2. ASSUME PublishSession PROVE TypeOK'
  BY <1>2 DEF PublishSession, Session!Publish, TypeOK, disk, work, drain
<1>3. ASSUME FlushLines PROVE TypeOK'
  <2>1. PICK n \in lines[writer] + 1 .. Content[writer] :
              lines' = [lines EXCEPT ![writer] = n]
    BY <1>3 DEF FlushLines, Session!Flush
  <2>2. lines[writer] \in Nat /\ writer \in Files
    BY <1>3, ConstantFacts DEF FlushLines, Session!Flush, TypeOK, Created
  <2>3. Content[writer] \in Nat
    BY <2>2, ConstantFacts
  <2>4. n \in Nat
    BY <2>1, <2>2, <2>3
  <2>5. lines' \in [Files -> Nat \cup {Nil}]
    BY <2>1, <2>4 DEF TypeOK
  <2>6. QED
    BY <1>3, <2>5 DEF FlushLines, Session!Flush, TypeOK, logger, work, drain
<1>4. ASSUME CloseSession PROVE TypeOK'
  BY <1>4 DEF CloseSession, Session!Close, TypeOK, disk, work, drain
<1>5. ASSUME ClearSession PROVE TypeOK'
  BY <1>5 DEF ClearSession, Session!Clear, TypeOK, disk, work, drain
<1>6. QED
  BY <1>1, <1>2, <1>3, <1>4, <1>5 DEF Logger

LEMMA DrainTyped == ASSUME TypeOK, Drain PROVE TypeOK'
<1>1. ASSUME BeginDrain PROVE TypeOK'
  BY <1>1 DEF BeginDrain, TypeOK, logger, disk
<1>2. ASSUME DrainTarget PROVE TypeOK'
  BY <1>2 DEF DrainTarget, TypeOK, logger, disk, Oldest, Procs
<1>3. ASSUME NextPass PROVE TypeOK'
  BY <1>3 DEF NextPass, TypeOK, logger, disk, work
<1>4. ASSUME DrainDeadline \/ DrainComplete PROVE TypeOK'
  BY <1>4, ProcessTyped DEF DrainDeadline, DrainComplete, Exit
<1>5. QED
  BY <1>1, <1>2, <1>3, <1>4 DEF Drain

LEMMA FinalizerTyped ==
  ASSUME TypeOK, Working, NEW p \in Procs, Finalizer(p) PROVE TypeOK'
<1>1. ASSUME Acquire(p) PROVE TypeOK'
  BY <1>1 DEF Acquire, TypeOK, Working, logger, disk, drain, Procs
<1>2. ASSUME Finalize(p) PROVE TypeOK'
  BY <1>2 DEF Finalize, TypeOK, logger, drain, Oldest
<1>3. ASSUME Cleanup(p) PROVE TypeOK'
  BY <1>3 DEF Cleanup, TypeOK, logger, drain
<1>4. ASSUME Release(p) PROVE TypeOK'
  BY <1>4 DEF Release, TypeOK, logger, disk, drain
<1>5. QED
  BY <1>1, <1>2, <1>3, <1>4 DEF Finalizer

LEMMA BatchTyped ==
  ASSUME TypeOK, NEW t \in Targets, next[t] \in Nat \ {0}, next[t] <= total[t]
  PROVE  /\ Batch(t) \in Seq(Nat) /\ LastOfBatch(t) \in Nat
         /\ next[t] <= LastOfBatch(t) /\ LastOfBatch(t) <= total[t]
         /\ Len(Batch(t)) = LastOfBatch(t) - next[t] + 1
<1>1. total[t] \in Nat
  BY DEF TypeOK
<1>2. /\ LastOfBatch(t) \in Nat /\ next[t] <= LastOfBatch(t) /\ LastOfBatch(t) <= total[t]
  BY <1>1, ConstantFacts DEF LastOfBatch, Lesser
<1>3. LastOfBatch(t) - next[t] + 1 \in Nat
  BY <1>2
<1>4. \A i \in 1 .. LastOfBatch(t) - next[t] + 1 : next[t] + i - 1 \in Nat
  BY <1>2
<1>5. QED
  BY <1>2, <1>3, <1>4 DEF Batch

\* The successful outcome of ReadFile.
ReadsOldest(t, f) ==
  /\ f \in pending
  /\ pc' = [pc EXCEPT ![t] = IF lines[f] = 0 THEN "mark" ELSE "session"]
  /\ file' = [file EXCEPT ![t] = f]
  /\ total' = [total EXCEPT ![t] = Entries(f)]
  /\ UNCHANGED <<next, backoff, failed>>

\* The successful outcome of Mark.
Marks(t) ==
  /\ marks' = marks \cup {<<file[t], t>>}
  /\ pc' = [pc EXCEPT ![t] = "settle"]
  /\ backoff' = [backoff EXCEPT ![t] = FALSE]
  /\ progressed' = (phase = "draining")
  /\ total' = [total EXCEPT ![t] = 0]
  /\ next' = [next EXCEPT ![t] = 0]
  /\ UNCHANGED <<file, failed>>

LEMMA UploadTyped ==
  ASSUME IInv, NEW t \in Targets, Tick(t) \/ Upload(t) \/ BackoffEnds(t)
  PROVE  TypeOK'
<1> USE DEF IInv
<1>1. ASSUME Tick(t) PROVE TypeOK'
  BY <1>1 DEF Tick, TypeOK, logger, disk, drain
<1>2. ASSUME Ping(t) PROVE TypeOK'
  BY <1>2 DEF Ping, TypeOK, logger, disk, drain
<1>3. ASSUME List(t) PROVE TypeOK'
  BY <1>3 DEF List, TypeOK, logger, disk, drain, Procs
<1>4. ASSUME NothingToSend(t) PROVE TypeOK'
  BY <1>4 DEF NothingToSend, TypeOK, logger, disk, drain, Procs
<1>5. ASSUME ReadFile(t) PROVE TypeOK'
  <2>1. PICK f \in Oldest(Owing(t)) : GiveUp(t) \/ ReadsOldest(t, f)
    BY <1>5 DEF ReadFile, ReadsOldest
  <2>2. f \in Files
    BY <2>1 DEF Oldest, Owing, TypeOK, Procs
  <2>3. Entries(f) \in Nat
    BY <2>2, EntriesNat
  <2>4. ASSUME ReadsOldest(t, f) PROVE JobTyped'
    <3>1. pc' \in [Procs -> Where]
      BY <2>4 DEF ReadsOldest, TypeOK
    <3>2. file' \in [Targets -> Files \cup {Nil}] /\ total' \in [Targets -> Nat]
      BY <2>2, <2>3, <2>4 DEF ReadsOldest, TypeOK
    <3>3. QED
      BY <2>4, <3>1, <3>2 DEF ReadsOldest, JobTyped, TypeOK
  <2>5. JobTyped'
    BY <2>1, <2>4, GiveUpTyped
  <2>6. todo' \in [Procs -> SUBSET Files]
    BY <1>5 DEF ReadFile, TypeOK
  <2>7. QED
    BY <1>5, <2>5, <2>6 DEF ReadFile, JobTyped, TypeOK, logger, disk
<1>6. ASSUME Handshake(t) PROVE TypeOK'
  <2>1. file[t] \in Files
    BY <1>6 DEF Handshake, Uploads, Job, InUpload, TypeOK
  <2>2. UploadedCount(t) + 1 \in Nat
    BY <2>1 DEF UploadedCount, TypeOK
  <2>3. GiveUp(t) \/ JobTyped'
    BY <1>6, <2>2 DEF Handshake, JobTyped, TypeOK
  <2>4. QED
    BY <1>6, <2>3, GiveUpTyped DEF Handshake, Remote, JobTyped, TypeOK, logger, disk
<1>7. ASSUME SendBatch(t) PROVE TypeOK'
  <2>1. file[t] \in Files /\ pc[t] = "data" /\ next[t] <= total[t]
    BY <1>7 DEF SendBatch, Uploads, Job, InUpload, TypeOK
  <2>2. stored[t][file[t]] \in Seq(Nat)
    BY <2>1 DEF TypeOK
  <2>3. next[t] = Len(stored[t][file[t]]) + 1
    BY <2>1 DEF Uploads, Job, InUpload
  <2>4. next[t] \in Nat \ {0}
    BY <2>2, <2>3
  <2>5. Batch(t) \in Seq(Nat) /\ LastOfBatch(t) + 1 \in Nat
    BY <2>1, <2>4, BatchTyped
  <2>6. stored[t][file[t]] \o Batch(t) \in Seq(Nat)
    BY <2>2, <2>5
  <2>7. stored' \in [Targets -> [Files -> Seq(Nat)]]
    <3>1. [stored[t] EXCEPT ![file[t]] = @ \o Batch(t)] \in [Files -> Seq(Nat)]
      BY <2>6 DEF TypeOK
    <3>2. [stored EXCEPT ![t][file[t]] = @ \o Batch(t)] \in [Targets -> [Files -> Seq(Nat)]]
      BY <3>1 DEF TypeOK
    <3>3. QED
      BY <1>7, <3>2 DEF SendBatch, TypeOK
  <2>8. GiveUp(t) \/ JobTyped'
    BY <1>7, <2>5 DEF SendBatch, JobTyped, TypeOK
  <2>9. QED
    BY <1>7, <2>7, <2>8, GiveUpTyped DEF SendBatch, Remote, JobTyped, TypeOK, logger, disk
<1>8. ASSUME Complete(t) PROVE TypeOK'
  <2>1. GiveUp(t) \/ JobTyped'
    BY <1>8 DEF Complete, JobTyped, TypeOK
  <2>2. QED
    BY <1>8, <2>1, GiveUpTyped DEF Complete, Remote, JobTyped, TypeOK, logger, disk
<1>9. ASSUME Mark(t) PROVE TypeOK'
  <2>1. file[t] \in Files
    BY <1>9 DEF Mark, Uploads, Job, InUpload, TypeOK
  <2>2. \/ GiveUp(t) /\ UNCHANGED <<marks, progressed>>
        \/ Marks(t)
    BY <1>9 DEF Mark, Marks
  <2>3. ASSUME Marks(t) PROVE JobTyped'
    <3>1. pc' \in [Procs -> Where] /\ backoff' \in [Targets -> BOOLEAN]
      BY <2>3 DEF Marks, TypeOK
    <3>2. total' \in [Targets -> Nat] /\ next' \in [Targets -> Nat]
      BY <2>3 DEF Marks, TypeOK
    <3>3. QED
      BY <2>3, <3>1, <3>2 DEF Marks, JobTyped, TypeOK
  <2>4. marks' \subseteq Files \X Targets
    BY <2>1, <2>2 DEF Marks, TypeOK
  <2>5. progressed' \in BOOLEAN
    BY <2>2 DEF Marks, TypeOK
  <2>6. QED
    BY <1>9, <2>2, <2>3, <2>4, <2>5, GiveUpTyped DEF Mark, JobTyped, TypeOK, logger
<1>10. ASSUME BackoffEnds(t) PROVE TypeOK'
  BY <1>10 DEF BackoffEnds, TypeOK, logger, disk, drain
<1>11. QED
  BY <1>1, <1>2, <1>3, <1>4, <1>5, <1>6, <1>7, <1>8, <1>9, <1>10 DEF Upload

LEMMA StepTyped == ASSUME IInv, [Next]_vars PROVE TypeOK'
<1>1. CASE UNCHANGED vars
  BY <1>1 DEF IInv, TypeOK, vars, logger, disk, work, drain
<1>2. CASE Crash
  <2>1. Stopped /\ uploaded' \subseteq uploaded
    BY <1>2 DEF Crash
  <2>2. QED
    BY <2>1, ProcessTyped DEF IInv
<1>3. CASE Start \/ Shutdown \/ SetPause
  BY <1>3, ProcessTyped DEF IInv
<1>4. CASE Logger
  BY <1>4, LoggerTyped DEF IInv
<1>5. CASE \E t \in Targets : Tick(t) \/ Upload(t) \/ BackoffEnds(t)
  BY <1>5, UploadTyped
<1>6. CASE \E p \in Procs : Finalizer(p)
  BY <1>6, FinalizerTyped DEF IInv
<1>7. CASE Drain
  BY <1>7, DrainTyped DEF IInv
<1>8. QED
  BY <1>1, <1>2, <1>3, <1>4, <1>5, <1>6, <1>7 DEF Next

-----------------------------------------------------------------------------
(* Steps that touch neither disk, servers nor the file being written *)

\* A process keeps its job, or stands where it holds none.
Steady(p) ==
  \/ /\ UNCHANGED <<pc[p], todo[p]>>
     /\ p \in Targets => UNCHANGED <<file[p], total[p], next[p]>>
  \/ /\ pc'[p] \notin InUpload \cup {"owe"}
     /\ pc'[p] # "idle" => config.enabled # {}
     /\ p \in Targets /\ pc'[p] # "idle" => p \in config.configured
     /\ p \in Targets /\ pc'[p] \in {"settle", "settling"} => file'[p] \in Files
     /\ p = Boot => pc'[p] \in {"idle", "sweep", "sweeping"}

LEMMA Frame ==
  ASSUME IInv, TypeOK', \A p \in Procs : Steady(p), due' \subseteq config.configured,
         UNCHANGED <<config, pending, lines, marks, stored, raced>>,
         writer' = writer \/ writer' = Nil
  PROVE  IInv'
<1>1. Targets \subseteq Procs /\ Boot \in Procs /\ Boot \notin Targets
  BY ConstantFacts DEF Procs, Boot
<1>2. \A f \in Files : Closed(f) => Closed(f)'
  BY ConstantFacts DEF Closed
<1>3. \A f \in Files : Entries(f)' = Entries(f)
  BY DEF Entries
<1>4. Created'
  <2>1. ASSUME NEW t \in Targets, pc'[t] = "owe", NEW f \in todo'[t]
        PROVE  lines'[f] # Nil /\ Closed(f)'
    <3>1. pc[t] = "owe" /\ f \in todo[t]
      BY <1>1, <2>1 DEF Steady, InUpload
    <3>2. f \in Files
      BY <1>1, <3>1 DEF IInv, TypeOK
    <3>3. QED
      BY <1>2, <3>1, <3>2 DEF IInv, Created
  <2>2. QED
    BY <2>1 DEF IInv, Created
<1>5. Working'
  BY <1>1 DEF IInv, Working, Steady
<1>6. Uploads'
  <2> SUFFICES ASSUME NEW t \in Targets, pc'[t] \in InUpload PROVE Job(t)'
    BY DEF Uploads
  <2>1. UNCHANGED <<pc[t], file[t], total[t], next[t]>>
    BY <1>1 DEF Steady
  <2>2. file[t] \in Files
    BY <2>1 DEF IInv, Uploads, Job, TypeOK
  <2>3. QED
    BY <1>2, <1>3, <2>1, <2>2 DEF IInv, Uploads, Job, Delivered
<1>7. MarkersTrue'
  <2> SUFFICES ASSUME NEW m \in marks, m[1] \notin raced
               PROVE  m[1] # writer' /\ Delivered(m[1], m[2])'
    BY DEF MarkersTrue
  <2>1. m[1] \in Files /\ m[2] \in Targets
    BY DEF IInv, TypeOK
  <2>2. QED
    BY <1>3, <2>1, ConstantFacts DEF IInv, MarkersTrue, Delivered
<1>8. StoredIsPrefix'
  BY <1>3 DEF IInv, StoredIsPrefix
<1>9. QED
  BY <1>4, <1>5, <1>6, <1>7, <1>8 DEF IInv

\* A target that gives up holds no job.
LEMMA GiveUpSteady ==
  ASSUME IInv, NEW t \in Targets, GiveUp(t),
         \A p \in Procs : p # t => todo'[p] = todo[p]
  PROVE  \A p \in Procs : Steady(p)
BY ConstantFacts DEF GiveUp, Steady, InUpload, Procs, Boot, IInv, TypeOK

\* The same for a step that moves one process to a place without a job.
LEMMA MoveSteady ==
  ASSUME IInv, NEW p \in Procs, NEW where \in Where \ (InUpload \cup {"owe"}),
         pc' = [pc EXCEPT ![p] = where],
         p = Boot => where \in {"idle", "sweep", "sweeping"},
         where # "idle" => config.enabled # {},
         p \in Targets /\ where # "idle" => p \in config.configured,
         p \in Targets /\ where \in {"settle", "settling"} => file'[p] \in Files,
         \A q \in Procs : q # p => todo'[q] = todo[q],
         \A q \in Targets : q # p => file'[q] = file[q],
         UNCHANGED <<total, next>>
  PROVE  \A q \in Procs : Steady(q)
BY ConstantFacts DEF Steady, InUpload, Procs, Boot, IInv, TypeOK

LEMMA ProcessFramed ==
  ASSUME IInv, TypeOK', Stopped \/ Shutdown \/ SetPause \/ PublishSession \/ CloseSession
                        \/ ClearSession
  PROVE  IInv'
<1>1. CASE Stopped
  <2>1. \A p \in Procs : Steady(p)
    BY <1>1, ConstantFacts DEF Stopped, NoWork, Steady, InUpload, Procs
  <2>2. QED
    BY <1>1, <2>1, Frame DEF Stopped, Forget
<1>2. CASE Shutdown \/ SetPause
  BY <1>2, Frame DEF Shutdown, SetPause, Steady, logger, disk, work, drain, IInv, Working
<1>3. CASE PublishSession \/ CloseSession \/ ClearSession
  BY <1>3, Frame
     DEF PublishSession, Session!Publish, CloseSession, Session!Close, ClearSession,
         Session!Clear, Steady, disk, work, drain,
     IInv, Working
<1>4. QED
  BY <1>1, <1>2, <1>3

LEMMA TargetFramed ==
  ASSUME IInv, TypeOK', NEW t \in Targets,
         Tick(t) \/ Ping(t) \/ NothingToSend(t) \/ BackoffEnds(t)
  PROVE  IInv'
<1> USE DEF IInv, Working, logger, disk, drain
<1>0. t \in Procs /\ t # Boot
  BY ConstantFacts DEF Procs, Boot
<1>1. CASE Tick(t)
  <2>1. config.enabled # {}
    BY <1>1 DEF Tick, TypeOK
  <2>2. \A q \in Procs : Steady(q)
    BY <1>0, <1>1, <2>1, MoveSteady DEF Tick, InUpload
  <2>3. QED
    BY <1>1, <2>2, Frame DEF Tick
<1>2. CASE Ping(t)
  <2>1. config.enabled # {} /\ t \in config.configured
    BY <1>0, <1>2 DEF Ping
  <2>2. \A q \in Procs : Steady(q)
    BY <1>0, <1>2, <2>1, MoveSteady DEF Ping, InUpload
  <2>3. QED
    BY <1>2, <2>2, Frame DEF Ping
<1>3. CASE NothingToSend(t)
  <2>1. \A q \in Procs : q # t => todo'[q] = todo[q]
    BY <1>3 DEF NothingToSend, TypeOK
  <2>2. \A q \in Procs : Steady(q)
    BY <1>0, <1>3, <2>1, MoveSteady DEF NothingToSend, InUpload
  <2>3. QED
    BY <1>3, <2>2, Frame DEF NothingToSend
<1>4. CASE BackoffEnds(t)
  BY <1>4, Frame DEF BackoffEnds, Steady
<1>5. QED
  BY <1>1, <1>2, <1>3, <1>4

LEMMA DrainFramed ==
  ASSUME IInv, TypeOK', Drain
  PROVE  IInv'
<1> USE DEF IInv, logger, disk, work
<1>1. CASE BeginDrain
  BY <1>1, Frame DEF BeginDrain, Steady
<1>2. CASE DrainTarget
  <2>1. PICK t \in Oldest(due) : due' = due \ {t} /\ pc' = [pc EXCEPT ![t] = "list"]
    BY <1>2 DEF DrainTarget
  <2>2. t \in config.configured /\ t \in Targets /\ t \in Procs /\ t # Boot
    BY <2>1, ConstantFacts DEF Oldest, Working, TypeOK, Procs, Boot
  <2>3. config.enabled # {}
    BY <2>2 DEF TypeOK
  <2>4. \A q \in Procs : Steady(q)
    BY <1>2, <2>1, <2>2, <2>3, MoveSteady DEF DrainTarget, InUpload
  <2>5. due' \subseteq config.configured
    BY <2>1 DEF Working
  <2>6. QED
    BY <1>2, <2>4, <2>5, Frame DEF DrainTarget
<1>3. CASE NextPass
  BY <1>3, Frame DEF NextPass, Steady
<1>4. CASE DrainDeadline \/ DrainComplete
  BY <1>4, ProcessFramed DEF DrainDeadline, DrainComplete, Exit
<1>5. QED
  BY <1>1, <1>2, <1>3, <1>4 DEF Drain

LEMMA LockFramed ==
  ASSUME IInv, TypeOK', NEW p \in Procs, Acquire(p) \/ Release(p)
  PROVE  IInv'
<1> USE DEF IInv, Working, logger, disk, drain
<1>0. Boot \notin Targets /\ Boot \in Procs
  BY ConstantFacts DEF Boot, Procs
<1>1. CASE Acquire(p)
  <2> DEFINE where == IF pc[p] = "sweep" THEN "sweeping" ELSE "settling"
  <2>1. pc' = [pc EXCEPT ![p] = where] /\ where \in Where \ (InUpload \cup {"owe"})
    BY <1>1 DEF Acquire, InUpload
  <2>2. config.enabled # {} /\ (p \in Targets => p \in config.configured)
    BY <1>1 DEF Acquire
  <2>3. /\ p = Boot => where \in {"idle", "sweep", "sweeping"}
        /\ p \in Targets /\ where \in {"settle", "settling"} => file'[p] \in Files
    BY <1>1 DEF Acquire
  <2>4. \A q \in Procs : q # p => todo'[q] = todo[q]
    BY <1>1 DEF Acquire, TypeOK
  <2>5. \A q \in Procs : Steady(q)
    BY <1>1, <2>1, <2>2, <2>3, <2>4, MoveSteady DEF Acquire
  <2>6. QED
    BY <1>1, <2>5, Frame DEF Acquire
<1>2. CASE Release(p)
  <2> DEFINE where == IF pc[p] = "sweeping" /\ p # Boot THEN "list" ELSE "idle"
  <2>1. pc' = [pc EXCEPT ![p] = where] /\ where \in Where \ (InUpload \cup {"owe"})
    BY <1>2 DEF Release, InUpload
  <2>2. config.enabled # {} /\ (p \in Targets => p \in config.configured)
    BY <1>2 DEF Release, Locked
  <2>3. p = Boot => where \in {"idle", "sweep", "sweeping"}
    OBVIOUS
  <2>4. \A q \in Targets : q # p => file'[q] = file[q]
    BY <1>2 DEF Release
  <2>5. \A q \in Procs : Steady(q)
    BY <1>2, <2>1, <2>2, <2>3, <2>4, MoveSteady DEF Release
  <2>6. QED
    BY <1>2, <2>5, Frame DEF Release
<1>3. QED
  BY <1>1, <1>2

-----------------------------------------------------------------------------
(* Steps that change the disk, a server or a job *)

LEMMA SequenceFacts ==
  ASSUME NEW n \in Nat
  PROVE  Sequence(n) \in Seq(Nat) /\ Len(Sequence(n)) = n /\ DOMAIN Sequence(n) = 1..n
BY DEF Sequence

LEMMA PrefixFacts ==
  ASSUME IInv, NEW t \in Targets, NEW f \in Files
  PROVE  /\ stored[t][f] \in Seq(Nat) /\ Len(stored[t][f]) \in Nat
         /\ stored[t][f] = Sequence(Len(stored[t][f]))
         /\ Entries(f) \in Nat /\ Len(stored[t][f]) <= Entries(f)
<1>1. stored[t][f] \in Seq(Nat)
  BY DEF IInv, TypeOK
<1>2. QED
  BY <1>1, EntriesNat DEF IInv, StoredIsPrefix

\* What one target does leaves the jobs of the others alone.
LEMMA JobKept ==
  ASSUME IInv, NEW t \in Targets, pc[t] \in InUpload,
         UNCHANGED <<pc[t], file[t], total[t], next[t], writer, pending, lines>>,
         raced \subseteq raced', stored'[t] = stored[t],
         <<file[t], t>> \in marks' => <<file[t], t>> \in marks
  PROVE  Job(t)'
<1>1. Job(t)
  BY DEF IInv, Uploads
<1>2. Entries(file[t])' = Entries(file[t])
  BY DEF Entries
<1>3. QED
  BY <1>1, <1>2 DEF Job, Closed, Delivered

LEMMA StartInv == ASSUME IInv, TypeOK', Start PROVE IInv'
<1> USE DEF Start, IInv
<1>1. pc' \in [Procs -> {"idle", "sweep"}] /\ \A t \in Targets : pc'[t] = "idle"
  BY ConstantFacts DEF NoWork, Procs, Boot
<1>2. marks' \subseteq marks /\ UNCHANGED <<pending, writer, lines, stored, raced>>
  BY DEF logger
<1>3. Created'
  BY <1>1, <1>2 DEF Created
<1>4. Working'
  <2>1. pc'[Boot] # "idle" => config'.enabled # {}
    BY DEF NoWork, Procs
  <2>2. due' = {}
    BY DEF Forget
  <2>3. QED
    BY <1>1, <2>1, <2>2 DEF Working, Procs
<1>5. Uploads'
  BY <1>1 DEF Uploads, InUpload
<1>6. MarkersTrue'
  BY <1>2 DEF MarkersTrue, Delivered, Entries
<1>7. StoredIsPrefix'
  BY <1>2 DEF StoredIsPrefix, Entries
<1>8. QED
  BY <1>3, <1>4, <1>5, <1>6, <1>7

LEMMA WorkingKept ==
  ASSUME Working, UNCHANGED <<config, pc, due, file>> PROVE Working'
BY DEF Working

LEMMA CreateInv == ASSUME IInv, TypeOK', CreateSession PROVE IInv'
<1> USE DEF IInv
<1>1. PICK f \in Files : /\ lines[f] = Nil /\ writer' = f
                         /\ pending' = pending \cup {f}
                         /\ lines' = [lines EXCEPT ![f] = 0]
  BY DEF CreateSession, Session!Create
<1>2. UNCHANGED <<config, marks, stored, raced, pc, due, file, todo, total, next>> /\ writer = Nil
  BY DEF CreateSession, Session!Create, work, drain
<1>3. \A g \in Files : g # f => lines'[g] = lines[g] /\ Entries(g)' = Entries(g)
  BY <1>1 DEF Entries, TypeOK
<1>4. lines'[f] = 0 /\ 0 # Nil /\ Entries(f) = 0 /\ Entries(f)' = 0
  BY <1>1, ConstantFacts DEF Entries, TypeOK
<1>5. \A g \in Files : Entries(g)' = Entries(g)
  BY <1>3, <1>4
<1>6. Created'
  <2>1. ASSUME NEW t \in Targets, pc'[t] = "owe", NEW g \in todo'[t]
        PROVE  lines'[g] # Nil /\ Closed(g)'
    <3>1. g \in Files /\ lines[g] # Nil
      BY <1>2, <2>1 DEF Created, TypeOK, Procs
    <3>2. QED
      BY <1>1, <1>3, <3>1 DEF Closed
  <2>2. \A m \in marks' : lines'[m[1]] # Nil
    BY <1>1, <1>2, <1>3 DEF Created, TypeOK
  <2>3. \A g \in pending' : lines'[g] # Nil
    BY <1>1, <1>3, <1>4 DEF Created, TypeOK
  <2>4. QED
    BY <1>1, <1>4, <2>1, <2>2, <2>3 DEF Created
<1>7. Working'
  BY <1>2, WorkingKept
<1>8. Uploads'
  <2> SUFFICES ASSUME NEW t \in Targets, pc'[t] \in InUpload PROVE Job(t)'
    BY DEF Uploads
  <2>1. Job(t) /\ file[t] \in Files /\ lines[file[t]] # Nil
    BY <1>2 DEF Uploads, Job, Created, TypeOK
  <2>2. file[t] # f
    BY <1>1, <2>1
  <2>3. QED
    BY <1>1, <1>2, <1>5, <2>1, <2>2 DEF Job, Closed, Delivered
<1>9. MarkersTrue'
  <2> SUFFICES ASSUME NEW m \in marks, m[1] \notin raced
               PROVE  m[1] # writer' /\ Delivered(m[1], m[2])'
    BY <1>2 DEF MarkersTrue
  <2>1. m[1] \in Files /\ lines[m[1]] # Nil
    BY DEF Created, TypeOK
  <2>2. QED
    BY <1>1, <1>2, <1>5, <2>1 DEF MarkersTrue, Delivered
<1>10. StoredIsPrefix'
  BY <1>2, <1>5 DEF StoredIsPrefix
<1>11. QED
  BY <1>6, <1>7, <1>8, <1>9, <1>10

LEMMA FlushInv == ASSUME IInv, TypeOK', FlushLines PROVE IInv'
<1> USE DEF IInv
<1>1. PICK n \in lines[writer] + 1 .. Content[writer] :
            lines' = [lines EXCEPT ![writer] = n]
  BY DEF FlushLines, Session!Flush
<1>2. UNCHANGED <<config, writer, pending, marks, stored, raced, pc, due, file, todo, total,
                  next>>
  BY DEF FlushLines, Session!Flush, logger, work, drain
<1>3. writer \in Files /\ lines[writer] \in Nat
  BY ConstantFacts DEF FlushLines, Session!Flush, TypeOK, Created
<1>4. n \in Nat /\ n >= lines[writer] /\ n # Nil
  BY <1>1, <1>3, ConstantFacts
<1>5. \A g \in Files : g # writer => lines'[g] = lines[g] /\ Entries(g)' = Entries(g)
  BY <1>1 DEF Entries, TypeOK
<1>6. \A g \in Files : lines[g] # Nil => lines'[g] # Nil
  BY <1>1, <1>4, <1>5 DEF TypeOK
<1>7. Entries(writer)' \in Nat /\ Entries(writer) \in Nat /\ Entries(writer)' >= Entries(writer)
  <2>1. lines'[writer] = n
    BY <1>1, <1>3 DEF TypeOK
  <2>2. Entries(writer)' = IF n > 0 THEN n - 1 ELSE 0
    BY <1>2, <1>4, <2>1 DEF Entries
  <2>3. Entries(writer) = IF lines[writer] > 0 THEN lines[writer] - 1 ELSE 0
    BY <1>3 DEF Entries
  <2>4. QED
    BY <1>3, <1>4, <2>2, <2>3
<1>8. \A g \in Files : Entries(g)' \in Nat /\ Entries(g) \in Nat /\ Entries(g)' >= Entries(g)
  <2>1. \A g \in Files : Entries(g) \in Nat
    BY EntriesNat
  <2>2. \A g \in Files : g # writer => Entries(g)' \in Nat /\ Entries(g)' >= Entries(g)
    BY <1>5, <2>1
  <2>3. \A g \in Files : g = writer => Entries(g)' = Entries(writer)'
    BY <1>2 DEF Entries
  <2>4. QED
    BY <1>7, <2>1, <2>2, <2>3
<1>9. Created'
  <2>1. \A t \in Targets : pc[t] = "owe" => todo[t] \subseteq Files
    BY DEF TypeOK, Procs
  <2>2. QED
    BY <1>2, <1>3, <1>6, <2>1 DEF Created, Closed, TypeOK
<1>10. Working'
  BY <1>2, WorkingKept
<1>11. Uploads'
  <2> SUFFICES ASSUME NEW t \in Targets, pc'[t] \in InUpload PROVE Job(t)'
    BY DEF Uploads
  <2>1. Job(t) /\ file[t] \in Files
    BY <1>2 DEF Uploads, Job, TypeOK
  <2>2. CASE file[t] # writer
    BY <1>2, <1>5, <2>1, <2>2 DEF Job, Closed, Delivered
  <2>3. CASE file[t] = writer
    <3>1. file[t] \in raced
      BY <2>1, <2>3 DEF Job, Closed
    <3>2. total[t] \in Nat
      BY DEF TypeOK
    <3>3. total[t] <= Entries(file[t]) => total[t] <= Entries(file[t])'
      BY <1>2, <1>8, <2>1, <3>2
    <3>4. QED
      BY <1>2, <2>1, <3>1, <3>3 DEF Job, Closed
  <2>4. QED
    BY <2>2, <2>3
<1>12. MarkersTrue'
  <2> SUFFICES ASSUME NEW m \in marks, m[1] \notin raced
               PROVE  m[1] # writer /\ Delivered(m[1], m[2])'
    BY <1>2 DEF MarkersTrue
  <2>1. m[1] \in Files /\ m[1] # writer /\ Delivered(m[1], m[2])
    BY DEF MarkersTrue, TypeOK
  <2>2. QED
    BY <1>2, <1>5, <2>1 DEF Delivered
<1>13. StoredIsPrefix'
  <2> SUFFICES ASSUME NEW t \in Targets, NEW f \in Files
               PROVE  /\ stored[t][f] = Sequence(Len(stored[t][f]))
                      /\ Len(stored[t][f]) <= Entries(f)'
    BY <1>2 DEF StoredIsPrefix
  <2>1. QED
    BY <1>8, PrefixFacts
<1>14. QED
  BY <1>9, <1>10, <1>11, <1>12, <1>13

LEMMA FinalizeInv == ASSUME IInv, TypeOK', NEW p \in Procs, Finalize(p) PROVE IInv'
<1> USE DEF IInv
<1>1. PICK f \in Oldest(todo[p]) :
        /\ todo' = [todo EXCEPT ![p] = @ \ {f}]
        /\ \/ Ready(f) /\ pending' = pending \ {f}
           \/ pending' = pending
  BY DEF Finalize
<1>2. UNCHANGED <<config, writer, lines, marks, stored, raced, pc, due, file, total, next>>
  BY DEF Finalize, logger, drain
<1>3. f \in Files /\ f \in todo[p]
  BY <1>1 DEF Oldest, TypeOK
<1>4. \A g \in Files : Entries(g)' = Entries(g)
  BY <1>2 DEF Entries
<1>5. Created'
  <2>1. \A t \in Targets : pc[t] = "owe" => todo'[t] = todo[t]
    BY <1>1 DEF Finalize, Locked, TypeOK, Procs
  <2>2. pending' \subseteq pending
    BY <1>1
  <2>3. QED
    BY <1>2, <2>1, <2>2 DEF Created, Closed
<1>6. Working'
  BY <1>2, WorkingKept
<1>7. Uploads'
  <2> SUFFICES ASSUME NEW t \in Targets, pc[t] \in InUpload PROVE Job(t)'
    BY <1>2 DEF Uploads
  <2>1. Job(t) /\ t \in config.enabled
    BY DEF Uploads, Working, InUpload, TypeOK
  <2>2. Ready(f) => file[t] # f
    BY <2>1 DEF Ready, Job
  <2>3. file[t] \in pending'
    BY <1>1, <2>1, <2>2 DEF Job
  <2>4. Entries(file[t])' = Entries(file[t])
    BY <1>2 DEF Entries
  <2>5. QED
    BY <1>2, <2>1, <2>3, <2>4 DEF Job, Closed, Delivered
<1>8. MarkersTrue'
  BY <1>2 DEF MarkersTrue, Delivered, Entries
<1>9. StoredIsPrefix'
  BY <1>2, <1>4 DEF StoredIsPrefix
<1>10. QED
  BY <1>5, <1>6, <1>7, <1>8, <1>9

LEMMA CleanupInv == ASSUME IInv, TypeOK', NEW p \in Procs, Cleanup(p) PROVE IInv'
<1> USE DEF IInv
<1>1. marks' \subseteq marks
  BY DEF Cleanup
<1>2. UNCHANGED <<config, writer, pending, lines, stored, raced, pc, due, todo, file, total,
                  next>>
  BY DEF Cleanup, logger, drain
<1>3. Created'
  BY <1>1, <1>2 DEF Created, Closed
<1>4. Working'
  BY <1>2, WorkingKept
<1>5. Uploads'
  BY <1>1, <1>2, JobKept DEF Uploads
<1>6. MarkersTrue'
  BY <1>1, <1>2 DEF MarkersTrue, Delivered, Entries
<1>7. StoredIsPrefix'
  BY <1>2 DEF StoredIsPrefix, Entries
<1>8. QED
  BY <1>3, <1>4, <1>5, <1>6, <1>7

LEMMA ListInv == ASSUME IInv, TypeOK', NEW t \in Targets, List(t) PROVE IInv'
<1> USE DEF IInv
<1>0. t \in Procs
  BY DEF Procs
<1>1. /\ pc[t] = "list" /\ pc' = [pc EXCEPT ![t] = "owe"]
      /\ todo' = [todo EXCEPT ![t] = pending \ {skip[t]}]
      /\ raced' = raced \cup (todo'[t] \cap {writer})
  BY DEF List
<1>2. UNCHANGED <<config, writer, pending, lines, marks, stored, due, file, total, next>>
  BY DEF List, logger, disk, drain
<1>3. Created'
  <2>1. ASSUME NEW u \in Targets, pc'[u] = "owe", NEW f \in todo'[u]
        PROVE  lines[f] # Nil /\ (f \notin raced' => f # writer)
    <3>1. CASE u = t
      BY <1>0, <1>1, <2>1, <3>1 DEF Created, TypeOK
    <3>2. CASE u # t
      BY <1>0, <1>1, <2>1, <3>2 DEF Created, Closed, TypeOK, Procs
    <3>3. QED
      BY <3>1, <3>2
  <2>2. QED
    BY <1>2, <2>1 DEF Created, Closed
<1>4. Working'
  BY <1>0, <1>1, <1>2 DEF Working, TypeOK, Procs
<1>5. Uploads'
  <2> SUFFICES ASSUME NEW u \in Targets, pc'[u] \in InUpload PROVE Job(u)'
    BY DEF Uploads
  <2>1. u # t /\ pc'[u] = pc[u]
    BY <1>0, <1>1 DEF InUpload, TypeOK, Procs
  <2>2. QED
    BY <1>1, <1>2, <2>1, JobKept
<1>6. MarkersTrue'
  BY <1>1, <1>2 DEF MarkersTrue, Delivered, Entries
<1>7. StoredIsPrefix'
  BY <1>2 DEF StoredIsPrefix, Entries
<1>8. QED
  BY <1>3, <1>4, <1>5, <1>6, <1>7

\* One target moves on within its job; disk, servers and the other jobs stay.
LEMMA OneJob ==
  ASSUME IInv, TypeOK', NEW t \in Targets, pc[t] # "idle", pc'[t] \notin {"owe", "settling"},
         pc'[t] = "settle" => file'[t] \in Files,
         pc' = [pc EXCEPT ![t] = pc'[t]], file' = [file EXCEPT ![t] = file'[t]],
         total' = [total EXCEPT ![t] = total'[t]], next' = [next EXCEPT ![t] = next'[t]],
         \A p \in Procs : p # t => todo'[p] = todo[p],
         \A u \in Targets : u # t => stored'[u] = stored[u],
         \A m \in marks' : m[2] # t => m \in marks,
         \A m \in marks' : lines[m[1]] # Nil,
         UNCHANGED <<config, writer, pending, lines, due, raced>>,
         pc'[t] \in InUpload => Job(t)'
  PROVE  Created' /\ Working' /\ Uploads'
<1> USE DEF IInv
<1>1. t \in Procs /\ t # Boot /\ Targets \subseteq Procs
  BY ConstantFacts DEF Procs, Boot
<1>2. \A p \in Procs : p # t => pc'[p] = pc[p]
  BY DEF TypeOK
<1>3. \A u \in Targets : u # t => UNCHANGED <<pc[u], file[u], total[u], next[u], todo[u]>>
  BY <1>1 DEF TypeOK
<1>4. Created'
  BY <1>3 DEF Created, Closed
<1>5. Working'
  <2>1. pc'[Boot] \in {"idle", "sweep", "sweeping"}
    BY <1>1, <1>2 DEF Working, Procs
  <2>2. \A p \in Procs : pc'[p] # "idle" => config.enabled # {}
    BY <1>1, <1>2 DEF Working
  <2>3. \A u \in Targets : pc'[u] # "idle" => u \in config.configured
    BY <1>3 DEF Working
  <2>4. \A u \in Targets : pc'[u] \in {"settle", "settling"} => file'[u] \in Files
    BY <1>3 DEF Working
  <2>5. QED
    BY <2>1, <2>2, <2>3, <2>4 DEF Working
<1>6. Uploads'
  <2> SUFFICES ASSUME NEW u \in Targets, pc'[u] \in InUpload PROVE Job(u)'
    BY DEF Uploads
  <2>1. CASE u = t
    BY <2>1
  <2>2. CASE u # t
    <3>1. <<file[u], u>> \in marks' => <<file[u], u>> \in marks
      BY <2>2
    <3>2. QED
      BY <1>3, <2>2, <3>1, JobKept
  <2>3. QED
    BY <2>1, <2>2
<1>7. QED
  BY <1>4, <1>5, <1>6

LEMMA GiveUpInv ==
  ASSUME IInv, TypeOK', NEW t \in Targets, GiveUp(t),
         \A p \in Procs : p # t => todo'[p] = todo[p],
         UNCHANGED <<config, writer, pending, lines, marks, stored, due, raced>>
  PROVE  IInv'
<1>1. \A p \in Procs : Steady(p)
  BY GiveUpSteady
<1>2. due' \subseteq config.configured
  BY DEF IInv, Working
<1>3. QED
  BY <1>1, <1>2, Frame

\* What UNCHANGED writer, lines and stored mean for the two store invariants.
LEMMA StoreKept ==
  ASSUME MarkersTrue, StoredIsPrefix, UNCHANGED <<writer, lines, marks, stored, raced>>
  PROVE  MarkersTrue' /\ StoredIsPrefix'
BY DEF MarkersTrue, StoredIsPrefix, Delivered, Entries

LEMMA ReadInv == ASSUME IInv, TypeOK', NEW t \in Targets, ReadFile(t) PROVE IInv'
<1>1. PICK f \in Oldest(Owing(t)) : GiveUp(t) \/ ReadsOldest(t, f)
  BY DEF ReadFile, ReadsOldest
<1>2. UNCHANGED <<config, writer, pending, lines, marks, stored, due, raced>>
  BY DEF ReadFile, logger, disk
<1>3. \A p \in Procs : p # t => todo'[p] = todo[p]
  BY DEF ReadFile, IInv, TypeOK
<1>4. CASE GiveUp(t)
  BY <1>2, <1>3, <1>4, GiveUpInv
<1>5. CASE ReadsOldest(t, f)
  <2>1. pc[t] = "owe" /\ f \in todo[t] /\ <<f, t>> \notin marks /\ f \in pending /\ f \in Files
    BY <1>1, <1>5 DEF ReadFile, ReadsOldest, Oldest, Owing, IInv, TypeOK
  <2>2. Closed(f) /\ lines[f] \in Nat
    BY <2>1 DEF IInv, Created, TypeOK
  <2>3. t \in Procs /\ pc'[t] \in {"mark", "session"} /\ file'[t] = f /\ total'[t] = Entries(f)
    BY <1>5 DEF ReadsOldest, Procs, IInv, TypeOK
  <2>4. pc'[t] = "mark" => lines[f] = 0
    BY <1>5, <2>3 DEF ReadsOldest, IInv, TypeOK
  <2>5. lines[f] = 0 => Delivered(f, t)
    <3>1. lines[f] = 0 => Entries(f) = 0
      BY DEF Entries
    <3>2. QED
      BY <2>1, <3>1, PrefixFacts DEF Delivered
  <2>6. Job(t)'
    <3>1. Entries(f)' = Entries(f)
      BY <1>2 DEF Entries
    <3>2. Len(stored[t][f]) <= Entries(f) /\ Entries(f) \in Nat
      BY <2>1, PrefixFacts
    <3>3. Delivered(f, t) => Delivered(f, t)'
      BY <1>2, <3>1 DEF Delivered
    <3>4. QED
      BY <1>2, <2>1, <2>2, <2>3, <2>4, <2>5, <3>1, <3>2, <3>3 DEF Job, Closed, Delivered
  <2>7. Created' /\ Working' /\ Uploads'
    <3>1. /\ pc' = [pc EXCEPT ![t] = pc'[t]] /\ file' = [file EXCEPT ![t] = file'[t]]
          /\ total' = [total EXCEPT ![t] = total'[t]] /\ next' = [next EXCEPT ![t] = next'[t]]
      BY <1>5, <2>3 DEF ReadsOldest, IInv, TypeOK
    <3>2. \A m \in marks' : lines[m[1]] # Nil
      BY <1>2 DEF IInv, Created
    <3>3. QED
      BY <1>2, <1>3, <2>1, <2>3, <2>6, <3>1, <3>2, OneJob
  <2>8. QED
    BY <1>2, <2>7, StoreKept DEF IInv
<1>6. QED
  BY <1>1, <1>4, <1>5

LEMMA HandshakeInv == ASSUME IInv, TypeOK', NEW t \in Targets, Handshake(t) PROVE IInv'
<1>1. UNCHANGED <<config, writer, pending, lines, marks, stored, due, raced, todo>>
  BY DEF Handshake, Remote, logger, disk
<1>2. CASE GiveUp(t)
  BY <1>1, <1>2, GiveUpInv
<1>3. CASE ~GiveUp(t)
  <2>1. /\ pc' = [pc EXCEPT ![t] = "data"] /\ next' = [next EXCEPT ![t] = UploadedCount(t) + 1]
        /\ UNCHANGED <<file, total>> /\ pc[t] = "session"
    BY <1>3 DEF Handshake
  <2>2. t \in Procs /\ pc'[t] = "data" /\ next'[t] = UploadedCount(t) + 1
    BY <2>1 DEF Procs, IInv, TypeOK
  <2>3. Job(t)
    BY <2>1 DEF IInv, Uploads, InUpload
  <2>4. Job(t)'
    <3>1. Entries(file[t])' = Entries(file[t])
      BY <1>1, <2>1 DEF Entries
    <3>2. QED
      BY <1>1, <2>1, <2>2, <2>3, <3>1 DEF Job, Closed, UploadedCount
  <2>5. Created' /\ Working' /\ Uploads'
    <3>1. /\ pc' = [pc EXCEPT ![t] = pc'[t]] /\ file' = [file EXCEPT ![t] = file'[t]]
          /\ total' = [total EXCEPT ![t] = total'[t]] /\ next' = [next EXCEPT ![t] = next'[t]]
      BY <2>1, <2>2 DEF IInv, TypeOK
    <3>2. \A m \in marks' : lines[m[1]] # Nil
      BY <1>1 DEF IInv, Created
    <3>3. QED
      BY <1>1, <2>1, <2>2, <2>4, <3>1, <3>2, OneJob
  <2>6. QED
    BY <1>1, <2>5, StoreKept DEF IInv
<1>4. QED
  BY <1>2, <1>3

LEMMA CompleteInv == ASSUME IInv, TypeOK', NEW t \in Targets, Complete(t) PROVE IInv'
<1>1. UNCHANGED <<config, writer, pending, lines, marks, stored, due, raced, todo>>
  BY DEF Complete, Remote, logger, disk
<1>2. CASE GiveUp(t)
  BY <1>1, <1>2, GiveUpInv
<1>3. CASE ~GiveUp(t)
  <2>1. /\ pc' = [pc EXCEPT ![t] = "mark"] /\ UNCHANGED <<file, total, next>>
        /\ pc[t] = "data" /\ next[t] > total[t]
    BY <1>3 DEF Complete
  <2>2. t \in Procs /\ pc'[t] = "mark"
    BY <2>1 DEF Procs, IInv, TypeOK
  <2>3. Job(t) /\ file[t] \in Files
    BY <2>1 DEF IInv, Uploads, InUpload, Job, TypeOK
  <2>4. file[t] \notin raced => Delivered(file[t], t)
    <3>1. /\ stored[t][file[t]] = Sequence(Len(stored[t][file[t]]))
          /\ Len(stored[t][file[t]]) \in Nat
      BY <2>3, PrefixFacts
    <3>2. total[t] \in Nat /\ next[t] = Len(stored[t][file[t]]) + 1
          /\ Len(stored[t][file[t]]) <= total[t]
      BY <2>1, <2>3 DEF Job, IInv, TypeOK
    <3>3. Len(stored[t][file[t]]) = total[t]
      BY <2>1, <3>1, <3>2
    <3>4. QED
      BY <2>1, <2>3, <3>1, <3>3 DEF Job, Delivered
  <2>5. Job(t)'
    <3>1. Entries(file[t])' = Entries(file[t])
      BY <1>1, <2>1 DEF Entries
    <3>2. QED
      BY <1>1, <2>1, <2>2, <2>3, <2>4, <3>1 DEF Job, Closed, Delivered
  <2>6. Created' /\ Working' /\ Uploads'
    <3>1. /\ pc' = [pc EXCEPT ![t] = pc'[t]] /\ file' = [file EXCEPT ![t] = file'[t]]
          /\ total' = [total EXCEPT ![t] = total'[t]] /\ next' = [next EXCEPT ![t] = next'[t]]
      BY <2>1, <2>2 DEF IInv, TypeOK
    <3>2. \A m \in marks' : lines[m[1]] # Nil
      BY <1>1 DEF IInv, Created
    <3>3. QED
      BY <1>1, <2>1, <2>2, <2>5, <3>1, <3>2, OneJob
  <2>7. QED
    BY <1>1, <2>6, StoreKept DEF IInv
<1>4. QED
  BY <1>2, <1>3

LEMMA MarkInv == ASSUME IInv, TypeOK', NEW t \in Targets, Mark(t) PROVE IInv'
<1>1. UNCHANGED <<config, writer, pending, lines, stored, due, raced, todo>> /\ pc[t] = "mark"
  BY DEF Mark, logger
<1>2. CASE GiveUp(t) /\ UNCHANGED marks
  BY <1>1, <1>2, GiveUpInv
<1>3. CASE Marks(t)
  <2>1. t \in Procs /\ pc'[t] = "settle"
    BY <1>3 DEF Marks, Procs, IInv, TypeOK
  <2>2. Job(t) /\ file[t] \in Files /\ lines[file[t]] # Nil
    BY <1>1 DEF IInv, Uploads, InUpload, Job, Created, TypeOK
  <2>3. Created' /\ Working' /\ Uploads'
    <3>1. /\ pc' = [pc EXCEPT ![t] = pc'[t]] /\ file' = [file EXCEPT ![t] = file'[t]]
          /\ total' = [total EXCEPT ![t] = total'[t]] /\ next' = [next EXCEPT ![t] = next'[t]]
      BY <1>3, <2>1 DEF Marks, IInv, TypeOK
    <3>2. \A m \in marks' : lines[m[1]] # Nil /\ (m[2] # t => m \in marks)
      BY <1>3, <2>2 DEF Marks, IInv, Created
    <3>3. pc'[t] \notin InUpload /\ file'[t] \in Files
      BY <1>3, <2>1, <2>2 DEF InUpload, Marks
    <3>4. QED
      BY <1>1, <2>1, <3>1, <3>2, <3>3, OneJob
  <2>4. MarkersTrue'
    BY <1>1, <1>3, <2>2 DEF IInv, MarkersTrue, Marks, Job, Closed, Delivered, Entries
  <2>5. StoredIsPrefix'
    BY <1>1 DEF IInv, StoredIsPrefix, Entries
  <2>6. QED
    BY <2>3, <2>4, <2>5 DEF IInv
<1>4. QED
  BY <1>2, <1>3 DEF Mark, Marks

\* A prefix of n entries and the k after it are a prefix of n + k.
LEMMA LongerPrefix ==
  ASSUME NEW n \in Nat, NEW k \in Nat, NEW a \in Seq(Nat), NEW b \in Seq(Nat),
         a = Sequence(n), Len(b) = k, \A i \in 1 .. k : b[i] = n + i
  PROVE  a \o b = Sequence(n + k)
<1>1. /\ Len(a) = n /\ \A i \in 1 .. n : a[i] = i
      /\ Sequence(n + k) \in Seq(Nat) /\ Len(Sequence(n + k)) = n + k
  BY SequenceFacts DEF Sequence
<1>2. Len(a) = n
  BY <1>1
<1>3. /\ a \o b \in Seq(Nat) /\ Len(a \o b) = n + k
      /\ \A i \in 1 .. n + k : (a \o b)[i] = IF i <= n THEN a[i] ELSE b[i - n]
  <2>1. /\ a \o b \in Seq(Nat) /\ Len(a \o b) = Len(a) + Len(b)
        /\ \A i \in 1 .. Len(a) + Len(b) :
             (a \o b)[i] = IF i <= Len(a) THEN a[i] ELSE b[i - Len(a)]
    BY ConcatProperties, Zenon
  <2>2. Len(a) = n /\ Len(b) = k
    BY <1>2
  <2>3. QED
    BY <2>1, <2>2, Zenon
<1>4. \A i \in 1 .. n + k : (a \o b)[i] = Sequence(n + k)[i]
  <2> SUFFICES ASSUME NEW i \in 1 .. n + k PROVE (a \o b)[i] = Sequence(n + k)[i]
    OBVIOUS
  <2>1. Sequence(n + k)[i] = i
    BY DEF Sequence
  <2>2. CASE i <= n
    BY <1>1, <1>3, <2>1, <2>2
  <2>3. CASE ~(i <= n)
    <3>1. i - n \in 1 .. k /\ n + (i - n) = i
      BY <2>3
    <3>2. b[i - n] = i
      BY <3>1
    <3>3. QED
      BY <1>3, <2>1, <2>3, <3>2
  <2>4. QED
    BY <2>2, <2>3
<1>5. QED
  BY <1>1, <1>3, <1>4, SeqEqual

\* The batch takes up where the server stands.
LEMMA AppendBatch ==
  ASSUME TypeOK, NEW t \in Targets, NEW n \in Nat, next[t] = n + 1, next[t] <= total[t]
  PROVE  /\ Sequence(n) \o Batch(t) = Sequence(LastOfBatch(t))
         /\ LastOfBatch(t) \in Nat /\ n < LastOfBatch(t) /\ LastOfBatch(t) <= total[t]
<1>1. /\ Batch(t) \in Seq(Nat) /\ LastOfBatch(t) \in Nat
      /\ next[t] <= LastOfBatch(t) /\ LastOfBatch(t) <= total[t]
      /\ Len(Batch(t)) = LastOfBatch(t) - next[t] + 1
  BY BatchTyped
<1> DEFINE k == LastOfBatch(t) - n
<1>2. /\ k \in Nat /\ n < LastOfBatch(t) /\ n + k = LastOfBatch(t)
      /\ LastOfBatch(t) - next[t] + 1 = k
  BY <1>1
<1>3. Batch(t) = [i \in 1 .. k |-> next[t] + i - 1]
  BY <1>2 DEF Batch
<1> HIDE DEF k
<1>4. \A i \in 1 .. k : Batch(t)[i] = n + i
  BY <1>2, <1>3
<1>5. Sequence(n) \o Batch(t) = Sequence(n + k)
  <2>1. Len(Batch(t)) = k /\ Sequence(n) \in Seq(Nat)
    BY <1>1, <1>2, SequenceFacts
  <2>2. QED
    BY <1>1, <1>2, <1>4, <2>1, LongerPrefix, Zenon
<1>6. QED
  BY <1>1, <1>2, <1>5

\* What POST data can do to the servers.
LEMMA SendBatchStores ==
  ASSUME IInv, NEW t \in Targets, SendBatch(t)
  PROVE  /\ Job(t) /\ file[t] \in Files
         /\ \A u \in Targets : u # t => stored'[u] = stored[u]
         /\ \A f \in Files : f # file[t] => stored'[t][f] = stored[t][f]
         /\ stored' = stored \/ stored'[t][file[t]] = Sequence(LastOfBatch(t))
         /\ Len(stored[t][file[t]]) < LastOfBatch(t)
         /\ LastOfBatch(t) \in Nat /\ LastOfBatch(t) <= total[t]
<1>1. Job(t) /\ file[t] \in Files /\ pc[t] = "data"
  BY DEF SendBatch, IInv, Uploads, Job, InUpload, TypeOK
<1>2. /\ stored[t][file[t]] = Sequence(Len(stored[t][file[t]]))
      /\ Len(stored[t][file[t]]) \in Nat
  BY <1>1, PrefixFacts
<1>3. next[t] = Len(stored[t][file[t]]) + 1 /\ next[t] <= total[t]
  BY <1>1 DEF SendBatch, Job
<1>4. /\ Sequence(Len(stored[t][file[t]])) \o Batch(t) = Sequence(LastOfBatch(t))
      /\ LastOfBatch(t) \in Nat /\ Len(stored[t][file[t]]) < LastOfBatch(t)
      /\ LastOfBatch(t) <= total[t]
  BY <1>2, <1>3, AppendBatch DEF IInv
<1>5. stored' = stored \/ stored' = [stored EXCEPT ![t][file[t]] = @ \o Batch(t)]
  BY DEF SendBatch
<1>6. stored[t][file[t]] \o Batch(t) = Sequence(LastOfBatch(t))
  BY <1>2, <1>4
<1>7. \/ stored' = stored
      \/ /\ \A u \in Targets : u # t => stored'[u] = stored[u]
         /\ \A f \in Files : f # file[t] => stored'[t][f] = stored[t][f]
         /\ stored'[t][file[t]] = stored[t][file[t]] \o Batch(t)
  BY <1>1, <1>5 DEF IInv, TypeOK
<1>8. QED
  BY <1>1, <1>4, <1>6, <1>7

LEMMA SendBatchInv == ASSUME IInv, TypeOK', NEW t \in Targets, SendBatch(t) PROVE IInv'
<1>0. t \in Procs
  BY DEF Procs
<1>1. UNCHANGED <<config, writer, pending, lines, marks, due, raced, todo>> /\ pc[t] = "data"
  BY DEF SendBatch, Remote, logger, disk
<1>2. /\ Job(t) /\ file[t] \in Files
      /\ \A u \in Targets : u # t => stored'[u] = stored[u]
      /\ \A f \in Files : f # file[t] => stored'[t][f] = stored[t][f]
      /\ stored' = stored \/ stored'[t][file[t]] = Sequence(LastOfBatch(t))
      /\ LastOfBatch(t) \in Nat /\ LastOfBatch(t) <= total[t]
  BY SendBatchStores
<1>3. \A f \in Files : Entries(f)' = Entries(f)
  BY <1>1 DEF Entries
<1>4. total[t] \in Nat /\ total[t] <= Entries(file[t]) /\ Entries(file[t]) \in Nat
  BY <1>1, <1>2, EntriesNat DEF Job, IInv, TypeOK
<1>5. StoredIsPrefix'
  <2> SUFFICES ASSUME NEW u \in Targets, NEW f \in Files
               PROVE  /\ stored'[u][f] = Sequence(Len(stored'[u][f]))
                      /\ Len(stored'[u][f]) <= Entries(f)
    BY <1>3 DEF StoredIsPrefix
  <2>1. CASE stored'[u][f] = stored[u][f]
    BY <2>1, PrefixFacts
  <2>2. CASE stored'[u][f] # stored[u][f]
    <3>1. u = t /\ f = file[t] /\ stored'[u][f] = Sequence(LastOfBatch(t))
      BY <1>2, <2>2
    <3>2. Len(stored'[u][f]) = LastOfBatch(t)
      BY <1>2, <3>1, SequenceFacts
    <3>3. QED
      BY <1>2, <1>4, <3>1, <3>2
  <2>3. QED
    BY <2>1, <2>2
<1>6. MarkersTrue'
  <2> SUFFICES ASSUME NEW m \in marks, m[1] \notin raced
               PROVE  m[1] # writer /\ Delivered(m[1], m[2])'
    BY <1>1 DEF MarkersTrue
  <2>0. PICK f \in Files, u \in Targets : m = <<f, u>>
    BY DEF IInv, TypeOK
  <2>1. m[1] \in Files /\ m[2] \in Targets /\ m = <<m[1], m[2]>>
    BY <2>0
  <2>2. ~(m[1] = file[t] /\ m[2] = t)
    BY <1>2, <2>1 DEF Job
  <2>3. stored'[m[2]][m[1]] = stored[m[2]][m[1]]
    BY <1>2, <2>1, <2>2
  <2>4. QED
    BY <1>3, <2>1, <2>3 DEF IInv, MarkersTrue, Delivered
<1>7. CASE GiveUp(t)
  <2>1. pc' = [pc EXCEPT ![t] = "idle"] /\ pc'[t] = "idle"
    BY <1>0, <1>7 DEF GiveUp, IInv, TypeOK
  <2>2. /\ file' = [file EXCEPT ![t] = file'[t]]
        /\ total' = [total EXCEPT ![t] = total'[t]] /\ next' = [next EXCEPT ![t] = next'[t]]
    BY <1>7 DEF GiveUp, IInv, TypeOK
  <2>3. \A m \in marks' : lines[m[1]] # Nil
    BY <1>1 DEF IInv, Created
  <2>4. Created' /\ Working' /\ Uploads'
    BY <1>1, <1>2, <2>1, <2>2, <2>3, OneJob DEF InUpload
  <2>5. QED
    BY <1>5, <1>6, <2>4 DEF IInv
<1>8. CASE ~GiveUp(t)
  <2>1. /\ stored' # stored /\ next' = [next EXCEPT ![t] = LastOfBatch(t) + 1]
        /\ UNCHANGED <<pc, file, total>>
    BY <1>8 DEF SendBatch
  <2>2. next'[t] = LastOfBatch(t) + 1 /\ Len(stored'[t][file[t]]) = LastOfBatch(t)
    BY <1>2, <2>1, SequenceFacts DEF IInv, TypeOK
  <2>3. Job(t)'
    BY <1>1, <1>2, <1>3, <2>1, <2>2 DEF Job, Closed
  <2>4. /\ pc' = [pc EXCEPT ![t] = pc'[t]] /\ file' = [file EXCEPT ![t] = file'[t]]
        /\ total' = [total EXCEPT ![t] = total'[t]] /\ next' = [next EXCEPT ![t] = next'[t]]
    BY <2>1, <2>2 DEF IInv, TypeOK
  <2>5. \A m \in marks' : lines[m[1]] # Nil
    BY <1>1 DEF IInv, Created
  <2>6. Created' /\ Working' /\ Uploads'
    BY <1>1, <1>2, <2>1, <2>3, <2>4, <2>5, OneJob
  <2>7. QED
    BY <1>5, <1>6, <2>6 DEF IInv
<1>9. QED
  BY <1>7, <1>8

-----------------------------------------------------------------------------
(* The inductive invariant and what follows from it *)

LEMMA InitInv == Init => IInv
<1> SUFFICES ASSUME Init PROVE IInv
  OBVIOUS
<1>1. TypeOK
  BY InitTyped
<1>2. \A p \in Procs : pc[p] = "idle"
  BY DEF Init, NoWork
<1>3. Boot \in Procs /\ Targets \subseteq Procs
  BY DEF Procs
<1>4. Created /\ Working /\ Uploads /\ MarkersTrue
  BY <1>2, <1>3 DEF Init, Created, Working, Uploads, InUpload, MarkersTrue
<1>5. StoredIsPrefix
  <2>1. Sequence(0) = <<>>
    BY DEF Sequence
  <2>2. \A f \in Files : Entries(f) = 0
    BY ConstantFacts DEF Init, Entries
  <2>3. \A t \in Targets, f \in Files : stored[t][f] = <<>>
    BY DEF Init
  <2>4. QED
    BY <2>1, <2>2, <2>3 DEF StoredIsPrefix
<1>6. QED
  BY <1>1, <1>4, <1>5 DEF IInv

LEMMA NextInv == IInv /\ [Next]_vars => IInv'
<1> SUFFICES ASSUME IInv, [Next]_vars PROVE IInv'
  OBVIOUS
<1>0. TypeOK'
  BY StepTyped
<1>1. CASE UNCHANGED vars
  <2>1. \A p \in Procs : Steady(p)
    BY <1>1 DEF Steady, vars, work
  <2>2. QED
    BY <1>0, <1>1, <2>1, Frame DEF vars, disk, logger, drain, IInv, Working
<1>2. CASE Start
  BY <1>0, <1>2, StartInv
<1>3. CASE Crash \/ Shutdown \/ SetPause
  BY <1>0, <1>3, ProcessFramed DEF Crash
<1>4. CASE Logger
  BY <1>0, <1>4, CreateInv, FlushInv, ProcessFramed DEF Logger
<1>5. ASSUME NEW t \in Targets, Tick(t) \/ Upload(t) \/ BackoffEnds(t) PROVE IInv'
  BY <1>0, <1>5, TargetFramed, ListInv, ReadInv, HandshakeInv, SendBatchInv, CompleteInv,
     MarkInv DEF Upload
<1>6. ASSUME NEW p \in Procs, Finalizer(p) PROVE IInv'
  BY <1>0, <1>6, LockFramed, FinalizeInv, CleanupInv DEF Finalizer
<1>7. CASE Drain
  BY <1>0, <1>7, DrainFramed
<1>8. QED
  BY <1>1, <1>2, <1>3, <1>4, <1>5, <1>6, <1>7 DEF Next

THEOREM Invariance == Spec => []IInv
BY InitInv, NextInv, PTL DEF Spec

\* Every variable keeps its type, through crashes and restarts.
THEOREM TypeCorrect == Spec => []TypeOK
<1>1. IInv => TypeOK
  BY DEF IInv
<1>2. QED
  BY <1>1, Invariance, PTL

\* A marker stands for a closed file the server holds entirely, exactly once
\* and in order.
THEOREM MarkersAlwaysTrue == Spec => []MarkersTrue
<1>1. IInv => MarkersTrue
  BY DEF IInv
<1>2. QED
  BY <1>1, Invariance, PTL

\* No sequence of failures, retries, crashes and restarts makes a server hold
\* anything but a prefix of the file.
THEOREM NoDuplicatesNoGaps == Spec => []StoredIsPrefix
<1>1. IInv => StoredIsPrefix
  BY DEF IInv
<1>2. QED
  BY <1>1, Invariance, PTL

\* A file is never moved away under a target that uploads or marks it.
THEOREM AlwaysUploadedInPlace == Spec => []UploadedInPlace
<1>1. IInv => UploadedInPlace
  BY DEF IInv, Uploads, Job, InUpload, UploadedInPlace
<1>2. QED
  BY <1>1, Invariance, PTL

-----------------------------------------------------------------------------
(* What a drain leaves behind *)

\* Only a finalizer has a file in hand.  In a drain nobody else works; until a
\* file has been marked, pending/ and the markers stand still, so a target that
\* has been visited owes nothing, or its attempt failed.
Visited ==
  /\ \A p \in Procs : moved[p] # Nil => pc[p] \in Locked
  /\ phase = "draining" =>
       /\ pc[Boot] = "idle"
       /\ \A t \in Targets :
            /\ pc[t] \notin {"ping", "sweep", "sweeping"}
            /\ pc[t] \in {"settle", "settling"} => progressed
            /\ pc[t] = "list" => skip[t] = Nil
       /\ ~progressed => \A t \in config.configured :
            /\ pc[t] = "owe" => OwedAtDrain(t) \subseteq todo[t]
            /\ pc[t] = "idle" /\ t \notin due => OwedAtDrain(t) = {} \/ t \in failed

LEMMA LockNames == Locked = {"sweeping", "settling"} /\ Boot \in Procs /\ Targets \subseteq Procs
BY DEF Locked, Procs

\* Out of a drain only the first part is asked.
LEMMA OutOfDrain ==
  ASSUME phase' # "draining", \A p \in Procs : moved'[p] # Nil => pc'[p] \in Locked
  PROVE  Visited'
BY DEF Visited, Locked

\* A step of one goroutine that leaves the others alone: what it does to what
\* is asked of itself, and that a pass without progress is one without changes.
LEMMA OneVisit ==
  ASSUME IInv, TypeOK', Visited, NEW t \in Targets, moved' = moved, pc[t] \notin Locked,
         UNCHANGED <<phase, config, due>>,
         \A p \in Procs : p # t => pc'[p] = pc[p] /\ todo'[p] = todo[p],
         \A u \in Targets : u # t => skip'[u] = skip[u],
         phase = "draining" =>
           /\ pc'[t] \notin {"ping", "sweep", "sweeping"}
           /\ pc'[t] \in {"settle", "settling"} => progressed'
           /\ pc'[t] = "list" => skip'[t] = Nil
           /\ progressed => progressed'
           /\ ~progressed' =>
                /\ UNCHANGED <<pending, marks>> /\ failed \subseteq failed'
                /\ pc'[t] = "owe" => OwedAtDrain(t) \subseteq todo'[t]
                /\ pc'[t] = "idle" /\ t \notin due => OwedAtDrain(t) = {} \/ t \in failed'
  PROVE  Visited'
<1>1. t \in Procs /\ t # Boot /\ Boot \in Procs /\ Targets \subseteq Procs
  BY LockNames, ConstantFacts DEF Boot
<1>2. \A p \in Procs : moved'[p] # Nil => pc'[p] \in Locked
  BY <1>1 DEF Visited, Locked
<1>3. ASSUME phase' = "draining"
      PROVE  /\ pc'[Boot] = "idle"
             /\ \A u \in Targets :
                  /\ pc'[u] \notin {"ping", "sweep", "sweeping"}
                  /\ pc'[u] \in {"settle", "settling"} => progressed'
                  /\ pc'[u] = "list" => skip'[u] = Nil
  BY <1>1, <1>3 DEF Visited
<1>4. ASSUME phase' = "draining", ~progressed', NEW u \in config'.configured
      PROVE  /\ pc'[u] = "owe" => OwedAtDrain(u)' \subseteq todo'[u]
             /\ pc'[u] = "idle" /\ u \notin due' => OwedAtDrain(u)' = {} \/ u \in failed'
  <2>1. u \in Targets /\ u \in config.configured /\ OwedAtDrain(u)' = OwedAtDrain(u)
    BY <1>4 DEF OwedAtDrain, TypeOK
  <2>2. CASE u = t
    BY <1>4, <2>1, <2>2
  <2>3. CASE u # t
    BY <1>1, <1>4, <2>1, <2>3 DEF Visited
  <2> QED
    BY <2>2, <2>3
<1> QED
  BY <1>2, <1>3, <1>4 DEF Visited, Locked

LEMMA UploadVisits == ASSUME IInv, TypeOK', Visited, NEW t \in Targets, Upload(t) PROVE Visited'
<1> DEFINE Rest ==
      /\ UNCHANGED <<phase, config, due, moved>>
      /\ \A p \in Procs : p # t => pc'[p] = pc[p] /\ todo'[p] = todo[p]
      /\ \A u \in Targets : u # t => skip'[u] = skip[u]
<1>0. t \in Procs /\ TypeOK /\ (phase = "draining" => pc[t] # "ping")
  BY LockNames DEF IInv, Visited
<1>1. CASE Ping(t)
  <2>1. Rest /\ pc[t] \notin Locked /\ phase # "draining"
    BY <1>0, <1>1 DEF Ping, TypeOK, drain, Locked
  <2> QED
    BY <2>1, OneVisit
<1>2. CASE List(t)
  <2>1. Rest /\ pc[t] = "list" /\ pc'[t] = "owe"
    BY <1>0, <1>2 DEF List, TypeOK, drain
  <2>2. /\ todo'[t] = pending \ {skip[t]}
        /\ UNCHANGED <<pending, marks, progressed, failed>>
    BY <1>0, <1>2 DEF List, TypeOK, drain, disk
  <2>3. phase = "draining" => OwedAtDrain(t) \subseteq todo'[t]
    <3>1. phase = "draining" => skip[t] = Nil
      BY <2>1 DEF Visited
    <3>2. OwedAtDrain(t) \subseteq pending /\ Nil \notin pending
      BY <1>0, ConstantFacts DEF OwedAtDrain, TypeOK
    <3> QED
      BY <2>2, <3>1, <3>2
  <2> QED
    BY <2>1, <2>2, <2>3, OneVisit DEF Locked
<1>3. CASE NothingToSend(t)
  <2>1. Rest /\ pc[t] = "owe" /\ pc'[t] = "idle"
    BY <1>0, <1>3 DEF NothingToSend, TypeOK, drain
  <2>2. /\ phase = "draining" => Owing(t) = {}
        /\ UNCHANGED <<pending, marks, progressed, failed>>
    BY <1>3 DEF NothingToSend, drain, disk
  <2>3. t \in config.configured
    BY <1>0, <2>1 DEF IInv, Working
  <2>4. phase = "draining" /\ ~progressed => OwedAtDrain(t) = {}
    BY <2>1, <2>2, <2>3 DEF Visited, OwedAtDrain, Owing
  <2> QED
    BY <2>1, <2>2, <2>4, OneVisit DEF Locked
<1>4. CASE ReadFile(t) \/ Handshake(t) \/ SendBatch(t) \/ Complete(t)
  <2>1. Rest /\ UNCHANGED <<pending, marks, progressed>>
    BY <1>0, <1>4 DEF ReadFile, Handshake, SendBatch, Complete, GiveUp, Remote, TypeOK, disk
  <2>2. pc[t] \in {"owe", "session", "data"} /\ pc'[t] \in {"idle", "session", "data", "mark"}
    BY <1>0, <1>4 DEF ReadFile, Handshake, SendBatch, Complete, GiveUp, TypeOK
  <2>3. /\ failed \subseteq failed'
        /\ (phase = "draining" /\ pc'[t] = "idle" => t \in failed')
    BY <1>0, <1>4 DEF ReadFile, Handshake, SendBatch, Complete, GiveUp, TypeOK
  <2> QED
    BY <2>1, <2>2, <2>3, OneVisit DEF Locked
<1>5. CASE Mark(t)
  <2>1. Rest /\ pc[t] = "mark" /\ pc'[t] \in {"idle", "settle"}
    BY <1>0, <1>5 DEF Mark, GiveUp, TypeOK
  <2>2. phase = "draining" =>
          \/ progressed' /\ pc'[t] = "settle"
          \/ /\ UNCHANGED <<pending, marks, progressed>> /\ pc'[t] = "idle"
             /\ failed \subseteq failed' /\ t \in failed'
    BY <1>0, <1>5 DEF Mark, GiveUp, TypeOK
  <2>3. progressed \in BOOLEAN
    BY <1>0 DEF TypeOK
  <2>4. phase = "draining" /\ progressed => progressed'
    BY <2>2
  <2> QED
    BY <2>1, <2>2, <2>4, OneVisit DEF Locked
<1> QED
  BY <1>1, <1>2, <1>3, <1>4, <1>5 DEF Upload

\* In a drain a finalizer follows a marker, so it runs in a pass with progress.
LEMMA FinalizerVisits ==
  ASSUME IInv, TypeOK', Visited, NEW p \in Procs, Finalizer(p) PROVE Visited'
<1>0. TypeOK /\ progressed \in BOOLEAN
  BY DEF IInv, TypeOK
<1>1. UNCHANGED <<phase, config, due, progressed, failed, skip>>
  BY DEF Finalizer, Acquire, Finalize, Cleanup, Release, drain
<1>2. pc[p] \in {"sweep", "settle", "sweeping", "settling"}
  BY LockNames DEF Finalizer, Acquire, Finalize, Cleanup, Release, Visited
<1>3. \A q \in Procs : q # p => pc'[q] = pc[q] /\ moved'[q] = moved[q]
  BY <1>0 DEF Finalizer, Acquire, Finalize, Cleanup, Release, TypeOK
<1>4. moved'[p] # Nil => pc'[p] \in Locked
  BY <1>0, LockNames DEF Finalizer, Acquire, Finalize, Cleanup, Release, Visited, TypeOK
<1>5. phase = "draining" => /\ p \in Targets /\ progressed
                            /\ pc'[p] \in {"idle", "settling"}
  <2>1. phase = "draining" => p \in Targets /\ pc[p] \in {"settle", "settling"} /\ progressed
    BY <1>2 DEF Visited, Procs
  <2>2. pc[p] \in {"settle", "settling"} => pc'[p] \in {"idle", "settling"}
    <3>1. pc \in [Procs -> Where]
      BY <1>0 DEF TypeOK
    <3>2. CASE Acquire(p) \/ Release(p)
      BY <3>1, <3>2 DEF Acquire, Release
    <3>3. CASE Finalize(p) \/ Cleanup(p)
      <4>1. pc' = pc /\ (moved[p] # Nil => pc[p] \in Locked) /\ (Finalize(p) => pc[p] \in Locked)
        BY <3>3 DEF Finalize, Cleanup, Visited
      <4>2. Cleanup(p) => moved[p] # Nil
        BY DEF Cleanup
      <4> QED
        BY <3>3, <4>1, <4>2 DEF Locked
    <3> QED
      BY <3>2, <3>3 DEF Finalizer
  <2> QED
    BY <2>1, <2>2
<1>6. \A q \in Procs : moved'[q] # Nil => pc'[q] \in Locked
  BY <1>3, <1>4 DEF Visited, Locked
<1>7. ASSUME phase' = "draining"
      PROVE  /\ pc'[Boot] = "idle" /\ progressed'
             /\ \A u \in Targets :
                  /\ pc'[u] \notin {"ping", "sweep", "sweeping"}
                  /\ pc'[u] = "list" => skip'[u] = Nil
  <2>1. phase = "draining" /\ Boot \in Procs /\ Boot # p /\ Targets \subseteq Procs
    BY <1>1, <1>5, <1>7, LockNames, ConstantFacts DEF Boot
  <2> QED
    BY <1>1, <1>3, <1>5, <2>1 DEF Visited
<1> QED
  BY <1>6, <1>7 DEF Visited, Locked

LEMMA DrainVisits == ASSUME IInv, TypeOK', Visited, Drain PROVE Visited'
<1>0. TypeOK /\ Boot \in Procs /\ Targets \subseteq Procs
  BY LockNames DEF IInv
<1>1. ASSUME AllIdle, UNCHANGED <<pc, moved>>, ~progressed', due' = config'.configured
      PROVE  Visited'
  <2>1. \A p \in Procs : pc'[p] = "idle" /\ moved'[p] = Nil
    BY <1>1 DEF Visited, AllIdle, Locked
  <2>2. \A t \in Targets : pc'[t] = "idle"
    BY <1>0, <2>1
  <2>3. \A t \in config'.configured : t \in Targets /\ t \in due'
    BY <1>1 DEF TypeOK
  <2> QED
    BY <1>0, <2>1, <2>2, <2>3 DEF Visited
<1>2. CASE BeginDrain
  BY <1>1, <1>2 DEF BeginDrain
<1>3. CASE NextPass
  BY <1>1, <1>3 DEF NextPass, work
<1>4. CASE DrainTarget
  <2>1. PICK t \in Oldest(due) : /\ due' = due \ {t}
                                 /\ pc' = [pc EXCEPT ![t] = "list"]
                                 /\ skip' = [skip EXCEPT ![t] = Nil]
    BY <1>4 DEF DrainTarget
  <2>2. /\ UNCHANGED <<phase, config, pending, marks, todo, moved, progressed, failed>>
        /\ phase = "draining" /\ AllIdle
    BY <1>4 DEF DrainTarget, disk
  <2>3. t \in due /\ t \in Targets /\ t \in Procs /\ t # Boot
    BY <1>0, ConstantFacts DEF Oldest, TypeOK, Boot
  <2>4. /\ pc'[t] = "list" /\ skip'[t] = Nil
        /\ \A p \in Procs : p # t => pc'[p] = "idle"
    BY <1>0, <2>1, <2>2, <2>3 DEF AllIdle, TypeOK
  <2>5. \A p \in Procs : moved'[p] = Nil
    BY <2>2 DEF Visited, AllIdle, Locked
  <2>6. \A u \in Targets : OwedAtDrain(u)' = OwedAtDrain(u)
    BY <2>2 DEF OwedAtDrain
  <2>7. ASSUME NEW u \in config'.configured, ~progressed', pc'[u] = "idle", u \notin due'
        PROVE  OwedAtDrain(u)' = {} \/ u \in failed'
    <3>1. u \in Targets /\ u \in Procs /\ u # t /\ u \notin due /\ pc[u] = "idle"
      BY <1>0, <2>1, <2>2, <2>4, <2>7 DEF TypeOK, AllIdle
    <3> QED
      BY <2>2, <2>6, <2>7, <3>1 DEF Visited
  <2>8. \A u \in config'.configured : pc'[u] # "owe"
    BY <1>0, <2>2, <2>4 DEF TypeOK
  <2> QED
    BY <1>0, <2>3, <2>4, <2>5, <2>7, <2>8 DEF Visited
<1>5. CASE DrainDeadline \/ DrainComplete
  <2>1. phase' = "down" /\ \A p \in Procs : moved'[p] = Nil
    BY <1>5 DEF DrainDeadline, DrainComplete, Exit, Stopped, Forget, NoWork
  <2> QED
    BY <2>1, OutOfDrain
<1> QED
  BY <1>2, <1>3, <1>4, <1>5 DEF Drain

LEMMA NextVisits == IInv /\ TypeOK' /\ Visited /\ [Next]_vars => Visited'
<1> SUFFICES ASSUME IInv, TypeOK', Visited, [Next]_vars PROVE Visited'
  OBVIOUS
<1>0. TypeOK /\ Targets \subseteq Procs
  BY LockNames DEF IInv
<1>1. CASE Start \/ Crash
  <2>1. phase' # "draining" /\ \A p \in Procs : moved'[p] = Nil
    BY <1>1 DEF Start, Crash, Stopped, Forget, NoWork
  <2> QED
    BY <2>1, OutOfDrain
<1>2. CASE Shutdown
  <2>1. phase' # "draining" /\ UNCHANGED <<moved, pc>>
    BY <1>2 DEF Shutdown, work
  <2> QED
    BY <2>1, OutOfDrain DEF Visited
<1>3. ASSUME UNCHANGED <<phase, config, pending, marks, pc, todo, moved, skip, due, progressed,
                         failed>>
      PROVE  Visited'
  BY <1>3 DEF Visited, OwedAtDrain, Locked
<1>4. CASE SetPause \/ PublishSession \/ FlushLines \/ CloseSession \/ ClearSession
           \/ UNCHANGED vars \/ \E t \in Targets : BackoffEnds(t)
  BY <1>3, <1>4 DEF SetPause, PublishSession, FlushLines, CloseSession, ClearSession,
       BackoffEnds, vars, disk, work, drain
<1>5. CASE CreateSession
  <2>1. phase' # "draining" /\ UNCHANGED <<moved, pc>>
    BY <1>5 DEF CreateSession, Running, work
  <2> QED
    BY <2>1, OutOfDrain DEF Visited
<1>6. ASSUME NEW t \in Targets, Tick(t) PROVE Visited'
  <2>1. phase' # "draining" /\ moved' = moved /\ pc[t] = "idle" /\ pc' = [pc EXCEPT ![t] = "ping"]
    BY <1>6 DEF Tick, Running
  <2>2. \A p \in Procs : moved'[p] # Nil => pc'[p] \in Locked
    BY <1>0, <2>1 DEF Visited, Locked, TypeOK
  <2> QED
    BY <2>1, <2>2, OutOfDrain
<1> QED
  BY <1>1, <1>2, <1>4, <1>5, <1>6, UploadVisits, FinalizerVisits, DrainVisits
     DEF Next, Logger

\* A drain that ends before its deadline leaves a file behind only for a target
\* whose last attempt failed (main.go's drain, uploader.go's DrainPending): no
\* file is skipped because of its age, of a backoff or of what another target did.
THEOREM DrainsLeaveOnlyFailures == Spec => DrainLeavesOnlyFailures
<1>1. Init => Visited
  BY LockNames DEF Init, Visited, NoWork
<1>2. IInv => TypeOK
  BY DEF IInv
<1>3. (IInv /\ Visited /\ DrainComplete)
        => \A t \in config.configured : OwedAtDrain(t) # {} => t \in failed
  <2> SUFFICES ASSUME IInv, Visited, DrainComplete, NEW t \in config.configured
               PROVE  OwedAtDrain(t) = {} \/ t \in failed
    OBVIOUS
  <2>1. phase = "draining" /\ AllIdle /\ due = {} /\ ~progressed /\ t \in Procs
    BY LockNames DEF DrainComplete, IInv, TypeOK
  <2> QED
    BY <2>1 DEF Visited, AllIdle
<1>4. (IInv /\ Visited /\ [Next]_vars)
      => [DrainComplete =>
            \A t \in config.configured : OwedAtDrain(t) # {} => t \in failed]_vars
  BY <1>3
<1> QED
  BY <1>1, <1>2, <1>4, Invariance, NextVisits, PTL DEF Spec, DrainLeavesOnlyFailures

-----------------------------------------------------------------------------
(* The steps as Delivery sees them *)

Size == [f \in Files |-> IF lines[f] = Nil THEN Nil ELSE Entries(f)]
Held == [t \in Targets |-> [f \in Files |-> Len(stored[t][f])]]

\* Nothing Delivery looks at changes.
Hidden == UNCHANGED <<config, lines, stored, pending, writer, raced>>

LEMMA SizeKept == UNCHANGED lines => UNCHANGED Size
BY DEF Size, Entries

LEMMA HeldKept == UNCHANGED stored => UNCHANGED Held
BY DEF Held

LEMMA HiddenStutters == Hidden => UNCHANGED Abstract!vars
BY SizeKept, HeldKept DEF Hidden, Abstract!vars, Size, Held

LEMMA HiddenSteps ==
  ASSUME \/ Shutdown \/ SetPause \/ PublishSession \/ ClearSession
         \/ BeginDrain \/ DrainTarget \/ NextPass
         \/ \E t \in Targets : \/ Tick(t) \/ BackoffEnds(t) \/ Ping(t) \/ NothingToSend(t)
                               \/ ReadFile(t) \/ Handshake(t) \/ Complete(t) \/ Mark(t)
         \/ \E p \in Procs : Acquire(p) \/ Cleanup(p) \/ Release(p)
  PROVE  Hidden
<1>1. CASE Shutdown \/ SetPause \/ PublishSession \/ ClearSession
  BY <1>1 DEF Shutdown, SetPause, PublishSession, Session!Publish, ClearSession,
              Session!Clear, Hidden, logger, disk
<1>2. CASE BeginDrain \/ DrainTarget \/ NextPass
  BY <1>2 DEF BeginDrain, DrainTarget, NextPass, Hidden, logger, disk
<1>3. CASE \E t \in Targets : \/ Tick(t) \/ BackoffEnds(t) \/ Ping(t) \/ NothingToSend(t)
                              \/ ReadFile(t) \/ Handshake(t) \/ Complete(t) \/ Mark(t)
  <2>1. PICK t \in Targets : \/ Tick(t) \/ BackoffEnds(t) \/ Ping(t) \/ NothingToSend(t)
                             \/ ReadFile(t) \/ Handshake(t) \/ Complete(t) \/ Mark(t)
    BY <1>3
  <2>2. CASE Tick(t) \/ BackoffEnds(t) \/ Ping(t) \/ NothingToSend(t)
    BY <2>2 DEF Tick, BackoffEnds, Ping, NothingToSend, Hidden, logger, disk
  <2>3. CASE ReadFile(t) \/ Mark(t)
    BY <2>3 DEF ReadFile, Mark, Hidden, logger, disk
  <2>4. CASE Handshake(t) \/ Complete(t)
    BY <2>4 DEF Handshake, Complete, Remote, Hidden, logger, disk
  <2>5. QED
    BY <2>1, <2>2, <2>3, <2>4
<1>4. CASE \E p \in Procs : Acquire(p) \/ Cleanup(p) \/ Release(p)
  BY <1>4 DEF Acquire, Cleanup, Release, Hidden, logger, disk
<1>5. QED
  BY <1>1, <1>2, <1>3, <1>4

\* New changes what counts; the end of a process ends the recording.
LEMMA ProcessMapped ==
  ASSUME IInv, Start \/ Stopped
  PROVE  Abstract!Next
<1>1. CASE Start
  <2>1. config' \in Configs /\ UNCHANGED <<lines, stored, pending, writer, raced>>
    BY <1>1 DEF Start, logger
  <2>2. config.enabled' \in SUBSET Targets
    BY <2>1, ConstantFacts
  <2>3. Abstract!Reconfigure
    BY <2>1, <2>2, SizeKept, HeldKept DEF Abstract!Reconfigure, Size, Held
  <2>4. QED
    BY <2>3 DEF Abstract!Next
<1>2. CASE Stopped
  <2>1. Abstract!Finish
    BY <1>2, SizeKept, HeldKept DEF Stopped, Abstract!Finish, Size, Held
  <2>2. QED
    BY <2>1 DEF Abstract!Next
<1>3. QED
  BY <1>1, <1>2

\* The recording of a session.
LEMMA LoggerMapped ==
  ASSUME IInv, CreateSession \/ FlushLines \/ CloseSession
  PROVE  Abstract!Next
<1>1. CASE CreateSession
  <2>1. PICK f \in Files : /\ lines[f] = Nil /\ writer' = f
                           /\ pending' = pending \cup {f}
                           /\ lines' = [lines EXCEPT ![f] = 0]
    BY <1>1 DEF CreateSession, Session!Create
  <2>2. Size[f] = Nil /\ Size' = [Size EXCEPT ![f] = 0]
    <3>1. \A g \in Files : lines'[g] = IF g = f THEN 0 ELSE lines[g]
      BY <2>1 DEF IInv, TypeOK
    <3>2. \A g \in Files : g # f => Entries(g)' = Entries(g)
      BY <3>1 DEF Entries
    <3>3. Entries(f)' = 0 /\ Nil # 0
      BY <3>1, ConstantFacts DEF Entries
    <3>4. \A g \in Files : Size'[g] = IF g = f THEN 0 ELSE Size[g]
      BY <3>1, <3>2, <3>3 DEF Size
    <3>5. QED
      BY <2>1, <3>4 DEF Size
  <2>3. Abstract!Begin(f)
    BY <1>1, <2>1, <2>2, HeldKept DEF CreateSession, Session!Create, Abstract!Begin, Size, Held
  <2>4. QED
    BY <2>3 DEF Abstract!Next
<1>2. CASE FlushLines
  <2>1. writer \in Files /\ lines[writer] \in Nat
    BY <1>2 DEF FlushLines, Session!Flush, IInv, TypeOK, Created
  <2>2. PICK n \in lines[writer] + 1 .. Content[writer] :
              lines' = [lines EXCEPT ![writer] = n]
    BY <1>2 DEF FlushLines, Session!Flush
  <2>3. n \in Nat /\ n > lines[writer] /\ Nil \notin Nat
    BY <2>1, <2>2, ConstantFacts
  <2>4. /\ Size' = [Size EXCEPT ![writer] = Size'[writer]]
        /\ Size'[writer] \in Nat /\ Size'[writer] >= Size[writer]
    <3>1. \A g \in Files : lines'[g] = IF g = writer THEN n ELSE lines[g]
      BY <2>2 DEF IInv, TypeOK
    <3>2. \A g \in Files : g # writer => Entries(g)' = Entries(g)
      BY <3>1 DEF Entries
    <3>3. /\ Size[writer] \in Nat /\ Size'[writer] \in Nat /\ Size'[writer] >= Size[writer]
      BY <2>1, <2>3, <3>1 DEF Size, Entries
    <3>4. \A g \in Files : g # writer => Size'[g] = Size[g]
      BY <3>1, <3>2 DEF Size
    <3>5. Size' = [Size EXCEPT ![writer] = Size'[writer]]
      BY <3>4 DEF Size
    <3>6. QED
      BY <3>3, <3>5
  <2>5. PICK f \in Files : f = writer
    BY <2>1
  <2>6. Abstract!Grow(f)
    BY <1>2, <2>4, <2>5, HeldKept DEF FlushLines, Session!Flush, Abstract!Grow, logger, Size, Held
  <2>7. QED
    BY <2>6 DEF Abstract!Next
<1>3. CASE CloseSession
  <2>1. Abstract!Finish
    BY <1>3, SizeKept, HeldKept DEF CloseSession, Session!Close, disk, Abstract!Finish, Size, Held
  <2>2. QED
    BY <2>1 DEF Abstract!Next
<1>4. QED
  BY <1>1, <1>2, <1>3

\* A listing that includes the open file exposes it.
LEMMA ListMapped ==
  ASSUME IInv, NEW t \in Targets, List(t)
  PROVE  [Abstract!Next]_Abstract!vars
<1>1. UNCHANGED <<config, lines, stored, pending, writer>>
  BY DEF List, logger, disk
<1>2. todo'[t] \subseteq Files /\ raced' = raced \cup (todo'[t] \cap {writer})
  BY DEF List, IInv, TypeOK, Procs
<1>3. CASE raced' = raced
  BY <1>1, <1>3, HiddenStutters DEF Hidden
<1>4. CASE raced' # raced
  <2>1. writer # Nil /\ raced' = raced \cup {writer}
    BY <1>2, <1>4, ConstantFacts
  <2>2. Abstract!Expose
    BY <1>1, <2>1, SizeKept, HeldKept DEF Abstract!Expose, Size, Held
  <2>3. QED
    BY <2>2 DEF Abstract!Next
<1>5. QED
  BY <1>3, <1>4

\* A batch the server took is a delivery, whatever the client heard of it.
LEMMA SendMapped ==
  ASSUME IInv, TypeOK', NEW t \in Targets, SendBatch(t)
  PROVE  [Abstract!Next]_Abstract!vars
<1>1. UNCHANGED <<config, lines, pending, writer, raced>>
  BY DEF SendBatch, Remote, logger, disk
<1>2. CASE stored' = stored
  BY <1>1, <1>2, HiddenStutters DEF Hidden
<1>3. CASE stored' # stored
  <2> DEFINE n == LastOfBatch(t)
  <2>0. PICK f \in Files : f = file[t]
    BY SendBatchStores
  <2>1. /\ Job(t) /\ f \in Files /\ n \in Nat /\ n <= total[t]
        /\ \A u \in Targets : u # t => stored'[u] = stored[u]
        /\ \A g \in Files : g # f => stored'[t][g] = stored[t][g]
        /\ stored'[t][f] = Sequence(n) /\ Len(stored[t][f]) < n
    BY <1>3, <2>0, SendBatchStores
  <2>2. Len(stored'[t][f]) = n
    BY <2>1, SequenceFacts
  <2>3. f \in pending /\ n <= Entries(f) /\ lines[f] # Nil
    <3>1. pc[t] = "data" /\ total[t] \in Nat /\ Entries(f) \in Nat
      BY <2>1, EntriesNat DEF SendBatch, IInv, TypeOK
    <3>2. f \in pending /\ total[t] <= Entries(f)
      BY <2>0, <2>1, <3>1 DEF Job
    <3>3. QED
      BY <2>1, <3>1, <3>2 DEF IInv, Created
  <2> HIDE DEF n
  <2>4. Held[t][f] < n /\ Held'[t][f] = n
    BY <2>1, <2>2 DEF Held
  <2>5. Held' = [Held EXCEPT ![t][f] = Held'[t][f]]
    <3>1. \A u \in Targets, g \in Files : (u # t \/ g # f) => Held'[u][g] = Held[u][g]
      BY <2>1 DEF Held
    <3>2. \A u \in Targets : u # t => Held'[u] = Held[u]
      BY <3>1 DEF Held
    <3>3. Held'[t] = [Held[t] EXCEPT ![f] = Held'[t][f]]
      BY <3>1 DEF Held
    <3>4. /\ Held = [u \in Targets |-> Held[u]] /\ Held' = [u \in Targets |-> Held'[u]]
          /\ Held[t] = [g \in Files |-> Held[t][g]]
      BY DEF Held
    <3>5. QED
      BY <3>2, <3>3, <3>4
  <2>6. Size[f] = Entries(f)
    BY <2>1, <2>3 DEF Size
  <2>7. Abstract!Deliver(f, t)
    BY <1>1, <2>3, <2>4, <2>5, <2>6, SizeKept DEF Abstract!Deliver, Size, Held
  <2>8. QED
    BY <2>1, <2>7 DEF Abstract!Next
<1>4. QED
  BY <1>2, <1>3

\* A rename retires a file that every enabled target has a true marker for.
LEMMA FinalizeMapped ==
  ASSUME IInv, NEW p \in Procs, Finalize(p)
  PROVE  [Abstract!Next]_Abstract!vars
<1>1. UNCHANGED <<config, lines, stored, writer, raced>>
  BY DEF Finalize, logger
<1>2. CASE pending' = pending
  BY <1>1, <1>2, HiddenStutters DEF Hidden
<1>3. CASE pending' # pending
  <2>1. PICK f \in Oldest(todo[p]) : Ready(f) /\ pending' = pending \ {f}
    BY <1>3 DEF Finalize
  <2>2. f \in Files /\ f \in pending /\ lines[f] # Nil
    BY <2>1 DEF Ready, IInv, TypeOK, Created
  <2>3. config.enabled # {} /\ config.enabled \subseteq Targets
    BY DEF Finalize, Locked, IInv, Working, TypeOK
  <2>4. \A t \in config.enabled : f \notin raced => f # writer /\ Delivered(f, t)
    BY <2>1 DEF Ready, IInv, MarkersTrue
  <2>5. Entries(f) \in Nat
    BY <2>2, EntriesNat DEF IInv
  <2>6. \A t \in config.enabled : f \notin raced => Held[t][f] = Size[f]
    BY <2>2, <2>3, <2>4, <2>5, SequenceFacts DEF Delivered, Held, Size
  <2>7. Abstract!Retire(f)
    BY <1>1, <2>1, <2>2, <2>3, <2>4, <2>6, SizeKept, HeldKept
       DEF Abstract!Retire, Size, Held
  <2>8. QED
    BY <2>2, <2>7 DEF Abstract!Next
<1>4. QED
  BY <1>2, <1>3

LEMMA NextMapped == IInv /\ TypeOK' /\ [Next]_vars => [Abstract!Next]_Abstract!vars
<1> SUFFICES ASSUME IInv, TypeOK', [Next]_vars PROVE [Abstract!Next]_Abstract!vars
  OBVIOUS
<1>1. CASE UNCHANGED vars
  BY <1>1, HiddenStutters DEF Hidden, vars, logger, disk
<1>2. CASE Start \/ Crash
  BY <1>2, ProcessMapped DEF Crash
<1>3. CASE Shutdown \/ SetPause
  BY <1>3, HiddenSteps, HiddenStutters
<1>4. CASE Logger
  BY <1>4, HiddenSteps, HiddenStutters, LoggerMapped DEF Logger
<1>5. CASE \E t \in Targets : Tick(t) \/ Upload(t) \/ BackoffEnds(t)
  <2>1. PICK t \in Targets : Tick(t) \/ Upload(t) \/ BackoffEnds(t)
    BY <1>5
  <2>2. CASE List(t)
    BY <2>2, ListMapped
  <2>3. CASE SendBatch(t)
    BY <2>3, SendMapped
  <2>4. CASE ~List(t) /\ ~SendBatch(t)
    BY <2>1, <2>4, HiddenSteps, HiddenStutters DEF Upload
  <2>5. QED
    BY <2>2, <2>3, <2>4
<1>6. CASE \E p \in Procs : Finalizer(p)
  BY <1>6, HiddenSteps, HiddenStutters, FinalizeMapped DEF Finalizer
<1>7. CASE Drain
  BY <1>7, HiddenSteps, HiddenStutters, ProcessMapped
     DEF Drain, DrainDeadline, DrainComplete, Exit
<1>8. QED
  BY <1>1, <1>2, <1>3, <1>4, <1>5, <1>6, <1>7 DEF Next

\* Markers, retries, the drain, crashes and restarts are invisible: servers
\* only gain entries that are on disk, and a session leaves the queue only
\* once every enabled target holds all of it.
THEOREM DeliveryRefinement == Spec => ImplementsDelivery
<1>1. Init => Abstract!Init
  BY DEF Init, Abstract!Init
<1>2. IInv /\ [Next]_vars => [Abstract!Next]_Abstract!vars
  BY StepTyped, NextMapped
<1>3. QED
  BY <1>1, <1>2, Invariance, PTL DEF Spec, ImplementsDelivery, Abstract!Spec

-----------------------------------------------------------------------------
(* The requests of one target: UploadAuth *)

\* The server carries a call out on the way to "accepted" and nowhere else.
Carried ==
  /\ stage = "accepted" => executed = 1
  /\ stage \notin {"idle", "accepted"} => executed = 0

\* A claim that can be read is the expiry.
Claims == token # NoToken => token.claimed \in {token.expiry, 0}

\* A token just issued has nearly all of its life ahead.
Issued ==
  stage = "issued" =>
    /\ offer # NoToken /\ offer.claimed \in {offer.expiry, 0}
    /\ offer.expiry >= (now - waited) + Life

\* A token that is sent lasts longer than the request can.
Lasting == stage = "sent" /\ ~bearer => token # NoToken /\ token.expiry > now + (MaxWait - waited)

\* The second attempt has a new token, and a valid one.
Second ==
  attempt = 1 /\ ~bearer /\ ~fault =>
    /\ stage \in {"header", "login"} => token = NoToken
    /\ stage = "issued" => offer.valid
    /\ stage = "sent" => token.valid
    /\ stage # "denied"

AuthInv == AuthTypeOK /\ Carried /\ Claims /\ Issued /\ Lasting /\ Second /\ HealsInOneCall

LEMMA AuthInitInv == AuthInit => AuthInv
<1> SUFFICES ASSUME AuthInit PROVE AuthInv
  OBVIOUS
<1>1. AuthTypeOK
  <2>1. usable \in BOOLEAN /\ bearer \in BOOLEAN /\ keyGood \in BOOLEAN /\ fault \in BOOLEAN
    BY Zenon DEF AuthInit
  <2>2. now \in 0..MaxTime /\ waited \in 0..MaxWait /\ attempt \in {0, 1} /\ executed \in {0, 1}
    BY UploadAuthAssumption DEF AuthInit
  <2>3. /\ token \in Token \cup {NoToken} /\ offer \in Token \cup {NoToken} /\ skew \in Skews
        /\ stage = "idle" /\ result = "none"
    BY Zenon DEF AuthInit
  <2> QED
    BY <2>1, <2>2, <2>3, Zenon DEF AuthTypeOK
<1>2. Carried /\ Claims /\ Issued /\ Lasting /\ Second
  BY DEF AuthInit, Carried, Claims, Issued, Lasting, Second
<1>3. HealsInOneCall
  BY DEF AuthInit, HealsInOneCall
<1> QED
  BY <1>1, <1>2, <1>3 DEF AuthInv

\* Time only uses up what Lasting and Issued leave.
LEMMA AuthEnvironment ==
  ASSUME AuthInv, TimePasses \/ SetClock \/ Revoke
  PROVE  AuthInv'
<1> USE UploadAuthAssumption
        DEF AuthInv, AuthTypeOK, Carried, Claims, Issued, Lasting, Second, HealsInOneCall,
            setup, clock, call
<1>1. CASE TimePasses
  <2>1. now' \in 0..MaxTime /\ waited' \in 0..MaxWait /\ now' = now + 1
    BY <1>1 DEF TimePasses
  <2>2. stage \notin {"idle", "header"} => waited' = waited + 1
    BY <1>1 DEF TimePasses
  <2>3. UNCHANGED <<usable, bearer, keyGood, token, offer, skew, stage, attempt, executed,
                    result, fault>>
    BY <1>1 DEF TimePasses
  <2>4. Issued' /\ Lasting'
    BY <2>1, <2>2, <2>3 DEF Token
  <2> QED
    BY <2>1, <2>3, <2>4
<1>2. CASE SetClock
  BY <1>2 DEF SetClock
<1>3. CASE Revoke
  <2>1. /\ UNCHANGED <<usable, bearer, now, skew, stage, attempt, waited, executed, result>>
        /\ keyGood' \in BOOLEAN
        /\ fault' = (fault \/ (attempt = 1 /\ stage \in {"issued", "sent"}))
        /\ token' = Revoked(token) /\ offer' = Revoked(offer)
    BY <1>3 DEF Revoke
  <2>2. \A t \in Token \cup {NoToken} :
          /\ Revoked(t) \in Token \cup {NoToken}
          /\ (Revoked(t) = NoToken) = (t = NoToken)
          /\ t # NoToken => Revoked(t).expiry = t.expiry /\ Revoked(t).claimed = t.claimed
    BY DEF Revoked, Token
  <2>3. AuthTypeOK' /\ Claims'
    BY <2>1, <2>2
  <2>4. Issued' /\ Lasting'
    BY <2>1, <2>2
  <2>5. Second' /\ HealsInOneCall'
    BY <2>1, <2>2
  <2> QED
    BY <2>1, <2>3, <2>4, <2>5
<1> QED
  BY <1>1, <1>2, <1>3

\* What is in the cache and not about to expire outlasts the request; so does
\* what the server has just issued.
LEMMA CredentialStep ==
  ASSUME AuthInv, GetAuthHeader \/ Issue \/ LoggedIn
  PROVE  AuthInv'
<1> USE UploadAuthAssumption
        DEF AuthInv, AuthTypeOK, Carried, Claims, Issued, Lasting, Second, HealsInOneCall,
            setup, clock
<1>1. CASE GetAuthHeader
  <2>1. /\ UNCHANGED <<usable, bearer, keyGood, token, offer, now, skew, attempt, executed,
                       result, fault>>
        /\ waited' = 0 /\ stage = "header" /\ usable
        /\ stage' = IF bearer \/ Cached THEN "sent" ELSE "login"
    BY <1>1 DEF GetAuthHeader
  <2>2. ASSUME Cached
        PROVE  token # NoToken /\ token.expiry > now + MaxWait
    BY <2>2, MarginSuffices DEF Cached, Token, Skews
  <2>3. Lasting'
    BY <2>1, <2>2
  <2>4. Second'
    BY <2>1 DEF Cached
  <2> QED
    BY <2>1, <2>3, <2>4
<1>2. CASE Issue
  <2>1. PICK c \in {now + Life, 0} :
          offer' = [expiry |-> now + Life, claimed |-> c, valid |-> TRUE]
    BY <1>2 DEF Issue
  <2>2. /\ UNCHANGED <<usable, bearer, keyGood, token, now, skew, attempt, waited, executed,
                       result, fault>>
        /\ stage = "login" /\ stage' = "issued"
    BY <1>2 DEF Issue
  <2>3. offer' \in Token /\ offer' # NoToken
    <3>1. now + Life \in Nat /\ c \in Nat
      OBVIOUS
    <3>2. offer' \in Token
      BY <2>1, <3>1, Zenon DEF Token
    <3> QED
      BY <3>2, Zenon DEF Token
  <2>4. Issued'
    BY <2>1, <2>2, <2>3 DEF Token
  <2>5. Second'
    BY <2>1, <2>2
  <2> QED
    BY <2>2, <2>3, <2>4, <2>5
<1>3. CASE LoggedIn
  <2>1. /\ UNCHANGED <<usable, bearer, keyGood, now, skew, attempt, executed, result, fault>>
        /\ token' = offer /\ offer' = NoToken /\ waited' = 0
        /\ stage = "issued" /\ stage' = "sent"
    BY <1>3 DEF LoggedIn
  <2>2. offer.expiry > now + MaxWait
    BY <2>1, MarginSuffices DEF Token
  <2> QED
    BY <2>1, <2>2
<1> QED
  BY <1>1, <1>2, <1>3

\* A call that ends has met a fault, or succeeded, or was never configured, or
\* has been denied twice, which Second excludes.
LEMMA CallEnds ==
  ASSUME AuthInv, NotConfigured \/ LoginFails \/ Lost \/ Succeeds \/ Denied
  PROVE  AuthInv'
<1> USE UploadAuthAssumption
        DEF AuthInv, AuthTypeOK, Carried, Claims, Issued, Lasting, Second, HealsInOneCall,
            setup, clock, Finish
<1>1. CASE NotConfigured
  BY <1>1 DEF NotConfigured
<1>2. CASE LoginFails \/ Lost
  <2>1. /\ UNCHANGED <<usable, bearer, keyGood, token, now, skew, attempt, executed>>
        /\ stage' = "idle" /\ result' = "failed" /\ offer' = NoToken /\ waited' = 0
        /\ fault' = TRUE
    BY <1>2 DEF LoginFails, Lost, CallFails
  <2>2. HealsInOneCall'
    BY <2>1, Zenon
  <2>3. Second'
    BY <2>1, Zenon
  <2>4. AuthTypeOK'
    BY <2>1
  <2> QED
    BY <2>1, <2>2, <2>3, <2>4
<1>3. CASE Succeeds
  BY <1>3 DEF Succeeds
<1>4. CASE Denied
  BY <1>4 DEF Denied
<1> QED
  BY <1>1, <1>2, <1>3, <1>4

LEMMA RequestStep ==
  ASSUME AuthInv, Call \/ Serve \/ Retry
  PROVE  AuthInv'
<1> USE UploadAuthAssumption
        DEF AuthInv, AuthTypeOK, Carried, Claims, Issued, Lasting, Second, HealsInOneCall,
            setup, clock
<1>1. CASE Call
  <2>1. /\ UNCHANGED <<usable, bearer, keyGood, token, offer, now, skew, waited>>
        /\ stage' = "header" /\ attempt' = 0 /\ executed' = 0 /\ result' = "none"
        /\ fault' = FALSE
    BY <1>1 DEF Call
  <2>2. AuthTypeOK'
    BY <2>1
  <2>3. HealsInOneCall' /\ Second'
    BY <2>1
  <2> QED
    BY <2>1, <2>2, <2>3
<1>2. CASE Serve
  <2>1. /\ UNCHANGED <<usable, bearer, keyGood, token, offer, now, skew, attempt, waited,
                       result, fault>>
        /\ stage = "sent"
        /\ \/ Accepts /\ stage' = "accepted" /\ executed' = executed + 1
           \/ ~Accepts /\ stage' = "denied" /\ executed' = executed
    BY <1>2 DEF Serve
  <2>2. ~bearer /\ token.valid => Accepts
    BY <2>1 DEF Accepts, Token
  <2> QED
    BY <2>1, <2>2
<1>3. CASE Retry
  BY <1>3 DEF Retry
<1> QED
  BY <1>1, <1>2, <1>3

LEMMA AuthNextInv ==
  ASSUME AuthInv, [AuthNext]_authVars
  PROVE  AuthInv'
<1>1. CASE UNCHANGED authVars
  BY <1>1 DEF authVars, setup, clock, call, AuthInv, AuthTypeOK, Carried, Claims, Issued, Lasting,
              Second, HealsInOneCall
<1>2. CASE AuthNext
  BY <1>2, AuthEnvironment, CredentialStep, CallEnds, RequestStep DEF AuthNext
<1> QED
  BY <1>1, <1>2

LEMMA AuthInductive == AuthSpec => []AuthInv
<1>1. AuthInv /\ [AuthNext]_authVars => AuthInv'
  BY AuthNextInv
<1> QED
  BY AuthInitInv, <1>1, PTL DEF AuthSpec

-----------------------------------------------------------------------------

\* The variables of a request keep to their types (auth.go:60-69, target.go:341-433).
THEOREM RequestsTyped == AuthSpec => []AuthTypeOK
<1>1. AuthInv => AuthTypeOK
  BY DEF AuthInv
<1> QED
  BY AuthInductive, <1>1, PTL

\* One refused token never costs a call (target.go:372-376, auth.go:153-161).
THEOREM OneRefusalHeals == AuthSpec => []HealsInOneCall
<1>1. AuthInv => HealsInOneCall
  BY DEF AuthInv
<1> QED
  BY AuthInductive, <1>1, PTL

\* No token expires on its way to the server (auth.go:48, 142).
THEOREM TokensOutlastRequests == AuthSpec => []InFlightFresh
<1>1. AuthInv => InFlightFresh
  BY UploadAuthAssumption DEF AuthInv, AuthTypeOK, Lasting, InFlightFresh, Token
<1> QED
  BY AuthInductive, <1>1, PTL

LEMMA CallRefines ==
  ASSUME AuthInv, [AuthNext]_authVars
  PROVE  [Contract!Next]_(Contract!vars)
<1> USE DEF Contract!Next, Contract!Call, Contract!Execute, Contract!Return, Contract!vars
<1>1. CASE UNCHANGED authVars
  BY <1>1 DEF authVars, call
<1>2. CASE TimePasses \/ SetClock \/ Revoke \/ GetAuthHeader \/ Issue \/ LoggedIn \/ Retry
  BY <1>2 DEF TimePasses, SetClock, Revoke, GetAuthHeader, Issue, LoggedIn, Retry, call
<1>3. CASE Call
  BY <1>3 DEF Call
<1>4. CASE Serve
  BY <1>4 DEF Serve, AuthInv, Carried
<1>5. CASE NotConfigured \/ LoginFails \/ Lost \/ Denied
  BY <1>5 DEF NotConfigured, LoginFails, Lost, Denied, CallFails, Finish
<1>6. CASE Succeeds
  BY <1>6 DEF Succeeds, Finish, AuthInv, Carried
<1> QED
  BY <1>1, <1>2, <1>3, <1>4, <1>5, <1>6 DEF AuthNext

\* A call is carried out at most once, and exactly once when it reports success
\* (target.go:341-433).
THEOREM CallsAreSingle == AuthSpec => ImplementsRequest
<1>1. AuthInit => Contract!Init
  BY DEF AuthInit, Contract!Init
<1>2. AuthInv /\ [AuthNext]_authVars => [Contract!Next]_(Contract!vars)
  BY CallRefines
<1> QED
  BY AuthInductive, <1>1, <1>2, PTL DEF AuthSpec, ImplementsRequest, Contract!Spec
=============================================================================
