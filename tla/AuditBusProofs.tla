---------------------------- MODULE AuditBusProofs ----------------------------
(***************************************************************************)
(* Theorems about AuditBus.tla for any number of processes, events and     *)
(* outages.  Under every fault: type correctness, that emit has recorded   *)
(* its event when it returns as long as the database was never away, and   *)
(* that an event waiting to be recorded is in one place.  For hook         *)
(* processes that neither overlap nor crash: that no event taken by emit() *)
(* is lost, and that the bus implements the abstract AuditLog.             *)
(***************************************************************************)
EXTENDS AuditBus, TLAPS

-------------------------------------------------------------------------------
(* Threads. *)

LEMMA ThreadFacts ==
    /\ \A p \in Proc : Hook(p) \in Thread /\ Worker(p) \in Thread
    /\ \A p, q \in Proc : Hook(p) # Worker(q)
    /\ \A p, q \in Proc : Hook(p) = Hook(q) => p = q
    /\ \A p, q \in Proc : Worker(p) = Worker(q) => p = q
    /\ \A t \in Thread : \E p \in Proc : t = Hook(p) \/ t = Worker(p)
    /\ \A p \in Proc : Home(Hook(p)) = "ready" /\ Home(Worker(p)) = "idle"
BY DEF Thread, Hook, Worker, Home

-------------------------------------------------------------------------------
(* Type correctness.  TypeOK alone is not inductive: the event a thread writes *)
(* and the lines a replay inserts must be known to be events.                  *)

StepTypes ==
    /\ \A t \in Thread : pc[t] \in {"open", "append"} => held[t] \in Event
    /\ \A t \in Thread : pc[t] = "append" => fd[t] \in Event
    /\ \A p \in Proc : pc[Hook(p)] = "insert" => batch[p] \subseteq Event

TypeInv == TypeOK /\ StepTypes

LEMMA TypeInit == Init => TypeInv
BY ThreadFacts, OutagesAssumption DEF Init, TypeInv, TypeOK, StepTypes

LEMMA TypeNext == TypeInv /\ [Next]_vars => TypeInv'
<1> SUFFICES ASSUME TypeInv, [Next]_vars PROVE TypeInv'
  OBVIOUS
<1> USE DEF TypeInv, TypeOK, StepTypes, Goto, busFiles
<1>1. CASE DbFail
  <2>1. outages' \in 0..MaxOutages
    <3>1. outages \in 0..MaxOutages /\ outages < MaxOutages /\ outages' = outages + 1
      BY <1>1, Zenon DEF DbFail
    <3> QED BY <3>1, OutagesAssumption
  <2>2. /\ dbUp' = FALSE
        /\ UNCHANGED <<db, lines, buffer, replaying, pc, held, fd, batch, nowait,
                       emitted, returned, deferred>>
    BY <1>1 DEF DbFail
  <2> QED BY <2>1, <2>2
<1>2. CASE DbRecover
  BY <1>2 DEF DbRecover
<1>3. ASSUME NEW p \in Proc, Start(p) PROVE TypeInv'
  BY <1>3, ThreadFacts DEF Start
<1>4. ASSUME NEW p \in Proc, Vanish(p) PROVE TypeInv'
  <2>1. /\ pc' = [pc EXCEPT ![Hook(p)] = "off", ![Worker(p)] = "idle"]
        /\ held' = [held EXCEPT ![Hook(p)] = NoFile, ![Worker(p)] = NoFile]
        /\ fd' = [fd EXCEPT ![Hook(p)] = NoFile, ![Worker(p)] = NoFile]
        /\ batch' = [batch EXCEPT ![p] = {}]
        /\ nowait' = [nowait EXCEPT ![p] = <<>>]
        /\ UNCHANGED <<dbUp, outages, db, lines, buffer, replaying, emitted,
                       returned, deferred>>
    BY <1>4 DEF Vanish
  <2>2. nowait' \in [Proc -> Seq(Event)]
    <3>1. <<>> \in Seq(Event)
      OBVIOUS
    <3> QED BY <2>1, <3>1, Zenon
  <2>3. /\ pc' \in [Thread -> {"off", "check", "rename", "read", "insert", "unlink",
                               "restore", "ready", "idle", "open", "append"}]
        /\ held' \in [Thread -> Event \cup {NoFile}]
        /\ fd' \in [Thread -> Event \cup {NoFile}]
        /\ batch' \in [Proc -> SUBSET Line]
    BY <2>1
  <2>4. TypeOK'
    BY <2>1, <2>2, <2>3
  <2>5. StepTypes'
    BY <2>1, ThreadFacts
  <2> QED BY <2>4, <2>5
<1>5. ASSUME NEW p \in Proc, CheckBuffer(p) PROVE TypeInv'
  BY <1>5, ThreadFacts DEF CheckBuffer
<1>6. ASSUME NEW p \in Proc, RenameAway(p) PROVE TypeInv'
  BY <1>6, ThreadFacts DEF RenameAway
<1>7. ASSUME NEW p \in Proc, ReadLines(p) PROVE TypeInv'
  <2>1. CASE replaying = NoFile \/ Torn \in Contents(replaying)
    BY <1>7, <2>1, ThreadFacts, ZenonT(30) DEF ReadLines
  <2>2. CASE ~(replaying = NoFile \/ Torn \in Contents(replaying))
    <3>1. replaying \in Event /\ Contents(replaying) \subseteq Event
      BY <2>2 DEF Contents, Line
    <3>2. /\ pc' = [pc EXCEPT ![Hook(p)] = "insert"]
          /\ batch' = [batch EXCEPT ![p] = Contents(replaying)]
          /\ UNCHANGED <<dbUp, outages, db, lines, buffer, replaying, held, fd,
                         nowait, emitted, returned, deferred>>
      BY <1>7, <2>2 DEF ReadLines
    <3>3. Contents(replaying) \in SUBSET Line
      BY <3>1 DEF Line
    <3>4. TypeOK'
      BY <3>2, <3>3, ThreadFacts
    <3>5. StepTypes'
      BY <3>1, <3>2, ThreadFacts
    <3> QED BY <3>4, <3>5
  <2> QED BY <2>1, <2>2
<1>8. ASSUME NEW p \in Proc, InsertBatch(p) PROVE TypeInv'
  BY <1>8, ThreadFacts, ZenonT(30) DEF InsertBatch
<1>9. ASSUME NEW p \in Proc, Unlink(p) PROVE TypeInv'
  BY <1>9, ThreadFacts DEF Unlink
<1>10. ASSUME NEW p \in Proc, Restore(p) PROVE TypeInv'
  BY <1>10, ThreadFacts DEF Restore
<1>11. ASSUME NEW t \in Thread, NEW e \in Event, Write(t, e),
              pc[t] \notin {"open", "append", "insert"}
       PROVE  /\ db' \subseteq Event
              /\ pc' \in [Thread -> {"off", "check", "rename", "read", "insert",
                                     "unlink", "restore", "ready", "idle", "open",
                                     "append"}]
              /\ held' \in [Thread -> Event \cup {NoFile}]
              /\ StepTypes'
              /\ UNCHANGED <<dbUp, outages, busFiles, fd, batch>>
  <2>1. CASE dbUp
    BY <1>11, <2>1 DEF Write
  <2>2. CASE ~dbUp
    <3>1. /\ pc' = [pc EXCEPT ![t] = "open"] /\ held' = [held EXCEPT ![t] = e]
          /\ UNCHANGED <<dbUp, db, outages, busFiles, fd, batch>>
      BY <1>11, <2>2 DEF Write
    <3>2. StepTypes'
      BY <1>11, <3>1, ThreadFacts
    <3> QED BY <3>1, <3>2
  <2> QED BY <2>1, <2>2
<1>12. ASSUME NEW p \in Proc, NEW e \in Event, Emit(p, e) PROVE TypeInv'
  BY <1>12, <1>11, ThreadFacts DEF Emit
<1>13. ASSUME NEW p \in Proc, NEW e \in Event, EmitNowait(p, e) PROVE TypeInv'
  <2>1. CASE Len(nowait[p]) < QueueMax /\ nowait' = [nowait EXCEPT ![p] = Append(@, e)]
             /\ UNCHANGED <<dbUp, outages, db, busFiles, pc, held, fd, batch>>
    BY <1>13, <2>1 DEF EmitNowait
  <2>2. CASE Write(Hook(p), e) /\ UNCHANGED nowait
    BY <1>13, <2>2, <1>11, ThreadFacts DEF EmitNowait
  <2> QED BY <1>13, <2>1, <2>2 DEF EmitNowait
<1>14. ASSUME NEW p \in Proc, Drain(p) PROVE TypeInv'
  <2>1. Head(nowait[p]) \in Event /\ Tail(nowait[p]) \in Seq(Event)
    BY <1>14 DEF Drain
  <2> QED BY <1>14, <2>1, <1>11, ThreadFacts DEF Drain
<1>15. ASSUME NEW t \in Thread, OpenBuffer(t) PROVE TypeInv'
  BY <1>15, NamesAssumption DEF OpenBuffer
<1>16. ASSUME NEW t \in Thread, AppendLine(t) PROVE TypeInv'
  BY <1>16, ThreadFacts DEF AppendLine, Appended, Line, Home
<1>17. CASE UNCHANGED vars
  BY <1>17 DEF vars
<1> QED
  BY <1>1, <1>2, <1>3, <1>4, <1>5, <1>6, <1>7, <1>8, <1>9, <1>10, <1>12, <1>13,
     <1>14, <1>15, <1>16, <1>17
     DEF Next, Replayer, Exit, Crash, RenameFails

\* The bus's variables keep their types under every fault, overlap and crash.
THEOREM TypeCorrect == Spec => []TypeOK
<1>1. TypeInv => TypeOK
  BY DEF TypeInv
<1> QED BY TypeInit, TypeNext, <1>1, PTL DEF Spec

-------------------------------------------------------------------------------
(* No loss with serial hook processes.  NothingLost is not inductive: that an  *)
(* Unlink loses nothing rests on the batch having been read from the very file *)
(* and committed, that an append is not lost on its descriptor still being the *)
(* buffer, and both on nobody else being at work meanwhile.                    *)

Busy(p)    == pc[Hook(p)] \in {"ready", "open", "append"}
InReplay   == {"read", "insert", "unlink", "restore"}

OneAtATime  == \A p, q \in Proc : Running(p) /\ Running(q) => p = q
WorkerPlace == \A p \in Proc : /\ pc[Worker(p)] \in {"idle", "open", "append"}
                               /\ ~Busy(p) => pc[Worker(p)] = "idle" /\ nowait[p] = <<>>
AppendsToBuffer == \A t \in Thread : pc[t] = "append" => fd[t] = buffer
ReplayFiles ==
    /\ \A p \in Proc : pc[Hook(p)] = "rename" => buffer # NoFile
    /\ \A p \in Proc : pc[Hook(p)] \in InReplay => buffer = NoFile /\ replaying # NoFile
    /\ \A p \in Proc : pc[Hook(p)] = "insert" => batch[p] = Contents(replaying)
    /\ \A p \in Proc : pc[Hook(p)] = "unlink" => Contents(replaying) \subseteq db

SerialInv == /\ OneAtATime /\ WorkerPlace /\ AppendsToBuffer /\ ReplayFiles
             /\ ReplayOwned /\ NothingLost

LEMMA SerialInit == Init => SerialInv
<1> SUFFICES ASSUME Init PROVE SerialInv
  OBVIOUS
<1>1. \A p \in Proc : pc[Hook(p)] = "off" /\ pc[Worker(p)] = "idle" /\ nowait[p] = <<>>
  BY ThreadFacts DEF Init, Hook, Worker
<1>2. \A t \in Thread : pc[t] # "append"
  BY DEF Init
<1>3. replaying = NoFile /\ returned = {}
  BY DEF Init
<1> QED
  BY <1>1, <1>2, <1>3 DEF SerialInv, OneAtATime, WorkerPlace, AppendsToBuffer,
     ReplayFiles, ReplayOwned, NothingLost, Running, Busy, InReplay

\* A thread that is writing belongs to the one process that is running.
LEMMA WriterAlone ==
    ASSUME TypeInv, SerialInv, NEW t \in Thread, pc[t] \in {"open", "append"}
    PROVE  \E p \in Proc : /\ t = Hook(p) \/ t = Worker(p)
                           /\ Busy(p)
                           /\ \A q \in Proc : q # p => ~Running(q)
<1>1. PICK p \in Proc : t = Hook(p) \/ t = Worker(p)
  BY ThreadFacts
<1>2. Busy(p)
  BY <1>1 DEF SerialInv, WorkerPlace, Busy
<1>3. Running(p)
  BY <1>2 DEF Busy, Running
<1> QED BY <1>1, <1>2, <1>3 DEF SerialInv, OneAtATime

\* While a process replays, the others are off and no thread is writing.
LEMMA ReplayerAlone ==
    ASSUME TypeInv, SerialInv, NEW p \in Proc, Running(p), ~Busy(p)
    PROVE  /\ \A q \in Proc : q # p => pc[Hook(q)] = "off"
           /\ \A q \in Proc : pc[Worker(q)] = "idle" /\ nowait[q] = <<>>
           /\ \A t \in Thread : pc[t] \notin {"open", "append"}
<1>1. \A q \in Proc : q # p => pc[Hook(q)] = "off"
  BY DEF SerialInv, OneAtATime, Running
<1>2. \A q \in Proc : ~Busy(q)
  BY <1>1 DEF Busy
<1>3. \A q \in Proc : pc[Worker(q)] = "idle" /\ nowait[q] = <<>>
  BY <1>2 DEF SerialInv, WorkerPlace
<1> QED BY <1>1, <1>2, <1>3, ThreadFacts DEF Busy

\* A step of the replay keeps the control part of the invariant.
LEMMA ReplayStep ==
    ASSUME TypeInv, SerialInv, NEW p \in Proc, Running(p), ~Busy(p),
           NEW l \in {"rename", "ready"} \cup InReplay,
           Goto(Hook(p), l), UNCHANGED <<fd, nowait>>
    PROVE  /\ OneAtATime' /\ WorkerPlace' /\ AppendsToBuffer'
           /\ pc'[Hook(p)] = l
           /\ \A q \in Proc : q # p => pc'[Hook(q)] = "off"
<1>1. /\ pc'[Hook(p)] = l
      /\ \A q \in Proc : q # p => pc'[Hook(q)] = "off"
      /\ \A q \in Proc : pc'[Worker(q)] = "idle"
  BY ReplayerAlone, ThreadFacts DEF Goto, TypeInv, TypeOK
<1>2. \A t \in Thread : pc'[t] # "append"
  BY <1>1, ThreadFacts DEF InReplay
<1>3. OneAtATime'
  BY <1>1 DEF OneAtATime, Running
<1>4. WorkerPlace'
  BY <1>1, ReplayerAlone DEF WorkerPlace
<1>5. AppendsToBuffer'
  BY <1>2 DEF AppendsToBuffer
<1> QED BY <1>1, <1>3, <1>4, <1>5

\* While a process emits, the others are off and nothing is being replayed.
LEMMA EmitterAlone ==
    ASSUME TypeInv, SerialInv, NEW p \in Proc, Busy(p)
    PROVE  /\ \A q \in Proc : q # p => pc[Hook(q)] = "off"
           /\ replaying = NoFile
<1>1. \A q \in Proc : q # p => pc[Hook(q)] = "off"
  BY DEF SerialInv, OneAtATime, Running, Busy
<1> QED BY <1>1 DEF SerialInv, ReplayOwned, Busy

\* A step of either thread of an emitting process keeps the replay part.
LEMMA EmitStep ==
    ASSUME TypeInv, SerialInv, NEW p \in Proc, Busy(p),
           NEW t \in {Hook(p), Worker(p)}, NEW l \in {"open", "append", Home(t)},
           Goto(t, l), UNCHANGED replaying,
           \A q \in Proc : q # p => nowait'[q] = nowait[q]
    PROVE  /\ OneAtATime' /\ WorkerPlace' /\ ReplayFiles' /\ ReplayOwned'
           /\ pc'[t] = l /\ \A u \in Thread : u # t => pc'[u] = pc[u]
<1>1. t \in Thread /\ Home(Hook(p)) = "ready" /\ Home(Worker(p)) = "idle"
  BY ThreadFacts
<1>2. pc'[t] = l /\ \A u \in Thread : u # t => pc'[u] = pc[u]
  BY <1>1 DEF Goto, TypeInv, TypeOK
<1>3. Busy(p)'
  BY <1>1, <1>2, ThreadFacts DEF Busy
<1>4. \A q \in Proc : q # p => pc'[Hook(q)] = "off" /\ pc'[Worker(q)] = pc[Worker(q)]
  BY <1>2, EmitterAlone, ThreadFacts
<1>5. pc'[Worker(p)] \in {"idle", "open", "append"}
  BY <1>1, <1>2, ThreadFacts DEF SerialInv, WorkerPlace
<1>6. OneAtATime'
  BY <1>3, <1>4 DEF OneAtATime, Running
<1>7. ReplayFiles'
  BY <1>3, <1>4 DEF ReplayFiles, InReplay, Busy
<1>8. ReplayOwned'
  BY EmitterAlone DEF ReplayOwned
<1>9. WorkerPlace'
  <2>1. \A q \in Proc : q # p => pc[Worker(q)] = "idle" /\ nowait[q] = <<>>
    BY EmitterAlone DEF SerialInv, WorkerPlace, Busy
  <2> QED BY <1>3, <1>4, <1>5, <2>1 DEF WorkerPlace
<1> QED BY <1>2, <1>6, <1>7, <1>8, <1>9

\* The write shared by emit and _emit_safe, from either thread.
LEMMA WriteStep ==
    ASSUME TypeInv, SerialInv, NEW p \in Proc, Busy(p),
           NEW t \in {Hook(p), Worker(p)}, pc[t] = Home(t),
           NEW e \in Event, Write(t, e),
           \A q \in Proc : q # p => nowait'[q] = nowait[q]
    PROVE  /\ OneAtATime' /\ WorkerPlace' /\ AppendsToBuffer' /\ ReplayFiles'
           /\ ReplayOwned'
<1>1. t \in Thread
  BY ThreadFacts
<1>2. \E l \in {"open", "append", Home(t)} : Goto(t, l) /\ l # "append"
  <2>1. CASE dbUp
    BY <2>1, <1>1, ThreadFacts DEF Write, Goto, TypeInv, TypeOK
  <2>2. CASE ~dbUp
    BY <2>2 DEF Write
  <2> QED BY <2>1, <2>2
<1>3. PICK l \in {"open", "append", Home(t)} : Goto(t, l) /\ l # "append"
  BY <1>2
<1>4. UNCHANGED <<lines, buffer, replaying, fd>>
  BY DEF Write, busFiles
<1>5. AppendsToBuffer'
  BY <1>1, <1>3, <1>4, EmitStep DEF SerialInv, AppendsToBuffer
<1> QED BY <1>3, <1>4, <1>5, EmitStep

LEMMA SerialNext ==
    ASSUME ~Overlap, ~Crashes, ~TornWrites, TypeInv, SerialInv, [Next]_vars
    PROVE  SerialInv'
<1>1. CASE DbFail \/ DbRecover \/ UNCHANGED vars
  <2>1. UNCHANGED <<db, lines, buffer, replaying, pc, fd, batch, nowait, returned>>
    BY <1>1 DEF DbFail, DbRecover, vars, busFiles
  <2> QED
    BY <2>1 DEF SerialInv, OneAtATime, WorkerPlace, AppendsToBuffer, ReplayFiles,
       ReplayOwned, NothingLost, Running, Busy, InReplay, OnDisk, Contents
<1>2. ASSUME NEW p \in Proc, Start(p) PROVE SerialInv'
  <2>1. \A q \in Proc : pc[Hook(q)] = "off"
    BY <1>2 DEF Start, Running
  <2>2. \A q \in Proc : pc[Worker(q)] = "idle" /\ nowait[q] = <<>>
    BY <2>1 DEF SerialInv, WorkerPlace, Busy
  <2>3. /\ pc'[Hook(p)] = "check"
        /\ \A q \in Proc : q # p => pc'[Hook(q)] = "off"
        /\ \A q \in Proc : pc'[Worker(q)] = "idle"
    BY <1>2, <2>1, <2>2, ThreadFacts DEF Start, Goto, TypeInv, TypeOK
  <2>4. UNCHANGED <<db, lines, buffer, replaying, fd, batch, nowait, returned>>
    BY <1>2 DEF Start, busFiles
  <2>5. replaying = NoFile
    BY <2>1 DEF SerialInv, ReplayOwned
  <2>6. AppendsToBuffer'
    BY <2>3, ThreadFacts DEF AppendsToBuffer
  <2>7. OneAtATime' /\ WorkerPlace' /\ ReplayFiles' /\ ReplayOwned'
    BY <2>2, <2>3, <2>4, <2>5 DEF OneAtATime, WorkerPlace, ReplayFiles, ReplayOwned,
       Running, Busy, InReplay
  <2>8. NothingLost'
    BY <2>4 DEF SerialInv, NothingLost, OnDisk, Contents
  <2> QED BY <2>6, <2>7, <2>8 DEF SerialInv
<1>3. ASSUME NEW p \in Proc, Exit(p) PROVE SerialInv'
  <2>1. Vanish(p) /\ Busy(p)
    BY <1>3 DEF Exit, Busy
  <2>2. replaying = NoFile /\ \A q \in Proc : q # p => pc[Hook(q)] = "off"
    BY <2>1, EmitterAlone
  <2>3. UNCHANGED <<db, lines, buffer, replaying, returned>>
    BY <2>1 DEF Vanish, busFiles
  <2>4. \A q \in Proc : pc'[Hook(q)] = "off" /\ pc'[Worker(q)] = "idle" /\ nowait'[q] = <<>>
    <3>1. pc'[Hook(p)] = "off" /\ pc'[Worker(p)] = "idle" /\ nowait'[p] = <<>>
      BY <2>1, ThreadFacts DEF Vanish, TypeInv, TypeOK
    <3>2. ASSUME NEW q \in Proc, q # p
          PROVE  pc'[Hook(q)] = "off" /\ pc'[Worker(q)] = "idle" /\ nowait'[q] = <<>>
      <4>1. pc'[Hook(q)] = pc[Hook(q)] /\ pc'[Worker(q)] = pc[Worker(q)] /\ nowait'[q] = nowait[q]
        BY <2>1, <3>2, ThreadFacts DEF Vanish, TypeInv, TypeOK
      <4> QED BY <4>1, <2>2, <3>2 DEF SerialInv, WorkerPlace, Busy
    <3> QED BY <3>1, <3>2
  <2>5. AppendsToBuffer'
    BY <2>4, ThreadFacts DEF AppendsToBuffer
  <2>6. OneAtATime' /\ WorkerPlace' /\ ReplayFiles' /\ ReplayOwned'
    BY <2>2, <2>3, <2>4 DEF OneAtATime, WorkerPlace, ReplayFiles, ReplayOwned,
       Running, Busy, InReplay
  <2>7. NothingLost'
    BY <2>3 DEF SerialInv, NothingLost, OnDisk, Contents
  <2> QED BY <2>5, <2>6, <2>7 DEF SerialInv
<1>4. ASSUME NEW p \in Proc, Replayer(p) PROVE SerialInv'
  <2>1. Running(p) /\ ~Busy(p)
    BY <1>4 DEF Replayer, CheckBuffer, RenameAway, RenameFails, ReadLines, InsertBatch,
       Unlink, Restore, Running, Busy
  <2>2. ~RenameFails(p)
    BY DEF RenameFails, SerialInv, ReplayFiles
  <2>3. UNCHANGED <<fd, nowait, lines, returned>>
    BY <1>4, <2>2 DEF Replayer, CheckBuffer, RenameAway, ReadLines, InsertBatch,
       Unlink, Restore, busFiles
  <2>4. ASSUME NEW l \in {"rename", "ready"} \cup InReplay, Goto(Hook(p), l),
               ReplayFiles', NothingLost',
               replaying' # NoFile => l \in InReplay
        PROVE  SerialInv'
    <3>1. /\ OneAtATime' /\ WorkerPlace' /\ AppendsToBuffer' /\ pc'[Hook(p)] = l
      BY <2>1, <2>3, <2>4, ReplayStep
    <3>2. ReplayOwned'
      BY <3>1, <2>4 DEF ReplayOwned, InReplay
    <3> QED BY <2>4, <3>1, <3>2 DEF SerialInv
  <2>5. CASE CheckBuffer(p)
    <3>0. PICK l \in {"ready", "rename"} : Goto(Hook(p), l) /\ (l = "rename" => buffer # NoFile)
      BY <2>5 DEF CheckBuffer
    <3>1. UNCHANGED <<db, buffer, replaying>>
      BY <2>5 DEF CheckBuffer, busFiles
    <3>2. replaying = NoFile
      BY <2>5, ReplayerAlone, <2>1 DEF CheckBuffer, SerialInv, ReplayOwned
    <3>3. ReplayFiles'
      BY <2>1, <2>3, <3>0, <3>1, ReplayStep DEF ReplayFiles, InReplay
    <3>4. NothingLost'
      BY <2>3, <3>1 DEF SerialInv, NothingLost, OnDisk, Contents
    <3> QED BY <2>4, <3>0, <3>1, <3>2, <3>3, <3>4
  <2>6. CASE RenameAway(p)
    <3>1. /\ Goto(Hook(p), "read") /\ "read" \in InReplay
          /\ buffer # NoFile /\ replaying' = buffer /\ buffer' = NoFile /\ db' = db
      BY <2>6 DEF RenameAway, InReplay
    <3>2. replaying = NoFile
      BY <2>6, ReplayerAlone, <2>1 DEF RenameAway, SerialInv, ReplayOwned
    <3>3. ReplayFiles'
      BY <2>1, <2>3, <3>1, ReplayStep DEF ReplayFiles, InReplay
    <3>4. NothingLost'
      BY <2>3, <3>1, <3>2 DEF SerialInv, NothingLost, OnDisk, Contents
    <3> QED BY <2>4, <3>1, <3>3, <3>4
  <2>7. CASE ReadLines(p)
    <3>0. PICK l \in {"restore", "insert"} :
              Goto(Hook(p), l) /\ (l = "insert" => batch'[p] = Contents(replaying))
      BY <2>7 DEF ReadLines, TypeInv, TypeOK
    <3>1. UNCHANGED <<db, buffer, replaying>> /\ buffer = NoFile /\ replaying # NoFile
      BY <2>7 DEF ReadLines, busFiles, SerialInv, ReplayFiles, InReplay
    <3>2. ReplayFiles'
      BY <2>1, <2>3, <3>0, <3>1, ReplayStep DEF ReplayFiles, InReplay, Contents
    <3>3. NothingLost'
      BY <2>3, <3>1 DEF SerialInv, NothingLost, OnDisk, Contents
    <3> QED BY <2>4, <3>0, <3>2, <3>3 DEF InReplay
  <2>8. CASE InsertBatch(p)
    <3>0. PICK l \in {"restore", "unlink"} :
              Goto(Hook(p), l) /\ (l = "unlink" => batch[p] \subseteq db')
      BY <2>8 DEF InsertBatch
    <3>1. /\ UNCHANGED <<buffer, replaying>> /\ buffer = NoFile /\ replaying # NoFile
          /\ batch[p] = Contents(replaying) /\ db \subseteq db'
      BY <2>8 DEF InsertBatch, busFiles, SerialInv, ReplayFiles, InReplay
    <3>2. ReplayFiles'
      BY <2>1, <2>3, <3>0, <3>1, ReplayStep DEF ReplayFiles, InReplay, Contents
    <3>3. NothingLost'
      BY <2>3, <3>1 DEF SerialInv, NothingLost, OnDisk, Contents
    <3> QED BY <2>4, <3>0, <3>2, <3>3 DEF InReplay
  <2>9. CASE Unlink(p)
    <3>1. /\ replaying # NoFile /\ Contents(replaying) \subseteq db
          /\ replaying' = NoFile /\ UNCHANGED <<db, buffer>> /\ Goto(Hook(p), "ready")
      BY <2>9 DEF Unlink, SerialInv, ReplayFiles, InReplay
    <3>2. ReplayFiles'
      BY <2>1, <2>3, <3>1, ReplayStep DEF ReplayFiles, InReplay
    <3>3. NothingLost'
      BY <2>3, <3>1 DEF SerialInv, NothingLost, OnDisk, Contents
    <3> QED BY <2>4, <3>1, <3>2, <3>3
  <2>10. CASE Restore(p)
    <3>1. /\ replaying # NoFile /\ buffer = NoFile /\ buffer' = replaying
          /\ replaying' = NoFile /\ db' = db /\ Goto(Hook(p), "ready")
      BY <2>10 DEF Restore, SerialInv, ReplayFiles, InReplay
    <3>2. ReplayFiles'
      BY <2>1, <2>3, <3>1, ReplayStep DEF ReplayFiles, InReplay
    <3>3. NothingLost'
      BY <2>3, <3>1 DEF SerialInv, NothingLost, OnDisk, Contents
    <3> QED BY <2>4, <3>1, <3>2, <3>3
  <2> QED BY <1>4, <2>2, <2>5, <2>6, <2>7, <2>8, <2>9, <2>10 DEF Replayer
<1>5. ASSUME NEW p \in Proc, NEW e \in Event, Emit(p, e) PROVE SerialInv'
  <2>1. Busy(p) /\ pc[Hook(p)] = Home(Hook(p)) /\ Write(Hook(p), e)
    BY <1>5, ThreadFacts DEF Emit, Busy
  <2>2. /\ UNCHANGED <<nowait, lines, buffer, replaying>> /\ db \subseteq db'
        /\ returned' \subseteq returned \cup db'
    BY <1>5 DEF Emit, Write, busFiles
  <2>3. NothingLost'
    BY <2>2 DEF SerialInv, NothingLost, OnDisk, Contents
  <2> QED BY <2>1, <2>2, <2>3, WriteStep DEF SerialInv
<1>6. ASSUME NEW p \in Proc, NEW e \in Event, EmitNowait(p, e) PROVE SerialInv'
  <2>1. Busy(p) /\ pc[Hook(p)] = Home(Hook(p))
    BY <1>6, ThreadFacts DEF EmitNowait, Busy
  <2>2. CASE nowait' = [nowait EXCEPT ![p] = Append(@, e)]
             /\ UNCHANGED <<dbUp, outages, db, busFiles, pc, held, fd, batch>>
    <3>1. UNCHANGED <<db, lines, buffer, replaying, pc, fd, batch, returned>>
      BY <1>6, <2>2 DEF EmitNowait, busFiles
    <3>2. \A q \in Proc : q # p => nowait'[q] = nowait[q]
      BY <2>2 DEF TypeInv, TypeOK
    <3>3. WorkerPlace'
      BY <2>1, <3>1, <3>2 DEF SerialInv, WorkerPlace, Busy
    <3> QED
      BY <3>1, <3>3 DEF SerialInv, OneAtATime, AppendsToBuffer, ReplayFiles,
         ReplayOwned, NothingLost, Running, InReplay, OnDisk, Contents
  <2>3. CASE Write(Hook(p), e) /\ UNCHANGED nowait
    <3>1. UNCHANGED <<nowait, lines, buffer, replaying, returned>> /\ db \subseteq db'
      BY <1>6, <2>3 DEF EmitNowait, Write, busFiles
    <3>2. NothingLost'
      BY <3>1 DEF SerialInv, NothingLost, OnDisk, Contents
    <3> QED BY <2>1, <2>3, <3>1, <3>2, WriteStep DEF SerialInv
  <2> QED BY <1>6, <2>2, <2>3 DEF EmitNowait
<1>7. ASSUME NEW p \in Proc, Drain(p) PROVE SerialInv'
  <2>1. Busy(p) /\ pc[Worker(p)] = Home(Worker(p))
    BY <1>7, ThreadFacts DEF Drain, SerialInv, WorkerPlace
  <2>2. Head(nowait[p]) \in Event /\ Write(Worker(p), Head(nowait[p]))
    BY <1>7 DEF Drain, TypeInv, TypeOK
  <2>3. UNCHANGED <<lines, buffer, replaying, returned>> /\ db \subseteq db'
    BY <1>7 DEF Drain, Write, busFiles
  <2>4. \A q \in Proc : q # p => nowait'[q] = nowait[q]
    BY <1>7 DEF Drain, TypeInv, TypeOK
  <2>5. NothingLost'
    BY <2>3 DEF SerialInv, NothingLost, OnDisk, Contents
  <2> QED BY <2>1, <2>2, <2>4, <2>5, WriteStep DEF SerialInv
<1>8. ASSUME NEW t \in Thread, OpenBuffer(t) \/ AppendLine(t) PROVE SerialInv'
  <2>1. pc[t] \in {"open", "append"}
    BY <1>8 DEF OpenBuffer, AppendLine
  <2>2. PICK p \in Proc : t \in {Hook(p), Worker(p)} /\ Busy(p)
    BY <2>1, WriterAlone
  <2>3. UNCHANGED <<nowait, replaying, db>>
    BY <1>8 DEF OpenBuffer, AppendLine
  <2>4. PICK l \in {"open", "append", Home(t)} :
            Goto(t, l) /\ (l = "append" => OpenBuffer(t))
    BY <1>8, ThreadFacts DEF OpenBuffer, AppendLine, Home
  <2>5. /\ OneAtATime' /\ WorkerPlace' /\ ReplayFiles' /\ ReplayOwned'
        /\ pc'[t] = l /\ \A u \in Thread : u # t => pc'[u] = pc[u]
    BY <2>2, <2>3, <2>4, EmitStep
  <2>6. \A u \in Thread : pc[u] = "append" => fd[u] = buffer /\ fd[u] # NoFile
    BY NamesAssumption DEF SerialInv, AppendsToBuffer, TypeInv, StepTypes
  <2>7. CASE OpenBuffer(t)
    <3>1. /\ buffer # NoFile => buffer' = buffer
          /\ fd'[t] = buffer' /\ \A u \in Thread : u # t => fd'[u] = fd[u]
          /\ UNCHANGED <<lines, returned>>
      BY <2>7 DEF OpenBuffer, TypeInv, TypeOK
    <3>2. AppendsToBuffer'
      BY <2>5, <2>6, <3>1 DEF AppendsToBuffer
    <3>3. NothingLost'
      BY <2>3, <3>1 DEF SerialInv, NothingLost, OnDisk, Contents
    <3> QED BY <2>5, <3>2, <3>3 DEF SerialInv
  <2>8. CASE AppendLine(t)
    <3>1. /\ pc[t] = "append" /\ pc'[t] = Home(t) /\ buffer' = buffer
          /\ \A u \in Thread : u # t => fd'[u] = fd[u]
      BY <2>8 DEF AppendLine, Goto, TypeInv, TypeOK
    <3>2. lines' = [lines EXCEPT ![fd[t]] = @ \cup {held[t]}]
      BY <2>8 DEF AppendLine, Appended
    <3>3. fd[t] \in Event /\ fd[t] = buffer /\ returned' \subseteq returned \cup {held[t]}
      BY <2>8, <3>1 DEF AppendLine, SerialInv, AppendsToBuffer, TypeInv, StepTypes
    <3>4. /\ \A i \in Event : lines[i] \subseteq lines'[i]
          /\ held[t] \in lines'[buffer]
      BY <3>2, <3>3 DEF TypeInv, TypeOK
    <3>5. OnDisk \subseteq OnDisk' /\ held[t] \in OnDisk'
      BY <2>3, <3>1, <3>3, <3>4, NamesAssumption DEF OnDisk, Contents, TypeInv, TypeOK
    <3>6. NothingLost'
      BY <2>3, <3>3, <3>5 DEF SerialInv, NothingLost
    <3>7. AppendsToBuffer'
      BY <2>5, <2>6, <3>1, ThreadFacts DEF AppendsToBuffer, Home
    <3> QED BY <2>5, <3>6, <3>7 DEF SerialInv
  <2> QED BY <1>8, <2>7, <2>8
<1> QED
  BY <1>1, <1>2, <1>3, <1>4, <1>5, <1>6, <1>7, <1>8 DEF Next, Crash

\* For any number of events, outages and hook processes, as long as hook
\* processes do not overlap, are not killed and their appends are whole, an event
\* that emit() took is in the database, the buffer or the file being replayed.
THEOREM SerialHooksLoseNothing ==
    ASSUME ~Overlap, ~Crashes, ~TornWrites
    PROVE  Spec => []NothingLost
<1>1. TypeInv /\ SerialInv /\ [Next]_vars => (TypeInv /\ SerialInv)'
  BY TypeNext, SerialNext
<1>2. SerialInv => NothingLost
  BY DEF SerialInv
<1> QED BY TypeInit, SerialInit, <1>1, <1>2, PTL DEF Spec

-------------------------------------------------------------------------------
(* Recorded when emit returns, under every fault: before the first outage       *)
(* nothing is buffered, so no replay has a file.                                *)

NeverAway ==
    outages = 0 =>
        /\ dbUp /\ returned \subseteq db
        /\ buffer = NoFile /\ replaying = NoFile
        /\ \A t \in Thread : pc[t] \notin {"open", "append"}

LEMMA NeverAwayInit == Init => NeverAway
BY DEF Init, NeverAway

\* A step that leaves the files away and takes no thread to the buffer.
LEMMA NeverAwayStays ==
    ASSUME TypeInv, NeverAway, UNCHANGED <<dbUp, outages, buffer, replaying>>,
           db \subseteq db', returned' \subseteq returned \cup db',
           \A t \in Thread : pc'[t] \in {"open", "append"} => pc[t] \in {"open", "append"}
    PROVE  NeverAway'
BY DEF NeverAway

LEMMA NeverAwayWrite ==
    ASSUME TypeInv, NeverAway, NEW t \in Thread, NEW e \in Event, Write(t, e),
           returned' \subseteq returned \cup (IF dbUp THEN {e} ELSE {})
    PROVE  NeverAway'
<1>1. CASE dbUp
  BY <1>1, NeverAwayStays DEF Write, busFiles
<1>2. CASE ~dbUp
  BY <1>2 DEF NeverAway, Write, busFiles
<1> QED BY <1>1, <1>2

LEMMA NeverAwayNext == TypeInv /\ NeverAway /\ [Next]_vars => NeverAway'
<1> SUFFICES ASSUME TypeInv, NeverAway, [Next]_vars PROVE NeverAway'
  OBVIOUS
<1>1. CASE DbFail
  BY <1>1, OutagesAssumption DEF DbFail, NeverAway, TypeInv, TypeOK
<1>2. CASE DbRecover
  BY <1>2 DEF DbRecover, NeverAway, busFiles
<1>3. ASSUME NEW p \in Proc, Vanish(p) PROVE NeverAway'
  <2>1. \A t \in Thread : pc'[t] \in {"off", "idle", pc[t]}
    BY <1>3, ThreadFacts DEF Vanish, TypeInv, TypeOK
  <2> QED BY <1>3, <2>1, NeverAwayStays DEF Vanish, busFiles
<1>4. ASSUME NEW p \in Proc, Start(p) \/ CheckBuffer(p) \/ ReadLines(p) \/ InsertBatch(p)
      PROVE  NeverAway'
  <2>1. \A t \in Thread : pc'[t] \in {"open", "append"} => pc[t] \in {"open", "append"}
    BY <1>4, ThreadFacts
       DEF Start, CheckBuffer, ReadLines, InsertBatch, Goto, TypeInv, TypeOK
  <2>2. UNCHANGED <<dbUp, outages, buffer, replaying, returned>> /\ db \subseteq db'
    BY <1>4 DEF Start, CheckBuffer, ReadLines, InsertBatch, busFiles
  <2> QED BY <2>1, <2>2, NeverAwayStays
<1>5. ASSUME NEW p \in Proc, RenameAway(p) \/ Unlink(p) \/ Restore(p) PROVE NeverAway'
  <2>1. \A t \in Thread : pc'[t] \in {"open", "append"} => pc[t] \in {"open", "append"}
    BY <1>5, ThreadFacts DEF RenameAway, Unlink, Restore, Goto, TypeInv, TypeOK
  <2>2. UNCHANGED <<dbUp, outages, db, returned>>
    BY <1>5 DEF RenameAway, Unlink, Restore
  <2>3. buffer = NoFile /\ replaying = NoFile => buffer' = NoFile /\ replaying' = NoFile
    BY <1>5 DEF RenameAway, Unlink, Restore
  <2> QED BY <2>1, <2>2, <2>3 DEF NeverAway
<1>6. ASSUME NEW p \in Proc, Drain(p) PROVE NeverAway'
  <2>1. Head(nowait[p]) \in Event /\ Write(Worker(p), Head(nowait[p])) /\ returned' = returned
    BY <1>6 DEF Drain, TypeInv, TypeOK
  <2> QED BY <2>1, ThreadFacts, NeverAwayWrite
<1>7. ASSUME NEW p \in Proc, NEW e \in Event, Emit(p, e) PROVE NeverAway'
  BY <1>7, ThreadFacts, NeverAwayWrite DEF Emit
<1>8. ASSUME NEW p \in Proc, NEW e \in Event, EmitNowait(p, e) PROVE NeverAway'
  <2>1. CASE UNCHANGED <<dbUp, outages, db, busFiles, pc, held, fd, batch>>
    BY <1>8, <2>1, NeverAwayStays DEF EmitNowait, busFiles
  <2>2. CASE Write(Hook(p), e)
    BY <1>8, <2>2, ThreadFacts, NeverAwayWrite DEF EmitNowait
  <2> QED BY <1>8, <2>1, <2>2 DEF EmitNowait
<1>9. ASSUME NEW t \in Thread, OpenBuffer(t) \/ AppendLine(t) PROVE NeverAway'
  BY <1>9 DEF OpenBuffer, AppendLine, NeverAway
<1>10. CASE UNCHANGED vars
  BY <1>10, NeverAwayStays DEF vars, busFiles
<1> QED
  BY <1>1, <1>2, <1>3, <1>4, <1>5, <1>6, <1>7, <1>8, <1>9, <1>10
     DEF Next, Replayer, Exit, Crash, RenameFails

\* Whatever overlaps, dies or is torn, as long as the database has never been away an
\* event is recorded before emit() returns, and there is nothing to replay.
THEOREM RecordedBeforeOutages == Spec => []RecordedWhileDbUp
<1>1. NeverAway => RecordedWhileDbUp
  BY DEF NeverAway, RecordedWhileDbUp, OnDisk, Contents
<1> QED BY TypeInit, TypeNext, NeverAwayInit, NeverAwayNext, <1>1, PTL DEF Spec

-------------------------------------------------------------------------------
(* One carrier of a waiting event, under every fault.  CarriersDistinct says    *)
(* that a carried event is in no named file; for an inode that loses its name   *)
(* and gets another, and for what a replay has read, it must be written nowhere *)
(* at all, and an inode's name must not be that of an event still carried.      *)

Written == {x \in Line : \/ x \in db
                         \/ \E i \in Event : x \in lines[i]
                         \/ \E p \in Proc : x \in batch[p]}
Taken   == emitted \cup deferred
Free(x) == x \notin Written \cup {buffer, replaying}

\* Every event is new, carried, or written.
KnownOnly ==
    /\ emitted \cap deferred = {}
    /\ \A x \in Event : x \in Written \cup {buffer, replaying} => x \in Taken
    /\ \A t \in Thread : held[t] # NoFile => held[t] \in Taken
    /\ \A p \in Proc : \A i \in DOMAIN nowait[p] : nowait[p][i] \in deferred

\* A carried event is written nowhere, and its emit has not returned; it is an inode's
\* name only while the thread that created the file for it has yet to append.
HeldApart ==
    \A t \in Thread : held[t] # NoFile =>
        /\ pc[t] \in {"open", "append"}
        /\ held[t] \notin Written /\ held[t] \notin returned
        /\ pc[t] = "open" => Free(held[t])
QueueApart ==
    \A p \in Proc : \A i \in DOMAIN nowait[p] :
        Free(nowait[p][i]) /\ \A t \in Thread : nowait[p][i] # held[t]
OneHolder ==
    \A t, u \in Thread : held[t] = held[u] /\ held[t] # NoFile => t = u
OneQueue ==
    \A p, q \in Proc : \A i \in DOMAIN nowait[p], j \in DOMAIN nowait[q] :
        nowait[p][i] = nowait[q][j] => p = q /\ i = j
NamesApart == buffer # NoFile => buffer # replaying

CarrierInv ==
    KnownOnly /\ HeldApart /\ QueueApart /\ OneHolder /\ OneQueue /\ NamesApart

LEMMA WrittenParts ==
    ASSUME TypeInv
    PROVE  /\ db \subseteq Written
           /\ \A i \in Event : lines[i] \subseteq Written
           /\ \A p \in Proc : batch[p] \subseteq Written
BY DEF Written, TypeInv, TypeOK, Line

LEMMA WrittenShrinks ==
    ASSUME db' \subseteq Written, \A i \in Event : lines'[i] \subseteq Written,
           \A p \in Proc : batch'[p] \subseteq Written
    PROVE  Written' \subseteq Written
BY DEF Written

LEMMA CarrierInit == Init => CarrierInv
<1> SUFFICES ASSUME Init PROVE CarrierInv
  OBVIOUS
<1>1. /\ \A t \in Thread : held[t] = NoFile
      /\ \A p \in Proc : nowait[p] = <<>>
      /\ Written = {} /\ buffer = NoFile /\ replaying = NoFile
      /\ emitted = {} /\ deferred = {}
  BY DEF Init, Written
<1> QED
  BY <1>1, NamesAssumption
     DEF CarrierInv, KnownOnly, HeldApart, QueueApart, OneHolder, OneQueue, NamesApart

\* A step that takes no event up: what is carried is put down or kept, and the files
\* are written to by nobody and get no name that they do not have.
LEMMA CarriedStays ==
    ASSUME TypeInv, CarrierInv, UNCHANGED <<emitted, deferred, returned>>,
           Written' \subseteq Written,
           {buffer', replaying'} \subseteq {buffer, replaying, NoFile},
           buffer' # NoFile => buffer' # replaying',
           \A t \in Thread : held'[t] = NoFile \/ (held'[t] = held[t] /\ pc'[t] = pc[t]),
           \A p \in Proc : nowait'[p] = <<>> \/ nowait'[p] = nowait[p]
    PROVE  CarrierInv'
<1>1. \A x \in Event : Free(x) => Free(x)'
  BY NamesAssumption DEF Free
<1>2. \A p \in Proc : \A i \in DOMAIN nowait'[p] : i \in DOMAIN nowait[p] /\ nowait'[p][i] = nowait[p][i]
  OBVIOUS
<1>3. \A t \in Thread : held[t] # NoFile => held[t] \in Event
  BY DEF TypeInv, TypeOK
<1>4. \A p \in Proc : \A i \in DOMAIN nowait[p] : nowait[p][i] \in Event /\ nowait[p][i] # NoFile
  BY NamesAssumption DEF TypeInv, TypeOK
<1>5. KnownOnly'
  BY <1>2, NamesAssumption DEF CarrierInv, KnownOnly, Taken
<1>6. HeldApart'
  BY <1>1, <1>3 DEF CarrierInv, HeldApart
<1>7. QueueApart'
  BY <1>1, <1>2, <1>4 DEF CarrierInv, QueueApart
<1>8. OneHolder'
  BY DEF CarrierInv, OneHolder
<1>9. OneQueue'
  BY <1>2 DEF CarrierInv, OneQueue
<1>10. NamesApart'
  BY DEF NamesApart
<1> QED BY <1>5, <1>6, <1>7, <1>8, <1>9, <1>10 DEF CarrierInv

\* Taking up an event that nobody carries, by a thread at home, be it to record or to buffer.
LEMMA WriteCarries ==
    ASSUME TypeInv, CarrierInv, NEW t \in Thread, NEW e \in Event, Write(t, e),
           held[t] = NoFile, Free(e), \A u \in Thread : held[u] # e,
           emitted' \cap deferred' = {}, Taken \cup {e} \subseteq Taken', deferred \subseteq deferred',
           returned' \subseteq returned \cup (IF dbUp THEN {e} ELSE {}), e \notin returned,
           OneQueue',
           \A p \in Proc : \A i \in DOMAIN nowait'[p] :
               nowait'[p][i] # e /\ \E j \in DOMAIN nowait[p] : nowait'[p][i] = nowait[p][j]
    PROVE  CarrierInv'
<1>1. UNCHANGED <<lines, buffer, replaying, batch>>
  BY DEF Write, busFiles
<1>2. e # NoFile
  BY NamesAssumption
<1>3. \A p \in Proc : \A i \in DOMAIN nowait[p] : nowait[p][i] \in Event
  BY DEF TypeInv, TypeOK
<1>4. CASE dbUp
  <2>1. db' = db \cup {e} /\ UNCHANGED <<pc, held>>
    BY <1>4 DEF Write
  <2>2. Written' = Written \cup {e}
    BY <1>1, <2>1 DEF Written, Line
  <2>3. \A x : x # e /\ Free(x) => Free(x)'
    BY <1>1, <2>2 DEF Free
  <2>4. KnownOnly'
    BY <1>1, <2>1, <2>2 DEF CarrierInv, KnownOnly, Taken
  <2>5. HeldApart'
    BY <1>4, <2>1, <2>2, <2>3 DEF CarrierInv, HeldApart
  <2>6. QueueApart'
    BY <2>1, <2>3 DEF CarrierInv, QueueApart
  <2> QED BY <1>1, <2>1, <2>4, <2>5, <2>6 DEF CarrierInv, OneHolder, NamesApart
<1>5. CASE ~dbUp
  <2>1. db' = db /\ pc' = [pc EXCEPT ![t] = "open"] /\ held' = [held EXCEPT ![t] = e]
    BY <1>5 DEF Write, Goto
  <2>2. /\ held'[t] = e /\ pc'[t] = "open"
        /\ \A u \in Thread : u # t => held'[u] = held[u] /\ pc'[u] = pc[u]
    BY <2>1 DEF TypeInv, TypeOK
  <2>3. Written' = Written /\ \A x : Free(x)' <=> Free(x)
    BY <1>1, <2>1 DEF Written, Free
  <2>4. returned' \subseteq returned
    BY <1>5
  <2>5. KnownOnly'
    BY <1>1, <2>2, <2>3 DEF CarrierInv, KnownOnly, Taken
  <2>6. HeldApart'
    BY <2>2, <2>3, <2>4 DEF CarrierInv, HeldApart, Free
  <2>7. QueueApart'
    BY <2>2, <2>3 DEF CarrierInv, QueueApart
  <2>8. OneHolder'
    BY <2>2 DEF CarrierInv, OneHolder
  <2> QED BY <1>1, <2>5, <2>6, <2>7, <2>8 DEF CarrierInv, NamesApart
<1> QED BY <1>4, <1>5

LEMMA CarrierNext == TypeInv /\ CarrierInv /\ [Next]_vars => CarrierInv'
<1> SUFFICES ASSUME TypeInv, CarrierInv, [Next]_vars PROVE CarrierInv'
  OBVIOUS
<1>1. CASE DbFail \/ DbRecover \/ UNCHANGED vars
  <2>1. UNCHANGED <<db, lines, batch, buffer, replaying, held, pc, nowait, emitted, deferred, returned>>
    BY <1>1 DEF DbFail, DbRecover, vars, busFiles
  <2>2. Written' = Written
    BY <2>1 DEF Written
  <2> QED BY <2>1, <2>2, CarriedStays DEF CarrierInv, NamesApart
<1>2. ASSUME NEW p \in Proc, Vanish(p) PROVE CarrierInv'
  <2>1. UNCHANGED <<db, lines, buffer, replaying, emitted, deferred, returned>>
    BY <1>2 DEF Vanish, busFiles
  <2>2. \A q \in Proc : batch'[q] \subseteq batch[q] /\ nowait'[q] \in {<<>>, nowait[q]}
    BY <1>2 DEF Vanish, TypeInv, TypeOK
  <2>3. \A t \in Thread : held'[t] = NoFile \/ (held'[t] = held[t] /\ pc'[t] = pc[t])
    BY <1>2, ThreadFacts DEF Vanish, TypeInv, TypeOK
  <2>4. Written' \subseteq Written
    BY <2>1, <2>2 DEF Written
  <2> QED BY <2>1, <2>2, <2>3, <2>4, CarriedStays DEF CarrierInv, NamesApart
<1>3. ASSUME NEW p \in Proc,
             Start(p) \/ CheckBuffer(p) \/ RenameAway(p) \/ ReadLines(p) \/ InsertBatch(p)
                 \/ Unlink(p) \/ Restore(p)
      PROVE  CarrierInv'
  <2>1. UNCHANGED <<lines, held, nowait, emitted, deferred, returned>>
    BY <1>3 DEF Start, CheckBuffer, RenameAway, ReadLines, InsertBatch, Unlink, Restore, busFiles
  <2>2. \A t \in Thread : held[t] = NoFile \/ pc'[t] = pc[t]
    <3>1. pc[Hook(p)] \notin {"open", "append"} /\ \A t \in Thread : t = Hook(p) \/ pc'[t] = pc[t]
      BY <1>3, ThreadFacts
         DEF Start, CheckBuffer, RenameAway, ReadLines, InsertBatch, Unlink, Restore, Goto, Running, TypeInv, TypeOK
    <3> QED BY <3>1, ThreadFacts DEF CarrierInv, HeldApart
  <2>3. /\ {buffer', replaying'} \subseteq {buffer, replaying, NoFile}
        /\ buffer' # NoFile => buffer' # replaying'
    BY <1>3 DEF Start, CheckBuffer, RenameAway, ReadLines, InsertBatch, Unlink, Restore, busFiles, CarrierInv, NamesApart
  <2>4. Written' \subseteq Written
    <3>1. CASE ReadLines(p)
      <4>1. db' = db /\ \A q \in Proc : batch'[q] = batch[q] \/ (replaying \in Event /\ batch'[q] = lines[replaying])
        BY <3>1 DEF ReadLines, Contents, TypeInv, TypeOK
      <4> QED BY <2>1, <4>1, WrittenShrinks, WrittenParts
    <3>2. CASE InsertBatch(p)
      <4>1. db' \subseteq db \cup batch[p] /\ \A q \in Proc : batch'[q] \subseteq batch[q]
        BY <3>2 DEF InsertBatch, TypeInv, TypeOK
      <4> QED BY <2>1, <4>1, WrittenShrinks, WrittenParts
    <3>3. CASE UNCHANGED <<db, batch>>
      BY <2>1, <3>3 DEF Written
    <3> QED BY <1>3, <3>1, <3>2, <3>3 DEF Start, CheckBuffer, RenameAway, Unlink, Restore
  <2> QED BY <2>1, <2>2, <2>3, <2>4, CarriedStays
<1>4. ASSUME NEW p \in Proc, NEW e \in Event, pc[Hook(p)] = "ready", Fresh(e)
      PROVE  /\ Hook(p) \in Thread /\ held[Hook(p)] = NoFile
             /\ Free(e) /\ e \notin returned /\ \A u \in Thread : held[u] # e
             /\ \A q \in Proc : \A i \in DOMAIN nowait[q] : nowait[q][i] # e
  BY <1>4, ThreadFacts, NamesAssumption
     DEF CarrierInv, KnownOnly, HeldApart, Fresh, Taken, Free, TypeInv, TypeOK
<1>5. ASSUME NEW p \in Proc, NEW e \in Event, Emit(p, e) PROVE CarrierInv'
  <2>1. /\ pc[Hook(p)] = "ready" /\ Fresh(e) /\ Write(Hook(p), e)
        /\ emitted' = emitted \cup {e} /\ UNCHANGED <<nowait, deferred>>
        /\ returned' \subseteq returned \cup (IF dbUp THEN {e} ELSE {})
    BY <1>5 DEF Emit
  <2>2. OneQueue' /\ emitted' \cap deferred' = {} /\ Taken \cup {e} \subseteq Taken'
    BY <2>1 DEF CarrierInv, OneQueue, KnownOnly, Taken, Fresh
  <2> QED BY <1>4, <2>1, <2>2, WriteCarries
<1>6. ASSUME NEW p \in Proc, NEW e \in Event, EmitNowait(p, e) PROVE CarrierInv'
  <2>1. /\ pc[Hook(p)] = "ready" /\ Fresh(e)
        /\ deferred' = deferred \cup {e} /\ UNCHANGED <<emitted, returned>>
    BY <1>6 DEF EmitNowait
  <2>2. emitted' \cap deferred' = {} /\ Taken \cup {e} \subseteq Taken'
    BY <2>1 DEF CarrierInv, KnownOnly, Taken, Fresh
  <2>3. CASE Write(Hook(p), e) /\ UNCHANGED nowait
    <3>1. OneQueue'
      BY <2>3 DEF CarrierInv, OneQueue
    <3> QED BY <1>4, <2>1, <2>2, <2>3, <3>1, WriteCarries
  <2>4. CASE /\ nowait' = [nowait EXCEPT ![p] = Append(@, e)]
             /\ UNCHANGED <<dbUp, outages, db, busFiles, pc, held, fd, batch>>
    <3>1. Written' = Written /\ UNCHANGED <<buffer, replaying, held, pc>>
      BY <2>4 DEF Written, busFiles
    <3>2. /\ \A q \in Proc : q # p => nowait'[q] = nowait[q]
          /\ DOMAIN nowait'[p] = DOMAIN nowait[p] \cup {Len(nowait[p]) + 1}
          /\ \A i \in DOMAIN nowait[p] : nowait'[p][i] = nowait[p][i]
          /\ nowait'[p][Len(nowait[p]) + 1] = e
          /\ Len(nowait[p]) + 1 \notin DOMAIN nowait[p]
      BY <2>4 DEF TypeInv, TypeOK
    <3>3. \A q \in Proc : \A i \in DOMAIN nowait'[q] :
              \/ i \in DOMAIN nowait[q] /\ nowait'[q][i] = nowait[q][i]
              \/ q = p /\ i = Len(nowait[p]) + 1 /\ nowait'[q][i] = e
      BY <3>2
    <3>4. KnownOnly'
      BY <2>1, <2>2, <3>1, <3>3 DEF CarrierInv, KnownOnly, Taken
    <3>5. HeldApart'
      BY <2>1, <3>1 DEF CarrierInv, HeldApart, Free
    <3>6. QueueApart'
      BY <1>4, <2>1, <3>1, <3>3 DEF CarrierInv, QueueApart, Free
    <3>7. OneQueue'
      BY <1>4, <2>1, <3>3 DEF CarrierInv, OneQueue
    <3> QED BY <3>1, <3>4, <3>5, <3>6, <3>7 DEF CarrierInv, OneHolder, NamesApart
  <2> QED BY <1>6, <2>3, <2>4 DEF EmitNowait
<1>7. ASSUME NEW p \in Proc, Drain(p) PROVE CarrierInv'
  <2> DEFINE e == nowait[p][1]
  <2>1. /\ 1 \in DOMAIN nowait[p] /\ e \in Event /\ Head(nowait[p]) = e
        /\ nowait'[p] = Tail(nowait[p])
        /\ \A q \in Proc : q # p => nowait'[q] = nowait[q]
    BY <1>7 DEF Drain, TypeInv, TypeOK
  <2>2. \A q \in Proc : \A i \in DOMAIN nowait'[q] :
            /\ i \in Nat \ {0}
            /\ \E j \in DOMAIN nowait[q] :
                   nowait'[q][i] = nowait[q][j] /\ j = IF q = p THEN i + 1 ELSE i
    <3>1. ASSUME NEW i \in DOMAIN nowait'[p]
          PROVE  i \in Nat \ {0} /\ i + 1 \in DOMAIN nowait[p] /\ nowait'[p][i] = nowait[p][i + 1]
      BY <2>1, <3>1 DEF TypeInv, TypeOK
    <3>2. ASSUME NEW q \in Proc, q # p, NEW i \in DOMAIN nowait'[q]
          PROVE  i \in Nat \ {0} /\ i \in DOMAIN nowait[q] /\ nowait'[q][i] = nowait[q][i]
      BY <2>1, <3>2 DEF TypeInv, TypeOK
    <3> QED BY <3>1, <3>2
  <2>3. /\ pc[Worker(p)] = "idle" /\ Write(Worker(p), e)
        /\ UNCHANGED <<emitted, returned, deferred>>
    BY <1>7, <2>1 DEF Drain
  <2>4. Worker(p) \in Thread /\ held[Worker(p)] = NoFile
    BY <2>3, ThreadFacts DEF CarrierInv, HeldApart
  <2>5. Free(e) /\ (\A u \in Thread : held[u] # e) /\ e \in deferred
    BY <2>1 DEF CarrierInv, QueueApart, KnownOnly
  <2>6. e \notin returned /\ emitted' \cap deferred' = {} /\ Taken \cup {e} \subseteq Taken'
    BY <2>3, <2>5 DEF CarrierInv, KnownOnly, TypeInv, TypeOK, Taken
  <2>7. \A q \in Proc : \A i \in DOMAIN nowait'[q] :
            nowait'[q][i] # e /\ \E j \in DOMAIN nowait[q] : nowait'[q][i] = nowait[q][j]
    <3>1. \A q \in Proc : \A j \in DOMAIN nowait[q] : nowait[q][j] = e => q = p /\ j = 1
      BY <2>1 DEF CarrierInv, OneQueue
    <3> HIDE DEF e
    <3>2. ASSUME NEW q \in Proc, NEW i \in DOMAIN nowait'[q]
          PROVE  nowait'[q][i] # e /\ \E j \in DOMAIN nowait[q] : nowait'[q][i] = nowait[q][j]
      BY <2>2, <3>1, <3>2
    <3> QED BY <3>2
  <2>8. OneQueue'
    <3>1. ASSUME NEW q \in Proc, NEW r \in Proc, NEW i \in DOMAIN nowait'[q], NEW j \in DOMAIN nowait'[r],
                 nowait'[q][i] = nowait'[r][j]
          PROVE  q = r /\ i = j
      <4>1. PICK k \in DOMAIN nowait[q] : nowait'[q][i] = nowait[q][k] /\ k = (IF q = p THEN i + 1 ELSE i)
        BY <2>2, <3>1
      <4>2. PICK l \in DOMAIN nowait[r] : nowait'[r][j] = nowait[r][l] /\ l = (IF r = p THEN j + 1 ELSE j)
        BY <2>2, <3>1
      <4>3. q = r /\ k = l
        <5>1. nowait[q][k] = nowait[r][l]
          BY <3>1, <4>1, <4>2, Zenon
        <5> QED BY <5>1 DEF CarrierInv, OneQueue
      <4>4. i \in Nat /\ j \in Nat
        <5>1. i \in Nat \ {0}
          BY <2>2, Zenon
        <5>2. j \in Nat \ {0}
          BY <2>2, Zenon
        <5> QED BY <5>1, <5>2
      <4> QED BY <4>1, <4>2, <4>3, <4>4
    <3> QED BY <3>1 DEF OneQueue
  <2> HIDE DEF e
  <2> QED BY <2>1, <2>3, <2>4, <2>5, <2>6, <2>7, <2>8, WriteCarries
<1>8. ASSUME NEW t \in Thread, OpenBuffer(t) PROVE CarrierInv'
  <2>1. /\ pc[t] = "open" /\ held[t] \in Event /\ held[t] # NoFile
        /\ UNCHANGED <<db, lines, batch, replaying, held, nowait, emitted, returned, deferred>>
        /\ buffer' = IF buffer = NoFile THEN held[t] ELSE buffer
        /\ pc'[t] = "append" /\ \A u \in Thread : u # t => pc'[u] = pc[u]
    BY <1>8, NamesAssumption DEF OpenBuffer, Goto, TypeInv, TypeOK, StepTypes
  <2>2. Written' = Written
    BY <2>1 DEF Written
  <2>3. Free(held[t])
    BY <2>1 DEF CarrierInv, HeldApart
  <2>4. \A x : x # held[t] /\ Free(x) => Free(x)'
    BY <2>1, <2>2 DEF Free
  <2>5. KnownOnly'
    BY <2>1, <2>2 DEF CarrierInv, KnownOnly, Taken
  <2>6. HeldApart'
    BY <2>1, <2>2, <2>4 DEF CarrierInv, HeldApart, OneHolder
  <2>7. QueueApart'
    BY <2>1, <2>4 DEF CarrierInv, QueueApart
  <2>8. NamesApart'
    BY <2>1, <2>3 DEF CarrierInv, NamesApart, Free
  <2> QED BY <2>1, <2>5, <2>6, <2>7, <2>8 DEF CarrierInv, OneHolder, OneQueue
<1>9. ASSUME NEW t \in Thread, AppendLine(t) PROVE CarrierInv'
  <2>1. /\ pc[t] = "append" /\ held[t] \in Event /\ fd[t] \in Event
        /\ UNCHANGED <<db, batch, buffer, replaying, nowait, emitted, deferred>>
        /\ returned' \subseteq returned \cup {held[t]}
        /\ held'[t] = NoFile /\ \A u \in Thread : u # t => held'[u] = held[u] /\ pc'[u] = pc[u]
    BY <1>9 DEF AppendLine, Goto, TypeInv, TypeOK, StepTypes
  <2>2. \A i \in Event : lines'[i] \subseteq lines[i] \cup {held[t], Torn}
    BY <1>9, <2>1 DEF AppendLine, Appended, TypeInv, TypeOK
  <2>3. Written' \subseteq Written \cup {held[t], Torn}
    BY <2>1, <2>2 DEF Written
  <2>4. \A x \in Event : x # held[t] /\ Free(x) => Free(x)'
    BY <2>1, <2>3, NamesAssumption DEF Free
  <2>5. \A u \in Thread : u # t /\ held[u] # NoFile => held[u] # held[t] /\ held[u] \in Event
    BY <2>1, NamesAssumption DEF CarrierInv, OneHolder, TypeInv, TypeOK
  <2>6. \A p \in Proc : \A i \in DOMAIN nowait[p] : nowait[p][i] # held[t] /\ nowait[p][i] \in Event
    BY DEF CarrierInv, QueueApart, TypeInv, TypeOK
  <2>7. KnownOnly'
    BY <2>1, <2>3, <2>5, NamesAssumption DEF CarrierInv, KnownOnly, Taken
  <2>8. HeldApart'
    BY <2>1, <2>3, <2>4, <2>5, NamesAssumption DEF CarrierInv, HeldApart
  <2>9. QueueApart'
    <3>1. \A p \in Proc : \A i \in DOMAIN nowait[p] : \A u \in Thread : nowait[p][i] # held'[u]
      BY <2>1, <2>6, NamesAssumption DEF CarrierInv, QueueApart
    <3> QED BY <2>1, <2>4, <2>6, <3>1 DEF CarrierInv, QueueApart
  <2>10. OneHolder'
    BY <2>1 DEF CarrierInv, OneHolder
  <2> QED BY <2>1, <2>7, <2>8, <2>9, <2>10 DEF CarrierInv, OneQueue, NamesApart
<1> QED
  BY <1>1, <1>2, <1>3, <1>5, <1>6, <1>7, <1>8, <1>9
     DEF Next, Replayer, Exit, Crash, RenameFails

\* Whatever overlaps, dies or is torn: the buffer and the file being replayed are two
\* files, and an event that waits to be recorded is in one place.
THEOREM OneCarrierOnly == Spec => []CarriersDistinct
<1>1. TypeInv /\ CarrierInv => CarriersDistinct
  <2> SUFFICES ASSUME TypeInv, CarrierInv PROVE CarriersDistinct
    OBVIOUS
  <2>1. OnDisk \subseteq Written /\ db \subseteq Written
    <3>1. Contents(buffer) \subseteq Written /\ Contents(replaying) \subseteq Written
      BY WrittenParts DEF Contents, TypeInv, TypeOK
    <3> QED BY <3>1, WrittenParts DEF OnDisk
  <2>2. NamesDistinct
    BY DEF CarrierInv, NamesApart, NamesDistinct
  <2>3. InHand \cap (db \cup OnDisk) = {}
    BY <2>1 DEF InHand, CarrierInv, HeldApart
  <2>4. \A x \in Queued : \E p \in Proc : \E i \in DOMAIN nowait[p] : x = nowait[p][i]
    BY DEF Queued
  <2>5. Queued \cap (db \cup OnDisk \cup InHand) = {}
    BY <2>1, <2>4 DEF InHand, Free, CarrierInv, QueueApart
  <2> QED BY <2>2, <2>3, <2>5 DEF CarriersDistinct, OneCarrier, CarrierInv, OneHolder, OneQueue
<1> QED BY TypeInit, TypeNext, CarrierInit, CarrierNext, <1>1, PTL DEF Spec

-------------------------------------------------------------------------------
(* Serial hooks implement AuditLog.  Since nothing is lost, what waits is what  *)
(* has been returned and is not in the database, so a step is one of the log's  *)
(* by what it does to these two sets.                                           *)

LEMMA LogStep ==
    ASSUME TypeInv, CarrierInv, SerialInv, NothingLost', [Next]_vars
    PROVE  [Log!LogNext]_(Log!logVars)
<1>1. /\ Waiting = returned \ db /\ Waiting' = returned' \ db'
      /\ returned \subseteq Event /\ returned \subseteq emitted /\ db \subseteq Event
  BY DEF SerialInv, NothingLost, Waiting, TypeInv, TypeOK
<1>2. ASSUME db' = db, returned' = returned PROVE [Log!LogNext]_(Log!logVars)
  BY <1>1, <1>2 DEF Log!logVars
<1>3. ASSUME NEW e \in Event, e \notin returned \cup db, returned' = returned \cup {e},
             db' = db \/ db' = db \cup {e}
      PROVE  Log!LogNext
  <2>1. CASE db' = db
    <3>1. Log!Defer(e)
      BY <1>1, <1>3, <2>1 DEF Log!Defer
    <3> QED BY <3>1 DEF Log!LogNext
  <2>2. CASE db' = db \cup {e}
    <3>1. Log!Record(e)
      BY <1>1, <1>3, <2>2 DEF Log!Record
    <3> QED BY <3>1 DEF Log!LogNext
  <2> QED BY <1>3, <2>1, <2>2
<1>4. ASSUME db \subseteq db', returned' = returned PROVE [Log!LogNext]_(Log!logVars)
  <2> DEFINE new == (db' \ db) \cap returned
  <2>1. CASE new = {}
    <3>1. db' \cap returned' = db \cap returned /\ Waiting' = Waiting
      BY <1>1, <1>4, <2>1
    <3> QED BY <3>1 DEF Log!logVars
  <2>2. CASE new # {}
    <3>1. /\ new \in SUBSET Waiting
          /\ db' \cap returned' = (db \cap returned) \cup new
          /\ Waiting' = Waiting \ new
      BY <1>1, <1>4
    <3>2. Log!Replay
      BY <2>2, <3>1 DEF Log!Replay
    <3> QED BY <3>2 DEF Log!LogNext
  <2> QED BY <2>1, <2>2
<1>5. ASSUME NEW e \in Event, Fresh(e) PROVE e \notin returned \cup db
  BY <1>1, <1>5, WrittenParts DEF CarrierInv, KnownOnly, Fresh, Taken, TypeInv, TypeOK
<1>6. ASSUME NEW p \in Proc, NEW e \in Event, Emit(p, e) PROVE [Log!LogNext]_(Log!logVars)
  <2>1. CASE dbUp
    BY <1>3, <1>5, <1>6, <2>1 DEF Emit, Write
  <2>2. CASE ~dbUp
    BY <1>2, <1>6, <2>2 DEF Emit, Write
  <2> QED BY <2>1, <2>2
<1>7. ASSUME NEW t \in Thread, AppendLine(t) PROVE [Log!LogNext]_(Log!logVars)
  <2>1. held[t] \in Event /\ held[t] \notin returned /\ held[t] \notin db
    BY <1>7, WrittenParts, NamesAssumption DEF AppendLine, CarrierInv, HeldApart, TypeInv, StepTypes
  <2>2. db' = db /\ returned' = returned \cup ({held[t]} \cap emitted)
    BY <1>7 DEF AppendLine
  <2>3. CASE held[t] \in emitted
    BY <1>3, <2>1, <2>2, <2>3
  <2>4. CASE held[t] \notin emitted
    BY <1>2, <2>2, <2>4
  <2> QED BY <2>3, <2>4
<1>8. CASE /\ ~ \E p \in Proc, e \in Event : Emit(p, e)
           /\ ~ \E t \in Thread : AppendLine(t)
  <2>1. returned' = returned /\ db \subseteq db'
    BY <1>8
       DEF Next, DbFail, DbRecover, Start, Exit, Crash, Vanish, Replayer, CheckBuffer, RenameAway,
           RenameFails, ReadLines, InsertBatch, Unlink, Restore, Drain, Write, EmitNowait, OpenBuffer,
           vars, busFiles
  <2> QED BY <1>4, <2>1
<1> QED BY <1>6, <1>7, <1>8

\* For any number of events, outages and hook processes, hooks that neither overlap nor
\* die nor tear lines implement the abstract log, step by step.
THEOREM SerialHooksImplementLog ==
    ASSUME ~Overlap, ~Crashes, ~TornWrites
    PROVE  Spec => ImplementsAuditLog
<1> DEFINE I == TypeInv /\ CarrierInv /\ SerialInv
<1>1. Init => I
  BY TypeInit, CarrierInit, SerialInit
<1>2. I /\ [Next]_vars => I'
  BY TypeNext, CarrierNext, SerialNext
<1>3. Init => Log!LogInit
  BY DEF Init, Log!LogInit, Waiting
<1>4. I /\ I' /\ [Next]_vars => [Log!LogNext]_(Log!logVars)
  <2>1. SerialInv' => NothingLost'
    BY DEF SerialInv
  <2> QED BY <2>1, LogStep
<1> HIDE DEF I
<1> QED BY <1>1, <1>2, <1>3, <1>4, PTL DEF Spec, ImplementsAuditLog, Log!LogSpec

===============================================================================
