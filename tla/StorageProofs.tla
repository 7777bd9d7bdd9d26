--------------------------- MODULE StorageProofs ---------------------------
(***************************************************************************)
(* Proofs about module Storage, for any keys, values, writes, threshold and *)
(* number of crashes: the files of a server keep what it acknowledged, its  *)
(* log is emptied only into the disk file and stays below the threshold.    *)
(***************************************************************************)
EXTENDS Storage, TLAPS

\* The connections are served one at a time. What two threads may do to the
\* counter and to the ".tmp" file is in the README.
OneThread == \E t \in Thread : Thread = {t}

-----------------------------------------------------------------------------
(* The types.                                                              *)

Content == Value \union {Empty}

Checkpointing == {"write", "remove", "rename", "truncate", "reset"}

ThreadLabel == {"idle", "apply", "append", "count", "store", "check", "reply"}
                 \union Checkpointing

InitializerLabel == {"idle", "load", "replay", "recover", "forget"}
                      \union Checkpointing

TypeInv ==
    /\ TypeOK
    /\ op \in [Thread -> Op \union {None}]
    /\ seen \in [Thread -> Nat]
    /\ \A t \in Thread : pc[t] \in ThreadLabel
    /\ pc[Initializer] \in InitializerLabel

LEMMA Writes ==
  ASSUME NEW o \in Op \union DeadOp
  PROVE  /\ o.cmd \in {"PUT", "DELETE", "CPUT"}
         /\ o.key \in Key
         /\ o.old \in Content /\ o.new \in Content
BY StorageAssumption DEF Content

LEMMA EffectType ==
  ASSUME NEW tb \in Table, NEW o \in Op \union DeadOp
  PROVE  Effect(tb, o) \in Table
<1>1. \A k \in Key : Current(tb, k) \in Content
  BY DEF Current, Content, Table
<1>2. QED
  BY <1>1, Writes DEF Effect, Table, Content

LEMMA CurrentType ==
  ASSUME NEW tb \in Table, NEW k \in Key
  PROVE  Current(tb, k) \in Content
BY DEF Current, Content, Table

LEMMA LoadedType ==
  ASSUME NEW tb \in Table, NEW file \in Table \union {None}
  PROVE  Loaded(tb, file) \in Table
BY StorageAssumption DEF Loaded, Table

LEMMA InitTypeInv == Init => TypeInv
<1> SUFFICES ASSUME Init
             PROVE  TypeInv
  OBVIOUS
<1> USE DEF Init
<1>1. Initializer \in Worker /\ \A t \in Thread : t \in Worker
  BY DEF Worker
<1>2. /\ pc \in [Worker -> {"idle"}]
      /\ \A t \in Thread : pc[t] = "idle"
      /\ pc[Initializer] = "idle"
  BY <1>1
<1>3. /\ table \in Table
      /\ allowed \in [Key -> SUBSET (Value \union {Empty})]
      /\ op \in [Thread -> Op \union {None}]
      /\ seen \in [Thread -> Nat]
  BY DEF Table
<1>4. log \in Seq(Op \union DeadOp) /\ deadLog \in Seq(DeadOp)
  OBVIOUS
<1>5. QED
  BY <1>2, <1>3, <1>4 DEF TypeInv, TypeOK, ThreadLabel, InitializerLabel

LEMMA NextTypeInv == TypeInv /\ [Next]_vars => TypeInv'
<1> SUFFICES ASSUME TypeInv, [Next]_vars
             PROVE  TypeInv'
  OBVIOUS
<1> USE DEF TypeInv, TypeOK, Goto
<1>0. /\ Initializer \in Worker /\ Initializer \notin Thread
      /\ \A t \in Thread : t \in Worker
      /\ Checkpointing \subseteq ThreadLabel
      /\ Checkpointing \subseteq InitializerLabel
      /\ "idle" \in ThreadLabel /\ "idle" \in InitializerLabel
  BY StorageAssumption DEF Worker, Initializer, ThreadLabel, InitializerLabel
<1>1. ASSUME NEW t \in Thread, NEW o \in Op, Receive(t, o)
      PROVE  TypeInv'
  BY <1>0, <1>1, CurrentType DEF Receive, files, ThreadLabel, Content
<1>2. ASSUME NEW t \in Thread, Apply(t)
      PROVE  TypeInv'
  <2>1. op[t] \in Op
    BY <1>2 DEF Apply
  <2>2. Effect(table, op[t]) \in Table
    BY <2>1, EffectType
  <2>3. allowed' \in [Key -> SUBSET Content]
    BY <1>2, <2>1, <2>2, CurrentType, Writes DEF Apply, Content
  <2>4. QED
    BY <1>0, <1>2, <2>2, <2>3 DEF Apply, files, ThreadLabel, Content
<1>3. ASSUME NEW t \in Thread, AppendLog(t)
      PROVE  TypeInv'
  BY <1>0, <1>3 DEF AppendLog, files, ThreadLabel
<1>4. ASSUME NEW t \in Thread, CountRead(t)
      PROVE  TypeInv'
  BY <1>0, <1>4 DEF CountRead, files, ThreadLabel
<1>5. ASSUME NEW t \in Thread, CountStore(t)
      PROVE  TypeInv'
  BY <1>0, <1>5 DEF CountStore, files, ThreadLabel
<1>6. ASSUME NEW t \in Thread, CheckThreshold(t)
      PROVE  TypeInv'
  BY <1>0, <1>6 DEF CheckThreshold, files, ThreadLabel, Checkpointing
<1>7. ASSUME NEW t \in Thread, Reply(t)
      PROVE  TypeInv'
  <2>1. Current(table, op[t].key) \in Content
    BY <1>7, CurrentType, Writes DEF Reply
  <2>2. QED
    BY <1>0, <1>7, <2>1 DEF Reply, files, ThreadLabel, Content
<1>8. ASSUME NEW w \in Worker, WriteTmp(w)
      PROVE  TypeInv'
  BY <1>0, <1>8 DEF WriteTmp, Worker, Checkpointing
<1>9. ASSUME NEW w \in Worker, RemoveDisk(w)
      PROVE  TypeInv'
  BY <1>0, <1>9 DEF RemoveDisk, Worker, Checkpointing
<1>10. ASSUME NEW w \in Worker, RenameTmp(w)
       PROVE  TypeInv'
  BY <1>0, <1>10 DEF RenameTmp, Worker, Checkpointing
<1>11. ASSUME NEW w \in Worker, TruncateLog(w)
       PROVE  TypeInv'
  BY <1>0, <1>11 DEF TruncateLog, Worker, Checkpointing
<1>12. ASSUME NEW w \in Worker, ResetCount(w)
       PROVE  TypeInv'
  BY <1>0, <1>12 DEF ResetCount, files, Worker, ThreadLabel, InitializerLabel
<1>13. CASE LoadDisk
  <2>1. Loaded(table, disk) \in Table
    BY LoadedType
  <2>2. disk' \in Table \union {None}
    BY <1>13 DEF LoadDisk, Table
  <2>3. QED
    BY <1>0, <1>13, <2>1, <2>2 DEF LoadDisk, files, InitializerLabel
<1>14. CASE ReplayLine
  <2>1. log[line + 1] \in Op \union DeadOp
    BY <1>14 DEF ReplayLine
  <2>2. Effect(table, log[line + 1]) \in Table
    BY <2>1, EffectType
  <2>3. QED
    BY <1>0, <1>14, <2>2 DEF ReplayLine, files
<1>15. CASE ReplayDone
  BY <1>0, <1>15 DEF ReplayDone, files, InitializerLabel, Checkpointing
<1>16. CASE RecoverLine
  <2>1. deadLog[line + 1] \in DeadOp
    BY <1>16 DEF RecoverLine
  <2>2. Effect(table, deadLog[line + 1]) \in Table
    BY <2>1, EffectType
  <2>3. log' \in Seq(Op \union DeadOp) /\ writes' \in Nat
    <3>1. CASE Succeeds(table, deadLog[line + 1])
      <4>1. /\ log' = Append(log, deadLog[line + 1])
            /\ writes' = writes + 1
        BY <1>16, <3>1 DEF RecoverLine
      <4>2. deadLog[line + 1] \in Op \union DeadOp
        BY <2>1
      <4>3. QED
        BY <4>1, <4>2
    <3>2. CASE ~Succeeds(table, deadLog[line + 1])
      BY <1>16, <3>2 DEF RecoverLine
    <3>3. QED
      BY <3>1, <3>2
  <2>4. QED
    BY <1>0, <1>16, <2>2, <2>3 DEF RecoverLine, files
<1>17. CASE RecoverDone
  BY <1>0, <1>17 DEF RecoverDone, files, InitializerLabel
<1>18. CASE ForgetDeadLog
  BY <1>0, <1>18 DEF ForgetDeadLog, InitializerLabel, Checkpointing
<1>19. CASE Enable
  BY <1>0, <1>19 DEF Enable, files, InitializerLabel
<1>20. CASE Disable
  BY <1>0, <1>20 DEF Disable, files
<1>21. CASE Crash
  BY <1>0, <1>21 DEF Crash, files, Table
<1>22. CASE Restart
  BY <1>0, <1>22 DEF Restart, files, InitializerLabel
<1>23. ASSUME NEW o \in DeadOp, LogForDead(o)
       PROVE  TypeInv'
  <2>1. (IF o.cmd = "DELETE" THEN Empty ELSE o.new) \in Content
    BY Writes DEF Content
  <2>2. deadLog' \in Seq(DeadOp)
    BY <1>23 DEF LogForDead
  <2>3. allowed' \in [Key -> SUBSET Content]
    BY <1>23, <2>1, Writes DEF LogForDead, Content
  <2>4. QED
    BY <1>0, <1>23, <2>2, <2>3 DEF LogForDead, Content
<1>24. CASE UNCHANGED vars
  BY <1>24 DEF vars, files
<1>25. QED
  BY <1>1, <1>2, <1>3, <1>4, <1>5, <1>6, <1>7, <1>8, <1>9, <1>10, <1>11,
     <1>12, <1>13, <1>14, <1>15, <1>16, <1>17, <1>18, <1>19, <1>20, <1>21,
     <1>22, <1>23, <1>24
     DEF Next, ThreadStep, CheckpointStep, InitializerStep

\* The variables keep their types, with any number of threads and every
\* hazard.
THEOREM TypeCorrect == Spec => []TypeOK
<1>1. TypeInv => TypeOK
  BY DEF TypeInv
<1>2. QED
  BY <1>1, InitTypeInv, NextTypeInv, PTL DEF Spec

-----------------------------------------------------------------------------
(* One thread: who runs, what a checkpoint has reached, what is counted.   *)

\* The initializer and the request thread never run at once.
OneAtATime ==
    /\ ~up => enabled /\ \A w \in Worker : pc[w] = "idle"
    /\ Initializing => ThreadsIdle /\ enabled

\* The table does not change under a checkpoint.
CheckpointHolds ==
    \A w \in Worker :
        /\ pc[w] \in {"remove", "rename"} => tmp = table
        /\ pc[w] = "rename" => disk = None
        /\ pc[w] \in {"truncate", "reset"} => disk = table
        /\ pc[w] = "reset" => log = <<>>

\* The counter is behind the log only while a thread is counting, and at the
\* threshold only between the increment and the checkpoint.
LinesAreCounted ==
    /\ pc[Initializer] = "replay" => line <= writes
    /\ pc[Initializer] \in {"recover", "forget"} \union Checkpointing
          => Len(log) <= writes
    /\ up /\ ~Initializing => \A t \in Thread :
          /\ IF pc[t] \in {"count", "store"} THEN Len(log) <= writes + 1
                                            ELSE Len(log) <= writes
          /\ pc[t] = "store" => seen[t] = writes
          /\ pc[t] = "check" => writes <= Threshold
          /\ pc[t] \notin {"check"} \union Checkpointing => writes < Threshold

Inv ==
    /\ TypeInv
    /\ OneAtATime
    /\ CheckpointHolds
    /\ LinesAreCounted

LEMMA InitInv == Init => Inv
<1> SUFFICES ASSUME Init
             PROVE  Inv
  OBVIOUS
<1>1. TypeInv
  BY InitTypeInv
<1>2. /\ \A w \in Worker : pc[w] = "idle"
      /\ \A t \in Thread : t \in Worker
      /\ Initializer \in Worker /\ ~up /\ enabled
  BY DEF Init, Worker
<1>3. QED
  BY <1>1, <1>2 DEF Inv, OneAtATime, Initializing, CheckpointHolds,
                    LinesAreCounted, Checkpointing

LEMMA NextOneAtATime ==
  ASSUME OneThread, "admin" \notin Hazard, Inv, [Next]_vars
  PROVE  OneAtATime'
<1>1. PICK t \in Thread : Thread = {t}
  BY DEF OneThread
<1>2. /\ Worker = {t, Initializer} /\ t # Initializer
      /\ \A w \in Worker : w = t \/ w = Initializer
  BY <1>1, StorageAssumption DEF Worker, Initializer
<1>3. /\ pc = [w \in Worker |-> pc[w]]
      /\ up \in BOOLEAN /\ enabled \in BOOLEAN
  BY <1>1, <1>2, StorageAssumption DEF Inv, TypeInv, TypeOK
<1> USE <1>1, <1>2, <1>3 DEF Inv, OneAtATime, Initializing, ThreadsIdle, Goto
<1>4. ASSUME NEW o \in Op, Receive(t, o)
      PROVE  OneAtATime'
  BY <1>4 DEF Receive
<1>5. CASE Apply(t)
  BY <1>5 DEF Apply
<1>6. CASE AppendLog(t)
  BY <1>6 DEF AppendLog, ReadingLog
<1>7. CASE CountRead(t)
  BY <1>7 DEF CountRead
<1>8. CASE CountStore(t)
  BY <1>8 DEF CountStore
<1>9. CASE CheckThreshold(t)
  BY <1>9 DEF CheckThreshold
<1>10. CASE Reply(t)
  BY <1>10 DEF Reply
<1>11. ASSUME NEW w \in Worker, WriteTmp(w)
       PROVE  OneAtATime'
  BY <1>11 DEF WriteTmp
<1>12. ASSUME NEW w \in Worker, RemoveDisk(w)
       PROVE  OneAtATime'
  BY <1>12 DEF RemoveDisk
<1>13. ASSUME NEW w \in Worker, RenameTmp(w)
       PROVE  OneAtATime'
  BY <1>13 DEF RenameTmp
<1>14. ASSUME NEW w \in Worker, TruncateLog(w)
       PROVE  OneAtATime'
  BY <1>14 DEF TruncateLog
<1>15. ASSUME NEW w \in Worker, ResetCount(w)
       PROVE  OneAtATime'
  BY <1>15 DEF ResetCount
<1>16. CASE LoadDisk
  BY <1>16 DEF LoadDisk
<1>17. CASE ReplayLine
  BY <1>17 DEF ReplayLine
<1>18. CASE ReplayDone
  BY <1>18 DEF ReplayDone
<1>19. CASE RecoverLine
  BY <1>19 DEF RecoverLine
<1>20. CASE RecoverDone
  BY <1>20 DEF RecoverDone
<1>21. CASE ForgetDeadLog
  BY <1>21 DEF ForgetDeadLog
<1>22. CASE Enable
  BY <1>22 DEF Enable
<1>23. CASE Disable
  BY <1>23 DEF Disable
<1>24. CASE Crash
  BY <1>24 DEF Crash
<1>25. CASE Restart
  BY <1>25 DEF Restart
<1>26. ASSUME NEW o \in DeadOp, LogForDead(o)
       PROVE  OneAtATime'
  BY <1>26 DEF LogForDead
<1>27. CASE UNCHANGED vars
  BY <1>27 DEF vars
<1>28. QED
  BY <1>4, <1>5, <1>6, <1>7, <1>8, <1>9, <1>10, <1>11, <1>12, <1>13, <1>14,
     <1>15, <1>16, <1>17, <1>18, <1>19, <1>20, <1>21, <1>22, <1>23, <1>24,
     <1>25, <1>26, <1>27
     DEF Next, ThreadStep, CheckpointStep, InitializerStep

LEMMA NextCheckpointHolds ==
  ASSUME OneThread, "admin" \notin Hazard, Inv, [Next]_vars
  PROVE  CheckpointHolds'
<1>1. PICK t \in Thread : Thread = {t}
  BY DEF OneThread
<1>2. /\ Worker = {t, Initializer} /\ t # Initializer
      /\ \A w \in Worker : w = t \/ w = Initializer
  BY <1>1, StorageAssumption DEF Worker, Initializer
<1>3. pc = [w \in Worker |-> pc[w]]
  BY <1>1, <1>2, StorageAssumption DEF Inv, TypeInv, TypeOK
<1> USE <1>1, <1>2, <1>3 DEF Inv, OneAtATime, CheckpointHolds, Initializing, ThreadsIdle, Goto, files
<1>4. ASSUME NEW o \in Op, Receive(t, o)
      PROVE  CheckpointHolds'
  BY <1>4 DEF Receive
<1>5. CASE Apply(t)
  BY <1>5 DEF Apply
<1>6. CASE AppendLog(t)
  BY <1>6 DEF AppendLog, ReadingLog
<1>7. CASE CountRead(t)
  BY <1>7 DEF CountRead
<1>8. CASE CountStore(t)
  BY <1>8 DEF CountStore
<1>9. CASE CheckThreshold(t)
  BY <1>9 DEF CheckThreshold
<1>10. CASE Reply(t)
  BY <1>10 DEF Reply
<1>11. ASSUME NEW w \in Worker, WriteTmp(w)
       PROVE  CheckpointHolds'
  BY <1>11 DEF WriteTmp
<1>12. ASSUME NEW w \in Worker, RemoveDisk(w)
       PROVE  CheckpointHolds'
  BY <1>12 DEF RemoveDisk
<1>13. ASSUME NEW w \in Worker, RenameTmp(w)
       PROVE  CheckpointHolds'
  BY <1>13 DEF RenameTmp
<1>14. ASSUME NEW w \in Worker, TruncateLog(w)
       PROVE  CheckpointHolds'
  BY <1>14 DEF TruncateLog
<1>15. ASSUME NEW w \in Worker, ResetCount(w)
       PROVE  CheckpointHolds'
  BY <1>15 DEF ResetCount
<1>16. CASE LoadDisk
  BY <1>16 DEF LoadDisk
<1>17. CASE ReplayLine
  BY <1>17 DEF ReplayLine
<1>18. CASE ReplayDone
  BY <1>18 DEF ReplayDone
<1>19. CASE RecoverLine
  BY <1>19 DEF RecoverLine
<1>20. CASE RecoverDone
  BY <1>20 DEF RecoverDone
<1>21. CASE ForgetDeadLog
  BY <1>21 DEF ForgetDeadLog
<1>22. CASE Enable
  BY <1>22 DEF Enable
<1>23. CASE Disable
  BY <1>23 DEF Disable
<1>24. CASE Crash
  BY <1>24 DEF Crash
<1>25. CASE Restart
  BY <1>25 DEF Restart
<1>26. ASSUME NEW o \in DeadOp, LogForDead(o)
       PROVE  CheckpointHolds'
  BY <1>26 DEF LogForDead
<1>27. CASE UNCHANGED vars
  BY <1>27 DEF vars
<1>28. QED
  BY <1>4, <1>5, <1>6, <1>7, <1>8, <1>9, <1>10, <1>11, <1>12, <1>13, <1>14,
     <1>15, <1>16, <1>17, <1>18, <1>19, <1>20, <1>21, <1>22, <1>23, <1>24,
     <1>25, <1>26, <1>27
     DEF Next, ThreadStep, CheckpointStep, InitializerStep

LEMMA NextLinesAreCounted ==
  ASSUME OneThread, "admin" \notin Hazard, Inv, [Next]_vars
  PROVE  LinesAreCounted'
<1>1. PICK t \in Thread : Thread = {t}
  BY DEF OneThread
<1>2. /\ Worker = {t, Initializer} /\ t # Initializer
      /\ \A w \in Worker : w = t \/ w = Initializer
  BY <1>1, StorageAssumption DEF Worker, Initializer
<1>3. /\ pc = [w \in Worker |-> pc[w]]
      /\ up \in BOOLEAN
      /\ writes \in Nat /\ line \in Nat /\ seen \in [Thread -> Nat]
      /\ log \in Seq(Op \union DeadOp) /\ Threshold \in Nat \ {0}
  BY <1>1, <1>2, StorageAssumption DEF Inv, TypeInv, TypeOK
<1> USE <1>1, <1>2, <1>3 DEF Inv, OneAtATime, LinesAreCounted, Initializing, ThreadsIdle, Goto, Checkpointing, files
<1>4. ASSUME NEW o \in Op, Receive(t, o)
      PROVE  LinesAreCounted'
  BY <1>4 DEF Receive
<1>5. CASE Apply(t)
  BY <1>5 DEF Apply
<1>6. CASE AppendLog(t)
  BY <1>6 DEF AppendLog, ReadingLog
<1>7. CASE CountRead(t)
  BY <1>7 DEF CountRead
<1>8. CASE CountStore(t)
  BY <1>8 DEF CountStore
<1>9. CASE CheckThreshold(t)
  BY <1>9 DEF CheckThreshold
<1>10. CASE Reply(t)
  BY <1>10 DEF Reply
<1>11. ASSUME NEW w \in Worker, WriteTmp(w)
       PROVE  LinesAreCounted'
  BY <1>11 DEF WriteTmp
<1>12. ASSUME NEW w \in Worker, RemoveDisk(w)
       PROVE  LinesAreCounted'
  BY <1>12 DEF RemoveDisk
<1>13. ASSUME NEW w \in Worker, RenameTmp(w)
       PROVE  LinesAreCounted'
  BY <1>13 DEF RenameTmp
<1>14. ASSUME NEW w \in Worker, TruncateLog(w)
       PROVE  LinesAreCounted'
  BY <1>14 DEF TruncateLog
<1>15. ASSUME NEW w \in Worker, ResetCount(w)
       PROVE  LinesAreCounted'
  BY <1>15 DEF ResetCount, CheckpointHolds
<1>16. CASE LoadDisk
  BY <1>16 DEF LoadDisk
<1>17. CASE ReplayLine
  BY <1>17 DEF ReplayLine
<1>18. CASE ReplayDone
  BY <1>18 DEF ReplayDone
<1>19. CASE RecoverLine
  BY <1>19 DEF RecoverLine
<1>20. CASE RecoverDone
  BY <1>20 DEF RecoverDone
<1>21. CASE ForgetDeadLog
  BY <1>21 DEF ForgetDeadLog
<1>22. CASE Enable
  BY <1>22 DEF Enable
<1>23. CASE Disable
  BY <1>23 DEF Disable
<1>24. CASE Crash
  BY <1>24 DEF Crash
<1>25. CASE Restart
  BY <1>25 DEF Restart
<1>26. ASSUME NEW o \in DeadOp, LogForDead(o)
       PROVE  LinesAreCounted'
  BY <1>26 DEF LogForDead
<1>27. CASE UNCHANGED vars
  BY <1>27 DEF vars
<1>28. QED
  BY <1>4, <1>5, <1>6, <1>7, <1>8, <1>9, <1>10, <1>11, <1>12, <1>13, <1>14,
     <1>15, <1>16, <1>17, <1>18, <1>19, <1>20, <1>21, <1>22, <1>23, <1>24,
     <1>25, <1>26, <1>27
     DEF Next, ThreadStep, CheckpointStep, InitializerStep

LEMMA NextInv ==
  ASSUME OneThread, "admin" \notin Hazard, Inv, [Next]_vars
  PROVE  Inv'
BY NextTypeInv, NextOneAtATime, NextCheckpointHolds, NextLinesAreCounted
   DEF Inv

\* CHECKPOINTING_THRESHOLD is kept: a server at rest has counted every line
\* of its log and has fewer than Threshold of them.
THEOREM LogStaysShort ==
  ASSUME OneThread, "admin" \notin Hazard
  PROVE  Spec => []LogBounded
<1>1. Inv => LogBounded
  <2> SUFFICES ASSUME Inv, AtRest
               PROVE  Len(log) <= writes /\ writes < Threshold
    BY DEF LogBounded
  <2>1. PICK t \in Thread : Thread = {t}
    BY DEF OneThread
  <2>2. pc[t] = "idle" /\ up /\ ~Initializing
    BY <2>1 DEF AtRest, ThreadsIdle
  <2>3. QED
    BY <2>1, <2>2 DEF Inv, LinesAreCounted, Checkpointing
<1>2. Inv /\ [Next]_vars => Inv'
  BY NextInv
<1>3. QED
  BY <1>1, <1>2, InitInv, PTL DEF Spec

\* No line leaves the log before its effect is on disk: the step that empties
\* the log finds the whole table in the disk file.
THEOREM LogIsOnDisk ==
  ASSUME OneThread, "admin" \notin Hazard
  PROVE  Spec => TruncateIsSafe
<1>1. Inv /\ [Next]_vars => [log' = <<>> /\ log # <<>> => disk = table]_vars
  <2> SUFFICES ASSUME Inv, Next, log' = <<>>, log # <<>>
               PROVE  disk = table
    BY DEF vars
  <2>1. CASE \E w \in Worker : TruncateLog(w)
    BY <2>1 DEF Inv, CheckpointHolds, TruncateLog
  <2>2. CASE \A w \in Worker : ~TruncateLog(w)
    <3>1. /\ log \in Seq(Op \union DeadOp)
          /\ \A t \in Thread : pc[t] # "idle" => op[t] \in Op
          /\ deadLog \in Seq(DeadOp) /\ line \in Nat
      BY DEF Inv, TypeInv, TypeOK
    <3>2. log' = log \/ \E o \in Op \union DeadOp : log' = Append(log, o)
      BY <2>2, <3>1
         DEF Next, ThreadStep, CheckpointStep, InitializerStep, files,
             Receive, Apply, AppendLog, CountRead, CountStore, CheckThreshold,
             Reply, WriteTmp, RemoveDisk, RenameTmp, ResetCount, LoadDisk,
             ReplayLine, ReplayDone, RecoverLine, RecoverDone, ForgetDeadLog,
             Enable, Disable, Crash, Restart, LogForDead
    <3>3. QED
      BY <3>1, <3>2
  <2>3. QED
    BY <2>1, <2>2
<1>2. Inv /\ [Next]_vars => Inv'
  BY NextInv
<1>3. QED
  BY <1>1, <1>2, InitInv, PTL DEF Spec, TruncateIsSafe

-----------------------------------------------------------------------------
(* What the files of a server remember. Replaying a log on a disk file that *)
(* already holds the effect of some of its lines gives what the log gave    *)
(* when it was written: a line either is unconditional, or expects what its *)
(* predecessor left.                                                        *)

\* What a successful write leaves under its key, for a client.
Result(o) == IF o.cmd = "DELETE" THEN Empty ELSE o.new

\* o succeeds when it finds x under k and leaves y there.
Takes(o, k, x, y) ==
    IF o.key = k THEN (o.cmd = "CPUT" => x = o.old) /\ y = Result(o)
                 ELSE y = x

DiskValue(k) == IF disk = None THEN Empty ELSE Current(disk, k)

\* Lines of the dead server's log from this one on are still to be applied.
FirstMissed ==
    IF pc[Initializer] \in {"recover", "forget"} THEN line + 1 ELSE 1

Missed(k) == \E i \in FirstMissed .. Len(deadLog) : deadLog[i].key = k

\* The values key k had before and after every line of the log.
IsHistory(k, h) ==
    /\ h \in [0 .. Len(log) -> Content]
    /\ \A i \in 1 .. Len(log) : Takes(log[i], k, h[i - 1], h[i])

\* The disk file is as old as some line of the log.
DiskFits(k, h) ==
    (\A w \in Worker : pc[w] # "rename") =>
        \E m \in 0 .. Len(log) : h[m] = DiskValue(k)

\* The table is where the log ends, or gets there by replaying it.
TableFits(k, h) ==
    /\ ~up => table[k] = Absent
    /\ pc[Initializer] = "load" =>
          table[k] = Absent \/ Current(table, k) = h[Len(log)]
    /\ pc[Initializer] = "replay" =>
          \E m \in line .. Len(log) : Current(table, k) = h[m]
    /\ up /\ pc[Initializer] \notin {"load", "replay"} =>
          \A t \in Thread :
              IF pc[t] = "append"
              THEN Takes(op[t], k, h[Len(log)], Current(table, k))
              ELSE Current(table, k) = h[Len(log)]

\* Unless a missed write is still to be applied under k, the log ends with a
\* value that clients may find.
AllowedFits(k, h) == ~Missed(k) => h[Len(log)] \in allowed[k]

Story(k, h) ==
    /\ IsHistory(k, h)
    /\ DiskFits(k, h)
    /\ TableFits(k, h)
    /\ AllowedFits(k, h)

Remembered ==
    \A k \in Key : \E h \in [0 .. Len(log) -> Content] : Story(k, h)

\* The last write missed under a key is the value its clients may find.
LastMissedCounts ==
    \A i \in 1 .. Len(deadLog) :
        (\A j \in i + 1 .. Len(deadLog) : deadLog[j].key # deadLog[i].key)
            => Result(deadLog[i]) \in allowed[deadLog[i].key]

\* A server that takes requests has missed nothing, and initialize forgets
\* the dead server's log only once it has applied it.
RecoveredFirst ==
    /\ \A t \in Thread : pc[t] # "idle" => deadLog = <<>>
    /\ up /\ enabled /\ ~Initializing => deadLog = <<>>
    /\ pc[Initializer] = "replay" => phase = "log"
    /\ pc[Initializer] \in Checkpointing =>
          line = 0 /\ (phase = "dead" => deadLog = <<>>)
    /\ pc[Initializer] = "forget" => line >= Len(deadLog)

\* A value in the table whose line is still to come is allowed.
AppliedIsAllowed ==
    \A t \in Thread : pc[t] = "append" =>
        Current(table, op[t].key) \in allowed[op[t].key]

DurableInv ==
    /\ Inv
    /\ Remembered
    /\ LastMissedCounts
    /\ RecoveredFirst
    /\ AppliedIsAllowed

LEMMA EffectOn ==
  ASSUME NEW tb \in Table, NEW o \in Op \union DeadOp, NEW k \in Key
  PROVE  Current(Effect(tb, o), k) = IF o.key = k /\ Succeeds(tb, o)
                                     THEN Result(o) ELSE Current(tb, k)
<1>1. /\ Current(tb, o.key) \in Content
      /\ o.key \in Key /\ o.new \in Content
  BY Writes, CurrentType
<1>2. Absent \notin Content
  BY StorageAssumption DEF Content
<1>3. o.cmd = "DELETE" => Succeeds(tb, o)
  BY DEF Succeeds
<1>4. QED
  BY <1>1, <1>2, <1>3, StorageAssumption DEF Effect, Result, Current, Table

LEMMA EffectTakes ==
  ASSUME NEW tb \in Table, NEW o \in Op \union DeadOp, NEW k \in Key,
         Succeeds(tb, o)
  PROVE  Takes(o, k, Current(tb, k), Current(Effect(tb, o), k))
BY EffectOn DEF Takes, Succeeds

\* One line replayed, on a value the key had here or has further on.
LEMMA ReplayCatchesUp ==
  ASSUME NEW tb \in Table, NEW o \in Op \union DeadOp, NEW k \in Key,
         NEW n \in Nat, NEW h \in [0 .. n -> Content], NEW i \in 1 .. n,
         Takes(o, k, h[i - 1], h[i]),
         NEW m \in i - 1 .. n, Current(tb, k) = h[m]
  PROVE  \E l \in i .. n : Current(Effect(tb, o), k) = h[l]
<1>1. CASE o.key = k /\ Succeeds(tb, o)
  BY <1>1, EffectOn DEF Takes
<1>2. CASE m = i - 1
  BY <1>2, EffectOn DEF Takes, Succeeds
<1>3. CASE m # i - 1 /\ ~(o.key = k /\ Succeeds(tb, o))
  BY <1>3, EffectOn
<1>4. QED
  BY <1>1, <1>2, <1>3

LEMMA NextRecoveredFirst ==
  ASSUME OneThread, Hazard = {}, DurableInv, [Next]_vars
  PROVE  RecoveredFirst'
<1>1. PICK t \in Thread : Thread = {t}
  BY DEF OneThread
<1>2. /\ Worker = {t, Initializer} /\ t # Initializer
      /\ \A w \in Worker : w = t \/ w = Initializer
  BY <1>1, StorageAssumption DEF Worker, Initializer
<1>3. /\ pc = [w \in Worker |-> pc[w]]
      /\ up \in BOOLEAN /\ enabled \in BOOLEAN
      /\ line \in Nat /\ deadLog \in Seq(DeadOp)
      /\ phase \in {"log", "dead"}
  BY <1>1, <1>2, StorageAssumption DEF DurableInv, Inv, TypeInv, TypeOK, Table,
         Content
<1> USE <1>1, <1>2, <1>3 DEF DurableInv, Inv, OneAtATime, RecoveredFirst, Initializing,
        ThreadsIdle, Goto, Checkpointing, files
<1>4. ASSUME NEW o \in Op, Receive(t, o)
      PROVE  RecoveredFirst'
  BY <1>4 DEF Receive
<1>5. CASE Apply(t)
  BY <1>5 DEF Apply
<1>6. CASE AppendLog(t)
  BY <1>6 DEF AppendLog, ReadingLog
<1>7. CASE CountRead(t)
  BY <1>7 DEF CountRead
<1>8. CASE CountStore(t)
  BY <1>8 DEF CountStore
<1>9. CASE CheckThreshold(t)
  BY <1>9 DEF CheckThreshold
<1>10. CASE Reply(t)
  BY <1>10 DEF Reply
<1>11. ASSUME NEW w \in Worker, WriteTmp(w)
       PROVE  RecoveredFirst'
  BY <1>11 DEF WriteTmp
<1>12. ASSUME NEW w \in Worker, RemoveDisk(w)
       PROVE  RecoveredFirst'
  BY <1>12 DEF RemoveDisk
<1>13. ASSUME NEW w \in Worker, RenameTmp(w)
       PROVE  RecoveredFirst'
  BY <1>13 DEF RenameTmp
<1>14. ASSUME NEW w \in Worker, TruncateLog(w)
       PROVE  RecoveredFirst'
  BY <1>14 DEF TruncateLog
<1>15. ASSUME NEW w \in Worker, ResetCount(w)
       PROVE  RecoveredFirst'
  BY <1>15 DEF ResetCount
<1>16. CASE LoadDisk
  BY <1>16 DEF LoadDisk
<1>17. CASE ReplayLine
  BY <1>17 DEF ReplayLine
<1>18. CASE ReplayDone
  BY <1>18 DEF ReplayDone
<1>19. CASE RecoverLine
  BY <1>19 DEF RecoverLine
<1>20. CASE RecoverDone
  BY <1>20 DEF RecoverDone
<1>21. CASE ForgetDeadLog
  BY <1>21 DEF ForgetDeadLog
<1>22. CASE Enable
  BY <1>22 DEF Enable
<1>23. CASE Disable
  BY <1>23 DEF Disable
<1>24. CASE Crash
  BY <1>24 DEF Crash
<1>25. CASE Restart
  BY <1>25 DEF Restart
<1>26. ASSUME NEW o \in DeadOp, LogForDead(o)
       PROVE  RecoveredFirst'
  BY <1>26 DEF LogForDead
<1>27. CASE UNCHANGED vars
  BY <1>27 DEF vars
<1>28. QED
  BY <1>4, <1>5, <1>6, <1>7, <1>8, <1>9, <1>10, <1>11, <1>12, <1>13, <1>14,
     <1>15, <1>16, <1>17, <1>18, <1>19, <1>20, <1>21, <1>22, <1>23, <1>24,
     <1>25, <1>26, <1>27
     DEF Next, ThreadStep, CheckpointStep, InitializerStep

LEMMA NextLastMissedCounts ==
  ASSUME OneThread, Hazard = {}, DurableInv, [Next]_vars
  PROVE  LastMissedCounts'
<1>1. PICK t \in Thread : Thread = {t}
  BY DEF OneThread
<1>2. /\ Worker = {t, Initializer} /\ t # Initializer
      /\ \A w \in Worker : w = t \/ w = Initializer
  BY <1>1, StorageAssumption DEF Worker, Initializer
<1>3. /\ pc = [w \in Worker |-> pc[w]]
      /\ up \in BOOLEAN /\ enabled \in BOOLEAN
      /\ table \in Table /\ allowed \in [Key -> SUBSET Content]
      /\ (pc[t] # "idle" => op[t] \in Op) /\ op \in [Thread -> Op \union {None}]
      /\ deadLog \in Seq(DeadOp)
  BY <1>1, <1>2, StorageAssumption DEF DurableInv, Inv, TypeInv, TypeOK, Table,
         Content
<1> USE <1>1, <1>2, <1>3 DEF DurableInv, Inv, OneAtATime, LastMissedCounts,
        RecoveredFirst, Initializing, ThreadsIdle, Goto, files
<1>4. ASSUME NEW o \in Op, Receive(t, o)
      PROVE  LastMissedCounts'
  BY <1>4 DEF Receive
<1>5. CASE Apply(t)
  BY <1>5 DEF Apply
<1>6. CASE AppendLog(t)
  BY <1>6 DEF AppendLog, ReadingLog
<1>7. CASE CountRead(t)
  BY <1>7 DEF CountRead
<1>8. CASE CountStore(t)
  BY <1>8 DEF CountStore
<1>9. CASE CheckThreshold(t)
  BY <1>9 DEF CheckThreshold
<1>10. CASE Reply(t)
  BY <1>10 DEF Reply
<1>11. ASSUME NEW w \in Worker, WriteTmp(w)
       PROVE  LastMissedCounts'
  BY <1>11 DEF WriteTmp
<1>12. ASSUME NEW w \in Worker, RemoveDisk(w)
       PROVE  LastMissedCounts'
  BY <1>12 DEF RemoveDisk
<1>13. ASSUME NEW w \in Worker, RenameTmp(w)
       PROVE  LastMissedCounts'
  BY <1>13 DEF RenameTmp
<1>14. ASSUME NEW w \in Worker, TruncateLog(w)
       PROVE  LastMissedCounts'
  BY <1>14 DEF TruncateLog
<1>15. ASSUME NEW w \in Worker, ResetCount(w)
       PROVE  LastMissedCounts'
  BY <1>15 DEF ResetCount
<1>16. CASE LoadDisk
  BY <1>16 DEF LoadDisk
<1>17. CASE ReplayLine
  BY <1>17 DEF ReplayLine
<1>18. CASE ReplayDone
  BY <1>18 DEF ReplayDone
<1>19. CASE RecoverLine
  BY <1>19 DEF RecoverLine
<1>20. CASE RecoverDone
  BY <1>20 DEF RecoverDone
<1>21. CASE ForgetDeadLog
  BY <1>21 DEF ForgetDeadLog
<1>22. CASE Enable
  BY <1>22 DEF Enable
<1>23. CASE Disable
  BY <1>23 DEF Disable
<1>24. CASE Crash
  BY <1>24 DEF Crash
<1>25. CASE Restart
  BY <1>25 DEF Restart
<1>26. ASSUME NEW o \in DeadOp, LogForDead(o)
       PROVE  LastMissedCounts'
  <2> DEFINE n == Len(deadLog)
  <2>1. /\ deadLog' = Append(deadLog, o)
        /\ allowed' = [allowed EXCEPT ![o.key] = {Result(o)}]
    BY <1>26 DEF LogForDead, Result
  <2>2. /\ deadLog' \in Seq(DeadOp) /\ n \in Nat /\ Len(deadLog') = n + 1
        /\ deadLog'[n + 1] = o
        /\ \A i \in 1 .. n : deadLog'[i] = deadLog[i]
    BY <2>1
  <2>3. SUFFICES ASSUME NEW i \in 1 .. n + 1,
                        \A j \in i + 1 .. n + 1 :
                            deadLog'[j].key # deadLog'[i].key
                 PROVE  Result(deadLog'[i]) \in allowed'[deadLog'[i].key]
    BY <2>2
  <2>4. o.key \in Key
    BY Writes
  <2>5. CASE i = n + 1
    BY <2>1, <2>2, <2>4, <2>5
  <2>6. CASE i # n + 1
    <3>1. i \in 1 .. n /\ deadLog'[i] = deadLog[i] /\ deadLog[i].key # o.key
      BY <2>2, <2>3, <2>6, SMTT(60)
    <3>2. Result(deadLog[i]) \in allowed[deadLog[i].key]
      BY <2>2, <2>3, <3>1
    <3>3. deadLog[i].key \in Key
      BY <3>1, <2>2, Writes
    <3>4. QED
      BY <2>1, <3>1, <3>2, <3>3
  <2>7. QED
    BY <2>5, <2>6
<1>27. CASE UNCHANGED vars
  BY <1>27 DEF vars
<1>28. QED
  BY <1>4, <1>5, <1>6, <1>7, <1>8, <1>9, <1>10, <1>11, <1>12, <1>13, <1>14,
     <1>15, <1>16, <1>17, <1>18, <1>19, <1>20, <1>21, <1>22, <1>23, <1>24,
     <1>25, <1>26, <1>27
     DEF Next, ThreadStep, CheckpointStep, InitializerStep

LEMMA NextAppliedIsAllowed ==
  ASSUME OneThread, Hazard = {}, DurableInv, [Next]_vars
  PROVE  AppliedIsAllowed'
<1>1. PICK t \in Thread : Thread = {t}
  BY DEF OneThread
<1>2. /\ Worker = {t, Initializer} /\ t # Initializer
      /\ \A w \in Worker : w = t \/ w = Initializer
  BY <1>1, StorageAssumption DEF Worker, Initializer
<1>3. /\ pc = [w \in Worker |-> pc[w]]
      /\ up \in BOOLEAN /\ enabled \in BOOLEAN
      /\ table \in Table /\ allowed \in [Key -> SUBSET Content]
      /\ (pc[t] # "idle" => op[t] \in Op) /\ op \in [Thread -> Op \union {None}]
      /\ deadLog \in Seq(DeadOp)
  BY <1>1, <1>2, StorageAssumption DEF DurableInv, Inv, TypeInv, TypeOK, Table,
         Content
<1> USE <1>1, <1>2, <1>3 DEF DurableInv, Inv, OneAtATime, AppliedIsAllowed,
        RecoveredFirst, Initializing, ThreadsIdle, Goto, files
<1>4. ASSUME NEW o \in Op, Receive(t, o)
      PROVE  AppliedIsAllowed'
  BY <1>4 DEF Receive
<1>5. CASE Apply(t)
  <2>1. op[t] \in Op /\ op[t].key \in Key
    BY <1>5, Writes DEF Apply
  <2>2. QED
    BY <1>5, <2>1 DEF Apply
<1>6. CASE AppendLog(t)
  BY <1>6 DEF AppendLog, ReadingLog
<1>7. CASE CountRead(t)
  BY <1>7 DEF CountRead
<1>8. CASE CountStore(t)
  BY <1>8 DEF CountStore
<1>9. CASE CheckThreshold(t)
  BY <1>9 DEF CheckThreshold
<1>10. CASE Reply(t)
  BY <1>10 DEF Reply
<1>11. ASSUME NEW w \in Worker, WriteTmp(w)
       PROVE  AppliedIsAllowed'
  BY <1>11 DEF WriteTmp
<1>12. ASSUME NEW w \in Worker, RemoveDisk(w)
       PROVE  AppliedIsAllowed'
  BY <1>12 DEF RemoveDisk
<1>13. ASSUME NEW w \in Worker, RenameTmp(w)
       PROVE  AppliedIsAllowed'
  BY <1>13 DEF RenameTmp
<1>14. ASSUME NEW w \in Worker, TruncateLog(w)
       PROVE  AppliedIsAllowed'
  BY <1>14 DEF TruncateLog
<1>15. ASSUME NEW w \in Worker, ResetCount(w)
       PROVE  AppliedIsAllowed'
  BY <1>15 DEF ResetCount
<1>16. CASE LoadDisk
  BY <1>16 DEF LoadDisk
<1>17. CASE ReplayLine
  BY <1>17 DEF ReplayLine
<1>18. CASE ReplayDone
  BY <1>18 DEF ReplayDone
<1>19. CASE RecoverLine
  BY <1>19 DEF RecoverLine
<1>20. CASE RecoverDone
  BY <1>20 DEF RecoverDone
<1>21. CASE ForgetDeadLog
  BY <1>21 DEF ForgetDeadLog
<1>22. CASE Enable
  BY <1>22 DEF Enable
<1>23. CASE Disable
  BY <1>23 DEF Disable
<1>24. CASE Crash
  BY <1>24 DEF Crash
<1>25. CASE Restart
  BY <1>25 DEF Restart
<1>26. ASSUME NEW o \in DeadOp, LogForDead(o)
       PROVE  AppliedIsAllowed'
  BY <1>26 DEF LogForDead
<1>27. CASE UNCHANGED vars
  BY <1>27 DEF vars
<1>28. QED
  BY <1>4, <1>5, <1>6, <1>7, <1>8, <1>9, <1>10, <1>11, <1>12, <1>13, <1>14,
     <1>15, <1>16, <1>17, <1>18, <1>19, <1>20, <1>21, <1>22, <1>23, <1>24,
     <1>25, <1>26, <1>27
     DEF Next, ThreadStep, CheckpointStep, InitializerStep

LEMMA KeepsDisk ==
  ASSUME OneThread, Hazard = {}, DurableInv, [Next]_vars,
         \A o \in DeadOp : o.cmd # "CPUT", log' = log,
         NEW k \in Key, NEW h \in [0 .. Len(log) -> Content], Story(k, h)
  PROVE  DiskFits(k, h)'
<1>1. PICK t \in Thread : Thread = {t}
  BY DEF OneThread
<1>2. /\ Worker = {t, Initializer} /\ t # Initializer
      /\ \A w \in Worker : w = t \/ w = Initializer
  BY <1>1, StorageAssumption DEF Worker, Initializer
<1>3. /\ pc = [w \in Worker |-> pc[w]]
      /\ table \in Table /\ disk \in Table \union {None} /\ None \notin Table
      /\ log \in Seq(Op \union DeadOp)
  BY <1>1, <1>2, StorageAssumption DEF DurableInv, Inv, TypeInv, TypeOK, Table,
         Content
<1> USE <1>1, <1>2, <1>3 DEF DurableInv, Inv, OneAtATime, Story, DiskFits, DiskValue,
        Initializing, ThreadsIdle, Goto, files
<1>4. ASSUME NEW o \in Op, Receive(t, o)
      PROVE  DiskFits(k, h)'
  BY <1>4 DEF Receive
<1>5. CASE Apply(t)
  BY <1>5 DEF Apply
<1>6. CASE AppendLog(t)
  BY <1>6 DEF AppendLog, ReadingLog
<1>7. CASE CountRead(t)
  BY <1>7 DEF CountRead
<1>8. CASE CountStore(t)
  BY <1>8 DEF CountStore
<1>9. CASE CheckThreshold(t)
  BY <1>9 DEF CheckThreshold
<1>10. CASE Reply(t)
  BY <1>10 DEF Reply
<1>11. ASSUME NEW w \in Worker, WriteTmp(w)
       PROVE  DiskFits(k, h)'
  BY <1>11 DEF WriteTmp
<1>12. ASSUME NEW w \in Worker, RemoveDisk(w)
       PROVE  DiskFits(k, h)'
  BY <1>12 DEF RemoveDisk
<1>13. ASSUME NEW w \in Worker, RenameTmp(w)
       PROVE  DiskFits(k, h)'
  <2>1. tmp = table /\ disk = None
    BY <1>13 DEF RenameTmp, CheckpointHolds
  <2>2. Current(table, k) = h[Len(log)]
    BY <1>13 DEF RenameTmp, TableFits
  <2>3. QED
    BY <1>13, <2>1, <2>2 DEF RenameTmp
<1>14. ASSUME NEW w \in Worker, TruncateLog(w)
       PROVE  DiskFits(k, h)'
  BY <1>14 DEF TruncateLog
<1>15. ASSUME NEW w \in Worker, ResetCount(w)
       PROVE  DiskFits(k, h)'
  BY <1>15 DEF ResetCount
<1>16. CASE LoadDisk
  <2>1. DiskValue(k)' = DiskValue(k)
    BY <1>16 DEF LoadDisk, Current, Table
  <2>2. \A w \in Worker : pc[w] # "rename"
    BY <1>16 DEF LoadDisk
  <2>3. QED
    BY <1>16, <2>1, <2>2 DEF LoadDisk
<1>17. CASE ReplayLine
  BY <1>17 DEF ReplayLine
<1>18. CASE ReplayDone
  BY <1>18 DEF ReplayDone
<1>19. CASE RecoverLine
  BY <1>19 DEF RecoverLine
<1>20. CASE RecoverDone
  BY <1>20 DEF RecoverDone
<1>21. CASE ForgetDeadLog
  BY <1>21 DEF ForgetDeadLog
<1>22. CASE Enable
  BY <1>22 DEF Enable
<1>23. CASE Disable
  BY <1>23 DEF Disable
<1>24. CASE Crash
  BY <1>24 DEF Crash
<1>25. CASE Restart
  BY <1>25 DEF Restart
<1>26. ASSUME NEW o \in DeadOp, LogForDead(o)
       PROVE  DiskFits(k, h)'
  BY <1>26 DEF LogForDead
<1>27. CASE UNCHANGED vars
  BY <1>27 DEF vars
<1>28. QED
  BY <1>4, <1>5, <1>6, <1>7, <1>8, <1>9, <1>10, <1>11, <1>12, <1>13, <1>14,
     <1>15, <1>16, <1>17, <1>18, <1>19, <1>20, <1>21, <1>22, <1>23, <1>24,
     <1>25, <1>26, <1>27
     DEF Next, ThreadStep, CheckpointStep, InitializerStep

LEMMA KeepsTable ==
  ASSUME OneThread, Hazard = {}, DurableInv, [Next]_vars,
         \A o \in DeadOp : o.cmd # "CPUT", log' = log,
         NEW k \in Key, NEW h \in [0 .. Len(log) -> Content], Story(k, h)
  PROVE  TableFits(k, h)'
<1>1. PICK t \in Thread : Thread = {t}
  BY DEF OneThread
<1>2. /\ Worker = {t, Initializer} /\ t # Initializer
      /\ \A w \in Worker : w = t \/ w = Initializer
  BY <1>1, StorageAssumption DEF Worker, Initializer
<1>3. /\ pc = [w \in Worker |-> pc[w]]
      /\ table \in Table /\ disk \in Table \union {None} /\ None \notin Table
      /\ log \in Seq(Op \union DeadOp)
      /\ line \in Nat /\ deadLog \in Seq(DeadOp)
      /\ (pc[t] # "idle" => op[t] \in Op) /\ op \in [Thread -> Op \union {None}]
  BY <1>1, <1>2, StorageAssumption DEF DurableInv, Inv, TypeInv, TypeOK, Table,
         Content
<1> USE <1>1, <1>2, <1>3 DEF DurableInv, Inv, OneAtATime, Story, TableFits,
        Initializing, ThreadsIdle, Goto, files
<1>4. ASSUME NEW o \in Op, Receive(t, o)
      PROVE  TableFits(k, h)'
  BY <1>4 DEF Receive
<1>5. CASE Apply(t)
  <2>1. op[t] \in Op \union DeadOp
    BY <1>5 DEF Apply
  <2>2. CASE Succeeds(table, op[t])
    BY <1>5, <2>1, <2>2, EffectTakes DEF Apply
  <2>3. CASE ~Succeeds(table, op[t])
    BY <1>5, <2>1, <2>3, EffectOn DEF Apply
  <2>4. QED
    BY <2>2, <2>3
<1>6. CASE AppendLog(t)
  BY <1>6 DEF AppendLog, ReadingLog
<1>7. CASE CountRead(t)
  BY <1>7 DEF CountRead
<1>8. CASE CountStore(t)
  BY <1>8 DEF CountStore
<1>9. CASE CheckThreshold(t)
  BY <1>9 DEF CheckThreshold
<1>10. CASE Reply(t)
  BY <1>10 DEF Reply
<1>11. ASSUME NEW w \in Worker, WriteTmp(w)
       PROVE  TableFits(k, h)'
  BY <1>11 DEF WriteTmp
<1>12. ASSUME NEW w \in Worker, RemoveDisk(w)
       PROVE  TableFits(k, h)'
  BY <1>12 DEF RemoveDisk
<1>13. ASSUME NEW w \in Worker, RenameTmp(w)
       PROVE  TableFits(k, h)'
  BY <1>13 DEF RenameTmp
<1>14. ASSUME NEW w \in Worker, TruncateLog(w)
       PROVE  TableFits(k, h)'
  BY <1>14 DEF TruncateLog
<1>15. ASSUME NEW w \in Worker, ResetCount(w)
       PROVE  TableFits(k, h)'
  BY <1>15 DEF ResetCount
<1>16. CASE LoadDisk
  <2>1. PICK m \in 0 .. Len(log) : h[m] = DiskValue(k)
    BY <1>16 DEF LoadDisk, DiskFits
  <2>2. Current(Loaded(table, disk), k) \in {h[m], h[Len(log)]}
    <3>1. CASE disk = None \/ disk[k] \in {Absent, Empty}
      BY <1>16, <2>1, <3>1, StorageAssumption
         DEF LoadDisk, Loaded, Current, DiskValue, Table
    <3>2. CASE disk # None /\ disk[k] \notin {Absent, Empty}
      BY <1>16, <2>1, <3>2 DEF Loaded, Current, DiskValue
    <3>3. QED
      BY <3>1, <3>2
  <2>3. QED
    BY <1>16, <2>1, <2>2 DEF LoadDisk
<1>17. CASE ReplayLine
  <2>1. /\ line + 1 \in 1 .. Len(log) /\ Len(log) \in Nat
        /\ log[line + 1] \in Op \union DeadOp
    BY <1>17 DEF ReplayLine
  <2>2. PICK m \in line .. Len(log) : Current(table, k) = h[m]
    BY <1>17 DEF ReplayLine
  <2>3. Takes(log[line + 1], k, h[(line + 1) - 1], h[line + 1])
    BY <2>1 DEF IsHistory
  <2>4. PICK l \in line + 1 .. Len(log) :
           Current(Effect(table, log[line + 1]), k) = h[l]
    <3> DEFINE n == Len(log)
               i == line + 1
               o == log[i]
    <3>1. /\ table \in Table /\ o \in Op \union DeadOp /\ n \in Nat
          /\ h \in [0 .. n -> Content] /\ i \in 1 .. n
          /\ m \in i - 1 .. n /\ Takes(o, k, h[i - 1], h[i])
          /\ Current(table, k) = h[m]
      BY <2>1, <2>2, <2>3
    <3> HIDE DEF n, i, o
    <3>2. \E l \in i .. n : Current(Effect(table, o), k) = h[l]
      BY ONLY <3>1, ReplayCatchesUp, k \in Key
    <3>3. QED
      BY ONLY <3>2 DEF n, i, o
  <2>5. QED
    BY <1>17, <2>4 DEF ReplayLine
<1>18. CASE ReplayDone
  <2>1. Len(log) \in Nat
    OBVIOUS
  <2>2. Current(table, k) = h[Len(log)]
    BY <1>18, <2>1 DEF ReplayDone
  <2>3. QED
    BY <1>18, <2>2 DEF ReplayDone
<1>19. CASE RecoverLine
  <2>1. deadLog[line + 1] \in DeadOp /\ Succeeds(table, deadLog[line + 1])
    BY <1>19 DEF RecoverLine, Succeeds
  <2>2. Len(log') = Len(log) + 1
    BY <1>19, <2>1 DEF RecoverLine
  <2>3. QED
    BY <2>2
<1>20. CASE RecoverDone
  BY <1>20 DEF RecoverDone
<1>21. CASE ForgetDeadLog
  BY <1>21 DEF ForgetDeadLog
<1>22. CASE Enable
  BY <1>22 DEF Enable
<1>23. CASE Disable
  BY <1>23 DEF Disable
<1>24. CASE Crash
  BY <1>24 DEF Crash
<1>25. CASE Restart
  BY <1>25 DEF Restart
<1>26. ASSUME NEW o \in DeadOp, LogForDead(o)
       PROVE  TableFits(k, h)'
  BY <1>26 DEF LogForDead
<1>27. CASE UNCHANGED vars
  BY <1>27 DEF vars
<1>28. QED
  BY <1>4, <1>5, <1>6, <1>7, <1>8, <1>9, <1>10, <1>11, <1>12, <1>13, <1>14,
     <1>15, <1>16, <1>17, <1>18, <1>19, <1>20, <1>21, <1>22, <1>23, <1>24,
     <1>25, <1>26, <1>27
     DEF Next, ThreadStep, CheckpointStep, InitializerStep

LEMMA KeepsAllowed ==
  ASSUME OneThread, Hazard = {}, DurableInv, [Next]_vars,
         \A o \in DeadOp : o.cmd # "CPUT", log' = log,
         NEW k \in Key, NEW h \in [0 .. Len(log) -> Content], Story(k, h)
  PROVE  AllowedFits(k, h)'
<1>1. PICK t \in Thread : Thread = {t}
  BY DEF OneThread
<1>2. /\ Worker = {t, Initializer} /\ t # Initializer
      /\ \A w \in Worker : w = t \/ w = Initializer
  BY <1>1, StorageAssumption DEF Worker, Initializer
<1>3. /\ pc = [w \in Worker |-> pc[w]]
      /\ up \in BOOLEAN /\ enabled \in BOOLEAN
      /\ log \in Seq(Op \union DeadOp) /\ line \in Nat
      /\ deadLog \in Seq(DeadOp) /\ allowed \in [Key -> SUBSET Content]
  BY <1>1, <1>2, StorageAssumption DEF DurableInv, Inv, TypeInv, TypeOK, Table,
         Content
<1> USE <1>1, <1>2, <1>3 DEF DurableInv, Inv, OneAtATime, Story, AllowedFits, Missed,
        FirstMissed, RecoveredFirst, Checkpointing, Initializing,
        ThreadsIdle, Goto, files
<1>4. ASSUME NEW o \in Op, Receive(t, o)
      PROVE  AllowedFits(k, h)'
  <2>1. Current(table, k) = h[Len(log)]
    BY <1>4 DEF Receive, TableFits
  <2>2. QED
    BY <1>4, <2>1 DEF Receive
<1>5. CASE Apply(t)
  BY <1>5 DEF Apply
<1>6. CASE AppendLog(t)
  BY <1>6 DEF AppendLog, ReadingLog
<1>7. CASE CountRead(t)
  BY <1>7 DEF CountRead
<1>8. CASE CountStore(t)
  BY <1>8 DEF CountStore
<1>9. CASE CheckThreshold(t)
  BY <1>9 DEF CheckThreshold
<1>10. CASE Reply(t)
  <2>1. Current(table, k) = h[Len(log)]
    BY <1>10 DEF Reply, TableFits
  <2>2. QED
    BY <1>10, <2>1 DEF Reply
<1>11. ASSUME NEW w \in Worker, WriteTmp(w)
       PROVE  AllowedFits(k, h)'
  BY <1>11 DEF WriteTmp
<1>12. ASSUME NEW w \in Worker, RemoveDisk(w)
       PROVE  AllowedFits(k, h)'
  BY <1>12 DEF RemoveDisk
<1>13. ASSUME NEW w \in Worker, RenameTmp(w)
       PROVE  AllowedFits(k, h)'
  BY <1>13 DEF RenameTmp
<1>14. ASSUME NEW w \in Worker, TruncateLog(w)
       PROVE  AllowedFits(k, h)'
  BY <1>14 DEF TruncateLog
<1>15. ASSUME NEW w \in Worker, ResetCount(w)
       PROVE  AllowedFits(k, h)'
  BY <1>15 DEF ResetCount
<1>16. CASE LoadDisk
  BY <1>16 DEF LoadDisk
<1>17. CASE ReplayLine
  BY <1>17 DEF ReplayLine
<1>18. CASE ReplayDone
  BY <1>18 DEF ReplayDone
<1>19. CASE RecoverLine
  <2>1. deadLog[line + 1] \in DeadOp /\ Succeeds(table, deadLog[line + 1])
    BY <1>19 DEF RecoverLine, Succeeds
  <2>2. Len(log') = Len(log) + 1
    BY <1>19, <2>1 DEF RecoverLine
  <2>3. QED
    BY <2>2
<1>20. CASE RecoverDone
  BY <1>20 DEF RecoverDone
<1>21. CASE ForgetDeadLog
  BY <1>21 DEF ForgetDeadLog
<1>22. CASE Enable
  BY <1>22 DEF Enable
<1>23. CASE Disable
  BY <1>23 DEF Disable
<1>24. CASE Crash
  BY <1>24 DEF Crash
<1>25. CASE Restart
  BY <1>25 DEF Restart
<1>26. ASSUME NEW o \in DeadOp, LogForDead(o)
       PROVE  AllowedFits(k, h)'
  <2>1. FirstMissed = 1 /\ FirstMissed' = 1
    BY <1>26 DEF LogForDead
  <2>2. /\ deadLog' = Append(deadLog, o) /\ Len(deadLog) \in Nat
        /\ allowed' = [allowed EXCEPT ![o.key] = {Result(o)}]
    BY <1>26 DEF LogForDead, Result
  <2>3. /\ Len(deadLog') = Len(deadLog) + 1
        /\ deadLog'[Len(deadLog) + 1] = o
        /\ \A i \in 1 .. Len(deadLog) : deadLog'[i] = deadLog[i]
    BY <2>2
  <2>4. CASE o.key = k
    BY <2>1, <2>2, <2>3, <2>4, SMTT(60)
  <2>5. CASE o.key # k
    BY <2>1, <2>2, <2>3, <2>5
  <2>6. QED
    BY <2>4, <2>5
<1>27. CASE UNCHANGED vars
  BY <1>27 DEF vars
<1>28. QED
  BY <1>4, <1>5, <1>6, <1>7, <1>8, <1>9, <1>10, <1>11, <1>12, <1>13, <1>14,
     <1>15, <1>16, <1>17, <1>18, <1>19, <1>20, <1>21, <1>22, <1>23, <1>24,
     <1>25, <1>26, <1>27
     DEF Next, ThreadStep, CheckpointStep, InitializerStep

\* A line appended to the log takes the key from where the log ended to what
\* the table holds.
LEMMA LineAdded ==
  ASSUME DurableInv, NEW k \in Key, NEW h \in [0 .. Len(log) -> Content],
         IsHistory(k, h), DiskFits(k, h),
         NEW o \in Op \union DeadOp, log' = Append(log, o), disk' = disk,
         \A w \in Worker : pc[w] # "rename",
         NEW y \in Content, Takes(o, k, h[Len(log)], y)
  PROVE  \E g \in [0 .. Len(log') -> Content] :
            /\ IsHistory(k, g)'
            /\ DiskFits(k, g)'
            /\ g[Len(log')] = y
<1>1. /\ log \in Seq(Op \union DeadOp) /\ Len(log) \in Nat
      /\ Len(log') = Len(log) + 1
      /\ log'[Len(log) + 1] = o
      /\ \A i \in 1 .. Len(log) : log'[i] = log[i]
  BY DEF DurableInv, Inv, TypeInv, TypeOK
<1> DEFINE n == Len(log)
           g == [i \in 0 .. n + 1 |-> IF i = n + 1 THEN y ELSE h[i]]
<1>2. /\ n \in Nat
      /\ g \in [0 .. n + 1 -> Content]
      /\ g[n + 1] = y
      /\ \A i \in 0 .. n : g[i] = h[i]
  BY <1>1
<1> HIDE DEF g
<1>3. IsHistory(k, g)'
  <2>1. SUFFICES ASSUME NEW i \in 1 .. n + 1
                 PROVE  Takes(log'[i], k, g[i - 1], g[i])
    BY <1>1, <1>2, SMTT(60) DEF IsHistory
  <2>2. CASE i = n + 1
    BY <1>1, <1>2, <2>2
  <2>3. CASE i # n + 1
    BY <1>1, <1>2, <2>3, SMTT(60) DEF IsHistory
  <2>4. QED
    BY <2>2, <2>3
<1>4. DiskFits(k, g)'
  <2>1. PICK m \in 0 .. n : h[m] = DiskValue(k)
    BY DEF DiskFits
  <2>2. m \in 0 .. n + 1 /\ g[m] = DiskValue(k)
    BY <1>2, <2>1
  <2>3. DiskValue(k)' = DiskValue(k)
    BY DEF DiskValue
  <2>4. QED
    BY <1>1, <2>2, <2>3 DEF DiskFits
<1>5. QED
  BY <1>1, <1>2, <1>3, <1>4

LEMMA NextRemembered ==
  ASSUME OneThread, Hazard = {}, DurableInv, [Next]_vars,
         \A o \in DeadOp : o.cmd # "CPUT"
  PROVE  Remembered'
<1>1. PICK t \in Thread : Thread = {t}
  BY DEF OneThread
<1>2. /\ Worker = {t, Initializer} /\ t # Initializer
      /\ \A w \in Worker : w = t \/ w = Initializer
  BY <1>1, StorageAssumption DEF Worker, Initializer
<1>3. /\ pc = [w \in Worker |-> pc[w]]
      /\ table \in Table /\ disk \in Table \union {None} /\ None \notin Table
      /\ log \in Seq(Op \union DeadOp) /\ Len(log) \in Nat
      /\ deadLog \in Seq(DeadOp) /\ line \in Nat
      /\ pc[t] # "idle" => op[t] \in Op
  BY <1>1, <1>2, StorageAssumption
     DEF DurableInv, Inv, TypeInv, TypeOK, Table
<1>4. ASSUME NEW k \in Key
      PROVE  \E h \in [0 .. Len(log') -> Content] : Story(k, h)'
  <2>1. PICK h \in [0 .. Len(log) -> Content] : Story(k, h)
    BY DEF DurableInv, Remembered
  <2>2. Current(table, k) \in Content
    BY <1>3, CurrentType
  <2>3. CASE log' = log
    <3>1. IsHistory(k, h)'
      BY <2>1, <2>3 DEF Story, IsHistory
    <3>2. DiskFits(k, h)' /\ TableFits(k, h)' /\ AllowedFits(k, h)'
      BY <2>1, <2>3, KeepsDisk, KeepsTable, KeepsAllowed
    <3>3. QED
      BY <2>3, <3>1, <3>2 DEF Story
  <2>4. CASE AppendLog(t) /\ log' # log
    <3>1. /\ op[t] \in Op /\ pc[t] = "append" /\ pc'[t] = "count"
          /\ log' = Append(log, op[t])
          /\ pc[Initializer] = "idle" /\ pc'[Initializer] = "idle" /\ up
          /\ UNCHANGED <<table, disk, up, deadLog, line, allowed>>
      BY <1>1, <1>2, <1>3, <2>4
         DEF AppendLog, ReadingLog, Goto, DurableInv, Inv, OneAtATime,
             Initializing, ThreadsIdle
    <3>2. Takes(op[t], k, h[Len(log)], Current(table, k))
      BY <1>1, <2>1, <3>1 DEF Story, TableFits
    <3>3. PICK g \in [0 .. Len(log') -> Content] :
             /\ IsHistory(k, g)'
             /\ DiskFits(k, g)'
             /\ g[Len(log')] = Current(table, k)
      BY <1>2, <2>1, <2>2, <3>1, <3>2, LineAdded DEF Story
    <3>4. TableFits(k, g)'
      BY <1>1, <3>1, <3>3 DEF TableFits, Current
    <3>5. Current(table, k) \in allowed[k]
      <4>1. CASE op[t].key = k
        BY <1>1, <3>1, <4>1 DEF DurableInv, AppliedIsAllowed
      <4>2. CASE op[t].key # k
        <5>1. deadLog = <<>>
          BY <1>1, <3>1 DEF DurableInv, RecoveredFirst
        <5>2. h[Len(log)] \in allowed[k]
          BY <2>1, <3>1, <5>1 DEF Story, AllowedFits, Missed, FirstMissed
        <5>3. QED
          BY <3>2, <4>2, <5>2 DEF Takes
      <4>3. QED
        BY <4>1, <4>2
    <3>6. QED
      BY <3>1, <3>3, <3>4, <3>5 DEF Story, AllowedFits
  <2>5. CASE RecoverLine /\ log' # log
    <3> DEFINE o == deadLog[line + 1]
               y == Current(Effect(table, o), k)
    <3>1. /\ line + 1 \in 1 .. Len(deadLog) /\ o \in DeadOp
          /\ line' = line + 1
          /\ pc[Initializer] = "recover" /\ pc'[Initializer] = "recover"
          /\ log' = Append(log, o) /\ table' = Effect(table, o)
          /\ Succeeds(table, o)
          /\ UNCHANGED <<disk, pc, up, deadLog, allowed>>
      BY <1>3, <2>5 DEF RecoverLine
    <3>2. pc[t] = "idle" /\ up
      BY <1>1, <1>2, <3>1
         DEF DurableInv, Inv, OneAtATime, Initializing, ThreadsIdle
    <3>3. /\ Effect(table, o) \in Table /\ y \in Content
          /\ Takes(o, k, Current(table, k), y)
      BY <1>3, <3>1, EffectType, CurrentType, EffectTakes
    <3>4. Current(table, k) = h[Len(log)]
      BY <1>1, <2>1, <3>1, <3>2 DEF Story, TableFits
    <3> HIDE DEF o, y
    <3>5. PICK g \in [0 .. Len(log') -> Content] :
             /\ IsHistory(k, g)'
             /\ DiskFits(k, g)'
             /\ g[Len(log')] = y
      BY <1>2, <2>1, <3>1, <3>2, <3>3, <3>4, LineAdded DEF Story
    <3>6. TableFits(k, g)'
      BY <1>1, <3>1, <3>2, <3>5 DEF TableFits, Current, y
    <3>7. AllowedFits(k, g)'
      <4>1. SUFFICES ASSUME ~Missed(k)'
                     PROVE  y \in allowed[k]
        BY <3>1, <3>5 DEF AllowedFits
      <4>2. \A i \in line + 2 .. Len(deadLog) : deadLog[i].key # k
        BY <1>3, <3>1, <4>1 DEF Missed, FirstMissed
      <4>3. CASE o.key = k
        <5>1. Result(o) \in allowed[k]
          BY <1>3, <3>1, <4>2, <4>3, SMTT(60) DEF DurableInv, LastMissedCounts, o
        <5>2. y = Result(o)
          BY <3>3, <4>3 DEF Takes
        <5>3. QED
          BY <5>1, <5>2
      <4>4. CASE o.key # k
        <5>1. ~Missed(k)
          BY <1>3, <3>1, <4>2, <4>4 DEF Missed, FirstMissed, o
        <5>2. h[Len(log)] \in allowed[k]
          BY <2>1, <5>1 DEF Story, AllowedFits
        <5>3. QED
          BY <3>3, <3>4, <4>4, <5>2 DEF Takes
      <4>5. QED
        BY <4>3, <4>4
    <3>8. QED
      BY <3>5, <3>6, <3>7 DEF Story
  <2>6. ASSUME NEW w \in Worker, TruncateLog(w)
        PROVE  \E g \in [0 .. Len(log') -> Content] : Story(k, g)'
    <3> DEFINE y == Current(table, k)
    <3>1. /\ log' = <<>> /\ Len(log') = 0
          /\ pc[w] = "truncate" /\ pc' = [pc EXCEPT ![w] = "reset"]
          /\ disk = table
          /\ UNCHANGED <<table, disk, up, deadLog, line, allowed>>
      BY <2>6 DEF TruncateLog, Goto, DurableInv, Inv, CheckpointHolds
    <3>2. /\ \A v \in Worker : v # w => pc[v] = "idle"
          /\ up
      BY <1>1, <1>2, <2>6, <3>1
         DEF DurableInv, Inv, OneAtATime, Initializing, ThreadsIdle
    <3>3. Current(table, k) = h[Len(log)]
      BY <1>1, <1>2, <2>1, <3>1, <3>2 DEF Story, TableFits
    <3>4. PICK g \in [0 .. 0 -> Content] : g[0] = y
      <4>1. [i \in 0 .. 0 |-> y] \in [0 .. 0 -> Content]
        BY <2>2
      <4>2. QED
        BY <4>1
    <3>5. IsHistory(k, g)'
      BY <3>1, <3>4 DEF IsHistory
    <3>6. DiskFits(k, g)'
      <4>1. DiskValue(k)' = y
        BY <1>3, <3>1 DEF DiskValue, Current
      <4>2. QED
        BY <3>1, <3>4, <4>1 DEF DiskFits
    <3>7. TableFits(k, g)'
      BY <1>1, <1>2, <1>3, <3>1, <3>2, <3>4 DEF TableFits, Current
    <3>8. AllowedFits(k, g)'
      <4>1. Missed(k)' => Missed(k)
        BY <1>2, <1>3, <3>1, <3>2 DEF Missed, FirstMissed
      <4>2. Missed(k) => Missed(k)'
        BY <1>2, <1>3, <3>1, <3>2 DEF Missed, FirstMissed
      <4>3. QED
        BY <2>1, <3>1, <3>3, <3>4, <4>1, <4>2 DEF Story, AllowedFits
    <3>9. QED
      BY <3>1, <3>4, <3>5, <3>6, <3>7, <3>8 DEF Story
  <2>7. \/ log' = log
        \/ AppendLog(t)
        \/ RecoverLine
        \/ \E w \in Worker : TruncateLog(w)
    BY <1>1
       DEF Next, ThreadStep, CheckpointStep, InitializerStep, files, vars,
           Receive, Apply, CountRead, CountStore, CheckThreshold, Reply,
           WriteTmp, RemoveDisk, RenameTmp, ResetCount, LoadDisk,
           ReplayLine, ReplayDone, RecoverDone, ForgetDeadLog, Enable,
           Disable, Crash, Restart, LogForDead
  <2>8. QED
    BY <2>3, <2>4, <2>5, <2>6, <2>7
<1>5. QED
  BY <1>4 DEF Remembered

LEMMA InitDurableInv == Init => DurableInv
<1> SUFFICES ASSUME Init
             PROVE  DurableInv
  OBVIOUS
<1>1. Inv
  BY InitInv
<1>2. /\ \A w \in Worker : pc[w] = "idle"
      /\ \A t \in Thread : t \in Worker
      /\ Initializer \in Worker /\ ~up /\ enabled
      /\ log = <<>> /\ deadLog = <<>> /\ disk = None
      /\ \A k \in Key : table[k] = Absent /\ allowed[k] = {Empty}
  BY DEF Init, Worker
<1>3. Remembered
  <2>1. SUFFICES ASSUME NEW k \in Key
                 PROVE  \E h \in [0 .. Len(log) -> Content] : Story(k, h)
    BY DEF Remembered
  <2> DEFINE h == [i \in 0 .. 0 |-> Empty]
  <2>2. Len(log) = 0 /\ h \in [0 .. Len(log) -> Content] /\ h[0] = Empty
    BY <1>2 DEF Content
  <2> HIDE DEF h
  <2>3. Story(k, h)
    BY <1>2, <2>2
       DEF Story, IsHistory, DiskFits, DiskValue, TableFits, AllowedFits
  <2>4. QED
    BY <2>2, <2>3
<1>4. QED
  BY <1>1, <1>2, <1>3
     DEF DurableInv, LastMissedCounts, RecoveredFirst, AppliedIsAllowed,
         Checkpointing

LEMMA NextDurableInv ==
  ASSUME OneThread, Hazard = {}, \A o \in DeadOp : o.cmd # "CPUT",
         DurableInv, [Next]_vars
  PROVE  DurableInv'
<1>1. Inv'
  BY NextInv DEF DurableInv
<1>2. QED
  BY <1>1, NextRemembered, NextLastMissedCounts, NextRecoveredFirst,
     NextAppliedIsAllowed DEF DurableInv

\* Every acknowledged write survives crashes, restarts, checkpoints and
\* DISABLE/ENABLE, for one request thread, when no crash falls between
\* remove() and rename(), no request arrives and no write is missed while
\* the server recovers, and the missed writes are unconditional: the primary
\* would log a CPUT whether or not this server holds the value it expects.
THEOREM AcknowledgedIsDurable ==
  ASSUME OneThread, Hazard = {}, \A o \in DeadOp : o.cmd # "CPUT"
  PROVE  Spec => []Durable
<1>1. DurableInv => Durable
  <2> SUFFICES ASSUME DurableInv, AtRest, NEW k \in Key
               PROVE  Current(table, k) \in allowed[k]
    BY DEF Durable
  <2>1. PICK t \in Thread : Thread = {t}
    BY DEF OneThread
  <2>2. /\ pc[t] = "idle" /\ up /\ enabled
        /\ pc[Initializer] = "idle" /\ deadLog = <<>>
    BY <2>1 DEF AtRest, ThreadsIdle, Initializing, DurableInv, RecoveredFirst
  <2>3. PICK h \in [0 .. Len(log) -> Content] : Story(k, h)
    BY DEF DurableInv, Remembered
  <2>4. h[Len(log)] \in allowed[k]
    BY <2>2, <2>3 DEF Story, AllowedFits, Missed, FirstMissed
  <2>5. Current(table, k) = h[Len(log)]
    BY <2>1, <2>2, <2>3 DEF Story, TableFits
  <2>6. QED
    BY <2>4, <2>5
<1>2. DurableInv /\ [Next]_vars => DurableInv'
  BY NextDurableInv
<1>3. QED
  BY <1>1, <1>2, InitDurableInv, PTL DEF Spec
=============================================================================
