------------------------------ MODULE Storage ------------------------------
(***************************************************************************)
(* The durable storage of one server of the key-value store                 *)
(* (backend/kvstore/kvstore.cc and helper.h): the in-memory table, the disk *)
(* file, the log of writes since the last checkpoint ("-checkpoint"), the   *)
(* log of writes the server missed while it was dead ("-deadServerLog"),    *)
(* and what the request threads, the admin thread and a restart do to them. *)
(*                                                                         *)
(* Requests are the writes this server applies locally: those of a primary, *)
(* once forwarded, and those a secondary receives from the primary. The     *)
(* forwarding itself is not part of this module.                            *)
(***************************************************************************)
EXTENDS Integers, Sequences

CONSTANTS
    Key, Value,      \* row/column pairs and nonempty values
    Thread,          \* connections served by threadFunc
    Op,              \* the writes clients send
    DeadOp,          \* the writes the primary logs for this server
    Threshold,       \* CHECKPOINTING_THRESHOLD
    MaxLog,          \* bound: lines in a log file
    MaxCrashes,      \* bound: crashes
    Hazard,          \* hazards of the environment that are let in
    Absent, Empty, None

ASSUME StorageAssumption ==
    /\ Op \union DeadOp \subseteq
         [cmd : {"PUT", "DELETE", "CPUT"}, key : Key,
          old : Value \union {Empty}, new : Value \union {Empty}]
    /\ Threshold \in Nat \ {0}
    /\ MaxLog \in Nat /\ MaxCrashes \in Nat
    \* "window": a crash may fall between remove() and rename();
    \* "admin": requests arrive while an ENABLE is being carried out;
    \* "late": the primary logs writes while the server is recovering.
    /\ Hazard \subseteq {"window", "admin", "late"}
    /\ Absent \notin Value /\ Empty \notin Value /\ Absent # Empty
    /\ None \notin [Key -> Value \union {Empty, Absent}]
    /\ "init" \notin Thread

VARIABLES
    table,        \* the in-memory map
    disk,         \* the disk file
    tmp,          \* the ".tmp" file of checkpoint_table
    log,          \* the "-checkpoint" file
    deadLog,      \* the "-deadServerLog" file
    writes,       \* currentNumberOfWritesForReplicaAndServer
    enabled,      \* set and cleared by the admin console
    up,           \* the process runs
    pc,           \* where each thread is
    op,           \* the request of each thread
    seen,         \* the counter value read by a thread that increments it
    line,         \* lines of a log file already replayed by the initializer
    phase,        \* which log the initializer replays
    crashes,      \* number of crashes so far
    allowed       \* values a client may find under each key, Empty for none

\* initialize runs in main, before any connection, or in the admin thread.
Initializer == "init"
Worker == Thread \union {Initializer}

files == <<disk, tmp, log, deadLog>>
vars == <<table, files, writes, enabled, up, pc, op, seen, line, phase,
          crashes, allowed>>

Table == [Key -> Value \union {Empty, Absent}]

TypeOK ==
    /\ table \in Table
    /\ disk \in Table \union {None}
    /\ tmp \in Table \union {None}
    /\ log \in Seq(Op \union DeadOp)
    /\ deadLog \in Seq(DeadOp)
    /\ writes \in Nat
    /\ enabled \in BOOLEAN /\ up \in BOOLEAN
    /\ pc \in [Worker -> {"idle", "apply", "append", "count", "store", "check",
                          "write", "remove", "rename", "truncate", "reset",
                          "reply", "load", "replay", "recover", "forget"}]
    /\ \A t \in Thread : pc[t] # "idle" => op[t] \in Op
    /\ line \in Nat
    /\ phase \in {"log", "dead"}
    /\ allowed \in [Key -> SUBSET (Value \union {Empty})]

Init ==
    /\ table = [k \in Key |-> Absent]
    /\ disk = None /\ tmp = None
    /\ log = <<>> /\ deadLog = <<>>
    /\ writes = 0
    /\ enabled = TRUE
    /\ up = FALSE
    /\ pc = [t \in Worker |-> "idle"]
    /\ op = [t \in Thread |-> None]
    /\ seen = [t \in Thread |-> 0]
    /\ line = 0
    /\ phase = "log"
    /\ crashes = 0
    /\ allowed = [k \in Key |-> {Empty}]

Goto(t, l) == pc' = [pc EXCEPT ![t] = l]

ThreadsIdle == \A t \in Thread : pc[t] = "idle"

Initializing == pc[Initializer] # "idle"

\* currentlyReadingFromCheckpointFile
ReadingLog == pc[Initializer] = "replay"

-----------------------------------------------------------------------------
(* Faulty variants of the definitions below. No specification uses them:   *)
(* each stands for a slip in the code that a property must notice.         *)

\* A missing entry is not read as the empty string.
CurrentRaw(tb, k) == tb[k]

\* Deletions are not logged.
AppendLogNoDelete(t) ==
    /\ pc[t] = "append"
    /\ log' = IF op[t].cmd = "DELETE" THEN log ELSE Append(log, op[t])
    /\ Goto(t, IF op[t].cmd = "DELETE" THEN "check" ELSE "count")
    /\ UNCHANGED <<table, disk, tmp, deadLog, writes, enabled, up, op, seen,
                   line, phase, crashes, allowed>>

\* The threshold is passed before it is noticed.
CheckThresholdLate(t) ==
    /\ pc[t] = "check"
    /\ Goto(t, IF writes > Threshold THEN "write" ELSE "reply")
    /\ UNCHANGED <<table, files, writes, enabled, up, op, seen, line, phase,
                   crashes, allowed>>

\* The new file does not replace the old one.
RenameTmpFails(w) ==
    /\ pc[w] = "rename"
    /\ Goto(w, "truncate")
    /\ UNCHANGED <<table, files, writes, enabled, up, op, seen, line, phase,
                   crashes, allowed>>

-----------------------------------------------------------------------------
(* handleCommand on the table.                                             *)

\* table[row][col] as an rvalue: a missing entry reads as the empty string.
Current(tb, k) == IF tb[k] = Absent THEN Empty ELSE tb[k]

Succeeds(tb, o) == o.cmd = "CPUT" => Current(tb, o.key) = o.old

\* A CPUT that fails leaves an empty entry behind if there was none.
Effect(tb, o) ==
    [tb EXCEPT ![o.key] =
        IF o.cmd = "DELETE" THEN Absent
        ELSE IF Succeeds(tb, o) THEN o.new
        ELSE Current(tb, o.key)]

\* The lines of the disk file override the table, which is not cleared. A
\* line without a value has two fields and is ignored.
Loaded(tb, file) ==
    [k \in Key |-> IF file = None \/ file[k] \in {Absent, Empty}
                  THEN tb[k] ELSE file[k]]

-----------------------------------------------------------------------------
(* threadFunc: one request.                                                *)

\* A write arrives. A disabled server only answers "-ERR Server Disabled".
Receive(t, o) ==
    /\ up /\ enabled
    /\ "admin" \in Hazard \/ ~Initializing
    /\ pc[t] = "idle"
    /\ Len(log) < MaxLog
    /\ op' = [op EXCEPT ![t] = o]
    /\ Goto(t, "apply")
    /\ allowed' = [k \in Key |-> {Current(table, k)}]
    /\ UNCHANGED <<table, files, writes, enabled, up, seen, line, phase, crashes>>

Apply(t) ==
    /\ pc[t] = "apply"
    /\ table' = Effect(table, op[t])
    /\ Goto(t, IF Succeeds(table, op[t]) THEN "append" ELSE "check")
    /\ allowed' = [allowed EXCEPT ![op[t].key] = @ \union
                     {Current(Effect(table, op[t]), op[t].key)}]
    /\ UNCHANGED <<files, writes, enabled, up, op, seen, line, phase, crashes>>

\* handleAppend: nothing is logged while the log is being replayed.
AppendLog(t) ==
    /\ pc[t] = "append"
    /\ log' = IF ReadingLog THEN log ELSE Append(log, op[t])
    /\ Goto(t, IF ReadingLog THEN "check" ELSE "count")
    /\ UNCHANGED <<table, disk, tmp, deadLog, writes, enabled, up, op, seen,
                   line, phase, crashes, allowed>>

\* The counter is a plain int: ++ is a read and a write.
CountRead(t) ==
    /\ pc[t] = "count"
    /\ seen' = [seen EXCEPT ![t] = writes]
    /\ Goto(t, "store")
    /\ UNCHANGED <<table, files, writes, enabled, up, op, line, phase, crashes,
                   allowed>>

CountStore(t) ==
    /\ pc[t] = "store"
    /\ writes' = seen[t] + 1
    /\ seen' = [seen EXCEPT ![t] = 0]
    /\ Goto(t, "check")
    /\ UNCHANGED <<table, files, enabled, up, op, line, phase, crashes, allowed>>

CheckThreshold(t) ==
    /\ pc[t] = "check"
    /\ Goto(t, IF writes = Threshold THEN "write" ELSE "reply")
    /\ UNCHANGED <<table, files, writes, enabled, up, op, seen, line, phase,
                   crashes, allowed>>

Reply(t) ==
    /\ pc[t] = "reply"
    /\ Goto(t, "idle")
    /\ op' = [op EXCEPT ![t] = None]
    /\ allowed' = [allowed EXCEPT ![op[t].key] = {Current(table, op[t].key)}]
    /\ UNCHANGED <<table, files, writes, enabled, up, seen, line, phase, crashes>>

-----------------------------------------------------------------------------
(* checkpoint_table, by a request thread or by the initializer.            *)

WriteTmp(w) ==
    /\ pc[w] = "write"
    /\ tmp' = table
    /\ Goto(w, "remove")
    /\ UNCHANGED <<table, disk, log, deadLog, writes, enabled, up, op, seen,
                   line, phase, crashes, allowed>>

RemoveDisk(w) ==
    /\ pc[w] = "remove"
    /\ disk' = None
    /\ Goto(w, "rename")
    /\ UNCHANGED <<table, tmp, log, deadLog, writes, enabled, up, op, seen,
                   line, phase, crashes, allowed>>

\* rename fails when another checkpoint has already taken the .tmp file.
RenameTmp(w) ==
    /\ pc[w] = "rename"
    /\ disk' = IF tmp = None THEN disk ELSE tmp
    /\ tmp' = None
    /\ Goto(w, "truncate")
    /\ UNCHANGED <<table, log, deadLog, writes, enabled, up, op, seen, line,
                   phase, crashes, allowed>>

TruncateLog(w) ==
    /\ pc[w] = "truncate"
    /\ log' = <<>>
    /\ Goto(w, "reset")
    /\ UNCHANGED <<table, disk, tmp, deadLog, writes, enabled, up, op, seen,
                   line, phase, crashes, allowed>>

\* Back in the caller.
ResetCount(w) ==
    /\ pc[w] = "reset"
    /\ writes' = 0
    /\ Goto(w, IF w \in Thread THEN "reply"
               ELSE IF phase = "log" THEN "recover" ELSE "idle")
    /\ UNCHANGED <<table, files, enabled, up, op, seen, line, phase, crashes,
                   allowed>>

CheckpointStep(w) ==
    WriteTmp(w) \/ RemoveDisk(w) \/ RenameTmp(w) \/ TruncateLog(w) \/ ResetCount(w)

-----------------------------------------------------------------------------
(* initialize and crashRecoveryFunction.                                   *)

\* The disk file is created if it does not exist, and read.
LoadDisk ==
    /\ pc[Initializer] = "load"
    /\ table' = Loaded(table, disk)
    /\ disk' = IF disk = None THEN [k \in Key |-> Absent] ELSE disk
    /\ Goto(Initializer, "replay")
    /\ line' = 0
    /\ phase' = "log"
    /\ UNCHANGED <<tmp, log, deadLog, writes, enabled, up, op, seen, crashes,
                   allowed>>

ReplayLine ==
    /\ pc[Initializer] = "replay"
    /\ line < Len(log)
    /\ line' = line + 1
    /\ table' = Effect(table, log[line'])
    /\ writes' = writes + 1
    /\ UNCHANGED <<files, enabled, up, pc, op, seen, phase, crashes, allowed>>

ReplayDone ==
    /\ pc[Initializer] = "replay"
    /\ line >= Len(log)
    /\ line' = 0
    /\ Goto(Initializer, IF writes >= Threshold THEN "write" ELSE "recover")
    /\ UNCHANGED <<table, files, writes, enabled, up, op, seen, phase, crashes,
                   allowed>>

\* A write the server missed is applied, logged and counted.
RecoverLine ==
    /\ pc[Initializer] = "recover"
    /\ line < Len(deadLog)
    /\ line' = line + 1
    /\ table' = Effect(table, deadLog[line'])
    /\ IF Succeeds(table, deadLog[line'])
       THEN log' = Append(log, deadLog[line']) /\ writes' = writes + 1
       ELSE UNCHANGED <<log, writes>>
    /\ UNCHANGED <<disk, tmp, deadLog, enabled, up, pc, op, seen, phase,
                   crashes, allowed>>

RecoverDone ==
    /\ pc[Initializer] = "recover"
    /\ line >= Len(deadLog)
    /\ Goto(Initializer, "forget")
    /\ UNCHANGED <<table, files, writes, enabled, up, op, seen, line, phase,
                   crashes, allowed>>

ForgetDeadLog ==
    /\ pc[Initializer] = "forget"
    /\ deadLog' = <<>>
    /\ line' = 0
    /\ phase' = "dead"
    /\ Goto(Initializer, IF writes >= Threshold THEN "write" ELSE "idle")
    /\ UNCHANGED <<table, disk, tmp, log, writes, enabled, up, op, seen,
                   crashes, allowed>>

-----------------------------------------------------------------------------
(* The admin console, the process, and the primary of the group.           *)

Enable ==
    /\ up /\ ~enabled
    /\ ~Initializing
    /\ "admin" \in Hazard \/ ThreadsIdle
    /\ enabled' = TRUE
    /\ Goto(Initializer, "load")
    /\ UNCHANGED <<table, files, writes, up, op, seen, line, phase, crashes,
                   allowed>>

Disable ==
    /\ up /\ enabled
    /\ ~Initializing
    /\ enabled' = FALSE
    /\ UNCHANGED <<table, files, writes, up, pc, op, seen, line, phase, crashes,
                   allowed>>

\* The process is killed: the files stay, everything else is gone.
Crash ==
    /\ up
    /\ crashes < MaxCrashes
    /\ "window" \in Hazard \/ \A w \in Worker : pc[w] # "rename"
    /\ crashes' = crashes + 1
    /\ up' = FALSE
    /\ enabled' = TRUE
    /\ table' = [k \in Key |-> Absent]
    /\ writes' = 0
    /\ pc' = [w \in Worker |-> "idle"]
    /\ op' = [t \in Thread |-> None]
    /\ seen' = [t \in Thread |-> 0]
    /\ line' = 0
    /\ phase' = "log"
    /\ UNCHANGED <<files, allowed>>

\* main: initialize runs before the server listens.
Restart ==
    /\ ~up
    /\ up' = TRUE
    /\ Goto(Initializer, "load")
    /\ UNCHANGED <<table, files, writes, enabled, op, seen, line, phase,
                   crashes, allowed>>

\* forwardToAllSecondaryServers of the primary, which takes this server for
\* dead, acknowledges the write and appends it to this server's log.
LogForDead(o) ==
    /\ Len(deadLog) < MaxLog
    /\ \/ ~up
       \/ ~enabled /\ ThreadsIdle
       \/ "late" \in Hazard /\ Initializing
    /\ deadLog' = Append(deadLog, o)
    /\ allowed' = [allowed EXCEPT ![o.key] =
                     {IF o.cmd = "DELETE" THEN Empty ELSE o.new}]
    /\ UNCHANGED <<table, disk, tmp, log, writes, enabled, up, pc, op, seen,
                   line, phase, crashes>>

ThreadStep(t) ==
    \/ Apply(t) \/ AppendLog(t)
    \/ CountRead(t) \/ CountStore(t) \/ CheckThreshold(t)
    \/ Reply(t)

InitializerStep ==
    \/ LoadDisk \/ ReplayLine \/ ReplayDone
    \/ RecoverLine \/ RecoverDone \/ ForgetDeadLog

Next ==
    \/ \E t \in Thread : ThreadStep(t) \/ \E o \in Op : Receive(t, o)
    \/ \E w \in Worker : CheckpointStep(w)
    \/ InitializerStep
    \/ Enable \/ Disable \/ Crash \/ Restart
    \/ \E o \in DeadOp : LogForDead(o)

Spec == Init /\ [][Next]_vars

-----------------------------------------------------------------------------
(* Properties.                                                             *)

AtRest == up /\ enabled /\ ~Initializing /\ ThreadsIdle

\* Every acknowledged write survives crashes, restarts, checkpoints and
\* DISABLE/ENABLE: a server at rest holds the value of the last acknowledged
\* write of each key, or that of a write whose reply the crash prevented.
\* Stated for one request thread.
Durable == AtRest => \A k \in Key : Current(table, k) \in allowed[k]

\* The comment of CHECKPOINTING_THRESHOLD: after that number of writes the
\* disk file is updated and the log flushed. A server at rest never has
\* Threshold lines in its log, and its counter never misses a line.
LogBounded == AtRest => Len(log) <= writes /\ writes < Threshold

\* The log is emptied only when the disk file holds the whole table: no line
\* is dropped whose effect is not on disk yet.
TruncateIsSafe == [][log' = <<>> /\ log # <<>> => disk = table]_vars
=============================================================================
