---------------------------- MODULE LogRotation ----------------------------
(***************************************************************************)
(* The File mode of src/src/log.rs: the tasks that emit entries, the       *)
(* throttled size check, the thread that rotates the log, and the files    *)
(* `log`, `log.tmp` and the archives it leaves behind, across failed file  *)
(* operations and crashes of the process.                                  *)
(*                                                                         *)
(* A file is the set of the entries in it.  LOG_MUTEX is held from the     *)
(* open of an append to its write, and for the one rename of a rotation,   *)
(* so an emitter at "write" is its only holder between two steps.          *)
(***************************************************************************)
EXTENDS Integers, FiniteSets

CONSTANTS
    Thread,        \* the threads that emit, each of which may start one that rotates
    Entry,         \* the entries the node logs
    NoEntry,       \* no entry
    MaxSize,       \* MAX_SIZE_BYTES, in entries
    MaxFaults      \* bound: file operations that fail, crashes of the process

ASSUME LogAssumption == MaxSize \in Nat /\ MaxFaults \in Nat /\ NoEntry \notin Entry

VARIABLES
    emitter,       \* per thread: where it is in emit, its entry, the file it has open
    due,           \* ROLL_CHECK_INTERVAL has passed since LAST_ROLL_CHECK
    rolling,       \* ROLLING
    roller,        \* per thread: the rotation it has started
    present,       \* which of the two files exist
    log, tmp,      \* the entries in `log` and in `log.tmp`
    archives,      \* the entries in complete .gz archives
    unsaid,        \* the entries not emitted yet
    written,       \* history: the entries append_file has written
    dropped,       \* history: entries of a leftover `log.tmp` a rename replaced
    replaces,      \* the platform: fs::rename replaces an existing target
    faults         \* bound

logVars == <<emitter, due, rolling, roller, present, log, tmp, archives, unsaid, written, dropped, replaces, faults>>
logFiles == <<present, log, tmp, archives>>

At == {"idle", "swap", "stat", "append", "write"}
Step == {"none", "stat", "rename", "read", "create", "remove"}
File == {"log", "tmp", "gone"}
Idle == [at |-> "idle", line |-> NoEntry, file |-> "gone"]
NoRoller == [at |-> "none", job |-> "first", buffer |-> {}]

LogInit ==
    /\ emitter = [t \in Thread |-> Idle] /\ due = TRUE /\ rolling = FALSE
    /\ roller = [t \in Thread |-> NoRoller]
    /\ present = {} /\ log = {} /\ tmp = {} /\ archives = {}
    /\ unsaid = Entry /\ written = {} /\ dropped = {} /\ faults = 0
    /\ replaces \in BOOLEAN

\* A file operation fails, a missing file included: only the rotation itself
\* ever takes one of the two names away.
Fault == faults < MaxFaults /\ faults' = faults + 1
NoFault == UNCHANGED faults

LockFree == \A t \in Thread : emitter[t].at # "write"

-----------------------------------------------------------------------------
(* Emitting an entry                                                       *)

\* emit takes the throttled check of maybe_check_and_roll first.
emit(t, e) ==
    /\ emitter[t].at = "idle" /\ e \in unsaid
    /\ emitter' = [emitter EXCEPT ![t] = [at |-> IF due THEN "swap" ELSE "append", line |-> e, file |-> "gone"]]
    /\ due' = FALSE
    /\ unsaid' = unsaid \ {e}
    /\ UNCHANGED <<rolling, roller, logFiles, written, dropped, replaces, faults>>

\* Time passes.
IntervalEnds == ~due /\ due' = TRUE
                /\ UNCHANGED <<emitter, rolling, roller, logFiles, unsaid, written, dropped, replaces, faults>>

\* The mutant rotates whenever a check is due.
SwapIgnored(t) ==
    /\ emitter[t].at = "swap"
    /\ emitter' = [emitter EXCEPT ![t].at = "stat"]
    /\ rolling' = TRUE
    /\ UNCHANGED <<due, roller, logFiles, unsaid, written, dropped, replaces, faults>>

\* The rest of maybe_check_and_roll: only the thread that sets ROLLING goes on.
maybe_check_and_roll(t) ==
    /\ emitter[t].at = "swap"
    /\ emitter' = [emitter EXCEPT ![t].at = IF rolling THEN "append" ELSE "stat"]
    /\ rolling' = TRUE
    /\ UNCHANGED <<due, roller, logFiles, unsaid, written, dropped, replaces, faults>>

TooBig == "log" \in present /\ Cardinality(log) > MaxSize

\* Left out: where the system refuses a new thread, spawn panics in the thread
\* that emits and ROLLING stays set until the process ends.
check_and_roll(t) ==
    /\ emitter[t].at = "stat"
    /\ emitter' = [emitter EXCEPT ![t].at = "append"]
    /\ \/ TooBig /\ NoFault /\ roller' = [roller EXCEPT ![t].at = "stat"] /\ UNCHANGED rolling
       \/ ~TooBig /\ NoFault /\ rolling' = FALSE /\ UNCHANGED roller
       \/ Fault /\ rolling' = FALSE /\ UNCHANGED roller
    /\ UNCHANGED <<due, logFiles, unsaid, written, dropped, replaces>>

\* append_file up to the open, which creates a missing log; a failure ends it.
append_open(t) ==
    /\ emitter[t].at = "append" /\ LockFree
    /\ \/ /\ emitter' = [emitter EXCEPT ![t] = [at |-> "write", line |-> @.line, file |-> "log"]]
          /\ present' = present \cup {"log"} /\ NoFault
       \/ emitter' = [emitter EXCEPT ![t] = Idle] /\ Fault /\ UNCHANGED present
    /\ UNCHANGED <<due, rolling, roller, log, tmp, archives, unsaid, written, dropped, replaces>>

\* The write goes to the file that was opened, under whatever name it is now.
append_write(t) ==
    /\ emitter[t].at = "write"
    /\ emitter' = [emitter EXCEPT ![t] = Idle]
    /\ \/ /\ log' = IF emitter[t].file = "log" THEN log \cup {emitter[t].line} ELSE log
          /\ tmp' = IF emitter[t].file = "tmp" THEN tmp \cup {emitter[t].line} ELSE tmp
          /\ written' = written \cup {emitter[t].line} /\ NoFault
       \/ Fault /\ UNCHANGED <<log, tmp, written>>
    /\ UNCHANGED <<due, rolling, roller, present, archives, unsaid, dropped, replaces>>

-----------------------------------------------------------------------------
(* The thread that rotates                                                 *)

\* The thread ends and its `defer!` clears ROLLING.
RollEnds(t) == roller' = [roller EXCEPT ![t] = NoRoller] /\ rolling' = FALSE

roll_stat(t) ==
    /\ roller[t].at = "stat"
    /\ \/ "log" \in present /\ NoFault /\ roller' = [roller EXCEPT ![t].at = "rename"] /\ UNCHANGED rolling
       \/ Fault /\ RollEnds(t)
    /\ UNCHANGED <<emitter, due, logFiles, unsaid, written, dropped, replaces>>

\* Open files keep their contents under the new name.
Renamed(t) ==
    /\ "log" \in present
    /\ replaces \/ "tmp" \notin present
    /\ dropped' = dropped \cup (tmp \ archives)
    /\ tmp' = log /\ log' = {} /\ present' = {"tmp"}
    /\ emitter' = [u \in Thread |-> [emitter[u] EXCEPT
           !.file = CASE @ = "log" -> "tmp" [] @ = "tmp" -> "gone" [] OTHER -> @]]
    /\ roller' = [roller EXCEPT ![t].at = "read"]
    /\ NoFault /\ UNCHANGED <<rolling, archives>>

\* AlreadyExists: the leftover is archived first by repair_tmp_file, then the
\* rename is tried once more.
Refused(t) ==
    /\ {"log", "tmp"} \subseteq present /\ ~replaces /\ NoFault
    /\ \/ /\ roller[t].job = "first"
          /\ roller' = [roller EXCEPT ![t] = [at |-> "read", job |-> "repair", buffer |-> {}]] /\ UNCHANGED rolling
       \/ roller[t].job = "second" /\ RollEnds(t)
    /\ UNCHANGED <<emitter, logFiles, dropped>>

NotRenamed(t) ==
    /\ Fault /\ RollEnds(t)
    /\ UNCHANGED <<emitter, logFiles, dropped>>

\* The mutant renames without LOG_MUTEX.
RenameUnlocked(t) ==
    /\ roller[t].at = "rename"
    /\ Renamed(t) \/ Refused(t) \/ NotRenamed(t)
    /\ UNCHANGED <<due, unsaid, written, replaces>>

perform_roll(t) ==
    /\ roller[t].at = "rename" /\ LockFree
    /\ Renamed(t) \/ Refused(t) \/ NotRenamed(t)
    /\ UNCHANGED <<due, unsaid, written, replaces>>

\* archive_and_cleanup returns, to perform_roll or to the repair inside it.
ArchiveEnds(t) ==
    IF roller[t].job = "repair"
    THEN roller' = [roller EXCEPT ![t] = [at |-> "rename", job |-> "second", buffer |-> {}]] /\ UNCHANGED rolling
    ELSE RollEnds(t)

archive_read(t) ==
    /\ roller[t].at = "read"
    /\ \/ /\ "tmp" \in present /\ NoFault
          /\ roller' = [roller EXCEPT ![t] = [at |-> "create", job |-> @.job, buffer |-> tmp]] /\ UNCHANGED rolling
       \/ Fault /\ ArchiveEnds(t)
    /\ UNCHANGED <<emitter, due, logFiles, unsaid, written, dropped, replaces>>

\* The archive counts once encoder.finish has returned.
archive_create(t) ==
    /\ roller[t].at = "create"
    /\ \/ /\ archives' = archives \cup roller[t].buffer /\ NoFault
          /\ roller' = [roller EXCEPT ![t].at = "remove"] /\ UNCHANGED rolling
       \/ Fault /\ ArchiveEnds(t) /\ UNCHANGED archives
    /\ UNCHANGED <<emitter, due, present, log, tmp, unsaid, written, dropped, replaces>>

archive_remove(t) ==
    /\ roller[t].at = "remove"
    /\ \/ /\ present' = present \ {"tmp"} /\ tmp' = {} /\ NoFault
          /\ emitter' = [u \in Thread |-> [emitter[u] EXCEPT !.file = IF @ = "tmp" THEN "gone" ELSE @]]
       \/ Fault /\ UNCHANGED <<emitter, present, tmp>>
    /\ ArchiveEnds(t)
    /\ UNCHANGED <<due, log, archives, unsaid, written, dropped, replaces>>

-----------------------------------------------------------------------------
(* The process                                                             *)

\* The process dies, by a crash or by std::process::exit, with every thread
\* wherever it is; only the files are left.
LogCrash ==
    /\ Fault
    /\ emitter' = [t \in Thread |-> Idle] /\ due' = TRUE /\ rolling' = FALSE
    /\ roller' = [t \in Thread |-> NoRoller]
    /\ UNCHANGED <<logFiles, unsaid, written, dropped, replaces>>

Emit(t) == (\E e \in Entry : emit(t, e)) \/ maybe_check_and_roll(t) \/ check_and_roll(t)
           \/ append_open(t) \/ append_write(t)
Roll(t) == roll_stat(t) \/ perform_roll(t) \/ archive_read(t) \/ archive_create(t) \/ archive_remove(t)

LogNext ==
    \/ \E t \in Thread : Emit(t) \/ Roll(t)
    \/ IntervalEnds
    \/ LogCrash

LogSpec == LogInit /\ [][LogNext]_logVars

-----------------------------------------------------------------------------
(* What the rotation promises                                              *)

\* Every entry append_file has written is in the log, in `log.tmp` or in a
\* complete archive, whatever fails and wherever the process dies, except the
\* entries of a leftover `log.tmp` that a later rename replaced.
EntriesKept == written \subseteq log \cup tmp \cup archives \cup dropped

\* Entries are lost that way only where fs::rename replaces its target, and
\* only after a failed file operation or the death of the process left a
\* `log.tmp` behind: ROLLING keeps the rotations of one process apart, and
\* repair_tmp_file saves the leftover wherever AlreadyExists is reported.
OnlyALeftoverIsLost == dropped # {} => replaces /\ faults > 0

\* ROLLING is cleared on every path of a check and of a rotation, so that a
\* later check may rotate again.
RollingReleased == rolling ~> ~rolling
=============================================================================
