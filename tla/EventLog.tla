------------------------------ MODULE EventLog ------------------------------
(***************************************************************************)
(* The authoritative event log of a branch: `events.jsonl`, the lock       *)
(* `events.lock` that serialises its writers, and the one-time migration   *)
(* of a legacy `state.json` into it.                                       *)
(*                                                                         *)
(* The file is a sequence of complete lines and the bytes after the last   *)
(* newline.  A line is an event or Garbage, which no parser accepts.  The  *)
(* bytes of an event and its newline are two writes, so a whole event can  *)
(* stand unterminated at the end of the file: a reader accepts it, and the *)
(* next writer's bytes are glued to it.  Readers take no lock.             *)
(***************************************************************************)
EXTENDS Integers, Sequences, FiniteSets

CONSTANTS
    Procs,        \* processes that use the log
    NoProc,       \* no process
    Garbage,      \* bytes that parse as no event
    ReplayEvents, \* number of events that replay the legacy state
    MaxEvents,    \* bound: events drafted
    MaxReads,     \* bound: loads begun
    MaxKilled,    \* bound: processes killed
    MaxFaults     \* bound: writes that fail or are torn

ASSUME NoProcAssumption == NoProc \notin Procs
ASSUME ReplayAssumption == ReplayEvents \in Nat
ASSUME EventLogBounds ==
    MaxEvents \in Nat /\ MaxReads \in Nat /\ MaxKilled \in Nat /\ MaxFaults \in Nat

VARIABLES
    lines,    \* complete lines of events.jsonl
    tail,     \* what follows the last newline: <<>>, or one event or Garbage
    created,  \* whether events.jsonl exists
    evlock,   \* the creator of events.lock, or NoProc
    legacy,   \* whether state.json exists
    evpc,     \* where each process is in its operation
    draft,    \* the events a writer has built and not yet written
    result,   \* what a process's last operation reported
    acked,    \* history: hashes of events whose writer reported success
    stamp,    \* history: hashes given out
    began,    \* history: the lock and the stamp when a process's load began
    killed,   \* history: for each process killed, the process if it held events.lock
    reads, faults  \* history: bounded events

evVars == <<lines, tail, created, evlock, legacy, evpc, draft, result, acked, stamp,
            began, reads, killed, faults>>

AL == INSTANCE AppendLog WITH log <- lines \o tail

ASSUME GarbageAssumption == Garbage \notin AL!Event

ReadControls == {"stat_events", "stat_legacy", "stat_legacy_of_empty", "backup", "read"}
LockedControls ==
    {"ap_load", "ap_open", "ap_json", "ap_newline", "ap_unlock", "mg_load", "mg_publish",
     "mg_unlock"}
EvControls ==
    {"idle", "ap_lock", "mg_lock", "publish_state"} \cup ReadControls \cup LockedControls

Results == {"none", "ok", "conflict", "malformed", "partial"}

evGoto(p, from, to) == evpc[p] = from /\ evpc' = [evpc EXCEPT ![p] = to]

\* The operation of p ends and reports r.
Return(p, r) ==
    /\ evpc' = [evpc EXCEPT ![p] = "idle"]
    /\ result' = [result EXCEPT ![p] = r]

-----------------------------------------------------------------------------
(***************************************************************************)
(* load_event_log parses every line, the unterminated one included;        *)
(* validate_event_log checks the chain.                                    *)
(***************************************************************************)
load_event_log == lines \o tail

Parses == \A i \in 1..Len(load_event_log) : load_event_log[i] # Garbage

Loads == Parses /\ AL!ValidChain(load_event_log)

FileIsEmpty == lines = <<>> /\ tail = <<>>

\* Bytes written at the end of the file join what follows the last newline.
Glue(x) == IF tail = <<>> THEN <<x>> ELSE <<Garbage>>

\* next_event_envelope: the successor of the last event, under a fresh hash.
next_event_envelope(events, kind) ==
    [sequence |-> IF events = <<>> THEN 1 ELSE events[Len(events)].sequence + 1,
     previous |-> AL!LastHash(events),
     hash     |-> stamp + 1,
     kind     |-> kind]

\* MigrationImported followed by the events that replay the legacy state.
StagedMigration ==
    [i \in 1..(ReplayEvents + 1) |->
        [sequence |-> i,
         previous |-> IF i = 1 THEN AL!Origin ELSE stamp + i - 1,
         hash     |-> stamp + i,
         kind     |-> IF i = 1 THEN "migration_imported" ELSE "replay"]]

-----------------------------------------------------------------------------
(***************************************************************************)
(* append_typed_state_event_for_state_path_with_step_hint.  Every writer   *)
(* has loaded the state it changes before it appends.                      *)
(***************************************************************************)
BeginAppend(p) ==
    /\ stamp < MaxEvents
    /\ result[p] = "ok"
    /\ evGoto(p, "idle", "ap_lock")
    /\ UNCHANGED <<lines, tail, created, evlock, legacy, draft, result, acked, stamp,
                   began, reads, killed, faults>>

\* Mutant: the lock file is opened with create instead of create_new.
AcquireShared(p, from, to) ==
    /\ evGoto(p, from, to)
    /\ evlock' = p
    /\ UNCHANGED <<lines, tail, created, legacy, draft, result, acked, stamp, began, reads,
                   killed, faults>>

\* acquire_event_log_lock: create_new, and an existing file is a conflict at
\* once, whoever left it there.
acquire_event_log_lock(p, from, to) ==
    /\ evpc[p] = from
    /\ \/ /\ evlock = NoProc
          /\ evlock' = p
          /\ evGoto(p, from, to)
          /\ UNCHANGED result
       \/ /\ evlock # NoProc
          /\ Return(p, "conflict")
          /\ UNCHANGED evlock
    /\ UNCHANGED <<lines, tail, created, legacy, draft, acked, stamp, began, reads, killed,
                   faults>>

\* The log is read again under the lock and the next envelope is built on it.
AppendLoad(p) ==
    /\ evpc[p] = "ap_load"
    /\ \/ /\ Loads
          /\ evGoto(p, "ap_load", "ap_open")
          /\ draft' = [draft EXCEPT ![p] = <<next_event_envelope(load_event_log, "command")>>]
          /\ stamp' = stamp + 1
          /\ UNCHANGED <<evlock, result>>
       \/ /\ ~Loads
          /\ Return(p, "malformed")
          /\ evlock' = NoProc
          /\ UNCHANGED <<draft, stamp>>
    /\ UNCHANGED <<lines, tail, created, legacy, acked, began, reads, killed, faults>>

\* append_event_line: open with create and append, ...
AppendOpen(p) ==
    /\ evGoto(p, "ap_open", "ap_json")
    /\ created' = TRUE
    /\ UNCHANGED <<lines, tail, evlock, legacy, draft, result, acked, stamp, began, reads,
                   killed, faults>>

\* ... write the bytes of the event, ...
AppendJson(p) ==
    /\ evGoto(p, "ap_json", "ap_newline")
    /\ tail' = Glue(draft[p][1])
    /\ UNCHANGED <<lines, created, evlock, legacy, draft, result, acked, stamp, began, reads,
                   killed, faults>>

\* ... and a newline.
AppendNewline(p) ==
    /\ evGoto(p, "ap_newline", "ap_unlock")
    /\ lines' = lines \o tail
    /\ tail' = <<>>
    /\ UNCHANGED <<created, evlock, legacy, draft, result, acked, stamp, began, reads, killed,
                   faults>>

\* Drop of the lock guard; the writers of recorded artifacts go on to publish
\* state.json.
AppendUnlock(p) ==
    /\ evpc[p] = "ap_unlock"
    /\ evlock' = NoProc
    /\ acked' = acked \cup {draft[p][1].hash}
    /\ draft' = [draft EXCEPT ![p] = <<>>]
    /\ \/ Return(p, "ok")
       \/ evGoto(p, "ap_unlock", "publish_state") /\ UNCHANGED result
    /\ UNCHANGED <<lines, tail, created, legacy, stamp, began, reads, killed, faults>>

PublishState(p) ==
    /\ evpc[p] = "publish_state"
    /\ legacy' = TRUE
    /\ Return(p, "ok")
    /\ UNCHANGED <<lines, tail, created, evlock, draft, acked, stamp, began, reads, killed,
                   faults>>

\* Mutant: an error path returns without dropping the lock guard.
WriteFailsKeepsLock(p) ==
    /\ faults < MaxFaults
    /\ faults' = faults + 1
    /\ evpc[p] \in {"ap_open", "ap_json", "ap_newline", "mg_publish"}
    /\ Return(p, "partial")
    /\ draft' = [draft EXCEPT ![p] = <<>>]
    /\ UNCHANGED <<lines, tail, created, evlock, legacy, acked, stamp, began, reads, killed>>

(***************************************************************************)
(* A write fails: the event's bytes are missing or torn, the event is      *)
(* whole and only its newline is missing, or a file is not written at all. *)
(* The command reports a partial mutation, and drops the lock guard if it  *)
(* has it.                                                                 *)
(***************************************************************************)
WriteFails(p) ==
    /\ faults < MaxFaults
    /\ faults' = faults + 1
    /\ \/ evpc[p] = "ap_json" /\ tail' \in {tail, <<Garbage>>}
       \/ evpc[p] \in {"ap_open", "ap_newline", "backup", "mg_publish", "publish_state"}
          /\ tail' = tail
    /\ Return(p, "partial")
    /\ evlock' = IF evlock = p THEN NoProc ELSE evlock
    /\ draft' = [draft EXCEPT ![p] = <<>>]
    /\ UNCHANGED <<lines, created, legacy, acked, stamp, began, reads, killed>>

-----------------------------------------------------------------------------
(***************************************************************************)
(* load_reduced_authoritative_state: migrate if need be, then read.        *)
(***************************************************************************)
BeginLoad(p) ==
    /\ reads < MaxReads
    /\ evGoto(p, "idle", "stat_events")
    /\ reads' = reads + 1
    /\ began' = [began EXCEPT ![p] = [lock |-> evlock, stamp |-> stamp]]
    /\ UNCHANGED <<lines, tail, created, evlock, legacy, draft, result, acked, stamp,
                   killed, faults>>

\* Mutant: a log that does not exist is taken for an empty one.
StatEventsIgnoresAbsence(p) ==
    /\ evGoto(p, "stat_events", IF FileIsEmpty THEN "stat_legacy_of_empty" ELSE "read")
    /\ UNCHANGED <<lines, tail, created, evlock, legacy, draft, result, acked, stamp, began,
                   reads, killed, faults>>

\* ensure_event_log_migrated_from_legacy_state_path: a log with any bytes in it
\* is authoritative.
StatEvents(p) ==
    /\ evGoto(p, "stat_events",
            IF ~created THEN "stat_legacy"
            ELSE IF FileIsEmpty THEN "stat_legacy_of_empty" ELSE "read")
    /\ UNCHANGED <<lines, tail, created, evlock, legacy, draft, result, acked, stamp, began, reads,
                   killed, faults>>

\* An empty log without a legacy state is malformed; without either file there
\* is nothing to migrate.
StatLegacy(p) ==
    /\ \/ /\ legacy
          /\ evGoto(p, "stat_legacy", "backup") \/ evGoto(p, "stat_legacy_of_empty", "backup")
          /\ UNCHANGED result
       \/ /\ ~legacy
          /\ evGoto(p, "stat_legacy", "read")
          /\ UNCHANGED result
       \/ /\ ~legacy
          /\ evpc[p] = "stat_legacy_of_empty"
          /\ Return(p, "malformed")
    /\ UNCHANGED <<lines, tail, created, evlock, legacy, draft, acked, stamp, began, reads,
                   killed, faults>>

\* The legacy state is backed up (by rename, so repeating it is harmless) and
\* the events that replay it are staged and validated in memory.
StageMigration(p) ==
    /\ evGoto(p, "backup", "mg_lock")
    /\ draft' = [draft EXCEPT ![p] = StagedMigration]
    /\ stamp' = stamp + ReplayEvents + 1
    /\ UNCHANGED <<lines, tail, created, evlock, legacy, result, acked, began, reads, killed,
                   faults>>

\* Mutant: the migration publishes without reading the log again.
MigrationLoadUnchecked(p) ==
    /\ evGoto(p, "mg_load", "mg_publish")
    /\ UNCHANGED <<lines, tail, created, evlock, legacy, draft, result, acked, stamp, began,
                   reads, killed, faults>>

\* Under the lock the log is read again: one that is no longer empty is kept.
MigrationLoad(p) ==
    /\ evpc[p] = "mg_load"
    /\ \/ /\ Loads
          /\ evGoto(p, "mg_load", IF load_event_log = <<>> THEN "mg_publish" ELSE "mg_unlock")
          /\ UNCHANGED <<evlock, result>>
       \/ /\ ~Loads
          /\ Return(p, "malformed")
          /\ evlock' = NoProc
    /\ UNCHANGED <<lines, tail, created, legacy, draft, acked, stamp, began, reads, killed,
                   faults>>

\* write_event_log_atomic: the staged log is renamed over the file.
MigrationPublish(p) ==
    /\ evGoto(p, "mg_publish", "mg_unlock")
    /\ lines' = draft[p]
    /\ tail' = <<>>
    /\ created' = TRUE
    /\ UNCHANGED <<evlock, legacy, draft, result, acked, stamp, began, reads, killed, faults>>

MigrationUnlock(p) ==
    /\ evGoto(p, "mg_unlock", "read")
    /\ evlock' = NoProc
    /\ draft' = [draft EXCEPT ![p] = <<>>]
    /\ UNCHANGED <<lines, tail, created, legacy, result, acked, stamp, began, reads, killed,
                   faults>>

ReadLog(p) ==
    /\ evpc[p] = "read"
    /\ Return(p, IF Loads THEN "ok" ELSE "malformed")
    /\ UNCHANGED <<lines, tail, created, evlock, legacy, draft, acked, stamp, began, reads,
                   killed, faults>>

-----------------------------------------------------------------------------
\* A process is killed between two of its steps, or in the middle of a write.
\* No destructor runs, so its lock file stays.
evCrash(p) ==
    /\ Len(killed) < MaxKilled
    /\ killed' = Append(killed, IF evlock = p THEN p ELSE NoProc)
    /\ evpc[p] # "idle"
    /\ \/ UNCHANGED <<tail, faults>>
       \/ /\ evpc[p] = "ap_json" /\ faults < MaxFaults
          /\ tail' = <<Garbage>>
          /\ faults' = faults + 1
    /\ Return(p, "none")
    /\ draft' = [draft EXCEPT ![p] = <<>>]
    /\ UNCHANGED <<lines, created, evlock, legacy, acked, stamp, began, reads>>

evInit ==
    /\ lines = <<>> /\ tail = <<>> /\ created = FALSE
    /\ evlock = NoProc
    /\ legacy \in BOOLEAN
    /\ evpc = [p \in Procs |-> "idle"]
    /\ draft = [p \in Procs |-> <<>>]
    /\ result = [p \in Procs |-> "none"]
    /\ acked = {}
    /\ stamp = 0
    /\ began = [p \in Procs |-> [lock |-> NoProc, stamp |-> 0]]
    /\ reads = 0 /\ killed = <<>> /\ faults = 0

AppendSteps(p) ==
    \/ acquire_event_log_lock(p, "ap_lock", "ap_load") \/ AppendLoad(p) \/ AppendOpen(p)
    \/ AppendJson(p) \/ AppendNewline(p) \/ AppendUnlock(p) \/ PublishState(p)

LoadSteps(p) ==
    \/ StatEvents(p) \/ StatLegacy(p) \/ StageMigration(p)
    \/ acquire_event_log_lock(p, "mg_lock", "mg_load") \/ MigrationLoad(p)
    \/ MigrationPublish(p) \/ MigrationUnlock(p) \/ ReadLog(p)

evNext ==
    \E p \in Procs :
        \/ BeginAppend(p) \/ AppendSteps(p) \/ WriteFails(p)
        \/ BeginLoad(p) \/ LoadSteps(p) \/ evCrash(p)

evSpec == evInit /\ [][evNext]_evVars

\* A running command is scheduled until it returns.
evFairness == \A p \in Procs : WF_evVars(AppendSteps(p) \/ LoadSteps(p))

-----------------------------------------------------------------------------
evTypeOK ==
    /\ lines \in Seq(AL!Event \cup {Garbage})
    /\ tail \in Seq(AL!Event \cup {Garbage})
    /\ Len(tail) <= 1
    /\ created \in BOOLEAN /\ legacy \in BOOLEAN
    /\ evlock \in Procs \cup {NoProc}
    /\ evpc \in [Procs -> EvControls]
    /\ draft \in [Procs -> Seq(AL!Event)]
    /\ result \in [Procs -> Results]
    /\ acked \subseteq Nat
    /\ stamp \in Nat
    /\ began \in [Procs -> [lock : Procs \cup {NoProc}, stamp : Nat]]
    /\ killed \in Seq(Procs \cup {NoProc})
    /\ reads \in Nat /\ faults \in Nat

(***************************************************************************)
(* Whatever was torn, every entry that parses is in its place in the hash  *)
(* chain: validate_event_log never meets a gap, a duplicate sequence or a  *)
(* broken link.                                                            *)
(***************************************************************************)
ChainValid ==
    \A i \in 1..Len(load_event_log) :
        load_event_log[i] # Garbage =>
            /\ load_event_log[i].sequence = i
            /\ i = 1 => load_event_log[i].previous = AL!Origin
            /\ i > 1 => /\ load_event_log[i - 1] # Garbage
                       /\ load_event_log[i].previous = load_event_log[i - 1].hash

(***************************************************************************)
(* An event whose command reported success is a complete line of the log.  *)
(***************************************************************************)
AckedDurable ==
    \A h \in acked : \E i \in 1..Len(lines) : lines[i] # Garbage /\ lines[i].hash = h

(***************************************************************************)
(* The file implements the abstract log: a reader sees it grow by whole,   *)
(* linked events, and the legacy state imported once, into an empty log.   *)
(***************************************************************************)
ImplementsAppendLog == AL!Spec

(***************************************************************************)
(* Readers take no lock, and still a load of a log at rest succeeds: it    *)
(* reports a malformed log only if a writer held the lock when the load    *)
(* began or drafted an event since.                                        *)
(***************************************************************************)
ReadFailsOnlyAmidWrites ==
    [][\A p \in Procs :
          evpc[p] \in ReadControls /\ evpc'[p] = "idle" /\ result'[p] = "malformed"
              => began[p].lock # NoProc \/ began[p].stamp # stamp]_evVars

(***************************************************************************)
(* events.lock is given back by every append and migration, when a write   *)
(* fails in any place, when the log cannot be read and when another        *)
(* command is in the way.  Only a process killed while it held the lock    *)
(* leaves it behind, and then nobody takes it over.                        *)
(***************************************************************************)
LockIsGivenBack ==
    \A p \in Procs :
        evlock = p ~> evlock # p \/ \E i \in 1..Len(killed) : killed[i] = p
=============================================================================
