--------------------------- MODULE EventLogProofs ---------------------------
(***************************************************************************)
(* Proofs about the event log, for any number of processes, events, loads, *)
(* crashes and, for the hash chain, failing writes.                        *)
(*                                                                         *)
(* None of the properties is inductive.  The chain needs that events.lock  *)
(* has one holder, and that what the holder has drafted continues the log  *)
(* as it still is.  Durability and the refinement hold until a write fails *)
(* and need that an unterminated event has its writer, or a dead one's     *)
(* lock, behind it: otherwise the next event would be glued to it.         *)
(***************************************************************************)
EXTENDS EventLog, SequenceTheorems, TLAPS

\* A process in a critical section of the log is the one that holds its lock.
LockHeld == \A p \in Procs : evpc[p] \in LockedControls => evlock = p

\* The events of a migration, as they are staged.
Staged(d) ==
    /\ d # <<>>
    /\ AL!ValidChain(d)
    /\ \A i \in 1..Len(d) : d[i].kind = IF i = 1 THEN "migration_imported" ELSE "replay"

\* An event about to be written continues the log, and a migration about to be
\* published finds the log empty.
Drafted(p) ==
    /\ evpc[p] \in {"ap_open", "ap_json"} =>
           /\ Loads
           /\ AL!Continues(load_event_log, draft[p][1])
           /\ draft[p][1].kind = "command"
    /\ evpc[p] \in {"ap_open", "ap_json", "ap_newline", "ap_unlock"} => Len(draft[p]) = 1
    /\ evpc[p] \in {"mg_lock", "mg_load", "mg_publish"} => Staged(draft[p])
    /\ evpc[p] = "mg_publish" => FileIsEmpty

evInv ==
    /\ evTypeOK
    /\ LockHeld
    /\ \A p \in Procs : Drafted(p)
    /\ ChainValid

\* As long as no write has failed.
Clean(p) ==
    /\ evpc[p] \in LockedControls \ {"ap_newline"} => tail = <<>>
    /\ evpc[p] = "ap_newline" => tail = draft[p]
    /\ evpc[p] = "ap_unlock" => lines # <<>> /\ lines[Len(lines)] = draft[p][1]
    /\ evpc[p] = "mg_unlock" => lines # <<>>
CleanInv ==
    faults = 0 =>
        /\ Parses
        /\ AckedDurable
        /\ evlock = NoProc => tail = <<>> /\ (created => lines # <<>>)
        /\ \A p \in Procs : Clean(p)

\* A reader that began while nobody held the lock, and now meets an event that
\* is about to be written or an empty log, has been overtaken by a draft.
Overtaken(p) ==
    /\ began[p].stamp <= stamp
    /\ /\ evpc[p] \in ReadControls
       /\ began[p].lock = NoProc
       /\ \/ \E q \in Procs : evpc[q] = "ap_open"
          \/ created /\ FileIsEmpty
          \/ evpc[p] = "stat_legacy_of_empty"
       => began[p].stamp < stamp
ReadInv == faults = 0 => \A p \in Procs : Overtaken(p)
-----------------------------------------------------------------------------
\* Sequences and hash chains.

Entries == AL!Event \cup {Garbage}

\* ChainValid of a given log.
Chain(log) ==
    \A i \in 1..Len(log) :
        log[i] # Garbage =>
            /\ log[i].sequence = i
            /\ i = 1 => log[i].previous = AL!Origin
            /\ i > 1 => log[i - 1] # Garbage /\ log[i].previous = log[i - 1].hash
Whole(log) == \A i \in 1..Len(log) : log[i] # Garbage

LEMMA ChainIs == ChainValid <=> Chain(load_event_log)
  BY DEF ChainValid, Chain

LEMMA ParsesIs == Parses <=> Whole(load_event_log)
  BY DEF Parses, Whole

\* A sequence and one more element.
LEMMA Snoc ==
    ASSUME NEW S, NEW s \in Seq(S), NEW x \in S
    PROVE  /\ s \o <<x>> \in Seq(S)
           /\ Len(s \o <<x>>) = Len(s) + 1
           /\ \A i \in 1..Len(s) : (s \o <<x>>)[i] = s[i]
           /\ (s \o <<x>>)[Len(s) + 1] = x
  OBVIOUS

LEMMA ConcatEmpty ==
    ASSUME NEW S, NEW s \in Seq(S)
    PROVE  s \o <<>> = s
  OBVIOUS

LEMMA AtMostOne == \A n \in Nat : n <= 1 => n = 0 \/ n = 1
  OBVIOUS

LEMMA Singleton ==
    ASSUME NEW S, NEW s \in Seq(S), Len(s) = 1
    PROVE  s[1] \in S /\ s = <<s[1]>>
<1>1. s[1] \in S
  BY ElementOfSeq
<1>2. s = <<s[1]>>
  BY <1>1, SeqEqual
<1> QED
  BY <1>1, <1>2

\* What follows the last newline.
LEMMA TailIs ==
    ASSUME NEW S, NEW t \in Seq(S), Len(t) <= 1
    PROVE  t = <<>> \/ (t[1] \in S /\ t = <<t[1]>>)
<1>1. CASE Len(t) = 0
  BY <1>1
<1>2. CASE Len(t) = 1
  BY <1>2
<1>3. Len(t) \in Nat
  OBVIOUS
<1>4. Len(t) = 0 \/ Len(t) = 1
  BY <1>3, AtMostOne
<1> QED
  BY <1>1, <1>2, <1>4, Zenon

\* The lines before the last newline are a chain if the whole file is one, and
\* stay one when garbage follows them.
LEMMA ChainOfLines ==
    ASSUME NEW l \in Seq(Entries), NEW t \in Seq(Entries), Len(t) <= 1, Chain(l \o t)
    PROVE  Chain(l)
<1>1. CASE t = <<>>
  BY <1>1, ConcatEmpty
<1>2. CASE t[1] \in Entries /\ t = <<t[1]>>
  BY <1>2, Snoc DEF Chain
<1> QED
  BY <1>1, <1>2, TailIs

LEMMA ChainOfGarbage ==
    ASSUME NEW l \in Seq(Entries), Chain(l)
    PROVE  Chain(l \o <<Garbage>>)
<1>1. Garbage \in Entries
  BY DEF Entries
<1> QED
  BY <1>1, Snoc DEF Chain

\* An event that continues a whole chain makes a whole chain.
LEMMA ChainOfEvent ==
    ASSUME NEW l \in Seq(Entries), NEW e \in AL!Event, Whole(l), Chain(l),
           AL!Continues(l, e)
    PROVE  Chain(l \o <<e>>) /\ Whole(l \o <<e>>)
<1>1. e \in Entries /\ e # Garbage
  BY GarbageAssumption DEF Entries
<1>2. Len(l) \in Nat /\ (l = <<>> <=> Len(l) = 0)
  OBVIOUS
<1>3. e.sequence = Len(l) + 1
      /\ e.previous = IF Len(l) = 0 THEN AL!Origin ELSE l[Len(l)].hash
  BY <1>2 DEF AL!Continues, AL!LastHash
<1>4. Whole(l \o <<e>>)
  BY <1>1, Snoc DEF Whole
<1>5. ASSUME NEW i \in 1..Len(l \o <<e>>)
      PROVE  /\ (l \o <<e>>)[i].sequence = i
             /\ i = 1 => (l \o <<e>>)[i].previous = AL!Origin
             /\ i > 1 => (l \o <<e>>)[i].previous = (l \o <<e>>)[i - 1].hash
  <2>1. CASE i \in 1..Len(l)
    <3>1. l[i] # Garbage /\ (i > 1 => i - 1 \in 1..Len(l))
      BY <1>2, <2>1 DEF Whole
    <3> QED
      BY <1>1, <2>1, <3>1, Snoc DEF Chain
  <2>2. CASE i = Len(l) + 1
    BY <1>1, <1>2, <1>3, <2>2, Snoc
  <2> QED
    BY <1>1, <1>2, <1>5, <2>1, <2>2, Snoc
<1>6. \A i \in 1..Len(l \o <<e>>) : i > 1 => i - 1 \in 1..Len(l \o <<e>>)
  BY <1>1, <1>2, Snoc
<1> QED
  BY <1>4, <1>5, <1>6 DEF Chain, Whole

\* A whole chain is what validate_event_log accepts.
LEMMA WholeChain ==
    ASSUME NEW l \in Seq(Entries), Whole(l)
    PROVE  Chain(l) <=> AL!ValidChain(l)
<1>1. \A i \in 1..Len(l) : i > 1 => i - 1 \in 1..Len(l)
  OBVIOUS
<1> QED
  BY <1>1 DEF Whole, Chain, AL!ValidChain

LEMMA EventsAreWhole ==
    ASSUME NEW l \in Seq(AL!Event)
    PROVE  l \in Seq(Entries) /\ Whole(l)
  BY GarbageAssumption DEF Entries, Whole

\* load_event_log accepts what is whole and chained.
LEMMA LoadsIs ==
    ASSUME evTypeOK
    PROVE  /\ load_event_log \in Seq(Entries)
           /\ Loads <=> Whole(load_event_log) /\ Chain(load_event_log)
<1>1. load_event_log \in Seq(Entries)
  BY DEF evTypeOK, load_event_log, Entries
<1> QED
  BY <1>1, WholeChain, ParsesIs DEF Loads
\* The staged events of a migration are a chain of their own.
LEMMA StagedIs ==
    ASSUME stamp \in Nat
    PROVE  /\ StagedMigration \in Seq(AL!Event)
           /\ Staged(StagedMigration)
           /\ stamp + ReplayEvents + 1 \in Nat
<1> DEFINE n == ReplayEvents + 1
<1>0. n \in Nat \ {0}
  BY ReplayAssumption
<1>1. ASSUME NEW i \in 1..n
      PROVE  StagedMigration[i] \in AL!Event
  BY <1>0, <1>1, ReplayAssumption DEF StagedMigration, AL!Event, AL!EventKinds, AL!Origin
<1>2. StagedMigration \in [1..n -> AL!Event]
  BY <1>1 DEF StagedMigration
<1>3. StagedMigration \in Seq(AL!Event) /\ Len(StagedMigration) = n
  BY <1>0, <1>2
<1>4. StagedMigration # <<>>
  BY <1>0, <1>3
<1>5. AL!ValidChain(StagedMigration)
  <2> SUFFICES ASSUME NEW i \in 1..n
               PROVE  /\ StagedMigration[i].sequence = i
                      /\ StagedMigration[i].previous =
                           IF i = 1 THEN AL!Origin ELSE StagedMigration[i - 1].hash
    BY <1>3 DEF AL!ValidChain
  <2>1. CASE i = 1
    BY <2>1, <1>0, ReplayAssumption DEF StagedMigration
  <2>2. CASE i # 1
    <3>1. i - 1 \in 1..n /\ stamp + i - 1 = stamp + (i - 1)
      BY <1>0, <2>2
    <3> QED
      BY <2>2, <3>1, <1>0, ReplayAssumption DEF StagedMigration
  <2> QED
    BY <2>1, <2>2
<1>6. \A i \in 1..n : StagedMigration[i].kind =
                        IF i = 1 THEN "migration_imported" ELSE "replay"
  BY ReplayAssumption DEF StagedMigration
<1> QED
  BY <1>0, <1>3, <1>4, <1>5, <1>6, ReplayAssumption DEF Staged

\* The envelope of the next event continues a log that loads.
LEMMA NextEnvelope ==
    ASSUME NEW log \in Seq(Entries), Whole(log), Chain(log), stamp \in Nat
    PROVE  /\ next_event_envelope(log, "command") \in AL!Event
           /\ AL!Continues(log, next_event_envelope(log, "command"))
           /\ next_event_envelope(log, "command").kind = "command"
<1> DEFINE e == next_event_envelope(log, "command")
<1>1. e.kind = "command" /\ e.hash = stamp + 1 /\ e.previous = AL!LastHash(log)
  BY DEF next_event_envelope
<1>2. Len(log) \in Nat /\ (log = <<>> <=> Len(log) = 0)
  OBVIOUS
<1>3. CASE log = <<>>
  BY <1>1, <1>2, <1>3 DEF next_event_envelope, AL!Event, AL!EventKinds, AL!LastHash,
                          AL!Origin, AL!Continues
<1>4. CASE log # <<>>
  <2>1. Len(log) \in 1..Len(log) /\ log[Len(log)] \in AL!Event
        /\ log[Len(log)].sequence = Len(log)
    BY <1>2, <1>4 DEF Whole, Chain, Entries
  <2>2. log[Len(log)].hash \in Nat
    BY <2>1 DEF AL!Event
  <2> QED
    BY <1>1, <1>2, <1>4, <2>1, <2>2
       DEF next_event_envelope, AL!Event, AL!EventKinds, AL!LastHash, AL!Continues
<1> QED
  BY <1>3, <1>4

-----------------------------------------------------------------------------
\* The steps of a process, in the two classes the proofs distinguish: those
\* that may change the file, and the others.
Writes(p) ==
    AppendJson(p) \/ AppendNewline(p) \/ MigrationPublish(p) \/ WriteFails(p) \/ evCrash(p)
Others(p) ==
    \/ BeginAppend(p) \/ acquire_event_log_lock(p, "ap_lock", "ap_load") \/ AppendLoad(p)
    \/ AppendOpen(p) \/ AppendUnlock(p) \/ PublishState(p) \/ BeginLoad(p) \/ StatEvents(p)
    \/ StatLegacy(p) \/ StageMigration(p) \/ acquire_event_log_lock(p, "mg_lock", "mg_load")
    \/ MigrationLoad(p) \/ MigrationUnlock(p) \/ ReadLog(p)

LEMMA StepIs == evNext <=> \E p \in Procs : Writes(p) \/ Others(p)
  BY DEF evNext, Writes, Others, AppendSteps, LoadSteps

\* A step of p moves p alone, along the arrows of its operation.
LEMMA StepMoves ==
    ASSUME evTypeOK, NEW p \in Procs, Writes(p) \/ Others(p)
    PROVE  \E to \in EvControls : evpc' = [evpc EXCEPT ![p] = to]
  BY DEF Writes, Others, BeginAppend, acquire_event_log_lock, AppendLoad, AppendOpen,
         AppendJson, AppendNewline, AppendUnlock, PublishState, WriteFails, BeginLoad,
         StatEvents, StatLegacy, StageMigration, MigrationLoad, MigrationPublish,
         MigrationUnlock, ReadLog, evCrash, evGoto, Return, EvControls, LockedControls, ReadControls

LEMMA TypeOther ==
    ASSUME evTypeOK, NEW p \in Procs, Others(p), Drafted(p)
    PROVE  evTypeOK'
  <1> USE DEF evTypeOK, evGoto, Return, EvControls, LockedControls, ReadControls, Results
  <1>1. CASE BeginAppend(p)
    BY <1>1 DEF BeginAppend
  <1>2. CASE AppendLoad(p)
    <2>1. CASE Loads
      <3>1. next_event_envelope(load_event_log, "command") \in AL!Event
        BY <2>1, LoadsIs, NextEnvelope
      <3>2. <<next_event_envelope(load_event_log, "command")>> \in Seq(AL!Event)
        BY <3>1
      <3>3. draft' \in [Procs -> Seq(AL!Event)]
        BY <1>2, <2>1, <3>2, Zenon DEF AppendLoad
      <3>4. /\ stamp' = stamp + 1 /\ evpc' = [evpc EXCEPT ![p] = "ap_open"]
            /\ UNCHANGED <<lines, tail, created, evlock, legacy, result, acked, began, reads,
                           killed, faults>>
        BY <1>2, <2>1, Zenon DEF AppendLoad
      <3> QED
        BY <3>3, <3>4
    <2>2. CASE ~Loads
      BY <1>2, <2>2 DEF AppendLoad
    <2> QED
      BY <2>1, <2>2
  <1>3. CASE acquire_event_log_lock(p, "ap_lock", "ap_load")
    BY <1>3 DEF acquire_event_log_lock
  <1>4. CASE AppendOpen(p)
    BY <1>4 DEF AppendOpen
  <1>5. CASE AppendUnlock(p)
    <2>1. draft[p] \in Seq(AL!Event) /\ Len(draft[p]) = 1
      BY <1>5 DEF AppendUnlock, Drafted
    <2>2. draft[p][1] \in AL!Event
      BY <2>1, Singleton, Zenon
    <2>3. draft[p][1].hash \in Nat
      BY <2>2 DEF AL!Event
    <2>4. acked' \subseteq Nat
      BY <1>5, <2>3 DEF AppendUnlock
    <2>5. draft' \in [Procs -> Seq(AL!Event)]
      BY <1>5 DEF AppendUnlock
    <2> QED
      BY <1>5, <2>4, <2>5 DEF AppendUnlock
  <1>6. CASE PublishState(p)
    BY <1>6 DEF PublishState
  <1>7. CASE BeginLoad(p)
    BY <1>7 DEF BeginLoad
  <1>8. CASE StatEvents(p)
    BY <1>8 DEF StatEvents
  <1>9. CASE StatLegacy(p)
    BY <1>9 DEF StatLegacy
  <1>10. CASE StageMigration(p)
    BY <1>10, StagedIs DEF StageMigration
  <1>11. CASE acquire_event_log_lock(p, "mg_lock", "mg_load")
    BY <1>11 DEF acquire_event_log_lock
  <1>12. CASE MigrationLoad(p)
    BY <1>12 DEF MigrationLoad
  <1>13. CASE MigrationUnlock(p)
    BY <1>13 DEF MigrationUnlock
  <1>14. CASE ReadLog(p)
    BY <1>14 DEF ReadLog
  <1> QED
    BY <1>1, <1>2, <1>3, <1>4, <1>5, <1>6, <1>7, <1>8, <1>9, <1>10, <1>11, <1>12, <1>13,
       <1>14 DEF Others
LEMMA GlueIs ==
    ASSUME evTypeOK, NEW e \in Entries
    PROVE  \E x \in Entries : Glue(e) = <<x>> /\ (tail = <<>> => x = e)
                              /\ (tail # <<>> => x = Garbage)
  BY DEF Glue, Entries

LEMMA TypeWrite ==
    ASSUME evTypeOK, NEW p \in Procs, Writes(p), Drafted(p)
    PROVE  evTypeOK'
  <1> USE DEF evTypeOK, evGoto, Return, EvControls, LockedControls, ReadControls, Results
  <1>1. CASE AppendJson(p)
    <2>1. draft[p] \in Seq(AL!Event) /\ Len(draft[p]) = 1
      BY <1>1 DEF AppendJson, Drafted
    <2>2. draft[p][1] \in Entries
      BY <2>1, Singleton DEF Entries
    <2>3. PICK x \in Entries : Glue(draft[p][1]) = <<x>>
      BY <2>2, GlueIs
    <2>4. tail' = <<x>>
      BY <1>1, <2>3, Zenon DEF AppendJson
    <2>5. tail' \in Seq(Entries) /\ Len(tail') <= 1
      BY <2>4
    <2>6. tail' \in Seq(AL!Event \cup {Garbage}) /\ Len(tail') <= 1
      BY <2>5, Zenon DEF Entries
    <2>7. /\ evpc' = [evpc EXCEPT ![p] = "ap_newline"]
          /\ UNCHANGED <<lines, created, evlock, legacy, draft, result, acked, stamp, began,
                         reads, killed, faults>>
      BY <1>1, Zenon DEF AppendJson
    <2> QED
      BY <2>6, <2>7
  <1>2. CASE AppendNewline(p)
    <2>1. lines' \in Seq(AL!Event \cup {Garbage})
      BY <1>2, ConcatProperties DEF AppendNewline
    <2> QED
      BY <1>2, <2>1 DEF AppendNewline
  <1>3. CASE MigrationPublish(p)
    <2>1. lines' \in Seq(AL!Event \cup {Garbage})
      BY <1>3, EventsAreWhole DEF MigrationPublish, Entries
    <2> QED
      BY <1>3, <2>1 DEF MigrationPublish
  <1>4. CASE WriteFails(p) \/ evCrash(p)
    <2>1. <<Garbage>> \in Seq(AL!Event \cup {Garbage}) /\ Len(<<Garbage>>) <= 1
      OBVIOUS
    <2>2. tail' = tail \/ tail' = <<Garbage>>
      BY <1>4 DEF WriteFails, evCrash
    <2>3. tail' \in Seq(AL!Event \cup {Garbage}) /\ Len(tail') <= 1
      BY <2>1, <2>2
    <2>4. draft' = [draft EXCEPT ![p] = <<>>]
      BY <1>4, Zenon DEF WriteFails, evCrash
    <2>5. draft' \in [Procs -> Seq(AL!Event)]
      BY <2>4
    <2>6. CASE WriteFails(p)
      BY <2>3, <2>5, <2>6 DEF WriteFails
    <2>7. CASE evCrash(p)
      BY <2>3, <2>5, <2>7 DEF evCrash
    <2> QED
      BY <1>4, <2>6, <2>7
  <1> QED
    BY <1>1, <1>2, <1>3, <1>4 DEF Writes

\* What a step of p does to the lock: nothing, take it when it is free, or give
\* back its own; or report an error without ever having had it.
LEMMA LockEffect ==
    ASSUME evTypeOK, NEW p \in Procs, Writes(p) \/ Others(p)
    PROVE  \/ evlock' = evlock /\ (evpc'[p] \in LockedControls => evpc[p] \in LockedControls)
           \/ evlock = NoProc /\ evlock' = p
           \/ /\ evlock' = NoProc /\ evpc'[p] \notin LockedControls
              /\ evlock = p \/ evpc[p] \in LockedControls
  BY DEF evTypeOK, Writes, Others, BeginAppend, acquire_event_log_lock, AppendLoad,
         AppendOpen, AppendJson, AppendNewline, AppendUnlock, PublishState, WriteFails,
         BeginLoad, StatEvents, StatLegacy, StageMigration, MigrationLoad, MigrationPublish,
         MigrationUnlock, ReadLog, evCrash, evGoto, Return, LockedControls

\* The lock has one holder at a time.
LEMMA LockStep ==
    ASSUME evTypeOK, LockHeld, NEW p \in Procs, Writes(p) \/ Others(p)
    PROVE  LockHeld'
<1> SUFFICES ASSUME NEW q \in Procs, evpc'[q] \in LockedControls PROVE evlock' = q
  BY DEF LockHeld
<1>1. CASE q = p
  BY <1>1, LockEffect, NoProcAssumption DEF LockHeld
<1>2. CASE q # p
  <2>1. evpc'[q] = evpc[q]
    BY <1>2, StepMoves DEF evTypeOK
  <2>2. evlock = q
    BY <2>1 DEF LockHeld
  <2> QED
    BY <1>2, <2>2, LockEffect, NoProcAssumption DEF LockHeld
<1> QED
  BY <1>1, <1>2
\* Only a process in its critical section changes the file.
LEMMA FileEffect ==
    ASSUME NEW p \in Procs, Writes(p) \/ Others(p)
    PROVE  UNCHANGED <<lines, tail>> \/ evpc[p] \in LockedControls
  BY DEF Writes, Others, BeginAppend, acquire_event_log_lock, AppendLoad,
         AppendOpen, AppendJson, AppendNewline, AppendUnlock, PublishState, WriteFails,
         BeginLoad, StatEvents, StatLegacy, StageMigration, MigrationLoad, MigrationPublish,
         MigrationUnlock, ReadLog, evCrash, evGoto, LockedControls

\* A step of p leaves the draft of another process alone.
LEMMA DraftEffect ==
    ASSUME evTypeOK, NEW p \in Procs, Writes(p) \/ Others(p), NEW q \in Procs, q # p
    PROVE  draft'[q] = draft[q] /\ evpc'[q] = evpc[q]
<1>1. \E d : draft' = [draft EXCEPT ![p] = d] \/ draft' = draft
  BY Zenon DEF Writes, Others, BeginAppend, acquire_event_log_lock, AppendLoad,
         AppendOpen, AppendJson, AppendNewline, AppendUnlock, PublishState, WriteFails,
         BeginLoad, StatEvents, StatLegacy, StageMigration, MigrationLoad, MigrationPublish,
         MigrationUnlock, ReadLog, evCrash
<1>2. draft'[q] = draft[q]
  BY <1>1 DEF evTypeOK
<1> QED
  BY <1>2, StepMoves DEF evTypeOK

\* The same file reads the same.
LEMMA SameFile ==
    ASSUME UNCHANGED <<lines, tail>>
    PROVE  /\ load_event_log' = load_event_log
           /\ Loads' <=> Loads
           /\ Parses' <=> Parses
           /\ FileIsEmpty' <=> FileIsEmpty
           /\ ChainValid' <=> ChainValid
<1>1. load_event_log' = load_event_log
  BY DEF load_event_log
<1>2. Parses' <=> Parses
  BY <1>1 DEF Parses
<1>3. Loads' <=> Loads
  BY <1>1, <1>2 DEF Loads, AL!ValidChain, AL!Origin
<1>4. ChainValid' <=> ChainValid
  BY <1>1 DEF ChainValid, AL!Origin
<1> QED
  BY <1>1, <1>2, <1>3, <1>4 DEF FileIsEmpty

\* What a process has drafted survives the steps of the others, ...
LEMMA DraftOfOther ==
    ASSUME evInv, NEW p \in Procs, Writes(p) \/ Others(p), NEW q \in Procs, q # p
    PROVE  Drafted(q)'
<1>1. draft'[q] = draft[q] /\ evpc'[q] = evpc[q] /\ Drafted(q)
  BY DraftEffect DEF evInv
<1>2. CASE evpc[q] \in LockedControls
  <2>1. UNCHANGED <<lines, tail>>
    BY <1>2, FileEffect DEF evInv, LockHeld
  <2> QED
    BY <1>1, <2>1, SameFile DEF Drafted, AL!Continues, AL!LastHash, Staged, AL!ValidChain
<1>3. CASE evpc[q] \notin LockedControls
  <2>1. evpc'[q] \notin {"ap_open", "ap_json", "ap_newline", "ap_unlock", "mg_load", "mg_publish"}
    BY <1>1, <1>3 DEF LockedControls
  <2>2. evpc'[q] = "mg_lock" => Staged(draft'[q])
    BY <1>1 DEF Drafted
  <2> QED
    BY <2>1, <2>2 DEF Drafted, Staged, AL!ValidChain
<1> QED
  BY <1>2, <1>3

\* ... and is what it should be when the process moves.
LEMMA DraftOfSelf ==
    ASSUME evInv, NEW p \in Procs, Writes(p) \/ Others(p)
    PROVE  Drafted(p)'
<1>0. evTypeOK /\ Drafted(p) /\ p \in DOMAIN evpc /\ p \in DOMAIN draft
  BY DEF evInv, evTypeOK
<1>1. CASE AppendLoad(p)
  <2>1. CASE Loads
    <3> DEFINE e == next_event_envelope(load_event_log, "command")
    <3>1. e \in AL!Event /\ AL!Continues(load_event_log, e) /\ e.kind = "command"
      BY <1>0, <2>1, LoadsIs, NextEnvelope DEF evTypeOK
    <3>2. /\ draft' = [draft EXCEPT ![p] = <<e>>] /\ evpc' = [evpc EXCEPT ![p] = "ap_open"]
          /\ UNCHANGED <<lines, tail>>
      BY <1>1, <2>1, Zenon DEF AppendLoad, evGoto
    <3> HIDE DEF e
    <3>3. draft'[p] = <<e>> /\ evpc'[p] = "ap_open"
      BY <1>0, <3>2
    <3>4. draft'[p][1] = e /\ Len(draft'[p]) = 1
      BY <3>3
    <3>5. Loads' /\ load_event_log' = load_event_log
      BY <2>1, <3>2, SameFile
    <3> QED
      BY <3>1, <3>3, <3>4, <3>5 DEF Drafted, AL!Continues, AL!LastHash
  <2>2. CASE ~Loads
    <3>1. evpc'[p] = "idle"
      BY <1>0, <1>1, <2>2 DEF AppendLoad, Return
    <3> QED
      BY <3>1 DEF Drafted
  <2> QED
    BY <2>1, <2>2
<1>2. CASE AppendOpen(p)
  <2>1. evpc[p] = "ap_open" /\ evpc'[p] = "ap_json" /\ UNCHANGED <<lines, tail, draft>>
    BY <1>0, <1>2 DEF AppendOpen, evGoto
  <2> QED
    BY <1>0, <2>1, SameFile DEF Drafted, AL!Continues, AL!LastHash
<1>3. CASE AppendJson(p)
  <2>1. evpc[p] = "ap_json" /\ evpc'[p] = "ap_newline" /\ UNCHANGED draft
    BY <1>0, <1>3 DEF AppendJson, evGoto
  <2> QED
    BY <1>0, <2>1 DEF Drafted
<1>4. CASE AppendNewline(p)
  <2>1. evpc[p] = "ap_newline" /\ evpc'[p] = "ap_unlock" /\ UNCHANGED draft
    BY <1>0, <1>4 DEF AppendNewline, evGoto
  <2> QED
    BY <1>0, <2>1 DEF Drafted
<1>5. CASE StageMigration(p)
  <2>1. evpc'[p] = "mg_lock" /\ draft'[p] = StagedMigration
    BY <1>0, <1>5 DEF StageMigration, evGoto
  <2>2. Staged(draft'[p])
    BY <1>0, <2>1, StagedIs DEF evTypeOK
  <2> QED
    BY <2>1, <2>2 DEF Drafted, Staged, AL!ValidChain
<1>6. CASE acquire_event_log_lock(p, "mg_lock", "mg_load")
  <2>1. evpc[p] = "mg_lock" /\ evpc'[p] \in {"mg_load", "idle"} /\ UNCHANGED draft
    BY <1>0, <1>6 DEF acquire_event_log_lock, evGoto, Return
  <2> QED
    BY <1>0, <2>1 DEF Drafted, Staged, AL!ValidChain
<1>7. CASE MigrationLoad(p)
  <2>1. /\ evpc[p] = "mg_load" /\ evpc'[p] \in {"mg_publish", "mg_unlock", "idle"}
        /\ evpc'[p] = "mg_publish" => load_event_log = <<>>
        /\ UNCHANGED <<draft, lines, tail>>
    BY <1>0, <1>7 DEF MigrationLoad, evGoto, Return
  <2>2. load_event_log = <<>> => FileIsEmpty
    BY <1>0, ConcatEqualIffEmpty DEF evTypeOK, load_event_log, FileIsEmpty
  <2> QED
    BY <1>0, <2>1, <2>2, SameFile DEF Drafted, Staged, AL!ValidChain
<1>8. CASE ~(\/ AppendLoad(p) \/ AppendOpen(p) \/ AppendJson(p) \/ AppendNewline(p)
             \/ StageMigration(p) \/ acquire_event_log_lock(p, "mg_lock", "mg_load")
             \/ MigrationLoad(p))
  <2>1. evpc'[p] \notin {"ap_open", "ap_json", "ap_newline", "ap_unlock", "mg_lock",
                       "mg_load", "mg_publish"}
    BY <1>0, <1>8 DEF Writes, Others, BeginAppend, acquire_event_log_lock, AppendUnlock,
           PublishState, WriteFails, BeginLoad, StatEvents, StatLegacy, MigrationPublish,
           MigrationUnlock, ReadLog, evCrash, evGoto, Return
  <2> QED
    BY <2>1 DEF Drafted
<1> QED
  BY <1>1, <1>2, <1>3, <1>4, <1>5, <1>6, <1>7, <1>8

\* The file stays a hash chain with garbage at its end at most, whatever write
\* fails and whoever is killed.
LEMMA ChainStep ==
    ASSUME evInv, NEW p \in Procs, Writes(p) \/ Others(p)
    PROVE  ChainValid'
<1>0. /\ evTypeOK /\ Drafted(p) /\ Chain(load_event_log)
      /\ lines \in Seq(Entries) /\ tail \in Seq(Entries) /\ Len(tail) <= 1
      /\ load_event_log = lines \o tail
  BY ChainIs DEF evInv, evTypeOK, Entries, load_event_log
<1>1. Chain(lines)
  BY <1>0, ChainOfLines, Zenon
<1>2. CASE UNCHANGED <<lines, tail>>
  BY <1>2, SameFile DEF evInv
<1>3. CASE lines' = lines /\ tail' = <<Garbage>>
  <2>1. load_event_log' = lines \o <<Garbage>>
    BY <1>3 DEF load_event_log
  <2> QED
    BY <1>0, <1>1, <2>1, ChainOfGarbage DEF ChainValid, Chain, AL!Origin
<1>4. CASE AppendJson(p)
  <2>1. Loads /\ AL!Continues(load_event_log, draft[p][1]) /\ Len(draft[p]) = 1
    BY <1>0, <1>4 DEF AppendJson, evGoto, Drafted
  <2>2. draft[p][1] \in AL!Event
    BY <1>0, <2>1, Singleton DEF evTypeOK
  <2>3. CASE tail = <<>>
    <3>1. load_event_log = lines
      BY <1>0, <2>3, ConcatEmpty
    <3>2. Whole(lines) /\ AL!Continues(lines, draft[p][1])
      BY <1>0, <2>1, <3>1, LoadsIs
    <3>3. load_event_log' = lines \o <<draft[p][1]>>
      BY <1>4, <2>3, Zenon DEF AppendJson, load_event_log, Glue
    <3>4. Chain(lines \o <<draft[p][1]>>)
      BY <1>0, <1>1, <2>2, <3>2, ChainOfEvent
    <3> QED
      BY <3>3, <3>4 DEF ChainValid, Chain, AL!Origin
  <2>4. CASE tail # <<>>
    BY <1>3, <1>4, <2>4, Zenon DEF AppendJson, Glue
  <2> QED
    BY <2>3, <2>4
<1>5. CASE AppendNewline(p)
  <2>1. load_event_log' = (lines \o tail) \o <<>>
    BY <1>5, Zenon DEF AppendNewline, load_event_log
  <2>2. load_event_log' = load_event_log
    BY <1>0, <2>1, ConcatProperties, ConcatEmpty, Zenon
  <2> QED
    BY <1>0, <2>2 DEF ChainValid, Chain, AL!Origin
<1>6. CASE MigrationPublish(p)
  <2>1. draft[p] \in Seq(AL!Event) /\ AL!ValidChain(draft[p])
    BY <1>0, <1>6 DEF MigrationPublish, evGoto, Drafted, Staged, evTypeOK
  <2>2. load_event_log' = draft[p] \o <<>>
    BY <1>6, Zenon DEF MigrationPublish, load_event_log
  <2>3. Chain(draft[p]) /\ load_event_log' = draft[p]
    BY <2>1, <2>2, EventsAreWhole, WholeChain, ConcatEmpty
  <2> QED
    BY <2>3 DEF ChainValid, Chain, AL!Origin
<1>7. CASE WriteFails(p) \/ evCrash(p)
  BY <1>2, <1>3, <1>7 DEF WriteFails, evCrash
<1>8. CASE Others(p)
  BY <1>2, <1>8, Zenon DEF Others, BeginAppend, acquire_event_log_lock, AppendLoad,
         AppendOpen, AppendUnlock, PublishState, BeginLoad, StatEvents, StatLegacy,
         StageMigration, MigrationLoad, MigrationUnlock, ReadLog
<1> QED
  BY <1>4, <1>5, <1>6, <1>7, <1>8 DEF Writes

-----------------------------------------------------------------------------
\* The invariant of the log, whatever writes fail.
THEOREM LogInvariance == evSpec => []evInv
<1>1. evInit => evInv
  <2> SUFFICES ASSUME evInit PROVE evInv
    OBVIOUS
  <2>1. evTypeOK
    <3>1. /\ lines \in Seq(AL!Event \cup {Garbage}) /\ tail \in Seq(AL!Event \cup {Garbage})
          /\ Len(tail) <= 1
      BY DEF evInit
    <3>2. draft \in [Procs -> Seq(AL!Event)] /\ result \in [Procs -> Results]
          /\ evpc \in [Procs -> EvControls]
      BY DEF evInit, EvControls, Results
    <3>3. began \in [Procs -> [lock : Procs \cup {NoProc}, stamp : Nat]]
      BY DEF evInit
    <3>4. /\ created \in BOOLEAN /\ legacy \in BOOLEAN /\ evlock \in Procs \cup {NoProc}
          /\ acked \subseteq Nat /\ stamp \in Nat
          /\ reads \in Nat /\ faults \in Nat
      BY DEF evInit
    <3>5. killed \in Seq(Procs \cup {NoProc})
      BY DEF evInit
    <3> QED
      BY <3>1, <3>2, <3>3, <3>4, <3>5 DEF evTypeOK
  <2>2. \A p \in Procs : evpc[p] = "idle"
    BY DEF evInit
  <2>3. load_event_log = <<>>
    BY DEF evInit, load_event_log
  <2> QED
    BY <2>1, <2>2, <2>3 DEF evInv, LockHeld, LockedControls, Drafted, ChainValid
<1>2. evInv /\ [evNext]_evVars => evInv'
  <2> SUFFICES ASSUME evInv, [evNext]_evVars PROVE evInv'
    OBVIOUS
  <2>1. CASE UNCHANGED evVars
    <3>1. evTypeOK' /\ LockHeld'
      BY <2>1 DEF evVars, evInv, evTypeOK, LockHeld
    <3>2. ASSUME NEW p \in Procs PROVE Drafted(p)'
      BY <2>1, SameFile DEF evVars, evInv, Drafted, AL!Continues, AL!LastHash, Staged,
                            AL!ValidChain
    <3>3. ChainValid'
      BY <2>1, SameFile DEF evVars, evInv
    <3> QED
      BY <3>1, <3>2, <3>3 DEF evInv
  <2>2. ASSUME NEW p \in Procs, Writes(p) \/ Others(p) PROVE evInv'
    <3>1. evTypeOK' /\ LockHeld'
      BY <2>2, TypeWrite, TypeOther, LockStep DEF evInv
    <3>2. ASSUME NEW q \in Procs PROVE Drafted(q)'
      BY <2>2, DraftOfSelf, DraftOfOther
    <3> QED
      BY <2>2, <3>1, <3>2, ChainStep DEF evInv
  <2> QED
    BY <2>1, <2>2, StepIs
<1> QED
  BY <1>1, <1>2, PTL DEF evSpec

\* Every entry of events.jsonl that parses is in its place in the hash chain,
\* for any number of failed and torn writes, crashes and migrations.
THEOREM ChainHolds == evSpec => []ChainValid
<1>1. evInv => ChainValid
  BY DEF evInv
<1> QED
  BY <1>1, LogInvariance, PTL
-----------------------------------------------------------------------------
\* Until a write fails.

\* A step after which no write has failed is no failure, and tears nothing.
LEMMA FaultFree ==
    ASSUME evTypeOK, NEW p \in Procs, Writes(p) \/ Others(p), faults' = 0
    PROVE  faults = 0 /\ ~WriteFails(p) /\ (evCrash(p) => UNCHANGED <<lines, tail, created>>)
<1>1. ~WriteFails(p) /\ (evCrash(p) => UNCHANGED <<lines, tail, created, faults>>)
  BY DEF evTypeOK, WriteFails, evCrash
<1>2. CASE ~(WriteFails(p) \/ evCrash(p))
  BY <1>2, Zenon DEF Writes, Others, BeginAppend, acquire_event_log_lock, AppendLoad,
         AppendOpen, AppendJson, AppendNewline, AppendUnlock, PublishState,
         BeginLoad, StatEvents, StatLegacy, StageMigration, MigrationLoad, MigrationPublish,
         MigrationUnlock, ReadLog
<1> QED
  BY <1>1, <1>2

\* The steps that change the file or create it, when no write has failed.
LEMMA CleanEffect ==
    ASSUME evTypeOK, NEW p \in Procs, Writes(p) \/ Others(p), faults' = 0
    PROVE  \/ UNCHANGED <<lines, tail, created>>
           \/ AppendOpen(p) \/ AppendJson(p) \/ AppendNewline(p) \/ MigrationPublish(p)
<1>1. CASE WriteFails(p) \/ evCrash(p)
  BY <1>1, FaultFree
<1>2. CASE ~(WriteFails(p) \/ evCrash(p))
  BY <1>2, Zenon DEF Writes, Others, BeginAppend, acquire_event_log_lock, AppendLoad,
         AppendUnlock, PublishState, BeginLoad, StatEvents, StatLegacy, StageMigration,
         MigrationLoad, MigrationUnlock, ReadLog
<1> QED
  BY <1>1, <1>2

\* What the three writes do to a clean file.
LEMMA CleanJson ==
    ASSUME evInv, CleanInv, faults = 0, NEW p \in Procs, AppendJson(p)
    PROVE  /\ tail = <<>> /\ load_event_log = lines /\ lines' = lines
           /\ draft[p][1] \in AL!Event /\ draft[p] = <<draft[p][1]>>
           /\ tail' = draft[p]
           /\ load_event_log' = lines \o <<draft[p][1]>>
           /\ Whole(lines) /\ Chain(lines)
           /\ AL!Continues(lines, draft[p][1]) /\ draft[p][1].kind = "command"
<1>0. evTypeOK /\ Drafted(p) /\ evpc[p] = "ap_json" /\ lines \in Seq(Entries)
  BY DEF AppendJson, evGoto, evInv, evTypeOK, Entries
<1>1. tail = <<>>
  BY <1>0 DEF CleanInv, Clean, LockedControls
<1>2. load_event_log = lines
  BY <1>0, <1>1, ConcatEmpty DEF load_event_log
<1>3. draft[p] \in Seq(AL!Event) /\ Len(draft[p]) = 1
  BY <1>0 DEF Drafted, evTypeOK
<1>4. draft[p][1] \in AL!Event /\ draft[p] = <<draft[p][1]>>
  BY <1>3, Singleton, Zenon
<1>5. tail' = <<draft[p][1]>> /\ lines' = lines
  BY <1>1, Zenon DEF AppendJson, Glue
<1>6. load_event_log' = lines \o <<draft[p][1]>>
  BY <1>5, Zenon DEF load_event_log
<1>7. /\ Whole(lines) /\ Chain(lines)
      /\ AL!Continues(lines, draft[p][1]) /\ draft[p][1].kind = "command"
  BY <1>0, <1>2, LoadsIs DEF Drafted
<1> QED
  BY <1>1, <1>2, <1>4, <1>5, <1>6, <1>7, Zenon

LEMMA CleanNewline ==
    ASSUME evInv, CleanInv, faults = 0, NEW p \in Procs, AppendNewline(p)
    PROVE  /\ draft[p][1] \in AL!Event /\ tail = <<draft[p][1]>> /\ tail = draft[p]
           /\ lines' = lines \o <<draft[p][1]>> /\ tail' = <<>>
           /\ load_event_log' = load_event_log
<1>0. /\ evTypeOK /\ Drafted(p) /\ evpc[p] = "ap_newline"
      /\ lines \in Seq(Entries) /\ tail \in Seq(Entries)
  BY DEF AppendNewline, evGoto, evInv, evTypeOK, Entries
<1>1. tail = draft[p]
  BY <1>0 DEF CleanInv, Clean
<1>2. draft[p] \in Seq(AL!Event) /\ Len(draft[p]) = 1
  BY <1>0 DEF Drafted, evTypeOK
<1>3. draft[p][1] \in AL!Event /\ draft[p] = <<draft[p][1]>>
  BY <1>2, Singleton, Zenon
<1>4. lines' = lines \o tail /\ tail' = <<>>
  BY DEF AppendNewline
<1>5. lines \o tail \in Seq(Entries)
  BY <1>0, ConcatProperties, Zenon
<1>6. load_event_log' = (lines \o tail) \o <<>>
  BY <1>4, Zenon DEF load_event_log
<1>7. load_event_log' = load_event_log
  BY <1>5, <1>6, ConcatEmpty, Zenon DEF load_event_log
<1> QED
  BY <1>1, <1>3, <1>4, <1>7, Zenon

LEMMA CleanPublish ==
    ASSUME evInv, NEW p \in Procs, MigrationPublish(p)
    PROVE  /\ lines = <<>> /\ tail = <<>> /\ load_event_log = <<>>
           /\ draft[p] \in Seq(AL!Event) /\ Staged(draft[p])
           /\ lines' = draft[p] /\ tail' = <<>> /\ load_event_log' = draft[p]
<1>0. evTypeOK /\ Drafted(p) /\ evpc[p] = "mg_publish" /\ draft[p] \in Seq(AL!Event)
  BY DEF MigrationPublish, evGoto, evInv, evTypeOK
<1>1. lines = <<>> /\ tail = <<>> /\ Staged(draft[p])
  BY <1>0 DEF Drafted, FileIsEmpty
<1>2. load_event_log = <<>>
  BY <1>1 DEF load_event_log
<1>3. lines' = draft[p] /\ tail' = <<>>
  BY DEF MigrationPublish
<1>4. load_event_log' = draft[p]
  BY <1>0, <1>3, ConcatEmpty DEF load_event_log
<1> QED
  BY <1>0, <1>1, <1>2, <1>3, <1>4

\* A log without garbage stays without.
LEMMA ParsesStep ==
    ASSUME evInv, CleanInv, NEW p \in Procs, Writes(p) \/ Others(p), faults' = 0
    PROVE  Parses'
<1>0. evTypeOK /\ faults = 0 /\ Parses /\ lines \in Seq(Entries)
  BY FaultFree DEF evInv, CleanInv, evTypeOK, Entries
<1>1. CASE UNCHANGED <<lines, tail>>
  BY <1>0, <1>1, SameFile
<1>2. CASE AppendJson(p)
  <2>1. Whole(lines \o <<draft[p][1]>>) /\ load_event_log' = lines \o <<draft[p][1]>>
    BY <1>0, <1>2, CleanJson, ChainOfEvent
  <2> QED
    BY <2>1 DEF Parses, Whole
<1>3. CASE AppendNewline(p)
  BY <1>0, <1>3, CleanNewline DEF Parses
<1>4. CASE MigrationPublish(p)
  <2>1. Whole(draft[p]) /\ load_event_log' = draft[p]
    BY <1>4, CleanPublish, EventsAreWhole
  <2> QED
    BY <2>1 DEF Parses, Whole
<1> QED
  BY <1>0, <1>1, <1>2, <1>3, <1>4, CleanEffect DEF AppendOpen

\* No complete line is lost.
LEMMA AckedStep ==
    ASSUME evInv, CleanInv, NEW p \in Procs, Writes(p) \/ Others(p), faults' = 0
    PROVE  AckedDurable'
<1>0. evTypeOK /\ faults = 0 /\ AckedDurable /\ lines \in Seq(Entries)
  BY FaultFree DEF evInv, CleanInv, evTypeOK, Entries
<1>1. CASE AppendUnlock(p)
  <2>1. /\ acked' = acked \cup {draft[p][1].hash} /\ lines' = lines
        /\ evpc[p] = "ap_unlock"
    BY <1>1 DEF AppendUnlock
  <2>2. lines # <<>> /\ lines[Len(lines)] = draft[p][1] /\ Len(draft[p]) = 1
    BY <1>0, <2>1 DEF CleanInv, Clean, evInv, Drafted
  <2>3. draft[p] \in Seq(AL!Event)
    BY <1>0 DEF evTypeOK
  <2>4. draft[p][1] # Garbage
    BY <2>2, <2>3, Singleton, GarbageAssumption, Zenon
  <2>5. Len(lines) \in 1..Len(lines)
    BY <1>0, <2>2
  <2> QED
    BY <1>0, <2>1, <2>2, <2>4, <2>5, Zenon DEF AckedDurable
<1>2. acked' = acked \/ AppendUnlock(p)
  BY Zenon DEF Writes, Others, BeginAppend, acquire_event_log_lock, AppendLoad,
         AppendOpen, AppendJson, AppendNewline, AppendUnlock, PublishState, WriteFails,
         BeginLoad, StatEvents, StatLegacy, StageMigration, MigrationLoad, MigrationPublish,
         MigrationUnlock, ReadLog, evCrash
<1>3. CASE acked' = acked /\ lines' = lines
  BY <1>0, <1>3 DEF AckedDurable
<1>4. CASE acked' = acked /\ AppendNewline(p)
  <2>1. draft[p][1] \in Entries /\ lines' = lines \o <<draft[p][1]>>
    BY <1>0, <1>4, CleanNewline DEF Entries
  <2>2. /\ \A i \in 1..Len(lines) : i \in 1..Len(lines') /\ lines'[i] = lines[i]
    BY <1>0, <2>1, Snoc
  <2> QED
    BY <1>0, <1>4, <2>2 DEF AckedDurable
<1>5. CASE acked' = acked /\ MigrationPublish(p)
  <2>1. lines = <<>>
    BY <1>5, CleanPublish
  <2>2. acked = {}
    BY <1>0, <2>1 DEF AckedDurable
  <2> QED
    BY <1>5, <2>2 DEF AckedDurable
<1> QED
  BY <1>0, <1>1, <1>2, <1>3, <1>4, <1>5, CleanEffect, CleanJson DEF AppendOpen
\* A log that nobody holds has no unterminated event and, once it was created,
\* is not empty.
LEMMA FreeLogStep ==
    ASSUME evInv, CleanInv, NEW p \in Procs, Writes(p) \/ Others(p), faults' = 0,
           evlock' = NoProc
    PROVE  tail' = <<>> /\ (created' => lines' # <<>>)
<1>0. evTypeOK /\ faults = 0 /\ LockHeld /\ Clean(p) /\ Loads
  <2>1. evTypeOK /\ faults = 0 /\ LockHeld /\ Clean(p) /\ Parses /\ ChainValid
    BY FaultFree DEF evInv, CleanInv
  <2> QED
    BY <2>1, LoadsIs, ChainIs, ParsesIs
<1>1. CASE evpc[p] \notin LockedControls
  <2>1. UNCHANGED <<lines, tail, created>>
    BY <1>0, <1>1, CleanEffect
       DEF AppendOpen, AppendJson, AppendNewline, MigrationPublish, evGoto, LockedControls
  <2>2. evlock = NoProc \/ evlock = p
    BY <1>1, LockEffect, <1>0
  <2>3. evlock = p => FALSE
    <3>1. ASSUME evlock = p PROVE FALSE
      BY <1>0, <1>1, <3>1, FaultFree, NoProcAssumption
         DEF Writes, Others, BeginAppend, acquire_event_log_lock, AppendLoad,
             AppendOpen, AppendJson, AppendNewline, AppendUnlock, PublishState,
             BeginLoad, StatEvents, StatLegacy, StageMigration, MigrationLoad,
             MigrationPublish, MigrationUnlock, ReadLog, evCrash, evGoto, LockedControls
    <3> QED
      BY <3>1
  <2> QED
    BY <1>0, <2>1, <2>2, <2>3 DEF CleanInv
<1>2. CASE evpc[p] \in LockedControls
  <2>1. evlock = p /\ p # NoProc
    BY <1>0, <1>2, NoProcAssumption DEF LockHeld
  <2>2. AppendUnlock(p) \/ MigrationUnlock(p)
    BY <1>0, <2>1, FaultFree
       DEF Writes, Others, BeginAppend, acquire_event_log_lock, AppendLoad,
           AppendOpen, AppendJson, AppendNewline, PublishState,
           BeginLoad, StatEvents, StatLegacy, StageMigration, MigrationLoad,
           MigrationPublish, ReadLog, evCrash
  <2>3. /\ evpc[p] \in {"ap_unlock", "mg_unlock"} /\ UNCHANGED <<lines, tail>>
    BY <2>2 DEF AppendUnlock, MigrationUnlock, evGoto
  <2> QED
    BY <1>0, <1>2, <2>3 DEF Clean
<1> QED
  BY <1>1, <1>2

\* The clean file of a writer is not touched by the others ...
LEMMA CleanOther ==
    ASSUME evInv, CleanInv, NEW p \in Procs, Writes(p) \/ Others(p), faults' = 0,
           NEW q \in Procs, q # p
    PROVE  Clean(q)'
<1>1. faults = 0 /\ Clean(q) /\ draft'[q] = draft[q] /\ evpc'[q] = evpc[q]
  BY FaultFree, DraftEffect DEF evInv, CleanInv
<1>2. CASE evpc[q] \in LockedControls
  <2>1. UNCHANGED <<lines, tail>>
    BY <1>2, FileEffect DEF evInv, LockHeld
  <2> QED
    BY <1>1, <2>1 DEF Clean
<1>3. CASE evpc[q] \notin LockedControls
  BY <1>1, <1>3 DEF Clean, LockedControls
<1> QED
  BY <1>2, <1>3

\* ... and is what it should be when the writer moves.
LEMMA CleanSelf ==
    ASSUME evInv, CleanInv, NEW p \in Procs, Writes(p) \/ Others(p), faults' = 0
    PROVE  Clean(p)'
<1>0. /\ evTypeOK /\ faults = 0 /\ Clean(p) /\ Drafted(p) /\ lines \in Seq(Entries)
      /\ evpc[p] \in EvControls
      /\ \A to : evpc' = [evpc EXCEPT ![p] = to] => evpc'[p] = to
  BY FaultFree DEF evInv, CleanInv, evTypeOK, Entries
<1>1. CASE AppendJson(p)
  <2>1. tail' = draft[p] /\ draft' = draft /\ evpc'[p] = "ap_newline"
    BY <1>0, <1>1, CleanJson DEF AppendJson, evGoto
  <2> QED
    BY <2>1 DEF Clean
<1>2. CASE AppendNewline(p)
  <2>1. /\ draft[p][1] \in Entries /\ lines' = lines \o <<draft[p][1]>> /\ tail' = <<>>
    BY <1>0, <1>2, CleanNewline DEF Entries
  <2>2. draft' = draft /\ evpc'[p] = "ap_unlock"
    BY <1>0, <1>2 DEF AppendNewline, evGoto
  <2>3. Len(lines') = Len(lines) + 1 /\ lines'[Len(lines) + 1] = draft[p][1]
    BY <1>0, <2>1, Snoc
  <2>4. Len(lines) \in Nat /\ Len(<<>>) = 0
    BY <1>0
  <2>5. lines' # <<>>
    BY <2>3, <2>4
  <2> QED
    BY <2>1, <2>2, <2>3, <2>5 DEF Clean
<1>3. CASE MigrationPublish(p)
  <2>1. evpc'[p] = "mg_unlock"
    BY <1>0, <1>3 DEF MigrationPublish, evGoto
  <2>2. lines' # <<>> /\ tail' = <<>>
    BY <1>3, CleanPublish DEF Staged
  <2> QED
    BY <2>1, <2>2 DEF Clean
<1>4. CASE MigrationLoad(p)
  <2>1. /\ evpc[p] = "mg_load" /\ UNCHANGED <<lines, tail>>
        /\ evpc'[p] \in {"mg_publish", "mg_unlock", "idle"}
        /\ evpc'[p] = "mg_unlock" => load_event_log # <<>>
    BY <1>0, <1>4 DEF MigrationLoad, evGoto, Return
  <2>2. tail = <<>>
    BY <1>0, <2>1 DEF Clean, LockedControls
  <2>3. load_event_log = lines
    BY <1>0, <2>2, ConcatEmpty DEF load_event_log
  <2> QED
    BY <2>1, <2>2, <2>3 DEF Clean
<1>5. CASE \/ acquire_event_log_lock(p, "ap_lock", "ap_load")
           \/ acquire_event_log_lock(p, "mg_lock", "mg_load")
  <2>1. /\ UNCHANGED <<lines, tail>>
        /\ \/ evlock = NoProc /\ evpc'[p] \in {"ap_load", "mg_load"}
           \/ evpc'[p] = "idle"
    BY <1>0, <1>5 DEF acquire_event_log_lock, evGoto, Return
  <2> QED
    BY <1>0, <2>1 DEF CleanInv, Clean, LockedControls
<1>6. CASE AppendLoad(p) \/ AppendOpen(p)
  <2>1. /\ UNCHANGED <<lines, tail>> /\ evpc[p] \in {"ap_load", "ap_open"}
        /\ evpc'[p] \in {"ap_open", "ap_json", "idle"}
    BY <1>0, <1>6 DEF AppendLoad, AppendOpen, evGoto, Return
  <2> QED
    BY <1>0, <2>1 DEF Clean, LockedControls
<1>7. CASE ~(\/ AppendJson(p) \/ AppendNewline(p) \/ MigrationPublish(p) \/ MigrationLoad(p)
             \/ acquire_event_log_lock(p, "ap_lock", "ap_load")
             \/ acquire_event_log_lock(p, "mg_lock", "mg_load")
             \/ AppendLoad(p) \/ AppendOpen(p))
  <2>1. evpc'[p] \notin LockedControls
    BY <1>0, <1>7, FaultFree
       DEF Writes, Others, BeginAppend, AppendUnlock, PublishState,
           BeginLoad, StatEvents, StatLegacy, StageMigration, MigrationUnlock, ReadLog, evCrash,
           evGoto, Return, LockedControls
  <2> QED
    BY <2>1 DEF Clean, LockedControls
<1> QED
  BY <1>1, <1>2, <1>3, <1>4, <1>5, <1>6, <1>7

LEMMA CleanStep ==
    ASSUME evInv, CleanInv, [evNext]_evVars
    PROVE  CleanInv'
<1> SUFFICES ASSUME faults' = 0
             PROVE  /\ Parses'
                    /\ AckedDurable'
                    /\ evlock' = NoProc => tail' = <<>> /\ (created' => lines' # <<>>)
                    /\ \A p \in Procs : Clean(p)'
  BY DEF CleanInv
<1>1. CASE UNCHANGED evVars
  <2>1. faults = 0 /\ UNCHANGED <<lines, tail, acked, evlock, created, evpc, draft>>
    BY <1>1 DEF evVars
  <2> QED
    BY <2>1, SameFile DEF CleanInv, AckedDurable, Clean
<1>2. ASSUME NEW p \in Procs, Writes(p) \/ Others(p), NEW q \in Procs PROVE Clean(q)'
  BY <1>2, CleanSelf, CleanOther
<1>3. CASE evNext
  BY <1>2, <1>3, StepIs, ParsesStep, AckedStep, FreeLogStep
<1> QED
  BY <1>1, <1>3

-----------------------------------------------------------------------------
\* The invariant of a log on which no write has failed.
THEOREM CleanInvariance == evSpec => []CleanInv
<1>1. evInit => CleanInv
  <2> SUFFICES ASSUME evInit PROVE CleanInv
    OBVIOUS
  <2>1. \A p \in Procs : evpc[p] = "idle"
    BY DEF evInit
  <2>2. load_event_log = <<>>
    BY DEF evInit, load_event_log
  <2> QED
    BY <2>1, <2>2 DEF evInit, CleanInv, Parses, AckedDurable, Clean, LockedControls
<1>2. evInv /\ CleanInv /\ [evNext]_evVars => CleanInv'
  BY CleanStep
<1> QED
  BY <1>1, <1>2, LogInvariance, PTL DEF evSpec

\* Without failing writes nothing counts as a fault.
LEMMA NoFaults == ASSUME MaxFaults = 0 PROVE evSpec => [](faults = 0)
<1>1. evInit => faults = 0
  BY DEF evInit
<1>2. evTypeOK /\ faults = 0 /\ [evNext]_evVars => (faults = 0)'
  <2> SUFFICES ASSUME evTypeOK, faults = 0, [evNext]_evVars PROVE faults' = 0
    OBVIOUS
  <2>1. CASE UNCHANGED evVars
    BY <2>1 DEF evVars
  <2>2. ASSUME NEW p \in Procs, Writes(p) \/ Others(p) PROVE faults' = 0
    BY <2>2 DEF Writes, Others, BeginAppend, acquire_event_log_lock, AppendLoad,
         AppendOpen, AppendJson, AppendNewline, AppendUnlock, PublishState, WriteFails,
         BeginLoad, StatEvents, StatLegacy, StageMigration, MigrationLoad, MigrationPublish,
         MigrationUnlock, ReadLog, evCrash
  <2> QED
    BY <2>1, <2>2, StepIs
<1>3. evInv => evTypeOK
  BY DEF evInv
<1> QED
  BY <1>1, <1>2, <1>3, LogInvariance, PTL DEF evSpec

\* As long as writes do not fail, an event whose command reported success is a
\* complete line of events.jsonl for good, through crashes and migrations.
THEOREM Durability == ASSUME MaxFaults = 0 PROVE evSpec => []AckedDurable
<1>1. CleanInv /\ faults = 0 => AckedDurable
  BY DEF CleanInv
<1> QED
  BY <1>1, CleanInvariance, NoFaults, PTL

\* As long as writes do not fail, the file implements the abstract log: every
\* step appends one linked event, imports the legacy state into an empty log,
\* or changes nothing a reader can see.
THEOREM Refinement == ASSUME MaxFaults = 0 PROVE evSpec => ImplementsAppendLog
<1>1. evInit => AL!Init
  BY DEF evInit, AL!Init
<1>2. evInv /\ CleanInv /\ (faults = 0)' /\ [evNext]_evVars
        => [AL!AppendEvent \/ AL!ImportLegacyState]_(lines \o tail)
  <2> SUFFICES ASSUME evInv, CleanInv, faults' = 0, [evNext]_evVars
               PROVE  \/ AL!AppendEvent \/ AL!ImportLegacyState
                      \/ load_event_log' = load_event_log
    BY DEF load_event_log
  <2>1. CASE UNCHANGED evVars
    BY <2>1 DEF evVars, load_event_log
  <2>2. ASSUME NEW p \in Procs, Writes(p) \/ Others(p)
        PROVE  \/ AL!AppendEvent \/ AL!ImportLegacyState
               \/ load_event_log' = load_event_log
    <3>0. evTypeOK /\ faults = 0 /\ lines \in Seq(Entries)
      BY <2>2, FaultFree DEF evInv, evTypeOK, Entries
    <3>1. CASE UNCHANGED <<lines, tail>>
      BY <3>1 DEF load_event_log
    <3>2. CASE AppendNewline(p)
      BY <3>0, <3>2, CleanNewline
    <3>3. CASE AppendJson(p)
      <4> DEFINE e == draft[p][1]
                 new == lines \o <<e>>
      <4>1. /\ lines \o tail = lines /\ (lines \o tail)' = new /\ e \in Entries
            /\ AL!Continues(lines, e) /\ e.kind = "command"
        BY <3>0, <3>3, CleanJson DEF load_event_log, Entries
      <4>2. /\ Len(new) = Len(lines) + 1
            /\ \A i \in 1..Len(lines) : new[i] = lines[i]
            /\ new[Len(new)] = e
        BY <3>0, <4>1, Snoc
      <4> HIDE DEF e, new
      <4> QED
        BY <4>1, <4>2 DEF AL!AppendEvent
    <3>4. CASE MigrationPublish(p)
      <4>1. /\ lines \o tail = <<>> /\ (lines \o tail)' = draft[p] /\ Staged(draft[p])
        BY <3>4, CleanPublish DEF load_event_log
      <4> QED
        BY <4>1 DEF AL!ImportLegacyState, Staged
    <3> QED
      BY <2>2, <3>0, <3>1, <3>2, <3>3, <3>4, CleanEffect DEF AppendOpen
  <2> QED
    BY <2>1, <2>2, StepIs
<1> QED
  BY <1>1, <1>2, LogInvariance, CleanInvariance, NoFaults, PTL
     DEF evSpec, ImplementsAppendLog, AL!Spec
-----------------------------------------------------------------------------
\* Readers take no lock.

\* Only a draft raises the stamp.
LEMMA StampEffect ==
    ASSUME evTypeOK, NEW p \in Procs, Writes(p) \/ Others(p)
    PROVE  stamp' > stamp \/ (stamp' = stamp /\ (AppendLoad(p) => evpc'[p] = "idle"))
<1>1. CASE AppendLoad(p)
  <2>1. stamp' = stamp + 1 \/ (stamp' = stamp /\ evpc'[p] = "idle")
    BY <1>1 DEF AppendLoad, Return, evTypeOK
  <2> QED
    BY <2>1 DEF evTypeOK
<1>2. CASE StageMigration(p)
  BY <1>2, ReplayAssumption DEF StageMigration, evTypeOK, AppendLoad, evGoto
<1>3. CASE ~(AppendLoad(p) \/ StageMigration(p))
  BY <1>3, Zenon DEF Writes, Others, BeginAppend, acquire_event_log_lock,
         AppendOpen, AppendJson, AppendNewline, AppendUnlock, PublishState, WriteFails,
         BeginLoad, StatEvents, StatLegacy, MigrationLoad, MigrationPublish,
         MigrationUnlock, ReadLog, evCrash
<1> QED
  BY <1>1, <1>2, <1>3

\* Where a step that drafts nothing can lead, and from where.
LEMMA ReadEffect ==
    ASSUME evTypeOK, NEW p \in Procs, Writes(p) \/ Others(p), stamp' = stamp
    PROVE  /\ evpc'[p] # "ap_open"
           /\ evpc'[p] \in ReadControls => evpc[p] \in ReadControls \/ BeginLoad(p)
                                         \/ MigrationUnlock(p)
           /\ evpc'[p] = "stat_legacy_of_empty" => created /\ FileIsEmpty
           /\ began' = began \/ BeginLoad(p)
<1>1. \A to : evpc' = [evpc EXCEPT ![p] = to] => evpc'[p] = to
  BY DEF evTypeOK
<1>2. ~(stamp' > stamp)
  BY DEF evTypeOK
<1>3. evpc'[p] # "ap_open"
  BY <1>1, <1>2, StampEffect
     DEF Writes, Others, BeginAppend, acquire_event_log_lock, AppendOpen,
         AppendJson, AppendNewline, AppendUnlock, PublishState, WriteFails, BeginLoad,
         StatEvents, StatLegacy, StageMigration, MigrationLoad, MigrationPublish,
         MigrationUnlock, ReadLog, evCrash, evGoto, Return
<1>4. evpc'[p] \in ReadControls => evpc[p] \in ReadControls \/ BeginLoad(p) \/ MigrationUnlock(p)
  BY <1>1, <1>2, StampEffect
     DEF Writes, Others, BeginAppend, acquire_event_log_lock, AppendOpen,
         AppendJson, AppendNewline, AppendUnlock, PublishState, WriteFails,
         StatEvents, StatLegacy, StageMigration, MigrationLoad, MigrationPublish,
         ReadLog, evCrash, evGoto, Return, ReadControls
<1>5. evpc'[p] = "stat_legacy_of_empty" => created /\ FileIsEmpty
  BY <1>1, <1>2, StampEffect
     DEF Writes, Others, BeginAppend, acquire_event_log_lock, AppendOpen,
         AppendJson, AppendNewline, AppendUnlock, PublishState, WriteFails, BeginLoad,
         StatEvents, StatLegacy, StageMigration, MigrationLoad, MigrationPublish,
         MigrationUnlock, ReadLog, evCrash, evGoto, Return
<1>6. began' = began \/ BeginLoad(p)
  BY Zenon DEF Writes, Others, BeginAppend, acquire_event_log_lock, AppendLoad,
         AppendOpen, AppendJson, AppendNewline, AppendUnlock, PublishState, WriteFails,
         StatEvents, StatLegacy, StageMigration, MigrationLoad, MigrationPublish,
         MigrationUnlock, ReadLog, evCrash
<1> QED
  BY <1>3, <1>4, <1>5, <1>6

\* The log is created empty by a writer alone, and is never emptied.
LEMMA EmptyEffect ==
    ASSUME evInv, CleanInv, NEW p \in Procs, Writes(p) \/ Others(p), faults' = 0,
           created', FileIsEmpty'
    PROVE  (created /\ FileIsEmpty) \/ AppendOpen(p)
<1>0. evTypeOK /\ faults = 0 /\ lines \in Seq(Entries)
  BY FaultFree DEF evInv, evTypeOK, Entries
<1>1. CASE UNCHANGED <<lines, tail, created>>
  BY <1>1 DEF FileIsEmpty
<1>2. CASE AppendJson(p)
  <2>1. tail' = <<draft[p][1]>>
    BY <1>0, <1>2, CleanJson, Zenon
  <2>2. tail' # <<>>
    BY <2>1
  <2> QED
    BY <2>2 DEF FileIsEmpty
<1>3. CASE AppendNewline(p)
  <2>1. draft[p][1] \in Entries /\ lines' = lines \o <<draft[p][1]>>
    BY <1>0, <1>3, CleanNewline DEF Entries
  <2>2. Len(lines') = Len(lines) + 1 /\ Len(lines) \in Nat
    BY <1>0, <2>1, Snoc
  <2>3. lines' # <<>>
    BY <2>2
  <2> QED
    BY <2>3 DEF FileIsEmpty
<1>4. CASE MigrationPublish(p)
  BY <1>4, CleanPublish DEF Staged, FileIsEmpty
<1> QED
  BY <1>0, <1>1, <1>2, <1>3, <1>4, CleanEffect

\* A reader that is not overtaken meets no log that is being created.
LEMMA ReadStep ==
    ASSUME evInv, CleanInv, ReadInv, CleanInv', NEW p \in Procs, Writes(p) \/ Others(p),
           faults' = 0, evTypeOK', LockHeld', NEW q \in Procs
    PROVE  Overtaken(q)'
<1>0. /\ evTypeOK /\ LockHeld /\ faults = 0 /\ Overtaken(q) /\ stamp \in Nat /\ stamp' \in Nat
      /\ began[q].stamp \in Nat
  BY FaultFree DEF evInv, ReadInv, evTypeOK
<1>1. CASE BeginLoad(p) /\ q = p
  <2>1. /\ evpc'[q] = "stat_events" /\ began'[q].lock = evlock /\ began'[q].stamp = stamp
        /\ stamp' = stamp /\ UNCHANGED <<evlock, created, lines, tail>>
    BY <1>0, <1>1 DEF BeginLoad, evGoto, evTypeOK
  <2>2. ASSUME evlock = NoProc
        PROVE  ~(\E r \in Procs : evpc'[r] = "ap_open") /\ ~(created' /\ FileIsEmpty')
    <3>1. \A r \in Procs : evpc'[r] # "ap_open"
      BY <1>0, <2>1, <2>2, NoProcAssumption DEF LockHeld, LockedControls
    <3>2. ~(created' /\ FileIsEmpty')
      BY <1>0, <2>1, <2>2 DEF CleanInv, FileIsEmpty
    <3> QED
      BY <3>1, <3>2
  <2> QED
    BY <1>0, <2>1, <2>2 DEF Overtaken
<1>2. CASE began'[q] = began[q] /\ stamp' > stamp
  BY <1>0, <1>2 DEF Overtaken
<1>3. CASE began'[q] = began[q] /\ stamp' = stamp /\ ~(BeginLoad(p) /\ q = p)
  <2> SUFFICES ASSUME evpc'[q] \in ReadControls, began[q].lock = NoProc,
                      \/ \E r \in Procs : evpc'[r] = "ap_open"
                      \/ created' /\ FileIsEmpty'
                      \/ evpc'[q] = "stat_legacy_of_empty"
               PROVE  began[q].stamp < stamp
    BY <1>0, <1>3 DEF Overtaken
  <2>1. \A r \in Procs : evpc'[r] = "ap_open" => evpc[r] = "ap_open"
    <3>1. ASSUME NEW r \in Procs, evpc'[r] = "ap_open" PROVE evpc[r] = "ap_open"
      <4>1. r # p
        BY <1>0, <1>3, <3>1, ReadEffect
      <4> QED
        BY <1>0, <3>1, <4>1, DraftEffect
    <3> QED
      BY <3>1
  <2>2. CASE evpc[q] \in ReadControls
    <3>1. CASE \E r \in Procs : evpc'[r] = "ap_open"
      BY <1>0, <2>1, <2>2, <3>1 DEF Overtaken
    <3>2. CASE created' /\ FileIsEmpty'
      <4>1. CASE created /\ FileIsEmpty
        BY <1>0, <2>2, <4>1 DEF Overtaken
      <4>2. CASE AppendOpen(p)
        BY <1>0, <2>2, <4>2 DEF Overtaken, AppendOpen, evGoto
      <4> QED
        BY <3>2, <4>1, <4>2, EmptyEffect
    <3>3. CASE evpc'[q] = "stat_legacy_of_empty"
      <4>1. CASE q = p
        BY <1>0, <1>3, <2>2, <3>3, <4>1, ReadEffect DEF Overtaken
      <4>2. CASE q # p
        <5>1. evpc[q] = "stat_legacy_of_empty"
          BY <1>0, <3>3, <4>2, DraftEffect
        <5> QED
          BY <1>0, <2>2, <5>1 DEF Overtaken
      <4> QED
        BY <4>1, <4>2
    <3> QED
      BY <3>1, <3>2, <3>3
  <2>3. CASE evpc[q] \notin ReadControls
    <3>1. q = p
      BY <1>0, <2>3, DraftEffect
    <3>2. MigrationUnlock(p)
      BY <1>0, <1>3, <2>3, <3>1, ReadEffect
    <3>3. evpc[p] = "mg_unlock" /\ evpc'[p] = "read" /\ UNCHANGED <<lines, tail>>
      BY <1>0, <3>2 DEF MigrationUnlock, evGoto, evTypeOK
    <3>4. lines # <<>> /\ evlock = p
      BY <1>0, <3>3 DEF CleanInv, Clean, LockHeld, LockedControls
    <3>5. ~FileIsEmpty'
      BY <3>3, <3>4 DEF FileIsEmpty
    <3>6. PICK r \in Procs : evpc'[r] = "ap_open"
      BY <3>1, <3>3, <3>5
    <3>7. evlock = r /\ r # p
      BY <1>0, <2>1, <3>3, <3>6 DEF LockHeld, LockedControls
    <3> QED
      BY <3>4, <3>7
  <2> QED
    BY <2>2, <2>3
<1>4. began'[q] = began[q] \/ (BeginLoad(p) /\ q = p)
  BY <1>0, Zenon DEF evTypeOK, BeginLoad, Writes, Others, BeginAppend, acquire_event_log_lock,
         AppendLoad, AppendOpen, AppendJson, AppendNewline, AppendUnlock, PublishState,
         WriteFails, StatEvents, StatLegacy, StageMigration, MigrationLoad,
         MigrationPublish, MigrationUnlock, ReadLog, evCrash
<1> QED
  BY <1>0, <1>1, <1>2, <1>3, <1>4, StampEffect

\* The invariant of the readers of a log on which no write has failed.
THEOREM ReadInvariance == evSpec => []ReadInv
<1>1. evInit => ReadInv
  BY DEF evInit, ReadInv, Overtaken, ReadControls
<1>2. evInv /\ evInv' /\ CleanInv /\ CleanInv' /\ ReadInv /\ [evNext]_evVars => ReadInv'
  <2> SUFFICES ASSUME evInv, evInv', CleanInv, CleanInv', ReadInv, [evNext]_evVars,
                      faults' = 0, NEW q \in Procs
               PROVE  Overtaken(q)'
    BY DEF ReadInv
  <2>1. CASE UNCHANGED evVars
    BY <2>1 DEF evVars, ReadInv, Overtaken, FileIsEmpty
  <2>2. CASE evNext
    BY <2>2, StepIs, ReadStep DEF evInv
  <2> QED
    BY <2>1, <2>2
<1> QED
  BY <1>1, <1>2, LogInvariance, CleanInvariance, PTL DEF evSpec

\* As long as writes do not fail, a load reports a malformed log only if a
\* writer held the lock when it began or drafted an event since.
THEOREM ReadersMayFail == ASSUME MaxFaults = 0 PROVE evSpec => ReadFailsOnlyAmidWrites
<1> DEFINE Amid == \A p \in Procs :
                     evpc[p] \in ReadControls /\ evpc'[p] = "idle" /\ result'[p] = "malformed"
                         => began[p].lock # NoProc \/ began[p].stamp # stamp
<1>1. evInv /\ CleanInv /\ ReadInv /\ (faults = 0)' /\ [evNext]_evVars => [Amid]_evVars
  <2> SUFFICES ASSUME evInv, CleanInv, ReadInv, faults' = 0, NEW p \in Procs,
                      Writes(p) \/ Others(p), NEW q \in Procs,
                      evpc[q] \in ReadControls, evpc'[q] = "idle", result'[q] = "malformed"
               PROVE  began[q].lock # NoProc \/ began[q].stamp # stamp
    BY StepIs
  <2>1. /\ evTypeOK /\ faults = 0 /\ Overtaken(q) /\ Loads /\ began[q].stamp \in Nat
        /\ stamp \in Nat
    <3>1. evTypeOK /\ faults = 0 /\ Overtaken(q) /\ Parses /\ ChainValid
      BY FaultFree DEF evInv, CleanInv, ReadInv
    <3> QED
      BY <3>1, LoadsIs, ChainIs, ParsesIs DEF evTypeOK
  <2>2. q = p
    BY <2>1, DraftEffect DEF ReadControls
  <2>3. evpc[p] = "stat_legacy_of_empty"
    BY <2>1, <2>2, FaultFree
       DEF evTypeOK, Writes, Others, BeginAppend, acquire_event_log_lock, AppendLoad,
         AppendOpen, AppendJson, AppendNewline, AppendUnlock, PublishState,
         BeginLoad, StatEvents, StatLegacy, StageMigration, MigrationLoad, MigrationPublish,
         MigrationUnlock, ReadLog, evCrash, evGoto, Return, ReadControls
  <2> QED
    BY <2>1, <2>2, <2>3 DEF Overtaken
<1> QED
  BY <1>1, LogInvariance, CleanInvariance, ReadInvariance, NoFaults, PTL
     DEF evSpec, ReadFailsOnlyAmidWrites
=============================================================================
