----------------------------- MODULE AppendLog -----------------------------
(***************************************************************************)
(* What the authoritative event log promises: one sequence of events, that *)
(* starts empty, is imported from a legacy state at most once and only     *)
(* while it is empty, and otherwise grows by one event at a time, each the *)
(* hash-linked successor of the one before.  Nothing is ever taken back.   *)
(*                                                                         *)
(* An event hash is a positive number; Origin is the absent hash of the    *)
(* event before the first.                                                 *)
(***************************************************************************)
EXTENDS Sequences, Naturals

VARIABLE log

Origin == 0

EventKinds == {"migration_imported", "replay", "command"}

Event == [sequence : Nat \ {0}, previous : Nat, hash : Nat \ {0}, kind : EventKinds]

LastHash(events) == IF events = <<>> THEN Origin ELSE events[Len(events)].hash

\* An event that continues a log: the next sequence number, linked by hash.
Continues(events, e) ==
    e.sequence = Len(events) + 1 /\ e.previous = LastHash(events)

(***************************************************************************)
(* validate_event_log: entry i has sequence i and names the hash of entry  *)
(* i - 1.                                                                  *)
(***************************************************************************)
ValidChain(events) ==
    \A i \in 1..Len(events) :
        /\ events[i].sequence = i
        /\ events[i].previous = IF i = 1 THEN Origin ELSE events[i - 1].hash

Init == log = <<>>

AppendEvent ==
    /\ Len(log') = Len(log) + 1
    /\ \A i \in 1..Len(log) : log'[i] = log[i]
    /\ Continues(log, log'[Len(log')])
    /\ log'[Len(log')].kind = "command"

ImportLegacyState ==
    /\ log = <<>>
    /\ log' # <<>>
    /\ ValidChain(log')
    /\ \A i \in 1..Len(log') : log'[i].kind = IF i = 1 THEN "migration_imported"
                                                      ELSE "replay"

Spec == Init /\ [][AppendEvent \/ ImportLegacyState]_log
=============================================================================
