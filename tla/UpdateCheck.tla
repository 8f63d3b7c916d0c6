---------------------------- MODULE UpdateCheck ----------------------------
(***************************************************************************)
(* The update check, the configuration it obeys and the runtime root whose *)
(* version it compares.  Answers of the server are cached in a file whose  *)
(* age is its modification time; a notice can be snoozed; every state file *)
(* has a place of an older version that is still read.                     *)
(*                                                                         *)
(* Time passes in hours; an age stands still where nothing depends on it   *)
(* any more.  A version is a sequence of numbers; two of different length  *)
(* can be equal as numbers and differ as text.                             *)
(***************************************************************************)
EXTENDS Integers, Sequences, FiniteSets

CONSTANTS
    Versions,   \* the versions that are installed or published
    Ticks,      \* how many hours may pass at once
    Checkers,   \* processes that run a check or a config command
    MaxChanges  \* bound: releases, upgrades, snoozes and settings

ASSUME UpdateCheckAssumption ==
    /\ Versions \subseteq Seq(Nat)
    /\ Ticks \subseteq Nat
    /\ MaxChanges \in Nat

VARIABLES
    installed,  \* the version of the runtime root
    published,  \* the version the server answers
    state,      \* the files of the check, at their place and the legacy one
    config,     \* the values of the configuration file
    checker,    \* what each process is doing
    notice,     \* the last answer of a check
    changes

ucVars == <<installed, published, state, config, checker, notice, changes>>

Places == {"canonical", "legacy"}
Files == {"cache", "snooze", "marker"}
NoFile == [kind |-> "none"]

Idle == [at |-> "idle"]

-----------------------------------------------------------------------------
(***************************************************************************)
(* Versions, files and their ages.                                         *)
(***************************************************************************)
\* compare_versions: a missing part counts as 0.
Part(v, i) == IF i \in DOMAIN v THEN v[i] ELSE 0
Upgrade(local, remote) ==
    \E i \in DOMAIN remote :
        /\ Part(local, i) < remote[i]
        /\ \A j \in 1 .. i - 1 : Part(local, j) = remote[j]

read_first_existing(f) ==
    IF state[f]["canonical"] # NoFile THEN state[f]["canonical"] ELSE state[f]["legacy"]

UP_TO_DATE_TTL == 1
UPGRADE_AVAILABLE_TTL == 12
Ttl(kind) == IF kind = "UP_TO_DATE" THEN UP_TO_DATE_TTL ELSE UPGRADE_AVAILABLE_TTL

cache_is_fresh(c) == c.age <= Ttl(c.kind)

SnoozeHours(level) == IF level = 1 THEN 24 ELSE IF level = 2 THEN 48 ELSE 168

snoozed(version) ==
    LET s == read_first_existing("snooze")
    IN  s # NoFile /\ s.version = version /\ s.age < SnoozeHours(s.level)

CacheOf(kind, local, remote) == [kind |-> kind, local |-> local, remote |-> remote, age |-> 0]
Put(f, content) == [state EXCEPT ![f] = [canonical |-> content, legacy |-> NoFile]]

-----------------------------------------------------------------------------
(***************************************************************************)
(* check.  The request to the server is the only long step: other checks,  *)
(* an upgrade or a snooze may come before its answer.                      *)
(***************************************************************************)
Answer(p, text, local, remote) ==
    /\ notice' = [ said   |-> text, local |-> local, remote |-> remote, waited |-> checker[p] # Idle,
                   was    |-> installed ]
    /\ checker' = [checker EXCEPT ![p] = Idle]

MayCheck(p) == checker[p] = Idle /\ config["update_check"] # "false"

\* The marker of an upgrade ends every snooze and starts a new cache.
JustUpgraded(p) ==
    /\ MayCheck(p)
    /\ read_first_existing("marker") # NoFile
    /\ state' = [ cache  |-> [canonical |-> CacheOf("UP_TO_DATE", installed, installed), legacy |-> NoFile],
                  snooze |-> [x \in Places |-> NoFile],
                  marker |-> [x \in Places |-> NoFile] ]
    /\ Answer(p, "JUST_UPGRADED", installed, installed)
    /\ UNCHANGED <<installed, published, config, changes>>

\* Mutant: the version the answer was for is not compared.
CacheAnswersAnyVersion ==
    LET c == read_first_existing("cache") IN c # NoFile /\ cache_is_fresh(c)

CacheAnswers ==
    LET c == read_first_existing("cache")
    IN  c # NoFile /\ c.local = installed /\ cache_is_fresh(c)

\* A cache at the legacy place is written anew, with a new age.
promote_cache_if_needed ==
    IF state["cache"]["canonical"] # NoFile THEN state
    ELSE Put("cache", [read_first_existing("cache") EXCEPT !.age = 0])

CheckFromCache(p) ==
    /\ MayCheck(p)
    /\ read_first_existing("marker") = NoFile
    /\ CacheAnswers
    /\ state' = promote_cache_if_needed
    /\ LET c == read_first_existing("cache")
       IN  Answer(p, IF c.kind = "UP_TO_DATE" \/ snoozed(c.remote) THEN "" ELSE c.kind, c.local, c.remote)
    /\ UNCHANGED <<installed, published, config, changes>>

\* A forced check does not look at the cache.
CheckAsks(p, force) ==
    /\ MayCheck(p)
    /\ read_first_existing("marker") = NoFile
    /\ force \/ ~CacheAnswers
    /\ checker' = [checker EXCEPT ![p] = [at |-> "asking", local |-> installed]]
    /\ UNCHANGED <<installed, published, state, config, notice, changes>>

fetch_remote_version_fails(p) ==
    /\ checker[p].at = "asking"
    /\ checker' = [checker EXCEPT ![p] = Idle]
    /\ UNCHANGED <<installed, published, state, config, notice, changes>>

fetch_remote_version(p) ==
    /\ checker[p].at = "asking"
    /\ LET local == checker[p].local
           kind  == IF Upgrade(local, published) THEN "UPGRADE_AVAILABLE" ELSE "UP_TO_DATE"
       IN  /\ state' = Put("cache", CacheOf(kind, local, published))
           /\ Answer(p, IF kind = "UP_TO_DATE" \/ snoozed(published) THEN "" ELSE kind, local, published)
    /\ UNCHANGED <<installed, published, config, changes>>

(***************************************************************************)
(* config set reads the file, changes one value and replaces the file.     *)
(***************************************************************************)
Keys == {"update_check", "featureforge_contributor"}

load_config(p) ==
    /\ changes < MaxChanges /\ changes' = changes + 1
    /\ checker[p] = Idle
    /\ checker' = [checker EXCEPT ![p] = [at |-> "config", copy |-> config]]
    /\ UNCHANGED <<installed, published, state, config, notice>>

set_for_state_dir(p, key, v) ==
    /\ checker[p].at = "config"
    /\ config' = [checker[p].copy EXCEPT ![key] = v]
    /\ checker' = [checker EXCEPT ![p] = Idle]
    /\ UNCHANGED <<installed, published, state, notice, changes>>

(***************************************************************************)
(* The world around the check.                                             *)
(***************************************************************************)
Publish(v) ==
    /\ changes < MaxChanges /\ changes' = changes + 1
    /\ Upgrade(published, v)
    /\ published' = v
    /\ UNCHANGED <<installed, state, config, checker, notice>>

\* The upgrade skill removes the cache and the snooze and leaves a marker.
InstallUpdate ==
    /\ changes < MaxChanges /\ changes' = changes + 1
    /\ installed # published
    /\ installed' = published
    /\ state' = [state EXCEPT !["cache"]["canonical"] = NoFile,
                              !["snooze"]["canonical"] = NoFile,
                              !["marker"]["canonical"] = [kind |-> "marker", age |-> 0]]
    /\ UNCHANGED <<published, config, checker, notice>>

\* The skill snoozes the version it was told about, one level up.
Snooze ==
    /\ changes < MaxChanges /\ changes' = changes + 1
    /\ notice.said = "UPGRADE_AVAILABLE"
    /\ LET s     == state["snooze"]["canonical"]
           level == IF s = NoFile \/ s.version # notice.remote THEN 1
                    ELSE IF s.level = 3 THEN 3 ELSE s.level + 1
       IN  state' = [state EXCEPT !["snooze"]["canonical"] =
                        [kind |-> "snooze", version |-> notice.remote, level |-> level, age |-> 0]]
    /\ UNCHANGED <<installed, published, config, checker, notice>>

\* The ages that are still told apart.
Oldest(kind) == IF kind = "snooze" THEN 168 ELSE UPGRADE_AVAILABLE_TTL + 1
Capped(n, limit) == IF n > limit THEN limit ELSE n

Hours(h) ==
    /\ state' = [f \in Files |-> [x \in Places |->
                    IF state[f][x] = NoFile THEN NoFile
                    ELSE [state[f][x] EXCEPT !.age = Capped(@ + h, Oldest(state[f][x].kind))]]]
    /\ UNCHANGED <<installed, published, config, checker, notice, changes>>

\* A cache of an older runtime may be there, with any age.
ucInit ==
    /\ installed \in Versions
    /\ published = installed
    /\ \E c \in {NoFile} \cup {CacheOf("UP_TO_DATE", installed, installed)} :
          state = [cache  |-> [canonical |-> NoFile, legacy |-> c],
                   snooze |-> [x \in Places |-> NoFile],
                   marker |-> [x \in Places |-> NoFile]]
    /\ config = [k \in Keys |-> "unset"]
    /\ checker = [p \in Checkers |-> Idle]
    /\ notice = [said |-> "JUST_UPGRADED"]
    /\ changes = 0

ucNext ==
    \/ \E p \in Checkers :
          \/ JustUpgraded(p) \/ CheckFromCache(p)
          \/ \E force \in BOOLEAN : CheckAsks(p, force)
          \/ fetch_remote_version(p) \/ fetch_remote_version_fails(p)
          \/ load_config(p)
          \/ \E key \in Keys, v \in {"true", "false"} : set_for_state_dir(p, key, v)
    \/ \E v \in Versions : Publish(v)
    \/ InstallUpdate \/ Snooze
    \/ \E h \in Ticks : Hours(h)

ucSpec == ucInit /\ [][ucNext]_ucVars

-----------------------------------------------------------------------------
(***************************************************************************)
(* What check says is true: the version is newer than the one it compares  *)
(* it with, and that is the installed one unless an upgrade came while the *)
(* server was asked.  A cached answer is never for another installation.   *)
(***************************************************************************)
NoticeIsTrue ==
    notice.said = "UPGRADE_AVAILABLE" =>
        Upgrade(notice.local, notice.remote) /\ (notice.waited \/ notice.local = notice.was)
=============================================================================
