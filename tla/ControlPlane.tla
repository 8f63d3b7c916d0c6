---------------------------- MODULE ControlPlane ----------------------------
(***************************************************************************)
(* Which featureforge binary may change the live state directory: the      *)
(* provenance of the running binary and of the state directory             *)
(* (execution/runtime_provenance.rs), the guard in front of the mutating   *)
(* commands (execution/live_mutation_guard.rs, lib.rs), the commands that  *)
(* write without it, and the diagnosis of `doctor self-hosting`            *)
(* (self_hosting.rs).                                                      *)
(*                                                                         *)
(* A binary lives at one of three spots: the installed path                *)
(* ~/.featureforge/install/bin/featureforge, the build of the FeatureForge *)
(* checkout being worked on, and a directory of PATH outside both.  A spot *)
(* holds a file, nothing, or a symbolic link to another spot.              *)
(***************************************************************************)
EXTENDS Naturals

CONSTANTS
    Channels,       \* the links through which agents find the skills
    MaxLinks        \* bound on the changes the developer makes

VARIABLES
    place,      \* what each spot holds: "missing", "file" or the spot linked to
    skills,     \* the skill root each channel resolves to, or "missing"
    aliasMade,  \* TRUE iff the directory behind the alias of the live dir exists
    held,       \* what the live dir holds: nothing, an older runtime's state.json, the log
    links,      \* changes made so far
    ran,        \* the command that just wrote, if any
    diagnosis   \* the answer `doctor self-hosting` just gave, if any

cpVars == <<place, skills, aliasMade, held, links, ran, diagnosis>>

Spots == {"installed", "checkout", "path"}
\* The repository the command is run in: the checkout, the install root when
\* it is itself a checkout, or another project.
Repos == {"checkout", "install", "project"}
\* FEATUREFORGE_STATE_DIR: unset, the live directory, a directory below it that
\* a symbolic link leads to, or a place outside it.
StateDirs == {"unset", "live", "alias", "temp", "fixture", "custom"}
SkillRoots == {"installed", "workspace", "custom", "missing"}

NoCommand == [wrote |-> "nothing", over |-> "nothing", live |-> FALSE,
              unmade |-> FALSE, allow |-> FALSE,
              file |-> "installed", installed |-> "installed", repo |-> "install"]
NoDiagnosis == [remedy |-> "not asked", source |-> "unknown", roots |-> {},
                kind |-> "unknown", allowed |-> FALSE, warned |-> TRUE]

\* fs::canonicalize of a spot: the file at the end of its links.
canonicalize_or_self(at, p) ==
    IF at[p] \notin Spots THEN p
    ELSE IF at[at[p]] \notin Spots THEN at[p]
    ELSE at[at[p]]

\* The repository whose tree holds the file at a spot.
WithinRepo(p, repo) ==
    (p = "installed" /\ repo = "install") \/ (p = "checkout" /\ repo = "checkout")

\* A run of the binary: the path it was started by, what current_exe reports
\* (that path or the file behind it, depending on the platform, or nothing),
\* the repository, the environment.
Invocations == [by : Spots, exe : {"as started", "resolved", "none"},
                repo : Repos, dir : StateDirs, allow : BOOLEAN]

binary_path(at, i) ==
    CASE i.exe = "none" -> "empty"
      [] i.exe = "as started" -> i.by
      [] i.exe = "resolved" -> canonicalize_or_self(at, i.by)
binary_realpath(at, i) ==
    IF i.exe = "none" THEN "empty" ELSE canonicalize_or_self(at, i.by)

\* A classification that asks whether the binary is the installed one before
\* it asks whether it is the repository's own build.
InstalledFirst(at, i) ==
    IF binary_realpath(at, i) = "empty" THEN "unknown"
    ELSE IF binary_realpath(at, i) = canonicalize_or_self(at, "installed") THEN "installed"
    ELSE IF WithinRepo(binary_realpath(at, i), i.repo) THEN "workspace"
    ELSE "path"

\* An exact installed path wins; then a binary inside the repository; then
\* whatever the installed path resolves to.
classify_control_plane_source(at, i) ==
    LET real == binary_realpath(at, i)
    IN  IF real = "empty" /\ binary_path(at, i) = "empty" THEN "unknown"
        ELSE IF real = "installed" THEN "installed"
        ELSE IF WithinRepo(real, i.repo) THEN "workspace"
        ELSE IF \/ real = canonicalize_or_self(at, "installed")
                \/ binary_path(at, i) = "installed" THEN "installed"
        ELSE "path"

\* An alias is seen to lead into the live directory only when the directory
\* behind it exists: canonicalization falls back to the path as written.
classify_state_dir_kind(made, dir) ==
    IF dir \in {"unset", "live"} \/ (dir = "alias" /\ made) THEN "live"
    ELSE IF dir \in {"temp", "fixture"} THEN "temp"
    ELSE "custom"

\* The checkout and an install that is a checkout declare the package.
classify_self_hosting_context(repo) ==
    IF repo \in {"checkout", "install"} THEN "featureforge_repo"
    ELSE "non_featureforge_repo"

\* A workspace root anywhere wins over a custom one, and that over the
\* installed one.
summarize_skill_sources(roots) ==
    IF "workspace" \in roots THEN "workspace"
    ELSE IF "custom" \in roots THEN "custom"
    ELSE IF "installed" \in roots THEN "installed"
    ELSE "unknown"

\* The install's skill root also is the workspace's when the repository is
\* the install: the installed root is asked first.
ActiveRoots(sk) == {sk[c] : c \in Channels} \ {"missing"}

\* Refused: live state and a binary that is not the installed one.
deny_workspace_runtime_live_mutation(source, kind, allow) ==
    kind = "live" /\ source # "installed" /\ ~allow

recommended_remediation(source, skill, allowed) ==
    IF ~allowed THEN "run the installed runtime"
    ELSE IF skill = "workspace" THEN "relink the skills"
    ELSE IF source # "installed" THEN "use the installed runtime"
    ELSE IF skill \notin {"installed", "unknown"} THEN "point the skills at the install"
    ELSE "none"

\* Warnings of the diagnosis: a workspace runtime, workspace skills found
\* while working on FeatureForge itself, the guard's refusal or override, and
\* a live directory without the installed runtime.
Warned(source, kind, roots, repo) ==
    \/ source = "workspace"
    \/ "workspace" \in roots /\ classify_self_hosting_context(repo) = "featureforge_repo"
    \/ source # "installed" /\ kind = "live"

diagnostic_from_provenance(at, sk, made, i) ==
    LET source == classify_control_plane_source(at, i)
        kind == classify_state_dir_kind(made, i.dir)
        allowed == ~deny_workspace_runtime_live_mutation(source, kind, i.allow)
    IN  [source |-> source, kind |-> kind, allowed |-> allowed,
         roots |-> ActiveRoots(sk),
         warned |-> Warned(source, kind, ActiveRoots(sk), i.repo),
         remedy |-> recommended_remediation(
                        source, summarize_skill_sources(ActiveRoots(sk)), allowed)]

-----------------------------------------------------------------------------
(* Actions.                                                                *)

\* The developer installs, builds, removes or links a binary, or relinks a
\* skill channel.
PlaceBinary(p) ==
    /\ links < MaxLinks
    /\ \E w \in {"missing", "file"} \cup (Spots \ {p}) :
          /\ w \in Spots => place[w] \in {"missing", "file"}
          /\ \A q \in Spots : place[q] = p => w \notin Spots
          /\ place' = [place EXCEPT ![p] = w]
    /\ links' = links + 1
    /\ ran' = NoCommand /\ diagnosis' = NoDiagnosis
    /\ UNCHANGED <<skills, aliasMade, held>>

LinkSkills(c) ==
    /\ links < MaxLinks
    /\ \E r \in SkillRoots : skills' = [skills EXCEPT ![c] = r]
    /\ links' = links + 1
    /\ ran' = NoCommand /\ diagnosis' = NoDiagnosis
    /\ UNCHANGED <<place, aliasMade, held>>

\* Commands run one at a time; ran and diagnosis describe the last one.
Resting == ran = NoCommand /\ diagnosis = NoDiagnosis

CommandOver ==
    /\ ~Resting
    /\ ran' = NoCommand /\ diagnosis' = NoDiagnosis
    /\ UNCHANGED <<place, skills, aliasMade, held, links>>

LiveItself(i) == i.dir \in {"unset", "live"}

\* Writing to a state directory creates it.
Writes(i, what) ==
    /\ Resting
    /\ place[canonicalize_or_self(place, i.by)] = "file"
    /\ aliasMade' = (aliasMade \/ i.dir = "alias")
    /\ ran' =
          [wrote |-> what, over |-> held,
           live |-> LiveItself(i) \/ i.dir = "alias",
           unmade |-> i.dir = "alias" /\ ~aliasMade,
           allow |-> i.allow,
           file |-> canonicalize_or_self(place, i.by),
           installed |-> canonicalize_or_self(place, "installed"),
           repo |-> i.repo]
    /\ diagnosis' = NoDiagnosis
    /\ UNCHANGED <<place, skills, links>>

\* A guarded command writes the workflow and execution state; a state.json of an
\* older runtime is imported on the way.
MutatingCommand(i) ==
    /\ ~deny_workspace_runtime_live_mutation(
            classify_control_plane_source(place, i),
            classify_state_dir_kind(aliasMade, i.dir), i.allow)
    /\ Writes(i, "workflow_state")
    /\ held' = IF LiveItself(i) THEN "log" ELSE held

\* `config set` and `update-check` ask no guard.
SettingsCommand(i) ==
    /\ \E settings \in {"config", "update_cache"} : Writes(i, settings)
    /\ UNCHANGED held

\* `workflow operator`, `workflow doctor` and `plan execution status` ask no guard
\* either: they only read, but reading a state.json without a log imports it.
ReadingCommand(i) ==
    /\ held = "older_state" /\ LiveItself(i)
    /\ Writes(i, "event_log")
    /\ held' = "log"

\* `doctor self-hosting`
DoctorSelfHosting(i) ==
    /\ Resting
    /\ place[canonicalize_or_self(place, i.by)] = "file"
    /\ diagnosis' = diagnostic_from_provenance(place, skills, aliasMade, i)
    /\ ran' = NoCommand
    /\ UNCHANGED <<place, skills, aliasMade, held, links>>

cpInit ==
    /\ place = [p \in Spots |-> IF p = "path" THEN "missing" ELSE "file"]
    /\ skills = [c \in Channels |-> "missing"]
    /\ aliasMade = FALSE
    /\ held \in {"nothing", "older_state"}
    /\ links = 0
    /\ ran = NoCommand
    /\ diagnosis = NoDiagnosis

cpNext ==
    \/ \E p \in Spots : PlaceBinary(p)
    \/ \E c \in Channels : LinkSkills(c)
    \/ CommandOver
    \/ \E i \in Invocations :
          MutatingCommand(i) \/ SettingsCommand(i) \/ ReadingCommand(i) \/ DoctorSelfHosting(i)

cpSpec == cpInit /\ [][cpNext]_cpVars

-----------------------------------------------------------------------------
(* Properties.                                                             *)

\* Written by the file the installed path runs, and not by the build of the
\* repository being worked on.
ByTheInstall ==
    /\ ran.file = ran.installed
    /\ ran.file = "checkout" => ran.repo # "checkout"

\* Without the override, the workflow and execution state in the live directory
\* is changed only by the install.  There are two gaps: a path into the live
\* directory whose directory did not exist yet, which classify_state_dir_kind
\* takes for a custom one, and the log that a reading command of any binary
\* imports from an older runtime's state.  Preferences and the update cache are
\* anyone's.
LiveBelongsToTheInstall ==
    ran.live /\ ~ran.allow /\ ~ran.unmade /\ ~ByTheInstall =>
        \/ ran.wrote \in {"config", "update_cache"}
        \/ ran.wrote = "event_log" /\ ran.over = "older_state"

\* "Workspace-local runtimes must not mutate live workflow state, review state,
\* execution state, projections, workflow artifacts, or event logs under
\* ~/.featureforge."  Reading commands import the state of an older runtime
\* into the event log, whatever binary runs them.
WorkspaceKeepsOffTheLiveLog ==
    /\ ran.live /\ ~ran.allow /\ ~ran.unmade
    /\ ran.wrote \in {"workflow_state", "event_log"}
    => ByTheInstall
=============================================================================
