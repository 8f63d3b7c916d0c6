----------------------------- MODULE RepoSafety -----------------------------
(***************************************************************************)
(* Repo safety.  A write on a protected branch needs an approval of        *)
(* exactly its scope.  Approvals are files under the slug of the           *)
(* repository's remote, so that clones with one remote share a directory   *)
(* and an approval stays behind when the remote changes.                   *)
(*                                                                         *)
(* approve writes a temporary file, whose name depends on the approval's   *)
(* path alone, and renames it into place.  A rename moves the file and not *)
(* its name: a process that has opened the temporary file goes on writing  *)
(* to it wherever it is.                                                   *)
(***************************************************************************)
EXTENDS Naturals, Sequences, FiniteSets

CONSTANTS
    Clones,          \* roots of the working copies
    Remotes,         \* slugs
    Branches,
    DefaultBranches, \* the branches that are always protected
    Scopes,          \* what an approval is for: paths and write targets
    TaskIds,         \* task ids on the command line, or NoTaskId
    Approvers,       \* processes that run approve
    MaxApprovals     \* bound: number of approvals

ASSUME RepoSafetyAssumption ==
    /\ DefaultBranches \subseteq Branches
    /\ MaxApprovals \in Nat

VARIABLES
    remote,     \* the slug of each clone's remote
    branch,     \* the branch each clone is on
    listed,     \* the branches the instruction files protect
    inodes,     \* the record in each file, none in one that does not parse
    approvals,  \* approval paths with a file, and their files
    temporary,  \* the same for the temporary files
    approver,   \* what each approving process is doing
    asked       \* history: the fingerprints of the approvals asked for

rsVars == <<remote, branch, listed, inodes, approvals, temporary, approver, asked>>

\* derive_task_id: without an id, the scope itself identifies the task.
NoTaskId == "derived from the scope"
derive_task_id(id, s) == IF id = NoTaskId THEN <<"scope", s>> ELSE <<"id", id>>

\* A fingerprint is a hash of all that an approval is for.
compute_fingerprint(root, b, task, s) == <<root, b, task, s>>

prepare_scope(c, id, s) ==
    LET task == derive_task_id(id, s)
    IN  [ root  |-> c, branch |-> branch[c], task |-> task, scope |-> s,
          print |-> compute_fingerprint(c, branch[c], task, s),
          path  |-> <<remote[c], branch[c], task>> ]

branch_protection(b) == b \in DefaultBranches \/ b \in listed

-----------------------------------------------------------------------------
(***************************************************************************)
(* check: the lookup of an approval.                                       *)
(***************************************************************************)
\* Mutant: the clone of the record is not compared.
MatchesAnyClone(r, q) == r.branch = q.branch /\ r.task = q.task

record_matches_scope(r, q) ==
    r.root = q.root /\ r.branch = q.branch /\ r.task = q.task

record_fingerprint_matches_scope(r, q) ==
    r.print \in { q.print, compute_fingerprint(r.root, q.branch, q.task, q.scope) }

\* A file that does not parse counts as none.
read_approval_record(path) ==
    IF path \in DOMAIN approvals THEN inodes[approvals[path]] ELSE {}

\* The records of the same branch and task under the slugs of other remotes.
read_legacy_approval(q) ==
    {r \in UNION {read_approval_record(<<s, q.branch, q.task>>) : s \in Remotes \ {q.path[1]}} :
        record_matches_scope(r, q) /\ record_fingerprint_matches_scope(r, q)}

\* Mutant: the records of other remotes are not looked for.
ReadCanonicalApproval(q) == read_approval_record(q.path)

read_approval(q) ==
    IF read_approval_record(q.path) # {} THEN read_approval_record(q.path)
    ELSE read_legacy_approval(q)

\* check_repo_safety with a write intent
check(q) ==
    branch_protection(q.branch) =>
        \E r \in read_approval(q) :
            record_matches_scope(r, q) /\ record_fingerprint_matches_scope(r, q)

-----------------------------------------------------------------------------
(***************************************************************************)
(* approve.                                                                *)
(***************************************************************************)
NotApproving == [at |-> "idle"]

StartApprove(p, c, id, s) ==
    /\ approver[p] = NotApproving
    /\ Len(asked) < MaxApprovals
    /\ approver' = [approver EXCEPT ![p] = [at |-> "open", q |-> prepare_scope(c, id, s)]]
    /\ asked' = Append(asked, prepare_scope(c, id, s).print)
    /\ UNCHANGED <<remote, branch, listed, inodes, approvals, temporary>>

\* Opening the temporary file truncates it or creates a new one.
OpenTemporary(p) ==
    /\ approver[p].at = "open"
    /\ LET path == approver[p].q.path
           new  == Cardinality(DOMAIN inodes) + 1
           i    == IF path \in DOMAIN temporary THEN temporary[path] ELSE new
       IN  /\ inodes' = [n \in DOMAIN inodes \cup {i} |-> IF n = i THEN {} ELSE inodes[n]]
           /\ temporary' = [x \in DOMAIN temporary \cup {path} |-> IF x = path THEN i ELSE temporary[x]]
           /\ approver' = [approver EXCEPT ![p] = [at |-> "write", q |-> @.q, file |-> i]]
    /\ UNCHANGED <<remote, branch, listed, approvals, asked>>

\* Over the text of another process that is longer, the text does not parse.
WriteTemporary(p) ==
    /\ approver[p].at = "write"
    /\ \E text \in {{approver[p].q}} \cup (IF inodes[approver[p].file] = {} THEN {} ELSE {{}}) :
           inodes' = [inodes EXCEPT ![approver[p].file] = text]
    /\ approver' = [approver EXCEPT ![p].at = "rename"]
    /\ UNCHANGED <<remote, branch, listed, approvals, temporary, asked>>

\* The rename fails when another process has moved the file away.
RenameTemporary(p) ==
    /\ approver[p].at = "rename"
    /\ LET path == approver[p].q.path
       IN  IF path \in DOMAIN temporary
           THEN /\ approvals' = [x \in DOMAIN approvals \cup {path} |->
                                    IF x = path THEN temporary[path] ELSE approvals[x]]
                /\ temporary' = [x \in DOMAIN temporary \ {path} |-> temporary[x]]
           ELSE UNCHANGED <<approvals, temporary>>
    /\ approver' = [approver EXCEPT ![p] = NotApproving]
    /\ UNCHANGED <<remote, branch, listed, inodes, asked>>

\* The user changes a remote, a branch or the instructions.
ChangeRepository ==
    /\ \/ \E c \in Clones, s \in Remotes : remote' = [remote EXCEPT ![c] = s] /\ UNCHANGED <<branch, listed>>
       \/ \E c \in Clones, b \in Branches : branch' = [branch EXCEPT ![c] = b] /\ UNCHANGED <<remote, listed>>
       \/ \E b \in Branches \ DefaultBranches : listed' = listed \cup {b} /\ UNCHANGED <<remote, branch>>
    /\ UNCHANGED <<inodes, approvals, temporary, approver, asked>>

rsInit ==
    /\ remote \in [Clones -> Remotes]
    /\ branch \in [Clones -> Branches]
    /\ listed = {}
    /\ inodes = <<>>
    /\ approvals = <<>>
    /\ temporary = <<>>
    /\ approver = [p \in Approvers |-> NotApproving]
    /\ asked = <<>>

rsNext ==
    \/ \E p \in Approvers :
          \/ \E c \in Clones, id \in TaskIds, s \in Scopes : StartApprove(p, c, id, s)
          \/ OpenTemporary(p) \/ WriteTemporary(p) \/ RenameTemporary(p)
    \/ ChangeRepository

rsSpec == rsInit /\ [][rsNext]_rsVars

-----------------------------------------------------------------------------
Asks == Clones \X (TaskIds) \X Scopes
ScopeOf(a) == prepare_scope(a[1], a[2], a[3])

(***************************************************************************)
(* A write on a protected branch is allowed only when an approval of that  *)
(* clone, branch, task and scope was asked for - although the directory is *)
(* shared, records survive a change of remote, and approvals are written   *)
(* concurrently under one temporary name.                                  *)
(***************************************************************************)
AllowedMeansApproved ==
    \A a \in Asks :
        LET q == ScopeOf(a) IN check(q) /\ branch_protection(q.branch) => \E i \in DOMAIN asked : asked[i] = q.print

Allowed(a) == check(ScopeOf(a))
Recorded(a) == read_approval_record(ScopeOf(a).path) # {}
\* Somebody is writing an approval of the same branch and task.
Writing(a) ==
    \E p \in Approvers :
        /\ approver[p] # NotApproving
        /\ approver[p].q.branch = ScopeOf(a).branch /\ approver[p].q.task = ScopeOf(a).task

(***************************************************************************)
(* An approval that holds is lost only while another approval is written   *)
(* for the branch and task, or when the clone's remote becomes one with a  *)
(* record of them: never because the remote changed alone.                 *)
(***************************************************************************)
ApprovalHolds ==
    [][\A a \in Asks :
          Allowed(a) /\ branch' = branch /\ listed' = listed =>
              Allowed(a)' \/ Writing(a) \/ (remote'[a[1]] # remote[a[1]] /\ Recorded(a)')]_rsVars
=============================================================================
