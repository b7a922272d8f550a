------------------------------- MODULE Worktree -------------------------------
(****************************************************************************)
(* The write queue's commands on single files: discard_changes and          *)
(* resolve_conflict, which classify paths with git status and then run      *)
(* several git commands, and stage, unstage and commit, which run one.      *)
(* The user's editor and other git processes act between any two commands.  *)
(* What the commit view offers follows from the listing of read_status.     *)
(* A file is its version in HEAD, in the index (stage 0, or stages 1 to 3   *)
(* of a conflict) and in the worktree.                                      *)
(****************************************************************************)
EXTENDS Naturals, FiniteSets

CONSTANTS
    Paths,   \* files of the repository
    None     \* no version

(* "ours" is what HEAD has first, "theirs" the other side of a merge,    *)
(* "mine" what the user types and any mixture, conflict markers included;   *)
(* "intent" is the index entry of git add -N, "empty" the blob it names.    *)
Versions == {"ours", "theirs", "mine", "intent", "empty"}
ASSUME NoneAssumption == None \notin Versions
Maybe == Versions \cup {None}

Files == [head : Maybe, stage0 : Maybe, stages : SUBSET (1..3), wt : Maybe]

Resolutions == {"ours", "theirs", "keepOurs", "keepTheirs"}

VARIABLES
    files,    \* the repository
    pc,       \* what the queue's consumer does next
    tracked, untracked, intent,  \* classify_discard_paths' three lists
    path, action,                \* the conflict being resolved, and how
    want,     \* history: the version the chosen side had when classified
    touched,  \* history: paths others changed since the command began
    offered,  \* history: the view offers what the command does
    reply     \* "err" and "broken" are errors to the client (see Broken)

job  == <<tracked, untracked, intent, path, action, want>>
vars == <<files, pc, job, touched, offered, reply>>

(* Files have an index entry or the stages of a conflict, and a path is in  *)
(* one of classify_discard_paths' lists at most.                            *)
TypeOK ==
    /\ files \in [Paths -> Files]
    /\ \A p \in Paths : files[p].stages # {} => files[p].stage0 = None
    /\ pc \in {"idle", "checkout", "clean", "rm", "take", "add", "remove"}
    /\ tracked \subseteq Paths /\ untracked \subseteq Paths /\ intent \subseteq Paths
    /\ tracked \cap untracked = {} /\ (tracked \cup untracked) \cap intent = {}
    /\ path \in Paths \cup {None} /\ want \in Maybe
    /\ action \in {"takeOurs", "takeTheirs", "remove", "none"}
    /\ touched \subseteq Paths /\ offered \in BOOLEAN
    /\ reply \in {"none", "err", "broken", "discarded", "resolved"}

Init ==
    /\ files = [p \in Paths |-> [head |-> "ours", stage0 |-> "ours",
                                 stages |-> {}, wt |-> "ours"]]
    /\ pc = "idle"
    /\ tracked = {} /\ untracked = {} /\ intent = {}
    /\ path = None /\ action = "none" /\ want = None
    /\ touched = {} /\ offered = FALSE /\ reply = "none"

-----------------------------------------------------------------------------
(* git status --porcelain, by what the code distinguishes.                  *)

(* The version a side of a conflict has: ours is stage 2, the version HEAD  *)
(* has, and theirs is stage 3.                                              *)
Side(f, n) == IF n \notin f.stages THEN None ELSE IF n = 2 THEN f.head ELSE "theirs"

Unmerged(f) == f.stages # {}

(* porcelain_conflict_kind of the XY code git gives these stages.           *)
Kind(f) ==
    CASE f.stages = {1}       -> "bothDeleted"
      [] f.stages = {2}       -> "addedByUs"
      [] f.stages = {1, 2}    -> "deletedByThem"
      [] f.stages = {3}       -> "addedByThem"
      [] f.stages = {1, 3}    -> "deletedByUs"
      [] f.stages = {2, 3}    -> "bothAdded"
      [] f.stages = {1, 2, 3} -> "bothModified"
      [] OTHER                -> "none"

(* "??": in the worktree only.                                              *)
IsUntracked(f) == ~Unmerged(f) /\ f.head = None /\ f.stage0 = None /\ f.wt # None

(* Mutant: any new file with a worktree version counts as intent-to-add.    *)
IsIntentLoose(f) == f.head = None /\ f.stage0 \in {"intent", None} /\ f.wt # None

(* " A" and " AM": git add -N.                                              *)
IsIntent(f) == f.stage0 = "intent" /\ f.wt # None

IsClean(f) == ~Unmerged(f) /\ f.head = f.stage0 /\ f.stage0 = f.wt

(* Any other record of git status.                                          *)
IsTracked(f) == ~(Unmerged(f) \/ IsUntracked(f) \/ IsIntent(f) \/ IsClean(f))

-----------------------------------------------------------------------------
(* The listing, read_status, and what the view makes of it.                 *)

(* Changes between HEAD and the index are listed as staged, changes of the  *)
(* worktree beside them; an unmerged file is listed as a conflict only.     *)
Change(old, new) ==
    IF old = None THEN "added" ELSE IF new = None THEN "deleted" ELSE "modified"

TreeIndexItems(f) ==
    {[status |-> Change(f.head, new), staged |-> TRUE] :
        new \in {f.stage0} \ {f.head, "intent"}}

IndexWorktreeItems(f) ==
    {[status |-> CASE f.stage0 = None                   -> "untracked"
                   [] f.stage0 = "intent" /\ new # None -> "added"
                   [] OTHER                             -> Change(f.stage0, new),
      staged |-> FALSE] : new \in {f.wt} \ {f.stage0}}

Listed(f) ==
    IF Unmerged(f) THEN {[status |-> "conflict", staged |-> FALSE]}
                   ELSE TreeIndexItems(f) \cup IndexWorktreeItems(f)

(* Every row has a bucket; the view offers to discard what is changed or    *)
(* untracked, and a resolution per side of a conflict.                      *)
BucketOf(item) ==
    CASE item.status = "conflict"  -> "conflicts"
      [] item.staged               -> "staged"
      [] item.status = "untracked" -> "untracked"
      [] OTHER                     -> "changes"

OffersDiscard(f) == \E item \in Listed(f) : BucketOf(item) \in {"changes", "untracked"}

(* Mutant: a file deleted on both sides counts as one with two versions.    *)
SideResolutionOfContent(kind, side) ==
    IF kind \in {"deletedByUs", "deletedByThem"}
    THEN IF side = "ours" THEN "keepOurs" ELSE "keepTheirs"
    ELSE side

SideResolution(kind, side) ==
    IF kind \in {"deletedByUs", "deletedByThem", "bothDeleted"}
    THEN IF side = "ours" THEN "keepOurs" ELSE "keepTheirs"
    ELSE side

OfferedResolutions(f) ==
    {SideResolution(Kind(f), side) : side \in {"ours", "theirs"}}

-----------------------------------------------------------------------------
(* The git commands.                                                        *)

InIndex(f) == f.stage0 # None \/ Unmerged(f)

(* git checkout -- and git checkout --ours/--theirs take all paths or none. *)
CanCheckout(ps) == \A p \in ps : files[p].stage0 # None
Blob(entry) == IF entry = "intent" THEN "empty" ELSE entry

(* Mutant: tracked files are restored from HEAD, index included.            *)
CheckedOutHead(ps) ==
    [p \in Paths |-> IF p \in ps THEN [files[p] EXCEPT !.stage0 = files[p].head,
                                                      !.wt = files[p].head]
                                 ELSE files[p]]

CheckedOut(ps) ==
    [p \in Paths |-> IF p \in ps THEN [files[p] EXCEPT !.wt = Blob(files[p].stage0)]
                                 ELSE files[p]]

(* git clean -f passes over what the index knows.                           *)
Cleaned(ps) ==
    [p \in Paths |-> IF p \in ps /\ ~InIndex(files[p])
                     THEN [files[p] EXCEPT !.wt = None] ELSE files[p]]

(* git rm -f: the index entry, whatever its stages, and the file.           *)
CanRemove(ps) == \A p \in ps : InIndex(files[p])
Removed(ps) ==
    [p \in Paths |-> IF p \in ps
                     THEN [files[p] EXCEPT !.stage0 = None, !.stages = {}, !.wt = None]
                     ELSE files[p]]

(* What git rm -f has done before it writes the index.                      *)
Deleted(ps) ==
    [p \in Paths |-> IF p \in ps THEN [files[p] EXCEPT !.wt = None] ELSE files[p]]

(* git add.                                                                 *)
CanAdd(f) == InIndex(f) \/ f.wt # None
Added(ps) ==
    [p \in Paths |-> IF p \in ps
                     THEN [files[p] EXCEPT !.stage0 = files[p].wt, !.stages = {}]
                     ELSE files[p]]

-----------------------------------------------------------------------------
(* The queue.                                                               *)

NoJob ==
    /\ tracked' = {} /\ untracked' = {} /\ intent' = {}
    /\ path' = None /\ action' = "none" /\ want' = None

(* A command that is answered in one step; its answer is not looked at.     *)
AtOnce ==
    /\ pc = "idle" /\ pc' = "idle"
    /\ NoJob /\ touched' = {} /\ offered' = FALSE /\ reply' = "none"

(* A command that is refused before it has done anything.                   *)
Refuse(wasOffered) ==
    /\ pc = "idle" /\ pc' = "idle" /\ files' = files
    /\ NoJob /\ touched' = {} /\ offered' = wasOffered /\ reply' = "err"

(* The next git command of a command under way, or its answer.              *)
Continue(next) == pc' = next /\ UNCHANGED <<job, touched, offered, reply>>
Answer(answer) == pc' = "idle" /\ reply' = answer /\ UNCHANGED <<job, touched, offered>>

(* git add -- paths, git reset HEAD -- paths, and git commit, which the     *)
(* queue refuses while anything is unmerged.                                *)
Stage(ps) ==
    /\ \A p \in ps : CanAdd(files[p])
    /\ files' = Added(ps)
    /\ AtOnce

Unstage(ps) ==
    /\ files' = [p \in Paths |-> IF p \in ps
                                 THEN [files[p] EXCEPT !.stage0 = files[p].head, !.stages = {}]
                                 ELSE files[p]]
    /\ AtOnce

Commit ==
    \/ /\ \A p \in Paths : ~Unmerged(files[p])
       /\ files' = [p \in Paths |-> IF files[p].stage0 = "intent" THEN files[p]
                                    ELSE [files[p] EXCEPT !.head = files[p].stage0]]
       /\ AtOnce
    \/ /\ \E p \in Paths : Unmerged(files[p])
       /\ files' = files
       /\ AtOnce

(* The system, not git, stops a command that git would carry out: a file    *)
(* cannot be written or removed, the index is locked, the disk is full.     *)
(* Some files have been done by then, and the whole command fails.          *)
Broken(done) == files' = done /\ Answer("broken")

(* Discard: classification by a fresh git status, then up to three git      *)
(* commands; a command without paths is left out.                           *)
DiscardRefused(ps) ==
    /\ \E p \in ps : Unmerged(files[p]) \/ IsClean(files[p])
    /\ Refuse(\A p \in ps : OffersDiscard(files[p]))

Discard(ps) ==
    /\ pc = "idle"
    /\ \A p \in ps : ~Unmerged(files[p]) /\ ~IsClean(files[p])
    /\ tracked' = {p \in ps : IsTracked(files[p])}
    /\ untracked' = {p \in ps : IsUntracked(files[p])}
    /\ intent' = {p \in ps : IsIntent(files[p])}
    /\ pc' = CASE tracked' # {}                     -> "checkout"
                [] tracked' = {} /\ untracked' # {} -> "clean"
                [] OTHER                            -> "rm"
    /\ offered' = \A p \in ps : OffersDiscard(files[p])
    /\ path' = None /\ action' = "none" /\ want' = None
    /\ touched' = {} /\ reply' = "none" /\ UNCHANGED files

DiscardsOn ==
    CASE pc = "checkout" /\ untracked # {} -> Continue("clean")
      [] pc # "rm" /\ intent # {} /\ (pc = "clean" \/ untracked = {}) -> Continue("rm")
      [] OTHER -> Answer("discarded")

(* Mutant: the outcome of git checkout is not looked at.                    *)
DiscardCheckoutAnyway ==
    /\ pc = "checkout"
    /\ \E done \in SUBSET tracked :
         files' = CheckedOut({p \in done : files[p].stage0 # None})
    /\ DiscardsOn

DiscardCheckout ==
    /\ pc = "checkout"
    /\ \/ CanCheckout(tracked) /\ files' = CheckedOut(tracked) /\ DiscardsOn
       \/ ~CanCheckout(tracked) /\ files' = files /\ Answer("err")
       \/ CanCheckout(tracked) /\ \E done \in SUBSET tracked : Broken(CheckedOut(done))

DiscardClean ==
    /\ pc = "clean"
    /\ \/ files' = Cleaned(untracked) /\ DiscardsOn
       \/ \E done \in SUBSET untracked : Broken(Cleaned(done))

(* Mutant: intent-to-add files are handled like tracked ones.               *)
DiscardCheckoutIntent ==
    /\ pc = "rm"
    /\ files' = CheckedOut(intent) /\ DiscardsOn

(* git rm writes the index when all the files are gone.                     *)
DiscardRm ==
    /\ pc = "rm"
    /\ \/ CanRemove(intent) /\ files' = Removed(intent) /\ DiscardsOn
       \/ ~CanRemove(intent) /\ files' = files /\ Answer("err")
       \/ CanRemove(intent) /\ \E done \in SUBSET intent : Broken(Deleted(done))

-----------------------------------------------------------------------------
(* resolve_conflict.                                                        *)

Content == {"bothModified", "bothAdded", "addedByUs", "addedByThem"}

(* Mutant: the two sides of a deletion are mixed up.                        *)
ActionForSwapped(kind, res) ==
    CASE kind \in Content /\ res = "ours"                 -> "takeOurs"
      [] kind \in Content /\ res = "theirs"               -> "takeTheirs"
      [] kind = "deletedByThem" /\ res = "keepOurs"       -> "remove"
      [] kind = "deletedByThem" /\ res = "keepTheirs"     -> "takeOurs"
      [] kind = "deletedByUs" /\ res = "keepOurs"         -> "takeTheirs"
      [] kind = "deletedByUs" /\ res = "keepTheirs"       -> "remove"
      [] kind = "bothDeleted" /\ res \in {"keepOurs", "keepTheirs"} -> "remove"
      [] OTHER                                            -> "none"

(* "none" is a mismatch, answered with an error.                            *)
ActionFor(kind, res) ==
    CASE kind \in Content /\ res = "ours"                 -> "takeOurs"
      [] kind \in Content /\ res = "theirs"               -> "takeTheirs"
      [] kind = "deletedByThem" /\ res = "keepOurs"       -> "takeOurs"
      [] kind = "deletedByThem" /\ res = "keepTheirs"     -> "remove"
      [] kind = "deletedByUs" /\ res = "keepOurs"         -> "remove"
      [] kind = "deletedByUs" /\ res = "keepTheirs"       -> "takeTheirs"
      [] kind = "bothDeleted" /\ res \in {"keepOurs", "keepTheirs"} -> "remove"
      [] OTHER                                            -> "none"

(* The version of the side a resolution names.                              *)
Chosen(f, res) == IF res \in {"ours", "keepOurs"} THEN Side(f, 2) ELSE Side(f, 3)

ResolveRefused(p, res) ==
    /\ ActionFor(Kind(files[p]), res) = "none"
    /\ Refuse(Unmerged(files[p]) /\ res \in OfferedResolutions(files[p]))

Resolve(p, res) ==
    /\ pc = "idle"
    /\ action' = ActionFor(Kind(files[p]), res) /\ action' # "none"
    /\ path' = p /\ want' = Chosen(files[p], res)
    /\ pc' = IF action' = "remove" THEN "remove" ELSE "take"
    /\ offered' = (res \in OfferedResolutions(files[p]))
    /\ tracked' = {} /\ untracked' = {} /\ intent' = {}
    /\ touched' = {} /\ reply' = "none" /\ UNCHANGED files

(* git checkout --ours or --theirs: the stage must exist, and a path that   *)
(* is no longer unmerged is checked out from stage 0.                       *)
Taken(f) ==
    IF Unmerged(f) THEN Side(f, IF action = "takeOurs" THEN 2 ELSE 3) ELSE Blob(f.stage0)

Take ==
    /\ pc = "take"
    /\ \/ /\ Taken(files[path]) # None
          /\ files' = [files EXCEPT ![path].wt = Taken(files[path])] /\ Continue("add")
       \/ Taken(files[path]) = None /\ files' = files /\ Answer("err")
       \/ Taken(files[path]) # None /\ Broken(files)

Add ==
    /\ pc = "add"
    /\ \/ CanAdd(files[path]) /\ files' = Added({path}) /\ Answer("resolved")
       \/ ~CanAdd(files[path]) /\ files' = files /\ Answer("err")
       \/ CanAdd(files[path]) /\ Broken(files)

Remove ==
    /\ pc = "remove"
    /\ \/ CanRemove({path}) /\ files' = Removed({path}) /\ Answer("resolved")
       \/ ~CanRemove({path}) /\ files' = files /\ Answer("err")
       \/ CanRemove({path}) /\ \E done \in SUBSET {path} : Broken(Deleted(done))

-----------------------------------------------------------------------------
(* The environment, at any moment; the command answered last is history     *)
(* then.  Bound: a file changes once while a command runs.                  *)
Disturb(p, f) ==
    /\ files' = [files EXCEPT ![p] = f]
    /\ IF pc = "idle" THEN AtOnce
                      ELSE /\ p \notin touched
                           /\ touched' = touched \cup {p}
                           /\ UNCHANGED <<pc, job, offered, reply>>

(* The user saves or deletes a file.                                        *)
Edit(p) == \E v \in {"mine", None} : files[p].wt # v /\ Disturb(p, [files[p] EXCEPT !.wt = v])

(* A merge, pull or stash pop elsewhere leaves a conflict; git refuses to   *)
(* start one over local changes.                                            *)
Merge(p) ==
    /\ files[p].head = files[p].stage0 /\ files[p].wt = files[p].stage0
    /\ \E s \in SUBSET (1..3) \ {{}} :
         /\ 2 \in s <=> files[p].head # None
         /\ Disturb(p, [files[p] EXCEPT !.stage0 = None, !.stages = s,
                         !.wt = CASE {2, 3} \subseteq s -> "mine"
                                  [] 3 \in s /\ 2 \notin s -> "theirs"
                                  [] OTHER -> files[p].head])

(* git add -N, git rm --cached, git add and git reset by another process.   *)
OtherGit(p) ==
    \/ IsUntracked(files[p]) /\ Disturb(p, [files[p] EXCEPT !.stage0 = "intent"])
    \/ InIndex(files[p]) /\ Disturb(p, [files[p] EXCEPT !.stage0 = None, !.stages = {}])
    \/ files[p].wt # None /\ Disturb(p, Added({p})[p])

Proceed ==
    DiscardCheckout \/ DiscardClean \/ DiscardRm \/ Take \/ Add \/ Remove

Next ==
    \/ \E ps \in SUBSET Paths \ {{}} :
         Stage(ps) \/ Unstage(ps) \/ DiscardRefused(ps) \/ Discard(ps)
    \/ Commit
    \/ \E p \in Paths, res \in Resolutions : ResolveRefused(p, res) \/ Resolve(p, res)
    \/ Proceed
    \/ \E p \in Paths : Edit(p) \/ Merge(p) \/ OtherGit(p)

Spec == Init /\ [][Next]_vars

-----------------------------------------------------------------------------
(* Properties.                                                              *)

Discarding == DiscardCheckout \/ DiscardClean \/ DiscardRm
IndexOf(f) == <<f.stage0, f.stages>>

(* A discard, even one racing other processes or failing midway, never      *)
(* takes a version out of the index of a file that was not intent-to-add    *)
(* when it was classified; and git refuses, when no one interferes, the     *)
(* first command or none, so that a discard that is refused has changed     *)
(* nothing.  One that the system breaks off may have: FailsInOrder.         *)
DiscardIsSafe ==
    [][Discarding =>
         /\ \A p \in Paths \ intent : IndexOf(files'[p]) = IndexOf(files[p])
         /\ reply' = "err" /\ touched = {} => pc = "checkout" /\ files' = files]_vars

(* A discard that fails, whether git refuses a command or the system breaks *)
(* it off, has begun to delete untracked files only when all the tracked    *)
(* ones are restored, and files added with intent only when all the others  *)
(* are done, those aside that others touched meanwhile: what is not in git  *)
(* is deleted last.                                                         *)
RestoredAll == \A p \in tracked \ touched : files[p].wt = Blob(files[p].stage0)
GoneOf(ps)  == {p \in ps \ touched : files[p].wt = None}

FailsInOrder ==
    pc = "idle" /\ reply \in {"err", "broken"} =>
        /\ GoneOf(untracked) # {} => RestoredAll
        /\ GoneOf(intent) # {} => RestoredAll /\ GoneOf(untracked) = untracked \ touched

(* A command that is reported done has done it, to every file nobody else   *)
(* touched meanwhile: a discard leaves nothing but the staged version, or   *)
(* nothing at all of a file that only had been added; a resolution leaves,  *)
(* in the index and the worktree, what the chosen side had.                 *)
DoneIsDone ==
    /\ pc = "idle" /\ reply = "discarded" =>
         /\ RestoredAll
         /\ \A p \in (untracked \cup intent) \ touched :
              files[p].wt = None /\ ~InIndex(files[p])
    /\ pc = "idle" /\ reply = "resolved" /\ path \notin touched =>
         /\ files[path].stage0 = want /\ files[path].wt = want
         /\ ~Unmerged(files[path])

(* What the view offers for a listing that is still true, the engine does,  *)
(* unless the system keeps it from doing so.  Two kinds of files are        *)
(* excepted: those a conflict left with one version only, for which both    *)
(* sides are offered, and those staged as deleted but still there, which    *)
(* are listed as untracked as well.                                         *)
OfferedIsDone ==
    pc = "idle" /\ reply = "err" /\ offered /\ touched = {} =>
        \/ action \in {"takeOurs", "takeTheirs"} /\ want = None
        \/ \E p \in tracked : files[p].head # None /\ files[p].stage0 = None

=============================================================================
