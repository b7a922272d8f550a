---------------------------- MODULE WorktreeProofs ----------------------------
(****************************************************************************)
(* What discards and resolutions of conflicts do to files, for every set of *)
(* paths and whatever editors and other git processes do meanwhile.         *)
(****************************************************************************)
EXTENDS Worktree, TLAPS

(* What the classification said of the files nobody touched since is true   *)
(* until the git command for them, and what that command does stays done.   *)
DiscardOnTrack ==
    /\ pc = "checkout" =>
         \A p \in tracked \ touched : files[p].stage0 = None => files[p].head # None
    /\ pc \in {"clean", "rm"} =>
         \A p \in tracked \ touched : files[p].wt = Blob(files[p].stage0)
    /\ pc \in {"checkout", "clean", "rm"} =>
         /\ \A p \in untracked \ touched : ~InIndex(files[p])
         /\ \A p \in intent \ touched : files[p].stage0 = "intent" /\ files[p].wt # None
    /\ pc = "checkout" => \A p \in untracked \ touched : files[p].wt # None
    /\ pc = "rm" => \A p \in untracked \ touched : files[p].wt = None

(* A conflict is resolved with the version that the chosen side has, which  *)
(* is in the worktree once it was taken.                                    *)
ResolveOnTrack ==
    /\ pc \in {"take", "add", "remove"} =>
         path \in Paths /\ tracked = {} /\ untracked = {} /\ intent = {}
    /\ pc = "take" => action \in {"takeOurs", "takeTheirs"}
    /\ path \notin touched =>
         /\ pc = "take" => /\ Unmerged(files[path])
                           /\ want = Side(files[path], IF action = "takeOurs" THEN 2 ELSE 3)
         /\ pc = "add" => files[path].wt = want /\ want # None
         /\ pc = "remove" => Unmerged(files[path]) /\ want = None

(* A command under way has not been answered.                               *)
NoAnswerYet == pc # "idle" => reply = "none"

JobOnTrack == DiscardOnTrack /\ ResolveOnTrack /\ NoAnswerYet

IInv == TypeOK /\ JobOnTrack /\ DoneIsDone /\ FailsInOrder /\ OfferedIsDone

(* A file and its place in the index are well-formed.                       *)
FileOK(f) == f \in Files /\ (f.stages # {} => f.stage0 = None)
FilesOK == files \in [Paths -> Files] /\ \A p \in Paths : FileOK(files[p])

(* So are the lists of a discard and the resolution in hand.                *)
JobOK ==
    /\ pc \in {"idle", "checkout", "clean", "rm", "take", "add", "remove"}
    /\ tracked \subseteq Paths /\ untracked \subseteq Paths /\ intent \subseteq Paths
    /\ tracked \cap untracked = {} /\ (tracked \cup untracked) \cap intent = {}
    /\ path \in Paths \cup {None} /\ want \in Maybe
    /\ action \in {"takeOurs", "takeTheirs", "remove", "none"}
    /\ touched \subseteq Paths /\ offered \in BOOLEAN
    /\ reply \in {"none", "err", "broken", "discarded", "resolved"}

-----------------------------------------------------------------------------
(* An intent-to-add entry is an entry.                                      *)
LEMMA IntentIsEntry == "intent" # None
BY NoneAssumption DEF Versions

(* The type invariant in two parts, now and after a step.                   *)
LEMMA TypeIsFilesAndJob ==
    /\ TypeOK <=> FilesOK /\ JobOK
    /\ TypeOK' <=> FilesOK' /\ JobOK'
BY DEF TypeOK, FilesOK, FileOK, JobOK

(* An entry names a version, or none,                                       *)
LEMMA BlobIsVersion == ASSUME NEW v \in Maybe PROVE Blob(v) \in Maybe
BY DEF Blob, Maybe, Versions

(* and so does a side of a conflict.                                        *)
LEMMA SideIsVersion ==
    ASSUME NEW f \in Files, NEW n \in {2, 3}
    PROVE  Side(f, n) \in Maybe
BY DEF Side, Files, Maybe, Versions

(* The index or the worktree gets another version.                          *)
LEMMA ChangedFile ==
    ASSUME NEW f, FileOK(f), NEW v \in Maybe, NEW s \in SUBSET (1..3)
    PROVE  /\ FileOK([f EXCEPT !.wt = v]) /\ FileOK([f EXCEPT !.head = v])
           /\ FileOK([f EXCEPT !.stage0 = v, !.stages = {}])
           /\ FileOK([f EXCEPT !.stage0 = None, !.stages = {}, !.wt = v])
           /\ FileOK([f EXCEPT !.stage0 = None, !.stages = s, !.wt = v])
           /\ f.stages = {} => FileOK([f EXCEPT !.stage0 = v])
<1>1. f \in Files /\ None \in Maybe
  BY DEF FileOK, Maybe
<1>. QED BY <1>1 DEF FileOK, Files

(* git commands leave files well-formed.                                    *)
LEMMA CommandsKeepFiles ==
    ASSUME FilesOK, NEW ps \in SUBSET Paths,
           \/ files' = Added(ps) \/ files' = Removed(ps)
           \/ files' = CheckedOut(ps) \/ files' = Cleaned(ps) \/ files' = Deleted(ps)
    PROVE  FilesOK'
<1>1. ASSUME NEW p \in Paths
      PROVE  /\ FileOK([files[p] EXCEPT !.stage0 = files[p].wt, !.stages = {}])
             /\ FileOK([files[p] EXCEPT !.stage0 = None, !.stages = {}, !.wt = None])
             /\ FileOK([files[p] EXCEPT !.wt = Blob(files[p].stage0)])
             /\ FileOK([files[p] EXCEPT !.wt = None])
             /\ FileOK(files[p])
  <2>1. /\ FileOK(files[p]) /\ files[p].wt \in Maybe /\ files[p].stage0 \in Maybe
        /\ None \in Maybe
    BY DEF FilesOK, FileOK, Files, Maybe
  <2>2. Blob(files[p].stage0) \in Maybe
    BY <2>1, BlobIsVersion
  <2>. QED BY <2>1, <2>2, ChangedFile
<1>2. \E g \in [Paths -> Files] : files' = g /\ \A p \in Paths : FileOK(g[p])
  <2>. DEFINE Good(g) == g = [p \in Paths |-> g[p]] /\ \A p \in Paths : FileOK(g[p])
  <2>1. Good(Added(ps))
    BY <1>1 DEF Added
  <2>2. Good(Removed(ps))
    BY <1>1 DEF Removed
  <2>3. Good(CheckedOut(ps))
    BY <1>1 DEF CheckedOut
  <2>4. Good(Cleaned(ps))
    BY <1>1 DEF Cleaned
  <2>5. Good(Deleted(ps))
    BY <1>1 DEF Deleted
  <2>6. Good(files')
    BY <2>1, <2>2, <2>3, <2>4, <2>5
  <2>. QED BY <2>6 DEF FileOK
<1>. QED BY <1>2 DEF FilesOK

-----------------------------------------------------------------------------
(* A command that is answered at once leaves no job behind.                 *)
LEMMA AtOnceTracks ==
    ASSUME AtOnce
    PROVE  JobOK' /\ JobOnTrack' /\ DoneIsDone' /\ FailsInOrder' /\ OfferedIsDone'
<1>1. /\ pc' = "idle" /\ reply' = "none" /\ touched' = {} /\ offered' = FALSE
      /\ tracked' = {} /\ untracked' = {} /\ intent' = {}
      /\ path' = None /\ action' = "none" /\ want' = None
  BY DEF AtOnce, NoJob
<1>. QED BY <1>1 DEF JobOK, JobOnTrack, DiscardOnTrack, ResolveOnTrack, NoAnswerYet,
                     DoneIsDone, FailsInOrder, OfferedIsDone, Maybe

(* Somebody else changes a file: who works on it does not count on it.      *)
LEMMA DisturbTracks ==
    ASSUME IInv, NEW p \in Paths, NEW f, FileOK(f), Disturb(p, f)
    PROVE  IInv'
<1>. USE DEF JobOK, Maybe
<1>0. FilesOK /\ JobOK
  BY TypeIsFilesAndJob DEF IInv
<1>1. FilesOK'
  BY <1>0 DEF Disturb, FilesOK, FileOK
<1>2. CASE pc = "idle"
  BY <1>1, <1>2, AtOnceTracks, TypeIsFilesAndJob DEF Disturb, IInv
<1>3. CASE pc # "idle"
  <2>1. /\ touched' = touched \cup {p}
        /\ UNCHANGED <<pc, tracked, untracked, intent, path, action, want, offered, reply>>
    BY <1>3 DEF Disturb, job
  <2>2. \A q \in Paths \ touched' : files'[q] = files[q]
    BY <1>0, <2>1 DEF Disturb, FilesOK
  <2>3. JobOK'
    BY <1>0, <2>1
  <2>4. DiscardOnTrack'
    BY <1>0, <2>1, <2>2 DEF IInv, JobOnTrack, DiscardOnTrack
  <2>5. ResolveOnTrack'
    BY <1>0, <2>1, <2>2 DEF IInv, JobOnTrack, ResolveOnTrack
  <2>6. NoAnswerYet' /\ DoneIsDone' /\ FailsInOrder' /\ OfferedIsDone'
    BY <1>3, <2>1 DEF IInv, JobOnTrack, NoAnswerYet, DoneIsDone, FailsInOrder, OfferedIsDone
  <2>. QED BY <1>1, <2>3, <2>4, <2>5, <2>6, TypeIsFilesAndJob DEF IInv, JobOnTrack
<1>. QED BY <1>2, <1>3

(* An editor, a merge or a git command of another process.                  *)
LEMMA OthersTrack ==
    ASSUME IInv, NEW p \in Paths, Edit(p) \/ Merge(p) \/ OtherGit(p)
    PROVE  IInv'
<1>0. FilesOK
  BY TypeIsFilesAndJob DEF IInv
<1>1. /\ FileOK(files[p]) /\ files[p].wt \in Maybe /\ files[p].head \in Maybe
      /\ {"mine", "theirs", "intent", None} \subseteq Maybe
  BY <1>0 DEF FilesOK, FileOK, Files, Maybe, Versions
<1>2. CASE Edit(p)
  <2>1. PICK v \in {"mine", None} : Disturb(p, [files[p] EXCEPT !.wt = v])
    BY <1>2 DEF Edit
  <2>2. FileOK([files[p] EXCEPT !.wt = v])
    BY <1>1, ChangedFile
  <2>. QED BY <2>1, <2>2, DisturbTracks
<1>3. CASE Merge(p)
  <2>1. PICK s \in SUBSET (1..3), v \in Maybe :
             Disturb(p, [files[p] EXCEPT !.stage0 = None, !.stages = s, !.wt = v])
    BY <1>1, <1>3 DEF Merge
  <2>2. FileOK([files[p] EXCEPT !.stage0 = None, !.stages = s, !.wt = v])
    BY <1>1, ChangedFile
  <2>. QED BY <2>1, <2>2, DisturbTracks
<1>4. CASE OtherGit(p)
  <2>1. CASE IsUntracked(files[p]) /\ Disturb(p, [files[p] EXCEPT !.stage0 = "intent"])
    <3>1. FileOK([files[p] EXCEPT !.stage0 = "intent"])
      BY <1>1, <2>1, ChangedFile DEF IsUntracked, Unmerged
    <3>. QED BY <2>1, <3>1, DisturbTracks
  <2>2. CASE Disturb(p, [files[p] EXCEPT !.stage0 = None, !.stages = {}])
    <3>1. FileOK([files[p] EXCEPT !.stage0 = None, !.stages = {}])
      BY <1>1, ChangedFile
    <3>. QED BY <2>2, <3>1, DisturbTracks
  <2>3. CASE Disturb(p, Added({p})[p])
    <3>1. Added({p})[p] = [files[p] EXCEPT !.stage0 = files[p].wt, !.stages = {}]
      BY DEF Added
    <3>2. FileOK([files[p] EXCEPT !.stage0 = files[p].wt, !.stages = {}])
      BY <1>1, ChangedFile
    <3>. QED BY <2>3, <3>1, <3>2, DisturbTracks
  <2>. QED BY <1>4, <2>1, <2>2, <2>3 DEF OtherGit
<1>. QED BY <1>2, <1>3, <1>4

-----------------------------------------------------------------------------
(* Stage, unstage and commit run one command, answered at once.             *)
LEMMA OneCommandTracks ==
    ASSUME IInv, Commit \/ \E ps \in SUBSET Paths : Stage(ps) \/ Unstage(ps)
    PROVE  IInv'
<1>0. FilesOK
  BY TypeIsFilesAndJob DEF IInv
<1>1. AtOnce
  BY DEF Commit, Stage, Unstage
<1>2. FilesOK'
  <2>0. \A p \in Paths : /\ FileOK(files[p]) /\ files[p].head \in Maybe
                         /\ files[p].stage0 \in Maybe
    BY <1>0 DEF FilesOK, FileOK, Files
  <2>1. CASE \E ps \in SUBSET Paths : Stage(ps)
    BY <1>0, <2>1, CommandsKeepFiles DEF Stage
  <2>2. ASSUME NEW ps \in SUBSET Paths, Unstage(ps) PROVE FilesOK'
    <3>1. \A p \in Paths : FileOK([files[p] EXCEPT !.stage0 = files[p].head, !.stages = {}])
      BY <2>0, ChangedFile
    <3>2. \A p \in Paths : FileOK(files'[p])
      BY <2>0, <2>2, <3>1 DEF Unstage
    <3>3. files' = [p \in Paths |-> files'[p]]
      BY <2>2 DEF Unstage
    <3>. QED BY <3>2, <3>3 DEF FilesOK, FileOK
  <2>3. CASE Commit
    <3>1. \A p \in Paths : FileOK([files[p] EXCEPT !.head = files[p].stage0])
      BY <2>0, ChangedFile
    <3>2. CASE files' = files
      BY <1>0, <3>2 DEF FilesOK
    <3>3. CASE files' = [p \in Paths |-> IF files[p].stage0 = "intent" THEN files[p]
                                         ELSE [files[p] EXCEPT !.head = files[p].stage0]]
      BY <2>0, <3>1, <3>3 DEF FilesOK, FileOK
    <3>. QED BY <2>3, <3>2, <3>3 DEF Commit
  <2>. QED BY <2>1, <2>2, <2>3
<1>. QED BY <1>1, <1>2, AtOnceTracks, TypeIsFilesAndJob DEF IInv

(* What the view offers to discard git does list as changed ...             *)
LEMMA OfferedIsListed ==
    ASSUME NEW f \in Files, OffersDiscard(f)
    PROVE  ~Unmerged(f) /\ ~IsClean(f)
<1>1. CASE Unmerged(f)
  BY <1>1 DEF OffersDiscard, Listed, BucketOf
<1>2. CASE IsClean(f)
  BY <1>2 DEF OffersDiscard, Listed, IsClean, TreeIndexItems, IndexWorktreeItems, BucketOf
<1>. QED BY <1>1, <1>2

(* ... and a resolution it offers fits the conflict.                        *)
LEMMA OfferedFits ==
    ASSUME NEW f \in Files, Unmerged(f), NEW res \in OfferedResolutions(f)
    PROVE  ActionFor(Kind(f), res) # "none"
<1>1. f.stages \in SUBSET (1..3) /\ f.stages # {}
  BY DEF Files, Unmerged
<1>2. f.stages \in {{1}, {2}, {1, 2}, {3}, {1, 3}, {2, 3}, {1, 2, 3}}
  <2>1. 1 \in f.stages \/ 2 \in f.stages \/ 3 \in f.stages
    BY <1>1
  <2>2. f.stages = {n \in {1, 2, 3} : n \in f.stages}
    BY <1>1
  <2>. QED BY <1>1, <2>1, <2>2
<1>3. Kind(f) \in Content \cup {"bothDeleted", "deletedByThem", "deletedByUs"}
  BY <1>2 DEF Kind, Content
<1>4. res \in {SideResolution(Kind(f), "ours"), SideResolution(Kind(f), "theirs")}
  BY DEF OfferedResolutions
<1>. QED BY <1>3, <1>4 DEF ActionFor, SideResolution, Content

(* So only what the view does not offer is refused.                         *)
LEMMA RefusalTracks ==
    ASSUME IInv, \/ \E ps \in SUBSET Paths \ {{}} : DiscardRefused(ps)
                 \/ \E p \in Paths, res \in Resolutions : ResolveRefused(p, res)
    PROVE  IInv'
<1>0. FilesOK /\ \A p \in Paths : files[p] \in Files
  BY TypeIsFilesAndJob DEF IInv, FilesOK
<1>1. Refuse(FALSE)
  <2>1. ASSUME NEW ps \in SUBSET Paths \ {{}}, DiscardRefused(ps) PROVE Refuse(FALSE)
    <3>1. ~\A p \in ps : OffersDiscard(files[p])
      BY <1>0, <2>1, OfferedIsListed DEF DiscardRefused
    <3>2. (\A p \in ps : OffersDiscard(files[p])) = FALSE
      BY <3>1
    <3>. QED BY <2>1, <3>2 DEF DiscardRefused
  <2>2. ASSUME NEW p \in Paths, NEW res \in Resolutions, ResolveRefused(p, res)
        PROVE  Refuse(FALSE)
    <3>1. ~(Unmerged(files[p]) /\ res \in OfferedResolutions(files[p]))
      BY <1>0, <2>2, OfferedFits DEF ResolveRefused
    <3>2. (Unmerged(files[p]) /\ res \in OfferedResolutions(files[p])) = FALSE
      BY <3>1
    <3>. QED BY <2>2, <3>2 DEF ResolveRefused
  <2>. QED BY <2>1, <2>2
<1>2. /\ pc' = "idle" /\ reply' = "err" /\ touched' = {} /\ offered' = FALSE /\ files' = files
      /\ tracked' = {} /\ untracked' = {} /\ intent' = {}
      /\ path' = None /\ action' = "none" /\ want' = None
  BY <1>1 DEF Refuse, NoJob
<1>3. FilesOK' /\ JobOK'
  BY <1>0, <1>2 DEF FilesOK, JobOK, Maybe
<1>4. JobOnTrack' /\ DoneIsDone' /\ FailsInOrder' /\ OfferedIsDone'
  BY <1>2 DEF JobOnTrack, DiscardOnTrack, ResolveOnTrack, NoAnswerYet, DoneIsDone, FailsInOrder,
              GoneOf, OfferedIsDone
<1>. QED BY <1>3, <1>4, TypeIsFilesAndJob DEF IInv

-----------------------------------------------------------------------------
(* A file is classified by its status: a tracked one that is not in the     *)
(* index is in HEAD.                                                        *)
LEMMA Classified ==
    ASSUME NEW f \in Files
    PROVE  /\ IsTracked(f) => ~IsUntracked(f) /\ ~IsIntent(f)
           /\ ~(IsUntracked(f) /\ IsIntent(f))
           /\ IsTracked(f) /\ f.stage0 = None => f.head # None
           /\ IsUntracked(f) => ~InIndex(f) /\ f.wt # None
           /\ IsIntent(f) => f.stage0 = "intent" /\ f.wt # None
BY IntentIsEntry
DEF IsTracked, IsUntracked, IsIntent, IsClean, InIndex, Unmerged, Versions

(* A discard begins with every file in the list its status calls for.       *)
LEMMA DiscardTracks ==
    ASSUME IInv, NEW ps \in SUBSET Paths \ {{}}, Discard(ps)
    PROVE  IInv'
<1>0. FilesOK /\ JobOK /\ \A p \in Paths : files[p] \in Files
  BY TypeIsFilesAndJob DEF IInv, FilesOK
<1>1. /\ tracked' = {p \in ps : IsTracked(files[p])}
      /\ untracked' = {p \in ps : IsUntracked(files[p])}
      /\ intent' = {p \in ps : IsIntent(files[p])}
      /\ files' = files /\ path' = None /\ action' = "none" /\ want' = None
      /\ touched' = {} /\ reply' = "none" /\ offered' \in BOOLEAN
  BY DEF Discard
<1>2. /\ pc' \in {"checkout", "clean", "rm"}
      /\ pc' # "checkout" => tracked' = {}
      /\ pc' = "rm" => untracked' = {}
  BY DEF Discard
<1>3. FilesOK'
  BY <1>0, <1>1 DEF FilesOK
<1>4. JobOK'
  BY <1>0, <1>1, <1>2, Classified DEF JobOK, Maybe
<1>5. DiscardOnTrack'
  BY <1>0, <1>1, <1>2, Classified DEF DiscardOnTrack
<1>6. ResolveOnTrack' /\ NoAnswerYet' /\ DoneIsDone' /\ FailsInOrder' /\ OfferedIsDone'
  BY <1>1, <1>2 DEF ResolveOnTrack, NoAnswerYet, DoneIsDone, FailsInOrder, OfferedIsDone
<1>. QED BY <1>3, <1>4, <1>5, <1>6, TypeIsFilesAndJob DEF IInv, JobOnTrack

(* A command of a discard changes only files of its list, and the next one  *)
(* is for another list.                                                     *)
LEMMA DiscardsOnTracks ==
    ASSUME IInv, pc \in {"checkout", "clean", "rm"}, FilesOK', DiscardsOn,
           pc = "checkout" => files' = CheckedOut(tracked),
           pc = "clean" => files' = Cleaned(untracked),
           pc = "rm" => files' = Removed(intent)
    PROVE  IInv'
<1>0. FilesOK /\ JobOK
  BY TypeIsFilesAndJob DEF IInv
<1>1. /\ UNCHANGED <<tracked, untracked, intent, path, action, want, touched, offered>>
      /\ \/ pc' = "clean" /\ pc = "checkout" /\ reply' = reply
         \/ pc' = "rm" /\ pc = "clean" /\ reply' = reply
         \/ pc' = "rm" /\ pc = "checkout" /\ untracked = {} /\ reply' = reply
         \/ pc' = "idle" /\ reply' = "discarded" /\ pc = "rm"
         \/ pc' = "idle" /\ reply' = "discarded" /\ intent = {} /\ pc = "clean"
         \/ pc' = "idle" /\ reply' = "discarded" /\ intent = {} /\ pc = "checkout"
               /\ untracked = {}
  BY DEF DiscardsOn, Continue, Answer, job
<1>2. JobOK'
  BY <1>0, <1>1 DEF JobOK
<1>3. \A p \in tracked \ touched : files'[p].wt = Blob(files'[p].stage0)
  <2>1. CASE pc = "checkout"
    BY <1>0, <2>1, BlobIsVersion DEF CheckedOut, FilesOK, JobOK, Files
  <2>2. CASE pc # "checkout"
    <3>1. \A p \in tracked : files'[p] = files[p]
      BY <1>0, <2>2 DEF Cleaned, Removed, JobOK
    <3>. QED BY <2>2, <3>1 DEF IInv, JobOnTrack, DiscardOnTrack
  <2>. QED BY <2>1, <2>2
<1>4. /\ \A p \in untracked \ touched : ~InIndex(files'[p])
      /\ pc = "clean" \/ pc = "rm" => \A p \in untracked \ touched : files'[p].wt = None
  <2>1. CASE pc = "clean"
    BY <1>0, <2>1 DEF IInv, JobOnTrack, DiscardOnTrack, Cleaned, FilesOK, JobOK, Files, InIndex,
                      Unmerged
  <2>2. CASE pc # "clean"
    <3>1. \A p \in untracked : files'[p] = files[p]
      BY <1>0, <2>2 DEF CheckedOut, Removed, JobOK
    <3>. QED BY <2>2, <3>1 DEF IInv, JobOnTrack, DiscardOnTrack
  <2>. QED BY <2>1, <2>2
<1>5. /\ pc # "rm" =>
           \A p \in intent \ touched : files'[p].stage0 = "intent" /\ files'[p].wt # None
      /\ pc = "rm" => \A p \in intent : files'[p].wt = None /\ ~InIndex(files'[p])
  <2>1. CASE pc = "rm"
    BY <1>0, <2>1 DEF Removed, FilesOK, JobOK, Files, InIndex, Unmerged
  <2>2. CASE pc # "rm"
    <3>1. \A p \in intent : files'[p] = files[p]
      BY <1>0, <2>2 DEF CheckedOut, Cleaned, JobOK
    <3>. QED BY <2>2, <3>1 DEF IInv, JobOnTrack, DiscardOnTrack
  <2>. QED BY <2>1, <2>2
<1>6. DiscardOnTrack'
  BY <1>1, <1>3, <1>4, <1>5 DEF DiscardOnTrack
<1>7. ResolveOnTrack' /\ NoAnswerYet' /\ OfferedIsDone' /\ FailsInOrder'
  BY <1>1 DEF IInv, JobOnTrack, ResolveOnTrack, NoAnswerYet, OfferedIsDone, FailsInOrder
<1>8. DoneIsDone'
  BY <1>1, <1>3, <1>4, <1>5 DEF DoneIsDone, RestoredAll
<1>. QED BY <1>2, <1>6, <1>7, <1>8, TypeIsFilesAndJob DEF IInv, JobOnTrack

(* What the files of the lists are like when a command of a discard fails.  *)
LEMMA FailureInOrder ==
    ASSUME IInv, pc \in {"checkout", "clean", "rm"},
           UNCHANGED <<tracked, untracked, intent, touched>>,
           pc # "checkout" => \A p \in tracked : files'[p] = files[p],
           pc # "clean" => \A p \in untracked : files'[p] = files[p],
           pc # "rm" => \A p \in intent : files'[p] = files[p]
    PROVE  FailsInOrder'
<1>1. pc = "checkout" => GoneOf(untracked)' = {}
  BY DEF IInv, JobOnTrack, DiscardOnTrack, GoneOf
<1>2. pc # "rm" => GoneOf(intent)' = {}
  BY DEF IInv, JobOnTrack, DiscardOnTrack, GoneOf
<1>3. pc # "checkout" => RestoredAll'
  BY DEF IInv, JobOnTrack, DiscardOnTrack, RestoredAll
<1>4. pc = "rm" => GoneOf(untracked)' = (untracked \ touched)'
  BY DEF IInv, JobOnTrack, DiscardOnTrack, GoneOf
<1>. QED BY <1>1, <1>2, <1>3, <1>4 DEF FailsInOrder

(* A command that git refuses leaves everything as it is, and the answer is *)
(* an error.                                                                *)
LEMMA FailureTracks ==
    ASSUME IInv, files' = files, Answer("err"), pc # "idle", FailsInOrder',
           \/ path \in touched \/ touched # {}
           \/ action \in {"takeOurs", "takeTheirs"} /\ want = None
           \/ \E p \in tracked : files[p].head # None /\ files[p].stage0 = None
    PROVE  IInv'
<1>0. FilesOK /\ JobOK
  BY TypeIsFilesAndJob DEF IInv
<1>1. /\ UNCHANGED <<tracked, untracked, intent, path, action, want, touched, offered>>
      /\ pc' = "idle" /\ reply' = "err"
  BY DEF Answer, job
<1>2. FilesOK' /\ JobOK'
  BY <1>0, <1>1 DEF FilesOK, JobOK
<1>3. JobOnTrack' /\ DoneIsDone' /\ OfferedIsDone'
  BY <1>1 DEF JobOnTrack, DiscardOnTrack, ResolveOnTrack, NoAnswerYet, DoneIsDone, OfferedIsDone
<1>. QED BY <1>2, <1>3, TypeIsFilesAndJob DEF IInv

(* One that the system breaks off says nothing of the offer.                *)
LEMMA BrokenTracks ==
    ASSUME IInv, FilesOK', Answer("broken"), FailsInOrder'
    PROVE  IInv'
<1>0. JobOK
  BY TypeIsFilesAndJob DEF IInv
<1>1. /\ UNCHANGED <<tracked, untracked, intent, path, action, want, touched, offered>>
      /\ pc' = "idle" /\ reply' = "broken"
  BY DEF Answer, job
<1>2. JobOK'
  BY <1>0, <1>1 DEF JobOK
<1>3. JobOnTrack' /\ DoneIsDone' /\ OfferedIsDone'
  BY <1>1 DEF JobOnTrack, DiscardOnTrack, ResolveOnTrack, NoAnswerYet, DoneIsDone, OfferedIsDone
<1>. QED BY <1>2, <1>3, TypeIsFilesAndJob DEF IInv

(* While a conflict is resolved the lists of a discard are empty.           *)
LEMMA ResolutionFailsInOrder ==
    ASSUME IInv, pc \in {"take", "add", "remove"}, Answer("err") \/ Answer("broken")
    PROVE  FailsInOrder'
<1>1. tracked' = {} /\ untracked' = {} /\ intent' = {}
  BY DEF IInv, JobOnTrack, ResolveOnTrack, Answer, job
<1>. QED BY <1>1 DEF FailsInOrder, GoneOf

(* A resolution that is broken off before a file was changed.               *)
LEMMA BrokenStops ==
    ASSUME IInv, pc \in {"take", "add"}, Broken(files)
    PROVE  IInv'
<1>1. FilesOK' /\ Answer("broken")
  BY TypeIsFilesAndJob DEF IInv, Broken, FilesOK
<1>. QED BY <1>1, ResolutionFailsInOrder, BrokenTracks

(* Every command of a discard does its part, or fails for a reason the      *)
(* view knows or somebody else gave.                                        *)
LEMMA DiscardingTracks == ASSUME IInv, Discarding PROVE IInv'
<1>0. FilesOK /\ JobOK
  BY TypeIsFilesAndJob DEF IInv
<1>1. CASE DiscardCheckout
  <2>1. CASE files' = CheckedOut(tracked) /\ DiscardsOn
    <3>1. pc = "checkout"
      BY <1>1 DEF DiscardCheckout
    <3>2. FilesOK'
      BY <1>0, <2>1, CommandsKeepFiles DEF JobOK
    <3>. QED BY <2>1, <3>1, <3>2, DiscardsOnTracks
  <2>2. CASE ~CanCheckout(tracked) /\ files' = files /\ Answer("err")
    <3>1. PICK p \in tracked : files[p].stage0 = None
      BY <2>2 DEF CanCheckout
    <3>2. p \in touched \/ files[p].head # None
      BY <1>1, <3>1 DEF DiscardCheckout, IInv, JobOnTrack, DiscardOnTrack
    <3>3. touched # {} \/ \E q \in tracked : files[q].head # None /\ files[q].stage0 = None
      BY <3>1, <3>2
    <3>4. FailsInOrder'
      BY <1>1, <2>2, FailureInOrder DEF DiscardCheckout, Answer, job
    <3>. QED BY <1>1, <2>2, <3>3, <3>4, FailureTracks DEF DiscardCheckout
  <2>3. ASSUME NEW done \in SUBSET tracked, Broken(CheckedOut(done)) PROVE IInv'
    <3>1. files' = CheckedOut(done) /\ Answer("broken") /\ pc = "checkout"
      BY <1>1, <2>3 DEF Broken, DiscardCheckout
    <3>2. FilesOK'
      BY <1>0, <3>1, CommandsKeepFiles DEF JobOK
    <3>3. \A p \in untracked \cup intent : files'[p] = files[p]
      BY <1>0, <3>1 DEF CheckedOut, JobOK
    <3>4. FailsInOrder'
      BY <3>1, <3>3, FailureInOrder DEF Answer, job
    <3>. QED BY <3>1, <3>2, <3>4, BrokenTracks
  <2>. QED BY <1>1, <2>1, <2>2, <2>3 DEF DiscardCheckout
<1>2. CASE DiscardClean
  <2>0. pc = "clean"
    BY <1>2 DEF DiscardClean
  <2>1. CASE files' = Cleaned(untracked) /\ DiscardsOn
    <3>1. FilesOK'
      BY <1>0, <2>1, CommandsKeepFiles DEF JobOK
    <3>. QED BY <2>0, <2>1, <3>1, DiscardsOnTracks
  <2>2. ASSUME NEW done \in SUBSET untracked, Broken(Cleaned(done)) PROVE IInv'
    <3>1. files' = Cleaned(done) /\ Answer("broken")
      BY <2>2 DEF Broken
    <3>2. FilesOK'
      BY <1>0, <3>1, CommandsKeepFiles DEF JobOK
    <3>3. \A p \in tracked \cup intent : files'[p] = files[p]
      BY <1>0, <3>1 DEF Cleaned, JobOK
    <3>4. FailsInOrder'
      BY <2>0, <3>1, <3>3, FailureInOrder DEF Answer, job
    <3>. QED BY <3>1, <3>2, <3>4, BrokenTracks
  <2>. QED BY <1>2, <2>1, <2>2 DEF DiscardClean
<1>3. CASE DiscardRm
  <2>0. pc = "rm"
    BY <1>3 DEF DiscardRm
  <2>1. CASE files' = Removed(intent) /\ DiscardsOn
    <3>1. FilesOK'
      BY <1>0, <2>1, CommandsKeepFiles DEF JobOK
    <3>. QED BY <2>0, <2>1, <3>1, DiscardsOnTracks
  <2>2. CASE ~CanRemove(intent) /\ files' = files /\ Answer("err")
    <3>1. touched # {}
      BY <2>0, <2>2, IntentIsEntry
      DEF CanRemove, InIndex, Versions, IInv, JobOnTrack, DiscardOnTrack
    <3>2. FailsInOrder'
      BY <2>0, <2>2, FailureInOrder DEF Answer, job
    <3>. QED BY <2>0, <2>2, <3>1, <3>2, FailureTracks
  <2>3. ASSUME NEW done \in SUBSET intent, Broken(Deleted(done)) PROVE IInv'
    <3>1. files' = Deleted(done) /\ Answer("broken")
      BY <2>3 DEF Broken
    <3>2. FilesOK'
      BY <1>0, <3>1, CommandsKeepFiles DEF JobOK
    <3>3. \A p \in tracked \cup untracked : files'[p] = files[p]
      BY <1>0, <3>1 DEF Deleted, JobOK
    <3>4. FailsInOrder'
      BY <2>0, <3>1, <3>3, FailureInOrder DEF Answer, job
    <3>. QED BY <3>1, <3>2, <3>4, BrokenTracks
  <2>. QED BY <1>3, <2>1, <2>2, <2>3 DEF DiscardRm
<1>. QED BY <1>1, <1>2, <1>3 DEF Discarding

-----------------------------------------------------------------------------
(* What is done about a conflict is what the chosen side did.               *)
LEMMA ActionIsChosen ==
    ASSUME NEW f \in Files, NEW res \in Resolutions, ActionFor(Kind(f), res) # "none"
    PROVE  /\ Unmerged(f) /\ Chosen(f, res) \in Maybe
           /\ ActionFor(Kind(f), res) \in {"takeOurs", "takeTheirs", "remove"}
           /\ ActionFor(Kind(f), res) = "takeOurs" => Chosen(f, res) = Side(f, 2)
           /\ ActionFor(Kind(f), res) = "takeTheirs" => Chosen(f, res) = Side(f, 3)
           /\ ActionFor(Kind(f), res) = "remove" => Chosen(f, res) = None
<1>. USE DEF ActionFor, Content, Resolutions
<1>1. Kind(f) # "none"
  OBVIOUS
<1>2. f.stages # {}
  BY <1>1 DEF Kind
<1>3. Chosen(f, res) \in Maybe
  BY SideIsVersion DEF Chosen
<1>4. /\ Kind(f) = "bothDeleted" => f.stages = {1}
      /\ Kind(f) = "deletedByThem" => f.stages = {1, 2}
      /\ Kind(f) = "deletedByUs" => f.stages = {1, 3}
  BY DEF Kind
<1>5. ASSUME ActionFor(Kind(f), res) = "remove" PROVE Chosen(f, res) = None
  <2>1. CASE Kind(f) = "bothDeleted"
    BY <1>4, <2>1 DEF Chosen, Side
  <2>2. CASE Kind(f) = "deletedByThem" /\ res = "keepTheirs"
    BY <1>4, <2>2 DEF Chosen, Side
  <2>3. CASE Kind(f) = "deletedByUs" /\ res = "keepOurs"
    BY <1>4, <2>3 DEF Chosen, Side
  <2>. QED BY <1>5, <2>1, <2>2, <2>3
<1>6. /\ ActionFor(Kind(f), res) \in {"takeOurs", "takeTheirs", "remove"}
      /\ ActionFor(Kind(f), res) = "takeOurs" => res \in {"ours", "keepOurs"}
      /\ ActionFor(Kind(f), res) = "takeTheirs" => res \in {"theirs", "keepTheirs"}
  OBVIOUS
<1>. QED BY <1>2, <1>3, <1>5, <1>6 DEF Unmerged, Chosen

(* A resolution begins with the side that was chosen.                       *)
LEMMA ResolveTracks ==
    ASSUME IInv, NEW p \in Paths, NEW res \in Resolutions, Resolve(p, res)
    PROVE  IInv'
<1>0. FilesOK /\ JobOK /\ files[p] \in Files
  BY TypeIsFilesAndJob DEF IInv, FilesOK
<1>1. /\ action' = ActionFor(Kind(files[p]), res) /\ action' # "none"
      /\ path' = p /\ want' = Chosen(files[p], res)
      /\ pc' = IF action' = "remove" THEN "remove" ELSE "take"
      /\ offered' \in BOOLEAN /\ touched' = {} /\ reply' = "none"
      /\ tracked' = {} /\ untracked' = {} /\ intent' = {} /\ files' = files
  BY DEF Resolve
<1>2. FilesOK'
  BY <1>0, <1>1 DEF FilesOK
<1>3. JobOK'
  BY <1>0, <1>1, ActionIsChosen DEF JobOK
<1>4. DiscardOnTrack' /\ NoAnswerYet' /\ DoneIsDone' /\ FailsInOrder' /\ OfferedIsDone'
  BY <1>1 DEF DiscardOnTrack, NoAnswerYet, DoneIsDone, FailsInOrder, OfferedIsDone
<1>5. ResolveOnTrack'
  BY <1>0, <1>1, ActionIsChosen DEF ResolveOnTrack
<1>. QED BY <1>2, <1>3, <1>4, <1>5, TypeIsFilesAndJob DEF IInv, JobOnTrack

(* The first of two commands takes it to the worktree ...                   *)
LEMMA TakeTracks == ASSUME IInv, Take PROVE IInv'
<1>. DEFINE n == IF action = "takeOurs" THEN 2 ELSE 3
<1>0. /\ FilesOK /\ JobOK /\ path \in Paths /\ files[path] \in Files /\ pc = "take"
      /\ tracked = {} /\ untracked = {} /\ intent = {}
      /\ action \in {"takeOurs", "takeTheirs"} /\ FileOK(files[path])
  BY TypeIsFilesAndJob DEF IInv, JobOnTrack, ResolveOnTrack, Take, FilesOK
<1>1. Taken(files[path]) \in Maybe
  BY <1>0, SideIsVersion, BlobIsVersion DEF Taken, Files
<1>2. path \notin touched => Taken(files[path]) = want
  BY <1>0 DEF IInv, JobOnTrack, ResolveOnTrack, Taken
<1>3. CASE Taken(files[path]) # None /\ ~Broken(files)
  <2>1. /\ files' = [files EXCEPT ![path].wt = Taken(files[path])] /\ pc' = "add"
        /\ UNCHANGED <<tracked, untracked, intent, path, action, want, touched, offered, reply>>
    BY <1>3 DEF Take, Continue, job
  <2>2. FileOK([files[path] EXCEPT !.wt = Taken(files[path])])
    BY <1>0, <1>1, ChangedFile
  <2>3. FilesOK'
    BY <1>0, <2>1, <2>2 DEF FilesOK, FileOK
  <2>4. files'[path].wt = Taken(files[path])
    BY <1>0, <2>1 DEF FilesOK, Files
  <2>5. ResolveOnTrack'
    BY <1>0, <1>2, <1>3, <2>1, <2>4 DEF ResolveOnTrack
  <2>6. /\ JobOK' /\ DiscardOnTrack' /\ NoAnswerYet' /\ DoneIsDone'
        /\ FailsInOrder' /\ OfferedIsDone'
    BY <1>0, <2>1 DEF IInv, JobOK, JobOnTrack, DiscardOnTrack, NoAnswerYet, DoneIsDone,
                      FailsInOrder, OfferedIsDone
  <2>. QED BY <2>3, <2>5, <2>6, TypeIsFilesAndJob DEF IInv, JobOnTrack
<1>4. CASE Taken(files[path]) = None
  <2>1. files' = files /\ Answer("err")
    BY <1>4 DEF Take
  <2>. QED BY <1>0, <1>2, <1>4, <2>1, ResolutionFailsInOrder, FailureTracks
<1>5. CASE Broken(files)
  BY <1>0, <1>5, BrokenStops
<1>. QED BY <1>3, <1>4, <1>5

(* The last command of a resolution leaves the version of the chosen side,  *)
(* if nobody interferes.                                                    *)
LEMMA ResolvedTracks ==
    ASSUME IInv, pc \in {"add", "remove"}, FilesOK', Answer("resolved"), path \in Paths,
           path \notin touched => /\ files'[path].stage0 = want /\ files'[path].wt = want
                                  /\ ~Unmerged(files'[path])
    PROVE  IInv'
<1>0. JobOK
  BY TypeIsFilesAndJob DEF IInv
<1>1. /\ UNCHANGED <<tracked, untracked, intent, path, action, want, touched, offered>>
      /\ pc' = "idle" /\ reply' = "resolved"
  BY DEF Answer, job
<1>2. JobOK'
  BY <1>0, <1>1 DEF JobOK
<1>3. JobOnTrack' /\ OfferedIsDone'
  BY <1>1 DEF JobOnTrack, DiscardOnTrack, ResolveOnTrack, NoAnswerYet, OfferedIsDone
<1>4. DoneIsDone'
  BY <1>1 DEF DoneIsDone
<1>5. FailsInOrder'
  BY <1>1 DEF FailsInOrder
<1>. QED BY <1>2, <1>3, <1>4, <1>5, TypeIsFilesAndJob DEF IInv

(* ... and the second to the index,                                         *)
LEMMA AddTracks == ASSUME IInv, Add PROVE IInv'
<1>0. /\ FilesOK /\ path \in Paths /\ files[path] \in Files /\ pc = "add"
      /\ path \notin touched => files[path].wt = want /\ want # None
  BY TypeIsFilesAndJob DEF IInv, JobOnTrack, ResolveOnTrack, Add, FilesOK
<1>1. CASE CanAdd(files[path]) /\ ~Broken(files)
  <2>1. files' = Added({path}) /\ Answer("resolved")
    BY <1>1 DEF Add
  <2>2. FilesOK'
    BY <1>0, <2>1, CommandsKeepFiles
  <2>3. files'[path] = [files[path] EXCEPT !.stage0 = files[path].wt, !.stages = {}]
    BY <1>0, <2>1 DEF Added
  <2>4. files'[path].stage0 = files[path].wt /\ files'[path].wt = files[path].wt
        /\ ~Unmerged(files'[path])
    BY <1>0, <2>3 DEF Files, Unmerged
  <2>. QED BY <1>0, <2>1, <2>2, <2>4, ResolvedTracks
<1>2. CASE ~CanAdd(files[path])
  <2>1. path \in touched
    BY <1>0, <1>2 DEF CanAdd
  <2>2. files' = files /\ Answer("err")
    BY <1>2 DEF Add
  <2>. QED BY <1>0, <2>1, <2>2, ResolutionFailsInOrder, FailureTracks
<1>3. CASE Broken(files)
  BY <1>0, <1>3, BrokenStops
<1>. QED BY <1>1, <1>2, <1>3

(* or there is nothing to take, and the file is removed.                    *)
LEMMA RemoveTracks == ASSUME IInv, Remove PROVE IInv'
<1>0. /\ FilesOK /\ path \in Paths /\ files[path] \in Files /\ pc = "remove"
      /\ path \notin touched => Unmerged(files[path]) /\ want = None
  BY TypeIsFilesAndJob DEF IInv, JobOnTrack, ResolveOnTrack, Remove, FilesOK
<1>1. CASE files' = Removed({path}) /\ Answer("resolved")
  <2>2. FilesOK'
    BY <1>0, <1>1, CommandsKeepFiles
  <2>3. files'[path] = [files[path] EXCEPT !.stage0 = None, !.stages = {}, !.wt = None]
    BY <1>0, <1>1 DEF Removed
  <2>4. files'[path].stage0 = None /\ files'[path].wt = None /\ ~Unmerged(files'[path])
    BY <1>0, <2>3 DEF Files, Unmerged
  <2>. QED BY <1>0, <1>1, <2>2, <2>4, ResolvedTracks
<1>2. CASE ~CanRemove({path}) /\ files' = files /\ Answer("err")
  <2>1. path \in touched
    BY <1>0, <1>2 DEF CanRemove, InIndex
  <2>. QED BY <1>0, <1>2, <2>1, ResolutionFailsInOrder, FailureTracks
<1>3. ASSUME NEW done \in SUBSET {path}, Broken(Deleted(done)) PROVE IInv'
  <2>1. files' = Deleted(done) /\ Answer("broken") /\ done \in SUBSET Paths
    BY <1>0, <1>3 DEF Broken
  <2>2. FilesOK'
    BY <1>0, <2>1, CommandsKeepFiles
  <2>. QED BY <1>0, <2>1, <2>2, ResolutionFailsInOrder, BrokenTracks
<1>. QED BY <1>1, <1>2, <1>3 DEF Remove

-----------------------------------------------------------------------------
(* All files are as in HEAD, and the queue is empty.                        *)
LEMMA InitIInv == Init => IInv
<1>. SUFFICES ASSUME Init PROVE IInv
  OBVIOUS
<1>1. FilesOK
  BY DEF Init, FilesOK, FileOK, Files, Maybe, Versions
<1>2. JobOK /\ JobOnTrack /\ DoneIsDone /\ FailsInOrder /\ OfferedIsDone
  BY DEF Init, JobOK, JobOnTrack, DiscardOnTrack, ResolveOnTrack, NoAnswerYet, DoneIsDone,
         FailsInOrder, OfferedIsDone, Maybe
<1>. QED BY <1>1, <1>2, TypeIsFilesAndJob DEF IInv

(* A step that changes nothing.                                             *)
LEMMA StutterTracks == ASSUME IInv, UNCHANGED vars PROVE IInv'
<1>1. TypeOK'
  BY DEF IInv, TypeOK, vars, job
<1>2. JobOnTrack'
  BY DEF IInv, JobOnTrack, DiscardOnTrack, ResolveOnTrack, NoAnswerYet, Side, vars, job
<1>3. DoneIsDone' /\ FailsInOrder' /\ OfferedIsDone'
  BY DEF IInv, DoneIsDone, FailsInOrder, OfferedIsDone, RestoredAll, GoneOf, vars, job
<1>. QED BY <1>1, <1>2, <1>3 DEF IInv

(* Every reachable state satisfies the inductive invariant.                 *)
LEMMA Inductive == Spec => []IInv
<1>1. IInv /\ [Next]_vars => IInv'
  <2>. SUFFICES ASSUME IInv, [Next]_vars PROVE IInv'
    OBVIOUS
  <2>1. CASE UNCHANGED vars
    BY <2>1, StutterTracks
  <2>2. CASE \E ps \in SUBSET Paths \ {{}} : Stage(ps) \/ Unstage(ps)
    BY <2>2, OneCommandTracks
  <2>3. CASE Commit
    BY <2>3, OneCommandTracks
  <2>4. CASE \E ps \in SUBSET Paths \ {{}} : DiscardRefused(ps)
    BY <2>4, RefusalTracks
  <2>5. CASE \E p \in Paths, res \in Resolutions : ResolveRefused(p, res)
    BY <2>5, RefusalTracks
  <2>6. CASE \E ps \in SUBSET Paths \ {{}} : Discard(ps)
    BY <2>6, DiscardTracks
  <2>7. CASE \E p \in Paths, res \in Resolutions : Resolve(p, res)
    BY <2>7, ResolveTracks
  <2>8. CASE Proceed
    BY <2>8, DiscardingTracks, TakeTracks, AddTracks, RemoveTracks DEF Proceed, Discarding
  <2>9. CASE \E p \in Paths : Edit(p) \/ Merge(p) \/ OtherGit(p)
    BY <2>9, OthersTrack
  <2>. QED BY <2>1, <2>2, <2>3, <2>4, <2>5, <2>6, <2>7, <2>8, <2>9 DEF Next
<1>. QED BY InitIInv, <1>1, PTL DEF Spec

-----------------------------------------------------------------------------
(* Files have an index entry or the stages of a conflict, and a path is in  *)
(* one of the three lists of a discard at most.                             *)
THEOREM TypeCorrect == Spec => []TypeOK
<1>1. IInv => TypeOK
  BY DEF IInv
<1>. QED BY Inductive, <1>1, PTL

(* A discard or resolution that is reported done is done, to every file     *)
(* that nobody else touched meanwhile.                                      *)
THEOREM ReportedIsDone == Spec => []DoneIsDone
<1>1. IInv => DoneIsDone
  BY DEF IInv
<1>. QED BY Inductive, <1>1, PTL

(* What the view offers for a listing that is still true is done, with the  *)
(* two exceptions the property names.                                       *)
THEOREM OffersAreKept == Spec => []OfferedIsDone
<1>1. IInv => OfferedIsDone
  BY DEF IInv
<1>. QED BY Inductive, <1>1, PTL

(* A discard that fails has deleted untracked files only when all tracked   *)
(* ones are restored, and files added with intent after all others, those   *)
(* aside that somebody else touched.                                        *)
THEOREM FailuresAreInOrder == Spec => []FailsInOrder
<1>1. IInv => FailsInOrder
  BY DEF IInv
<1>. QED BY Inductive, <1>1, PTL

(* A discard takes nothing out of the index but what was intent-to-add, and *)
(* one that git refuses, when no one interferes, has changed nothing.       *)
THEOREM DiscardsAreSafe == Spec => DiscardIsSafe
<1>1. IInv /\ [Next]_vars =>
         [Discarding =>
            /\ \A p \in Paths \ intent : IndexOf(files'[p]) = IndexOf(files[p])
            /\ reply' = "err" /\ touched = {} => pc = "checkout" /\ files' = files]_vars
  <2>. SUFFICES ASSUME IInv, Discarding
       PROVE  /\ \A p \in Paths \ intent : IndexOf(files'[p]) = IndexOf(files[p])
              /\ reply' = "err" /\ touched = {} => pc = "checkout" /\ files' = files
    OBVIOUS
  <2>0. FilesOK /\ JobOK /\ pc # "idle" /\ reply = "none"
    BY TypeIsFilesAndJob
    DEF IInv, JobOnTrack, NoAnswerYet, Discarding, DiscardCheckout, DiscardClean, DiscardRm
  <2>1. ASSUME NEW p \in Paths \ intent PROVE IndexOf(files'[p]) = IndexOf(files[p])
    <3>1. \/ \E ps \in SUBSET Paths : files' = CheckedOut(ps) \/ files' = Cleaned(ps)
          \/ files' = files \/ files' = Removed(intent)
          \/ \E ps \in SUBSET intent : files' = Deleted(ps)
      BY <2>0 DEF JobOK, Broken, Discarding, DiscardCheckout, DiscardClean, DiscardRm
    <3>2. \/ files'[p] = files[p]
          \/ \E v : files'[p] = [files[p] EXCEPT !.wt = v]
      BY <3>1 DEF CheckedOut, Cleaned, Removed, Deleted
    <3>. QED BY <2>0, <3>2 DEF IndexOf, FilesOK, Files
  <2>2. ASSUME reply' = "err", touched = {} PROVE pc = "checkout" /\ files' = files
    <3>1. ~DiscardsOn
      BY <2>0, <2>2 DEF DiscardsOn, Continue, Answer
    <3>2. ~\E done : Broken(done)
      BY <2>2 DEF Broken, Answer
    <3>3. \A p \in intent : pc = "rm" => files[p].stage0 = "intent"
      BY <2>2 DEF IInv, JobOnTrack, DiscardOnTrack
    <3>4. ~DiscardRm
      BY <3>1, <3>2, <3>3, IntentIsEntry DEF DiscardRm, CanRemove, InIndex, Versions
    <3>. QED BY <3>1, <3>2, <3>4 DEF Discarding, DiscardCheckout, DiscardClean
  <2>. QED BY <2>1, <2>2
<1>. QED BY Inductive, <1>1, PTL DEF Spec, DiscardIsSafe

=============================================================================
