-------------------------------- MODULE NetOps --------------------------------
(****************************************************************************)
(* Network operations of the extension, editors/vscode/src/netOps.ts: the   *)
(* fetch, pull, push, sync, publish and force-push flows, each a chain of   *)
(* engine requests and dialogs under one in-flight guard, beside a timer    *)
(* that fetches (extension.ts), a user who commits and switches branches    *)
(* while a dialog is open, and other people who push.  A history is the set *)
(* of its changes: pulling merges sets, whether by merge or by rebase.      *)
(****************************************************************************)
EXTENDS Naturals, FiniteSets

CONSTANTS
    Branches,   \* names of local and of remote branches
    Commits,    \* changes
    None,       \* no upstream; a detached HEAD
    ForceModes  \* gitbamboo.push.forceMode may be any of these

ASSUME BranchAssumption == None \notin Branches
ASSUME ModeAssumption == ForceModes \subseteq {"lease", "force"}

Surfaces == {"user", "timer"}    \* palette and toolbar; the auto-fetch timer
Ops == {"fetch", "pull", "push", "sync", "publish", "force"}
Dialogs == {"offer", "pick", "behind", "rejected", "confirm"}
Commands == {"status", "refresh", "publishing", "pulling", "recovering", "target", "pushing",
             "forceTarget", "forcing", "fetching"}
Histories == SUBSET Commits

VARIABLES
    \* the repository and its remote
    head,      \* the current branch, or None
    tip, upstream, tracking, remote,
    \* the extension
    guard,     \* netOpInFlight has the engine client
    pc,        \* where a flow stands: in a dialog, in a request, or idle
    op,        \* which flow it is
    branch,    \* the branch it read at its beginning, and ...
    target,    \* ... the upstream it read with it
    mode,      \* the force mode it read
    \* history
    shown,     \* the tracking branches when the user confirmed a force push
    foreign,   \* what other programs fetched since
    agreed     \* the branch and upstream for which he confirmed it

git  == <<head, tip, upstream, tracking, remote>>
vars == <<git, guard, pc, op, branch, target, mode, shown, foreign, agreed>>

(* The places that work on an upstream, which the flow's status had.        *)
Tracked == {"pulling", "recovering", "target", "pushing", "forceTarget", "forcing",
            "behind", "rejected", "confirm"}

(* ... and those between the answer to the modal and the force push.        *)
Forces == {"forceTarget", "forcing"}

(* The variables have their types, and a flow pulls, pushes or asks about   *)
(* an upstream only after a status that had one.                            *)
TypeOK ==
    /\ head \in Branches \cup {None}
    /\ tip \in [Branches -> Histories] /\ upstream \in [Branches -> Branches \cup {None}]
    /\ tracking \in [Branches -> Histories] /\ remote \in [Branches -> Histories]
    /\ shown \in [Branches -> Histories] /\ foreign \in [Branches -> Histories]
    /\ guard \in BOOLEAN
    /\ pc \in [Surfaces -> {"idle"} \cup Dialogs \cup Commands]
    /\ op \in Ops /\ mode \in {"lease", "force"}
    /\ branch \in Branches \cup {None} /\ target \in Branches \cup {None}
    /\ agreed \in (Branches \X Branches) \cup {<<>>}
    /\ \A f \in Surfaces : pc[f] \in Tracked => branch # None /\ target # None

Init ==
    /\ head \in Branches /\ upstream \in [Branches -> Branches \cup {None}]
    /\ tip = [b \in Branches |-> {}] /\ remote = tip /\ tracking = tip /\ shown = tip /\ foreign = tip
    /\ guard = FALSE /\ pc = [f \in Surfaces |-> "idle"]
    /\ op = "fetch" /\ mode = "lease" /\ branch = None /\ target = None /\ agreed = <<>>

-----------------------------------------------------------------------------
(* Steps of a flow.                                                         *)

Goto(f, place) == pc' = [pc EXCEPT ![f] = place] /\ guard' = guard

(* Mutant: an operation that fails keeps the guard.                         *)
EndKeepsGuard(f) == pc' = [pc EXCEPT ![f] = "idle"] /\ guard' = (pc[f] = "status")

(* The finally of withNetOpGuard and of runNetOp.                           *)
End(f) == pc' = [pc EXCEPT ![f] = "idle"] /\ guard' = FALSE

At(f, place) == pc[f] = place

Same == UNCHANGED <<op, branch, target, mode>>

(* What the user has before his eyes when he confirms a force push, which   *)
(* matters until it is through.                                             *)
Nothing == [r \in Branches |-> {}]
ForceAgreed == \E f \in Surfaces : pc[f] \in Forces
Sees == shown' = tracking /\ foreign' = Nothing
SeesNoMore ==
    IF ForceAgreed' THEN UNCHANGED <<shown, foreign>> ELSE shown' = Nothing /\ foreign' = Nothing

(* A fetch of one remote, or of all of them, or any other flow.             *)
Begin(o) == IF o = "fetch" THEN {"pick", "fetching"} ELSE {"status"}

Start(o) ==
    /\ ~guard /\ guard' = TRUE
    /\ \E place \in Begin(o) : pc' = [pc EXCEPT !["user"] = place]
    /\ op' = o /\ SeesNoMore /\ agreed' = <<>>
    /\ UNCHANGED <<git, branch, target, mode>>

(* Mutant: the timer does not respect the guard.                            *)
AutoFetchUnguarded ==
    /\ pc["timer"] = "idle" /\ guard' = guard
    /\ pc' = [pc EXCEPT !["timer"] = "fetching"]
    /\ UNCHANGED <<git, op, branch, target, mode, shown, foreign, agreed>>

AutoFetch ==
    /\ ~guard /\ guard' = TRUE
    /\ pc' = [pc EXCEPT !["timer"] = "fetching"]
    /\ UNCHANGED <<git, op, branch, target, mode, shown, foreign, agreed>>

(* A request fails, for the network or for any other reason: an error is    *)
(* shown, and the flow is over.                                             *)
Fails(f) ==
    /\ pc[f] \in Commands
    /\ End(f) /\ Same /\ SeesNoMore
    /\ UNCHANGED <<git, agreed>>

(* Every dialog can be dismissed, which ends the flow.                      *)
Dismissed(f) ==
    /\ pc[f] \in Dialogs
    /\ End(f) /\ Same /\ SeesNoMore
    /\ UNCHANGED <<git, agreed>>

Fetched(f) ==
    /\ At(f, "fetching")
    /\ tracking' = remote
    /\ End(f) /\ Same /\ SeesNoMore
    /\ UNCHANGED <<head, tip, upstream, remote, agreed>>

(* read_branch_status: what a branch and the last fetched state of its      *)
(* upstream have that the other has not; without an upstream, nothing.      *)
BranchStatus(b) ==
    LET fetched == IF upstream[b] = None THEN tip[b] ELSE tracking[upstream[b]]
    IN [branch |-> b, upstream |-> upstream[b],
        ahead |-> Cardinality(tip[b] \ fetched), behind |-> Cardinality(fetched \ tip[b])]

(* pushCurrentBranch, entered with a fresh status.                          *)
PushCurrent(f, status) ==
    \/ status.ahead > 0 /\ Goto(f, "target")
    \/ status.ahead = 0 /\ status.behind > 0 /\ Goto(f, "behind")
    \/ status.ahead = 0 /\ status.behind = 0 /\ End(f)

(* getBranchStatus answers, and the flow takes its way.                     *)
Unpublished(f) ==
    \/ op \in {"pull", "push", "sync"} /\ Goto(f, "offer")
    \/ op = "publish" /\ Goto(f, "pick")
    \/ op = "force" /\ End(f)

Published(f, status) ==
    \/ op \in {"pull", "sync"} /\ Goto(f, "pulling")
    \/ op = "push" /\ PushCurrent(f, status)
    \/ op = "publish" /\ End(f)
    \/ op = "force" /\ Goto(f, "confirm")

(* currentBranchStatus: the flow goes on with the names it was told.        *)
ReadStatus(status) == branch' = status.branch /\ target' = status.upstream /\ UNCHANGED op

(* The force mode is read before the modal is shown.                        *)
ReadMode(f) == IF pc'[f] = "confirm" THEN mode' \in ForceModes ELSE mode' = mode

Status(f) ==
    /\ At(f, "status") /\ head # None
    /\ LET status == BranchStatus(head) IN
       /\ ReadStatus(status)
       /\ IF status.upstream = None THEN Unpublished(f) ELSE Published(f, status)
    /\ ReadMode(f) /\ SeesNoMore
    /\ UNCHANGED <<git, agreed>>

(* offerPublish and publishBranch.                                          *)
OfferTaken(f) ==
    /\ At(f, "offer")
    /\ Goto(f, "pick") /\ Same /\ SeesNoMore
    /\ UNCHANGED <<git, agreed>>

RemotePicked(f) ==
    /\ At(f, "pick")
    /\ Goto(f, IF op = "fetch" THEN "fetching" ELSE "publishing") /\ Same /\ SeesNoMore
    /\ UNCHANGED <<git, agreed>>

GitPublishes ==
    /\ remote[branch] \subseteq tip[branch]
    /\ remote' = [remote EXCEPT ![branch] = tip[branch]]
    /\ tracking' = [tracking EXCEPT ![branch] = tip[branch]]
    /\ upstream' = [upstream EXCEPT ![branch] = branch]

(* Mutant: the pull goes on with the status from before the publishing.     *)
PublishDonePulls(f) ==
    /\ At(f, "publishing") /\ GitPublishes
    /\ IF op = "pull" THEN Goto(f, "pulling") ELSE End(f)
    /\ Same /\ SeesNoMore
    /\ UNCHANGED <<head, tip, agreed>>

(* After its publishing a pull begins anew.                                 *)
PublishDone(f) ==
    /\ At(f, "publishing") /\ GitPublishes
    /\ IF op = "pull" THEN Goto(f, "status") ELSE End(f)
    /\ Same /\ SeesNoMore
    /\ UNCHANGED <<head, tip, agreed>>

-----------------------------------------------------------------------------
(* Pull.                                                                    *)

(* git pull works on the current branch, whichever the flow began with.     *)
GitPulls ==
    /\ head # None /\ upstream[head] # None
    /\ tracking' = remote
    /\ tip' = [tip EXCEPT ![head] = @ \cup remote[upstream[head]]]
    /\ UNCHANGED <<head, upstream, remote>>

(* A conflict comes after the fetch; a rebase leaves HEAD detached.         *)
GitConflicts ==
    /\ head # None /\ upstream[head] # None
    /\ ~(remote[upstream[head]] \subseteq tip[head] \/ tip[head] \subseteq remote[upstream[head]])
    /\ tracking' = remote /\ head' \in {head, None}
    /\ UNCHANGED <<tip, upstream, remote>>

PullDone(f) ==
    /\ At(f, "pulling")
    /\ GitPulls
    /\ IF op = "sync" THEN Goto(f, "refresh") ELSE End(f)
    /\ Same /\ SeesNoMore /\ UNCHANGED agreed

(* A conflict stops the flow, with nothing aborted.                         *)
PullConflicts(f) ==
    /\ pc[f] \in {"pulling", "recovering"}
    /\ GitConflicts
    /\ End(f)
    /\ Same /\ SeesNoMore /\ UNCHANGED agreed

(* The second status of a sync.                                             *)
Refreshed(f) ==
    /\ At(f, "refresh") /\ head # None
    /\ LET status == BranchStatus(head) IN
       /\ ReadStatus(status)
       /\ IF status.upstream = None THEN End(f) ELSE PushCurrent(f, status)
    /\ mode' = mode
    /\ SeesNoMore
    /\ UNCHANGED <<git, agreed>>

(* A branch that is behind is offered the pull instead of a push.           *)
PullInstead(f) ==
    /\ At(f, "behind")
    /\ op' = "pull" /\ Goto(f, "status") /\ SeesNoMore
    /\ UNCHANGED <<git, branch, target, mode, agreed>>

-----------------------------------------------------------------------------
(* Push.                                                                    *)

(* resolvePushTarget reads the remotes; the target is what it was.          *)
TargetResolved(f) ==
    /\ \/ At(f, "target") /\ Goto(f, "pushing")
       \/ At(f, "forceTarget") /\ Goto(f, "forcing")
    /\ Same /\ SeesNoMore
    /\ UNCHANGED <<git, agreed>>

GitPushes ==
    /\ remote' = [remote EXCEPT ![target] = tip[branch]]
    /\ tracking' = [tracking EXCEPT ![target] = tip[branch]]
    /\ UNCHANGED <<head, tip, upstream>>

PushDone(f) ==
    /\ At(f, "pushing") /\ remote[target] \subseteq tip[branch]
    /\ GitPushes
    /\ End(f) /\ Same /\ SeesNoMore /\ UNCHANGED agreed

PushRejected(f) ==
    /\ At(f, "pushing") /\ ~(remote[target] \subseteq tip[branch])
    /\ Goto(f, "rejected") /\ Same /\ SeesNoMore
    /\ UNCHANGED <<git, agreed>>

(* offerPushRejectionRecovery: pull and push again ...                      *)
Recover(f) ==
    /\ At(f, "rejected")
    /\ Goto(f, "recovering") /\ Same /\ SeesNoMore
    /\ UNCHANGED <<git, agreed>>

Recovered(f) ==
    /\ At(f, "recovering")
    /\ GitPulls
    /\ Goto(f, "target") /\ Same /\ SeesNoMore /\ UNCHANGED agreed

(* ... or force.                                                            *)
ForceChosen(f) ==
    /\ At(f, "rejected")
    /\ Goto(f, "confirm") /\ mode' \in ForceModes /\ SeesNoMore
    /\ UNCHANGED <<git, op, branch, target, agreed>>

(* Mutant: the modal names the branch that is current when it is answered.  *)
ConfirmedCurrent(f) ==
    /\ At(f, "confirm") /\ head # None
    /\ agreed' = <<head, target>>
    /\ Goto(f, "forceTarget") /\ Same /\ Sees
    /\ UNCHANGED git

(* confirmAndForcePush: the modal names the branch and its upstream.  With  *)
(* gitbamboo.push.confirmForce off the setting is the answer.               *)
Confirmed(f) ==
    /\ At(f, "confirm")
    /\ agreed' = <<branch, target>>
    /\ Goto(f, "forceTarget") /\ Same /\ Sees
    /\ UNCHANGED git

(* --force, or --force-with-lease while the remote is as it was fetched.    *)
LeaseHolds == mode = "force" \/ remote[target] = tracking[target]

ForceDone(f) ==
    /\ At(f, "forcing") /\ LeaseHolds
    /\ GitPushes
    /\ End(f) /\ Same /\ SeesNoMore /\ UNCHANGED agreed

LeaseTripped(f) ==
    /\ At(f, "forcing") /\ ~LeaseHolds
    /\ Goto(f, "rejected") /\ Same /\ SeesNoMore
    /\ UNCHANGED <<git, agreed>>

(* A command killed after ten minutes, or with the engine, may have done    *)
(* its remote half, and the flow ends as after any failure.                 *)
KilledFetch(f) ==
    /\ pc[f] \in {"fetching", "pulling", "recovering"}
    /\ tracking' = remote /\ UNCHANGED remote

KilledPush(f) ==
    /\ \/ At(f, "pushing") /\ remote[target] \subseteq tip[branch]
       \/ At(f, "forcing") /\ LeaseHolds
    /\ remote' = [remote EXCEPT ![target] = tip[branch]] /\ UNCHANGED tracking

Killed(f) ==
    /\ KilledFetch(f) \/ KilledPush(f)
    /\ End(f) /\ Same /\ SeesNoMore
    /\ UNCHANGED <<head, tip, upstream, agreed>>

-----------------------------------------------------------------------------
(* Everybody else.                                                          *)

Unused == Commits \ UNION {tip[b] \cup tracking[b] \cup remote[b] : b \in Branches}

Elsewhere == UNCHANGED <<guard, pc, op, branch, target, mode, agreed>>

(* Commits, resets and switches are not under the guard.                    *)
Commit ==
    /\ head # None
    /\ \E c \in Unused : tip' = [tip EXCEPT ![head] = @ \cup {c}]
    /\ Elsewhere /\ SeesNoMore
    /\ UNCHANGED <<head, upstream, tracking, remote>>

Reset ==
    /\ head # None
    /\ \E c \in tip[head] : tip' = [tip EXCEPT ![head] = @ \ {c}]
    /\ Elsewhere /\ SeesNoMore
    /\ UNCHANGED <<head, upstream, tracking, remote>>

Switch ==
    /\ head' \in Branches \ {head}
    /\ Elsewhere /\ SeesNoMore
    /\ UNCHANGED <<tip, upstream, tracking, remote>>

(* openTerminalAndFetch, or the user's own terminal: no guard, but he sees  *)
(* what it fetches.                                                         *)
TerminalFetch ==
    /\ tracking' = remote /\ Elsewhere
    /\ IF ForceAgreed THEN shown' = remote /\ foreign' = Nothing ELSE SeesNoMore
    /\ UNCHANGED <<head, tip, upstream, remote>>

(* A fetch by another program, such as the editor's own git support: no     *)
(* guard, and the user sees nothing of it.                                  *)
BackgroundFetch ==
    /\ tracking' = remote /\ Elsewhere /\ shown' = shown
    /\ foreign' = IF ForceAgreed THEN [r \in Branches |-> foreign[r] \cup (remote[r] \ shown[r])]
                  ELSE Nothing
    /\ UNCHANGED <<head, tip, upstream, remote>>

OthersPush ==
    /\ \E r \in Branches, c \in Unused : remote' = [remote EXCEPT ![r] = @ \cup {c}]
    /\ Elsewhere /\ SeesNoMore
    /\ UNCHANGED <<head, tip, upstream, tracking>>

Asked(f) ==
    \/ OfferTaken(f) \/ RemotePicked(f) \/ PullInstead(f)
    \/ Recover(f) \/ ForceChosen(f) \/ Confirmed(f) \/ Dismissed(f)

Proceed(f) ==
    \/ Fails(f) \/ Killed(f) \/ Fetched(f) \/ Status(f) \/ PublishDone(f)
    \/ PullDone(f) \/ PullConflicts(f) \/ Refreshed(f)
    \/ TargetResolved(f) \/ PushDone(f) \/ PushRejected(f)
    \/ Recovered(f) \/ ForceDone(f) \/ LeaseTripped(f)

Next ==
    \/ \E o \in Ops : Start(o)
    \/ AutoFetch
    \/ \E f \in Surfaces : Asked(f) \/ Proceed(f)
    \/ Commit \/ Reset \/ Switch \/ TerminalFetch \/ BackgroundFetch \/ OthersPush

Spec == Init /\ [][Next]_vars

(* Requests are answered: the engine kills a network command after ten      *)
(* minutes.  Nobody has to answer a dialog.                                 *)
FairSpec == Spec /\ \A f \in Surfaces : WF_vars(Proceed(f))

-----------------------------------------------------------------------------
(* Properties.                                                              *)

(* Whatever surface an operation comes from, a second one is dropped while  *)
(* the first has a request or a dialog open, and the guard is held exactly  *)
(* as long.                                                                 *)
OneFlow ==
    /\ \A f, g \in Surfaces : pc[f] # "idle" /\ pc[g] # "idle" => f = g
    /\ guard <=> \E f \in Surfaces : pc[f] # "idle"

(* No fetch of the extension undermines a force push with lease: what the   *)
(* push removes from the remote the user could see as he confirmed it, even *)
(* though the timer fetches all the time and the lease is checked against   *)
(* whatever was fetched last.  Only what another program fetched in between *)
(* without his knowledge is not protected, which no bare lease does.        *)
LeaseKeepsUnseen ==
    [][mode = "lease" =>
          \A r \in Branches : remote[r] \ remote'[r] \subseteq shown[r] \cup foreign[r]]_vars

(* Commits leave the remote by a force push only, and only from the branch  *)
(* that the confirmed modal named, whatever was checked out since.          *)
OverwritesAreAgreed ==
    [][\A r \in Branches : ~(remote[r] \subseteq remote'[r]) =>
          /\ agreed # <<>> /\ agreed[2] = r
          /\ remote'[r] = tip[agreed[1]]]_vars

(* A flow comes to its end or to a question to the user: no failure, lost   *)
(* lease or conflict leaves the guard taken for good.                       *)
EndsOrAsks == guard ~> (~guard \/ \E f \in Surfaces : pc[f] \in Dialogs)

=============================================================================
