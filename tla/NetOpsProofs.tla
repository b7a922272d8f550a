---------------------------- MODULE NetOpsProofs ----------------------------
(****************************************************************************)
(* Safety of the network operations for every number of branches and of     *)
(* changes: one flow at a time, and what a push may take from a remote.     *)
(****************************************************************************)
EXTENDS NetOps, TLAPS

(* Once a force push is confirmed, until it is through, the flow is about   *)
(* the branch and the upstream that the modal named, and the user knows     *)
(* what was fetched, but for what other programs fetched since.             *)
ForceIsConfirmed ==
    \A f \in Surfaces : pc[f] \in Forces =>
        /\ agreed = <<branch, target>>
        /\ \A r \in Branches : tracking[r] \subseteq shown[r] \cup foreign[r]

IInv == TypeOK /\ OneFlow /\ ForceIsConfirmed

-----------------------------------------------------------------------------
(* Nothing was ever done.                                                   *)
LEMMA InitIInv == Init => IInv
<1>. SUFFICES ASSUME Init PROVE IInv
  OBVIOUS
<1>1. TypeOK
  BY DEF Init, TypeOK, Histories, Surfaces, Ops, Tracked
<1>2. OneFlow /\ ForceIsConfirmed
  BY DEF Init, OneFlow, ForceIsConfirmed, Forces, Surfaces
<1>. QED BY <1>1, <1>2 DEF IInv

(* A step of a flow is one of the only flow, which goes on or ends.         *)
FlowStep(f) == Asked(f) \/ Proceed(f)

(* The flow that makes a step is the only one, and it keeps the guard until *)
(* it ends.                                                                 *)
LEMMA OnlyFlowMoves ==
    ASSUME IInv, NEW f \in Surfaces, FlowStep(f)
    PROVE  /\ pc[f] # "idle" /\ guard
           /\ \A g \in Surfaces : g # f => pc[g] = "idle"
           /\ guard' = (pc'[f] # "idle")
           /\ \E place \in {"idle"} \cup Dialogs \cup Commands : pc' = [pc EXCEPT ![f] = place]
<1>. USE DEF IInv, TypeOK
<1>1. pc[f] # "idle"
  BY DEF FlowStep, Asked, Proceed, OfferTaken, RemotePicked, PullInstead, Recover, ForceChosen,
         Confirmed, Dismissed, Fails, Killed, KilledFetch, KilledPush, Fetched, Status,
         PublishDone, PullDone, PullConflicts, Refreshed, TargetResolved, PushDone, PushRejected,
         Recovered, ForceDone, LeaseTripped, At, Commands, Dialogs
<1>2. guard /\ \A g \in Surfaces : g # f => pc[g] = "idle"
  BY <1>1 DEF OneFlow
<1>3. \/ \E place \in Dialogs \cup Commands : Goto(f, place)
      \/ End(f)
  <2>1. CASE Asked(f)
    BY <2>1 DEF Asked, OfferTaken, RemotePicked, PullInstead, Recover, ForceChosen, Confirmed,
                Dismissed, Commands, Dialogs
  <2>2. CASE \/ Fails(f) \/ Killed(f) \/ Fetched(f) \/ PublishDone(f) \/ PullDone(f)
             \/ PullConflicts(f) \/ TargetResolved(f) \/ PushDone(f) \/ PushRejected(f)
             \/ Recovered(f) \/ ForceDone(f) \/ LeaseTripped(f)
    BY <2>2 DEF Fails, Killed, Fetched, PublishDone, PullDone, PullConflicts, TargetResolved,
                PushDone, PushRejected, Recovered, ForceDone, LeaseTripped, Commands, Dialogs
  <2>3. CASE Status(f) \/ Refreshed(f)
    BY <2>3 DEF Status, Refreshed, Unpublished, Published, PushCurrent, Commands, Dialogs
  <2>. QED BY <2>1, <2>2, <2>3 DEF FlowStep, Proceed
<1>. QED BY <1>1, <1>2, <1>3 DEF Goto, End, Dialogs, Commands

(* A second operation is dropped while the first is under way.              *)
LEMMA OneFlowNext == IInv /\ [Next]_vars => OneFlow'
<1>. SUFFICES ASSUME IInv, [Next]_vars PROVE OneFlow'
  OBVIOUS
<1>. USE DEF IInv, TypeOK
<1>1. ASSUME NEW f \in Surfaces, FlowStep(f) PROVE OneFlow'
  BY <1>1, OnlyFlowMoves DEF OneFlow
<1>2. CASE AutoFetch \/ \E o \in Ops : Start(o)
  <2>1. guard' /\ \E f \in Surfaces : /\ \A g \in Surfaces : g # f => pc'[g] = "idle"
                                      /\ pc'[f] # "idle"
    BY <1>2 DEF AutoFetch, Start, Begin, OneFlow, Surfaces
  <2>. QED BY <2>1 DEF OneFlow
<1>3. CASE UNCHANGED <<pc, guard>>
  BY <1>3 DEF OneFlow
<1>. QED BY <1>1, <1>2, <1>3
     DEF Next, FlowStep, vars, Commit, Reset, Switch, TerminalFetch, BackgroundFetch, OthersPush,
         Elsewhere

(* What git makes of the branches, the remote and what was fetched of it    *)
(* are histories of the same branches.                                      *)
GitTypeOK ==
    /\ head \in Branches \cup {None}
    /\ tip \in [Branches -> Histories] /\ upstream \in [Branches -> Branches \cup {None}]
    /\ tracking \in [Branches -> Histories] /\ remote \in [Branches -> Histories]
    /\ shown \in [Branches -> Histories] /\ foreign \in [Branches -> Histories]

(* No command of git leaves the histories or the branches.                  *)
LEMMA GitTypeNext == IInv /\ [Next]_vars => GitTypeOK'
<1>. SUFFICES ASSUME IInv, [Next]_vars PROVE GitTypeOK'
  OBVIOUS
<1>. USE DEF IInv, TypeOK, GitTypeOK, Sees, SeesNoMore, Nothing, git, Histories
<1>1. CASE UNCHANGED vars \/ AutoFetch \/ \E o \in Ops : Start(o)
  BY <1>1 DEF vars, AutoFetch, Start
<1>2. CASE Commit
  BY <1>2 DEF Commit, Unused
<1>3. CASE Reset
  BY <1>3 DEF Reset
<1>4. CASE Switch \/ TerminalFetch \/ BackgroundFetch
  BY <1>4 DEF Switch, TerminalFetch, BackgroundFetch
<1>5. CASE OthersPush
  BY <1>5 DEF OthersPush, Unused
<1>6. ASSUME NEW f \in Surfaces, Asked(f) PROVE GitTypeOK'
  BY <1>6 DEF Asked, OfferTaken, RemotePicked, PullInstead, Recover, ForceChosen, Confirmed,
              Dismissed
<1>7. ASSUME NEW f \in Surfaces, Proceed(f) PROVE GitTypeOK'
  <2>1. CASE Fails(f) \/ Status(f) \/ Refreshed(f) \/ TargetResolved(f) \/ PushRejected(f)
             \/ LeaseTripped(f)
    BY <2>1 DEF Fails, Status, Refreshed, TargetResolved, PushRejected, LeaseTripped
  <2>2. CASE Killed(f)
    BY <2>2 DEF Killed, KilledFetch, KilledPush, At, Tracked
  <2>3. CASE Fetched(f)
    BY <2>3 DEF Fetched
  <2>4. CASE PublishDone(f)
    BY <2>4 DEF PublishDone, GitPublishes
  <2>5. CASE PullDone(f) \/ Recovered(f)
    <3>1. GitPulls /\ SeesNoMore
      BY <2>5 DEF PullDone, Recovered
    <3>2. upstream[head] \in Branches /\ head \in Branches
      BY <3>1 DEF GitPulls
    <3>. QED BY <3>1, <3>2 DEF GitPulls
  <2>6. CASE PullConflicts(f)
    BY <2>6 DEF PullConflicts, GitConflicts
  <2>7. CASE PushDone(f) \/ ForceDone(f)
    BY <2>7 DEF PushDone, ForceDone, GitPushes, At, Tracked
  <2>. QED BY <1>7, <2>1, <2>2, <2>3, <2>4, <2>5, <2>6, <2>7 DEF Proceed
<1>. QED BY <1>1, <1>2, <1>3, <1>4, <1>5, <1>6, <1>7 DEF Next

(* A flow takes the branch and the upstream from one status, and goes to    *)
(* work on them only if there are both.                                     *)
LEMMA FlowTypeNext ==
    ASSUME IInv, NEW f \in Surfaces, FlowStep(f)
    PROVE  /\ op' \in Ops /\ mode' \in {"lease", "force"}
           /\ branch' \in Branches \cup {None} /\ target' \in Branches \cup {None}
           /\ agreed' \in (Branches \X Branches) \cup {<<>>}
           /\ pc'[f] \in Tracked => branch' # None /\ target' # None
<1>. USE DEF IInv, TypeOK, Tracked
<1>. DEFINE Typed == /\ op' \in Ops /\ mode' \in {"lease", "force"}
                     /\ branch' \in Branches \cup {None} /\ target' \in Branches \cup {None}
                     /\ agreed' \in (Branches \X Branches) \cup {<<>>}
                     /\ pc'[f] \in Tracked => branch' # None /\ target' # None
<1>1. CASE Asked(f)
  <2>1. CASE Confirmed(f)
    <3>1. branch \in Branches /\ target \in Branches
      BY <2>1 DEF Confirmed, At
    <3>2. agreed' \in Branches \X Branches
      BY <2>1, <3>1 DEF Confirmed
    <3>. QED BY <2>1, <3>1, <3>2, BranchAssumption DEF Confirmed, Same
  <2>2. CASE PullInstead(f)
    BY <2>2 DEF PullInstead, Goto, Ops
  <2>3. CASE ForceChosen(f)
    BY <2>3, ModeAssumption DEF ForceChosen, Goto, At
  <2>4. CASE OfferTaken(f) \/ RemotePicked(f) \/ Dismissed(f)
    BY <2>4 DEF OfferTaken, RemotePicked, Dismissed, Goto, End, Same
  <2>5. CASE Recover(f)
    BY <2>5 DEF Recover, Goto, At, Same
  <2>. QED BY <1>1, <2>1, <2>2, <2>3, <2>4, <2>5 DEF Asked
<1>2. CASE Status(f) \/ Refreshed(f)
  <2>1. head \in Branches /\ branch' = head /\ target' = upstream[head] /\ op' = op
        /\ agreed' = agreed
    BY <1>2, BranchAssumption DEF Status, Refreshed, ReadStatus, BranchStatus
  <2>2. mode' \in {"lease", "force"}
    BY <1>2, ModeAssumption DEF Status, Refreshed, ReadMode
  <2>3. CASE upstream[head] = None
    <3>1. pc'[f] \notin Tracked
      BY <1>2, <2>3 DEF Status, Refreshed, BranchStatus, Unpublished, Goto, End
    <3>. QED BY <2>1, <2>2, <3>1
  <2>4. CASE upstream[head] # None
    BY <2>1, <2>2, <2>4, BranchAssumption
  <2>. QED BY <2>3, <2>4
<1>3. CASE \/ Fails(f) \/ Killed(f) \/ Fetched(f) \/ PublishDone(f) \/ PullDone(f)
           \/ PullConflicts(f) \/ TargetResolved(f) \/ PushDone(f) \/ PushRejected(f)
           \/ Recovered(f) \/ ForceDone(f) \/ LeaseTripped(f)
  <2>1. Same /\ agreed' = agreed
    BY <1>3 DEF Fails, Killed, Fetched, PublishDone, PullDone, PullConflicts, TargetResolved,
                PushDone, PushRejected, Recovered, ForceDone, LeaseTripped
  <2>2. pc'[f] \in Tracked => pc[f] \in Tracked
    BY <1>3
    DEF Fails, Killed, Fetched, PublishDone, PullDone, PullConflicts, TargetResolved,
        PushDone, PushRejected, Recovered, ForceDone, LeaseTripped, Goto, End, At
  <2>. QED BY <2>1, <2>2 DEF Same
<1>. QED BY <1>1, <1>2, <1>3 DEF FlowStep, Proceed

(* So every step keeps the types.                                           *)
LEMMA TypeNext == IInv /\ [Next]_vars => TypeOK'
<1>. SUFFICES ASSUME IInv, [Next]_vars PROVE TypeOK'
  OBVIOUS
<1>0. GitTypeOK'
  BY GitTypeNext
<1>1. ASSUME NEW f \in Surfaces, FlowStep(f) PROVE TypeOK'
  <2>1. pc' \in [Surfaces -> {"idle"} \cup Dialogs \cup Commands]
    <3>1. PICK place \in {"idle"} \cup Dialogs \cup Commands : pc' = [pc EXCEPT ![f] = place]
      BY <1>1, OnlyFlowMoves
    <3>. QED BY <3>1 DEF IInv, TypeOK
  <2>2. guard' \in BOOLEAN
    BY <1>1, OnlyFlowMoves, Zenon
  <2>3. \A g \in Surfaces : g # f => pc'[g] \notin Tracked
    BY <1>1, OnlyFlowMoves DEF IInv, TypeOK, Tracked
  <2>. QED BY <1>0, <1>1, <2>1, <2>2, <2>3, FlowTypeNext DEF TypeOK, GitTypeOK
<1>2. CASE AutoFetch
  BY <1>0, <1>2 DEF AutoFetch, IInv, TypeOK, GitTypeOK, Surfaces, Dialogs, Commands, Tracked
<1>4. ASSUME NEW o \in Ops, Start(o) PROVE TypeOK'
  <2>1. PICK place \in Begin(o) : pc' = [pc EXCEPT !["user"] = place]
    BY <1>4 DEF Start
  <2>2. place \in {"pick", "fetching", "status"}
    BY DEF Begin
  <2>. QED BY <1>0, <1>4, <2>1, <2>2
       DEF Start, IInv, TypeOK, GitTypeOK, Surfaces, Dialogs, Commands, Tracked
<1>3. CASE UNCHANGED <<guard, pc, op, branch, target, mode, agreed>>
  BY <1>0, <1>3 DEF IInv, TypeOK, GitTypeOK
<1>. QED BY <1>1, <1>2, <1>3, <1>4
     DEF Next, FlowStep, vars, Commit, Reset, Switch, TerminalFetch, BackgroundFetch, OthersPush,
         Elsewhere

(* Between the answer to the modal and the push nothing is fetched but by   *)
(* the user himself and by other programs, and no other status is read.     *)
LEMMA ForceIsConfirmedNext == IInv /\ [Next]_vars => ForceIsConfirmed'
<1>. SUFFICES ASSUME IInv, [Next]_vars PROVE ForceIsConfirmed'
  OBVIOUS
<1>. USE DEF IInv, TypeOK, ForceIsConfirmed, Forces
<1>1. ASSUME NEW f \in Surfaces, FlowStep(f) PROVE ForceIsConfirmed'
  <2>1. \A g \in Surfaces : g # f => pc'[g] = "idle"
    BY <1>1, OnlyFlowMoves
  <2>2. CASE Confirmed(f)
    BY <2>1, <2>2 DEF Confirmed, Same, Sees, git
  <2>3. CASE TargetResolved(f)
    BY <2>1, <2>3 DEF TargetResolved, Same, SeesNoMore, ForceAgreed, git, Goto, At
  <2>4. CASE ~Confirmed(f) /\ ~TargetResolved(f)
    <3>1. pc'[f] \notin Forces
      BY <1>1, <2>4
      DEF FlowStep, Asked, Proceed, OfferTaken, RemotePicked, PullInstead, Recover, ForceChosen,
          Dismissed, Fails, Killed, Fetched, Status, PublishDone, PullDone, PullConflicts,
          Refreshed, PushDone, PushRejected, Recovered, ForceDone, LeaseTripped, Unpublished,
          Published, PushCurrent, Goto, End
    <3>. QED BY <2>1, <3>1
  <2>. QED BY <2>2, <2>3, <2>4
<1>2. CASE AutoFetch \/ \E o \in Ops : Start(o)
  BY <1>2 DEF AutoFetch, Start, Begin, OneFlow, Surfaces
<1>3. CASE TerminalFetch \/ BackgroundFetch
  BY <1>3 DEF TerminalFetch, BackgroundFetch, Elsewhere, SeesNoMore, ForceAgreed
<1>4. CASE /\ UNCHANGED <<pc, branch, target, agreed, tracking>>
           /\ SeesNoMore \/ UNCHANGED <<shown, foreign>>
  BY <1>4 DEF SeesNoMore, ForceAgreed
<1>. QED BY <1>1, <1>2, <1>3, <1>4
     DEF Next, FlowStep, vars, git, Commit, Reset, Switch, OthersPush, Elsewhere

(* Every reachable state satisfies the inductive invariant.                 *)
LEMMA Inductive == Spec => []IInv
<1>1. IInv /\ [Next]_vars => IInv'
  BY TypeNext, OneFlowNext, ForceIsConfirmedNext DEF IInv
<1>. QED BY InitIInv, <1>1, PTL DEF Spec

-----------------------------------------------------------------------------
(* Flows, branches and histories have their types, and a flow pulls, pushes *)
(* or asks about an upstream only after a status that had one.              *)
THEOREM TypeCorrect == Spec => []TypeOK
<1>1. IInv => TypeOK
  BY DEF IInv
<1>. QED BY Inductive, <1>1, PTL

(* The palette, the toolbar and the timer never have two operations under   *)
(* way, and the guard is held exactly as long as there is one.              *)
THEOREM FlowsAreExclusive == Spec => []OneFlow
<1>1. IInv => OneFlow
  BY DEF IInv
<1>. QED BY Inductive, <1>1, PTL

(* Every step that takes changes from the remote is a force push of a flow  *)
(* that was confirmed.                                                      *)
Overwrites(f) == /\ pc[f] = "forcing" /\ LeaseHolds
                 /\ remote' = [remote EXCEPT ![target] = tip[branch]]

(* Nothing else takes changes from the remote.                              *)
LEMMA OnlyForceOverwrites ==
    IInv /\ [Next]_vars =>
        (\A r \in Branches : remote[r] \subseteq remote'[r])
            \/ \E f \in Surfaces : Overwrites(f)
<1>. SUFFICES ASSUME IInv, [Next]_vars
     PROVE  (\A r \in Branches : remote[r] \subseteq remote'[r])
                \/ \E f \in Surfaces : Overwrites(f)
  OBVIOUS
<1>. USE DEF IInv, TypeOK
<1>1. ASSUME NEW f \in Surfaces, Killed(f) \/ PublishDone(f) \/ PushDone(f) \/ ForceDone(f)
      PROVE  (\A r \in Branches : remote[r] \subseteq remote'[r]) \/ Overwrites(f)
  BY <1>1 DEF Killed, KilledFetch, KilledPush, PublishDone, GitPublishes, PushDone, ForceDone,
              GitPushes, Overwrites, At
<1>2. CASE OthersPush
  BY <1>2 DEF OthersPush
<1>3. CASE remote' = remote
  BY <1>3
<1>. QED BY <1>1, <1>2, <1>3
     DEF Next, vars, git, Start, AutoFetch, Asked, Proceed, OfferTaken, RemotePicked,
         PullInstead, Recover, ForceChosen, Confirmed, Dismissed, Fails, Fetched, Status, PullDone,
         PullConflicts, Refreshed, TargetResolved, PushRejected, Recovered, LeaseTripped, GitPulls,
         GitConflicts, Commit, Reset, Switch, TerminalFetch, BackgroundFetch

(* Commits leave a remote branch only by a force push of the branch that    *)
(* the modal named to the upstream it named, whatever happened in between.  *)
THEOREM OverwritesAreConfirmed == Spec => OverwritesAreAgreed
<1>1. IInv /\ [Next]_vars =>
         [\A r \in Branches : ~(remote[r] \subseteq remote'[r]) =>
             /\ agreed # <<>> /\ agreed[2] = r
             /\ remote'[r] = tip[agreed[1]]]_vars
  <2>. SUFFICES ASSUME IInv, [Next]_vars, NEW r \in Branches, ~(remote[r] \subseteq remote'[r])
       PROVE  agreed # <<>> /\ agreed[2] = r /\ remote'[r] = tip[agreed[1]]
    OBVIOUS
  <2>1. PICK f \in Surfaces : Overwrites(f)
    BY OnlyForceOverwrites
  <2>2. agreed = <<branch, target>>
    BY <2>1 DEF IInv, ForceIsConfirmed, Forces, Overwrites
  <2>3. r = target /\ remote'[r] = tip[branch]
    BY <2>1 DEF IInv, TypeOK, Overwrites
  <2>. QED BY <2>2, <2>3
<1>. QED BY Inductive, <1>1, PTL DEF Spec, OverwritesAreAgreed

(* What a push with lease takes from the remote the user could see when he  *)
(* confirmed it, or another program fetched it since: no fetch of the       *)
(* extension moves what the lease compares behind his back.                 *)
THEOREM LeaseProtectsUnseen == Spec => LeaseKeepsUnseen
<1>1. IInv /\ [Next]_vars =>
         [mode = "lease" =>
            \A r \in Branches : remote[r] \ remote'[r] \subseteq shown[r] \cup foreign[r]]_vars
  <2>. SUFFICES ASSUME IInv, [Next]_vars, mode = "lease", NEW r \in Branches,
                       ~(remote[r] \subseteq remote'[r])
       PROVE  remote[r] \ remote'[r] \subseteq shown[r] \cup foreign[r]
    OBVIOUS
  <2>1. PICK f \in Surfaces : Overwrites(f)
    BY OnlyForceOverwrites
  <2>2. remote[target] = tracking[target] /\ target \in Branches
    BY <2>1 DEF Overwrites, LeaseHolds, IInv, TypeOK, Tracked
  <2>4. tracking[target] \subseteq shown[target] \cup foreign[target]
    BY <2>1, <2>2 DEF Overwrites, LeaseHolds, IInv, ForceIsConfirmed, Forces
  <2>3. r = target
    BY <2>1 DEF IInv, TypeOK, Overwrites
  <2>. QED BY <2>2, <2>3, <2>4
<1>. QED BY Inductive, <1>1, PTL DEF Spec, LeaseKeepsUnseen

=============================================================================
