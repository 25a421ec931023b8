------------------------------ MODULE Recovery ------------------------------
(***************************************************************************)
(* Recovery of a harness session: an observation of the owner and of the   *)
(* worktree is classified, what the worktree holds is preserved, a vanish  *)
(* receipt is written, and only then is the session restarted.  Three      *)
(* callers share this path: the operate loop, the owner's recover verb and *)
(* the recover command that finds no owner.                                *)
(*                                                                         *)
(* The worktree is edited by others at any time, between the observation   *)
(* and the snapshot too.  Each git command of the snapshot may fail on its *)
(* own (no commit yet, a diff larger than the pipe, a lock, no repository).*)
(***************************************************************************)
EXTENDS Integers

CONSTANTS Callers,        \* the callers considered, of operate, owner and cli
          MaxIterations,  \* of the operate loop
          InitialBudget,  \* retries per family
          MaxEdits,       \* bound on the changes others make to the worktree
          NoObs, NoReceipt

VARIABLES caller, phase,
          tree, edits,    \* the worktree, and how often it was changed
          vanished,       \* state.json blames a vanished owner
          obs,            \* the latest observation
          receipt,        \* the vanish receipt written for it
          lost,           \* history: what git reported and the receipt's snapshot has no
                          \* content of, and what it has not even a hash of
          budget, iterations, accepted, lifecycle, blocker, \* of operate
          taken,          \* history: actions taken, by family of the budget
          acted,          \* history: the class of the latest action on a vanish
          sawCompletion   \* history: some observation showed a completion

loop == <<budget, iterations, accepted, lifecycle, blocker>>
loopHistory == <<taken, acted, sawCompletion>>
recoveryVars == <<caller, phase, tree, edits, vanished, obs, receipt, lost, loop, loopHistory>>

Families == {"reinjectPrompt", "zeroDeltaVanish", "dirtyVanishPreserve", "validationRepair"}
Classes == {"continue", "reinject-prompt", "restart-clean", "restart-preserve-delta",
            "fallback-codex-exec", "human-check"}
Deltas == {"clean", "dirty", "zero-delta", "unknown"}
Parts == {"tracked", "readable", "unreadable"} \* tracked changes, untracked files
Losses == [content : SUBSET Parts, hash : SUBSET Parts]
NothingLost == [content |-> {}, hash |-> {}]

ASSUME BudgetAssumption == /\ MaxIterations \in Nat /\ MaxEdits \in Nat
                           /\ InitialBudget \in [Families -> Nat]
                           /\ Callers \subseteq {"operate", "owner", "cli"}

Observations == [ownerLive : BOOLEAN, gitDelta : Deltas, completed : BOOLEAN,
                 risk : {"normal", "prompt-not-accepted", "deleted-worktree"},
                 validationFailed : BOOLEAN]
Receipts == [classification : Classes, gitDelta : Deltas, preservation : {"stash", "snapshot"},
             stashRef : BOOLEAN, snapshotComplete : BOOLEAN, forbidsClean : BOOLEAN]

ASSUME NothingAssumption == NoObs \notin Observations /\ NoReceipt \notin Receipts

RecoveryInit == /\ caller \in Callers
                /\ phase = IF caller = "operate" THEN "submit" ELSE "observe"
                /\ tree \in [exists : {TRUE}, born : BOOLEAN, parts : {{}, {"tracked"}}]
                /\ edits = 0
                /\ vanished \in (IF caller = "owner" THEN BOOLEAN ELSE {FALSE})
                /\ obs = NoObs
                /\ receipt = NoReceipt
                /\ lost = NothingLost
                /\ budget = InitialBudget
                /\ iterations = 0
                /\ accepted = FALSE
                /\ lifecycle = "started"
                /\ blocker = "none"
                /\ taken = [f \in Families |-> 0]
                /\ acted = "none"
                /\ sawCompletion = FALSE

-----------------------------------------------------------------------------
ClassifyVanishUnknownClean(o, b) ==
    IF o.gitDelta = "dirty" /\ b["dirtyVanishPreserve"] > 0 THEN "restart-preserve-delta" ELSE "restart-clean"

(* The classifier, a function of one observation and the remaining budget. *)
ClassifyVanish(o, b) ==
    CASE o.gitDelta = "dirty" ->
           IF b["dirtyVanishPreserve"] > 0 THEN "restart-preserve-delta" ELSE "fallback-codex-exec"
      [] o.gitDelta = "zero-delta" ->
           IF b["zeroDeltaVanish"] > 0 THEN "restart-clean" ELSE "fallback-codex-exec"
      [] o.gitDelta = "clean" -> "restart-clean"
      [] OTHER -> "human-check"

ClassifyLive(o, b) ==
    CASE o.risk = "prompt-not-accepted" ->
           IF b["reinjectPrompt"] > 0 THEN "reinject-prompt" ELSE "human-check"
      [] o.validationFailed ->
           IF b["validationRepair"] > 0 THEN "continue" ELSE "human-check"
      [] OTHER -> "continue"

ClassifyRecovery(o, b) == IF o.risk = "deleted-worktree" THEN "human-check"
                          ELSE IF o.ownerLive THEN ClassifyLive(o, b) ELSE ClassifyVanish(o, b)

RequiresVanish(c) == c \in {"restart-clean", "restart-preserve-delta", "fallback-codex-exec"}

OwnerRequired(c) == c # "human-check"

(* What git reports of the worktree, unless it fails.  Only an observation that *)
(* is injected into operate tells a tree without commits (zero-delta) from a    *)
(* clean one.                                                                   *)
GitDeltas(t) == CASE ~t.exists -> {"unknown"}
                  [] t.parts # {} -> {"dirty", "unknown"}
                  [] caller = "operate" -> {"clean", "zero-delta", "unknown"}
                  [] OTHER -> {"clean", "unknown"}

-----------------------------------------------------------------------------
PreserveUnstashed(t, fails) ==
    LET diff == "tracked" \in t.parts /\ t.born /\ "diff" \notin fails
        stash == "tracked" \in t.parts /\ t.born /\ "stash" \notin fails
        manifest == IF "ls-files" \in fails THEN {} ELSE t.parts \ {"tracked"}
    IN [stashRef |-> stash,
        snapshotComplete |-> "unreadable" \notin manifest,
        lost |-> [content |-> (IF diff /\ ~stash THEN {"tracked"} ELSE {}) \cup manifest,
                  hash |-> manifest \ {"readable"}]]

(* preserveDirtyWorktree: fails is the set of its git commands that throw.  The *)
(* stash holds the tracked changes; of an untracked file the manifest has the   *)
(* path, the size and the hash, and its content stays in the worktree only.     *)
Preserve(t, fails) ==
    LET diff == "tracked" \in t.parts /\ t.born /\ "diff" \notin fails
        stash == "tracked" \in t.parts /\ t.born /\ "stash" \notin fails
        manifest == IF "ls-files" \in fails THEN {} ELSE t.parts \ {"tracked"}
    IN [stashRef |-> stash,
        snapshotComplete |-> (~diff \/ stash) /\ "unreadable" \notin manifest,
        lost |-> [content |-> (IF diff /\ ~stash THEN {"tracked"} ELSE {}) \cup manifest,
                  hash |-> manifest \ {"readable"}]]

(* The evidence of the receipt; a tree observed clean is not looked at again. *)
VanishReceipt(o, c, p) ==
    LET dirty == o.gitDelta \in {"dirty", "unknown"}
    IN [classification |-> c, gitDelta |-> o.gitDelta,
        preservation |-> IF dirty /\ p.stashRef THEN "stash" ELSE "snapshot",
        stashRef |-> dirty /\ p.stashRef,
        snapshotComplete |-> dirty => p.snapshotComplete,
        forbidsClean |-> dirty]

ValidVanish(r) == /\ r.gitDelta \in {"dirty", "unknown"} => r.forbidsClean
                  /\ r.preservation = "snapshot" => r.snapshotComplete
                  /\ r.preservation = "stash" => r.stashRef

WriteVanish == /\ phase = "receipt"
               /\ \E fails \in SUBSET {"diff", "ls-files", "stash"} :
                     LET p == Preserve(tree, fails)
                     IN /\ receipt' = VanishReceipt(obs, ClassifyRecovery(obs, budget), p)
                        /\ lost' = IF obs.gitDelta \in {"dirty", "unknown"} THEN p.lost ELSE NothingLost
               /\ phase' = "act"
               /\ UNCHANGED <<caller, tree, edits, vanished, obs, loop, loopHistory>>

-----------------------------------------------------------------------------
(* operate(goal) *)

(* singleFlightAccept; the answer is the agent's. *)
Submit == /\ phase = "submit"
          /\ \E ok \in BOOLEAN :
                /\ accepted' = ok
                /\ lifecycle' = IF iterations > 0 THEN lifecycle
                                ELSE IF ok THEN "observing" ELSE "submitted"
          /\ phase' = "observe"
          /\ UNCHANGED <<caller, tree, edits, vanished, obs, receipt, lost,
                         budget, iterations, blocker, loopHistory>>

(* Where a caller goes with a classified observation. *)
AfterObserve(c) == IF RequiresVanish(c) THEN "receipt" ELSE "act"

(* operate takes any observation: its provider is injected.  In recover the     *)
(* owner finds itself alive, unless the record blames a vanished one, and the   *)
(* command that could not reach an owner reports it dead.                       *)
OwnerLiveSeen == CASE caller = "operate" -> BOOLEAN
                   [] caller = "owner" -> {~vanished}
                   [] OTHER -> {FALSE}

(* The iterations of the loop are counted; recover looks once. *)
Counted == IF caller = "operate" THEN iterations + 1 ELSE iterations

Observe == /\ phase = "observe"
           /\ caller = "operate" => iterations < MaxIterations
           /\ iterations' = Counted
           /\ \E live \in OwnerLiveSeen, d \in GitDeltas(tree), done, failed \in BOOLEAN,
                 risk \in {"normal", "prompt-not-accepted"} :
                LET o == [ownerLive |-> live, gitDelta |-> d, completed |-> done,
                          validationFailed |-> failed,
                          risk |-> IF tree.exists THEN risk ELSE "deleted-worktree"]
                IN /\ caller = "operate" \/ (risk = "normal" /\ ~failed)
                   /\ obs' = o
                   /\ sawCompletion' = (sawCompletion \/ done)
                   /\ phase' = AfterObserve(ClassifyRecovery(o, budget))
           /\ receipt' = NoReceipt
           /\ lost' = NothingLost
           /\ acted' = "none"
           /\ UNCHANGED <<caller, tree, edits, vanished, budget, accepted, lifecycle, blocker, taken>>

(* The loop ran out without a completion. *)
Exhausted == /\ phase = "observe" /\ caller = "operate"
             /\ iterations = MaxIterations
             /\ lifecycle' = "blocked"
             /\ blocker' = "no-observed-completion"
             /\ phase' = "returned"
             /\ UNCHANGED <<caller, tree, edits, vanished, obs, receipt, lost,
                            budget, iterations, accepted, loopHistory>>

Deciding(c) == phase = "act" /\ caller = "operate" /\ ClassifyRecovery(obs, budget) = c

Continue == /\ Deciding("continue")
            /\ IF obs.completed THEN lifecycle' = "finalizing" /\ phase' = "finalize"
                                ELSE UNCHANGED lifecycle /\ phase' = "observe"
            /\ taken' = IF obs.validationFailed THEN [taken EXCEPT !["validationRepair"] = @ + 1] ELSE taken
            /\ obs' = NoObs
            /\ UNCHANGED <<caller, tree, edits, vanished, receipt, lost,
                           budget, iterations, accepted, blocker, acted, sawCompletion>>

Block(b) == /\ lifecycle' = "blocked"
            /\ blocker' = b
            /\ phase' = "returned"
            /\ obs' = NoObs
            /\ UNCHANGED <<caller, tree, edits, vanished, receipt, lost,
                           budget, iterations, accepted, taken, sawCompletion>>

InvalidReceipt == /\ phase = "act" /\ caller = "operate" /\ receipt # NoReceipt
                  /\ ~ValidVanish(receipt)
                  /\ Block("invalid-vanish-receipt")
                  /\ UNCHANGED acted

RetryFree(f) == /\ taken' = [taken EXCEPT ![f] = @ + 1]
                /\ phase' = "submit"
                /\ obs' = NoObs
                /\ UNCHANGED <<caller, tree, edits, vanished, receipt, lost, budget,
                               iterations, accepted, lifecycle, blocker, sawCompletion>>

(* Spend one retry of a family, if there is one to spend, and submit again. *)
Retry(f) == /\ budget' = [budget EXCEPT ![f] = IF @ > 0 THEN @ - 1 ELSE 0]
            /\ taken' = [taken EXCEPT ![f] = @ + 1]
            /\ phase' = "submit"
            /\ obs' = NoObs
            /\ UNCHANGED <<caller, tree, edits, vanished, receipt, lost,
                           iterations, accepted, lifecycle, blocker, sawCompletion>>

Reinject == Deciding("reinject-prompt") /\ Retry("reinjectPrompt") /\ UNCHANGED acted

RestartClean == /\ Deciding("restart-clean")
                /\ ValidVanish(receipt)
                /\ acted' = "restart-clean"
                /\ Retry("zeroDeltaVanish")

RestartPreserve == /\ Deciding("restart-preserve-delta")
                   /\ ValidVanish(receipt)
                   /\ acted' = "restart-preserve-delta"
                   /\ Retry("dirtyVanishPreserve")

Fallback == /\ Deciding("fallback-codex-exec")
            /\ ValidVanish(receipt)
            /\ acted' = "fallback-codex-exec"
            /\ Block("fallback-codex-exec-requested")

HumanCheck == Deciding("human-check") /\ Block("human-check-required") /\ UNCHANGED acted

(* runFinalize, whose steps are in Finalize. *)
RunFinalize == /\ phase = "finalize"
               /\ \E done \in BOOLEAN :
                     /\ lifecycle' = IF done THEN "completed" ELSE "blocked"
                     /\ blocker' = IF done THEN "none" ELSE "finalize"
               /\ phase' = "returned"
               /\ UNCHANGED <<caller, tree, edits, vanished, obs, receipt, lost,
                              budget, iterations, accepted, loopHistory>>

(* emit, the transport or an external command throws out of the call. *)
CallThrows == /\ phase # "returned" /\ phase # "failed"
              /\ phase' = "failed"
              /\ UNCHANGED <<caller, tree, edits, vanished, obs, receipt, lost, loop, loopHistory>>

-----------------------------------------------------------------------------
(* The owner's recover verb clears the blame once a receipt is written.    *)
OwnerRecover == /\ phase = "act" /\ caller = "owner"
                /\ vanished' = (vanished /\ receipt = NoReceipt)
                /\ acted' = IF receipt # NoReceipt THEN receipt.classification ELSE "none"
                /\ phase' = "returned"
                /\ UNCHANGED <<caller, tree, edits, obs, receipt, lost, loop, taken, sawCompletion>>

(* The recover command spawns an owner in the worktree when the classification *)
(* asks for one and the last owner had an endpoint (had: it is in lease.json). *)
CliRecover == /\ phase = "act" /\ caller = "cli"
              /\ \E had \in BOOLEAN :
                    acted' = IF had /\ OwnerRequired(ClassifyRecovery(obs, budget))
                             THEN ClassifyRecovery(obs, budget) ELSE "none"
              /\ phase' = "returned"
              /\ UNCHANGED <<caller, tree, edits, vanished, obs, receipt, lost, loop, taken, sawCompletion>>

-----------------------------------------------------------------------------
(* The agent, the user or a build changes the worktree. *)
Edit == /\ edits < MaxEdits /\ phase \notin {"returned", "failed"} /\ tree.exists
        /\ \E parts \in SUBSET Parts :
              /\ parts # tree.parts
              /\ tree' = [tree EXCEPT !.parts = parts]
        /\ edits' = edits + 1
        /\ UNCHANGED <<caller, phase, vanished, obs, receipt, lost, loop, loopHistory>>

Commit == /\ edits < MaxEdits /\ phase \notin {"returned", "failed"} /\ tree.exists
          /\ tree' = [tree EXCEPT !.parts = {}, !.born = TRUE]
          /\ edits' = edits + 1
          /\ UNCHANGED <<caller, phase, vanished, obs, receipt, lost, loop, loopHistory>>

Remove == /\ edits < MaxEdits /\ phase \notin {"returned", "failed"} /\ tree.exists
          /\ tree' = [tree EXCEPT !.parts = {}, !.exists = FALSE]
          /\ edits' = edits + 1
          /\ UNCHANGED <<caller, phase, vanished, obs, receipt, lost, loop, loopHistory>>

RecoveryStep == \/ Submit \/ Observe \/ Exhausted \/ WriteVanish \/ Continue \/ InvalidReceipt
                \/ Reinject \/ RestartClean \/ RestartPreserve \/ Fallback \/ HumanCheck
                \/ RunFinalize \/ OwnerRecover \/ CliRecover

RecoveryNext == RecoveryStep \/ CallThrows \/ Edit \/ Commit \/ Remove

RecoverySpec == RecoveryInit /\ [][RecoveryNext]_recoveryVars

-----------------------------------------------------------------------------
(* The variables have their shapes. *)
RecoveryTypeOK == /\ caller \in Callers
                  /\ phase \in {"submit", "observe", "receipt", "act", "finalize", "returned", "failed"}
                  /\ tree \in [exists : BOOLEAN, born : BOOLEAN, parts : SUBSET Parts]
                  /\ edits \in 0 .. MaxEdits
                  /\ vanished \in BOOLEAN
                  /\ obs \in Observations \cup {NoObs}
                  /\ receipt \in Receipts \cup {NoReceipt}
                  /\ lost \in Losses
                  /\ budget \in [Families -> Nat]
                  /\ iterations \in 0 .. MaxIterations
                  /\ accepted \in BOOLEAN
                  /\ lifecycle \in {"started", "submitted", "observing", "finalizing", "blocked", "completed"}
                  /\ blocker \in {"none", "no-observed-completion", "invalid-vanish-receipt", "finalize",
                                  "fallback-codex-exec-requested", "human-check-required"}
                  /\ taken \in [Families -> Nat]
                  /\ acted \in Classes \cup {"none"}
                  /\ sawCompletion \in BOOLEAN

(* The operate loop restarts or falls back only on a valid vanish receipt for   *)
(* that very decision, and never does what the receipt forbids: a worktree seen *)
(* dirty or unreadable is not restarted clean, however it changes meanwhile.    *)
LoopActsOnReceipt == caller = "operate" /\ acted # "none" =>
                        /\ receipt # NoReceipt
                        /\ ValidVanish(receipt)
                        /\ receipt.classification = acted
                        /\ receipt.forbidsClean => acted # "restart-clean"

(* The prompt is injected again, and a dirty worktree restarted, no more often  *)
(* than their budgets allow, whatever the loop sees in between.                 *)
RetriesBounded == /\ taken["reinjectPrompt"] <= InitialBudget["reinjectPrompt"]
                  /\ taken["dirtyVanishPreserve"] <= InitialBudget["dirtyVanishPreserve"]

(* Nothing is finalized, let alone completed, because the loop ran out: some    *)
(* observation of this loop showed a completion.                                *)
CompletedWasObserved == lifecycle \in {"finalizing", "completed"} => sawCompletion

(* When the loop restarts or falls back, the stash named by the receipt holds   *)
(* the tracked changes that git reported, and without a stash every untracked   *)
(* file it reported is on record with its hash.  (The content of an untracked   *)
(* file is in the worktree only, which the loop leaves alone.)                  *)
RestartAccountsForWork == caller = "operate" /\ acted # "none" =>
                             /\ "tracked" \notin lost.content
                             /\ receipt.stashRef \/ lost.hash = {}

=============================================================================
