------------------------------ MODULE Finalize ------------------------------
(***************************************************************************)
(* The evidence-gated finalizer: it resolves the commit, runs the          *)
(* validation commands and persists a receipt for each, looks for the      *)
(* commit on the branch and for a pull request, reads the receipts back,   *)
(* and writes a completion receipt.  A review session has no such evidence *)
(* and ends on a verdict instead.                                          *)
(*                                                                         *)
(* The repository does not stand still meanwhile: the agent or a user      *)
(* commits, amends, changes the branch, opens and closes the pull request, *)
(* and a stored receipt may be damaged.                                    *)
(***************************************************************************)
EXTENDS Naturals, Sequences

CONSTANTS Commands,   \* validation commands a session may have
          MaxMoves,   \* bound on what others do to the repository
          Texts       \* final assistant texts, as sequences of words

VARIABLES require,    \* the requirements of this call
          commands,   \* the validation commands of this session
          review,     \* a review session
          pc, commit, \* the commit under test, 0 when there is none
          todo,       \* commands still to run
          result,     \* per command: not run, passed or failed
          stored,     \* per command: the receipt on disk
          artifact,   \* a pull request was found
          blockers, completed, verdict,
          completion, \* a completion receipt is in the index
          head, branch, pr, moves, \* the repository: HEAD, commits on the branch
          ranOn, onceOnBranch, readBack, asked \* history

call == <<require, commands, review>>
gate == <<commit, todo, result, artifact, blockers, completed, verdict, completion>>
repo == <<head, branch, pr, moves>>
history == <<ranOn, onceOnBranch, readBack, asked>>
vars == <<call, pc, gate, stored, repo, history>>

Verdicts == {"APPROVE_MERGE_READY", "REQUEST_CHANGES", "OWNER_CONFIRMATION_REQUIRED"}
Blockers == {"validation-failed", "validation-required-but-none-run", "missing-commit",
             "commit-not-on-branch", "missing-pr-or-issue", "missing-validation-receipt",
             "validation-receipt-invalid", "completion-receipt-invalid",
             "review-verdict-invalid", "review-verdict-missing", "owner-confirmation-required"}

ASSUME BoundAssumption == MaxMoves \in Nat

ASSUME TextsAssumption == \A text \in Texts : text \in Seq(STRING)

Init == /\ require \in [tests : BOOLEAN, commit : BOOLEAN, pr : BOOLEAN]
        /\ commands \in SUBSET Commands
        /\ review \in BOOLEAN
        /\ pc = "start"
        /\ commit = 0
        /\ todo = commands
        /\ result = [c \in Commands |-> "none"]
        /\ stored = [c \in Commands |-> "missing"]
        /\ artifact = FALSE
        /\ blockers = {}
        /\ completed = FALSE
        /\ verdict = "none"
        /\ completion = FALSE
        /\ head \in {0, 1}
        /\ branch \in {{}, {head} \ {0}}
        /\ pr \in BOOLEAN
        /\ moves = 0
        /\ ranOn = [c \in Commands |-> 0]
        /\ onceOnBranch = branch
        /\ readBack = [c \in Commands |-> "missing"]
        /\ asked = [explicit |-> "none", text |-> <<>>]

-----------------------------------------------------------------------------
(* The verdict of a review: the last verdict word of the final text, which each *)
(* match of the loop over the matches takes from the one before.                *)
Canonical(w) == IF w = "MERGE_READY" THEN "APPROVE_MERGE_READY" ELSE w

IsToken(w) == Canonical(w) \in Verdicts

Matches(text) == {i \in DOMAIN text : IsToken(text[i])}

ExtractFirstVerdict(text) ==
    IF Matches(text) = {} THEN "none"
    ELSE Canonical(text[CHOOSE i \in Matches(text) : \A j \in Matches(text) : i <= j])

ExtractReviewVerdict(text) ==
    IF Matches(text) = {} THEN "none"
    ELSE Canonical(text[CHOOSE i \in Matches(text) : \A j \in Matches(text) : j <= i])

(* An explicit verdict, valid or not, keeps the text from being looked at. *)
ReviewVerdict(explicit, text) ==
    IF explicit \in Verdicts THEN explicit
    ELSE IF explicit # "none" THEN "none" ELSE ExtractReviewVerdict(text)

ReviewBlockers(explicit, v) ==
    CASE v = "none" -> {IF explicit = "none" THEN "review-verdict-missing" ELSE "review-verdict-invalid"}
      [] v = "OWNER_CONFIRMATION_REQUIRED" -> {"owner-confirmation-required"}
      [] OTHER -> {}

RunReviewFinalize == /\ pc = "start" /\ review
                     /\ \E explicit \in Verdicts \cup {"none", "SHIP_IT"}, text \in Texts :
                           LET v == ReviewVerdict(explicit, text)
                           IN /\ asked' = [explicit |-> explicit, text |-> text]
                              /\ verdict' = v
                              /\ blockers' = ReviewBlockers(explicit, v)
                              /\ completed' = (v \in Verdicts \ {"OWNER_CONFIRMATION_REQUIRED"})
                     /\ pc' = "returned"
                     /\ UNCHANGED <<call, commit, todo, result, artifact, completion, stored, repo,
                                    ranOn, onceOnBranch, readBack>>

-----------------------------------------------------------------------------
ResolveCommit == /\ pc = "start" /\ ~review
                 /\ commit' = head
                 /\ pc' = "validate"
                 /\ UNCHANGED <<call, todo, result, artifact, blockers, completed, verdict, completion,
                                stored, repo, history>>

(* The command runs in the worktree as it is now; its receipt names the commit *)
(* that was resolved at the start.                                             *)
RunValidation(c) == /\ pc = "validate" /\ c \in todo
                    /\ \E pass \in BOOLEAN :
                          /\ result' = [result EXCEPT ![c] = IF pass THEN "passed" ELSE "failed"]
                          /\ blockers' = IF require.tests /\ ~pass
                                         THEN blockers \cup {"validation-failed"} ELSE blockers
                    /\ stored' = [stored EXCEPT ![c] = "intact"]
                    /\ ranOn' = [ranOn EXCEPT ![c] = head]
                    /\ todo' = todo \ {c}
                    /\ UNCHANGED <<call, pc, commit, artifact, completed, verdict, completion, repo,
                                   onceOnBranch, readBack, asked>>

ValidationsDone == /\ pc = "validate" /\ todo = {}
                   /\ blockers' = IF require.tests /\ commands = {}
                                  THEN blockers \cup {"validation-required-but-none-run"} ELSE blockers
                   /\ pc' = "branch"
                   /\ UNCHANGED <<call, commit, todo, result, artifact, completed, verdict, completion,
                                  stored, repo, history>>

CommitBlockersIfAny == IF ~require.commit \/ commit = 0 \/ commit \in branch THEN {}
                       ELSE {"commit-not-on-branch"}

CommitBlockers == IF ~require.commit THEN {}
                  ELSE IF commit = 0 THEN {"missing-commit"}
                  ELSE IF commit \notin branch THEN {"commit-not-on-branch"} ELSE {}

CommitOnBranch == /\ pc = "branch"
                  /\ blockers' = blockers \cup CommitBlockers
                  /\ pc' = "artifact"
                  /\ UNCHANGED <<call, commit, todo, result, artifact, completed, verdict, completion,
                                 stored, repo, history>>

PrOrIssue == /\ pc = "artifact"
             /\ artifact' = pr
             /\ blockers' = IF require.pr /\ ~pr THEN blockers \cup {"missing-pr-or-issue"} ELSE blockers
             /\ pc' = "crossvalidate"
             /\ UNCHANGED <<call, commit, todo, result, completed, verdict, completion, stored, repo, history>>

StoredBlockersUnread(c) == IF stored[c] = "missing" THEN {"missing-validation-receipt"} ELSE {}

(* What reading a validation receipt back from the index finds. *)
StoredBlockers(c) == CASE stored[c] = "missing" -> {"missing-validation-receipt"}
                       [] stored[c] = "altered" \/ result[c] = "failed" -> {"validation-receipt-invalid"}
                       [] OTHER -> {}

CrossValidate == /\ pc = "crossvalidate"
                 /\ blockers' = IF blockers = {} THEN UNION {StoredBlockers(c) : c \in commands} ELSE blockers
                 /\ readBack' = stored
                 /\ pc' = "complete"
                 /\ UNCHANGED <<call, commit, todo, result, artifact, completed, verdict, completion,
                                stored, repo, ranOn, onceOnBranch, asked>>

(* validateCompletion *)
ValidCompletion == commit # 0 /\ artifact /\ commands # {}

(* The reasons of an invalid completion receipt are its blockers. *)
Refused == {"completion-receipt-invalid"}

(* The completion receipt is written whether or not it is valid. *)
Complete == /\ pc = "complete"
            /\ \/ /\ blockers # {}
                  /\ UNCHANGED <<completed, completion, blockers>>
               \/ /\ blockers = {}
                  /\ completion' = TRUE
                  /\ completed' = ValidCompletion
                  /\ blockers' = IF ValidCompletion THEN {} ELSE Refused
            /\ pc' = "returned"
            /\ UNCHANGED <<call, commit, todo, result, artifact, verdict, stored, repo, history>>

(* Storage, git or gh throws out of the call. *)
Throw == /\ pc \notin {"returned", "failed"}
         /\ pc' = "failed"
         /\ UNCHANGED <<call, gate, stored, repo, history>>

-----------------------------------------------------------------------------
(* What the agent, the user and the disk do meanwhile. *)
Moving == /\ moves < MaxMoves /\ pc \notin {"returned", "failed"}
          /\ moves' = moves + 1

(* A commit, on the branch of the session or elsewhere. *)
CommitWork == /\ Moving
              /\ head' = head + 1
              /\ branch' \in {branch, branch \cup {head + 1}}
              /\ onceOnBranch' = onceOnBranch \cup branch'
              /\ UNCHANGED <<call, pc, gate, stored, pr, ranOn, readBack, asked>>

(* An amend, reset or rebase takes the commit at HEAD off the branch. *)
Amend == /\ Moving /\ head # 0
         /\ head' = head + 1
         /\ branch' = (branch \ {head}) \cup {head + 1}
         /\ onceOnBranch' = onceOnBranch \cup branch'
         /\ UNCHANGED <<call, pc, gate, stored, pr, ranOn, readBack, asked>>

TogglePr == /\ Moving
            /\ pr' = ~pr
            /\ UNCHANGED <<call, pc, gate, stored, head, branch, history>>

Damage(c) == /\ Moving /\ stored[c] = "intact"
             /\ \E d \in {"missing", "altered"} : stored' = [stored EXCEPT ![c] = d]
             /\ UNCHANGED <<call, pc, gate, head, branch, pr, history>>

Step == \/ RunReviewFinalize \/ ResolveCommit \/ ValidationsDone \/ CommitOnBranch \/ PrOrIssue
        \/ CrossValidate \/ Complete \/ \E c \in Commands : RunValidation(c)

Next == Step \/ Throw \/ CommitWork \/ Amend \/ TogglePr \/ \E c \in Commands : Damage(c)

Spec == Init /\ [][Next]_vars

-----------------------------------------------------------------------------
(* The variables have their shapes. *)
TypeOK == /\ require \in [tests : BOOLEAN, commit : BOOLEAN, pr : BOOLEAN]
          /\ commands \subseteq Commands /\ review \in BOOLEAN
          /\ pc \in {"start", "validate", "branch", "artifact", "crossvalidate", "complete",
                     "returned", "failed"}
          /\ commit \in Nat /\ head \in Nat /\ moves \in 0 .. MaxMoves
          /\ todo \subseteq commands
          /\ result \in [Commands -> {"none", "passed", "failed"}]
          /\ stored \in [Commands -> {"missing", "intact", "altered"}]
          /\ readBack \in [Commands -> {"missing", "intact", "altered"}]
          /\ ranOn \in [Commands -> Nat]
          /\ artifact \in BOOLEAN /\ completed \in BOOLEAN /\ completion \in BOOLEAN /\ pr \in BOOLEAN
          /\ blockers \subseteq Blockers
          /\ verdict \in Verdicts \cup {"none"}
          /\ branch \subseteq Nat /\ onceOnBranch \subseteq Nat

(* An implementation is completed only with a commit, a pull request, and at    *)
(* least one validation, all of which ran, passed and were read back unharmed,  *)
(* whatever the caller asked not to require; and where it requires the commit   *)
(* on the branch, it has been there.                                            *)
CompletedIsProved == completed /\ ~review =>
                        /\ commit # 0 /\ artifact /\ commands # {}
                        /\ \A c \in commands : result[c] = "passed" /\ readBack[c] = "intact"
                        /\ require.commit => commit \in onceOnBranch

(* A review is completed only on a terminal verdict, the operator's if there    *)
(* was one, and else the last one the agent stated.                             *)
ReviewIsDecided == completed /\ review =>
                      /\ verdict \in {"APPROVE_MERGE_READY", "REQUEST_CHANGES"}
                      /\ \/ asked.explicit = verdict
                         \/ /\ asked.explicit = "none"
                            /\ \E i \in DOMAIN asked.text :
                                  /\ Canonical(asked.text[i]) = verdict
                                  /\ \A j \in DOMAIN asked.text : j > i => ~IsToken(asked.text[j])

(* A completed session was validated on the commit it names. *)
ValidatedTheCommit == completed /\ ~review => \A c \in commands : ranOn[c] = commit

(* The completion receipt is written before its validity is known.  A call that  *)
(* requires all the evidence, as operate's does, never leaves one behind for a    *)
(* session that it then reports as blocked.                                       *)
ReceiptMeansCompleted == pc = "returned" /\ completion /\ require.tests /\ require.commit /\ require.pr
                            => completed

=============================================================================
