--------------------------- MODULE EvidenceProofs ---------------------------
(***************************************************************************)
(* The evidence of a session: the spool its receipts are appended to, the  *)
(* finalizer that asks for them, and the recovery that acts on them.       *)
(*                                                                         *)
(* The spool.  The process that holds the lock has a cursor above every    *)
(* readable line (Above), because a scan gives the highest one and a cache *)
(* of the current revision gives one at least as high (Fresh); a cache of  *)
(* an older revision can never become current, since the file only grows.  *)
(*                                                                         *)
(* The finalizer.  An empty set of blockers at each stage stands for the   *)
(* checks passed so far (Clear).  A review ends on the last verdict of its *)
(* text, which exists as soon as the text has one (LastOf).                *)
(*                                                                         *)
(* Recovery.  What the loop holds at each step (Held) is the receipt of    *)
(* the decision it is about to carry out, and budgets are spent one for    *)
(* one (Spent), because a retry is only decided while its budget lasts.    *)
(***************************************************************************)
EXTENDS ReceiptSpool, Finalize, Recovery, WellFoundedInduction, TLAPS

(* A process that is in the middle of an append holds the lock. *)
Exclusive == \A p \in Procs : stage[p] # "idle" => lock = p

(* Its cursor is above every line, or at least as high once it is written. *)
Above == \A p \in Procs : /\ stage[p] \in {"open", "written"} => mine[p] # 0
                          /\ stage[p] = "open" => \A k \in readable : k < mine[p]
                          /\ stage[p] = "written" => \A k \in readable : k <= mine[p]

(* No cache is of a later revision, and one of this revision is honest. *)
Fresh == \A p \in Procs : cache[p] # NoCache =>
            /\ cache[p].size <= size
            /\ cache[p].size = size => \A n \in readable : n <= cache[p].highest

(* A process has begun at least the append it is in. *)
Begun == \A p \in Procs : stage[p] # "idle" => begun[p] # 0

(* Without a torn write the returned cursors, and the written one, are lines. *)
Whole == ~torn => /\ tail = "closed"
                  /\ \A a \in acked : a.cursor \in readable
                  /\ \A a, b \in acked : a.cursor = b.cursor => a = b
                  /\ \A p \in Procs : stage[p] = "written" =>
                        mine[p] \in readable /\ \A a \in acked : a.cursor # mine[p]

SpoolInv == SpoolTypeOK /\ Exclusive /\ Above /\ Fresh /\ Begun /\ Whole

(* In the first state there is no line, no lock and no cache. *)
LEMMA SpoolInitInv == SpoolInit => SpoolInv
<1> SUFFICES ASSUME SpoolInit PROVE SpoolInv
  OBVIOUS
<1>1. SpoolTypeOK
  <2>1. cache \in [Procs -> Caches \cup {NoCache}] BY DEF SpoolInit
  <2>2. begun \in [Procs -> 0 .. MaxAppends] BY MaxAppendsAssumption DEF SpoolInit
  <2>3. mine \in [Procs -> Nat] /\ size \in Nat /\ bare \in Nat BY DEF SpoolInit
  <2> QED BY Zenon, <2>1, <2>2, <2>3 DEF SpoolInit, SpoolTypeOK
<1>2. Exclusive /\ Above /\ Begun /\ Whole BY DEF SpoolInit, Exclusive, Above, Begun, Whole
<1>3. Fresh BY DEF SpoolInit, Fresh
<1> QED BY <1>1, <1>2, <1>3 DEF SpoolInv

(* Taking the lock changes neither the file nor a cache. *)
LEMMA LockStep == ASSUME SpoolInv, NEW p \in Procs, Lock(p) PROVE SpoolInv'
<1> USE MaxAppendsAssumption, NoneAssumption
<1>1. SpoolTypeOK' BY DEF SpoolInv, SpoolTypeOK, Lock
<1>2. Exclusive' BY DEF SpoolInv, SpoolTypeOK, Exclusive, Lock
<1>3. Above' BY DEF SpoolInv, SpoolTypeOK, Exclusive, Above, Fresh, Lock
<1>4. Fresh' BY DEF SpoolInv, SpoolTypeOK, Exclusive, Above, Fresh, Lock
<1>5. Begun' BY DEF SpoolInv, SpoolTypeOK, Begun, Lock
<1>6. Whole' BY DEF SpoolInv, SpoolTypeOK, Exclusive, Above, Whole, Lock
<1> QED BY <1>1, <1>2, <1>3, <1>4, <1>5, <1>6 DEF SpoolInv

(* The cursor found, from the cache or by a scan, is above every line. *)
LEMMA ReadHighestStep == ASSUME SpoolInv, NEW p \in Procs, ReadHighest(p) PROVE SpoolInv'
<1> USE MaxAppendsAssumption, NoneAssumption
<1>1. SpoolTypeOK' BY DEF SpoolInv, SpoolTypeOK, ReadHighest, SameSpoolRevision, IsHighest, Caches
<1>2. Exclusive' BY DEF SpoolInv, SpoolTypeOK, Exclusive, ReadHighest, SameSpoolRevision, IsHighest, Caches
<1>3. Above' BY DEF SpoolInv, SpoolTypeOK, Exclusive, Above, Fresh, ReadHighest, SameSpoolRevision, IsHighest, Caches
<1>4. Fresh' BY DEF SpoolInv, SpoolTypeOK, Exclusive, Above, Fresh, ReadHighest, SameSpoolRevision, IsHighest, Caches
<1>5. Begun' BY DEF SpoolInv, SpoolTypeOK, Begun, ReadHighest, SameSpoolRevision, IsHighest, Caches
<1>6. Whole' BY DEF SpoolInv, SpoolTypeOK, Exclusive, Above, Whole, ReadHighest, SameSpoolRevision, IsHighest, Caches
<1> QED BY <1>1, <1>2, <1>3, <1>4, <1>5, <1>6 DEF SpoolInv

(* A complete write adds its own cursor at most and makes every cache old. *)
LEMMA WriteRecordStep == ASSUME SpoolInv, NEW p \in Procs, WriteRecord(p) PROVE SpoolInv'
<1> USE MaxAppendsAssumption, NoneAssumption
<1>1. SpoolTypeOK' BY DEF SpoolInv, SpoolTypeOK, Above, WriteRecord, Glued, Caches
<1>2. Exclusive' BY DEF SpoolInv, SpoolTypeOK, Exclusive, WriteRecord, Glued, Caches
<1>3. Above' BY DEF SpoolInv, SpoolTypeOK, Exclusive, Above, Fresh, WriteRecord, Glued, Caches
<1>4. Fresh' BY DEF SpoolInv, SpoolTypeOK, Exclusive, Above, Fresh, WriteRecord, Glued, Caches
<1>5. Begun' BY DEF SpoolInv, SpoolTypeOK, Begun, WriteRecord, Glued, Caches
<1>6. Whole' BY DEF SpoolInv, SpoolTypeOK, Exclusive, Above, Whole, WriteRecord, Glued, Caches
<1> QED BY <1>1, <1>2, <1>3, <1>4, <1>5, <1>6 DEF SpoolInv

(* A failed write adds its own cursor at most and makes every cache old. *)
LEMMA FailWriteStep == ASSUME SpoolInv, NEW p \in Procs, FailWrite(p) PROVE SpoolInv'
<1> USE MaxAppendsAssumption, NoneAssumption
<1>1. SpoolTypeOK' BY DEF SpoolInv, SpoolTypeOK, Above, FailWrite, Fragment, Leave, Glued, Caches
<1>2. Exclusive' BY DEF SpoolInv, SpoolTypeOK, Exclusive, FailWrite, Fragment, Leave, Glued, Caches
<1>3. Above' BY DEF SpoolInv, SpoolTypeOK, Exclusive, Above, Fresh, FailWrite, Fragment, Leave, Glued, Caches
<1>4. Fresh' BY DEF SpoolInv, SpoolTypeOK, Exclusive, Above, Fresh, FailWrite, Fragment, Leave, Glued, Caches
<1>5. Begun' BY DEF SpoolInv, SpoolTypeOK, Begun, FailWrite, Fragment, Leave, Glued, Caches
<1>6. Whole' BY DEF SpoolInv, SpoolTypeOK, Exclusive, Above, Whole, FailWrite, Fragment, Leave, Glued, Caches
<1> QED BY <1>1, <1>2, <1>3, <1>4, <1>5, <1>6 DEF SpoolInv

(* So does the write of a process that dies in it. *)
LEMMA DieWritingStep == ASSUME SpoolInv, NEW p \in Procs, DieWriting(p) PROVE SpoolInv'
<1> USE MaxAppendsAssumption, NoneAssumption
<1>1. SpoolTypeOK' BY DEF SpoolInv, SpoolTypeOK, Above, DieWriting, Fragment, Leave, Glued, Caches
<1>2. Exclusive' BY DEF SpoolInv, SpoolTypeOK, Exclusive, DieWriting, Fragment, Leave, Glued, Caches
<1>3. Above' BY DEF SpoolInv, SpoolTypeOK, Exclusive, Above, Fresh, DieWriting, Fragment, Leave, Glued, Caches
<1>4. Fresh' BY DEF SpoolInv, SpoolTypeOK, Exclusive, Above, Fresh, DieWriting, Fragment, Leave, Glued, Caches
<1>5. Begun' BY DEF SpoolInv, SpoolTypeOK, Begun, DieWriting, Fragment, Leave, Glued, Caches
<1>6. Whole' BY DEF SpoolInv, SpoolTypeOK, Exclusive, Above, Whole, DieWriting, Fragment, Leave, Glued, Caches
<1> QED BY <1>1, <1>2, <1>3, <1>4, <1>5, <1>6 DEF SpoolInv

(* A process that dies between two steps leaves the file as it is. *)
LEMMA DieStep == ASSUME SpoolInv, NEW p \in Procs, Die(p) PROVE SpoolInv'
<1> USE MaxAppendsAssumption, NoneAssumption
<1>1. SpoolTypeOK' BY DEF SpoolInv, SpoolTypeOK, Die, Leave, Caches
<1>2. Exclusive' BY DEF SpoolInv, SpoolTypeOK, Exclusive, Die, Leave, Caches
<1>3. Above' BY DEF SpoolInv, SpoolTypeOK, Exclusive, Above, Fresh, Die, Leave, Caches
<1>4. Fresh' BY DEF SpoolInv, SpoolTypeOK, Exclusive, Above, Fresh, Die, Leave, Caches
<1>5. Begun' BY DEF SpoolInv, SpoolTypeOK, Begun, Die, Leave, Caches
<1>6. Whole' BY DEF SpoolInv, SpoolTypeOK, Exclusive, Above, Whole, Die, Leave, Caches
<1> QED BY <1>1, <1>2, <1>3, <1>4, <1>5, <1>6 DEF SpoolInv

(* So does an append that throws between two steps. *)
LEMMA FailStep == ASSUME SpoolInv, NEW p \in Procs, Fail(p) PROVE SpoolInv'
<1> USE MaxAppendsAssumption, NoneAssumption
<1>1. SpoolTypeOK' BY DEF SpoolInv, SpoolTypeOK, Fail, Leave, Caches
<1>2. Exclusive' BY DEF SpoolInv, SpoolTypeOK, Exclusive, Fail, Leave, Caches
<1>3. Above' BY DEF SpoolInv, SpoolTypeOK, Exclusive, Above, Fresh, Fail, Leave, Caches
<1>4. Fresh' BY DEF SpoolInv, SpoolTypeOK, Exclusive, Above, Fresh, Fail, Leave, Caches
<1>5. Begun' BY DEF SpoolInv, SpoolTypeOK, Begun, Fail, Leave, Caches
<1>6. Whole' BY DEF SpoolInv, SpoolTypeOK, Exclusive, Above, Whole, Fail, Leave, Caches
<1> QED BY <1>1, <1>2, <1>3, <1>4, <1>5, <1>6 DEF SpoolInv

(* The cursor that is cached for the new revision is at least as high as every line. *)
LEMMA ReturnStep == ASSUME SpoolInv, NEW p \in Procs, Return(p) PROVE SpoolInv'
<1> USE MaxAppendsAssumption, NoneAssumption
<1>1. SpoolTypeOK' BY DEF SpoolInv, SpoolTypeOK, Above, Begun, Return, Leave, Caches
<1>2. Exclusive' BY DEF SpoolInv, SpoolTypeOK, Exclusive, Return, Leave, Caches
<1>3. Above' BY DEF SpoolInv, SpoolTypeOK, Exclusive, Above, Fresh, Return, Leave, Caches
<1>4. Fresh' BY DEF SpoolInv, SpoolTypeOK, Exclusive, Above, Fresh, Return, Leave, Caches
<1>5. Begun' BY DEF SpoolInv, SpoolTypeOK, Begun, Return, Leave, Caches
<1>6. Whole' BY DEF SpoolInv, SpoolTypeOK, Exclusive, Above, Whole, Return, Leave, Caches
<1> QED BY <1>1, <1>2, <1>3, <1>4, <1>5, <1>6 DEF SpoolInv

(* SpoolInv is kept by every step. *)
LEMMA SpoolNextInv == SpoolInv /\ [SpoolNext]_spoolVars => SpoolInv'
<1> SUFFICES ASSUME SpoolInv, [SpoolNext]_spoolVars PROVE SpoolInv'
  OBVIOUS
<1>1. CASE UNCHANGED spoolVars
  BY <1>1 DEF SpoolInv, SpoolTypeOK, Exclusive, Above, Fresh, Begun, Whole, spoolVars
<1>2. CASE SpoolNext
  BY <1>2, LockStep, ReadHighestStep, WriteRecordStep, FailWriteStep, DieWritingStep, DieStep,
     FailStep, ReturnStep DEF SpoolNext
<1> QED BY <1>1, <1>2

(* SpoolInv holds in every reachable state. *)
THEOREM SpoolInvariance == SpoolSpec => []SpoolInv
BY SpoolInitInv, SpoolNextInv, PTL DEF SpoolSpec

(* The spool and its users keep their types. *)
THEOREM TypeCorrect == SpoolSpec => []SpoolTypeOK
BY SpoolInvariance, PTL DEF SpoolInv

(* A cache that is taken for current knows every readable line. *)
THEOREM HonestCache == SpoolSpec => []CacheIsHonest
<1>1. SpoolInv => CacheIsHonest BY DEF SpoolInv, Fresh, CacheIsHonest, SameSpoolRevision
<1> QED BY <1>1, SpoolInvariance, PTL

(* Without a torn write, a returned cursor is a line of the file and unique. *)
THEOREM WholeIsUnique == SpoolSpec => []UniqueUnlessTorn
<1>1. SpoolInv => UniqueUnlessTorn BY DEF SpoolInv, Whole, UniqueUnlessTorn
<1> QED BY <1>1, SpoolInvariance, PTL

(* Every record is written under a cursor above all readable lines, torn or not. *)
THEOREM Ascending == SpoolSpec => CursorsAscend
<1>1. SpoolInv /\ [SpoolNext]_spoolVars => [\A p \in Procs : stage[p] = "open" /\ stage'[p] = "written" =>
                                  \A k \in readable : k < mine[p]]_spoolVars
  BY DEF SpoolInv, Above
<1> QED BY <1>1, SpoolInvariance, PTL DEF SpoolSpec, CursorsAscend

-----------------------------------------------------------------------------
(* A bounded set of natural numbers that is not empty has a largest element. *)
LEMMA LastOf == ASSUME NEW n \in Nat, NEW S \in SUBSET (0 .. n), S # {}
                PROVE  \E i \in S : \A j \in S : j <= i
<1> DEFINE R == OpToRel(<, Nat)
           T == {n - i : i \in S}
<1>1. T \subseteq Nat /\ T # {}
  <2>1. PICK i \in S : TRUE OBVIOUS
  <2>2. n - i \in T OBVIOUS
  <2>3. \A j \in S : n - j \in Nat OBVIOUS
  <2> QED BY <2>2, <2>3
<1>2. PICK x \in T : \A y \in T : ~(<<y, x>> \in R)
  <2> HIDE DEF R, T
  <2>1. IsWellFoundedOn(R, Nat) BY Zenon, NatLessThanWellFounded DEF R
  <2> QED BY Zenon, <1>1, <2>1, WFMin
<1>3. \A y \in T : ~(y < x) BY Zenon, <1>1, <1>2 DEF OpToRel
<1>4. PICK i \in S : x = n - i BY Zenon, <1>2
<1>5. ASSUME NEW j \in S PROVE j <= i
  <2>1. n - j \in T OBVIOUS
  <2>2. ~(n - j < n - i) BY Zenon, <1>3, <1>4, <2>1
  <2>3. i \in Nat /\ j \in Nat OBVIOUS
  <2> HIDE DEF R, T
  <2> QED BY <2>2, <2>3
<1> QED BY Zenon, <1>5

(* The verdict of a text is a canonical verdict, stated by a word after which no *)
(* verdict is stated, or there is none.                                          *)
LEMMA LastVerdict ==
  ASSUME NEW text \in Seq(STRING), ExtractReviewVerdict(text) # "none"
  PROVE  \E i \in DOMAIN text : /\ Canonical(text[i]) = ExtractReviewVerdict(text)
                                /\ \A j \in DOMAIN text : j > i => ~IsToken(text[j])
<1> DEFINE M == Matches(text)
           last == CHOOSE i \in M : \A j \in M : j <= i
<1>1. M # {} /\ ExtractReviewVerdict(text) = Canonical(text[last]) BY DEF ExtractReviewVerdict
<1>2. M \in SUBSET (0 .. Len(text)) /\ Len(text) \in Nat BY DEF Matches
<1>3. \E i \in M : \A j \in M : j <= i BY Zenon, <1>1, <1>2, LastOf
<1>4. last \in M /\ \A j \in M : j <= last BY <1>3
<1>5. last \in DOMAIN text BY <1>4 DEF Matches
<1>6. ASSUME NEW j \in DOMAIN text, j > last PROVE ~IsToken(text[j])
  <2> SUFFICES ASSUME IsToken(text[j]) PROVE FALSE OBVIOUS
  <2>1. j \in M BY DEF Matches
  <2> QED BY <1>2, <1>4, <1>6, <2>1
<1> QED BY Zenon, <1>1, <1>5, <1>6

(* The types the argument needs. *)
Shape == /\ result \in [Commands -> {"none", "passed", "failed"}]
         /\ stored \in [Commands -> {"missing", "intact", "altered"}]
         /\ readBack \in [Commands -> {"missing", "intact", "altered"}]
         /\ commands \subseteq Commands
         /\ todo \subseteq commands

(* The stages in order, and what each leaves behind. *)
Stages == /\ pc \in {"start", "validate", "branch", "artifact", "crossvalidate", "complete", "returned", "failed"}
          /\ review => pc \in {"start", "returned", "failed"}
          /\ pc \in {"branch", "artifact", "crossvalidate", "complete"} => todo = {}
          /\ \A c \in commands : c \notin todo => result[c] # "none"
          /\ completed => pc = "returned"
          /\ completion => pc = "returned"
          /\ branch \subseteq onceOnBranch

(* No blocker at a stage: the checks before it have passed. *)
Clear == blockers = {} =>
           /\ pc \in {"artifact", "crossvalidate", "complete"} /\ require.commit => commit \in onceOnBranch
           /\ pc \in {"branch", "artifact", "crossvalidate", "complete"} /\ require.tests => commands # {}
           /\ pc \in {"artifact", "crossvalidate", "complete"} /\ require.commit => commit # 0
           /\ pc \in {"crossvalidate", "complete"} /\ require.pr => artifact
           /\ pc = "complete" => \A c \in commands : result[c] = "passed" /\ readBack[c] = "intact"

IInv == Shape /\ Stages /\ Clear /\ CompletedIsProved /\ ReceiptMeansCompleted /\ ReviewIsDecided

(* At first no command has run and nothing is completed. *)
LEMMA InitIInv == Init => IInv
<1> SUFFICES ASSUME Init PROVE IInv
  OBVIOUS
<1>1. Shape BY DEF Init, Shape
<1>2. Stages BY DEF Init, Stages
<1>3. Clear /\ CompletedIsProved BY DEF Init, Clear, CompletedIsProved
<1>4. ReceiptMeansCompleted /\ ReviewIsDecided BY DEF Init, ReceiptMeansCompleted, ReviewIsDecided
<1> QED BY <1>1, <1>2, <1>3, <1>4 DEF IInv

(* A review ends without touching the evidence of an implementation. *)
LEMMA RunReviewFinalizeStep == ASSUME IInv, RunReviewFinalize PROVE IInv'
<1>1. Shape' BY DEF IInv, Shape, RunReviewFinalize, call, repo
<1>2. Stages' BY DEF IInv, Shape, Stages, RunReviewFinalize, call, repo
<1>3. Clear' BY DEF IInv, Shape, Stages, Clear, RunReviewFinalize, call, repo
<1>4. CompletedIsProved' BY DEF IInv, Stages, Clear, CompletedIsProved, RunReviewFinalize, call, repo
<1>5. ReceiptMeansCompleted' BY DEF IInv, Stages, Clear, ReceiptMeansCompleted, RunReviewFinalize, call, repo
<1>6. ReviewIsDecided'
  <2>1. PICK explicit \in Verdicts \cup {"none", "SHIP_IT"}, text \in Texts :
          /\ asked' = [explicit |-> explicit, text |-> text]
          /\ verdict' = ReviewVerdict(explicit, text)
          /\ completed' = (verdict' \in Verdicts \ {"OWNER_CONFIRMATION_REQUIRED"})
    BY DEF RunReviewFinalize
  <2> SUFFICES ASSUME completed'
               PROVE  /\ verdict' \in {"APPROVE_MERGE_READY", "REQUEST_CHANGES"}
                      /\ \/ asked'.explicit = verdict'
                         \/ /\ asked'.explicit = "none"
                            /\ \E i \in DOMAIN asked'.text :
                                  /\ Canonical(asked'.text[i]) = verdict'
                                  /\ \A j \in DOMAIN asked'.text : j > i => ~IsToken(asked'.text[j])
    BY DEF ReviewIsDecided
  <2>2. verdict' \in {"APPROVE_MERGE_READY", "REQUEST_CHANGES"} BY Zenon, <2>1 DEF Verdicts
  <2>3. CASE explicit \in Verdicts BY <2>1, <2>2, <2>3 DEF ReviewVerdict
  <2>4. CASE explicit \notin Verdicts
    <3>1. explicit = "none" /\ verdict' = ExtractReviewVerdict(text) BY <2>1, <2>2, <2>4 DEF ReviewVerdict
    <3>2. text \in Seq(STRING) BY TextsAssumption
    <3>3. \E i \in DOMAIN text : /\ Canonical(text[i]) = verdict'
                                 /\ \A j \in DOMAIN text : j > i => ~IsToken(text[j])
      BY <2>2, <3>1, <3>2, LastVerdict
    <3>4. asked'.text = text /\ asked'.explicit = "none" BY <2>1, <3>1
    <3> QED BY <2>2, <3>3, <3>4
  <2> QED BY <2>3, <2>4
<1> QED BY <1>1, <1>2, <1>3, <1>4, <1>5, <1>6 DEF IInv

(* Resolving the commit proves nothing yet. *)
LEMMA ResolveCommitStep == ASSUME IInv, ResolveCommit PROVE IInv'
<1>1. Shape' BY DEF IInv, Shape, ResolveCommit, call, gate, repo, history
<1>2. Stages' BY DEF IInv, Shape, Stages, ResolveCommit, call, gate, repo, history
<1>3. Clear' BY DEF IInv, Shape, Stages, Clear, ResolveCommit, call, gate, repo, history
<1>4. CompletedIsProved' BY DEF IInv, Stages, Clear, CompletedIsProved, ResolveCommit, call, gate, repo, history
<1>5. ReceiptMeansCompleted' BY DEF IInv, Stages, Clear, ReceiptMeansCompleted, ResolveCommit, call, gate, repo, history
<1>6. ReviewIsDecided' BY DEF IInv, Stages, ReviewIsDecided, ResolveCommit, call, gate, repo, history
<1> QED BY <1>1, <1>2, <1>3, <1>4, <1>5, <1>6 DEF IInv

(* The commands have all run when the commit is looked for. *)
LEMMA ValidationsDoneStep == ASSUME IInv, ValidationsDone PROVE IInv'
<1>1. Shape' BY DEF IInv, Shape, ValidationsDone, call, gate, repo, history
<1>2. Stages' BY DEF IInv, Shape, Stages, ValidationsDone, call, gate, repo, history
<1>3. Clear' BY DEF IInv, Shape, Stages, Clear, ValidationsDone, call, gate, repo, history
<1>4. CompletedIsProved' BY DEF IInv, Stages, Clear, CompletedIsProved, ValidationsDone, call, gate, repo, history
<1>5. ReceiptMeansCompleted' BY DEF IInv, Stages, Clear, ReceiptMeansCompleted, ValidationsDone, call, gate, repo, history
<1>6. ReviewIsDecided' BY DEF IInv, Stages, ReviewIsDecided, ValidationsDone, call, gate, repo, history
<1> QED BY <1>1, <1>2, <1>3, <1>4, <1>5, <1>6 DEF IInv

(* A commit that raises no blocker is on the branch now. *)
LEMMA CommitOnBranchStep == ASSUME IInv, CommitOnBranch PROVE IInv'
<1>1. Shape' BY DEF IInv, Shape, CommitOnBranch, CommitBlockers, call, gate, repo, history
<1>2. Stages' BY DEF IInv, Shape, Stages, CommitOnBranch, CommitBlockers, call, gate, repo, history
<1>3. Clear' BY DEF IInv, Shape, Stages, Clear, CommitOnBranch, CommitBlockers, call, gate, repo, history
<1>4. CompletedIsProved' BY DEF IInv, Stages, Clear, CompletedIsProved, CommitOnBranch, CommitBlockers, call, gate, repo, history
<1>5. ReceiptMeansCompleted' BY DEF IInv, Stages, Clear, ReceiptMeansCompleted, CommitOnBranch, CommitBlockers, call, gate, repo, history
<1>6. ReviewIsDecided' BY DEF IInv, Stages, ReviewIsDecided, CommitOnBranch, CommitBlockers, call, gate, repo, history
<1> QED BY <1>1, <1>2, <1>3, <1>4, <1>5, <1>6 DEF IInv

(* The pull request is looked for once. *)
LEMMA PrOrIssueStep == ASSUME IInv, PrOrIssue PROVE IInv'
<1>1. Shape' BY DEF IInv, Shape, PrOrIssue, call, gate, repo, history
<1>2. Stages' BY DEF IInv, Shape, Stages, PrOrIssue, call, gate, repo, history
<1>3. Clear' BY DEF IInv, Shape, Stages, Clear, PrOrIssue, call, gate, repo, history
<1>4. CompletedIsProved' BY DEF IInv, Stages, Clear, CompletedIsProved, PrOrIssue, call, gate, repo, history
<1>5. ReceiptMeansCompleted' BY DEF IInv, Stages, Clear, ReceiptMeansCompleted, PrOrIssue, call, gate, repo, history
<1>6. ReviewIsDecided' BY DEF IInv, Stages, ReviewIsDecided, PrOrIssue, call, gate, repo, history
<1> QED BY <1>1, <1>2, <1>3, <1>4, <1>5, <1>6 DEF IInv

(* Receipts that raise no blocker are intact and of commands that passed. *)
LEMMA CrossValidateStep == ASSUME IInv, CrossValidate PROVE IInv'
<1>1. Shape' BY DEF IInv, Shape, CrossValidate, StoredBlockers, call, gate, repo, history
<1>2. Stages' BY DEF IInv, Shape, Stages, CrossValidate, StoredBlockers, call, gate, repo, history
<1>3. Clear' BY DEF IInv, Shape, Stages, Clear, CrossValidate, StoredBlockers, call, gate, repo, history
<1>4. CompletedIsProved' BY DEF IInv, Stages, Clear, CompletedIsProved, CrossValidate, StoredBlockers, call, gate, repo, history
<1>5. ReceiptMeansCompleted' BY DEF IInv, Stages, Clear, ReceiptMeansCompleted, CrossValidate, StoredBlockers, call, gate, repo, history
<1>6. ReviewIsDecided' BY DEF IInv, Stages, ReviewIsDecided, CrossValidate, StoredBlockers, call, gate, repo, history
<1> QED BY <1>1, <1>2, <1>3, <1>4, <1>5, <1>6 DEF IInv

(* The call completes with no blocker and a valid completion receipt only. *)
LEMMA CompleteStep == ASSUME IInv, Complete PROVE IInv'
<1>1. Shape' BY DEF IInv, Shape, Complete, ValidCompletion, Refused, call, gate, repo, history
<1>2. Stages' BY DEF IInv, Shape, Stages, Complete, ValidCompletion, Refused, call, gate, repo, history
<1>3. Clear' BY DEF IInv, Shape, Stages, Clear, Complete, ValidCompletion, Refused, call, gate, repo, history
<1>4. CompletedIsProved' BY Zenon DEF IInv, Stages, Clear, CompletedIsProved, Complete, ValidCompletion, Refused, call, gate, repo, history
<1>5. ReceiptMeansCompleted' BY Zenon DEF IInv, Stages, Clear, ReceiptMeansCompleted, Complete, ValidCompletion, Refused, call, gate, repo, history
<1>6. ReviewIsDecided' BY DEF IInv, Stages, ReviewIsDecided, Complete, ValidCompletion, Refused, call, gate, repo, history
<1> QED BY <1>1, <1>2, <1>3, <1>4, <1>5, <1>6 DEF IInv

(* A call that throws has not completed. *)
LEMMA ThrowStep == ASSUME IInv, Throw PROVE IInv'
<1>1. Shape' BY DEF IInv, Shape, Throw, call, gate, repo, history
<1>2. Stages' BY DEF IInv, Shape, Stages, Throw, call, gate, repo, history
<1>3. Clear' BY DEF IInv, Shape, Stages, Clear, Throw, call, gate, repo, history
<1>4. CompletedIsProved' BY Zenon DEF IInv, Stages, Clear, CompletedIsProved, Throw, call, gate, repo, history
<1>5. ReceiptMeansCompleted' BY DEF IInv, Stages, Clear, ReceiptMeansCompleted, Throw, call, gate, repo, history
<1>6. ReviewIsDecided' BY DEF IInv, Stages, ReviewIsDecided, Throw, call, gate, repo, history
<1> QED BY <1>1, <1>2, <1>3, <1>4, <1>5, <1>6 DEF IInv

(* A commit leaves what was on the branch on record. *)
LEMMA CommitWorkStep == ASSUME IInv, CommitWork PROVE IInv'
<1>1. Shape' BY DEF IInv, Shape, CommitWork, Moving, call, gate, repo, history
<1>2. Stages' BY DEF IInv, Shape, Stages, CommitWork, Moving, call, gate, repo, history
<1>3. Clear' BY DEF IInv, Shape, Stages, Clear, CommitWork, Moving, call, gate, repo, history
<1>4. CompletedIsProved' BY DEF IInv, Stages, Clear, CompletedIsProved, CommitWork, Moving, call, gate, repo, history
<1>5. ReceiptMeansCompleted' BY DEF IInv, Stages, Clear, ReceiptMeansCompleted, CommitWork, Moving, call, gate, repo, history
<1>6. ReviewIsDecided' BY DEF IInv, Stages, ReviewIsDecided, CommitWork, Moving, call, gate, repo, history
<1> QED BY <1>1, <1>2, <1>3, <1>4, <1>5, <1>6 DEF IInv

(* So does an amend. *)
LEMMA AmendStep == ASSUME IInv, Amend PROVE IInv'
<1>1. Shape' BY DEF IInv, Shape, Amend, Moving, call, gate, repo, history
<1>2. Stages' BY DEF IInv, Shape, Stages, Amend, Moving, call, gate, repo, history
<1>3. Clear' BY DEF IInv, Shape, Stages, Clear, Amend, Moving, call, gate, repo, history
<1>4. CompletedIsProved' BY Zenon DEF IInv, Stages, Clear, CompletedIsProved, Amend, Moving, call, gate, repo, history
<1>5. ReceiptMeansCompleted' BY DEF IInv, Stages, Clear, ReceiptMeansCompleted, Amend, Moving, call, gate, repo, history
<1>6. ReviewIsDecided' BY Zenon DEF IInv, Stages, ReviewIsDecided, Amend, Moving, call, gate, repo, history
<1> QED BY <1>1, <1>2, <1>3, <1>4, <1>5, <1>6 DEF IInv

(* The gate has its own copy of the pull request. *)
LEMMA TogglePrStep == ASSUME IInv, TogglePr PROVE IInv'
<1>1. Shape' BY DEF IInv, Shape, TogglePr, Moving, call, gate, repo, history
<1>2. Stages' BY DEF IInv, Shape, Stages, TogglePr, Moving, call, gate, repo, history
<1>3. Clear' BY Zenon DEF IInv, Shape, Stages, Clear, TogglePr, Moving, call, gate, repo, history
<1>4. CompletedIsProved' BY Zenon DEF IInv, Stages, Clear, CompletedIsProved, TogglePr, Moving, call, gate, repo, history
<1>5. ReceiptMeansCompleted' BY Zenon DEF IInv, Stages, Clear, ReceiptMeansCompleted, TogglePr, Moving, call, gate, repo, history
<1>6. ReviewIsDecided' BY DEF IInv, Stages, ReviewIsDecided, TogglePr, Moving, call, gate, repo, history
<1> QED BY <1>1, <1>2, <1>3, <1>4, <1>5, <1>6 DEF IInv

(* A command that ran has passed or failed, and has a receipt. *)
LEMMA RunValidationStep == ASSUME IInv, NEW c \in Commands, RunValidation(c) PROVE IInv'
<1>1. Shape' BY DEF IInv, Shape, RunValidation, call, gate, repo, history
<1>2. Stages' BY DEF IInv, Shape, Stages, RunValidation, call, gate, repo, history
<1>3. Clear' BY DEF IInv, Shape, Stages, Clear, RunValidation, call, gate, repo, history
<1>4. CompletedIsProved' BY DEF IInv, Stages, Clear, CompletedIsProved, RunValidation, call, gate, repo, history
<1>5. ReceiptMeansCompleted' BY DEF IInv, Stages, Clear, ReceiptMeansCompleted, RunValidation, call, gate, repo, history
<1>6. ReviewIsDecided' BY Zenon DEF IInv, Stages, ReviewIsDecided, RunValidation, call, gate, repo, history
<1> QED BY <1>1, <1>2, <1>3, <1>4, <1>5, <1>6 DEF IInv

(* Damage to a receipt after it was read back is not seen. *)
LEMMA DamageStep == ASSUME IInv, NEW c \in Commands, Damage(c) PROVE IInv'
<1>1. Shape' BY DEF IInv, Shape, Damage, Moving, call, gate, repo, history
<1>2. Stages' BY DEF IInv, Shape, Stages, Damage, Moving, call, gate, repo, history
<1>3. Clear' BY DEF IInv, Shape, Stages, Clear, Damage, Moving, call, gate, repo, history
<1>4. CompletedIsProved' BY Zenon DEF IInv, Stages, Clear, CompletedIsProved, Damage, Moving, call, gate, repo, history
<1>5. ReceiptMeansCompleted' BY Zenon DEF IInv, Stages, Clear, ReceiptMeansCompleted, Damage, Moving, call, gate, repo, history
<1>6. ReviewIsDecided' BY Zenon DEF IInv, Stages, ReviewIsDecided, Damage, Moving, call, gate, repo, history
<1> QED BY <1>1, <1>2, <1>3, <1>4, <1>5, <1>6 DEF IInv

(* IInv is kept by every step. *)
LEMMA NextIInv == IInv /\ [Next]_vars => IInv'
<1> SUFFICES ASSUME IInv, [Next]_vars PROVE IInv'
  OBVIOUS
<1>1. CASE UNCHANGED vars
  BY Zenon, <1>1 DEF IInv, Shape, Stages, Clear, CompletedIsProved, ReceiptMeansCompleted, ReviewIsDecided, vars, call, gate, repo, history
<1>2. CASE Step
  BY <1>2, RunReviewFinalizeStep, ResolveCommitStep, ValidationsDoneStep, CommitOnBranchStep, PrOrIssueStep, CrossValidateStep, CompleteStep, RunValidationStep DEF Step
<1>3. CASE Throw \/ CommitWork \/ Amend \/ TogglePr \/ \E c \in Commands : Damage(c)
  BY <1>3, ThrowStep, CommitWorkStep, AmendStep, TogglePrStep, DamageStep
<1> QED BY <1>1, <1>2, <1>3 DEF Next

(* IInv holds in every reachable state. *)
THEOREM Invariance == Spec => []IInv
BY InitIInv, NextIInv, PTL DEF Spec

(* A completed implementation has a commit, a pull request and validations that *)
(* all passed and were read back intact; the commit was on the branch if that   *)
(* was required.                                                                *)
THEOREM CompletionIsProved == Spec => []CompletedIsProved
BY Invariance, PTL DEF IInv

(* A call that requires all the evidence leaves no completion receipt in the     *)
(* index for a session it blocks, although it writes the receipt before it       *)
(* validates it.                                                                 *)
THEOREM ReceiptIsHonest == Spec => []ReceiptMeansCompleted
BY Invariance, PTL DEF IInv

(* A completed review rests on a terminal verdict: the operator's where one was   *)
(* given, else the last one that the agent's final text states, whatever the text.*)
THEOREM ReviewDecision == Spec => []ReviewIsDecided
BY Invariance, PTL DEF IInv

-----------------------------------------------------------------------------
(* Recovery. *)

Decision == ClassifyRecovery(obs, budget)

(* No content of a tracked change is missing, and no hash of an untracked file. *)
Stashed(l) == "tracked" \notin l.content
Hashed(l) == l.hash = {}

(* Before it acts, a caller has an observation, and the receipt it asks for. *)
Held == /\ phase = "receipt" => obs # NoObs /\ receipt = NoReceipt /\ acted = "none"
        /\ phase = "act" => /\ obs # NoObs
                            /\ acted = "none"
                            /\ RequiresVanish(Decision) =>
                                  /\ receipt # NoReceipt
                                  /\ receipt.classification = Decision
                                  /\ receipt.forbidsClean => obs.gitDelta \in {"dirty", "unknown"}
                                  /\ receipt.snapshotComplete => Stashed(lost) /\ Hashed(lost)
                                  /\ receipt.stashRef => Stashed(lost)

(* The bounded families: what was spent is what is missing. *)
Spent == \A f \in {"reinjectPrompt", "dirtyVanishPreserve"} : taken[f] + budget[f] = InitialBudget[f]

(* A completion that led to the finalizer was seen. *)
Seen == /\ obs # NoObs => (obs.completed => sawCompletion)
        /\ phase = "finalize" => sawCompletion

RecoveryInv == /\ RecoveryTypeOK /\ Held /\ Spent /\ Seen
               /\ LoopActsOnReceipt /\ RestartAccountsForWork /\ CompletedWasObserved

(* What the classifier returns: always one of the classes, a bounded retry only *)
(* while its budget lasts, and a clean restart only of a tree observed clean.   *)
LEMMA Classified ==
    ASSUME NEW o \in Observations, NEW b \in [Families -> Nat]
    PROVE  /\ ClassifyRecovery(o, b) \in Classes
           /\ ClassifyRecovery(o, b) = "reinject-prompt" => b["reinjectPrompt"] > 0
           /\ ClassifyRecovery(o, b) = "restart-preserve-delta" => b["dirtyVanishPreserve"] > 0
           /\ ClassifyRecovery(o, b) = "restart-clean" => o.gitDelta \in {"clean", "zero-delta"}
<1>1. ClassifyVanish(o, b) \in {"restart-preserve-delta", "fallback-codex-exec", "restart-clean", "human-check"}
  BY DEF ClassifyVanish
<1>2. /\ ClassifyVanish(o, b) = "restart-preserve-delta" => b["dirtyVanishPreserve"] > 0
      /\ ClassifyVanish(o, b) = "restart-clean" => o.gitDelta \in {"clean", "zero-delta"}
  BY DEF ClassifyVanish, Observations, Deltas
<1>3. /\ ClassifyLive(o, b) \in {"reinject-prompt", "continue", "human-check"}
      /\ ClassifyLive(o, b) = "reinject-prompt" => b["reinjectPrompt"] > 0
  BY DEF ClassifyLive
<1> QED BY <1>1, <1>2, <1>3 DEF ClassifyRecovery, Classes

(* The same of the decision at hand. *)
LEMMA Decided ==
    ASSUME RecoveryTypeOK, obs # NoObs
    PROVE  /\ Decision \in Classes
           /\ Decision = "reinject-prompt" => budget["reinjectPrompt"] > 0
           /\ Decision = "restart-preserve-delta" => budget["dirtyVanishPreserve"] > 0
           /\ Decision = "restart-clean" => obs.gitDelta \in {"clean", "zero-delta"}
BY Classified DEF RecoveryTypeOK, Decision

(* Where nothing was looked at, nothing is missing. *)
LEMMA NothingIsLost == NothingLost \in Losses /\ Stashed(NothingLost) /\ Hashed(NothingLost)
BY Zenon DEF NothingLost, Losses, Stashed, Hashed

(* At first nothing is observed, written or spent. *)
LEMMA RecoveryInitInv == RecoveryInit => RecoveryInv
<1> SUFFICES ASSUME RecoveryInit PROVE RecoveryInv
  OBVIOUS
<1> USE BudgetAssumption
<1>1. RecoveryTypeOK
  <2>1. tree \in [exists : BOOLEAN, born : BOOLEAN, parts : SUBSET Parts] BY Zenon DEF RecoveryInit, Parts
  <2>2. vanished \in BOOLEAN BY Zenon DEF RecoveryInit
  <2>3. edits \in 0 .. MaxEdits /\ iterations \in 0 .. MaxIterations BY DEF RecoveryInit
  <2>4. phase \in {"submit", "observe"} BY DEF RecoveryInit
  <2>5. taken \in [Families -> Nat] BY DEF RecoveryInit
  <2> QED BY Zenon, <2>1, <2>2, <2>3, <2>4, <2>5, NothingIsLost DEF RecoveryInit, RecoveryTypeOK
<1>2. Held BY DEF RecoveryInit, Held
<1>3. Spent BY DEF RecoveryInit, Spent, Families
<1>4. Seen BY DEF RecoveryInit, Seen
<1>5. LoopActsOnReceipt /\ RestartAccountsForWork /\ CompletedWasObserved
  BY DEF RecoveryInit, LoopActsOnReceipt, RestartAccountsForWork, CompletedWasObserved
<1> QED BY <1>1, <1>2, <1>3, <1>4, <1>5 DEF RecoveryInv

(* A complete snapshot lacks no tracked change and no hash, and a stash no tracked change. *)
LEMMA Preserved ==
    ASSUME NEW t \in [exists : BOOLEAN, born : BOOLEAN, parts : SUBSET Parts], NEW fails
    PROVE  /\ Preserve(t, fails).stashRef \in BOOLEAN
           /\ Preserve(t, fails).snapshotComplete \in BOOLEAN
           /\ Preserve(t, fails).lost \in Losses
           /\ Preserve(t, fails).snapshotComplete
                => Stashed(Preserve(t, fails).lost) /\ Hashed(Preserve(t, fails).lost)
           /\ Preserve(t, fails).stashRef => Stashed(Preserve(t, fails).lost)
<1> DEFINE diff == "tracked" \in t.parts /\ t.born /\ "diff" \notin fails
           stash == "tracked" \in t.parts /\ t.born /\ "stash" \notin fails
           manifest == IF "ls-files" \in fails THEN {} ELSE t.parts \ {"tracked"}
           complete == (~diff \/ stash) /\ "unreadable" \notin manifest
           content == (IF diff /\ ~stash THEN {"tracked"} ELSE {}) \cup manifest
           hash == manifest \ {"readable"}
<1>1. manifest \subseteq Parts \ {"tracked"} BY Zenon
<1>2. diff \in BOOLEAN /\ stash \in BOOLEAN /\ complete \in BOOLEAN BY Zenon
<1>3. Preserve(t, fails) = [stashRef |-> stash, snapshotComplete |-> complete,
                            lost |-> [content |-> content, hash |-> hash]]
  BY Zenon DEF Preserve
<1> HIDE DEF diff, stash, manifest
<1>4. content \subseteq Parts /\ hash \subseteq Parts BY <1>1 DEF Parts
<1>5. stash \/ complete => "tracked" \notin content BY <1>1
<1>6. complete => hash = {} BY <1>1 DEF Parts
<1> HIDE DEF complete, content, hash
<1>7. /\ Preserve(t, fails).stashRef = stash /\ Preserve(t, fails).snapshotComplete = complete
      /\ Preserve(t, fails).lost = [content |-> content, hash |-> hash]
  BY <1>3
<1>8. [content |-> content, hash |-> hash] \in Losses BY <1>4 DEF Losses
<1>9. stash \/ complete => Stashed([content |-> content, hash |-> hash]) BY <1>5 DEF Stashed
<1>10. complete => Hashed([content |-> content, hash |-> hash]) BY <1>6 DEF Hashed
<1> QED BY Zenon, <1>2, <1>7, <1>8, <1>9, <1>10

(* The receipt is of the decision, and forbids a clean restart of dirty trees only. *)
LEMMA Written ==
    ASSUME NEW o \in Observations, NEW c \in Classes, NEW p
    PROVE  /\ VanishReceipt(o, c, p) \in Receipts
           /\ VanishReceipt(o, c, p).classification = c
           /\ VanishReceipt(o, c, p).forbidsClean => o.gitDelta \in {"dirty", "unknown"}
           /\ VanishReceipt(o, c, p).snapshotComplete = (o.gitDelta \in {"dirty", "unknown"} => p.snapshotComplete)
           /\ VanishReceipt(o, c, p).stashRef => p.stashRef
<1> DEFINE dirty == o.gitDelta \in {"dirty", "unknown"}
           keeps == IF dirty /\ p.stashRef THEN "stash" ELSE "snapshot"
           stash == dirty /\ p.stashRef
           complete == dirty => p.snapshotComplete
<1>1. o.gitDelta \in Deltas BY DEF Observations
<1>2. dirty \in BOOLEAN /\ stash \in BOOLEAN /\ complete \in BOOLEAN /\ keeps \in {"stash", "snapshot"}
  OBVIOUS
<1>3. VanishReceipt(o, c, p) = [classification |-> c, gitDelta |-> o.gitDelta, preservation |-> keeps,
         stashRef |-> stash, snapshotComplete |-> complete, forbidsClean |-> dirty]
  BY Zenon DEF VanishReceipt
<1> HIDE DEF dirty, keeps, stash, complete
<1>4. VanishReceipt(o, c, p) \in Receipts BY <1>1, <1>2, <1>3 DEF Receipts
<1>5. VanishReceipt(o, c, p).classification = c BY <1>3
<1>6. VanishReceipt(o, c, p).forbidsClean = dirty BY <1>3
<1>7. VanishReceipt(o, c, p).snapshotComplete = complete /\ VanishReceipt(o, c, p).stashRef = stash
  BY <1>3
<1> QED BY <1>4, <1>5, <1>6, <1>7, Zenon DEF dirty, complete, stash

(* A valid receipt names a stash or a complete snapshot. *)
LEMMA Covered ==
    ASSUME RecoveryInv, phase = "act", RequiresVanish(Decision), ValidVanish(receipt)
    PROVE  Stashed(lost) /\ (receipt.stashRef \/ Hashed(lost))
<1>1. receipt \in Receipts /\ receipt # NoReceipt BY DEF RecoveryInv, RecoveryTypeOK, Held
<1>2. receipt.preservation \in {"stash", "snapshot"} BY <1>1 DEF Receipts
<1>3. /\ receipt.snapshotComplete => Stashed(lost) /\ Hashed(lost)
      /\ receipt.stashRef => Stashed(lost)
  BY DEF RecoveryInv, Held
<1> QED BY <1>2, <1>3 DEF ValidVanish

(* A step that leaves the observation, the receipt and the history alone, and    *)
(* does not turn to act, keeps what the invariant says of them.                   *)
LEMMA Idle ==
    ASSUME RecoveryInv, RecoveryTypeOK', CompletedWasObserved',
           UNCHANGED <<caller, obs, receipt, lost, budget, taken, acted, sawCompletion>>,
           phase' \in {phase, "observe", "returned", "failed"}
    PROVE  RecoveryInv'
<1>1. Held /\ Spent /\ Seen /\ LoopActsOnReceipt /\ RestartAccountsForWork
  BY Zenon DEF RecoveryInv
<1>2. Held' BY <1>1 DEF Held, Decision
<1>3. Spent' BY <1>1, Zenon DEF Spent
<1>4. Seen' BY <1>1 DEF Seen
<1>5. LoopActsOnReceipt' BY <1>1, Zenon DEF LoopActsOnReceipt
<1>6. RestartAccountsForWork' BY <1>1, Zenon DEF RestartAccountsForWork
<1> QED BY <1>2, <1>3, <1>4, <1>5, <1>6 DEF RecoveryInv

(* The loop acts on the decision it holds the receipt of, or on no vanish at all. *)
LEMMA Acts ==
    ASSUME RecoveryInv, phase = "act", RecoveryTypeOK', Spent', CompletedWasObserved',
           UNCHANGED <<caller, receipt, lost, sawCompletion>>, obs' = NoObs,
           phase' \in {"submit", "observe", "finalize", "returned"},
           phase' = "finalize" => sawCompletion,
           \/ acted' = acted
           \/ acted' = Decision /\ RequiresVanish(Decision) /\ ValidVanish(receipt)
    PROVE  RecoveryInv'
<1>1. RecoveryTypeOK /\ Held BY Zenon DEF RecoveryInv
<1>2. obs # NoObs /\ acted = "none" BY <1>1 DEF Held
<1>3. Held' BY DEF Held
<1>4. Seen' BY DEF Seen
<1>5. CASE acted' = acted
  BY <1>2, <1>3, <1>4, <1>5 DEF RecoveryInv, LoopActsOnReceipt, RestartAccountsForWork
<1>6. CASE acted' = Decision /\ RequiresVanish(Decision) /\ ValidVanish(receipt)
  <2>1. /\ receipt # NoReceipt
        /\ receipt.classification = Decision
        /\ receipt.forbidsClean => obs.gitDelta \in {"dirty", "unknown"}
    BY <1>1, <1>6 DEF Held
  <2>2. Decision = "restart-clean" => obs.gitDelta \in {"clean", "zero-delta"} BY <1>1, <1>2, Decided
  <2>3. receipt.forbidsClean => Decision # "restart-clean" BY <2>1, <2>2
  <2>4. LoopActsOnReceipt' BY <1>6, <2>1, <2>3, Zenon DEF LoopActsOnReceipt
  <2>5. Stashed(lost) /\ (receipt.stashRef \/ Hashed(lost)) BY <1>6, Covered
  <2>6. RestartAccountsForWork' BY <2>5, Zenon DEF RestartAccountsForWork, Stashed, Hashed
  <2> QED BY <1>3, <1>4, <2>4, <2>6 DEF RecoveryInv
<1> QED BY <1>5, <1>6

(* RecoveryTypeOK in four parts: the worktree, what was observed of it, the loop's *)
(* own state and the history of its decisions.                                   *)
Phases == {"submit", "observe", "receipt", "act", "finalize", "returned", "failed"}

WorldOK == /\ caller \in Callers
           /\ tree \in [exists : BOOLEAN, born : BOOLEAN, parts : SUBSET Parts]
           /\ edits \in 0 .. MaxEdits
           /\ vanished \in BOOLEAN

SightOK == /\ obs \in Observations \cup {NoObs}
           /\ receipt \in Receipts \cup {NoReceipt}
           /\ lost \in Losses

LoopOK == /\ budget \in [Families -> Nat]
          /\ iterations \in 0 .. MaxIterations
          /\ accepted \in BOOLEAN
          /\ lifecycle \in {"started", "submitted", "observing", "finalizing", "blocked", "completed"}
          /\ blocker \in {"none", "no-observed-completion", "invalid-vanish-receipt", "finalize",
                          "fallback-codex-exec-requested", "human-check-required"}

HistoryOK == /\ taken \in [Families -> Nat]
             /\ acted \in Classes \cup {"none"}
             /\ sawCompletion \in BOOLEAN

(* The parts follow from RecoveryTypeOK. *)
LEMMA Shapes ==
    ASSUME RecoveryTypeOK PROVE phase \in Phases /\ WorldOK /\ SightOK /\ LoopOK /\ HistoryOK
BY Zenon DEF RecoveryTypeOK, Phases, WorldOK, SightOK, LoopOK, HistoryOK

(* A step keeps RecoveryTypeOK when it leaves each part alone or gives it its shape. *)
LEMMA Typed ==
    ASSUME RecoveryTypeOK, phase' \in Phases,
           UNCHANGED <<caller, tree, edits, vanished>> \/ WorldOK',
           UNCHANGED <<obs, receipt, lost>> \/ SightOK',
           UNCHANGED loop \/ LoopOK',
           UNCHANGED loopHistory \/ HistoryOK'
    PROVE  RecoveryTypeOK'
<1>1. WorldOK /\ SightOK /\ LoopOK /\ HistoryOK BY Zenon, Shapes
<1>2. WorldOK'
  <2>1. CASE UNCHANGED <<caller, tree, edits, vanished>> BY <1>1, <2>1 DEF WorldOK
  <2> QED BY Zenon, <2>1
<1>3. SightOK'
  <2>1. CASE UNCHANGED <<obs, receipt, lost>> BY <1>1, <2>1 DEF SightOK
  <2> QED BY Zenon, <2>1
<1>4. LoopOK'
  <2>1. CASE UNCHANGED loop BY <1>1, <2>1 DEF LoopOK, loop
  <2> QED BY Zenon, <2>1
<1>5. HistoryOK'
  <2>1. CASE UNCHANGED loopHistory BY <1>1, <2>1 DEF HistoryOK, loopHistory
  <2> QED BY Zenon, <2>1
<1> QED BY Zenon, <1>2, <1>3, <1>4, <1>5 DEF RecoveryTypeOK, Phases, WorldOK, SightOK, LoopOK, HistoryOK

(* A retry takes from its budget what it adds to the count, where it is bounded. *)
LEMMA Retries ==
    ASSUME RecoveryInv, phase = "act", NEW f \in Families, Retry(f),
           f \in {"reinjectPrompt", "dirtyVanishPreserve"} => budget[f] > 0,
           acted' \in Classes \cup {"none"},
           \/ acted' = acted
           \/ acted' = Decision /\ RequiresVanish(Decision) /\ ValidVanish(receipt)
    PROVE  RecoveryInv'
<1>1. RecoveryTypeOK /\ Spent /\ CompletedWasObserved BY Zenon DEF RecoveryInv
<1>2. budget \in [Families -> Nat] /\ taken \in [Families -> Nat] BY <1>1 DEF RecoveryTypeOK
<1>3. /\ budget' = [budget EXCEPT ![f] = IF budget[f] > 0 THEN budget[f] - 1 ELSE 0]
      /\ taken' = [taken EXCEPT ![f] = taken[f] + 1]
  BY DEF Retry
<1>4. budget' \in [Families -> Nat] /\ taken' \in [Families -> Nat] BY <1>2, <1>3
<1>5. RecoveryTypeOK'
  <2>1. UNCHANGED <<receipt, lost>> /\ obs' = NoObs /\ phase' = "submit"
    BY Zenon DEF Retry
  <2>2. UNCHANGED <<iterations, accepted, lifecycle, blocker>> /\ sawCompletion' = sawCompletion
    BY Zenon DEF Retry
  <2>3. SightOK' BY <1>1, <2>1, Shapes DEF SightOK
  <2>4. LoopOK' BY Zenon, <1>1, <1>4, <2>2, Shapes DEF LoopOK
  <2>5. HistoryOK' BY Zenon, <1>1, <1>4, <2>2, Shapes DEF HistoryOK
  <2> QED BY Zenon, <1>1, <2>1, <2>3, <2>4, <2>5, Typed DEF Retry, Phases
<1>6. Spent' BY <1>1, <1>2, <1>3 DEF Spent, Families
<1>7. CompletedWasObserved' BY <1>1, Zenon DEF CompletedWasObserved, Retry
<1>8. /\ UNCHANGED <<caller, receipt, lost, sawCompletion>>
      /\ obs' = NoObs /\ phase' = "submit"
  BY DEF Retry
<1> QED BY <1>5, <1>6, <1>7, <1>8, Acts

(* A loop that blocks hands the session over as it is. *)
LEMMA Blocks ==
    ASSUME RecoveryInv, phase = "act",
           NEW b \in {"invalid-vanish-receipt", "fallback-codex-exec-requested", "human-check-required"},
           Block(b), acted' \in Classes \cup {"none"},
           \/ acted' = acted
           \/ acted' = Decision /\ RequiresVanish(Decision) /\ ValidVanish(receipt)
    PROVE  RecoveryInv'
<1>1. RecoveryTypeOK /\ Spent BY Zenon DEF RecoveryInv
<1>2. RecoveryTypeOK' BY Zenon, <1>1 DEF RecoveryTypeOK, Block
<1>3. Spent' BY <1>1 DEF Spent, Block
<1>4. CompletedWasObserved' BY DEF CompletedWasObserved, Block
<1>5. /\ UNCHANGED <<caller, receipt, lost, sawCompletion>>
      /\ obs' = NoObs /\ phase' = "returned"
  BY DEF Block
<1> QED BY <1>2, <1>3, <1>4, <1>5, Acts

(* What the loop does with a decision other than to continue. *)
LEMMA DecidedSteps ==
    ASSUME RecoveryInv,
           \/ InvalidReceipt \/ Reinject \/ RestartClean \/ RestartPreserve \/ Fallback \/ HumanCheck
    PROVE  RecoveryInv'
<1>1. RecoveryTypeOK /\ Held BY Zenon DEF RecoveryInv
<1>2. acted \in Classes \cup {"none"} BY <1>1 DEF RecoveryTypeOK
<1>3. phase = "act" => obs # NoObs BY <1>1, Zenon DEF Held
<1>4. CASE InvalidReceipt BY <1>2, <1>4, Blocks DEF InvalidReceipt
<1>5. CASE Reinject
  <2>1. phase = "act" /\ Decision = "reinject-prompt" /\ Retry("reinjectPrompt") /\ acted' = acted
    BY <1>5, Zenon DEF Reinject, Deciding, Decision
  <2>2. budget["reinjectPrompt"] > 0 BY <1>1, <1>3, <2>1, Decided
  <2> QED BY <1>2, <2>1, <2>2, Retries DEF Families
<1>6. CASE RestartClean
  <2>1. /\ phase = "act" /\ Decision = "restart-clean" /\ acted' = "restart-clean"
        /\ ValidVanish(receipt) /\ Retry("zeroDeltaVanish")
    BY <1>6, Zenon DEF RestartClean, Deciding, Decision
  <2> QED BY <2>1, Retries DEF Families, Classes, RequiresVanish
<1>7. CASE RestartPreserve
  <2>1. /\ phase = "act" /\ Decision = "restart-preserve-delta" /\ acted' = "restart-preserve-delta"
        /\ ValidVanish(receipt) /\ Retry("dirtyVanishPreserve")
    BY <1>7, Zenon DEF RestartPreserve, Deciding, Decision
  <2>2. budget["dirtyVanishPreserve"] > 0 BY <1>1, <1>3, <2>1, Decided
  <2> QED BY <2>1, <2>2, Retries DEF Families, Classes, RequiresVanish
<1>8. CASE Fallback
  <2>1. /\ phase = "act" /\ Decision = "fallback-codex-exec" /\ acted' = "fallback-codex-exec"
        /\ ValidVanish(receipt) /\ Block("fallback-codex-exec-requested")
    BY <1>8, Zenon DEF Fallback, Deciding, Decision
  <2> QED BY <2>1, Blocks DEF Classes, RequiresVanish
<1>9. CASE HumanCheck
  BY <1>2, <1>9, Blocks DEF HumanCheck, Deciding
<1> QED BY <1>4, <1>5, <1>6, <1>7, <1>8, <1>9

(* Only an observed completion leads on to the finalizer. *)
LEMMA ContinueStep == ASSUME RecoveryInv, Continue PROVE RecoveryInv'
<1>1. RecoveryTypeOK /\ Held /\ Spent /\ Seen /\ CompletedWasObserved BY Zenon DEF RecoveryInv
<1>2. phase = "act" /\ obs # NoObs BY <1>1 DEF Held, Continue, Deciding
<1>3. obs.completed => sawCompletion BY <1>1, <1>2, Zenon DEF Seen
<1>4. taken \in [Families -> Nat] BY <1>1, Zenon DEF RecoveryTypeOK
<1>5. taken' = taken \/ taken' = [taken EXCEPT !["validationRepair"] = taken["validationRepair"] + 1]
  BY DEF Continue
<1>6. /\ taken' \in [Families -> Nat]
      /\ \A f \in {"reinjectPrompt", "dirtyVanishPreserve"} : taken'[f] = taken[f]
  BY <1>4, <1>5 DEF Families
<1>7. RecoveryTypeOK'
  <2>1. UNCHANGED <<receipt, lost>> /\ obs' = NoObs /\ phase' \in {"observe", "finalize"}
    BY DEF Continue
  <2>2. /\ UNCHANGED <<budget, iterations, accepted, blocker>> /\ UNCHANGED <<acted, sawCompletion>>
        /\ lifecycle' \in {lifecycle, "finalizing"}
    BY DEF Continue
  <2>3. SightOK' BY <1>1, <2>1, Shapes DEF SightOK
  <2>4. LoopOK' BY Zenon, <1>1, <2>2, Shapes DEF LoopOK
  <2>5. HistoryOK' BY Zenon, <1>1, <1>6, <2>2, Shapes DEF HistoryOK
  <2> QED BY Zenon, <1>1, <2>1, <2>3, <2>4, <2>5, Typed DEF Continue, Phases
<1>8. Spent' BY <1>1, <1>6 DEF Spent, Continue
<1>9. CompletedWasObserved' BY <1>1, <1>3 DEF CompletedWasObserved, Continue
<1>10. /\ UNCHANGED <<caller, receipt, lost, acted, sawCompletion>> /\ obs' = NoObs
       /\ phase' \in {"observe", "finalize"} /\ (phase' = "finalize" => obs.completed)
  BY DEF Continue
<1> QED BY <1>2, <1>3, <1>7, <1>8, <1>9, <1>10, Acts

(* A submission, the end of the loop and the finalizer's run act on no vanish. *)
LEMMA LoopSteps == ASSUME RecoveryInv, Submit \/ Exhausted \/ RunFinalize PROVE RecoveryInv'
<1>1. RecoveryTypeOK /\ Seen /\ CompletedWasObserved BY Zenon DEF RecoveryInv
<1>2. CASE Submit
  <2>1. RecoveryTypeOK'
    <3>1. LoopOK' BY <1>1, <1>2, Shapes DEF LoopOK, Submit
    <3> QED BY Zenon, <1>1, <1>2, <3>1, Typed DEF Submit, Phases
  <2>2. CompletedWasObserved' BY <1>1, <1>2 DEF CompletedWasObserved, Submit, loopHistory
  <2>3. UNCHANGED <<caller, obs, receipt, lost, budget, taken, acted, sawCompletion>> /\ phase' = "observe"
    BY <1>2, Zenon DEF Submit, loopHistory
  <2> QED BY <2>1, <2>2, <2>3, Idle
<1>3. CASE Exhausted
  <2>1. RecoveryTypeOK' BY Zenon, <1>1, <1>3 DEF RecoveryTypeOK, Exhausted, loopHistory
  <2>2. CompletedWasObserved' BY <1>3 DEF CompletedWasObserved, Exhausted
  <2>3. UNCHANGED <<caller, obs, receipt, lost, budget, taken, acted, sawCompletion>> /\ phase' = "returned"
    BY <1>3, Zenon DEF Exhausted, loopHistory
  <2> QED BY <2>1, <2>2, <2>3, Idle
<1>4. CASE RunFinalize
  <2>1. RecoveryTypeOK' BY Zenon, <1>1, <1>4 DEF RecoveryTypeOK, RunFinalize, loopHistory
  <2>2. CompletedWasObserved' BY <1>1, <1>4 DEF Seen, CompletedWasObserved, RunFinalize, loopHistory
  <2>3. UNCHANGED <<caller, obs, receipt, lost, budget, taken, acted, sawCompletion>> /\ phase' = "returned"
    BY <1>4, Zenon DEF RunFinalize, loopHistory
  <2> QED BY <2>1, <2>2, <2>3, Idle
<1> QED BY <1>2, <1>3, <1>4

(* A call that throws leaves everything as it is, and edits touch the worktree only. *)
LEMMA OtherSteps == ASSUME RecoveryInv, CallThrows \/ Edit \/ Commit \/ Remove PROVE RecoveryInv'
<1>1. RecoveryTypeOK /\ CompletedWasObserved BY Zenon DEF RecoveryInv
<1>2. /\ UNCHANGED <<caller, vanished, obs, receipt, lost, loop, loopHistory>>
      /\ phase' \in {phase, "failed"}
  BY Zenon DEF CallThrows, Edit, Commit, Remove
<1>3. tree \in [exists : BOOLEAN, born : BOOLEAN, parts : SUBSET Parts] /\ edits \in 0 .. MaxEdits
  BY <1>1, Zenon DEF RecoveryTypeOK
<1>4. tree' \in [exists : BOOLEAN, born : BOOLEAN, parts : SUBSET Parts]
  BY Zenon, <1>3 DEF CallThrows, Edit, Commit, Remove
<1>5. edits' \in 0 .. MaxEdits BY <1>3, BudgetAssumption DEF CallThrows, Edit, Commit, Remove
<1>6. RecoveryTypeOK'
  <2>1. WorldOK' BY Zenon, <1>1, <1>2, <1>4, <1>5, Shapes DEF WorldOK
  <2>2. phase' \in Phases BY Zenon, <1>1, <1>2, Shapes DEF Phases
  <2> QED BY Zenon, <1>1, <1>2, <2>1, <2>2, Typed
<1>7. CompletedWasObserved' BY <1>1, <1>2, Zenon DEF CompletedWasObserved, loop, loopHistory
<1> QED BY <1>2, <1>6, <1>7, Idle DEF loop, loopHistory

(* The owner's recover and the recover command are outside the loop. *)
LEMMA RecoverSteps == ASSUME RecoveryInv, OwnerRecover \/ CliRecover PROVE RecoveryInv'
<1>1. RecoveryTypeOK /\ Held /\ Spent /\ Seen /\ CompletedWasObserved BY Zenon DEF RecoveryInv
<1>2. /\ UNCHANGED <<caller, tree, edits, obs, receipt, lost, loop, taken, sawCompletion>>
      /\ phase = "act" /\ phase' = "returned" /\ caller # "operate"
  BY DEF OwnerRecover, CliRecover
<1>3. acted' \in Classes \cup {"none"}
  <2>1. Decision \in Classes BY <1>1, <1>2, Decided DEF Held
  <2>2. receipt # NoReceipt => receipt.classification \in Classes BY <1>1 DEF RecoveryTypeOK, Receipts
  <2> QED BY <2>1, <2>2 DEF OwnerRecover, CliRecover, Decision
<1>4. vanished' \in BOOLEAN BY Zenon, <1>1 DEF RecoveryTypeOK, OwnerRecover, CliRecover
<1>5. RecoveryTypeOK'
  <2>1. WorldOK' BY Zenon, <1>1, <1>2, <1>4, Shapes DEF WorldOK
  <2>2. HistoryOK' BY Zenon, <1>1, <1>2, <1>3, Shapes DEF HistoryOK
  <2> QED BY Zenon, <1>1, <1>2, <2>1, <2>2, Typed DEF Phases
<1>6. Held' BY <1>2 DEF Held
<1>7. Spent' /\ CompletedWasObserved' BY <1>1, <1>2, Zenon DEF Spent, CompletedWasObserved, loop
<1>8. Seen' BY <1>1, <1>2 DEF Seen
<1>9. LoopActsOnReceipt' /\ RestartAccountsForWork' BY <1>2, Zenon DEF LoopActsOnReceipt, RestartAccountsForWork
<1> QED BY <1>5, <1>6, <1>7, <1>8, <1>9, Zenon DEF RecoveryInv

(* An observation starts over without a receipt, and remembers a completion it shows. *)
LEMMA ObserveStep == ASSUME RecoveryInv, Observe PROVE RecoveryInv'
<1>0. RecoveryTypeOK /\ Spent /\ CompletedWasObserved BY Zenon DEF RecoveryInv
<1>1. PICK live \in OwnerLiveSeen, d \in GitDeltas(tree), done \in BOOLEAN, failed \in BOOLEAN,
           risk \in {"normal", "prompt-not-accepted"} :
         /\ obs' = [ownerLive |-> live, gitDelta |-> d, completed |-> done, validationFailed |-> failed,
                    risk |-> IF tree.exists THEN risk ELSE "deleted-worktree"]
         /\ sawCompletion' = (sawCompletion \/ done)
         /\ phase' = AfterObserve(ClassifyRecovery(obs', budget))
  BY DEF Observe
<1>2. live \in BOOLEAN /\ d \in Deltas
  BY Zenon, <1>0 DEF OwnerLiveSeen, GitDeltas, Deltas, RecoveryTypeOK
<1>3. obs' \in Observations /\ obs'.completed = done
  BY <1>1, <1>2 DEF Observations
<1>4. /\ phase' \in {"receipt", "act"}
      /\ phase' = "act" => ~RequiresVanish(ClassifyRecovery(obs', budget))
  BY <1>1 DEF AfterObserve
<1>5. /\ receipt' = NoReceipt /\ acted' = "none" /\ lost' = NothingLost
      /\ UNCHANGED <<caller, tree, edits, vanished, budget, accepted, lifecycle, blocker, taken>>
  BY Zenon DEF Observe
<1>6. iterations' \in 0 .. MaxIterations
  <2>1. iterations \in 0 .. MaxIterations BY <1>0, Zenon DEF RecoveryTypeOK
  <2>2. iterations' = Counted /\ (caller = "operate" => iterations < MaxIterations) BY Zenon DEF Observe
  <2> QED BY <2>1, <2>2, BudgetAssumption DEF Counted
<1>7. sawCompletion' \in BOOLEAN /\ (sawCompletion \/ done => sawCompletion') BY Zenon, <1>1
<1>8. RecoveryTypeOK' BY Zenon, <1>0, <1>3, <1>4, <1>5, <1>6, <1>7, NothingIsLost DEF RecoveryTypeOK
<1>9. Held' BY <1>3, <1>4, <1>5, NothingAssumption DEF Held, Decision
<1>10. Spent' BY <1>0, <1>5, Zenon DEF Spent
<1>11. Seen' BY <1>3, <1>4, <1>7 DEF Seen
<1>12. CompletedWasObserved' BY <1>0, <1>5, <1>7, Zenon DEF CompletedWasObserved
<1>13. LoopActsOnReceipt' /\ RestartAccountsForWork' BY <1>5, Zenon DEF LoopActsOnReceipt, RestartAccountsForWork
<1> QED BY <1>8, <1>9, <1>10, <1>11, <1>12, <1>13, Zenon DEF RecoveryInv

(* The receipt written is for the decision, and forbids a clean restart of a dirty tree. *)
LEMMA WriteVanishStep == ASSUME RecoveryInv, WriteVanish PROVE RecoveryInv'
<1>0. RecoveryTypeOK /\ Held /\ Spent /\ Seen /\ CompletedWasObserved BY Zenon DEF RecoveryInv
<1>1. \E fails \in SUBSET {"diff", "ls-files", "stash"} :
         /\ receipt' = VanishReceipt(obs, Decision, Preserve(tree, fails))
         /\ lost' = IF obs.gitDelta \in {"dirty", "unknown"} THEN Preserve(tree, fails).lost ELSE NothingLost
  BY Zenon DEF WriteVanish, Decision
<1>2. /\ phase = "receipt" /\ phase' = "act"
      /\ UNCHANGED <<caller, tree, edits, vanished, obs, loop, loopHistory>>
  BY Zenon DEF WriteVanish
<1>3. obs # NoObs /\ acted = "none" BY <1>0, <1>2 DEF Held
<1>4. obs \in Observations /\ tree \in [exists : BOOLEAN, born : BOOLEAN, parts : SUBSET Parts]
  BY <1>0, <1>3 DEF RecoveryTypeOK
<1>5. Decision \in Classes BY <1>0, <1>3, Decided
<1>6. PICK p : /\ receipt' = VanishReceipt(obs, Decision, p)
               /\ lost' = IF obs.gitDelta \in {"dirty", "unknown"} THEN p.lost ELSE NothingLost
               /\ p.lost \in Losses
               /\ p.snapshotComplete => Stashed(p.lost) /\ Hashed(p.lost)
               /\ p.stashRef => Stashed(p.lost)
  BY <1>1, <1>4, Preserved, Zenon
<1>7. /\ receipt' \in Receipts
      /\ receipt'.classification = Decision
      /\ receipt'.forbidsClean => obs.gitDelta \in {"dirty", "unknown"}
      /\ receipt'.snapshotComplete = (obs.gitDelta \in {"dirty", "unknown"} => p.snapshotComplete)
      /\ receipt'.stashRef => p.stashRef
  <2>1. receipt' = VanishReceipt(obs, Decision, p) BY <1>6
  <2> QED BY <1>4, <1>5, <2>1, Written
<1>8. /\ lost' \in Losses
      /\ receipt'.snapshotComplete => Stashed(lost') /\ Hashed(lost')
      /\ receipt'.stashRef => Stashed(lost')
  <2>1. NothingLost \in Losses /\ Stashed(NothingLost) /\ Hashed(NothingLost) BY NothingIsLost
  <2> QED BY Zenon, <1>6, <1>7, <2>1
<1>9. RecoveryTypeOK'
  <2>1. SightOK' BY <1>0, <1>2, <1>7, <1>8, Shapes DEF SightOK
  <2> QED BY Zenon, <1>0, <1>2, <2>1, Typed DEF Phases
<1>10. Decision' = Decision BY <1>2 DEF Decision, loop
<1>11. Held' BY <1>2, <1>3, <1>7, <1>8, <1>10, NothingAssumption DEF Held, loopHistory
<1>12. Spent' /\ CompletedWasObserved' BY <1>0, <1>2, Zenon DEF Spent, CompletedWasObserved, loop, loopHistory
<1>13. Seen' BY <1>0, <1>2 DEF Seen, loopHistory
<1>14. LoopActsOnReceipt' /\ RestartAccountsForWork'
  BY <1>2, <1>3, Zenon DEF LoopActsOnReceipt, RestartAccountsForWork, loopHistory
<1> QED BY <1>9, <1>11, <1>12, <1>13, <1>14, Zenon DEF RecoveryInv

(* RecoveryInv is kept by every step. *)
LEMMA RecoveryNextInv == RecoveryInv /\ [RecoveryNext]_recoveryVars => RecoveryInv'
<1> SUFFICES ASSUME RecoveryInv, [RecoveryNext]_recoveryVars PROVE RecoveryInv'
  OBVIOUS
<1>1. CASE UNCHANGED recoveryVars
  <2>1. /\ UNCHANGED <<caller, obs, receipt, lost, budget, taken, acted, sawCompletion, lifecycle>>
        /\ phase' = phase
    BY <1>1, Zenon DEF recoveryVars, loop, loopHistory
  <2>2. RecoveryTypeOK /\ CompletedWasObserved BY Zenon DEF RecoveryInv
  <2>3. RecoveryTypeOK'
    <3>1. phase' \in Phases BY Zenon, <2>1, <2>2, Shapes
    <3> QED BY Zenon, <1>1, <2>2, <3>1, Typed DEF recoveryVars
  <2>4. CompletedWasObserved' BY <2>1, <2>2, Zenon DEF CompletedWasObserved
  <2> QED BY <2>1, <2>3, <2>4, Idle
<1>2. CASE RecoveryStep
  BY <1>2, LoopSteps, ObserveStep, WriteVanishStep, ContinueStep, DecidedSteps, RecoverSteps, Zenon
  DEF RecoveryStep
<1>3. CASE CallThrows \/ Edit \/ Commit \/ Remove BY <1>3, OtherSteps
<1> QED BY <1>1, <1>2, <1>3, Zenon DEF RecoveryNext

(* The invariant of recovery holds in every reachable state. *)
THEOREM RecoveryInvariance == RecoverySpec => []RecoveryInv
BY RecoveryInitInv, RecoveryNextInv, PTL DEF RecoverySpec

(* The loop, the worktree and the receipts keep their shapes. *)
THEOREM RecoveryTypeCorrect == RecoverySpec => []RecoveryTypeOK
BY RecoveryInvariance, PTL DEF RecoveryInv

(* The operate loop acts on a vanished owner only with a valid receipt for that *)
(* decision, and never does what the receipt forbids.                           *)
THEOREM LoopIsGated == RecoverySpec => []LoopActsOnReceipt
BY RecoveryInvariance, PTL DEF RecoveryInv

(* Prompts are injected again, and dirty trees restarted, within their budgets. *)
THEOREM Budgeted == RecoverySpec => []RetriesBounded
<1>1. RecoveryInv => RetriesBounded
  BY BudgetAssumption DEF RecoveryInv, RecoveryTypeOK, Spent, RetriesBounded, Families
<1> QED BY <1>1, RecoveryInvariance, PTL

(* When the loop restarts or falls back, the tracked changes git reported are   *)
(* in the stash and, without one, the untracked files it reported have their    *)
(* hashes on record, whichever git commands failed.                             *)
THEOREM WorkIsAccountedFor == RecoverySpec => []RestartAccountsForWork
BY RecoveryInvariance, PTL DEF RecoveryInv

(* Nothing is finalized that was not seen completed. *)
THEOREM FinalizedWasSeen == RecoverySpec => []CompletedWasObserved
BY RecoveryInvariance, PTL DEF RecoveryInv
=============================================================================
