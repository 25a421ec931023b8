----------------------------- MODULE MCFinalize -----------------------------
(* Commands and texts for the model checker. *)
EXTENDS Finalize

CONSTANTS lint, test

TwoCommands == {lint, test}

Words == Verdicts \cup {"MERGE_READY", "other"}
UpToTwoWords == {<<>>} \cup {<<v>> : v \in Words} \cup (Words \X Words)

=============================================================================
