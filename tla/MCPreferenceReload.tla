-------------------------- MODULE MCPreferenceReload --------------------------
(* Two batches of one gateway with a reload between them, for TLC.         *)
EXTENDS PreferenceEvaluation, TLC
CONSTANTS m, c1, c2

ModelM == [kind |-> "model", id |-> m, path |-> "pm", digest |-> "gm", profile |-> NoId, context |-> 1]
OneModel == {ModelM}
OneFile == "pm" :> "gm"
OneSelection == "fast" :> [model |-> m, adapter |-> NoId]
NoJobs == [p \in {} |-> [op |-> "check"]]
NoProfiles == [p \in {} |-> 0]
NoFormat == [x \in {} |-> "dpo"]
OneEach == (c1 :> 1) @@ (c2 :> 1)
Scenario == [id |-> 1, split |-> "train", training |-> TRUE, storage |-> TRUE, active |-> TRUE,
             synthetic |-> TRUE]
OneBook == {[place |-> "configs", scenarios |-> <<Scenario>>]}
AtOnce == {[again |-> FALSE, same |-> FALSE]}
=============================================================================
