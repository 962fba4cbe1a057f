----------------------------- MODULE MCServices -----------------------------
(***************************************************************************)
(* Services of the gateway that keep things and are asked by several: a    *)
(* behaviour of this module is one of one part, the others resting in an   *)
(* initial state:                                                          *)
(*   models      ModelRegistry, the commands that change it                *)
(*   generation  PreferenceEvaluation, batches over reloads and crashes    *)
(*   review      PreferenceEvaluation, two reviewers and an export         *)
(*   profile     ResidentFeedback, two windows of the owner                *)
(*   guests      ResidentFeedback, other speakers, memories and time       *)
(***************************************************************************)
EXTENDS PreferenceEvaluation, ResidentFeedback, TLC

CONSTANTS
  m, n, x, y, z,   \* models and adapters
  i1, i2, a1, s1, s2, d1, l1, l2, k1, sel,  \* commands of the registry
  c1, c2,          \* calls of generate
  r1, r2, e1,      \* reviewers, an export
  w1, w2           \* windows of the resident

VARIABLE part    \* whose behaviour it is

-----------------------------------------------------------------------------
\* A registered model; two imports of the same name, an adapter for it, two
\* selections of different roles, a download and a check.
Base == [kind |-> "model", id |-> m, path |-> "pm", digest |-> "gm", profile |-> NoId, context |-> 1]

R == INSTANCE ModelRegistry WITH
  Commands <- {i1, i2, a1, s1, s2, d1, k1},
  ModelPaths <- {"pn", "pm"}, GGUF <- {"gm", "gn"}, Known <- {Base}, MaxReplaced <- 1,
  Jobs <- (i1 :> [op |-> "import", id |-> n, path |-> "pn", profile |-> NoId, context |-> 2])
       @@ (i2 :> [op |-> "import", id |-> n, path |-> "pm", profile |-> n, context |-> 1])
       @@ (a1 :> [op |-> "adapter", id |-> x, path |-> "px", base |-> n])
       @@ (s1 :> [op |-> "select", role |-> "fast", model |-> n, adapter |-> x])
       @@ (s2 :> [op |-> "select", role |-> "code", model |-> n, adapter |-> NoId])
       @@ (d1 :> [op |-> "download", id |-> z, path |-> "pz", digest |-> "gm",
                  profile |-> NoId, context |-> 1])
       @@ (k1 :> [op |-> "check", model |-> n, adapter |-> NoId]),
  AtFirst <- ("pm" :> "gm") @@ ("px" :> "gn") @@ ("pn" :> "gn") @@ ("pz" :> Missing),
  Chosen <- [role \in Roles |-> [model |-> IF role = "fast" THEN m ELSE NoId, adapter |-> NoId]]

-----------------------------------------------------------------------------
\* Two adapters of one model, of which another process selects the other.
Adapter(id, path) ==
  [kind |-> "adapter", id |-> id, path |-> path, digest |-> "ga", base |-> m, baseDigest |-> "gm"]
AllKnown == {Base, Adapter(x, "px"), Adapter(y, "py")}
WithX == [role \in Roles |-> IF role = "fast" THEN [model |-> m, adapter |-> x]
                                              ELSE [model |-> NoId, adapter |-> NoId]]
Chores == (sel :> [op |-> "select", role |-> "fast", model |-> m, adapter |-> y])
          @@ (l1 :> [op |-> "launch", role |-> "fast"]) @@ (l2 :> [op |-> "launch", role |-> "fast"])
Disk == ("pm" :> "gm") @@ ("px" :> "ga") @@ ("py" :> "ga")

Scenario(id, split, training) ==
  [id |-> id, split |-> split, training |-> training, storage |-> TRUE, active |-> TRUE,
   synthetic |-> TRUE]
Books ==
  {[place |-> "configs", scenarios |-> <<Scenario(1, "train", TRUE), Scenario(2, "holdout", TRUE),
                                         Scenario(3, "validation", FALSE)>>],
   [place |-> "data", scenarios |-> <<Scenario(1, "train", FALSE), Scenario(2, "train", TRUE)>>]}
Mixed == [place |-> "data", scenarios |-> <<Scenario(1, "train", FALSE), Scenario(2, "train", TRUE),
                                            Scenario(3, "holdout", TRUE), Scenario(4, "validation", TRUE)>>]
Made(again, same) == [again |-> again, same |-> same]

\* The constants of the review, which is the extended module; the batches take theirs.
Few == [p \in {n} |-> 2]
Once == c2 :> 2
Dpo == e1 :> "dpo"
OneDataset == {Mixed}
Good == {Made(FALSE, FALSE)}

G == INSTANCE PreferenceEvaluation WITH
  Commands <- {sel, l1, l2}, Calls <- {c1, c2}, Limit <- (c1 :> 1) @@ (c2 :> 2),
  Reviewers <- {}, Exports <- {}, Format <- [t \in {} |-> "dpo"], OtherBatches <- TRUE,
  Orders <- {"ab"}, Outcomes <- {Made(FALSE, FALSE), Made(TRUE, TRUE)},
  Modes <- {"same_prompt", "base_vs_adapter"}, MaxReloads <- 1, MaxCrashes <- 1,
  Datasets <- Books

-----------------------------------------------------------------------------
\* What is said in a window, by whom, and the settings a window offers.
Say(text, speaker, memories) ==
  [text |-> text, speaker |-> speaker, target |-> memories,
   change |-> [field |-> "none", value |-> NoValue, scope |-> "none", expires |-> 0]]
Detailed(scope, expires) ==
  [text |-> "control", speaker |-> "owner", target |-> {},
   change |-> [field |-> "response_length", value |-> "detailed", scope |-> scope,
               expires |-> expires]]
Selects(owner, consent) == [owner |-> owner, consent |-> consent]

\* The constants of the profile, whose module is extended; the guests take theirs.
TwoSessions == (w1 :> "s") @@ (w2 :> "t")
SaidByOwner == {Say("shorter", "owner", {}), Say("undo", "owner", {}), Detailed("owner", 0)}
Owned == {Selects(TRUE, TRUE)}

Q == INSTANCE ResidentFeedback WITH
  Windows <- {w1}, SessionOf <- (w1 :> "s"),
  Offers <- {Say("shorter", "other", {}), Say("not in public", "owner", {"i"}),
             Say("not in public", "owner", {"i", "j"}), Detailed("expiring", 1)},
  Selections <- {Selects(TRUE, TRUE), Selects(FALSE, FALSE)},
  MaxRecords <- 3, MaxSwitches <- 1, MaxRestarts <- 0, MaxTime <- 1, Retention <- 0

ASSUME R!ChosenAssumption /\ G!M!ChosenAssumption /\ G!EvaluationAssumption /\ M!ChosenAssumption /\ EvaluationAssumption
ASSUME OffersAssumption /\ RestrictionsAssumption /\ Q!OffersAssumption /\ Q!RestrictionsAssumption

-----------------------------------------------------------------------------
all == <<vars, residentVars, part>>

Parts == {"models", "generation", "review", "profile", "guests"}

InitOne ==
  /\ part \in Parts
  /\ CASE part = "models" -> R!Init /\ EvalInit
       [] part = "generation" -> G!Init
       [] OTHER -> Init
  /\ IF part = "guests" THEN Q!ResidentInit ELSE ResidentInit

NextOne ==
  \/ part = "models" /\ R!Next /\ UNCHANGED <<evalVars, residentVars, part>>
  \/ part = "generation" /\ G!Next /\ UNCHANGED <<residentVars, part>>
  \/ part = "review" /\ Next /\ UNCHANGED <<residentVars, part>>
  \/ part = "profile" /\ ResidentNext /\ UNCHANGED <<vars, part>>
  \/ part = "guests" /\ Q!ResidentNext /\ UNCHANGED <<vars, part>>

SpecOne == InitOne /\ [][NextOne]_all
=============================================================================
