---------------------------- MODULE SpeechAssets ----------------------------
(***************************************************************************)
(* The store of consented voice assets (packages/speech_assets/store.py)   *)
(* under several commands of the speech tool.  An asset is a directory,    *)
(* named by the digest of its manifest, that is staged elsewhere and       *)
(* renamed; it is checked whole whenever it is read.  A digest is modelled *)
(* by what it is a digest of, so two digests are equal when the values are.*)
(***************************************************************************)
EXTENDS Integers, Sequences, FiniteSets

CONSTANTS
  Runs,       \* the invocations of the command; each does one thing
  Clips,      \* the audio files offered: wav, transcript ("" is none), consent
  Groups,     \* bound: the lists of earlier runs whose references are grouped
  MaxFaults   \* bound: files damaged

\* Assumed of the constants.
GroupsAssumption == Groups \subseteq Seq(Runs)

VARIABLES
  disk,     \* the directories of the store, by name: their files
  work,     \* of each run: "new", "staging", "done", "dead", and what it publishes
  stored,   \* the names of the assets that were published, with what was published
  loaded,   \* what the last successful load returned, by name
  faults

assetVars == <<disk, work, stored, loaded, faults>>

-----------------------------------------------------------------------------
Damaged == [damaged |-> TRUE]
NoAsset == [damaged |-> FALSE]
Extend(f, x, y) == [z \in DOMAIN f \cup {x} |-> IF z = x THEN y ELSE f[z]]
Without(f, x) == [z \in DOMAIN f \ {x} |-> f[z]]
NoFiles == [f \in {} |-> NoAsset]
File(f, content) == Extend(NoFiles, f, content)

\* _consent: every permission is given, and the transcript is verified if there is one.
Consented(consent, transcript) ==
  /\ consent.authority \in {"owned", "explicit_permission"}
  /\ consent.allowed /\ consent.signed /\ consent.verified = (transcript # "")
  /\ consent.authority = "explicit_permission" => consent.evidence

\* _clean_wav: chunks beside the format and the samples are dropped.
Cleaned(wav) == [wav EXCEPT !.chunks = {"fmt", "data"}]
ValidWav(wav) == {"fmt", "data"} \subseteq wav.chunks /\ wav.rate \in 8000 .. 48000 /\ wav.seconds \in 1 .. 60

Name(category, manifest) == [category |-> category, of |-> manifest]
Staging_none(r, name) == name    \* mutant
Staging(r, name) == Name("staging", r)

-----------------------------------------------------------------------------
(* Loading: every file is what its manifest says, and the manifest what the name says. *)

SameAudio(d, m) == d["reference.wav"] = m.audio

\* load_reference
IntactReference(name) ==
  /\ name \in DOMAIN disk
  /\ LET d == disk[name]
         m == d["manifest.json"]
     IN /\ {"manifest.json", "reference.wav"} \subseteq DOMAIN d
        /\ m = name.of
        /\ SameAudio(d, m) /\ ValidWav(m.audio) /\ Cleaned(m.audio) = m.audio
        /\ m.transcript # "" => "transcript.txt" \in DOMAIN d /\ d["transcript.txt"] = [text |-> m.transcript]
        /\ Consented(m.consent, m.transcript)
Reference(name) == [audio |-> disk[name]["reference.wav"], transcript |-> name.of.transcript, consent |-> name.of.consent]

Identity(name) == [reference |-> name, digest |-> disk[name]["manifest.json"], provenance |-> name.of.provenance]

\* load_reference_group
IntactGroup(name) ==
  /\ name \in DOMAIN disk
  /\ "manifest.json" \in DOMAIN disk[name] /\ disk[name]["manifest.json"] = name.of
  /\ \A i \in DOMAIN name.of.references :
       LET identity == name.of.references[i] IN IntactReference(identity.reference) /\ identity = Identity(identity.reference)
  /\ Len(name.of.references) \in 1 .. 4
  /\ name.of.provenance = name.of.references
Group(name) == [i \in DOMAIN name.of.references |-> Reference(name.of.references[i].reference)]

\* load_clone_prompt
IntactPrompt(name) ==
  /\ name \in DOMAIN disk
  /\ {"manifest.json", "arrays.npz"} \subseteq DOMAIN disk[name]
  /\ disk[name]["manifest.json"] = name.of /\ disk[name]["arrays.npz"] = name.of.arrays
  /\ IntactReference(name.of.reference.reference) /\ name.of.reference = Identity(name.of.reference.reference)
  /\ name.of.text = name.of.reference.reference.of.transcript
Prompt(name) == [arrays |-> disk[name]["arrays.npz"], voice |-> Reference(name.of.reference.reference)]

Intact(name) ==
  CASE name.category = "references" -> IntactReference(name)
    [] name.category = "groups" -> IntactGroup(name)
    [] name.category = "prompts" -> IntactPrompt(name)
Value(name) ==
  CASE name.category = "references" -> Reference(name)
    [] name.category = "groups" -> Group(name)
    [] name.category = "prompts" -> Prompt(name)

Load(name) ==
  /\ Intact(name)
  /\ loaded' = Extend(loaded, name, Value(name))
  /\ UNCHANGED <<disk, work, stored, faults>>

-----------------------------------------------------------------------------
(* Publishing. *)

Stages(r, name, files) ==
  /\ work[r].at = "new"
  /\ work' = [work EXCEPT ![r] = [at |-> "staging", name |-> name, files |-> files]]
  /\ UNCHANGED <<stored, loaded, faults>>

Made(r) == work[r].at = "done" /\ work[r].name # NoAsset

\* register_reference and register_irodori_reference
Register(r, clip) ==
  /\ Consented(clip.consent, clip.transcript) /\ ValidWav(clip.wav)
  /\ LET m == [provenance |-> r, audio |-> Cleaned(clip.wav), transcript |-> clip.transcript, consent |-> clip.consent]
         base == Extend(File("manifest.json", m), "reference.wav", m.audio)
     IN Stages(r, Name("references", m),
               IF clip.transcript = "" THEN base ELSE Extend(base, "transcript.txt", [text |-> clip.transcript]))
  /\ UNCHANGED disk

\* store_reference_group
StoreGroup(r, members) ==
  /\ \A i \in DOMAIN members : Made(members[i]) /\ IntactReference(work[members[i]].name)
  /\ LET refs == [i \in DOMAIN members |-> Identity(work[members[i]].name)]
         m == [provenance |-> refs, references |-> refs]
     IN Stages(r, Name("groups", m), File("manifest.json", m))
  /\ UNCHANGED disk

\* store_clone_prompt, for the reference of an earlier run
StorePrompt(r, of) ==
  /\ Made(of) /\ IntactReference(work[of].name) /\ work[of].name.of.transcript # ""
  /\ LET name == work[of].name
         m == [reference |-> Identity(name), arrays |-> [codes |-> name.of.audio], text |-> name.of.transcript]
     IN Stages(r, Name("prompts", m), Extend(File("manifest.json", m), "arrays.npz", m.arrays))
  /\ UNCHANGED disk

Staged(r) == LET s == Staging(r, work[r].name) IN IF s \in DOMAIN disk THEN disk[s] ELSE NoFiles

\* _write, one file at a time
Write(r, file) ==
  /\ work[r].at = "staging" /\ file \in DOMAIN work[r].files \ DOMAIN Staged(r)
  /\ disk' = Extend(disk, Staging(r, work[r].name), Extend(Staged(r), file, work[r].files[file]))
  /\ UNCHANGED <<work, stored, loaded, faults>>

Finish(r, name) == work' = [work EXCEPT ![r] = [at |-> "done", name |-> name, files |-> NoFiles]]

\* _rename_exclusive, and the load that ends the command.
Publish(r) ==
  /\ work[r].at = "staging" /\ DOMAIN Staged(r) = DOMAIN work[r].files
  /\ LET name == work[r].name IN
     /\ Staging(r, name) # name => name \notin DOMAIN disk
     /\ disk' = Extend(Without(disk, Staging(r, name)), name, Staged(r))
     /\ stored' = Extend(stored, name, work[r].files)
     /\ Finish(r, name)
  /\ UNCHANGED <<loaded, faults>>

\* The asset exists already, or a write fails: only what this run staged is removed.
Fails(r) ==
  /\ work[r].at = "staging"
  /\ disk' = Without(disk, Staging(r, work[r].name))
  /\ Finish(r, NoAsset)
  /\ UNCHANGED <<stored, loaded, faults>>

Killed(r) ==
  /\ work[r].at = "staging"
  /\ work' = [work EXCEPT ![r] = [at |-> "dead", name |-> NoAsset, files |-> NoFiles]]
  /\ UNCHANGED <<disk, stored, loaded, faults>>

\* The file system, or a person, changes a file.
Damage(name, file) ==
  /\ faults < MaxFaults /\ name \in DOMAIN disk /\ file \in DOMAIN disk[name]
  /\ disk' = [disk EXCEPT ![name] = [@ EXCEPT ![file] = Damaged]]
  /\ faults' = faults + 1
  /\ UNCHANGED <<work, stored, loaded>>

-----------------------------------------------------------------------------
AssetsInit ==
  /\ disk = NoFiles /\ stored = NoFiles /\ loaded = NoFiles /\ faults = 0
  /\ work = [r \in Runs |-> [at |-> "new", name |-> NoAsset, files |-> NoFiles]]

AssetsNext ==
  \/ \E r \in Runs :
       \/ \E clip \in Clips : Register(r, clip)
       \/ \E members \in Groups : StoreGroup(r, members)
       \/ \E of \in Runs : StorePrompt(r, of)
       \/ \E file \in DOMAIN work[r].files : Write(r, file)
       \/ Publish(r) \/ Fails(r) \/ Killed(r)
  \/ \E name \in DOMAIN disk : name.category # "staging" /\ (Load(name) \/ \E file \in DOMAIN disk[name] : Damage(name, file))

AssetsSpec == AssetsInit /\ [][AssetsNext]_assetVars

-----------------------------------------------------------------------------
\* A name of an asset is never seen with files missing, whatever run died or failed
\* while another published the same asset.
PublishedWhole ==
  \A name \in DOMAIN disk : name.category # "staging" =>
    name \in DOMAIN stored /\ DOMAIN disk[name] = DOMAIN stored[name]

\* What a load returns under a name is what was published and consented under it, also
\* when a file of the asset, or of a reference it was made of, has changed since.
LoadedAsStored ==
  \A name \in DOMAIN loaded :
    LET audio(n) == stored[n]["reference.wav"] IN
    CASE name.category = "references" -> loaded[name].audio = audio(name)
      [] name.category = "groups" ->
           \A i \in DOMAIN loaded[name] : loaded[name][i].audio = audio(name.of.references[i].reference)
      [] name.category = "prompts" ->
           loaded[name].arrays = stored[name]["arrays.npz"] /\ loaded[name].voice.audio = audio(name.of.reference.reference)

AssetsHold == PublishedWhole /\ LoadedAsStored
=============================================================================
