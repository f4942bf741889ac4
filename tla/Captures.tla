------------------------------- MODULE Captures -------------------------------
(***************************************************************************)
(* From a capture to the dataset: SnapshotStore.save (stores.py) writes the  *)
(* image, its sidecar and its row in the index, AcquisitionManager           *)
(* (acquisition_manager.py) pairs it and enters it in the manifest of the    *)
(* running mission, and the routes of media.py capture one feed or a paired  *)
(* set.  A picture is a name with the time it was taken; what the cameras    *)
(* give is any combination of feeds (see RgbCamera and ThermalCamera).       *)
(***************************************************************************)
EXTENDS Integers, Sequences

CONSTANTS
  Pictures,     \* names for images, in the order they are used
  Routes,       \* request threads
  MaxNow,       \* bound on time
  Window        \* PAIR_WINDOW_SECONDS

ASSUME CapturesAssumption ==
  Pictures \subseteq Nat \ {0} /\ {MaxNow, Window} \subseteq Nat

Modality(feed) == IF feed = "thermal" THEN "thermal" ELSE "rgb"

VARIABLES
  images,     \* image files: names with the feed and the time they show
  sidecars,   \* pictures with a sidecar file
  index,      \* pictures with a row in snapshots.sqlite3
  manifest,   \* the items of all manifests, in the order they were entered
  mission,    \* the running mission, or 0
  missions,   \* missions left to start
  job,        \* where each request is, and what it carries
  shots,      \* requests left to come
  trouble,    \* failed writes and crashes left to happen
  now,
  cut         \* pictures that were being saved when the process died

archive == <<images, sidecars, index>>
captureVars == <<images, sidecars, index, manifest, mission, missions, job,
                 shots, trouble, now, cut>>

\* A request: the feeds it has still to save, its capture set (0 for none),
\* the picture at hand, the mission looked up, the sample and partner found.
NoJob == [at |-> "idle", feeds |-> <<>>, set |-> 0, picture |-> 0,
          mission |-> 0, sample |-> <<>>, partner |-> 0]

CapturesInit ==
  /\ images = {} /\ sidecars = {} /\ index = {}
  /\ manifest = <<>>
  /\ mission = 0 /\ missions \in Nat
  /\ job = [r \in Routes |-> NoJob]
  /\ shots \in Nat /\ trouble \in Nat
  /\ now = 0 /\ cut = {}

Be(r, there) == job' = [job EXCEPT ![r].at = there]

\* The next feed, or the end of the request.
Onward(r) ==
  job' = [job EXCEPT ![r] =
            IF Len(@.feeds) = 1 THEN NoJob
            ELSE [NoJob EXCEPT !.at = "save", !.feeds = Tail(job[r].feeds), !.set = job[r].set]]

(***************************************************************************)
(* The routes                                                               *)
(***************************************************************************)
\* A request gets a thread that is free, whichever it is.
Taken(r) ==
  /\ job[r] = NoJob /\ shots > 0
  /\ r = CHOOSE q \in Routes : job[q] = NoJob
  /\ shots' = shots - 1

Single(r, feed) ==
  /\ Taken(r)
  /\ job' = [job EXCEPT ![r] = [NoJob EXCEPT !.at = "save", !.feeds = <<feed>>]]
  /\ UNCHANGED <<archive, manifest, mission, missions, trouble, now, cut>>

\* Once there is a real frame.
CaptureSnapshot(r) == Single(r, "rgb_left")
ThermalSnapshot(r) == Single(r, "thermal")

\* Both views of one stereo frame, then the sensor; either may have none.
CaptureSet(r) ==
  /\ Taken(r) /\ mission # 0
  /\ \E fs \in {<<"rgb_left", "rgb_right", "thermal">>, <<"rgb_left", "rgb_right">>, <<"thermal">>} :
       job' = [job EXCEPT ![r] = [NoJob EXCEPT !.at = "save", !.feeds = fs, !.set = shots]]
  /\ UNCHANGED <<archive, manifest, mission, missions, trouble, now, cut>>

(***************************************************************************)
(* SnapshotStore.save(), under its lock                                     *)
(***************************************************************************)
Saving(r) == job[r].at \in {"sidecar", "index", "undo", "undo sidecar"}

InHand == {job[r].picture : r \in {q \in Routes : Saving(q)}}

\* Takes a name for free until it is in the index.
Names_Indexed == index

Names == {i.name : i \in images}
Image(p) == CHOOSE i \in images : i.name = p

\* A name is a time and a random number: none comes twice.
Untaken == Pictures \ (Names \cup sidecars)

WriteImage(r) ==
  /\ job[r].at = "save"
  /\ \A q \in Routes : ~Saving(q)
  /\ \E p \in Untaken :
       /\ \A q \in Untaken : p <= q
       /\ images' = images \cup {[name |-> p, feed |-> Head(job[r].feeds), time |-> now]}
       /\ job' = [job EXCEPT ![r].at = "sidecar", ![r].picture = p]
  /\ UNCHANGED <<sidecars, index, manifest, mission, missions, shots, trouble, now, cut>>

Fails(r) == trouble > 0 /\ trouble' = trouble - 1 /\ Be(r, "undo")

\* A write that fails may leave a file that was created.
WriteSidecar(r) ==
  /\ job[r].at = "sidecar"
  /\ \/ /\ sidecars' = sidecars \cup {job[r].picture}
        /\ Be(r, "index")
        /\ UNCHANGED trouble
     \/ Fails(r) /\ sidecars' \in {sidecars, sidecars \cup {job[r].picture}}
  /\ UNCHANGED <<images, index, manifest, mission, missions, shots, now, cut>>

WriteIndex(r) ==
  /\ job[r].at = "index"
  /\ \/ /\ index' = index \cup {job[r].picture}
        /\ Be(r, "look")
        /\ UNCHANGED trouble
     \/ Fails(r) /\ UNCHANGED index
  /\ UNCHANGED <<images, sidecars, manifest, mission, missions, shots, now, cut>>

\* Leaves the image of a save that failed.
Undo_KeepsImage(r) ==
  /\ job[r].at = "undo"
  /\ Be(r, "undo sidecar")
  /\ UNCHANGED <<archive, manifest, mission, missions, shots, trouble, now, cut>>

Undo(r) ==
  /\ job[r].at = "undo"
  /\ images' = {i \in images : i.name # job[r].picture}
  /\ Be(r, "undo sidecar")
  /\ UNCHANGED <<sidecars, index, manifest, mission, missions, shots, trouble, now, cut>>

UndoSidecar(r) ==
  /\ job[r].at = "undo sidecar"
  /\ sidecars' = sidecars \ {job[r].picture}
  /\ Onward(r)
  /\ UNCHANGED <<images, index, manifest, mission, missions, shots, trouble, now, cut>>

(***************************************************************************)
(* AcquisitionManager.record_snapshot()                                     *)
(***************************************************************************)
\* The mission is looked up when the image is saved, not when it was taken.
Look(r) ==
  /\ job[r].at = "look"
  /\ \/ mission = 0 /\ Onward(r)
     \/ /\ mission # 0
        /\ job' = [job EXCEPT ![r].at = IF job[r].set = 0 THEN "pair" ELSE "enter",
                              ![r].mission = mission,
                              ![r].sample = <<mission, "set", job[r].set>>]
  /\ UNCHANGED <<archive, manifest, mission, missions, shots, trouble, now, cut>>

Between(i, p) ==
  IF Image(manifest[i].picture).time > Image(p).time
  THEN Image(manifest[i].picture).time - Image(p).time
  ELSE Image(p).time - Image(manifest[i].picture).time

\* Items of the mission that show the other modality within the window.
Candidates(p, m) ==
  {i \in 1..Len(manifest) :
     /\ manifest[i].mission = m
     /\ Modality(Image(manifest[i].picture).feed) # Modality(Image(p).feed)
     /\ Between(i, p) <= Window}

\* The closest one, the last of several.
Pair(r) ==
  /\ job[r].at = "pair"
  /\ LET p == job[r].picture
         C == Candidates(p, job[r].mission)
         best == CHOOSE i \in C : \A k \in C :
                   Between(i, p) < Between(k, p) \/ (Between(i, p) = Between(k, p) /\ i >= k)
     IN job' = [job EXCEPT ![r].at = "enter",
                  ![r].sample = IF C = {} THEN <<job[r].mission, "alone", p>>
                                ELSE manifest[best].sample,
                  ![r].partner = IF C = {} THEN 0 ELSE manifest[best].picture]
  /\ UNCHANGED <<archive, manifest, mission, missions, shots, trouble, now, cut>>

Item(r) ==
  [mission |-> job[r].mission, picture |-> job[r].picture, set |-> job[r].set,
   sample |-> job[r].sample, partner |-> job[r].partner]

\* append_manifest_item() reads the manifest again; a failure is logged.
Enter(r) ==
  /\ job[r].at = "enter"
  /\ \/ /\ manifest' = Append(manifest, Item(r))
        /\ UNCHANGED trouble
     \/ trouble > 0 /\ trouble' = trouble - 1 /\ UNCHANGED manifest
  /\ Onward(r)
  /\ UNCHANGED <<archive, mission, missions, shots, now, cut>>

\* DatasetExporter.validate(): the samples that can be exported show both
\* modalities; every file is there (ManifestNamesFiles).
Shown(sample, m) ==
  {Modality(Image(manifest[i].picture).feed) :
     i \in {k \in 1..Len(manifest) : manifest[k].mission = m /\ manifest[k].sample = sample}}

ValidSamples(m) ==
  {s \in {manifest[i].sample : i \in 1..Len(manifest)} : Shown(s, m) = {"rgb", "thermal"}}

(***************************************************************************)
(* Missions, time and the process                                           *)
(***************************************************************************)
TurnMission ==
  /\ \/ mission = 0 /\ missions > 0 /\ mission' = missions /\ missions' = missions - 1
     \/ mission # 0 /\ mission' = 0 /\ UNCHANGED missions
  /\ UNCHANGED <<archive, manifest, job, shots, trouble, now, cut>>

Tick ==
  /\ now < MaxNow
  /\ now' = now + 1
  /\ UNCHANGED <<archive, manifest, mission, missions, job, shots, trouble, cut>>

\* rebuild_index() reads the folders when the program starts again.
Crash ==
  /\ trouble > 0 /\ trouble' = trouble - 1
  /\ job' = [r \in Routes |-> NoJob]
  /\ index' = Names
  /\ cut' = cut \cup InHand
  /\ UNCHANGED <<images, sidecars, manifest, mission, missions, shots, now>>

CapturesNext ==
  \/ \E r \in Routes :
       \/ CaptureSnapshot(r) \/ ThermalSnapshot(r) \/ CaptureSet(r) \/ WriteImage(r) \/ WriteSidecar(r) \/ WriteIndex(r)
       \/ Undo(r) \/ UndoSidecar(r) \/ Look(r) \/ Pair(r) \/ Enter(r)
  \/ TurnMission \/ Tick \/ Crash

CapturesTypeOK ==
  /\ images \subseteq [name : Pictures, feed : {"rgb_left", "rgb_right", "thermal"}, time : 0..MaxNow]
  /\ \A i, k \in images : i.name = k.name => i = k
  /\ sidecars \subseteq Pictures /\ index \subseteq Pictures
  /\ now \in 0..MaxNow /\ cut \subseteq Nat /\ {mission, missions} \subseteq Nat
  /\ shots \in Nat /\ trouble \in Nat

(***************************************************************************)
(* Properties                                                               *)
(***************************************************************************)
\* "no orphan image or sidecar is left behind" (stores.py:188): an image has its
\* row and its sidecar, a row and a sidecar their image, but for the one being
\* saved, whichever step of which save fails.  After a crash in the middle of a
\* save only the rows are made anew: that picture may lack its sidecar, or leave
\* one behind.
IndexIsTrue ==
  /\ index \subseteq Names /\ Names \ index \subseteq InHand
  /\ (Names \ sidecars) \cup (sidecars \ Names) \subseteq InHand \cup cut

\* What a manifest names is in the archive, whatever save, entry or restart
\* came in between.
ManifestNamesFiles ==
  \A i \in 1..Len(manifest) : manifest[i].picture \in Names \cap sidecars \cap index

\* Partners are of one mission, one sample, two modalities and within the
\* window, though others enter theirs and missions change between the look
\* for a partner and the entry, and can be exported; the images of a set that reach one mission
\* share a sample, whichever of them fail.
PairsStayTogether ==
  /\ \A i \in 1..Len(manifest) : manifest[i].partner # 0 =>
       /\ \E k \in Candidates(manifest[i].picture, manifest[i].mission) \cap (1..(i - 1)) :
            manifest[k].picture = manifest[i].partner /\ manifest[k].sample = manifest[i].sample
       /\ manifest[i].sample \in ValidSamples(manifest[i].mission)
  /\ \A i, k \in 1..Len(manifest) :
       manifest[i].set # 0 /\ manifest[i].set = manifest[k].set /\ manifest[i].mission = manifest[k].mission
         => manifest[i].sample = manifest[k].sample
=============================================================================
