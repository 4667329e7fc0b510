------------------------------ MODULE Tracker ------------------------------
(***************************************************************************)
(* services/api/tracking.py: IoUTracker links the detections of a video's  *)
(* sampled frames into tracks.  The detections of a frame are matched to   *)
(* the open tracks by overlap, best pairs first; every track becomes one   *)
(* multi-view read (jobs.py _run_video).                                   *)
(***************************************************************************)
EXTENDS Naturals, Sequences, FiniteSets

CONSTANTS
  Boxes,      \* where a plate can be in a frame
  Overlap,    \* iou of two boxes, as a rank: only the order matters
  Threshold,  \* iou_threshold, on the same scale
  MaxMisses,  \* max_misses
  MaxDets,    \* bound: detections in a frame
  MaxFrames   \* bound: sampled frames of a video

ASSUME TrackerAssumption ==
  /\ Overlap \in [Boxes \X Boxes -> Nat]
  /\ Threshold \in Nat
  /\ MaxMisses \in Nat
  /\ MaxDets \in Nat
  /\ MaxFrames \in Nat

VARIABLES
  pc,         \* "ready" between frames, "match" in update, "finished"
  frame,      \* sampled frames so far; the current one while in update
  dets,       \* the boxes detected in each frame so far
  tracks,     \* every track, the closed ones included
  candidates, \* update: the tracks that were open when the frame came
  matched     \* update: the <<track, detection>> pairs matched so far

vars == <<pc, frame, dets, tracks, candidates, matched>>

\* det is the position of the detection in its frame.
Observation == [frame : Nat, det : Nat, box : Boxes]
Track == [observations : Seq(Observation), misses : Nat, closed : BOOLEAN]

TypeOK ==
  /\ pc \in {"ready", "match", "finished"}
  /\ frame \in Nat
  /\ dets \in Seq(Seq(Boxes))
  /\ Len(dets) = frame
  /\ tracks \in Seq(Track)
  /\ \A t \in DOMAIN tracks : tracks[t].observations # <<>>
  /\ candidates \subseteq DOMAIN tracks
  /\ matched \subseteq candidates \X Nat

Init ==
  /\ pc = "ready"
  /\ frame = 0
  /\ dets = <<>>
  /\ tracks = <<>>
  /\ candidates = {}
  /\ matched = {}

OpenTracks == {t \in DOMAIN tracks : ~tracks[t].closed}

LastOf(s) == s[Len(s)]

\* Boxes of the frame in hand; Track.last of a track.
Found == LastOf(dets)
LastBox(t) == LastOf(tracks[t].observations).box

\* update(frame, detections): the open tracks are the candidates.
NewFrame(boxes) ==
  /\ pc = "ready"
  /\ frame < MaxFrames
  /\ pc' = "match"
  /\ frame' = frame + 1
  /\ dets' = Append(dets, boxes)
  /\ candidates' = OpenTracks
  /\ matched' = {}
  /\ UNCHANGED tracks

UsedTracks == {p[1] : p \in matched}
UsedDets   == {p[2] : p \in matched}

Rank(p) == Overlap[LastBox(p[1]), Found[p[2]]]

\* Mutant: a detection may be taken by a second track.
Pairs_SharedDet == {p \in (candidates \ UsedTracks) \X DOMAIN Found : Rank(p) >= Threshold}

\* The pairs that overlap enough and that neither side of has been used.
Pairs == {p \in (candidates \ UsedTracks) \X (DOMAIN Found \ UsedDets) : Rank(p) >= Threshold}

\* Mutant: the first track and the first detection, whatever they overlap.
Before_ByIndex(p, q) == p[1] < q[1] \/ (p[1] = q[1] /\ p[2] < q[2])

\* sorted(..., reverse=True) of (iou, track, detection): the highest comes first.
Before(p, q) ==
  \/ Rank(p) > Rank(q)
  \/ (Rank(p) = Rank(q) /\ p[1] > q[1])
  \/ (Rank(p) = Rank(q) /\ p[1] = q[1] /\ p[2] > q[2])

Observe(d) == [frame |-> frame, det |-> d, box |-> Found[d]]

\* The loop over the pairs takes the best one that is left.  A matched track is
\* not looked at again, so the new last box changes no other pair's overlap.
Match(p) ==
  /\ p \in Pairs
  /\ \A q \in Pairs \ {p} : Before(p, q)
  /\ tracks' = [tracks EXCEPT ![p[1]] =
       [observations |-> Append(tracks[p[1]].observations, Observe(p[2])),
        misses |-> 0, closed |-> tracks[p[1]].closed]]
  /\ matched' = matched \cup {p}
  /\ UNCHANGED <<pc, frame, dets, candidates>>

\* Mutant: a track is closed one frame early.
Missed_Early(track) ==
  [observations |-> track.observations, misses |-> track.misses + 1,
   closed |-> track.closed \/ track.misses + 1 >= MaxMisses]

Missed(track) ==
  [observations |-> track.observations, misses |-> track.misses + 1,
   closed |-> track.closed \/ track.misses + 1 > MaxMisses]

\* The new tracks: one for every detection that was not matched, in order.
Left == DOMAIN Found \ UsedDets

NthLeft(n) == CHOOSE d \in Left : Cardinality({e \in Left : e < d}) = n - 1

Opened(d) == [observations |-> <<Observe(d)>>, misses |-> 0, closed |-> FALSE]

NewTracks == [n \in 1 .. Cardinality(Left) |-> Opened(NthLeft(n))]

\* The rest of update: unmatched candidates miss a frame, unmatched detections
\* open tracks.
Settle ==
  /\ pc = "match"
  /\ Pairs = {}
  /\ tracks' = [t \in DOMAIN tracks |-> IF t \in candidates \ UsedTracks
                                        THEN Missed(tracks[t]) ELSE tracks[t]]
               \o NewTracks
  /\ pc' = "ready"
  /\ UNCHANGED <<frame, dets, candidates, matched>>

Finish ==
  /\ pc = "ready"
  /\ pc' = "finished"
  /\ tracks' = [t \in DOMAIN tracks |-> [tracks[t] EXCEPT !.closed = TRUE]]
  /\ UNCHANGED <<frame, dets, candidates, matched>>

Next ==
  \/ \E n \in 0 .. MaxDets : \E boxes \in [1 .. n -> Boxes] : NewFrame(boxes)
  \/ pc = "match" /\ \E p \in Pairs : Match(p)
  \/ Settle
  \/ Finish

Spec == Init /\ [][Next]_vars
-----------------------------------------------------------------------------
Observed(t) == {tracks[t].observations[i] : i \in DOMAIN tracks[t].observations}

FramesIncrease ==
  \A t \in DOMAIN tracks : \A i, j \in DOMAIN tracks[t].observations :
    i < j => tracks[t].observations[i].frame < tracks[t].observations[j].frame

\* No detection is in two tracks, in the middle of a frame too, and an
\* observation is what the detector found at that place of that frame.
NeverShared ==
  \A t \in DOMAIN tracks : \A o \in Observed(t) :
    /\ o.frame \in DOMAIN dets
    /\ o.det \in DOMAIN dets[o.frame]
    /\ o.box = dets[o.frame][o.det]
    /\ \A u \in DOMAIN tracks \ {t} : \A q \in Observed(u) :
         o.frame # q.frame \/ o.det # q.det

NoneLost ==
  pc # "match" =>
    \A f \in DOMAIN dets : \A d \in DOMAIN dets[f] :
      \E t \in DOMAIN tracks : \E o \in Observed(t) : o.frame = f /\ o.det = d

\* The tracks partition what the detector found: a track sees a plate at most once
\* in a frame and in the order of the frames (as the views of its read are), no
\* detection is in two tracks, and between frames none is lost.
TracksPartition == FramesIncrease /\ NeverShared /\ NoneLost

\* A track that update closed had missed max_misses + 1 frames in a row, and
\* between frames an open one has missed exactly the frames since it was last
\* seen, and no more than max_misses: a plate that comes back later opens a new one.
ClosedAfterMisses ==
  /\ pc = "ready" => \A t \in OpenTracks :
       /\ tracks[t].misses = frame - LastOf(tracks[t].observations).frame
       /\ tracks[t].misses <= MaxMisses
  /\ pc # "finished" => \A t \in DOMAIN tracks \ OpenTracks :
       /\ tracks[t].misses = MaxMisses + 1
       /\ LastOf(tracks[t].observations).frame + MaxMisses + 1 <= frame

\* A track is one plate that passes: its detections are its own, one for a frame, and it goes on
\* for exactly as long as the plate is not missed too often.
TracksAreKept == TracksPartition /\ ClosedAfterMisses

\* The box that a candidate had when the frame came.
BoxBefore(t) ==
  LET seen == tracks[t].observations IN
  IF LastOf(seen).frame < frame THEN LastOf(seen).box ELSE seen[Len(seen) - 1].box

\* Best pairs first leaves no pair that overlaps enough and that both sides
\* would rather have than what they got (or than nothing).
NoPairPassedOver ==
  pc = "ready" /\ frame > 0 => \A t \in candidates : \A d \in DOMAIN Found :
    LET overlap == Overlap[BoxBefore(t), Found[d]] IN
    overlap >= Threshold =>
      \E p \in matched : /\ p[1] = t \/ p[2] = d
                         /\ Overlap[BoxBefore(p[1]), Found[p[2]]] >= overlap

\* What the module's docstring says: a track that is not matched for max_misses
\* sampled frames is closed.  It does not hold: the code closes it one frame later.
ClosedAtMaxMisses ==
  pc = "ready" => \A t \in OpenTracks :
    MaxMisses > 0 => frame - LastOf(tracks[t].observations).frame < MaxMisses
=============================================================================
